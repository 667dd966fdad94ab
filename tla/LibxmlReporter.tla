--------------------------- MODULE LibxmlReporter ---------------------------
(***************************************************************************)
(* The XML reporter that uses libxml2 (libxml_reporter.c): a document tree *)
(* per suite in the memory of the main process, and a temporary file per   *)
(* test from which the main process parses what the test wrote. Each       *)
(* operation takes the state [own, file] of the calling process to the     *)
(* next, as in TextReporter. A message is a sequence of classes of         *)
(* characters.                                                             *)
(***************************************************************************)
EXTENDS Naturals, Sequences, FiniteSets

CONSTANTS
  BufferSize, \* the size of childData
  TagSize,    \* the length of an element without its message
  MaxNested   \* NESTED_SUITE_MAX

LOCAL Seqs == INSTANCE SequencesExt

\* the classes: "plain", "restricted" (not allowed in XML) and "broken" (not
\* UTF-8, or overlong), which is written in four

\* xmlEscapePropValue() of a message, if it returns: at a restricted character
\* it writes without moving on
Returns(message) == \A i \in DOMAIN message : message[i] # "restricted"
Size(message) ==
  Len(message) + 3 * Cardinality({i \in DOMAIN message : message[i] = "broken"})

\* id: the location of an assertion, 0 for none
Element(k, id, message) == [kind |-> k, id |-> id, message |-> message]
SizeOf(n) == TagSize + Size(n.message)
Length(s) == Seqs!FoldLeft(LAMBDA n, e : n + SizeOf(e), 0, s)

DropLast(s) == SubSeq(s, 1, Len(s) - 1)

\* stack: context_stack; writer: of the temporary file; pending: the elements
\* written and not in the file
create ==
  [own  |-> [stack |-> <<>>, writer |-> "null", pending |-> <<>>,
             hung |-> FALSE, crashed |-> FALSE],
   file |-> [tmp |-> <<>>, out |-> <<>>]]

Flush(st)  == [own  |-> [st.own EXCEPT !.pending = <<>>],
               file |-> [st.file EXCEPT !.tmp = @ \o st.own.pending]]
\* how much reaches the file before it is closed is up to libxml2 and stdio: all
\* elements, or some and perhaps a piece of the next
Killed(st) ==
  {[st.file EXCEPT !.tmp = @ \o st.own.pending]} \cup
  {[st.file EXCEPT !.tmp = @ \o SubSeq(st.own.pending, 1, n) \o cut] :
     n \in 0..(Len(st.own.pending) - 1), cut \in {<<>>, <<Element("cut", 0, <<>>)>>}}

start_suite(st, s) ==
  IF Len(st.own.stack) >= MaxNested THEN [st EXCEPT !.own.crashed = TRUE]
  ELSE [st EXCEPT !.own.stack = Append(@, [suite |-> s, tests |-> <<>>])]

Here(st) == Len(st.own.stack)
Last(st) == Len(st.own.stack[Here(st)].tests)

start_test(st, t) ==
  [own  |-> [st.own EXCEPT !.stack[Here(st)].tests = Append(@, [test |-> t, nodes |-> <<>>]),
                           !.writer = "open", !.pending = <<>>],
   file |-> [st.file EXCEPT !.tmp = <<>>]]

\* xml_show_fail(), xml_show_skip(): a writer that was freed may do anything,
\* one that is NULL writes nothing, but either way the message is escaped
show(st, e) ==
  LET writes == IF st.own.writer = "open" THEN [st EXCEPT !.own.pending = Append(@, e)] ELSE st
  IN  {IF Returns(e.message) THEN writes ELSE [st EXCEPT !.own.hung = TRUE]}
        \cup {[st EXCEPT !.own.crashed = TRUE] : w \in {st.own.writer} \cap {"freed"}}

Error == Element("error", 0, <<>>)
AddNodes(st, nodes) ==
  [st EXCEPT !.own.stack[Here(st)].tests[Last(st)].nodes = @ \o nodes]

\* in the tree of the calling process: that of a child ends with it
show_incomplete(st) == AddNodes(st, <<Error>>)

\* insert_child_results(): fread() into a full buffer never sees the end of
\* the file; what libxml2 cannot parse is replaced by an error.
\* fclose() deletes the file
IsWhole(e) == e.kind # "cut"
insert_child_results(st) ==
  LET tmp == st.file.tmp
  IN  IF Length(tmp) >= BufferSize THEN [st EXCEPT !.own.hung = TRUE]
      ELSE AddNodes([st EXCEPT !.file.tmp = <<>>],
                    (IF \A i \in DOMAIN tmp : IsWhole(tmp[i]) THEN <<>> ELSE <<Error>>)
                      \o SelectSeq(tmp, IsWhole))

\* mutant: the writer is not freed, so nothing is written
Bugfinish_test(st) == insert_child_results([st EXCEPT !.own.writer = "freed"])
finish_test(st) == insert_child_results(Flush([st EXCEPT !.own.writer = "freed"]))

finish_suite(st, counters) ==
  [own  |-> [st.own EXCEPT !.stack = DropLast(@)],
   file |-> [st.file EXCEPT !.out =
               Append(@, [suite |-> st.own.stack[Here(st)].suite,
                          tests |-> st.own.stack[Here(st)].tests, counts |-> counters])]]
=============================================================================
