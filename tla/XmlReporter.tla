---------------------------- MODULE XmlReporter ----------------------------
(***************************************************************************)
(* The XML reporter (xml_reporter.c): a file per suite, written by the     *)
(* main process, and a temporary file per test through which the process   *)
(* of the test hands its failures over. Each operation takes the state     *)
(* [own, file] of the calling process to the next, as in TextReporter.     *)
(*                                                                         *)
(* The temporary file is written again from its start, with all text so    *)
(* far, for each element; it is a sequence of pieces of elements, so that  *)
(* one text can end in the middle of another.                              *)
(***************************************************************************)
EXTENDS Naturals, Sequences

CONSTANT Size \* the length of an element, by kind

DropLast(s) == SubSeq(s, 1, Len(s) - 1)

\* output: NULL, written <<>>, or <<text>>; pending: the text stdio has not
\* written to the temporary file; file_stack: the suites whose files are open
create ==
  [own  |-> [output |-> <<>>, pending |-> <<>>, file_stack |-> <<>>, crashed |-> FALSE],
   file |-> [tmp |-> <<>>, out |-> <<>>]]

Text(e) == [i \in 1..Size[e.kind] |-> [element |-> e, piece |-> i]]

\* text written from the start of a file leaves what was behind it
Over(old, new) == new \o SubSeq(old, Len(new) + 1, Len(old))
Flush(st)  == [own  |-> [st.own EXCEPT !.pending = <<>>],
               file |-> [st.file EXCEPT !.tmp = Over(@, st.own.pending)]]
Killed(st) == {st.file}

start_suite(st, s) ==
  [own  |-> [st.own EXCEPT !.file_stack = Append(@, s)],
   file |-> [st.file EXCEPT !.out = Append(@, [suite |-> s, tests |-> <<>>, ended |-> FALSE])]]

\* the file on top of the stack
Top(st) == CHOOSE i \in DOMAIN st.file.out :
             st.file.out[i].suite = st.own.file_stack[Len(st.own.file_stack)]

start_test(st, t) ==
  [own  |-> [st.own EXCEPT !.output = << <<>> >>, !.pending = <<>>],
   file |-> [tmp |-> <<>>,
             out |-> [st.file.out EXCEPT ![Top(st)].tests =
                        Append(@, [test |-> t, text |-> <<>>, ended |-> FALSE])]]]

\* mutant: the text is appended, not written from the start
Bugshow(st, e) ==
  IF st.own.output = <<>> THEN [st EXCEPT !.own.crashed = TRUE]
  ELSE LET text == st.own.output[1] \o Text(e)
       IN  [st EXCEPT !.own.output = <<text>>, !.own.pending = @ \o text]

\* xml_show_skip(), xml_show_fail(), xml_show_incomplete(): concat() cannot
\* append to NULL, and the fseek() writes what was pending
show(st, e) ==
  IF st.own.output = <<>> THEN [st EXCEPT !.own.crashed = TRUE]
  ELSE LET text == st.own.output[1] \o Text(e)
       IN  [own  |-> [st.own EXCEPT !.output = <<text>>, !.pending = text],
            file |-> Flush(st).file]

\* transfer_output_from() the temporary file, which it writes first
finish_test(st) ==
  LET f == Flush(st)
      n == Len(st.file.out[Top(st)].tests)
  IN  [own  |-> [f.own EXCEPT !.output = IF @ = << <<>> >> THEN <<>> ELSE @],
       file |-> [f.file EXCEPT !.out[Top(st)].tests[n].text = f.file.tmp,
                               !.out[Top(st)].tests[n].ended = TRUE]]

finish_suite(st) ==
  [own  |-> [st.own EXCEPT !.file_stack = DropLast(@)],
   file |-> [st.file EXCEPT !.out[Top(st)].ended = TRUE]]
=============================================================================
