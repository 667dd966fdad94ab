--------------------------- MODULE ParameterNames ---------------------------
(***************************************************************************)
(* How a mock knows the names of its parameters: the text of the arguments *)
(* of mock(), as the preprocessor spells it, is split into names, marks    *)
(* for boxed doubles and a count (parameters.c). A text is a sequence of   *)
(* ",", " ", "box_double(", "d(", ")" and names, of which some begin with  *)
(* box_double themselves.                                                  *)
(***************************************************************************)
EXTENDS Integers, Sequences, FiniteSets

CONSTANT BoxLike \* the names that begin with box_double

ASSUME BoxLikeAssumption == BoxLike \cap {",", " ", "box_double(", "d(", ")"} = {}

\* mutant: only commas separate
BugSeparators == {","}
Separators == {",", " "}

IsWordAt(text, i) == text[i] \notin Separators /\ (i = 1 \/ text[i - 1] \in Separators)
WordEnd(text, i) ==
  CHOOSE j \in i..Len(text) :
    /\ \A k \in i..j : text[k] \notin Separators
    /\ j = Len(text) \/ text[j + 1] \in Separators

Words(text)  == {i \in DOMAIN text : IsWordAt(text, i)}
Starts(text) == CHOOSE s \in [1..Cardinality(Words(text)) -> Words(text)] :
                  \A i, j \in DOMAIN s : i < j => s[i] < s[j]

\* tokenise_by_commas_and_whitespace(), with an empty token for what follows a last separator
Tokens(text) ==
  LET starts == Starts(text)
      words  == [n \in DOMAIN starts |-> SubSeq(text, starts[n], WordEnd(text, starts[n]))]
  IN  IF text # <<>> /\ text[Len(text)] \in Separators THEN Append(words, <<>>) ELSE words

strip_function_from(token, function) ==
  IF Len(token) >= 2 /\ token[1] = function /\ token[Len(token)] = ")"
  THEN SubSeq(token, 2, Len(token) - 1) ELSE token

create_vector_of_names(text) ==
  [n \in DOMAIN Tokens(text) |-> strip_function_from(strip_function_from(Tokens(text)[n], "box_double("), "d(")]

create_vector_of_double_markers_for(text) ==
  [n \in DOMAIN Tokens(text) |-> Tokens(text)[n] # <<>> /\ Tokens(text)[n][1] \in {"box_double("} \cup BoxLike]

number_of_parameters_in(text) ==
  IF text = <<>> THEN 0 ELSE 1 + Cardinality({i \in DOMAIN text : text[i] = ","})
=============================================================================
