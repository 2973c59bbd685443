------------------------------- MODULE Answers -------------------------------
(***************************************************************************)
(* What a node reads of a model's answer (llm/base.py extract_json,        *)
(* agent/nodes.py _ask_json).  An answer is a sequence of tokens: braces,  *)
(* braces inside a JSON string, the fences of a code block, and words,     *)
(* which are prose and spoil an object they are in.                        *)
(***************************************************************************)
EXTENDS Integers, Sequences, FiniteSets, SequencesExt, FiniteSetsExt

Tokens == {"{", "}", "quoted {", "quoted }", "fence", "word"}
Nothing == <<>>         \* None: no object is without its braces

(* The braces the scan counts, and those that are JSON's. *)
Opens(token) == token \in {"{", "quoted {"}
Closes(token) == token \in {"}", "quoted }"}

(* json.loads of a candidate gives an object. *)
Nesting(text, i) ==
    Cardinality({j \in 1..i : text[j] = "{"}) - Cardinality({j \in 1..i : text[j] = "}"})
Parses(text) ==
    /\ text # <<>> /\ Range(text) \cap {"fence", "word"} = {}
    /\ \A i \in 1..Len(text) - 1 : Nesting(text, i) > 0
    /\ Nesting(text, Len(text)) = 0

(* The code block: from a brace after a fence to the first brace before one. *)
Fenced(text) ==
    LET Before(i) == {j \in i + 2..Len(text) - 1 : text[j] = "}" /\ text[j + 1] = "fence"}
        starts == {i \in 1..Len(text) - 1 :
                      text[i] = "fence" /\ text[i + 1] = "{" /\ Before(i) # {}}
    IN IF starts = {} THEN <<>>
       ELSE <<SubSeq(text, Min(starts) + 1, Min(Before(Min(starts))))>>

(* The scan of the text for objects; start = 0 while it is in none. *)
Scan(text) ==
    LET Step(s, i) ==
            IF Opens(text[i])
            THEN [s EXCEPT !.depth = @ + 1, !.start = IF s.depth = 0 THEN i ELSE @]
            ELSE IF ~ Closes(text[i]) THEN s
            ELSE IF s.depth = 1 /\ s.start # 0
                 THEN [depth |-> 0, start |-> 0, found |-> Append(s.found, SubSeq(text, s.start, i))]
                 ELSE [s EXCEPT !.depth = @ - 1]
    IN FoldLeft(Step, [depth |-> 0, start |-> 0, found |-> <<>>], [i \in DOMAIN text |-> i]).found

ExtractJson(text) ==
    LET candidates == Fenced(text) \o Scan(text)
        objects == {i \in DOMAIN candidates : Parses(candidates[i])}
    IN IF objects = {} THEN Nothing ELSE candidates[Min(objects)]

(* A node takes an object that has its fields, or some of them. *)
AskJson(text, fields) == IF fields = "none" THEN Nothing ELSE ExtractJson(text)

------------------------------------------------------------------------------
(* What must hold. *)

(* Of any answer a node is given the object of its code block, or else the first one
   in the text that has as many braces closed as opened before it.  Where none is
   closed too many that is "the first complete object in the text" (llm/base.py:133);
   after a closing brace too many it is not: an object that follows is passed over,
   and one just inside it is taken. *)
Depth(text, i) ==
    Cardinality({j \in 1..i : Opens(text[j])}) - Cardinality({j \in 1..i : Closes(text[j])})
Objects(text) ==
    {s \in (DOMAIN text) \X (DOMAIN text) :
        /\ Opens(text[s[1]]) /\ Closes(text[s[2]]) /\ s[1] < s[2]
        /\ Depth(text, s[1] - 1) = 0 /\ Depth(text, s[2]) = 0
        /\ \A i \in s[1]..s[2] - 1 : Depth(text, i) > 0
        /\ Parses(SubSeq(text, s[1], s[2]))}
FirstObjectIsRead(text, fields) ==
    LET given == AskJson(text, fields)
        block == {b \in Range(Fenced(text)) : Parses(b)}
        first == {s \in Objects(text) : \A t \in Objects(text) : s[1] <= t[1]}
    IN /\ given # Nothing => Parses(given)
       /\ fields # "none" =>
              given = IF block # {} THEN CHOOSE b \in block : TRUE
                      ELSE IF first = {} THEN Nothing
                      ELSE LET s == CHOOSE s \in first : TRUE IN SubSeq(text, s[1], s[2])
==============================================================================
