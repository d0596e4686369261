---------------------------- MODULE MCRetrieval ----------------------------
(***************************************************************************)
(* Lengths, caps and the budget are of the size they have in the settings. *)
(* One control is split in the middle of its summary, one has a sentence   *)
(* over the cap, one appears with the same text in two frameworks.  Two    *)
(* blocks of 259 characters are 128 tokens when counted one by one, and    *)
(* 130 when counted together.                                              *)
(***************************************************************************)
EXTENDS Retrieval

S(chars, terms) == [chars |-> chars, terms |-> terms]
Control(framework, id, terms, summary) ==
    [framework |-> framework, id |-> id, head |-> 30, terms |-> terms, summary |-> summary]

Short == Control("nist", "c1", {"a"}, <<S(184, {"b"})>>)
Twin == Control("soc2", "c1", {"a"}, <<S(184, {"b"})>>)
Long == Control("nist", "c2", {"c"}, <<S(121, {"a"}), S(62, {}), S(130, {"b"})>>)
Huge == Control("soc2", "c3", {"b"}, <<S(300, {"c"}), S(41, {"a"})>>)

MCCorpora == {{Short, Twin, Long}, {Short, Huge}}

Anything == [framework |-> Absent, control |-> Absent, version |-> Absent]
MCHalf == <<1, 2>>
Question(terms, filter, topK, min) ==
    [terms |-> terms, filter |-> filter, topK |-> topK, min |-> min]
MCQuestions ==
    {Question({}, Anything, 2, Zero), Question({"a"}, Anything, 1, Zero),
     Question({"a", "b"}, Anything, 3, MCHalf),
     Question({"b", "c"}, [Anything EXCEPT !.framework = "nist"], 3, Zero)}
=============================================================================
