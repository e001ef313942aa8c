----------------------------- MODULE MCAutoPolicy -----------------------------
(***************************************************************************)
(* A small instance of AutoPolicy for TLC: an extraction that is sound,    *)
(* one with a link its rules do not declare and one with a rule whose      *)
(* source is unknown.                                                      *)
(***************************************************************************)
EXTENDS AutoPolicy

Item(id) == [id |-> id]
Rule(id, sources) == [id |-> id, sources |-> sources]

Sound ==
    [policies |-> <<Item("p1"), Item("p2")>>, rules |-> <<Rule("r1", {"p1", "p2"})>>,
     mapping |-> {<<"p1", "r1">>, <<"p2", "r1">>}]

Extractions ==
    {Sound,
     [Sound EXCEPT !.rules = <<Rule("r1", {"p1"})>>],
     [Sound EXCEPT !.rules = <<Rule("r1", {"p1", "p3"})>>]}
=============================================================================
