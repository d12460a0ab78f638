-------------------------- MODULE MCModelExecutor --------------------------
(***************************************************************************)
(* Small steps for ModelExecutor: every tree of choices with up to three   *)
(* options and two choices in a row, and with two options and three        *)
(* choices.  An option may have probability 0, and a choice one option.    *)
(***************************************************************************)
EXTENDS ModelExecutor

Paths(options, depth) == UNION {[1..n -> 0..options - 1] : n \in 0..depth - 1}

Wide == [Paths(3, 2) -> {<<>>, <<6>>, <<1, 5>>, <<2, 2, 2>>}]
Deep == [Paths(2, 3) -> {<<>>, <<0, 6>>, <<3, 3>>}]

SomeSteps == Wide \cup {s \in Deep : s[<<>>] # <<>> /\ s[<<0>>] # <<>>}
=============================================================================
