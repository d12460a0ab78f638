------------------------------- MODULE MCCApi -------------------------------
(***************************************************************************)
(* Two formulas, two chains and two calls that run at the same time.       *)
(***************************************************************************)
EXTENDS CApi, TLC

CONSTANTS f, g, l, m, c, d

FG == {f, g}
LM == {l, m}
CD == {c, d}
=============================================================================
