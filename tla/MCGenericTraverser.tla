------------------------- MODULE MCGenericTraverser -------------------------
(***************************************************************************)
(* All models with few states for GenericTraverser: at most two            *)
(* transitions leave a state, and a label depends on the target.           *)
(***************************************************************************)
EXTENDS GenericTraverser

CONSTANTS a, b, c, d

ABCD == {a, b, c, d}
AB   == {a, b}

UpToTwo(set) == {<<>>} \cup {<<x>> : x \in set} \cup {<<x, y>> : x, y \in set}

Labelled(seq, bad) ==
  [k \in 1..Len(seq) |-> [target |-> seq[k], label |-> seq[k] \in bad]]

Model(init, next, bad, stuttering, room) ==
  [initial |-> Labelled(init, bad), next |-> [s \in DOMAIN next |-> Labelled(next[s], bad)],
   createStutteringState |-> stuttering, room |-> room]

\* The states are interchangeable: a is the first initial state.
ThreeStateModels ==
  {Model(i, [s \in ABCD |-> IF s = d THEN <<>> ELSE IF s = c THEN o ELSE n[s]], bad, FALSE, 3) :
     i \in {<<a>>, <<a, b>>}, n \in [AB -> UpToTwo({a, b, c})],
     o \in {<<>>, <<a>>, <<c>>, <<b, a>>}, bad \in {{}, {a}, {c}}}

\* Models for which a storage of three states may be too small, and with four
\* states a path tracker for three.
FourStateModels ==
  {Model(i, [s \in ABCD |-> IF s = a THEN n ELSE o[s]], bad, FALSE, room) :
     i \in {<<a>>, <<a, b>>}, n \in UpToTwo({b, c, d}) \cup {<<b, c, d>>},
     o \in [{b, c, d} -> {<<>>, <<c, d>>, <<b, c, d>>}], bad \in {{}, {d}}, room \in 3..4}

StutteringModels ==
  {Model(i, [s \in ABCD |-> IF s \in AB THEN n[s] ELSE <<>>], bad, TRUE, room) :
     i \in {<<>>, <<a>>, <<a, b>>, <<Stuttering>>}, room \in 1..3,
     n \in [AB -> UpToTwo({a, b, Stuttering})], bad \in {{}, {a}, {b}}}

SmallModels == ThreeStateModels \cup FourStateModels \cup StutteringModels
=============================================================================
