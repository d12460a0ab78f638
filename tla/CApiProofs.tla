----------------------------- MODULE CApiProofs -----------------------------
(***************************************************************************)
(* Proofs about CApi for any number of formulas, chains and calls, and any *)
(* number of references.                                                   *)
(***************************************************************************)
EXTENDS CApi, FiniteSetTheorems, TLAPS

-----------------------------------------------------------------------------
(***************************************************************************)
(* The inductive invariant.  A running call is a check with the reference  *)
(* and the copy it took, or a build with copies; a count is the number of  *)
(* its holders; the shared pointer lives exactly as long as the count is   *)
(* not zero.  Once the process was terminated, no count matters.           *)
(***************************************************************************)
CallInv ==
  \A c \in Calls : \/ call[c] = NoCall
                   \/ \E f \in Formulas : call[c] = Checking(f)
                   \/ \E F \in SUBSET Formulas : call[c] = Building(F)

UsersIn(table, f) == {c \in Calls : f \in table[c].referenced}

CountInv ==
  running =>
    \A f \in Formulas : refs[f] = held[f] + Cardinality(UsersIn(call, f)) + lost[f]

HolderInv ==
  /\ running => \A f \in Formulas : holder[f] = "live" <=> refs[f] > 0
  /\ \A f \in Formulas : held[f] > 0 => holder[f] = "live"
  /\ \A f \in Formulas : holder[f] = "none" =>
       /\ refs[f] = 0 /\ held[f] = 0 /\ lost[f] = 0
       /\ \A c \in Calls : f \notin call[c].referenced

ChainInv ==
  /\ running => \A l \in Chains : lmcRefs[l] = lmcHeld[l] + lmcLost[l]
  /\ \A l \in Chains : lmcHeld[l] > 0 => lmc[l] = "live"
  /\ \A l \in Chains : lmc[l] = "none" => lmcRefs[l] = 0 /\ lmcHeld[l] = 0 /\ lmcLost[l] = 0

ObjectInv ==
  /\ \A o \in objects : /\ client = "python" /\ held[o.formula] > 0
                        /\ o.lmc # NoLmc => lmcHeld[o.lmc] > 0
  /\ client = "python" => \A c \in Calls : \A f \in call[c].formulas : held[f] > 0

IInv == TypeOK /\ CallInv /\ CountInv /\ HolderInv /\ ChainInv /\ ObjectInv

-----------------------------------------------------------------------------
(***************************************************************************)
(* The calls that hold a reference, and what becomes of their number.      *)
(***************************************************************************)

\* The number of users is a natural number, and zero only without users.
LEMMA UsersFinite ==
  ASSUME NEW table, NEW f
  PROVE  /\ IsFiniteSet(UsersIn(table, f))
         /\ Cardinality(UsersIn(table, f)) \in Nat
         /\ Cardinality(UsersIn(table, f)) = 0 <=> UsersIn(table, f) = {}
BY FS_Subset, FS_CardinalityType, FS_EmptySet, CApiAssumption DEF UsersIn

\* The records of calls have their type.
LEMMA CallTypes ==
  /\ NoCall \in CallRecords
  /\ \A f \in Formulas : Checking(f) \in CallRecords
  /\ \A F \in SUBSET Formulas : Building(F) \in CallRecords
BY DEF NoCall, Checking, Building, CallRecords

\* What the records of calls are made of.
LEMMA CallFields ==
  /\ NoCall.kind = "none" /\ NoCall.formulas = {} /\ NoCall.referenced = {}
  /\ \A f : /\ Checking(f).kind = "check" /\ Checking(f).formulas = {f}
            /\ Checking(f).referenced = {f} /\ Checking(f).copies = {f}
  /\ \A F : /\ Building(F).kind = "build" /\ Building(F).formulas = F
            /\ Building(F).referenced = {} /\ Building(F).copies = F
BY DEF NoCall, Checking, Building

\* A step that changes the record of one call: a call with a reference to f is
\* one user more when it begins and one less when it ends.
LEMMA CallStep ==
  ASSUME NEW c \in Calls, \A d \in Calls \ {c} : call'[d] = call[d], NEW f
  PROVE  /\ Cardinality(UsersIn(call, f)) \in Nat /\ Cardinality(UsersIn(call', f)) \in Nat
         /\ f \notin call[c].referenced /\ f \in call'[c].referenced
              => Cardinality(UsersIn(call', f)) = Cardinality(UsersIn(call, f)) + 1
         /\ f \in call[c].referenced /\ f \notin call'[c].referenced
              => Cardinality(UsersIn(call', f)) = Cardinality(UsersIn(call, f)) - 1
         /\ (f \in call[c].referenced <=> f \in call'[c].referenced)
              => UsersIn(call', f) = UsersIn(call, f)
<1>1. Cardinality(UsersIn(call, f)) \in Nat /\ Cardinality(UsersIn(call', f)) \in Nat
  BY UsersFinite
<1>2. ASSUME f \notin call[c].referenced, f \in call'[c].referenced
      PROVE  Cardinality(UsersIn(call', f)) = Cardinality(UsersIn(call, f)) + 1
  <2>1. UsersIn(call', f) = UsersIn(call, f) \cup {c} /\ c \notin UsersIn(call, f)
    BY <1>2 DEF UsersIn
  <2>2. QED
    BY <2>1, UsersFinite, FS_AddElement
<1>3. ASSUME f \in call[c].referenced, f \notin call'[c].referenced
      PROVE  Cardinality(UsersIn(call', f)) = Cardinality(UsersIn(call, f)) - 1
  <2>1. UsersIn(call', f) = UsersIn(call, f) \ {c} /\ c \in UsersIn(call, f)
    BY <1>3 DEF UsersIn
  <2>2. QED
    BY <2>1, UsersFinite, FS_RemoveElement
<1>4. ASSUME f \in call[c].referenced <=> f \in call'[c].referenced
      PROVE  UsersIn(call', f) = UsersIn(call, f)
  BY <1>4 DEF UsersIn
<1>5. QED
  BY <1>1, <1>2, <1>3, <1>4

\* Only the counts of one formula change, and they add up.
LEMMA CountFrame ==
  ASSUME CountInv, running' => running, NEW f \in Formulas,
         running => refs'[f] = held'[f] + Cardinality(UsersIn(call', f)) + lost'[f],
         \A g \in Formulas \ {f} : /\ refs'[g] = refs[g] /\ held'[g] = held[g]
                                   /\ lost'[g] = lost[g]
                                   /\ UsersIn(call', g) = UsersIn(call, g)
  PROVE  CountInv'
BY DEF CountInv

-----------------------------------------------------------------------------
LEMMA InitIInv == Init => IInv
<1> SUFFICES ASSUME Init PROVE IInv
  OBVIOUS
<1> USE DEF Init
<1>1. TypeOK
  BY CallTypes DEF TypeOK
<1>2. CallInv
  BY DEF CallInv
<1>3. CountInv
  <2> SUFFICES ASSUME NEW f \in Formulas
               PROVE  refs[f] = held[f] + Cardinality(UsersIn(call, f)) + lost[f]
    BY DEF CountInv
  <2>1. UsersIn(call, f) = {}
    BY DEF UsersIn, NoCall
  <2>2. QED
    BY <2>1, FS_EmptySet
<1>4. HolderInv
  BY DEF HolderInv, NoCall
<1>5. ChainInv
  BY DEF ChainInv
<1>6. ObjectInv
  BY DEF ObjectInv, NoCall
<1>7. QED
  BY <1>1, <1>2, <1>3, <1>4, <1>5, <1>6 DEF IInv

-----------------------------------------------------------------------------
(***************************************************************************)
(* Formulas: the functions of the interface that a client calls with them. *)
(***************************************************************************)
LEMMA RegisterIInv ==
  ASSUME IInv, NEW f \in Formulas, Register(f)
  PROVE  IInv'
<1> USE DEF IInv, Register
<1>1. refs[f] = 0 /\ held[f] = 0 /\ lost[f] = 0
  BY DEF HolderInv
<1>2. TypeOK' /\ CallInv' /\ ChainInv'
  BY DEF TypeOK, CallInv, ChainInv, lmcs
<1>3. CountInv'
  <2> SUFFICES ASSUME NEW g \in Formulas
               PROVE  refs'[g] = held'[g] + Cardinality(UsersIn(call', g)) + lost'[g]
    BY DEF CountInv
  <2>1. UsersIn(call', g) = UsersIn(call, g)
    OBVIOUS
  <2>2. Cardinality(UsersIn(call, g)) \in Nat
    BY UsersFinite
  <2>3. refs[g] = held[g] + Cardinality(UsersIn(call, g)) + lost[g]
    BY DEF CountInv
  <2>4. QED
    BY <1>1, <2>1, <2>2, <2>3 DEF TypeOK
<1>4. HolderInv'
  <2> SUFFICES ASSUME NEW g \in Formulas
               PROVE  /\ holder'[g] = "live" <=> refs'[g] > 0
                      /\ held'[g] > 0 => holder'[g] = "live"
                      /\ holder'[g] = "none" =>
                           /\ refs'[g] = 0 /\ held'[g] = 0 /\ lost'[g] = 0
                           /\ \A c \in Calls : g \notin call'[c].referenced
    BY DEF HolderInv
  <2>1. CASE g = f
    BY <2>1 DEF TypeOK
  <2>2. CASE g # f
    BY <2>2 DEF HolderInv, TypeOK
  <2>3. QED
    BY <2>1, <2>2
<1>5. ObjectInv'
  BY <1>1 DEF ObjectInv, TypeOK, lmcs
<1>6. QED
  BY <1>2, <1>3, <1>4, <1>5

LEMMA RefIInv ==
  ASSUME IInv, NEW f \in Formulas, Ref(f)
  PROVE  IInv'
<1> USE DEF IInv, Ref
<1>1. TypeOK' /\ CallInv' /\ ChainInv'
  <2>1. TypeOK'
    BY DEF TypeOK, lmcs
  <2>2. CallInv' /\ ChainInv'
    BY DEF CallInv, ChainInv, lmcs
  <2>3. QED
    BY <2>1, <2>2
<1>2. CountInv'
  <2> SUFFICES ASSUME NEW g \in Formulas
               PROVE  refs'[g] = held'[g] + Cardinality(UsersIn(call', g)) + lost'[g]
    BY DEF CountInv
  <2>1. UsersIn(call', g) = UsersIn(call, g)
    OBVIOUS
  <2>2. Cardinality(UsersIn(call, g)) \in Nat
    BY UsersFinite
  <2>3. QED
    BY <2>1, <2>2 DEF CountInv, TypeOK
<1>3. HolderInv'
  BY DEF HolderInv, TypeOK
<1>4. ObjectInv'
  BY DEF ObjectInv, TypeOK, lmcs
<1>5. QED
  BY <1>1, <1>2, <1>3, <1>4

LEMMA UnrefIInv ==
  ASSUME IInv, NEW f \in Formulas, Unref(f)
  PROVE  IInv'
<1>1. /\ TypeOK /\ running /\ running' /\ held[f] > 0
      /\ refs' = [refs EXCEPT ![f] = @ - 1] /\ held' = [held EXCEPT ![f] = @ - 1]
      /\ holder' = [holder EXCEPT ![f] = IF refs[f] - 1 <= 0 THEN "deleted" ELSE @]
      /\ UNCHANGED <<client, running, lost, call, lmcs, objects>>
  BY DEF IInv, Unref, Dropped
<1>2. \A g \in Formulas : Cardinality(UsersIn(call, g)) \in Nat
  BY UsersFinite
<1>3. \A g \in Formulas : refs[g] = held[g] + Cardinality(UsersIn(call, g)) + lost[g]
  BY <1>1 DEF IInv, CountInv
<1>4. refs[f] >= held[f]
  BY <1>1, <1>2, <1>3 DEF TypeOK
<1>5. TypeOK'
  <2>1. (refs \in [Formulas -> Nat])' /\ (held \in [Formulas -> Nat])'
    BY <1>1, <1>4 DEF TypeOK
  <2>2. (holder \in [Formulas -> {"none", "live", "deleted"}])'
    BY <1>1 DEF TypeOK
  <2>3. QED
    BY <1>1, <2>1, <2>2 DEF TypeOK, lmcs
<1>6. CallInv' /\ ChainInv'
  BY <1>1 DEF IInv, CallInv, ChainInv, lmcs
<1>7. CountInv'
  BY <1>1, <1>2, <1>3 DEF CountInv, TypeOK
<1>8. HolderInv'
  BY <1>1, <1>4 DEF IInv, HolderInv, TypeOK
<1>9. ObjectInv'
  BY <1>1 DEF IInv, Unref, ObjectInv, TypeOK, lmcs
<1>10. QED
  BY <1>5, <1>6, <1>7, <1>8, <1>9 DEF IInv

-----------------------------------------------------------------------------
(***************************************************************************)
(* The calls: a check takes one reference and drops it, a build only keeps *)
(* copies, and what is thrown loses the reference of a check.              *)
(***************************************************************************)
LEMMA BeginCheckIInv ==
  ASSUME IInv, NEW c \in Calls, NEW f \in Formulas, BeginCheck(c, f)
  PROVE  IInv'
<1>1. /\ TypeOK /\ running /\ held[f] > 0
      /\ call[c] = NoCall /\ call' = [call EXCEPT ![c] = Checking(f)]
      /\ refs' = [refs EXCEPT ![f] = @ + 1]
      /\ UNCHANGED <<client, running, holder, held, lost, lmcs, objects>>
  BY DEF IInv, BeginCheck
<1>2. TypeOK' /\ CallInv' /\ ChainInv' /\ ObjectInv'
  BY CallTypes DEF IInv, BeginCheck, TypeOK, CallInv, ChainInv, ObjectInv, lmcs
<1>a. call'[c] = Checking(f) /\ \A d \in Calls \ {c} : call'[d] = call[d]
  BY <1>1 DEF TypeOK
<1>3. Cardinality(UsersIn(call', f)) = Cardinality(UsersIn(call, f)) + 1
  <2>1. call[c].referenced = {} /\ call'[c].referenced = {f}
    BY <1>1, <1>a, CallFields
  <2>2. f \notin call[c].referenced /\ f \in call'[c].referenced
    BY <2>1
  <2>3. QED
    BY <1>a, <2>2, CallStep
<1>4. \A g \in Formulas \ {f} : UsersIn(call', g) = UsersIn(call, g)
  BY <1>1, <1>a, CallStep, CallFields
<1>5. \A g \in Formulas : Cardinality(UsersIn(call, g)) \in Nat
  BY UsersFinite
<1>6. CountInv'
  <2>1. refs[f] = held[f] + Cardinality(UsersIn(call, f)) + lost[f]
    BY <1>1 DEF IInv, CountInv
  <2>2. refs'[f] = held'[f] + Cardinality(UsersIn(call', f)) + lost'[f]
    BY <1>1, <1>3, <1>5, <2>1 DEF TypeOK
  <2>3. \A g \in Formulas \ {f} : refs'[g] = refs[g] /\ held'[g] = held[g] /\ lost'[g] = lost[g]
    BY <1>1 DEF TypeOK
  <2>4. QED
    BY <1>1, <1>4, <2>2, <2>3, CountFrame DEF IInv
<1>7. HolderInv'
  BY <1>1, CallFields DEF IInv, HolderInv, TypeOK
<1>8. QED
  BY <1>2, <1>6, <1>7 DEF IInv

LEMMA EndCheckIInv ==
  ASSUME IInv, NEW c \in Calls, EndCheck(c)
  PROVE  IInv'
<1>1. PICK f \in Formulas : call[c] = Checking(f) /\ Dropped(f)
  BY CallFields DEF IInv, CallInv, EndCheck
<1>2. /\ TypeOK /\ running /\ call' = [call EXCEPT ![c] = NoCall]
      /\ refs' = [refs EXCEPT ![f] = @ - 1]
      /\ holder' = [holder EXCEPT ![f] = IF refs[f] - 1 <= 0 THEN "deleted" ELSE @]
      /\ UNCHANGED <<client, running, held, lost, lmcs, objects>>
  BY <1>1 DEF IInv, EndCheck, Dropped
<1>a. call'[c] = NoCall /\ \A d \in Calls \ {c} : call'[d] = call[d]
  BY <1>2 DEF TypeOK
<1>3. Cardinality(UsersIn(call', f)) = Cardinality(UsersIn(call, f)) - 1
  BY <1>1, <1>a, CallStep, CallFields
<1>4. \A g \in Formulas \ {f} : UsersIn(call', g) = UsersIn(call, g)
  BY <1>1, <1>a, CallStep, CallFields
<1>5. \A g \in Formulas : /\ Cardinality(UsersIn(call, g)) \in Nat
                          /\ Cardinality(UsersIn(call', g)) \in Nat
  BY UsersFinite
<1>6. refs[f] = held[f] + Cardinality(UsersIn(call, f)) + lost[f]
  BY <1>2 DEF IInv, CountInv
<1>7. refs[f] >= held[f] + 1
  <2>1. refs[f] \in Nat /\ held[f] \in Nat /\ lost[f] \in Nat
    BY <1>2 DEF TypeOK
  <2>2. Cardinality(UsersIn(call, f)) \in Nat /\ Cardinality(UsersIn(call', f)) \in Nat
    BY <1>5
  <2>3. QED
    BY <1>3, <1>6, <2>1, <2>2
<1>8. TypeOK'
  <2>1. (refs \in [Formulas -> Nat])'
    BY <1>2, <1>7 DEF TypeOK
  <2>2. (holder \in [Formulas -> {"none", "live", "deleted"}])'
    BY <1>2 DEF TypeOK
  <2>3. (call \in [Calls -> CallRecords])'
    BY <1>2, CallTypes DEF TypeOK
  <2>4. QED
    BY <1>2, <2>1, <2>2, <2>3 DEF TypeOK, lmcs
<1>9. CallInv' /\ ChainInv'
  BY <1>2 DEF IInv, CallInv, ChainInv, TypeOK, lmcs
<1>10. ObjectInv'
  <2>1. call'[c] = NoCall /\ \A d \in Calls \ {c} : call'[d] = call[d]
    BY <1>2, CallStep DEF TypeOK
  <2>2. QED
    BY <1>2, <2>1, CallFields DEF IInv, ObjectInv, lmcs
<1>11. CountInv'
  <2>1. refs'[f] = held'[f] + Cardinality(UsersIn(call', f)) + lost'[f]
    BY <1>2, <1>3, <1>5, <1>6 DEF TypeOK
  <2>2. \A g \in Formulas \ {f} : refs'[g] = refs[g] /\ held'[g] = held[g] /\ lost'[g] = lost[g]
    BY <1>2 DEF TypeOK
  <2>3. QED
    BY <1>2, <1>4, <2>1, <2>2, CountFrame DEF IInv
<1>12. HolderInv'
  BY <1>2, <1>7, CallFields DEF IInv, HolderInv, TypeOK
<1>13. QED
  BY <1>8, <1>9, <1>10, <1>11, <1>12 DEF IInv

LEMMA BeginBuildIInv ==
  ASSUME IInv, NEW c \in Calls, NEW F \in SUBSET Formulas, BeginBuild(c, F)
  PROVE  IInv'
<1>1. /\ TypeOK /\ call[c] = NoCall /\ call' = [call EXCEPT ![c] = Building(F)]
      /\ UNCHANGED <<client, running, refs, holder, held, lost, lmcs, objects>>
  BY DEF IInv, BeginBuild, formulas
<1>2. TypeOK' /\ CallInv' /\ ChainInv' /\ ObjectInv'
  BY CallTypes DEF IInv, BeginBuild, TypeOK, CallInv, ChainInv, ObjectInv, formulas, lmcs
<1>a. call'[c] = Building(F) /\ \A d \in Calls \ {c} : call'[d] = call[d]
  BY <1>1 DEF TypeOK
<1>3. \A g \in Formulas : UsersIn(call', g) = UsersIn(call, g)
  BY <1>1, <1>a, CallStep, CallFields
<1>4. CountInv'
  BY <1>1, <1>3 DEF IInv, CountInv
<1>5. HolderInv'
  BY <1>1, CallFields DEF IInv, HolderInv, TypeOK
<1>6. QED
  BY <1>2, <1>4, <1>5 DEF IInv

\* However a build ends, its call is gone and the formulas are as they were.
LEMMA BuildEnds ==
  ASSUME IInv, NEW c \in Calls, call[c].kind = "build",
         call' = [call EXCEPT ![c] = NoCall], UNCHANGED <<client, running, formulas>>
  PROVE  /\ CallInv' /\ CountInv' /\ HolderInv'
         /\ (call \in [Calls -> CallRecords])' /\ call[c].formulas \subseteq Formulas
         /\ client' = "python" => \A d \in Calls : \A f \in call'[d].formulas : held'[f] > 0
<1>1. PICK F \in SUBSET Formulas : call[c] = Building(F)
  BY CallFields DEF IInv, CallInv
<1>2. (call \in [Calls -> CallRecords])' /\ CallInv'
  BY CallTypes DEF IInv, CallInv, TypeOK
<1>3. call'[c] = NoCall /\ \A d \in Calls \ {c} : call'[d] = call[d]
  BY DEF IInv, TypeOK
<1>4. \A g \in Formulas : UsersIn(call', g) = UsersIn(call, g)
  BY <1>1, <1>3, CallStep, CallFields
<1>5. CountInv'
  BY <1>4 DEF IInv, CountInv, formulas
<1>6. HolderInv'
  BY <1>3, CallFields DEF IInv, HolderInv, formulas
<1>7. client' = "python" => \A d \in Calls : \A f \in call'[d].formulas : held'[f] > 0
  BY <1>3, CallFields DEF IInv, ObjectInv, formulas
<1>8. QED
  BY <1>1, <1>2, <1>5, <1>6, <1>7, CallFields

\* The objects a Python build adds have their type and its formulas.
LEMMA NewObjectsFacts ==
  ASSUME IInv, NEW c \in Calls, call[c].kind = "build", NEW l \in Chains \cup {NoLmc}
  PROVE  /\ NewObjects(c, l) \subseteq [lmc : Chains \cup {NoLmc}, formula : Formulas]
         /\ \A o \in NewObjects(c, l) : o.lmc = l /\ o.formula \in call[c].formulas
<1>1. call[c].formulas \subseteq Formulas
  BY DEF IInv, TypeOK, CallRecords
<1>2. QED
  BY <1>1 DEF NewObjects

LEMMA EndBuildIInv ==
  ASSUME IInv, NEW c \in Calls, NEW l \in Chains, EndBuild(c, l)
  PROVE  IInv'
<1>1. /\ call[c].kind = "build" /\ lmc[l] = "none"
      /\ call' = [call EXCEPT ![c] = NoCall] /\ UNCHANGED <<client, running, formulas>>
      /\ lmcRefs' = [lmcRefs EXCEPT ![l] = 1] /\ lmc' = [lmc EXCEPT ![l] = "live"]
      /\ lmcHeld' = [lmcHeld EXCEPT ![l] = 1] /\ lmcLost' = lmcLost
  BY DEF EndBuild, formulas
<1>2. /\ CallInv' /\ CountInv' /\ HolderInv' /\ (call \in [Calls -> CallRecords])'
      /\ client' = "python" => \A d \in Calls : \A f \in call'[d].formulas : held'[f] > 0
  BY <1>1, BuildEnds
<1>3. \A o \in NewObjects(c, l) : o.lmc = l /\ o.formula \in call[c].formulas
  BY <1>1, NewObjectsFacts
<1>4. objects' \subseteq objects \cup NewObjects(c, l) /\ (client # "python" => objects' = objects)
  BY DEF EndBuild
<1>5. TypeOK'
  <2>1. (objects \subseteq [lmc : Chains \cup {NoLmc}, formula : Formulas])'
    BY <1>1, <1>4, NewObjectsFacts DEF IInv, TypeOK
  <2>2. QED
    BY <1>1, <1>2, <2>1 DEF IInv, TypeOK, formulas
<1>6. ChainInv'
  BY <1>1 DEF IInv, ChainInv, TypeOK
<1>7. ASSUME NEW o \in objects'
      PROVE  /\ client' = "python" /\ held'[o.formula] > 0
             /\ o.lmc # NoLmc => lmcHeld'[o.lmc] > 0
  <2>1. CASE o \in objects
    BY <1>1, <2>1 DEF IInv, ObjectInv, TypeOK, formulas
  <2>2. CASE o \notin objects
    <3>1. client = "python" /\ o \in NewObjects(c, l)
      BY <1>4, <1>7, <2>2
    <3>2. lmcHeld'[l] = 1
      BY <1>1 DEF IInv, TypeOK
    <3>3. QED
      BY <1>1, <1>3, <3>1, <3>2 DEF IInv, ObjectInv, formulas
  <2>3. QED
    BY <2>1, <2>2
<1>8. QED
  BY <1>2, <1>5, <1>6, <1>7 DEF IInv, ObjectInv

LEMMA ObjectFailsIInv ==
  ASSUME IInv, NEW c \in Calls, NEW l \in Chains, ObjectFails(c, l)
  PROVE  IInv'
<1>1. /\ call[c].kind = "build" /\ lmc[l] = "none"
      /\ call' = [call EXCEPT ![c] = NoCall] /\ UNCHANGED <<client, running, formulas>>
      /\ lmcRefs' = [lmcRefs EXCEPT ![l] = 1] /\ lmc' = [lmc EXCEPT ![l] = "live"]
      /\ lmcLost' = [lmcLost EXCEPT ![l] = @ + 1] /\ UNCHANGED <<lmcHeld, objects>>
  BY DEF ObjectFails, formulas
<1>2. /\ CallInv' /\ CountInv' /\ HolderInv' /\ (call \in [Calls -> CallRecords])'
      /\ client' = "python" => \A d \in Calls : \A f \in call'[d].formulas : held'[f] > 0
  BY <1>1, BuildEnds
<1>3. TypeOK'
  BY <1>1, <1>2 DEF IInv, TypeOK, formulas
<1>4. ChainInv'
  BY <1>1 DEF IInv, ChainInv, TypeOK
<1>5. ObjectInv'
  BY <1>1, <1>2 DEF IInv, ObjectInv, formulas
<1>6. QED
  BY <1>2, <1>3, <1>4, <1>5 DEF IInv

LEMMA BuildFailsIInv ==
  ASSUME IInv, NEW c \in Calls, BuildFails(c)
  PROVE  IInv'
<1>1. /\ call[c].kind = "build"
      /\ call' = [call EXCEPT ![c] = NoCall] /\ UNCHANGED <<client, running, formulas, lmcs>>
      /\ \/ objects' = objects
         \/ client = "python" /\ objects' = objects \cup NewObjects(c, NoLmc)
  BY DEF BuildFails
<1>2. /\ CallInv' /\ CountInv' /\ HolderInv' /\ (call \in [Calls -> CallRecords])'
      /\ client' = "python" => \A d \in Calls : \A f \in call'[d].formulas : held'[f] > 0
  BY <1>1, BuildEnds
<1>3. /\ NewObjects(c, NoLmc) \subseteq [lmc : Chains \cup {NoLmc}, formula : Formulas]
      /\ \A o \in NewObjects(c, NoLmc) : o.lmc = NoLmc /\ o.formula \in call[c].formulas
  BY <1>1, NewObjectsFacts
<1>4. TypeOK'
  BY <1>1, <1>2, <1>3 DEF IInv, TypeOK, formulas, lmcs
<1>5. ChainInv'
  BY <1>1 DEF IInv, ChainInv, lmcs
<1>6. ObjectInv'
  BY <1>1, <1>2, <1>3 DEF IInv, ObjectInv, formulas, lmcs
<1>7. QED
  BY <1>2, <1>4, <1>5, <1>6 DEF IInv

LEMMA ThrowIInv ==
  ASSUME IInv, NEW c \in Calls, Throw(c)
  PROVE  IInv'
<1> USE DEF IInv, Throw
<1>1. CallInv' /\ ChainInv'
  BY DEF CallInv, ChainInv, TypeOK, lmcs
<1>2. TypeOK'
  <2>1. (call \in [Calls -> CallRecords])'
    BY CallTypes DEF TypeOK
  <2>2. (lost \in [Formulas -> Nat])'
    <3>1. \/ lost' = lost
          \/ lost' = [f \in Formulas |-> IF f \in call[c].referenced THEN lost[f] + 1
                                         ELSE lost[f]]
      BY Zenon
    <3>2. QED
      BY <3>1 DEF TypeOK
  <2>3. QED
    BY <2>1, <2>2 DEF TypeOK, lmcs
<1>3. ObjectInv'
  BY DEF ObjectInv, TypeOK, NoCall, lmcs
<1>4. CountInv'
  <2> SUFFICES ASSUME client = "cpp", running, NEW g \in Formulas
               PROVE  refs'[g] = held'[g] + Cardinality(UsersIn(call', g)) + lost'[g]
    BY DEF CountInv
  <2>1. Cardinality(UsersIn(call, g)) \in Nat /\ Cardinality(UsersIn(call', g)) \in Nat
    BY UsersFinite
  <2>a. call'[c] = NoCall /\ \A d \in Calls \ {c} : call'[d] = call[d]
    BY DEF TypeOK
  <2>2. CASE g \in call[c].referenced
    <3>1. Cardinality(UsersIn(call', g)) = Cardinality(UsersIn(call, g)) - 1
      <4> HIDE DEF IInv, Throw
      <4>1. QED
        BY <2>a, <2>2, CallStep, CallFields
    <3>2. QED
      BY <2>1, <2>2, <3>1 DEF CountInv, TypeOK
  <2>3. CASE g \notin call[c].referenced
    <3>1. UsersIn(call', g) = UsersIn(call, g)
      <4> HIDE DEF IInv, Throw
      <4>1. QED
        BY <2>a, <2>3, CallStep, CallFields
    <3>2. QED
      BY <2>3, <3>1 DEF CountInv, TypeOK
  <2>4. QED
    BY <2>2, <2>3
<1>5. HolderInv'
  <2>1. running' => running
    OBVIOUS
  <2>2. ASSUME NEW g \in Formulas, holder[g] = "none"
        PROVE  lost'[g] = 0 /\ \A d \in Calls : g \notin call'[d].referenced
    BY <2>2 DEF HolderInv, TypeOK, NoCall
  <2>3. QED
    BY <2>1, <2>2 DEF HolderInv
<1>6. QED
  BY <1>1, <1>2, <1>3, <1>4, <1>5

-----------------------------------------------------------------------------
(***************************************************************************)
(* Chains.                                                                 *)
(***************************************************************************)
LEMMA RefLmcIInv ==
  ASSUME IInv, NEW l \in Chains, RefLmc(l)
  PROVE  IInv'
<1> USE DEF IInv, RefLmc
<1>1. CallInv' /\ CountInv' /\ HolderInv'
  BY DEF CallInv, CountInv, HolderInv, formulas
<1>2. TypeOK'
  BY DEF TypeOK, formulas
<1>3. ChainInv'
  <2>1. lmcHeld[l] > 0
    BY DEF TypeOK
  <2>2. ASSUME NEW k \in Chains
        PROVE  /\ running => lmcRefs'[k] = lmcHeld'[k] + lmcLost'[k]
               /\ lmcHeld'[k] > 0 => lmc'[k] = "live"
               /\ lmc'[k] = "none" => lmcRefs'[k] = 0 /\ lmcHeld'[k] = 0 /\ lmcLost'[k] = 0
    <3>1. CASE k = l
      <4>1. lmc[l] = "live" /\ lmc' = lmc /\ lmcLost' = lmcLost
        BY <2>1 DEF ChainInv, formulas
      <4>2. lmcRefs'[l] = lmcRefs[l] + 1 /\ lmcHeld'[l] = lmcHeld[l] + 1
        BY DEF TypeOK
      <4>3. running => lmcRefs[l] = lmcHeld[l] + lmcLost[l]
        BY DEF ChainInv
      <4>4. lmcRefs[l] \in Nat /\ lmcHeld[l] \in Nat /\ lmcLost[l] \in Nat
        BY DEF TypeOK
      <4> HIDE DEF IInv, RefLmc
      <4>5. QED
        BY <3>1, <4>1, <4>2, <4>3, <4>4
    <3>2. CASE k # l
      BY <3>2 DEF ChainInv, TypeOK
    <3>3. QED
      BY <3>1, <3>2
  <2>3. QED
    BY <2>2 DEF ChainInv
<1>4. ObjectInv'
  BY DEF ObjectInv, TypeOK, formulas
<1>5. QED
  BY <1>1, <1>2, <1>3, <1>4

LEMMA UnrefLmcIInv ==
  ASSUME IInv, NEW l \in Chains, UnrefLmc(l)
  PROVE  IInv'
<1> USE DEF IInv, UnrefLmc
<1>1. lmcRefs[l] = lmcHeld[l] + lmcLost[l]
  BY DEF ChainInv
<1>2. running' => running
  OBVIOUS
<1>3. CallInv' /\ CountInv' /\ HolderInv'
  BY <1>2 DEF CallInv, CountInv, HolderInv, formulas
<1>4. TypeOK'
  <2>1. (lmcRefs \in [Chains -> Nat])' /\ (lmcHeld \in [Chains -> Nat])'
    BY <1>1 DEF TypeOK
  <2>2. (lmc \in [Chains -> {"none", "live", "freed"}])' /\ (running \in BOOLEAN)'
    BY DEF TypeOK
  <2>3. QED
    BY <2>1, <2>2 DEF TypeOK, formulas
<1>5. ChainInv'
  <2>1. ASSUME NEW k \in Chains
        PROVE  /\ lmcRefs'[k] = lmcHeld'[k] + lmcLost'[k]
               /\ lmcHeld'[k] > 0 => lmc'[k] = "live"
               /\ lmc'[k] = "none" => lmcRefs'[k] = 0 /\ lmcHeld'[k] = 0 /\ lmcLost'[k] = 0
    <3>1. CASE k = l
      <4>1. lmcRefs'[l] = lmcRefs[l] - 1 /\ lmcHeld'[l] = lmcHeld[l] - 1 /\ lmcLost' = lmcLost
        BY DEF TypeOK
      <4>2. lmcHeld[l] > 0 /\ lmc[l] = "live"
        BY DEF ChainInv
      <4>3. lmc'[l] = IF lmcRefs[l] - 1 <= 0 THEN "freed" ELSE lmc[l]
        BY DEF TypeOK
      <4>4. lmcRefs[l] \in Nat /\ lmcHeld[l] \in Nat /\ lmcLost[l] \in Nat
        BY DEF TypeOK
      <4> HIDE DEF IInv, UnrefLmc
      <4>5. QED
        BY <1>1, <3>1, <4>1, <4>2, <4>3, <4>4
    <3>2. CASE k # l
      BY <3>2 DEF ChainInv, TypeOK
    <3>3. QED
      BY <3>1, <3>2
  <2>2. QED
    BY <2>1 DEF ChainInv
<1>6. ObjectInv'
  BY DEF ObjectInv, TypeOK, formulas
<1>7. QED
  BY <1>3, <1>4, <1>5, <1>6

LEMMA CalculateThrowsIInv ==
  ASSUME IInv, NEW l \in Chains, NEW f \in Formulas, CalculateThrows(l, f)
  PROVE  IInv'
<1> USE DEF IInv, CalculateThrows
<1>1. TypeOK'
  <2>1. CASE client = "cpp"
    BY <2>1 DEF TypeOK
  <2>2. CASE client # "cpp"
    BY <2>2 DEF TypeOK
  <2>3. QED
    BY <2>1, <2>2
<1>2. CallInv' /\ ObjectInv'
  BY DEF CallInv, ObjectInv
<1>3. CASE client = "cpp"
  <2>1. held[f] > 0 /\ lmcHeld[l] > 0
    BY <1>3 DEF Asks
  <2>2. \A g \in Formulas : Cardinality(UsersIn(call, g)) \in Nat /\ UsersIn(call', g) = UsersIn(call, g)
    BY UsersFinite
  <2>3. CountInv'
    BY <1>3, <2>2 DEF CountInv, TypeOK
  <2>4. HolderInv'
    BY <1>3, <2>1 DEF HolderInv, TypeOK
  <2>5. ChainInv'
    <3>1. /\ lmcRefs' = [lmcRefs EXCEPT ![l] = @ + 1] /\ lmcLost' = [lmcLost EXCEPT ![l] = @ + 1]
          /\ UNCHANGED <<running, lmcHeld, lmc>> /\ lmcHeld[l] > 0
      BY <1>3, <2>1
    <3>2. TypeOK /\ ChainInv
      OBVIOUS
    <3> HIDE DEF IInv, CalculateThrows
    <3>3. ASSUME NEW k \in Chains
          PROVE  /\ running => lmcRefs'[k] = lmcHeld'[k] + lmcLost'[k]
                 /\ lmcHeld'[k] > 0 => lmc'[k] = "live"
                 /\ lmc'[k] = "none" => lmcRefs'[k] = 0 /\ lmcHeld'[k] = 0 /\ lmcLost'[k] = 0
      <4>1. /\ lmcRefs[k] \in Nat /\ lmcHeld[k] \in Nat /\ lmcLost[k] \in Nat
            /\ lmcRefs'[k] = IF k = l THEN lmcRefs[k] + 1 ELSE lmcRefs[k]
            /\ lmcLost'[k] = IF k = l THEN lmcLost[k] + 1 ELSE lmcLost[k]
        BY <3>1, <3>2 DEF TypeOK
      <4>2. /\ running => lmcRefs[k] = lmcHeld[k] + lmcLost[k]
            /\ lmcHeld[k] > 0 => lmc[k] = "live"
            /\ lmc[k] = "none" => lmcRefs[k] = 0 /\ lmcHeld[k] = 0 /\ lmcLost[k] = 0
        BY <3>2 DEF ChainInv
      <4>3. QED
        BY <3>1, <4>1, <4>2
    <3>4. QED
      BY <3>1, <3>3 DEF ChainInv
  <2>6. QED
    BY <1>1, <1>2, <2>3, <2>4, <2>5
<1>4. CASE client # "cpp"
  BY <1>1, <1>2, <1>4 DEF CountInv, HolderInv, ChainInv
<1>5. QED
  BY <1>3, <1>4

-----------------------------------------------------------------------------
(***************************************************************************)
(* The Python module.  A formula that was never registered has no holder,  *)
(* so the counts it starts with are those of the module and of its check.  *)
(***************************************************************************)
LEMMA PyCheckIInv ==
  ASSUME IInv, NEW c \in Calls, NEW f \in Formulas, PyCheck(c, f)
  PROVE  IInv'
<1>1. /\ TypeOK /\ running /\ holder[f] = "none"
      /\ refs' = [refs EXCEPT ![f] = 2] /\ held' = [held EXCEPT ![f] = 1]
      /\ holder' = [holder EXCEPT ![f] = "live"]
      /\ call[c] = NoCall /\ call' = [call EXCEPT ![c] = Checking(f)]
      /\ UNCHANGED <<client, running, lost, lmcs, objects>>
  BY DEF IInv, PyCheck, PyRegister
<1>2. refs[f] = 0 /\ held[f] = 0 /\ lost[f] = 0
  BY <1>1 DEF IInv, HolderInv
<1>3. TypeOK' /\ CallInv' /\ ChainInv'
  BY <1>1, CallTypes DEF IInv, TypeOK, CallInv, ChainInv, lmcs
<1>a. call'[c] = Checking(f) /\ \A d \in Calls \ {c} : call'[d] = call[d]
  BY <1>1 DEF TypeOK
<1>4. Cardinality(UsersIn(call', f)) = Cardinality(UsersIn(call, f)) + 1
  <2>1. call[c].referenced = {} /\ call'[c].referenced = {f}
    BY <1>1, <1>a, CallFields
  <2>2. f \notin call[c].referenced /\ f \in call'[c].referenced
    BY <2>1
  <2>3. QED
    BY <1>a, <2>2, CallStep
<1>5. \A g \in Formulas \ {f} : UsersIn(call', g) = UsersIn(call, g)
  BY <1>1, <1>a, CallStep, CallFields
<1>6. \A g \in Formulas : Cardinality(UsersIn(call, g)) \in Nat
  BY UsersFinite
<1>7. CountInv'
  <2>1. refs[f] = held[f] + Cardinality(UsersIn(call, f)) + lost[f]
    BY <1>1 DEF IInv, CountInv
  <2>2. refs'[f] = held'[f] + Cardinality(UsersIn(call', f)) + lost'[f]
    BY <1>1, <1>2, <1>4, <1>6, <2>1 DEF TypeOK
  <2>3. \A g \in Formulas \ {f} : refs'[g] = refs[g] /\ held'[g] = held[g] /\ lost'[g] = lost[g]
    BY <1>1 DEF TypeOK
  <2>4. QED
    BY <1>1, <1>5, <2>2, <2>3, CountFrame DEF IInv
<1>8. HolderInv'
  BY <1>1, CallFields DEF IInv, HolderInv, TypeOK
<1>9. ObjectInv'
  BY <1>1, CallFields DEF IInv, ObjectInv, TypeOK, lmcs
<1>10. QED
  BY <1>3, <1>7, <1>8, <1>9 DEF IInv

LEMMA PyBuildIInv ==
  ASSUME IInv, NEW c \in Calls, NEW f \in Formulas, PyBuild(c, f)
  PROVE  IInv'
<1>1. /\ TypeOK /\ running /\ holder[f] = "none"
      /\ refs' = [refs EXCEPT ![f] = 1] /\ held' = [held EXCEPT ![f] = 1]
      /\ holder' = [holder EXCEPT ![f] = "live"]
      /\ call[c] = NoCall /\ call' = [call EXCEPT ![c] = Building({f})]
      /\ UNCHANGED <<client, running, lost, lmcs, objects>>
  BY DEF IInv, PyBuild, PyRegister
<1>2. refs[f] = 0 /\ held[f] = 0 /\ lost[f] = 0
  BY <1>1 DEF IInv, HolderInv
<1>3. TypeOK' /\ CallInv' /\ ChainInv'
  BY <1>1, CallTypes DEF IInv, TypeOK, CallInv, ChainInv, lmcs
<1>a. call'[c] = Building({f}) /\ \A d \in Calls \ {c} : call'[d] = call[d]
  BY <1>1 DEF TypeOK
<1>4. \A g \in Formulas : UsersIn(call', g) = UsersIn(call, g)
  BY <1>1, <1>a, CallStep, CallFields
<1>5. \A g \in Formulas : Cardinality(UsersIn(call, g)) \in Nat
  BY UsersFinite
<1>6. CountInv'
  <2>1. refs[f] = held[f] + Cardinality(UsersIn(call, f)) + lost[f]
    BY <1>1 DEF IInv, CountInv
  <2>2. refs'[f] = held'[f] + Cardinality(UsersIn(call', f)) + lost'[f]
    <3>1. refs'[f] = 1 /\ held'[f] = 1 /\ lost'[f] = 0
      BY <1>1, <1>2 DEF TypeOK
    <3>2. Cardinality(UsersIn(call', f)) = 0
      BY <1>2, <1>4, <1>5, <2>1
    <3>3. QED
      BY <3>1, <3>2
  <2>3. \A g \in Formulas \ {f} : refs'[g] = refs[g] /\ held'[g] = held[g] /\ lost'[g] = lost[g]
    BY <1>1 DEF TypeOK
  <2>4. QED
    BY <1>1, <1>4, <2>2, <2>3, CountFrame DEF IInv
<1>7. HolderInv'
  BY <1>1, CallFields DEF IInv, HolderInv, TypeOK
<1>8. ObjectInv'
  BY <1>1, CallFields DEF IInv, ObjectInv, TypeOK, lmcs
<1>9. QED
  BY <1>3, <1>6, <1>7, <1>8 DEF IInv

LEMMA PyRefuseIInv ==
  ASSUME IInv, NEW f \in Formulas, PyRefuse(f)
  PROVE  IInv'
<1> USE DEF IInv, PyRefuse, PyRegister
<1>1. refs[f] = 0 /\ held[f] = 0 /\ lost[f] = 0
  BY DEF HolderInv
<1>2. TypeOK' /\ CallInv' /\ ChainInv'
  BY DEF TypeOK, CallInv, ChainInv, lmcs
<1>3. \A g \in Formulas : Cardinality(UsersIn(call, g)) \in Nat /\ UsersIn(call', g) = UsersIn(call, g)
  BY UsersFinite
<1>4. CountInv'
  BY <1>1, <1>3 DEF CountInv, TypeOK
<1>5. HolderInv'
  BY DEF HolderInv, TypeOK
<1>6. ObjectInv'
  BY DEF ObjectInv, TypeOK, lmcs
<1>7. QED
  BY <1>2, <1>4, <1>5, <1>6

\* Nothing of the invariant grows when an object is deleted or nothing happens.
LEMMA DeallocIInv ==
  ASSUME IInv, UNCHANGED <<client, running, formulas, call, lmcs>>, objects' \subseteq objects
  PROVE  IInv'
<1> USE DEF IInv, formulas, lmcs
<1>1. TypeOK' /\ CallInv' /\ ChainInv' /\ ObjectInv'
  BY DEF TypeOK, CallInv, ChainInv, ObjectInv
<1>2. CountInv' /\ HolderInv'
  BY DEF CountInv, HolderInv
<1>3. QED
  BY <1>1, <1>2

\* A null pointer stops the process at most, and then no count matters.
LEMMA StopsIInv ==
  ASSUME IInv, running' \in BOOLEAN, running' => running,
         UNCHANGED <<client, formulas, call, lmcs, objects>>
  PROVE  IInv'
<1> USE DEF IInv, formulas, lmcs
<1>1. TypeOK' /\ CallInv' /\ ChainInv' /\ ObjectInv'
  BY DEF TypeOK, CallInv, ChainInv, ObjectInv
<1>2. CountInv' /\ HolderInv'
  BY DEF CountInv, HolderInv
<1>3. QED
  BY <1>1, <1>2

-----------------------------------------------------------------------------
\* Every step of the client, of a call and of the Python module keeps the
\* invariant.
LEMMA NextIInv == IInv /\ [Next]_vars => IInv'
<1> SUFFICES ASSUME IInv, [Next]_vars PROVE IInv'
  OBVIOUS
<1>1. ASSUME NEW f \in Formulas, Register(f) \/ Ref(f) \/ Unref(f) \/ PyRefuse(f)
      PROVE  IInv'
  BY <1>1, RegisterIInv, RefIInv, UnrefIInv, PyRefuseIInv
<1>2. ASSUME NEW l \in Chains, RefLmc(l) \/ UnrefLmc(l)
      PROVE  IInv'
  BY <1>2, RefLmcIInv, UnrefLmcIInv
<1>3. ASSUME NEW l \in Chains, NEW f \in Formulas, Calculate(l, f) \/ CalculateThrows(l, f)
      PROVE  IInv'
  BY <1>3, CalculateThrowsIInv, DeallocIInv DEF Calculate, vars
<1>4. ASSUME NEW c \in Calls, NEW f \in Formulas,
             BeginCheck(c, f) \/ PyCheck(c, f) \/ PyBuild(c, f)
      PROVE  IInv'
  BY <1>4, BeginCheckIInv, PyCheckIInv, PyBuildIInv
<1>5. ASSUME NEW c \in Calls, NEW F \in SUBSET Formulas, BeginBuild(c, F)
      PROVE  IInv'
  BY <1>5, BeginBuildIInv
<1>6. ASSUME NEW o \in objects, Lmc_dealloc(o) \/ CalculateOnNothing(o)
      PROVE  IInv'
  BY <1>6, DeallocIInv, StopsIInv DEF Lmc_dealloc, CalculateOnNothing
<1>7. ASSUME NEW c \in Calls, End(c) \/ Throw(c)
      PROVE  IInv'
  BY <1>7, EndCheckIInv, EndBuildIInv, ObjectFailsIInv, BuildFailsIInv, ThrowIInv DEF End
<1>8. CASE RegisterFails
  BY <1>8, StopsIInv DEF RegisterFails
<1>9. CASE UNCHANGED vars
  BY <1>9, DeallocIInv DEF vars
<1>10. QED
  BY <1>1, <1>2, <1>3, <1>4, <1>5, <1>6, <1>7, <1>8, <1>9 DEF Next, ClientNext

\* The invariant holds in every state.
THEOREM CApiInductive == Spec => []IInv
<1>1. QED
  BY InitIInv, NextIInv, PTL DEF Spec

\* Every variable keeps to its domain: no reference count wraps around below
\* zero (c_api.cc:177-219), however calls nest, throw and are registered.
THEOREM TypeCorrect == Spec => []TypeOK
<1>1. IInv => TypeOK
  BY DEF IInv
<1>2. QED
  BY <1>1, CApiInductive, PTL

\* A count is the number of its holders: those of the client, of the calls
\* that run and of the exceptions and failed allocations that lost one (c_api.cc:182, 188, 240-252).
THEOREM RefsAreHoldersHolds == Spec => []RefsAreHolders
<1>1. IInv => RefsAreHolders
  BY DEF IInv, CountInv, ChainInv, RefsAreHolders, Users, UsersIn
<1>2. QED
  BY <1>1, CApiInductive, PTL

\* No call evaluates a destroyed formula, whatever the client drops from its
\* callbacks (c_api.cc:188-195, 270): the calls own what they evaluate.
THEOREM UsedIsAliveHolds == Spec => []UsedIsAlive
<1>1. ASSUME IInv, NEW c \in Calls, NEW f \in call[c].formulas
      PROVE  f \in call[c].copies
  BY <1>1, CallFields DEF IInv, CallInv
<1>2. IInv => UsedIsAlive
  BY <1>1 DEF IInv, HolderInv, ChainInv, UsedIsAlive, Alive
<1>3. QED
  BY <1>2, CApiInductive, PTL

\* The shared pointer of a formula without references is deleted
\* (c_api.cc:188-195).
THEOREM UnusedIsDestroyedHolds == Spec => []UnusedIsDestroyed
<1>1. ASSUME IInv, running, NEW f \in Formulas, holder[f] = "live"
      PROVE  held[f] > 0 \/ lost[f] > 0 \/ Users(f) # {}
  <2>1. refs[f] > 0 /\ refs[f] = held[f] + Cardinality(Users(f)) + lost[f]
    BY <1>1 DEF IInv, HolderInv, CountInv, Users, UsersIn
  <2>2. Users(f) = {} => Cardinality(Users(f)) = 0
    BY FS_EmptySet
  <2>3. QED
    BY <1>1, <2>1, <2>2 DEF IInv, TypeOK
<1>2. IInv => UnusedIsDestroyed
  BY <1>1 DEF UnusedIsDestroyed
<1>3. QED
  BY <1>2, CApiInductive, PTL

\* The formula of a Python object, and its chain if it got one, are alive as long
\* as the object
\* (pemcmodule.c:340-373, 460-475).
THEOREM ObjectsAreUsableHolds == Spec => []ObjectsAreUsable
<1>1. IInv => ObjectsAreUsable
  BY DEF IInv, TypeOK, ObjectInv, HolderInv, ChainInv, ObjectsAreUsable
<1>2. QED
  BY <1>1, CApiInductive, PTL
=============================================================================
