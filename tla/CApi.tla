-------------------------------- MODULE CApi --------------------------------
(***************************************************************************)
(* The references of the C interface (src/pemc/c_api/c_api.cc) and of the  *)
(* Python module on top of it (src/language/pemc_python/pemcmodule.c).     *)
(* A formula is a CApiFormula that shared pointers own: the one that       *)
(* pemc_formula_ref points to, and copies in the calls that run.  A call   *)
(* of pemc runs the client's callbacks, and from these, or from another    *)
(* Python thread that gets the lock there, the client calls pemc again.    *)
(* Without callbacks a function of the interface is atomic; clients that   *)
(* share references between threads of C are not covered.                  *)
(***************************************************************************)
EXTENDS Integers, FiniteSets

CONSTANTS
  Formulas,  \* the pemc_formula_ref that are ever malloc'ed
  Chains,    \* the pemc_lmc_ref
  NoLmc,     \* the null pointer in place of a pemc_lmc_ref
  Calls,     \* the calls of pemc that run at the same time
  MaxHeld,   \* bound: references to one object that the client holds
  MaxLost    \* bound: references to one object that nobody will drop

ASSUME CApiAssumption ==
  IsFiniteSet(Calls) /\ {MaxHeld, MaxLost} \subseteq Nat /\ NoLmc \notin Chains

VARIABLES
  client,    \* its language; it never changes
  running,   \* FALSE: the process was terminated
  refs,      \* formula_ref->refs
  holder,    \* the std::shared_ptr that formula_ref->formula points to
  held,      \* how many references the client has to give back
  lost,      \* how many a call took that nobody will drop
  call,      \* the calls of pemc
  lmcRefs, lmc, lmcHeld, lmcLost,  \* the same for the chains
  objects    \* the LmcObjects of Python

formulas == <<refs, holder, held, lost>>
lmcs     == <<lmcRefs, lmc, lmcHeld, lmcLost>>
vars     == <<client, running, formulas, call, lmcs, objects>>

\* What a call evaluates, and what it has on its stack: references it took, and
\* shared pointers.
NoCall == [kind |-> "none", formulas |-> {}, referenced |-> {}, copies |-> {}]

Checking(f)   == [kind |-> "check", formulas |-> {f}, referenced |-> {f}, copies |-> {f}]
\* Slip: the build does not keep the formulas.
WithoutCopies(F) == [kind |-> "build", formulas |-> F, referenced |-> {}, copies |-> {}]
\* A build copies the shared pointers and takes no references.
Building(F)   == [kind |-> "build", formulas |-> F, referenced |-> {}, copies |-> F]

Init ==
  /\ client \in {"c", "cpp", "python"}
  /\ running = TRUE
  /\ refs = [f \in Formulas |-> 0] /\ holder = [f \in Formulas |-> "none"]
  /\ held = [f \in Formulas |-> 0] /\ lost = [f \in Formulas |-> 0]
  /\ call = [c \in Calls |-> NoCall]
  /\ lmcRefs = [l \in Chains |-> 0] /\ lmc = [l \in Chains |-> "none"]
  /\ lmcHeld = [l \in Chains |-> 0] /\ lmcLost = [l \in Chains |-> 0]
  /\ objects = {}

Alive(f) == holder[f] = "live" \/ \E c \in Calls : f \in call[c].copies

-----------------------------------------------------------------------------
(***************************************************************************)
(* Formulas.  A client uses what it holds, and gives back what it holds.   *)
(***************************************************************************)
Register(f) ==
  /\ running /\ client # "python"
  /\ holder[f] = "none"
  /\ refs' = [refs EXCEPT ![f] = 1]
  /\ holder' = [holder EXCEPT ![f] = "live"]
  /\ held' = [held EXCEPT ![f] = 1]
  /\ UNCHANGED <<client, running, lost, call, lmcs, objects>>

\* malloc returns nothing to register a formula with.  Python passes that on,
\* and pemc follows the null pointer unless the arguments are refused before.
RegisterFails ==
  /\ running
  /\ running' \in IF client = "python" THEN BOOLEAN ELSE {TRUE}
  /\ UNCHANGED <<client, formulas, call, lmcs, objects>>

Ref(f) ==
  /\ running /\ client # "python"
  /\ held[f] \in 1..MaxHeld - 1
  /\ refs' = [refs EXCEPT ![f] = @ + 1]
  /\ held' = [held EXCEPT ![f] = @ + 1]
  /\ UNCHANGED <<client, running, holder, lost, call, lmcs, objects>>

\* Slip: with an unsigned count, the test for less than zero never succeeds.
DroppedNever(f) ==
  /\ refs' = [refs EXCEPT ![f] = @ - 1]
  /\ holder' = [holder EXCEPT ![f] = IF refs[f] - 1 < 0 THEN "deleted" ELSE @]

\* pemc_unref_formula, by the client or by a call that returns.
Dropped(f) ==
  /\ refs' = [refs EXCEPT ![f] = @ - 1]
  /\ holder' = [holder EXCEPT ![f] = IF refs[f] - 1 <= 0 THEN "deleted" ELSE @]

Unref(f) ==
  /\ running /\ client # "python"
  /\ held[f] > 0
  /\ Dropped(f)
  /\ held' = [held EXCEPT ![f] = @ - 1]
  /\ UNCHANGED <<client, running, lost, call, lmcs, objects>>

-----------------------------------------------------------------------------
(***************************************************************************)
(* The calls with callbacks: they begin and return, or throw.              *)
(***************************************************************************)
\* Slip: a check takes no reference, but drops one.
BeginCheckWithoutRef(c, f) ==
  /\ running /\ client # "python"
  /\ call[c] = NoCall /\ held[f] > 0
  /\ call' = [call EXCEPT ![c] = Checking(f)]
  /\ UNCHANGED <<client, running, formulas, lmcs, objects>>

BeginCheck(c, f) ==
  /\ running /\ client # "python"
  /\ call[c] = NoCall /\ held[f] > 0
  /\ refs' = [refs EXCEPT ![f] = @ + 1]
  /\ call' = [call EXCEPT ![c] = Checking(f)]
  /\ UNCHANGED <<client, running, holder, held, lost, lmcs, objects>>

\* Slip: the references of a check are not given back.
EndCheckWithoutUnref(c) ==
  /\ running
  /\ call[c].kind = "check"
  /\ call' = [call EXCEPT ![c] = NoCall]
  /\ UNCHANGED <<client, running, formulas, lmcs, objects>>

EndCheck(c) ==
  /\ running
  /\ call[c].kind = "check"
  /\ \E f \in call[c].referenced : Dropped(f)
  /\ call' = [call EXCEPT ![c] = NoCall]
  /\ UNCHANGED <<client, running, held, lost, lmcs, objects>>

BeginBuild(c, F) ==
  /\ running /\ client # "python"
  /\ call[c] = NoCall /\ \A f \in F : held[f] > 0
  /\ call' = [call EXCEPT ![c] = Building(F)]
  /\ UNCHANGED <<client, running, formulas, lmcs, objects>>

\* The object of a Python build: the reference, and the formula registered for it.
NewObjects(c, l) == {[lmc |-> l, formula |-> f] : f \in call[c].formulas}

\* The chain is wrapped into a new pemc_lmc_ref, in Python also into an object.
EndBuild(c, l) ==
  /\ running
  /\ call[c].kind = "build" /\ lmc[l] = "none"
  /\ lmcRefs' = [lmcRefs EXCEPT ![l] = 1]
  /\ lmc' = [lmc EXCEPT ![l] = "live"]
  /\ lmcHeld' = [lmcHeld EXCEPT ![l] = 1]
  /\ call' = [call EXCEPT ![c] = NoCall]
  /\ objects' = IF client = "python" THEN objects \cup NewObjects(c, l) ELSE objects
  /\ UNCHANGED <<client, running, formulas, lmcLost>>

\* tp_alloc has no memory for the object: nobody has the new reference.
ObjectFails(c, l) ==
  /\ running /\ client = "python"
  /\ call[c].kind = "build" /\ lmc[l] = "none" /\ lmcLost[l] < MaxLost
  /\ lmcRefs' = [lmcRefs EXCEPT ![l] = 1]
  /\ lmc' = [lmc EXCEPT ![l] = "live"]
  /\ lmcLost' = [lmcLost EXCEPT ![l] = @ + 1]
  /\ call' = [call EXCEPT ![c] = NoCall]
  /\ UNCHANGED <<client, running, formulas, lmcHeld, objects>>

\* malloc has none for the reference: the chain is destroyed, and Python makes
\* an object of the null pointer, if it can.
BuildFails(c) ==
  /\ running
  /\ call[c].kind = "build"
  /\ call' = [call EXCEPT ![c] = NoCall]
  /\ \/ UNCHANGED objects
     \/ client = "python" /\ objects' = objects \cup NewObjects(c, NoLmc)
  /\ UNCHANGED <<client, running, formulas, lmcs>>

\* An exception of pemc or of a callback destroys what is on the stack, and
\* pemc_unref_formula does not run.  Only a client in C++ may catch it.
Throw(c) ==
  /\ running /\ call[c] # NoCall
  /\ call' = [call EXCEPT ![c] = NoCall]
  /\ IF client = "cpp"
     THEN /\ \A f \in call[c].referenced : lost[f] < MaxLost
          /\ lost' = [f \in Formulas |-> IF f \in call[c].referenced THEN lost[f] + 1
                                         ELSE lost[f]]
          /\ UNCHANGED running
     ELSE /\ running' = FALSE
          /\ UNCHANGED lost
  /\ UNCHANGED <<client, refs, holder, held, lmcs, objects>>

-----------------------------------------------------------------------------
(***************************************************************************)
(* Chains.                                                                 *)
(***************************************************************************)
RefLmc(l) ==
  /\ running /\ client # "python"
  /\ lmcHeld[l] \in 1..MaxHeld - 1
  /\ lmcRefs' = [lmcRefs EXCEPT ![l] = @ + 1]
  /\ lmcHeld' = [lmcHeld EXCEPT ![l] = @ + 1]
  /\ UNCHANGED <<client, running, formulas, call, lmc, lmcLost, objects>>

\* The last reference takes the chain for a shared pointer to one, and the
\* address of its transitions for a control block: by the label of the first
\* transition, the process crashes, or the chain's own memory alone is freed.
UnrefLmc(l) ==
  /\ running /\ client # "python"
  /\ lmcHeld[l] > 0
  /\ lmcRefs' = [lmcRefs EXCEPT ![l] = @ - 1]
  /\ lmcHeld' = [lmcHeld EXCEPT ![l] = @ - 1]
  /\ IF lmcRefs[l] - 1 <= 0
     THEN /\ lmc' = [lmc EXCEPT ![l] = "freed"]
          /\ running' \in BOOLEAN
     ELSE UNCHANGED <<lmc, running>>
  /\ UNCHANGED <<client, formulas, call, lmcLost, objects>>

\* calculate_probability_to_reach_state_within_bound takes a reference to
\* both, and drops both unless pemc throws; there is no callback in between.
Asks(l, f) ==
  IF client = "python" THEN [lmc |-> l, formula |-> f] \in objects
  ELSE lmcHeld[l] > 0 /\ held[f] > 0

Calculate(l, f) ==
  /\ running /\ Asks(l, f)
  /\ UNCHANGED vars

CalculateThrows(l, f) ==
  /\ running /\ Asks(l, f)
  /\ IF client = "cpp"
     THEN /\ lost[f] < MaxLost /\ lmcLost[l] < MaxLost
          /\ refs' = [refs EXCEPT ![f] = @ + 1] /\ lost' = [lost EXCEPT ![f] = @ + 1]
          /\ lmcRefs' = [lmcRefs EXCEPT ![l] = @ + 1]
          /\ lmcLost' = [lmcLost EXCEPT ![l] = @ + 1]
          /\ UNCHANGED running
     ELSE /\ running' = FALSE
          /\ UNCHANGED <<refs, lost, lmcRefs, lmcLost>>
  /\ UNCHANGED <<client, holder, held, call, lmc, lmcHeld, objects>>

\* pemc follows the null pointer of an object without a chain.
CalculateOnNothing(o) ==
  /\ running /\ o \in objects /\ o.lmc = NoLmc
  /\ running' = FALSE
  /\ UNCHANGED <<client, formulas, call, lmcs, objects>>

-----------------------------------------------------------------------------
(***************************************************************************)
(* The Python module registers a formula for each call, keeps its          *)
(* reference and never drops it; nor does it those of a deleted object.    *)
(***************************************************************************)
PyRegister(f) ==
  /\ holder[f] = "none"
  /\ holder' = [holder EXCEPT ![f] = "live"]
  /\ held' = [held EXCEPT ![f] = 1]

\* The registered formula has one reference, and the check takes another one.
PyCheck(c, f) ==
  /\ running /\ client = "python" /\ call[c] = NoCall
  /\ PyRegister(f)
  /\ refs' = [refs EXCEPT ![f] = 2]
  /\ call' = [call EXCEPT ![c] = Checking(f)]
  /\ UNCHANGED <<client, running, lost, lmcs, objects>>

\* Slip: a build drops the reference as soon as it has a copy.
PyBuildAndUnref(c, f) ==
  /\ running /\ client = "python" /\ call[c] = NoCall
  /\ holder[f] = "none"
  /\ holder' = [holder EXCEPT ![f] = "deleted"]
  /\ call' = [call EXCEPT ![c] = Building({f})]
  /\ UNCHANGED <<client, running, refs, held, lost, lmcs, objects>>

PyBuild(c, f) ==
  /\ running /\ client = "python" /\ call[c] = NoCall
  /\ PyRegister(f)
  /\ refs' = [refs EXCEPT ![f] = 1]
  /\ call' = [call EXCEPT ![c] = Building({f})]
  /\ UNCHANGED <<client, running, lost, lmcs, objects>>

\* Arguments that cannot be parsed are found when the formula is registered.
PyRefuse(f) ==
  /\ running /\ client = "python"
  /\ PyRegister(f)
  /\ refs' = [refs EXCEPT ![f] = 1]
  /\ UNCHANGED <<client, running, lost, call, lmcs, objects>>

Lmc_dealloc(o) ==
  /\ running /\ o \in objects
  /\ objects' = objects \ {o}
  /\ UNCHANGED <<client, running, formulas, call, lmcs>>

-----------------------------------------------------------------------------
End(c) ==
  EndCheck(c) \/ BuildFails(c) \/ \E l \in Chains : EndBuild(c, l) \/ ObjectFails(c, l)

ClientNext ==
  \/ RegisterFails
  \/ \E f \in Formulas : Register(f) \/ Ref(f) \/ Unref(f) \/ PyRefuse(f)
  \/ \E l \in Chains : RefLmc(l) \/ UnrefLmc(l)
  \/ \E l \in Chains, f \in Formulas : Calculate(l, f) \/ CalculateThrows(l, f)
  \/ \E c \in Calls, f \in Formulas : BeginCheck(c, f) \/ PyCheck(c, f) \/ PyBuild(c, f)
  \/ \E c \in Calls, F \in SUBSET Formulas : BeginBuild(c, F)
  \/ \E o \in objects : Lmc_dealloc(o) \/ CalculateOnNothing(o)

Next == ClientNext \/ \E c \in Calls : End(c) \/ Throw(c)

Spec == Init /\ [][Next]_vars

\* A call that runs returns or throws: traversals end.
FairSpec == Spec /\ \A c \in Calls : WF_vars(End(c) \/ Throw(c))

-----------------------------------------------------------------------------
CallRecords ==
  [kind : {"none", "check", "build"}, formulas : SUBSET Formulas,
   referenced : SUBSET Formulas, copies : SUBSET Formulas]

\* Every variable keeps to its domain; a count never falls below zero, where
\* it would wrap around.
TypeOK ==
  /\ client \in {"c", "cpp", "python"} /\ running \in BOOLEAN
  /\ refs \in [Formulas -> Nat] /\ held \in [Formulas -> Nat] /\ lost \in [Formulas -> Nat]
  /\ holder \in [Formulas -> {"none", "live", "deleted"}]
  /\ call \in [Calls -> CallRecords]
  /\ lmcRefs \in [Chains -> Nat] /\ lmcHeld \in [Chains -> Nat] /\ lmcLost \in [Chains -> Nat]
  /\ lmc \in [Chains -> {"none", "live", "freed"}]
  /\ objects \subseteq [lmc : Chains \cup {NoLmc}, formula : Formulas]

Users(f) == {c \in Calls : f \in call[c].referenced}

\* A count is the number of references: the client's, those of the calls that
\* run, and those that exceptions or failed allocations lost, in whatever order
\* calls nest.
RefsAreHolders ==
  running =>
    /\ \A f \in Formulas : refs[f] = held[f] + Cardinality(Users(f)) + lost[f]
    /\ \A l \in Chains : lmcRefs[l] = lmcHeld[l] + lmcLost[l]

\* No evaluator runs on a formula that was destroyed, even if the client drops
\* its last reference from a callback; and what a client holds is alive.
UsedIsAlive ==
  /\ \A c \in Calls : \A f \in call[c].formulas : Alive(f)
  /\ \A f \in Formulas : held[f] > 0 => holder[f] = "live"
  /\ \A l \in Chains : lmcHeld[l] > 0 => lmc[l] = "live"

\* The shared pointer is deleted when the client has given back what it holds
\* and no check runs, not later, unless an exception lost a reference.
UnusedIsDestroyed ==
  \A f \in Formulas :
    running /\ holder[f] = "live" => held[f] > 0 \/ lost[f] > 0 \/ Users(f) # {}

\* A Python chain can be asked as long as its object exists, if there was memory
\* for its reference.
ObjectsAreUsable ==
  \A o \in objects :
    holder[o.formula] = "live" /\ (o.lmc # NoLmc => lmc[o.lmc] = "live")

\* A formula that the client has given back is destroyed in the end, although
\* calls that run still use it.
GivenBackIsDestroyed ==
  \A f \in Formulas :
    []<>(~running \/ held[f] > 0 \/ lost[f] > 0 \/ ~Alive(f))

\* "revive unique_ptr, which destroys everything inside it, when the program
\* leaves the scope" (c_api.cc:214-215): without references a chain is gone.
LastUnrefDestroysChain ==
  \A l \in Chains : lmcRefs[l] = 0 => lmc[l] \in {"none", "destroyed"}
=============================================================================
