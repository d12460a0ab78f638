------------------------ MODULE LmcModelCheckerProofs ------------------------
(***************************************************************************)
(* Value iteration calculates the probability of "finally psi within the   *)
(* bound", for any chain with distributions, any number of workers that    *)
(* build it, any capacity and any formula whose labels say what it means.  *)
(***************************************************************************)
EXTENDS LmcModelChecker, SumsProofs, FiniteSetTheorems

-----------------------------------------------------------------------------
(***************************************************************************)
(* The inductive invariant.  Its parts: the domains of the variables and   *)
(* of the two arrays; what a call in progress knows; where the blocks lie; *)
(* what is written in them.                                                *)
(***************************************************************************)
TypeInv ==
  /\ chain \in Chains
  /\ maxNumberOfTransitions \in Nat /\ transitionCount \in Nat /\ stateCount \in Nat
  /\ transitions \in [DOMAIN transitions -> Entries \cup {NoEntry}]
  /\ range \in [DOMAIN range -> [from : Int, elements : Nat]]
  /\ pc \in [Threads -> {"idle", "placed", "writing", "thrown"}]
  /\ source \in [Threads -> DOMAIN chain.from]
  /\ location \in [Threads -> Nat] /\ written \in [Threads -> Nat]
  /\ handled \subseteq DOMAIN chain.from
  /\ aborted \in BOOLEAN

\* finishCreation runs once, when no call is in progress and none threw.
ShapeInv ==
  /\ stateCount = 0 => /\ DOMAIN transitions = 0..maxNumberOfTransitions - 1
                       /\ DOMAIN range = Sources
  /\ stateCount > 0 => /\ DOMAIN transitions = 0..transitionCount - 1
                       /\ \A t \in Threads : pc[t] = "idle"
                       /\ DOMAIN chain.from \subseteq DOMAIN range
                       /\ DOMAIN range \subseteq Sources
  /\ \/ transitionCount <= maxNumberOfTransitions
     \/ \E t \in Threads : pc[t] = "thrown"
     \/ aborted
  /\ aborted => /\ stateCount = 0
                /\ chain.stuttering # NoStuttering
                /\ range[chain.stuttering] = NoRange

\* A source belongs to one call, and has no block before its call notes one.
CallInv ==
  /\ \A t \in Threads : pc[t] # "idle" => source[t] \notin handled
  /\ \A t, u \in Threads :
       t # u /\ pc[t] # "idle" /\ pc[u] # "idle" => source[t] # source[u]
  /\ \A t \in Threads : pc[t] = "placed" => range[source[t]] = NoRange
  /\ \A t \in Threads :
       pc[t] = "writing" =>
         /\ range[source[t]] = [from |-> location[t], elements |-> Len(Given(source[t]))]
         /\ written[t] <= Len(Given(source[t]))
  /\ \A s \in DOMAIN chain.from : s \notin Claimed => range[s] = NoRange

\* A block lies below another one; blocks without entries are no exception.
Apart(a, n, b, m) == a + n <= b \/ b + m <= a

SpaceInv ==
  /\ \A s \in DOMAIN range :
       /\ range[s] = NoRange \/ range[s].from >= 0
       /\ range[s].from + range[s].elements <= transitionCount
       /\ range[s].from + range[s].elements < maxNumberOfTransitions
  /\ \A t \in Threads :
       pc[t] \in {"placed", "writing"} =>
         /\ location[t] + Len(Given(source[t])) <= transitionCount
         /\ location[t] + Len(Given(source[t])) < maxNumberOfTransitions
  /\ \A r, s \in DOMAIN range :
       r # s => Apart(range[r].from, range[r].elements, range[s].from, range[s].elements)
  /\ \A t \in Threads : \A s \in DOMAIN range :
       pc[t] = "placed" =>
         Apart(location[t], Len(Given(source[t])), range[s].from, range[s].elements)
  /\ \A t, u \in Threads :
       t # u /\ pc[t] = "placed" /\ pc[u] = "placed" =>
         Apart(location[t], Len(Given(source[t])), location[u], Len(Given(source[u])))

\* What a call has written stays, in its block alone.
Reads(from, s, n) ==
  \A k \in 1..n : transitions[from + k - 1] = Entry(Given(s)[k])

ContentInv ==
  /\ \A s \in handled :
       /\ range[s].from >= 0
       /\ range[s].elements = Len(Given(s))
       /\ Reads(range[s].from, s, Len(Given(s)))
  /\ \A t \in Threads : pc[t] = "writing" => Reads(location[t], source[t], written[t])

IndInv == TypeInv /\ ShapeInv /\ CallInv /\ SpaceInv /\ ContentInv

-----------------------------------------------------------------------------
\* What the assumption says of the chain that the variable holds.
LEMMA ChainFacts ==
  ASSUME chain \in Chains
  PROVE  /\ DOMAIN chain.from \subseteq Sources
         /\ NoSource \in DOMAIN chain.from
         /\ Sources \subseteq Int
         /\ \A s \in DOMAIN chain.from :
              /\ Given(s) \in Seq(Transitions)
              /\ Len(Given(s)) \in Nat
              /\ \A k \in 1..Len(Given(s)) : Given(s)[k] \in Transitions
         /\ chain.stuttering # NoStuttering =>
              chain.stuttering \notin DOMAIN chain.from /\ chain.stuttering \in Sources
<1>1. IsChain(chain)
  BY ChainAssumption
<1>2. PICK n \in StateIndexes :
        /\ (DOMAIN chain.from \cup {chain.stuttering}) \ {NoSource} = 0..n
        /\ 0..n \subseteq StateIndexes
  BY <1>1 DEF IsChain
<1>3. DOMAIN chain.from \subseteq Sources
  BY <1>2 DEF Sources
<1>4. chain.stuttering # NoStuttering => chain.stuttering \in Sources
  BY <1>2 DEF Sources, NoSource, NoStuttering
<1>5. Sources \subseteq Int
  BY ChainAssumption DEF Sources, NoSource
<1>6. \A s \in DOMAIN chain.from : Given(s) \in Seq(Transitions)
  BY <1>1 DEF IsChain, Given
<1> QED
  BY <1>1, <1>3, <1>4, <1>5, <1>6 DEF IsChain

LEMMA InitIndInv == Init => IndInv
<1> SUFFICES ASSUME Init PROVE IndInv
  OBVIOUS
<1>1. /\ chain \in Chains /\ maxNumberOfTransitions \in Nat
      /\ range = [s \in Sources |-> NoRange]
      /\ pc = [t \in Threads |-> "idle"] /\ handled = {}
      /\ transitionCount = 0 /\ stateCount = 0 /\ aborted = FALSE
  BY ChainAssumption DEF Init
<1>2. TypeInv
  <2>1. transitions \in [DOMAIN transitions -> Entries \cup {NoEntry}]
    BY DEF Init
  <2>2. range \in [DOMAIN range -> [from : Int, elements : Nat]]
    BY <1>1 DEF NoRange
  <2>3. /\ source \in [Threads -> DOMAIN chain.from]
        /\ location \in [Threads -> Nat] /\ written \in [Threads -> Nat]
    BY <1>1, ChainFacts DEF Init
  <2> QED
    BY <1>1, <2>1, <2>2, <2>3 DEF TypeInv
<1>3. ShapeInv
  BY <1>1 DEF ShapeInv, Init
<1>4. CallInv
  BY <1>1, ChainFacts DEF CallInv
<1>5. SpaceInv
  BY <1>1 DEF SpaceInv, NoRange, Apart
<1>6. ContentInv
  BY <1>1 DEF ContentInv
<1> QED
  BY <1>2, <1>3, <1>4, <1>5, <1>6 DEF IndInv

-----------------------------------------------------------------------------
\* A call that is in progress or about to begin runs before finishCreation.
LEMMA PlaceKeeps ==
  ASSUME IndInv, NEW t \in Threads, NEW s \in Sources, Place(t, s)
  PROVE  IndInv'
<1> USE DEF IndInv
<1> DEFINE n == Len(Given(s))
<1>1. /\ s \in DOMAIN chain.from /\ s \notin Claimed /\ n \in Nat
      /\ pc[t] = "idle" /\ stateCount = 0
      /\ range[s] = NoRange
  BY ChainFacts DEF Place, TypeInv, CallInv
<1>2. /\ pc' = [pc EXCEPT ![t] = pc'[t]]
      /\ pc'[t] = "thrown" \/ (pc'[t] = "placed" /\ transitionCount + n < maxNumberOfTransitions)
      /\ source' = [source EXCEPT ![t] = s]
      /\ location' = [location EXCEPT ![t] = transitionCount]
      /\ transitionCount' = transitionCount + n
      /\ UNCHANGED <<chain, maxNumberOfTransitions, transitions, range, stateCount,
                     written, handled, aborted>>
  BY <1>1, DOMAIN pc = Threads DEF Place, Refuses, TypeInv
<1>3. \A r : Given(r)' = Given(r)
  BY <1>2 DEF Given
<1>4. \A u \in Threads : u # t => pc'[u] = pc[u] /\ source'[u] = source[u] /\ location'[u] = location[u]
  BY <1>2 DEF TypeInv
<1>5. source'[t] = s /\ location'[t] = transitionCount /\ pc'[t] # "idle" /\ pc'[t] # "writing"
  BY <1>2 DEF TypeInv
<1>6. TypeInv'
  <2>1. Entries' = Entries
    BY <1>2 DEF Entries, Loop, Entry
  <2>2. pc' \in [Threads -> {"idle", "placed", "writing", "thrown"}]
    BY <1>2 DEF TypeInv
  <2>3. source' \in [Threads -> DOMAIN chain.from] /\ location' \in [Threads -> Nat]
    BY <1>1, <1>2 DEF TypeInv
  <2> QED
    BY <1>1, <1>2, <2>1, <2>2, <2>3 DEF TypeInv
<1>7. ShapeInv'
  BY <1>1, <1>2, <1>4, <1>5 DEF ShapeInv, TypeInv
<1>8. CallInv'
  <2>1. Claimed' = Claimed \cup {s}
    BY <1>1, <1>2, <1>4, <1>5 DEF Claimed
  <2>2. \A u \in Threads : pc[u] # "idle" => source[u] # s
    BY <1>1 DEF Claimed
  <2>3. s \notin handled
    BY <1>1 DEF Claimed
  <2> QED
    BY <1>1, <1>2, <1>3, <1>4, <1>5, <2>1, <2>2, <2>3 DEF CallInv
<1>9. SpaceInv'
  <2>1. \A r \in DOMAIN range :
          /\ range[r].from \in Int /\ range[r].elements \in Nat
          /\ range[r].from + range[r].elements <= transitionCount
    BY DEF TypeInv, SpaceInv
  <2>2. \A u \in Threads :
          pc[u] = "placed" =>
            location[u] \in Nat /\ Len(Given(source[u])) \in Nat
              /\ location[u] + Len(Given(source[u])) <= transitionCount
    BY ChainFacts DEF TypeInv, SpaceInv
  <2>3. \A r \in DOMAIN range' :
          /\ range'[r] = NoRange \/ range'[r].from >= 0
          /\ range'[r].from + range'[r].elements <= transitionCount'
          /\ range'[r].from + range'[r].elements < maxNumberOfTransitions'
    BY <1>1, <1>2, <2>1 DEF SpaceInv, TypeInv
  <2>4. \A u \in Threads :
          pc'[u] \in {"placed", "writing"} =>
            /\ location'[u] + Len(Given(source'[u])) <= transitionCount'
            /\ location'[u] + Len(Given(source'[u])) < maxNumberOfTransitions'
    <3> TAKE u \in Threads
    <3>1. CASE u = t
      BY <3>1, <1>1, <1>2, <1>5 DEF TypeInv
    <3>2. CASE u # t
      <4>1. Len(Given(source[u])) \in Nat /\ location[u] \in Nat
        BY ChainFacts DEF TypeInv
      <4> QED
        BY <4>1, <3>2, <1>1, <1>2, <1>4 DEF SpaceInv, TypeInv
    <3> QED
      BY <3>1, <3>2
  <2>5. \A u \in Threads : \A r \in DOMAIN range' :
          pc'[u] = "placed" =>
            Apart(location'[u], Len(Given(source'[u])), range'[r].from, range'[r].elements)
    BY <1>1, <1>2, <1>4, <1>5, <2>1 DEF SpaceInv, Apart, TypeInv
  <2>6. \A u, v \in Threads :
          u # v /\ pc'[u] = "placed" /\ pc'[v] = "placed" =>
            Apart(location'[u], Len(Given(source'[u])), location'[v], Len(Given(source'[v])))
    <3> TAKE u, v \in Threads
    <3>1. CASE u # t /\ v # t
      BY <3>1, <1>4 DEF SpaceInv
    <3>2. CASE u = t \/ v = t
      BY <3>2, <1>1, <1>4, <1>5, <2>2 DEF Apart, TypeInv
    <3> QED
      BY <3>1, <3>2
  <2> QED
    BY <1>2, <1>3, <2>3, <2>4, <2>5, <2>6 DEF SpaceInv, Apart
<1>10. ContentInv'
  BY <1>2, <1>3, <1>4, <1>5 DEF ContentInv, Reads, Entry
<1> QED
  BY <1>6, <1>7, <1>8, <1>9, <1>10

LEMMA RecordKeeps ==
  ASSUME IndInv, NEW t \in Threads, Record(t)
  PROVE  IndInv'
<1> USE DEF IndInv
<1> DEFINE s == source[t]
           n == Len(Given(s))
           block == [from |-> location[t], elements |-> n]
<1>1. /\ s \in DOMAIN chain.from /\ s \in Sources /\ n \in Nat /\ location[t] \in Nat
      /\ pc[t] = "placed" /\ stateCount = 0 /\ DOMAIN range = Sources
      /\ range[s] = NoRange /\ s \notin handled
  BY ChainFacts DEF Record, TypeInv, ShapeInv, CallInv
<1>2. /\ range' = [range EXCEPT ![s] = block]
      /\ written' = [written EXCEPT ![t] = 0]
      /\ pc' = [pc EXCEPT ![t] = "writing"]
      /\ UNCHANGED <<chain, maxNumberOfTransitions, transitionCount, transitions,
                     stateCount, source, location, handled, aborted>>
  BY DEF Record, RecordedSource
<1>3. \A r : Given(r)' = Given(r)
  BY <1>2 DEF Given
<1>4. /\ \A u \in Threads : u # t => pc'[u] = pc[u] /\ written'[u] = written[u]
      /\ pc'[t] = "writing" /\ written'[t] = 0
      /\ DOMAIN range' = Sources
      /\ range'[s] = block
      /\ \A r \in Sources : r # s => range'[r] = range[r]
  BY <1>1, <1>2 DEF TypeInv
<1>5. TypeInv'
  <2>1. Entries' = Entries
    BY <1>2 DEF Entries, Loop, Entry
  <2>2. range' \in [DOMAIN range' -> [from : Int, elements : Nat]]
    BY <1>1, <1>2 DEF TypeInv
  <2> QED
    BY <1>2, <2>1, <2>2 DEF TypeInv
<1>6. ShapeInv'
  <2>1. aborted => chain.stuttering \in Sources /\ chain.stuttering # s
    BY <1>1, ChainFacts DEF ShapeInv, TypeInv
  <2>2. pc[t] # "thrown" /\ pc'[t] # "thrown"
    BY <1>1, <1>4
  <2>3. \A u \in Threads : pc[u] = "thrown" => pc'[u] = "thrown"
    BY <2>2, <1>4
  <2> QED
    BY <1>1, <1>2, <1>4, <2>1, <2>3 DEF ShapeInv
<1>7. CallInv'
  <2>1. Claimed' = Claimed
    BY <1>1, <1>2, <1>4 DEF Claimed
  <2>2. s \in Claimed
    BY <1>1 DEF Claimed
  <2>3. \A u \in Threads : pc[u] # "idle" /\ u # t => source[u] # s
    BY <1>1 DEF CallInv
  <2>4. \A u \in Threads : source[u] \in Sources
    BY ChainFacts DEF TypeInv
  <2>5. DOMAIN chain.from \subseteq Sources
    BY ChainFacts DEF TypeInv
  <2> QED
    BY <1>1, <1>2, <1>3, <1>4, <2>1, <2>2, <2>3, <2>4, <2>5 DEF CallInv
<1>8. SpaceInv'
  <2>1. /\ location[t] + n <= transitionCount
        /\ location[t] + n < maxNumberOfTransitions
        /\ \A r \in Sources : Apart(location[t], n, range[r].from, range[r].elements)
    BY <1>1 DEF SpaceInv
  <2>2. \A u \in Threads : u # t /\ pc[u] = "placed" =>
          Apart(location[u], Len(Given(source[u])), location[t], n)
    BY <1>1 DEF SpaceInv
  <2>3. \A r \in Sources : range[r].from \in Int /\ range[r].elements \in Nat
    BY <1>1 DEF TypeInv
  <2>4. \A r \in DOMAIN range' :
          /\ range'[r] = NoRange \/ range'[r].from >= 0
          /\ range'[r].from + range'[r].elements <= transitionCount'
          /\ range'[r].from + range'[r].elements < maxNumberOfTransitions'
    BY <1>1, <1>2, <1>4, <2>1 DEF SpaceInv
  <2>5. \A q, r \in DOMAIN range' :
          q # r => Apart(range'[q].from, range'[q].elements, range'[r].from, range'[r].elements)
    BY <1>1, <1>4, <2>1, <2>3 DEF SpaceInv, Apart
  <2>6. \A u \in Threads : \A r \in DOMAIN range' :
          pc'[u] = "placed" =>
            Apart(location[u], Len(Given(source[u])), range'[r].from, range'[r].elements)
    BY <1>1, <1>4, <2>2 DEF SpaceInv
  <2> QED
    BY <1>1, <1>2, <1>3, <1>4, <2>4, <2>5, <2>6 DEF SpaceInv, Apart
<1>9. ContentInv'
  <2>1. \A r \in handled : r \in Sources /\ r # s
    BY <1>1, ChainFacts DEF TypeInv
  <2> QED
    BY <1>2, <1>3, <1>4, <2>1 DEF ContentInv, Reads, Entry
<1> QED
  BY <1>5, <1>6, <1>7, <1>8, <1>9

LEMMA WriteKeeps ==
  ASSUME IndInv, NEW t \in Threads, Write(t)
  PROVE  IndInv'
<1> USE DEF IndInv
<1> DEFINE s == source[t]
           n == Len(Given(s))
           place == location[t] + written[t]
           tr == Given(s)[written[t] + 1]
<1>1. /\ s \in DOMAIN chain.from /\ s \in Sources /\ n \in Nat /\ location[t] \in Nat
      /\ pc[t] = "writing" /\ stateCount = 0 /\ DOMAIN range = Sources
      /\ DOMAIN transitions = 0..maxNumberOfTransitions - 1
      /\ range[s] = [from |-> location[t], elements |-> n]
      /\ s \notin handled /\ written[t] \in Nat /\ written[t] < n
      /\ tr \in Transitions
  <2>1. pc[t] = "writing" /\ written[t] < Len(Given(source[t]))
    BY DEF Write
  <2>2. /\ s \in DOMAIN chain.from /\ s \in Sources /\ n \in Nat
        /\ \A k \in 1..n : Given(s)[k] \in Transitions
    BY ChainFacts DEF TypeInv
  <2>3. location[t] \in Nat /\ written[t] \in Nat /\ stateCount \in Nat
    BY DEF TypeInv
  <2>4. stateCount = 0
    BY <2>1, <2>3 DEF ShapeInv
  <2>5. tr \in Transitions
    BY <2>1, <2>2, <2>3
  <2> QED
    BY <2>1, <2>2, <2>3, <2>4, <2>5 DEF ShapeInv, CallInv
<1>2. /\ transitions' = [transitions EXCEPT ![place] = Entry(tr)]
      /\ written' = [written EXCEPT ![t] = @ + 1]
      /\ UNCHANGED <<chain, maxNumberOfTransitions, transitionCount, range, stateCount,
                     pc, source, location, handled, aborted>>
  BY DEF Write
<1>3. \A r : Given(r)' = Given(r)
  BY <1>2 DEF Given
<1>4. /\ \A u \in Threads : u # t => written'[u] = written[u]
      /\ written'[t] = written[t] + 1
      /\ place \in DOMAIN transitions
      /\ transitions'[place] = Entry(tr)
      /\ DOMAIN transitions' = DOMAIN transitions
      /\ \A k \in DOMAIN transitions : k # place => transitions'[k] = transitions[k]
  BY <1>1, <1>2 DEF TypeInv, SpaceInv
<1>5. TypeInv'
  <2>1. Entries' = Entries /\ Entry(tr) \in Entries
    BY <1>1, <1>2 DEF Entries, Loop, Entry
  <2>2. transitions' \in [DOMAIN transitions' -> Entries \cup {NoEntry}]
    BY <1>1, <1>2, <2>1 DEF TypeInv
  <2>3. written' \in [Threads -> Nat]
    BY <1>1, <1>2 DEF TypeInv
  <2> QED
    BY <1>2, <2>1, <2>2, <2>3 DEF TypeInv
<1>6. ShapeInv'
  BY <1>2, <1>4 DEF ShapeInv
<1>7. CallInv'
  BY <1>1, <1>2, <1>3, <1>4 DEF CallInv, Claimed
<1>8. SpaceInv'
  BY <1>2, <1>3 DEF SpaceInv, Apart
<1>9. ContentInv'
  <2>1. ASSUME NEW r \in Sources, r # s, NEW k \in 1..range[r].elements,
               range[r].from >= 0
        PROVE  transitions'[range[r].from + k - 1] = transitions[range[r].from + k - 1]
    <3>1. /\ range[r].from \in Int /\ range[r].elements \in Nat
          /\ range[r].from + range[r].elements < maxNumberOfTransitions
      BY <1>1, <2>1 DEF TypeInv, SpaceInv
    <3>2. Apart(range[r].from, range[r].elements, location[t], n)
      BY <1>1, <2>1 DEF SpaceInv
    <3> QED
      BY <1>1, <1>4, <2>1, <3>1, <3>2 DEF Apart, TypeInv
  <2>2. ASSUME NEW r \in handled
        PROVE  Reads(range[r].from, r, Len(Given(r)))'
    <3>1. /\ r \in Sources /\ r # s /\ range[r].from >= 0
          /\ range[r].elements = Len(Given(r))
          /\ Reads(range[r].from, r, Len(Given(r)))
      BY <1>1, ChainFacts DEF ContentInv, TypeInv
    <3>2. \A k \in 1..Len(Given(r)) :
            transitions'[range[r].from + k - 1] = transitions[range[r].from + k - 1]
      BY <2>1, <3>1
    <3> QED
      BY <1>2, <1>3, <3>1, <3>2 DEF Reads
  <2>3. ASSUME NEW u \in Threads, u # t, pc[u] = "writing"
        PROVE  Reads(location[u], source[u], written[u])'
    <3>1. /\ range[source[u]] = [from |-> location[u], elements |-> Len(Given(source[u]))]
          /\ written[u] \in Nat /\ written[u] <= Len(Given(source[u]))
          /\ source[u] \in Sources /\ source[u] # s /\ location[u] \in Nat
          /\ Len(Given(source[u])) \in Nat
      BY <1>1, <2>3, ChainFacts DEF CallInv, TypeInv
    <3>2. \A k \in 1..written[u] :
            transitions'[location[u] + k - 1] = transitions[location[u] + k - 1]
      BY <2>1, <3>1
    <3>3. Reads(location[u], source[u], written[u])
      BY <2>3 DEF ContentInv
    <3>4. written'[u] = written[u]
      BY <1>4, <2>3
    <3> QED
      BY <1>2, <1>3, <3>2, <3>3, <3>4 DEF Reads
  <2>4. Reads(location[t], s, written[t])'
    <3>1. location[t] + n < maxNumberOfTransitions
      BY <1>1 DEF SpaceInv
    <3>2. \A k \in 1..written[t] :
            transitions'[location[t] + k - 1] = Entry(Given(s)[k])
      <4>1. \A k \in 1..written[t] :
              /\ location[t] + k - 1 \in DOMAIN transitions
              /\ location[t] + k - 1 # place
        BY <1>1, <3>1 DEF TypeInv
      <4>2. Reads(location[t], s, written[t])
        BY <1>1 DEF ContentInv
      <4> QED
        BY <1>4, <4>1, <4>2 DEF Reads
    <3>3. \A k \in 1..written[t] + 1 :
            transitions'[location[t] + k - 1] = Entry(Given(s)[k])
      BY <1>1, <1>4, <3>2
    <3> QED
      BY <1>2, <1>3, <1>4, <3>3 DEF Reads, Entry
  <2> QED
    BY <1>2, <1>3, <2>2, <2>3, <2>4 DEF ContentInv
<1> QED
  BY <1>5, <1>6, <1>7, <1>8, <1>9

LEMMA ReturnKeeps ==
  ASSUME IndInv, NEW t \in Threads, Return(t)
  PROVE  IndInv'
<1> USE DEF IndInv
<1> DEFINE s == source[t]
           n == Len(Given(s))
<1>1. /\ pc[t] = "writing" /\ written[t] = n
      /\ s \in DOMAIN chain.from /\ n \in Nat /\ location[t] \in Nat
      /\ range[s] = [from |-> location[t], elements |-> n]
      /\ stateCount = 0
  <2>1. pc[t] = "writing" /\ written[t] = n
    BY DEF Return
  <2>2. s \in DOMAIN chain.from /\ n \in Nat /\ location[t] \in Nat /\ stateCount \in Nat
    BY ChainFacts DEF TypeInv
  <2>3. stateCount = 0
    BY <2>1, <2>2 DEF ShapeInv
  <2> QED
    BY <2>1, <2>2, <2>3 DEF CallInv
<1>2. /\ handled' = handled \cup {s}
      /\ pc' = [pc EXCEPT ![t] = "idle"]
      /\ source' = [source EXCEPT ![t] = NoSource]
      /\ location' = [location EXCEPT ![t] = 0]
      /\ written' = [written EXCEPT ![t] = 0]
      /\ UNCHANGED <<chain, maxNumberOfTransitions, transitionCount, transitions, range,
                     stateCount, aborted>>
  BY DEF Return, lmc
<1>3. \A r : Given(r)' = Given(r)
  BY <1>2 DEF Given
<1>4. /\ \A u \in Threads : u # t => /\ pc'[u] = pc[u] /\ source'[u] = source[u]
                                     /\ location'[u] = location[u]
                                     /\ written'[u] = written[u]
      /\ pc'[t] = "idle"
  BY <1>2 DEF TypeInv
<1>5. TypeInv'
  <2>1. Entries' = Entries
    BY <1>2 DEF Entries, Loop, Entry
  <2>2. NoSource \in DOMAIN chain.from
    BY ChainFacts DEF TypeInv
  <2>3. pc' \in [Threads -> {"idle", "placed", "writing", "thrown"}]
    BY <1>2 DEF TypeInv
  <2>4. source' \in [Threads -> DOMAIN chain'.from]
    <3>1. source \in [Threads -> DOMAIN chain.from] /\ chain' = chain
      BY <1>2 DEF TypeInv
    <3> QED
      BY <1>2, <2>2, <3>1
  <2>5. location' \in [Threads -> Nat] /\ written' \in [Threads -> Nat]
    BY <1>2 DEF TypeInv
  <2>6. handled' \subseteq DOMAIN chain'.from
    <3>1. handled \subseteq DOMAIN chain.from /\ chain' = chain
      BY <1>2 DEF TypeInv
    <3> QED
      BY <1>1, <1>2, <3>1
  <2>7. /\ transitions' \in [DOMAIN transitions' -> Entries' \cup {NoEntry}]
        /\ range' \in [DOMAIN range' -> [from : Int, elements : Nat]]
        /\ aborted' \in BOOLEAN
        /\ chain' \in Chains
        /\ maxNumberOfTransitions' \in Nat /\ transitionCount' \in Nat /\ stateCount' \in Nat
    BY <1>2, <2>1 DEF TypeInv
  <2> QED
    BY <2>3, <2>4, <2>5, <2>6, <2>7 DEF TypeInv
<1>6. ShapeInv'
  BY <1>1, <1>2, <1>4 DEF ShapeInv
<1>7. CallInv'
  <2>1. Claimed' = Claimed
    BY <1>1, <1>2, <1>4 DEF Claimed
  <2>2. \A u \in Threads : pc[u] # "idle" /\ u # t => source[u] # s
    BY <1>1 DEF CallInv
  <2> QED
    BY <1>2, <1>3, <1>4, <2>1, <2>2 DEF CallInv
<1>8. SpaceInv'
  BY <1>2, <1>3, <1>4 DEF SpaceInv, Apart
<1>9. ContentInv'
  <2>1. Reads(location[t], s, n)
    BY <1>1 DEF ContentInv
  <2>2. \A r, m, f : Reads(f, r, m)' = Reads(f, r, m)
    BY <1>2, <1>3 DEF Reads, Entry
  <2>3. ASSUME NEW r \in handled'
        PROVE  /\ range'[r].from >= 0
               /\ range'[r].elements = Len(Given(r))'
               /\ Reads(range[r].from, r, Len(Given(r)))'
    <3>1. /\ range[r].from >= 0
          /\ range[r].elements = Len(Given(r))
          /\ Reads(range[r].from, r, Len(Given(r)))
      <4>1. CASE r \in handled
        BY <4>1 DEF ContentInv
      <4>2. CASE r = s
        BY <4>2, <1>1, <2>1
      <4> QED
        BY <1>2, <2>3, <4>1, <4>2
    <3>2. range' = range /\ Given(r)' = Given(r)
      BY <1>2, <1>3
    <3> QED
      BY <2>2, <3>1, <3>2
  <2>4. ASSUME NEW u \in Threads, pc'[u] = "writing"
        PROVE  Reads(location[u], source[u], written[u])'
    <3>1. u # t /\ pc[u] = "writing"
      BY <1>4, <2>4
    <3>2. Reads(location[u], source[u], written[u])
      BY <3>1 DEF ContentInv
    <3> QED
      BY <1>2, <1>3, <1>4, <3>1, <3>2 DEF Reads, Entry
  <2> QED
    BY <2>3, <2>4 DEF ContentInv
<1> QED
  BY <1>5, <1>6, <1>7, <1>8, <1>9

LEMMA CreateStutteringStateKeeps ==
  ASSUME IndInv, CreateStutteringState
  PROVE  IndInv'
<1> USE DEF IndInv
<1> DEFINE s == chain.stuttering
           block == [from |-> transitionCount, elements |-> 1]
<1>1. /\ stateCount = 0 /\ ~aborted /\ s # NoStuttering /\ range[s] = NoRange
      /\ transitionCount' = transitionCount + 1
      /\ UNCHANGED <<chain, maxNumberOfTransitions, stateCount, pc, source, location,
                     written, handled>>
  BY DEF CreateStutteringState
<1>2. /\ s \in Sources /\ s \notin DOMAIN chain.from
      /\ DOMAIN range = Sources /\ DOMAIN transitions = 0..maxNumberOfTransitions - 1
      /\ transitionCount \in Nat
      /\ \A u \in Threads : source[u] \in DOMAIN chain.from
      /\ handled \subseteq DOMAIN chain.from
  BY <1>1, ChainFacts DEF TypeInv, ShapeInv
<1>3. \A r : Given(r)' = Given(r)
  BY <1>1 DEF Given
<1>4. Entries' = Entries /\ Claimed' = Claimed
  BY <1>1 DEF Entries, Loop, Entry, Claimed
<1>5. CASE Refuses(transitionCount, 1)
  <2>1. aborted' = TRUE /\ UNCHANGED <<transitions, range>>
    BY <1>5 DEF CreateStutteringState
  <2>2. TypeInv' /\ ShapeInv'
    BY <1>1, <1>2, <1>4, <2>1 DEF TypeInv, ShapeInv
  <2>3. CallInv'
    BY <1>1, <1>3, <1>4, <2>1 DEF CallInv
  <2>4. SpaceInv'
    <3>1. \A r \in DOMAIN range : range[r].from \in Int /\ range[r].elements \in Nat
      BY DEF TypeInv
    <3>2. \A u \in Threads : location[u] \in Nat /\ Len(Given(source[u])) \in Nat
      BY ChainFacts DEF TypeInv
    <3>3. \A r \in DOMAIN range : range[r].from + range[r].elements <= transitionCount'
      BY <1>1, <1>2, <3>1 DEF SpaceInv
    <3>4. \A u \in Threads : pc[u] \in {"placed", "writing"} =>
            location[u] + Len(Given(source[u])) <= transitionCount'
      BY <1>1, <1>2, <3>2 DEF SpaceInv
    <3> QED
      BY <1>1, <1>3, <2>1, <3>3, <3>4 DEF SpaceInv, Apart
  <2>5. ContentInv'
    <3>1. \A r, k, f : Reads(f, r, k)' = Reads(f, r, k)
      BY <1>1, <1>3, <2>1 DEF Reads, Entry
    <3>2. \A r \in handled' : /\ range'[r].from >= 0
                             /\ range'[r].elements = Len(Given(r)')
                             /\ Reads(range[r].from, r, Len(Given(r)))
      BY <1>1, <1>3, <2>1 DEF ContentInv
    <3>3. \A u \in Threads : pc'[u] = "writing" => Reads(location[u], source[u], written[u])
      BY <1>1 DEF ContentInv
    <3> QED
      BY <1>1, <1>3, <2>1, <3>1, <3>2, <3>3 DEF ContentInv
  <2> QED
    BY <2>2, <2>3, <2>4, <2>5
<1>6. CASE ~Refuses(transitionCount, 1)
  <2>1. /\ transitions' = [transitions EXCEPT ![transitionCount] = Loop(chain)]
        /\ range' = [range EXCEPT ![s] = block]
        /\ aborted' = FALSE
        /\ transitionCount + 1 < maxNumberOfTransitions
    BY <1>1, <1>2, <1>6 DEF CreateStutteringState, Refuses, TypeInv
  <2>2. /\ DOMAIN range' = Sources /\ range'[s] = block
        /\ \A r \in Sources : r # s => range'[r] = range[r]
        /\ DOMAIN transitions' = DOMAIN transitions
        /\ \A k \in DOMAIN transitions :
             k # transitionCount => transitions'[k] = transitions[k]
    BY <1>2, <2>1 DEF TypeInv
  <2>3. DOMAIN chain.from \subseteq Sources
    BY ChainFacts DEF TypeInv
  <2>4. TypeInv'
    <3>1. Loop(chain) \in Entries
      BY DEF Entries
    <3>2. transitions' \in [DOMAIN transitions' -> Entries' \cup {NoEntry}]
      BY <1>4, <2>1, <2>2, <3>1 DEF TypeInv
    <3>3. range' \in [DOMAIN range' -> [from : Int, elements : Nat]]
      BY <1>2, <2>1 DEF TypeInv
    <3>4. /\ chain' \in Chains
          /\ maxNumberOfTransitions' \in Nat /\ stateCount' \in Nat
          /\ transitionCount' \in Nat
      BY <1>1, <1>2 DEF TypeInv
    <3>5. /\ pc' \in [Threads -> {"idle", "placed", "writing", "thrown"}]
          /\ source' \in [Threads -> DOMAIN chain'.from]
          /\ location' \in [Threads -> Nat] /\ written' \in [Threads -> Nat]
          /\ handled' \subseteq DOMAIN chain'.from
      BY <1>1 DEF TypeInv
    <3> QED
      BY <2>1, <3>2, <3>3, <3>4, <3>5 DEF TypeInv
  <2>5. ShapeInv'
    BY <1>1, <1>2, <2>1, <2>2 DEF ShapeInv, TypeInv
  <2>6. CallInv'
    BY <1>1, <1>2, <1>3, <1>4, <2>2, <2>3 DEF CallInv
  <2>7. SpaceInv'
    <3>1. \A r \in Sources :
            /\ range[r].from \in Int /\ range[r].elements \in Nat
            /\ range[r].from + range[r].elements <= transitionCount
      BY <1>2 DEF TypeInv, SpaceInv
    <3>2. \A u \in Threads :
            /\ location[u] \in Nat /\ Len(Given(source[u])) \in Nat
            /\ pc[u] \in {"placed", "writing"} =>
                 location[u] + Len(Given(source[u])) <= transitionCount
      BY ChainFacts DEF TypeInv, SpaceInv
    <3>3. \A r \in DOMAIN range' :
            /\ range'[r] = NoRange \/ range'[r].from >= 0
            /\ range'[r].from + range'[r].elements <= transitionCount'
            /\ range'[r].from + range'[r].elements < maxNumberOfTransitions'
      BY <1>1, <1>2, <2>1, <2>2, <3>1 DEF SpaceInv
    <3>4. \A u \in Threads : pc[u] \in {"placed", "writing"} =>
            location[u] + Len(Given(source[u])) <= transitionCount'
      BY <1>1, <1>2, <3>2
    <3>5. \A q, r \in DOMAIN range' :
            q # r => Apart(range'[q].from, range'[q].elements, range'[r].from, range'[r].elements)
      BY <1>2, <2>2, <3>1 DEF SpaceInv, Apart
    <3>6. \A u \in Threads : \A r \in DOMAIN range' :
            pc[u] = "placed" =>
              Apart(location[u], Len(Given(source[u])), range'[r].from, range'[r].elements)
      BY <1>2, <2>2, <3>1, <3>2 DEF SpaceInv, Apart
    <3> QED
      BY <1>1, <1>3, <3>3, <3>4, <3>5, <3>6 DEF SpaceInv, Apart
  <2>8. ContentInv'
    <3>1. ASSUME NEW r \in Sources, NEW k \in 1..range[r].elements, range[r].from >= 0
          PROVE  transitions'[range[r].from + k - 1] = transitions[range[r].from + k - 1]
      <4>1. /\ range[r].from \in Int /\ range[r].elements \in Nat
            /\ range[r].from + range[r].elements <= transitionCount
            /\ range[r].from + range[r].elements < maxNumberOfTransitions
        BY <1>2, <3>1 DEF TypeInv, SpaceInv
      <4> QED
        BY <1>2, <2>2, <3>1, <4>1 DEF TypeInv
    <3>2. ASSUME NEW r \in handled
          PROVE  /\ range'[r].from >= 0 /\ range'[r].elements = Len(Given(r))'
                 /\ Reads(range[r].from, r, Len(Given(r)))'
                 /\ range'[r] = range[r]
      <4>1. /\ r \in Sources /\ r # s /\ range[r].from >= 0
            /\ range[r].elements = Len(Given(r))
            /\ Reads(range[r].from, r, Len(Given(r)))
        BY <1>2, <2>3 DEF ContentInv
      <4>2. \A k \in 1..Len(Given(r)) :
              transitions'[range[r].from + k - 1] = transitions[range[r].from + k - 1]
        BY <3>1, <4>1
      <4>3. range'[r] = range[r]
        BY <2>2, <4>1
      <4> QED
        BY <1>3, <2>1, <4>1, <4>2, <4>3 DEF Reads
    <3>3. ASSUME NEW u \in Threads, pc[u] = "writing"
          PROVE  Reads(location[u], source[u], written[u])'
      <4>1. /\ source[u] \in Sources
            /\ range[source[u]] = [from |-> location[u], elements |-> Len(Given(source[u]))]
            /\ written[u] \in Nat /\ written[u] <= Len(Given(source[u]))
            /\ location[u] \in Nat /\ Len(Given(source[u])) \in Nat
        BY <2>3, <3>3, ChainFacts DEF CallInv, TypeInv
      <4>2. \A k \in 1..written[u] :
              transitions'[location[u] + k - 1] = transitions[location[u] + k - 1]
        BY <3>1, <4>1
      <4>3. Reads(location[u], source[u], written[u])
        BY <3>3 DEF ContentInv
      <4> QED
        BY <1>1, <1>3, <4>2, <4>3 DEF Reads
    <3> QED
      BY <1>1, <1>3, <3>2, <3>3 DEF ContentInv, Reads
  <2> QED
    BY <2>4, <2>5, <2>6, <2>7, <2>8
<1> QED
  BY <1>5, <1>6

\* The states that finishCreation counts are 0 .. n-1, where n is their number.
LEMMA CountedStates ==
  ASSUME IndInv, Complete
  PROVE  /\ NoOfStates \in Nat \ {0}
         /\ (DOMAIN chain.from \cup {chain.stuttering}) \ {NoSource} = 0..NoOfStates - 1
         /\ DOMAIN chain.from \subseteq {NoSource} \cup 0..NoOfStates - 1
         /\ {NoSource} \cup 0..NoOfStates - 1 \subseteq Sources
<1>1. chain \in Chains /\ handled = DOMAIN chain.from
  BY DEF IndInv, TypeInv, Complete
<1>2. IsChain(chain)
  BY <1>1, ChainAssumption
<1>3. PICK n \in StateIndexes :
        /\ (DOMAIN chain.from \cup {chain.stuttering}) \ {NoSource} = 0..n
        /\ 0..n \subseteq StateIndexes
  BY <1>2 DEF IsChain
<1>4. n \in Nat
  BY ChainAssumption
<1>5. (handled \cup {chain.stuttering}) \ {NoSource, NoStuttering} = 0..n
  BY <1>1, <1>3 DEF NoSource, NoStuttering
<1>6. Cardinality(0..n) = n + 1
  BY <1>4, FS_Interval
<1>7. NoOfStates = n + 1
  BY <1>5, <1>6 DEF NoOfStates
<1> QED
  BY <1>3, <1>4, <1>7 DEF Sources

LEMMA FinishCreationKeeps ==
  ASSUME IndInv, FinishCreation
  PROVE  IndInv'
<1> USE DEF IndInv
<1>1. /\ stateCount = 0 /\ \A t \in Threads : pc[t] = "idle"
      /\ handled = DOMAIN chain.from
      /\ chain.stuttering # NoStuttering => range[chain.stuttering] # NoRange
      /\ stateCount' = NoOfStates
      /\ range' = [s \in {NoSource} \cup 0..stateCount' - 1 |-> range[s]]
      /\ transitions' = [k \in 0..transitionCount - 1 |-> transitions[k]]
      /\ UNCHANGED <<chain, maxNumberOfTransitions, transitionCount, pc, source,
                     location, written, handled, aborted>>
  BY DEF FinishCreation, Complete
<1>2. /\ stateCount' \in Nat /\ stateCount' > 0
      /\ DOMAIN chain.from \subseteq DOMAIN range'
      /\ DOMAIN range' \subseteq Sources
      /\ DOMAIN transitions = 0..maxNumberOfTransitions - 1
      /\ DOMAIN range = Sources
      /\ ~aborted /\ transitionCount <= maxNumberOfTransitions
      /\ transitionCount \in Nat /\ maxNumberOfTransitions \in Nat
  <2>1. ~aborted
    BY <1>1 DEF ShapeInv
  <2>2. transitionCount <= maxNumberOfTransitions
    BY <1>1, <2>1 DEF ShapeInv
  <2>3. /\ stateCount' \in Nat \ {0}
        /\ DOMAIN chain.from \subseteq DOMAIN range'
        /\ DOMAIN range' \subseteq Sources
    <3>1. Complete
      BY DEF FinishCreation
    <3> QED
      BY <1>1, <3>1, CountedStates
  <2> QED
    BY <1>1, <2>1, <2>2, <2>3 DEF ShapeInv, TypeInv
<1>3. \A r \in DOMAIN range' : r \in DOMAIN range /\ range'[r] = range[r]
  BY <1>1, <1>2
<1>4. /\ DOMAIN transitions' = 0..transitionCount - 1
      /\ \A k \in DOMAIN transitions' :
           k \in DOMAIN transitions /\ transitions'[k] = transitions[k]
  BY <1>1, <1>2
<1>5. (\A r : Given(r)' = Given(r)) /\ Claimed' = Claimed /\ Entries' = Entries
  BY <1>1 DEF Given, Claimed, Entries, Loop, Entry
<1>6. TypeInv'
  <2>1. transitions' \in [DOMAIN transitions' -> Entries' \cup {NoEntry}]
    BY <1>1, <1>4, <1>5 DEF TypeInv
  <2>2. range' \in [DOMAIN range' -> [from : Int, elements : Nat]]
    BY <1>1, <1>3 DEF TypeInv
  <2> QED
    BY <1>1, <1>2, <2>1, <2>2 DEF TypeInv
<1>7. ShapeInv'
  BY <1>1, <1>2, <1>4 DEF ShapeInv
<1>8. CallInv'
  BY <1>1, <1>2, <1>3, <1>5 DEF CallInv
<1>9. SpaceInv'
  BY <1>1, <1>3, <1>5 DEF SpaceInv, Apart
<1>10. ContentInv'
  <2>1. ASSUME NEW r \in handled
        PROVE  /\ range'[r].from >= 0 /\ range'[r].elements = Len(Given(r))
               /\ Reads(range[r].from, r, Len(Given(r)))'
    <3>1. /\ range'[r] = range[r] /\ range[r].from >= 0
          /\ range[r].elements = Len(Given(r))
          /\ Reads(range[r].from, r, Len(Given(r)))
          /\ range[r].from \in Int /\ Len(Given(r)) \in Nat
          /\ range[r].from + range[r].elements <= transitionCount
      BY <1>1, <1>2, <1>3, ChainFacts DEF ContentInv, SpaceInv, TypeInv
    <3>2. \A k \in 1..Len(Given(r)) :
            transitions'[range[r].from + k - 1] = transitions[range[r].from + k - 1]
      <4> TAKE k \in 1..Len(Given(r))
      <4>1. PICK first \in Int, n \in Nat :
              /\ first = range[r].from /\ n = Len(Given(r))
              /\ first >= 0 /\ first + n <= transitionCount
        BY <3>1
      <4>2. k \in 1..n /\ transitionCount \in Nat
        BY <1>2, <4>1
      <4> HIDE DEF IndInv
      <4>3. first + k - 1 \in 0..transitionCount - 1
        BY <4>1, <4>2
      <4> QED BY <1>4, <4>1, <4>3
    <3> QED
      BY <1>5, <3>1, <3>2 DEF Reads, Entry
  <2> QED
    BY <1>1, <1>5, <2>1 DEF ContentInv
<1> QED
  BY <1>6, <1>7, <1>8, <1>9, <1>10

-----------------------------------------------------------------------------
\* No step of a worker or of the client disturbs the invariant, whatever the
\* number of workers and the chain: building is correct for every interleaving.
THEOREM LmcInductive == Spec => []IndInv
<1>1. ASSUME IndInv, [Next]_vars PROVE IndInv'
  <2>1. ASSUME NEW t \in Threads, Worker(t) PROVE IndInv'
    BY <1>1, <2>1, PlaceKeeps, RecordKeeps, WriteKeeps, ReturnKeeps DEF Worker
  <2>2. CASE CreateStutteringState
    BY <1>1, <2>2, CreateStutteringStateKeeps
  <2>3. CASE FinishCreation
    BY <1>1, <2>3, FinishCreationKeeps
  <2>4. CASE UNCHANGED vars
    <3>1. UNCHANGED <<chain, maxNumberOfTransitions, transitionCount, transitions, range,
                      stateCount, pc, source, location, written, handled, aborted>>
      BY <2>4 DEF vars, lmc
    <3>2. (\A r : Given(r)' = Given(r)) /\ Claimed' = Claimed /\ Entries' = Entries
      BY <3>1 DEF Given, Claimed, Entries, Loop, Entry
    <3>3. \A f, r, k : Reads(f, r, k)' = Reads(f, r, k)
      BY <3>1, <3>2 DEF Reads, Entry
    <3>4. TypeInv' /\ ShapeInv'
      BY <1>1, <3>1, <3>2 DEF IndInv, TypeInv, ShapeInv
    <3>5. CallInv'
      BY <1>1, <3>1, <3>2 DEF IndInv, CallInv
    <3>6. SpaceInv'
      BY <1>1, <3>1, <3>2 DEF IndInv, SpaceInv, Apart
    <3>7. ContentInv'
      BY <1>1, <3>1, <3>2, <3>3 DEF IndInv, ContentInv
    <3> QED
      BY <3>4, <3>5, <3>6, <3>7 DEF IndInv
  <2> QED
    BY <1>1, <2>1, <2>2, <2>3, <2>4 DEF Next, Building
<1> QED
  BY InitIndInv, <1>1, PTL DEF Spec

\* Every variable keeps to its domain; in particular no range reaches beyond
\* the array, though createStutteringState and the workers only look at the
\* counter after they advanced it.
THEOREM LmcTypeCorrect == Spec => []TypeOK
<1>1. ASSUME IndInv PROVE TypeOK
  <2> USE <1>1 DEF IndInv
  <2>1. range \in [DOMAIN range -> Ranges]
    <3>1. \A r \in DOMAIN range :
            /\ range[r] \in [from : Int, elements : Nat]
            /\ range[r] = NoRange \/ range[r].from >= 0
            /\ range[r].from + range[r].elements < maxNumberOfTransitions
            /\ maxNumberOfTransitions \in Nat
      BY DEF TypeInv, SpaceInv
    <3>2. ASSUME NEW r \in DOMAIN range PROVE range[r] \in Ranges
      <4>1. CASE range[r] = NoRange
        BY <3>1, <4>1 DEF NoRange, Ranges
      <4>2. CASE range[r].from >= 0
        <5>1. /\ range[r].from \in -1..maxNumberOfTransitions
              /\ range[r].elements \in 0..maxNumberOfTransitions
          BY <3>1, <4>2
        <5> QED
          BY <3>1, <5>1 DEF Ranges
      <4> QED
        BY <3>1, <4>1, <4>2
    <3> QED
      BY <3>2 DEF TypeInv
  <2> QED
    BY <2>1 DEF TypeInv, TypeOK
<1> QED
  BY LmcInductive, <1>1, PTL

\* What the fetch-and-add hands out belongs to one source alone, and lies in
\* the array, which finishCreation may have cut meanwhile.
THEOREM BlocksAreDisjointHolds == Spec => []BlocksAreDisjoint
<1>1. ASSUME IndInv PROVE BlocksAreDisjoint
  <2> USE <1>1 DEF IndInv
  <2>1. \A r \in DOMAIN range :
          /\ range[r].from \in Int /\ range[r].elements \in Nat
          /\ range[r] = NoRange \/ range[r].from >= 0
          /\ range[r].from + range[r].elements <= transitionCount
          /\ range[r].from + range[r].elements < maxNumberOfTransitions
    BY DEF TypeInv, SpaceInv
  <2>2. \A r \in DOMAIN range : range[r] = NoRange => Block(r) = {}
    BY DEF Block, NoRange
  <2>3. \/ DOMAIN transitions = 0..maxNumberOfTransitions - 1
        \/ DOMAIN transitions = 0..transitionCount - 1
    BY DEF TypeInv, ShapeInv
  <2>4. \A r \in DOMAIN range : Block(r) \subseteq DOMAIN transitions
    <3> TAKE r \in DOMAIN range
    <3>1. CASE range[r] = NoRange
      BY <2>2, <3>1
    <3>2. CASE range[r].from >= 0
      BY <2>1, <2>3, <3>2 DEF Block, TypeInv
    <3> QED
      BY <2>1, <3>1, <3>2
  <2>5. \A r, s \in DOMAIN range : r # s => Block(r) \cap Block(s) = {}
    BY <2>1 DEF SpaceInv, Apart, Block
  <2> QED
    BY <2>4, <2>5 DEF BlocksAreDisjoint
<1> QED
  BY LmcInductive, <1>1, PTL

\* A source whose call returned reads back what the modifier was given, for
\* every interleaving of the other workers' writes, and after finishCreation.
THEOREM ReadsBackHolds == Spec => []ReadsBack
<1>1. ASSUME IndInv PROVE ReadsBack
  <2> SUFFICES ASSUME NEW s \in handled
               PROVE  TransitionsOf(s) = [k \in 1..Len(Given(s)) |-> Entry(Given(s)[k])]
    BY DEF ReadsBack
  <2>1. /\ range[s].elements = Len(Given(s))
        /\ Reads(range[s].from, s, Len(Given(s)))
    BY <1>1 DEF IndInv, ContentInv
  <2> QED
    BY <2>1 DEF TransitionsOf, Reads
<1> QED
  BY LmcInductive, <1>1, PTL

-----------------------------------------------------------------------------
(***************************************************************************)
(* What validate() finds after finishCreation.  The blocks lie apart       *)
(* (SpaceInv) and are written (ContentInv); it remains that they leave no  *)
(* entry of the array over, that nothing but a source or the stuttering    *)
(* state has a block, and that finishCreation keeps exactly those.         *)
(***************************************************************************)
Entered(k) ==
  \/ \E s \in DOMAIN range : k \in Block(s)
  \/ \E t \in Threads : /\ pc[t] = "placed"
                        /\ k \in location[t] .. location[t] + Len(Given(source[t])) - 1

\* The counter only runs ahead of the blocks when a call threw.
CoverInv ==
  \/ \A k \in 0..transitionCount - 1 : Entered(k)
  \/ \E t \in Threads : pc[t] = "thrown"
  \/ aborted

StutteringInv ==
  LET s == chain.stuttering IN
  s # NoStuttering /\ s \in DOMAIN range /\ range[s] # NoRange =>
    /\ range[s].from >= 0 /\ range[s].elements = 1
    /\ transitions[range[s].from] = Loop(chain)

OwnerInv ==
  \A s \in DOMAIN range :
    range[s] # NoRange => s \in DOMAIN chain.from \cup {chain.stuttering}

FinishedInv ==
  stateCount > 0 =>
    /\ handled = DOMAIN chain.from
    /\ chain.stuttering # NoStuttering => range[chain.stuttering] # NoRange
    /\ (DOMAIN chain.from \cup {chain.stuttering}) \ {NoSource} = 0..stateCount - 1
    /\ DOMAIN range = {NoSource} \cup 0..stateCount - 1

BuiltInv == CoverInv /\ StutteringInv /\ OwnerInv /\ FinishedInv

LEMMA InitBuiltInv == Init => BuiltInv
<1> SUFFICES ASSUME Init PROVE BuiltInv
  OBVIOUS
<1>1. /\ transitionCount = 0 /\ stateCount = 0
      /\ range = [s \in Sources |-> NoRange]
  BY DEF Init
<1> QED
  BY <1>1 DEF BuiltInv, CoverInv, StutteringInv, OwnerInv, FinishedInv

LEMMA PlaceKeepsBuilt ==
  ASSUME IndInv, BuiltInv, NEW t \in Threads, NEW s \in Sources, Place(t, s)
  PROVE  BuiltInv'
<1> USE DEF IndInv, BuiltInv
<1> DEFINE n == Len(Given(s))
<1>1. s \in DOMAIN chain.from /\ n \in Nat /\ pc[t] = "idle" /\ stateCount = 0
      /\ transitionCount \in Nat
  BY ChainFacts DEF Place, TypeInv
<1>2. /\ pc' = [pc EXCEPT ![t] = pc'[t]] /\ pc'[t] \in {"thrown", "placed"}
      /\ source' = [source EXCEPT ![t] = s]
      /\ location' = [location EXCEPT ![t] = transitionCount]
      /\ transitionCount' = transitionCount + n
      /\ UNCHANGED <<chain, transitions, range, stateCount, handled, aborted>>
  BY <1>1 DEF Place, TypeInv
<1>3. (\A r : Given(r)' = Given(r)) /\ (\A r : Block(r)' = Block(r))
  BY <1>2 DEF Given, Block
<1>4. \A u \in Threads : u # t => pc'[u] = pc[u] /\ source'[u] = source[u] /\ location'[u] = location[u]
  BY <1>2 DEF TypeInv
<1>5. source'[t] = s /\ location'[t] = transitionCount
  BY <1>2 DEF TypeInv
<1>6. CoverInv'
  <2>1. CASE pc'[t] = "thrown" \/ aborted
    BY <2>1, <1>2 DEF CoverInv
  <2>2. CASE \E u \in Threads : pc[u] = "thrown"
    BY <2>2, <1>1, <1>4 DEF CoverInv
  <2>3. CASE pc'[t] = "placed" /\ \A k \in 0..transitionCount - 1 : Entered(k)
    <3> SUFFICES ASSUME NEW k \in 0..transitionCount' - 1 PROVE Entered(k)'
      BY DEF CoverInv
    <3>1. CASE k < transitionCount
      <4>1. Entered(k)
        BY <1>1, <1>2, <2>3, <3>1
      <4>2. CASE \E r \in DOMAIN range : k \in Block(r)
        BY <4>2, <1>2, <1>3 DEF Entered
      <4>3. CASE \E u \in Threads : /\ pc[u] = "placed"
                                    /\ k \in location[u] .. location[u] + Len(Given(source[u])) - 1
        BY <4>3, <1>1, <1>3, <1>4 DEF Entered
      <4> QED
        BY <4>1, <4>2, <4>3 DEF Entered
    <3>2. CASE k >= transitionCount
      <4>1. k \in transitionCount .. transitionCount + n - 1
        BY <1>1, <1>2, <3>2
      <4> QED
        BY <4>1, <2>3, <1>3, <1>5 DEF Entered
    <3> QED
      BY <1>1, <1>2, <3>1, <3>2
  <2> QED
    BY <2>1, <2>2, <2>3, <1>2 DEF CoverInv
<1>7. StutteringInv' /\ OwnerInv' /\ FinishedInv'
  BY <1>1, <1>2 DEF StutteringInv, OwnerInv, FinishedInv, Loop
<1> QED
  BY <1>6, <1>7

LEMMA RecordKeepsBuilt ==
  ASSUME IndInv, BuiltInv, NEW t \in Threads, Record(t)
  PROVE  BuiltInv'
<1> USE DEF IndInv, BuiltInv
<1> DEFINE s == source[t]
           block == [from |-> location[t], elements |-> Len(Given(s))]
<1>1. /\ s \in DOMAIN chain.from /\ s \in Sources
      /\ pc[t] = "placed" /\ stateCount = 0 /\ DOMAIN range = Sources
      /\ range[s] = NoRange
      /\ chain.stuttering # NoStuttering => chain.stuttering # s
  <2>1. /\ s \in DOMAIN chain.from /\ s \in Sources /\ stateCount \in Nat
        /\ chain.stuttering # NoStuttering => chain.stuttering # s
    BY ChainFacts DEF TypeInv
  <2>2. pc[t] = "placed"
    BY DEF Record
  <2>3. stateCount = 0
    BY <2>1, <2>2 DEF ShapeInv
  <2> QED
    BY <2>1, <2>2, <2>3 DEF ShapeInv, CallInv
<1>2. /\ range' = [range EXCEPT ![s] = block]
      /\ pc' = [pc EXCEPT ![t] = "writing"]
      /\ UNCHANGED <<chain, transitionCount, transitions, stateCount, source, location,
                     handled, aborted>>
  BY DEF Record, RecordedSource
<1>3. \A r : Given(r)' = Given(r)
  BY <1>2 DEF Given
<1>4. /\ \A u \in Threads : u # t => pc'[u] = pc[u]
      /\ DOMAIN range' = Sources /\ range'[s] = block
      /\ \A r \in Sources : r # s => range'[r] = range[r]
  BY <1>1, <1>2 DEF TypeInv
<1>5. CoverInv'
  <2>1. CASE aborted
    BY <2>1, <1>2 DEF CoverInv
  <2>2. CASE \E u \in Threads : pc[u] = "thrown"
    BY <2>2, <1>1, <1>4 DEF CoverInv
  <2>3. CASE \A k \in 0..transitionCount - 1 : Entered(k)
    <3> SUFFICES ASSUME NEW k \in 0..transitionCount - 1 PROVE Entered(k)'
      BY <1>2 DEF CoverInv
    <3>1. CASE \E r \in DOMAIN range : k \in Block(r)
      <4>1. PICK r \in Sources : k \in Block(r)
        BY <3>1, <1>1
      <4>2. r # s
        BY <4>1, <1>1 DEF Block, NoRange
      <4>3. Block(r)' = Block(r)
        BY <4>1, <4>2, <1>4 DEF Block
      <4> QED
        BY <4>1, <4>3, <1>4 DEF Entered
    <3>2. CASE \E u \in Threads : /\ pc[u] = "placed"
                                  /\ k \in location[u] .. location[u] + Len(Given(source[u])) - 1
      <4>1. PICK u \in Threads : /\ pc[u] = "placed"
                                 /\ k \in location[u] .. location[u] + Len(Given(source[u])) - 1
        BY <3>2
      <4>2. CASE u = t
        <5>1. PICK r \in Sources : r = s
          BY <1>1
        <5>2. Block(r)' = location[t] .. location[t] + Len(Given(s)) - 1
          BY <5>1, <1>2, <1>4 DEF Block
        <5> QED
          BY <4>1, <4>2, <5>2, <1>4 DEF Entered
      <4>3. CASE u # t
        BY <4>1, <4>3, <1>2, <1>3, <1>4 DEF Entered
      <4> QED
        BY <4>2, <4>3
    <3> QED
      BY <2>3, <3>1, <3>2 DEF Entered
  <2> QED
    BY <2>1, <2>2, <2>3 DEF CoverInv
<1>6. StutteringInv'
  BY <1>1, <1>2, <1>4 DEF StutteringInv, Loop
<1>7. OwnerInv'
  BY <1>1, <1>2, <1>4 DEF OwnerInv
<1>8. FinishedInv'
  BY <1>1, <1>2 DEF FinishedInv
<1> QED
  BY <1>5, <1>6, <1>7, <1>8

LEMMA WriteKeepsBuilt ==
  ASSUME IndInv, BuiltInv, NEW t \in Threads, Write(t)
  PROVE  BuiltInv'
<1> USE DEF IndInv, BuiltInv
<1> DEFINE s == source[t]
           place == location[t] + written[t]
           stuttering == chain.stuttering
<1>1. /\ s \in DOMAIN chain.from /\ s \in Sources /\ location[t] \in Nat
      /\ pc[t] = "writing" /\ stateCount = 0 /\ DOMAIN range = Sources
      /\ range[s] = [from |-> location[t], elements |-> Len(Given(s))]
      /\ written[t] \in Nat /\ written[t] < Len(Given(s)) /\ Len(Given(s)) \in Nat
  <2>1. pc[t] = "writing" /\ written[t] < Len(Given(source[t]))
    BY DEF Write
  <2>2. /\ s \in DOMAIN chain.from /\ s \in Sources /\ Len(Given(s)) \in Nat
        /\ location[t] \in Nat /\ written[t] \in Nat /\ stateCount \in Nat
    BY ChainFacts DEF TypeInv
  <2>3. stateCount = 0
    BY <2>1, <2>2 DEF ShapeInv
  <2> QED
    BY <2>1, <2>2, <2>3 DEF ShapeInv, CallInv
<1>2. /\ transitions' = [transitions EXCEPT ![place] = Entry(Given(s)[written[t] + 1])]
      /\ UNCHANGED <<chain, transitionCount, range, stateCount, pc, source, location,
                     handled, aborted>>
  BY DEF Write
<1>3. \A k : Entered(k)' = Entered(k)
  BY <1>2 DEF Entered, Block, Given
<1>4. CoverInv'
  BY <1>2, <1>3 DEF CoverInv
<1>5. StutteringInv'
  <2> SUFFICES ASSUME stuttering # NoStuttering, stuttering \in DOMAIN range,
                      range[stuttering] # NoRange
               PROVE  /\ range[stuttering].from >= 0 /\ range[stuttering].elements = 1
                      /\ transitions'[range[stuttering].from] = Loop(chain)
    BY <1>2 DEF StutteringInv, Loop
  <2>1. /\ range[stuttering].from >= 0 /\ range[stuttering].elements = 1
        /\ transitions[range[stuttering].from] = Loop(chain)
        /\ range[stuttering].from \in Int
    BY DEF StutteringInv, TypeInv
  <2>2. stuttering # s
    BY <1>1, ChainFacts DEF TypeInv
  <2>3. Apart(range[stuttering].from, 1, location[t], Len(Given(s)))
    BY <1>1, <2>1, <2>2 DEF SpaceInv
  <2>4. range[stuttering].from # place
    BY <1>1, <2>1, <2>3 DEF Apart
  <2>5. transitions'[range[stuttering].from] = transitions[range[stuttering].from]
    BY <1>2, <2>4 DEF TypeInv
  <2> QED
    BY <2>1, <2>5
<1>6. OwnerInv' /\ FinishedInv'
  BY <1>1, <1>2 DEF OwnerInv, FinishedInv
<1> QED
  BY <1>4, <1>5, <1>6

LEMMA ReturnKeepsBuilt ==
  ASSUME IndInv, BuiltInv, NEW t \in Threads, Return(t)
  PROVE  BuiltInv'
<1> USE DEF IndInv, BuiltInv
<1>1. pc[t] = "writing" /\ stateCount \in Nat /\ stateCount = 0
  BY DEF Return, ShapeInv, TypeInv
<1>2. /\ pc' = [pc EXCEPT ![t] = "idle"]
      /\ source' = [source EXCEPT ![t] = NoSource]
      /\ location' = [location EXCEPT ![t] = 0]
      /\ UNCHANGED <<chain, transitionCount, transitions, range, stateCount, aborted>>
  BY DEF Return, lmc
<1>3. /\ \A u \in Threads : u # t => /\ pc'[u] = pc[u] /\ source'[u] = source[u]
                                     /\ location'[u] = location[u]
      /\ pc'[t] = "idle"
  BY <1>2 DEF TypeInv
<1>4. \A k : Entered(k) => Entered(k)'
  BY <1>1, <1>2, <1>3 DEF Entered, Block, Given
<1>5. CoverInv'
  <2>1. (\E u \in Threads : pc[u] = "thrown") => \E u \in Threads : pc'[u] = "thrown"
    BY <1>1, <1>3
  <2> QED
    BY <1>2, <1>4, <2>1 DEF CoverInv
<1>6. StutteringInv' /\ OwnerInv' /\ FinishedInv'
  BY <1>1, <1>2 DEF StutteringInv, OwnerInv, FinishedInv, Loop
<1> QED
  BY <1>5, <1>6

LEMMA CreateStutteringStateKeepsBuilt ==
  ASSUME IndInv, BuiltInv, CreateStutteringState
  PROVE  BuiltInv'
<1> USE DEF IndInv, BuiltInv
<1> DEFINE s == chain.stuttering
           block == [from |-> transitionCount, elements |-> 1]
<1>1. /\ stateCount = 0 /\ s # NoStuttering /\ range[s] = NoRange
      /\ transitionCount' = transitionCount + 1
      /\ UNCHANGED <<chain, stateCount, pc, source, location, handled>>
      /\ s \in Sources /\ DOMAIN range = Sources
      /\ DOMAIN transitions = 0..maxNumberOfTransitions - 1
      /\ transitionCount \in Nat /\ maxNumberOfTransitions \in Nat
  BY ChainFacts DEF CreateStutteringState, TypeInv, ShapeInv
<1>2. CASE Refuses(transitionCount, 1)
  <2>1. aborted' = TRUE /\ UNCHANGED <<transitions, range>>
    BY <1>2 DEF CreateStutteringState
  <2> QED
    BY <1>1, <2>1 DEF CoverInv, StutteringInv, OwnerInv, FinishedInv, Loop
<1>3. CASE ~Refuses(transitionCount, 1)
  <2>1. /\ transitions' = [transitions EXCEPT ![transitionCount] = Loop(chain)]
        /\ range' = [range EXCEPT ![s] = block]
        /\ aborted' = aborted
        /\ transitionCount \in DOMAIN transitions
    BY <1>1, <1>3 DEF CreateStutteringState, Refuses
  <2>2. /\ DOMAIN range' = Sources /\ range'[s] = block
        /\ \A r \in Sources : r # s => range'[r] = range[r]
        /\ transitions'[transitionCount] = Loop(chain)
    BY <1>1, <2>1 DEF TypeInv
  <2>3. CoverInv'
    <3>1. CASE aborted \/ \E u \in Threads : pc[u] = "thrown"
      BY <3>1, <1>1, <2>1 DEF CoverInv
    <3>2. CASE \A k \in 0..transitionCount - 1 : Entered(k)
      <4> SUFFICES ASSUME NEW k \in 0..transitionCount PROVE Entered(k)'
        BY <1>1 DEF CoverInv
      <4>1. CASE k = transitionCount
        <5>1. k \in Block(s)'
          BY <4>1, <1>1, <2>2 DEF Block
        <5> QED
          BY <5>1, <1>1, <2>2 DEF Entered
      <4>2. CASE \E r \in DOMAIN range : k \in Block(r)
        <5>1. PICK r \in Sources : k \in Block(r)
          BY <4>2, <1>1
        <5>2. r # s
          BY <5>1, <1>1 DEF Block, NoRange
        <5>3. Block(r)' = Block(r)
          BY <5>1, <5>2, <2>2 DEF Block
        <5> QED
          BY <5>1, <5>3, <2>2 DEF Entered
      <4>3. CASE \E u \in Threads : /\ pc[u] = "placed"
                                    /\ k \in location[u] .. location[u] + Len(Given(source[u])) - 1
        BY <4>3, <1>1 DEF Entered, Given
      <4> QED
        BY <1>1, <3>2, <4>1, <4>2, <4>3 DEF Entered
    <3> QED
      BY <3>1, <3>2 DEF CoverInv
  <2>4. StutteringInv' /\ OwnerInv' /\ FinishedInv'
    BY <1>1, <2>2 DEF StutteringInv, OwnerInv, FinishedInv, Loop
  <2> QED
    BY <2>3, <2>4
<1> QED
  BY <1>2, <1>3

LEMMA FinishCreationKeepsBuilt ==
  ASSUME IndInv, BuiltInv, FinishCreation
  PROVE  BuiltInv'
<1> USE DEF IndInv, BuiltInv
<1> DEFINE kept == {NoSource} \cup 0..stateCount' - 1
<1>1. /\ stateCount = 0 /\ Complete
      /\ stateCount' = NoOfStates
      /\ range' = [s \in kept |-> range[s]]
      /\ transitions' = [k \in 0..transitionCount - 1 |-> transitions[k]]
      /\ UNCHANGED <<chain, transitionCount, pc, source, location, handled, aborted>>
  BY DEF FinishCreation
<1>2. /\ \A t \in Threads : pc[t] = "idle"
      /\ handled = DOMAIN chain.from
      /\ chain.stuttering # NoStuttering => range[chain.stuttering] # NoRange
      /\ ~aborted
  BY <1>1 DEF Complete, ShapeInv
<1>3. /\ (DOMAIN chain.from \cup {chain.stuttering}) \ {NoSource} = 0..stateCount' - 1
      /\ DOMAIN chain.from \cup {chain.stuttering} \subseteq kept
      /\ kept \subseteq Sources /\ DOMAIN range = Sources
      /\ DOMAIN range' = kept
  BY <1>1, CountedStates DEF ShapeInv
<1>4. \A s \in kept : range'[s] = range[s] /\ Block(s)' = Block(s)
  BY <1>1 DEF Block
<1>5. CoverInv'
  <2> SUFFICES ASSUME NEW k \in 0..transitionCount - 1 PROVE Entered(k)'
    BY <1>1 DEF CoverInv
  <2>1. Entered(k)
    BY <1>2 DEF CoverInv
  <2>2. PICK s \in DOMAIN range : k \in Block(s)
    BY <2>1, <1>2 DEF Entered
  <2>3. range[s] # NoRange
    BY <2>2 DEF Block, NoRange
  <2>4. s \in kept
    BY <2>3, <1>3 DEF OwnerInv
  <2> QED
    BY <2>2, <2>4, <1>3, <1>4 DEF Entered
<1>6. StutteringInv'
  <2> SUFFICES ASSUME chain.stuttering # NoStuttering, chain.stuttering \in kept,
                      range[chain.stuttering] # NoRange
               PROVE  /\ range[chain.stuttering].from >= 0
                      /\ range[chain.stuttering].elements = 1
                      /\ transitions'[range[chain.stuttering].from] = Loop(chain)
    BY <1>1, <1>3, <1>4 DEF StutteringInv, Loop
  <2>1. /\ range[chain.stuttering].from >= 0 /\ range[chain.stuttering].elements = 1
        /\ transitions[range[chain.stuttering].from] = Loop(chain)
        /\ range[chain.stuttering].from \in Int /\ transitionCount \in Nat
        /\ range[chain.stuttering].from + 1 <= transitionCount
    BY <1>3 DEF StutteringInv, TypeInv, SpaceInv
  <2> QED
    BY <1>1, <2>1
<1>7. OwnerInv'
  BY <1>1, <1>3, <1>4 DEF OwnerInv
<1>8. FinishedInv'
  <2>1. chain.stuttering # NoStuttering => range'[chain.stuttering] # NoRange
    BY <1>2, <1>3, <1>4
  <2> QED
    BY <1>1, <1>2, <1>3, <2>1 DEF FinishedInv
<1> QED
  BY <1>5, <1>6, <1>7, <1>8

\* The array is full of blocks, and the blocks are those of the chain's states,
\* for any number of workers and any interleaving of their calls.
THEOREM LmcBuilt == Spec => [](IndInv /\ BuiltInv)
<1>1. ASSUME IndInv, BuiltInv, [Next]_vars PROVE BuiltInv'
  <2>1. ASSUME NEW t \in Threads, Worker(t) PROVE BuiltInv'
    BY <1>1, <2>1, PlaceKeepsBuilt, RecordKeepsBuilt, WriteKeepsBuilt, ReturnKeepsBuilt
    DEF Worker
  <2>2. CASE CreateStutteringState
    BY <1>1, <2>2, CreateStutteringStateKeepsBuilt
  <2>3. CASE FinishCreation
    BY <1>1, <2>3, FinishCreationKeepsBuilt
  <2>4. CASE UNCHANGED vars
    <3>1. UNCHANGED <<chain, transitionCount, transitions, range, stateCount, pc, source,
                      location, handled, aborted>>
      BY <2>4 DEF vars, lmc
    <3>2. \A k : Entered(k)' = Entered(k)
      BY <3>1 DEF Entered, Block, Given
    <3>3. CoverInv'
      BY <1>1, <3>1, <3>2 DEF BuiltInv, CoverInv
    <3>4. StutteringInv' /\ OwnerInv' /\ FinishedInv'
      BY <1>1, <3>1 DEF BuiltInv, StutteringInv, OwnerInv, FinishedInv, Loop
    <3> QED
      BY <3>3, <3>4 DEF BuiltInv
  <2> QED
    BY <1>1, <2>1, <2>2, <2>3, <2>4 DEF Next, Building
<1> QED
  BY LmcInductive, InitBuiltInv, <1>1, PTL DEF Spec

-----------------------------------------------------------------------------
\* Of a finished chain, a source reads back its transitions, and the stuttering
\* state its loop; no entry of the array belongs to neither.
LEMMA FinishedFacts ==
  ASSUME IndInv, BuiltInv, stateCount > 0
  PROVE  LET loop == chain.stuttering IN
         /\ DOMAIN range = {NoSource} \cup 0..stateCount - 1
         /\ (DOMAIN chain.from \cup {loop}) \ {NoSource} = 0..stateCount - 1
         /\ NoSource \in DOMAIN chain.from
         /\ DOMAIN chain.from \subseteq DOMAIN range
         /\ \A s \in DOMAIN chain.from :
              /\ range[s].from \in Nat
              /\ range[s].elements = Len(Given(s)) /\ Len(Given(s)) \in Nat
              /\ \A n \in 1..Len(Given(s)) :
                   /\ Given(s)[n] \in Transitions
                   /\ range[s].from + n - 1 \in DOMAIN transitions
                   /\ transitions[range[s].from + n - 1] = Entry(Given(s)[n])
         /\ \A s \in DOMAIN range \ DOMAIN chain.from :
              /\ s = loop /\ range[s].from \in Nat /\ range[s].elements = 1
              /\ transitions[range[s].from] = Loop(chain)
         /\ \A k \in DOMAIN transitions : \E s \in DOMAIN range : k \in Block(s)
<1> USE DEF IndInv, BuiltInv
<1> DEFINE loop == chain.stuttering
<1>1. /\ DOMAIN range = {NoSource} \cup 0..stateCount - 1
      /\ (DOMAIN chain.from \cup {loop}) \ {NoSource} = 0..stateCount - 1
      /\ handled = DOMAIN chain.from
      /\ loop # NoStuttering => range[loop] # NoRange
  BY DEF FinishedInv
<1>2. /\ DOMAIN transitions = 0..transitionCount - 1 /\ transitionCount \in Nat
      /\ \A t \in Threads : pc[t] = "idle"
      /\ ~aborted
      /\ DOMAIN chain.from \subseteq DOMAIN range
  BY DEF ShapeInv, TypeInv
<1>3. NoSource \in DOMAIN chain.from
  BY ChainFacts DEF TypeInv
<1>4. ASSUME NEW s \in DOMAIN chain.from
      PROVE  /\ range[s].from \in Nat
             /\ range[s].elements = Len(Given(s)) /\ Len(Given(s)) \in Nat
             /\ \A n \in 1..Len(Given(s)) :
                  /\ Given(s)[n] \in Transitions
                  /\ range[s].from + n - 1 \in DOMAIN transitions
                  /\ transitions[range[s].from + n - 1] = Entry(Given(s)[n])
  <2>1. /\ Len(Given(s)) \in Nat
        /\ \A n \in 1..Len(Given(s)) : Given(s)[n] \in Transitions
    BY ChainFacts DEF TypeInv
  <2>2. /\ range[s].from >= 0 /\ range[s].elements = Len(Given(s))
        /\ Reads(range[s].from, s, Len(Given(s)))
    BY <1>1 DEF ContentInv
  <2>3. range[s].from \in Int /\ range[s].from + range[s].elements <= transitionCount
    BY <1>2 DEF TypeInv, SpaceInv
  <2>4. \A n \in 1..Len(Given(s)) : range[s].from + n - 1 \in DOMAIN transitions
    BY <1>2, <2>1, <2>2, <2>3
  <2> QED
    BY <2>1, <2>2, <2>3, <2>4 DEF Reads
<1>5. ASSUME NEW s \in DOMAIN range \ DOMAIN chain.from
      PROVE  /\ s = loop /\ range[s].from \in Nat /\ range[s].elements = 1
             /\ transitions[range[s].from] = Loop(chain)
  <2>1. s = loop /\ loop # NoStuttering
    BY <1>1, <1>3 DEF NoSource, NoStuttering
  <2>2. /\ range[loop].from >= 0 /\ range[loop].elements = 1
        /\ transitions[range[loop].from] = Loop(chain)
    BY <1>1, <1>5, <2>1 DEF StutteringInv
  <2> QED
    BY <1>5, <2>1, <2>2 DEF TypeInv
<1>6. \A k \in DOMAIN transitions : \E s \in DOMAIN range : k \in Block(s)
  BY <1>2 DEF CoverInv, Entered
<1> QED
  BY <1>1, <1>2, <1>3, <1>4, <1>5, <1>6

\* What validate() asserts of the array is what a Markov chain is: it accepts a
\* finished chain exactly when every source of the chain given to the modifiers
\* has a distribution on the chain's states, the stuttering state's loop
\* included, whatever the interleaving that laid the array out.
ValidatesExactly == stateCount > 0 => (Validates <=> IsDistributed(chain))

THEOREM ValidatesExactlyHolds == Spec => []ValidatesExactly
<1>1. ASSUME IndInv, BuiltInv PROVE ValidatesExactly
  <2> SUFFICES ASSUME stateCount > 0 PROVE Validates <=> IsDistributed(chain)
    BY DEF ValidatesExactly
  <2> DEFINE loop == chain.stuttering
             states == 0..stateCount - 1
             probabilities(s) == [k \in 1..range[s].elements |-> TransitionsOf(s)[k].probability]
             given(s) == [k \in 1..Len(chain.from[s]) |-> chain.from[s][k].probability]
  <2>1. /\ DOMAIN range = {NoSource} \cup states
        /\ (DOMAIN chain.from \cup {loop}) \ {NoSource} = states
        /\ NoSource \in DOMAIN chain.from
        /\ DOMAIN chain.from \subseteq DOMAIN range
        /\ \A k \in DOMAIN transitions : \E s \in DOMAIN range : k \in Block(s)
    BY <1>1, FinishedFacts
  <2>2. ASSUME NEW s \in DOMAIN chain.from
        PROVE  /\ range[s].from \in Nat
               /\ range[s].elements = Len(chain.from[s]) /\ Len(chain.from[s]) \in Nat
               /\ \A n \in 1..Len(chain.from[s]) :
                    /\ chain.from[s][n] \in Transitions
                    /\ range[s].from + n - 1 \in DOMAIN transitions
                    /\ transitions[range[s].from + n - 1] = Entry(chain.from[s][n])
    BY <1>1, <2>2, FinishedFacts DEF Given
  <2>3. ASSUME NEW s \in DOMAIN range \ DOMAIN chain.from
        PROVE  /\ s = loop /\ range[s].from \in Nat /\ range[s].elements = 1
               /\ transitions[range[s].from] = Loop(chain)
    BY <1>1, <2>3, FinishedFacts
  <2>4. ASSUME NEW s \in DOMAIN chain.from
        PROVE  Sum(s) = SumOf(given(s)) /\ Len(given(s)) = Len(chain.from[s])
    <3>1. range[s].elements = Len(chain.from[s]) /\ Len(chain.from[s]) \in Nat
      BY <2>2, <2>4
    <3>2. \A k \in 1..Len(chain.from[s]) : TransitionsOf(s)[k] = Entry(chain.from[s][k])
      BY <2>2, <2>4 DEF TransitionsOf
    <3>3. \A k \in 1..Len(chain.from[s]) :
            TransitionsOf(s)[k].probability = chain.from[s][k].probability
      <4> TAKE k \in 1..Len(chain.from[s])
      <4>1. Entry(chain.from[s][k]).probability = chain.from[s][k].probability
        BY DEF Entry
      <4> QED
        BY <3>2, <4>1
    <3>4. probabilities(s) = given(s)
      BY <3>1, <3>3
    <3>5. Sum(s) = SumOf(probabilities(s))
      BY DEF Sum
    <3>6. Len(given(s)) = Len(chain.from[s])
      BY <3>1
    <3> HIDE DEF probabilities, given
    <3> QED
      BY <3>4, <3>5, <3>6
  <2>5. ASSUME NEW s \in DOMAIN range \ DOMAIN chain.from
        PROVE  Sum(s) = One
    <3>1. TransitionsOf(s)[1] = Loop(chain) /\ range[s].elements = 1
      BY <2>3, <2>5 DEF TransitionsOf
    <3>2. Len(probabilities(s)) = 1 /\ probabilities(s)[1] = One
      BY <3>1 DEF Loop
    <3> HIDE DEF probabilities
    <3>3. SumOf(probabilities(s)) = One
      BY <3>2, SumOfOne, ChainAssumption
    <3> QED
      BY <3>3 DEF Sum, probabilities
  <2>6. ASSUME Validates PROVE IsDistributed(chain)
    <3> SUFFICES ASSUME NEW s \in DOMAIN chain.from
                 PROVE  /\ \A k \in 1..Len(chain.from[s]) :
                             /\ chain.from[s][k].targetStateIndex \in states
                             /\ IsValid(chain.from[s][k].probability)
                        /\ IsOne(SumOf(given(s)))
      BY <2>1 DEF IsDistributed
    <3>1. IsOne(SumOf(given(s)))
      <4>1. IsOne(Sum(s))
        BY <2>1, <2>6 DEF Validates
      <4> QED
        BY <4>1, <2>4
    <3>2. ASSUME NEW k \in 1..Len(chain.from[s])
          PROVE  /\ chain.from[s][k].targetStateIndex \in states
                 /\ IsValid(chain.from[s][k].probability)
      <4> DEFINE tr == chain.from[s][k]
                 place == range[s].from + k - 1
      <4>1. place \in DOMAIN transitions /\ transitions[place] = Entry(tr)
        BY <2>2, <3>2
      <4>2. transitions[place].state \in states /\ IsValid(transitions[place].probability)
        BY <4>1, <2>6 DEF Validates
      <4> QED
        BY <4>1, <4>2 DEF Entry
    <3> QED
      BY <3>1, <3>2
  <2>7. ASSUME IsDistributed(chain) PROVE Validates
    <3>1. ASSUME NEW s \in DOMAIN range
          PROVE  range[s].from # -1 /\ range[s].elements > 0 /\ IsOne(Sum(s))
      <4>1. CASE s \in DOMAIN chain.from
        <5>1. IsOne(SumOf(given(s)))
          BY <2>7, <4>1 DEF IsDistributed
        <5>2. range[s].from \in Nat /\ range[s].elements = Len(given(s)) /\ Len(given(s)) \in Nat
          BY <2>2, <2>4, <4>1
        <5> HIDE DEF given
        <5>3. Len(given(s)) # 0
          BY <5>1, SumOfNone, ChainAssumption DEF IsOne
        <5> QED
          BY <5>1, <5>2, <5>3, <2>4, <4>1
      <4>2. CASE s \notin DOMAIN chain.from
        BY <2>3, <2>5, <4>2 DEF IsOne
      <4> QED
        BY <4>1, <4>2
    <3>2. ASSUME NEW k \in DOMAIN transitions
          PROVE  /\ transitions[k] # NoEntry
                 /\ transitions[k].state \in states
                 /\ IsValid(transitions[k].probability)
      <4>1. PICK s \in DOMAIN range : k \in Block(s)
        BY <2>1
      <4>2. CASE s \in DOMAIN chain.from
        <5> DEFINE n == k - range[s].from + 1
                   tr == chain.from[s][n]
        <5>1. n \in 1..Len(chain.from[s]) /\ k = range[s].from + n - 1
          BY <2>2, <4>1, <4>2 DEF Block
        <5> HIDE DEF n
        <5>2. tr \in Transitions /\ transitions[k] = Entry(tr)
          BY <2>2, <4>2, <5>1
        <5>3. tr.targetStateIndex \in states /\ IsValid(tr.probability)
          BY <2>1, <2>7, <4>2, <5>1 DEF IsDistributed
        <5> QED
          BY <5>2, <5>3, EntryAssumption DEF Entry
      <4>3. CASE s \notin DOMAIN chain.from
        <5>1. transitions[k] = Loop(chain) /\ s = loop
          BY <2>3, <4>1, <4>3 DEF Block
        <5>2. loop \in states
          BY <2>1, <4>3, <5>1
        <5>3. chain \in Chains /\ One \in Nat \ {0}
          BY <1>1, ChainAssumption DEF IndInv, TypeInv
        <5> QED
          BY <5>1, <5>2, <5>3, EntryAssumption DEF Loop, IsValid
      <4> QED
        BY <4>2, <4>3
    <3> QED
      BY <2>1, <3>1, <3>2 DEF Validates
  <2> QED
    BY <2>6, <2>7
<1> QED
  BY LmcBuilt, <1>1, PTL

\* validate() passes on every chain that was built to the end from sources that
\* have distributions: no state is left without transitions, no entry of the
\* array is left unset, and the stuttering state was counted.
THEOREM ValidatePassesHolds ==
  ASSUME \A c \in Chains : IsDistributed(c)
  PROVE  Spec => []ValidatePasses
<1>1. ASSUME IndInv, ValidatesExactly PROVE ValidatePasses
  <2>1. IsDistributed(chain)
    BY <1>1 DEF IndInv, TypeInv
  <2> QED
    BY <1>1, <2>1 DEF ValidatesExactly, ValidatePasses
<1> QED
  BY LmcInductive, ValidatesExactlyHolds, <1>1, PTL


-----------------------------------------------------------------------------
(***************************************************************************)
(* The units.                                                              *)
(***************************************************************************)
Power(n) == Weight ^ n

LEMMA PowerIs ==
  /\ Weight \in Nat \ {0} /\ MaxBound \in Nat
  /\ One = Power(MaxBound + 1) /\ Power(0) = 1
  /\ \A n \in 0..MaxBound + 1 : Power(n) \in Nat \ {0}
  /\ \A n \in 0..MaxBound : Power(n + 1) = Weight * Power(n)
PROOF
<1>1. /\ Weight \in Nat \ {0} /\ MaxBound \in Nat
      /\ One = Power(MaxBound + 1)
  BY CheckerAssumption DEF Power
<1>2. Power(0) = 1 /\ \A n \in 0..MaxBound : Power(n + 1) = Weight * Power(n)
  BY PowerAssumption DEF Power
<1>3. ASSUME NEW m \in 0..MaxBound + 1, Power(m) \notin Nat \ {0} PROVE FALSE
  <2> DEFINE bad == {n \in 0..MaxBound + 1 : Power(n) \notin Nat \ {0}}
  <2>1. PICK n \in bad : \A k \in bad : n <= k
    <3>1. bad \in SUBSET Nat /\ bad # {}
      BY <1>1, <1>3
    <3> HIDE DEF bad
    <3> QED BY <3>1, LeastExists
  <2>2. n \in 0..MaxBound + 1 /\ Power(n) \notin Nat \ {0}
    OBVIOUS
  <2>3. n # 0
    BY <1>2, <2>2
  <2>4. n - 1 \in 0..MaxBound /\ n - 1 \in 0..MaxBound + 1 /\ (n - 1) + 1 = n /\ ~(n <= n - 1)
    BY <1>1, <2>2, <2>3
  <2>5. n - 1 \notin bad
    <3> HIDE DEF bad
    <3> QED BY <2>1, <2>4
  <2>6. Power(n - 1) \in Nat \ {0}
    BY <2>4, <2>5
  <2>7. Power(n) = Weight * Power(n - 1)
    BY <1>2, <2>4
  <2> QED BY <1>1, <2>2, <2>6, <2>7
<1> QED BY <1>1, <1>2, <1>3

\* One, in the two ways in which the proofs take it apart.
LEMMA OneIs ==
  /\ One \in Nat \ {0} /\ Power(MaxBound) \in Nat \ {0}
  /\ One = Weight * Power(MaxBound)
PROOF
<1>1. MaxBound \in 0..MaxBound /\ MaxBound \in 0..MaxBound + 1 /\ MaxBound + 1 \in 0..MaxBound + 1
  BY PowerIs
<1> QED BY <1>1, PowerIs

LEMMA MultipleDivides ==
  ASSUME NEW d \in Nat \ {0}, NEW a \in Int
  PROVE  (d * a) \div d = a
PROOF
<1>1. PICK b \in Int, m \in 0..d - 1 : b = (d * a) \div d /\ d * a = d * b + m
  OBVIOUS
<1>2. d * (a - b) = m
  BY <1>1
<1>3. a - b < 1
  <2> SUFFICES ASSUME a - b >= 1 PROVE FALSE
    BY <1>1
  <2>1. d * (a - b) >= d
    BY <1>1
  <2> QED BY <1>1, <1>2, <2>1
<1>4. a - b > -1
  <2> SUFFICES ASSUME a - b <= -1 PROVE FALSE
    BY <1>1
  <2>1. d * (a - b) <= -d
    BY <1>1
  <2> QED BY <1>1, <1>2, <2>1
<1> QED BY <1>1, <1>3, <1>4

LEMMA FactorCancels ==
  ASSUME NEW d \in Nat \ {0}, NEW a \in Nat, NEW b \in Nat, d * a = d * b
  PROVE  a = b
PROOF
<1>1. (d * a) \div d = a /\ (d * b) \div d = b
  BY MultipleDivides
<1> QED BY <1>1

\* The weight of a transition.
LEMMA WeightIs ==
  ASSUME NEW tr, NEW w \in Nat, tr.probability = w * Power(MaxBound)
  PROVE  WeightOf(tr) = w
PROOF
<1>1. tr.probability * Weight = One * w
  BY OneIs, PowerIs
<1>2. (One * w) \div One = w
  BY OneIs, MultipleDivides
<1> QED BY <1>1, <1>2 DEF WeightOf

-----------------------------------------------------------------------------
(***************************************************************************)
(* The places of a chain and the transitions that leave them.              *)
(***************************************************************************)
Steps(c) == UNION {Range(GivenOrLoop(c, s)) : s \in Places(c)}

\* The weights of the transitions of a place.
Weights(c, s) == [k \in 1..Len(GivenOrLoop(c, s)) |-> WeightOf(GivenOrLoop(c, s)[k])]

LEMMA PlaceFacts ==
  ASSUME NEW c \in Chains, IsDistributed(c), NEW s \in Places(c)
  PROVE  /\ GivenOrLoop(c, s) \in Seq(Steps(c))
         /\ \A k \in 1..Len(GivenOrLoop(c, s)) :
              LET tr == GivenOrLoop(c, s)[k] IN
              /\ tr.targetStateIndex \in Places(c)
              /\ WeightOf(tr) \in Nat
              /\ tr.probability = WeightOf(tr) * Power(MaxBound)
         /\ SumOf(Weights(c, s)) = Weight
PROOF
<1> DEFINE first == GivenOrLoop(c, s)
           N == Len(first)
<1>1. first \in Seq(Range(first)) /\ N \in Nat /\ Range(first) \subseteq Steps(c)
  <2>1. CASE s \in DOMAIN c.from
    <3>1. c.from[s] \in Seq(Transitions)
      BY <2>1, ChainAssumption DEF IsChain
    <3>2. first = c.from[s]
      BY <2>1 DEF GivenOrLoop
    <3>3. first \in Seq(Transitions)
      BY <3>1, <3>2
    <3> HIDE DEF first
    <3>4. DOMAIN first = 1..N /\ N \in Nat /\ \A k \in 1..N : first[k] \in Range(first)
      BY <3>3, LenProperties DEF Range
    <3>5. first = [k \in 1..N |-> first[k]]
      BY <3>3, SeqDef
    <3>6. first \in Seq(Range(first))
      BY <3>4, <3>5, SeqDef
    <3> QED BY <3>4, <3>6 DEF Steps, first
  <2>2. CASE s \notin DOMAIN c.from
    <3>1. PICK loop : first = <<loop>>
      BY <2>2 DEF GivenOrLoop
    <3>2. N = 1 /\ DOMAIN first = 1..1 /\ first[1] = loop
      BY <3>1
    <3>3. Range(first) = {loop}
      BY <3>1, <3>2 DEF Range
    <3>4. first \in Seq(Range(first))
      BY <3>1, <3>3
    <3> QED BY <3>2, <3>4 DEF Steps
  <2> QED BY <2>1, <2>2
<1>2. first \in Seq(Steps(c))
  <2> HIDE DEF first
  <2>1. first = [k \in 1..N |-> first[k]] /\ \A k \in 1..N : first[k] \in Steps(c)
    BY <1>1, ElementOfSeq
  <2> QED BY <1>1, <2>1
<1>3. ASSUME NEW k \in 1..N
      PROVE  /\ first[k].targetStateIndex \in Places(c)
             /\ \E w \in Nat : first[k].probability = w * Power(MaxBound)
  <2>1. CASE s \in DOMAIN c.from
    <3>1. first = c.from[s]
      BY <2>1 DEF GivenOrLoop
    <3>2. first[k].targetStateIndex \in (DOMAIN c.from \cup {c.stuttering}) \ {NoSource}
      BY <2>1, <3>1 DEF IsDistributed
    <3>3. first[k].targetStateIndex \in Places(c)
      BY <3>2 DEF Places, NoSource, NoStuttering
    <3>4. first[k] \in Range(c.from[s])
      <4>1. DOMAIN c.from[s] = 1..N
        BY <1>2, <3>1, LenProperties
      <4> QED BY <3>1, <4>1 DEF Range
    <3>5. \E weight \in 0..Weight : first[k].probability = weight * Weight ^ MaxBound
      BY <2>1, <3>4, CheckerAssumption
    <3> QED BY <3>3, <3>5, PowerIs DEF Power
  <2>2. CASE s \notin DOMAIN c.from
    <3>1. k = 1 /\ first[1].targetStateIndex = s /\ first[1].probability = One
      BY <2>2 DEF GivenOrLoop
    <3> QED BY <3>1, OneIs, PowerIs
  <2> QED BY <2>1, <2>2
<1>4. \A k \in 1..N : WeightOf(first[k]) \in Nat
                      /\ first[k].probability = WeightOf(first[k]) * Power(MaxBound)
  <2> TAKE k \in 1..N
  <2>1. PICK w \in Nat : first[k].probability = w * Power(MaxBound)
    BY <1>3
  <2> HIDE DEF first
  <2> QED BY <2>1, WeightIs
<1>5. SumOf(Weights(c, s)) = Weight
  <2> DEFINE p == Weights(c, s)
             q == [k \in 1..N |-> first[k].probability]
  <2>1. p = [k \in 1..N |-> WeightOf(first[k])]
    BY DEF Weights
  <2>2. SumOf(q) = One
    <3>1. CASE s \in DOMAIN c.from
      BY <3>1 DEF GivenOrLoop, IsDistributed, IsOne
    <3>2. CASE s \notin DOMAIN c.from
      <4>1. N = 1 /\ first[1].probability = One
        BY <3>2 DEF GivenOrLoop
      <4> HIDE DEF first, N
      <4>2. q = [k \in 1..1 |-> first[k].probability]
        BY <4>1
      <4>3. Len(q) = 1 /\ q[1] = One
        BY <4>1, <4>2
      <4> HIDE DEF q
      <4> QED BY <4>3, SumOfOne, OneIs
    <3> QED BY <3>1, <3>2
  <2> HIDE DEF first, N
  <2>3. p \in Seq(Nat) /\ p \in Seq(Int) /\ Len(p) = N /\ \A k \in 1..N : p[k] = WeightOf(first[k])
    BY <1>1, <1>4, <2>1 DEF N
  <2>4. q \in Seq(Int) /\ Len(q) = N
    <3>1. \A k \in 1..N : first[k].probability \in Int
      BY <1>4, OneIs
    <3> QED BY <1>1, <3>1 DEF N
  <2>5. \A k \in 1..Len(p) : q[k] = Power(MaxBound) * p[k]
    <3> SUFFICES ASSUME NEW k \in 1..N PROVE q[k] = Power(MaxBound) * p[k]
      BY <2>3
    <3>1. q[k] = WeightOf(first[k]) * Power(MaxBound) /\ p[k] = WeightOf(first[k])
      BY <1>4, <2>3
    <3> QED BY <1>4, <3>1, OneIs
  <2> HIDE DEF p, q
  <2>6. PICK u \in Nat \ {0} : u = Power(MaxBound) /\ One = Weight * u
    BY OneIs
  <2>7. SumOf(q) = u * SumOf(p)
    <3>1. Len(q) = Len(p) /\ u \in Int /\ \A k \in 1..Len(p) : q[k] = u * p[k]
      BY <2>3, <2>4, <2>5, <2>6
    <3> QED BY <2>3, <2>4, <3>1, SumOfScaled
  <2>8. SumOf(p) \in Nat /\ Weight \in Nat
    BY <2>3, SumOfTyped, PowerIs
  <2>9. u * SumOf(p) = Weight * u
    BY <2>2, <2>6, <2>7
  <2>10. SumOf(p) = Weight
    <3>1. u * SumOf(p) = u * Weight
      BY <2>6, <2>8, <2>9
    <3> QED BY <2>6, <2>8, <3>1, FactorCancels
  <2> QED BY <2>10 DEF p
<1> QED BY <1>2, <1>3, <1>4, <1>5

-----------------------------------------------------------------------------
(***************************************************************************)
(* Sums over the elements of sequences of sequences.                       *)
(***************************************************************************)
\* The sum of what v gives to the elements of a sequence.
Values(p, v) == [k \in 1..Len(p) |-> v[p[k]]]
Weighed(p, v) == SumOf(Values(p, v))

LEMMA ValuesTyped ==
  ASSUME NEW S, NEW p \in Seq(S), NEW v \in [S -> Nat]
  PROVE  /\ Values(p, v) \in Seq(Nat) /\ Values(p, v) \in Seq(Int)
         /\ Len(Values(p, v)) = Len(p)
         /\ \A k \in 1..Len(p) : Values(p, v)[k] = v[p[k]]
         /\ Weighed(p, v) \in Nat
PROOF
<1>1. Len(p) \in Nat /\ \A k \in 1..Len(p) : p[k] \in S
  BY LenProperties, ElementOfSeq
<1>2. \A k \in 1..Len(p) : v[p[k]] \in Nat
  BY <1>1
<1>3. /\ Values(p, v) \in Seq(Nat) /\ Values(p, v) \in Seq(Int)
      /\ Len(Values(p, v)) = Len(p)
      /\ \A k \in 1..Len(p) : Values(p, v)[k] = v[p[k]]
  BY <1>1, <1>2 DEF Values
<1>4. Weighed(p, v) \in Nat
  BY <1>3, SumOfTyped DEF Weighed
<1> QED BY <1>3, <1>4

LEMMA WeighedConcatenation ==
  ASSUME NEW S, NEW p \in Seq(S), NEW q \in Seq(S), NEW v \in [S -> Nat]
  PROVE  Weighed(p \o q, v) = Weighed(p, v) + Weighed(q, v)
PROOF
<1>1. /\ p \o q \in Seq(S) /\ Len(p \o q) = Len(p) + Len(q)
      /\ \A k \in 1..Len(p) + Len(q) :
           (p \o q)[k] = IF k <= Len(p) THEN p[k] ELSE q[k - Len(p)]
      /\ Len(p) \in Nat /\ Len(q) \in Nat
  BY ConcatProperties, LenProperties
<1> DEFINE r == p \o q
           a == Values(p, v)
           b == Values(q, v)
           ab == a \o b
<1>2. /\ a \in Seq(Int) /\ Len(a) = Len(p) /\ \A k \in 1..Len(p) : a[k] = v[p[k]]
      /\ b \in Seq(Int) /\ Len(b) = Len(q) /\ \A k \in 1..Len(q) : b[k] = v[q[k]]
  BY ValuesTyped
<1> HIDE DEF a, b
<1>3. /\ ab \in Seq(Int) /\ Len(ab) = Len(p) + Len(q)
      /\ \A k \in 1..Len(p) + Len(q) :
           ab[k] = IF k <= Len(p) THEN a[k] ELSE b[k - Len(p)]
  <2>1. /\ ab \in Seq(Int) /\ Len(ab) = Len(a) + Len(b)
        /\ \A k \in 1..Len(a) + Len(b) :
             ab[k] = IF k <= Len(a) THEN a[k] ELSE b[k - Len(a)]
    BY <1>2, ConcatProperties
  <2> HIDE DEF ab
  <2> QED BY <1>2, <2>1
<1> HIDE DEF ab
<1>4. ASSUME NEW k \in 1..Len(p) + Len(q) PROVE v[r[k]] = ab[k]
  <2>1. CASE k <= Len(p)
    <3>1. r[k] = p[k] /\ k \in 1..Len(p)
      BY <1>1, <2>1
    <3>2. ab[k] = a[k]
      BY <1>3, <2>1
    <3>3. a[k] = v[p[k]]
      BY <1>2, <3>1
    <3> HIDE DEF r
    <3> QED BY <3>1, <3>2, <3>3
  <2>2. CASE ~(k <= Len(p))
    <3>1. k - Len(p) \in 1..Len(q)
      BY <1>1, <2>2
    <3>2. r[k] = q[k - Len(p)]
      BY <1>1, <2>2
    <3>3. ab[k] = b[k - Len(p)]
      BY <1>3, <2>2
    <3>4. b[k - Len(p)] = v[q[k - Len(p)]]
      BY <1>2, <3>1
    <3> HIDE DEF r
    <3> QED BY <3>2, <3>3, <3>4
  <2> QED BY <2>1, <2>2
<1>5. ab = [k \in 1..Len(p) + Len(q) |-> ab[k]]
  BY <1>3, SeqDef
<1>6. Values(r, v) = [k \in 1..Len(p) + Len(q) |-> v[r[k]]]
  BY <1>1 DEF Values
<1>7. Values(r, v) = ab
  BY <1>4, <1>5, <1>6
<1>8. SumOf(ab) = SumOf(a) + SumOf(b)
  BY <1>2, SumOfConcatenation DEF ab
<1> QED BY <1>7, <1>8 DEF Weighed, a, b

\* What FlattenSeq builds, one sequence after the other.
LEMMA FlattenIs ==
  ASSUME NEW S, NEW ss \in Seq(Seq(S))
  PROVE  \E F \in [0..Len(ss) -> Seq(S)] :
           /\ F[0] = <<>>
           /\ \A n \in 1..Len(ss) : F[n] = F[n - 1] \o ss[n]
           /\ FlattenSeq(ss) = F[Len(ss)]
PROOF
<1> DEFINE N == Len(ss)
           g == [n \in 1..N |-> [x \in Seq(S) |-> x \o ss[n]]]
           flatten == CHOOSE f : f = [n \in 1..N |-> IF n = 1 THEN ss[n] ELSE f[n - 1] \o ss[n]]
<1>1. N \in Nat /\ <<>> \in Seq(S) /\ \A n \in 1..N : ss[n] \in Seq(S)
  BY LenProperties, ElementOfSeq, EmptySeq
<1>2. ASSUME NEW x \in Seq(S), NEW n \in 1..N PROVE x \o ss[n] \in Seq(S)
  BY <1>1, ConcatProperties
<1>3. g \in [1..N -> [Seq(S) -> Seq(S)]]
  BY <1>2
<1>4. PICK F \in [0..N -> Seq(S)] : IsRun(F, <<>>, g, N)
  <2> HIDE DEF g, N
  <2> QED BY <1>1, <1>3, RecursionExists, Zenon
<1>5. F[0] = <<>> /\ \A n \in 1..N : F[n] = F[n - 1] \o ss[n]
  <2>1. F[0] = <<>>
    BY <1>4 DEF IsRun
  <2>2. ASSUME NEW n \in 1..N PROVE F[n] = F[n - 1] \o ss[n]
    <3>1. n - 1 \in 0..N
      BY <1>1
    <3>2. F[n - 1] \in Seq(S) /\ F[n] = g[n][F[n - 1]]
      BY <1>4, <3>1 DEF IsRun
    <3> QED BY <3>2
  <2> QED BY <2>1, <2>2
<1>6. N > 0 => F[1] = ss[1]
  <2> SUFFICES ASSUME N > 0 PROVE F[1] = ss[1]
    OBVIOUS
  <2>1. 1 \in 1..N
    BY <1>1
  <2>2. F[1] = F[0] \o ss[1]
    <3>1. F[1] = F[1 - 1] \o ss[1]
      BY <1>5, <2>1
    <3> QED BY <3>1
  <2> QED BY <1>1, <1>5, <2>1, <2>2, ConcatEmptySeq
<1>7. FlattenSeq(ss) = F[N]
  <2>1. CASE N = 0
    <3>1. ss = <<>>
      BY <2>1, EmptySeq
    <3> QED BY <1>5, <2>1, <3>1 DEF FlattenSeq
  <2>2. CASE N # 0
    <3> DEFINE f == [n \in 1..N |-> F[n]]
               h == [n \in 0..N |-> IF n = 0 THEN <<>> ELSE flatten[n]]
    <3>1. ASSUME NEW n \in 1..N
          PROVE  f[n] = IF n = 1 THEN ss[n] ELSE f[n - 1] \o ss[n]
      <4>1. CASE n = 1
        BY <1>6, <2>2, <4>1
      <4>2. CASE n # 1
        <5>1. n - 1 \in 1..N
          BY <1>1, <4>2
        <5> QED BY <1>5, <4>2, <5>1
      <4> QED BY <4>1, <4>2
    <3>2. f = [n \in 1..N |-> IF n = 1 THEN ss[n] ELSE f[n - 1] \o ss[n]]
      <4>1. \A n \in 1..N : f[n] = IF n = 1 THEN ss[n] ELSE f[n - 1] \o ss[n]
        BY <3>1
      <4>2. f = [n \in 1..N |-> f[n]]
        OBVIOUS
      <4> HIDE DEF f
      <4> QED BY <4>1, <4>2
    <3>3. flatten = [n \in 1..N |-> IF n = 1 THEN ss[n] ELSE flatten[n - 1] \o ss[n]]
      <4> HIDE DEF f
      <4> QED BY <3>2
    <3>4. FlattenSeq(ss) = flatten[N]
      BY <2>2 DEF FlattenSeq
    <3> HIDE DEF flatten
    <3>5. \A n \in 1..N : flatten[n] = IF n = 1 THEN ss[n] ELSE flatten[n - 1] \o ss[n]
      BY <3>3
    <3>6. h[0] = F[0]
      BY <1>1, <1>5
    <3>7. ASSUME NEW n \in 1..N, h[n - 1] = F[n - 1] PROVE h[n] = F[n]
      <4>1. h[n] = flatten[n]
        BY <1>1
      <4>2. CASE n = 1
        BY <1>6, <2>2, <3>5, <4>1, <4>2
      <4>3. CASE n # 1
        <5>1. n - 1 \in 0..N /\ n - 1 # 0
          BY <1>1, <4>3
        <5>2. flatten[n - 1] = F[n - 1]
          BY <3>7, <5>1
        <5> QED BY <1>5, <3>5, <4>1, <4>3, <5>2
      <4> QED BY <4>2, <4>3
    <3>8. h[N] = F[N]
      <4>1. GoTogether(h, F, N)
        BY <3>6, <3>7 DEF GoTogether
      <4> HIDE DEF h, N
      <4> QED BY <1>1, <4>1, RecursionIsUnique
    <3> QED BY <1>1, <2>2, <3>4, <3>8
  <2> QED BY <2>1, <2>2
<1> QED BY <1>4, <1>5, <1>7

LEMMA FlattenTyped ==
  ASSUME NEW S, NEW ss \in Seq(Seq(S))
  PROVE  FlattenSeq(ss) \in Seq(S)
PROOF
<1>1. Len(ss) \in 0..Len(ss)
  BY LenProperties
<1>2. PICK F \in [0..Len(ss) -> Seq(S)] : FlattenSeq(ss) = F[Len(ss)]
  BY FlattenIs
<1> QED BY <1>1, <1>2

LEMMA WeighedFlattened ==
  ASSUME NEW S, NEW ss \in Seq(Seq(S)), NEW v \in [S -> Nat]
  PROVE  Weighed(FlattenSeq(ss), v) = SumOf([n \in 1..Len(ss) |-> Weighed(ss[n], v)])
PROOF
<1> DEFINE N == Len(ss)
           p == [n \in 1..N |-> Weighed(ss[n], v)]
<1>1. N \in Nat /\ \A n \in 1..N : ss[n] \in Seq(S)
  BY LenProperties, ElementOfSeq
<1>2. PICK F \in [0..N -> Seq(S)] :
        /\ F[0] = <<>>
        /\ \A n \in 1..N : F[n] = F[n - 1] \o ss[n]
        /\ FlattenSeq(ss) = F[N]
  BY FlattenIs
<1>3. p \in Seq(Int) /\ Len(p) = N /\ \A n \in 1..N : p[n] = Weighed(ss[n], v)
  <2>1. \A n \in 1..N : Weighed(ss[n], v) \in Int
    BY <1>1, ValuesTyped
  <2> HIDE DEF N
  <2> QED BY <1>1, <2>1
<1> HIDE DEF p, N
<1>4. SumTo(p, 0) = 0 /\ \A n \in 1..N : SumTo(p, n) = SumTo(p, n - 1) + p[n]
  BY <1>3, SumToIs
<1> DEFINE f == [n \in 0..N |-> Weighed(F[n], v)]
           h == [n \in 0..N |-> SumTo(p, n)]
<1>5. f[0] = h[0]
  <2>1. Len(Values(<<>>, v)) = 0
    <3>1. <<>> \in Seq(S) /\ Len(<<>>) = 0
      BY EmptySeq
    <3> QED BY <3>1, ValuesTyped
  <2>2. Weighed(<<>>, v) = 0
    BY <2>1, SumOfNone DEF Weighed
  <2> QED BY <1>1, <1>2, <1>4, <2>2
<1>6. ASSUME NEW n \in 1..N, f[n - 1] = h[n - 1] PROVE f[n] = h[n]
  <2>1. n - 1 \in 0..N /\ n \in 0..N
    BY <1>1
  <2>2. F[n - 1] \in Seq(S) /\ ss[n] \in Seq(S) /\ F[n] = F[n - 1] \o ss[n]
    BY <1>1, <1>2, <2>1
  <2>3. Weighed(F[n], v) = Weighed(F[n - 1], v) + Weighed(ss[n], v)
    BY <2>2, WeighedConcatenation
  <2>4. Weighed(F[n - 1], v) = SumTo(p, n - 1)
    BY <1>6, <2>1
  <2>5. Weighed(F[n], v) = SumTo(p, n)
    BY <1>3, <1>4, <2>3, <2>4
  <2> QED BY <2>1, <2>5
<1>7. f[N] = h[N]
  <2>1. GoTogether(f, h, N)
    BY <1>5, <1>6 DEF GoTogether
  <2> HIDE DEF f, h
  <2> QED BY <1>1, <2>1, RecursionIsUnique
<1>8. Weighed(F[N], v) = SumTo(p, N)
  BY <1>1, <1>7
<1> QED BY <1>2, <1>3, <1>8 DEF SumOf, p, N

-----------------------------------------------------------------------------
(***************************************************************************)
(* The weight of a path.                                                   *)
(***************************************************************************)
\* The transitions with a weight, and the product of the first n weights.
Weighty(T) == \A tr \in T : WeightOf(tr) \in Nat

ProductTo(p, n) ==
  LET product[k \in 0..Len(p)] == IF k = 0 THEN 1 ELSE product[k - 1] * WeightOf(p[k])
  IN  product[n]

LEMMA ProductToIs ==
  ASSUME NEW T, Weighty(T), NEW p \in Seq(T)
  PROVE  /\ PathWeight(p) = ProductTo(p, Len(p))
         /\ ProductTo(p, 0) = 1
         /\ \A n \in 0..Len(p) : ProductTo(p, n) \in Nat
         /\ \A n \in 1..Len(p) : ProductTo(p, n) = ProductTo(p, n - 1) * WeightOf(p[n])
PROOF
<1> DEFINE N == Len(p)
           product == CHOOSE f : f = [k \in 0..N |-> IF k = 0 THEN 1 ELSE f[k - 1] * WeightOf(p[k])]
           g == [n \in 1..N |-> [x \in Nat |-> x * WeightOf(p[n])]]
<1>1. N \in Nat /\ \A n \in 1..N : WeightOf(p[n]) \in Nat
  BY LenProperties, ElementOfSeq DEF Weighty
<1>2. g \in [1..N -> [Nat -> Nat]]
  <2>1. ASSUME NEW n \in 1..N, NEW x \in Nat PROVE x * WeightOf(p[n]) \in Nat
    BY <1>1
  <2> QED BY <2>1
<1>3. PICK f \in [0..N -> Nat] : IsRun(f, 1, g, N)
  <2> HIDE DEF g, N
  <2>1. 1 \in Nat
    OBVIOUS
  <2> QED BY <1>1, <1>2, <2>1, RecursionExists, Zenon
<1>4. f[0] = 1 /\ \A n \in 1..N : f[n] = f[n - 1] * WeightOf(p[n])
  <2>1. f[0] = 1
    BY <1>3 DEF IsRun
  <2>2. ASSUME NEW n \in 1..N PROVE f[n] = f[n - 1] * WeightOf(p[n])
    <3>1. n - 1 \in 0..N
      BY <1>1
    <3>2. f[n - 1] \in Nat /\ f[n] = g[n][f[n - 1]]
      BY <1>3, <3>1 DEF IsRun
    <3> QED BY <3>2
  <2> QED BY <2>1, <2>2
<1>5. f = [k \in 0..N |-> IF k = 0 THEN 1 ELSE f[k - 1] * WeightOf(p[k])]
  BY <1>1, <1>3, <1>4
<1>6. product = [k \in 0..N |-> IF k = 0 THEN 1 ELSE product[k - 1] * WeightOf(p[k])]
  BY <1>5
<1>7. PathWeight(p) = product[N] /\ \A n : ProductTo(p, n) = product[n]
  BY DEF PathWeight, ProductTo
<1> HIDE DEF product
<1>8. product[0] = 1 /\ \A n \in 1..N : product[n] = product[n - 1] * WeightOf(p[n])
  BY <1>1, <1>6
<1>9. \A n \in 0..N : product[n] = f[n]
  <2>1. GoTogether(product, f, N)
    BY <1>4, <1>8 DEF GoTogether
  <2> HIDE DEF N, g
  <2> QED BY <1>1, <2>1, RecursionIsUnique
<1> QED BY <1>1, <1>3, <1>7, <1>8, <1>9

LEMMA PathWeightOfNone == PathWeight(<<>>) = 1
PROOF
<1>1. <<>> \in Seq({}) /\ Len(<<>>) = 0 /\ Weighty({})
  BY EmptySeq DEF Weighty
<1> QED BY <1>1, ProductToIs

LEMMA PathWeightOfExtended ==
  ASSUME NEW T, Weighty(T), NEW tr \in T, NEW q \in Seq(T)
  PROVE  /\ PathWeight(<<tr>> \o q) = WeightOf(tr) * PathWeight(q)
         /\ PathWeight(q) \in Nat
PROOF
<1> DEFINE p == <<tr>> \o q
           N == Len(q)
           w == WeightOf(tr)
<1>1. /\ p \in Seq(T) /\ N \in Nat /\ Len(p) = N + 1 /\ p[1] = tr
      /\ \A n \in 1..N : p[n + 1] = q[n]
  <2>1. <<tr>> \in Seq(T) /\ Len(<<tr>>) = 1 /\ <<tr>>[1] = tr
    OBVIOUS
  <2>2. /\ p \in Seq(T) /\ Len(p) = Len(<<tr>>) + Len(q)
        /\ \A n \in 1..Len(<<tr>>) + Len(q) :
             p[n] = IF n <= Len(<<tr>>) THEN <<tr>>[n] ELSE q[n - Len(<<tr>>)]
    BY <2>1, ConcatProperties
  <2>3. N \in Nat
    BY LenProperties
  <2> HIDE DEF p
  <2> QED BY <2>1, <2>2, <2>3
<1>2. w \in Nat
  BY DEF Weighty
<1> HIDE DEF p, N, w
<1>3. /\ PathWeight(p) = ProductTo(p, N + 1)
      /\ ProductTo(p, 0) = 1
      /\ \A n \in 1..N + 1 : ProductTo(p, n) = ProductTo(p, n - 1) * WeightOf(p[n])
  BY <1>1, ProductToIs
<1>4. /\ PathWeight(q) = ProductTo(q, N)
      /\ ProductTo(q, 0) = 1
      /\ \A n \in 0..N : ProductTo(q, n) \in Nat
      /\ \A n \in 1..N : ProductTo(q, n) = ProductTo(q, n - 1) * WeightOf(q[n])
  BY ProductToIs DEF N
<1> DEFINE f == [n \in 0..N |-> w * ProductTo(q, n)]
           h == [n \in 0..N |-> ProductTo(p, n + 1)]
<1>5. f[0] = h[0]
  <2>1. 1 \in 1..N + 1 /\ 0 \in 0..N
    BY <1>1
  <2>2. ProductTo(p, 1) = ProductTo(p, 1 - 1) * WeightOf(p[1])
    BY <1>3, <2>1
  <2>3. WeightOf(p[1]) = w
    BY <1>1 DEF w
  <2>4. ProductTo(p, 1) = w
    BY <1>2, <1>3, <2>2, <2>3
  <2>5. ProductTo(p, 0 + 1) = w
    BY <2>4
  <2> QED BY <1>2, <1>4, <2>1, <2>5
<1>6. ASSUME NEW n \in 1..N, f[n - 1] = h[n - 1] PROVE f[n] = h[n]
  <2>1. n - 1 \in 0..N /\ n \in 0..N /\ n + 1 \in 1..N + 1 /\ (n - 1) + 1 = n /\ (n + 1) - 1 = n
    BY <1>1
  <2>2. w * ProductTo(q, n - 1) = ProductTo(p, n)
    BY <1>6, <2>1
  <2>3. ProductTo(p, n + 1) = ProductTo(p, n) * WeightOf(q[n])
    BY <1>1, <1>3, <2>1
  <2>4. PICK a \in Nat, b \in Nat : a = ProductTo(q, n - 1) /\ b = WeightOf(q[n])
    <3>1. q[n] \in T
      BY <1>1, ElementOfSeq DEF N
    <3> QED BY <1>4, <2>1, <3>1 DEF Weighty
  <2>5. ProductTo(q, n) = a * b
    BY <1>4, <2>4
  <2>6. ProductTo(p, n + 1) = (w * a) * b
    BY <2>2, <2>3, <2>4
  <2>7. ProductTo(p, n + 1) = w * (a * b)
    BY <1>2, <2>4, <2>6
  <2> QED BY <2>1, <2>5, <2>7
<1>7. f[N] = h[N]
  <2>1. GoTogether(f, h, N)
    BY <1>5, <1>6 DEF GoTogether
  <2> HIDE DEF f, h
  <2> QED BY <1>1, <2>1, RecursionIsUnique
<1>8. w * ProductTo(q, N) = ProductTo(p, N + 1)
  BY <1>1, <1>7
<1>9. N \in 0..N
  BY <1>1
<1> QED BY <1>3, <1>4, <1>8, <1>9 DEF p, w

-----------------------------------------------------------------------------
(***************************************************************************)
(* The paths of a chain: those with one transition more begin with one     *)
(* that leaves the place.                                                  *)
(***************************************************************************)
PathsIn(T, n) == {p \in Seq(T) : Len(p) = n}

LEMMA ExtendedTyped ==
  ASSUME NEW T, NEW tr \in T, NEW n \in Nat, NEW tails \in Seq(PathsIn(T, n))
  PROVE  /\ Extended(tr, tails) \in Seq(PathsIn(T, n + 1))
         /\ Len(Extended(tr, tails)) = Len(tails)
         /\ \A k \in 1..Len(tails) : Extended(tr, tails)[k] = <<tr>> \o tails[k]
PROOF
<1>1. Len(tails) \in Nat /\ \A k \in 1..Len(tails) : tails[k] \in PathsIn(T, n)
  BY LenProperties, ElementOfSeq
<1>2. ASSUME NEW k \in 1..Len(tails) PROVE <<tr>> \o tails[k] \in PathsIn(T, n + 1)
  <2>1. tails[k] \in Seq(T) /\ Len(tails[k]) = n
    BY <1>1 DEF PathsIn
  <2>2. <<tr>> \in Seq(T) /\ Len(<<tr>>) = 1
    OBVIOUS
  <2>3. <<tr>> \o tails[k] \in Seq(T) /\ Len(<<tr>> \o tails[k]) = 1 + n
    BY <2>1, <2>2, ConcatProperties
  <2> QED BY <2>3 DEF PathsIn
<1> QED BY <1>1, <1>2 DEF Extended

\* The paths from a place by its first transitions, given those after them.
Branches(c, s, tails) ==
  [k \in 1..Len(GivenOrLoop(c, s)) |->
     Extended(GivenOrLoop(c, s)[k], tails[GivenOrLoop(c, s)[k].targetStateIndex])]

LEMMA BranchesTyped ==
  ASSUME NEW c \in Chains, IsDistributed(c), NEW s \in Places(c), NEW n \in Nat,
         NEW tails, \A r \in Places(c) : tails[r] \in Seq(PathsIn(Steps(c), n))
  PROVE  Branches(c, s, tails) \in Seq(Seq(PathsIn(Steps(c), n + 1)))
PROOF
<1> DEFINE first == GivenOrLoop(c, s)
<1>1. Len(first) \in Nat /\ \A k \in 1..Len(first) : first[k] \in Steps(c)
  BY PlaceFacts, LenProperties, ElementOfSeq
<1>2. ASSUME NEW k \in 1..Len(first)
      PROVE  Extended(first[k], tails[first[k].targetStateIndex])
               \in Seq(PathsIn(Steps(c), n + 1))
  <2>1. first[k].targetStateIndex \in Places(c)
    BY PlaceFacts
  <2> HIDE DEF first
  <2> QED BY <1>1, <2>1, ExtendedTyped
<1> QED BY <1>1, <1>2 DEF Branches

\* The same for paths of any length.
LEMMA BranchesOfPaths ==
  ASSUME NEW c \in Chains, IsDistributed(c), NEW s \in Places(c),
         NEW tails \in [Places(c) -> Seq(Seq(Steps(c)))]
  PROVE  FlattenSeq(Branches(c, s, tails)) \in Seq(Seq(Steps(c)))
PROOF
<1> DEFINE first == GivenOrLoop(c, s)
<1>1. Len(first) \in Nat /\ \A k \in 1..Len(first) : first[k] \in Steps(c)
  BY PlaceFacts, LenProperties, ElementOfSeq
<1>2. ASSUME NEW k \in 1..Len(first)
      PROVE  Extended(first[k], tails[first[k].targetStateIndex]) \in Seq(Seq(Steps(c)))
  <2>1. tails[first[k].targetStateIndex] \in Seq(Seq(Steps(c)))
    BY PlaceFacts
  <2>2. PICK tr \in Steps(c), q \in Seq(Seq(Steps(c))) :
          tr = first[k] /\ q = tails[first[k].targetStateIndex]
    BY <1>1, <2>1
  <2>3. Len(q) \in Nat /\ \A n \in 1..Len(q) : q[n] \in Seq(Steps(c))
    BY LenProperties, ElementOfSeq
  <2>4. \A n \in 1..Len(q) : <<tr>> \o q[n] \in Seq(Steps(c))
    BY <2>3, ConcatProperties
  <2>5. Extended(tr, q) \in Seq(Seq(Steps(c)))
    BY <2>3, <2>4 DEF Extended
  <2> QED BY <2>2, <2>5
<1>3. Branches(c, s, tails) \in Seq(Seq(Seq(Steps(c))))
  BY <1>1, <1>2 DEF Branches
<1> QED BY <1>3, FlattenTyped

LEMMA PathsOfIs ==
  ASSUME NEW c \in Chains, IsDistributed(c)
  PROVE  /\ \A s \in Places(c) : PathsOf(c, 0)[s] = << <<>> >>
         /\ \A n \in Nat : \A s \in Places(c) :
              PathsOf(c, n + 1)[s] = FlattenSeq(Branches(c, s, PathsOf(c, n)))
PROOF
<1> DEFINE S == [Places(c) -> Seq(Seq(Steps(c)))]
           a == [s \in Places(c) |-> << <<>> >>]
           longer(tails) == [s \in Places(c) |-> FlattenSeq(Branches(c, s, tails))]
           g == [tails \in S |-> longer(tails)]
           paths == CHOOSE f : f = [m \in Nat |-> IF m = 0 THEN a ELSE longer(f[m - 1])]
<1>1. a \in S
  <2>1. <<>> \in Seq(Steps(c))
    OBVIOUS
  <2>2. << <<>> >> \in Seq(Seq(Steps(c)))
    BY <2>1
  <2> QED BY <2>2
<1>2. g \in [S -> S]
  <2>1. ASSUME NEW tails \in S PROVE longer(tails) \in S
    <3>1. \A s \in Places(c) : FlattenSeq(Branches(c, s, tails)) \in Seq(Seq(Steps(c)))
      BY BranchesOfPaths
    <3> QED BY <3>1
  <2> HIDE DEF S, longer
  <2> QED BY <2>1
<1>3. PICK f \in [Nat -> S] : IsChainOf(f, a, g)
  <2> HIDE DEF S, a, g
  <2> QED BY <1>1, <1>2, ChainExists, Zenon
<1>4. f = [m \in Nat |-> IF m = 0 THEN a ELSE longer(f[m - 1])]
  <2>1. ASSUME NEW m \in Nat, m # 0 PROVE f[m] = longer(f[m - 1])
    <3>1. m - 1 \in Nat /\ (m - 1) + 1 = m
      BY <2>1
    <3>2. f[m - 1] \in S
      BY <3>1
    <3>3. f[m] = g[f[m - 1]]
      <4>1. f[(m - 1) + 1] = g[f[m - 1]]
        BY <1>3, <3>1 DEF IsChainOf
      <4> QED BY <3>1, <4>1
    <3> HIDE DEF S, longer
    <3> QED BY <3>2, <3>3
  <2>2. f[0] = a
    BY <1>3 DEF IsChainOf
  <2>3. f = [m \in Nat |-> f[m]]
    OBVIOUS
  <2> HIDE DEF a, longer
  <2> QED BY <2>1, <2>2, <2>3
<1>5. paths = [m \in Nat |-> IF m = 0 THEN a ELSE longer(paths[m - 1])]
  <2> HIDE DEF a, longer
  <2> QED BY <1>4
<1>6. \A n : PathsOf(c, n) = paths[n]
  BY DEF PathsOf, Branches
<1> HIDE DEF paths
<1>7. paths[0] = a /\ \A n \in Nat : paths[n + 1] = longer(paths[n])
  <2> HIDE DEF a, longer
  <2>1. \A n \in Nat : n + 1 \in Nat /\ n + 1 # 0 /\ (n + 1) - 1 = n
    OBVIOUS
  <2> QED BY <1>5, <2>1
<1>8. ASSUME NEW s \in Places(c) PROVE PathsOf(c, 0)[s] = << <<>> >>
  BY <1>6, <1>7
<1>9. ASSUME NEW n \in Nat, NEW s \in Places(c)
      PROVE  PathsOf(c, n + 1)[s] = FlattenSeq(Branches(c, s, PathsOf(c, n)))
  <2>1. PathsOf(c, n + 1) = longer(paths[n]) /\ paths[n] = PathsOf(c, n)
    BY <1>6, <1>7
  <2>2. PathsOf(c, n + 1) = longer(PathsOf(c, n))
    <3> HIDE DEF longer
    <3> QED BY <2>1
  <2> QED BY <2>2
<1> QED BY <1>8, <1>9

LEMMA PathsOfTyped ==
  ASSUME NEW c \in Chains, IsDistributed(c)
  PROVE  \A n \in Nat : \A s \in Places(c) : PathsOf(c, n)[s] \in Seq(PathsIn(Steps(c), n))
PROOF
<1> DEFINE Typed(n) == \A s \in Places(c) : PathsOf(c, n)[s] \in Seq(PathsIn(Steps(c), n))
           good == {n \in Nat : Typed(n)}
<1>1. Typed(0)
  <2>1. <<>> \in PathsIn(Steps(c), 0)
    BY EmptySeq DEF PathsIn
  <2>2. << <<>> >> \in Seq(PathsIn(Steps(c), 0))
    BY <2>1
  <2> QED BY <2>2, PathsOfIs
<1>2. ASSUME NEW n \in Nat, Typed(n) PROVE Typed(n + 1)
  <2> TAKE s \in Places(c)
  <2>1. Branches(c, s, PathsOf(c, n)) \in Seq(Seq(PathsIn(Steps(c), n + 1)))
    BY <1>2, BranchesTyped
  <2>2. FlattenSeq(Branches(c, s, PathsOf(c, n))) \in Seq(PathsIn(Steps(c), n + 1))
    BY <2>1, FlattenTyped
  <2> QED BY <2>2, PathsOfIs
<1>3. good = Nat
  <2>1. good \in SUBSET Nat /\ 0 \in good /\ \A n \in good : n + 1 \in good
    <3> HIDE DEF Typed
    <3> QED BY <1>1, <1>2
  <2> HIDE DEF good
  <2> QED BY <2>1, AllByInduction
<1> HIDE DEF Typed
<1>4. \A n \in Nat : Typed(n)
  BY <1>3
<1> QED BY <1>4 DEF Typed

-----------------------------------------------------------------------------
(***************************************************************************)
(* Sums over the paths of a chain.                                         *)
(***************************************************************************)
\* Of n + 1 transitions the path that begins with tr weighs w times what is
\* left of it.
Multiplies(T, n, v, u, tr, w) ==
  /\ v \in [PathsIn(T, n + 1) -> Nat] /\ u \in [PathsIn(T, n) -> Nat]
  /\ tr \in T /\ n \in Nat /\ w \in Nat
  /\ \A q \in PathsIn(T, n) : v[<<tr>> \o q] = w * u[q]

LEMMA WeighedExtended ==
  ASSUME NEW T, NEW n, NEW v, NEW u, NEW tr, NEW w, Multiplies(T, n, v, u, tr, w),
         NEW tails \in Seq(PathsIn(T, n))
  PROVE  Weighed(Extended(tr, tails), v) = w * Weighed(tails, u)
PROOF
<1> USE DEF Multiplies
<1> DEFINE longer == Extended(tr, tails)
           a == Values(tails, u)
           b == Values(longer, v)
<1>1. /\ longer \in Seq(PathsIn(T, n + 1)) /\ Len(longer) = Len(tails)
      /\ \A k \in 1..Len(tails) : longer[k] = <<tr>> \o tails[k]
  <2>1. longer \in Seq(PathsIn(T, n + 1))
    BY ExtendedTyped
  <2>2. Len(longer) = Len(tails)
    BY ExtendedTyped
  <2>3. \A k \in 1..Len(tails) : longer[k] = <<tr>> \o tails[k]
    BY DEF Extended
  <2> QED BY <2>1, <2>2, <2>3
<1>2. /\ a \in Seq(Int) /\ Len(a) = Len(tails)
      /\ \A k \in 1..Len(tails) : a[k] = u[tails[k]]
  BY ValuesTyped
<1>3. /\ b \in Seq(Int) /\ Len(b) = Len(tails)
      /\ \A k \in 1..Len(tails) : b[k] = v[longer[k]]
  <2> HIDE DEF longer
  <2>1. n + 1 \in Nat
    OBVIOUS
  <2> QED BY <1>1, <2>1, ValuesTyped
<1>4. ASSUME NEW k \in 1..Len(tails) PROVE b[k] = w * a[k]
  <2>1. tails[k] \in PathsIn(T, n)
    BY ElementOfSeq
  <2>2. b[k] = v[<<tr>> \o tails[k]] /\ a[k] = u[tails[k]]
    <3> HIDE DEF a, b, longer
    <3> QED BY <1>1, <1>2, <1>3
  <2> HIDE DEF a, b
  <2> QED BY <2>1, <2>2
<1>5. SumOf(b) = w * SumOf(a)
  <2> HIDE DEF a, b
  <2>1. w \in Int /\ Len(b) = Len(a) /\ \A k \in 1..Len(a) : b[k] = w * a[k]
    BY <1>2, <1>3, <1>4
  <2> QED BY <1>2, <1>3, <2>1, SumOfScaled
<1> QED BY <1>5 DEF Weighed

LEMMA WeighedBranches ==
  ASSUME NEW c \in Chains, IsDistributed(c), NEW s \in Places(c), NEW n \in Nat,
         NEW v \in [PathsIn(Steps(c), n + 1) -> Nat]
  PROVE  Weighed(PathsOf(c, n + 1)[s], v)
           = SumOf([k \in 1..Len(GivenOrLoop(c, s)) |->
                      Weighed(Extended(GivenOrLoop(c, s)[k],
                                       PathsOf(c, n)[GivenOrLoop(c, s)[k].targetStateIndex]), v)])
PROOF
<1> DEFINE first == GivenOrLoop(c, s)
           tails(k) == PathsOf(c, n)[first[k].targetStateIndex]
           ss == Branches(c, s, PathsOf(c, n))
<1>1. ss \in Seq(Seq(PathsIn(Steps(c), n + 1)))
  BY PathsOfTyped, BranchesTyped
<1>2. Weighed(PathsOf(c, n + 1)[s], v) = Weighed(FlattenSeq(ss), v)
  BY PathsOfIs
<1>3. Weighed(FlattenSeq(ss), v) = SumOf([k \in 1..Len(ss) |-> Weighed(ss[k], v)])
  <2> HIDE DEF ss
  <2> QED BY <1>1, WeighedFlattened
<1>4. Len(first) \in Nat
  BY PlaceFacts, LenProperties
<1>5. Len(ss) = Len(first) /\ \A k \in 1..Len(first) : ss[k] = Extended(first[k], tails(k))
  BY <1>4 DEF Branches
<1>6. [k \in 1..Len(ss) |-> Weighed(ss[k], v)]
        = [k \in 1..Len(first) |-> Weighed(Extended(first[k], tails(k)), v)]
  <2> HIDE DEF ss, first, tails
  <2> QED BY <1>5
<1> QED BY <1>2, <1>3, <1>6

\* The weights of all paths of one length, and of those that fulfil a formula.
AllWeights(c, n) == [p \in PathsIn(Steps(c), n) |-> PathWeight(p)]

Fulfilling(c, f, n) ==
  [p \in PathsIn(Steps(c), n) |->
     IF MeansAlong(f, ValuationsOn(p)) THEN PathWeight(p) ELSE 0]

LEMMA StepsAreWeighty ==
  ASSUME NEW c \in Chains, IsDistributed(c)
  PROVE  Weighty(Steps(c))
PROOF
<1> SUFFICES ASSUME NEW s \in Places(c), NEW tr \in Range(GivenOrLoop(c, s))
             PROVE  WeightOf(tr) \in Nat
  BY DEF Steps, Weighty
<1>1. GivenOrLoop(c, s) \in Seq(Steps(c))
  BY PlaceFacts
<1>2. PICK k \in 1..Len(GivenOrLoop(c, s)) : tr = GivenOrLoop(c, s)[k]
  BY <1>1, LenProperties DEF Range
<1> QED BY <1>2, PlaceFacts

LEMMA WeightsTyped ==
  ASSUME NEW c \in Chains, IsDistributed(c), NEW n \in Nat, NEW f
  PROVE  /\ AllWeights(c, n) \in [PathsIn(Steps(c), n) -> Nat]
         /\ Fulfilling(c, f, n) \in [PathsIn(Steps(c), n) -> Nat]
PROOF
<1>1. ASSUME NEW p \in PathsIn(Steps(c), n) PROVE PathWeight(p) \in Nat
  <2>1. Len(p) \in 0..Len(p) /\ p \in Seq(Steps(c))
    BY LenProperties DEF PathsIn
  <2> QED BY <2>1, StepsAreWeighty, ProductToIs
<1> QED BY <1>1 DEF AllWeights, Fulfilling

LEMMA ExtendedPath ==
  ASSUME NEW c \in Chains, IsDistributed(c), NEW n \in Nat, NEW tr \in Steps(c),
         NEW q \in PathsIn(Steps(c), n)
  PROVE  /\ <<tr>> \o q \in PathsIn(Steps(c), n + 1)
         /\ PathWeight(<<tr>> \o q) = WeightOf(tr) * PathWeight(q)
         /\ WeightOf(tr) \in Nat /\ PathWeight(q) \in Nat
PROOF
<1>1. q \in Seq(Steps(c)) /\ Len(q) = n /\ <<tr>> \in Seq(Steps(c)) /\ Len(<<tr>>) = 1
  BY DEF PathsIn
<1>2. <<tr>> \o q \in Seq(Steps(c)) /\ Len(<<tr>> \o q) = n + 1
  BY <1>1, ConcatProperties
<1>3. Weighty(Steps(c)) /\ WeightOf(tr) \in Nat
  BY StepsAreWeighty DEF Weighty
<1> QED BY <1>1, <1>2, <1>3, PathWeightOfExtended DEF PathsIn

\* The weights of all paths of one length from a place: together certain.
LEMMA PathsAreCertain ==
  ASSUME NEW c \in Chains, IsDistributed(c)
  PROVE  \A n \in 0..MaxBound + 1 : \A s \in Places(c) :
           Weighed(PathsOf(c, n)[s], AllWeights(c, n)) = Power(n)
PROOF
<1> DEFINE Certain(n) == \A s \in Places(c) :
                           Weighed(PathsOf(c, n)[s], AllWeights(c, n)) = Power(n)
           good == {n \in Nat : n <= MaxBound + 1 => Certain(n)}
<1>1. Certain(0)
  <2> TAKE s \in Places(c)
  <2> DEFINE p == << <<>> >>
  <2>1. PathsOf(c, 0)[s] = p
    BY PathsOfIs
  <2>2. <<>> \in PathsIn(Steps(c), 0)
    BY EmptySeq DEF PathsIn
  <2>3. AllWeights(c, 0)[<<>>] = 1
    BY <2>2, PathWeightOfNone DEF AllWeights
  <2>4. Len(Values(p, AllWeights(c, 0))) = 1 /\ Values(p, AllWeights(c, 0))[1] = 1
    BY <2>3 DEF Values
  <2>5. Weighed(p, AllWeights(c, 0)) = 1
    BY <2>4, SumOfOne DEF Weighed
  <2> QED BY <2>1, <2>5, PowerIs
<1>2. ASSUME NEW n \in Nat, n + 1 <= MaxBound + 1, Certain(n) PROVE Certain(n + 1)
  <2> TAKE s \in Places(c)
  <2> DEFINE first == GivenOrLoop(c, s)
             tails(k) == PathsOf(c, n)[first[k].targetStateIndex]
             v == AllWeights(c, n + 1)
             q == [k \in 1..Len(first) |-> Weighed(Extended(first[k], tails(k)), v)]
  <2>1. n + 1 \in Nat /\ v \in [PathsIn(Steps(c), n + 1) -> Nat]
    BY WeightsTyped
  <2>2. Weighed(PathsOf(c, n + 1)[s], v) = SumOf(q)
    <3> HIDE DEF v
    <3> QED BY <2>1, WeighedBranches
  <2>3. Len(first) \in Nat /\ \A k \in 1..Len(first) :
          first[k] \in Steps(c) /\ first[k].targetStateIndex \in Places(c)
            /\ WeightOf(first[k]) \in Nat
    BY PlaceFacts, LenProperties, ElementOfSeq
  <2>4. PICK P \in Nat : P = Power(n) /\ Power(n + 1) = Weight * P
    BY <1>2, PowerIs
  <2>5. ASSUME NEW k \in 1..Len(first) PROVE q[k] = P * WeightOf(first[k])
    <3>1. tails(k) \in Seq(PathsIn(Steps(c), n)) /\ Weighed(tails(k), AllWeights(c, n)) = P
      BY <1>2, <2>3, <2>4, PathsOfTyped
    <3>2. PICK tr \in Steps(c), w \in Nat : tr = first[k] /\ w = WeightOf(tr)
      BY <2>3
    <3>3. ASSUME NEW r \in PathsIn(Steps(c), n) PROVE v[<<tr>> \o r] = w * AllWeights(c, n)[r]
      BY <3>2, <3>3, ExtendedPath DEF AllWeights
    <3>4. PICK t \in Seq(PathsIn(Steps(c), n)) : t = tails(k)
      BY <3>1
    <3>5. AllWeights(c, n) \in [PathsIn(Steps(c), n) -> Nat]
      BY WeightsTyped
    <3>6. Weighed(Extended(tr, t), v) = w * Weighed(t, AllWeights(c, n))
      <4> HIDE DEF v
      <4>1. Multiplies(Steps(c), n, v, AllWeights(c, n), tr, w)
        BY <2>1, <3>3, <3>5 DEF Multiplies
      <4> QED BY <4>1, WeighedExtended
    <3>7. q[k] = Weighed(Extended(tr, t), v)
      BY <3>2, <3>4
    <3> HIDE DEF q, tails, first, v
    <3> QED BY <3>1, <3>2, <3>4, <3>6, <3>7
  <2> DEFINE p == Weights(c, s)
  <2>6. /\ p \in Seq(Nat) /\ p \in Seq(Int) /\ Len(p) = Len(first)
        /\ \A k \in 1..Len(first) : p[k] = WeightOf(first[k])
    <3> HIDE DEF first
    <3>1. p = [k \in 1..Len(first) |-> WeightOf(first[k])]
      BY DEF Weights, first
    <3> QED BY <2>3, <3>1
  <2>7. q \in Seq(Int) /\ Len(q) = Len(p) /\ \A k \in 1..Len(p) : q[k] = P * p[k]
    <3>1. \A k \in 1..Len(first) : q[k] \in Int
      BY <2>3, <2>5
    <3>2. q = [k \in 1..Len(first) |-> q[k]]
      OBVIOUS
    <3> HIDE DEF q, p, first
    <3>3. q \in Seq(Int) /\ Len(q) = Len(first)
      BY <2>3, <3>1, <3>2
    <3> QED BY <2>5, <2>6, <3>3
  <2>8. SumOf(q) = P * SumOf(p)
    <3> HIDE DEF q, p
    <3> QED BY <2>6, <2>7, SumOfScaled
  <2>9. SumOf(p) = Weight
    BY PlaceFacts
  <2> HIDE DEF q, p
  <2>10. SumOf(q) = Weight * P
    BY <2>8, <2>9, PowerIs
  <2> QED BY <2>2, <2>4, <2>10
<1>3. good = Nat
  <2>1. good \in SUBSET Nat /\ 0 \in good
    <3> HIDE DEF Certain
    <3> QED BY <1>1
  <2>2. ASSUME NEW n \in good PROVE n + 1 \in good
    <3>1. n + 1 <= MaxBound + 1 => n <= MaxBound + 1
      BY PowerIs
    <3> HIDE DEF Certain
    <3> QED BY <1>2, <3>1
  <2> HIDE DEF good
  <2> QED BY <2>1, <2>2, AllByInduction
<1> HIDE DEF Certain
<1>4. \A n \in 0..MaxBound + 1 : n \in Nat /\ n <= MaxBound + 1
  BY PowerIs
<1>5. \A n \in 0..MaxBound + 1 : Certain(n)
  BY <1>3, <1>4
<1> QED BY <1>5 DEF Certain

-----------------------------------------------------------------------------
(***************************************************************************)
(* "Finally psi within the bound" holds on a path when psi does on its     *)
(* first transition, or when it holds on the rest, which is within the     *)
(* bound.                                                                  *)
(***************************************************************************)
IsFinally(f) == f.kind = "boundedUnary" /\ f.op = "Finally" /\ f.bound \in Nat

LEMMA FinallyIs ==
  ASSUME NEW f, IsFinally(f), NEW T, NEW p \in Seq(T)
  PROVE  MeansAlong(f, ValuationsOn(p))
           <=> \E n \in 1..Len(p) : n <= f.bound + 1 /\ Means(f.operand, p[n].valuation)
PROOF
<1>1. Len(p) \in Nat
  BY LenProperties
<1>2. /\ Len(ValuationsOn(p)) = Len(p)
      /\ \A n \in 1..Len(p) : ValuationsOn(p)[n] = p[n].valuation
  BY <1>1 DEF ValuationsOn
<1> QED BY <1>2 DEF MeansAlong, IsFinally

LEMMA FinallyOnExtended ==
  ASSUME NEW f, IsFinally(f), NEW T, NEW tr \in T, NEW q \in Seq(T), Len(q) <= f.bound
  PROVE  MeansAlong(f, ValuationsOn(<<tr>> \o q))
           <=> Means(f.operand, tr.valuation) \/ MeansAlong(f, ValuationsOn(q))
PROOF
<1> DEFINE p == <<tr>> \o q
           N == Len(q)
<1>1. /\ p \in Seq(T) /\ N \in Nat /\ Len(p) = N + 1 /\ p[1] = tr
      /\ \A n \in 1..N : p[n + 1] = q[n]
  <2>1. <<tr>> \in Seq(T) /\ Len(<<tr>>) = 1 /\ <<tr>>[1] = tr
    OBVIOUS
  <2>2. /\ p \in Seq(T) /\ Len(p) = Len(<<tr>>) + Len(q)
        /\ \A n \in 1..Len(<<tr>>) + Len(q) :
             p[n] = IF n <= Len(<<tr>>) THEN <<tr>>[n] ELSE q[n - Len(<<tr>>)]
    BY <2>1, ConcatProperties
  <2>3. N \in Nat
    BY LenProperties
  <2> HIDE DEF p
  <2> QED BY <2>1, <2>2, <2>3
<1> HIDE DEF p
<1>2. MeansAlong(f, ValuationsOn(p))
        <=> \E n \in 1..N + 1 : n <= f.bound + 1 /\ Means(f.operand, p[n].valuation)
  <2>1. MeansAlong(f, ValuationsOn(p))
          <=> \E n \in 1..Len(p) : n <= f.bound + 1 /\ Means(f.operand, p[n].valuation)
    BY <1>1, FinallyIs
  <2> QED BY <1>1, <2>1
<1>3. MeansAlong(f, ValuationsOn(q))
        <=> \E n \in 1..N : n <= f.bound + 1 /\ Means(f.operand, q[n].valuation)
  BY FinallyIs
<1>4. N <= f.bound /\ f.bound \in Nat
  BY DEF IsFinally
<1> HIDE DEF N
<1>5. ASSUME NEW n \in 1..N + 1, Means(f.operand, p[n].valuation)
      PROVE  Means(f.operand, tr.valuation) \/ MeansAlong(f, ValuationsOn(q))
  <2>1. CASE n = 1
    BY <1>1, <1>5, <2>1
  <2>2. CASE n # 1
    <3>1. n - 1 \in 1..N /\ (n - 1) + 1 = n /\ n - 1 <= f.bound + 1
      BY <1>1, <1>4, <2>2
    <3>2. p[n] = q[n - 1]
      BY <1>1, <3>1
    <3>3. Means(f.operand, q[n - 1].valuation)
      BY <1>5, <3>2
    <3> QED BY <1>3, <3>1, <3>3
  <2> QED BY <2>1, <2>2
<1>6. ASSUME Means(f.operand, tr.valuation) PROVE MeansAlong(f, ValuationsOn(p))
  <2>1. 1 \in 1..N + 1 /\ 1 <= f.bound + 1
    BY <1>1, <1>4
  <2> QED BY <1>1, <1>2, <1>6, <2>1
<1>7. ASSUME MeansAlong(f, ValuationsOn(q)) PROVE MeansAlong(f, ValuationsOn(p))
  <2>1. PICK n \in 1..N : Means(f.operand, q[n].valuation)
    BY <1>3, <1>7
  <2>2. n + 1 \in 1..N + 1 /\ n + 1 <= f.bound + 1
    BY <1>1, <1>4
  <2>3. Means(f.operand, p[n + 1].valuation)
    BY <1>1, <2>1
  <2> QED BY <1>2, <2>2, <2>3
<1>8. MeansAlong(f, ValuationsOn(p))
        <=> Means(f.operand, tr.valuation) \/ MeansAlong(f, ValuationsOn(q))
  BY <1>2, <1>5, <1>6, <1>7
<1> QED BY <1>8 DEF p

\* The weight of the paths from a place on which the formula holds.
FulfillingWeight(c, f, s, n) == Weighed(PathsOf(c, n)[s], Fulfilling(c, f, n))

LEMMA ProbabilityIs ==
  ASSUME NEW c \in Chains, IsDistributed(c), NEW f, NEW s \in Places(c), NEW n \in Nat
  PROVE  /\ FulfillingWeight(c, f, s, n) \in Nat
         /\ ProbabilityOf(c, f, s, n) = FulfillingWeight(c, f, s, n) * Power(MaxBound + 1 - n)
PROOF
<1> DEFINE p == PathsOf(c, n)[s]
           v == Fulfilling(c, f, n)
           q == [k \in 1..Len(p) |->
                   IF MeansAlong(f, ValuationsOn(p[k])) THEN PathWeight(p[k]) ELSE 0]
<1>1. p \in Seq(PathsIn(Steps(c), n)) /\ v \in [PathsIn(Steps(c), n) -> Nat]
  BY PathsOfTyped, WeightsTyped
<1>2. ProbabilityOf(c, f, s, n) = SumOf(q) * Power(MaxBound + 1 - n)
  BY DEF ProbabilityOf, Power
<1>3. ASSUME NEW k \in 1..Len(p) PROVE q[k] = v[p[k]]
  <2>1. p[k] \in PathsIn(Steps(c), n)
    BY <1>1, ElementOfSeq
  <2> HIDE DEF p
  <2> QED BY <2>1 DEF Fulfilling
<1>4. q = Values(p, v)
  <2> DEFINE r == Values(p, v)
  <2>1. r = [k \in 1..Len(p) |-> v[p[k]]]
    BY DEF Values
  <2>2. q = [k \in 1..Len(p) |-> q[k]]
    OBVIOUS
  <2> HIDE DEF p, q, v, r
  <2>3. q = r
    BY <1>3, <2>1, <2>2
  <2> QED BY <2>3 DEF r
<1>5. Weighed(p, v) \in Nat
  <2> HIDE DEF p, v
  <2> QED BY <1>1, ValuesTyped
<1> QED BY <1>2, <1>4, <1>5 DEF FulfillingWeight, Weighed

LEMMA NothingWithinNone ==
  ASSUME NEW c \in Chains, IsDistributed(c), NEW f, IsFinally(f), NEW s \in Places(c)
  PROVE  FulfillingWeight(c, f, s, 0) = 0
PROOF
<1> DEFINE p == << <<>> >>
           v == Fulfilling(c, f, 0)
<1>1. PathsOf(c, 0)[s] = p
  BY PathsOfIs
<1>2. <<>> \in PathsIn(Steps(c), 0) /\ <<>> \in Seq(Steps(c)) /\ Len(<<>>) = 0
  BY EmptySeq DEF PathsIn
<1>3. ~MeansAlong(f, ValuationsOn(<<>>))
  <2> DEFINE e == <<>>
  <2>1. e \in Seq(Steps(c)) /\ Len(e) = 0
    BY <1>2
  <2> HIDE DEF e
  <2>2. MeansAlong(f, ValuationsOn(e))
          <=> \E n \in 1..Len(e) : n <= f.bound + 1 /\ Means(f.operand, e[n].valuation)
    BY <2>1, FinallyIs
  <2>3. ~MeansAlong(f, ValuationsOn(e))
    BY <2>1, <2>2
  <2> QED BY <2>3 DEF e
<1>4. v[<<>>] = 0
  BY <1>2, <1>3 DEF Fulfilling
<1>5. Len(Values(p, v)) = 1 /\ Values(p, v)[1] = 0
  BY <1>4 DEF Values
<1>6. Weighed(p, v) = 0
  BY <1>5, SumOfOne DEF Weighed
<1> QED BY <1>1, <1>6 DEF FulfillingWeight

\* A transition on which psi holds counts in full, any other one with what
\* follows it.
ShareOf(c, f, tr, n) ==
  IF Means(f.operand, tr.valuation) THEN WeightOf(tr) * Power(n)
  ELSE WeightOf(tr) * FulfillingWeight(c, f, tr.targetStateIndex, n)

Within(n, f) == n <= MaxBound /\ n <= f.bound

LEMMA FulfillingStep ==
  ASSUME NEW c \in Chains, IsDistributed(c), NEW f, IsFinally(f), NEW s \in Places(c),
         NEW n \in Nat, Within(n, f)
  PROVE  /\ FulfillingWeight(c, f, s, n + 1)
               = SumOf([k \in 1..Len(GivenOrLoop(c, s)) |->
                          ShareOf(c, f, GivenOrLoop(c, s)[k], n)])
         /\ \A k \in 1..Len(GivenOrLoop(c, s)) :
              ShareOf(c, f, GivenOrLoop(c, s)[k], n) \in Nat
PROOF
<1> DEFINE first == GivenOrLoop(c, s)
           tails(k) == PathsOf(c, n)[first[k].targetStateIndex]
           v == Fulfilling(c, f, n + 1)
           q == [k \in 1..Len(first) |-> Weighed(Extended(first[k], tails(k)), v)]
           p == [k \in 1..Len(first) |-> ShareOf(c, f, first[k], n)]
<1>1. n \in Nat /\ n + 1 \in Nat /\ n \in 0..MaxBound + 1 /\ v \in [PathsIn(Steps(c), n + 1) -> Nat]
  BY PowerIs, WeightsTyped DEF Within
<1>2. FulfillingWeight(c, f, s, n + 1) = SumOf(q)
  <2>1. Weighed(PathsOf(c, n + 1)[s], v) = SumOf(q)
    <3> HIDE DEF v
    <3> QED BY <1>1, WeighedBranches
  <2> QED BY <2>1 DEF FulfillingWeight
<1>3. Len(first) \in Nat /\ \A k \in 1..Len(first) :
        first[k] \in Steps(c) /\ first[k].targetStateIndex \in Places(c)
          /\ WeightOf(first[k]) \in Nat
  BY PlaceFacts, LenProperties, ElementOfSeq
<1>4. ASSUME NEW k \in 1..Len(first) PROVE q[k] = ShareOf(c, f, first[k], n) /\ q[k] \in Nat
  <2>1. /\ tails(k) \in Seq(PathsIn(Steps(c), n))
        /\ Weighed(tails(k), AllWeights(c, n)) = Power(n)
        /\ FulfillingWeight(c, f, first[k].targetStateIndex, n)
             = Weighed(tails(k), Fulfilling(c, f, n))
    BY <1>1, <1>3, PathsOfTyped, PathsAreCertain DEF FulfillingWeight
  <2>2. PICK tr \in Steps(c), w \in Nat : tr = first[k] /\ w = WeightOf(tr)
    BY <1>3
  <2>3. PICK t \in Seq(PathsIn(Steps(c), n)) : t = tails(k)
    BY <2>1
  <2>4. q[k] = Weighed(Extended(tr, t), v)
    BY <2>2, <2>3
  <2>5. /\ AllWeights(c, n) \in [PathsIn(Steps(c), n) -> Nat]
        /\ Fulfilling(c, f, n) \in [PathsIn(Steps(c), n) -> Nat]
    BY <1>1, WeightsTyped
  <2>6. /\ Weighed(t, AllWeights(c, n)) \in Nat
        /\ Weighed(t, Fulfilling(c, f, n)) \in Nat
    BY <2>5, ValuesTyped
  <2>7. ASSUME NEW r \in PathsIn(Steps(c), n)
        PROVE  /\ <<tr>> \o r \in PathsIn(Steps(c), n + 1)
               /\ PathWeight(<<tr>> \o r) = w * PathWeight(r)
               /\ MeansAlong(f, ValuationsOn(<<tr>> \o r))
                    <=> Means(f.operand, tr.valuation) \/ MeansAlong(f, ValuationsOn(r))
    <3>1. r \in Seq(Steps(c)) /\ Len(r) <= f.bound
      BY DEF PathsIn, Within
    <3> QED BY <1>1, <2>2, <3>1, ExtendedPath, FinallyOnExtended
  <2>8. CASE Means(f.operand, tr.valuation)
    <3>1. ASSUME NEW r \in PathsIn(Steps(c), n) PROVE v[<<tr>> \o r] = w * AllWeights(c, n)[r]
      BY <2>7, <2>8 DEF AllWeights, Fulfilling
    <3>2. Weighed(Extended(tr, t), v) = w * Weighed(t, AllWeights(c, n))
      <4> HIDE DEF v
      <4>1. v \in [PathsIn(Steps(c), n + 1) -> Nat]
        BY <1>1
      <4>2. PICK u \in [PathsIn(Steps(c), n) -> Nat] : u = AllWeights(c, n)
        BY <2>5
      <4>3. Multiplies(Steps(c), n, v, u, tr, w)
        BY <3>1, <4>1, <4>2 DEF Multiplies
      <4>4. Weighed(Extended(tr, t), v) = w * Weighed(t, u)
        BY <4>3, WeighedExtended
      <4> QED BY <4>2, <4>4
    <3>3. q[k] = w * Power(n) /\ w * Power(n) \in Nat
      <4>1. Weighed(t, AllWeights(c, n)) = Power(n)
        BY <2>1, <2>3
      <4> HIDE DEF q
      <4> QED BY <2>4, <2>6, <3>2, <4>1
    <3>4. ShareOf(c, f, first[k], n) = w * Power(n)
      <4> HIDE DEF first
      <4> QED BY <2>2, <2>8 DEF ShareOf
    <3> HIDE DEF q, first
    <3> QED BY <3>3, <3>4
  <2>9. CASE ~Means(f.operand, tr.valuation)
    <3>1. ASSUME NEW r \in PathsIn(Steps(c), n) PROVE v[<<tr>> \o r] = w * Fulfilling(c, f, n)[r]
      <4>1. v[<<tr>> \o r] = IF MeansAlong(f, ValuationsOn(r)) THEN w * PathWeight(r) ELSE 0
        BY <2>7, <2>9 DEF Fulfilling
      <4>2. Fulfilling(c, f, n)[r] = IF MeansAlong(f, ValuationsOn(r)) THEN PathWeight(r) ELSE 0
        BY DEF Fulfilling
      <4> HIDE DEF v
      <4> QED BY <2>2, <4>1, <4>2
    <3>2. Weighed(Extended(tr, t), v) = w * Weighed(t, Fulfilling(c, f, n))
      <4> HIDE DEF v
      <4>1. v \in [PathsIn(Steps(c), n + 1) -> Nat]
        BY <1>1
      <4>2. PICK u \in [PathsIn(Steps(c), n) -> Nat] : u = Fulfilling(c, f, n)
        BY <2>5
      <4>3. Multiplies(Steps(c), n, v, u, tr, w)
        BY <3>1, <4>1, <4>2 DEF Multiplies
      <4>4. Weighed(Extended(tr, t), v) = w * Weighed(t, u)
        BY <4>3, WeighedExtended
      <4> QED BY <4>2, <4>4
    <3>3. q[k] = w * Weighed(t, Fulfilling(c, f, n)) /\ q[k] \in Nat
      <4> HIDE DEF q
      <4> QED BY <2>2, <2>4, <2>6, <3>2
    <3>4. ShareOf(c, f, first[k], n) = w * Weighed(t, Fulfilling(c, f, n))
      <4>1. FulfillingWeight(c, f, tr.targetStateIndex, n) = Weighed(t, Fulfilling(c, f, n))
        BY <2>1, <2>2, <2>3
      <4> HIDE DEF first
      <4> QED BY <2>2, <2>9, <4>1 DEF ShareOf
    <3> HIDE DEF q, first
    <3> QED BY <3>3, <3>4
  <2> QED BY <2>8, <2>9
<1>5. q = p
  <2> HIDE DEF first, tails, v
  <2>1. q = [k \in 1..Len(first) |-> q[k]]
    OBVIOUS
  <2> HIDE DEF q
  <2> QED BY <1>4, <2>1
<1>6. \A k \in 1..Len(first) : ShareOf(c, f, first[k], n) \in Nat
  <2> HIDE DEF first, q
  <2> QED BY <1>4
<1> QED BY <1>2, <1>5, <1>6

-----------------------------------------------------------------------------
(***************************************************************************)
(* One round, in units: as long as the probabilities of the targets are    *)
(* exact for n transitions, the weighted sum is exact for n + 1.           *)
(***************************************************************************)
LEMMA PowersMultiply ==
  ASSUME NEW a \in Nat, NEW b \in Nat, a + b <= MaxBound + 1
  PROVE  Power(a + b) = Power(a) * Power(b)
PROOF
<1> DEFINE S == {m \in Nat : m + b <= MaxBound + 1 => Power(m + b) = Power(m) * Power(b)}
<1>1. 0 \in S
  <2>1. 0 + b = b
    OBVIOUS
  <2>2. b \in 0..MaxBound + 1
    BY PowerIs
  <2>3. Power(b) \in Nat /\ Power(0) = 1
    BY <2>2, PowerIs
  <2> QED BY <2>1, <2>3
<1>2. ASSUME NEW m \in S PROVE m + 1 \in S
  <2> SUFFICES ASSUME (m + 1) + b <= MaxBound + 1
               PROVE  Power((m + 1) + b) = Power(m + 1) * Power(b)
    OBVIOUS
  <2>1. m \in Nat /\ m + b \in 0..MaxBound /\ m \in 0..MaxBound /\ (m + 1) + b = (m + b) + 1
        /\ m \in 0..MaxBound + 1 /\ b \in 0..MaxBound + 1 /\ m + b <= MaxBound + 1
    BY PowerIs
  <2>2. Power(m + b) = Power(m) * Power(b)
    BY <2>1
  <2>3. Power((m + b) + 1) = Weight * Power(m + b) /\ Power(m + 1) = Weight * Power(m)
    BY <2>1, PowerIs
  <2>4. Weight \in Nat /\ Power(m) \in Nat /\ Power(b) \in Nat
    BY <2>1, PowerIs
  <2>5. PICK x \in Nat, y \in Nat, w \in Nat : x = Power(m) /\ y = Power(b) /\ w = Weight
    BY <2>4
  <2>6. w * (x * y) = (w * x) * y
    BY <2>5
  <2> QED BY <2>1, <2>2, <2>3, <2>5, <2>6
<1> HIDE DEF S
<1>3. S = Nat
  <2>1. S \in SUBSET Nat
    BY DEF S
  <2> QED BY <1>1, <1>2, <2>1, AllByInduction
<1> QED BY <1>3 DEF S

NextShare(c, f, tr, n) ==
  IF Means(f.operand, tr.valuation) THEN tr.probability
  ELSE Times(tr.probability, ProbabilityOf(c, f, tr.targetStateIndex, n))

LEMMA NextShareIs ==
  ASSUME NEW c \in Chains, IsDistributed(c), NEW f, NEW n \in Nat, n <= MaxBound,
         NEW tr, tr.targetStateIndex \in Places(c), WeightOf(tr) \in Nat,
         tr.probability = WeightOf(tr) * Power(MaxBound)
  PROVE  NextShare(c, f, tr, n) = Power(MaxBound - n) * ShareOf(c, f, tr, n)
PROOF
<1>1. /\ n \in 0..MaxBound /\ n \in 0..MaxBound + 1
      /\ MaxBound - n \in Nat /\ MaxBound - n \in 0..MaxBound /\ MaxBound - n \in 0..MaxBound + 1
      /\ (MaxBound - n) + 1 = MaxBound + 1 - n /\ n + (MaxBound - n) = MaxBound
      /\ n + (MaxBound - n) <= MaxBound + 1
  BY PowerIs
<1>2. PICK w \in Nat, a \in Nat, d \in Nat, e \in Nat :
        /\ w = WeightOf(tr) /\ a = Power(MaxBound) /\ d = Power(MaxBound - n) /\ e = Power(n)
  BY <1>1, PowerIs, OneIs
<1>3. a = e * d
  BY <1>1, <1>2, PowersMultiply
<1>4. CASE Means(f.operand, tr.valuation)
  <2>1. NextShare(c, f, tr, n) = w * a
    BY <1>2, <1>4 DEF NextShare
  <2>2. ShareOf(c, f, tr, n) = w * e
    BY <1>2, <1>4 DEF ShareOf
  <2>3. w * (e * d) = d * (w * e)
    BY <1>2
  <2> QED BY <1>2, <1>3, <2>1, <2>2, <2>3
<1>5. CASE ~Means(f.operand, tr.valuation)
  <2>1. PICK g \in Nat :
          /\ g = FulfillingWeight(c, f, tr.targetStateIndex, n)
          /\ ProbabilityOf(c, f, tr.targetStateIndex, n) = g * Power(MaxBound + 1 - n)
    BY ProbabilityIs
  <2>2. PICK z \in Nat : z = Weight
    BY PowerIs
  <2>3. Power(MaxBound + 1 - n) = z * d
    BY <1>1, <1>2, <2>2, PowerIs
  <2>4. One \in Nat \ {0} /\ One = z * a
    BY <1>2, <2>2, OneIs
  <2>5. NextShare(c, f, tr, n) = ((w * a) * (g * (z * d))) \div One
    BY <1>2, <1>5, <2>1, <2>3 DEF NextShare, Times
  <2>6. (w * a) * (g * (z * d)) = (z * a) * (d * (w * g))
    BY <1>2, <2>1, <2>2
  <2>7. d * (w * g) \in Int
    BY <1>2, <2>1
  <2>8. (One * (d * (w * g))) \div One = d * (w * g)
    BY <2>4, <2>7, MultipleDivides
  <2>9. ShareOf(c, f, tr, n) = w * g
    BY <1>2, <1>5, <2>1 DEF ShareOf
  <2> QED BY <1>2, <2>4, <2>5, <2>6, <2>8, <2>9
<1> QED BY <1>4, <1>5

LEMMA RoundIsExact ==
  ASSUME NEW c \in Chains, IsDistributed(c), NEW f, IsFinally(f), NEW s \in Places(c),
         NEW n \in Nat, Within(n, f)
  PROVE  SumOf([k \in 1..Len(GivenOrLoop(c, s)) |->
                  NextShare(c, f, GivenOrLoop(c, s)[k], n)])
           = ProbabilityOf(c, f, s, n + 1)
PROOF
<1> DEFINE first == GivenOrLoop(c, s)
           p == [k \in 1..Len(first) |-> ShareOf(c, f, first[k], n)]
           q == [k \in 1..Len(first) |-> NextShare(c, f, first[k], n)]
<1>1. Len(first) \in Nat
  BY PlaceFacts, LenProperties
<1>2. FulfillingWeight(c, f, s, n + 1) = SumOf(p)
  BY FulfillingStep
<1>3. \A k \in 1..Len(first) : ShareOf(c, f, first[k], n) \in Nat
  BY FulfillingStep
<1>4. n <= MaxBound /\ MaxBound - n \in 0..MaxBound + 1 /\ n + 1 \in Nat
      /\ MaxBound + 1 - (n + 1) = MaxBound - n
  BY PowerIs DEF Within
<1>5. PICK d \in Nat : d = Power(MaxBound - n)
  BY <1>4, PowerIs
<1>6. \A k \in 1..Len(first) : NextShare(c, f, first[k], n) = d * ShareOf(c, f, first[k], n)
  <2> TAKE k \in 1..Len(first)
  <2>1. /\ first[k].targetStateIndex \in Places(c)
        /\ WeightOf(first[k]) \in Nat
        /\ first[k].probability = WeightOf(first[k]) * Power(MaxBound)
    BY PlaceFacts
  <2> HIDE DEF first
  <2> QED BY <1>4, <1>5, <2>1, NextShareIs
<1>7. SumOf(q) = d * SumOf(p) /\ SumOf(p) \in Nat
  <2> HIDE DEF first
  <2>1. p \in Seq(Nat) /\ Len(p) = Len(first)
    BY <1>1, <1>3
  <2>2. q \in Seq(Nat) /\ Len(q) = Len(p)
    <3>1. \A k \in 1..Len(first) : NextShare(c, f, first[k], n) \in Nat
      BY <1>3, <1>5, <1>6
    <3> QED BY <1>1, <2>1, <3>1
  <2>3. \A k \in 1..Len(p) : q[k] = d * p[k]
    BY <1>6, <2>1
  <2>4. p \in Seq(Int) /\ q \in Seq(Int) /\ d \in Int
    <3>1. p \in Seq(Int)
      BY <1>1, <1>3
    <3>2. q \in Seq(Int)
      <4>1. \A k \in 1..Len(first) : NextShare(c, f, first[k], n) \in Int
        BY <1>3, <1>5, <1>6
      <4> QED BY <1>1, <4>1
    <3> QED BY <1>5, <3>1, <3>2
  <2> HIDE DEF p, q
  <2>5. SumOf(p) \in Nat
    BY <2>1, SumOfTyped
  <2> QED BY <2>2, <2>3, <2>4, <2>5, SumOfScaled
<1>8. ProbabilityOf(c, f, s, n + 1) = SumOf(p) * d
  BY <1>2, <1>4, <1>5, ProbabilityIs
<1> HIDE DEF p
<1> QED BY <1>5, <1>7, <1>8

-----------------------------------------------------------------------------
(***************************************************************************)
(* The visitors.  What a formula means is defined on all formulas at once, *)
(* as the one function that answers each as its operands are answered.     *)
(***************************************************************************)
\* What F makes of v at g depends on lower ones only.
IsLocal(F, U, height, B) ==
  /\ F \in [[U -> B] -> [U -> B]]
  /\ \A v, w \in [U -> B] : \A g \in U :
       (\A o \in U : height[o] < height[g] => v[o] = w[o]) => F[v][g] = F[w][g]

IsFixedPoint(F, v) == F[v] = v

LEMMA FixedPointExists ==
  ASSUME NEW U, NEW B, NEW height \in [U -> Nat], NEW a \in [U -> B],
         NEW F, IsLocal(F, U, height, B)
  PROVE  \E v \in [U -> B] : IsFixedPoint(F, v)
PROOF
<1>1. F \in [[U -> B] -> [U -> B]]
  BY DEF IsLocal
<1>2. PICK f \in [Nat -> [U -> B]] : f[0] = a /\ \A n \in Nat : f[n + 1] = F[f[n]]
  <2>1. \E f \in [Nat -> [U -> B]] : IsChainOf(f, a, F)
    BY <1>1, ChainExists, Zenon
  <2> QED BY <2>1 DEF IsChainOf
<1> DEFINE S == {n \in Nat : \A g \in U : height[g] < n => f[n + 1][g] = f[n][g]}
<1>3. S = Nat
  <2>1. 0 \in S
    OBVIOUS
  <2>2. ASSUME NEW n \in S PROVE n + 1 \in S
    <3>1. n \in Nat /\ n + 1 \in Nat /\ \A g \in U : height[g] < n => f[n + 1][g] = f[n][g]
      OBVIOUS
    <3>2. ASSUME NEW g \in U, height[g] < n + 1 PROVE f[(n + 1) + 1][g] = f[n + 1][g]
      <4>1. f[(n + 1) + 1] = F[f[n + 1]] /\ f[n + 1] = F[f[n]]
        BY <1>2, <3>1
      <4>2. f[n] \in [U -> B] /\ f[n + 1] \in [U -> B]
        BY <1>2, <3>1
      <4>3. \A o \in U : height[o] < height[g] => f[n + 1][o] = f[n][o]
        BY <3>1, <3>2
      <4>4. F[f[n + 1]][g] = F[f[n]][g]
        BY <4>2, <4>3 DEF IsLocal
      <4> QED BY <4>1, <4>4
    <3> QED BY <3>1, <3>2
  <2>3. S \in SUBSET Nat
    OBVIOUS
  <2> HIDE DEF S
  <2> QED BY <2>1, <2>2, <2>3, AllByInduction
<1>4. ASSUME NEW n \in Nat, NEW g \in U, height[g] < n PROVE f[n + 1][g] = f[n][g]
  <2>1. n \in S
    BY <1>3
  <2> QED BY <1>4, <2>1
<1> HIDE DEF S
<1> DEFINE v == [g \in U |-> f[height[g] + 1][g]]
<1>5. v \in [U -> B]
  BY <1>2
<1>6. ASSUME NEW o \in U, NEW m \in Nat, height[o] < m PROVE f[m][o] = v[o]
  <2> DEFINE T == {n \in Nat : height[o] < n => f[n][o] = v[o]}
  <2>1. 0 \in T
    OBVIOUS
  <2>2. ASSUME NEW n \in T PROVE n + 1 \in T
    <3> SUFFICES ASSUME height[o] < n + 1 PROVE f[n + 1][o] = v[o]
      OBVIOUS
    <3>1. CASE height[o] < n
      <4>1. f[n + 1][o] = f[n][o]
        BY <1>4, <3>1
      <4>2. f[n][o] = v[o]
        BY <3>1
      <4> QED BY <4>1, <4>2
    <3>2. CASE ~(height[o] < n)
      <4>1. height[o] = n
        BY <3>2
      <4> QED BY <4>1
    <3> QED BY <3>1, <3>2
  <2>3. T \in SUBSET Nat
    OBVIOUS
  <2>4. T = Nat
    <3> HIDE DEF T
    <3> QED BY <2>1, <2>2, <2>3, AllByInduction
  <2>5. m \in T
    BY <2>4
  <2> QED BY <1>6, <2>5
<1>7. ASSUME NEW g \in U PROVE F[v][g] = v[g]
  <2>1. height[g] \in Nat
    OBVIOUS
  <2>2. f[height[g]] \in [U -> B] /\ f[height[g] + 1] = F[f[height[g]]]
    BY <1>2, <2>1
  <2>3. \A o \in U : height[o] < height[g] => v[o] = f[height[g]][o]
    BY <1>6, <2>1
  <2>4. v[g] = f[height[g] + 1][g]
    OBVIOUS
  <2> HIDE DEF v
  <2>5. F[v][g] = F[f[height[g]]][g]
    BY <1>5, <2>2, <2>3 DEF IsLocal
  <2> QED BY <2>2, <2>4, <2>5
<1>8. F[v] = v
  <2> HIDE DEF v
  <2>1. F[v] \in [U -> B]
    BY <1>1, <1>5
  <2> QED BY <1>5, <1>7, <2>1
<1> HIDE DEF v
<1> QED BY <1>5, <1>8 DEF IsFixedPoint

-----------------------------------------------------------------------------
\* The parts of a formula: it itself and, with each part, its operands.
IsClosed(P, U, f) ==
  /\ P \in SUBSET U /\ f \in P
  /\ \A g \in P : Operands(g) \subseteq P

LEMMA OperandsAre ==
  ASSUME NEW U, StateFormulas(U), NEW g \in U
  PROVE  /\ Operands(g) \subseteq U
         /\ g.height \in Nat
         /\ \A o \in Operands(g) : o.height \in Nat /\ o.height < g.height
         /\ g.height = 0 => Operands(g) = {}
         /\ g.kind = "adapted" \/ g.kind = "unary" \/ g.kind = "binary"
         /\ g.kind = "unary" => g.op = "Not" /\ Operands(g) = {g.operand}
         /\ g.kind = "binary" => /\ g.op \in {"And", "Or", "Equivalence"}
                                /\ Operands(g) = {g.left, g.right}
PROOF
<1>1. CASE g.kind = "adapted"
  <2>1. Operands(g) = {}
    BY <1>1 DEF Operands
  <2> QED BY <1>1, <2>1 DEF StateFormulas
<1>2. CASE g.kind = "unary"
  <2>1. Operands(g) = {g.operand}
    BY <1>2 DEF Operands
  <2>2. /\ g.height \in Nat /\ g.op = "Not" /\ g.operand \in U
        /\ g.operand.height < g.height /\ g.operand.height \in Nat
    BY <1>2 DEF StateFormulas
  <2> QED BY <1>2, <2>1, <2>2
<1>3. CASE g.kind = "binary"
  <2>1. Operands(g) = {g.left, g.right}
    BY <1>3 DEF Operands
  <2>2. /\ g.height \in Nat /\ g.op \in {"And", "Or", "Equivalence"}
        /\ g.left \in U /\ g.left.height < g.height /\ g.left.height \in Nat
        /\ g.right \in U /\ g.right.height < g.height /\ g.right.height \in Nat
    BY <1>3 DEF StateFormulas
  <2> QED BY <1>3, <2>1, <2>2
<1> QED BY <1>1, <1>2, <1>3 DEF StateFormulas

LEMMA PartsAreClosed ==
  ASSUME NEW U, StateFormulas(U), NEW f \in U
  PROVE  IsClosed(Parts(f), U, f)
PROOF
<1> DEFINE N == f.height
           within == CHOOSE w : w = [n \in 0..N |->
             IF n = 0 THEN {f} ELSE w[n - 1] \cup UNION {Operands(g) : g \in w[n - 1]}]
           step == [Z \in SUBSET U |-> Z \cup UNION {Operands(g) : g \in Z}]
           steps == [n \in 1..N |-> step]
<1>1. N \in Nat
  BY OperandsAre
<1>2. step \in [SUBSET U -> SUBSET U]
  BY OperandsAre
<1>3. PICK w \in [0..N -> SUBSET U] : IsRun(w, {f}, steps, N)
  <2>1. steps \in [1..N -> [SUBSET U -> SUBSET U]] /\ {f} \in SUBSET U
    BY <1>2
  <2> HIDE DEF N, step, steps
  <2> QED BY <1>1, <2>1, RecursionExists, Zenon
<1>4. /\ w[0] = {f}
      /\ \A n \in 1..N : w[n] = w[n - 1] \cup UNION {Operands(g) : g \in w[n - 1]}
  <2>1. w[0] = {f} /\ \A n \in 1..N : w[n] = steps[n][w[n - 1]]
    BY <1>3 DEF IsRun
  <2>2. ASSUME NEW n \in 1..N
        PROVE  w[n] = w[n - 1] \cup UNION {Operands(g) : g \in w[n - 1]}
    <3>1. n - 1 \in 0..N
      BY <1>1
    <3>2. w[n - 1] \in SUBSET U
      BY <1>3, <3>1
    <3>3. steps[n] = step
      OBVIOUS
    <3>4. step[w[n - 1]] = w[n - 1] \cup UNION {Operands(g) : g \in w[n - 1]}
      BY <3>2
    <3> QED BY <2>1, <3>3, <3>4
  <2> QED BY <2>1, <2>2
<1> HIDE DEF step, steps
<1>5. w = [n \in 0..N |->
             IF n = 0 THEN {f} ELSE w[n - 1] \cup UNION {Operands(g) : g \in w[n - 1]}]
  <2>1. \A n \in 0..N :
          w[n] = IF n = 0 THEN {f} ELSE w[n - 1] \cup UNION {Operands(g) : g \in w[n - 1]}
    <3> TAKE n \in 0..N
    <3>1. CASE n = 0
      BY <1>4, <3>1
    <3>2. CASE n # 0
      <4>1. n \in 1..N
        BY <1>1, <3>2
      <4> QED BY <1>4, <3>2, <4>1
    <3> QED BY <3>1, <3>2
  <2> QED BY <1>3, <2>1
<1>6. within = [n \in 0..N |->
        IF n = 0 THEN {f} ELSE within[n - 1] \cup UNION {Operands(g) : g \in within[n - 1]}]
  BY <1>5
<1>7. Parts(f) = within[N]
  BY DEF Parts
<1> HIDE DEF within
<1>8. within[0] = {f} /\ \A n \in 1..N :
        within[n] = within[n - 1] \cup UNION {Operands(g) : g \in within[n - 1]}
  BY <1>1, <1>6
<1> DEFINE Good(n) == /\ within[n] \in SUBSET U /\ f \in within[n]
                      /\ \A g \in within[n] :
                           g.height + n <= N \/ Operands(g) \subseteq within[n]
           S == {n \in Nat : n <= N => Good(n)}
<1>9. 0 \in S
  BY <1>1, <1>8
<1>10. ASSUME NEW n \in S PROVE n + 1 \in S
  <2> SUFFICES ASSUME n + 1 <= N PROVE Good(n + 1)
    OBVIOUS
  <2>1. n + 1 \in 1..N /\ (n + 1) - 1 = n /\ n \in Nat
    BY <1>1
  <2>2. Good(n)
    BY <1>1, <2>1
  <2>3. within[n + 1] = within[n] \cup UNION {Operands(g) : g \in within[n]}
    BY <1>8, <2>1
  <2>4. within[n + 1] \in SUBSET U /\ f \in within[n + 1]
    BY <2>2, <2>3, OperandsAre
  <2>5. ASSUME NEW g \in within[n + 1], ~(Operands(g) \subseteq within[n + 1])
        PROVE  g.height + (n + 1) <= N
    <3>1. g \notin within[n]
      BY <2>3, <2>5
    <3>2. PICK h \in within[n] : g \in Operands(h)
      BY <2>3, <3>1
    <3>3. h.height + n <= N
      BY <2>2, <3>1, <3>2
    <3>4. h.height \in Nat /\ g.height \in Nat /\ g.height < h.height
      BY <2>2, <3>2, OperandsAre
    <3> HIDE DEF N
    <3> QED BY <1>1, <2>1, <3>3, <3>4
  <2> QED BY <2>4, <2>5
<1>11. N \in S
  <2>1. S \in SUBSET Nat
    OBVIOUS
  <2> HIDE DEF S
  <2>2. S = Nat
    BY <1>9, <1>10, <2>1, AllByInduction
  <2> QED BY <1>1, <2>2
<1>12. Good(N)
  BY <1>1, <1>11
<1>13. ASSUME NEW g \in within[N] PROVE Operands(g) \subseteq within[N]
  <2>1. g \in U /\ g.height \in Nat
    BY <1>12, OperandsAre
  <2>2. CASE g.height + N <= N
    <3>1. g.height = 0
      BY <1>1, <2>1, <2>2
    <3> QED BY <2>1, <3>1, OperandsAre
  <2> QED BY <1>12, <2>2
<1> QED BY <1>7, <1>12, <1>13 DEF IsClosed

\* Two functions on the parts of a formula are the same on all of them, when
\* they are on a formula as soon as they are on its operands.
AgreeFrom(v, w, P) ==
  \A g \in P : (\A o \in Operands(g) : v[o] = w[o]) => v[g] = w[g]

LEMMA Agree ==
  ASSUME NEW U, StateFormulas(U), NEW f, NEW P, IsClosed(P, U, f),
         NEW v, NEW w, AgreeFrom(v, w, P)
  PROVE  \A g \in P : v[g] = w[g]
PROOF
<1> DEFINE bad == {g \in P : v[g] # w[g]}
           heights == {g.height : g \in bad}
<1> SUFFICES ASSUME bad # {} PROVE FALSE
  OBVIOUS
<1>1. heights \in SUBSET Nat /\ heights # {}
  BY OperandsAre DEF IsClosed
<1>2. PICK n \in heights : \A m \in heights : n <= m
  <2> HIDE DEF heights
  <2> QED BY <1>1, LeastExists
<1>3. PICK g \in bad : g.height = n
  BY <1>2
<1>4. ASSUME NEW o \in Operands(g) PROVE v[o] = w[o]
  <2>1. o \in P /\ g \in U /\ g \in P
    BY <1>3 DEF IsClosed
  <2>2. o.height \in Nat /\ g.height \in Nat /\ o.height < g.height
    BY <2>1, OperandsAre
  <2>3. o.height \notin heights
    <3> HIDE DEF heights
    <3> QED BY <1>2, <1>3, <2>2
  <2>4. o \notin bad
    BY <2>3
  <2> QED BY <2>1, <2>4
<1>5. v[g] = w[g]
  BY <1>3, <1>4 DEF AgreeFrom
<1> QED BY <1>3, <1>5

LEMMA ClosedIsStateFormulas ==
  ASSUME NEW U, StateFormulas(U), NEW f, NEW P, IsClosed(P, U, f)
  PROVE  StateFormulas(P)
PROOF
<1> SUFFICES ASSUME NEW g \in P
             PROVE  /\ g.height \in Nat
                    /\ \/ g.kind = "adapted"
                       \/ /\ g.kind = "unary" /\ g.op = "Not"
                          /\ g.operand \in P /\ g.operand.height < g.height
                       \/ /\ g.kind = "binary" /\ g.op \in {"And", "Or", "Equivalence"}
                          /\ g.left \in P /\ g.left.height < g.height
                          /\ g.right \in P /\ g.right.height < g.height
  BY DEF StateFormulas
<1>1. g \in U /\ Operands(g) \subseteq P
  BY DEF IsClosed
<1>2. /\ g.height \in Nat
      /\ \A o \in Operands(g) : o.height < g.height
      /\ g.kind = "adapted" \/ g.kind = "unary" \/ g.kind = "binary"
      /\ g.kind = "unary" => g.op = "Not" /\ Operands(g) = {g.operand}
      /\ g.kind = "binary" => /\ g.op \in {"And", "Or", "Equivalence"}
                             /\ Operands(g) = {g.left, g.right}
  BY <1>1, OperandsAre
<1>3. g.kind = "unary" => g.operand \in P /\ g.operand.height < g.height
  BY <1>1, <1>2
<1>4. g.kind = "binary" => /\ g.left \in P /\ g.left.height < g.height
                         /\ g.right \in P /\ g.right.height < g.height
  BY <1>1, <1>2
<1> QED BY <1>2, <1>3, <1>4

\* A visitor knows what some formulas evaluate to, and composes the others.
Answered(g, known, atom, v) ==
  IF known[g] THEN atom[g]
  ELSE IF g.kind = "unary" THEN ~v[g.operand]
  ELSE g.kind = "binary" /\ Combined(g.op, v[g.left], v[g.right])

IsAnswer(v, P, known, atom) ==
  v \in [P -> BOOLEAN] /\ \A g \in P : v[g] = Answered(g, known, atom, v)

LEMMA AnsweredTyped ==
  ASSUME NEW P, StateFormulas(P), NEW known \in [P -> BOOLEAN], NEW atom \in [P -> BOOLEAN],
         NEW v \in [P -> BOOLEAN], NEW g \in P
  PROVE  Answered(g, known, atom, v) \in BOOLEAN
PROOF
<1>1. /\ g.kind = "unary" => g.operand \in P
      /\ g.kind = "binary" => g.op \in {"And", "Or", "Equivalence"} /\ g.left \in P /\ g.right \in P
  BY DEF StateFormulas
<1>2. g.kind = "binary" => Combined(g.op, v[g.left], v[g.right]) \in BOOLEAN
  BY <1>1 DEF Combined
<1> QED BY <1>1, <1>2 DEF Answered

LEMMA AnswerExists ==
  ASSUME NEW P, StateFormulas(P), NEW known \in [P -> BOOLEAN], NEW atom \in [P -> BOOLEAN]
  PROVE  \E v : IsAnswer(v, P, known, atom)
PROOF
<1> DEFINE height == [g \in P |-> g.height]
           a == [g \in P |-> FALSE]
           F == [v \in [P -> BOOLEAN] |-> [g \in P |-> Answered(g, known, atom, v)]]
<1>1. height \in [P -> Nat] /\ a \in [P -> BOOLEAN]
  BY DEF StateFormulas
<1>2. F \in [[P -> BOOLEAN] -> [P -> BOOLEAN]]
  BY AnsweredTyped
<1>3. ASSUME NEW v \in [P -> BOOLEAN], NEW w \in [P -> BOOLEAN], NEW g \in P,
             \A o \in P : height[o] < height[g] => v[o] = w[o]
      PROVE  F[v][g] = F[w][g]
  <2>1. g.kind = "unary" => v[g.operand] = w[g.operand]
    BY <1>3 DEF StateFormulas
  <2>2. g.kind = "binary" => v[g.left] = w[g.left] /\ v[g.right] = w[g.right]
    BY <1>3 DEF StateFormulas
  <2>3. Answered(g, known, atom, v) = Answered(g, known, atom, w)
    BY <2>1, <2>2 DEF Answered
  <2> QED BY <2>3
<1>4. IsLocal(F, P, height, BOOLEAN)
  <2> HIDE DEF F, height
  <2> QED BY <1>2, <1>3 DEF IsLocal
<1>5. PICK v \in [P -> BOOLEAN] : F[v] = v
  <2> HIDE DEF F, height, a
  <2>1. PICK B : B = BOOLEAN
    OBVIOUS
  <2>2. height \in [P -> Nat] /\ a \in [P -> B] /\ IsLocal(F, P, height, B)
    BY <1>1, <1>4, <2>1
  <2>3. \E v \in [P -> B] : IsFixedPoint(F, v)
    BY <2>2, FixedPointExists, Zenon
  <2> QED BY <2>1, <2>3 DEF IsFixedPoint
<1>6. IsAnswer(v, P, known, atom)
  BY <1>5 DEF IsAnswer
<1> QED BY <1>6

\* What the formulas of U mean in a state with the valuation.
IsMeaning(v, U, valuation) ==
  /\ v \in [U -> BOOLEAN]
  /\ \A g \in U :
       /\ g.kind = "adapted" => v[g] = valuation[g.id]
       /\ g.kind = "unary"   => v[g] = ~v[g.operand]
       /\ g.kind = "binary"  => v[g] = Combined(g.op, v[g.left], v[g.right])

LEMMA MeaningExists ==
  ASSUME NEW U, StateFormulas(U), NEW valuation, Valued(U, valuation)
  PROVE  \E v : IsMeaning(v, U, valuation)
PROOF
<1> DEFINE known == [g \in U |-> g.kind = "adapted"]
           atom == [g \in U |-> g.kind = "adapted" /\ valuation[g.id]]
<1>1. known \in [U -> BOOLEAN] /\ atom \in [U -> BOOLEAN]
  OBVIOUS
<1>2. PICK v : IsAnswer(v, U, known, atom)
  <2> HIDE DEF known, atom
  <2> QED BY <1>1, AnswerExists
<1>3. v \in [U -> BOOLEAN] /\ \A g \in U : v[g] = Answered(g, known, atom, v)
  BY <1>2 DEF IsAnswer
<1>4. ASSUME NEW g \in U
      PROVE  /\ g.kind = "adapted" => v[g] = valuation[g.id]
             /\ g.kind = "unary"   => v[g] = ~v[g.operand]
             /\ g.kind = "binary"  => v[g] = Combined(g.op, v[g.left], v[g.right])
  <2>1. v[g] = Answered(g, known, atom, v) /\ v[g] \in BOOLEAN
    BY <1>3
  <2>2. CASE g.kind = "adapted"
    <3>1. known[g] /\ atom[g] = valuation[g.id]
      BY <2>2 DEF Valued
    <3> HIDE DEF known, atom
    <3> QED BY <2>1, <2>2, <3>1 DEF Answered
  <2>3. CASE g.kind = "unary"
    <3>1. ~known[g]
      BY <2>3
    <3> HIDE DEF known, atom
    <3> QED BY <2>1, <2>3, <3>1 DEF Answered
  <2>4. CASE g.kind = "binary"
    <3>1. ~known[g]
      BY <2>4
    <3> HIDE DEF known, atom
    <3>2. v[g] = (g.kind = "binary" /\ Combined(g.op, v[g.left], v[g.right]))
      BY <2>1, <2>4, <3>1 DEF Answered
    <3>3. Combined(g.op, v[g.left], v[g.right]) \in BOOLEAN
      <4>1. /\ g.op \in {"And", "Or", "Equivalence"}
            /\ v[g.left] \in BOOLEAN /\ v[g.right] \in BOOLEAN
        BY <1>3, <2>4 DEF StateFormulas
      <4> QED BY <4>1 DEF Combined
    <3> QED BY <2>1, <2>4, <3>2, <3>3
  <2> QED BY <2>2, <2>3, <2>4 DEF StateFormulas
<1> QED BY <1>3, <1>4 DEF IsMeaning

LEMMA EvaluateOnStateIs ==
  ASSUME NEW U, StateFormulas(U), NEW valuation, NEW v, IsMeaning(v, U, valuation), NEW f \in U
  PROVE  EvaluateOnState(f, valuation) = v[f]
PROOF
<1> DEFINE P == Parts(f)
           value == CHOOSE w : w = [g \in P |->
             IF g.kind = "adapted" THEN valuation[g.id]
             ELSE IF g.kind = "unary" THEN ~w[g.operand]
             ELSE Combined(g.op, w[g.left], w[g.right])]
<1>1. IsClosed(P, U, f) /\ P \in SUBSET U /\ f \in P
  BY PartsAreClosed DEF IsClosed
<1>2. StateFormulas(P)
  BY <1>1, ClosedIsStateFormulas
<1> DEFINE u == [g \in P |-> v[g]]
<1>3. u = [g \in P |->
             IF g.kind = "adapted" THEN valuation[g.id]
             ELSE IF g.kind = "unary" THEN ~u[g.operand]
             ELSE Combined(g.op, u[g.left], u[g.right])]
  <2>1. ASSUME NEW g \in P
        PROVE  v[g] = IF g.kind = "adapted" THEN valuation[g.id]
                      ELSE IF g.kind = "unary" THEN ~u[g.operand]
                      ELSE Combined(g.op, u[g.left], u[g.right])
    <3>1. g \in U
      BY <1>1
    <3>2. /\ g.kind = "unary" => u[g.operand] = v[g.operand]
          /\ g.kind = "binary" => u[g.left] = v[g.left] /\ u[g.right] = v[g.right]
      BY <1>2 DEF StateFormulas
    <3>3. g.kind = "adapted" \/ g.kind = "unary" \/ g.kind = "binary"
      BY <1>2 DEF StateFormulas
    <3> HIDE DEF u, P
    <3> QED BY <3>1, <3>2, <3>3 DEF IsMeaning
  <2> HIDE DEF P
  <2> QED BY <2>1
<1>4. value = [g \in P |->
             IF g.kind = "adapted" THEN valuation[g.id]
             ELSE IF g.kind = "unary" THEN ~value[g.operand]
             ELSE Combined(g.op, value[g.left], value[g.right])]
  <2> HIDE DEF u, P
  <2> QED BY <1>3
<1>5. EvaluateOnState(f, valuation) = value[f]
  BY DEF EvaluateOnState
<1> HIDE DEF value, u, P
<1>6. AgreeFrom(value, v, P)
  <2> SUFFICES ASSUME NEW g \in P, \A o \in Operands(g) : value[o] = v[o]
               PROVE  value[g] = v[g]
    BY DEF AgreeFrom
  <2>1. g \in U
    BY <1>1
  <2>2. /\ g.kind = "unary" => value[g.operand] = v[g.operand]
        /\ g.kind = "binary" => value[g.left] = v[g.left] /\ value[g.right] = v[g.right]
    BY <2>1, OperandsAre
  <2>3. g.kind = "adapted" \/ g.kind = "unary" \/ g.kind = "binary"
    BY <2>1 DEF StateFormulas
  <2>4. value[g] = IF g.kind = "adapted" THEN valuation[g.id]
                   ELSE IF g.kind = "unary" THEN ~value[g.operand]
                   ELSE Combined(g.op, value[g.left], value[g.right])
    BY <1>4
  <2> QED BY <2>1, <2>2, <2>3, <2>4 DEF IsMeaning
<1> QED BY <1>1, <1>5, <1>6, Agree

LEMMA MeansIs ==
  ASSUME NEW U, StateFormulas(U), NEW valuation, NEW v, IsMeaning(v, U, valuation), NEW f \in U
  PROVE  Means(f, valuation) = v[f]
PROOF
<1> DEFINE P == Parts(f)
           means == CHOOSE w : w = [g \in P |->
             IF g.kind = "adapted" THEN valuation[g.id]
             ELSE IF g.kind = "unary" THEN ~w[g.operand]
             ELSE AsPrinted(g.op, w[g.left], w[g.right])]
<1>1. IsClosed(P, U, f) /\ P \in SUBSET U /\ f \in P
  BY PartsAreClosed DEF IsClosed
<1>2. StateFormulas(P)
  BY <1>1, ClosedIsStateFormulas
<1>3. ASSUME NEW g \in U, g.kind = "binary"
      PROVE  /\ AsPrinted(g.op, v[g.left], v[g.right]) = v[g]
             /\ g.left \in U /\ g.right \in U
  <2>1. /\ g.op \in {"And", "Or", "Equivalence"} /\ g.left \in U /\ g.right \in U
        /\ v[g.left] \in BOOLEAN /\ v[g.right] \in BOOLEAN
    BY <1>3 DEF StateFormulas, IsMeaning
  <2>2. v[g] = Combined(g.op, v[g.left], v[g.right])
    BY <1>3 DEF IsMeaning
  <2> QED BY <2>1, <2>2 DEF AsPrinted, Combined
<1> DEFINE u == [g \in P |-> v[g]]
<1>4. u = [g \in P |->
             IF g.kind = "adapted" THEN valuation[g.id]
             ELSE IF g.kind = "unary" THEN ~u[g.operand]
             ELSE AsPrinted(g.op, u[g.left], u[g.right])]
  <2>1. ASSUME NEW g \in P
        PROVE  v[g] = IF g.kind = "adapted" THEN valuation[g.id]
                      ELSE IF g.kind = "unary" THEN ~u[g.operand]
                      ELSE AsPrinted(g.op, u[g.left], u[g.right])
    <3>1. g \in U
      BY <1>1
    <3>2. /\ g.kind = "unary" => u[g.operand] = v[g.operand]
          /\ g.kind = "binary" => u[g.left] = v[g.left] /\ u[g.right] = v[g.right]
      BY <1>2 DEF StateFormulas
    <3>3. g.kind = "adapted" \/ g.kind = "unary" \/ g.kind = "binary"
      BY <1>2 DEF StateFormulas
    <3> HIDE DEF u, P
    <3> QED BY <1>3, <3>1, <3>2, <3>3 DEF IsMeaning
  <2> HIDE DEF P
  <2> QED BY <2>1
<1>5. means = [g \in P |->
             IF g.kind = "adapted" THEN valuation[g.id]
             ELSE IF g.kind = "unary" THEN ~means[g.operand]
             ELSE AsPrinted(g.op, means[g.left], means[g.right])]
  <2> HIDE DEF u, P
  <2> QED BY <1>4
<1>6. Means(f, valuation) = means[f]
  BY DEF Means
<1> HIDE DEF means, u, P
<1>7. AgreeFrom(means, v, P)
  <2> SUFFICES ASSUME NEW g \in P, \A o \in Operands(g) : means[o] = v[o]
               PROVE  means[g] = v[g]
    BY DEF AgreeFrom
  <2>1. g \in U
    BY <1>1
  <2>2. /\ g.kind = "unary" => means[g.operand] = v[g.operand]
        /\ g.kind = "binary" => means[g.left] = v[g.left] /\ means[g.right] = v[g.right]
    BY <2>1, OperandsAre
  <2>3. g.kind = "adapted" \/ g.kind = "unary" \/ g.kind = "binary"
    BY <2>1 DEF StateFormulas
  <2>4. means[g] = IF g.kind = "adapted" THEN valuation[g.id]
                   ELSE IF g.kind = "unary" THEN ~means[g.operand]
                   ELSE AsPrinted(g.op, means[g.left], means[g.right])
    BY <1>5
  <2> QED BY <1>3, <2>1, <2>2, <2>3, <2>4 DEF IsMeaning
<1> QED BY <1>1, <1>6, <1>7, Agree

\* On a state, without an implication, a formula evaluates to what it means.
LEMMA EvaluatesToMeaning ==
  ASSUME NEW U, StateFormulas(U), NEW valuation, Valued(U, valuation), NEW f \in U
  PROVE  EvaluateOnState(f, valuation) = Means(f, valuation) /\ Means(f, valuation) \in BOOLEAN
PROOF
<1>1. PICK v : IsMeaning(v, U, valuation)
  BY MeaningExists
<1> QED BY <1>1, EvaluateOnStateIs, MeansIs DEF IsMeaning

LEMMA FoundIs ==
  ASSUME NEW U, Unambiguous(U), NEW formulas \in Seq(U), NEW g \in U,
         Found(IdentifiersOf(formulas), g)
  PROVE  /\ FirstFound(IdentifiersOf(formulas), g) \in 1..Len(formulas)
         /\ formulas[FirstFound(IdentifiersOf(formulas), g)] = g
PROOF
<1> DEFINE ids == IdentifiersOf(formulas)
           places == {k \in 1..Len(formulas) : ids[k] = g.id}
<1>1. Len(formulas) \in Nat /\ \A k \in 1..Len(formulas) : formulas[k] \in U
  BY LenProperties, ElementOfSeq
<1>2. Len(ids) = Len(formulas) /\ \A k \in 1..Len(formulas) : ids[k] = formulas[k].id
  BY <1>1 DEF IdentifiersOf
<1> HIDE DEF ids
<1>3. g.id # Unnamed /\ \E k \in 1..Len(ids) : ids[k] = g.id
  BY DEF Found, ids
<1>4. places \in SUBSET Nat /\ places # {}
  BY <1>1, <1>2, <1>3
<1>5. PICK n \in places : \A k \in places : n <= k
  <2> HIDE DEF places
  <2> QED BY <1>4, LeastExists
<1>6. n \in 1..Len(ids) /\ ids[n] = g.id /\ \A k \in 1..n - 1 : ids[k] # g.id
  <2>1. n \in 1..Len(ids) /\ ids[n] = g.id
    BY <1>2, <1>5
  <2>2. ASSUME NEW k \in 1..n - 1, ids[k] = g.id PROVE FALSE
    <3>1. k \in 1..Len(formulas) /\ ~(n <= k)
      BY <1>1, <1>2, <2>1
    <3>2. k \in places
      BY <2>2, <3>1
    <3> QED BY <1>5, <3>1, <3>2
  <2> QED BY <2>1, <2>2
<1> DEFINE m == FirstFound(ids, g)
<1>7. m \in 1..Len(ids) /\ ids[m] = g.id
  BY <1>6 DEF FirstFound
<1> HIDE DEF m
<1>8. m \in 1..Len(formulas) /\ formulas[m] \in U /\ formulas[m].id = g.id
  BY <1>1, <1>2, <1>7
<1>9. formulas[m] = g
  BY <1>3, <1>8 DEF Unambiguous
<1> QED BY <1>8, <1>9 DEF m, ids

\* What a formula that compiles is composed of.
IsCompiled(v, P, ids) ==
  /\ v \in [P -> BOOLEAN]
  /\ \A g \in P :
       v[g] => \/ Found(ids, g)
               \/ g.kind = "unary" /\ v[g.operand]
               \/ g.kind = "binary" /\ v[g.left] /\ v[g.right]

LEMMA CompilesIs ==
  ASSUME NEW f, StateFormulas(Parts(f)), NEW ids
  PROVE  \E v : IsCompiled(v, Parts(f), ids) /\ Compiles(ids, f) = v[f]
PROOF
<1> DEFINE P == Parts(f)
           compiled(g, v) ==
             \/ Found(ids, g)
             \/ g.kind = "unary" /\ g.op = "Not" /\ v[g.operand]
             \/ g.kind = "binary" /\ g.op # "Until" /\ v[g.left] /\ v[g.right]
           compiles == CHOOSE v : v = [g \in P |->
             \/ Found(ids, g)
             \/ g.kind = "unary" /\ g.op = "Not" /\ v[g.operand]
             \/ g.kind = "binary" /\ g.op # "Until" /\ v[g.left] /\ v[g.right]]
           height == [g \in P |-> g.height]
           a == [g \in P |-> FALSE]
           F == [v \in [P -> BOOLEAN] |-> [g \in P |-> compiled(g, v)]]
<1>1. Compiles(ids, f) = compiles[f]
  BY DEF Compiles
<1> HIDE DEF P
<1>2. height \in [P -> Nat] /\ a \in [P -> BOOLEAN]
  BY DEF StateFormulas, P
<1>3. F \in [[P -> BOOLEAN] -> [P -> BOOLEAN]]
  OBVIOUS
<1>4. ASSUME NEW v \in [P -> BOOLEAN], NEW w \in [P -> BOOLEAN], NEW g \in P,
             \A o \in P : height[o] < height[g] => v[o] = w[o]
      PROVE  F[v][g] = F[w][g]
  <2>1. g.kind = "unary" => v[g.operand] = w[g.operand]
    BY <1>4 DEF StateFormulas, P
  <2>2. g.kind = "binary" => v[g.left] = w[g.left] /\ v[g.right] = w[g.right]
    BY <1>4 DEF StateFormulas, P
  <2>3. compiled(g, v) = compiled(g, w)
    BY <2>1, <2>2
  <2> HIDE DEF compiled
  <2> QED BY <2>3
<1>5. IsLocal(F, P, height, BOOLEAN)
  <2> HIDE DEF F, height
  <2> QED BY <1>3, <1>4 DEF IsLocal
<1>6. PICK v \in [P -> BOOLEAN] : F[v] = v
  <2> HIDE DEF F, height, a
  <2>1. PICK B : B = BOOLEAN
    OBVIOUS
  <2>2. height \in [P -> Nat] /\ a \in [P -> B] /\ IsLocal(F, P, height, B)
    BY <1>2, <1>5, <2>1
  <2>3. \E v \in [P -> B] : IsFixedPoint(F, v)
    BY <2>2, FixedPointExists, Zenon
  <2> QED BY <2>1, <2>3 DEF IsFixedPoint
<1>7. v = [g \in P |-> compiled(g, v)]
  <2> HIDE DEF compiled
  <2> QED BY <1>6
<1>8. compiles = [g \in P |-> compiled(g, compiles)]
  BY <1>7
<1> HIDE DEF compiles
<1>9. IsCompiled(compiles, P, ids)
  <2>1. compiles \in [P -> BOOLEAN]
    BY <1>8
  <2>2. \A g \in P : compiles[g] = compiled(g, compiles)
    <3> HIDE DEF compiled
    <3> QED BY <1>8
  <2> QED BY <2>1, <2>2 DEF IsCompiled
<1> QED BY <1>1, <1>9 DEF P

\* What is looked up on a label, or composed of what is, is what the formula
\* means in the state that the label was calculated for.
THEOREM LabelsMeanWhatFormulasMean ==
  ASSUME NEW U, StateFormulas(U), Unambiguous(U), NEW formulas \in Seq(U),
         NEW valuation, Valued(U, valuation), NEW f \in U,
         Compiles(IdentifiersOf(formulas), f)
  PROVE  EvaluateOnLabel(IdentifiersOf(formulas), f, LabelOf(formulas, valuation))
           = Means(f, valuation)
PROOF
<1> DEFINE P == Parts(f)
           ids == IdentifiersOf(formulas)
           label == LabelOf(formulas, valuation)
           value == CHOOSE w : w = [g \in P |->
             IF Found(ids, g) THEN label[FirstFound(ids, g)]
             ELSE IF g.kind = "unary" THEN ~w[g.operand]
             ELSE g.kind = "binary" /\ Combined(g.op, w[g.left], w[g.right])]
           known == [g \in P |-> Found(ids, g)]
           atom == [g \in P |-> Found(ids, g) /\ label[FirstFound(ids, g)]]
<1>1. IsClosed(P, U, f) /\ P \in SUBSET U /\ f \in P
  BY PartsAreClosed DEF IsClosed
<1>2. StateFormulas(P)
  BY <1>1, ClosedIsStateFormulas
<1>3. PICK M : IsMeaning(M, U, valuation)
  BY MeaningExists
<1>4. PICK C : IsCompiled(C, P, ids) /\ Compiles(ids, f) = C[f]
  BY <1>2, CompilesIs
<1>5. EvaluateOnLabel(ids, f, label) = value[f]
  BY DEF EvaluateOnLabel
<1>6. ASSUME NEW g \in P, Found(ids, g)
      PROVE  label[FirstFound(ids, g)] = M[g] /\ M[g] \in BOOLEAN
  <2>1. g \in U
    BY <1>1
  <2>2. /\ FirstFound(ids, g) \in 1..Len(formulas)
        /\ formulas[FirstFound(ids, g)] = g
    BY <1>6, <2>1, FoundIs
  <2>3. label[FirstFound(ids, g)] = EvaluateOnState(g, valuation)
    BY <2>2 DEF LabelOf
  <2>4. EvaluateOnState(g, valuation) = M[g]
    BY <1>3, <2>1, EvaluateOnStateIs
  <2> QED BY <1>3, <2>1, <2>3, <2>4 DEF IsMeaning
<1> HIDE DEF P, ids, label
<1>7. known \in [P -> BOOLEAN] /\ atom \in [P -> BOOLEAN]
  <2>1. \A g \in P : Found(ids, g) \in BOOLEAN
    BY DEF Found
  <2>2. \A g \in P : Found(ids, g) => label[FirstFound(ids, g)] \in BOOLEAN
    BY <1>6
  <2> QED BY <2>1, <2>2
<1>8. PICK v : IsAnswer(v, P, known, atom)
  <2> HIDE DEF known, atom
  <2> QED BY <1>2, <1>7, AnswerExists
<1>9. v = [g \in P |->
             IF Found(ids, g) THEN label[FirstFound(ids, g)]
             ELSE IF g.kind = "unary" THEN ~v[g.operand]
             ELSE g.kind = "binary" /\ Combined(g.op, v[g.left], v[g.right])]
  <2>1. v \in [P -> BOOLEAN] /\ \A g \in P : v[g] = Answered(g, known, atom, v)
    <3> HIDE DEF known, atom
    <3> QED BY <1>8 DEF IsAnswer
  <2>2. ASSUME NEW g \in P
        PROVE  v[g] = IF Found(ids, g) THEN label[FirstFound(ids, g)]
                      ELSE IF g.kind = "unary" THEN ~v[g.operand]
                      ELSE g.kind = "binary" /\ Combined(g.op, v[g.left], v[g.right])
    <3>1. known[g] = Found(ids, g)
      OBVIOUS
    <3>2. Found(ids, g) => atom[g] = label[FirstFound(ids, g)]
      BY <1>6
    <3> HIDE DEF known, atom
    <3> QED BY <2>1, <3>1, <3>2 DEF Answered
  <2> HIDE DEF known, atom
  <2> QED BY <2>1, <2>2
<1>10. value = [g \in P |->
             IF Found(ids, g) THEN label[FirstFound(ids, g)]
             ELSE IF g.kind = "unary" THEN ~value[g.operand]
             ELSE g.kind = "binary" /\ Combined(g.op, value[g.left], value[g.right])]
  <2> HIDE DEF known, atom
  <2> QED BY <1>9
<1> HIDE DEF value, known, atom
\* What does not compile is not asked for.
<1> DEFINE asked == [g \in P |-> IF C[g] THEN value[g] ELSE M[g]]
<1>11. AgreeFrom(asked, M, P)
  <2> SUFFICES ASSUME NEW g \in P, \A o \in Operands(g) : asked[o] = M[o], C[g]
               PROVE  value[g] = M[g]
    BY DEF AgreeFrom
  <2>1. g \in U
    BY <1>1
  <2>2. value[g] = IF Found(ids, g) THEN label[FirstFound(ids, g)]
                   ELSE IF g.kind = "unary" THEN ~value[g.operand]
                   ELSE g.kind = "binary" /\ Combined(g.op, value[g.left], value[g.right])
    BY <1>10
  <2>3. CASE Found(ids, g)
    BY <1>6, <2>2, <2>3
  <2>4. CASE ~Found(ids, g)
    <3>1. \/ g.kind = "unary" /\ C[g.operand]
          \/ g.kind = "binary" /\ C[g.left] /\ C[g.right]
      BY <1>4, <2>4 DEF IsCompiled
    <3>2. CASE g.kind = "unary" /\ C[g.operand]
      <4>1. g.operand \in P /\ g.operand \in Operands(g)
        BY <1>1, <2>1, <3>2, OperandsAre DEF IsClosed
      <4>2. asked[g.operand] = value[g.operand]
        BY <3>2, <4>1
      <4>3. value[g.operand] = M[g.operand]
        BY <4>1, <4>2
      <4>4. M[g] = ~M[g.operand]
        BY <1>3, <2>1, <3>2 DEF IsMeaning
      <4> QED BY <2>2, <2>4, <3>2, <4>3, <4>4
    <3>3. CASE g.kind = "binary" /\ C[g.left] /\ C[g.right]
      <4>1. /\ g.left \in P /\ g.left \in Operands(g)
            /\ g.right \in P /\ g.right \in Operands(g)
        BY <1>1, <2>1, <3>3, OperandsAre DEF IsClosed
      <4>2. asked[g.left] = value[g.left] /\ asked[g.right] = value[g.right]
        BY <3>3, <4>1
      <4>3. value[g.left] = M[g.left] /\ value[g.right] = M[g.right]
        BY <4>1, <4>2
      <4>4. M[g] = Combined(g.op, M[g.left], M[g.right]) /\ M[g] \in BOOLEAN
        BY <1>3, <2>1, <3>3 DEF IsMeaning
      <4>5. value[g] = (g.kind = "binary" /\ Combined(g.op, M[g.left], M[g.right]))
        BY <2>2, <2>4, <3>3, <4>3
      <4> QED BY <3>3, <4>4, <4>5
    <3> QED BY <3>1, <3>2, <3>3
  <2> QED BY <2>3, <2>4
<1>12. asked[f] = M[f]
  <2> HIDE DEF asked
  <2> QED BY <1>1, <1>11, Agree
<1>13. value[f] = M[f]
  <2>1. C[f]
    BY <1>4 DEF ids
  <2> QED BY <1>1, <1>12, <2>1
<1>14. Means(f, valuation) = M[f]
  BY <1>3, MeansIs
<1> QED BY <1>5, <1>13, <1>14 DEF ids, label

-----------------------------------------------------------------------------
(***************************************************************************)
(* The inductive invariant of the checker: it runs on a finished chain; in *)
(* each round what was precalculated is still there, and the vector is     *)
(* exact.                                                                  *)
(***************************************************************************)
RoundInv ==
  /\ checking = "idle" => i = 0
  /\ checking # "idle" => stateCount > 0 /\ formula \in Formulas
  /\ checking \in {"precalculate", "iterate"} =>
       /\ Bound \in Nat /\ Bound <= MaxBound
       /\ i \in Nat /\ i <= Bound
  /\ checking = "precalculate" => i = 0
  /\ checking = "iterate" =>
       /\ Compiles(labelIdentifier, Psi)
       /\ precalculations = [t \in DOMAIN transitions |-> Precalculated(t)]

CheckerInv == RoundInv /\ IterationIsExact /\ ResultIsProbability

LEMMA CheckerBuilds == CheckerSpec => [](IndInv /\ BuiltInv)
PROOF
<1>1. CheckerInit => Init
  BY DEF CheckerInit
<1>2. [CheckerNext]_allVars => [Next]_vars
  BY DEF CheckerNext, allVars, Check, CalculateProbability, Precalculate, Iterate, Finish
<1> QED BY <1>1, <1>2, LmcBuilt, PTL DEF CheckerSpec, Spec

\* Nothing is built any more when the checker runs.
LEMMA FinishedIsFinal ==
  ASSUME IndInv, stateCount > 0, Next
  PROVE  FALSE
PROOF
<1>1. stateCount # 0 /\ \A t \in Threads : pc[t] = "idle"
  BY DEF IndInv, TypeInv, ShapeInv
<1>2. ~Building
  <2>1. ASSUME NEW t \in Threads, Worker(t) PROVE FALSE
    BY <1>1, <2>1 DEF Worker, Place, Record, Write, Return
  <2> QED BY <1>1, <2>1 DEF Building, CreateStutteringState
<1>3. ~FinishCreation
  BY <1>1 DEF FinishCreation
<1> QED BY <1>2, <1>3 DEF Next

LEMMA BoundIs ==
  ASSUME NEW f \in Formulas, PhiUntilPsi(f).bound # NoBound
  PROVE  PhiUntilPsi(f).bound \in Nat /\ PhiUntilPsi(f).bound <= MaxBound
PROOF
<1>1. PhiUntilPsi(f).bound \in NoBound..MaxBound /\ MaxBound \in Nat
  BY CheckerAssumption
<1> QED BY <1>1 DEF NoBound

\* A formula without a phi, but with a bound, is "finally psi within the bound".
LEMMA BoundedFinally ==
  ASSUME NEW f \in Formulas, PhiUntilPsi(f).phi = NoFormula, PhiUntilPsi(f).bound # NoBound
  PROVE  IsFinally(f) /\ f.operand = PhiUntilPsi(f).psi /\ f.bound = PhiUntilPsi(f).bound
PROOF
<1>1. f.kind = "boundedBinary" => f.left # NoFormula
  BY CheckerAssumption
<1>2. f.kind = "boundedUnary" /\ f.op = "Finally"
  BY <1>1 DEF PhiUntilPsi, NoMatch
<1>3. f.operand = PhiUntilPsi(f).psi /\ f.bound = PhiUntilPsi(f).bound
  BY <1>2 DEF PhiUntilPsi
<1> QED BY <1>2, <1>3, BoundIs DEF IsFinally

\* The places of a finished chain are what the array has a block for.
LEMMA FinishedPlaces ==
  ASSUME IndInv, BuiltInv, stateCount > 0, IsDistributed(chain),
         NEW s \in {NoSource} \cup States
  PROVE  /\ s \in Places(chain)
         /\ range[s].elements = Len(GivenOrLoop(chain, s))
         /\ \A k \in 1..Len(GivenOrLoop(chain, s)) :
              /\ range[s].from + k - 1 \in DOMAIN transitions
              /\ transitions[range[s].from + k - 1] = Entry(GivenOrLoop(chain, s)[k])
              /\ GivenOrLoop(chain, s)[k].targetStateIndex \in States
PROOF
<1>1. /\ s \in DOMAIN range
      /\ (DOMAIN chain.from \cup {chain.stuttering}) \ {NoSource} = States
      /\ NoSource \in DOMAIN chain.from
  BY FinishedFacts DEF States
<1>2. CASE s \in DOMAIN chain.from
  <2>1. /\ range[s].elements = Len(Given(s))
        /\ \A k \in 1..Len(Given(s)) :
             /\ range[s].from + k - 1 \in DOMAIN transitions
             /\ transitions[range[s].from + k - 1] = Entry(Given(s)[k])
    BY <1>2, FinishedFacts
  <2>2. GivenOrLoop(chain, s) = Given(s)
    BY <1>2 DEF GivenOrLoop, Given
  <2>3. s \in Places(chain)
    BY <1>2 DEF Places
  <2>4. \A k \in 1..Len(Given(s)) : Given(s)[k].targetStateIndex \in States
    BY <1>1, <1>2 DEF IsDistributed, Given
  <2> QED BY <2>1, <2>2, <2>3, <2>4
<1>3. CASE s \notin DOMAIN chain.from
  <2> DEFINE tr == [probability |-> One, label |-> chain.noLabels, targetStateIndex |-> s,
                    valuation |-> chain.noValuation]
  <2>1. /\ s = chain.stuttering /\ range[s].from \in Nat /\ range[s].elements = 1
        /\ transitions[range[s].from] = Loop(chain)
    BY <1>1, <1>3, FinishedFacts
  <2>2. s \in States /\ s # NoStuttering
    BY <1>1, <1>3, <2>1 DEF States, NoStuttering
  <2>3. GivenOrLoop(chain, s) = <<tr>>
    BY <1>3 DEF GivenOrLoop
  <2>4. Len(<<tr>>) = 1 /\ <<tr>>[1] = tr
    OBVIOUS
  <2>5. Entry(tr) = Loop(chain) /\ tr.targetStateIndex = s
    BY <2>1 DEF Entry, Loop
  <2> HIDE DEF tr
  <2>6. range[s].from \in DOMAIN transitions
    <3>1. range[s].from + range[s].elements <= transitionCount /\ transitionCount \in Nat
          /\ DOMAIN transitions = 0..transitionCount - 1
      BY <1>1 DEF IndInv, SpaceInv, ShapeInv, TypeInv
    <3> QED BY <2>1, <3>1
  <2>7. s \in Places(chain)
    BY <2>1, <2>2 DEF Places
  <2>8. /\ range[s].elements = Len(GivenOrLoop(chain, s))
        /\ Len(GivenOrLoop(chain, s)) = 1 /\ GivenOrLoop(chain, s)[1] = tr
    BY <2>1, <2>3, <2>4
  <2>9. range[s].from + 1 - 1 = range[s].from
    BY <2>1
  <2>10. ASSUME NEW k \in 1..Len(GivenOrLoop(chain, s))
         PROVE  /\ range[s].from + k - 1 \in DOMAIN transitions
                /\ transitions[range[s].from + k - 1] = Entry(GivenOrLoop(chain, s)[k])
                /\ GivenOrLoop(chain, s)[k].targetStateIndex \in States
    <3>1. k = 1
      BY <2>8
    <3> QED BY <2>1, <2>2, <2>5, <2>6, <2>8, <2>9, <3>1
  <2> QED BY <2>7, <2>8, <2>10
<1> QED BY <1>2, <1>3

\* The share of an entry is the one of the transition that it was made from.
LEMMA ShareIs ==
  ASSUME NEW c, NEW f, NEW n, NEW tr, NEW t \in DOMAIN transitions,
         transitions[t] = Entry(tr), precalculations[t] = Precalculated(t),
         Phi = NoFormula, Psi = f.operand,
         EvaluateOnLabel(labelIdentifier, f.operand, tr.label)
           = Means(f.operand, tr.valuation),
         xold[tr.targetStateIndex] = ProbabilityOf(c, f, tr.targetStateIndex, n)
  PROVE  Share(t, xold) = NextShare(c, f, tr, n)
PROOF
<1>1. /\ transitions[t].probability = tr.probability /\ transitions[t].label = tr.label
      /\ transitions[t].state = tr.targetStateIndex
  BY DEF Entry
<1>2. precalculations[t] = IF Means(f.operand, tr.valuation) THEN "Satisfied" ELSE "Nothing"
  BY <1>1 DEF Precalculated, PhiHolds, PsiHolds
<1>3. CASE Means(f.operand, tr.valuation)
  <2>1. precalculations[t] = "Satisfied"
    BY <1>2, <1>3
  <2>2. Share(t, xold) = tr.probability
    BY <1>1, <2>1 DEF Share
  <2> QED BY <1>3, <2>2 DEF NextShare
<1>4. CASE ~Means(f.operand, tr.valuation)
  <2>1. precalculations[t] = "Nothing"
    BY <1>2, <1>4
  <2>2. Share(t, xold) = Times(tr.probability, xold[tr.targetStateIndex])
    BY <1>1, <2>1 DEF Share
  <2> QED BY <1>4, <2>2 DEF NextShare
<1> QED BY <1>3, <1>4

LEMMA WeightedSumIs ==
  ASSUME IndInv, BuiltInv, RoundInv, IterationIsExact, checking = "iterate", Phi = NoFormula,
         IsDistributed(chain), LabelsSay(chain, formula),
         NEW s \in {NoSource} \cup States
  PROVE  WeightedSum(s, xold) = ProbabilityOf(chain, formula, s, i + 1)
PROOF
<1>1. /\ stateCount > 0 /\ formula \in Formulas /\ chain \in Chains
      /\ i \in Nat /\ i <= Bound /\ i <= MaxBound /\ Bound \in Nat
      /\ Compiles(labelIdentifier, Psi)
      /\ \A t \in DOMAIN transitions : precalculations[t] = Precalculated(t)
  BY PowerIs DEF RoundInv, IndInv, TypeInv
<1>2. Bound # NoBound
  BY <1>1 DEF NoBound
<1>3. IsFinally(formula) /\ formula.operand = Psi /\ formula.bound = Bound
  BY <1>1, <1>2, BoundedFinally DEF Phi, Psi, Bound
<1>4. Within(i, formula)
  BY <1>1, <1>3 DEF Within
<1> DEFINE first == GivenOrLoop(chain, s)
<1>5. /\ s \in Places(chain) /\ range[s].elements = Len(first)
      /\ \A k \in 1..Len(first) :
           /\ range[s].from + k - 1 \in DOMAIN transitions
           /\ transitions[range[s].from + k - 1] = Entry(first[k])
           /\ first[k].targetStateIndex \in States
  BY <1>1, FinishedPlaces
<1>6. ASSUME NEW k \in 1..Len(first)
      PROVE  EvaluateOnLabel(labelIdentifier, Psi, first[k].label)
               = Means(Psi, first[k].valuation)
  <2>1. first[k] \in Range(first)
    <3>1. first \in Seq(Steps(chain))
      BY <1>1, <1>5, PlaceFacts
    <3> HIDE DEF first
    <3>2. DOMAIN first = 1..Len(first)
      BY <3>1
    <3> QED BY <3>2 DEF Range
  <2> HIDE DEF first
  <2> QED BY <1>1, <1>2, <1>5, <2>1 DEF LabelsSay, labelIdentifier, Phi, Psi, Bound, first
<1>7. ASSUME NEW k \in 1..Len(first)
      PROVE  Share(range[s].from + k - 1, xold) = NextShare(chain, formula, first[k], i)
  <2>1. xold[first[k].targetStateIndex]
          = ProbabilityOf(chain, formula, first[k].targetStateIndex, i)
    BY <1>5 DEF IterationIsExact
  <2> HIDE DEF first
  <2>2. PICK t \in DOMAIN transitions :
          t = range[s].from + k - 1 /\ transitions[t] = Entry(first[k])
    BY <1>5
  <2>3. precalculations[t] = Precalculated(t)
    BY <1>1
  <2> QED BY <1>3, <1>6, <2>1, <2>2, <2>3, ShareIs
<1>8. WeightedSum(s, xold) = SumOf([k \in 1..Len(first) |-> NextShare(chain, formula, first[k], i)])
  <2> HIDE DEF first
  <2>1. [k \in 1..Len(first) |-> Share(range[s].from + k - 1, xold)]
          = [k \in 1..Len(first) |-> NextShare(chain, formula, first[k], i)]
    BY <1>7
  <2> QED BY <1>5, <2>1 DEF WeightedSum
<1> QED BY <1>1, <1>3, <1>4, <1>5, <1>8, RoundIsExact

-----------------------------------------------------------------------------
\* The operators of the invariant, when nothing that they read changes.
LEMMA RoundUnchanged ==
  ASSUME RoundInv, UNCHANGED <<chain, transitions, stateCount>>, UNCHANGED checker
  PROVE  RoundInv'
PROOF
<1>1. /\ UNCHANGED <<chain, transitions, stateCount>>
      /\ UNCHANGED <<formula, checking, precalculations, xold, xnew, i, result>>
  BY DEF checker
<1> QED
  BY <1>1 DEF RoundInv, Precalculated, PsiHolds, PhiHolds, labelIdentifier, Phi, Psi, Bound

LEMMA InitCheckerInv == CheckerInit => CheckerInv
PROOF
<1> QED
  BY DEF CheckerInit, CheckerIdle, CheckerInv, RoundInv, IterationIsExact, ResultIsProbability

LEMMA BuildingKeepsChecker ==
  ASSUME IndInv, CheckerInv, Next \/ UNCHANGED vars, UNCHANGED checker
  PROVE  CheckerInv'
PROOF
<1>1. UNCHANGED <<formula, checking, precalculations, xold, xnew, i, result>>
  BY DEF checker
<1>2. CASE checking = "idle"
  BY <1>1, <1>2 DEF CheckerInv, RoundInv, IterationIsExact, ResultIsProbability
<1>3. CASE checking # "idle"
  <2>1. stateCount > 0
    BY <1>3 DEF CheckerInv, RoundInv
  <2>2. UNCHANGED <<chain, transitions, stateCount>>
    BY <2>1, FinishedIsFinal DEF vars, lmc
  <2>3. RoundInv'
    BY <2>2, RoundUnchanged DEF CheckerInv
  <2>4. IterationIsExact'
    BY <1>1, <2>2 DEF CheckerInv, IterationIsExact, States, Phi
  <2>5. ResultIsProbability'
    BY <1>1, <2>2 DEF CheckerInv, ResultIsProbability, Phi, Bound
  <2> QED BY <2>3, <2>4, <2>5 DEF CheckerInv
<1> QED BY <1>2, <1>3

LEMMA CalculateProbabilityKeeps ==
  ASSUME CheckerInv, NEW f \in Formulas, CalculateProbability(f)
  PROVE  CheckerInv'
PROOF
<1>1. /\ stateCount > 0 /\ stateCount' = stateCount /\ i = 0 /\ i' = 0
      /\ formula' = f /\ checking' \in {"checked", "thrown", "precalculate"}
      /\ checking' = "checked" => result' = Error
  BY DEF CheckerInv, RoundInv, CalculateProbability, vars, lmc
<1>2. checking' = "precalculate" => PhiUntilPsi(f).bound # NoBound
  BY DEF CalculateProbability
<1>3. Bound' = PhiUntilPsi(f).bound
  BY <1>1 DEF Bound
<1>4. checking' = "precalculate" => Bound' \in Nat /\ Bound' <= MaxBound /\ i' <= Bound'
  BY <1>1, <1>2, <1>3, BoundIs
<1>5. RoundInv'
  BY <1>1, <1>4 DEF RoundInv
<1>6. IterationIsExact' /\ ResultIsProbability'
  BY <1>1 DEF IterationIsExact, ResultIsProbability
<1> QED BY <1>5, <1>6 DEF CheckerInv

LEMMA PrecalculateKeeps ==
  ASSUME IndInv, BuiltInv, CheckerInv, Precalculate, IsDistributed(chain)
  PROVE  CheckerInv'
PROOF
<1>1. /\ stateCount > 0 /\ formula \in Formulas /\ chain \in Chains
      /\ Bound \in Nat /\ Bound <= MaxBound /\ i = 0 /\ i <= Bound
  BY DEF CheckerInv, RoundInv, Precalculate, IndInv, TypeInv
<1>2. /\ UNCHANGED <<chain, transitions, stateCount, formula, i>>
      /\ checking' \in {"thrown", "iterate"}
      /\ checking' = "iterate" =>
           /\ Compiles(labelIdentifier, Psi)
           /\ precalculations' = [t \in DOMAIN transitions |-> Precalculated(t)]
           /\ xold' = [s \in States |-> 0]
  BY DEF Precalculate, vars, lmc
<1>3. RoundInv'
  <2>1. Bound' = Bound /\ Psi' = Psi /\ labelIdentifier' = labelIdentifier
    BY <1>2 DEF Bound, Psi, labelIdentifier
  <2>2. [t \in DOMAIN transitions |-> Precalculated(t)]'
          = [t \in DOMAIN transitions |-> Precalculated(t)]
    BY <1>2 DEF Precalculated, PsiHolds, PhiHolds, Phi, Psi, labelIdentifier
  <2> QED BY <1>1, <1>2, <2>1, <2>2 DEF RoundInv
<1>4. IterationIsExact'
  <2> SUFFICES ASSUME checking' = "iterate", Phi = NoFormula, NEW s \in States
               PROVE  xold'[s] = ProbabilityOf(chain, formula, s, 0)
    BY <1>1, <1>2 DEF IterationIsExact, Phi, States
  <2>1. xold'[s] = 0
    BY <1>2
  <2>2. IsFinally(formula)
    <3>1. Bound # NoBound
      BY <1>1 DEF NoBound
    <3> QED BY <1>1, <3>1, BoundedFinally DEF Phi, Bound
  <2>3. s \in Places(chain)
    BY <1>1, FinishedPlaces
  <2>4. FulfillingWeight(chain, formula, s, 0) = 0
    BY <1>1, <2>2, <2>3, NothingWithinNone
  <2>5. ProbabilityOf(chain, formula, s, 0) = 0 * Power(MaxBound + 1 - 0)
    BY <1>1, <2>3, <2>4, ProbabilityIs
  <2>6. Power(MaxBound + 1 - 0) \in Nat
    <3>1. MaxBound + 1 - 0 \in 0..MaxBound + 1
      BY PowerIs
    <3> QED BY <3>1, PowerIs
  <2> QED BY <2>1, <2>5, <2>6
<1>5. ResultIsProbability'
  BY <1>2 DEF ResultIsProbability
<1> QED BY <1>3, <1>4, <1>5 DEF CheckerInv

LEMMA IterateKeeps ==
  ASSUME IndInv, BuiltInv, CheckerInv, Iterate, IsDistributed(chain), LabelsSay(chain, formula)
  PROVE  CheckerInv'
PROOF
<1>1. /\ checking = "iterate" /\ i \in Nat /\ Bound \in Nat /\ i < Bound /\ RoundInv
      /\ IterationIsExact
  BY DEF CheckerInv, RoundInv, Iterate
<1>2. /\ UNCHANGED <<chain, transitions, stateCount, formula, checking, precalculations>>
      /\ i' = i + 1 /\ xold' = [s \in States |-> WeightedSum(s, xold)]
  BY DEF Iterate, vars, lmc
<1>3. RoundInv'
  <2>1. Bound' = Bound /\ Psi' = Psi /\ labelIdentifier' = labelIdentifier
    BY <1>2 DEF Bound, Psi, labelIdentifier
  <2>2. [t \in DOMAIN transitions |-> Precalculated(t)]'
          = [t \in DOMAIN transitions |-> Precalculated(t)]
    BY <1>2 DEF Precalculated, PsiHolds, PhiHolds, Phi, Psi, labelIdentifier
  <2>3. i' \in Nat /\ i' <= Bound'
    BY <1>1, <1>2, <2>1
  <2> QED BY <1>1, <1>2, <2>1, <2>2, <2>3 DEF RoundInv
<1>4. IterationIsExact'
  <2> SUFFICES ASSUME Phi = NoFormula, NEW s \in States
               PROVE  xold'[s] = ProbabilityOf(chain, formula, s, i + 1)
    BY <1>2 DEF IterationIsExact, Phi, States
  <2>1. WeightedSum(s, xold) = ProbabilityOf(chain, formula, s, i + 1)
    BY <1>1, WeightedSumIs
  <2> QED BY <1>2, <2>1
<1>5. ResultIsProbability'
  BY <1>1, <1>2 DEF ResultIsProbability
<1> QED BY <1>3, <1>4, <1>5 DEF CheckerInv

LEMMA FinishKeeps ==
  ASSUME IndInv, BuiltInv, CheckerInv, Finish, IsDistributed(chain), LabelsSay(chain, formula)
  PROVE  CheckerInv'
PROOF
<1>1. /\ checking = "iterate" /\ i \in Nat /\ Bound \in Nat /\ i = Bound /\ RoundInv
      /\ IterationIsExact /\ stateCount > 0 /\ formula \in Formulas
  BY DEF CheckerInv, RoundInv, Finish
<1>2. /\ UNCHANGED <<chain, stateCount, formula, i>>
      /\ checking' = "checked" /\ result' = WeightedSum(NoSource, xold)
  BY DEF Finish, vars, lmc
<1>3. RoundInv'
  BY <1>1, <1>2 DEF RoundInv
<1>4. IterationIsExact'
  BY <1>2 DEF IterationIsExact
<1>5. ResultIsProbability'
  <2> SUFFICES ASSUME Phi = NoFormula
               PROVE  result' = ProbabilityOf(chain, formula, NoSource, Bound + 1)
    BY <1>2 DEF ResultIsProbability, Phi, Bound
  <2>1. WeightedSum(NoSource, xold) = ProbabilityOf(chain, formula, NoSource, i + 1)
    BY <1>1, WeightedSumIs
  <2> QED BY <1>1, <1>2, <2>1
<1> QED BY <1>3, <1>4, <1>5 DEF CheckerInv

\* When the sources have distributions and the labels say what the formulas
\* mean, the vector is exact in every round and so is the result.
THEOREM CheckerInductive ==
  ASSUME \A c \in Chains : IsDistributed(c),
         \A c \in Chains : \A f \in Formulas : LabelsSay(c, f)
  PROVE  CheckerSpec => []CheckerInv
PROOF
<1>1. CheckerInit => CheckerInv
  BY InitCheckerInv
<1>2. ASSUME IndInv, BuiltInv, CheckerInv, [CheckerNext]_allVars PROVE CheckerInv'
  <2>1. IsDistributed(chain)
    BY <1>2 DEF IndInv, TypeInv
  <2>2. checking = "iterate" => LabelsSay(chain, formula)
    BY <1>2 DEF IndInv, TypeInv, CheckerInv, RoundInv
  <2>3. CASE (Next \/ UNCHANGED vars) /\ UNCHANGED checker
    BY <1>2, <2>3, BuildingKeepsChecker
  <2>4. ASSUME NEW f \in Formulas, CalculateProbability(f) PROVE CheckerInv'
    BY <1>2, <2>4, CalculateProbabilityKeeps
  <2>5. CASE Precalculate
    BY <1>2, <2>1, <2>5, PrecalculateKeeps
  <2>6. CASE Iterate
    <3>1. checking = "iterate"
      BY <2>6 DEF Iterate
    <3> QED BY <1>2, <2>1, <2>2, <2>6, <3>1, IterateKeeps
  <2>7. CASE Finish
    <3>1. checking = "iterate"
      BY <2>7 DEF Finish
    <3> QED BY <1>2, <2>1, <2>2, <2>7, <3>1, FinishKeeps
  <2>8. CheckerNext \/ (UNCHANGED vars /\ UNCHANGED checker)
    BY <1>2 DEF allVars
  <2> QED BY <2>3, <2>4, <2>5, <2>6, <2>7, <2>8 DEF CheckerNext, Check
<1> QED BY <1>1, <1>2, CheckerBuilds, PTL DEF CheckerSpec

\* After every round the vector that the next one reads holds the probability
\* to satisfy psi within so many transitions of each state: neither where the
\* workers put the blocks nor which vector was swapped matters.
THEOREM IterationIsExactHolds ==
  ASSUME \A c \in Chains : IsDistributed(c),
         \A c \in Chains : \A f \in Formulas : LabelsSay(c, f)
  PROVE  CheckerSpec => []IterationIsExact
PROOF
<1>1. CheckerInv => IterationIsExact
  BY DEF CheckerInv
<1> QED BY <1>1, CheckerInductive, PTL

\* calculateProbability answers "finally psi within the bound" with the
\* probability of the paths on which psi holds in time.
THEOREM ResultIsProbabilityHolds ==
  ASSUME \A c \in Chains : IsDistributed(c),
         \A c \in Chains : \A f \in Formulas : LabelsSay(c, f)
  PROVE  CheckerSpec => []ResultIsProbability
PROOF
<1>1. CheckerInv => ResultIsProbability
  BY DEF CheckerInv
<1> QED BY <1>1, CheckerInductive, PTL

-----------------------------------------------------------------------------
\* Chains that were labelled from state formulas: there the labels say what the
\* formulas mean, so that nothing has to be assumed of them.

\* The label of each transition comes from the valuation of its target.
LEMMA LabelsAreCalculated ==
  ASSUME NEW U, NEW c \in Chains, LabelledWith(c, U), NEW s \in Places(c),
         NEW tr \in Range(GivenOrLoop(c, s))
  PROVE  tr.label = LabelOf(c.formulas, tr.valuation)
PROOF
<1>1. CASE s \in DOMAIN c.from
  <2>1. tr \in Range(c.from[s])
    BY <1>1 DEF GivenOrLoop
  <2> QED BY <1>1, <2>1, CheckerAssumption
<1>2. CASE s \notin DOMAIN c.from
  <2> DEFINE loop == [probability |-> One, label |-> c.noLabels, targetStateIndex |-> s,
                      valuation |-> c.noValuation]
  <2>1. GivenOrLoop(c, s) = <<loop>>
    BY <1>2 DEF GivenOrLoop
  <2>2. tr = loop
    BY <2>1 DEF Range
  <2>3. c.stuttering # NoStuttering
    BY <1>2 DEF Places
  <2> QED BY <2>2, <2>3 DEF LabelledWith
<1> QED BY <1>1, <1>2

LEMMA LabelsSayIs ==
  ASSUME NEW U, StateFormulas(U), Unambiguous(U), NEW c \in Chains, LabelledWith(c, U),
         NEW f \in Formulas, AsksFor(c, f, U)
  PROVE  LabelsSay(c, f)
PROOF
<1> DEFINE psi == PhiUntilPsi(f).psi
           ids == IdentifiersOf(c.formulas)
<1> SUFFICES ASSUME PhiUntilPsi(f).phi = NoFormula, PhiUntilPsi(f).bound # NoBound,
                    Compiles(ids, psi), NEW s \in Places(c), NEW tr \in Range(GivenOrLoop(c, s))
             PROVE  EvaluateOnLabel(ids, psi, tr.label) = Means(psi, tr.valuation)
  BY DEF LabelsSay
<1>1. psi \in U
  BY DEF AsksFor
<1>2. c.formulas \in Seq(U) /\ Valued(U, tr.valuation)
  BY DEF LabelledWith
<1>3. tr.label = LabelOf(c.formulas, tr.valuation)
  BY LabelsAreCalculated
<1> HIDE DEF psi
<1> QED BY <1>1, <1>2, <1>3, LabelsMeanWhatFormulasMean

\* From the evaluation on the states to the answer: when what may be asked for
\* is built from labelled state formulas, no two of one identifier and another
\* meaning, every answer is the probability of the paths of the model.
THEOREM AnswersForStateFormulas ==
  ASSUME \A c \in Chains : IsDistributed(c),
         NEW U, StateFormulas(U), Unambiguous(U),
         \A c \in Chains : LabelledWith(c, U),
         \A c \in Chains : \A f \in Formulas : AsksFor(c, f, U)
  PROVE  CheckerSpec => [](IterationIsExact /\ ResultIsProbability)
PROOF
<1>1. \A c \in Chains : \A f \in Formulas : LabelsSay(c, f)
  BY LabelsSayIs
<1>2. CheckerSpec => []IterationIsExact
  BY <1>1, IterationIsExactHolds
<1>3. CheckerSpec => []ResultIsProbability
  BY <1>1, ResultIsProbabilityHolds
<1> QED BY <1>2, <1>3, PTL
=============================================================================
