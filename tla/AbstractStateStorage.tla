------------------------ MODULE AbstractStateStorage ------------------------
(***************************************************************************)
(* What pemc::StateStorage promises to its callers, with no hash table, no *)
(* slots and no interleaving inside a call.  The storage is a sequence:    *)
(* the state at position n + 1 is the one whose state index is n.  An      *)
(* addState call takes effect at one instant between its call and its      *)
(* return: it appends a state that is not there and answers TRUE, or finds *)
(* it and answers FALSE, or refuses a state that is not there.             *)
(***************************************************************************)
EXTENDS Integers, Sequences

CONSTANTS
  Threads,      \* the threads that may call addState at the same time
  States,       \* the serialized states
  Reserved,     \* what an index reserved by reserveStateIndex stands for
  MaxReserved   \* how many indexes a client reserves at most

VARIABLES
  contents,     \* the sequence of what is stored, by state index
  request       \* the call of each thread: none, pending or answered

vars == <<contents, request>>

NoRequest         == [status |-> "idle"]
Pending(s)        == [status |-> "pending", state |-> s]
Answered(s, b, n) == [status |-> "answered", state |-> s, isNew |-> b, index |-> n]
Refused(s)        == [status |-> "refused", state |-> s]

Stored == {contents[n] : n \in 1..Len(contents)}

Quiet == \A t \in Threads : request[t] = NoRequest

Init ==
  /\ contents = <<>>
  /\ request = [t \in Threads |-> NoRequest]

Call(t, s) ==
  /\ request[t] = NoRequest
  /\ request' = [request EXCEPT ![t] = Pending(s)]
  /\ UNCHANGED contents

Append1(t) ==
  \E s \in States \ Stored :
    /\ request[t] = Pending(s)
    /\ contents' = Append(contents, s)
    /\ request' = [request EXCEPT ![t] = Answered(s, TRUE, Len(contents))]

Find(t) ==
  \E n \in 1..Len(contents) :
    /\ contents[n] \in States
    /\ request[t] = Pending(contents[n])
    /\ request' = [request EXCEPT ![t] = Answered(contents[n], FALSE, n - 1)]
    /\ UNCHANGED contents

Refuse(t) ==
  \E s \in States \ Stored :
    /\ request[t] = Pending(s)
    /\ request' = [request EXCEPT ![t] = Refused(s)]
    /\ UNCHANGED contents

Return(t) ==
  /\ request[t].status \in {"answered", "refused"}
  /\ request' = [request EXCEPT ![t] = NoRequest]
  /\ UNCHANGED contents

\* A client reserves its indexes before the first state is added.
Reserve ==
  /\ Quiet
  /\ Len(contents) < MaxReserved
  /\ Stored \subseteq {Reserved}
  /\ contents' = Append(contents, Reserved)
  /\ UNCHANGED request

Clear ==
  /\ Quiet
  /\ contents' = <<>>
  /\ UNCHANGED request

Next ==
  \/ Reserve
  \/ Clear
  \/ \E t \in Threads :
       \/ \E s \in States : Call(t, s)
       \/ Append1(t)
       \/ Find(t)
       \/ Refuse(t)
       \/ Return(t)

Spec == Init /\ [][Next]_vars
=============================================================================
