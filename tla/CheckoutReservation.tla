------------------------- MODULE CheckoutReservation -------------------------
(***************************************************************************)
(* What the delegate promises about checkouts, without saying how: a job   *)
(* takes a checkout only while no other job holds one that overlaps it,    *)
(* writes to it with one provider process at a time, and gives it up only  *)
(* when none is running.  DelegateJob is shown to implement this.          *)
(***************************************************************************)
CONSTANTS
  Job,       \* who may hold a checkout
  Key,       \* what a checkout is known by
  NoKey,     \* what a job holds that holds no checkout
  Conflict,  \* the pairs of keys of overlapping checkouts
  Process    \* the provider processes a job may ever run

\* What the theorems need of the keys; DelegateJob's own assumptions give it.
KeysOverlapSymmetrically ==
  /\ NoKey \notin Key
  /\ Conflict \subseteq Key \X Key
  /\ \A k \in Key : <<k, k>> \in Conflict
  /\ \A k, l \in Key : <<k, l>> \in Conflict => <<l, k>> \in Conflict

VARIABLES
  held,    \* held[j]: the key job j holds
  writing  \* the pairs <<j, p>> of jobs and their running provider processes

vars == <<held, writing>>

Init ==
  /\ held = [j \in Job |-> NoKey]
  /\ writing = {}

\* start, or a revise of a job that had been accepted or stopped.
Acquire(j, key) ==
  /\ held[j] = NoKey
  /\ \A other \in Job : held[other] # NoKey => <<key, held[other]>> \notin Conflict
  /\ held' = [held EXCEPT ![j] = key]
  /\ UNCHANGED writing

\* accept, or a stop that found everything gone.
Release(j) ==
  /\ held[j] # NoKey
  /\ \A pair \in writing : pair[1] # j
  /\ held' = [held EXCEPT ![j] = NoKey]
  /\ UNCHANGED writing

\* A worker spawns the provider of its round.
BeginWriting(j, p) ==
  /\ held[j] # NoKey
  /\ \A pair \in writing : pair[1] # j
  /\ writing' = writing \cup {<<j, p>>}
  /\ UNCHANGED held

\* The provider exits or is killed.
EndWriting(j, p) ==
  /\ <<j, p>> \in writing
  /\ writing' = writing \ {<<j, p>>}
  /\ UNCHANGED held

Next ==
  \/ \E j \in Job, key \in Key : Acquire(j, key)
  \/ \E j \in Job : Release(j)
  \/ \E j \in Job, p \in Process : BeginWriting(j, p) \/ EndWriting(j, p)

Spec == Init /\ [][Next]_vars

-----------------------------------------------------------------------------
\* Every variable has its type.
CheckoutTypeOK ==
  /\ held \in [Job -> Key \cup {NoKey}]
  /\ writing \subseteq Job \X Process

\* Two jobs never hold overlapping checkouts.
HeldApart ==
  \A j, k \in Job :
    j # k /\ held[j] # NoKey /\ held[k] # NoKey => <<held[j], held[k]>> \notin Conflict

\* Writing is covered by a reservation, one process at a time.
WritersHold ==
  /\ \A pair \in writing : held[pair[1]] # NoKey
  /\ \A p, q \in writing : p[1] = q[1] => p = q

\* The reason the reservation exists: whoever writes holds a checkout, and two
\* provider processes never write to overlapping checkouts at the same time
\* (find_conflict when it is taken, live_blockers when it is given up).
OneWriterPerCheckout ==
  \A p, q \in writing :
    held[p[1]] # NoKey /\ (p # q => <<held[p[1]], held[q[1]]>> \notin Conflict)
=============================================================================
