----------------------------- MODULE Semaphore -----------------------------
(***************************************************************************)
(* What threads/synch.c promises of its semaphores, whatever the           *)
(* scheduler, the wait lists and the interrupts do: sema_down takes one    *)
(* unit and never goes below zero, a thread waits only for a semaphore it  *)
(* found empty, and a unit does not stay unused while a thread waits.      *)
(***************************************************************************)
EXTENDS Naturals

CONSTANTS Thread, Sema, NULL

VARIABLES
  value,    \* units left of each semaphore
  waiting   \* the semaphore a thread waits for, or NULL

vars == <<value, waiting>>

Init ==
  /\ value \in [Sema -> Nat]
  /\ waiting = [t \in Thread |-> NULL]

\* sema_down or sema_try_down takes a unit, at once or after a wait.
Take(t, s) ==
  /\ value[s] > 0
  /\ waiting[t] \in {NULL, s}
  /\ value' = [value EXCEPT ![s] = @ - 1]
  /\ waiting' = [waiting EXCEPT ![t] = NULL]

\* sema_down finds the semaphore empty.
Wait(t, s) ==
  /\ value[s] = 0
  /\ waiting[t] = NULL
  /\ waiting' = [waiting EXCEPT ![t] = s]
  /\ UNCHANGED value

Up(s) ==
  /\ value' = [value EXCEPT ![s] = @ + 1]
  /\ UNCHANGED waiting

Next == \E s \in Sema : Up(s) \/ \E t \in Thread : Take(t, s) \/ Wait(t, s)

\* A waiting thread gets a unit of s.
Grant(s) == \E t \in Thread : waiting[t] = s /\ Take(t, s)

SafeSpec == Init /\ [][Next]_vars
Spec == SafeSpec /\ \A s \in Sema : WF_vars(Grant(s))
=============================================================================
