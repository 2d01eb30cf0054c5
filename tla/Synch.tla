------------------------------- MODULE Synch -------------------------------
(***************************************************************************)
(* Locks and condition variables (threads/synch.c) on top of semaphores.   *)
(*                                                                         *)
(* A lock is a semaphore with value 1 and a holder; a condition variable   *)
(* is a list of semaphore_elems, one on the stack of each waiting thread.  *)
(* The semaphores are those of module Semaphore, which the scheduler of    *)
(* module Threads implements.  A thread may be preempted between any two   *)
(* statements outside sema_down and sema_up, so lock->holder is written in *)
(* a step of its own, before or after the semaphore changes.               *)
(***************************************************************************)
EXTENDS Lists

CONSTANTS
  Thread, Lock, Cond,
  LockOf,     \* the lock a condition variable is associated with
  NULL

ASSUME SynchAssumption ==
  /\ Thread \cap Lock = {}
  /\ NULL \notin Thread \cup Lock \cup Cond
  /\ LockOf \in [Cond -> Lock]

VARIABLES
  value,    \* of the semaphore of each lock, and of the semaphore_elem on
            \* the stack of each thread
  waiting,  \* the semaphore a thread waits for
  holder,   \* lock->holder
  cond,     \* cond->waiters: the threads whose semaphore_elem is on the list
  pc,       \* where each thread is
  tgt,      \* the lock its call is about
  cv,       \* the condition variable its call is about
  held      \* the locks it has acquired and not yet released, by its own
            \* account: between the return of lock_acquire and lock_release

vars == <<value, waiting, holder, cond, pc, tgt, cv, held>>

Sem == INSTANCE Semaphore WITH Sema <- Lock \cup Thread

PC == {"run", "acquire", "acquired", "up", "cond_release",
       "cond_up", "cond_down", "broadcast"}

Goto(t, p) == pc' = [pc EXCEPT ![t] = p]
-----------------------------------------------------------------------------
lock_init ==
  /\ value = [s \in Lock \cup Thread |-> IF s \in Lock THEN 1 ELSE 0]
  /\ waiting = [t \in Thread |-> NULL]
  /\ holder = [l \in Lock |-> NULL]

cond_init == cond = [c \in Cond |-> <<>>]

Init ==
  /\ lock_init
  /\ cond_init
  /\ pc = [t \in Thread |-> "run"]
  /\ tgt = [t \in Thread |-> NULL]
  /\ cv = [t \in Thread |-> NULL]
  /\ held = [t \in Thread |-> {}]
-----------------------------------------------------------------------------
\* Mutation of sema_down: the value is not tested.
sema_down_untested(t, s, p) ==
  /\ value' = [value EXCEPT ![s] = @ - 1]
  /\ Goto(t, p)
  /\ UNCHANGED waiting

\* sema_down (s) as the caller sees it: it goes on at p once it has the unit.
sema_down(t, s, p) ==
  \/ Sem!Take(t, s) /\ Goto(t, p)
  \/ Sem!Wait(t, s) /\ UNCHANGED pc

\* lock_acquire: the assertion, then sema_down, then the holder.
lock_acquire(t, l) ==
  /\ pc[t] = "run"
  /\ l \notin held[t]
  /\ Goto(t, "acquire")
  /\ tgt' = [tgt EXCEPT ![t] = l]
  /\ UNCHANGED <<value, waiting, holder, cond, cv, held>>

AcquireDown(t) ==
  /\ pc[t] = "acquire"
  /\ sema_down(t, tgt[t], "acquired")
  /\ UNCHANGED <<holder, cond, tgt, cv, held>>

AcquireHolder(t) ==
  /\ pc[t] = "acquired"
  /\ holder' = [holder EXCEPT ![tgt[t]] = t]
  /\ held' = [held EXCEPT ![t] = @ \cup {tgt[t]}]
  /\ Goto(t, "run")
  /\ UNCHANGED <<value, waiting, cond, tgt, cv>>

\* Mutation of lock_try_acquire: the result of sema_try_down is ignored.
lock_try_acquire_anyway(t, l) ==
  /\ pc[t] = "run"
  /\ l \notin held[t]
  /\ IF value[l] > 0 THEN Sem!Take(t, l) ELSE UNCHANGED <<value, waiting>>
  /\ Goto(t, "acquired")
  /\ tgt' = [tgt EXCEPT ![t] = l]
  /\ UNCHANGED <<holder, cond, cv, held>>

\* lock_try_acquire: sema_try_down takes the unit or the call returns false.
lock_try_acquire(t, l) ==
  /\ pc[t] = "run"
  /\ l \notin held[t]
  /\ Sem!Take(t, l)
  /\ Goto(t, "acquired")
  /\ tgt' = [tgt EXCEPT ![t] = l]
  /\ UNCHANGED <<holder, cond, cv, held>>

\* Mutation of ReleaseHolder: the holder is not cleared.
ReleaseHolder_keeps(t, p) ==
  /\ held' = [held EXCEPT ![t] = @ \ {tgt'[t]}]
  /\ Goto(t, p)
  /\ UNCHANGED holder

\* lock_release: holder = NULL, then sema_up; cond_wait calls it as well.
ReleaseHolder(t, p) ==
  /\ holder' = [holder EXCEPT ![tgt'[t]] = NULL]
  /\ held' = [held EXCEPT ![t] = @ \ {tgt'[t]}]
  /\ Goto(t, p)

lock_release(t, l) ==
  /\ pc[t] = "run"
  /\ l \in held[t]
  /\ tgt' = [tgt EXCEPT ![t] = l]
  /\ ReleaseHolder(t, "up")
  /\ UNCHANGED <<value, waiting, cond, cv>>

ReleaseUp(t) ==
  /\ pc[t] = "up"
  /\ Sem!Up(tgt[t])
  /\ Goto(t, "run")
  /\ UNCHANGED <<holder, cond, tgt, cv, held>>
-----------------------------------------------------------------------------
\* cond_wait: put the waiter on the list, release the lock, wait for the
\* signal, acquire the lock again.
cond_wait(t, c) ==
  /\ pc[t] = "run"
  /\ LockOf[c] \in held[t]
  /\ value' = [value EXCEPT ![t] = 0]
  /\ cond' = [cond EXCEPT ![c] = Append(@, t)]
  /\ tgt' = [tgt EXCEPT ![t] = LockOf[c]]
  /\ cv' = [cv EXCEPT ![t] = c]
  /\ Goto(t, "cond_release")
  /\ UNCHANGED <<waiting, holder, held>>

CondRelease(t) ==
  /\ pc[t] = "cond_release"
  /\ UNCHANGED tgt
  /\ ReleaseHolder(t, "cond_up")
  /\ UNCHANGED <<value, waiting, cond, cv>>

CondUp(t) ==
  /\ pc[t] = "cond_up"
  /\ Sem!Up(tgt[t])
  /\ Goto(t, "cond_down")
  /\ UNCHANGED <<holder, cond, tgt, cv, held>>

CondDown(t) ==
  /\ pc[t] = "cond_down"
  /\ sema_down(t, t, "acquire")
  /\ UNCHANGED <<holder, cond, tgt, cv, held>>

\* Mutation of Signal: the waiter stays on the list.
Signal_without_pop(c) ==
  IF cond[c] = <<>>
  THEN UNCHANGED <<value, waiting, cond>>
  ELSE Sem!Up(Head(cond[c])) /\ UNCHANGED cond

\* Wake the first waiter of c, if any.
Signal(c) ==
  IF cond[c] = <<>>
  THEN UNCHANGED <<value, waiting, cond>>
  ELSE Sem!Up(Head(cond[c])) /\ cond' = [cond EXCEPT ![c] = Tail(@)]

cond_signal(t, c) ==
  /\ pc[t] = "run"
  /\ LockOf[c] \in held[t]
  /\ Signal(c)
  /\ UNCHANGED <<holder, pc, tgt, cv, held>>

\* cond_broadcast: one signal per turn of the loop.
cond_broadcast(t, c) ==
  /\ pc[t] = "run"
  /\ LockOf[c] \in held[t]
  /\ Goto(t, "broadcast")
  /\ cv' = [cv EXCEPT ![t] = c]
  /\ UNCHANGED <<value, waiting, holder, cond, tgt, held>>

\* Mutation of Broadcast: the test of the loop is inverted.
Broadcast_inverted(t) ==
  /\ pc[t] = "broadcast"
  /\ Signal(cv[t])
  /\ IF cond[cv[t]] # <<>> THEN Goto(t, "run") ELSE UNCHANGED pc
  /\ UNCHANGED <<holder, tgt, cv, held>>

Broadcast(t) ==
  /\ pc[t] = "broadcast"
  /\ Signal(cv[t])
  /\ IF cond[cv[t]] = <<>> THEN Goto(t, "run") ELSE UNCHANGED pc
  /\ UNCHANGED <<holder, tgt, cv, held>>
-----------------------------------------------------------------------------
\* What a call in progress does next.
Step(t) ==
  \/ AcquireDown(t) \/ AcquireHolder(t) \/ ReleaseUp(t)
  \/ CondRelease(t) \/ CondUp(t) \/ CondDown(t) \/ Broadcast(t)

Call(t) ==
  \/ \E l \in Lock : lock_acquire(t, l) \/ lock_try_acquire(t, l)
                       \/ lock_release(t, l)
  \/ \E c \in Cond : cond_wait(t, c) \/ cond_signal(t, c) \/ cond_broadcast(t, c)

Next == \E t \in Thread : Step(t) \/ Call(t)

\* The scheduler runs every thread, so a call that can go on does.
Fairness == \A t \in Thread : WF_vars(Step(t))

SafeSpec == Init /\ [][Next]_vars
Spec == SafeSpec /\ Fairness
-----------------------------------------------------------------------------
CondPC == {"cond_release", "cond_up", "cond_down"}

TypeOK ==
  /\ value \in [Lock \cup Thread -> Nat]
  /\ waiting \in [Thread -> Lock \cup Thread \cup {NULL}]
  /\ holder \in [Lock -> Thread \cup {NULL}]
  /\ cond \in [Cond -> Seq(Thread)]
  /\ pc \in [Thread -> PC]
  /\ tgt \in [Thread -> Lock \cup {NULL}]
  /\ cv \in [Thread -> Cond \cup {NULL}]
  /\ held \in [Thread -> SUBSET Lock]
  /\ \A t \in Thread : pc[t] \in PC \ {"run", "broadcast"} => tgt[t] \in Lock
  /\ \A t \in Thread : pc[t] \in CondPC \cup {"broadcast"} => cv[t] \in Cond

\* t has the unit of the semaphore of l: it holds the lock, or it is between
\* sema_down and sema_up of l outside the time it is the holder.
Owns(t, l) ==
  \/ l \in held[t]
  \/ tgt[t] = l /\ pc[t] \in {"acquired", "up", "cond_up"}

\* A lock is a binary semaphore: its value is 1 exactly when no thread owns it
\* and no two threads ever own it, wherever they are preempted.
MutualExclusion ==
  \A l \in Lock :
    /\ value[l] \in {0, 1}
    /\ value[l] = 1 <=> \A t \in Thread : ~Owns(t, l)
    /\ \A t, u \in Thread : Owns(t, l) /\ Owns(u, l) => t = u

\* lock_held_by_current_thread tells the truth although the holder is written
\* outside the semaphore: from the return of lock_acquire to the call of
\* lock_release the lock names the thread, and it never names another.
HolderExact ==
  \A l \in Lock, t \in Thread : holder[l] = t <=> l \in held[t]

\* Every signal reaches one waiter and no waiter is lost between the release
\* of the lock and its sema_down: a thread inside cond_wait is on the list of
\* its condition variable, once, with its semaphore at 0, or it was signalled
\* and its semaphore is at 1.  No other thread's stack is on a list.
SignalsExact ==
  /\ \A c \in Cond :
       /\ Distinct(cond[c])
       /\ \A t \in Elems(cond[c]) : pc[t] \in CondPC /\ cv[t] = c
  /\ \A t \in Thread : pc[t] \in CondPC =>
       value[t] = IF t \in Elems(cond[cv[t]]) THEN 0 ELSE 1

\* The loop of cond_broadcast ends: nobody can join the list meanwhile,
\* because the broadcaster holds the lock.
BroadcastEnds ==
  \A t \in Thread : (pc[t] = "broadcast") ~> (pc[t] = "run")
=============================================================================
