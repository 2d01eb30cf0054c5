---------------------------- MODULE SynchProofs ----------------------------
(***************************************************************************)
(* Locks exclude, the holder is exact and no signal is lost, for any       *)
(* number of threads, locks and condition variables.                       *)
(***************************************************************************)
EXTENDS Synch

\* Where a call stands decides whether the thread holds the lock it is about.
CallHolds ==
  \A t \in Thread :
    /\ pc[t] \in {"acquire", "acquired", "up", "cond_up", "cond_down"} =>
         tgt[t] \notin held[t]
    /\ pc[t] = "cond_release" => tgt[t] \in held[t]

LockInv == TypeOK /\ CallHolds /\ MutualExclusion /\ HolderExact

IInv == LockInv /\ SignalsExact

USE SynchAssumption

\* The initial state, after lock_init and cond_init.
LEMMA InitInv == Init => IInv
<1> SUFFICES ASSUME Init PROVE IInv
  BY Zenon
<1> USE DEF Init, lock_init, cond_init
<1>1. TypeOK
  BY DEF TypeOK, PC, CondPC
<1>2. CallHolds /\ MutualExclusion /\ HolderExact
  BY Zenon DEF CallHolds, MutualExclusion, HolderExact, Owns
<1>3. SignalsExact
  BY Zenon, EmptyList DEF SignalsExact, CondPC
<1>4. QED BY Zenon, <1>1, <1>2, <1>3 DEF IInv, LockInv

\* What the semaphores do to their values and to the waiting threads.
LEMMA SemTake ==
  ASSUME TypeOK, NEW t \in Thread, NEW s \in Lock \cup Thread, Sem!Take(t, s)
  PROVE  /\ value' \in [Lock \cup Thread -> Nat]
         /\ waiting' \in [Thread -> Lock \cup Thread \cup {NULL}]
         /\ value[s] > 0 /\ value'[s] = value[s] - 1
         /\ \A r \in Lock \cup Thread : r # s => value'[r] = value[r]
BY DEF Sem!Take, TypeOK

\* A thread that waits only changes what it waits for.
LEMMA SemWait ==
  ASSUME TypeOK, NEW t \in Thread, NEW s \in Lock \cup Thread, Sem!Wait(t, s)
  PROVE  value' = value /\ waiting' \in [Thread -> Lock \cup Thread \cup {NULL}]
BY Zenon DEF Sem!Wait, TypeOK

\* sema_up adds one unit to one semaphore.
LEMMA SemUp ==
  ASSUME TypeOK, NEW s \in Lock \cup Thread, Sem!Up(s)
  PROVE  /\ value' \in [Lock \cup Thread -> Nat]
         /\ waiting' = waiting
         /\ value'[s] = value[s] + 1
         /\ \A r \in Lock \cup Thread : r # s => value'[r] = value[r]
BY DEF Sem!Up, TypeOK

\* A signal takes the first waiter off the list and ups its semaphore.
LEMMA SignalStep ==
  ASSUME TypeOK, NEW c \in Cond, Signal(c)
  PROVE  /\ value' \in [Lock \cup Thread -> Nat]
         /\ waiting' = waiting
         /\ cond' \in [Cond -> Seq(Thread)]
         /\ \A l \in Lock : value'[l] = value[l]
         /\ \/ value' = value /\ cond' = cond
            \/ /\ cond[c] # <<>> /\ Head(cond[c]) \in Thread
               /\ value'[Head(cond[c])] = value[Head(cond[c])] + 1
               /\ \A r \in Lock \cup Thread :
                    r # Head(cond[c]) => value'[r] = value[r]
               /\ cond' = [cond EXCEPT ![c] = Tail(@)]
<1>1. CASE cond[c] = <<>>
  BY Zenon, <1>1 DEF Signal, TypeOK
<1>2. CASE cond[c] # <<>>
  <2>1. cond[c] \in Seq(Thread)
    BY Zenon DEF TypeOK
  <2>2. Head(cond[c]) \in Thread /\ Tail(cond[c]) \in Seq(Thread)
    BY Zenon, <1>2, <2>1, PopFront
  <2>3. Sem!Up(Head(cond[c])) /\ cond' = [cond EXCEPT ![c] = Tail(@)]
    BY Zenon, <1>2 DEF Signal
  <2>4. cond' \in [Cond -> Seq(Thread)]
    BY Zenon, <2>2, <2>3 DEF TypeOK
  <2>5. Head(cond[c]) \notin Lock
    BY Zenon, <2>2
  <2>6. QED BY Zenon, <1>2, <2>2, <2>3, <2>4, <2>5, SemUp
<1>3. QED BY Zenon, <1>1, <1>2

\* Every step keeps the types.
LEMMA TypeStep == TypeOK /\ [Next]_vars => TypeOK'
<1> SUFFICES ASSUME TypeOK, [Next]_vars PROVE TypeOK'
  BY Zenon
<1> USE DEF PC, CondPC, Goto
<1>1. ASSUME NEW t \in Thread, NEW l \in Lock, lock_acquire(t, l) PROVE TypeOK'
  BY Zenon, <1>1 DEF TypeOK, lock_acquire
<1>2. ASSUME NEW t \in Thread, AcquireDown(t) PROVE TypeOK'
  <2>1. tgt[t] \in Lock
    BY Zenon, <1>2 DEF AcquireDown, TypeOK
  <2>2. CASE Sem!Take(t, tgt[t]) /\ Goto(t, "acquired")
    BY Zenon, <1>2, <2>1, <2>2, SemTake DEF AcquireDown, TypeOK
  <2>3. CASE Sem!Wait(t, tgt[t]) /\ UNCHANGED pc
    BY Zenon, <1>2, <2>1, <2>3, SemWait DEF AcquireDown, TypeOK
  <2>4. QED BY Zenon, <1>2, <2>2, <2>3 DEF AcquireDown, sema_down
<1>3. ASSUME NEW t \in Thread, AcquireHolder(t) PROVE TypeOK'
  <2>1. tgt[t] \in Lock
    BY Zenon, <1>3 DEF AcquireHolder, TypeOK
  <2>2. holder' \in [Lock -> Thread \cup {NULL}] /\ held' \in [Thread -> SUBSET Lock]
    BY Zenon, <1>3, <2>1 DEF AcquireHolder, TypeOK
  <2>3. pc' \in [Thread -> PC] /\ \A u \in Thread : u # t => pc'[u] = pc[u]
    BY Zenon, <1>3 DEF AcquireHolder, TypeOK
  <2>4. pc'[t] = "run"
    BY Zenon, <1>3 DEF AcquireHolder, TypeOK
  <2>5. QED BY Zenon, <1>3, <2>2, <2>3, <2>4 DEF AcquireHolder, TypeOK
<1>4. ASSUME NEW t \in Thread, NEW l \in Lock, lock_try_acquire(t, l) PROVE TypeOK'
  BY Zenon, <1>4, SemTake DEF lock_try_acquire, TypeOK
<1>5. ASSUME NEW t \in Thread, NEW l \in Lock, lock_release(t, l) PROVE TypeOK'
  BY Zenon, <1>5 DEF lock_release, ReleaseHolder, TypeOK
<1>6. ASSUME NEW t \in Thread, ReleaseUp(t) PROVE TypeOK'
  <2>1. tgt[t] \in Lock
    BY Zenon, <1>6 DEF ReleaseUp, TypeOK
  <2>2. QED BY <1>6, <2>1, SemUp DEF ReleaseUp, TypeOK
<1>7. ASSUME NEW t \in Thread, NEW c \in Cond, cond_wait(t, c) PROVE TypeOK'
  BY <1>7 DEF cond_wait, TypeOK
<1>8. ASSUME NEW t \in Thread, CondRelease(t) PROVE TypeOK'
  BY Zenon, <1>8 DEF CondRelease, ReleaseHolder, TypeOK
<1>9. ASSUME NEW t \in Thread, CondUp(t) PROVE TypeOK'
  <2>1. tgt[t] \in Lock
    BY Zenon, <1>9 DEF CondUp, TypeOK
  <2>2. QED BY ZenonT(30), <1>9, <2>1, SemUp DEF CondUp, TypeOK
<1>10. ASSUME NEW t \in Thread, CondDown(t) PROVE TypeOK'
  <2>2. CASE Sem!Take(t, t) /\ Goto(t, "acquire")
    BY Zenon, <1>10, <2>2, SemTake DEF CondDown, TypeOK
  <2>3. CASE Sem!Wait(t, t) /\ UNCHANGED pc
    BY Zenon, <1>10, <2>3, SemWait DEF CondDown, TypeOK
  <2>4. QED BY Zenon, <1>10, <2>2, <2>3 DEF CondDown, sema_down
<1>12. ASSUME NEW t \in Thread, NEW c \in Cond, cond_signal(t, c) PROVE TypeOK'
  BY Zenon, <1>12, SignalStep DEF cond_signal, TypeOK
<1>13. ASSUME NEW t \in Thread, NEW c \in Cond, cond_broadcast(t, c) PROVE TypeOK'
  BY Zenon, <1>13 DEF cond_broadcast, TypeOK
<1>14. ASSUME NEW t \in Thread, Broadcast(t) PROVE TypeOK'
  <2>1. cv[t] \in Cond /\ Signal(cv[t])
    BY Zenon, <1>14 DEF Broadcast, TypeOK
  <2>2. /\ value' \in [Lock \cup Thread -> Nat]
        /\ waiting' = waiting
        /\ cond' \in [Cond -> Seq(Thread)]
    BY Zenon, <2>1, SignalStep
  <2>3. pc \in [Thread -> PC] /\ (pc' = pc \/ pc' = [pc EXCEPT ![t] = "run"])
    BY Zenon, <1>14 DEF Broadcast, TypeOK
  <2>4. /\ pc' \in [Thread -> PC] /\ pc'[t] \in {"run", pc[t]}
        /\ \A u \in Thread : u # t => pc'[u] = pc[u]
    BY Zenon, <2>3
  <2>5. UNCHANGED <<holder, tgt, cv, held>>
    BY Zenon, <1>14 DEF Broadcast
  <2>6. QED BY Zenon, <2>2, <2>4, <2>5 DEF TypeOK
<1>15. CASE UNCHANGED vars
  BY Zenon, <1>15 DEF vars, TypeOK
<1>16. QED
  BY Zenon, <1>1, <1>2, <1>3, <1>4, <1>5, <1>6, <1>7, <1>8, <1>9, <1>10, <1>12,
     <1>13, <1>14, <1>15 DEF Next, Step, Call

\* A step that changes neither the value of a lock nor who owns or holds it.
LEMMA LockSame ==
  ASSUME LockInv, TypeOK',
         \A l \in Lock : value'[l] = value[l],
         \A t \in Thread, l \in Lock : Owns(t, l)' <=> Owns(t, l),
         UNCHANGED <<holder, held>>
  PROVE  (MutualExclusion /\ HolderExact)'
<1>1. MutualExclusion'
  BY Zenon DEF LockInv, MutualExclusion
<1>2. HolderExact'
  BY Zenon DEF LockInv, HolderExact
<1>3. QED BY Zenon, <1>1, <1>2

\* A thread comes to own a lock by taking the unit of its semaphore.
LEMMA LockTaken ==
  ASSUME LockInv, TypeOK', NEW t \in Thread, NEW l \in Lock,
         Sem!Take(t, l),
         Owns(t, l)',
         \A u \in Thread, k \in Lock :
           u # t \/ k # l => (Owns(u, k)' <=> Owns(u, k)),
         UNCHANGED <<holder, held>>
  PROVE  (MutualExclusion /\ HolderExact)'
<1>1. value[l] = 1 /\ value'[l] = 0 /\ \A k \in Lock : k # l => value'[k] = value[k]
  BY SemTake DEF LockInv, MutualExclusion
<1>2. \A u \in Thread : ~Owns(u, l)
  BY Zenon, <1>1 DEF LockInv, MutualExclusion
<1>3. MutualExclusion'
  BY <1>1, <1>2 DEF LockInv, MutualExclusion
<1>4. HolderExact'
  BY Zenon DEF LockInv, HolderExact
<1>5. QED BY Zenon, <1>3, <1>4

\* The owner gives the lock up by returning the unit.
LEMMA LockGiven ==
  ASSUME LockInv, TypeOK', NEW t \in Thread, NEW l \in Lock,
         Sem!Up(l),
         Owns(t, l), ~Owns(t, l)',
         \A u \in Thread, k \in Lock :
           u # t \/ k # l => (Owns(u, k)' <=> Owns(u, k)),
         UNCHANGED <<holder, held>>
  PROVE  (MutualExclusion /\ HolderExact)'
<1>1. value[l] = 0
  BY Zenon DEF LockInv, MutualExclusion
<1>2. value'[l] = 1 /\ \A k \in Lock : k # l => value'[k] = value[k]
  BY <1>1, SemUp DEF LockInv
<1>3. \A u \in Thread : ~Owns(u, l)'
  BY Zenon DEF LockInv, MutualExclusion
<1>4. MutualExclusion'
  BY <1>1, <1>2, <1>3 DEF LockInv, MutualExclusion
<1>5. HolderExact'
  BY Zenon DEF LockInv, HolderExact
<1>6. QED BY Zenon, <1>4, <1>5

\* Every step keeps the lock invariant.
LEMMA LockStep == LockInv /\ [Next]_vars => LockInv'
<1> SUFFICES ASSUME LockInv, [Next]_vars PROVE LockInv'
  BY Zenon
<1> USE DEF Goto
<1>t. TypeOK /\ TypeOK' /\ CallHolds
  BY Zenon, TypeStep DEF LockInv
<1>1. ASSUME NEW t \in Thread, NEW l \in Lock, lock_acquire(t, l)
      PROVE  (CallHolds /\ MutualExclusion /\ HolderExact)'
  <2>1. CallHolds'
    BY Zenon, <1>1, <1>t DEF lock_acquire, CallHolds, TypeOK
  <2>2. \A u \in Thread, k \in Lock : Owns(u, k)' <=> Owns(u, k)
    BY Zenon, <1>1, <1>t DEF lock_acquire, Owns, TypeOK
  <2>3. QED BY Zenon, <1>1, <1>t, <2>1, <2>2, LockSame DEF lock_acquire
<1>2. ASSUME NEW t \in Thread, AcquireDown(t)
      PROVE  (CallHolds /\ MutualExclusion /\ HolderExact)'
  <2>1. tgt[t] \in Lock
    BY Zenon, <1>2, <1>t DEF AcquireDown, TypeOK, PC
  <2>2. CASE Sem!Take(t, tgt[t]) /\ Goto(t, "acquired")
    <3>1. CallHolds'
      BY Zenon, <1>2, <1>t, <2>2 DEF AcquireDown, CallHolds, TypeOK
    <3>2. Owns(t, tgt[t])' /\ \A u \in Thread, k \in Lock :
            u # t \/ k # tgt[t] => (Owns(u, k)' <=> Owns(u, k))
      BY Zenon, <1>2, <1>t, <2>2 DEF AcquireDown, Owns, TypeOK
    <3>3. QED BY Zenon, <1>2, <1>t, <2>1, <2>2, <3>1, <3>2, LockTaken DEF AcquireDown
  <2>3. CASE Sem!Wait(t, tgt[t]) /\ UNCHANGED pc
    <3>1. CallHolds'
      BY Zenon, <1>2, <1>t, <2>3 DEF AcquireDown, CallHolds
    <3>2. \A u \in Thread, k \in Lock : Owns(u, k)' <=> Owns(u, k)
      BY Zenon, <1>2, <1>t, <2>3 DEF AcquireDown, Owns
    <3>3. QED
      BY Zenon, <1>2, <1>t, <2>1, <2>3, <3>1, <3>2, SemWait, LockSame DEF AcquireDown
  <2>4. QED BY Zenon, <1>2, <2>2, <2>3 DEF AcquireDown, sema_down
<1>3. ASSUME NEW t \in Thread, AcquireHolder(t)
      PROVE  (CallHolds /\ MutualExclusion /\ HolderExact)'
  <2>1. tgt[t] \in Lock /\ pc[t] = "acquired" /\ Owns(t, tgt[t])
    BY Zenon, <1>3, <1>t DEF AcquireHolder, TypeOK, PC, Owns
  <2>2. CallHolds'
    BY <1>3, <1>t, <2>1 DEF AcquireHolder, CallHolds, TypeOK
  <2>3. \A u \in Thread, k \in Lock : Owns(u, k)' <=> Owns(u, k)
    BY <1>3, <1>t, <2>1 DEF AcquireHolder, Owns, TypeOK
  <2>4. MutualExclusion'
    BY Zenon, <1>3, <2>3 DEF AcquireHolder, MutualExclusion, LockInv
  <2>5. \A u \in Thread : u # t => tgt[t] \notin held[u]
    BY Zenon, <2>1 DEF LockInv, MutualExclusion, Owns
  <2>6. HolderExact'
    BY <1>3, <1>t, <2>1, <2>5 DEF AcquireHolder, HolderExact, LockInv, TypeOK
  <2>7. QED BY Zenon, <2>2, <2>4, <2>6
<1>4. ASSUME NEW t \in Thread, NEW l \in Lock, lock_try_acquire(t, l)
      PROVE  (CallHolds /\ MutualExclusion /\ HolderExact)'
  <2>1. CallHolds'
    BY Zenon, <1>4, <1>t DEF lock_try_acquire, CallHolds, TypeOK
  <2>2. Owns(t, l)' /\ \A u \in Thread, k \in Lock :
          u # t \/ k # l => (Owns(u, k)' <=> Owns(u, k))
    BY <1>4, <1>t DEF lock_try_acquire, Owns, TypeOK
  <2>3. QED BY Zenon, <1>4, <1>t, <2>1, <2>2, LockTaken DEF lock_try_acquire
<1>5. ASSUME NEW t \in Thread, NEW l \in Lock, l \in held[t], tgt'[t] = l,
             \A u \in Thread : u # t => tgt'[u] = tgt[u],
             NEW p \in {"up", "cond_up"}, ReleaseHolder(t, p),
             pc[t] \in {"run", "cond_release"}, UNCHANGED value
      PROVE  (CallHolds /\ MutualExclusion /\ HolderExact)'
  <2>1. CallHolds'
    BY <1>5, <1>t DEF ReleaseHolder, CallHolds, TypeOK
  <2>2. \A u \in Thread, k \in Lock : Owns(u, k)' <=> Owns(u, k)
    BY <1>5, <1>t DEF ReleaseHolder, Owns, TypeOK
  <2>3. MutualExclusion'
    BY Zenon, <1>5, <2>2 DEF MutualExclusion, LockInv
  <2>4. HolderExact'
    BY <1>5, <1>t DEF ReleaseHolder, HolderExact, LockInv, TypeOK
  <2>5. QED BY Zenon, <2>1, <2>3, <2>4
<1>6. ASSUME NEW t \in Thread, NEW l \in Lock, lock_release(t, l)
      PROVE  (CallHolds /\ MutualExclusion /\ HolderExact)'
  BY Zenon, <1>5, <1>6, <1>t DEF lock_release, TypeOK
<1>7. ASSUME NEW t \in Thread, CondRelease(t)
      PROVE  (CallHolds /\ MutualExclusion /\ HolderExact)'
  <2>1. tgt[t] \in Lock /\ tgt[t] \in held[t]
    BY Zenon, <1>7, <1>t DEF CondRelease, CallHolds, TypeOK, PC
  <2>2. QED BY Zenon, <1>5, <1>7, <2>1 DEF CondRelease
<1>8. ASSUME NEW t \in Thread, pc[t] \in {"up", "cond_up"}, Sem!Up(tgt[t]),
             NEW p \in {"run", "cond_down"}, Goto(t, p),
             UNCHANGED <<holder, tgt, held>>
      PROVE  (CallHolds /\ MutualExclusion /\ HolderExact)'
  <2>1. tgt[t] \in Lock /\ tgt[t] \notin held[t]
    BY ZenonT(30), <1>8, <1>t DEF TypeOK, PC, CallHolds
  <2>2. CallHolds'
    BY Zenon, <1>8, <1>t, <2>1 DEF CallHolds, TypeOK
  <2>3. /\ Owns(t, tgt[t]) /\ ~Owns(t, tgt[t])'
        /\ \A u \in Thread, k \in Lock :
             u # t \/ k # tgt[t] => (Owns(u, k)' <=> Owns(u, k))
    BY Zenon, <1>8, <1>t, <2>1 DEF Owns, TypeOK
  <2>4. QED BY Zenon, <1>8, <1>t, <2>1, <2>2, <2>3, LockGiven
<1>9. ASSUME NEW t \in Thread, ReleaseUp(t) \/ CondUp(t)
      PROVE  (CallHolds /\ MutualExclusion /\ HolderExact)'
  BY Zenon, <1>8, <1>9 DEF ReleaseUp, CondUp
<1>10. ASSUME NEW t \in Thread, NEW c \in Cond, cond_wait(t, c)
       PROVE  (CallHolds /\ MutualExclusion /\ HolderExact)'
  <2>1. CallHolds'
    BY Zenon, <1>10, <1>t DEF cond_wait, CallHolds, TypeOK
  <2>2. \A u \in Thread, k \in Lock : Owns(u, k)' <=> Owns(u, k)
    BY <1>10, <1>t DEF cond_wait, Owns, TypeOK
  <2>3. \A k \in Lock : value'[k] = value[k]
    BY <1>10, <1>t DEF cond_wait, TypeOK
  <2>4. QED BY Zenon, <1>10, <1>t, <2>1, <2>2, <2>3, LockSame DEF cond_wait
<1>11. ASSUME NEW t \in Thread, CondDown(t)
       PROVE  (CallHolds /\ MutualExclusion /\ HolderExact)'
  <2>1. CallHolds'
    BY <1>11, <1>t DEF CondDown, sema_down, CallHolds, TypeOK
  <2>2. \A u \in Thread, k \in Lock : Owns(u, k)' <=> Owns(u, k)
    BY <1>11, <1>t DEF CondDown, sema_down, Owns, TypeOK
  <2>3. \A k \in Lock : value'[k] = value[k]
    BY <1>11, <1>t, SemTake, SemWait DEF CondDown, sema_down
  <2>4. QED BY Zenon, <1>11, <1>t, <2>1, <2>2, <2>3, LockSame DEF CondDown
<1>12. ASSUME NEW t \in Thread, NEW c \in Cond, Signal(c),
              holder' = holder, tgt' = tgt, held' = held,
              \/ pc' = pc
              \/ pc[t] = "broadcast" /\ pc' = [pc EXCEPT ![t] = "run"]
       PROVE  (CallHolds /\ MutualExclusion /\ HolderExact)'
  <2>1. CallHolds'
    BY SMTT(30), <1>12, <1>t DEF CallHolds, TypeOK
  <2>2. \A u \in Thread, k \in Lock : Owns(u, k)' <=> Owns(u, k)
    BY SMTT(30), <1>12, <1>t DEF Owns, TypeOK
  <2>3. \A k \in Lock : value'[k] = value[k]
    BY Zenon, <1>12, <1>t, SignalStep
  <2>4. QED BY Zenon, <1>12, <1>t, <2>1, <2>2, <2>3, LockSame
<1>13. ASSUME NEW t \in Thread, NEW c \in Cond, cond_signal(t, c)
       PROVE  (CallHolds /\ MutualExclusion /\ HolderExact)'
  <2>1. /\ Signal(c) /\ holder' = holder /\ tgt' = tgt /\ held' = held
        /\ pc' = pc
    BY Zenon, <1>13 DEF cond_signal
  <2>2. QED BY Zenon, <1>12, <2>1
<1>14. ASSUME NEW t \in Thread, Broadcast(t)
       PROVE  (CallHolds /\ MutualExclusion /\ HolderExact)'
  <2>1. cv[t] \in Cond
    BY Zenon, <1>14, <1>t DEF Broadcast, TypeOK
  <2>2. /\ Signal(cv[t]) /\ holder' = holder /\ tgt' = tgt /\ held' = held
        /\ \/ pc' = pc
           \/ pc[t] = "broadcast" /\ pc' = [pc EXCEPT ![t] = "run"]
    BY Zenon, <1>14 DEF Broadcast
  <2>3. QED BY Zenon, <1>12, <2>1, <2>2
<1>15. ASSUME NEW t \in Thread, NEW c \in Cond, cond_broadcast(t, c)
       PROVE  (CallHolds /\ MutualExclusion /\ HolderExact)'
  <2>1. CallHolds'
    BY Zenon, <1>15, <1>t DEF cond_broadcast, CallHolds, TypeOK
  <2>2. \A u \in Thread, k \in Lock : Owns(u, k)' <=> Owns(u, k)
    BY Zenon, <1>15, <1>t DEF cond_broadcast, Owns, TypeOK
  <2>3. QED BY Zenon, <1>15, <1>t, <2>1, <2>2, LockSame DEF cond_broadcast
<1>16. CASE UNCHANGED vars
  <2>1. CallHolds'
    BY Zenon, <1>16, <1>t DEF vars, CallHolds
  <2>2. \A u \in Thread, k \in Lock : Owns(u, k)' <=> Owns(u, k)
    BY Zenon, <1>16 DEF vars, Owns
  <2>3. QED BY Zenon, <1>16, <1>t, <2>1, <2>2, LockSame DEF vars, LockInv
<1>17. CASE Next
  <2>1. PICK t \in Thread : Step(t) \/ Call(t)
    BY Zenon, <1>17 DEF Next
  <2>2. CASE Step(t)
    BY Zenon, <2>2, <1>2, <1>3, <1>7, <1>9, <1>11, <1>14, <1>t DEF Step, LockInv
  <2>3. CASE Call(t)
    BY Zenon, <2>3, <1>1, <1>4, <1>6, <1>10, <1>13, <1>15, <1>t DEF Call, LockInv
  <2>4. QED BY Zenon, <2>1, <2>2, <2>3
<1>18. QED BY Zenon, <1>16, <1>17

\* A step that leaves the lists alone and every thread that waits on one.
LEMMA SignalsSame ==
  ASSUME TypeOK, SignalsExact, cond' = cond,
         \A u \in Thread : pc'[u] \in CondPC <=> pc[u] \in CondPC,
         \A u \in Thread : pc[u] \in CondPC => cv'[u] = cv[u] /\ value'[u] = value[u]
  PROVE  SignalsExact'
<1>1. \A c \in Cond : Elems(cond[c]) \subseteq Thread
  BY DEF Elems, TypeOK
<1>2. \A c \in Cond : Distinct(cond'[c]) /\ Elems(cond'[c]) = Elems(cond[c])
  BY Zenon DEF SignalsExact
<1>3. \A c \in Cond : \A t \in Elems(cond'[c]) : pc'[t] \in CondPC /\ cv'[t] = c
  BY Zenon, <1>1, <1>2 DEF SignalsExact
<1>4. ASSUME NEW t \in Thread, pc'[t] \in CondPC
      PROVE  value'[t] = IF t \in Elems(cond'[cv'[t]]) THEN 0 ELSE 1
  BY Zenon, <1>4 DEF SignalsExact
<1>5. QED BY Zenon, <1>2, <1>3, <1>4 DEF SignalsExact

\* The signalled thread leaves the list as its semaphore goes from 0 to 1.
LEMMA SignalsSignal ==
  ASSUME TypeOK, SignalsExact, NEW c \in Cond, Signal(c), cv' = cv,
         \A u \in Thread : pc'[u] \in CondPC <=> pc[u] \in CondPC
  PROVE  SignalsExact'
<1>1. CASE value' = value /\ cond' = cond
  BY Zenon, <1>1, SignalsSame
<1>2. CASE /\ cond[c] # <<>> /\ Head(cond[c]) \in Thread
           /\ value'[Head(cond[c])] = value[Head(cond[c])] + 1
           /\ \A r \in Lock \cup Thread :
                r # Head(cond[c]) => value'[r] = value[r]
           /\ cond' = [cond EXCEPT ![c] = Tail(@)]
  <2> DEFINE h == Head(cond[c])
  <2>1. /\ \A k \in Cond : Elems(cond[k]) \subseteq Thread
        /\ \A k \in Cond : Distinct(cond[k])
    BY DEF Elems, TypeOK, SignalsExact
  <2>2. /\ h \in Elems(cond[c])
        /\ Distinct(Tail(cond[c]))
        /\ Elems(cond[c]) = Elems(Tail(cond[c])) \cup {h}
        /\ h \notin Elems(Tail(cond[c]))
    BY <1>2, <2>1, PopFront DEF TypeOK
  <2>3. pc[h] \in CondPC /\ cv[h] = c /\ value[h] = 0
    BY Zenon, <1>2, <2>2 DEF SignalsExact
  <2>4. cond'[c] = Tail(cond[c]) /\ \A k \in Cond : k # c => cond'[k] = cond[k]
    BY Zenon, <1>2 DEF TypeOK
  <2>5. \A k \in Cond : Distinct(cond'[k]) /\ Elems(cond'[k]) \subseteq Elems(cond[k])
    BY Zenon, <2>1, <2>2, <2>4
  <2>6. \A k \in Cond : \A t \in Elems(cond'[k]) : pc'[t] \in CondPC /\ cv'[t] = k
    BY Zenon, <2>1, <2>5 DEF SignalsExact
  <2>7. ASSUME NEW t \in Thread, pc'[t] \in CondPC
        PROVE  value'[t] = IF t \in Elems(cond'[cv'[t]]) THEN 0 ELSE 1
    <3>1. cv[t] \in Cond /\ pc[t] \in CondPC
      BY Zenon, <2>7 DEF TypeOK
    <3>2. CASE t = h
      BY <1>2, <2>2, <2>3, <2>4, <3>2
    <3>3. CASE t # h
      <4>1. value'[t] = value[t]
        BY Zenon, <1>2, <3>3
      <4>2. t \in Elems(cond'[cv[t]]) <=> t \in Elems(cond[cv[t]])
        BY Zenon, <2>2, <2>4, <3>1, <3>3
      <4>3. QED BY Zenon, <3>1, <4>1, <4>2 DEF SignalsExact
    <3>4. QED BY Zenon, <3>2, <3>3
  <2>8. QED BY Zenon, <2>5, <2>6, <2>7 DEF SignalsExact
<1>3. QED BY Zenon, <1>1, <1>2, SignalStep

\* Every step keeps the signals exact.
LEMMA SignalsStep == LockInv /\ SignalsExact /\ [Next]_vars => SignalsExact'
<1> SUFFICES ASSUME LockInv, SignalsExact, [Next]_vars PROVE SignalsExact'
  BY Zenon
<1> USE DEF Goto
<1>t. TypeOK /\ TypeOK'
  BY Zenon, TypeStep DEF LockInv
<1>1. ASSUME NEW t \in Thread, NEW l \in Lock,
             lock_acquire(t, l) \/ lock_release(t, l)
      PROVE  SignalsExact'
  BY <1>1, <1>t, SignalsSame
     DEF lock_acquire, lock_release, ReleaseHolder, CondPC, TypeOK
<1>2. ASSUME NEW t \in Thread, NEW l \in Lock, lock_try_acquire(t, l)
      PROVE  SignalsExact'
  <2>1. \A u \in Thread : value'[u] = value[u]
    BY <1>2, <1>t, SemTake DEF lock_try_acquire
  <2>2. \A u \in Thread : pc'[u] \in CondPC <=> pc[u] \in CondPC
    BY Zenon, <1>2, <1>t DEF lock_try_acquire, CondPC, TypeOK
  <2>3. QED BY Zenon, <1>2, <1>t, <2>1, <2>2, SignalsSame DEF lock_try_acquire
<1>3. ASSUME NEW t \in Thread, AcquireDown(t) \/ ReleaseUp(t) \/ CondUp(t)
      PROVE  SignalsExact'
  <2>1. tgt[t] \in Lock
    BY Zenon, <1>3, <1>t DEF AcquireDown, ReleaseUp, CondUp, TypeOK, PC
  <2>2. \A u \in Thread : value'[u] = value[u]
    <3>1. CASE Sem!Take(t, tgt[t])
      BY <2>1, <3>1, <1>t, SemTake
    <3>2. CASE Sem!Wait(t, tgt[t])
      BY Zenon, <2>1, <3>2, <1>t, SemWait
    <3>3. CASE Sem!Up(tgt[t])
      BY Zenon, <2>1, <3>3, <1>t, SemUp
    <3>4. QED
      BY Zenon, <1>3, <3>1, <3>2, <3>3 DEF AcquireDown, ReleaseUp, CondUp, sema_down
  <2>3. \A u \in Thread : pc'[u] \in CondPC <=> pc[u] \in CondPC
    BY SMTT(30), <1>3, <1>t DEF AcquireDown, ReleaseUp, CondUp, sema_down, CondPC, TypeOK
  <2>4. cond' = cond /\ cv' = cv
    BY Zenon, <1>3 DEF AcquireDown, ReleaseUp, CondUp
  <2>5. QED BY Zenon, <1>t, <2>2, <2>3, <2>4, SignalsSame
<1>4. ASSUME NEW t \in Thread, AcquireHolder(t) \/ CondRelease(t)
      PROVE  SignalsExact'
  BY SMTT(30), <1>4, <1>t, SignalsSame
     DEF AcquireHolder, CondRelease, ReleaseHolder, CondPC, TypeOK
<1>5. ASSUME NEW t \in Thread, NEW c \in Cond, cond_broadcast(t, c)
      PROVE  SignalsExact'
  BY <1>5, <1>t, SignalsSame DEF cond_broadcast, CondPC, TypeOK
<1>6. ASSUME NEW t \in Thread, NEW c \in Cond, cond_signal(t, c)
      PROVE  SignalsExact'
  BY Zenon, <1>6, <1>t, SignalsSignal DEF cond_signal
<1>7. ASSUME NEW t \in Thread, Broadcast(t)
      PROVE  SignalsExact'
  <2>1. cv[t] \in Cond /\ Signal(cv[t]) /\ cv' = cv
    BY Zenon, <1>7, <1>t DEF Broadcast, TypeOK
  <2>2. \A u \in Thread : pc'[u] \in CondPC <=> pc[u] \in CondPC
    BY <1>7, <1>t DEF Broadcast, CondPC, TypeOK
  <2>3. QED BY Zenon, <1>t, <2>1, <2>2, SignalsSignal
<1>8. ASSUME NEW t \in Thread, CondDown(t)
      PROVE  SignalsExact'
  <2>1. CASE Sem!Wait(t, t) /\ UNCHANGED pc
    BY Zenon, <1>8, <2>1, <1>t, SemWait, SignalsSame DEF CondDown
  <2>2. CASE Sem!Take(t, t) /\ Goto(t, "acquire")
    <3>1. value[t] > 0 /\ \A u \in Thread : u # t => value'[u] = value[u]
      BY <2>2, <1>t, SemTake
    <3>2. \A c \in Cond : t \notin Elems(cond[c])
      BY <3>1 DEF SignalsExact
    <3>3. /\ cond' = cond /\ cv' = cv
          /\ pc'[t] \notin CondPC
          /\ \A u \in Thread : u # t => pc'[u] = pc[u]
      BY Zenon, <1>8, <2>2, <1>t DEF CondDown, CondPC, TypeOK
    <3>4. \A c \in Cond : Elems(cond[c]) \subseteq Thread
      BY <1>t DEF Elems, TypeOK
    <3>5. \A c \in Cond : /\ Distinct(cond'[c])
                          /\ \A u \in Elems(cond'[c]) : pc'[u] \in CondPC /\ cv'[u] = c
      BY <3>2, <3>3, <3>4 DEF SignalsExact
    <3>6. ASSUME NEW u \in Thread, pc'[u] \in CondPC
          PROVE  value'[u] = IF u \in Elems(cond'[cv'[u]]) THEN 0 ELSE 1
      BY Zenon, <3>1, <3>3, <3>6 DEF SignalsExact
    <3>7. QED BY Zenon, <3>5, <3>6 DEF SignalsExact
  <2>3. QED BY Zenon, <1>8, <2>1, <2>2 DEF CondDown, sema_down
<1>9. ASSUME NEW t \in Thread, NEW c \in Cond, cond_wait(t, c)
      PROVE  SignalsExact'
  <2>1. \A k \in Cond : Elems(cond[k]) \subseteq Thread /\ Distinct(cond[k])
    BY <1>t DEF Elems, TypeOK, SignalsExact
  <2>2. \A k \in Cond : t \notin Elems(cond[k])
    BY Zenon, <1>9 DEF cond_wait, SignalsExact, CondPC
  <2>3. /\ Elems(Append(cond[c], t)) = Elems(cond[c]) \cup {t}
        /\ Distinct(Append(cond[c], t))
    BY SMTT(30), <1>t, <2>1, <2>2, PushBack DEF TypeOK
  <2>4. /\ cond'[c] = Append(cond[c], t)
        /\ \A k \in Cond : k # c => cond'[k] = cond[k]
        /\ value'[t] = 0 /\ pc'[t] \in CondPC /\ cv'[t] = c
        /\ \A u \in Thread : u # t => /\ value'[u] = value[u] /\ pc'[u] = pc[u]
                                      /\ cv'[u] = cv[u]
    BY <1>9, <1>t DEF cond_wait, CondPC, TypeOK
  <2>5. \A k \in Cond : Distinct(cond'[k])
    BY Zenon, <2>1, <2>3, <2>4
  <2>6. ASSUME NEW k \in Cond, NEW u \in Elems(cond'[k])
        PROVE  pc'[u] \in CondPC /\ cv'[u] = k
    <3>1. CASE u = t
      <4>1. k = c
        BY Zenon, <2>2, <2>4, <2>6, <3>1
      <4>2. QED BY Zenon, <2>4, <3>1, <4>1
    <3>2. CASE u # t
      <4>1. u \in Elems(cond[k])
        <5>1. CASE k = c
          BY Zenon, <2>3, <2>4, <3>2, <5>1
        <5>2. CASE k # c
          BY Zenon, <2>4, <5>2
        <5>3. QED BY Zenon, <5>1, <5>2
      <4>2. u \in Thread /\ pc[u] \in CondPC /\ cv[u] = k
        BY Zenon, <2>1, <4>1 DEF SignalsExact
      <4>3. QED BY Zenon, <2>4, <3>2, <4>2
    <3>3. QED BY Zenon, <3>1, <3>2
  <2>7. ASSUME NEW u \in Thread, pc'[u] \in CondPC
        PROVE  value'[u] = IF u \in Elems(cond'[cv'[u]]) THEN 0 ELSE 1
    <3>1. CASE u = t
      BY Zenon, <2>3, <2>4, <3>1
    <3>2. CASE u # t
      <4>1. cv[u] \in Cond /\ pc[u] \in CondPC
        BY Zenon, <2>4, <2>7, <3>2, <1>t DEF TypeOK
      <4>2. u \in Elems(cond'[cv[u]]) <=> u \in Elems(cond[cv[u]])
        <5>1. CASE cv[u] = c
          BY Zenon, <2>3, <2>4, <3>2, <5>1
        <5>2. CASE cv[u] # c
          BY Zenon, <2>4, <4>1, <5>2
        <5>3. QED BY Zenon, <5>1, <5>2
      <4>3. QED BY Zenon, <2>4, <3>2, <4>1, <4>2 DEF SignalsExact
    <3>3. QED BY Zenon, <3>1, <3>2
  <2>8. QED BY Zenon, <2>5, <2>6, <2>7 DEF SignalsExact
<1>10. CASE UNCHANGED vars
  BY Zenon, <1>10, <1>t, SignalsSame DEF vars
<1>11. CASE Next
  <2>1. PICK t \in Thread : Step(t) \/ Call(t)
    BY Zenon, <1>11 DEF Next
  <2>2. CASE Step(t)
    BY Zenon, <2>2, <1>3, <1>4, <1>7, <1>8 DEF Step
  <2>3. CASE Call(t)
    BY Zenon, <2>3, <1>1, <1>2, <1>5, <1>6, <1>9 DEF Call
  <2>4. QED BY Zenon, <2>1, <2>2, <2>3
<1>12. QED BY Zenon, <1>10, <1>11

-----------------------------------------------------------------------------
\* The inductive invariant holds in every reachable state.
THEOREM Invariance == SafeSpec => []IInv
<1>1. Init => IInv
  BY Zenon, InitInv
<1>2. IInv /\ [Next]_vars => IInv'
  BY Zenon, LockStep, SignalsStep DEF IInv
<1>3. QED BY <1>1, <1>2, PTL DEF SafeSpec

\* Every variable of synch.c keeps its type; a semaphore never goes below 0.
THEOREM TypeCorrect == SafeSpec => []TypeOK
<1>1. IInv => TypeOK
  BY Zenon DEF IInv, LockInv
<1>2. QED BY <1>1, Invariance, PTL

\* No two threads own a lock, whatever preempts lock_acquire and lock_release
\* between the semaphore and the holder.
THEOREM LocksExclude == SafeSpec => []MutualExclusion
<1>1. IInv => MutualExclusion
  BY Zenon DEF IInv, LockInv
<1>2. QED BY <1>1, Invariance, PTL

\* lock_held_by_current_thread answers correctly for every thread that is
\* not itself inside lock_acquire or lock_release.
THEOREM HolderCorrect == SafeSpec => []HolderExact
<1>1. IInv => HolderExact
  BY Zenon DEF IInv, LockInv
<1>2. QED BY <1>1, Invariance, PTL

\* cond_signal and cond_broadcast wake exactly the threads on the list, each
\* once, also those still between lock_release and sema_down of cond_wait.
THEOREM NoLostSignal == SafeSpec => []SignalsExact
<1>1. IInv => SignalsExact
  BY Zenon DEF IInv
<1>2. QED BY <1>1, Invariance, PTL
=============================================================================
