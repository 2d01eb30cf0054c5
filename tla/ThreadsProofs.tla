--------------------------- MODULE ThreadsProofs ---------------------------
(***************************************************************************)
(* The scheduler never loses a thread, a wake-up or a thread id: for any   *)
(* number of threads and semaphores, any time slice, and interrupts at any *)
(* point where they are enabled.                                           *)
(***************************************************************************)
EXTENDS Threads

BootPC == {"boot", "boot_enable", "boot_wait"}
IdlePC == {"idle_init", "idle_up", "idle_block", "idle_hlt"}
TidPC == {"tid_load", "tid_store", "tid_release"}

\* The run queue is the threads that are ready, each once.
ReadyExact ==
  /\ Distinct(ready_list)
  /\ \A t \in Thread :
       t \in Elems(ready_list) <=> status[t] = "READY" /\ t # idle_thread

\* Who is on a wait list is blocked in the loop of sema_down.
WaitersExact ==
  \A s \in AllSema :
    /\ Distinct(waiters[s])
    /\ \A t \in Elems(waiters[s]) : status[t] = "BLOCKED" /\ pc[t] = "down" /\ on[t] = s

\* Which thread can be where.  The idle thread stays in its loop, so it never
\* waits for a semaphore and never exits.
Places ==
  /\ \A t \in Thread :
       /\ pc[t] = "down" <=> on[t] # NULL
       /\ status[t] \in {"FREE", "DYING"} => pc[t] = "run"
       /\ pc[t] \in BootPC => t = Main
       /\ pc[t] \in IdlePC <=> t = Idle /\ status[t] # "FREE"
       /\ t \in all_list <=> status[t] \notin {"FREE", "DYING"}
  /\ status[Main] # "FREE"
  /\ idle_thread = Idle <=> pc[Idle] \in IdlePC \ {"idle_init"}

\* A thread_create in progress, which may be waiting for tid_lock.
Creating(u) == pc[u] \in CreatePC \/ (pc[u] = "down" /\ on[u] = TidLock)

\* The thread it makes is blocked, on no list, and nobody else's.
NewExact ==
  \A u \in Thread :
    /\ new[u] # NULL <=> Creating(u)
    /\ Creating(u) => /\ status[new[u]] = "BLOCKED" /\ pc[new[u]] \in {"run", "idle_init"}
                      /\ \A v \in Thread : Creating(v) /\ new[v] = new[u] => v = u
                      /\ new[u] = Idle => idle_thread = NULL

\* Until the idle thread has started there are only main and the idle thread,
\* and main blocks only when the idle thread is there to run.
Boot ==
  idle_thread = NULL =>
    /\ \A t \in Worker : status[t] = "FREE"
    /\ pc[Main] \in BootPC \cup CreatePC \cup {"down"}
    /\ pc[Main] = "boot" => status[Idle] = "FREE"
    /\ pc[Main] \in CreatePC => new[Main] = Idle
    /\ pc[Main] = "down" => Main \in Elems(waiters[IdleStarted])
    /\ pc[Main] \in {"boot_enable", "boot_wait", "down"} =>
         status[Idle] \in {"READY", "RUNNING"}
    /\ value[IdleStarted] = 0

\* tid_lock excludes, and next_tid is above every tid but the one just loaded.
Tids ==
  /\ value[TidLock] \in {0, 1}
  /\ value[TidLock] = 1 <=> \A u \in Thread : pc[u] \notin TidPC
  /\ \A u, v \in Thread : pc[u] \in TidPC /\ pc[v] \in TidPC => u = v
  /\ \A u \in Thread : pc[u] = "tid_store" => tid[new[u]] = next_tid
  /\ \A t \in Named : \/ tid[t] < next_tid
                      \/ \E u \in Thread : pc[u] = "tid_store" /\ new[u] = t
  /\ next_tid > 0

IInv ==
  /\ TypeOK /\ SomeoneRuns /\ ReadyExact /\ WaitersExact /\ Places /\ NewExact
  /\ Boot /\ Tids /\ UniqueTid /\ NoLostWakeup

\* The initial thread, the idle thread and the null pointer are told apart.
LEMMA ThreadSets ==
  Main \in Thread /\ Idle \in Thread /\ Main # Idle /\ NULL \notin Thread
BY Zenon, ThreadAssumption DEF Thread

\* The threads besides them are the workers.
LEMMA Workers ==
  /\ \A t \in Worker : t \in Thread /\ t # Main /\ t # Idle
  /\ \A t \in Thread : t = Main \/ t = Idle \/ t \in Worker
BY Zenon, ThreadAssumption DEF Thread

\* The semaphores of tid_lock and of idle_started are told apart, and apart from
\* the others.
LEMMA SemaSets ==
  /\ TidLock \in AllSema /\ IdleStarted \in AllSema /\ TidLock # IdleStarted
  /\ NULL \notin AllSema
BY Zenon, ThreadAssumption, SemaAssumption DEF AllSema

\* The semaphores threads use of their own are neither of the two.
LEMMA OtherSemas ==
  \A s \in Sema : s \in AllSema /\ s # TidLock /\ s # IdleStarted
BY Zenon, SemaAssumption DEF AllSema

USE ThreadSets, SemaSets

\* After thread_init only the initial thread exists.
LEMMA InitIInv == Init => IInv
<1> SUFFICES ASSUME Init PROVE IInv
  BY Zenon
<1> USE DEF Init, thread_init, sema_init
<1>1. TypeOK
  <2>1. thread_ticks \in 0..(TIME_SLICE - 1)
    BY BoundAssumption
  <2>2. value \in [AllSema -> Nat] /\ waiters \in [AllSema -> Seq(Thread)]
    OBVIOUS
  <2>3. /\ status \in [Thread -> Status] /\ pc \in [Thread -> PC]
        /\ tid \in [Thread -> Nat] /\ on \in [Thread -> AllSema \cup {NULL}]
        /\ new \in [Thread -> Thread \cup {NULL}]
    BY Zenon DEF Status, PC
  <2>4. QED BY Zenon, <2>1, <2>2, <2>3 DEF TypeOK
<1>2. SomeoneRuns /\ ReadyExact /\ WaitersExact
  BY Zenon, EmptyList DEF SomeoneRuns, ReadyExact, WaitersExact
<1>3. Places
  BY Zenon DEF Places, BootPC, IdlePC
<1>4. NewExact
  BY Zenon DEF NewExact, Creating, CreatePC
<1>5. Boot
  BY Zenon, Workers DEF Boot, BootPC, CreatePC
<1>6. Tids /\ UniqueTid
  BY DEF Tids, TidPC, Named, UniqueTid
<1>7. NoLostWakeup
  BY Zenon DEF NoLostWakeup
<1>8. QED BY Zenon, <1>1, <1>2, <1>3, <1>4, <1>5, <1>6, <1>7 DEF IInv

\* What the invariant says of the running thread.
LEMMA Running ==
  ASSUME IInv
  PROVE  /\ cur \in Thread /\ status[cur] = "RUNNING" /\ pc[cur] \in PC
         /\ \A s \in AllSema : cur \notin Elems(waiters[s])
         /\ cur \notin Elems(ready_list)
         /\ \A u \in Thread : Creating(u) => new[u] \in Thread /\ new[u] # cur
<1>1. cur \in Thread /\ status[cur] = "RUNNING"
  BY Zenon DEF IInv, TypeOK, SomeoneRuns
<1>2. pc[cur] \in PC
  BY Zenon, <1>1 DEF IInv, TypeOK
<1>3. /\ \A s \in AllSema : cur \notin Elems(waiters[s])
      /\ cur \notin Elems(ready_list)
  BY Zenon, <1>1 DEF IInv, WaitersExact, ReadyExact
<1>4. \A u \in Thread : Creating(u) => new[u] \in Thread /\ new[u] # cur
  BY <1>1 DEF IInv, TypeOK, NewExact
<1>5. QED BY Zenon, <1>1, <1>2, <1>3, <1>4

\* Until the idle thread has started only main allocates a thread id.
LEMMA BootTids ==
  ASSUME IInv, idle_thread = NULL, NEW u \in Thread, pc[u] \in TidPC
  PROVE  u = Main
<1>1. u # Idle
  <2>1. pc[u] # "run" /\ pc[u] \notin IdlePC
    BY Zenon DEF TidPC, IdlePC
  <2>2. QED BY Zenon, <2>1 DEF IInv, Places
<1>2. u \notin Worker
  BY Zenon DEF IInv, Boot, Places, TidPC
<1>3. QED BY Zenon, <1>1, <1>2, Workers

\* The idle thread waits for no semaphore,
LEMMA WaiterNotIdle ==
  ASSUME IInv, NEW s \in AllSema, NEW t \in Elems(waiters[s]), t \in Thread
  PROVE  t # idle_thread
<1>1. pc[t] = "down"
  BY Zenon DEF IInv, WaitersExact
<1>2. t # Idle
  BY Zenon, <1>1 DEF IInv, Places, IdlePC
<1>3. QED BY Zenon, <1>2 DEF IInv, TypeOK

\* is no longer being created once it is known to the scheduler,
LEMMA NewNotIdle ==
  ASSUME IInv, NEW u \in Thread, Creating(u)
  PROVE  new[u] # idle_thread
<1>1. new[u] \in Thread /\ (new[u] = Idle => idle_thread = NULL)
  BY Zenon, Running DEF IInv, NewExact
<1>2. QED BY Zenon, <1>1 DEF IInv, TypeOK

\* and never exits.
LEMMA IdleAlive ==
  ASSUME IInv, idle_thread \in Thread
  PROVE  idle_thread = Idle /\ status[idle_thread] \notin {"FREE", "DYING"}
<1>1. idle_thread = Idle
  BY Zenon DEF IInv, TypeOK
<1>2. pc[Idle] # "run"
  BY Zenon, <1>1 DEF IInv, Places, IdlePC
<1>3. QED BY Zenon, <1>1, <1>2 DEF IInv, Places

\* There is a thread to switch to whenever the running thread gives the processor
\* away: until the idle thread has started, it is on the run queue.
LEMMA CanSwitch ==
  ASSUME IInv,
         \/ pc[cur] \in {"run", "down", "boot_wait", "idle_block"}
         \/ pc[cur] = "tid_acquire" /\ value[TidLock] = 0
  PROVE  idle_thread = Idle \/ ready_list # <<>>
<1> SUFFICES ASSUME idle_thread # Idle PROVE ready_list # <<>>
  BY Zenon
<1>1. idle_thread = NULL /\ cur \in Thread /\ status[cur] = "RUNNING"
  BY Zenon, Running DEF IInv, TypeOK
<1>2. cur \in {Main, Idle}
  BY Zenon, <1>1, Workers DEF IInv, Boot
<1>3. cur = Main
  BY Zenon, <1>1, <1>2 DEF IInv, Places, IdlePC
<1>4. pc[cur] # "run" /\ pc[cur] # "idle_block"
  BY Zenon, <1>1, <1>3 DEF IInv, Boot, BootPC, CreatePC
<1>5. pc[cur] # "down"
  BY Zenon, <1>1, <1>3, Running DEF IInv, Boot
<1>6. \A u \in Thread : pc[u] \in TidPC => u = Main
  BY Zenon, <1>1, BootTids
<1>7. pc[cur] # "tid_acquire"
  BY <1>3, <1>6 DEF IInv, Tids, TidPC
<1>8. pc[Main] = "boot_wait"
  BY Zenon, <1>3, <1>4, <1>5, <1>7
<1>9. status[Idle] = "READY"
  BY Zenon, <1>1, <1>3, <1>8 DEF IInv, Boot, SomeoneRuns
<1>10. Idle \in Elems(ready_list)
  BY Zenon, <1>1, <1>9 DEF IInv, ReadyExact
<1>11. QED BY Zenon, <1>10, EmptyList

\* schedule: the thread it switches to is the only one that runs, and the run
\* queue is what is left.
LEMMA Scheduled ==
  ASSUME IInv, NEW st \in {"BLOCKED", "READY", "DYING"}, NEW rl \in Seq(Thread),
         Distinct(rl), idle_thread' = idle_thread,
         \A t \in Thread : t \in Elems(rl) <=>
            \/ t # cur /\ status[t] = "READY" /\ t # idle_thread
            \/ t = cur /\ st = "READY" /\ t # idle_thread,
         idle_thread = Idle \/ rl # <<>>,
         schedule(st, rl)
  PROVE  /\ cur' \in Thread /\ status' \in [Thread -> Status]
         /\ ready_list' \in Seq(Thread) /\ thread_ticks' \in 0..(TIME_SLICE - 1)
         /\ SomeoneRuns' /\ ReadyExact'
         /\ cur' = cur \/ cur' = idle_thread \/ status[cur'] = "READY"
         /\ cur' # cur => status'[cur] = IF st = "DYING" /\ cur # Main THEN "FREE" ELSE st
         /\ \A t \in Thread \ {cur, cur'} : status'[t] = status[t]
         /\ status'[cur'] = "RUNNING"
         /\ cur' = cur => st = "READY" \/ cur = idle_thread
<1> DEFINE next == next_thread_to_run(rl)
           left == IF st = "DYING" /\ cur # Main THEN "FREE" ELSE st
<1>1. /\ cur \in Thread /\ status \in [Thread -> Status]
      /\ \A t \in Thread : status[t] = "RUNNING" <=> t = cur
  BY Zenon DEF IInv, TypeOK, SomeoneRuns
<1>2. /\ cur' = next /\ ready_list' = (IF rl = <<>> THEN rl ELSE Tail(rl))
      /\ status' = [status EXCEPT ![cur] = left, ![next] = "RUNNING"] /\ thread_ticks' = 0
  BY Zenon DEF schedule
<1>3. left \in Status \ {"RUNNING"}
  BY Zenon DEF Status
<1>4. /\ next \in Thread
      /\ next = idle_thread \/ next \in Elems(rl)
      /\ ready_list' \in Seq(Thread) /\ Distinct(ready_list')
      /\ \A t \in Thread : t \in Elems(ready_list') <=> t \in Elems(rl) /\ t # next
  <2>1. CASE rl = <<>>
    BY Zenon, <1>2, <2>1, EmptyList DEF next_thread_to_run
  <2>2. CASE rl # <<>>
    BY <1>2, <2>2, PopFront DEF next_thread_to_run
  <2>3. QED BY Zenon, <2>1, <2>2
<1> HIDE DEF next, left
<1>5. /\ status' \in [Thread -> Status] /\ status'[next] = "RUNNING"
      /\ \A t \in Thread \ {cur, next} : status'[t] = status[t]
      /\ next # cur => status'[cur] = left
  BY Zenon, <1>1, <1>2, <1>3, <1>4 DEF Status
<1>6. SomeoneRuns'
  BY Zenon, <1>1, <1>2, <1>3, <1>4, <1>5 DEF SomeoneRuns
<1>7. next # cur => (left = "READY" <=> st = "READY")
  BY Zenon DEF left
<1>8. \A t \in Thread :
        t \in Elems(ready_list') <=> status'[t] = "READY" /\ t # idle_thread
  <2> SUFFICES ASSUME NEW t \in Thread
               PROVE  t \in Elems(ready_list') <=> status'[t] = "READY" /\ t # idle_thread
    BY Zenon
  <2>1. CASE t = next
    BY Zenon, <1>4, <1>5, <2>1
  <2>2. CASE t = cur /\ t # next
    BY Zenon, <1>4, <1>5, <1>7, <2>2
  <2>3. CASE t # cur /\ t # next
    BY Zenon, <1>4, <1>5, <2>3
  <2>4. QED BY Zenon, <2>1, <2>2, <2>3
<1>9. ReadyExact'
  BY Zenon, <1>4, <1>8 DEF ReadyExact
<1>10. next = cur \/ next = idle_thread \/ status[next] = "READY"
  BY Zenon, <1>4
<1>11. next = cur => st = "READY" \/ cur = idle_thread
  BY Zenon, <1>4
<1>12. thread_ticks' \in 0..(TIME_SLICE - 1)
  BY <1>2, BoundAssumption
<1>13. QED BY Zenon, <1>2, <1>4, <1>5, <1>6, <1>9, <1>10, <1>11, <1>12 DEF left

\* thread_unblock puts a blocked thread on the run queue.
LEMMA Unblocked ==
  ASSUME IInv, NEW t \in Thread, status[t] = "BLOCKED", t # idle_thread,
         thread_unblock(t), idle_thread' = idle_thread
  PROVE  /\ status' \in [Thread -> Status] /\ ready_list' \in Seq(Thread)
         /\ UNCHANGED <<cur, thread_ticks>>
         /\ SomeoneRuns' /\ ReadyExact'
         /\ status'[t] = "READY"
         /\ \A u \in Thread \ {t} : status'[u] = status[u]
<1>1. /\ status' = [status EXCEPT ![t] = "READY"] /\ ready_list' = Append(ready_list, t)
      /\ UNCHANGED <<cur, thread_ticks>>
  BY Zenon DEF thread_unblock
<1>2. ready_list \in Seq(Thread) /\ status \in [Thread -> Status]
  BY Zenon DEF IInv, TypeOK
<1>3. t \notin Elems(ready_list) /\ t # cur
  BY Zenon DEF IInv, ReadyExact, SomeoneRuns
<1>4. /\ ready_list' \in Seq(Thread) /\ Distinct(ready_list')
      /\ Elems(ready_list') = Elems(ready_list) \cup {t}
  BY Zenon, <1>1, <1>2, <1>3, PushBack DEF IInv, ReadyExact
<1>5. /\ status' \in [Thread -> Status] /\ status'[t] = "READY"
      /\ \A u \in Thread \ {t} : status'[u] = status[u]
  BY Zenon, <1>1, <1>2 DEF Status
<1>6. SomeoneRuns'
  BY Zenon, <1>1, <1>3, <1>5 DEF IInv, SomeoneRuns
<1>7. ReadyExact'
  BY Zenon, <1>4, <1>5 DEF IInv, ReadyExact
<1>8. QED BY Zenon, <1>1, <1>4, <1>5, <1>6, <1>7

\* What counting threads needs to know of Cardinality (CountingThreads, below).
Counting ==
  /\ \A S \in SUBSET Thread : Cardinality(S) \in Nat
  /\ \A S \in SUBSET Thread, t \in Thread :
       t \notin S => Cardinality(S \cup {t}) = Cardinality(S) + 1
  /\ \A S \in SUBSET Thread, t \in Thread :
       t \in S => Cardinality(S \ {t}) = Cardinality(S) - 1

\* A step that wakes nobody and adds no unit loses no wake-up.
LEMMA WakeupsKept ==
  ASSUME Counting, IInv, waiters' = waiters, \A s \in AllSema : value'[s] <= value[s],
         \A s \in AllSema : value'[s] \in Nat,
         \A t \in Thread : /\ pc'[t] = "down" <=> pc[t] = "down"
                           /\ pc[t] = "down" => on'[t] = on[t]
  PROVE  NoLostWakeup'
<1> SUFFICES ASSUME NEW s \in AllSema, waiters[s] # <<>>
             PROVE  value'[s] <= Cardinality(Woken(s)')
  BY Zenon DEF NoLostWakeup
<1>1. Woken(s)' = Woken(s)
  BY Zenon DEF Woken
<1>2. value[s] <= Cardinality(Woken(s)) /\ value[s] \in Nat
  BY Zenon DEF IInv, NoLostWakeup, TypeOK
<1>3. Woken(s) \in SUBSET Thread
  BY Zenon DEF Woken
<1>4. QED BY <1>1, <1>2, <1>3 DEF Counting

\* A step that leaves the threads and their lists where they are.
LEMMA ListsKept ==
  ASSUME IInv, UNCHANGED <<cur, status, ready_list, idle_thread, waiters>>,
         \A t \in Thread : pc[t] = "down" => pc'[t] = "down" /\ on'[t] = on[t]
  PROVE  SomeoneRuns' /\ ReadyExact' /\ WaitersExact'
<1>1. SomeoneRuns' /\ ReadyExact'
  BY Zenon DEF IInv, SomeoneRuns, ReadyExact
<1>2. \A s \in AllSema : Elems(waiters[s]) \subseteq Thread
  BY DEF IInv, TypeOK, Elems
<1>3. WaitersExact'
  BY Zenon, <1>2 DEF IInv, WaitersExact
<1>4. QED BY Zenon, <1>1, <1>3

\* The tid of the new thread is loaded from next_tid.
LEMMA TidLoadStep == ASSUME Counting, IInv, TidLoad PROVE IInv'
<1> DEFINE t == new[cur]
<1>1. /\ cur \in Thread /\ pc[cur] = "tid_load" /\ Creating(cur)
      /\ t \in Thread /\ t # cur /\ status[t] = "BLOCKED" /\ pc[t] \in {"run", "idle_init"}
      /\ \A u \in Thread : pc[u] \in TidPC => u = cur
  BY Zenon, Running DEF TidLoad, At, Creating, CreatePC, IInv, NewExact, Tids, TidPC
<1>2. /\ UNCHANGED <<cur, status, ready_list, thread_ticks, all_list, idle_thread,
                     intr_on, value, waiters, next_tid, on, new>>
      /\ pc' \in [Thread -> PC] /\ pc'[cur] = "tid_store"
      /\ \A u \in Thread \ {cur} : pc'[u] = pc[u]
      /\ tid' \in [Thread -> Nat] /\ tid'[t] = next_tid
      /\ \A u \in Thread \ {t} : tid'[u] = tid[u]
  BY Zenon, <1>1 DEF TidLoad, Goto, sched, sema, IInv, TypeOK, PC
<1> HIDE DEF t
<1>3. TypeOK'
  BY Zenon, <1>2 DEF IInv, TypeOK
<1>4. SomeoneRuns' /\ ReadyExact' /\ WaitersExact'
  BY Zenon, <1>1, <1>2, ListsKept
<1>5. Places'
  BY <1>1, <1>2 DEF IInv, Places, BootPC, IdlePC
<1>6. \A u \in Thread : Creating(u)' <=> Creating(u)
  BY Zenon, <1>1, <1>2 DEF Creating, CreatePC
<1>7. NewExact'
  <2>1. \A u \in Thread : Creating(u) => new[u] \in Thread /\ new[u] # cur
    BY Zenon, Running
  <2>2. QED BY Zenon, <1>2, <1>6, <2>1 DEF IInv, NewExact
<1>8. Boot'
  BY Zenon, <1>1, <1>2 DEF IInv, Boot, BootPC, CreatePC
<1>9. Tids'
  <2>1. \A u \in Thread : pc'[u] \in TidPC <=> pc[u] \in TidPC
    BY Zenon, <1>1, <1>2 DEF TidPC
  <2>2. \A u \in Thread : pc'[u] = "tid_store" => u = cur
    BY Zenon, <1>1, <1>2 DEF TidPC
  <2>3. \A u \in Thread : u \in Named' /\ u # t => u \in Named
    BY Zenon, <1>2 DEF Named
  <2>4. \A u \in Named' : tid'[u] < next_tid \/ u = t
    BY Zenon, <1>1, <1>2, <2>3 DEF IInv, Tids, Named, TidPC
  <2>5. \A u \in Named' : \/ tid'[u] < next_tid
                          \/ \E v \in Thread : pc'[v] = "tid_store" /\ new[v] = u
    BY Zenon, <1>1, <1>2, <2>4 DEF t
  <2>6. QED BY <1>1, <1>2, <2>1, <2>2, <2>5 DEF IInv, Tids, t
<1>10. UniqueTid'
  <2>1. \A u \in Named' : u \in Thread
    BY Zenon DEF Named
  <2>2. \A u \in Named' : u # t => u \in Named /\ tid'[u] = tid[u] /\ tid[u] < next_tid
    BY Zenon, <1>1, <1>2 DEF IInv, Tids, Named, TidPC
  <2>3. tid'[t] = next_tid /\ next_tid \in Nat /\ \A u \in Thread : tid[u] \in Nat
    BY Zenon, <1>2 DEF IInv, TypeOK
  <2>4. QED BY <2>1, <2>2, <2>3 DEF IInv, UniqueTid
<1>11. NoLostWakeup'
  <2>1. \A s \in AllSema : value'[s] <= value[s] /\ value'[s] \in Nat
    BY <1>2 DEF IInv, TypeOK
  <2>2. \A u \in Thread : pc'[u] = "down" <=> pc[u] = "down"
    BY Zenon, <1>1, <1>2
  <2>3. QED BY Zenon, <1>2, <2>1, <2>2, WakeupsKept
<1>12. QED BY Zenon, <1>3, <1>4, <1>5, <1>7, <1>8, <1>9, <1>10, <1>11 DEF IInv

\* next_tid is stored, one above the tid that was loaded from it.
LEMMA TidStoreStep == ASSUME Counting, IInv, TidStore PROVE IInv'
<1> DEFINE t == new[cur]
<1>1. /\ cur \in Thread /\ pc[cur] = "tid_store" /\ Creating(cur)
      /\ t \in Thread /\ t # cur /\ tid[t] = next_tid
      /\ \A u \in Thread : pc[u] \in TidPC => u = cur
  BY Zenon, Running DEF TidStore, At, Creating, CreatePC, IInv, NewExact, Tids, TidPC
<1>2. /\ UNCHANGED <<cur, status, ready_list, thread_ticks, all_list, idle_thread,
                     intr_on, value, waiters, tid, on, new>>
      /\ pc' \in [Thread -> PC] /\ pc'[cur] = "tid_release"
      /\ \A u \in Thread \ {cur} : pc'[u] = pc[u]
      /\ next_tid' = next_tid + 1 /\ next_tid \in Nat
  BY Zenon, <1>1 DEF TidStore, Goto, sched, sema, IInv, TypeOK, PC
<1> HIDE DEF t
<1>3. TypeOK'
  BY <1>2 DEF IInv, TypeOK
<1>4. SomeoneRuns' /\ ReadyExact' /\ WaitersExact'
  BY Zenon, <1>1, <1>2, ListsKept
<1>5. Places'
  BY Zenon, <1>1, <1>2 DEF IInv, Places, BootPC, IdlePC
<1>6. \A u \in Thread : Creating(u)' <=> Creating(u)
  BY Zenon, <1>1, <1>2 DEF Creating, CreatePC
<1>7. NewExact'
  <2>1. \A u \in Thread : Creating(u) => new[u] \in Thread /\ new[u] # cur
    BY Zenon, Running
  <2>2. QED BY Zenon, <1>2, <1>6, <2>1 DEF IInv, NewExact
<1>8. Boot'
  BY Zenon, <1>1, <1>2 DEF IInv, Boot, BootPC, CreatePC
<1>9. Tids'
  <2>1. \A u \in Thread : pc'[u] \in TidPC <=> pc[u] \in TidPC
    BY Zenon, <1>1, <1>2 DEF TidPC
  <2>2. \A u \in Thread : pc'[u] # "tid_store"
    BY Zenon, <1>1, <1>2 DEF TidPC
  <2>3. \A u \in Named' : u \in Named /\ u \in Thread /\ tid[u] \in Nat
    BY Zenon, <1>2 DEF Named, IInv, TypeOK
  <2>4. \A u \in Named : tid[u] < next_tid \/ tid[u] = next_tid
    BY <1>1 DEF IInv, Tids
  <2>5. \A u \in Named' : tid'[u] < next_tid'
    BY <1>2, <2>3, <2>4
  <2>6. QED BY <1>2, <2>1, <2>2, <2>5 DEF IInv, Tids
<1>10. UniqueTid'
  BY Zenon, <1>2 DEF IInv, UniqueTid, Named
<1>11. NoLostWakeup'
  <2>1. \A s \in AllSema : value'[s] <= value[s] /\ value'[s] \in Nat
    BY <1>2 DEF IInv, TypeOK
  <2>2. \A u \in Thread : pc'[u] = "down" <=> pc[u] = "down"
    BY Zenon, <1>1, <1>2
  <2>3. QED BY Zenon, <1>2, <2>1, <2>2, WakeupsKept
<1>12. QED BY Zenon, <1>3, <1>4, <1>5, <1>7, <1>8, <1>9, <1>10, <1>11 DEF IInv

\* A step of the running thread that leaves threads, lists and tids alone and is
\* no step of thread_create.
LEMMA PlainStep ==
  ASSUME Counting, IInv,
         UNCHANGED <<cur, status, ready_list, all_list, idle_thread, waiters, tid,
                     next_tid, on, new>>,
         thread_ticks' \in 0..(TIME_SLICE - 1), intr_on' \in BOOLEAN,
         value' \in [AllSema -> Nat], \A s \in AllSema : value'[s] <= value[s],
         value'[TidLock] = value[TidLock],
         pc' \in [Thread -> PC], \A u \in Thread \ {cur} : pc'[u] = pc[u],
         \/ pc'[cur] = pc[cur]
         \/ pc[cur] = "boot_enable" /\ pc'[cur] = "boot_wait"
         \/ pc[cur] = "idle_hlt" /\ pc'[cur] = "idle_block"
  PROVE  IInv'
<1>0. cur \in Thread
  BY Zenon, Running
<1>1. TypeOK'
  BY Zenon DEF IInv, TypeOK
<1>2. \A u \in Thread : pc'[u] = "down" <=> pc[u] = "down"
  BY Zenon, <1>0
<1>3. SomeoneRuns' /\ ReadyExact' /\ WaitersExact'
  BY Zenon, <1>2, ListsKept
<1>4. Places'
  BY <1>0 DEF IInv, Places, BootPC, IdlePC
<1>5. \A u \in Thread : Creating(u)' <=> Creating(u)
  BY Zenon, <1>0 DEF Creating, CreatePC
<1>6. NewExact'
  <2>1. \A u \in Thread : Creating(u) => new[u] \in Thread /\ new[u] # cur
    BY Zenon, Running
  <2>2. QED BY Zenon, <1>5, <2>1 DEF IInv, NewExact
<1>7. Boot'
  <2>1. value'[IdleStarted] <= value[IdleStarted] /\ value'[IdleStarted] \in Nat
    BY Zenon
  <2>2. QED BY <1>0, <2>1 DEF IInv, Boot, BootPC, CreatePC
<1>8. Tids'
  <2>1. \A u \in Thread : /\ pc'[u] \in TidPC <=> pc[u] \in TidPC
                          /\ pc'[u] = "tid_store" <=> pc[u] = "tid_store"
    BY Zenon, <1>0 DEF TidPC
  <2>2. Named' = Named
    BY Zenon DEF Named
  <2>3. QED BY <2>1, <2>2 DEF IInv, Tids
<1>9. UniqueTid'
  BY Zenon DEF IInv, UniqueTid, Named
<1>10. NoLostWakeup'
  BY Zenon, <1>2, WakeupsKept
<1>11. QED BY Zenon, <1>1, <1>3, <1>4, <1>6, <1>7, <1>8, <1>9, <1>10 DEF IInv

\* The idle thread makes itself known to the scheduler.
LEMMA IdleInitStep == ASSUME Counting, IInv, IdleInit PROVE IInv'
<1>1. /\ cur \in Thread /\ pc[cur] = "idle_init" /\ cur = Idle /\ status[cur] = "RUNNING"
  BY Zenon, Running DEF IdleInit, At, IInv, Places, IdlePC
<1>2. /\ UNCHANGED <<cur, status, ready_list, thread_ticks, all_list, intr_on, value,
                     waiters, tid, next_tid, on, new>>
      /\ idle_thread' = Idle
      /\ pc' \in [Thread -> PC] /\ pc'[Idle] = "idle_up"
      /\ \A u \in Thread \ {Idle} : pc'[u] = pc[u]
  BY Zenon, <1>1 DEF IdleInit, Goto, sched, sema, tids, IInv, TypeOK, PC
<1>3. TypeOK'
  BY Zenon, <1>2 DEF IInv, TypeOK
<1>4. SomeoneRuns' /\ ReadyExact'
  <2>1. idle_thread \in {NULL, Idle}
    BY Zenon DEF IInv, TypeOK
  <2>2. QED BY Zenon, <1>1, <1>2, <2>1 DEF IInv, SomeoneRuns, ReadyExact
<1>5. WaitersExact'
  <2>1. \A s \in AllSema : Elems(waiters[s]) \subseteq Thread
    BY DEF IInv, TypeOK, Elems
  <2>2. QED BY <1>1, <1>2, <2>1 DEF IInv, WaitersExact
<1>6. Places'
  BY Zenon, <1>1, <1>2 DEF IInv, Places, BootPC, IdlePC
<1>7. \A u \in Thread : Creating(u)' <=> Creating(u)
  BY Zenon, <1>1, <1>2 DEF Creating, CreatePC
<1>8. NewExact'
  <2>1. \A u \in Thread : Creating(u) => new[u] \in Thread /\ new[u] # cur
    BY Zenon, Running
  <2>2. QED BY Zenon, <1>1, <1>2, <1>7, <2>1 DEF IInv, NewExact
<1>9. Boot'
  BY Zenon, <1>2 DEF Boot
<1>10. Tids'
  <2>1. \A u \in Thread : /\ pc'[u] \in TidPC <=> pc[u] \in TidPC
                          /\ pc'[u] = "tid_store" <=> pc[u] = "tid_store"
    BY Zenon, <1>1, <1>2 DEF TidPC
  <2>2. Named' = Named
    BY Zenon, <1>2 DEF Named
  <2>3. QED BY <1>2, <2>1, <2>2 DEF IInv, Tids
<1>11. UniqueTid'
  BY Zenon, <1>2 DEF IInv, UniqueTid, Named
<1>12. NoLostWakeup'
  BY <1>1, <1>2, WakeupsKept DEF IInv, TypeOK
<1>13. QED
  BY Zenon, <1>3, <1>4, <1>5, <1>6, <1>8, <1>9, <1>10, <1>11, <1>12 DEF IInv

\* thread_create takes a page nothing refers to.
LEMMA CreateStep ==
  ASSUME Counting, IInv, NEW t \in Thread, thread_create(t),
         \/ pc[cur] = "boot" /\ t = Idle
         \/ pc[cur] = "run" /\ t \in Worker
  PROVE  IInv'
<1>1. /\ cur \in Thread /\ status[cur] = "RUNNING" /\ status[t] = "FREE" /\ t # cur
      /\ pc[cur] \in {"boot", "run"} /\ pc[t] = "run"
  BY Zenon, Running DEF thread_create, IInv, Places
<1>2. ~Creating(cur) /\ ~Creating(t)
  BY Zenon, <1>1 DEF Creating, CreatePC
<1>3. t # Main
  BY Zenon, <1>1 DEF IInv, Places
<1>4. /\ UNCHANGED <<cur, ready_list, idle_thread, thread_ticks, intr_on, value,
                     waiters, next_tid, on>>
      /\ all_list' = all_list \cup {t}
  BY Zenon DEF thread_create, sema
<1>5. /\ status' \in [Thread -> Status] /\ tid' \in [Thread -> Nat]
      /\ pc' \in [Thread -> PC] /\ new' \in [Thread -> Thread \cup {NULL}]
  BY Zenon, <1>1 DEF thread_create, IInv, TypeOK, PC, Status
<1>6. status'[t] = "BLOCKED" /\ \A u \in Thread : u # t => status'[u] = status[u]
  BY Zenon, <1>1 DEF thread_create, IInv, TypeOK
<1>7. tid'[t] = 0 /\ \A u \in Thread : u # t => tid'[u] = tid[u]
  BY Zenon, <1>1 DEF thread_create, IInv, TypeOK
<1>8. /\ pc'[cur] = "tid_acquire" /\ pc'[t] = IF t = Idle THEN "idle_init" ELSE "run"
      /\ \A u \in Thread : u # t /\ u # cur => pc'[u] = pc[u]
  BY Zenon, <1>1 DEF thread_create, IInv, TypeOK
<1>9. new'[cur] = t /\ \A u \in Thread : u # cur => new'[u] = new[u]
  BY Zenon, <1>1 DEF thread_create, IInv, TypeOK
<1>10. TypeOK'
  BY <1>4, <1>5, Zenon DEF IInv, TypeOK
<1>11. SomeoneRuns'
  BY Zenon, <1>1, <1>4, <1>6 DEF IInv, SomeoneRuns
<1>12. ReadyExact'
  <2>1. t \notin Elems(ready_list)
    BY Zenon, <1>1 DEF IInv, ReadyExact
  <2>2. QED BY Zenon, <1>4, <1>6, <2>1 DEF IInv, ReadyExact
<1>13. WaitersExact'
  <2>1. \A s \in AllSema : Elems(waiters[s]) \subseteq Thread
    BY DEF IInv, TypeOK, Elems
  <2>2. \A s \in AllSema : \A u \in Elems(waiters[s]) : u # t /\ u # cur
    BY <1>1 DEF IInv, WaitersExact
  <2>3. \A s \in AllSema : \A u \in Elems(waiters[s]) :
          status'[u] = "BLOCKED" /\ pc'[u] = "down" /\ on[u] = s
    BY <1>6, <1>8, <2>1, <2>2 DEF IInv, WaitersExact
  <2>4. QED BY Zenon, <1>4, <2>3 DEF IInv, WaitersExact
<1>14. \A u \in Thread : pc'[u] = "down" <=> pc[u] = "down"
  BY Zenon, <1>1, <1>8
<1>15. Places'
  <2>1. \A u \in Thread : pc'[u] = "down" <=> on'[u] # NULL
    BY Zenon, <1>4, <1>14 DEF IInv, Places
  <2>2. \A u \in Thread : status'[u] \in {"FREE", "DYING"} => pc'[u] = "run"
    BY Zenon, <1>1, <1>6, <1>8 DEF IInv, Places
  <2>3. \A u \in Thread : pc'[u] \in BootPC => u = Main
    BY Zenon, <1>1, <1>8 DEF IInv, Places, BootPC
  <2>4. \A u \in Thread : pc'[u] \in IdlePC <=> u = Idle /\ status'[u] # "FREE"
    BY <1>1, <1>6, <1>8 DEF IInv, Places, IdlePC
  <2>5. \A u \in Thread : u \in all_list' <=> status'[u] \notin {"FREE", "DYING"}
    BY Zenon, <1>4, <1>6 DEF IInv, Places
  <2>6. status'[Main] # "FREE"
    BY Zenon, <1>3, <1>6 DEF IInv, Places
  <2>7. idle_thread' = Idle <=> pc'[Idle] \in IdlePC \ {"idle_init"}
    <3>1. CASE t = Idle
      BY Zenon, <1>1, <1>4, <1>8, <3>1 DEF IInv, Places, IdlePC
    <3>2. CASE t # Idle
      BY Zenon, <1>1, <1>4, <1>8, <3>2 DEF IInv, Places, IdlePC
    <3>3. QED BY Zenon, <3>1, <3>2
  <2>8. QED BY Zenon, <2>1, <2>2, <2>3, <2>4, <2>5, <2>6, <2>7 DEF Places
<1>16. \A u \in Thread : Creating(u)' <=> Creating(u) \/ u = cur
  <2> SUFFICES ASSUME NEW u \in Thread PROVE Creating(u)' <=> Creating(u) \/ u = cur
    BY Zenon
  <2>1. CASE u = cur
    BY Zenon, <1>4, <1>8, <2>1 DEF Creating, CreatePC
  <2>2. CASE u = t
    BY Zenon, <1>1, <1>2, <1>4, <1>8, <2>2 DEF Creating, CreatePC
  <2>3. CASE u # t /\ u # cur
    BY Zenon, <1>4, <1>8, <2>3 DEF Creating
  <2>4. QED BY Zenon, <2>1, <2>2, <2>3
<1>17. NewExact'
  <2>1. \A u \in Thread : Creating(u) =>
          /\ u # cur /\ new'[u] = new[u] /\ new[u] \in Thread /\ new[u] # cur
          /\ new[u] # t
    BY Zenon, <1>1, <1>2, <1>9, Running DEF IInv, NewExact
  <2>2. \A u \in Thread : new'[u] # NULL <=> Creating(u)'
    BY <1>9, <1>16 DEF IInv, NewExact
  <2>3. \A u, v \in Thread : Creating(u)' /\ Creating(v)' /\ new'[v] = new'[u] => v = u
    BY <1>9, <1>16, <2>1 DEF IInv, NewExact
  <2>4. \A u \in Thread : Creating(u)' =>
          status'[new'[u]] = "BLOCKED" /\ pc'[new'[u]] \in {"run", "idle_init"}
    <3>1. status'[t] = "BLOCKED" /\ pc'[t] \in {"run", "idle_init"}
      BY Zenon, <1>6, <1>8
    <3>2. \A u \in Thread : Creating(u) =>
            status'[new'[u]] = "BLOCKED" /\ pc'[new'[u]] \in {"run", "idle_init"}
      BY <1>6, <1>8, <2>1 DEF IInv, NewExact
    <3>3. QED BY Zenon, <1>9, <1>16, <3>1, <3>2
  <2>5. t = Idle => idle_thread = NULL
    BY Zenon, <1>1 DEF IInv, Places, IdlePC, TypeOK
  <2>6. \A u \in Thread : Creating(u)' /\ new'[u] = Idle => idle_thread' = NULL
    BY Zenon, <1>4, <1>9, <1>16, <2>1, <2>5 DEF IInv, NewExact
  <2>7. QED BY <2>2, <2>3, <2>4, <2>6, Zenon DEF NewExact
<1>18. Boot'
  <2> SUFFICES ASSUME idle_thread = NULL PROVE Boot'
    BY Zenon, <1>4 DEF Boot
  <2>1. pc[Main] # "run" /\ \A u \in Worker : status[u] = "FREE"
    BY Zenon DEF IInv, Boot, BootPC, CreatePC
  <2>2. cur # Idle
    BY Zenon, <1>1 DEF IInv, Places, IdlePC
  <2>3. cur = Main
    BY Zenon, <1>1, <2>1, <2>2, Workers
  <2>4. t = Idle
    BY Zenon, <2>1, <2>3
  <2>5. \A u \in Worker : status'[u] = "FREE"
    BY Zenon, <1>6, <2>1, <2>4, Workers
  <2>6. value[IdleStarted] = 0
    BY Zenon DEF IInv, Boot
  <2>7. QED BY Zenon, <1>4, <1>8, <1>9, <2>3, <2>4, <2>5, <2>6 DEF Boot, BootPC, CreatePC
<1>19. Tids'
  <2>1. \A u \in Thread : /\ pc'[u] \in TidPC <=> pc[u] \in TidPC
                          /\ pc'[u] = "tid_store" <=> pc[u] = "tid_store"
    BY Zenon, <1>1, <1>8 DEF TidPC
  <2>2. \A u \in Named' : u \in Named /\ u # t /\ tid'[u] = tid[u]
    BY Zenon, <1>6, <1>7 DEF Named
  <2>3. \A u \in Thread : pc[u] = "tid_store" =>
          u # cur /\ new'[u] = new[u] /\ new[u] \in Thread /\ new[u] # t
    BY Zenon, <1>1, <1>2, <1>9, Running DEF IInv, NewExact, Creating, CreatePC
  <2>4. \A u \in Thread : pc'[u] = "tid_store" => tid'[new'[u]] = next_tid'
    BY <1>4, <1>7, <2>1, <2>3 DEF IInv, Tids
  <2>5. \A u \in Named' : \/ tid'[u] < next_tid'
                          \/ \E v \in Thread : pc'[v] = "tid_store" /\ new'[v] = u
    BY <1>4, <2>1, <2>2, <2>3 DEF IInv, Tids
  <2>6. /\ value'[TidLock] \in {0, 1} /\ next_tid' > 0
        /\ value'[TidLock] = 1 <=> \A u \in Thread : pc'[u] \notin TidPC
        /\ \A u, v \in Thread : pc'[u] \in TidPC /\ pc'[v] \in TidPC => u = v
    BY Zenon, <1>4, <2>1 DEF IInv, Tids
  <2>7. QED BY Zenon, <2>4, <2>5, <2>6 DEF Tids
<1>20. UniqueTid'
  <2>1. \A u \in Named' : u \in Named /\ tid'[u] = tid[u]
    BY Zenon, <1>6, <1>7 DEF Named
  <2>2. QED BY Zenon, <2>1 DEF IInv, UniqueTid
<1>21. NoLostWakeup'
  <2>1. \A s \in AllSema : value'[s] <= value[s] /\ value'[s] \in Nat
    BY <1>4 DEF IInv, TypeOK
  <2>2. QED BY Zenon, <1>4, <1>14, <2>1, WakeupsKept
<1>22. QED
  BY Zenon, <1>10, <1>11, <1>12, <1>13, <1>15, <1>17, <1>18, <1>19, <1>20, <1>21 DEF IInv

\* Where a thread calls sema_down(s): from allocate_tid, from thread_start, of its
\* own, or again after a wake-up.
CallsDown(s) ==
  \/ pc[cur] = "tid_acquire" /\ s = TidLock
  \/ pc[cur] = "boot_wait" /\ s = IdleStarted
  \/ pc[cur] = "run" /\ s \in Sema
  \/ pc[cur] = "down" /\ s = on[cur]

\* The idle thread calls no sema_down, and until it runs only main does.
LEMMA DownCaller ==
  ASSUME IInv, NEW s \in AllSema, CallsDown(s)
  PROVE  /\ cur # Idle /\ cur # idle_thread
         /\ pc[cur] \notin TidPC /\ pc[cur] \notin IdlePC
         /\ Creating(cur) <=> s = TidLock
         /\ idle_thread = NULL =>
              /\ cur = Main
              /\ \/ pc[Main] = "tid_acquire" /\ s = TidLock /\ value[TidLock] = 1
                 \/ pc[Main] = "boot_wait" /\ s = IdleStarted /\ value[IdleStarted] = 0
<1>1. cur \in Thread /\ status[cur] = "RUNNING"
  BY Zenon, Running
<1>2. pc[cur] \notin TidPC /\ pc[cur] \notin IdlePC
  BY Zenon DEF CallsDown, TidPC, IdlePC
<1>3. cur # Idle /\ cur # idle_thread
  BY Zenon, <1>1, <1>2 DEF IInv, Places, TypeOK
<1>4. Creating(cur) <=> s = TidLock
  BY Zenon, OtherSemas DEF CallsDown, Creating, CreatePC
<1>5. ASSUME idle_thread = NULL
      PROVE  /\ cur = Main
             /\ \/ pc[Main] = "tid_acquire" /\ s = TidLock /\ value[TidLock] = 1
                \/ pc[Main] = "boot_wait" /\ s = IdleStarted /\ value[IdleStarted] = 0
  <2>1. cur = Main
    BY Zenon, <1>1, <1>3, <1>5, Workers DEF IInv, Boot
  <2>2. pc[Main] # "down" /\ pc[Main] # "run" /\ value[IdleStarted] = 0
    BY Zenon, <1>5, <2>1, Running DEF IInv, Boot, BootPC, CreatePC
  <2>3. \A u \in Thread : pc[u] \in TidPC => u = Main
    BY Zenon, <1>5, BootTids
  <2>4. pc[Main] = "tid_acquire" => value[TidLock] = 1
    BY Zenon, <1>2, <2>1, <2>3 DEF IInv, Tids
  <2>5. QED BY Zenon, <2>1, <2>2, <2>4 DEF CallsDown
<1>6. QED BY Zenon, <1>2, <1>3, <1>4, <1>5

\* The two ways through sema_down: take a unit, or queue the thread and switch.
TakesUnit(s) ==
  /\ value[s] > 0 /\ value' = [value EXCEPT ![s] = @ - 1]
  /\ Goto(AfterDown(s)) /\ on' = [on EXCEPT ![cur] = NULL]
  /\ UNCHANGED <<waiters, sched, all_list, idle_thread, intr_on, tids, new>>

QueuesItself(s) ==
  /\ value[s] = 0 /\ waiters' = [waiters EXCEPT ![s] = Append(@, cur)]
  /\ Goto("down") /\ on' = [on EXCEPT ![cur] = s] /\ thread_block
  /\ UNCHANGED <<value, all_list, idle_thread, intr_on, tids, new>>

\* sema_down finds a unit and takes it: a thread that was woken for it is one
\* woken thread fewer, and there is one unit fewer.
LEMMA TakeStep ==
  ASSUME Counting, IInv, NEW s \in AllSema, CallsDown(s), TakesUnit(s)
  PROVE  IInv'
<1>1. cur \in Thread /\ status[cur] = "RUNNING" /\ \A q \in AllSema : cur \notin Elems(waiters[q])
  BY Zenon, Running
<1>2. UNCHANGED <<cur, status, ready_list, thread_ticks, all_list, idle_thread,
                  intr_on, waiters, tid, next_tid, new>>
  BY Zenon DEF TakesUnit, sched, tids
<1>3. /\ value' \in [AllSema -> Nat] /\ value[s] > 0 /\ value'[s] = value[s] - 1
      /\ \A q \in AllSema : q # s => value'[q] = value[q]
  BY DEF TakesUnit, IInv, TypeOK
<1>4. /\ pc' \in [Thread -> PC] /\ pc'[cur] = AfterDown(s)
      /\ \A u \in Thread : u # cur => pc'[u] = pc[u]
  BY Zenon, <1>1 DEF TakesUnit, Goto, AfterDown, IInv, TypeOK, PC
<1>5. /\ on' \in [Thread -> AllSema \cup {NULL}] /\ on'[cur] = NULL
      /\ \A u \in Thread : u # cur => on'[u] = on[u]
  BY Zenon, <1>1 DEF TakesUnit, IInv, TypeOK
<1>6. TypeOK'
  BY <1>2, <1>3, <1>4, <1>5, Zenon DEF IInv, TypeOK
<1>7. SomeoneRuns' /\ ReadyExact'
  BY Zenon, <1>2 DEF IInv, SomeoneRuns, ReadyExact
<1>8. WaitersExact'
  <2>1. \A q \in AllSema : Elems(waiters[q]) \subseteq Thread
    BY DEF IInv, TypeOK, Elems
  <2>2. \A q \in AllSema : \A u \in Elems(waiters[q]) : u # cur /\ pc'[u] = pc[u] /\ on'[u] = on[u]
    BY Zenon, <1>1, <1>4, <1>5, <2>1
  <2>3. QED BY <1>2, <2>2 DEF IInv, WaitersExact
<1>9. /\ pc'[cur] \in {"tid_load", "run"} /\ (pc'[cur] = "tid_load" <=> s = TidLock)
      /\ cur # Idle
  BY Zenon, <1>4, DownCaller DEF AfterDown
<1>10. Places'
  <2>1. \A u \in Thread : pc'[u] = "down" <=> on'[u] # NULL
    BY Zenon, <1>4, <1>5, <1>9 DEF IInv, Places
  <2>2. \A u \in Thread : status'[u] \in {"FREE", "DYING"} => pc'[u] = "run"
    BY Zenon, <1>1, <1>2, <1>4 DEF IInv, Places
  <2>3. \A u \in Thread : pc'[u] \in BootPC => u = Main
    BY Zenon, <1>4, <1>9 DEF IInv, Places, BootPC
  <2>4. \A u \in Thread : pc'[u] \in IdlePC <=> u = Idle /\ status'[u] # "FREE"
    BY Zenon, <1>2, <1>4, <1>9 DEF IInv, Places, IdlePC
  <2>5. QED BY Zenon, <1>2, <1>4, <1>9, <2>1, <2>2, <2>3, <2>4 DEF IInv, Places
<1>11. \A u \in Thread : Creating(u)' <=> Creating(u)
  <2> SUFFICES ASSUME NEW u \in Thread PROVE Creating(u)' <=> Creating(u)
    BY Zenon
  <2>1. CASE u = cur
    <3>1. Creating(u)' <=> s = TidLock
      BY Zenon, <1>2, <1>9, <2>1 DEF Creating, CreatePC
    <3>2. Creating(cur) <=> s = TidLock
      BY Zenon, DownCaller
    <3>3. QED BY Zenon, <2>1, <3>1, <3>2
  <2>2. CASE u # cur
    BY Zenon, <1>4, <1>5, <2>2 DEF Creating
  <2>3. QED BY Zenon, <2>1, <2>2
<1>12. NewExact'
  <2>1. \A u \in Thread : Creating(u) => new[u] \in Thread /\ new[u] # cur
    BY Zenon, Running
  <2>2. \A u \in Thread : Creating(u) => pc'[new[u]] = pc[new[u]]
    BY Zenon, <1>4, <2>1
  <2>3. QED BY Zenon, <1>2, <1>11, <2>2 DEF IInv, NewExact
<1>13. Boot'
  <2> SUFFICES ASSUME idle_thread = NULL PROVE Boot'
    BY Zenon, <1>2 DEF Boot
  <2>1. cur = Main /\ pc[Main] = "tid_acquire" /\ s = TidLock
    BY <1>3, DownCaller
  <2>2. pc'[Main] = "tid_load" /\ value'[IdleStarted] = value[IdleStarted]
    BY Zenon, <1>3, <1>9, <2>1
  <2>3. QED BY Zenon, <1>2, <2>1, <2>2 DEF IInv, Boot, BootPC, CreatePC
<1>14. Tids'
  <2>1. Named' = Named
    BY Zenon, <1>2 DEF Named
  <2>2. pc[cur] \notin TidPC
    BY Zenon, DownCaller
  <2>3. \A u \in Thread : pc'[u] = "tid_store" <=> pc[u] = "tid_store"
    BY Zenon, <1>4, <1>9, <2>2 DEF TidPC
  <2>4. /\ \A u \in Thread : pc'[u] = "tid_store" => tid'[new'[u]] = next_tid'
        /\ \A u \in Named' : \/ tid'[u] < next_tid'
                             \/ \E v \in Thread : pc'[v] = "tid_store" /\ new'[v] = u
        /\ next_tid' > 0
    BY Zenon, <1>2, <2>1, <2>3 DEF IInv, Tids
  <2>5. CASE s = TidLock
    <3>1. value[TidLock] \in {0, 1}
      BY Zenon DEF IInv, Tids
    <3>2. value[TidLock] = 1 /\ value'[TidLock] = 0
      BY <1>3, <2>5, <3>1
    <3>3. \A u \in Thread : pc[u] \notin TidPC
      BY Zenon, <3>2 DEF IInv, Tids
    <3>4. \A u \in Thread : pc'[u] \in TidPC <=> u = cur
      BY Zenon, <1>4, <1>9, <2>5, <3>3 DEF TidPC
    <3>5. QED BY <1>1, <2>4, <3>2, <3>4 DEF Tids
  <2>6. CASE s # TidLock
    <3>1. \A u \in Thread : pc'[u] \in TidPC <=> pc[u] \in TidPC
      BY Zenon, <1>4, <1>9, <2>2, <2>6 DEF TidPC
    <3>2. value'[TidLock] = value[TidLock]
      BY Zenon, <1>3, <2>6
    <3>3. QED BY Zenon, <2>4, <3>1, <3>2 DEF IInv, Tids
  <2>7. QED BY Zenon, <2>5, <2>6
<1>15. UniqueTid'
  BY Zenon, <1>2 DEF IInv, UniqueTid, Named
<1>16. NoLostWakeup'
  <2> SUFFICES ASSUME NEW q \in AllSema, waiters[q] # <<>>
               PROVE  value'[q] <= Cardinality(Woken(q)')
    BY Zenon, <1>2 DEF NoLostWakeup
  <2>1. /\ value[q] <= Cardinality(Woken(q)) /\ value[q] \in Nat /\ value'[q] \in Nat
        /\ Woken(q) \in SUBSET Thread /\ Cardinality(Woken(q)) \in Nat
    BY Zenon, <1>3 DEF IInv, NoLostWakeup, TypeOK, Counting, Woken
  <2>2. pc'[cur] # "down"
    BY Zenon, <1>9
  <2>3. CASE q = s /\ pc[cur] = "down"
    <3>1. cur \in Woken(q)
      BY Zenon, <1>1, <2>3 DEF Woken, CallsDown
    <3>2. Woken(q)' = Woken(q) \ {cur}
      BY Zenon, <1>2, <1>4, <1>5, <2>2 DEF Woken
    <3>3. Cardinality(Woken(q)') = Cardinality(Woken(q)) - 1
      BY Zenon, <1>1, <2>1, <3>1, <3>2 DEF Counting
    <3>4. QED BY <1>3, <2>1, <2>3, <3>3
  <2>4. CASE ~(q = s /\ pc[cur] = "down")
    <3>1. cur \notin Woken(q)
      BY Zenon, <2>4 DEF Woken, CallsDown
    <3>2. Woken(q)' = Woken(q)
      BY Zenon, <1>2, <1>4, <1>5, <2>2, <3>1 DEF Woken
    <3>3. value'[q] <= value[q]
      BY <1>3, <2>1
    <3>4. QED BY <2>1, <3>2, <3>3
  <2>5. QED BY Zenon, <2>3, <2>4
<1>17. QED
  BY Zenon, <1>6, <1>7, <1>8, <1>10, <1>12, <1>13, <1>14, <1>15, <1>16 DEF IInv

\* sema_down finds no unit: the thread queues itself and gives the processor away.
LEMMA BlockStep ==
  ASSUME Counting, IInv, NEW s \in AllSema, CallsDown(s), QueuesItself(s)
  PROVE  IInv'
<1>1. /\ cur \in Thread /\ status[cur] = "RUNNING"
      /\ cur # idle_thread /\ cur # Idle /\ cur \notin Elems(ready_list)
      /\ \A q \in AllSema : cur \notin Elems(waiters[q])
  BY Zenon, Running, DownCaller
<1>2. idle_thread = Idle \/ ready_list # <<>>
  BY Zenon, CanSwitch DEF CallsDown, QueuesItself
<1>3. /\ cur' \in Thread /\ status' \in [Thread -> Status]
      /\ ready_list' \in Seq(Thread) /\ thread_ticks' \in 0..(TIME_SLICE - 1)
      /\ SomeoneRuns' /\ ReadyExact'
      /\ cur' = idle_thread \/ status[cur'] = "READY"
      /\ cur' # cur /\ status'[cur] = "BLOCKED" /\ status'[cur'] = "RUNNING"
      /\ \A t \in Thread \ {cur, cur'} : status'[t] = status[t]
  <2>1. ready_list \in Seq(Thread) /\ Distinct(ready_list)
    BY Zenon DEF IInv, TypeOK, ReadyExact
  <2>2. \A t \in Thread : t \in Elems(ready_list) <=>
            \/ t # cur /\ status[t] = "READY" /\ t # idle_thread
            \/ t = cur /\ "BLOCKED" = "READY" /\ t # idle_thread
    BY Zenon, <1>1 DEF IInv, ReadyExact
  <2>3. schedule("BLOCKED", ready_list) /\ idle_thread' = idle_thread
    BY Zenon DEF QueuesItself, thread_block
  <2>4. "BLOCKED" \in {"BLOCKED", "READY", "DYING"}
    BY Zenon
  <2>5. QED BY Zenon, <1>1, <1>2, <2>1, <2>2, <2>3, <2>4, Scheduled
<1>4. /\ cur' \in Thread
      /\ cur' = idle_thread \/ status[cur'] = "READY"
      /\ cur' # cur /\ status'[cur] = "BLOCKED" /\ status'[cur'] = "RUNNING"
      /\ \A t \in Thread : t # cur /\ t # cur' => status'[t] = status[t]
  BY Zenon, <1>3
<1>5. UNCHANGED <<value, all_list, idle_thread, intr_on, tid, next_tid, new>> /\ value[s] = 0
  BY Zenon DEF QueuesItself, tids
<1>6. /\ pc' \in [Thread -> PC] /\ pc'[cur] = "down"
      /\ \A u \in Thread : u # cur => pc'[u] = pc[u]
  BY Zenon, <1>1 DEF QueuesItself, Goto, IInv, TypeOK, PC
<1>7. /\ on' \in [Thread -> AllSema \cup {NULL}] /\ on'[cur] = s
      /\ \A u \in Thread : u # cur => on'[u] = on[u]
  BY Zenon, <1>1 DEF QueuesItself, IInv, TypeOK
<1>8. /\ waiters' \in [AllSema -> Seq(Thread)]
      /\ Elems(waiters'[s]) = Elems(waiters[s]) \cup {cur} /\ Distinct(waiters'[s])
      /\ \A q \in AllSema : q # s => waiters'[q] = waiters[q]
  <2>1. waiters[s] \in Seq(Thread) /\ Distinct(waiters[s])
    BY Zenon DEF IInv, TypeOK, WaitersExact
  <2>2. /\ waiters'[s] = Append(waiters[s], cur)
        /\ \A q \in AllSema : q # s => waiters'[q] = waiters[q]
    BY Zenon DEF QueuesItself, IInv, TypeOK
  <2>3. waiters' \in [AllSema -> Seq(Thread)]
    BY <1>1, <2>1 DEF QueuesItself, IInv, TypeOK
  <2>4. QED BY <1>1, <2>1, <2>2, <2>3, PushBack
<1>9. TypeOK'
  BY <1>3, <1>5, <1>6, <1>7, <1>8, Zenon DEF IInv, TypeOK
<1>10. \* Who is blocked stays blocked: the next thread was ready or is the idle thread.
      \A t \in Thread : status[t] = "BLOCKED" /\ t # idle_thread => status'[t] = "BLOCKED"
  BY Zenon, <1>1, <1>4
<1>11. WaitersExact'
  <2>1. \A q \in AllSema : Elems(waiters[q]) \subseteq Thread
    BY DEF IInv, TypeOK, Elems
  <2>2. \A q \in AllSema : \A t \in Elems(waiters[q]) : t # idle_thread
    BY Zenon, <2>1, WaiterNotIdle
  <2>3. \A q \in AllSema : \A t \in Elems(waiters[q]) :
          status'[t] = "BLOCKED" /\ pc'[t] = "down" /\ on'[t] = q
    BY <1>1, <1>6, <1>7, <1>10, <2>1, <2>2 DEF IInv, WaitersExact
  <2>4. status'[cur] = "BLOCKED" /\ pc'[cur] = "down" /\ on'[cur] = s
    BY Zenon, <1>4, <1>6, <1>7
  <2>5. \A q \in AllSema : Distinct(waiters'[q])
    BY Zenon, <1>8 DEF IInv, WaitersExact
  <2>6. \A q \in AllSema : \A t \in Elems(waiters'[q]) :
          t \in Elems(waiters[q]) \/ (t = cur /\ q = s)
    <3> SUFFICES ASSUME NEW q \in AllSema, NEW t \in Elems(waiters'[q])
                 PROVE  t \in Elems(waiters[q]) \/ (t = cur /\ q = s)
      BY Zenon
    <3>1. CASE q = s
      BY <1>8, <3>1, Zenon
    <3>2. CASE q # s
      BY <1>8, <3>2, Zenon
    <3>3. QED BY Zenon, <3>1, <3>2
  <2>7. \A q \in AllSema : \A t \in Elems(waiters'[q]) :
          status'[t] = "BLOCKED" /\ pc'[t] = "down" /\ on'[t] = q
    BY <2>3, <2>4, <2>6
  <2>8. QED BY Zenon, <2>5, <2>7 DEF WaitersExact
<1>12. \A t \in Thread : /\ status'[t] \in {"FREE", "DYING"} <=> status[t] \in {"FREE", "DYING"}
                         /\ status'[t] = "FREE" <=> status[t] = "FREE"
  <2>1. status[cur'] \notin {"FREE", "DYING"}
    BY Zenon, <1>4, IdleAlive
  <2>2. QED BY Zenon, <1>1, <1>4, <2>1
<1>13. Places'
  <2>1. \A u \in Thread : pc'[u] = "down" <=> on'[u] # NULL
    BY <1>6, <1>7 DEF IInv, Places
  <2>2. \A u \in Thread : status'[u] \in {"FREE", "DYING"} => pc'[u] = "run"
    BY <1>1, <1>6, <1>12 DEF IInv, Places
  <2>3. \A u \in Thread : pc'[u] \in BootPC => u = Main
    BY Zenon, <1>6 DEF IInv, Places, BootPC
  <2>4. \A u \in Thread : pc'[u] \in IdlePC <=> u = Idle /\ status'[u] # "FREE"
    BY <1>1, <1>6, <1>12 DEF IInv, Places, IdlePC
  <2>5. \A u \in Thread : u \in all_list' <=> status'[u] \notin {"FREE", "DYING"}
    BY <1>5, <1>12 DEF IInv, Places
  <2>6. status'[Main] # "FREE"
    BY SMTT(30), <1>12 DEF IInv, Places
  <2>7. idle_thread' = Idle <=> pc'[Idle] \in IdlePC \ {"idle_init"}
    BY Zenon, <1>1, <1>5, <1>6 DEF IInv, Places
  <2>8. QED BY Zenon, <2>1, <2>2, <2>3, <2>4, <2>5, <2>6, <2>7 DEF Places
<1>14. \A u \in Thread : Creating(u)' <=> Creating(u)
  <2> SUFFICES ASSUME NEW u \in Thread PROVE Creating(u)' <=> Creating(u)
    BY Zenon
  <2>1. CASE u = cur
    <3>1. Creating(u)' <=> s = TidLock
      BY Zenon, <1>6, <1>7, <2>1 DEF Creating, CreatePC
    <3>2. Creating(cur) <=> s = TidLock
      BY Zenon, DownCaller
    <3>3. QED BY Zenon, <2>1, <3>1, <3>2
  <2>2. CASE u # cur
    BY Zenon, <1>6, <1>7, <2>2 DEF Creating
  <2>3. QED BY Zenon, <2>1, <2>2
<1>15. NewExact'
  <2>1. \A u \in Thread : Creating(u) =>
          new[u] \in Thread /\ new[u] # cur /\ new[u] # idle_thread /\ status[new[u]] = "BLOCKED"
    BY Zenon, Running, NewNotIdle DEF IInv, NewExact
  <2>2. \A u \in Thread : Creating(u) => pc'[new[u]] = pc[new[u]] /\ status'[new[u]] = "BLOCKED"
    BY Zenon, <1>6, <1>10, <2>1
  <2>3. QED BY Zenon, <1>5, <1>14, <2>2 DEF IInv, NewExact
<1>16. Boot'
  <2> SUFFICES ASSUME idle_thread = NULL PROVE Boot'
    BY Zenon, <1>5 DEF Boot
  <2>1. cur = Main /\ pc[Main] = "boot_wait" /\ s = IdleStarted
    BY <1>5, DownCaller
  <2>2. status[Idle] = "READY"
    BY Zenon, <1>1, <2>1 DEF IInv, Boot, SomeoneRuns
  <2>3. status'[Idle] \in {"READY", "RUNNING"}
    BY Zenon, <1>1, <1>4, <2>2
  <2>4. Main \in Elems(waiters'[IdleStarted])
    BY Zenon, <1>8, <2>1
  <2>5. \A u \in Worker : status'[u] = "FREE"
    BY Zenon, <1>12, Workers DEF IInv, Boot
  <2>6. QED BY Zenon, <1>5, <1>6, <2>1, <2>3, <2>4, <2>5 DEF Boot, BootPC, CreatePC
<1>17. Tids'
  <2>1. Named' = Named
    BY <1>5, <1>12 DEF Named
  <2>2. pc[cur] \notin TidPC
    BY Zenon, DownCaller
  <2>3. \A u \in Thread : /\ pc'[u] \in TidPC <=> pc[u] \in TidPC
                          /\ pc'[u] = "tid_store" <=> pc[u] = "tid_store"
    BY Zenon, <1>6, <2>2 DEF TidPC
  <2>4. QED BY Zenon, <1>5, <2>1, <2>3 DEF IInv, Tids
<1>18. UniqueTid'
  BY Zenon, <1>5, <1>12 DEF IInv, UniqueTid, Named
<1>19. NoLostWakeup'
  <2> SUFFICES ASSUME NEW q \in AllSema, waiters'[q] # <<>>
               PROVE  value'[q] <= Cardinality(Woken(q)')
    BY Zenon DEF NoLostWakeup
  <2>1. CASE q = s
    <3>1. Woken(q)' \in SUBSET Thread
      BY Zenon DEF Woken
    <3>2. Cardinality(Woken(q)') \in Nat
      BY Zenon, <3>1 DEF Counting
    <3>3. value'[q] = 0
      BY Zenon, <1>5, <2>1
    <3>4. QED BY <3>2, <3>3
  <2>2. CASE q # s
    <3>1. cur \notin Woken(q)
      BY Zenon, <2>2 DEF Woken, CallsDown
    <3>2. Woken(q)' = Woken(q)
      BY Zenon, <1>6, <1>7, <1>8, <2>2, <3>1 DEF Woken
    <3>3. waiters[q] # <<>> /\ value'[q] = value[q]
      BY Zenon, <1>5, <1>8, <2>2
    <3>4. QED BY Zenon, <3>2, <3>3 DEF IInv, NoLostWakeup
  <2>3. QED BY Zenon, <2>1, <2>2
<1>20. QED
  BY Zenon, <1>3, <1>9, <1>11, <1>13, <1>15, <1>16, <1>17, <1>18, <1>19 DEF IInv

\* Where sema_up(s) is called: by allocate_tid, by the idle thread, by a thread of
\* its own or by an interrupt handler, which may end the idle thread's hlt.
CallsUp(s) ==
  /\ UNCHANGED <<all_list, idle_thread, intr_on, tids, on, new>>
  /\ pc' \in [Thread -> PC] /\ \A u \in Thread : u # cur => pc'[u] = pc[u]
  /\ \/ s = TidLock /\ pc[cur] = "tid_release" /\ pc'[cur] = "unblock"
     \/ s = IdleStarted /\ pc[cur] = "idle_up" /\ pc'[cur] = "idle_block"
     \/ s \in Sema /\ pc'[cur] = pc[cur]
     \/ s \in Sema /\ pc[cur] = "idle_hlt" /\ pc'[cur] = "idle_block"

\* sema_up adds a unit and, when a thread waits, wakes the first of the list: one
\* woken thread more.
LEMMA UpStep ==
  ASSUME Counting, IInv, NEW s \in AllSema, sema_up(s), CallsUp(s)
  PROVE  IInv'
<1> DEFINE w == Head(waiters[s])
<1>1. /\ cur \in Thread /\ status[cur] = "RUNNING"
      /\ \A q \in AllSema : cur \notin Elems(waiters[q])
      /\ \A q \in AllSema : waiters[q] \in Seq(Thread) /\ Elems(waiters[q]) \subseteq Thread
  BY Running DEF IInv, TypeOK, Elems
<1>2. UNCHANGED <<all_list, idle_thread, intr_on, tid, next_tid, on, new>>
  BY Zenon DEF CallsUp, tids
<1>3. /\ value' \in [AllSema -> Nat] /\ value'[s] = value[s] + 1
      /\ \A q \in AllSema : q # s => value'[q] = value[q]
  BY DEF sema_up, IInv, TypeOK
<1>4. pc' \in [Thread -> PC] /\ \A u \in Thread : u # cur => pc'[u] = pc[u]
  BY Zenon DEF CallsUp
<1>5. \/ s = TidLock /\ pc[cur] = "tid_release" /\ pc'[cur] = "unblock"
      \/ s # TidLock /\ pc[cur] = "idle_up" /\ pc'[cur] = "idle_block"
      \/ s # TidLock /\ s # IdleStarted /\ pc'[cur] = pc[cur]
      \/ s # TidLock /\ s # IdleStarted /\ pc[cur] = "idle_hlt" /\ pc'[cur] = "idle_block"
  BY Zenon, OtherSemas DEF CallsUp
<1>6. waiters[s] # <<>> =>
        /\ w \in Thread /\ w \in Elems(waiters[s]) /\ w # cur /\ w # idle_thread
        /\ status[w] = "BLOCKED" /\ pc[w] = "down" /\ on[w] = s
        /\ Tail(waiters[s]) \in Seq(Thread) /\ Distinct(Tail(waiters[s]))
        /\ Elems(waiters[s]) = Elems(Tail(waiters[s])) \cup {w}
        /\ w \notin Elems(Tail(waiters[s]))
  <2> SUFFICES ASSUME waiters[s] # <<>>
               PROVE  /\ w \in Thread /\ w \in Elems(waiters[s]) /\ w # cur /\ w # idle_thread
                      /\ status[w] = "BLOCKED" /\ pc[w] = "down" /\ on[w] = s
                      /\ Tail(waiters[s]) \in Seq(Thread) /\ Distinct(Tail(waiters[s]))
                      /\ Elems(waiters[s]) = Elems(Tail(waiters[s])) \cup {w}
                      /\ w \notin Elems(Tail(waiters[s]))
    BY Zenon
  <2>1. Distinct(waiters[s])
    BY Zenon DEF IInv, WaitersExact
  <2>2. /\ w \in Thread /\ w \in Elems(waiters[s])
        /\ Tail(waiters[s]) \in Seq(Thread) /\ Distinct(Tail(waiters[s]))
        /\ Elems(waiters[s]) = Elems(Tail(waiters[s])) \cup {w}
        /\ w \notin Elems(Tail(waiters[s]))
    BY Zenon, <1>1, <2>1, PopFront
  <2>3. status[w] = "BLOCKED" /\ pc[w] = "down" /\ on[w] = s
    BY Zenon, <2>2 DEF IInv, WaitersExact
  <2>4. w # cur /\ w # idle_thread
    BY Zenon, <1>1, <2>2, WaiterNotIdle
  <2>5. QED BY Zenon, <2>2, <2>3, <2>4
<1> HIDE DEF w
<1>7. /\ status' \in [Thread -> Status] /\ ready_list' \in Seq(Thread)
      /\ UNCHANGED <<cur, thread_ticks>>
      /\ SomeoneRuns' /\ ReadyExact'
      /\ waiters' \in [AllSema -> Seq(Thread)]
      /\ \A q \in AllSema \ {s} : waiters'[q] = waiters[q]
      /\ waiters[s] = <<>> => status' = status /\ waiters'[s] = waiters[s]
      /\ waiters[s] # <<>> => /\ status'[w] = "READY"
                              /\ \A u \in Thread \ {w} : status'[u] = status[u]
                              /\ waiters'[s] = Tail(waiters[s])
  <2>1. CASE waiters[s] = <<>>
    <3>1. UNCHANGED <<waiters, cur, status, ready_list, thread_ticks>>
      BY Zenon, <2>1 DEF sema_up, sched
    <3>2. SomeoneRuns' /\ ReadyExact'
      BY Zenon, <1>2, <3>1 DEF IInv, SomeoneRuns, ReadyExact
    <3>3. QED BY Zenon, <2>1, <3>1, <3>2 DEF IInv, TypeOK
  <2>2. CASE waiters[s] # <<>>
    <3>1. waiters' = [waiters EXCEPT ![s] = Tail(@)] /\ thread_unblock(w)
      BY Zenon, <2>2 DEF sema_up, w
    <3>2. /\ waiters' \in [AllSema -> Seq(Thread)] /\ waiters'[s] = Tail(waiters[s])
          /\ \A q \in AllSema \ {s} : waiters'[q] = waiters[q]
      BY Zenon, <1>6, <2>2, <3>1 DEF IInv, TypeOK
    <3>3. /\ status' \in [Thread -> Status] /\ ready_list' \in Seq(Thread)
          /\ UNCHANGED <<cur, thread_ticks>>
          /\ SomeoneRuns' /\ ReadyExact'
          /\ status'[w] = "READY" /\ \A u \in Thread \ {w} : status'[u] = status[u]
      BY Zenon, <1>2, <1>6, <2>2, <3>1, Unblocked
    <3>4. QED BY Zenon, <2>2, <3>2, <3>3
  <2>3. QED BY Zenon, <2>1, <2>2
<1>8. /\ \A q \in AllSema : q # s => waiters'[q] = waiters[q]
      /\ waiters[s] = <<>> => status' = status /\ waiters'[s] = waiters[s]
      /\ waiters[s] # <<>> => /\ status'[w] = "READY"
                              /\ \A u \in Thread : u # w => status'[u] = status[u]
                              /\ waiters'[s] = Tail(waiters[s])
  BY Zenon, <1>7
<1>9. TypeOK'
  BY <1>2, <1>3, <1>4, <1>7, Zenon DEF IInv, TypeOK
<1>10. \A u \in Thread : pc'[u] = "down" <=> pc[u] = "down"
  BY Zenon, <1>4, <1>5
<1>11. WaitersExact'
  <2>1. \A q \in AllSema : \A u \in Elems(waiters'[q]) :
          u \in Elems(waiters[q]) /\ status'[u] = status[u]
    <3>1. CASE waiters[s] = <<>>
      BY Zenon, <1>8, <3>1
    <3>2. CASE waiters[s] # <<>>
      <4>1. \A u \in Elems(waiters'[s]) : u \in Elems(waiters[s]) /\ u # w
        BY Zenon, <1>6, <1>8, <3>2
      <4>2. \A q \in AllSema : q # s => \A u \in Elems(waiters[q]) : u # w
        BY <1>6, <3>2 DEF IInv, WaitersExact
      <4>3. \A q \in AllSema : \A u \in Elems(waiters'[q]) : u \in Elems(waiters[q]) /\ u # w
        BY Zenon, <1>8, <4>1, <4>2
      <4>4. QED BY Zenon, <1>1, <1>8, <3>2, <4>3
    <3>3. QED BY Zenon, <3>1, <3>2
  <2>2. \A q \in AllSema : Distinct(waiters'[q])
    BY <1>6, <1>8 DEF IInv, WaitersExact
  <2>3. \A q \in AllSema : \A u \in Elems(waiters[q]) :
          status[u] = "BLOCKED" /\ pc'[u] = "down" /\ on'[u] = q
    BY <1>1, <1>2, <1>10 DEF IInv, WaitersExact
  <2>4. QED BY Zenon, <2>1, <2>2, <2>3 DEF WaitersExact
<1>12. \A u \in Thread : /\ status'[u] \in {"FREE", "DYING"} <=> status[u] \in {"FREE", "DYING"}
                         /\ status'[u] = "FREE" <=> status[u] = "FREE"
                         /\ pc[u] # "down" => status'[u] = status[u]
  BY <1>6, <1>8
<1>13. Places'
  <2>1. \A u \in Thread : /\ pc'[u] = "down" <=> on'[u] # NULL
                          /\ u \in all_list' <=> status'[u] \notin {"FREE", "DYING"}
    BY <1>2, <1>10, <1>12 DEF IInv, Places
  <2>2. \A u \in Thread : status'[u] \in {"FREE", "DYING"} => pc'[u] = "run"
    BY Zenon, <1>1, <1>4, <1>12 DEF IInv, Places
  <2>3. \A u \in Thread : pc'[u] \in BootPC <=> pc[u] \in BootPC
    BY Zenon, <1>4, <1>5 DEF BootPC
  <2>4. \A u \in Thread : /\ pc'[u] \in IdlePC <=> pc[u] \in IdlePC
                          /\ pc'[u] \in IdlePC \ {"idle_init"} <=> pc[u] \in IdlePC \ {"idle_init"}
    BY Zenon, <1>4, <1>5 DEF IdlePC
  <2>5. QED BY <1>2, <1>12, <2>1, <2>2, <2>3, <2>4 DEF IInv, Places
<1>14. \A u \in Thread : Creating(u)' <=> Creating(u)
  <2> SUFFICES ASSUME NEW u \in Thread PROVE Creating(u)' <=> Creating(u)
    BY Zenon
  <2>1. CASE u = cur
    BY Zenon, <1>2, <1>5, <2>1 DEF Creating, CreatePC
  <2>2. CASE u # cur
    BY Zenon, <1>2, <1>4, <2>2 DEF Creating
  <2>3. QED BY Zenon, <2>1, <2>2
<1>15. NewExact'
  <2>1. \A u \in Thread : Creating(u) => new[u] \in Thread /\ new[u] # cur
    BY Zenon, Running
  <2>2. \A u \in Thread : Creating(u) =>
          status'[new[u]] = status[new[u]] /\ pc'[new[u]] = pc[new[u]]
    BY Zenon, <1>4, <1>12, <2>1 DEF IInv, NewExact
  <2>3. QED BY Zenon, <1>2, <1>14, <2>2 DEF IInv, NewExact
<1>16. Boot'
  <2> SUFFICES ASSUME idle_thread = NULL PROVE Boot'
    BY Zenon, <1>2 DEF Boot
  <2>1. pc[cur] # "idle_up" /\ pc[cur] # "idle_hlt"
    BY Zenon, <1>1 DEF IInv, Places, IdlePC
  <2>2. s # IdleStarted
    BY Zenon, <1>5, <2>1
  <2>3. \/ pc'[Main] = pc[Main]
        \/ pc[Main] = "tid_release" /\ pc'[Main] = "unblock"
    BY Zenon, <1>4, <1>5, <2>1
  <2>4. \A u \in Worker : status'[u] = "FREE"
    BY <1>12, Workers DEF IInv, Boot
  <2>5. status'[Idle] = "FREE" <=> status[Idle] = "FREE"
    BY <1>12
  <2>6. status[Idle] \in {"READY", "RUNNING"} => status'[Idle] \in {"READY", "RUNNING"}
    BY Zenon, <1>6, <1>8
  <2>7. waiters'[IdleStarted] = waiters[IdleStarted] /\ value'[IdleStarted] = value[IdleStarted]
    BY Zenon, <1>3, <1>8, <2>2
  <2>8. QED BY Zenon, <1>2, <2>3, <2>4, <2>5, <2>6, <2>7 DEF IInv, Boot, BootPC, CreatePC
<1>17. Named' = Named
  BY SMTT(30), <1>2, <1>12 DEF Named
<1>18. Tids'
  <2>1. \A u \in Thread : pc'[u] = "tid_store" <=> pc[u] = "tid_store"
    BY Zenon, <1>4, <1>5
  <2>2. /\ \A u \in Thread : pc'[u] = "tid_store" => tid'[new'[u]] = next_tid'
        /\ \A u \in Named' : \/ tid'[u] < next_tid'
                             \/ \E v \in Thread : pc'[v] = "tid_store" /\ new'[v] = u
        /\ next_tid' > 0
    BY Zenon, <1>2, <1>17, <2>1 DEF IInv, Tids
  <2>3. CASE s = TidLock
    <3>1. pc[cur] = "tid_release" /\ pc'[cur] = "unblock"
      BY Zenon, <1>5, <2>3
    <3>2. pc[cur] \in TidPC /\ pc'[cur] \notin TidPC
      BY Zenon, <3>1 DEF TidPC
    <3>3. \A u \in Thread : pc[u] \in TidPC => u = cur
      BY Zenon, <1>1, <3>2 DEF IInv, Tids
    <3>4. value[TidLock] = 0
      BY Zenon, <1>1, <3>2 DEF IInv, Tids
    <3>5. value'[TidLock] = 1
      BY <1>3, <2>3, <3>4
    <3>6. \A u \in Thread : pc'[u] \notin TidPC
      BY Zenon, <1>4, <3>2, <3>3
    <3>7. QED BY Zenon, <2>2, <3>5, <3>6 DEF Tids
  <2>4. CASE s # TidLock
    <3>1. \A u \in Thread : pc'[u] \in TidPC <=> pc[u] \in TidPC
      BY Zenon, <1>4, <1>5, <2>4 DEF TidPC
    <3>2. value'[TidLock] = value[TidLock]
      BY Zenon, <1>3, <2>4
    <3>3. QED BY Zenon, <2>2, <3>1, <3>2 DEF IInv, Tids
  <2>5. QED BY Zenon, <2>3, <2>4
<1>19. UniqueTid'
  BY Zenon, <1>2, <1>17 DEF IInv, UniqueTid
<1>20. NoLostWakeup'
  <2> SUFFICES ASSUME NEW q \in AllSema, waiters'[q] # <<>>
               PROVE  value'[q] <= Cardinality(Woken(q)')
    BY Zenon DEF NoLostWakeup
  <2>1. Woken(q) \in SUBSET Thread /\ Cardinality(Woken(q)) \in Nat
    BY Zenon DEF Counting, Woken
  <2>2. CASE q = s
    <3>1. waiters[s] # <<>> /\ waiters'[s] = Tail(waiters[s])
      BY Zenon, <1>8, <2>2
    <3>2. w \notin Woken(s)
      BY Zenon, <1>6, <3>1 DEF Woken
    <3>3. Woken(s)' = Woken(s) \cup {w}
      BY Zenon, <1>2, <1>6, <1>10, <3>1 DEF Woken
    <3>4. Cardinality(Woken(s)') = Cardinality(Woken(s)) + 1
      BY ZenonT(30), <1>6, <2>1, <2>2, <3>1, <3>2, <3>3 DEF Counting
    <3>5. value[s] <= Cardinality(Woken(s)) /\ value[s] \in Nat
      BY Zenon, <3>1 DEF IInv, NoLostWakeup, TypeOK
    <3>6. QED BY <1>3, <2>1, <2>2, <3>4, <3>5
  <2>3. CASE q # s
    <3>1. Woken(q)' = Woken(q)
      BY Zenon, <1>2, <1>8, <1>10, <2>3 DEF Woken
    <3>2. waiters[q] # <<>> /\ value'[q] = value[q]
      BY Zenon, <1>3, <1>8, <2>3
    <3>3. QED BY Zenon, <3>1, <3>2 DEF IInv, NoLostWakeup
  <2>4. QED BY Zenon, <2>2, <2>3
<1>21. QED
  BY Zenon, <1>7, <1>9, <1>11, <1>13, <1>15, <1>16, <1>18, <1>19, <1>20 DEF IInv

\* The end of thread_create: the new thread goes from nobody's list to the run queue.
LEMMA CreateUnblockStep == ASSUME Counting, IInv, CreateUnblock PROVE IInv'
<1> DEFINE t == new[cur]
<1>1. /\ cur \in Thread /\ status[cur] = "RUNNING" /\ pc[cur] = "unblock" /\ Creating(cur)
      /\ t \in Thread /\ t # cur /\ status[t] = "BLOCKED" /\ pc[t] \in {"run", "idle_init"}
      /\ t = Idle => idle_thread = NULL
      /\ \A u \in Thread : Creating(u) /\ new[u] = t => u = cur
  BY Zenon, Running DEF CreateUnblock, At, Creating, CreatePC, IInv, NewExact
<1>2. cur # Idle /\ (idle_thread = NULL => cur = Main /\ t = Idle)
  <2>1. cur # Idle
    BY Zenon, <1>1 DEF IInv, Places, IdlePC
  <2>2. idle_thread = NULL => cur = Main
    BY Zenon, <1>1, <2>1, Workers DEF IInv, Boot
  <2>3. idle_thread = NULL => t = Idle
    BY Zenon, <1>1, <2>2 DEF IInv, Boot, CreatePC
  <2>4. QED BY Zenon, <2>1, <2>2, <2>3
<1>3. /\ UNCHANGED <<all_list, idle_thread, intr_on, value, waiters, tid, next_tid, on>>
      /\ pc' \in [Thread -> PC] /\ pc'[cur] = IF t = Idle THEN "boot_enable" ELSE "run"
      /\ \A u \in Thread \ {cur} : pc'[u] = pc[u]
      /\ new' \in [Thread -> Thread \cup {NULL}] /\ new'[cur] = NULL
      /\ \A u \in Thread \ {cur} : new'[u] = new[u]
  BY Zenon, <1>1 DEF CreateUnblock, Goto, sema, tids, IInv, TypeOK, PC
<1>4. /\ status' \in [Thread -> Status] /\ ready_list' \in Seq(Thread)
      /\ UNCHANGED <<cur, thread_ticks>>
      /\ SomeoneRuns' /\ ReadyExact'
      /\ status'[t] = "READY" /\ \A u \in Thread \ {t} : status'[u] = status[u]
  <2>1. t # idle_thread
    BY Zenon, <1>1 DEF IInv, TypeOK
  <2>2. QED BY Zenon, <1>1, <1>3, <2>1, Unblocked DEF CreateUnblock
<1> HIDE DEF t
<1>5. TypeOK'
  BY Zenon, <1>3, <1>4 DEF IInv, TypeOK
<1>6. \A u \in Thread : pc'[u] = "down" <=> pc[u] = "down"
  BY Zenon, <1>1, <1>3
<1>7. WaitersExact'
  <2>1. \A q \in AllSema : Elems(waiters[q]) \subseteq Thread
    BY DEF IInv, TypeOK, Elems
  <2>2. \A q \in AllSema : \A u \in Elems(waiters[q]) : status'[u] = status[u]
    BY <1>1, <1>4, <2>1 DEF IInv, WaitersExact
  <2>3. QED BY <1>3, <1>6, <2>1, <2>2 DEF IInv, WaitersExact
<1>8. \A u \in Thread : /\ status'[u] \in {"FREE", "DYING"} <=> status[u] \in {"FREE", "DYING"}
                        /\ status'[u] = "FREE" <=> status[u] = "FREE"
  BY Zenon, <1>1, <1>4
<1>9. Places'
  <2>1. \A u \in Thread : /\ pc'[u] = "down" <=> on'[u] # NULL
                          /\ status'[u] \in {"FREE", "DYING"} => pc'[u] = "run"
                          /\ u \in all_list' <=> status'[u] \notin {"FREE", "DYING"}
    BY <1>1, <1>3, <1>6, <1>8 DEF IInv, Places
  <2>2. \A u \in Thread : /\ pc'[u] \in BootPC => u = Main
                          /\ pc'[u] \in IdlePC <=> u = Idle /\ status'[u] # "FREE"
    BY <1>1, <1>2, <1>3, <1>8 DEF IInv, Places, BootPC, IdlePC
  <2>3. status'[Main] # "FREE"
    BY Zenon, <1>8 DEF IInv, Places
  <2>4. idle_thread' = Idle <=> pc'[Idle] \in IdlePC \ {"idle_init"}
    BY Zenon, <1>2, <1>3 DEF IInv, Places
  <2>5. QED BY Zenon, <2>1, <2>2, <2>3, <2>4 DEF Places
<1>10. \A u \in Thread : Creating(u)' <=> Creating(u) /\ u # cur
  BY Zenon, <1>1, <1>3 DEF Creating, CreatePC
<1>11. NewExact'
  <2>1. \A u \in Thread : Creating(u) => new[u] \in Thread /\ new[u] # cur
    BY Zenon, Running
  <2>2. \A u \in Thread : Creating(u) /\ u # cur =>
          status'[new[u]] = status[new[u]] /\ pc'[new[u]] = pc[new[u]]
    BY Zenon, <1>1, <1>3, <1>4, <2>1
  <2>3. QED BY <1>1, <1>3, <1>10, <2>1, <2>2 DEF IInv, NewExact
<1>12. Boot'
  <2> SUFFICES ASSUME idle_thread = NULL PROVE Boot'
    BY Zenon, <1>3 DEF Boot
  <2>1. cur = Main /\ t = Idle
    BY Zenon, <1>2
  <2>2. \A u \in Worker : status'[u] = "FREE"
    BY Zenon, <1>8, Workers DEF IInv, Boot
  <2>3. pc'[Main] = "boot_enable" /\ status'[Idle] = "READY" /\ value'[IdleStarted] = 0
    BY Zenon, <1>3, <1>4, <2>1 DEF IInv, Boot
  <2>4. QED BY Zenon, <2>2, <2>3 DEF Boot, BootPC, CreatePC
<1>13. Named' = Named
  BY Zenon, <1>3, <1>8 DEF Named
<1>14. Tids'
  <2>1. \A u \in Thread : /\ pc'[u] \in TidPC <=> pc[u] \in TidPC
                          /\ pc'[u] = "tid_store" <=> pc[u] = "tid_store"
                          /\ pc[u] = "tid_store" => new'[u] = new[u]
    BY Zenon, <1>1, <1>3 DEF TidPC
  <2>2. QED BY <1>3, <1>13, <2>1 DEF IInv, Tids
<1>15. UniqueTid'
  BY Zenon, <1>3, <1>13 DEF IInv, UniqueTid
<1>16. NoLostWakeup'
  BY <1>3, <1>6, WakeupsKept DEF IInv, TypeOK
<1>17. QED
  BY Zenon, <1>4, <1>5, <1>7, <1>9, <1>11, <1>12, <1>14, <1>15, <1>16 DEF IInv

\* Where the running thread gives the processor away and goes on later: it yields,
\* of its own or at the end of its time slice, or it is the idle thread and blocks.
Switches(st, rl) ==
  /\ st \in {"READY", "BLOCKED"}
  /\ st = "BLOCKED" => pc[cur] = "idle_block"
  /\ rl = IF st = "READY" /\ cur # idle_thread THEN Append(ready_list, cur) ELSE ready_list
  /\ schedule(st, rl)
  /\ UNCHANGED <<all_list, idle_thread, intr_on, value, waiters, tid, next_tid, on, new>>
  /\ pc' \in [Thread -> PC] /\ \A u \in Thread : u # cur => pc'[u] = pc[u]
  /\ \/ pc'[cur] = pc[cur]
     \/ pc[cur] = "idle_hlt" /\ pc'[cur] = "idle_block"
     \/ pc[cur] = "idle_block" /\ pc'[cur] = "idle_hlt"

\* Then nothing but the status of the two threads and the run queue changes.
LEMMA SwitchStep ==
  ASSUME Counting, IInv, NEW st, NEW rl, Switches(st, rl)
  PROVE  IInv'
<1>1. cur \in Thread /\ status[cur] = "RUNNING" /\ cur \notin Elems(ready_list)
  BY Zenon, Running
<1>2. st \in {"READY", "BLOCKED"} /\ (st = "BLOCKED" => cur = idle_thread)
  <2>1. st \in {"READY", "BLOCKED"} /\ (st = "BLOCKED" => pc[cur] = "idle_block")
    BY Zenon DEF Switches
  <2>2. pc[cur] = "idle_block" => cur = Idle
    BY Zenon, <1>1 DEF IInv, Places, IdlePC
  <2>3. pc[Idle] = "idle_block" => idle_thread = Idle
    BY Zenon DEF IInv, Places, IdlePC
  <2>4. QED BY Zenon, <2>1, <2>2, <2>3
<1>3. UNCHANGED <<all_list, idle_thread, intr_on, value, waiters, tid, next_tid, on, new>>
  BY Zenon DEF Switches
<1>4. pc' \in [Thread -> PC] /\ \A u \in Thread : u # cur => pc'[u] = pc[u]
  BY Zenon DEF Switches
<1>5. \/ pc'[cur] = pc[cur]
      \/ pc[cur] = "idle_hlt" /\ pc'[cur] = "idle_block"
      \/ pc[cur] = "idle_block" /\ pc'[cur] = "idle_hlt"
  BY Zenon DEF Switches
<1>6. /\ cur' \in Thread /\ status' \in [Thread -> Status]
      /\ ready_list' \in Seq(Thread) /\ thread_ticks' \in 0..(TIME_SLICE - 1)
      /\ SomeoneRuns' /\ ReadyExact'
      /\ cur' = cur \/ cur' = idle_thread \/ status[cur'] = "READY"
      /\ cur' # cur => status'[cur] = IF st = "DYING" /\ cur # Main THEN "FREE" ELSE st
      /\ \A t \in Thread \ {cur, cur'} : status'[t] = status[t]
      /\ status'[cur'] = "RUNNING"
  <2>1. ready_list \in Seq(Thread) /\ Distinct(ready_list)
    BY Zenon DEF IInv, TypeOK, ReadyExact
  <2>2. /\ rl \in Seq(Thread) /\ Distinct(rl)
        /\ \A t \in Thread : t \in Elems(rl) <=>
             t \in Elems(ready_list) \/ (t = cur /\ st = "READY" /\ cur # idle_thread)
        /\ st = "READY" /\ cur # idle_thread => rl # <<>>
    <3>1. CASE st = "READY" /\ cur # idle_thread
      <4>1. rl = Append(ready_list, cur)
        BY Zenon, <3>1 DEF Switches
      <4>2. QED BY <1>1, <2>1, <3>1, <4>1, PushBack
    <3>2. CASE ~(st = "READY" /\ cur # idle_thread)
      <4>1. rl = ready_list
        BY Zenon, <3>2 DEF Switches
      <4>2. QED BY Zenon, <2>1, <3>2, <4>1
    <3>3. QED BY Zenon, <3>1, <3>2
  <2>3. \A t \in Thread : t \in Elems(rl) <=>
            \/ t # cur /\ status[t] = "READY" /\ t # idle_thread
            \/ t = cur /\ st = "READY" /\ t # idle_thread
    BY Zenon, <1>1, <2>2 DEF IInv, ReadyExact
  <2>4. idle_thread = Idle \/ rl # <<>>
    <3>1. idle_thread \in {NULL, Idle}
      BY Zenon DEF IInv, TypeOK
    <3>2. QED BY Zenon, <1>1, <1>2, <2>2, <3>1
  <2>5. st \in {"BLOCKED", "READY", "DYING"} /\ idle_thread' = idle_thread /\ schedule(st, rl)
    BY Zenon, <1>2, <1>3 DEF Switches
  <2>6. QED BY Zenon, <2>2, <2>3, <2>4, <2>5, Scheduled
<1>7. /\ cur' \in Thread /\ status'[cur'] = "RUNNING"
      /\ cur' = cur \/ cur' = idle_thread \/ status[cur'] = "READY"
      /\ cur' # cur => status'[cur] = st
      /\ \A t \in Thread : t # cur /\ t # cur' => status'[t] = status[t]
  BY Zenon, <1>2, <1>6
<1>8. TypeOK'
  BY <1>3, <1>4, <1>6, Zenon DEF IInv, TypeOK
<1>9. \A t \in Thread : /\ status'[t] \in {"FREE", "DYING"} <=> status[t] \in {"FREE", "DYING"}
                        /\ status'[t] = "FREE" <=> status[t] = "FREE"
  <2>1. status[cur'] \notin {"FREE", "DYING"}
    BY Zenon, <1>1, <1>7, IdleAlive
  <2>2. QED BY Zenon, <1>1, <1>2, <1>7, <2>1
<1>10. \A t \in Thread : status[t] = "BLOCKED" /\ t # idle_thread => status'[t] = "BLOCKED"
  BY Zenon, <1>1, <1>7
<1>11. \A u \in Thread : pc'[u] = "down" <=> pc[u] = "down"
  BY Zenon, <1>4, <1>5
<1>12. WaitersExact'
  <2>1. \A q \in AllSema : Elems(waiters[q]) \subseteq Thread
    BY DEF IInv, TypeOK, Elems
  <2>2. \A q \in AllSema : \A t \in Elems(waiters[q]) : t # idle_thread
    BY Zenon, <2>1, WaiterNotIdle
  <2>3. \A q \in AllSema : \A t \in Elems(waiters[q]) : status'[t] = "BLOCKED" /\ pc'[t] = "down"
    BY <1>10, <1>11, <2>1, <2>2 DEF IInv, WaitersExact
  <2>4. QED BY Zenon, <1>3, <2>3 DEF IInv, WaitersExact
<1>13. Places'
  <2>1. \A u \in Thread : /\ pc'[u] = "down" <=> on'[u] # NULL
                          /\ u \in all_list' <=> status'[u] \notin {"FREE", "DYING"}
    BY Zenon, <1>3, <1>9, <1>11 DEF IInv, Places
  <2>2. \A u \in Thread : status'[u] \in {"FREE", "DYING"} => pc'[u] = "run"
    BY Zenon, <1>1, <1>4, <1>9 DEF IInv, Places
  <2>3. \A u \in Thread : pc'[u] \in BootPC <=> pc[u] \in BootPC
    BY Zenon, <1>4, <1>5 DEF BootPC
  <2>4. \A u \in Thread : /\ pc'[u] \in IdlePC <=> pc[u] \in IdlePC
                          /\ pc'[u] \in IdlePC \ {"idle_init"} <=> pc[u] \in IdlePC \ {"idle_init"}
    BY Zenon, <1>4, <1>5 DEF IdlePC
  <2>5. QED BY Zenon, <1>3, <1>9, <2>1, <2>2, <2>3, <2>4 DEF IInv, Places
<1>14. \A u \in Thread : Creating(u)' <=> Creating(u)
  <2> SUFFICES ASSUME NEW u \in Thread PROVE Creating(u)' <=> Creating(u)
    BY Zenon
  <2>1. CASE u = cur
    BY Zenon, <1>3, <1>5, <2>1 DEF Creating, CreatePC
  <2>2. CASE u # cur
    BY Zenon, <1>3, <1>4, <2>2 DEF Creating
  <2>3. QED BY Zenon, <2>1, <2>2
<1>15. NewExact'
  <2>1. \A u \in Thread : Creating(u) =>
          new[u] \in Thread /\ new[u] # cur /\ new[u] # idle_thread /\ status[new[u]] = "BLOCKED"
    BY Zenon, Running, NewNotIdle DEF IInv, NewExact
  <2>2. \A u \in Thread : Creating(u) => pc'[new[u]] = pc[new[u]] /\ status'[new[u]] = "BLOCKED"
    BY Zenon, <1>4, <1>10, <2>1
  <2>3. QED BY Zenon, <1>3, <1>14, <2>2 DEF IInv, NewExact
<1>16. Boot'
  <2> SUFFICES ASSUME idle_thread = NULL PROVE Boot'
    BY Zenon, <1>3 DEF Boot
  <2>1. st = "READY"
    BY Zenon, <1>1, <1>2
  <2>2. pc[cur] # "idle_hlt" /\ pc[cur] # "idle_block"
    BY Zenon, <1>1 DEF IInv, Places, IdlePC
  <2>3. pc'[Main] = pc[Main]
    BY Zenon, <1>4, <1>5, <2>2
  <2>4. status[Idle] \in {"READY", "RUNNING"} => status'[Idle] \in {"READY", "RUNNING"}
    BY Zenon, <1>7, <2>1
  <2>5. \A u \in Worker : status'[u] = "FREE"
    BY Zenon, <1>9, Workers DEF IInv, Boot
  <2>6. status'[Idle] = "FREE" <=> status[Idle] = "FREE"
    BY Zenon, <1>9
  <2>7. QED BY Zenon, <1>3, <2>3, <2>4, <2>5, <2>6 DEF IInv, Boot
<1>17. Named' = Named
  BY Zenon, <1>3, <1>9 DEF Named
<1>18. Tids'
  <2>1. \A u \in Thread : /\ pc'[u] \in TidPC <=> pc[u] \in TidPC
                          /\ pc'[u] = "tid_store" <=> pc[u] = "tid_store"
    BY Zenon, <1>4, <1>5 DEF TidPC
  <2>2. QED BY Zenon, <1>3, <1>17, <2>1 DEF IInv, Tids
<1>19. UniqueTid'
  BY Zenon, <1>3, <1>17 DEF IInv, UniqueTid
<1>20. NoLostWakeup'
  <2>1. \A s \in AllSema : value'[s] <= value[s] /\ value'[s] \in Nat
    BY <1>3 DEF IInv, TypeOK
  <2>2. QED BY Zenon, <1>3, <1>11, <2>1, WakeupsKept
<1>21. QED
  BY Zenon, <1>6, <1>8, <1>12, <1>13, <1>15, <1>16, <1>18, <1>19, <1>20 DEF IInv

\* thread_exit: the thread leaves all_list, and its page is given back by the
\* thread that runs next, except for the initial thread's.
LEMMA ExitStep == ASSUME Counting, IInv, thread_exit PROVE IInv'
<1>1. /\ cur \in Thread /\ status[cur] = "RUNNING" /\ pc[cur] = "run"
      /\ cur \notin Elems(ready_list) /\ ~Creating(cur)
      /\ \A q \in AllSema : cur \notin Elems(waiters[q])
  BY Zenon, Running DEF thread_exit, At, Creating, CreatePC
<1>2. cur # Idle
  BY Zenon, <1>1 DEF IInv, Places, IdlePC
<1>3. idle_thread = Idle
  <2>1. CASE idle_thread = NULL
    BY Zenon, <1>1, <1>2, <2>1, Workers DEF IInv, Boot, BootPC, CreatePC
  <2>2. QED BY Zenon, <2>1 DEF IInv, TypeOK
<1>4. UNCHANGED <<idle_thread, intr_on, value, waiters, tid, next_tid, pc, on, new>>
  BY Zenon DEF thread_exit, sema, tids
<1>5. all_list' = all_list \ {cur}
  BY Zenon DEF thread_exit
<1>6. /\ cur' \in Thread /\ status' \in [Thread -> Status]
      /\ ready_list' \in Seq(Thread) /\ thread_ticks' \in 0..(TIME_SLICE - 1)
      /\ SomeoneRuns' /\ ReadyExact'
      /\ cur' = idle_thread \/ status[cur'] = "READY"
      /\ cur' # cur /\ status'[cur'] = "RUNNING"
      /\ status'[cur] = IF cur # Main THEN "FREE" ELSE "DYING"
      /\ \A t \in Thread \ {cur, cur'} : status'[t] = status[t]
  <2>1. ready_list \in Seq(Thread) /\ Distinct(ready_list)
    BY Zenon DEF IInv, TypeOK, ReadyExact
  <2>2. \A t \in Thread : t \in Elems(ready_list) <=>
            \/ t # cur /\ status[t] = "READY" /\ t # idle_thread
            \/ t = cur /\ "DYING" = "READY" /\ t # idle_thread
    BY Zenon, <1>1 DEF IInv, ReadyExact
  <2>3. schedule("DYING", ready_list) /\ idle_thread' = idle_thread
    BY Zenon DEF thread_exit
  <2>4. "DYING" \in {"BLOCKED", "READY", "DYING"}
    BY Zenon
  <2>5. QED BY Zenon, <1>1, <1>2, <1>3, <2>1, <2>2, <2>3, <2>4, Scheduled
<1>7. TypeOK'
  BY Zenon, <1>4, <1>5, <1>6 DEF IInv, TypeOK
<1>8. \A t \in Thread \ {cur} :
        /\ status'[t] \in {"FREE", "DYING"} <=> status[t] \in {"FREE", "DYING"}
        /\ status'[t] = "FREE" <=> status[t] = "FREE"
  <2>1. status[cur'] \notin {"FREE", "DYING"}
    BY Zenon, <1>3, <1>6 DEF IInv, Places, IdlePC
  <2>2. QED BY Zenon, <1>6, <2>1
<1>9. \A t \in Thread : status[t] = "BLOCKED" /\ t # idle_thread => status'[t] = "BLOCKED"
  BY Zenon, <1>1, <1>6
<1>10. WaitersExact'
  <2>1. \A q \in AllSema : Elems(waiters[q]) \subseteq Thread
    BY DEF IInv, TypeOK, Elems
  <2>2. \A q \in AllSema : \A t \in Elems(waiters[q]) : t # idle_thread
    BY <2>1 DEF IInv, WaitersExact, Places, IdlePC, TypeOK
  <2>3. QED BY <1>4, <1>9, <2>1, <2>2 DEF IInv, WaitersExact
<1>11. Places'
  <2>1. \A u \in Thread : /\ pc'[u] = "down" <=> on'[u] # NULL
                          /\ status'[u] \in {"FREE", "DYING"} => pc'[u] = "run"
                          /\ u \in all_list' <=> status'[u] \notin {"FREE", "DYING"}
    BY Zenon, <1>1, <1>4, <1>5, <1>6, <1>8 DEF IInv, Places
  <2>2. \A u \in Thread : /\ pc'[u] \in BootPC => u = Main
                          /\ pc'[u] \in IdlePC <=> u = Idle /\ status'[u] # "FREE"
    BY Zenon, <1>1, <1>2, <1>4, <1>8 DEF IInv, Places, IdlePC
  <2>3. status'[Main] # "FREE"
    BY Zenon, <1>6, <1>8 DEF IInv, Places
  <2>4. idle_thread' = Idle <=> pc'[Idle] \in IdlePC \ {"idle_init"}
    BY Zenon, <1>4 DEF IInv, Places
  <2>5. QED BY Zenon, <2>1, <2>2, <2>3, <2>4 DEF Places
<1>12. \A u \in Thread : Creating(u)' <=> Creating(u)
  BY Zenon, <1>4 DEF Creating
<1>13. NewExact'
  <2>1. \A u \in Thread : Creating(u) => new[u] \in Thread /\ new[u] # idle_thread
    BY Zenon, Running DEF IInv, NewExact, TypeOK
  <2>2. \A u \in Thread : Creating(u) => status'[new[u]] = "BLOCKED"
    BY Zenon, <1>9, <2>1 DEF IInv, NewExact
  <2>3. QED BY Zenon, <1>4, <1>12, <2>1, <2>2 DEF IInv, NewExact
<1>14. Boot'
  BY Zenon, <1>3, <1>4 DEF Boot
<1>15. \A u \in Named' : u \in Named
  BY Zenon, <1>1, <1>4, <1>8 DEF Named
<1>16. Tids'
  BY Zenon, <1>4, <1>15 DEF IInv, Tids
<1>17. UniqueTid'
  BY Zenon, <1>4, <1>15 DEF IInv, UniqueTid
<1>18. NoLostWakeup'
  BY <1>4, WakeupsKept DEF IInv, TypeOK
<1>19. QED
  BY Zenon, <1>6, <1>7, <1>10, <1>11, <1>13, <1>14, <1>16, <1>17, <1>18 DEF IInv

\* sema_down, wherever it is called from.
LEMMA DownStep ==
  ASSUME Counting, IInv, NEW s \in AllSema, CallsDown(s), sema_down(s),
         UNCHANGED <<all_list, idle_thread, intr_on, tids, new>>
  PROVE  IInv'
<1>1. CASE value[s] > 0
  BY <1>1, TakeStep DEF sema_down, TakesUnit
<1>2. CASE value[s] = 0
  BY <1>2, BlockStep DEF sema_down, QueuesItself
<1>3. QED BY Zenon, <1>1, <1>2 DEF sema_down

\* Every step of the processor keeps the invariant.
LEMMA NextIInv == ASSUME Counting, IInv, [Next]_vars PROVE IInv'
<1>0. /\ cur \in Thread /\ pc \in [Thread -> PC] /\ pc[cur] \in PC
      /\ value \in [AllSema -> Nat]
  BY Zenon, Running DEF IInv, TypeOK
<1>1. CASE StartIdle
  BY Zenon, <1>0, <1>1, CreateStep DEF StartIdle, At
<1>2. CASE StartEnable
  <2>1. /\ UNCHANGED <<cur, status, ready_list, all_list, idle_thread, waiters, tid,
                       next_tid, on, new, value, thread_ticks>>
        /\ intr_on' \in BOOLEAN /\ pc[cur] = "boot_enable"
    BY Zenon, <1>2 DEF StartEnable, At, sched, sema, tids
  <2>2. /\ pc' \in [Thread -> PC] /\ pc'[cur] = "boot_wait"
        /\ \A u \in Thread \ {cur} : pc'[u] = pc[u]
    BY Zenon, <1>0, <1>2 DEF StartEnable, Goto, PC
  <2>3. thread_ticks' \in 0..(TIME_SLICE - 1)
    BY Zenon, <2>1 DEF IInv, TypeOK
  <2>4. /\ value' \in [AllSema -> Nat] /\ \A s \in AllSema : value'[s] <= value[s]
        /\ value'[TidLock] = value[TidLock]
    BY <1>0, <2>1
  <2>5. QED BY Zenon, <2>1, <2>2, <2>3, <2>4, PlainStep
<1>3. CASE StartWait
  BY Zenon, <1>3, DownStep DEF StartWait, At, CallsDown
<1>4. CASE IdleInit
  BY Zenon, <1>4, IdleInitStep
<1>5. CASE IdleUp
  <2>1. /\ pc[cur] = "idle_up" /\ pc' \in [Thread -> PC] /\ pc'[cur] = "idle_block"
        /\ \A u \in Thread : u # cur => pc'[u] = pc[u]
    BY Zenon, <1>0, <1>5 DEF IdleUp, At, Goto, PC
  <2>2. CallsUp(IdleStarted) /\ sema_up(IdleStarted)
    BY Zenon, <1>5, <2>1 DEF IdleUp, CallsUp
  <2>3. QED BY Zenon, <2>2, UpStep
<1>6. CASE IdleBlock
  <2>1. /\ pc[cur] = "idle_block" /\ pc' \in [Thread -> PC] /\ pc'[cur] = "idle_hlt"
        /\ \A u \in Thread : u # cur => pc'[u] = pc[u]
    BY Zenon, <1>0, <1>6 DEF IdleBlock, At, Goto, PC
  <2>2. Switches("BLOCKED", ready_list)
    BY Zenon, <1>6, <2>1 DEF IdleBlock, thread_block, sema, tids, Switches
  <2>3. QED BY Zenon, <2>2, SwitchStep
<1>7. CASE TidAcquire
  BY Zenon, <1>7, DownStep DEF TidAcquire, At, CallsDown
<1>8. CASE TidLoad
  BY Zenon, <1>8, TidLoadStep
<1>9. CASE TidStore
  BY Zenon, <1>9, TidStoreStep
<1>10. CASE TidRelease
  <2>1. /\ pc[cur] = "tid_release" /\ pc' \in [Thread -> PC] /\ pc'[cur] = "unblock"
        /\ \A u \in Thread : u # cur => pc'[u] = pc[u]
    BY Zenon, <1>0, <1>10 DEF TidRelease, At, Goto, PC
  <2>2. CallsUp(TidLock) /\ sema_up(TidLock)
    BY Zenon, <1>10, <2>1 DEF TidRelease, CallsUp
  <2>3. QED BY Zenon, <2>2, UpStep
<1>11. CASE CreateUnblock
  BY Zenon, <1>11, CreateUnblockStep
<1>12. CASE DownAgain
  <2>1. on[cur] \in AllSema
    BY Zenon, <1>0, <1>12 DEF DownAgain, At, IInv, Places, TypeOK
  <2>2. QED BY Zenon, <1>12, <2>1, DownStep DEF DownAgain, At, CallsDown
<1>13. ASSUME NEW s \in Sema, Down(s) PROVE IInv'
  BY Zenon, <1>13, DownStep, OtherSemas DEF Down, At, CallsDown
<1>14. ASSUME NEW s \in Sema, TryDown(s) PROVE IInv'
  <2>1. UNCHANGED <<cur, status, ready_list, all_list, idle_thread, waiters, tid,
                    next_tid, on, new, pc, intr_on, thread_ticks>>
    BY Zenon, <1>14 DEF TryDown, sema_try_down, sched, tids
  <2>2. value' = [value EXCEPT ![s] = IF value[s] > 0 THEN value[s] - 1 ELSE value[s]]
    BY Zenon, <1>14 DEF TryDown, sema_try_down
  <2>3. /\ value' \in [AllSema -> Nat] /\ value'[TidLock] = value[TidLock]
        /\ \A q \in AllSema : value'[q] <= value[q]
    BY <1>0, <2>2, OtherSemas
  <2>4. thread_ticks' \in 0..(TIME_SLICE - 1) /\ intr_on' \in BOOLEAN
    BY Zenon, <2>1 DEF IInv, TypeOK
  <2>5. /\ pc' \in [Thread -> PC] /\ pc'[cur] = pc[cur]
        /\ \A u \in Thread \ {cur} : pc'[u] = pc[u]
    BY Zenon, <1>0, <2>1
  <2>6. QED BY Zenon, <2>1, <2>3, <2>4, <2>5, PlainStep
<1>15. ASSUME NEW s \in Sema, Up(s) PROVE IInv'
  <2>1. pc' \in [Thread -> PC] /\ \A u \in Thread : pc'[u] = pc[u]
    BY Zenon, <1>0, <1>15 DEF Up
  <2>2. CallsUp(s) /\ sema_up(s) /\ s \in AllSema
    BY Zenon, <1>0, <1>15, <2>1, OtherSemas DEF Up, CallsUp
  <2>3. QED BY Zenon, <2>2, UpStep
<1>16. CASE Create
  BY Zenon, <1>0, <1>16, CreateStep, Workers DEF Create, At
<1>17. CASE Yield
  <2> DEFINE rl == IF cur # idle_thread THEN Append(ready_list, cur) ELSE ready_list
  <2>1. pc' \in [Thread -> PC] /\ \A u \in Thread : pc'[u] = pc[u]
    BY Zenon, <1>0, <1>17 DEF Yield
  <2>2. schedule("READY", rl)
    BY Zenon, <1>17 DEF Yield, thread_yield
  <2>3. Switches("READY", rl)
    BY Zenon, <1>0, <1>17, <2>1, <2>2 DEF Yield, sema, tids, Switches
  <2>4. QED BY Zenon, <2>3, SwitchStep
<1>18. CASE thread_exit
  BY Zenon, <1>18, ExitStep
<1>19. ASSUME EndHlt
       PROVE  /\ pc' \in [Thread -> PC] /\ \A u \in Thread : u # cur => pc'[u] = pc[u]
              /\ \/ pc'[cur] = pc[cur]
                 \/ pc[cur] = "idle_hlt" /\ pc'[cur] = "idle_block"
  BY Zenon, <1>0, <1>19 DEF EndHlt, PC
<1>20. CASE timer_interrupt
  <2>1. UNCHANGED <<all_list, idle_thread, intr_on, value, waiters, tid, next_tid, on, new>>
    BY Zenon, <1>20 DEF timer_interrupt, sema, tids
  <2>2. /\ pc' \in [Thread -> PC] /\ \A u \in Thread : u # cur => pc'[u] = pc[u]
        /\ \/ pc'[cur] = pc[cur]
           \/ pc[cur] = "idle_hlt" /\ pc'[cur] = "idle_block"
    BY Zenon, <1>19, <1>20 DEF timer_interrupt
  <2>3. CASE thread_ticks + 1 >= TIME_SLICE
    <3> DEFINE rl == IF cur # idle_thread THEN Append(ready_list, cur) ELSE ready_list
    <3>1. schedule("READY", rl)
      BY Zenon, <1>20, <2>3 DEF timer_interrupt, thread_yield
    <3>2. Switches("READY", rl)
      BY Zenon, <2>1, <2>2, <3>1 DEF Switches
    <3>3. QED BY Zenon, <3>2, SwitchStep
  <2>4. CASE ~(thread_ticks + 1 >= TIME_SLICE)
    <3>1. UNCHANGED <<cur, status, ready_list>> /\ thread_ticks' = thread_ticks + 1
      BY Zenon, <1>20, <2>4 DEF timer_interrupt
    <3>2. thread_ticks' \in 0..(TIME_SLICE - 1) /\ intr_on' \in BOOLEAN
      BY <2>1, <2>4, <3>1, BoundAssumption DEF IInv, TypeOK
    <3>3. /\ value' \in [AllSema -> Nat] /\ \A q \in AllSema : value'[q] <= value[q]
          /\ value'[TidLock] = value[TidLock]
      BY <1>0, <2>1
    <3>4. QED BY Zenon, <2>1, <2>2, <3>1, <3>2, <3>3, PlainStep
  <2>5. QED BY Zenon, <2>3, <2>4
<1>21. ASSUME NEW s \in Sema, device_interrupt(s) PROVE IInv'
  <2>1. /\ pc' \in [Thread -> PC] /\ \A u \in Thread : u # cur => pc'[u] = pc[u]
        /\ \/ pc'[cur] = pc[cur]
           \/ pc[cur] = "idle_hlt" /\ pc'[cur] = "idle_block"
    BY Zenon, <1>19, <1>21 DEF device_interrupt
  <2>2. CallsUp(s) /\ sema_up(s) /\ s \in AllSema
    BY Zenon, <1>21, <2>1, OtherSemas DEF device_interrupt, CallsUp
  <2>3. QED BY Zenon, <2>2, UpStep
<1>22. CASE UNCHANGED vars
  <2>1. UNCHANGED <<cur, status, ready_list, thread_ticks, all_list, idle_thread, intr_on,
                    pc, value, waiters, tid, next_tid, on, new>>
    BY Zenon, <1>22 DEF vars
  <2>2. TypeOK' /\ SomeoneRuns' /\ ReadyExact' /\ WaitersExact'
    BY Zenon, <2>1 DEF IInv, TypeOK, SomeoneRuns, ReadyExact, WaitersExact
  <2>3. Places' /\ Boot'
    BY Zenon, <2>1 DEF IInv, Places, Boot
  <2>4. NewExact'
    <3>1. \A u \in Thread : Creating(u)' <=> Creating(u)
      BY ZenonT(30), <2>1 DEF Creating
    <3>2. QED BY Zenon, <2>1, <3>1 DEF IInv, NewExact
  <2>5. Tids' /\ UniqueTid'
    BY Zenon, <2>1 DEF IInv, Tids, Named, UniqueTid
  <2>6. NoLostWakeup'
    BY Zenon, <2>1 DEF IInv, NoLostWakeup, Woken
  <2>7. QED BY Zenon, <2>2, <2>3, <2>4, <2>5, <2>6 DEF IInv
<1>23. QED
  BY Zenon, <1>1, <1>2, <1>3, <1>4, <1>5, <1>6, <1>7, <1>8, <1>9, <1>10, <1>11, <1>12,
     <1>13, <1>14,
     <1>15, <1>16, <1>17, <1>18, <1>20, <1>21, <1>22
  DEF Next, KernelStep, Call, Interrupt

\* Every step of the scheduler is a step of the abstract semaphores or leaves
\* them alone.
LEMMA SemStep == ASSUME IInv, [Next]_vars PROVE [Sem!Next]_(Sem!vars)
<1>0. cur \in Thread /\ value \in [AllSema -> Nat] /\ on \in [Thread -> AllSema \cup {NULL}]
  BY Zenon, Running DEF IInv, TypeOK
<1>1. \A s \in AllSema : CallsDown(s) => on[cur] \in {NULL, s}
  BY Zenon, <1>0 DEF CallsDown, IInv, Places
<1>2. ASSUME NEW s \in AllSema, CallsDown(s), sema_down(s)
      PROVE  [Sem!Next]_(Sem!vars)
  <2>1. CASE value[s] > 0
    <3>1. Sem!Take(cur, s)
      BY <1>0, <1>1, <1>2, <2>1 DEF sema_down, Sem!Take
    <3>2. QED BY Zenon, <1>0, <3>1 DEF Sem!Next
  <2>2. CASE value[s] = 0 /\ on[cur] = NULL
    <3>1. Sem!Wait(cur, s)
      BY <1>2, <2>2 DEF sema_down, Sem!Wait
    <3>2. QED BY Zenon, <1>0, <3>1 DEF Sem!Next
  <2>3. CASE value[s] = 0 /\ on[cur] = s
    <3>1. on' = on /\ value' = value
      BY <1>0, <1>2, <2>3 DEF sema_down
    <3>2. QED BY Zenon, <3>1 DEF Sem!vars
  <2>4. QED BY <1>0, <1>1, <1>2, <2>1, <2>2, <2>3
<1>3. ASSUME NEW s \in AllSema, sema_up(s), on' = on
      PROVE  [Sem!Next]_(Sem!vars)
  BY Zenon, <1>3 DEF sema_up, Sem!Up, Sem!Next
<1>4. ASSUME UNCHANGED <<value, on>> PROVE [Sem!Next]_(Sem!vars)
  BY Zenon, <1>4 DEF Sem!vars
<1>5. CASE StartWait \/ TidAcquire
  BY Zenon, <1>2, <1>5 DEF StartWait, TidAcquire, At, CallsDown
<1>6. CASE DownAgain
  <2>1. on[cur] \in AllSema
    BY Zenon, <1>0, <1>6 DEF DownAgain, At, IInv, Places
  <2>2. QED BY Zenon, <1>2, <1>6, <2>1 DEF DownAgain, At, CallsDown
<1>7. ASSUME NEW s \in Sema, Down(s) PROVE [Sem!Next]_(Sem!vars)
  BY Zenon, <1>2, <1>7, OtherSemas DEF Down, At, CallsDown
<1>8. ASSUME NEW s \in Sema, TryDown(s) PROVE [Sem!Next]_(Sem!vars)
  <2>0. s \in AllSema
    BY Zenon, OtherSemas
  <2>1. /\ on' = on /\ on[cur] = NULL
        /\ value' = [value EXCEPT ![s] = IF value[s] > 0 THEN value[s] - 1 ELSE value[s]]
    BY Zenon, <1>0, <1>8 DEF TryDown, At, sema_try_down, IInv, Places
  <2>2. CASE value[s] > 0
    <3>1. Sem!Take(cur, s)
      BY Zenon, <1>0, <2>1, <2>2 DEF Sem!Take
    <3>2. QED BY Zenon, <1>0, <2>0, <3>1 DEF Sem!Next
  <2>3. CASE ~(value[s] > 0)
    <3>1. value' = value
      BY Zenon, <1>0, <2>1, <2>3
    <3>2. QED BY Zenon, <1>4, <2>1, <3>1
  <2>4. QED BY Zenon, <2>2, <2>3
<1>9. CASE TidRelease \/ IdleUp
  BY Zenon, <1>3, <1>9 DEF TidRelease, IdleUp
<1>10. ASSUME NEW s \in Sema, Up(s) \/ device_interrupt(s) PROVE [Sem!Next]_(Sem!vars)
  BY Zenon, <1>3, <1>10, OtherSemas DEF Up, device_interrupt
<1>11. CASE StartIdle \/ Create
  BY Zenon, <1>4, <1>11 DEF StartIdle, Create, thread_create, sema
<1>12. CASE StartEnable \/ IdleInit \/ IdleBlock \/ TidLoad \/ TidStore \/ CreateUnblock
  BY Zenon, <1>4, <1>12 DEF StartEnable, IdleInit, IdleBlock, TidLoad, TidStore,
     CreateUnblock, sema
<1>13. CASE Yield \/ thread_exit \/ timer_interrupt
  BY Zenon, <1>4, <1>13 DEF Yield, thread_exit, timer_interrupt, sema
<1>14. CASE UNCHANGED vars
  BY Zenon, <1>4, <1>14 DEF vars
<1>15. QED
  BY Zenon, <1>5, <1>6, <1>7, <1>8, <1>9, <1>10, <1>11, <1>12, <1>13, <1>14
  DEF Next, KernelStep, Call, Interrupt

-----------------------------------------------------------------------------
\* The library's facts about finite sets come last and under a name of their
\* own: every proof of a module is the slower for what stands before it.
Finite == INSTANCE FiniteSetTheorems

\* The operators they are about are the ones used here.
LEMMA SameOperators ==
  \A S : /\ Finite!IsFiniteSet(S) <=> IsFiniteSet(S)
         /\ Finite!Cardinality(S) = Cardinality(S)
<1>1. \A S : Finite!IsFiniteSet(S) <=> IsFiniteSet(S)
  BY Zenon DEF Finite!IsFiniteSet, IsFiniteSet
<1>2. \A S : Finite!Cardinality(S) = Cardinality(S)
  BY Zenon DEF Finite!Cardinality, Cardinality
<1>3. QED BY Zenon, <1>1, <1>2

\* There are finitely many threads.
LEMMA ThreadFinite == Finite!IsFiniteSet(Thread)
<1>1. Finite!IsFiniteSet({Main}) /\ Finite!IsFiniteSet({Main} \cup {Idle})
  BY Zenon, Finite!FS_Singleton, Finite!FS_AddElement
<1>2. {Main, Idle} = {Main} \cup {Idle}
  BY Zenon
<1>3. Finite!IsFiniteSet(Worker)
  BY Zenon, ThreadAssumption, SameOperators
<1>4. Finite!IsFiniteSet({Main, Idle} \cup Worker)
  BY Zenon, <1>1, <1>2, <1>3, Finite!FS_Union
<1>5. QED BY Zenon, <1>4 DEF Thread

\* So sets of them have a cardinality, which one thread more or less changes by one.
LEMMA CountingThreads == Counting
<1>1. \A S \in SUBSET Thread : Finite!IsFiniteSet(S) /\ Finite!Cardinality(S) \in Nat
  BY Zenon, ThreadFinite, Finite!FS_Subset, Finite!FS_CardinalityType
<1>2. ASSUME NEW S \in SUBSET Thread, NEW t \in Thread, t \notin S
      PROVE  Finite!Cardinality(S \cup {t}) = Finite!Cardinality(S) + 1
  BY Zenon, <1>1, <1>2, Finite!FS_AddElement
<1>3. ASSUME NEW S \in SUBSET Thread, NEW t \in Thread, t \in S
      PROVE  Finite!Cardinality(S \ {t}) = Finite!Cardinality(S) - 1
  BY Zenon, <1>1, <1>3, Finite!FS_RemoveElement
<1>4. QED BY ZenonT(30), <1>1, <1>2, <1>3, SameOperators DEF Counting

\* The invariant holds throughout.
LEMMA Invariance == Spec => []IInv
<1>1. IInv /\ [Next]_vars => IInv'
  BY Zenon, NextIInv, CountingThreads
<1>2. QED BY <1>1, InitIInv, PTL DEF Spec, SafeSpec

\* struct thread and the scheduler's variables are always well formed, there is
\* one running thread, and no two threads get the same tid.
THEOREM WellFormed == Spec => []ThreadsWellFormed
<1>1. IInv => ThreadsWellFormed
  BY Zenon DEF IInv, ThreadsWellFormed
<1>2. QED BY <1>1, Invariance, PTL

\* The one list_elem of a thread is on one list at a time, and the run queue
\* holds the ready threads.
THEOREM OneListElem == Spec => []ElemExclusive
<1>1. IInv => ElemExclusive
  BY Zenon DEF IInv, ElemExclusive, ReadyExact, WaitersExact
<1>2. QED BY <1>1, Invariance, PTL

\* sema_up and sema_down lose no wake-up: while threads wait, every unit has a
\* woken thread on its way.
THEOREM WakeupNotLost == Spec => []NoLostWakeup
<1>1. IInv => NoLostWakeup
  BY Zenon DEF IInv
<1>2. QED BY <1>1, Invariance, PTL

\* Nothing refers to the page of a thread that thread_schedule_tail has freed.
THEOREM NothingDangles == Spec => []NoDanglingThread
<1>1. IInv => NoDanglingThread
  <2> SUFFICES ASSUME IInv, NEW t \in Thread, status[t] = "FREE"
               PROVE  /\ t # cur /\ t \notin Elems(ready_list) /\ t \notin all_list
                      /\ \A s \in AllSema : t \notin Elems(waiters[s])
                      /\ \A u \in Thread : pc[u] \in CreatePC => new[u] # t
    BY Zenon DEF NoDanglingThread
  <2>1. t # cur /\ t \notin Elems(ready_list) /\ t \notin all_list
    BY Zenon DEF IInv, SomeoneRuns, ReadyExact, Places
  <2>2. \A s \in AllSema : t \notin Elems(waiters[s])
    BY Zenon DEF IInv, WaitersExact
  <2>3. \A u \in Thread : pc[u] \in CreatePC => new[u] # t
    BY Zenon DEF IInv, NewExact, Creating
  <2>4. QED BY Zenon, <2>1, <2>2, <2>3
<1>2. QED BY <1>1, Invariance, PTL

\* A thread whose wake-up is pending, or that waits, takes a unit only when there
\* is one: every step of the scheduler is a step of the abstract semaphores or
\* leaves them alone.
THEOREM ImplementsSafely == Spec => Sem!SafeSpec
<1>1. Init => Sem!Init
  BY DEF Init, thread_init, sema_init, Sem!Init
<1>2. IInv /\ [Next]_vars => [Sem!Next]_(Sem!vars)
  BY Zenon, SemStep
<1>3. QED BY <1>1, <1>2, Invariance, PTL DEF Spec, SafeSpec, Sem!SafeSpec
=============================================================================
