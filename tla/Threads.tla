------------------------------ MODULE Threads ------------------------------
(***************************************************************************)
(* The kernel scheduler (threads/thread.c) with the semaphores built on it *)
(* (threads/synch.c) and the timer interrupt that preempts it              *)
(* (devices/timer.c, threads/interrupt.c).                                 *)
(*                                                                         *)
(* The machine has one processor.  Only the thread `cur` takes steps; an   *)
(* interrupt may come between any two of them unless interrupts are off.   *)
(* A stretch of code that runs with interrupts off is one step, up to the  *)
(* call of schedule() that gives the processor away.                       *)
(***************************************************************************)
EXTENDS Integers, FiniteSets, Lists

CONSTANTS
  Main,         \* initial_thread, set up by thread_init
  Idle,         \* the page thread_start gets for the idle thread
  Worker,       \* the other pages palloc_get_page can give to a thread
  TidLock,      \* the semaphore inside tid_lock
  IdleStarted,  \* the semaphore idle_started of thread_start
  Sema,         \* the other semaphores of the kernel
  NULL,
  TIME_SLICE,   \* ticks a thread may run before it must yield
  MaxValue,     \* bound: sema_up is not called above this value
  MaxTid        \* bound: no thread_create once next_tid is above it

Thread == {Main, Idle} \cup Worker
AllSema == {TidLock, IdleStarted} \cup Sema

ASSUME ThreadAssumption ==
  /\ Main # Idle /\ Main \notin Worker /\ Idle \notin Worker
  /\ NULL \notin Thread \cup AllSema
  /\ IsFiniteSet(Worker)
ASSUME SemaAssumption ==
  TidLock # IdleStarted /\ TidLock \notin Sema /\ IdleStarted \notin Sema
ASSUME BoundAssumption ==
  TIME_SLICE \in Nat \ {0} /\ MaxValue \in Nat \ {0} /\ MaxTid \in Nat

VARIABLES
  cur,          \* the running thread
  status,       \* t->status, or "FREE" for a page that holds no thread
  ready_list,
  all_list,     \* the threads on all_list
  idle_thread,  \* NULL until the idle thread has started
  thread_ticks, \* ticks since the last switch
  intr_on,      \* interrupts were enabled by thread_start
  value,        \* sema->value
  waiters,      \* sema->waiters
  tid,          \* t->tid
  next_tid,
  pc,           \* where each thread is
  on,           \* the semaphore whose sema_down it is in
  new           \* the thread its thread_create is making

sched == <<cur, status, ready_list, thread_ticks>>
sema == <<value, waiters>>
tids == <<tid, next_tid>>
vars == <<cur, status, ready_list, all_list, idle_thread, thread_ticks,
          intr_on, value, waiters, tid, next_tid, pc, on, new>>

Status == {"FREE", "RUNNING", "READY", "BLOCKED", "DYING"}
PC == {"boot", "boot_enable", "boot_wait", "run", "down", "tid_acquire",
       "tid_load", "tid_store", "tid_release", "unblock", "idle_init", "idle_up",
       "idle_block", "idle_hlt"}
CreatePC == {"tid_acquire", "tid_load", "tid_store", "tid_release", "unblock"}

\* Interrupts are off before thread_start enables them, and from the switch
\* back into sema_down's loop until the loop has tested the value again.
IntrOn == intr_on /\ cur # NULL /\ pc[cur] # "down"

\* The running thread is at point p of its code.
At(p) == cur # NULL /\ pc[cur] = p
Goto(p) == pc' = [pc EXCEPT ![cur] = p]
-----------------------------------------------------------------------------
(* The state after thread_init: only the initial thread, still with         *)
(* interrupts off.  The other semaphores may start with any value.          *)
thread_init ==
  /\ cur = Main
  /\ status = [t \in Thread |-> IF t = Main THEN "RUNNING" ELSE "FREE"]
  /\ ready_list = <<>>
  /\ all_list = {Main}
  /\ idle_thread = NULL
  /\ thread_ticks = 0
  /\ intr_on = FALSE
  /\ tid = [t \in Thread |-> IF t = Main THEN 1 ELSE 0]
  /\ next_tid = 2
  /\ pc = [t \in Thread |-> IF t = Main THEN "boot" ELSE "run"]
  /\ on = [t \in Thread |-> NULL]
  /\ new = [t \in Thread |-> NULL]

sema_init ==
  /\ value \in {v \in [AllSema -> 0..MaxValue] :
                  v[TidLock] = 1 /\ v[IdleStarted] = 0}
  /\ waiters = [s \in AllSema |-> <<>>]

Init == thread_init /\ sema_init
-----------------------------------------------------------------------------
(* schedule() with next_thread_to_run and thread_schedule_tail: the running *)
(* thread has status st, the run queue is rl.  A dying thread is destroyed  *)
(* by the thread that runs next, except for the initial thread.             *)
next_thread_to_run(rl) == IF rl = <<>> THEN idle_thread ELSE Head(rl)

schedule(st, rl) ==
  LET next == next_thread_to_run(rl)
      left == IF st = "DYING" /\ cur # Main THEN "FREE" ELSE st
  IN /\ cur' = next
     /\ ready_list' = IF rl = <<>> THEN rl ELSE Tail(rl)
     /\ status' = [status EXCEPT ![cur] = left, ![next] = "RUNNING"]
     /\ thread_ticks' = 0

thread_block == schedule("BLOCKED", ready_list)

\* Mutations of thread_yield: the idle thread is queued like any other; the
\* running thread is queued in front.
thread_yield_queues_idle == schedule("READY", Append(ready_list, cur))
thread_yield_in_front == schedule("READY", <<cur>> \o ready_list)

thread_yield ==
  schedule("READY",
           IF cur = idle_thread THEN ready_list ELSE Append(ready_list, cur))

\* thread_unblock(t), which never preempts the running thread.
thread_unblock(t) ==
  /\ ready_list' = Append(ready_list, t)
  /\ status' = [status EXCEPT ![t] = "READY"]
  /\ UNCHANGED <<cur, thread_ticks>>
-----------------------------------------------------------------------------
(* Semaphores.  sema_down(s) is one pass through the loop: it takes the     *)
(* semaphore and goes on, or it queues the thread and blocks it, and the    *)
(* loop tests the value again once the thread runs.                         *)
AfterDown(s) == IF s = TidLock THEN "tid_load" ELSE "run"

sema_down(s) ==
  \/ /\ value[s] > 0
     /\ value' = [value EXCEPT ![s] = @ - 1]
     /\ Goto(AfterDown(s))
     /\ on' = [on EXCEPT ![cur] = NULL]
     /\ UNCHANGED <<waiters, sched>>
  \/ /\ value[s] = 0
     /\ waiters' = [waiters EXCEPT ![s] = Append(@, cur)]
     /\ Goto("down")
     /\ on' = [on EXCEPT ![cur] = s]
     /\ thread_block
     /\ UNCHANGED value

sema_try_down(s) ==
  /\ value' = [value EXCEPT ![s] = IF @ > 0 THEN @ - 1 ELSE @]
  /\ UNCHANGED <<waiters, sched>>

\* Mutation of sema_up: wake a thread only when the value was zero.
sema_up_wakes_at_zero(s) ==
  /\ value' = [value EXCEPT ![s] = @ + 1]
  /\ IF waiters[s] = <<>> \/ value[s] > 0
     THEN UNCHANGED <<waiters, sched>>
     ELSE /\ waiters' = [waiters EXCEPT ![s] = Tail(@)]
          /\ thread_unblock(Head(waiters[s]))

sema_up(s) ==
  /\ value' = [value EXCEPT ![s] = @ + 1]
  /\ IF waiters[s] = <<>>
     THEN UNCHANGED <<waiters, sched>>
     ELSE /\ waiters' = [waiters EXCEPT ![s] = Tail(@)]
          /\ thread_unblock(Head(waiters[s]))
-----------------------------------------------------------------------------
(* thread_create: palloc_get_page and init_thread, allocate_tid under       *)
(* tid_lock, thread_unblock.  When no page is left it returns TID_ERROR.    *)
thread_create(t) ==
  /\ status[t] = "FREE"
  /\ status' = [status EXCEPT ![t] = "BLOCKED"]
  /\ all_list' = all_list \cup {t}
  /\ tid' = [tid EXCEPT ![t] = 0]
  /\ pc' = [pc EXCEPT ![cur] = "tid_acquire",
                      ![t] = IF t = Idle THEN "idle_init" ELSE "run"]
  /\ new' = [new EXCEPT ![cur] = t]
  /\ UNCHANGED <<cur, ready_list, idle_thread, thread_ticks, intr_on, sema,
                 next_tid, on>>

\* Mutation of TidAcquire: the lock is not taken.
TidAcquire_no_lock ==
  /\ At("tid_acquire")
  /\ Goto("tid_load")
  /\ UNCHANGED <<sched, all_list, idle_thread, intr_on, sema, tids, on, new>>

\* lock_acquire (&tid_lock) and its continuation after a wait.
TidAcquire ==
  /\ At("tid_acquire")
  /\ sema_down(TidLock)
  /\ UNCHANGED <<all_list, idle_thread, intr_on, tids, new>>

\* tid = next_tid++ is a load and a store.
TidLoad ==
  /\ At("tid_load")
  /\ tid' = [tid EXCEPT ![new[cur]] = next_tid]
  /\ Goto("tid_store")
  /\ UNCHANGED <<sched, all_list, idle_thread, intr_on, sema, next_tid, on, new>>

TidStore ==
  /\ At("tid_store")
  /\ next_tid' = tid[new[cur]] + 1
  /\ Goto("tid_release")
  /\ UNCHANGED <<sched, all_list, idle_thread, intr_on, sema, tid, on, new>>

TidRelease ==
  /\ At("tid_release")
  /\ sema_up(TidLock)
  /\ Goto("unblock")
  /\ UNCHANGED <<all_list, idle_thread, intr_on, tids, on, new>>

CreateUnblock ==
  /\ At("unblock")
  /\ thread_unblock(new[cur])
  /\ Goto(IF new[cur] = Idle THEN "boot_enable" ELSE "run")
  /\ new' = [new EXCEPT ![cur] = NULL]
  /\ UNCHANGED <<all_list, idle_thread, intr_on, sema, tids, on>>
-----------------------------------------------------------------------------

(* thread_start: create the idle thread, enable interrupts, wait for it.    *)
StartIdle == At("boot") /\ thread_create(Idle)

StartEnable ==
  /\ At("boot_enable")
  /\ intr_on' = TRUE
  /\ Goto("boot_wait")
  /\ UNCHANGED <<sched, all_list, idle_thread, sema, tids, on, new>>

StartWait ==
  /\ At("boot_wait")
  /\ sema_down(IdleStarted)
  /\ UNCHANGED <<all_list, idle_thread, intr_on, tids, new>>

(* The idle thread: publish idle_thread, wake thread_start, then block for  *)
(* ever; when it runs it halts until the next interrupt.                    *)
IdleInit ==
  /\ At("idle_init")
  /\ idle_thread' = cur
  /\ Goto("idle_up")
  /\ UNCHANGED <<sched, all_list, intr_on, sema, tids, on, new>>

IdleUp ==
  /\ At("idle_up")
  /\ sema_up(IdleStarted)
  /\ Goto("idle_block")
  /\ UNCHANGED <<all_list, idle_thread, intr_on, tids, on, new>>

IdleBlock ==
  /\ At("idle_block")
  /\ thread_block
  /\ Goto("idle_hlt")
  /\ UNCHANGED <<all_list, idle_thread, intr_on, sema, tids, on, new>>
-----------------------------------------------------------------------------
(* What a thread does of its own: any kernel call, in any order.            *)
Down(s) ==
  /\ At("run")
  /\ sema_down(s)
  /\ UNCHANGED <<all_list, idle_thread, intr_on, tids, new>>

\* Mutation of DownAgain: `if' instead of `while', the value is not tested
\* again.
DownAgain_without_test ==
  /\ At("down")
  /\ value' = [value EXCEPT ![on[cur]] = @ - 1]
  /\ Goto(AfterDown(on[cur]))
  /\ on' = [on EXCEPT ![cur] = NULL]
  /\ UNCHANGED <<waiters, sched, all_list, idle_thread, intr_on, tids, new>>

\* The loop of sema_down after a wake-up.
DownAgain ==
  /\ At("down")
  /\ sema_down(on[cur])
  /\ UNCHANGED <<all_list, idle_thread, intr_on, tids, new>>

TryDown(s) ==
  /\ At("run")
  /\ sema_try_down(s)
  /\ UNCHANGED <<all_list, idle_thread, intr_on, tids, pc, on, new>>

Up(s) ==
  /\ At("run")
  /\ value[s] < MaxValue
  /\ sema_up(s)
  /\ UNCHANGED <<all_list, idle_thread, intr_on, tids, pc, on, new>>

Create ==
  /\ At("run")
  /\ next_tid <= MaxTid
  /\ \E t \in Worker : thread_create(t)

Yield ==
  /\ At("run")
  /\ thread_yield
  /\ UNCHANGED <<all_list, idle_thread, intr_on, sema, tids, pc, on, new>>

\* Mutation of thread_exit: the thread stays on all_list.
thread_exit_keeps_allelem ==
  /\ At("run")
  /\ schedule("DYING", ready_list)
  /\ UNCHANGED <<all_list, idle_thread, intr_on, sema, tids, pc, on, new>>

thread_exit ==
  /\ At("run")
  /\ all_list' = all_list \ {cur}
  /\ schedule("DYING", ready_list)
  /\ UNCHANGED <<idle_thread, intr_on, sema, tids, pc, on, new>>
-----------------------------------------------------------------------------
(* Interrupts.  Either kind ends the hlt of the idle thread.                *)
EndHlt == pc' = [pc EXCEPT ![cur] = IF @ = "idle_hlt" THEN "idle_block" ELSE @]

timer_interrupt ==
  /\ IntrOn
  /\ EndHlt
  /\ IF thread_ticks + 1 >= TIME_SLICE
     THEN thread_yield
     ELSE /\ thread_ticks' = thread_ticks + 1
          /\ UNCHANGED <<cur, status, ready_list>>
  /\ UNCHANGED <<all_list, idle_thread, intr_on, sema, tids, on, new>>

\* A device handler that ups a semaphore (interrupt_handler of devices/ide.c).
device_interrupt(s) ==
  /\ IntrOn
  /\ EndHlt
  /\ value[s] < MaxValue
  /\ sema_up(s)
  /\ UNCHANGED <<all_list, idle_thread, intr_on, tids, on, new>>
-----------------------------------------------------------------------------
\* Steps inside a kernel call: the running thread cannot decline them.
KernelStep ==
  \/ StartIdle \/ StartEnable \/ StartWait
  \/ IdleInit \/ IdleUp \/ IdleBlock
  \/ TidAcquire \/ TidLoad \/ TidStore \/ TidRelease \/ CreateUnblock
  \/ DownAgain

Call ==
  \/ \E s \in Sema : Down(s) \/ TryDown(s) \/ Up(s)
  \/ Create \/ Yield \/ thread_exit

Interrupt == timer_interrupt \/ \E s \in Sema : device_interrupt(s)

Next == KernelStep \/ Call \/ Interrupt

\* The processor keeps executing the kernel's own code, and the timer keeps
\* ticking (pit_configure_channel makes it periodic).  Nothing makes a thread
\* call the kernel, or a device interrupt.
Fairness == WF_vars(KernelStep) /\ WF_vars(timer_interrupt)

SafeSpec == Init /\ [][Next]_vars
Spec == SafeSpec /\ Fairness
-----------------------------------------------------------------------------
TypeOK ==
  /\ cur \in Thread \cup {NULL}
  /\ status \in [Thread -> Status]
  /\ ready_list \in Seq(Thread)
  /\ all_list \subseteq Thread
  /\ idle_thread \in {NULL, Idle}
  /\ thread_ticks \in 0..(TIME_SLICE - 1)
  /\ intr_on \in BOOLEAN
  /\ value \in [AllSema -> Nat]
  /\ waiters \in [AllSema -> Seq(Thread)]
  /\ tid \in [Thread -> Nat]
  /\ next_tid \in Nat
  /\ pc \in [Thread -> PC]
  /\ on \in [Thread -> AllSema \cup {NULL}]
  /\ new \in [Thread -> Thread \cup {NULL}]

\* next_thread_to_run always finds a thread: the ready list is never empty
\* while idle_thread is still NULL, so the assertion is_thread (next) of
\* schedule holds from the first switch on, and the thread it finds is the
\* only one with status THREAD_RUNNING (the assertion of thread_current).
SomeoneRuns ==
  /\ cur # NULL
  /\ \A t \in Thread : status[t] = "RUNNING" <=> t = cur

\* The one list_elem of a thread is enough (comment on struct thread): the
\* run queue holds each ready thread once and nothing else, a wait list holds
\* only blocked threads, each once and on one list.  The idle thread is the
\* exception: once idle_thread is set it is on no list.
ElemExclusive ==
  /\ Distinct(ready_list)
  /\ \A t \in Thread :
       t \in Elems(ready_list) <=> status[t] = "READY" /\ t # idle_thread
  /\ \A s \in AllSema :
       /\ Distinct(waiters[s])
       /\ \A t \in Elems(waiters[s]) :
            status[t] = "BLOCKED" /\ pc[t] = "down" /\ on[t] = s

\* The threads that sema_up took off the wait list and that have not yet
\* tested the value again.
Woken(s) == {t \in Thread : /\ pc[t] = "down" /\ on[t] = s
                            /\ t \notin Elems(waiters[s])}

\* No wake-up is lost: while threads wait, every unit of the semaphore has a
\* thread on its way to take it, even when another thread takes it first.
NoLostWakeup ==
  \A s \in AllSema :
    waiters[s] # <<>> => value[s] <= Cardinality(Woken(s))

Named == {t \in Thread : status[t] # "FREE" /\ tid[t] # 0}

\* No two threads have the same tid, whatever preempts allocate_tid between
\* the load and the store of next_tid.
UniqueTid ==
  \A t, u \in Named : tid[t] = tid[u] => t = u

\* struct thread and the scheduler's variables are well formed: types, the one
\* running thread, and tids that name one thread.
ThreadsWellFormed == TypeOK /\ SomeoneRuns /\ UniqueTid

\* A page is taken from palloc for a new thread only when nothing refers to
\* it: no list, no semaphore and no thread_create in progress holds a pointer
\* to a thread that thread_schedule_tail has freed.
NoDanglingThread ==
  \A t \in Thread : status[t] = "FREE" =>
    /\ t # cur /\ t \notin Elems(ready_list) /\ t \notin all_list
    /\ \A s \in AllSema : t \notin Elems(waiters[s])
    /\ \A u \in Thread : pc[u] \in CreatePC => new[u] # t

\* Round robin starves nobody: a ready thread is eventually running.
ReadyRuns ==
  \A t \in Thread \ {Idle} : (status[t] = "READY") ~> (status[t] # "READY")

\* Once booted the kernel has its idle thread, so the processor is never
\* without work: thread_start's wait ends.
BootEnds == <>(idle_thread = Idle /\ pc[Main] = "run")

\* Nobody waits for the processor for ever, neither main in thread_start nor a
\* thread on ready_list.
EveryoneRuns == BootEnds /\ ReadyRuns

\* The scheduler and its wait lists implement the abstract semaphores.
Sem == INSTANCE Semaphore WITH Sema <- AllSema, waiting <- on

\* Every step is a step of the abstract semaphores or leaves them alone, and
\* a unit is not left unused for ever while a thread waits for it.
ImplementsSemaphore == Sem!Spec

=============================================================================
