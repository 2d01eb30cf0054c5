------------------------------ MODULE Process ------------------------------
(***************************************************************************)
(* The life of user processes (userprog/process.c, userprog/syscall.c):    *)
(* process_execute with its handshake, process_wait, handle_exit, and the  *)
(* wait_status records on wait_list that connect a parent and a child.     *)
(*                                                                         *)
(* wait_list has no lock and processes may be preempted anywhere, so every *)
(* visit of a list element is a step.  An access to a wait_status that was *)
(* freed (free fills it with 0xcc) or to the thread of a process that is   *)
(* gone ends the run: `fault' says which.  exec_lock, `temporary' and      *)
(* end_p are the locks and semaphores of module Synch.                     *)
(***************************************************************************)
EXTENDS Integers, FiniteSets, Lists

CONSTANTS
  Main,       \* the initial thread, which runs run_task
  User,       \* tids of the processes it and they create
  Code,       \* exit codes of processes that end by themselves
  TID_ERROR,
  NULL,
  MayFail     \* whether thread_create may run out of pages

Proc == {Main} \cup User
Status == User \cup {TID_ERROR}  \* a wait_status, by its child_pid

ASSUME ProcessAssumption ==
  /\ Main \notin User
  /\ {NULL, TID_ERROR} \cap Proc = {} /\ NULL # TID_ERROR
  /\ Code \subseteq Nat
  /\ MayFail \in BOOLEAN

VARIABLES
  state,      \* "none", "live" or "dead"
  pc,         \* where each process is
  child,      \* the argument or the new process of its call
  exec_lock, temporary, load_val,
  wait_list,
  return_val, parent_pid, end_p, ref_cnt, alloc,  \* of each wait_status
  e,          \* the element its loop over wait_list has reached
  code,       \* the argument of handle_exit
  loaded,     \* what load returned for it
  ret,        \* what its last call returned
  cwd,        \* processes with a work_dir
  fault

status == <<return_val, parent_pid, end_p, ref_cnt, alloc>>
handshake == <<exec_lock, temporary, load_val>>
vars == <<state, pc, child, handshake, wait_list, status, e, code, loaded, ret,
          cwd, fault>>

PC == {"run", "exec_lock", "exec_create", "exec_push", "exec_dir", "exec_down",
       "exec_unlock", "exec_return", "load", "load_up", "wait", "wait_down",
       "wait_free", "exit", "exit_up", "exit_check", "exit_free", "die"}

\* p is a live process at point l of its code.
At(p, l) == fault = "none" /\ state[p] = "live" /\ pc[p] = l
Goto(p, l) == pc' = [pc EXCEPT ![p] = l]

\* The elements of wait_list; NULL is its end.
list_begin == IF wait_list = <<>> THEN NULL ELSE Head(wait_list)
list_next(x) ==
  LET k == Index(wait_list, x)
  IN IF k = Len(wait_list) THEN NULL ELSE wait_list[k + 1]
list_remove(x) == Remove(wait_list, x)

\* p touches memory that is not there any more.
Fault(why) ==
  /\ fault' = why
  /\ UNCHANGED <<state, pc, child, handshake, wait_list, status, e, code, loaded,
                 ret, cwd>>
Freed(x) == alloc[x] # "live"
-----------------------------------------------------------------------------
Init ==
  /\ state = [p \in Proc |-> IF p = Main THEN "live" ELSE "none"]
  /\ pc = [p \in Proc |-> IF p = Main THEN "run" ELSE "load"]
  /\ child = [p \in Proc |-> NULL]
  /\ exec_lock = NULL /\ temporary = 0 /\ load_val = 0
  /\ wait_list = <<>>
  /\ return_val = [x \in Status |-> NULL]  \* not initialised
  /\ parent_pid = [x \in Status |-> NULL]
  /\ end_p = [x \in Status |-> 0]
  /\ ref_cnt = [x \in Status |-> 0]
  /\ alloc = [x \in Status |-> "none"]
  /\ e = [p \in Proc |-> NULL]
  /\ code = [p \in Proc |-> 0]
  /\ loaded = [p \in Proc |-> TRUE]
  /\ ret = [p \in Proc |-> 0]
  /\ cwd = {}
  /\ fault = "none"
-----------------------------------------------------------------------------
(* process_execute.                                                         *)

\* Calls that will still create a process.  User bounds their number.
Creating == {p \in Proc : pc[p] \in {"exec_lock", "exec_create"}}

process_execute(p) ==
  /\ At(p, "run")
  /\ Cardinality(Creating) < Cardinality({c \in User : state[c] = "none"})
  /\ Goto(p, "exec_lock")
  /\ UNCHANGED <<state, child, handshake, wait_list, status, e, code, loaded, ret,
                 cwd, fault>>

ExecLock(p) ==
  /\ At(p, "exec_lock")
  /\ exec_lock = NULL
  /\ exec_lock' = p /\ temporary' = 0
  /\ Goto(p, "exec_create")
  /\ UNCHANGED <<state, child, load_val, wait_list, status, e, code, loaded, ret,
                 cwd, fault>>

\* thread_create: from here on the child may run.
ExecCreate(p) ==
  /\ At(p, "exec_create")
  /\ \/ \E c \in User :
          /\ state[c] = "none"
          /\ state' = [state EXCEPT ![c] = "live"]
          /\ child' = [child EXCEPT ![p] = c]
     \/ /\ MayFail
        /\ child' = [child EXCEPT ![p] = TID_ERROR]
        /\ UNCHANGED state
  /\ Goto(p, "exec_push")
  /\ UNCHANGED <<handshake, wait_list, status, e, code, loaded, ret, cwd, fault>>

\* The wait_status is filled in and pushed, also for TID_ERROR.
ExecPush(p) ==
  /\ At(p, "exec_push")
  /\ LET c == child[p]
     IN /\ parent_pid' = [parent_pid EXCEPT ![c] = p]
        /\ end_p' = [end_p EXCEPT ![c] = 0]
        /\ ref_cnt' = [ref_cnt EXCEPT ![c] = 2]
        /\ alloc' = [alloc EXCEPT ![c] = "live"]
        /\ wait_list' = Append(wait_list, c)
  /\ Goto(p, "exec_dir")
  /\ UNCHANGED <<state, child, handshake, return_val, e, code, loaded, ret, cwd,
                 fault>>

\* set_work_dir: get_thread does not find a child that is gone.
set_work_dir(p) ==
  /\ At(p, "exec_dir")
  /\ LET c == child[p]
     IN IF p \in cwd /\ (c = TID_ERROR \/ state[c] = "dead")
        THEN Fault("gone")
        ELSE /\ cwd' = IF p \in cwd THEN cwd \cup {c} ELSE cwd
             /\ Goto(p, "exec_down")
             /\ UNCHANGED <<state, child, handshake, wait_list, status, e, code,
                            loaded, ret, fault>>

\* sema_down (&temporary).
ExecDown(p) ==
  /\ At(p, "exec_down")
  /\ temporary > 0
  /\ temporary' = temporary - 1
  /\ Goto(p, "exec_unlock")
  /\ UNCHANGED <<state, child, exec_lock, load_val, wait_list, status, e, code,
                 loaded, ret, cwd, fault>>

ExecUnlock(p) ==
  /\ At(p, "exec_unlock")
  /\ exec_lock' = NULL
  /\ Goto(p, "exec_return")
  /\ UNCHANGED <<state, child, temporary, load_val, wait_list, status, e, code,
                 loaded, ret, cwd, fault>>

\* load_val is read after the lock is released.
ExecReturn(p) ==
  /\ At(p, "exec_return")
  /\ ret' = [ret EXCEPT ![p] = IF load_val # 0 THEN TID_ERROR ELSE child[p]]
  /\ child' = [child EXCEPT ![p] = NULL]
  /\ Goto(p, "run")
  /\ UNCHANGED <<state, handshake, wait_list, status, e, code, loaded, cwd, fault>>
-----------------------------------------------------------------------------
(* start_process, in the child.                                             *)
start_process(p) ==
  /\ At(p, "load")
  /\ \E ok \in BOOLEAN :
       /\ loaded' = [loaded EXCEPT ![p] = ok]
       /\ load_val' = IF ok THEN 0 ELSE -1
  /\ Goto(p, "load_up")
  /\ UNCHANGED <<state, child, exec_lock, temporary, wait_list, status, e, code, ret,
                 cwd, fault>>

\* Mutation of LoadUp: a child that fails to load does not up.
LoadUp_success_only(p) ==
  /\ At(p, "load_up")
  /\ IF loaded[p]
     THEN Goto(p, "run") /\ temporary' = temporary + 1 /\ UNCHANGED <<code, e>>
     ELSE /\ Goto(p, "exit")
          /\ code' = [code EXCEPT ![p] = -1]
          /\ e' = [e EXCEPT ![p] = list_begin]
          /\ UNCHANGED temporary
  /\ UNCHANGED <<state, child, exec_lock, load_val, wait_list, status, loaded, ret,
                 cwd, fault>>

LoadUp(p) ==
  /\ At(p, "load_up")
  /\ temporary' = temporary + 1
  /\ IF loaded[p]
     THEN Goto(p, "run") /\ UNCHANGED <<code, e>>
     ELSE /\ Goto(p, "exit")
          /\ code' = [code EXCEPT ![p] = -1]
          /\ e' = [e EXCEPT ![p] = list_begin]
  /\ UNCHANGED <<state, child, exec_lock, load_val, wait_list, status, loaded, ret,
                 cwd, fault>>
-----------------------------------------------------------------------------
(* process_wait, for any tid; the loop compares both pids.                  *)
process_wait(p, c) ==
  /\ At(p, "run")
  /\ child' = [child EXCEPT ![p] = c]
  /\ e' = [e EXCEPT ![p] = list_begin]
  /\ Goto(p, "wait")
  /\ UNCHANGED <<state, handshake, wait_list, status, code, loaded, ret, cwd, fault>>

WaitVisit(p) ==
  /\ At(p, "wait")
  /\ \/ /\ e[p] = NULL
        /\ ret' = [ret EXCEPT ![p] = -1]
        /\ child' = [child EXCEPT ![p] = NULL]
        /\ Goto(p, "run")
        /\ UNCHANGED <<e, state, handshake, wait_list, status, code, loaded, cwd,
                       fault>>
     \/ e[p] # NULL /\ Freed(e[p]) /\ Fault("freed")
     \/ /\ e[p] # NULL /\ ~Freed(e[p])
        /\ IF e[p] = child[p] /\ parent_pid[e[p]] = p
           THEN Goto(p, "wait_down") /\ UNCHANGED e
           ELSE e' = [e EXCEPT ![p] = list_next(e[p])] /\ UNCHANGED pc
        /\ UNCHANGED <<state, child, handshake, wait_list, status, code, loaded, ret,
                       cwd, fault>>

\* Mutation of WaitDown: the parent does not wait.
WaitDown_missing(p) ==
  /\ At(p, "wait_down")
  /\ Goto(p, "wait_free")
  /\ UNCHANGED <<state, child, handshake, wait_list, status, e, code, loaded, ret,
                 cwd, fault>>

\* sema_down (&status->end_p).
WaitDown(p) ==
  /\ At(p, "wait_down")
  /\ end_p[e[p]] > 0
  /\ end_p' = [end_p EXCEPT ![e[p]] = @ - 1]
  /\ Goto(p, "wait_free")
  /\ UNCHANGED <<state, child, handshake, wait_list, return_val, parent_pid, ref_cnt,
                 alloc, e, code, loaded, ret, cwd, fault>>

\* Mutation of WaitFree: the element stays on wait_list.
WaitFree_listed(p) ==
  /\ At(p, "wait_free")
  /\ ret' = [ret EXCEPT ![p] = return_val[e[p]]]
  /\ alloc' = [alloc EXCEPT ![e[p]] = "freed"]
  /\ child' = [child EXCEPT ![p] = NULL] /\ e' = [e EXCEPT ![p] = NULL]
  /\ Goto(p, "run")
  /\ UNCHANGED <<state, handshake, wait_list, return_val, parent_pid, end_p, ref_cnt,
                 code, loaded, cwd, fault>>

\* The element is removed, its value returned and the wait_status freed.
WaitFree(p) ==
  /\ At(p, "wait_free")
  /\ wait_list' = list_remove(e[p])
  /\ ret' = [ret EXCEPT ![p] = return_val[e[p]]]
  /\ alloc' = [alloc EXCEPT ![e[p]] = "freed"]
  /\ child' = [child EXCEPT ![p] = NULL] /\ e' = [e EXCEPT ![p] = NULL]
  /\ Goto(p, "run")
  /\ UNCHANGED <<state, handshake, return_val, parent_pid, end_p, ref_cnt, code, loaded,
                 cwd, fault>>
-----------------------------------------------------------------------------
(* handle_exit, from the exit system call or from a kill.                   *)
handle_exit(p, v) ==
  /\ At(p, "run") /\ p # Main
  /\ code' = [code EXCEPT ![p] = v]
  /\ e' = [e EXCEPT ![p] = list_begin]
  /\ Goto(p, "exit")
  /\ UNCHANGED <<state, child, handshake, wait_list, status, loaded, ret, cwd, fault>>

\* One visit: the own status gets the code, any status p is part of loses a
\* reference.
ExitVisit(p) ==
  /\ At(p, "exit")
  /\ \/ /\ e[p] = NULL
        /\ Goto(p, "die")
        /\ UNCHANGED <<state, child, handshake, wait_list, status, e, code, loaded,
                       ret, cwd, fault>>
     \/ e[p] # NULL /\ Freed(e[p]) /\ Fault("freed")
     \/ /\ e[p] # NULL /\ ~Freed(e[p])
        /\ return_val' = IF e[p] = p THEN [return_val EXCEPT ![p] = code[p]]
                         ELSE return_val
        /\ ref_cnt' = IF e[p] = p \/ parent_pid[e[p]] = p
                      THEN [ref_cnt EXCEPT ![e[p]] = @ - 1] ELSE ref_cnt
        /\ Goto(p, IF e[p] = p THEN "exit_up" ELSE "exit_check")
        /\ UNCHANGED <<state, child, handshake, wait_list, parent_pid, end_p, alloc, e,
                       code, loaded, ret, cwd, fault>>

\* sema_up (&status->end_p).
ExitUp(p) ==
  /\ At(p, "exit_up")
  /\ IF Freed(e[p]) THEN Fault("freed")
     ELSE /\ end_p' = [end_p EXCEPT ![e[p]] = @ + 1]
          /\ Goto(p, "exit_check")
          /\ UNCHANGED <<state, child, handshake, wait_list, return_val, parent_pid,
                         ref_cnt, alloc, e, code, loaded, ret, cwd, fault>>

ExitCheck(p) ==
  /\ At(p, "exit_check")
  /\ IF Freed(e[p]) THEN Fault("freed")
     ELSE /\ IF ref_cnt[e[p]] = 0
             THEN Goto(p, "exit_free") /\ UNCHANGED e
             ELSE Goto(p, "exit") /\ e' = [e EXCEPT ![p] = list_next(e[p])]
          /\ UNCHANGED <<state, child, handshake, wait_list, status, code, loaded, ret,
                         cwd, fault>>

\* list_remove returns the next element, and the loop then steps over it.
ExitFree(p) ==
  /\ At(p, "exit_free")
  /\ IF Freed(e[p]) THEN Fault("freed")
     ELSE LET x == list_next(e[p])
          IN /\ wait_list' = list_remove(e[p])
             /\ alloc' = [alloc EXCEPT ![e[p]] = "freed"]
             /\ e' = [e EXCEPT ![p] = IF x = NULL THEN NULL ELSE list_next(x)]
             /\ Goto(p, "exit")
             /\ UNCHANGED <<state, child, handshake, return_val, parent_pid, end_p,
                            ref_cnt, code, loaded, ret, cwd, fault>>

\* thread_exit, with process_exit closing the working directory.
thread_exit(p) ==
  /\ At(p, "die")
  /\ state' = [state EXCEPT ![p] = "dead"]
  /\ ret' = [ret EXCEPT ![p] = 0]
  /\ cwd' = cwd \ {p}
  /\ UNCHANGED <<pc, child, handshake, wait_list, status, e, code, loaded, fault>>

\* The chdir call gives the process a working directory.
Chdir(p) ==
  /\ At(p, "run") /\ p # Main /\ p \notin cwd
  /\ cwd' = cwd \cup {p}
  /\ UNCHANGED <<state, pc, child, handshake, wait_list, status, e, code, loaded, ret,
                 fault>>
-----------------------------------------------------------------------------
Step(p) ==
  \/ ExecLock(p) \/ ExecCreate(p) \/ ExecPush(p) \/ set_work_dir(p)
  \/ ExecDown(p) \/ ExecUnlock(p) \/ ExecReturn(p)
  \/ start_process(p) \/ LoadUp(p)
  \/ WaitVisit(p) \/ WaitDown(p) \/ WaitFree(p)
  \/ ExitVisit(p) \/ ExitUp(p) \/ ExitCheck(p) \/ ExitFree(p) \/ thread_exit(p)

Call(p) ==
  \/ process_execute(p)
  \/ \E c \in Status : process_wait(p, c)
  \/ \E v \in Code \cup {-1} : handle_exit(p, v)
  \/ Chdir(p)

Next == \E p \in Proc : Step(p) \/ Call(p)

Spec == Init /\ [][Next]_vars
-----------------------------------------------------------------------------
TypeOK ==
  /\ state \in [Proc -> {"none", "live", "dead"}]
  /\ pc \in [Proc -> PC]
  /\ child \in [Proc -> Status \cup {NULL}]
  /\ exec_lock \in Proc \cup {NULL}
  /\ temporary \in 0..1 /\ load_val \in {0, -1}
  /\ wait_list \in Seq(Status) /\ Distinct(wait_list)
  /\ end_p \in [Status -> 0..1]
  /\ ref_cnt \in [Status -> 0..2]
  /\ alloc \in [Status -> {"none", "live", "freed"}]
  /\ e \in [Proc -> Status \cup {NULL}]
  /\ fault \in {"none", "freed", "gone"}

\* While process_execute holds exec_lock behind sema_down (&temporary), the
\* up came from its own child and load_val is what that child's load returned.
HandshakeExact ==
  \A p \in Proc :
    pc[p] = "exec_unlock" =>
      /\ exec_lock = p
      /\ pc[child[p]] \notin {"load", "load_up"}
      /\ load_val = IF loaded[child[p]] THEN 0 ELSE -1

\* sema_init does not wipe out the up of a child: a process_execute that has
\* created its child finds `temporary' raised, or the child is on its way to
\* raise it, so that the wait of the parent ends.
HandshakeEnds ==
  \A p \in Proc :
    pc[p] \in {"exec_push", "exec_dir", "exec_down"} /\ child[p] # TID_ERROR =>
      /\ exec_lock = p
      /\ temporary = 1 \/ pc[child[p]] \in {"load", "load_up"}

\* process_execute and start_process meet: the parent goes on with the result of
\* its own child, and does go on.  (With the types of what they share.)
HandshakeRight == TypeOK /\ HandshakeExact /\ HandshakeEnds

\* process_wait returns the exit code of the child: by the time sema_down
\* (&status->end_p) lets the parent go, the child has stored it.
WaitExact ==
  \A p \in Proc :
    pc[p] = "wait_free" /\ fault = "none" =>
      return_val[e[p]] = code[e[p]] /\ parent_pid[e[p]] = p

\* A wait_status is never on the list after it was freed, and one that is not
\* freed is on it: no parent looks for its child in vain.
ListExact == \A x \in Status : x \in Elems(wait_list) <=> alloc[x] = "live"

\* process_execute returns the thread id of a child that was created and
\* loaded; the failure of another process's child is not its own.
ExecResult ==
  \A p \in Proc : At(p, "exec_return") /\ loaded[child[p]] => load_val = 0

\* A parent that waits in process_wait for a child finds it alive or already
\* signalled by handle_exit.
WaitEnds ==
  \A p \in Proc : At(p, "wait_down") =>
    state[e[p]] = "live" \/ end_p[e[p]] > 0

\* handle_exit and process_wait use a wait_status only while it is allocated.
NoUseAfterFree == fault # "freed"
=============================================================================
