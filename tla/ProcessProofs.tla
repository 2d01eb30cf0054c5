--------------------------- MODULE ProcessProofs ---------------------------
(***************************************************************************)
(* process_execute and start_process meet, process_wait returns the exit   *)
(* code of the child, and wait_list holds the allocated wait_status        *)
(* records: for any number of processes.                                   *)
(*                                                                         *)
(* First the handshake, which does not look at wait_list; then the records *)
(* on wait_list, whose reference counts bound what may still happen.       *)
(***************************************************************************)
EXTENDS Process

CreatedPC == {"exec_push", "exec_dir", "exec_down"}
LockedPC == {"exec_create", "exec_unlock"} \cup CreatedPC
LoadPC == {"load", "load_up"}
ExitPC == {"exit", "exit_up", "exit_check", "exit_free", "die"}

HandshakeTypes ==
  /\ state \in [Proc -> {"none", "live", "dead"}]
  /\ pc \in [Proc -> PC]
  /\ child \in [Proc -> Status \cup {NULL}]
  /\ exec_lock \in Proc \cup {NULL}
  /\ temporary \in 0..1 /\ load_val \in {0, -1}
  /\ loaded \in [Proc -> BOOLEAN]
  /\ fault \in {"none", "freed", "gone"}

\* A process that does not exist yet will begin with start_process; the
\* initial thread neither loads nor exits.
Lives ==
  /\ \A p \in User : state[p] = "none" => pc[p] = "load"
  /\ state[Main] = "live" /\ pc[Main] \notin LoadPC \cup ExitPC

LockExact == \A p \in Proc : exec_lock = p <=> pc[p] \in LockedPC

LoadResult(c) == load_val = IF loaded[c] THEN 0 ELSE -1

\* A process that loads is the child of the call that holds exec_lock, and
\* `temporary' is still down.
LoadExact ==
  \A c \in User :
    state[c] = "live" /\ pc[c] \in LoadPC =>
      /\ \E p \in Proc : pc[p] \in CreatedPC /\ child[p] = c
      /\ temporary = 0
      /\ pc[c] = "load_up" => LoadResult(c)

\* A call that has created its child waits for an up that came or will come.
CreatedExact ==
  \A p \in Proc :
    /\ pc[p] \in CreatedPC =>
         /\ child[p] \in Status \ {p}
         /\ child[p] = TID_ERROR => temporary = 0
         /\ child[p] # TID_ERROR =>
              /\ state[child[p]] # "none"
              /\ temporary = 0 => pc[child[p]] \in LoadPC
              /\ temporary = 1 => pc[child[p]] \notin LoadPC /\ LoadResult(child[p])
    /\ pc[p] = "exec_unlock" =>
         child[p] \in User /\ pc[child[p]] \notin LoadPC /\ LoadResult(child[p])

\* `temporary' is up only for a call that has yet to take it.
UpExact == temporary = 1 => \E p \in Proc : pc[p] \in CreatedPC

HInv ==
  HandshakeTypes /\ Lives /\ LockExact /\ LoadExact /\ CreatedExact /\ UpExact

USE ProcessAssumption DEF Proc, Status
-----------------------------------------------------------------------------
\* At the start only the initial thread runs.
LEMMA InitHInv == Init => HInv
<1> SUFFICES ASSUME Init PROVE HInv
  BY Zenon
<1> USE DEF Init, LoadPC, CreatedPC, LockedPC, ExitPC
<1>1. HandshakeTypes
  BY DEF HandshakeTypes, PC
<1>2. Lives /\ LockExact /\ LoadExact /\ CreatedExact /\ UpExact
  BY DEF Lives, LockExact, LoadExact, CreatedExact, UpExact
<1>3. QED BY Zenon, <1>1, <1>2 DEF HInv

\* At most one call is between thread_create and lock_release.
LEMMA OneLocked ==
  ASSUME HInv, NEW p \in Proc, NEW q \in Proc, pc[p] \in LockedPC, pc[q] \in LockedPC
  PROVE  p = q
BY Zenon DEF HInv, LockExact

\* A step of one process that is outside the handshake before and after it.
LEMMA HandshakeSame ==
  ASSUME HInv, NEW p \in Proc, fault' \in {"none", "freed", "gone"},
         state[p] = "live", state'[p] \in {"live", "dead"},
         pc' = pc \/ \E l \in PC : pc' = [pc EXCEPT ![p] = l],
         state' = [state EXCEPT ![p] = state'[p]],
         p = Main => state'[p] = "live" /\ pc'[p] \notin ExitPC,
         child' = child \/ \E c \in Status \cup {NULL} : child' = [child EXCEPT ![p] = c],
         pc[p] \notin LockedPC \cup LoadPC,
         pc'[p] \notin LockedPC \cup LoadPC,
         UNCHANGED <<exec_lock, temporary, load_val, loaded>>
  PROVE  HInv'
<1> USE DEF HInv
<1>1. /\ pc' \in [Proc -> PC] /\ \A q \in Proc : q # p => pc'[q] = pc[q]
      /\ child' \in [Proc -> Status \cup {NULL}]
      /\ \A q \in Proc : q # p => child'[q] = child[q]
      /\ state' \in [Proc -> {"none", "live", "dead"}]
      /\ \A q \in Proc : q # p => state'[q] = state[q]
  BY DEF HandshakeTypes
<1> USE <1>1
<1>2. HandshakeTypes'
  BY Zenon DEF HandshakeTypes
<1>3. Lives'
  BY Zenon DEF Lives
<1>4. LockExact'
  BY Zenon DEF LockExact
<1>5. \A q \in Proc : pc'[q] \in CreatedPC <=> pc[q] \in CreatedPC
  BY Zenon DEF LockedPC
<1>6. LoadExact'
  BY <1>5 DEF LoadExact, LoadResult, LockedPC
<1>7. CreatedExact'
  BY <1>5 DEF CreatedExact, LoadResult, LockedPC
<1>8. UpExact'
  BY Zenon, <1>5 DEF UpExact
<1>9. QED BY Zenon, <1>2, <1>3, <1>4, <1>6, <1>7, <1>8

\* An access to freed memory changes nothing but `fault'.
LEMMA FaultSame ==
  ASSUME HInv, NEW why \in {"freed", "gone"}, Fault(why) PROVE HInv'
BY DEF HInv, Fault, handshake, HandshakeTypes, Lives, LockExact, LoadExact, CreatedExact,
       UpExact, LoadResult

\* A step of handle_exit to another point of handle_exit.
LEMMA ExitSame ==
  ASSUME HInv, NEW p \in Proc, state[p] = "live", pc[p] \in ExitPC,
         NEW l \in ExitPC, pc' = [pc EXCEPT ![p] = l],
         UNCHANGED <<state, child, exec_lock, temporary, load_val, loaded, fault>>
  PROVE  HInv'
<1>1. p # Main
  BY Zenon DEF HInv, Lives
<1>2. /\ state \in [Proc -> {"none", "live", "dead"}] /\ pc \in [Proc -> PC]
      /\ fault \in {"none", "freed", "gone"}
  BY Zenon DEF HInv, HandshakeTypes
<1>3. l \in PC /\ pc'[p] = l
  BY Zenon, <1>2 DEF ExitPC, PC
<1>4. pc[p] \notin LockedPC \cup LoadPC /\ pc'[p] \notin LockedPC \cup LoadPC
  BY Zenon, <1>3 DEF ExitPC, LockedPC, CreatedPC, LoadPC
<1>5. state' = [state EXCEPT ![p] = state'[p]] /\ state'[p] \in {"live", "dead"}
  BY Zenon, <1>2
<1>6. QED BY Zenon, <1>1, <1>2, <1>3, <1>4, <1>5, HandshakeSame

\* The handshake holds in the next state.
LEMMA NextHInv == HInv /\ [Next]_vars => HInv'
<1> SUFFICES ASSUME HInv, [Next]_vars PROVE HInv'
  BY Zenon
<1> USE DEF At, Goto, handshake, status, LoadPC, CreatedPC, LockedPC, ExitPC, PC
<1>t. HandshakeTypes
  BY Zenon DEF HInv
<1>1. ASSUME NEW p \in Proc, process_execute(p) PROVE HInv'
  BY Zenon, <1>1, <1>t, HandshakeSame DEF process_execute, HandshakeTypes
<1>2. ASSUME NEW p \in Proc, ExecLock(p) PROVE HInv'
  <2> USE <1>2, <1>t DEF ExecLock
  <2>1. HandshakeTypes' /\ Lives' /\ LockExact'
    BY DEF HInv, HandshakeTypes, Lives, LockExact
  <2>2. \A q \in Proc : pc[q] \notin LockedPC
    BY Zenon DEF HInv, LockExact
  <2>3. LoadExact' /\ CreatedExact' /\ UpExact'
    BY <2>2 DEF HInv, LoadExact, CreatedExact, UpExact, HandshakeTypes
  <2>4. QED BY Zenon, <2>1, <2>3 DEF HInv
<1>3. ASSUME NEW p \in Proc, ExecCreate(p) PROVE HInv'
  <2> USE <1>3, <1>t DEF ExecCreate
  <2>1. \A q \in Proc : q # p => pc[q] \notin LockedPC
    BY Zenon, OneLocked
  <2>2. temporary = 0 /\ \A c \in User : ~(state[c] = "live" /\ pc[c] \in LoadPC)
    BY <2>1 DEF HInv, HandshakeTypes, LoadExact, UpExact
  <2>3. CASE \E c \in User : /\ state[c] = "none"
                             /\ state' = [state EXCEPT ![c] = "live"]
                             /\ child' = [child EXCEPT ![p] = c]
    <3>1. PICK c \in User : /\ state[c] = "none"
                            /\ state' = [state EXCEPT ![c] = "live"]
                            /\ child' = [child EXCEPT ![p] = c]
      BY Zenon, <2>3
    <3>2. c # p /\ pc[c] = "load"
      BY Zenon, <3>1 DEF HInv, Lives
    <3>3. /\ pc' \in [Proc -> PC] /\ pc'[p] = "exec_push"
          /\ \A q \in Proc : q # p => pc'[q] = pc[q]
          /\ child' \in [Proc -> Status \cup {NULL}] /\ child'[p] = c
          /\ state' \in [Proc -> {"none", "live", "dead"}] /\ state'[c] = "live"
          /\ \A q \in Proc : q # c => state'[q] = state[q]
      BY Zenon, <3>1 DEF HandshakeTypes
    <3>4. HandshakeTypes'
      BY Zenon, <3>3 DEF HandshakeTypes
    <3>5. Lives' /\ LockExact'
      BY <3>1, <3>2, <3>3 DEF HInv, Lives, LockExact
    <3>6. LoadExact'
      BY <2>2, <3>2, <3>3 DEF LoadExact
    <3>7. CreatedExact' /\ UpExact'
      BY <2>1, <2>2, <3>2, <3>3 DEF CreatedExact, UpExact
    <3>8. QED BY Zenon, <3>4, <3>5, <3>6, <3>7 DEF HInv
  <2>4. CASE child' = [child EXCEPT ![p] = TID_ERROR] /\ UNCHANGED state
    <3>1. /\ pc' \in [Proc -> PC] /\ pc'[p] = "exec_push"
          /\ \A q \in Proc : q # p => pc'[q] = pc[q]
          /\ child' \in [Proc -> Status \cup {NULL}] /\ child'[p] = TID_ERROR
      BY Zenon, <2>4 DEF HandshakeTypes
    <3>2. HandshakeTypes'
      BY Zenon, <2>4, <3>1 DEF HandshakeTypes
    <3>3. Lives' /\ LockExact'
      BY Zenon, <2>4, <3>1 DEF HInv, Lives, LockExact
    <3>4. LoadExact' /\ CreatedExact' /\ UpExact'
      BY Zenon, <2>1, <2>2, <2>4, <3>1 DEF LoadExact, CreatedExact, UpExact
    <3>5. QED BY Zenon, <3>2, <3>3, <3>4 DEF HInv
  <2>5. QED BY Zenon, <2>3, <2>4
<1>4. ASSUME NEW p \in Proc,
             \/ At(p, "exec_push") /\ Goto(p, "exec_dir")
             \/ At(p, "exec_dir") /\ Goto(p, "exec_down"),
             UNCHANGED <<state, child, handshake, loaded, fault>>
      PROVE  HInv'
  <2> USE <1>4, <1>t
  <2>1. /\ pc' \in [Proc -> PC] /\ pc'[p] \in CreatedPC /\ pc[p] \in CreatedPC
        /\ \A q \in Proc : q # p => pc'[q] = pc[q]
    BY Zenon DEF HandshakeTypes
  <2>2. HandshakeTypes' /\ Lives' /\ LockExact' /\ UpExact'
    BY Zenon, <2>1 DEF HInv, HandshakeTypes, Lives, LockExact, UpExact
  <2>3. LoadExact'
    BY <2>1 DEF HInv, LoadExact, LoadResult
  <2>4. CreatedExact'
    BY <2>1 DEF HInv, CreatedExact, LoadResult
  <2>5. QED BY Zenon, <2>2, <2>3, <2>4 DEF HInv
<1>5. ASSUME NEW p \in Proc, ExecPush(p) PROVE HInv'
  BY Zenon, <1>4, <1>5 DEF ExecPush
<1>6. ASSUME NEW p \in Proc, set_work_dir(p) PROVE HInv'
  BY Zenon, <1>4, <1>6, FaultSame DEF set_work_dir
<1>7. ASSUME NEW p \in Proc, ExecDown(p) PROVE HInv'
  <2> USE <1>7, <1>t DEF ExecDown
  <2>1. \A q \in Proc : q # p => pc[q] \notin LockedPC
    BY Zenon, OneLocked
  <2>2. temporary = 1 /\ temporary' = 0
    BY DEF HandshakeTypes
  <2>3. child[p] \in User /\ pc[child[p]] \notin LoadPC /\ LoadResult(child[p]) /\ child[p] # p
    BY <2>2 DEF HInv, CreatedExact
  <2>4. /\ pc' \in [Proc -> PC] /\ pc'[p] = "exec_unlock"
        /\ \A q \in Proc : q # p => pc'[q] = pc[q]
    BY Zenon DEF HandshakeTypes
  <2>5. HandshakeTypes' /\ Lives' /\ LockExact' /\ UpExact'
    BY <2>2, <2>4 DEF HInv, HandshakeTypes, Lives, LockExact, UpExact
  <2>6. LoadExact'
    BY <2>2, <2>4 DEF HInv, LoadExact
  <2>7. CreatedExact'
    BY Zenon, <2>1, <2>3, <2>4 DEF CreatedExact, LoadResult
  <2>8. QED BY Zenon, <2>5, <2>6, <2>7 DEF HInv
<1>8. ASSUME NEW p \in Proc, ExecUnlock(p) PROVE HInv'
  <2> USE <1>8, <1>t DEF ExecUnlock
  <2>1. \A q \in Proc : q # p => pc[q] \notin LockedPC
    BY Zenon, OneLocked
  <2>2. /\ pc' \in [Proc -> PC] /\ pc'[p] = "exec_return"
        /\ \A q \in Proc : q # p => pc'[q] = pc[q]
    BY Zenon DEF HandshakeTypes
  <2>3. HandshakeTypes' /\ Lives' /\ LockExact'
    BY Zenon, <2>1, <2>2 DEF HInv, HandshakeTypes, Lives, LockExact
  <2>4. LoadExact' /\ CreatedExact' /\ UpExact'
    BY <2>1, <2>2 DEF HInv, LoadExact, CreatedExact, UpExact
  <2>5. QED BY Zenon, <2>3, <2>4 DEF HInv
<1>9. ASSUME NEW p \in Proc, ExecReturn(p) PROVE HInv'
  BY Zenon, <1>9, <1>t, HandshakeSame DEF ExecReturn, HandshakeTypes
<1>10. ASSUME NEW p \in Proc, start_process(p) PROVE HInv'
  <2> USE <1>10, <1>t DEF start_process
  <2>1. p \in User
    BY Zenon DEF HInv, Lives
  <2>2. PICK q \in Proc : pc[q] \in CreatedPC /\ child[q] = p
    BY Zenon, <2>1 DEF HInv, LoadExact
  <2>3. \A r \in Proc : r # q => pc[r] \notin LockedPC
    BY Zenon, <2>2, OneLocked
  <2>4. temporary = 0 /\ \A c \in User \ {p} : ~(state[c] = "live" /\ pc[c] \in LoadPC)
    BY <2>1, <2>2, <2>3 DEF HInv, LoadExact
  <2>5. PICK ok \in BOOLEAN : /\ loaded' = [loaded EXCEPT ![p] = ok]
                              /\ load_val' = IF ok THEN 0 ELSE -1
    BY Zenon
  <2>6. /\ pc' \in [Proc -> PC] /\ pc'[p] = "load_up"
        /\ \A r \in Proc : r # p => pc'[r] = pc[r]
    BY Zenon DEF HandshakeTypes
  <2>7. LoadResult(p)' /\ loaded' \in [Proc -> BOOLEAN] /\ load_val' \in {0, -1}
    BY Zenon, <2>5 DEF LoadResult, HandshakeTypes
  <2>8. HandshakeTypes' /\ Lives' /\ LockExact' /\ UpExact'
    BY Zenon, <2>1, <2>4, <2>6, <2>7 DEF HInv, HandshakeTypes, Lives, LockExact, UpExact
  <2>9. LoadExact'
    BY <2>2, <2>4, <2>6, <2>7 DEF LoadExact
  <2>10. CreatedExact'
    BY Zenon, <2>1, <2>2, <2>3, <2>4, <2>6 DEF HInv, CreatedExact
  <2>11. QED BY Zenon, <2>8, <2>9, <2>10 DEF HInv
<1>11. ASSUME NEW p \in Proc, LoadUp(p) PROVE HInv'
  <2> USE <1>11, <1>t DEF LoadUp
  <2>1. p \in User
    BY Zenon DEF HInv, Lives
  <2>2. PICK q \in Proc : pc[q] \in CreatedPC /\ child[q] = p
    BY Zenon, <2>1 DEF HInv, LoadExact
  <2>3. \A r \in Proc : r # q => pc[r] \notin LockedPC
    BY Zenon, <2>2, OneLocked
  <2>4. temporary = 0 /\ LoadResult(p)
        /\ \A c \in User \ {p} : ~(state[c] = "live" /\ pc[c] \in LoadPC)
    BY <2>1, <2>2, <2>3 DEF HInv, LoadExact
  <2>5. \E l \in {"run", "exit"} : pc' = [pc EXCEPT ![p] = l]
    BY Zenon
  <2>6. /\ pc' \in [Proc -> PC] /\ pc'[p] \in {"run", "exit"}
        /\ \A r \in Proc : r # p => pc'[r] = pc[r]
    BY <2>5 DEF HandshakeTypes
  <2>7. temporary' = 1
    BY <2>4
  <2>8. HandshakeTypes' /\ Lives' /\ LockExact'
    BY <2>1, <2>6, <2>7 DEF HInv, HandshakeTypes, Lives, LockExact
  <2>9. LoadExact'
    BY Zenon, <2>4, <2>6 DEF LoadExact
  <2>10. UpExact' /\ CreatedExact'
    BY <2>1, <2>2, <2>3, <2>4, <2>6, <2>7 DEF HInv, CreatedExact, UpExact, LoadResult
  <2>11. QED BY Zenon, <2>8, <2>9, <2>10 DEF HInv
<1>12. ASSUME NEW p \in Proc, NEW c \in Status, process_wait(p, c) PROVE HInv'
  BY Zenon, <1>12, <1>t, HandshakeSame DEF process_wait, HandshakeTypes
<1>13. ASSUME NEW p \in Proc, WaitVisit(p) PROVE HInv'
  BY SMTT(30), <1>13, <1>t, HandshakeSame, FaultSame DEF WaitVisit, HandshakeTypes
<1>14. ASSUME NEW p \in Proc, WaitDown(p) PROVE HInv'
  BY Zenon, <1>14, <1>t, HandshakeSame DEF WaitDown, HandshakeTypes
<1>15. ASSUME NEW p \in Proc, WaitFree(p) PROVE HInv'
  BY Zenon, <1>15, <1>t, HandshakeSame DEF WaitFree, HandshakeTypes
<1>16. ASSUME NEW p \in Proc, NEW v, handle_exit(p, v) PROVE HInv'
  BY Zenon, <1>16, <1>t, HandshakeSame DEF handle_exit, HandshakeTypes
<1>17. ASSUME NEW p \in Proc, ExitVisit(p) PROVE HInv'
  BY Zenon, <1>17, ExitSame, FaultSame DEF ExitVisit
<1>18. ASSUME NEW p \in Proc, ExitUp(p) PROVE HInv'
  BY Zenon, <1>18, ExitSame, FaultSame DEF ExitUp
<1>19. ASSUME NEW p \in Proc, ExitCheck(p) PROVE HInv'
  BY Zenon, <1>19, ExitSame, FaultSame DEF ExitCheck
<1>20. ASSUME NEW p \in Proc, ExitFree(p) PROVE HInv'
  BY Zenon, <1>20, ExitSame, FaultSame DEF ExitFree
<1>21. ASSUME NEW p \in Proc, thread_exit(p) PROVE HInv'
  BY Zenon, <1>21, <1>t, HandshakeSame DEF thread_exit, HandshakeTypes, HInv, Lives
<1>22. ASSUME NEW p \in Proc, Chdir(p) PROVE HInv'
  BY Zenon, <1>22, <1>t, HandshakeSame DEF Chdir, HandshakeTypes
<1>23. CASE UNCHANGED vars
  BY <1>23 DEF HInv, vars, HandshakeTypes, Lives, LockExact, LoadExact, CreatedExact,
               UpExact, LoadResult
<1>24. QED
  BY Zenon, <1>1, <1>2, <1>3, <1>5, <1>6, <1>7, <1>8, <1>9, <1>10, <1>11, <1>12, <1>13,
     <1>14, <1>15, <1>16, <1>17, <1>18, <1>19, <1>20, <1>21, <1>22, <1>23
     DEF Next, Step, Call
-----------------------------------------------------------------------------
(* The records on wait_list.                                                *)

WaitTypes ==
  /\ wait_list \in Seq(Status) /\ Distinct(wait_list)
  /\ return_val \in [Status -> Int \cup {NULL}]
  /\ parent_pid \in [Status -> Proc \cup {NULL}]
  /\ end_p \in [Status -> 0..1]
  /\ ref_cnt \in [Status -> 0..2]
  /\ alloc \in [Status -> {"none", "live", "freed"}]
  /\ e \in [Proc -> Status \cup {NULL}]
  /\ code \in [Proc -> Int]

\* The handle_exit of p has yet to come to the record x.
MayDrop(p, x) ==
  \/ pc[p] \notin ExitPC
  \/ pc[p] = "exit" /\ e[p] = x
  \/ pc[p] # "die" /\ Before(wait_list, e[p], x)

\* A record is new when it is pushed.  The one of a thread_create that failed
\* is pushed once, by a call that then waits for ever.
NewExact ==
  /\ \A x \in User : state[x] = "none" => alloc[x] = "none"
  /\ \A p \in Proc : pc[p] = "exec_push" => alloc[child[p]] = "none"
  /\ alloc[TID_ERROR] # "none" =>
       \E p \in Proc : /\ pc[p] \in {"exec_dir", "exec_down"}
                       /\ child[p] = TID_ERROR /\ parent_pid[TID_ERROR] = p
  /\ \A x \in Status : /\ alloc[x] = "none" => end_p[x] = 0
                       /\ alloc[x] # "none" => parent_pid[x] \in Proc \ {x}
  /\ \A p \in Proc : e[p] # NULL => alloc[e[p]] # "none"

\* A record counts a reference for its process and one for its parent until
\* their handle_exit has come to it, and end_p is down until then.
RefExact ==
  \A x \in User : alloc[x] = "live" =>
    /\ MayDrop(x, x) \/ MayDrop(parent_pid[x], x) => ref_cnt[x] >= 1
    /\ MayDrop(x, x) /\ MayDrop(parent_pid[x], x) => ref_cnt[x] = 2
    /\ MayDrop(x, x) \/ pc[x] = "exit_up" => end_p[x] = 0

\* Where handle_exit stands in its loop.
ExitExact ==
  \A p \in Proc :
    /\ pc[p] = "exit_up" => e[p] = p /\ return_val[p] = code[p]
    /\ pc[p] \in {"exit_up", "exit_check", "exit_free"} => e[p] # NULL
    /\ pc[p] = "exit_free" /\ alloc[e[p]] = "live" => ref_cnt[e[p]] = 0

\* Who has signalled its parent is exiting and has stored its code.
SignalExact ==
  /\ \A x \in User :
       end_p[x] = 1 \/ (\E p \in Proc : pc[p] = "wait_free" /\ e[p] = x) =>
         pc[x] \in ExitPC /\ return_val[x] = code[x]
  /\ end_p[TID_ERROR] = 0

\* The record a parent waits on in process_wait is its child's, and stays
\* allocated.
WaitSafe ==
  \A p \in Proc : pc[p] \in {"wait_down", "wait_free"} =>
    e[p] \in User /\ alloc[e[p]] = "live" /\ parent_pid[e[p]] = p

WInv ==
  /\ HInv /\ WaitTypes /\ ListExact /\ NewExact /\ RefExact /\ ExitExact
  /\ SignalExact /\ WaitSafe

\* At the start there are no records.
LEMMA InitWInv == Init => WInv
<1> SUFFICES ASSUME Init PROVE WInv
  BY Zenon
<1>1. HInv
  BY Zenon, InitHInv
<1>2. WaitTypes /\ ListExact
  BY EmptyList DEF Init, WaitTypes, ListExact
<1>3. NewExact /\ RefExact
  BY Zenon DEF Init, NewExact, RefExact
<1>4. ExitExact /\ WaitSafe
  BY Zenon DEF Init, ExitExact, WaitSafe
<1>5. SignalExact
  BY DEF Init, SignalExact
<1>6. QED BY Zenon, <1>1, <1>2, <1>3, <1>4, <1>5 DEF WInv

\* The element behind one on wait_list is on it too, and behind it.
LEMMA NextOnList ==
  ASSUME WaitTypes, NEW x \in Elems(wait_list)
  PROVE  /\ list_next(x) \in Elems(wait_list) \cup {NULL}
         /\ list_next(x) # NULL => Before(wait_list, x, list_next(x))
<1> DEFINE k == Index(wait_list, x)
           n == Len(wait_list)
<1>1. /\ k \in 1..n /\ wait_list[k] = x /\ n \in Nat /\ DOMAIN wait_list = 1..n
  BY IndexIs DEF WaitTypes
<1>2. list_next(x) = IF k = n THEN NULL ELSE wait_list[k + 1]
  BY Zenon DEF list_next
<1> HIDE DEF k, n
<1>3. CASE k = n
  BY Zenon, <1>2, <1>3
<1>4. CASE k # n
  <2>1. k + 1 \in 1..n /\ k < k + 1
    BY <1>1, <1>4
  <2>2. wait_list[k + 1] \in Elems(wait_list)
    BY Zenon, <1>1, <2>1 DEF Elems
  <2>3. Before(wait_list, x, wait_list[k + 1])
    BY Zenon, <1>1, <2>1 DEF Before
  <2>4. QED BY Zenon, <1>2, <1>4, <2>2, <2>3
<1>5. QED BY Zenon, <1>3, <1>4

\* The first element is on the list.
LEMMA FirstOnList ==
  ASSUME WaitTypes PROVE list_begin \in Elems(wait_list) \cup {NULL}
BY Zenon, PopFront DEF list_begin, WaitTypes

\* What the elements of the list are.
LEMMA OnList ==
  ASSUME WInv
  PROVE  /\ Elems(wait_list) \subseteq Status
         /\ \A x \in Elems(wait_list) : alloc[x] = "live"
         /\ \A x : ~Before(wait_list, x, x)
         /\ \A x, y, z : Before(wait_list, x, y) /\ Before(wait_list, y, z) =>
                           Before(wait_list, x, z)
<1>1. Elems(wait_list) \subseteq Status
  BY DEF WInv, WaitTypes, Elems
<1>2. \A x \in Elems(wait_list) : alloc[x] = "live"
  BY Zenon, <1>1 DEF WInv, ListExact
<1>3. QED BY Zenon, <1>1, <1>2, BeforeOrder DEF WInv, WaitTypes

\* No record gets a new reader by a step that only shortens what p has to visit.
LEMMA RefKept ==
  ASSUME WInv, NEW p \in Proc,
         \A q \in Proc \ {p} : pc'[q] = pc[q] /\ e'[q] = e[q],
         \A y, z : alloc[z] = "live" /\ Before(wait_list', y, z) =>
                     Before(wait_list, y, z),
         \A x \in User : alloc[x] = "live" /\ MayDrop(p, x)' => MayDrop(p, x),
         \A x \in User : alloc'[x] = "live" => alloc[x] = "live",
         \A x \in User : end_p[x] = 0 => end_p'[x] = 0,
         UNCHANGED <<ref_cnt, parent_pid>>, pc'[p] # "exit_up"
  PROVE  RefExact'
<1> SUFFICES ASSUME NEW x \in User, alloc'[x] = "live"
             PROVE  /\ MayDrop(x, x)' \/ MayDrop(parent_pid[x], x)' => ref_cnt[x] >= 1
                    /\ MayDrop(x, x)' /\ MayDrop(parent_pid[x], x)' => ref_cnt[x] = 2
                    /\ MayDrop(x, x)' \/ pc'[x] = "exit_up" => end_p'[x] = 0
  BY Zenon DEF RefExact
<1>1. alloc[x] = "live" /\ parent_pid[x] \in Proc
  BY Zenon DEF WInv, NewExact
<1>2. \A q \in Proc : MayDrop(q, x)' => MayDrop(q, x)
  <2> SUFFICES ASSUME NEW q \in Proc, q # p, MayDrop(q, x)' PROVE MayDrop(q, x)
    BY Zenon, <1>1
  <2>1. QED BY Zenon, <1>1 DEF MayDrop
<1>3. pc'[x] = "exit_up" => pc[x] = "exit_up"
  BY Zenon
<1>4. QED BY Zenon, <1>1, <1>2, <1>3 DEF WInv, RefExact

\* A step of p that leaves the records alone.
LEMMA QuietStep ==
  ASSUME WInv, HInv', NEW p \in Proc,
         UNCHANGED <<wait_list, status>>,
         e' \in [Proc -> Status \cup {NULL}], code' \in [Proc -> Int],
         \A q \in Proc \ {p} : /\ pc'[q] = pc[q] /\ e'[q] = e[q] /\ code'[q] = code[q]
                               /\ child'[q] = child[q],
         \A x \in User : state'[x] = "none" => state[x] = "none",
         pc'[p] \notin {"exit_up", "exit_check", "exit_free", "wait_down", "wait_free"},
         pc[p] \in ExitPC => pc'[p] = "die" /\ code'[p] = code[p],
         pc'[p] = "exec_push" => alloc[child'[p]] = "none",
         child[p] = TID_ERROR /\ pc[p] \in {"exec_dir", "exec_down"} =>
           child'[p] = TID_ERROR /\ pc'[p] \in {"exec_dir", "exec_down"},
         e'[p] \in {NULL, e[p]} \cup Elems(wait_list)
  PROVE  WInv'
<1> USE DEF status
<1>1. /\ WaitTypes' /\ ListExact'
  BY Zenon DEF WInv, WaitTypes, ListExact
<1>2. NewExact'
  <2>1. \A q \in Proc : e'[q] # NULL => alloc[e'[q]] # "none"
    BY OnList DEF WInv, NewExact
  <2>2. alloc[TID_ERROR] # "none" =>
          \E q \in Proc : /\ pc'[q] \in {"exec_dir", "exec_down"}
                          /\ child'[q] = TID_ERROR /\ parent_pid[TID_ERROR] = q
    BY DEF WInv, NewExact
  <2>3. /\ \A x \in User : state'[x] = "none" => alloc[x] = "none"
        /\ \A q \in Proc : pc'[q] = "exec_push" => alloc[child'[q]] = "none"
        /\ \A x \in Status : /\ alloc[x] = "none" => end_p[x] = 0
                             /\ alloc[x] # "none" => parent_pid[x] \in Proc \ {x}
    BY DEF WInv, NewExact
  <2>4. QED BY ZenonT(30), <2>1, <2>2, <2>3 DEF NewExact
<1>3. RefExact'
  <2>1. \A x \in User : MayDrop(p, x)' => MayDrop(p, x)
    BY Zenon DEF MayDrop, ExitPC
  <2>2. QED BY Zenon, <2>1, RefKept
<1>4. ExitExact'
  BY DEF WInv, ExitExact
<1>5. SignalExact'
  <2>1. \A q \in Proc : pc[q] \in ExitPC => pc'[q] \in ExitPC /\ code'[q] = code[q]
    BY Zenon DEF ExitPC
  <2>2. \A q \in Proc : pc'[q] = "wait_free" => pc[q] = "wait_free" /\ e'[q] = e[q]
    BY Zenon
  <2>3. QED BY <2>1, <2>2 DEF WInv, SignalExact
<1>6. WaitSafe'
  BY DEF WInv, WaitSafe
<1>7. QED BY Zenon, <1>1, <1>2, <1>3, <1>4, <1>5, <1>6 DEF WInv

\* A step that leaves everything as it is.
LEMMA SameWait ==
  ASSUME WInv, HInv', UNCHANGED <<state, pc, child, wait_list, status, e, code>> PROVE WInv'
<1> USE DEF status
<1>1. WaitTypes' /\ ListExact' /\ NewExact'
  BY Zenon DEF WInv, WaitTypes, ListExact, NewExact
<1>2. RefExact'
  BY Zenon DEF WInv, RefExact, MayDrop
<1>3. ExitExact' /\ SignalExact' /\ WaitSafe'
  BY DEF WInv, ExitExact, SignalExact, WaitSafe
<1>4. QED BY Zenon, <1>1, <1>2, <1>3 DEF WInv

\* An access to freed memory leaves everything as it is.
LEMMA FaultWait ==
  ASSUME WInv, HInv', NEW why, Fault(why) PROVE WInv'
BY Zenon, SameWait DEF Fault

\* The steps of process_execute, start_process and the calls, which do not touch
\* the records, and the steps of process_wait up to the record it looks for.
LEMMA QuietActions ==
  ASSUME WInv, HInv', NEW p \in Proc,
         \/ process_execute(p) \/ ExecLock(p) \/ ExecCreate(p) \/ set_work_dir(p)
         \/ ExecDown(p) \/ ExecUnlock(p) \/ ExecReturn(p)
         \/ start_process(p) \/ LoadUp(p) \/ thread_exit(p) \/ Chdir(p)
         \/ \E c \in Status : process_wait(p, c)
         \/ \E v \in Code \cup {-1} : handle_exit(p, v)
  PROVE  WInv'
<1> USE DEF At, Goto, handshake, ExitPC, PC
<1>t. HandshakeTypes /\ WaitTypes
  BY Zenon DEF WInv, HInv
<1> USE <1>t DEF HandshakeTypes
<1>0. -1 \in Int /\ \A v \in Code : v \in Int
  OBVIOUS
<1>1. ASSUME \/ process_execute(p) \/ ExecLock(p) \/ ExecUnlock(p) \/ ExecReturn(p)
             \/ start_process(p) \/ Chdir(p)
      PROVE  WInv'
  <2>1. /\ UNCHANGED <<wait_list, status, e, code, state>>
        /\ pc[p] \notin ExitPC
        /\ pc[p] \notin {"exec_dir", "exec_down"}
        /\ pc'[p] \in {"exec_lock", "exec_create", "exec_return", "run", "load_up"}
        /\ \A q \in Proc \ {p} : pc'[q] = pc[q] /\ child'[q] = child[q]
    BY Zenon, <1>1 DEF process_execute, ExecLock, ExecUnlock, ExecReturn, start_process,
       Chdir
  <2>2. QED BY Zenon, <2>1, QuietStep DEF WaitTypes
<1>2. ASSUME ExecCreate(p) PROVE WInv'
  <2>1. /\ UNCHANGED <<wait_list, status, e, code>>
        /\ pc[p] = "exec_create" /\ pc'[p] = "exec_push"
        /\ \A q \in Proc \ {p} : pc'[q] = pc[q] /\ child'[q] = child[q]
    BY Zenon, <1>2 DEF ExecCreate
  <2>2. \A x \in User : state'[x] = "none" => state[x] = "none"
    BY Zenon, <1>2 DEF ExecCreate
  <2>3. alloc[child'[p]] = "none"
    <3>1. CASE \E c \in User : state[c] = "none" /\ child' = [child EXCEPT ![p] = c]
      BY <3>1 DEF WInv, NewExact
    <3>2. CASE child' = [child EXCEPT ![p] = TID_ERROR]
      <4>1. \A q \in Proc : q # p => pc[q] \notin {"exec_dir", "exec_down"}
        BY Zenon, <2>1, OneLocked DEF WInv, LockedPC, CreatedPC
      <4>2. alloc[TID_ERROR] = "none"
        BY Zenon, <2>1, <4>1 DEF WInv, NewExact
      <4>3. QED BY Zenon, <3>2, <4>2
    <3>3. QED BY Zenon, <1>2, <3>1, <3>2 DEF ExecCreate
  <2>4. QED BY Zenon, <2>1, <2>2, <2>3, QuietStep DEF WaitTypes
<1>3. ASSUME set_work_dir(p) PROVE WInv'
  <2>1. CASE Fault("gone")
    BY Zenon, <2>1, FaultWait
  <2>2. CASE ~Fault("gone")
    <3>1. /\ UNCHANGED <<wait_list, status, e, code, state, child>>
          /\ pc[p] = "exec_dir" /\ pc'[p] = "exec_down"
          /\ \A q \in Proc \ {p} : pc'[q] = pc[q]
      BY Zenon, <1>3, <2>2 DEF set_work_dir
    <3>2. QED BY Zenon, <3>1, QuietStep DEF WaitTypes
  <2>3. QED BY Zenon, <2>1, <2>2
<1>4. ASSUME ExecDown(p) PROVE WInv'
  <2>1. /\ UNCHANGED <<wait_list, status, e, code, state, child>>
        /\ pc[p] = "exec_down" /\ pc'[p] = "exec_unlock" /\ temporary = 1
        /\ \A q \in Proc \ {p} : pc'[q] = pc[q]
    BY <1>4 DEF ExecDown
  <2>2. child[p] # TID_ERROR
    BY Zenon, <2>1 DEF WInv, HInv, CreatedExact, CreatedPC
  <2>3. QED BY Zenon, <2>1, <2>2, QuietStep DEF WaitTypes
<1>5. ASSUME LoadUp(p) PROVE WInv'
  <2>1. /\ UNCHANGED <<wait_list, status, state, child>>
        /\ pc[p] = "load_up" /\ pc'[p] \in {"run", "exit"}
        /\ \A q \in Proc \ {p} : pc'[q] = pc[q] /\ e'[q] = e[q] /\ code'[q] = code[q]
        /\ code' \in [Proc -> Int]
        /\ e' = e \/ e' = [e EXCEPT ![p] = list_begin]
    BY <1>5, <1>0 DEF LoadUp, WaitTypes
  <2>2. e' \in [Proc -> Status \cup {NULL}] /\ e'[p] \in {e[p], NULL} \cup Elems(wait_list)
    BY <2>1, FirstOnList, OnList DEF WaitTypes
  <2>3. QED BY ZenonT(30), <2>1, <2>2, QuietStep
<1>6. ASSUME thread_exit(p) PROVE WInv'
  <2>1. /\ UNCHANGED <<wait_list, status, pc, child, e, code>>
        /\ pc[p] = "die"
        /\ \A x \in User : state'[x] = "none" => state[x] = "none"
    BY Zenon, <1>6 DEF thread_exit
  <2>2. QED BY Zenon, <2>1, QuietStep DEF WaitTypes
<1>7. ASSUME NEW c \in Status, process_wait(p, c) PROVE WInv'
  <2>1. /\ UNCHANGED <<wait_list, status, state, code>>
        /\ pc[p] = "run" /\ pc'[p] = "wait"
        /\ \A q \in Proc \ {p} : pc'[q] = pc[q] /\ e'[q] = e[q] /\ child'[q] = child[q]
        /\ e' = [e EXCEPT ![p] = list_begin]
    BY Zenon, <1>7 DEF process_wait, WaitTypes
  <2>2. e' \in [Proc -> Status \cup {NULL}] /\ e'[p] \in {e[p], NULL} \cup Elems(wait_list)
    BY Zenon, <2>1, FirstOnList, OnList DEF WaitTypes
  <2>3. QED BY Zenon, <2>1, <2>2, QuietStep DEF WaitTypes
<1>8. ASSUME NEW v \in Code \cup {-1}, handle_exit(p, v) PROVE WInv'
  <2>1. /\ UNCHANGED <<wait_list, status, state, child>>
        /\ pc[p] = "run" /\ pc'[p] = "exit"
        /\ \A q \in Proc \ {p} : pc'[q] = pc[q] /\ e'[q] = e[q] /\ code'[q] = code[q]
        /\ e' = [e EXCEPT ![p] = list_begin] /\ code' \in [Proc -> Int]
    BY <1>0, <1>8 DEF handle_exit, WaitTypes
  <2>2. e' \in [Proc -> Status \cup {NULL}] /\ e'[p] \in {e[p], NULL} \cup Elems(wait_list)
    BY Zenon, <2>1, FirstOnList, OnList DEF WaitTypes
  <2>3. QED BY Zenon, <2>1, <2>2, QuietStep
<1>9. QED BY Zenon, <1>1, <1>2, <1>3, <1>4, <1>5, <1>6, <1>7, <1>8

\* process_execute pushes the record of its child.
LEMMA PushStep ==
  ASSUME WInv, HInv', NEW p \in Proc, ExecPush(p) PROVE WInv'
<1> DEFINE c == child[p]
<1>t. HandshakeTypes /\ WaitTypes
  BY Zenon DEF WInv, HInv
<1>1. /\ pc[p] = "exec_push" /\ c \in Status \ {p} /\ alloc[c] = "none"
      /\ c # TID_ERROR => state[c] # "none"
  BY Zenon DEF ExecPush, At, WInv, HInv, CreatedExact, CreatedPC, NewExact
<1>2. c \notin Elems(wait_list)
  BY Zenon, <1>1 DEF WInv, ListExact
<1>3. /\ pc'[p] = "exec_dir" /\ \A q \in Proc \ {p} : pc'[q] = pc[q]
      /\ UNCHANGED <<state, child, return_val, e, code>>
      /\ wait_list' = Append(wait_list, c)
  BY Zenon, <1>t DEF ExecPush, Goto, HandshakeTypes
<1>4. /\ parent_pid' \in [Status -> Proc \cup {NULL}] /\ parent_pid'[c] = p
      /\ end_p' \in [Status -> 0..1] /\ end_p'[c] = 0
      /\ ref_cnt' \in [Status -> 0..2] /\ ref_cnt'[c] = 2
      /\ alloc' \in [Status -> {"none", "live", "freed"}] /\ alloc'[c] = "live"
      /\ \A x \in Status \ {c} : /\ parent_pid'[x] = parent_pid[x] /\ end_p'[x] = end_p[x]
                                 /\ ref_cnt'[x] = ref_cnt[x] /\ alloc'[x] = alloc[x]
  BY SMTT(30), <1>1, <1>t DEF ExecPush, WaitTypes
<1> HIDE DEF c
<1>5. /\ wait_list' \in Seq(Status) /\ Distinct(wait_list')
      /\ Elems(wait_list') = Elems(wait_list) \cup {c}
  BY SMTT(30), <1>1, <1>2, <1>3, <1>t, PushBack DEF WaitTypes
<1>6. WaitTypes' /\ ListExact'
  BY <1>1, <1>3, <1>4, <1>5, <1>t DEF WInv, WaitTypes, ListExact
<1>7. \A q \in Proc : q # p => pc[q] \notin LockedPC
  BY Zenon, <1>1, OneLocked DEF WInv, LockedPC, CreatedPC
<1>8. NewExact'
  <2>1. \A x \in User : state'[x] = "none" => alloc'[x] = "none"
    BY <1>1, <1>3, <1>4 DEF WInv, NewExact
  <2>2. \A q \in Proc : pc'[q] = "exec_push" => alloc'[child'[q]] = "none"
    BY Zenon, <1>3, <1>7 DEF LockedPC, CreatedPC
  <2>3. alloc'[TID_ERROR] # "none" =>
          \E q \in Proc : /\ pc'[q] \in {"exec_dir", "exec_down"}
                          /\ child'[q] = TID_ERROR /\ parent_pid'[TID_ERROR] = q
    <3>1. CASE c = TID_ERROR
      BY Zenon, <1>3, <1>4, <3>1 DEF c
    <3>2. CASE c # TID_ERROR
      <4>1. alloc[TID_ERROR] = "none"
        BY Zenon, <1>1, <1>7 DEF WInv, NewExact, LockedPC, CreatedPC
      <4>2. QED BY Zenon, <1>4, <3>2, <4>1
    <3>3. QED BY Zenon, <3>1, <3>2
  <2>4. \A x \in Status : /\ alloc'[x] = "none" => end_p'[x] = 0
                          /\ alloc'[x] # "none" => parent_pid'[x] \in Proc \ {x}
    BY SMTT(30), <1>1, <1>4 DEF WInv, NewExact
  <2>5. \A q \in Proc : e'[q] # NULL => alloc'[e'[q]] # "none"
    BY <1>3, <1>4, <1>t DEF WInv, NewExact, WaitTypes
  <2>6. QED BY ZenonT(30), <2>1, <2>2, <2>3, <2>4, <2>5 DEF NewExact
<1>9. RefExact'
  <2> SUFFICES ASSUME NEW x \in User, alloc'[x] = "live"
               PROVE  /\ MayDrop(x, x)' \/ MayDrop(parent_pid[x], x)' => ref_cnt'[x] >= 1
                      /\ MayDrop(x, x)' /\ MayDrop(parent_pid[x], x)' => ref_cnt'[x] = 2
                      /\ MayDrop(x, x)' \/ pc'[x] = "exit_up" => end_p'[x] = 0
    BY Zenon DEF RefExact
  <2>1. CASE x = c
    BY <1>4, <2>1
  <2>2. CASE x # c
    <3>1. \A y : Before(wait_list', y, x) => Before(wait_list, y, x)
      BY Zenon, <1>1, <1>3, <1>t, <2>2, PushedBefore DEF WaitTypes
    <3>2. \A q \in Proc : MayDrop(q, x)' => MayDrop(q, x)
      BY Zenon, <1>1, <1>3, <3>1 DEF MayDrop, ExitPC
    <3>3. /\ alloc[x] = "live" /\ parent_pid[x] \in Proc /\ parent_pid'[x] = parent_pid[x]
          /\ ref_cnt'[x] = ref_cnt[x] /\ end_p'[x] = end_p[x]
          /\ pc'[x] = "exit_up" => pc[x] = "exit_up"
      BY Zenon, <1>3, <1>4, <2>2 DEF WInv, NewExact
    <3>4. QED BY Zenon, <3>2, <3>3 DEF WInv, RefExact
  <2>3. QED BY Zenon, <2>1, <2>2
<1>10. \A q \in Proc : e[q] # c
  BY ZenonT(30), <1>1 DEF WInv, NewExact
<1>11. ExitExact'
  <2>1. \A q \in Proc : e[q] # NULL =>
          e[q] \in Status /\ alloc'[e[q]] = alloc[e[q]] /\ ref_cnt'[e[q]] = ref_cnt[e[q]]
    BY <1>4, <1>10, <1>t DEF WaitTypes
  <2>2. \A q \in Proc : \A l \in {"exit_up", "exit_check", "exit_free"} :
          pc'[q] = l => pc[q] = l
    BY Zenon, <1>3
  <2>3. QED BY <1>3, <2>1, <2>2 DEF WInv, ExitExact
<1>12. SignalExact'
  <2>1. \A x \in Status : end_p'[x] = 1 => end_p[x] = 1
    BY <1>4
  <2>2. \A q \in Proc : pc[q] \in ExitPC => pc'[q] \in ExitPC
    BY Zenon, <1>1, <1>3 DEF ExitPC
  <2>3. \A q \in Proc : pc'[q] = "wait_free" => pc[q] = "wait_free"
    BY Zenon, <1>3
  <2>4. end_p'[TID_ERROR] = 0
    BY Zenon, <1>4 DEF WInv, SignalExact
  <2>5. QED BY Zenon, <1>3, <2>1, <2>2, <2>3, <2>4 DEF WInv, SignalExact
<1>13. WaitSafe'
  <2>1. \A q \in Proc : e[q] \in User =>
          alloc'[e[q]] = alloc[e[q]] /\ parent_pid'[e[q]] = parent_pid[e[q]]
    BY Zenon, <1>4, <1>10
  <2>2. \A q \in Proc : \A l \in {"wait_down", "wait_free"} : pc'[q] = l => pc[q] = l
    BY Zenon, <1>3
  <2>3. QED BY <1>3, <2>1, <2>2 DEF WInv, WaitSafe
<1>14. QED BY Zenon, <1>6, <1>8, <1>9, <1>11, <1>12, <1>13 DEF WInv

\* process_wait looks at an element of wait_list.
LEMMA WaitVisitStep ==
  ASSUME WInv, HInv', NEW p \in Proc, WaitVisit(p) PROVE WInv'
<1>t. HandshakeTypes /\ WaitTypes
  BY Zenon DEF WInv, HInv
<1> USE DEF At, Goto
<1>1. pc[p] = "wait"
  BY Zenon DEF WaitVisit
<1>2. CASE e[p] = NULL
  <2>1. /\ UNCHANGED <<wait_list, status, e, code, state>>
        /\ pc'[p] = "run"
        /\ \A q \in Proc \ {p} : pc'[q] = pc[q] /\ child'[q] = child[q]
    BY Zenon, <1>t, <1>2 DEF WaitVisit, HandshakeTypes
  <2>2. QED BY Zenon, <1>1, <1>t, <2>1, QuietStep DEF WaitTypes, ExitPC
<1>3. CASE e[p] # NULL /\ Freed(e[p])
  BY Zenon, <1>3, FaultWait DEF WaitVisit
<1>4. CASE e[p] # NULL /\ ~Freed(e[p])
  <2>1. e[p] \in Status /\ alloc[e[p]] = "live" /\ e[p] \in Elems(wait_list)
    BY Zenon, <1>t, <1>4 DEF Freed, WaitTypes, WInv, ListExact
  <2>2. UNCHANGED <<wait_list, status, code, state, child>>
    BY Zenon, <1>4 DEF WaitVisit
  <2>3. CASE e[p] = child[p] /\ parent_pid[e[p]] = p
    <3>1. /\ pc'[p] = "wait_down" /\ \A q \in Proc \ {p} : pc'[q] = pc[q]
          /\ e' = e
      BY Zenon, <1>t, <1>4, <2>3 DEF WaitVisit, HandshakeTypes
    <3>2. e[p] \in User
      BY <1>1, <2>1, <2>3 DEF WInv, NewExact
    <3> USE <2>2 DEF status
    <3>3. WaitTypes' /\ ListExact'
      BY Zenon, <1>t, <3>1 DEF WaitTypes, WInv, ListExact
    <3>4. NewExact'
      BY <1>1, <3>1 DEF WInv, NewExact
    <3>5. RefExact'
      BY Zenon, <1>1, <3>1, RefKept DEF MayDrop, ExitPC
    <3>6. ExitExact'
      BY Zenon, <3>1 DEF WInv, ExitExact
    <3>7. SignalExact'
      BY <1>1, <3>1 DEF WInv, SignalExact, ExitPC
    <3>8. WaitSafe'
      BY Zenon, <2>1, <2>3, <3>1, <3>2 DEF WInv, WaitSafe
    <3>9. QED BY Zenon, <3>3, <3>4, <3>5, <3>6, <3>7, <3>8 DEF WInv
  <2>4. CASE ~(e[p] = child[p] /\ parent_pid[e[p]] = p)
    <3>1. e' = [e EXCEPT ![p] = list_next(e[p])] /\ pc' = pc
      BY Zenon, <1>4, <2>4 DEF WaitVisit
    <3>2. list_next(e[p]) \in Elems(wait_list) \cup {NULL}
      BY Zenon, <1>t, <2>1, NextOnList
    <3>3. /\ e' \in [Proc -> Status \cup {NULL}] /\ e'[p] \in Elems(wait_list) \cup {NULL}
          /\ \A q \in Proc \ {p} : e'[q] = e[q]
      BY Zenon, <1>t, <3>1, <3>2, OnList DEF WaitTypes
    <3>4. QED BY Zenon, <1>1, <1>t, <2>2, <3>1, <3>3, QuietStep DEF WaitTypes, ExitPC
  <2>5. QED BY Zenon, <2>3, <2>4
<1>5. QED BY Zenon, <1>2, <1>3, <1>4

\* sema_down (&status->end_p) of process_wait.
LEMMA WaitDownStep ==
  ASSUME WInv, HInv', NEW p \in Proc, WaitDown(p) PROVE WInv'
<1>t. HandshakeTypes /\ WaitTypes
  BY Zenon DEF WInv, HInv
<1> DEFINE x == e[p]
<1>1. /\ pc[p] = "wait_down" /\ x \in User /\ alloc[x] = "live" /\ parent_pid[x] = p
      /\ end_p[x] = 1
  BY <1>t DEF WaitDown, At, WInv, WaitSafe, WaitTypes
<1>2. /\ pc'[p] = "wait_free" /\ \A q \in Proc \ {p} : pc'[q] = pc[q]
      /\ UNCHANGED <<state, child, wait_list, return_val, parent_pid, ref_cnt, alloc, e,
                     code>>
      /\ end_p' = [end_p EXCEPT ![x] = @ - 1]
  BY Zenon, <1>t DEF WaitDown, Goto, HandshakeTypes
<1>3. /\ end_p' \in [Status -> 0..1] /\ end_p'[x] = 0
      /\ \A y \in Status \ {x} : end_p'[y] = end_p[y]
  BY <1>t, <1>1, <1>2 DEF WaitTypes
<1>4. \A y \in Status : end_p[y] = 0 => end_p'[y] = 0
  BY Zenon, <1>3
<1>5. WaitTypes' /\ ListExact'
  BY Zenon, <1>t, <1>2, <1>3 DEF WInv, WaitTypes, ListExact
<1>6. NewExact'
  BY Zenon, <1>1, <1>2, <1>4 DEF WInv, NewExact
<1>7. RefExact'
  BY Zenon, <1>1, <1>2, <1>4, RefKept DEF MayDrop, ExitPC
<1>8. ExitExact'
  BY Zenon, <1>2 DEF WInv, ExitExact
<1>9. SignalExact'
  <2>1. pc[x] \in ExitPC /\ return_val[x] = code[x]
    BY Zenon, <1>1 DEF WInv, SignalExact
  <2>2. \A q \in Proc : pc[q] \in ExitPC => pc'[q] \in ExitPC
    BY Zenon, <1>1, <1>2 DEF ExitPC
  <2>3. \A q \in Proc \ {p} : pc'[q] = "wait_free" => pc[q] = "wait_free"
    BY Zenon, <1>2
  <2>4. \A y \in Status : end_p'[y] = 1 => end_p[y] = 1
    BY <1>3
  <2>5. QED BY <1>2, <1>3, <2>1, <2>2, <2>3, <2>4 DEF WInv, SignalExact
<1>10. WaitSafe'
  BY ZenonT(30), <1>1, <1>2 DEF WInv, WaitSafe
<1>11. QED BY Zenon, <1>5, <1>6, <1>7, <1>8, <1>9, <1>10 DEF WInv

\* A record is taken off the list and freed by p, to which it belongs or whose
\* last reference it was.
LEMMA FreeKept ==
  ASSUME WInv, NEW p \in Proc, NEW x \in Elems(wait_list),
         pc[p] \in ExitPC \/ pc'[p] \notin ExitPC,
         wait_list' = list_remove(x), alloc' = [alloc EXCEPT ![x] = "freed"],
         UNCHANGED <<state, return_val, parent_pid, end_p, ref_cnt, code>>,
         e' \in [Proc -> Status \cup {NULL}],
         \A q \in Proc \ {p} : /\ pc'[q] = pc[q] /\ e'[q] = e[q] /\ child'[q] = child[q],
         pc[p] = "wait_free" \/ pc[p] = "exit_free",
         pc'[p] \in {"run", "exit"},
         pc[p] = "exit_free" => pc'[p] = "exit",
         e'[p] \in Elems(wait_list) \cup {NULL},
         \A y \in User : alloc[y] = "live" /\ MayDrop(p, y)' => MayDrop(p, y),
         \A q \in Proc \ {p} : pc[q] \in {"wait_down", "wait_free"} => e[q] # x
  PROVE  /\ WaitTypes' /\ ListExact' /\ NewExact' /\ RefExact' /\ ExitExact'
         /\ SignalExact' /\ WaitSafe'
<1>t. HandshakeTypes /\ WaitTypes
  BY Zenon DEF WInv, HInv
<1>1. x \in Status /\ alloc[x] = "live"
  BY Zenon, OnList
<1>2. /\ wait_list' \in Seq(Status) /\ Distinct(wait_list')
      /\ Elems(wait_list') = Elems(wait_list) \ {x}
      /\ \A y, z : Before(wait_list', y, z) => Before(wait_list, y, z)
  BY <1>t, Removed DEF list_remove, WaitTypes
<1>3. /\ alloc' \in [Status -> {"none", "live", "freed"}] /\ alloc'[x] = "freed"
      /\ \A y \in Status \ {x} : alloc'[y] = alloc[y]
  BY Zenon, <1>t, <1>1 DEF WaitTypes
<1>4. WaitTypes' /\ ListExact'
  BY Zenon, <1>t, <1>1, <1>2, <1>3 DEF WInv, WaitTypes, ListExact
<1>5. NewExact'
  <2>1. \A y \in Status : alloc'[y] = "none" <=> alloc[y] = "none"
    BY Zenon, <1>1, <1>3
  <2>2. \A q \in Proc : e'[q] # NULL => alloc'[e'[q]] # "none"
    <3>1. \A q \in Proc : e'[q] # NULL => e'[q] \in Status /\ alloc[e'[q]] # "none"
      <4>1. \A q \in Proc \ {p} : e'[q] # NULL => alloc[e'[q]] # "none"
        BY DEF WInv, NewExact
      <4>2. e'[p] # NULL => alloc[e'[p]] # "none"
        BY Zenon, OnList
      <4>3. QED BY Zenon, <4>1, <4>2
    <3>2. QED BY Zenon, <2>1, <3>1
  <2>3. \A q \in Proc : pc'[q] = "exec_push" => alloc'[child'[q]] = "none"
    <3> SUFFICES ASSUME NEW q \in Proc, pc'[q] = "exec_push"
                 PROVE  alloc'[child'[q]] = "none"
      BY Zenon
    <3>1. q # p /\ pc[q] = "exec_push" /\ child'[q] = child[q]
      BY Zenon
    <3>2. child[q] \in Status /\ alloc[child[q]] = "none"
      BY Zenon, <3>1 DEF WInv, HInv, CreatedExact, CreatedPC, NewExact
    <3>3. QED BY Zenon, <2>1, <3>1, <3>2
  <2>4. alloc'[TID_ERROR] # "none" =>
          \E q \in Proc : /\ pc'[q] \in {"exec_dir", "exec_down"}
                          /\ child'[q] = TID_ERROR /\ parent_pid'[TID_ERROR] = q
    BY Zenon, <2>1 DEF WInv, NewExact
  <2>5. /\ \A y \in User : state'[y] = "none" => alloc'[y] = "none"
        /\ \A y \in Status : /\ alloc'[y] = "none" => end_p'[y] = 0
                             /\ alloc'[y] # "none" => parent_pid'[y] \in Proc \ {y}
    BY Zenon, <2>1 DEF WInv, NewExact
  <2>6. QED BY Zenon, <2>2, <2>3, <2>4, <2>5 DEF NewExact
<1>6. RefExact'
  BY ZenonT(30), <1>1, <1>2, <1>3, RefKept
<1>7. ExitExact'
  <2>1. \A q \in Proc : pc'[q] \in {"exit_up", "exit_check", "exit_free"} =>
          pc'[q] = pc[q] /\ e'[q] = e[q]
    BY Zenon
  <2>2. \A q \in Proc : e[q] \in Status /\ alloc'[e[q]] = "live" => alloc[e[q]] = "live"
    BY Zenon, <1>1, <1>3
  <2>3. \A q \in Proc : e[q] \in Status \cup {NULL}
    BY Zenon, <1>t DEF WaitTypes
  <2>4. QED BY <2>1, <2>2, <2>3 DEF WInv, ExitExact
<1>8. SignalExact'
  <2>1. \A q \in Proc : pc[q] \in ExitPC => pc'[q] \in ExitPC
    BY Zenon DEF ExitPC
  <2>2. \A q \in Proc : pc'[q] = "wait_free" => pc[q] = "wait_free" /\ e'[q] = e[q]
    BY Zenon
  <2>3. \A y \in User : (\E q \in Proc : pc'[q] = "wait_free" /\ e'[q] = y) =>
                          \E q \in Proc : pc[q] = "wait_free" /\ e[q] = y
    BY ZenonT(30), <2>2
  <2>4. QED BY Zenon, <2>1, <2>3 DEF WInv, SignalExact
<1>9. WaitSafe'
  <2>1. \A q \in Proc : pc'[q] \in {"wait_down", "wait_free"} =>
          q # p /\ pc'[q] = pc[q] /\ e'[q] = e[q] /\ e[q] # x
    BY Zenon
  <2>2. QED BY <1>3, <2>1 DEF WInv, WaitSafe
<1>10. QED BY Zenon, <1>4, <1>5, <1>6, <1>7, <1>8, <1>9

\* process_wait frees the record of its child.
LEMMA WaitFreeStep ==
  ASSUME WInv, HInv', NEW p \in Proc, WaitFree(p) PROVE WInv'
<1>t. HandshakeTypes /\ WaitTypes
  BY Zenon DEF WInv, HInv
<1> DEFINE x == e[p]
<1>1. /\ pc[p] = "wait_free" /\ x \in User /\ alloc[x] = "live" /\ parent_pid[x] = p
      /\ x \in Elems(wait_list)
  BY Zenon DEF WaitFree, At, WInv, WaitSafe, ListExact
<1>2. /\ pc'[p] = "run" /\ \A q \in Proc \ {p} : pc'[q] = pc[q] /\ child'[q] = child[q]
      /\ UNCHANGED <<state, return_val, parent_pid, end_p, ref_cnt, code>>
      /\ wait_list' = list_remove(x) /\ alloc' = [alloc EXCEPT ![x] = "freed"]
      /\ e' \in [Proc -> Status \cup {NULL}] /\ e'[p] = NULL
      /\ \A q \in Proc \ {p} : e'[q] = e[q]
  BY Zenon, <1>t DEF WaitFree, Goto, HandshakeTypes, WaitTypes
<1>3. \A q \in Proc \ {p} : pc[q] \in {"wait_down", "wait_free"} => e[q] # x
  BY Zenon, <1>1 DEF WInv, WaitSafe
<1>4. \A y \in User : MayDrop(p, y)
  BY Zenon, <1>1 DEF MayDrop, ExitPC
<1>5. pc'[p] \notin ExitPC
  BY Zenon, <1>2 DEF ExitPC
<1> HIDE DEF x
<1>6. QED BY ZenonT(30), <1>1, <1>2, <1>3, <1>4, <1>5, FreeKept DEF WInv

\* handle_exit looks at an element of wait_list, and drops its reference to a
\* record it has a part in.
LEMMA ExitVisitStep ==
  ASSUME WInv, HInv', NEW p \in Proc, ExitVisit(p) PROVE WInv'
<1>t. HandshakeTypes /\ WaitTypes
  BY Zenon DEF WInv, HInv
<1> USE DEF At, Goto
<1> DEFINE x == e[p]
<1>1. pc[p] = "exit" /\ p \in User
  BY Zenon DEF ExitVisit, WInv, HInv, Lives, ExitPC
<1>2. CASE x = NULL
  <2>1. /\ UNCHANGED <<wait_list, status, e, code, state, child>>
        /\ pc'[p] = "die" /\ \A q \in Proc \ {p} : pc'[q] = pc[q]
    BY Zenon, <1>t, <1>2 DEF ExitVisit, HandshakeTypes
  <2>2. QED BY Zenon, <1>1, <1>t, <2>1, QuietStep DEF WaitTypes
<1>3. CASE x # NULL /\ Freed(x)
  BY Zenon, <1>3, FaultWait DEF ExitVisit
<1>4. CASE x # NULL /\ ~Freed(x)
  <2>1. x \in Status /\ alloc[x] = "live" /\ x \in Elems(wait_list)
    BY Zenon, <1>t, <1>4 DEF Freed, WaitTypes, WInv, ListExact
  <2>2. /\ UNCHANGED <<wait_list, parent_pid, end_p, alloc, e, code, state, child>>
        /\ pc'[p] = IF x = p THEN "exit_up" ELSE "exit_check"
        /\ \A q \in Proc \ {p} : pc'[q] = pc[q]
        /\ return_val' = IF x = p THEN [return_val EXCEPT ![p] = code[p]] ELSE return_val
        /\ ref_cnt' = IF x = p \/ parent_pid[x] = p
                      THEN [ref_cnt EXCEPT ![x] = @ - 1] ELSE ref_cnt
    BY Zenon, <1>t, <1>4 DEF ExitVisit, HandshakeTypes
  <2>3. parent_pid[x] \in Proc \ {x}
    BY Zenon, <2>1 DEF WInv, NewExact
  <2>4. MayDrop(p, x) /\ ~Before(wait_list, x, x)
    BY Zenon, <1>1, OnList DEF MayDrop
  <2>5. x = p \/ parent_pid[x] = p => x \in User
    BY <1>1, <2>1 DEF WInv, NewExact
  <2>6. x = p \/ parent_pid[x] = p => ref_cnt[x] >= 1
    BY Zenon, <2>1, <2>4, <2>5 DEF WInv, RefExact
  <2>7. /\ ref_cnt' \in [Status -> 0..2]
        /\ \A y \in Status \ {x} : ref_cnt'[y] = ref_cnt[y]
        /\ x = p \/ parent_pid[x] = p => ref_cnt'[x] = ref_cnt[x] - 1
        /\ ref_cnt[x] = 0 => ref_cnt'[x] = 0
    BY <1>t, <2>1, <2>2, <2>6 DEF WaitTypes
  <2>8. /\ return_val' \in [Status -> Int \cup {NULL}]
        /\ x = p => return_val'[p] = code[p]
        /\ \A y \in Status \ {p} : return_val'[y] = return_val[y]
        /\ x # p => return_val' = return_val
    BY Zenon, <1>t, <1>1, <2>2 DEF WaitTypes
  <2>9. \A q \in Proc, y \in User :
          /\ MayDrop(q, y)' => MayDrop(q, y)
          /\ MayDrop(q, y)' => q # p \/ y # x
    BY Zenon, <1>1, <2>2, <2>4 DEF MayDrop, ExitPC
  <2> HIDE DEF x
  <2>10. WaitTypes' /\ ListExact'
    BY Zenon, <1>t, <2>2, <2>7, <2>8 DEF WInv, WaitTypes, ListExact
  <2>11. NewExact'
    BY Zenon, <1>1, <2>2 DEF WInv, NewExact
  <2>12. RefExact'
    <3> SUFFICES ASSUME NEW y \in User, alloc'[y] = "live"
                 PROVE  /\ MayDrop(y, y)' \/ MayDrop(parent_pid[y], y)' => ref_cnt'[y] >= 1
                        /\ MayDrop(y, y)' /\ MayDrop(parent_pid[y], y)' => ref_cnt'[y] = 2
                        /\ MayDrop(y, y)' \/ pc'[y] = "exit_up" => end_p'[y] = 0
      BY Zenon DEF RefExact
    <3> DEFINE r == parent_pid[y]
    <3>1. alloc[y] = "live" /\ r \in Proc \ {y} /\ parent_pid'[y] = r
      BY Zenon, <2>2 DEF WInv, NewExact
    <3>2. /\ MayDrop(r, y)' => MayDrop(r, y) /\ (r # p \/ y # x)
          /\ MayDrop(y, y)' => MayDrop(y, y) /\ (y # p \/ y # x)
      BY Zenon, <2>2, <2>9, <3>1
    <3>3. /\ MayDrop(y, y) \/ MayDrop(r, y) => ref_cnt[y] >= 1
          /\ MayDrop(y, y) /\ MayDrop(r, y) => ref_cnt[y] = 2
          /\ MayDrop(y, y) \/ pc[y] = "exit_up" => end_p[y] = 0
      BY Zenon, <3>1 DEF WInv, RefExact
    <3>4. pc'[y] = "exit_up" => (y = x /\ y = p) \/ pc[y] = "exit_up"
      BY Zenon, <2>2
    <3>5. ref_cnt[y] \in 0..2
      BY Zenon, <1>t DEF WaitTypes
    <3> HIDE DEF r
    <3>6. CASE y # x
      BY Zenon, <2>2, <2>7, <3>2, <3>3, <3>4, <3>6 DEF r
    <3>7. CASE y = x /\ p # y /\ p # r
      <4>1. ref_cnt'[y] = ref_cnt[y]
        BY ZenonT(30), <2>2, <3>7 DEF r
      <4>2. QED BY Zenon, <2>2, <3>2, <3>3, <3>4, <3>7, <4>1 DEF r
    <3>8. CASE y = x /\ p = y
      <4>1. MayDrop(y, y) /\ ~MayDrop(y, y)' /\ ref_cnt'[y] = ref_cnt[y] - 1 /\ end_p[y] = 0
        BY Zenon, <2>4, <2>7, <3>2, <3>3, <3>8
      <4>2. QED BY <2>2, <3>2, <3>3, <3>5, <4>1 DEF r
    <3>9. CASE y = x /\ p = r /\ p # y
      <4>1. MayDrop(r, y) /\ ~MayDrop(r, y)' /\ ref_cnt'[y] = ref_cnt[y] - 1
        BY Zenon, <2>4, <2>7, <3>2, <3>9 DEF r
      <4>2. QED BY <2>2, <3>2, <3>3, <3>4, <3>5, <3>9, <4>1 DEF r
    <3>10. QED BY Zenon, <3>6, <3>7, <3>8, <3>9
  <2>13. ExitExact'
    <3> SUFFICES ASSUME NEW q \in Proc
                 PROVE  /\ pc'[q] = "exit_up" => e[q] = q /\ return_val'[q] = code[q]
                        /\ pc'[q] \in {"exit_up", "exit_check", "exit_free"} => e[q] # NULL
                        /\ pc'[q] = "exit_free" /\ alloc[e[q]] = "live" =>
                             ref_cnt'[e[q]] = 0
      BY <2>2 DEF ExitExact
    <3>1. CASE q = p
      BY Zenon, <1>4, <2>2, <2>8, <3>1 DEF x
    <3>2. CASE q # p
      <4>1. pc'[q] = pc[q] /\ (q \in Status => return_val'[q] = return_val[q])
        BY Zenon, <2>2, <2>8, <3>2
      <4>2. pc[q] = "exit_up" => q \in Status
        BY Zenon DEF WInv, HInv, Lives, ExitPC
      <4>3. ASSUME pc[q] = "exit_free", alloc[e[q]] = "live" PROVE ref_cnt'[e[q]] = 0
        <5>1. e[q] \in Status /\ ref_cnt[e[q]] = 0
          BY <1>t, <4>3 DEF WInv, ExitExact, WaitTypes
        <5>2. QED BY <2>7, <5>1
      <4>4. QED BY Zenon, <4>1, <4>2, <4>3 DEF WInv, ExitExact
    <3>3. QED BY Zenon, <3>1, <3>2
  <2>14. SignalExact'
    <3>1. \A q \in Proc : pc[q] \in ExitPC => pc'[q] \in ExitPC
      BY Zenon, <2>2 DEF ExitPC
    <3>2. \A q \in Proc : pc'[q] = "wait_free" => pc[q] = "wait_free"
      BY Zenon, <2>2
    <3>3. \A y \in User : return_val[y] = code[y] => return_val'[y] = code'[y]
      BY Zenon, <2>2, <2>8
    <3>4. QED BY Zenon, <2>2, <3>1, <3>2, <3>3 DEF WInv, SignalExact
  <2>15. WaitSafe'
    BY Zenon, <2>2 DEF WInv, WaitSafe
  <2>16. QED BY Zenon, <2>10, <2>11, <2>12, <2>13, <2>14, <2>15 DEF WInv
<1>5. QED BY Zenon, <1>2, <1>3, <1>4

\* handle_exit ups end_p of its own record.
LEMMA ExitUpStep ==
  ASSUME WInv, HInv', NEW p \in Proc, ExitUp(p) PROVE WInv'
<1>t. HandshakeTypes /\ WaitTypes
  BY Zenon DEF WInv, HInv
<1>1. CASE Freed(e[p])
  BY Zenon, <1>1, FaultWait DEF ExitUp
<1>2. CASE ~Freed(e[p])
  <2>1. pc[p] = "exit_up" /\ p \in User /\ e[p] = p /\ return_val[p] = code[p]
    BY Zenon DEF ExitUp, At, WInv, HInv, Lives, ExitPC, ExitExact
  <2>2. alloc[p] = "live" /\ end_p[p] = 0
    BY Zenon, <1>2, <2>1 DEF Freed, WInv, RefExact
  <2>3. /\ UNCHANGED <<wait_list, return_val, parent_pid, ref_cnt, alloc, e, code, state,
                       child>>
        /\ pc'[p] = "exit_check" /\ \A q \in Proc \ {p} : pc'[q] = pc[q]
        /\ end_p' = [end_p EXCEPT ![p] = @ + 1]
    BY Zenon, <1>t, <1>2, <2>1 DEF ExitUp, Goto, HandshakeTypes
  <2>4. /\ end_p' \in [Status -> 0..1] /\ end_p'[p] = 1
        /\ \A y \in Status \ {p} : end_p'[y] = end_p[y]
    BY <1>t, <2>1, <2>2, <2>3 DEF WaitTypes
  <2>5. WaitTypes' /\ ListExact'
    BY Zenon, <1>t, <2>3, <2>4 DEF WInv, WaitTypes, ListExact
  <2>6. NewExact'
    BY <2>1, <2>2, <2>3, <2>4 DEF WInv, NewExact
  <2>7. RefExact'
    <3> SUFFICES ASSUME NEW y \in User, alloc'[y] = "live"
                 PROVE  /\ MayDrop(y, y)' \/ MayDrop(parent_pid[y], y)' => ref_cnt'[y] >= 1
                        /\ MayDrop(y, y)' /\ MayDrop(parent_pid[y], y)' => ref_cnt'[y] = 2
                        /\ MayDrop(y, y)' \/ pc'[y] = "exit_up" => end_p'[y] = 0
      BY Zenon DEF RefExact
    <3>1. \A q \in Proc : MayDrop(q, y)' => MayDrop(q, y)
      BY Zenon, <2>1, <2>3 DEF MayDrop, ExitPC
    <3>2. ~MayDrop(p, p)'
      BY Zenon, <2>1, <2>3, OnList DEF MayDrop, ExitPC
    <3>3. alloc[y] = "live" /\ parent_pid[y] \in Proc /\ parent_pid'[y] = parent_pid[y]
      BY Zenon, <2>3 DEF WInv, NewExact
    <3>4. MayDrop(parent_pid[y], y)' => MayDrop(parent_pid[y], y)
      BY Zenon, <3>1, <3>3
    <3>5. QED BY Zenon, <2>3, <2>4, <3>1, <3>2, <3>3, <3>4 DEF WInv, RefExact
  <2>8. ExitExact'
    BY ZenonT(30), <2>1, <2>3 DEF WInv, ExitExact
  <2>9. SignalExact'
    BY <2>1, <2>3, <2>4 DEF WInv, SignalExact, ExitPC
  <2>10. WaitSafe'
    BY Zenon, <2>1, <2>3 DEF WInv, WaitSafe
  <2>11. QED BY Zenon, <2>5, <2>6, <2>7, <2>8, <2>9, <2>10 DEF WInv
<1>3. QED BY Zenon, <1>1, <1>2

\* handle_exit goes on to the next element, or to free this one.
LEMMA ExitCheckStep ==
  ASSUME WInv, HInv', NEW p \in Proc, ExitCheck(p) PROVE WInv'
<1>t. HandshakeTypes /\ WaitTypes
  BY Zenon DEF WInv, HInv
<1> DEFINE x == e[p]
<1>1. CASE Freed(x)
  BY Zenon, <1>1, FaultWait DEF ExitCheck
<1>2. CASE ~Freed(x)
  <2>1. pc[p] = "exit_check" /\ p \in User /\ x # NULL /\ x \in Status
    BY Zenon, <1>t DEF ExitCheck, At, WInv, HInv, Lives, ExitPC, ExitExact, WaitTypes
  <2>2. alloc[x] = "live" /\ x \in Elems(wait_list)
    BY Zenon, <1>2, <2>1 DEF Freed, WInv, ListExact
  <2>3. /\ UNCHANGED <<wait_list, status, code, state, child>>
        /\ \A q \in Proc \ {p} : pc'[q] = pc[q]
        /\ \/ pc'[p] = "exit_free" /\ e' = e /\ ref_cnt[x] = 0
           \/ pc'[p] = "exit" /\ e' = [e EXCEPT ![p] = list_next(x)]
    BY ZenonT(30), <1>t, <1>2, <2>1 DEF ExitCheck, At, Goto, HandshakeTypes
  <2>4. /\ list_next(x) \in Elems(wait_list) \cup {NULL}
        /\ list_next(x) # NULL => Before(wait_list, x, list_next(x))
    BY Zenon, <1>t, <2>2, NextOnList
  <2>5. /\ e' \in [Proc -> Status \cup {NULL}] /\ \A q \in Proc \ {p} : e'[q] = e[q]
        /\ e'[p] \in Elems(wait_list) \cup {NULL}
        /\ pc'[p] = "exit" => e'[p] = list_next(x)
        /\ pc'[p] = "exit_free" => e'[p] = x
    BY <1>t, <2>1, <2>2, <2>3, <2>4, OnList DEF WaitTypes
  <2> HIDE DEF x
  <2> USE <2>3 DEF status
  <2>6. WaitTypes' /\ ListExact'
    BY ZenonT(30), <1>t, <2>5 DEF WInv, WaitTypes, ListExact
  <2>7. NewExact'
    BY <2>1, <2>5, OnList DEF WInv, NewExact
  <2>8. \A y \in User : MayDrop(p, y)' => MayDrop(p, y)
    <3>1. ~Before(wait_list, NULL, NULL) /\ \A y : ~Before(wait_list, NULL, y)
      BY Zenon, <1>t, BeforeOrder, OnList DEF WaitTypes
    <3>2. \A y : Before(wait_list, list_next(x), y) => Before(wait_list, x, y)
      BY Zenon, <2>4, <3>1, OnList
    <3>3. QED BY Zenon, <2>1, <2>4, <2>5, <3>2 DEF MayDrop, ExitPC, x
  <2>9. RefExact'
    BY ZenonT(30), <2>5, <2>8, RefKept
  <2>10. ExitExact'
    <3>1. \A q \in Proc \ {p} : pc'[q] = pc[q] /\ e'[q] = e[q]
      BY Zenon, <2>5
    <3>2. pc'[p] # "exit_up" /\ (pc'[p] = "exit_free" => e'[p] # NULL /\ ref_cnt[e'[p]] = 0)
      BY Zenon, <2>1, <2>5
    <3>3. pc'[p] # "exit_check"
      BY Zenon
    <3>4. QED BY <3>1, <3>2, <3>3 DEF WInv, ExitExact
  <2>11. SignalExact'
    BY SMTT(30), <2>1, <2>5 DEF WInv, SignalExact, ExitPC
  <2>12. WaitSafe'
    BY <2>1, <2>5 DEF WInv, WaitSafe
  <2>13. QED BY Zenon, <2>6, <2>7, <2>9, <2>10, <2>11, <2>12 DEF WInv
<1>3. QED BY Zenon, <1>1, <1>2

\* handle_exit frees a record nobody refers to.
LEMMA ExitFreeStep ==
  ASSUME WInv, HInv', NEW p \in Proc, ExitFree(p) PROVE WInv'
<1>t. HandshakeTypes /\ WaitTypes
  BY Zenon DEF WInv, HInv
<1> DEFINE x == e[p]
           y == list_next(x)
<1>1. CASE Freed(x)
  BY Zenon, <1>1, FaultWait DEF ExitFree
<1>2. CASE ~Freed(x)
  <2>1. pc[p] = "exit_free" /\ p \in User /\ x # NULL /\ x \in Status
    BY Zenon, <1>t DEF ExitFree, At, WInv, HInv, Lives, ExitPC, ExitExact, WaitTypes
  <2>2. alloc[x] = "live" /\ x \in Elems(wait_list) /\ ref_cnt[x] = 0
    BY Zenon, <1>2, <2>1 DEF Freed, WInv, ListExact, ExitExact
  <2>3. /\ UNCHANGED <<return_val, parent_pid, end_p, ref_cnt, code, state, child>>
        /\ pc'[p] = "exit" /\ \A q \in Proc \ {p} : pc'[q] = pc[q]
        /\ wait_list' = list_remove(x) /\ alloc' = [alloc EXCEPT ![x] = "freed"]
        /\ e' = [e EXCEPT ![p] = IF y = NULL THEN NULL ELSE list_next(y)]
    BY Zenon, <1>t, <1>2, <2>1 DEF ExitFree, At, Goto, HandshakeTypes
  <2>4. y \in Elems(wait_list) \cup {NULL} /\ (y # NULL => Before(wait_list, x, y))
    BY Zenon, <1>t, <2>2, NextOnList
  <2>5. y # NULL => /\ list_next(y) \in Elems(wait_list) \cup {NULL}
                    /\ list_next(y) # NULL => Before(wait_list, y, list_next(y))
    BY ZenonT(30), <1>t, <2>4, NextOnList
  <2>6. /\ e' \in [Proc -> Status \cup {NULL}] /\ \A q \in Proc \ {p} : e'[q] = e[q]
        /\ e'[p] \in Elems(wait_list) \cup {NULL}
        /\ e'[p] # NULL => Before(wait_list, x, e'[p])
    BY <1>t, <2>1, <2>3, <2>4, <2>5, OnList DEF WaitTypes
  <2> HIDE DEF x, y
  <2>7. \A z, w : Before(wait_list', z, w) => Before(wait_list, z, w)
    BY Zenon, <1>t, <2>2, <2>3, Removed DEF list_remove, WaitTypes
  <2>8. \A z \in User : MayDrop(p, z)' => MayDrop(p, z)
    <3>1. \A z : ~Before(wait_list, NULL, z)
      BY Zenon, <1>t, BeforeOrder, OnList DEF WaitTypes
    <3>2. \A z : Before(wait_list', e'[p], z) => Before(wait_list, x, z)
      BY <2>6, <2>7, <3>1, OnList
    <3>3. QED BY Zenon, <2>1, <2>3, <2>6, <3>2 DEF MayDrop, ExitPC, x
  <2>9. \A q \in Proc \ {p} : pc[q] \in {"wait_down", "wait_free"} => e[q] # x
    <3> SUFFICES ASSUME NEW q \in Proc, pc[q] \in {"wait_down", "wait_free"}, e[q] = x
                 PROVE  FALSE
      BY Zenon
    <3>1. x \in User /\ parent_pid[x] = q
      BY Zenon DEF WInv, WaitSafe
    <3>2. MayDrop(q, x)
      BY Zenon DEF MayDrop, ExitPC
    <3>3. ref_cnt[x] >= 1
      BY Zenon, <2>2, <3>1, <3>2 DEF WInv, RefExact
    <3>4. QED BY <2>2, <3>3
  <2>10. pc[p] \in ExitPC
    BY Zenon, <2>1 DEF ExitPC
  <2>11. QED
    BY Zenon, <2>1, <2>2, <2>3, <2>6, <2>8, <2>9, <2>10, FreeKept DEF WInv
<1>3. QED BY Zenon, <1>1, <1>2

\* Every step keeps the records as they should be.
LEMMA NextWInv == WInv /\ [Next]_vars => WInv'
<1> SUFFICES ASSUME WInv, [Next]_vars PROVE WInv'
  BY Zenon
<1>1. HInv'
  BY Zenon, NextHInv DEF WInv
<1>2. CASE Next
  <2>1. PICK p \in Proc : Step(p) \/ Call(p)
    BY Zenon, <1>2 DEF Next
  <2>2. CASE \/ ExecPush(p) \/ WaitVisit(p) \/ WaitDown(p) \/ WaitFree(p)
             \/ ExitVisit(p) \/ ExitUp(p) \/ ExitCheck(p) \/ ExitFree(p)
    BY Zenon, <1>1, <2>2, PushStep, WaitVisitStep, WaitDownStep, WaitFreeStep,
       ExitVisitStep,
       ExitUpStep, ExitCheckStep, ExitFreeStep
  <2>3. CASE \/ process_execute(p) \/ ExecLock(p) \/ ExecCreate(p) \/ set_work_dir(p)
             \/ ExecDown(p) \/ ExecUnlock(p) \/ ExecReturn(p)
             \/ start_process(p) \/ LoadUp(p) \/ thread_exit(p) \/ Chdir(p)
             \/ \E c \in Status : process_wait(p, c)
             \/ \E v \in Code \cup {-1} : handle_exit(p, v)
    BY Zenon, <1>1, <2>3, QuietActions
  <2>4. QED BY Zenon, <2>1, <2>2, <2>3 DEF Step, Call
<1>3. CASE UNCHANGED vars
  BY Zenon, <1>1, <1>3, SameWait DEF vars
<1>4. QED BY Zenon, <1>2, <1>3

\* The invariant holds in every state of every run.
LEMMA Invariance == Spec => []WInv
BY InitWInv, NextWInv, PTL DEF Spec

\* process_execute goes on with the result of its own child's load, and the up
\* it waits for is there or on its way, whatever other processes execute, wait
\* and exit meanwhile.
THEOREM HandshakeSound == Spec => []HandshakeRight
<1>1. WInv => HandshakeRight
  <2> SUFFICES ASSUME WInv PROVE HandshakeRight
    BY Zenon
  <2>1. TypeOK
    BY Zenon DEF WInv, HInv, HandshakeTypes, WaitTypes, TypeOK
  <2>2. HandshakeExact
    BY Zenon DEF WInv, HInv, HandshakeTypes, LockExact, LockedPC, CreatedExact,
       HandshakeExact,
           LoadPC, LoadResult
  <2>3. HandshakeEnds
    BY DEF WInv, HInv, HandshakeTypes, LockExact, LockedPC, CreatedPC, CreatedExact,
           HandshakeEnds, LoadPC
  <2>4. QED BY Zenon, <2>1, <2>2, <2>3 DEF HandshakeRight
<1>2. QED BY Invariance, <1>1, PTL

\* process_wait returns the code its child gave to handle_exit.
THEOREM WaitReturnsCode == Spec => []WaitExact
<1>1. WInv => WaitExact
  BY Zenon DEF WInv, WaitExact, WaitSafe, SignalExact
<1>2. QED BY Invariance, <1>1, PTL

\* wait_list holds the records that are allocated, and no other.
THEOREM ListHoldsAllocated == Spec => []ListExact
<1>1. WInv => ListExact
  BY Zenon DEF WInv
<1>2. QED BY Invariance, <1>1, PTL

\* The record a parent sleeps on in process_wait is never freed under it, however
\* many processes exit at that moment: its own reference keeps it.
THEOREM WaiterKeepsRecord == Spec => []WaitSafe
<1>1. WInv => WaitSafe
  BY Zenon DEF WInv
<1>2. QED BY Invariance, <1>1, PTL
=============================================================================
