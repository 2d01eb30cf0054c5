--------------------------------- MODULE Ide --------------------------------
(***************************************************************************)
(* One channel of the disk driver (devices/ide.c) under the block layer    *)
(* (devices/block.c): two disks that share registers, a lock, a semaphore  *)
(* and an interrupt line.  Threads may be preempted between steps.         *)
(*                                                                         *)
(* The disk is external.  A command makes it busy; then it asks for or     *)
(* offers data (DRQ); it raises its interrupt when data can be read and    *)
(* when written data is on the disk.  It is taken to answer before the     *)
(* driver's polling loops give up.  It may fail a command, and interrupt   *)
(* when nothing happened.                                                  *)
(***************************************************************************)
EXTENDS Integers, FiniteSets

CONSTANTS Thread, Disk,
          SIZE,      \* sectors of a disk
          MaxCalls,  \* bound: calls made in all
          MaxWild    \* bound: interrupts that nothing caused

NONE == 0
Sector == 0 .. SIZE - 1
VARIABLES call,       \* of each thread: the call it is in, and where
          lock, sema, expecting_interrupt, \* of the channel
          reg,        \* the disk and sector that the registers select
          hw,         \* the command in progress: its state, operation, target, data
          irq, disk,  \* the interrupt line; what is on each disk
          read_cnt,   \* of the block devices together
          last,       \* of each sector: what was last given to the disk for it
          calls, reads, wild, fault, stop
vars == <<call, lock, sema, expecting_interrupt, reg, hw, irq, disk, read_cnt, last,
          calls, reads, wild, fault, stop>>
channel == <<lock, sema, expecting_interrupt>>
drive == <<reg, hw, irq, disk, fault>>
counts == <<read_cnt, calls, reads, wild>>

Idle == [pc |-> "idle"]
At(t, pc) == stop = "run" /\ call[t].pc = pc
Goto(t, pc) == call' = [call EXCEPT ![t].pc = pc]
-----------------------------------------------------------------------------
\* block_read or block_write: check_sector, then the driver.  A write's data
\* is the number of the call.
Call(t, op, d, s) ==
  /\ At(t, "idle") /\ calls < MaxCalls
  /\ calls' = calls + 1
  /\ IF s >= SIZE THEN stop' = "panic" /\ UNCHANGED call
     ELSE /\ call' = [call EXCEPT ![t] = [pc |-> "lock", op |-> op, d |-> d, s |-> s, v |-> calls']]
          /\ UNCHANGED stop
  /\ UNCHANGED <<channel, drive, read_cnt, reads, wild, last>>
Acquire(t) ==
  /\ At(t, "lock") /\ lock = NONE
  /\ lock' = t /\ Goto(t, "select")
  /\ UNCHANGED <<sema, expecting_interrupt, drive, counts, last, stop>>
\* select_sector: waits until the disk is idle, reading its status, which
\* clears its interrupt; then writes the registers.
select_sector(t) ==
  /\ At(t, "select") /\ hw.st = "idle"
  /\ irq' = FALSE /\ reg' = [d |-> call[t].d, s |-> call[t].s]
  /\ Goto(t, "issue")
  /\ UNCHANGED <<channel, hw, disk, fault, counts, last, stop>>
\* issue_pio_command
issue_pio_command(t) ==
  /\ At(t, "issue")
  /\ expecting_interrupt' = TRUE
  /\ hw' = [st |-> "busy", op |-> call[t].op, d |-> reg.d, s |-> reg.s, v |-> 0]
  /\ Goto(t, IF call[t].op = "read" THEN "down" ELSE "data")
  /\ UNCHANGED <<lock, sema, reg, irq, disk, fault, counts, last, stop>>
\* Mutant: a write does not wait for the disk to be done.
Completed_early(t) ==
  /\ At(t, "down")
  /\ sema > 0 \/ call[t].op = "write"
  /\ sema' = IF sema > 0 THEN sema - 1 ELSE 0
  /\ Goto(t, IF call[t].op = "read" THEN "data" ELSE "unlock")
  /\ UNCHANGED <<lock, expecting_interrupt, drive, counts, last, stop>>
\* sema_down of completion_wait: before the data of a read, after that of a write.
Completed(t) ==
  /\ At(t, "down") /\ sema > 0
  /\ sema' = sema - 1
  /\ Goto(t, IF call[t].op = "read" THEN "data" ELSE "unlock")
  /\ UNCHANGED <<lock, expecting_interrupt, drive, counts, last, stop>>
\* wait_while_busy: until BSY is clear.
wait_while_busy == hw.st # "busy"
\* Then input_sector or output_sector if the disk is ready for it, else PANIC.
Data(t) ==
  /\ At(t, "data") /\ wait_while_busy
  /\ IF hw.st # "drq" THEN stop' = "panic" /\ UNCHANGED <<call, hw, last>>
     ELSE /\ UNCHANGED stop
          /\ IF call[t].op = "read"
             THEN /\ hw' = [st |-> "idle"] /\ UNCHANGED last
                  /\ call' = [call EXCEPT ![t].pc = "unlock", ![t].v = hw.v]
             ELSE /\ hw' = [hw EXCEPT !.st = "store", !.v = call[t].v]
                  /\ last' = [last EXCEPT ![<<call[t].d, call[t].s>>] = call[t].v]
                  /\ Goto(t, "down")
  /\ UNCHANGED <<channel, reg, irq, disk, fault, counts>>
Unlock(t) ==
  /\ At(t, "unlock") /\ lock' = NONE
  /\ IF call[t].op = "read" THEN Goto(t, "load") /\ reads' = reads + 1
     ELSE call' = [call EXCEPT ![t] = Idle] /\ UNCHANGED reads
  /\ UNCHANGED <<sema, expecting_interrupt, drive, read_cnt, calls, wild, last, stop>>
\* block_read's read_cnt++, with no lock: a load, then a store (write_cnt is the
\* same and is left out).
LoadCount(t) ==
  /\ At(t, "load")
  /\ call' = [call EXCEPT ![t] = [pc |-> "store", cnt |-> read_cnt]]
  /\ UNCHANGED <<channel, drive, counts, last, stop>>
StoreCount(t) ==
  /\ At(t, "store")
  /\ read_cnt' = call[t].cnt + 1 /\ call' = [call EXCEPT ![t] = Idle]
  /\ UNCHANGED <<channel, drive, calls, reads, wild, last, stop>>
\* interrupt_handler: expecting_interrupt is never false again.  One that is not
\* expected is not acknowledged; the line stays up and gives no other edge.
interrupt_handler ==
  /\ stop = "run" /\ irq /\ irq' = FALSE
  /\ sema' = IF expecting_interrupt THEN sema + 1 ELSE sema
  /\ UNCHANGED <<call, lock, expecting_interrupt, reg, hw, disk, fault, counts, last, stop>>
-----------------------------------------------------------------------------
\* The disk takes a command, stores what it was given, or fails either.
Ready ==
  /\ stop = "run" /\ hw.st = "busy"
  /\ hw' = [hw EXCEPT !.st = "drq", !.v = IF hw.op = "read" THEN disk[<<hw.d, hw.s>>] ELSE 0]
  /\ irq' = (irq \/ hw.op = "read")
  /\ UNCHANGED <<call, channel, reg, disk, fault, counts, last, stop>>
Stored ==
  /\ stop = "run" /\ hw.st = "store"
  /\ disk' = [disk EXCEPT ![<<hw.d, hw.s>>] = hw.v] /\ hw' = [st |-> "idle"] /\ irq' = TRUE
  /\ UNCHANGED <<call, channel, reg, fault, counts, last, stop>>
Fails ==
  /\ stop = "run" /\ hw.st \in {"busy", "store"} /\ ~fault
  /\ fault' = TRUE /\ hw' = [st |-> "idle"] /\ irq' = TRUE
  /\ UNCHANGED <<call, channel, reg, disk, counts, last, stop>>
Wild ==
  /\ stop = "run" /\ wild < MaxWild /\ ~irq
  /\ irq' = TRUE /\ wild' = wild + 1
  /\ UNCHANGED <<call, channel, reg, hw, disk, fault, read_cnt, calls, reads, last, stop>>

Init ==
  /\ call = [t \in Thread |-> Idle] /\ lock = NONE /\ sema = 0 /\ expecting_interrupt = FALSE
  /\ reg = [d |-> CHOOSE d \in Disk : TRUE, s |-> 0] /\ hw = [st |-> "idle"] /\ irq = FALSE
  /\ disk = [x \in Disk \X Sector |-> 0] /\ last = disk
  /\ read_cnt = 0 /\ calls = 0 /\ reads = 0 /\ wild = 0 /\ fault = FALSE /\ stop = "run"
Drive(t) ==
  \/ select_sector(t) \/ issue_pio_command(t) \/ Completed(t) \/ Data(t) \/ Unlock(t)
  \/ LoadCount(t) \/ StoreCount(t)
Next ==
  \/ \E t \in Thread : \/ \E op \in {"read", "write"}, d \in Disk, s \in 0 .. SIZE : Call(t, op, d, s)
                       \/ Acquire(t) \/ Drive(t)
  \/ interrupt_handler \/ Ready \/ Stored \/ Fails \/ Wild
\* Threads run, interrupts are taken and the disk works.  Nothing gives the
\* channel's lock to a particular waiter; the bound on calls ends the contention.
Fairness ==
  /\ WF_vars(interrupt_handler) /\ WF_vars(Ready) /\ WF_vars(Stored)
  /\ \A t \in Thread : WF_vars(Drive(t)) /\ WF_vars(Acquire(t))
Spec == Init /\ [][Next]_vars /\ Fairness
-----------------------------------------------------------------------------
\* The semaphore is never negative, and the holder of the lock is in a call.
TypeOK ==
  /\ sema \in Nat /\ lock \in Thread \cup {NONE} /\ read_cnt \in Nat
  /\ hw.st \in {"idle", "busy", "drq", "store"} /\ stop \in {"run", "panic"}
  /\ lock # NONE => call[lock].pc \in {"select", "issue", "down", "data", "unlock"}

\* A read returns what was last written to that sector of that disk, whatever
\* interrupts come: after a wild one the semaphore runs ahead, and only
\* wait_while_busy and wait_until_idle keep the data right.  Only a failed
\* command, whose status the handler drops, breaks this.
ReadsLatest ==
  \A t \in Thread : (call[t].pc = "unlock" /\ call[t].op = "read" /\ ~fault)
                      => call[t].v = last[<<call[t].d, call[t].s>>]

\* "Returns after the disk has acknowledged receiving the data": with the lock
\* free the disk has what was written, unless a wild interrupt came.
WritesAcknowledged == (lock = NONE /\ wild = 0 /\ ~fault) => disk = last

\* The driver panics only for a sector past the end or a command that failed.
PanicsOnlyBy ==
  [][stop' = "panic" => fault \/ \E t \in Thread, op \in {"read", "write"}, d \in Disk :
                                   Call(t, op, d, SIZE)]_vars

\* read_cnt, counted without a lock, never exceeds the reads that were done.
CountsBounded == read_cnt <= reads

\* Every call returns: no completion interrupt is lost, also when a status read
\* clears one that came for nobody.
CallsReturn == \A t \in Thread : call[t].pc # "idle" ~> (call[t].pc = "idle" \/ stop = "panic")
=============================================================================
