---------------------------- MODULE CacheThreads ----------------------------
(***************************************************************************)
(* The buffer cache of filesys/inode.c with threads that call cache_read   *)
(* and cache_write at the same time: no system call takes a lock around    *)
(* them.  Module Cache has the same code for one thread.                   *)
(*                                                                         *)
(* A step is a stretch of code that holds the lock of one entry, or one    *)
(* that touches no shared data but the disk.  entry_num_lock is held over  *)
(* whole loops, so it is a variable; the entry locks are free between      *)
(* steps.  The locks exclude as module Synch shows.                        *)
(***************************************************************************)
EXTENDS Integers

CONSTANTS
  Thread, Sector, Value,
  Owner,       \* the only thread that writes a sector, or NULL
  Disk0,       \* what is on the disk at the start
  CACHE_SIZE,
  NULL,        \* no thread; the sector -1 of an unused entry
  MaxCalls     \* bound: calls of each thread

Slot == 0..(CACHE_SIZE - 1)

ASSUME CacheThreadsAssumption ==
  /\ CACHE_SIZE \in Nat \ {0} /\ MaxCalls \in Nat
  /\ NULL \notin Thread \cup Sector /\ Sector # {}
  /\ Owner \in [Sector -> Thread \cup {NULL}]
  /\ 0 \in Value /\ Disk0 \in [Sector -> Value]

VARIABLES
  entry_num, sector, ref_count, write, data,  \* struct block_cache
  entry_num_lock,  \* its holder
  disk,
  pc,              \* where each thread is
  s,               \* the sector of its call
  buf,             \* its data: to write, or read
  i, found, replace, max, max_index,          \* locals of the loops
  reading,         \* the call is a cache_read
  calls,           \* calls made
  written          \* the value of the last completed write of a sector

entries == <<sector, ref_count, write, data>>
locals == <<i, found, replace, max, max_index>>
vars == <<entry_num, entries, entry_num_lock, disk, pc, s, buf, locals, reading,
          calls, written>>

PC == {"idle", "read_lock", "read_scan", "undo_lock", "undo_scan", "read_disk",
       "write_lock", "write_scan", "replace", "append", "check", "evict", "done"}

Goto(t, p) == pc' = [pc EXCEPT ![t] = p]
Set(f, t, v) == [f EXCEPT ![t] = v]
-----------------------------------------------------------------------------
cache_init ==
  /\ entry_num = 0
  /\ sector = [k \in Slot |-> NULL]
  /\ ref_count = [k \in Slot |-> 0]
  /\ write = [k \in Slot |-> FALSE]
  /\ data = [k \in Slot |-> 0]
  /\ entry_num_lock = NULL
  /\ disk = Disk0

Init ==
  /\ cache_init
  /\ pc = [t \in Thread |-> "idle"]
  /\ s \in [Thread -> {CHOOSE x \in Sector : TRUE}]
  /\ buf = [t \in Thread |-> 0]
  /\ i = [t \in Thread |-> 0]
  /\ found = [t \in Thread |-> FALSE]
  /\ replace = [t \in Thread |-> 0]
  /\ max = [t \in Thread |-> 0]
  /\ max_index = [t \in Thread |-> 0]
  /\ reading = [t \in Thread |-> FALSE]
  /\ calls = [t \in Thread |-> 0]
  /\ written = Disk0

cache_read(t, x) ==
  /\ pc[t] = "idle" /\ calls[t] < MaxCalls
  /\ Goto(t, "read_lock")
  /\ s' = Set(s, t, x)
  /\ reading' = Set(reading, t, TRUE)
  /\ calls' = Set(calls, t, calls[t] + 1)
  /\ UNCHANGED <<entry_num, entries, entry_num_lock, disk, buf, locals, written>>

cache_write(t, x, v) ==
  /\ pc[t] = "idle" /\ calls[t] < MaxCalls
  /\ Owner[x] = t
  /\ Goto(t, "write_lock")
  /\ s' = Set(s, t, x)
  /\ buf' = Set(buf, t, v)
  /\ reading' = Set(reading, t, FALSE)
  /\ calls' = Set(calls, t, calls[t] + 1)
  /\ UNCHANGED <<entry_num, entries, entry_num_lock, disk, locals, written>>

\* lock_acquire (&cache.entry_num_lock) before a loop, with the loop's locals
\* as they are initialised at the head of the function.
LockLoop(t, from, to) ==
  /\ pc[t] = from
  /\ entry_num_lock = NULL
  /\ entry_num_lock' = t
  /\ i' = Set(i, t, 0)
  /\ found' = Set(found, t, FALSE)
  /\ replace' = Set(replace, t, 0)
  /\ max' = Set(max, t, 0)
  /\ max_index' = Set(max_index, t, 0)
  /\ Goto(t, to)
  /\ UNCHANGED <<entry_num, entries, disk, s, buf, reading, calls, written>>

ReadLock(t) == LockLoop(t, "read_lock", "read_scan")
UndoLock(t) == LockLoop(t, "undo_lock", "undo_scan")
WriteLock(t) == LockLoop(t, "write_lock", "write_scan")

\* The loop has visited every entry; the lock is released.
EndLoop(t, from, to) ==
  /\ pc[t] = from
  /\ i[t] >= entry_num
  /\ entry_num_lock' = NULL
  /\ Goto(t, to)
  /\ UNCHANGED <<entry_num, entries, disk, s, buf, locals, reading, calls, written>>
-----------------------------------------------------------------------------
\* One turn of the first loop of cache_read.
ReadScan(t) ==
  /\ pc[t] = "read_scan" /\ i[t] < entry_num
  /\ LET hit == sector[i[t]] = s[t]
     IN /\ ref_count' = Set(ref_count, i[t], IF hit THEN 0 ELSE ref_count[i[t]] + 1)
        /\ buf' = IF hit THEN Set(buf, t, data[i[t]]) ELSE buf
        /\ found' = Set(found, t, found[t] \/ hit)
  /\ i' = Set(i, t, i[t] + 1)
  /\ UNCHANGED <<entry_num, sector, write, data, entry_num_lock, disk, pc, s,
                 replace, max, max_index, reading, calls, written>>

ReadScanEnd(t) == EndLoop(t, "read_scan", IF found[t] THEN "done" ELSE "undo_lock")

\* One turn of its second loop, after a miss.
UndoScan(t) ==
  /\ pc[t] = "undo_scan" /\ i[t] < entry_num
  /\ ref_count' = Set(ref_count, i[t], ref_count[i[t]] - 1)
  /\ i' = Set(i, t, i[t] + 1)
  /\ UNCHANGED <<entry_num, sector, write, data, entry_num_lock, disk, pc, s, buf,
                 found, replace, max, max_index, reading, calls, written>>

UndoScanEnd(t) == EndLoop(t, "undo_scan", "read_disk")

\* block_read, with no lock held, and the call of cache_write.
ReadDisk(t) ==
  /\ pc[t] = "read_disk"
  /\ buf' = Set(buf, t, disk[s[t]])
  /\ Goto(t, "write_lock")
  /\ UNCHANGED <<entry_num, entries, entry_num_lock, disk, s, locals, reading,
                 calls, written>>

\* One turn of the loop of cache_write.
WriteScan(t) ==
  /\ pc[t] = "write_scan" /\ i[t] < entry_num
  /\ LET k == i[t]
         hit == sector[k] = s[t]
         age == ref_count[k] + 1
     IN /\ ref_count' = Set(ref_count, k, IF hit THEN 0 ELSE age)
        /\ found' = Set(found, t, found[t] \/ hit)
        /\ replace' = IF hit THEN Set(replace, t, k) ELSE replace
        /\ max' = IF ~hit /\ age > max[t] THEN Set(max, t, age) ELSE max
        /\ max_index' = IF ~hit /\ age > max[t] THEN Set(max_index, t, k)
                        ELSE max_index
  /\ i' = Set(i, t, i[t] + 1)
  /\ UNCHANGED <<entry_num, sector, write, data, entry_num_lock, disk, pc, s, buf,
                 reading, calls, written>>

WriteScanEnd(t) == EndLoop(t, "write_scan", IF found[t] THEN "replace" ELSE "append")
-----------------------------------------------------------------------------
\* Mutation of Fill: the data is not copied.
Fill_without_data(t, k) ==
  /\ sector' = Set(sector, k, s[t])
  /\ ref_count' = Set(ref_count, k, 0)
  /\ write' = Set(write, k, TRUE)
  /\ UNCHANGED data

\* Entry k is filled with the sector and the data of the call.
Fill(t, k) ==
  /\ sector' = Set(sector, k, s[t])
  /\ ref_count' = Set(ref_count, k, 0)
  /\ write' = Set(write, k, TRUE)
  /\ data' = Set(data, k, buf[t])

\* The entry that matched is filled, under its own lock only.
Replace(t) ==
  /\ pc[t] = "replace"
  /\ Fill(t, replace[t])
  /\ Goto(t, "done")
  /\ UNCHANGED <<entry_num, entry_num_lock, disk, s, buf, locals, reading, calls,
                 written>>

\* The next unused entry is filled, if there is one.
AppendEntry(t) ==
  /\ pc[t] = "append"
  /\ entry_num_lock = NULL
  /\ IF entry_num < CACHE_SIZE
     THEN Fill(t, entry_num) /\ entry_num' = entry_num + 1
     ELSE UNCHANGED <<entries, entry_num>>
  /\ Goto(t, "check")
  /\ UNCHANGED <<entry_num_lock, disk, s, buf, locals, reading, calls, written>>

\* Mutation of Check: a call that filled an entry goes on to wait for one.
Check_stuck(t) ==
  /\ pc[t] = "check"
  /\ entry_num = CACHE_SIZE
  /\ Goto(t, "evict")
  /\ UNCHANGED <<entry_num, entries, entry_num_lock, disk, s, buf, locals, reading,
                 calls, written>>

\* entry_num is read again, with no lock held.
Check(t) ==
  /\ pc[t] = "check"
  /\ Goto(t, IF entry_num < CACHE_SIZE THEN "done" ELSE "evict")
  /\ UNCHANGED <<entry_num, entries, entry_num_lock, disk, s, buf, locals, reading,
                 calls, written>>

Evict(t) ==
  /\ pc[t] = "evict"
  /\ entry_num_lock = NULL
  /\ disk' = IF write[max_index[t]]
             THEN Set(disk, sector[max_index[t]], data[max_index[t]]) ELSE disk
  /\ Fill(t, max_index[t])
  /\ Goto(t, "done")
  /\ UNCHANGED <<entry_num, entry_num_lock, s, buf, locals, reading, calls, written>>

\* The call returns; its locals are gone.
Return(t) ==
  /\ pc[t] = "done"
  /\ written' = IF reading[t] THEN written ELSE Set(written, s[t], buf[t])
  /\ Goto(t, "idle")
  /\ buf' = Set(buf, t, 0)
  /\ i' = Set(i, t, 0)
  /\ found' = Set(found, t, FALSE)
  /\ replace' = Set(replace, t, 0)
  /\ max' = Set(max, t, 0)
  /\ max_index' = Set(max_index, t, 0)
  /\ UNCHANGED <<entry_num, entries, entry_num_lock, disk, s, reading, calls>>
-----------------------------------------------------------------------------
Step(t) ==
  \/ ReadLock(t) \/ ReadScan(t) \/ ReadScanEnd(t)
  \/ UndoLock(t) \/ UndoScan(t) \/ UndoScanEnd(t) \/ ReadDisk(t)
  \/ WriteLock(t) \/ WriteScan(t) \/ WriteScanEnd(t)
  \/ Replace(t) \/ AppendEntry(t) \/ Check(t) \/ Evict(t) \/ Return(t)

Call(t) ==
  \E x \in Sector : cache_read(t, x) \/ \E v \in Value : cache_write(t, x, v)

Next == \E t \in Thread : Step(t) \/ Call(t)

\* The scheduler runs every thread, so a call in progress goes on.
Fairness == \A t \in Thread : WF_vars(Step(t))

Spec == Init /\ [][Next]_vars /\ Fairness
-----------------------------------------------------------------------------
TypeOK ==
  /\ entry_num \in 0..CACHE_SIZE
  /\ sector \in [Slot -> Sector \cup {NULL}]
  /\ ref_count \in [Slot -> Int]
  /\ write \in [Slot -> BOOLEAN]
  /\ data \in [Slot -> Value]
  /\ entry_num_lock \in Thread \cup {NULL}
  /\ disk \in [Sector -> Value]
  /\ pc \in [Thread -> PC]
  /\ \A t \in Thread : {replace[t], max_index[t]} \subseteq Slot /\ i[t] \in 0..CACHE_SIZE

\* The races between the loops and the fills, and stale values of replace and
\* max_index, never mix sectors up: a read of a sector nobody writes returns
\* what is on the disk, whatever is written to other sectors meanwhile.
UnwrittenExact ==
  \A t \in Thread :
    pc[t] = "done" /\ Owner[s[t]] = NULL => buf[t] = Disk0[s[t]]

\* What threads leave in struct block_cache is of its type, and sectors are not
\* taken for one another.
SectorsApart == TypeOK /\ UnwrittenExact

\* Every call returns: the two kinds of locks are taken in one order.
CallReturns == \A t \in Thread : (pc[t] # "idle") ~> (pc[t] = "idle")

\* A thread that is the only one to write a sector reads back what it wrote
\* last, whatever other threads do with other sectors.
OwnWritesVisible ==
  \A t \in Thread :
    pc[t] = "done" /\ reading[t] /\ Owner[s[t]] = t => buf[t] = written[s[t]]
=============================================================================
