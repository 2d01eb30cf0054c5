------------------------------ MODULE DiskProofs ----------------------------
(***************************************************************************)
(* Whatever threads do to the buffer cache at the same time, it keeps the  *)
(* sectors apart: for any number of threads, sectors and entries.          *)
(* replace and max_index may be stale when an entry is filled, and two     *)
(* entries may hold one sector, but an entry is filled with a sector and   *)
(* with data that belong together.                                         *)
(*                                                                         *)
(* After the cache, the disk driver below it: a read returns what was last *)
(* written, for any number of threads, disks and sectors.                  *)
(***************************************************************************)
EXTENDS CacheThreads, FiniteSets, TLAPS

\* The locals of the calls.
LocalTypes ==
  /\ s \in [Thread -> Sector] /\ buf \in [Thread -> Value]
  /\ i \in [Thread -> 0..CACHE_SIZE] /\ found \in [Thread -> BOOLEAN]
  /\ replace \in [Thread -> Slot] /\ max_index \in [Thread -> Slot]

\* The disk and the entries of the cache agree about a sector nobody writes,
\* and only an entry with a sector is ever written back.
EntriesClean ==
  /\ \A x \in Sector : Owner[x] = NULL => disk[x] = Disk0[x]
  /\ \A k \in Slot : /\ sector[k] \in Sector /\ Owner[sector[k]] = NULL =>
                          data[k] = Disk0[sector[k]]
                     /\ write[k] => sector[k] \in Sector

\* Where a call has the data of its sector in its buffer.
HasData ==
  {"write_lock", "write_scan", "replace", "append", "check", "evict", "done"}
BuffersClean ==
  \A t \in Thread :
    /\ Owner[s[t]] = NULL
    /\ pc[t] \in HasData \/ (pc[t] = "read_scan" /\ found[t])
    => buf[t] = Disk0[s[t]]

\* A thread is in a loop over the entries just while it holds entry_num_lock.
ScanPC == {"read_scan", "undo_scan", "write_scan"}
LoopExclusive == \A t \in Thread : pc[t] \in ScanPC <=> entry_num_lock = t

IInv == TypeOK /\ LocalTypes /\ EntriesClean /\ BuffersClean /\ LoopExclusive

USE CacheThreadsAssumption

\* After cache_init every entry is unused and every thread outside a call.
LEMMA InitIInv == Init => IInv
<1> SUFFICES ASSUME Init PROVE IInv
  BY Zenon
<1> USE DEF Init, cache_init, Slot
<1>1. TypeOK
  BY DEF TypeOK, PC
<1>2. LocalTypes
  <2>1. (CHOOSE x \in Sector : TRUE) \in Sector
    BY Zenon
  <2>2. QED BY <2>1 DEF LocalTypes
<1>3. EntriesClean /\ BuffersClean /\ LoopExclusive
  BY Zenon DEF EntriesClean, BuffersClean, HasData, LoopExclusive, ScanPC
<1>4. QED BY Zenon, <1>1, <1>2, <1>3 DEF IInv

\* Filling an entry keeps entries clean: its sector and its data come from one
\* call that has its data.
LEMMA FillClean ==
  ASSUME IInv, NEW t \in Thread, NEW k \in Slot, Fill(t, k), pc[t] \in HasData,
         \A x \in Sector : Owner[x] = NULL => disk'[x] = Disk0[x]
  PROVE  /\ EntriesClean'
         /\ sector' \in [Slot -> Sector \cup {NULL}] /\ ref_count' \in [Slot -> Int]
         /\ write' \in [Slot -> BOOLEAN] /\ data' \in [Slot -> Value]
<1> USE DEF IInv, TypeOK, LocalTypes, Fill, Set
<1>1. /\ sector' \in [Slot -> Sector \cup {NULL}] /\ ref_count' \in [Slot -> Int]
      /\ write' \in [Slot -> BOOLEAN] /\ data' \in [Slot -> Value]
  OBVIOUS
<1>2. /\ sector'[k] = s[t] /\ data'[k] = buf[t]
      /\ \A j \in Slot : j # k => /\ sector'[j] = sector[j] /\ data'[j] = data[j]
                                  /\ write'[j] = write[j]
  BY Zenon
<1>3. Owner[s[t]] = NULL => buf[t] = Disk0[s[t]]
  BY Zenon DEF BuffersClean
<1>4. s[t] \in Sector
  BY Zenon
<1>5. \A j \in Slot : /\ sector'[j] \in Sector /\ Owner[sector'[j]] = NULL =>
                           data'[j] = Disk0[sector'[j]]
                      /\ write'[j] => sector'[j] \in Sector
  BY Zenon, <1>2, <1>3, <1>4 DEF EntriesClean
<1>6. QED BY Zenon, <1>1, <1>5 DEF EntriesClean

\* Taking entry_num_lock before a loop.
LEMMA LockLoopStep ==
  ASSUME IInv, NEW t \in Thread, NEW from, NEW to \in ScanPC,
         LockLoop(t, from, to), from \notin ScanPC,
         to = "write_scan" => from \in HasData
  PROVE  IInv'
<1> USE DEF IInv, LockLoop, Goto, Set
<1>1. TypeOK'
  BY DEF TypeOK, PC, ScanPC, Slot, entries
<1>2. LocalTypes'
  BY DEF LocalTypes, Slot
<1>3. EntriesClean'
  BY Zenon DEF EntriesClean, entries
<1>4. /\ pc'[t] = to /\ ~found'[t] /\ UNCHANGED <<s, buf>>
      /\ \A u \in Thread : u # t => pc'[u] = pc[u] /\ found'[u] = found[u]
  BY Zenon DEF TypeOK, LocalTypes
<1>5. BuffersClean'
  BY <1>4 DEF BuffersClean, HasData, ScanPC
<1>6. LoopExclusive'
  BY Zenon, <1>4 DEF LoopExclusive, TypeOK
<1>7. QED BY Zenon, <1>1, <1>2, <1>3, <1>5, <1>6

\* Releasing it behind the loop.
LEMMA EndLoopStep ==
  ASSUME IInv, NEW t \in Thread, NEW from \in ScanPC, NEW to \in PC \ ScanPC,
         EndLoop(t, from, to),
         to \in HasData => from = "write_scan" \/ (from = "read_scan" /\ found[t])
  PROVE  IInv'
<1> USE DEF IInv, EndLoop, Goto, locals
<1>1. TypeOK'
  BY Zenon DEF TypeOK, entries
<1>2. LocalTypes'
  BY Zenon DEF LocalTypes
<1>3. EntriesClean'
  BY Zenon DEF EntriesClean, entries
<1>4. /\ pc'[t] = to /\ UNCHANGED <<s, buf, found>>
      /\ \A u \in Thread : u # t => pc'[u] = pc[u]
  BY Zenon DEF TypeOK
<1>5. BuffersClean'
  BY <1>4 DEF BuffersClean, HasData, ScanPC
<1>6. LoopExclusive'
  BY Zenon, <1>4 DEF LoopExclusive, TypeOK
<1>7. QED BY Zenon, <1>1, <1>2, <1>3, <1>5, <1>6

\* Every step of a thread keeps the invariant.
LEMMA NextIInv == IInv /\ [Next]_vars => IInv'
<1> SUFFICES ASSUME IInv, [Next]_vars PROVE IInv'
  BY Zenon
<1> USE DEF Goto, Set
<1>1. ASSUME NEW t \in Thread, NEW x \in Sector, cache_read(t, x) PROVE IInv'
  <2> USE <1>1 DEF IInv, cache_read, locals, entries
  <2>1. TypeOK' /\ LocalTypes' /\ EntriesClean'
    BY Zenon DEF TypeOK, LocalTypes, EntriesClean, PC
  <2>2. BuffersClean' /\ LoopExclusive'
    BY ZenonT(30) DEF TypeOK, LocalTypes, BuffersClean, LoopExclusive, HasData, ScanPC
  <2>3. QED BY Zenon, <2>1, <2>2
<1>2. ASSUME NEW t \in Thread, NEW x \in Sector, NEW v \in Value,
             cache_write(t, x, v)
      PROVE  IInv'
  <2> USE <1>2 DEF IInv, cache_write, locals, entries
  <2>1. TypeOK' /\ LocalTypes' /\ EntriesClean'
    BY Zenon DEF TypeOK, LocalTypes, EntriesClean, PC
  <2>2. BuffersClean' /\ LoopExclusive'
    BY DEF TypeOK, LocalTypes, BuffersClean, LoopExclusive, HasData, ScanPC
  <2>3. QED BY Zenon, <2>1, <2>2
<1>3. ASSUME NEW t \in Thread, ReadLock(t) \/ UndoLock(t) \/ WriteLock(t) PROVE IInv'
  BY Zenon, <1>3, LockLoopStep DEF ReadLock, UndoLock, WriteLock, ScanPC, HasData
<1>4. ASSUME NEW t \in Thread, ReadScan(t) PROVE IInv'
  <2> USE <1>4 DEF IInv, ReadScan
  <2>1. i[t] \in Slot /\ i[t] + 1 \in 0..CACHE_SIZE /\ sector[i[t]] \in Sector \cup {NULL}
    <3>1. i[t] \in 0..CACHE_SIZE /\ entry_num \in 0..CACHE_SIZE /\ i[t] < entry_num
      BY Zenon DEF TypeOK, LocalTypes
    <3>2. i[t] \in Slot /\ i[t] + 1 \in 0..CACHE_SIZE
      BY <3>1 DEF Slot
    <3>3. QED BY Zenon, <3>2 DEF TypeOK
  <2>2. TypeOK'
    BY <2>1 DEF TypeOK, LocalTypes
  <2>3. LocalTypes'
    BY Zenon, <2>1 DEF TypeOK, LocalTypes
  <2>4. EntriesClean'
    BY Zenon DEF EntriesClean
  <2>5. BuffersClean'
    <3> SUFFICES ASSUME NEW u \in Thread, Owner[s[u]] = NULL,
                        pc[u] \in HasData \/ (pc[u] = "read_scan" /\ found'[u])
                 PROVE  buf'[u] = Disk0[s[u]]
      BY Zenon DEF BuffersClean
    <3>1. CASE u # t
      BY Zenon, <3>1 DEF BuffersClean, LocalTypes
    <3>2. CASE u = t /\ sector[i[t]] = s[t]
      BY <2>1, <3>2 DEF EntriesClean, LocalTypes
    <3>3. CASE u = t /\ sector[i[t]] # s[t]
      BY Zenon, <3>3 DEF BuffersClean, LocalTypes, HasData
    <3>4. QED BY Zenon, <3>1, <3>2, <3>3
  <2>6. LoopExclusive'
    BY Zenon DEF LoopExclusive
  <2>7. QED BY Zenon, <2>2, <2>3, <2>4, <2>5, <2>6
<1>5. ASSUME NEW t \in Thread, ReadScanEnd(t) PROVE IInv'
  <2>1. CASE found[t]
    BY Zenon, <1>5, <2>1, EndLoopStep DEF ReadScanEnd, ScanPC, PC
  <2>2. CASE ~found[t]
    BY Zenon, <1>5, <2>2, EndLoopStep DEF ReadScanEnd, ScanPC, PC, HasData
  <2>3. QED BY Zenon, <2>1, <2>2
<1>6. ASSUME NEW t \in Thread, UndoScan(t) PROVE IInv'
  <2> USE <1>6 DEF IInv, UndoScan
  <2>1. i[t] \in Slot /\ i[t] + 1 \in 0..CACHE_SIZE
    BY SMTT(30) DEF TypeOK, LocalTypes, Slot
  <2>2. TypeOK'
    BY <2>1 DEF TypeOK, LocalTypes
  <2>3. LocalTypes'
    BY Zenon, <2>1 DEF LocalTypes
  <2>4. EntriesClean' /\ BuffersClean' /\ LoopExclusive'
    BY Zenon DEF EntriesClean, BuffersClean, LoopExclusive
  <2>5. QED BY Zenon, <2>2, <2>3, <2>4
<1>7. ASSUME NEW t \in Thread, UndoScanEnd(t) PROVE IInv'
  BY Zenon, <1>7, EndLoopStep DEF UndoScanEnd, ScanPC, PC, HasData
<1>8. ASSUME NEW t \in Thread, ReadDisk(t) PROVE IInv'
  <2> USE <1>8 DEF IInv, ReadDisk, locals, entries
  <2>1. TypeOK' /\ LocalTypes' /\ EntriesClean'
    BY Zenon DEF TypeOK, LocalTypes, EntriesClean, PC
  <2>2. BuffersClean'
    BY ZenonT(30) DEF TypeOK, LocalTypes, BuffersClean, EntriesClean, HasData
  <2>3. LoopExclusive'
    BY Zenon DEF TypeOK, LoopExclusive, ScanPC
  <2>4. QED BY Zenon, <2>1, <2>2, <2>3
<1>9. ASSUME NEW t \in Thread, WriteScan(t) PROVE IInv'
  <2> USE <1>9 DEF IInv, WriteScan
  <2>1. i[t] \in Slot /\ i[t] + 1 \in 0..CACHE_SIZE
    BY DEF TypeOK, LocalTypes, Slot
  <2>2. LocalTypes'
    BY Zenon, <2>1 DEF LocalTypes
  <2>3. TypeOK'
    BY <2>1, <2>2 DEF TypeOK, LocalTypes
  <2>4. EntriesClean' /\ LoopExclusive'
    BY Zenon DEF EntriesClean, LoopExclusive
  <2>5. BuffersClean'
    BY Zenon DEF BuffersClean, LocalTypes
  <2>6. QED BY Zenon, <2>2, <2>3, <2>4, <2>5
<1>10. ASSUME NEW t \in Thread, WriteScanEnd(t) PROVE IInv'
  BY Zenon, <1>10, EndLoopStep DEF WriteScanEnd, ScanPC, PC, HasData
<1>11. ASSUME NEW t \in Thread, Replace(t) PROVE IInv'
  <2> USE <1>11 DEF IInv, Replace, locals
  <2>1. replace[t] \in Slot /\ pc[t] \in HasData
    BY Zenon DEF LocalTypes, HasData
  <2>2. \A x \in Sector : Owner[x] = NULL => disk'[x] = Disk0[x]
    BY Zenon DEF EntriesClean
  <2>3. /\ EntriesClean'
        /\ sector' \in [Slot -> Sector \cup {NULL}] /\ ref_count' \in [Slot -> Int]
        /\ write' \in [Slot -> BOOLEAN] /\ data' \in [Slot -> Value]
    BY Zenon, <2>1, <2>2, FillClean
  <2>4. TypeOK' /\ LocalTypes'
    BY Zenon, <2>3 DEF TypeOK, LocalTypes, PC
  <2>5. BuffersClean' /\ LoopExclusive'
    BY Zenon DEF TypeOK, BuffersClean, LoopExclusive, HasData, ScanPC
  <2>6. QED BY Zenon, <2>3, <2>4, <2>5
<1>12. ASSUME NEW t \in Thread, AppendEntry(t) PROVE IInv'
  <2> USE <1>12 DEF IInv, AppendEntry, locals
  <2>1. BuffersClean' /\ LoopExclusive' /\ LocalTypes' /\ pc' \in [Thread -> PC]
    BY DEF TypeOK, LocalTypes, BuffersClean, LoopExclusive, HasData, ScanPC, PC
  <2>2. CASE entry_num < CACHE_SIZE
    <3>1. entry_num \in Slot /\ pc[t] \in HasData
      BY <2>2 DEF TypeOK, HasData, Slot
    <3>2. \A x \in Sector : Owner[x] = NULL => disk'[x] = Disk0[x]
      BY Zenon DEF EntriesClean
    <3>3. /\ EntriesClean'
          /\ sector' \in [Slot -> Sector \cup {NULL}] /\ ref_count' \in [Slot -> Int]
          /\ write' \in [Slot -> BOOLEAN] /\ data' \in [Slot -> Value]
      BY Zenon, <2>2, <3>1, <3>2, FillClean
    <3>4. TypeOK'
      BY <2>1, <2>2, <3>3 DEF TypeOK
    <3>5. QED BY Zenon, <2>1, <3>3, <3>4
  <2>3. CASE ~(entry_num < CACHE_SIZE)
    BY ZenonT(30), <2>1, <2>3 DEF TypeOK, EntriesClean, entries
  <2>4. QED BY Zenon, <2>2, <2>3
<1>13. ASSUME NEW t \in Thread, Check(t) PROVE IInv'
  <2> USE <1>13 DEF IInv, Check, locals, entries
  <2>1. TypeOK' /\ LocalTypes' /\ EntriesClean'
    BY Zenon DEF TypeOK, LocalTypes, EntriesClean, PC
  <2>2. BuffersClean' /\ LoopExclusive'
    BY ZenonT(30) DEF TypeOK, BuffersClean, LoopExclusive, HasData, ScanPC
  <2>3. QED BY Zenon, <2>1, <2>2
<1>14. ASSUME NEW t \in Thread, Evict(t) PROVE IInv'
  <2> USE <1>14 DEF IInv, Evict, locals
  <2>1. max_index[t] \in Slot /\ pc[t] \in HasData
    BY Zenon DEF LocalTypes, HasData
  <2>2. /\ disk' \in [Sector -> Value]
        /\ \A x \in Sector : Owner[x] = NULL => disk'[x] = Disk0[x]
    <3>1. CASE ~write[max_index[t]]
      BY Zenon, <3>1 DEF TypeOK, EntriesClean
    <3>2. CASE write[max_index[t]]
      <4> DEFINE k == max_index[t]
      <4>1. sector[k] \in Sector /\ data[k] \in Value
        BY Zenon, <2>1, <3>2 DEF EntriesClean, TypeOK
      <4>2. disk' = [disk EXCEPT ![sector[k]] = data[k]]
        BY Zenon, <3>2
      <4>3. QED BY <2>1, <4>1, <4>2 DEF TypeOK, EntriesClean
    <3>3. QED BY Zenon, <3>1, <3>2
  <2>3. /\ EntriesClean'
        /\ sector' \in [Slot -> Sector \cup {NULL}] /\ ref_count' \in [Slot -> Int]
        /\ write' \in [Slot -> BOOLEAN] /\ data' \in [Slot -> Value]
    BY Zenon, <2>1, <2>2, FillClean
  <2>4. TypeOK' /\ LocalTypes'
    BY Zenon, <2>2, <2>3 DEF TypeOK, LocalTypes, PC
  <2>5. BuffersClean' /\ LoopExclusive'
    BY ZenonT(30) DEF TypeOK, BuffersClean, LoopExclusive, HasData, ScanPC
  <2>6. QED BY Zenon, <2>3, <2>4, <2>5
<1>15. ASSUME NEW t \in Thread, Return(t) PROVE IInv'
  <2> USE <1>15 DEF IInv, Return, entries
  <2>0. 0 \in Slot /\ 0 \in 0..CACHE_SIZE /\ 0 \in Value
    BY DEF Slot
  <2>1. LocalTypes'
    BY Zenon, <2>0 DEF LocalTypes
  <2>2. TypeOK'
    BY <2>0, <2>1 DEF TypeOK, LocalTypes, PC
  <2>3. TypeOK' /\ LocalTypes' /\ EntriesClean'
    BY Zenon, <2>1, <2>2 DEF EntriesClean
  <2>4. BuffersClean' /\ LoopExclusive'
    BY ZenonT(30) DEF TypeOK, LocalTypes, BuffersClean, LoopExclusive, HasData, ScanPC
  <2>5. QED BY Zenon, <2>3, <2>4
<1>16. CASE UNCHANGED vars
  BY Zenon, <1>16 DEF vars, locals, entries, IInv, TypeOK, LocalTypes, EntriesClean,
               BuffersClean, LoopExclusive
<1>17. QED
  BY Zenon, <1>1, <1>2, <1>3, <1>4, <1>5, <1>6, <1>7, <1>8, <1>9, <1>10, <1>11, <1>12,
     <1>13, <1>14, <1>15, <1>16 DEF Next, Step, Call

\* The invariant holds in every state of every run of the threads.
LEMMA Invariance == Spec => []IInv
BY InitIInv, NextIInv, PTL DEF Spec

\* However calls of cache_read and cache_write interleave, struct block_cache
\* keeps its types, and a read of a sector nobody writes returns what is on the
\* disk: for any number of threads and sectors and any size of the cache.
THEOREM ReadsNotMixedUp == Spec => []SectorsApart
<1>1. IInv => SectorsApart
  BY Zenon DEF IInv, SectorsApart, UnwrittenExact, BuffersClean, HasData
<1>2. QED BY Invariance, <1>1, PTL

\* entry_num, the bound of the loops over the entries, does not change under a
\* loop: the lock that cache_write takes to use a new entry excludes them.
LoopBoundStable ==
  [][(\E t \in Thread : pc[t] \in ScanPC) => entry_num' = entry_num]_vars

\* A thread that walks the entries holds entry_num_lock alone, and the bound of
\* its walk is fixed while it lasts.
THEOREM LoopsExclude == Spec => []LoopExclusive /\ LoopBoundStable
<1>1. IInv => LoopExclusive
  BY Zenon DEF IInv
<1>2. ASSUME IInv, Next, NEW u \in Thread, pc[u] \in ScanPC
      PROVE  entry_num' = entry_num
  <2>1. entry_num_lock = u /\ u # NULL
    BY Zenon, <1>2 DEF IInv, LoopExclusive
  <2>2. \A t \in Thread : ~AppendEntry(t)
    BY Zenon, <2>1 DEF AppendEntry
  <2>3. ASSUME NEW t \in Thread, Call(t) PROVE entry_num' = entry_num
    BY Zenon, <2>3 DEF Call, cache_read, cache_write
  <2>4. ASSUME NEW t \in Thread, ReadLock(t) \/ UndoLock(t) \/ WriteLock(t)
        PROVE  entry_num' = entry_num
    BY Zenon, <2>4 DEF ReadLock, UndoLock, WriteLock, LockLoop
  <2>5. ASSUME NEW t \in Thread, ReadScanEnd(t) \/ UndoScanEnd(t) \/ WriteScanEnd(t)
        PROVE  entry_num' = entry_num
    BY Zenon, <2>5 DEF ReadScanEnd, UndoScanEnd, WriteScanEnd, EndLoop
  <2>6. ASSUME NEW t \in Thread, ReadScan(t) \/ UndoScan(t) \/ WriteScan(t)
        PROVE  entry_num' = entry_num
    BY Zenon, <2>6 DEF ReadScan, UndoScan, WriteScan
  <2>7. ASSUME NEW t \in Thread,
               ReadDisk(t) \/ Replace(t) \/ Check(t) \/ Evict(t) \/ Return(t)
        PROVE  entry_num' = entry_num
    BY Zenon, <2>7 DEF ReadDisk, Replace, Check, Evict, Return
  <2>8. QED
    BY Zenon, <1>2, <2>2, <2>3, <2>4, <2>5, <2>6, <2>7 DEF Next, Step
<1>3. IInv /\ [Next]_vars =>
        [(\E t \in Thread : pc[t] \in ScanPC) => entry_num' = entry_num]_vars
  BY Zenon, <1>2
<1>4. QED BY Invariance, <1>1, <1>3, PTL DEF Spec, LoopBoundStable
-----------------------------------------------------------------------------
\* The disk driver: devices/ide.c under devices/block.c.
CONSTANTS Disk, SIZE, MaxWild
VARIABLES call, lock, sema, expecting_interrupt, reg, hw, irq, idisk, read_cnt, last,
          icalls, reads, wild, fault, istop
I == INSTANCE Ide WITH disk <- idisk, calls <- icalls, stop <- istop

Op == {"read", "write"}
\* The places of a call, and those where it has the channel's lock.
CallPC == {"lock", "select", "issue", "down", "data", "unlock", "load"}
HolderPC == {"select", "issue", "down", "data", "unlock"}
CallRec == [pc : CallPC, op : Op, d : Disk, s : I!Sector, v : Nat]
CountRec == [pc : {"store"}, cnt : Nat]
CallState == {I!Idle} \cup CallRec \cup CountRec
Command == [st : {"busy", "drq", "store"}, op : Op, d : Disk, s : I!Sector, v : Nat]

DiskTyped ==
  /\ call \in [Thread -> CallState] /\ lock \in Thread \cup {I!NONE} /\ sema \in Nat
  /\ irq \in BOOLEAN /\ expecting_interrupt \in BOOLEAN /\ fault \in BOOLEAN
  /\ hw \in {[st |-> "idle"]} \cup Command
  /\ idisk \in [Disk \X I!Sector -> Nat] /\ last \in [Disk \X I!Sector -> Nat]
  /\ icalls \in Nat /\ wild \in Nat /\ istop \in {"run", "panic"}

\* Who is between lock_acquire and lock_release has the lock.
HolderRight == \A t \in Thread : call[t].pc \in HolderPC <=> lock = t

\* The disk works on the command of t, or has its data.
Mine(t) ==
  /\ hw.st \in {"busy", "drq"} /\ hw.op = call[t].op
  /\ hw.d = call[t].d /\ hw.s = call[t].s
\* The completion of a command is not yet there, or it is: as an interrupt or as
\* a unit of the semaphore.
Quiet == ~irq /\ sema = 0
Token == \/ irq /\ sema = 0
         \/ ~irq /\ sema = 1
\* What the place of the thread that has the lock says of the disk.
Commanded(t) ==
  /\ call[t].pc = "data" => Mine(t)
  /\ call[t].pc = "down" /\ call[t].op = "read" => Mine(t)
  /\ call[t].pc = "down" /\ call[t].op = "write" => hw.st \in {"store", "idle"}
  /\ call[t].pc = "unlock" /\ call[t].op = "read" => call[t].v = last[<<call[t].d, call[t].s>>]
Tokens(t) ==
  /\ call[t].pc \in {"select", "issue", "unlock"} => hw.st = "idle" /\ Quiet
  /\ call[t].pc = "data" => Quiet /\ (call[t].op = "read" => hw.st = "drq")
  /\ call[t].pc = "down" /\ hw.st \in {"busy", "store"} => Quiet
  /\ call[t].pc = "down" /\ hw.st \notin {"busy", "store"} => Token
Held(t) ==
  /\ call[t].pc = "issue" => hw.st = "idle" /\ reg = [d |-> call[t].d, s |-> call[t].s]
  /\ call[t].pc \in {"down", "data", "unlock"} => expecting_interrupt
  /\ ~fault => Commanded(t)
  /\ ~fault /\ wild = 0 => Tokens(t)
\* The disk has what was last given to it, but for the sector it is storing.
Contents ==
  /\ hw.st # "store" => idisk = last
  /\ hw.st = "store" => /\ hw.v = last[<<hw.d, hw.s>>]
                        /\ last = [idisk EXCEPT ![<<hw.d, hw.s>>] = hw.v]
  /\ hw.st = "drq" /\ hw.op = "read" => hw.v = last[<<hw.d, hw.s>>]
FreeQuiet == lock = I!NONE => hw.st = "idle" /\ Quiet

DiskInv ==
  /\ DiskTyped /\ HolderRight
  /\ \A t \in Thread : call[t].pc \in HolderPC => Held(t)
  /\ ~fault => Contents
  /\ ~fault /\ wild = 0 => FreeQuiet

\* A thread is not the number that stands for none, and a disk has a size.
DiskConstants == I!NONE \notin Thread /\ SIZE \in Nat
-----------------------------------------------------------------------------
\* The fields of the records of a call.
LEMMA CallRecords ==
  /\ I!Idle.pc = "idle"
  /\ \A r \in CountRec : r.pc = "store" /\ r.cnt \in Nat
  /\ \A r \in CallRec : /\ r.pc \in CallPC /\ r.op \in Op /\ r.d \in Disk /\ r.s \in I!Sector
                        /\ r.v \in Nat
BY DEF I!Idle, CountRec, CallRec

\* A call at a place has the fields of that place.
LEMMA CallFields ==
  ASSUME DiskTyped, NEW t \in Thread
  PROVE  /\ call[t].pc \in CallPC \cup {"idle", "store"}
         /\ call[t].pc \in CallPC => call[t] \in CallRec
         /\ call[t].pc = "store" => call[t] \in CountRec
         /\ call[t].pc = "idle" => call[t] = I!Idle
<1>1. call[t] = I!Idle \/ call[t] \in CallRec \/ call[t] \in CountRec
  BY Zenon DEF DiskTyped, CallState
<1>2. "idle" \notin CallPC /\ "store" \notin CallPC /\ "idle" # "store"
  BY DEF CallPC
<1>3. QED BY Zenon, <1>1, <1>2, CallRecords

\* A command in progress has all its fields.
LEMMA HwFields ==
  ASSUME DiskTyped
  PROVE  /\ hw.st \in {"idle", "busy", "drq", "store"}
         /\ hw.st = "idle" => hw = [st |-> "idle"]
         /\ hw.st # "idle" => hw \in Command
<1>1. hw = [st |-> "idle"] \/ hw \in Command
  BY Zenon DEF DiskTyped
<1>2. CASE hw = [st |-> "idle"]
  BY <1>2
<1>3. CASE hw \in Command
  BY <1>3 DEF Command
<1>4. QED BY Zenon, <1>1, <1>2, <1>3

\* A call that goes to another place keeps its arguments.
Moves(t, p) ==
  /\ call' \in [Thread -> CallState] /\ call'[t] \in CallRec
  /\ call'[t].pc = p /\ call'[t].op = call[t].op
  /\ call'[t].d = call[t].d /\ call'[t].s = call[t].s
  /\ \A u \in Thread : u # t => call'[u] = call[u]
\* Going to another place is such a move, and keeps the data too.
LEMMA GotoMoves ==
  ASSUME DiskTyped, NEW t \in Thread, call[t].pc \in CallPC, NEW p \in CallPC, I!Goto(t, p)
  PROVE  Moves(t, p) /\ call'[t].v = call[t].v
<1> DEFINE r == [call[t] EXCEPT !.pc = p]
<1>1. call[t] \in CallRec /\ call \in [Thread -> CallState]
  BY Zenon, CallFields DEF DiskTyped
<1>2. /\ r \in CallRec /\ r.pc = p /\ r.op = call[t].op
      /\ r.d = call[t].d /\ r.s = call[t].s /\ r.v = call[t].v
  BY <1>1 DEF CallRec
<1>3. call' = [call EXCEPT ![t] = r]
  BY Zenon DEF I!Goto
<1> HIDE DEF r
<1>4. call'[t] = r /\ \A u \in Thread : u # t => call'[u] = call[u]
  BY Zenon, <1>1, <1>3
<1>5. call' \in [Thread -> CallState]
  BY Zenon, <1>1, <1>2, <1>3 DEF CallState
<1>6. QED BY Zenon, <1>2, <1>4, <1>5 DEF Moves

\* A step of a call outside the lock leaves the channel alone.
LEMMA OutsideStep ==
  ASSUME DiskInv, call' \in [Thread -> CallState], icalls' \in Nat, istop' \in {"run", "panic"},
         UNCHANGED <<lock, sema, expecting_interrupt, reg, hw, irq, idisk, last, fault, wild>>,
         \A u \in Thread : \/ call'[u] = call[u]
                           \/ call'[u].pc \notin HolderPC /\ call[u].pc \notin HolderPC
  PROVE  DiskInv'
<1>1. DiskTyped'
  BY Zenon DEF DiskInv, DiskTyped
<1>2. HolderRight'
  BY Zenon DEF DiskInv, HolderRight
<1>3. ASSUME NEW u \in Thread, call'[u].pc \in HolderPC PROVE Held(u)'
  <2>1. call'[u] = call[u] /\ Held(u)
    BY Zenon, <1>3 DEF DiskInv
  <2>2. Commanded(u) <=> Commanded(u)'
    BY Zenon, <2>1 DEF Commanded, Mine
  <2>3. Tokens(u) <=> Tokens(u)'
    BY Zenon, <2>1 DEF Tokens, Quiet, Token
  <2>4. QED BY Zenon, <2>1, <2>2, <2>3 DEF Held
<1>4. Contents <=> Contents'
  BY Zenon DEF Contents
<1>5. FreeQuiet <=> FreeQuiet'
  BY Zenon DEF FreeQuiet, Quiet
<1>6. QED BY Zenon, <1>1, <1>2, <1>3, <1>4, <1>5 DEF DiskInv

\* A step of the thread that has the lock: what the invariant says is about it
\* and the disk.
LEMMA HolderStep ==
  ASSUME DiskConstants, DiskInv, NEW t \in Thread, lock = t, NEW p \in HolderPC, Moves(t, p),
         lock' = lock, DiskTyped', Held(t)', ~fault' => Contents'
  PROVE  DiskInv'
<1>1. \A u \in Thread : u # t => call'[u].pc \notin HolderPC
  BY Zenon DEF DiskInv, HolderRight, Moves
<1>2. HolderRight'
  BY Zenon, <1>1 DEF HolderRight, Moves
<1>3. FreeQuiet'
  BY Zenon DEF FreeQuiet, DiskConstants
<1>4. QED BY Zenon, <1>1, <1>2, <1>3 DEF DiskInv

\* block_read and block_write begin.
LEMMA CallStep ==
  ASSUME DiskConstants, DiskInv, NEW t \in Thread, NEW op \in Op, NEW d \in Disk,
         NEW x \in 0 .. SIZE, I!Call(t, op, d, x)
  PROVE  DiskInv'
<1> DEFINE r == [pc |-> "lock", op |-> op, d |-> d, s |-> x, v |-> icalls']
<1>1. /\ call \in [Thread -> CallState] /\ icalls' \in Nat /\ call[t].pc = "idle"
      /\ UNCHANGED <<lock, sema, expecting_interrupt, reg, hw, irq, idisk, last, fault, wild>>
  BY DEF DiskInv, DiskTyped, I!Call, I!At, I!channel, I!drive
<1>2. CASE x >= SIZE
  <2>1. call' = call /\ istop' = "panic"
    BY Zenon, <1>2 DEF I!Call
  <2>2. QED BY Zenon, <1>1, <2>1, OutsideStep
<1>3. CASE ~(x >= SIZE)
  <2>1. call' = [call EXCEPT ![t] = r] /\ istop' = istop
    BY Zenon, <1>3 DEF I!Call
  <2>2. x \in I!Sector
    BY <1>3 DEF I!Sector, DiskConstants
  <2>3. r \in CallRec /\ r.pc = "lock"
    BY <1>1, <2>2 DEF CallRec, CallPC
  <2> HIDE DEF r
  <2>4. call' \in [Thread -> CallState]
    BY Zenon, <1>1, <2>1, <2>3 DEF CallState
  <2>5. \A u \in Thread : \/ call'[u] = call[u]
                          \/ call'[u].pc \notin HolderPC /\ call[u].pc \notin HolderPC
    <3>1. call'[t] = r /\ \A u \in Thread : u # t => call'[u] = call[u]
      BY Zenon, <1>1, <2>1
    <3>2. "lock" \notin HolderPC /\ "idle" \notin HolderPC
      BY DEF HolderPC
    <3>3. QED BY Zenon, <1>1, <2>3, <3>1, <3>2
  <2>6. istop' \in {"run", "panic"}
    BY Zenon, <2>1 DEF DiskInv, DiskTyped
  <2>7. QED BY Zenon, <1>1, <2>4, <2>5, <2>6, OutsideStep
<1>4. QED BY Zenon, <1>2, <1>3

\* lock_acquire returns.
LEMMA AcquireStep ==
  ASSUME DiskConstants, DiskInv, NEW t \in Thread, I!Acquire(t)
  PROVE  DiskInv'
<1>1. /\ DiskTyped /\ call[t].pc = "lock" /\ lock = I!NONE /\ lock' = t
      /\ UNCHANGED <<sema, expecting_interrupt, reg, hw, irq, idisk, last, fault, wild, icalls, istop>>
  BY Zenon DEF DiskInv, I!Acquire, I!At, I!drive, I!counts
<1>2. Moves(t, "select")
  <2>1. "lock" \in CallPC /\ "select" \in CallPC
    BY DEF CallPC
  <2>2. I!Goto(t, "select")
    BY Zenon DEF I!Acquire
  <2>3. QED BY Zenon, <1>1, <2>1, <2>2, GotoMoves
<1>3. \A u \in Thread : call[u].pc \notin HolderPC
  BY Zenon, <1>1 DEF DiskInv, HolderRight, DiskConstants
<1>4. DiskTyped'
  BY Zenon, <1>1, <1>2 DEF DiskTyped, Moves
<1>5. HolderRight'
  <2>1. "select" \in HolderPC
    BY DEF HolderPC
  <2>2. QED BY Zenon, <1>1, <1>2, <1>3, <2>1 DEF HolderRight, Moves
<1>6. Held(t)'
  <2>1. call'[t].pc = "select"
    BY Zenon, <1>2 DEF Moves
  <2>2. Commanded(t)'
    BY Zenon, <2>1 DEF Commanded
  <2>3. ~fault' /\ wild' = 0 => hw'.st = "idle" /\ Quiet'
    BY Zenon, <1>1 DEF DiskInv, FreeQuiet, Quiet
  <2>4. ~fault' /\ wild' = 0 => Tokens(t)'
    BY Zenon, <2>1, <2>3 DEF Tokens
  <2>5. QED BY Zenon, <2>1, <2>2, <2>4 DEF Held
<1>7. \A u \in Thread : call'[u].pc \in HolderPC => u = t
  BY Zenon, <1>2, <1>3 DEF Moves
<1>8. Contents <=> Contents'
  BY Zenon, <1>1 DEF Contents
<1>9. FreeQuiet'
  BY Zenon, <1>1 DEF FreeQuiet, DiskConstants
<1>10. QED BY Zenon, <1>1, <1>4, <1>5, <1>6, <1>7, <1>8, <1>9 DEF DiskInv

\* select_sector.
LEMMA SelectStep ==
  ASSUME DiskConstants, DiskInv, NEW t \in Thread, I!select_sector(t)
  PROVE  DiskInv'
<1>1. /\ DiskTyped /\ call[t].pc = "select" /\ hw.st = "idle" /\ irq' = FALSE
      /\ reg' = [d |-> call[t].d, s |-> call[t].s]
      /\ UNCHANGED <<lock, sema, expecting_interrupt, hw, idisk, last, fault, wild, icalls, istop>>
  BY Zenon DEF DiskInv, I!select_sector, I!At, I!channel, I!counts
<1>2. "select" \in CallPC /\ "issue" \in CallPC /\ "select" \in HolderPC /\ "issue" \in HolderPC
  BY DEF CallPC, HolderPC
<1>3. Moves(t, "issue")
  <2>1. I!Goto(t, "issue")
    BY Zenon DEF I!select_sector
  <2>2. QED BY Zenon, <1>1, <1>2, <2>1, GotoMoves
<1>4. lock = t /\ Held(t)
  BY Zenon, <1>1, <1>2 DEF DiskInv, HolderRight
<1>5. DiskTyped'
  BY Zenon, <1>1, <1>3 DEF DiskTyped, Moves
<1>6. Held(t)'
  <2>1. call'[t].pc = "issue" /\ call'[t].d = call[t].d /\ call'[t].s = call[t].s
    BY Zenon, <1>3 DEF Moves
  <2>2. Commanded(t)'
    BY Zenon, <2>1 DEF Commanded
  <2>3. ~fault' /\ wild' = 0 => Tokens(t)'
    BY Zenon, <1>1, <1>4, <2>1 DEF Held, Tokens, Quiet
  <2>4. QED BY Zenon, <1>1, <2>1, <2>2, <2>3 DEF Held
<1>7. Contents <=> Contents'
  BY Zenon, <1>1 DEF Contents
<1>8. QED BY Zenon, <1>1, <1>2, <1>3, <1>4, <1>5, <1>6, <1>7, HolderStep DEF DiskInv

\* issue_pio_command.
LEMMA IssueStep ==
  ASSUME DiskConstants, DiskInv, NEW t \in Thread, I!issue_pio_command(t)
  PROVE  DiskInv'
<1> DEFINE p == IF call[t].op = "read" THEN "down" ELSE "data"
<1>1. /\ DiskTyped /\ call[t].pc = "issue" /\ expecting_interrupt' = TRUE /\ I!Goto(t, p)
      /\ hw' = [st |-> "busy", op |-> call[t].op, d |-> reg.d, s |-> reg.s, v |-> 0]
      /\ UNCHANGED <<lock, sema, reg, irq, idisk, last, fault, wild, icalls, istop>>
  BY Zenon DEF DiskInv, I!issue_pio_command, I!At, I!counts
<1>2. "issue" \in CallPC /\ p \in CallPC /\ "issue" \in HolderPC /\ p \in HolderPC
  BY DEF CallPC, HolderPC
<1>3. lock = t /\ Held(t) /\ hw.st = "idle" /\ reg = [d |-> call[t].d, s |-> call[t].s]
  BY Zenon, <1>1, <1>2 DEF DiskInv, HolderRight, Held
<1>4. call[t] \in CallRec
  BY Zenon, <1>1, <1>2, CallFields
<1>5. /\ hw' \in Command /\ hw'.st = "busy" /\ hw'.op = call[t].op
      /\ hw'.d = call[t].d /\ hw'.s = call[t].s
  <2>1. reg.d = call[t].d /\ reg.s = call[t].s
    BY <1>3
  <2>2. call[t].op \in Op /\ call[t].d \in Disk /\ call[t].s \in I!Sector
    BY Zenon, <1>4, CallRecords
  <2>3. QED BY <1>1, <2>1, <2>2 DEF Command
<1>6. Moves(t, p)
  BY Zenon, <1>1, <1>2, GotoMoves
<1>7. /\ p # "unlock" /\ p # "issue" /\ p # "select"
      /\ call[t].op = "write" => p # "down"
      /\ call[t].op = "read" => p # "data"
  OBVIOUS
<1> HIDE DEF p
<1>8. DiskTyped'
  BY Zenon, <1>1, <1>5, <1>6 DEF DiskTyped, Moves
<1>9. call'[t].pc = p /\ call'[t].op = call[t].op /\ call'[t].d = call[t].d /\ call'[t].s = call[t].s
  BY Zenon, <1>6 DEF Moves
<1>10. Held(t)'
  <2>1. Commanded(t)'
    BY Zenon, <1>5, <1>7, <1>9 DEF Commanded, Mine
  <2>2. ~fault' /\ wild' = 0 => Quiet'
    BY Zenon, <1>1, <1>3 DEF Held, Tokens, Quiet
  <2>3. ~fault' /\ wild' = 0 => Tokens(t)'
    BY Zenon, <1>5, <1>7, <1>9, <2>2 DEF Tokens
  <2>4. QED BY Zenon, <1>1, <1>7, <1>9, <2>1, <2>3 DEF Held
<1>11. ~fault' => Contents'
  <2>1. ~fault => idisk = last
    BY Zenon, <1>3 DEF DiskInv, Contents
  <2>2. QED BY Zenon, <1>1, <1>5, <2>1 DEF Contents
<1>12. QED BY Zenon, <1>1, <1>2, <1>3, <1>6, <1>8, <1>10, <1>11, HolderStep

\* completion_wait returns.
LEMMA CompletedStep ==
  ASSUME DiskConstants, DiskInv, NEW t \in Thread, I!Completed(t)
  PROVE  DiskInv'
<1> DEFINE p == IF call[t].op = "read" THEN "data" ELSE "unlock"
<1>1. /\ DiskTyped /\ call[t].pc = "down" /\ sema > 0 /\ sema' = sema - 1 /\ I!Goto(t, p)
      /\ UNCHANGED <<lock, expecting_interrupt, reg, hw, irq, idisk, last, fault, wild, icalls, istop>>
  BY Zenon DEF DiskInv, I!Completed, I!At, I!drive, I!counts
<1>2. "down" \in CallPC /\ p \in CallPC /\ "down" \in HolderPC /\ p \in HolderPC
  BY DEF CallPC, HolderPC
<1>3. lock = t /\ Held(t) /\ call[t].op \in Op
  BY Zenon, <1>1, <1>2, CallFields, CallRecords DEF DiskInv, HolderRight
<1>4. Moves(t, p)
  BY Zenon, <1>1, <1>2, GotoMoves
<1>5. sema' \in Nat
  BY <1>1 DEF DiskTyped
<1>6. /\ call[t].op = "read" => p = "data"
      /\ call[t].op = "write" => p = "unlock"
      /\ p # "issue" /\ p # "select" /\ p # "down"
  OBVIOUS
<1> HIDE DEF p
<1>7. DiskTyped'
  BY Zenon, <1>1, <1>4, <1>5 DEF DiskTyped, Moves
<1>8. call'[t].pc = p /\ call'[t].op = call[t].op /\ call'[t].d = call[t].d /\ call'[t].s = call[t].s
  BY Zenon, <1>4 DEF Moves
<1>9. call[t].op = "read" \/ call[t].op = "write"
  BY Zenon, <1>3 DEF Op
<1>10. Held(t)'
  <2>1. ~fault => Commanded(t)
    BY Zenon, <1>3 DEF Held
  <2>2. ~fault' => Commanded(t)'
    <3>1. CASE call[t].op = "read"
      BY Zenon, <1>1, <1>6, <1>8, <2>1, <3>1 DEF Commanded, Mine
    <3>2. CASE call[t].op = "write"
      BY Zenon, <1>6, <1>8, <3>2 DEF Commanded
    <3>3. QED BY Zenon, <1>9, <3>1, <3>2
  <2>3. ASSUME ~fault, wild = 0
        PROVE  Tokens(t)'
    <3>1. Tokens(t) /\ Commanded(t)
      BY Zenon, <1>3, <2>3 DEF Held
    <3>2. ~irq /\ sema = 1 /\ hw.st \notin {"busy", "store"}
      BY <1>1, <3>1 DEF Tokens, Quiet, Token
    <3>3. Quiet'
      BY <1>1, <3>2 DEF Quiet
    <3>4. /\ call[t].op = "write" => hw.st = "idle"
          /\ call[t].op = "read" => hw.st = "drq"
      BY Zenon, <1>1, <3>1, <3>2 DEF Commanded, Mine
    <3>5. QED BY Zenon, <1>1, <1>6, <1>8, <1>9, <3>3, <3>4 DEF Tokens
  <2>4. QED BY Zenon, <1>1, <1>3, <1>6, <1>8, <2>2, <2>3 DEF Held
<1>11. Contents <=> Contents'
  BY Zenon, <1>1 DEF Contents
<1>12. QED BY Zenon, <1>1, <1>2, <1>3, <1>4, <1>7, <1>10, <1>11, HolderStep DEF DiskInv

\* input_sector: the data of a read.
LEMMA InputStep ==
  ASSUME DiskConstants, DiskInv, NEW t \in Thread, I!Data(t), hw.st = "drq", call[t].op = "read"
  PROVE  DiskInv'
<1>1. /\ DiskTyped /\ call[t].pc = "data" /\ hw' = [st |-> "idle"]
      /\ call' = [call EXCEPT ![t].pc = "unlock", ![t].v = hw.v]
      /\ UNCHANGED <<lock, sema, expecting_interrupt, reg, irq, idisk, last, fault, wild, icalls, istop>>
  BY Zenon DEF DiskInv, I!Data, I!At, I!channel, I!counts
<1>2. "data" \in CallPC /\ "unlock" \in CallPC /\ "data" \in HolderPC /\ "unlock" \in HolderPC
  BY DEF CallPC, HolderPC
<1>3. lock = t /\ Held(t) /\ call[t] \in CallRec /\ call \in [Thread -> CallState]
  BY Zenon, <1>1, <1>2, CallFields DEF DiskInv, HolderRight, DiskTyped
<1>4. hw.v \in Nat
  <2>1. hw \in Command
    BY Zenon, HwFields DEF DiskInv
  <2>2. QED BY <2>1 DEF Command
<1>5. Moves(t, "unlock") /\ call'[t].v = hw.v
  <2> DEFINE r == [[call[t] EXCEPT !.pc = "unlock"] EXCEPT !.v = hw.v]
  <2>1. /\ r \in CallRec /\ r.pc = "unlock" /\ r.op = call[t].op
        /\ r.d = call[t].d /\ r.s = call[t].s /\ r.v = hw.v
    BY Zenon, <1>2, <1>3, <1>4 DEF CallRec
  <2>2. call'[t] = r /\ \A u \in Thread : u # t => call'[u] = call[u]
    BY <1>1, <1>3
  <2>3. DOMAIN call' = Thread /\ call' = [u \in DOMAIN call' |-> call'[u]]
    BY Zenon, <1>1, <1>3
  <2> HIDE DEF r
  <2>4. \A u \in Thread : call'[u] \in CallState
    BY Zenon, <1>3, <2>1, <2>2 DEF CallState
  <2>5. call' \in [Thread -> CallState]
    BY Zenon, <2>3, <2>4
  <2>6. QED BY Zenon, <2>1, <2>2, <2>5 DEF Moves
<1>6. hw'.st = "idle"
  BY <1>1
<1>7. DiskTyped'
  BY Zenon, <1>1, <1>5 DEF DiskTyped, Moves
<1>8. /\ call'[t].pc = "unlock" /\ call'[t].op = "read"
      /\ call'[t].d = call[t].d /\ call'[t].s = call[t].s
  BY Zenon, <1>5 DEF Moves
<1>9. Held(t)'
  <2>1. ~fault => Mine(t) /\ Contents
    BY Zenon, <1>1, <1>3 DEF Held, Commanded, DiskInv
  <2>2. ~fault => hw.v = last[<<call[t].d, call[t].s>>]
    BY Zenon, <2>1 DEF Mine, Contents
  <2>3. ~fault => Commanded(t)'
    BY Zenon, <1>1, <1>5, <1>8, <2>2 DEF Commanded
  <2>4. ~fault /\ wild = 0 => Quiet
    BY Zenon, <1>1, <1>3 DEF Held, Tokens
  <2>5. ~fault /\ wild = 0 => Tokens(t)'
    BY Zenon, <1>1, <1>6, <1>8, <2>4 DEF Tokens, Quiet
  <2>6. QED BY Zenon, <1>1, <1>3, <1>8, <2>3, <2>5 DEF Held
<1>10. ~fault' => Contents'
  <2>1. ~fault => idisk = last
    BY Zenon DEF DiskInv, Contents
  <2>2. QED BY Zenon, <1>1, <1>6, <2>1 DEF Contents
<1>11. QED BY Zenon, <1>1, <1>2, <1>3, <1>5, <1>7, <1>9, <1>10, HolderStep

\* output_sector: the data of a write.
LEMMA OutputStep ==
  ASSUME DiskConstants, DiskInv, NEW t \in Thread, I!Data(t), hw.st = "drq", call[t].op # "read"
  PROVE  DiskInv'
<1> DEFINE x == <<call[t].d, call[t].s>>
<1>1. /\ DiskTyped /\ call[t].pc = "data" /\ hw' = [hw EXCEPT !.st = "store", !.v = call[t].v]
      /\ last' = [last EXCEPT ![x] = call[t].v] /\ I!Goto(t, "down")
      /\ UNCHANGED <<lock, sema, expecting_interrupt, reg, irq, idisk, fault, wild, icalls, istop>>
  BY Zenon DEF DiskInv, I!Data, I!At, I!channel, I!counts
<1>2. "data" \in CallPC /\ "down" \in CallPC /\ "data" \in HolderPC /\ "down" \in HolderPC
  BY DEF CallPC, HolderPC
<1>3. lock = t /\ Held(t) /\ call[t] \in CallRec
  BY Zenon, <1>1, <1>2, CallFields DEF DiskInv, HolderRight
<1>4. call[t].v \in Nat /\ call[t].d \in Disk /\ call[t].s \in I!Sector
  BY Zenon, <1>3, CallRecords
<1>5. x \in Disk \X I!Sector /\ last \in [Disk \X I!Sector -> Nat]
  BY <1>1, <1>4 DEF DiskTyped
<1>6. /\ hw' \in Command /\ hw'.st = "store" /\ hw'.v = call[t].v
      /\ hw'.d = hw.d /\ hw'.s = hw.s
  <2>1. hw \in Command
    BY Zenon, HwFields DEF DiskInv
  <2>2. QED BY Zenon, <1>1, <1>4, <2>1 DEF Command
<1>7. Moves(t, "down")
  BY Zenon, <1>1, <1>2, GotoMoves
<1> HIDE DEF x
<1>8. last' \in [Disk \X I!Sector -> Nat] /\ last'[x] = call[t].v
  BY Zenon, <1>1, <1>4, <1>5
<1>9. DiskTyped'
  BY Zenon, <1>1, <1>6, <1>7, <1>8 DEF DiskTyped, Moves
<1>10. call'[t].pc = "down" /\ call'[t].op # "read"
  BY Zenon, <1>7 DEF Moves
<1>11. Held(t)'
  <2>1. Commanded(t)'
    BY Zenon, <1>6, <1>10 DEF Commanded
  <2>2. ~fault /\ wild = 0 => Quiet
    BY Zenon, <1>1, <1>3 DEF Held, Tokens
  <2>3. ~fault /\ wild = 0 => Tokens(t)'
    BY Zenon, <1>1, <1>6, <1>10, <2>2 DEF Tokens, Quiet
  <2>4. QED BY Zenon, <1>1, <1>3, <1>10, <2>1, <2>3 DEF Held
<1>12. ~fault' => Contents'
  <2> SUFFICES ASSUME ~fault PROVE Contents'
    BY Zenon, <1>1
  <2>1. hw.d = call[t].d /\ hw.s = call[t].s
    BY Zenon, <1>1, <1>3 DEF Held, Commanded, Mine
  <2>2. idisk = last
    BY Zenon DEF DiskInv, Contents
  <2>3. <<hw'.d, hw'.s>> = x
    BY Zenon, <1>6, <2>1 DEF x
  <2>4. QED BY Zenon, <1>1, <1>6, <1>8, <2>2, <2>3 DEF Contents
<1>13. QED BY Zenon, <1>1, <1>2, <1>3, <1>7, <1>9, <1>11, <1>12, HolderStep

\* Data, whatever the disk says.
LEMMA DataStep ==
  ASSUME DiskConstants, DiskInv, NEW t \in Thread, I!Data(t)
  PROVE  DiskInv'
<1>1. CASE hw.st # "drq"
  <2>1. /\ call' = call /\ istop' = "panic" /\ icalls' = icalls
        /\ UNCHANGED <<lock, sema, expecting_interrupt, reg, hw, irq, idisk, last, fault, wild>>
    BY Zenon, <1>1 DEF I!Data, I!channel, I!counts
  <2>2. call \in [Thread -> CallState] /\ icalls \in Nat
    BY Zenon DEF DiskInv, DiskTyped
  <2>3. QED BY Zenon, <2>1, <2>2, OutsideStep
<1>2. QED BY Zenon, <1>1, InputStep, OutputStep

\* lock_release.
LEMMA UnlockStep ==
  ASSUME DiskConstants, DiskInv, NEW t \in Thread, I!Unlock(t)
  PROVE  DiskInv'
<1>1. /\ DiskTyped /\ call[t].pc = "unlock" /\ lock' = I!NONE
      /\ UNCHANGED <<sema, expecting_interrupt, reg, hw, irq, idisk, last, fault, wild, icalls, istop>>
  BY Zenon DEF DiskInv, I!Unlock, I!At, I!drive
<1>2. "unlock" \in CallPC /\ "load" \in CallPC /\ "unlock" \in HolderPC
  BY DEF CallPC, HolderPC
<1>3. lock = t /\ Held(t) /\ call \in [Thread -> CallState]
  BY Zenon, <1>1, <1>2 DEF DiskInv, HolderRight, DiskTyped
<1>4. /\ call' \in [Thread -> CallState] /\ call'[t].pc \in {"load", "idle"}
      /\ \A u \in Thread : u # t => call'[u] = call[u]
  <2>1. CASE call[t].op = "read"
    <3>1. I!Goto(t, "load")
      BY Zenon, <2>1 DEF I!Unlock
    <3>2. Moves(t, "load")
      BY Zenon, <1>1, <1>2, <3>1, GotoMoves
    <3>3. QED BY Zenon, <3>2 DEF Moves
  <2>2. CASE call[t].op # "read"
    <3>1. call' = [call EXCEPT ![t] = I!Idle]
      BY Zenon, <2>2 DEF I!Unlock
    <3>2. QED BY Zenon, <1>3, <3>1, CallRecords DEF CallState
  <2>3. QED BY Zenon, <2>1, <2>2
<1>5. \A u \in Thread : call'[u].pc \notin HolderPC
  <2>1. call'[t].pc \notin HolderPC
    BY <1>4 DEF HolderPC
  <2>2. QED BY Zenon, <1>3, <1>4, <2>1 DEF DiskInv, HolderRight
<1>6. DiskTyped'
  BY Zenon, <1>1, <1>4 DEF DiskTyped
<1>7. HolderRight'
  BY Zenon, <1>1, <1>5 DEF HolderRight, DiskConstants
<1>8. Contents <=> Contents'
  BY Zenon, <1>1 DEF Contents
<1>9. ~fault' /\ wild' = 0 => FreeQuiet'
  <2>1. ~fault /\ wild = 0 => hw.st = "idle" /\ Quiet
    BY Zenon, <1>1, <1>3 DEF Held, Tokens
  <2>2. QED BY Zenon, <1>1, <2>1 DEF FreeQuiet, Quiet
<1>10. QED BY Zenon, <1>1, <1>5, <1>6, <1>7, <1>8, <1>9 DEF DiskInv

\* A step of the disk leaves the calls and the lock alone.
LEMMA DeviceStep ==
  ASSUME DiskInv, DiskTyped', UNCHANGED <<call, lock>>,
         \A t \in Thread : call[t].pc \in HolderPC => Held(t)',
         ~fault' => Contents', ~fault' /\ wild' = 0 => FreeQuiet'
  PROVE  DiskInv'
<1>1. HolderRight'
  BY Zenon DEF DiskInv, HolderRight
<1>2. QED BY Zenon, <1>1 DEF DiskInv

\* Acknowledging an interrupt makes it a unit of the semaphore.
LEMMA InterruptStep ==
  ASSUME DiskConstants, DiskInv, I!interrupt_handler
  PROVE  DiskInv'
<1>1. /\ DiskTyped /\ irq /\ irq' = FALSE /\ sema' = (IF expecting_interrupt THEN sema + 1 ELSE sema)
      /\ UNCHANGED <<call, lock, expecting_interrupt, reg, hw, idisk, last, fault, wild, icalls, istop>>
  BY Zenon DEF DiskInv, I!interrupt_handler, I!counts
<1>2. sema \in Nat /\ sema' \in Nat /\ (sema = 0 /\ expecting_interrupt => sema' = 1)
  BY <1>1 DEF DiskTyped
<1>3. DiskTyped'
  BY Zenon, <1>1, <1>2 DEF DiskTyped
<1>4. ASSUME NEW t \in Thread, call[t].pc \in HolderPC PROVE Held(t)'
  <2>1. Held(t)
    BY Zenon, <1>4 DEF DiskInv
  <2>2. Commanded(t) <=> Commanded(t)'
    BY Zenon, <1>1 DEF Commanded, Mine
  <2>3. ~fault /\ wild = 0 => Tokens(t)'
    BY Zenon, <1>1, <1>2, <2>1 DEF Held, Tokens, Quiet, Token
  <2>4. QED BY Zenon, <1>1, <2>1, <2>2, <2>3 DEF Held
<1>5. Contents <=> Contents'
  BY Zenon, <1>1 DEF Contents
<1>6. ~fault' /\ wild' = 0 => FreeQuiet'
  BY Zenon, <1>1 DEF DiskInv, FreeQuiet, Quiet
<1>7. ~fault' => Contents'
  BY Zenon, <1>1, <1>5 DEF DiskInv
<1>8. QED BY Zenon, <1>1, <1>3, <1>4, <1>6, <1>7, DeviceStep

\* The disk is ready for the data of a command, or has it.
LEMMA ReadyStep ==
  ASSUME DiskConstants, DiskInv, I!Ready
  PROVE  DiskInv'
<1> DEFINE w == IF hw.op = "read" THEN idisk[<<hw.d, hw.s>>] ELSE 0
<1>1. /\ DiskTyped /\ hw.st = "busy" /\ hw' = [hw EXCEPT !.st = "drq", !.v = w]
      /\ irq' = (irq \/ hw.op = "read")
      /\ UNCHANGED <<call, lock, sema, expecting_interrupt, reg, idisk, last, fault, wild, icalls, istop>>
  BY Zenon DEF DiskInv, I!Ready, I!channel, I!counts
<1>2. hw \in Command
  BY Zenon, <1>1, HwFields
<1>3. hw.d \in Disk /\ hw.s \in I!Sector /\ hw.op \in Op
  BY <1>2 DEF Command
<1>4. w \in Nat
  BY <1>1, <1>3 DEF DiskTyped
<1>5. hw.op = "read" => w = idisk[<<hw.d, hw.s>>]
  OBVIOUS
<1> HIDE DEF w
<1>6. /\ hw' \in Command /\ hw'.st = "drq" /\ hw'.op = hw.op
      /\ hw'.d = hw.d /\ hw'.s = hw.s /\ hw'.v = w
  BY Zenon, <1>1, <1>2, <1>4 DEF Command
<1>7. irq' \in BOOLEAN
  BY Zenon, <1>1 DEF DiskTyped
<1>8. DiskTyped'
  BY Zenon, <1>1, <1>6, <1>7 DEF DiskTyped
<1>9. ASSUME NEW t \in Thread, call[t].pc \in HolderPC PROVE Held(t)'
  <2>1. Held(t)
    BY Zenon, <1>9 DEF DiskInv
  <2>2. ~fault => Commanded(t)'
    BY Zenon, <1>1, <1>6, <2>1 DEF Held, Commanded, Mine
  <2>3. ~fault /\ wild = 0 => Tokens(t)'
    <3> SUFFICES ASSUME ~fault, wild = 0 PROVE Tokens(t)'
      BY Zenon
    <3>1. Commanded(t) /\ Tokens(t)
      BY Zenon, <2>1 DEF Held
    <3>2. call[t].pc \notin {"select", "issue", "unlock"}
      BY Zenon, <1>1, <3>1 DEF Tokens
    <3>3. call[t].pc = "data" => Quiet' /\ hw.op # "read"
      BY Zenon, <1>1, <3>1 DEF Tokens, Commanded, Mine, Quiet
    <3>4. call[t].pc = "down" => Token'
      <4>1. call[t].pc = "down" => call[t].op # "write"
        BY Zenon, <1>1, <3>1 DEF Commanded
      <4>2. call[t].pc = "down" => call[t].op \in Op
        <5>1. call[t].pc = "down" => call[t].pc \in CallPC
          BY Zenon DEF CallPC
        <5>2. QED BY Zenon, <1>1, <5>1, CallFields, CallRecords
      <4>3. call[t].pc = "down" => hw.op = "read" /\ Quiet
        BY Zenon, <1>1, <3>1, <4>1, <4>2 DEF Op, Commanded, Mine, Tokens
      <4>4. QED BY Zenon, <1>1, <4>3 DEF Token, Quiet
    <3>5. QED BY Zenon, <1>1, <1>6, <3>2, <3>3, <3>4 DEF Tokens
  <2>4. QED BY Zenon, <1>1, <2>1, <2>2, <2>3 DEF Held
<1>10. ~fault' => Contents'
  <2>1. ~fault => idisk = last
    BY Zenon, <1>1 DEF DiskInv, Contents
  <2>2. QED BY Zenon, <1>1, <1>5, <1>6, <2>1 DEF Contents
<1>11. ~fault' /\ wild' = 0 => FreeQuiet'
  BY Zenon, <1>1 DEF DiskInv, FreeQuiet
<1>12. QED BY Zenon, <1>1, <1>8, <1>9, <1>10, <1>11, DeviceStep

\* The disk has stored the data of a write.
LEMMA StoredStep ==
  ASSUME DiskConstants, DiskInv, I!Stored
  PROVE  DiskInv'
<1>1. /\ DiskTyped /\ hw.st = "store" /\ hw' = [st |-> "idle"] /\ irq' = TRUE
      /\ idisk' = [idisk EXCEPT ![<<hw.d, hw.s>>] = hw.v]
      /\ UNCHANGED <<call, lock, sema, expecting_interrupt, reg, last, fault, wild, icalls, istop>>
  BY Zenon DEF DiskInv, I!Stored, I!channel, I!counts
<1>2. hw \in Command
  BY Zenon, <1>1, HwFields
<1>3. <<hw.d, hw.s>> \in Disk \X I!Sector /\ hw.v \in Nat
  BY <1>2 DEF Command
<1>4. idisk' \in [Disk \X I!Sector -> Nat]
  BY Zenon, <1>1, <1>3 DEF DiskTyped
<1>5. hw'.st = "idle"
  BY <1>1
<1>6. DiskTyped'
  BY Zenon, <1>1, <1>4 DEF DiskTyped
<1>7. ASSUME NEW t \in Thread, call[t].pc \in HolderPC PROVE Held(t)'
  <2>1. Held(t)
    BY Zenon, <1>7 DEF DiskInv
  <2>2. ~fault => Commanded(t)'
    BY Zenon, <1>1, <1>5, <2>1 DEF Held, Commanded, Mine
  <2>3. ~fault /\ wild = 0 => Tokens(t)'
    BY Zenon, <1>1, <1>5, <2>1 DEF Held, Tokens, Commanded, Mine, Quiet, Token
  <2>4. QED BY Zenon, <1>1, <2>1, <2>2, <2>3 DEF Held
<1>8. ~fault' => Contents'
  <2>1. ~fault => idisk' = last
    BY Zenon, <1>1 DEF DiskInv, Contents
  <2>2. QED BY Zenon, <1>1, <1>5, <2>1 DEF Contents
<1>9. ~fault' /\ wild' = 0 => FreeQuiet'
  BY Zenon, <1>1 DEF DiskInv, FreeQuiet
<1>10. QED BY Zenon, <1>1, <1>6, <1>7, <1>8, <1>9, DeviceStep

\* A failed command, and an interrupt that no command causes, end what the
\* invariant says of the data, or of the completions.
LEMMA FailsStep ==
  ASSUME DiskConstants, DiskInv, I!Fails
  PROVE  DiskInv'
<1>1. /\ DiskTyped /\ hw.st \in {"busy", "store"} /\ hw' = [st |-> "idle"] /\ irq' = TRUE /\ fault' = TRUE
      /\ UNCHANGED <<call, lock, sema, expecting_interrupt, reg, idisk, last, wild, icalls, istop>>
  BY Zenon DEF DiskInv, I!Fails, I!channel, I!counts
<1>2. DiskTyped'
  BY Zenon, <1>1 DEF DiskTyped
<1>3. ASSUME NEW t \in Thread, call[t].pc \in HolderPC PROVE Held(t)'
  <2>1. Held(t)
    BY Zenon, <1>3 DEF DiskInv
  <2>2. QED BY Zenon, <1>1, <2>1 DEF Held
<1>4. QED BY Zenon, <1>1, <1>2, <1>3, DeviceStep
\* A spurious interrupt: from then on the tokens say nothing.
LEMMA WildStep ==
  ASSUME DiskConstants, DiskInv, I!Wild
  PROVE  DiskInv'
<1>1. /\ DiskTyped /\ irq' = TRUE /\ wild' = wild + 1
      /\ UNCHANGED <<call, lock, sema, expecting_interrupt, reg, hw, idisk, last, fault, icalls, istop>>
  BY Zenon DEF DiskInv, I!Wild, I!channel
<1>2. wild' \in Nat /\ wild' # 0
  BY <1>1 DEF DiskTyped
<1>3. DiskTyped'
  BY Zenon, <1>1, <1>2 DEF DiskTyped
<1>4. ASSUME NEW t \in Thread, call[t].pc \in HolderPC PROVE Held(t)'
  <2>1. Held(t)
    BY Zenon, <1>4 DEF DiskInv
  <2>2. Commanded(t) <=> Commanded(t)'
    BY Zenon, <1>1 DEF Commanded, Mine
  <2>3. QED BY Zenon, <1>1, <1>2, <2>1, <2>2 DEF Held
<1>5. Contents <=> Contents'
  BY Zenon, <1>1 DEF Contents
<1>6. ~fault' => Contents'
  BY Zenon, <1>1, <1>5 DEF DiskInv
<1>7. QED BY Zenon, <1>1, <1>2, <1>3, <1>4, <1>6, DeviceStep

\* The count of reads, outside the lock.
LEMMA CountStep ==
  ASSUME DiskConstants, DiskInv, NEW t \in Thread, I!LoadCount(t) \/ I!StoreCount(t), read_cnt \in Nat
  PROVE  DiskInv'
<1> DEFINE r == [pc |-> "store", cnt |-> read_cnt]
<1>1. /\ DiskTyped /\ call[t].pc \in {"load", "store"}
      /\ call' = [call EXCEPT ![t] = r] \/ call' = [call EXCEPT ![t] = I!Idle]
      /\ UNCHANGED <<lock, sema, expecting_interrupt, reg, hw, irq, idisk, last, fault, wild, icalls, istop>>
  BY Zenon DEF DiskInv, I!LoadCount, I!StoreCount, I!At, I!channel, I!drive, I!counts
<1>2. r \in CallState /\ r.pc = "store"
  BY DEF CallState, CountRec
<1>3. I!Idle \in CallState /\ I!Idle.pc = "idle"
  BY Zenon, CallRecords DEF CallState
<1> HIDE DEF r
<1>4. "load" \notin HolderPC /\ "store" \notin HolderPC /\ "idle" \notin HolderPC
  BY DEF HolderPC
<1>5. call \in [Thread -> CallState] /\ icalls \in Nat /\ istop \in {"run", "panic"}
  BY Zenon, <1>1 DEF DiskTyped
<1>6. /\ call' \in [Thread -> CallState]
      /\ \A u \in Thread : u # t => call'[u] = call[u]
      /\ call'[t] = r \/ call'[t] = I!Idle
  BY Zenon, <1>1, <1>2, <1>3, <1>5
<1>7. call'[t].pc \notin HolderPC /\ call[t].pc \notin HolderPC
  BY Zenon, <1>1, <1>2, <1>3, <1>4, <1>6
<1>8. QED BY Zenon, <1>1, <1>5, <1>6, <1>7, OutsideStep
-----------------------------------------------------------------------------
\* The threads that have read and have not yet counted it.
Counters == {t \in Thread : call[t].pc \in {"load", "store"}}
\* Each of them still adds one to the count, or loses what another one added.
CountsInv ==
  /\ read_cnt \in Nat /\ reads \in Nat /\ read_cnt + Cardinality(Counters) <= reads
  /\ \A t \in Thread : call[t].pc = "store" => call[t].cnt + Cardinality(Counters) <= reads
\* The facts about the size of a set of threads that the argument needs.
Sizes ==
  /\ Cardinality({}) = 0
  /\ \A S \in SUBSET Thread : Cardinality(S) \in Nat
  /\ \A S \in SUBSET Thread : \A t \in Thread \ S : Cardinality(S \cup {t}) = Cardinality(S) + 1
  /\ \A S \in SUBSET Thread : \A t \in S : Cardinality(S \ {t}) = Cardinality(S) - 1

\* A step that starts, ends or moves no count.
LEMMA CountsStay ==
  ASSUME CountsInv, UNCHANGED <<read_cnt, reads>>,
         \A u \in Thread : \/ call'[u] = call[u]
                           \/ call'[u].pc \notin {"load", "store"} /\ call[u].pc \notin {"load", "store"}
  PROVE  CountsInv'
<1>1. Counters' = Counters
  BY Zenon DEF Counters
<1>2. ASSUME NEW u \in Thread, call'[u].pc = "store"
      PROVE  call'[u].cnt + Cardinality(Counters) <= reads
  <2>1. call'[u] = call[u]
    BY Zenon, <1>2
  <2>2. QED BY Zenon, <1>2, <2>1 DEF CountsInv
<1>3. QED BY Zenon, <1>1, <1>2 DEF CountsInv

\* A step of a call up to its return from the driver.
LEMMA CallCounts ==
  ASSUME DiskConstants, DiskTyped, NEW t \in Thread,
         \/ I!Acquire(t) \/ I!select_sector(t) \/ I!issue_pio_command(t) \/ I!Completed(t) \/ I!Data(t)
  PROVE  /\ UNCHANGED <<read_cnt, reads>>
         /\ \A u \in Thread : \/ call'[u] = call[u]
                              \/ /\ call'[u].pc \notin {"load", "store"}
                                 /\ call[u].pc \notin {"load", "store"}
<1> DEFINE Early == {"lock", "select", "issue", "down", "data", "unlock"}
<1>1. Early \subseteq CallPC /\ "load" \notin Early /\ "store" \notin Early
  BY DEF CallPC
<1>2. ASSUME NEW p \in Early, I!Goto(t, p), call[t].pc \in Early
      PROVE  \A u \in Thread : \/ call'[u] = call[u]
                               \/ call'[u].pc \in Early /\ call[u].pc \in Early
  <2>1. Moves(t, p)
    BY Zenon, <1>1, <1>2, GotoMoves
  <2>2. QED BY Zenon, <1>2, <2>1 DEF Moves
<1>3. CASE I!Acquire(t)
  <2>1. "select" \in Early /\ "lock" \in Early
    BY Zenon
  <2> HIDE DEF Early
  <2>2. I!Goto(t, "select") /\ call[t].pc \in Early /\ UNCHANGED <<read_cnt, reads>>
    BY Zenon, <1>3, <2>1 DEF I!Acquire, I!At, I!counts
  <2>3. QED BY Zenon, <1>1, <1>2, <2>1, <2>2
<1>4. CASE I!select_sector(t)
  <2>1. "select" \in Early /\ "issue" \in Early
    BY Zenon
  <2> HIDE DEF Early
  <2>2. I!Goto(t, "issue") /\ call[t].pc \in Early /\ UNCHANGED <<read_cnt, reads>>
    BY Zenon, <1>4, <2>1 DEF I!select_sector, I!At, I!counts
  <2>3. QED BY Zenon, <1>1, <1>2, <2>1, <2>2
<1>5. CASE I!issue_pio_command(t)
  <2> DEFINE p == IF call[t].op = "read" THEN "down" ELSE "data"
  <2>1. p \in Early /\ "issue" \in Early
    OBVIOUS
  <2>2. I!Goto(t, p) /\ call[t].pc = "issue" /\ UNCHANGED <<read_cnt, reads>>
    BY Zenon, <1>5 DEF I!issue_pio_command, I!At, I!counts
  <2> HIDE DEF Early, p
  <2>3. QED BY Zenon, <1>1, <1>2, <2>1, <2>2
<1>6. CASE I!Completed(t)
  <2> DEFINE p == IF call[t].op = "read" THEN "data" ELSE "unlock"
  <2>1. p \in Early /\ "down" \in Early
    OBVIOUS
  <2>2. I!Goto(t, p) /\ call[t].pc = "down" /\ UNCHANGED <<read_cnt, reads>>
    BY Zenon, <1>6 DEF I!Completed, I!At, I!counts
  <2> HIDE DEF Early, p
  <2>3. QED BY Zenon, <1>1, <1>2, <2>1, <2>2
<1>7. CASE I!Data(t)
  <2>1. "down" \in Early /\ "data" \in Early
    BY Zenon
  <2> HIDE DEF Early
  <2>2. call[t].pc = "data" /\ UNCHANGED <<read_cnt, reads>>
    BY Zenon, <1>7 DEF I!Data, I!At, I!counts
  <2>3. \/ call' = call \/ I!Goto(t, "down")
        \/ call' = [call EXCEPT ![t].pc = "unlock", ![t].v = hw.v]
    BY Zenon, <1>7 DEF I!Data
  <2>4. CASE call' = [call EXCEPT ![t].pc = "unlock", ![t].v = hw.v]
    <3>1. call \in [Thread -> CallState] /\ call[t] \in CallRec
      BY Zenon, <1>1, <2>1, <2>2, CallFields DEF DiskTyped
    <3>2. call'[t].pc = "unlock"
      BY <2>4, <3>1 DEF CallRec
    <3>3. \A u \in Thread : u # t => call'[u] = call[u]
      BY <2>4, <3>1
    <3>4. QED BY Zenon, <2>2, <3>2, <3>3
  <2>5. QED BY Zenon, <1>1, <1>2, <2>1, <2>2, <2>3, <2>4
<1>8. QED BY Zenon, <1>3, <1>4, <1>5, <1>6, <1>7

\* A read that is done and not counted.
LEMMA UnlockCounts ==
  ASSUME DiskConstants, Sizes, DiskTyped, CountsInv, NEW t \in Thread, I!Unlock(t)
  PROVE  CountsInv'
<1>1. call[t].pc = "unlock" /\ read_cnt' = read_cnt /\ call \in [Thread -> CallState]
  BY Zenon DEF I!Unlock, I!At, DiskTyped
<1>2. CASE call[t].op = "read"
  <2>1. I!Goto(t, "load") /\ reads' = reads + 1
    BY Zenon, <1>2 DEF I!Unlock
  <2>2. "unlock" \in CallPC /\ "load" \in CallPC
    BY DEF CallPC
  <2>3. call'[t].pc = "load" /\ \A u \in Thread : u # t => call'[u] = call[u]
    BY Zenon, <1>1, <2>1, <2>2, GotoMoves DEF Moves
  <2>4. Counters' = Counters \cup {t} /\ t \in Thread \ Counters /\ Counters \in SUBSET Thread
    BY Zenon, <1>1, <2>3 DEF Counters
  <2>5. Cardinality(Counters') = Cardinality(Counters) + 1 /\ Cardinality(Counters) \in Nat
    BY Zenon, <2>4 DEF Sizes
  <2>6. read_cnt' \in Nat /\ reads' \in Nat /\ read_cnt' + Cardinality(Counters') <= reads'
    BY <1>1, <2>1, <2>5 DEF CountsInv
  <2>7. ASSUME NEW u \in Thread, call'[u].pc = "store"
        PROVE  call'[u].cnt + Cardinality(Counters') <= reads'
    <3>1. call'[u] = call[u]
      BY Zenon, <2>3, <2>7
    <3>2. call[u].cnt \in Nat
      BY Zenon, <2>7, <3>1, CallFields, CallRecords
    <3>3. call[u].cnt + Cardinality(Counters) <= reads
      BY Zenon, <2>7, <3>1 DEF CountsInv
    <3>4. reads \in Nat
      BY Zenon DEF CountsInv
    <3>5. QED BY <2>1, <2>5, <3>1, <3>2, <3>3, <3>4
  <2>8. QED BY Zenon, <2>6, <2>7 DEF CountsInv
<1>3. CASE call[t].op # "read"
  <2>1. call' = [call EXCEPT ![t] = I!Idle] /\ reads' = reads
    BY Zenon, <1>3 DEF I!Unlock
  <2>2. call'[t].pc = "idle" /\ \A u \in Thread : u # t => call'[u] = call[u]
    BY Zenon, <1>1, <2>1, CallRecords
  <2>3. QED BY Zenon, <1>1, <2>1, <2>2, CountsStay
<1>4. QED BY Zenon, <1>2, <1>3

\* The two steps of read_cnt++.
LEMMA LoadCounts ==
  ASSUME Sizes, DiskTyped, CountsInv, NEW t \in Thread, I!LoadCount(t)
  PROVE  CountsInv'
<1> DEFINE r == [pc |-> "store", cnt |-> read_cnt]
<1>1. /\ call[t].pc = "load" /\ UNCHANGED <<read_cnt, reads>> /\ call \in [Thread -> CallState]
      /\ call' = [call EXCEPT ![t] = r]
  BY Zenon DEF I!LoadCount, I!At, DiskTyped, I!counts
<1>2. r.pc = "store" /\ r.cnt = read_cnt
  OBVIOUS
<1> HIDE DEF r
<1>3. call'[t] = r /\ \A u \in Thread : u # t => call'[u] = call[u]
  BY Zenon, <1>1
<1>4. Counters' = Counters
  BY Zenon, <1>1, <1>2, <1>3 DEF Counters
<1>5. ASSUME NEW u \in Thread, call'[u].pc = "store"
      PROVE  call'[u].cnt + Cardinality(Counters) <= reads
  BY Zenon, <1>2, <1>3, <1>5 DEF CountsInv
<1>6. QED BY Zenon, <1>1, <1>4, <1>5 DEF CountsInv
\* The counter is stored, from what this call loaded, and the call is over.
LEMMA StoreCounts ==
  ASSUME Sizes, DiskTyped, CountsInv, NEW t \in Thread, I!StoreCount(t)
  PROVE  CountsInv'
<1>1. /\ call[t].pc = "store" /\ reads' = reads /\ call \in [Thread -> CallState]
      /\ read_cnt' = call[t].cnt + 1 /\ call' = [call EXCEPT ![t] = I!Idle]
  BY Zenon DEF I!StoreCount, I!At, DiskTyped
<1>2. call'[t].pc = "idle" /\ \A u \in Thread : u # t => call'[u] = call[u]
  BY Zenon, <1>1, CallRecords
<1>3. Counters' = Counters \ {t} /\ t \in Counters /\ Counters \in SUBSET Thread
  BY Zenon, <1>1, <1>2 DEF Counters
<1>4. Cardinality(Counters') = Cardinality(Counters) - 1 /\ Cardinality(Counters) \in Nat
  BY Zenon, <1>3 DEF Sizes
<1>5. call[t].cnt \in Nat /\ call[t].cnt + Cardinality(Counters) <= reads /\ reads \in Nat
  BY Zenon, <1>1, CallFields, CallRecords DEF CountsInv
<1>6. read_cnt' \in Nat /\ reads' \in Nat /\ read_cnt' + Cardinality(Counters') <= reads'
  BY <1>1, <1>4, <1>5
<1>7. ASSUME NEW u \in Thread, call'[u].pc = "store"
      PROVE  call'[u].cnt + Cardinality(Counters') <= reads'
  <2>1. call'[u] = call[u]
    BY Zenon, <1>2, <1>7
  <2>2. call[u].cnt \in Nat /\ call[u].cnt + Cardinality(Counters) <= reads
    BY Zenon, <1>7, <2>1, CallFields, CallRecords DEF CountsInv
  <2>3. QED BY <1>1, <1>4, <1>5, <2>1, <2>2
<1>8. QED BY Zenon, <1>6, <1>7 DEF CountsInv

-----------------------------------------------------------------------------
DriverInv == DiskInv /\ CountsInv

\* The driver starts with the disk idle and nothing expected.
LEMMA InitDriver ==
  ASSUME DiskConstants, Sizes, I!Init
  PROVE  DriverInv
<1>1. /\ call = [t \in Thread |-> I!Idle] /\ lock = I!NONE /\ sema = 0 /\ expecting_interrupt = FALSE
      /\ hw = [st |-> "idle"] /\ irq = FALSE /\ idisk = [x \in Disk \X I!Sector |-> 0] /\ last = idisk
      /\ read_cnt = 0 /\ icalls = 0 /\ reads = 0 /\ wild = 0 /\ fault = FALSE /\ istop = "run"
  BY Zenon DEF I!Init
<1>2. \A t \in Thread : call[t] = I!Idle
  BY Zenon, <1>1
<1>3. \A t \in Thread : call[t].pc = "idle"
  BY Zenon, <1>2, CallRecords
<1>4. "idle" \notin HolderPC /\ hw.st = "idle" /\ 0 \in Nat
  BY <1>1 DEF HolderPC
<1>5. call \in [Thread -> CallState] /\ idisk \in [Disk \X I!Sector -> Nat]
  BY Zenon, <1>1, <1>4 DEF CallState
<1>6. DiskTyped
  BY Zenon, <1>1, <1>4, <1>5 DEF DiskTyped
<1>7. HolderRight
  BY Zenon, <1>1, <1>3, <1>4 DEF HolderRight, DiskConstants
<1>8. Contents /\ FreeQuiet
  BY Zenon, <1>1, <1>4 DEF Contents, FreeQuiet, Quiet
<1>9. DiskInv
  BY Zenon, <1>3, <1>4, <1>6, <1>7, <1>8 DEF DiskInv
<1>10. Counters = {}
  BY Zenon, <1>3 DEF Counters
<1>11. Cardinality(Counters) = 0
  BY Zenon, <1>10 DEF Sizes
<1>12. read_cnt \in Nat /\ reads \in Nat /\ read_cnt + Cardinality(Counters) <= reads
  BY <1>1, <1>11
<1>13. CountsInv
  BY Zenon, <1>3, <1>12 DEF CountsInv
<1>14. QED BY Zenon, <1>9, <1>13 DEF DriverInv

\* A call that begins counts nothing.
LEMMA CallCount ==
  ASSUME DiskTyped, CountsInv, NEW t \in Thread, NEW op \in Op, NEW d \in Disk,
         NEW x \in 0 .. SIZE, I!Call(t, op, d, x)
  PROVE  CountsInv'
<1> DEFINE r == [pc |-> "lock", op |-> op, d |-> d, s |-> x, v |-> icalls']
<1>1. /\ call[t].pc = "idle" /\ UNCHANGED <<read_cnt, reads>> /\ call \in [Thread -> CallState]
      /\ call' = call \/ call' = [call EXCEPT ![t] = r]
  BY Zenon DEF I!Call, I!At, DiskTyped
<1>2. r.pc = "lock"
  OBVIOUS
<1> HIDE DEF r
<1>3. \A u \in Thread : call'[u] = call[u] \/ (u = t /\ call'[u].pc = "lock")
  BY Zenon, <1>1, <1>2
<1>4. QED BY Zenon, <1>1, <1>3, CountsStay

\* Every step of a thread preserves the invariant.
LEMMA DriveStep ==
  ASSUME DiskConstants, Sizes, DriverInv, NEW t \in Thread, I!Acquire(t) \/ I!Drive(t)
  PROVE  DriverInv'
<1>1. DiskInv /\ CountsInv /\ DiskTyped /\ read_cnt \in Nat
  BY Zenon DEF DriverInv, DiskInv, CountsInv
<1>2. DiskInv'
  BY Zenon, <1>1, AcquireStep, SelectStep, IssueStep, CompletedStep, DataStep, UnlockStep, CountStep
     DEF I!Drive
<1>3. CASE I!Acquire(t) \/ I!select_sector(t) \/ I!issue_pio_command(t) \/ I!Completed(t) \/ I!Data(t)
  <2>1. CountsInv'
    BY Zenon, <1>1, <1>3, CallCounts, CountsStay
  <2>2. QED BY Zenon, <1>2, <2>1 DEF DriverInv
<1>4. CASE I!Unlock(t) \/ I!LoadCount(t) \/ I!StoreCount(t)
  <2>1. CountsInv'
    BY Zenon, <1>1, <1>4, UnlockCounts, LoadCounts, StoreCounts
  <2>2. QED BY Zenon, <1>2, <2>1 DEF DriverInv
<1>5. QED BY Zenon, <1>3, <1>4 DEF I!Drive

\* And so does every step of the disk.
LEMMA HardwareStep ==
  ASSUME DiskConstants, DriverInv, I!interrupt_handler \/ I!Ready \/ I!Stored \/ I!Fails \/ I!Wild
  PROVE  DriverInv'
<1>1. DiskInv /\ CountsInv
  BY Zenon DEF DriverInv
<1>2. DiskInv'
  BY Zenon, <1>1, InterruptStep, ReadyStep, StoredStep, FailsStep, WildStep
<1>3. UNCHANGED <<call, read_cnt, reads>>
  BY Zenon DEF I!interrupt_handler, I!Ready, I!Stored, I!Fails, I!Wild, I!counts
<1>4. CountsInv'
  BY Zenon, <1>1, <1>3, CountsStay
<1>5. QED BY Zenon, <1>2, <1>4 DEF DriverInv

\* Every step keeps the invariant of the driver.
LEMMA NextDriver ==
  ASSUME DiskConstants, Sizes, DriverInv, [I!Next]_(I!vars)
  PROVE  DriverInv'
<1>1. DiskInv /\ CountsInv
  BY Zenon DEF DriverInv
<1>2. CASE UNCHANGED I!vars
  <2>1. /\ UNCHANGED <<call, lock, sema, expecting_interrupt, reg, hw, irq, idisk, last, fault, wild>>
        /\ UNCHANGED <<icalls, istop, read_cnt, reads>>
    BY Zenon, <1>2 DEF I!vars
  <2>2. call \in [Thread -> CallState] /\ icalls \in Nat /\ istop \in {"run", "panic"}
    BY Zenon, <1>1 DEF DiskInv, DiskTyped
  <2>3. DiskInv'
    BY Zenon, <1>1, <2>1, <2>2, OutsideStep
  <2>4. CountsInv'
    BY Zenon, <1>1, <2>1, CountsStay
  <2>5. QED BY Zenon, <2>3, <2>4 DEF DriverInv
<1>3. ASSUME NEW t \in Thread, NEW op \in Op, NEW d \in Disk, NEW x \in 0 .. SIZE, I!Call(t, op, d, x)
      PROVE  DriverInv'
  <2>1. DiskTyped
    BY Zenon, <1>1 DEF DiskInv
  <2>2. QED BY Zenon, <1>1, <1>3, <2>1, CallStep, CallCount DEF DriverInv
<1>4. QED BY Zenon, <1>2, <1>3, DriveStep, HardwareStep DEF I!Next, Op

\* A panic of the driver has one of its two causes.
LEMMA PanicCause ==
  ASSUME DiskConstants, DriverInv, [I!Next]_(I!vars), ~(UNCHANGED I!vars), istop' = "panic"
  PROVE  fault \/ \E t \in Thread, op \in {"read", "write"}, d \in Disk : I!Call(t, op, d, SIZE)
<1>1. DiskInv /\ "run" # "panic"
  BY DEF DriverInv
<1>2. ASSUME NEW t \in Thread, NEW op \in {"read", "write"}, NEW d \in Disk, NEW x \in 0 .. SIZE,
             I!Call(t, op, d, x)
      PROVE  x = SIZE
  <2>1. x >= SIZE
    BY Zenon, <1>1, <1>2 DEF I!Call, I!At
  <2>2. QED BY <2>1 DEF DiskConstants
<1>3. ASSUME NEW t \in Thread, I!Data(t)
      PROVE  fault
  <2>1. call[t].pc = "data" /\ hw.st # "busy" /\ hw.st # "drq"
    BY Zenon, <1>1, <1>3 DEF I!Data, I!At, I!wait_while_busy
  <2>2. "data" \in HolderPC
    BY DEF HolderPC
  <2>3. ~fault => Mine(t)
    BY Zenon, <1>1, <2>1, <2>2 DEF DiskInv, Held, Commanded
  <2>4. QED BY Zenon, <2>1, <2>3 DEF Mine
<1>4. ASSUME NEW t \in Thread, I!Acquire(t) \/ I!Drive(t)
      PROVE  fault
  BY Zenon, <1>1, <1>3, <1>4
     DEF I!Acquire, I!Drive, I!select_sector, I!issue_pio_command, I!Completed, I!Unlock, I!LoadCount, I!StoreCount, I!At
<1>5. ~(I!interrupt_handler \/ I!Ready \/ I!Stored \/ I!Fails \/ I!Wild)
  BY Zenon, <1>1 DEF I!interrupt_handler, I!Ready, I!Stored, I!Fails, I!Wild
<1>6. QED BY Zenon, <1>2, <1>4, <1>5 DEF I!Next
-----------------------------------------------------------------------------
\* The library's facts about finite sets.
Finite == INSTANCE FiniteSetTheorems

\* The operators of the library are the ones used here.
LEMMA SameOperators ==
  \A S : /\ Finite!IsFiniteSet(S) <=> IsFiniteSet(S)
         /\ Finite!Cardinality(S) = Cardinality(S)
<1>1. \A S : Finite!IsFiniteSet(S) <=> IsFiniteSet(S)
  BY Zenon DEF Finite!IsFiniteSet, IsFiniteSet
<1>2. \A S : Finite!Cardinality(S) = Cardinality(S)
  BY Zenon DEF Finite!Cardinality, Cardinality
<1>3. QED BY Zenon, <1>1, <1>2

\* Sets of threads have a size, which one thread more or less changes by one.
LEMMA SizesHold ==
  ASSUME IsFiniteSet(Thread)
  PROVE  Sizes
<1>1. \A S \in SUBSET Thread : Finite!IsFiniteSet(S) /\ Finite!Cardinality(S) \in Nat
  BY Zenon, SameOperators, Finite!FS_Subset, Finite!FS_CardinalityType
<1>2. ASSUME NEW S \in SUBSET Thread, NEW t \in Thread, t \notin S
      PROVE  Finite!Cardinality(S \cup {t}) = Finite!Cardinality(S) + 1
  BY Zenon, <1>1, <1>2, Finite!FS_AddElement
<1>3. ASSUME NEW S \in SUBSET Thread, NEW t \in Thread, t \in S
      PROVE  Finite!Cardinality(S \ {t}) = Finite!Cardinality(S) - 1
  BY Zenon, <1>1, <1>3, Finite!FS_RemoveElement
<1>4. Finite!Cardinality({}) = 0
  BY Zenon, Finite!FS_EmptySet
<1>5. QED BY ZenonT(30), <1>1, <1>2, <1>3, <1>4, SameOperators DEF Sizes

\* The invariant holds throughout.
LEMMA DriverInvariance ==
  ASSUME DiskConstants, IsFiniteSet(Thread)
  PROVE  I!Spec => []DriverInv
<1>1. I!Init => DriverInv
  BY Zenon, SizesHold, InitDriver
<1>2. DriverInv /\ [I!Next]_(I!vars) => DriverInv'
  BY Zenon, SizesHold, NextDriver
<1>3. QED BY <1>1, <1>2, PTL DEF I!Spec

\* The channel's lock is held by a thread inside ide_read or ide_write, whatever
\* the disk does, and completion_wait is never below zero.
THEOREM ChannelTyped ==
  ASSUME DiskConstants, IsFiniteSet(Thread)
  PROVE  I!Spec => []I!TypeOK
<1>1. DriverInv => I!TypeOK
  <2> SUFFICES ASSUME DriverInv PROVE I!TypeOK
    BY Zenon
  <2>1. DiskTyped /\ HolderRight /\ read_cnt \in Nat
    BY Zenon DEF DriverInv, DiskInv, CountsInv
  <2>2. hw.st \in {"idle", "busy", "drq", "store"}
    BY Zenon, <2>1, HwFields
  <2>3. lock # I!NONE => call[lock].pc \in {"select", "issue", "down", "data", "unlock"}
    BY Zenon, <2>1 DEF DiskTyped, HolderRight, HolderPC
  <2>4. QED BY Zenon, <2>1, <2>2, <2>3 DEF DiskTyped, I!TypeOK
<1>2. QED BY <1>1, DriverInvariance, PTL

\* ide_read returns what was last given to the disk for that sector, whatever
\* interrupts come, unless a command failed.
THEOREM ReadsGetLatest ==
  ASSUME DiskConstants, IsFiniteSet(Thread)
  PROVE  I!Spec => []I!ReadsLatest
<1>1. DriverInv => I!ReadsLatest
  <2>1. "unlock" \in HolderPC
    BY DEF HolderPC
  <2>2. QED BY Zenon, <2>1 DEF DriverInv, DiskInv, Held, Commanded, I!ReadsLatest
<1>2. QED BY <1>1, DriverInvariance, PTL

\* When no call has the channel, every write that ide_write returned from is on
\* the disk, unless a command failed or an interrupt came that nothing caused.
THEOREM WritesOnDisk ==
  ASSUME DiskConstants, IsFiniteSet(Thread)
  PROVE  I!Spec => []I!WritesAcknowledged
<1>1. DriverInv => I!WritesAcknowledged
  BY Zenon DEF DriverInv, DiskInv, FreeQuiet, Contents, I!WritesAcknowledged
<1>2. QED BY <1>1, DriverInvariance, PTL

\* block_read's count, a load and a store with no lock, is never above the reads
\* that were done: an increment can be lost, and none is made up.
THEOREM CountsNotAbove ==
  ASSUME DiskConstants, IsFiniteSet(Thread)
  PROVE  I!Spec => []I!CountsBounded
<1>1. ASSUME DriverInv PROVE I!CountsBounded
  <2>1. Counters \in SUBSET Thread /\ Sizes
    BY Zenon, SizesHold DEF Counters
  <2>2. Cardinality(Counters) \in Nat
    BY Zenon, <2>1 DEF Sizes
  <2>3. QED BY <1>1, <2>2 DEF DriverInv, CountsInv, I!CountsBounded
<1>2. DriverInv => I!CountsBounded
  BY Zenon, <1>1
<1>3. QED BY <1>2, DriverInvariance, PTL

\* The driver panics only for a sector past the end or after a failed command:
\* with no failure the disk is always ready when wait_while_busy returns.
THEOREM PanicsHaveCause ==
  ASSUME DiskConstants, IsFiniteSet(Thread)
  PROVE  I!Spec => I!PanicsOnlyBy
<1>1. DriverInv /\ [I!Next]_(I!vars) =>
        [istop' = "panic" => fault \/ \E t \in Thread, op \in {"read", "write"}, d \in Disk :
                                       I!Call(t, op, d, SIZE)]_(I!vars)
  BY Zenon, PanicCause
<1>2. QED BY <1>1, DriverInvariance, PTL DEF I!Spec, I!PanicsOnlyBy
=============================================================================
