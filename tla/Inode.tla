-------------------------------- MODULE Inode -------------------------------
(***************************************************************************)
(* filesys/inode.c over filesys/free-map.c: files of direct, indirect and  *)
(* doubly indirect blocks, grown by writing past their end, and the map of *)
(* free sectors, itself a file.  Calls are atomic here (nothing in the     *)
(* code makes them so); the buffer cache is transparent (module Cache);    *)
(* writes denied to executables are the matter of module FdTable.          *)
(*                                                                         *)
(* A step works on st = [used, disk, stop]: the free map in memory, the    *)
(* blocks on the device, and how the kernel stopped: "panic", or "wild"    *)
(* when it follows a pointer that nothing set or overwrites a block of     *)
(* another kind.  Nothing is modelled after a stop.                        *)
(***************************************************************************)
EXTENDS Integers, Sequences, FiniteSets, FiniteSetsExt, SequencesExt

CONSTANTS SECTORS,        \* the sectors of the device are 0 .. SECTORS - 1
          SECTOR_SIZE,    \* BLOCK_SECTOR_SIZE, 512
          DIRECT,         \* direct pointers of an inode, 124
          PTRS,           \* pointers in an indirect block, 128
          JUNK,           \* the value of an uninitialised pointer
          Sizes, Offsets, \* the lengths files are created with, the offsets used
          MaxRefs,        \* bound on the opens of files
          MaxLength,      \* bound on the length of a file
          MaxMarks        \* bound on the bytes 1 (what is written) on the device

\* Growing a file that is already longer than this is not modelled.
ASSUME LengthAssumption == MaxLength <= (DIRECT + PTRS + 1) * SECTOR_SIZE

VARIABLES used,    \* free_map: the sectors in use
          disk,    \* the blocks
          stop,    \* "run", or how the kernel stopped
          open,    \* open_inodes: sector -> open_cnt and removed
          linked,  \* the inode sectors that a directory names
          last     \* the last call and what it returned
vars == <<used, disk, stop, open, linked, last>>

FREE_MAP_SECTOR == 0
ROOT_DIR_SECTOR == 1
Sectors == 0 .. SECTORS - 1
ZeroBytes == [i \in 0 .. SECTOR_SIZE - 1 |-> 0]

\* Blocks.  A sector just allocated still holds some file's old bytes.
Fresh      == [kind |-> "fresh"]
Data(b)    == [kind |-> "data", bytes |-> b]
PtrsOf(p)  == [kind |-> "ptrs", p |-> p]
MapOf(u)   == [kind |-> "data", bytes |-> u]
EmptyInode(n) ==
  [kind |-> "inode", direct |-> [j \in 0 .. DIRECT - 1 |-> 0],
   indirect |-> 0, doubly |-> 0, length |-> n]
JunkPtrs   == [j \in 0 .. PTRS - 1 |-> JUNK]

bytes_to_sectors(size) == (size + SECTOR_SIZE - 1) \div SECTOR_SIZE

Stop(st, how) == IF st.stop = "run" THEN [st EXCEPT !.stop = how] ELSE st

\* Is there a block of this kind, or a fresh one, in sector?
Holds(st, sector, kind) ==
  sector \in Sectors /\ st.disk[sector].kind \in {kind, "fresh"}
cache_write(st, sector, block) ==
  IF st.stop # "run" THEN st
  ELSE IF ~Holds(st, sector, block.kind) THEN Stop(st, "wild")
  ELSE [st EXCEPT !.disk[sector] = block]
\* The pointers of an indirect block, for a sector that holds one.
cache_read_ptrs(st, sector) ==
  IF st.stop = "run" /\ Holds(st, sector, "ptrs") THEN st.disk[sector].p ELSE JunkPtrs
-----------------------------------------------------------------------------
\* free-map.c.  The file is written on every change, once there is one.
FreeMapFile(st) == st.disk[FREE_MAP_SECTOR].direct[0]
bitmap_write(st) ==
  IF st.stop # "run" \/ st.disk[FREE_MAP_SECTOR].kind = "fresh" THEN st
  ELSE [st EXCEPT !.disk[FreeMapFile(st)] = MapOf(st.used)]

\* One sector (no caller asks for more): st, whether there was one, and which.
free_map_allocate(st) ==
  LET free == Sectors \ st.used
      s    == Min(free)
  IN  IF free = {} \/ st.stop # "run" THEN [st |-> st, ok |-> FALSE, sector |-> 0]
      ELSE [st |-> bitmap_write([st EXCEPT !.used = @ \cup {s}, !.disk[s] = Fresh]),
            ok |-> TRUE, sector |-> s]

free_map_release(st, sector, kind) ==
  IF st.stop # "run" THEN st
  ELSE IF ~Holds(st, sector, kind) THEN Stop(st, "wild")
  ELSE IF sector \notin st.used THEN Stop(st, "panic")
  ELSE bitmap_write([st EXCEPT !.used = @ \ {sector}, !.disk[sector] = Fresh])
-----------------------------------------------------------------------------
\* Allocates a zeroed data block for each index from a up to b of the array of
\* pointers p; a pointer whose allocation fails keeps its old value.
AllocateBlocks(st, p, a, b) ==
  LET Step(x, j) ==
        LET al == free_map_allocate(x.st)
        IN  IF ~al.ok THEN x
            ELSE [st |-> cache_write(al.st, al.sector, Data(ZeroBytes)),
                  p |-> [x.p EXCEPT ![j] = al.sector], any |-> TRUE]
  IN  FoldLeft(Step, [st |-> st, p |-> p, any |-> FALSE], [i \in 1 .. b - a |-> a + i - 1])
Least(a, b) == IF a < b THEN a ELSE b

\* The indirect block of a file of count sectors: whether it was allocated.
CreateIndirect(st, inode, count) ==
  LET al == free_map_allocate(st)
      bl == AllocateBlocks(al.st, JunkPtrs, 0, Least(PTRS, count - DIRECT))
  IN  IF count <= DIRECT \/ ~al.ok THEN [st |-> st, inode |-> inode, any |-> FALSE]
      ELSE [st |-> cache_write(bl.st, al.sector, PtrsOf(bl.p)),
            inode |-> [inode EXCEPT !.indirect = al.sector], any |-> TRUE]

\* The doubly indirect block.  With an inner block allocated, the code writes
\* it through doubly_indirect_blocks[k], which nothing set.
CreateDoubly(st, inode, count) ==
  LET al == free_map_allocate(st)
      in == free_map_allocate(al.st)
  IN  IF count <= DIRECT + PTRS \/ ~al.ok THEN [st |-> st, inode |-> inode, any |-> FALSE]
      ELSE [st |-> IF in.ok THEN Stop(in.st, "wild")
                   ELSE cache_write(al.st, al.sector, PtrsOf(JunkPtrs)),
            inode |-> [inode EXCEPT !.doubly = al.sector], any |-> TRUE]

\* st and the result; calloc fails when memory is short.
inode_create(st, sector, length, memory) ==
  LET count == bytes_to_sectors(length)
      e  == EmptyInode(length)
      d  == AllocateBlocks(st, e.direct, 0, Least(count, DIRECT))
      i  == CreateIndirect(d.st, [e EXCEPT !.direct = d.p], count)
      dd == CreateDoubly(i.st, i.inode, count)
  IN  IF ~memory THEN [st |-> st, success |-> FALSE]
      ELSE [st |-> cache_write(dd.st, sector, dd.inode),
            success |-> count = 0 \/ d.any \/ i.any \/ dd.any]

\* The block of byte pos.  The doubly indirect case indexes the inner block
\* beyond its end; a pointer read from no indirect block is JUNK.
byte_to_sector(st, inode, pos) ==
  LET n == pos \div SECTOR_SIZE
  IN  IF pos >= inode.length THEN -1
      ELSE IF n < DIRECT THEN inode.direct[n]
      ELSE IF n < DIRECT + PTRS THEN cache_read_ptrs(st, inode.indirect)[n - DIRECT]
      ELSE JUNK
-----------------------------------------------------------------------------
\* add_inode: st and the inode grown to new_length.  A file that reaches the
\* doubly indirect block reads the address of a buffer as a sector number.
GrowIndirect(st, inode, current, total) ==
  LET al  == IF current = DIRECT THEN free_map_allocate(st)
             ELSE [st |-> st, ok |-> TRUE, sector |-> inode.indirect]
      ind == IF al.ok THEN al.sector ELSE inode.indirect
      old == IF current = DIRECT THEN JunkPtrs ELSE cache_read_ptrs(st, ind)
      bl  == AllocateBlocks(al.st, old, current - DIRECT, Least(PTRS, total - DIRECT))
  IN  [st |-> cache_write(bl.st, ind, PtrsOf(bl.p)), inode |-> [inode EXCEPT !.indirect = ind]]
add_inode(st, inode, new_length) ==
  LET total   == bytes_to_sectors(new_length)
      current == bytes_to_sectors(inode.length)
      d   == AllocateBlocks(st, inode.direct, current, Least(total, DIRECT))
      di  == [inode EXCEPT !.direct = d.p]
      cur == IF current < DIRECT THEN Least(total, DIRECT) ELSE current
      i   == IF total > DIRECT /\ cur < DIRECT + PTRS THEN GrowIndirect(d.st, di, cur, total)
             ELSE [st |-> d.st, inode |-> di]
      dd  == IF total > DIRECT + PTRS THEN Stop(i.st, "panic") ELSE i.st
  IN  IF total <= current
      THEN [st |-> st, inode |-> [inode EXCEPT !.length = IF new_length > @ THEN new_length ELSE @]]
      ELSE [st |-> dd, inode |-> [i.inode EXCEPT !.length = new_length]]

\* The loop of inode_write_at, a byte at a time.
WriteBytes(st, inode, bytes, offset) ==
  LET Put(s, i) ==
        LET pos == offset + i - 1
            sec == byte_to_sector(s, inode, pos)
        IN  IF s.stop # "run" THEN s
            ELSE IF ~Holds(s, sec, "data") THEN Stop(s, "wild")
            ELSE [s EXCEPT !.disk[sec].bytes[pos % SECTOR_SIZE] = bytes[i]]
  IN  FoldLeft(Put, st, [i \in 1 .. Len(bytes) |-> i])
\* Mutant: the inode written at the end is the one read at the start.
inode_write_at_stale(st, sector, bytes, offset) ==
  LET a == add_inode(st, st.disk[sector], offset + Len(bytes))
  IN  cache_write(WriteBytes(a.st, a.inode, bytes, offset), sector, st.disk[sector])

inode_write_at(st, sector, bytes, offset) ==
  LET a == add_inode(st, st.disk[sector], offset + Len(bytes))
      b == cache_write(a.st, sector, a.inode)
  IN  cache_write(WriteBytes(b, a.inode, bytes, offset), sector, a.inode)

\* st and the bytes read.
inode_read_at(st, sector, size, offset) ==
  LET inode == st.disk[sector]
      n     == Least(size, inode.length - offset)
      At(i) == byte_to_sector(st, inode, offset + i - 1)
      ok    == \A i \in 1 .. n : Holds(st, At(i), "data")
  IN  IF ~ok THEN [st |-> Stop(st, "wild"), bytes |-> <<>>]
      ELSE [st |-> st,
            bytes |-> [i \in 1 .. n |-> st.disk[At(i)].bytes[(offset + i - 1) % SECTOR_SIZE]]]

\* Mutant: a last sector that is not full is not counted.
deallocate_inode_floor(st, inode) ==
  LET total == inode.length \div SECTOR_SIZE
      d == FoldLeft(LAMBDA s, j : free_map_release(s, inode.direct[j], "data"), st,
                    [i \in 1 .. Least(total, DIRECT) |-> i - 1])
  IN  IF total > DIRECT THEN Stop(d, "panic") ELSE d

\* A file with an indirect block: its address is read as a sector number.
deallocate_inode(st, inode) ==
  LET total == bytes_to_sectors(inode.length)
      d == FoldLeft(LAMBDA s, j : free_map_release(s, inode.direct[j], "data"), st,
                    [i \in 1 .. Least(total, DIRECT) |-> i - 1])
  IN  IF total > DIRECT THEN Stop(d, "panic") ELSE d
\* Mutant: a removed file goes with the first close.
inode_close_first(st, o, sector) ==
  [open |-> IF o[sector].open_cnt > 1 THEN [o EXCEPT ![sector].open_cnt = @ - 1]
            ELSE [s \in DOMAIN o \ {sector} |-> o[s]],
   st |-> IF ~o[sector].removed THEN st
          ELSE free_map_release(deallocate_inode(st, st.disk[sector]), sector, "inode")]

inode_close(st, o, sector) ==
  IF o[sector].open_cnt > 1 THEN [st |-> st, open |-> [o EXCEPT ![sector].open_cnt = @ - 1]]
  ELSE [open |-> [s \in DOMAIN o \ {sector} |-> o[s]],
        st |-> IF ~o[sector].removed THEN st
               ELSE free_map_release(deallocate_inode(st, st.disk[sector]), sector, "inode")]
inode_open(o, sector) ==
  [s \in DOMAIN o \cup {sector} |->
     IF s # sector THEN o[s]
     ELSE IF s \in DOMAIN o THEN [o[s] EXCEPT !.open_cnt = @ + 1]
     ELSE [open_cnt |-> 1, removed |-> FALSE]]
-----------------------------------------------------------------------------
State == [used |-> used, disk |-> disk, stop |-> stop]
Becomes(st) == used' = st.used /\ disk' = st.disk /\ stop' = st.stop
\* The file is kept only when the kernel stops.
Did(op, f, ret) ==
  last' = [op |-> op, file |-> IF stop' = "run" THEN ROOT_DIR_SECTOR ELSE f, ret |-> ret]

\* do_format: the free map's file, then the root directory's.
do_format ==
  LET s0 == [used |-> {FREE_MAP_SECTOR, ROOT_DIR_SECTOR},
             disk |-> [s \in Sectors |-> Fresh], stop |-> "run"]
      fm == inode_create(s0, FREE_MAP_SECTOR, SECTOR_SIZE, TRUE).st
  IN  inode_create(bitmap_write(fm), ROOT_DIR_SECTOR, SECTOR_SIZE, TRUE).st

Init ==
  LET st == do_format
  IN  /\ used = st.used /\ disk = st.disk /\ stop = st.stop
      /\ open = inode_open(<<>>, FREE_MAP_SECTOR) /\ linked = {}
      /\ last = [op |-> "format", file |-> ROOT_DIR_SECTOR, ret |-> <<>>]

\* filesys_create, with the outcome of dir_add: a failure releases the inode's
\* sector, and only that one.
filesys_create(size, memory, dir_add) ==
  LET al == free_map_allocate(State)
      cr == inode_create(al.st, al.sector, size, memory)
      ok == al.ok /\ cr.success /\ dir_add
  IN  /\ stop = "run"
      /\ Becomes(IF ~al.ok THEN al.st
                 ELSE IF ok THEN cr.st ELSE free_map_release(cr.st, al.sector, "inode"))
      /\ linked' = IF ok THEN linked \cup {al.sector} ELSE linked
      /\ Did("create", al.sector, <<IF ok THEN 1 ELSE 0>>)
      /\ UNCHANGED open

Open(f) ==
  /\ stop = "run" /\ f \in linked \cup (DOMAIN open \ {FREE_MAP_SECTOR})
  /\ MapThenSumSet(LAMBDA g : open[g].open_cnt, DOMAIN open) <= MaxRefs
  /\ open' = inode_open(open, f)
  /\ UNCHANGED <<used, disk, stop, linked>>
  /\ Did("open", f, <<>>)

Close(f) ==
  LET c == inode_close(State, open, f)
  IN  /\ stop = "run"
      /\ Becomes(c.st) /\ open' = c.open
      /\ Did("close", f, <<>>)
      /\ UNCHANGED linked

\* dir_remove: opens the inode, erases the entry, inode_remove, inode_close.
dir_remove(f) ==
  LET c == inode_close(State, [inode_open(open, f) EXCEPT ![f].removed = TRUE], f)
  IN  /\ stop = "run" /\ f \in linked
      /\ Becomes(c.st) /\ open' = c.open
      /\ linked' = linked \ {f}
      /\ Did("remove", f, <<1>>)

Marks == {<<s, i>> \in Sectors \X (0 .. SECTOR_SIZE - 1) :
            disk[s].kind = "data" /\ s # FreeMapFile(State) /\ disk[s].bytes[i] = 1}
Write(f, bytes, offset) ==
  /\ stop = "run" /\ offset + Len(bytes) <= MaxLength
  /\ Cardinality(Marks) + Len(bytes) <= MaxMarks
  /\ Becomes(inode_write_at(State, f, bytes, offset))
  /\ Did("write", f, <<Len(bytes)>>)
  /\ UNCHANGED <<open, linked>>
Read(f, size, offset) ==
  LET r == inode_read_at(State, f, size, offset)
  IN  /\ stop = "run"
      /\ Becomes(r.st) /\ Did("read", f, r.bytes)
      /\ UNCHANGED <<open, linked>>

\* filesys_done and the next filesys_init: what is open is forgotten, and the
\* free map is the one in the file, with its two own sectors marked.
Restart ==
  /\ stop = "run"
  /\ used' = disk[FreeMapFile(State)].bytes \cup {FREE_MAP_SECTOR, ROOT_DIR_SECTOR}
  /\ open' = inode_open(<<>>, FREE_MAP_SECTOR)
  /\ UNCHANGED <<disk, stop, linked>>
  /\ Did("restart", ROOT_DIR_SECTOR, <<>>)

Next ==
  \/ \E size \in Sizes, memory, dir_add \in BOOLEAN :
       filesys_create(size, memory, dir_add)
  \/ \E f \in linked \cup DOMAIN open : Open(f) \/ dir_remove(f)
  \/ \E f \in DOMAIN open \ {FREE_MAP_SECTOR} :
       \/ Close(f)
       \/ \E ofs \in Offsets, n \in 1 .. SECTOR_SIZE : Write(f, [i \in 1 .. n |-> 1], ofs)
       \/ \E ofs \in Offsets : Read(f, SECTOR_SIZE + 1, ofs)
  \/ Restart
Spec == Init /\ [][Next]_vars
-----------------------------------------------------------------------------
\* The files there are, the pointers each has for its blocks, and its sectors.
Files == {FREE_MAP_SECTOR, ROOT_DIR_SECTOR} \cup linked \cup DOMAIN open
Pointer(f, n) == IF n < DIRECT THEN disk[f].direct[n]
                 ELSE IF n >= DIRECT + PTRS THEN JUNK
                 ELSE cache_read_ptrs(State, disk[f].indirect)[n - DIRECT]
Blocks(f) == 0 .. bytes_to_sectors(disk[f].length) - 1
Holes(f) == {n \in Blocks(f) : Pointer(f, n) \in {0, JUNK}}
HasIndirect(f) == bytes_to_sectors(disk[f].length) > DIRECT /\ disk[f].indirect # 0
Owned(f) == {f} \cup {Pointer(f, n) : n \in Blocks(f) \ Holes(f)}
            \cup (IF HasIndirect(f) THEN {disk[f].indirect} ELSE {})
            \cup (IF disk[f].doubly # 0 THEN {disk[f].doubly} ELSE {})
Reachable == UNION {Owned(f) : f \in Files}
Full == used = Sectors

\* Blocks have their kinds, and a file that is named or open has a sector that
\* is in use.
TypeOK ==
  /\ used \in SUBSET Sectors /\ linked \in SUBSET used /\ DOMAIN open \in SUBSET used
  /\ \A s \in Sectors : disk[s].kind \in {"fresh", "data", "ptrs", "inode"}
  /\ stop \in {"run", "panic", "wild"}
  /\ \A f \in DOMAIN open : open[f].open_cnt \in 1 .. MaxRefs

\* However files are created, grown, removed while open and closed, no sector
\* belongs to two files or serves twice in one, every sector in use by a file
\* is marked in the free map, and every file's inode is one.
SectorsExclusive ==
  stop = "run" =>
    /\ \A f \in Files : disk[f].kind = "inode"
    /\ Reachable \subseteq used
    /\ \A f, g \in Files : f # g => Owned(f) \cap Owned(g) = {}
    /\ \A f \in Files : \A a, b \in Blocks(f) \ Holes(f) : a # b => Pointer(f, a) # Pointer(f, b)

\* The free map in its file is always the one in memory: a restart at any time
\* gives no sector of a file away and leaks none that was free.
MapSaved == stop = "run" => disk[FreeMapFile(State)].bytes = used

\* inode_create and inode_write_at report success although a block could not
\* be allocated; but only on a full device: a file gets a block that is not
\* there only in a step that leaves no sector free.
HolesOnlyWhenFull ==
  [][\/ stop' # "run" \/ Full' \/ disk' = disk
     \/ \A f \in Files' : Holes(f)' # {} => f \in Files /\ Holes(f) # {}]_vars

\* The kernel panics or goes wild only where the code gives up: when a file
\* is created or grown beyond the indirect block, when a file that has an
\* indirect block is removed, or on access to a block that a full device did
\* not provide.
StopsOnlyThere ==
  [][stop' # stop =>
       \/ \E size \in Sizes, memory, dir_add \in BOOLEAN :
            bytes_to_sectors(size) > DIRECT + PTRS /\ filesys_create(size, memory, dir_add)
       \/ /\ last'.op = "write"
          /\ \/ Full' \/ Holes(last'.file) # {}
             \/ \E n \in Blocks(last.file)' : n >= DIRECT + PTRS
       \/ last'.op = "read" /\ Holes(last'.file) # {}
       \/ /\ last'.op \in {"remove", "close"}
          /\ Holes(last'.file) # {} \/ bytes_to_sectors(disk[last'.file].length) > DIRECT]_vars

\* Sectors leak (they stay marked, and no file has them) only when a creation
\* fails after its blocks were allocated, and when the machine is shut down
\* with a removed file still open.
LeaksOnlyThere ==
  [][\/ stop' # "run"
     \/ used' = used /\ disk' = disk /\ open' = open
     \/ last'.op = "create" /\ last'.ret = <<0>>
     \/ last'.op = "restart" /\ \E f \in DOMAIN open : open[f].removed
     \/ used' \ Reachable' \subseteq used \ Reachable]_vars

\* The contents of a file, as bytes; a block that is not there shows zeros.
Contents(f) ==
  [i \in 1 .. disk[f].length |->
     LET n == (i - 1) \div SECTOR_SIZE
     IN  IF n \in Holes(f) THEN 0 ELSE disk[Pointer(f, n)].bytes[(i - 1) % SECTOR_SIZE]]
UserFiles == linked \cup (DOMAIN open \ {FREE_MAP_SECTOR})
Running == stop = "run"
Store == INSTANCE FileStore WITH
  Id      <- Sectors,
  Byte    <- {1},
  content <- IF Running THEN [f \in UserFiles |-> Contents(f)] ELSE <<>>,
  linked  <- linked,
  opens   <- [f \in DOMAIN open \ {FREE_MAP_SECTOR} |-> open[f].open_cnt],
  halted  <- ~Running,
  answer  <- last.ret
\* The inode layer keeps the promises of FileStore: what is read is what was
\* written, through growth, gaps, removal while open and restarts.
ImplementsStore ==
  Store!Init /\ [][Store!Next(Sizes, Offsets, SECTOR_SIZE + 1)]_(Store!vars)
=============================================================================
