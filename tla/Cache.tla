------------------------------- MODULE Cache -------------------------------
(***************************************************************************)
(* The buffer cache (filesys/inode.c) as one thread at a time uses it:     *)
(* cache_read, cache_write, the byte versions of both and cache_sync.      *)
(* Module CacheThreads has the same code with threads that interleave.     *)
(*                                                                         *)
(* `cache' is struct block_cache together with the sectors of fs_device:   *)
(* the operations are functions from one such state to the next.           *)
(***************************************************************************)
EXTENDS Integers

CONSTANTS
  Sector,       \* sectors of fs_device
  SECTOR_SIZE,  \* bytes of a sector
  Byte,
  CACHE_SIZE,
  NoSector,     \* the sector -1 of an unused entry
  MaxRef        \* bound: no call once a ref_count has reached it

Offset == 0..(SECTOR_SIZE - 1)
Data == [Offset -> Byte]
Slot == 0..(CACHE_SIZE - 1)
Zeros == [o \in Offset |-> 0]

ASSUME CacheAssumption ==
  /\ CACHE_SIZE \in Nat \ {0} /\ SECTOR_SIZE \in Nat \ {0} /\ MaxRef \in Nat
  /\ NoSector \notin Sector
  /\ 0 \in Byte

VARIABLES
  cache,   \* entry_num, the fields of the cache_entrys, and the disk
  out,     \* the bytes the last read put in the caller's buffer
  i        \* the index of the loop of cache_sync, or -1 outside it

vars == <<cache, out, i>>

CacheState ==
  [entry_num : 0..CACHE_SIZE,
   sector    : [Slot -> Sector \cup {NoSector}],
   ref_count : [Slot -> Nat],
   write     : [Slot -> BOOLEAN],
   data      : [Slot -> Data],
   disk      : [Sector -> Data]]
-----------------------------------------------------------------------------
(* The loops over the entries.                                              *)
Used(c) == 0..(c.entry_num - 1)
Hits(c, s) == {k \in Used(c) : c.sector[k] = s}

\* The entry that ends up in `replace', and whose data a read returns: both
\* loops go on after a match, so it is the last one.
Last(c, s) == CHOOSE k \in Hits(c, s) : \A j \in Hits(c, s) : j <= k

\* Mutation of Touch: the loop stops at the first match.
Touch_break(c, s) ==
  [c EXCEPT !.ref_count =
     [k \in Slot |->
        CASE k \in Hits(c, s) /\ \A j \in Hits(c, s) : k <= j -> 0
          [] k \in Used(c) /\ \A j \in Hits(c, s) : k < j -> @[k] + 1
          [] OTHER -> @[k]]]

\* A match resets its ref_count, any other entry gets older.
Touch(c, s) ==
  [c EXCEPT !.ref_count =
     [k \in Slot |-> CASE k \in Hits(c, s)           -> 0
                       [] k \in Used(c) \ Hits(c, s) -> @[k] + 1
                       [] OTHER                      -> @[k]]]

\* max_index after the loop of cache_write: the first of the entries without
\* a match that have the largest ref_count, or 0.
Oldest(c, s) ==
  {k \in Used(c) \ Hits(c, s) :
     /\ c.ref_count[k] > 0
     /\ \A j \in Used(c) \ Hits(c, s) : c.ref_count[j] <= c.ref_count[k]}

\* Mutation of max_index: `>=' instead of `>', the last of the oldest.
max_index_last(c, s) ==
  IF Oldest(c, s) = {} THEN 0
  ELSE CHOOSE k \in Oldest(c, s) : \A j \in Oldest(c, s) : j <= k

max_index(c, s) ==
  IF Oldest(c, s) = {} THEN 0
  ELSE CHOOSE k \in Oldest(c, s) : \A j \in Oldest(c, s) : k <= j

\* Mutation of Fill: the entry does not get its sector number.
Fill_unnamed(c, k, s, d) ==
  [c EXCEPT !.ref_count[k] = 0, !.write[k] = TRUE, !.data[k] = d]

\* Entry k is filled with sector s and marked for write-back.
Fill(c, k, s, d) ==
  [c EXCEPT !.sector[k] = s, !.ref_count[k] = 0, !.write[k] = TRUE, !.data[k] = d]

\* The next unused entry, if there is one, is filled.
AppendEntry(c, s, d) ==
  IF c.entry_num < CACHE_SIZE
  THEN [Fill(c, c.entry_num, s, d) EXCEPT !.entry_num = @ + 1]
  ELSE c

WriteBack(c, k) ==
  IF c.write[k] THEN [c EXCEPT !.disk[c.sector[k]] = c.data[k]] ELSE c

\* The oldest entry is written back and filled once the cache is full, also
\* when this very call has just used the last entry.
Evict(c, k, s, d) ==
  IF c.entry_num = CACHE_SIZE THEN Fill(WriteBack(c, k), k, s, d) ELSE c
-----------------------------------------------------------------------------
cache_write(c, s, d) ==
  IF Hits(c, s) # {}
  THEN Fill(Touch(c, s), Last(c, s), s, d)
  ELSE Evict(AppendEntry(Touch(c, s), s, d), max_index(Touch(c, s), s), s, d)

\* cache_read as a function: the state after it and the data it returns.  On
\* a miss the second loop takes the increments of the first back.
ReadData(c, s) == IF Hits(c, s) # {} THEN c.data[Last(c, s)] ELSE c.disk[s]

cache_read(c, s) ==
  IF Hits(c, s) # {} THEN Touch(c, s) ELSE cache_write(c, s, c.disk[s])

\* What a caller sees, whatever is cached.
Content == [s \in Sector |-> ReadData(cache, s)]

Store == INSTANCE SectorStore WITH content <- Content

\* Only a partial write reads the sector first.
Bounce(c, s, buf) == IF DOMAIN buf # Offset THEN cache_read(c, s) ELSE c

\* Mutation of Bounced: a partial write starts from a cleared sector as well.
Bounced_cleared(c, s, buf) ==
  Store!Overlay(Zeros, buf)

Bounced(c, s, buf) ==
  IF DOMAIN buf # Offset THEN Store!Overlay(ReadData(c, s), buf) ELSE buf
-----------------------------------------------------------------------------
\* cache_init, on a disk with any content; the static struct starts zeroed.
cache_init ==
  /\ \E disk \in [Sector -> Data] :
       cache = [entry_num |-> 0,
                sector    |-> [k \in Slot |-> NoSector],
                ref_count |-> [k \in Slot |-> 0],
                write     |-> [k \in Slot |-> FALSE],
                data      |-> [k \in Slot |-> Zeros],
                disk      |-> disk]
  /\ out = <<>>
  /\ i = -1

Ranges == {a..b : a, b \in Offset} \ {{}}

MayCall == i = -1 /\ \A k \in Slot : cache.ref_count[k] < MaxRef

\* cache_read, and cache_read_bytes for a part of the sector.
cache_read_bytes(s, R) ==
  /\ MayCall
  /\ cache' = cache_read(cache, s)
  /\ out' = [o \in R |-> ReadData(cache, s)[o]]
  /\ UNCHANGED i

\* cache_write, and cache_write_bytes for a part of the sector.
cache_write_bytes(s, buf) ==
  /\ MayCall
  /\ cache' = cache_write(Bounce(cache, s, buf), s, Bounced(cache, s, buf))
  /\ UNCHANGED <<out, i>>

\* cache_sync writes every entry, in the order of the array.
cache_sync ==
  /\ i = -1
  /\ i' = 0
  /\ UNCHANGED <<cache, out>>

\* Mutation of SyncEntry: the loop starts at the second entry.
SyncEntry_skips_first ==
  /\ i \in Used(cache)
  /\ cache' = IF i = 0 THEN cache
              ELSE [cache EXCEPT !.disk[cache.sector[i]] = cache.data[i]]
  /\ i' = i + 1
  /\ UNCHANGED out

SyncEntry ==
  /\ i \in Used(cache)
  /\ cache' = [cache EXCEPT !.disk[cache.sector[i]] = cache.data[i]]
  /\ i' = i + 1
  /\ UNCHANGED out

SyncEnd ==
  /\ i = cache.entry_num
  /\ i' = -1
  /\ UNCHANGED <<cache, out>>

Next ==
  \/ \E s \in Sector, R \in Ranges :
       \/ cache_read_bytes(s, R)
       \/ \E buf \in [R -> Byte] : cache_write_bytes(s, buf)
  \/ cache_sync \/ SyncEntry \/ SyncEnd

Spec == cache_init /\ [][Next]_vars
-----------------------------------------------------------------------------
TypeOK ==
  /\ cache \in CacheState
  /\ \A k \in Used(cache) : cache.sector[k] \in Sector
  /\ i \in -1..cache.entry_num

\* The call that uses the last free entry also evicts one, so that its sector
\* is cached twice, and later writes reach only the later of the two entries.
\* The copies are of the same age, so max_index finds the outdated one first.
TwinsSameAge ==
  \A j, k \in Used(cache) :
    cache.sector[j] = cache.sector[k] => cache.ref_count[j] = cache.ref_count[k]

\* When the loop of cache_sync has ended, everything written is on the disk,
\* also where an outdated copy was written before the current one.
SyncComplete == i = cache.entry_num => cache.disk = Content

\* The cache is transparent: a read returns what was written last to those
\* bytes, and no eviction, refill or outdated copy ever shows.
ImplementsStore == Store!Spec

\* Each call does to the sectors what its arguments say and nothing else: a
\* read returns the bytes asked for, a write of a part of a sector leaves the
\* other bytes alone, cached or not, and cache_sync changes nothing.
CallsExact ==
  [][/\ \A s \in Sector, R \in Ranges :
          /\ cache_read_bytes(s, R) => Store!Read(s, R)
          /\ \A buf \in [R -> Byte] : cache_write_bytes(s, buf) => Store!Write(s, buf)
     /\ cache_sync \/ SyncEntry \/ SyncEnd => UNCHANGED Store!vars]_vars
=============================================================================
