----------------------------- MODULE FilesProofs ----------------------------
(***************************************************************************)
(* The two ends of the way to a file.  The buffer cache implements an      *)
(* array of sectors, for any number of entries, sectors and bytes.  After  *)
(* it, the descriptors of a process: they stay in order however many files *)
(* it opens and closes, and so files_helper finds exactly what is open.    *)
(***************************************************************************)
EXTENDS Cache, Sequences, WellFoundedInduction, TLAPS

\* The states cache_write and cache_read meet.  Used entries hold a sector and
\* are marked for write-back, copies of a sector have the same age, and there
\* are no copies while an entry is free.
Good(c) ==
  /\ c \in CacheState
  /\ \A k \in Used(c) : c.sector[k] \in Sector /\ c.write[k]
  /\ \A j, k \in Used(c) :
       c.sector[j] = c.sector[k] => c.ref_count[j] = c.ref_count[k]
  /\ c.entry_num < CACHE_SIZE =>
       \A j, k \in Used(c) : c.sector[j] = c.sector[k] => j = k

\* What the loop of cache_sync has written is on the disk.
Synced ==
  \A s \in Sector :
    Hits(cache, s) # {} /\ Last(cache, s) < i =>
      cache.disk[s] = cache.data[Last(cache, s)]

IInv == Good(cache) /\ i \in -1..cache.entry_num /\ Synced

USE CacheAssumption
-----------------------------------------------------------------------------
\* A set of numbers has a least element.
LEMMA Least ==
  ASSUME NEW T \in SUBSET Nat, T # {}
  PROVE  \E x \in T : \A y \in T : x <= y
<1>1. PICK x \in T : \A y \in T : ~(<<y, x>> \in OpToRel(<, Nat))
  BY Zenon, WFMin, NatLessThanWellFounded
<1>2. \A y \in T : ~(y < x)
  BY Zenon, <1>1 DEF OpToRel
<1>3. QED BY <1>2

\* A bounded set of numbers has a largest element.
LEMMA Largest ==
  ASSUME NEW n \in Nat, NEW T \in SUBSET (0..n), T # {}
  PROVE  \E x \in T : \A y \in T : y <= x
<1> DEFINE U == {n - y : y \in T}
<1>1. U \in SUBSET Nat /\ U # {}
  <2>1. \A y \in T : n - y \in Nat /\ n - y \in U
    OBVIOUS
  <2>2. QED BY Zenon, <2>1
<1>2. PICK u \in U : \A v \in U : u <= v
  BY Zenon, <1>1, Least
<1>3. PICK x \in T : u = n - x
  BY Zenon
<1>4. \A y \in T : n - x <= n - y
  BY Zenon, <1>2, <1>3
<1>5. \A y \in T : y <= x
  BY <1>4
<1>6. QED BY Zenon, <1>5
-----------------------------------------------------------------------------
\* The entries in use are slots.
LEMMA UsedSlots ==
  ASSUME NEW c \in CacheState
  PROVE  Used(c) \subseteq Slot /\ Slot \subseteq Nat
BY DEF Used, Slot, CacheState

\* Last is the match with the largest index.
LEMMA LastIs ==
  ASSUME NEW c \in CacheState, NEW s, Hits(c, s) # {}
  PROVE  /\ Last(c, s) \in Hits(c, s)
         /\ \A j \in Hits(c, s) : j <= Last(c, s)
<1>1. Hits(c, s) \in SUBSET (0..CACHE_SIZE)
  BY UsedSlots DEF Hits, Slot
<1>2. \E k \in Hits(c, s) : \A j \in Hits(c, s) : j <= k
  BY Zenon, <1>1, Largest
<1>3. QED BY Zenon, <1>2 DEF Last

\* There is only one such match.
LEMMA LastUnique ==
  ASSUME NEW c \in CacheState, NEW s, NEW k \in Hits(c, s),
         \A j \in Hits(c, s) : j <= k
  PROVE  Last(c, s) = k
<1>1. Last(c, s) \in Hits(c, s) /\ k <= Last(c, s)
  BY Zenon, LastIs
<1>2. Last(c, s) \in Nat /\ k \in Nat
  BY Zenon, <1>1, UsedSlots DEF Hits
<1>3. QED BY <1>1, <1>2

\* States that agree on the matches of s have the same Last.
LEMMA LastSame ==
  ASSUME NEW c \in CacheState, NEW d \in CacheState, NEW s,
         Hits(c, s) = Hits(d, s), Hits(c, s) # {}
  PROVE  Last(c, s) = Last(d, s)
<1>1. Last(c, s) \in Hits(d, s) /\ \A j \in Hits(d, s) : j <= Last(c, s)
  BY Zenon, LastIs
<1>2. QED BY Zenon, <1>1, LastUnique

\* max_index is an entry in use, and no earlier one of the same age is.
LEMMA MaxIndexIs ==
  ASSUME NEW c \in CacheState, NEW s, Hits(c, s) = {}
  PROVE  /\ max_index(c, s) \in Slot
         /\ c.entry_num > 0 => max_index(c, s) \in Used(c)
         /\ \A j \in Used(c) :
              j < max_index(c, s) => c.ref_count[j] # c.ref_count[max_index(c, s)]
<1>0. Used(c) = 0..(c.entry_num - 1) /\ c.entry_num \in 0..CACHE_SIZE
  BY Zenon DEF Used, CacheState
<1>1. CASE Oldest(c, s) = {}
  <2>1. max_index(c, s) = 0
    BY Zenon, <1>1 DEF max_index
  <2>2. QED BY <1>0, <2>1 DEF Slot
<1>2. CASE Oldest(c, s) # {}
  <2>1. Oldest(c, s) \in SUBSET Nat /\ Oldest(c, s) \subseteq Used(c)
    BY Zenon, UsedSlots DEF Oldest
  <2>2. \E k \in Oldest(c, s) : \A j \in Oldest(c, s) : k <= j
    BY Zenon, <1>2, <2>1, Least
  <2>3. /\ max_index(c, s) \in Oldest(c, s)
        /\ \A j \in Oldest(c, s) : max_index(c, s) <= j
    BY Zenon, <1>2, <2>2 DEF max_index
  <2>4. \A j \in Used(c) :
          c.ref_count[j] = c.ref_count[max_index(c, s)] => j \in Oldest(c, s)
    BY Zenon, <2>3 DEF Oldest
  <2>5. QED BY <2>1, <2>3, <2>4, UsedSlots
<1>3. QED BY Zenon, <1>1, <1>2
-----------------------------------------------------------------------------
\* The state after the loop over the entries, field by field.
LEMMA TouchIs ==
  ASSUME NEW c \in CacheState, NEW s
  PROVE  /\ Touch(c, s) \in CacheState
         /\ Touch(c, s).entry_num = c.entry_num
         /\ Touch(c, s).sector = c.sector
         /\ Touch(c, s).write = c.write
         /\ Touch(c, s).data = c.data
         /\ Touch(c, s).disk = c.disk
         /\ \A k \in Used(c) : Touch(c, s).ref_count[k] =
              IF k \in Hits(c, s) THEN 0 ELSE c.ref_count[k] + 1
<1> DEFINE r == [k \in Slot |-> CASE k \in Hits(c, s)           -> 0
                                  [] k \in Used(c) \ Hits(c, s) -> c.ref_count[k] + 1
                                  [] OTHER                      -> c.ref_count[k]]
<1>1. Touch(c, s) = [c EXCEPT !.ref_count = r]
  BY Zenon DEF Touch
<1>2. r \in [Slot -> Nat]
  BY DEF CacheState
<1>3. \A k \in Used(c) : r[k] = IF k \in Hits(c, s) THEN 0 ELSE c.ref_count[k] + 1
  BY Zenon, UsedSlots
<1> HIDE DEF r
<1>4. QED BY Zenon, <1>1, <1>2, <1>3 DEF CacheState

\* The state after an entry is filled, field by field.
LEMMA FillIs ==
  ASSUME NEW c \in CacheState, NEW k \in Slot, NEW s \in Sector, NEW d \in Data
  PROVE  /\ Fill(c, k, s, d) \in CacheState
         /\ Fill(c, k, s, d).entry_num = c.entry_num
         /\ Fill(c, k, s, d).sector = [c.sector EXCEPT ![k] = s]
         /\ Fill(c, k, s, d).ref_count = [c.ref_count EXCEPT ![k] = 0]
         /\ Fill(c, k, s, d).write = [c.write EXCEPT ![k] = TRUE]
         /\ Fill(c, k, s, d).data = [c.data EXCEPT ![k] = d]
         /\ Fill(c, k, s, d).disk = c.disk
BY Zenon DEF Fill, CacheState

\* A loop changes no sector, and keeps the state good.
LEMMA TouchGood ==
  ASSUME NEW c, Good(c), NEW s \in Sector
  PROVE  /\ Good(Touch(c, s))
         /\ \A x : Hits(Touch(c, s), x) = Hits(c, x)
         /\ \A x \in Sector : ReadData(Touch(c, s), x) = ReadData(c, x)
<1> DEFINE t == Touch(c, s)
<1>0. c \in CacheState
  BY Zenon DEF Good
<1>1. /\ t \in CacheState /\ t.entry_num = c.entry_num /\ t.sector = c.sector
      /\ t.write = c.write /\ t.data = c.data /\ t.disk = c.disk
      /\ \A k \in Used(c) : t.ref_count[k] =
              IF k \in Hits(c, s) THEN 0 ELSE c.ref_count[k] + 1
  BY Zenon, <1>0, TouchIs
<1> HIDE DEF t
<1>2. Used(t) = Used(c)
  BY Zenon, <1>1 DEF Used
<1>3. \A x : Hits(t, x) = Hits(c, x)
  BY Zenon, <1>1, <1>2 DEF Hits
<1>4. \A j, k \in Used(c) :
        c.sector[j] = c.sector[k] => t.ref_count[j] = t.ref_count[k]
  BY <1>1 DEF Hits, Good
<1>5. Good(t)
  BY <1>1, <1>2, <1>4 DEF Good
<1>6. \A x \in Sector : ReadData(t, x) = ReadData(c, x)
  BY Zenon, <1>0, <1>1, <1>3, LastSame DEF ReadData
<1>7. QED BY Zenon, <1>3, <1>5, <1>6 DEF t

\* A write that hits fills the last match.
LEMMA WriteHit ==
  ASSUME NEW c, Good(c), NEW s \in Sector, NEW d \in Data, Hits(c, s) # {}
  PROVE  /\ Good(Fill(c, Last(c, s), s, d)) \/ c.ref_count[Last(c, s)] # 0
         /\ \A x \in Sector : ReadData(Fill(c, Last(c, s), s, d), x) =
              IF x = s THEN d ELSE ReadData(c, x)
<1> DEFINE k == Last(c, s)
           f == Fill(c, k, s, d)
<1>0. c \in CacheState
  BY Zenon DEF Good
<1>1. k \in Hits(c, s) /\ k \in Used(c) /\ k \in Slot /\ c.sector[k] = s
  BY Zenon, <1>0, LastIs, UsedSlots DEF Hits
<1>2. /\ f \in CacheState /\ f.entry_num = c.entry_num /\ f.disk = c.disk
      /\ f.sector = [c.sector EXCEPT ![k] = s]
      /\ f.ref_count = [c.ref_count EXCEPT ![k] = 0]
      /\ f.write = [c.write EXCEPT ![k] = TRUE]
      /\ f.data = [c.data EXCEPT ![k] = d]
  BY <1>0, <1>1, FillIs
<1> HIDE DEF k, f
<1>3. Used(f) = Used(c) /\ f.sector = c.sector
  BY ZenonT(30), <1>0, <1>1, <1>2 DEF Used, CacheState
<1>4. \A x : Hits(f, x) = Hits(c, x)
  BY Zenon, <1>3 DEF Hits
<1>5. ASSUME c.ref_count[k] = 0 PROVE Good(f)
  <2>1. f.ref_count = c.ref_count /\ f.write = c.write
    BY <1>0, <1>1, <1>2, <1>5 DEF CacheState, Good
  <2>2. QED BY <1>2, <1>3, <2>1 DEF Good
<1>6. ASSUME NEW x \in Sector PROVE ReadData(f, x) = IF x = s THEN d ELSE ReadData(c, x)
  <2>1. CASE x = s
    BY <1>0, <1>1, <1>2, <1>4, <2>1, LastSame DEF ReadData, k, CacheState
  <2>2. CASE x # s /\ Hits(c, x) # {}
    <3>1. Last(f, x) = Last(c, x) /\ Last(c, x) \in Hits(c, x)
      BY <1>0, <1>2, <1>4, <2>2, LastSame, LastIs
    <3>2. Last(c, x) # k
      BY Zenon, <3>1, <1>1, <2>2 DEF Hits
    <3>3. f.data[Last(c, x)] = c.data[Last(c, x)]
      BY Zenon, <1>0, <1>1, <1>2, <3>1, <3>2, UsedSlots DEF CacheState, Hits
    <3>4. QED BY Zenon, <1>4, <2>2, <3>1, <3>3 DEF ReadData
  <2>3. CASE x # s /\ Hits(c, x) = {}
    BY Zenon, <1>2, <1>4, <2>3 DEF ReadData
  <2>4. QED BY Zenon, <2>1, <2>2, <2>3
<1>7. QED BY Zenon, <1>5, <1>6 DEF f, k

\* What is known of the new sector once the next free entry was tried.
Placed(c, s, d) == \A k \in Hits(c, s) : c.data[k] = d /\ c.ref_count[k] = 0

\* A miss uses the next free entry, if there is one.
LEMMA WriteAppend ==
  ASSUME NEW c, Good(c), NEW s \in Sector, NEW d \in Data, Hits(c, s) = {},
         c.entry_num < CACHE_SIZE
  PROVE  /\ Good(AppendEntry(c, s, d))
         /\ AppendEntry(c, s, d).entry_num = c.entry_num + 1
         /\ \A j, k \in Used(AppendEntry(c, s, d)) :
              AppendEntry(c, s, d).sector[j] = AppendEntry(c, s, d).sector[k] => j = k
         /\ Placed(AppendEntry(c, s, d), s, d)
         /\ \A x \in Sector : ReadData(AppendEntry(c, s, d), x) =
              IF x = s THEN d ELSE ReadData(c, x)
<1> DEFINE n == c.entry_num
           f == Fill(c, n, s, d)
           a == AppendEntry(c, s, d)
<1>0. c \in CacheState /\ n \in Slot /\ n \notin Used(c) /\ n \in Nat
  BY DEF Good, CacheState, Slot, Used
<1>1. /\ f \in CacheState /\ f.entry_num = c.entry_num /\ f.disk = c.disk
      /\ f.sector = [c.sector EXCEPT ![n] = s]
      /\ f.ref_count = [c.ref_count EXCEPT ![n] = 0]
      /\ f.write = [c.write EXCEPT ![n] = TRUE]
      /\ f.data = [c.data EXCEPT ![n] = d]
  BY <1>0, FillIs
<1>2. a = [f EXCEPT !.entry_num = n + 1]
  BY Zenon, <1>1 DEF AppendEntry
<1>3. n + 1 \in 0..CACHE_SIZE
  BY <1>0 DEF Slot
<1> HIDE DEF f
<1>4. /\ a \in CacheState /\ a.entry_num = n + 1 /\ a.disk = c.disk
      /\ a.sector = [c.sector EXCEPT ![n] = s]
      /\ a.ref_count = [c.ref_count EXCEPT ![n] = 0]
      /\ a.write = [c.write EXCEPT ![n] = TRUE]
      /\ a.data = [c.data EXCEPT ![n] = d]
  BY Zenon, <1>1, <1>2, <1>3 DEF CacheState
<1> HIDE DEF a
<1>5. Used(a) = Used(c) \cup {n}
  BY <1>0, <1>4 DEF Used
<1>6. /\ a.sector[n] = s /\ a.ref_count[n] = 0 /\ a.write[n] = TRUE /\ a.data[n] = d
      /\ \A k \in Used(c) : /\ a.sector[k] = c.sector[k] /\ a.write[k] = c.write[k]
                            /\ a.data[k] = c.data[k]
                            /\ c.sector[k] # s /\ k # n
  <2>1. \A k \in Used(c) : k \in Slot /\ k # n /\ c.sector[k] # s
    BY Zenon, <1>0, UsedSlots DEF Hits
  <2>2. /\ a.sector[n] = s /\ a.ref_count[n] = 0 /\ a.write[n] = TRUE /\ a.data[n] = d
    BY <1>0, <1>4 DEF CacheState
  <2>3. ASSUME NEW k \in Used(c)
        PROVE  /\ a.sector[k] = c.sector[k] /\ a.write[k] = c.write[k]
               /\ a.data[k] = c.data[k]
    BY Zenon, <1>0, <1>4, <2>1 DEF CacheState
  <2>4. QED BY Zenon, <2>1, <2>2, <2>3
<1>7. Hits(a, s) = {n} /\ \A x : x # s => Hits(a, x) = Hits(c, x)
  BY <1>5, <1>6 DEF Hits
<1>8. \A j, k \in Used(a) : a.sector[j] = a.sector[k] => j = k
  BY <1>5, <1>6 DEF Good
<1>9. Good(a)
  BY Zenon, <1>4, <1>5, <1>6, <1>8 DEF Good
<1>10. ASSUME NEW x \in Sector PROVE ReadData(a, x) = IF x = s THEN d ELSE ReadData(c, x)
  <2>1. CASE x = s
    <3>1. Last(a, s) = n
      BY <1>0, <1>4, <1>7, LastUnique
    <3>2. QED BY Zenon, <1>6, <1>7, <2>1, <3>1 DEF ReadData
  <2>2. CASE x # s /\ Hits(c, x) # {}
    <3>0. Hits(a, x) = Hits(c, x) /\ a \in CacheState
      BY Zenon, <1>4, <1>7, <2>2
    <3>1. Last(a, x) = Last(c, x) /\ Last(c, x) \in Used(c)
      <4>1. Last(c, x) \in Hits(c, x)
        BY Zenon, <1>0, <2>2, LastIs
      <4>2. Last(a, x) = Last(c, x)
        BY Zenon, <1>0, <2>2, <3>0, LastSame
      <4>3. QED BY Zenon, <4>1, <4>2 DEF Hits
    <3>2. QED BY Zenon, <1>6, <1>7, <2>2, <3>1 DEF ReadData
  <2>3. CASE x # s /\ Hits(c, x) = {}
    BY Zenon, <1>4, <1>7, <2>3 DEF ReadData
  <2>4. QED BY Zenon, <2>1, <2>2, <2>3
<1>11. Placed(a, s, d)
  BY Zenon, <1>6, <1>7 DEF Placed
<1>12. QED BY Zenon, <1>4, <1>8, <1>9, <1>10, <1>11 DEF a

\* An eviction writes the entry back.  Nothing is lost, because an earlier
\* entry with the same sector does not exist.
LEMMA WriteEvict ==
  ASSUME NEW c, Good(c), NEW s \in Sector, NEW d \in Data, NEW k \in Used(c),
         c.entry_num = CACHE_SIZE, Placed(c, s, d),
         \A j \in Used(c) : c.sector[j] = c.sector[k] => k <= j
  PROVE  /\ Good(Evict(c, k, s, d))
         /\ \A x \in Sector : ReadData(Evict(c, k, s, d), x) =
              IF x = s THEN d ELSE ReadData(c, x)
<1> DEFINE o == c.sector[k]
           w == WriteBack(c, k)
           v == Evict(c, k, s, d)
<1>0. c \in CacheState /\ k \in Slot /\ o \in Sector /\ c.write[k] /\ Used(c) \subseteq Slot
  BY Zenon, UsedSlots DEF Good
<1>1. w = [c EXCEPT !.disk[o] = c.data[k]]
  BY Zenon, <1>0 DEF WriteBack
<1> HIDE DEF o
<1>2. /\ w \in CacheState /\ w.entry_num = c.entry_num /\ w.sector = c.sector
      /\ w.ref_count = c.ref_count /\ w.write = c.write /\ w.data = c.data
      /\ w.disk = [c.disk EXCEPT ![o] = c.data[k]]
  BY <1>0, <1>1 DEF CacheState
<1>3. v = Fill(w, k, s, d)
  BY Zenon DEF Evict
<1> HIDE DEF w, v
<1>4. /\ v \in CacheState /\ v.entry_num = c.entry_num
      /\ v.sector = [c.sector EXCEPT ![k] = s]
      /\ v.ref_count = [c.ref_count EXCEPT ![k] = 0]
      /\ v.write = [c.write EXCEPT ![k] = TRUE]
      /\ v.data = [c.data EXCEPT ![k] = d]
      /\ v.disk = [c.disk EXCEPT ![o] = c.data[k]]
  BY SMTT(30), <1>0, <1>2, <1>3, FillIs
<1>5. Used(v) = Used(c)
  BY Zenon, <1>4 DEF Used
<1>6. /\ v.sector[k] = s /\ v.ref_count[k] = 0 /\ v.write[k] = TRUE /\ v.data[k] = d
      /\ \A j \in Used(c) : j # k =>
           /\ v.sector[j] = c.sector[j] /\ v.write[j] = c.write[j]
           /\ v.data[j] = c.data[j] /\ v.ref_count[j] = c.ref_count[j]
  BY <1>0, <1>4 DEF CacheState
<1>7. /\ Hits(v, s) = Hits(c, s) \cup {k}
      /\ \A x : x # s => Hits(v, x) = Hits(c, x) \ {k}
  BY <1>5, <1>6 DEF Hits
<1>8. Good(v)
  <2>1. \A j \in Used(c) : j # k /\ v.sector[j] = s => v.ref_count[j] = 0
    BY <1>6 DEF Placed, Hits
  <2>2. \A j, l \in Used(c) :
          v.sector[j] = v.sector[l] => v.ref_count[j] = v.ref_count[l]
    BY <1>6, <2>1 DEF Good
  <2>3. QED BY <1>4, <1>5, <1>6, <2>2 DEF Good
<1>9. ASSUME NEW x \in Sector PROVE ReadData(v, x) = IF x = s THEN d ELSE ReadData(c, x)
  <2>1. CASE x = s
    <3>1. \A j \in Hits(v, s) : v.data[j] = d
      BY Zenon, <1>6, <1>7 DEF Placed, Hits
    <3>2. Hits(v, s) # {} /\ Last(v, s) \in Hits(v, s)
      BY Zenon, <1>4, <1>7, LastIs
    <3>3. QED BY Zenon, <2>1, <3>1, <3>2 DEF ReadData
  <2>2. CASE x # s /\ x = o
    <3>1. k \in Hits(c, o) /\ \A j \in Hits(c, o) : k <= j
      BY Zenon DEF Hits, o
    <3>2. CASE Hits(c, o) = {k}
      <4>1. Last(c, o) = k
        BY <1>0, <3>2, LastUnique, UsedSlots
      <4>2. Hits(v, o) = {} /\ v.disk[o] = c.data[k]
        BY <1>0, <1>4, <1>7, <2>2, <3>2 DEF CacheState
      <4>3. QED BY Zenon, <2>2, <3>1, <4>1, <4>2 DEF ReadData
    <3>3. CASE Hits(c, o) # {k}
      <4>1. PICK j \in Hits(c, o) : j # k
        BY Zenon, <3>1, <3>3
      <4>2. Last(c, o) \in Hits(c, o) /\ j <= Last(c, o)
        BY Zenon, <1>0, <3>1, LastIs
      <4>3. Last(c, o) # k
        BY <1>0, <3>1, <4>1, <4>2, UsedSlots DEF Hits
      <4>4. Last(v, o) = Last(c, o)
        BY <1>0, <1>4, <1>7, <2>2, <4>2, <4>3, LastIs, LastUnique
      <4>5. v.data[Last(c, o)] = c.data[Last(c, o)] /\ Hits(v, o) # {}
        BY <1>6, <1>7, <2>2, <4>2, <4>3 DEF Hits
      <4>6. QED BY Zenon, <2>2, <3>1, <4>4, <4>5 DEF ReadData
    <3>4. QED BY Zenon, <3>2, <3>3
  <2>3. CASE x # s /\ x # o
    <3>1. Hits(v, x) = Hits(c, x) /\ k \notin Hits(c, x)
      BY <1>7, <2>3 DEF Hits, o
    <3>2. CASE Hits(c, x) # {}
      <4>1. Last(v, x) = Last(c, x) /\ Last(c, x) \in Hits(c, x)
        BY <1>0, <1>4, <3>1, <3>2, LastSame, LastIs
      <4>2. v.data[Last(c, x)] = c.data[Last(c, x)]
        BY Zenon, <1>6, <3>1, <4>1 DEF Hits
      <4>3. QED BY Zenon, <2>3, <3>1, <3>2, <4>1, <4>2 DEF ReadData
    <3>3. CASE Hits(c, x) = {}
      <4>1. v.disk[x] = c.disk[x]
        BY <1>0, <1>4, <2>3 DEF CacheState
      <4>2. QED BY Zenon, <2>3, <3>1, <3>3, <4>1 DEF ReadData
    <3>4. QED BY Zenon, <3>2, <3>3
  <2>4. QED BY Zenon, <2>1, <2>2, <2>3
<1>10. QED BY Zenon, <1>8, <1>9 DEF v

\* A miss: the entry evicted is not the later of two copies.
LEMMA WriteMiss ==
  ASSUME NEW c, Good(c), NEW s \in Sector, NEW d \in Data, Hits(c, s) = {}
  PROVE  LET w == Evict(AppendEntry(c, s, d), max_index(c, s), s, d)
         IN  /\ Good(w)
             /\ \A x \in Sector : ReadData(w, x) = IF x = s THEN d ELSE ReadData(c, x)
<1> DEFINE a == AppendEntry(c, s, d)
           k == max_index(c, s)
           w == Evict(a, k, s, d)
<1>0. c \in CacheState /\ c.entry_num \in 0..CACHE_SIZE
  BY Zenon DEF Good, CacheState
<1>1. /\ k \in Slot
      /\ c.entry_num > 0 => k \in Used(c)
      /\ \A j \in Used(c) : j < k => c.ref_count[j] # c.ref_count[k]
  BY Zenon, <1>0, MaxIndexIs
<1> HIDE DEF k
<1>2. CASE c.entry_num = CACHE_SIZE
  <2>1. a = c
    BY <1>2 DEF AppendEntry
  <2>2. k \in Used(c) /\ \A j \in Used(c) : c.sector[j] = c.sector[k] => k <= j
    <3>1. k \in Used(c)
      BY <1>1, <1>2
    <3>2. \A j \in Used(c) : c.sector[j] = c.sector[k] => ~(j < k)
      BY Zenon, <1>1, <3>1 DEF Good
    <3>3. QED BY <1>0, <3>1, <3>2, UsedSlots
  <2>3. Placed(c, s, d)
    BY Zenon DEF Placed
  <2>4. /\ Good(Evict(c, k, s, d))
        /\ \A x \in Sector :
             ReadData(Evict(c, k, s, d), x) = IF x = s THEN d ELSE ReadData(c, x)
    BY <1>2, <2>2, <2>3, WriteEvict
  <2>5. QED BY Zenon, <2>1, <2>4 DEF k
<1>3. CASE c.entry_num < CACHE_SIZE
  <2>1. /\ Good(a) /\ a.entry_num = c.entry_num + 1 /\ Placed(a, s, d)
        /\ \A j, l \in Used(a) : a.sector[j] = a.sector[l] => j = l
        /\ \A x \in Sector : ReadData(a, x) = IF x = s THEN d ELSE ReadData(c, x)
    BY <1>3, WriteAppend
  <2> HIDE DEF a
  <2>2. CASE a.entry_num = CACHE_SIZE
    <3>1. k \in Used(a)
      BY Zenon, <1>0, <1>1, <2>1, <2>2 DEF Used, Slot
    <3>2. \A j \in Used(a) : a.sector[j] = a.sector[k] => k <= j
      BY <1>1, <2>1, <3>1 DEF Slot
    <3>3. /\ Good(w)
          /\ \A x \in Sector : ReadData(w, x) = IF x = s THEN d ELSE ReadData(a, x)
      BY <2>1, <2>2, <3>1, <3>2, WriteEvict
    <3>4. QED BY Zenon, <2>1, <3>3 DEF k, a
  <2>3. CASE a.entry_num # CACHE_SIZE
    <3>1. w = a
      BY Zenon, <2>3 DEF Evict
    <3>2. QED BY Zenon, <2>1, <3>1 DEF k, a
  <2>4. QED BY Zenon, <2>2, <2>3
<1>4. QED BY <1>0, <1>2, <1>3

\* cache_write replaces what is seen of one sector.
LEMMA WriteGood ==
  ASSUME NEW c, Good(c), NEW s \in Sector, NEW d \in Data
  PROVE  /\ Good(cache_write(c, s, d))
         /\ \A x \in Sector : ReadData(cache_write(c, s, d), x) =
              IF x = s THEN d ELSE ReadData(c, x)
<1> DEFINE t == Touch(c, s)
<1>0. c \in CacheState
  BY Zenon DEF Good
<1>1. /\ Good(t) /\ \A x : Hits(t, x) = Hits(c, x)
      /\ \A x \in Sector : ReadData(t, x) = ReadData(c, x)
  BY Zenon, TouchGood
<1>2. t \in CacheState
  BY Zenon, <1>1 DEF Good
<1>3. \A k \in Hits(c, s) : t.ref_count[k] = 0
  BY Zenon, <1>0, TouchIs DEF Hits
<1> HIDE DEF t
<1>4. CASE Hits(c, s) # {}
  <2>1. Last(t, s) = Last(c, s) /\ Last(c, s) \in Hits(c, s)
    BY Zenon, <1>0, <1>1, <1>2, <1>4, LastSame, LastIs
  <2>2. cache_write(c, s, d) = Fill(t, Last(t, s), s, d)
    BY Zenon, <1>4, <2>1 DEF cache_write, t
  <2>3. t.ref_count[Last(t, s)] = 0
    BY Zenon, <1>3, <2>1
  <2>4. QED BY <1>1, <1>4, <2>2, <2>3, WriteHit
<1>5. CASE Hits(c, s) = {}
  <2>1. cache_write(c, s, d) = Evict(AppendEntry(t, s, d), max_index(t, s), s, d)
    BY Zenon, <1>5 DEF cache_write, t
  <2>2. QED BY <1>1, <1>5, <2>1, WriteMiss
<1>6. QED BY Zenon, <1>4, <1>5

\* cache_read changes nothing that can be seen, hit or miss.
LEMMA ReadGood ==
  ASSUME NEW c, Good(c), NEW s \in Sector
  PROVE  /\ Good(cache_read(c, s))
         /\ \A x \in Sector : ReadData(cache_read(c, s), x) = ReadData(c, x)
<1>1. CASE Hits(c, s) # {}
  BY Zenon, <1>1, TouchGood DEF cache_read
<1>2. CASE Hits(c, s) = {}
  <2>1. c.disk[s] \in Data /\ ReadData(c, s) = c.disk[s]
    BY Zenon, <1>2 DEF Good, CacheState, ReadData
  <2>2. cache_read(c, s) = cache_write(c, s, c.disk[s])
    BY Zenon, <1>2 DEF cache_read
  <2>3. QED BY <2>1, <2>2, WriteGood
<1>3. QED BY Zenon, <1>1, <1>2

\* What is seen of a sector has the size of a sector.
LEMMA ReadDataType ==
  ASSUME NEW c \in CacheState, NEW s \in Sector
  PROVE  ReadData(c, s) \in Data
<1>1. CASE Hits(c, s) # {}
  <2>1. Last(c, s) \in Slot
    BY Zenon, <1>1, LastIs, UsedSlots DEF Hits
  <2>2. QED BY Zenon, <1>1, <2>1 DEF ReadData, CacheState
<1>2. CASE Hits(c, s) = {}
  BY Zenon, <1>2 DEF ReadData, CacheState
<1>3. QED BY Zenon, <1>1, <1>2
-----------------------------------------------------------------------------
(* The steps: each preserves IInv and does what SectorStore says.           *)

\* cache_init makes a good state that shows the disk.
LEMMA InitOK == cache_init => IInv /\ Store!Init
<1> SUFFICES ASSUME cache_init PROVE IInv /\ Store!Init
  BY Zenon
<1>1. PICK disk \in [Sector -> Data] :
        cache = [entry_num |-> 0,
                 sector    |-> [k \in Slot |-> NoSector],
                 ref_count |-> [k \in Slot |-> 0],
                 write     |-> [k \in Slot |-> FALSE],
                 data      |-> [k \in Slot |-> Zeros],
                 disk      |-> disk]
  BY Zenon DEF cache_init
<1>2. Zeros \in Data
  BY Zenon DEF Zeros, Data
<1>3. cache \in CacheState /\ cache.entry_num = 0
  BY <1>1, <1>2 DEF CacheState
<1>4. Used(cache) = {}
  BY <1>3 DEF Used
<1>5. Good(cache)
  BY Zenon, <1>3, <1>4 DEF Good
<1>6. Synced
  BY Zenon, <1>4 DEF Synced, Hits
<1>7. i \in -1..cache.entry_num /\ out = <<>>
  BY <1>3 DEF cache_init
<1>8. Content \in [Sector -> Data]
  BY Zenon, <1>3, ReadDataType DEF Content
<1>9. QED BY Zenon, <1>5, <1>6, <1>7, <1>8 DEF IInv, Store!Init, Data

\* While no loop of cache_sync runs, nothing is claimed about the disk.
LEMMA NoSync ==
  ASSUME Good(cache)', i' = -1
  PROVE  IInv'
<1>1. cache' \in CacheState
  BY Zenon DEF Good
<1>2. ASSUME NEW s \in Sector, Hits(cache', s) # {}
      PROVE  ~(Last(cache', s) < i')
  BY <1>1, <1>2, LastIs, UsedSlots DEF Hits
<1>3. Synced'
  BY Zenon, <1>2 DEF Synced
<1>4. i' \in -1..cache'.entry_num
  BY <1>1 DEF CacheState
<1>5. QED BY Zenon, <1>3, <1>4 DEF IInv

\* cache_read and cache_read_bytes return the bytes asked for.
LEMMA ReadStep ==
  ASSUME IInv, NEW s \in Sector, NEW R \in Ranges, cache_read_bytes(s, R)
  PROVE  IInv' /\ Store!Read(s, R)
<1>0. Good(cache)
  BY Zenon DEF IInv
<1>1. /\ Good(cache)'
      /\ \A x \in Sector : ReadData(cache', x) = ReadData(cache, x)
  BY Zenon, <1>0, ReadGood DEF cache_read_bytes
<1>2. i' = -1
  BY Zenon DEF cache_read_bytes, MayCall
<1>3. Content' = Content
  BY Zenon, <1>1 DEF Content
<1>4. Content[s] = ReadData(cache, s)
  BY Zenon DEF Content
<1>5. out' = [o \in R |-> Content[s][o]]
  BY Zenon, <1>4 DEF cache_read_bytes
<1>6. QED BY Zenon, <1>1, <1>2, <1>3, <1>5, NoSync DEF Store!Read

\* cache_write and cache_write_bytes change the bytes of the buffer only.
LEMMA WriteStep ==
  ASSUME IInv, NEW s \in Sector, NEW R \in Ranges, NEW buf \in [R -> Byte],
         cache_write_bytes(s, buf)
  PROVE  IInv' /\ Store!Write(s, buf)
<1> DEFINE b == Bounce(cache, s, buf)
           d == Bounced(cache, s, buf)
<1>0. Good(cache) /\ cache \in CacheState
  BY Zenon DEF IInv, Good
<1>1. R \subseteq Offset /\ DOMAIN buf = R
  BY DEF Ranges, Offset
<1>2. ReadData(cache, s) \in Data
  BY Zenon, <1>0, ReadDataType
<1>3. d = Store!Overlay(ReadData(cache, s), buf) /\ d \in Data
  <2>1. Store!Overlay(ReadData(cache, s), buf) \in Data
    BY Zenon, <1>1, <1>2 DEF Store!Overlay, Data
  <2>2. CASE R # Offset
    BY Zenon, <1>1, <2>1, <2>2 DEF Bounced
  <2>3. CASE R = Offset
    <3>1. d = buf
      BY Zenon, <1>1, <2>3 DEF Bounced
    <3>2. Store!Overlay(ReadData(cache, s), buf) = buf
      BY Zenon, <1>1, <2>3 DEF Store!Overlay
    <3>3. QED BY Zenon, <2>1, <3>1, <3>2
  <2>4. QED BY Zenon, <2>2, <2>3
<1>4. Good(b) /\ \A x \in Sector : ReadData(b, x) = ReadData(cache, x)
  BY Zenon, <1>0, ReadGood DEF Bounce
<1>5. cache' = cache_write(b, s, d) /\ out' = out /\ i' = -1
  BY Zenon DEF cache_write_bytes, MayCall
<1> HIDE DEF b, d
<1>6. /\ Good(cache)'
      /\ \A x \in Sector :
           ReadData(cache', x) = IF x = s THEN d ELSE ReadData(cache, x)
  BY <1>3, <1>4, <1>5, WriteGood
<1>7. Content[s] = ReadData(cache, s)
  BY Zenon DEF Content
<1>8. Content' = [Content EXCEPT ![s] = d]
  BY Zenon, <1>6 DEF Content
<1>9. QED BY Zenon, <1>3, <1>5, <1>6, <1>7, <1>8, NoSync DEF Store!Write

\* cache_sync only moves data to the disk, an outdated copy before the
\* current one.
LEMMA SyncStep ==
  ASSUME IInv, cache_sync \/ SyncEntry \/ SyncEnd
  PROVE  IInv' /\ UNCHANGED Store!vars
<1>0. Good(cache) /\ cache \in CacheState /\ Synced /\ i \in -1..cache.entry_num
  BY Zenon DEF IInv, Good
<1>1. CASE cache_sync
  <2>1. cache' = cache /\ out' = out /\ i' = 0 /\ cache.entry_num \in Nat
    BY <1>0, <1>1 DEF cache_sync, CacheState
  <2>2. \A s \in Sector : Hits(cache, s) # {} => ~(Last(cache, s) < 0)
    BY <1>0, LastIs, UsedSlots DEF Hits
  <2>3. Synced'
    BY Zenon, <2>1, <2>2 DEF Synced
  <2>4. QED BY <1>0, <2>1, <2>3 DEF IInv, Store!vars, Content
<1>2. CASE SyncEnd
  <2>1. cache' = cache /\ out' = out /\ i' = -1
    BY Zenon, <1>2 DEF SyncEnd
  <2>2. QED BY Zenon, <1>0, <2>1, NoSync DEF Store!vars, Content
<1>3. CASE SyncEntry
  <2> DEFINE o == cache.sector[i]
  <2>1. i \in Used(cache) /\ i \in Slot /\ o \in Sector /\ i' = i + 1 /\ out' = out
    BY Zenon, <1>0, <1>3, UsedSlots DEF SyncEntry, Good
  <2>2. cache' = [cache EXCEPT !.disk[o] = cache.data[i]]
    BY Zenon, <1>3 DEF SyncEntry
  <2>3. i \in Hits(cache, o)
    BY Zenon, <2>1 DEF Hits
  <2> HIDE DEF o
  <2>4. /\ cache' \in CacheState /\ cache'.entry_num = cache.entry_num
        /\ cache'.sector = cache.sector /\ cache'.ref_count = cache.ref_count
        /\ cache'.write = cache.write /\ cache'.data = cache.data
        /\ cache'.disk = [cache.disk EXCEPT ![o] = cache.data[i]]
    BY Zenon, <1>0, <2>1, <2>2 DEF CacheState
  <2>5. Used(cache') = Used(cache) /\ \A x : Hits(cache', x) = Hits(cache, x)
    BY Zenon, <2>4 DEF Used, Hits
  <2>6. Good(cache)'
    BY <1>0, <2>4, <2>5 DEF Good
  <2>7. \A x \in Sector : Hits(cache, x) # {} => Last(cache', x) = Last(cache, x)
    BY Zenon, <1>0, <2>4, <2>5, LastSame
  <2>8. \A x \in Sector : cache'.disk[x] = IF x = o THEN cache.data[i] ELSE cache.disk[x]
    BY Zenon, <1>0, <2>1, <2>4 DEF CacheState
  <2>9. \A x \in Sector : ReadData(cache', x) = ReadData(cache, x)
    BY Zenon, <2>3, <2>4, <2>5, <2>7, <2>8 DEF ReadData
  <2>10. Content' = Content
    BY Zenon, <2>9 DEF Content
  <2>11. ASSUME NEW s \in Sector, Hits(cache, s) # {}, Last(cache, s) < i + 1
         PROVE  cache'.disk[s] = cache.data[Last(cache, s)]
    <3>1. /\ Last(cache, s) \in Hits(cache, s) /\ Last(cache, s) \in Nat /\ i \in Nat
          /\ \A j \in Hits(cache, s) : j <= Last(cache, s)
      BY Zenon, <1>0, <2>1, <2>11, LastIs, UsedSlots DEF Hits
    <3>2. CASE s = o
      <4>1. Last(cache, s) = i
        BY <2>3, <2>11, <3>1, <3>2
      <4>2. QED BY Zenon, <2>8, <3>2, <4>1
    <3>3. CASE s # o
      <4>1. Last(cache, s) # i
        BY Zenon, <3>1, <3>3 DEF Hits, o
      <4>2. Last(cache, s) < i
        BY <2>11, <3>1, <4>1
      <4>3. QED BY Zenon, <1>0, <2>8, <2>11, <3>3, <4>2 DEF Synced
    <3>4. QED BY Zenon, <3>2, <3>3
  <2>12. Synced'
    BY Zenon, <2>1, <2>4, <2>5, <2>7, <2>11 DEF Synced
  <2>13. i' \in -1..cache'.entry_num
    BY <1>0, <2>1, <2>4 DEF Used, CacheState
  <2>14. QED BY Zenon, <2>1, <2>6, <2>10, <2>12, <2>13 DEF IInv, Store!vars
<1>4. QED BY Zenon, <1>1, <1>2, <1>3

\* A step that changes nothing keeps the invariant.
LEMMA Stutter == ASSUME IInv, UNCHANGED vars PROVE IInv' /\ UNCHANGED Store!vars
BY SMTT(30) DEF IInv, Good, Synced, Content, vars, Store!vars, Hits, Used, Last

\* Every step keeps the invariant and is a step of the array of sectors.
LEMMA StepOK == ASSUME IInv, [Next]_vars PROVE IInv' /\ [Store!Next]_Store!vars
<1>1. ASSUME NEW s \in Sector, NEW R \in Ranges, cache_read_bytes(s, R)
      PROVE  IInv' /\ Store!Next
  <2>1. IInv' /\ Store!Read(s, R)
    BY Zenon, <1>1, ReadStep
  <2>2. R \in SUBSET Offset
    BY DEF Ranges, Offset
  <2>3. QED BY Zenon, <2>1, <2>2 DEF Store!Next
<1>2. ASSUME NEW s \in Sector, NEW R \in Ranges, NEW buf \in [R -> Byte],
             cache_write_bytes(s, buf)
      PROVE  IInv' /\ Store!Next
  <2>1. IInv' /\ Store!Write(s, buf)
    BY Zenon, <1>2, WriteStep
  <2>2. R \in SUBSET Offset
    BY DEF Ranges, Offset
  <2>3. buf \in Store!Buffer
    BY Zenon, <2>2 DEF Store!Buffer
  <2>4. QED BY Zenon, <2>1, <2>3 DEF Store!Next
<1>3. QED BY Zenon, <1>1, <1>2, SyncStep, Stutter DEF Next
-----------------------------------------------------------------------------
\* IInv is an invariant of the buffer cache: no call leaves an entry without
\* a sector, copies of different ages, or copies beside a free entry.
THEOREM Invariance == Spec => []IInv
<1>1. cache_init => IInv
  BY Zenon, InitOK
<1>2. IInv /\ [Next]_vars => IInv'
  BY Zenon, StepOK
<1>3. QED BY <1>1, <1>2, PTL DEF Spec

\* The cache never uses an entry it does not have, and every entry in use
\* holds a sector of the device.
THEOREM TypeCorrect == Spec => []TypeOK
<1>1. IInv => TypeOK
  BY Zenon DEF IInv, Good, TypeOK
<1>2. QED BY <1>1, Invariance, PTL

\* Copies of a sector stay of the same age: the eviction by ref_count in
\* cache_write always takes the outdated copy before the current one.
THEOREM CopiesSameAge == Spec => []TwinsSameAge
<1>1. IInv => TwinsSameAge
  BY Zenon DEF IInv, Good, TwinsSameAge
<1>2. QED BY <1>1, Invariance, PTL

\* At the end of the loop of cache_sync the disk holds what callers see.
THEOREM SyncIsComplete == Spec => []SyncComplete
<1>1. ASSUME IInv, i = cache.entry_num PROVE cache.disk = Content
  <2>1. cache \in CacheState /\ Synced
    BY Zenon, <1>1 DEF IInv, Good
  <2>2. ASSUME NEW s \in Sector PROVE cache.disk[s] = ReadData(cache, s)
    <3>1. CASE Hits(cache, s) # {}
      <4>1. Last(cache, s) \in Used(cache)
        BY Zenon, <2>1, <3>1, LastIs DEF Hits
      <4>2. Last(cache, s) < i
        BY <1>1, <2>1, <4>1 DEF Used, CacheState
      <4>3. QED BY Zenon, <2>1, <3>1, <4>2 DEF Synced, ReadData
    <3>2. CASE Hits(cache, s) = {}
      BY Zenon, <3>2 DEF ReadData
    <3>3. QED BY Zenon, <3>1, <3>2
  <2>3. cache.disk \in [Sector -> Data]
    BY Zenon, <2>1 DEF CacheState
  <2>4. QED BY Zenon, <2>2, <2>3 DEF Content
<1>2. IInv => SyncComplete
  BY Zenon, <1>1 DEF SyncComplete
<1>3. QED BY <1>2, Invariance, PTL

\* The cache implements the array of sectors, whatever it holds or evicts.
THEOREM Transparent == Spec => ImplementsStore
<1>1. cache_init => Store!Init
  BY Zenon, InitOK
<1>2. IInv /\ [Next]_vars => [Store!Next]_Store!vars
  BY Zenon, StepOK
<1>3. QED BY <1>1, <1>2, Invariance, PTL DEF Spec, ImplementsStore, Store!Spec

\* Every call does to the array of sectors what its own arguments say.
THEOREM CallsAreExact == Spec => CallsExact
<1> DEFINE Exact ==
      /\ \A s \in Sector, R \in Ranges :
           /\ cache_read_bytes(s, R) => Store!Read(s, R)
           /\ \A buf \in [R -> Byte] : cache_write_bytes(s, buf) => Store!Write(s, buf)
      /\ cache_sync \/ SyncEntry \/ SyncEnd => UNCHANGED Store!vars
<1>1. IInv => Exact
  BY Zenon, ReadStep, WriteStep, SyncStep
<1>2. IInv /\ [Next]_vars => [Exact]_vars
  BY Zenon, <1>1
<1>3. CallsExact <=> [][Exact]_vars
  BY Zenon DEF CallsExact
<1> HIDE DEF Exact
<1>4. QED BY <1>2, <1>3, Invariance, PTL DEF Spec
-----------------------------------------------------------------------------
\* The descriptors: userprog/syscall.c and filesys/file.c.
CONSTANTS Proc, File, Dir, MaxFd, MaxLength
VARIABLES open_list, fd_count, exec_file, opens, deny, length, version, stop
Fd == INSTANCE FdTable
Sequence == INSTANCE SequenceTheorems

Info == [fd : Int, ino : Fd!Ino, file : BOOLEAN, pos : Int]
FdTyped ==
  /\ open_list \in [Proc -> Seq(Info)] /\ fd_count \in [Proc -> Int]
  /\ length \in [Fd!Ino -> Int]
\* FdsAscending, for one list.
Ascends(s, last) ==
  /\ \A h, j \in 1..Len(s) : h < j => s[h].fd < s[j].fd
  /\ \A h \in 1..Len(s) : 4 <= s[h].fd /\ s[h].fd <= last
FdInv ==
  /\ FdTyped
  /\ \A p \in Proc : Ascends(open_list[p], fd_count[p]) /\ fd_count[p] >= 3
-----------------------------------------------------------------------------
\* The entries of a list have descriptors, which create_files_struct gave them.
LEMMA FdFacts ==
  ASSUME NEW s \in Seq(Info)
  PROVE  Len(s) \in Nat /\ \A j \in 1..Len(s) : s[j] \in Info /\ s[j].fd \in Int
<1>1. Len(s) \in Nat /\ \A j \in 1..Len(s) : s[j] \in Info
  BY Zenon, Sequence!LenProperties, Sequence!ElementOfSeq
<1> QED
  BY Zenon, <1>1 DEF Info

\* A list with another element at its end, as list_push_back leaves it.
LEMMA AppendFacts ==
  ASSUME NEW s \in Seq(Info), NEW e \in Info
  PROVE  /\ Append(s, e) \in Seq(Info) /\ Len(Append(s, e)) = Len(s) + 1
         /\ \A h \in 1..Len(s) : Append(s, e)[h] = s[h]
         /\ Append(s, e)[Len(s) + 1] = e
BY Sequence!AppendProperties

\* A list without one of its elements, as list_remove leaves it.
LEMMA WithoutFacts ==
  ASSUME NEW s \in Seq(Info), NEW h \in 1..Len(s)
  PROVE  /\ Fd!Without(s, h) \in Seq(Info) /\ Len(Fd!Without(s, h)) = Len(s) - 1
         /\ \A j \in 1..(Len(s) - 1) : Fd!Without(s, h)[j] = IF j < h THEN s[j] ELSE s[j + 1]
<1>1. Len(s) \in Nat /\ Len(s) - 1 \in Nat
  BY Sequence!LenProperties
<1>2. \A j \in 1..(Len(s) - 1) : (IF j < h THEN s[j] ELSE s[j + 1]) \in Info
  BY <1>1, Sequence!ElementOfSeq
<1>3. Fd!Without(s, h) \in [1..(Len(s) - 1) -> Info]
  BY Zenon, <1>2 DEF Fd!Without
<1>4. Fd!Without(s, h) \in Seq(Info)
  BY <1>1, <1>3
<1>5. Len(Fd!Without(s, h)) = Len(s) - 1
  BY <1>1, <1>3, <1>4, Sequence!LenProperties
<1> QED
  BY Zenon, <1>4, <1>5 DEF Fd!Without

\* A list with one of its elements changed, but not its descriptor, is in order
\* if it was: file_read, file_write, file_seek and SYS_READDIR do this.
LEMMA ChangedAscends ==
  ASSUME NEW s \in Seq(Info), NEW h \in 1..Len(s), NEW e \in Info, e.fd = s[h].fd,
         NEW last \in Int, Ascends(s, last)
  PROVE  [s EXCEPT ![h] = e] \in Seq(Info) /\ Ascends([s EXCEPT ![h] = e], last)
<1>1. /\ [s EXCEPT ![h] = e] \in Seq(Info) /\ Len([s EXCEPT ![h] = e]) = Len(s)
      /\ \A j \in 1..Len(s) : [s EXCEPT ![h] = e][j].fd = s[j].fd
  BY Sequence!ExceptSeq
<1> QED
  BY Zenon, <1>1 DEF Ascends
-----------------------------------------------------------------------------
\* files_helper stops at an entry when there is one to stop at.
LEMMA HelperStops ==
  ASSUME FdTyped, NEW p \in Proc, NEW fd, Fd!StopsAt(p, fd) # {}
  PROVE  \E h \in Fd!StopsAt(p, fd) :
           Fd!files_helper(p, fd) = IF open_list[p][h].fd = fd THEN h ELSE Fd!NONE
<1> DEFINE S == Fd!StopsAt(p, fd)
<1>1. S \in SUBSET Nat /\ S # {}
  BY Sequence!LenProperties DEF Fd!StopsAt, FdTyped
<1>2. \E h \in S : \A j \in S : h <= j
  <2> HIDE DEF S
  <2> QED
    BY Zenon, <1>1, Least
<1>3. (CHOOSE k \in S : \A j \in S : k <= j) \in S
  BY Zenon, <1>2
<1> QED
  BY Zenon, <1>3 DEF Fd!files_helper

\* What files_helper returns when it returns an entry is one, with the
\* descriptor asked for.
LEMMA HelperFinds ==
  ASSUME FdTyped, NEW p \in Proc, NEW fd,
         Fd!files_helper(p, fd) # Fd!NONE, Fd!files_helper(p, fd) # Fd!BOGUS
  PROVE  /\ Fd!files_helper(p, fd) \in 1..Len(open_list[p])
         /\ open_list[p][Fd!files_helper(p, fd)].fd = fd
<1>1. Fd!StopsAt(p, fd) # {}
  BY Zenon DEF Fd!files_helper
<1>2. PICK h \in Fd!StopsAt(p, fd) : Fd!files_helper(p, fd) = IF open_list[p][h].fd = fd THEN h ELSE Fd!NONE
  BY Zenon, <1>1, HelperStops
<1> QED
  BY Zenon, <1>2 DEF Fd!StopsAt
-----------------------------------------------------------------------------
\* A process starts with no entries and fd_count 3.
LEMMA InitIInv == Fd!Init => FdInv
<1> SUFFICES ASSUME Fd!Init PROVE FdInv
  BY Zenon
<1>1. <<>> \in Seq(Info) /\ Len(<<>>) = 0
  BY Zenon, Sequence!EmptySeq
<1>2. FdTyped
  BY <1>1 DEF Fd!Init, FdTyped, Fd!Ino
<1> QED
  BY <1>1, <1>2 DEF FdInv, Fd!Init, Ascends

\* create_files_struct appends the descriptor above fd_count.
LEMMA OpenStep ==
  ASSUME FdInv, NEW p \in Proc, NEW h \in Fd!Ino, Fd!sys_open(p, h)
  PROVE  FdInv'
<1> DEFINE s == open_list[p]
           e == Fd!create_files_struct(p, h)
<1>1. s \in Seq(Info) /\ Len(s) \in Nat /\ fd_count[p] \in Int /\ fd_count[p] >= 3 /\ Ascends(s, fd_count[p])
  BY Zenon, Sequence!LenProperties DEF FdInv, FdTyped
<1>2. e \in Info /\ e.fd = fd_count[p] + 1
  BY <1>1 DEF Fd!create_files_struct, Fd!find_fd, Info
<1>3. /\ open_list' = [open_list EXCEPT ![p] = Append(s, e)]
      /\ fd_count' = [fd_count EXCEPT ![p] = fd_count[p] + 1] /\ length' = length
  BY Zenon DEF Fd!sys_open, Fd!find_fd
<1> HIDE DEF s, e
<1>4. Append(s, e) \in Seq(Info) /\ Ascends(Append(s, e), fd_count[p] + 1)
  <2>1. /\ Append(s, e) \in Seq(Info) /\ Len(Append(s, e)) = Len(s) + 1
        /\ \A j \in 1..Len(s) : Append(s, e)[j] = s[j]
        /\ Append(s, e)[Len(s) + 1] = e
    BY Zenon, <1>1, <1>2, AppendFacts
  <2>2. \A j \in 1..Len(s) : s[j].fd \in Int
    BY Zenon, <1>1, FdFacts
  <2>3. \A j, k \in 1..(Len(s) + 1) : j < k => Append(s, e)[j].fd < Append(s, e)[k].fd
    <3> SUFFICES ASSUME NEW j \in 1..(Len(s) + 1), NEW k \in 1..(Len(s) + 1), j < k
                 PROVE  Append(s, e)[j].fd < Append(s, e)[k].fd
      BY Zenon
    <3>1. j \in 1..Len(s)
      BY <1>1
    <3>2. CASE k = Len(s) + 1
      BY <3>1, <3>2, <2>1, <2>2, <1>1, <1>2 DEF Ascends
    <3>3. CASE k # Len(s) + 1
      BY <3>1, <3>3, <2>1, <1>1 DEF Ascends
    <3> QED
      BY Zenon, <3>2, <3>3
  <2>4. \A j \in 1..(Len(s) + 1) : 4 <= Append(s, e)[j].fd /\ Append(s, e)[j].fd <= fd_count[p] + 1
    <3> SUFFICES ASSUME NEW j \in 1..(Len(s) + 1)
                 PROVE  4 <= Append(s, e)[j].fd /\ Append(s, e)[j].fd <= fd_count[p] + 1
      BY Zenon
    <3>1. CASE j = Len(s) + 1
      BY <3>1, <2>1, <1>1, <1>2
    <3>2. CASE j # Len(s) + 1
      <4>1. j \in 1..Len(s)
        BY <3>2, <1>1
      <4> QED
        BY <4>1, <2>1, <2>2, <1>1 DEF Ascends
    <3> QED
      BY Zenon, <3>1, <3>2
  <2> QED
    BY Zenon, <2>1, <2>3, <2>4 DEF Ascends
<1>5. FdTyped'
  BY <1>1, <1>3, <1>4 DEF FdInv, FdTyped
<1> QED
  BY <1>1, <1>3, <1>4, <1>5 DEF FdInv, FdTyped

\* SYS_CLOSE removes one entry, and lowers fd_count only if that was the last.
LEMMA CloseStep ==
  ASSUME FdInv, NEW p \in Proc, NEW fd, Fd!sys_close(p, fd)
  PROVE  FdInv'
<1> DEFINE s == open_list[p]
           h == Fd!files_helper(p, fd)
           n == IF fd = fd_count[p] THEN fd_count[p] - 1 ELSE fd_count[p]
<1>1. s \in Seq(Info) /\ Len(s) \in Nat /\ fd_count[p] \in Int /\ fd_count[p] >= 3 /\ Ascends(s, fd_count[p])
  BY Zenon, Sequence!LenProperties DEF FdInv, FdTyped
<1>2. CASE h = Fd!BOGUS
  BY Zenon, <1>2 DEF Fd!sys_close, Fd!Stops, FdInv, FdTyped, Ascends
<1>3. CASE h # Fd!BOGUS
  <2>1. h \in 1..Len(s) /\ s[h].fd = fd
    BY Zenon, <1>3, HelperFinds DEF Fd!sys_close, FdInv
  <2>2. /\ open_list' = [open_list EXCEPT ![p] = Fd!Without(s, h)]
        /\ fd_count' = [fd_count EXCEPT ![p] = n] /\ length' = length
    BY Zenon, <1>3 DEF Fd!sys_close
  <2> HIDE DEF s, h
  <2>3. s[h].fd \in Int /\ \A j \in 1..Len(s) : s[j].fd \in Int
    BY Zenon, <1>1, <2>1, FdFacts
  \* The entry of fd_count is the last one.
  <2>4. \A j \in 1..Len(s) : j # h => s[j].fd <= n
    BY <1>1, <2>1, <2>3 DEF Ascends
  <2>5. n \in Int /\ n >= 3
    BY <1>1, <2>1, <2>3 DEF Ascends
  <2> HIDE DEF n
  <2>6. Fd!Without(s, h) \in Seq(Info) /\ Ascends(Fd!Without(s, h), n)
    <3>1. /\ Fd!Without(s, h) \in Seq(Info) /\ Len(Fd!Without(s, h)) = Len(s) - 1
          /\ \A j \in 1..(Len(s) - 1) : Fd!Without(s, h)[j] = IF j < h THEN s[j] ELSE s[j + 1]
      BY Zenon, <1>1, <2>1, WithoutFacts
    <3>2. ASSUME NEW j \in 1..(Len(s) - 1), NEW k \in 1..(Len(s) - 1), j < k
          PROVE  Fd!Without(s, h)[j].fd < Fd!Without(s, h)[k].fd
      <4> DEFINE at(m) == IF m < h THEN m ELSE m + 1
      <4>1. at(j) \in 1..Len(s) /\ at(k) \in 1..Len(s) /\ at(j) < at(k)
        BY <3>2, <1>1, <2>1
      <4>2. Fd!Without(s, h)[j] = s[at(j)] /\ Fd!Without(s, h)[k] = s[at(k)]
        BY Zenon, <3>1
      <4> HIDE DEF at
      <4> QED
        BY Zenon, <4>1, <4>2, <1>1 DEF Ascends
    <3>3. \A j \in 1..(Len(s) - 1) : 4 <= Fd!Without(s, h)[j].fd /\ Fd!Without(s, h)[j].fd <= n
      BY SMTT(30), <1>1, <2>1, <2>3, <2>4, <3>1 DEF Ascends
    <3> QED
      BY Zenon, <3>1, <3>2, <3>3 DEF Ascends
  <2>7. FdTyped'
    BY Zenon, <1>1, <2>2, <2>5, <2>6 DEF FdInv, FdTyped
  <2> QED
    BY Zenon, <1>1, <2>2, <2>5, <2>6, <2>7 DEF FdInv, FdTyped
<1> QED
  BY Zenon, <1>2, <1>3

\* A step that leaves the lists and counts alone: the ASSERTs that stop the
\* kernel, load, and what a call returns early from.
LEMMA ListsUnchanged ==
  ASSUME FdInv, UNCHANGED <<open_list, fd_count, length>>
  PROVE  FdInv'
BY Zenon DEF FdInv, FdTyped, Ascends

\* A step that changes an entry, but not its descriptor.
LEMMA ChangedStep ==
  ASSUME FdInv, NEW p \in Proc, NEW h \in 1..Len(open_list[p]), NEW e \in Info,
         e.fd = open_list[p][h].fd, open_list' = [open_list EXCEPT ![p] = [@ EXCEPT ![h] = e]],
         fd_count' = fd_count, length' \in [Fd!Ino -> Int]
  PROVE  FdInv'
<1> DEFINE s == [open_list[p] EXCEPT ![h] = e]
<1>1. open_list[p] \in Seq(Info) /\ fd_count[p] \in Int /\ Ascends(open_list[p], fd_count[p])
  BY Zenon DEF FdInv, FdTyped
<1>2. s \in Seq(Info) /\ Ascends(s, fd_count[p])
  BY Zenon, <1>1, ChangedAscends
<1>3. open_list' = [open_list EXCEPT ![p] = s]
  BY Zenon
<1> HIDE DEF s
<1>4. FdTyped'
  BY Zenon, <1>2, <1>3 DEF FdInv, FdTyped
<1> QED
  BY Zenon, <1>2, <1>3, <1>4 DEF FdInv, FdTyped

\* file_read, file_write and file_seek move the position of an entry.
LEMMA MovedStep ==
  ASSUME FdInv, NEW p \in Proc, NEW h \in 1..Len(open_list[p]), NEW pos \in Int,
         Fd!Moved(p, h, pos), length' \in [Fd!Ino -> Int]
  PROVE  FdInv'
<1> DEFINE e == [open_list[p][h] EXCEPT !.pos = pos]
<1>1. open_list[p] \in Seq(Info) /\ open_list[p][h] \in Info
  BY Zenon, FdFacts DEF FdInv, FdTyped
<1>2. e \in Info /\ e.fd = open_list[p][h].fd
  BY Zenon, <1>1 DEF Info
<1>3. open_list' = [open_list EXCEPT ![p] = [open_list[p] EXCEPT ![h] = e]] /\ fd_count' = fd_count
  BY Zenon DEF Fd!Moved
<1> HIDE DEF e
<1> QED
  BY Zenon, <1>2, <1>3, ChangedStep

\* read and write, of size bytes, keep the descriptors.
LEMMA ReadWriteStep ==
  ASSUME FdInv, NEW p \in Proc, NEW fd, NEW size \in Int, Fd!sys_read(p, fd, size) \/ Fd!sys_write(p, fd, size)
  PROVE  FdInv'
<1> DEFINE h == Fd!files_helper(p, fd)
           f == open_list[p][h]
<1>1. CASE h = Fd!BOGUS
  BY Zenon, <1>1, ListsUnchanged DEF Fd!sys_read, Fd!sys_write, Fd!Stops
<1>2. CASE h # Fd!BOGUS
  <2>1. h # Fd!NONE
    BY Zenon DEF Fd!sys_read, Fd!sys_write
  <2>2. h \in 1..Len(open_list[p])
    BY Zenon, <1>2, <2>1, HelperFinds DEF FdInv
  <2>3. f \in Info /\ f.pos \in Int /\ f.ino \in Fd!Ino
    BY ZenonT(30), <2>2, FdFacts DEF FdInv, FdTyped, Info
  <2>4. length \in [Fd!Ino -> Int] /\ length[f.ino] \in Int
    BY Zenon, <2>3 DEF FdInv, FdTyped
  <2>5. CASE Fd!sys_read(p, fd, size)
    <3> DEFINE left == length[f.ino] - f.pos
               pos == IF left < 0 THEN f.pos ELSE f.pos + (IF size < left THEN size ELSE left)
    <3>1. pos \in Int
      BY SMTT(30), <2>3, <2>4
    <3>2. Fd!Moved(p, h, pos) /\ length' = length
      BY Zenon, <2>5, <1>2 DEF Fd!sys_read
    <3> HIDE DEF pos, h
    <3> QED
      BY Zenon, <3>1, <3>2, <2>2, <2>4, MovedStep
  <2>6. CASE Fd!sys_write(p, fd, size)
    <3> DEFINE end == f.pos + size
    <3>1. end \in Int
      BY SMTT(30), <2>3
    <3>2. Fd!Moved(p, h, end) /\ length' = [length EXCEPT ![f.ino] = IF end > length[f.ino] THEN end ELSE length[f.ino]]
      BY Zenon, <2>6, <1>2 DEF Fd!sys_write
    <3>3. length' \in [Fd!Ino -> Int]
      BY Zenon, <3>1, <3>2, <2>4
    <3> HIDE DEF end, h
    <3> QED
      BY Zenon, <3>1, <3>2, <3>3, <2>2, MovedStep
  <2> QED
    BY Zenon, <2>5, <2>6
<1> QED
  BY Zenon, <1>1, <1>2

\* SYS_SEEK keeps the descriptors.
LEMMA SeekStep ==
  ASSUME FdInv, NEW p \in Proc, NEW fd, NEW pos \in Int, Fd!sys_seek(p, fd, pos)
  PROVE  FdInv'
<1> DEFINE h == Fd!files_helper(p, fd)
<1>1. CASE UNCHANGED <<open_list, fd_count, length>>
  BY Zenon, <1>1, ListsUnchanged
<1>2. CASE h # Fd!BOGUS /\ Fd!Moved(p, h, pos) /\ UNCHANGED <<length, version>>
  <2>1. h \in 1..Len(open_list[p])
    BY Zenon, <1>2, HelperFinds DEF FdInv, Fd!sys_seek
  <2>2. length' \in [Fd!Ino -> Int]
    BY Zenon, <1>2 DEF FdInv, FdTyped
  <2> HIDE DEF h
  <2> QED
    BY Zenon, <1>2, <2>1, <2>2, MovedStep
<1> QED
  BY Zenon, <1>1, <1>2 DEF Fd!sys_seek, Fd!Stops

\* SYS_READDIR keeps the descriptors.
LEMMA ReaddirStep ==
  ASSUME FdInv, NEW p \in Proc, NEW fd, Fd!sys_readdir(p, fd)
  PROVE  FdInv'
<1> DEFINE h == Fd!files_helper(p, fd)
           f == open_list[p][h]
<1>1. CASE h = Fd!BOGUS \/ h = Fd!NONE
  BY Zenon, <1>1, ListsUnchanged DEF Fd!sys_readdir, Fd!Stops, Fd!BOGUS, Fd!NONE
<1>2. CASE h # Fd!BOGUS /\ h # Fd!NONE
  <2>1. h \in 1..Len(open_list[p])
    BY Zenon, <1>2, HelperFinds DEF FdInv
  <2>2. f \in Info /\ f.pos \in Int
    BY Zenon, <2>1, FdFacts DEF FdInv, FdTyped, Info
  <2>3. PICK pos \in f.pos..MaxLength :
          /\ open_list' = [open_list EXCEPT ![p][h] = [f EXCEPT !.file = TRUE, !.pos = pos]]
          /\ UNCHANGED <<fd_count, length>>
    <3> HIDE DEF h
    <3> QED
      BY Zenon, <1>2 DEF Fd!sys_readdir, h
  <2> DEFINE e == [f EXCEPT !.file = TRUE, !.pos = pos]
  <2>4. e \in Info /\ e.fd = f.fd
    <3>1. pos \in Int
      BY <2>2
    <3> HIDE DEF f
    <3> QED
      BY Zenon, <2>2, <3>1 DEF Info
  <2>5. open_list' = [open_list EXCEPT ![p] = [open_list[p] EXCEPT ![h] = e]]
    BY Zenon, <2>3
  <2>6. length' \in [Fd!Ino -> Int]
    BY Zenon, <2>3 DEF FdInv, FdTyped
  <2> HIDE DEF h, e
  <2> QED
    BY Zenon, <2>1, <2>3, <2>4, <2>5, <2>6, ChangedStep
<1> QED
  BY Zenon, <1>1, <1>2

\* process_exit frees all entries.
LEMMA ExitStep ==
  ASSUME FdInv, NEW p \in Proc, Fd!exit(p)
  PROVE  FdInv'
<1>1. <<>> \in Seq(Info) /\ Len(<<>>) = 0
  BY Zenon, Sequence!EmptySeq
<1>2. /\ open_list' = [open_list EXCEPT ![p] = <<>>] /\ fd_count' = [fd_count EXCEPT ![p] = 3]
      /\ length' = length
  BY Zenon DEF Fd!exit
<1>3. FdTyped'
  BY <1>1, <1>2 DEF FdInv, FdTyped
<1> QED
  BY <1>1, <1>2, <1>3 DEF FdInv, FdTyped, Ascends
-----------------------------------------------------------------------------
\* Every call keeps the lists in order.
LEMMA NextIInv == FdInv /\ [Fd!Next]_(Fd!vars) => FdInv'
<1> SUFFICES ASSUME FdInv, [Fd!Next]_(Fd!vars) PROVE FdInv'
  BY Zenon
<1>1. ASSUME NEW p \in Proc, NEW h \in Fd!Ino, Fd!sys_open(p, h) PROVE FdInv'
  BY Zenon, <1>1, OpenStep
<1>2. ASSUME NEW p \in Proc, NEW h \in File, Fd!load(p, h) PROVE FdInv'
  BY Zenon, <1>2, ListsUnchanged DEF Fd!load
<1>3. ASSUME NEW p \in Proc, NEW fd \in 2..MaxFd,
             \/ Fd!sys_close(p, fd) \/ Fd!sys_read(p, fd, 1) \/ Fd!sys_write(p, fd, 1)
             \/ Fd!sys_tell(p, fd) \/ Fd!sys_readdir(p, fd) \/ Fd!sys_isdir(p, fd)
      PROVE  FdInv'
  <2>1. CASE Fd!sys_tell(p, fd) \/ Fd!sys_isdir(p, fd)
    BY Zenon, <2>1, ListsUnchanged DEF Fd!sys_tell, Fd!sys_isdir, Fd!Stops
  <2> QED
    BY <1>3, <2>1, CloseStep, ReadWriteStep, ReaddirStep
<1>4. ASSUME NEW p \in Proc, NEW fd \in 2..MaxFd, NEW pos \in -1..MaxLength, Fd!sys_seek(p, fd, pos)
      PROVE  FdInv'
  BY <1>4, SeekStep
<1>5. ASSUME NEW p \in Proc, Fd!exit(p) \/ Fd!exit_allows(p) PROVE FdInv'
  BY Zenon, <1>5, ExitStep, ListsUnchanged DEF Fd!exit_allows, Fd!Stops
<1>6. CASE UNCHANGED Fd!vars
  BY Zenon, <1>6, ListsUnchanged DEF Fd!vars
<1> QED
  BY Zenon, <1>1, <1>2, <1>3, <1>4, <1>5, <1>6 DEF Fd!Next

\* Whatever files a process opens, closes, reads and writes, in any number, its
\* lists are in order.
THEOREM DescriptorsInvariance == Fd!Spec => []FdInv
BY InitIInv, NextIInv, PTL DEF Fd!Spec

\* create_files_struct never gives out a descriptor in use, though SYS_CLOSE
\* lowers fd_count again, and each list is in the order of its descriptors.
THEOREM DescriptorsAscend == Fd!Spec => []Fd!FdsAscending
<1>1. FdInv => Fd!FdsAscending
  BY Zenon DEF FdInv, Ascends, Fd!FdsAscending
<1> QED
  BY <1>1, DescriptorsInvariance, PTL

\* files_helper, which compares with the tail of a copy of the list and returns
\* early at an entry not below fd_count, finds every descriptor that is open,
\* and takes the tail for an entry only for fd_count when that is not open.
THEOREM LookupsExact == Fd!Spec => []Fd!LookupExact
<1>1. ASSUME FdInv, NEW p \in Proc, NEW fd \in 2..(MaxFd + 1)
      PROVE  LET h == Fd!files_helper(p, fd)
                 has == {j \in 1..Len(open_list[p]) : open_list[p][j].fd = fd}
             IN  /\ has # {} => has = {h}
                 /\ has = {} => h = (IF fd = fd_count[p] THEN Fd!BOGUS ELSE Fd!NONE)
  <2> DEFINE s == open_list[p]
             S == Fd!StopsAt(p, fd)
             h == Fd!files_helper(p, fd)
             has == {j \in 1..Len(s) : s[j].fd = fd}
  <2>1. /\ Len(s) \in Nat /\ \A j \in 1..Len(s) : s[j].fd \in Int
        /\ fd_count[p] \in Int /\ Ascends(s, fd_count[p])
    BY Zenon, <1>1, FdFacts DEF FdInv, FdTyped
  <2>2. ASSUME has # {} PROVE has = {h}
    <3>1. PICK j \in 1..Len(s) : s[j].fd = fd
      BY Zenon, <2>2
    <3>2. has = {j}
      BY <3>1, <2>1 DEF Ascends
    <3>3. j \in S /\ S \subseteq 1..Len(s)
      BY Zenon, <3>1 DEF Fd!StopsAt
    \* An entry before j is below fd_count: nothing stops the walk there.
    <3>4. \A k \in S : j <= k
      <4> SUFFICES ASSUME NEW k \in 1..Len(s), k < j PROVE k \notin S
        BY <2>1, <3>1, <3>3
      <4>1. s[k].fd < s[j].fd /\ s[j].fd <= fd_count[p]
        BY Zenon, <2>1, <3>1 DEF Ascends
      <4>2. s[k].fd # fd /\ ~(s[k].fd >= fd_count[p])
        BY <4>1, <3>1, <2>1
      <4> QED
        BY Zenon, <4>2 DEF Fd!StopsAt
    <3>5. (CHOOSE k \in S : \A l \in S : k <= l) = j
      <4> HIDE DEF S
      <4>1. \A k \in S : (\A l \in S : k <= l) => k = j
        BY <3>3, <3>4, <2>1
      <4> QED
        BY Zenon, <3>3, <3>4, <4>1
    <3>6. h = j
      BY Zenon, <3>1, <3>3, <3>5 DEF Fd!files_helper
    <3> QED
      BY Zenon, <3>2, <3>6
  <2>3. ASSUME has = {} PROVE h = (IF fd = fd_count[p] THEN Fd!BOGUS ELSE Fd!NONE)
    <3>1. CASE S = {}
      BY Zenon, <3>1 DEF Fd!files_helper
    <3>2. CASE S # {}
      <4>1. PICK k \in 1..Len(s) : s[k].fd >= fd_count[p]
        BY Zenon, <3>2, <2>3 DEF Fd!StopsAt
      <4>2. s[k].fd = fd_count[p]
        BY <4>1, <2>1 DEF Ascends
      <4>3. fd # fd_count[p]
        BY Zenon, <4>1, <4>2, <2>3
      <4>4. h # Fd!BOGUS
        BY <3>2, <2>1, <1>1, HelperStops DEF FdInv, Fd!StopsAt, Fd!BOGUS, Fd!NONE
      <4>5. h = Fd!NONE
        BY Zenon, <4>4, <2>3, <1>1, HelperFinds DEF FdInv
      <4> QED
        BY Zenon, <4>3, <4>5
    <3> QED
      BY Zenon, <3>1, <3>2
  <2> QED
    BY Zenon, <2>2, <2>3
<1>2. FdInv => Fd!LookupExact
  BY Zenon, <1>1 DEF Fd!LookupExact
<1> QED
  BY <1>2, DescriptorsInvariance, PTL
=============================================================================
