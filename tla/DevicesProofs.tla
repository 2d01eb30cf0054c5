----------------------------- MODULE DevicesProofs --------------------------
(***************************************************************************)
(* The page allocator gives no page to two callers, for any number of      *)
(* pages and threads.  After it, the serial port and the input buffer:     *)
(* every byte arrives once and in order, for any size of the queues.       *)
(***************************************************************************)
EXTENDS Palloc, Sequences, TLAPS

Where == {"idle", "lock", "scan", "flip", "unlock", "clear"}
Place == [at : Where, pool : Pool, cnt : Nat, i : Int, j : Nat, had : BOOLEAN]

Typed ==
  /\ used \subseteq Page /\ lock \in [Pool -> Thread \cup {NONE}]
  /\ held \subseteq [start : Int, cnt : Nat \ {0}]
  /\ pc \in [Thread -> Place] /\ stop = "run"
GroupsInPool == \A g \in held : \E p \in Pool : Group(g) \subseteq PagesOf(p)
\* Who scans or sets bits has the lock of the pool.
Locked == \A t \in Thread : pc[t].at \in {"scan", "flip", "unlock"} => lock[pc[t].pool] = t
\* What the place of a thread in its call says of the bits: those passed in a
\* scan, and those still to be set, are clear.
Scanning(t) ==
  /\ pc[t].at = "scan"
  /\ pc[t].i >= base[pc[t].pool] /\ pc[t].j < pc[t].cnt
  /\ pc[t].j > 0 => MoreToScan(t)
  /\ \A k \in 0 .. pc[t].j - 1 : pc[t].i + k \notin used
Flipping(t) ==
  /\ pc[t].at = "flip"
  /\ pc[t].i >= base[pc[t].pool] /\ MoreToScan(t) /\ pc[t].j < pc[t].cnt
  /\ \A k \in pc[t].j .. pc[t].cnt - 1 : pc[t].i + k \notin used
Unlocking(t) ==
  /\ pc[t].at = "unlock"
  /\ pc[t].i >= base[pc[t].pool] /\ MoreToScan(t) /\ pc[t].j = pc[t].cnt /\ pc[t].cnt > 0
Freeing(t) ==
  /\ pc[t].at = "clear" /\ pc[t].j < pc[t].cnt
  /\ \E p \in Pool : Span(pc[t].i, pc[t].cnt) \subseteq PagesOf(p)
PlaceRight(t) ==
  \/ pc[t].at = "idle" \/ (pc[t].at = "lock" /\ pc[t].cnt > 0 /\ pc[t].j = 0)
  \/ Scanning(t) \/ Flipping(t) \/ Unlocking(t) \/ Freeing(t)
\* UsedExact, page by page.
UsedPage(x) ==
  x \in used <=> \/ \E g \in held : x \in Group(g)
                 \/ \E t \in Thread : x \in Taken(t) \cup Clearing(t)
IInv ==
  /\ Typed /\ GroupsInPool /\ Locked
  /\ \A t \in Thread : PlaceRight(t)
  /\ \A x \in Int : UsedPage(x)
  /\ PagesExclusive
-----------------------------------------------------------------------------
\* The pages of the pools are numbers, and the pools of init_pool do not overlap.
LEMMA PoolFacts ==
  /\ base \in [Pool -> Int] /\ bit_cnt \in [Pool -> Int]
  /\ PagesOf("kernel") \cap PagesOf("user") = {}
  /\ Page \subseteq Int /\ \A p \in Pool : PagesOf(p) \subseteq Page
<1>1. FreePages \div 2 \in Int
  BY PoolsAssumption
<1>2. user_pages \in Int /\ kernel_pages \in Int
  BY <1>1, PoolsAssumption DEF user_pages, kernel_pages
<1>3. base \in [Pool -> Int] /\ bit_cnt \in [Pool -> Int]
  BY <1>2 DEF base, bit_cnt, Pool
<1>4. PagesOf("kernel") = 1 .. kernel_pages - 1 /\ PagesOf("user") = kernel_pages + 1 .. kernel_pages + user_pages - 1
  BY <1>2 DEF PagesOf, base, bit_cnt, Pool
<1> QED
  BY <1>2, <1>3, <1>4 DEF Page, Pool
-----------------------------------------------------------------------------
\* palloc_init leaves every bit clear and no page given: the invariant holds.
LEMMA InitIInv == Init => IInv
<1> SUFFICES ASSUME Init PROVE IInv
  BY Zenon
<1>1. Typed
  BY DEF Init, Typed, Place, Where, Idle, Pool
<1>2. \A t \in Thread : pc[t].at = "idle"
  BY Zenon DEF Init, Idle
<1>3. \A t \in Thread : Taking(t) = {} /\ Taken(t) = {} /\ Clearing(t) = {}
  BY Zenon, <1>2 DEF Taking, Taken, Clearing
<1>4. PagesExclusive
  BY Zenon, <1>3 DEF PagesExclusive, Init
<1>5. \A x \in Int : UsedPage(x)
  BY Zenon, <1>3 DEF UsedPage, Init
<1> QED
  BY Zenon, <1>1, <1>2, <1>4, <1>5 DEF IInv, GroupsInPool, Locked, PlaceRight, Init
-----------------------------------------------------------------------------
\* What a thread has is not changed by a step that leaves its place alone.
LEMMA OwnUnchanged ==
  ASSUME NEW u \in Thread, pc'[u] = pc[u]
  PROVE  Taking(u)' = Taking(u) /\ Taken(u)' = Taken(u) /\ Clearing(u)' = Clearing(u)
BY Zenon DEF Taking, Taken, Clearing

\* What a thread has set is part of what it takes, and it is in a place where
\* all of that is in its pool.
LEMMA OwnFacts ==
  ASSUME IInv, NEW t \in Thread
  PROVE  /\ Taken(t) \subseteq Taking(t) /\ Taking(t) \subseteq Int /\ Clearing(t) \subseteq Int
         /\ Taking(t) # {} => lock[pc[t].pool] = t /\ Taking(t) \subseteq PagesOf(pc[t].pool)
<1>1. pc[t] \in Place /\ PlaceRight(t)
  BY Zenon DEF IInv, Typed
<1>2. base[pc[t].pool] \in Int /\ bit_cnt[pc[t].pool] \in Int
  BY Zenon, <1>1, PoolFacts DEF Place
<1>3. pc[t].at \in {"flip", "unlock"} => lock[pc[t].pool] = t
  BY Zenon DEF IInv, Locked
<1> QED
  BY <1>1, <1>2, <1>3
     DEF Place, PlaceRight, Scanning, Flipping, Unlocking, Freeing, MoreToScan, Taking, Taken, Clearing,
         Span, PagesOf

\* A step of t that clears bits or leaves them alone leaves the places of the
\* others right.
LEMMA OthersRight ==
  ASSUME IInv, NEW u \in Thread, pc'[u] = pc[u], used' \subseteq used
  PROVE  PlaceRight(u)'
<1>1. PlaceRight(u)
  BY Zenon DEF IInv
<1> QED
  BY Zenon, <1>1 DEF PlaceRight, Scanning, Flipping, Unlocking, Freeing, MoreToScan, Span,
     PagesOf
-----------------------------------------------------------------------------
\* palloc_get_multiple, up to its wait for the lock, keeps the invariant.
LEMMA GetStep ==
  ASSUME IInv, NEW t \in Thread, NEW p \in Pool, NEW cnt \in 1 .. MaxCount,
         palloc_get_multiple(t, p, cnt)
  PROVE  IInv'
<1> USE DEF palloc_get_multiple
<1>1. /\ pc' = [pc EXCEPT ![t] = [Idle EXCEPT !.at = "lock", !.pool = p, !.cnt = cnt]]
      /\ UNCHANGED <<used, lock, held, stop>> /\ pc[t].at = "idle" /\ cnt \in Nat /\ cnt > 0
  BY DEF At
<1>2. /\ pc'[t].at = "lock" /\ pc'[t].cnt = cnt /\ pc'[t].j = 0 /\ pc'[t] \in Place
      /\ pc' \in [Thread -> Place] /\ \A u \in Thread \ {t} : pc'[u] = pc[u]
  <2> DEFINE r == [at |-> "lock", pool |-> p, cnt |-> cnt, i |-> 0, j |-> 0, had |-> FALSE]
  <2>1. pc' = [pc EXCEPT ![t] = r]
    BY Zenon, <1>1 DEF Idle
  <2>2. r \in Place
    BY <1>1 DEF Place, Where
  <2>3. pc \in [Thread -> Place]
    BY Zenon DEF IInv, Typed
  <2>4. pc'[t] = r /\ pc' \in [Thread -> Place] /\ \A u \in Thread \ {t} : pc'[u] = pc[u]
    BY Zenon, <2>1, <2>2, <2>3
  <2> QED
    BY ZenonT(30), <2>4, <2>2
<1>3. \A u \in Thread : Taking(u)' = Taking(u) /\ Taken(u)' = Taken(u) /\ Clearing(u)' = Clearing(u)
  <2>1. Taking(t)' = Taking(t) /\ Taken(t)' = Taken(t) /\ Clearing(t)' = Clearing(t)
    BY Zenon, <1>1, <1>2 DEF Taking, Taken, Clearing
  <2> QED
    BY Zenon, <2>1, <1>2, OwnUnchanged
<1>4. Typed' /\ GroupsInPool'
  BY Zenon, <1>1, <1>2 DEF IInv, Typed, GroupsInPool, Group, Span, PagesOf
<1>5. Locked'
  BY Zenon, <1>1, <1>2 DEF IInv, Locked
<1>6. \A u \in Thread : PlaceRight(u)'
  BY Zenon, <1>1, <1>2, OthersRight DEF PlaceRight
<1>7. \A x \in Int : UsedPage(x)'
  BY Zenon, <1>1, <1>3 DEF IInv, UsedPage, Group, Span
<1>8. PagesExclusive'
  BY Zenon, <1>1, <1>3 DEF IInv, PagesExclusive, Group, Span
<1> QED
  BY Zenon, <1>4, <1>5, <1>6, <1>7, <1>8 DEF IInv

\* palloc_get_multiple taking the lock of the pool keeps the invariant.
LEMMA LockStep ==
  ASSUME IInv, NEW t \in Thread, LockPool(t)
  PROVE  IInv'
<1> DEFINE p == pc[t].pool
<1>0. pc[t] \in Place /\ p \in Pool
  BY Zenon DEF IInv, Typed, Place
<1>1. /\ lock[p] = NONE /\ lock' = [lock EXCEPT ![p] = t]
      /\ UNCHANGED <<used, held, stop>> /\ pc[t].at = "lock"
  BY Zenon DEF LockPool, At
<1>2. /\ pc'[t].at = "scan" /\ pc'[t].cnt = pc[t].cnt /\ pc'[t].j = pc[t].j /\ pc'[t].pool = p
      /\ pc'[t].i = base[p]
      /\ pc' \in [Thread -> Place] /\ \A u \in Thread \ {t} : pc'[u] = pc[u]
  BY ZenonT(30), <1>0, PoolFacts DEF LockPool, IInv, Typed, Place, Where, HasRun
<1>3. \A u \in Thread : Taking(u)' = Taking(u) /\ Taken(u)' = Taken(u) /\ Clearing(u)' = Clearing(u)
  <2>1. Taking(t)' = Taking(t) /\ Taken(t)' = Taken(t) /\ Clearing(t)' = Clearing(t)
    BY Zenon, <1>1, <1>2 DEF Taking, Taken, Clearing
  <2> QED
    BY Zenon, <2>1, <1>2, OwnUnchanged
<1>4. Typed' /\ GroupsInPool'
  BY Zenon, <1>0, <1>1, <1>2 DEF IInv, Typed, GroupsInPool, Group, Span, PagesOf
<1>5. Locked'
  BY <1>0, <1>1, <1>2, ThreadAssumption DEF IInv, Locked, Typed, Place
<1>6. \A u \in Thread : PlaceRight(u)'
  <2>1. PlaceRight(t)
    BY Zenon DEF IInv
  <2>2. pc[t].cnt > 0 /\ pc[t].j = 0
    BY Zenon, <1>1, <2>1 DEF PlaceRight, Scanning, Flipping, Unlocking, Freeing
  <2>3. Scanning(t)'
    BY <2>2, <1>0, <1>2, PoolFacts DEF Scanning
  <2> QED
    BY Zenon, <2>3, <1>1, <1>2, OthersRight DEF PlaceRight
<1>7. \A x \in Int : UsedPage(x)'
  BY Zenon, <1>1, <1>3 DEF IInv, UsedPage, Group, Span
<1>8. PagesExclusive'
  BY Zenon, <1>1, <1>3 DEF IInv, PagesExclusive, Group, Span
<1> QED
  BY Zenon, <1>4, <1>5, <1>6, <1>7, <1>8 DEF IInv

\* One test of a bit by bitmap_scan keeps the invariant: what it passed is
\* clear, and stays clear since only the holder of the lock sets bits.
LEMMA ScanStep ==
  ASSUME IInv, NEW t \in Thread, ScanBit(t)
  PROVE  IInv'
<1> DEFINE free == pc[t].i + pc[t].j \notin used
           done == free /\ pc[t].j + 1 = pc[t].cnt
<1>0. pc[t] \in Place /\ PlaceRight(t) /\ pc[t].pool \in Pool
  BY Zenon DEF IInv, Typed, Place
<1>1. MoreToScan(t) /\ pc[t].at = "scan" /\ UNCHANGED <<used, lock, held, stop>>
  BY Zenon DEF ScanBit, At
<1>2. /\ pc'[t].at = (IF done THEN "flip" ELSE "scan")
      /\ pc'[t].i = (IF free THEN pc[t].i ELSE pc[t].i + 1)
      /\ pc'[t].j = (IF free /\ ~done THEN pc[t].j + 1 ELSE 0)
      /\ pc'[t].cnt = pc[t].cnt /\ pc'[t].pool = pc[t].pool
      /\ pc' \in [Thread -> Place] /\ \A u \in Thread \ {t} : pc'[u] = pc[u]
  <2> DEFINE r == [pc[t] EXCEPT !.at = IF done THEN "flip" ELSE "scan",
                                !.i = IF free THEN @ ELSE @ + 1,
                                !.j = IF free /\ ~done THEN @ + 1 ELSE 0]
  <2>1. pc' = [pc EXCEPT ![t] = r]
    BY Zenon, <1>0 DEF ScanBit, IInv, Typed, Place
  <2>2. r \in Place
    <3>1. (IF done THEN "flip" ELSE "scan") \in Where
      BY Zenon DEF Where
    <3>2. (IF free THEN pc[t].i ELSE pc[t].i + 1) \in Int
      BY <1>0 DEF Place
    <3>3. (IF free /\ ~done THEN pc[t].j + 1 ELSE 0) \in Nat
      BY <1>0 DEF Place
    <3> HIDE DEF free, done
    <3> QED
      BY Zenon, <1>0, <3>1, <3>2, <3>3 DEF Place
  <2>3. pc \in [Thread -> Place]
    BY Zenon DEF IInv, Typed
  <2> QED
    BY Zenon, <1>0, <2>1, <2>2, <2>3 DEF Place
<1>3. Scanning(t)
  BY Zenon, <1>0, <1>1 DEF PlaceRight, Flipping, Unlocking, Freeing
<1>4. base[pc[t].pool] \in Int /\ bit_cnt[pc[t].pool] \in Int
  BY Zenon, <1>0, PoolFacts
<1>5. PlaceRight(t)'
  <2>1. CASE done
    <3>1. /\ pc'[t].at = "flip" /\ pc'[t].i = pc[t].i /\ pc'[t].j = 0 /\ pc'[t].cnt = pc[t].cnt
          /\ pc'[t].pool = pc[t].pool
      BY Zenon, <2>1, <1>2
    <3>2. \A k \in 0 .. pc[t].cnt - 1 : pc[t].i + k \notin used
      BY <2>1, <1>0, <1>3 DEF Scanning, Place
    <3>3. Flipping(t)'
      BY <3>1, <3>2, <1>0, <1>1, <1>3, <1>4 DEF Flipping, Scanning, MoreToScan, Place
    <3> QED
      BY Zenon, <3>3 DEF PlaceRight
  <2>2. CASE free /\ ~done
    <3>1. /\ pc'[t].at = "scan" /\ pc'[t].i = pc[t].i /\ pc'[t].j = pc[t].j + 1 /\ pc'[t].cnt = pc[t].cnt
          /\ pc'[t].pool = pc[t].pool
      BY Zenon, <2>2, <1>2
    <3>2. \A k \in 0 .. pc[t].j : pc[t].i + k \notin used
      BY <2>2, <1>0, <1>3 DEF Scanning, Place
    <3>3. Scanning(t)'
      BY <2>2, <3>1, <3>2, <1>0, <1>1, <1>3, <1>4 DEF Scanning, MoreToScan, Place
    <3> QED
      BY Zenon, <3>3 DEF PlaceRight
  <2>3. CASE ~free
    <3>1. /\ pc'[t].at = "scan" /\ pc'[t].i = pc[t].i + 1 /\ pc'[t].j = 0 /\ pc'[t].cnt = pc[t].cnt
          /\ pc'[t].pool = pc[t].pool
      BY Zenon, <2>3, <1>2
    <3>2. Scanning(t)'
      BY <3>1, <1>0, <1>1, <1>3, <1>4 DEF Scanning, MoreToScan, Place
    <3> QED
      BY Zenon, <3>2 DEF PlaceRight
  <2> QED
    BY Zenon, <2>1, <2>2, <2>3
<1>6. \A u \in Thread : PlaceRight(u)'
  BY Zenon, <1>1, <1>2, <1>5, OthersRight
<1>7. Typed' /\ GroupsInPool' /\ Locked'
  BY <1>0, <1>1, <1>2 DEF IInv, Typed, GroupsInPool, Group, Span, PagesOf, Locked
\* A run that was found is free: it is of nobody that has set bits or clears
\* them, and nobody else takes pages of this pool.
<1>8. /\ Taken(t) = {} /\ Taken(t)' = {} /\ Clearing(t) = {} /\ Clearing(t)' = {} /\ Taking(t) = {}
      /\ Taking(t)' \cap used = {} /\ Taking(t)' \subseteq PagesOf(pc[t].pool)
  <2>1. CASE done
    <3>1. /\ pc'[t].at = "flip" /\ pc'[t].i = pc[t].i /\ pc'[t].j = 0 /\ pc'[t].cnt = pc[t].cnt
      BY Zenon, <2>1, <1>2
    <3>2. \A k \in 0 .. pc[t].cnt - 1 : pc[t].i + k \notin used
      BY <2>1, <1>0, <1>3 DEF Scanning, Place
    <3>3. Taking(t)' = pc[t].i .. pc[t].i + pc[t].cnt - 1 /\ Taken(t)' = pc[t].i .. pc[t].i - 1
      BY <3>1, <1>0 DEF Taking, Taken, Span, Place
    <3>4. Taken(t) = {} /\ Clearing(t) = {} /\ Clearing(t)' = {} /\ Taking(t) = {}
      BY Zenon, <3>1, <1>1 DEF Taking, Taken, Clearing
    <3>5. pc[t].i >= base[pc[t].pool] /\ pc[t].i + pc[t].cnt <= base[pc[t].pool] + bit_cnt[pc[t].pool]
      BY Zenon, <1>1, <1>3 DEF Scanning, MoreToScan
    <3>6. \A x \in Taking(t)' : x \notin used
      <4> SUFFICES ASSUME NEW x \in pc[t].i .. pc[t].i + pc[t].cnt - 1 PROVE x \notin used
        BY Zenon, <3>3
      <4>1. x - pc[t].i \in 0 .. pc[t].cnt - 1 /\ pc[t].i + (x - pc[t].i) = x
        BY <1>0 DEF Place
      <4> QED
        BY Zenon, <4>1, <3>2
    <3>7. Taken(t)' = {}
      <4>1. pc[t].i \in Int
        BY Zenon, <1>0 DEF Place
      <4> QED
        BY <3>3, <4>1
    <3>8. Taking(t)' \subseteq PagesOf(pc[t].pool)
      <4>1. pc[t].i \in Int /\ pc[t].cnt \in Nat
        BY Zenon, <1>0 DEF Place
      <4>2. ASSUME NEW x \in pc[t].i .. pc[t].i + pc[t].cnt - 1
            PROVE  x \in base[pc[t].pool] .. base[pc[t].pool] + bit_cnt[pc[t].pool] - 1
        BY <3>5, <4>1, <1>4
      <4> QED
        BY Zenon, <3>3, <4>2 DEF PagesOf
    <3> QED
      BY <3>4, <3>6, <3>7, <3>8, Zenon
  <2>2. CASE ~done
    BY Zenon, <2>2, <1>1, <1>2 DEF Taking, Taken, Clearing
  <2> QED
    BY Zenon, <2>1, <2>2
<1>9. \A u \in Thread \ {t} : Taking(u)' = Taking(u) /\ Taken(u)' = Taken(u) /\ Clearing(u)' = Clearing(u)
  BY Zenon, <1>2, OwnUnchanged
<1>10. \A x \in Int : UsedPage(x)'
  BY Zenon, <1>1, <1>8, <1>9 DEF IInv, UsedPage, Group, Span
<1>11. PagesExclusive'
  <2>1. \A g \in held : Group(g) \subseteq used
    BY DEF IInv, UsedPage, Group, Span, Typed
  <2>2. \A u \in Thread : Clearing(u) \subseteq used
    BY Zenon, OwnFacts DEF IInv, UsedPage
  <2>3. \A u \in Thread \ {t} : Taking(u) \cap PagesOf(pc[t].pool) = {}
    <3> SUFFICES ASSUME NEW u \in Thread, u # t, NEW x \in Taking(u), x \in PagesOf(pc[t].pool) PROVE FALSE
      BY Zenon
    <3>1. lock[pc[u].pool] = u /\ x \in PagesOf(pc[u].pool) /\ pc[u].pool \in Pool
      BY Zenon, OwnFacts DEF IInv, Typed, Place
    <3>2. lock[pc[t].pool] = t
      BY Zenon, <1>1 DEF IInv, Locked
    <3> QED
      BY Zenon, <3>1, <3>2, <1>0, PoolFacts DEF Pool
  <2>4. \A g \in held : Group(g)' = Group(g)
    BY Zenon DEF Group, Span
  <2> QED
    BY <1>1, <1>8, <1>9, <2>1, <2>2, <2>3, <2>4 DEF IInv, PagesExclusive
<1> QED
  BY Zenon, <1>6, <1>7, <1>10, <1>11 DEF IInv

\* A scan that fails gives the lock back and keeps the invariant.
LEMMA FailStep ==
  ASSUME IInv, NEW t \in Thread, ScanFails(t)
  PROVE  IInv'
<1>0. pc[t] \in Place /\ pc[t].pool \in Pool
  BY Zenon DEF IInv, Typed, Place
<1>1. /\ pc[t].at = "scan" /\ lock[pc[t].pool] = t /\ lock' = [lock EXCEPT ![pc[t].pool] = NONE]
      /\ UNCHANGED <<used, held, stop>>
  BY Zenon DEF ScanFails, At, IInv, Locked
<1>2. /\ pc'[t].at = "idle" /\ pc' \in [Thread -> Place] /\ \A u \in Thread \ {t} : pc'[u] = pc[u]
  BY DEF ScanFails, IInv, Typed, Place, Where, Idle, Pool
<1>3. \A u \in Thread : Taking(u)' = Taking(u) /\ Taken(u)' = Taken(u) /\ Clearing(u)' = Clearing(u)
  <2>1. Taking(t)' = Taking(t) /\ Taken(t)' = Taken(t) /\ Clearing(t)' = Clearing(t)
    BY Zenon, <1>1, <1>2 DEF Taking, Taken, Clearing
  <2> QED
    BY Zenon, <2>1, <1>2, OwnUnchanged
<1>4. Typed' /\ GroupsInPool'
  BY Zenon, <1>0, <1>1, <1>2 DEF IInv, Typed, GroupsInPool, Group, Span, PagesOf
<1>5. Locked'
  BY <1>0, <1>1, <1>2 DEF IInv, Locked, Typed, Place
<1>6. \A u \in Thread : PlaceRight(u)'
  BY Zenon, <1>1, <1>2, OthersRight DEF PlaceRight
<1>7. \A x \in Int : UsedPage(x)'
  BY Zenon, <1>1, <1>3 DEF IInv, UsedPage, Group, Span
<1>8. PagesExclusive'
  BY Zenon, <1>1, <1>3 DEF IInv, PagesExclusive, Group, Span
<1> QED
  BY Zenon, <1>4, <1>5, <1>6, <1>7, <1>8 DEF IInv

\* bitmap_set_multiple setting one bit keeps the invariant: the bit is of a
\* page the scan found clear, in a pool nobody else scans.
LEMMA FlipStep ==
  ASSUME IInv, NEW t \in Thread, FlipBit(t)
  PROVE  IInv'
<1> DEFINE x0 == pc[t].i + pc[t].j
<1>0. pc[t] \in Place /\ PlaceRight(t) /\ pc[t].pool \in Pool
  BY Zenon DEF IInv, Typed, Place
<1>1. /\ pc[t].at = "flip" /\ used' = used \cup {x0} /\ UNCHANGED <<lock, held, stop>>
      /\ lock[pc[t].pool] = t
  BY Zenon DEF FlipBit, At, IInv, Locked
<1>2. /\ pc'[t].at = (IF pc[t].j + 1 = pc[t].cnt THEN "unlock" ELSE "flip")
      /\ pc'[t].i = pc[t].i /\ pc'[t].j = pc[t].j + 1
      /\ pc'[t].cnt = pc[t].cnt /\ pc'[t].pool = pc[t].pool
      /\ pc' \in [Thread -> Place] /\ \A u \in Thread \ {t} : pc'[u] = pc[u]
  <2> DEFINE r == [pc[t] EXCEPT !.at = IF pc[t].j + 1 = pc[t].cnt THEN "unlock" ELSE "flip", !.j = @ + 1]
  <2>1. pc' = [pc EXCEPT ![t] = r]
    BY Zenon, <1>0, <1>1 DEF FlipBit, IInv, Typed, Place
  <2>2. r \in Place
    <3>1. (IF pc[t].j + 1 = pc[t].cnt THEN "unlock" ELSE "flip") \in Where
      BY Zenon DEF Where
    <3>2. pc[t].j + 1 \in Nat
      BY <1>0 DEF Place
    <3> QED
      BY Zenon, <1>0, <3>1, <3>2 DEF Place
  <2>3. pc \in [Thread -> Place]
    BY Zenon DEF IInv, Typed
  <2> QED
    BY Zenon, <1>0, <2>1, <2>2, <2>3 DEF Place
<1>3. Flipping(t)
  BY Zenon, <1>0, <1>1 DEF PlaceRight, Scanning, Unlocking, Freeing
<1>4. base[pc[t].pool] \in Int /\ bit_cnt[pc[t].pool] \in Int
  BY Zenon, <1>0, PoolFacts
<1>5. x0 \in Int /\ x0 \in PagesOf(pc[t].pool)
  BY <1>0, <1>3, <1>4 DEF Flipping, MoreToScan, PagesOf, Place
<1>6. PlaceRight(t)'
  <2>1. \A k \in pc[t].j + 1 .. pc[t].cnt - 1 : pc[t].i + k \notin used'
    BY <1>0, <1>1, <1>3 DEF Flipping, Place
  <2>2. CASE pc[t].j + 1 = pc[t].cnt
    BY SMTT(30), <2>2, <1>0, <1>2, <1>3, <1>4 DEF PlaceRight, Unlocking, Flipping, MoreToScan, Place
  <2>3. CASE pc[t].j + 1 # pc[t].cnt
    BY <2>1, <2>3, <1>0, <1>2, <1>3, <1>4 DEF PlaceRight, Flipping, MoreToScan, Place
  <2> QED
    BY Zenon, <2>2, <2>3
\* Who else scans or takes does so in the other pool.
<1>7. ASSUME NEW u \in Thread, u # t
      PROVE  PlaceRight(u)'
  <2>1. pc'[u] = pc[u] /\ PlaceRight(u) /\ pc[u] \in Place /\ pc[u].pool \in Pool
    BY Zenon, <1>2, <1>7 DEF IInv, Typed, Place
  <2>2. CASE pc[u].at \in {"scan", "flip"}
    <3>1. lock[pc[u].pool] = u
      BY Zenon, <2>2 DEF IInv, Locked
    <3>2. x0 \notin PagesOf(pc[u].pool)
      BY Zenon, <3>1, <2>1, <1>0, <1>1, <1>5, <1>7, PoolFacts DEF Pool
    <3>3. base[pc[u].pool] \in Int /\ bit_cnt[pc[u].pool] \in Int
      BY Zenon, <2>1, PoolFacts
    <3>4. CASE Scanning(u)
      <4>1. \A k \in 0 .. pc[u].j - 1 : pc[u].i + k # x0
        BY SMTT(30), <3>2, <3>3, <3>4, <2>1 DEF Scanning, MoreToScan, PagesOf, Place
      <4> QED
        BY Zenon, <4>1, <3>4, <2>1, <1>1 DEF PlaceRight, Scanning, MoreToScan
    <3>5. CASE Flipping(u)
      <4>1. \A k \in pc[u].j .. pc[u].cnt - 1 : pc[u].i + k # x0
        BY SMTT(30), <3>2, <3>3, <3>5, <2>1 DEF Flipping, MoreToScan, PagesOf, Place
      <4> QED
        BY Zenon, <4>1, <3>5, <2>1, <1>1 DEF PlaceRight, Flipping, MoreToScan
    <3> QED
      BY Zenon, <2>1, <2>2, <3>4, <3>5 DEF PlaceRight, Unlocking, Freeing
  <2>3. CASE pc[u].at \notin {"scan", "flip"}
    BY Zenon, <2>1, <2>3 DEF PlaceRight, Scanning, Flipping, Unlocking, Freeing,
       MoreToScan, Span, PagesOf
  <2> QED
    BY Zenon, <2>2, <2>3
<1>8. /\ Taking(t)' = Taking(t) /\ Taken(t)' = Taken(t) \cup {x0}
      /\ Clearing(t) = {} /\ Clearing(t)' = {}
  BY <1>0, <1>1, <1>2, <1>3 DEF Taking, Taken, Clearing, Span, Flipping, Place
<1>9. \A u \in Thread \ {t} : Taking(u)' = Taking(u) /\ Taken(u)' = Taken(u) /\ Clearing(u)' = Clearing(u)
  BY Zenon, <1>2, OwnUnchanged
<1>10. Typed' /\ GroupsInPool' /\ Locked'
  BY ZenonT(30), <1>0, <1>1, <1>2, <1>5, PoolFacts DEF IInv, Typed, GroupsInPool, Group, Span, PagesOf, Locked
<1>11. \A x \in Int : UsedPage(x)'
  BY Zenon, <1>1, <1>8, <1>9 DEF IInv, UsedPage, Group, Span
<1>12. PagesExclusive'
  BY <1>1, <1>8, <1>9 DEF IInv, PagesExclusive, Group, Span
<1> QED
  BY Zenon, <1>6, <1>7, <1>10, <1>11, <1>12 DEF IInv

\* palloc_get_multiple releasing the lock and returning its pages keeps the
\* invariant.
LEMMA UnlockStep ==
  ASSUME IInv, NEW t \in Thread, UnlockPool(t)
  PROVE  IInv'
<1> DEFINE g0 == [start |-> pc[t].i, cnt |-> pc[t].cnt]
<1>0. pc[t] \in Place /\ PlaceRight(t) /\ pc[t].pool \in Pool
  BY Zenon DEF IInv, Typed, Place
<1>1. /\ pc[t].at = "unlock" /\ lock[pc[t].pool] = t /\ lock' = [lock EXCEPT ![pc[t].pool] = NONE]
      /\ held' = held \cup {g0} /\ UNCHANGED <<used, stop>>
  BY Zenon DEF UnlockPool, At, IInv, Locked
<1>2. /\ pc'[t].at = "idle" /\ pc' \in [Thread -> Place] /\ \A u \in Thread \ {t} : pc'[u] = pc[u]
  BY DEF UnlockPool, IInv, Typed, Place, Where, Idle, Pool
<1>3. Unlocking(t)
  BY Zenon, <1>0, <1>1 DEF PlaceRight, Scanning, Flipping, Freeing
<1>4. /\ Taking(t) = Group(g0) /\ Taken(t) = Group(g0) /\ Clearing(t) = {}
      /\ Taking(t)' = {} /\ Taken(t)' = {} /\ Clearing(t)' = {}
  BY Zenon, <1>1, <1>2, <1>3 DEF Unlocking, Taking, Taken, Clearing, Group
<1>5. \A u \in Thread \ {t} : Taking(u)' = Taking(u) /\ Taken(u)' = Taken(u) /\ Clearing(u)' = Clearing(u)
  BY Zenon, <1>2, OwnUnchanged
<1>6. Typed'
  BY <1>0, <1>1, <1>2, <1>3 DEF IInv, Typed, Unlocking, Place
<1>7. GroupsInPool'
  <2>1. Group(g0) \subseteq PagesOf(pc[t].pool)
    BY Zenon, <1>3, <1>4, <1>0, OwnFacts
  <2> QED
    BY Zenon, <2>1, <1>0, <1>1 DEF IInv, GroupsInPool, Group, Span, PagesOf
<1>8. Locked'
  BY <1>0, <1>1, <1>2 DEF IInv, Locked, Typed, Place
<1>9. \A u \in Thread : PlaceRight(u)'
  BY Zenon, <1>1, <1>2, OthersRight DEF PlaceRight
<1>10. \A x \in Int : UsedPage(x)'
  <2> SUFFICES ASSUME NEW x \in Int PROVE UsedPage(x)'
    BY Zenon
  <2>1. UsedPage(x)
    BY Zenon DEF IInv
  <2>2. (\E g \in held' : x \in Group(g)) <=> (\E g \in held : x \in Group(g)) \/ x \in Group(g0)
    BY Zenon, <1>1
  <2>3. (\E u \in Thread : x \in Taken(u) \cup Clearing(u))
          <=> x \in Group(g0) \/ (\E u \in Thread : x \in (Taken(u) \cup Clearing(u))')
    BY Zenon, <1>4, <1>5
  <2> QED
    BY Zenon, <2>1, <2>2, <2>3, <1>1 DEF UsedPage, Group, Span
<1>11. PagesExclusive'
  <2>1. \A g \in held : Group(g) \cap Group(g0) = {}
    BY Zenon, <1>4 DEF IInv, PagesExclusive
  <2>2. \A g, h \in held' : g # h => Group(g) \cap Group(h) = {}
    BY Zenon, <2>1, <1>1 DEF IInv, PagesExclusive
  <2>3. \A u \in Thread : (Taking(u)' \cup Clearing(u)') \cap Group(g0) = {}
    BY <1>4, <1>5 DEF IInv, PagesExclusive
  <2>4. \A u \in Thread : \A g \in held' : (Taking(u)' \cup Clearing(u)') \cap Group(g) = {}
    BY Zenon, <2>3, <1>1, <1>4, <1>5 DEF IInv, PagesExclusive
  <2>5. \A u, v \in Thread : u # v =>
           (Taking(u)' \cup Clearing(u)') \cap (Taking(v)' \cup Clearing(v)') = {}
    BY Zenon, <1>4, <1>5 DEF IInv, PagesExclusive
  <2>6. \A g \in held' : Group(g)' = Group(g)
    BY Zenon DEF Group, Span
  <2> HIDE DEF g0
  <2> QED
    BY Zenon, <2>2, <2>4, <2>5, <2>6 DEF PagesExclusive, Group, Span
<1> QED
  BY Zenon, <1>6, <1>7, <1>8, <1>9, <1>10, <1>11 DEF IInv

\* palloc_free_multiple of a group that was given passes its ASSERTs and keeps
\* the invariant.
LEMMA FreeStep ==
  ASSUME IInv, NEW t \in Thread, NEW g \in held, palloc_free_multiple(t, g)
  PROVE  IInv'
<1>0. g \in [start : Int, cnt : Nat \ {0}] /\ pc[t].at = "idle"
  BY Zenon DEF IInv, Typed, palloc_free_multiple, At
<1>1. PICK p \in Pool : Group(g) \subseteq PagesOf(p)
  BY Zenon DEF IInv, GroupsInPool
\* The ASSERTs of palloc_free_multiple hold.
<1>2. Group(g) \subseteq used
  <2>1. Group(g) \subseteq Int
    BY <1>0 DEF Group, Span
  <2> QED
    BY Zenon, <2>1 DEF IInv, UsedPage
<1>3. page_from_pool(p, g.start)
  <2>1. g.start \in Group(g)
    BY <1>0 DEF Group, Span
  <2>2. base[p] \in Int /\ bit_cnt[p] \in Int
    BY Zenon, PoolFacts
  <2> QED
    BY <2>1, <2>2, <1>0, <1>1 DEF page_from_pool, PagesOf
<1> DEFINE r == [at |-> "clear", pool |-> "kernel", cnt |-> g.cnt, i |-> g.start, j |-> 0, had |-> FALSE]
<1>4. /\ held' = held \ {g} /\ UNCHANGED <<used, lock, stop>>
      /\ pc' = [pc EXCEPT ![t] = r]
  BY Zenon, <1>2, <1>3 DEF palloc_free_multiple, Idle
<1>5. r \in Place
  BY Zenon, <1>0 DEF Place, Where, Pool
<1>6. /\ pc'[t] = r /\ pc' \in [Thread -> Place] /\ \A u \in Thread \ {t} : pc'[u] = pc[u]
  BY Zenon, <1>4, <1>5 DEF IInv, Typed
<1>7. /\ Taking(t) = {} /\ Taken(t) = {} /\ Clearing(t) = {}
      /\ Taking(t)' = {} /\ Taken(t)' = {} /\ Clearing(t)' = Group(g)
  BY <1>0, <1>6 DEF Taking, Taken, Clearing, Group, Span
<1>8. \A u \in Thread \ {t} : Taking(u)' = Taking(u) /\ Taken(u)' = Taken(u) /\ Clearing(u)' = Clearing(u)
  BY Zenon, <1>6, OwnUnchanged
<1>9. Typed' /\ GroupsInPool' /\ Locked'
  BY Zenon, <1>4, <1>6 DEF IInv, Typed, GroupsInPool, Group, Span, PagesOf, Locked
<1>10. PlaceRight(t)'
  <2>1. \E q \in Pool : Span(r.i, r.cnt) \subseteq PagesOf(q)
    BY Zenon, <1>1 DEF Group
  <2> QED
    BY <2>1, <1>0, <1>6 DEF PlaceRight, Freeing, Span, PagesOf
<1>11. \A u \in Thread : PlaceRight(u)'
  BY Zenon, <1>4, <1>6, <1>10, OthersRight
<1>12. \A x \in Int : UsedPage(x)'
  <2> SUFFICES ASSUME NEW x \in Int PROVE UsedPage(x)'
    BY Zenon
  <2>1. UsedPage(x)
    BY Zenon DEF IInv
  <2>2. (\E h \in held : x \in Group(h)) <=> (\E h \in held' : x \in Group(h)) \/ x \in Group(g)
    BY Zenon, <1>4
  <2>3. (\E u \in Thread : x \in Taken(u)' \cup Clearing(u)')
          <=> x \in Group(g) \/ (\E u \in Thread : x \in Taken(u) \cup Clearing(u))
    BY Zenon, <1>7, <1>8
  <2> QED
    BY Zenon, <2>1, <2>2, <2>3, <1>4 DEF UsedPage, Group, Span
<1>13. PagesExclusive'
  <2>1. \A h, k \in held' : h # k => Group(h) \cap Group(k) = {}
    BY Zenon, <1>4 DEF IInv, PagesExclusive
  <2>2. \A u \in Thread : \A h \in held' : (Taking(u)' \cup Clearing(u)') \cap Group(h) = {}
    BY <1>4, <1>7, <1>8 DEF IInv, PagesExclusive
  <2>3. \A u, v \in Thread : u # v =>
           (Taking(u)' \cup Clearing(u)') \cap (Taking(v)' \cup Clearing(v)') = {}
    BY <1>7, <1>8 DEF IInv, PagesExclusive
  <2> QED
    BY Zenon, <2>1, <2>2, <2>3 DEF PagesExclusive, Group, Span
<1> QED
  BY Zenon, <1>9, <1>11, <1>12, <1>13 DEF IInv

\* bitmap_set_multiple clearing one bit, without the lock, keeps the
\* invariant: the page of that bit is nobody else's.
LEMMA ClearStep ==
  ASSUME IInv, NEW t \in Thread, ClearBit(t)
  PROVE  IInv'
<1> DEFINE x0 == pc[t].i + pc[t].j
<1>0. pc[t] \in Place /\ PlaceRight(t)
  BY Zenon DEF IInv, Typed
<1>1. pc[t].at = "clear" /\ used' = used \ {x0} /\ UNCHANGED <<lock, held, stop>>
  BY Zenon DEF ClearBit, At
<1>2. Freeing(t)
  BY Zenon, <1>0, <1>1 DEF PlaceRight, Scanning, Flipping, Unlocking
<1> DEFINE r == IF pc[t].j + 1 = pc[t].cnt THEN Idle ELSE [pc[t] EXCEPT !.j = @ + 1]
<1>3. pc' = [pc EXCEPT ![t] = r]
  <2>1. CASE pc[t].j + 1 = pc[t].cnt
    BY Zenon, <2>1 DEF ClearBit
  <2>2. CASE pc[t].j + 1 # pc[t].cnt
    BY Zenon, <2>2 DEF ClearBit
  <2> QED
    BY Zenon, <2>1, <2>2
<1>4. r \in Place
  <2>1. Idle \in Place
    BY DEF Idle, Place, Where, Pool
  <2>2. [pc[t] EXCEPT !.j = @ + 1] \in Place
    BY <1>0 DEF Place
  <2> QED
    BY Zenon, <2>1, <2>2
<1>5. /\ pc'[t] = r /\ pc' \in [Thread -> Place] /\ \A u \in Thread \ {t} : pc'[u] = pc[u]
  BY Zenon, <1>3, <1>4 DEF IInv, Typed
<1>6. r.at \in {"idle", "clear"}
  BY Zenon, <1>0, <1>1 DEF Idle, Place
<1>7. /\ Taking(t) = {} /\ Taken(t) = {} /\ Taking(t)' = {} /\ Taken(t)' = {}
  <2> HIDE DEF r
  <2> QED
    BY Zenon, <1>1, <1>5, <1>6 DEF Taking, Taken
<1>8. x0 \in Clearing(t) /\ Clearing(t)' = Clearing(t) \ {x0}
  <2>1. CASE pc[t].j + 1 = pc[t].cnt
    BY <2>1, <1>0, <1>1, <1>2, <1>5 DEF Clearing, Span, Idle, Place, Freeing
  <2>2. CASE pc[t].j + 1 # pc[t].cnt
    <3>1. pc'[t].at = "clear" /\ pc'[t].i = pc[t].i /\ pc'[t].j = pc[t].j + 1 /\ pc'[t].cnt = pc[t].cnt
      BY Zenon, <2>2, <1>0, <1>1, <1>5 DEF Place
    <3> QED
      BY <3>1, <2>2, <1>0, <1>1, <1>2 DEF Clearing, Span, Place, Freeing
  <2> QED
    BY Zenon, <2>1, <2>2
<1>9. \A u \in Thread \ {t} : Taking(u)' = Taking(u) /\ Taken(u)' = Taken(u) /\ Clearing(u)' = Clearing(u)
  BY Zenon, <1>5, OwnUnchanged
<1>10. Typed' /\ GroupsInPool'
  BY Zenon, <1>1, <1>5 DEF IInv, Typed, GroupsInPool, Group, Span, PagesOf
<1>11. Locked'
  <2> HIDE DEF r
  <2> QED
    BY Zenon, <1>1, <1>5, <1>6 DEF IInv, Locked
<1>12. PlaceRight(t)'
  <2>1. CASE pc[t].j + 1 = pc[t].cnt
    BY <2>1, <1>5 DEF PlaceRight, Idle
  <2>2. CASE pc[t].j + 1 # pc[t].cnt
    <3>1. pc'[t].at = "clear" /\ pc'[t].i = pc[t].i /\ pc'[t].j = pc[t].j + 1 /\ pc'[t].cnt = pc[t].cnt
      BY Zenon, <2>2, <1>0, <1>1, <1>5 DEF Place
    <3>2. pc[t].j + 1 < pc[t].cnt
      BY <2>2, <1>0, <1>2 DEF Freeing, Place
    <3> HIDE DEF r
    <3> QED
      BY Zenon, <3>1, <3>2, <1>2 DEF PlaceRight, Freeing, Span, PagesOf
  <2> QED
    BY Zenon, <2>1, <2>2
<1>13. \A u \in Thread : PlaceRight(u)'
  BY Zenon, <1>1, <1>5, <1>12, OthersRight
\* Nobody else has the page whose bit is cleared.
<1>14. /\ \A g \in held : x0 \notin Group(g)
       /\ \A u \in Thread \ {t} : x0 \notin Taken(u) \cup Clearing(u)
  <2>1. \A u \in Thread : Taken(u) \subseteq Taking(u)
    BY Zenon, OwnFacts
  <2> QED
    BY <2>1, <1>8 DEF IInv, PagesExclusive
<1>15. \A x \in Int : UsedPage(x)'
  <2> SUFFICES ASSUME NEW x \in Int PROVE UsedPage(x)'
    BY Zenon
  <2>1. UsedPage(x)
    BY Zenon DEF IInv
  <2>2. (\E u \in Thread : x \in Taken(u)' \cup Clearing(u)')
          <=> x # x0 /\ (\E u \in Thread : x \in Taken(u) \cup Clearing(u))
    <3> HIDE DEF x0
    <3> QED
      BY Zenon, <1>7, <1>8, <1>9, <1>14
  <2> HIDE DEF x0
  <2> QED
    BY Zenon, <2>1, <2>2, <1>1, <1>14 DEF UsedPage, Group, Span
<1>16. PagesExclusive'
  <2> HIDE DEF x0
  <2>1. \A u \in Thread : Taking(u)' \subseteq Taking(u) /\ Clearing(u)' \subseteq Clearing(u)
    BY Zenon, <1>7, <1>8, <1>9
  <2> QED
    BY <2>1, <1>1 DEF IInv, PagesExclusive, Group, Span
<1> QED
  BY Zenon, <1>10, <1>11, <1>13, <1>15, <1>16 DEF IInv
-----------------------------------------------------------------------------
\* Every step of palloc_get_multiple and palloc_free_multiple, of any thread,
\* keeps the invariant.
LEMMA NextIInv == IInv /\ [Next]_vars => IInv'
<1> SUFFICES ASSUME IInv, [Next]_vars PROVE IInv'
  BY Zenon
<1>1. ASSUME NEW t \in Thread, NEW p \in Pool, NEW cnt \in 1 .. MaxCount, palloc_get_multiple(t, p, cnt)
      PROVE  IInv'
  BY Zenon, <1>1, GetStep
<1>2. ASSUME NEW t \in Thread, NEW g \in held, palloc_free_multiple(t, g)
      PROVE  IInv'
  BY Zenon, <1>2, FreeStep
<1>3. ASSUME NEW t \in Thread, InCall(t)
      PROVE  IInv'
  BY Zenon, <1>3, LockStep, ScanStep, FailStep, FlipStep, UnlockStep, ClearStep DEF InCall
<1>4. CASE UNCHANGED vars
  <2>1. used' = used /\ lock' = lock /\ held' = held /\ pc' = pc /\ stop' = stop
    BY Zenon, <1>4 DEF vars
  <2>2. Typed' /\ GroupsInPool' /\ Locked'
    BY Zenon, <2>1 DEF IInv, Typed, GroupsInPool, Locked
  <2>3. \A t \in Thread : PlaceRight(t)'
    BY <2>1 DEF IInv, PlaceRight, Scanning, Flipping, Unlocking, Freeing, MoreToScan, Group, Span
  <2>4. \A t \in Thread : Taking(t)' = Taking(t) /\ Taken(t)' = Taken(t) /\ Clearing(t)' = Clearing(t)
    BY Zenon, <2>1 DEF Taking, Taken, Clearing
  <2>5. \A x \in Int : UsedPage(x)'
    BY Zenon, <2>1, <2>4 DEF IInv, UsedPage
  <2>6. PagesExclusive'
    BY Zenon, <2>1, <2>4 DEF IInv, PagesExclusive
  <2> QED
    BY Zenon, <2>2, <2>3, <2>5, <2>6 DEF IInv
<1> QED
  BY Zenon, <1>1, <1>2, <1>3, <1>4 DEF Next

\* The invariant says of each bit what UsedExact says of the set of them.
LEMMA IInvImplies == IInv => TypeOK /\ PagesExclusive /\ UsedExact
<1> SUFFICES ASSUME IInv PROVE TypeOK /\ PagesExclusive /\ UsedExact
  BY Zenon
<1>1. TypeOK
  BY DEF IInv, Typed, TypeOK, GroupsInPool, Place, Where
<1>2. used = (UNION {Group(g) : g \in held}) \cup (UNION {Taken(t) \cup Clearing(t) : t \in Thread})
  <2>1. used \subseteq Int
    BY Zenon, PoolFacts DEF IInv, Typed
  <2>2. \A g \in held : Group(g) \subseteq Int
    BY DEF IInv, Typed, Group, Span
  <2>3. \A t \in Thread : Taken(t) \cup Clearing(t) \subseteq Int
    BY Zenon, OwnFacts
  <2>4. \A x : x \in UNION {Group(g) : g \in held} <=> \E g \in held : x \in Group(g)
    BY Zenon
  <2>5. \A x : x \in UNION {Taken(t) \cup Clearing(t) : t \in Thread}
                 <=> \E t \in Thread : x \in Taken(t) \cup Clearing(t)
    BY Zenon
  <2>6. \A x \in Int : UsedPage(x)
    BY Zenon DEF IInv
  <2> DEFINE A == UNION {Group(g) : g \in held}
             B == UNION {Taken(t) \cup Clearing(t) : t \in Thread}
  <2>7. A \subseteq Int /\ B \subseteq Int
    BY Zenon, <2>2, <2>3, <2>4, <2>5
  <2>8. \A x \in Int : x \in used <=> x \in A \cup B
    BY Zenon, <2>4, <2>5, <2>6 DEF UsedPage
  <2> HIDE DEF A, B
  <2>9. used = A \cup B
    BY Zenon, <2>1, <2>7, <2>8
  <2> QED
    BY Zenon, <2>9 DEF A, B
<1> QED
  BY Zenon, <1>1, <1>2 DEF IInv, UsedExact, Typed

\* In every run of the allocator, whatever the sizes of the pools and the
\* number of threads, the invariant holds.
THEOREM Invariance == Spec => []IInv
BY InitIInv, NextIInv, PTL DEF Spec

\* The bits, locks and groups that palloc.c keeps always have their types,
\* every group lying within one pool.
THEOREM TypeCorrect == Spec => []TypeOK
BY Invariance, IInvImplies, PTL

\* palloc_get_multiple gives no page that a caller has, that another call is
\* about to give, or whose bits palloc_free_multiple is still clearing.
THEOREM PagesGivenOnce == Spec => []PagesExclusive
BY Invariance, IInvImplies, PTL

\* The bits set in the two bitmaps are those of the pages that callers have
\* and of the calls on their way, and the ASSERT of palloc_free_multiple holds.
THEOREM BitsExact == Spec => []UsedExact
BY Invariance, IInvImplies, PTL
-----------------------------------------------------------------------------
\* A run that was there when the lock was taken is still there, and not behind
\* the scan.
RunAhead(t) ==
  \E s \in PagesOf(pc[t].pool) : s >= pc[t].i /\ Span(s, pc[t].cnt) \subseteq PagesOf(pc[t].pool) \ used
RunKept == \A t \in Thread : pc[t].at = "scan" /\ pc[t].had => RunAhead(t)

\* A step of another thread keeps the run that a scan of t has ahead: frees
\* only clear bits, and who sets bits has the lock of the other pool.
LEMMA OthersKeepRun ==
  ASSUME IInv, NEW t \in Thread, NEW u \in Thread, u # t, InCall(u), pc[t].at = "scan", RunAhead(t)
  PROVE  RunAhead(t)'
<1>1. pc'[t] = pc[t]
  BY Zenon DEF InCall, LockPool, ScanBit, ScanFails, FlipBit, UnlockPool, ClearBit, IInv,
     Typed
<1>2. used' \cap PagesOf(pc[t].pool) \subseteq used
  <2>1. CASE FlipBit(u)
    <3>1. pc[u].at = "flip" /\ lock[pc[u].pool] = u /\ lock[pc[t].pool] = t
      BY Zenon, <2>1 DEF FlipBit, At, IInv, Locked
    <3>2. pc[u] \in Place /\ pc[t] \in Place /\ PlaceRight(u)
      BY Zenon DEF IInv, Typed
    <3>3. pc[u].pool \in Pool /\ pc[t].pool \in Pool /\ pc[u].pool # pc[t].pool
      BY Zenon, <3>1, <3>2 DEF Place
    <3>4. pc[u].i + pc[u].j \in PagesOf(pc[u].pool)
      BY <3>1, <3>2, <3>3, PoolFacts
         DEF PlaceRight, Scanning, Flipping, Unlocking, Freeing, MoreToScan, PagesOf, Place
    <3>5. pc[u].i + pc[u].j \notin PagesOf(pc[t].pool)
      BY Zenon, <3>3, <3>4, PoolFacts DEF Pool
    <3> QED
      BY Zenon, <2>1, <3>5 DEF FlipBit
  <2>2. CASE ~FlipBit(u)
    BY Zenon, <2>2 DEF InCall, LockPool, ScanBit, ScanFails, UnlockPool, ClearBit
  <2> QED
    BY Zenon, <2>1, <2>2
<1> QED
  BY Zenon, <1>1, <1>2 DEF RunAhead, Span, PagesOf

\* A test of a bit moves the scan of t past no run that is free.
LEMMA ScanKeepsRun ==
  ASSUME IInv, NEW t \in Thread, ScanBit(t), RunAhead(t), pc'[t].at = "scan"
  PROVE  RunAhead(t)'
<1>0. pc \in [Thread -> Place] /\ pc[t] \in Place /\ PlaceRight(t) /\ pc[t].at = "scan"
  BY Zenon DEF IInv, Typed, ScanBit, At
<1>1. PICK s \in PagesOf(pc[t].pool) :
         s >= pc[t].i /\ Span(s, pc[t].cnt) \subseteq PagesOf(pc[t].pool) \ used
  BY Zenon DEF RunAhead
<1>2. pc'[t].pool = pc[t].pool /\ pc'[t].cnt = pc[t].cnt /\ used' = used
  BY Zenon, <1>0 DEF ScanBit, Place
<1>3. pc'[t].i = IF pc[t].i + pc[t].j \notin used THEN pc[t].i ELSE pc[t].i + 1
  BY Zenon, <1>0 DEF ScanBit, Place
<1>4. s \in Int /\ pc[t].i \in Int /\ pc[t].j \in Nat /\ pc[t].cnt \in Nat /\ pc[t].j < pc[t].cnt
  BY Zenon, <1>0, PoolFacts DEF Place, PagesOf, PlaceRight, Scanning, Flipping, Unlocking, Freeing
<1>5. s >= pc'[t].i
  BY SMTT(30), <1>1, <1>3, <1>4 DEF Span
<1> QED
  BY Zenon, <1>1, <1>2, <1>5 DEF RunAhead, Span, PagesOf

\* Every step keeps the runs that scans have ahead of them.
LEMMA NextRunKept == IInv /\ RunKept /\ [Next]_vars => RunKept'
<1> SUFFICES ASSUME IInv, RunKept, [Next]_vars, NEW t \in Thread, pc'[t].at = "scan", pc'[t].had
             PROVE  RunAhead(t)'
  BY Zenon DEF RunKept
<1>0. pc \in [Thread -> Place]
  BY Zenon DEF IInv, Typed
<1>1. ASSUME NEW u \in Thread, NEW p \in Pool, NEW cnt \in 1 .. MaxCount, palloc_get_multiple(u, p, cnt)
      PROVE  RunAhead(t)'
  <2>1. pc'[t] = pc[t] /\ used' = used
    BY Zenon, <1>0, <1>1 DEF palloc_get_multiple, Idle
  <2> QED
    BY Zenon, <2>1 DEF RunKept, RunAhead, Span, PagesOf
<1>2. ASSUME NEW u \in Thread, NEW g \in held, palloc_free_multiple(u, g)
      PROVE  RunAhead(t)'
  <2>1. pc'[t] = pc[t] /\ used' = used
    BY Zenon, <1>0, <1>2 DEF palloc_free_multiple, Idle
  <2> QED
    BY Zenon, <2>1 DEF RunKept, RunAhead, Span, PagesOf
<1>3. ASSUME NEW u \in Thread, u # t, InCall(u)
      PROVE  RunAhead(t)'
  <2>1. pc'[t] = pc[t]
    BY Zenon, <1>0, <1>3 DEF InCall, LockPool, ScanBit, ScanFails, FlipBit, UnlockPool,
       ClearBit
  <2> QED
    BY Zenon, <2>1, <1>3, OthersKeepRun DEF RunKept
<1>4. CASE LockPool(t)
  <2>1. /\ pc'[t].pool = pc[t].pool /\ pc'[t].cnt = pc[t].cnt /\ used' = used
        /\ pc'[t].i = base[pc[t].pool] /\ pc'[t].had = HasRun(pc[t].pool, pc[t].cnt)
    BY ZenonT(30), <1>0, <1>4 DEF LockPool, Place
  <2>2. base[pc[t].pool] \in Int /\ bit_cnt[pc[t].pool] \in Int
    BY Zenon, <1>0, PoolFacts DEF Place
  <2>3. PICK s \in PagesOf(pc[t].pool) : Span(s, pc[t].cnt) \subseteq PagesOf(pc[t].pool) \ used
    BY ZenonT(30), <2>1 DEF HasRun
  <2>4. s >= pc'[t].i
    BY <2>1, <2>2, <2>3 DEF PagesOf
  <2> QED
    BY Zenon, <2>1, <2>3, <2>4 DEF RunAhead, Span, PagesOf
<1>5. CASE ScanBit(t)
  <2>1. pc[t].at = "scan" /\ pc'[t].had = pc[t].had
    BY <1>0, <1>5 DEF ScanBit, At, Place
  <2> QED
    BY Zenon, <2>1, <1>5, ScanKeepsRun DEF RunKept
<1>6. ~ScanFails(t) /\ ~FlipBit(t) /\ ~UnlockPool(t) /\ ~ClearBit(t)
  <2>1. Idle.at = "idle"
    BY Zenon DEF Idle
  <2>2. ASSUME ScanFails(t) \/ UnlockPool(t) PROVE FALSE
    BY Zenon, <2>1, <2>2, <1>0 DEF ScanFails, UnlockPool
  <2>3. ASSUME FlipBit(t) PROVE FALSE
    BY Zenon, <2>3, <1>0 DEF FlipBit, At, Place
  <2>4. ASSUME ClearBit(t) PROVE FALSE
    <3>1. pc'[t] = IF pc[t].j + 1 = pc[t].cnt THEN Idle ELSE [pc[t] EXCEPT !.j = @ + 1]
      BY Zenon, <2>4, <1>0 DEF ClearBit
    <3>2. [pc[t] EXCEPT !.j = @ + 1].at = "clear"
      BY Zenon, <2>4, <1>0 DEF ClearBit, At, Place
    <3> QED
      BY Zenon, <3>1, <3>2, <2>1
  <2> QED
    BY Zenon, <2>2, <2>3, <2>4
<1>7. CASE UNCHANGED vars
  BY Zenon, <1>7 DEF vars, RunKept, RunAhead, Span, PagesOf
<1> QED
  BY Zenon, <1>1, <1>2, <1>3, <1>4, <1>5, <1>6, <1>7 DEF Next, InCall

\* palloc_get_multiple fails only if no run was free when it took the lock:
\* frees that come during its scan, without the lock, never hide one.
THEOREM ScanFindsRun == Spec => FoundIfThere
<1>1. Init => RunKept
  BY DEF Init, RunKept, Idle
<1>2. Spec => []RunKept
  BY <1>1, NextRunKept, Invariance, PTL DEF Spec
<1>3. IInv /\ RunKept /\ [Next]_vars => [\A t \in Thread : ScanFails(t) => ~pc[t].had]_vars
  <2> SUFFICES ASSUME IInv, RunKept, NEW t \in Thread, ScanFails(t), pc[t].had PROVE FALSE
    BY Zenon
  <2>1. pc[t] \in Place /\ PlaceRight(t) /\ pc[t].at = "scan" /\ ~MoreToScan(t)
    BY Zenon DEF IInv, Typed, ScanFails, At
  <2>2. PICK s \in PagesOf(pc[t].pool) :
           s >= pc[t].i /\ Span(s, pc[t].cnt) \subseteq PagesOf(pc[t].pool) \ used
    BY Zenon, <2>1 DEF RunKept, RunAhead
  <2>3. base[pc[t].pool] \in Int /\ bit_cnt[pc[t].pool] \in Int
    BY Zenon, <2>1, PoolFacts DEF Place
  <2>4. pc[t].i \in Int /\ pc[t].cnt \in Nat \ {0} /\ s \in Int
    BY <2>1, <2>3 DEF Place, PagesOf, PlaceRight, Scanning, Flipping, Unlocking, Freeing
  <2>5. s + pc[t].cnt - 1 \in Span(s, pc[t].cnt)
    BY <2>4 DEF Span
  <2>6. s + pc[t].cnt - 1 \in PagesOf(pc[t].pool)
    BY Zenon, <2>2, <2>5
  <2> QED
    BY <2>1, <2>2, <2>3, <2>4, <2>6 DEF PagesOf, MoreToScan
<1> QED
  BY <1>2, <1>3, Invariance, PTL DEF Spec, FoundIfThere
-----------------------------------------------------------------------------
\* The serial port and the input buffer: devices/serial.c, intq.c and input.c.
CONSTANTS Reader, Writer, BUFSIZE, NUMBERS
VARIABLES txq, inq, waiter, qlock, spc, mode, ier, thre, rx, nput, nsent, nkey, ngot, sstop
Ser == INSTANCE Serial WITH pc <- spc, stop <- sstop

\* A queue has room for a byte, bytes get different numbers while they are in a
\* queue, and readers and writers are different threads.  At most one thread
\* writes: who calls serial_putc has the lock of the console.
SerialConstants ==
  /\ BUFSIZE \in Nat /\ BUFSIZE > 1 /\ NUMBERS \in Nat /\ NUMBERS >= BUFSIZE
  /\ Ser!NONE \notin Reader /\ Ser!NONE \notin Writer /\ Reader \cap Writer = {}
  /\ \A t, u \in Writer : t = u

Number == 0 .. NUMBERS - 1
\* A queue with the numbers from a up to before b.
Ordered(q, a, b) == q = Ser!Numbers(a, (b - a) % NUMBERS)
IsQueue(q) == q \in Seq(Number) /\ Len(q) < BUFSIZE
-----------------------------------------------------------------------------
\* The remainders that occur: of a number in range, which is the number itself.
LEMMA RemainderWithin ==
  ASSUME NEW N \in Nat \ {0}, NEW x \in Int, 0 <= x, x < N
  PROVE  x % N = x
OBVIOUS
\* One subtraction away.
LEMMA RemainderAbove ==
  ASSUME NEW N \in Nat \ {0}, NEW x \in Int, N <= x, x < N + N
  PROVE  x % N = x - N
OBVIOUS
\* One addition away.
LEMMA RemainderBelow ==
  ASSUME NEW N \in Nat \ {0}, NEW x \in Int, -N <= x, x < 0
  PROVE  x % N = x + N
OBVIOUS

\* The length and the elements of an ordered queue.
LEMMA OrderedIs ==
  ASSUME SerialConstants, NEW a \in Number, NEW b \in Number, NEW q, Ordered(q, a, b), IsQueue(q)
  PROVE  /\ Len(q) = IF a <= b THEN b - a ELSE b - a + NUMBERS
         /\ \A i \in 1 .. Len(q) :
              q[i] = IF a + i - 1 < NUMBERS THEN a + i - 1 ELSE (a + i - 1) - NUMBERS
<1> DEFINE n == (b - a) % NUMBERS
<1>1. NUMBERS \in Nat \ {0} /\ a \in Int /\ b \in Int /\ 0 <= a /\ a < NUMBERS /\ 0 <= b /\ b < NUMBERS
  BY DEF SerialConstants, Number
<1>2. n = IF a <= b THEN b - a ELSE b - a + NUMBERS
  <2>1. CASE a <= b
    <3>1. b - a \in Int /\ 0 <= b - a /\ b - a < NUMBERS
      BY <1>1, <2>1
    <3>2. n = b - a
      BY Zenon, <1>1, <3>1, RemainderWithin
    <3>3. QED BY Zenon, <2>1, <3>2
  <2>2. CASE ~(a <= b)
    <3>1. b - a \in Int /\ -NUMBERS <= b - a /\ b - a < 0
      BY <1>1, <2>2
    <3>2. n = b - a + NUMBERS
      BY Zenon, <1>1, <3>1, RemainderBelow
    <3>3. QED BY Zenon, <2>2, <3>2
  <2>3. QED BY Zenon, <2>1, <2>2
<1>3. n \in Nat /\ n < NUMBERS
  BY <1>1, <1>2
<1>4. q = [i \in 1 .. n |-> (a + i - 1) % NUMBERS]
  BY Zenon DEF Ordered, Ser!Numbers
<1> HIDE DEF n
<1>5. Len(q) = n
  BY <1>3, <1>4 DEF IsQueue
<1>6. ASSUME NEW i \in 1 .. n
      PROVE  q[i] = IF a + i - 1 < NUMBERS THEN a + i - 1 ELSE (a + i - 1) - NUMBERS
  <2>1. q[i] = (a + i - 1) % NUMBERS
    BY Zenon, <1>4
  <2>2. CASE a + i - 1 < NUMBERS
    <3>1. a + i - 1 \in Int /\ 0 <= a + i - 1
      BY <1>1, <1>3
    <3>2. (a + i - 1) % NUMBERS = a + i - 1
      BY Zenon, <1>1, <2>2, <3>1, RemainderWithin
    <3>3. QED BY Zenon, <2>1, <2>2, <3>2
  <2>3. CASE ~(a + i - 1 < NUMBERS)
    <3>1. a + i - 1 \in Int /\ NUMBERS <= a + i - 1 /\ a + i - 1 < NUMBERS + NUMBERS
      BY <1>1, <1>3, <2>3
    <3>2. (a + i - 1) % NUMBERS = (a + i - 1) - NUMBERS
      BY Zenon, <1>1, <3>1, RemainderAbove
    <3>3. QED BY Zenon, <2>1, <2>3, <3>2
  <2>4. QED BY Zenon, <2>2, <2>3
<1>7. QED BY Zenon, <1>2, <1>5, <1>6

\* And that it is ordered if these are its length and elements.
LEMMA OrderedIf ==
  ASSUME SerialConstants, NEW a \in Number, NEW b \in Number, NEW q, IsQueue(q),
         Len(q) = IF a <= b THEN b - a ELSE b - a + NUMBERS,
         \A i \in 1 .. Len(q) :
           q[i] = IF a + i - 1 < NUMBERS THEN a + i - 1 ELSE (a + i - 1) - NUMBERS
  PROVE  Ordered(q, a, b)
<1> DEFINE n == (b - a) % NUMBERS
<1>1. NUMBERS \in Nat \ {0} /\ a \in Int /\ b \in Int /\ 0 <= a /\ a < NUMBERS /\ 0 <= b /\ b < NUMBERS
  BY DEF SerialConstants, Number
<1>2. n = Len(q)
  <2>1. CASE a <= b
    <3>1. b - a \in Int /\ 0 <= b - a /\ b - a < NUMBERS
      BY <1>1, <2>1
    <3>2. n = b - a
      BY Zenon, <1>1, <3>1, RemainderWithin
    <3>3. QED BY Zenon, <2>1, <3>2
  <2>2. CASE ~(a <= b)
    <3>1. b - a \in Int /\ -NUMBERS <= b - a /\ b - a < 0
      BY <1>1, <2>2
    <3>2. n = b - a + NUMBERS
      BY Zenon, <1>1, <3>1, RemainderBelow
    <3>3. QED BY Zenon, <2>2, <3>2
  <2>3. QED BY Zenon, <2>1, <2>2
<1>3. n \in Nat /\ n < NUMBERS
  BY <1>1
<1> HIDE DEF n
<1>4. ASSUME NEW i \in 1 .. n
      PROVE  q[i] = (a + i - 1) % NUMBERS
  <2>1. CASE a + i - 1 < NUMBERS
    <3>1. a + i - 1 \in Int /\ 0 <= a + i - 1
      BY <1>1, <1>3
    <3>2. (a + i - 1) % NUMBERS = a + i - 1
      BY Zenon, <1>1, <2>1, <3>1, RemainderWithin
    <3>3. QED BY Zenon, <1>2, <2>1, <3>2
  <2>2. CASE ~(a + i - 1 < NUMBERS)
    <3>1. a + i - 1 \in Int /\ NUMBERS <= a + i - 1 /\ a + i - 1 < NUMBERS + NUMBERS
      BY <1>1, <1>3, <2>2
    <3>2. (a + i - 1) % NUMBERS = (a + i - 1) - NUMBERS
      BY Zenon, <1>1, <3>1, RemainderAbove
    <3>3. QED BY Zenon, <1>2, <2>2, <3>2
  <2>3. QED BY Zenon, <2>1, <2>2
<1>5. q = [i \in 1 .. n |-> q[i]]
  BY <1>2 DEF IsQueue
<1>6. q = [i \in 1 .. n |-> (a + i - 1) % NUMBERS]
  BY Zenon, <1>4, <1>5
<1>7. QED BY Zenon, <1>6 DEF Ordered, Ser!Numbers, n

\* Next1 in the same terms.
LEMMA Next1Is ==
  ASSUME SerialConstants, NEW a \in Number
  PROVE  Ser!Next1(a) \in Number /\ Ser!Next1(a) = IF a + 1 < NUMBERS THEN a + 1 ELSE 0
<1>1. NUMBERS \in Nat \ {0} /\ a \in Int /\ 0 <= a /\ a < NUMBERS
  BY DEF SerialConstants, Number
<1>2. CASE a + 1 < NUMBERS
  <2>1. a + 1 \in Int /\ 0 <= a + 1
    BY <1>1
  <2>2. Ser!Next1(a) = a + 1
    BY Zenon, <1>1, <1>2, <2>1, RemainderWithin DEF Ser!Next1
  <2>3. QED BY <1>1, <1>2, <2>2 DEF Number
<1>3. CASE ~(a + 1 < NUMBERS)
  <2>1. a + 1 \in Int /\ NUMBERS <= a + 1 /\ a + 1 < NUMBERS + NUMBERS
    BY <1>1, <1>3, SerialConstants DEF SerialConstants
  <2>2. Ser!Next1(a) = (a + 1) - NUMBERS
    BY Zenon, <1>1, <2>1, RemainderAbove DEF Ser!Next1
  <2>3. QED BY <1>1, <1>3, <2>2 DEF Number
<1>4. QED BY Zenon, <1>2, <1>3

\* intq_putc keeps the order.
LEMMA PutOrdered ==
  ASSUME SerialConstants, NEW a \in Number, NEW b \in Number, NEW q, IsQueue(q), Ordered(q, a, b),
         Len(q) < BUFSIZE - 1
  PROVE  IsQueue(Append(q, b)) /\ Ordered(Append(q, b), a, Ser!Next1(b)) /\ Append(q, b) # <<>>
<1> DEFINE r == Append(q, b)
<1>1. /\ q \in Seq(Number) /\ BUFSIZE \in Nat /\ NUMBERS \in Nat /\ BUFSIZE <= NUMBERS
      /\ a \in Int /\ b \in Int /\ 0 <= a /\ a < NUMBERS /\ 0 <= b /\ b < NUMBERS
  BY DEF IsQueue, SerialConstants, Number
<1>2. /\ r \in Seq(Number) /\ Len(r) = Len(q) + 1 /\ r[Len(q) + 1] = b /\ Len(q) \in Nat
      /\ \A i \in 1 .. Len(q) : r[i] = q[i]
  <2>1. b \in Number
    OBVIOUS
  <2>2. r \in Seq(Number) /\ Len(r) = Len(q) + 1 /\ Len(q) \in Nat
    BY <1>1, <2>1
  <2>3. r[Len(q) + 1] = b
    BY <1>1, <2>1
  <2>4. \A i \in 1 .. Len(q) : r[i] = q[i]
    BY <1>1, <2>1
  <2>5. QED BY Zenon, <2>2, <2>3, <2>4
<1>3. r # <<>>
  BY <1>2
<1> HIDE DEF r
<1>4. IsQueue(r)
  BY <1>1, <1>2 DEF IsQueue
<1>5. /\ Len(q) = IF a <= b THEN b - a ELSE b - a + NUMBERS
      /\ \A i \in 1 .. Len(q) :
           q[i] = IF a + i - 1 < NUMBERS THEN a + i - 1 ELSE (a + i - 1) - NUMBERS
  BY Zenon, OrderedIs
<1>6. Ser!Next1(b) \in Number /\ Ser!Next1(b) = IF b + 1 < NUMBERS THEN b + 1 ELSE 0
  BY Zenon, Next1Is
<1>7. Len(r) = IF a <= Ser!Next1(b) THEN Ser!Next1(b) - a ELSE Ser!Next1(b) - a + NUMBERS
  BY <1>1, <1>2, <1>5, <1>6
<1>8. ASSUME NEW i \in 1 .. Len(r)
      PROVE  r[i] = IF a + i - 1 < NUMBERS THEN a + i - 1 ELSE (a + i - 1) - NUMBERS
  <2>1. CASE i \in 1 .. Len(q)
    BY Zenon, <1>2, <1>5, <2>1
  <2>2. CASE i = Len(q) + 1
    BY <1>1, <1>2, <1>5, <2>2
  <2>3. i \in 1 .. Len(q) \/ i = Len(q) + 1
    BY <1>2
  <2>4. QED BY Zenon, <2>1, <2>2, <2>3
<1>9. Ordered(r, a, Ser!Next1(b))
  BY Zenon, <1>4, <1>6, <1>7, <1>8, OrderedIf
<1>10. QED BY Zenon, <1>3, <1>4, <1>9 DEF r

\* The head of an ordered queue is the oldest number, its last the newest.
LEMMA GetOrdered ==
  ASSUME SerialConstants, NEW a \in Number, NEW b \in Number, NEW q, IsQueue(q), Ordered(q, a, b),
         q # <<>>
  PROVE  /\ IsQueue(Tail(q)) /\ Ordered(Tail(q), Ser!Next1(a), b) /\ Len(Tail(q)) = Len(q) - 1
         /\ Head(q) = a /\ Ser!Next1(q[Len(q)]) = b
<1> DEFINE r == Tail(q)
<1>1. /\ q \in Seq(Number) /\ BUFSIZE \in Nat /\ NUMBERS \in Nat /\ BUFSIZE <= NUMBERS
      /\ a \in Int /\ b \in Int /\ 0 <= a /\ a < NUMBERS /\ 0 <= b /\ b < NUMBERS
  BY DEF IsQueue, SerialConstants, Number
<1>2. /\ r \in Seq(Number) /\ Len(r) = Len(q) - 1 /\ Len(q) \in Nat /\ Len(q) > 0 /\ Head(q) = q[1]
      /\ \A i \in 1 .. Len(q) - 1 : r[i] = q[i + 1]
  BY <1>1
<1> HIDE DEF r
<1>3. IsQueue(r)
  BY <1>1, <1>2 DEF IsQueue
<1>4. /\ Len(q) = IF a <= b THEN b - a ELSE b - a + NUMBERS
      /\ \A i \in 1 .. Len(q) :
           q[i] = IF a + i - 1 < NUMBERS THEN a + i - 1 ELSE (a + i - 1) - NUMBERS
  BY Zenon, OrderedIs
<1>5. Ser!Next1(a) \in Number /\ Ser!Next1(a) = IF a + 1 < NUMBERS THEN a + 1 ELSE 0
  BY Zenon, Next1Is
<1>6. Len(r) = IF Ser!Next1(a) <= b THEN b - Ser!Next1(a) ELSE b - Ser!Next1(a) + NUMBERS
  BY <1>1, <1>2, <1>4, <1>5
<1>7. ASSUME NEW i \in 1 .. Len(r)
      PROVE  r[i] = IF Ser!Next1(a) + i - 1 < NUMBERS THEN Ser!Next1(a) + i - 1 ELSE (Ser!Next1(a) + i - 1) - NUMBERS
  <2>1. r[i] = q[i + 1] /\ i + 1 \in 1 .. Len(q) /\ i \in Int
    BY <1>2
  <2>2. q[i + 1] = IF a + (i + 1) - 1 < NUMBERS THEN a + (i + 1) - 1 ELSE (a + (i + 1) - 1) - NUMBERS
    BY Zenon, <1>4, <2>1
  <2>3. i + 1 <= Len(q) /\ i >= 1
    BY <1>2, <2>1
  <2>4. QED BY <1>1, <1>4, <1>5, <2>1, <2>2, <2>3
<1>8. Ordered(r, Ser!Next1(a), b)
  BY Zenon, <1>3, <1>5, <1>6, <1>7, OrderedIf
<1>9. Head(q) = a
  BY <1>1, <1>2, <1>4
<1>10. Ser!Next1(q[Len(q)]) = b
  <2>1. Len(q) \in 1 .. Len(q) /\ q[Len(q)] \in Number
    BY <1>1, <1>2
  <2>2. Ser!Next1(q[Len(q)]) = IF q[Len(q)] + 1 < NUMBERS THEN q[Len(q)] + 1 ELSE 0
    BY Zenon, <2>1, Next1Is
  <2>3. q[Len(q)] = IF a + Len(q) - 1 < NUMBERS THEN a + Len(q) - 1 ELSE (a + Len(q) - 1) - NUMBERS
    BY Zenon, <1>4, <2>1
  <2>4. QED BY <1>1, <1>2, <1>4, <2>2, <2>3
<1>11. QED BY Zenon, <1>2, <1>3, <1>8, <1>9, <1>10 DEF r

\* Between two equal numbers there is nothing.
LEMMA EmptyOrdered ==
  ASSUME SerialConstants, NEW a \in Number
  PROVE  IsQueue(<<>>) /\ Ordered(<<>>, a, a)
<1>1. IsQueue(<<>>) /\ Len(<<>>) = 0
  BY DEF IsQueue, SerialConstants
<1>2. Len(<<>>) = IF a <= a THEN a - a ELSE a - a + NUMBERS
  BY <1>1 DEF Number
<1>3. \A i \in 1 .. Len(<<>>) :
        <<>>[i] = IF a + i - 1 < NUMBERS THEN a + i - 1 ELSE (a + i - 1) - NUMBERS
  BY <1>1
<1>4. QED BY Zenon, <1>1, <1>2, <1>3, OrderedIf

-----------------------------------------------------------------------------
User == Reader \cup Writer
Queue == {"tx", "in"}
\* The queues, the numbers of their bytes and the port.
QueueTyped ==
  /\ IsQueue(txq) /\ IsQueue(inq) /\ nput \in Number /\ nsent \in Number /\ nkey \in Number
  /\ ngot \in Number /\ mode \in {"UNINIT", "POLL", "QUEUE"} /\ ier \subseteq {"XMIT", "RECV"}
\* Nothing is queued for the port before it is driven by interrupts.
PolledEmpty == mode # "QUEUE" => txq = <<>>
QueueInv ==
  /\ QueueTyped /\ Ordered(txq, nsent, nput) /\ Ordered(inq, ngot, nkey)
  /\ Ser!IerRight /\ PolledEmpty
\* Readers wait on the one queue and writers on the other.
WaitTyped ==
  /\ spc \in [User -> {"idle", "lock", "wait", "woken"}]
  /\ waiter \in [Queue -> User \cup {Ser!NONE}] /\ qlock \in [Queue -> User \cup {Ser!NONE}]
  /\ waiter["in"] \in Reader \cup {Ser!NONE} /\ waiter["tx"] \in Writer \cup {Ser!NONE}
  /\ qlock["in"] \in Reader \cup {Ser!NONE} /\ qlock["tx"] \in Writer \cup {Ser!NONE}
\* A reader comes to wait for the lock only because of another one.
LockedOut == \A t \in Reader : spc[t] = "lock" => \E u \in Reader : u # t
WaitInv == WaitTyped /\ Ser!WaitersRight /\ LockedOut
SerialInv == QueueInv /\ WaitInv /\ sstop \in {"run", "panic"}

\* What write_ier leaves enabled.
LEMMA IerIs ==
  ASSUME NEW t, NEW i
  PROVE  /\ Ser!Ier(t, i) \subseteq {"XMIT", "RECV"}
         /\ t # <<>> => "XMIT" \in Ser!Ier(t, i)
         /\ "RECV" \in Ser!Ier(t, i) <=> ~Ser!intq_full(i)
BY Zenon DEF Ser!Ier

\* A step after which the port's interrupts are set for the queues.
LEMMA PortStep ==
  ASSUME QueueInv, IsQueue(txq'), IsQueue(inq'),
         nput' \in Number, nsent' \in Number, nkey' \in Number, ngot' \in Number,
         Ordered(txq, nsent, nput)', Ordered(inq, ngot, nkey)',
         mode' \in {"UNINIT", "POLL", "QUEUE"}, mode' # "QUEUE" => txq' = <<>>,
         ier' \subseteq {"XMIT", "RECV"}, mode' = "QUEUE" => ier' = Ser!Ier(txq', inq')
  PROVE  QueueInv'
<1>1. QueueTyped'
  BY Zenon DEF QueueTyped, IsQueue
<1>2. Ser!IerRight'
  BY Zenon, IerIs DEF Ser!IerRight, Ser!intq_full
<1>3. QED BY Zenon, <1>1, <1>2 DEF QueueInv, PolledEmpty

\* A step that leaves the queues alone.
LEMMA QueuesStay ==
  ASSUME QueueInv, UNCHANGED <<txq, inq, mode, ier, nput, nsent, nkey, ngot>>
  PROVE  QueueInv'
<1>1. QueueTyped'
  BY Zenon DEF QueueInv, QueueTyped, IsQueue
<1>2. Ser!IerRight'
  BY Zenon DEF QueueInv, Ser!IerRight, Ser!intq_full
<1>3. Ordered(txq, nsent, nput)' /\ Ordered(inq, ngot, nkey)'
  BY Zenon DEF QueueInv, Ordered, Ser!Numbers
<1>4. QED BY Zenon, <1>1, <1>2, <1>3 DEF QueueInv, PolledEmpty

\* A step that wakes the threads that wait on the queues Q, and takes nothing
\* another waiter waits for.
LEMMA SignalStep ==
  ASSUME SerialConstants, WaitInv, NEW Q \in SUBSET Queue, qlock' = qlock,
         spc' \in [User -> {"idle", "lock", "wait", "woken"}],
         \A t \in User : spc'[t] = IF \E q \in Q : t = waiter[q] THEN "woken" ELSE spc[t],
         waiter' \in [Queue -> User \cup {Ser!NONE}],
         \A q \in Queue : waiter'[q] = IF q \in Q THEN Ser!NONE ELSE waiter[q],
         "in" \notin Q /\ waiter["in"] # Ser!NONE => inq' = <<>>,
         "tx" \notin Q /\ waiter["tx"] # Ser!NONE => Ser!intq_full(txq')
  PROVE  WaitInv'
<1>1. /\ WaitTyped /\ "in" \in Queue /\ "tx" \in Queue /\ "in" # "tx"
      /\ Queue = {"tx", "in"} /\ "woken" # "wait" /\ "woken" # "lock"
  BY DEF WaitInv, Queue
<1>2. WaitTyped'
  BY Zenon, <1>1 DEF WaitTyped
<1>3. ASSUME NEW q \in Queue, waiter'[q] # Ser!NONE
      PROVE  spc'[waiter'[q]] = "wait" /\ qlock'[q] = waiter'[q]
  <2>1. q \notin Q /\ waiter'[q] = waiter[q] /\ waiter[q] # Ser!NONE
    BY Zenon, <1>3
  <2>2. spc[waiter[q]] = "wait" /\ qlock[q] = waiter[q] /\ waiter[q] \in User
    BY Zenon, <1>1, <2>1 DEF WaitInv, Ser!WaitersRight, WaitTyped
  <2>3. ASSUME NEW r \in Q PROVE waiter[q] # waiter[r]
    <3>1. r # q /\ r \in Queue
      BY Zenon, <2>1
    <3>2. waiter["in"] \in Reader \cup {Ser!NONE} /\ waiter["tx"] \in Writer \cup {Ser!NONE}
      BY Zenon, <1>1 DEF WaitTyped
    <3>3. (q = "in" /\ r = "tx") \/ (q = "tx" /\ r = "in")
      BY Zenon, <1>1, <3>1
    <3>4. QED BY Zenon, <2>1, <3>2, <3>3 DEF SerialConstants
  <2>4. QED BY Zenon, <2>1, <2>2, <2>3
<1>4. ASSUME NEW t \in User, spc'[t] = "wait"
      PROVE  waiter'[IF t \in Reader THEN "in" ELSE "tx"] = t
  <2> DEFINE k == IF t \in Reader THEN "in" ELSE "tx"
  <2>1. spc[t] = "wait" /\ \A q \in Q : t # waiter[q]
    BY Zenon, <1>1, <1>4
  <2>2. k \in Queue
    BY Zenon, <1>1
  <2>3. waiter[k] = t
    BY Zenon, <1>1, <2>1 DEF WaitInv, Ser!WaitersRight, WaitTyped
  <2> HIDE DEF k
  <2>4. waiter'[k] = t
    BY Zenon, <2>1, <2>2, <2>3
  <2>5. QED BY Zenon, <2>4 DEF k
<1>5. waiter'["in"] # Ser!NONE => inq' = <<>>
  BY Zenon, <1>1
<1>6. waiter'["tx"] # Ser!NONE => Ser!intq_full(txq')
  BY Zenon, <1>1
<1>7. DOMAIN spc' = User
  BY Zenon
<1>8. Ser!WaitersRight'
  BY Zenon, <1>1, <1>3, <1>4, <1>5, <1>6, <1>7 DEF Ser!WaitersRight, Ser!intq_full
<1>9. LockedOut'
  <2>1. \A t \in User : spc'[t] = "lock" => spc[t] = "lock"
    BY Zenon, <1>1
  <2>2. QED BY Zenon, <2>1 DEF WaitInv, LockedOut, User
<1>10. QED BY Zenon, <1>2, <1>8, <1>9 DEF WaitInv

\* A step that leaves the threads alone.
LEMMA WaitersStay ==
  ASSUME WaitInv, UNCHANGED <<spc, waiter, qlock>>,
         waiter["in"] # Ser!NONE => inq' = <<>>, waiter["tx"] # Ser!NONE => Ser!intq_full(txq')
  PROVE  WaitInv'
<1>1. WaitTyped' /\ LockedOut'
  BY Zenon DEF WaitInv, WaitTyped, LockedOut
<1>2. Ser!WaitersRight'
  BY Zenon DEF WaitInv, Ser!WaitersRight, Ser!intq_full
<1>3. QED BY Zenon, <1>1, <1>2 DEF WaitInv

\* A thread that finds what it needs, and with it the queue it may have held.
LEMMA GoesOnStep ==
  ASSUME SerialConstants, WaitInv, NEW q \in Queue, NEW t \in User, spc[t] \in {"idle", "woken"},
         Ser!GoesOn(q, t), spc' = [spc EXCEPT ![t] = "idle"], waiter' = waiter,
         waiter["in"] # Ser!NONE => inq' = <<>>, waiter["tx"] # Ser!NONE => Ser!intq_full(txq')
  PROVE  WaitInv'
<1>1. /\ WaitTyped /\ "in" \in Queue /\ "tx" \in Queue /\ "idle" # "wait" /\ "woken" # "wait"
      /\ Queue = {"tx", "in"} /\ "idle" # "lock"
  BY DEF WaitInv, Queue
<1>2. /\ spc \in [User -> {"idle", "lock", "wait", "woken"}]
      /\ waiter \in [Queue -> User \cup {Ser!NONE}] /\ qlock \in [Queue -> User \cup {Ser!NONE}]
  BY Zenon, <1>1 DEF WaitTyped
<1>3. /\ spc' \in [User -> {"idle", "lock", "wait", "woken"}] /\ spc'[t] = "idle"
      /\ \A u \in User : u # t => spc'[u] = spc[u]
  BY Zenon, <1>2
<1>4. /\ qlock' \in [Queue -> User \cup {Ser!NONE}]
      /\ \A r \in Queue : \/ qlock'[r] = qlock[r]
                          \/ qlock[r] = t /\ qlock'[r] = Ser!NONE
  <2>1. qlock' = [qlock EXCEPT ![q] = IF qlock[q] = t THEN Ser!NONE ELSE qlock[q]]
    BY Zenon DEF Ser!GoesOn
  <2>2. (IF qlock[q] = t THEN Ser!NONE ELSE qlock[q]) \in User \cup {Ser!NONE}
    BY Zenon, <1>2
  <2>3. QED BY Zenon, <1>2, <2>1, <2>2
<1>5. WaitTyped'
  BY Zenon, <1>1, <1>3, <1>4 DEF WaitTyped
<1>6. spc[t] # "wait"
  BY Zenon, <1>1
<1>7. ASSUME NEW r \in Queue, waiter[r] # Ser!NONE
      PROVE  spc'[waiter[r]] = "wait" /\ qlock'[r] = waiter[r]
  <2>1. spc[waiter[r]] = "wait" /\ qlock[r] = waiter[r] /\ waiter[r] \in User
    BY Zenon, <1>1, <1>2, <1>7 DEF WaitInv, Ser!WaitersRight
  <2>2. QED BY Zenon, <1>3, <1>4, <1>6, <2>1
<1>8. ASSUME NEW u \in User, spc'[u] = "wait"
      PROVE  waiter[IF u \in Reader THEN "in" ELSE "tx"] = u
  <2>1. spc[u] = "wait"
    BY Zenon, <1>1, <1>3, <1>8
  <2>2. QED BY Zenon, <1>2, <2>1 DEF WaitInv, Ser!WaitersRight
<1>9. DOMAIN spc' = User
  BY Zenon, <1>3
<1>10. Ser!WaitersRight'
  BY Zenon, <1>1, <1>7, <1>8, <1>9 DEF Ser!WaitersRight, Ser!intq_full
<1>11. LockedOut'
  BY Zenon, <1>1, <1>3 DEF WaitInv, LockedOut, User
<1>12. QED BY Zenon, <1>5, <1>10, <1>11 DEF WaitInv

\* The thread of a queue: a reader of the buffer, a writer to the port.
UserOf(q, t) == (q = "in" /\ t \in Reader) \/ (q = "tx" /\ t \in Writer)

\* A thread takes a queue's lock, which is free or its own.
LEMMA QueueLockStep ==
  ASSUME SerialConstants, WaitInv, NEW q \in Queue, NEW t, UserOf(q, t), waiter[q] = Ser!NONE,
         qlock' = [qlock EXCEPT ![q] = t]
  PROVE  /\ qlock' \in [Queue -> User \cup {Ser!NONE}] /\ qlock'[q] = t
         /\ qlock'["in"] \in Reader \cup {Ser!NONE} /\ qlock'["tx"] \in Writer \cup {Ser!NONE}
         /\ \A r \in Queue : waiter[r] # Ser!NONE => qlock'[r] = qlock[r]
<1>1. WaitTyped /\ "in" \in Queue /\ "tx" \in Queue /\ "in" # "tx" /\ t \in User
  BY DEF WaitInv, Queue, UserOf, User
<1>2. /\ qlock \in [Queue -> User \cup {Ser!NONE}]
      /\ qlock["in"] \in Reader \cup {Ser!NONE} /\ qlock["tx"] \in Writer \cup {Ser!NONE}
  BY Zenon, <1>1 DEF WaitTyped
<1>3. /\ qlock' \in [Queue -> User \cup {Ser!NONE}] /\ qlock'[q] = t
      /\ \A r \in Queue : r # q => qlock'[r] = qlock[r]
  BY Zenon, <1>1, <1>2
<1>4. qlock'["in"] \in Reader \cup {Ser!NONE} /\ qlock'["tx"] \in Writer \cup {Ser!NONE}
  BY Zenon, <1>1, <1>2, <1>3 DEF UserOf
<1>5. QED BY Zenon, <1>3, <1>4

\* And waits on the queue, which has not what it needs.
LEMMA WaitStep ==
  ASSUME SerialConstants, WaitInv, NEW q \in Queue, NEW t, UserOf(q, t), waiter[q] = Ser!NONE,
         spc[t] # "wait", qlock' = [qlock EXCEPT ![q] = t], waiter' = [waiter EXCEPT ![q] = t],
         spc' = [spc EXCEPT ![t] = "wait"], UNCHANGED <<txq, inq>>,
         q = "in" => inq = <<>>, q = "tx" => Ser!intq_full(txq)
  PROVE  WaitInv'
<1>1. /\ WaitTyped /\ "in" \in Queue /\ "tx" \in Queue /\ "in" # "tx" /\ Queue = {"tx", "in"}
      /\ t \in User /\ "wait" # "lock"
  BY DEF WaitInv, Queue, UserOf, User
<1>2. /\ spc \in [User -> {"idle", "lock", "wait", "woken"}]
      /\ waiter \in [Queue -> User \cup {Ser!NONE}]
      /\ waiter["in"] \in Reader \cup {Ser!NONE} /\ waiter["tx"] \in Writer \cup {Ser!NONE}
  BY Zenon, <1>1 DEF WaitTyped
<1>3. /\ spc' \in [User -> {"idle", "lock", "wait", "woken"}] /\ spc'[t] = "wait"
      /\ \A u \in User : u # t => spc'[u] = spc[u]
  BY Zenon, <1>1, <1>2
<1>4. /\ waiter' \in [Queue -> User \cup {Ser!NONE}] /\ waiter'[q] = t
      /\ \A r \in Queue : r # q => waiter'[r] = waiter[r]
  BY Zenon, <1>1, <1>2
<1>5. waiter'["in"] \in Reader \cup {Ser!NONE} /\ waiter'["tx"] \in Writer \cup {Ser!NONE}
  BY Zenon, <1>1, <1>2, <1>4 DEF UserOf
<1>6. /\ qlock' \in [Queue -> User \cup {Ser!NONE}] /\ qlock'[q] = t
      /\ qlock'["in"] \in Reader \cup {Ser!NONE} /\ qlock'["tx"] \in Writer \cup {Ser!NONE}
      /\ \A r \in Queue : waiter[r] # Ser!NONE => qlock'[r] = qlock[r]
  BY Zenon, QueueLockStep
<1>7. WaitTyped'
  BY Zenon, <1>3, <1>4, <1>5, <1>6 DEF WaitTyped
<1>8. ASSUME NEW r \in Queue, waiter'[r] # Ser!NONE
      PROVE  spc'[waiter'[r]] = "wait" /\ qlock'[r] = waiter'[r]
  <2>1. CASE r = q
    BY Zenon, <1>3, <1>4, <1>6, <2>1
  <2>2. CASE r # q
    <3>1. waiter'[r] = waiter[r] /\ waiter[r] # Ser!NONE
      BY Zenon, <1>4, <1>8, <2>2
    <3>2. spc[waiter[r]] = "wait" /\ qlock[r] = waiter[r] /\ waiter[r] \in User
      BY Zenon, <1>1, <1>2, <3>1 DEF WaitInv, Ser!WaitersRight
    <3>3. QED BY Zenon, <1>3, <1>6, <3>1, <3>2
  <2>3. QED BY Zenon, <2>1, <2>2
<1>9. ASSUME NEW u \in User, spc'[u] = "wait"
      PROVE  waiter'[IF u \in Reader THEN "in" ELSE "tx"] = u
  <2> DEFINE k == IF u \in Reader THEN "in" ELSE "tx"
  <2>1. CASE u = t
    <3>1. k = q
      BY Zenon, <2>1 DEF UserOf, SerialConstants
    <3>2. QED BY Zenon, <1>4, <2>1, <3>1
  <2>2. CASE u # t
    <3>1. spc[u] = "wait" /\ k \in Queue
      BY Zenon, <1>1, <1>3, <1>9, <2>2
    <3>2. waiter[k] = u
      BY Zenon, <1>2, <3>1 DEF WaitInv, Ser!WaitersRight
    <3>3. u # Ser!NONE
      BY Zenon DEF SerialConstants, User
    <3> HIDE DEF k
    <3>4. k # q /\ waiter'[k] = u
      BY Zenon, <1>4, <3>1, <3>2, <3>3
    <3>5. QED BY Zenon, <3>4 DEF k
  <2>3. QED BY Zenon, <2>1, <2>2
<1>10. waiter'["in"] # Ser!NONE => inq' = <<>>
  BY Zenon, <1>1, <1>4 DEF WaitInv, Ser!WaitersRight
<1>11. waiter'["tx"] # Ser!NONE => Ser!intq_full(txq')
  BY Zenon, <1>1, <1>4 DEF WaitInv, Ser!WaitersRight
<1>12. DOMAIN spc' = User
  BY Zenon, <1>3
<1>13. Ser!WaitersRight'
  BY Zenon, <1>1, <1>8, <1>9, <1>10, <1>11, <1>12 DEF Ser!WaitersRight, Ser!intq_full
<1>14. LockedOut'
  <2>1. \A u \in User : spc'[u] = "lock" => spc[u] = "lock"
    BY Zenon, <1>1, <1>3
  <2>2. QED BY Zenon, <2>1 DEF WaitInv, LockedOut, User
<1>15. QED BY Zenon, <1>7, <1>13, <1>14 DEF WaitInv

\* A thread that does not find what it needs.
LEMMA BlocksStep ==
  ASSUME SerialConstants, WaitInv, NEW q \in Queue, NEW t, UserOf(q, t),
         spc[t] \in {"idle", "woken"}, Ser!Blocks(q, t, TRUE), UNCHANGED <<txq, inq>>,
         q = "in" => inq = <<>>, q = "tx" => Ser!intq_full(txq)
  PROVE  WaitInv' /\ sstop' = sstop
<1>1. WaitTyped /\ t \in User /\ spc[t] # "wait" /\ "lock" # "wait" /\ t # Ser!NONE
  BY DEF WaitInv, UserOf, User, SerialConstants
<1>2. CASE qlock[q] \in {Ser!NONE, t}
  <2>1. /\ qlock' = [qlock EXCEPT ![q] = t] /\ waiter' = [waiter EXCEPT ![q] = t]
        /\ spc' = [spc EXCEPT ![t] = "wait"] /\ sstop' = sstop
    BY Zenon, <1>2 DEF Ser!Blocks, Ser!wait
  <2>2. waiter[q] = Ser!NONE
    <3>1. waiter[q] # Ser!NONE => spc[waiter[q]] = "wait" /\ qlock[q] = waiter[q]
      BY Zenon DEF WaitInv, Ser!WaitersRight, Queue
    <3>2. QED BY Zenon, <1>1, <1>2, <3>1
  <2>3. QED BY Zenon, <1>1, <2>1, <2>2, WaitStep
<1>3. CASE qlock[q] \notin {Ser!NONE, t}
  <2>1. /\ spc' = [spc EXCEPT ![t] = "lock"] /\ UNCHANGED <<qlock, waiter, sstop>>
    BY Zenon, <1>3 DEF Ser!Blocks
  <2>2. q = "in" /\ t \in Reader /\ qlock[q] \in Reader
    <3>1. qlock["in"] \in Reader \cup {Ser!NONE} /\ qlock["tx"] \in Writer \cup {Ser!NONE}
      BY Zenon, <1>1 DEF WaitTyped
    <3>2. QED BY Zenon, <1>3, <3>1 DEF UserOf, SerialConstants
  <2>3. spc \in [User -> {"idle", "lock", "wait", "woken"}]
    BY Zenon, <1>1 DEF WaitTyped
  <2>4. /\ spc' \in [User -> {"idle", "lock", "wait", "woken"}] /\ spc'[t] = "lock"
        /\ \A u \in User : u # t => spc'[u] = spc[u]
    BY Zenon, <1>1, <2>1, <2>3
  <2>5. WaitTyped'
    BY Zenon, <1>1, <2>1, <2>4 DEF WaitTyped
  <2>6. ASSUME NEW r \in Queue, waiter[r] # Ser!NONE
        PROVE  spc'[waiter[r]] = "wait" /\ qlock[r] = waiter[r]
    <3>1. spc[waiter[r]] = "wait" /\ qlock[r] = waiter[r] /\ waiter[r] \in User
      BY Zenon, <1>1, <2>6 DEF WaitInv, Ser!WaitersRight, WaitTyped, Queue
    <3>2. QED BY Zenon, <1>1, <2>4, <3>1
  <2>7. ASSUME NEW u \in User, spc'[u] = "wait"
        PROVE  waiter[IF u \in Reader THEN "in" ELSE "tx"] = u
    <3>1. spc[u] = "wait"
      BY Zenon, <1>1, <2>4, <2>7
    <3>2. QED BY Zenon, <2>3, <3>1 DEF WaitInv, Ser!WaitersRight
  <2>8. DOMAIN spc' = User
    BY Zenon, <2>4
  <2>9. Ser!WaitersRight'
    <3>1. /\ waiter["in"] # Ser!NONE => inq = <<>>
          /\ waiter["tx"] # Ser!NONE => Ser!intq_full(txq)
      BY Zenon DEF WaitInv, Ser!WaitersRight
    <3>2. QED BY Zenon, <2>1, <2>6, <2>7, <2>8, <3>1 DEF Ser!WaitersRight, Ser!intq_full, Queue
  <2>10. LockedOut'
    <3>1. \A u \in Reader : u = t \/ spc'[u] = spc[u]
      BY Zenon, <2>4 DEF User
    <3>2. QED BY Zenon, <1>3, <2>2, <3>1 DEF WaitInv, LockedOut
  <2>11. QED BY Zenon, <2>1, <2>5, <2>9, <2>10 DEF WaitInv
<1>4. QED BY Zenon, <1>2, <1>3

-----------------------------------------------------------------------------
\* What the invariant gives every action.
LEMMA SerialFacts ==
  ASSUME SerialInv
  PROVE  /\ QueueInv /\ WaitInv /\ IsQueue(txq) /\ IsQueue(inq)
         /\ Ordered(txq, nsent, nput) /\ Ordered(inq, ngot, nkey)
         /\ nput \in Number /\ nsent \in Number /\ nkey \in Number /\ ngot \in Number
         /\ mode \in {"UNINIT", "POLL", "QUEUE"} /\ ier \subseteq {"XMIT", "RECV"}
         /\ mode # "QUEUE" => txq = <<>>
         /\ waiter["in"] # Ser!NONE => inq = <<>>
         /\ waiter["tx"] # Ser!NONE => Ser!intq_full(txq)
         /\ spc \in [User -> {"idle", "lock", "wait", "woken"}]
         /\ waiter \in [Queue -> User \cup {Ser!NONE}]
<1>1. QueueInv /\ WaitInv
  BY Zenon DEF SerialInv
<1>2. QueueTyped /\ PolledEmpty /\ WaitTyped /\ Ser!WaitersRight
  BY Zenon, <1>1 DEF QueueInv, WaitInv
<1>3. Ordered(txq, nsent, nput) /\ Ordered(inq, ngot, nkey)
  BY Zenon, <1>1 DEF QueueInv
<1>4. QED BY Zenon, <1>1, <1>2, <1>3 DEF QueueTyped, PolledEmpty, WaitTyped, Ser!WaitersRight

\* A queue that is not full has room for one byte, and a full one is not empty.
LEMMA FullIs ==
  ASSUME SerialConstants, NEW q, IsQueue(q)
  PROVE  /\ ~Ser!intq_full(q) => Len(q) < BUFSIZE - 1
         /\ Ser!intq_full(q) => q # <<>>
         /\ q # <<>> => Len(q) > 0 /\ Len(Tail(q)) < BUFSIZE - 1
BY DEF IsQueue, Ser!intq_full, SerialConstants

\* serial_notify, when the queues have been changed as it says.
LEMMA NotifyIs ==
  ASSUME NEW t, NEW i, Ser!serial_notify(t, i), ier \subseteq {"XMIT", "RECV"}
  PROVE  /\ ier' \subseteq {"XMIT", "RECV"}
         /\ mode = "QUEUE" => ier' = Ser!Ier(t, i)
BY Zenon, IerIs DEF Ser!serial_notify

\* Woken, as a thread sees it.
LEMMA WokenIs ==
  ASSUME NEW q, NEW p \in [User -> {"idle", "lock", "wait", "woken"}]
  PROVE  /\ Ser!Woken(q, p) \in [User -> {"idle", "lock", "wait", "woken"}]
         /\ \A t \in User : Ser!Woken(q, p)[t] = IF t = waiter[q] THEN "woken" ELSE p[t]
<1>1. DOMAIN p = User
  BY Zenon
<1>2. \A t \in User : (IF t = waiter[q] THEN "woken" ELSE p[t]) \in {"idle", "lock", "wait", "woken"}
  BY Zenon
<1>3. QED BY Zenon, <1>1, <1>2 DEF Ser!Woken

\* signal on one queue, whatever becomes of that queue.
LEMMA WakesStep ==
  ASSUME SerialConstants, WaitInv, NEW k \in Queue, qlock' = qlock,
         spc' = Ser!Woken(k, spc), waiter' = [waiter EXCEPT ![k] = Ser!NONE],
         "in" # k /\ waiter["in"] # Ser!NONE => inq' = <<>>,
         "tx" # k /\ waiter["tx"] # Ser!NONE => Ser!intq_full(txq')
  PROVE  WaitInv'
<1> DEFINE Q == {k}
<1>1. Q \in SUBSET Queue /\ \A q : q \in Q <=> q = k
  BY Zenon
<1> HIDE DEF Q
<1>2. /\ spc \in [User -> {"idle", "lock", "wait", "woken"}]
      /\ waiter \in [Queue -> User \cup {Ser!NONE}]
  BY Zenon DEF WaitInv, WaitTyped
<1>3. /\ spc' \in [User -> {"idle", "lock", "wait", "woken"}]
      /\ \A t \in User : spc'[t] = IF t = waiter[k] THEN "woken" ELSE spc[t]
  <2>1. /\ Ser!Woken(k, spc) \in [User -> {"idle", "lock", "wait", "woken"}]
        /\ \A t \in User : Ser!Woken(k, spc)[t] = IF t = waiter[k] THEN "woken" ELSE spc[t]
    BY Zenon, <1>2, WokenIs
  <2>2. QED BY Zenon, <2>1
<1>4. \A t \in User : (\E q \in Q : t = waiter[q]) <=> t = waiter[k]
  BY Zenon, <1>1
<1>5. \A t \in User : spc'[t] = IF \E q \in Q : t = waiter[q] THEN "woken" ELSE spc[t]
  BY Zenon, <1>3, <1>4
<1>6. /\ waiter' \in [Queue -> User \cup {Ser!NONE}]
      /\ \A q \in Queue : waiter'[q] = IF q \in Q THEN Ser!NONE ELSE waiter[q]
  BY Zenon, <1>1, <1>2
<1>7. /\ "in" \notin Q /\ waiter["in"] # Ser!NONE => inq' = <<>>
      /\ "tx" \notin Q /\ waiter["tx"] # Ser!NONE => Ser!intq_full(txq')
  BY Zenon, <1>1
<1>8. QED BY Zenon, <1>1, <1>3, <1>5, <1>6, <1>7, SignalStep

\* input_getc: the oldest byte, or the reader waits.
LEMMA GetcStep ==
  ASSUME SerialConstants, SerialInv, NEW t \in Reader, Ser!input_getc(t)
  PROVE  SerialInv' /\ sstop' = sstop
<1>1. spc[t] \in {"idle", "woken"} /\ UNCHANGED <<nput, nsent, nkey>> /\ t \in User
  BY Zenon DEF Ser!input_getc, Ser!Starts, User
<1>2. UserOf("in", t) /\ "in" \in Queue /\ "in" # "tx"
  BY DEF UserOf, Queue
<1>3. CASE inq = <<>>
  <2>1. Ser!Blocks("in", t, TRUE) /\ UNCHANGED <<txq, inq, mode, ier, ngot>>
    BY Zenon, <1>3 DEF Ser!input_getc, Ser!queues, Ser!uart
  <2>2. WaitInv' /\ sstop' = sstop
    BY Zenon, <1>1, <1>2, <1>3, <2>1, BlocksStep, SerialFacts
  <2>3. QueueInv'
    BY Zenon, <1>1, <2>1, QueuesStay, SerialFacts
  <2>4. QED BY Zenon, <2>2, <2>3 DEF SerialInv
<1>4. CASE inq # <<>>
  <2>1. /\ inq' = Tail(inq) /\ ngot' = Ser!Next1(ngot) /\ Ser!serial_notify(txq, inq')
        /\ Ser!GoesOn("in", t) /\ spc' = [spc EXCEPT ![t] = "idle"] /\ UNCHANGED <<txq, waiter, mode, sstop>>
    BY Zenon, <1>4 DEF Ser!input_getc
  <2>2. IsQueue(inq') /\ Ordered(inq', ngot', nkey) /\ ngot' \in Number
    BY Zenon, <1>4, <2>1, GetOrdered, Next1Is, SerialFacts
  <2>3. ier' \subseteq {"XMIT", "RECV"} /\ (mode = "QUEUE" => ier' = Ser!Ier(txq, inq'))
    BY Zenon, <2>1, NotifyIs, SerialFacts
  <2>4. Ordered(txq, nsent, nput)' /\ Ordered(inq, ngot, nkey)'
    BY Zenon, <1>1, <2>1, <2>2, SerialFacts DEF Ordered, Ser!Numbers
  <2>5. QueueInv'
    BY Zenon, <1>1, <2>1, <2>2, <2>3, <2>4, PortStep, SerialFacts
  <2>6. waiter["in"] # Ser!NONE => inq' = <<>>
    BY Zenon, <1>4, SerialFacts
  <2>7. waiter["tx"] # Ser!NONE => Ser!intq_full(txq')
    BY Zenon, <2>1, SerialFacts
  <2>8. WaitInv'
    BY Zenon, <1>1, <1>2, <2>1, <2>6, <2>7, GoesOnStep, SerialFacts
  <2>9. QED BY Zenon, <2>1, <2>5, <2>8 DEF SerialInv
<1>5. QED BY Zenon, <1>3, <1>4

\* The lock of the buffer comes free: the reader waits, or its ASSERT fails.
LEMMA LockAcquiredStep ==
  ASSUME SerialConstants, SerialInv, NEW t \in Reader, Ser!LockAcquired(t)
  PROVE  SerialInv'
<1>1. /\ spc[t] = "lock" /\ qlock["in"] = Ser!NONE /\ qlock' = [qlock EXCEPT !["in"] = t]
      /\ Ser!wait("in", t, spc, inq = <<>>) /\ UNCHANGED <<txq, inq, mode, ier, nput, nsent, nkey, ngot>>
  BY Zenon DEF Ser!LockAcquired, Ser!queues, Ser!uart
<1>2. UserOf("in", t) /\ "in" \in Queue /\ "in" # "tx" /\ "lock" # "wait" /\ WaitInv
  BY DEF UserOf, Queue, SerialInv
<1>3. QueueInv'
  BY Zenon, <1>1, QueuesStay, SerialFacts
<1>4. waiter["in"] = Ser!NONE
  BY Zenon, <1>1, <1>2 DEF WaitInv, Ser!WaitersRight, Queue
<1>5. CASE inq = <<>>
  <2>1. /\ waiter' = [waiter EXCEPT !["in"] = t] /\ spc' = [spc EXCEPT ![t] = "wait"] /\ sstop' = sstop
    BY Zenon, <1>1, <1>5 DEF Ser!wait
  <2>2. WaitInv'
    BY Zenon, <1>1, <1>2, <1>4, <1>5, <2>1, WaitStep
  <2>3. QED BY Zenon, <1>3, <2>1, <2>2 DEF SerialInv
<1>6. CASE inq # <<>>
  <2>1. sstop' = "panic" /\ UNCHANGED <<waiter, spc>>
    BY Zenon, <1>1, <1>6 DEF Ser!wait
  <2>2. /\ qlock' \in [Queue -> User \cup {Ser!NONE}]
        /\ qlock'["in"] \in Reader \cup {Ser!NONE} /\ qlock'["tx"] \in Writer \cup {Ser!NONE}
        /\ \A r \in Queue : waiter[r] # Ser!NONE => qlock'[r] = qlock[r]
    BY Zenon, <1>1, <1>2, <1>4, QueueLockStep
  <2>3. WaitTyped' /\ LockedOut'
    BY Zenon, <1>2, <2>1, <2>2 DEF WaitInv, WaitTyped, LockedOut
  <2>4. Ser!WaitersRight'
    BY Zenon, <1>1, <1>2, <2>1, <2>2 DEF WaitInv, Ser!WaitersRight, Ser!intq_full, Queue
  <2>5. WaitInv'
    BY Zenon, <2>3, <2>4 DEF WaitInv
  <2>6. sstop' \in {"run", "panic"}
    BY Zenon, <2>1
  <2>7. QED BY Zenon, <1>3, <2>5, <2>6 DEF SerialInv
<1>7. QED BY Zenon, <1>5, <1>6

\* What putting a byte in the buffer does to the queue and to the reader that waits.
LEMMA PutcIn ==
  ASSUME SerialConstants, SerialInv, ~Ser!intq_full(inq), inq' = Append(inq, nkey), nkey' = Ser!Next1(nkey)
  PROVE  IsQueue(inq') /\ Ordered(inq', ngot, nkey') /\ nkey' \in Number
BY Zenon, PutOrdered, FullIs, Next1Is, SerialFacts

\* A key is pressed: input_putc fills the buffer and wakes its reader.
LEMMA KeyboardStep ==
  ASSUME SerialConstants, SerialInv, Ser!keyboard_interrupt
  PROVE  SerialInv' /\ sstop' = sstop
<1>1. /\ ~Ser!intq_full(inq) /\ inq' = Append(inq, nkey) /\ nkey' = Ser!Next1(nkey)
      /\ spc' = Ser!Woken("in", spc) /\ waiter' = [waiter EXCEPT !["in"] = Ser!NONE]
      /\ Ser!serial_notify(txq, inq') /\ UNCHANGED <<txq, qlock, mode, nput, nsent, ngot, sstop>>
  BY Zenon DEF Ser!keyboard_interrupt, Ser!input_putc, Ser!signal
<1>2. IsQueue(inq') /\ Ordered(inq', ngot, nkey') /\ nkey' \in Number
  BY Zenon, <1>1, PutcIn
<1>3. ier' \subseteq {"XMIT", "RECV"} /\ (mode = "QUEUE" => ier' = Ser!Ier(txq, inq'))
  BY Zenon, <1>1, NotifyIs, SerialFacts
<1>4. Ordered(txq, nsent, nput)' /\ Ordered(inq, ngot, nkey)'
  BY Zenon, <1>1, <1>2, SerialFacts DEF Ordered, Ser!Numbers
<1>5. QueueInv'
  BY Zenon, <1>1, <1>2, <1>3, <1>4, PortStep, SerialFacts
<1>6. /\ "in" # "in" /\ waiter["in"] # Ser!NONE => inq' = <<>>
      /\ "tx" # "in" /\ waiter["tx"] # Ser!NONE => Ser!intq_full(txq')
  BY Zenon, <1>1, SerialFacts
<1>7. "in" \in Queue /\ WaitInv
  BY Zenon, SerialFacts DEF Queue
<1>8. WaitInv'
  BY Zenon, <1>1, <1>6, <1>7, WakesStep DEF Ser!signal
<1>9. QED BY Zenon, <1>1, <1>5, <1>8 DEF SerialInv

\* serial_putc, polling: nothing is queued.
LEMMA PutcPollStep ==
  ASSUME SerialConstants, SerialInv, NEW t \in Writer, Ser!PutcPoll(t)
  PROVE  SerialInv' /\ sstop' = sstop
<1>1. /\ mode # "QUEUE" /\ mode' = "POLL" /\ nput' = Ser!Next1(nput) /\ nsent' = Ser!Next1(nput)
      /\ ier' = {} \/ ier' = ier
      /\ UNCHANGED <<txq, inq, waiter, qlock, spc, nkey, ngot, sstop>>
  BY Zenon DEF Ser!PutcPoll, Ser!Send, Ser!queues
<1>2. txq = <<>> /\ nput' \in Number
  BY Zenon, <1>1, Next1Is, SerialFacts
<1>3. Ordered(txq', nsent', nput') /\ Ordered(inq', ngot', nkey')
  BY Zenon, <1>1, <1>2, EmptyOrdered, SerialFacts
<1>4. Ordered(txq, nsent, nput)' /\ Ordered(inq, ngot, nkey)'
  BY Zenon, <1>3 DEF Ordered, Ser!Numbers
<1>5. ier' \subseteq {"XMIT", "RECV"} /\ mode' \in {"UNINIT", "POLL", "QUEUE"} /\ mode' # "QUEUE"
  <2>1. "POLL" # "QUEUE"
    OBVIOUS
  <2>2. QED BY Zenon, <1>1, <2>1, SerialFacts
<1>6. QueueInv'
  BY Zenon, <1>1, <1>2, <1>4, <1>5, PortStep, SerialFacts
<1>7. WaitInv'
  BY Zenon, <1>1, WaitersStay, SerialFacts
<1>8. QED BY Zenon, <1>1, <1>6, <1>7 DEF SerialInv

\* serial_putc, queueing: the byte is queued last, or the writer waits.
LEMMA PutcQueueStep ==
  ASSUME SerialConstants, SerialInv, NEW t \in Writer, Ser!PutcQueue(t)
  PROVE  SerialInv' /\ sstop' = sstop
<1>1. /\ spc[t] \in {"idle", "woken"} /\ UNCHANGED <<inq, mode, nsent, nkey, ngot>> /\ t \in User
      /\ mode = "QUEUE"
  BY Zenon DEF Ser!PutcQueue, Ser!Starts, User
<1>2. UserOf("tx", t) /\ "tx" \in Queue /\ "in" # "tx"
  BY DEF UserOf, Queue
<1>3. CASE Ser!intq_full(txq)
  <2>1. Ser!Blocks("tx", t, TRUE) /\ UNCHANGED <<txq, ier, nput>>
    BY Zenon, <1>3 DEF Ser!PutcQueue
  <2>2. WaitInv' /\ sstop' = sstop
    BY Zenon, <1>1, <1>2, <1>3, <2>1, BlocksStep, SerialFacts
  <2>3. QueueInv'
    BY Zenon, <1>1, <2>1, QueuesStay, SerialFacts
  <2>4. QED BY Zenon, <2>2, <2>3 DEF SerialInv
<1>4. CASE ~Ser!intq_full(txq)
  <2>1. /\ txq' = Append(txq, nput) /\ nput' = Ser!Next1(nput) /\ ier' = Ser!Ier(txq', inq)
        /\ Ser!GoesOn("tx", t) /\ spc' = [spc EXCEPT ![t] = "idle"] /\ UNCHANGED <<waiter, sstop>>
    BY Zenon, <1>4 DEF Ser!PutcQueue
  <2>2. IsQueue(txq') /\ Ordered(txq', nsent, nput') /\ nput' \in Number
    BY Zenon, <1>4, <2>1, PutOrdered, FullIs, Next1Is, SerialFacts
  <2>3. Ordered(txq, nsent, nput)' /\ Ordered(inq, ngot, nkey)'
    BY Zenon, <1>1, <2>1, <2>2, SerialFacts DEF Ordered, Ser!Numbers
  <2>4. ier' \subseteq {"XMIT", "RECV"} /\ ier' = Ser!Ier(txq', inq')
    BY Zenon, <1>1, <2>1, IerIs
  <2>5. QueueInv'
    BY Zenon, <1>1, <2>2, <2>3, <2>4, PortStep, SerialFacts
  <2>6. /\ waiter["in"] # Ser!NONE => inq' = <<>>
        /\ waiter["tx"] # Ser!NONE => Ser!intq_full(txq')
    BY Zenon, <1>1, <1>4, SerialFacts
  <2>7. WaitInv'
    BY Zenon, <1>1, <1>2, <2>1, <2>6, GoesOnStep, SerialFacts
  <2>8. QED BY Zenon, <2>1, <2>5, <2>7 DEF SerialInv
<1>5. QED BY Zenon, <1>3, <1>4

\* serial_putc with interrupts off: with a full queue the oldest byte goes first.
LEMMA PutcOffStep ==
  ASSUME SerialConstants, SerialInv, Ser!PutcOff
  PROVE  SerialInv' /\ sstop' = sstop
<1>1. /\ mode = "QUEUE" /\ nput' = Ser!Next1(nput) /\ ier' = Ser!Ier(txq', inq)
      /\ UNCHANGED <<inq, qlock, mode, nkey, ngot, sstop>>
  BY Zenon DEF Ser!PutcOff
<1>2. /\ nput' \in Number /\ ier' \subseteq {"XMIT", "RECV"} /\ ier' = Ser!Ier(txq', inq')
      /\ waiter["in"] # Ser!NONE => inq' = <<>>
  BY Zenon, <1>1, IerIs, Next1Is, SerialFacts
<1>3. ASSUME IsQueue(txq'), Ordered(txq', nsent', nput'), nsent' \in Number
      PROVE  QueueInv'
  <2>1. Ordered(txq, nsent, nput)' /\ Ordered(inq, ngot, nkey)'
    BY Zenon, <1>1, <1>3, SerialFacts DEF Ordered, Ser!Numbers
  <2>2. QED BY Zenon, <1>1, <1>2, <1>3, <2>1, PortStep, SerialFacts
<1>4. CASE Ser!intq_full(txq)
  <2>1. /\ nsent' = Ser!Next1(Head(txq)) /\ spc' = Ser!Woken("tx", spc) /\ waiter' = [waiter EXCEPT !["tx"] = Ser!NONE]
        /\ txq' = Append(Tail(txq), nput)
    BY Zenon, <1>4 DEF Ser!PutcOff, Ser!Send, Ser!signal
  <2>2. txq # <<>> /\ Len(Tail(txq)) < BUFSIZE - 1
    BY Zenon, <1>4, FullIs, SerialFacts
  <2>3. IsQueue(Tail(txq)) /\ Ordered(Tail(txq), Ser!Next1(nsent), nput) /\ Head(txq) = nsent
    BY Zenon, <2>2, GetOrdered, SerialFacts
  <2>4. nsent' = Ser!Next1(nsent) /\ nsent' \in Number
    BY Zenon, <2>1, <2>3, Next1Is, SerialFacts
  <2>5. IsQueue(txq') /\ Ordered(txq', nsent', nput')
    BY Zenon, <1>1, <2>1, <2>2, <2>3, <2>4, PutOrdered, SerialFacts
  <2>6. /\ "in" # "tx" /\ waiter["in"] # Ser!NONE => inq' = <<>>
        /\ "tx" # "tx" /\ waiter["tx"] # Ser!NONE => Ser!intq_full(txq')
    BY Zenon, <1>2
  <2>7. "tx" \in Queue /\ WaitInv
    BY Zenon, SerialFacts DEF Queue
  <2>8. WaitInv'
    BY Zenon, <1>1, <2>1, <2>6, <2>7, WakesStep
  <2>9. QED BY Zenon, <1>1, <1>3, <2>4, <2>5, <2>8 DEF SerialInv
<1>5. CASE ~Ser!intq_full(txq)
  <2>1. txq' = Append(txq, nput) /\ UNCHANGED <<nsent, spc, waiter>>
    BY Zenon, <1>5 DEF Ser!PutcOff
  <2>2. IsQueue(txq') /\ Ordered(txq', nsent', nput') /\ nsent' \in Number
    BY Zenon, <1>1, <1>5, <2>1, PutOrdered, FullIs, SerialFacts
  <2>3. waiter["tx"] # Ser!NONE => Ser!intq_full(txq')
    BY Zenon, <1>5, SerialFacts
  <2>4. WaitInv'
    BY Zenon, <1>1, <1>2, <2>1, <2>3, WaitersStay, SerialFacts
  <2>5. QED BY Zenon, <1>1, <1>3, <2>2, <2>4 DEF SerialInv
<1>6. QED BY Zenon, <1>4, <1>5

\* serial_init_queue enables the interrupts that the queues ask for.
LEMMA InitQueueStep ==
  ASSUME SerialConstants, SerialInv, Ser!serial_init_queue
  PROVE  SerialInv' /\ sstop' = sstop
<1>1. /\ mode' = "QUEUE" /\ ier' = Ser!Ier(txq, inq)
      /\ UNCHANGED <<txq, inq, waiter, qlock, spc, nput, nsent, nkey, ngot, sstop>>
  BY Zenon DEF Ser!serial_init_queue, Ser!queues
<1>2. Ordered(txq, nsent, nput)' /\ Ordered(inq, ngot, nkey)'
  BY Zenon, <1>1, SerialFacts DEF Ordered, Ser!Numbers
<1>3. ier' \subseteq {"XMIT", "RECV"} /\ ier' = Ser!Ier(txq', inq') /\ mode' \in {"UNINIT", "POLL", "QUEUE"}
  BY Zenon, <1>1, IerIs
<1>4. QueueInv'
  BY Zenon, <1>1, <1>2, <1>3, PortStep, SerialFacts
<1>5. WaitInv'
  BY Zenon, <1>1, WaitersStay, SerialFacts
<1>6. QED BY Zenon, <1>1, <1>4, <1>5 DEF SerialInv

\* serial_flush leaves the enabled interrupts as they are, and nothing to send.
LEMMA FlushStep ==
  ASSUME SerialConstants, SerialInv, Ser!serial_flush
  PROVE  SerialInv' /\ sstop' = sstop
<1>1. /\ txq # <<>> /\ nsent' = Ser!Next1(txq[Len(txq)]) /\ txq' = <<>>
      /\ spc' = Ser!Woken("tx", spc) /\ waiter' = [waiter EXCEPT !["tx"] = Ser!NONE]
      /\ UNCHANGED <<inq, qlock, mode, ier, nput, nkey, ngot, sstop>>
  BY Zenon DEF Ser!serial_flush, Ser!signal
<1>2. nsent' = nput
  BY Zenon, <1>1, GetOrdered, SerialFacts
<1>3. IsQueue(txq') /\ Ordered(txq', nsent', nput')
  BY Zenon, <1>1, <1>2, EmptyOrdered, SerialFacts
<1>4. Ordered(txq, nsent, nput)' /\ Ordered(inq, ngot, nkey)'
  BY Zenon, <1>1, <1>3, SerialFacts DEF Ordered, Ser!Numbers
<1>5. QueueTyped'
  BY Zenon, <1>1, <1>2, <1>3, SerialFacts DEF QueueTyped, IsQueue
<1>6. Ser!IerRight' /\ PolledEmpty'
  BY Zenon, <1>1, SerialFacts DEF QueueInv, Ser!IerRight, PolledEmpty, Ser!intq_full
<1>7. QueueInv'
  BY Zenon, <1>4, <1>5, <1>6 DEF QueueInv
<1>8. /\ "in" # "tx" /\ waiter["in"] # Ser!NONE => inq' = <<>>
      /\ "tx" # "tx" /\ waiter["tx"] # Ser!NONE => Ser!intq_full(txq')
  BY Zenon, <1>1, SerialFacts
<1>9. "tx" \in Queue /\ WaitInv
  BY Zenon, SerialFacts DEF Queue
<1>10. WaitInv'
  BY Zenon, <1>1, <1>8, <1>9, WakesStep
<1>11. QED BY Zenon, <1>1, <1>7, <1>10 DEF SerialInv

\* serial_interrupt receives a byte, sends one, or both.
LEMMA SerialInterruptStep ==
  ASSUME SerialConstants, SerialInv, Ser!serial_interrupt
  PROVE  SerialInv' /\ sstop' = sstop
<1> DEFINE recv == rx /\ ~Ser!intq_full(inq)
           xmit == thre /\ txq # <<>>
           p    == IF recv THEN Ser!Woken("in", spc) ELSE spc
           Q    == {q \in Queue : (q = "tx" /\ xmit) \/ (q = "in" /\ recv)}
<1>1. /\ mode = "QUEUE" /\ ier' = Ser!Ier(txq', inq') /\ UNCHANGED <<qlock, mode, nput, ngot, sstop>>
      /\ IF recv THEN inq' = Append(inq, nkey) /\ nkey' = Ser!Next1(nkey) ELSE UNCHANGED <<inq, nkey>>
      /\ IF xmit THEN txq' = Tail(txq) /\ Ser!Send(Head(txq)) ELSE UNCHANGED <<txq, nsent, thre>>
      /\ spc' = IF xmit THEN Ser!Woken("tx", p) ELSE p
      /\ waiter' = [q \in {"tx", "in"} |->
                      IF (q = "tx" /\ xmit) \/ (q = "in" /\ recv) THEN Ser!NONE ELSE waiter[q]]
  BY Zenon DEF Ser!serial_interrupt
<1>2. recv => ~Ser!intq_full(inq)
  BY Zenon
<1>3. xmit => txq # <<>>
  BY Zenon
<1>4. Q \in SUBSET Queue /\ ("in" \in Q <=> recv) /\ ("tx" \in Q <=> xmit) /\ "in" # "tx"
  BY Zenon DEF Queue
<1>5. waiter' = [q \in Queue |-> IF q \in Q THEN Ser!NONE ELSE waiter[q]]
  <2>1. \A q \in Queue : q \in Q <=> (q = "tx" /\ xmit) \/ (q = "in" /\ recv)
    BY Zenon
  <2> HIDE DEF Q, recv, xmit
  <2>2. QED BY Zenon, <1>1, <2>1 DEF Queue
<1>6. p = IF recv THEN Ser!Woken("in", spc) ELSE spc
  BY Zenon
<1> HIDE DEF recv, xmit, p, Q
<1>7. IsQueue(inq') /\ Ordered(inq', ngot', nkey') /\ nkey' \in Number
  <2>1. CASE recv
    BY Zenon, <1>1, <1>2, <2>1, PutcIn
  <2>2. CASE ~recv
    BY Zenon, <1>1, <2>2, SerialFacts
  <2>3. QED BY Zenon, <2>1, <2>2
<1>8. IsQueue(txq') /\ Ordered(txq', nsent', nput') /\ nsent' \in Number
  <2>1. CASE xmit
    <3>1. txq # <<>> /\ txq' = Tail(txq) /\ nsent' = Ser!Next1(Head(txq))
      BY Zenon, <1>1, <1>3, <2>1 DEF Ser!Send
    <3>2. Head(txq) = nsent /\ IsQueue(Tail(txq)) /\ Ordered(Tail(txq), Ser!Next1(nsent), nput)
      BY Zenon, <3>1, GetOrdered, SerialFacts
    <3>3. Ser!Next1(nsent) \in Number
      BY Zenon, Next1Is, SerialFacts
    <3>4. QED BY Zenon, <1>1, <3>1, <3>2, <3>3
  <2>2. CASE ~xmit
    BY Zenon, <1>1, <2>2, SerialFacts
  <2>3. QED BY Zenon, <2>1, <2>2
<1>9. Ordered(txq, nsent, nput)' /\ Ordered(inq, ngot, nkey)'
  BY Zenon, <1>7, <1>8 DEF Ordered, Ser!Numbers
<1>10. ier' \subseteq {"XMIT", "RECV"}
  BY Zenon, <1>1, IerIs
<1>11. QueueInv'
  BY Zenon, <1>1, <1>7, <1>8, <1>9, <1>10, PortStep, SerialFacts
<1>12. /\ p \in [User -> {"idle", "lock", "wait", "woken"}]
       /\ \A t \in User : p[t] = IF recv /\ t = waiter["in"] THEN "woken" ELSE spc[t]
  <2>1. CASE recv
    <3>1. spc \in [User -> {"idle", "lock", "wait", "woken"}]
      BY Zenon, SerialFacts
    <3>2. /\ Ser!Woken("in", spc) \in [User -> {"idle", "lock", "wait", "woken"}]
          /\ \A t \in User : Ser!Woken("in", spc)[t] = IF t = waiter["in"] THEN "woken" ELSE spc[t]
      BY Zenon, <3>1, WokenIs
    <3>3. QED BY Zenon, <1>6, <2>1, <3>2
  <2>2. CASE ~recv
    BY Zenon, <1>6, <2>2, SerialFacts
  <2>3. QED BY Zenon, <2>1, <2>2
<1>13. /\ spc' \in [User -> {"idle", "lock", "wait", "woken"}]
       /\ \A t \in User : spc'[t] = IF xmit /\ t = waiter["tx"] THEN "woken" ELSE p[t]
  <2>1. CASE xmit
    <3>1. spc' = Ser!Woken("tx", p)
      BY Zenon, <1>1, <2>1
    <3>2. p \in [User -> {"idle", "lock", "wait", "woken"}]
      BY Zenon, <1>12
    <3>3. /\ Ser!Woken("tx", p) \in [User -> {"idle", "lock", "wait", "woken"}]
          /\ \A t \in User : Ser!Woken("tx", p)[t] = IF t = waiter["tx"] THEN "woken" ELSE p[t]
      BY Zenon, <3>2, WokenIs
    <3>4. QED BY Zenon, <2>1, <3>1, <3>3
  <2>2. CASE ~xmit
    BY Zenon, <1>1, <1>12, <2>2
  <2>3. QED BY Zenon, <2>1, <2>2
<1>14. \A t \in User : spc'[t] = IF \E q \in Q : t = waiter[q] THEN "woken" ELSE spc[t]
  <2>1. \A t \in User : (\E q \in Q : t = waiter[q])
                          <=> (xmit /\ t = waiter["tx"]) \/ (recv /\ t = waiter["in"])
    <3>1. \A q \in Q : q = "tx" \/ q = "in"
      BY Zenon, <1>4 DEF Queue
    <3>2. QED BY Zenon, <1>4, <3>1
  <2>2. QED BY Zenon, <1>12, <1>13, <2>1
<1>15. /\ waiter' \in [Queue -> User \cup {Ser!NONE}]
       /\ \A q \in Queue : waiter'[q] = IF q \in Q THEN Ser!NONE ELSE waiter[q]
  BY Zenon, <1>5, SerialFacts
<1>16. /\ "in" \notin Q /\ waiter["in"] # Ser!NONE => inq' = <<>>
       /\ "tx" \notin Q /\ waiter["tx"] # Ser!NONE => Ser!intq_full(txq')
  BY Zenon, <1>1, <1>4, SerialFacts
<1>17. WaitInv'
  <2>1. WaitInv
    BY Zenon, SerialFacts
  <2>2. QED BY Zenon, <1>1, <1>4, <1>13, <1>14, <1>15, <1>16, <2>1, SignalStep
<1>18. QED BY Zenon, <1>1, <1>11, <1>17 DEF SerialInv

-----------------------------------------------------------------------------
\* At boot the queues are empty, nobody waits and nothing is enabled.
LEMMA InitSerial ==
  ASSUME SerialConstants, Ser!Init
  PROVE  SerialInv
<1>1. /\ txq = <<>> /\ inq = <<>> /\ mode = "UNINIT" /\ ier = {}
      /\ waiter = [q \in {"tx", "in"} |-> Ser!NONE] /\ qlock = [q \in {"tx", "in"} |-> Ser!NONE]
      /\ spc = [t \in Reader \cup Writer |-> "idle"]
      /\ nput = 0 /\ nsent = 0 /\ nkey = 0 /\ ngot = 0 /\ sstop = "run"
  BY Zenon DEF Ser!Init
<1>2. 0 \in Number /\ mode # "QUEUE" /\ "idle" # "wait" /\ "idle" # "lock"
  BY <1>1 DEF Number, SerialConstants
<1>3. IsQueue(txq) /\ IsQueue(inq) /\ Ordered(txq, nsent, nput) /\ Ordered(inq, ngot, nkey)
  BY Zenon, <1>1, <1>2, EmptyOrdered
<1>4. QueueTyped
  BY Zenon, <1>1, <1>2, <1>3 DEF QueueTyped
<1>5. QueueInv
  BY Zenon, <1>1, <1>2, <1>3, <1>4 DEF QueueInv, Ser!IerRight, PolledEmpty
<1>6. /\ \A q \in Queue : waiter[q] = Ser!NONE /\ qlock[q] = Ser!NONE
      /\ \A t \in User : spc[t] = "idle"
      /\ spc \in [User -> {"idle", "lock", "wait", "woken"}]
      /\ waiter \in [Queue -> User \cup {Ser!NONE}] /\ qlock \in [Queue -> User \cup {Ser!NONE}]
      /\ "in" \in Queue /\ "tx" \in Queue
  BY Zenon, <1>1 DEF Queue, User
<1>7. WaitTyped
  BY Zenon, <1>6 DEF WaitTyped
<1>8. Ser!WaitersRight
  BY Zenon, <1>2, <1>6 DEF Ser!WaitersRight, Queue
<1>9. LockedOut
  BY Zenon, <1>2, <1>6 DEF LockedOut, User
<1>10. QED BY Zenon, <1>1, <1>5, <1>7, <1>8, <1>9 DEF SerialInv, WaitInv

\* The UART's own steps, and no step.
LEMMA UartStep ==
  ASSUME SerialConstants, SerialInv, Ser!Sent \/ Ser!Received \/ UNCHANGED Ser!vars
  PROVE  SerialInv' /\ sstop' = sstop
<1>1. /\ UNCHANGED <<txq, inq, mode, ier, nput, nsent, nkey, ngot>>
      /\ UNCHANGED <<spc, waiter, qlock, sstop>>
  BY Zenon DEF Ser!Sent, Ser!Received, Ser!vars, Ser!queues
<1>2. QueueInv'
  BY Zenon, <1>1, QueuesStay, SerialFacts
<1>3. WaitInv'
  BY Zenon, <1>1, WaitersStay, SerialFacts
<1>4. QED BY Zenon, <1>1, <1>2, <1>3 DEF SerialInv

\* Every step keeps the invariant, and only the ASSERT in wait panics.
LEMMA NextSerial ==
  ASSUME SerialConstants, SerialInv, [Ser!Next]_(Ser!vars)
  PROVE  /\ SerialInv'
         /\ sstop' = sstop \/ \E t \in Reader : Ser!LockAcquired(t)
<1>1. CASE \E t \in Reader : Ser!LockAcquired(t)
  BY Zenon, <1>1, LockAcquiredStep
<1>2. CASE ~\E t \in Reader : Ser!LockAcquired(t)
  BY Zenon, <1>2, GetcStep, PutcPollStep, PutcQueueStep, KeyboardStep, PutcOffStep, InitQueueStep,
     FlushStep, SerialInterruptStep, UartStep DEF Ser!Next, Ser!Write
<1>3. QED BY Zenon, <1>1, <1>2

\* A panic is that of a reader that was locked out by another one.
LEMMA PanicByTwo ==
  ASSUME SerialConstants, SerialInv, [Ser!Next]_(Ser!vars), ~(UNCHANGED Ser!vars), sstop' = "panic"
  PROVE  \E t \in Reader : Ser!LockAcquired(t) /\ inq # <<>> /\ \E u \in Reader : u # t
<1>1. sstop = "run" /\ "run" # "panic"
  <2>1. "run" # "panic"
    OBVIOUS
  <2>2. Ser!Next
    BY Zenon
  <2>3. QED BY Zenon, <2>1, <2>2
        DEF Ser!Next, Ser!input_getc, Ser!LockAcquired, Ser!Starts, Ser!Write, Ser!PutcPoll, Ser!PutcQueue, Ser!keyboard_interrupt,
            Ser!PutcOff, Ser!serial_init_queue, Ser!serial_flush, Ser!serial_interrupt, Ser!Sent, Ser!Received
<1>2. PICK t \in Reader : Ser!LockAcquired(t)
  BY Zenon, <1>1, NextSerial
<1>3. inq # <<>> /\ spc[t] = "lock"
  BY Zenon, <1>1, <1>2 DEF Ser!LockAcquired, Ser!wait
<1>4. \E u \in Reader : u # t
  BY Zenon, <1>3 DEF SerialInv, WaitInv, LockedOut
<1>5. QED BY Zenon, <1>2, <1>3, <1>4

\* The invariant holds throughout.
LEMMA SerialInvariance ==
  ASSUME SerialConstants
  PROVE  Ser!Spec => []SerialInv
<1>1. Ser!Init => SerialInv
  BY Zenon, InitSerial
<1>2. SerialInv /\ [Ser!Next]_(Ser!vars) => SerialInv'
  BY Zenon, NextSerial
<1>3. QED BY <1>1, <1>2, PTL DEF Ser!Spec

\* The queues of intq.c never hold more than they have room for, and the serial
\* port's variables keep their types.
THEOREM QueuesBounded ==
  ASSUME SerialConstants
  PROVE  Ser!Spec => []Ser!TypeOK
<1>1. SerialInv => Ser!TypeOK
  <2> SUFFICES ASSUME SerialInv PROVE Ser!TypeOK
    BY Zenon
  <2>1. DOMAIN spc = User /\ \A t \in User : spc[t] \in {"idle", "lock", "wait", "woken"}
    BY Zenon, SerialFacts
  <2>2. QED BY Zenon, <2>1, SerialFacts DEF SerialInv, IsQueue, Number, Ser!TypeOK
<1>2. QED BY <1>1, SerialInvariance, PTL

\* serial_putc, with interrupts on or off, before and after serial_init_queue, and
\* serial_flush send every byte once and in order, and input_getc returns the
\* bytes in the order they came.
THEOREM BytesInOrder ==
  ASSUME SerialConstants
  PROVE  Ser!Spec => []Ser!InOrder
<1>1. SerialInv => Ser!InOrder
  BY Zenon, SerialFacts DEF Ordered, Ser!InOrder
<1>2. QED BY <1>1, SerialInvariance, PTL

\* No wake-up of intq.c is lost: who waits is registered, holds the queue's lock,
\* and waits for what is really not there.
THEOREM WaitsForNothingThere ==
  ASSUME SerialConstants
  PROVE  Ser!Spec => []Ser!WaitersRight
<1>1. SerialInv => Ser!WaitersRight
  BY Zenon DEF SerialInv, WaitInv
<1>2. QED BY <1>1, SerialInvariance, PTL

\* With interrupts in use the port is enabled to send while there is something to
\* send, and to receive exactly while there is room.
THEOREM InterruptsEnabled ==
  ASSUME SerialConstants
  PROVE  Ser!Spec => []Ser!IerRight
<1>1. SerialInv => Ser!IerRight
  BY Zenon DEF SerialInv, QueueInv
<1>2. QED BY <1>1, SerialInvariance, PTL
-----------------------------------------------------------------------------
\* The library's facts about finite sets come last and under a name of their
\* own: every proof of a module is the slower for what stands before it.
Finite == INSTANCE FiniteSetTheorems

\* The operators they are about are the ones used here.
LEMMA SameOperators ==
  \A S : /\ Finite!IsFiniteSet(S) <=> IsFiniteSet(S)
         /\ Finite!Cardinality(S) = Cardinality(S)
         /\ Ser!Cardinality(S) = Cardinality(S)
<1>1. \A S : Finite!IsFiniteSet(S) <=> IsFiniteSet(S)
  BY Zenon DEF Finite!IsFiniteSet, IsFiniteSet
<1>2. \A S : Finite!Cardinality(S) = Cardinality(S)
  BY Zenon DEF Finite!Cardinality, Cardinality
<1>3. \A S : Ser!Cardinality(S) = Cardinality(S)
  BY Zenon DEF Ser!Cardinality, Cardinality, Ser!IsFiniteSet, IsFiniteSet
<1>4. QED BY Zenon, <1>1, <1>2, <1>3

\* The ASSERT in intq.c's wait fails only when a second reader gets the lock of the
\* buffer and finds a byte that came since.
THEOREM PanicNeedsTwoReaders ==
  ASSUME SerialConstants, IsFiniteSet(Reader)
  PROVE  Ser!Spec => Ser!PanicOnlyByTwo
<1>1. ASSUME NEW t \in Reader, NEW u \in Reader, u # t
      PROVE  Ser!Cardinality(Reader) > 1
  <2>1. Finite!IsFiniteSet({t}) /\ Finite!Cardinality({t}) = 1
    BY Zenon, Finite!FS_Singleton
  <2>2. Finite!IsFiniteSet({t} \cup {u}) /\ Finite!Cardinality({t} \cup {u}) = Finite!Cardinality({t}) + 1
    BY Zenon, <1>1, <2>1, Finite!FS_AddElement
  <2>3. {t} \cup {u} \subseteq Reader /\ Finite!IsFiniteSet(Reader)
    BY Zenon, SameOperators
  <2>4. /\ Finite!Cardinality({t} \cup {u}) <= Finite!Cardinality(Reader)
        /\ Finite!Cardinality(Reader) \in Nat
    BY Zenon, <2>3, Finite!FS_Subset, Finite!FS_CardinalityType
  <2>5. Finite!Cardinality(Reader) > 1
    BY <2>1, <2>2, <2>4
  <2>6. QED BY Zenon, <2>5, SameOperators
<1>2. SerialInv /\ [Ser!Next]_(Ser!vars) =>
        [sstop' = "panic" => \E t \in Reader : /\ Ser!LockAcquired(t) /\ inq # <<>>
                                               /\ Ser!Cardinality(Reader) > 1]_(Ser!vars)
  BY Zenon, <1>1, PanicByTwo
<1>3. QED BY <1>2, SerialInvariance, PTL DEF Ser!Spec, Ser!PanicOnlyByTwo
=============================================================================
