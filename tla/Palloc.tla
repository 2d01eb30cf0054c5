-------------------------------- MODULE Palloc ------------------------------
(***************************************************************************)
(* threads/palloc.c: two pools of pages, each with a lock and a bitmap.    *)
(* palloc_get_multiple scans and sets bits under the pool's lock;          *)
(* palloc_free_multiple clears them without it, relying on each bit being  *)
(* changed atomically.  A step here tests or changes one bit, so that      *)
(* frees fall between any two tests of a scan.                             *)
(***************************************************************************)
EXTENDS Integers, FiniteSets

CONSTANTS Thread,        \* the callers, positive numbers
          FreePages,     \* pages of memory after the first megabyte
          UserPageLimit, \* user_page_limit
          MaxCount       \* the largest page_cnt asked for

NONE == 0

\* palloc_init and init_pool: half of the memory, at most the limit, is the
\* user pool, after the kernel pool; the first page of each is its bitmap.
user_pages == IF FreePages \div 2 > UserPageLimit THEN UserPageLimit ELSE FreePages \div 2
kernel_pages == FreePages - user_pages
Pool == {"kernel", "user"}
base == [p \in Pool |-> IF p = "kernel" THEN 1 ELSE kernel_pages + 1]
bit_cnt == [p \in Pool |-> (IF p = "kernel" THEN kernel_pages ELSE user_pages) - 1]
PagesOf(p) == base[p] .. base[p] + bit_cnt[p] - 1
Page == PagesOf("kernel") \cup PagesOf("user")

\* init_pool panics unless there is room for the bitmaps.
ASSUME PoolsAssumption == /\ FreePages \in Nat /\ UserPageLimit \in Nat
                          /\ user_pages >= 1 /\ kernel_pages >= 1
ASSUME ThreadAssumption == NONE \notin Thread

VARIABLES used, \* the pages whose bit is set
          lock, \* of each pool: the thread that holds it
          held, \* the groups of pages that callers have, [start, cnt]
          pc,   \* where each thread is
          stop
vars == <<used, lock, held, pc, stop>>

Idle == [at |-> "idle", pool |-> "kernel", cnt |-> 0, i |-> 0, j |-> 0, had |-> FALSE]
Span(start, cnt) == start .. start + cnt - 1
Group(g) == Span(g.start, g.cnt)
\* There is a run of cnt free pages in the pool.
HasRun(p, cnt) == \E s \in PagesOf(p) : Span(s, cnt) \subseteq PagesOf(p) \ used

At(t, where) == stop = "run" /\ pc[t].at = where
-----------------------------------------------------------------------------
\* palloc_get_multiple: nothing for no pages.
palloc_get_multiple(t, p, cnt) ==
  /\ At(t, "idle") /\ cnt > 0
  /\ pc' = [pc EXCEPT ![t] = [Idle EXCEPT !.at = "lock", !.pool = p, !.cnt = cnt]]
  /\ UNCHANGED <<used, lock, held, stop>>
LockPool(t) ==
  LET p == pc[t].pool
  IN  /\ At(t, "lock") /\ lock[p] = NONE
      /\ lock' = [lock EXCEPT ![p] = t]
      /\ pc' = [pc EXCEPT ![t].at = "scan", ![t].i = base[p], ![t].had = HasRun(p, pc[t].cnt)]
      /\ UNCHANGED <<used, held, stop>>

\* Mutant: a run may not reach the last page.
MoreToScan_short(t) == pc[t].i + pc[t].cnt < base[pc[t].pool] + bit_cnt[pc[t].pool]
\* bitmap_scan: the j-th bit of a run that would start at i; a bit that is set
\* moves the run on by one, and at the end of the pool there is none.
MoreToScan(t) == pc[t].i + pc[t].cnt <= base[pc[t].pool] + bit_cnt[pc[t].pool]
\* Mutant: only the first bit of a run is tested.
ScanBit_first(t) ==
  /\ At(t, "scan") /\ MoreToScan(t)
  /\ pc' = [pc EXCEPT ![t].at = IF pc[t].i \notin used THEN "flip" ELSE "scan",
                      ![t].i = IF pc[t].i \in used THEN @ + 1 ELSE @]
  /\ UNCHANGED <<used, lock, held, stop>>
ScanBit(t) ==
  LET free == pc[t].i + pc[t].j \notin used
      done == free /\ pc[t].j + 1 = pc[t].cnt
  IN  /\ At(t, "scan") /\ MoreToScan(t)
      /\ pc' = [pc EXCEPT ![t].at = IF done THEN "flip" ELSE "scan",
                          ![t].i = IF free THEN @ ELSE @ + 1,
                          ![t].j = IF free /\ ~done THEN @ + 1 ELSE 0]
      /\ UNCHANGED <<used, lock, held, stop>>
ScanFails(t) ==
  /\ At(t, "scan") /\ ~MoreToScan(t)
  /\ lock' = [lock EXCEPT ![pc[t].pool] = NONE]
  /\ pc' = [pc EXCEPT ![t] = Idle]
  /\ UNCHANGED <<used, held, stop>>

\* bitmap_set_multiple, true
FlipBit(t) ==
  /\ At(t, "flip")
  /\ used' = used \cup {pc[t].i + pc[t].j}
  /\ pc' = [pc EXCEPT ![t].at = IF pc[t].j + 1 = pc[t].cnt THEN "unlock" ELSE @, ![t].j = @ + 1]
  /\ UNCHANGED <<lock, held, stop>>
UnlockPool(t) ==
  /\ At(t, "unlock")
  /\ lock' = [lock EXCEPT ![pc[t].pool] = NONE]
  /\ held' = held \cup {[start |-> pc[t].i, cnt |-> pc[t].cnt]}
  /\ pc' = [pc EXCEPT ![t] = Idle]
  /\ UNCHANGED <<used, stop>>
-----------------------------------------------------------------------------
page_from_pool(p, page) == base[p] <= page /\ page < base[p] + bit_cnt[p]

\* palloc_free_multiple, by any thread, of a group some caller got.
palloc_free_multiple(t, g) ==
  /\ At(t, "idle") /\ g \in held
  /\ held' = held \ {g}
  /\ IF (\E p \in Pool : page_from_pool(p, g.start)) /\ Group(g) \subseteq used
     THEN /\ pc' = [pc EXCEPT ![t] = [Idle EXCEPT !.at = "clear", !.cnt = g.cnt, !.i = g.start]]
          /\ UNCHANGED stop
     ELSE stop' = "panic" /\ UNCHANGED pc
  /\ UNCHANGED <<used, lock>>
\* Mutant: the whole byte that holds the bit is written back.
ClearBit_byte(t) ==
  /\ At(t, "clear")
  /\ used' = used \ {pc[t].i + pc[t].j, pc[t].i + pc[t].j + 1}
  /\ pc' = [pc EXCEPT ![t] = IF pc[t].j + 1 = pc[t].cnt THEN Idle ELSE [pc[t] EXCEPT !.j = @ + 1]]
  /\ UNCHANGED <<lock, held, stop>>
ClearBit(t) ==
  /\ At(t, "clear")
  /\ used' = used \ {pc[t].i + pc[t].j}
  /\ pc' = [pc EXCEPT ![t] = IF pc[t].j + 1 = pc[t].cnt THEN Idle ELSE [pc[t] EXCEPT !.j = @ + 1]]
  /\ UNCHANGED <<lock, held, stop>>

Init == /\ used = {} /\ lock = [p \in Pool |-> NONE] /\ held = {}
        /\ pc = [t \in Thread |-> Idle] /\ stop = "run"
InCall(t) == \/ LockPool(t) \/ ScanBit(t) \/ ScanFails(t) \/ FlipBit(t)
             \/ UnlockPool(t) \/ ClearBit(t)
Next == \E t \in Thread :
  \/ \E p \in Pool, cnt \in 1 .. MaxCount : palloc_get_multiple(t, p, cnt)
  \/ \E g \in held : palloc_free_multiple(t, g)
  \/ InCall(t)
\* A thread that can go on with its call is run again.  Nothing gives the lock
\* to a particular waiter: sema_up makes it ready, and another may come first.
Fairness == \A t \in Thread : WF_vars(InCall(t))
Spec == Init /\ [][Next]_vars /\ Fairness
-----------------------------------------------------------------------------
\* Bits, locks, groups and places are what they should be.
TypeOK ==
  /\ used \subseteq Page /\ lock \in [Pool -> Thread \cup {NONE}]
  /\ \A g \in held : g.cnt >= 1 /\ \E p \in Pool : Group(g) \subseteq PagesOf(p)
  /\ \A t \in Thread : pc[t].at \in {"idle", "lock", "scan", "flip", "unlock", "clear"}
  /\ stop \in {"run", "panic"}

\* The pages that a thread is about to give, or has not yet cleared.
Taking(t) == IF pc[t].at \in {"flip", "unlock"} THEN Span(pc[t].i, pc[t].cnt) ELSE {}
Taken(t) == IF pc[t].at \in {"flip", "unlock"} THEN Span(pc[t].i, pc[t].j) ELSE {}
Clearing(t) == IF pc[t].at = "clear" THEN Span(pc[t].i + pc[t].j, pc[t].cnt - pc[t].j) ELSE {}

\* No page is given to two callers, with frees between any two bits of a scan,
\* and none that is still being freed is given at all.
PagesExclusive ==
  /\ \A g, h \in held : g # h => Group(g) \cap Group(h) = {}
  /\ \A t \in Thread : \A g \in held : (Taking(t) \cup Clearing(t)) \cap Group(g) = {}
  /\ \A t, u \in Thread : t # u => (Taking(t) \cup Clearing(t)) \cap (Taking(u) \cup Clearing(u)) = {}

\* The bits set are those of the pages that callers have and of calls on their
\* way: none is lost, and the ASSERT of palloc_free_multiple holds.
UsedExact ==
  /\ used = (UNION {Group(g) : g \in held}) \cup (UNION {Taken(t) \cup Clearing(t) : t \in Thread})
  /\ stop = "run"

\* palloc_get_multiple fails only if there was no room when it took the lock;
\* frees that come during the scan never make it miss what was there.
FoundIfThere == [][\A t \in Thread : ScanFails(t) => ~pc[t].had]_vars

\* A call that has its pool's lock, or frees, ends whatever others do, and the
\* locks are always released again for those that wait.
CallsEnd ==
  /\ \A t \in Thread : pc[t].at \notin {"idle", "lock"} ~> pc[t].at = "idle"
  /\ \A p \in Pool : []<>(lock[p] = NONE)
=============================================================================
