---------------------------- MODULE ListPointers ----------------------------
(***************************************************************************)
(* lib/kernel/list.c with its pointers.  A memory m holds the next and     *)
(* prev members of every struct list_elem and m.ok, which a failing ASSERT *)
(* clears.  A list l is the pair of its two sentinels, l.head and l.tail.  *)
(* The functions that change a list return the memory they leave.          *)
(***************************************************************************)
EXTENDS Integers, Sequences

CONSTANTS NULL,        \* the null pointer
          Less(_, _)   \* the list_less_func, with its auxiliary data

is_interior(m, e) == e # NULL /\ m.prev[e] # NULL /\ m.next[e] # NULL
is_tail(m, e)     == e # NULL /\ m.prev[e] # NULL /\ m.next[e] = NULL

\* ASSERT (cond): m with the outcome recorded.
ASSERT(m, cond) == [m EXCEPT !.ok = @ /\ cond]

list_init(m, l) ==
  [m EXCEPT !.prev[l.head] = NULL, !.next[l.head] = l.tail,
            !.prev[l.tail] = l.head, !.next[l.tail] = NULL]

list_begin(m, l) == m.next[l.head]
list_empty(m, l) == list_begin(m, l) = l.tail

list_insert(m, before, elem) ==
  LET a  == ASSERT(m, is_interior(m, before) \/ is_tail(m, before))
      m1 == [a EXCEPT !.prev[elem] = a.prev[before], !.next[elem] = before]
      m2 == [m1 EXCEPT !.next[m1.prev[before]] = elem]
  IN  [m2 EXCEPT !.prev[before] = elem]

\* Moves first up to, not including, end just before before.
list_splice(m, before, first, end) ==
  LET a    == ASSERT(m, is_interior(m, before) \/ is_tail(m, before))
      last == a.prev[end]
      b    == ASSERT(a, is_interior(a, first) /\ is_interior(a, last))
      m1   == [b EXCEPT !.next[b.prev[first]] = b.next[last]]
      m2   == [m1 EXCEPT !.prev[m1.next[last]] = m1.prev[first]]
      m3   == [m2 EXCEPT !.prev[first] = m2.prev[before], !.next[last] = before]
      m4   == [m3 EXCEPT !.next[m3.prev[before]] = first]
  IN  IF first = end THEN a ELSE [m4 EXCEPT !.prev[before] = last]

list_push_front(m, l, elem) == list_insert(m, list_begin(m, l), elem)
list_push_back(m, l, elem)  == list_insert(m, l.tail, elem)

list_remove(m, elem) ==
  LET a  == ASSERT(m, is_interior(m, elem))
      m1 == [a EXCEPT !.next[a.prev[elem]] = a.next[elem]]
  IN  [m1 EXCEPT !.prev[m1.next[elem]] = m1.prev[elem]]

list_front(m, l)     == m.next[l.head]
list_back(m, l)      == m.prev[l.tail]
list_pop_front(m, l) == list_remove(ASSERT(m, ~list_empty(m, l)), list_front(m, l))
list_pop_back(m, l)  == list_remove(ASSERT(m, ~list_empty(m, l)), list_back(m, l))

\* The elements from e up to end, following next; list_size counts them.
RECURSIVE Walk(_, _, _)
Walk(m, e, end) == IF e = end THEN <<>> ELSE <<e>> \o Walk(m, m.next[e], end)
list_size(m, l) == Len(Walk(m, list_begin(m, l), l.tail))

\* The elements from e back to end, following prev.
RECURSIVE WalkBack(_, _, _)
WalkBack(m, e, end) == IF e = end THEN <<>> ELSE <<e>> \o WalkBack(m, m.prev[e], end)

\* list_reverse: swap the links of every element, then those of the ends.
RECURSIVE SwapLinks(_, _, _)
SwapLinks(m, l, e) ==
  IF e = l.tail THEN m
  ELSE LET s == [m EXCEPT !.prev[e] = m.next[e], !.next[e] = m.prev[e]]
       IN  SwapLinks(s, l, s.prev[e])
list_reverse(m, l) ==
  LET r == SwapLinks(m, l, list_begin(m, l))
      h == [r EXCEPT !.next[l.head] = r.prev[l.tail], !.prev[l.tail] = r.next[l.head]]
      f == h.next[l.head]
      b == h.prev[l.tail]
  IN  IF list_empty(m, l) THEN m
      ELSE [h EXCEPT !.prev[f] = h.next[b], !.next[b] = h.prev[f]]

is_sorted(m, a, b) ==
  LET s == Walk(m, a, b) IN \A i \in 1 .. Len(s) - 1 : ~Less(s[i + 1], s[i])

RECURSIVE find_end_of_run(_, _, _)
find_end_of_run(m, a, b) ==
  LET n == m.next[a]
  IN  IF n # b /\ ~Less(n, m.prev[n]) THEN find_end_of_run(m, n, b) ELSE n

\* The loop of inplace_merge, whose ASSERTs inplace_merge makes.
RECURSIVE MergeRuns(_, _, _, _)
MergeRuns(m, a0, a1b0, b1) ==
  IF a0 = a1b0 \/ a1b0 = b1 THEN m
  ELSE IF ~Less(a1b0, a0) THEN MergeRuns(m, m.next[a0], a1b0, b1)
  ELSE LET n == m.next[a1b0]
       IN  MergeRuns(list_splice(m, a0, m.prev[n], n), a0, n, b1)
inplace_merge(m, a0, a1b0, b1) ==
  MergeRuns(ASSERT(m, is_sorted(m, a0, a1b0) /\ is_sorted(m, a1b0, b1)), a0, a1b0, b1)

\* One pass of list_sort from a0; runs counts the runs it has output.
RECURSIVE SortPass(_, _, _, _)
SortPass(m, l, a0, runs) ==
  IF a0 = l.tail THEN [m |-> m, runs |-> runs]
  ELSE LET a1b0 == find_end_of_run(m, a0, l.tail)
           b1   == find_end_of_run(m, a1b0, l.tail)
       IN  IF a1b0 = l.tail THEN [m |-> m, runs |-> runs + 1]
           ELSE SortPass(inplace_merge(m, a0, a1b0, b1), l, b1, runs + 1)
RECURSIVE SortPasses(_, _)
SortPasses(m, l) ==
  LET p == SortPass(m, l, list_begin(m, l), 0)
  IN  IF p.runs > 1 THEN SortPasses(p.m, l) ELSE p.m

list_sort(m, l) ==
  LET s == SortPasses(m, l) IN ASSERT(s, is_sorted(s, list_begin(s, l), l.tail))

RECURSIVE InsertPoint(_, _, _, _)
InsertPoint(m, l, elem, e) ==
  IF e = l.tail \/ Less(elem, e) THEN e ELSE InsertPoint(m, l, elem, m.next[e])
list_insert_ordered(m, l, elem) ==
  list_insert(m, InsertPoint(m, l, elem, list_begin(m, l)), elem)

\* list_unique; d is the list of duplicates, NULL when the caller wants none.
RECURSIVE UniqueFrom(_, _, _, _)
UniqueFrom(m, l, d, elem) ==
  LET next == m.next[elem]
      cut  == list_remove(m, next)
  IN  IF next = l.tail THEN m
      ELSE IF Less(elem, next) \/ Less(next, elem) THEN UniqueFrom(m, l, d, next)
      ELSE UniqueFrom(IF d.head = NULL THEN cut ELSE list_push_back(cut, d, next), l, d, elem)
list_unique(m, l, d) ==
  IF list_empty(m, l) THEN m ELSE UniqueFrom(m, l, d, list_begin(m, l))

\* The scans of list_max and list_min, from element e with the best so far.
RECURSIVE ScanMax(_, _, _, _)
ScanMax(m, l, max, e) ==
  IF e = l.tail THEN max
  ELSE ScanMax(m, l, IF Less(max, e) THEN e ELSE max, m.next[e])
RECURSIVE ScanMin(_, _, _, _)
ScanMin(m, l, min, e) ==
  IF e = l.tail THEN min
  ELSE ScanMin(m, l, IF Less(e, min) THEN e ELSE min, m.next[e])
list_max(m, l) ==
  LET b == list_begin(m, l) IN IF b = l.tail THEN b ELSE ScanMax(m, l, b, m.next[b])

list_min(m, l) ==
  LET b == list_begin(m, l) IN IF b = l.tail THEN b ELSE ScanMin(m, l, b, m.next[b])
=============================================================================
