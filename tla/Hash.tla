-------------------------------- MODULE Hash --------------------------------
(***************************************************************************)
(* The hash table of lib/kernel/hash.c: elem_cnt, and buckets, an array of *)
(* bucket_cnt lists (their pointers are the matter of ListPointers).  The  *)
(* table is resized after each change, which fails harmlessly when malloc  *)
(* does.  call is the last call and what it returned.                      *)
(***************************************************************************)
EXTENDS Integers, Sequences, SequencesExt, Bitwise

CONSTANTS Elem,                   \* the hash elements
          NULL,                   \* the null pointer, not an element
          KeyOf(_), HashOf(_),    \* what less() compares; hash()
          MIN_BUCKETS,            \* 4 in hash_init and rehash
          BEST_ELEMS_PER_BUCKET   \* 2

VARIABLES buckets, elem_cnt, call
vars == <<buckets, elem_cnt, call>>

\* bucket_cnt and the lists of an empty table of n buckets.
bucket_cnt == Cardinality(DOMAIN buckets)
NoElems(n) == [i \in 0 .. n - 1 |-> <<>>]

turn_off_least_1bit(x) == x & (x - 1)
is_power_of_2(x) == x # 0 /\ turn_off_least_1bit(x) = 0

\* Neither is less than the other.
Equal(a, b) == KeyOf(a) = KeyOf(b)

find_bucket(b, e) == HashOf(e) & (Cardinality(DOMAIN b) - 1)

find_elem(list, e) ==
  LET at == SelectInSeq(list, LAMBDA hi : Equal(hi, e))
  IN  IF at = 0 THEN NULL ELSE list[at]

insert_elem(b, i, e) == [b EXCEPT ![i] = <<e>> \o @]
remove_elem(b, i, e) == [b EXCEPT ![i] = SelectSeq(@, LAMBDA x : x # e)]

RECURSIVE ToPowerOf2(_)
ToPowerOf2(n) == IF is_power_of_2(n) THEN n ELSE ToPowerOf2(turn_off_least_1bit(n))
new_bucket_cnt(cnt) ==
  LET n == cnt \div BEST_ELEMS_PER_BUCKET
  IN  ToPowerOf2(IF n < MIN_BUCKETS THEN MIN_BUCKETS ELSE n)

\* Every element, in the order of the buckets and of each list.
InOrder(b) == FlattenSeq([i \in 1 .. Cardinality(DOMAIN b) |-> b[i - 1]])

\* Mutant: the elements are put where the old table had them.
rehash_stale(b, cnt, malloc_ok) ==
  LET n == new_bucket_cnt(cnt)
  IN  IF n = Cardinality(DOMAIN b) \/ ~malloc_ok THEN b
      ELSE FoldLeft(LAMBDA nb, e : insert_elem(nb, find_bucket(b, e), e),
                    NoElems(n), InOrder(b))

\* rehash: each old element moves to the front of its new bucket.
rehash(b, cnt, malloc_ok) ==
  LET n == new_bucket_cnt(cnt)
  IN  IF n = Cardinality(DOMAIN b) \/ ~malloc_ok THEN b
      ELSE FoldLeft(LAMBDA nb, e : insert_elem(nb, find_bucket(nb, e), e),
                    NoElems(n), InOrder(b))

\* What hash_next returns call after call, from hash_first to the end.
RECURSIVE hash_next(_, _, _)
hash_next(b, bucket, at) ==
  IF at < Len(b[bucket]) THEN <<b[bucket][at + 1]>> \o hash_next(b, bucket, at + 1)
  ELSE IF bucket + 1 >= Cardinality(DOMAIN b) THEN <<>>
  ELSE hash_next(b, bucket + 1, 0)
hash_first(b) == hash_next(b, 0, 0)

hash_init ==
  buckets = NoElems(MIN_BUCKETS) /\ elem_cnt = 0 /\ call = [op |-> "init"]

hash_insert(new, malloc_ok) ==
  LET i   == find_bucket(buckets, new)
      old == find_elem(buckets[i], new)
      cnt == IF old = NULL THEN elem_cnt + 1 ELSE elem_cnt
      b   == IF old = NULL THEN insert_elem(buckets, i, new) ELSE buckets
  IN  /\ new \notin ToSet(InOrder(buckets))
      /\ elem_cnt' = cnt
      /\ buckets' = rehash(b, cnt, malloc_ok)
      /\ call' = [op |-> "insert", e |-> new, ret |-> old]

hash_replace(new, malloc_ok) ==
  LET i   == find_bucket(buckets, new)
      old == find_elem(buckets[i], new)
      cnt == IF old = NULL THEN elem_cnt + 1 ELSE elem_cnt
      b   == IF old = NULL THEN buckets ELSE remove_elem(buckets, i, old)
  IN  /\ new \notin ToSet(InOrder(buckets))
      /\ elem_cnt' = cnt
      /\ buckets' = rehash(insert_elem(b, i, new), cnt, malloc_ok)
      /\ call' = [op |-> "replace", e |-> new, ret |-> old]

hash_find(e) ==
  /\ call' = [op |-> "find", e |-> e,
              ret |-> find_elem(buckets[find_bucket(buckets, e)], e)]
  /\ UNCHANGED <<buckets, elem_cnt>>

hash_delete(e, malloc_ok) ==
  LET i     == find_bucket(buckets, e)
      found == find_elem(buckets[i], e)
  IN  /\ call' = [op |-> "delete", e |-> e, ret |-> found]
      /\ IF found = NULL THEN UNCHANGED <<buckets, elem_cnt>>
         ELSE /\ elem_cnt' = elem_cnt - 1
              /\ buckets' = rehash(remove_elem(buckets, i, found), elem_cnt - 1, malloc_ok)

\* hash_clear leaves the number of buckets; ret is what the destructor saw.
hash_clear ==
  /\ buckets' = NoElems(bucket_cnt)
  /\ elem_cnt' = 0
  /\ call' = [op |-> "clear", ret |-> InOrder(buckets)]

Next == \/ \E e \in Elem, ok \in BOOLEAN : \/ hash_insert(e, ok)
                                           \/ hash_replace(e, ok)
                                           \/ hash_delete(e, ok)
        \/ \E e \in Elem : hash_find(e)
        \/ hash_clear
-----------------------------------------------------------------------------
Contents == ToSet(InOrder(buckets))

\* The table is sound after every call, resized or not: elem_cnt counts the
\* elements, no two are equal, each lies in the bucket its hash selects, the
\* number of buckets is a power of two, and the iteration of hash_first and
\* hash_next meets every element once.
TableSound ==
  /\ elem_cnt = Cardinality(Contents)
  /\ \A a, b \in Contents : Equal(a, b) => a = b
  /\ \A i \in DOMAIN buckets : \A e \in ToSet(buckets[i]) : HashOf(e) % bucket_cnt = i
  /\ \E k \in 0 .. 4 : bucket_cnt = 2 ^ k
  /\ Len(hash_first(buckets)) = elem_cnt /\ ToSet(hash_first(buckets)) = Contents

\* Each call changes the set of elements as hash.c documents it, whatever the
\* resizing did: insert keeps an equal element and returns it, replace returns
\* it and takes its place, delete returns what it removes, find finds exactly
\* what is there.
CallsAsDocumented ==
  [][LET same == {x \in Contents : Equal(x, call'.e)}
         one  == IF same = {} THEN NULL ELSE CHOOSE x \in same : TRUE
     IN  /\ call'.op \in {"insert", "replace", "delete", "find"} => call'.ret = one
         /\ call'.op = "insert" =>
              Contents' = IF same = {} THEN Contents \cup {call'.e} ELSE Contents
         /\ call'.op = "replace" => Contents' = (Contents \ same) \cup {call'.e}
         /\ call'.op = "delete" => Contents' = Contents \ same
         /\ call'.op = "find" => Contents' = Contents
         /\ call'.op = "clear" =>
              Contents' = {} /\ ToSet(call'.ret) = Contents]_vars
=============================================================================
