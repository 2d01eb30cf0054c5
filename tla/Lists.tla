------------------------------- MODULE Lists -------------------------------
(***************************************************************************)
(* The kernel's lists (lib/kernel/list.c) as the modules use them:         *)
(* list_push_back is Append, list_pop_front is Head and Tail, list_empty   *)
(* compares with <<>>; and what these do to the elements of a list.        *)
(***************************************************************************)
EXTENDS Integers, Sequences, TLAPS

\* The elements of a list.
Elems(list) == {list[i] : i \in DOMAIN list}

\* No element is on the list twice: a list_elem has one prev and one next.
Distinct(list) == \A i, j \in DOMAIN list : list[i] = list[j] => i = j

\* The place of an element, and list_remove, which takes it off.
Index(list, x) == CHOOSE k \in DOMAIN list : list[k] = x
Remove(list, x) ==
  LET k == Index(list, x)
  IN [j \in 1..(Len(list) - 1) |-> IF j < k THEN list[j] ELSE list[j + 1]]

\* x is in front of y.
Before(list, x, y) ==
  \E i, j \in DOMAIN list : i < j /\ list[i] = x /\ list[j] = y
-----------------------------------------------------------------------------
\* list_push_back adds one element and keeps a list without duplicates so if
\* the element was not on it.
LEMMA PushBack ==
  ASSUME NEW S, NEW list \in Seq(S), NEW x \in S
  PROVE  /\ Append(list, x) \in Seq(S)
         /\ Append(list, x) # <<>>
         /\ Elems(Append(list, x)) = Elems(list) \cup {x}
         /\ Distinct(list) /\ x \notin Elems(list) => Distinct(Append(list, x))
<1> DEFINE l == Append(list, x)
<1>1. /\ l \in Seq(S) /\ Len(l) = Len(list) + 1 /\ l # <<>>
      /\ \A i \in 1..Len(list) : l[i] = list[i]
      /\ l[Len(list) + 1] = x
  OBVIOUS
<1>2. DOMAIN l = 1..(Len(list) + 1) /\ DOMAIN list = 1..Len(list) /\ Len(list) \in Nat
  BY <1>1
<1>3. DOMAIN l = DOMAIN list \cup {Len(list) + 1}
  BY <1>2
<1>4. Elems(l) = Elems(list) \cup {x}
  BY <1>1, <1>2, <1>3 DEF Elems
<1>5. ASSUME Distinct(list), x \notin Elems(list)
      PROVE  Distinct(l)
  BY <1>1, <1>2, <1>3, <1>5 DEF Distinct, Elems
<1>6. QED BY <1>1, <1>4, <1>5

\* list_pop_front takes the first element off: on a list without duplicates
\* it is not on the rest.
LEMMA PopFront ==
  ASSUME NEW S, NEW list \in Seq(S), list # <<>>
  PROVE  /\ Head(list) \in S /\ Head(list) \in Elems(list)
         /\ Tail(list) \in Seq(S)
         /\ Elems(Tail(list)) \subseteq Elems(list)
         /\ Elems(list) = Elems(Tail(list)) \cup {Head(list)}
         /\ Distinct(list) => /\ Distinct(Tail(list))
                              /\ Head(list) \notin Elems(Tail(list))
<1> DEFINE l == Tail(list)
<1>1. /\ Len(list) \in Nat /\ Len(list) >= 1 /\ DOMAIN list = 1..Len(list)
      /\ Head(list) = list[1] /\ l \in Seq(S) /\ Len(l) = Len(list) - 1
      /\ \A i \in 1..(Len(list) - 1) : l[i] = list[i + 1]
  OBVIOUS
<1>2. DOMAIN l = 1..(Len(list) - 1)
  BY <1>1
<1>3. 1 \in DOMAIN list /\ list[1] \in S
  BY <1>1
<1>4. Elems(l) \subseteq Elems(list)
  BY <1>1, <1>2 DEF Elems
<1>5. ASSUME NEW i \in DOMAIN list, i # 1
      PROVE  list[i] \in Elems(l)
  <2>1. i - 1 \in DOMAIN l /\ l[i - 1] = list[i]
    BY <1>1, <1>2, <1>5
  <2>2. QED BY <2>1 DEF Elems
<1>6. Elems(list) = Elems(l) \cup {Head(list)}
  <2>1. Head(list) \in Elems(list)
    BY <1>1, <1>3 DEF Elems
  <2>2. \A i \in DOMAIN list : list[i] \in Elems(l) \cup {Head(list)}
    BY <1>1, <1>5
  <2>3. Elems(list) \subseteq Elems(l) \cup {Head(list)}
    BY <2>2 DEF Elems
  <2>4. QED BY <1>4, <2>1, <2>3
<1>7. ASSUME Distinct(list)
      PROVE  Distinct(l) /\ Head(list) \notin Elems(l)
  BY <1>1, <1>2, <1>3, <1>7 DEF Distinct, Elems
<1>8. QED BY Zenon, <1>1, <1>3, <1>4, <1>6, <1>7 DEF Elems

\* The empty list has no elements.
LEMMA EmptyList == Elems(<<>>) = {} /\ Distinct(<<>>)
BY DEF Elems, Distinct

\* An element of a list has a place on it, the only one if there are no
\* duplicates.
LEMMA IndexIs ==
  ASSUME NEW S, NEW list \in Seq(S), NEW x \in Elems(list)
  PROVE  /\ Index(list, x) \in 1..Len(list) /\ list[Index(list, x)] = x
         /\ Distinct(list) => \A k \in 1..Len(list) : list[k] = x => k = Index(list, x)
<1>1. DOMAIN list = 1..Len(list)
  OBVIOUS
<1>2. \E k \in DOMAIN list : list[k] = x
  BY DEF Elems
<1>3. Index(list, x) \in DOMAIN list /\ list[Index(list, x)] = x
  BY <1>2 DEF Index
<1>4. QED BY <1>1, <1>3 DEF Distinct

\* list_remove takes one element off a list without duplicates and leaves the
\* order of the others.
LEMMA Removed ==
  ASSUME NEW S, NEW list \in Seq(S), Distinct(list), NEW x \in Elems(list)
  PROVE  /\ Remove(list, x) \in Seq(S)
         /\ Elems(Remove(list, x)) = Elems(list) \ {x}
         /\ Distinct(Remove(list, x))
         /\ \A y, z : Before(Remove(list, x), y, z) => Before(list, y, z)
<1> DEFINE k == Index(list, x)
           n == Len(list)
           l == Remove(list, x)
<1>1. /\ n \in Nat /\ DOMAIN list = 1..n /\ k \in 1..n /\ list[k] = x
      /\ \A j \in 1..n : list[j] = x => j = k
      /\ \A j \in 1..n : list[j] \in S
  BY IndexIs
<1> HIDE DEF k, n
<1>2. l = [j \in 1..(n - 1) |-> IF j < k THEN list[j] ELSE list[j + 1]]
  BY DEF Remove, k, n
<1> HIDE DEF l
<1>3. /\ DOMAIN l = 1..(n - 1)
      /\ \A j \in 1..(n - 1) : l[j] = IF j < k THEN list[j] ELSE list[j + 1]
  BY <1>2
<1>4. n - 1 \in Nat /\ l \in [1..(n - 1) -> S]
  BY <1>1, <1>2
<1>5. l \in Seq(S)
  BY <1>4
<1>6. \A j \in 1..n : j # k => \E m \in 1..(n - 1) : l[m] = list[j]
  <2> SUFFICES ASSUME NEW j \in 1..n, j # k
               PROVE  \E m \in 1..(n - 1) : l[m] = list[j]
    OBVIOUS
  <2>1. CASE j < k
    BY <1>1, <1>3, <2>1
  <2>2. CASE j > k
    <3>1. j - 1 \in 1..(n - 1) /\ l[j - 1] = list[j]
      BY <1>1, <1>3, <2>2
    <3>2. QED BY <3>1
  <2>3. QED BY <1>1, <2>1, <2>2
<1>7. \A m \in 1..(n - 1) : \E j \in 1..n : j # k /\ l[m] = list[j]
  <2> SUFFICES ASSUME NEW m \in 1..(n - 1)
               PROVE  \E j \in 1..n : j # k /\ l[m] = list[j]
    OBVIOUS
  <2>1. CASE m < k
    BY <1>1, <1>3, <2>1
  <2>2. CASE ~(m < k)
    <3>1. m + 1 \in 1..n /\ m + 1 # k /\ l[m] = list[m + 1]
      BY <1>1, <1>3, <2>2
    <3>2. QED BY <3>1
  <2>3. QED BY <2>1, <2>2
<1>8. Elems(l) = Elems(list) \ {x}
  <2>1. \A j \in 1..n : list[j] = x <=> j = k
    BY <1>1
  <2>2. ASSUME NEW y \in Elems(l) PROVE y \in Elems(list) \ {x}
    BY <1>1, <1>3, <1>7, <2>1, <2>2 DEF Elems
  <2>3. ASSUME NEW y \in Elems(list) \ {x} PROVE y \in Elems(l)
    BY <1>1, <1>3, <1>6, <2>1, <2>3 DEF Elems
  <2>4. QED BY <2>2, <2>3
<1>9. Distinct(l)
  BY <1>1, <1>3 DEF Distinct
<1>10. ASSUME NEW y, NEW z, Before(l, y, z)
       PROVE  Before(list, y, z)
  <2>1. PICK a \in 1..(n - 1), b \in 1..(n - 1) : a < b /\ l[a] = y /\ l[b] = z
    BY <1>3, <1>10 DEF Before
  <2> DEFINE At(j) == IF j < k THEN j ELSE j + 1
  <2>2. /\ At(a) \in 1..n /\ At(b) \in 1..n /\ At(a) < At(b)
        /\ list[At(a)] = y /\ list[At(b)] = z
    BY <1>1, <1>3, <2>1
  <2>3. QED BY <1>1, <2>2 DEF Before
<1>11. QED BY <1>5, <1>8, <1>9, <1>10 DEF l

\* list_push_back leaves the order of the elements that were on the list.
LEMMA PushedBefore ==
  ASSUME NEW S, NEW list \in Seq(S), NEW x \in S, NEW y, NEW z, z # x,
         Before(Append(list, x), y, z)
  PROVE  Before(list, y, z)
<1> DEFINE l == Append(list, x)
<1>1. /\ Len(list) \in Nat /\ DOMAIN list = 1..Len(list)
      /\ DOMAIN l = 1..(Len(list) + 1) /\ l[Len(list) + 1] = x
      /\ \A i \in 1..Len(list) : l[i] = list[i]
  OBVIOUS
<1> HIDE DEF l
<1>2. PICK i, j \in 1..(Len(list) + 1) : i < j /\ l[i] = y /\ l[j] = z
  BY <1>1 DEF Before, l
<1>3. i \in 1..Len(list) /\ j \in 1..Len(list)
  BY <1>1, <1>2
<1>4. QED BY <1>1, <1>2, <1>3 DEF Before

\* The order of a list without duplicates is a strict order of its elements.
LEMMA BeforeOrder ==
  ASSUME NEW S, NEW list \in Seq(S), Distinct(list)
  PROVE  /\ \A x : ~Before(list, x, x)
         /\ \A x, y, z : Before(list, x, y) /\ Before(list, y, z) => Before(list, x, z)
         /\ \A x, y : Before(list, x, y) => x \in Elems(list) /\ y \in Elems(list)
<1>1. DOMAIN list = 1..Len(list) /\ Len(list) \in Nat
  OBVIOUS
<1>2. \A x : ~Before(list, x, x)
  BY <1>1 DEF Before, Distinct
<1>3. ASSUME NEW x, NEW y, NEW z, Before(list, x, y), Before(list, y, z)
      PROVE  Before(list, x, z)
  <2>1. PICK i, j \in 1..Len(list) : i < j /\ list[i] = x /\ list[j] = y
    BY <1>1, <1>3 DEF Before
  <2>2. PICK k, m \in 1..Len(list) : k < m /\ list[k] = y /\ list[m] = z
    BY <1>1, <1>3 DEF Before
  <2>3. j = k
    BY <1>1, <2>1, <2>2 DEF Distinct
  <2>4. i < m
    BY <1>1, <2>1, <2>2, <2>3
  <2>5. QED BY <1>1, <2>1, <2>2, <2>4 DEF Before
<1>4. \A x, y : Before(list, x, y) => x \in Elems(list) /\ y \in Elems(list)
  BY DEF Before, Elems
<1>5. QED BY <1>2, <1>3, <1>4
=============================================================================
