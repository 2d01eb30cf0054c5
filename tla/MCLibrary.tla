----------------------------- MODULE MCLibrary ------------------------------
(***************************************************************************)
(* The kernel's library, the program loader and the keyboard, called with  *)
(* every small argument.  A call of a pure function is a step that records *)
(* its arguments and its result in made, an invariant compares the result  *)
(* with what the function promises, and Return ends the call.  The hash    *)
(* table is a state machine of its own; it runs while no call is made, and *)
(* calls are made while it is empty.                                       *)
(***************************************************************************)
EXTENDS Integers, Sequences, FiniteSets, SequencesExt

CONSTANTS MaxList,    \* length of a list, an array or a text
          MaxBits,    \* bits of a bitmap
          MaxMem,     \* bytes of a memory
          Nil         \* the hash table's null pointer

VARIABLES made, buckets, elem_cnt, call
hvars == <<buckets, elem_cnt, call>>
vars  == <<made, hvars>>

Idle == [fn |-> "none"]

\* A list element is 10 * key + its place in the list, so that equal keys
\* make different elements; -1 and -2, -3 and -4 are the ends of two lists.
KeyLess(a, b) == a \div 10 < b \div 10
L == INSTANCE ListPointers WITH NULL <- 0, Less <- KeyLess
B == INSTANCE Bitmap WITH ELEM_BITS <- 2
S == INSTANCE Strings
N == INSTANCE Algorithms WITH W <- 4, P <- 4, Q <- 3, INT_BITS <- 6
F == INSTANCE Format WITH BUF_SIZE <- 5,
       Bits <- [CHAR |-> 3, SHORT |-> 4, INT |-> 6, LONG |-> 6, INTMAX |-> 8,
                LONGLONG |-> 8, PTRDIFFT |-> 6, SIZET |-> 6]
Ld == INSTANCE Loader WITH W <- 4, PGSIZE <- 2, PHYS_BASE <- 12, WORD <- 2
K == INSTANCE Terminal WITH COL_CNT <- 3, ROW_CNT <- 2, TAB <- 2
HKey(e) == IF e = 5 THEN 1 ELSE e
H == INSTANCE Hash WITH Elem <- 1 .. 5, NULL <- Nil, KeyOf <- HKey, HashOf <- HKey,
                        MIN_BUCKETS <- 1, BEST_ELEMS_PER_BUCKET <- 1

\* A call of the other libraries, made while the hash table is as it began.
Untouched == made = Idle /\ buckets = [i \in 0 .. 0 |-> <<>>] /\ call.op = "init"
Calling(c) == made' = c /\ UNCHANGED hvars
-----------------------------------------------------------------------------
\* Lists: the elements of a list of given keys, and the memory holding it.
ListOf(keys) == [i \in DOMAIN keys |-> 10 * keys[i] + i]
One == [head |-> -1, tail |-> -2]
Two == [head |-> -3, tail |-> -4]
New == 19    \* an element on no list
Blank == [next |-> [e \in -4 .. 39 |-> 0], prev |-> [e \in -4 .. 39 |-> 0], ok |-> TRUE]
Memory(list) ==
  FoldLeft(LAMBDA m, e : L!list_push_back(m, One, e),
           L!list_init(L!list_init(Blank, One), Two), list)

ListCall(op, list, m, ret) ==
  Calling([fn |-> "list", op |-> op, list |-> list, ret |-> ret, ok |-> m.ok,
           one |-> L!Walk(m, L!list_begin(m, One), -2), back |-> L!WalkBack(m, m.prev[-2], -1),
           two |-> L!Walk(m, L!list_begin(m, Two), -4), back2 |-> L!WalkBack(m, m.prev[-4], -3)])

CallList ==
  \E n \in 0 .. MaxList : \E keys \in [1 .. n -> 1 .. 2] :
    LET list == ListOf(keys)
        m    == Memory(list)
    IN  \/ ListCall("push_front", list, L!list_push_front(m, One, New), 0)
        \/ ListCall("reverse", list, L!list_reverse(m, One), 0)
        \/ ListCall("unique", list, L!list_unique(m, One, Two), 0)
        \/ ListCall("unique_only", list, L!list_unique(m, One, [head |-> 0, tail |-> 0]), 0)
        \/ ListCall("max", list, m, L!list_max(m, One))
        \/ ListCall("min", list, m, L!list_min(m, One))
        \/ ListCall("size", list, m, L!list_size(m, One))
        \/ n > 0 /\ ListCall("pop_front", list, L!list_pop_front(m, One), L!list_front(m, One))
        \/ n > 0 /\ ListCall("pop_back", list, L!list_pop_back(m, One), L!list_back(m, One))
        \/ \E i \in 1 .. n : ListCall("remove", list, L!list_remove(m, list[i]), i)

\* Every range of a list spliced before the end of another one, and before
\* every element of its own list outside the range.
CallSplice ==
  \E n \in 1 .. MaxList - 1 : \E i \in 1 .. n : \E j \in i .. n + 1 :
    LET list == ListOf([k \in 1 .. n |-> 1])
        m    == Memory(list)
        end  == IF j = n + 1 THEN -2 ELSE list[j]
    IN  \/ ListCall("splice", list, L!list_splice(m, -4, list[i], end), <<i, j, 0>>)
        \/ \E k \in (1 .. i - 1) \cup (j .. n) :
             ListCall("splice", list, L!list_splice(m, list[k], list[i], end), <<i, j, k>>)

CallSort ==
  \E n \in 0 .. MaxList : \E keys \in [1 .. n -> 1 .. 3] :
    LET m == Memory(ListOf(keys))
    IN  \/ ListCall("sort", ListOf(keys), L!list_sort(m, One), 0)
        \/ /\ \A i \in 1 .. n - 1 : keys[i] <= keys[i + 1]
           /\ ListCall("insert_ordered", ListOf(keys), L!list_insert_ordered(m, One, 29), 0)

\* What each operation makes of the list: the sequence of One, that of Two.
FirstOfGroup(s, i) == i = 1 \/ KeyLess(s[i - 1], s[i]) \/ KeyLess(s[i], s[i - 1])
KeepAt(s, I) == LET at == SetToSortSeq(I, <) IN [k \in 1 .. Len(at) |-> s[at[k]]]
ListResult(c) ==
  LET s == c.list
      n == Len(s)
      firsts == {i \in 1 .. n : FirstOfGroup(s, i)}
      rest(i, j) == KeepAt(s, (1 .. n) \ (i .. j - 1))
  IN  CASE c.op = "push_front"  -> <<<<New>> \o s, <<>>>>
        [] c.op = "reverse"     -> <<Reverse(s), <<>>>>
        [] c.op = "unique"      -> <<KeepAt(s, firsts), KeepAt(s, (1 .. n) \ firsts)>>
        [] c.op = "unique_only" -> <<KeepAt(s, firsts), <<>>>>
        [] c.op = "pop_front"   -> <<Tail(s), <<>>>>
        [] c.op = "pop_back"    -> <<Front(s), <<>>>>
        [] c.op = "remove"      -> <<rest(c.ret, c.ret + 1), <<>>>>
        [] c.op = "splice"      ->
             LET i == c.ret[1]  j == c.ret[2]  k == c.ret[3]
                 range == SubSeq(s, i, j - 1)
             IN  IF k = 0 THEN <<rest(i, j), range>>
                 ELSE <<SubSeq(s, 1, (IF k < i THEN k ELSE i) - 1)
                        \o (IF k < i THEN range \o SubSeq(s, k, i - 1) \o SubSeq(s, j, n)
                            ELSE SubSeq(s, j, k - 1) \o range \o SubSeq(s, k, n)), <<>>>>
        [] OTHER -> <<s, <<>>>>

\* list.c keeps its lists sound and does what it says: from any list, every
\* operation passes its ASSERTs, the links forwards and backwards agree, and
\* both lists hold the elements, in the order, that the operation promises.
ListsAsSequences ==
  made.fn = "list" =>
    /\ made.ok
    /\ made.back = Reverse(made.one) /\ made.back2 = Reverse(made.two)
    /\ made.op \notin {"sort", "insert_ordered"} => <<made.one, made.two>> = ListResult(made)
    /\ made.op = "size" => made.ret = Len(made.list)

\* list_sort is a stable sort and list_insert_ordered keeps a sorted list
\* sorted, after the elements equal to the new one: round robin among threads
\* of one priority rests on this order.
SortStable ==
  made.fn = "list" /\ made.op \in {"sort", "insert_ordered"} =>
    /\ ToSet(made.one) = ToSet(made.list) \cup (IF made.op = "sort" THEN {} ELSE {29})
    /\ \A i, j \in DOMAIN made.one : i < j => made.one[i] < made.one[j]

\* list_max and list_min return the earliest of the extreme elements, the
\* tail for an empty list.
ExtremesEarliest ==
  made.fn = "list" /\ made.op \in {"max", "min"} =>
    IF made.list = <<>> THEN made.ret = -2
    ELSE \E i \in DOMAIN made.list :
           /\ made.ret = made.list[i]
           /\ \A j \in DOMAIN made.list :
                LET worse == IF made.op = "max" THEN KeyLess(made.list[j], made.ret)
                             ELSE KeyLess(made.ret, made.list[j])
                    better == IF made.op = "max" THEN KeyLess(made.ret, made.list[j])
                              ELSE KeyLess(made.list[j], made.ret)
                IN  ~better /\ (j < i => worse)
-----------------------------------------------------------------------------
\* Bitmaps: every map of MaxBits bits or fewer, its spare bits zero.
BitsOf(b) == [i \in 0 .. b.bit_cnt - 1 |-> B!bitmap_test(b, i)]
MapOf(f, n) == FoldLeft(LAMBDA b, i : B!bitmap_set(b, i, f[i]), B!bitmap_create(n, 3),
                        [k \in 1 .. n |-> k - 1])
CallBitmap ==
  \E n \in 0 .. MaxBits : \E f \in [0 .. n - 1 -> BOOLEAN], v \in BOOLEAN :
    LET b == MapOf(f, n)
        Did(op, start, cnt, after, ret) ==
          Calling([fn |-> "bitmap", op |-> op, f |-> f, n |-> n, v |-> v, start |-> start,
                   cnt |-> cnt, after |-> BitsOf(after), ok |-> after.ok, ret |-> ret,
                   bits |-> after.bits])
    IN  \/ \E start \in 0 .. n : \E cnt \in 0 .. n - start :
             \/ Did("set_multiple", start, cnt, B!bitmap_set_multiple(b, start, cnt, v), 0)
             \/ Did("count", start, cnt, b, B!bitmap_count(b, start, cnt, v))
             \/ Did("any", start, cnt, b, <<B!bitmap_any(b, start, cnt),
                                            B!bitmap_none(b, start, cnt),
                                            B!bitmap_all(b, start, cnt)>>)
        \/ \E start \in 0 .. n, cnt \in 0 .. n + 1 :
             LET r == B!bitmap_scan_and_flip(b, start, cnt, v)
             IN  Did("scan_and_flip", start, cnt, r.b, r.idx)
        \/ \E idx \in 0 .. n - 1 : Did("flip", idx, 1, B!bitmap_flip(b, idx), 0)
        \/ Did("file", 0, 0, B!bitmap_read(B!bitmap_create(n, 3), B!bitmap_write(b)), 0)

\* Bits start .. start + cnt - 1 are all v.
AllAre(f, start, cnt, v) == \A i \in start .. start + cnt - 1 : f[i] = v

\* bitmap_scan_and_flip takes the first run of cnt bits of value v at or after
\* start, if there is one, and flips those bits and no others; free_map and
\* palloc allocate by it.  The other functions on ranges, and writing the map
\* to a file and reading it back, are right up to the last bit of the last
\* element, and no ASSERT fails.
BitmapRight ==
  made.fn = "bitmap" =>
    LET f == made.f  v == made.v  s == made.start  c == made.cnt  n == made.n
        range == s .. s + c - 1
        runs  == {i \in s .. n - c : AllAre(f, i, c, v)}
        flipped(at) == [i \in DOMAIN f |-> IF i \in at .. at + c - 1 THEN ~f[i] ELSE f[i]]
    IN  /\ made.ok
        /\ CASE made.op = "set_multiple" ->
                  made.after = [i \in DOMAIN f |-> IF i \in range THEN v ELSE f[i]]
             [] made.op = "scan_and_flip" ->
                  IF runs = {} THEN made.ret = B!BITMAP_ERROR /\ made.after = f
                  ELSE /\ made.ret \in runs /\ \A i \in runs : made.ret <= i
                       /\ made.after = flipped(made.ret)
             [] made.op = "flip" -> made.after = flipped(s)
             [] made.op = "count" -> made.ret = Cardinality({i \in range : f[i] = v})
             [] made.op = "any" ->
                  made.ret = <<\E i \in range : f[i], \A i \in range : ~f[i], AllAre(f, s, c, TRUE)>>
             [] made.op = "file" -> made.after = f
-----------------------------------------------------------------------------
\* Strings: memories of bytes 0, 1 and 2 that end in 0, and two addresses.
Mems == {m \in [0 .. MaxMem - 1 -> 0 .. 2] : m[MaxMem - 1] = 0}
StrAt(mem, a) == LET n == S!strlen(mem, a) IN [i \in 1 .. n |-> mem[a + i - 1]]
CallMove ==
  \E size \in 0 .. MaxMem : \E dst, src \in 0 .. MaxMem - size :
    LET mem == [i \in 0 .. MaxMem - 1 |-> i + 1]
        Did(op, after) == Calling([fn |-> "move", op |-> op, mem |-> mem, after |-> after,
                                   dst |-> dst, src |-> src, size |-> size])
    IN  \/ Did("memmove", S!memmove(mem, dst, src, size))
        \/ Did("memset", S!memset(mem, dst, 0, size))
        \/ /\ dst + size <= src \/ src + size <= dst
           /\ Did("memcpy", S!memcpy(mem, dst, src, size))
CallString ==
  \E mem \in Mems, a, b \in 0 .. MaxMem - 1, c \in 0 .. 2 :
    LET Did(op, ret) == Calling([fn |-> "string", op |-> op, mem |-> mem, a |-> a, b |-> b,
                                 c |-> c, ret |-> ret])
    IN  \/ c = 0 /\ Did("strcmp", <<S!strcmp(mem, a, b), S!strcmp(mem, b, a)>>)
        \/ c = 0 /\ Did("strstr", S!strstr(mem, a, b))
        \/ c = 0 /\ Did("strspn", <<S!strspn(mem, a, b), S!strcspn(mem, a, b), S!strpbrk(mem, a, b)>>)
        \/ b = 0 /\ Did("strchr", <<S!strchr(mem, a, c), S!strrchr(mem, a, c)>>)
        \/ b = 0 /\ Did("memchr", S!memchr(mem, a, c, MaxMem - a))
        \/ b = 0 /\ Did("strnlen", S!strnlen(mem, a, c))

FirstOf(I) == IF I = {} THEN S!NULL ELSE CHOOSE i \in I : \A j \in I : i <= j
LastOf(I)  == IF I = {} THEN S!NULL ELSE CHOOSE i \in I : \A j \in I : i >= j

\* memmove copies the bytes that were in SRC, however the two ranges overlap;
\* memcpy does when they do not; neither, nor memset, touches another byte.
MovesExact ==
  made.fn = "move" =>
    made.after = [i \in 0 .. MaxMem - 1 |->
      IF i \notin made.dst .. made.dst + made.size - 1 THEN made.mem[i]
      ELSE IF made.op = "memset" THEN 0 ELSE made.mem[made.src + i - made.dst]]

\* The searches of string.c find the first, the last or the longest there is,
\* and never look past the end of a string; strcmp is the lexicographic order.
SearchesRight ==
  made.fn = "string" =>
    LET mem == made.mem  a == made.a  b == made.b  c == made.c
        s == StrAt(mem, a)  t == StrAt(mem, b)
        body == a .. a + Len(s) - 1
        In == {i \in body : \E k \in DOMAIN t : t[k] = mem[i]}
        Prefix(u, w) == Len(u) <= Len(w) /\ SubSeq(w, 1, Len(u)) = u
        Below(u, w) == \/ Prefix(u, w) /\ u # w
                       \/ \E k \in DOMAIN u \cap DOMAIN w :
                            SubSeq(u, 1, k - 1) = SubSeq(w, 1, k - 1) /\ u[k] < w[k]
        Length(I) == IF I = {} THEN Len(s) ELSE FirstOf(I) - a
    IN  CASE made.op = "strcmp" ->
               made.ret = IF Below(s, t) THEN <<-1, 1>> ELSE IF s = t THEN <<0, 0>> ELSE <<1, -1>>
          [] made.op = "strstr" ->
               made.ret = FirstOf({i \in a .. a + Len(s) : Prefix(t, SubSeq(s, i - a + 1, Len(s)))})
          [] made.op = "strspn" -> made.ret = <<Length(body \ In), Length(In), FirstOf(In)>>
          [] made.op = "strchr" ->
               made.ret = <<FirstOf({i \in a .. a + Len(s) : mem[i] = c}),
                            LastOf({i \in body : mem[i] = c})>>
          [] made.op = "memchr" -> made.ret = FirstOf({i \in a .. MaxMem - 1 : mem[i] = c})
          [] made.op = "strnlen" -> made.ret = IF Len(s) < c THEN Len(s) ELSE c
-----------------------------------------------------------------------------
\* strtok_r, call after call: the text is followed by the delimiter string 2.
RECURSIVE Tokens(_, _, _)
Tokens(mem, s, delims) ==
  LET r == S!strtok_r(mem, s, delims)
  IN  IF r.token = S!NULL THEN <<>>
      ELSE <<StrAt(r.mem, r.token)>> \o Tokens(r.mem, r.save, delims)
Placed(strings) ==
  LET flat == FlattenSeq([k \in DOMAIN strings |-> Append(strings[k], 0)])
  IN  [i \in 0 .. Len(flat) - 1 |-> flat[i + 1]]
CallTokens ==
  \E n \in 0 .. MaxList + 1 : \E text \in [1 .. n -> 1 .. 3] :
    \E delims \in {<<>>, <<2>>, <<2, 3>>} :
      Calling([fn |-> "tokens", text |-> text, delims |-> ToSet(delims),
               ret |-> Tokens(Placed(<<text, delims>>), 0, n + 1)])

\* strtok_r returns, in order, the maximal runs of characters that are no
\* delimiters, none of them empty: the arguments of a program come from this.
TokensRight ==
  made.fn = "tokens" =>
    LET s == made.text  n == Len(s)
        Is(i) == i \in 1 .. n /\ s[i] \notin made.delims
        starts == {i \in 1 .. n : Is(i) /\ ~Is(i - 1)}
        ends   == {i \in 1 .. n : Is(i) /\ ~Is(i + 1)}
        at == SetToSortSeq(starts, <)
        to == SetToSortSeq(ends, <)
    IN  made.ret = [k \in 1 .. Cardinality(starts) |-> SubSeq(s, at[k], to[k])]

\* The destination, with room for MaxMem bytes 9, lies before the source.
CallBounded ==
  \E n \in 0 .. 3, k \in 0 .. 2 : \E size \in 0 .. MaxMem :
    LET src == [i \in 1 .. n |-> i]
        old == [i \in 1 .. k |-> 7]
        mem == [i \in 0 .. MaxMem + n |->
                  IF i < k THEN 7 ELSE IF i = k \/ i = MaxMem + n THEN 0
                  ELSE IF i < MaxMem THEN 9 ELSE src[i - MaxMem + 1]]
        cpy == S!strlcpy(mem, 0, MaxMem, size)
        cat == S!strlcat(mem, 0, MaxMem, size)
    IN  \/ Calling([fn |-> "bounded", text |-> src, size |-> size, mem |-> mem, to |-> cpy])
        \/ Calling([fn |-> "bounded", text |-> old \o src, size |-> size, mem |-> mem, to |-> cat,
                    kept |-> k])

\* strlcpy and strlcat write at most SIZE bytes, always end what they write
\* with a null byte when SIZE allows it (strlcat: when DST is shorter than
\* SIZE), hold the longest prefix of the full text that fits, and return the
\* length of the full text.
CopiesBounded ==
  made.fn = "bounded" =>
    LET text == made.text  size == made.size  after == made.to.mem
        full == size = 0 \/ ("kept" \in DOMAIN made /\ made.kept >= size)
        held == SubSeq(text, 1, IF Len(text) < size THEN Len(text) ELSE size - 1)
    IN  /\ made.to.ret = Len(text)
        /\ \A i \in DOMAIN after : i >= size => after[i] = made.mem[i]
        /\ IF full THEN after = made.mem ELSE StrAt(after, 0) = held
-----------------------------------------------------------------------------
\* Algorithms: every dividend and divisor of 2W bits; every fixed-point number.
CallDivide ==
  \E n, d \in 0 .. 255 : d > 0 /\
    \/ Calling([fn |-> "udiv", n |-> n, d |-> d, q |-> N!udiv64(n, d), r |-> N!umod64(n, d)])
    \/ Calling([fn |-> "sdiv", n |-> n - 128, d |-> N!Signed(d, 8),
                q |-> N!sdiv64(n - 128, N!Signed(d, 8)), r |-> N!smod64(n - 128, N!Signed(d, 8))])
CallFixed ==
  \/ \E n \in -15 .. 15 : Calling([fn |-> "fix_int", n |-> n, x |-> N!fix_int(n)])
  \/ \E x \in -64 .. 63 : Calling([fn |-> "fix_round", x |-> x, round |-> N!fix_round(x),
                                   trunc |-> N!fix_trunc(x)])
  \/ \E x, y \in -64 .. 63 :
       \/ Calling([fn |-> "fix_mul", x |-> x, y |-> y, z |-> N!fix_mul(x, y),
                   add |-> N!fix_add(x, y), sub |-> N!fix_sub(x, y),
                   scale |-> N!fix_scale(x, y), cmp |-> N!fix_compare(x, y)])
       \/ y # 0 /\ Calling([fn |-> "fix_div", x |-> x, y |-> y, z |-> N!fix_div(x, y),
                            frac |-> N!fix_frac(x, y), inv |-> N!fix_inv(y),
                            unscale |-> N!fix_unscale(x, y)])

\* The two-step division of udiv64 never traps and is exact for every pair of
\* operands, signed ones included (but the one quotient a signed type lacks);
\* a remainder is exact when it fits the word its function returns.
DivisionExact ==
  /\ made.fn = "udiv" => /\ made.q = made.n \div made.d
                         /\ made.n % made.d < 16 => made.r = made.n % made.d
  /\ made.fn = "sdiv" =>
       LET q == N!Quot(made.n, made.d)  r == made.n - made.d * q
       IN  /\ q # 128 => made.q = q
           /\ q # 128 /\ r \in -8 .. 7 => made.r = r

\* Fixed-point results are exact, truncated towards zero, whenever they are
\* representable.  fix_int's own ASSERT admits integers that are not: it
\* represents n exactly when -2^(P-1) <= n < 2^(P-1).  fix_round is within
\* half a unit for positive numbers; for a negative one it never rounds down,
\* and is up to one and a half too large.
FixedPointExact ==
  LET F1 == N!FIX_F
      Fits(z) == z \in -64 .. 63
      Abs(z) == IF z < 0 THEN -z ELSE z
  IN  /\ made.fn = "fix_int" => (made.x = made.n * F1 <=> made.n \in -8 .. 7)
      /\ made.fn = "fix_round" =>
           /\ Abs(made.trunc * F1) <= Abs(made.x) /\ Abs(made.x) - Abs(made.trunc * F1) < F1
           /\ made.x >= 0 /\ made.x < 60 => 2 * Abs(made.x - made.round * F1) <= F1
           /\ made.x < 0 => 2 * (made.round * F1 - made.x) \in 0 .. 3 * F1 - 1
      /\ made.fn = "fix_mul" =>
           /\ LET z == N!Quot(made.x * made.y, F1) IN Fits(z) => made.z = z
           /\ Fits(made.x + made.y) => made.add = made.x + made.y
           /\ Fits(made.x - made.y) => made.sub = made.x - made.y /\ made.cmp * made.sub = Abs(made.sub)
           /\ Fits(made.x * made.y) => made.scale = made.x * made.y
      /\ made.fn = "fix_div" =>
           /\ LET z == N!Quot(made.x * F1, made.y) IN Fits(z) => made.z = z /\ made.frac = z
           /\ LET z == N!Quot(F1 * F1, made.y) IN Fits(z) => made.inv = z
           /\ made.y > 0 => made.unscale = N!Quot(made.x, made.y)
-----------------------------------------------------------------------------
\* Arrays and atoi.
CallArray ==
  \E n \in 0 .. MaxList + 1 : \E array \in [1 .. n -> 1 .. 3] :
    \/ Calling([fn |-> "sort", array |-> array, ret |-> N!sort(array)])
    \/ \E key \in 0 .. 4 : /\ \A i \in 1 .. n - 1 : array[i] <= array[i + 1]
                           /\ Calling([fn |-> "search", array |-> array, key |-> key,
                                       ret |-> N!binary_search(key, array)])
Spell(c) == IF c \in 0 .. 9 THEN <<"digit", c>> ELSE <<<<"x", " ", "-", "+">>[c + 5]>>
CallAtoi ==
  \E n \in 0 .. 4 : \E t \in [1 .. n -> {-4, -3, -2, -1, 0, 3}] :
    Calling([fn |-> "atoi", text |-> t, ret |-> N!atoi([i \in 1 .. n |-> Spell(t[i])])])

\* The heap sort returns its array in order with every element as often as
\* before; the binary search finds a key exactly when the array holds it.
ArraysRight ==
  /\ made.fn = "sort" =>
       /\ \A i \in 1 .. Len(made.ret) - 1 : made.ret[i] <= made.ret[i + 1]
       /\ \A v \in 1 .. 3 : Cardinality({i \in DOMAIN made.ret : made.ret[i] = v})
                             = Cardinality({i \in DOMAIN made.array : made.array[i] = v})
  /\ made.fn = "search" =>
       IF made.ret = 0 THEN made.key \notin ToSet(made.array)
       ELSE made.ret \in DOMAIN made.array /\ made.array[made.ret] = made.key

\* atoi reads the number that follows the leading white space and one sign, up
\* to the first other character, every value of an int included the smallest.
AtoiRight ==
  made.fn = "atoi" =>
    LET t == made.text  n == Len(t)
        k == CHOOSE i \in 1 .. n + 1 : /\ \A j \in 1 .. i - 1 : t[j] = -3
                                       /\ i <= n => t[i] # -3
        signed == k <= n /\ t[k] \in {-2, -1}
        b == IF signed THEN k + 1 ELSE k
        e == CHOOSE i \in b .. n + 1 : /\ \A j \in b .. i - 1 : t[j] >= 0
                                       /\ i <= n => t[i] < 0
        abs == FoldLeft(LAMBDA x, d : 10 * x + d, 0, SubSeq(t, b, e - 1))
        v == IF signed /\ t[k] = -2 THEN -abs ELSE abs
    IN  v \in -32 .. 31 => made.ret = v
-----------------------------------------------------------------------------
\* printf: a conversion between "<" and ">", then %u with the argument 7.  A
\* width or a precision is the text of it and the arguments it takes.
Widths == {[t |-> <<>>, args |-> <<>>, n |-> 0], [t |-> <<"4">>, args |-> <<>>, n |-> 4],
           [t |-> <<"*">>, args |-> <<3>>, n |-> 3], [t |-> <<"*">>, args |-> <<-3>>, n |-> -3]}
Precisions == {[t |-> <<>>, args |-> <<>>, n |-> -1], [t |-> <<".">>, args |-> <<>>, n |-> 0],
               [t |-> <<".", "3">>, args |-> <<>>, n |-> 3],
               [t |-> <<".", "*">>, args |-> <<2>>, n |-> 2],
               [t |-> <<".", "*">>, args |-> <<-2>>, n |-> -1]}
Types == [INT |-> <<>>, SHORT |-> <<"h">>, CHAR |-> <<"h", "h">>, LONG |-> <<"l">>,
          LONGLONG |-> <<"l", "l">>, INTMAX |-> <<"j">>, PTRDIFFT |-> <<"t">>, SIZET |-> <<"z">>]
CallPrintf(flags, w, p, type, conv, arg) ==
  Calling([fn |-> "printf", flags |-> flags, w |-> w.n, p |-> p.n, type |-> type,
           conv |-> conv, arg |-> arg,
           out |-> F!vprintf(<<"<", "%">> \o SetToSeq(flags) \o w.t \o p.t \o Types[type]
                               \o <<conv, ">", "%", "u">>,
                             w.args \o p.args \o <<arg, 7>>)])
CallFormat ==
  \/ \E flags \in SUBSET {"-", "+", " ", "#", "0", "'"}, w \in Widths, p \in Precisions :
       \/ \E conv \in {"d", "o", "x"}, arg \in {-9, 0, 8, 31} : CallPrintf(flags, w, p, "INT", conv, arg)
       \/ \E arg \in {<<>>, <<"k", "o", "k">>} : CallPrintf(flags, w, p, "INT", "s", arg)
  \/ \E type \in DOMAIN Types, conv \in {"d", "u", "o", "x", "X"}, v \in {-33, -5, -1, 0, 3, 6, 60, 130} :
       CallPrintf({}, [t |-> <<>>, args |-> <<>>, n |-> 0], [t |-> <<>>, args |-> <<>>, n |-> -1],
                  type, conv, v)

\* The value an output shows: spaces trimmed, sign, 0x, digits without commas.
Shown(out, base) ==
  LET s == SelectSeq(out, LAMBDA ch : ch \notin {" ", ",", "+"})
      neg == s # <<>> /\ s[1] = "-"
      t == IF neg THEN Tail(s) ELSE s
      u == IF Len(t) > 1 /\ t[2] \in {"x", "X"} THEN SubSeq(t, 3, Len(t)) ELSE t
      hex == <<"A", "B", "C", "D", "E", "F">>
      Digit(ch) == IF ch \in ToSet(hex) THEN 9 + SelectInSeq(hex, LAMBDA h : h = ch)
                   ELSE F!DigitValue(ch)
      abs == FoldLeft(LAMBDA x, ch : x * base + Digit(ch), 0, u)
  IN  IF neg THEN -abs ELSE abs
\* A conversion prints its own argument, and takes exactly the arguments that
\* are its own: read back, the output is the argument in the conversion's type;
\* it is at least as wide as the width, no wider than it needs to be, padded on
\* the side that the flags, or a negative * width, ask for; what follows the
\* conversion in the format is printed unharmed.  (The 0 flag with a negative *
\* width is padded on both sides: the flag is dropped before the width is read.)
PrintfRight ==
  made.fn = "printf" =>
    LET out   == made.out  n == Len(out)
        text  == SubSeq(out, 2, n - 2)
        width == IF made.w < 0 THEN -made.w ELSE made.w
        left  == "-" \in made.flags \/ made.w < 0
        base  == IF made.conv \in {"x", "X"} THEN 16 ELSE IF made.conv = "o" THEN 8 ELSE 10
        prec  == IF made.p > 4 THEN 4 ELSE made.p
        keep  == IF made.p >= 0 /\ made.p < Len(made.arg) THEN made.p ELSE Len(made.arg)
        spaces == [i \in 1 .. width - keep |-> " "]
        body  == SelectSeq(text, LAMBDA ch : ch # " ")
        num   == SelectSeq(body, LAMBDA ch : ch \notin {"+", "-"})
    IN  /\ out[1] = "<" /\ out[n - 1] = ">" /\ out[n] = "7"
        /\ made.conv = "s" => text = IF left THEN SubSeq(made.arg, 1, keep) \o spaces
                                     ELSE spaces \o SubSeq(made.arg, 1, keep)
        /\ made.conv # "s" =>
             /\ Shown(text, base) = IF made.conv = "d" THEN F!AsSigned(made.arg, made.type)
                                    ELSE F!AsUnsigned(made.arg, made.type)
             /\ Len(text) >= width /\ Len(num) >= prec
             /\ left => Len(text) <= 1 \/ text[1] # " " \/ " " \in made.flags \/ num = <<>>
             /\ ~left /\ num # <<>> => Last(text) # " "
             /\ Len(body) < Len(text) =>
                  \/ Len(text) = width \/ " " \in made.flags
                  \/ made.w < 0 /\ "0" \in made.flags /\ "-" \notin made.flags /\ made.p < 0

CallSnprintf ==
  \E n \in 0 .. MaxList, size \in 0 .. MaxList :
    Calling([fn |-> "snprintf", n |-> n, size |-> size,
             ret |-> F!vsnprintf([i \in 1 .. MaxList |-> "?"], size, [i \in 1 .. n |-> "t"])])
\* snprintf writes at most SIZE characters, the last of them the null byte, and
\* returns the length the whole text has.
SnprintfBounded ==
  made.fn = "snprintf" =>
    LET kept == IF made.n < made.size THEN made.n ELSE made.size - 1
    IN  /\ made.ret.ret = made.n
        /\ made.ret.buffer = [i \in 1 .. MaxList |->
             IF made.size = 0 \/ i > kept + 1 THEN "?" ELSE IF i = kept + 1 THEN "" ELSE "t"]

CallDump ==
  \E n \in 0 .. MaxMem + 2, ofs \in 0 .. 5, per_line \in 1 .. 4 :
    Calling([fn |-> "dump", n |-> n, ofs |-> ofs, per_line |-> per_line,
             ret |-> F!hex_dump(ofs, [i \in 1 .. n |-> i], per_line)])
\* hex_dump shows every byte once, in order, on the line and in the column of
\* its offset.
DumpCovers ==
  made.fn = "dump" =>
    /\ FlattenSeq([k \in DOMAIN made.ret |-> made.ret[k].bytes]) = [i \in 1 .. made.n |-> i]
    /\ \A k \in DOMAIN made.ret :
         LET line == made.ret[k]
         IN  /\ line.at % made.per_line = 0 /\ line.blank + Len(line.bytes) <= made.per_line
             /\ line.bytes # <<>> /\ line.at + line.blank = made.ofs + line.bytes[1] - 1
-----------------------------------------------------------------------------
\* Executables: one segment of many shapes, or two small ones.
Ph(type, offset, vaddr, filesz, memsz) ==
  [type |-> type, offset |-> offset, vaddr |-> vaddr, filesz |-> filesz, memsz |-> memsz,
   writable |-> vaddr % 4 < 2]
LoadCall(n, good, phdrs) ==
  LET file == [i \in 1 .. n |-> 10 + i]
  IN  Calling([fn |-> "load", file |-> file, good |-> good, phdrs |-> phdrs,
               ret |-> Ld!load(file, good, phdrs)])
CallLoad ==
  \/ \E n \in {0, 3, 5}, offset \in 0 .. 5, vaddr \in 0 .. 15, filesz \in 0 .. 4,
        memsz \in (0 .. 5) \cup (12 .. 15) :
       LoadCall(n, TRUE, <<Ph("LOAD", offset, vaddr, filesz, memsz)>>)
  \/ \E type \in {"LOAD", "NOTE", "INTERP", "CUT"}, good \in BOOLEAN, v1 \in 2 .. 3, m1 \in 1 .. 4,
        v2 \in 3 .. 9, f2 \in 0 .. 2, m2 \in 1 .. 3 :
       LoadCall(4, good, <<Ph("LOAD", v1 % 2, v1, 1, m1), Ph(type, v2 % 2, v2, f2, m2)>>)

PagesOf(ph) == {a \in 0 .. 30 : a % 2 = 0 /\ Ld!PageStart(ph.vaddr) <= a /\ a < ph.vaddr + ph.memsz}
StackPage == 10
\* load succeeds exactly if every segment lies in user memory above page 0 and
\* in the file, with no two in one page and none in the stack's, counted
\* without the wrap-around of 32 bits; then memory has the bytes of the file
\* where a segment has them, zeros in the rest of it, and nothing else is
\* mapped.
LoadedExact ==
  made.fn = "load" =>
    LET n == Len(made.file)
        segs == {i \in DOMAIN made.phdrs : made.phdrs[i].type = "LOAD"}
        ph(i) == made.phdrs[i]
        fits(s) == /\ s.offset % 2 = s.vaddr % 2 /\ s.offset <= n /\ s.filesz <= s.memsz /\ s.memsz > 0
                   /\ s.vaddr >= 2 /\ s.vaddr + s.memsz < 12
                   /\ s.filesz > 0 => s.offset + s.filesz <= n
        right == /\ made.good /\ \A i \in DOMAIN made.phdrs : ph(i).type \notin {"INTERP", "CUT"}
                 /\ \A i \in segs : fits(ph(i)) /\ StackPage \notin PagesOf(ph(i))
                 /\ \A i, j \in segs : i # j => PagesOf(ph(i)) \cap PagesOf(ph(j)) = {}
        mapped == UNION {PagesOf(ph(i)) : i \in segs} \cup {StackPage}
        img == made.ret
    IN  /\ img.ok = right
        /\ right =>
             /\ DOMAIN img.mem = UNION {a .. a + 1 : a \in mapped}
             /\ \A i \in segs : \A k \in 0 .. ph(i).memsz - 1 :
                  img.mem[ph(i).vaddr + k] =
                    IF k < ph(i).filesz THEN made.file[ph(i).offset + k + 1] ELSE 0
             /\ img.writable = {StackPage} \cup UNION {PagesOf(ph(i)) : i \in {i \in segs : ph(i).writable}}

\* Command lines of up to three words; the i-th word is of characters i.
CallArguments ==
  \E n \in 1 .. 3 : \E len \in [1 .. n -> 1 .. 3] :
    LET args == [i \in 1 .. n |-> [k \in 1 .. len[i] |-> i]]
    IN  Calling([fn |-> "arguments", args |-> args,
                 ret |-> Ld!PushArguments([a \in 0 .. 39 |-> 0], 40, args)])
\* A program's main finds its arguments: above the return address argc and
\* argv, argv[i] the i-th word, argv[argc] null.
ArgumentsRight ==
  made.fn = "arguments" =>
    LET mem == made.ret.mem  esp == made.ret.esp  n == Len(made.args)
        argv == mem[esp + 4]
    IN  /\ mem[esp + 2] = n /\ argv >= esp + 6
        /\ \A i \in 1 .. n : LET p == mem[argv + (i - 1) * 2]  word == made.args[i]
                             IN  /\ \A k \in 1 .. Len(word) : mem[p + k - 1] = word[k]
                                 /\ mem[p + Len(word)] = 0
        /\ mem[argv + n * 2] = 0
-----------------------------------------------------------------------------
\* Scancodes of presses and releases, with shift keys held.
CallKey ==
  \E held \in SUBSET {K!LeftShift, K!RightShift, K!LeftCtrl, K!RightAlt}, caps \in BOOLEAN,
     code \in (1 .. 89) \cup {K!RightAlt, K!RightCtrl, K!PREFIX + 28}, release \in {0, 128} :
    LET k == [held |-> held, caps |-> caps]
    IN  Calling([fn |-> "key", k |-> k, code |-> code, release |-> release = 128,
                 ret |-> K!keyboard_interrupt(k, code + release),
                 plain |-> K!keyboard_interrupt([held |-> {}, caps |-> FALSE], code).typed,
                 other |-> K!keyboard_interrupt([k EXCEPT !.caps = ~@], code + release).typed])
\* A key types at most one character, when pressed; a letter is a capital if
\* Shift or Caps Lock but not both are on; Caps Lock matters to letters only;
\* Ctrl makes a letter a control character whatever Shift says; Alt adds the
\* high bit.  Shift keys are held from press to release, and every printable
\* character can be typed.
KeysRight ==
  made.fn = "key" =>
    LET k == made.k  r == made.ret  c == CHOOSE c \in r.typed : TRUE
        u == CHOOSE u \in made.plain : TRUE
        letter == made.plain # {} /\ u \in 97 .. 122
        alt == IF K!Alt(k) THEN 128 ELSE 0
    IN  /\ Cardinality(r.typed) <= 1 /\ (made.release => r.typed = {})
        /\ (letter /\ ~made.release) =>
             c - alt = IF K!Ctrl(k) THEN u - 96 ELSE IF K!Shift(k) # k.caps THEN u - 32 ELSE u
        /\ ~letter => made.other = r.typed
        /\ r.reboot => made.plain = {127} /\ K!Ctrl(k) /\ K!Alt(k)
        /\ r.k.held = IF made.code \notin K!shift_keys THEN k.held
                      ELSE IF made.release THEN k.held \ {made.code} ELSE k.held \cup {made.code}
        /\ r.k.caps = (k.caps # (made.code = K!CAPS /\ ~made.release))
        /\ made.code = 1 => \A ch \in 32 .. 126 : \E code \in 1 .. 89, held \in SUBSET {K!LeftShift} :
             K!keyboard_interrupt([held |-> held, caps |-> FALSE], code).typed = {ch}
-----------------------------------------------------------------------------
Return == made # Idle /\ made' = Idle /\ UNCHANGED hvars
HashStep == made = Idle /\ H!Next /\ UNCHANGED made

Init == made = Idle /\ H!hash_init
Call == \/ CallList \/ CallSplice \/ CallSort \/ CallBitmap
        \/ CallMove \/ CallString \/ CallTokens \/ CallBounded
        \/ CallDivide \/ CallFixed \/ CallArray \/ CallAtoi
        \/ CallFormat \/ CallSnprintf \/ CallDump
        \/ CallLoad \/ CallArguments \/ CallKey
Next == (Untouched /\ Call) \/ Return \/ HashStep
Spec == Init /\ [][Next]_vars

\* hash.c: every element is in the bucket of its hash, once, and elem_cnt
\* counts them, also when rehash had no memory.
HashTableSound == H!TableSound

\* The calls of hash.c return what their comments say.
HashCallsAsDocumented == H!CallsAsDocumented
=============================================================================
