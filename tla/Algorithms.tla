----------------------------- MODULE Algorithms -----------------------------
(***************************************************************************)
(* The algorithms of the kernel's library on numbers and arrays.  The      *)
(* 64-bit division of lib/arithmetic.c, with W in place of 32 (a dividend  *)
(* and a divisor are 2W bits wide); the fixed-point numbers of             *)
(* threads/fixed-point.h, with P and Q in place of 16; and, of             *)
(* lib/stdlib.c, the heap sort behind sort and qsort, the binary search    *)
(* behind bsearch, and atoi.  C's / truncates towards zero.  An array is a *)
(* sequence, its elements compared as integers.                            *)
(***************************************************************************)
EXTENDS Integers, Sequences

CONSTANTS W,       \* bits of a word; a power of two
          P, Q,    \* FIX_P and FIX_Q; a fixed-point number has P + Q bits
          INT_BITS \* bits of the int atoi returns

\* C's quotient of two integers.
Quot(n, d) ==
  LET Abs(x) == IF x < 0 THEN -x ELSE x
      q      == Abs(n) \div Abs(d)
  IN  IF (n < 0) = (d < 0) THEN q ELSE -q

\* x as an unsigned and as a signed integer of w bits.
Unsigned(x, w) == x % 2 ^ w
Signed(x, w) ==
  LET u == Unsigned(x, w) IN IF u >= 2 ^ (w - 1) THEN u - 2 ^ w ELSE u

TRAP == -1    \* divl's divide error
divl(n, d) == IF d # 0 /\ n \div d < 2 ^ W THEN n \div d ELSE TRAP

\* The steps of nlz: shifts by W / 2, W / 4, ..., 1.
RECURSIVE CountZeros(_, _)
CountZeros(x, k) ==
  IF k = 0 THEN 0
  ELSE IF x <= 2 ^ (W - k) - 1 THEN k + CountZeros(Unsigned(x * 2 ^ k, W), k \div 2)
  ELSE CountZeros(x, k \div 2)
\* Mutant: the first step is left out.
nlz_half(x) == CountZeros(x, W \div 4)

nlz(x) == CountZeros(x, W \div 2)

udiv64(n, d) ==
  IF d < 2 ^ W
  THEN LET b  == 2 ^ W
           q0 == divl(b * ((n \div b) % d) + (n % b), d)
       IN  IF q0 = TRAP THEN TRAP ELSE q0 + b * ((n \div b) \div d)
  ELSE IF n < d THEN 0
  ELSE LET s == nlz(d \div 2 ^ W)
           t == divl(n \div 2, Unsigned(d * 2 ^ s, 2 * W) \div 2 ^ W)
           q == t \div 2 ^ (W - 1 - s)
       IN  IF t = TRAP THEN TRAP
           ELSE IF Unsigned(n - (q - 1) * d, 2 * W) < d
           THEN Unsigned(q - 1, 2 * W) ELSE q

\* The remainders have the type of half the width.
umod64(n, d) == Unsigned(n - d * udiv64(n, d), W)
sdiv64(n, d) ==
  LET n_abs == IF n >= 0 THEN n ELSE Unsigned(-n, 2 * W)
      d_abs == IF d >= 0 THEN d ELSE Unsigned(-d, 2 * W)
      q_abs == Signed(udiv64(n_abs, d_abs), 2 * W)
  IN  IF (n < 0) = (d < 0) THEN q_abs ELSE Signed(-q_abs, 2 * W)
smod64(n, d) == Signed(n - d * sdiv64(n, d), W)
-----------------------------------------------------------------------------
FIX_F       == 2 ^ Q
FIX_MAX_INT == 2 ^ P - 1

\* An int of P + Q bits; a long long is wide enough for every product.
AsInt(x) == Signed(x, P + Q)

fix_int(n)     == AsInt(n * FIX_F)
fix_frac(n, d) == AsInt(Quot(n * FIX_F, d))
fix_round(x)   == Quot(AsInt(x + FIX_F \div 2), FIX_F)
fix_trunc(x)   == Quot(x, FIX_F)
fix_add(x, y)  == AsInt(x + y)
fix_sub(x, y)  == AsInt(x - y)

fix_mul(x, y)  == AsInt(Quot(x * y, FIX_F))
fix_scale(x, n)   == AsInt(x * n)
fix_div(x, y)     == AsInt(Quot(x * FIX_F, y))
fix_unscale(x, n) == Quot(x, n)
fix_inv(x)        == fix_div(fix_int(1), x)
fix_compare(x, y) == IF x < y THEN -1 ELSE IF x > y THEN 1 ELSE 0
-----------------------------------------------------------------------------
compare(a, b) == IF a < b THEN -1 ELSE IF a > b THEN 1 ELSE 0

do_swap(array, a, b) == [array EXCEPT ![a] = array[b], ![b] = array[a]]

RECURSIVE heapify(_, _, _)
heapify(array, i, cnt) ==
  LET left  == 2 * i
      right == 2 * i + 1
      max1  == IF left <= cnt /\ compare(array[left], array[i]) > 0 THEN left ELSE i
      max   == IF right <= cnt /\ compare(array[right], array[max1]) > 0 THEN right ELSE max1
  IN  IF max = i THEN array ELSE heapify(do_swap(array, i, max), max, cnt)

RECURSIVE BuildHeap(_, _)
BuildHeap(array, i) ==
  IF i = 0 THEN array ELSE BuildHeap(heapify(array, i, Len(array)), i - 1)
RECURSIVE SortHeap(_, _)
SortHeap(array, i) ==
  IF i <= 1 THEN array ELSE SortHeap(heapify(do_swap(array, 1, i), 1, i - 1), i - 1)

sort(array) == SortHeap(BuildHeap(array, Len(array) \div 2), Len(array))

\* The index of a match between first and last (exclusive), 0 for none.
RECURSIVE SearchRange(_, _, _, _)
SearchRange(key, array, first, last) ==
  LET middle == first + (last - first) \div 2
      cmp    == compare(key, array[middle])
  IN  IF first >= last THEN 0
      ELSE IF cmp < 0 THEN SearchRange(key, array, first, middle)
      ELSE IF cmp > 0 THEN SearchRange(key, array, middle + 1, last)
      ELSE middle
binary_search(key, array) == SearchRange(key, array, 1, Len(array) + 1)

\* A character is <<" ">> for any white space, <<"+">>, <<"-">>, <<"x">> for
\* any other one that is no digit, or <<"digit", n>>.  An int wraps.
Wrap(x) == Signed(x, INT_BITS)

RECURSIVE SkipSpace(_)
SkipSpace(s) == IF s # <<>> /\ s[1] = <<" ">> THEN SkipSpace(Tail(s)) ELSE s
RECURSIVE Digits(_, _)
Digits(s, value) ==
  IF s = <<>> \/ Len(s[1]) # 2 THEN value
  ELSE Digits(Tail(s), Wrap(value * 10 - s[1][2]))
atoi(str) ==
  LET s        == SkipSpace(str)
      signed   == s # <<>> /\ s[1] \in {<<"+">>, <<"-">>}
      negative == s # <<>> /\ s[1] = <<"-">>
      value    == Digits(IF signed THEN Tail(s) ELSE s, 0)
  IN  IF negative THEN value ELSE Wrap(-value)
=============================================================================
