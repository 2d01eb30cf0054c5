------------------------------- MODULE Bitmap -------------------------------
(***************************************************************************)
(* lib/kernel/bitmap.c.  A bitmap b is its number of bits, b.bit_cnt, and  *)
(* the array b.bits of elements, each ELEM_BITS bits wide; bit 0 of        *)
(* element k is bit k * ELEM_BITS of the map.  b.ok is FALSE once an       *)
(* ASSERT has failed.  The functions that change b return the new one.     *)
(***************************************************************************)
EXTENDS Integers, Sequences, FiniteSetsExt

CONSTANT ELEM_BITS    \* bits of an elem_type, 32 in the kernel

BITMAP_ERROR == -1    \* SIZE_MAX

elem_idx(bit_idx) == bit_idx \div ELEM_BITS
bit_mask(bit_idx) == 2 ^ (bit_idx % ELEM_BITS)
elem_cnt(bit_cnt) == (bit_cnt + ELEM_BITS - 1) \div ELEM_BITS

last_mask(b) ==
  LET last_bits == b.bit_cnt % ELEM_BITS
  IN  IF last_bits # 0 THEN 2 ^ last_bits - 1 ELSE 2 ^ ELEM_BITS - 1

\* The bit of element word that mask selects.
BitOf(word, mask) == (word \div mask) % 2

bitmap_test(b, idx) == BitOf(b.bits[elem_idx(idx)], bit_mask(idx)) # 0

\* orl, andl and xorl with a mask of one bit.
bitmap_mark(b, idx) ==
  [b EXCEPT !.bits[elem_idx(idx)] = @ + (1 - BitOf(@, bit_mask(idx))) * bit_mask(idx)]
bitmap_reset(b, idx) ==
  [b EXCEPT !.bits[elem_idx(idx)] = @ - BitOf(@, bit_mask(idx)) * bit_mask(idx)]
bitmap_flip(b, idx) ==
  IF bitmap_test(b, idx) THEN bitmap_reset(b, idx) ELSE bitmap_mark(b, idx)
bitmap_set(b, idx, value) ==
  LET a == [b EXCEPT !.ok = @ /\ idx < b.bit_cnt]
  IN  IF value THEN bitmap_mark(a, idx) ELSE bitmap_reset(a, idx)

\* The ASSERTs of the functions on CNT bits from START.
InRange(b, start, cnt) == start <= b.bit_cnt /\ start + cnt <= b.bit_cnt

RECURSIVE SetLoop(_, _, _, _, _)
SetLoop(b, start, cnt, value, i) ==
  IF i = cnt THEN b ELSE SetLoop(bitmap_set(b, start + i, value), start, cnt, value, i + 1)
bitmap_set_multiple(b, start, cnt, value) ==
  SetLoop([b EXCEPT !.ok = @ /\ InRange(b, start, cnt)], start, cnt, value, 0)
bitmap_set_all(b, value) == bitmap_set_multiple(b, 0, b.bit_cnt, value)

\* bitmap_create and bitmap_create_in_buf, over storage holding junk.
bitmap_create(bit_cnt, junk) ==
  bitmap_set_all([bit_cnt |-> bit_cnt, ok |-> TRUE,
                  bits |-> [k \in 0 .. elem_cnt(bit_cnt) - 1 |-> junk]], FALSE)

RECURSIVE CountLoop(_, _, _, _, _)
CountLoop(b, start, cnt, value, i) ==
  IF i = cnt THEN 0
  ELSE (IF bitmap_test(b, start + i) = value THEN 1 ELSE 0)
       + CountLoop(b, start, cnt, value, i + 1)
bitmap_count(b, start, cnt, value) == CountLoop(b, start, cnt, value, 0)

bitmap_contains(b, start, cnt, value) ==
  \E i \in 0 .. cnt - 1 : bitmap_test(b, start + i) = value
bitmap_any(b, start, cnt)  == bitmap_contains(b, start, cnt, TRUE)
bitmap_none(b, start, cnt) == ~bitmap_contains(b, start, cnt, TRUE)
bitmap_all(b, start, cnt)  == ~bitmap_contains(b, start, cnt, FALSE)

RECURSIVE ScanLoop(_, _, _, _)
ScanLoop(b, i, cnt, value) ==
  IF i > b.bit_cnt - cnt THEN BITMAP_ERROR
  ELSE IF ~bitmap_contains(b, i, cnt, ~value) THEN i
  ELSE ScanLoop(b, i + 1, cnt, value)
bitmap_scan(b, start, cnt, value) ==
  IF cnt <= b.bit_cnt THEN ScanLoop(b, start, cnt, value) ELSE BITMAP_ERROR

\* The index found and the map left.
bitmap_scan_and_flip(b, start, cnt, value) ==
  LET idx == bitmap_scan(b, start, cnt, value)
  IN  [idx |-> idx,
       b |-> IF idx # BITMAP_ERROR THEN bitmap_set_multiple(b, idx, cnt, ~value) ELSE b]

\* bitmap_write stores the elements; bitmap_read masks the last one it reads.
bitmap_write(b) == b.bits
bitmap_read(b, file) ==
  LET last == elem_cnt(b.bit_cnt) - 1
  IN  IF b.bit_cnt = 0 THEN b
      ELSE [b EXCEPT !.bits = [file EXCEPT ![last] = @ % (last_mask(b) + 1)]]
=============================================================================
