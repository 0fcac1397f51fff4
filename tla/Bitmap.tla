------------------------------- MODULE Bitmap -------------------------------
(***************************************************************************)
(* lib/kernel/bitmap.c on its words: b.bits is a sequence of elements of   *)
(* ELEM_BITS bits.  A failed ASSERT has no value in the model; callers     *)
(* stay inside the ranges it checks.                                       *)
(***************************************************************************)
EXTENDS Integers, Sequences, SequencesExt, FiniteSetsExt, Bitwise

ELEM_BITS == 3          \* 32
ElemMax == 2 ^ ELEM_BITS - 1
BITMAP_ERROR == -1

elem_idx(bit_idx) == bit_idx \div ELEM_BITS + 1
bit_mask(bit_idx) == 2 ^ (bit_idx % ELEM_BITS)
elem_cnt(bit_cnt) == (bit_cnt + ELEM_BITS - 1) \div ELEM_BITS
last_mask(b) ==
  IF b.bit_cnt % ELEM_BITS = 0 THEN ElemMax ELSE 2 ^ (b.bit_cnt % ELEM_BITS) - 1

bitmap_mark(b, idx) == [b EXCEPT !.bits[elem_idx(idx)] = @ | bit_mask(idx)]
bitmap_reset(b, idx) == [b EXCEPT !.bits[elem_idx(idx)] = @ & (ElemMax - bit_mask(idx))]
bitmap_flip(b, idx) == [b EXCEPT !.bits[elem_idx(idx)] = @ ^^ bit_mask(idx)]
bitmap_set(b, idx, value) == IF value THEN bitmap_mark(b, idx) ELSE bitmap_reset(b, idx)
bitmap_test(b, idx) == (b.bits[elem_idx(idx)] & bit_mask(idx)) # 0

bitmap_set_multiple(b, start, cnt, value) ==
  FoldLeft(LAMBDA c, i : bitmap_set(c, i, value), b, [k \in 1..cnt |-> start + k - 1])
bitmap_set_all(b, value) == bitmap_set_multiple(b, 0, b.bit_cnt, value)

\* malloc() leaves any words in the elements; junk is one of them.
bitmap_create(bit_cnt, junk) ==
  bitmap_set_all([bit_cnt |-> bit_cnt, bits |-> [k \in 1..elem_cnt(bit_cnt) |-> junk]], FALSE)

bitmap_count(b, start, cnt, value) ==
  FoldLeft(LAMBDA n, i : IF bitmap_test(b, i) = value THEN n + 1 ELSE n, 0,
           [k \in 1..cnt |-> start + k - 1])
bitmap_contains(b, start, cnt, value) ==
  \E i \in start..(start + cnt - 1) : bitmap_test(b, i) = value
bitmap_all(b, start, cnt) == ~bitmap_contains(b, start, cnt, FALSE)

bitmap_scan(b, start, cnt, value) ==
  LET hits == {i \in start..(b.bit_cnt - cnt) : ~bitmap_contains(b, i, cnt, ~value)}
  IN  IF cnt <= b.bit_cnt /\ hits # {} THEN Min(hits) ELSE BITMAP_ERROR
bitmap_scan_and_flip(b, start, cnt, value) ==
  LET idx == bitmap_scan(b, start, cnt, value)
  IN  [idx |-> idx,
       b |-> IF idx = BITMAP_ERROR THEN b ELSE bitmap_set_multiple(b, idx, cnt, ~value)]

\* A file of elements; the bits of the last one past bit_cnt are masked.
bitmap_write(b) == b.bits
bitmap_read(b, file) ==
  LET last == elem_cnt(b.bit_cnt)
  IN  IF b.bit_cnt = 0 THEN b
      ELSE [b EXCEPT !.bits = [file EXCEPT ![last] = @ & last_mask(b)]]
=============================================================================
