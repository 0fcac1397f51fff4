-------------------------------- MODULE Hash --------------------------------
(***************************************************************************)
(* The chained hash table of lib/kernel/hash.c.  A table is a record of    *)
(* elem_cnt, bucket_cnt and buckets; a bucket is the sequence of its       *)
(* elements (module List shows that lists behave as sequences).  Elements  *)
(* are records [key, tag]: less compares keys, tag tells equal elements    *)
(* apart.  The parameter mem says whether malloc succeeds.                 *)
(***************************************************************************)
EXTENDS Integers, Sequences, SequencesExt, Bitwise

CONSTANT HashOf(_)    \* the caller's hash function, on keys

None == [key |-> -1, tag |-> 0]    \* the null hash_elem

EmptyBuckets(n) == [b \in 0..(n - 1) |-> <<>>]
hash_clear(h) == [h EXCEPT !.buckets = EmptyBuckets(h.bucket_cnt), !.elem_cnt = 0]
hash_init(mem) ==
  IF mem THEN [elem_cnt |-> 0, bucket_cnt |-> 4, buckets |-> EmptyBuckets(4)]
  ELSE [elem_cnt |-> 0, bucket_cnt |-> 4, buckets |-> <<>>]

find_bucket(h, e) == HashOf(e.key) & (h.bucket_cnt - 1)

find_elem(h, b, e) ==
  LET i == SelectInSeq(h.buckets[b], LAMBDA x : ~(x.key < e.key) /\ ~(e.key < x.key))
  IN  IF i = 0 THEN None ELSE h.buckets[b][i]

insert_elem(h, b, e) ==
  [h EXCEPT !.elem_cnt = @ + 1, !.buckets[b] = <<e>> \o @]
\* list_remove() works on whichever list holds the element.
remove_elem(h, e) ==
  [h EXCEPT !.elem_cnt = @ - 1,
            !.buckets = [b \in DOMAIN @ |-> Remove(@[b], e)]]

turn_off_least_1bit(x) == IF x = 0 THEN 0 ELSE x & (x - 1)
is_power_of_2(x) == x # 0 /\ turn_off_least_1bit(x) = 0

MinBuckets == 4
BEST_ELEMS_PER_BUCKET == 2

RECURSIVE RoundToPower(_)
RoundToPower(n) ==
  IF is_power_of_2(n) THEN n ELSE RoundToPower(turn_off_least_1bit(n))
BestBucketCnt(cnt) ==
  LET n == cnt \div BEST_ELEMS_PER_BUCKET
  IN  RoundToPower(IF n < MinBuckets THEN MinBuckets ELSE n)

rehash_LosesLastBucket(h, mem) ==
  LET n == BestBucketCnt(h.elem_cnt)
      fresh == [h EXCEPT !.bucket_cnt = n, !.buckets = EmptyBuckets(n)]
      all == FlattenSeq([i \in 1..(h.bucket_cnt - 1) |-> h.buckets[i - 1]])
      Move(g, e) == [g EXCEPT !.buckets[find_bucket(g, e)] = <<e>> \o @]
  IN  IF n = h.bucket_cnt \/ ~mem THEN h ELSE FoldLeft(Move, fresh, all)

\* Moves the elements, bucket by bucket, to the front of their new buckets.
rehash(h, mem) ==
  LET n == BestBucketCnt(h.elem_cnt)
      fresh == [h EXCEPT !.bucket_cnt = n, !.buckets = EmptyBuckets(n)]
      all == FlattenSeq([i \in 1..h.bucket_cnt |-> h.buckets[i - 1]])
      Move(g, e) == [g EXCEPT !.buckets[find_bucket(g, e)] = <<e>> \o @]
  IN  IF n = h.bucket_cnt \/ ~mem THEN h ELSE FoldLeft(Move, fresh, all)

hash_insert(h, e, mem) ==
  LET b == find_bucket(h, e)
      old == find_elem(h, b, e)
  IN  [h |-> rehash(IF old = None THEN insert_elem(h, b, e) ELSE h, mem),
       ret |-> old]

hash_replace(h, e, mem) ==
  LET b == find_bucket(h, e)
      old == find_elem(h, b, e)
      g == IF old # None THEN remove_elem(h, old) ELSE h
  IN  [h |-> rehash(insert_elem(g, b, e), mem), ret |-> old]

hash_find(h, e) == find_elem(h, find_bucket(h, e), e)

\* The ASSERT of the missing element tests a string constant: it never fails.
hash_delete(h, e, mem) ==
  LET found == hash_find(h, e)
  IN  [h |-> IF found # None THEN rehash(remove_elem(h, found), mem) ELSE h,
       ret |-> found]

\* An iterator is the bucket and the position in it (0: the list head).
hash_first(h) == [bucket |-> 0, pos |-> 0]
RECURSIVE SkipEmpty(_, _)
SkipEmpty(h, it) ==
  IF it.pos <= Len(h.buckets[it.bucket]) \/ it.bucket + 1 >= h.bucket_cnt THEN it
  ELSE SkipEmpty(h, [bucket |-> it.bucket + 1, pos |-> 1])
hash_next(h, it) == SkipEmpty(h, [it EXCEPT !.pos = @ + 1])
hash_cur(h, it) ==
  IF it.pos > Len(h.buckets[it.bucket]) THEN None ELSE h.buckets[it.bucket][it.pos]
RECURSIVE IterateFrom(_, _)
IterateFrom(h, it) ==
  LET n == hash_next(h, it)
  IN  IF hash_cur(h, n) = None THEN <<>>
      ELSE <<hash_cur(h, n)>> \o IterateFrom(h, n)

\* hash_apply() and hash_clear() with a destructor visit in bucket order.
hash_apply(h) == FlattenSeq([i \in 1..h.bucket_cnt |-> h.buckets[i - 1]])
hash_size(h) == h.elem_cnt
hash_empty(h) == h.elem_cnt = 0
=============================================================================
