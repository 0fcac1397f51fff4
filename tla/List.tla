-------------------------------- MODULE List --------------------------------
(***************************************************************************)
(* The doubly linked lists of lib/kernel/list.c as the pointers they are:  *)
(* a memory p is a record of two functions, p.prev and p.next, over the    *)
(* list nodes.  Every operation maps a memory to a memory (and, where the  *)
(* code returns a node, to that node).  A failed ASSERT stops TLC.         *)
(***************************************************************************)
EXTENDS Integers, Sequences, SequencesExt

CONSTANT Value    \* the value of each element, by its number

\* Nodes are pairs so that TLC can compare them: two lists, and elements.
NULL == <<"null", 0>>
list_head(l) == <<"head", l>>
list_end(l) == <<"tail", l>>
Elem(i) == <<"elem", i>>

ASSERT(cond, value) == IF Assert(cond, "ASSERT failed") THEN value ELSE value

is_head(p, e) == e # NULL /\ p.prev[e] = NULL /\ p.next[e] # NULL
is_interior(p, e) == e # NULL /\ p.prev[e] # NULL /\ p.next[e] # NULL
is_tail(p, e) == e # NULL /\ p.prev[e] # NULL /\ p.next[e] = NULL

\* Writes the pointers [field, node, value] one after the other, as the
\* statements of the code do.
Store(p, writes) ==
  FoldLeft(LAMBDA q, w : [q EXCEPT ![w[1]][w[2]] = w[3]], p, writes)

list_init(p, l) ==
  Store(p, << <<"prev", list_head(l), NULL>>,
              <<"next", list_head(l), list_end(l)>>,
              <<"prev", list_end(l), list_head(l)>>,
              <<"next", list_end(l), NULL>> >>)

list_begin(p, l) == p.next[list_head(l)]
list_rbegin(p, l) == p.prev[list_end(l)]
list_next(p, e) == ASSERT(is_head(p, e) \/ is_interior(p, e), p.next[e])
list_prev(p, e) == ASSERT(is_interior(p, e) \/ is_tail(p, e), p.prev[e])
list_empty(p, l) == list_begin(p, l) = list_end(l)
list_front(p, l) == ASSERT(~list_empty(p, l), list_begin(p, l))
list_back(p, l) == ASSERT(~list_empty(p, l), list_rbegin(p, l))

list_insert(p, before, e) ==
  LET b == p.prev[before]
  IN  ASSERT((is_interior(p, before) \/ is_tail(p, before)) /\ e # NULL,
             Store(p, << <<"prev", e, b>>, <<"next", e, before>>,
                         <<"next", b, e>>, <<"prev", before, e>> >>))

list_splice(p, before, first, last0) ==
  LET last == list_prev(p, last0)
      q == Store(p, << <<"next", p.prev[first], p.next[last]>>,
                       <<"prev", p.next[last], p.prev[first]>> >>)
      b == q.prev[before]
  IN  ASSERT(is_interior(p, before) \/ is_tail(p, before),
        IF first = last0 THEN p
        ELSE ASSERT(is_interior(p, first) /\ is_interior(p, last),
               Store(q, << <<"prev", first, b>>, <<"next", last, before>>,
                           <<"next", b, first>>, <<"prev", before, last>> >>)))

list_push_front(p, l, e) == list_insert(p, list_begin(p, l), e)
list_push_back(p, l, e) == list_insert(p, list_end(l), e)

list_remove(p, e) ==
  ASSERT(is_interior(p, e), Store(p, << <<"next", p.prev[e], p.next[e]>>,
                                        <<"prev", p.next[e], p.prev[e]>> >>))
list_pop_front(p, l) == list_remove(p, list_front(p, l))
list_pop_back(p, l) == list_remove(p, list_back(p, l))

RECURSIVE SizeFrom(_, _, _)
SizeFrom(p, l, e) ==
  IF e = list_end(l) THEN 0 ELSE 1 + SizeFrom(p, l, list_next(p, e))
list_size(p, l) == SizeFrom(p, l, list_begin(p, l))

\* Exchanges the pointers in fields f of a and g of b.
swap(p, f, a, g, b) == Store(p, << <<f, a, p[g][b]>>, <<g, b, p[f][a]>> >>)

RECURSIVE SwapEach(_, _, _)
SwapEach(p, l, e) ==
  IF e = list_end(l) THEN p
  ELSE LET q == swap(p, "prev", e, "next", e) IN SwapEach(q, l, q.prev[e])
list_reverse(p, l) ==
  LET q == SwapEach(p, l, list_begin(p, l))
      r == swap(q, "next", list_head(l), "prev", list_end(l))
  IN  IF list_empty(p, l) THEN p
      ELSE swap(r, "prev", list_begin(r, l), "next", list_rbegin(r, l))
-----------------------------------------------------------------------------
\* The caller's comparison: by value, so that distinct elements may be equal.
less(a, b) == Value[a[2]] < Value[b[2]]

RECURSIVE find_end_of_run(_, _, _)
find_end_of_run(p, a, b) ==
  LET n == list_next(p, a)
  IN  IF n # b /\ ~less(n, list_prev(p, n))
      THEN find_end_of_run(p, n, b) ELSE n

is_sorted(p, a, b) == a = b \/ find_end_of_run(p, a, b) = b

RECURSIVE MergeLoop(_, _, _, _)
MergeLoop(p, a0, a1b0, b1) ==
  IF a0 = a1b0 \/ a1b0 = b1 THEN p
  ELSE IF ~less(a1b0, a0) THEN MergeLoop(p, list_next(p, a0), a1b0, b1)
  ELSE LET n == list_next(p, a1b0)
       IN  MergeLoop(list_splice(p, a0, list_prev(p, n), n), a0, n, b1)
inplace_merge(p, a0, a1b0, b1) ==
  ASSERT(is_sorted(p, a0, a1b0) /\ is_sorted(p, a1b0, b1),
         MergeLoop(p, a0, a1b0, b1))

\* One pass merges adjacent runs, the passes end when one run is left.
RECURSIVE SortPass(_, _, _, _)
SortPass(p, l, a0, runs) ==
  IF a0 = list_end(l) THEN [p |-> p, runs |-> runs]
  ELSE LET a1b0 == find_end_of_run(p, a0, list_end(l))
           b1 == find_end_of_run(p, a1b0, list_end(l))
       IN  IF a1b0 = list_end(l) THEN [p |-> p, runs |-> runs + 1]
           ELSE SortPass(inplace_merge(p, a0, a1b0, b1),
                         l, b1, runs + 1)

RECURSIVE list_sort(_, _)
list_sort(p, l) ==
  LET pass == SortPass(p, l, list_begin(p, l), 0)
  IN  IF pass.runs > 1 THEN list_sort(pass.p, l)
      ELSE ASSERT(is_sorted(pass.p, list_begin(pass.p, l), list_end(l)),
                  pass.p)

RECURSIVE PlaceFrom(_, _, _, _)
PlaceFrom(p, l, e, elem) ==
  IF e = list_end(l) \/ less(elem, e) THEN e
  ELSE PlaceFrom(p, l, list_next(p, e), elem)
list_insert_ordered(p, l, elem) ==
  list_insert(p, PlaceFrom(p, l, list_begin(p, l), elem), elem)

RECURSIVE UniqueFrom(_, _, _, _)
UniqueFrom(p, l, elem, dup) ==
  LET next == list_next(p, elem)
  IN  IF next = list_end(l) THEN p
      ELSE IF ~less(elem, next) /\ ~less(next, elem)
           THEN UniqueFrom(list_push_back(list_remove(p, next), dup, next),
                           l, elem, dup)
           ELSE UniqueFrom(p, l, next, dup)
list_unique(p, l, dup) ==
  IF list_empty(p, l) THEN p ELSE UniqueFrom(p, l, list_begin(p, l), dup)

RECURSIVE MaxFrom(_, _, _, _)
MaxFrom(p, l, best, e) ==
  IF e = list_end(l) THEN best
  ELSE MaxFrom(p, l, IF less(best, e) THEN e ELSE best, list_next(p, e))
list_max(p, l) ==
  LET b == list_begin(p, l)
  IN  IF b = list_end(l) THEN b ELSE MaxFrom(p, l, b, list_next(p, b))

RECURSIVE MinFrom(_, _, _, _)
MinFrom(p, l, best, e) ==
  IF e = list_end(l) THEN best
  ELSE MinFrom(p, l, IF less(e, best) THEN e ELSE best, list_next(p, e))
list_min(p, l) ==
  LET b == list_begin(p, l)
  IN  IF b = list_end(l) THEN b ELSE MinFrom(p, l, b, list_next(p, b))
=============================================================================
