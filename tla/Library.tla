------------------------------ MODULE Library -------------------------------
(***************************************************************************)
(* The kernel's sequential code, called with every input of a bounded set: *)
(* lists, hash tables, bitmaps, strings, printf, the algorithms of         *)
(* stdlib.c and arithmetic.c, the loader of executables and the command    *)
(* line.  A call is a state that records the function family and its       *)
(* arguments; the properties compare what the code computes from them with *)
(* a definition of what it should compute.                                 *)
(***************************************************************************)
EXTENDS List, Hash, Bitmap, Stdlib, Format, Loader, UserStack, Boot, Terminal, FsUtil, TLC

CONSTANTS
  MaxElems,      \* elements in the two lists
  MaxKeys,       \* keys inserted into a hash table
  MaxBits,       \* size of a bitmap
  MaxArray,      \* length of an array to sort
  MaxCommand,    \* characters of a command line
  MaxTyped,      \* characters written to the screen
  StringTop      \* the last address of the memory of the string functions

VARIABLE call

\* One family of functions is called in a behaviour, again and again.
Families == {"list", "hash", "bitmap", "string", "divide", "sort", "atoi", "random",
             "calibrate", "format", "dump", "load", "exec", "boot", "args", "screen",
             "keys", "fsutil"}
Idle(fn) == [fn |-> "idle", next |-> fn]
Init == call \in {Idle(fn) : fn \in Families}
Return == call.fn # "idle" /\ call' = Idle(call.fn)
-----------------------------------------------------------------------------
(* Lists.                                                                  *)

Nodes == {NULL} \cup {list_head(l) : l \in 0..1} \cup {list_end(l) : l \in 0..1}
         \cup {Elem(i) : i \in 1..MaxElems}
Wild == [prev |-> [n \in Nodes |-> NULL], next |-> [n \in Nodes |-> NULL]]
Distinct(s) == \A i, j \in DOMAIN s : s[i] = s[j] => i = j
Arrangements == {s \in SeqOf(1..MaxElems, MaxElems) : Distinct(s)}

\* List 0 holds the elements s, list 1 the elements t.
Lists(s, t) ==
  LET p == list_init(list_init(Wild, 0), 1)
      q == FoldLeft(LAMBDA m, i : list_push_back(m, 0, Elem(i)), p, s)
  IN  FoldLeft(LAMBDA m, i : list_push_front(m, 1, Elem(i)), q, Reverse(t))

CallList ==
  /\ call = Idle("list")
  /\ \E s, t \in Arrangements :
       Distinct(s \o t) /\ call' = [fn |-> "list", s |-> s, t |-> t]

RECURSIVE Walk(_, _, _, _)
Walk(p, field, e, fuel) ==
  IF e[1] # "elem" \/ fuel = 0 THEN <<>>
  ELSE <<e[2]>> \o Walk(p, field, p[field][e], fuel - 1)
\* Memory p holds the list l with exactly the elements s, both ways round.
Holds(p, l, s) ==
  /\ Walk(p, "next", list_begin(p, l), MaxElems + 1) = s
  /\ Walk(p, "prev", list_rbegin(p, l), MaxElems + 1) = Reverse(s)
  /\ p.prev[list_head(l)] = NULL /\ p.next[list_end(l)] = NULL
  /\ list_size(p, l) = Len(s)

Part(s, i, j) == SubSeq(s, i, j - 1)     \* the elements i..j-1
NodeAt(s, l, i) == IF i > Len(s) THEN list_end(l) ELSE Elem(s[i])
Before2(s, a, b) == SelectInSeq(s, LAMBDA x : x = a) < SelectInSeq(s, LAMBDA x : x = b)
\* r has the elements of s, by value, equal ones in the order they had in s.
StableSort(r, s) ==
  /\ Len(r) = Len(s) /\ ToSet(r) = ToSet(s)
  /\ \A i, j \in DOMAIN r : i < j =>
       Value[r[i]] < Value[r[j]] \/ (Value[r[i]] = Value[r[j]] /\ Before2(s, r[i], r[j]))
IsRepeat(s, i) == i > 1 /\ Value[s[i]] = Value[s[i - 1]]
Keep(s, Test(_)) == LET S == {i \in DOMAIN s : Test(i)}
                    IN  [k \in 1..Cardinality(S) |->
                           s[CHOOSE i \in S : Cardinality({j \in S : j <= i}) = k]]

\* What every operation does to the two lists, read as sequences.
ListStep(s, t) ==
  LET p == Lists(s, t)
      sorted == Walk(list_sort(p, 0), "next", list_begin(list_sort(p, 0), 0), MaxElems)
      q == list_unique(p, 0, 1)
      rev == list_reverse(p, 0)
      free == (1..MaxElems) \ ToSet(s \o t)
  IN  /\ Holds(p, 0, s) /\ Holds(p, 1, t)
      /\ Holds(rev, 0, Reverse(s)) /\ Holds(rev, 1, t)
      /\ StableSort(sorted, s) /\ Holds(list_sort(p, 0), 0, sorted)
      /\ Holds(q, 0, Keep(s, LAMBDA i : ~IsRepeat(s, i)))
      /\ Holds(q, 1, t \o Keep(s, LAMBDA i : IsRepeat(s, i)))
      /\ \A i \in 1..(Len(t) + 1) : \A j \in i..(Len(t) + 1) : \A k \in 1..(Len(s) + 1) :
           LET r == list_splice(p, NodeAt(s, 0, k), NodeAt(t, 1, i), NodeAt(t, 1, j))
           IN  /\ Holds(r, 0, Part(s, 1, k) \o Part(t, i, j) \o Part(s, k, Len(s) + 1))
               /\ Holds(r, 1, Part(t, 1, i) \o Part(t, j, Len(t) + 1))
      /\ \A i \in DOMAIN s : Holds(list_remove(p, Elem(s[i])), 0,
                                   Part(s, 1, i) \o Part(s, i + 1, Len(s) + 1))
      /\ \A e \in free : sorted = s =>
           \E k \in 0..Len(s) :
             /\ Holds(list_insert_ordered(p, 0, Elem(e)), 0,
                      Part(s, 1, k + 1) \o <<e>> \o Part(s, k + 1, Len(s) + 1))
             /\ \A i \in DOMAIN s : Value[s[i]] <= Value[e] <=> i <= k
      /\ s # <<>> =>
           /\ Holds(list_pop_front(p, 0), 0, Tail(s))
           /\ Holds(list_pop_back(p, 0), 0, Front(s))
           /\ \E i \in DOMAIN s : /\ list_max(p, 0) = Elem(s[i])
                                  /\ \A j \in DOMAIN s : Value[s[j]] <= Value[s[i]]
                                  /\ \A j \in 1..(i - 1) : Value[s[j]] < Value[s[i]]
           /\ \E i \in DOMAIN s : /\ list_min(p, 0) = Elem(s[i])
                                  /\ \A j \in DOMAIN s : Value[s[j]] >= Value[s[i]]
                                  /\ \A j \in 1..(i - 1) : Value[s[j]] > Value[s[i]]

\* The pointer code of list.c is the algebra of sequences: after any insertion,
\* removal, splice, reversal, sort, ordered insertion, unique or extremum, both
\* lists hold exactly the elements a sequence would, forwards and backwards.
ListsAreSequences == call.fn = "list" => ListStep(call.s, call.t)
-----------------------------------------------------------------------------
(* Hash tables: a table grows by n insertions and shrinks by d deletions,  *)
(* malloc failing throughout or never.                                     *)

Entry(k) == [key |-> k, tag |-> 1]

CallHash ==
  /\ call = Idle("hash")
  /\ call' \in [fn : {"hash"}, h : {hash_init(TRUE)}, n : {0}, d : {0}, mem : BOOLEAN]

Grow ==
  /\ call.fn = "hash" /\ call.d = 0 /\ call.n < MaxKeys
  /\ call' = [call EXCEPT !.n = @ + 1, !.h = hash_insert(@, Entry(call.n + 1), call.mem).h]

Shrink ==
  /\ call.fn = "hash" /\ call.d < call.n
  /\ call' = [call EXCEPT !.d = @ + 1, !.h = hash_delete(@, Entry(call.d + 1), call.mem).h]

\* The table is exactly the set S of elements, whichever way it is asked.
Represents(h, S) ==
  /\ hash_size(h) = Cardinality(S)
  /\ is_power_of_2(h.bucket_cnt)
  /\ \A e \in S : hash_find(h, e) = e
  /\ \A k \in 0..(MaxKeys + 1) : (\A e \in S : e.key # k) => hash_find(h, Entry(k)) = None
  /\ LET seen == IterateFrom(h, hash_first(h))
     IN  ToSet(seen) = S /\ Len(seen) = Cardinality(S) /\ seen = hash_apply(h)

\* One more operation, for which there is memory or not.
HashStep(h, n, d, mem) ==
  LET S == {Entry(k) : k \in (d + 1)..n}
      Old(k) == IF k \in (d + 1)..n THEN Entry(k) ELSE None
  IN  /\ Represents(h, S)
      /\ mem => h.elem_cnt < 4 * h.bucket_cnt
      /\ \A k \in {d, d + 1, n, n + 1} \ {0}, late \in BOOLEAN :
           LET new == [key |-> k, tag |-> 2]
               i == hash_insert(h, new, late)
               r == hash_replace(h, new, late)
               x == hash_delete(h, new, late)
           IN  /\ i.ret = Old(k) /\ Represents(i.h, IF Old(k) = None THEN S \cup {new} ELSE S)
               /\ r.ret = Old(k) /\ Represents(r.h, (S \ {Old(k)}) \cup {new})
               /\ x.ret = Old(k) /\ Represents(x.h, S \ {Old(k)})

\* hash.c is a set of elements under the caller's equality: through growth and
\* shrinking, and when malloc fails in a rehash, every element is found, is
\* visited once by the iterator, and nothing that was removed is.
HashIsSet == call.fn = "hash" => HashStep(call.h, call.n, call.d, call.mem)
-----------------------------------------------------------------------------
(* Bitmaps: a bitmap of n bits, those in S set.                            *)

CallBitmap ==
  /\ call = Idle("bitmap")
  /\ \E n \in 0..MaxBits :
       call' \in [fn : {"bitmap"}, n : {n}, S : SUBSET (0..(n - 1)), junk : {0, ElemMax}]

BitsOf(b) == {i \in 0..(b.bit_cnt - 1) : bitmap_test(b, i)}

BitmapStep(n, S, junk) ==
  LET empty == bitmap_create(n, junk)
      b == FoldLeft(LAMBDA c, i : bitmap_mark(c, i), empty, SetToSeq(S))
      Groups(start, cnt, value) ==
        {i \in start..(n - cnt) : \A j \in i..(i + cnt - 1) : (j \in S) = value}
  IN  /\ BitsOf(empty) = {} /\ BitsOf(b) = S
      /\ BitsOf(bitmap_read(bitmap_create(n, ElemMax - junk), bitmap_write(b))) = S
      /\ \A i \in 0..(n - 1) : BitsOf(bitmap_flip(b, i)) = (S \ {i}) \cup ({i} \ S)
      /\ \A start \in 0..n : \A cnt \in 0..(n - start) : \A value \in BOOLEAN :
           LET f == bitmap_scan_and_flip(b, start, cnt, value)
               group == f.idx..(f.idx + cnt - 1)
               groups == Groups(start, cnt, value)
           IN  /\ bitmap_count(b, start, cnt, value)
                    = Cardinality({i \in start..(start + cnt - 1) : (i \in S) = value})
               /\ bitmap_all(b, start, cnt) <=> start..(start + cnt - 1) \subseteq S
               /\ cnt > 0 => f.idx = IF groups = {} THEN BITMAP_ERROR ELSE Min(groups)
               /\ BitsOf(f.b) = IF groups = {} THEN S
                                ELSE IF value THEN S \ group ELSE S \cup group

\* bitmap.c's words are a set of bit numbers whatever its size: the first free
\* group of at least one bit is found and exactly it is flipped, across words
\* too, and a bitmap written to a file and read back is the same set.
BitmapsAreSets == call.fn = "bitmap" => BitmapStep(call.n, call.S, call.junk)
-----------------------------------------------------------------------------
(* Strings: a memory whose last byte is zero.                              *)

Memories == {m \in [0..StringTop -> 0..2] : m[StringTop] = 0}
CallString ==
  /\ call = Idle("string")
  /\ call' \in [fn : {"string"}, m : Memories]

Text(m, p) == [k \in 1..strlen(m, p) |-> m[p + k - 1]]
\* The maximal runs of characters outside delims, in order.
RECURSIVE Runs(_, _)
Runs(s, delims) ==
  LET i == SelectInSeq(s, LAMBDA c : c \notin delims)
      rest == SubSeq(s, i, Len(s))
      n == SelectInSeq(rest, LAMBDA c : c \in delims)
  IN  IF i = 0 THEN <<>> ELSE IF n = 0 THEN <<rest>>
      ELSE <<SubSeq(rest, 1, n - 1)>> \o Runs(SubSeq(rest, n, Len(rest)), delims)
\* The tokens strtok_r() returns call after call.
RECURSIVE Tokens(_, _, _, _)
Tokens(m, s, delims, save) ==
  LET r == strtok_r(m, s, delims, save)
  IN  IF r.ret = NoPtr THEN <<>>
      ELSE <<Text(r.m, r.ret)>> \o Tokens(r.m, NoPtr, delims, r.save)

StringStep(m) ==
  LET room(a, b) == 0..(StringTop + 1 - Max({a, b}))
      half == (StringTop + 1) \div 2
      ends == m[half - 1] = 0 /\ m[0] # 0
  IN  /\ \A dst, src \in 0..StringTop : \A n \in room(dst, src) :
           LET r == memmove(m, dst, src, n)
           IN  r.m = [a \in 0..StringTop |->
                        IF a \in dst..(dst + n - 1) THEN m[src + a - dst] ELSE m[a]]
      /\ \A delims \in {{1}, {2}, {1, 2}} :
           Tokens(m, 0, delims, NoPtr) = Runs(Text(m, 0), delims)
      /\ \A p \in 0..StringTop :
           LET hits == {i \in 0..(strlen(m, 0) - strlen(m, p)) :
                          SubSeq(Text(m, 0), i + 1, i + strlen(m, p)) = Text(m, p)}
           IN  strstr(m, 0, p) = IF hits = {} THEN NoPtr ELSE Min(hits)
      /\ \A size \in 0..half :      \* a string of the low half, a buffer in the high half
           ends =>
             LET c == strlcpy(m, half, 0, size)
                 t == strlcat(m, half, 0, size)
                 had == strlen(m, half)
                 Cut(s, n) == SubSeq(s, 1, Min({Len(s), n}))
             IN  /\ c.ret = Len(Text(m, 0))
                 /\ size > 0 => Text(c.m, half) = Cut(Text(m, 0), size - 1)
                 /\ t.ret = had + Len(Text(m, 0))
                 /\ had < size => Text(t.m, half) = Cut(Text(m, half) \o Text(m, 0), size - 1)
                 /\ \A a \in 0..StringTop : a \notin half..(half + size - 1) =>
                      c.m[a] = m[a] /\ t.m[a] = m[a]
      /\ \A a, b \in 0..StringTop :
           /\ strcmp(m, a, b) = -strcmp(m, b, a)
           /\ strcmp(m, a, b) = 0 <=> Text(m, a) = Text(m, b)

\* string.c at its edges: memmove() is a simultaneous copy for every overlap,
\* strtok_r() yields the maximal runs between delimiters, strstr() the first
\* occurrence, and strlcpy() and strlcat() stay inside their buffer and report
\* the length they would have needed.  The buffer ends with a null byte if it has
\* any room, for strlcat() if the string it holds had ended inside it.  Nothing is
\* said of memmove()'s result, which is not always DST.
StringsCorrect == call.fn = "string" => StringStep(call.m)
-----------------------------------------------------------------------------
(* Arithmetic and algorithms.                                              *)

CallDivide ==
  /\ call = Idle("divide")
  /\ call' \in [fn : {"divide"}, d : 1..(Double - 1)]

\* C's division of integers: the quotient is rounded towards zero.
Truncated(n, d) == LET q == (IF n < 0 THEN -n ELSE n) \div (IF d < 0 THEN -d ELSE d)
                   IN  IF (n < 0) <=> (d < 0) THEN q ELSE -q

DivideStep(d) ==
  /\ \A n \in 0..(Double - 1) :
       /\ udiv64(n, d) = n \div d
       /\ n % d < Half => umod64(n, d) = n % d
  /\ LET sd == Signed(d, 2 * HalfBits)
     IN  \A n \in (-(Double \div 2))..(Double \div 2 - 1) :
           n > -(Double \div 2) \/ sd # -1 =>
             /\ sdiv64(n, sd) = Truncated(n, sd)
             /\ LET rest == n - sd * Truncated(n, sd)
                IN  rest \in (-(Half \div 2))..(Half \div 2 - 1) => smod64(n, sd) = rest

\* The 64-bit division that arithmetic.c builds from DIVL never traps and its
\* quotient is exact for every dividend and divisor; so is a remainder that fits
\* the half word which umod64() and smod64() return.
DivisionCorrect == call.fn = "divide" => DivideStep(call.d)

CallSort ==
  /\ call = Idle("sort")
  /\ call' \in [fn : {"sort"}, a : SeqOf(0..2, MaxArray)]
CallAtoi ==
  /\ call = Idle("atoi")
  /\ call' \in [fn : {"atoi"}, s : SeqOf({0, 7, Space, PlusSign, MinusSign, Other}, 4)]
CallRandom ==
  /\ call = Idle("random")
  /\ call' \in [fn : {"random"}, seed : [1..2 -> 0..(RcSize - 1)], size : {0, 5, 9}]
CallCalibrate ==
  /\ call = Idle("calibrate")
  /\ call' \in [fn : {"calibrate"}, inTick : (2 * FirstGuess)..(9 * FirstGuess)]

Count(s, x) == Cardinality({i \in DOMAIN s : s[i] = x})
SortStep(a) ==
  LET r == sort(a)
  IN  /\ DOMAIN r = DOMAIN a
      /\ \A i, j \in DOMAIN r : i < j => r[i] <= r[j]
      /\ \A x \in 0..2 : Count(r, x) = Count(a, x)
      /\ \A key \in 0..3 : LET i == binary_search(key, r)
                           IN  IF key \in ToSet(r) THEN r[i] = key ELSE i = 0

\* A text is white space, perhaps one sign, digits, and what follows them.
Numeral(ds) == FoldLeft(LAMBDA v, c : 10 * v + c, 0, ds)
AtoiStep(s) ==
  \A i \in 0..Len(s) : \A j \in i..(i + 1) : \A k \in j..Len(s) :
    /\ \A x \in 1..i : s[x] = Space
    /\ j <= Len(s) /\ (j > i => s[j] \in {PlusSign, MinusSign})
    /\ \A x \in (j + 1)..k : s[x] <= 9
    /\ k < Len(s) => s[k + 1] > 9
    /\ k = j /\ j = i /\ k < Len(s) => s[k + 1] \notin {Space, PlusSign, MinusSign}
    => LET v == Numeral(SubSeq(s, j + 1, k))
       IN  atoi(s) = Signed(IF j > i /\ s[j] = MinusSign THEN -v ELSE v, IntBits)

RandomStep(seed, size) ==
  LET r == random_bytes(random_init(seed), size)
      more == random_bytes(r.r, 3)
  IN  /\ Range(r.r.s) = 0..(RcSize - 1)
      /\ random_bytes(random_init(seed), size + 3).out = r.out \o more.out

\* The power of two is the largest that fits; the lower bits are tried one at
\* a time, each alone with the power of two.
CalibrateStep(inTick) ==
  LET loops == timer_calibrate(inTick)
      high == HighBit(FirstGuess, inTick)
  IN  /\ high <= inTick /\ inTick < 2 * high
      /\ high <= loops /\ loops < 2 * high
      /\ inTick - loops < high \div 2 ^ RefinedBits

\* sort() is an ordered permutation in which binary_search() finds exactly what
\* is there; atoi() wraps as an int does; the generator's state stays a
\* permutation and its output does not depend on how it is asked for; and
\* calibration is never below a tick by more than its last bit, nor twice it.
AlgorithmsCorrect ==
  /\ call.fn = "sort" => SortStep(call.a)
  /\ call.fn = "atoi" => AtoiStep(call.s)
  /\ call.fn = "random" => RandomStep(call.seed, call.size)
  /\ call.fn = "calibrate" => CalibrateStep(call.inTick)
-----------------------------------------------------------------------------
(* printf().                                                               *)

Numbers == {"d", "u", "o", "x"}
Widths == {-6, 0, 6}
Precisions == {-1, 0, 3}
TypeText == [CHAR |-> <<"h", "h">>, SHORT |-> <<"h">>, INT |-> <<>>, LONGLONG |-> <<"l", "l">>]

CallFormat ==
  /\ call = Idle("format")
  /\ call' \in [fn : {"format"}, letter : Numbers \cup {"s"}, flags : SUBSET Flags, width : Widths,
                precision : Precisions]
CallDump ==
  /\ call = Idle("dump")
  /\ call' \in [fn : {"dump"}, ofs : 0..PerLine, size : 0..(3 * PerLine)]

\* The conversion, written with `*' for the width and for the precision.
Spelled(c, type) ==
  <<"%">> \o SetToSeq(c.flags) \o <<"*", ".", "*">> \o TypeText[type] \o <<c.letter>>
Strip(out, S) == SelectSeq(out, LAMBDA ch : ch \notin S)
HexValue(ch) == SelectInSeq(base_x.digits, LAMBDA d : d = ch) - 1
ReadBack(out, base) ==      \* the number written, blanks, sign and commas left out
  FoldLeft(LAMBDA v, ch : v * base + HexValue(ch), 0, Strip(out, {" ", "+", "-", ",", "x"}))

\* The conversion c shows the number n as out, and as text if no width is given.
Shows(c, n, out, text) ==
  LET width == IF c.width < 0 THEN -c.width ELSE c.width
      pad == output_dup(" ", width - Len(text))
      zero == "0" \in c.flags /\ "-" \notin c.flags /\ c.precision < 0
      base == [d |-> 10, u |-> 10, o |-> 8, x |-> 16][c.letter]
      prefixed == c.letter = "x" /\ "#" \in c.flags /\ n # 0
      unsigned == Strip(text, {" ", "+", "-"})
      digits == IF prefixed THEN SubSeq(unsigned, 3, Len(unsigned)) ELSE unsigned
  IN  /\ ReadBack(out, base) = IF n < 0 THEN -n ELSE n
      /\ ("-" \in ToSet(out)) <=> (n < 0)
      /\ prefixed => SubSeq(unsigned, 1, 2) = <<"0", "x">>
      /\ Len(digits) >= c.precision
      /\ digits = <<>> <=> n = 0 /\ c.precision = 0 /\ ~(c.letter = "o" /\ "#" \in c.flags)
      /\ c.letter = "o" /\ "#" \in c.flags => Head(digits) = "0"
      /\ "'" \in c.flags /\ c.precision < 0 /\ "#" \notin c.flags =>
           \A i \in DOMAIN digits :
             digits[i] = "," <=> (Len(digits) - i + 1) % (IF c.letter = "x" THEN 5 ELSE 4) = 0
      /\ IF zero
         THEN /\ Len(out) = Len(text) + Len(pad) * (IF c.width < 0 THEN 2 ELSE 1)
              /\ Count(out, " ") = Count(text, " ") + (IF c.width < 0 THEN Len(pad) ELSE 0)
         ELSE out = IF "-" \in c.flags \/ c.width < 0 THEN text \o pad ELSE pad \o text

\* vsnprintf() returned r for a buffer of this size, where printf() writes out.
Buffered(r, size, out) ==
  /\ r.ret = Len(out)
  /\ r.buffer = IF size = 0 THEN <<>>
                ELSE SubSeq(out, 1, Min({size - 1, Len(out)})) \o <<"NUL">>

FormatStep(c) ==
  LET Args(width, v) == <<width, c.precision, v>>
      Formatted(type, width, v) == __vprintf(Spelled(c, type), Args(width, v))
  IN  /\ \A type \in DOMAIN TypeText, v \in {0, -8, 2047} :
           Shows(c, IF c.letter = "d" THEN AsSigned(v, type) ELSE AsUnsigned(v, type),
                 Formatted(type, c.width, v), Formatted(type, 0, v))
      /\ \A size \in {0, 1, 4} :
           Buffered(vsnprintf(size, Spelled(c, "INT"), Args(c.width, -8)),
                    size, Formatted("INT", c.width, -8))

\* %s, %c and %p under the same flags, width and precision.
TextStep(c) ==
  LET Out(letter, v) ==
        __vprintf(Spelled([c EXCEPT !.letter = letter], "INT"), <<c.width, c.precision, v>>)
      width == IF c.width < 0 THEN -c.width ELSE c.width
      Field(text) == LET pad == output_dup(" ", width - Len(text))
                     IN  IF "-" \in c.flags \/ c.width < 0 THEN text \o pad ELSE pad \o text
  IN  /\ \A s \in {<<>>, <<"a", "b", "c", "d", "e", "f", "g">>} :
           Out("s", s) = Field(IF c.precision < 0 THEN s ELSE SubSeq(s, 1, Min({Len(s), c.precision})))
      /\ Out("s", NullString) # Out("s", <<>>) \/ c.precision = 0
      /\ Out("c", "a") = Field(<<"a">>)
      /\ \A v \in {0, 40} : ReadBack(Out("p", v), 16) = v /\ Len(Out("p", v)) >= width

\* A dump shows every byte once, in order, at the column of its offset.
DumpStep(ofs, size) ==
  LET buf == [k \in 1..size |-> k]
      lines == hex_dump(ofs, buf, size)
  IN  /\ FoldLeft(LAMBDA all, line : all \o line.bytes, <<>>, lines) = buf
      /\ \A i \in DOMAIN lines :
           /\ lines[i].ofs % PerLine = 0
           /\ lines[i].blank + Len(lines[i].bytes) <= PerLine
           /\ lines[i].ofs + lines[i].blank = ofs + Head(lines[i].bytes) - 1

\* printf() writes a number that reads back as the argument in its type, with
\* the digits the precision asks for, grouped from the right and padded on the
\* side the flags say; vsnprintf() keeps the longest prefix its buffer has room
\* for; %s cuts a string to the precision; hex_dump() shows each byte once.  A field is as wide as asked unless a
\* negative `*' width meets the 0 flag: then both pad it, zeros and blanks.
FormatFaithful ==
  /\ call.fn = "format" => IF call.letter \in Numbers THEN FormatStep(call) ELSE TextStep(call)
  /\ call.fn = "dump" => DumpStep(call.ofs, call.size)
-----------------------------------------------------------------------------
(* Executables: two loadable segments.                                     *)

Segment(types, offsets, addrs, filesz, memsz, writable) ==
  [p_type : types, p_offset : offsets, p_vaddr : addrs, p_filesz : filesz, p_memsz : memsz,
   writable : writable]
FirstSegments ==
  Segment({"PT_LOAD"}, {0, 1}, {PGSIZE, PGSIZE + 1}, {0, 2, PGSIZE}, {2, PGSIZE + 2}, BOOLEAN)
SecondSegments ==
  Segment({"PT_NOTE", "PT_INTERP"}, {0}, {0}, {0}, {0}, {FALSE})
  \cup Segment({"PT_LOAD"}, {0, 1, 2 * PGSIZE + 1},
               {0, PGSIZE, PGSIZE + 1, 2 * PGSIZE + 1, PHYS_BASE - 2 * PGSIZE, PHYS_BASE,
                2 ^ AddrBits - PGSIZE + 1},
               {0, 2, PGSIZE},
               {0, 2, PGSIZE, PGSIZE + 2, 2 * PGSIZE, 2 ^ AddrBits - PGSIZE}, {FALSE})
LoadLength == 2 * PGSIZE + 3
CallLoad ==
  /\ call = Idle("load")
  /\ call' \in [fn : {"load"}, a : FirstSegments, b : SecondSegments]

Loadable(s) == s.p_type = "PT_LOAD"
PagesOf(s) == {pg_round_down(x) : x \in s.p_vaddr..(s.p_vaddr + s.p_memsz - 1)}
FilePages(s) == IF s.p_filesz = 0 THEN {}
                ELSE {pg_round_down(x) : x \in s.p_vaddr..(s.p_vaddr + s.p_filesz - 1)}
Wanted(s, x) == IF x - s.p_vaddr < s.p_filesz THEN <<"file", s.p_offset + x - s.p_vaddr>>
                ELSE <<"zero">>

\* r is what load() makes of the segments a and b.
Loads(a, b, r) ==
  LET segs == {s \in {a, b} : Loadable(s)}
      apart == PagesOf(a) \cap PagesOf(b) = {} \/ ~Loadable(a) \/ ~Loadable(b)
  IN  /\ r.ok => \A s \in segs : 0 \notin PagesOf(s) /\ \A x \in PagesOf(s) : x < PHYS_BASE
      /\ r.ok => b.p_type # "PT_INTERP"
      /\ r.ok /\ Loadable(a) /\ Loadable(b) => FilePages(b) \cap PagesOf(a) = {}
      /\ r.ok => DOMAIN r.spt = UNION {PagesOf(s) : s \in segs}
      /\ r.ok /\ apart => \A s \in segs : \A x \in s.p_vaddr..(s.p_vaddr + s.p_memsz - 1) :
           pg_round_down(x) # StackPage =>
             /\ ByteAt(r.spt, x, LoadLength) \in {Wanted(s, x), <<"killed">>}
             /\ s.p_offset + s.p_filesz <= LoadLength =>
                  ByteAt(r.spt, x, LoadLength) = Wanted(s, x)
      /\ r.ok /\ apart => \A s \in segs : \A page \in FilePages(s) :
           PageWritable(r.spt, page) <=> s.writable
LoadStep(a, b) ==
  /\ Loads(a, b, load(TRUE, <<a, b>>, 2, LoadLength, TRUE))
  /\ ~load(TRUE, <<a, b>>, 1, LoadLength, TRUE).ok
  /\ ~load(TRUE, <<a, b>>, 2, LoadLength, FALSE).ok

CallExec ==
  /\ call = Idle("exec")
  /\ \E s \in SeqOf({1, 2, Blank}, MaxCommand) : call' = [fn |-> "exec", s |-> s]

\* In memory m, main() finds the words above esp.
OnStack(words, m, esp) ==
  LET IsWord(a) == \A k \in 1..3 : m[a + k] = WordTail
      argc == m[esp + 4]
      argv == m[esp + 8]
  IN  /\ esp % 4 = 0
      /\ \A a \in {esp + 4, esp + 8} \cup {argv + 4 * i : i \in 0..argc} : IsWord(a)
      /\ argc = Len(words)
      /\ \A i \in 1..argc : Text(m, m[argv + 4 * (i - 1)]) = words[i]
      /\ m[argv + 4 * argc] = 0

\* A file that exists has a name of at most NameMax characters.
ExecStep(s) ==
  LET page == [a \in 0..(UserTop - 1) |->
                IF a < Len(s) THEN s[a + 1] ELSE IF a = Len(s) THEN 0 ELSE 7]
      words == Runs(s, {Blank})
      r == execute_thread(page, 0)
  IN  Len(file_name(s)) \in 1..NameMax =>
        /\ file_name(s) = Head(words)
        /\ r.fits <=> Len(words) <= ArgvTemp
        /\ r.fits => r.esp > Len(s) /\ OnStack(words, r.m, r.esp)

\* An executable that load() accepts lies in user space above page 0, and each
\* byte of its segments reads as the file's byte or as zero, for segments that
\* share no page: only pages read from the file are checked for overlap.  Its
\* main() finds on the stack, aligned, the words of the command line, the first
\* of which is the file that was opened for it, as long as there are no more of
\* them than argv_temp[] has elements.
LoadMapsSegments ==
  /\ call.fn = "load" => LoadStep(call.a, call.b)
  /\ call.fn = "exec" => ExecStep(call.s)
-----------------------------------------------------------------------------
(* The command line.                                                       *)

Words == {Word("run"), Word("ls"), Word("f"), Word("-q"), Word("-f"), Word("-h"),
          Option("-rs", "7"), Option("-ul", NoValue), Option("-x", NoValue)}
CallBoot ==
  /\ call = Idle("boot")
  /\ call' \in [fn : {"boot"}, argv : SeqOf(Words, 4)]
CallArgs ==
  /\ call = Idle("args")
  /\ call' \in [fn : {"args"}, m : [0..(LOADER_ARGS_LEN - 1) -> 0..1], argc : 0..3]

BootStep(argv) ==
  LET r == main(argv)
      n == SelectInSeq(argv \o <<Word("f")>>, LAMBDA w : ~IsOption(w)) - 1
      actions == SubSeq(argv, n + 1, Len(argv))
      ran == FlattenSeq(r.done)
  IN  /\ r.end \in {"power_off", "thread_exit"} => ran = actions
      /\ r.end = "power_off" => Word("-q") \in ToSet(SubSeq(argv, 1, n))
      /\ r.opts.format_filesys <=>
           \E i \in 1..n : /\ argv[i] = Word("-f")
                           /\ \A j \in 1..i : argv[j].name \in {"-q", "-f", "-rs"}
      /\ r.end = "panic" /\ r.done # <<>> =>
           /\ ran = SubSeq(actions, 1, Len(ran)) /\ Len(ran) < Len(actions)
           /\ \/ actions[Len(ran) + 1].text \notin DOMAIN ActionArgc
              \/ ActionArgc[actions[Len(ran) + 1].text] > Len(actions) - Len(ran)

ArgsStep(m, argc) ==
  LET r == read_command_line(m, argc)
      nulls == {a \in 0..(LOADER_ARGS_LEN - 1) : m[a] = 0}
  IN  /\ r.panic => Cardinality(nulls) < argc
      /\ ~r.panic => /\ Len(r.argv) = argc
                     /\ \A i \in 1..argc : Cardinality({a \in nulls : a < r.argv[i]}) = i - 1

(* The kernel actions put, get, rm, ls and cat.                            *)

Content(i, size) == [k \in 1..size |-> 10 * i + k]
\* The sectors pintos leaves for put, and room more.
Archive(sizes, room) ==
  FlattenSeq([i \in DOMAIN sizes |-> <<<<PUT, sizes[i]>>>> \o
    [k \in 1..SectorsFor(sizes[i]) |-> Padded(Slice(Content(i, sizes[i]), k - 1, FsSector))]])
  \o [k \in 1..room |-> <<0, 0>>]

CallFsUtil ==
  /\ call = Idle("fsutil")
  /\ \E sizes \in SeqOf({0, 1, 4, 5}, 2), gets \in SeqOf(1..2, 3), room \in {0, 1, 3} :
       call' = [fn |-> "fsutil", sizes |-> sizes, gets |-> gets, room |-> room]

FsUtilStep(sizes, gets, room) ==
  LET disk == Archive(sizes, room)
      Do(Action(_, _), s, i) == IF s.panic THEN s ELSE Action(s, i)
      start == [files |-> <<>>, scratch |-> disk, put |-> 0, get |-> 0, panic |-> FALSE]
      put == FoldLeft(LAMBDA s, i : Do(fsutil_put, s, i), start, [i \in DOMAIN sizes |-> i])
      got == FoldLeft(LAMBDA s, i : Do(fsutil_get, s, i), put, gets)
      wanted == FlattenSeq([j \in DOMAIN gets |-> <<<<GET, sizes[gets[j]]>>>> \o
        [k \in 1..SectorsFor(sizes[gets[j]]) |->
          Padded(Slice(Content(gets[j], sizes[gets[j]]), k - 1, FsSector))]])
      fits == \A j \in DOMAIN gets : gets[j] \in DOMAIN sizes
  IN  /\ ~put.panic
      /\ fsutil_ls(put) = DOMAIN sizes
      /\ \A i \in DOMAIN sizes :
           LET dump == fsutil_cat(put, i).dump
           IN  /\ put.files[i] = Content(i, sizes[i])
               /\ FlattenSeq([n \in DOMAIN dump |-> dump[n].bytes]) = Content(i, sizes[i])
               /\ \A n \in DOMAIN dump : dump[n].ofs = (n - 1) * PerLine /\ dump[n].blank = 0
               /\ LET r == fsutil_rm(put, i)
                  IN  fsutil_ls(r) = DOMAIN sizes \ {i} /\ fsutil_rm(r, i).panic /\ fsutil_cat(r, i).panic
               /\ fsutil_put(put, i).panic
      /\ got.panic = (~fits \/ Len(wanted) > Len(disk))
      /\ ~got.panic => SubSeq(got.scratch, 1, Len(wanted)) = wanted /\ got.files = put.files

StepNo(name) == SelectInSeq(BootSteps, LAMBDA x : x = name)

\* The words of the command line are found where the loader put them, or boot
\* stops; the options come before the actions, the actions run in order and a
\* malformed one stops the kernel at that place; put, get, cat and rm keep what
\* is in the files, to the byte, whatever their sizes, and stop the kernel
\* when the scratch disk is too small; and main() sets nothing up before the
\* parts its code uses.
BootRunsActions ==
  /\ call.fn = "boot" => BootStep(call.argv)
  /\ call.fn = "args" => ArgsStep(call.m, call.argc)
  /\ call.fn = "fsutil" => FsUtilStep(call.sizes, call.gets, call.room)
  /\ \A n \in Needs : 0 < StepNo(n[2]) /\ StepNo(n[2]) < StepNo(n[1])
-----------------------------------------------------------------------------
(* The screen and the keyboard.                                            *)

Glyph == <<"a", "b", "c", "d">>
CallScreen ==
  /\ call = Idle("screen")
  /\ \E s \in SeqOf({"LF", "FF", "BS", "CR", "TAB", "x"}, MaxTyped) :
       call' = [fn |-> "screen", s |-> [i \in DOMAIN s |-> IF s[i] = "x" THEN Glyph[i] ELSE s[i]]]

\* Unbounded paper: nothing scrolls, a line is as far down as it needs to be.
Paper(s) ==
  LET blank == [x |-> 0, y |-> 0, ink |-> {}]
      Line(p) == [p EXCEPT !.x = 0, !.y = @ + 1]
      Edge(p) == IF p.x >= COL_CNT THEN Line(p) ELSE p
      Type(p, c) ==
        CASE c = "LF" -> Line(p)
          [] c = "FF" -> blank
          [] c = "BS" -> [p EXCEPT !.x = IF @ = 0 THEN 0 ELSE @ - 1]
          [] c = "CR" -> [p EXCEPT !.x = 0]
          [] c = "TAB" -> Edge([p EXCEPT !.x = Min({k \in (@ + 1)..COL_CNT : k % TabStop = 0})])
          [] OTHER -> Edge([p EXCEPT !.x = @ + 1, !.ink =
                        {i \in @ : <<i.x, i.y>> # <<p.x, p.y>>} \cup {[x |-> p.x, y |-> p.y, c |-> c]}])
  IN  FoldLeft(Type, blank, s)

ScreenStep(s) ==
  LET v == FoldLeft(vga_putc, cls([cx |-> 0]), s)
      p == Paper(s)
      top == IF p.y < ROW_CNT THEN 0 ELSE p.y - ROW_CNT + 1
      Shown(x, y) == {i.c : i \in {j \in p.ink : j.x = x /\ j.y = top + y}}
  IN  /\ v.cx = p.x /\ v.cy = p.y - top
      /\ \A y \in Rows, x \in DOMAIN BlankRow :
           IF Shown(x, y) = {} THEN v.fb[y][x] = "blank" ELSE v.fb[y][x] \in Shown(x, y)
      /\ find_cursor(move_cursor(v)) = [cx |-> v.cx, cy |-> v.cy]

ModifierCodes == {shift_keys[m] : m \in DOMAIN shift_keys} \cup {caps_lock_key}
CallKeys ==
  /\ call = Idle("keys")
  /\ \E s \in SeqOf({c + r : c \in ModifierCodes, r \in {0, 128}}, 3) :
       call' = [fn |-> "keys", s |-> s]

\* What the keys held down after the events s make of a key: letter is an
\* upper-case code, pair the codes of a key without and with Shift.
Held(s, m) ==
  LET events == SelectSeq(s, LAMBDA c : c % 128 = m % 128 /\ c \div 256 = m \div 256)
  IN  events # <<>> /\ Last(events) = m
KeyStep(s) ==
  LET k == FoldLeft(LAMBDA r, c : keyboard_interrupt(r, c).keys, NoModifiers, s)
      shift == Held(s, 42) \/ Held(s, 54)
      ctrl == Held(s, 29) \/ Held(s, 57373)
      caps == Len(SelectSeq(s, LAMBDA c : c = caps_lock_key)) % 2 = 1
      high == IF Held(s, 56) \/ Held(s, 57400) THEN 128 ELSE 0
      Typed(code) == keyboard_interrupt(k, code).typed
      Letter(c) == <<high + IF ctrl THEN c - 64 ELSE IF shift # caps THEN c ELSE c + 32>>
      Control(c) == IF ctrl /\ c \in 64..95 THEN c - 64 ELSE c
      Sign(pair) == <<high + Control(pair[IF shift THEN 2 ELSE 1])>>
  IN  /\ Typed(30) = Letter(65) /\ Typed(50) = Letter(77) /\ Typed(25) = Letter(80)
      /\ Typed(3) = Sign(<<50, 64>>) /\ Typed(43) = Sign(<<92, 124>>) /\ Typed(57) = Sign(<<32, 32>>)
      /\ \A code \in {30, 3, 57} : Typed(code + 128) = <<>>
      /\ \A code \in {57400, 84} \cup ModifierCodes : Typed(code) = <<>>
      /\ \A code \in 1..127 :
           Cardinality(map_key(invariant_keymap, code) \cup map_key(shifted_keymap, code)) <= 1

\* The screen shows the last lines of what was written, as if on endless
\* paper, and the cursor stays on it; a key types what the modifier keys held
\* down at that time make of it, in whatever order they were pressed and
\* released, and no modifier key is taken for a character.
TerminalFaithful ==
  /\ call.fn = "screen" => ScreenStep(call.s)
  /\ call.fn = "keys" => KeyStep(call.s)
\* The containers are what their interfaces promise: lists and hash tables,
\* through splicing, merging and rehashing, hold the elements that were put in
\* and not taken out, and a bitmap's scans for at least one bit find the first
\* free run.
ContainersCorrect == ListsAreSequences /\ HashIsSet /\ BitmapsAreSets

\* The pure routines against reference definitions on every input up to the
\* bounds: strings and memory, 64-bit division by 32-bit parts, sorting and
\* searching, conversion of numerals, the random generator and calibration, each
\* as far as the comment of its part above says.
RoutinesCorrect == StringsCorrect /\ DivisionCorrect /\ AlgorithmsCorrect
-----------------------------------------------------------------------------
Next ==
  \/ CallList \/ CallHash \/ Grow \/ Shrink \/ CallBitmap \/ CallString \/ CallDivide
  \/ CallSort \/ CallAtoi \/ CallRandom \/ CallCalibrate
  \/ CallFormat \/ CallDump \/ CallLoad \/ CallExec \/ CallBoot \/ CallArgs
  \/ CallScreen \/ CallKeys \/ CallFsUtil \/ Return

Spec == Init /\ [][Next]_call
=============================================================================
