------------------------------- MODULE Stdlib -------------------------------
(***************************************************************************)
(* The algorithms of lib/stdlib.c, lib/arithmetic.c and lib/random.c, and  *)
(* the calibration of devices/timer.c.  Machine words keep their width as  *)
(* a parameter: HalfBits is the 32 of the code (a power of two), a double  *)
(* word has twice as many bits; IntBits is the width of an int.            *)
(***************************************************************************)
EXTENDS Integers, Sequences, SequencesExt, Bitwise

CONSTANTS HalfBits, IntBits

ASSUME WidthsAssumption == HalfBits \in {4, 8} /\ IntBits \in 4..16

Half == 2 ^ HalfBits
Double == Half * Half
Trap == -1     \* the divide error of DIVL

\* Two's complement reading of x in w bits.
Signed(x, w) == LET y == x % 2 ^ w IN IF y >= 2 ^ (w - 1) THEN y - 2 ^ w ELSE y

divl(n, d) == IF d = 0 \/ n \div d >= Half THEN Trap ELSE n \div d

\* The halving tests of nlz, from HalfBits / 2 down to one bit.
RECURSIVE NlzFrom(_, _)
NlzFrom(x, k) ==
  IF k = 0 THEN 0
  ELSE IF x <= 2 ^ (HalfBits - k) - 1 THEN k + NlzFrom((x * 2 ^ k) % Half, k \div 2)
  ELSE NlzFrom(x, k \div 2)
nlz(x) == NlzFrom(x, HalfBits \div 2)

udiv64(n, d) ==
  IF d \div Half = 0
  THEN LET n1 == n \div Half
           n0 == n % Half
           low == divl(Half * (n1 % d) + n0, d)
       IN  IF d = 0 \/ low = Trap THEN Trap ELSE (low + Half * (n1 \div d)) % Double
  ELSE IF n < d THEN 0
  ELSE LET s == nlz(d \div Half)
           top == divl(n \div 2, ((d * 2 ^ s) % Double) \div Half)
           q == top \div 2 ^ (HalfBits - 1 - s)
       IN  IF top = Trap THEN Trap
           ELSE IF (n - (q - 1) * d) % Double < d THEN q - 1 ELSE q
umod64(n, d) == (n - d * udiv64(n, d)) % Half    \* returned as a half word

Negated(x) == (-x) % Double
sdiv64(n, d) ==
  LET Abs(x) == IF x >= 0 THEN x ELSE Negated(x % Double)
      q == udiv64(Abs(n), Abs(d))
  IN  Signed(IF (n < 0) <=> (d < 0) THEN q ELSE Negated(q), 2 * HalfBits)
smod64(n, d) == Signed(n - d * sdiv64(n, d), HalfBits)
-----------------------------------------------------------------------------
\* atoi: characters are digits 0..9, or one of these.
Space == 10
PlusSign == 11
MinusSign == 12
Other == 13

SkipSpace(s) == LET k == SelectInSeq(s, LAMBDA c : c # Space)
                IN  IF k = 0 THEN <<>> ELSE SubSeq(s, k, Len(s))
DigitPrefix(s) == LET k == SelectInSeq(s, LAMBDA c : c > 9)
                  IN  IF k = 0 THEN s ELSE SubSeq(s, 1, k - 1)
\* The value is accumulated as a negative number, with the int's wraparound.
atoi(str) ==
  LET s == SkipSpace(str)
      signed == s # <<>> /\ s[1] \in {PlusSign, MinusSign}
      negative == signed /\ s[1] = MinusSign
      value == FoldLeft(LAMBDA v, c : Signed(v * 10 - c, IntBits), 0,
                        DigitPrefix(IF signed THEN Tail(s) ELSE s))
  IN  IF negative THEN value ELSE Signed(-value, IntBits)

\* Heap sort of a sequence of numbers; compare is their order.
do_swap(a, i, j) == [a EXCEPT ![i] = a[j], ![j] = a[i]]
RECURSIVE heapify(_, _, _)
heapify(a, i, cnt) ==
  LET left == 2 * i
      right == 2 * i + 1
      m == IF left <= cnt /\ a[left] > a[i] THEN left ELSE i
      max == IF right <= cnt /\ a[right] > a[m] THEN right ELSE m
  IN  IF max = i THEN a ELSE heapify(do_swap(a, i, max), max, cnt)
sort(array) ==
  LET cnt == Len(array)
      Build(a, i) == heapify(a, i, cnt)
      heap == FoldLeft(Build, array, Reverse([i \in 1..(cnt \div 2) |-> i]))
      Extract(a, i) == heapify(do_swap(a, 1, i), 1, i - 1)
  IN  FoldLeft(Extract, heap, Reverse(SubSeq([k \in 1..cnt |-> k], 2, cnt)))

\* first and last are the 0-based bounds of the part still searched.
RECURSIVE SearchIn(_, _, _, _)
SearchIn(key, a, first, last) ==
  LET middle == first + (last - first) \div 2
  IN  IF first >= last THEN 0
      ELSE IF key < a[middle + 1] THEN SearchIn(key, a, first, middle)
      ELSE IF key > a[middle + 1] THEN SearchIn(key, a, middle + 1, last)
      ELSE middle + 1
binary_search(key, a) == SearchIn(key, a, 0, Len(a))

\* The RC4 state over RcSize values in place of 256; seed is its bytes.
RcSize == 8
RcSwap(s, i, j) == [s EXCEPT ![i] = s[j], ![j] = s[i]]
random_init(seed) ==
  LET Mix(r, i) == LET j == (r.j + r.s[i] + seed[(i % Len(seed)) + 1]) % RcSize
                   IN  [s |-> RcSwap(r.s, i, j), j |-> j]
      r == FoldLeft(Mix, [s |-> [i \in 0..(RcSize - 1) |-> i], j |-> 0],
                    [k \in 1..RcSize |-> k - 1])
  IN  [s |-> r.s, i |-> 0, j |-> 0]
random_byte(r) ==
  LET i == (r.i + 1) % RcSize
      j == (r.j + r.s[i]) % RcSize
      s == RcSwap(r.s, i, j)
  IN  [r |-> [s |-> s, i |-> i, j |-> j], byte |-> s[(s[i] + s[j]) % RcSize]]
random_bytes(r, size) ==
  FoldLeft(LAMBDA g, k : LET b == random_byte(g.r)
                         IN  [r |-> b.r, out |-> Append(g.out, b.byte)],
           [r |-> r, out |-> <<>>], [k \in 1..size |-> k])
-----------------------------------------------------------------------------
\* timer_calibrate() on a machine that runs LoopsInTick loops in one tick.
FirstGuess == 16         \* the 1 << 10 of the code
RefinedBits == 3         \* the 9 bits below it that the loop tests
too_many_loops(loops, LoopsInTick) == loops > LoopsInTick
RECURSIVE HighBit(_, _)
HighBit(guess, inTick) ==
  IF too_many_loops(guess * 2, inTick) THEN guess ELSE HighBit(guess * 2, inTick)
timer_calibrate(inTick) ==
  LET high == HighBit(FirstGuess, inTick)
      bits == [k \in 1..RefinedBits |-> high \div 2 ^ k]
      Refine(loops, bit) ==
        IF ~too_many_loops(high | bit, inTick) THEN loops | bit ELSE loops
  IN  FoldLeft(Refine, high, bits)

\* real_time_sleep(): whole ticks are slept, less is a busy wait of loops.
real_time_sleep(num, denom, freq, loops) ==
  LET ticks == (num * freq) \div denom
  IN  IF ticks > 0 THEN [ticks |-> ticks, loops |-> 0]
      ELSE [ticks |-> 0, loops |-> (((loops * num) \div 1000) * freq) \div (denom \div 1000)]
=============================================================================
