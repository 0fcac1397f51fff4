----------------------------- MODULE SwapProofs -----------------------------
(***************************************************************************)
(* The swap table keeps every sector and every page, for a disk of any     *)
(* size, any number of sectors per frame and any number of threads: the    *)
(* free list and the slots in use partition the disk, a page that was      *)
(* swapped out comes back unchanged, and the list of runs implements the   *)
(* pool of slots.                                                          *)
(***************************************************************************)
EXTENDS SwapTable, WellFoundedInduction, TLAPS

N == SECTORS_PER_FRAME
PageSector == 0 .. N - 1
Content == {<<>>} \cup (Value \X PageSector)
JobType == [op : {"idle", "full", "write", "read"}, start : Sector \cup {NoSector}, pos : 0 .. N]

\* Where a slot can start: slots are carved from sector 0 on, N sectors each.
Starts == {N * k : k \in 0 .. DiskSize}

GoodRun == {r \in [start : Sector, size : 1 .. DiskSize] : r.start + r.size <= DiskSize /\ r.start \in Starts}

\* The runs of q are in order and apart, ...
Apart(q) == \A i, j \in 1 .. Len(q) : i < j => q[i].start + q[i].size < q[j].start

\* ... except that run j may touch run j + 1 for j in I.
Loose(q, I) ==
  \A i, j \in 1 .. Len(q) : i < j =>
    /\ q[i].start + q[i].size <= q[j].start
    /\ (i \in I /\ j = i + 1) \/ q[i].start + q[i].size < q[j].start

Cover(q) == UNION {SectorsOf(q[i]) : i \in 1 .. Len(q)}

\* Sector x is one of the N that start at a.
Within(x, a) == a <= x /\ x < a + N

\* SectorsAccounted in these terms: the free list and the slots share the disk.
Accounted ==
  /\ \A s \in slots : s.start + N <= DiskSize
  /\ \A x \in Sector : x \in Cover(free_swap_list) \/ \E s \in slots : Within(x, s.start)
  /\ \A s \in slots : \A x \in Cover(free_swap_list) : ~Within(x, s.start)
  /\ \A s, t \in slots : s # t => s.start + N <= t.start \/ t.start + N <= s.start

\* Every thread that transfers a page has a slot of its own, ...
JobsOK ==
  /\ \A p \in Proc : job[p].op \in {"write", "read"} => \E s \in slots : s.start = job[p].start
  /\ \A p \in Proc : job[p].op \in {"idle", "full"} => job[p].start = NoSector
  /\ \A p, q \in Proc : p # q /\ job[p].start = job[q].start => job[p].start = NoSector

\* ... the frame it writes from holds the page of the slot, ...
FramesOK ==
  \A p \in Proc : \A s \in slots :
    job[p].op = "write" /\ job[p].start = s.start => frame[p] = PageOf(s.page)

\* ... and a slot's sectors hold the page as far as it has been written.
DiskOK ==
  \A s \in slots : \A i \in PageSector :
    \/ disk[s.start + i] = PageOf(s.page)[i]
    \/ \E p \in Proc : job[p].op = "write" /\ job[p].start = s.start /\ job[p].pos <= i

Typed ==
  /\ free_swap_list \in Seq(GoodRun)
  /\ slots \subseteq [start : Starts \cap Sector, page : Value]
  /\ job \in [Proc -> JobType]
  /\ disk \in [Sector -> Content]
  /\ frame \in [Proc -> [PageSector -> Content]]

SwapInv ==
  /\ Typed
  /\ Apart(free_swap_list)
  /\ Accounted
  /\ JobsOK
  /\ FramesOK
  /\ DiskOK
  /\ PagesSurvive

-----------------------------------------------------------------------------
(* Arithmetic on slots of N sectors.                                       *)

\* Slot k + 1 starts N sectors after slot k, and a later slot no earlier.
LEMMA Multiples ==
  /\ N \in Nat \ {0}
  /\ \A k \in Nat : N * k \in Nat /\ N * (k + 1) = N * k + N /\ k <= N * k
  /\ \A k, j \in Nat : k < j => N * k + N <= N * j
<1>0. N \in Nat \ {0}
  BY SwapAssumption, Zenon DEF N
<1>1. ASSUME NEW k \in Nat PROVE N * k \in Nat /\ N * (k + 1) = N * k + N /\ k <= N * k
  BY <1>0
<1>2. ASSUME NEW k \in Nat, NEW j \in Nat, k < j PROVE N * k + N <= N * j
  <2>1. PICK d \in Nat : j = k + 1 + d
    BY <1>2
  <2>2. N * j = N * k + N + N * d /\ N * d \in Nat
    BY <1>0, <2>1
  <2> QED
    BY <1>0, <2>2
<1> QED
  BY <1>0, <1>1, <1>2, Zenon

\* The slots that fit on the disk are the first NumSlots, and SlotOf() finds the one that starts at a sector.
LEMMA SlotNumbers ==
  /\ NumSlots \in Nat
  /\ \A k \in Nat : k < NumSlots <=> N * k + N <= DiskSize
  /\ \A k \in Nat : SlotOf(N * k) = k
<1>0. N \in Nat \ {0} /\ DiskSize \in Nat
  BY SwapAssumption, Zenon DEF N
<1>1. NumSlots \in Nat /\ N * NumSlots <= DiskSize /\ DiskSize < N * NumSlots + N
  BY <1>0 DEF NumSlots, N
<1>2. ASSUME NEW k \in Nat PROVE k < NumSlots <=> N * k + N <= DiskSize
  <2>1. CASE k < NumSlots
    BY <1>0, <1>1, <2>1, Multiples
  <2>2. CASE k = NumSlots
    BY <1>0, <1>1, <2>2, Multiples
  <2>3. CASE NumSlots < k
    <3>1. N * NumSlots + N <= N * k
      BY <1>1, <2>3, Multiples, Zenon
    <3> QED
      BY <1>0, <1>1, <2>3, <3>1, Multiples
  <2> QED
    BY <1>1, <2>1, <2>2, <2>3
<1>3. ASSUME NEW k \in Nat PROVE SlotOf(N * k) = k
  BY <1>0 DEF SlotOf, N
<1> QED
  BY <1>1, <1>2, <1>3, Zenon

-----------------------------------------------------------------------------
(* The operators on the free list.                                         *)

\* A walk over the list stops at the least index of those it looks for.
LEMMA LeastIndex ==
  ASSUME NEW I \in SUBSET (Nat \ {0})
  PROVE  \/ I = {} /\ First(I) = 0
         \/ First(I) \in I /\ First(I) # 0 /\ \A i \in I : First(I) <= i
<1>1. CASE I = {}
  BY <1>1, Zenon DEF First
<1>2. CASE I # {}
  <2>1. I \in SUBSET Nat
    BY Zenon
  <2>2. PICK m \in I : \A i \in I : ~(<<i, m>> \in OpToRel(<, Nat))
    BY <1>2, <2>1, NatLessThanWellFounded, WFMin, Zenon
  <2>3. \A i \in I : m <= i
    <3>1. SUFFICES ASSUME NEW i \in I, ~(m <= i) PROVE FALSE
      BY Zenon
    <3>2. i < m /\ i \in Nat /\ m \in Nat
      BY <3>1
    <3>3. <<i, m>> \in OpToRel(<, Nat)
      BY <3>2, Zenon DEF OpToRel
    <3> QED
      BY <2>2, <3>3, Zenon
  <2>4. First(I) \in I /\ \A i \in I : First(I) <= i
    BY <1>2, <2>3, Zenon DEF First
  <2> QED
    BY <2>4, Zenon
<1> QED
  BY <1>1, <1>2, Zenon

\* alloc_swap_slot() looks for a run of at least N sectors and misses none.
LEMMA FirstFitFinds ==
  ASSUME NEW q \in Seq(GoodRun)
  PROVE  \/ FirstFit(q) = 0 /\ \A i \in 1 .. Len(q) : q[i].size < N
         \/ FirstFit(q) \in 1 .. Len(q) /\ q[FirstFit(q)].size >= N
<1> DEFINE I == {i \in 1 .. Len(q) : q[i].size >= SECTORS_PER_FRAME}
<1>1. FirstFit(q) = First(I)
  BY Zenon DEF FirstFit
<1>2. I \in SUBSET (Nat \ {0})
  OBVIOUS
<1>3. \A i \in 1 .. Len(q) : q[i].size \in Nat
  BY SwapAssumption DEF GoodRun
<1>4. CASE I = {} /\ First(I) = 0
  <2>1. \A i \in 1 .. Len(q) : ~(q[i].size >= SECTORS_PER_FRAME)
    BY <1>4, Zenon
  <2>2. \A i \in 1 .. Len(q) : q[i].size < N
    BY <1>3, <2>1, SwapAssumption DEF N
  <2> QED
    BY <1>1, <1>4, <2>2, Zenon
<1>5. CASE First(I) \in I
  BY <1>1, <1>5, Zenon DEF N
<1> QED
  BY <1>2, <1>4, <1>5, LeastIndex, Zenon

\* list_insert_ordered() puts a run before the first that starts after it.
LEMMA PlaceFinds ==
  ASSUME NEW q \in Seq(GoodRun), NEW r \in GoodRun
  PROVE  /\ Place(q, r) \in 1 .. Len(q) + 1
         /\ \A j \in 1 .. Len(q) : j < Place(q, r) => q[j].start <= r.start
         /\ Place(q, r) <= Len(q) => r.start < q[Place(q, r)].start
<1> DEFINE I == {i \in 1 .. Len(q) : r.start < q[i].start}
<1>1. Place(q, r) = IF First(I) = 0 THEN Len(q) + 1 ELSE First(I)
  BY Zenon DEF Place
<1>2. I \in SUBSET (Nat \ {0}) /\ Len(q) \in Nat
  OBVIOUS
<1>3. r.start \in Nat /\ \A i \in 1 .. Len(q) : q[i].start \in Nat
  BY SwapAssumption, SMTT(60) DEF GoodRun, Sector
<1>4. CASE I = {} /\ First(I) = 0
  <2>1. \A i \in 1 .. Len(q) : ~(r.start < q[i].start)
    BY <1>4, Zenon
  <2>2. Place(q, r) = Len(q) + 1
    BY <1>1, <1>4, Zenon
  <2> QED
    BY <1>2, <1>3, <2>1, <2>2
<1>5. CASE First(I) \in I /\ First(I) # 0 /\ \A i \in I : First(I) <= i
  <2>1. Place(q, r) = First(I)
    BY <1>1, <1>5, Zenon
  <2>2. First(I) \in 1 .. Len(q) /\ r.start < q[First(I)].start
    BY <1>5, Zenon
  <2>3. \A j \in 1 .. Len(q) : r.start < q[j].start => First(I) <= j
    BY <1>5, Zenon
  <2> HIDE DEF I
  <2> QED
    BY <1>2, <1>3, <2>1, <2>2, <2>3
<1> QED
  BY <1>2, <1>4, <1>5, LeastIndex, Zenon

\* list_remove(): the runs after the one removed move up.
LEMMA Removed ==
  ASSUME NEW S, NEW q \in Seq(S), NEW i \in 1 .. Len(q)
  PROVE  /\ list_remove(q, i) \in Seq(S)
         /\ Len(list_remove(q, i)) = Len(q) - 1
         /\ \A j \in 1 .. Len(q) - 1 : list_remove(q, i)[j] = IF j < i THEN q[j] ELSE q[j + 1]
<1>1. \A j \in 1 .. Len(q) - 1 : (IF j < i THEN q[j] ELSE q[j + 1]) \in S
  OBVIOUS
<1>2. Len(q) - 1 \in Nat
  OBVIOUS
<1> QED
  BY <1>1, <1>2 DEF list_remove

\* list_insert(): the runs from the new one's place on move down.
LEMMA Inserted ==
  ASSUME NEW S, NEW q \in Seq(S), NEW i \in 1 .. Len(q) + 1, NEW e \in S
  PROVE  /\ list_insert(q, i, e) \in Seq(S)
         /\ Len(list_insert(q, i, e)) = Len(q) + 1
         /\ \A j \in 1 .. Len(q) + 1 :
              list_insert(q, i, e)[j] = IF j < i THEN q[j] ELSE IF j = i THEN e ELSE q[j - 1]
<1>1. \A j \in 1 .. Len(q) + 1 : (IF j < i THEN q[j] ELSE IF j = i THEN e ELSE q[j - 1]) \in S
  OBVIOUS
<1>2. Len(q) + 1 \in Nat
  OBVIOUS
<1> QED
  BY <1>1, <1>2 DEF list_insert

-----------------------------------------------------------------------------
(* Runs, and the sectors that a list of them covers.                       *)

\* A struct free_swap_slot of the list lies within the disk.
LEMMA RunFacts ==
  /\ \A r \in GoodRun : /\ r.start \in Nat /\ r.size \in Nat \ {0} /\ r.start \in Starts
                        /\ r.start + r.size <= DiskSize
  /\ \A a, b : Run(a, b).start = a /\ Run(a, b).size = b
  /\ \A a \in Starts : \A b \in Nat \ {0} : a + b <= DiskSize => Run(a, b) \in GoodRun
  /\ Starts \subseteq Nat
<1>1. Starts \subseteq Nat
  BY Multiples, SwapAssumption DEF Starts
<1>2. ASSUME NEW a \in Starts, NEW b \in Nat \ {0}, a + b <= DiskSize
      PROVE  Run(a, b) \in GoodRun
  <2>1. a \in Sector /\ b \in 1 .. DiskSize
    BY <1>1, <1>2, SwapAssumption DEF Sector
  <2> QED
    BY <1>2, <2>1, Zenon DEF Run, GoodRun
<1>3. ASSUME NEW r \in GoodRun
      PROVE  /\ r.start \in Nat /\ r.size \in Nat \ {0} /\ r.start \in Starts
             /\ r.start + r.size <= DiskSize
  <2>1. r.start \in Starts /\ r.start + r.size <= DiskSize /\ r.size \in 1 .. DiskSize
    BY Zenon DEF GoodRun
  <2>2. r.size \in Nat \ {0}
    BY <2>1, SwapAssumption
  <2> QED
    BY <1>1, <2>1, <2>2, Zenon
<1>4. \A a, b : Run(a, b).start = a /\ Run(a, b).size = b
  BY Zenon DEF Run
<1> QED
  BY <1>1, <1>2, <1>3, <1>4, Zenon

\* A sector is covered when some run of the list holds it.
LEMMA CoverIs ==
  ASSUME NEW q \in Seq(GoodRun)
  PROVE  /\ Cover(q) \subseteq Nat
         /\ \A x \in Nat : x \in Cover(q) <=> \E i \in 1 .. Len(q) : q[i].start <= x /\ x < q[i].start + q[i].size
<1>1. \A i \in 1 .. Len(q) : q[i].start \in Nat /\ q[i].size \in Nat
  BY RunFacts
<1>2. \A i \in 1 .. Len(q) : /\ SectorsOf(q[i]) \subseteq Nat
                             /\ \A x \in Nat : x \in SectorsOf(q[i]) <=> q[i].start <= x /\ x < q[i].start + q[i].size
  <2>1. \A a, b \in Nat : a .. a + b - 1 \subseteq Nat /\ \A x \in Nat : x \in a .. a + b - 1 <=> a <= x /\ x < a + b
    OBVIOUS
  <2> QED
    BY <1>1, <2>1, Zenon DEF SectorsOf
<1> QED
  BY <1>2, Zenon DEF Cover

\* alloc_swap_slot() takes the first N sectors of a run that has as many: the
\* list stays in order and covers all it covered but those.
LEMMA AllocKeeps ==
  ASSUME NEW q \in Seq(GoodRun), Apart(q), NEW i \in 1 .. Len(q), q[i].size >= N
  PROVE  /\ AllocFrom(q, i) \in Seq(GoodRun)
         /\ Apart(AllocFrom(q, i))
         /\ \A x \in Nat : x \in Cover(AllocFrom(q, i)) <=>
              x \in Cover(q) /\ ~(q[i].start <= x /\ x < q[i].start + N)
<1> DEFINE a == AllocFrom(q, i)
           lo(j) == q[j].start
           sz(j) == q[j].size
<1>0. N \in Nat \ {0} /\ Len(q) \in Nat /\ DiskSize \in Nat /\ i \in Nat
  <2>1. Len(q) \in Nat /\ i \in Nat
    OBVIOUS
  <2> QED
    BY <2>1, Multiples, SwapAssumption, Zenon
<1>1. \A j \in 1 .. Len(q) : /\ q[j] \in GoodRun /\ lo(j) \in Nat /\ sz(j) \in Nat \ {0}
                             /\ lo(j) + sz(j) <= DiskSize /\ lo(j) \in Starts
  BY RunFacts
<1>2. \A j, k \in 1 .. Len(q) : j < k => lo(j) + sz(j) < lo(k)
  BY Zenon DEF Apart
<1>3. CASE q[i].size = N
  <2> DEFINE f(j) == IF j < i THEN j ELSE j + 1
  <2>1. a = list_remove(q, i)
    BY <1>3, Zenon DEF AllocFrom, N
  <2>2. /\ a \in Seq(GoodRun) /\ Len(a) = Len(q) - 1
        /\ \A j \in 1 .. Len(a) : a[j] = q[f(j)]
    BY <2>1, Removed, Zenon
  <2>3. /\ \A j \in 1 .. Len(a) : f(j) \in 1 .. Len(q) \ {i}
        /\ \A j, k \in 1 .. Len(a) : j < k => f(j) < f(k)
        /\ \A k \in 1 .. Len(q) \ {i} : \E j \in 1 .. Len(a) : f(j) = k
    <3>1. ASSUME NEW k \in 1 .. Len(q) \ {i} PROVE \E j \in 1 .. Len(a) : f(j) = k
      <4>1. CASE k < i
        BY <1>0, <2>2, <4>1, SMTT(60)
      <4>2. CASE i < k
        <5>1. k - 1 \in 1 .. Len(a) /\ f(k - 1) = k
          BY <1>0, <2>2, <4>2
        <5> QED
          BY <5>1, Zenon
      <4> QED
        BY <1>0, <4>1, <4>2
    <3> QED
      BY <1>0, <2>2, <3>1
  <2>4. \A j \in 1 .. Len(a) : a[j].start = lo(f(j)) /\ a[j].size = sz(f(j))
    BY <2>2, Zenon
  <2> HIDE DEF a, f, lo, sz
  <2>5. Apart(a)
    BY <1>2, <2>3, <2>4, Zenon DEF Apart
  <2>6. ASSUME NEW x \in Nat, NEW k \in 1 .. Len(q) \ {i}, lo(k) <= x, x < lo(k) + sz(k)
        PROVE  ~(lo(i) <= x /\ x < lo(i) + sz(i))
    <3>1. \/ k < i /\ lo(k) + sz(k) < lo(i)
          \/ i < k /\ lo(i) + sz(i) < lo(k)
      BY <1>0, <1>2
    <3>2. lo(i) \in Nat /\ sz(i) \in Nat /\ lo(k) \in Nat /\ sz(k) \in Nat
      BY <1>1, Zenon
    <3> QED
      BY <2>6, <3>1, <3>2, SMTT(60)
  <2>7. sz(i) = N
    BY <1>3, Zenon DEF sz
  <2>8. ASSUME NEW x \in Nat
        PROVE  (\E j \in 1 .. Len(a) : lo(f(j)) <= x /\ x < lo(f(j)) + sz(f(j))) <=>
               /\ \E k \in 1 .. Len(q) : lo(k) <= x /\ x < lo(k) + sz(k)
               /\ ~(lo(i) <= x /\ x < lo(i) + N)
    BY <2>3, <2>6, <2>7, Zenon
  <2>9. \A x \in Nat : x \in Cover(q) <=> \E k \in 1 .. Len(q) : lo(k) <= x /\ x < lo(k) + sz(k)
    BY CoverIs, Zenon DEF lo, sz
  <2>10. \A x \in Nat : x \in Cover(a) <=> \E j \in 1 .. Len(a) : lo(f(j)) <= x /\ x < lo(f(j)) + sz(f(j))
    BY <2>2, <2>4, CoverIs, Zenon
  <2>11. \A x \in Nat : x \in Cover(a) <=> x \in Cover(q) /\ ~(lo(i) <= x /\ x < lo(i) + N)
    BY <2>8, <2>9, <2>10, Zenon
  <2> QED
    BY <2>2, <2>5, <2>11, Zenon DEF a, lo
<1>4. CASE q[i].size # N
  <2> DEFINE r == Run(q[i].start + N, q[i].size - N)
  <2>1. a = [q EXCEPT ![i] = r]
    BY <1>4, Zenon DEF AllocFrom, N
  <2>2. r.start = lo(i) + N /\ r.size = sz(i) - N
    BY RunFacts, Zenon
  <2>3. lo(i) + N \in Starts
    <3>1. PICK k \in 0 .. DiskSize : lo(i) = N * k
      BY <1>1, Zenon DEF Starts
    <3>2. lo(i) + N = N * (k + 1) /\ k + 1 <= N * (k + 1) /\ k + 1 \in Nat
      BY <3>1, <1>0, Multiples
    <3>3. lo(i) + N <= DiskSize /\ lo(i) + N \in Nat
      <4>1. lo(i) \in Nat /\ sz(i) \in Nat /\ lo(i) + sz(i) <= DiskSize /\ sz(i) >= N
        BY <1>1, Zenon
      <4> HIDE DEF lo, sz
      <4> QED
        BY <1>0, <4>1
    <3>4. k + 1 \in 0 .. DiskSize
      BY <1>0, <3>2, <3>3
    <3> QED
      BY <3>2, <3>4, Zenon DEF Starts
  <2>4. /\ lo(i) \in Nat /\ sz(i) \in Nat /\ sz(i) - N \in Nat \ {0}
        /\ (lo(i) + N) + (sz(i) - N) <= DiskSize /\ (lo(i) + N) + (sz(i) - N) = lo(i) + sz(i)
    <3>1. lo(i) \in Nat /\ sz(i) \in Nat /\ lo(i) + sz(i) <= DiskSize /\ sz(i) >= N /\ sz(i) # N
      BY <1>1, <1>4, Zenon
    <3> HIDE DEF lo, sz
    <3> QED
      BY <1>0, <3>1
  <2>5. r \in GoodRun
    BY <2>3, <2>4, RunFacts, Zenon
  <2> HIDE DEF r
  <2>6. a \in Seq(GoodRun) /\ Len(a) = Len(q) /\ \A j \in 1 .. Len(q) : a[j] = IF j = i THEN r ELSE q[j]
    BY <2>1, <2>5
  <2>7. /\ a[i].start = lo(i) + N /\ a[i].size = sz(i) - N
        /\ \A j \in 1 .. Len(q) \ {i} : a[j].start = lo(j) /\ a[j].size = sz(j)
    BY <2>2, <2>6, Zenon
  <2> HIDE DEF a, lo, sz
  <2>8. ASSUME NEW j \in 1 .. Len(q), NEW k \in 1 .. Len(q), j < k
        PROVE  a[j].start + a[j].size < a[k].start
    <3>1. lo(j) + sz(j) < lo(k) /\ lo(j) \in Nat /\ sz(j) \in Nat /\ lo(k) \in Nat
      BY <1>1, <1>2, <2>8, Zenon
    <3>2. CASE j = i
      BY <1>0, <2>4, <2>7, <2>8, <3>1, <3>2, SMTT(60)
    <3>3. CASE k = i
      <4>1. j # i
        BY <1>0, <2>8, <3>3
      <4>2. a[j].start = lo(j) /\ a[j].size = sz(j) /\ a[k].start = lo(k) + N
        BY <2>7, <3>3, <4>1, Zenon
      <4>3. \A x, y, z \in Nat : x + y < z => x + y < z + N
        BY <1>0
      <4> QED
        BY <3>1, <4>2, <4>3, Zenon
    <3>4. CASE j # i /\ k # i
      BY <2>7, <3>1, <3>4, Zenon
    <3> QED
      BY <3>2, <3>3, <3>4, Zenon
  <2>9. Apart(a)
    BY <2>6, <2>8, Zenon DEF Apart
  <2>10. ASSUME NEW x \in Nat, NEW k \in 1 .. Len(q)
         PROVE  a[k].start <= x /\ x < a[k].start + a[k].size <=>
                lo(k) <= x /\ x < lo(k) + sz(k) /\ ~(lo(i) <= x /\ x < lo(i) + N)
    <3>1. CASE k = i
      BY <1>0, <2>4, <2>7, <3>1, SMTT(60)
    <3>2. CASE k # i
      <4>1. \/ k < i /\ lo(k) + sz(k) < lo(i)
            \/ i < k /\ lo(i) + sz(i) < lo(k)
        BY <1>0, <1>2, <3>2
      <4>2. lo(i) \in Nat /\ sz(i) \in Nat /\ lo(k) \in Nat /\ sz(k) \in Nat
        BY <1>1, Zenon
      <4>3. a[k].start = lo(k) /\ a[k].size = sz(k)
        BY <2>7, <3>2, Zenon
      <4>4. N <= sz(i)
        BY <1>0, <2>4
      <4>5. lo(k) <= x /\ x < lo(k) + sz(k) => ~(lo(i) <= x /\ x < lo(i) + N)
        BY <1>0, <4>1, <4>2, <4>4, SMTT(60)
      <4> QED
        BY <4>3, <4>5, Zenon
    <3> QED
      BY <3>1, <3>2, Zenon
  <2>11. \A x \in Nat : x \in Cover(q) <=> \E k \in 1 .. Len(q) : lo(k) <= x /\ x < lo(k) + sz(k)
    BY CoverIs, Zenon DEF lo, sz
  <2>12. \A x \in Nat : x \in Cover(a) <=> \E j \in 1 .. Len(q) : a[j].start <= x /\ x < a[j].start + a[j].size
    BY <2>6, CoverIs, Zenon
  <2>13. \A x \in Nat : x \in Cover(a) <=> x \in Cover(q) /\ ~(lo(i) <= x /\ x < lo(i) + N)
    BY <2>10, <2>11, <2>12, Zenon
  <2> QED
    BY <2>6, <2>9, <2>13, Zenon DEF a, lo
<1> QED
  BY <1>3, <1>4, Zenon

\* A merge of neighbours that touch keeps the sectors the list covers and parts
\* the two runs; only runs before them may still touch their neighbours.
LEMMA MergeKeeps ==
  ASSUME NEW q \in Seq(GoodRun), NEW i \in Nat, NEW I \in SUBSET (0 .. i), Loose(q, I)
  PROVE  /\ MergeAt(q, i) \in Seq(GoodRun)
         /\ Loose(MergeAt(q, i), I \ {i})
         /\ \A x \in Nat : x \in Cover(MergeAt(q, i)) <=> x \in Cover(q)
<1> DEFINE lo(j) == q[j].start
           sz(j) == q[j].size
<1>0. Len(q) \in Nat /\ DiskSize \in Nat
  BY SwapAssumption
<1>1. \A j \in 1 .. Len(q) : /\ q[j] \in GoodRun /\ lo(j) \in Nat /\ sz(j) \in Nat \ {0}
                             /\ lo(j) + sz(j) <= DiskSize /\ lo(j) \in Starts
  BY RunFacts
<1>2. \A j, k \in 1 .. Len(q) : j < k =>
        lo(j) + sz(j) <= lo(k) /\ ((j \in I /\ k = j + 1) \/ lo(j) + sz(j) < lo(k))
  BY Zenon DEF Loose
<1>3. CASE i \in 1 .. Len(q) - 1 /\ q[i].start + q[i].size = q[i + 1].start
  <2> DEFINE r == Run(q[i].start, q[i].size + q[i + 1].size)
             b == [q EXCEPT ![i] = r]
             a == list_remove(b, i + 1)
             f(j) == IF j <= i THEN j ELSE j + 1
  <2>1. MergeAt(q, i) = a
    BY <1>3, Zenon DEF MergeAt
  <2>2. i \in 1 .. Len(q) /\ i + 1 \in 1 .. Len(q) /\ lo(i) + sz(i) = lo(i + 1)
    BY <1>0, <1>3
  <2>3. /\ lo(i) \in Nat /\ sz(i) \in Nat \ {0} /\ sz(i + 1) \in Nat \ {0} /\ lo(i + 1) \in Nat
        /\ lo(i + 1) + sz(i + 1) <= DiskSize /\ lo(i) \in Starts
    BY <1>1, <2>2, Zenon
  <2>4. r.start = lo(i) /\ r.size = sz(i) + sz(i + 1)
    BY RunFacts, Zenon
  <2>5. r \in GoodRun
    <3>1. sz(i) + sz(i + 1) \in Nat \ {0} /\ lo(i) + (sz(i) + sz(i + 1)) <= DiskSize
      <4> HIDE DEF lo, sz
      <4> QED
        BY <1>0, <2>2, <2>3, SMTT(60)
    <3> QED
      BY <2>3, <3>1, RunFacts, SMTT(60)
  <2> HIDE DEF r
  <2>6. b \in Seq(GoodRun) /\ Len(b) = Len(q) /\ \A j \in 1 .. Len(q) : b[j] = IF j = i THEN r ELSE q[j]
    BY <2>2, <2>5
  <2> HIDE DEF b
  <2>7. /\ a \in Seq(GoodRun) /\ Len(a) = Len(q) - 1
        /\ \A j \in 1 .. Len(q) - 1 : a[j] = IF j < i + 1 THEN b[j] ELSE b[j + 1]
    <3>1. b \in Seq(GoodRun) /\ Len(b) = Len(q) /\ i + 1 \in 1 .. Len(b)
      BY <2>2, <2>6, Zenon
    <3>2. /\ a \in Seq(GoodRun) /\ Len(a) = Len(b) - 1
          /\ \A j \in 1 .. Len(b) - 1 : a[j] = IF j < i + 1 THEN b[j] ELSE b[j + 1]
      BY <3>1, Removed, Zenon
    <3> QED
      BY <3>1, <3>2, Zenon
  <2> HIDE DEF a
  <2>8. /\ \A j \in 1 .. Len(a) : f(j) \in 1 .. Len(q) \ {i + 1} /\ (f(j) = i <=> j = i) /\ a[j] = b[f(j)]
        /\ \A j, k \in 1 .. Len(a) : j < k => f(j) < f(k)
        /\ \A j, k \in 1 .. Len(a) : j < k /\ j < i /\ f(k) = f(j) + 1 => k = j + 1
        /\ i \in 1 .. Len(a)
    <3>1. Len(a) = Len(q) - 1 /\ i \in 1 .. Len(a) /\ Len(a) \in Nat
      BY <1>0, <1>3, <2>7
    <3>2. \A j \in 1 .. Len(a) : a[j] = b[f(j)]
      <4>1. \A j \in 1 .. Len(a) : j < i + 1 <=> j <= i
        BY <3>1
      <4> QED
        BY <2>7, <3>1, <4>1, Zenon
    <3>3. \A j \in 1 .. Len(a) : f(j) \in 1 .. Len(q) \ {i + 1} /\ (f(j) = i <=> j = i)
      BY <1>0, <3>1
    <3>4. \A j, k \in 1 .. Len(a) : j < k => f(j) < f(k)
      BY <1>0, <3>1
    <3>5. \A j, k \in 1 .. Len(a) : j < k /\ j < i /\ f(k) = f(j) + 1 => k = j + 1
      BY <1>0, <3>1
    <3> QED
      BY <3>1, <3>2, <3>3, <3>4, <3>5, Zenon
  <2>9. /\ a[i].start = lo(i) /\ a[i].size = sz(i) + sz(i + 1)
        /\ \A j \in 1 .. Len(a) \ {i} : a[j].start = lo(f(j)) /\ a[j].size = sz(f(j))
    <3>1. a[i] = r
      BY <2>2, <2>6, <2>8, Zenon
    <3>2. \A j \in 1 .. Len(a) \ {i} : a[j] = q[f(j)]
      BY <2>6, <2>8, Zenon
    <3> QED
      BY <2>4, <3>1, <3>2, Zenon
  <2>10. \A k \in 1 .. Len(q) \ {i + 1} : \E j \in 1 .. Len(a) : f(j) = k
    <3>1. SUFFICES ASSUME NEW k \in 1 .. Len(q) \ {i + 1} PROVE \E j \in 1 .. Len(a) : f(j) = k
      BY Zenon
    <3>2. CASE k <= i
      BY <1>0, <1>3, <2>7, <3>2, SMTT(60)
    <3>3. CASE i + 1 < k
      <4>1. k - 1 \in 1 .. Len(a) /\ f(k - 1) = k
        BY <1>0, <1>3, <2>7, <3>3
      <4> QED
        BY <4>1, Zenon
    <3> QED
      BY <1>0, <3>2, <3>3
  <2>11. \A k \in 1 .. Len(q) : i + 1 < k => lo(i + 1) + sz(i + 1) < lo(k)
    <3>1. i + 1 \notin I
      OBVIOUS
    <3> QED
      BY <1>2, <2>2, <3>1, Zenon
  <2> HIDE DEF f, lo, sz
  <2>12. ASSUME NEW j \in 1 .. Len(a), NEW k \in 1 .. Len(a), j < k
         PROVE  /\ a[j].start + a[j].size <= a[k].start
                /\ (j \in I \ {i} /\ k = j + 1) \/ a[j].start + a[j].size < a[k].start
    <3>1. f(j) \in 1 .. Len(q) /\ f(k) \in 1 .. Len(q) /\ f(j) < f(k) /\ f(k) # i + 1 /\ f(j) # i + 1
      BY <2>8, <2>12, Zenon
    <3>2. a[k].start = lo(f(k))
      BY <2>8, <2>9, Zenon
    <3>3. CASE j = i
      <4>1. f(j) = i /\ i + 1 < f(k)
        BY <2>8, <3>1, <3>3
      <4>2. lo(i + 1) + sz(i + 1) < lo(f(k)) /\ lo(f(k)) \in Nat
        BY <1>1, <2>11, <3>1, <4>1, Zenon
      <4>3. a[j].start = lo(i) /\ a[j].size = sz(i) + sz(i + 1)
        BY <2>9, <3>3, Zenon
      <4>4. /\ lo(i) + (sz(i) + sz(i + 1)) <= lo(f(k))
            /\ lo(i) + (sz(i) + sz(i + 1)) < lo(f(k))
        BY <2>2, <2>3, <4>2, SMTT(30)
      <4> QED
        BY <3>2, <4>3, <4>4, Zenon
    <3>4. CASE j # i
      <4>1. a[j].start = lo(f(j)) /\ a[j].size = sz(f(j))
        BY <2>9, <3>4, Zenon
      <4>2. /\ lo(f(j)) + sz(f(j)) <= lo(f(k))
            /\ (f(j) \in I /\ f(k) = f(j) + 1) \/ lo(f(j)) + sz(f(j)) < lo(f(k))
        BY <1>2, <3>1, Zenon
      <4>3. f(j) \in I /\ f(k) = f(j) + 1 => j \in I \ {i} /\ k = j + 1
        <5>1. SUFFICES ASSUME f(j) \in I, f(k) = f(j) + 1 PROVE j \in I \ {i} /\ k = j + 1
          BY Zenon
        <5>2. f(j) <= i /\ f(j) # i
          BY <2>8, <3>4, <5>1
        <5>3. j < i /\ f(j) = j
          BY <5>2 DEF f
        <5> QED
          BY <2>8, <2>12, <3>4, <5>1, <5>3, Zenon
      <4> QED
        BY <3>2, <4>1, <4>2, <4>3, Zenon
    <3> QED
      BY <3>3, <3>4, Zenon
  <2>13. Loose(a, I \ {i})
    BY <2>12, Zenon DEF Loose
  <2>14. \A x \in Nat : x \in Cover(q) <=> \E k \in 1 .. Len(q) : lo(k) <= x /\ x < lo(k) + sz(k)
    BY CoverIs, Zenon DEF lo, sz
  <2>15. \A x \in Nat : x \in Cover(a) <=> \E j \in 1 .. Len(a) : a[j].start <= x /\ x < a[j].start + a[j].size
    BY <2>7, CoverIs, Zenon
  <2>16. ASSUME NEW x \in Nat
         PROVE  a[i].start <= x /\ x < a[i].start + a[i].size <=>
                \/ lo(i) <= x /\ x < lo(i) + sz(i)
                \/ lo(i + 1) <= x /\ x < lo(i + 1) + sz(i + 1)
    BY <2>2, <2>3, <2>9, SMTT(60)
  <2>17. ASSUME NEW x \in Nat
         PROVE  (\E j \in 1 .. Len(a) : a[j].start <= x /\ x < a[j].start + a[j].size) <=>
                (\E k \in 1 .. Len(q) : lo(k) <= x /\ x < lo(k) + sz(k))
    <3>1. ASSUME NEW j \in 1 .. Len(a), a[j].start <= x, x < a[j].start + a[j].size
          PROVE  \E k \in 1 .. Len(q) : lo(k) <= x /\ x < lo(k) + sz(k)
      <4>1. CASE j = i
        BY <2>2, <2>16, <3>1, <4>1, Zenon
      <4>2. CASE j # i
        BY <2>8, <2>9, <3>1, <4>2, Zenon
      <4> QED
        BY <4>1, <4>2, Zenon
    <3>2. ASSUME NEW k \in 1 .. Len(q), lo(k) <= x, x < lo(k) + sz(k)
          PROVE  \E j \in 1 .. Len(a) : a[j].start <= x /\ x < a[j].start + a[j].size
      <4>1. CASE k = i \/ k = i + 1
        BY <2>8, <2>16, <3>2, <4>1, Zenon
      <4>2. CASE k # i /\ k # i + 1
        <5>1. PICK j \in 1 .. Len(a) : f(j) = k
          BY <2>10, <4>2, Zenon
        <5>2. j # i
          BY <2>8, <4>2, <5>1, Zenon
        <5> QED
          BY <2>9, <3>2, <5>1, <5>2, Zenon
      <4> QED
        BY <4>1, <4>2, Zenon
    <3> QED
      BY <3>1, <3>2, Zenon
  <2> QED
    BY <2>1, <2>7, <2>13, <2>14, <2>15, <2>17, Zenon
<1>4. CASE ~(i \in 1 .. Len(q) - 1 /\ q[i].start + q[i].size = q[i + 1].start)
  <2>1. MergeAt(q, i) = q
    BY <1>4, Zenon DEF MergeAt
  <2>2. ASSUME NEW j \in 1 .. Len(q), NEW k \in 1 .. Len(q), j < k
        PROVE  lo(j) + sz(j) <= lo(k) /\ ((j \in I \ {i} /\ k = j + 1) \/ lo(j) + sz(j) < lo(k))
    <3>1. CASE j = i /\ k = j + 1
      <4>1. i \in 1 .. Len(q) - 1
        BY <1>0, <3>1
      <4>2. lo(j) + sz(j) # lo(k)
        BY <1>4, <3>1, <4>1, Zenon
      <4>3. lo(j) + sz(j) <= lo(k) /\ lo(j) \in Nat /\ sz(j) \in Nat /\ lo(k) \in Nat
        BY <1>1, <1>2, <2>2, Zenon
      <4> HIDE DEF lo, sz
      <4> QED
        BY <4>2, <4>3
    <3>2. CASE ~(j = i /\ k = j + 1)
      BY <1>2, <2>2, <3>2, Zenon
    <3> QED
      BY <3>1, <3>2, Zenon
  <2>3. Loose(q, I \ {i})
    BY <2>2, Zenon DEF Loose
  <2> QED
    BY <2>1, <2>3, Zenon
<1> QED
  BY <1>3, <1>4, Zenon

\* free_swap_slot() puts the slot's sectors back in the list, in order and merged.
LEMMA FreeKeeps ==
  ASSUME NEW q \in Seq(GoodRun), Apart(q), NEW start \in Starts, start + N <= DiskSize,
         \A x \in Nat : start <= x /\ x < start + N => x \notin Cover(q)
  PROVE  /\ FreeInto(q, start) \in Seq(GoodRun)
         /\ Apart(FreeInto(q, start))
         /\ \A x \in Nat : x \in Cover(FreeInto(q, start)) <=> x \in Cover(q) \/ (start <= x /\ x < start + N)
<1> DEFINE r == Run(start, SECTORS_PER_FRAME)
           i == Place(q, r)
           a == list_insert(q, i, r)
           b == MergeAt(a, i)
           c == MergeAt(b, i - 1)
           lo(j) == q[j].start
           sz(j) == q[j].size
           up(j) == a[j].start
           uz(j) == a[j].size
<1>0. N \in Nat \ {0} /\ Len(q) \in Nat /\ DiskSize \in Nat /\ start \in Nat
  BY Multiples, SwapAssumption, RunFacts
<1>1. FreeInto(q, start) = c
  BY Zenon DEF FreeInto
<1>2. r \in GoodRun /\ r.start = start /\ r.size = N
  BY <1>0, RunFacts, Zenon DEF N
<1> HIDE DEF r
<1>3. /\ i \in 1 .. Len(q) + 1
      /\ \A j \in 1 .. Len(q) : j < i => lo(j) <= start
      /\ i <= Len(q) => start < lo(i)
  BY <1>2, PlaceFinds, Zenon
<1> HIDE DEF i
<1>4. /\ a \in Seq(GoodRun) /\ Len(a) = Len(q) + 1
      /\ \A j \in 1 .. Len(q) + 1 : a[j] = IF j < i THEN q[j] ELSE IF j = i THEN r ELSE q[j - 1]
  BY <1>2, <1>3, Inserted
<1>5. \A j \in 1 .. Len(q) : lo(j) \in Nat /\ sz(j) \in Nat \ {0}
  BY RunFacts
<1>6. \A j, k \in 1 .. Len(q) : j < k => lo(j) + sz(j) < lo(k)
  BY Zenon DEF Apart
<1>7. \A x \in Nat : x \in Cover(q) <=> \E k \in 1 .. Len(q) : lo(k) <= x /\ x < lo(k) + sz(k)
  BY CoverIs, Zenon
<1>8. \A j \in 1 .. Len(a) : /\ j < i => j \in 1 .. Len(q) /\ up(j) = lo(j) /\ uz(j) = sz(j)
                             /\ j = i => up(j) = start /\ uz(j) = N
                             /\ i < j => j - 1 \in 1 .. Len(q) /\ up(j) = lo(j - 1) /\ uz(j) = sz(j - 1)
  <2>1. \A j \in 1 .. Len(a) : (j < i => j \in 1 .. Len(q)) /\ (i < j => j - 1 \in 1 .. Len(q))
    BY <1>0, <1>3, <1>4
  <2> QED
    BY <1>0, <1>2, <1>3, <1>4, <2>1, SMTT(60)
<1> HIDE DEF lo, sz
\* No run of the list holds a sector of the slot.
<1>9. ASSUME NEW j \in 1 .. Len(q), j < i PROVE lo(j) + sz(j) <= start
  <2>1. lo(j) <= start
    BY <1>3, <1>9, Zenon
  <2>2. ~(lo(j) <= start /\ start < lo(j) + sz(j))
    <3>1. start \notin Cover(q)
      BY <1>0
    <3> QED
      BY <1>0, <1>7, <3>1, Zenon
  <2> QED
    BY <1>0, <1>5, <2>1, <2>2
<1>10. ASSUME NEW j \in 1 .. Len(q), i <= j PROVE start + N <= lo(j)
  <2>1. start < lo(j)
    <3>1. i \in 1 .. Len(q) /\ start < lo(i)
      BY <1>0, <1>3, <1>10
    <3>2. CASE i = j
      BY <3>1, <3>2, Zenon
    <3>3. CASE i < j
      <4>1. lo(i) + sz(i) < lo(j) /\ lo(i) \in Nat /\ sz(i) \in Nat /\ lo(j) \in Nat
        BY <1>5, <1>6, <3>1, <3>3, Zenon
      <4> QED
        BY <1>0, <3>1, <4>1
    <3> QED
      BY <1>0, <1>3, <1>10, <3>2, <3>3, SMTT(60)
  <2>2. lo(j) \in Nat /\ sz(j) \in Nat \ {0}
    BY <1>5, Zenon
  <2>3. lo(j) \in Cover(q)
    <3>1. lo(j) <= lo(j) /\ lo(j) < lo(j) + sz(j)
      BY <2>2
    <3> QED
      BY <1>7, <2>2, <3>1, Zenon
  <2>4. ~(start <= lo(j) /\ lo(j) < start + N)
    BY <2>2, <2>3, Zenon
  <2> QED
    BY <1>0, <2>1, <2>2, <2>4
<1> HIDE DEF a, up, uz
<1>11. ASSUME NEW j \in 1 .. Len(a), NEW k \in 1 .. Len(a), j < k
       PROVE  /\ up(j) + uz(j) <= up(k)
              /\ (j \in {i - 1, i} /\ k = j + 1) \/ up(j) + uz(j) < up(k)
  <2>0. i \in Nat /\ j \in Nat /\ k \in Nat
    BY <1>3
  <2>1. CASE k < i
    <3>1. j \in 1 .. Len(q) /\ k \in 1 .. Len(q) /\ up(j) = lo(j) /\ uz(j) = sz(j) /\ up(k) = lo(k)
      BY <1>8, <1>11, <2>0, <2>1
    <3>2. lo(j) + sz(j) < lo(k) /\ lo(j) \in Nat /\ sz(j) \in Nat /\ lo(k) \in Nat
      BY <1>5, <1>6, <1>11, <3>1, Zenon
    <3> QED
      BY <3>1, <3>2
  <2>2. CASE k = i
    <3>1. j \in 1 .. Len(q) /\ up(j) = lo(j) /\ uz(j) = sz(j) /\ up(k) = start
      BY <1>8, <1>11, <2>0, <2>2, Zenon
    <3>2. CASE j = i - 1
      BY <1>9, <1>11, <2>0, <2>2, <3>1, <3>2
    <3>3. CASE j < i - 1
      <4>1. i - 1 \in 1 .. Len(q)
        BY <1>0, <1>3, <2>0, <3>3
      <4>2. /\ lo(j) + sz(j) < lo(i - 1) /\ lo(i - 1) + sz(i - 1) <= start
            /\ lo(j) \in Nat /\ sz(j) \in Nat /\ lo(i - 1) \in Nat /\ sz(i - 1) \in Nat
        BY <1>5, <1>6, <1>9, <2>0, <3>1, <3>3, <4>1, SMTT(60)
      <4> QED
        BY <1>0, <3>1, <4>2, SMTT(60)
    <3> QED
      BY <1>11, <2>0, <2>2, <3>2, <3>3
  <2>3. CASE i < k /\ j < i
    <3>1. /\ j \in 1 .. Len(q) /\ up(j) = lo(j) /\ uz(j) = sz(j)
          /\ k - 1 \in 1 .. Len(q) /\ up(k) = lo(k - 1) /\ j < k - 1
      BY <1>8, <2>0, <2>3
    <3>2. lo(j) + sz(j) < lo(k - 1) /\ lo(j) \in Nat /\ sz(j) \in Nat /\ lo(k - 1) \in Nat
      BY <1>5, <1>6, <3>1, Zenon
    <3> QED
      BY <3>1, <3>2, SMTT(60)
  <2>4. CASE i < k /\ j = i
    <3>1. up(j) = start /\ uz(j) = N /\ k - 1 \in 1 .. Len(q) /\ up(k) = lo(k - 1) /\ i <= k - 1
      BY <1>8, <2>0, <2>4
    <3>2. CASE k = i + 1
      BY <1>10, <2>4, <3>1, <3>2, Zenon
    <3>3. CASE i + 1 < k
      <4>1. i \in 1 .. Len(q) /\ i < k - 1
        BY <1>0, <1>3, <2>0, <3>1, <3>3
      <4>2. /\ start + N <= lo(i) /\ lo(i) + sz(i) < lo(k - 1)
            /\ lo(i) \in Nat /\ sz(i) \in Nat \ {0} /\ lo(k - 1) \in Nat
        BY <1>5, <1>6, <1>10, <2>0, <3>1, <4>1, SMTT(60)
      <4> QED
        BY <1>0, <3>1, <4>2, SMTT(60)
    <3> QED
      BY <2>0, <2>4, <3>2, <3>3, SMTT(60)
  <2>5. CASE i < k /\ i < j
    <3>1. /\ j - 1 \in 1 .. Len(q) /\ up(j) = lo(j - 1) /\ uz(j) = sz(j - 1)
          /\ k - 1 \in 1 .. Len(q) /\ up(k) = lo(k - 1) /\ j - 1 < k - 1
      BY <1>8, <1>11, <2>0, <2>5
    <3>2. lo(j - 1) + sz(j - 1) < lo(k - 1) /\ lo(j - 1) \in Nat /\ sz(j - 1) \in Nat /\ lo(k - 1) \in Nat
      BY <1>5, <1>6, <3>1, Zenon
    <3> QED
      BY <3>1, <3>2
  <2> QED
    BY <2>0, <2>1, <2>2, <2>3, <2>4, <2>5
<1>12. Loose(a, {i - 1, i})
  BY <1>11, Zenon DEF Loose, up, uz
<1>13. /\ b \in Seq(GoodRun) /\ Loose(b, {i - 1, i} \ {i})
       /\ \A x \in Nat : x \in Cover(b) <=> x \in Cover(a)
  <2>1. {i - 1, i} \in SUBSET (0 .. i) /\ i \in Nat
    BY <1>3
  <2> QED
    BY <1>4, <1>12, <2>1, MergeKeeps, Zenon
<1> HIDE DEF b
<1>14. /\ c \in Seq(GoodRun) /\ Loose(c, {i - 1} \ {i - 1})
       /\ \A x \in Nat : x \in Cover(c) <=> x \in Cover(b)
  <2>1. {i - 1} \in SUBSET (0 .. i - 1) /\ i - 1 \in Nat /\ {i - 1, i} \ {i} = {i - 1}
    BY <1>3
  <2>2. Loose(b, {i - 1})
    BY <1>13, <2>1, Zenon
  <2> QED
    BY <1>13, <2>1, <2>2, MergeKeeps, Zenon
<1> HIDE DEF c
<1>15. Apart(c)
  BY <1>14, Zenon DEF Loose, Apart
<1>16. \A x \in Nat : x \in Cover(a) <=> \E j \in 1 .. Len(a) : up(j) <= x /\ x < up(j) + uz(j)
  BY <1>4, CoverIs, Zenon DEF up, uz
<1>17. ASSUME NEW x \in Nat PROVE x \in Cover(a) <=> x \in Cover(q) \/ (start <= x /\ x < start + N)
  <2>1. ASSUME NEW j \in 1 .. Len(a), up(j) <= x, x < up(j) + uz(j)
        PROVE  x \in Cover(q) \/ (start <= x /\ x < start + N)
    <3>1. CASE j < i
      BY <1>7, <1>8, <2>1, <3>1, Zenon
    <3>2. CASE j = i
      BY <1>8, <2>1, <3>2, Zenon
    <3>3. CASE i < j
      BY <1>7, <1>8, <2>1, <3>3, Zenon
    <3> QED
      BY <1>3, <3>1, <3>2, <3>3
  <2>2. ASSUME NEW k \in 1 .. Len(q), lo(k) <= x, x < lo(k) + sz(k)
        PROVE  \E j \in 1 .. Len(a) : up(j) <= x /\ x < up(j) + uz(j)
    <3>1. CASE k < i
      <4>1. k \in 1 .. Len(a) /\ up(k) = lo(k) /\ uz(k) = sz(k)
        BY <1>0, <1>4, <1>8, <3>1
      <4> QED
        BY <2>2, <4>1, Zenon
    <3>2. CASE i <= k
      <4>1. k + 1 \in 1 .. Len(a) /\ i < k + 1 /\ (k + 1) - 1 = k
        BY <1>0, <1>3, <1>4, <3>2
      <4>2. up(k + 1) = lo(k) /\ uz(k + 1) = sz(k)
        BY <1>8, <4>1, Zenon
      <4> QED
        BY <2>2, <4>1, <4>2, Zenon
    <3> QED
      BY <1>3, <3>1, <3>2
  <2>3. ASSUME start <= x /\ x < start + N
        PROVE  \E j \in 1 .. Len(a) : up(j) <= x /\ x < up(j) + uz(j)
    <3>1. i \in 1 .. Len(a) /\ up(i) = start /\ uz(i) = N
      BY <1>3, <1>4, <1>8, Zenon
    <3> QED
      BY <2>3, <3>1, Zenon
  <2> QED
    BY <1>7, <1>16, <2>1, <2>2, <2>3, Zenon
<1> QED
  BY <1>1, <1>13, <1>14, <1>15, <1>17, Zenon

-----------------------------------------------------------------------------
(* The steps.                                                              *)

\* No sector of the disk is the number that stands for failure.
LEMMA Numbers ==
  /\ N \in Nat \ {0} /\ DiskSize \in Nat \ {0} /\ NoSector \notin Sector
  /\ Sector \subseteq Nat /\ \A x \in Nat : x \in Sector <=> x < DiskSize
BY SwapAssumption DEF N, NoSector, Sector

\* What a slot and a job are.
LEMMA Fields ==
  ASSUME Typed
  PROVE  /\ \A s \in slots : s.start \in Nat /\ s.start \in Sector /\ s.start \in Starts /\ s.page \in Value
         /\ \A p \in Proc : /\ job[p].op \in {"idle", "full", "write", "read"}
                            /\ job[p].start \in Sector \cup {NoSector}
                            /\ job[p].pos \in 0 .. N
         /\ \A s, t \in slots : s.start = t.start /\ s.page = t.page => s = t
<1>1. \A s \in slots : s \in [start : Starts \cap Sector, page : Value]
  BY Zenon DEF Typed
<1>2. \A p \in Proc : job[p] \in JobType
  BY Zenon DEF Typed
<1>3. \A s \in slots : s.start \in Nat /\ s.start \in Sector /\ s.start \in Starts /\ s.page \in Value
  BY <1>1, Numbers, Zenon
<1> QED
  BY <1>1, <1>2, <1>3 DEF JobType

\* Two slots in use that start at the same sector are one.
LEMMA OneSlot ==
  ASSUME Typed, Accounted, NEW s \in slots, NEW t \in slots, s.start = t.start
  PROVE  s = t
<1>1. s.start \in Nat /\ N \in Nat \ {0}
  BY Fields, Numbers, Zenon
<1>2. ~(s.start + N <= s.start)
  BY <1>1
<1> QED
  BY <1>2, Zenon DEF Accounted

\* Only the thread at work on a slot has its sector number.
LEMMA OneJob ==
  ASSUME Typed, JobsOK, NEW p \in Proc, NEW q \in Proc, NEW s \in slots,
         job[p].start = s.start, job[q].start = s.start
  PROVE  p = q
<1>1. s.start # NoSector
  BY Fields, Numbers, Zenon
<1> QED
  BY <1>1, Zenon DEF JobsOK

\* A page that is in a frame has the sectors that PageOf() says.
LEMMA PageFacts ==
  /\ \A v \in Value : PageOf(v) \in [PageSector -> Content]
  /\ Blank \in [PageSector -> Content]
  /\ Idle \in JobType
BY Numbers DEF PageOf, Blank, PageSector, Content, N, Idle, JobType
\* swap_init(): one run holds the whole disk.
LEMMA SwapInvInit == Init => SwapInv
<1> SUFFICES ASSUME Init PROVE SwapInv
  BY Zenon
<1> DEFINE r == Run(0, DiskSize)
<1>0. N \in Nat \ {0} /\ DiskSize \in Nat \ {0}
  BY Numbers, Zenon
<1>1. 0 \in Starts
  BY <1>0 DEF Starts
<1>2. r \in GoodRun /\ r.start = 0 /\ r.size = DiskSize
  BY <1>0, <1>1, RunFacts
<1>3. free_swap_list = <<r>> /\ slots = {} /\ \A p \in Proc : job[p] = Idle
  BY Zenon DEF Init
<1> HIDE DEF r
<1>4. free_swap_list \in Seq(GoodRun) /\ Len(free_swap_list) = 1 /\ free_swap_list[1] = r
  BY <1>2, <1>3
<1>5. Typed
  <2>1. job \in [Proc -> JobType]
    BY PageFacts, Zenon DEF Init
  <2>2. disk \in [Sector -> Content]
    BY Zenon DEF Init, Content
  <2>3. frame \in [Proc -> [PageSector -> Content]]
    BY PageFacts, Zenon DEF Init
  <2> QED
    BY <1>3, <1>4, <2>1, <2>2, <2>3, Zenon DEF Typed
<1>6. Apart(free_swap_list)
  BY <1>4 DEF Apart
<1>7. Accounted
  <2>1. \A x \in Sector : x \in Nat /\ 0 <= x /\ x < 0 + DiskSize
    BY <1>0 DEF Sector
  <2>2. \A x \in Sector : x \in Cover(free_swap_list)
    BY <1>2, <1>4, <2>1, CoverIs
  <2> QED
    BY <1>3, <2>2, Zenon DEF Accounted
<1>8. JobsOK
  BY <1>3 DEF JobsOK, Idle
<1> QED
  BY <1>3, <1>5, <1>6, <1>7, <1>8, Zenon DEF SwapInv, FramesOK, DiskOK, PagesSurvive

\* The slot that swap_slot_write() finds is free: no slot in use overlaps it, and no thread has its number.
LEMMA FreshSlot ==
  ASSUME SwapInv, FirstFit(free_swap_list) # 0
  PROVE  LET i == FirstFit(free_swap_list)
             a == free_swap_list[i].start
         IN  /\ i \in 1 .. Len(free_swap_list) /\ free_swap_list[i].size >= N
             /\ a \in Nat /\ a \in Sector /\ a \in Starts /\ a + N <= DiskSize
             /\ \A x \in Nat : Within(x, a) => x \in Cover(free_swap_list)
             /\ \A s \in slots : s.start + N <= a \/ a + N <= s.start
             /\ \A s \in slots : s.start # a
             /\ \A q \in Proc : job[q].start # a
<1> DEFINE i == FirstFit(free_swap_list)
           a == free_swap_list[i].start
           z == free_swap_list[i].size
<1>0. N \in Nat \ {0} /\ DiskSize \in Nat \ {0} /\ free_swap_list \in Seq(GoodRun)
  BY Numbers, Zenon DEF SwapInv, Typed
<1>1. i \in 1 .. Len(free_swap_list) /\ z >= N
  BY <1>0, FirstFitFinds, Zenon
<1>2. free_swap_list[i] \in GoodRun
  BY <1>0, <1>1
<1>3. a \in Nat /\ a \in Starts /\ z \in Nat /\ a + z <= DiskSize
  BY <1>2, RunFacts, Zenon
<1>x. \A x \in Nat : a <= x /\ x < a + z => x \in Cover(free_swap_list)
  BY <1>0, <1>1, CoverIs, Zenon
<1> HIDE DEF a, z
<1>4. a + N <= DiskSize /\ a < DiskSize
  BY <1>0, <1>1, <1>3
<1>5. a \in Sector
  BY <1>3, <1>4, Numbers, Zenon
<1>6. ASSUME NEW x \in Nat, Within(x, a) PROVE x \in Cover(free_swap_list)
  BY <1>0, <1>1, <1>3, <1>6, <1>x DEF Within
<1>7. ASSUME NEW s \in slots PROVE s.start + N <= a \/ a + N <= s.start
  <2>1. s.start \in Nat
    BY Fields, Zenon DEF SwapInv
  <2>2. Within(a, a)
    BY <1>0, <1>3 DEF Within
  <2>3. ~Within(a, s.start)
    BY <1>3, <1>6, <2>2, Zenon DEF SwapInv, Accounted
  <2>4. ~Within(s.start, a)
    <3>1. Within(s.start, s.start)
      BY <1>0, <2>1 DEF Within
    <3> QED
      BY <1>6, <2>1, <3>1, Zenon DEF SwapInv, Accounted
  <2> QED
    BY <1>0, <1>3, <2>1, <2>3, <2>4 DEF Within
<1>8. ASSUME NEW s \in slots PROVE s.start # a
  BY <1>0, <1>3, <1>7
<1>9. ASSUME NEW q \in Proc PROVE job[q].start # a
  <2>1. job[q].op \in {"write", "read"} \/ job[q].op \in {"idle", "full"}
    BY Fields, Zenon DEF SwapInv
  <2>2. a # NoSector
    BY <1>5, Numbers, Zenon
  <2> QED
    BY <1>8, <2>1, <2>2, Zenon DEF SwapInv, JobsOK
<1> QED
  BY <1>1, <1>3, <1>4, <1>5, <1>6, <1>7, <1>8, <1>9, Zenon DEF a, z
\* swap_slot_write() when no run is large enough: nothing but the thread's own state changes.
LEMMA WriteFullStep ==
  ASSUME SwapInv, NEW p \in Proc, NEW v \in Value, Write(p, v), FirstFit(free_swap_list) = 0
  PROVE  SwapInv'
<1> USE DEF SwapInv
<1>1. /\ job' = [job EXCEPT ![p] = [Idle EXCEPT !.op = "full"]]
      /\ frame' = [frame EXCEPT ![p] = PageOf(v)]
      /\ free_swap_list' = free_swap_list /\ slots' = slots /\ disk' = disk /\ job[p].op = "idle"
  BY Zenon DEF Write
<1>2. [Idle EXCEPT !.op = "full"] \in JobType
  BY PageFacts, Zenon DEF JobType, Idle
<1>3. Typed'
  BY <1>1, <1>2, PageFacts, Zenon DEF Typed
<1>4. /\ job'[p].op = "full" /\ job'[p].start = NoSector
      /\ \A q \in Proc : q # p => job'[q] = job[q] /\ frame'[q] = frame[q]
  BY <1>1, Zenon DEF Typed, Idle
<1>5. Apart(free_swap_list') /\ Accounted'
  BY <1>1, Zenon DEF Accounted
<1>6. JobsOK'
  BY <1>1, <1>4 DEF JobsOK
<1>7. FramesOK'
  BY <1>1, <1>4 DEF FramesOK
<1>8. DiskOK'
  <2> SUFFICES ASSUME NEW s \in slots, NEW i \in PageSector, ~(disk[s.start + i] = PageOf(s.page)[i])
      PROVE  \E q \in Proc : job'[q].op = "write" /\ job'[q].start = s.start /\ job'[q].pos <= i
    BY <1>1, Zenon DEF DiskOK
  <2>1. PICK q \in Proc : job[q].op = "write" /\ job[q].start = s.start /\ job[q].pos <= i
    BY Zenon DEF DiskOK
  <2>2. q # p
    BY <1>1, <2>1, Zenon
  <2> QED
    BY <1>4, <2>1, <2>2, Zenon
<1>9. PagesSurvive'
  BY <1>1, <1>4 DEF PagesSurvive
<1> QED
  BY <1>3, <1>5, <1>6, <1>7, <1>8, <1>9, Zenon

\* swap_slot_write() carves a slot out of the first run that is large enough.
LEMMA WriteStep ==
  ASSUME SwapInv, NEW p \in Proc, NEW v \in Value, Write(p, v), FirstFit(free_swap_list) # 0
  PROVE  SwapInv'
<1> DEFINE i == FirstFit(free_swap_list)
           a == free_swap_list[i].start
           n == [start |-> a, page |-> v]
<1> USE DEF SwapInv
<1>0. N \in Nat \ {0} /\ DiskSize \in Nat \ {0} /\ free_swap_list \in Seq(GoodRun)
  BY Numbers, Zenon DEF Typed
<1>1. /\ job' = [job EXCEPT ![p] = [op |-> "write", start |-> a, pos |-> 0]]
      /\ frame' = [frame EXCEPT ![p] = PageOf(v)]
      /\ free_swap_list' = AllocFrom(free_swap_list, i)
      /\ slots' = slots \cup {n} /\ disk' = disk /\ job[p].op = "idle"
  BY Zenon DEF Write
<1>2. /\ i \in 1 .. Len(free_swap_list) /\ free_swap_list[i].size >= N
      /\ a \in Nat /\ a \in Sector /\ a \in Starts /\ a + N <= DiskSize
      /\ \A x \in Nat : Within(x, a) => x \in Cover(free_swap_list)
      /\ \A s \in slots : s.start + N <= a \/ a + N <= s.start
      /\ \A s \in slots : s.start # a
      /\ \A q \in Proc : job[q].start # a
  BY FreshSlot, Zenon
<1>3. /\ free_swap_list' \in Seq(GoodRun) /\ Apart(free_swap_list')
      /\ \A x \in Nat : x \in Cover(free_swap_list') <=> x \in Cover(free_swap_list) /\ ~Within(x, a)
  BY <1>0, <1>1, <1>2, AllocKeeps, Zenon DEF Within
<1> HIDE DEF i, a
<1>n. n.start = a /\ n.page = v
  BY Zenon
<1>4. n \in [start : Starts \cap Sector, page : Value]
  BY <1>2, Zenon
<1> HIDE DEF n
<1>5. Typed'
  <2>1. [op |-> "write", start |-> a, pos |-> 0] \in JobType
    BY <1>0, <1>2 DEF JobType
  <2>2. job' \in [Proc -> JobType]
    BY <1>1, <2>1, Zenon DEF Typed
  <2>3. frame' \in [Proc -> [PageSector -> Content]]
    BY <1>1, PageFacts, Zenon DEF Typed
  <2> QED
    BY <1>1, <1>3, <1>4, <2>2, <2>3, Zenon DEF Typed
<1>6. /\ job'[p].op = "write" /\ job'[p].start = a /\ job'[p].pos = 0 /\ frame'[p] = PageOf(v)
      /\ \A q \in Proc : q # p => job'[q] = job[q] /\ frame'[q] = frame[q]
  BY <1>1, Zenon DEF Typed
<1>7. Accounted'
  <2>1. \A s \in slots' : s.start + N <= DiskSize
    BY <1>1, <1>2, <1>n, Zenon DEF Accounted
  <2>2. \A x \in Sector : x \in Cover(free_swap_list') \/ \E s \in slots' : Within(x, s.start)
    <3> SUFFICES ASSUME NEW x \in Sector, ~(x \in Cover(free_swap_list'))
        PROVE  \E s \in slots' : Within(x, s.start)
      BY Zenon
    <3>1. x \in Nat
      BY Numbers, Zenon
    <3>2. CASE Within(x, a)
      BY <1>1, <1>n, <3>2, Zenon
    <3>3. CASE ~Within(x, a)
      <4>1. ~(x \in Cover(free_swap_list))
        BY <1>3, <3>1, <3>3, Zenon
      <4>2. PICK s \in slots : Within(x, s.start)
        BY <4>1, Zenon DEF Accounted
      <4> QED
        BY <1>1, <4>2, Zenon
    <3> QED
      BY <3>2, <3>3, Zenon
  <2>3. \A s \in slots' : \A x \in Cover(free_swap_list') : ~Within(x, s.start)
    <3> SUFFICES ASSUME NEW s \in slots', NEW x \in Cover(free_swap_list') PROVE ~Within(x, s.start)
      BY Zenon
    <3>1. x \in Nat
      BY <1>3, CoverIs, Zenon
    <3>2. x \in Cover(free_swap_list) /\ ~Within(x, a)
      BY <1>3, <3>1, Zenon
    <3> QED
      BY <1>1, <1>n, <3>2, Zenon DEF Accounted
  <2>4. \A s, t \in slots' : s # t => s.start + N <= t.start \/ t.start + N <= s.start
    BY <1>1, <1>2, <1>n, Zenon DEF Accounted
  <2> QED
    BY <2>1, <2>2, <2>3, <2>4, Zenon DEF Accounted
<1>8. JobsOK'
  BY <1>1, <1>2, <1>6, <1>n, SMTT(60) DEF JobsOK
<1>9. FramesOK'
  BY <1>1, <1>2, <1>6, <1>n DEF FramesOK
<1>10. DiskOK'
  <2> SUFFICES ASSUME NEW s \in slots', NEW k \in PageSector, ~(disk[s.start + k] = PageOf(s.page)[k])
      PROVE  \E q \in Proc : job'[q].op = "write" /\ job'[q].start = s.start /\ job'[q].pos <= k
    BY <1>1, Zenon DEF DiskOK
  <2>1. CASE s = n
    <3>1. 0 <= k
      BY <1>0 DEF PageSector
    <3> QED
      BY <1>6, <1>n, <2>1, <3>1, Zenon
  <2>2. CASE s # n
    <3>1. s \in slots
      BY <1>1, <2>2, Zenon
    <3>2. PICK q \in Proc : job[q].op = "write" /\ job[q].start = s.start /\ job[q].pos <= k
      BY <3>1, Zenon DEF DiskOK
    <3>3. q # p
      BY <1>1, <3>2, Zenon
    <3> QED
      BY <1>6, <3>2, <3>3, Zenon
  <2> QED
    BY <2>1, <2>2, Zenon
<1>11. PagesSurvive'
  <2> SUFFICES ASSUME NEW q \in Proc, NEW s \in slots', job'[q].op = "read", job'[q].start = s.start
      PROVE  \A k \in 0 .. job'[q].pos - 1 : frame'[q][k] = PageOf(s.page)[k]
    BY Zenon DEF PagesSurvive
  <2>1. q # p /\ s \in slots
    BY <1>1, <1>2, <1>6, <1>n, Zenon
  <2>2. job'[q] = job[q] /\ frame'[q] = frame[q]
    BY <1>6, <2>1, Zenon
  <2> QED
    BY <2>1, <2>2 DEF PagesSurvive
<1> QED
  BY <1>3, <1>5, <1>7, <1>8, <1>9, <1>10, <1>11, Zenon
\* disk_write() of the next sector of a page that is swapped out.
LEMMA WriteSectorStep ==
  ASSUME SwapInv, NEW p \in Proc, WriteSector(p)
  PROVE  SwapInv'
<1> DEFINE b == job[p].start
           k == job[p].pos
<1> USE DEF SwapInv
<1>0. N \in Nat \ {0} /\ DiskSize \in Nat \ {0}
  BY Numbers, Zenon
<1>1. /\ job[p].op = "write" /\ k < N
      /\ disk' = [disk EXCEPT ![b + k] = frame[p][k]]
      /\ job' = [job EXCEPT ![p].pos = @ + 1]
      /\ free_swap_list' = free_swap_list /\ slots' = slots /\ frame' = frame
  BY Zenon DEF WriteSector, N
<1>2. PICK s \in slots : s.start = b
  BY <1>1, Zenon DEF JobsOK
<1>3. b \in Nat /\ b + N <= DiskSize /\ k \in 0 .. N
  BY <1>2, Fields, Zenon DEF Accounted
<1>4. b + k \in Sector /\ k \in PageSector
  BY <1>0, <1>1, <1>3, Numbers DEF PageSector
<1>5. frame[p] = PageOf(s.page)
  BY <1>1, <1>2, Zenon DEF FramesOK
<1>6. Typed'
  <2>1. [job[p] EXCEPT !.pos = @ + 1] \in JobType
    <3>1. job[p] \in JobType /\ k + 1 \in 0 .. N
      BY <1>0, <1>1, <1>3 DEF Typed
    <3> QED
      BY <3>1, Zenon DEF JobType
  <2>2. job' \in [Proc -> JobType]
    BY <1>1, <2>1, Zenon DEF Typed
  <2>3. disk' \in [Sector -> Content]
    BY <1>1, <1>4, Zenon DEF Typed
  <2> QED
    BY <1>1, <2>2, <2>3, Zenon DEF Typed
<1>7. /\ job'[p].op = "write" /\ job'[p].start = b /\ job'[p].pos = k + 1
      /\ \A q \in Proc : q # p => job'[q] = job[q]
  <2>1. job[p] \in JobType /\ job'[p] = [job[p] EXCEPT !.pos = @ + 1]
    BY <1>1, Zenon DEF Typed
  <2> QED
    BY <1>1, <2>1, Zenon DEF JobType, Typed
<1>8. disk'[b + k] = frame[p][k] /\ \A x \in Sector : x # b + k => disk'[x] = disk[x]
  BY <1>1, <1>4, Zenon DEF Typed
<1> HIDE DEF b, k
<1>b. b = job[p].start /\ k = job[p].pos
  BY Zenon DEF b, k
<1>9. Apart(free_swap_list') /\ Accounted'
  BY <1>1, Zenon DEF Accounted
<1>10. JobsOK'
  BY <1>1, <1>7, <1>b DEF JobsOK
<1>11. FramesOK'
  BY <1>1, <1>7, <1>b DEF FramesOK
<1>12. DiskOK'
  <2> SUFFICES ASSUME NEW t \in slots, NEW j \in PageSector, ~(disk'[t.start + j] = PageOf(t.page)[j])
      PROVE  \E q \in Proc : job'[q].op = "write" /\ job'[q].start = t.start /\ job'[q].pos <= j
    BY <1>1, Zenon DEF DiskOK
  <2>0. t.start \in Nat /\ t.start + N <= DiskSize /\ j \in Nat /\ j < N
    BY <1>0, Fields, SMTT(60) DEF Accounted, PageSector
  <2>1. t.start + j \in Sector
    BY <1>0, <2>0, Numbers
  <2>2. CASE t = s
    <3>1. j # k
      BY <1>2, <1>5, <1>8, <2>2, Zenon
    <3>2. t.start + j # b + k
      BY <1>2, <1>3, <2>0, <2>2, <3>1
    <3>3. ~(disk[t.start + j] = PageOf(t.page)[j])
      BY <1>8, <2>1, <3>2, Zenon
    <3>4. PICK q \in Proc : job[q].op = "write" /\ job[q].start = t.start /\ job[q].pos <= j
      BY <3>3, Zenon DEF DiskOK
    <3>5. q = p
      BY <1>2, <1>b, <2>2, <3>4, OneJob, Zenon
    <3>6. k + 1 <= j
      BY <1>3, <1>b, <2>0, <3>1, <3>4, <3>5
    <3> QED
      BY <1>2, <1>7, <2>2, <3>6, Zenon
  <2>3. CASE t # s
    <3>1. t.start + N <= s.start \/ s.start + N <= t.start
      BY <2>3, Zenon DEF Accounted
    <3>2. t.start + j # b + k
      BY <1>0, <1>1, <1>2, <1>3, <2>0, <3>1, SMTT(60)
    <3>3. ~(disk[t.start + j] = PageOf(t.page)[j])
      BY <1>8, <2>1, <3>2, Zenon
    <3>4. PICK q \in Proc : job[q].op = "write" /\ job[q].start = t.start /\ job[q].pos <= j
      BY <3>3, Zenon DEF DiskOK
    <3>5. q # p
      BY <1>2, <1>b, <2>3, <3>4, OneSlot, Zenon
    <3> QED
      BY <1>7, <3>4, <3>5, Zenon
  <2> QED
    BY <2>2, <2>3, Zenon
<1>13. PagesSurvive'
  BY <1>1, <1>7 DEF PagesSurvive
<1> QED
  BY <1>6, <1>9, <1>10, <1>11, <1>12, <1>13, Zenon

\* swap_slot_write() returns: by then all of the page's sectors are on the disk.
LEMMA WriteReturnsStep ==
  ASSUME SwapInv, NEW p \in Proc, WriteReturns(p)
  PROVE  SwapInv'
<1> USE DEF SwapInv
<1>1. /\ job' = [job EXCEPT ![p] = Idle] /\ frame' = [frame EXCEPT ![p] = Blank]
      /\ free_swap_list' = free_swap_list /\ slots' = slots /\ disk' = disk
      /\ job[p].op = "write" => job[p].pos = N
  BY Zenon DEF WriteReturns, N
<1>2. Typed'
  BY <1>1, PageFacts, Zenon DEF Typed
<1>3. /\ job'[p].op = "idle" /\ job'[p].start = NoSector
      /\ \A q \in Proc : q # p => job'[q] = job[q] /\ frame'[q] = frame[q]
  BY <1>1, Zenon DEF Typed, Idle
<1>4. Apart(free_swap_list') /\ Accounted'
  BY <1>1, Zenon DEF Accounted
<1>5. JobsOK'
  BY <1>1, <1>3 DEF JobsOK
<1>6. FramesOK'
  BY <1>1, <1>3 DEF FramesOK
<1>7. DiskOK'
  <2> SUFFICES ASSUME NEW s \in slots, NEW i \in PageSector, ~(disk[s.start + i] = PageOf(s.page)[i])
      PROVE  \E q \in Proc : job'[q].op = "write" /\ job'[q].start = s.start /\ job'[q].pos <= i
    BY <1>1, Zenon DEF DiskOK
  <2>1. PICK q \in Proc : job[q].op = "write" /\ job[q].start = s.start /\ job[q].pos <= i
    BY Zenon DEF DiskOK
  <2>2. ~(N <= i)
    BY Numbers DEF PageSector
  <2>3. q # p
    BY <1>1, <2>1, <2>2, Zenon
  <2> QED
    BY <1>3, <2>1, <2>3, Zenon
<1>8. PagesSurvive'
  BY <1>1, <1>3 DEF PagesSurvive
<1> QED
  BY <1>2, <1>4, <1>5, <1>6, <1>7, <1>8, Zenon
\* swap_slot_read() begins on a slot that no thread is at work on.
LEMMA ReadStep ==
  ASSUME SwapInv, NEW p \in Proc, Read(p)
  PROVE  SwapInv'
<1> USE DEF SwapInv
<1>0. N \in Nat \ {0}
  BY Numbers, Zenon
<1>1. PICK s \in slots :
        /\ \A q \in Proc : job[q].start # s.start
        /\ job' = [job EXCEPT ![p] = [op |-> "read", start |-> s.start, pos |-> 0]]
  BY Zenon DEF Read
<1>2. /\ free_swap_list' = free_swap_list /\ slots' = slots /\ disk' = disk /\ frame' = frame
      /\ job[p].op = "idle"
  BY Zenon DEF Read
<1>3. Typed'
  <2>1. [op |-> "read", start |-> s.start, pos |-> 0] \in JobType
    BY <1>0, Fields DEF JobType
  <2>2. job' \in [Proc -> JobType]
    BY <1>1, <2>1, Zenon DEF Typed
  <2> QED
    BY <1>2, <2>2, Zenon DEF Typed
<1>4. /\ job'[p].op = "read" /\ job'[p].start = s.start /\ job'[p].pos = 0
      /\ \A q \in Proc : q # p => job'[q] = job[q]
  BY <1>1, Zenon DEF Typed
<1>5. Apart(free_swap_list') /\ Accounted'
  BY <1>2, Zenon DEF Accounted
<1>6. JobsOK'
  BY <1>1, <1>2, <1>4 DEF JobsOK
<1>7. FramesOK'
  BY <1>2, <1>4, Zenon DEF FramesOK
<1>8. DiskOK'
  <2> SUFFICES ASSUME NEW t \in slots, NEW i \in PageSector, ~(disk[t.start + i] = PageOf(t.page)[i])
      PROVE  \E q \in Proc : job'[q].op = "write" /\ job'[q].start = t.start /\ job'[q].pos <= i
    BY <1>2, Zenon DEF DiskOK
  <2>1. PICK q \in Proc : job[q].op = "write" /\ job[q].start = t.start /\ job[q].pos <= i
    BY Zenon DEF DiskOK
  <2>2. q # p
    BY <1>2, <2>1, Zenon
  <2> QED
    BY <1>4, <2>1, <2>2, Zenon
<1>9. PagesSurvive'
  <2> SUFFICES ASSUME NEW q \in Proc, NEW t \in slots, job'[q].op = "read", job'[q].start = t.start
      PROVE  \A k \in 0 .. job'[q].pos - 1 : frame[q][k] = PageOf(t.page)[k]
    BY <1>2, Zenon DEF PagesSurvive
  <2>1. CASE q = p
    BY <1>4, <2>1
  <2>2. CASE q # p
    BY <1>4, <2>2, SMTT(60) DEF PagesSurvive
  <2> QED
    BY <2>1, <2>2, Zenon
<1> QED
  BY <1>3, <1>5, <1>6, <1>7, <1>8, <1>9, Zenon

\* disk_read() of the next sector of a page that is swapped in: it is the page's, since nobody writes the slot.
LEMMA ReadSectorStep ==
  ASSUME SwapInv, NEW p \in Proc, ReadSector(p)
  PROVE  SwapInv'
<1> DEFINE b == job[p].start
           k == job[p].pos
<1> USE DEF SwapInv
<1>0. N \in Nat \ {0} /\ DiskSize \in Nat \ {0}
  BY Numbers, Zenon
<1>1. /\ job[p].op = "read" /\ k < N
      /\ frame' = [frame EXCEPT ![p][k] = disk[b + k]]
      /\ job' = [job EXCEPT ![p].pos = @ + 1]
      /\ free_swap_list' = free_swap_list /\ slots' = slots /\ disk' = disk
  BY Zenon DEF ReadSector, N
<1>2. PICK s \in slots : s.start = b
  BY <1>1, Zenon DEF JobsOK
<1>3. b \in Nat /\ b + N <= DiskSize /\ k \in 0 .. N
  BY <1>2, Fields, Zenon DEF Accounted
<1>4. b + k \in Sector /\ k \in PageSector
  BY <1>0, <1>1, <1>3, Numbers DEF PageSector
<1>5. disk[b + k] = PageOf(s.page)[k]
  <2>1. \A q \in Proc : job[q].start = s.start => q = p
    BY <1>2, OneJob, Zenon
  <2> QED
    BY <1>1, <1>2, <1>4, <2>1, Zenon DEF DiskOK
<1>6. Typed'
  <2>1. [job[p] EXCEPT !.pos = @ + 1] \in JobType
    <3>1. job[p] \in JobType /\ k + 1 \in 0 .. N
      BY <1>0, <1>1, <1>3 DEF Typed
    <3> QED
      BY <3>1, Zenon DEF JobType
  <2>2. job' \in [Proc -> JobType]
    BY <1>1, <2>1, Zenon DEF Typed
  <2>3. frame' \in [Proc -> [PageSector -> Content]]
    BY <1>1, <1>4, Zenon DEF Typed
  <2> QED
    BY <1>1, <2>2, <2>3, Zenon DEF Typed
<1>7. /\ job'[p].op = "read" /\ job'[p].start = b /\ job'[p].pos = k + 1
      /\ \A q \in Proc : q # p => job'[q] = job[q] /\ frame'[q] = frame[q]
  <2>1. job[p] \in JobType /\ job'[p] = [job[p] EXCEPT !.pos = @ + 1]
    BY <1>1, Zenon DEF Typed
  <2> QED
    BY <1>1, <2>1, Zenon DEF JobType, Typed
<1>8. frame'[p][k] = disk[b + k] /\ \A x \in PageSector : x # k => frame'[p][x] = frame[p][x]
  BY <1>1, <1>4, Zenon DEF Typed
<1> HIDE DEF b, k
<1>b. b = job[p].start /\ k = job[p].pos
  BY Zenon DEF b, k
<1>9. Apart(free_swap_list') /\ Accounted'
  BY <1>1, Zenon DEF Accounted
<1>10. JobsOK'
  BY <1>1, <1>7, <1>b DEF JobsOK
<1>11. FramesOK'
  BY <1>1, <1>7 DEF FramesOK
<1>12. DiskOK'
  <2> SUFFICES ASSUME NEW t \in slots, NEW i \in PageSector, ~(disk[t.start + i] = PageOf(t.page)[i])
      PROVE  \E q \in Proc : job'[q].op = "write" /\ job'[q].start = t.start /\ job'[q].pos <= i
    BY <1>1, Zenon DEF DiskOK
  <2>1. PICK q \in Proc : job[q].op = "write" /\ job[q].start = t.start /\ job[q].pos <= i
    BY Zenon DEF DiskOK
  <2>2. q # p
    BY <1>1, <2>1, Zenon
  <2> QED
    BY <1>7, <2>1, <2>2, Zenon
<1>13. PagesSurvive'
  <2> SUFFICES ASSUME NEW q \in Proc, NEW t \in slots, job'[q].op = "read", job'[q].start = t.start,
                      NEW j \in 0 .. job'[q].pos - 1
      PROVE  frame'[q][j] = PageOf(t.page)[j]
    BY <1>1, Zenon DEF PagesSurvive
  <2>1. CASE q # p
    BY <1>7, <2>1 DEF PagesSurvive
  <2>2. CASE q = p
    <3>1. t = s
      BY <1>2, <1>7, <2>2, OneSlot, Zenon
    <3>2. CASE j = k
      BY <1>5, <1>8, <2>2, <3>1, <3>2, Zenon
    <3>3. CASE j # k
      <4>1. j \in 0 .. (k + 1) - 1
        BY <1>7, <2>2, Zenon
      <4>2. j \in 0 .. k - 1 /\ j \in PageSector
        BY <1>0, <1>1, <1>3, <3>3, <4>1 DEF PageSector
      <4>3. frame[p][j] = PageOf(s.page)[j]
        BY <1>1, <1>2, <1>b, <4>2, Zenon DEF PagesSurvive
      <4> QED
        BY <1>8, <2>2, <3>1, <3>3, <4>2, <4>3, Zenon
    <3> QED
      BY <3>2, <3>3, Zenon
  <2> QED
    BY <2>1, <2>2, Zenon
<1> QED
  BY <1>6, <1>9, <1>10, <1>11, <1>12, <1>13, Zenon

\* swap_slot_read() ends with free_swap_slot(): the slot's sectors go back to the list.
LEMMA ReadReturnsStep ==
  ASSUME SwapInv, NEW p \in Proc, ReadReturns(p)
  PROVE  SwapInv'
<1> DEFINE b == job[p].start
<1> USE DEF SwapInv
<1>0. N \in Nat \ {0} /\ DiskSize \in Nat \ {0} /\ free_swap_list \in Seq(GoodRun)
  BY Numbers, Zenon DEF Typed
<1>1. /\ job[p].op = "read"
      /\ free_swap_list' = FreeInto(free_swap_list, b)
      /\ slots' = {s \in slots : s.start # b}
      /\ job' = [job EXCEPT ![p] = Idle] /\ frame' = [frame EXCEPT ![p] = Blank] /\ disk' = disk
  BY Zenon DEF ReadReturns
<1>2. PICK s \in slots : s.start = b
  BY <1>1, Zenon DEF JobsOK
<1>3. b \in Nat /\ b \in Starts /\ b + N <= DiskSize
  BY <1>2, Fields, Zenon DEF Accounted
<1>4. \A x \in Nat : Within(x, b) => x \notin Cover(free_swap_list)
  BY <1>2, Zenon DEF Accounted
<1>5. /\ free_swap_list' \in Seq(GoodRun) /\ Apart(free_swap_list')
      /\ \A x \in Nat : x \in Cover(free_swap_list') <=> x \in Cover(free_swap_list) \/ Within(x, b)
  BY <1>0, <1>1, <1>3, <1>4, FreeKeeps, Zenon DEF Within
<1>6. Typed'
  BY <1>1, <1>5, PageFacts, Zenon DEF Typed
<1>7. /\ job'[p].op = "idle" /\ job'[p].start = NoSector
      /\ \A q \in Proc : q # p => job'[q] = job[q] /\ frame'[q] = frame[q]
  BY <1>1, Zenon DEF Typed, Idle
<1>s. \A t \in slots : t \in slots' <=> t # s
  BY <1>1, <1>2, OneSlot, Zenon
<1>t. \A t \in slots' : t \in slots /\ t # s /\ t.start # b
  BY <1>1, <1>2, Zenon
<1>8. Accounted'
  <2>1. \A t \in slots' : t.start + N <= DiskSize
    BY <1>t, Zenon DEF Accounted
  <2>2. \A x \in Sector : x \in Cover(free_swap_list') \/ \E t \in slots' : Within(x, t.start)
    <3> SUFFICES ASSUME NEW x \in Sector, ~(x \in Cover(free_swap_list'))
        PROVE  \E t \in slots' : Within(x, t.start)
      BY Zenon
    <3>1. x \in Nat
      BY Numbers, Zenon
    <3>2. x \notin Cover(free_swap_list) /\ ~Within(x, b)
      BY <1>5, <3>1, Zenon
    <3>3. PICK t \in slots : Within(x, t.start)
      BY <3>2, Zenon DEF Accounted
    <3> QED
      BY <1>2, <1>s, <3>2, <3>3, Zenon
  <2>3. \A t \in slots' : \A x \in Cover(free_swap_list') : ~Within(x, t.start)
    <3> SUFFICES ASSUME NEW t \in slots', NEW x \in Cover(free_swap_list') PROVE ~Within(x, t.start)
      BY Zenon
    <3>1. x \in Nat
      BY <1>5, CoverIs, Zenon
    <3>2. t.start + N <= b \/ b + N <= t.start
      BY <1>2, <1>t, Zenon DEF Accounted
    <3>3. t.start \in Nat
      BY <1>t, Fields, Zenon
    <3>4. CASE x \in Cover(free_swap_list)
      BY <1>t, <3>4, Zenon DEF Accounted
    <3>5. CASE Within(x, b)
      BY <1>0, <1>3, <3>1, <3>2, <3>3, <3>5, SMTT(60) DEF Within
    <3> QED
      BY <1>5, <3>1, <3>4, <3>5, Zenon
  <2>4. \A t, u \in slots' : t # u => t.start + N <= u.start \/ u.start + N <= t.start
    BY <1>t, Zenon DEF Accounted
  <2> QED
    BY <2>1, <2>2, <2>3, <2>4, Zenon DEF Accounted
<1>9. JobsOK'
  <2>1. \A q \in Proc : q # p => job[q].start # b
    BY <1>2, OneJob, Zenon
  <2>2. \A q \in Proc : q # p /\ job[q].op \in {"write", "read"} => \E t \in slots' : t.start = job[q].start
    <3> SUFFICES ASSUME NEW q \in Proc, q # p, job[q].op \in {"write", "read"}
        PROVE  \E t \in slots' : t.start = job[q].start
      BY Zenon
    <3>1. PICK t \in slots : t.start = job[q].start
      BY Zenon DEF JobsOK
    <3> QED
      BY <1>2, <1>s, <2>1, <3>1, Zenon
  <2> QED
    BY <1>7, <2>2 DEF JobsOK
<1>10. FramesOK'
  BY <1>7, <1>t, ZenonT(60) DEF FramesOK
<1>11. DiskOK'
  <2> SUFFICES ASSUME NEW t \in slots', NEW i \in PageSector, ~(disk[t.start + i] = PageOf(t.page)[i])
      PROVE  \E q \in Proc : job'[q].op = "write" /\ job'[q].start = t.start /\ job'[q].pos <= i
    BY <1>1, Zenon DEF DiskOK
  <2>1. PICK q \in Proc : job[q].op = "write" /\ job[q].start = t.start /\ job[q].pos <= i
    BY <1>t, Zenon DEF DiskOK
  <2>2. q # p
    BY <1>1, <2>1, Zenon
  <2> QED
    BY <1>7, <2>1, <2>2, Zenon
<1>12. PagesSurvive'
  BY <1>7, <1>t DEF PagesSurvive
<1> QED
  BY <1>5, <1>6, <1>8, <1>9, <1>10, <1>11, <1>12, Zenon
\* Every step of every thread keeps the invariant.
LEMMA SwapInvNext == SwapInv /\ [Next]_vars => SwapInv'
<1> SUFFICES ASSUME SwapInv, [Next]_vars PROVE SwapInv'
  BY Zenon
<1>1. CASE Next
  <2>1. PICK p \in Proc : \/ \E v \in Value : Write(p, v)
                          \/ WriteSector(p) \/ WriteReturns(p)
                          \/ Read(p) \/ ReadSector(p) \/ ReadReturns(p)
    BY <1>1, Zenon DEF Next
  <2>2. CASE \E v \in Value : Write(p, v)
    BY <2>2, WriteStep, WriteFullStep, Zenon
  <2> QED
    BY <2>1, <2>2, WriteSectorStep, WriteReturnsStep, ReadStep, ReadSectorStep, ReadReturnsStep, Zenon
<1>2. CASE UNCHANGED vars
  <2>1. /\ free_swap_list' = free_swap_list /\ slots' = slots /\ disk' = disk
        /\ frame' = frame /\ job' = job
    BY <1>2, Zenon DEF vars
  <2>2. Typed' /\ Apart(free_swap_list') /\ Accounted'
    BY <2>1, Zenon DEF SwapInv, Typed, Accounted
  <2>3. JobsOK' /\ FramesOK' /\ DiskOK' /\ PagesSurvive'
    BY <2>1, ZenonT(30) DEF SwapInv, JobsOK, FramesOK, DiskOK, PagesSurvive
  <2> QED
    BY <2>2, <2>3, Zenon DEF SwapInv
<1> QED
  BY <1>1, <1>2, Zenon

\* The invariant holds in every reachable state of the swap table.
LEMMA SwapInvariant == Spec => []SwapInv
<1> QED
  BY SwapInvInit, SwapInvNext, PTL DEF Spec

\* The sectors on the free list are those that its runs cover.
LEMMA FreeIs ==
  ASSUME NEW q \in Seq(GoodRun)
  PROVE  UNION {SectorsOf(q[i]) : i \in DOMAIN q} = Cover(q)
BY DEF Cover

\* The invariant says that the free list and the slots in use partition the disk.
LEMMA SoundFromInv == SwapInv => FreeListSound
<1> SUFFICES ASSUME SwapInv PROVE FreeListSound
  BY Zenon
<1> USE DEF SwapInv
<1>0. N \in Nat \ {0} /\ DiskSize \in Nat \ {0} /\ free_swap_list \in Seq(GoodRun)
  BY Numbers, Zenon DEF Typed
<1>1. TypeOK
  <2>1. GoodRun \subseteq [start : Sector, size : 1 .. DiskSize]
    BY Zenon DEF GoodRun
  <2>2. free_swap_list \in Seq([start : Sector, size : 1 .. DiskSize])
    <3> DEFINE R == [start : Sector, size : 1 .. DiskSize]
               n == Len(free_swap_list)
    <3> HIDE DEF R
    <3>1. n \in Nat /\ \A i \in 1 .. n : free_swap_list[i] \in GoodRun
      BY <1>0
    <3>2. free_swap_list = [i \in 1 .. n |-> free_swap_list[i]]
      BY <1>0
    <3>3. \A i \in 1 .. n : free_swap_list[i] \in R
      BY <2>1, <3>1, Zenon DEF R
    <3> HIDE DEF n
    <3>4. [i \in 1 .. n |-> free_swap_list[i]] \in Seq(R)
      BY <3>1, <3>3
    <3> QED
      BY <3>2, <3>4, Zenon DEF R
  <2>3. slots \subseteq [start : Sector, page : Value]
    BY Zenon DEF Typed
  <2> QED
    BY <2>2, <2>3, Fields, Zenon DEF TypeOK, N
<1>2. FreeListMerged
  <2>1. \A i \in 1 .. Len(free_swap_list) - 1 :
          i \in 1 .. Len(free_swap_list) /\ i + 1 \in 1 .. Len(free_swap_list) /\ i < i + 1
    BY <1>0
  <2> QED
    BY <2>1, Zenon DEF Apart, FreeListMerged
<1>3. SectorsAccounted
  <2>0. FreeSectors = Cover(free_swap_list) /\ Cover(free_swap_list) \subseteq Nat
    BY <1>0, FreeIs, CoverIs, Zenon DEF FreeSectors
  <2>1. ASSUME NEW s \in slots
        PROVE  SlotSectors(s) \subseteq Nat /\ \A x \in Nat : x \in SlotSectors(s) <=> Within(x, s.start)
    <3>1. s.start \in Nat
      BY Fields, Zenon
    <3> QED
      BY <1>0, <3>1, SMTT(60) DEF SlotSectors, Within, N
  <2>2. Cover(free_swap_list) \subseteq Sector
    <3> SUFFICES ASSUME NEW x \in Cover(free_swap_list) PROVE x \in Sector
      BY Zenon
    <3>1. x \in Nat
      BY <2>0, Zenon
    <3>2. PICK i \in 1 .. Len(free_swap_list) : x < free_swap_list[i].start + free_swap_list[i].size
      BY <1>0, <3>1, CoverIs, Zenon
    <3>3. /\ free_swap_list[i].start \in Nat /\ free_swap_list[i].size \in Nat
          /\ free_swap_list[i].start + free_swap_list[i].size <= DiskSize
      BY <1>0, RunFacts
    <3>4. x < DiskSize
      BY <1>0, <3>1, <3>2, <3>3
    <3> QED
      BY <3>1, <3>4, Numbers, Zenon
  <2>3. ASSUME NEW s \in slots PROVE SlotSectors(s) \subseteq Sector
    <3>1. s.start \in Nat /\ s.start + N <= DiskSize
      BY Fields, Zenon DEF Accounted
    <3> QED
      BY <1>0, <3>1 DEF SlotSectors, Sector, N
  <2>4. FreeSectors \cup UNION {SlotSectors(s) : s \in slots} \subseteq Sector
    BY <2>0, <2>2, <2>3, Zenon
  <2>5. ASSUME NEW x \in Sector PROVE x \in FreeSectors \cup UNION {SlotSectors(s) : s \in slots}
    <3>1. x \in Nat
      BY Numbers, Zenon
    <3>2. CASE x \in Cover(free_swap_list)
      BY <2>0, <3>2, Zenon
    <3>3. CASE \E s \in slots : Within(x, s.start)
      <4>1. PICK s \in slots : Within(x, s.start)
        BY <3>3, Zenon
      <4>2. x \in SlotSectors(s)
        BY <2>1, <3>1, <4>1, Zenon
      <4> QED
        BY <4>2, Zenon
    <3> QED
      BY <3>2, <3>3, Zenon DEF Accounted
  <2>6. \A s \in slots : SlotSectors(s) \cap FreeSectors = {}
    BY <2>0, <2>1, Zenon DEF Accounted
  <2>7. ASSUME NEW s \in slots, NEW t \in slots, s # t
        PROVE  SlotSectors(s) \cap SlotSectors(t) = {}
    <3>1. s.start \in Nat /\ t.start \in Nat /\ (s.start + N <= t.start \/ t.start + N <= s.start)
      BY <2>7, Fields, Zenon DEF Accounted
    <3>2. \A x \in Nat : ~(Within(x, s.start) /\ Within(x, t.start))
      BY <1>0, <3>1, SMTT(60) DEF Within
    <3> QED
      BY <2>1, <3>2, Zenon
  <2> QED
    BY <2>4, <2>5, <2>6, <2>7, Zenon DEF SectorsAccounted
<1> QED
  BY <1>1, <1>2, <1>3, Zenon DEF FreeListSound

\* For a swap disk and a frame of any size and any number of threads,
\* alloc_swap_slot() and free_swap_slot() keep the free list in order and
\* merged, hand out no sector twice and lose none.
THEOREM ListSound == Spec => []FreeListSound
<1> QED
  BY SwapInvariant, SoundFromInv, PTL

\* swap_slot_read() gives back the page that swap_slot_write() was given,
\* whatever the other threads swap in and out between and meanwhile.
THEOREM PagesKept == Spec => []PagesSurvive
<1>1. SwapInv => PagesSurvive
  BY Zenon DEF SwapInv
<1> QED
  BY <1>1, SwapInvariant, PTL
-----------------------------------------------------------------------------
(* The refinement: seen from outside, the list of runs is a set of slots.  *)

Slot == 0 .. NumSlots - 1
FreeIn(q) == {k \in Slot : WholeSlot(k) \subseteq Cover(q)}
AnswerOf(j) == CASE j.op = "write" -> SlotOf(j.start)
                 [] j.op = "full" -> NoSector + 1
                 [] OTHER -> NoSector

\* The refinement mapping is a function of the list and of the jobs.
LEMMA Mapping ==
  ASSUME Typed, Typed'
  PROVE  /\ {k \in 0 .. NumSlots - 1 : WholeSlot(k) \subseteq FreeSectors} = FreeIn(free_swap_list)
         /\ {k \in 0 .. NumSlots - 1 : WholeSlot(k) \subseteq FreeSectors}' = FreeIn(free_swap_list')
<1>0. free_swap_list \in Seq(GoodRun) /\ free_swap_list' \in Seq(GoodRun)
  BY Zenon DEF Typed
<1>1. FreeSectors = Cover(free_swap_list)
  BY <1>0, FreeIs, Zenon DEF FreeSectors
<1>2. FreeSectors' = Cover(free_swap_list')
  BY <1>0, FreeIs, Zenon DEF FreeSectors
<1> QED
  BY <1>1, <1>2, Zenon DEF FreeIn, Slot

\* A slot is free when the list covers the N sectors from its first.
LEMMA SlotFree ==
  ASSUME NEW q \in Seq(GoodRun), NEW k \in Slot
  PROVE  /\ k \in Nat /\ N * k \in Nat /\ N * k + N <= DiskSize
         /\ k \in FreeIn(q) <=> \A x \in Nat : Within(x, N * k) => x \in Cover(q)
<1>1. k \in Nat /\ N \in Nat /\ N * k \in Nat /\ N * (k + 1) = N * k + N /\ N * k + N <= DiskSize
  BY Multiples, SlotNumbers DEF Slot
<1>2. WholeSlot(k) = N * k .. (N * k + N) - 1
  <2>1. WholeSlot(k) = N * k .. N * (k + 1) - 1
    BY Zenon DEF WholeSlot, N
  <2> QED
    BY <1>1, <2>1, Zenon
<1>3. WholeSlot(k) \subseteq Nat /\ \A x \in Nat : x \in WholeSlot(k) <=> Within(x, N * k)
  BY <1>1, <1>2 DEF Within
<1> QED
  BY <1>1, <1>3, Zenon DEF FreeIn

\* A sector number at which a slot starts is that of one slot, and slots do not overlap.
LEMMA SlotAt ==
  ASSUME NEW a \in Starts, a + N <= DiskSize
  PROVE  /\ SlotOf(a) \in Slot /\ N * SlotOf(a) = a
         /\ \A k \in Slot : k # SlotOf(a) => \A x \in Nat : Within(x, N * k) => ~Within(x, a)
<1>1. PICK k \in Nat : a = N * k
  BY Numbers DEF Starts
<1>2. SlotOf(a) = k
  BY <1>1, SlotNumbers, Zenon
<1>3. k \in Slot
  BY <1>1, SlotNumbers DEF Slot
<1>4. ASSUME NEW j \in Slot, j # k, NEW x \in Nat, Within(x, N * j) PROVE ~Within(x, N * k)
  <2>1. j \in Nat /\ N \in Nat /\ N * j \in Nat /\ N * k \in Nat
    BY Multiples, SlotNumbers DEF Slot
  <2>2. N * j + N <= N * k \/ N * k + N <= N * j
    BY <1>4, <2>1, Multiples
  <2> QED
    BY <1>4, <2>1, <2>2 DEF Within
<1> QED
  BY <1>1, <1>2, <1>3, <1>4, Zenon

\* A sector number within a slot is within that slot from its first sector on.
LEMMA FirstWithin == \A a \in Nat : Within(a, a)
BY Numbers DEF Within

\* When no run has N sectors, no slot is free: a slot that is covered lies in one run, since runs do not touch.
LEMMA NoneFree ==
  ASSUME NEW q \in Seq(GoodRun), Apart(q), FirstFit(q) = 0
  PROVE  FreeIn(q) = {}
<1> DEFINE lo(j) == q[j].start
           sz(j) == q[j].size
<1> SUFFICES ASSUME NEW k \in FreeIn(q) PROVE FALSE
  BY Zenon
<1> DEFINE a == N * k
<1>0. N \in Nat \ {0} /\ Len(q) \in Nat
  BY Numbers
<1>1. k \in Slot /\ a \in Nat /\ \A x \in Nat : Within(x, a) => x \in Cover(q)
  BY SlotFree, Zenon DEF FreeIn
<1>2. \A i \in 1 .. Len(q) : lo(i) \in Nat /\ sz(i) \in Nat /\ sz(i) < N
  BY <1>0, RunFacts, FirstFitFinds
<1>3. \A x \in Nat : x \in Cover(q) => \E i \in 1 .. Len(q) : lo(i) <= x /\ x < lo(i) + sz(i)
  BY CoverIs, Zenon
<1>4. \A i, j \in 1 .. Len(q) : i < j => lo(i) + sz(i) < lo(j)
  BY Zenon DEF Apart
<1> HIDE DEF lo, sz, a
<1>5. PICK i \in 1 .. Len(q) : lo(i) <= a /\ a < lo(i) + sz(i)
  BY <1>1, <1>3, FirstWithin, Zenon
<1> DEFINE e == lo(i) + sz(i)
<1>6. lo(i) \in Nat /\ sz(i) \in Nat /\ sz(i) < N /\ e \in Nat
  BY <1>2
<1>7. Within(e, a)
  BY <1>0, <1>1, <1>5, <1>6 DEF Within
<1>8. PICK j \in 1 .. Len(q) : lo(j) <= e /\ e < lo(j) + sz(j)
  BY <1>1, <1>3, <1>6, <1>7, Zenon
<1>9. lo(j) \in Nat /\ sz(j) \in Nat
  BY <1>2, Zenon
<1>10. CASE i < j
  <2>1. lo(i) + sz(i) < lo(j)
    BY <1>4, <1>10, Zenon
  <2> QED
    BY <1>6, <1>8, <1>9, <2>1
<1>11. CASE j < i
  <2>1. lo(j) + sz(j) < lo(i)
    BY <1>4, <1>11, Zenon
  <2> QED
    BY <1>6, <1>8, <1>9, <2>1
<1>12. CASE i = j
  BY <1>6, <1>8, <1>12
<1> QED
  BY <1>0, <1>10, <1>11, <1>12
\* What each thread's answer is, and that no slot has the number of one that is none.
LEMMA Answers ==
  ASSUME NEW j
  PROVE  /\ j.op = "write" => AnswerOf(j) = SlotOf(j.start)
         /\ j.op = "full" => AnswerOf(j) = NoSector + 1
         /\ j.op \in {"idle", "read"} => AnswerOf(j) = NoSector
         /\ NoSector \notin Slot /\ NoSector + 1 \notin Slot
<1>1. ASSUME NEW k \in Slot PROVE k # NoSector /\ k # NoSector + 1
  <2>1. k \in Nat /\ N * k + N <= DiskSize /\ k <= N * k /\ N * k \in Nat
    BY SlotNumbers, Multiples DEF Slot
  <2> QED
    BY <2>1, Numbers DEF NoSector
<1> QED
  BY <1>1, Zenon DEF AnswerOf

\* swap_slot_write() hands out a slot that was free, or fails when none is.
LEMMA WriteRefines ==
  ASSUME SwapInv, SwapInv', NEW p \in Proc, NEW v \in Value, Write(p, v)
  PROVE  \/ /\ FreeIn(free_swap_list) = {} /\ free_swap_list' = free_swap_list
            /\ AnswerOf(job'[p]) = NoSector + 1
         \/ \E k \in FreeIn(free_swap_list) : /\ FreeIn(free_swap_list') = FreeIn(free_swap_list) \ {k}
                                              /\ AnswerOf(job'[p]) = k
<1> USE DEF SwapInv
<1> DEFINE i == FirstFit(free_swap_list)
           a == free_swap_list[i].start
           k0 == SlotOf(a)
<1>0. free_swap_list \in Seq(GoodRun) /\ free_swap_list' \in Seq(GoodRun) /\ Apart(free_swap_list)
  BY Zenon DEF Typed
<1>1. CASE i = 0
  <2>1. job' = [job EXCEPT ![p] = [Idle EXCEPT !.op = "full"]] /\ free_swap_list' = free_swap_list
    BY <1>1, Zenon DEF Write
  <2>2. job'[p].op = "full"
    BY <2>1, Zenon DEF Typed, Idle
  <2> QED
    BY <1>0, <1>1, <2>1, <2>2, NoneFree, Answers, Zenon
<1>2. CASE i # 0
  <2>1. /\ job' = [job EXCEPT ![p] = [op |-> "write", start |-> a, pos |-> 0]]
        /\ free_swap_list' = AllocFrom(free_swap_list, i)
    BY <1>2, Zenon DEF Write
  <2>2. job'[p].op = "write" /\ job'[p].start = a
    BY <2>1, Zenon DEF Typed
  <2>3. /\ i \in 1 .. Len(free_swap_list) /\ free_swap_list[i].size >= N
        /\ a \in Nat /\ a \in Starts /\ a + N <= DiskSize
        /\ \A x \in Nat : Within(x, a) => x \in Cover(free_swap_list)
    BY <1>2, FreshSlot, Zenon
  <2>4. \A x \in Nat : x \in Cover(free_swap_list') <=> x \in Cover(free_swap_list) /\ ~Within(x, a)
    BY <1>0, <2>1, <2>3, AllocKeeps, Zenon DEF Within
  <2> HIDE DEF i, a, k0
  <2>5. k0 \in Slot /\ N * k0 = a /\ \A k \in Slot : k # k0 => \A x \in Nat : Within(x, N * k) => ~Within(x, a)
    BY <2>3, SlotAt, Zenon DEF k0
  <2>6. k0 \in FreeIn(free_swap_list)
    BY <1>0, <2>3, <2>5, SlotFree, Zenon
  <2>7. k0 \notin FreeIn(free_swap_list')
    BY <1>0, <2>3, <2>4, <2>5, SlotFree, FirstWithin, Zenon
  <2>8. ASSUME NEW k \in Slot, k # k0 PROVE k \in FreeIn(free_swap_list') <=> k \in FreeIn(free_swap_list)
    <3>1. \A x \in Nat : Within(x, N * k) => ~Within(x, a)
      BY <2>5, <2>8, Zenon
    <3>2. \A x \in Nat : Within(x, N * k) => (x \in Cover(free_swap_list') <=> x \in Cover(free_swap_list))
      BY <2>4, <3>1, Zenon
    <3>3. k \in FreeIn(free_swap_list) <=> \A x \in Nat : Within(x, N * k) => x \in Cover(free_swap_list)
      BY <1>0, SlotFree, Zenon
    <3>4. k \in FreeIn(free_swap_list') <=> \A x \in Nat : Within(x, N * k) => x \in Cover(free_swap_list')
      BY <1>0, SlotFree, Zenon
    <3> QED
      BY <3>2, <3>3, <3>4, Zenon
  <2>9. FreeIn(free_swap_list') = FreeIn(free_swap_list) \ {k0}
    <3>1. FreeIn(free_swap_list') \subseteq Slot /\ FreeIn(free_swap_list) \subseteq Slot
      BY Zenon DEF FreeIn
    <3> QED
      BY <2>7, <2>8, <3>1, Zenon
  <2>10. AnswerOf(job'[p]) = k0
    BY <2>2, Answers, Zenon DEF k0
  <2> QED
    BY <2>6, <2>9, <2>10, Zenon
<1> QED
  BY <1>1, <1>2, Zenon

\* swap_slot_read() gives back a slot that was in use and that nobody is filling.
LEMMA ReadReturnsRefines ==
  ASSUME SwapInv, SwapInv', NEW p \in Proc, ReadReturns(p)
  PROVE  \E k \in Slot \ FreeIn(free_swap_list) :
           /\ \A q \in Proc : AnswerOf(job[q]) # k
           /\ FreeIn(free_swap_list') = FreeIn(free_swap_list) \cup {k}
<1> USE DEF SwapInv
<1> DEFINE b == job[p].start
           k0 == SlotOf(b)
<1>0. free_swap_list \in Seq(GoodRun) /\ free_swap_list' \in Seq(GoodRun) /\ Apart(free_swap_list)
  BY Zenon DEF Typed
<1>1. job[p].op = "read" /\ free_swap_list' = FreeInto(free_swap_list, b)
  BY Zenon DEF ReadReturns
<1>2. PICK s \in slots : s.start = b
  BY <1>1, Zenon DEF JobsOK
<1>3. b \in Nat /\ b \in Starts /\ b + N <= DiskSize
  BY <1>2, Fields, Zenon DEF Accounted
<1>4. \A x \in Nat : Within(x, b) => x \notin Cover(free_swap_list)
  BY <1>2, Zenon DEF Accounted
<1>5. \A x \in Nat : x \in Cover(free_swap_list') <=> x \in Cover(free_swap_list) \/ Within(x, b)
  BY <1>0, <1>1, <1>3, <1>4, FreeKeeps, Zenon DEF Within
<1>6. \A q \in Proc : job[q].op = "write" => job[q].start # b
  BY <1>1, <1>2, OneJob, Zenon
<1>b. b = job[p].start
  BY Zenon
<1> HIDE DEF b, k0
<1>7. k0 \in Slot /\ N * k0 = b /\ \A k \in Slot : k # k0 => \A x \in Nat : Within(x, N * k) => ~Within(x, b)
  BY <1>3, SlotAt, Zenon DEF k0
<1>8. k0 \notin FreeIn(free_swap_list)
  BY <1>0, <1>3, <1>4, <1>7, SlotFree, FirstWithin, Zenon
<1>9. k0 \in FreeIn(free_swap_list')
  BY <1>0, <1>5, <1>7, SlotFree, Zenon
<1>10. ASSUME NEW k \in Slot, k # k0 PROVE k \in FreeIn(free_swap_list') <=> k \in FreeIn(free_swap_list)
  <2>1. \A x \in Nat : Within(x, N * k) => ~Within(x, b)
    BY <1>7, <1>10, Zenon
  <2>2. \A x \in Nat : Within(x, N * k) => (x \in Cover(free_swap_list') <=> x \in Cover(free_swap_list))
    BY <1>5, <2>1, Zenon
  <2>3. k \in FreeIn(free_swap_list) <=> \A x \in Nat : Within(x, N * k) => x \in Cover(free_swap_list)
    BY <1>0, SlotFree, Zenon
  <2>4. k \in FreeIn(free_swap_list') <=> \A x \in Nat : Within(x, N * k) => x \in Cover(free_swap_list')
    BY <1>0, SlotFree, Zenon
  <2> QED
    BY <2>2, <2>3, <2>4, Zenon
<1>11. FreeIn(free_swap_list') = FreeIn(free_swap_list) \cup {k0}
  <2>1. FreeIn(free_swap_list') \subseteq Slot /\ FreeIn(free_swap_list) \subseteq Slot
    BY Zenon DEF FreeIn
  <2> QED
    BY <1>9, <1>10, <2>1, Zenon
<1>12. ASSUME NEW q \in Proc PROVE AnswerOf(job[q]) # k0
  <2>1. job[q].op \in {"write", "full", "idle", "read"}
    BY Fields, Zenon
  <2>2. CASE job[q].op = "write"
    <3>1. PICK t \in slots : t.start = job[q].start
      BY <2>2, Zenon DEF JobsOK
    <3>2. t.start \in Starts /\ t.start + N <= DiskSize
      BY Fields, Zenon DEF Accounted
    <3>3. N * SlotOf(job[q].start) = job[q].start
      BY <3>1, <3>2, SlotAt, Zenon
    <3> QED
      BY <1>6, <1>7, <2>2, <3>3, Answers, Zenon
  <2>3. CASE job[q].op # "write"
    BY <1>7, <2>1, <2>3, Answers, Zenon
  <2> QED
    BY <2>2, <2>3, Zenon
<1> QED
  BY <1>7, <1>8, <1>11, <1>12, Zenon
\* At the start all slots are free and nobody has been answered.
LEMMA PoolInitRefined == Init => Pool!PoolInit
<1> SUFFICES ASSUME Init PROVE Pool!PoolInit
  BY Zenon
<1>0. SwapInv
  BY SwapInvInit, Zenon
<1>1. free_swap_list \in Seq(GoodRun) /\ slots = {} /\ \A p \in Proc : job[p].op = "idle"
  BY <1>0, Zenon DEF SwapInv, Typed, Init, Idle
<1>2. FreeSectors = Cover(free_swap_list)
  BY <1>1, FreeIs, Zenon DEF FreeSectors
<1>3. \A x \in Sector : x \in Cover(free_swap_list)
  BY <1>0, <1>1, Zenon DEF SwapInv, Accounted
<1>4. ASSUME NEW k \in Slot PROVE k \in FreeIn(free_swap_list)
  <2>1. N * k \in Nat /\ N * k + N <= DiskSize
    BY <1>1, SlotFree, Zenon
  <2>2. \A x \in Nat : Within(x, N * k) => x \in Sector
    BY <2>1, Numbers DEF Within
  <2> QED
    BY <1>1, <1>3, <2>2, SlotFree, Zenon
<1>5. {k \in 0 .. NumSlots - 1 : WholeSlot(k) \subseteq FreeSectors} = 0 .. NumSlots - 1
  BY <1>2, <1>4, Zenon DEF FreeIn, Slot
<1> QED
  BY <1>1, <1>5, Zenon DEF Pool!PoolInit

\* Every step of the table is a step of the pool, or none that it sees.
LEMMA PoolNextRefined ==
  ASSUME SwapInv, SwapInv', [Next]_vars
  PROVE  [Pool!PoolNext]_(Pool!poolVars)
<1> USE DEF SwapInv
<1> DEFINE fs == {k \in 0 .. NumSlots - 1 : WholeSlot(k) \subseteq FreeSectors}
           an == [p \in Proc |-> CASE job[p].op = "write" -> SlotOf(job[p].start)
                                   [] job[p].op = "full" -> NoSector + 1
                                   [] OTHER -> NoSector]
<1>f. fs = FreeIn(free_swap_list) /\ fs' = FreeIn(free_swap_list')
  BY Mapping, Zenon
<1>a. an = [p \in Proc |-> AnswerOf(job[p])] /\ an' = [p \in Proc |-> AnswerOf(job'[p])]
  BY Zenon DEF AnswerOf
<1>g. ASSUME NEW p \in Proc, NEW k \in fs, fs' = fs \ {k}, an' = [an EXCEPT ![p] = k]
      PROVE  Pool!PoolNext
  BY <1>g, Zenon DEF Pool!PoolNext, Pool!Grant
<1>r. ASSUME NEW p \in Proc, fs = {}, an' = [an EXCEPT ![p] = NoSector + 1], fs' = fs
      PROVE  Pool!PoolNext
  BY <1>r, Zenon DEF Pool!PoolNext, Pool!Refuse
<1>l. ASSUME NEW p \in Proc, an' = [an EXCEPT ![p] = NoSector], fs' = fs
      PROVE  Pool!PoolNext
  BY <1>l, Zenon DEF Pool!PoolNext, Pool!Filled
<1>b. ASSUME NEW k \in Slot \ fs, \A p \in Proc : an[p] # k, fs' = fs \cup {k}, an' = an
      PROVE  Pool!PoolNext
  BY <1>b, Zenon DEF Pool!PoolNext, Pool!GiveBack, Slot
<1>u. ASSUME fs' = fs, an' = an PROVE UNCHANGED Pool!poolVars
  BY <1>u, Zenon DEF Pool!poolVars
<1> HIDE DEF fs, an
<1>e. ASSUME NEW p \in Proc, NEW w, AnswerOf(job'[p]) = w, \A q \in Proc : q # p => job'[q] = job[q]
      PROVE  an' = [an EXCEPT ![p] = w]
  BY <1>a, <1>e, Zenon
<1>n. ASSUME NEW p \in Proc, AnswerOf(job'[p]) = AnswerOf(job[p]), \A q \in Proc : q # p => job'[q] = job[q]
      PROVE  an' = an
  BY <1>a, <1>n, Zenon
<1>1. CASE UNCHANGED vars
  BY <1>1, <1>f, <1>a, <1>u, Zenon DEF vars
<1>2. ASSUME NEW p \in Proc, NEW v \in Value, Write(p, v) PROVE Pool!PoolNext
  <2>1. \A q \in Proc : q # p => job'[q] = job[q]
    BY <1>2, Zenon DEF Write, Typed
  <2> QED
    BY <1>2, <1>e, <1>f, <1>g, <1>r, <2>1, WriteRefines, Zenon
<1>3. ASSUME NEW p \in Proc, WriteSector(p) PROVE UNCHANGED Pool!poolVars
  <2>1. /\ \A q \in Proc : q # p => job'[q] = job[q]
        /\ job'[p].op = job[p].op /\ job'[p].start = job[p].start /\ free_swap_list' = free_swap_list
    BY <1>3, ZenonT(60) DEF WriteSector, Typed, JobType
  <2> QED
    BY <1>f, <1>n, <1>u, <2>1, Zenon DEF AnswerOf
<1>4. ASSUME NEW p \in Proc, WriteReturns(p) PROVE Pool!PoolNext
  <2>1. /\ \A q \in Proc : q # p => job'[q] = job[q]
        /\ job'[p].op = "idle" /\ free_swap_list' = free_swap_list
    BY <1>4, Zenon DEF WriteReturns, Typed, Idle
  <2> QED
    BY <1>e, <1>f, <1>l, <2>1, Answers, Zenon
<1>5. ASSUME NEW p \in Proc, Read(p) PROVE UNCHANGED Pool!poolVars
  <2>1. /\ \A q \in Proc : q # p => job'[q] = job[q]
        /\ job[p].op = "idle" /\ job'[p].op = "read" /\ free_swap_list' = free_swap_list
    BY <1>5, SMTT(60) DEF Read, Typed
  <2> QED
    BY <1>f, <1>n, <1>u, <2>1, Answers, Zenon
<1>6. ASSUME NEW p \in Proc, ReadSector(p) PROVE UNCHANGED Pool!poolVars
  <2>1. /\ \A q \in Proc : q # p => job'[q] = job[q]
        /\ job'[p].op = job[p].op /\ job'[p].start = job[p].start /\ free_swap_list' = free_swap_list
    BY <1>6 DEF ReadSector, Typed, JobType
  <2> QED
    BY <1>f, <1>n, <1>u, <2>1, Zenon DEF AnswerOf
<1>7. ASSUME NEW p \in Proc, ReadReturns(p) PROVE Pool!PoolNext
  <2>1. /\ \A q \in Proc : q # p => job'[q] = job[q]
        /\ job[p].op = "read" /\ job'[p].op = "idle"
    BY <1>7, Zenon DEF ReadReturns, Typed, Idle
  <2>2. an' = an
    BY <1>n, <2>1, Answers, Zenon
  <2>3. PICK k \in Slot \ FreeIn(free_swap_list) :
          /\ \A q \in Proc : AnswerOf(job[q]) # k
          /\ FreeIn(free_swap_list') = FreeIn(free_swap_list) \cup {k}
    BY <1>7, ReadReturnsRefines, Zenon
  <2>4. \A q \in Proc : an[q] # k
    BY <1>a, <2>3, Zenon
  <2> QED
    BY <1>b, <1>f, <2>2, <2>3, <2>4, Zenon
<1> QED
  BY <1>1, <1>2, <1>3, <1>4, <1>5, <1>6, <1>7, Zenon DEF Next

\* The list of runs implements the pool of slots: alloc_swap_slot() hands out
\* a slot that nobody uses and fails only when there is none, so the list
\* never fragments; free_swap_slot() makes one slot free again.
THEOREM PoolImplemented == Spec => ImplementsPool
<1>1. SwapInv /\ SwapInv' /\ [Next]_vars => [Pool!PoolNext]_(Pool!poolVars)
  BY PoolNextRefined, Zenon
<1> QED
  BY <1>1, PoolInitRefined, SwapInvariant, PTL DEF Spec, ImplementsPool, Pool!PoolSpec
=============================================================================
