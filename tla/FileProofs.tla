----------------------------- MODULE FileProofs -----------------------------
(***************************************************************************)
(* A file holds what was last written to it and a read returns one state   *)
(* of the file, except around a write-back that races: for any number of   *)
(* processes that have the file open beside one thread that evicts, a file *)
(* and sectors of any length and accesses of any size and position.        *)
(***************************************************************************)
EXTENDS Io, FiniteSetTheorems, TLAPS

Busy == {"loop", "io", "merge"}
FileCallType ==
  [pc : Busy \cup {"idle", "lock", "return"}, op : {"none", "read", "write", "load"},
   size : Int, offset : Nat, done : Nat, value : Byte \cup {None}, bounce : BOOLEAN, got : Seq(Byte)]
RequestType ==
  {NoRequest} \cup [op : {"read", "write"}, sec : Sector, data : Data] \cup [op : {"done"}, data : Data]

FileTyped ==
  /\ store \in [Sector -> Data]
  /\ request \in [Client -> RequestType]
  /\ fcall \in [Client -> FileCallType]
  /\ pos \in [FProc -> Nat]
  /\ filesys_lock \in Client \cup {None}
  /\ last \in [0 .. FileLength - 1 -> Byte]
  /\ mixed \in [Client -> BOOLEAN]
  /\ stale \in [Client -> BOOLEAN]
  /\ raced \in BOOLEAN

\* What a call can be at each place, and how far it can have come.  A system
\* call holds filesys_lock in its loop.
PlaceOK(t) ==
  LET c == fcall[t] IN
  /\ c.pc = "idle" <=> c.op = "none"
  /\ c.pc \in {"idle", "lock", "loop", "return"} => request[t] = NoRequest
  /\ c.pc = "lock" => c.op \in {"read", "write"} /\ c.done = 0
  /\ c.pc = "merge" => c.op = "write"
  /\ c.op = "write" => c.value \in Byte
  /\ t = Evictor => c.op \in {"none", "write"} /\ c.pc # "lock"
  /\ c.done = 0 \/ (c.done <= c.size /\ c.offset + c.done <= FileLength)
  /\ c.op # "write" => Len(c.got) = c.done
  /\ t \in FProc /\ c.op \in {"read", "write"} /\ c.pc \in Busy => filesys_lock = t

\* The transfer of a chunk: what is asked of the disk and what comes of it, as
\* long as no write-back has come between.
ChunkTransfer(c, r, dirty, shared, disk) ==
  /\ c.pc \in {"io", "merge"} => chunk_size(c) > 0
  /\ c.pc = "merge" => ~Whole(c) /\ r.op \in {"read", "done"}
  /\ c.pc = "io" => r.op \in (IF c.op = "write" THEN {"write", "done"} ELSE {"read", "done"})
  /\ r.op \in {"read", "write"} => r.sec = sector_idx(c)
  /\ r.op = "write" /\ (Whole(c) \/ ~dirty) => r.data = Filled(c, disk[sector_idx(c)])
  /\ r.op = "done" /\ c.pc = "merge" /\ ~dirty => r.data = disk[sector_idx(c)]
  /\ r.op = "done" /\ c.pc = "io" /\ c.op # "write" /\ ~shared => r.data = disk[sector_idx(c)]
TransferOK(t) == ChunkTransfer(fcall[t], request[t], stale[t], mixed[t], store)

\* What a reader has is the file's state.
GotOK(t) ==
  LET c == fcall[t] IN
  c.pc \in Busy /\ c.op # "write" /\ ~mixed[t] /\ ~raced =>
    \A k \in 1 .. Len(c.got) : c.got[k] = last[c.offset + k - 1]

\* deny_write_cnt counts the files being loaded; while there is one, no system call
\* writes.
Loaders == {t \in Client : fcall[t].op = "load"}
CountOK == IsFiniteSet(Loaders) /\ deny_write_cnt = Cardinality(Loaders)
DenyOK(t) ==
  t \in FProc /\ fcall[t].op = "write" /\ fcall[t].pc \in Busy /\ Loaders # {} =>
    fcall[t].size <= 0

BytesOK == raced \/ \A i \in 0 .. FileLength - 1 : ByteAt(i) = last[i]

FileInv ==
  /\ FileTyped /\ CountOK /\ BytesOK
  /\ \A t \in Client : PlaceOK(t) /\ TransferOK(t) /\ GotOK(t) /\ DenyOK(t)

\* Places in sectors.
LEMMA Sizes == /\ SectorSize \in Nat \ {0} /\ FileLength \in Nat /\ Byte # {}
               /\ Client = FProc \cup {Evictor} /\ Evictor \notin FProc /\ None \notin Client
               /\ Data = [0 .. SectorSize - 1 -> Byte]
  BY FileIOAssumption, Zenon

\* Which sector a position of a file is in, and where in it: byte_to_sector() and
\* sector_ofs of inode_read_at() and inode_write_at().
LEMMA Division ==
  ASSUME NEW a \in Nat
  PROVE  /\ a \div SectorSize \in Nat /\ a % SectorSize \in 0 .. SectorSize - 1
         /\ a = SectorSize * (a \div SectorSize) + (a % SectorSize)
<1>1. SectorSize \in Nat /\ SectorSize > 0
  BY Sizes
<1> QED
  BY <1>1

\* Sectors do not overlap.
LEMMA Products ==
  ASSUME NEW q \in Nat, NEW r \in Nat
  PROVE  SectorSize * q \in Nat /\ (q < r => SectorSize * q + SectorSize <= SectorSize * r)
<1>0. SectorSize \in Nat
  BY Sizes
<1>1. SectorSize * q \in Nat
  BY <1>0
<1>2. ASSUME q < r PROVE SectorSize * q + SectorSize <= SectorSize * r
  <2>1. PICK d \in Nat : r = q + 1 + d
    BY <1>2
  <2>2. SectorSize * r = SectorSize * q + SectorSize + SectorSize * d /\ SectorSize * d \in Nat
    BY <1>0, <2>1
  <2> QED
    BY <1>0, <1>1, <2>2
<1> QED
  BY <1>1, <1>2, Zenon

\* Division finds the sector and the place in it.
LEMMA Quotient ==
  ASSUME NEW a \in Nat, NEW q \in Nat, NEW r \in 0 .. SectorSize - 1, a = SectorSize * q + r
  PROVE  a \div SectorSize = q /\ a % SectorSize = r
<1> DEFINE p == a \div SectorSize
           s == a % SectorSize
<1>0. SectorSize \in Nat
  BY Sizes
<1>1. p \in Nat /\ s \in 0 .. SectorSize - 1 /\ a = SectorSize * p + s
  BY Division, Zenon
<1>2. SectorSize * p \in Nat /\ (p < q => SectorSize * p + SectorSize <= SectorSize * q)
  BY <1>1, Products, Zenon
<1>3. SectorSize * q \in Nat /\ (q < p => SectorSize * q + SectorSize <= SectorSize * p)
  BY <1>1, Products, Zenon
<1> HIDE DEF p, s
<1>4. ~(p < q) /\ ~(q < p)
  <2> DEFINE x == SectorSize * p
             y == SectorSize * q
  <2>1. /\ x \in Nat /\ y \in Nat /\ (p < q => x + SectorSize <= y) /\ (q < p => y + SectorSize <= x)
        /\ x + s = y + r
    BY <1>1, <1>2, <1>3, Zenon
  <2> HIDE DEF x, y
  <2> QED
    BY <1>0, <1>1, <2>1
<1>5. p = q
  BY <1>1, <1>4
<1>6. s = r
  BY <1>0, <1>1, <1>3, <1>5
<1> QED
  BY <1>5, <1>6, Zenon DEF p, s

\* byte_to_sector(): every byte of the file is in one of its sectors.
LEMMA InSector ==
  ASSUME NEW a \in 0 .. FileLength - 1
  PROVE  a \div SectorSize \in Sector
<1> DEFINE q == a \div SectorSize
           b == FileLength + SectorSize - 1
           m == b \div SectorSize
<1>0. SectorSize \in Nat /\ SectorSize > 0 /\ FileLength \in Nat /\ a \in Nat /\ a < FileLength /\ b \in Nat
  BY Sizes
<1>1. q \in Nat /\ a % SectorSize \in 0 .. SectorSize - 1 /\ a = SectorSize * q + (a % SectorSize)
  BY <1>0, Division, Zenon
<1> HIDE DEF b
<1>2. m \in Nat /\ b % SectorSize \in 0 .. SectorSize - 1 /\ b = SectorSize * m + (b % SectorSize)
  BY <1>0, Division, Zenon
<1> DEFINE x == SectorSize * q
           y == SectorSize * m
           u == a % SectorSize
           v == b % SectorSize
<1> HIDE DEF q, m
<1>3. SectorSize * m \in Nat /\ SectorSize * q \in Nat /\ (m < q => SectorSize * m + SectorSize <= SectorSize * q)
  BY <1>1, <1>2, Products, Zenon
<1>5. x \in Nat /\ y \in Nat /\ (m < q => y + SectorSize <= x) /\ (m = q => x = y)
  BY <1>3, Zenon
<1>6. a = x + u /\ b = y + v /\ u \in 0 .. SectorSize - 1 /\ v \in 0 .. SectorSize - 1
  BY <1>1, <1>2, Zenon
<1> HIDE DEF x, y, u, v
<1>7. y > x
  BY <1>0, <1>5, <1>6 DEF b
<1>8. ~(m < q) /\ m # q
  BY <1>0, <1>5, <1>7
<1>9. q \in 0 .. m - 1
  BY <1>1, <1>2, <1>8
<1>10. Sector = 0 .. m - 1
  BY FileIOAssumption, Zenon DEF m, b
<1> QED
  BY <1>9, <1>10, Zenon DEF q

\* The smallest and the largest of a few numbers.
LEMMA MinOfThree ==
  ASSUME NEW a \in Int, NEW b \in Int, NEW d \in Int
  PROVE  /\ Min({a, b, d}) \in {a, b, d}
         /\ Min({a, b, d}) <= a /\ Min({a, b, d}) <= b /\ Min({a, b, d}) <= d
<1>1. \E x \in {a, b, d} : \A y \in {a, b, d} : x <= y
  <2>1. CASE a <= b /\ a <= d
    BY <2>1
  <2>2. CASE b <= a /\ b <= d
    BY <2>2
  <2>3. CASE d <= a /\ d <= b
    BY <2>3
  <2> QED
    BY <2>1, <2>2, <2>3
<1> QED
  BY <1>1, Zenon DEF Min

\* A transfer that stays within the size asked for and the rest of the file is within
\* the smaller of them: the loop conditions of inode_read_at() and inode_write_at().
LEMMA Limits ==
  ASSUME NEW a \in Int, NEW b \in Int, NEW n \in Int, n = 0 \/ (n <= a /\ n <= b)
  PROVE  n <= Max({0, Min({a, b})})
<1>1. \E x \in {a, b} : \A y \in {a, b} : x <= y
  <2>1. CASE a <= b
    BY <2>1
  <2>2. CASE b <= a
    BY <2>2
  <2> QED
    BY <2>1, <2>2
<1> DEFINE m == Min({a, b})
<1>2. m \in {a, b}
  BY <1>1, Zenon DEF Min
<1>3. m \in Int
  BY <1>2
<1> HIDE DEF m
<1>4. \E x \in {0, m} : \A y \in {0, m} : x >= y
  <2>1. CASE 0 >= m
    BY <1>3, <2>1
  <2>2. CASE m >= 0
    BY <1>3, <2>2
  <2> QED
    BY <1>3, <2>1, <2>2
<1> DEFINE k == Max({0, m})
<1>5. k \in {0, m} /\ k >= 0 /\ k >= m
  BY <1>4, Zenon DEF Max
<1> HIDE DEF k
<1>6. n <= k
  BY <1>2, <1>3, <1>5
<1> QED
  BY <1>6, Zenon DEF k, m

\* A chunk lies in one sector and in the file.
LEMMA ChunkFacts ==
  ASSUME NEW c, c.size \in Int, c.offset \in Nat, c.done \in Nat
  PROVE  /\ chunk_size(c) \in Int /\ chunk_size(c) <= c.size - c.done
         /\ sector_ofs(c) \in 0 .. SectorSize - 1 /\ sector_idx(c) \in Nat
         /\ c.offset + c.done = SectorSize * sector_idx(c) + sector_ofs(c)
         /\ chunk_size(c) <= FileLength - (c.offset + c.done)
         /\ sector_ofs(c) + chunk_size(c) <= SectorSize
         /\ chunk_size(c) > 0 => sector_idx(c) \in Sector
<1> DEFINE p == c.offset + c.done
           o == sector_ofs(c)
           a == c.size - c.done
           b == FileLength - p
           d == SectorSize - o
           n == chunk_size(c)
<1>0. SectorSize \in Nat /\ SectorSize > 0 /\ FileLength \in Nat
  BY Sizes
<1>1. p \in Nat /\ a \in Int
  OBVIOUS
<1>2. o = p % SectorSize /\ sector_idx(c) = p \div SectorSize /\ n = Min({a, b, d})
  BY Zenon DEF sector_ofs, sector_idx, chunk_size
<1> HIDE DEF p, o, a, n
<1>3. o \in 0 .. SectorSize - 1 /\ sector_idx(c) \in Nat /\ p = SectorSize * sector_idx(c) + o
  BY <1>1, <1>2, Division, Zenon
<1>4. b \in Int /\ d \in Int
  BY <1>0, <1>1, <1>3
<1> HIDE DEF b, d
<1>5. n \in {a, b, d} /\ n <= a /\ n <= b /\ n <= d
  BY <1>1, <1>2, <1>4, MinOfThree, Zenon
<1>6. n \in Int
  BY <1>1, <1>4, <1>5
<1>7. n <= FileLength - p /\ o + n <= SectorSize
  BY <1>0, <1>1, <1>3, <1>5, <1>6 DEF b, d
<1>8. ASSUME n > 0 PROVE sector_idx(c) \in Sector
  <2>1. p \in 0 .. FileLength - 1
    BY <1>0, <1>1, <1>6, <1>7, <1>8
  <2> QED
    BY <1>2, <2>1, InSector, Zenon
<1> QED
  BY <1>3, <1>5, <1>6, <1>7, <1>8, Zenon DEF p, o, a, n

\* The bytes of a chunk, in the file and in the sector.
LEMMA ChunkPlaces ==
  ASSUME NEW c, c.size \in Int, c.offset \in Nat, c.done \in Nat, NEW i \in Nat
  PROVE  /\ i \in c.offset + c.done .. c.offset + c.done + chunk_size(c) - 1 <=>
              i \div SectorSize = sector_idx(c) /\ i % SectorSize \in Chunk(c)
         /\ i \in c.offset + c.done .. c.offset + c.done + chunk_size(c) - 1 =>
              i % SectorSize = sector_ofs(c) + (i - (c.offset + c.done))
<1> DEFINE p == c.offset + c.done
           o == sector_ofs(c)
           n == chunk_size(c)
           q == sector_idx(c)
<1>0. SectorSize \in Nat /\ SectorSize > 0
  BY Sizes
<1>1. p \in Nat
  OBVIOUS
<1>2. n \in Int /\ o \in 0 .. SectorSize - 1 /\ q \in Nat /\ p = SectorSize * q + o /\ o + n <= SectorSize
  BY ChunkFacts, Zenon
<1>3. Chunk(c) = o .. o + n - 1
  BY Zenon DEF Chunk
<1> HIDE DEF p, o, n, q
<1> DEFINE x == SectorSize * q
<1>4. x \in Nat /\ p = x + o
  BY <1>0, <1>2
<1> HIDE DEF x
<1>5. ASSUME i \in p .. p + n - 1
      PROVE  i \div SectorSize = q /\ i % SectorSize = o + (i - p) /\ i % SectorSize \in o .. o + n - 1
  <2> DEFINE r == o + (i - p)
  <2>1. r \in 0 .. SectorSize - 1 /\ i = x + r /\ r \in o .. o + n - 1
    BY <1>0, <1>1, <1>2, <1>4, <1>5
  <2> HIDE DEF r
  <2>2. i \div SectorSize = q /\ i % SectorSize = r
    BY <1>2, <2>1, Quotient, Zenon DEF x
  <2> QED
    BY <2>1, <2>2, Zenon DEF r
<1>6. ASSUME i \div SectorSize = q, i % SectorSize \in o .. o + n - 1 PROVE i \in p .. p + n - 1
  <2> DEFINE s == i % SectorSize
  <2>1. i = x + s /\ s \in o .. o + n - 1
    BY <1>6, Division, Zenon DEF x
  <2> HIDE DEF s
  <2> QED
    BY <1>1, <1>2, <1>4, <2>1
<1> QED
  BY <1>3, <1>5, <1>6, Zenon DEF p, o, n, q

-----------------------------------------------------------------------------
(* Calls and requests.                                                     *)

\* The fields of a call and of a request.
LEMMA CallFields ==
  ASSUME NEW c \in FileCallType
  PROVE  /\ c.pc \in Busy \cup {"idle", "lock", "return"} /\ c.op \in {"none", "read", "write", "load"}
         /\ c.size \in Int /\ c.offset \in Nat /\ c.done \in Nat
         /\ c.value \in Byte \cup {None} /\ c.bounce \in BOOLEAN /\ c.got \in Seq(Byte)
  BY Zenon DEF FileCallType

\* disk_read() and disk_write() return to inode_read_at() and inode_write_at().
LEMMA AnsweredIs ==
  ASSUME NEW data \in Data
  PROVE  /\ Answered(data) \in RequestType
         /\ Answered(data).op = "done" /\ Answered(data).data = data
  BY DEF Answered, RequestType

\* A thread that is not in disk_read() or disk_write().
LEMMA NoRequestIs == NoRequest \in RequestType /\ NoRequest.op = "none" /\ NoRequest.op \notin {"read", "write", "done"}
  BY DEF NoRequest, RequestType

\* A request that has data has a sector's worth of it.
LEMMA RequestData ==
  ASSUME NEW r \in RequestType
  PROVE  /\ r.op \in {"none", "read", "write", "done"}
         /\ r.op \in {"read", "write"} => r.sec \in Sector /\ r.data \in Data
         /\ r.op = "done" => r.data \in Data
<1>1. CASE r = NoRequest
  BY <1>1 DEF NoRequest
<1>2. CASE r \in [op : {"read", "write"}, sec : Sector, data : Data]
  BY <1>2
<1>3. CASE r \in [op : {"done"}, data : Data]
  BY <1>3
<1> QED
  BY <1>1, <1>2, <1>3, Zenon DEF RequestType

\* NoFileCall, and a call that Enter() makes of it.
LEMMA NoCallIs ==
  /\ NoFileCall \in FileCallType /\ NoFileCall.pc = "idle" /\ NoFileCall.op = "none"
  /\ NoFileCall.done = 0 /\ NoFileCall.got = <<>>
<1>1. <<>> \in Seq(Byte) /\ 0 \in Nat /\ 0 \in Int
  OBVIOUS
<1> QED
  BY <1>1, Zenon DEF NoFileCall, FileCallType

NewCall(pc, op, size, offset, value) ==
  [NoFileCall EXCEPT !.pc = pc, !.op = op, !.size = size, !.offset = offset, !.value = value]

\* The chunk of a call depends on size, offset and done only.
LEMMA SameChunk ==
  ASSUME NEW c, NEW d, c.size = d.size, c.offset = d.offset, c.done = d.done
  PROVE  /\ sector_ofs(c) = sector_ofs(d) /\ sector_idx(c) = sector_idx(d)
         /\ chunk_size(c) = chunk_size(d) /\ Whole(c) = Whole(d) /\ Chunk(c) = Chunk(d)
<1>1. sector_ofs(c) = sector_ofs(d) /\ sector_idx(c) = sector_idx(d)
  BY Zenon DEF sector_ofs, sector_idx
<1>2. chunk_size(c) = chunk_size(d)
  BY <1>1, Zenon DEF chunk_size
<1> QED
  BY <1>1, <1>2, Zenon DEF Whole, Chunk

\* The buffer for a chunk depends on the call's place only, not on its pc.
LEMMA SameFilled ==
  ASSUME NEW c, NEW d, c.size = d.size, c.offset = d.offset, c.done = d.done, c.value = d.value, NEW x
  PROVE  Filled(c, x) = Filled(d, x)
<1>1. Chunk(c) = Chunk(d)
  BY SameChunk, Zenon
<1> QED
  BY <1>1, Zenon DEF Filled

\* The contents of a sector that inode_create() filled with zeros.
LEMMA NoDataIs == NoData \in Data
<1>1. (CHOOSE b \in Byte : TRUE) \in Byte
  BY Sizes, Zenon
<1> QED
  BY <1>1, Sizes, Zenon DEF NoData

\* The buffer that is written for a chunk.
LEMMA FilledIs ==
  ASSUME NEW c, c.value \in Byte, NEW x \in Data
  PROVE  /\ Filled(c, x) \in Data
         /\ \A i \in 0 .. SectorSize - 1 : Filled(c, x)[i] = IF i \in Chunk(c) THEN c.value ELSE x[i]
<1>1. \A i \in 0 .. SectorSize - 1 : x[i] \in Byte
  BY Sizes, Zenon
<1> QED
  BY <1>1, Sizes, Zenon DEF Filled

\* inode_write_at() writes a full sector without reading it first: what was there does
\* not matter.
LEMMA WholeFilled ==
  ASSUME NEW c, c.value \in Byte, NEW x \in Data, NEW y \in Data, Whole(c)
  PROVE  Filled(c, x) = Filled(c, y)
<1>1. Chunk(c) = 0 .. SectorSize - 1
  <2>1. Chunk(c) = 0 .. 0 + SectorSize - 1
    BY Zenon DEF Chunk, Whole
  <2>2. SectorSize \in Nat
    BY Sizes
  <2> QED
    BY <2>1, <2>2
<1> QED
  BY <1>1, Zenon DEF Filled

\* All the state is typed.
LEMMA Typed ==
  ASSUME FileInv, NEW t \in Client
  PROVE  /\ fcall \in [Client -> FileCallType] /\ fcall[t] \in FileCallType
         /\ request \in [Client -> RequestType] /\ request[t] \in RequestType
         /\ PlaceOK(t) /\ TransferOK(t) /\ GotOK(t) /\ DenyOK(t)
  BY Zenon DEF FileInv, FileTyped

\* What t is in follows from the place of its call.
LEMMA Working ==
  ASSUME FileInv, NEW t \in Client, request[t].op \in {"read", "write", "done"}
  PROVE  fcall[t].pc \in {"io", "merge"} /\ fcall[t].pc \in Busy /\ fcall[t].op # "none"
<1>1. fcall[t] \in FileCallType /\ PlaceOK(t)
  BY Typed, Zenon
<1>2. fcall[t].pc \in Busy \cup {"idle", "lock", "return"}
  BY <1>1, CallFields, Zenon
<1>3. fcall[t].pc \notin {"idle", "lock", "loop", "return"}
  BY <1>1, NoRequestIs, Zenon DEF PlaceOK
<1> QED
  BY <1>1, <1>2, <1>3, Zenon DEF Busy, PlaceOK

\* A call that a step does not touch stays in its place...
LEMMA PlaceStays ==
  ASSUME NEW u \in Client, PlaceOK(u), fcall'[u] = fcall[u], request'[u] = request[u],
         filesys_lock' = filesys_lock \/ filesys_lock # u
  PROVE  PlaceOK(u)'
  BY Zenon DEF PlaceOK

\* ... and so does its transfer.
LEMMA TransferStays ==
  ASSUME NEW u \in Client, TransferOK(u), fcall'[u] = fcall[u], request'[u] = request[u],
         stale'[u] = stale[u], mixed'[u] = mixed[u], store' = store
  PROVE  TransferOK(u)'
  BY Zenon DEF TransferOK

\* A step that changes t's call and request, and not the disk's contents.
LEMMA CallMoves ==
  ASSUME FileInv, NEW t \in Client, NEW c \in FileCallType, NEW r \in RequestType,
         fcall' = [fcall EXCEPT ![t] = c], request' = [request EXCEPT ![t] = r],
         UNCHANGED <<store, last, raced>>,
         pos' \in [FProc -> Nat], filesys_lock' \in Client \cup {None},
         filesys_lock' = filesys_lock \/ filesys_lock \in {None, t},
         mixed' \in [Client -> BOOLEAN], stale' \in [Client -> BOOLEAN],
         \A u \in Client : u # t => mixed'[u] = mixed[u] /\ stale'[u] = stale[u],
         fcall'[t] = c /\ request'[t] = r => PlaceOK(t)' /\ TransferOK(t)' /\ GotOK(t)',
         CountOK', \A u \in Client : DenyOK(u)'
  PROVE  FileInv'
<1>1. /\ fcall' \in [Client -> FileCallType] /\ request' \in [Client -> RequestType]
      /\ fcall'[t] = c /\ request'[t] = r
      /\ \A u \in Client : u # t => fcall'[u] = fcall[u] /\ request'[u] = request[u]
  BY Zenon DEF FileInv, FileTyped
<1>2. FileTyped'
  BY <1>1, Zenon DEF FileInv, FileTyped
<1>3. BytesOK'
  BY Zenon DEF FileInv, BytesOK, ByteAt
<1>4. ASSUME NEW u \in Client, u # t PROVE PlaceOK(u)' /\ TransferOK(u)' /\ GotOK(u)'
  <2>1. u # None
    BY Sizes, Zenon
  <2>2. PlaceOK(u) /\ TransferOK(u) /\ GotOK(u)
    BY Typed, Zenon
  <2>3. fcall'[u] = fcall[u] /\ request'[u] = request[u] /\ mixed'[u] = mixed[u] /\ stale'[u] = stale[u]
    BY <1>1, <1>4, Zenon
  <2>4. filesys_lock' = filesys_lock \/ filesys_lock # u
    BY <1>4, <2>1, Zenon
  <2>5. PlaceOK(u)'
    BY <2>2, <2>3, <2>4, PlaceStays, Zenon
  <2>6. TransferOK(u)'
    BY <2>2, <2>3, TransferStays, Zenon
  <2>7. GotOK(u)'
    BY <2>2, <2>3, Zenon DEF GotOK
  <2> QED
    BY <2>5, <2>6, <2>7, Zenon
<1>5. PlaceOK(t)' /\ TransferOK(t)' /\ GotOK(t)'
  BY <1>1, Zenon
<1> QED
  BY <1>2, <1>3, <1>4, <1>5, Zenon DEF FileInv

\* The number of loads does not change when no call changes between a load and
\* something else.
LEMMA LoadersStay ==
  ASSUME FileInv, \A u \in Client : fcall'[u].op = "load" <=> fcall[u].op = "load",
         deny_write_cnt' = deny_write_cnt
  PROVE  Loaders' = Loaders /\ CountOK'
<1>1. Loaders' = Loaders
  BY Zenon DEF Loaders
<1> QED
  BY <1>1, Zenon DEF FileInv, CountOK

\* The calls go on with the same number of loads; t's call does not begin to write.
LEMMA DenyStays ==
  ASSUME FileInv, NEW t \in Client, NEW c, fcall' = [fcall EXCEPT ![t] = c], Loaders' = Loaders,
         c.op = "write" /\ c.pc \in Busy =>
           fcall[t].op = "write" /\ fcall[t].pc \in Busy /\ c.size = fcall[t].size
  PROVE  \A u \in Client : DenyOK(u)'
<1>1. fcall'[t] = c /\ \A u \in Client : u # t => fcall'[u] = fcall[u]
  BY Zenon DEF FileInv, FileTyped
<1>2. \A u \in Client : DenyOK(u)
  BY Zenon DEF FileInv
<1>3. DenyOK(t)'
  BY <1>1, <1>2, Zenon DEF DenyOK
<1>4. ASSUME NEW u \in Client, u # t PROVE DenyOK(u)'
  BY <1>1, <1>2, <1>4, Zenon DEF DenyOK
<1> QED
  BY <1>3, <1>4, Zenon

-----------------------------------------------------------------------------
(* The steps.                                                              *)

\* The invariant holds before the first call, of a file that inode_create() zeroed.
LEMMA FileInvInit ==
  ASSUME FileInit
  PROVE  FileInv
<1> DEFINE z == CHOOSE b \in Byte : TRUE
<1>1. z \in Byte
  BY Sizes, Zenon
<1>2. NoData = [i \in 0 .. SectorSize - 1 |-> z] /\ NoData \in Data
  BY NoDataIs, Zenon DEF NoData
<1> HIDE DEF z
<1>3. \A i \in Nat : i % SectorSize \in 0 .. SectorSize - 1
  BY Division, Zenon
<1>4. 0 \in 0 .. SectorSize - 1 /\ \A i \in 0 .. FileLength - 1 : i \in Nat
  BY Sizes
<1>5. NoData[0] = z /\ \A i \in Nat : NoData[i % SectorSize] = z
  BY <1>2, <1>3, <1>4, Zenon
<1>6. BytesOK
  <2>1. ASSUME NEW i \in 0 .. FileLength - 1 PROVE ByteAt(i) = last[i]
    <3>1. i \in Nat /\ i \div SectorSize \in Sector
      BY <1>4, InSector, Zenon
    <3>2. last[i] = z
      BY <1>5, Zenon DEF FileInit
    <3> QED
      BY <1>5, <3>1, <3>2, Zenon DEF FileInit, ByteAt
  <2> QED
    BY <2>1, Zenon DEF BytesOK
<1>7. FileTyped
  <2>1. 0 \in Nat
    OBVIOUS
  <2> QED
    BY <1>1, <1>2, <1>5, <2>1, NoCallIs, NoRequestIs, Zenon DEF FileInit, FileTyped
<1>8. CountOK
  <2>1. Loaders = {}
    BY NoCallIs, Zenon DEF FileInit, Loaders
  <2> QED
    BY <2>1, FS_EmptySet, Zenon DEF CountOK, FileInit
<1>9. ASSUME NEW t \in Client PROVE PlaceOK(t) /\ TransferOK(t) /\ GotOK(t) /\ DenyOK(t)
  <2>1. fcall[t] = NoFileCall /\ request[t] = NoRequest
    BY Zenon DEF FileInit
  <2>2. /\ fcall[t].pc = "idle" /\ fcall[t].op = "none" /\ fcall[t].done = 0 /\ fcall[t].got = <<>>
        /\ request[t].op = "none"
    BY <2>1, NoCallIs, NoRequestIs, Zenon
  <2>3. Len(<<>>) = 0 /\ "idle" \notin Busy
    BY DEF Busy
  <2>4. PlaceOK(t)
    BY <2>1, <2>2, <2>3, Zenon DEF PlaceOK
  <2>5. TransferOK(t)
    BY <2>2, Zenon DEF TransferOK, ChunkTransfer
  <2> QED
    BY <2>2, <2>3, <2>4, <2>5, Zenon DEF GotOK, DenyOK
<1> QED
  BY <1>6, <1>7, <1>8, <1>9, Zenon DEF FileInv

\* A call without a request has no transfer.
LEMMA NoTransfer ==
  ASSUME NEW t \in Client, fcall'[t].pc \notin {"io", "merge"}, request'[t] = NoRequest
  PROVE  TransferOK(t)'
<1>1. request'[t].op \notin {"read", "write", "done"}
  BY NoRequestIs, Zenon
<1> QED
  BY <1>1, Zenon DEF TransferOK, ChunkTransfer

\* A step that asks nothing of the disk, in the form CallMoves takes.
LEMMA SameRequest ==
  ASSUME FileInv, NEW t \in Client, request' = request
  PROVE  request' = [request EXCEPT ![t] = request[t]]
  BY Zenon DEF FileInv, FileTyped

\* inode_deny_write() counts the loads.
LEMMA Denied ==
  ASSUME FileInv
  PROVE  deny_write_cnt \in Nat /\ (Loaders # {} => deny_write_cnt > 0)
<1>1. IsFiniteSet(Loaders) /\ deny_write_cnt = Cardinality(Loaders)
  BY Zenon DEF FileInv, CountOK
<1>2. deny_write_cnt \in Nat
  BY <1>1, FS_CardinalityType, Zenon
<1>3. Loaders # {} => deny_write_cnt # 0
  BY <1>1, FS_EmptySet, Zenon
<1> QED
  BY <1>2, <1>3

\* read() and write(), before the lock.
LEMMA SysReadWriteStep ==
  ASSUME FileInv, NEW t \in Client, SysReadWrite(t)
  PROVE  FileInv'
<1>1. /\ t \in FProc /\ fcall[t].pc = "idle"
      /\ UNCHANGED <<store, request, pos, filesys_lock, last, mixed, stale, raced, deny_write_cnt>>
  BY Zenon DEF SysReadWrite, storeVars
<1>2. PICK size \in IoSizes, v \in Byte, op \in {"read", "write"} :
        fcall' = [fcall EXCEPT ![t] = NewCall("lock", op, size, pos[t], IF op = "write" THEN v ELSE None)]
  BY Zenon DEF SysReadWrite, Enter, NewCall
<1> DEFINE w == IF op = "write" THEN v ELSE None
           c == NewCall("lock", op, size, pos[t], w)
<1>3. size \in Int /\ pos[t] \in Nat /\ w \in Byte \cup {None} /\ (op = "write" => w \in Byte)
      /\ "lock" \in Busy \cup {"lock"} /\ op \in {"read", "write", "load"}
  BY <1>1, FileIOAssumption, Zenon DEF FileInv, FileTyped
<1>c. c = NewCall("lock", op, size, pos[t], w)
  OBVIOUS
<1> HIDE DEF c, w
<1>4. /\ c \in FileCallType /\ c.pc = "lock" /\ c.op = op /\ c.value = w
      /\ c.done = 0 /\ c.got = <<>>
  BY <1>3, <1>c, NoCallIs, Zenon DEF NewCall, FileCallType
<1>5. fcall' = [fcall EXCEPT ![t] = c]
  BY <1>2, <1>c, Zenon DEF w
<1>6. request[t] = NoRequest /\ fcall[t].op = "none" /\ request[t] \in RequestType
  BY <1>1, Typed, Zenon DEF PlaceOK
<1>7. fcall'[t] = c /\ \A u \in Client : u # t => fcall'[u] = fcall[u]
  BY <1>5, Zenon DEF FileInv, FileTyped
<1>8. Loaders' = Loaders /\ CountOK'
  <2>1. \A u \in Client : fcall'[u].op = "load" <=> fcall[u].op = "load"
    BY <1>4, <1>6, <1>7, Zenon
  <2> QED
    BY <1>1, <2>1, LoadersStay, Zenon
<1>9. "lock" \notin Busy /\ Len(<<>>) = 0
  BY DEF Busy
<1>10. \A u \in Client : DenyOK(u)'
  BY <1>4, <1>5, <1>8, <1>9, DenyStays, Zenon
<1>11. PlaceOK(t)'
  <2>1. t # Evictor
    BY <1>1, Sizes, Zenon
  <2> QED
    BY <1>1, <1>3, <1>4, <1>6, <1>7, <1>9, <2>1, Zenon DEF PlaceOK
<1>12. TransferOK(t)' /\ GotOK(t)'
  BY <1>1, <1>4, <1>6, <1>7, <1>9, NoTransfer, Zenon DEF GotOK
<1>13. /\ request' = [request EXCEPT ![t] = request[t]] /\ pos' \in [FProc -> Nat]
       /\ filesys_lock' \in Client \cup {None} /\ mixed' \in [Client -> BOOLEAN] /\ stale' \in [Client -> BOOLEAN]
  BY <1>1, SameRequest, Zenon DEF FileInv, FileTyped
<1> QED
  BY <1>1, <1>4, <1>5, <1>6, <1>8, <1>10, <1>11, <1>12, <1>13, CallMoves, Zenon

\* lock_acquire (&filesys_lock), and inode_write_at()'s test of deny_write_cnt.
LEMMA LockFilesysStep ==
  ASSUME FileInv, NEW t \in Client, LockFilesys(t)
  PROVE  FileInv'
<1> DEFINE d == fcall[t]
           n == Allowed(d.size, d.op)
           c == [d EXCEPT !.pc = "loop", !.size = n]
<1>1. /\ d.pc = "lock" /\ filesys_lock = None /\ filesys_lock' = t
      /\ fcall' = [fcall EXCEPT ![t].pc = "loop", ![t].size = Allowed(@, fcall[t].op)]
      /\ UNCHANGED <<store, request, pos, last, mixed, stale, raced, deny_write_cnt>>
  BY Zenon DEF LockFilesys, storeVars
<1>2. d \in FileCallType /\ fcall \in [Client -> FileCallType] /\ PlaceOK(t)
  BY Typed, Zenon
<1>3. fcall' = [fcall EXCEPT ![t] = c]
  BY <1>1, <1>2, Zenon
<1>4. n \in Int /\ (d.op = "write" /\ Loaders # {} => n = 0)
  <2>1. d.size \in Int
    BY <1>2, CallFields, Zenon
  <2>2. 0 \in Int
    OBVIOUS
  <2> QED
    BY <2>1, <2>2, Denied, Zenon DEF Allowed
<1>5. d.op \in {"read", "write"} /\ d.done = 0 /\ request[t] = NoRequest /\ t # Evictor
      /\ (d.op = "write" => d.value \in Byte) /\ (d.op # "write" => Len(d.got) = 0)
  BY <1>1, <1>2, Zenon DEF PlaceOK
<1> HIDE DEF n
<1>6. /\ c \in FileCallType /\ c.pc = "loop" /\ c.op = d.op /\ c.size = n /\ c.value = d.value
      /\ c.done = d.done /\ c.got = d.got
  BY <1>2, <1>4, Zenon DEF FileCallType, Busy
<1> HIDE DEF c
<1>7. fcall'[t] = c /\ \A u \in Client : u # t => fcall'[u] = fcall[u]
  BY <1>2, <1>3, Zenon
<1>8. Loaders' = Loaders /\ CountOK'
  <2>1. \A u \in Client : fcall'[u].op = "load" <=> fcall[u].op = "load"
    BY <1>6, <1>7, Zenon
  <2> QED
    BY <1>1, <2>1, LoadersStay, Zenon
<1>9. ASSUME NEW u \in Client PROVE DenyOK(u)'
  <2>1. CASE u = t
    BY <1>4, <1>6, <1>7, <1>8, <2>1, SMTT(30) DEF DenyOK
  <2>2. CASE u # t
    BY <1>7, <1>8, <2>2, Typed, Zenon DEF DenyOK
  <2> QED
    BY <2>1, <2>2, Zenon
<1>10. PlaceOK(t)'
  BY <1>1, <1>5, <1>6, <1>7, Zenon DEF PlaceOK
<1>11. TransferOK(t)' /\ GotOK(t)'
  <2>1. c.op # "write" => 1 .. Len(c.got) = {}
    BY <1>5, <1>6
  <2>2. GotOK(t)'
    BY <1>6, <1>7, <2>1, Zenon DEF GotOK
  <2> QED
    BY <1>1, <1>5, <1>6, <1>7, <2>2, NoTransfer, Zenon
<1>12. /\ request' = [request EXCEPT ![t] = request[t]] /\ pos' \in [FProc -> Nat] /\ request[t] \in RequestType
       /\ filesys_lock' \in Client \cup {None} /\ mixed' \in [Client -> BOOLEAN] /\ stale' \in [Client -> BOOLEAN]
  BY <1>1, SameRequest, Zenon DEF FileInv, FileTyped
<1>13. /\ UNCHANGED <<store, last, raced>> /\ filesys_lock \in {None, t}
       /\ \A u \in Client : mixed'[u] = mixed[u] /\ stale'[u] = stale[u]
  BY <1>1, Zenon
<1> HIDE DEF d
<1> QED
  BY <1>3, <1>6, <1>8, <1>9, <1>10, <1>11, <1>12, <1>13, CallMoves, Zenon

\* file_seek().
LEMMA SeekStep ==
  ASSUME FileInv, NEW t \in Client, seek(t)
  PROVE  FileInv'
<1>1. /\ t \in FProc /\ UNCHANGED <<store, request, fcall, filesys_lock, last, mixed, stale, raced, deny_write_cnt>>
      /\ \E p \in SeekTo : pos' = [pos EXCEPT ![t] = p]
  BY Zenon DEF seek, storeVars
<1>2. pos' \in [FProc -> Nat]
  BY <1>1, FileIOAssumption, Zenon DEF FileInv, FileTyped
<1>3. FileTyped' /\ CountOK' /\ BytesOK'
  BY <1>1, <1>2, Zenon DEF FileInv, FileTyped, CountOK, Loaders, BytesOK, ByteAt
<1>4. ASSUME NEW u \in Client PROVE PlaceOK(u)' /\ TransferOK(u)' /\ GotOK(u)' /\ DenyOK(u)'
  <2>1. PlaceOK(u) /\ TransferOK(u) /\ GotOK(u) /\ DenyOK(u)
    BY Typed, Zenon
  <2>2. PlaceOK(u)' /\ TransferOK(u)'
    BY <1>1, <2>1, PlaceStays, TransferStays, Zenon
  <2> QED
    BY <1>1, <2>1, <2>2, Zenon DEF GotOK, DenyOK, Loaders
<1> QED
  BY <1>3, <1>4, Zenon DEF FileInv

\* process_execute() denies writing, load() begins to read.
LEMMA LoadReadsStep ==
  ASSUME FileInv, NEW t \in Client, LoadReads(t)
  PROVE  FileInv'
<1>1. /\ t \in FProc /\ fcall[t].pc = "idle" /\ filesys_lock = None /\ deny_write_cnt' = deny_write_cnt + 1
      /\ UNCHANGED <<store, request, pos, filesys_lock, last, mixed, stale, raced>>
  BY Zenon DEF LoadReads, storeVars
<1>2. PICK size \in IoSizes : fcall' = [fcall EXCEPT ![t] = NewCall("loop", "load", size, 0, None)]
  BY Zenon DEF LoadReads, Enter, NewCall
<1> DEFINE c == NewCall("loop", "load", size, 0, None)
<1>3. size \in Int /\ 0 \in Nat /\ None \in Byte \cup {None} /\ "loop" \in Busy
  BY FileIOAssumption, Zenon DEF Busy
<1>c. c = NewCall("loop", "load", size, 0, None)
  OBVIOUS
<1> HIDE DEF c
<1>4. /\ c \in FileCallType /\ c.pc = "loop" /\ c.op = "load" /\ c.done = 0 /\ c.got = <<>>
  BY <1>3, <1>c, NoCallIs, Zenon DEF NewCall, FileCallType
<1>5. fcall' = [fcall EXCEPT ![t] = c]
  BY <1>2, <1>c, Zenon
<1>6. request[t] = NoRequest /\ fcall[t].op = "none" /\ request[t] \in RequestType
  BY <1>1, Typed, Zenon DEF PlaceOK
<1>7. fcall'[t] = c /\ \A u \in Client : u # t => fcall'[u] = fcall[u]
  BY <1>5, Zenon DEF FileInv, FileTyped
<1>8. CountOK'
  <2>1. Loaders' = Loaders \cup {t}
    BY <1>4, <1>7, Zenon DEF Loaders
  <2>2. t \notin Loaders
    BY <1>6, Zenon DEF Loaders
  <2>3. IsFiniteSet(Loaders) /\ deny_write_cnt = Cardinality(Loaders)
    BY Zenon DEF FileInv, CountOK
  <2>4. IsFiniteSet(Loaders \cup {t}) /\ Cardinality(Loaders \cup {t}) = Cardinality(Loaders) + 1
    BY <2>2, <2>3, FS_AddElement, Zenon
  <2> QED
    BY <1>1, <2>1, <2>3, <2>4, Zenon DEF CountOK
<1>9. ASSUME NEW u \in Client PROVE DenyOK(u)'
  <2>1. CASE u = t
    BY <1>4, <1>7, <2>1, Zenon DEF DenyOK
  <2>2. CASE u # t
    <3>1. PlaceOK(u) /\ u # None
      BY Typed, Sizes, Zenon
    <3> QED
      BY <1>1, <1>7, <2>2, <3>1, Zenon DEF DenyOK, PlaceOK
  <2> QED
    BY <2>1, <2>2, Zenon
<1>10. Len(<<>>) = 0 /\ 1 .. Len(<<>>) = {}
  OBVIOUS
<1>11. PlaceOK(t)'
  <2>1. t # Evictor
    BY <1>1, Sizes, Zenon
  <2> QED
    BY <1>1, <1>4, <1>6, <1>7, <1>10, <2>1, Zenon DEF PlaceOK
<1>12. TransferOK(t)' /\ GotOK(t)'
  BY <1>1, <1>4, <1>6, <1>7, <1>10, NoTransfer, Zenon DEF GotOK
<1>13. /\ request' = [request EXCEPT ![t] = request[t]] /\ pos' \in [FProc -> Nat]
       /\ filesys_lock' \in Client \cup {None} /\ mixed' \in [Client -> BOOLEAN] /\ stale' \in [Client -> BOOLEAN]
  BY <1>1, SameRequest, Zenon DEF FileInv, FileTyped
<1> QED
  BY <1>1, <1>4, <1>5, <1>6, <1>8, <1>9, <1>11, <1>12, <1>13, CallMoves, Zenon

\* ft_replacement() begins to write a page back.
LEMMA EvictorWritesStep ==
  ASSUME FileInv, NEW t \in Client, EvictorWrites(t)
  PROVE  FileInv'
<1>1. /\ t = Evictor /\ fcall[t].pc = "idle"
      /\ UNCHANGED <<store, request, pos, filesys_lock, last, mixed, stale, raced, deny_write_cnt>>
  BY Zenon DEF EvictorWrites, storeVars
<1> DEFINE n == Allowed(FileLength, "write")
<1>2. PICK v \in Byte : fcall' = [fcall EXCEPT ![t] = NewCall("loop", "write", n, 0, v)]
  BY Zenon DEF EvictorWrites, Enter, NewCall
<1> DEFINE c == NewCall("loop", "write", n, 0, v)
<1>3. n \in Int /\ 0 \in Nat /\ "loop" \in Busy
  BY Sizes DEF Allowed, Busy
<1>c. c = NewCall("loop", "write", n, 0, v)
  OBVIOUS
<1> HIDE DEF c
<1>4. /\ c \in FileCallType /\ c.pc = "loop" /\ c.op = "write" /\ c.value = v /\ c.done = 0
  BY <1>3, <1>c, NoCallIs, Zenon DEF NewCall, FileCallType
<1>5. fcall' = [fcall EXCEPT ![t] = c]
  BY <1>2, <1>c, Zenon
<1> HIDE DEF n
<1>6. request[t] = NoRequest /\ fcall[t].op = "none" /\ request[t] \in RequestType
  BY <1>1, Typed, Zenon DEF PlaceOK
<1>7. fcall'[t] = c /\ \A u \in Client : u # t => fcall'[u] = fcall[u]
  BY <1>5, Zenon DEF FileInv, FileTyped
<1>8. Loaders' = Loaders /\ CountOK'
  <2>1. \A u \in Client : fcall'[u].op = "load" <=> fcall[u].op = "load"
    BY <1>4, <1>6, <1>7, Zenon
  <2> QED
    BY <1>1, <2>1, LoadersStay, Zenon
<1>9. t \notin FProc
  BY <1>1, Sizes, Zenon
<1>10. ASSUME NEW u \in Client PROVE DenyOK(u)'
  <2>1. CASE u = t
    BY <1>9, <2>1, Zenon DEF DenyOK
  <2>2. CASE u # t
    BY <1>7, <1>8, <2>2, Typed, Zenon DEF DenyOK
  <2> QED
    BY <2>1, <2>2, Zenon
<1>11. PlaceOK(t)'
  BY <1>1, <1>4, <1>6, <1>7, <1>9, Zenon DEF PlaceOK
<1>12. TransferOK(t)' /\ GotOK(t)'
  BY <1>1, <1>4, <1>6, <1>7, NoTransfer, Zenon DEF GotOK
<1>13. /\ request' = [request EXCEPT ![t] = request[t]] /\ pos' \in [FProc -> Nat]
       /\ filesys_lock' \in Client \cup {None} /\ mixed' \in [Client -> BOOLEAN] /\ stale' \in [Client -> BOOLEAN]
  BY <1>1, SameRequest, Zenon DEF FileInv, FileTyped
<1> QED
  BY <1>1, <1>4, <1>5, <1>6, <1>8, <1>10, <1>11, <1>12, <1>13, CallMoves, Zenon

\* The loop of inode_read_at() or inode_write_at() is over, the lock is released.
LEMMA LoopEndsStep ==
  ASSUME FileInv, NEW t \in Client, LoopEnds(t)
  PROVE  FileInv'
<1> DEFINE d == fcall[t]
           c == [d EXCEPT !.pc = "return"]
<1>1. /\ d.pc = "loop" /\ fcall' = [fcall EXCEPT ![t].pc = "return"]
      /\ pos' = IF t \in FProc /\ d.op # "load" THEN [pos EXCEPT ![t] = pos[t] + d.done] ELSE pos
      /\ filesys_lock' = IF filesys_lock = t THEN None ELSE filesys_lock
      /\ UNCHANGED <<store, request, last, mixed, stale, raced, deny_write_cnt>>
  BY Zenon DEF LoopEnds, storeVars
<1>2. d \in FileCallType /\ fcall \in [Client -> FileCallType] /\ PlaceOK(t)
  BY Typed, Zenon
<1>3. fcall' = [fcall EXCEPT ![t] = c]
  BY <1>1, <1>2, Zenon
<1>4. /\ c \in FileCallType /\ c.pc = "return" /\ c.op = d.op /\ c.size = d.size /\ c.offset = d.offset
      /\ c.value = d.value /\ c.done = d.done /\ c.got = d.got
  BY <1>2, Zenon DEF FileCallType
<1> HIDE DEF c
<1>5. fcall'[t] = c /\ \A u \in Client : u # t => fcall'[u] = fcall[u]
  BY <1>2, <1>3, Zenon
<1>6. pos' \in [FProc -> Nat]
  <2>1. pos \in [FProc -> Nat] /\ d.done \in Nat
    BY <1>2, CallFields, Zenon DEF FileInv, FileTyped
  <2>2. t \in FProc => pos[t] + d.done \in Nat
    BY <2>1
  <2> QED
    BY <1>1, <2>1, <2>2, Zenon
<1>7. Loaders' = Loaders /\ CountOK'
  <2>1. \A u \in Client : fcall'[u].op = "load" <=> fcall[u].op = "load"
    BY <1>4, <1>5, Zenon
  <2> QED
    BY <1>1, <2>1, LoadersStay, Zenon
<1>8. "return" \notin Busy
  BY DEF Busy
<1>9. \A u \in Client : DenyOK(u)'
  BY <1>3, <1>4, <1>7, <1>8, DenyStays, Zenon
<1>10. request[t] = NoRequest /\ request'[t] = NoRequest
  BY <1>1, <1>2, Zenon DEF PlaceOK
<1>11. PlaceOK(t)'
  BY <1>1, <1>2, <1>4, <1>5, <1>8, <1>10, Zenon DEF PlaceOK
<1>12. TransferOK(t)' /\ GotOK(t)'
  BY <1>4, <1>5, <1>8, <1>10, NoTransfer, Zenon DEF GotOK
<1>13. /\ request' = [request EXCEPT ![t] = request[t]] /\ request[t] \in RequestType
       /\ filesys_lock' \in Client \cup {None} /\ mixed' \in [Client -> BOOLEAN] /\ stale' \in [Client -> BOOLEAN]
  BY <1>1, SameRequest, Zenon DEF FileInv, FileTyped
<1>14. /\ UNCHANGED <<store, last, raced>> /\ (filesys_lock' = filesys_lock \/ filesys_lock \in {None, t})
       /\ \A u \in Client : mixed'[u] = mixed[u] /\ stale'[u] = stale[u]
  BY <1>1, Zenon
<1> HIDE DEF d
<1> QED
  BY <1>3, <1>4, <1>6, <1>7, <1>9, <1>11, <1>12, <1>13, <1>14, CallMoves, Zenon

\* The next chunk is asked of the disk.
LEMMA NextChunkStep ==
  ASSUME FileInv, NEW t \in Client, NextChunk(t)
  PROVE  FileInv'
<1> DEFINE d == fcall[t]
           direct == d.op = "write" /\ Whole(d)
           p == IF direct \/ d.op # "write" THEN "io" ELSE "merge"
           b == d.bounce \/ ~Whole(d)
           c == [d EXCEPT !.pc = p, !.bounce = b]
           o == IF direct THEN "write" ELSE "read"
           x == IF direct THEN Filled(d, NoData) ELSE NoData
           r == Asked(o, sector_idx(d), x)
<1>1. /\ d.pc = "loop" /\ chunk_size(d) > 0 /\ request' = [request EXCEPT ![t] = r]
      /\ fcall' = [fcall EXCEPT ![t].pc = p, ![t].bounce = @ \/ ~Whole(d)]
      /\ UNCHANGED <<store, pos, filesys_lock, last, mixed, stale, raced, deny_write_cnt>>
  BY Zenon DEF NextChunk, Ask
<1>2. d \in FileCallType /\ fcall \in [Client -> FileCallType] /\ PlaceOK(t) /\ GotOK(t)
  BY Typed, Zenon
<1>3. fcall' = [fcall EXCEPT ![t] = c]
  BY <1>1, <1>2, Zenon
<1>4. p \in {"io", "merge"} /\ p \in Busy /\ b \in BOOLEAN
  BY Zenon DEF Busy
<1>w. /\ p = "merge" => d.op = "write" /\ ~Whole(d) /\ o = "read"
      /\ p = "io" /\ d.op = "write" => o = "write"
      /\ d.op # "write" => o = "read"
      /\ o = "write" => d.op = "write" /\ Whole(d) /\ x = Filled(d, NoData)
      /\ o \in {"read", "write"}
  BY Zenon
<1>5. d.op = "write" => d.value \in Byte
  BY <1>2, Zenon DEF PlaceOK
<1>6. x \in Data
  BY <1>5, NoDataIs, FilledIs, Zenon
<1> HIDE DEF direct, p, b, o, x
<1>7. /\ c \in FileCallType /\ c.pc = p /\ c.op = d.op /\ c.size = d.size /\ c.offset = d.offset
      /\ c.value = d.value /\ c.done = d.done /\ c.got = d.got
  BY <1>2, <1>4, Zenon DEF FileCallType
<1>8. d.size \in Int /\ d.offset \in Nat /\ d.done \in Nat
  BY <1>2, CallFields, Zenon
<1>9. sector_idx(d) \in Sector
  BY <1>1, <1>8, ChunkFacts, Zenon
<1>10. /\ r \in RequestType /\ r.op = o /\ r.sec = sector_idx(d) /\ r.data = x
  <2> DEFINE i == sector_idx(d)
  <2>1. i \in Sector /\ x \in Data /\ o \in {"read", "write"} /\ r = Asked(o, i, x)
    BY <1>6, <1>9, <1>w, Zenon
  <2> HIDE DEF i, r
  <2>2. r \in RequestType /\ r.op = o /\ r.sec = i /\ r.data = x
    BY <2>1 DEF Asked, RequestType
  <2> QED
    BY <2>2, Zenon DEF i
<1> HIDE DEF c, r
<1>11. /\ fcall'[t] = c /\ \A u \in Client : u # t => fcall'[u] = fcall[u]
       /\ request'[t] = r
  BY <1>1, <1>2, <1>3, Zenon DEF FileInv, FileTyped
<1>12. Loaders' = Loaders /\ CountOK'
  <2>1. \A u \in Client : fcall'[u].op = "load" <=> fcall[u].op = "load"
    BY <1>7, <1>11, Zenon
  <2> QED
    BY <1>1, <2>1, LoadersStay, Zenon
<1>13. "loop" \in Busy
  BY DEF Busy
<1>14. \A u \in Client : DenyOK(u)'
  <2>1. c.op = d.op /\ c.size = d.size /\ d.pc \in Busy
    BY <1>1, <1>7, <1>13, Zenon
  <2>2. fcall' = [fcall EXCEPT ![t] = c] /\ Loaders' = Loaders
    BY <1>3, <1>12, Zenon
  <2> QED
    BY <2>1, <2>2, DenyStays, Zenon
<1>15. PlaceOK(t)'
  <2>1. /\ c.pc \notin {"idle", "lock", "loop", "return"} /\ (c.pc = "merge" => c.op = "write")
        /\ filesys_lock' = filesys_lock /\ d.pc \in Busy /\ d.pc # "idle"
    BY <1>1, <1>4, <1>7, <1>13, <1>w, Zenon
  <2> QED
    BY <1>2, <1>7, <1>11, <2>1, Zenon DEF PlaceOK
<1>16. TransferOK(t)'
  <2>1. sector_idx(c) = sector_idx(d) /\ chunk_size(c) = chunk_size(d) /\ Whole(c) = Whole(d)
    BY <1>7, SameChunk, Zenon
  <2>2. store[sector_idx(d)] \in Data
    BY <1>9, Zenon DEF FileInv, FileTyped
  <2>3. o = "write" => x = Filled(c, store[sector_idx(d)])
    <3>1. Filled(c, store[sector_idx(d)]) = Filled(d, store[sector_idx(d)])
      <4>1. c.size = d.size /\ c.offset = d.offset /\ c.done = d.done /\ c.value = d.value
        BY <1>7, Zenon
      <4> HIDE DEF d
      <4>2. \A y : Filled(c, y) = Filled(d, y)
        BY <4>1, SameFilled, Zenon
      <4> QED
        BY <4>2, Zenon
    <3>2. o = "write" => Filled(d, NoData) = Filled(d, store[sector_idx(d)])
      BY <1>5, <1>w, <2>2, NoDataIs, WholeFilled, Zenon
    <3> QED
      BY <1>w, <3>1, <3>2, Zenon
  <2>4. o # "done"
    BY <1>w, Zenon
  <2>5. chunk_size(d) > 0 /\ UNCHANGED <<stale, mixed, store>>
    BY <1>1, Zenon
  <2> HIDE DEF d
  <2>6. \A e, f : ChunkTransfer(c, r, e, f, store)
    BY <1>4, <1>7, <1>10, <1>w, <2>1, <2>3, <2>4, <2>5, Zenon DEF ChunkTransfer
  <2> QED
    BY <1>11, <2>5, <2>6, Zenon DEF TransferOK
<1>17. GotOK(t)'
  <2>1. d.pc \in Busy /\ UNCHANGED <<mixed, raced, last>>
    BY <1>1, <1>13, Zenon
  <2> QED
    BY <1>2, <1>7, <1>11, <2>1, Zenon DEF GotOK
<1>18. /\ pos' \in [FProc -> Nat] /\ filesys_lock' \in Client \cup {None} /\ mixed' \in [Client -> BOOLEAN]
       /\ stale' \in [Client -> BOOLEAN] /\ UNCHANGED <<store, last, raced>> /\ filesys_lock' = filesys_lock
       /\ \A u \in Client : mixed'[u] = mixed[u] /\ stale'[u] = stale[u]
  BY <1>1, Zenon DEF FileInv, FileTyped
<1>19. request' = [request EXCEPT ![t] = r]
  BY <1>1, Zenon
<1> HIDE DEF d
<1> QED
  BY <1>3, <1>7, <1>10, <1>12, <1>14, <1>15, <1>16, <1>17, <1>18, <1>19, CallMoves, Zenon

\* The disk reads the sector for t.
LEMMA DiskReadsStep ==
  ASSUME FileInv, NEW t \in Client, DiskReads(t)
  PROVE  FileInv'
<1> DEFINE d == fcall[t]
           s == request[t].sec
           r == Answered(store[s])
<1>1. /\ request[t].op = "read" /\ request' = [request EXCEPT ![t] = r] /\ stale' = [stale EXCEPT ![t] = FALSE]
      /\ UNCHANGED <<store, pos, fcall, filesys_lock, last, mixed, raced, deny_write_cnt>>
  BY Zenon DEF DiskReads, disk_read
<1>2. /\ d \in FileCallType /\ fcall \in [Client -> FileCallType] /\ PlaceOK(t) /\ GotOK(t) /\ TransferOK(t)
      /\ request[t] \in RequestType
  BY Typed, Zenon
<1>3. d.pc \in {"io", "merge"} /\ d.pc \in Busy
  BY <1>1, Working, Zenon
<1>4. s \in Sector /\ s = sector_idx(d)
  BY <1>1, <1>2, RequestData, Zenon DEF TransferOK, ChunkTransfer
<1>5. store[s] \in Data
  BY <1>4, Zenon DEF FileInv, FileTyped
<1>6. r \in RequestType /\ r.op = "done" /\ r.data = store[s]
  BY <1>5, AnsweredIs, Zenon
<1> HIDE DEF r, s
<1>7. fcall'[t] = d /\ fcall' = [fcall EXCEPT ![t] = d] /\ request'[t] = r
  BY <1>1, <1>2, Zenon DEF FileInv, FileTyped
<1>8. Loaders' = Loaders /\ CountOK'
  BY <1>1, LoadersStay, Zenon
<1>9. \A u \in Client : DenyOK(u)'
  BY <1>7, <1>8, DenyStays, Zenon
<1>10. PlaceOK(t)'
  BY <1>1, <1>2, <1>3, <1>7, Zenon DEF PlaceOK
<1>11. GotOK(t)'
  BY <1>1, <1>2, <1>7, Zenon DEF GotOK
<1>12. TransferOK(t)'
  <2>1. "done" \notin {"read", "write"}
    OBVIOUS
  <2>2. d.pc \in {"io", "merge"} => chunk_size(d) > 0
    BY <1>2, Zenon DEF TransferOK, ChunkTransfer
  <2>3. d.pc = "merge" => ~Whole(d)
    BY <1>2, Zenon DEF TransferOK, ChunkTransfer
  <2>4. r.data = store[sector_idx(d)] /\ store' = store
    BY <1>1, <1>4, <1>6, Zenon
  <2> HIDE DEF d
  <2>5. \A e, f : ChunkTransfer(d, r, e, f, store)
    BY <1>6, <2>1, <2>2, <2>3, <2>4, Zenon DEF ChunkTransfer
  <2> QED
    BY <1>7, <2>4, <2>5, Zenon DEF TransferOK
<1>13. /\ pos' \in [FProc -> Nat] /\ filesys_lock' \in Client \cup {None} /\ mixed' \in [Client -> BOOLEAN]
       /\ stale' \in [Client -> BOOLEAN] /\ UNCHANGED <<store, last, raced>> /\ filesys_lock' = filesys_lock
       /\ \A u \in Client : u # t => mixed'[u] = mixed[u] /\ stale'[u] = stale[u]
  BY <1>1, Zenon DEF FileInv, FileTyped
<1>14. request' = [request EXCEPT ![t] = r]
  BY <1>1, Zenon
<1>15. d \in FileCallType /\ fcall' = [fcall EXCEPT ![t] = d] /\ r \in RequestType
  BY <1>2, <1>6, <1>7, Zenon
<1> HIDE DEF d
<1> QED
  BY <1>8, <1>9, <1>10, <1>11, <1>12, <1>13, <1>14, <1>15, CallMoves, Zenon

\* The chunk is copied into the bounce buffer.
LEMMA MergeStep ==
  ASSUME FileInv, NEW t \in Client, Merge(t)
  PROVE  FileInv'
<1> DEFINE d == fcall[t]
           c == [d EXCEPT !.pc = "io"]
           x == request[t].data
           r == Asked("write", sector_idx(d), Filled(d, x))
<1>1. /\ d.pc = "merge" /\ request[t].op = "done" /\ request' = [request EXCEPT ![t] = r]
      /\ fcall' = [fcall EXCEPT ![t].pc = "io"]
      /\ UNCHANGED <<store, pos, filesys_lock, last, mixed, stale, raced, deny_write_cnt>>
  BY Zenon DEF Merge
<1>2. /\ d \in FileCallType /\ fcall \in [Client -> FileCallType] /\ PlaceOK(t) /\ GotOK(t) /\ TransferOK(t)
      /\ request[t] \in RequestType
  BY Typed, Zenon
<1>3. fcall' = [fcall EXCEPT ![t] = c]
  BY <1>1, <1>2, Zenon
<1>4. "io" \in Busy /\ "merge" \in Busy
  BY DEF Busy
<1>5. /\ c \in FileCallType /\ c.pc = "io" /\ c.op = d.op /\ c.size = d.size /\ c.offset = d.offset
      /\ c.value = d.value /\ c.done = d.done /\ c.got = d.got
  BY <1>2, <1>4, Zenon DEF FileCallType
<1>6. d.size \in Int /\ d.offset \in Nat /\ d.done \in Nat
  BY <1>2, CallFields, Zenon
<1>7. /\ chunk_size(d) > 0 /\ ~Whole(d) /\ d.op = "write" /\ d.value \in Byte
      /\ (~stale[t] => x = store[sector_idx(d)])
  BY <1>1, <1>2, Zenon DEF TransferOK, ChunkTransfer, PlaceOK
<1>8. sector_idx(d) \in Sector /\ x \in Data
  BY <1>1, <1>2, <1>6, <1>7, ChunkFacts, RequestData, Zenon
<1>9. Filled(d, x) \in Data
  BY <1>7, <1>8, FilledIs, Zenon
<1>10. /\ r \in RequestType /\ r.op = "write" /\ r.sec = sector_idx(d) /\ r.data = Filled(d, x)
  <2> DEFINE i == sector_idx(d)
             y == Filled(d, x)
  <2>1. i \in Sector /\ y \in Data /\ r = Asked("write", i, y)
    BY <1>8, <1>9, Zenon
  <2> HIDE DEF i, y, r
  <2>2. r \in RequestType /\ r.op = "write" /\ r.sec = i /\ r.data = y
    BY <2>1 DEF Asked, RequestType
  <2> QED
    BY <2>2, Zenon DEF i, y
<1> HIDE DEF c, r, x
<1>11. /\ fcall'[t] = c /\ \A u \in Client : u # t => fcall'[u] = fcall[u]
       /\ request'[t] = r
  BY <1>1, <1>2, <1>3, Zenon DEF FileInv, FileTyped
<1>12. Loaders' = Loaders /\ CountOK'
  <2>1. \A u \in Client : fcall'[u].op = "load" <=> fcall[u].op = "load"
    BY <1>5, <1>11, Zenon
  <2> QED
    BY <1>1, <2>1, LoadersStay, Zenon
<1>13. \A u \in Client : DenyOK(u)'
  <2>1. Loaders' = Loaders /\ fcall[t].op = "write" /\ fcall[t].pc \in Busy /\ c.size = fcall[t].size
    BY <1>1, <1>4, <1>5, <1>7, <1>12, Zenon
  <2> QED
    BY <1>3, <2>1, DenyStays, Zenon
<1>14. PlaceOK(t)'
  BY <1>1, <1>2, <1>4, <1>5, <1>11, Zenon DEF PlaceOK
<1>15. TransferOK(t)'
  <2>1. sector_idx(c) = sector_idx(d) /\ chunk_size(c) = chunk_size(d) /\ Whole(c) = Whole(d)
    BY <1>5, SameChunk, Zenon
  <2>2. Filled(c, store[sector_idx(d)]) = Filled(d, store[sector_idx(d)])
    <3>1. Chunk(c) = Chunk(d) /\ c.value = d.value
      BY <1>5, SameChunk, Zenon
    <3> HIDE DEF d
    <3> QED
      BY <3>1, Zenon DEF Filled
  <2>3. "write" # "done" /\ "io" # "merge"
    OBVIOUS
  <2>4. UNCHANGED <<stale, mixed, store>>
    BY <1>1, Zenon
  <2> HIDE DEF d
  <2>5. \A f : ChunkTransfer(c, r, stale[t], f, store)
    <3>1. ~stale[t] => r.data = Filled(c, store[sector_idx(c)])
      BY <1>7, <1>10, <2>1, <2>2, Zenon
    <3>2. chunk_size(c) > 0 /\ ~Whole(c) /\ c.op = "write" /\ r.sec = sector_idx(c)
      BY <1>5, <1>7, <1>10, <2>1, Zenon
    <3> QED
      BY <1>5, <1>10, <2>3, <3>1, <3>2, Zenon DEF ChunkTransfer
  <2> QED
    BY <1>11, <2>4, <2>5, Zenon DEF TransferOK
<1>16. GotOK(t)'
  BY <1>5, <1>7, <1>11, Zenon DEF GotOK
<1>17. /\ pos' \in [FProc -> Nat] /\ filesys_lock' \in Client \cup {None} /\ mixed' \in [Client -> BOOLEAN]
       /\ stale' \in [Client -> BOOLEAN] /\ UNCHANGED <<store, last, raced>> /\ filesys_lock' = filesys_lock
       /\ \A u \in Client : mixed'[u] = mixed[u] /\ stale'[u] = stale[u]
  BY <1>1, Zenon DEF FileInv, FileTyped
<1>18. request' = [request EXCEPT ![t] = r]
  BY <1>1, Zenon
<1> HIDE DEF d
<1> QED
  BY <1>3, <1>5, <1>10, <1>12, <1>13, <1>14, <1>15, <1>16, <1>17, <1>18, CallMoves, Zenon

\* bytes_read and bytes_written advance by the chunk; a reader has copied it.
LEMMA AdvanceStep ==
  ASSUME FileInv, NEW t \in Client, Advance(t)
  PROVE  FileInv'
<1> DEFINE d == fcall[t]
           n == chunk_size(d)
           o == sector_ofs(d)
           x == request[t].data
           w == [k \in 1 .. n |-> x[o + k - 1]]
           g == IF d.op = "write" THEN d.got ELSE d.got \o w
           m == d.done + n
           c == [d EXCEPT !.pc = "loop", !.done = m, !.got = g]
<1>1. /\ d.pc = "io" /\ request[t].op = "done" /\ request' = [request EXCEPT ![t] = NoRequest]
      /\ UNCHANGED <<store, pos, filesys_lock, last, mixed, stale, raced, deny_write_cnt>>
  BY Zenon DEF Advance, Take
<1>2. /\ d \in FileCallType /\ fcall \in [Client -> FileCallType] /\ PlaceOK(t) /\ GotOK(t) /\ TransferOK(t)
      /\ request[t] \in RequestType
  BY Typed, Zenon
<1>3. fcall' = [fcall EXCEPT ![t] = c]
  <2>1. fcall' = [fcall EXCEPT ![t].pc = "loop", ![t].done = @ + n,
                    ![t].got = IF d.op = "write" THEN @ ELSE @ \o w]
    BY Zenon DEF Advance
  <2> HIDE DEF n, w
  <2> QED
    BY <1>2, <2>1, Zenon
<1>4. d.size \in Int /\ d.offset \in Nat /\ d.done \in Nat /\ d.got \in Seq(Byte)
  BY <1>2, CallFields, Zenon
<1>5. n > 0 /\ (d.op # "write" /\ ~mixed[t] => x = store[sector_idx(d)]) /\ (d.op # "write" => Len(d.got) = d.done)
  BY <1>1, <1>2, Zenon DEF TransferOK, ChunkTransfer, PlaceOK
<1>6. /\ n \in Int /\ n <= d.size - d.done /\ o \in 0 .. SectorSize - 1
      /\ n <= FileLength - (d.offset + d.done) /\ o + n <= SectorSize
  BY <1>4, ChunkFacts, Zenon
<1>7. /\ SectorSize \in Nat /\ FileLength \in Nat /\ x \in [0 .. SectorSize - 1 -> Byte]
  <2>1. x \in Data
    BY <1>1, <1>2, RequestData, Zenon
  <2> QED
    BY <2>1, Sizes, Zenon
<1> HIDE DEF n, o, x
<1>8. n \in Nat /\ m \in Nat /\ m <= d.size /\ d.offset + m <= FileLength
  <2> DEFINE a == d.done
             b == d.size
             e == d.offset
  <2>1. /\ a \in Nat /\ b \in Int /\ e \in Nat /\ n > 0 /\ n \in Int /\ n <= b - a
        /\ n <= FileLength - (e + a) /\ FileLength \in Nat
    BY <1>4, <1>5, <1>6, <1>7, Zenon
  <2> HIDE DEF a, b, e
  <2>2. n \in Nat /\ a + n \in Nat /\ a + n <= b /\ e + (a + n) <= FileLength
    BY <2>1
  <2> QED
    BY <2>2, Zenon DEF a, b, e
<1>9. w \in Seq(Byte) /\ Len(w) = n /\ \A k \in 1 .. n : w[k] = x[o + k - 1]
  <2>1. \A k \in 1 .. n : o + k - 1 \in 0 .. SectorSize - 1
    BY <1>6, <1>7, <1>8
  <2>2. w \in [1 .. n -> Byte]
    BY <1>7, <2>1, Zenon
  <2> HIDE DEF w
  <2>3. w \in Seq(Byte) /\ Len(w) = n
    BY <1>8, <2>2
  <2> QED
    BY <2>3, Zenon DEF w
<1> HIDE DEF w
<1> DEFINE j == d.got \o w
<1>10. /\ j \in Seq(Byte) /\ Len(j) = Len(d.got) + n
       /\ \A k \in 1 .. Len(d.got) : j[k] = d.got[k]
       /\ \A k \in Len(d.got) + 1 .. Len(d.got) + n : j[k] = w[k - Len(d.got)]
  <2> DEFINE a == d.got
  <2>1. a \in Seq(Byte) /\ w \in Seq(Byte) /\ Len(w) = n /\ n \in Nat
    BY <1>4, <1>8, <1>9, Zenon
  <2> HIDE DEF a
  <2>2. /\ a \o w \in Seq(Byte) /\ Len(a \o w) = Len(a) + n
        /\ \A k \in 1 .. Len(a) : (a \o w)[k] = a[k]
        /\ \A k \in Len(a) + 1 .. Len(a) + n : (a \o w)[k] = w[k - Len(a)]
    BY <2>1
  <2> QED
    BY <2>2, Zenon DEF a
<1>11. g \in Seq(Byte) /\ (d.op # "write" => g = j)
  BY <1>4, <1>10, Zenon
<1> HIDE DEF j, g, m
<1>12. "loop" \in Busy /\ "io" \in Busy
  BY DEF Busy
<1>13. /\ c \in FileCallType /\ c.pc = "loop" /\ c.op = d.op /\ c.size = d.size /\ c.offset = d.offset
       /\ c.value = d.value /\ c.done = m /\ c.got = g
  BY <1>2, <1>8, <1>11, <1>12, Zenon DEF FileCallType
<1> HIDE DEF c
<1>14. /\ fcall'[t] = c /\ \A u \in Client : u # t => fcall'[u] = fcall[u]
       /\ request'[t] = NoRequest
  BY <1>1, <1>2, <1>3, Zenon DEF FileInv, FileTyped
<1>15. Loaders' = Loaders /\ CountOK'
  <2>1. \A u \in Client : fcall'[u].op = "load" <=> fcall[u].op = "load"
    BY <1>13, <1>14, Zenon
  <2> QED
    BY <1>1, <2>1, LoadersStay, Zenon
<1>16. \A u \in Client : DenyOK(u)'
  <2>1. c.op = fcall[t].op /\ fcall[t].pc \in Busy /\ c.size = fcall[t].size
    BY <1>1, <1>12, <1>13, Zenon
  <2> QED
    BY <1>3, <1>15, <2>1, DenyStays, Zenon
<1>17. PlaceOK(t)'
  <2>1. /\ c.pc = "loop" /\ d.pc \in Busy /\ d.pc # "idle" /\ filesys_lock' = filesys_lock
        /\ c.done <= c.size /\ c.offset + c.done <= FileLength
    BY <1>1, <1>8, <1>12, <1>13, Zenon
  <2>2. c.op # "write" => Len(c.got) = c.done
    <3>1. d.op # "write" => Len(j) = d.done + n
      BY <1>5, <1>10, Zenon
    <3> QED
      BY <1>11, <1>13, <3>1, Zenon DEF m
  <2> QED
    BY <1>2, <1>13, <1>14, <2>1, <2>2, Zenon DEF PlaceOK
<1>18. TransferOK(t)'
  BY <1>13, <1>14, NoTransfer, Zenon
<1>19. GotOK(t)'
  <2>1. SUFFICES ASSUME d.op # "write", ~mixed[t], ~raced, NEW k \in 1 .. Len(j)
                 PROVE  j[k] = last[d.offset + k - 1]
    <3>1. UNCHANGED <<mixed, raced, last>>
      BY <1>1, Zenon
    <3> QED
      BY <1>11, <1>13, <1>14, <3>1, Zenon DEF GotOK
  <2>2. CASE k \in 1 .. Len(d.got)
    <3>1. d.got[k] = last[d.offset + k - 1]
      BY <1>1, <1>2, <1>12, <2>1, <2>2, Zenon DEF GotOK
    <3> QED
      BY <1>10, <2>2, <3>1, Zenon
  <2>3. CASE k \notin 1 .. Len(d.got)
    <3> DEFINE i == d.offset + k - 1
               f == d.offset + d.done
    <3>1. Len(d.got) = d.done /\ Len(j) = d.done + n
      BY <1>5, <1>10, <2>1, Zenon
    <3>2. /\ k \in d.done + 1 .. d.done + n /\ k - d.done \in 1 .. n
          /\ i \in Nat /\ i \in f .. f + n - 1 /\ i \in 0 .. FileLength - 1
          /\ o + (k - d.done) - 1 = o + (i - f)
      <4> DEFINE a == d.done
                 e == d.offset
      <4>1. /\ a \in Nat /\ e \in Nat /\ n \in Nat /\ n <= FileLength - (e + a) /\ FileLength \in Nat
            /\ o \in 0 .. SectorSize - 1 /\ SectorSize \in Nat /\ k \in 1 .. a + n /\ k \notin 1 .. a
        BY <1>4, <1>6, <1>7, <1>8, <2>1, <2>3, <3>1, Zenon
      <4> HIDE DEF a, e
      <4>2. /\ k \in a + 1 .. a + n /\ k - a \in 1 .. n
            /\ e + k - 1 \in Nat /\ e + k - 1 \in e + a .. e + a + n - 1 /\ e + k - 1 \in 0 .. FileLength - 1
            /\ o + (k - a) - 1 = o + ((e + k - 1) - (e + a))
        BY <4>1
      <4> QED
        BY <4>2, Zenon DEF a, e
    <3>3. j[k] = x[o + (i - f)]
      <4>1. j[k] = w[k - d.done]
        BY <1>10, <3>1, <3>2, Zenon
      <4>2. w[k - d.done] = x[o + (k - d.done) - 1]
        BY <1>9, <3>2, Zenon
      <4> QED
        BY <3>2, <4>1, <4>2, Zenon
    <3> HIDE DEF i
    <3>4. i \div SectorSize = sector_idx(d) /\ i % SectorSize = o + (i - f)
      BY <1>4, <3>2, ChunkPlaces, Zenon DEF n, o
    <3>5. ByteAt(i) = last[i]
      BY <2>1, <3>2, Zenon DEF FileInv, BytesOK
    <3>6. x = store[sector_idx(d)]
      BY <1>5, <2>1, Zenon
    <3>7. j[k] = last[i]
      BY <3>3, <3>4, <3>5, <3>6, Zenon DEF ByteAt
    <3> QED
      BY <3>7, Zenon DEF i
  <2> QED
    BY <2>2, <2>3, Zenon
<1>20. /\ pos' \in [FProc -> Nat] /\ filesys_lock' \in Client \cup {None} /\ mixed' \in [Client -> BOOLEAN]
       /\ stale' \in [Client -> BOOLEAN] /\ UNCHANGED <<store, last, raced>> /\ filesys_lock' = filesys_lock
       /\ \A u \in Client : mixed'[u] = mixed[u] /\ stale'[u] = stale[u]
  BY <1>1, Zenon DEF FileInv, FileTyped
<1>21. request' = [request EXCEPT ![t] = NoRequest] /\ NoRequest \in RequestType /\ c \in FileCallType
  BY <1>1, <1>13, NoRequestIs, Zenon
<1> HIDE DEF d
<1> QED
  BY <1>3, <1>15, <1>16, <1>17, <1>18, <1>19, <1>20, <1>21, CallMoves, Zenon

\* The call returns; file_allow_write() at the end of the process that was loaded.
LEMMA ReturnedStep ==
  ASSUME FileInv, NEW t \in Client, Returned(t)
  PROVE  FileInv'
<1> DEFINE d == fcall[t]
<1>1. /\ d.pc = "return" /\ fcall' = [fcall EXCEPT ![t] = NoFileCall] /\ mixed' = [mixed EXCEPT ![t] = FALSE]
      /\ deny_write_cnt' = IF d.op = "load" THEN deny_write_cnt - 1 ELSE deny_write_cnt
      /\ UNCHANGED <<store, request, pos, filesys_lock, last, stale, raced>>
  BY Zenon DEF Returned, storeVars
<1>2. PlaceOK(t) /\ request[t] \in RequestType
  BY Typed, Zenon
<1>3. request[t] = NoRequest
  BY <1>1, <1>2, Zenon DEF PlaceOK
<1>4. fcall'[t] = NoFileCall /\ \A u \in Client : u # t => fcall'[u] = fcall[u]
  BY <1>1, Zenon DEF FileInv, FileTyped
<1>5. Loaders' = Loaders \ {t} /\ (t \in Loaders <=> d.op = "load")
  BY <1>4, NoCallIs, Zenon DEF Loaders
<1>6. CountOK'
  <2>1. IsFiniteSet(Loaders) /\ deny_write_cnt = Cardinality(Loaders)
    BY Zenon DEF FileInv, CountOK
  <2>2. /\ IsFiniteSet(Loaders \ {t})
        /\ Cardinality(Loaders \ {t}) = IF t \in Loaders THEN Cardinality(Loaders) - 1 ELSE Cardinality(Loaders)
    BY <2>1, FS_RemoveElement, Zenon
  <2> QED
    BY <1>1, <1>5, <2>1, <2>2, Zenon DEF CountOK
<1>7. "idle" \notin Busy /\ Len(<<>>) = 0
  BY DEF Busy
<1>8. ASSUME NEW u \in Client PROVE DenyOK(u)'
  <2>1. CASE u = t
    BY <1>4, <1>7, <2>1, NoCallIs, Zenon DEF DenyOK
  <2>2. CASE u # t
    BY <1>4, <1>5, <2>2, Typed, Zenon DEF DenyOK
  <2> QED
    BY <2>1, <2>2, Zenon
<1>9. PlaceOK(t)'
  BY <1>1, <1>3, <1>4, <1>7, NoCallIs, Zenon DEF PlaceOK
<1>10. TransferOK(t)' /\ GotOK(t)'
  BY <1>1, <1>3, <1>4, <1>7, NoCallIs, NoTransfer, Zenon DEF GotOK
<1>11. /\ request' = [request EXCEPT ![t] = request[t]] /\ pos' \in [FProc -> Nat]
       /\ filesys_lock' \in Client \cup {None} /\ mixed' \in [Client -> BOOLEAN] /\ stale' \in [Client -> BOOLEAN]
       /\ \A u \in Client : u # t => mixed'[u] = mixed[u] /\ stale'[u] = stale[u]
  BY <1>1, SameRequest, Zenon DEF FileInv, FileTyped
<1>12. UNCHANGED <<store, last, raced, filesys_lock>> /\ fcall' = [fcall EXCEPT ![t] = NoFileCall]
       /\ NoFileCall \in FileCallType
  BY <1>1, NoCallIs, Zenon
<1> HIDE DEF d
<1> QED
  BY <1>2, <1>6, <1>8, <1>9, <1>10, <1>11, <1>12, CallMoves, Zenon

\* While a system call writes, no other system call is in its loop and no file is
\* loaded: filesys_lock and deny_write_cnt see to it.
LEMMA OnlyEvictor ==
  ASSUME FileInv, NEW t \in Client, request[t].op = "write", t # Evictor, NEW u \in Client, u # t,
         fcall[u].pc \in Busy
  PROVE  u = Evictor
<1> DEFINE d == fcall[t]
<1>1. /\ d \in FileCallType /\ PlaceOK(t) /\ TransferOK(t) /\ DenyOK(t)
      /\ fcall[u] \in FileCallType /\ PlaceOK(u)
  BY Typed, Zenon
<1>2. d.pc \in {"io", "merge"} /\ d.pc \in Busy
  BY Working, Zenon
<1>3. t \in FProc /\ u \in FProc \cup {Evictor}
  BY Sizes, Zenon
<1>4. d.op = "write" /\ chunk_size(d) > 0
  BY <1>1, <1>2, Zenon DEF TransferOK, ChunkTransfer
<1>5. filesys_lock = t
  BY <1>1, <1>2, <1>3, <1>4, Zenon DEF PlaceOK
<1>6. Loaders = {}
  <2>1. d.size \in Int /\ d.done \in Nat /\ d.offset \in Nat
    BY <1>1, CallFields, Zenon
  <2>2. chunk_size(d) \in Int /\ chunk_size(d) <= d.size - d.done
    BY <2>1, ChunkFacts, Zenon
  <2>3. ~(d.size <= 0)
    BY <1>4, <2>1, <2>2
  <2> QED
    BY <1>1, <1>2, <1>3, <1>4, <2>3, Zenon DEF DenyOK
<1>7. fcall[u].op \in {"none", "read", "write", "load"} /\ fcall[u].op # "load" /\ fcall[u].pc # "idle"
  BY <1>1, <1>6, CallFields, Zenon DEF Loaders, Busy
<1>8. fcall[u].op \in {"read", "write"}
  BY <1>1, <1>7, Zenon DEF PlaceOK
<1>9. u \in FProc => filesys_lock = u
  BY <1>1, <1>8, Zenon DEF PlaceOK
<1> QED
  BY <1>3, <1>5, <1>9, Zenon

\* The disk writes a sector for t: the bytes of t's chunk change and no others, unless
\* t's bounce buffer is stale; whoever else has a bounce buffer of that sector has a
\* stale one from now on.
LEMMA DiskWritesStep ==
  ASSUME FileInv, NEW t \in Client, DiskWrites(t)
  PROVE  FileInv'
<1> DEFINE d == fcall[t]
           n == chunk_size(d)
           f == d.offset + d.done
           s == sector_idx(d)
           x == request[t].data
           threatens(u) == /\ fcall[u].pc = "merge" \/ (fcall[u].pc = "io" /\ ~Whole(fcall[u]))
                           /\ sector_idx(fcall[u]) = s
                           /\ Evictor \in {t, u}
<1>1. /\ request[t].op = "write" /\ store' = [store EXCEPT ![request[t].sec] = x]
      /\ request' = [request EXCEPT ![t] = Answered(x)]
      /\ UNCHANGED <<pos, fcall, filesys_lock, deny_write_cnt>>
  BY Zenon DEF DiskWrites, disk_write
<1>2. /\ last' = [i \in DOMAIN last |-> IF i \in f .. f + n - 1 THEN d.value ELSE last[i]]
      /\ raced' = (raced \/ (~Whole(d) /\ stale[t]))
      /\ stale' = [u \in Client |-> stale[u] \/ (u # t /\ threatens(u))]
      /\ mixed' = [u \in Client |-> mixed[u] \/ (t = Evictor /\ fcall[u].pc # "idle")]
  BY Zenon DEF DiskWrites
<1>3. /\ d \in FileCallType /\ request[t] \in RequestType /\ PlaceOK(t) /\ TransferOK(t)
  BY Typed, Zenon
<1>4. d.pc \in {"io", "merge"}
  BY <1>1, Working, Zenon
<1>5. /\ d.pc = "io" /\ d.op = "write" /\ d.value \in Byte /\ n > 0 /\ request[t].sec = s
      /\ (Whole(d) \/ ~stale[t] => x = Filled(d, store[s]))
  BY <1>1, <1>3, <1>4, Zenon DEF TransferOK, ChunkTransfer, PlaceOK
<1>6. d.size \in Int /\ d.offset \in Nat /\ d.done \in Nat
  BY <1>3, CallFields, Zenon
<1>7. s \in Sector /\ x \in Data
  BY <1>1, <1>3, <1>5, RequestData, Zenon
<1>8. store' = [store EXCEPT ![s] = x] /\ store \in [Sector -> Data]
  BY <1>1, <1>5, Zenon DEF FileInv, FileTyped
<1>9. store'[s] = x /\ \A y \in Sector : y # s => store'[y] = store[y]
  BY <1>7, <1>8, Zenon
<1>10. Answered(x) \in RequestType /\ Answered(x).op = "done"
  BY <1>7, AnsweredIs, Zenon
<1>11. request'[t] = Answered(x) /\ \A u \in Client : u # t => request'[u] = request[u]
  BY <1>1, Zenon DEF FileInv, FileTyped
<1> HIDE DEF x
<1>12. FileTyped'
  <2>1. store' \in [Sector -> Data] /\ request' \in [Client -> RequestType]
    BY <1>1, <1>7, <1>8, <1>10, Zenon DEF FileInv, FileTyped
  <2>2. last' \in [0 .. FileLength - 1 -> Byte]
    <3>1. last \in [0 .. FileLength - 1 -> Byte]
      BY Zenon DEF FileInv, FileTyped
    <3> HIDE DEF f, n, d
    <3> QED
      BY <1>2, <1>5, <3>1, Zenon
  <2>3. mixed' \in [Client -> BOOLEAN] /\ stale' \in [Client -> BOOLEAN] /\ raced' \in BOOLEAN
    BY <1>2, Zenon
  <2> QED
    BY <1>1, <2>1, <2>2, <2>3, Zenon DEF FileInv, FileTyped
<1>13. CountOK' /\ Loaders' = Loaders
  BY <1>1, LoadersStay, Zenon
<1>14. BytesOK'
  <2>1. SUFFICES ASSUME ~raced', NEW i \in 0 .. FileLength - 1 PROVE ByteAt(i)' = last'[i]
    BY Zenon DEF BytesOK
  <2>2. ~raced /\ x = Filled(d, store[s])
    BY <1>2, <1>5, <2>1, Zenon
  <2>3. ByteAt(i) = last[i]
    BY <2>1, <2>2, Zenon DEF FileInv, BytesOK
  <2>4. i \in Nat
    BY Sizes
  <2> DEFINE p == i \div SectorSize
             q == i % SectorSize
  <2>5. p \in Sector /\ q \in 0 .. SectorSize - 1
    BY <2>4, InSector, Division, Zenon
  <2>6. i \in f .. f + n - 1 <=> p = s /\ q \in Chunk(d)
    BY <1>6, <2>4, ChunkPlaces, Zenon
  <2>7. last'[i] = IF i \in f .. f + n - 1 THEN d.value ELSE last[i]
    <3>1. last \in [0 .. FileLength - 1 -> Byte]
      BY Zenon DEF FileInv, FileTyped
    <3> HIDE DEF f, n, d
    <3> QED
      BY <1>2, <3>1, Zenon
  <2>8. ByteAt(i)' = store'[p][q] /\ ByteAt(i) = store[p][q]
    BY Zenon DEF ByteAt
  <2> HIDE DEF p, q, f, n
  <2>9. CASE p = s
    <3>1. store[s] \in Data
      BY <1>7, <1>8, Zenon
    <3>2. x[q] = IF q \in Chunk(d) THEN d.value ELSE store[s][q]
      BY <1>5, <2>2, <2>5, <3>1, FilledIs, ZenonT(30)
    <3> HIDE DEF d, s
    <3> QED
      BY <1>9, <2>3, <2>6, <2>7, <2>8, <2>9, <3>2, Zenon
  <2>10. CASE p # s
    BY <1>9, <2>3, <2>5, <2>6, <2>7, <2>8, <2>10, Zenon
  <2> QED
    BY <2>9, <2>10, Zenon
<1>15. PlaceOK(t)' /\ TransferOK(t)' /\ GotOK(t)'
  <2>1. fcall' = fcall /\ filesys_lock' = filesys_lock
    BY <1>1, Zenon
  <2>2. PlaceOK(t)'
    BY <1>3, <1>5, <2>1, Zenon DEF PlaceOK
  <2>3. \A e, g, h : ChunkTransfer(d, Answered(x), e, g, h)
    <3> DEFINE r == Answered(x)
    <3>1. r.op = "done" /\ "done" \notin {"read", "write"} /\ "io" # "merge"
      BY <1>10, Zenon
    <3> HIDE DEF r, d
    <3>2. \A e, g, h : ChunkTransfer(d, r, e, g, h)
      BY <1>5, <3>1, Zenon DEF ChunkTransfer, n
    <3> QED
      BY <3>2, Zenon DEF r
  <2>4. TransferOK(t)'
    BY <1>11, <2>1, <2>3, Zenon DEF TransferOK
  <2>5. GotOK(t)'
    BY <1>5, <2>1, Zenon DEF GotOK
  <2> QED
    BY <2>2, <2>4, <2>5, Zenon
<1>16. ASSUME NEW u \in Client, u # t PROVE PlaceOK(u)' /\ TransferOK(u)' /\ GotOK(u)'
  <2> DEFINE e == fcall[u]
             r == request[u]
  <2>1. e \in FileCallType /\ r \in RequestType /\ PlaceOK(u) /\ TransferOK(u) /\ GotOK(u)
    BY Typed, Zenon
  <2>2. fcall'[u] = e /\ request'[u] = r /\ filesys_lock' = filesys_lock
    BY <1>1, <1>11, <1>16, Zenon
  <2>3. PlaceOK(u)'
    BY <2>1, <2>2, PlaceStays, Zenon
  <2>4. e.pc \in Busy /\ t # Evictor => u = Evictor /\ e.op = "write"
    <3>1. e.pc \in Busy /\ t # Evictor => u = Evictor
      BY <1>1, <1>16, OnlyEvictor, Zenon
    <3>2. e.pc \in Busy => e.pc # "idle"
      BY Zenon DEF Busy
    <3> QED
      BY <2>1, <3>1, <3>2, Zenon DEF PlaceOK
  <2>5. e.pc \in Busy => Evictor \in {t, u}
    BY <2>4, Zenon
  <2>6. e.pc \in Busy /\ e.op # "write" => mixed'[u]
    <3>1. e.pc \in Busy => e.pc # "idle"
      BY Zenon DEF Busy
    <3> QED
      BY <1>2, <2>4, <3>1, Zenon
  <2>7. GotOK(u)'
    BY <2>2, <2>6, Zenon DEF GotOK
  <2>8. /\ ~stale'[u] => ~stale[u] /\ ~threatens(u)
        /\ ~mixed'[u] => ~mixed[u]
    BY <1>2, <1>16, Zenon
  <2>9. r.op \in {"read", "write", "done"} => e.pc \in {"io", "merge"} /\ e.pc \in Busy
    BY Working, Zenon
  <2>10. e.size \in Int /\ e.offset \in Nat /\ e.done \in Nat
    BY <2>1, CallFields, Zenon
  <2>11. e.pc \in {"io", "merge"} => sector_idx(e) \in Sector
    BY <2>1, <2>10, ChunkFacts, Zenon DEF TransferOK, ChunkTransfer
  <2>12. ASSUME r.op = "write", Whole(e) \/ ~stale'[u]
         PROVE  r.data = Filled(e, store'[sector_idx(e)])
    <3>1. e.pc = "io" /\ e.op = "write"
      BY <2>1, <2>9, <2>12, Zenon DEF TransferOK, ChunkTransfer
    <3>2. e.value \in Byte /\ sector_idx(e) \in Sector /\ e.pc \in Busy
      BY <2>1, <2>9, <2>11, <2>12, <3>1, Zenon DEF PlaceOK
    <3>3. r.data = Filled(e, store[sector_idx(e)])
      BY <2>1, <2>8, <2>12, Zenon DEF TransferOK, ChunkTransfer
    <3>4. CASE sector_idx(e) # s
      BY <1>9, <3>2, <3>3, <3>4, Zenon
    <3>5. CASE sector_idx(e) = s
      <4>1. Whole(e)
        BY <2>5, <2>8, <2>12, <3>1, <3>2, <3>5, Zenon
      <4>2. store[sector_idx(e)] \in Data /\ store'[sector_idx(e)] \in Data
        BY <1>7, <1>8, <1>9, <3>2, <3>5, Zenon
      <4>3. Filled(e, store[sector_idx(e)]) = Filled(e, store'[sector_idx(e)])
        BY <3>2, <4>1, <4>2, WholeFilled, Zenon
      <4> QED
        BY <3>3, <4>3, Zenon
    <3> QED
      BY <3>4, <3>5, Zenon
  <2>13. ASSUME r.op = "done", e.pc = "merge", ~stale'[u] PROVE r.data = store'[sector_idx(e)]
    <3>1. sector_idx(e) \in Sector /\ e.pc \in Busy
      BY <2>9, <2>11, <2>13, Zenon
    <3>2. r.data = store[sector_idx(e)]
      BY <2>1, <2>8, <2>13, Zenon DEF TransferOK, ChunkTransfer
    <3>3. sector_idx(e) # s
      BY <2>5, <2>8, <2>13, <3>1, Zenon
    <3> QED
      BY <1>9, <3>1, <3>2, <3>3, Zenon
  <2>14. ~(r.op = "done" /\ e.pc = "io" /\ e.op # "write" /\ ~mixed'[u])
    BY <2>6, <2>9, Zenon
  <2>15. ChunkTransfer(e, r, stale'[u], mixed'[u], store')
    <3>1. ChunkTransfer(e, r, stale[u], mixed[u], store)
      BY <2>1, Zenon DEF TransferOK
    <3> HIDE DEF e, r, threatens
    <3> QED
      BY <2>12, <2>13, <2>14, <3>1, Zenon DEF ChunkTransfer
  <2> QED
    BY <2>2, <2>3, <2>7, <2>15, Zenon DEF TransferOK
<1>17. ASSUME NEW u \in Client PROVE DenyOK(u)'
  BY <1>1, <1>13, Typed, Zenon DEF DenyOK
<1> QED
  BY <1>12, <1>13, <1>14, <1>15, <1>16, <1>17, Zenon DEF FileInv

\* A step of another part of the kernel.
LEMMA FileUntouched ==
  ASSUME FileInv, UNCHANGED fileVars
  PROVE  FileInv'
<1>1. UNCHANGED <<store, request, pos, fcall, filesys_lock, deny_write_cnt, last, mixed, stale, raced>>
  BY Zenon DEF fileVars, storeVars
<1>2. FileTyped' /\ CountOK' /\ BytesOK'
  BY <1>1, Zenon DEF FileInv, FileTyped, CountOK, Loaders, BytesOK, ByteAt
<1>3. ASSUME NEW u \in Client PROVE PlaceOK(u)' /\ TransferOK(u)' /\ GotOK(u)' /\ DenyOK(u)'
  <2>1. PlaceOK(u) /\ TransferOK(u) /\ GotOK(u) /\ DenyOK(u)
    BY Typed, Zenon
  <2>2. PlaceOK(u)' /\ TransferOK(u)'
    BY <1>1, <2>1, PlaceStays, TransferStays, Zenon
  <2> QED
    BY <1>1, <2>1, <2>2, Zenon DEF GotOK, DenyOK, Loaders
<1> QED
  BY <1>2, <1>3, Zenon DEF FileInv

\* Every step of the file layer, and of what runs beside it, keeps the invariant.
LEMMA FileInvNext ==
  ASSUME FileInv, [Next]_vars
  PROVE  FileInv'
<1>1. CASE InFile(FileNext)
  <2>1. PICK t \in Client : SysReadWrite(t) \/ seek(t) \/ LoadReads(t) \/ EvictorWrites(t) \/ FileWork(t)
    BY <1>1, Zenon DEF InFile, FileNext
  <2>2. FileWork(t) => FileInv'
    BY LockFilesysStep, LoopEndsStep, NextChunkStep, DiskReadsStep, DiskWritesStep, MergeStep,
       AdvanceStep, ReturnedStep, Zenon DEF FileWork
  <2> QED
    BY <2>1, <2>2, SysReadWriteStep, SeekStep, LoadReadsStep, EvictorWritesStep, Zenon
<1>2. CASE ~InFile(FileNext)
  <2>1. UNCHANGED fileVars
    BY <1>2, Zenon DEF Next, InDisk, InConsole, vars
  <2> QED
    BY <2>1, FileUntouched, Zenon
<1> QED
  BY <1>1, <1>2, Zenon

\* Calls, transfers and bytes stay as FileInv describes them.
LEMMA FileInvariant == Spec => []FileInv
<1>1. Init => FileInv
  BY FileInvInit, Zenon DEF Init
<1>2. FileInv /\ [Next]_vars => FileInv'
  BY FileInvNext, Zenon
<1> QED
  BY <1>1, <1>2, PTL DEF Spec

\* A file holds what inode_write_at() last wrote to each byte, unless the write-back of
\* ft_replacement() raced with a merged sector.  inode_read_at() reads no more bytes
\* than the size asked for and the length allow and, unless a write-back came between,
\* what it has read is the file's present state.  This holds for any number of
\* processes with the file open, sectors of any size, a file of any length and accesses
\* of any size and position, beside one thread that evicts.
THEOREM FilesHold == Spec => []FileHolds
<1>1. FileInv => FileHolds
  <2>1. SUFFICES ASSUME FileInv PROVE FileHolds
    OBVIOUS
  <2>2. raced \/ \A i \in DOMAIN last : ByteAt(i) = last[i]
    <3>1. DOMAIN last = 0 .. FileLength - 1
      BY <2>1, Zenon DEF FileInv, FileTyped
    <3> QED
      BY <2>1, <3>1, Zenon DEF FileInv, BytesOK
  <2>3. \A t \in FProc : t \in Client
    BY Sizes, Zenon
  <2>4. ASSUME NEW t \in FProc, fcall[t].pc = "return", fcall[t].op # "write"
        PROVE  /\ Len(fcall[t].got) = fcall[t].done
               /\ fcall[t].done <= Max({0, Min({fcall[t].size, FileLength - fcall[t].offset})})
    <3> DEFINE n == fcall[t].done
               a == fcall[t].size
               e == fcall[t].offset
               b == FileLength - e
    <3>1. PlaceOK(t) /\ fcall[t] \in FileCallType
      BY <2>1, <2>3, Typed, Zenon
    <3>2. a \in Int /\ e \in Nat /\ n \in Nat /\ FileLength \in Nat
      BY <3>1, Sizes, CallFields, Zenon
    <3>3. Len(fcall[t].got) = n /\ (n = 0 \/ (n <= a /\ e + n <= FileLength))
      BY <2>4, <3>1, Zenon DEF PlaceOK
    <3> HIDE DEF n, a, e
    <3>4. b \in Int /\ n \in Int /\ (n = 0 \/ (n <= a /\ n <= b))
      BY <3>2, <3>3
    <3> HIDE DEF b
    <3>5. n <= Max({0, Min({a, b})})
      BY <3>2, <3>4, Limits, Zenon
    <3> QED
      BY <3>3, <3>5, Zenon DEF n, a, b, e
  <2>5. ASSUME NEW t \in FProc, fcall[t].pc = "loop", fcall[t].op # "write", ~mixed[t], ~raced,
               NEW k \in 1 .. Len(fcall[t].got)
        PROVE  fcall[t].got[k] = last[fcall[t].offset + k - 1]
    <3>1. GotOK(t) /\ fcall[t].pc \in Busy
      BY <2>1, <2>3, <2>5, Typed, Zenon DEF Busy
    <3> QED
      BY <2>5, <3>1, Zenon DEF GotOK
  <2> QED
    BY <2>2, <2>4, <2>5, Zenon DEF FileHolds
<1> QED
  BY <1>1, FileInvariant, PTL
=============================================================================
