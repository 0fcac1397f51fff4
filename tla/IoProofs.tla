------------------------------ MODULE IoProofs ------------------------------
(***************************************************************************)
(* The disk driver keeps its handshake with the devices and implements the *)
(* atomic sectors of SectorStore, for any number of channels, disks and    *)
(* threads: whichever thread is between select_sector() and its last       *)
(* sema_down() is the only one on its channel, and the device's command    *)
(* is its own.  The console and the serial line lose, repeat, reorder and  *)
(* mix nothing, for any number of printing threads, lines of any length    *)
(* and queues of any size.                                                 *)
(***************************************************************************)
EXTENDS Io, TLAPS

-----------------------------------------------------------------------------
(* The disk driver.                                                        *)

\* The values of a call and of a channel's registers, and of all the state.
Pc == {"idle", "lock", "select", "poll", "down", "done"}
Op == {"none", "identify", "read", "write"}
DiskPlace == DiskId \cup {<<0, 0>>}
CallType == [pc : Pc, op : Op, disk : DiskPlace, sec : SecNo \cup {0}, buf : SectorData]
CommandType == [status : {"idle", "busy", "drq"}, op : Op, disk : DiskPlace, sec : SecNo \cup {0},
                buf : SectorData, full : BOOLEAN, intr : BOOLEAN]

DiskTyped ==
  /\ is_ata \subseteq DiskId
  /\ unnamed \subseteq DiskId
  /\ dcall \in [Caller -> CallType]
  /\ chan_lock \in [Channel -> Caller \cup {NoThread}]
  /\ expecting_interrupt \in [Channel -> BOOLEAN]
  /\ completion_wait \in [Channel -> Nat]
  /\ dev \in [Channel -> CommandType]
  /\ media \in [DiskId \X SecNo -> SectorData]
  /\ spurious \in Nat
  /\ collided \in BOOLEAN

\* The channel of t's call, and whether t is the one that uses it.
On(t) == chan(dcall[t].disk)
Using(t) == dcall[t].pc \in {"select", "poll", "down"}

\* disk_init() runs before any other call, on disks of its own; every other user
\* of a channel holds the channel's lock.
CallOK(t) ==
  /\ t = Booter => dcall[t].pc \notin {"lock", "done"}
  /\ t = Booter /\ dcall[t].pc # "idle" => dcall[t].op = "identify" /\ dcall[t].disk \in DiskId
  /\ t # Booter /\ dcall[t].pc \notin {"idle", "done"} =>
       dcall[t].op \in {"read", "write"} /\ dcall[t].disk \in DiskId /\ dcall[t].sec \in SecNo
  /\ t # Booter /\ dcall[t].pc # "idle" => Booted
  /\ t # Booter /\ Using(t) => chan_lock[On(t)] = t

\* The command in the registers is the one t gave, and its interrupt is expected.
CommandOK(t) ==
  dcall[t].pc \in {"poll", "down"} =>
    /\ dev[On(t)].op = dcall[t].op
    /\ dev[On(t)].disk = dcall[t].disk
    /\ dev[On(t)].sec = dcall[t].sec
    /\ expecting_interrupt[On(t)]

\* A device works on a sector of its own channel, holds data only of a write that
\* it has still to do, and offers a read what is on the disk.
DeviceOK(c) ==
  /\ dev[c].status # "idle" => dev[c].disk \in DiskId /\ chan(dev[c].disk) = c
  /\ dev[c].status # "idle" /\ dev[c].op \in {"read", "write"} => dev[c].sec \in SecNo
  /\ dev[c].full => dev[c].status = "busy" /\ dev[c].op = "write"
  /\ dev[c].status = "drq" /\ dev[c].op = "read" => dev[c].buf = media[<<dev[c].disk, dev[c].sec>>]

\* No completion is signalled or left over; one is, at the line or the semaphore;
\* and nothing goes on at all.
Silent(c) == ~dev[c].intr /\ completion_wait[c] = 0
Signalled(c) ==
  \/ dev[c].intr /\ completion_wait[c] = 0
  \/ ~dev[c].intr /\ completion_wait[c] = 1
Quiet(c) == dev[c].status = "idle" /\ Silent(c)

\* How far the device is when t is at each of its waits: the completion that t
\* waits for is signalled once, and only when the device is done with t's part.
Exchange(t) ==
  LET c == On(t) IN
  /\ dcall[t].pc = "select" => Quiet(c)
  /\ dcall[t].pc = "poll" /\ dcall[t].op # "write" => dev[c].status # "busy" /\ Silent(c)
  /\ dcall[t].pc = "down" /\ dcall[t].op # "write" =>
       /\ ~dev[c].full
       /\ \/ dev[c].status = "busy" /\ Silent(c)
          \/ dev[c].status # "busy" /\ Signalled(c)
  /\ dcall[t].pc = "poll" /\ dcall[t].op = "write" =>
       /\ ~dev[c].full
       /\ \/ dev[c].status # "idle" /\ Silent(c)
          \/ dev[c].status = "idle" /\ Signalled(c)
  /\ dcall[t].pc = "down" /\ dcall[t].op = "write" =>
       \/ dev[c].status = "busy" /\ dev[c].full /\ Silent(c)
       \/ dev[c].status = "idle" /\ Signalled(c)

\* As long as no interrupt came uncalled: users and devices keep step.
Handshake ==
  spurious = 0 =>
    /\ ~collided
    /\ \A t \in Caller : Using(t) => Exchange(t)
    /\ \A c \in Channel : (\A t \in Caller : ~(Using(t) /\ On(t) = c)) => Quiet(c)

\* The inductive invariant.
DiskInv ==
  /\ DiskTyped
  /\ \A t \in Caller : CallOK(t)
  /\ ~collided => \A t \in Caller : CommandOK(t)
  /\ \A c \in Channel : DeviceOK(c)
  /\ Handshake

-----------------------------------------------------------------------------
(* What a step leaves alone.                                               *)

\* The fields of a thread's call and of a channel's registers.
LEMMA Fields ==
  ASSUME DiskTyped
  PROVE  /\ \A t \in Caller : /\ dcall[t] \in CallType /\ dcall[t].pc \in Pc /\ dcall[t].op \in Op
                              /\ dcall[t].disk \in DiskPlace /\ dcall[t].sec \in SecNo \cup {0}
                              /\ dcall[t].buf \in SectorData
         /\ \A c \in Channel : /\ dev[c] \in CommandType /\ dev[c].status \in {"idle", "busy", "drq"}
                               /\ dev[c].op \in Op /\ dev[c].disk \in DiskPlace
                               /\ dev[c].sec \in SecNo \cup {0} /\ dev[c].buf \in SectorData
                               /\ dev[c].full \in BOOLEAN /\ dev[c].intr \in BOOLEAN
                               /\ completion_wait[c] \in Nat
         /\ \A d \in DiskId : chan(d) \in Channel
<1>1. \A r \in CallType : /\ r.pc \in Pc /\ r.op \in Op /\ r.disk \in DiskPlace
                          /\ r.sec \in SecNo \cup {0} /\ r.buf \in SectorData
  BY Zenon DEF CallType
<1>2. \A r \in CommandType : /\ r.status \in {"idle", "busy", "drq"} /\ r.op \in Op /\ r.disk \in DiskPlace
                             /\ r.sec \in SecNo \cup {0} /\ r.buf \in SectorData
                             /\ r.full \in BOOLEAN /\ r.intr \in BOOLEAN
  BY Zenon DEF CommandType
<1>3. \A d \in DiskId : chan(d) \in Channel
  BY DEF DiskId, chan
<1> QED
  BY <1>1, <1>2, <1>3, Zenon DEF DiskTyped

\* A thread's next statement is pc, and nothing else of a call changes.
LEMMA Moves ==
  ASSUME DiskTyped, NEW t \in Caller, NEW pc \in Pc, Goto(t, pc)
  PROVE  /\ dcall' \in [Caller -> CallType]
         /\ \A u \in Caller : u # t => dcall'[u] = dcall[u]
         /\ dcall'[t].pc = pc /\ dcall'[t].op = dcall[t].op /\ dcall'[t].disk = dcall[t].disk
         /\ dcall'[t].sec = dcall[t].sec /\ dcall'[t].buf = dcall[t].buf
<1>1. dcall \in [Caller -> CallType] /\ dcall[t] \in CallType
  BY Fields, Zenon DEF DiskTyped
<1>2. dcall' = [dcall EXCEPT ![t] = [dcall[t] EXCEPT !.pc = pc]]
  BY Zenon DEF Goto
<1>3. [dcall[t] EXCEPT !.pc = pc] \in CallType
  BY <1>1 DEF CallType
<1>4. dcall' \in [Caller -> CallType] /\ dcall'[t] = [dcall[t] EXCEPT !.pc = pc]
  BY <1>1, <1>2, <1>3, Zenon
<1>5. \A u \in Caller : u # t => dcall'[u] = dcall[u]
  BY <1>1, <1>2, Zenon
<1>6. /\ dcall'[t].pc = pc /\ dcall'[t].op = dcall[t].op /\ dcall'[t].disk = dcall[t].disk
      /\ dcall'[t].sec = dcall[t].sec /\ dcall'[t].buf = dcall[t].buf
  BY <1>1, <1>4 DEF CallType
<1> QED
  BY <1>4, <1>5, <1>6, Zenon

\* A call returns: the thread holds the data and not the channel's lock.
LEMMA Returns ==
  ASSUME DiskTyped, DiskAssumption, NEW t \in Caller, NEW data \in SectorData, Finish(t, data), On(t) \in Channel
  PROVE  /\ dcall' \in [Caller -> CallType]
         /\ \A u \in Caller : u # t => dcall'[u] = dcall[u]
         /\ dcall'[t].pc = (IF t = Booter THEN "idle" ELSE "done") /\ dcall'[t].buf = data
         /\ chan_lock' \in [Channel -> Caller \cup {NoThread}]
         /\ \A c \in Channel : chan_lock[c] # t => chan_lock'[c] = chan_lock[c]
<1> DEFINE x == IF t = Booter THEN "idle" ELSE "done"
           r == [NoDiskCall EXCEPT !.pc = x, !.buf = data]
<1>1. NoDiskCall \in CallType /\ x \in Pc
  BY DiskAssumption DEF NoDiskCall, CallType, Pc, Op, DiskPlace
<1> HIDE DEF x
<1>2. r \in CallType /\ r.pc = x /\ r.buf = data
  BY <1>1, Zenon DEF CallType
<1>3. dcall' = [dcall EXCEPT ![t] = r]
  BY Zenon DEF Finish, x
<1> HIDE DEF r
<1>4. /\ dcall' \in [Caller -> CallType] /\ dcall'[t] = r
      /\ \A u \in Caller : u # t => dcall'[u] = dcall[u]
  BY <1>2, <1>3, Zenon DEF DiskTyped
<1>5. chan_lock' = [chan_lock EXCEPT ![On(t)] = IF chan_lock[On(t)] = t THEN NoThread ELSE chan_lock[On(t)]]
  BY Zenon DEF Finish, On
<1>6. chan_lock' \in [Channel -> Caller \cup {NoThread}] /\ \A c \in Channel : chan_lock[c] # t => chan_lock'[c] = chan_lock[c]
  <2>1. CASE chan_lock[On(t)] = t
    BY <1>5, <2>1, Zenon DEF DiskTyped
  <2>2. CASE chan_lock[On(t)] # t
    BY <1>5, <2>2, Zenon DEF DiskTyped
  <2> QED
    BY <2>1, <2>2, Zenon
<1> QED
  BY <1>2, <1>4, <1>6, Zenon DEF x

\* One thread at a time is on a channel: disk_init() before the others start,
\* and after it the holder of the channel's lock.
LEMMA OneUser ==
  ASSUME DiskTyped, \A t \in Caller : CallOK(t),
         NEW t \in Caller, NEW u \in Caller, Using(t), Using(u), On(t) = On(u)
  PROVE  t = u
<1>1. dcall[t].pc # "idle" /\ dcall[u].pc # "idle"
  BY Zenon DEF Using
<1>2. CASE t # Booter /\ u # Booter
  BY <1>2, Zenon DEF CallOK
<1>3. CASE t = Booter \/ u = Booter
  BY <1>1, <1>3, Zenon DEF CallOK, Booted
<1> QED
  BY <1>2, <1>3, Zenon

\* A thread whose call did not change keeps what CallOK says of it, ...
LEMMA CallStays ==
  ASSUME NEW u \in Caller, CallOK(u), dcall'[u] = dcall[u], Booted => Booted',
         u # Booter /\ Using(u) => chan_lock'[On(u)] = chan_lock[On(u)]
  PROVE  CallOK(u)'
<1>1. Using(u)' <=> Using(u)
  BY Zenon DEF Using
<1>2. On(u)' = On(u)
  BY Zenon DEF On, chan
<1>3. chan_lock[On(u)]' = chan_lock'[On(u)]
  BY <1>2, Zenon
<1> QED
  BY <1>1, <1>3, Zenon DEF CallOK

\* ... and what CommandOK does if its channel's registers did not either.
LEMMA CommandStays ==
  ASSUME NEW u \in Caller, CommandOK(u), dcall'[u] = dcall[u],
         dcall[u].pc \in {"poll", "down"} =>
           /\ dev'[On(u)].op = dev[On(u)].op /\ dev'[On(u)].disk = dev[On(u)].disk
           /\ dev'[On(u)].sec = dev[On(u)].sec
           /\ expecting_interrupt[On(u)] => expecting_interrupt'[On(u)]
  PROVE  CommandOK(u)'
<1>1. On(u)' = On(u)
  BY Zenon DEF On, chan
<1> QED
  BY <1>1, Zenon DEF CommandOK

\* A thread keeps step with a device that does not move.
LEMMA ExchangeStays ==
  ASSUME NEW u \in Caller, Exchange(u), dcall'[u] = dcall[u],
         dev'[On(u)] = dev[On(u)], completion_wait'[On(u)] = completion_wait[On(u)]
  PROVE  Exchange(u)'
<1>1. On(u)' = On(u)
  BY Zenon DEF On, chan
<1> QED
  BY <1>1, Zenon DEF Exchange, Quiet, Silent, Signalled

\* A step of the thread that has channel c disturbs the handshake of no other
\* channel.
LEMMA HandshakeOfUser ==
  ASSUME DiskInv, NEW t \in Caller, NEW c \in Channel,
         \A u \in Caller : u # t => dcall'[u] = dcall[u],
         \A u \in Caller : u # t /\ Using(u) => On(u) # c /\ On(u) \in Channel,
         Using(t) => On(t) = c,
         \A e \in Channel : e # c => dev'[e] = dev[e] /\ completion_wait'[e] = completion_wait[e],
         spurious' = spurious,
         spurious = 0 => ~collided',
         Using(t)' => On(t)' = c,
         spurious = 0 /\ Using(t)' => Exchange(t)',
         spurious = 0 /\ ~Using(t)' => Quiet(c)'
  PROVE  Handshake'
<1> SUFFICES ASSUME spurious = 0
             PROVE  /\ ~collided'
                    /\ \A u \in Caller : Using(u)' => Exchange(u)'
                    /\ \A e \in Channel : (\A u \in Caller : ~(Using(u)' /\ On(u)' = e)) => Quiet(e)'
  BY Zenon DEF Handshake
<1>1. /\ ~collided
      /\ \A u \in Caller : Using(u) => Exchange(u)
      /\ \A e \in Channel : (\A u \in Caller : ~(Using(u) /\ On(u) = e)) => Quiet(e)
  BY Zenon DEF DiskInv, Handshake
<1>2. \A u \in Caller : u # t => (Using(u)' <=> Using(u)) /\ On(u)' = On(u)
  BY Zenon DEF Using, On, chan
<1>3. ASSUME NEW u \in Caller, Using(u)' PROVE Exchange(u)'
  <2>1. CASE u = t
    BY <1>3, <2>1, Zenon
  <2>2. CASE u # t
    <3>1. Using(u) /\ On(u) # c /\ On(u) \in Channel
      BY <1>2, <1>3, <2>2, Zenon
    <3> QED
      BY <1>1, <2>2, <3>1, ExchangeStays, Zenon
  <2> QED
    BY <2>1, <2>2, Zenon
<1>4. ASSUME NEW e \in Channel, \A u \in Caller : ~(Using(u)' /\ On(u)' = e) PROVE Quiet(e)'
  <2>1. CASE e = c
    BY <1>4, <2>1, Zenon
  <2>2. CASE e # c
    <3>1. \A u \in Caller : ~(Using(u) /\ On(u) = e)
      BY <1>2, <1>4, <2>2, Zenon
    <3>2. Quiet(e)
      BY <1>1, <3>1, Zenon
    <3> QED
      BY <2>2, <3>2, Zenon DEF Quiet, Silent
  <2> QED
    BY <2>1, <2>2, Zenon
<1> QED
  BY <1>1, <1>3, <1>4, Zenon

\* Nor does a step of the device or of the interrupt controller of channel c.
LEMMA HandshakeOfDevice ==
  ASSUME DiskInv, NEW c \in Channel, dcall' = dcall, spurious' = spurious, collided' = collided,
         \A u \in Caller : Using(u) => On(u) \in Channel,
         \A e \in Channel : e # c => dev'[e] = dev[e] /\ completion_wait'[e] = completion_wait[e],
         ~Quiet(c),
         \A u \in Caller : Using(u) /\ On(u) = c /\ Exchange(u) => Exchange(u)'
  PROVE  Handshake'
<1> SUFFICES ASSUME spurious = 0
             PROVE  /\ ~collided'
                    /\ \A u \in Caller : Using(u)' => Exchange(u)'
                    /\ \A e \in Channel : (\A u \in Caller : ~(Using(u)' /\ On(u)' = e)) => Quiet(e)'
  BY Zenon DEF Handshake
<1>1. /\ ~collided
      /\ \A u \in Caller : Using(u) => Exchange(u)
      /\ \A e \in Channel : (\A u \in Caller : ~(Using(u) /\ On(u) = e)) => Quiet(e)
  BY Zenon DEF DiskInv, Handshake
<1>2. \A u \in Caller : (Using(u)' <=> Using(u)) /\ On(u)' = On(u)
  BY Zenon DEF Using, On, chan
<1>3. ASSUME NEW u \in Caller, Using(u)' PROVE Exchange(u)'
  <2>1. Using(u) /\ Exchange(u) /\ On(u) \in Channel
    BY <1>1, <1>2, <1>3, Zenon
  <2>2. CASE On(u) = c
    BY <2>1, <2>2, Zenon
  <2>3. CASE On(u) # c
    BY <2>1, <2>3, ExchangeStays, Zenon
  <2> QED
    BY <2>2, <2>3, Zenon
<1>4. ASSUME NEW e \in Channel, \A u \in Caller : ~(Using(u)' /\ On(u)' = e) PROVE Quiet(e)'
  <2>1. Quiet(e)
    BY <1>1, <1>2, <1>4, Zenon
  <2>2. e # c
    BY <2>1, Zenon
  <2> QED
    BY <2>1, <2>2, Zenon DEF Quiet, Silent
<1> QED
  BY <1>1, <1>3, <1>4, Zenon

\* A thread that uses a channel is on one that exists, alone.
LEMMA Alone ==
  ASSUME DiskInv, NEW t \in Caller, Using(t)
  PROVE  /\ On(t) \in Channel /\ dcall[t].disk \in DiskId
         /\ \A u \in Caller : Using(u) => On(u) \in Channel
         /\ \A u \in Caller : u # t /\ Using(u) => On(u) # On(t) /\ On(u) \in Channel
<1>1. \A u \in Caller : Using(u) => dcall[u].pc # "idle" /\ dcall[u].pc # "done"
  BY Zenon DEF Using
<1>2. \A u \in Caller : Using(u) => dcall[u].disk \in DiskId
  BY <1>1, Zenon DEF DiskInv, CallOK
<1>3. \A u \in Caller : Using(u) => On(u) \in Channel
  BY <1>2, Fields, Zenon DEF DiskInv, On
<1>4. \A u \in Caller : u # t /\ Using(u) => On(u) # On(t)
  BY OneUser, Zenon DEF DiskInv
<1> QED
  BY <1>2, <1>3, <1>4, Zenon

\* A device that keeps its command keeps what DeviceOK says of it.
LEMMA DeviceStays ==
  ASSUME NEW c \in Channel, DeviceOK(c), media' = media,
         dev'[c].status = dev[c].status, dev'[c].op = dev[c].op, dev'[c].disk = dev[c].disk,
         dev'[c].sec = dev[c].sec, dev'[c].full = dev[c].full, dev'[c].buf = dev[c].buf
  PROVE  DeviceOK(c)'
<1>1. dev[c].full => dev[c].status = "busy" /\ dev[c].op = "write"
  BY Zenon DEF DeviceOK
<1>2. dev'[c].full => dev'[c].status = "busy" /\ dev'[c].op = "write"
  BY <1>1
<1> QED
  BY <1>2, Zenon DEF DeviceOK

-----------------------------------------------------------------------------
(* Every step keeps the invariant.                                         *)

\* After check_device_type() no call is made and every device is idle.
LEMMA InitInv == DiskInit => DiskInv
<1> SUFFICES ASSUME DiskInit PROVE DiskInv
  BY Zenon
<1>1. NoDiskCall \in CallType /\ NoCommand \in CommandType
  BY DiskAssumption DEF NoDiskCall, NoCommand, CallType, CommandType, Pc, Op, DiskPlace
<1>2. /\ \A t \in Caller : dcall[t] = NoDiskCall
      /\ \A c \in Channel : dev[c] = NoCommand /\ completion_wait[c] = 0
  BY Zenon DEF DiskInit
<1>3. NoDiskCall.pc = "idle" /\ NoCommand.status = "idle" /\ NoCommand.full = FALSE /\ NoCommand.intr = FALSE
  BY DEF NoDiskCall, NoCommand
<1>4. DiskTyped
  <2>1. is_ata \subseteq DiskId /\ unnamed \subseteq DiskId
    BY Zenon DEF DiskInit
  <2>2. dcall \in [Caller -> CallType] /\ dev \in [Channel -> CommandType]
    BY <1>1, Zenon DEF DiskInit
  <2>3. /\ chan_lock \in [Channel -> Caller \cup {NoThread}]
        /\ expecting_interrupt \in [Channel -> BOOLEAN]
        /\ media \in [DiskId \X SecNo -> SectorData]
    BY DiskAssumption, Zenon DEF DiskInit
  <2>4. completion_wait \in [Channel -> Nat] /\ spurious \in Nat /\ collided \in BOOLEAN
    BY Zenon DEF DiskInit
  <2> QED
    BY <2>1, <2>2, <2>3, <2>4, Zenon DEF DiskTyped
<1>5. \A t \in Caller : dcall[t].pc = "idle" /\ ~Using(t)
  BY <1>2, <1>3, Zenon DEF Using
<1>6. \A t \in Caller : CallOK(t) /\ CommandOK(t)
  BY <1>5, Zenon DEF CallOK, CommandOK
<1>7. \A c \in Channel : DeviceOK(c) /\ Quiet(c)
  BY <1>2, <1>3, Zenon DEF DeviceOK, Quiet, Silent
<1>8. Handshake
  <2>1. ~collided
    BY Zenon DEF DiskInit
  <2> QED
    BY <1>5, <1>7, <2>1, Zenon DEF Handshake
<1> QED
  BY <1>4, <1>6, <1>7, <1>8, Zenon DEF DiskInv

\* disk_init() turns to the next disk: no other thread has started.
LEMMA IdentifyStep ==
  ASSUME DiskInv, NEW t \in Caller, Identify(t)
  PROVE  DiskInv'
<1>1. PICK d \in unnamed :
        dcall' = [dcall EXCEPT ![t] = [NoDiskCall EXCEPT !.pc = "select", !.op = "identify", !.disk = d]]
  BY Zenon DEF Identify
<1>2. d \in DiskId /\ chan(d) \in Channel /\ DiskTyped /\ dcall \in [Caller -> CallType]
  BY Fields, Zenon DEF DiskInv, DiskTyped
<1> DEFINE r == [NoDiskCall EXCEPT !.pc = "select", !.op = "identify", !.disk = d]
<1>3. r \in CallType /\ r.pc = "select" /\ r.op = "identify" /\ r.disk = d
  <2>1. NoDiskCall \in CallType /\ "select" \in Pc /\ "identify" \in Op /\ d \in DiskPlace
    BY <1>2, DiskAssumption DEF NoDiskCall, CallType, Pc, Op, DiskPlace
  <2> QED
    BY <2>1, Zenon DEF CallType
<1> HIDE DEF r
<1>4. /\ dcall' \in [Caller -> CallType] /\ dcall'[t] = r
      /\ \A u \in Caller : u # t => dcall'[u] = dcall[u]
  BY <1>1, <1>2, <1>3, Zenon DEF r
<1>5. t = Booter /\ dcall[t].pc = "idle" /\ ~Booted /\ Using(t)' /\ On(t)' = chan(d)
  BY <1>3, <1>4, Zenon DEF Identify, Booted, Using, On, chan
<1>6. \A u \in Caller : ~Using(u)
  BY <1>5, Zenon DEF DiskInv, CallOK, Using
<1>7. DiskTyped'
  <2>1. unnamed' \subseteq DiskId
    BY Zenon DEF Identify, DiskInv, DiskTyped
  <2> QED
    BY <2>1, <1>4, Zenon DEF Identify, DiskInv, DiskTyped
<1>8. ASSUME NEW u \in Caller PROVE CallOK(u)' /\ CommandOK(u)'
  <2>1. CASE u = t
    BY <1>2, <1>3, <1>4, <1>5, <2>1, Zenon DEF CallOK, CommandOK
  <2>2. CASE u # t
    <3>1. CallOK(u)'
      BY <1>4, <1>5, <1>6, <2>2, CallStays, Zenon DEF DiskInv
    <3>2. CommandOK(u)'
      <4>1. ~(dcall[u].pc \in {"poll", "down"})
        BY <1>6, Zenon DEF Using
      <4> QED
        BY <1>4, <2>2, <4>1, Zenon DEF CommandOK
    <3> QED
      BY <3>1, <3>2, Zenon
  <2> QED
    BY <2>1, <2>2, Zenon
<1>9. \A c \in Channel : DeviceOK(c)'
  BY Zenon DEF Identify, DiskInv, DeviceOK
<1>10. Handshake'
  <2>1. spurious = 0 => ~collided /\ Quiet(chan(d))
    BY <1>2, <1>6, Zenon DEF DiskInv, Handshake
  <2>2. dev' = dev /\ completion_wait' = completion_wait /\ spurious' = spurious /\ collided' = collided
    BY Zenon DEF Identify
  <2>3. spurious = 0 => Exchange(t)'
    BY <1>3, <1>4, <1>5, <2>1, <2>2, Zenon DEF Exchange, Quiet, Silent
  <2> QED
    BY <1>2, <1>4, <1>5, <1>6, <2>1, <2>2, <2>3, HandshakeOfUser, Zenon
<1> QED
  BY <1>7, <1>8, <1>9, <1>10, Zenon DEF DiskInv

\* A thread that uses no channel, before and after, disturbs no handshake.
LEMMA HandshakeUntouched ==
  ASSUME DiskInv, NEW t \in Caller, ~Using(t), ~Using(t)',
         \A u \in Caller : u # t => dcall'[u] = dcall[u],
         dev' = dev, completion_wait' = completion_wait, spurious' = spurious, collided' = collided
  PROVE  Handshake'
<1>1. \A u \in Caller : (Using(u)' <=> Using(u)) /\ (Using(u) => On(u)' = On(u))
  BY Zenon DEF Using, On, chan
<1>2. \A u \in Caller : Using(u) /\ Exchange(u) => Exchange(u)'
  BY ExchangeStays, Zenon
<1>3. \A c \in Channel : Quiet(c) => Quiet(c)'
  BY Zenon DEF Quiet, Silent
<1>4. spurious = 0 =>
        /\ ~collided'
        /\ \A u \in Caller : Using(u)' => Exchange(u)'
        /\ \A c \in Channel : (\A u \in Caller : ~(Using(u)' /\ On(u)' = c)) => Quiet(c)'
  BY <1>1, <1>2, <1>3, Zenon DEF DiskInv, Handshake
<1> QED
  BY <1>4, Zenon DEF Handshake

\* disk_read() or disk_write() is called.
LEMMA CallDriverStep ==
  ASSUME DiskInv, NEW t \in Caller, CallDriver(t)
  PROVE  DiskInv'
<1>1. PICK d \in is_ata, sec \in SecNo, data \in SectorData, op \in {"read", "write"} :
        dcall' = [dcall EXCEPT ![t] = [pc |-> "lock", op |-> op, disk |-> d, sec |-> sec, buf |-> data]]
  BY Zenon DEF CallDriver
<1> DEFINE r == [pc |-> "lock", op |-> op, disk |-> d, sec |-> sec, buf |-> data]
<1>2. d \in DiskId /\ dcall \in [Caller -> CallType] /\ t # Booter /\ Booted /\ dcall[t].pc = "idle"
  BY DiskAssumption, Zenon DEF DiskInv, DiskTyped, CallDriver
<1>3. r \in CallType /\ r.pc = "lock" /\ r.op = op /\ r.disk = d /\ r.sec = sec
  BY <1>2 DEF CallType, Pc, Op, DiskPlace
<1> HIDE DEF r
<1>4. /\ dcall' \in [Caller -> CallType] /\ dcall'[t] = r
      /\ \A u \in Caller : u # t => dcall'[u] = dcall[u]
  BY <1>1, <1>2, <1>3, Zenon DEF r
<1>5. ~Using(t) /\ ~Using(t)' /\ Booted'
  <2>1. Booter \in Caller
    BY Zenon DEF Caller
  <2> QED
    BY <1>2, <1>3, <1>4, <2>1, Zenon DEF Using, Booted, CallDriver
<1>6. DiskTyped'
  BY <1>4, Zenon DEF CallDriver, DiskInv, DiskTyped
<1>7. ASSUME NEW u \in Caller PROVE CallOK(u)' /\ (CommandOK(u) => CommandOK(u)')
  <2>1. CASE u = t
    <3>1. op = "read" \/ op = "write"
      BY Zenon
    <3> QED
      BY <1>2, <1>3, <1>4, <1>5, <2>1, <3>1, Zenon DEF CallOK, CommandOK
  <2>2. CASE u # t
    <3>1. CallOK(u)'
      BY <1>4, <1>5, <2>2, CallStays, Zenon DEF DiskInv, CallDriver
    <3>2. CommandOK(u) => CommandOK(u)'
      BY <1>4, <2>2, CommandStays, Zenon DEF CallDriver
    <3> QED
      BY <3>1, <3>2, Zenon
  <2> QED
    BY <2>1, <2>2, Zenon
<1>8. \A c \in Channel : DeviceOK(c)'
  BY Zenon DEF CallDriver, DiskInv, DeviceOK
<1>9. Handshake'
  BY <1>4, <1>5, HandshakeUntouched, Zenon DEF CallDriver
<1>10. collided' = collided
  BY Zenon DEF CallDriver
<1> QED
  BY <1>6, <1>7, <1>8, <1>9, <1>10, Zenon DEF DiskInv

\* lock_acquire (&c->lock).
LEMMA AcquireStep ==
  ASSUME DiskInv, NEW t \in Caller, AcquireChannel(t)
  PROVE  DiskInv'
<1>1. dcall[t].pc = "lock" /\ Goto(t, "select") /\ "select" \in Pc
  BY Zenon DEF AcquireChannel, Pc
<1>2. /\ dcall' \in [Caller -> CallType]
      /\ \A u \in Caller : u # t => dcall'[u] = dcall[u]
      /\ dcall'[t].pc = "select" /\ dcall'[t].op = dcall[t].op /\ dcall'[t].disk = dcall[t].disk
      /\ dcall'[t].sec = dcall[t].sec
  BY <1>1, Moves, Zenon DEF DiskInv
<1>3. t # Booter
  BY <1>1, Zenon DEF DiskInv, CallOK
<1>4. Booted /\ dcall[t].op \in {"read", "write"} /\ dcall[t].disk \in DiskId /\ dcall[t].sec \in SecNo
  BY <1>1, <1>3, Zenon DEF DiskInv, CallOK
<1>5. On(t) \in Channel /\ On(t)' = On(t) /\ Using(t)' /\ ~Using(t)
  BY <1>1, <1>2, <1>4, Fields, Zenon DEF DiskInv, On, Using
<1>6. chan_lock' = [chan_lock EXCEPT ![On(t)] = t] /\ chan_lock[On(t)] = NoThread
  BY Zenon DEF AcquireChannel, On
<1>7. /\ chan_lock' \in [Channel -> Caller \cup {NoThread}] /\ chan_lock'[On(t)] = t
      /\ \A c \in Channel : c # On(t) => chan_lock'[c] = chan_lock[c]
  BY <1>5, <1>6, Zenon DEF DiskInv, DiskTyped
<1>8. Booted'
  <2>1. Booter \in Caller
    BY Zenon DEF Caller
  <2> QED
    BY <1>2, <1>3, <1>4, <2>1, Zenon DEF Booted, AcquireChannel
<1>9. \A u \in Caller : Using(u) => u # Booter /\ chan_lock[On(u)] = u /\ On(u) \in Channel
  <2>1. \A u \in Caller : Using(u) => dcall[u].pc # "idle" /\ dcall[u].pc # "done"
    BY Zenon DEF Using
  <2> QED
    BY <1>4, <2>1, Fields, Zenon DEF Booted, DiskInv, CallOK, On
<1>10. \A u \in Caller : Using(u) => On(u) # On(t)
  <2>1. \A u \in Caller : u # NoThread
    BY DiskAssumption, Zenon DEF Caller
  <2> QED
    BY <1>6, <1>9, <2>1, Zenon
<1>11. DiskTyped'
  BY <1>2, <1>7, Zenon DEF AcquireChannel, DiskInv, DiskTyped
<1>12. ASSUME NEW u \in Caller PROVE CallOK(u)' /\ (CommandOK(u) => CommandOK(u)')
  <2>1. CASE u = t
    <3>1. CallOK(t)'
      BY <1>2, <1>3, <1>4, <1>5, <1>7, <1>8, Zenon DEF CallOK
    <3>2. CommandOK(t)'
      BY <1>2, Zenon DEF CommandOK
    <3> QED
      BY <2>1, <3>1, <3>2, Zenon
  <2>2. CASE u # t
    <3>1. CallOK(u)'
      BY <1>2, <1>7, <1>8, <1>9, <1>10, <2>2, CallStays, Zenon DEF DiskInv
    <3>2. CommandOK(u) => CommandOK(u)'
      BY <1>2, <2>2, CommandStays, Zenon DEF AcquireChannel
    <3> QED
      BY <3>1, <3>2, Zenon
  <2> QED
    BY <2>1, <2>2, Zenon
<1>13. \A c \in Channel : DeviceOK(c)'
  BY Zenon DEF AcquireChannel, DiskInv, DeviceOK
<1>14. dev' = dev /\ completion_wait' = completion_wait /\ spurious' = spurious /\ collided' = collided
  BY Zenon DEF AcquireChannel
<1>15. Handshake'
  <2>1. spurious = 0 => ~collided /\ Quiet(On(t))
    BY <1>5, <1>10, Zenon DEF DiskInv, Handshake
  <2>2. spurious = 0 => Exchange(t)'
    BY <1>2, <1>5, <1>14, <2>1, Zenon DEF Exchange, Quiet, Silent
  <2> QED
    <3>1. PICK c \in Channel : c = On(t)
      BY <1>5, Zenon
    <3>2. \A u \in Caller : u # t /\ Using(u) => On(u) # c /\ On(u) \in Channel
      BY <1>9, <1>10, <3>1, Zenon
    <3>3. On(t)' = c /\ Using(t)' /\ ~Using(t) /\ (spurious = 0 => ~collided')
      BY <1>5, <1>14, <2>1, <3>1, Zenon
    <3>4. \A u \in Caller : u # t => dcall'[u] = dcall[u]
      BY <1>2, Zenon
    <3> QED
      BY <1>14, <2>2, <3>2, <3>3, <3>4, HandshakeOfUser, Zenon
<1> QED
  BY <1>11, <1>12, <1>13, <1>14, <1>15, Zenon DEF DiskInv

\* The caller goes on after its call.
LEMMA LeaveStep ==
  ASSUME DiskInv, NEW t \in Caller, Leave(t)
  PROVE  DiskInv'
<1>1. dcall[t].pc = "done" /\ dcall' = [dcall EXCEPT ![t] = NoDiskCall] /\ dcall \in [Caller -> CallType]
  BY Zenon DEF Leave, DiskInv, DiskTyped
<1>2. NoDiskCall \in CallType /\ NoDiskCall.pc = "idle"
  BY DiskAssumption DEF NoDiskCall, CallType, Pc, Op, DiskPlace
<1>3. /\ dcall' \in [Caller -> CallType] /\ dcall'[t].pc = "idle"
      /\ \A u \in Caller : u # t => dcall'[u] = dcall[u]
  BY <1>1, <1>2, Zenon
<1>4. t # Booter /\ ~Using(t) /\ ~Using(t)'
  BY <1>1, <1>3, Zenon DEF DiskInv, CallOK, Using
<1>5. Booted => Booted'
  <2>1. Booter \in Caller
    BY Zenon DEF Caller
  <2> QED
    BY <1>3, <1>4, <2>1, Zenon DEF Booted, Leave
<1>6. DiskTyped'
  BY <1>3, Zenon DEF Leave, DiskInv, DiskTyped
<1>7. ASSUME NEW u \in Caller PROVE CallOK(u)' /\ (CommandOK(u) => CommandOK(u)')
  <2>1. CASE u = t
    BY <1>3, <1>4, <2>1, Zenon DEF CallOK, CommandOK
  <2>2. CASE u # t
    <3>1. CallOK(u)'
      BY <1>3, <1>5, <2>2, CallStays, Zenon DEF DiskInv, Leave
    <3>2. CommandOK(u) => CommandOK(u)'
      BY <1>3, <2>2, CommandStays, Zenon DEF Leave
    <3> QED
      BY <3>1, <3>2, Zenon
  <2> QED
    BY <2>1, <2>2, Zenon
<1>8. \A c \in Channel : DeviceOK(c)'
  BY Zenon DEF Leave, DiskInv, DeviceOK
<1>9. Handshake'
  BY <1>3, <1>4, HandshakeUntouched, Zenon DEF Leave
<1>10. collided' = collided
  BY Zenon DEF Leave
<1> QED
  BY <1>6, <1>7, <1>8, <1>9, <1>10, Zenon DEF DiskInv

\* Booted never becomes false again while threads move through their calls.
LEMMA BootedStays ==
  ASSUME DiskInv, NEW t \in Caller, Using(t), unnamed' = unnamed,
         \A u \in Caller : u # t => dcall'[u] = dcall[u]
  PROVE  Booted => Booted'
<1>1. Booter \in Caller
  BY Zenon DEF Caller
<1>2. CASE t = Booter
  BY <1>2, Zenon DEF Booted, Using
<1>3. CASE t # Booter
  BY <1>1, <1>3, Zenon DEF Booted
<1> QED
  BY <1>2, <1>3, Zenon

\* select_sector() and issue_pio_command(): the device takes the command if it
\* is idle, and otherwise the two have collided.
LEMMA IssueStep ==
  ASSUME DiskInv, ~collided, NEW t \in Caller, Issue(t)
  PROVE  DiskInv'
<1> DEFINE c == On(t)
           pc == IF dcall[t].op = "write" THEN "poll" ELSE "down"
           r == [NoCommand EXCEPT !.status = "busy", !.op = dcall[t].op,
                                  !.disk = dcall[t].disk, !.sec = dcall[t].sec]
           s == [dev[c] EXCEPT !.intr = FALSE]
           idle == dev[c].status = "idle"
<1>1. Goto(t, pc) /\ pc \in Pc /\ (pc = "poll" \/ pc = "down") /\ dcall[t].pc = "select" /\ Using(t)
  BY Zenon DEF Issue, Pc, Using
<1>2. /\ dcall' \in [Caller -> CallType]
      /\ \A u \in Caller : u # t => dcall'[u] = dcall[u]
      /\ dcall'[t].pc = pc /\ dcall'[t].op = dcall[t].op /\ dcall'[t].disk = dcall[t].disk
      /\ dcall'[t].sec = dcall[t].sec
  BY <1>1, Moves, Zenon DEF DiskInv
<1>3. /\ c \in Channel /\ dcall[t].disk \in DiskId
      /\ \A u \in Caller : u # t /\ Using(u) => On(u) # c /\ On(u) \in Channel
  BY <1>1, Alone, Zenon
<1>4. c' = c /\ Using(t)'
  BY <1>1, <1>2, Zenon DEF On, Using
<1>5. /\ dev' = [dev EXCEPT ![c] = IF idle THEN r ELSE s]
      /\ expecting_interrupt' = [expecting_interrupt EXCEPT ![c] = TRUE]
      /\ collided' = (collided \/ ~idle)
  BY Zenon DEF Issue, On
<1>6. dcall[t] \in CallType /\ dev[c] \in CommandType /\ NoCommand \in CommandType
  BY <1>3, Fields, DiskAssumption DEF DiskInv, NoCommand, CommandType, Op, DiskPlace
<1>7. /\ r \in CommandType /\ r.status = "busy" /\ r.op = dcall[t].op /\ r.disk = dcall[t].disk
      /\ r.sec = dcall[t].sec /\ r.full = FALSE /\ r.intr = FALSE
  <2>1. NoCommand.full = FALSE /\ NoCommand.intr = FALSE
    BY DEF NoCommand
  <2>2. dcall[t].op \in Op /\ dcall[t].disk \in DiskPlace /\ dcall[t].sec \in SecNo \cup {0}
    BY Fields, Zenon DEF DiskInv
  <2> QED
    BY <1>6, <2>1, <2>2, Zenon DEF CommandType
<1>8. /\ s \in CommandType /\ s.status = dev[c].status /\ s.op = dev[c].op /\ s.disk = dev[c].disk
      /\ s.sec = dev[c].sec /\ s.full = dev[c].full /\ s.buf = dev[c].buf
  BY <1>6, Zenon DEF CommandType
<1> HIDE DEF c, r, s, pc
<1>9. /\ dev' \in [Channel -> CommandType] /\ dev'[c] = (IF idle THEN r ELSE s)
      /\ \A e \in Channel : e # c => dev'[e] = dev[e]
  <2>1. dev \in [Channel -> CommandType] /\ (IF idle THEN r ELSE s) \in CommandType
    BY <1>7, <1>8, Zenon DEF DiskInv, DiskTyped
  <2> QED
    BY <1>3, <1>5, <2>1, Zenon
<1>10. /\ expecting_interrupt' \in [Channel -> BOOLEAN] /\ expecting_interrupt'[c] = TRUE
       /\ \A e \in Channel : e # c => expecting_interrupt'[e] = expecting_interrupt[e]
  BY <1>3, <1>5, Zenon DEF DiskInv, DiskTyped
<1>11. collided' \in BOOLEAN /\ (idle => ~collided') /\ (~collided' => idle)
  BY <1>5, Zenon
<1>12. DiskTyped'
  BY <1>2, <1>9, <1>10, <1>11, Zenon DEF Issue, DiskInv, DiskTyped
<1>13. Booted => Booted'
  BY <1>1, <1>2, BootedStays, Zenon DEF Issue
<1>14. ASSUME NEW u \in Caller PROVE CallOK(u)'
  <2>1. CASE u = t
    <3>1. CallOK(t) /\ chan_lock' = chan_lock /\ dcall[t].pc # "idle" /\ dcall[t].pc # "done"
      BY <1>1, Zenon DEF DiskInv, Issue
    <3>2. On(t)' = On(t)
      BY <1>2, Zenon DEF On
    <3> QED
      BY <1>1, <1>2, <1>4, <1>13, <2>1, <3>1, <3>2, Zenon DEF CallOK
  <2>2. CASE u # t
    BY <1>2, <1>13, <2>2, CallStays, Zenon DEF DiskInv, Issue
  <2> QED
    BY <2>1, <2>2, Zenon
<1>15. ASSUME ~collided', NEW u \in Caller PROVE CommandOK(u)'
  <2>1. CASE u = t
    <3>1. dev'[c] = r
      BY <1>9, <1>11, <1>15, Zenon
    <3>2. On(t)' = c
      BY <1>4, Zenon DEF c
    <3> QED
      BY <1>2, <1>7, <1>10, <2>1, <3>1, <3>2, Zenon DEF CommandOK
  <2>2. CASE u # t
    <3>1. dcall[u].pc \in {"poll", "down"} => On(u) # c /\ On(u) \in Channel
      BY <1>3, <2>2, Zenon DEF Using
    <3> QED
      BY <1>2, <1>9, <1>10, <2>2, <3>1, CommandStays, Zenon DEF DiskInv
  <2> QED
    BY <2>1, <2>2, Zenon
<1>16. ASSUME NEW e \in Channel PROVE DeviceOK(e)'
  <2>0. media' = media /\ DeviceOK(e)
    BY Zenon DEF Issue, DiskInv
  <2>1. CASE e # c
    BY <1>9, <2>0, <2>1, DeviceStays, Zenon
  <2>2. CASE e = c /\ ~idle
    BY <1>8, <1>9, <2>0, <2>2, DeviceStays, Zenon
  <2>3. CASE e = c /\ idle
    <3>1. dev'[c] = r /\ chan(dcall[t].disk) = c
      BY <1>9, <2>3, Zenon DEF c, On
    <3>2. dcall[t].op \in {"read", "write"} => dcall[t].sec \in SecNo
      BY <1>1, Zenon DEF DiskInv, CallOK
    <3> QED
      BY <1>3, <1>7, <2>3, <3>1, <3>2, Zenon DEF DeviceOK
  <2> QED
    BY <2>1, <2>2, <2>3, Zenon
<1>17. Handshake'
  <2>1. spurious = 0 => Quiet(c)
    BY <1>1, Zenon DEF DiskInv, Handshake, Exchange, c
  <2>2. completion_wait' = completion_wait /\ spurious' = spurious
    BY Zenon DEF Issue
  <2>3. spurious = 0 => ~collided'
    BY <1>11, <2>1, Zenon DEF Quiet
  <2>4. spurious = 0 => Exchange(t)'
    <3>1. ASSUME spurious = 0 PROVE dev'[c] = r /\ completion_wait'[c] = 0
      BY <1>9, <2>1, <2>2, <3>1, Zenon DEF Quiet, Silent
    <3>2. spurious = 0 => dev'[c].status = "busy" /\ dev'[c].full = FALSE
                            /\ dev'[c].intr = FALSE /\ completion_wait'[c] = 0
      BY <1>7, <3>1, Zenon
    <3>3. On(t)' = c /\ (dcall'[t].op = "write" => dcall'[t].pc = "poll") /\ (dcall'[t].op # "write" => dcall'[t].pc = "down")
      BY <1>2, <1>4, Zenon DEF c, pc
    <3> QED
      BY <3>2, <3>3, Zenon DEF Exchange, Silent
  <2>5. On(t) = c /\ On(t)' = c
    BY <1>4, Zenon DEF c
  <2> QED
    BY <1>2, <1>3, <1>4, <1>9, <2>2, <2>3, <2>4, <2>5, HandshakeOfUser, Zenon
<1> QED
  BY <1>12, <1>14, <1>15, <1>16, <1>17, Zenon DEF DiskInv

\* sema_down (&c->completion_wait): a read goes on to its data, a write returns.
LEMMA CompletionStep ==
  ASSUME DiskInv, ~collided, NEW t \in Caller, Completion(t)
  PROVE  DiskInv'
<1> DEFINE c == On(t)
<1>1. dcall[t].pc = "down" /\ Using(t) /\ completion_wait[c] > 0
  BY Zenon DEF Completion, Using, On
<1>2. /\ c \in Channel /\ dcall[t].disk \in DiskId
      /\ \A u \in Caller : u # t /\ Using(u) => On(u) # c /\ On(u) \in Channel
  BY <1>1, Alone, Zenon
<1>3. completion_wait' = [completion_wait EXCEPT ![c] = completion_wait[c] - 1]
  BY Zenon DEF Completion, On
<1>4. /\ dev' = dev /\ media' = media /\ expecting_interrupt' = expecting_interrupt
      /\ spurious' = spurious /\ collided' = collided /\ unnamed' = unnamed /\ is_ata' = is_ata
  BY Zenon DEF Completion
<1> HIDE DEF c
<1>5. /\ completion_wait' \in [Channel -> Nat] /\ completion_wait'[c] = completion_wait[c] - 1
      /\ \A e \in Channel : e # c => completion_wait'[e] = completion_wait[e]
  <2>1. completion_wait \in [Channel -> Nat] /\ completion_wait[c] \in Nat
    BY <1>2, Fields, Zenon DEF DiskInv, DiskTyped
  <2>2. completion_wait[c] - 1 \in Nat
    BY <1>1, <2>1 DEF c
  <2> QED
    BY <1>2, <1>3, <2>1, <2>2, Zenon
<1>6. \A e \in Channel : DeviceOK(e)'
  BY <1>4, Zenon DEF DiskInv, DeviceOK
<1>7. CASE dcall[t].op # "write" /\ Goto(t, "poll") /\ UNCHANGED chan_lock
  <2>1. /\ dcall' \in [Caller -> CallType]
        /\ \A u \in Caller : u # t => dcall'[u] = dcall[u]
        /\ dcall'[t].pc = "poll" /\ dcall'[t].op = dcall[t].op /\ dcall'[t].disk = dcall[t].disk
        /\ dcall'[t].sec = dcall[t].sec
    <3>1. "poll" \in Pc
      BY Zenon DEF Pc
    <3> QED
      BY <1>7, <3>1, Moves, Zenon DEF DiskInv
  <2>2. On(t)' = On(t) /\ Using(t)' /\ (Booted => Booted')
    BY <1>1, <1>4, <2>1, BootedStays, Zenon DEF On, Using
  <2>3. DiskTyped'
    BY <1>4, <1>5, <1>7, <2>1, Zenon DEF DiskInv, DiskTyped
  <2>4. ASSUME NEW u \in Caller PROVE CallOK(u)' /\ CommandOK(u)'
    <3>1. CASE u = t
      <4>1. CallOK(t) /\ CommandOK(t)
        BY Zenon DEF DiskInv
      <4>2. CallOK(t)'
        BY <1>1, <1>7, <2>1, <2>2, <4>1, Zenon DEF CallOK, Using
      <4>3. CommandOK(t)'
        BY <1>1, <1>4, <2>1, <2>2, <4>1, Zenon DEF CommandOK
      <4> QED
        BY <3>1, <4>2, <4>3, Zenon
    <3>2. CASE u # t
      <4>1. CallOK(u)'
        BY <1>7, <2>1, <2>2, <3>2, CallStays, Zenon DEF DiskInv
      <4>2. CommandOK(u)'
        BY <1>4, <2>1, <3>2, CommandStays, Zenon DEF DiskInv
      <4> QED
        BY <4>1, <4>2, Zenon
    <3> QED
      BY <3>1, <3>2, Zenon
  <2>5. Handshake'
    <3>1. ASSUME spurious = 0 PROVE dev[c].status # "busy" /\ ~dev[c].intr /\ completion_wait'[c] = 0
      <4>1. Exchange(t)
        BY <1>1, <3>1, Zenon DEF DiskInv, Handshake
      <4>2. completion_wait[c] # 0
        BY <1>1 DEF c
      <4>3. dev[c].status # "busy" /\ ~dev[c].intr /\ completion_wait[c] = 1
        BY <1>1, <1>7, <4>1, <4>2, Zenon DEF Exchange, Silent, Signalled, c
      <4> QED
        BY <1>5, <4>3
    <3>2. spurious = 0 => Exchange(t)'
      <4>1. On(t)' = c
        BY <2>2, Zenon DEF c
      <4> QED
        BY <1>4, <1>7, <2>1, <3>1, <4>1, Zenon DEF Exchange, Silent
    <3>3. On(t) = c /\ On(t)' = c
      BY <2>2, Zenon DEF c
    <3> QED
      BY <1>2, <1>4, <1>5, <2>1, <2>2, <3>2, <3>3, HandshakeOfUser, Zenon
  <2> QED
    BY <1>6, <2>3, <2>4, <2>5, Zenon DEF DiskInv
<1>8. CASE dcall[t].op = "write" /\ Finish(t, dcall[t].buf)
  <2>0. t # Booter
    BY <1>1, <1>8, Zenon DEF DiskInv, CallOK
  <2>1. /\ dcall' \in [Caller -> CallType]
        /\ \A u \in Caller : u # t => dcall'[u] = dcall[u]
        /\ dcall'[t].pc = "done"
        /\ chan_lock' \in [Channel -> Caller \cup {NoThread}]
        /\ \A e \in Channel : chan_lock[e] # t => chan_lock'[e] = chan_lock[e]
    <3>1. dcall[t].buf \in SectorData /\ On(t) \in Channel /\ DiskTyped
      BY <1>2, Fields, Zenon DEF DiskInv, c
    <3> QED
      BY <1>8, <2>0, <3>1, Returns, DiskAssumption, Zenon
  <2>2. ~Using(t)' /\ (Booted => Booted') /\ Booted
    <3>1. Booted
      BY <1>1, <2>0, Zenon DEF DiskInv, CallOK
    <3> QED
      BY <1>1, <1>4, <2>1, <3>1, BootedStays, Zenon DEF Using
  <2>3. DiskTyped'
    BY <1>4, <1>5, <2>1, Zenon DEF DiskInv, DiskTyped
  <2>4. ASSUME NEW u \in Caller PROVE CallOK(u)' /\ CommandOK(u)'
    <3>1. CASE u = t
      BY <2>0, <2>1, <2>2, <3>1, Zenon DEF CallOK, CommandOK
    <3>2. CASE u # t
      <4>1. u # Booter /\ Using(u) => chan_lock'[On(u)] = chan_lock[On(u)]
        BY <1>2, <2>1, <3>2, Zenon DEF DiskInv, CallOK
      <4>2. CallOK(u)'
        BY <2>1, <2>2, <3>2, <4>1, CallStays, Zenon DEF DiskInv
      <4>3. CommandOK(u)'
        BY <1>4, <2>1, <3>2, CommandStays, Zenon DEF DiskInv
      <4> QED
        BY <4>2, <4>3, Zenon
    <3> QED
      BY <3>1, <3>2, Zenon
  <2>5. Handshake'
    <3>1. ASSUME spurious = 0 PROVE dev'[c].status = "idle" /\ ~dev'[c].intr /\ completion_wait'[c] = 0
      <4>1. Exchange(t)
        BY <1>1, <3>1, Zenon DEF DiskInv, Handshake
      <4>2. completion_wait[c] # 0
        BY <1>1 DEF c
      <4>3. dev[c].status = "idle" /\ ~dev[c].intr /\ completion_wait[c] = 1
        BY <1>1, <1>8, <4>1, <4>2, Zenon DEF Exchange, Silent, Signalled, c
      <4> QED
        BY <1>4, <1>5, <4>3
    <3>2. PICK e \in Channel : e = c
      BY <1>2, Zenon
    <3>3. spurious = 0 => Quiet(e)'
      BY <3>1, <3>2, Zenon DEF Quiet, Silent
    <3>4. On(t) = e
      BY <3>2, Zenon DEF c
    <3> QED
      BY <1>2, <1>4, <1>5, <2>1, <2>2, <3>2, <3>3, <3>4, HandshakeOfUser, Zenon
  <2> QED
    BY <1>6, <2>3, <2>4, <2>5, Zenon DEF DiskInv
<1> QED
  BY <1>7, <1>8, Zenon DEF Completion

\* input_sector() and output_sector(): the data of the thread's own command.
LEMMA TransferStep ==
  ASSUME DiskInv, ~collided, NEW t \in Caller, Transfer(t)
  PROVE  DiskInv'
<1> DEFINE c == On(t)
<1>1. dcall[t].pc = "poll" /\ Using(t) /\ dev[c].status = "drq"
  BY Zenon DEF Transfer, Using, On
<1>2. /\ c \in Channel /\ dcall[t].disk \in DiskId
      /\ \A u \in Caller : u # t /\ Using(u) => On(u) # c /\ On(u) \in Channel
  BY <1>1, Alone, Zenon
<1>3. /\ completion_wait' = completion_wait /\ media' = media /\ expecting_interrupt' = expecting_interrupt
      /\ spurious' = spurious /\ collided' = collided /\ unnamed' = unnamed /\ is_ata' = is_ata
  BY Zenon DEF Transfer
<1>4. dev[c].op = dcall[t].op /\ CommandOK(t) /\ CallOK(t) /\ DeviceOK(c)
  BY <1>1, <1>2, Zenon DEF DiskInv, CommandOK
<1>5. dev[c] \in CommandType /\ dev \in [Channel -> CommandType] /\ dcall[t].buf \in SectorData
      /\ dev[c].buf \in SectorData /\ DiskTyped
  BY <1>2, Fields, Zenon DEF DiskInv, DiskTyped
<1>6. dev[c].full = FALSE
  <2>1. dev[c].full \in BOOLEAN /\ ~dev[c].full
    BY <1>1, <1>2, <1>4, <1>5, Fields, Zenon DEF DeviceOK
  <2> QED
    BY <2>1, Zenon
<1>7. CASE /\ dcall[t].op = "write"
           /\ dev' = [dev EXCEPT ![c].status = "busy", ![c].buf = dcall[t].buf, ![c].full = TRUE]
           /\ Goto(t, "down")
           /\ UNCHANGED chan_lock
  <2> DEFINE r == [dev[c] EXCEPT !.status = "busy", !.buf = dcall[t].buf, !.full = TRUE]
  <2>1. /\ r \in CommandType /\ r.status = "busy" /\ r.buf = dcall[t].buf /\ r.full = TRUE
        /\ r.op = dev[c].op /\ r.disk = dev[c].disk /\ r.sec = dev[c].sec /\ r.intr = dev[c].intr
    BY <1>5, Zenon DEF CommandType
  <2>2. dev' = [dev EXCEPT ![c] = r]
    <3>1. dev' = [dev EXCEPT ![c].status = "busy", ![c].buf = dcall[t].buf, ![c].full = TRUE]
      BY <1>7, Zenon
    <3> QED
      BY <1>2, <1>5, <3>1, Zenon
  <2> HIDE DEF c, r
  <2>3. /\ dev' \in [Channel -> CommandType] /\ dev'[c] = r
        /\ \A e \in Channel : e # c => dev'[e] = dev[e]
    BY <1>2, <1>5, <2>1, <2>2, Zenon
  <2>4. /\ dcall' \in [Caller -> CallType]
        /\ \A u \in Caller : u # t => dcall'[u] = dcall[u]
        /\ dcall'[t].pc = "down" /\ dcall'[t].op = dcall[t].op /\ dcall'[t].disk = dcall[t].disk
        /\ dcall'[t].sec = dcall[t].sec
    <3>1. "down" \in Pc
      BY Zenon DEF Pc
    <3> QED
      BY <1>5, <1>7, <3>1, Moves, Zenon
  <2>5. On(t)' = On(t) /\ Using(t)' /\ (Booted => Booted')
    BY <1>1, <1>3, <2>4, BootedStays, Zenon DEF On, Using
  <2>6. DiskTyped'
    BY <1>3, <1>7, <2>3, <2>4, Zenon DEF DiskInv, DiskTyped
  <2>7. ASSUME NEW u \in Caller PROVE CallOK(u)' /\ CommandOK(u)'
    <3>1. CASE u = t
      <4>1. CallOK(t)'
        BY <1>1, <1>4, <1>7, <2>4, <2>5, Zenon DEF CallOK, Using
      <4>2. CommandOK(t)'
        <5>1. On(t) = c /\ On(t)' = c
          BY <2>5, Zenon DEF c
        <5>2. /\ dev[c].op = dcall[t].op /\ dev[c].disk = dcall[t].disk /\ dev[c].sec = dcall[t].sec
              /\ expecting_interrupt[c]
          BY <1>1, <1>4, <5>1, Zenon DEF CommandOK
        <5>3. /\ dev'[c].op = dcall'[t].op /\ dev'[c].disk = dcall'[t].disk /\ dev'[c].sec = dcall'[t].sec
              /\ expecting_interrupt'[c]
          <6>1. dev'[c].op = dev[c].op /\ dev'[c].disk = dev[c].disk /\ dev'[c].sec = dev[c].sec
            BY <2>1, <2>3, Zenon
          <6>2. dcall'[t].op = dcall[t].op /\ dcall'[t].disk = dcall[t].disk /\ dcall'[t].sec = dcall[t].sec
            BY <2>4, Zenon
          <6>3. expecting_interrupt'[c]
            BY <1>3, <5>2, Zenon
          <6> QED
            BY <5>2, <6>1, <6>2, <6>3, Zenon
        <5> QED
          BY <5>1, <5>3, Zenon DEF CommandOK
      <4> QED
        BY <3>1, <4>1, <4>2, Zenon
    <3>2. CASE u # t
      <4>1. CallOK(u)'
        BY <1>7, <2>4, <2>5, <3>2, CallStays, Zenon DEF DiskInv
      <4>2. dcall[u].pc \in {"poll", "down"} => On(u) # c /\ On(u) \in Channel
        BY <1>2, <3>2, Zenon DEF Using
      <4>3. CommandOK(u)'
        BY <1>3, <2>3, <2>4, <3>2, <4>2, CommandStays, Zenon DEF DiskInv
      <4> QED
        BY <4>1, <4>3, Zenon
    <3> QED
      BY <3>1, <3>2, Zenon
  <2>8. ASSUME NEW e \in Channel PROVE DeviceOK(e)'
    <3>1. CASE e = c
      BY <1>1, <1>4, <1>7, <2>1, <2>3, <3>1, Zenon DEF DeviceOK, c
    <3>2. CASE e # c
      BY <1>3, <2>3, <3>2, DeviceStays, Zenon DEF DiskInv
    <3> QED
      BY <3>1, <3>2, Zenon
  <2>9. Handshake'
    <3>1. spurious = 0 => ~dev[c].intr /\ completion_wait[c] = 0
      BY <1>1, <1>7, Zenon DEF DiskInv, Handshake, Exchange, Silent, c
    <3>2. On(t) = c /\ On(t)' = c
      BY <2>5, Zenon DEF c
    <3>3. spurious = 0 => Exchange(t)'
      BY <1>3, <1>7, <2>1, <2>3, <2>4, <3>1, <3>2, Zenon DEF Exchange, Silent
    <3> QED
      BY <1>2, <1>3, <2>3, <2>4, <2>5, <3>2, <3>3, HandshakeOfUser, Zenon
  <2> QED
    BY <2>6, <2>7, <2>8, <2>9, Zenon DEF DiskInv
<1>8. CASE /\ dcall[t].op # "write"
           /\ dev' = [dev EXCEPT ![c].status = "idle"]
           /\ Finish(t, dev[c].buf)
  <2> DEFINE r == [dev[c] EXCEPT !.status = "idle"]
  <2>1. /\ r \in CommandType /\ r.status = "idle" /\ r.full = dev[c].full
        /\ r.op = dev[c].op /\ r.disk = dev[c].disk /\ r.sec = dev[c].sec /\ r.intr = dev[c].intr
    BY <1>5 DEF CommandType
  <2>2. dev' = [dev EXCEPT ![c] = r]
    BY <1>8, Zenon
  <2>3. /\ dcall' \in [Caller -> CallType]
        /\ \A u \in Caller : u # t => dcall'[u] = dcall[u]
        /\ dcall'[t].pc = (IF t = Booter THEN "idle" ELSE "done")
        /\ chan_lock' \in [Channel -> Caller \cup {NoThread}]
        /\ \A e \in Channel : chan_lock[e] # t => chan_lock'[e] = chan_lock[e]
    BY <1>2, <1>5, <1>8, Returns, DiskAssumption, Zenon
  <2> HIDE DEF c, r
  <2>4. /\ dev' \in [Channel -> CommandType] /\ dev'[c] = r
        /\ \A e \in Channel : e # c => dev'[e] = dev[e]
    BY <1>2, <1>5, <2>1, <2>2, Zenon
  <2>5. ~Using(t)' /\ (Booted => Booted') /\ (t # Booter => Booted)
    <3>1. t # Booter => Booted
      BY <1>1, <1>4, Zenon DEF CallOK
    <3> QED
      BY <1>1, <1>3, <2>3, <3>1, BootedStays, Zenon DEF Using
  <2>6. DiskTyped'
    BY <1>3, <2>3, <2>4, Zenon DEF DiskInv, DiskTyped
  <2>7. ASSUME NEW u \in Caller PROVE CallOK(u)' /\ CommandOK(u)'
    <3>1. CASE u = t
      BY <2>3, <2>5, <3>1, Zenon DEF CallOK, CommandOK
    <3>2. CASE u # t
      <4>1. u # Booter /\ Using(u) => chan_lock'[On(u)] = chan_lock[On(u)]
        BY <1>2, <2>3, <3>2, Zenon DEF DiskInv, CallOK
      <4>2. CallOK(u)'
        BY <2>3, <2>5, <3>2, <4>1, CallStays, Zenon DEF DiskInv
      <4>3. dcall[u].pc \in {"poll", "down"} => On(u) # c /\ On(u) \in Channel
        BY <1>2, <3>2, Zenon DEF Using
      <4>4. CommandOK(u)'
        BY <1>3, <2>3, <2>4, <3>2, <4>3, CommandStays, Zenon DEF DiskInv
      <4> QED
        BY <4>2, <4>4, Zenon
    <3> QED
      BY <3>1, <3>2, Zenon
  <2>8. ASSUME NEW e \in Channel PROVE DeviceOK(e)'
    <3>1. CASE e = c
      <4>1. dev'[c].status = "idle" /\ dev'[c].full = FALSE
        BY <1>6, <2>1, <2>4, Zenon
      <4> QED
        BY <3>1, <4>1, Zenon DEF DeviceOK
    <3>2. CASE e # c
      BY <1>3, <2>4, <3>2, DeviceStays, Zenon DEF DiskInv
    <3> QED
      BY <3>1, <3>2, Zenon
  <2>9. Handshake'
    <3>1. spurious = 0 => ~dev[c].intr /\ completion_wait[c] = 0
      BY <1>1, <1>8, Zenon DEF DiskInv, Handshake, Exchange, Silent, c
    <3>2. PICK e \in Channel : e = c
      BY <1>2, Zenon
    <3>3. spurious = 0 => ~dev'[c].intr
      BY <2>1, <2>4, <3>1
    <3>4. spurious = 0 => Quiet(e)'
      BY <1>3, <2>1, <2>4, <3>1, <3>2, <3>3, Zenon DEF Quiet, Silent
    <3>5. On(t) = e
      BY <3>2, Zenon DEF c
    <3> QED
      BY <1>2, <1>3, <2>3, <2>4, <2>5, <3>2, <3>4, <3>5, HandshakeOfUser, Zenon
  <2> QED
    BY <2>6, <2>7, <2>8, <2>9, Zenon DEF DiskInv
<1> QED
  BY <1>7, <1>8, Zenon DEF Transfer, On

\* No data: disk_init() takes the device for something else, or the kernel panics.
LEMMA TransferFailsStep ==
  ASSUME DiskInv, ~collided, NEW t \in Caller, TransferFails(t)
  PROVE  DiskInv'
<1>1. dcall[t].pc = "poll" /\ Using(t) /\ dev[On(t)].status # "drq"
  BY Zenon DEF TransferFails, Using, On
<1>2. /\ On(t) \in Channel
      /\ \A u \in Caller : u # t /\ Using(u) => On(u) # On(t) /\ On(u) \in Channel
  BY <1>1, Alone, Zenon
<1>3. /\ dev' = dev /\ completion_wait' = completion_wait /\ media' = media
      /\ expecting_interrupt' = expecting_interrupt /\ chan_lock' = chan_lock
      /\ spurious' = spurious /\ collided' = collided /\ unnamed' = unnamed
  BY Zenon DEF TransferFails
<1>4. CASE /\ t = Booter
           /\ is_ata' = is_ata \ {dcall[t].disk}
           /\ dcall' = [dcall EXCEPT ![t] = NoDiskCall]
  <2>1. NoDiskCall \in CallType /\ NoDiskCall.pc = "idle"
    BY DiskAssumption DEF NoDiskCall, CallType, Pc, Op, DiskPlace
  <2>2. /\ dcall' \in [Caller -> CallType] /\ dcall'[t].pc = "idle"
        /\ \A u \in Caller : u # t => dcall'[u] = dcall[u]
    BY <1>4, <2>1, Zenon DEF DiskInv, DiskTyped
  <2>3. ~Using(t)' /\ (Booted => Booted')
    BY <1>1, <1>3, <2>2, BootedStays, Zenon DEF Using
  <2>4. DiskTyped'
    <3>1. is_ata' \subseteq DiskId
      BY <1>4, Zenon DEF DiskInv, DiskTyped
    <3> QED
      BY <1>3, <2>2, <3>1, Zenon DEF DiskInv, DiskTyped
  <2>5. ASSUME NEW u \in Caller PROVE CallOK(u)' /\ CommandOK(u)'
    <3>1. CASE u = t
      BY <1>4, <2>2, <3>1, Zenon DEF CallOK, CommandOK
    <3>2. CASE u # t
      <4>1. CallOK(u)'
        BY <1>3, <2>2, <2>3, <3>2, CallStays, Zenon DEF DiskInv
      <4>2. CommandOK(u)'
        BY <1>3, <2>2, <3>2, CommandStays, Zenon DEF DiskInv
      <4> QED
        BY <4>1, <4>2, Zenon
    <3> QED
      BY <3>1, <3>2, Zenon
  <2>6. \A c \in Channel : DeviceOK(c)'
    BY <1>3, Zenon DEF DiskInv, DeviceOK
  <2>7. Handshake'
    <3>1. dcall[t].op # "write"
      BY <1>1, <1>4, Zenon DEF DiskInv, CallOK
    <3>2. dev[On(t)].status \in {"idle", "busy", "drq"}
      BY <1>2, Fields, Zenon DEF DiskInv
    <3>3. PICK e \in Channel : e = On(t)
      BY <1>2, Zenon
    <3>4. spurious = 0 => dev[e].status = "idle" /\ ~dev[e].intr /\ completion_wait[e] = 0
      BY <1>1, <3>1, <3>2, <3>3, Zenon DEF DiskInv, Handshake, Exchange, Silent
    <3>5. spurious = 0 => Quiet(e)'
      BY <1>3, <3>4, Zenon DEF Quiet, Silent
    <3> QED
      BY <1>2, <1>3, <2>2, <2>3, <3>3, <3>5, HandshakeOfUser, Zenon DEF DiskInv
  <2> QED
    BY <1>3, <2>4, <2>5, <2>6, <2>7, Zenon DEF DiskInv
<1>5. CASE UNCHANGED <<is_ata, dcall>>
  <2>1. DiskTyped'
    BY <1>3, <1>5, Zenon DEF DiskInv, DiskTyped
  <2>2. \A u \in Caller : CallOK(u)'
    BY <1>3, <1>5, Zenon DEF DiskInv, CallOK, Booted, Using, On
  <2>3. \A u \in Caller : CommandOK(u)'
    BY <1>3, <1>5, Zenon DEF DiskInv, CommandOK, On
  <2>4. \A c \in Channel : DeviceOK(c)'
    BY <1>3, Zenon DEF DiskInv, DeviceOK
  <2>5. Handshake'
    <3>1. \A u \in Caller : (Using(u)' <=> Using(u)) /\ On(u)' = On(u)
      BY <1>5, Zenon DEF Using, On
    <3>2. \A u \in Caller : Exchange(u) => Exchange(u)'
      BY <1>3, <1>5, ExchangeStays, Zenon
    <3>3. \A c \in Channel : Quiet(c) => Quiet(c)'
      BY <1>3, Zenon DEF Quiet, Silent
    <3> QED
      BY <1>3, <3>1, <3>2, <3>3, Zenon DEF DiskInv, Handshake
  <2> QED
    BY <2>1, <2>2, <2>3, <2>4, <2>5, Zenon DEF DiskInv
<1> QED
  BY <1>4, <1>5, Zenon DEF TransferFails

\* What the step of a device or of the interrupt handler has to keep.
LEMMA DeviceSide ==
  ASSUME DiskInv, ~collided, NEW c \in Channel,
         UNCHANGED <<is_ata, unnamed, dcall, chan_lock, expecting_interrupt, collided>>,
         dev' \in [Channel -> CommandType], completion_wait' \in [Channel -> Nat],
         media' \in [DiskId \X SecNo -> SectorData], spurious' \in Nat,
         \A e \in Channel : dev'[e].op = dev[e].op /\ dev'[e].disk = dev[e].disk /\ dev'[e].sec = dev[e].sec,
         \A e \in Channel : DeviceOK(e)',
         Handshake'
  PROVE  DiskInv'
<1>1. DiskTyped'
  BY Zenon DEF DiskInv, DiskTyped
<1>2. \A u \in Caller : CallOK(u)'
  BY Zenon DEF DiskInv, CallOK, Booted, Using, On
<1>3. ASSUME NEW u \in Caller PROVE CommandOK(u)'
  <2>1. CASE dcall[u].pc \in {"poll", "down"}
    <3>1. On(u) \in Channel
      BY <2>1, Alone, Zenon DEF Using
    <3> QED
      BY <3>1, CommandStays, Zenon DEF DiskInv
  <2>2. CASE ~(dcall[u].pc \in {"poll", "down"})
    BY <2>2, Zenon DEF CommandOK
  <2> QED
    BY <2>1, <2>2, Zenon
<1> QED
  BY <1>1, <1>2, <1>3, Zenon DEF DiskInv

\* interrupt_handler(): nothing but the interrupt line and the semaphore change.
LEMMA HandlerFacts ==
  ASSUME DiskInv, NEW c \in Channel, interrupt_handler(c)
  PROVE  /\ dev' \in [Channel -> CommandType] /\ completion_wait' \in [Channel -> Nat]
         /\ \A e \in Channel : /\ dev'[e].op = dev[e].op /\ dev'[e].disk = dev[e].disk /\ dev'[e].sec = dev[e].sec
                               /\ dev'[e].status = dev[e].status /\ dev'[e].full = dev[e].full
                               /\ dev'[e].buf = dev[e].buf
         /\ \A e \in Channel : e # c => dev'[e] = dev[e] /\ completion_wait'[e] = completion_wait[e]
         /\ dev'[c].intr = FALSE
         /\ expecting_interrupt[c] => completion_wait'[c] = completion_wait[c] + 1
<1> DEFINE r == [dev[c] EXCEPT !.intr = FALSE]
           n == IF expecting_interrupt[c] THEN completion_wait[c] + 1 ELSE completion_wait[c]
<1>1. /\ dev \in [Channel -> CommandType] /\ completion_wait \in [Channel -> Nat]
      /\ dev[c] \in CommandType /\ completion_wait[c] \in Nat
  BY Fields, Zenon DEF DiskInv, DiskTyped
<1>2. dev' = [dev EXCEPT ![c] = r] /\ completion_wait' = [completion_wait EXCEPT ![c] = n]
  BY Zenon DEF interrupt_handler
<1>3. /\ r \in CommandType /\ r.status = dev[c].status /\ r.op = dev[c].op /\ r.disk = dev[c].disk
      /\ r.sec = dev[c].sec /\ r.full = dev[c].full /\ r.buf = dev[c].buf /\ r.intr = FALSE
  BY <1>1, Zenon DEF CommandType
<1>4. n \in Nat /\ (expecting_interrupt[c] => n = completion_wait[c] + 1)
  BY <1>1
<1> HIDE DEF r, n
<1>5. /\ dev' \in [Channel -> CommandType] /\ completion_wait' \in [Channel -> Nat]
      /\ dev'[c] = r /\ completion_wait'[c] = n
      /\ \A e \in Channel : e # c => dev'[e] = dev[e] /\ completion_wait'[e] = completion_wait[e]
  BY <1>1, <1>2, <1>3, <1>4, Zenon
<1>6. ASSUME NEW e \in Channel
      PROVE  /\ dev'[e].op = dev[e].op /\ dev'[e].disk = dev[e].disk /\ dev'[e].sec = dev[e].sec
             /\ dev'[e].status = dev[e].status /\ dev'[e].full = dev[e].full /\ dev'[e].buf = dev[e].buf
  BY <1>3, <1>5, Zenon
<1> QED
  BY <1>3, <1>4, <1>5, <1>6, Zenon

\* The interrupt of a command wakes the thread that gave it.
LEMMA InterruptStep ==
  ASSUME DiskInv, ~collided, NEW c \in Channel, Interrupt(c)
  PROVE  DiskInv'
<1>1. interrupt_handler(c) /\ dev[c].intr
      /\ UNCHANGED <<is_ata, unnamed, dcall, chan_lock, expecting_interrupt, media, spurious, collided>>
  BY Zenon DEF Interrupt
<1>2. /\ dev' \in [Channel -> CommandType] /\ completion_wait' \in [Channel -> Nat]
      /\ \A e \in Channel : /\ dev'[e].op = dev[e].op /\ dev'[e].disk = dev[e].disk /\ dev'[e].sec = dev[e].sec
                            /\ dev'[e].status = dev[e].status /\ dev'[e].full = dev[e].full
                            /\ dev'[e].buf = dev[e].buf
      /\ \A e \in Channel : e # c => dev'[e] = dev[e] /\ completion_wait'[e] = completion_wait[e]
      /\ dev'[c].intr = FALSE
      /\ expecting_interrupt[c] => completion_wait'[c] = completion_wait[c] + 1
  BY <1>1, HandlerFacts, Zenon
<1>3. \A e \in Channel : DeviceOK(e)'
  BY <1>1, <1>2, DeviceStays, Zenon DEF DiskInv
<1>4. ASSUME NEW u \in Caller, Using(u), On(u) = c, Exchange(u) PROVE Exchange(u)'
  <2>1. On(u)' = c /\ dcall'[u] = dcall[u]
    BY <1>1, <1>4, Zenon DEF On
  <2>2. dcall[u].pc # "select" /\ completion_wait[c] = 0
    BY <1>1, <1>4, Zenon DEF Exchange, Quiet, Silent, Signalled, Using
  <2>3. dcall[u].pc \in {"poll", "down"}
    BY <1>4, <2>2, Zenon DEF Using
  <2>4. expecting_interrupt[c]
    BY <1>4, <2>3, Zenon DEF DiskInv, CommandOK
  <2>5. completion_wait'[c] = 1 /\ ~dev'[c].intr
    BY <1>2, <2>2, <2>4
  <2>6. dev'[c].full => dev[c].full
    BY <1>2, Zenon
  <2>7. Signalled(c)'
    BY <2>5, Zenon DEF Signalled
  <2>8. /\ ~(dcall[u].pc = "poll" /\ dcall[u].op # "write")
        /\ dcall[u].pc = "down" /\ dcall[u].op # "write" => ~dev[c].full /\ dev[c].status # "busy"
        /\ dcall[u].pc = "poll" /\ dcall[u].op = "write" => ~dev[c].full /\ dev[c].status = "idle"
        /\ dcall[u].pc = "down" /\ dcall[u].op = "write" => dev[c].status = "idle"
    BY <1>1, <1>4, Zenon DEF Exchange, Silent
  <2>9. dev'[c].status = dev[c].status
    BY <1>2, Zenon
  <2> QED
    BY <2>1, <2>2, <2>5, <2>6, <2>8, <2>9, Zenon DEF Exchange, Signalled
<1>5. ~Quiet(c) /\ \A u \in Caller : Using(u) => On(u) \in Channel
  BY <1>1, Alone, Zenon DEF Quiet, Silent
<1>6. Handshake'
  BY <1>1, <1>2, <1>4, <1>5, HandshakeOfDevice, Zenon
<1>7. media' \in [DiskId \X SecNo -> SectorData] /\ spurious' \in Nat
  BY <1>1, Zenon DEF DiskInv, DiskTyped
<1> QED
  BY <1>1, <1>2, <1>3, <1>6, <1>7, DeviceSide, Zenon

\* An interrupt that comes uncalled: the handshake is not promised after it.
LEMMA SpuriousStep ==
  ASSUME DiskInv, ~collided, NEW c \in Channel, Spurious(c)
  PROVE  DiskInv'
<1>1. interrupt_handler(c) /\ spurious' = spurious + 1
      /\ UNCHANGED <<is_ata, unnamed, dcall, chan_lock, expecting_interrupt, media, collided>>
  BY Zenon DEF Spurious
<1>2. /\ dev' \in [Channel -> CommandType] /\ completion_wait' \in [Channel -> Nat]
      /\ \A e \in Channel : /\ dev'[e].op = dev[e].op /\ dev'[e].disk = dev[e].disk /\ dev'[e].sec = dev[e].sec
                            /\ dev'[e].status = dev[e].status /\ dev'[e].full = dev[e].full
                            /\ dev'[e].buf = dev[e].buf
  BY <1>1, HandlerFacts, Zenon
<1>3. \A e \in Channel : DeviceOK(e)'
  BY <1>1, <1>2, DeviceStays, Zenon DEF DiskInv
<1>4. spurious \in Nat /\ media' \in [DiskId \X SecNo -> SectorData]
  BY <1>1, Zenon DEF DiskInv, DiskTyped
<1>5. spurious' \in Nat /\ spurious' # 0
  BY <1>1, <1>4
<1>6. Handshake'
  BY <1>5, Zenon DEF Handshake
<1> QED
  BY <1>1, <1>2, <1>3, <1>4, <1>5, <1>6, DeviceSide, Zenon

\* The device has a read's data ready, wants a write's, or has written it.
LEMMA DeviceWorks ==
  ASSUME DiskInv, ~collided, NEW c \in Channel, DeviceStep(c)
  PROVE  DiskInv'
<1> DEFINE at == <<dev[c].disk, dev[c].sec>>
           data == IF dev[c].op = "read" THEN media[at] ELSE dev[c].buf
           intr == (dev[c].op # "write" \/ dev[c].full)
           status == IF dev[c].full THEN "idle" ELSE "drq"
           r == [dev[c] EXCEPT !.status = status, !.buf = data, !.full = FALSE, !.intr = intr]
<1>1. /\ dev[c].status = "busy" /\ dev' = [dev EXCEPT ![c] = r]
      /\ media' = IF dev[c].full THEN [media EXCEPT ![at] = dev[c].buf] ELSE media
      /\ UNCHANGED <<is_ata, unnamed, dcall, chan_lock, expecting_interrupt, completion_wait, spurious, collided>>
  <2>1. dev' = [dev EXCEPT ![c] = r]
    BY DEF DeviceStep
  <2>2. media' = IF dev[c].full THEN [media EXCEPT ![at] = dev[c].buf] ELSE media
    BY Zenon DEF DeviceStep
  <2> QED
    BY <2>1, <2>2, Zenon DEF DeviceStep
<1>2. /\ dev \in [Channel -> CommandType] /\ dev[c] \in CommandType /\ dev[c].buf \in SectorData
      /\ media \in [DiskId \X SecNo -> SectorData] /\ spurious \in Nat /\ completion_wait \in [Channel -> Nat]
      /\ dev[c].full \in BOOLEAN
  BY Fields, Zenon DEF DiskInv, DiskTyped
<1>3. DeviceOK(c) /\ dev[c].disk \in DiskId /\ chan(dev[c].disk) = c
  BY <1>1, Zenon DEF DiskInv, DeviceOK
<1>4. dev[c].op = "read" => at \in DiskId \X SecNo
  BY <1>1, <1>3, Zenon DEF DeviceOK
<1>5. data \in SectorData /\ intr \in BOOLEAN /\ status \in {"idle", "busy", "drq"}
  BY <1>2, <1>4, Zenon
<1> HIDE DEF at, data, intr, status
<1>6. /\ r \in CommandType /\ r.status = status /\ r.buf = data /\ r.full = FALSE /\ r.intr = intr
      /\ r.op = dev[c].op /\ r.disk = dev[c].disk /\ r.sec = dev[c].sec
  BY <1>2, <1>5, Zenon DEF CommandType
<1> HIDE DEF r
<1>7. /\ dev' \in [Channel -> CommandType] /\ dev'[c] = r
      /\ \A e \in Channel : e # c => dev'[e] = dev[e]
  BY <1>1, <1>2, <1>6, Zenon
<1>8. media' \in [DiskId \X SecNo -> SectorData] /\ \A x \in DiskId \X SecNo : x # at => media'[x] = media[x]
  <2>1. CASE dev[c].full
    BY <1>1, <1>2, <2>1, Zenon
  <2>2. CASE ~dev[c].full
    BY <1>1, <1>2, <2>2, Zenon
  <2> QED
    BY <2>1, <2>2, Zenon
<1>9. ASSUME NEW e \in Channel PROVE DeviceOK(e)'
  <2>1. CASE e = c /\ dev[c].full
    <3>1. dev'[e].status = "idle" /\ dev'[e].full = FALSE
      BY <1>6, <1>7, <2>1, Zenon DEF status
    <3> QED
      BY <3>1, Zenon DEF DeviceOK
  <2>2. CASE e = c /\ ~dev[c].full
    <3>1. /\ dev'[e].status = "drq" /\ dev'[e].full = FALSE /\ dev'[e].disk = dev[c].disk
          /\ dev'[e].sec = dev[c].sec /\ dev'[e].op = dev[c].op /\ dev'[e].buf = data
      BY <1>6, <1>7, <2>2, Zenon DEF status
    <3>2. media' = media
      BY <1>1, <2>2, Zenon
    <3> QED
      BY <1>1, <1>3, <2>2, <3>1, <3>2, Zenon DEF DeviceOK, data, at
  <2>3. CASE e # c
    <3>1. DeviceOK(e) /\ dev'[e] = dev[e]
      BY <1>7, <2>3, Zenon DEF DiskInv
    <3>2. CASE dev[e].status = "drq" /\ dev[e].op = "read"
      <4>1. <<dev[e].disk, dev[e].sec>> \in DiskId \X SecNo /\ chan(dev[e].disk) = e
        BY <3>1, <3>2, Zenon DEF DeviceOK
      <4>2. <<dev[e].disk, dev[e].sec>> # at
        <5>1. dev[e].disk # dev[c].disk
          BY <1>3, <2>3, <4>1, Zenon
        <5> QED
          BY <5>1, Zenon DEF at
      <4>3. media'[<<dev[e].disk, dev[e].sec>>] = media[<<dev[e].disk, dev[e].sec>>]
        BY <1>8, <4>1, <4>2, Zenon
      <4> QED
        BY <3>1, <4>3, Zenon DEF DeviceOK
    <3>3. CASE ~(dev[e].status = "drq" /\ dev[e].op = "read")
      BY <3>1, <3>3, Zenon DEF DeviceOK
    <3> QED
      BY <3>2, <3>3, Zenon
  <2> QED
    BY <2>1, <2>2, <2>3, Zenon
<1>10. ASSUME NEW u \in Caller, Using(u), On(u) = c, Exchange(u) PROVE Exchange(u)'
  <2>1. On(u)' = c /\ dcall'[u] = dcall[u] /\ completion_wait'[c] = completion_wait[c]
    BY <1>1, <1>10, Zenon DEF On
  <2>2. /\ dcall[u].pc \in {"poll", "down"}
        /\ ~(dcall[u].pc = "poll" /\ dcall[u].op # "write")
        /\ completion_wait[c] = 0
        /\ dcall[u].pc = "down" /\ dcall[u].op = "write" => dev[c].full
        /\ ~(dcall[u].pc = "down" /\ dcall[u].op = "write") => ~dev[c].full
    BY <1>1, <1>10, Zenon DEF Exchange, Quiet, Silent, Using
  <2>3. dev[c].op = dcall[u].op
    BY <1>10, <2>2, Zenon DEF DiskInv, CommandOK
  <2>4. CASE dev[c].full
    <3>1. dev'[c].status = "idle" /\ dev'[c].intr
      BY <1>6, <1>7, <2>4, Zenon DEF status, intr
    <3> QED
      BY <2>1, <2>2, <2>4, <3>1, Zenon DEF Exchange, Signalled
  <2>5. CASE ~dev[c].full
    <3>1. dev'[c].status = "drq" /\ dev'[c].full = FALSE /\ (dev'[c].intr <=> dev[c].op # "write")
      BY <1>6, <1>7, <2>5, Zenon DEF status, intr
    <3> QED
      BY <2>1, <2>2, <2>3, <2>5, <3>1, Zenon DEF Exchange, Signalled, Silent
  <2> QED
    BY <2>4, <2>5, Zenon
<1>11. ~Quiet(c) /\ \A u \in Caller : Using(u) => On(u) \in Channel
  BY <1>1, Alone, Zenon DEF Quiet
<1>12. Handshake'
  BY <1>1, <1>7, <1>10, <1>11, HandshakeOfDevice, Zenon
<1>13. \A e \in Channel : dev'[e].op = dev[e].op /\ dev'[e].disk = dev[e].disk /\ dev'[e].sec = dev[e].sec
  BY <1>6, <1>7, Zenon
<1> QED
  BY <1>1, <1>2, <1>7, <1>8, <1>9, <1>12, <1>13, DeviceSide, Zenon

\* The device gives a command up before any data is moved.
LEMMA DeviceFailsStep ==
  ASSUME DiskInv, ~collided, NEW c \in Channel, DeviceFails(c)
  PROVE  DiskInv'
<1> DEFINE r == [dev[c] EXCEPT !.status = "idle", !.intr = TRUE]
<1>1. /\ dev[c].status = "busy" /\ ~dev[c].full
      /\ dev' = [dev EXCEPT ![c].status = "idle", ![c].intr = TRUE]
      /\ UNCHANGED <<is_ata, unnamed, dcall, chan_lock, expecting_interrupt, completion_wait, media, spurious, collided>>
  BY Zenon DEF DeviceFails
<1>2. /\ dev \in [Channel -> CommandType] /\ dev[c] \in CommandType /\ dev[c].full \in BOOLEAN
      /\ media \in [DiskId \X SecNo -> SectorData] /\ spurious \in Nat /\ completion_wait \in [Channel -> Nat]
  BY Fields, Zenon DEF DiskInv, DiskTyped
<1>3. /\ r \in CommandType /\ r.status = "idle" /\ r.intr = TRUE /\ r.full = dev[c].full
      /\ r.op = dev[c].op /\ r.disk = dev[c].disk /\ r.sec = dev[c].sec
  BY <1>2, Zenon DEF CommandType
<1>4. dev' = [dev EXCEPT ![c] = r]
  BY <1>1, <1>2, Zenon
<1> HIDE DEF r
<1>5. /\ dev' \in [Channel -> CommandType] /\ dev'[c] = r
      /\ \A e \in Channel : e # c => dev'[e] = dev[e]
  BY <1>2, <1>3, <1>4, Zenon
<1>6. dev[c].full = FALSE
  BY <1>1, <1>2, Zenon
<1>7. dev'[c].status = "idle" /\ dev'[c].full = FALSE /\ dev'[c].intr
  BY <1>3, <1>5, <1>6, Zenon
<1>8. ASSUME NEW e \in Channel PROVE DeviceOK(e)'
  <2>1. CASE e = c
    BY <1>7, <2>1, Zenon DEF DeviceOK
  <2>2. CASE e # c
    BY <1>1, <1>5, <2>2, DeviceStays, Zenon DEF DiskInv
  <2> QED
    BY <2>1, <2>2, Zenon
<1>9. ASSUME NEW u \in Caller, Using(u), On(u) = c, Exchange(u) PROVE Exchange(u)'
  <2>1. On(u)' = c /\ dcall'[u] = dcall[u] /\ completion_wait'[c] = completion_wait[c]
    BY <1>1, <1>9, Zenon DEF On
  <2>2. /\ dcall[u].pc # "select"
        /\ ~(dcall[u].pc = "poll" /\ dcall[u].op # "write")
        /\ completion_wait[c] = 0
        /\ ~(dcall[u].pc = "down" /\ dcall[u].op = "write")
    BY <1>1, <1>9, Zenon DEF Exchange, Quiet, Silent, Using
  <2> QED
    BY <1>7, <2>1, <2>2, Zenon DEF Exchange, Signalled
<1>10. ~Quiet(c) /\ \A u \in Caller : Using(u) => On(u) \in Channel
  BY <1>1, Alone, Zenon DEF Quiet
<1>11. Handshake'
  BY <1>1, <1>5, <1>9, <1>10, HandshakeOfDevice, Zenon
<1>12. \A e \in Channel : dev'[e].op = dev[e].op /\ dev'[e].disk = dev[e].disk /\ dev'[e].sec = dev[e].sec
  BY <1>3, <1>5, Zenon
<1> QED
  BY <1>1, <1>2, <1>5, <1>8, <1>11, <1>12, DeviceSide, Zenon

\* A behaviour of the console or of the files leaves the driver alone.
LEMMA DiskUntouched ==
  ASSUME DiskInv, UNCHANGED diskVars
  PROVE  DiskInv'
<1>1. DiskTyped'
  BY Zenon DEF DiskInv, DiskTyped, diskVars
<1>2. \A u \in Caller : CallOK(u)'
  BY Zenon DEF DiskInv, CallOK, Booted, Using, On, diskVars
<1>3. ~collided' => \A u \in Caller : CommandOK(u)'
  BY Zenon DEF DiskInv, CommandOK, On, diskVars
<1>4. \A c \in Channel : DeviceOK(c)'
  BY Zenon DEF DiskInv, DeviceOK, diskVars
<1>5. Handshake'
  <2>1. dcall' = dcall /\ dev' = dev /\ completion_wait' = completion_wait /\ spurious' = spurious /\ collided' = collided
    BY Zenon DEF diskVars
  <2>2. \A u \in Caller : (Using(u)' <=> Using(u)) /\ On(u)' = On(u)
    BY <2>1, Zenon DEF Using, On
  <2>3. \A u \in Caller : Exchange(u) => Exchange(u)'
    BY <2>1, ExchangeStays, Zenon
  <2>4. \A c \in Channel : Quiet(c) => Quiet(c)'
    BY <2>1, Zenon DEF Quiet, Silent
  <2> QED
    BY <2>1, <2>2, <2>3, <2>4, Zenon DEF DiskInv, Handshake
<1> QED
  BY <1>1, <1>2, <1>3, <1>4, <1>5, Zenon DEF DiskInv

\* Every step of the driver, its interrupt handler and the devices keeps the
\* invariant; the console and the files do not touch it.
LEMMA DiskInvNext == DiskInv /\ [Next]_vars => DiskInv'
<1> SUFFICES ASSUME DiskInv, [Next]_vars PROVE DiskInv'
  BY Zenon
<1>1. CASE InDisk(DiskNext)
  <2>1. ~collided /\ DiskNext
    BY <1>1, Zenon DEF InDisk
  <2>2. ASSUME NEW t \in Caller, CallDriver(t) \/ DriverStep(t) \/ TransferFails(t) PROVE DiskInv'
    <3>1. CASE CallDriver(t)
      BY <3>1, CallDriverStep, Zenon
    <3>2. CASE Identify(t)
      BY <3>2, IdentifyStep, Zenon
    <3>3. CASE AcquireChannel(t)
      BY <3>3, AcquireStep, Zenon
    <3>4. CASE Issue(t)
      BY <2>1, <3>4, IssueStep, Zenon
    <3>5. CASE Completion(t)
      BY <2>1, <3>5, CompletionStep, Zenon
    <3>6. CASE Transfer(t)
      BY <2>1, <3>6, TransferStep, Zenon
    <3>7. CASE Leave(t)
      BY <3>7, LeaveStep, Zenon
    <3>8. CASE TransferFails(t)
      BY <2>1, <3>8, TransferFailsStep, Zenon
    <3> QED
      BY <2>2, <3>1, <3>2, <3>3, <3>4, <3>5, <3>6, <3>7, <3>8, Zenon DEF DriverStep
  <2>3. ASSUME NEW c \in Channel, Interrupt(c) \/ Spurious(c) \/ DeviceStep(c) \/ DeviceFails(c) PROVE DiskInv'
    BY <2>1, <2>3, InterruptStep, SpuriousStep, DeviceWorks, DeviceFailsStep, Zenon
  <2> QED
    BY <2>1, <2>2, <2>3, Zenon DEF DiskNext
<1>2. CASE InConsole(ConsoleNext) \/ InFile(FileNext) \/ UNCHANGED vars
  <2>1. UNCHANGED diskVars
    BY <1>2, Zenon DEF InConsole, InFile, vars
  <2> QED
    BY <2>1, DiskUntouched, Zenon
<1> QED
  BY <1>1, <1>2, Zenon DEF Next

\* The driver's invariant holds in every state of every run.
LEMMA DiskInvariant == Spec => []DiskInv
<1>1. Init => DiskInv
  BY InitInv, Zenon DEF Init
<1> QED
  BY <1>1, DiskInvNext, PTL DEF Spec

\* While no interrupt comes uncalled, disk_read() and disk_write() of any number
\* of threads give no command to a busy device and leave a free channel quiet,
\* although wait_until_idle() does not insist.
THEOREM DriverHandshake == Spec => []DiskHandshake
<1>1. DiskInv => DiskHandshake
  <2> SUFFICES ASSUME DiskInv, spurious = 0
               PROVE  /\ ~collided
                      /\ \A c \in Channel :
                           (\A t \in Caller : dcall[t].pc \in {"idle", "lock", "done"} \/ chan(dcall[t].disk) # c) =>
                             dev[c].status = "idle" /\ (Booted => ~dev[c].intr /\ completion_wait[c] = 0)
    BY Zenon DEF DiskHandshake
  <2>1. ~collided /\ \A c \in Channel : (\A t \in Caller : ~(Using(t) /\ On(t) = c)) => Quiet(c)
    BY Zenon DEF DiskInv, Handshake
  <2>2. \A t \in Caller : dcall[t].pc \in {"idle", "lock", "done"} => ~Using(t)
    BY Zenon DEF Using
  <2> QED
    BY <2>1, <2>2, Zenon DEF Quiet, Silent, On
<1> QED
  BY <1>1, DiskInvariant, PTL

-----------------------------------------------------------------------------
(* The refinement.  A write takes effect when the device has its data, a    *)
(* read when the driver takes it from the device.                          *)

\* The devices that hold data of sector x, the contents of x, and the request of
\* a call: Stored and Requested as functions of the state.
Taken(D, x) == {c \in Channel : D[c].full /\ <<D[c].disk, D[c].sec>> = x}
Contents(D, M, x) ==
  IF D[chan(x[1])].full /\ <<D[chan(x[1])].disk, D[chan(x[1])].sec>> = x THEN D[chan(x[1])].buf ELSE M[x]

RequestOf(c) ==
  CASE c.pc = "idle" -> [op |-> "none"]
    [] c.pc = "done" \/ (c.op = "write" /\ c.pc = "down") -> [op |-> "done", data |-> c.buf]
    [] OTHER -> [op |-> c.op, sec |-> <<c.disk, c.sec>>, data |-> c.buf]

\* A sector can only be in the device of its own channel.
LEMMA ContentsAre ==
  ASSUME NEW D, NEW M, NEW x \in DiskId \X SecNo, \A c \in Channel : D[c].full => chan(D[c].disk) = c
  PROVE  (IF Taken(D, x) = {} THEN M[x] ELSE D[CHOOSE c \in Taken(D, x) : TRUE].buf) = Contents(D, M, x)
<1> DEFINE k == chan(x[1])
<1>1. k \in Channel
  BY DEF DiskId, chan
<1>2. ASSUME NEW c \in Taken(D, x) PROVE c = k
  <2>1. c \in Channel /\ D[c].full /\ <<D[c].disk, D[c].sec>> = x
    BY Zenon DEF Taken
  <2>2. D[c].disk = x[1]
    BY <2>1
  <2> QED
    BY <2>1, <2>2, Zenon
<1>3. CASE D[k].full /\ <<D[k].disk, D[k].sec>> = x
  <2>1. k \in Taken(D, x)
    BY <1>1, <1>3, Zenon DEF Taken
  <2>2. (CHOOSE c \in Taken(D, x) : TRUE) = k /\ Taken(D, x) # {}
    BY <1>2, <2>1, Zenon
  <2> QED
    BY <1>3, <2>2, Zenon DEF Contents
<1>4. CASE ~(D[k].full /\ <<D[k].disk, D[k].sec>> = x)
  <2>1. Taken(D, x) = {}
    BY <1>2, <1>4, Zenon DEF Taken
  <2> QED
    BY <1>4, <2>1, Zenon DEF Contents
<1> QED
  BY <1>3, <1>4, Zenon

\* Before and after a step, a sector's contents are in its own device or on
\* the disk.
LEMMA StoredIs ==
  ASSUME DiskInv, DiskInv', NEW x \in DiskId \X SecNo
  PROVE  Stored(x) = Contents(dev, media, x) /\ Stored(x)' = Contents(dev', media', x)
<1>1. \A c \in Channel : dev[c].full => chan(dev[c].disk) = c
  BY Zenon DEF DiskInv, DeviceOK
<1>2. \A c \in Channel : dev'[c].full => chan(dev'[c].disk) = c
  BY Zenon DEF DiskInv, DeviceOK
<1>3. Stored(x) = IF Taken(dev, x) = {} THEN media[x] ELSE dev[CHOOSE c \in Taken(dev, x) : TRUE].buf
  BY Zenon DEF Stored, Taken
<1>4. Stored(x)' = IF Taken(dev', x) = {} THEN media'[x] ELSE dev'[CHOOSE c \in Taken(dev', x) : TRUE].buf
  BY Zenon DEF Stored, Taken
<1>5. Stored(x) = Contents(dev, media, x)
  BY <1>1, <1>3, ContentsAre, Zenon
<1>6. Stored(x)' = Contents(dev', media', x)
  BY <1>2, <1>4, ContentsAre, Zenon
<1> QED
  BY <1>5, <1>6, Zenon

\* What a thread has asked, by how far it is.
LEMMA Requests ==
  ASSUME NEW c
  PROVE  /\ c.pc = "idle" => RequestOf(c) = [op |-> "none"]
         /\ c.pc = "done" => RequestOf(c) = [op |-> "done", data |-> c.buf]
         /\ c.pc = "down" /\ c.op = "write" => RequestOf(c) = [op |-> "done", data |-> c.buf]
         /\ c.pc \in {"lock", "select", "poll"} \/ (c.pc = "down" /\ c.op # "write") =>
              RequestOf(c) = [op |-> c.op, sec |-> <<c.disk, c.sec>>, data |-> c.buf]
  BY Zenon DEF RequestOf

\* The contents stay when the devices that hold data keep it.
LEMMA ContentsStay ==
  ASSUME DiskInv, DiskInv', media' = media,
         \A c \in Channel : \/ ~dev[c].full /\ ~dev'[c].full
                            \/ /\ dev'[c].full <=> dev[c].full
                               /\ dev'[c].disk = dev[c].disk /\ dev'[c].sec = dev[c].sec /\ dev'[c].buf = dev[c].buf
  PROVE  \A x \in DiskId \X SecNo : Contents(dev', media', x) = Contents(dev, media, x)
<1> SUFFICES ASSUME NEW x \in DiskId \X SecNo PROVE Contents(dev', media', x) = Contents(dev, media, x)
  BY Zenon
<1>1. PICK k \in Channel : k = chan(x[1])
  BY Zenon DEF DiskId, chan
<1>2. CASE ~dev[k].full /\ ~dev'[k].full
  BY <1>1, <1>2, Zenon DEF Contents
<1>3. CASE /\ dev'[k].full <=> dev[k].full
           /\ dev'[k].disk = dev[k].disk /\ dev'[k].sec = dev[k].sec /\ dev'[k].buf = dev[k].buf
  BY <1>1, <1>3, Zenon DEF Contents
<1> QED
  BY <1>2, <1>3, Zenon

\* Data that the device writes to the disk is already the sector's contents.
LEMMA DeviceStepUnseen ==
  ASSUME DiskInv, DiskInv', NEW c \in Channel, DeviceStep(c)
  PROVE  \A x \in DiskId \X SecNo : Contents(dev', media', x) = Contents(dev, media, x)
<1> DEFINE at == <<dev[c].disk, dev[c].sec>>
           r == [dev[c] EXCEPT
                   !.status = IF dev[c].full THEN "idle" ELSE "drq",
                   !.buf = IF dev[c].op = "read" THEN media[at] ELSE dev[c].buf,
                   !.full = FALSE,
                   !.intr = (dev[c].op # "write" \/ dev[c].full)]
<1>1. dev' = [dev EXCEPT ![c] = r] /\ dev[c].status = "busy"
      /\ media' = IF dev[c].full THEN [media EXCEPT ![at] = dev[c].buf] ELSE media
  BY Zenon DEF DeviceStep
<1>2. dev \in [Channel -> CommandType] /\ dev[c] \in CommandType
  BY Fields, Zenon DEF DiskInv, DiskTyped
<1>3. r.full = FALSE
  BY <1>2 DEF CommandType
<1> HIDE DEF r
<1>4. dev'[c].full = FALSE /\ \A e \in Channel : e # c => dev'[e] = dev[e]
  BY <1>1, <1>2, <1>3, Zenon
<1>5. CASE ~dev[c].full
  BY <1>1, <1>4, <1>5, ContentsStay, Zenon
<1>6. CASE dev[c].full
  <2>1. at \in DiskId \X SecNo /\ chan(dev[c].disk) = c
    BY <1>6, <1>1, Zenon DEF DiskInv, DeviceOK
  <2>2. media' = [media EXCEPT ![at] = dev[c].buf] /\ media \in [DiskId \X SecNo -> SectorData]
    BY <1>1, <1>6, Zenon DEF DiskInv, DiskTyped
  <2>3. at[1] = dev[c].disk
    BY DEF at
  <2> HIDE DEF at
  <2>4. media'[at] = dev[c].buf /\ \A x \in DiskId \X SecNo : x # at => media'[x] = media[x]
    BY <2>1, <2>2, Zenon
  <2>5. ASSUME NEW x \in DiskId \X SecNo PROVE Contents(dev', media', x) = Contents(dev, media, x)
    <3>1. PICK k \in Channel : k = chan(x[1])
      BY Zenon DEF DiskId, chan
    <3>2. CASE x = at
      <4>1. k = c
        BY <2>1, <2>3, <3>1, <3>2, Zenon
      <4>2. Contents(dev, media, x) = dev[c].buf
        BY <1>6, <3>1, <3>2, <4>1, Zenon DEF Contents, at
      <4>3. Contents(dev', media', x) = dev[c].buf
        BY <1>4, <2>4, <3>1, <3>2, <4>1, Zenon DEF Contents
      <4> QED
        BY <4>2, <4>3, Zenon
    <3>3. CASE x # at /\ k = c
      BY <1>4, <2>4, <3>1, <3>3, Zenon DEF Contents, at
    <3>4. CASE x # at /\ k # c
      BY <1>4, <2>4, <3>1, <3>4, Zenon DEF Contents
    <3> QED
      BY <3>2, <3>3, <3>4, Zenon
  <2> QED
    BY <2>5, Zenon
<1> QED
  BY <1>5, <1>6, Zenon

\* select_sector() and issue_pio_command() give the device no data.
LEMMA IssueUnseen ==
  ASSUME DiskInv, DiskInv', NEW t \in Caller, Issue(t)
  PROVE  /\ \A x \in DiskId \X SecNo : Contents(dev', media', x) = Contents(dev, media, x)
         /\ \A u \in Caller : u # t => dcall'[u] = dcall[u]
         /\ t # Booter => RequestOf(dcall'[t]) = RequestOf(dcall[t])
<1> DEFINE c == On(t)
           pc == IF dcall[t].op = "write" THEN "poll" ELSE "down"
           r == [NoCommand EXCEPT !.status = "busy", !.op = dcall[t].op,
                                  !.disk = dcall[t].disk, !.sec = dcall[t].sec]
           s == [dev[c] EXCEPT !.intr = FALSE]
           idle == dev[c].status = "idle"
<1>1. Goto(t, pc) /\ pc \in Pc /\ dcall[t].pc = "select" /\ Using(t)
      /\ (pc = "poll" \/ (pc = "down" /\ dcall[t].op # "write"))
  BY Zenon DEF Issue, Pc, Using
<1>2. /\ \A u \in Caller : u # t => dcall'[u] = dcall[u]
      /\ dcall'[t].pc = pc /\ dcall'[t].op = dcall[t].op /\ dcall'[t].disk = dcall[t].disk
      /\ dcall'[t].sec = dcall[t].sec /\ dcall'[t].buf = dcall[t].buf
  BY <1>1, Moves, Zenon DEF DiskInv
<1>3. c \in Channel
  BY <1>1, Alone, Zenon
<1>4. dev' = [dev EXCEPT ![c] = IF idle THEN r ELSE s] /\ media' = media
  BY Zenon DEF Issue, On
<1>5. dev[c] \in CommandType /\ NoCommand \in CommandType
  BY <1>3, Fields, DiskAssumption DEF DiskInv, NoCommand, CommandType, Op, DiskPlace
<1>6. r.full = FALSE
  BY <1>5 DEF CommandType, NoCommand
<1>7. s.disk = dev[c].disk /\ s.sec = dev[c].sec /\ s.full = dev[c].full /\ s.buf = dev[c].buf
  BY <1>5 DEF CommandType
<1>8. idle => ~dev[c].full
  BY <1>3, Zenon DEF DiskInv, DeviceOK
<1> HIDE DEF c, r, s, pc
<1>9. dev'[c] = (IF idle THEN r ELSE s) /\ \A e \in Channel : e # c => dev'[e] = dev[e]
  BY <1>3, <1>4, Zenon DEF DiskInv, DiskTyped
<1>10. \A e \in Channel : \/ ~dev[e].full /\ ~dev'[e].full
                          \/ /\ dev'[e].full <=> dev[e].full
                             /\ dev'[e].disk = dev[e].disk /\ dev'[e].sec = dev[e].sec /\ dev'[e].buf = dev[e].buf
  <2>1. CASE idle
    BY <1>6, <1>8, <1>9, <2>1, Zenon
  <2>2. CASE ~idle
    BY <1>7, <1>9, <2>2, Zenon
  <2> QED
    BY <2>1, <2>2, Zenon
<1>11. \A x \in DiskId \X SecNo : Contents(dev', media', x) = Contents(dev, media, x)
  BY <1>4, <1>10, ContentsStay, Zenon
<1>12. RequestOf(dcall'[t]) = RequestOf(dcall[t])
  <2>1. RequestOf(dcall[t]) = [op |-> dcall[t].op, sec |-> <<dcall[t].disk, dcall[t].sec>>, data |-> dcall[t].buf]
    BY <1>1, Requests, Zenon
  <2>2. RequestOf(dcall'[t]) = [op |-> dcall'[t].op, sec |-> <<dcall'[t].disk, dcall'[t].sec>>, data |-> dcall'[t].buf]
    BY <1>1, <1>2, Requests, Zenon
  <2> QED
    BY <1>2, <2>1, <2>2, Zenon
<1> QED
  BY <1>2, <1>11, <1>12, Zenon

\* sema_down() answers nobody: a read has still to take its data, and a write
\* was done when the device had the data.
LEMMA CompletionUnseen ==
  ASSUME DiskInv, DiskInv', NEW t \in Caller, Completion(t)
  PROVE  /\ \A u \in Caller : u # t => dcall'[u] = dcall[u]
         /\ t # Booter => RequestOf(dcall'[t]) = RequestOf(dcall[t])
<1>1. dcall[t].pc = "down" /\ Using(t)
  BY Zenon DEF Completion, Using
<1>2. CASE dcall[t].op # "write" /\ Goto(t, "poll")
  <2>1. "poll" \in Pc
    BY Zenon DEF Pc
  <2>2. /\ \A u \in Caller : u # t => dcall'[u] = dcall[u]
        /\ dcall'[t].pc = "poll" /\ dcall'[t].op = dcall[t].op /\ dcall'[t].disk = dcall[t].disk
        /\ dcall'[t].sec = dcall[t].sec /\ dcall'[t].buf = dcall[t].buf
    BY <1>2, <2>1, Moves, Zenon DEF DiskInv
  <2>3. RequestOf(dcall[t]) = [op |-> dcall[t].op, sec |-> <<dcall[t].disk, dcall[t].sec>>, data |-> dcall[t].buf]
    BY <1>1, <1>2, Requests, Zenon
  <2>4. RequestOf(dcall'[t]) = [op |-> dcall'[t].op, sec |-> <<dcall'[t].disk, dcall'[t].sec>>, data |-> dcall'[t].buf]
    BY <2>2, Requests, Zenon
  <2> QED
    BY <2>2, <2>3, <2>4, Zenon
<1>3. CASE dcall[t].op = "write" /\ Finish(t, dcall[t].buf)
  <2>1. On(t) \in Channel /\ dcall[t].buf \in SectorData
    BY <1>1, Alone, Fields, Zenon DEF DiskInv
  <2>2. /\ \A u \in Caller : u # t => dcall'[u] = dcall[u]
        /\ dcall'[t].pc = (IF t = Booter THEN "idle" ELSE "done") /\ dcall'[t].buf = dcall[t].buf
    BY <1>3, <2>1, Returns, DiskAssumption, Zenon DEF DiskInv
  <2>3. RequestOf(dcall[t]) = [op |-> "done", data |-> dcall[t].buf]
    BY <1>1, <1>3, Requests, Zenon
  <2>4. t # Booter => RequestOf(dcall'[t]) = [op |-> "done", data |-> dcall'[t].buf]
    BY <2>2, Requests, Zenon
  <2> QED
    BY <2>2, <2>3, <2>4, Zenon
<1> QED
  BY <1>2, <1>3, Zenon DEF Completion

\* output_sector(): the device has the data, which is from now on what the
\* sector contains.
LEMMA OutputSeen ==
  ASSUME DiskInv, DiskInv', ~collided, NEW t \in Caller, Transfer(t), dcall[t].op = "write"
  PROVE  /\ \A u \in Caller : u # t => dcall'[u] = dcall[u]
         /\ t # Booter
         /\ <<dcall[t].disk, dcall[t].sec>> \in DiskId \X SecNo
         /\ RequestOf(dcall[t]) = [op |-> "write", sec |-> <<dcall[t].disk, dcall[t].sec>>, data |-> dcall[t].buf]
         /\ RequestOf(dcall'[t]) = [op |-> "done", data |-> dcall[t].buf]
         /\ \A x \in DiskId \X SecNo :
              Contents(dev', media', x) =
                IF x = <<dcall[t].disk, dcall[t].sec>> THEN dcall[t].buf ELSE Contents(dev, media, x)
<1> DEFINE c == On(t)
           at == <<dcall[t].disk, dcall[t].sec>>
           r == [dev[c] EXCEPT !.status = "busy", !.buf = dcall[t].buf, !.full = TRUE]
<1>1. dcall[t].pc = "poll" /\ Using(t) /\ dev[c].status = "drq" /\ media' = media
  BY Zenon DEF Transfer, Using, On
<1>2. c \in Channel
  BY <1>1, Alone, Zenon
<1>3. t # Booter /\ dcall[t].disk \in DiskId /\ dcall[t].sec \in SecNo
  <2>1. CallOK(t) /\ "write" # "identify" /\ dcall[t].pc # "idle" /\ dcall[t].pc # "done"
    BY <1>1, Zenon DEF DiskInv
  <2> QED
    BY <2>1, Zenon DEF CallOK
<1>4. at \in DiskId \X SecNo /\ chan(at[1]) = c
  BY <1>3 DEF On
<1>5. dev[c].disk = dcall[t].disk /\ dev[c].sec = dcall[t].sec /\ ~dev[c].full
  BY <1>1, <1>2, Zenon DEF DiskInv, CommandOK, DeviceOK
<1>6. dev[c] \in CommandType /\ dev \in [Channel -> CommandType]
  BY <1>2, Fields, Zenon DEF DiskInv, DiskTyped
<1>7. r.buf = dcall[t].buf /\ r.full = TRUE /\ r.disk = dev[c].disk /\ r.sec = dev[c].sec
  BY <1>6 DEF CommandType
<1>8. dev' = [dev EXCEPT ![c] = r] /\ Goto(t, "down")
  <2>1. dev' = [dev EXCEPT ![c].status = "busy", ![c].buf = dcall[t].buf, ![c].full = TRUE] /\ Goto(t, "down")
    BY Zenon DEF Transfer, On
  <2> QED
    BY <1>2, <1>6, <2>1, Zenon
<1> HIDE DEF r
<1>9. dev'[c] = r /\ \A e \in Channel : e # c => dev'[e] = dev[e]
  BY <1>2, <1>6, <1>8, Zenon
<1>10. /\ \A u \in Caller : u # t => dcall'[u] = dcall[u]
       /\ dcall'[t].pc = "down" /\ dcall'[t].op = dcall[t].op /\ dcall'[t].buf = dcall[t].buf
  <2>1. "down" \in Pc
    BY Zenon DEF Pc
  <2> QED
    BY <1>8, <2>1, Moves, Zenon DEF DiskInv
<1>11. RequestOf(dcall[t]) = [op |-> "write", sec |-> at, data |-> dcall[t].buf]
  BY <1>1, Requests, Zenon
<1>12. RequestOf(dcall'[t]) = [op |-> "done", data |-> dcall[t].buf]
  BY <1>10, Requests, Zenon
<1>13. <<dev'[c].disk, dev'[c].sec>> = at /\ dev'[c].full /\ dev'[c].buf = dcall[t].buf
  BY <1>5, <1>7, <1>9, Zenon
<1> HIDE DEF c, at
<1>14. ASSUME NEW x \in DiskId \X SecNo
       PROVE  Contents(dev', media', x) = IF x = at THEN dcall[t].buf ELSE Contents(dev, media, x)
  <2>1. PICK k \in Channel : k = chan(x[1])
    BY DEF DiskId, chan
  <2>2. CASE x = at
    BY <1>4, <1>13, <2>1, <2>2, Zenon DEF Contents
  <2>3. CASE x # at /\ k = c
    BY <1>1, <1>5, <1>13, <2>1, <2>3, Zenon DEF Contents
  <2>4. CASE x # at /\ k # c
    BY <1>1, <1>9, <2>1, <2>4, Zenon DEF Contents
  <2> QED
    BY <2>2, <2>3, <2>4, Zenon
<1> QED
  BY <1>3, <1>4, <1>10, <1>11, <1>12, <1>14, Zenon DEF at

\* input_sector(): the thread takes what its sector contains at that moment.
LEMMA InputSeen ==
  ASSUME DiskInv, DiskInv', ~collided, NEW t \in Caller, Transfer(t), dcall[t].op # "write"
  PROVE  /\ \A u \in Caller : u # t => dcall'[u] = dcall[u]
         /\ \A x \in DiskId \X SecNo : Contents(dev', media', x) = Contents(dev, media, x)
         /\ t # Booter =>
              /\ <<dcall[t].disk, dcall[t].sec>> \in DiskId \X SecNo
              /\ RequestOf(dcall[t]) = [op |-> "read", sec |-> <<dcall[t].disk, dcall[t].sec>>, data |-> dcall[t].buf]
              /\ RequestOf(dcall'[t]) =
                   [op |-> "done", data |-> Contents(dev, media, <<dcall[t].disk, dcall[t].sec>>)]
<1> DEFINE c == On(t)
           at == <<dcall[t].disk, dcall[t].sec>>
           r == [dev[c] EXCEPT !.status = "idle"]
<1>1. dcall[t].pc = "poll" /\ Using(t) /\ dev[c].status = "drq" /\ media' = media
  BY Zenon DEF Transfer, Using, On
<1>2. c \in Channel
  BY <1>1, Alone, Zenon
<1>3. /\ dev[c].op = dcall[t].op /\ dev[c].disk = dcall[t].disk /\ dev[c].sec = dcall[t].sec /\ ~dev[c].full
      /\ dev[c].op = "read" => dev[c].buf = media[<<dev[c].disk, dev[c].sec>>]
  BY <1>1, <1>2, Zenon DEF DiskInv, CommandOK, DeviceOK
<1>4. dev[c] \in CommandType /\ dev \in [Channel -> CommandType] /\ dev[c].buf \in SectorData
  BY <1>2, Fields, Zenon DEF DiskInv, DiskTyped
<1>5. r.full = dev[c].full
  BY <1>4 DEF CommandType
<1>6. dev' = [dev EXCEPT ![c] = r] /\ Finish(t, dev[c].buf)
  BY Zenon DEF Transfer, On
<1> HIDE DEF r
<1>7. dev'[c] = r /\ \A e \in Channel : e # c => dev'[e] = dev[e]
  BY <1>2, <1>4, <1>6, Zenon
<1>8. /\ \A u \in Caller : u # t => dcall'[u] = dcall[u]
      /\ dcall'[t].pc = (IF t = Booter THEN "idle" ELSE "done") /\ dcall'[t].buf = dev[c].buf
  BY <1>2, <1>4, <1>6, Returns, DiskAssumption, Zenon DEF DiskInv
<1>9. \A x \in DiskId \X SecNo : Contents(dev', media', x) = Contents(dev, media, x)
  BY <1>1, <1>3, <1>5, <1>7, ContentsStay, Zenon
<1>10. ASSUME t # Booter
       PROVE  /\ at \in DiskId \X SecNo
              /\ RequestOf(dcall[t]) = [op |-> "read", sec |-> at, data |-> dcall[t].buf]
              /\ RequestOf(dcall'[t]) = [op |-> "done", data |-> Contents(dev, media, at)]
  <2>1. dcall[t].op = "read" /\ dcall[t].disk \in DiskId /\ dcall[t].sec \in SecNo
    BY <1>1, <1>10, Zenon DEF DiskInv, CallOK
  <2>2. at \in DiskId \X SecNo /\ chan(at[1]) = c
    BY <2>1 DEF On
  <2>3. RequestOf(dcall[t]) = [op |-> "read", sec |-> at, data |-> dcall[t].buf]
    BY <1>1, <2>1, Requests, Zenon
  <2>4. dcall'[t].buf = media[at]
    BY <1>3, <1>8, <2>1, Zenon
  <2> HIDE DEF at, c
  <2>5. Contents(dev, media, at) = media[at]
    BY <1>3, <2>2, Zenon DEF Contents
  <2>6. RequestOf(dcall'[t]) = [op |-> "done", data |-> dcall'[t].buf]
    BY <1>8, <1>10, Requests, Zenon
  <2> QED
    BY <2>2, <2>3, <2>4, <2>5, <2>6, Zenon
<1> QED
  BY <1>8, <1>9, <1>10, Zenon

\* At the start every sector holds its initial contents and nobody asks.
LEMMA StoreInitRefined == Init => Store!StoreInit
<1> SUFFICES ASSUME Init PROVE Store!StoreInit
  BY Zenon
<1>1. /\ \A c \in Channel : dev[c] = NoCommand
      /\ \A t \in Caller : dcall[t] = NoDiskCall
      /\ \A x \in DiskId \X SecNo : media[x] \in SectorData
  BY DiskAssumption, Zenon DEF Init, DiskInit
<1>2. ~NoCommand.full /\ NoDiskCall.pc = "idle"
  BY DEF NoCommand, NoDiskCall
<1>3. \A x \in DiskId \X SecNo : Stored(x) = media[x]
  BY <1>1, <1>2, Zenon DEF Stored
<1>4. \A t \in DThread : Requested(t) = [op |-> "none"]
  BY <1>1, <1>2, Zenon DEF Requested, Caller
<1>5. [x \in DiskId \X SecNo |-> Stored(x)] \in [DiskId \X SecNo -> SectorData]
  BY <1>1, <1>3, Zenon
<1>6. [t \in DThread |-> Requested(t)] = [t \in DThread |-> [op |-> "none"]]
  BY <1>4, Zenon
<1> QED
  BY <1>5, <1>6, Zenon DEF Store!StoreInit, Store!NoRequest

\* Every step of the driver and the devices is a step of the sectors that they
\* implement, or none that its callers see.
LEMMA StoreNextRefined ==
  ASSUME DiskInv, DiskInv', [Next]_vars
  PROVE  [Store!StoreNext]_(Store!storeVars)
<1> DEFINE st == [x \in DiskId \X SecNo |-> Stored(x)]
           rq == [t \in DThread |-> Requested(t)]
           Same == \A x \in DiskId \X SecNo : Contents(dev', media', x) = Contents(dev, media, x)
           Others(t) == \A u \in Caller : u # t => dcall'[u] = dcall[u]
<1>s. /\ st = [x \in DiskId \X SecNo |-> Contents(dev, media, x)]
      /\ st' = [x \in DiskId \X SecNo |-> Contents(dev', media', x)]
  BY StoredIs, Zenon
<1>q. /\ rq = [t \in DThread |-> RequestOf(dcall[t])]
      /\ rq' = [t \in DThread |-> RequestOf(dcall'[t])]
  BY Zenon DEF Requested, RequestOf
<1>a. ASSUME NEW t \in DThread, NEW op \in {"read", "write"}, NEW sec \in DiskId \X SecNo, NEW data \in SectorData,
             rq[t] = [op |-> "none"], rq' = [rq EXCEPT ![t] = [op |-> op, sec |-> sec, data |-> data]], st' = st
      PROVE  Store!StoreNext
  <2>1. Store!Ask(t, op, sec, data)
    BY <1>a, Zenon DEF Store!Ask, Store!NoRequest, Store!Asked
  <2> QED
    BY <2>1, Zenon DEF Store!StoreNext
<1>r. ASSUME NEW t \in DThread, rq[t].op = "read",
             rq' = [rq EXCEPT ![t] = [op |-> "done", data |-> st[rq[t].sec]]], st' = st
      PROVE  Store!StoreNext
  BY <1>r, Zenon DEF Store!StoreNext, Store!disk_read, Store!Answered
<1>w. ASSUME NEW t \in DThread, rq[t].op = "write", st' = [st EXCEPT ![rq[t].sec] = rq[t].data],
             rq' = [rq EXCEPT ![t] = [op |-> "done", data |-> rq[t].data]]
      PROVE  Store!StoreNext
  BY <1>w, Zenon DEF Store!StoreNext, Store!disk_write, Store!Answered
<1>t. ASSUME NEW t \in DThread, rq[t].op = "done", rq' = [rq EXCEPT ![t] = [op |-> "none"]], st' = st
      PROVE  Store!StoreNext
  BY <1>t, Zenon DEF Store!StoreNext, Store!Take, Store!NoRequest
<1>u. ASSUME st' = st, rq' = rq PROVE UNCHANGED Store!storeVars
  BY <1>u, Zenon DEF Store!storeVars
<1> HIDE DEF st, rq
<1>c. DThread \subseteq Caller /\ \A t \in Caller : t # Booter => t \in DThread
  BY Zenon DEF Caller
<1>e. ASSUME NEW t \in DThread, NEW w, RequestOf(dcall'[t]) = w, Others(t)
      PROVE  rq' = [rq EXCEPT ![t] = w]
  BY <1>c, <1>e, <1>q, Zenon
<1>n. ASSUME NEW t \in Caller, t # Booter => RequestOf(dcall'[t]) = RequestOf(dcall[t]), Others(t)
      PROVE  rq' = rq
  <2>1. \A u \in DThread : u \in Caller /\ u # Booter
    BY <1>c, DiskAssumption, Zenon
  <2>2. \A u \in DThread : RequestOf(dcall'[u]) = RequestOf(dcall[u])
    BY <1>n, <2>1, Zenon
  <2> QED
    BY <1>q, <2>2, Zenon
<1>d. dcall' = dcall => rq' = rq
  BY <1>q, Zenon
<1>m. Same => st' = st
  BY <1>s, Zenon
<1>k. dev' = dev /\ media' = media => Same
  BY Zenon
<1> HIDE DEF Same
<1>p. dcall \in [Caller -> CallType]
  BY Zenon DEF DiskInv, DiskTyped
<1>1. ASSUME UNCHANGED diskVars PROVE UNCHANGED Store!storeVars
  BY <1>1, <1>d, <1>k, <1>m, <1>u, Zenon DEF diskVars
<1>2. ASSUME NEW t \in Caller, CallDriver(t) PROVE Store!StoreNext
  <2>1. PICK d \in is_ata, sec \in SecNo, data \in SectorData, op \in {"read", "write"} :
          dcall' = [dcall EXCEPT ![t] = [pc |-> "lock", op |-> op, disk |-> d, sec |-> sec, buf |-> data]]
    BY <1>2, Zenon DEF CallDriver
  <2> DEFINE r == [pc |-> "lock", op |-> op, disk |-> d, sec |-> sec, buf |-> data]
  <2>2. r.pc = "lock" /\ r.op = op /\ r.disk = d /\ r.sec = sec /\ r.buf = data
    BY Zenon
  <2>3. /\ dcall[t].pc = "idle" /\ t \in DThread /\ dev' = dev /\ media' = media
        /\ d \in DiskId
    BY <1>2, Zenon DEF CallDriver, DiskInv, DiskTyped
  <2>4. <<d, sec>> \in DiskId \X SecNo
    BY <2>3
  <2> HIDE DEF r
  <2>5. dcall'[t] = r /\ Others(t)
    BY <1>p, <2>1, Zenon DEF r
  <2>6. RequestOf(dcall'[t]) = [op |-> op, sec |-> <<d, sec>>, data |-> data]
    BY <2>2, <2>5, Requests, Zenon
  <2>7. rq[t] = [op |-> "none"]
    BY <1>q, <2>3, Requests, Zenon
  <2>8. rq' = [rq EXCEPT ![t] = [op |-> op, sec |-> <<d, sec>>, data |-> data]]
    BY <1>e, <2>3, <2>5, <2>6, Zenon
  <2>9. st' = st
    BY <1>k, <1>m, <2>3, Zenon
  <2> QED
    BY <1>a, <2>3, <2>4, <2>7, <2>8, <2>9, Zenon
<1>3. ASSUME NEW t \in Caller, Identify(t) PROVE UNCHANGED Store!storeVars
  <2>1. t = Booter /\ dev' = dev /\ media' = media /\ Others(t)
    BY <1>3, <1>p, Zenon DEF Identify
  <2> QED
    BY <1>k, <1>m, <1>n, <1>u, <2>1, Zenon
<1>4. ASSUME NEW t \in Caller, AcquireChannel(t) PROVE UNCHANGED Store!storeVars
  <2>1. dcall[t].pc = "lock" /\ Goto(t, "select") /\ "select" \in Pc /\ dev' = dev /\ media' = media
    BY <1>4, Zenon DEF AcquireChannel, Pc
  <2>2. /\ Others(t) /\ dcall'[t].pc = "select" /\ dcall'[t].op = dcall[t].op /\ dcall'[t].disk = dcall[t].disk
        /\ dcall'[t].sec = dcall[t].sec /\ dcall'[t].buf = dcall[t].buf
    BY <2>1, Moves, Zenon DEF DiskInv
  <2>3. RequestOf(dcall[t]) = [op |-> dcall[t].op, sec |-> <<dcall[t].disk, dcall[t].sec>>, data |-> dcall[t].buf]
    BY <2>1, Requests, Zenon
  <2>4. RequestOf(dcall'[t]) = [op |-> dcall'[t].op, sec |-> <<dcall'[t].disk, dcall'[t].sec>>, data |-> dcall'[t].buf]
    BY <2>2, Requests, Zenon
  <2>5. RequestOf(dcall'[t]) = RequestOf(dcall[t])
    BY <2>2, <2>3, <2>4, Zenon
  <2> QED
    BY <1>k, <1>m, <1>n, <1>u, <2>1, <2>2, <2>5, Zenon
<1>5. ASSUME NEW t \in Caller, Issue(t) PROVE UNCHANGED Store!storeVars
  BY <1>5, <1>m, <1>n, <1>u, IssueUnseen, Zenon DEF Same
<1>6. ASSUME NEW t \in Caller, Completion(t) PROVE UNCHANGED Store!storeVars
  <2>1. dev' = dev /\ media' = media
    BY <1>6, Zenon DEF Completion
  <2> QED
    BY <1>6, <1>k, <1>m, <1>n, <1>u, <2>1, CompletionUnseen, Zenon
<1>7. ASSUME ~collided, NEW t \in Caller, Transfer(t) PROVE Store!StoreNext \/ UNCHANGED Store!storeVars
  <2> DEFINE at == <<dcall[t].disk, dcall[t].sec>>
  <2>1. CASE dcall[t].op = "write"
    <3>1. /\ Others(t) /\ t \in DThread /\ at \in DiskId \X SecNo
          /\ RequestOf(dcall[t]) = [op |-> "write", sec |-> at, data |-> dcall[t].buf]
          /\ RequestOf(dcall'[t]) = [op |-> "done", data |-> dcall[t].buf]
          /\ \A x \in DiskId \X SecNo :
               Contents(dev', media', x) = IF x = at THEN dcall[t].buf ELSE Contents(dev, media, x)
      BY <1>7, <1>c, <2>1, OutputSeen, Zenon
    <3> HIDE DEF at
    <3>2. rq[t] = [op |-> "write", sec |-> at, data |-> dcall[t].buf]
      BY <1>q, <3>1, Zenon
    <3>3. rq[t].op = "write" /\ rq[t].sec = at /\ rq[t].data = dcall[t].buf
      BY <3>2
    <3>4. st' = [st EXCEPT ![at] = dcall[t].buf]
      BY <1>s, <3>1, Zenon
    <3>5. rq' = [rq EXCEPT ![t] = [op |-> "done", data |-> dcall[t].buf]]
      <4>1. Others(t) /\ t \in DThread /\ RequestOf(dcall'[t]) = [op |-> "done", data |-> dcall[t].buf]
        BY <3>1, Zenon
      <4> HIDE DEF Others
      <4> QED
        BY <1>e, <4>1, Zenon
    <3> QED
      BY <1>w, <3>1, <3>3, <3>4, <3>5, Zenon
  <2>2. CASE dcall[t].op # "write"
    <3>1. /\ Others(t) /\ Same
          /\ t # Booter =>
               /\ at \in DiskId \X SecNo
               /\ RequestOf(dcall[t]) = [op |-> "read", sec |-> at, data |-> dcall[t].buf]
               /\ RequestOf(dcall'[t]) = [op |-> "done", data |-> Contents(dev, media, at)]
      BY <1>7, <2>2, InputSeen, Zenon DEF Same
    <3> HIDE DEF at
    <3>2. CASE t = Booter
      BY <1>m, <1>n, <1>u, <3>1, <3>2, Zenon
    <3>3. CASE t # Booter
      <4>1. t \in DThread /\ at \in DiskId \X SecNo
        BY <1>c, <3>1, <3>3, Zenon
      <4>2. rq[t] = [op |-> "read", sec |-> at, data |-> dcall[t].buf]
        BY <1>q, <3>1, <3>3, <4>1, Zenon
      <4>3. rq[t].op = "read" /\ rq[t].sec = at
        BY <4>2
      <4>4. st[rq[t].sec] = Contents(dev, media, at)
        BY <1>s, <4>1, <4>3, Zenon
      <4>5. rq' = [rq EXCEPT ![t] = [op |-> "done", data |-> st[rq[t].sec]]]
        <5>1. Others(t) /\ RequestOf(dcall'[t]) = [op |-> "done", data |-> st[rq[t].sec]]
          BY <3>1, <3>3, <4>4, Zenon
        <5> HIDE DEF Others
        <5> QED
          BY <1>e, <4>1, <5>1, Zenon
      <4> QED
        BY <1>m, <1>r, <3>1, <4>1, <4>3, <4>5, Zenon
    <3> QED
      BY <3>2, <3>3, Zenon
  <2> QED
    BY <2>1, <2>2, Zenon
<1>8. ASSUME NEW t \in Caller, TransferFails(t) PROVE UNCHANGED Store!storeVars
  <2>1. dev' = dev /\ media' = media
    BY <1>8, Zenon DEF TransferFails
  <2>2. CASE t = Booter
    <3>1. Others(t)
      BY <1>8, <1>p, <2>2, Zenon DEF TransferFails
    <3> QED
      BY <1>k, <1>m, <1>n, <1>u, <2>1, <2>2, <3>1, Zenon
  <2>3. CASE t # Booter
    <3>1. dcall' = dcall
      BY <1>8, <2>3, Zenon DEF TransferFails
    <3> QED
      BY <1>d, <1>k, <1>m, <1>u, <2>1, <3>1, Zenon
  <2> QED
    BY <2>2, <2>3, Zenon
<1>9. ASSUME NEW t \in Caller, Leave(t) PROVE Store!StoreNext
  <2>1. /\ dcall[t].pc = "done" /\ dcall' = [dcall EXCEPT ![t] = NoDiskCall] /\ dev' = dev /\ media' = media
    BY <1>9, Zenon DEF Leave
  <2>2. t \in DThread
    BY <1>c, <2>1, Zenon DEF DiskInv, CallOK
  <2>3. dcall'[t] = NoDiskCall /\ Others(t) /\ NoDiskCall.pc = "idle"
    BY <1>p, <2>1, Zenon DEF NoDiskCall
  <2>4. RequestOf(dcall'[t]) = [op |-> "none"]
    BY <2>3, Requests, Zenon
  <2>5. rq[t] = [op |-> "done", data |-> dcall[t].buf]
    BY <1>q, <2>1, <2>2, Requests, Zenon
  <2>6. rq[t].op = "done"
    BY <2>5
  <2> QED
    BY <1>e, <1>k, <1>m, <1>t, <2>1, <2>2, <2>3, <2>4, <2>6, Zenon
<1>10. ASSUME NEW c \in Channel, interrupt_handler(c), media' = media, dcall' = dcall
       PROVE  UNCHANGED Store!storeVars
  <2>1. \A e \in Channel : /\ dev'[e].disk = dev[e].disk /\ dev'[e].sec = dev[e].sec
                           /\ dev'[e].full = dev[e].full /\ dev'[e].buf = dev[e].buf
    BY <1>10, HandlerFacts, Zenon
  <2>2. Same
    BY <1>10, <2>1, ContentsStay, Zenon DEF Same
  <2> QED
    BY <1>10, <1>d, <1>m, <1>u, <2>2, Zenon
<1>11. ASSUME NEW c \in Channel, DeviceStep(c) PROVE UNCHANGED Store!storeVars
  <2>1. Same /\ dcall' = dcall
    BY <1>11, DeviceStepUnseen, Zenon DEF Same, DeviceStep
  <2> QED
    BY <1>d, <1>m, <1>u, <2>1, Zenon
<1>12. ASSUME NEW c \in Channel, DeviceFails(c) PROVE UNCHANGED Store!storeVars
  <2> DEFINE r == [dev[c] EXCEPT !.status = "idle", !.intr = TRUE]
  <2>1. /\ ~dev[c].full /\ media' = media /\ dcall' = dcall
        /\ dev' = [dev EXCEPT ![c].status = "idle", ![c].intr = TRUE]
    BY <1>12, Zenon DEF DeviceFails
  <2>2. dev \in [Channel -> CommandType] /\ dev[c] \in CommandType
    BY Fields, Zenon DEF DiskInv, DiskTyped
  <2>3. r.full = dev[c].full
    BY <2>2 DEF CommandType
  <2>4. dev' = [dev EXCEPT ![c] = r]
    BY <2>1, <2>2, Zenon
  <2> HIDE DEF r
  <2>5. dev'[c] = r /\ \A e \in Channel : e # c => dev'[e] = dev[e]
    BY <2>2, <2>4, Zenon
  <2>6. Same
    BY <2>1, <2>3, <2>5, ContentsStay, Zenon DEF Same
  <2> QED
    BY <1>d, <1>m, <1>u, <2>1, <2>6, Zenon
<1>13. CASE InDisk(DiskNext)
  <2>1. ~collided /\ DiskNext
    BY <1>13, Zenon DEF InDisk
  <2>2. ASSUME NEW t \in Caller, CallDriver(t) \/ DriverStep(t) \/ TransferFails(t)
        PROVE  Store!StoreNext \/ UNCHANGED Store!storeVars
    BY <1>2, <1>3, <1>4, <1>5, <1>6, <1>7, <1>8, <1>9, <2>1, <2>2, Zenon DEF DriverStep
  <2>3. ASSUME NEW c \in Channel, Interrupt(c) \/ Spurious(c) \/ DeviceStep(c) \/ DeviceFails(c)
        PROVE  UNCHANGED Store!storeVars
    <3>1. CASE Interrupt(c)
      BY <1>10, <3>1, Zenon DEF Interrupt
    <3>2. CASE Spurious(c)
      BY <1>10, <3>2, Zenon DEF Spurious
    <3> QED
      BY <1>11, <1>12, <2>3, <3>1, <3>2, Zenon
  <2> QED
    BY <2>1, <2>2, <2>3, Zenon DEF DiskNext
<1>14. CASE ~InDisk(DiskNext)
  <2>1. UNCHANGED diskVars
    BY <1>14, Zenon DEF Next, InConsole, InFile, vars
  <2> QED
    BY <1>1, <2>1, Zenon
<1> QED
  BY <1>13, <1>14, Zenon

\* The driver implements the atomic sectors of SectorStore: a disk_read() returns
\* what was last written to its sector, whatever the other threads and disks of
\* the channel do, as long as no command reaches a busy device.
THEOREM StoreImplemented == Spec => ImplementsStore
<1>1. DiskInv /\ DiskInv' /\ [Next]_vars => [Store!StoreNext]_(Store!storeVars)
  BY StoreNextRefined, Zenon
<1> QED
  BY <1>1, StoreInitRefined, DiskInvariant, PTL DEF Spec, ImplementsStore, Store!StoreSpec

-----------------------------------------------------------------------------
(* The console and the serial line.                                        *)

Char == (Printer \cup {InHandler, InPanic}) \X Nat
LeftType == [lines : Nat, messages : Nat, nested : Nat, input : Nat]
Inside == {"put", "asleep", "awake"}
PrintType == [pc : {"idle", "acquire"} \cup Inside, at : 1 .. LineLen + 1]

\* The output queue holds what is printed and not yet sent; before
\* serial_init_queue() everything is sent by polling.
OutputOK ==
  /\ mode \in {"POLL", "QUEUE"}
  /\ txq \in Seq(Char) /\ log \in Seq(Char) /\ sent \in Seq(Char)
  /\ mode = "POLL" => txq = <<>>
  /\ sent \o txq = log

\* The input queue holds what is accepted and not yet read.
InputOK ==
  /\ left \in LeftType
  /\ rbr \in Nat
  /\ input \in Seq(Nat) /\ typed \in Seq(Nat) /\ eaten \in Seq(Nat)
  /\ eaten \o input = typed

\* A thread that is inside a line has the console lock; the transmit queue's lock
\* belongs to the thread that sleeps on it.
PrintersOK ==
  /\ print \in [Printer -> PrintType]
  /\ not_full \in Printer \cup {Nobody}
  /\ \A t \in Printer : print[t].pc \in Inside => console_lock = t
  /\ \A t \in Printer : print[t].pc \in {"idle", "acquire"} => print[t].at = 1
  /\ \A t \in Printer : print[t].pc \in {"asleep", "awake"} => print[t].at <= LineLen
  /\ txq_lock # Nobody => txq_lock \in Printer /\ print[txq_lock].pc \in {"asleep", "awake"}
  /\ ~broken

\* Two characters of one thread with none of its own between them are neighbours
\* in a line, with no other thread's between them, or the end and the start of
\* two lines.
Ordered(q) ==
  \A i, j \in 1 .. Len(q) :
    i < j /\ q[i][1] = q[j][1] /\ q[i][1] \in Printer /\ (\A k \in i + 1 .. j - 1 : q[k][1] # q[i][1]) =>
      \/ q[i][2] = LineLen /\ q[j][2] = 1
      \/ q[j][2] = q[i][2] + 1 /\ \A k \in i .. j : q[k][1] \in Printer => q[k][1] = q[i][1]

\* The last character that a thread printed is c; t's last one ended a line.
LastIs(q, c) == \E m \in 1 .. Len(q) : q[m] = c /\ \A k \in m + 1 .. Len(q) : q[k][1] \notin Printer
Ended(q, t) ==
  \A m \in 1 .. Len(q) : q[m][1] = t /\ (\A k \in m + 1 .. Len(q) : q[k][1] # t) => q[m][2] = LineLen

\* How far t's line has come in the log.
LineOK(t) ==
  /\ print[t].at > 1 => LastIs(log, <<t, print[t].at - 1>>)
  /\ print[t].at = 1 => Ended(log, t)

LinesOK == Ordered(log) /\ \A t \in Printer : LineOK(t)

\* The inductive invariant.
ConsoleInv == OutputOK /\ InputOK /\ PrintersOK /\ LinesOK

-----------------------------------------------------------------------------
(* Sequences: a queue's first element moves, an element is added.           *)

\* intq_putc() after what was sent.
LEMMA AddLast ==
  ASSUME NEW S, NEW s \in Seq(S), NEW q \in Seq(S), NEW c \in S
  PROVE  s \o Append(q, c) = Append(s \o q, c) /\ Append(q, c) \in Seq(S)
  OBVIOUS

\* intq_getc() to what was sent.
LEMMA MoveFirst ==
  ASSUME NEW S, NEW s \in Seq(S), NEW q \in Seq(S), q # <<>>
  PROVE  /\ Append(s, Head(q)) \o Tail(q) = s \o q
         /\ Append(s, Head(q)) \in Seq(S) /\ Tail(q) \in Seq(S)
  OBVIOUS

\* What a log with one more character holds.
LEMMA Longer ==
  ASSUME NEW q \in Seq(Char), NEW c \in Char
  PROVE  /\ Append(q, c) \in Seq(Char) /\ Len(q) \in Nat /\ Len(Append(q, c)) = Len(q) + 1
         /\ \A i \in 1 .. Len(q) : Append(q, c)[i] = q[i]
         /\ Append(q, c)[Len(q) + 1] = c
  OBVIOUS

\* A handler's or the panic's character is in nobody's way.
LEMMA GrowOther ==
  ASSUME NEW q \in Seq(Char), NEW c \in Char, c[1] \notin Printer, Ordered(q)
  PROVE  /\ Ordered(Append(q, c))
         /\ \A d : LastIs(q, d) => LastIs(Append(q, c), d)
         /\ \A t \in Printer : Ended(q, t) => Ended(Append(q, c), t)
<1> DEFINE n == Len(q)
           r == Append(q, c)
<1>1. n \in Nat /\ Len(r) = n + 1 /\ (\A i \in 1 .. n : r[i] = q[i]) /\ r[n + 1] = c
  BY Longer, Zenon
<1> HIDE DEF n, r
<1>2. Ordered(r)
  <2> SUFFICES ASSUME NEW i \in 1 .. n + 1, NEW j \in 1 .. n + 1,
                      i < j, r[i][1] = r[j][1], r[i][1] \in Printer, \A k \in i + 1 .. j - 1 : r[k][1] # r[i][1]
               PROVE  \/ r[i][2] = LineLen /\ r[j][2] = 1
                      \/ r[j][2] = r[i][2] + 1 /\ \A k \in i .. j : r[k][1] \in Printer => r[k][1] = r[i][1]
    BY <1>1, Zenon DEF Ordered
  <2>1. i \in 1 .. n /\ j \in 1 .. n
    BY <1>1
  <2>2. r[i] = q[i] /\ r[j] = q[j] /\ \A k \in i .. j : k \in 1 .. n /\ r[k] = q[k]
    BY <1>1, <2>1
  <2>3. \A k \in i + 1 .. j - 1 : k \in i .. j
    BY <1>1, <2>1
  <2>4. \A k \in i + 1 .. j - 1 : q[k][1] # q[i][1]
    BY <2>2, <2>3, Zenon
  <2>5. \/ q[i][2] = LineLen /\ q[j][2] = 1
        \/ q[j][2] = q[i][2] + 1 /\ \A k \in i .. j : q[k][1] \in Printer => q[k][1] = q[i][1]
    <3>1. q[i][1] = q[j][1] /\ q[i][1] \in Printer
      BY <2>2, Zenon
    <3> QED
      BY <2>1, <2>4, <3>1, Zenon DEF Ordered, n
  <2> QED
    BY <2>2, <2>5, Zenon
<1>3. ASSUME NEW d, LastIs(q, d) PROVE LastIs(r, d)
  <2>1. PICK m \in 1 .. n : q[m] = d /\ \A k \in m + 1 .. n : q[k][1] \notin Printer
    BY <1>3, Zenon DEF LastIs, n
  <2>2. m \in 1 .. n + 1 /\ \A k \in m + 1 .. n + 1 : k = n + 1 \/ (k \in m + 1 .. n /\ k \in 1 .. n)
    BY <1>1
  <2> QED
    BY <1>1, <2>1, <2>2, Zenon DEF LastIs
<1>4. ASSUME NEW t \in Printer, Ended(q, t) PROVE Ended(r, t)
  <2> SUFFICES ASSUME NEW m \in 1 .. n + 1, r[m][1] = t, \A k \in m + 1 .. n + 1 : r[k][1] # t
               PROVE  r[m][2] = LineLen
    BY <1>1, Zenon DEF Ended
  <2>1. m \in 1 .. n
    BY <1>1
  <2>2. \A k \in m + 1 .. n : k \in 1 .. n /\ k \in m + 1 .. n + 1
    BY <1>1
  <2>3. q[m] = r[m] /\ \A k \in m + 1 .. n : q[k][1] # t
    BY <1>1, <2>1, <2>2, Zenon
  <2> QED
    BY <1>4, <2>1, <2>3, Zenon DEF Ended, n
<1> QED
  BY <1>2, <1>3, <1>4, Zenon DEF r

\* The next character of t's line, when no other line is open.
LEMMA GrowLine ==
  ASSUME NEW q \in Seq(Char), Ordered(q), NEW t \in Printer, NEW a \in Nat, a >= 1,
         a = 1 => Ended(q, t),
         a > 1 => LastIs(q, <<t, a - 1>>)
  PROVE  /\ Ordered(Append(q, <<t, a>>))
         /\ LastIs(Append(q, <<t, a>>), <<t, a>>)
         /\ \A u \in Printer : u # t /\ Ended(q, u) => Ended(Append(q, <<t, a>>), u)
<1> DEFINE n == Len(q)
           c == <<t, a>>
           r == Append(q, c)
<1>0. c \in Char /\ c[1] = t /\ c[2] = a
  BY DEF Char
<1>1. n \in Nat /\ Len(r) = n + 1 /\ (\A i \in 1 .. n : r[i] = q[i]) /\ r[n + 1] = c
  BY <1>0, Longer, Zenon
<1>f. \A i, j \in 1 .. n : i < j /\ r[i][1] = r[j][1] /\ r[i][1] \in Printer /\ (\A k \in i + 1 .. j - 1 : r[k][1] # r[i][1]) =>
        \/ r[i][2] = LineLen /\ r[j][2] = 1
        \/ r[j][2] = r[i][2] + 1 /\ \A k \in i .. j : r[k][1] \in Printer => r[k][1] = r[i][1]
  <2> HIDE DEF n, c, r
  <2> SUFFICES ASSUME NEW i \in 1 .. n, NEW j \in 1 .. n,
                      i < j, r[i][1] = r[j][1], r[i][1] \in Printer, \A k \in i + 1 .. j - 1 : r[k][1] # r[i][1]
               PROVE  \/ r[i][2] = LineLen /\ r[j][2] = 1
                      \/ r[j][2] = r[i][2] + 1 /\ \A k \in i .. j : r[k][1] \in Printer => r[k][1] = r[i][1]
    BY Zenon
  <2>2. r[i] = q[i] /\ r[j] = q[j] /\ \A k \in i .. j : k \in 1 .. n /\ r[k] = q[k]
    BY <1>1
  <2>3. \A k \in i + 1 .. j - 1 : k \in i .. j
    BY <1>1
  <2>4. \A k \in i + 1 .. j - 1 : q[k][1] # q[i][1]
    BY <2>2, <2>3, Zenon
  <2>5. \/ q[i][2] = LineLen /\ q[j][2] = 1
        \/ q[j][2] = q[i][2] + 1 /\ \A k \in i .. j : q[k][1] \in Printer => q[k][1] = q[i][1]
    <3>1. q[i][1] = q[j][1] /\ q[i][1] \in Printer
      BY <2>2, Zenon
    <3> QED
      BY <2>4, <3>1, Zenon DEF Ordered, n
  <2> QED
    BY <2>2, <2>5, Zenon
<1> HIDE DEF n, c, r
<1>2. ASSUME NEW i \in 1 .. n, r[i][1] = t, \A k \in i + 1 .. n : r[k][1] # t
      PROVE  \/ r[i][2] = LineLen /\ a = 1
             \/ a = r[i][2] + 1 /\ \A k \in i .. n + 1 : r[k][1] \in Printer => r[k][1] = t
  <2>1. \A k \in i + 1 .. n : k \in 1 .. n
    BY <1>1
  <2>2. q[i][1] = t /\ \A k \in i + 1 .. n : q[k][1] # t
    BY <1>1, <1>2, <2>1, Zenon
  <2>3. CASE a = 1
    BY <1>1, <2>2, <2>3, Zenon DEF Ended, n
  <2>4. CASE a > 1
    <3>1. PICK m \in 1 .. n : q[m] = <<t, a - 1>> /\ \A k \in m + 1 .. n : q[k][1] \notin Printer
      BY <2>4, Zenon DEF LastIs, n
    <3>2. q[m][1] = t /\ q[m][2] = a - 1
      BY <3>1
    <3>3. ~(m < i) /\ ~(i < m)
      BY <1>1, <2>2, <3>1, <3>2
    <3>4. m = i
      BY <1>1, <3>3
    <3>5. a = q[i][2] + 1
      BY <3>2, <3>4
    <3>6. \A k \in i .. n + 1 : k = i \/ k = n + 1 \/ (k \in i + 1 .. n /\ k \in 1 .. n)
      BY <1>1
    <3>7. \A k \in i .. n + 1 : r[k][1] \in Printer => r[k][1] = t
      BY <1>0, <1>1, <2>2, <3>1, <3>4, <3>6, Zenon
    <3> QED
      BY <1>1, <3>5, <3>7, Zenon
  <2> QED
    BY <2>3, <2>4
<1>3. Ordered(r)
  <2> SUFFICES ASSUME NEW i \in 1 .. n + 1, NEW j \in 1 .. n + 1,
                      i < j, r[i][1] = r[j][1], r[i][1] \in Printer, \A k \in i + 1 .. j - 1 : r[k][1] # r[i][1]
               PROVE  \/ r[i][2] = LineLen /\ r[j][2] = 1
                      \/ r[j][2] = r[i][2] + 1 /\ \A k \in i .. j : r[k][1] \in Printer => r[k][1] = r[i][1]
    BY <1>1, Zenon DEF Ordered
  <2>1. CASE j = n + 1
    <3>1. i \in 1 .. n /\ j - 1 = n
      BY <1>1, <2>1
    <3>2. r[j][1] = t /\ r[j][2] = a
      BY <1>0, <1>1, <2>1, Zenon
    <3> QED
      BY <1>2, <2>1, <3>1, <3>2, Zenon
  <2>2. CASE j # n + 1
    <3>1. i \in 1 .. n /\ j \in 1 .. n
      BY <1>1, <2>2
    <3> QED
      BY <1>f, <3>1, Zenon
  <2> QED
    BY <2>1, <2>2, Zenon
<1>4. LastIs(r, c)
  <2>1. n + 1 \in 1 .. n + 1 /\ \A k \in (n + 1) + 1 .. n + 1 : FALSE
    BY <1>1
  <2> QED
    BY <1>1, <2>1, Zenon DEF LastIs
<1>5. ASSUME NEW u \in Printer, u # t, Ended(q, u) PROVE Ended(r, u)
  <2> SUFFICES ASSUME NEW m \in 1 .. n + 1, r[m][1] = u, \A k \in m + 1 .. n + 1 : r[k][1] # u
               PROVE  r[m][2] = LineLen
    BY <1>1, Zenon DEF Ended
  <2>1. m # n + 1
    BY <1>0, <1>1, <1>5, Zenon
  <2>2. m \in 1 .. n
    BY <1>1, <2>1
  <2>3. \A k \in m + 1 .. n : k \in 1 .. n /\ k \in m + 1 .. n + 1
    BY <1>1
  <2> QED
    BY <1>1, <1>5, <2>2, <2>3, Zenon DEF Ended, n
<1> QED
  BY <1>3, <1>4, <1>5, Zenon DEF r, c

\* After its last character a line has ended.
LEMMA LineEnds ==
  ASSUME NEW q \in Seq(Char), NEW t \in Printer, LastIs(q, <<t, LineLen>>)
  PROVE  Ended(q, t)
<1> DEFINE n == Len(q)
<1>1. n \in Nat
  OBVIOUS
<1>2. PICK m \in 1 .. n : q[m] = <<t, LineLen>> /\ \A k \in m + 1 .. n : q[k][1] \notin Printer
  BY Zenon DEF LastIs
<1>3. q[m][1] = t /\ q[m][2] = LineLen
  BY <1>2
<1> HIDE DEF n
<1> SUFFICES ASSUME NEW i \in 1 .. n, q[i][1] = t, \A k \in i + 1 .. n : q[k][1] # t
             PROVE  q[i][2] = LineLen
  BY Zenon DEF Ended, n
<1>4. ~(m < i) /\ ~(i < m)
  BY <1>1, <1>2, <1>3
<1>5. m = i
  BY <1>1, <1>4
<1> QED
  BY <1>3, <1>5, Zenon

-----------------------------------------------------------------------------
(* What a step leaves alone.                                               *)

\* No thread goes on; at most a sleeping one is woken.
Calm ==
  /\ print' \in [Printer -> PrintType]
  /\ \A t \in Printer :
       /\ print'[t].at = print[t].at
       /\ print'[t].pc = print[t].pc \/ (print[t].pc = "asleep" /\ print'[t].pc = "awake")

\* intq_getc()'s signal to the waiter.
LEMMA WakeCalm ==
  ASSUME PrintersOK, print' = Wake \/ print' = print
  PROVE  Calm
<1>1. print \in [Printer -> PrintType] /\ not_full \in Printer \cup {Nobody}
  BY Zenon DEF PrintersOK
<1>2. CASE print' = print
  BY <1>1, <1>2, Zenon DEF Calm
<1>3. CASE print' # print
  <2>1. not_full \in Printer /\ print[not_full].pc = "asleep"
        /\ print' = [print EXCEPT ![not_full].pc = "awake"]
    BY <1>1, <1>3, Zenon DEF Wake
  <2> DEFINE r == [print[not_full] EXCEPT !.pc = "awake"]
  <2>2. print' = [print EXCEPT ![not_full] = r] /\ print[not_full] \in PrintType
    BY <1>1, <2>1, Zenon
  <2>3. r \in PrintType /\ r.pc = "awake" /\ r.at = print[not_full].at
    BY <2>2, Zenon DEF PrintType, Inside
  <2> HIDE DEF r
  <2>4. /\ print' \in [Printer -> PrintType] /\ print'[not_full] = r
        /\ \A t \in Printer : t # not_full => print'[t] = print[t]
    BY <1>1, <2>1, <2>2, <2>3, Zenon
  <2> QED
    BY <2>1, <2>3, <2>4, Zenon DEF Calm
<1> QED
  BY <1>2, <1>3, Zenon

\* Then the locks are held as before.
LEMMA PrintersStay ==
  ASSUME PrintersOK, Calm, not_full' \in Printer \cup {Nobody}, UNCHANGED <<console_lock, txq_lock, broken>>
  PROVE  PrintersOK'
<1>1. \A t \in Printer : print'[t].pc \in {"idle", "acquire"} => print[t].pc \in {"idle", "acquire"}
  BY Zenon DEF Calm
<1>2. \A t \in Printer : /\ print'[t].pc \in Inside => print[t].pc \in Inside
                         /\ print'[t].pc \in {"asleep", "awake"} <=> print[t].pc \in {"asleep", "awake"}
  BY Zenon DEF Calm, Inside
<1>3. /\ \A t \in Printer : print'[t].pc \in Inside => console_lock' = t
      /\ \A t \in Printer : print'[t].pc \in {"idle", "acquire"} => print'[t].at = 1
      /\ \A t \in Printer : print'[t].pc \in {"asleep", "awake"} => print'[t].at <= LineLen
  BY <1>1, <1>2, Zenon DEF PrintersOK, Calm
<1>4. txq_lock' # Nobody => txq_lock' \in Printer /\ print'[txq_lock'].pc \in {"asleep", "awake"}
  BY <1>2, Zenon DEF PrintersOK
<1>5. ~broken'
  BY Zenon DEF PrintersOK
<1> QED
  BY <1>3, <1>4, <1>5, Zenon DEF PrintersOK, Calm

\* And the lines have come as far as before, whatever a handler adds.
LEMMA LinesStay ==
  ASSUME OutputOK, LinesOK, Calm,
         \/ log' = log
         \/ \E c \in Char : c[1] \notin Printer /\ log' = Append(log, c)
  PROVE  LinesOK'
<1>1. \A t \in Printer : print'[t].at = print[t].at
  BY Zenon DEF Calm
<1>2. log \in Seq(Char)
  BY Zenon DEF OutputOK
<1>3. CASE log' = log
  BY <1>1, <1>3, Zenon DEF LinesOK, LineOK
<1>4. ASSUME NEW c \in Char, c[1] \notin Printer, log' = Append(log, c) PROVE LinesOK'
  <2>1. /\ Ordered(log')
        /\ \A d : LastIs(log, d) => LastIs(log', d)
        /\ \A t \in Printer : Ended(log, t) => Ended(log', t)
    BY <1>2, <1>4, GrowOther, Zenon DEF LinesOK
  <2>2. ASSUME NEW t \in Printer PROVE LineOK(t)'
    BY <1>1, <2>1, Zenon DEF LinesOK, LineOK
  <2> QED
    BY <2>1, <2>2, Zenon DEF LinesOK
<1> QED
  BY <1>3, <1>4, Zenon

\* One thread moves.
LEMMA Works ==
  ASSUME PrintersOK, NEW t \in Printer, NEW pc \in {"idle", "acquire"} \cup Inside, NEW at \in 1 .. LineLen + 1,
         Work(t, pc, at)
  PROVE  /\ print' \in [Printer -> PrintType] /\ print'[t].pc = pc /\ print'[t].at = at
         /\ \A u \in Printer : u # t => print'[u] = print[u]
<1> DEFINE r == [pc |-> pc, at |-> at]
<1>1. r \in PrintType /\ r.pc = pc /\ r.at = at
  BY DEF PrintType
<1>2. print \in [Printer -> PrintType] /\ print' = [print EXCEPT ![t] = r]
  BY Zenon DEF PrintersOK, Work
<1> HIDE DEF r
<1> QED
  BY <1>1, <1>2, Zenon

\* What is known of a thread that prints.
LEMMA PrintFields ==
  ASSUME PrintersOK, NEW t \in Printer
  PROVE  /\ print[t].pc \in {"idle", "acquire"} \cup Inside /\ print[t].at \in 1 .. LineLen + 1
         /\ LineLen \in Nat /\ LineLen >= 1 /\ 1 \in 1 .. LineLen + 1 /\ t # Nobody
         /\ print[t].at <= LineLen => print[t].at + 1 \in 1 .. LineLen + 1
<1>1. print[t] \in PrintType
  BY Zenon DEF PrintersOK
<1>2. print[t].pc \in {"idle", "acquire"} \cup Inside /\ print[t].at \in 1 .. LineLen + 1
  BY <1>1, Zenon DEF PrintType
<1>3. LineLen \in Nat /\ LineLen >= 1
  BY ConsoleAssumption
<1>4. t # Nobody
  BY ConsoleAssumption, Zenon
<1>5. 1 \in 1 .. LineLen + 1 /\ (print[t].at <= LineLen => print[t].at + 1 \in 1 .. LineLen + 1)
  BY <1>2, <1>3
<1> QED
  BY <1>2, <1>3, <1>4, <1>5, Zenon

\* A thread moves within its line or outside of one, and nothing is printed.
LEMMA PrinterMoves ==
  ASSUME ConsoleInv, NEW t \in Printer, \A u \in Printer : u # t => print'[u] = print[u],
         print' \in [Printer -> PrintType], not_full' \in Printer \cup {Nobody}, ~broken',
         \A u \in Printer : u # t /\ print[u].pc \in Inside => console_lock' = u,
         print'[t].pc \in Inside => console_lock' = t,
         print'[t].pc \in {"idle", "acquire"} => print'[t].at = 1,
         print'[t].pc \in {"asleep", "awake"} => print'[t].at <= LineLen,
         txq_lock' # Nobody => txq_lock' \in Printer /\ print'[txq_lock'].pc \in {"asleep", "awake"},
         UNCHANGED <<mode, txq, log, sent, input, rbr, typed, eaten>>,
         left' \in LeftType,
         LineOK(t)'
  PROVE  ConsoleInv'
<1>1. OutputOK'
  BY Zenon DEF ConsoleInv, OutputOK
<1>2. InputOK'
  BY Zenon DEF ConsoleInv, InputOK
<1>3. PrintersOK'
  <2>1. \A u \in Printer : print'[u].pc \in Inside => console_lock' = u
    BY Zenon
  <2>2. \A u \in Printer : print'[u].pc \in {"idle", "acquire"} => print'[u].at = 1
    BY Zenon DEF ConsoleInv, PrintersOK
  <2>3. \A u \in Printer : print'[u].pc \in {"asleep", "awake"} => print'[u].at <= LineLen
    BY Zenon DEF ConsoleInv, PrintersOK
  <2> QED
    BY <2>1, <2>2, <2>3, Zenon DEF PrintersOK
<1>4. LinesOK'
  <2>1. ASSUME NEW u \in Printer PROVE LineOK(u)'
    <3>1. CASE u = t
      BY <3>1, Zenon
    <3>2. CASE u # t
      BY <3>2, Zenon DEF ConsoleInv, LinesOK, LineOK
    <3> QED
      BY <3>1, <3>2, Zenon
  <2> QED
    BY <2>1, Zenon DEF ConsoleInv, LinesOK
<1> QED
  BY <1>1, <1>2, <1>3, <1>4, Zenon DEF ConsoleInv

\* A bound goes down.
LEMMA Spend ==
  ASSUME InputOK
  PROVE  /\ left.lines > 0 => [left EXCEPT !.lines = left.lines - 1] \in LeftType
         /\ left.messages > 0 => [left EXCEPT !.messages = left.messages - 1] \in LeftType
         /\ left.nested > 0 => [left EXCEPT !.nested = left.nested - 1] \in LeftType
         /\ left.input > 0 => [left EXCEPT !.input = left.input - 1] \in LeftType
         /\ left.messages \in Nat /\ left.input \in Nat
<1>1. left \in LeftType
  BY Zenon DEF InputOK
<1>2. left.lines \in Nat /\ left.messages \in Nat /\ left.nested \in Nat /\ left.input \in Nat
  BY <1>1, Zenon DEF LeftType
<1>3. \A n \in Nat : n > 0 => n - 1 \in Nat
  OBVIOUS
<1>4. \A n \in Nat : /\ [left EXCEPT !.lines = n] \in LeftType /\ [left EXCEPT !.messages = n] \in LeftType
                     /\ [left EXCEPT !.nested = n] \in LeftType /\ [left EXCEPT !.input = n] \in LeftType
  BY <1>1, Zenon DEF LeftType
<1> QED
  BY <1>2, <1>3, <1>4, Zenon

-----------------------------------------------------------------------------
(* Every step keeps the invariant.                                         *)

\* At the start nothing has been printed or typed.
LEMMA ConsoleInvInit == ConsoleInit => ConsoleInv
<1> SUFFICES ASSUME ConsoleInit PROVE ConsoleInv
  BY Zenon
<1>1. OutputOK
  BY DEF ConsoleInit, OutputOK
<1>2. InputOK
  BY ConsoleAssumption DEF ConsoleInit, InputOK, LeftType, NoByte
<1>3. \A t \in Printer : print[t].pc = "idle" /\ print[t].at = 1
  BY Zenon DEF ConsoleInit
<1>4. PrintersOK
  <2>1. LineLen \in Nat
    BY ConsoleAssumption
  <2>2. [pc |-> "idle", at |-> 1] \in PrintType
    BY <2>1 DEF PrintType
  <2>3. print \in [Printer -> PrintType]
    BY <2>2, Zenon DEF ConsoleInit
  <2>4. "idle" \notin Inside
    BY Zenon DEF Inside
  <2> QED
    BY <1>3, <2>3, <2>4, Zenon DEF ConsoleInit, PrintersOK
<1>5. LinesOK
  <2>1. log = <<>> /\ Len(log) = 0 /\ 1 .. Len(log) = {}
    BY DEF ConsoleInit
  <2> QED
    BY <1>3, <2>1 DEF LinesOK, LineOK, Ordered, Ended
<1> QED
  BY <1>1, <1>2, <1>4, <1>5, Zenon DEF ConsoleInv

\* putbuf(), puts(), vprintf(): a thread begins to print.
LEMMA StartLineStep ==
  ASSUME ConsoleInv, NEW t \in Printer, StartLine(t)
  PROVE  ConsoleInv'
<1>1. /\ print[t].pc = "idle" /\ Work(t, "acquire", 1) /\ left.lines > 0 /\ left' = [left EXCEPT !.lines = left.lines - 1]
      /\ UNCHANGED <<mode, txq, log, sent, not_full, txq_lock, console_lock, input, rbr, typed, eaten, broken>>
  BY Zenon DEF StartLine, outputVars, inputVars, lockVars
<1>2. print[t].at = 1 /\ 1 \in 1 .. LineLen + 1 /\ PrintersOK
  BY <1>1, PrintFields, Zenon DEF ConsoleInv, PrintersOK
<1>3. /\ print' \in [Printer -> PrintType] /\ print'[t].pc = "acquire" /\ print'[t].at = 1
      /\ \A u \in Printer : u # t => print'[u] = print[u]
  BY <1>1, <1>2, Works, Zenon
<1>4. left' \in LeftType
  BY <1>1, Spend, Zenon DEF ConsoleInv
<1>5. LineOK(t)'
  BY <1>1, <1>2, <1>3, Zenon DEF ConsoleInv, LinesOK, LineOK
<1>6. "acquire" \notin Inside /\ "acquire" \notin {"asleep", "awake"}
  BY Zenon DEF Inside
<1>7. txq_lock # Nobody => txq_lock \in Printer /\ txq_lock # t /\ print'[txq_lock].pc \in {"asleep", "awake"}
  BY <1>1, <1>3, Zenon DEF ConsoleInv, PrintersOK
<1> QED
  BY <1>1, <1>3, <1>4, <1>5, <1>6, <1>7, PrinterMoves, Zenon DEF ConsoleInv, PrintersOK

\* acquire_console(): no other thread is inside a line.
LEMMA AcquireConsoleStep ==
  ASSUME ConsoleInv, NEW t \in Printer, acquire_console(t)
  PROVE  ConsoleInv'
<1>1. /\ print[t].pc = "acquire" /\ Work(t, "put", 1) /\ console_lock = Nobody /\ console_lock' = t
      /\ UNCHANGED <<mode, txq, log, sent, not_full, txq_lock, input, rbr, typed, eaten, left, broken>>
  BY Zenon DEF acquire_console, outputVars, inputVars
<1>2. print[t].at = 1 /\ 1 \in 1 .. LineLen + 1 /\ PrintersOK /\ "put" \in Inside
  BY <1>1, PrintFields, Zenon DEF ConsoleInv, PrintersOK, Inside
<1>3. /\ print' \in [Printer -> PrintType] /\ print'[t].pc = "put" /\ print'[t].at = 1
      /\ \A u \in Printer : u # t => print'[u] = print[u]
  BY <1>1, <1>2, Works, Zenon
<1>4. LineOK(t)'
  BY <1>1, <1>2, <1>3, Zenon DEF ConsoleInv, LinesOK, LineOK
<1>5. \A u \in Printer : print[u].pc \notin Inside
  BY <1>1, <1>2, PrintFields, Zenon DEF PrintersOK
<1>6. txq_lock # Nobody => txq_lock \in Printer /\ txq_lock # t /\ print'[txq_lock].pc \in {"asleep", "awake"}
  BY <1>1, <1>3, Zenon DEF ConsoleInv, PrintersOK
<1>7. left' \in LeftType
  BY <1>1, Zenon DEF ConsoleInv, InputOK
<1> QED
  BY <1>1, <1>3, <1>4, <1>5, <1>6, <1>7, PrinterMoves, Zenon DEF ConsoleInv, PrintersOK

\* wait() goes on: the thread gives up the queue's lock and looks again.
LEMMA WokenStep ==
  ASSUME ConsoleInv, NEW t \in Printer, Woken(t)
  PROVE  ConsoleInv'
<1>1. /\ print[t].pc = "awake" /\ Work(t, "put", print[t].at) /\ txq_lock' = Nobody
      /\ UNCHANGED <<mode, txq, log, sent, not_full, console_lock, input, rbr, typed, eaten, left, broken>>
  BY Zenon DEF Woken, inputVars, lockVars
<1>2. print[t].at \in 1 .. LineLen + 1 /\ PrintersOK /\ "put" \in Inside /\ "awake" \in Inside
  BY <1>1, PrintFields, Zenon DEF ConsoleInv, Inside
<1>3. /\ print' \in [Printer -> PrintType] /\ print'[t].pc = "put" /\ print'[t].at = print[t].at
      /\ \A u \in Printer : u # t => print'[u] = print[u]
  BY <1>1, <1>2, Works, Zenon
<1>4. LineOK(t)'
  BY <1>1, <1>3, Zenon DEF ConsoleInv, LinesOK, LineOK
<1>5. left' \in LeftType
  BY <1>1, Zenon DEF ConsoleInv, InputOK
<1> QED
  BY <1>1, <1>2, <1>3, <1>4, <1>5, PrinterMoves, Zenon DEF ConsoleInv, PrintersOK

\* A nested print changes only the depth.
LEMMA PrintNestedStep ==
  ASSUME ConsoleInv, NEW t \in Printer, PrintNested(t)
  PROVE  ConsoleInv'
<1>1. /\ left.nested > 0 /\ left' = [left EXCEPT !.nested = left.nested - 1]
      /\ UNCHANGED <<mode, txq, log, sent, not_full, txq_lock, console_lock, input, rbr, typed, eaten, print, broken>>
  BY Zenon DEF PrintNested, outputVars, inputVars
<1>2. left' \in LeftType
  BY <1>1, Spend, Zenon DEF ConsoleInv
<1>3. OutputOK' /\ InputOK'
  BY <1>1, <1>2, Zenon DEF ConsoleInv, OutputOK, InputOK
<1>4. PrintersOK'
  BY <1>1, Zenon DEF ConsoleInv, PrintersOK
<1>5. LinesOK'
  BY <1>1, Zenon DEF ConsoleInv, LinesOK, LineOK
<1> QED
  BY <1>3, <1>4, <1>5, Zenon DEF ConsoleInv

\* release_console(): the line is complete when the lock is given up.
LEMMA ReleaseConsoleStep ==
  ASSUME ConsoleInv, NEW t \in Printer, release_console(t)
  PROVE  ConsoleInv'
<1>1. /\ print[t].pc = "put"
      /\ UNCHANGED <<mode, txq, log, sent, not_full, txq_lock, input, rbr, typed, eaten, left, broken>>
  BY Zenon DEF release_console, outputVars, inputVars
<1>2. CASE UNCHANGED <<console_lock, print>>
  <2>1. OutputOK' /\ InputOK'
    BY <1>1, Zenon DEF ConsoleInv, OutputOK, InputOK
  <2>2. PrintersOK'
    BY <1>1, <1>2, Zenon DEF ConsoleInv, PrintersOK
  <2>3. LinesOK'
    BY <1>1, <1>2, Zenon DEF ConsoleInv, LinesOK, LineOK
  <2> QED
    BY <2>1, <2>2, <2>3, Zenon DEF ConsoleInv
<1>3. CASE print[t].at > LineLen /\ console_lock' = Nobody /\ Work(t, "idle", 1)
  <2>1. /\ print[t].at \in 1 .. LineLen + 1 /\ LineLen \in Nat /\ LineLen >= 1 /\ 1 \in 1 .. LineLen + 1
        /\ PrintersOK /\ "put" \in Inside /\ "idle" \notin Inside
    BY PrintFields, Zenon DEF ConsoleInv, Inside
  <2>2. print[t].at > 1 /\ print[t].at - 1 = LineLen
    BY <1>3, <2>1
  <2>3. /\ print' \in [Printer -> PrintType] /\ print'[t].pc = "idle" /\ print'[t].at = 1
        /\ \A u \in Printer : u # t => print'[u] = print[u]
    BY <1>3, <2>1, Works, Zenon
  <2>4. LastIs(log, <<t, LineLen>>) /\ log \in Seq(Char)
    BY <2>2, Zenon DEF ConsoleInv, LinesOK, LineOK, OutputOK
  <2>5. Ended(log, t)
    BY <2>4, LineEnds, Zenon
  <2>6. LineOK(t)'
    <3>1. ~(print'[t].at > 1)
      BY <2>3
    <3> QED
      BY <1>1, <2>5, <3>1, Zenon DEF LineOK
  <2>7. \A u \in Printer : u # t => print[u].pc \notin Inside
    BY <1>1, <2>1, Zenon DEF PrintersOK
  <2>8. txq_lock # Nobody => txq_lock \in Printer /\ txq_lock # t /\ print'[txq_lock].pc \in {"asleep", "awake"}
    BY <1>1, <2>3, Zenon DEF ConsoleInv, PrintersOK
  <2>9. left' \in LeftType
    BY <1>1, Zenon DEF ConsoleInv, InputOK
  <2> QED
    BY <1>1, <1>3, <2>1, <2>3, <2>6, <2>7, <2>8, <2>9, PrinterMoves, Zenon DEF ConsoleInv, PrintersOK
<1> QED
  BY <1>2, <1>3, Zenon DEF release_console

\* serial_putc() by a thread: the character is sent or queued, or the thread
\* sleeps.  The transmit queue's lock is free, as its owner would have to be
\* inside a line too.
LEMMA PutCharStep ==
  ASSUME ConsoleInv, NEW t \in Printer, PutChar(t)
  PROVE  ConsoleInv'
<1> DEFINE a == print[t].at
           c == <<t, a>>
<1>1. /\ print[t].pc = "put" /\ a <= LineLen /\ serial_putc(t)
      /\ UNCHANGED <<mode, rbr, typed, eaten, console_lock, left>>
  BY Zenon DEF PutChar, lockVars
<1>2. input' = input
  BY <1>1, Zenon DEF serial_putc
<1>3. /\ a \in 1 .. LineLen + 1 /\ a + 1 \in 1 .. LineLen + 1 /\ LineLen \in Nat /\ PrintersOK
      /\ "put" \in Inside /\ "asleep" \in Inside /\ "put" \notin {"idle", "acquire"} /\ t # Nobody
  BY <1>1, PrintFields, Zenon DEF ConsoleInv, Inside
<1>4. a \in Nat /\ a >= 1 /\ (a + 1) - 1 = a /\ a + 1 > 1 /\ a + 1 # 1
  BY <1>3
<1>5. c \in Char
  BY <1>4 DEF Char
<1>6. \A u \in Printer : u # t => print[u].pc \notin Inside
  BY <1>1, <1>3, Zenon DEF PrintersOK
<1>7. console_lock = t /\ txq_lock = Nobody
  <2>1. console_lock = t
    BY <1>1, <1>3, Zenon DEF PrintersOK
  <2>2. ASSUME txq_lock # Nobody PROVE FALSE
    <3>1. txq_lock \in Printer /\ print[txq_lock].pc \in {"asleep", "awake"}
      BY <1>3, <2>2, Zenon DEF PrintersOK
    <3>2. txq_lock # t /\ print[txq_lock].pc \in Inside
      BY <1>1, <3>1, Zenon DEF Inside
    <3> QED
      BY <1>6, <3>1, <3>2, Zenon
  <2> QED
    BY <2>1, <2>2, Zenon
<1>8. /\ txq \in Seq(Char) /\ log \in Seq(Char) /\ sent \in Seq(Char) /\ sent \o txq = log
      /\ mode \in {"POLL", "QUEUE"} /\ (mode = "POLL" => txq = <<>>)
  BY Zenon DEF ConsoleInv, OutputOK
<1>9. InputOK'
  BY <1>1, <1>2, Zenon DEF ConsoleInv, InputOK
<1>10. ASSUME log' = Append(log, c), Work(t, "put", a + 1), UNCHANGED <<not_full, txq_lock, broken>>
       PROVE  PrintersOK' /\ LinesOK'
  <2>1. /\ print' \in [Printer -> PrintType] /\ print'[t].pc = "put" /\ print'[t].at = a + 1
        /\ \A u \in Printer : u # t => print'[u] = print[u]
    BY <1>3, <1>10, Works, Zenon
  <2>2. PrintersOK'
    <3>1. \A u \in Printer : print'[u].pc \in Inside => console_lock' = u
      BY <1>1, <1>6, <1>7, <2>1, Zenon
    <3>2. \A u \in Printer : print'[u].pc \in {"idle", "acquire"} => print'[u].at = 1
      BY <1>3, <2>1, Zenon DEF PrintersOK
    <3>3. \A u \in Printer : print'[u].pc \in {"asleep", "awake"} => print'[u].at <= LineLen
      BY <1>3, <2>1, Zenon DEF PrintersOK
    <3> QED
      BY <1>3, <1>7, <1>10, <2>1, <3>1, <3>2, <3>3, Zenon DEF PrintersOK
  <2>3. Ordered(log) /\ (a = 1 => Ended(log, t)) /\ (a > 1 => LastIs(log, <<t, a - 1>>))
    BY Zenon DEF ConsoleInv, LinesOK, LineOK
  <2> HIDE DEF a, c
  <2>4. /\ Ordered(log') /\ LastIs(log', <<t, a>>)
        /\ \A u \in Printer : u # t /\ Ended(log, u) => Ended(log', u)
    BY <1>4, <1>8, <1>10, <2>3, GrowLine, Zenon DEF c
  <2>5. ASSUME NEW u \in Printer PROVE LineOK(u)'
    <3>1. CASE u = t
      BY <1>4, <2>1, <2>4, <3>1, Zenon DEF LineOK
    <3>2. CASE u # t
      <4>1. print[u].pc \in {"idle", "acquire"}
        BY <1>3, <1>6, <3>2, PrintFields, Zenon
      <4>2. print'[u].at = 1 /\ Ended(log, u)
        BY <1>3, <2>1, <3>2, <4>1, Zenon DEF PrintersOK, ConsoleInv, LinesOK, LineOK
      <4>3. ~(print'[u].at > 1)
        BY <4>2
      <4> QED
        BY <2>4, <3>2, <4>2, <4>3, Zenon DEF LineOK
    <3> QED
      BY <3>1, <3>2, Zenon
  <2> QED
    BY <2>2, <2>4, <2>5, Zenon DEF LinesOK
<1>11. CASE /\ mode = "POLL"
            /\ sent' = Append(sent, c) /\ log' = Append(log, c) /\ Work(t, "put", a + 1)
            /\ UNCHANGED <<txq, not_full, txq_lock, broken>>
  <2>1. sent' \o txq' = log' /\ sent' \in Seq(Char) /\ log' \in Seq(Char)
    <3>s. sent \in Seq(Char)
      BY <1>8, Zenon
    <3>a. sent \o <<>> = sent
      BY <3>s
    <3>b. txq' = <<>> /\ txq = <<>>
      BY <1>8, <1>11, Zenon
    <3>c. sent = log
      BY <1>8, <3>a, <3>b, Zenon
    <3>1. txq' = <<>> /\ sent \o <<>> = sent /\ sent = log
      BY <3>a, <3>b, <3>c, Zenon
    <3>2. log' \in Seq(Char) /\ sent' = log'
      BY <1>5, <1>8, <1>11, <3>1, Longer, Zenon
    <3>3. log' \o <<>> = log'
      BY <3>2
    <3> QED
      BY <3>1, <3>2, <3>3, Zenon
  <2>2. OutputOK'
    BY <1>1, <1>8, <1>11, <2>1, Zenon DEF OutputOK
  <2> QED
    BY <1>9, <1>10, <1>11, <2>2, Zenon DEF ConsoleInv
<1>12. CASE /\ mode = "QUEUE"
            /\ txq' = Append(txq, c) /\ log' = Append(log, c) /\ Work(t, "put", a + 1)
            /\ UNCHANGED <<not_full, txq_lock, sent, broken>>
  <2>1. sent' \o txq' = log' /\ txq' \in Seq(Char) /\ log' \in Seq(Char)
    <3>s. sent \in Seq(Char) /\ txq \in Seq(Char)
      BY <1>8, Zenon
    <3> HIDE DEF c
    <3>a. sent \o Append(txq, c) = Append(sent \o txq, c) /\ Append(txq, c) \in Seq(Char)
      BY <1>5, <3>s
    <3>b. Append(log, c) \in Seq(Char)
      BY <1>5, <1>8, Longer, Zenon
    <3>c. sent' = sent /\ txq' = Append(txq, c) /\ log' = Append(log, c) /\ sent \o txq = log
      BY <1>8, <1>12, Zenon DEF c
    <3> QED
      BY <3>a, <3>b, <3>c
  <2>2. mode' = "QUEUE" /\ "QUEUE" # "POLL"
    BY <1>1, <1>12, Zenon
  <2>3. OutputOK'
    BY <1>8, <1>12, <2>1, <2>2, Zenon DEF OutputOK
  <2> QED
    BY <1>9, <1>10, <1>12, <2>3, Zenon DEF ConsoleInv
<1>13. CASE /\ broken' = (broken \/ txq_lock # Nobody) /\ txq_lock' = t /\ not_full' = t
            /\ Work(t, "asleep", a) /\ UNCHANGED <<txq, log, sent>>
  <2>1. /\ print' \in [Printer -> PrintType] /\ print'[t].pc = "asleep" /\ print'[t].at = a
        /\ \A u \in Printer : u # t => print'[u] = print[u]
    BY <1>3, <1>13, Works, Zenon
  <2>2. ~broken'
    BY <1>3, <1>7, <1>13, Zenon DEF PrintersOK
  <2>3. LineOK(t)'
    BY <1>13, <2>1, Zenon DEF ConsoleInv, LinesOK, LineOK
  <2>4. left' \in LeftType
    BY <1>1, Zenon DEF ConsoleInv, InputOK
  <2> HIDE DEF c
  <2> QED
    BY <1>1, <1>2, <1>6, <1>7, <1>13, <2>1, <2>2, <2>3, <2>4, PrinterMoves, Zenon
<1> QED
  BY <1>1, <1>11, <1>12, <1>13, Zenon DEF serial_putc

\* An interrupt handler prints: if there is no room, the queue's first character
\* is sent before.
LEMMA HandlerPrintsStep ==
  ASSUME ConsoleInv, HandlerPrints
  PROVE  ConsoleInv'
<1> DEFINE c == <<InHandler, left.messages>>
           full == intq_full(txq)
<1>1. /\ left.messages > 0 /\ left' = [left EXCEPT !.messages = left.messages - 1] /\ log' = Append(log, c)
      /\ UNCHANGED <<mode, txq_lock, input, rbr, typed, eaten, console_lock, broken>>
  BY Zenon DEF HandlerPrints, inputVars, lockVars
<1>2. left.messages \in Nat /\ left' \in LeftType
  BY <1>1, Spend, Zenon DEF ConsoleInv
<1>3. c \in Char /\ c[1] \notin Printer
  BY <1>2, ConsoleAssumption DEF Char
<1>4. InputOK'
  BY <1>1, <1>2, Zenon DEF ConsoleInv, InputOK
<1>5. (print' = Wake \/ print' = print) /\ not_full' \in Printer \cup {Nobody}
  BY Zenon DEF HandlerPrints, ConsoleInv, PrintersOK
<1>6. Calm
  BY <1>5, WakeCalm, Zenon DEF ConsoleInv
<1>7. PrintersOK'
  BY <1>1, <1>5, <1>6, PrintersStay, Zenon DEF ConsoleInv
<1>8. /\ txq \in Seq(Char) /\ log \in Seq(Char) /\ sent \in Seq(Char) /\ sent \o txq = log
      /\ mode \in {"POLL", "QUEUE"} /\ (mode = "POLL" => txq = <<>>)
  BY Zenon DEF ConsoleInv, OutputOK
<1>9. LinesOK'
  BY <1>1, <1>3, <1>6, LinesStay, Zenon DEF ConsoleInv
<1>10. full => txq # <<>>
  BY <1>8, ConsoleAssumption DEF intq_full
<1>11. log' \in Seq(Char)
  BY <1>1, <1>3, <1>8, Longer, Zenon
<1>w. \/ mode = "POLL" /\ sent' = Append(sent, c) /\ txq' = txq
      \/ /\ mode = "QUEUE"
         /\ txq' = Append(IF full THEN Tail(txq) ELSE txq, c)
         /\ sent' = IF full THEN Append(sent, Head(txq)) ELSE sent
  BY Zenon DEF HandlerPrints
<1> HIDE DEF c, full
<1>12. CASE mode = "POLL" /\ sent' = Append(sent, c) /\ txq' = txq
  <2>s. sent \in Seq(Char)
    BY <1>8, Zenon
  <2>a. sent \o <<>> = sent
    BY <2>s
  <2>1. txq' = <<>> /\ sent \o <<>> = sent /\ sent = log
    BY <1>8, <1>12, <2>a, Zenon
  <2>2. sent' = log'
    BY <1>1, <1>12, <2>1, Zenon
  <2>3. sent' \o txq' = log'
    <3>1. log' \o <<>> = log'
      BY <1>11
    <3> QED
      BY <2>1, <2>2, <3>1, Zenon
  <2>4. OutputOK'
    BY <1>1, <1>8, <1>11, <1>12, <2>1, <2>2, <2>3, Zenon DEF OutputOK
  <2> QED
    BY <1>4, <1>7, <1>9, <2>4, Zenon DEF ConsoleInv
<1>13. CASE /\ mode = "QUEUE"
            /\ txq' = Append(IF full THEN Tail(txq) ELSE txq, c)
            /\ sent' = IF full THEN Append(sent, Head(txq)) ELSE sent
  <2>1. PICK q \in Seq(Char) : txq' = Append(q, c) /\ sent' \in Seq(Char) /\ sent' \o q = log
    <3>1. CASE full
      BY <1>8, <1>10, <1>13, <3>1, MoveFirst, Zenon
    <3>2. CASE ~full
      BY <1>8, <1>13, <3>2, Zenon
    <3> QED
      BY <3>1, <3>2, Zenon
  <2>2. txq' \in Seq(Char) /\ sent' \o txq' = log'
    <3>a. sent' \o Append(q, c) = Append(sent' \o q, c) /\ Append(q, c) \in Seq(Char)
      BY <1>3, <2>1, AddLast, Zenon
    <3>b. txq' = Append(q, c) /\ sent' \o q = log /\ log' = Append(log, c)
      BY <1>1, <2>1, Zenon
    <3> QED
      BY <3>a, <3>b, Zenon
  <2>3. mode' = "QUEUE" /\ "QUEUE" # "POLL"
    BY <1>1, <1>13, Zenon
  <2>4. OutputOK'
    BY <1>11, <2>1, <2>2, <2>3, Zenon DEF OutputOK
  <2> QED
    BY <1>4, <1>7, <1>9, <2>4, Zenon DEF ConsoleInv
<1> QED
  BY <1>12, <1>13, <1>w, Zenon

\* serial_interrupt(): bytes move from the receiver to the input queue, and from the
\* transmit queue to the line.
LEMMA SerialInterruptStep ==
  ASSUME ConsoleInv, serial_interrupt
  PROVE  ConsoleInv'
<1> DEFINE recv == rbr # NoByte /\ ~intq_full(input)
           xmit == txq # <<>> /\ ~thr
<1>1. /\ UNCHANGED <<mode, txq_lock, log, eaten, console_lock, left, broken>>
      /\ (print' = Wake \/ print' = print) /\ not_full' \in Printer \cup {Nobody}
  BY Zenon DEF serial_interrupt, lockVars, ConsoleInv, PrintersOK
<1>2. Calm
  BY <1>1, WakeCalm, Zenon DEF ConsoleInv
<1>3. PrintersOK'
  BY <1>1, <1>2, PrintersStay, Zenon DEF ConsoleInv
<1>4. LinesOK'
  BY <1>1, <1>2, LinesStay, Zenon DEF ConsoleInv
<1>5. OutputOK'
  <2>1. /\ txq \in Seq(Char) /\ log \in Seq(Char) /\ sent \in Seq(Char) /\ sent \o txq = log
        /\ mode \in {"POLL", "QUEUE"} /\ (mode = "POLL" => txq = <<>>)
    BY Zenon DEF ConsoleInv, OutputOK
  <2>2. CASE xmit
    <3>1. txq' = Tail(txq) /\ sent' = Append(sent, Head(txq)) /\ txq # <<>>
      BY <2>2, Zenon DEF serial_interrupt
    <3>s. sent \in Seq(Char) /\ txq \in Seq(Char) /\ txq # <<>>
      BY <2>1, <3>1, Zenon
    <3>a. /\ Append(sent, Head(txq)) \o Tail(txq) = sent \o txq
          /\ Append(sent, Head(txq)) \in Seq(Char) /\ Tail(txq) \in Seq(Char)
      BY <3>s, MoveFirst, Zenon
    <3>2. sent' \o txq' = sent \o txq /\ sent' \in Seq(Char) /\ txq' \in Seq(Char)
      BY <3>1, <3>a, Zenon
    <3> QED
      BY <1>1, <2>1, <3>1, <3>2, Zenon DEF OutputOK
  <2>3. CASE ~xmit
    <3>1. txq' = txq /\ sent' = sent
      BY <2>3, Zenon DEF serial_interrupt
    <3> QED
      BY <1>1, <2>1, <3>1, Zenon DEF OutputOK
  <2> QED
    BY <2>2, <2>3, Zenon
<1>6. InputOK'
  <2>1. left \in LeftType /\ rbr \in Nat /\ input \in Seq(Nat) /\ typed \in Seq(Nat) /\ eaten \in Seq(Nat) /\ eaten \o input = typed
    BY Zenon DEF ConsoleInv, InputOK
  <2>2. CASE recv
    <3>1. input' = Append(input, rbr) /\ typed' = Append(typed, rbr) /\ rbr' = NoByte
      BY <2>2, Zenon DEF serial_interrupt
    <3>2. eaten \o Append(input, rbr) = Append(eaten \o input, rbr) /\ Append(input, rbr) \in Seq(Nat)
          /\ Append(typed, rbr) \in Seq(Nat)
      <4>1. rbr \in Nat /\ input \in Seq(Nat) /\ typed \in Seq(Nat) /\ eaten \in Seq(Nat)
        BY <2>1, Zenon
      <4>2. eaten \o Append(input, rbr) = Append(eaten \o input, rbr) /\ Append(input, rbr) \in Seq(Nat)
        BY <4>1, AddLast, Zenon
      <4>3. Append(typed, rbr) \in Seq(Nat)
        BY <4>1, AddLast, Zenon
      <4> QED
        BY <4>2, <4>3, Zenon
    <3>3. eaten \o input' = typed' /\ input' \in Seq(Nat) /\ typed' \in Seq(Nat)
      BY <2>1, <3>1, <3>2, Zenon
    <3>4. rbr' \in Nat
      BY <3>1 DEF NoByte
    <3> QED
      BY <1>1, <2>1, <3>3, <3>4, Zenon DEF InputOK
  <2>3. CASE ~recv
    <3>1. input' = input /\ typed' = typed /\ rbr' = rbr
      BY <2>3, Zenon DEF serial_interrupt
    <3> QED
      BY <1>1, <2>1, <3>1, Zenon DEF InputOK
  <2> QED
    BY <2>2, <2>3, Zenon
<1> QED
  BY <1>3, <1>4, <1>5, <1>6, Zenon DEF ConsoleInv

\* A step that leaves the output and the printers alone.
LEMMA OutputUntouched ==
  ASSUME ConsoleInv, UNCHANGED <<txq, log, sent, not_full, txq_lock, console_lock, print, broken>>,
         mode' = mode \/ mode' = "QUEUE"
  PROVE  OutputOK' /\ PrintersOK' /\ LinesOK'
<1>1. "QUEUE" # "POLL"
  OBVIOUS
<1>2. OutputOK'
  BY <1>1, Zenon DEF ConsoleInv, OutputOK
<1>3. not_full' \in Printer \cup {Nobody} /\ Calm
  BY WakeCalm, Zenon DEF ConsoleInv, PrintersOK
<1>4. PrintersOK'
  BY <1>3, PrintersStay, Zenon DEF ConsoleInv
<1>5. LinesOK'
  BY <1>3, LinesStay, Zenon DEF ConsoleInv
<1> QED
  BY <1>2, <1>4, <1>5, Zenon

\* The serial port changes to interrupts, or a byte leaves the transmitter.
LEMMA PortStep ==
  ASSUME ConsoleInv, serial_init_queue \/ UartSent
  PROVE  ConsoleInv'
<1>1. /\ UNCHANGED <<txq, log, sent, not_full, txq_lock, console_lock, print, broken>>
      /\ UNCHANGED <<input, rbr, typed, eaten, left>> /\ (mode' = mode \/ mode' = "QUEUE")
  BY Zenon DEF serial_init_queue, UartSent, outputVars, inputVars, lockVars
<1>2. OutputOK' /\ PrintersOK' /\ LinesOK'
  BY <1>1, OutputUntouched, Zenon
<1>3. InputOK'
  BY <1>1, Zenon DEF ConsoleInv, InputOK
<1> QED
  BY <1>2, <1>3, Zenon DEF ConsoleInv

\* A byte arrives on the serial line.
LEMMA UartReceivesStep ==
  ASSUME ConsoleInv, UartReceives
  PROVE  ConsoleInv'
<1>1. /\ UNCHANGED <<mode, txq, log, sent, not_full, txq_lock, console_lock, print, broken>>
      /\ UNCHANGED <<input, typed, eaten>> /\ rbr' = left.input /\ left.input > 0
      /\ left' = [left EXCEPT !.input = left.input - 1]
  BY Zenon DEF UartReceives, outputVars, lockVars
<1>2. OutputOK' /\ PrintersOK' /\ LinesOK'
  BY <1>1, OutputUntouched, Zenon
<1>3. left' \in LeftType /\ rbr' \in Nat
  BY <1>1, Spend, Zenon DEF ConsoleInv
<1>4. InputOK'
  BY <1>1, <1>3, Zenon DEF ConsoleInv, InputOK
<1> QED
  BY <1>2, <1>4, Zenon DEF ConsoleInv

\* keyboard_interrupt(): a key is accepted or dropped.
LEMMA KeyPressedStep ==
  ASSUME ConsoleInv, KeyPressed
  PROVE  ConsoleInv'
<1> DEFINE k == left.input
<1>1. /\ UNCHANGED <<mode, txq, log, sent, not_full, txq_lock, console_lock, print, broken>>
      /\ UNCHANGED <<rbr, eaten>> /\ k > 0 /\ left' = [left EXCEPT !.input = k - 1]
      /\ \/ input' = Append(input, k) /\ typed' = Append(typed, k)
         \/ input' = input /\ typed' = typed
  BY Zenon DEF KeyPressed, outputVars, lockVars
<1>2. OutputOK' /\ PrintersOK' /\ LinesOK'
  BY <1>1, OutputUntouched, Zenon
<1>3. left' \in LeftType /\ k \in Nat
  BY <1>1, Spend, Zenon DEF ConsoleInv
<1> HIDE DEF k
<1>4. rbr \in Nat /\ input \in Seq(Nat) /\ typed \in Seq(Nat) /\ eaten \in Seq(Nat) /\ eaten \o input = typed
  BY Zenon DEF ConsoleInv, InputOK
<1>5. eaten \o Append(input, k) = Append(eaten \o input, k) /\ Append(input, k) \in Seq(Nat)
      /\ Append(typed, k) \in Seq(Nat)
  <2>1. k \in Nat /\ input \in Seq(Nat) /\ typed \in Seq(Nat) /\ eaten \in Seq(Nat)
    BY <1>3, <1>4, Zenon
  <2>2. eaten \o Append(input, k) = Append(eaten \o input, k) /\ Append(input, k) \in Seq(Nat)
    BY <2>1, AddLast, Zenon
  <2>3. Append(typed, k) \in Seq(Nat)
    BY <2>1, AddLast, Zenon
  <2> QED
    BY <2>2, <2>3, Zenon
<1>6. eaten \o input' = typed' /\ input' \in Seq(Nat) /\ typed' \in Seq(Nat)
  BY <1>1, <1>4, <1>5, Zenon
<1>7. InputOK'
  BY <1>1, <1>3, <1>4, <1>6, Zenon DEF InputOK
<1> QED
  BY <1>2, <1>7, Zenon DEF ConsoleInv

\* input_getc(): the first byte of the queue is read, or the reader sleeps.
LEMMA InputGetcStep ==
  ASSUME ConsoleInv, input_getc
  PROVE  ConsoleInv'
<1>1. /\ UNCHANGED <<mode, txq, log, sent, not_full, txq_lock, console_lock, print, broken>>
      /\ UNCHANGED <<rbr, typed, left>>
      /\ \/ input # <<>> /\ input' = Tail(input) /\ eaten' = Append(eaten, Head(input))
         \/ input' = input /\ eaten' = eaten
  BY Zenon DEF input_getc, outputVars, lockVars
<1>2. OutputOK' /\ PrintersOK' /\ LinesOK'
  BY <1>1, OutputUntouched, Zenon
<1>3. input \in Seq(Nat) /\ typed \in Seq(Nat) /\ eaten \in Seq(Nat) /\ eaten \o input = typed
  BY Zenon DEF ConsoleInv, InputOK
<1>4. input # <<>> => /\ Append(eaten, Head(input)) \o Tail(input) = eaten \o input
                      /\ Append(eaten, Head(input)) \in Seq(Nat) /\ Tail(input) \in Seq(Nat)
  BY <1>3, MoveFirst, Zenon
<1>5. eaten' \o input' = typed /\ eaten' \in Seq(Nat) /\ input' \in Seq(Nat)
  BY <1>1, <1>3, <1>4, Zenon
<1>6. InputOK'
  BY <1>1, <1>5, Zenon DEF ConsoleInv, InputOK
<1> QED
  BY <1>2, <1>6, Zenon DEF ConsoleInv

\* debug_panic(): serial_flush() sends the queue, the message at its end.
LEMMA DebugPanicStep ==
  ASSUME ConsoleInv, debug_panic
  PROVE  ConsoleInv'
<1> DEFINE c == <<InPanic, 1>>
<1>1. /\ log' = Append(log, c) /\ sent' = sent \o txq \o <<c>> /\ txq' = <<>>
      /\ UNCHANGED <<mode, txq_lock, input, rbr, typed, eaten, console_lock, left, broken>>
      /\ (print' = Wake \/ print' = print) /\ not_full' \in Printer \cup {Nobody}
  BY Zenon DEF debug_panic, inputVars, ConsoleInv, PrintersOK
<1>2. c \in Char /\ c[1] \notin Printer
  BY ConsoleAssumption DEF Char
<1> HIDE DEF c
<1>3. Calm
  BY <1>1, WakeCalm, Zenon DEF ConsoleInv
<1>4. PrintersOK'
  BY <1>1, <1>3, PrintersStay, Zenon DEF ConsoleInv
<1>5. log \in Seq(Char) /\ txq \in Seq(Char) /\ sent \in Seq(Char) /\ sent \o txq = log /\ mode \in {"POLL", "QUEUE"}
  BY Zenon DEF ConsoleInv, OutputOK
<1>6. LinesOK'
  BY <1>1, <1>2, <1>3, LinesStay, Zenon DEF ConsoleInv
<1>7. /\ (sent \o txq \o <<c>>) \o <<>> = Append(sent \o txq, c)
      /\ sent \o txq \o <<c>> \in Seq(Char) /\ <<>> \in Seq(Char)
  <2>1. c \in Char /\ txq \in Seq(Char) /\ sent \in Seq(Char)
    BY <1>2, <1>5, Zenon
  <2> QED
    BY <2>1
<1>8. Append(log, c) \in Seq(Char)
  BY <1>2, <1>5, Longer, Zenon
<1>9. OutputOK'
  BY <1>1, <1>5, <1>7, <1>8, Zenon DEF OutputOK
<1>10. InputOK'
  BY <1>1, Zenon DEF ConsoleInv, InputOK
<1> QED
  BY <1>4, <1>6, <1>9, <1>10, Zenon DEF ConsoleInv

\* A step of another part of the kernel.
LEMMA ConsoleUntouched ==
  ASSUME ConsoleInv, UNCHANGED consoleVars
  PROVE  ConsoleInv'
<1>1. /\ UNCHANGED <<mode, txq, log, sent, not_full, txq_lock, console_lock, print, broken>>
      /\ UNCHANGED <<input, rbr, typed, eaten, left>>
  BY Zenon DEF consoleVars
<1>2. OutputOK' /\ PrintersOK' /\ LinesOK'
  BY <1>1, OutputUntouched, Zenon
<1>3. InputOK'
  BY <1>1, Zenon DEF ConsoleInv, InputOK
<1> QED
  BY <1>2, <1>3, Zenon DEF ConsoleInv

\* Every step of the console, and of what runs beside it, keeps the invariant.
LEMMA ConsoleInvNext ==
  ASSUME ConsoleInv, [Next]_vars
  PROVE  ConsoleInv'
<1>1. CASE InConsole(ConsoleNext)
  <2>1. ConsoleNext
    BY <1>1, Zenon DEF InConsole
  <2>2. ASSUME NEW t \in Printer, StartLine(t) \/ PrintStep(t) \/ PrintNested(t) PROVE ConsoleInv'
    BY <2>2, StartLineStep, AcquireConsoleStep, PutCharStep, WokenStep, ReleaseConsoleStep,
       PrintNestedStep, Zenon DEF PrintStep
  <2> QED
    BY <2>1, <2>2, PortStep, HandlerPrintsStep, SerialInterruptStep, UartReceivesStep, KeyPressedStep,
       InputGetcStep, DebugPanicStep, Zenon DEF ConsoleNext
<1>2. CASE ~InConsole(ConsoleNext)
  <2>1. UNCHANGED consoleVars
    BY <1>2, Zenon DEF Next, InDisk, InFile, vars
  <2> QED
    BY <2>1, ConsoleUntouched, Zenon
<1> QED
  BY <1>1, <1>2, Zenon

\* The queues, the locks and the lines stay as ConsoleInv describes them.
LEMMA ConsoleInvariant == Spec => []ConsoleInv
<1>1. Init => ConsoleInv
  BY ConsoleInvInit, Zenon DEF Init
<1>2. ConsoleInv /\ [Next]_vars => ConsoleInv'
  BY ConsoleInvNext, Zenon
<1> QED
  BY <1>1, <1>2, PTL DEF Spec

\* Nothing printed through putbuf(), printf() or by a handler is lost, repeated or
\* reordered on the serial line, lines of different threads do not mix, wait()'s
\* assertion on the transmit queue holds, and input_getc() reads in the order of
\* arrival: for any number of threads, lines, characters and any queue size.
THEOREM OutputFaithful == Spec => []ConsoleFaithful
<1>1. ConsoleInv => ConsoleFaithful
  <2>1. SUFFICES ASSUME ConsoleInv PROVE ConsoleFaithful
    OBVIOUS
  <2>2. sent \o txq = log /\ ~broken /\ eaten \o input = typed /\ Ordered(log) /\ log \in Seq(Char)
    BY <2>1, Zenon DEF ConsoleInv, OutputOK, InputOK, PrintersOK, LinesOK
  <2>3. ASSUME NEW i \in 1 .. Len(log), NEW j \in 1 .. Len(log), i < j, log[i][1] = log[j][1],
               log[i][1] \in Printer \ Between(i + 1, j - 1)
        PROVE  \/ log[i][2] = LineLen /\ log[j][2] = 1
               \/ log[j][2] = log[i][2] + 1 /\ Between(i, j) \cap Printer = {log[i][1]}
    <3>1. log[i][1] \in Printer /\ \A k \in i + 1 .. j - 1 : log[k][1] # log[i][1]
      BY <2>3, Zenon DEF Between
    <3>2. \/ log[i][2] = LineLen /\ log[j][2] = 1
          \/ log[j][2] = log[i][2] + 1 /\ \A k \in i .. j : log[k][1] \in Printer => log[k][1] = log[i][1]
      BY <2>2, <2>3, <3>1, Zenon DEF Ordered
    <3>3. i \in i .. j
      BY <2>2, <2>3
    <3>4. (\A k \in i .. j : log[k][1] \in Printer => log[k][1] = log[i][1]) =>
            Between(i, j) \cap Printer = {log[i][1]}
      BY <3>1, <3>3, Zenon DEF Between
    <3> QED
      BY <3>2, <3>4, Zenon
  <2> QED
    BY <2>2, <2>3, Zenon DEF ConsoleFaithful
<1> QED
  BY <1>1, ConsoleInvariant, PTL
=============================================================================
