-------------------------------- MODULE Disk --------------------------------
(***************************************************************************)
(* devices/disk.c: the ATA driver, its interrupt handler, and the devices  *)
(* (external, as the driver uses them).  A channel serves two disks, one   *)
(* command at a time: BSY while the device works, DRQ while it wants the   *)
(* data register read or written, an interrupt when a read is ready or a   *)
(* write is done.  An interrupt may also come uncalled, a device may fail  *)
(* a command before it asks for data, and it may be slower than the        *)
(* driver's timeouts.                                                      *)
(***************************************************************************)
EXTENDS Naturals, FiniteSets

CONSTANTS
  DThread,      \* threads that read and write disks
  Booter,       \* the thread that runs disk_init()
  Channel,      \* channels, and
  Device,       \* the devices of each, 0 and 1
  Registers,    \* what each device shows after the reset
  SecNo,        \* sector numbers of every disk
  SectorData,   \* contents of a sector
  Blank,        \* of them, a buffer nothing was read into
  MaxSpurious,  \* bound: interrupts that come uncalled
  NoThread

\* disk_init() is called by the initial thread before any other thread uses a
\* disk.
ASSUME DiskAssumption ==
  /\ Blank \in SectorData
  /\ Booter \notin DThread
  /\ NoThread \notin DThread \cup {Booter}

DiskId == Channel \X Device
chan(d) == d[1]
Caller == DThread \cup {Booter}

\* check_device_type: the signature of an ATA disk, and whether a second
\* device may be there (r: error, lbam, lbah, DRDY, BSY).
SignatureBad(r, dev_no) ==
  (r.error # 1 /\ (r.error # 129 \/ dev_no = 1)) \/ ~r.drdy \/ r.bsy
LooksAta(r) == (r.lbam = 0 /\ r.lbah = 0) \/ (r.lbam = 60 /\ r.lbah = 195)
SlavePossible(c) ==
  LET r == Registers[<<c, 0>>] IN ~SignatureBad(r, 0) \/ r.error # 129
check_device_type(d) ==
  /\ d[2] = 1 => SlavePossible(chan(d))
  /\ ~SignatureBad(Registers[d], d[2])
  /\ LooksAta(Registers[d])

VARIABLES
  is_ata,      \* disks that disk_get() returns
  unnamed,     \* of them, those disk_init() has still to identify
  dcall,       \* the driver call each thread is in
  chan_lock, expecting_interrupt, completion_wait,
  dev,         \* each channel's command registers, status and interrupt line
  media,       \* contents of the disks
  spurious,    \* interrupts that came uncalled
  collided,    \* a command was given to a busy device
  dpanic

diskVars == <<is_ata, unnamed, dcall, chan_lock, expecting_interrupt, completion_wait,
              dev, media, spurious, collided, dpanic>>

NoDiskCall == [pc |-> "idle", op |-> "none", disk |-> <<0, 0>>, sec |-> 0, buf |-> Blank]
NoCommand == [status |-> "idle", op |-> "none", disk |-> <<0, 0>>, sec |-> 0,
              buf |-> Blank, full |-> FALSE, intr |-> FALSE]

\* disk_init up to identify_ata_device, which Booter runs on each ATA disk.
DiskInit ==
  /\ is_ata = {d \in DiskId : check_device_type(d)}
  /\ unnamed = is_ata
  /\ dcall = [t \in Caller |-> NoDiskCall]
  /\ chan_lock = [c \in Channel |-> NoThread]
  /\ expecting_interrupt = [c \in Channel |-> FALSE]
  /\ completion_wait = [c \in Channel |-> 0]
  /\ dev = [c \in Channel |-> NoCommand]
  /\ media = [x \in DiskId \X SecNo |-> Blank]
  /\ spurious = 0
  /\ collided = FALSE
  /\ dpanic = FALSE

Goto(t, pc) == dcall' = [dcall EXCEPT ![t].pc = pc]

\* disk_init's last loop, without the channel's lock: nobody else runs.
Identify(t) ==
  /\ t = Booter
  /\ dcall[t].pc = "idle"
  /\ \E d \in unnamed :
       /\ \A e \in unnamed : d[1] < e[1] \/ (d[1] = e[1] /\ d[2] <= e[2])
       /\ unnamed' = unnamed \ {d}
       /\ dcall' = [dcall EXCEPT ![t] =
            [NoDiskCall EXCEPT !.pc = "select", !.op = "identify", !.disk = d]]
  /\ UNCHANGED <<is_ata, chan_lock, expecting_interrupt, completion_wait, dev,
                 media, spurious, collided, dpanic>>

Booted == unnamed = {} /\ dcall[Booter].pc = "idle"

\* A thread calls disk_read() or disk_write(), on a disk that it got from
\* disk_get() and a sector below its capacity.
CallDriver(t) ==
  /\ t \in DThread
  /\ Booted
  /\ dcall[t].pc = "idle"
  /\ \E d \in is_ata, sec \in SecNo, data \in SectorData, op \in {"read", "write"} :
       /\ op = "read" => data = Blank
       /\ dcall' = [dcall EXCEPT ![t] =
            [pc |-> "lock", op |-> op, disk |-> d, sec |-> sec, buf |-> data]]
  /\ UNCHANGED <<is_ata, unnamed, chan_lock, expecting_interrupt, completion_wait,
                 dev, media, spurious, collided, dpanic>>

AcquireChannel_Shared(t) ==
  /\ dcall[t].pc = "lock"
  /\ Goto(t, "select")
  /\ UNCHANGED <<is_ata, unnamed, chan_lock, expecting_interrupt, completion_wait,
                 dev, media, spurious, collided, dpanic>>

AcquireChannel(t) ==
  /\ dcall[t].pc = "lock"
  /\ chan_lock[chan(dcall[t].disk)] = NoThread
  /\ chan_lock' = [chan_lock EXCEPT ![chan(dcall[t].disk)] = t]
  /\ Goto(t, "select")
  /\ UNCHANGED <<is_ata, unnamed, expecting_interrupt, completion_wait, dev, media,
                 spurious, collided, dpanic>>

Issue_NoSelect(t) ==
  LET c == chan(dcall[t].disk)
      idle == dev[c].status = "idle"
  IN  /\ dcall[t].pc = "select"
      /\ expecting_interrupt' = [expecting_interrupt EXCEPT ![c] = TRUE]
      /\ dev' = [dev EXCEPT ![c] =
           IF idle THEN [NoCommand EXCEPT !.status = "busy", !.op = dcall[t].op,
                                          !.disk = dev[c].disk, !.sec = dcall[t].sec]
           ELSE [@ EXCEPT !.intr = FALSE]]
      /\ collided' = (collided \/ ~idle)
      /\ Goto(t, IF dcall[t].op = "write" THEN "poll" ELSE "down")
      /\ UNCHANGED <<is_ata, unnamed, chan_lock, completion_wait, media, spurious, dpanic>>

\* select_sector and issue_pio_command.  wait_until_idle() goes on after its
\* timeout; a device that is busy then does not see the command.
Issue(t) ==
  LET c == chan(dcall[t].disk)
      idle == dev[c].status = "idle"
  IN  /\ dcall[t].pc = "select"
      /\ expecting_interrupt' = [expecting_interrupt EXCEPT ![c] = TRUE]
      /\ dev' = [dev EXCEPT ![c] =
           IF idle THEN [NoCommand EXCEPT !.status = "busy", !.op = dcall[t].op,
                                          !.disk = dcall[t].disk, !.sec = dcall[t].sec]
           ELSE [@ EXCEPT !.intr = FALSE]]
      /\ collided' = (collided \/ ~idle)
      /\ Goto(t, IF dcall[t].op = "write" THEN "poll" ELSE "down")
      /\ UNCHANGED <<is_ata, unnamed, chan_lock, completion_wait, media, spurious, dpanic>>

\* The call returns: what was read is in buf, the channel's lock is free.
Finish(t, data) ==
  LET c == chan(dcall[t].disk)
  IN  /\ dcall' = [dcall EXCEPT ![t] = [NoDiskCall EXCEPT
            !.pc = IF t = Booter THEN "idle" ELSE "done", !.buf = data]]
      /\ chan_lock' = [chan_lock EXCEPT ![c] = IF @ = t THEN NoThread ELSE @]

\* sema_down (&completion_wait): before the data of a read, after a write's.
Completion(t) ==
  LET c == chan(dcall[t].disk)
  IN  /\ dcall[t].pc = "down"
      /\ completion_wait[c] > 0
      /\ completion_wait' = [completion_wait EXCEPT ![c] = @ - 1]
      /\ \/ dcall[t].op # "write" /\ Goto(t, "poll") /\ UNCHANGED chan_lock
         \/ dcall[t].op = "write" /\ Finish(t, dcall[t].buf)
      /\ UNCHANGED <<is_ata, unnamed, expecting_interrupt, dev, media, spurious,
                     collided, dpanic>>

\* wait_while_busy() saw DRQ: input_sector or output_sector.
Transfer(t) ==
  LET c == chan(dcall[t].disk)
  IN  /\ dcall[t].pc = "poll"
      /\ dev[c].status = "drq"
      /\ \/ /\ dcall[t].op = "write"
            /\ dev' = [dev EXCEPT ![c].status = "busy", ![c].buf = dcall[t].buf, ![c].full = TRUE]
            /\ Goto(t, "down")
            /\ UNCHANGED chan_lock
         \/ /\ dcall[t].op # "write"
            /\ dev' = [dev EXCEPT ![c].status = "idle"]
            /\ Finish(t, dev[c].buf)
      /\ UNCHANGED <<is_ata, unnamed, expecting_interrupt, completion_wait, media,
                     spurious, collided, dpanic>>

\* wait_while_busy() timed out, or saw no DRQ: PANIC; disk_init() only takes
\* the device for something else.
TransferFails(t) ==
  LET c == chan(dcall[t].disk)
  IN  /\ dcall[t].pc = "poll"
      /\ dev[c].status # "drq"
      /\ \/ /\ t = Booter
            /\ is_ata' = is_ata \ {dcall[t].disk}
            /\ dcall' = [dcall EXCEPT ![t] = NoDiskCall]
            /\ UNCHANGED dpanic
         \/ /\ t # Booter
            /\ dpanic' = TRUE
            /\ UNCHANGED <<is_ata, dcall>>
      /\ UNCHANGED <<unnamed, chan_lock, expecting_interrupt, completion_wait, dev,
                     media, spurious, collided>>

\* The caller goes on.
Leave(t) ==
  /\ dcall[t].pc = "done"
  /\ dcall' = [dcall EXCEPT ![t] = NoDiskCall]
  /\ UNCHANGED <<is_ata, unnamed, chan_lock, expecting_interrupt, completion_wait,
                 dev, media, spurious, collided, dpanic>>

\* An expected interrupt is acknowledged and wakes the waiter.  (The flag is
\* never cleared again.)
interrupt_handler(c) ==
  /\ dev' = [dev EXCEPT ![c].intr = FALSE]
  /\ completion_wait' = [completion_wait EXCEPT ![c] = IF expecting_interrupt[c] THEN @ + 1 ELSE @]

Interrupt(c) ==
  /\ dev[c].intr
  /\ interrupt_handler(c)
  /\ UNCHANGED <<is_ata, unnamed, dcall, chan_lock, expecting_interrupt, media,
                 spurious, collided, dpanic>>

Spurious(c) ==
  /\ spurious < MaxSpurious
  /\ spurious' = spurious + 1
  /\ interrupt_handler(c)
  /\ UNCHANGED <<is_ata, unnamed, dcall, chan_lock, expecting_interrupt, media,
                 collided, dpanic>>

\* The device: a read's data is ready, a write's is wanted or on the disk.
DeviceStep(c) ==
  /\ dev[c].status = "busy"
  /\ LET at == <<dev[c].disk, dev[c].sec>>
     IN  /\ dev' = [dev EXCEPT ![c] = [@ EXCEPT
              !.status = IF dev[c].full THEN "idle" ELSE "drq",
              !.buf = IF dev[c].op = "read" THEN media[at] ELSE dev[c].buf,
              !.full = FALSE,
              !.intr = (dev[c].op # "write" \/ dev[c].full)]]
         /\ media' = IF dev[c].full THEN [media EXCEPT ![at] = dev[c].buf] ELSE media
  /\ UNCHANGED <<is_ata, unnamed, dcall, chan_lock, expecting_interrupt,
                 completion_wait, spurious, collided, dpanic>>

\* The device fails a command before it asks for or offers data.
DeviceFails(c) ==
  /\ dev[c].status = "busy"
  /\ ~dev[c].full
  /\ dev' = [dev EXCEPT ![c].status = "idle", ![c].intr = TRUE]
  /\ UNCHANGED <<is_ata, unnamed, dcall, chan_lock, expecting_interrupt,
                 completion_wait, media, spurious, collided, dpanic>>

DriverStep(t) ==
  Identify(t) \/ AcquireChannel(t) \/ Issue(t) \/ Completion(t) \/ Transfer(t) \/ Leave(t)

DiskNext ==
  \/ \E t \in Caller : CallDriver(t) \/ DriverStep(t) \/ TransferFails(t)
  \/ \E c \in Channel : Interrupt(c) \/ Spurious(c) \/ DeviceStep(c) \/ DeviceFails(c)
=============================================================================
