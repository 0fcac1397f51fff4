--------------------------------- MODULE Io ---------------------------------
(***************************************************************************)
(* Input and output: the disk driver (Disk.tla), the console and the       *)
(* serial line (Console.tla), and files over the sectors the driver        *)
(* implements (FileIO.tla).  They share no state: a behaviour is about one *)
(* of them.                                                                *)
(***************************************************************************)
EXTENDS Disk, Console, FileIO

VARIABLE part

vars == <<diskVars, consoleVars, fileVars, part>>

Init == DiskInit /\ ConsoleInit /\ FileInit /\ part \in {"disk", "console", "file"}

\* A behaviour ends where the kernel stops, and where a device was given a
\* command while busy: what the device does then is not defined.
InDisk(A) ==
  part = "disk" /\ ~dpanic /\ ~collided /\ A /\ UNCHANGED <<consoleVars, fileVars, part>>
InConsole(A) == part = "console" /\ use_console_lock /\ A /\ UNCHANGED <<diskVars, fileVars, part>>
InFile(A) == part = "file" /\ A /\ UNCHANGED <<diskVars, consoleVars, part>>

Next == InDisk(DiskNext) \/ InConsole(ConsoleNext) \/ InFile(FileNext)

\* Threads that can go on run again, devices answer, and interrupts that are
\* enabled arrive.  (Printers, line and files are bounded: there it is enough
\* that some step is taken.)
Fairness ==
  /\ \A t \in Caller : WF_vars(InDisk(DriverStep(t) \/ TransferFails(t)))
  /\ WF_vars(InDisk(\E c \in Channel : Interrupt(c) \/ DeviceStep(c)))
  /\ WF_vars(InConsole((\E t \in Printer : PrintStep(t)) \/ serial_init_queue
                        \/ serial_interrupt \/ UartSent \/ input_getc))
  /\ WF_vars(InFile(\E t \in Client : FileWork(t)))

Spec == Init /\ [][Next]_vars /\ Fairness

-----------------------------------------------------------------------------
(* Disk.                                                                   *)

\* A sector holds what the device has taken for it, written yet or not.
Stored(x) ==
  LET taken == {c \in Channel : dev[c].full /\ <<dev[c].disk, dev[c].sec>> = x}
  IN  IF taken = {} THEN media[x] ELSE dev[CHOOSE c \in taken : TRUE].buf

Requested(t) ==
  LET c == dcall[t]
  IN  CASE c.pc = "idle" -> [op |-> "none"]
        [] c.pc = "done" \/ (c.op = "write" /\ c.pc = "down") -> [op |-> "done", data |-> c.buf]
        [] OTHER -> [op |-> c.op, sec |-> <<c.disk, c.sec>>, data |-> c.buf]

Store == INSTANCE SectorStore WITH
  Client <- DThread, Sector <- DiskId \X SecNo, Data <- SectorData,
  store <- [x \in DiskId \X SecNo |-> Stored(x)],
  request <- [t \in DThread |-> Requested(t)]

\* The driver implements the atomic sectors of SectorStore.tla: whatever two
\* threads, two disks on a channel, a slow device and an uncalled interrupt
\* do, a read returns what was last written to its sector, as long as no
\* command reaches a busy device (DiskHandshake says when).
ImplementsStore == Store!StoreSpec

\* The handshake with the device: while no interrupt has come uncalled, a
\* free channel is quiet (device idle, no interrupt to come, no completion
\* left over) and no command is given to a busy device, although
\* wait_until_idle() goes on after its timeout.
DiskHandshake ==
  spurious = 0 =>
    /\ ~collided
    /\ \A c \in Channel :
         (\A t \in Caller : dcall[t].pc \in {"idle", "lock", "done"} \/ chan(dcall[t].disk) # c) =>
           dev[c].status = "idle" /\ (Booted => ~dev[c].intr /\ completion_wait[c] = 0)

-----------------------------------------------------------------------------
(* Console.                                                                *)

Between(i, j) == {log[k][1] : k \in i..j}

\* Nothing printed is lost, repeated or reordered on the serial line, through
\* waiting, polling by handlers and a panic's flush; a thread's characters come
\* in the order of their line, and are only separated by those of handlers and
\* a panic until the line ends; wait()'s assertion on the transmit queue holds
\* because the console lock lets one thread wait; input is read in the order in
\* which it was accepted.
ConsoleFaithful ==
  /\ sent \o txq = log
  /\ \A i, j \in 1..Len(log) :
       i < j /\ log[i][1] = log[j][1] /\ log[i][1] \in Printer \ Between(i + 1, j - 1) =>
         \/ log[i][2] = LineLen /\ log[j][2] = 1
         \/ log[j][2] = log[i][2] + 1 /\ Between(i, j) \cap Printer = {log[i][1]}
  /\ ~broken
  /\ eaten \o input = typed

-----------------------------------------------------------------------------
(* Files.                                                                  *)

\* A file holds what was last written to each byte although a sector is read,
\* merged and written in three steps, and a read() returns one state of the
\* file, with the count that its position and the length allow; load() too,
\* which holds no lock, because writes are denied by then; except that
\* the write-back of an evicted page, which holds no lock, can come between:
\* then a read mixes two states and a merged sector can undo the write-back.
FileHolds ==
  /\ raced \/ \A i \in DOMAIN last : ByteAt(i) = last[i]
  /\ \A t \in FProc :
       LET c == fcall[t] IN
       c.pc = "return" /\ c.op # "write" =>
         /\ Len(c.got) = c.done
         /\ c.done <= Max({0, Min({c.size, FileLength - c.offset})})
  /\ \A t \in FProc :
       LET c == fcall[t] IN
       c.pc = "loop" /\ c.op # "write" /\ ~mixed[t] /\ ~raced =>
         \A k \in 1..Len(c.got) : c.got[k] = last[c.offset + k - 1]

-----------------------------------------------------------------------------
\* Driver calls keep returning while there are any, or the kernel panics (a
\* thread may be overtaken at a lock again and again, see Synch.tla).  After
\* the last file operation, line and input, every operation has returned,
\* every line is printed, the queue is transmitted and what the line received
\* is taken: nothing waits for a completion that does not come or for an
\* interrupt that is not enabled.
IoEnds ==
  /\ \/ []<><<\E t \in Caller : dcall[t].pc # "idle" /\ dcall'[t].pc = "idle">>_vars
     \/ <>[](dpanic \/ collided \/ \A t \in Caller : dcall[t].pc = "idle")
  /\ <>[](/\ \A t \in Client : fcall[t].pc = "idle"
          /\ \/ ~use_console_lock
             \/ txq = <<>> /\ rbr = NoByte /\ \A t \in Printer : print[t].pc = "idle")
=============================================================================
