------------------------------ MODULE Console -------------------------------
(***************************************************************************)
(* lib/kernel/console.c, devices/serial.c, devices/intq.c, devices/input.c *)
(* and the end of lib/kernel/debug.c: threads and interrupt handlers print *)
(* through a queue that the serial interrupt drains, the keyboard and the  *)
(* serial line fill an input queue that a reader drains.  What runs with   *)
(* interrupts off is one step, up to where the thread sleeps.  A character *)
(* is the pair of who printed it and its place in what they print.         *)
(* (Terminal.tla has the display and the keys.)                            *)
(***************************************************************************)
EXTENDS Integers, Sequences

CONSTANTS
  Printer,       \* threads that print
  LineLen,       \* characters in a line
  MaxLines,      \* bound: lines that they print
  MaxMessages,   \* bound: characters printed by interrupt handlers
  MaxNested,     \* bound: prints by a thread that is already printing
  MaxInput,      \* bound: keys and serial bytes that arrive
  BUFSIZE,       \* INTQ_BUFSIZE
  Nobody

VARIABLES
  mode,                   \* of the serial port: POLL, then QUEUE
  txq, not_full, txq_lock,
  input, not_empty,       \* the input queue, and whether its reader sleeps
  ier,                    \* the interrupt enable register
  thr, rbr,               \* bytes in the transmitter and the receiver
  console_lock, console_lock_depth, use_console_lock,
  print,                  \* what each printer is doing
  left,                   \* what is left of the bounds
  log, sent,              \* characters printed, characters transmitted
  typed, eaten,           \* input accepted, input read
  broken                  \* an assertion has failed

consoleVars == <<mode, txq, not_full, txq_lock, input, not_empty, ier, thr, rbr,
                 console_lock, console_lock_depth, use_console_lock, print, left,
                 log, sent, typed, eaten, broken>>

InHandler == "handler"
InPanic == "panic"
NoByte == 0
intq_full(q) == Len(q) = BUFSIZE - 1

ASSUME ConsoleAssumption ==
  /\ BUFSIZE \in Nat /\ BUFSIZE >= 2 /\ LineLen \in Nat \ {0}
  /\ {MaxLines, MaxMessages, MaxNested, MaxInput} \subseteq Nat
  /\ {Nobody, InHandler, InPanic} \cap Printer = {}

ConsoleInit ==
  /\ mode = "POLL"
  /\ txq = <<>> /\ not_full = Nobody /\ txq_lock = Nobody
  /\ input = <<>> /\ not_empty = FALSE
  /\ ier = [xmit |-> FALSE, recv |-> FALSE]
  /\ thr = FALSE /\ rbr = NoByte
  /\ console_lock = Nobody /\ console_lock_depth = 0 /\ use_console_lock = TRUE
  /\ print = [t \in Printer |-> [pc |-> "idle", at |-> 1]]
  /\ left = [lines |-> MaxLines, messages |-> MaxMessages, nested |-> MaxNested,
             input |-> MaxInput]
  /\ log = <<>> /\ sent = <<>> /\ typed = <<>> /\ eaten = <<>>
  /\ broken = FALSE

outputVars == <<txq, not_full, txq_lock, thr, log, sent>>
inputVars == <<input, not_empty, rbr, typed, eaten>>
lockVars == <<console_lock, console_lock_depth, use_console_lock>>

\* write_ier, in the state of the queues after the step.
write_ier == ier' = [xmit |-> txq' # <<>>, recv |-> ~intq_full(input')]

serial_notify == IF mode = "QUEUE" THEN write_ier ELSE UNCHANGED ier

\* serial_init_queue.
serial_init_queue ==
  /\ mode = "POLL"
  /\ mode' = "QUEUE"
  /\ UNCHANGED <<outputVars, inputVars, lockVars, print, left, broken>>
  /\ write_ier

Work(t, pc, at) == print' = [print EXCEPT ![t] = [pc |-> pc, at |-> at]]

\* putbuf, puts, vprintf: a line under the console lock.
StartLine(t) ==
  /\ print[t].pc = "idle"
  /\ left.lines > 0
  /\ left' = [left EXCEPT !.lines = @ - 1]
  /\ Work(t, "acquire", 1)
  /\ UNCHANGED <<mode, outputVars, inputVars, ier, lockVars, broken>>

acquire_console_NoLock(t) ==
  /\ print[t].pc = "acquire"
  /\ Work(t, "put", 1)
  /\ UNCHANGED <<mode, outputVars, inputVars, ier, lockVars, left, broken>>

acquire_console(t) ==
  /\ print[t].pc = "acquire"
  /\ console_lock = Nobody
  /\ console_lock' = t
  /\ Work(t, "put", 1)
  /\ UNCHANGED <<mode, outputVars, inputVars, ier, console_lock_depth,
                 use_console_lock, left, broken>>

\* intq_getc's end: a byte is gone, a sleeping printer wakes.
Wake == IF not_full # Nobody /\ print[not_full].pc = "asleep"
        THEN [print EXCEPT ![not_full].pc = "awake"] ELSE print

\* serial_putc by a thread with interrupts on: the byte is queued, or the
\* thread sleeps until there is room.  wait() asserts that it is still needed
\* once it has the queue's lock; so nobody else may have had the lock.
serial_putc(t) ==
  LET c == <<t, print[t].at>>
  IN  \/ /\ mode = "POLL"
         /\ sent' = Append(sent, c)
         /\ thr' = TRUE
         /\ log' = Append(log, c)
         /\ Work(t, "put", print[t].at + 1)
         /\ UNCHANGED <<txq, not_full, txq_lock, ier, input, broken>>
      \/ /\ mode = "QUEUE" /\ ~intq_full(txq)
         /\ txq' = Append(txq, c)
         /\ log' = Append(log, c)
         /\ Work(t, "put", print[t].at + 1)
         /\ UNCHANGED <<not_full, txq_lock, thr, sent, broken, input>>
         /\ write_ier
      \/ /\ mode = "QUEUE" /\ intq_full(txq)
         /\ broken' = (broken \/ txq_lock # Nobody)
         /\ txq_lock' = t
         /\ not_full' = t
         /\ Work(t, "asleep", print[t].at)
         /\ UNCHANGED <<txq, thr, log, sent, ier, input>>

\* putchar_have_lock.
PutChar(t) ==
  /\ print[t].pc = "put"
  /\ print[t].at <= LineLen
  /\ serial_putc(t)
  /\ UNCHANGED <<mode, not_empty, rbr, typed, eaten, lockVars, left>>

\* Woken in wait(): the queue's lock is released and the queue looked at again.
Woken(t) ==
  /\ print[t].pc = "awake"
  /\ txq_lock' = Nobody
  /\ Work(t, "put", print[t].at)
  /\ UNCHANGED <<mode, txq, not_full, thr, log, sent, inputVars, ier, lockVars, left, broken>>

\* acquire_console by the thread that has it: a print inside a print, here of
\* nothing.
PrintNested(t) ==
  /\ print[t].pc = "put"
  /\ left.nested > 0
  /\ left' = [left EXCEPT !.nested = @ - 1]
  /\ console_lock = t
  /\ console_lock_depth' = console_lock_depth + 1
  /\ UNCHANGED <<mode, outputVars, inputVars, ier, console_lock, use_console_lock, print, broken>>

\* release_console: the outermost one releases the lock.
release_console(t) ==
  /\ print[t].pc = "put"
  /\ \/ /\ console_lock_depth > 0 /\ console_lock = t
        /\ console_lock_depth' = console_lock_depth - 1
        /\ UNCHANGED <<console_lock, print>>
     \/ /\ console_lock_depth = 0
        /\ print[t].at > LineLen
        /\ console_lock' = Nobody
        /\ Work(t, "idle", 1)
        /\ UNCHANGED console_lock_depth
  /\ UNCHANGED <<mode, outputVars, inputVars, ier, use_console_lock, left, broken>>

\* An interrupt handler prints: no lock, and if the queue is full its first
\* byte is sent by polling to make room.
HandlerPrints ==
  LET c == <<InHandler, left.messages>>
      full == intq_full(txq)
  IN  /\ left.messages > 0
      /\ left' = [left EXCEPT !.messages = @ - 1]
      /\ log' = Append(log, c)
      /\ \/ /\ mode = "POLL"
            /\ sent' = Append(sent, c)
            /\ thr' = TRUE
            /\ UNCHANGED <<txq, not_full, print>>
         \/ /\ mode = "QUEUE"
            /\ txq' = Append(IF full THEN Tail(txq) ELSE txq, c)
            /\ sent' = IF full THEN Append(sent, Head(txq)) ELSE sent
            /\ thr' = (thr \/ full)
            /\ not_full' = IF full THEN Nobody ELSE not_full
            /\ print' = IF full THEN Wake ELSE print
      /\ UNCHANGED <<mode, txq_lock, inputVars, lockVars, broken>>
      /\ serial_notify

-----------------------------------------------------------------------------
(* The serial port.                                                        *)

\* serial_interrupt: receive while there is room, transmit while the port is
\* ready, and say which interrupts are wanted.
serial_interrupt ==
  LET recv == rbr # NoByte /\ ~intq_full(input)
      xmit == txq # <<>> /\ ~thr
  IN  /\ (ier.recv /\ rbr # NoByte) \/ (ier.xmit /\ ~thr)
      /\ input' = IF recv THEN Append(input, rbr) ELSE input
      /\ typed' = IF recv THEN Append(typed, rbr) ELSE typed
      /\ not_empty' = (not_empty /\ ~recv)
      /\ rbr' = IF recv THEN NoByte ELSE rbr
      /\ txq' = IF xmit THEN Tail(txq) ELSE txq
      /\ sent' = IF xmit THEN Append(sent, Head(txq)) ELSE sent
      /\ thr' = (thr \/ xmit)
      /\ not_full' = IF xmit THEN Nobody ELSE not_full
      /\ print' = IF xmit THEN Wake ELSE print
      /\ UNCHANGED <<mode, txq_lock, log, eaten, lockVars, left, broken>>
      /\ write_ier

UartSent ==
  /\ thr
  /\ thr' = FALSE
  /\ UNCHANGED <<mode, txq, not_full, txq_lock, log, sent, inputVars, ier, lockVars, print, left, broken>>

UartReceives ==
  /\ rbr = NoByte
  /\ left.input > 0
  /\ rbr' = left.input
  /\ left' = [left EXCEPT !.input = @ - 1]
  /\ UNCHANGED <<mode, outputVars, input, not_empty, typed, eaten, ier, lockVars, print, broken>>

\* keyboard_interrupt: a key that finds no room is dropped.
KeyPressed ==
  /\ left.input > 0
  /\ left' = [left EXCEPT !.input = @ - 1]
  /\ LET room == ~intq_full(input)
     IN  /\ input' = IF room THEN Append(input, left.input) ELSE input
         /\ typed' = IF room THEN Append(typed, left.input) ELSE typed
         /\ not_empty' = (not_empty /\ ~room)
  /\ UNCHANGED <<mode, outputVars, rbr, eaten, lockVars, print, broken>>
  /\ serial_notify

input_getc_NoNotify ==
  /\ ~not_empty
  /\ \/ /\ input # <<>>
        /\ input' = Tail(input)
        /\ eaten' = Append(eaten, Head(input))
        /\ UNCHANGED <<outputVars, not_empty, ier>>
     \/ /\ input = <<>>
        /\ not_empty' = TRUE
        /\ UNCHANGED <<outputVars, input, eaten, ier>>
  /\ UNCHANGED <<mode, rbr, typed, lockVars, print, left, broken>>

\* input_getc by the one reader: sleep while there is nothing; a byte taken
\* makes room, serial_notify lets the port interrupt again.
input_getc ==
  /\ ~not_empty
  /\ \/ /\ input # <<>>
        /\ input' = Tail(input)
        /\ eaten' = Append(eaten, Head(input))
        /\ UNCHANGED <<outputVars, not_empty>>
        /\ serial_notify
     \/ /\ input = <<>>
        /\ not_empty' = TRUE
        /\ UNCHANGED <<outputVars, input, eaten, ier>>
  /\ UNCHANGED <<mode, rbr, typed, lockVars, print, left, broken>>

\* debug_panic: interrupts off, no more locking, a message, serial_flush.  The
\* last write_ier is that of the message's end, before the flush.
debug_panic ==
  /\ use_console_lock
  /\ use_console_lock' = FALSE
  /\ log' = Append(log, <<InPanic, 1>>)
  /\ sent' = sent \o txq \o << <<InPanic, 1>> >>
  /\ txq' = <<>>
  /\ thr' = TRUE
  /\ not_full' = IF txq # <<>> THEN Nobody ELSE not_full
  /\ print' = IF txq # <<>> THEN Wake ELSE print
  /\ ier' = IF mode = "QUEUE" THEN [xmit |-> TRUE, recv |-> ~intq_full(input)] ELSE ier
  /\ UNCHANGED <<mode, txq_lock, inputVars, console_lock, console_lock_depth, left, broken>>

PrintStep(t) ==
  acquire_console(t) \/ PutChar(t) \/ Woken(t) \/ release_console(t)

ConsoleNext ==
  \/ \E t \in Printer : StartLine(t) \/ PrintStep(t) \/ PrintNested(t)
  \/ serial_init_queue \/ HandlerPrints \/ serial_interrupt \/ UartSent \/ UartReceives
  \/ KeyPressed \/ input_getc \/ debug_panic
=============================================================================
