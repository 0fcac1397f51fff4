-------------------------------- MODULE Boot --------------------------------
(***************************************************************************)
(* threads/init.c: main() brings the kernel up in a fixed order, reads the *)
(* command line the loader left in memory, and runs its actions.  The      *)
(* loader's memory is that of CString.tla.  Past read_command_line() a     *)
(* word is a record: its text, and, split at the `=', name and value.      *)
(***************************************************************************)
EXTENDS Integers, Sequences, SequencesExt, CString

CONSTANT LOADER_ARGS_LEN

ASSUME LoaderArgsAssumption == LOADER_ARGS_LEN \in Nat \ {0}

\* The addresses of the argc words found from address 0 on.
RECURSIVE WordsFrom(_, _, _)
WordsFrom(m, p, argc) ==
  IF argc = 0 THEN [panic |-> FALSE, argv |-> <<>>]
  ELSE IF p >= LOADER_ARGS_LEN THEN [panic |-> TRUE, argv |-> <<>>]
  ELSE LET rest == WordsFrom(m, p + strnlen(m, p, LOADER_ARGS_LEN - p) + 1, argc - 1)
       IN  [rest EXCEPT !.argv = <<p>> \o @]
read_command_line(m, argc) == WordsFrom(m, 0, argc)

NoValue == "none"
Word(text) == [text |-> text, name |-> text, value |-> NoValue]
Option(name, value) == [text |-> "-", name |-> name, value |-> value]
IsOption(w) == w.text = "-" \/ w.name \in {"-h", "-q", "-f", "-mlfqs"}

Defaults == [power_off_when_done |-> FALSE, format_filesys |-> FALSE, thread_mlfqs |-> FALSE,
             seed |-> NoValue, user_page_limit |-> NoValue]

\* One option: the state it leaves, and how boot ends if it ends here.
\* atoi() asserts that it is given a string.
ParseOption(o, w) ==
  LET Set(field, value) == [opts |-> [o EXCEPT ![field] = value], end |-> "go"]
      Stop(how) == [opts |-> o, end |-> how]
  IN  CASE w.name = "-h" -> Stop("usage")
        [] w.name = "-q" -> Set("power_off_when_done", TRUE)
        [] w.name = "-f" -> Set("format_filesys", TRUE)
        [] w.name = "-mlfqs" -> Set("thread_mlfqs", TRUE)
        [] w.name = "-rs" -> IF w.value = NoValue THEN Stop("panic") ELSE Set("seed", w.value)
        [] w.name = "-ul" -> IF w.value = NoValue THEN Stop("panic")
                             ELSE Set("user_page_limit", w.value)
        [] OTHER -> Stop("panic")

RECURSIVE ParseFrom(_, _)
ParseFrom(o, argv) ==
  IF argv = <<>> \/ ~IsOption(Head(argv)) THEN [opts |-> o, end |-> "go", argv |-> argv]
  ELSE LET r == ParseOption(o, Head(argv))
       IN  IF r.end = "go" THEN ParseFrom(r.opts, Tail(argv))
           ELSE [opts |-> r.opts, end |-> r.end, argv |-> argv]
parse_options(argv) == ParseFrom(Defaults, argv)

\* The table of actions: words taken, the action's own name included.
ActionArgc == [run |-> 2, ls |-> 1, cat |-> 2, rm |-> 2, put |-> 2, get |-> 2]

RECURSIVE run_actions_SkipsOne(_)
run_actions_SkipsOne(argv) ==
  IF argv = <<>> THEN [done |-> <<>>, end |-> "complete"]
  ELSE IF argv[1].text \notin DOMAIN ActionArgc THEN [done |-> <<>>, end |-> "panic"]
  ELSE IF ActionArgc[argv[1].text] > Len(argv) THEN [done |-> <<>>, end |-> "panic"]
  ELSE LET rest == run_actions_SkipsOne(SubSeq(argv, 3, Len(argv)))
       IN  [rest EXCEPT !.done = <<SubSeq(argv, 1, ActionArgc[argv[1].text])>> \o @]

\* The actions invoked, each with its words, and how the loop ends.
RECURSIVE run_actions(_)
run_actions(argv) ==
  IF argv = <<>> THEN [done |-> <<>>, end |-> "complete"]
  ELSE IF argv[1].text \notin DOMAIN ActionArgc THEN [done |-> <<>>, end |-> "panic"]
  ELSE LET n == ActionArgc[argv[1].text]
       IN  IF n > Len(argv) THEN [done |-> <<>>, end |-> "panic"]
           ELSE LET rest == run_actions(SubSeq(argv, n + 1, Len(argv)))
                IN  [rest EXCEPT !.done = <<SubSeq(argv, 1, n)>> \o @]

\* What main() calls before the actions, in its order.
BootSteps ==
  <<"ram_init", "read_command_line", "parse_options", "thread_init", "console_init",
    "palloc_init", "malloc_init", "paging_init", "tss_init", "gdt_init", "intr_init",
    "timer_init", "kbd_init", "input_init", "exception_init", "syscall_init", "ft_init",
    "thread_start", "serial_init_queue", "timer_calibrate", "disk_init", "filesys_init",
    "swap_init">>

\* What each step's code uses: the step that must have set it up.
Needs ==
  {<<"read_command_line", "ram_init">>,        \* argv is in the BSS that ram_init clears
   <<"parse_options", "read_command_line">>,
   <<"thread_init", "ram_init">>,              \* ready_list, lock state
   <<"console_init", "thread_init">>,          \* a lock's holder is thread_current ()
   <<"palloc_init", "parse_options">>,         \* user_page_limit
   <<"palloc_init", "ram_init">>,              \* ram_pages
   <<"palloc_init", "thread_init">>,           \* the pools' locks
   <<"malloc_init", "palloc_init">>,
   <<"paging_init", "palloc_init">>,           \* palloc_get_page
   <<"tss_init", "palloc_init">>,              \* palloc_get_page
   <<"gdt_init", "tss_init">>,                 \* tss_get
   <<"timer_init", "intr_init">>,              \* intr_register_ext
   <<"kbd_init", "intr_init">>,
   <<"exception_init", "intr_init">>,
   <<"syscall_init", "intr_init">>,
   <<"thread_start", "malloc_init">>,          \* thread_create's page, the corpse
   <<"thread_start", "paging_init">>,          \* interrupts go on: every handler is set
   <<"thread_start", "timer_init">>,
   <<"thread_start", "input_init">>,           \* a key may arrive from now on
   <<"serial_init_queue", "intr_init">>,
   <<"timer_calibrate", "thread_start">>,      \* asserts interrupts are on
   <<"disk_init", "timer_calibrate">>,         \* timer_usleep's loops_per_tick
   <<"disk_init", "thread_start">>,            \* waits for the interrupt of IDENTIFY
   <<"filesys_init", "disk_init">>,
   <<"filesys_init", "malloc_init">>,
   <<"filesys_init", "parse_options">>,        \* format_filesys
   <<"swap_init", "disk_init">>}

\* main(): the options, the actions run, and how the kernel ends.
main(argv) ==
  LET p == parse_options(argv)
      a == run_actions(p.argv)
  IN  IF p.end # "go" THEN [opts |-> p.opts, done |-> <<>>, end |-> p.end]
      ELSE [opts |-> p.opts, done |-> a.done,
            end |-> IF a.end = "panic" THEN "panic"
                    ELSE IF p.opts.power_off_when_done THEN "power_off" ELSE "thread_exit"]
=============================================================================
