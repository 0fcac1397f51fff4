----------------------------- MODULE UserStack ------------------------------
(***************************************************************************)
(* The command line on its way into a new process (userprog/process.c):    *)
(* the name that process_execute() opens, the words execute_thread() finds *)
(* with strtok_r(), and the stack it builds from them below UserTop.       *)
(* Memory is that of CString, and a word is stored as its value followed   *)
(* by three bytes WordTail, so that whatever is written over it shows.     *)
(***************************************************************************)
EXTENDS CString

UserTop == 52        \* PHYS_BASE
Blank == 9           \* ' '
WordTail == 99
NameBuf == 5         \* sizeof file_name, 17
NameMax == 2         \* NAME_MAX, 14
ArgvTemp == 3        \* elements of argv_temp[], 100

file_name(cmdline) ==
  SubSeq(cmdline, 1, Min({i \in 0..(NameBuf - 1) :
    i = NameBuf - 1 \/ i >= Len(cmdline) \/ cmdline[i + 1] = Blank}))

\* The loop over strtok_r(): the memory it leaves, and argv_temp.  Nothing tests
\* the array's bound: what a word too many overwrites is not modelled.
RECURSIVE Tokenize(_, _, _, _)
Tokenize(m, s, save_ptr, argv) ==
  LET r == strtok_r(m, s, {Blank}, save_ptr)
  IN  IF r.ret = NoPtr THEN [m |-> r.m, argv |-> argv, fits |-> TRUE]
      ELSE IF Len(argv) = ArgvTemp THEN [m |-> r.m, argv |-> argv, fits |-> FALSE]
      ELSE Tokenize(r.m, NoPtr, r.save, Append(argv, r.ret))

StoreWord(m, a, v) ==
  [m EXCEPT ![a] = v, ![a + 1] = WordTail, ![a + 2] = WordTail, ![a + 3] = WordTail]

word_align(address, sum) == address - (4 - (sum % 4))

\* The rest of execute_thread(), for a load() that succeeded: the strings, the
\* padding, argv[] with its null pointer, argv, argc, and a return address.
BuildStack(m, argv) ==
  LET count == Len(argv)
      arg_length == [i \in 1..count |-> strlen(m, argv[i]) + 1]
      Sum(n) == FoldLeft(+, 0, SubSeq(arg_length, 1, n))
      argv_stack_address == UserTop - Sum(count)
      strings == FoldLeft(LAMBDA n, i :
                   strlcpy(n, argv_stack_address + Sum(i - 1), argv[i], arg_length[i]).m,
                   m, [i \in 1..count |-> i])
      aligned == word_align(argv_stack_address, Sum(count))
      padded == memset(strings, aligned, 0, argv_stack_address - aligned)
      argvs == aligned - 4 * (count + 1)
      pointers == FoldLeft(LAMBDA n, i :
                    StoreWord(n, argvs + 4 * (i - 1), argv_stack_address + Sum(i - 1)),
                    padded, [i \in 1..count |-> i])
      ended == StoreWord(pointers, argvs + 4 * count, 0)
  IN  [m |-> StoreWord(StoreWord(ended, argvs - 4, argvs), argvs - 8, count), esp |-> argvs - 12,
       fits |-> TRUE]

execute_thread(m, cmdline) ==
  LET t == Tokenize(m, cmdline, NoPtr, <<>>)
  IN  IF t.fits THEN BuildStack(t.m, t.argv) ELSE [fits |-> FALSE]
=============================================================================
