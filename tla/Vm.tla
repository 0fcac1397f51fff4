--------------------------------- MODULE Vm ---------------------------------
(***************************************************************************)
(* Demand paging: the page fault handler (userprog/exception.c), frames    *)
(* and their eviction (vm/frame.c), the supplemental page table            *)
(* (vm/page.c), and the system calls and the exit path that touch them     *)
(* (userprog/syscall.c, userprog/process.c, threads/thread.c).             *)
(*                                                                         *)
(* The choice of a victim is any loaded frame (FrameTable.tla has the      *)
(* clock); a swap slot is the page in it (SwapTable.tla has the slots).    *)
(* Locks are those of Synch.tla, a step that needs one waits for it.  One  *)
(* processor: with interrupts off a thread is only interrupted where it    *)
(* sleeps.                                                                 *)
(***************************************************************************)
EXTENDS Naturals, FiniteSets

CONSTANTS
  Proc,     \* user processes, all started
  VPage,    \* user virtual pages
  KPage,    \* the pages of the user pool
  Value,    \* page contents
  Zero,     \* the contents of a page of zeroes
  Kind,     \* what each process uses each virtual page for
  File,     \* files, of one page each
  Elf,      \* the one that is executed: file_deny_write keeps it as it is
  SwapSlots,  \* slots of the swap disk
  NULL

ASSUME VmAssumption ==
  /\ Kind \in [Proc -> [VPage -> {"none", "stack", "exec", "zero", "file"}]]
  /\ Zero \in Value
  /\ Elf \in File
  /\ SwapSlots \in Nat
  /\ NULL \notin Proc \cup VPage \cup KPage \cup Value \cup File

VARIABLES
  pc,            \* where each process is
  at,            \* the page it works on
  entry,         \* gen_page: the supplemental entry page_fault found
  kpage,         \* the frame page_fault fills
  victim,        \* ft_replacement's f, dirty and evicted_page
  back,          \* where page_fault returns to
  pool,          \* free pages of the user pool
  frame_list,    \* set of [page, t, v, loaded]
  pte,           \* the page a virtual page is mapped to, NULL if not present
  dirty,         \* PTE_D of a present page
  spt,           \* supplemental page tables
  destroyed,     \* the processes whose supplemental table has been destroyed
  page_sema,     \* who is inside each process's page_sema
  frame_lock,
  filesys_lock,
  data,          \* contents of the pages of the pool
  file,          \* contents of the files
  swap_used,     \* number of swap slots in use
  memory,        \* history: the contents the program may find in a page, {}
                 \* if it has no right to the page
  raced,         \* history: a page changed after ft_replacement read PTE_D
  lost,          \* history: slots whose entry was expired
  panic          \* why the kernel stopped

locals == <<at, entry, kpage, victim, back>>
frames == <<pool, frame_list>>
tables == <<pte, dirty, spt, destroyed>>
locks == <<page_sema, frame_lock, filesys_lock>>
contents == <<data, file, swap_used>>
history == <<memory, raced, lost>>

vars == <<pc, locals, frames, tables, locks, contents, history, panic>>

None == [type |-> "NONE"]
ZeroPage == [type |-> "ZERO"]
ExecPage == [type |-> "EXEC", file |-> Elf]
FilePage(f) == [type |-> "FILE", file |-> f]
Swap(content, under) == [type |-> "SWAP", data |-> content, under |-> under]
Frame(k, p, v, l) == [page |-> k, t |-> p, v |-> v, loaded |-> l]
NoVictim == [frame |-> NULL, dirty |-> FALSE, page |-> None]

Goto(p, label) == pc' = [pc EXCEPT ![p] = label]

Init ==
  /\ pc = [p \in Proc |-> "run"]
  /\ at = [p \in Proc |-> NULL]
  /\ entry = [p \in Proc |-> None]
  /\ kpage = [p \in Proc |-> NULL]
  /\ victim = [p \in Proc |-> NoVictim]
  /\ back = [p \in Proc |-> "run"]
  /\ pool = KPage
  /\ frame_list = {}
  /\ pte = [p \in Proc |-> [v \in VPage |-> NULL]]
  /\ dirty = [p \in Proc |-> [v \in VPage |-> FALSE]]
  /\ spt = [p \in Proc |-> [v \in VPage |->
              CASE Kind[p][v] = "exec" -> ExecPage
                [] Kind[p][v] = "zero" -> ZeroPage
                [] OTHER -> None]]
  /\ destroyed = {}
  /\ page_sema = [p \in Proc |-> NULL]
  /\ frame_lock = NULL
  /\ filesys_lock = NULL
  /\ \E fill \in Value : data = [k \in KPage |-> fill]
  /\ \E first \in Value :
       /\ file = [f \in File |-> first]
       /\ memory = [p \in Proc |-> [v \in VPage |->
            CASE Kind[p][v] = "exec" -> {first}
              [] Kind[p][v] = "zero" -> {Zero}
              [] Kind[p][v] = "stack" -> Value
              [] OTHER -> {}]]
  /\ swap_used = 0
  /\ raced = FALSE
  /\ lost = 0
  /\ panic = "none"

-----------------------------------------------------------------------------
(* The program.  It may touch any page, and finds a page that is present    *)
(* although munmap has taken its entry; it relies on its own pages only.    *)

Owned(p, v) == Kind[p][v] # "file" \/ spt[p][v].type = "FILE"

Store(p) ==
  /\ pc[p] = "run"
  /\ \E v \in VPage, w \in Value :
       /\ pte[p][v] # NULL
       /\ data' = [data EXCEPT ![pte[p][v]] = w]
       /\ dirty' = [dirty EXCEPT ![p][v] = TRUE]
       /\ memory' = [memory EXCEPT ![p][v] = IF Owned(p, v) THEN {w} ELSE @]
  /\ UNCHANGED <<pc, locals, frames, pte, spt, destroyed, locks, file,
                 swap_used, raced, lost, panic>>

\* FILE receives CONTENT from the page WHO, or from write(): whoever maps the
\* file elsewhere may find that as well, depending on when its page is read.
Spread(mem, f, content, who) ==
  [q \in Proc |-> [u \in VPage |->
     IF spt[q][u] = FilePage(f) /\ <<q, u>> # who
     THEN mem[q][u] \cup {content} ELSE mem[q][u]]]

\* A load or a store of a page that is not present.
Fault(p) ==
  /\ pc[p] = "run"
  /\ \E v \in VPage :
       /\ pte[p][v] = NULL
       /\ at' = [at EXCEPT ![p] = v]
  /\ Goto(p, "find")
  /\ UNCHANGED <<entry, kpage, victim, back, frames, tables, locks, contents,
                 history, panic>>

-----------------------------------------------------------------------------
(* page_fault.                                                             *)

\* find_lazy_page: a preemptible critical section of page_sema.
FindEnter(p) ==
  /\ pc[p] = "find"
  /\ page_sema[p] = NULL
  /\ page_sema' = [page_sema EXCEPT ![p] = p]
  /\ Goto(p, "found")
  /\ UNCHANGED <<locals, frames, tables, frame_lock, filesys_lock, contents,
                 history, panic>>

\* A page without an entry is the stack's, or the process is killed.  Inside
\* write() the handler goes to the address in EAX instead, which only the
\* validation of a buffer has put there.
FoundPage(p) ==
  LET unknown == spt[p][at[p]] = None /\ Kind[p][at[p]] # "stack" IN
  \/ /\ ~ unknown
     /\ Goto(p, "get")
     /\ UNCHANGED panic
  \/ /\ unknown /\ back[p] = "run"
     /\ Goto(p, "exit")
     /\ UNCHANGED panic
  \/ /\ unknown /\ back[p] = "copy"
     /\ panic' = "recovery"
     /\ UNCHANGED pc

FindLeave_KeepSema(p) ==
  /\ pc[p] = "found"
  /\ entry' = [entry EXCEPT ![p] = spt[p][at[p]]]
  /\ FoundPage(p)
  /\ UNCHANGED <<at, kpage, victim, back, frames, tables, locks, contents,
                 history>>

FindLeave(p) ==
  /\ pc[p] = "found"
  /\ entry' = [entry EXCEPT ![p] = spt[p][at[p]]]
  /\ page_sema' = [page_sema EXCEPT ![p] = NULL]
  /\ FoundPage(p)
  /\ UNCHANGED <<at, kpage, victim, back, frames, tables, frame_lock,
                 filesys_lock, contents, history>>

\* ft_get_page when palloc_get_page finds a page.
GetFree(p) ==
  /\ pc[p] = "get"
  /\ frame_lock = NULL
  /\ \E k \in pool :
       /\ pool' = pool \ {k}
       /\ frame_list' = frame_list \cup {Frame(k, p, NULL, FALSE)}
       /\ kpage' = [kpage EXCEPT ![p] = k]
  /\ Goto(p, "fill")
  /\ UNCHANGED <<at, entry, victim, back, tables, locks, contents, history,
                 panic>>

-----------------------------------------------------------------------------
(* ft_replacement, with frame_lock held.                                   *)

Detach_NoSema(p, f, d) ==
  LET q == f.t IN
  /\ victim' = [victim EXCEPT ![p] =
                  [frame |-> f, dirty |-> d, page |-> spt[q][f.v]]]
  /\ pte' = [pte EXCEPT ![q][f.v] = NULL]
  /\ dirty' = [dirty EXCEPT ![q][f.v] = FALSE]
  /\ raced' = (raced \/ d # dirty[q][f.v])
  /\ Goto(p, "evict")
  /\ UNCHANGED <<page_sema, panic>>

\* find_lazy_page, sema_down and pagedir_clear_page once page_sema is free,
\* all with interrupts off: nobody runs between them.
Detach(p, f, d) ==
  LET q == f.t IN
  /\ page_sema[q] = NULL
  /\ \/ /\ q \in destroyed
        /\ panic' = "freed_table"
        /\ UNCHANGED <<pc, victim, page_sema, pte, dirty, raced>>
     \/ /\ q \notin destroyed
        /\ victim' = [victim EXCEPT ![p] =
                         [frame |-> f, dirty |-> d, page |-> spt[q][f.v]]]
        /\ page_sema' = [page_sema EXCEPT ![q] = p]
        /\ pte' = [pte EXCEPT ![q][f.v] = NULL]
        /\ dirty' = [dirty EXCEPT ![q][f.v] = FALSE]
        /\ raced' = (raced \/ d # dirty[q][f.v])
        /\ Goto(p, "evict")
        /\ UNCHANGED panic

\* The victim's page_sema is free: the choice, PTE_D and Detach are one step.
\* Otherwise ft_replacement sleeps with the victim chosen and PTE_D read.
Replace(p) ==
  /\ pc[p] = "get"
  /\ frame_lock = NULL
  /\ pool = {}
  /\ \E f \in frame_list :
       /\ f.loaded
       /\ frame_lock' = p
       /\ \/ Detach(p, f, dirty[f.t][f.v])
          \/ /\ page_sema[f.t] # NULL
             /\ victim' = [victim EXCEPT ![p] =
                  [frame |-> f, dirty |-> dirty[f.t][f.v], page |-> None]]
             /\ Goto(p, "asleep")
             /\ UNCHANGED <<page_sema, pte, dirty, raced, panic>>
  /\ UNCHANGED <<at, entry, kpage, back, frames, spt, destroyed,
                 filesys_lock, contents, memory, lost>>

\* Nothing to evict: the assertion on the empty list fails, or the clock
\* turns for ever, with interrupts off, past frames that are not loaded.
NoVictimLeft(p) ==
  /\ pc[p] = "get"
  /\ frame_lock = NULL
  /\ pool = {}
  /\ \A f \in frame_list : ~ f.loaded
  /\ panic' = IF frame_list = {} THEN "empty" ELSE "spin"
  /\ UNCHANGED <<pc, locals, frames, tables, locks, contents, history>>

\* sema_up of the victim's page_sema woke the evictor.
Awake(p) ==
  /\ pc[p] = "asleep"
  /\ Detach(p, victim[p].frame, victim[p].dirty)
  /\ UNCHANGED <<at, entry, kpage, back, frames, spt, destroyed,
                 frame_lock, filesys_lock, contents, memory, lost>>

\* Where a dirty page goes: the file mapped there now, or swap.
SaveVictim(q, v, e, content) ==
  \/ /\ e.type = "FILE"
     /\ file' = [file EXCEPT ![e.file] = content]
     /\ memory' = Spread(memory, e.file, content, <<q, v>>)
     /\ UNCHANGED <<spt, swap_used>>
  \/ /\ e.type # "FILE"
     /\ spt' = [spt EXCEPT ![q][v] = Swap(content, e)]
     /\ swap_used' = swap_used + 1
     /\ UNCHANGED <<file, memory>>

NoSlot(p) ==
  victim[p].dirty /\ victim[p].page.type # "FILE" /\ swap_used = SwapSlots

\* The assertion that swap_slot_write found a slot fails.
EvictFails(p) ==
  /\ pc[p] = "evict"
  /\ NoSlot(p)
  /\ panic' = "swap_full"
  /\ UNCHANGED <<pc, locals, frames, tables, locks, contents, history>>

\* The page is saved if it was dirty, its frame leaves the table and the new
\* frame enters it; page_sema and frame_lock are released.
EvictDone(p) ==
  /\ pc[p] = "evict"
  /\ ~ NoSlot(p)
  /\ LET f == victim[p].frame  IN
     /\ \/ /\ victim[p].dirty
           /\ SaveVictim(f.t, f.v, victim[p].page, data[f.page])
        \/ /\ ~ victim[p].dirty
           /\ UNCHANGED <<file, memory, spt, swap_used>>
     /\ frame_list' = (frame_list \ {f}) \cup {Frame(f.page, p, NULL, FALSE)}
     /\ kpage' = [kpage EXCEPT ![p] = f.page]
     /\ page_sema' = [page_sema EXCEPT ![f.t] = NULL]
  /\ victim' = [victim EXCEPT ![p] = NoVictim]
  /\ frame_lock' = NULL
  /\ Goto(p, "fill")
  /\ UNCHANGED <<at, entry, back, pool, pte, dirty, destroyed, filesys_lock,
                 data, raced, lost, panic>>

-----------------------------------------------------------------------------
(* The rest of page_fault: fill the frame, install it.                     *)

\* A page of a file is read with filesys_lock held.  lock_acquire asserts
\* that the caller does not hold the lock already.
FillLock(p) ==
  /\ pc[p] = "fill"
  /\ entry[p].type \in {"EXEC", "FILE"}
  /\ \/ /\ filesys_lock = p
        /\ panic' = "filesys_lock"
        /\ UNCHANGED <<pc, filesys_lock>>
     \/ /\ filesys_lock = NULL
        /\ filesys_lock' = p
        /\ Goto(p, "read")
        /\ UNCHANGED panic
  /\ UNCHANGED <<locals, frames, tables, page_sema, frame_lock, contents,
                 history>>

FillRead(p) ==
  /\ pc[p] = "read"
  /\ data' = [data EXCEPT ![kpage[p]] = file[entry[p].file]]
  /\ filesys_lock' = NULL
  /\ Goto(p, "install")
  /\ UNCHANGED <<locals, frames, tables, page_sema, frame_lock, file,
                 swap_used, history, panic>>

Fill_KeepSlot(p) ==
  /\ pc[p] = "fill"
  /\ entry[p].type \in {"SWAP", "ZERO", "NONE"}
  /\ data' = [data EXCEPT ![kpage[p]] =
       CASE entry[p].type = "SWAP" -> entry[p].data
         [] entry[p].type = "ZERO" -> Zero
         [] OTHER -> @]
  /\ Goto(p, IF entry[p].type = "SWAP" THEN "swapped" ELSE "install")
  /\ UNCHANGED <<locals, frames, tables, locks, file, swap_used, history, panic>>

\* swap_slot_read, which also frees the slot; zeroes; or, for a new page of
\* the stack, whatever the frame holds.
Fill(p) ==
  /\ pc[p] = "fill"
  /\ \/ /\ entry[p].type = "SWAP"
        /\ data' = [data EXCEPT ![kpage[p]] = entry[p].data]
        /\ swap_used' = swap_used - 1
        /\ Goto(p, "swapped")
     \/ /\ entry[p].type = "ZERO"
        /\ data' = [data EXCEPT ![kpage[p]] = Zero]
        /\ Goto(p, "install")
        /\ UNCHANGED swap_used
     \/ /\ entry[p].type = "NONE"
        /\ Goto(p, "install")
        /\ UNCHANGED <<data, swap_used>>
  /\ UNCHANGED <<locals, frames, tables, locks, file, history, panic>>

\* The swap_page leaves the table and the entry it replaced comes back.
SwapEnter(p) ==
  /\ pc[p] = "swapped"
  /\ page_sema[p] = NULL
  /\ page_sema' = [page_sema EXCEPT ![p] = p]
  /\ Goto(p, "restore")
  /\ UNCHANGED <<locals, frames, tables, frame_lock, filesys_lock, contents,
                 history, panic>>

SwapLeave(p) ==
  /\ pc[p] = "restore"
  /\ spt' = [spt EXCEPT ![p][at[p]] = entry[p].under]
  /\ page_sema' = [page_sema EXCEPT ![p] = NULL]
  /\ Goto(p, "install")
  /\ UNCHANGED <<locals, frames, pte, dirty, destroyed, frame_lock,
                 filesys_lock, contents, history, panic>>

\* page_fault is over: its locals are gone.
Forget(p) ==
  /\ entry' = [entry EXCEPT ![p] = None]
  /\ kpage' = [kpage EXCEPT ![p] = NULL]
  /\ back' = [back EXCEPT ![p] = "run"]
  /\ at' = [at EXCEPT ![p] = IF back[p] = "copy" THEN @ ELSE NULL]

Install_Clean(p) ==
  /\ pc[p] = "install"
  /\ frame_lock = NULL
  /\ pte' = [pte EXCEPT ![p][at[p]] = kpage[p]]
  /\ dirty' = [dirty EXCEPT ![p][at[p]] = FALSE]
  /\ frame_list' = {f \in frame_list : f.page # kpage[p]}
                     \cup {Frame(kpage[p], p, at[p], TRUE)}
  /\ Goto(p, back[p])
  /\ Forget(p)
  /\ UNCHANGED <<victim, pool, spt, destroyed, locks, contents, history,
                 panic>>

\* install_page, pagedir_set_dirty for a page from swap, loaded = true.
Install(p) ==
  /\ pc[p] = "install"
  /\ frame_lock = NULL
  /\ pte' = [pte EXCEPT ![p][at[p]] = kpage[p]]
  /\ dirty' = [dirty EXCEPT ![p][at[p]] = (entry[p].type = "SWAP")]
  /\ frame_list' = {f \in frame_list : f.page # kpage[p]}
                     \cup {Frame(kpage[p], p, at[p], TRUE)}
  /\ Goto(p, back[p])
  /\ Forget(p)
  /\ UNCHANGED <<victim, pool, spt, destroyed, locks, contents, history,
                 panic>>

\* file_read comes back short, with filesys_lock held, or install_page finds
\* no memory for a page table and frame_lock is released.
FaultFails(p) ==
  /\ pc[p] \in {"read", "install"}
  /\ pc[p] = "install" => frame_lock = NULL
  /\ Goto(p, "unwind")
  /\ UNCHANGED <<locals, frames, tables, locks, contents, history, panic>>

\* ft_free_page: the frame, and after frame_lock is released the page.  Then
\* a short read's filesys_lock is released, and exit (-1).
FtFreePage(p) ==
  /\ pc[p] = "unwind"
  /\ frame_lock = NULL
  /\ frame_list' = {f \in frame_list : f.page # kpage[p]}
  /\ Goto(p, "release")
  /\ UNCHANGED <<locals, pool, tables, locks, contents, history, panic>>

PallocFreePage(p) ==
  /\ pc[p] = "release"
  /\ pool' = pool \cup {kpage[p]}
  /\ filesys_lock' =
       IF filesys_lock = p /\ back[p] # "copy" THEN NULL ELSE filesys_lock
  /\ Goto(p, "exit")
  /\ Forget(p)
  /\ UNCHANGED <<victim, frame_list, tables, page_sema, frame_lock, contents,
                 history, panic>>

-----------------------------------------------------------------------------
(* System calls.                                                           *)

\* write: validate_read has touched the buffer's page, then the file system
\* copies from it with filesys_lock held and may fault on it again.
SysWrite(p) ==
  /\ pc[p] = "run"
  /\ \E v \in VPage :
       /\ pte[p][v] # NULL
       /\ at' = [at EXCEPT ![p] = v]
  /\ Goto(p, "write")
  /\ UNCHANGED <<entry, kpage, victim, back, frames, tables, locks, contents,
                 history, panic>>

WriteLock(p) ==
  /\ pc[p] = "write"
  /\ filesys_lock = NULL
  /\ filesys_lock' = p
  /\ Goto(p, "copy")
  /\ UNCHANGED <<locals, frames, tables, page_sema, frame_lock, contents,
                 history, panic>>

WriteCopy(p) ==
  /\ pc[p] = "copy"
  /\ \/ /\ pte[p][at[p]] # NULL
        /\ \E f \in File \ {Elf}, content \in {data[pte[p][at[p]]]} :
             /\ file' = [file EXCEPT ![f] = content]
             /\ memory' = Spread(memory, f, content, NULL)
        /\ filesys_lock' = NULL
        /\ at' = [at EXCEPT ![p] = NULL]
        /\ Goto(p, "run")
        /\ UNCHANGED back
     \/ /\ pte[p][at[p]] = NULL
        /\ back' = [back EXCEPT ![p] = "copy"]
        /\ Goto(p, "find")
        /\ UNCHANGED <<filesys_lock, at, file, memory>>
  /\ UNCHANGED <<entry, kpage, victim, frames, tables, page_sema, frame_lock,
                 data, swap_used, raced, lost, panic>>

\* mmap, with filesys_lock held: validate_free_page, then add_lazy_page.  It
\* looks for an entry, not for a page: one that munmap left is not replaced,
\* and the program finds its bytes, which eviction or munmap may save to the
\* new file.
Mmap(p) ==
  /\ pc[p] = "run"
  /\ filesys_lock = NULL
  /\ page_sema[p] = NULL
  /\ \E v \in VPage, f \in File \ {Elf} :
       /\ Kind[p][v] = "file"
       /\ spt[p][v] = None
       /\ spt' = [spt EXCEPT ![p][v] = FilePage(f)]
       /\ memory' = [memory EXCEPT ![p][v] =
            {file[f]} \cup {data[k] : k \in {pte[p][v]} \ {NULL}}]
  /\ UNCHANGED <<pc, locals, frames, pte, dirty, destroyed, locks, contents,
                 raced, lost, panic>>

\* munmap: expire_page inside page_sema.
Munmap(p) ==
  /\ pc[p] = "run"
  /\ page_sema[p] = NULL
  /\ \E v \in VPage :
       /\ spt[p][v].type = "FILE"
       /\ at' = [at EXCEPT ![p] = v]
  /\ page_sema' = [page_sema EXCEPT ![p] = p]
  /\ Goto(p, "unmap")
  /\ UNCHANGED <<entry, kpage, victim, back, frames, tables, frame_lock,
                 filesys_lock, contents, history, panic>>

ModifiedFile(p, v) ==
  spt[p][v].type = "FILE" /\ pte[p][v] # NULL /\ dirty[p][v]

Expire_NoWrite(p, v) ==
  /\ spt' = [spt EXCEPT ![p][v] = None]
  /\ memory' = [memory EXCEPT ![p][v] = {}]
  /\ UNCHANGED <<file, lost>>

\* expire_page: a modified page is written to its file, through filesys_lock;
\* the entry is deleted.  The page itself stays mapped, a swap slot in use.
Expire(p, v) ==
  /\ \/ /\ ModifiedFile(p, v)
        /\ filesys_lock = NULL
        /\ LET f == spt[p][v].file  content == data[pte[p][v]] IN
           /\ file' = [file EXCEPT ![f] = content]
           /\ memory' = [Spread(memory, f, content, <<p, v>>) EXCEPT ![p][v] = {}]
     \/ /\ ~ ModifiedFile(p, v)
        /\ memory' = [memory EXCEPT ![p][v] = {}]
        /\ UNCHANGED file
  /\ spt' = [spt EXCEPT ![p][v] = None]
  /\ lost' = IF spt[p][v].type = "SWAP" THEN lost + 1 ELSE lost

MunmapExpire(p) ==
  /\ pc[p] = "unmap"
  /\ Expire(p, at[p])
  /\ at' = [at EXCEPT ![p] = NULL]
  /\ page_sema' = [page_sema EXCEPT ![p] = NULL]
  /\ Goto(p, "run")
  /\ UNCHANGED <<entry, kpage, victim, back, frames, pte, dirty, destroyed,
                 frame_lock, filesys_lock, data, swap_used, raced, panic>>

-----------------------------------------------------------------------------
(* exit: thread_exit and process_exit.                                     *)

Exit(p) ==
  /\ pc[p] = "run"
  /\ Goto(p, "exit")
  /\ UNCHANGED <<locals, frames, tables, locks, contents, history, panic>>

\* thread_exit first closes the files, with filesys_lock.
ExitClose(p) ==
  /\ pc[p] = "exit"
  /\ \/ /\ filesys_lock = p
        /\ panic' = "filesys_lock"
        /\ UNCHANGED <<pc, at, entry>>
     \/ /\ filesys_lock = NULL
        /\ Goto(p, "destroy")
        /\ at' = [at EXCEPT ![p] = NULL]
        /\ entry' = [entry EXCEPT ![p] = None]
        /\ UNCHANGED panic
  /\ UNCHANGED <<kpage, victim, back, frames, tables, locks, contents,
                 history>>

\* destroy_supplemental_pagetable: expire_page for every entry.
DestroyEnter(p) ==
  /\ pc[p] = "destroy"
  /\ page_sema[p] = NULL
  /\ page_sema' = [page_sema EXCEPT ![p] = p]
  /\ Goto(p, "expire")
  /\ UNCHANGED <<locals, frames, tables, frame_lock, filesys_lock, contents,
                 history, panic>>

DestroyExpire(p) ==
  /\ pc[p] = "expire"
  /\ \E v \in VPage :
       /\ spt[p][v] # None
       /\ Expire(p, v)
  /\ UNCHANGED <<pc, locals, frames, pte, dirty, destroyed, locks, data,
                 swap_used, raced, panic>>

DestroyLeave(p) ==
  /\ pc[p] = "expire"
  /\ \A v \in VPage : spt[p][v] = None
  /\ destroyed' = destroyed \cup {p}
  /\ page_sema' = [page_sema EXCEPT ![p] = NULL]
  /\ Goto(p, "frames")
  /\ UNCHANGED <<locals, frames, pte, dirty, spt, frame_lock, filesys_lock,
                 contents, history, panic>>

FtDestroy_First(p) ==
  /\ pc[p] = "frames"
  /\ frame_lock = NULL
  /\ \/ \E f \in frame_list : f.t = p /\ frame_list' = frame_list \ {f}
     \/ (\A f \in frame_list : f.t # p) /\ UNCHANGED frame_list
  /\ Goto(p, "pagedir")
  /\ UNCHANGED <<locals, pool, tables, locks, contents, history, panic>>

\* ft_destroy.
FtDestroy(p) ==
  /\ pc[p] = "frames"
  /\ frame_lock = NULL
  /\ frame_list' = {f \in frame_list : f.t # p}
  /\ Goto(p, "pagedir")
  /\ UNCHANGED <<locals, pool, tables, locks, contents, history, panic>>

\* pagedir_destroy frees the pages that are present.
PagedirDestroy(p) ==
  /\ pc[p] = "pagedir"
  /\ pool' = pool \cup ({pte[p][v] : v \in VPage} \ {NULL})
  /\ pte' = [pte EXCEPT ![p] = [v \in VPage |-> NULL]]
  /\ dirty' = [dirty EXCEPT ![p] = [v \in VPage |-> FALSE]]
  /\ memory' = [memory EXCEPT ![p] = [v \in VPage |-> {}]]
  /\ Goto(p, "dead")
  /\ UNCHANGED <<locals, frame_list, spt, destroyed, locks, contents, raced,
                 lost, panic>>

-----------------------------------------------------------------------------
PageFault(p) ==
  \/ FindEnter(p) \/ FindLeave(p) \/ GetFree(p) \/ Replace(p)
  \/ NoVictimLeft(p) \/ Awake(p) \/ EvictFails(p) \/ EvictDone(p)
  \/ FillLock(p) \/ FillRead(p) \/ Fill(p) \/ SwapEnter(p) \/ SwapLeave(p)
  \/ Install(p) \/ FaultFails(p) \/ FtFreePage(p) \/ PallocFreePage(p)

Calls(p) ==
  \/ WriteLock(p) \/ WriteCopy(p) \/ MunmapExpire(p) \/ ExitClose(p)
  \/ DestroyEnter(p) \/ DestroyExpire(p) \/ DestroyLeave(p)
  \/ FtDestroy(p) \/ PagedirDestroy(p)

Kernel(p) == panic = "none" /\ (PageFault(p) \/ Calls(p))

Program(p) ==
  /\ panic = "none"
  /\ Store(p) \/ Fault(p) \/ SysWrite(p) \/ Mmap(p) \/ Munmap(p) \/ Exit(p)

Next == \E p \in Proc : Program(p) \/ Kernel(p)

Spec == Init /\ [][Next]_vars

\* The scheduler runs every thread that can run (Synch.tla, ReadyRuns).
FairSpec == Spec /\ \A p \in Proc : WF_vars(Kernel(p))

-----------------------------------------------------------------------------
Lazies == {None, ZeroPage, ExecPage} \cup {FilePage(f) : f \in File}
Entries == Lazies \cup {Swap(w, u) : w \in Value, u \in Lazies}
Frames == [page : KPage, t : Proc, v : VPage \cup {NULL}, loaded : BOOLEAN]

(* Every table and local holds a value of its type, and a page that came    *)
(* from swap never sits on top of another swap entry.                       *)
TypeOK ==
  /\ at \in [Proc -> VPage \cup {NULL}]
  /\ entry \in [Proc -> Entries]
  /\ kpage \in [Proc -> KPage \cup {NULL}]
  /\ victim \in [Proc -> [frame : Frames \cup {NULL}, dirty : BOOLEAN,
                          page : Lazies]]
  /\ pool \subseteq KPage /\ frame_list \subseteq Frames
  /\ pte \in [Proc -> [VPage -> KPage \cup {NULL}]]
  /\ dirty \in [Proc -> [VPage -> BOOLEAN]]
  /\ spt \in [Proc -> [VPage -> Entries]]
  /\ destroyed \subseteq Proc
  /\ page_sema \in [Proc -> Proc \cup {NULL}]
  /\ frame_lock \in Proc \cup {NULL} /\ filesys_lock \in Proc \cup {NULL}
  /\ data \in [KPage -> Value]
  /\ file \in [File -> Value]
  /\ swap_used \in 0 .. SwapSlots
  /\ memory \in [Proc -> [VPage -> SUBSET Value]]

Owner(k) == {f \in frame_list : f.page = k}

\* p is about to give page k back to the pool.
Returns(p, k) ==
  \/ pc[p] = "pagedir" /\ \E v \in VPage : pte[p][v] = k
  \/ pc[p] = "release" /\ kpage[p] = k

(* Every page of the user pool is in one place: free, in exactly one frame, *)
(* or about to be freed by a process that is past ft_destroy or has left    *)
(* ft_free_page's loop.  A present page has the loaded frame that says so,  *)
(* so no two mappings share a page and eviction always finds the mapping it *)
(* has to remove.                                                           *)
PagesAccounted ==
  /\ \A k \in KPage :
       Cardinality(Owner(k)) + Cardinality({p \in Proc : Returns(p, k)})
         + (IF k \in pool THEN 1 ELSE 0) = 1
  /\ \A p \in Proc, v \in VPage :
       pte[p][v] # NULL /\ pc[p] # "pagedir" =>
         Frame(pte[p][v], p, v, TRUE) \in frame_list

(* Paging is invisible: a present page holds what the program last stored   *)
(* there or, if it has not stored since, what was behind the page when it   *)
(* was mapped or what others have written to its file since.  Behind it are *)
(* the zeroes, the file and, for mmap over a page that munmap left present, *)
(* that page's bytes.  "Q can't change F while we evict it"                 *)
(* (vm/DESIGNDOC B6), so no store of Q to F is lost when page_fault and     *)
(* ft_replacement take F away and back.                                     *)
PagesTransparent ==
  \A p \in Proc, v \in VPage :
    pte[p][v] # NULL /\ memory[p][v] # {} => data[pte[p][v]] \in memory[p][v]

(* With several processes paging is invisible in that sense as long as no   *)
(* page was modified while ft_replacement slept between reading its PTE_D   *)
(* and taking it away: that is the only way to lose a store.                *)
TransparentUnlessRaced == ~ raced => PagesTransparent

(* When munmap or exit drops a mapped page, its file holds what the program *)
(* last stored there or what others have written to it since, whether the   *)
(* page was present, evicted or never read.  The file is the one mapped     *)
(* now, even if the page is one that an earlier munmap left.                *)
UnmapWritesBack ==
  [][\A p \in Proc, v \in VPage :
       spt[p][v].type = "FILE" /\ spt'[p][v] = None /\ ~ raced =>
         file'[spt[p][v].file] \in memory[p][v]]_vars

(* A page fault ends: the process runs again, or is killed.                 *)
FaultEnds ==
  \A p \in Proc : pc[p] = "find" ~> (pc[p] \in {"run", "dead"} \/ panic # "none")

\* Who p may wait for; NULL if for nobody.  On its way out p comes to its
\* entries in an order of the hash table's, so at any modified file page.
WaitsFor(p) ==
  CASE pc[p] \in {"find", "swapped", "destroy"} -> page_sema[p]
    [] pc[p] = "asleep" -> page_sema[victim[p].frame.t]
    [] pc[p] \in {"get", "install", "unwind", "frames"} -> frame_lock
    [] pc[p] \in {"write", "exit"} -> filesys_lock
    [] pc[p] = "fill" /\ entry[p].type \in {"EXEC", "FILE"} -> filesys_lock
    [] pc[p] = "unmap" /\ ModifiedFile(p, at[p]) -> filesys_lock
    [] pc[p] = "expire" /\ (\E v \in VPage : ModifiedFile(p, v)) -> filesys_lock
    [] OTHER -> NULL

(* The only deadlocks ("we don't seem to have any", vm/DESIGNDOC B5) are    *)
(* those with a fault inside write(), or a file that could not be read:     *)
(* among processes that wait only for themselves and one another, one holds *)
(* filesys_lock and is in page_fault for the page that write() copies, in   *)
(* the exit that fault ended in, or in ft_free_page after a short read.     *)
DeadlockOnlyInWrite ==
  \A S \in SUBSET Proc \ {{}} :
    panic = "none" /\ (\A p \in S : WaitsFor(p) \in S) =>
      \E p \in S : filesys_lock = p
                     /\ (back[p] = "copy" \/ pc[p] \in {"exit", "unwind"})

Swapped == {e \in Proc \X VPage : spt[e[1]][e[2]].type = "SWAP"}

(* Where the kernel can stop.  filesys_lock is asked for by its holder only *)
(* in a fault inside write(), or in the exit that such a fault ends in; the *)
(* handler jumps to EAX only for a page that munmap left.  A destroyed      *)
(* supplemental page table is looked into only while its owner's frames     *)
(* wait for ft_destroy, and the frame list is empty only while a process is *)
(* about to return pages to the pool.  Swap is full only when every slot    *)
(* holds a page or belonged to a process that is gone, and the clock has no *)
(* frame to stop at only when the owner of each is still in page_fault.     *)
PanicWindows ==
  /\ panic = "filesys_lock" =>
       \E p \in Proc : filesys_lock = p /\ pc[p] \in {"fill", "exit"}
                         /\ (pc[p] = "fill" => back[p] = "copy")
  /\ panic = "recovery" =>
       \E p \in Proc : filesys_lock = p /\ Kind[p][at[p]] = "file"
                         /\ spt[p][at[p]] = None
  /\ panic = "freed_table" =>
       \E p \in Proc : pc[p] = "frames" /\ \E f \in frame_list : f.t = p
  /\ panic = "empty" => \E p \in Proc, k \in KPage : Returns(p, k)
  /\ panic = "swap_full" => Cardinality(Swapped) + lost >= SwapSlots
  /\ panic = "spin" =>
       \A f \in frame_list :
         kpage[f.t] = f.page /\ pc[f.t] \in {"fill", "read", "swapped",
                                           "restore", "install", "unwind"}


(* The swap slots in use are those that supplemental entries stand for,     *)
(* less those a fault has read and freed but not yet taken out of the       *)
(* table, and those whose entry an exiting process expired: page_fault      *)
(* frees each slot once, ft_replacement never forgets one, and expire_page  *)
(* is the only one who does.                                                *)
SwapAccounted ==
  swap_used + Cardinality({p \in Proc : pc[p] \in {"swapped", "restore"}}) =
    Cardinality(Swapped) + lost

(* Tables and locals are well formed and no swap slot is lost or freed twice *)
(* on the way of a page to swap and back.                                    *)
PagingAccounted == TypeOK /\ SwapAccounted
=============================================================================
