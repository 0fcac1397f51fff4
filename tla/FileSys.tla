------------------------------ MODULE FileSys -------------------------------
(***************************************************************************)
(* The file system's metadata: the free map, the inodes and the root       *)
(* directory, on disk and in memory (filesys/*.c), under the system calls  *)
(* that reach them with filesys_lock held (userprog/syscall.c) and the one *)
(* file_close that thread_exit makes without it (threads/thread.c).  Each  *)
(* disk write is a step, and the machine may stop between any two.         *)
(*                                                                         *)
(* Sector numbers its sectors apart from those of the free map and of the  *)
(* root directory, which are never freed.  What file data says is left     *)
(* out.  Allocations of memory may fail.                                   *)
(***************************************************************************)
EXTENDS Integers, Sequences, FiniteSets, FiniteSetsExt, SequencesExt, TLC

CONSTANTS
  Proc,      \* processes
  Calls,     \* the system calls that each program makes
  Sectors,   \* the sectors are 1 .. Sectors
  Name,      \* file names
  Slots,     \* the root directory has slots 1 .. Slots
  Size,      \* file sizes, in sectors
  Inodes,    \* malloc has room for the inodes 1 .. Inodes
  MaxExec,   \* bound on the number of programs started between two crashes
  NULL

ASSUME FileSysAssumption ==
  /\ Sectors \in Nat \ {0} /\ Slots \in Nat \ {0} /\ MaxExec \in Nat
  /\ Inodes \in Nat
  /\ Size \subseteq Nat
  /\ Calls \in [Proc -> SUBSET {"create", "remove", "open"}]

Sector == 1 .. Sectors
Slot == 1 .. Slots

VARIABLES
  disk_map,      \* the free map's file: sectors marked used
  disk,          \* contents of the sectors: an inode_disk, or something else
  disk_dir,      \* the root directory's slots
  free_map,      \* the free map in memory
  open_inodes,   \* the list of open inodes, in order
  inode,         \* the struct inodes in memory
  filesys_lock,
  pc,
  op,            \* the locals of the operation a process is in
  fd,            \* the inode of its open file descriptor
  exe,           \* t->file
  execs,         \* programs started since the last crash
  lost,          \* history: handles on each inode that nobody will close
  leaked,        \* history: sectors marked used that nothing refers to
  raced,         \* history: a value changed between its load and its use
  panic

disks == <<disk_map, disk, disk_dir>>
memory == <<free_map, open_inodes, inode>>
handles == <<fd, exe, execs, lost>>
history == <<leaked, raced, panic>>
vars == <<disks, memory, filesys_lock, pc, op, handles, history>>

Node(start, n) == [type |-> "inode", start |-> start, n |-> n]
Bytes == [type |-> "bytes"]
Data(node) ==
  IF node.type = "inode" THEN node.start .. node.start + node.n - 1 ELSE {}
Entry(name, s) == [name |-> name, sector |-> s]
Inode(s, node) ==
  [sector |-> s, open_cnt |-> 1, deny |-> 0, removed |-> FALSE, data |-> node,
   next |-> 0]
NoOp == [name |-> NULL, why |-> NULL, ino |-> 0, inode |-> 0,
         data |-> Node(0, 0), cnt |-> 0, near |-> {}, snap |-> {},
         next |-> "run", ret |-> "unlock", back |-> "run"]
NoneLost == [i \in 1 .. Inodes |-> [open |-> 0, deny |-> 0]]
NoExe == [name |-> NULL, inode |-> 0]

Goto(p, label) == pc' = [pc EXCEPT ![p] = label]

\* A formatted disk with one file.
Init ==
  /\ \E name \in Name, n \in Size :
       /\ disk_map = 1 .. n + 1
       /\ disk = [s \in Sector |-> IF s = 1 THEN Node(2, n)
                                   ELSE Bytes]
       /\ disk_dir = [k \in Slot |-> IF k = 1 THEN Entry(name, 1) ELSE NULL]
  /\ free_map = disk_map
  /\ open_inodes = <<>>
  /\ inode = <<>>
  /\ filesys_lock = NULL
  /\ pc = [p \in Proc |-> "none"]
  /\ op = [p \in Proc |-> NoOp]
  /\ fd = [p \in Proc |-> 0]
  /\ exe = [p \in Proc |-> NoExe]
  /\ execs = 0
  /\ lost = NoneLost
  /\ leaked = {}
  /\ raced = FALSE
  /\ panic = "no"

-----------------------------------------------------------------------------
(* The free map.                                                           *)

\* bitmap_scan: the first run of n free sectors; an empty run is at 0.
Fits(n) == {s \in Sector : s + n - 1 <= Sectors /\ s .. s + n - 1 \cap free_map = {}}
Scan(n) == IF n = 0 THEN 0 ELSE Min(Fits(n))

\* bitmap_write goes through a bounce buffer: a copy of the map is made, and
\* written once the disk is ready for it.
Snap(p) ==
  /\ pc[p] = "snap"
  /\ op' = [op EXCEPT ![p].snap = free_map]
  /\ Goto(p, "put")
  /\ UNCHANGED <<disks, memory, filesys_lock, handles, history>>

Put(p) ==
  /\ pc[p] = "put"
  /\ disk_map' = op[p].snap
  /\ raced' = (raced \/ op[p].snap # free_map)
  /\ op' = [op EXCEPT ![p].snap = {}, ![p].next = "run"]
  /\ Goto(p, op[p].next)
  /\ UNCHANGED <<disk, disk_dir, memory, filesys_lock, handles, leaked, panic>>

\* free_map_release: the assertion, the map in memory, then on disk.  That
\* last write may fail for want of memory, which nobody notices.  What a free
\* sector holds is forgotten at once: its next owner may overwrite it.
FreeMapRelease(p, S, label) ==
  \/ /\ ~ S \subseteq free_map
     /\ panic' = "assert"
     /\ UNCHANGED <<free_map, disk, pc, op>>
  \/ /\ S \subseteq free_map
     /\ free_map' = free_map \ S
     /\ disk' = [s \in Sector |-> IF s \in S THEN Bytes ELSE disk[s]]
     /\ \/ /\ op' = [op EXCEPT ![p].next = label]
           /\ Goto(p, "snap")
        \/ /\ Goto(p, label)
           /\ UNCHANGED op
     /\ UNCHANGED panic

-----------------------------------------------------------------------------
(* filesys_lock.                                                           *)

Enter(p, label, locals) ==
  /\ filesys_lock = NULL
  /\ filesys_lock' = p
  /\ op' = [op EXCEPT ![p] = locals]
  /\ Goto(p, label)

Leave(p, label) ==
  /\ filesys_lock' = NULL
  /\ op' = [op EXCEPT ![p] = NoOp]
  /\ Goto(p, label)

Unlock(p) ==
  /\ pc[p] = "unlock"
  /\ Leave(p, op[p].back)
  /\ UNCHANGED <<disks, memory, handles, history>>

-----------------------------------------------------------------------------
(* create: filesys_create, inode_create, dir_add.                          *)

Create(p) ==
  /\ pc[p] = "run"
  /\ "create" \in Calls[p]
  /\ \E name \in Name, n \in Size :
       Enter(p, "c_ino", [NoOp EXCEPT !.name = name, !.data = Node(0, n)])
  /\ UNCHANGED <<disks, memory, handles, history>>

\* free_map_allocate (1, &inode_sector).  It fails for want of a sector, or
\* of memory for the write, which takes the allocation back.
AllocateInode(p) ==
  /\ pc[p] = "c_ino"
  /\ \/ /\ Leave(p, "run")
        /\ UNCHANGED free_map
     \/ /\ Fits(1) # {}
        /\ free_map' = free_map \cup {Scan(1)}
        /\ op' = [op EXCEPT ![p].ino = Scan(1), ![p].next = "c_data"]
        /\ Goto(p, "snap")
        /\ UNCHANGED filesys_lock
  /\ UNCHANGED <<disks, open_inodes, inode, handles, history>>

AllocateData_NoWrite(p) ==
  /\ pc[p] = "c_data"
  /\ \/ /\ Goto(p, "c_undo")
        /\ UNCHANGED <<free_map, op>>
     \/ LET n == op[p].data.n IN
        /\ Fits(n) # {}
        /\ free_map' = free_map \cup Data(Node(Scan(n), n))
        /\ op' = [op EXCEPT ![p].data.start = Scan(n)]
        /\ Goto(p, "c_inode")
  /\ UNCHANGED <<disks, open_inodes, inode, filesys_lock, handles, history>>

AllocateData_NoUndo(p) ==
  /\ pc[p] = "c_data"
  /\ \/ /\ Goto(p, "unlock")
        /\ UNCHANGED <<free_map, op>>
     \/ LET n == op[p].data.n IN
        /\ Fits(n) # {}
        /\ free_map' = free_map \cup Data(Node(Scan(n), n))
        /\ op' = [op EXCEPT ![p].data.start = Scan(n), ![p].next = "c_inode"]
        /\ Goto(p, "snap")
  /\ UNCHANGED <<disks, open_inodes, inode, filesys_lock, handles, history>>

\* free_map_allocate (sectors, &disk_inode->start).
AllocateData(p) ==
  /\ pc[p] = "c_data"
  /\ \/ /\ Goto(p, "c_undo")
        /\ UNCHANGED <<free_map, op>>
     \/ LET n == op[p].data.n IN
        /\ Fits(n) # {}
        /\ free_map' = free_map \cup Data(Node(Scan(n), n))
        /\ op' = [op EXCEPT ![p].data.start = Scan(n), ![p].next = "c_inode"]
        /\ Goto(p, "snap")
  /\ UNCHANGED <<disks, open_inodes, inode, filesys_lock, handles, history>>

WriteInode(p) ==
  /\ pc[p] = "c_inode"
  /\ disk' = [disk EXCEPT ![op[p].ino] = op[p].data]
  /\ Goto(p, "c_zero")
  /\ UNCHANGED <<disk_map, disk_dir, memory, filesys_lock, op, handles,
                 history>>

\* The loop that zeroes the data; nothing refers to them yet.
ZeroData(p) ==
  /\ pc[p] = "c_zero"
  /\ disk' = [s \in Sector |-> IF s \in Data(op[p].data)
                               THEN Bytes ELSE disk[s]]
  /\ Goto(p, "c_add")
  /\ UNCHANGED <<disk_map, disk_dir, memory, filesys_lock, op, handles,
                 history>>

Lookup(name) == {k \in Slot : disk_dir[k] # NULL /\ disk_dir[k].name = name}
FreeSlots == {k \in Slot : disk_dir[k] = NULL}

\* dir_add: the name is new, there is a slot, the write succeeds.  On failure
\* filesys_create gives back the inode's sector, but not the data sectors.
DirAdd(p) ==
  /\ pc[p] = "c_add"
  /\ \/ /\ leaked' = leaked \cup Data(op[p].data)
        /\ Goto(p, "c_undo")
        /\ UNCHANGED disk_dir
     \/ /\ Lookup(op[p].name) = {}
        /\ FreeSlots # {}
        /\ disk_dir' = [disk_dir EXCEPT ![Min(FreeSlots)] =
                           Entry(op[p].name, op[p].ino)]
        /\ Goto(p, "unlock")
        /\ UNCHANGED leaked
  /\ UNCHANGED <<disk_map, disk, memory, filesys_lock, op, handles, raced,
                 panic>>

Undo(p) ==
  /\ pc[p] = "c_undo"
  /\ FreeMapRelease(p, {op[p].ino}, "unlock")
  /\ UNCHANGED <<disk_map, disk_dir, open_inodes, inode, filesys_lock, handles,
                 leaked, raced>>

-----------------------------------------------------------------------------
(* filesys_open and inode_open, for open, remove, process_execute and load *)

\* list_next, and list_begin for 0; 0 after the last element.
ListNext(q, i) ==
  LET k == IF i = 0 THEN 0 ELSE CHOOSE j \in DOMAIN q : q[j] = i
  IN  IF k < Len(q) THEN q[k + 1] ELSE 0
ListPrev(q, i) ==
  LET k == CHOOSE j \in DOMAIN q : q[j] = i IN IF k = 1 THEN 0 ELSE q[k - 1]

SysOpen(p) ==
  /\ pc[p] = "run"
  /\ "open" \in Calls[p]
  /\ fd[p] = 0
  /\ \E name \in Name : Enter(p, "o_find", [NoOp EXCEPT !.name = name, !.why = "open"])
  /\ UNCHANGED <<disks, memory, handles, history>>

SysRemove(p) ==
  /\ pc[p] = "run"
  /\ "remove" \in Calls[p]
  /\ \E name \in Name : Enter(p, "o_find", [NoOp EXCEPT !.name = name, !.why = "remove"])
  /\ UNCHANGED <<disks, memory, handles, history>>

\* process_execute on behalf of the new process.
Exec(p) ==
  /\ pc[p] = "none"
  /\ execs < MaxExec
  /\ \E name \in Name : Enter(p, "o_find", [NoOp EXCEPT !.name = name, !.why = "exec"])
  /\ execs' = execs + 1
  /\ UNCHANGED <<disks, memory, fd, exe, lost, history>>

\* load opens the program by name once more.
Load(p) ==
  /\ pc[p] = "load"
  /\ Enter(p, "o_find", [NoOp EXCEPT !.name = exe[p].name, !.why = "load"])
  /\ UNCHANGED <<disks, memory, handles, history>>

OpenFails(p) ==
  Leave(p, CASE op[p].why = "exec" -> "none"
             [] op[p].why = "load" -> "exit"
             [] OTHER -> "run")

\* lookup, and list_begin; 0 is the end of the list.
OpenFind(p) ==
  /\ pc[p] = "o_find"
  /\ \/ OpenFails(p)
     \/ \E k \in Lookup(op[p].name) :
          /\ op' = [op EXCEPT ![p].ino = disk_dir[k].sector,
                             ![p].inode = ListNext(open_inodes, 0)]
          /\ Goto(p, "o_walk")
          /\ UNCHANGED filesys_lock
  /\ UNCHANGED <<disks, memory, handles, history>>

\* The use of an inode that has been freed.
Freed(p) ==
  /\ op[p].inode \notin DOMAIN inode
  /\ panic' = "freed"
  /\ UNCHANGED <<inode, pc, op, raced>>

\* One turn of the search.  An inode that was unlinked meanwhile still leads
\* to what was behind it, until it is freed.
OpenWalk(p) ==
  LET i == op[p].inode IN
  /\ pc[p] = "o_walk"
  /\ \/ /\ i = 0
        /\ Goto(p, "o_push")
        /\ UNCHANGED <<inode, op, raced, panic>>
     \/ i # 0 /\ Freed(p)
     \/ /\ i \in DOMAIN inode
        /\ inode[i].sector = op[p].ino
        /\ Goto(p, "o_load")
        /\ UNCHANGED <<inode, op, raced, panic>>
     \/ /\ i \in DOMAIN inode
        /\ inode[i].sector # op[p].ino
        /\ op' = [op EXCEPT ![p].inode = IF i \in ToSet(open_inodes)
                                        THEN ListNext(open_inodes, i)
                                        ELSE inode[i].next]
        /\ UNCHANGED <<inode, pc, raced, panic>>
  /\ UNCHANGED <<disks, free_map, open_inodes, filesys_lock, handles, leaked>>

\* Another process is between the two stores of a list_remove or of a
\* list_push_front to one of the ELEMENTS.
Torn(p, elements) ==
  \E q \in Proc \ {p} :
    pc[q] \in {"x_relink", "o_init"} /\ op[q].near \cap elements # {}

\* malloc, and the first stores of list_push_front.
OpenPush(p) ==
  /\ pc[p] = "o_push"
  /\ \/ OpenFails(p) /\ UNCHANGED <<inode, panic>>
     \/ /\ Torn(p, {0})
        /\ panic' = "torn"
        /\ UNCHANGED <<inode, filesys_lock, pc, op>>
     \/ LET room == 1 .. Inodes \ DOMAIN inode  i == Min(room) IN
        /\ room # {}
        /\ ~ Torn(p, {0})
        /\ inode' = (i :> Inode(op[p].ino, disk[op[p].ino])) @@ inode
        /\ op' = [op EXCEPT ![p].inode = i,
                           ![p].near = {ListNext(open_inodes, 0)} \ {0}]
        /\ Goto(p, "o_init")
        /\ UNCHANGED <<filesys_lock, panic>>
  /\ UNCHANGED <<disks, free_map, open_inodes, handles, leaked, raced>>

\* The last store of list_push_front, the fields and disk_read.
OpenInit(p) ==
  /\ pc[p] = "o_init"
  /\ open_inodes' = <<op[p].inode>> \o open_inodes
  /\ op' = [op EXCEPT ![p].near = {}]
  /\ Goto(p, "opened")
  /\ UNCHANGED <<disks, free_map, inode, filesys_lock, handles, history>>

\* inode_reopen: open_cnt++, a load and a store.
OpenLoad(p) ==
  /\ pc[p] = "o_load"
  /\ \/ Freed(p)
     \/ /\ op[p].inode \in DOMAIN inode
        /\ op' = [op EXCEPT ![p].cnt = inode[op[p].inode].open_cnt]
        /\ Goto(p, "o_store")
        /\ UNCHANGED <<inode, raced, panic>>
  /\ UNCHANGED <<disks, free_map, open_inodes, filesys_lock, handles, leaked>>

OpenStore(p) ==
  /\ pc[p] = "o_store"
  /\ \/ Freed(p)
     \/ /\ op[p].inode \in DOMAIN inode
        /\ inode' = [inode EXCEPT ![op[p].inode].open_cnt = op[p].cnt + 1]
        /\ raced' = (raced \/ op[p].cnt \notin {inode[op[p].inode].open_cnt} \ {0})
        /\ op' = [op EXCEPT ![p].cnt = 0]
        /\ Goto(p, "opened")
        /\ UNCHANGED panic
  /\ UNCHANGED <<disks, free_map, open_inodes, filesys_lock, handles, leaked>>

\* file_open has no memory: it closes the inode again.
OpenedFails(p) ==
  /\ pc[p] = "opened"
  /\ op[p].why # "remove"
  /\ op' = [op EXCEPT ![p].back = CASE op[p].why = "exec" -> "none"
                                   [] op[p].why = "load" -> "exit"
                                   [] OTHER -> "run"]
  /\ Goto(p, "x_load")
  /\ UNCHANGED <<disks, memory, filesys_lock, handles, history>>

\* table[fd] = filesys_open (file).
OpenedFd(p) ==
  /\ pc[p] = "opened"
  /\ op[p].why = "open"
  /\ fd' = [fd EXCEPT ![p] = op[p].inode]
  /\ Leave(p, "run")
  /\ UNCHANGED <<disks, memory, exe, execs, lost, history>>

OpenedExe(p) ==
  /\ pc[p] = "opened"
  /\ op[p].why = "exec"
  /\ exe' = [exe EXCEPT ![p] = [name |-> op[p].name, inode |-> op[p].inode]]
  /\ Leave(p, "deny")
  /\ UNCHANGED <<disks, memory, fd, execs, lost, history>>

\* The file that load opens is never closed; the load may still fail.
OpenedLoad(p) ==
  /\ pc[p] = "opened"
  /\ op[p].why = "load"
  /\ lost' = [lost EXCEPT ![op[p].inode].open = @ + 1]
  /\ Leave(p, "run") \/ Leave(p, "exit")
  /\ UNCHANGED <<disks, memory, fd, exe, execs, history>>

DirRemove_NoClose(p) ==
  /\ pc[p] = "opened"
  /\ op[p].why = "remove"
  /\ op[p].inode \in DOMAIN inode
  /\ disk_dir' = [k \in Slot |-> IF k \in Lookup(op[p].name)
                                 THEN NULL ELSE disk_dir[k]]
  /\ inode' = [inode EXCEPT ![op[p].inode].removed = TRUE]
  /\ Goto(p, "unlock")
  /\ UNCHANGED <<disk_map, disk, free_map, open_inodes, filesys_lock, op,
                 handles, history>>

\* dir_remove: the slot is erased on disk, then the inode is marked, then it
\* is closed.  If the write fails it is only closed.
DirRemove(p) ==
  /\ pc[p] = "opened"
  /\ op[p].why = "remove"
  /\ \/ Freed(p) /\ UNCHANGED disk_dir
     \/ /\ op[p].inode \in DOMAIN inode
        /\ \/ /\ disk_dir' = [k \in Slot |-> IF k \in Lookup(op[p].name)
                                             THEN NULL ELSE disk_dir[k]]
              /\ inode' = [inode EXCEPT ![op[p].inode].removed = TRUE]
           \/ UNCHANGED <<disk_dir, inode>>
        /\ Goto(p, "x_load")
        /\ UNCHANGED <<op, raced, panic>>
  /\ UNCHANGED <<disk_map, disk, free_map, open_inodes, filesys_lock, handles,
                 leaked>>

-----------------------------------------------------------------------------
(* inode_close; op.ret says where it returns to.                           *)

SysClose(p) ==
  /\ pc[p] = "run"
  /\ fd[p] # 0
  /\ Enter(p, "x_load", [NoOp EXCEPT !.inode = fd[p]])
  /\ fd' = [fd EXCEPT ![p] = 0]
  /\ UNCHANGED <<disks, memory, exe, execs, lost, history>>

\* --inode->open_cnt, a load and a store.
CloseLoad(p) ==
  /\ pc[p] = "x_load"
  /\ \/ Freed(p)
     \/ /\ op[p].inode \in DOMAIN inode
        /\ op' = [op EXCEPT ![p].cnt = inode[op[p].inode].open_cnt]
        /\ Goto(p, "x_store")
        /\ UNCHANGED <<inode, raced, panic>>
  /\ UNCHANGED <<disks, free_map, open_inodes, filesys_lock, handles, leaked>>

CloseStore(p) ==
  /\ pc[p] = "x_store"
  /\ \/ Freed(p)
     \/ /\ op[p].inode \in DOMAIN inode
        /\ inode' = [inode EXCEPT ![op[p].inode].open_cnt = op[p].cnt - 1]
        /\ raced' = (raced \/ inode[op[p].inode].open_cnt # op[p].cnt)
        /\ op' = [op EXCEPT ![p].cnt = 0]
        /\ Goto(p, IF op[p].cnt = 1 THEN "x_unlink" ELSE op[p].ret)
        /\ UNCHANGED panic
  /\ UNCHANGED <<disks, free_map, open_inodes, filesys_lock, handles, leaked>>

\* The last one out: list_remove's first store, to the element before.
CloseUnlink(p) ==
  LET i == op[p].inode IN
  /\ pc[p] = "x_unlink"
  /\ \/ Freed(p) /\ UNCHANGED open_inodes
     \/ /\ i \in DOMAIN inode
        /\ Torn(p, {i}) \/ i \notin ToSet(open_inodes)
        /\ panic' = "torn"
        /\ UNCHANGED <<open_inodes, inode, pc, op, raced>>
     \/ /\ i \in ToSet(open_inodes)
        /\ ~ Torn(p, {i})
        /\ open_inodes' = Remove(open_inodes, i)
        /\ inode' = [inode EXCEPT ![i].next = ListNext(open_inodes, i)]
        /\ op' = [op EXCEPT ![p].near = {ListPrev(open_inodes, i)} \cup
                                         ({ListNext(open_inodes, i)} \ {0})]
        /\ raced' = (raced \/ inode[i].open_cnt # 0)
        /\ Goto(p, "x_relink")
        /\ UNCHANGED panic
  /\ UNCHANGED <<disks, free_map, filesys_lock, handles, leaked>>

\* The second store, to the element behind; if the file is removed its
\* sectors are freed.
CloseRelink(p) ==
  /\ pc[p] = "x_relink"
  /\ \/ Freed(p)
     \/ LET i == inode[op[p].inode] IN
        /\ op[p].inode \in DOMAIN inode
        /\ op' = [op EXCEPT ![p].near = {}, ![p].ino = i.sector, ![p].data = i.data]
        /\ Goto(p, IF i.removed THEN "x_ino" ELSE "x_free")
        /\ UNCHANGED <<inode, raced, panic>>
  /\ UNCHANGED <<disks, free_map, open_inodes, filesys_lock, handles, leaked>>

CloseFree(p) ==
  /\ pc[p] = "x_free"
  /\ inode' = [i \in DOMAIN inode \ {op[p].inode} |-> inode[i]]
  /\ Goto(p, op[p].ret)
  /\ UNCHANGED <<disks, free_map, open_inodes, filesys_lock, op, handles,
                 history>>

ReleaseInode(p) ==
  /\ pc[p] = "x_ino"
  /\ FreeMapRelease(p, {op[p].ino}, "x_data")
  /\ UNCHANGED <<disk_map, disk_dir, open_inodes, inode, filesys_lock, handles,
                 leaked, raced>>

ReleaseData(p) ==
  /\ pc[p] = "x_data"
  /\ FreeMapRelease(p, Data(op[p].data), "x_free")
  /\ UNCHANGED <<disk_map, disk_dir, open_inodes, inode, filesys_lock, handles,
                 leaked, raced>>

-----------------------------------------------------------------------------
(* Running programs: their file is not to be written.                      *)

\* file_deny_write: deny_write_cnt++, a load and a store.
DenyLoad(p) ==
  /\ pc[p] = "deny"
  /\ exe[p].inode \in DOMAIN inode
  /\ Enter(p, "d_store", [NoOp EXCEPT !.inode = exe[p].inode,
                                       !.cnt = inode[exe[p].inode].deny])
  /\ UNCHANGED <<disks, memory, handles, history>>

\* The assertion; then there may be no memory for the new thread, and nobody
\* closes its file.
DenyStore(p) ==
  LET i == op[p].inode IN
  /\ pc[p] = "d_store"
  /\ \/ Freed(p) /\ UNCHANGED <<filesys_lock, exe, lost>>
     \/ /\ i \in DOMAIN inode
        /\ inode' = [inode EXCEPT ![i].deny = op[p].cnt + 1]
        /\ raced' = (raced \/ inode[i].deny # op[p].cnt)
        /\ panic' = IF op[p].cnt + 1 <= inode[i].open_cnt THEN panic ELSE "assert"
        /\ \/ /\ Leave(p, "load")
              /\ UNCHANGED <<exe, lost>>
           \/ /\ Leave(p, "none")
              /\ exe' = [exe EXCEPT ![p] = NoExe]
              /\ lost' = [lost EXCEPT ![i].open = @ + 1, ![i].deny = @ + 1]
  /\ UNCHANGED <<disks, free_map, open_inodes, fd, execs, leaked>>

Exit(p) ==
  /\ pc[p] = "run"
  /\ Goto(p, "exit")
  /\ UNCHANGED <<disks, memory, filesys_lock, op, handles, history>>

\* thread_exit: close (fd), then file_close (t->file) without filesys_lock.
ExitClose(p) ==
  /\ pc[p] = "exit"
  /\ \/ /\ fd[p] # 0
        /\ Enter(p, "x_load", [NoOp EXCEPT !.inode = fd[p], !.back = "exit"])
        /\ fd' = [fd EXCEPT ![p] = 0]
     \/ /\ fd[p] = 0
        /\ op' = [op EXCEPT ![p] = [NoOp EXCEPT !.inode = exe[p].inode, !.ret = "dead"]]
        /\ Goto(p, "a_load")
        /\ UNCHANGED <<filesys_lock, fd>>
  /\ UNCHANGED <<disks, memory, exe, execs, lost, history>>

\* file_allow_write: the assertions, and deny_write_cnt--.
AllowLoad(p) ==
  /\ pc[p] = "a_load"
  /\ \/ Freed(p)
     \/ LET i == inode[op[p].inode] IN
        /\ op[p].inode \in DOMAIN inode
        /\ op' = [op EXCEPT ![p].cnt = i.deny]
        /\ panic' = IF i.deny > 0 /\ i.deny <= i.open_cnt THEN panic ELSE "assert"
        /\ Goto(p, "a_store")
        /\ UNCHANGED <<inode, raced>>
  /\ UNCHANGED <<disks, free_map, open_inodes, filesys_lock, handles, leaked>>

AllowStore(p) ==
  /\ pc[p] = "a_store"
  /\ \/ Freed(p)
     \/ /\ op[p].inode \in DOMAIN inode
        /\ inode' = [inode EXCEPT ![op[p].inode].deny = op[p].cnt - 1]
        /\ raced' = (raced \/ inode[op[p].inode].deny # op[p].cnt)
        /\ op' = [op EXCEPT ![p].cnt = 0]
        /\ Goto(p, "x_load")
        /\ UNCHANGED panic
  /\ UNCHANGED <<disks, free_map, open_inodes, filesys_lock, handles, leaked>>

Dead(p) ==
  /\ pc[p] = "dead"
  /\ exe' = [exe EXCEPT ![p] = NoExe]
  /\ op' = [op EXCEPT ![p] = NoOp]
  /\ Goto(p, "none")
  /\ UNCHANGED <<disks, memory, filesys_lock, fd, execs, lost, history>>

-----------------------------------------------------------------------------
\* The sectors that the directory and its inodes refer to on disk.
Extent(s, node) == {s} \cup Data(node)
Entries == {k \in Slot : disk_dir[k] # NULL}
EntryExtent(k) == Extent(disk_dir[k].sector, disk[disk_dir[k].sector])

\* The machine stops and starts again: filesys_init (false).
Crash ==
  /\ \E p \in Proc : pc[p] # "none"
  /\ free_map' = disk_map
  /\ open_inodes' = <<>>
  /\ inode' = <<>>
  /\ filesys_lock' = NULL
  /\ pc' = [p \in Proc |-> "none"]
  /\ op' = [p \in Proc |-> NoOp]
  /\ fd' = [p \in Proc |-> 0]
  /\ exe' = [p \in Proc |-> NoExe]
  /\ execs' = 0
  /\ lost' = NoneLost
  /\ leaked' = disk_map \ UNION {EntryExtent(k) : k \in Entries}
  /\ UNCHANGED <<disks, raced, panic>>

FreeMap(p) == Snap(p) \/ Put(p)

Creating(p) ==
  \/ Create(p) \/ AllocateInode(p) \/ AllocateData(p) \/ WriteInode(p)
  \/ ZeroData(p) \/ DirAdd(p) \/ Undo(p)

Opening(p) ==
  \/ SysOpen(p) \/ SysRemove(p) \/ Exec(p) \/ Load(p)
  \/ OpenFind(p) \/ OpenWalk(p) \/ OpenPush(p) \/ OpenInit(p)
  \/ OpenLoad(p) \/ OpenStore(p) \/ OpenedFails(p) \/ OpenedFd(p)
  \/ OpenedExe(p) \/ OpenedLoad(p) \/ DirRemove(p)

Closing(p) ==
  \/ SysClose(p) \/ CloseLoad(p) \/ CloseStore(p) \/ CloseUnlink(p)
  \/ CloseRelink(p) \/ ReleaseInode(p) \/ ReleaseData(p) \/ CloseFree(p)

Running(p) ==
  \/ DenyLoad(p) \/ DenyStore(p) \/ Exit(p) \/ ExitClose(p)
  \/ AllowLoad(p) \/ AllowStore(p) \/ Dead(p) \/ Unlock(p)

Next ==
  /\ panic = "no"
  /\ \/ Crash
     \/ \E p \in Proc : FreeMap(p) \/ Creating(p) \/ Opening(p) \/ Closing(p) \/ Running(p)

Spec == Init /\ [][Next]_vars

-----------------------------------------------------------------------------
Labels ==
  {"none", "run", "deny", "load", "exit", "dead", "unlock", "snap", "put",
   "c_ino", "c_data", "c_inode", "c_zero", "c_add", "c_undo", "o_find",
   "o_walk", "o_push", "o_init", "o_load", "o_store", "opened", "x_load",
   "x_store", "x_unlink", "x_relink", "x_ino", "x_data", "x_free", "d_store",
   "a_load", "a_store"}
Nodes == [type : {"inode"}, start : 0 .. Sectors, n : Size]
MaxOpen == 2 * MaxExec + 2 * Cardinality(Proc)

(* Tables and locals hold values of their types, and an inode's data lie    *)
(* within the disk.                                                         *)
TypeOK ==
  /\ pc \in [Proc -> Labels]
  /\ disk_map \subseteq Sector /\ free_map \subseteq Sector
  /\ disk \in [Sector -> Nodes \cup {Bytes}]
  /\ disk_dir \in [Slot -> {NULL} \cup [name : Name, sector : Sector]]
  /\ ToSet(open_inodes) \subseteq DOMAIN inode
  /\ DOMAIN inode \subseteq 1 .. Inodes
  /\ \A i \in DOMAIN inode :
       inode[i] \in [sector : Sector, open_cnt : -1 .. MaxOpen,
                    deny : -1 .. MaxExec, removed : BOOLEAN,
                    data : Nodes \cup {Bytes}, next : 0 .. Inodes]
  /\ \A s \in Sector : Data(disk[s]) \subseteq Sector
  /\ filesys_lock \in Proc \cup {NULL}
  /\ fd \in [Proc -> 0 .. Inodes] /\ execs \in 0 .. MaxExec
  /\ panic \in {"no", "assert", "freed", "torn"}

\* Whether p's operation holds a reference of its own to inode i, and whether
\* t->file still counts as an opener and as a denier.
Holds(p, i) ==
  /\ op[p].inode = i /\ op[p].ret # "dead"
  /\ pc[p] \in {"o_init", "opened", "x_load", "x_store"}
ExeOpen(p, i) ==
  /\ exe[p].inode = i
  /\ op[p].ret = "dead" => pc[p] \in {"a_load", "a_store", "x_load", "x_store"}
ExeDenies(p, i) ==
  /\ exe[p].inode = i
  /\ pc[p] \notin {"deny", "d_store"}
  /\ op[p].ret = "dead" => pc[p] \in {"a_load", "a_store"}

(* open_cnt is the number of files and operations that hold the inode, and  *)
(* deny_write_cnt the number of programs that run it: neither is freed or   *)
(* written under a holder, nor kept after the last one (inode_close, "If    *)
(* this was the last reference to INODE, frees its memory").                *)
HandlesCounted ==
  ~ raced => \A i \in DOMAIN inode :
    /\ inode[i].open_cnt =
         Cardinality({p \in Proc : fd[p] = i}) + Cardinality({p \in Proc : ExeOpen(p, i)})
         + Cardinality({p \in Proc : Holds(p, i)}) + lost[i].open
    /\ inode[i].deny =
         Cardinality({p \in Proc : ExeDenies(p, i)}) + lost[i].deny

EntrySectors == {disk_dir[k].sector : k \in Entries}
Opened == {i \in ToSet(open_inodes) : i \in DOMAIN inode}
Live == {inode[i].sector : i \in Opened} \cup EntrySectors
LiveExtent(s) ==
  Extent(s, disk[s]) \cup
    UNION {Data(inode[i].data) : i \in {j \in Opened : inode[j].sector = s}}

(* No sector has two owners.  The sectors of a file that can still be       *)
(* reached, by name or because it is open although it was removed, are      *)
(* marked used and are its own: "Marks INODE to be deleted when it is       *)
(* closed by the last caller who has it open".                              *)
SectorsOwned ==
  ~ raced => /\ \A s \in Live : LiveExtent(s) \subseteq free_map
             /\ \A s, t \in Live : s # t => LiveExtent(s) \cap LiveExtent(t) = {}

(* The machine may stop at any time: every entry of the directory on disk   *)
(* leads to an inode, names are distinct, and the free map on disk marks    *)
(* used the sectors of every file, which no two files share.                *)
DiskRecoverable ==
  ~ raced =>
    /\ \A k \in Entries : /\ disk[disk_dir[k].sector].type = "inode"
                          /\ EntryExtent(k) \subseteq disk_map
    /\ \A k, j \in Entries : k # j =>
         /\ disk_dir[k].name # disk_dir[j].name
         /\ EntryExtent(k) \cap EntryExtent(j) = {}

\* What an operation in progress has allocated, or has yet to release.
InHand(p) ==
  LET at == IF pc[p] \in {"snap", "put"} THEN op[p].next ELSE pc[p] IN
  CASE at = "c_data" -> {op[p].ino}
    [] at \in {"c_inode", "c_zero", "c_add", "x_ino"} -> Extent(op[p].ino, op[p].data)
    [] at = "x_relink" /\ inode[op[p].inode].removed ->
         Extent(inode[op[p].inode].sector, inode[op[p].inode].data)
    [] at = "c_undo" -> {op[p].ino}
    [] at = "x_data" -> Data(op[p].data)
    [] OTHER -> {}

(* Space is lost only where it is known to be: a create that fails in       *)
(* dir_add, and a crash.  Otherwise every sector marked used belongs to a   *)
(* live file or to the operation in progress, so remove and close give      *)
(* everything back, once.                                                   *)
SpaceAccounted ==
  ~ raced /\ panic = "no" =>
    free_map = UNION {LiveExtent(s) : s \in Live}
                 \cup UNION {InHand(p) : p \in Proc} \cup leaked

(* What the file_close outside filesys_lock can do to others as long as no  *)
(* update of a count is lost.  It pulls an inode away only from an          *)
(* inode_open that walks open_inodes, or has found the inode and not yet    *)
(* counted itself; the list is torn only when a list_remove of that close   *)
(* meets another update of neighbouring elements.  The assertions of        *)
(* inode.c and free-map.c fail only after a lost update.                    *)
FreedOnlyInOpen ==
  ~ raced =>
    /\ panic # "assert"
    /\ panic = "freed" => \E p \in Proc : /\ pc[p] \in {"o_walk", "o_load", "o_store"}
                                           /\ op[p].inode \notin DOMAIN inode
    /\ panic = "torn" => \E p, q \in Proc : /\ pc[p] \in {"x_unlink", "o_push"}
                                             /\ pc[q] \in {"x_relink", "o_init"}
                                             /\ "dead" \in {op[p].ret, op[q].ret}

(* The tables of open files are right: types, counts, and no inode is pulled *)
(* away from a holder, nor the list torn, except in the windows of the       *)
(* unlocked close.                                                           *)
HandlesSound == TypeOK /\ HandlesCounted /\ FreedOnlyInOpen

(* The free map is right: a used sector has exactly one owner, or is known   *)
(* to be lost.                                                               *)
SpaceSound == SectorsOwned /\ SpaceAccounted
=============================================================================
