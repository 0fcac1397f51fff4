------------------------------- MODULE FileIO -------------------------------
(***************************************************************************)
(* Reading and writing a file: the system calls read, write, seek, tell    *)
(* and filesize (userprog/syscall.c), filesys/file.c, and the sector by    *)
(* sector loops of filesys/inode.c, over the sectors of SectorStore.tla.   *)
(* Several processes have the same inode open, each with its own struct    *)
(* file.  System calls hold filesys_lock; ft_replacement (vm/frame.c)      *)
(* writes a mapped page back without it and load() reads without it.       *)
(* Every byte of one write has the same value.                             *)
(***************************************************************************)
EXTENDS SectorStore, Integers, Sequences, FiniteSets, FiniteSetsExt

CONSTANTS
  FProc,         \* processes that use system calls
  Evictor,       \* a thread that evicts a dirty page of the file
  SectorSize,    \* DISK_SECTOR_SIZE
  FileLength,    \* inode_length: files do not grow
  IoSizes,       \* sizes of reads and writes
  SeekTo,        \* positions that seek is called with
  MaxCalls,      \* bound: calls made, by all
  Byte,          \* values of a byte
  None

ASSUME FileIOAssumption ==
  /\ SectorSize \in Nat \ {0} /\ FileLength \in Nat
  /\ Client = FProc \cup {Evictor}
  /\ Sector = 0..((FileLength + SectorSize - 1) \div SectorSize - 1)   \* bytes_to_sectors
  /\ Data = [0..(SectorSize - 1) -> Byte]
  /\ Evictor \notin FProc /\ None \notin Client
  /\ Byte # {} /\ IoSizes \subseteq Int /\ SeekTo \subseteq Nat

VARIABLES
  calls,          \* calls made so far
  pos,            \* file->pos of each process
  fcall,          \* the call each thread is in
  filesys_lock, deny_write_cnt,
  last,           \* history: the last value written to each byte
  mixed,          \* history: the evictor wrote during the call
  stale,          \* history: the evictor, or another thread than the evictor's,
                  \* wrote the sector that is in the bounce buffer
  raced           \* history: a stale bounce buffer was written

fileVars == <<storeVars, calls, pos, fcall, filesys_lock, deny_write_cnt, last, mixed, stale, raced>>

NoFileCall == [pc |-> "idle", op |-> "none", size |-> 0, offset |-> 0, done |-> 0,
               value |-> None, bounce |-> FALSE, got |-> <<>>]

NoData == [i \in 0..(SectorSize - 1) |-> CHOOSE b \in Byte : TRUE]

FileInit ==
  /\ store = [s \in Sector |-> NoData]
  /\ request = [t \in Client |-> NoRequest]
  /\ calls = 0
  /\ pos = [t \in FProc |-> 0]
  /\ fcall = [t \in Client |-> NoFileCall]
  /\ filesys_lock = None
  /\ deny_write_cnt = 0
  /\ last = [i \in 0..(FileLength - 1) |-> NoData[0]]
  /\ mixed = [t \in Client |-> FALSE]
  /\ stale = [t \in Client |-> FALSE]
  /\ raced = FALSE

ByteAt(i) == store[i \div SectorSize][i % SectorSize]

Enter(t, op, size, offset, value, pc) ==
  /\ calls < MaxCalls
  /\ calls' = calls + 1
  /\ fcall' = [fcall EXCEPT ![t] = [NoFileCall EXCEPT
       !.pc = pc, !.op = op, !.size = size, !.offset = offset, !.value = value]]

\* read and write, up to lock_acquire (&filesys_lock).
SysReadWrite(t) ==
  /\ t \in FProc
  /\ fcall[t].pc = "idle"
  /\ \E size \in IoSizes, v \in Byte, op \in {"read", "write"} :
       Enter(t, op, size, pos[t], IF op = "write" THEN v ELSE None, "lock")
  /\ UNCHANGED <<storeVars, pos, filesys_lock, last, mixed, stale, raced, deny_write_cnt>>

\* inode_write_at returns at once while the file is being executed.
Allowed(size, op) == IF op = "write" /\ deny_write_cnt > 0 THEN 0 ELSE size

LockFilesys_Skip(t) ==
  /\ fcall[t].pc = "lock"
  /\ fcall' = [fcall EXCEPT ![t].pc = "loop"]
  /\ UNCHANGED <<calls, storeVars, pos, filesys_lock, last, mixed, stale, raced, deny_write_cnt>>

LockFilesys(t) ==
  /\ fcall[t].pc = "lock"
  /\ filesys_lock = None
  /\ filesys_lock' = t
  /\ fcall' = [fcall EXCEPT ![t].pc = "loop", ![t].size = Allowed(@, fcall[t].op)]
  /\ UNCHANGED <<calls, storeVars, pos, last, mixed, stale, raced, deny_write_cnt>>

\* seek, tell and filesize: one critical section.
seek(t) ==
  /\ t \in FProc
  /\ fcall[t].pc = "idle"
  /\ filesys_lock = None
  /\ calls < MaxCalls
  /\ calls' = calls + 1
  /\ \E p \in SeekTo : pos' = [pos EXCEPT ![t] = p]
  /\ UNCHANGED <<storeVars, fcall, filesys_lock, last, mixed, stale, raced, deny_write_cnt>>

\* process_execute denies writing, under the lock; load() then reads the
\* header of the file without it.
LoadReads(t) ==
  /\ t \in FProc
  /\ fcall[t].pc = "idle"
  /\ filesys_lock = None
  /\ deny_write_cnt' = deny_write_cnt + 1
  /\ \E size \in IoSizes : Enter(t, "load", size, 0, None, "loop")
  /\ UNCHANGED <<storeVars, pos, filesys_lock, last, mixed, stale, raced>>

\* ft_replacement: the whole page, as far as the file goes, without the lock.
EvictorWrites(t) ==
  /\ t = Evictor
  /\ fcall[t].pc = "idle"
  /\ \E v \in Byte : Enter(t, "write", Allowed(FileLength, "write"), 0, v, "loop")
  /\ UNCHANGED <<storeVars, pos, filesys_lock, last, mixed, stale, raced, deny_write_cnt>>

-----------------------------------------------------------------------------
(* The loops of inode_read_at and inode_write_at.                          *)

sector_ofs(c) == (c.offset + c.done) % SectorSize
sector_idx(c) == (c.offset + c.done) \div SectorSize      \* byte_to_sector
chunk_size(c) ==
  Min({c.size - c.done, FileLength - (c.offset + c.done), SectorSize - sector_ofs(c)})
Whole(c) == sector_ofs(c) = 0 /\ chunk_size(c) = SectorSize
Chunk(c) == sector_ofs(c)..(sector_ofs(c) + chunk_size(c) - 1)

\* What disk_write gets for a chunk, from the buffer or the bounce buffer.
Filled(c, sector) == [i \in 0..(SectorSize - 1) |-> IF i \in Chunk(c) THEN c.value ELSE sector[i]]

\* Nothing left, or no memory for the bounce buffer: file->pos moves by what
\* was done, and the lock is released.
LoopEnds(t) ==
  LET c == fcall[t]
  IN  /\ c.pc = "loop"
      /\ chunk_size(c) <= 0 \/ (~Whole(c) /\ ~c.bounce)
      /\ fcall' = [fcall EXCEPT ![t].pc = "return"]
      /\ pos' = IF t \in FProc /\ c.op # "load" THEN [pos EXCEPT ![t] = @ + c.done] ELSE pos
      /\ filesys_lock' = IF filesys_lock = t THEN None ELSE filesys_lock
      /\ UNCHANGED <<calls, storeVars, last, mixed, stale, raced, deny_write_cnt>>

\* The next chunk: read it, write a whole sector, or read the sector that a
\* part will be merged into.
NextChunk(t) ==
  LET c == fcall[t]
      direct == c.op = "write" /\ Whole(c)
  IN  /\ c.pc = "loop"
      /\ chunk_size(c) > 0
      /\ Ask(t, IF direct THEN "write" ELSE "read", sector_idx(c),
             IF direct THEN Filled(c, NoData) ELSE NoData)
      /\ fcall' = [fcall EXCEPT ![t].pc = IF direct \/ c.op # "write" THEN "io" ELSE "merge",
                                ![t].bounce = @ \/ ~Whole(c)]
      /\ UNCHANGED <<calls, pos, filesys_lock, last, mixed, stale, raced, deny_write_cnt>>

\* The disk reads a sector for the call: it is as fresh as it can be.
DiskReads(t) ==
  /\ disk_read(t)
  /\ stale' = [stale EXCEPT ![t] = FALSE]
  /\ UNCHANGED <<calls, pos, fcall, filesys_lock, last, mixed, raced, deny_write_cnt>>

\* The disk writes a sector for the call.
DiskWrites(t) ==
  LET c == fcall[t]
      first == c.offset + c.done
      threatens(u) == /\ fcall[u].pc = "merge" \/ (fcall[u].pc = "io" /\ ~Whole(fcall[u]))
                      /\ sector_idx(fcall[u]) = sector_idx(c)
                      /\ Evictor \in {t, u}
  IN  /\ disk_write(t)
      /\ last' = [i \in DOMAIN last |-> IF i \in first..(first + chunk_size(c) - 1) THEN c.value ELSE last[i]]
      /\ raced' = (raced \/ (~Whole(c) /\ stale[t]))
      /\ stale' = [u \in Client |-> stale[u] \/ (u # t /\ threatens(u))]
      /\ mixed' = [u \in Client |-> mixed[u] \/ (t = Evictor /\ fcall[u].pc # "idle")]
      /\ UNCHANGED <<calls, pos, fcall, filesys_lock, deny_write_cnt>>

\* The sector is in the bounce buffer: copy the chunk into it and write it.
Merge(t) ==
  LET c == fcall[t]
  IN  /\ c.pc = "merge"
      /\ request[t].op = "done"
      /\ request' = [request EXCEPT ![t] = Asked("write", sector_idx(c), Filled(c, request[t].data))]
      /\ fcall' = [fcall EXCEPT ![t].pc = "io"]
      /\ UNCHANGED <<calls, store, pos, filesys_lock, last, mixed, stale, raced, deny_write_cnt>>

\* Advance.
Advance(t) ==
  LET c == fcall[t]
  IN  /\ c.pc = "io"
      /\ Take(t)
      /\ fcall' = [fcall EXCEPT ![t].pc = "loop", ![t].done = @ + chunk_size(c),
           ![t].got = IF c.op = "write" THEN @
                      ELSE @ \o [k \in 1..chunk_size(c) |-> request[t].data[sector_ofs(c) + k - 1]]]
      /\ UNCHANGED <<calls, pos, filesys_lock, last, mixed, stale, raced, deny_write_cnt>>

\* The call is over; an executed file may be written again when its process
\* has ended.
Returned(t) ==
  /\ fcall[t].pc = "return"
  /\ fcall' = [fcall EXCEPT ![t] = NoFileCall]
  /\ mixed' = [mixed EXCEPT ![t] = FALSE]
  /\ deny_write_cnt' = IF fcall[t].op = "load" THEN deny_write_cnt - 1 ELSE deny_write_cnt
  /\ UNCHANGED <<calls, storeVars, pos, filesys_lock, last, stale, raced>>

FileWork(t) ==
  LockFilesys(t) \/ LoopEnds(t) \/ NextChunk(t) \/ DiskReads(t) \/ DiskWrites(t)
    \/ Merge(t) \/ Advance(t) \/ Returned(t)
FileNext ==
  \E t \in Client : SysReadWrite(t) \/ seek(t) \/ LoadReads(t) \/ EvictorWrites(t) \/ FileWork(t)
=============================================================================
