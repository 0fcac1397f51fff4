------------------------------- MODULE FsUtil -------------------------------
(***************************************************************************)
(* filesys/fsutil.c: the kernel actions that copy files between the file   *)
(* system and the scratch disk.  A state s has the files (a function from  *)
(* names to their bytes), the scratch disk's sectors, the positions of put *)
(* and get on it, and whether the kernel has stopped.  A sector has two    *)
(* bytes: signature and size, or data.                                     *)
(***************************************************************************)
EXTENDS Integers, Sequences, SequencesExt, Format

FsSector == 2      \* DISK_SECTOR_SIZE
PUT == 80          \* the signatures "PUT\0" and "GET\0", as one byte
GET == 71
FsPage == 4        \* PGSIZE, a multiple of the bytes of a dump's line

Stopped(s) == [s EXCEPT !.panic = TRUE]
SectorsFor(size) == (size + FsSector - 1) \div FsSector
Slice(bytes, k, n) == SubSeq(bytes, k * n + 1, IF (k + 1) * n < Len(bytes) THEN (k + 1) * n ELSE Len(bytes))
Padded(bytes) == bytes \o [k \in 1..(FsSector - Len(bytes)) |-> 0]

fsutil_ls(s) == DOMAIN s.files

\* The dumps of the pages read.
fsutil_cat(s, name) ==
  LET file == s.files[name]
      pages == (Len(file) + FsPage - 1) \div FsPage
  IN  [panic |-> name \notin DOMAIN s.files,
       dump |-> IF name \notin DOMAIN s.files THEN <<>>
                ELSE FlattenSeq([p \in 1..pages |->
                  LET page == Slice(file, p - 1, FsPage)
                  IN  hex_dump((p - 1) * FsPage, page, Len(page))])]

fsutil_rm(s, name) ==
  IF name \notin DOMAIN s.files THEN Stopped(s)
  ELSE [s EXCEPT !.files = [n \in DOMAIN s.files \ {name} |-> s.files[n]]]

\* disk_read asserts that the sector is on the disk.
fsutil_put(s, name) ==
  LET header == s.scratch[s.put + 1]
      size == header[2]
      last == s.put + SectorsFor(size)
      data == FlattenSeq([k \in 1..SectorsFor(size) |-> s.scratch[s.put + 1 + k]])
  IN  IF s.put >= Len(s.scratch) THEN Stopped(s)
      ELSE IF header[1] # PUT \/ size < 0 THEN Stopped(s)
      ELSE IF name \in DOMAIN s.files \/ last >= Len(s.scratch) THEN Stopped(s)
      ELSE [s EXCEPT !.put = last + 1,
                     !.files = [n \in DOMAIN s.files \cup {name} |->
                       IF n = name THEN SubSeq(data, 1, size) ELSE s.files[n]]]

\* The header, then the file's sectors as long as there are any on the disk.
fsutil_get(s, name) ==
  LET file == s.files[name]
      n == SectorsFor(Len(file))
      first == s.get + 1
      written == [k \in 1..Len(s.scratch) |->
        IF k = first THEN <<GET, Len(file)>>
        ELSE IF k \in (first + 1)..(first + n) THEN Padded(Slice(file, k - first - 1, FsSector))
        ELSE s.scratch[k]]
  IN  IF name \notin DOMAIN s.files THEN Stopped(s)
      ELSE IF first + n > Len(s.scratch) THEN Stopped([s EXCEPT !.scratch = written])
      ELSE [s EXCEPT !.scratch = written, !.get = @ + 1 + n]
=============================================================================
