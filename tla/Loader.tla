------------------------------- MODULE Loader -------------------------------
(***************************************************************************)
(* load() of userprog/process.c: how an executable's program headers       *)
(* become entries of the supplemental page table (vm/page.c), and what the *)
(* page fault handler later fills a page with.  An address is a number of  *)
(* AddrBits bits and a page has PGSIZE bytes; spt is a function from the   *)
(* mapped pages to their entries.  A file is its length: its byte at       *)
(* offset o is the pair <<"file", o>>.                                     *)
(***************************************************************************)
EXTENDS Integers, Sequences, SequencesExt

CONSTANTS
  AddrBits,     \* 32
  PGSIZE,       \* 4096, a power of two
  PHYS_BASE,    \* the first kernel address
  MaxPhnum      \* 1024

ASSUME LoaderAssumption ==
  /\ PGSIZE > 1 /\ PHYS_BASE % PGSIZE = 0
  /\ PHYS_BASE \in (2 * PGSIZE)..(2 ^ AddrBits - PGSIZE)

is_user_vaddr(a) == a < PHYS_BASE
Wrap(a) == a % 2 ^ AddrBits
pg_ofs(a) == a % PGSIZE
pg_round_down(a) == a - pg_ofs(a)
RoundUp(n) == ((n + PGSIZE - 1) \div PGSIZE) * PGSIZE

validate_segment_NoWrapTest(phdr, length) ==
  /\ pg_ofs(phdr.p_offset) = pg_ofs(phdr.p_vaddr)
  /\ phdr.p_offset <= length
  /\ phdr.p_memsz >= phdr.p_filesz
  /\ phdr.p_memsz # 0
  /\ is_user_vaddr(phdr.p_vaddr)
  /\ is_user_vaddr(Wrap(phdr.p_vaddr + phdr.p_memsz))
  /\ phdr.p_vaddr >= PGSIZE

validate_segment(phdr, length) ==
  /\ pg_ofs(phdr.p_offset) = pg_ofs(phdr.p_vaddr)
  /\ phdr.p_offset <= length
  /\ phdr.p_memsz >= phdr.p_filesz
  /\ phdr.p_memsz # 0
  /\ is_user_vaddr(phdr.p_vaddr)
  /\ is_user_vaddr(Wrap(phdr.p_vaddr + phdr.p_memsz))
  /\ Wrap(phdr.p_vaddr + phdr.p_memsz) >= phdr.p_vaddr
  /\ phdr.p_vaddr >= PGSIZE

\* The caller's range is free: no page that is read from the file is mapped.
validate_free_page(spt, upage, read_bytes) ==
  \A i \in 0..(RoundUp(read_bytes) \div PGSIZE - 1) :
    Wrap(upage + i * PGSIZE) \notin DOMAIN spt

new_zero_page == [type |-> "ZERO"]
new_exec_page(ofs, zero_after, writable) ==
  [type |-> "EXEC", offset |-> ofs, zero_after |-> zero_after, writable |-> writable]

\* hash_insert keeps the entry that is there; the new one is dropped.
add_lazy_page(spt, page, entry) ==
  [p \in DOMAIN spt \cup {page} |-> IF p \in DOMAIN spt THEN spt[p] ELSE entry]

\* The loop over the pages of a segment: the k-th reads what is left.
load_segment(spt, ofs, upage, read_bytes, zero_bytes, writable) ==
  LET AddPage(s, k) ==
        LET left == read_bytes - k * PGSIZE
            page_read_bytes == IF left <= 0 THEN 0 ELSE IF left < PGSIZE THEN left ELSE PGSIZE
        IN  add_lazy_page(s, Wrap(upage + k * PGSIZE),
              IF page_read_bytes = 0 THEN new_zero_page
              ELSE new_exec_page(ofs + k * PGSIZE, page_read_bytes, writable))
      pages == (read_bytes + zero_bytes) \div PGSIZE
  IN  IF ~validate_free_page(spt, upage, read_bytes) THEN [ok |-> FALSE, spt |-> spt]
      ELSE [ok |-> TRUE, spt |-> FoldLeft(AddPage, spt, [k \in 1..pages |-> k - 1])]

\* One program header of load()'s loop.
LoadHeader(spt, phdr, length) ==
  LET page_offset == pg_ofs(phdr.p_vaddr)
      read_bytes == IF phdr.p_filesz > 0 THEN page_offset + phdr.p_filesz ELSE 0
      zero_bytes == RoundUp(page_offset + phdr.p_memsz) - read_bytes
  IN  CASE phdr.p_type \in {"PT_DYNAMIC", "PT_INTERP", "PT_SHLIB"} -> [ok |-> FALSE, spt |-> spt]
        [] phdr.p_type = "PT_LOAD" ->
             IF validate_segment(phdr, length)
             THEN load_segment(spt, pg_round_down(phdr.p_offset), pg_round_down(phdr.p_vaddr),
                               read_bytes, zero_bytes, phdr.writable)
             ELSE [ok |-> FALSE, spt |-> spt]
        [] OTHER -> [ok |-> TRUE, spt |-> spt]

\* setup_stack, when it gets a frame: one present page without an entry.
StackPage == PHYS_BASE - PGSIZE

\* load() of a file with a valid ELF header (good) that announces these program
\* headers and holds the first few (held) of them; the next one lies, at least in
\* part, beyond its end.  frame: setup_stack() gets a frame.
load(good, phdrs, held, length, frame) ==
  LET Step(r, phdr) == IF r.ok THEN LoadHeader(r.spt, phdr, length) ELSE r
      empty == [p \in {} |-> new_zero_page]
      r == FoldLeft(Step, [ok |-> TRUE, spt |-> empty], SubSeq(phdrs, 1, held))
  IN  IF ~good \/ Len(phdrs) > MaxPhnum THEN [ok |-> FALSE, spt |-> empty]
      ELSE [r EXCEPT !.ok = @ /\ held = Len(phdrs) /\ frame]

\* What a process reads at addr once its page has been faulted in; "killed"
\* if the handler cannot read the file that far, or the page is not mapped.
ByteAt(spt, addr, length) ==
  LET page == pg_round_down(addr)
      e == spt[page]
  IN  IF page = StackPage THEN <<"stack">>
      ELSE IF page \notin DOMAIN spt THEN <<"killed">>
      ELSE IF e.type = "ZERO" THEN <<"zero">>
      ELSE IF e.offset + e.zero_after > length THEN <<"killed">>
      ELSE IF pg_ofs(addr) < e.zero_after THEN <<"file", e.offset + pg_ofs(addr)>>
      ELSE <<"zero">>
PageWritable(spt, page) == spt[page].type = "ZERO" \/ spt[page].writable
=============================================================================
