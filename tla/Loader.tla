-------------------------------- MODULE Loader ------------------------------
(***************************************************************************)
(* load in userprog/process.c: from an executable to the memory of a       *)
(* process and its first stack.  Addresses have W bits; user memory is     *)
(* below PHYS_BASE.  The file is the sequence of its bytes, a program      *)
(* header has the fields that load uses, and the header of the file is     *)
(* whether it is that of a program.  Memory is a function of the addresses *)
(* mapped, with the pages that may be written.                             *)
(***************************************************************************)
EXTENDS Integers, Sequences, TLC

CONSTANTS W, PGSIZE, PHYS_BASE,
          WORD   \* bytes in a pointer, 4

Unsigned(n) == n % 2^W
is_user_vaddr(a) == a < PHYS_BASE
PageStart(a) == a - (a % PGSIZE)
RoundUp(n) == Unsigned(((n + PGSIZE - 1) \div PGSIZE) * PGSIZE)

\* Mutant: the sum of address and size may wrap around.
validate_segment_wraps(ph, length) ==
  /\ ph.offset % PGSIZE = ph.vaddr % PGSIZE /\ ph.offset <= length
  /\ ph.memsz >= ph.filesz /\ ph.memsz # 0
  /\ is_user_vaddr(ph.vaddr) /\ is_user_vaddr(Unsigned(ph.vaddr + ph.memsz))
  /\ ph.vaddr >= PGSIZE
validate_segment(ph, length) ==
  /\ ph.offset % PGSIZE = ph.vaddr % PGSIZE
  /\ ph.offset <= length
  /\ ph.memsz >= ph.filesz
  /\ ph.memsz # 0
  /\ is_user_vaddr(ph.vaddr)
  /\ is_user_vaddr(Unsigned(ph.vaddr + ph.memsz))
  /\ Unsigned(ph.vaddr + ph.memsz) >= ph.vaddr
  /\ ph.vaddr >= PGSIZE

Failed == [ok |-> FALSE, mem |-> <<>>, writable |-> {}]
Mapped(img, page) == page \in DOMAIN img.mem
\* install_page: the page's bytes, in order, unless there is a page already.
install_page(img, page, bytes, writable) ==
  IF Mapped(img, page) THEN Failed
  ELSE [ok |-> TRUE,
        mem |-> [a \in page .. page + PGSIZE - 1 |-> bytes[a - page + 1]] @@ img.mem,
        writable |-> IF writable THEN img.writable \cup {page} ELSE img.writable]

\* The loop of load_segment, with the file at ofs.
RECURSIVE LoadPages(_, _, _, _, _, _, _)
LoadPages(img, file, ofs, upage, read_bytes, zero_bytes, writable) ==
  LET n == IF read_bytes < PGSIZE THEN read_bytes ELSE PGSIZE
      bytes == [i \in 1 .. PGSIZE |-> IF i <= n THEN file[ofs + i] ELSE 0]
  IN  IF ~img.ok \/ (read_bytes = 0 /\ zero_bytes = 0) THEN img
      ELSE IF n > 0 /\ ofs + n > Len(file) THEN Failed
      ELSE LoadPages(install_page(img, upage, bytes, writable), file, ofs + n,
                     Unsigned(upage + PGSIZE), read_bytes - n,
                     Unsigned(zero_bytes - (PGSIZE - n)), writable)

\* A segment: read_bytes and zero_bytes, then load_segment.
load_segment(img, file, ph) ==
  LET ofs  == ph.vaddr % PGSIZE
      read == IF ph.filesz > 0 THEN Unsigned(ofs + ph.filesz) ELSE 0
      zero == Unsigned(RoundUp(Unsigned(ofs + ph.memsz)) - read)
  IN  LoadPages(img, file, PageStart(ph.offset), PageStart(ph.vaddr), read, zero, ph.writable)

\* A program header, by its type; one of type "CUT" is not all in the file.
LoadHeader(img, file, ph) ==
  IF ~img.ok \/ ph.type \in {"CUT", "DYNAMIC", "INTERP", "SHLIB"} THEN Failed
  ELSE IF ph.type # "LOAD" THEN img
  ELSE IF validate_segment(ph, Len(file)) THEN load_segment(img, file, ph) ELSE Failed
RECURSIVE LoadHeaders(_, _, _)
LoadHeaders(img, file, phdrs) ==
  IF phdrs = <<>> THEN img ELSE LoadHeaders(LoadHeader(img, file, Head(phdrs)), file, Tail(phdrs))
setup_stack(img) ==
  IF ~img.ok THEN Failed
  ELSE install_page(img, PHYS_BASE - PGSIZE, [i \in 1 .. PGSIZE |-> 0], TRUE)
\* The image of an executable whose header is good or not.
load(file, good, phdrs) ==
  IF ~good THEN Failed
  ELSE setup_stack(LoadHeaders([ok |-> TRUE, mem |-> <<>>, writable |-> {}], file, phdrs))
-----------------------------------------------------------------------------
\* The stack: below top are the words of the command line, each ended by a 0,
\* then a word left 0, the words' addresses, the address of these, the number of
\* words, and a word for the return address.  (There is room for 20 words, and
\* for a command line of less than 100 characters.)
Put(mem, at, bytes) == [a \in at .. at + Len(bytes) - 1 |-> bytes[a - at + 1]] @@ mem
\* A word has its value in its first byte here.
Word(v) == [i \in 1 .. WORD |-> IF i = 1 THEN v ELSE 0]
RECURSIVE PushStrings(_, _)
PushStrings(st, args) ==
  IF args = <<>> THEN st
  ELSE LET at == st.esp - (Len(Head(args)) + 1)
       IN  PushStrings([esp |-> at, mem |-> Put(st.mem, at, Append(Head(args), 0)),
                        addr |-> Append(st.addr, at)], Tail(args))
Below(st) == st.esp - WORD
RECURSIVE PushAddresses(_, _, _)
PushAddresses(st, esp, j) ==
  IF j = 0 THEN [st EXCEPT !.esp = esp]
  ELSE PushAddresses([st EXCEPT !.mem = Put(@, esp - WORD, Word(st.addr[j]))], esp - WORD, j - 1)
PushArguments(mem, top, args) ==
  LET strings == PushStrings([esp |-> top, mem |-> mem, addr |-> <<>>], args)
      argv == PushAddresses(strings, Below(strings), Len(args))
  IN  [esp |-> argv.esp - 3 * WORD,
       mem |-> Put(Put(argv.mem, argv.esp - WORD, Word(argv.esp)),
                   argv.esp - 2 * WORD, Word(Len(args)))]
=============================================================================
