------------------------------- MODULE Archive ------------------------------
(***************************************************************************)
(* Archives on the scratch device: ustar headers (lib/ustar.c) and the     *)
(* actions append and extract (filesys/fsutil.c).  Names are sequences of  *)
(* characters, small numbers.  A numeric field has octal digits, NUL,      *)
(* SPACE and BAD, any other character.  A sector has a kind: a header,     *)
(* data, zeros, or a dirty one, zeros but for its last byte.               *)
(***************************************************************************)
EXTENDS Integers, Sequences, FiniteSets, TLC, SequencesExt

CONSTANTS NAME,      \* bytes in the field name, 100
          CHKSUM,    \* bytes in the fields chksum and mode, 8
          SIZE,      \* bytes in the field size, 12
          U,         \* bits of an unsigned long; an int has one fewer without the sign
          SECTOR     \* bytes in a sector, 512

NUL == 8
SPACE == 9
BAD == 10
Slash == 2
Dot == 1

StartsWith(s, prefix) == Len(s) >= Len(prefix) /\ SubSeq(s, 1, Len(prefix)) = prefix
Antisocial == {<<Slash>>, <<Dot, Slash>>, <<Dot, Dot, Slash>>}
RECURSIVE strip_antisocial_prefixes(_)
strip_antisocial_prefixes(name) ==
  IF \E p \in Antisocial : StartsWith(name, p)
  THEN strip_antisocial_prefixes(SubSeq(name, SelectInSeq(name, LAMBDA c : c = Slash) + 1, Len(name)))
  ELSE IF name \in {<<>>, <<Dot, Dot>>} THEN <<Dot>> ELSE name

\* snprintf (field, n, "%0<n - 1>o", value), for a value that has room.
Octal(value, n) == [i \in 1 .. n |-> IF i = n THEN NUL ELSE (value \div 8^(n - 1 - i)) % 8]
ULONG_MAX == 2^U - 1
INT_MAX == 2^(U - 1) - 1
NoNumber == -1
Overflows(value) == value > ULONG_MAX \div 8
\* parse_octal_field, from place ofs on: the value or NoNumber.
RECURSIVE ParseOctal(_, _, _)
ParseOctal(s, ofs, value) ==
  IF ofs = Len(s) THEN NoNumber
  ELSE LET c == s[ofs + 1]
       IN  IF c \in 0 .. 7
           THEN IF Overflows(value) THEN NoNumber
                ELSE ParseOctal(s, ofs + 1, (c + value * 8) % 2^U)
           ELSE IF c \in {SPACE, NUL} /\ ofs > 0 THEN value ELSE NoNumber
parse_octal_field(s) == ParseOctal(s, 0, 0)

Sum(s) == FoldLeft(LAMBDA x, y : x + y, 0, s)
\* calculate_chksum, of the fields that differ between headers.
calculate_chksum(h) ==
  Sum(h.name) + Sum(h.size) + (CASE h.type = "regular" -> 1 [] h.type = "directory" -> 2 [] OTHER -> 3)

Failed == [kind |-> "failed"]
\* ustar_make_header: the header, or Failed.
ustar_make_header(file_name, type, size) ==
  LET name == strip_antisocial_prefixes(file_name)
      h == [kind |-> "header", magic |-> TRUE, version |-> TRUE, name |-> name, long |-> FALSE,
            type |-> type, size |-> Octal(size, SIZE), chksum |-> <<>>]
  IN  IF Len(name) > NAME - 1 THEN Failed
      ELSE [h EXCEPT !.chksum = Octal(calculate_chksum(h), CHKSUM)]

Eof == [kind |-> "eof"]
Bad(why) == [kind |-> "bad", why |-> why]
\* ustar_parse_header, of a sector; long: name or prefix is too long.
ustar_parse_header(h) ==
  CASE h.kind = "zeros" -> Eof
    [] h.kind # "header" -> Bad("not an archive")
    [] OTHER ->
       LET size == IF h.type = "regular" THEN parse_octal_field(h.size) ELSE 0
       IN  IF ~h.magic \/ ~h.version THEN Bad("not an archive")
           ELSE IF parse_octal_field(h.chksum) # calculate_chksum(h) THEN Bad("chksum")
           ELSE IF h.long THEN Bad("name")
           ELSE IF h.type \notin {"regular", "directory"} THEN Bad("type")
           ELSE IF size = NoNumber \/ size > INT_MAX THEN Bad("size")
           ELSE [kind |-> "file", name |-> strip_antisocial_prefixes(h.name),
                 type |-> h.type, size |-> size]
-----------------------------------------------------------------------------
(***************************************************************************)
(* The actions.  A state has the sectors of the scratch device, the places *)
(* in it that append and extract have reached since boot, the files that   *)
(* extract has created, and whether the kernel runs.                       *)
(***************************************************************************)
Zeros == [kind |-> "zeros"]
Panic(st) == [st EXCEPT !.run = FALSE]
\* block_write, with check_sector.
block_write(st, sector, data) ==
  IF ~st.run \/ sector \notin DOMAIN st.disk THEN Panic(st) ELSE [st EXCEPT !.disk[sector] = data]
Chunk(size) == IF size > SECTOR THEN SECTOR ELSE size

\* The copying loop of fsutil_append.
RECURSIVE AppendData(_, _)
AppendData(st, bytes) ==
  IF bytes = <<>> THEN st
  ELSE IF ~st.run \/ st.append \notin DOMAIN st.disk THEN Panic(st)
  ELSE LET n == Chunk(Len(bytes))
       IN  AppendData([block_write(st, st.append, [kind |-> "data", bytes |-> SubSeq(bytes, 1, n)])
                         EXCEPT !.append = @ + 1], SubSeq(bytes, n + 1, Len(bytes)))
\* The end-of-archive marker is two writes to one sector, the second of the
\* buffer from its second byte on; dirty: the byte after the buffer is not 0.
EndMarker(st, dirty) ==
  block_write(block_write(st, st.append, Zeros), st.append,
              IF dirty THEN [kind |-> "dirty"] ELSE Zeros)
\* fsutil_append, of a file that can be opened.
fsutil_append(st, file_name, bytes, dirty) ==
  LET h == ustar_make_header(file_name, "regular", Len(bytes))
      w == [block_write(st, st.append, h) EXCEPT !.append = @ + 1]
  IN  IF ~st.run \/ h = Failed THEN Panic(st) ELSE EndMarker(AppendData(w, bytes), dirty)

\* The copying loop of fsutil_extract: the state and the bytes read.
RECURSIVE ExtractData(_, _, _)
ExtractData(st, size, got) ==
  IF size = 0 THEN [st |-> st, bytes |-> got]
  ELSE IF st.extract \notin DOMAIN st.disk THEN [st |-> Panic(st), bytes |-> got]
  ELSE ExtractData([st EXCEPT !.extract = @ + 1], size - Chunk(size),
                   got \o SubSeq(st.disk[st.extract].bytes, 1, Chunk(size)))
\* filesys_create, open, copy and close: creating a file that there is fails.
ExtractFile(st, f) ==
  LET r == ExtractData(st, f.size, <<>>)
  IN  IF f.name \in DOMAIN st.files THEN Panic(st)
      ELSE [r.st EXCEPT !.files = (f.name :> r.bytes) @@ @]
\* The loop over the headers.
RECURSIVE ExtractAll(_)
ExtractAll(st) ==
  IF ~st.run \/ st.extract \notin DOMAIN st.disk THEN Panic(st)
  ELSE LET h  == ustar_parse_header(st.disk[st.extract])
           st1 == [st EXCEPT !.extract = @ + 1]
       IN  CASE h.kind = "eof" -> st1
             [] h.kind = "bad" -> Panic(st1)
             [] OTHER -> ExtractAll(IF h.type = "directory" THEN st1 ELSE ExtractFile(st1, h))
Erase(st) == IF ~st.run THEN st ELSE block_write(block_write(st, 0, Zeros), 1, Zeros)
fsutil_extract(st) == Erase(ExtractAll(st))
=============================================================================
