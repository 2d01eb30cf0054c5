------------------------------ MODULE FileStore -----------------------------
(***************************************************************************)
(* What the inode layer promises: files of bytes, kept while a directory   *)
(* names them or somebody has them open.  A write past the end fills the   *)
(* gap with zeros; a removed file lives until its last close.  The system  *)
(* may refuse to create a file, and it may halt: after Halt it promises    *)
(* nothing.                                                                *)
(***************************************************************************)
EXTENDS Integers, Sequences

CONSTANTS Id,       \* what names a file
          Byte      \* the bytes written; a new file is full of zeros

VARIABLES content,  \* the bytes of every file there is
          linked,   \* the files that a directory names
          opens,    \* open counts of the open files
          halted,
          answer    \* what the last call returned
vars == <<content, linked, opens, halted, answer>>

Keep(f, S) == [x \in DOMAIN f \cap S |-> f[x]]
Zeros(n) == [i \in 1 .. n |-> 0]
Alive(l, o) == l \cup DOMAIN o

Init ==
  \E l \in SUBSET Id : \E c \in [l -> {Zeros(n) : n \in 0 .. 2}] :
    /\ content = c /\ linked = l /\ opens = <<>>
    /\ halted = FALSE /\ answer = <<>>

Create(id, n) ==
  /\ id \notin Alive(linked, opens)
  /\ linked' = linked \cup {id}
  /\ answer' = <<1>> /\ UNCHANGED opens
  /\ content' = [x \in DOMAIN content \cup {id} |-> IF x = id THEN Zeros(n) ELSE content[x]]
Refuse == answer' = <<0>> /\ UNCHANGED <<linked, opens, content>>

Open(id) ==
  /\ id \in Alive(linked, opens)
  /\ opens' = [x \in DOMAIN opens \cup {id} |->
                 (IF x \in DOMAIN opens THEN opens[x] ELSE 0) + (IF x = id THEN 1 ELSE 0)]
  /\ answer' = <<>> /\ UNCHANGED <<linked, content>>
Close(id) ==
  /\ id \in DOMAIN opens
  /\ opens' = IF opens[id] = 1 THEN Keep(opens, DOMAIN opens \ {id})
              ELSE [opens EXCEPT ![id] = @ - 1]
  /\ answer' = <<>> /\ UNCHANGED linked
  /\ content' = Keep(content, Alive(linked, opens'))
Unlink(id) ==
  /\ id \in linked
  /\ linked' = linked \ {id}
  /\ answer' = <<1>> /\ UNCHANGED opens
  /\ content' = Keep(content, Alive(linked', opens))

Overwrite(s, ofs, bytes) ==
  LET n == IF ofs + Len(bytes) > Len(s) THEN ofs + Len(bytes) ELSE Len(s)
  IN  [i \in 1 .. n |-> IF i \in ofs + 1 .. ofs + Len(bytes) THEN bytes[i - ofs]
                        ELSE IF i <= Len(s) THEN s[i] ELSE 0]
Write(id, ofs, bytes) ==
  /\ answer' = <<Len(bytes)>> /\ UNCHANGED <<linked, opens>>
  /\ content' = [content EXCEPT ![id] = Overwrite(@, ofs, bytes)]
Read(id, ofs, n) ==
  /\ UNCHANGED <<linked, opens>>
  /\ answer' = SubSeq(content[id], ofs + 1,
                      IF ofs + n < Len(content[id]) THEN ofs + n ELSE Len(content[id]))
  /\ UNCHANGED content

\* The machine is shut down and started again.
Restart ==
  /\ opens' = <<>> /\ answer' = <<>> /\ UNCHANGED linked
  /\ content' = Keep(content, linked)
Halt == halted' = TRUE

\* Files of these sizes, accessed at these offsets, at most n bytes at a time.
Next(Sizes, Offsets, n) ==
  \/ Halt
  \/ /\ ~halted /\ ~halted'
     /\ \/ Refuse \/ Restart
        \/ \E id \in Id : \/ Open(id) \/ Close(id) \/ Unlink(id)
                          \/ \E size \in Sizes : Create(id, size)
        \/ \E id \in DOMAIN opens, ofs \in Offsets, m \in 0 .. n :
             Read(id, ofs, m) \/ \E bytes \in [1 .. m -> Byte] : Write(id, ofs, bytes)
=============================================================================
