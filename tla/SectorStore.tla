---------------------------- MODULE SectorStore ----------------------------
(***************************************************************************)
(* What the buffer cache promises to the inode layer: an array of sectors, *)
(* where a read returns the bytes that were written last.                  *)
(***************************************************************************)
CONSTANTS
  Sector,
  Offset,   \* positions within a sector
  Byte

VARIABLES
  content,  \* what each sector holds
  out       \* the bytes the last read put in the caller's buffer

vars == <<content, out>>

\* The parts of a sector a call may be about, and the buffers for them.
Buffer == UNION {[R -> Byte] : R \in SUBSET Offset}

\* The sector d with the bytes of buf copied into it.
Overlay(d, buf) == [o \in Offset |-> IF o \in DOMAIN buf THEN buf[o] ELSE d[o]]

Init ==
  /\ content \in [Sector -> [Offset -> Byte]]
  /\ out = <<>>

Read(s, R) ==
  /\ out' = [o \in R |-> content[s][o]]
  /\ UNCHANGED content

Write(s, buf) ==
  /\ content' = [content EXCEPT ![s] = Overlay(@, buf)]
  /\ UNCHANGED out

Next ==
  \E s \in Sector :
    \/ \E R \in SUBSET Offset : Read(s, R)
    \/ \E buf \in Buffer : Write(s, buf)

Spec == Init /\ [][Next]_vars
=============================================================================
