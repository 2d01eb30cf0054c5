------------------------------ MODULE MCSynch ------------------------------
(* Small instances of Synch. *)
EXTENDS Synch, TLC

CONSTANTS t1, t2, t3, l1, l2, c1, c2

MCThread == {t1, t2, t3}
MCLock2 == {l1, l2}
MCCond2 == {c1, c2}
\* l1 serves both condition variables, l2 none.
MCLockOf == [c \in Cond |-> l1]
=============================================================================
