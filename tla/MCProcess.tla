----------------------------- MODULE MCProcess -----------------------------
(* Small instances of Process. *)
EXTENDS Process, TLC

CONSTANTS p1, p2

MCUser == {p1, p2}

UserSymmetry == Permutations(User)
=============================================================================
