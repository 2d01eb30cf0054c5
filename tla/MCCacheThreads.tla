--------------------------- MODULE MCCacheThreads ---------------------------
(* Small instances of CacheThreads. *)
EXTENDS CacheThreads, TLC

CONSTANTS t1, t2, s1, s2, s3

MCThread == {t1, t2}
MCSector == {s1, s2, s3}

\* Each thread has sectors of its own; with MCShared nobody writes s1.
MCOwner == [x \in Sector |-> IF x = s1 THEN t1 ELSE t2]
MCShared == (s1 :> NULL) @@ (s2 :> t1) @@ (s3 :> t2)

\* s1 holds something else, so that a mix-up shows.
MCDisk == (s1 :> 1) @@ (s2 :> 0) @@ (s3 :> 0)
=============================================================================
