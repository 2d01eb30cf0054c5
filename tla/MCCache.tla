------------------------------ MODULE MCCache ------------------------------
(***************************************************************************)
(* Two small instances of Cache: many sectors of one byte, and few of two  *)
(* bytes, of which parts are read and written.  unit says which one runs.  *)
(***************************************************************************)
EXTENDS Cache, TLC

CONSTANTS s1, s2, s3, s4, t1, t2

VARIABLES unit, pcache, pout, pi
pvars == <<pcache, pout, pi>>
allvars == <<unit, vars, pvars>>

MCSector == {s1, s2, s3, s4}
PSector == {t1, t2}
SectorSymmetry == Permutations(MCSector) \cup Permutations(PSector)

P == INSTANCE Cache WITH Sector <- PSector, SECTOR_SIZE <- 2, CACHE_SIZE <- 2, MaxRef <- 3,
                         cache <- pcache, out <- pout, i <- pi

\* The instance that does not run has an empty disk.
MCInit ==
  /\ unit \in {"whole", "parts"}
  /\ cache_init
  /\ P!cache_init
  /\ unit = "whole" => pcache.disk = [s \in PSector |-> P!Zeros]
  /\ unit = "parts" => cache.disk = [s \in MCSector |-> Zeros]
MCNext ==
  \/ unit = "whole" /\ Next /\ UNCHANGED <<unit, pvars>>
  \/ unit = "parts" /\ P!Next /\ UNCHANGED <<unit, vars>>
MCSpec == MCInit /\ [][MCNext]_allvars

\* Reads and writes of a part of a sector return and change exactly those
\* bytes, cached or not: cache_read_bytes and cache_write_bytes bounce the rest
\* of the sector through the cache.
PartsExact == P!CallsExact
=============================================================================
