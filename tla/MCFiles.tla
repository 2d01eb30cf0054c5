------------------------------- MODULE MCFiles ------------------------------
(***************************************************************************)
(* The file system: how files are stored (Inode) and how they are named    *)
(* (Directories).  The two share no state; unit says which of them runs.   *)
(***************************************************************************)
EXTENDS Inode

CONSTANTS Names, Procs, DirInos, DirRefs, DirCalls, DirOpen

VARIABLES unit, cnt, removed, ents, live, dirs, wd, held, dstop, alive, ran, starting, calls, dlast
dvars == <<cnt, removed, ents, live, dirs, wd, held, dstop, alive, ran, starting, calls, dlast>>
allvars == <<unit, vars, dvars>>

\* Paths of one and two parts, relative and from the root.
Paths ==
  [abs : {FALSE}, parts : {<<a>> : a \in Names \cup {".", ".."}} \cup (Names \X {".."})
                          \cup (Names \X Names) \cup ({".."} \X Names)]
  \cup [abs : {TRUE}, parts : {<<>>} \cup {<<a>> : a \in Names}]
D == INSTANCE Directories WITH stop <- dstop, last <- dlast, MaxRefs <- DirRefs,
       Inos <- DirInos, MaxCalls <- DirCalls, MaxOpen <- DirOpen

MCInit == unit \in {"inode", "dir"} /\ Init /\ D!Init
MCNext ==
  \/ unit = "inode" /\ Next /\ UNCHANGED <<unit, dvars>>
  \/ unit = "dir" /\ D!Next /\ UNCHANGED <<unit, vars>>
MCSpec == MCInit /\ [][MCNext]_allvars
-----------------------------------------------------------------------------
\* A sector is of one file, of the free map or free, and the map in its file on the
\* device says which, after every call and so through every restart.
MapExact == TypeOK /\ SectorsExclusive /\ MapSaved

\* Growth leaves a block unset only on a full device, the kernel panics or goes
\* astray only over such a block, and sectors are lost only there and by a
\* restart while a removed file is open.
FailuresOnlyThere == HolesOnlyWhenFull /\ StopsOnlyThere /\ LeaksOnlyThere

\* The directory tree stays a tree but for "." and ".." being removed and entries
\* being made under a regular file; create, mkdir, remove and chdir did what
\* they return, or nothing; a program is looked for in the parent's directory,
\* or in the root if the child ran ahead.
NamesRight == []D!TypeOK /\ D!TreeBrokenOnlyBy /\ D!CallsAsReturned /\ D!LoadedFrom

\* open_cnt is below the references to an inode only after a shared work
\* directory or a chdir that failed, only then is an inode freed in use, freed
\* or unset memory is used only by calls that skip find_path's answer and by
\* processes that lost what they used, and a regular file stays open for ever
\* only when taken for a directory.
CountsWrongOnlyBy == D!ShortOnlyBy /\ D!FreedOnlyAfter /\ D!WildOnlyBy /\ D!LeakedOnlyBy
=============================================================================
