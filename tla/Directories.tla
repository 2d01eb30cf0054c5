----------------------------- MODULE Directories ----------------------------
(***************************************************************************)
(* Directories and paths: filesys/directory.c, filesys/filesys.c and the   *)
(* file system calls of userprog/syscall.c.  In-memory inodes are counted: *)
(* every dir_open, file_open, dir_lookup adds to cnt, every close takes    *)
(* away; at zero the struct inode is freed, and with it what a removed     *)
(* file has on the device.  A directory maps names to inode numbers; that  *)
(* it is stored in slots of a file is left out, and so are names that are  *)
(* too long and trailing slashes.  Calls are atomic.                       *)
(*                                                                         *)
(* A step works on the record st of the variables cnt to stop; stop is     *)
(* "wild" once a call uses memory it never set or already freed.           *)
(***************************************************************************)
EXTENDS Integers, Sequences, FiniteSets, FiniteSetsExt, SequencesExt

CONSTANTS Inos,      \* inode numbers, the sectors of inodes; ROOT is one
          Names,     \* file names other than "." and ".."
          Procs,     \* processes, 1 the first
          Paths,     \* the paths given to calls, [abs, parts]
          MaxRefs,   \* bound on every count
          MaxCalls,  \* bound on the calls, all processes together
          MaxOpen    \* bound on the files a process has open

ROOT == 1            \* ROOT_DIR_SECTOR
NULL == 0
DANGLING == -1       \* a pointer to freed memory

VARIABLES cnt,       \* open_cnt of the in-memory inodes, 0 for none
          removed,   \* the in-memory inodes marked removed
          ents,      \* the entries of each inode, name -> inode number
          live,      \* the inodes allocated on the device
          dirs,      \* those whose entries have type IS_DIR
          wd,        \* work_dir of each process: an inode, NULL or DANGLING
          held,      \* how often each process has each file open
          stop,
          alive,     \* the processes that run
          ran,       \* the processes that ran; each is started once
          starting,  \* the exec in progress, one at a time under exec_lock
          calls,     \* how many calls were made
          last       \* the last step, and what it returned
vars == <<cnt, removed, ents, live, dirs, wd, held, stop, alive, ran, starting, calls, last>>

NoExec == [parent |-> NULL, child |-> NULL, set |-> FALSE, loaded |-> FALSE]

Lookup(st, d, name) == IF name \in DOMAIN st.ents[d] THEN st.ents[d][name] ELSE NULL

inode_open(st, i) == [st EXCEPT !.cnt[i] = @ + 1]

\* The struct inode is freed and pointers to it dangle; if it was removed, it
\* goes from the device too.
Freed(st, i) ==
  LET s == [st EXCEPT !.cnt[i] = 0, !.removed = @ \ {i},
              !.wd = [p \in Procs |-> IF @[p] = i THEN DANGLING ELSE @[p]],
              !.held = [p \in Procs |-> [@[p] EXCEPT ![DANGLING] = @ + st.held[p][i], ![i] = 0]]]
  IN  IF i \notin st.removed THEN s
      ELSE [s EXCEPT !.live = @ \ {i}, !.dirs = @ \ {i}, !.ents[i] = <<>>]
\* Mutant: a removed inode is freed by the first close.
inode_close_eager(st, i) ==
  IF st.cnt[i] > 1 /\ i \notin st.removed THEN [st EXCEPT !.cnt[i] = @ - 1] ELSE Freed(st, i)
inode_close(st, i) ==
  IF st.cnt[i] > 1 THEN [st EXCEPT !.cnt[i] = @ - 1] ELSE Freed(st, i)

\* The work directory opened once more; without one, the root is opened twice,
\* and one of the two is lost.
dir_open_current(st, p) ==
  IF st.wd[p] = NULL THEN [st |-> inode_open(inode_open(st, ROOT), ROOT), dir |-> ROOT]
  ELSE [st |-> inode_open(st, st.wd[p]), dir |-> st.wd[p]]
\* SYS_CREATE and SYS_CHDIR give a process without one the root to work in.
OpenWorkDir(st, p) ==
  IF st.wd[p] = NULL THEN [inode_open(st, ROOT) EXCEPT !.wd[p] = ROOT] ELSE st

\* One part of a path that is not the last: a directory other than the first
\* is closed once the next is open.
NextPart(x, name) ==
  LET in == Lookup(x.st, x.dir, name)
      s  == inode_open(x.st, in)
  IN  IF ~x.ok \/ in = NULL THEN [x EXCEPT !.ok = FALSE]
      ELSE [x EXCEPT !.st = IF x.own THEN inode_close(s, x.dir) ELSE s,
                     !.dir = in, !.own = TRUE]

\* find_path from directory dir: whether it succeeds, and if so the directory
\* found, whether it was opened for the caller, and the last part.
find_path(st, dir, path) ==
  LET n    == Len(path.parts)
      root == [st |-> inode_open(st, ROOT), ok |-> TRUE, dir |-> ROOT, own |-> TRUE, tail |-> "."]
      from == IF path.abs THEN root
              ELSE [st |-> st, ok |-> TRUE, dir |-> dir, own |-> FALSE, tail |-> "."]
  IN  IF dir \in st.removed THEN [from EXCEPT !.st = st, !.ok = FALSE]
      ELSE IF n = 0 THEN root
      ELSE FoldLeft(NextPart, [from EXCEPT !.tail = path.parts[n]], Front(path.parts))

dir_add(st, d, name, i) == [st EXCEPT !.ents[d] = @ @@ (name :> i)]
\* A new inode, named in directory d, which is opened and closed again.
NewInode(st, d, name, is_dir, ok) ==
  LET i    == IF st.live = Inos THEN NULL ELSE Min(Inos \ st.live)
      s    == inode_open(st, d)
      made == [s EXCEPT !.live = @ \cup {i}, !.dirs = IF is_dir THEN @ \cup {i} ELSE @]
  IN  [ok |-> ok, new |-> i, st |-> inode_close(IF ok THEN dir_add(made, d, name, i) ELSE s, d)]
\* Fails on a full device and, in dir_add, on a name in use.
filesys_create(st, d, name, is_dir) ==
  NewInode(st, d, name, is_dir, st.live # Inos /\ Lookup(st, d, name) = NULL)

\* The names that dir_readdir returns.
RealNames(st, d) == DOMAIN st.ents[d] \ {".", ".."}
Without(f, x) == [y \in DOMAIN f \ {x} |-> f[y]]
Unlink(st, d, name, i) ==
  [inode_open(st, i) EXCEPT !.ents[d] = Without(@, name), !.removed = @ \cup {i}]
\* Mutant: a directory need not be empty.
dir_remove_full(st, d, name) ==
  LET i == Lookup(st, d, name)
  IN  IF i = NULL THEN [ok |-> FALSE, st |-> st]
      ELSE [ok |-> TRUE, st |-> inode_close(Unlink(st, d, name, i), i)]
dir_remove(st, d, name) ==
  LET i == Lookup(st, d, name)
  IN  IF i = NULL \/ (i \in st.dirs /\ RealNames(st, i) # {}) THEN [ok |-> FALSE, st |-> st]
      ELSE [ok |-> TRUE, st |-> inode_close(Unlink(st, d, name, i), i)]
filesys_remove(st, d, name) ==
  LET r == dir_remove(inode_open(st, d), d, name) IN [r EXCEPT !.st = inode_close(@, d)]
-----------------------------------------------------------------------------
State == [cnt |-> cnt, removed |-> removed, ents |-> ents, live |-> live, dirs |-> dirs,
          wd |-> wd, held |-> held, stop |-> stop]
\* The tree: each file that is not removed has one name, and "." and ".." of a
\* directory lead to itself and to the directory that names it; only
\* directories have entries, and no entry leads to a freed inode.
TreeSound(st) ==
  LET at == st.live \ st.removed
      Named(i) == {<<d, n>> \in at \X Names : Lookup(st, d, n) = i}
  IN  /\ ROOT \in at
      /\ \A i \in at \ {ROOT} : Cardinality(Named(i)) = 1
      /\ \A d \in at \ st.dirs : st.ents[d] = <<>>
      /\ \A d \in at \cap st.dirs :
           /\ \A n \in DOMAIN st.ents[d] : st.ents[d][n] \in at
           /\ Lookup(st, d, ".") = d
           /\ IF d = ROOT THEN Lookup(st, d, "..") = d
              ELSE \E n \in Names : <<Lookup(st, d, ".."), n>> \in Named(d)

\* Once the tree is broken the model stops, since what the code then reads as
\* directories is anything.
Becomes(st) ==
  /\ \A i \in Inos : st.cnt[i] <= MaxRefs
  /\ cnt' = st.cnt /\ removed' = st.removed /\ ents' = st.ents /\ live' = st.live
  /\ dirs' = st.dirs /\ wd' = st.wd /\ held' = st.held
  /\ stop' = IF st.stop = "run" /\ ~TreeSound(st) THEN "broken" ELSE st.stop
Wild(st) == [st EXCEPT !.stop = "wild"]

\* A file system call: its handler leaves r.st and returns r.ok.
Call(op, r) ==
  /\ calls < MaxCalls /\ calls' = calls + 1
  /\ Becomes(r.st)
  /\ last' = [op |-> op, ok |-> r.ok]
  /\ UNCHANGED <<alive, ran, starting>>
\* p is in user code: not waiting for a child, not being loaded.
Running(p) ==
  /\ stop = "run" /\ p \in alive /\ p # starting.parent
  /\ p = starting.child => starting.loaded
Ready(p) == Running(p) /\ wd[p] # DANGLING

\* The directory that find_path found is not closed.
SysCreate(p, path) ==
  /\ Ready(p)
  /\ LET st == OpenWorkDir(State, p)
         f  == find_path(st, st.wd[p], path)
     IN  Call("create", IF f.ok THEN filesys_create(f.st, f.dir, f.tail, FALSE)
              ELSE [ok |-> FALSE, st |-> f.st])

\* Whether find_path succeeded is not asked: if not, the directory and the name
\* given to filesys_remove were never set.
SysRemove(p, path) ==
  /\ Ready(p)
  /\ LET c == IF wd[p] = NULL THEN dir_open_current(State, p) ELSE [st |-> State, dir |-> wd[p]]
         f == find_path(c.st, c.dir, path)
     IN  Call("remove", IF f.ok THEN filesys_remove(f.st, f.dir, f.tail)
              ELSE [ok |-> FALSE, st |-> Wild(f.st)])

\* dir_getdirent closes neither the directory it is given nor the one it
\* finds.  A directory is closed at once, a file is held.
SysOpen(p, path) ==
  /\ Ready(p) /\ \A i \in Inos : held[p][i] < MaxOpen
  /\ LET c == dir_open_current(State, p)
         f == find_path(c.st, c.dir, path)
         i == Lookup(f.st, f.dir, f.tail)
         s == inode_open(f.st, i)
     IN  Call("open", IF ~f.ok THEN [ok |-> FALSE, st |-> Wild(f.st)]
              ELSE IF i = NULL THEN [ok |-> FALSE, st |-> f.st]
              ELSE IF i \in dirs THEN [ok |-> TRUE, st |-> inode_close(s, i)]
              ELSE [ok |-> TRUE, st |-> [s EXCEPT !.held[p][i] = @ + 1]])

\* file_close: of a file whose struct inode is gone, freed memory is used.
file_close(st, p, i) ==
  LET s == [st EXCEPT !.held[p][i] = @ - 1]
  IN  IF i = DANGLING THEN Wild(s) ELSE inode_close(s, i)
SysClose(p, i) ==
  /\ Running(p) /\ held[p][i] > 0
  /\ Call("close", [ok |-> TRUE, st |-> file_close(State, p, i)])

\* The old work directory is closed before the new one is looked up.
SysChdir(p, path) ==
  /\ Ready(p)
  /\ LET st == OpenWorkDir(State, p)
         f  == find_path(st, st.wd[p], path)
         same == f.dir = st.wd[p]
         left == IF same THEN f.st
                 ELSE [inode_close(f.st, st.wd[p]) EXCEPT !.wd[p] = DANGLING]
         in == Lookup(left, f.dir, f.tail)
     IN  Call("chdir", IF ~f.ok THEN [ok |-> FALSE, st |-> f.st]
              ELSE IF in = NULL THEN [ok |-> FALSE, st |-> inode_close(left, f.dir)]
              ELSE [ok |-> TRUE,
                    st |-> [inode_close(inode_open(left, in), f.dir) EXCEPT !.wd[p] = in]])

\* A name in use leaves its inode open, and so does a directory made.
SysMkdir(p, path) ==
  /\ Ready(p)
  /\ LET c  == dir_open_current(State, p)
         f  == find_path(c.st, c.dir, path)
         in == Lookup(f.st, f.dir, f.tail)
         r  == filesys_create(f.st, f.dir, f.tail, TRUE)
         s  == inode_open(r.st, r.new)
     IN  Call("mkdir", IF ~f.ok THEN [ok |-> FALSE, st |-> f.st]
              ELSE IF in # NULL
                   THEN [ok |-> FALSE, st |-> inode_close(inode_open(f.st, in), f.dir)]
              ELSE IF ~r.ok THEN [ok |-> FALSE, st |-> inode_close(r.st, f.dir)]
              ELSE [ok |-> TRUE,
                    st |-> inode_close(dir_add(dir_add(s, r.new, "..", f.dir),
                                               r.new, ".", r.new), f.dir)])

\* A call by a process whose work directory is gone reads freed memory.
CallDangling(p) ==
  /\ Running(p) /\ wd[p] = DANGLING
  /\ Call("dangling", [ok |-> FALSE, st |-> Wild(State)])
-----------------------------------------------------------------------------
\* process_execute: the thread is created without a work directory, then
\* set_work_dir gives it the parent's, whose inode is not opened again, then
\* the parent waits for the load.  The child may load, and exit, in between.
process_execute(p, c) ==
  /\ Running(p) /\ starting = NoExec /\ c \notin ran
  /\ alive' = alive \cup {c} /\ ran' = ran \cup {c}
  /\ starting' = [parent |-> p, child |-> c, set |-> FALSE, loaded |-> FALSE]
  /\ last' = [op |-> "exec", ok |-> TRUE]
  /\ UNCHANGED <<cnt, removed, ents, live, dirs, wd, held, stop, calls>>
Started(s) == IF s.set /\ s.loaded THEN NoExec ELSE s

set_work_dir(p, c) ==
  LET gone == wd[p] = DANGLING \/ c \notin alive
  IN  /\ stop = "run" /\ starting.parent = p /\ starting.child = c /\ ~starting.set
      /\ Becomes(IF wd[p] = NULL THEN State
                 ELSE IF gone THEN Wild(State) ELSE [State EXCEPT !.wd[c] = wd[p]])
      /\ starting' = Started([starting EXCEPT !.set = TRUE])
      /\ last' = [op |-> "set_work_dir", ok |-> ~gone]
      /\ UNCHANGED <<alive, ran, calls>>

\* process_exit: the open files and the executable, then the work directory.
CloseAll(st, p) ==
  FoldLeft(LAMBDA s, i : IF s.held[p][i] > 0 THEN file_close(s, p, i) ELSE s, st,
           FlattenSeq(SetToSeq({[n \in 1..st.held[p][i] |-> i] : i \in Inos \cup {DANGLING}})))
Exits(st, p) ==
  LET s == CloseAll(st, p)
      t == [s EXCEPT !.wd[p] = NULL]
  IN  CASE s.wd[p] = NULL -> s
        [] s.wd[p] = DANGLING -> Wild(t)
        [] OTHER -> inode_close(t, s.wd[p])
process_exit(p) ==
  /\ Running(p)
  /\ Becomes(Exits(State, p))
  /\ alive' = alive \ {p}
  /\ last' = [op |-> "exit", ok |-> TRUE]
  /\ UNCHANGED <<ran, starting, calls>>

\* load: filesys_open looks for the executable in the work directory the child
\* has by now.  It stays open until the child exits, at once if it is no
\* program.
load(c, name) ==
  /\ stop = "run" /\ c = starting.child /\ c \in alive /\ ~starting.loaded
  /\ LET d  == dir_open_current(State, c)
         i  == Lookup(d.st, d.dir, name)
         ok == i # NULL /\ i \notin dirs
         s  == IF i = NULL THEN d.st ELSE [inode_open(d.st, i) EXCEPT !.held[c][i] = 1]
         t  == inode_close(s, d.dir)
     IN  /\ Becomes(IF wd[c] = DANGLING THEN Wild(State) ELSE IF ok THEN t ELSE Exits(t, c))
         /\ alive' = IF ok THEN alive ELSE alive \ {c}
         /\ last' = [op |-> "load", ok |-> ok]
  /\ starting' = Started([starting EXCEPT !.loaded = TRUE])
  /\ UNCHANGED <<ran, calls>>

\* do_format: a root with its own entries; one process, without work_dir.
Init ==
  /\ cnt = [i \in Inos |-> 0] /\ removed = {} /\ live = {ROOT} /\ dirs = {ROOT}
  /\ ents = [i \in Inos |-> IF i = ROOT THEN "." :> ROOT @@ ".." :> ROOT ELSE <<>>]
  /\ wd = [p \in Procs |-> NULL]
  /\ held = [p \in Procs |-> [i \in Inos \cup {DANGLING} |-> 0]]
  /\ stop = "run" /\ alive = {1} /\ ran = {1} /\ starting = NoExec /\ calls = 0
  /\ last = [op |-> "format", ok |-> TRUE]

Next == \E p \in Procs :
  \/ \E path \in Paths :
       \/ SysCreate(p, path)
       \/ SysRemove(p, path)
       \/ SysOpen(p, path)
       \/ SysChdir(p, path)
       \/ SysMkdir(p, path)
  \/ \E i \in Inos \cup {DANGLING} : SysClose(p, i)
  \/ CallDangling(p)
  \/ process_exit(p)
  \/ \E c \in Procs : process_execute(p, c) \/ set_work_dir(p, c)
  \/ \E name \in Names : load(p, name)
Spec == Init /\ [][Next]_vars
-----------------------------------------------------------------------------
\* What a path names, by following it part by part.
Resolve(p, path) ==
  LET from == IF path.abs \/ wd[p] = NULL THEN ROOT ELSE wd[p]
  IN  FoldLeft(LAMBDA d, n : IF d = NULL THEN NULL ELSE Lookup(State, d, n), from, path.parts)
Parent(p, path) ==
  Resolve(p, [path EXCEPT !.parts = IF @ = <<>> THEN <<>> ELSE Front(@)])
LastPart(path) == IF path.parts = <<>> THEN "." ELSE Last(path.parts)

\* Counts are of the inodes, entries lead to inodes, and only in-memory inodes
\* are marked removed.
TypeOK ==
  /\ cnt \in [Inos -> 0..MaxRefs] /\ removed \subseteq {i \in live : cnt[i] > 0}
  /\ dirs \subseteq live /\ wd \in [Procs -> Inos \cup {NULL, DANGLING}]
  /\ \A i \in Inos : i \notin live => ents[i] = <<>>

\* The tree stays sound, whatever calls are made in whatever order, but for two
\* that nothing stops: removing "." or ".." (dir_remove has no check of the
\* name) and creating an entry under a regular file (find_path takes any inode
\* for a directory).
TreeBrokenOnlyBy ==
  [][stop' = "broken" => \E p \in Procs, path \in Paths :
       \/ SysRemove(p, path) /\ LastPart(path) \in {".", ".."}
       \/ (SysCreate(p, path) \/ SysMkdir(p, path)) /\ Parent(p, path) \notin dirs]_vars

\* Calls do what they return: a create or mkdir that succeeds names a new file
\* by the path, which named nothing; a remove that succeeds takes a name away; a
\* chdir that succeeds goes where the path leads; a call that fails changes no
\* directory.
CallsAsReturned ==
  [][stop' = "run" =>
       /\ ~last'.ok /\ last'.op \notin {"load", "set_work_dir"} => ents' = ents /\ live' = live
       /\ last'.ok /\ last'.op \in {"create", "mkdir"} => \E p \in Procs, path \in Paths :
            /\ (last'.op = "create" /\ SysCreate(p, path)) \/ (last'.op = "mkdir" /\ SysMkdir(p, path))
            /\ Resolve(p, path) = NULL /\ Resolve(p, path)' \in live' \ live
       /\ last'.ok /\ last'.op = "remove" => \E p \in Procs, path \in Paths :
            /\ SysRemove(p, path) /\ Resolve(p, path) # NULL
            /\ LastPart(path) \notin DOMAIN ents'[Parent(p, path)]
       /\ last'.ok /\ last'.op = "chdir" => \E p \in Procs, path \in Paths :
            SysChdir(p, path) /\ wd'[p] = Resolve(p, path)]_vars

\* How many references are held to an in-memory inode by what processes have.
Holders(i) ==
  Cardinality({p \in Procs : wd[p] = i}) + FoldSet(LAMBDA p, n : n + held[p][i], 0, Procs)
Short(i) == cnt[i] < Holders(i)
Lost(i) == IF Short(i) THEN 0 ELSE cnt[i] - Holders(i)

\* An inode comes to be held more often than it is counted in two places only:
\* the child of an exec shares its parent's directory (set_work_dir), and a
\* chdir that fails has closed the directory the process stays in.
ShortOnlyBy ==
  [][(\E i \in Inos : ~Short(i) /\ Short(i)') =>
       last'.op = "set_work_dir" \/ (last'.op = "chdir" /\ ~last'.ok)]_vars

\* What a process has open or works in is freed under it only after one of
\* those two, whoever removes, closes or exits in between: otherwise a file that
\* is open keeps its place on the device.
FreedOnlyAfter ==
  [][(\E p \in Procs : (wd'[p] = DANGLING /\ wd[p] # DANGLING)
                       \/ held'[p][DANGLING] > held[p][DANGLING]) =>
       (\E i \in Inos : Short(i)) \/ (last'.op = "chdir" /\ ~last'.ok)]_vars

\* Freed or unset memory is used in these cases only: a remove or an open in a
\* removed directory or through a part that does not exist; anything by a
\* process whose directory or file was freed, or is freed as it exits; and a
\* set_work_dir after the child is gone.
WildOnlyBy ==
  [][stop' = "wild" =>
       \/ /\ last'.op \in {"remove", "open"}
          /\ \E p \in Procs, path \in Paths :
               /\ SysRemove(p, path) \/ SysOpen(p, path)
               /\ wd[p] \in removed \/ Parent(p, path) = NULL
       \/ \E p \in alive : wd[p] = DANGLING \/ held[p][DANGLING] > 0
       \/ last'.op \in {"exit", "load"} /\ \E i \in Inos : Short(i)
       \/ last'.op = "set_work_dir" /\ starting.child \notin alive]_vars

\* A regular file is left open for ever, its place never to be reused, only by
\* a mkdir of its name and by a call that takes it for a directory, to work in
\* or to look in.
LeakedOnlyBy ==
  [][\A i \in live \ dirs : Lost(i)' > Lost(i) =>
       \/ \E p \in Procs : wd[p] = i
       \/ \E p \in Procs, path \in Paths :
            /\ last'.op \in {"create", "remove", "open", "chdir", "mkdir"} /\ Ready(p)
            /\ Parent(p, path) = i \/ (SysMkdir(p, path) /\ Resolve(p, path) = i)]_vars

\* The program is looked for where the parent is, unless the child ran ahead of
\* set_work_dir: then in the root.
LoadedFrom ==
  [][last'.op = "load" /\ stop' # "wild" =>
       LET up == wd[starting.parent]
           d  == IF up = NULL \/ ~starting.set THEN ROOT ELSE up
       IN  \E n \in Names : LET i == Lookup(State, d, n)
                            IN  /\ last'.ok = (i # NULL /\ i \notin dirs)
                                /\ last'.ok => held'[starting.child][i] = 1]_vars
=============================================================================
