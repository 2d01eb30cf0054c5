------------------------------- MODULE FdTable ------------------------------
(***************************************************************************)
(* Open files: the descriptors of userprog/syscall.c, the struct files of  *)
(* filesys/file.c and the counts they keep in in-memory inodes.  Each      *)
(* process has its open_list, in the order files were opened, and its      *)
(* fd_count.  A descriptor of a directory has no struct file until         *)
(* SYS_READDIR gives it a struct dir.  Files are found by name in          *)
(* Directories and stored by Inode; here a file is what its length is and  *)
(* how often it was written.  Calls are atomic.                            *)
(*                                                                         *)
(* stop is "panic" after a failed ASSERT or a fault in the kernel, "wild"  *)
(* once something that is no file_info is used as one.                     *)
(***************************************************************************)
EXTENDS Integers, Sequences, FiniteSets

CONSTANTS Proc,      \* processes
          File,      \* regular files
          Dir,       \* directories
          MaxFd,     \* bound on fd_count
          MaxLength  \* bound on lengths and positions

Ino == File \cup Dir
NONE == 0            \* no file
BOGUS == -1          \* what files_helper finds in place of an entry

VARIABLES open_list, \* of each process: entries [fd, ino, file, pos]
          fd_count,  \* of each process: the last descriptor given out
          exec_file, \* of each process: what it runs, NONE if it does not
          opens,     \* of each inode: open_cnt, of struct files and dirs
          deny,      \* of each inode: deny_write_cnt
          length,    \* of each inode
          version,   \* of each inode: how often it was written, mod 2
          stop
vars == <<open_list, fd_count, exec_file, opens, deny, length, version, stop>>

\* files_helper walks a copy of the list head, so it never meets the end it
\* compares with.  It stops at an entry with the descriptor, or one that is
\* not below fd_count, and else at the real tail.  Read as a file_info the tail
\* has fd_count for its descriptor, the field before open_list.
StopsAt(p, fd) ==
  {i \in 1..Len(open_list[p]) : open_list[p][i].fd = fd \/ open_list[p][i].fd >= fd_count[p]}
\* Mutant: it gives up at an entry just below fd_count.
files_helper_early(p, fd) ==
  LET at == {i \in 1..Len(open_list[p]) :
               open_list[p][i].fd = fd \/ open_list[p][i].fd >= fd_count[p] - 1}
  IN  IF at = {} THEN IF fd = fd_count[p] THEN BOGUS ELSE NONE
      ELSE LET i == CHOOSE i \in at : \A j \in at : i <= j
           IN  IF open_list[p][i].fd = fd THEN i ELSE NONE
files_helper(p, fd) ==
  IF StopsAt(p, fd) = {} THEN IF fd = fd_count[p] THEN BOGUS ELSE NONE
  ELSE LET i == CHOOSE i \in StopsAt(p, fd) : \A j \in StopsAt(p, fd) : i <= j
       IN  IF open_list[p][i].fd = fd THEN i ELSE NONE
-----------------------------------------------------------------------------
Runs(p) == stop = "run" /\ exec_file[p] # NONE
Stops(how) ==
  /\ stop' = how
  /\ UNCHANGED <<open_list, fd_count, exec_file, opens, deny, length, version>>

\* file_open, file_close, file_deny_write, file_allow_write: what they do to the
\* counts of an inode.
file_open(o, i) == [o EXCEPT ![i] = @ + 1]
file_close(o, i) == [o EXCEPT ![i] = @ - 1]
file_deny_write(d, i) == [d EXCEPT ![i] = @ + 1]
file_allow_write(d, i) == [d EXCEPT ![i] = @ - 1]

\* The entries without the i-th: list_remove.
Without(s, i) == [j \in 1..(Len(s) - 1) |-> IF j < i THEN s[j] ELSE s[j + 1]]

find_fd(p) == fd_count[p] + 1
\* create_files_struct, for the file or directory i.
create_files_struct(p, i) == [fd |-> find_fd(p), ino |-> i, file |-> i \in File, pos |-> 0]
\* SYS_OPEN.  The file of a directory is closed at once.
sys_open(p, i) ==
  /\ Runs(p) /\ fd_count[p] < MaxFd
  /\ fd_count' = [fd_count EXCEPT ![p] = find_fd(p)]
  /\ open_list' = [open_list EXCEPT ![p] = Append(@, create_files_struct(p, i))]
  /\ opens' = IF i \in File THEN file_open(opens, i) ELSE opens
  /\ UNCHANGED <<exec_file, deny, length, version, stop>>

\* SYS_CLOSE: the last descriptor is given out again.
sys_close(p, fd) ==
  LET i == files_helper(p, fd)
      f == open_list[p][i]
  IN  /\ Runs(p) /\ i # NONE
      /\ IF i = BOGUS THEN Stops("panic")
         ELSE /\ fd_count' = [fd_count EXCEPT ![p] = IF fd = @ THEN @ - 1 ELSE @]
              /\ open_list' = [open_list EXCEPT ![p] = Without(@, i)]
              /\ opens' = IF f.file THEN file_close(opens, f.ino) ELSE opens
              /\ UNCHANGED <<exec_file, deny, length, version, stop>>

Moved(p, i, pos) ==
  /\ open_list' = [open_list EXCEPT ![p][i].pos = pos]
  /\ UNCHANGED <<fd_count, exec_file, opens, deny, stop>>

\* read and file_read, from where the file is; not of a directory.
sys_read(p, fd, size) ==
  LET i == files_helper(p, fd)
      f == open_list[p][i]
      left == length[f.ino] - f.pos
  IN  /\ Runs(p) /\ i # NONE
      /\ IF i = BOGUS THEN Stops("wild")
         ELSE /\ f.ino \in File
              /\ Moved(p, i, IF left < 0 THEN f.pos
                             ELSE f.pos + (IF size < left THEN size ELSE left))
              /\ UNCHANGED <<length, version>>

\* write and file_write: nothing while writes are denied, else the file grows
\* as far as needed.
sys_write(p, fd, size) ==
  LET i == files_helper(p, fd)
      f == open_list[p][i]
      end == f.pos + size
  IN  /\ Runs(p) /\ i # NONE
      /\ IF i = BOGUS THEN Stops("wild")
         ELSE /\ f.ino \in File /\ deny[f.ino] = 0 /\ end <= MaxLength
              /\ Moved(p, i, end)
              /\ length' = [length EXCEPT ![f.ino] = IF end > @ THEN end ELSE @]
              /\ version' = [version EXCEPT ![f.ino] = 1 - @]

\* SYS_SEEK, SYS_TELL, SYS_FILESIZE: of a directory without a struct file, and
\* to a negative position, an ASSERT fails.
sys_seek(p, fd, pos) ==
  LET i == files_helper(p, fd)
  IN  /\ Runs(p) /\ i # NONE
      /\ IF i = BOGUS \/ pos < 0 THEN Stops("panic")
         ELSE IF ~open_list[p][i].file THEN Stops("panic")
         ELSE Moved(p, i, pos) /\ UNCHANGED <<length, version>>
sys_tell(p, fd) ==
  LET i == files_helper(p, fd)
  IN  /\ Runs(p) /\ i # NONE
      /\ IF i = BOGUS THEN TRUE ELSE ~open_list[p][i].file
      /\ Stops("panic")

\* SYS_READDIR: a directory is opened the first time; entries are read from
\* where it is.  Nobody asks whether the descriptor is open.
sys_readdir(p, fd) ==
  LET i == files_helper(p, fd)
      f == open_list[p][i]
  IN  /\ Runs(p)
      /\ CASE i = BOGUS -> Stops("wild")
           [] i = NONE  -> Stops("panic")
           [] OTHER ->
                \E pos \in f.pos..MaxLength :
                  /\ pos <= length[f.ino] \/ pos = f.pos
                  /\ open_list' = [open_list EXCEPT ![p][i] = [f EXCEPT !.file = TRUE, !.pos = pos]]
                  /\ opens' = IF f.file THEN opens ELSE file_open(opens, f.ino)
                  /\ UNCHANGED <<fd_count, exec_file, deny, length, version, stop>>
\* SYS_ISDIR, SYS_INUMBER
sys_isdir(p, fd) ==
  LET i == files_helper(p, fd)
  IN  /\ Runs(p)
      /\ \/ i = NONE /\ Stops("panic")
         \/ i = BOGUS /\ Stops("wild")
-----------------------------------------------------------------------------
\* load: the executable is opened and may not be written.
load(p, i) ==
  /\ stop = "run" /\ exec_file[p] = NONE
  /\ exec_file' = [exec_file EXCEPT ![p] = i]
  /\ opens' = file_open(opens, i)
  /\ deny' = file_deny_write(deny, i)
  /\ UNCHANGED <<open_list, fd_count, length, version, stop>>

\* clear_all_file and process_exit: the structs that are closed.
Closed(p, i) == Cardinality({j \in 1..Len(open_list[p]) : open_list[p][j].ino = i /\ open_list[p][j].file})
exit(p) ==
  /\ Runs(p)
  /\ opens' = [i \in Ino |-> opens[i] - Closed(p, i) - (IF i = exec_file[p] THEN 1 ELSE 0)]
  /\ deny' = file_allow_write(deny, exec_file[p])
  /\ exec_file' = [exec_file EXCEPT ![p] = NONE]
  /\ open_list' = [open_list EXCEPT ![p] = <<>>]
  /\ fd_count' = [fd_count EXCEPT ![p] = 3]
  /\ UNCHANGED <<length, version, stop>>
\* Every struct is closed by file_close, a struct dir too, which has no
\* deny_write: what is read in its place may say that writes were denied, and
\* the ASSERT of inode_allow_write fails.
exit_allows(p) ==
  /\ Runs(p) /\ \E i \in Dir : Closed(p, i) > 0
  /\ Stops("panic")

Init ==
  /\ open_list = [p \in Proc |-> <<>>] /\ fd_count = [p \in Proc |-> 3]
  /\ exec_file = [p \in Proc |-> NONE]
  /\ opens = [i \in Ino |-> 0] /\ deny = [i \in Ino |-> 0]
  /\ length \in [Ino -> {1}] /\ version = [i \in Ino |-> 0] /\ stop = "run"

Next == \E p \in Proc :
  \/ \E i \in Ino : sys_open(p, i)
  \/ \E i \in File : load(p, i)
  \/ \E fd \in 2..MaxFd :
       \/ sys_close(p, fd)
       \/ sys_read(p, fd, 1)
       \/ sys_write(p, fd, 1)
       \/ \E pos \in -1..MaxLength : sys_seek(p, fd, pos)
       \/ sys_tell(p, fd)
       \/ sys_readdir(p, fd)
       \/ sys_isdir(p, fd)
  \/ exit(p)
  \/ exit_allows(p)
Spec == Init /\ [][Next]_vars
-----------------------------------------------------------------------------
Entry == [fd : 4..MaxFd, ino : Ino, file : BOOLEAN, pos : 0..MaxLength]

\* Entries have descriptors from 4 on; counts are not negative.
TypeOK ==
  /\ open_list \in [Proc -> Seq(Entry)]
  /\ fd_count \in [Proc -> 3..MaxFd] /\ exec_file \in [Proc -> File \cup {NONE}]
  /\ opens \in [Ino -> Nat] /\ deny \in [Ino -> Nat]
  /\ length \in [Ino -> 0..MaxLength] /\ version \in [Ino -> {0, 1}]
  /\ stop \in {"run", "panic", "wild"}

\* However files are opened and closed, with the last descriptor given out
\* again and the others not, the list stays in the order of its descriptors and
\* fd_count is not below any: find_fd never gives out one in use, and the early
\* return of files_helper misses none.
FdsAscending ==
  \A p \in Proc : LET s == open_list[p]
                  IN  /\ \A i, j \in 1..Len(s) : i < j => s[i].fd < s[j].fd
                      /\ \A i \in 1..Len(s) : 4 <= s[i].fd /\ s[i].fd <= fd_count[p]

\* files_helper finds the entry of each open descriptor and nothing for any
\* other but one: fd_count itself, when it was never opened or closed before
\* one above it.  Then the tail of the list is taken for an entry.
LookupExact ==
  \A p \in Proc, fd \in 2..(MaxFd + 1) :
    LET i == files_helper(p, fd)
        has == {j \in 1..Len(open_list[p]) : open_list[p][j].fd = fd}
    IN  /\ has # {} => has = {i}
        /\ has = {} => i = (IF fd = fd_count[p] THEN BOGUS ELSE NONE)

Opened(i) == {x \in Proc \X (1..MaxFd) :
                LET s == open_list[x[1]]
                IN  x[2] <= Len(s) /\ s[x[2]].ino = i /\ s[x[2]].file}
Executing(i) == {p \in Proc : exec_file[p] = i}

\* open_cnt is the number of struct files and dirs there are of the inode, and
\* deny_write_cnt the number of processes that run it, so that the ASSERTs of
\* inode_deny_write and inode_allow_write hold; none is lost when descriptors are
\* closed in any order or all at once by an exit.
CountsExact ==
  \A i \in Ino : /\ opens[i] = Cardinality(Opened(i)) + Cardinality(Executing(i))
                 /\ deny[i] = Cardinality(Executing(i)) /\ deny[i] <= opens[i]

\* What a process runs is not written while it runs, by whatever descriptor
\* opened before or after it started, and whoever else stops running it.
ExecutableUnchanged ==
  [][\A p \in Proc : exec_file[p] # NONE /\ exec_file'[p] = exec_file[p] =>
       LET i == exec_file[p] IN version'[i] = version[i] /\ length'[i] = length[i]]_vars

\* The kernel stops only on these: a call on fd_count when it is not open,
\* readdir, isdir and inumber on what is not open, seek, tell and filesize on a
\* directory not yet read, a negative seek, and an exit with a directory read.
StopsOnlyBy ==
  [][stop' # "run" => \A p \in Proc, fd \in 2..MaxFd :
       LET has    == {j \in 1..Len(open_list[p]) : open_list[p][j].fd = fd}
           unread == \E j \in has : open_list[p][j].ino \in Dir /\ ~open_list[p][j].file
           tail   == has = {} /\ fd = fd_count[p]
       IN  /\ sys_close(p, fd) \/ sys_read(p, fd, 1) \/ sys_write(p, fd, 1) => tail
           /\ sys_tell(p, fd) => tail \/ unread
           /\ \A pos \in -1..MaxLength : sys_seek(p, fd, pos) => tail \/ unread \/ pos < 0
           /\ sys_readdir(p, fd) \/ sys_isdir(p, fd) => has = {}
           /\ exit_allows(p) => \E j \in 1..Len(open_list[p]) :
                                  open_list[p][j].ino \in Dir /\ open_list[p][j].file]_vars
=============================================================================
