------------------------------ MODULE MCDevices -----------------------------
(***************************************************************************)
(* Threads and interrupts at the page allocator (Palloc), the console's    *)
(* lock (Console) and queues (Serial), and the disk (Ide).  They share no  *)
(* state; unit says which of them runs.                                    *)
(***************************************************************************)
EXTENDS Palloc, Sequences

CONSTANTS Readers, Writers, BUFSIZE,           \* of Serial
          DiskUsers, Disks, MaxCalls, MaxWild, \* of Ide
          Printers, LEN, MaxDepth              \* of Console

VARIABLES unit,
          txq, inq, waiter, qlock, spc, mode, ier, thre, rx, nput, nsent, nkey, ngot, sstop,
          call, ilock, sema, expecting_interrupt, reg, hw, irq, disk, read_cnt, last, calls,
          reads, wild, fault, istop,
          console_lock, console_lock_depth, use_console_lock, frames, printed, level, panicking, off
svars == <<txq, inq, waiter, qlock, spc, mode, ier, thre, rx, nput, nsent, nkey, ngot, sstop>>
ivars == <<call, ilock, sema, expecting_interrupt, reg, hw, irq, disk, read_cnt, last, calls,
           reads, wild, fault, istop>>
cvars == <<console_lock, console_lock_depth, use_console_lock, frames, printed, level, panicking, off>>
allvars == <<unit, vars, svars, ivars, cvars>>

S == INSTANCE Serial WITH Reader <- Readers, Writer <- Writers, NUMBERS <- BUFSIZE + 1,
                          pc <- spc, stop <- sstop
I == INSTANCE Ide WITH Thread <- DiskUsers, Disk <- Disks, SIZE <- 1, lock <- ilock, stop <- istop
C == INSTANCE Console WITH Thread <- Printers

MCInit == unit \in {"pages", "serial", "disk", "console"} /\ Init /\ S!Init /\ I!Init /\ C!Init
MCNext ==
  \/ unit = "pages"  /\ Next   /\ UNCHANGED <<unit, svars, ivars, cvars>>
  \/ unit = "serial" /\ S!Next /\ UNCHANGED <<unit, vars, ivars, cvars>>
  \/ unit = "disk"   /\ I!Next /\ UNCHANGED <<unit, vars, svars, cvars>>
  \/ unit = "console" /\ C!Next /\ UNCHANGED <<unit, vars, svars, ivars>>
\* The fairness of Palloc, Serial, Ide and Console, each while its unit runs.
MCFairness ==
  /\ \A t \in Thread : WF_vars(unit = "pages" /\ InCall(t))
  /\ WF_svars(unit = "serial" /\ S!Sent) /\ WF_svars(unit = "serial" /\ S!serial_interrupt)
  /\ \A t \in Writers : WF_svars(unit = "serial" /\ spc[t] = "woken" /\ S!Write(t))
  /\ WF_ivars(unit = "disk" /\ I!interrupt_handler)
  /\ WF_ivars(unit = "disk" /\ I!Ready) /\ WF_ivars(unit = "disk" /\ I!Stored)
  /\ \A t \in DiskUsers : /\ WF_ivars(unit = "disk" /\ I!Drive(t))
                          /\ WF_ivars(unit = "disk" /\ I!Acquire(t))
  /\ \A t \in Printers : /\ WF_cvars(unit = "console" /\ C!Output(t))
                         /\ WF_cvars(unit = "console" /\ C!acquire_console(t))
MCSpec == MCInit /\ [][MCNext]_allvars /\ MCFairness
-----------------------------------------------------------------------------
\* Bytes are sent and read in order, each once; a thread that waits for a queue is
\* registered and what it waits for is not there; the serial port interrupts
\* while there is output, and for input exactly while there is room.
SerialRight == unit = "serial" => S!TypeOK /\ S!InOrder /\ S!WaitersRight /\ S!IerRight

\* ide_read returns what was last written, whatever interrupts come; ide_write
\* returns after the disk has the data, but for wild interrupts; read_cnt is
\* never above the reads done.
DiskRight ==
  unit = "disk" => I!TypeOK /\ I!ReadsLatest /\ I!WritesAcknowledged /\ I!CountsBounded

\* The console's lock is held by the thread that prints, its depth counts the
\* calls made in a call, and the output of two threads is not mixed, but for a
\* panic.
ConsoleRight == unit = "console" => C!LockRight /\ C!LinesUnmixed

\* The ASSERT in intq.c's wait fails only with two readers, and the disk driver
\* panics only past the end of a disk or on a failed command.
PanicsOnlyBy == S!PanicOnlyByTwo /\ I!PanicsOnlyBy

\* Nothing waits for ever: a call of palloc that has the pool's lock ends, what is
\* printed is sent and a thread that waits for room in the output queue goes
\* on, every call of the disk driver returns, a call that has the console's
\* lock releases it, and a panic gets its message out whoever has the lock.
AllEnd ==
  /\ CallsEnd /\ S!Drains /\ S!WritersEnd /\ I!CallsReturn
  /\ C!PrintingEnds /\ C!PanicEnds
=============================================================================
