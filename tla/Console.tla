------------------------------- MODULE Console ------------------------------
(***************************************************************************)
(* lib/kernel/console.c: threads that print, the console lock that keeps   *)
(* their output apart, and debug_panic, which prints whoever has the lock. *)
(* A thread may be preempted between any two steps, and may print while it *)
(* prints.                                                                 *)
(*                                                                         *)
(* Of the output on a device only its last thread is kept.  Interrupt      *)
(* handlers print in the middle of anything, without the lock and within   *)
(* one step of a thread; they and the statistic write_cnt are left out.    *)
(***************************************************************************)
EXTENDS Integers, Sequences, FiniteSets, SequencesExt

CONSTANTS Thread,
          LEN,      \* characters in a call
          MaxDepth  \* bound: calls in progress in a thread; each makes one nested call

NONE == 0
VARIABLES console_lock,   \* the thread that holds it
          console_lock_depth, use_console_lock,
          frames,         \* of each thread: its calls in progress, the innermost last
          printed,        \* on each device: the thread that printed last
          level,          \* of debug_panic
          panicking,      \* the thread in debug_panic, then the only one to run
          off
vars == <<console_lock, console_lock_depth, use_console_lock, frames, printed, level, panicking, off>>
locks == <<console_lock, console_lock_depth, use_console_lock>>
panics == <<level, panicking, off>>

Runs(t) == ~off /\ panicking \in {NONE, t}
Top(t) == Last(frames[t])
At(t, at) == Runs(t) /\ frames[t] # <<>> /\ Top(t).at = at
Goto(t, at, left) ==
  frames' = [frames EXCEPT ![t][Len(frames[t])] = [Top(t) EXCEPT !.at = at, !.left = left]]
Running(t) == Runs(t) /\ (frames[t] # <<>> => Top(t).at # "acquire")
Frame(panic) == [at |-> "acquire", left |-> LEN, panic |-> panic, nested |-> FALSE]
-----------------------------------------------------------------------------
\* vprintf, puts, putbuf or putchar is called.
Call(t) ==
  /\ Runs(t) /\ frames[t] = <<>>
  /\ frames' = [frames EXCEPT ![t] = <<Frame(FALSE)>>]
  /\ UNCHANGED <<locks, printed, panics>>
\* It is called in the middle of a call in progress (an interrupt in serial_putc
\* ends in a switch of threads that prints).
CallNested(t) ==
  /\ At(t, "serial") \/ At(t, "vga")
  /\ Len(frames[t]) < MaxDepth /\ ~Top(t).nested
  /\ frames' = [frames EXCEPT ![t] = Append(Front(@), [Top(t) EXCEPT !.nested = TRUE]) \o <<Frame(FALSE)>>]
  /\ UNCHANGED <<locks, printed, panics>>
acquire_console(t) ==
  /\ At(t, "acquire") /\ Goto(t, "serial", LEN)
  /\ \/ ~use_console_lock /\ UNCHANGED locks
     \/ /\ use_console_lock /\ console_lock = t
        /\ console_lock_depth' = console_lock_depth + 1
        /\ UNCHANGED <<console_lock, use_console_lock>>
     \/ /\ use_console_lock /\ console_lock = NONE /\ console_lock' = t
        /\ UNCHANGED <<console_lock_depth, use_console_lock>>
  /\ UNCHANGED <<printed, panics>>
\* The two halves of putchar_have_lock: serial_putc and vga_putc, each with
\* interrupts off.
PutSerial(t) ==
  /\ At(t, "serial") /\ Goto(t, "vga", Top(t).left)
  /\ printed' = [printed EXCEPT !.serial = t]
  /\ UNCHANGED <<locks, panics>>
PutVga(t) ==
  /\ At(t, "vga") /\ Goto(t, IF Top(t).left = 1 THEN "release" ELSE "serial", Top(t).left - 1)
  /\ printed' = [printed EXCEPT !.vga = t]
  /\ UNCHANGED <<locks, panics>>
\* Mutant: the lock is released by a nested call.
Nested_never == FALSE
\* Whether release_console leaves the lock with its holder.
Nested == console_lock_depth > 0
\* release_console.  What debug_panic prints is the end.
release_console(t) ==
  /\ At(t, "release")
  /\ frames' = [frames EXCEPT ![t] = Front(@)]
  /\ IF ~use_console_lock THEN UNCHANGED <<console_lock, console_lock_depth>>
     ELSE IF Nested
     THEN console_lock_depth' = console_lock_depth - 1 /\ UNCHANGED console_lock
     ELSE console_lock' = NONE /\ UNCHANGED console_lock_depth
  /\ off' = Top(t).panic
  /\ UNCHANGED <<use_console_lock, printed, level, panicking>>
console_panic == use_console_lock' = FALSE
\* debug_panic, also by a thread that is in it already: it turns interrupts off
\* and prints, but the third time, and the machine stops.  Calls that never go
\* on are forgotten.
debug_panic(t) ==
  /\ Running(t) /\ level < 3
  /\ level' = level + 1 /\ panicking' = t
  /\ console_panic
  /\ IF level' < 3 THEN frames' = [u \in Thread |-> IF u = t THEN <<Frame(TRUE)>> ELSE <<>>] /\ UNCHANGED off
     ELSE off' = TRUE /\ UNCHANGED frames
  /\ UNCHANGED <<console_lock, console_lock_depth, printed>>

\* After console_init; before it no lock is used and no thread is switched.
Init ==
  /\ console_lock = NONE /\ console_lock_depth = 0 /\ use_console_lock = TRUE
  /\ frames = [t \in Thread |-> <<>>] /\ printed = [serial |-> NONE, vga |-> NONE]
  /\ level = 0 /\ panicking = NONE /\ off = FALSE
Output(t) == PutSerial(t) \/ PutVga(t) \/ release_console(t)
Next == \E t \in Thread : Call(t) \/ CallNested(t) \/ acquire_console(t) \/ Output(t) \/ debug_panic(t)
\* A thread that can go on does.  Nothing gives the lock to a particular waiter.
Fairness == \A t \in Thread : WF_vars(Output(t)) /\ WF_vars(acquire_console(t))
Spec == Init /\ [][Next]_vars /\ Fairness
-----------------------------------------------------------------------------
Acquired(t) == {i \in DOMAIN frames[t] : frames[t][i].at # "acquire"}
\* The lock is held by the one thread that prints, however deep, and the depth
\* counts its calls but the outermost; so the ASSERT in putchar_have_lock holds.
LockRight ==
  use_console_lock =>
    /\ \A t \in Thread : console_lock = t <=> Acquired(t) # {}
    /\ console_lock_depth = IF console_lock = NONE THEN 0 ELSE Cardinality(Acquired(console_lock)) - 1

\* Without a panic the output of two threads is not mixed: on neither device has
\* another thread printed since the first character of a call in progress.
LinesUnmixed ==
  level = 0 =>
    \A t \in Thread : \A i \in DOMAIN frames[t] :
      LET f == frames[t][i]
      IN  /\ f.left < LEN => printed.vga = t
          /\ f.left < LEN \/ f.at = "vga" => printed.serial = t

\* A call that has the lock ends, those made in it included, and the lock is
\* released for the next thread, unless the kernel panics.
PrintingEnds ==
  /\ \A t \in Thread : Acquired(t) # {} ~> Acquired(t) = {} \/ level > 0
  /\ console_lock # NONE ~> console_lock = NONE \/ level > 0

\* A panic gets its message out and stops the machine, whoever has the lock.
PanicEnds == level > 0 ~> off
=============================================================================
