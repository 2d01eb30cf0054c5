-------------------------------- MODULE Serial ------------------------------
(***************************************************************************)
(* The interrupt-driven queues: devices/intq.c, the serial port's use of   *)
(* one for output (devices/serial.c) and the input buffer of keyboard and  *)
(* serial port (devices/input.c).  A step runs with interrupts off, up to  *)
(* where its thread blocks; interrupts come between steps.                 *)
(*                                                                         *)
(* Bytes are numbered in the order they are put in a queue, modulo         *)
(* NUMBERS, more than a queue holds.  The UART is external: its transmit   *)
(* register is empty or not, its receive register has a byte or not, and   *)
(* it interrupts as the interrupt enable register lets it.                 *)
(***************************************************************************)
EXTENDS Integers, Sequences, FiniteSets

CONSTANTS Reader,  \* threads that call input_getc
          Writer,  \* threads that print with interrupts on
          BUFSIZE, \* INTQ_BUFSIZE, 64
          NUMBERS  \* byte numbers are 0 .. NUMBERS - 1

NONE == 0
VARIABLES txq, inq,      \* the two queues, oldest byte first
          waiter,        \* of each queue: not_full of txq, not_empty of buffer
          qlock,         \* of each queue: who holds its lock
          pc,            \* of each thread
          mode, ier,     \* of the serial port: its mode, the interrupts enabled
          thre, rx,      \* the UART: transmit register empty, byte received
          nput, nsent,   \* the numbers of the next byte printed and sent
          nkey, ngot,    \* and of the next byte typed and read
          stop
vars == <<txq, inq, waiter, qlock, pc, mode, ier, thre, rx, nput, nsent, nkey, ngot, stop>>
queues == <<txq, inq>>
uart == <<mode, ier, thre, rx>>

Next1(n) == (n + 1) % NUMBERS
intq_full(q) == Len(q) = BUFSIZE - 1

\* write_ier, once the queues are t and i.
Ier(t, i) == (IF t # <<>> THEN {"XMIT"} ELSE {}) \cup (IF ~intq_full(i) THEN {"RECV"} ELSE {})
\* serial_notify
serial_notify(t, i) == ier' = IF mode = "QUEUE" THEN Ier(t, i) ELSE ier

\* Mutant: signal forgets the waiter without waking it.
Woken_not(q, p) == p
\* signal: the thread that waits on q, if any, is ready again.
Woken(q, p) == [t \in DOMAIN p |-> IF t = waiter[q] THEN "woken" ELSE p[t]]
signal(q) == waiter' = [waiter EXCEPT ![q] = NONE]
\* Mutant: the queue must be empty, also for a thread that waits for room.
wait_empty(q, t, p, blocked) ==
  IF blocked /\ (IF q = "in" THEN inq ELSE txq) = <<>>
  THEN /\ waiter' = [waiter EXCEPT ![q] = t] /\ pc' = [p EXCEPT ![t] = "wait"] /\ UNCHANGED stop
  ELSE stop' = "panic" /\ UNCHANGED <<waiter, pc>>
\* wait, by a thread that holds the lock: it must have something to wait for.
wait(q, t, p, blocked) ==
  IF blocked THEN /\ waiter' = [waiter EXCEPT ![q] = t] /\ pc' = [p EXCEPT ![t] = "wait"]
                  /\ UNCHANGED stop
  ELSE stop' = "panic" /\ UNCHANGED <<waiter, pc>>
\* A thread that cannot go on: it takes the lock and waits, or waits for the lock.
Blocks(q, t, blocked) ==
  IF qlock[q] \in {NONE, t}
  THEN qlock' = [qlock EXCEPT ![q] = t] /\ wait(q, t, pc, blocked)
  ELSE pc' = [pc EXCEPT ![t] = "lock"] /\ UNCHANGED <<qlock, waiter, stop>>
\* One that goes on has released the lock, if it had it.
GoesOn(q, t) == qlock' = [qlock EXCEPT ![q] = IF @ = t THEN NONE ELSE @]
Starts(t) == stop = "run" /\ pc[t] \in {"idle", "woken"}
-----------------------------------------------------------------------------
\* input_getc, from its start or from the return of wait: a byte if there is
\* one, else it waits (again).
input_getc(t) ==
  /\ Starts(t)
  /\ IF inq = <<>> THEN Blocks("in", t, TRUE) /\ UNCHANGED <<queues, uart, ngot>>
     ELSE /\ inq' = Tail(inq) /\ ngot' = Next1(ngot) /\ serial_notify(txq, inq')
          /\ GoesOn("in", t) /\ pc' = [pc EXCEPT ![t] = "idle"]
          /\ UNCHANGED <<txq, waiter, mode, thre, rx, stop>>
  /\ UNCHANGED <<nput, nsent, nkey>>
\* lock_acquire returns, and wait asserts that the queue is still empty.
LockAcquired(t) ==
  /\ stop = "run" /\ pc[t] = "lock" /\ qlock["in"] = NONE
  /\ qlock' = [qlock EXCEPT !["in"] = t]
  /\ wait("in", t, pc, inq = <<>>)
  /\ UNCHANGED <<queues, uart, nput, nsent, nkey, ngot>>

\* input_putc: the byte, signal, serial_notify.  p is what pc would be.
input_putc(p) ==
  /\ inq' = Append(inq, nkey) /\ nkey' = Next1(nkey)
  /\ pc' = Woken("in", p) /\ signal("in")
\* keyboard_interrupt with a key that gives a character: it is dropped if the
\* buffer is full.
keyboard_interrupt ==
  /\ stop = "run" /\ ~intq_full(inq)
  /\ input_putc(pc) /\ serial_notify(txq, inq')
  /\ UNCHANGED <<txq, qlock, mode, thre, rx, nput, nsent, ngot, stop>>
-----------------------------------------------------------------------------
\* serial_putc by a thread with interrupts on.  Before serial_init_queue it
\* polls; then it queues, and waits while the queue is full.
Send(n) == nsent' = Next1(n) /\ thre' = FALSE
PutcPoll(t) ==
  /\ Starts(t) /\ mode # "QUEUE" /\ thre
  /\ mode' = "POLL" /\ nput' = Next1(nput) /\ Send(nput)
  /\ ier' = IF mode = "UNINIT" THEN {} ELSE ier
  /\ UNCHANGED <<queues, waiter, qlock, pc, rx, nkey, ngot, stop>>
PutcQueue(t) ==
  /\ Starts(t) /\ mode = "QUEUE"
  /\ IF intq_full(txq) THEN Blocks("tx", t, TRUE) /\ UNCHANGED <<txq, ier, nput>>
     ELSE /\ txq' = Append(txq, nput) /\ nput' = Next1(nput) /\ ier' = Ier(txq', inq)
          /\ GoesOn("tx", t) /\ pc' = [pc EXCEPT ![t] = "idle"] /\ UNCHANGED <<waiter, stop>>
  /\ UNCHANGED <<inq, mode, thre, rx, nsent, nkey, ngot>>
\* Mutant: with a full queue the new byte is sent, before those queued.
PutcOff_first ==
  /\ stop = "run" /\ mode = "QUEUE" /\ intq_full(txq) /\ thre
  /\ Send(nsent) /\ nput' = Next1(nput)
  /\ UNCHANGED <<queues, waiter, qlock, pc, mode, ier, rx, nkey, ngot, stop>>
\* The same with interrupts off, from an interrupt handler: it may not wait, so
\* with a full queue it sends the oldest byte by polling.
PutcOff ==
  LET full == intq_full(txq)
      rest == IF full THEN Tail(txq) ELSE txq
  IN  /\ stop = "run" /\ mode = "QUEUE"
      /\ full => thre
      /\ IF full THEN Send(Head(txq)) /\ pc' = Woken("tx", pc) /\ signal("tx")
         ELSE UNCHANGED <<nsent, thre, pc, waiter>>
      /\ txq' = Append(rest, nput) /\ nput' = Next1(nput) /\ ier' = Ier(txq', inq)
      /\ UNCHANGED <<inq, qlock, mode, rx, nkey, ngot, stop>>
serial_init_queue ==
  /\ stop = "run" /\ mode # "QUEUE"
  /\ mode' = "QUEUE" /\ ier' = Ier(txq, inq)
  /\ UNCHANGED <<queues, waiter, qlock, pc, thre, rx, nput, nsent, nkey, ngot, stop>>
\* serial_flush, byte by byte by polling; ier is left as it was.
serial_flush ==
  /\ stop = "run" /\ txq # <<>> /\ thre
  /\ nsent' = Next1(txq[Len(txq)]) /\ thre' = FALSE /\ txq' = <<>>
  /\ pc' = Woken("tx", pc) /\ signal("tx")
  /\ UNCHANGED <<inq, qlock, mode, ier, rx, nput, nkey, ngot, stop>>

\* serial_interrupt: receives if there is room, sends if it can, write_ier.
serial_interrupt ==
  LET recv == rx /\ ~intq_full(inq)
      xmit == thre /\ txq # <<>>
      p    == IF recv THEN Woken("in", pc) ELSE pc
  IN  /\ stop = "run" /\ mode = "QUEUE"
      /\ (rx /\ "RECV" \in ier) \/ (thre /\ "XMIT" \in ier)
      /\ rx' = (rx /\ ~recv)
      /\ IF recv THEN inq' = Append(inq, nkey) /\ nkey' = Next1(nkey) ELSE UNCHANGED <<inq, nkey>>
      /\ IF xmit THEN txq' = Tail(txq) /\ Send(Head(txq)) ELSE UNCHANGED <<txq, nsent, thre>>
      /\ pc' = IF xmit THEN Woken("tx", p) ELSE p
      /\ waiter' = [q \in {"tx", "in"} |->
                      IF (q = "tx" /\ xmit) \/ (q = "in" /\ recv) THEN NONE ELSE waiter[q]]
      /\ ier' = Ier(txq', inq')
      /\ UNCHANGED <<qlock, mode, nput, ngot, stop>>
-----------------------------------------------------------------------------
\* The UART.
Sent == stop = "run" /\ ~thre /\ thre' = TRUE
        /\ UNCHANGED <<queues, waiter, qlock, pc, mode, ier, rx, nput, nsent, nkey, ngot, stop>>
Received == stop = "run" /\ ~rx /\ rx' = TRUE
        /\ UNCHANGED <<queues, waiter, qlock, pc, mode, ier, thre, nput, nsent, nkey, ngot, stop>>

Init ==
  /\ txq = <<>> /\ inq = <<>> /\ mode = "UNINIT" /\ ier = {} /\ thre = TRUE /\ rx = FALSE
  /\ waiter = [q \in {"tx", "in"} |-> NONE] /\ qlock = [q \in {"tx", "in"} |-> NONE]
  /\ pc = [t \in Reader \cup Writer |-> "idle"]
  /\ nput = 0 /\ nsent = 0 /\ nkey = 0 /\ ngot = 0 /\ stop = "run"
Write(t) == PutcPoll(t) \/ PutcQueue(t)
Next ==
  \/ \E t \in Reader : input_getc(t) \/ LockAcquired(t)
  \/ \E t \in Writer : Write(t)
  \/ keyboard_interrupt \/ PutcOff \/ serial_init_queue \/ serial_flush
  \/ serial_interrupt \/ Sent \/ Received
\* The UART sends what it has; an interrupt that is enabled is taken; a thread
\* that was woken runs.
Fairness ==
  /\ WF_vars(Sent) /\ WF_vars(serial_interrupt)
  /\ \A t \in Writer : WF_vars(pc[t] = "woken" /\ Write(t))
Spec == Init /\ [][Next]_vars /\ Fairness
-----------------------------------------------------------------------------
\* Queues hold bytes, fewer than the buffer has places.
TypeOK ==
  /\ txq \in Seq(0 .. NUMBERS - 1) /\ inq \in Seq(0 .. NUMBERS - 1)
  /\ Len(txq) < BUFSIZE /\ Len(inq) < BUFSIZE
  /\ \A t \in DOMAIN pc : pc[t] \in {"idle", "lock", "wait", "woken"}
  /\ mode \in {"UNINIT", "POLL", "QUEUE"} /\ ier \subseteq {"XMIT", "RECV"} /\ stop \in {"run", "panic"}

Numbers(from, n) == [i \in 1 .. n |-> (from + i - 1) % NUMBERS]
\* Bytes are sent in the order they were printed and read in the order they
\* came, each once: also when an interrupt handler prints while a thread waits
\* for a full queue, and when the port goes from polling to interrupts.
InOrder ==
  /\ txq = Numbers(nsent, (nput - nsent) % NUMBERS)
  /\ inq = Numbers(ngot, (nkey - ngot) % NUMBERS)

\* A thread waits only for what is not there: a wait is registered and holds
\* the lock, and a queue with a waiter is empty or full as the waiter found it.
WaitersRight ==
  /\ \A q \in {"tx", "in"} :
       waiter[q] # NONE => pc[waiter[q]] = "wait" /\ qlock[q] = waiter[q]
  /\ \A t \in DOMAIN pc : pc[t] = "wait" => waiter[IF t \in Reader THEN "in" ELSE "tx"] = t
  /\ waiter["in"] # NONE => inq = <<>>
  /\ waiter["tx"] # NONE => intq_full(txq)

\* The port interrupts while there is something to send, and for input exactly
\* while there is room for it.
IerRight == mode = "QUEUE" => /\ txq # <<>> => "XMIT" \in ier
                              /\ "RECV" \in ier <=> ~intq_full(inq)

\* The ASSERT in wait fails only when a reader that waited for the lock gets it
\* after the other reader and finds a byte that came since: one reader at a
\* time is safe.
PanicOnlyByTwo ==
  [][stop' = "panic" => \E t \in Reader : /\ LockAcquired(t) /\ inq # <<>>
                                          /\ Cardinality(Reader) > 1]_vars

\* What is printed is sent: bytes are sent for ever, or the queue stays empty.
Drains == \/ <>[](txq = <<>>) \/ []<><<nsent' # nsent>>_vars
          \/ <>(stop = "panic")

\* A thread that waits for a full queue prints its byte in the end.
WritersEnd == \A t \in Writer : pc[t] = "wait" ~> (pc[t] # "wait" \/ stop = "panic")
=============================================================================
