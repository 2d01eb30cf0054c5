------------------------------- MODULE MCBoot -------------------------------
(***************************************************************************)
(* What the kernel computes at boot and for the actions on its command     *)
(* line, called with small arguments.  As in MCLibrary, a call records its *)
(* arguments and its result, in done, and an invariant judges it.          *)
(***************************************************************************)
EXTENDS Integers, Sequences, FiniteSets, SequencesExt

VARIABLE done

NotCalled == [fn |-> "none"]
D == INSTANCE BlockDevices WITH W <- 3
T == INSTANCE Archive WITH NAME <- 3, CHKSUM <- 5, SIZE <- 4, U <- 7, SECTOR <- 2
C == INSTANCE Timer WITH TIMER_FREQ <- 100, PIT_HZ <- 1193180
V == INSTANCE Terminal WITH COL_CNT <- 3, ROW_CNT <- 2, TAB <- 2
B0 == INSTANCE Boot WITH ENTRIES <- 3, N <- 5
-----------------------------------------------------------------------------
\* A disk of 4 or 6 sectors with a partition table of two entries; the options
\* name a device for the file system or do not.
Entries == [type : {"extended", "filesys", "scratch"}, offset : {0, 1, 2, 3, 5, 7}, size : {0, 1, 3, 7}]
             \cup [type : {"empty"}, offset : {0}, size : {1}]
DoScan ==
  \E size \in {4, 6}, e1, e2 \in Entries, signature \in BOOLEAN,
     name \in {D!NONE.name, <<"hda", 0>>, <<"hda", 2>>} :
    LET disk == [name |-> <<"hda", 0>>, type |-> "raw", start |-> 0, size |-> size]
        scan == D!partition_scan(<<disk>>, disk, [signature |-> signature, entries |-> <<e1, e2>>])
    IN  done' = [fn |-> "scan", disk |-> disk, entries |-> <<e1, e2>>, signature |-> signature,
                 scan |-> scan, name |-> name,
                 filesys |-> D!locate_block_device(scan.all_blocks, "filesys", name),
                 scratch |-> D!locate_block_device(scan.all_blocks, "scratch", D!NONE.name)]

Used(e) == e.size > 0 /\ e.type # "empty"
Extended(c) == {i \in DOMAIN c.entries : Used(c.entries[i]) /\ c.entries[i].type = "extended"}
\* Every sector of a partition is a sector of its disk, the one at that distance
\* from its start, counted without the wrap-around of 32 bits: found_partition
\* registers no other, and partition_read and partition_write reach no other.
PartitionsInside ==
  done.fn = "scan" =>
    \A i \in DOMAIN done.scan.all_blocks :
      LET p == done.scan.all_blocks[i]
      IN  \A s \in 0 .. 7 :
            D!Reached(done.disk, p, s) = IF s < p.size THEN p.start + s ELSE -1

\* partition_scan finds, in order and numbered in the order of the table, the
\* partitions that the table of sector 0 has on the disk.  That is so without
\* extended partitions.  With them it reads the same table again, and ends
\* unless one extended entry is on the disk and so is the place it and another
\* one add up to.
ScanExact ==
  done.fn = "scan" =>
    LET E == done.entries
        nr(i) == Cardinality({j \in 1 .. i : Used(E[j])})
        fits(i) == Used(E[i]) /\ E[i].offset + E[i].size <= done.disk.size
        block(i) == [name |-> <<"hda", nr(i)>>, type |-> E[i].type, start |-> E[i].offset,
                     size |-> E[i].size]
        found == {i \in DOMAIN E : done.signature /\ fits(i)}
        at == SetToSortSeq(found, <)
    IN  /\ Extended(done) = {} =>
             done.scan.all_blocks = <<done.disk>> \o [k \in 1 .. Len(at) |-> block(at[k])]
        /\ done.scan.endless <=>
             done.signature /\ \E i, j \in Extended(done) :
               /\ E[i].offset < done.disk.size
               /\ (E[i].offset + E[j].offset) % 8 < done.disk.size

\* The file system and the scratch space are on different devices, each of its
\* type, unless an option names the device; then it is that one.
RolesRight ==
  done.fn = "scan" =>
    LET f == done.filesys  s == done.scratch
        Names == {done.scan.all_blocks[i].name : i \in DOMAIN done.scan.all_blocks}
        Types == {done.scan.all_blocks[i].type : i \in DOMAIN done.scan.all_blocks}
    IN  /\ s = D!NONE <=> "scratch" \notin Types
        /\ IF done.name = D!NONE.name
           THEN /\ f = D!NONE <=> "filesys" \notin Types
                /\ f # D!NONE => f.type = "filesys" /\ f # s
           ELSE f.name = IF done.name \in Names THEN done.name ELSE D!NONE.name
-----------------------------------------------------------------------------
\* Archives.  Octal fields of four characters, and names.
DoOctal ==
  \E field \in [1 .. 4 -> {0, 1, 7, T!NUL, T!SPACE, T!BAD}] :
    done' = [fn |-> "octal", field |-> field, ret |-> T!parse_octal_field(field)]
NamesUpTo(n) == UNION {[1 .. k -> {T!Dot, T!Slash, 3}] : k \in 0 .. n}
DoHeader ==
  \E name \in NamesUpTo(5), type \in {"regular", "directory"}, size \in {0, 1, 7, 8, 63} :
    LET h == T!ustar_make_header(name, type, size)
    IN  done' = [fn |-> "header", name |-> name, type |-> type, size |-> size, h |-> h,
                 ret |-> IF h = T!Failed THEN h ELSE T!ustar_parse_header(h)]

\* parse_octal_field accepts the fields of at least one digit that end in a
\* space or a null byte and whose number fits an unsigned long, and returns
\* that number.
OctalExact ==
  done.fn = "octal" =>
    LET f == done.field
        ends == {i \in DOMAIN f : f[i] \in {T!NUL, T!SPACE} /\ \A j \in 1 .. i - 1 : f[j] \in 0 .. 7}
        e == CHOOSE i \in ends : TRUE
        value == FoldLeft(LAMBDA x, d : 8 * x + d, 0, SubSeq(f, 1, e - 1))
    IN  done.ret = IF ends = {} \/ e = 1 \/ value > T!ULONG_MAX THEN T!NoNumber ELSE value

\* A header says of its file what was put in: read back it has the type and the
\* size, and a name that is the end of the one given, or ".", and leads out of
\* no directory.  It can be made unless the name is too long.
HeaderRoundTrip ==
  done.fn = "header" =>
    IF done.h = T!Failed THEN Len(done.name) > 2
    ELSE LET r == done.ret
         IN  /\ r.kind = "file" /\ r.type = done.type
             /\ r.size = IF done.type = "regular" THEN done.size ELSE 0
             /\ r.name \notin {<<>>, <<T!Dot, T!Dot>>} /\ \A p \in T!Antisocial : ~T!StartsWith(r.name, p)
             /\ r.name = <<T!Dot>> \/ \E k \in 0 .. Len(done.name) :
                  r.name = SubSeq(done.name, k + 1, Len(done.name))

\* A good header with one byte of its name, size or type changed, or one that is
\* of another kind though its checksum is right.
DoDamage ==
  \E name \in {<<3>>, <<3, 4>>}, size \in {0, 8}, digit \in 0 .. 7, letter \in 3 .. 5, i \in 1 .. 3 :
    LET h == T!ustar_make_header(name, "regular", size)
        Sealed(x) == [x EXCEPT !.chksum = T!Octal(T!calculate_chksum(x), 5)]
        Did(x) == x # h /\ done' = [fn |-> "damage", h |-> x, ret |-> T!ustar_parse_header(x)]
    IN  \/ Did([h EXCEPT !.name[1] = letter]) \/ Did([h EXCEPT !.size[i] = digit])
        \/ Did([h EXCEPT !.type = "directory"]) \/ Did(Sealed([h EXCEPT !.type = "link"]))
        \/ Did([h EXCEPT !.magic = FALSE]) \/ Did(Sealed([h EXCEPT !.version = FALSE]))
        \/ Did(Sealed([h EXCEPT !.long = TRUE])) \/ Did(Sealed([h EXCEPT !.size[1] = T!BAD]))
        \/ Did(Sealed([h EXCEPT !.size = <<1, 0, 0, T!NUL>>]))

\* ustar_parse_header takes no header in which one byte was changed, none of
\* another type, and no size that is no number or more than an int holds.
DamageFound == done.fn = "damage" => done.ret.kind = "bad"

\* Files are appended to an empty scratch device, the machine is started anew
\* and the archive extracted; and once more.
Scratch(n) == [disk |-> [i \in 0 .. n - 1 |-> T!Zeros], append |-> 0, extract |-> 0,
               files |-> <<>>, run |-> TRUE]
Restarted(st) == [st EXCEPT !.append = 0, !.extract = 0]
DoArchive ==
  \E n \in 2 .. 7, l1, l2 \in 0 .. 5, dirty \in BOOLEAN, two \in {<<3>>, <<T!Slash, 4>>} :
    LET b1 == [i \in 1 .. l1 |-> i]
        b2 == [i \in 1 .. l2 |-> 10 + i]
        st1 == T!fsutil_append(Scratch(n), <<T!Dot, T!Slash, 3>>, b1, dirty)
        st2 == T!fsutil_append(st1, two, b2, dirty)
        st3 == T!fsutil_extract(Restarted(st2))
    IN  done' = [fn |-> "archive", n |-> n, b1 |-> b1, b2 |-> b2, dirty |-> dirty, two |-> two,
                 st2 |-> st2, st3 |-> st3, st4 |-> T!fsutil_extract(Restarted(st3))]

\* What append puts on the scratch device extract creates again, byte for byte,
\* under the names without their prefixes.  append panics only if the device is
\* full; extract then only if two files have one name, or at the end of the
\* archive if the byte after append's buffer was not 0.  After that a second
\* extract, after a restart, finds an empty archive.
ArchiveRoundTrip ==
  done.fn = "archive" =>
    LET sectors == 3 + (Len(done.b1) + 1) \div 2 + (Len(done.b2) + 1) \div 2
        same == done.two = <<3>>
        files == done.st3.files
    IN  /\ done.st2.run = (sectors <= done.n)
        /\ done.st2.run =>
             /\ files[<<3>>] = done.b1
             /\ ~same => files[<<4>>] = done.b2
             /\ done.st3.run = (~same /\ ~done.dirty)
             /\ done.st3.run => done.st4.run /\ done.st4.files = files
-----------------------------------------------------------------------------
\* Delays of less than a tick, on machines of many speeds, in thousandths and
\* millionths of a second.
DoDelay ==
  \E speed \in (1024 .. 1100) \cup (1500 .. 1600) \cup (2000 .. 2100) \cup (4000 .. 4300) :
    \E d \in ({1, 2, 5, 9, 10, 25} \X {1000}) \cup ({10, 500, 9999, 10000} \X {1000000}) :
      LET lpt == C!timer_calibrate(speed)
      IN  done' = [fn |-> "delay", speed |-> speed, num |-> d[1], denom |-> d[2],
                   loops_per_tick |-> lpt, ret |-> C!real_time_sleep(lpt, d[1], d[2])]
\* A sleep shorter than a tick waits at least as long as asked for, up to the
\* loops that calibration and integer division drop, and less than twice as
\* long: timer_calibrate tries each bit with the highest one alone and may find
\* too many loops but not too few.  A longer sleep is not more ticks than asked
\* for, and less than one tick short.
DelaysLongEnough ==
  done.fn = "delay" =>
    LET asked == done.num
        tick == done.denom \div 100
        unit == done.denom \div 1000
    IN  /\ done.loops_per_tick < 2 * done.speed
        /\ done.loops_per_tick + 8 > done.speed
        /\ IF done.ret.ticks > 0
           THEN /\ done.ret.ticks * tick <= asked
                /\ asked < (done.ret.ticks + 1) * tick
           ELSE /\ asked < tick
                /\ (done.ret.loops + 9 + 100 \div unit) * tick >= done.speed * asked
                /\ done.ret.loops * tick < 2 * done.speed * asked

DoPit ==
  \E frequency \in (1 .. 200) \cup {1000, 20000, 500000, 596590, 1193180, 1193181} :
    done' = [fn |-> "pit", frequency |-> frequency, ret |-> C!pit_count(frequency)]
\* pit_configure_channel's count gives the frequency nearest to the one asked
\* for that a 16-bit counter can; above half the chip's clock it need not.
PitNearest ==
  done.fn = "pit" =>
    LET f == done.frequency
        count == IF done.ret = 0 THEN 65536 ELSE done.ret
        error == count * f - 1193180
    IN  /\ f > 1193180 => count = 2
        /\ f \in 19 .. 1193180 => 2 * (IF error < 0 THEN -error ELSE error) <= f
        /\ f < 19 => count = 65536 /\ error < 0

\* The clock around the end of a minute, a day or a year; a second passes after
\* some read, or two do.
Bcd(n) == (n \div 10) * 16 + (n % 10)
ClockOf(c) == [k \in DOMAIN c |-> Bcd(c[k])]
NextSecond(c) ==
  IF c.sec < 59 THEN [c EXCEPT !.sec = @ + 1]
  ELSE IF c.min < 59 THEN [c EXCEPT !.sec = 0, !.min = @ + 1]
  ELSE IF c.hour < 23 THEN [c EXCEPT !.sec = 0, !.min = 0, !.hour = @ + 1]
  ELSE IF c.mday < 28 THEN [c EXCEPT !.sec = 0, !.min = 0, !.hour = 0, !.mday = @ + 1]
  ELSE [sec |-> 0, min |-> 0, hour |-> 0, mday |-> 1, mon |-> 3, year |-> c.year]
Moments == [sec : {0, 58, 59}, min : {9, 59}, hour : {19, 23}, mday : {1, 9, 28}, mon : {2}, year : {6, 99}]
DoClock ==
  \E c \in Moments, i, j \in 1 .. 7 :
    LET at(k) == IF k < i /\ k < j THEN c ELSE IF k < i \/ k < j THEN NextSecond(c)
                 ELSE NextSecond(NextSecond(c))
        r == C!rtc_read([k \in 1 .. 7 |-> ClockOf(at(k))])
    IN  done' = [fn |-> "clock", moments |-> {at(k) : k \in 1 .. 7}, ret |-> r]
\* rtc_get_time takes a time only if the clock really had it: a second that
\* passes between two of its reads makes it read again.
ClockNotTorn == done.fn = "clock" /\ done.ret.done => done.ret.time \in done.moments

DoDate ==
  \E c \in [sec : {0, 59}, min : {0, 59}, hour : {0, 23}, mday : {1, 27}, mon : 1 .. 12, year : {5, 8, 71, 74, 99}] :
    done' = [fn |-> "date", at |-> c, days |-> C!Days(c), seconds |-> C!Seconds(c),
             next_days |-> C!Days(NextSecond(c)), next_seconds |-> C!Seconds(NextSecond(c)),
             year_days |-> C!Days([c EXCEPT !.year = (@ + 1) % 100])]
\* Within a month rtc_get_time runs a second in each second, and a year after 1970
\* has 365 or 366 days.  (From one month to the next it does not: the days it adds are
\* those of the months up to the present one included.)
TimeLinear ==
  done.fn = "date" =>
    /\ 86400 * (done.next_days - done.days) + done.next_seconds - done.seconds = 1
    /\ done.year_days - done.days \in {365, 366}
-----------------------------------------------------------------------------
\* Texts on a display of two rows of three columns.
Empty == [fb |-> [p \in (0 .. 1) \X (0 .. 2) |-> V!Blank], cx |-> 0, cy |-> 0, hw |-> 0]
DoShow ==
  \E n \in 0 .. 5 : \E text \in [1 .. n -> {"a", "b", "line", "page", "back", "return", "tab"}] :
    LET s == FoldLeft(V!vga_putc, Empty, text)
    IN  done' = [fn |-> "show", text |-> text, s |-> s, found |-> V!find_cursor(s)]

\* The rows of a text of letters and new lines: a row ends at a new line and
\* when it is full.
RowsOf(text) ==
  FoldLeft(LAMBDA rows, c : LET n == Len(rows)  row == Append(rows[n], c)
                            IN  IF c = "line" THEN Append(rows, <<>>)
                                ELSE IF Len(row) < 3 THEN [rows EXCEPT ![n] = row]
                                ELSE Append([rows EXCEPT ![n] = row], <<>>),
           <<<<>>>>, text)
\* vga.c never writes outside its display: the cursor stays on it, and the
\* hardware cursor is at it.  What it shows of a text of letters and new lines
\* are the last rows, the rest blank; and after a page feed all is as at first.
ScreenRight ==
  done.fn = "show" =>
    LET s == done.s  text == done.text
        rows == RowsOf(text)
        top == IF Len(rows) > 2 THEN Len(rows) - 2 ELSE 0
    IN  /\ DOMAIN s.fb = (0 .. 1) \X (0 .. 2) /\ s.cx \in 0 .. 2 /\ s.cy \in 0 .. 1
        /\ done.found = s
        /\ ToSet(text) \subseteq {"a", "b", "line"} =>
             /\ s.cy = Len(rows) - top - 1 /\ s.cx = Len(Last(rows))
             /\ \A y \in 0 .. 1, x \in 0 .. 2 :
                  s.fb[<<y, x>>] = IF top + y + 1 <= Len(rows) /\ x < Len(rows[top + y + 1])
                                   THEN rows[top + y + 1][x + 1] ELSE V!Blank
        /\ text # <<>> /\ Last(text) = "page" => s = Empty
-----------------------------------------------------------------------------
\* Command lines of up to four words.
Opt(name, value) == [opt |-> TRUE, name |-> name, value |-> value]
Word(name) == [opt |-> FALSE, name |-> name, value |-> ""]
Words == {Opt("-q", ""), Opt("-f", ""), Opt("-rs", "7"), Opt("-ul", ""), Opt("-filesys", "hda1"),
          Opt("-x", ""), Opt("-h", ""), Word("ls"), Word("cat"), Word("run"), Word("f")}
Booted == [run |-> "run", shutdown |-> "", format |-> FALSE, mlfqs |-> FALSE, limit |-> "all",
           bdev |-> [o \in {"-filesys", "-scratch"} |-> ""], seed |-> "", argv |-> <<>>, ran |-> <<>>]
DoBoot ==
  \E n \in 0 .. 4 : \E argv \in [1 .. n -> Words] :
    done' = [fn |-> "boot", argv |-> argv, ret |-> B0!run_actions(B0!parse_options(Booted, argv))]
\* The kernel does what its command line says, in its order, or stops: the
\* actions run are a prefix of what follows the options, cut where actions end,
\* each with its argument; if the kernel has not stopped that is all of it.  It
\* stops only for an option or action that there is not, a missing value or
\* argument, or -h.  The random numbers are seeded from the clock.
BootRight ==
  done.fn = "boot" =>
    LET argv == done.argv  r == done.ret
        options == {i \in DOMAIN argv : \A j \in 1 .. i : argv[j].opt}
        rest == SubSeq(argv, Cardinality(options) + 1, Len(argv))
        flat == FlattenSeq(r.ran)
        wrong == \E i \in options : argv[i].name \in {"-x", "-h"} \/ argv[i] = Opt("-ul", "")
    IN  /\ IsPrefix(flat, rest)
        /\ \A k \in DOMAIN r.ran :
             Len(r.ran[k]) = CASE r.ran[k][1].name = "ls" -> 1 [] r.ran[k][1].name \in {"cat", "run"} -> 2
        /\ wrong => r.run # "run" /\ r.ran = <<>>
        /\ r.run = "run" => /\ flat = rest /\ r.seed = "clock"
                            /\ r.format <=> Opt("-f", "") \in {argv[i] : i \in options}
        /\ r.run = "panic" /\ ~wrong =>
             LET left == SubSeq(rest, Len(flat) + 1, Len(rest))
             IN  left[1].name \notin {"ls", "cat", "run"} \/ (left[1].name # "ls" /\ Len(left) = 1)

DoPaging ==
  \E ram \in 0 .. 6, base \in 0 .. 3, from, to \in 0 .. 8 :
    done' = [fn |-> "paging", ram |-> ram, base |-> base, text |-> from .. to,
             m |-> B0!paging_init(ram, base, from .. to)]
\* paging_init maps each page of memory at its own distance from the kernel's
\* base and nothing else, also where one table ends and the next begins, for
\* reading only if it is of the kernel's code.
KernelMapped ==
  done.fn = "paging" =>
    \A v \in 0 .. 8 :
      LET t == done.m.pd[v \div 3]
          e == IF t = 0 THEN B0!NoEntry ELSE done.m.tables[t][v % 3]
      IN  e = IF v - done.base \in 0 .. done.ram - 1
              THEN [page |-> v - done.base, writable |-> v \notin done.text] ELSE B0!NoEntry

DoRandom ==
  \E seedp \in (0 .. 4) \X (0 .. 4), n, k \in 0 .. 4 :
    LET g == B0!random_init(seedp)
    IN  done' = [fn |-> "random", parts |-> B0!random_bytes(B0!random_bytes(g, n), k),
                 whole |-> B0!random_bytes(g, n + k)]
\* random.c's s stays a permutation of its indexes, without which numbers would
\* drop out for good; and what comes out does not depend on how it is asked for.
RandomSound ==
  done.fn = "random" =>
    /\ {done.whole.s[i] : i \in 0 .. 4} = 0 .. 4
    /\ done.parts = done.whole
-----------------------------------------------------------------------------
BootInit == done = NotCalled
DoCall == \/ DoScan
          \/ DoDelay \/ DoPit \/ DoClock \/ DoDate
          \/ DoShow \/ DoBoot \/ DoPaging \/ DoRandom
          \/ DoOctal \/ DoHeader \/ DoDamage \/ DoArchive
BootNext == \/ done = NotCalled /\ DoCall
            \/ done # NotCalled /\ done' = NotCalled
BootSpec == BootInit /\ [][BootNext]_done
=============================================================================
