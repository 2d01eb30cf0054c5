--------------------------------- MODULE Boot -------------------------------
(***************************************************************************)
(* threads/init.c: the kernel's options and actions, and the page tables   *)
(* that map physical memory; and lib/random.c, which an option seeds.  An  *)
(* option is its name and value, an action or argument is a word.          *)
(***************************************************************************)
EXTENDS Integers, Sequences

CONSTANTS ENTRIES,  \* entries in a page directory or table, 1024
          N         \* elements of the generator's state, 256

Actions == [run |-> 2, ls |-> 1, cat |-> 2, rm |-> 2, extract |-> 1, append |-> 2]
Panic(st) == [st EXCEPT !.run = "panic"]

\* atoi of a value that is not there fails its ASSERT.
NeedsValue(opt) == opt.name \in {"-rs", "-ul"} /\ opt.value = ""
\* An option; the last of several has effect, and -h turns the machine off.
ParseOption(st, opt) ==
  CASE opt.name = "-h" -> [st EXCEPT !.run = "off"]
    [] opt.name \in {"-q", "-r"} -> [st EXCEPT !.shutdown = opt.name]
    [] opt.name = "-f" -> [st EXCEPT !.format = TRUE]
    [] opt.name \in {"-filesys", "-scratch"} -> [st EXCEPT !.bdev[opt.name] = opt.value]
    [] opt.name = "-mlfqs" -> [st EXCEPT !.mlfqs = TRUE]
    [] opt.name = "-rs" -> IF NeedsValue(opt) THEN Panic(st) ELSE [st EXCEPT !.seed = opt.value]
    [] opt.name = "-ul" -> IF NeedsValue(opt) THEN Panic(st) ELSE [st EXCEPT !.limit = opt.value]
    [] OTHER -> Panic(st)
\* parse_options: the options up to the first word, then a seed from the clock,
\* whatever an option said.
RECURSIVE parse_options(_, _)
parse_options(st, argv) ==
  IF st.run # "run" THEN st
  ELSE IF argv # <<>> /\ argv[1].opt THEN parse_options(ParseOption(st, argv[1]), Tail(argv))
  ELSE [st EXCEPT !.seed = "clock", !.argv = argv]

Missing(argv) == Actions[argv[1].name] > Len(argv)
\* run_actions: the actions run, in order, until one is unknown or has no argument.
RECURSIVE RunActions(_, _)
RunActions(st, argv) ==
  IF argv = <<>> THEN st
  ELSE IF argv[1].name \notin DOMAIN Actions \/ Missing(argv) THEN Panic(st)
  ELSE LET n == Actions[argv[1].name]
       IN  RunActions([st EXCEPT !.ran = Append(@, SubSeq(argv, 1, n))], SubSeq(argv, n + 1, Len(argv)))
run_actions(st) == IF st.run = "run" THEN RunActions(st, st.argv) ELSE st
-----------------------------------------------------------------------------
(***************************************************************************)
(* paging_init, for ram pages from page number base on: the tables made,   *)
(* in order, each a function of its entries; pd is the table that an entry *)
(* of the directory has, 0 for none.                                       *)
(***************************************************************************)
NoEntry == [page |-> -1, writable |-> FALSE]
NewTable(m, v) == m.pd[v \div ENTRIES] = 0
MapPage(m, page, base, text) ==
  LET v  == base + page
      m1 == IF NewTable(m, v)
            THEN [m EXCEPT !.tables = Append(@, [i \in 0 .. ENTRIES - 1 |-> NoEntry]),
                           !.pd[v \div ENTRIES] = Len(m.tables) + 1]
            ELSE m
  IN  [m1 EXCEPT !.tables[Len(m1.tables)][v % ENTRIES] = [page |-> page, writable |-> v \notin text]]
RECURSIVE MapPages(_, _, _, _, _)
MapPages(m, page, ram, base, text) ==
  IF page = ram THEN m ELSE MapPages(MapPage(m, page, base, text), page + 1, ram, base, text)
paging_init(ram, base, text) ==
  MapPages([pd |-> [i \in 0 .. ENTRIES - 1 |-> 0], tables |-> <<>>], 0, ram, base, text)
-----------------------------------------------------------------------------
\* RC4: the state of the generator is s, i and j; seedp has the bytes of the seed.
swap_byte(s, a, b) == [s EXCEPT ![a] = s[b], ![b] = s[a]]
RECURSIVE Mix(_, _, _, _)
Mix(s, i, j, seedp) ==
  IF i = N THEN s
  ELSE LET k == (j + s[i] + seedp[(i % Len(seedp)) + 1]) % N IN Mix(swap_byte(s, i, k), i + 1, k, seedp)
random_init(seedp) == [s |-> Mix([i \in 0 .. N - 1 |-> i], 0, 0, seedp), i |-> 0, j |-> 0, out |-> <<>>]
RECURSIVE random_bytes(_, _)
random_bytes(g, size) ==
  IF size = 0 THEN g
  ELSE LET i == (g.i + 1) % N
           j == (g.j + g.s[i]) % N
           s == swap_byte(g.s, i, j)
       IN  random_bytes([s |-> s, i |-> i, j |-> j, out |-> Append(g.out, s[(s[i] + s[j]) % N])], size - 1)
=============================================================================
