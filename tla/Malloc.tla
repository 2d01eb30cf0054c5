-------------------------------- MODULE Malloc ------------------------------
(***************************************************************************)
(* threads/malloc.c: blocks of a few sizes cut from arenas of one page,    *)
(* and big blocks of whole pages, with what is in memory, byte by byte.    *)
(* Each descriptor's lock covers a whole call on it and pages come from    *)
(* Palloc, so calls are atomic here; it is the sequences of calls that     *)
(* matter.  Addresses are numbers; page n starts at n * PGSIZE.            *)
(*                                                                         *)
(* A step works on st = [free_list, arena, mem, stop].  Callers fill what  *)
(* they get with their own number.                                         *)
(***************************************************************************)
EXTENDS Integers, Sequences, FiniteSets, FiniteSetsExt, SequencesExt

CONSTANTS PAGES,     \* pages there are
          PGSIZE,    \* bytes in a page, 4096
          ARENA,     \* sizeof (struct arena), 12
          MIN_BLOCK, \* the smallest block, 16
          Sizes,     \* the sizes asked for
          Caller     \* those who may have a block each, positive numbers

NULL == 0            \* no block is at address 0: an arena would be
MAGIC == -1          \* a byte of an arena's header
CLEAR == -2          \* a byte of what is free

VARIABLES free_list, \* of each descriptor: its free blocks, in order
          arena,     \* page -> [desc, free_cnt], for the first page of each
          mem,       \* the bytes
          stop,
          blocks,    \* caller -> [at, size, kept]: kept bytes hold its number
          failed     \* the size of a request that has just failed, else 0
vars == <<free_list, arena, mem, stop, blocks, failed>>

\* malloc_init.  A descriptor is its block size; BIG stands for none.
Descs == {d \in {MIN_BLOCK * 2^k : k \in 0 .. 9} : d < PGSIZE \div 2}
BIG == 0
blocks_per_arena(d) == (PGSIZE - ARENA) \div d
State == [free_list |-> free_list, arena |-> arena, mem |-> mem, stop |-> stop]

Cells(at, n) == at .. at + n - 1
Filled(m, at, n, v) == [c \in DOMAIN m |-> IF c \in Cells(at, n) THEN v ELSE m[c]]
Pages == 0 .. PAGES - 1
\* A big arena has its number of pages in free_cnt.
PagesOf(a, page) == IF a[page].desc = BIG THEN page .. page + a[page].free_cnt - 1 ELSE {page}
Used(st) == UNION {PagesOf(st.arena, page) : page \in DOMAIN st.arena}

\* palloc_get_multiple from the kernel pool takes the first of these.
Runs(st, n) == {p \in Pages : (p .. p + n - 1) \subseteq Pages \ Used(st)}
\* A new arena, its header written; what else is in its pages is left alone.
NewArena(st, page, a) ==
  [st EXCEPT !.arena = [p \in DOMAIN @ \cup {page} |-> IF p = page THEN a ELSE @[p]],
             !.mem = Filled(@, page * PGSIZE, ARENA, MAGIC)]
\* palloc_free_multiple
Release(st, page) ==
  [st EXCEPT !.arena = [p \in DOMAIN @ \ {page} |-> @[p]],
             !.mem = Filled(@, page * PGSIZE, Cardinality(PagesOf(st.arena, page)) * PGSIZE, CLEAR)]

block_to_arena(b) == b \div PGSIZE
\* The ASSERTs of block_to_arena.
ArenaOk(st, b) ==
  LET page == block_to_arena(b)
      ofs  == b % PGSIZE
  IN  /\ st.mem[page * PGSIZE] = MAGIC
      /\ IF st.arena[page].desc = BIG THEN ofs = ARENA ELSE (ofs - ARENA) % st.arena[page].desc = 0
arena_to_block(page, i, d) == page * PGSIZE + ARENA + i * d
ArenaBlocks(page, d) == [i \in 1 .. blocks_per_arena(d) |-> arena_to_block(page, i - 1, d)]

BigPages(size) == (size + ARENA + PGSIZE - 1) \div PGSIZE
\* A block leaves the free list.
TakeFirst(st, d) ==
  [st EXCEPT !.free_list[d] = Tail(@),
             !.arena[block_to_arena(Head(st.free_list[d]))].free_cnt = @ - 1]
\* st and the block, or NULL.
malloc(st, size) ==
  LET fits == {d \in Descs : d >= size}
      big  == Runs(st, BigPages(size))
      d    == Min(fits)
      page == Min(Runs(st, 1))
      s    == IF st.free_list[d] # <<>> THEN st
              ELSE [NewArena(st, page, [desc |-> d, free_cnt |-> blocks_per_arena(d)])
                      EXCEPT !.free_list[d] = ArenaBlocks(page, d)]
  IN  IF size = 0 THEN [st |-> st, p |-> NULL]
      ELSE IF fits = {}
           THEN IF big = {} THEN [st |-> st, p |-> NULL]
                ELSE [st |-> NewArena(st, Min(big), [desc |-> BIG, free_cnt |-> BigPages(size)]),
                      p |-> Min(big) * PGSIZE + ARENA]
      ELSE IF st.free_list[d] = <<>> /\ Runs(st, 1) = {} THEN [st |-> st, p |-> NULL]
      ELSE [st |-> TakeFirst(s, d), p |-> Head(s.free_list[d])]

\* Mutant: an empty arena is kept.
free_keeps(st, b) ==
  LET page == block_to_arena(b)
      d    == st.arena[page].desc
  IN  IF d = BIG THEN Release(st, page)
      ELSE [st EXCEPT !.mem = Filled(@, b, d, CLEAR), !.free_list[d] = <<b>> \o @,
                      !.arena[page].free_cnt = @ + 1]

\* A block is put in front of the list; an arena with no block in use goes.
free(st, b) ==
  LET page == block_to_arena(b)
      d    == st.arena[page].desc
      s    == [st EXCEPT !.mem = Filled(@, b, d, CLEAR), !.free_list[d] = <<b>> \o @,
                         !.arena[page].free_cnt = @ + 1]
      keep(x) == block_to_arena(x) # page
  IN  IF ~ArenaOk(st, b) THEN [st EXCEPT !.stop = "panic"]
      ELSE IF d = BIG THEN Release(st, page)
      ELSE IF s.arena[page].free_cnt < blocks_per_arena(d) THEN s
      ELSE IF s.arena[page].free_cnt > blocks_per_arena(d) THEN [s EXCEPT !.stop = "panic"]
      ELSE Release([s EXCEPT !.free_list[d] = SelectSeq(@, keep)], page)

\* The bytes a block has room for.
block_size(st, b) ==
  LET a == st.arena[block_to_arena(b)]
  IN  IF a.desc # BIG THEN a.desc ELSE PGSIZE * a.free_cnt - (b % PGSIZE)
Copied(st, to, from, n) ==
  [st EXCEPT !.mem = [c \in DOMAIN @ |-> IF c \in Cells(to, n) THEN @[c - to + from] ELSE @[c]]]
\* Of a block there is, to a size that is not zero.
realloc(st, old, size) ==
  LET r == malloc(st, size)
      n == Min({size, block_size(st, old)})
  IN  IF r.p = NULL THEN r
      ELSE [st |-> free(Copied(r.st, r.p, old, n), old), p |-> r.p]
-----------------------------------------------------------------------------
Becomes(st) == /\ free_list' = st.free_list /\ arena' = st.arena /\ mem' = st.mem
               /\ stop' = st.stop
Give(c, b) == blocks' = [x \in DOMAIN blocks \cup {c} |-> IF x = c THEN b ELSE blocks[x]]
Forget(c) == blocks' = [x \in DOMAIN blocks \ {c} |-> blocks[x]]

\* malloc, or calloc, whose product of sizes is size.
Malloc(c, size) ==
  LET r == malloc(State, size)
  IN  /\ stop = "run" /\ c \notin DOMAIN blocks
      /\ IF r.p = NULL THEN Becomes(r.st) /\ failed' = size /\ UNCHANGED blocks
         ELSE /\ Becomes([r.st EXCEPT !.mem = Filled(@, r.p, size, c)])
              /\ Give(c, [at |-> r.p, size |-> size, kept |-> size])
              /\ failed' = 0
Free(c) ==
  /\ stop = "run" /\ c \in DOMAIN blocks
  /\ Becomes(free(State, blocks[c].at)) /\ Forget(c) /\ failed' = 0
\* realloc; to size zero it is a free.
Realloc(c, size) ==
  LET b == blocks[c]
      r == realloc(State, b.at, size)
  IN  /\ stop = "run" /\ c \in DOMAIN blocks /\ size > 0
      /\ Becomes(r.st)
      /\ IF r.p = NULL THEN failed' = size /\ UNCHANGED blocks
         ELSE Give(c, [at |-> r.p, size |-> size, kept |-> Min({size, b.kept})]) /\ failed' = 0

Init == /\ free_list = [d \in Descs |-> <<>>] /\ arena = <<>> /\ stop = "run"
        /\ mem = [x \in 0 .. PAGES * PGSIZE - 1 |-> CLEAR]
        /\ blocks = <<>> /\ failed = 0
Next == \E c \in Caller :
  \/ \E size \in Sizes : Malloc(c, size) \/ Realloc(c, size)
  \/ Free(c)
Spec == Init /\ [][Next]_vars
-----------------------------------------------------------------------------
\* Lists have blocks, arenas are in pages, and no ASSERT fails.
TypeOK ==
  /\ stop = "run" /\ DOMAIN arena \subseteq Pages /\ DOMAIN blocks \subseteq Caller
  /\ \A d \in Descs : ToSet(free_list[d]) \subseteq DOMAIN mem

\* Blocks do not overlap, lie within pages that are in use, and leave the
\* headers of arenas alone.
BlocksApart ==
  /\ \A c, e \in DOMAIN blocks :
       c # e => Cells(blocks[c].at, blocks[c].size) \cap Cells(blocks[e].at, blocks[e].size) = {}
  /\ \A c \in DOMAIN blocks : \A x \in Cells(blocks[c].at, blocks[c].size) :
       /\ x \div PGSIZE \in Used(State)
       /\ \A page \in DOMAIN arena : x \notin Cells(page * PGSIZE, ARENA)
  /\ \A page \in DOMAIN arena : \A x \in Cells(page * PGSIZE, ARENA) : mem[x] = MAGIC

\* What a caller wrote stays until it frees the block, whatever others
\* allocate, free and resize, and through its own resizes, as far as both
\* sizes go.
BlocksKept == \A c \in DOMAIN blocks : \A x \in Cells(blocks[c].at, blocks[c].kept) : mem[x] = c

\* Every block of an arena is in use or once in its descriptor's list,
\* free_cnt counts the latter, and an arena has a block in use: memory goes
\* back to the page allocator as soon as it can.
ArenasExact ==
  \A page \in DOMAIN arena :
    LET d    == arena[page].desc
        mine == {c \in DOMAIN blocks : block_to_arena(blocks[c].at) = page}
        free_blocks == SelectSeq(free_list[d], LAMBDA b : block_to_arena(b) = page)
    IN  /\ mine # {}
        /\ d # BIG =>
             /\ arena[page].free_cnt = Len(free_blocks) /\ IsInjective(free_blocks)
             /\ ToSet(free_blocks) \cup {blocks[c].at : c \in mine} = ToSet(ArenaBlocks(page, d))
             /\ arena[page].free_cnt + Cardinality(mine) = blocks_per_arena(d)

\* A request fails only if no pages for it are left, and for a small one no
\* block either.
FailsOnlyWhenShort ==
  LET fits == {d \in Descs : d >= failed}
      n    == IF fits = {} THEN BigPages(failed) ELSE 1
  IN  failed # 0 => /\ ~\E p \in Pages : (p .. p + n - 1) \subseteq Pages \ Used(State)
                    /\ fits # {} => free_list[Min(fits)] = <<>>
=============================================================================
