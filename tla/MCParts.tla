------------------------------ MODULE MCParts -------------------------------
(***************************************************************************)
(* The library (MCLibrary), what the kernel computes at boot (MCBoot), and *)
(* the parts of it that keep resources apart: memory blocks (Malloc), open *)
(* files (FdTable) and address spaces (AddressSpace).  They share no       *)
(* state; unit says which of them runs.                                    *)
(***************************************************************************)
EXTENDS MCLibrary, MCBoot

CONSTANTS Sizes, Callers,           \* of Malloc
          Procs, MaxFd, MaxLength,  \* of FdTable
          Loaders, KPages, Frames   \* of AddressSpace

VARIABLES unit,
          free_list, arena, mem, mstop, blocks, failed,
          open_list, fd_count, exec_file, opens, deny, length, version, fstop,
          kfree, ufree, pagedir, old_pd, pde, pte, pc, todo, kpage, spare, cur, cr3, tlb
mvars == <<free_list, arena, mem, mstop, blocks, failed>>
fvars == <<open_list, fd_count, exec_file, opens, deny, length, version, fstop>>
avars == <<kfree, ufree, pagedir, old_pd, pde, pte, pc, todo, kpage, spare, cur, cr3, tlb>>
allvars == <<unit, vars, done, mvars, fvars, avars>>

Mem == INSTANCE Malloc WITH PAGES <- 3, PGSIZE <- 6, ARENA <- 3, MIN_BLOCK <- 1,
                          Caller <- Callers, stop <- mstop
Fd == INSTANCE FdTable WITH Proc <- Procs, File <- {1}, Dir <- {2}, stop <- fstop

\* Programs: text that may not be written and a stack; two segments that share
\* a page, which cannot be loaded.
Segment(u, writable) == [page |-> u, writable |-> writable]
Programs == {<<Segment(1, FALSE), Segment(2, TRUE)>>, <<Segment(1, TRUE)>>,
             <<Segment(2, TRUE), Segment(2, TRUE), Segment(1, TRUE)>>}
Space == INSTANCE AddressSpace WITH Proc <- Loaders, Segments <- Programs, UPages <- 1 .. 2,
                                    Touched <- {1}, PdOf <- [u \in 1 .. 2 |-> 0]

MCInit == /\ unit \in {"library", "boot", "blocks", "files", "spaces"}
          /\ Init /\ BootInit /\ Mem!Init /\ Fd!Init /\ Space!Init
MCNext ==
  \/ unit = "library" /\ Next       /\ UNCHANGED <<unit, done, mvars, fvars, avars>>
  \/ unit = "boot"    /\ BootNext   /\ UNCHANGED <<unit, vars, mvars, fvars, avars>>
  \/ unit = "blocks"  /\ Mem!Next   /\ UNCHANGED <<unit, vars, done, fvars, avars>>
  \/ unit = "files"   /\ Fd!Next    /\ UNCHANGED <<unit, vars, done, mvars, avars>>
  \/ unit = "spaces"  /\ Space!Next /\ UNCHANGED <<unit, vars, done, mvars, fvars>>
MCSpec == MCInit /\ [][MCNext]_allvars
-----------------------------------------------------------------------------
\* The kernel's data structures: lists behave as sequences, list_sort is stable,
\* list_max and list_min find the first, bitmaps are sets of bits, sort and
\* binary_search agree with the order, and the hash table finds what it holds
\* and does what its comments say, with and without memory to grow.
StructuresRight ==
  /\ [](ListsAsSequences /\ SortStable /\ ExtremesEarliest /\ BitmapRight /\ ArraysRight /\ HashTableSound)
  /\ HashCallsAsDocumented

\* The C library on every small input: memory and strings are moved, searched,
\* split and copied within their bounds, divisions are exact and never trap,
\* fixed-point numbers round as they say, and printf prints what its format
\* says without passing the end of a buffer.
LibraryRight ==
  /\ MovesExact /\ SearchesRight /\ TokensRight /\ CopiesBounded
  /\ DivisionExact /\ FixedPointExact /\ AtoiRight
  /\ PrintfRight /\ SnprintfBounded /\ DumpCovers

\* What the kernel computes from what it is given: a program in memory with its
\* arguments, the characters of keys, partitions within their disk, archives
\* that are read back, delays and times, the display, the command line, the
\* kernel's page tables and random bytes.
ComputedRight ==
  /\ LoadedExact /\ ArgumentsRight /\ KeysRight
  /\ PartitionsInside /\ ScanExact /\ RolesRight
  /\ OctalExact /\ HeaderRoundTrip /\ DamageFound /\ ArchiveRoundTrip
  /\ DelaysLongEnough /\ PitNearest /\ ClockNotTorn /\ TimeLinear
  /\ ScreenRight /\ BootRight /\ KernelMapped /\ RandomSound

\* malloc.c: blocks do not overlap and leave the headers of arenas alone, what a
\* caller wrote stays until it frees the block, also through realloc, every
\* block of an arena is in use or once in a free list, and malloc fails only if
\* no pages and no block for the request are left.
BlocksRight ==
  unit = "blocks" => /\ Mem!TypeOK /\ Mem!BlocksApart /\ Mem!BlocksKept
                     /\ Mem!ArenasExact /\ Mem!FailsOnlyWhenShort

\* The descriptors of processes: open_list is in their order and files_helper
\* finds what is open, open_cnt and deny_write_cnt count what they should in
\* any order of closes and exits, a file is not written while a process runs
\* it, and calls stop the kernel only in the cases listed in FdTable.
FdsRight ==
  /\ [](unit = "files" => Fd!TypeOK /\ Fd!FdsAscending /\ Fd!LookupExact /\ Fd!CountsExact)
  /\ Fd!ExecutableUnchanged /\ Fd!StopsOnlyBy

\* Address spaces: each frame and page of a page table is free, mapped once or in
\* the hands of one load, through failures at each step; the processor never
\* has a page directory that process_exit freed; user code sees the pages of
\* its own process, and the TLB agrees with the page table.
SpacesRight ==
  unit = "spaces" => /\ Space!TypeOK /\ Space!PagesOnce /\ Space!ActiveNotFreed
                     /\ Space!UserSeesOwn /\ Space!TlbCoherent
=============================================================================
