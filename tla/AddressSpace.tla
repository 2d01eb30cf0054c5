---------------------------- MODULE AddressSpace ----------------------------
(***************************************************************************)
(* Address spaces: userprog/pagedir.c and the parts of userprog/process.c  *)
(* that build, activate and destroy them.  Kernel pages hold page          *)
(* directories and page tables, user frames hold what processes see.  The  *)
(* timer may switch threads between any two steps, and every switch        *)
(* activates the next thread's page directory.  cr3 and the TLB are the    *)
(* processor's; INIT is init_page_dir.                                     *)
(***************************************************************************)
EXTENDS Integers, Sequences, FiniteSets, FiniteSetsExt

CONSTANTS Proc,     \* processes, each with its thread
          KPages,   \* pages of the kernel pool, positive numbers
          Frames,   \* pages of the user pool, positive numbers
          Segments, \* sequences of [page, writable], a program's with its stack last
          UPages,   \* user virtual pages
          Touched,  \* the user pages that are accessed and changed once mapped
          PdOf      \* user page -> index of its page directory entry

INIT == 0
NONE == 0
VARIABLES kfree, ufree, \* the pages free in the two pools
          pagedir,      \* of each thread: its page directory, NONE if it has none
          old_pd,       \* of each thread: the one it is destroying
          pde,          \* the entries of a page directory, page tables or NONE
          pte,          \* the entries of a page table
          pc, todo,     \* of each thread: where it is, what is left to load
          kpage,        \* of each thread: the frame it is loading
          spare,        \* frames unmapped and kept by whoever unmapped them
          cur,          \* the thread that runs
          cr3, tlb      \* the processor
vars == <<kfree, ufree, pagedir, old_pd, pde, pte, pc, todo, kpage, spare, cur, cr3, tlb>>

Pds == {PdOf[u] : u \in UPages}
NoPte == [present |-> FALSE, frame |-> NONE, writable |-> FALSE, accessed |-> FALSE, dirty |-> FALSE]
NoPdes == [i \in Pds |-> NONE]
NoPtes == [u \in UPages |-> NoPte]

\* lookup_page without create: the entry, in a page directory that has one.
HasPt(pd, u) == pde[pd][PdOf[u]] # NONE
Pte(pd, u) == pte[pde[pd][PdOf[u]]][u]
Mapped(pd, u) == HasPt(pd, u) /\ Pte(pd, u).present
Steps(p, where) == cur = p /\ pc[p] = where
Goes(p, where) == pc' = [pc EXCEPT ![p] = where]

\* pagedir_activate; writing cr3 empties the TLB.
pagedir_activate(pd) == cr3' = pd /\ tlb' = {}
invalidate_pagedir(pd) == IF cr3 = pd THEN pagedir_activate(pd) ELSE UNCHANGED <<cr3, tlb>>
-----------------------------------------------------------------------------
\* load: pagedir_create and process_activate.
pagedir_create(p) ==
  /\ Steps(p, "new")
  /\ IF kfree = {} THEN Goes(p, "exit") /\ UNCHANGED <<kfree, pagedir, pde, todo>>
     ELSE /\ kfree' = kfree \ {Min(kfree)}
          /\ pagedir' = [pagedir EXCEPT ![p] = Min(kfree)]
          /\ pde' = [pde EXCEPT ![Min(kfree)] = NoPdes]
          /\ \E s \in Segments : todo' = [todo EXCEPT ![p] = s]
          /\ Goes(p, "activate")
  /\ UNCHANGED <<ufree, old_pd, pte, kpage, spare, cur, cr3, tlb>>
process_activate(p) ==
  /\ Steps(p, "activate")
  /\ pagedir_activate(pagedir[p]) /\ Goes(p, "page")
  /\ UNCHANGED <<kfree, ufree, pagedir, old_pd, pde, pte, todo, kpage, spare, cur>>

\* load_segment and setup_stack, which comes last: a frame for the next page.
GetFrame(p) ==
  /\ Steps(p, "page")
  /\ IF ufree = {} THEN Goes(p, "exit") /\ UNCHANGED <<ufree, kpage>>
     ELSE /\ ufree' = ufree \ {Min(ufree)} /\ kpage' = [kpage EXCEPT ![p] = Min(ufree)]
          /\ Goes(p, "read")
  /\ UNCHANGED <<kfree, pagedir, old_pd, pde, pte, todo, spare, cur, cr3, tlb>>
\* file_read may fail; the stack is not read.
ReadPage(p, ok) ==
  /\ Steps(p, "read") /\ (Len(todo[p]) = 1 => ok)
  /\ IF ok THEN Goes(p, "install") /\ UNCHANGED <<ufree, kpage>>
     ELSE /\ ufree' = ufree \cup {kpage[p]} /\ kpage' = [kpage EXCEPT ![p] = NONE]
          /\ Goes(p, "exit")
  /\ UNCHANGED <<kfree, pagedir, old_pd, pde, pte, todo, spare, cur, cr3, tlb>>

\* pagedir_set_page into page table pt.
SetPte(pt, u, frame, writable) ==
  pte' = [pte EXCEPT ![pt][u] = [NoPte EXCEPT !.present = TRUE, !.frame = frame, !.writable = writable]]
NextAfter(p) == IF Len(todo[p]) = 1 THEN "user" ELSE "page"
\* install_page, with lookup_page creating a page table where there is none.
install_page(p) ==
  LET u  == Head(todo[p])
      pd == pagedir[p]
      new == Min(kfree)
  IN  /\ Steps(p, "install") /\ ~Mapped(pd, u.page) /\ (HasPt(pd, u.page) \/ kfree # {})
      /\ IF HasPt(pd, u.page)
         THEN /\ SetPte(pde[pd][PdOf[u.page]], u.page, kpage[p], u.writable)
              /\ UNCHANGED <<kfree, pde>>
         ELSE /\ kfree' = kfree \ {new} /\ pde' = [pde EXCEPT ![pd][PdOf[u.page]] = new]
              /\ pte' = [pte EXCEPT ![new] = [NoPtes EXCEPT ![u.page] =
                   [NoPte EXCEPT !.present = TRUE, !.frame = kpage[p], !.writable = u.writable]]]
      /\ kpage' = [kpage EXCEPT ![p] = NONE]
      /\ todo' = [todo EXCEPT ![p] = Tail(@)] /\ Goes(p, NextAfter(p))
      /\ UNCHANGED <<ufree, pagedir, old_pd, spare, cur, cr3, tlb>>
\* Already mapped, or no page for a page table: the frame is freed.
InstallFails(p) ==
  LET u  == Head(todo[p]).page
      pd == pagedir[p]
  IN  /\ Steps(p, "install") /\ (Mapped(pd, u) \/ (~HasPt(pd, u) /\ kfree = {}))
      /\ ufree' = ufree \cup {kpage[p]} /\ kpage' = [kpage EXCEPT ![p] = NONE]
      /\ Goes(p, "exit")
      /\ UNCHANGED <<kfree, pagedir, old_pd, pde, pte, todo, spare, cur, cr3, tlb>>
-----------------------------------------------------------------------------
\* User code touches a page: the processor uses the TLB if it can, and else
\* the page table, where it sets the bits.  A fault kills the process.
Access(p, u, write) ==
  LET hit == {e \in tlb : e.page = u}
      t   == pde[cr3][PdOf[u]]
      new(e) == [page |-> u, frame |-> e.frame, writable |-> e.writable, dirty |-> e.dirty \/ write]
  IN  /\ Steps(p, "user")
      /\ IF hit # {} /\ (\A e \in hit : write => e.writable /\ e.dirty)
         THEN UNCHANGED <<pte, tlb, pc>>
         ELSE IF Mapped(cr3, u) /\ (write => pte[t][u].writable)
         THEN /\ pte' = [pte EXCEPT ![t][u].accessed = TRUE, ![t][u].dirty = @ \/ write]
              /\ tlb' = (tlb \ hit) \cup {new(pte[t][u])}
              /\ UNCHANGED pc
         ELSE Goes(p, "exit") /\ UNCHANGED <<pte, tlb>>
      /\ UNCHANGED <<kfree, ufree, pagedir, old_pd, pde, todo, kpage, spare, cur, cr3>>

\* What kernel code may do to the page directory of any process: nothing in
\* this kernel calls these yet.
pagedir_clear_page(p, u) ==
  LET t == pde[pagedir[p]][PdOf[u]]
  IN  /\ pc[p] = "user" /\ Mapped(pagedir[p], u)
      /\ pte' = [pte EXCEPT ![t][u].present = FALSE]
      /\ spare' = spare \cup {pte[t][u].frame}
      /\ invalidate_pagedir(pagedir[p])
      /\ UNCHANGED <<kfree, ufree, pagedir, old_pd, pde, pc, todo, kpage, cur>>
pagedir_set_dirty(p, u, value) ==
  LET t == pde[pagedir[p]][PdOf[u]]
  IN  /\ pc[p] = "user" /\ HasPt(pagedir[p], u)
      /\ pte' = [pte EXCEPT ![t][u].dirty = value]
      /\ IF value THEN UNCHANGED <<cr3, tlb>> ELSE invalidate_pagedir(pagedir[p])
      /\ UNCHANGED <<kfree, ufree, pagedir, old_pd, pde, pc, todo, kpage, spare, cur>>
pagedir_set_accessed(p, u, value) ==
  LET t == pde[pagedir[p]][PdOf[u]]
  IN  /\ pc[p] = "user" /\ HasPt(pagedir[p], u)
      /\ pte' = [pte EXCEPT ![t][u].accessed = value]
      /\ IF value THEN UNCHANGED <<cr3, tlb>> ELSE invalidate_pagedir(pagedir[p])
      /\ UNCHANGED <<kfree, ufree, pagedir, old_pd, pde, pc, todo, kpage, spare, cur>>
SpareFreed(f) ==
  /\ f \in spare /\ spare' = spare \ {f} /\ ufree' = ufree \cup {f}
  /\ UNCHANGED <<kfree, pagedir, old_pd, pde, pte, pc, todo, kpage, cur, cr3, tlb>>
-----------------------------------------------------------------------------
\* process_exit: first the thread forgets its page directory, so that a switch
\* cannot bring it back; then the processor; then it is destroyed.
Exits(p) ==
  /\ Steps(p, "user")
  /\ Goes(p, "exit")
  /\ UNCHANGED <<kfree, ufree, pagedir, old_pd, pde, pte, todo, kpage, spare, cur, cr3, tlb>>
\* Mutant: the page directory is forgotten only after it is destroyed.
ForgetPd_late(p) ==
  /\ Steps(p, "exit") /\ Goes(p, "switch")
  /\ old_pd' = [old_pd EXCEPT ![p] = pagedir[p]]
  /\ UNCHANGED <<kfree, ufree, pagedir, pde, pte, todo, kpage, spare, cur, cr3, tlb>>
ForgetPd(p) ==
  /\ Steps(p, "exit") /\ Goes(p, "switch")
  /\ old_pd' = [old_pd EXCEPT ![p] = pagedir[p]] /\ pagedir' = [pagedir EXCEPT ![p] = NONE]
  /\ UNCHANGED <<kfree, ufree, pde, pte, todo, kpage, spare, cur, cr3, tlb>>
LeavePd(p) ==
  /\ Steps(p, "switch") /\ Goes(p, "destroy")
  /\ IF old_pd[p] = NONE THEN UNCHANGED <<cr3, tlb>> ELSE pagedir_activate(INIT)
  /\ UNCHANGED <<kfree, ufree, pagedir, old_pd, pde, pte, todo, kpage, spare, cur>>
\* Every page that is present, every page table, the page directory.
Tables(pd) == {pde[pd][i] : i \in Pds} \ {NONE}
FramesOf(pd) == {Pte(pd, u).frame : u \in {u \in UPages : Mapped(pd, u)}}
pagedir_destroy(p) ==
  /\ Steps(p, "destroy") /\ Goes(p, "new")
  /\ IF old_pd[p] = NONE THEN UNCHANGED <<kfree, ufree, old_pd, pde, pte>>
     ELSE /\ ufree' = ufree \cup FramesOf(old_pd[p])
          /\ kfree' = kfree \cup Tables(old_pd[p]) \cup {old_pd[p]}
          /\ pde' = [pde EXCEPT ![old_pd[p]] = NoPdes]
          /\ pte' = [k \in KPages |-> IF k \in Tables(old_pd[p]) THEN NoPtes ELSE pte[k]]
          /\ old_pd' = [old_pd EXCEPT ![p] = NONE]
  /\ todo' = [todo EXCEPT ![p] = <<>>]
  /\ UNCHANGED <<pagedir, kpage, spare, cur, cr3, tlb>>

\* A switch of threads, by the timer or because one waits.
Switch(q) ==
  /\ q # cur /\ cur' = q
  /\ pagedir_activate(IF pagedir[q] = NONE THEN INIT ELSE pagedir[q])
  /\ UNCHANGED <<kfree, ufree, pagedir, old_pd, pde, pte, pc, todo, kpage, spare>>

Init ==
  /\ kfree = KPages /\ ufree = Frames /\ spare = {}
  /\ pagedir = [p \in Proc |-> NONE] /\ old_pd = [p \in Proc |-> NONE]
  /\ pde = [k \in KPages |-> NoPdes] /\ pte = [k \in KPages |-> NoPtes]
  /\ pc = [p \in Proc |-> "new"] /\ todo = [p \in Proc |-> <<>>] /\ kpage = [p \in Proc |-> NONE]
  /\ cur = CHOOSE p \in Proc : TRUE
  /\ cr3 = INIT /\ tlb = {}
Next ==
  \/ \E p \in Proc :
       \/ pagedir_create(p) \/ process_activate(p) \/ GetFrame(p)
       \/ \E ok \in BOOLEAN : ReadPage(p, ok)
       \/ install_page(p) \/ InstallFails(p)
       \/ Exits(p) \/ ForgetPd(p) \/ LeavePd(p) \/ pagedir_destroy(p)
       \/ Switch(p)
       \/ \E u \in Touched :
            \/ \E write \in BOOLEAN : Access(p, u, write)
            \/ pagedir_clear_page(p, u)
            \/ \E value \in BOOLEAN : pagedir_set_dirty(p, u, value) \/ pagedir_set_accessed(p, u, value)
  \/ \E f \in spare : SpareFreed(f)
Spec == Init /\ [][Next]_vars
-----------------------------------------------------------------------------
\* Free pages are of the pools, and the processor uses a page directory.
TypeOK ==
  /\ kfree \subseteq KPages /\ ufree \subseteq Frames /\ spare \subseteq Frames
  /\ pagedir \in [Proc -> KPages \cup {NONE}] /\ cr3 \in KPages \cup {INIT}
  /\ \A p \in Proc : pc[p] \in {"new", "activate", "page", "read", "install", "user",
                                "exit", "switch", "destroy"}

Directories == ({pagedir[p] : p \in Proc} \cup {old_pd[p] : p \in Proc}) \ {NONE}
\* The frames mapped, the processes' hands, and how often.
Uses(f) ==
  Cardinality({x \in Directories \X UPages : Mapped(x[1], x[2]) /\ Pte(x[1], x[2]).frame = f})
  + Cardinality({p \in Proc : kpage[p] = f})
  + (IF f \in spare THEN 1 ELSE 0) + (IF f \in ufree THEN 1 ELSE 0)
TableUses(k) ==
  Cardinality({x \in Directories \X Pds : pde[x[1]][x[2]] = k})
  + (IF k \in Directories THEN 1 ELSE 0) + (IF k \in kfree THEN 1 ELSE 0)
\* Every frame is free, or mapped once in one address space, or in the hands of
\* one load, through failures at each step of loading and through exits: none
\* is shared, lost or freed twice.  The same for the pages of the tables.
PagesOnce == (\A f \in Frames : Uses(f) = 1) /\ (\A k \in KPages : TableUses(k) = 1)

\* The processor never has a page directory that was freed, wherever the timer
\* switches threads during an exit ("Correct ordering here is crucial").
ActiveNotFreed == cr3 # INIT => cr3 \in Directories \ kfree

\* User code sees the pages of its own process, its whole program and a stack.
UserSeesOwn ==
  pc[cur] = "user" => /\ cr3 = pagedir[cur] /\ todo[cur] = <<>>
                      /\ \A e \in tlb : e.frame \in FramesOf(cr3)

\* The TLB has nothing that the page table does not: a page cleared faults, a
\* dirty or accessed bit cleared is set again by the next access.
TlbCoherent ==
  \A e \in tlb : /\ cr3 # INIT /\ Mapped(cr3, e.page) /\ Pte(cr3, e.page).frame = e.frame
                 /\ Pte(cr3, e.page).accessed
                 /\ e.dirty => Pte(cr3, e.page).dirty
=============================================================================
