----------------------------- MODULE SpaceProofs ----------------------------
(***************************************************************************)
(* The pages of a process are its own and are all given back, whatever     *)
(* fails while it is loaded and wherever threads are switched; the         *)
(* processor never has a page directory that was freed, and the TLB never  *)
(* has more than the page tables: for any processes, pages and programs.   *)
(***************************************************************************)
EXTENDS AddressSpace, TLAPS

\* Pages are positive numbers, programs have a stack, and user code touches
\* user pages.
SpaceConstants ==
  /\ KPages \subseteq Nat \ {0} /\ Frames \subseteq Nat \ {0} /\ Proc # {}
  /\ Segments \subseteq Seq([page : UPages, writable : BOOLEAN]) \ {<<>>}
  /\ Touched \subseteq UPages

\* An entry that is present has a frame.
Entry ==
  {e \in [present : BOOLEAN, frame : Frames \cup {NONE}, writable : BOOLEAN,
          accessed : BOOLEAN, dirty : BOOLEAN] : e.present => e.frame # NONE}
Place == {"new", "activate", "page", "read", "install", "user", "exit", "switch", "destroy"}
SpaceTyped ==
  /\ kfree \subseteq KPages /\ ufree \subseteq Frames /\ spare \subseteq Frames
  /\ pagedir \in [Proc -> KPages \cup {NONE}] /\ old_pd \in [Proc -> KPages \cup {NONE}]
  /\ pde \in [KPages -> [Pds -> KPages \cup {NONE}]] /\ pte \in [KPages -> [UPages -> Entry]]
  /\ pc \in [Proc -> Place] /\ kpage \in [Proc -> Frames \cup {NONE}]
  /\ todo \in [Proc -> Seq([page : UPages, writable : BOOLEAN])]
  /\ cur \in Proc /\ cr3 \in KPages \cup {NONE} /\ (\A e \in tlb : e.page \in UPages)

\* What a process has at each place.  It has a page directory while it loads
\* and runs, and is destroying one only after it forgot it.
Stage(p) ==
  /\ pc[p] = "new" => pagedir[p] = NONE /\ old_pd[p] = NONE
  /\ pc[p] \in {"activate", "page", "read", "install", "user"} => pagedir[p] # NONE
  /\ pc[p] \in {"switch", "destroy"} => pagedir[p] = NONE
  /\ pagedir[p] # NONE \/ pc[p] = "exit" => old_pd[p] = NONE
  /\ pc[p] \in {"activate", "page", "read", "install"} => todo[p] # <<>>
  /\ pc[p] = "user" => todo[p] = <<>>
  /\ kpage[p] # NONE <=> pc[p] \in {"read", "install"}

\* The page directory a process has or is destroying, its page tables and the
\* frames it has mapped.
Dir(p) == IF pagedir[p] # NONE THEN pagedir[p] ELSE old_pd[p]
Table(p, i) == IF Dir(p) # NONE THEN pde[Dir(p)][i] ELSE NONE
EntryAt(p, u) == pte[Table(p, PdOf[u])][u]
Frame(p, u) ==
  IF Table(p, PdOf[u]) # NONE /\ EntryAt(p, u).present THEN EntryAt(p, u).frame ELSE NONE

\* A page of the kernel pool is free, or one page directory, or one page table.
DirsApart ==
  /\ \A p, q \in Proc : Dir(p) # NONE /\ Dir(p) = Dir(q) => p = q
  /\ \A p \in Proc : Dir(p) \notin kfree
OneTable(p, q, i, j) == Table(p, i) # NONE /\ Table(p, i) = Table(q, j) => p = q /\ i = j
TablesApart ==
  /\ \A p \in Proc, i \in Pds : Table(p, i) \notin kfree
  /\ \A p, q \in Proc, i \in Pds : Table(p, i) # NONE => Dir(q) # Table(p, i)
  /\ \A p, q \in Proc, i, j \in Pds : OneTable(p, q, i, j)
KernelKept ==
  \A k \in KPages : \/ k \in kfree \/ \E p \in Proc : Dir(p) = k
                    \/ \E p \in Proc, i \in Pds : Table(p, i) = k

\* A frame is free, or unmapped and kept, or being loaded, or mapped once.
LoadsApart ==
  /\ ufree \cap spare = {}
  /\ \A p \in Proc : kpage[p] \notin ufree /\ kpage[p] \notin spare
  /\ \A p, q \in Proc : kpage[p] # NONE /\ kpage[p] = kpage[q] => p = q
OneFrame(p, q, u, v) == Frame(p, u) # NONE /\ Frame(p, u) = Frame(q, v) => p = q /\ u = v
FramesApart ==
  /\ \A p \in Proc, u \in UPages : Frame(p, u) \notin ufree /\ Frame(p, u) \notin spare
  /\ \A p, q \in Proc, u \in UPages : Frame(p, u) # NONE => kpage[q] # Frame(p, u)
  /\ \A p, q \in Proc, u, v \in UPages : OneFrame(p, q, u, v)
UserKept ==
  \A f \in Frames : \/ f \in ufree \/ f \in spare \/ \E p \in Proc : kpage[p] = f
                    \/ \E p \in Proc, u \in UPages : Frame(p, u) = f

\* The processor has the page directory of the thread that runs, or none.
Active ==
  /\ cr3 \in {NONE, Dir(cur)}
  /\ pc[cur] \in {"page", "read", "install", "user", "exit"} => cr3 = pagedir[cur]
  /\ pc[cur] \in {"new", "destroy"} => cr3 = NONE

SpaceInv ==
  /\ SpaceTyped /\ (\A p \in Proc : Stage(p)) /\ DirsApart /\ TablesApart /\ KernelKept
  /\ LoadsApart /\ FramesApart /\ UserKept /\ Active /\ TlbCoherent
-----------------------------------------------------------------------------
\* One entry of one page table is changed, to e.
Changed(t, u, e) ==
  /\ pte' \in [KPages -> [UPages -> Entry]] /\ pte'[t][u] = e
  /\ \A k \in KPages, v \in UPages : k # t \/ v # u => pte'[k][v] = pte[k][v]

\* An entry with bits changed: by pagedir_clear_page, by pagedir_set_dirty and
\* pagedir_set_accessed, and by the processor.
Absent(e) == [e EXCEPT !.present = FALSE]
WithDirty(e, b) == [e EXCEPT !.dirty = b]
WithAccessed(e, b) == [e EXCEPT !.accessed = b]
AfterAccess(e, write) == [e EXCEPT !.accessed = TRUE, !.dirty = @ \/ write]

\* What the TLB says of a page of the process that runs.
TlbEntry(x) ==
  /\ Table(cur, PdOf[x.page]) # NONE /\ EntryAt(cur, x.page).present
  /\ EntryAt(cur, x.page).frame = x.frame /\ EntryAt(cur, x.page).accessed
  /\ x.dirty => EntryAt(cur, x.page).dirty

\* Page u of p gets frame f, and the rest of the page tables is as it was.
Installed(p, u, f) ==
  /\ kfree' \subseteq KPages /\ pde' \in [KPages -> [Pds -> KPages \cup {NONE}]]
  /\ pte' \in [KPages -> [UPages -> Entry]] /\ DirsApart' /\ TablesApart' /\ KernelKept'
  /\ Frame(p, u)' = f
  /\ \A q \in Proc, v \in UPages : q # p \/ v # u => Frame(q, v)' = Frame(q, v)
  /\ \A q \in Proc, v \in UPages : (q # p \/ v # u) /\ Table(q, PdOf[v]) # NONE =>
       Table(q, PdOf[v])' = Table(q, PdOf[v]) /\ EntryAt(q, v)' = EntryAt(q, v)

\* Entry j of page directory d becomes k.
PdeChanged(d, j, k) ==
  /\ pde' \in [KPages -> [Pds -> KPages \cup {NONE}]] /\ pde'[d][j] = k
  /\ \A i \in Pds : i # j => pde'[d][i] = pde[d][i]
  /\ \A x \in KPages : x # d => pde'[x] = pde[x]

\* What a process has is gone, and nothing of the others is changed.
Gone(p) ==
  /\ Dir(p)' = NONE /\ (\A q \in Proc : q # p => Dir(q)' = Dir(q))
  /\ (\A i : Table(p, i)' = NONE) /\ (\A q \in Proc, i \in Pds : q # p => Table(q, i)' = Table(q, i))
  /\ (\A u : Frame(p, u)' = NONE) /\ (\A q \in Proc, u \in UPages : q # p => Frame(q, u)' = Frame(q, u))

\* The first of some pages, which palloc takes, is one of them: MinIn proves it,
\* at the end, where the facts of the library are.
Firsts == \A S : S \subseteq Nat /\ S # {} => Min(S) \in S
-----------------------------------------------------------------------------
\* NONE, which is INIT too, is no page.
LEMMA NoPage ==
  ASSUME SpaceConstants
  PROVE  NONE \notin KPages /\ NONE \notin Frames /\ INIT = NONE
BY DEF SpaceConstants, NONE, INIT

\* So it is a page of its pool.
LEMMA MinPage ==
  ASSUME SpaceConstants, SpaceTyped, Firsts
  PROVE  /\ kfree # {} => Min(kfree) \in kfree /\ Min(kfree) \in KPages
         /\ ufree # {} => Min(ufree) \in ufree /\ Min(ufree) \in Frames
<1>1. kfree \subseteq KPages /\ ufree \subseteq Frames
  BY Zenon DEF SpaceTyped
<1>2. KPages \subseteq Nat /\ Frames \subseteq Nat
  BY Zenon DEF SpaceConstants
<1>3. kfree \subseteq Nat /\ ufree \subseteq Nat
  BY Zenon, <1>1, <1>2
<1>4. QED BY Zenon, <1>1, <1>3 DEF Firsts

\* The fields of an entry.
LEMMA EntryFields ==
  ASSUME NEW e \in Entry
  PROVE  /\ e.present \in BOOLEAN /\ e.writable \in BOOLEAN /\ e.accessed \in BOOLEAN
         /\ e.dirty \in BOOLEAN /\ e.frame \in Frames \cup {NONE}
         /\ e.present => e.frame \in Frames
BY DEF Entry

\* And an empty one.
LEMMA NoEntry == NoPte \in Entry /\ NoPte.present = FALSE
BY DEF NoPte, Entry

\* Setting an entry changes it.
LEMMA EntrySet ==
  ASSUME pte \in [KPages -> [UPages -> Entry]], NEW t \in KPages, NEW u \in UPages, NEW e \in Entry,
         pte' = [pte EXCEPT ![t][u] = e]
  PROVE  Changed(t, u, e)
<1>1. pte[t] \in [UPages -> Entry]
  BY Zenon
<1>2. [pte[t] EXCEPT ![u] = e] \in [UPages -> Entry]
  BY Zenon, <1>1
<1>3. pte' = [pte EXCEPT ![t] = [pte[t] EXCEPT ![u] = e]]
  BY SMT
<1>4. pte' \in [KPages -> [UPages -> Entry]]
  BY Zenon, <1>2, <1>3
<1>5. pte'[t] = [pte[t] EXCEPT ![u] = e] /\ \A k \in KPages : k # t => pte'[k] = pte[k]
  BY Zenon, <1>3
<1>6. pte'[t][u] = e /\ \A v \in UPages : v # u => pte'[t][v] = pte[t][v]
  BY Zenon, <1>1, <1>5
<1>7. QED BY Zenon, <1>4, <1>5, <1>6 DEF Changed

\* Page directories and page tables are pages of the kernel, frames of the user.
LEMMA PageKinds ==
  ASSUME SpaceConstants, SpaceTyped, NEW p \in Proc
  PROVE  /\ Dir(p) \in KPages \cup {NONE} /\ \A i \in Pds : Table(p, i) \in KPages \cup {NONE}
         /\ \A u \in UPages : /\ PdOf[u] \in Pds /\ Frame(p, u) \in Frames \cup {NONE}
                              /\ Table(p, PdOf[u]) # NONE => EntryAt(p, u) \in Entry
                              /\ Frame(p, u) # NONE => Table(p, PdOf[u]) # NONE
<1>1. /\ pagedir \in [Proc -> KPages \cup {NONE}] /\ old_pd \in [Proc -> KPages \cup {NONE}]
      /\ pde \in [KPages -> [Pds -> KPages \cup {NONE}]] /\ pte \in [KPages -> [UPages -> Entry]]
  BY Zenon DEF SpaceTyped
<1>2. Dir(p) \in KPages \cup {NONE}
  BY Zenon, <1>1 DEF Dir
<1>3. \A i \in Pds : Table(p, i) \in KPages \cup {NONE}
  BY Zenon, <1>1, <1>2 DEF Table
<1>4. ASSUME NEW u \in UPages
      PROVE  /\ PdOf[u] \in Pds /\ Frame(p, u) \in Frames \cup {NONE}
             /\ Table(p, PdOf[u]) # NONE => EntryAt(p, u) \in Entry
             /\ Frame(p, u) # NONE => Table(p, PdOf[u]) # NONE
  <2>1. PdOf[u] \in Pds
    BY Zenon DEF Pds
  <2>2. Table(p, PdOf[u]) # NONE => EntryAt(p, u) \in Entry
    BY Zenon, <1>1, <1>3, <2>1 DEF EntryAt
  <2>3. Frame(p, u) \in Frames \cup {NONE}
    BY Zenon, <2>2, EntryFields DEF Frame
  <2>4. QED BY Zenon, <2>1, <2>2, <2>3 DEF Frame
<1>5. QED BY Zenon, <1>2, <1>3, <1>4

\* A process that loads or runs has its page directory in use.
LEMMA DirIs ==
  ASSUME SpaceConstants, SpaceTyped, NEW p \in Proc, pagedir[p] # NONE
  PROVE  /\ Dir(p) = pagedir[p] /\ Dir(p) \in KPages /\ Dir(p) # NONE
         /\ \A i \in Pds : Table(p, i) = pde[pagedir[p]][i]
         /\ \A u \in UPages : /\ HasPt(pagedir[p], u) <=> Table(p, PdOf[u]) # NONE
                              /\ Pte(pagedir[p], u) = EntryAt(p, u)
                              /\ Mapped(pagedir[p], u) <=> Frame(p, u) # NONE
<1>1. Dir(p) = pagedir[p] /\ Dir(p) # NONE
  BY Zenon DEF Dir
<1>2. Dir(p) \in KPages
  BY Zenon, <1>1, PageKinds
<1>3. \A i \in Pds : Table(p, i) = pde[pagedir[p]][i]
  BY Zenon, <1>1 DEF Table
<1>4. ASSUME NEW u \in UPages
      PROVE  /\ HasPt(pagedir[p], u) <=> Table(p, PdOf[u]) # NONE
             /\ Pte(pagedir[p], u) = EntryAt(p, u)
             /\ Mapped(pagedir[p], u) <=> Frame(p, u) # NONE
  <2>1. PdOf[u] \in Pds /\ (Table(p, PdOf[u]) # NONE => EntryAt(p, u) \in Entry)
    BY Zenon, PageKinds
  <2>2. HasPt(pagedir[p], u) <=> Table(p, PdOf[u]) # NONE
    BY Zenon, <1>3, <2>1 DEF HasPt
  <2>3. Pte(pagedir[p], u) = EntryAt(p, u)
    BY Zenon, <1>3, <2>1 DEF Pte, EntryAt
  <2>4. Table(p, PdOf[u]) # NONE /\ EntryAt(p, u).present => EntryAt(p, u).frame # NONE
    BY Zenon, <2>1, EntryFields, NoPage
  <2>5. QED BY Zenon, <2>2, <2>3, <2>4 DEF Mapped, Frame
<1>5. QED BY Zenon, <1>1, <1>2, <1>3, <1>4

\* The kernel's pages when no page directory or page table comes or goes.
LEMMA KernelStays ==
  ASSUME DirsApart, TablesApart, KernelKept, kfree' = kfree,
         \A q \in Proc : Dir(q)' = Dir(q),
         \A q \in Proc, i \in Pds : Table(q, i)' = Table(q, i)
  PROVE  DirsApart' /\ TablesApart' /\ KernelKept'
<1>1. DirsApart'
  BY Zenon DEF DirsApart
<1>2. TablesApart'
  <2>1. \A p \in Proc, i \in Pds : Table(p, i)' \notin kfree'
    BY Zenon DEF TablesApart
  <2>2. ASSUME NEW p \in Proc, NEW q \in Proc, NEW i \in Pds, Table(p, i)' # NONE
        PROVE  Dir(q)' # Table(p, i)'
    <3>1. Table(p, i)' = Table(p, i) /\ Dir(q)' = Dir(q)
      BY Zenon
    <3>2. QED BY SMT, <2>2, <3>1 DEF TablesApart
  <2>3. ASSUME NEW p \in Proc, NEW q \in Proc, NEW i \in Pds, NEW j \in Pds
        PROVE  OneTable(p, q, i, j)'
    <3>1. Table(p, i)' = Table(p, i) /\ Table(q, j)' = Table(q, j)
      BY Zenon
    <3>2. OneTable(p, q, i, j)
      BY Zenon DEF TablesApart
    <3>3. QED BY SMT, <3>1, <3>2 DEF OneTable
  <2>4. QED BY Zenon, <2>1, <2>2, <2>3 DEF TablesApart
<1>3. KernelKept'
  BY Zenon DEF KernelKept
<1>4. QED BY Zenon, <1>1, <1>2, <1>3

\* And the frames when none comes or goes.
LEMMA UserStays ==
  ASSUME LoadsApart, FramesApart, UserKept, UNCHANGED <<ufree, spare, kpage>>,
         \A q \in Proc, u \in UPages : Frame(q, u)' = Frame(q, u)
  PROVE  LoadsApart' /\ FramesApart' /\ UserKept'
<1>1. LoadsApart'
  BY Zenon DEF LoadsApart
<1>2. FramesApart'
  <2>1. \A p \in Proc, u \in UPages : Frame(p, u)' \notin ufree' /\ Frame(p, u)' \notin spare'
    BY Zenon DEF FramesApart
  <2>2. ASSUME NEW p \in Proc, NEW q \in Proc, NEW u \in UPages, Frame(p, u)' # NONE
        PROVE  kpage'[q] # Frame(p, u)'
    <3>1. Frame(p, u)' = Frame(p, u) /\ kpage' = kpage
      BY Zenon
    <3>2. QED BY SMT, <2>2, <3>1 DEF FramesApart
  <2>3. ASSUME NEW p \in Proc, NEW q \in Proc, NEW u \in UPages, NEW v \in UPages
        PROVE  OneFrame(p, q, u, v)'
    <3>1. Frame(p, u)' = Frame(p, u) /\ Frame(q, v)' = Frame(q, v)
      BY Zenon
    <3>2. OneFrame(p, q, u, v)
      BY Zenon DEF FramesApart
    <3>3. QED BY SMT, <3>1, <3>2 DEF OneFrame
  <2>4. QED BY Zenon, <2>1, <2>2, <2>3 DEF FramesApart
<1>3. UserKept'
  BY Zenon DEF UserKept
<1>4. QED BY Zenon, <1>1, <1>2, <1>3

\* Nothing about a page directory changes but who calls it its own.
LEMMA TablesStay ==
  ASSUME \A q \in Proc : Dir(q)' = Dir(q), UNCHANGED <<pde, pte>>
  PROVE  /\ \A q \in Proc, i \in Pds : Table(q, i)' = Table(q, i)
         /\ \A q \in Proc, u \in UPages : EntryAt(q, u)' = EntryAt(q, u) /\ Frame(q, u)' = Frame(q, u)
<1>1. ASSUME NEW q \in Proc, NEW i PROVE Table(q, i)' = Table(q, i)
  BY Zenon DEF Table
<1>2. ASSUME NEW q \in Proc, NEW u \in UPages PROVE EntryAt(q, u)' = EntryAt(q, u)
  BY Zenon, <1>1 DEF EntryAt
<1>3. ASSUME NEW q \in Proc, NEW u \in UPages PROVE Frame(q, u)' = Frame(q, u)
  BY Zenon, <1>1, <1>2 DEF Frame
<1>4. QED BY Zenon, <1>1, <1>2, <1>3

\* Nothing about pages changes.
LEMMA PagesStay ==
  ASSUME SpaceInv, UNCHANGED <<kfree, ufree, spare, kpage, pagedir, old_pd, pde, pte>>
  PROVE  /\ DirsApart' /\ TablesApart' /\ KernelKept' /\ LoadsApart' /\ FramesApart' /\ UserKept'
         /\ \A q \in Proc : Dir(q)' = Dir(q)
<1>1. \A q \in Proc : Dir(q)' = Dir(q)
  BY Zenon DEF Dir
<1>2. /\ \A q \in Proc, i \in Pds : Table(q, i)' = Table(q, i)
      /\ \A q \in Proc, u \in UPages : Frame(q, u)' = Frame(q, u)
  BY Zenon, <1>1, TablesStay
<1>3. QED BY Zenon, <1>1, <1>2, KernelStays, UserStays DEF SpaceInv

\* The stage of a process that does not step.
LEMMA StageStays ==
  ASSUME NEW q \in Proc, Stage(q), pc'[q] = pc[q], pagedir'[q] = pagedir[q], old_pd'[q] = old_pd[q],
         todo'[q] = todo[q], kpage'[q] = kpage[q]
  PROVE  Stage(q)'
BY Zenon DEF Stage

\* Where a process is after it goes there.
LEMMA GoesTo ==
  ASSUME SpaceTyped, NEW p \in Proc, NEW where \in Place, Goes(p, where)
  PROVE  /\ pc' \in [Proc -> Place] /\ pc'[p] = where
         /\ \A q \in Proc : q # p => pc'[q] = pc[q]
BY Zenon DEF Goes, SpaceTyped

\* The conjuncts of the invariant.
LEMMA SpaceFacts ==
  ASSUME SpaceInv
  PROVE  /\ SpaceTyped /\ (\A q \in Proc : Stage(q)) /\ DirsApart /\ TablesApart /\ KernelKept
         /\ LoadsApart /\ FramesApart /\ UserKept /\ Active /\ TlbCoherent
BY Zenon DEF SpaceInv

\* The TLB when neither it nor the tables change.
LEMMA TlbStays ==
  ASSUME TlbCoherent, UNCHANGED <<cr3, tlb, pde, pte>>
  PROVE  TlbCoherent'
BY Zenon DEF TlbCoherent, Mapped, HasPt, Pte

\* An empty TLB.
LEMMA TlbEmpty ==
  ASSUME tlb' = {}
  PROVE  TlbCoherent'
BY Zenon DEF TlbCoherent
-----------------------------------------------------------------------------
\* A step of a process from one place to another that leaves the pages alone.
LEMMA PlaceStep ==
  ASSUME SpaceInv, NEW p \in Proc, NEW where \in Place, Goes(p, where),
         UNCHANGED <<kfree, ufree, spare, kpage, pagedir, old_pd, pde, pte, todo, cur>>,
         cr3' \in KPages \cup {NONE}, \A e \in tlb' : e.page \in UPages,
         Stage(p)', Active', TlbCoherent'
  PROVE  SpaceInv'
<1>1. SpaceTyped /\ \A q \in Proc : Stage(q)
  BY Zenon, SpaceFacts
<1>2. pc' \in [Proc -> Place] /\ \A q \in Proc : q # p => pc'[q] = pc[q]
  BY Zenon, <1>1, GoesTo
<1>3. SpaceTyped'
  BY Zenon, <1>1, <1>2 DEF SpaceTyped
<1>4. ASSUME NEW q \in Proc PROVE Stage(q)'
  <2>1. CASE q = p
    BY Zenon, <2>1
  <2>2. CASE q # p
    BY Zenon, <1>1, <1>2, <2>2, StageStays
  <2>3. QED BY Zenon, <2>1, <2>2
<1>5. DirsApart' /\ TablesApart' /\ KernelKept' /\ LoadsApart' /\ FramesApart' /\ UserKept'
  BY Zenon, PagesStay
<1>6. QED BY Zenon, <1>3, <1>4, <1>5 DEF SpaceInv

\* process_activate: the processor gets the page directory being filled.
LEMMA ActivateStep ==
  ASSUME SpaceConstants, SpaceInv, NEW p \in Proc, process_activate(p)
  PROVE  SpaceInv'
<1>1. /\ cur = p /\ pc[p] = "activate" /\ cr3' = pagedir[p] /\ tlb' = {} /\ Goes(p, "page")
      /\ UNCHANGED <<kfree, ufree, pagedir, old_pd, pde, pte, todo, kpage, spare, cur>>
  BY Zenon DEF process_activate, Steps, pagedir_activate
<1>2. SpaceTyped /\ Stage(p) /\ "page" \in Place
  BY Zenon, SpaceFacts DEF Place
<1>3. pc'[p] = "page"
  BY Zenon, <1>1, <1>2, GoesTo
<1>4. pagedir[p] # NONE
  BY Zenon, <1>1, <1>2 DEF Stage
<1>5. Stage(p)'
  BY Zenon, <1>1, <1>2, <1>3 DEF Stage
<1>6. Dir(p)' = pagedir[p] /\ cr3' \in KPages \cup {NONE}
  BY Zenon, <1>1, <1>2, <1>4 DEF Dir, SpaceTyped
<1>7. Active'
  BY Zenon, <1>1, <1>3, <1>6 DEF Active
<1>8. QED BY Zenon, <1>1, <1>2, <1>5, <1>6, <1>7, PlaceStep, TlbEmpty

\* A process goes on, or to its exit, with what it has.
LEMMA GoesOn ==
  ASSUME SpaceInv, NEW p \in Proc, NEW where \in {"install", "exit"}, Goes(p, where), cur = p,
         \/ where = "install" /\ pc[p] = "read"
         \/ where = "exit" /\ pc[p] \in {"new", "page", "user"},
         UNCHANGED <<kfree, ufree, spare, kpage, pagedir, old_pd, pde, pte, todo, cur, cr3, tlb>>
  PROVE  SpaceInv'
<1>1. SpaceTyped /\ Stage(p) /\ where \in Place /\ Active /\ TlbCoherent
  BY Zenon, SpaceFacts DEF Place
<1>2. pc'[p] = where
  BY Zenon, <1>1, GoesTo
<1>3. Stage(p)'
  BY Zenon, <1>1, <1>2 DEF Stage
<1>4. Dir(p)' = Dir(p)
  BY Zenon DEF Dir
<1>5. cr3 = pagedir[p] /\ cr3 \in {NONE, Dir(p)}
  BY Zenon, <1>1 DEF Active, Stage
<1>6. Active'
  BY Zenon, <1>2, <1>4, <1>5 DEF Active
<1>7. TlbCoherent' /\ cr3' \in KPages \cup {NONE} /\ \A e \in tlb' : e.page \in UPages
  BY Zenon, <1>1, TlbStays DEF SpaceTyped
<1>8. QED BY Zenon, <1>1, <1>3, <1>6, <1>7, PlaceStep

\* The process leaves user code.
LEMMA ExitsStep ==
  ASSUME SpaceInv, NEW p \in Proc, Exits(p)
  PROVE  SpaceInv'
BY Zenon, GoesOn DEF Exits, Steps

\* process_exit gives the processor init_page_dir, unless there is none to leave.
LEMMA LeaveStep ==
  ASSUME SpaceConstants, SpaceInv, NEW p \in Proc, LeavePd(p)
  PROVE  SpaceInv'
<1>1. /\ cur = p /\ pc[p] = "switch" /\ Goes(p, "destroy")
      /\ (old_pd[p] = NONE /\ cr3' = cr3 /\ tlb' = tlb) \/ (cr3' = INIT /\ tlb' = {})
      /\ UNCHANGED <<kfree, ufree, pagedir, old_pd, pde, pte, todo, kpage, spare, cur>>
  BY Zenon DEF LeavePd, Steps, pagedir_activate
<1>2. SpaceTyped /\ Stage(p) /\ "destroy" \in Place /\ Active /\ TlbCoherent /\ INIT = NONE
  BY Zenon, SpaceFacts, NoPage DEF Place
<1>3. pc'[p] = "destroy"
  BY Zenon, <1>1, <1>2, GoesTo
<1>4. Stage(p)'
  BY Zenon, <1>1, <1>2, <1>3 DEF Stage
<1>5. pagedir[p] = NONE
  BY Zenon, <1>1, <1>2 DEF Stage
<1>6. cr3' = NONE
  <2>1. Dir(p) = old_pd[p] /\ cr3 \in {NONE, Dir(p)}
    BY Zenon, <1>1, <1>2, <1>5 DEF Active, Dir
  <2>2. QED BY Zenon, <1>1, <1>2, <2>1
<1>7. Active'
  BY Zenon, <1>1, <1>3, <1>6 DEF Active
<1>8. TlbCoherent' /\ \A e \in tlb' : e.page \in UPages
  BY Zenon, <1>1, <1>2, TlbStays, TlbEmpty DEF SpaceTyped
<1>9. QED BY Zenon, <1>1, <1>2, <1>4, <1>6, <1>7, <1>8, PlaceStep

\* The timer switches threads: the next one's page directory is activated, and
\* it is never one that is being destroyed.
LEMMA SwitchStep ==
  ASSUME SpaceConstants, SpaceInv, NEW q \in Proc, Switch(q)
  PROVE  SpaceInv'
<1>1. /\ cur' = q /\ cr3' = (IF pagedir[q] = NONE THEN INIT ELSE pagedir[q]) /\ tlb' = {}
      /\ UNCHANGED <<kfree, ufree, pagedir, old_pd, pde, pte, pc, todo, kpage, spare>>
  BY Zenon DEF Switch, pagedir_activate
<1>2. SpaceTyped /\ (\A p \in Proc : Stage(p)) /\ INIT = NONE
  BY Zenon, SpaceFacts, NoPage
<1>3. cr3' = pagedir[q]
  BY Zenon, <1>1, <1>2
<1>4. SpaceTyped'
  BY Zenon, <1>1, <1>2, <1>3 DEF SpaceTyped
<1>5. \A p \in Proc : Stage(p)'
  BY Zenon, <1>1, <1>2, StageStays
<1>6. /\ DirsApart' /\ TablesApart' /\ KernelKept' /\ LoadsApart' /\ FramesApart' /\ UserKept'
      /\ Dir(q)' = Dir(q)
  BY Zenon, <1>1, PagesStay
<1>7. cr3' \in {NONE, Dir(q)} /\ (pc[q] \in {"new", "destroy"} => cr3' = NONE)
  BY Zenon, <1>2, <1>3 DEF Dir, Stage
<1>8. Active'
  BY Zenon, <1>1, <1>3, <1>6, <1>7 DEF Active
<1>9. QED BY Zenon, <1>1, <1>4, <1>5, <1>6, <1>8, TlbEmpty DEF SpaceInv

\* The thread forgets its page directory, and is the one that destroys it.
LEMMA ForgetStep ==
  ASSUME SpaceConstants, SpaceInv, NEW p \in Proc, ForgetPd(p)
  PROVE  SpaceInv'
<1>1. /\ cur = p /\ pc[p] = "exit" /\ Goes(p, "switch")
      /\ old_pd' = [old_pd EXCEPT ![p] = pagedir[p]] /\ pagedir' = [pagedir EXCEPT ![p] = NONE]
      /\ UNCHANGED <<kfree, ufree, pde, pte, todo, kpage, spare, cur, cr3, tlb>>
  BY Zenon DEF ForgetPd, Steps
<1>2. SpaceTyped /\ (\A q \in Proc : Stage(q)) /\ "switch" \in Place /\ Active /\ TlbCoherent
  BY Zenon, SpaceFacts DEF Place
<1>3. pc' \in [Proc -> Place] /\ pc'[p] = "switch" /\ \A q \in Proc : q # p => pc'[q] = pc[q]
  BY Zenon, <1>1, <1>2, GoesTo
<1>4. /\ pagedir'[p] = NONE /\ old_pd'[p] = pagedir[p] /\ old_pd[p] = NONE
      /\ \A q \in Proc : q # p => pagedir'[q] = pagedir[q] /\ old_pd'[q] = old_pd[q]
      /\ pagedir' \in [Proc -> KPages \cup {NONE}] /\ old_pd' \in [Proc -> KPages \cup {NONE}]
  BY Zenon, <1>1, <1>2 DEF SpaceTyped, Stage
<1>5. SpaceTyped'
  BY Zenon, <1>1, <1>2, <1>3, <1>4 DEF SpaceTyped
<1>6. ASSUME NEW q \in Proc PROVE Stage(q)' /\ Dir(q)' = Dir(q)
  <2>1. CASE q = p
    <3>1. Stage(p)'
      BY Zenon, <1>1, <1>2, <1>3, <1>4 DEF Stage
    <3>2. Dir(p)' = Dir(p)
      BY Zenon, <1>4 DEF Dir
    <3>3. QED BY Zenon, <2>1, <3>1, <3>2
  <2>2. CASE q # p
    <3>1. Stage(q)'
      BY Zenon, <1>1, <1>2, <1>3, <1>4, <2>2, StageStays
    <3>2. Dir(q)' = Dir(q)
      BY Zenon, <1>4, <2>2 DEF Dir
    <3>3. QED BY Zenon, <3>1, <3>2
  <2>3. QED BY Zenon, <2>1, <2>2
<1>7. /\ \A q \in Proc, i \in Pds : Table(q, i)' = Table(q, i)
      /\ \A q \in Proc, u \in UPages : Frame(q, u)' = Frame(q, u)
  BY Zenon, <1>1, <1>6, TablesStay
<1>8. DirsApart' /\ TablesApart' /\ KernelKept'
  BY Zenon, <1>1, <1>6, <1>7, SpaceFacts, KernelStays
<1>9. LoadsApart' /\ FramesApart' /\ UserKept'
  BY Zenon, <1>1, <1>7, SpaceFacts, UserStays
<1>10. Active'
  BY Zenon, <1>1, <1>2, <1>3, <1>6 DEF Active
<1>11. TlbCoherent'
  BY Zenon, <1>1, <1>2, TlbStays
<1>12. QED BY Zenon, <1>5, <1>6, <1>8, <1>9, <1>10, <1>11 DEF SpaceInv
-----------------------------------------------------------------------------
\* Nothing changes in the tables and in whose they are.
LEMMA MapsStay ==
  ASSUME SpaceInv, UNCHANGED <<kfree, pagedir, old_pd, pde, pte>>
  PROVE  /\ \A q \in Proc : Dir(q)' = Dir(q)
         /\ \A q \in Proc, u \in UPages : Frame(q, u)' = Frame(q, u)
         /\ DirsApart' /\ TablesApart' /\ KernelKept'
<1>1. \A q \in Proc : Dir(q)' = Dir(q)
  BY Zenon DEF Dir
<1>2. /\ \A q \in Proc, i \in Pds : Table(q, i)' = Table(q, i)
      /\ \A q \in Proc, u \in UPages : Frame(q, u)' = Frame(q, u)
  BY Zenon, <1>1, TablesStay
<1>3. QED BY Zenon, <1>1, <1>2, SpaceFacts, KernelStays

\* The steps of load_segment and setup_stack, but for the one that installs the page.
LEMMA LoadSteps ==
  ASSUME SpaceConstants, SpaceInv, Firsts
  PROVE  \A p \in Proc : GetFrame(p) \/ (\E ok \in BOOLEAN : ReadPage(p, ok)) \/ InstallFails(p) => SpaceInv'
\* A frame gets from the pool into the hands of a load.
<1>FrameTaken.
  ASSUME NEW p \in Proc, NEW f \in ufree, kpage[p] = NONE,
         ufree' = ufree \ {f}, kpage' = [kpage EXCEPT ![p] = f], spare' = spare,
         \A q \in Proc, u \in UPages : Frame(q, u)' = Frame(q, u)
  PROVE  LoadsApart' /\ FramesApart' /\ UserKept'
  <2> USE <1>FrameTaken
  <2>1. SpaceTyped /\ LoadsApart /\ FramesApart /\ UserKept
    BY Zenon, SpaceFacts
  <2>2. f \in Frames /\ f # NONE /\ f \notin spare
    <3>1. f \in Frames /\ f # NONE
      BY Zenon, <2>1, NoPage DEF SpaceTyped
    <3>2. f \notin spare
      BY Zenon, <2>1 DEF LoadsApart
    <3>3. QED BY Zenon, <3>1, <3>2
  <2>3. kpage'[p] = f /\ \A q \in Proc : q # p => kpage'[q] = kpage[q]
    BY Zenon, <2>1 DEF SpaceTyped
  <2>4. \A q \in Proc : kpage[q] # f
    BY Zenon, <2>1 DEF LoadsApart
  <2>5. LoadsApart'
    <3>1. ufree' \cap spare' = {}
      BY Zenon, <2>1 DEF LoadsApart
    <3>2. ASSUME NEW q \in Proc PROVE kpage'[q] \notin ufree' /\ kpage'[q] \notin spare'
      <4>1. kpage[q] \notin ufree /\ kpage[q] \notin spare
        BY Zenon, <2>1 DEF LoadsApart
      <4>2. QED BY SMT, <2>2, <2>3, <4>1
    <3>3. ASSUME NEW q \in Proc, NEW r \in Proc, kpage'[q] # NONE /\ kpage'[q] = kpage'[r] PROVE q = r
      <4>1. CASE q # p /\ r # p
        BY Zenon, <2>1, <2>3, <3>3, <4>1 DEF LoadsApart
      <4>2. QED BY Zenon, <2>3, <2>4, <3>3, <4>1
    <3>4. QED BY Zenon, <3>1, <3>2, <3>3 DEF LoadsApart
  <2>6. FramesApart'
    <3>1. ASSUME NEW q \in Proc, NEW u \in UPages
          PROVE  Frame(q, u)' \notin ufree' /\ Frame(q, u)' \notin spare'
      <4>1. Frame(q, u) \notin ufree /\ Frame(q, u) \notin spare /\ Frame(q, u)' = Frame(q, u)
        BY Zenon, <2>1 DEF FramesApart
      <4>2. QED BY Zenon, <4>1
    <3>2. ASSUME NEW q \in Proc, NEW r \in Proc, NEW u \in UPages, Frame(q, u)' # NONE
          PROVE  kpage'[r] # Frame(q, u)'
      <4>1. /\ Frame(q, u) \notin ufree /\ Frame(q, u)' = Frame(q, u)
            /\ Frame(q, u) # NONE => kpage[r] # Frame(q, u)
        BY Zenon, <2>1 DEF FramesApart
      <4>2. QED BY Zenon, <2>3, <3>2, <4>1
    <3>3. ASSUME NEW q \in Proc, NEW r \in Proc, NEW u \in UPages, NEW v \in UPages
          PROVE  OneFrame(q, r, u, v)'
      <4>1. /\ OneFrame(q, r, u, v) /\ Frame(q, u)' = Frame(q, u) /\ Frame(r, v)' = Frame(r, v)
        BY Zenon, <2>1 DEF FramesApart
      <4>2. QED BY Zenon, <4>1 DEF OneFrame
    <3>4. QED BY Zenon, <3>1, <3>2, <3>3 DEF FramesApart
  <2>7. ASSUME NEW g \in Frames
        PROVE  \/ g \in ufree' \/ g \in spare' \/ \E q \in Proc : kpage'[q] = g
               \/ \E q \in Proc, u \in UPages : Frame(q, u)' = g
    <3>1. CASE g = f
      BY Zenon, <2>3, <3>1
    <3>2. CASE g \in ufree \/ g \in spare
      BY Zenon, <3>1, <3>2
    <3>3. ASSUME NEW q \in Proc, kpage[q] = g PROVE \E r \in Proc : kpage'[r] = g
      BY Zenon, <2>3, <3>3, NoPage
    <3>4. ASSUME NEW q \in Proc, NEW u \in UPages, Frame(q, u) = g
          PROVE  \E r \in Proc, v \in UPages : Frame(r, v)' = g
      BY Zenon, <3>4
    <3>5. QED BY Zenon, <2>1, <3>2, <3>3, <3>4 DEF UserKept
  <2>8. QED BY Zenon, <2>5, <2>6, <2>7 DEF UserKept
\* A frame gets back from the hands of a load to the pool.
<1>FrameReturned.
  ASSUME NEW p \in Proc, kpage[p] # NONE,
         ufree' = ufree \cup {kpage[p]}, kpage' = [kpage EXCEPT ![p] = NONE], spare' = spare,
         \A q \in Proc, u \in UPages : Frame(q, u)' = Frame(q, u)
  PROVE  LoadsApart' /\ FramesApart' /\ UserKept'
  <2> USE <1>FrameReturned
  <2> DEFINE f == kpage[p]
  <2>1. SpaceTyped /\ LoadsApart /\ FramesApart /\ UserKept
    BY Zenon, SpaceFacts
  <2>2. f \in Frames /\ f # NONE /\ f \notin spare
    BY Zenon, <2>1, NoPage DEF SpaceTyped, LoadsApart
  <2>3. kpage'[p] = NONE /\ \A q \in Proc : q # p => kpage'[q] = kpage[q]
    BY Zenon, <2>1 DEF SpaceTyped
  <2>4. \A q \in Proc : q # p => kpage[q] # f
    BY Zenon, <2>1 DEF LoadsApart
  <2>5. NONE \notin ufree /\ NONE \notin spare
    BY Zenon, <2>1, NoPage DEF SpaceTyped
  <2> HIDE DEF f
  <2>6. ufree' = ufree \cup {f}
    BY Zenon DEF f
  <2>7. LoadsApart'
    <3>1. ufree' \cap spare' = {}
      BY Zenon, <2>1, <2>2, <2>6 DEF LoadsApart
    <3>2. ASSUME NEW q \in Proc PROVE kpage'[q] \notin ufree' /\ kpage'[q] \notin spare'
      <4>1. kpage[q] \notin ufree /\ kpage[q] \notin spare
        BY Zenon, <2>1 DEF LoadsApart
      <4>2. QED BY SMT, <2>2, <2>3, <2>4, <2>5, <2>6, <4>1
    <3>3. ASSUME NEW q \in Proc, NEW r \in Proc, kpage'[q] # NONE /\ kpage'[q] = kpage'[r] PROVE q = r
      <4>1. CASE q # p /\ r # p
        BY Zenon, <2>1, <2>3, <3>3, <4>1 DEF LoadsApart
      <4>2. QED BY Zenon, <2>3, <3>3, <4>1
    <3>4. QED BY Zenon, <3>1, <3>2, <3>3 DEF LoadsApart
  <2>8. FramesApart'
    <3>1. ASSUME NEW q \in Proc, NEW u \in UPages
          PROVE  Frame(q, u)' \notin ufree' /\ Frame(q, u)' \notin spare'
      <4>1. /\ Frame(q, u) \notin ufree /\ Frame(q, u) \notin spare /\ Frame(q, u)' = Frame(q, u)
            /\ Frame(q, u) # NONE => f # Frame(q, u)
        BY Zenon, <2>1 DEF FramesApart, f
      <4>2. QED BY Zenon, <2>2, <2>6, <4>1
    <3>2. ASSUME NEW q \in Proc, NEW r \in Proc, NEW u \in UPages, Frame(q, u)' # NONE
          PROVE  kpage'[r] # Frame(q, u)'
      <4>1. /\ Frame(q, u)' = Frame(q, u) /\ (Frame(q, u) # NONE => kpage[r] # Frame(q, u))
        BY Zenon, <2>1 DEF FramesApart
      <4>2. QED BY Zenon, <2>3, <3>2, <4>1
    <3>3. ASSUME NEW q \in Proc, NEW r \in Proc, NEW u \in UPages, NEW v \in UPages
          PROVE  OneFrame(q, r, u, v)'
      <4>1. /\ OneFrame(q, r, u, v) /\ Frame(q, u)' = Frame(q, u) /\ Frame(r, v)' = Frame(r, v)
        BY Zenon, <2>1 DEF FramesApart
      <4>2. QED BY Zenon, <4>1 DEF OneFrame
    <3>4. QED BY Zenon, <3>1, <3>2, <3>3 DEF FramesApart
  <2>9. ASSUME NEW g \in Frames
        PROVE  \/ g \in ufree' \/ g \in spare' \/ \E q \in Proc : kpage'[q] = g
               \/ \E q \in Proc, u \in UPages : Frame(q, u)' = g
    <3>1. CASE g = f
      BY Zenon, <2>6, <3>1
    <3>2. CASE g \in ufree \/ g \in spare
      BY Zenon, <2>6, <3>2
    <3>3. ASSUME NEW q \in Proc, kpage[q] = g, g # f PROVE \E r \in Proc : kpage'[r] = g
      BY Zenon, <2>3, <3>3 DEF f
    <3>4. ASSUME NEW q \in Proc, NEW u \in UPages, Frame(q, u) = g
          PROVE  \E r \in Proc, v \in UPages : Frame(r, v)' = g
      BY Zenon, <3>4
    <3>5. QED BY Zenon, <2>1, <3>1, <3>2, <3>3, <3>4 DEF UserKept
  <2>10. QED BY Zenon, <2>7, <2>8, <2>9 DEF UserKept
\* The loader of a process steps, and only its frame changes.
<1>LoaderStep.
  ASSUME NEW p \in Proc, NEW where \in {"read", "exit"}, Goes(p, where),
         cur = p, pc[p] \in {"page", "read", "install"}, ufree' \subseteq Frames,
         kpage' \in [Proc -> Frames \cup {NONE}], kpage'[p] # NONE <=> where = "read",
         \A q \in Proc : q # p => kpage'[q] = kpage[q],
         LoadsApart' /\ FramesApart' /\ UserKept',
         UNCHANGED <<kfree, pagedir, old_pd, pde, pte, todo, spare, cur, cr3, tlb>>
  PROVE  SpaceInv'
  <2> USE <1>LoaderStep
  <2>1. SpaceTyped /\ (\A q \in Proc : Stage(q)) /\ where \in Place /\ Active /\ TlbCoherent
    BY Zenon, SpaceFacts DEF Place
  <2>2. pc' \in [Proc -> Place] /\ pc'[p] = where /\ \A q \in Proc : q # p => pc'[q] = pc[q]
    BY Zenon, <2>1, GoesTo
  <2>3. SpaceTyped'
    BY Zenon, <2>1, <2>2 DEF SpaceTyped
  <2>4. ASSUME NEW q \in Proc PROVE Stage(q)'
    <3>1. CASE q = p
      <4>1. Stage(p)
        BY Zenon, <2>1
      <4>2. Stage(p)'
        BY Zenon, <2>2, <4>1 DEF Stage
      <4>3. QED BY Zenon, <3>1, <4>2
    <3>2. CASE q # p
      BY Zenon, <2>1, <2>2, <3>2, StageStays
    <3>3. QED BY Zenon, <3>1, <3>2
  <2>5. Dir(p)' = Dir(p) /\ DirsApart' /\ TablesApart' /\ KernelKept'
    BY Zenon, MapsStay
  <2>6. cr3 = pagedir[p] /\ cr3 \in {NONE, Dir(p)}
    BY Zenon, <2>1 DEF Active
  <2>7. Active'
    BY Zenon, <2>2, <2>5, <2>6 DEF Active
  <2>8. QED BY Zenon, <2>1, <2>3, <2>4, <2>5, <2>7, TlbStays DEF SpaceInv
\* load_segment and setup_stack get a frame.
<1>GetFrameStep.
  ASSUME NEW p \in Proc, GetFrame(p)
  PROVE  SpaceInv'
  <2> USE <1>GetFrameStep
  <2>1. /\ cur = p /\ pc[p] = "page"
        /\ UNCHANGED <<kfree, pagedir, old_pd, pde, pte, todo, spare, cur, cr3, tlb>>
    BY Zenon DEF GetFrame, Steps
  <2>2. CASE ufree = {}
    <3>1. Goes(p, "exit") /\ UNCHANGED <<ufree, kpage>>
      BY Zenon, <2>2 DEF GetFrame
    <3>2. QED BY Zenon, <2>1, <3>1, GoesOn
  <2>3. CASE ufree # {}
    <3>1. /\ ufree' = ufree \ {Min(ufree)} /\ kpage' = [kpage EXCEPT ![p] = Min(ufree)]
          /\ Goes(p, "read")
      BY Zenon, <2>3 DEF GetFrame
    <3>2. SpaceTyped /\ Stage(p)
      BY Zenon, SpaceFacts
    <3>3. Min(ufree) \in ufree /\ Min(ufree) \in Frames /\ Min(ufree) # NONE
      BY Zenon, <2>3, <3>2, MinPage, NoPage
    <3>4. kpage[p] = NONE
      BY Zenon, <2>1, <3>2 DEF Stage
    <3>5. \A q \in Proc, u \in UPages : Frame(q, u)' = Frame(q, u)
      BY Zenon, <2>1, MapsStay
    <3>6. LoadsApart' /\ FramesApart' /\ UserKept'
      BY Zenon, <2>1, <3>1, <3>3, <3>4, <3>5, <1>FrameTaken
    <3>7. /\ ufree' \subseteq Frames /\ kpage' \in [Proc -> Frames \cup {NONE}] /\ kpage'[p] # NONE
          /\ \A q \in Proc : q # p => kpage'[q] = kpage[q]
      BY Zenon, <3>1, <3>2, <3>3 DEF SpaceTyped
    <3>8. QED BY Zenon, <2>1, <3>1, <3>6, <3>7, <1>LoaderStep
  <2>4. QED BY Zenon, <2>2, <2>3
\* The frame of a load that fails goes back to the pool.
<1>LoadFails.
  ASSUME NEW p \in Proc, cur = p, pc[p] \in {"read", "install"},
         ufree' = ufree \cup {kpage[p]}, kpage' = [kpage EXCEPT ![p] = NONE], Goes(p, "exit"),
         UNCHANGED <<kfree, pagedir, old_pd, pde, pte, todo, spare, cur, cr3, tlb>>
  PROVE  SpaceInv'
  <2> USE <1>LoadFails
  <2>1. SpaceTyped /\ Stage(p)
    BY Zenon, SpaceFacts
  <2>2. kpage[p] # NONE
    BY Zenon, <2>1 DEF Stage
  <2>3. \A q \in Proc, u \in UPages : Frame(q, u)' = Frame(q, u)
    BY Zenon, MapsStay
  <2>4. LoadsApart' /\ FramesApart' /\ UserKept'
    BY Zenon, <2>2, <2>3, <1>FrameReturned
  <2>5. /\ ufree' \subseteq Frames /\ kpage' \in [Proc -> Frames \cup {NONE}] /\ kpage'[p] = NONE
        /\ \A q \in Proc : q # p => kpage'[q] = kpage[q]
    BY Zenon, <2>1, <2>2 DEF SpaceTyped
  <2>6. QED BY Zenon, <2>4, <2>5, <1>LoaderStep
\* The file is read, or not.
<1>ReadPageStep.
  ASSUME NEW p \in Proc, NEW ok \in BOOLEAN, ReadPage(p, ok)
  PROVE  SpaceInv'
  <2> USE <1>ReadPageStep
  <2>1. /\ cur = p /\ pc[p] = "read"
        /\ UNCHANGED <<kfree, pagedir, old_pd, pde, pte, todo, spare, cur, cr3, tlb>>
    BY Zenon DEF ReadPage, Steps
  <2>2. CASE ok
    <3>1. Goes(p, "install") /\ UNCHANGED <<ufree, kpage>>
      BY Zenon, <2>2 DEF ReadPage
    <3>2. QED BY Zenon, <2>1, <3>1, GoesOn
  <2>3. CASE ~ok
    <3>1. ufree' = ufree \cup {kpage[p]} /\ kpage' = [kpage EXCEPT ![p] = NONE] /\ Goes(p, "exit")
      BY Zenon, <2>3 DEF ReadPage
    <3>2. QED BY Zenon, <2>1, <3>1, <1>LoadFails
  <2>4. QED BY Zenon, <2>2, <2>3
\* install_page fails.
<1>InstallFailsStep.
  ASSUME NEW p \in Proc, InstallFails(p)
  PROVE  SpaceInv'
  <2> USE <1>InstallFailsStep
  <2>1. /\ cur = p /\ pc[p] = "install"
        /\ ufree' = ufree \cup {kpage[p]} /\ kpage' = [kpage EXCEPT ![p] = NONE] /\ Goes(p, "exit")
        /\ UNCHANGED <<kfree, pagedir, old_pd, pde, pte, todo, spare, cur, cr3, tlb>>
    BY Zenon DEF InstallFails, Steps
  <2>2. QED BY Zenon, <2>1, <1>LoadFails
<1> QED BY Zenon, <1>GetFrameStep, <1>ReadPageStep, <1>InstallFailsStep

\* A frame kept by whoever unmapped it is freed.
LEMMA SpareStep ==
  ASSUME SpaceConstants, SpaceInv, NEW f \in spare, SpareFreed(f)
  PROVE  SpaceInv'
<1>1. /\ spare' = spare \ {f} /\ ufree' = ufree \cup {f}
      /\ UNCHANGED <<kfree, pagedir, old_pd, pde, pte, pc, todo, kpage, cur, cr3, tlb>>
  BY Zenon DEF SpareFreed
<1>2. /\ SpaceTyped /\ (\A q \in Proc : Stage(q)) /\ LoadsApart /\ FramesApart /\ UserKept
      /\ Active /\ TlbCoherent
  BY Zenon, SpaceFacts
<1>3. /\ \A q \in Proc : Dir(q)' = Dir(q)
      /\ \A q \in Proc, u \in UPages : Frame(q, u)' = Frame(q, u)
      /\ DirsApart' /\ TablesApart' /\ KernelKept'
  BY Zenon, <1>1, MapsStay
<1>4. SpaceTyped'
  BY Zenon, <1>1, <1>2 DEF SpaceTyped
<1>5. \A q \in Proc : Stage(q)'
  BY Zenon, <1>1, <1>2, StageStays
<1>6. LoadsApart'
  <2>1. ufree' \cap spare' = {}
    BY Zenon, <1>1, <1>2 DEF LoadsApart
  <2>2. \A q \in Proc : kpage'[q] \notin ufree' /\ kpage'[q] \notin spare'
    BY Zenon, <1>1, <1>2 DEF LoadsApart
  <2>3. \A q, r \in Proc : kpage'[q] # NONE /\ kpage'[q] = kpage'[r] => q = r
    BY Zenon, <1>1, <1>2 DEF LoadsApart
  <2>4. QED BY Zenon, <2>1, <2>2, <2>3 DEF LoadsApart
<1>7. FramesApart'
  <2>1. ASSUME NEW q \in Proc, NEW u \in UPages
        PROVE  Frame(q, u)' \notin ufree' /\ Frame(q, u)' \notin spare'
    <3>1. /\ Frame(q, u) \notin ufree /\ Frame(q, u) \notin spare /\ Frame(q, u)' = Frame(q, u)
      BY Zenon, <1>2, <1>3 DEF FramesApart
    <3>2. QED BY Zenon, <1>1, <3>1
  <2>2. ASSUME NEW q \in Proc, NEW r \in Proc, NEW u \in UPages, Frame(q, u)' # NONE
        PROVE  kpage'[r] # Frame(q, u)'
    <3>1. Frame(q, u)' = Frame(q, u) /\ (Frame(q, u) # NONE => kpage[r] # Frame(q, u))
      BY Zenon, <1>2, <1>3 DEF FramesApart
    <3>2. QED BY Zenon, <1>1, <2>2, <3>1
  <2>3. ASSUME NEW q \in Proc, NEW r \in Proc, NEW u \in UPages, NEW v \in UPages
        PROVE  OneFrame(q, r, u, v)'
    <3>1. OneFrame(q, r, u, v) /\ Frame(q, u)' = Frame(q, u) /\ Frame(r, v)' = Frame(r, v)
      BY Zenon, <1>2, <1>3 DEF FramesApart
    <3>2. QED BY Zenon, <3>1 DEF OneFrame
  <2>4. QED BY Zenon, <2>1, <2>2, <2>3 DEF FramesApart
<1>8. UserKept'
  <2>1. ufree \subseteq ufree' /\ spare \subseteq ufree' \cup spare'
    BY Zenon, <1>1
  <2>2. ASSUME NEW g \in Frames
        PROVE  \/ g \in ufree' \/ g \in spare' \/ \E q \in Proc : kpage'[q] = g
               \/ \E q \in Proc, u \in UPages : Frame(q, u)' = g
    <3>1. ASSUME NEW q \in Proc, NEW u \in UPages, Frame(q, u) = g
          PROVE  \E r \in Proc, v \in UPages : Frame(r, v)' = g
      BY Zenon, <1>3, <3>1
    <3>2. QED BY Zenon, <1>1, <1>2, <2>1, <3>1 DEF UserKept
  <2>3. QED BY Zenon, <2>2 DEF UserKept
<1>9. Active'
  BY Zenon, <1>1, <1>2, <1>3 DEF Active, SpaceTyped
<1>10. QED BY Zenon, <1>1, <1>2, <1>3, <1>4, <1>5, <1>6, <1>7, <1>8, <1>9, TlbStays DEF SpaceInv
-----------------------------------------------------------------------------
\* The TLB says what the page tables of the process that runs say.
LEMMA TlbIs ==
  ASSUME SpaceConstants, SpaceInv, NEW x \in tlb
  PROVE  cr3 = Dir(cur) /\ cr3 # NONE /\ TlbEntry(x)
<1>1. TlbCoherent /\ Active /\ INIT = NONE
  BY Zenon, SpaceFacts, NoPage
<1>2. /\ cr3 # NONE /\ HasPt(cr3, x.page) /\ Pte(cr3, x.page).present
      /\ Pte(cr3, x.page).frame = x.frame /\ Pte(cr3, x.page).accessed
      /\ x.dirty => Pte(cr3, x.page).dirty
  BY Zenon, <1>1 DEF TlbCoherent, Mapped
<1>3. cr3 = Dir(cur)
  BY Zenon, <1>1, <1>2 DEF Active
<1>4. Table(cur, PdOf[x.page]) = pde[cr3][PdOf[x.page]]
  BY Zenon, <1>2, <1>3 DEF Table
<1>5. Pte(cr3, x.page) = EntryAt(cur, x.page)
  BY Zenon, <1>4 DEF Pte, EntryAt
<1>6. QED BY Zenon, <1>2, <1>3, <1>4, <1>5 DEF TlbEntry, HasPt

\* And that it agrees with the tables if it says so.
LEMMA TlbIf ==
  ASSUME SpaceConstants, \A x \in tlb' : cr3' = Dir(cur)' /\ cr3' # NONE /\ TlbEntry(x)'
  PROVE  TlbCoherent'
<1>1. ASSUME NEW x \in tlb'
      PROVE  /\ cr3' # INIT /\ Mapped(cr3, x.page)' /\ Pte(cr3, x.page)'.frame = x.frame
             /\ Pte(cr3, x.page)'.accessed /\ (x.dirty => Pte(cr3, x.page)'.dirty)
  <2>1. cr3' = Dir(cur)' /\ cr3' # NONE /\ TlbEntry(x)' /\ INIT = NONE
    BY Zenon, NoPage
  <2>2. Table(cur, PdOf[x.page])' = pde'[cr3'][PdOf[x.page]]
    BY Zenon, <2>1 DEF Table
  <2>3. Pte(cr3, x.page)' = EntryAt(cur, x.page)'
    BY Zenon, <2>2 DEF Pte, EntryAt
  <2>4. QED BY Zenon, <2>1, <2>2, <2>3 DEF TlbEntry, HasPt, Mapped
<1>2. QED BY Zenon, <1>1 DEF TlbCoherent

\* An entry of a process changes, and no other entry that is in use.
LEMMA OneEntry ==
  ASSUME SpaceConstants, SpaceInv, NEW p \in Proc, NEW u \in UPages, Table(p, PdOf[u]) # NONE,
         NEW e, Changed(Table(p, PdOf[u]), u, e), UNCHANGED <<pagedir, old_pd, pde>>
  PROVE  /\ \A q \in Proc : Dir(q)' = Dir(q)
         /\ \A q \in Proc, i \in Pds : Table(q, i)' = Table(q, i)
         /\ EntryAt(p, u)' = e
         /\ \A q \in Proc, v \in UPages :
              (q # p \/ v # u) /\ Table(q, PdOf[v]) # NONE => EntryAt(q, v)' = EntryAt(q, v)
         /\ \A q \in Proc, v \in UPages : q # p \/ v # u => Frame(q, v)' = Frame(q, v)
         /\ Frame(p, u)' = IF e.present THEN e.frame ELSE NONE
<1>1. SpaceTyped /\ TablesApart
  BY Zenon, SpaceFacts
<1>2. \A q \in Proc : Dir(q)' = Dir(q)
  BY Zenon DEF Dir
<1>3. ASSUME NEW q \in Proc, NEW i PROVE Table(q, i)' = Table(q, i)
  BY Zenon, <1>2 DEF Table
<1>4. EntryAt(p, u)' = e
  BY Zenon, <1>3 DEF EntryAt, Changed
<1>5. ASSUME NEW q \in Proc, NEW v \in UPages, q # p \/ v # u, Table(q, PdOf[v]) # NONE
      PROVE  EntryAt(q, v)' = EntryAt(q, v)
  <2>1. Table(q, PdOf[v]) \in KPages /\ PdOf[v] \in Pds /\ PdOf[u] \in Pds
    BY Zenon, <1>1, <1>5, PageKinds
  <2>2. Table(q, PdOf[v]) # Table(p, PdOf[u]) \/ v # u
    <3>1. OneTable(q, p, PdOf[v], PdOf[u])
      BY Zenon, <1>1, <2>1 DEF TablesApart
    <3>2. QED BY Zenon, <1>5, <3>1 DEF OneTable
  <2>3. pte'[Table(q, PdOf[v])][v] = pte[Table(q, PdOf[v])][v]
    BY Zenon, <2>1, <2>2 DEF Changed
  <2>4. QED BY Zenon, <1>3, <2>3 DEF EntryAt
<1>6. ASSUME NEW q \in Proc, NEW v \in UPages, q # p \/ v # u PROVE Frame(q, v)' = Frame(q, v)
  BY Zenon, <1>3, <1>5, <1>6 DEF Frame
<1>7. Frame(p, u)' = IF e.present THEN e.frame ELSE NONE
  BY Zenon, <1>3, <1>4 DEF Frame
<1>8. QED BY Zenon, <1>2, <1>3, <1>4, <1>5, <1>6, <1>7

\* Nothing changes.
LEMMA SpaceStutter ==
  ASSUME SpaceInv, UNCHANGED vars
  PROVE  SpaceInv'
<1>1. UNCHANGED <<kfree, ufree, pagedir, old_pd, pde, pte, pc, todo, kpage, spare, cur, cr3, tlb>>
  BY Zenon DEF vars
<1>2. /\ DirsApart' /\ TablesApart' /\ KernelKept' /\ LoadsApart' /\ FramesApart' /\ UserKept'
      /\ \A q \in Proc : Dir(q)' = Dir(q)
  BY Zenon, <1>1, PagesStay
<1>3. SpaceTyped /\ (\A q \in Proc : Stage(q)) /\ Active /\ TlbCoherent
  BY Zenon, SpaceFacts
<1>4. SpaceTyped'
  BY Zenon, <1>1, <1>3 DEF SpaceTyped
<1>5. \A q \in Proc : Stage(q)'
  BY Zenon, <1>1, <1>3, StageStays
<1>6. Active'
  BY Zenon, <1>1, <1>2, <1>3 DEF Active, SpaceTyped
<1>7. QED BY Zenon, <1>1, <1>2, <1>3, <1>4, <1>5, <1>6, TlbStays DEF SpaceInv

\* What the processor and pagedir.c do to the entry of a page.
LEMMA PageSteps ==
  ASSUME SpaceConstants, SpaceInv
  PROVE  \A p \in Proc, u \in UPages :
            \/ (\E write \in BOOLEAN : Access(p, u, write)) \/ pagedir_clear_page(p, u)
            \/ (\E value \in BOOLEAN : pagedir_set_dirty(p, u, value) \/ pagedir_set_accessed(p, u, value))
            => SpaceInv'
\* The second of two updates at one place is what stays.
<1>SetTwice.
  ASSUME NEW S, NEW T, NEW f \in [S -> T], NEW x, NEW y, NEW z
  PROVE  [[f EXCEPT ![x] = y] EXCEPT ![x] = z] = [f EXCEPT ![x] = z]
  <2> USE <1>SetTwice
  <2> DEFINE a == [f EXCEPT ![x] = y]
  <2>1. DOMAIN a = DOMAIN f /\ a = [k \in DOMAIN f |-> a[k]]
    BY Zenon
  <2>2. \A k \in DOMAIN f : k # x => a[k] = f[k]
    BY Zenon
  <2> HIDE DEF a
  <2> DEFINE b == [a EXCEPT ![x] = z]
             c == [f EXCEPT ![x] = z]
  <2>3. /\ b = [k \in DOMAIN f |-> b[k]] /\ c = [k \in DOMAIN f |-> c[k]]
    BY Zenon, <2>1
  <2>4. \A k \in DOMAIN f : b[k] = c[k]
    BY Zenon, <2>1, <2>2
  <2> HIDE DEF b, c
  <2>5. b = c
    BY Zenon, <2>3, <2>4
  <2>6. QED BY Zenon, <2>5 DEF a, b, c
\* Such entries are entries.
<1>BitChanged.
  ASSUME NEW e \in Entry, NEW b \in BOOLEAN
  PROVE  /\ Absent(e) \in Entry /\ WithDirty(e, b) \in Entry /\ WithAccessed(e, b) \in Entry
  BY Zenon, <1>BitChanged DEF Absent, WithDirty, WithAccessed, Entry
\* No frame is mapped by an entry that is absent.
<1>AbsentEntry.
  ASSUME NEW e \in Entry
  PROVE  ~Absent(e).present
  BY SMT, <1>AbsentEntry DEF Absent, Entry
\* The bits that stay as they were.
<1>BitKept.
  ASSUME NEW e \in Entry, NEW b
  PROVE  /\ WithDirty(e, b).present = e.present /\ WithDirty(e, b).frame = e.frame
         /\ WithDirty(e, b).accessed = e.accessed /\ (b => WithDirty(e, b).dirty)
         /\ WithAccessed(e, b).present = e.present /\ WithAccessed(e, b).frame = e.frame
         /\ WithAccessed(e, b).dirty = e.dirty /\ (b => WithAccessed(e, b).accessed)
  <2> USE <1>BitKept
  <2>1. /\ WithDirty(e, b).present = e.present /\ WithDirty(e, b).frame = e.frame
        /\ WithDirty(e, b).accessed = e.accessed /\ (b => WithDirty(e, b).dirty)
    BY SMT DEF WithDirty, Entry
  <2>2. /\ WithAccessed(e, b).present = e.present /\ WithAccessed(e, b).frame = e.frame
        /\ WithAccessed(e, b).dirty = e.dirty /\ (b => WithAccessed(e, b).accessed)
    BY SMT DEF WithAccessed, Entry
  <2>3. QED BY Zenon, <2>1, <2>2
\* The processor's bits.
<1>BothChanged.
  ASSUME NEW e \in Entry, NEW b \in BOOLEAN
  PROVE  AfterAccess(e, b) \in Entry
  BY Zenon, <1>BothChanged DEF AfterAccess, Entry
\* And what stays.
<1>BothKept.
  ASSUME NEW e \in Entry, NEW b
  PROVE  /\ AfterAccess(e, b).present = e.present /\ AfterAccess(e, b).frame = e.frame
         /\ AfterAccess(e, b).accessed /\ (e.dirty \/ b => AfterAccess(e, b).dirty)
  <2> USE <1>BothKept
  <2>1. AfterAccess(e, b).present = e.present /\ AfterAccess(e, b).frame = e.frame
    BY SMT DEF AfterAccess, Entry
  <2>2. AfterAccess(e, b).accessed
    BY SMT DEF AfterAccess, Entry
  <2>3. e.dirty \/ b => AfterAccess(e, b).dirty
    BY Zenon DEF AfterAccess, Entry
  <2>4. QED BY Zenon, <2>1, <2>2, <2>3
\* The bits that the processor and the kernel change.
<1>BitsSet.
  ASSUME pte \in [KPages -> [UPages -> Entry]], NEW t \in KPages, NEW u \in UPages,
         NEW b \in BOOLEAN
  PROVE  /\ pte' = [pte EXCEPT ![t][u].present = FALSE] =>
              Changed(t, u, Absent(pte[t][u]))
         /\ pte' = [pte EXCEPT ![t][u].dirty = b] =>
              Changed(t, u, WithDirty(pte[t][u], b))
         /\ pte' = [pte EXCEPT ![t][u].accessed = b] =>
              Changed(t, u, WithAccessed(pte[t][u], b))
         /\ pte' = [pte EXCEPT ![t][u].accessed = TRUE, ![t][u].dirty = @ \/ b] =>
              Changed(t, u, AfterAccess(pte[t][u], b))
  <2> USE <1>BitsSet
  <2> DEFINE e == pte[t][u]
  <2>1. e \in Entry
    BY Zenon
  <2> HIDE DEF e
  <2>2. /\ Absent(e) \in Entry /\ WithDirty(e, b) \in Entry /\ WithAccessed(e, b) \in Entry
        /\ AfterAccess(e, b) \in Entry
    BY Zenon, <2>1, <1>BitChanged, <1>BothChanged
  <2>3. /\ [pte EXCEPT ![t][u].present = FALSE] = [pte EXCEPT ![t][u] = Absent(e)]
        /\ [pte EXCEPT ![t][u].dirty = b] = [pte EXCEPT ![t][u] = WithDirty(e, b)]
        /\ [pte EXCEPT ![t][u].accessed = b] = [pte EXCEPT ![t][u] = WithAccessed(e, b)]
    BY SMT DEF e, Absent, WithDirty, WithAccessed
  <2>4. [pte EXCEPT ![t][u].accessed = TRUE, ![t][u].dirty = @ \/ b]
          = [pte EXCEPT ![t][u] = AfterAccess(e, b)]
    <3> DEFINE a == [pte EXCEPT ![t][u] = [e EXCEPT !.accessed = TRUE]]
               g == [e EXCEPT !.accessed = TRUE]
    <3>1. [pte EXCEPT ![t][u].accessed = TRUE, ![t][u].dirty = @ \/ b] = [a EXCEPT ![t][u].dirty = @ \/ b]
      BY SMT DEF e
    <3>2. a[t][u] = g /\ t \in DOMAIN a /\ u \in DOMAIN a[t]
      BY SMT
    <3>3. [a EXCEPT ![t][u].dirty = @ \/ b] = [a EXCEPT ![t][u] = [g EXCEPT !.dirty = @ \/ b]]
      <4> HIDE DEF a, g
      <4>1. QED BY SMT, <3>2
    <3>4. [a EXCEPT ![t][u] = [g EXCEPT !.dirty = @ \/ b]] = [pte EXCEPT ![t][u] = [g EXCEPT !.dirty = @ \/ b]]
      <4> DEFINE h == [g EXCEPT !.dirty = @ \/ b]
                 c == [pte[t] EXCEPT ![u] = g]
      <4> HIDE DEF g, h
      <4>1. a = [pte EXCEPT ![t] = c]
        BY SMT DEF g
      <4>2. [c EXCEPT ![u] = h] = [pte[t] EXCEPT ![u] = h]
        BY Zenon, <1>SetTwice
      <4> HIDE DEF a, c
      <4>3. [a EXCEPT ![t] = [c EXCEPT ![u] = h]] = [pte EXCEPT ![t] = [c EXCEPT ![u] = h]]
        BY Zenon, <4>1, <1>SetTwice
      <4>4. a[t] = c
        BY Zenon, <4>1
      <4>5. [a EXCEPT ![t][u] = h] = [a EXCEPT ![t] = [c EXCEPT ![u] = h]]
        BY Zenon, <4>4
      <4>6. [pte EXCEPT ![t][u] = h] = [pte EXCEPT ![t] = [pte[t] EXCEPT ![u] = h]]
        BY Zenon
      <4>7. QED BY Zenon, <4>2, <4>3, <4>5, <4>6 DEF h
    <3>5. [g EXCEPT !.dirty = @ \/ b] = AfterAccess(e, b)
      BY SMT, <2>1 DEF Entry, AfterAccess
    <3>6. QED BY Zenon, <3>1, <3>3, <3>4, <3>5
  <2>5. QED BY Zenon, <2>2, <2>3, <2>4, EntrySet DEF e
\* Bits of an entry change, but neither its presence nor its frame.
<1>BitsStep.
  ASSUME NEW p \in Proc, NEW u \in UPages, Table(p, PdOf[u]) # NONE,
         NEW e, Changed(Table(p, PdOf[u]), u, e), e.present = EntryAt(p, u).present,
         e.frame = EntryAt(p, u).frame, \A x \in tlb' : x.page \in UPages, TlbCoherent',
         UNCHANGED <<kfree, ufree, pagedir, old_pd, pde, pc, todo, kpage, spare, cur, cr3>>
  PROVE  SpaceInv'
  <2> USE <1>BitsStep
  <2>1. SpaceTyped /\ (\A q \in Proc : Stage(q)) /\ Active
    BY Zenon, SpaceFacts
  <2>2. /\ \A q \in Proc : Dir(q)' = Dir(q)
        /\ \A q \in Proc, i \in Pds : Table(q, i)' = Table(q, i)
        /\ \A q \in Proc, v \in UPages : q # p \/ v # u => Frame(q, v)' = Frame(q, v)
        /\ Frame(p, u)' = IF e.present THEN e.frame ELSE NONE
    BY Zenon, OneEntry
  <2>3. Frame(p, u)' = Frame(p, u)
    BY Zenon, <2>2 DEF Frame
  <2>4. \A q \in Proc, v \in UPages : Frame(q, v)' = Frame(q, v)
    BY Zenon, <2>2, <2>3
  <2>5. SpaceTyped'
    BY Zenon, <2>1 DEF SpaceTyped, Changed
  <2>6. \A q \in Proc : Stage(q)'
    BY Zenon, <2>1, StageStays
  <2>7. DirsApart' /\ TablesApart' /\ KernelKept'
    BY Zenon, <2>2, SpaceFacts, KernelStays
  <2>8. LoadsApart' /\ FramesApart' /\ UserKept'
    BY Zenon, <2>4, SpaceFacts, UserStays
  <2>9. Active'
    BY Zenon, <2>1, <2>2 DEF Active, SpaceTyped
  <2>10. QED BY Zenon, <2>5, <2>6, <2>7, <2>8, <2>9 DEF SpaceInv
\* The TLB after a change of an entry: emptied if it may hold that entry, and
\* else of another process.
<1>TlbInvalidated.
  ASSUME NEW p \in Proc, pagedir[p] # NONE, NEW u \in UPages,
         Table(p, PdOf[u]) # NONE, NEW e, Changed(Table(p, PdOf[u]), u, e),
         invalidate_pagedir(pagedir[p]), UNCHANGED <<pagedir, old_pd, pde, cur>>
  PROVE  /\ TlbCoherent' /\ (\A x \in tlb' : x.page \in UPages) /\ cr3' = cr3
  <2> USE <1>TlbInvalidated
  <2>1. SpaceTyped /\ Active
    BY Zenon, SpaceFacts
  <2>2. CASE cr3 = pagedir[p]
    <3>1. tlb' = {} /\ cr3' = cr3
      BY Zenon, <2>2 DEF invalidate_pagedir, pagedir_activate
    <3>2. QED BY Zenon, <3>1, TlbEmpty
  <2>3. CASE cr3 # pagedir[p]
    <3>1. UNCHANGED <<cr3, tlb>>
      BY Zenon, <2>3 DEF invalidate_pagedir
    <3>2. /\ \A q \in Proc : Dir(q)' = Dir(q)
          /\ \A q \in Proc, i \in Pds : Table(q, i)' = Table(q, i)
          /\ \A q \in Proc, v \in UPages :
               (q # p \/ v # u) /\ Table(q, PdOf[v]) # NONE => EntryAt(q, v)' = EntryAt(q, v)
      BY Zenon, OneEntry
    <3>3. ASSUME NEW x \in tlb'
          PROVE  cr3' = Dir(cur)' /\ cr3' # NONE /\ TlbEntry(x)'
      <4>1. cr3 = Dir(cur) /\ cr3 # NONE /\ TlbEntry(x) /\ x.page \in UPages /\ cur \in Proc
        BY Zenon, <2>1, <3>1, TlbIs DEF SpaceTyped
      <4>2. cur # p
        BY Zenon, <2>3, <4>1 DEF Dir
      <4>3. Table(cur, PdOf[x.page]) # NONE /\ PdOf[x.page] \in Pds
        BY Zenon, <2>1, <4>1, PageKinds DEF TlbEntry
      <4>4. /\ EntryAt(cur, x.page)' = EntryAt(cur, x.page) /\ Dir(cur)' = Dir(cur)
            /\ Table(cur, PdOf[x.page])' = Table(cur, PdOf[x.page])
        <5>1. PICK c \in Proc : c = cur
          BY Zenon, <4>1
        <5>2. /\ EntryAt(c, x.page)' = EntryAt(c, x.page) /\ Dir(c)' = Dir(c)
              /\ Table(c, PdOf[x.page])' = Table(c, PdOf[x.page])
          <6>1. c # p /\ Table(c, PdOf[x.page]) # NONE
            BY Zenon, <4>2, <4>3, <5>1
          <6>2. QED BY Zenon, <3>2, <4>1, <4>3, <6>1
        <5>3. Dir(cur)' = Dir(c)'
          BY Zenon, <5>1 DEF Dir
        <5>4. Table(cur, PdOf[x.page])' = Table(c, PdOf[x.page])'
          BY Zenon, <5>3 DEF Table
        <5>5. EntryAt(cur, x.page)' = EntryAt(c, x.page)'
          BY Zenon, <5>4 DEF EntryAt
        <5>6. QED BY Zenon, <5>1, <5>2, <5>3, <5>4, <5>5
      <4>5. QED BY Zenon, <3>1, <4>1, <4>4 DEF TlbEntry
    <3>4. QED BY Zenon, <2>1, <3>1, <3>3, TlbIf DEF SpaceTyped
  <2>4. QED BY Zenon, <2>2, <2>3
\* What the TLB says stays true when bits of an entry are set.
<1>TlbKept.
  ASSUME NEW p \in Proc, NEW u \in UPages, Table(p, PdOf[u]) # NONE,
         NEW e, Changed(Table(p, PdOf[u]), u, e), e.present = EntryAt(p, u).present,
         e.frame = EntryAt(p, u).frame, EntryAt(p, u).accessed => e.accessed,
         EntryAt(p, u).dirty => e.dirty, UNCHANGED <<pagedir, old_pd, pde, cur, cr3>>, NEW x \in tlb
  PROVE  cr3' = Dir(cur)' /\ cr3' # NONE /\ TlbEntry(x)'
  <2> USE <1>TlbKept
  <2>1. cr3 = Dir(cur) /\ cr3 # NONE /\ TlbEntry(x) /\ x.page \in UPages /\ cur \in Proc
    BY Zenon, TlbIs, SpaceFacts DEF SpaceTyped
  <2>2. PICK c \in Proc : c = cur
    BY Zenon, <2>1
  <2>3. /\ \A q \in Proc : Dir(q)' = Dir(q)
        /\ \A q \in Proc, i \in Pds : Table(q, i)' = Table(q, i)
        /\ EntryAt(p, u)' = e
        /\ \A q \in Proc, v \in UPages :
             (q # p \/ v # u) /\ Table(q, PdOf[v]) # NONE => EntryAt(q, v)' = EntryAt(q, v)
    BY Zenon, OneEntry
  <2>4. /\ Table(c, PdOf[x.page]) # NONE /\ EntryAt(c, x.page).present
        /\ EntryAt(c, x.page).frame = x.frame /\ EntryAt(c, x.page).accessed
        /\ (x.dirty => EntryAt(c, x.page).dirty) /\ PdOf[x.page] \in Pds
    BY Zenon, <2>1, <2>2, SpaceFacts, PageKinds DEF TlbEntry
  <2>5. /\ EntryAt(c, x.page)'.present /\ EntryAt(c, x.page)'.frame = x.frame
        /\ EntryAt(c, x.page)'.accessed /\ (x.dirty => EntryAt(c, x.page)'.dirty)
    <3>1. CASE c = p /\ x.page = u
      <4>1. EntryAt(c, x.page)' = e /\ EntryAt(c, x.page) = EntryAt(p, u)
        BY Zenon, <2>3, <3>1 DEF EntryAt, Table, Dir
      <4>2. QED BY Zenon, <2>4, <4>1
    <3>2. CASE c # p \/ x.page # u
      <4>1. EntryAt(c, x.page)' = EntryAt(c, x.page)
        BY Zenon, <2>1, <2>3, <2>4, <3>2
      <4>2. QED BY Zenon, <2>4, <4>1
    <3>3. QED BY Zenon, <3>1, <3>2
  <2>6. Dir(cur)' = Dir(c)' /\ cur' = c
    BY Zenon, <2>2 DEF Dir
  <2>7. Table(cur, PdOf[x.page])' = Table(c, PdOf[x.page])'
    BY Zenon, <2>6 DEF Table
  <2>8. EntryAt(cur, x.page)' = EntryAt(c, x.page)'
    BY Zenon, <2>7 DEF EntryAt
  <2>9. Table(cur, PdOf[x.page])' # NONE /\ Dir(cur)' = cr3'
    BY Zenon, <2>1, <2>2, <2>3, <2>4, <2>6, <2>7
  <2>10. QED BY Zenon, <2>1, <2>5, <2>8, <2>9 DEF TlbEntry
\* The entry of a user page in a process that runs.
<1>UserEntry.
  ASSUME NEW p \in Proc, pc[p] = "user", NEW u \in UPages,
         HasPt(pagedir[p], u)
  PROVE  /\ pagedir[p] # NONE /\ Table(p, PdOf[u]) # NONE /\ Table(p, PdOf[u]) \in KPages
         /\ pde[pagedir[p]][PdOf[u]] = Table(p, PdOf[u]) /\ EntryAt(p, u) \in Entry
         /\ pte[Table(p, PdOf[u])][u] = EntryAt(p, u) /\ Pte(pagedir[p], u) = EntryAt(p, u)
         /\ pte \in [KPages -> [UPages -> Entry]]
  <2> USE <1>UserEntry
  <2>1. SpaceTyped /\ Stage(p)
    BY Zenon, SpaceFacts
  <2>2. pagedir[p] # NONE
    BY Zenon, <2>1 DEF Stage
  <2>3. /\ PdOf[u] \in Pds /\ Table(p, PdOf[u]) \in KPages \cup {NONE}
        /\ Table(p, PdOf[u]) # NONE => EntryAt(p, u) \in Entry
    BY Zenon, <2>1, PageKinds
  <2>4. /\ Table(p, PdOf[u]) = pde[pagedir[p]][PdOf[u]] /\ Table(p, PdOf[u]) # NONE
        /\ Pte(pagedir[p], u) = EntryAt(p, u)
    BY Zenon, <2>1, <2>2, <2>3, DirIs
  <2>5. QED BY Zenon, <2>1, <2>2, <2>3, <2>4 DEF EntryAt, SpaceTyped
\* pagedir_set_dirty: a bit cleared is cleared for the processor too.
<1>DirtyStep.
  ASSUME NEW p \in Proc, NEW u \in UPages, NEW value \in BOOLEAN,
         pagedir_set_dirty(p, u, value)
  PROVE  SpaceInv'
  <2> USE <1>DirtyStep
  <2> DEFINE t == Table(p, PdOf[u])
             e == WithDirty(EntryAt(p, u), value)
  <2>1. /\ pc[p] = "user" /\ HasPt(pagedir[p], u)
        /\ pte' = [pte EXCEPT ![pde[pagedir[p]][PdOf[u]]][u].dirty = value]
        /\ IF value THEN UNCHANGED <<cr3, tlb>> ELSE invalidate_pagedir(pagedir[p])
        /\ UNCHANGED <<kfree, ufree, pagedir, old_pd, pde, pc, todo, kpage, spare, cur>>
    BY Zenon DEF pagedir_set_dirty
  <2>2. /\ pagedir[p] # NONE /\ t # NONE /\ t \in KPages /\ pde[pagedir[p]][PdOf[u]] = t
        /\ EntryAt(p, u) \in Entry /\ pte[t][u] = EntryAt(p, u) /\ pte \in [KPages -> [UPages -> Entry]]
    BY Zenon, <2>1, <1>UserEntry
  <2> HIDE DEF t
  <2>3. pte' = [pte EXCEPT ![t][u].dirty = value]
    BY Zenon, <2>1, <2>2
  <2>4. Changed(t, u, e)
    <3>1. Changed(t, u, WithDirty(pte[t][u], value))
      BY Zenon, <2>2, <2>3, <1>BitsSet
    <3>2. QED BY Zenon, <2>2, <3>1
  <2>5. /\ e.present = EntryAt(p, u).present /\ e.frame = EntryAt(p, u).frame
        /\ e.accessed = EntryAt(p, u).accessed /\ (value => e.dirty)
    BY Zenon, <2>2, <1>BitKept
  <2> HIDE DEF e
  <2>6. CASE value
    <3>1. UNCHANGED <<cr3, tlb>>
      BY Zenon, <2>1, <2>6
    <3>2. \A x \in tlb' : cr3' = Dir(cur)' /\ cr3' # NONE /\ TlbEntry(x)'
      BY Zenon, <2>1, <2>2, <2>4, <2>5, <2>6, <3>1, <1>TlbKept DEF t
    <3>3. TlbCoherent' /\ \A x \in tlb' : x.page \in UPages
      BY Zenon, <3>1, <3>2, TlbIf, SpaceFacts DEF SpaceTyped
    <3>4. QED BY Zenon, <2>1, <2>2, <2>4, <2>5, <3>1, <3>3, <1>BitsStep DEF t
  <2>7. CASE ~value
    <3>1. TlbCoherent' /\ (\A x \in tlb' : x.page \in UPages) /\ cr3' = cr3
      BY Zenon, <2>1, <2>2, <2>4, <2>7, <1>TlbInvalidated DEF t
    <3>2. QED BY Zenon, <2>1, <2>2, <2>4, <2>5, <3>1, <1>BitsStep DEF t
  <2>8. QED BY Zenon, <2>6, <2>7
\* pagedir_set_accessed, the same.
<1>AccessedStep.
  ASSUME NEW p \in Proc, NEW u \in UPages, NEW value \in BOOLEAN,
         pagedir_set_accessed(p, u, value)
  PROVE  SpaceInv'
  <2> USE <1>AccessedStep
  <2> DEFINE t == Table(p, PdOf[u])
             e == WithAccessed(EntryAt(p, u), value)
  <2>1. /\ pc[p] = "user" /\ HasPt(pagedir[p], u)
        /\ pte' = [pte EXCEPT ![pde[pagedir[p]][PdOf[u]]][u].accessed = value]
        /\ IF value THEN UNCHANGED <<cr3, tlb>> ELSE invalidate_pagedir(pagedir[p])
        /\ UNCHANGED <<kfree, ufree, pagedir, old_pd, pde, pc, todo, kpage, spare, cur>>
    BY Zenon DEF pagedir_set_accessed
  <2>2. /\ pagedir[p] # NONE /\ t # NONE /\ t \in KPages /\ pde[pagedir[p]][PdOf[u]] = t
        /\ EntryAt(p, u) \in Entry /\ pte[t][u] = EntryAt(p, u) /\ pte \in [KPages -> [UPages -> Entry]]
    BY Zenon, <2>1, <1>UserEntry
  <2> HIDE DEF t
  <2>3. pte' = [pte EXCEPT ![t][u].accessed = value]
    BY Zenon, <2>1, <2>2
  <2>4. Changed(t, u, e)
    <3>1. Changed(t, u, WithAccessed(pte[t][u], value))
      BY Zenon, <2>2, <2>3, <1>BitsSet
    <3>2. QED BY Zenon, <2>2, <3>1
  <2>5. /\ e.present = EntryAt(p, u).present /\ e.frame = EntryAt(p, u).frame
        /\ e.dirty = EntryAt(p, u).dirty /\ (value => e.accessed)
    BY Zenon, <2>2, <1>BitKept
  <2> HIDE DEF e
  <2>6. CASE value
    <3>1. UNCHANGED <<cr3, tlb>>
      BY Zenon, <2>1, <2>6
    <3>2. \A x \in tlb' : cr3' = Dir(cur)' /\ cr3' # NONE /\ TlbEntry(x)'
      BY Zenon, <2>1, <2>2, <2>4, <2>5, <2>6, <3>1, <1>TlbKept DEF t
    <3>3. TlbCoherent' /\ \A x \in tlb' : x.page \in UPages
      BY Zenon, <3>1, <3>2, TlbIf, SpaceFacts DEF SpaceTyped
    <3>4. QED BY Zenon, <2>1, <2>2, <2>4, <2>5, <3>1, <3>3, <1>BitsStep DEF t
  <2>7. CASE ~value
    <3>1. TlbCoherent' /\ (\A x \in tlb' : x.page \in UPages) /\ cr3' = cr3
      BY Zenon, <2>1, <2>2, <2>4, <2>7, <1>TlbInvalidated DEF t
    <3>2. QED BY Zenon, <2>1, <2>2, <2>4, <2>5, <3>1, <1>BitsStep DEF t
  <2>8. QED BY Zenon, <2>6, <2>7
\* A page that is unmapped leaves its frame to whoever unmapped it.
<1>FrameUnmapped.
  ASSUME NEW p \in Proc, NEW u \in UPages, Frame(p, u) # NONE,
         spare' = spare \cup {Frame(p, u)}, UNCHANGED <<ufree, kpage>>, Frame(p, u)' = NONE,
         \A q \in Proc, v \in UPages : q # p \/ v # u => Frame(q, v)' = Frame(q, v)
  PROVE  LoadsApart' /\ FramesApart' /\ UserKept'
  <2> USE <1>FrameUnmapped
  <2> DEFINE f == Frame(p, u)
  <2>1. SpaceTyped /\ LoadsApart /\ FramesApart /\ UserKept
    BY Zenon, SpaceFacts
  <2>2. /\ f \notin ufree /\ (\A q \in Proc : kpage[q] # f) /\ f # NONE
        /\ NONE \notin ufree /\ NONE \notin spare
    BY Zenon, <2>1, NoPage DEF FramesApart, SpaceTyped
  <2>3. ASSUME NEW q \in Proc, NEW v \in UPages, q # p \/ v # u PROVE Frame(q, v) # f
    <3>1. OneFrame(p, q, u, v)
      BY Zenon, <2>1 DEF FramesApart
    <3>2. QED BY Zenon, <2>3, <3>1 DEF OneFrame
  <2>4. spare' = spare \cup {f}
    BY Zenon
  <2> HIDE DEF f
  <2>5. LoadsApart'
    <3>1. ufree' \cap spare' = {}
      BY Zenon, <2>1, <2>2, <2>4 DEF LoadsApart
    <3>2. ASSUME NEW q \in Proc PROVE kpage'[q] \notin ufree' /\ kpage'[q] \notin spare'
      <4>1. kpage[q] \notin ufree /\ kpage[q] \notin spare /\ kpage[q] # f
        BY Zenon, <2>1, <2>2 DEF LoadsApart
      <4>2. QED BY Zenon, <2>4, <4>1
    <3>3. ASSUME NEW q \in Proc, NEW r \in Proc, kpage'[q] # NONE /\ kpage'[q] = kpage'[r] PROVE q = r
      BY Zenon, <2>1, <3>3 DEF LoadsApart
    <3>4. QED BY Zenon, <3>1, <3>2, <3>3 DEF LoadsApart
  <2>6. FramesApart'
    <3>1. ASSUME NEW q \in Proc, NEW v \in UPages
          PROVE  Frame(q, v)' \notin ufree' /\ Frame(q, v)' \notin spare'
      <4>1. CASE q = p /\ v = u
        <5>1. Frame(q, v)' = NONE
          BY Zenon, <4>1
        <5>2. QED BY Zenon, <2>2, <2>4, <5>1
      <4>2. CASE q # p \/ v # u
        <5>1. /\ Frame(q, v)' = Frame(q, v) /\ Frame(q, v) # f
              /\ Frame(q, v) \notin ufree /\ Frame(q, v) \notin spare
          BY Zenon, <2>1, <2>3, <4>2 DEF FramesApart
        <5>2. QED BY Zenon, <2>4, <5>1
      <4>3. QED BY Zenon, <4>1, <4>2
    <3>2. ASSUME NEW q \in Proc, NEW r \in Proc, NEW v \in UPages, Frame(q, v)' # NONE
          PROVE  kpage'[r] # Frame(q, v)'
      <4>1. CASE q = p /\ v = u
        BY Zenon, <3>2, <4>1
      <4>2. CASE q # p \/ v # u
        <5>1. Frame(q, v)' = Frame(q, v) /\ (Frame(q, v) # NONE => kpage[r] # Frame(q, v))
          BY Zenon, <2>1, <4>2 DEF FramesApart
        <5>2. QED BY Zenon, <3>2, <5>1
      <4>3. QED BY Zenon, <4>1, <4>2
    <3>3. ASSUME NEW q \in Proc, NEW r \in Proc, NEW v \in UPages, NEW w \in UPages
          PROVE  OneFrame(q, r, v, w)'
      <4>1. CASE q = p /\ v = u
        BY Zenon, <4>1 DEF OneFrame
      <4>2. CASE r = p /\ w = u
        <5>1. Frame(r, w)' = NONE
          BY Zenon, <4>2
        <5>2. QED BY Zenon, <5>1 DEF OneFrame
      <4>3. CASE (q # p \/ v # u) /\ (r # p \/ w # u)
        <5>1. OneFrame(q, r, v, w) /\ Frame(q, v)' = Frame(q, v) /\ Frame(r, w)' = Frame(r, w)
          BY Zenon, <2>1, <4>3 DEF FramesApart
        <5>2. QED BY Zenon, <5>1 DEF OneFrame
      <4>4. QED BY Zenon, <4>1, <4>2, <4>3
    <3>4. QED BY Zenon, <3>1, <3>2, <3>3 DEF FramesApart
  <2>7. ASSUME NEW g \in Frames
        PROVE  \/ g \in ufree' \/ g \in spare' \/ \E q \in Proc : kpage'[q] = g
               \/ \E q \in Proc, v \in UPages : Frame(q, v)' = g
    <3>1. CASE g = f
      BY Zenon, <2>4, <3>1
    <3>2. CASE g \in ufree \/ g \in spare \/ \E q \in Proc : kpage[q] = g
      BY Zenon, <2>4, <3>2
    <3>3. ASSUME NEW q \in Proc, NEW v \in UPages, Frame(q, v) = g, g # f
          PROVE  \E r \in Proc, w \in UPages : Frame(r, w)' = g
      <4>1. q # p \/ v # u
        BY Zenon, <3>3 DEF f
      <4>2. QED BY Zenon, <3>3, <4>1
    <3>4. QED BY Zenon, <2>1, <3>1, <3>2, <3>3 DEF UserKept
  <2>8. QED BY Zenon, <2>5, <2>6, <2>7 DEF UserKept
\* pagedir_clear_page: later accesses to the page fault.
<1>ClearStep.
  ASSUME NEW p \in Proc, NEW u \in UPages, pagedir_clear_page(p, u)
  PROVE  SpaceInv'
  <2> USE <1>ClearStep
  <2> DEFINE t == Table(p, PdOf[u])
             e == Absent(EntryAt(p, u))
  <2>1. /\ pc[p] = "user" /\ Mapped(pagedir[p], u)
        /\ pte' = [pte EXCEPT ![pde[pagedir[p]][PdOf[u]]][u].present = FALSE]
        /\ spare' = spare \cup {pte[pde[pagedir[p]][PdOf[u]]][u].frame}
        /\ invalidate_pagedir(pagedir[p])
        /\ UNCHANGED <<kfree, ufree, pagedir, old_pd, pde, pc, todo, kpage, cur>>
    BY Zenon DEF pagedir_clear_page
  <2>2. SpaceTyped /\ (\A q \in Proc : Stage(q)) /\ Active
    BY Zenon, SpaceFacts
  <2>3. /\ pagedir[p] # NONE /\ t # NONE /\ t \in KPages /\ pde[pagedir[p]][PdOf[u]] = t
        /\ EntryAt(p, u) \in Entry /\ pte[t][u] = EntryAt(p, u) /\ pte \in [KPages -> [UPages -> Entry]]
    BY Zenon, <2>1, <1>UserEntry DEF Mapped
  <2>4. EntryAt(p, u).frame = Frame(p, u) /\ Frame(p, u) # NONE /\ Frame(p, u) \in Frames
    <3>1. Frame(p, u) # NONE /\ Frame(p, u) \in Frames \cup {NONE}
      BY Zenon, <2>1, <2>2, <2>3, DirIs, PageKinds
    <3>2. QED BY Zenon, <3>1 DEF Frame
  <2> HIDE DEF t
  <2>5. pte' = [pte EXCEPT ![t][u].present = FALSE] /\ spare' = spare \cup {Frame(p, u)}
    BY Zenon, <2>1, <2>3, <2>4
  <2>6. Changed(t, u, e)
    <3>1. Changed(t, u, Absent(pte[t][u]))
      BY Zenon, <2>3, <2>5, <1>BitsSet
    <3>2. QED BY Zenon, <2>3, <3>1
  <2>7. ~e.present
    BY Zenon, <2>3, <1>AbsentEntry
  <2> HIDE DEF e
  <2>8. /\ \A q \in Proc : Dir(q)' = Dir(q)
        /\ \A q \in Proc, i \in Pds : Table(q, i)' = Table(q, i)
        /\ \A q \in Proc, v \in UPages : q # p \/ v # u => Frame(q, v)' = Frame(q, v)
        /\ Frame(p, u)' = IF e.present THEN e.frame ELSE NONE
    BY Zenon, <2>1, <2>3, <2>6, OneEntry DEF t
  <2>9. Frame(p, u)' = NONE
    BY Zenon, <2>7, <2>8
  <2>10. LoadsApart' /\ FramesApart' /\ UserKept'
    BY Zenon, <2>1, <2>4, <2>5, <2>8, <2>9, <1>FrameUnmapped
  <2>11. TlbCoherent' /\ (\A x \in tlb' : x.page \in UPages) /\ cr3' = cr3
    BY Zenon, <2>1, <2>3, <2>6, <1>TlbInvalidated DEF t
  <2>12. spare' \subseteq Frames
    BY Zenon, <2>2, <2>4, <2>5 DEF SpaceTyped
  <2>13. SpaceTyped'
    BY Zenon, <2>1, <2>2, <2>6, <2>11, <2>12 DEF SpaceTyped, Changed
  <2>14. \A q \in Proc : Stage(q)'
    BY Zenon, <2>1, <2>2, StageStays
  <2>15. DirsApart' /\ TablesApart' /\ KernelKept'
    BY Zenon, <2>1, <2>8, SpaceFacts, KernelStays
  <2>16. Active'
    BY Zenon, <2>1, <2>2, <2>8, <2>11 DEF Active, SpaceTyped
  <2>17. QED BY Zenon, <2>10, <2>11, <2>13, <2>14, <2>15, <2>16 DEF SpaceInv
\* The processor walks the page table, sets the bits and caches what it found.
<1>WalkStep.
  ASSUME NEW p \in Proc, NEW u \in UPages, NEW write \in BOOLEAN,
         cur = p, pc[p] = "user", Mapped(cr3, u),
         pte' = [pte EXCEPT ![pde[cr3][PdOf[u]]][u].accessed = TRUE,
                            ![pde[cr3][PdOf[u]]][u].dirty = @ \/ write],
         NEW x, x.page = u, x.frame = pte[pde[cr3][PdOf[u]]][u].frame,
         x.dirty => pte[pde[cr3][PdOf[u]]][u].dirty \/ write,
         \A y \in tlb' : y \in tlb \/ y = x,
         UNCHANGED <<kfree, ufree, pagedir, old_pd, pde, pc, todo, kpage, spare, cur, cr3>>
  PROVE  SpaceInv'
  <2> USE <1>WalkStep
  <2> DEFINE t == Table(p, PdOf[u])
             e == AfterAccess(EntryAt(p, u), write)
  <2>1. SpaceTyped /\ Active /\ Stage(p)
    BY Zenon, SpaceFacts
  <2>2. cr3 = pagedir[p]
    BY Zenon, <2>1 DEF Active
  <2>3. /\ pagedir[p] # NONE /\ t # NONE /\ t \in KPages /\ pde[cr3][PdOf[u]] = t
        /\ EntryAt(p, u) \in Entry /\ pte[t][u] = EntryAt(p, u) /\ pte \in [KPages -> [UPages -> Entry]]
        /\ Pte(cr3, u) = EntryAt(p, u)
    BY Zenon, <2>2, <1>UserEntry DEF Mapped
  <2>4. EntryAt(p, u).present
    BY Zenon, <2>3 DEF Mapped
  <2> HIDE DEF t
  <2>5. pte' = [pte EXCEPT ![t][u].accessed = TRUE, ![t][u].dirty = @ \/ write]
    BY Zenon, <2>3
  <2>6. Changed(t, u, e)
    <3>1. Changed(t, u, AfterAccess(pte[t][u], write))
      BY Zenon, <2>3, <2>5, <1>BitsSet
    <3>2. QED BY Zenon, <2>3, <3>1
  <2>7. /\ e.present = EntryAt(p, u).present /\ e.frame = EntryAt(p, u).frame /\ e.accessed
        /\ EntryAt(p, u).dirty \/ write => e.dirty
    BY Zenon, <2>3, <1>BothKept
  <2> HIDE DEF e
  <2>8. /\ EntryAt(p, u)' = e /\ Dir(p)' = Dir(p) /\ \A i \in Pds : Table(p, i)' = Table(p, i)
    <3>1. Table(p, PdOf[u]) # NONE /\ Changed(Table(p, PdOf[u]), u, e)
      BY Zenon, <2>3, <2>6 DEF t
    <3>2. UNCHANGED <<pagedir, old_pd, pde>>
      BY Zenon
    <3>3. QED BY ZenonT(40), <3>1, <3>2, OneEntry
  <2>9. ASSUME NEW y \in tlb' PROVE cr3' = Dir(cur)' /\ cr3' # NONE /\ TlbEntry(y)'
    <3>1. CASE y \in tlb
      BY Zenon, <2>3, <2>6, <2>7, <3>1, <1>TlbKept DEF t
    <3>2. CASE y = x
      <4>1. PdOf[u] \in Pds /\ Dir(p) = pagedir[p]
        BY Zenon, <2>1, <2>3, PageKinds, DirIs
      <4>2. Dir(cur)' = Dir(p)' /\ cur' = p
        BY Zenon DEF Dir
      <4>3. Table(cur, PdOf[y.page])' = Table(p, PdOf[u])'
        BY Zenon, <3>2, <4>2 DEF Table
      <4>4. EntryAt(cur, y.page)' = EntryAt(p, u)'
        BY Zenon, <3>2, <4>3 DEF EntryAt
      <4>5. Table(cur, PdOf[y.page])' # NONE
        BY Zenon, <2>3, <2>8, <4>1, <4>3 DEF t
      <4>6. /\ e.present /\ e.frame = y.frame /\ e.accessed /\ (y.dirty => e.dirty)
        BY Zenon, <2>3, <2>4, <2>7, <3>2
      <4>7. TlbEntry(y)'
        BY Zenon, <2>8, <4>4, <4>5, <4>6 DEF TlbEntry
      <4>8. QED BY Zenon, <2>2, <2>3, <2>8, <4>1, <4>2, <4>7
    <3>3. QED BY Zenon, <3>1, <3>2
  <2>10. TlbCoherent' /\ \A y \in tlb' : y.page \in UPages
    BY Zenon, <2>1, <2>9, TlbIf DEF SpaceTyped
  <2>11. QED BY Zenon, <2>3, <2>6, <2>7, <2>10, <1>BitsStep DEF t
\* User code touches a page.
<1>AccessStep.
  ASSUME NEW p \in Proc, NEW u \in UPages, NEW write \in BOOLEAN,
         Access(p, u, write)
  PROVE  SpaceInv'
  <2> USE <1>AccessStep
  <2> DEFINE hit == {e \in tlb : e.page = u}
             t == pde[cr3][PdOf[u]]
             x == [page |-> u, frame |-> pte[t][u].frame, writable |-> pte[t][u].writable,
                   dirty |-> pte[t][u].dirty \/ write]
  <2>1. /\ cur = p /\ pc[p] = "user"
        /\ UNCHANGED <<kfree, ufree, pagedir, old_pd, pde, todo, kpage, spare, cur, cr3>>
        /\ \/ UNCHANGED <<pte, tlb, pc>>
           \/ /\ Mapped(cr3, u)
              /\ pte' = [pte EXCEPT ![t][u].accessed = TRUE, ![t][u].dirty = @ \/ write]
              /\ tlb' = (tlb \ hit) \cup {x} /\ UNCHANGED pc
           \/ Goes(p, "exit") /\ UNCHANGED <<pte, tlb>>
    BY Zenon DEF Access, Steps
  <2>2. CASE UNCHANGED <<pte, tlb, pc>>
    BY Zenon, <2>1, <2>2, SpaceStutter DEF vars
  <2>3. CASE /\ Mapped(cr3, u)
             /\ pte' = [pte EXCEPT ![t][u].accessed = TRUE, ![t][u].dirty = @ \/ write]
             /\ tlb' = (tlb \ hit) \cup {x} /\ UNCHANGED pc
    <3>1. /\ x.page = u /\ x.frame = pte[t][u].frame /\ (x.dirty => pte[t][u].dirty \/ write)
      BY SMT
    <3> HIDE DEF x
    <3>2. \A y \in tlb' : y \in tlb \/ y = x
      BY Zenon, <2>3
    <3>3. QED BY Zenon, <2>1, <2>3, <3>1, <3>2, <1>WalkStep
  <2>4. CASE Goes(p, "exit") /\ UNCHANGED <<pte, tlb>>
    BY Zenon, <2>1, <2>4, GoesOn
  <2>5. QED BY Zenon, <2>1, <2>2, <2>3, <2>4
<1> QED BY Zenon, <1>AccessStep, <1>ClearStep, <1>DirtyStep, <1>AccessedStep
-----------------------------------------------------------------------------
\* A process that has no page directory has no page tables and no frames mapped.
LEMMA NothingMapped ==
  ASSUME NEW p \in Proc, Dir(p) = NONE
  PROVE  /\ \A i : Table(p, i) = NONE
         /\ \A u : Frame(p, u) = NONE
<1>1. \A i : Table(p, i) = NONE
  BY Zenon DEF Table
<1>2. QED BY Zenon, <1>1 DEF Frame

\* Nothing is in the TLB while the processor has init_page_dir.
LEMMA TlbInit ==
  ASSUME SpaceConstants, SpaceInv, cr3 = NONE
  PROVE  tlb = {}
BY Zenon, TlbIs

\* pagedir_create, and a program to load.
LEMMA CreateStep ==
  ASSUME SpaceConstants, SpaceInv, Firsts
  PROVE  \A p \in Proc : pagedir_create(p) => SpaceInv'
\* A page becomes the page directory of a process.
<1>DirTaken.
  ASSUME NEW p \in Proc, NEW k \in kfree, Dir(p) = NONE,
         kfree' = kfree \ {k}, Dir(p)' = k, \A q \in Proc : q # p => Dir(q)' = Dir(q),
         \A q \in Proc, i \in Pds : Table(q, i)' = Table(q, i)
  PROVE  DirsApart' /\ TablesApart' /\ KernelKept'
  <2> USE <1>DirTaken
  <2>1. SpaceTyped /\ DirsApart /\ TablesApart /\ KernelKept
    BY Zenon, SpaceFacts
  <2>2. k \in KPages /\ k # NONE
    BY Zenon, <2>1, NoPage DEF SpaceTyped
  <2>3. \A q \in Proc : Dir(q) # k
    BY Zenon, <2>1 DEF DirsApart
  <2>4. DirsApart'
    <3>1. ASSUME NEW q \in Proc, NEW r \in Proc, Dir(q)' # NONE /\ Dir(q)' = Dir(r)' PROVE q = r
      <4>1. CASE q # p /\ r # p
        <5>1. Dir(q)' = Dir(q) /\ Dir(r)' = Dir(r)
          BY Zenon, <4>1
        <5>2. QED BY Zenon, <2>1, <3>1, <5>1 DEF DirsApart
      <4>2. CASE q = p /\ r # p
        <5>1. Dir(q)' = k /\ Dir(r)' = Dir(r)
          BY Zenon, <4>2
        <5>2. QED BY Zenon, <2>3, <3>1, <5>1
      <4>3. CASE q # p /\ r = p
        <5>1. Dir(q)' = Dir(q) /\ Dir(r)' = k
          BY Zenon, <4>3
        <5>2. QED BY Zenon, <2>3, <3>1, <5>1
      <4>4. QED BY Zenon, <4>1, <4>2, <4>3
    <3>2. ASSUME NEW q \in Proc PROVE Dir(q)' \notin kfree'
      <4>1. CASE q = p
        BY Zenon, <4>1
      <4>2. CASE q # p
        <5>1. Dir(q)' = Dir(q) /\ Dir(q) \notin kfree
          BY Zenon, <2>1, <4>2 DEF DirsApart
        <5>2. QED BY Zenon, <5>1
      <4>3. QED BY Zenon, <4>1, <4>2
    <3>3. QED BY Zenon, <3>1, <3>2 DEF DirsApart
  <2>5. TablesApart'
    <3>1. ASSUME NEW q \in Proc, NEW i \in Pds PROVE Table(q, i)' \notin kfree'
      <4>1. Table(q, i)' = Table(q, i) /\ Table(q, i) \notin kfree
        BY Zenon, <2>1 DEF TablesApart
      <4>2. QED BY Zenon, <4>1
    <3>2. ASSUME NEW q \in Proc, NEW r \in Proc, NEW i \in Pds, Table(q, i)' # NONE
          PROVE  Dir(r)' # Table(q, i)'
      <4>1. /\ Table(q, i)' = Table(q, i) /\ Table(q, i) \notin kfree
            /\ Table(q, i) # NONE => Dir(r) # Table(q, i)
        BY Zenon, <2>1 DEF TablesApart
      <4>2. CASE r = p
        <5>1. Dir(r)' = k
          BY Zenon, <4>2
        <5>2. QED BY Zenon, <4>1, <5>1
      <4>3. CASE r # p
        <5>1. Dir(r)' = Dir(r)
          BY Zenon, <4>3
        <5>2. QED BY Zenon, <3>2, <4>1, <5>1
      <4>4. QED BY Zenon, <4>2, <4>3
    <3>3. ASSUME NEW q \in Proc, NEW r \in Proc, NEW i \in Pds, NEW j \in Pds
          PROVE  OneTable(q, r, i, j)'
      <4>1. OneTable(q, r, i, j) /\ Table(q, i)' = Table(q, i) /\ Table(r, j)' = Table(r, j)
        BY Zenon, <2>1 DEF TablesApart
      <4>2. QED BY Zenon, <4>1 DEF OneTable
    <3>4. QED BY Zenon, <3>1, <3>2, <3>3 DEF TablesApart
  <2>6. ASSUME NEW g \in KPages
        PROVE  \/ g \in kfree' \/ \E q \in Proc : Dir(q)' = g
               \/ \E q \in Proc, i \in Pds : Table(q, i)' = g
    <3>1. CASE g = k
      BY Zenon, <3>1
    <3>2. CASE g # k /\ g \in kfree
      BY Zenon, <3>2
    <3>3. ASSUME NEW q \in Proc, Dir(q) = g PROVE \E r \in Proc : Dir(r)' = g
      <4>1. q # p
        BY Zenon, <3>3, NoPage
      <4>2. QED BY Zenon, <3>3, <4>1
    <3>4. ASSUME NEW q \in Proc, NEW i \in Pds, Table(q, i) = g
          PROVE  \E r \in Proc, j \in Pds : Table(r, j)' = g
      BY Zenon, <3>4
    <3>5. QED BY Zenon, <2>1, <3>1, <3>2, <3>3, <3>4 DEF KernelKept
  <2>7. QED BY Zenon, <2>4, <2>5, <2>6 DEF KernelKept
\* The step.
<1>Whole.
  ASSUME NEW p \in Proc, pagedir_create(p)
  PROVE  SpaceInv'
  <2> USE <1>Whole
  <2>1. /\ cur = p /\ pc[p] = "new"
        /\ UNCHANGED <<ufree, old_pd, pte, kpage, spare, cur, cr3, tlb>>
    BY Zenon DEF pagedir_create, Steps
  <2>2. CASE kfree = {}
    <3>1. Goes(p, "exit") /\ UNCHANGED <<kfree, pagedir, pde, todo>>
      BY Zenon, <2>2 DEF pagedir_create
    <3>2. QED BY Zenon, <2>1, <3>1, GoesOn
  <2>3. CASE kfree # {}
    <3> DEFINE k == Min(kfree)
    <3>1. /\ kfree' = kfree \ {k} /\ pagedir' = [pagedir EXCEPT ![p] = k]
          /\ pde' = [pde EXCEPT ![k] = NoPdes] /\ Goes(p, "activate")
          /\ \E s \in Segments : todo' = [todo EXCEPT ![p] = s]
      BY Zenon, <2>3 DEF pagedir_create
    <3>2. /\ SpaceTyped /\ (\A q \in Proc : Stage(q)) /\ DirsApart /\ Active /\ "activate" \in Place
          /\ LoadsApart /\ FramesApart /\ UserKept
      BY Zenon, SpaceFacts DEF Place
    <3>3. k \in kfree /\ k \in KPages /\ k # NONE
      BY Zenon, <2>3, <3>2, MinPage, NoPage
    <3> HIDE DEF k
    <3>4. PICK s \in Segments : todo' = [todo EXCEPT ![p] = s]
      BY Zenon, <3>1
    <3>5. s \in Seq([page : UPages, writable : BOOLEAN]) /\ s # <<>>
      BY Zenon DEF SpaceConstants
    <3>6. /\ pc' \in [Proc -> Place] /\ pc'[p] = "activate"
          /\ \A q \in Proc : q # p => pc'[q] = pc[q]
      BY Zenon, <3>1, <3>2, GoesTo
    <3>7. /\ pagedir'[p] = k /\ pagedir' \in [Proc -> KPages \cup {NONE}]
          /\ \A q \in Proc : q # p => pagedir'[q] = pagedir[q]
      BY Zenon, <3>1, <3>2, <3>3 DEF SpaceTyped
    <3>8. /\ todo'[p] = s /\ todo' \in [Proc -> Seq([page : UPages, writable : BOOLEAN])]
          /\ \A q \in Proc : q # p => todo'[q] = todo[q]
      BY Zenon, <3>2, <3>4, <3>5 DEF SpaceTyped
    <3>9. /\ pde' \in [KPages -> [Pds -> KPages \cup {NONE}]] /\ (\A i \in Pds : pde'[k][i] = NONE)
          /\ \A d \in KPages : d # k => pde'[d] = pde[d]
      <4>1. NoPdes \in [Pds -> KPages \cup {NONE}] /\ \A i \in Pds : NoPdes[i] = NONE
        BY Zenon DEF NoPdes
      <4>2. QED BY Zenon, <3>1, <3>2, <3>3, <4>1 DEF SpaceTyped
    <3>10. SpaceTyped'
      BY Zenon, <2>1, <3>1, <3>2, <3>6, <3>7, <3>8, <3>9 DEF SpaceTyped
    <3>11. pagedir[p] = NONE /\ old_pd[p] = NONE /\ kpage[p] = NONE /\ cr3 = NONE /\ Dir(p) = NONE
      BY Zenon, <2>1, <3>2 DEF Stage, Active, Dir
    <3>12. ASSUME NEW q \in Proc PROVE Stage(q)'
      <4>1. CASE q = p
        <5>1. /\ pc'[p] = "activate" /\ pagedir'[p] # NONE /\ old_pd'[p] = NONE /\ todo'[p] # <<>>
              /\ kpage'[p] = NONE
          BY Zenon, <2>1, <3>3, <3>5, <3>6, <3>7, <3>8, <3>11
        <5>2. Stage(p)'
          BY Zenon, <5>1 DEF Stage
        <5>3. QED BY Zenon, <4>1, <5>2
      <4>2. CASE q # p
        BY Zenon, <2>1, <3>2, <3>6, <3>7, <3>8, <4>2, StageStays
      <4>3. QED BY Zenon, <4>1, <4>2
    <3>13. Dir(p)' = k
      BY Zenon, <3>3, <3>7 DEF Dir
    <3>14. \A q \in Proc : q # p => Dir(q)' = Dir(q)
      BY Zenon, <2>1, <3>7 DEF Dir
    <3>15. ASSUME NEW q \in Proc, NEW i \in Pds PROVE Table(q, i)' = Table(q, i)
      <4>1. CASE q = p
        <5>1. Table(p, i)' = NONE /\ Table(p, i) = NONE
          BY Zenon, <3>9, <3>11, <3>13 DEF Table
        <5>2. QED BY Zenon, <4>1, <5>1
      <4>2. CASE q # p
        <5>1. Dir(q)' = Dir(q) /\ Dir(q) # k /\ Dir(q) \in KPages \cup {NONE}
          BY Zenon, <3>2, <3>3, <3>14, <4>2, PageKinds DEF DirsApart
        <5>2. QED BY Zenon, <3>9, <5>1 DEF Table
      <4>3. QED BY Zenon, <4>1, <4>2
    <3>16. DirsApart' /\ TablesApart' /\ KernelKept'
      BY Zenon, <3>1, <3>3, <3>11, <3>13, <3>14, <3>15, <1>DirTaken
    <3>17. ASSUME NEW q \in Proc, NEW u \in UPages PROVE Frame(q, u)' = Frame(q, u)
      <4>1. Table(q, PdOf[u])' = Table(q, PdOf[u])
        BY Zenon, <3>2, <3>15, PageKinds
      <4>2. EntryAt(q, u)' = EntryAt(q, u)
        BY Zenon, <2>1, <4>1 DEF EntryAt
      <4>3. QED BY Zenon, <4>1, <4>2 DEF Frame
    <3>18. LoadsApart' /\ FramesApart' /\ UserKept'
      BY Zenon, <2>1, <3>2, <3>17, UserStays
    <3>19. Active'
      BY Zenon, <2>1, <3>6, <3>11 DEF Active
    <3>20. TlbCoherent'
      BY Zenon, <2>1, <3>11, TlbInit, TlbEmpty
    <3>21. QED BY Zenon, <3>10, <3>12, <3>16, <3>18, <3>19, <3>20 DEF SpaceInv
  <2>4. QED BY Zenon, <2>2, <2>3
<1> QED BY Zenon, <1>Whole
-----------------------------------------------------------------------------
\* install_page.
LEMMA InstallStep ==
  ASSUME SpaceConstants, SpaceInv, Firsts
  PROVE  \A p \in Proc : install_page(p) => SpaceInv'
\* The entries the code makes: none, a new one, and one with a bit changed.
<1>NewEntries.
  ASSUME NEW f \in Frames, f # NONE, NEW w \in BOOLEAN
  PROVE  /\ NoPte \in Entry /\ NoPte.present = FALSE
         /\ [NoPte EXCEPT !.present = TRUE, !.frame = f, !.writable = w] \in Entry
         /\ [NoPte EXCEPT !.present = TRUE, !.frame = f, !.writable = w].present = TRUE
         /\ [NoPte EXCEPT !.present = TRUE, !.frame = f, !.writable = w].frame = f
  BY Zenon, <1>NewEntries DEF NoPte, Entry
\* The frame of a load is mapped.
<1>FrameMapped.
  ASSUME NEW p \in Proc, NEW u \in UPages, kpage[p] # NONE,
         Frame(p, u) = NONE, kpage' = [kpage EXCEPT ![p] = NONE], UNCHANGED <<ufree, spare>>,
         Frame(p, u)' = kpage[p],
         \A q \in Proc, v \in UPages : q # p \/ v # u => Frame(q, v)' = Frame(q, v)
  PROVE  LoadsApart' /\ FramesApart' /\ UserKept'
  <2> USE <1>FrameMapped
  <2> DEFINE f == kpage[p]
  <2>1. SpaceTyped /\ LoadsApart /\ FramesApart /\ UserKept
    BY Zenon, SpaceFacts
  <2>2. /\ f \notin ufree /\ f \notin spare /\ f # NONE
        /\ NONE \notin ufree /\ NONE \notin spare
    BY Zenon, <2>1, NoPage DEF LoadsApart, SpaceTyped
  <2>3. \A q \in Proc, v \in UPages : Frame(q, v) # f
    BY Zenon, <2>1, <2>2 DEF FramesApart
  <2>4. \A q \in Proc : q # p => kpage[q] # f
    BY Zenon, <2>1 DEF LoadsApart
  <2>5. kpage'[p] = NONE /\ \A q \in Proc : q # p => kpage'[q] = kpage[q]
    BY Zenon, <2>1 DEF SpaceTyped
  <2> HIDE DEF f
  <2>6. Frame(p, u)' = f
    BY Zenon DEF f
  <2>7. LoadsApart'
    <3>1. ufree' \cap spare' = {}
      BY Zenon, <2>1 DEF LoadsApart
    <3>2. ASSUME NEW q \in Proc PROVE kpage'[q] \notin ufree' /\ kpage'[q] \notin spare'
      <4>1. kpage[q] \notin ufree /\ kpage[q] \notin spare
        BY Zenon, <2>1 DEF LoadsApart
      <4>2. CASE q = p
        BY SMT, <2>2, <2>5, <4>2
      <4>3. CASE q # p
        BY SMT, <2>5, <4>1, <4>3
      <4>4. QED BY Zenon, <4>2, <4>3
    <3>3. ASSUME NEW q \in Proc, NEW r \in Proc, kpage'[q] # NONE /\ kpage'[q] = kpage'[r] PROVE q = r
      <4>1. CASE q # p /\ r # p
        <5>1. kpage'[q] = kpage[q] /\ kpage'[r] = kpage[r]
          BY Zenon, <2>5, <4>1
        <5>2. QED BY Zenon, <2>1, <3>3, <5>1 DEF LoadsApart
      <4>2. QED BY Zenon, <2>5, <3>3, <4>1
    <3>4. QED BY Zenon, <3>1, <3>2, <3>3 DEF LoadsApart
  <2>8. FramesApart'
    <3>1. ASSUME NEW q \in Proc, NEW v \in UPages
          PROVE  Frame(q, v)' \notin ufree' /\ Frame(q, v)' \notin spare'
      <4>1. CASE q = p /\ v = u
        <5>1. Frame(q, v)' = f
          BY Zenon, <2>6, <4>1
        <5>2. QED BY Zenon, <2>2, <5>1
      <4>2. CASE q # p \/ v # u
        <5>1. Frame(q, v)' = Frame(q, v) /\ Frame(q, v) \notin ufree /\ Frame(q, v) \notin spare
          BY Zenon, <2>1, <4>2 DEF FramesApart
        <5>2. QED BY Zenon, <5>1
      <4>3. QED BY Zenon, <4>1, <4>2
    <3>2. ASSUME NEW q \in Proc, NEW r \in Proc, NEW v \in UPages, Frame(q, v)' # NONE
          PROVE  kpage'[r] # Frame(q, v)'
      <4>1. CASE r = p
        <5>1. kpage'[r] = NONE
          BY Zenon, <2>5, <4>1
        <5>2. QED BY Zenon, <3>2, <5>1
      <4>2. CASE r # p /\ q = p /\ v = u
        <5>1. Frame(q, v)' = f /\ kpage'[r] = kpage[r] /\ kpage[r] # f
          BY Zenon, <2>4, <2>5, <2>6, <4>2
        <5>2. QED BY Zenon, <5>1
      <4>3. CASE r # p /\ (q # p \/ v # u)
        <5>1. /\ Frame(q, v)' = Frame(q, v) /\ (Frame(q, v) # NONE => kpage[r] # Frame(q, v))
              /\ kpage'[r] = kpage[r]
          BY Zenon, <2>1, <2>5, <4>3 DEF FramesApart
        <5>2. QED BY Zenon, <3>2, <5>1
      <4>4. QED BY Zenon, <4>1, <4>2, <4>3
    <3>3. ASSUME NEW q \in Proc, NEW r \in Proc, NEW v \in UPages, NEW w \in UPages
          PROVE  OneFrame(q, r, v, w)'
      <4>1. CASE q = p /\ v = u /\ (r # p \/ w # u)
        <5>1. Frame(q, v)' = f /\ Frame(r, w)' = Frame(r, w) /\ Frame(r, w) # f
          BY Zenon, <2>3, <2>6, <4>1
        <5>2. QED BY Zenon, <5>1 DEF OneFrame
      <4>2. CASE (q # p \/ v # u) /\ r = p /\ w = u
        <5>1. Frame(r, w)' = f /\ Frame(q, v)' = Frame(q, v) /\ Frame(q, v) # f
          BY Zenon, <2>3, <2>6, <4>2
        <5>2. QED BY Zenon, <5>1 DEF OneFrame
      <4>3. CASE (q # p \/ v # u) /\ (r # p \/ w # u)
        <5>1. OneFrame(q, r, v, w) /\ Frame(q, v)' = Frame(q, v) /\ Frame(r, w)' = Frame(r, w)
          BY Zenon, <2>1, <4>3 DEF FramesApart
        <5>2. QED BY Zenon, <5>1 DEF OneFrame
      <4>4. CASE q = r /\ v = w
        BY Zenon, <4>4 DEF OneFrame
      <4>5. QED BY Zenon, <4>1, <4>2, <4>3, <4>4
    <3>4. QED BY Zenon, <3>1, <3>2, <3>3 DEF FramesApart
  <2>9. ASSUME NEW g \in Frames
        PROVE  \/ g \in ufree' \/ g \in spare' \/ \E q \in Proc : kpage'[q] = g
               \/ \E q \in Proc, v \in UPages : Frame(q, v)' = g
    <3>1. CASE g = f
      BY Zenon, <2>6, <3>1
    <3>2. CASE g \in ufree \/ g \in spare
      BY Zenon, <3>2
    <3>3. ASSUME NEW q \in Proc, kpage[q] = g, g # f PROVE \E r \in Proc : kpage'[r] = g
      BY Zenon, <2>5, <3>3 DEF f
    <3>4. ASSUME NEW q \in Proc, NEW v \in UPages, Frame(q, v) = g
          PROVE  \E r \in Proc, w \in UPages : Frame(r, w)' = g
      <4>1. q # p \/ v # u
        BY Zenon, <3>4, NoPage
      <4>2. QED BY Zenon, <3>4, <4>1
    <3>5. QED BY Zenon, <2>1, <3>1, <3>2, <3>3, <3>4 DEF UserKept
  <2>10. QED BY Zenon, <2>7, <2>8, <2>9 DEF UserKept
\* What is left to load after a page.
<1>NextSegment.
  ASSUME NEW S, NEW s \in Seq(S), s # <<>>
  PROVE  /\ Tail(s) \in Seq(S) /\ Head(s) \in S /\ (Len(s) = 1 <=> Tail(s) = <<>>)
  <2> USE <1>NextSegment
  <2>1. Tail(s) \in Seq(S) /\ Head(s) \in S /\ Len(Tail(s)) = Len(s) - 1 /\ Len(s) \in Nat
    BY SMT
  <2>2. ASSUME NEW t \in Seq(S) PROVE t = <<>> <=> Len(t) = 0
    BY SMT
  <2>3. Tail(s) = <<>> <=> Len(Tail(s)) = 0
    BY Zenon, <2>1, <2>2
  <2>4. Len(s) = 1 <=> Len(Tail(s)) = 0
    BY SMT, <2>1
  <2>5. QED BY Zenon, <2>1, <2>3, <2>4
\* A page is loaded and mapped where none was: the rest of the page tables is
\* as it was.
<1>MappedStep.
  ASSUME NEW p \in Proc, NEW u \in UPages, cur = p, pc[p] = "install",
         Frame(p, u) = NONE, Installed(p, u, kpage[p]),
         kpage' = [kpage EXCEPT ![p] = NONE], todo' = [todo EXCEPT ![p] = Tail(@)],
         Goes(p, NextAfter(p)), UNCHANGED <<ufree, pagedir, old_pd, spare, cur, cr3, tlb>>
  PROVE  SpaceInv'
  <2> USE <1>MappedStep
  <2> DEFINE Segment == [page : UPages, writable : BOOLEAN]
  <2>1. SpaceTyped /\ (\A q \in Proc : Stage(q)) /\ Active
    BY Zenon, SpaceFacts
  <2>2. /\ todo[p] # <<>> /\ kpage[p] # NONE /\ pagedir[p] # NONE /\ old_pd[p] = NONE
        /\ cr3 = pagedir[p] /\ Dir(p) = pagedir[p] /\ todo[p] \in Seq(Segment)
    BY Zenon, <2>1 DEF Stage, Active, Dir, SpaceTyped
  <2>3. NextAfter(p) \in Place /\ NextAfter(p) \in {"user", "page"}
    BY Zenon DEF NextAfter, Place
  <2>4. /\ pc' \in [Proc -> Place] /\ pc'[p] = NextAfter(p)
        /\ \A q \in Proc : q # p => pc'[q] = pc[q]
    BY Zenon, <2>1, <2>3, GoesTo
  <2>5. /\ kpage'[p] = NONE /\ kpage' \in [Proc -> Frames \cup {NONE}]
        /\ \A q \in Proc : q # p => kpage'[q] = kpage[q]
    BY Zenon, <2>1 DEF SpaceTyped
  <2>6. Tail(todo[p]) \in Seq(Segment) /\ (Len(todo[p]) = 1 <=> Tail(todo[p]) = <<>>)
    BY Zenon, <2>2, <1>NextSegment
  <2>7. /\ todo'[p] = Tail(todo[p]) /\ todo' \in [Proc -> Seq(Segment)]
        /\ \A q \in Proc : q # p => todo'[q] = todo[q]
    BY Zenon, <2>1, <2>6 DEF SpaceTyped
  <2>8. SpaceTyped'
    BY Zenon, <2>1, <2>4, <2>5, <2>7 DEF SpaceTyped, Installed
  <2>9. ASSUME NEW q \in Proc PROVE Stage(q)'
    <3>1. CASE q = p
      <4>1. CASE Len(todo[p]) = 1
        <5>1. pc'[p] = "user" /\ todo'[p] = <<>>
          BY Zenon, <2>4, <2>6, <2>7, <4>1 DEF NextAfter
        <5>2. QED BY Zenon, <2>2, <2>5, <3>1, <5>1 DEF Stage
      <4>2. CASE Len(todo[p]) # 1
        <5>1. pc'[p] = "page" /\ todo'[p] # <<>>
          BY Zenon, <2>4, <2>6, <2>7, <4>2 DEF NextAfter
        <5>2. QED BY Zenon, <2>2, <2>5, <3>1, <5>1 DEF Stage
      <4>3. QED BY Zenon, <4>1, <4>2
    <3>2. CASE q # p
      BY Zenon, <2>1, <2>4, <2>5, <2>7, <3>2, StageStays
    <3>3. QED BY Zenon, <3>1, <3>2
  <2>10. LoadsApart' /\ FramesApart' /\ UserKept'
    <3>1. Frame(p, u)' = kpage[p] /\ UNCHANGED <<ufree, spare>>
      BY Zenon DEF Installed
    <3>2. \A q \in Proc, v \in UPages : q # p \/ v # u => Frame(q, v)' = Frame(q, v)
      BY Zenon DEF Installed
    <3>3. QED BY Zenon, <2>2, <3>1, <3>2, <1>FrameMapped
  <2>11. Dir(cur)' = pagedir[p] /\ cur' = p
    BY Zenon, <2>2 DEF Dir
  <2>12. Active'
    BY Zenon, <2>2, <2>3, <2>4, <2>11 DEF Active
  <2>13. ASSUME NEW x \in tlb' PROVE cr3' = Dir(cur)' /\ cr3' # NONE /\ TlbEntry(x)'
    <3>1. x.page \in UPages /\ TlbEntry(x)
      BY Zenon, <2>1, TlbIs DEF SpaceTyped
    <3>2. /\ Table(p, PdOf[x.page]) # NONE /\ EntryAt(p, x.page).present
          /\ EntryAt(p, x.page).frame = x.frame /\ EntryAt(p, x.page).accessed
          /\ x.dirty => EntryAt(p, x.page).dirty
      BY Zenon, <3>1 DEF TlbEntry
    <3>3. x.page # u
      <4>1. EntryAt(p, x.page) \in Entry
        BY Zenon, <2>1, <3>1, <3>2, PageKinds
      <4>2. Frame(p, x.page) # NONE
        BY Zenon, <3>2, <4>1, EntryFields, NoPage DEF Frame
      <4>3. QED BY Zenon, <4>2
    <3>4. /\ Table(p, PdOf[x.page])' = Table(p, PdOf[x.page])
          /\ EntryAt(p, x.page)' = EntryAt(p, x.page)
      BY Zenon, <3>1, <3>2, <3>3 DEF Installed
    <3>5. Table(cur, PdOf[x.page])' = Table(p, PdOf[x.page])'
      BY Zenon, <2>11 DEF Table, Dir
    <3>6. EntryAt(cur, x.page)' = EntryAt(p, x.page)'
      BY Zenon, <3>5 DEF EntryAt
    <3>7. TlbEntry(x)'
      BY Zenon, <3>2, <3>4, <3>5, <3>6 DEF TlbEntry
    <3>8. QED BY Zenon, <2>2, <2>11, <3>7
  <2>14. TlbCoherent'
    BY Zenon, <2>13, TlbIf
  <2>15. DirsApart' /\ TablesApart' /\ KernelKept'
    BY Zenon DEF Installed
  <2>16. QED BY Zenon, <2>8, <2>9, <2>10, <2>12, <2>14, <2>15 DEF SpaceInv
\* A page becomes a page table of a process.
<1>TableTaken.
  ASSUME NEW p \in Proc, NEW j \in Pds, NEW k \in kfree, Table(p, j) = NONE,
         kfree' = kfree \ {k}, \A q \in Proc : Dir(q)' = Dir(q), Table(p, j)' = k,
         \A q \in Proc, i \in Pds : q # p \/ i # j => Table(q, i)' = Table(q, i)
  PROVE  DirsApart' /\ TablesApart' /\ KernelKept'
  <2> USE <1>TableTaken
  <2>1. SpaceTyped /\ DirsApart /\ TablesApart /\ KernelKept
    BY Zenon, SpaceFacts
  <2>2. k \in KPages /\ k # NONE
    BY Zenon, <2>1, NoPage DEF SpaceTyped
  <2>3. (\A q \in Proc : Dir(q) # k) /\ (\A q \in Proc, i \in Pds : Table(q, i) # k)
    <3>1. ASSUME NEW q \in Proc PROVE Dir(q) # k
      BY Zenon, <2>1 DEF DirsApart
    <3>2. ASSUME NEW q \in Proc, NEW i \in Pds PROVE Table(q, i) # k
      BY Zenon, <2>1 DEF TablesApart
    <3>3. QED BY Zenon, <3>1, <3>2
  <2>4. DirsApart'
    <3>1. ASSUME NEW q \in Proc, NEW r \in Proc, Dir(q)' # NONE /\ Dir(q)' = Dir(r)' PROVE q = r
      <4>1. Dir(q)' = Dir(q) /\ Dir(r)' = Dir(r)
        BY Zenon
      <4>2. QED BY Zenon, <2>1, <3>1, <4>1 DEF DirsApart
    <3>2. ASSUME NEW q \in Proc PROVE Dir(q)' \notin kfree'
      <4>1. Dir(q)' = Dir(q) /\ Dir(q) \notin kfree
        BY Zenon, <2>1 DEF DirsApart
      <4>2. QED BY Zenon, <4>1
    <3>3. QED BY Zenon, <3>1, <3>2 DEF DirsApart
  <2>5. TablesApart'
    <3>1. ASSUME NEW q \in Proc, NEW i \in Pds PROVE Table(q, i)' \notin kfree'
      <4>1. CASE q = p /\ i = j
        <5>1. Table(q, i)' = k
          BY Zenon, <4>1
        <5>2. QED BY Zenon, <5>1
      <4>2. CASE q # p \/ i # j
        <5>1. Table(q, i)' = Table(q, i) /\ Table(q, i) \notin kfree
          BY Zenon, <2>1, <4>2 DEF TablesApart
        <5>2. QED BY Zenon, <5>1
      <4>3. QED BY Zenon, <4>1, <4>2
    <3>2. ASSUME NEW q \in Proc, NEW r \in Proc, NEW i \in Pds, Table(q, i)' # NONE
          PROVE  Dir(r)' # Table(q, i)'
      <4>1. Dir(r)' = Dir(r)
        BY Zenon
      <4>2. CASE q = p /\ i = j
        <5>1. Table(q, i)' = k /\ Dir(r) # k
          BY Zenon, <2>3, <4>2
        <5>2. QED BY Zenon, <4>1, <5>1
      <4>3. CASE q # p \/ i # j
        <5>1. Table(q, i)' = Table(q, i) /\ (Table(q, i) # NONE => Dir(r) # Table(q, i))
          BY Zenon, <2>1, <4>3 DEF TablesApart
        <5>2. QED BY Zenon, <3>2, <4>1, <5>1
      <4>4. QED BY Zenon, <4>2, <4>3
    <3>3. ASSUME NEW q \in Proc, NEW r \in Proc, NEW i \in Pds, NEW m \in Pds
          PROVE  OneTable(q, r, i, m)'
      <4>1. CASE q = p /\ i = j /\ (r # p \/ m # j)
        <5>1. Table(q, i)' = k /\ Table(r, m)' = Table(r, m) /\ Table(r, m) # k
          BY Zenon, <2>3, <4>1
        <5>2. QED BY Zenon, <5>1 DEF OneTable
      <4>2. CASE (q # p \/ i # j) /\ r = p /\ m = j
        <5>1. Table(r, m)' = k /\ Table(q, i)' = Table(q, i) /\ Table(q, i) # k
          BY Zenon, <2>3, <4>2
        <5>2. QED BY Zenon, <5>1 DEF OneTable
      <4>3. CASE (q # p \/ i # j) /\ (r # p \/ m # j)
        <5>1. OneTable(q, r, i, m) /\ Table(q, i)' = Table(q, i) /\ Table(r, m)' = Table(r, m)
          BY Zenon, <2>1, <4>3 DEF TablesApart
        <5>2. QED BY Zenon, <5>1 DEF OneTable
      <4>4. CASE q = r /\ i = m
        BY Zenon, <4>4 DEF OneTable
      <4>5. QED BY Zenon, <4>1, <4>2, <4>3, <4>4
    <3>4. QED BY Zenon, <3>1, <3>2, <3>3 DEF TablesApart
  <2>6. ASSUME NEW g \in KPages
        PROVE  \/ g \in kfree' \/ \E q \in Proc : Dir(q)' = g
               \/ \E q \in Proc, i \in Pds : Table(q, i)' = g
    <3>1. CASE g = k
      BY Zenon, <3>1
    <3>2. CASE g # k /\ g \in kfree
      BY Zenon, <3>2
    <3>3. ASSUME NEW q \in Proc, Dir(q) = g PROVE \E r \in Proc : Dir(r)' = g
      BY Zenon, <3>3
    <3>4. ASSUME NEW q \in Proc, NEW i \in Pds, Table(q, i) = g
          PROVE  \E r \in Proc, m \in Pds : Table(r, m)' = g
      <4>1. q # p \/ i # j
        BY Zenon, <3>4, NoPage
      <4>2. QED BY Zenon, <3>4, <4>1
    <3>5. QED BY Zenon, <2>1, <3>1, <3>2, <3>3, <3>4 DEF KernelKept
  <2>7. QED BY Zenon, <2>4, <2>5, <2>6 DEF KernelKept
\* Setting an entry changes it.
<1>PdeSet.
  ASSUME pde \in [KPages -> [Pds -> KPages \cup {NONE}]], NEW d \in KPages, NEW j \in Pds,
         NEW k \in KPages, pde' = [pde EXCEPT ![d][j] = k]
  PROVE  PdeChanged(d, j, k)
  <2> USE <1>PdeSet
  <2>1. pde[d] \in [Pds -> KPages \cup {NONE}]
    BY Zenon
  <2>2. [pde[d] EXCEPT ![j] = k] \in [Pds -> KPages \cup {NONE}]
    BY Zenon, <2>1
  <2>3. pde' = [pde EXCEPT ![d] = [pde[d] EXCEPT ![j] = k]]
    BY SMT
  <2>4. pde' \in [KPages -> [Pds -> KPages \cup {NONE}]]
    BY Zenon, <2>2, <2>3
  <2>5. pde'[d] = [pde[d] EXCEPT ![j] = k] /\ \A x \in KPages : x # d => pde'[x] = pde[x]
    BY Zenon, <2>3
  <2>6. pde'[d][j] = k /\ \A i \in Pds : i # j => pde'[d][i] = pde[d][i]
    BY Zenon, <2>1, <2>5
  <2>7. QED BY Zenon, <2>4, <2>5, <2>6 DEF PdeChanged
\* A new page table has one entry.
<1>PageTableNew.
  ASSUME pte \in [KPages -> [UPages -> Entry]], NEW k \in KPages, NEW u \in UPages, NEW e \in Entry,
         pte' = [pte EXCEPT ![k] = [NoPtes EXCEPT ![u] = e]]
  PROVE  /\ pte' \in [KPages -> [UPages -> Entry]] /\ pte'[k][u] = e
         /\ \A v \in UPages : v # u => pte'[k][v] = NoPte
         /\ \A x \in KPages : x # k => pte'[x] = pte[x]
  <2> USE <1>PageTableNew
  <2>1. NoPtes \in [UPages -> Entry] /\ \A v \in UPages : NoPtes[v] = NoPte
    BY Zenon, NoEntry DEF NoPtes
  <2>2. /\ [NoPtes EXCEPT ![u] = e] \in [UPages -> Entry] /\ [NoPtes EXCEPT ![u] = e][u] = e
        /\ \A v \in UPages : v # u => [NoPtes EXCEPT ![u] = e][v] = NoPte
    BY Zenon, <2>1
  <2>3. QED BY Zenon, <2>2
\* install_page where there is a page table.
<1>OldTable.
  ASSUME NEW p \in Proc, NEW u \in UPages, Table(p, PdOf[u]) # NONE, NEW e,
         Changed(Table(p, PdOf[u]), u, e), UNCHANGED <<kfree, pagedir, old_pd, pde>>, e.present
  PROVE  Installed(p, u, e.frame)
  <2> USE <1>OldTable
  <2>1. /\ \A q \in Proc : Dir(q)' = Dir(q)
        /\ \A q \in Proc, i \in Pds : Table(q, i)' = Table(q, i)
        /\ \A q \in Proc, v \in UPages :
             (q # p \/ v # u) /\ Table(q, PdOf[v]) # NONE => EntryAt(q, v)' = EntryAt(q, v)
        /\ \A q \in Proc, v \in UPages : q # p \/ v # u => Frame(q, v)' = Frame(q, v)
        /\ Frame(p, u)' = IF e.present THEN e.frame ELSE NONE
    BY Zenon, OneEntry
  <2>2. Frame(p, u)' = e.frame
    BY Zenon, <2>1
  <2>3. DirsApart' /\ TablesApart' /\ KernelKept'
    BY Zenon, <2>1, SpaceFacts, KernelStays
  <2>4. \A q \in Proc, v \in UPages : Table(q, PdOf[v])' = Table(q, PdOf[v])
    BY Zenon, <2>1, SpaceFacts, PageKinds
  <2>5. pde' \in [KPages -> [Pds -> KPages \cup {NONE}]] /\ kfree' \subseteq KPages
    BY Zenon, SpaceFacts DEF SpaceTyped
  <2>6. pte' \in [KPages -> [UPages -> Entry]]
    BY Zenon DEF Changed
  <2>7. QED BY Zenon, <2>1, <2>2, <2>3, <2>4, <2>5, <2>6 DEF Installed
\* install_page where there is no page table: no other page of the page table
\* is mapped.
<1>NewTable.
  ASSUME NEW p \in Proc, NEW u \in UPages, NEW k \in kfree, NEW e \in Entry,
         pagedir[p] # NONE, Table(p, PdOf[u]) = NONE, UNCHANGED <<pagedir, old_pd>>,
         kfree' = kfree \ {k}, pde' = [pde EXCEPT ![pagedir[p]][PdOf[u]] = k],
         pte' = [pte EXCEPT ![k] = [NoPtes EXCEPT ![u] = e]], e.present
  PROVE  Installed(p, u, e.frame)
  <2> USE <1>NewTable
  <2> DEFINE d == pagedir[p]
             j == PdOf[u]
  <2>1. SpaceTyped /\ DirsApart /\ TablesApart
    BY Zenon, SpaceFacts
  <2>2. /\ Dir(p) = d /\ d \in KPages /\ d # NONE /\ j \in Pds /\ k \in KPages /\ k # NONE
        /\ pde \in [KPages -> [Pds -> KPages \cup {NONE}]] /\ pte \in [KPages -> [UPages -> Entry]]
    <3>1. Dir(p) = d /\ d \in KPages /\ d # NONE
      BY ZenonT(40), <2>1, DirIs
    <3>2. j \in Pds
      BY Zenon, <2>1, PageKinds
    <3>3. k \in KPages /\ k # NONE
      BY Zenon, <2>1, NoPage DEF SpaceTyped
    <3>4. pde \in [KPages -> [Pds -> KPages \cup {NONE}]] /\ pte \in [KPages -> [UPages -> Entry]]
      BY Zenon, <2>1 DEF SpaceTyped
    <3>5. QED BY Zenon, <3>1, <3>2, <3>3, <3>4
  <2>3. /\ pde' \in [KPages -> [Pds -> KPages \cup {NONE}]] /\ pde'[d][j] = k
        /\ \A i \in Pds : i # j => pde'[d][i] = pde[d][i]
        /\ \A x \in KPages : x # d => pde'[x] = pde[x]
    <3>1. pde' = [pde EXCEPT ![d][j] = k]
      OBVIOUS
    <3> HIDE DEF d, j
    <3>2. PdeChanged(d, j, k)
      BY Zenon, <2>2, <3>1, <1>PdeSet
    <3>3. QED BY Zenon, <3>2 DEF PdeChanged
  <2>4. /\ pte' \in [KPages -> [UPages -> Entry]] /\ pte'[k][u] = e
        /\ \A v \in UPages : v # u => pte'[k][v] = NoPte
        /\ \A x \in KPages : x # k => pte'[x] = pte[x]
    BY Zenon, <2>2, <1>PageTableNew
  <2>5. Table(p, j) = NONE
    OBVIOUS
  <2> HIDE DEF d, j
  <2>6. \A q \in Proc : Dir(q)' = Dir(q)
    BY Zenon DEF Dir
  <2>7. Table(p, j)' = k
    BY Zenon, <2>2, <2>3, <2>6 DEF Table
  <2>8. ASSUME NEW q \in Proc, NEW i \in Pds, q # p \/ i # j PROVE Table(q, i)' = Table(q, i)
    <3>1. CASE q = p
      <4>1. Table(p, i)' = pde'[d][i] /\ Table(p, i) = pde[d][i]
        BY Zenon, <2>2, <2>6 DEF Table
      <4>2. QED BY Zenon, <2>3, <2>8, <3>1, <4>1
    <3>2. CASE q # p /\ Dir(q) # NONE
      <4>1. Dir(q) # d /\ Dir(q) \in KPages
        BY Zenon, <2>1, <2>2, <3>2, PageKinds DEF DirsApart
      <4>2. Table(q, i)' = pde'[Dir(q)][i] /\ Table(q, i) = pde[Dir(q)][i]
        BY Zenon, <2>6, <3>2 DEF Table
      <4>3. pde'[Dir(q)] = pde[Dir(q)]
        BY Zenon, <2>3, <4>1
      <4>4. QED BY Zenon, <4>2, <4>3
    <3>3. CASE Dir(q) = NONE
      BY Zenon, <2>6, <3>3 DEF Table
    <3>4. QED BY Zenon, <3>1, <3>2, <3>3
  <2>9. DirsApart' /\ TablesApart' /\ KernelKept'
    BY Zenon, <2>2, <2>5, <2>6, <2>7, <2>8, <1>TableTaken
  <2>10. Frame(p, u)' = e.frame
    <3>1. Table(p, PdOf[u])' = k
      BY Zenon, <2>7 DEF j
    <3>2. EntryAt(p, u)' = e
      BY Zenon, <2>4, <3>1 DEF EntryAt
    <3>3. QED BY Zenon, <2>2, <3>1, <3>2 DEF Frame
  <2>11. ASSUME NEW q \in Proc, NEW v \in UPages, q # p \/ PdOf[v] # j
         PROVE  /\ Table(q, PdOf[v])' = Table(q, PdOf[v]) /\ Frame(q, v)' = Frame(q, v)
                /\ Table(q, PdOf[v]) # NONE => EntryAt(q, v)' = EntryAt(q, v)
    <3>1. PdOf[v] \in Pds /\ Table(q, PdOf[v]) \in KPages \cup {NONE}
      BY Zenon, <2>1, PageKinds
    <3>2. Table(q, PdOf[v])' = Table(q, PdOf[v])
      BY Zenon, <2>8, <2>11, <3>1
    <3>3. Table(q, PdOf[v]) # k
      BY Zenon, <2>1, <3>1 DEF TablesApart
    <3>4. Table(q, PdOf[v]) # NONE => EntryAt(q, v)' = EntryAt(q, v)
      BY Zenon, <2>4, <3>1, <3>2, <3>3 DEF EntryAt
    <3>5. Frame(q, v)' = Frame(q, v)
      BY Zenon, <3>2, <3>4 DEF Frame
    <3>6. QED BY Zenon, <3>2, <3>4, <3>5
  <2>12. ASSUME NEW v \in UPages, v # u, PdOf[v] = j
         PROVE  Frame(p, v)' = Frame(p, v) /\ Table(p, PdOf[v]) = NONE
    <3>1. Table(p, PdOf[v])' = k /\ Table(p, PdOf[v]) = NONE
      BY Zenon, <2>5, <2>7, <2>12
    <3>2. EntryAt(p, v)' = NoPte
      BY Zenon, <2>4, <2>12, <3>1 DEF EntryAt
    <3>3. Frame(p, v)' = NONE
      BY Zenon, <3>2, NoEntry DEF Frame
    <3>4. Frame(p, v) = NONE
      BY Zenon, <3>1 DEF Frame
    <3>5. QED BY Zenon, <3>1, <3>3, <3>4
  <2>13. ASSUME NEW q \in Proc, NEW v \in UPages, q # p \/ v # u
         PROVE  /\ Frame(q, v)' = Frame(q, v)
                /\ Table(q, PdOf[v]) # NONE =>
                     Table(q, PdOf[v])' = Table(q, PdOf[v]) /\ EntryAt(q, v)' = EntryAt(q, v)
    <3>1. CASE q # p \/ PdOf[v] # j
      BY Zenon, <2>11, <3>1
    <3>2. CASE q = p /\ PdOf[v] = j
      BY Zenon, <2>12, <2>13, <3>2
    <3>3. QED BY Zenon, <3>1, <3>2
  <2>14. kfree' \subseteq KPages
    BY Zenon, <2>1 DEF SpaceTyped
  <2>15. \A q \in Proc, v \in UPages : q # p \/ v # u => Frame(q, v)' = Frame(q, v)
    BY Zenon, <2>13
  <2>16. \A q \in Proc, v \in UPages : (q # p \/ v # u) /\ Table(q, PdOf[v]) # NONE =>
           Table(q, PdOf[v])' = Table(q, PdOf[v]) /\ EntryAt(q, v)' = EntryAt(q, v)
    BY Zenon, <2>13
  <2>17. pde' \in [KPages -> [Pds -> KPages \cup {NONE}]] /\ pte' \in [KPages -> [UPages -> Entry]]
    BY Zenon, <2>3, <2>4
  <2>18. QED BY Zenon, <2>9, <2>10, <2>14, <2>15, <2>16, <2>17 DEF Installed
\* The step.
<1>Whole.
  ASSUME NEW p \in Proc, install_page(p)
  PROVE  SpaceInv'
  <2> USE <1>Whole
  <2> DEFINE u == Head(todo[p]).page
             w == Head(todo[p]).writable
             d == pagedir[p]
             e == [NoPte EXCEPT !.present = TRUE, !.frame = kpage[p], !.writable = w]
             k == Min(kfree)
  <2>1. /\ cur = p /\ pc[p] = "install" /\ ~ Mapped(d, u) /\ (HasPt(d, u) \/ kfree # {})
        /\ kpage' = [kpage EXCEPT ![p] = NONE] /\ todo' = [todo EXCEPT ![p] = Tail(@)]
        /\ Goes(p, NextAfter(p)) /\ UNCHANGED <<ufree, pagedir, old_pd, spare, cur, cr3, tlb>>
    BY Zenon DEF install_page, Steps
  <2>2. HasPt(d, u) => pte' = [pte EXCEPT ![pde[d][PdOf[u]]][u] = e] /\ UNCHANGED <<kfree, pde>>
    BY Zenon DEF install_page, SetPte
  <2>3. ~ HasPt(d, u) =>
          /\ kfree' = kfree \ {k} /\ pde' = [pde EXCEPT ![d][PdOf[u]] = k]
          /\ pte' = [pte EXCEPT ![k] = [NoPtes EXCEPT ![u] = e]]
    BY Zenon DEF install_page
  <2>4. SpaceTyped /\ Stage(p)
    BY Zenon, SpaceFacts
  <2>5. /\ d # NONE /\ kpage[p] # NONE /\ kpage[p] \in Frames /\ todo[p] # <<>>
        /\ todo[p] \in Seq([page : UPages, writable : BOOLEAN])
        /\ pte \in [KPages -> [UPages -> Entry]] /\ pde \in [KPages -> [Pds -> KPages \cup {NONE}]]
        /\ kfree \subseteq KPages
    BY Zenon, <2>1, <2>4 DEF Stage, SpaceTyped
  <2>6. u \in UPages /\ w \in BOOLEAN
    <3>1. Head(todo[p]) \in [page : UPages, writable : BOOLEAN]
      BY Zenon, <2>5, <1>NextSegment
    <3>2. QED BY Zenon, <3>1
  <2>7. e \in Entry /\ e.present /\ e.frame = kpage[p]
    <3> HIDE DEF w
    <3>1. e.present = TRUE /\ e \in Entry /\ e.frame = kpage[p]
      BY Zenon, <2>5, <2>6, <1>NewEntries
    <3>2. QED BY Zenon, <3>1
  <2> HIDE DEF u, w, e
  <2>8. /\ Frame(p, u) = NONE /\ (HasPt(d, u) <=> Table(p, PdOf[u]) # NONE)
        /\ pde[d][PdOf[u]] = Table(p, PdOf[u]) /\ PdOf[u] \in Pds
    BY Zenon, <2>1, <2>4, <2>5, <2>6, DirIs, PageKinds
  <2>9. CASE HasPt(d, u)
    <3>1. Table(p, PdOf[u]) \in KPages /\ Table(p, PdOf[u]) # NONE
      BY Zenon, <2>4, <2>8, <2>9, PageKinds
    <3>2. pte' = [pte EXCEPT ![Table(p, PdOf[u])][u] = e] /\ UNCHANGED <<kfree, pde>>
      BY Zenon, <2>2, <2>8, <2>9
    <3>3. Changed(Table(p, PdOf[u]), u, e)
      BY Zenon, <2>5, <2>6, <2>7, <3>1, <3>2, EntrySet
    <3> HIDE DEF d
    <3>4. UNCHANGED <<pagedir, old_pd, pde>>
      BY Zenon, <2>1, <3>2
    <3>5. Installed(p, u, kpage[p])
      BY Zenon, <2>6, <2>7, <3>1, <3>2, <3>3, <3>4, <1>OldTable
    <3>6. QED BY Zenon, <2>1, <2>6, <2>8, <3>5, <1>MappedStep
  <2>10. CASE ~ HasPt(d, u)
    <3>1. k \in kfree
      BY Zenon, <2>1, <2>4, <2>10, MinPage
    <3> HIDE DEF k
    <3>2. /\ kfree' = kfree \ {k} /\ pde' = [pde EXCEPT ![pagedir[p]][PdOf[u]] = k]
          /\ pte' = [pte EXCEPT ![k] = [NoPtes EXCEPT ![u] = e]] /\ UNCHANGED <<pagedir, old_pd>>
      BY Zenon, <2>1, <2>3, <2>10
    <3>3. Installed(p, u, e.frame)
      BY Zenon, <2>5, <2>6, <2>7, <2>8, <2>10, <3>1, <3>2, <1>NewTable
    <3>4. Installed(p, u, kpage[p])
      BY Zenon, <2>7, <3>3
    <3>5. QED BY Zenon, <2>1, <2>6, <2>8, <3>4, <1>MappedStep
  <2>11. QED BY Zenon, <2>9, <2>10
<1> QED BY Zenon, <1>Whole
-----------------------------------------------------------------------------
\* pagedir_destroy.
LEMMA DestroyStep ==
  ASSUME SpaceConstants, SpaceInv
  PROVE  \A p \in Proc : pagedir_destroy(p) => SpaceInv'
\* The pages that pagedir_destroy frees.
<1>Destroyed.
  ASSUME SpaceTyped, NEW p \in Proc, pagedir[p] = NONE, old_pd[p] # NONE
  PROVE  /\ Dir(p) = old_pd[p] /\ old_pd[p] \in KPages
         /\ \A k : k \in Tables(old_pd[p]) <=> k # NONE /\ \E i \in Pds : Table(p, i) = k
         /\ \A f : f \in FramesOf(old_pd[p]) <=> f # NONE /\ \E u \in UPages : Frame(p, u) = f
  <2> USE <1>Destroyed
  <2> DEFINE d == old_pd[p]
  <2>1. Dir(p) = d /\ d # NONE /\ d \in KPages
    BY Zenon DEF Dir, SpaceTyped
  <2>2. \A i \in Pds : Table(p, i) = pde[d][i]
    BY Zenon, <2>1 DEF Table
  <2> HIDE DEF d
  <2>3. \A k : k \in Tables(d) <=> k # NONE /\ \E i \in Pds : Table(p, i) = k
    BY Zenon, <2>2 DEF Tables
  <2>4. ASSUME NEW u \in UPages
        PROVE  /\ Mapped(d, u) <=> Frame(p, u) # NONE
               /\ Mapped(d, u) => Pte(d, u).frame = Frame(p, u)
    <3>1. PdOf[u] \in Pds /\ (Table(p, PdOf[u]) # NONE => EntryAt(p, u) \in Entry)
      BY Zenon, PageKinds
    <3>2. HasPt(d, u) <=> Table(p, PdOf[u]) # NONE
      BY Zenon, <2>2, <3>1 DEF HasPt
    <3>3. Pte(d, u) = EntryAt(p, u)
      BY Zenon, <2>2, <3>1 DEF Pte, EntryAt
    <3>4. Table(p, PdOf[u]) # NONE /\ EntryAt(p, u).present => EntryAt(p, u).frame # NONE
      BY Zenon, <3>1, EntryFields, NoPage
    <3>5. QED BY Zenon, <3>2, <3>3, <3>4 DEF Mapped, Frame
  <2>5. ASSUME NEW f PROVE f \in FramesOf(d) <=> f # NONE /\ \E u \in UPages : Frame(p, u) = f
    <3>1. f \in FramesOf(d) <=> \E u \in UPages : Mapped(d, u) /\ Pte(d, u).frame = f
      BY Zenon DEF FramesOf
    <3>2. QED BY Zenon, <2>4, <3>1
  <2>6. QED BY Zenon, <2>1, <2>3, <2>5 DEF d
\* The tables after pagedir_destroy.
<1>TablesGone.
  ASSUME NEW p \in Proc, pagedir[p] = NONE, old_pd[p] # NONE,
         pagedir' = pagedir, old_pd' = [old_pd EXCEPT ![p] = NONE],
         pde' = [pde EXCEPT ![old_pd[p]] = NoPdes],
         pte' = [k \in KPages |-> IF k \in Tables(old_pd[p]) THEN NoPtes ELSE pte[k]]
  PROVE  /\ Gone(p) /\ old_pd' \in [Proc -> KPages \cup {NONE}]
         /\ pde' \in [KPages -> [Pds -> KPages \cup {NONE}]] /\ pte' \in [KPages -> [UPages -> Entry]]
  <2> USE <1>TablesGone
  <2> DEFINE d == old_pd[p]
  <2>1. SpaceTyped /\ DirsApart /\ TablesApart
    BY Zenon, SpaceFacts
  <2>2. /\ Dir(p) = d /\ d \in KPages /\ d # NONE
        /\ \A k : k \in Tables(d) <=> k # NONE /\ \E i \in Pds : Table(p, i) = k
    BY Zenon, <2>1, <1>Destroyed
  <2>3. /\ old_pd' \in [Proc -> KPages \cup {NONE}] /\ old_pd'[p] = NONE
        /\ \A q \in Proc : q # p => old_pd'[q] = old_pd[q]
    BY Zenon, <2>1 DEF SpaceTyped
  <2>4. NoPdes \in [Pds -> KPages \cup {NONE}]
    BY Zenon DEF NoPdes
  <2>5. /\ pde' \in [KPages -> [Pds -> KPages \cup {NONE}]]
        /\ \A k \in KPages : k # d => pde'[k] = pde[k]
    BY Zenon, <2>1, <2>2, <2>4 DEF SpaceTyped
  <2>6. NoPtes \in [UPages -> Entry]
    BY Zenon, NoEntry DEF NoPtes
  <2>7. /\ \A k \in KPages : pte[k] \in [UPages -> Entry]
        /\ \A k \in KPages : k \notin Tables(d) => pte'[k] = pte[k]
    BY Zenon, <2>1 DEF SpaceTyped
  <2>8. pte' \in [KPages -> [UPages -> Entry]]
    BY Zenon, <2>6, <2>7
  <2> HIDE DEF d
  <2>9. Dir(p)' = NONE
    BY Zenon, <2>3 DEF Dir
  <2>10. ASSUME NEW q \in Proc, q # p PROVE Dir(q)' = Dir(q)
    BY Zenon, <2>3, <2>10 DEF Dir
  <2>11. \A i : Table(p, i)' = NONE
    BY Zenon, <2>9 DEF Table
  <2>12. \A u : Frame(p, u)' = NONE
    BY Zenon, <2>11 DEF Frame
  <2>13. ASSUME NEW q \in Proc, NEW i \in Pds, q # p PROVE Table(q, i)' = Table(q, i)
    <3>1. CASE Dir(q) = NONE
      BY Zenon, <2>10, <2>13, <3>1 DEF Table
    <3>2. CASE Dir(q) # NONE
      <4>1. Dir(q) # d /\ Dir(q) \in KPages
        BY Zenon, <2>1, <2>2, <2>13, <3>2, PageKinds DEF DirsApart
      <4>2. Table(q, i)' = pde'[Dir(q)][i] /\ Table(q, i) = pde[Dir(q)][i]
        BY Zenon, <2>10, <2>13, <3>2 DEF Table
      <4>3. pde'[Dir(q)] = pde[Dir(q)]
        BY Zenon, <2>5, <4>1
      <4>4. QED BY Zenon, <4>2, <4>3
    <3>3. QED BY Zenon, <3>1, <3>2
  <2>14. ASSUME NEW q \in Proc, NEW u \in UPages, q # p PROVE Frame(q, u)' = Frame(q, u)
    <3>1. PdOf[u] \in Pds /\ Table(q, PdOf[u]) \in KPages \cup {NONE}
      BY Zenon, <2>1, PageKinds
    <3>2. Table(q, PdOf[u])' = Table(q, PdOf[u])
      BY Zenon, <2>13, <2>14, <3>1
    <3>3. CASE Table(q, PdOf[u]) = NONE
      BY Zenon, <3>2, <3>3 DEF Frame
    <3>4. CASE Table(q, PdOf[u]) # NONE
      <4>1. ASSUME NEW i \in Pds PROVE Table(p, i) # Table(q, PdOf[u])
        <5>1. OneTable(q, p, PdOf[u], i)
          BY Zenon, <2>1, <3>1 DEF TablesApart
        <5>2. QED BY Zenon, <2>14, <3>4, <5>1 DEF OneTable
      <4>2. Table(q, PdOf[u]) \notin Tables(d)
        BY Zenon, <2>2, <4>1
      <4>3. pte'[Table(q, PdOf[u])] = pte[Table(q, PdOf[u])]
        BY Zenon, <2>7, <3>1, <3>4, <4>2
      <4>4. EntryAt(q, u)' = EntryAt(q, u)
        BY Zenon, <3>2, <4>3 DEF EntryAt
      <4>5. QED BY Zenon, <3>2, <4>4 DEF Frame
    <3>5. QED BY Zenon, <3>3, <3>4
  <2>15. Gone(p)
    BY Zenon, <2>9, <2>10, <2>11, <2>12, <2>13, <2>14 DEF Gone
  <2>16. QED BY Zenon, <2>3, <2>5, <2>8, <2>15
\* The pages of the tables are free again.
<1>KernelGone.
  ASSUME NEW p \in Proc, Dir(p) # NONE, Gone(p), NEW T,
         \A k : k \in T <=> k # NONE /\ \E i \in Pds : Table(p, i) = k,
         kfree' = kfree \cup T \cup {Dir(p)}
  PROVE  DirsApart' /\ TablesApart' /\ KernelKept' /\ kfree' \subseteq KPages
  <2> USE <1>KernelGone
  <2> DEFINE d == Dir(p)
  <2>1. SpaceTyped /\ DirsApart /\ TablesApart /\ KernelKept
    BY Zenon, SpaceFacts
  <2>2. d \in KPages /\ d # NONE /\ \A i \in Pds : Table(p, i) \in KPages \cup {NONE}
    BY Zenon, <2>1, PageKinds
  <2>3. \A k : k \in kfree' <=> k \in kfree \/ k \in T \/ k = d
    BY Zenon
  <2>4. T \subseteq KPages
    BY Zenon, <2>2
  <2>5. kfree' \subseteq KPages
    BY Zenon, <2>1, <2>2, <2>3, <2>4 DEF SpaceTyped
  <2>6. NONE \notin kfree'
    BY Zenon, <2>5, NoPage
  <2>7. /\ Dir(p)' = NONE /\ \A i : Table(p, i)' = NONE
    BY Zenon DEF Gone
  <2>8. ASSUME NEW q \in Proc, q # p
        PROVE  Dir(q)' = Dir(q) /\ \A i \in Pds : Table(q, i)' = Table(q, i)
    BY Zenon, <2>8 DEF Gone
  <2> HIDE DEF d
  <2>9. DirsApart'
    <3>1. ASSUME NEW q \in Proc, NEW r \in Proc, Dir(q)' # NONE /\ Dir(q)' = Dir(r)' PROVE q = r
      <4>1. q # p /\ r # p
        BY Zenon, <2>7, <3>1
      <4>2. Dir(q)' = Dir(q) /\ Dir(r)' = Dir(r)
        BY Zenon, <2>8, <4>1
      <4>3. QED BY Zenon, <2>1, <3>1, <4>2 DEF DirsApart
    <3>2. ASSUME NEW q \in Proc PROVE Dir(q)' \notin kfree'
      <4>1. CASE Dir(q)' = NONE
        BY Zenon, <2>6, <4>1
      <4>2. CASE Dir(q)' # NONE
        <5>1. q # p
          BY Zenon, <2>7, <4>2
        <5>2. Dir(q)' = Dir(q) /\ Dir(q) \notin kfree
          BY Zenon, <2>1, <2>8, <5>1 DEF DirsApart
        <5>3. Dir(q) # d
          BY Zenon, <2>1, <4>2, <5>1, <5>2 DEF DirsApart, d
        <5>4. ASSUME NEW i \in Pds, Table(p, i) # NONE PROVE Dir(q) # Table(p, i)
          BY Zenon, <2>1, <5>4 DEF TablesApart
        <5>5. Dir(q) \notin T
          BY Zenon, <5>4
        <5>6. QED BY Zenon, <2>3, <5>2, <5>3, <5>5
      <4>3. QED BY Zenon, <4>1, <4>2
    <3>3. QED BY Zenon, <3>1, <3>2 DEF DirsApart
  <2>10. TablesApart'
    <3>1. ASSUME NEW q \in Proc, NEW i \in Pds PROVE Table(q, i)' \notin kfree'
      <4>1. CASE Table(q, i)' = NONE
        BY Zenon, <2>6, <4>1
      <4>2. CASE Table(q, i)' # NONE
        <5>1. q # p
          BY Zenon, <2>7, <4>2
        <5>2. Table(q, i)' = Table(q, i) /\ Table(q, i) \notin kfree /\ Table(q, i) # NONE
          BY Zenon, <2>1, <2>8, <4>2, <5>1 DEF TablesApart
        <5>3. Table(q, i) # d
          BY Zenon, <2>1, <5>2 DEF TablesApart, d
        <5>4. ASSUME NEW j \in Pds PROVE Table(p, j) # Table(q, i)
          <6>1. OneTable(q, p, i, j)
            BY Zenon, <2>1 DEF TablesApart
          <6>2. QED BY Zenon, <5>1, <5>2, <6>1 DEF OneTable
        <5>5. Table(q, i) \notin T
          BY Zenon, <5>4
        <5>6. QED BY Zenon, <2>3, <5>2, <5>3, <5>5
      <4>3. QED BY Zenon, <4>1, <4>2
    <3>2. ASSUME NEW q \in Proc, NEW r \in Proc, NEW i \in Pds, Table(q, i)' # NONE
          PROVE  Dir(r)' # Table(q, i)'
      <4>1. CASE r = p
        <5>1. Dir(r)' = NONE
          BY Zenon, <2>7, <4>1
        <5>2. QED BY Zenon, <3>2, <5>1
      <4>2. CASE r # p
        <5>1. q # p
          BY Zenon, <2>7, <3>2
        <5>2. Table(q, i)' = Table(q, i) /\ Dir(r)' = Dir(r)
          BY Zenon, <2>8, <4>2, <5>1
        <5>3. Table(q, i) # NONE => Dir(r) # Table(q, i)
          BY Zenon, <2>1 DEF TablesApart
        <5>4. QED BY Zenon, <3>2, <5>2, <5>3
      <4>3. QED BY Zenon, <4>1, <4>2
    <3>3. ASSUME NEW q \in Proc, NEW r \in Proc, NEW i \in Pds, NEW j \in Pds
          PROVE  OneTable(q, r, i, j)'
      <4>1. CASE q = p
        <5>1. Table(q, i)' = NONE
          BY Zenon, <2>7, <4>1
        <5>2. QED BY Zenon, <5>1 DEF OneTable
      <4>2. CASE r = p
        <5>1. Table(r, j)' = NONE
          BY Zenon, <2>7, <4>2
        <5>2. QED BY Zenon, <5>1 DEF OneTable
      <4>3. CASE q # p /\ r # p
        <5>1. OneTable(q, r, i, j) /\ Table(q, i)' = Table(q, i) /\ Table(r, j)' = Table(r, j)
          BY Zenon, <2>1, <2>8, <4>3 DEF TablesApart
        <5>2. QED BY Zenon, <5>1 DEF OneTable
      <4>4. QED BY Zenon, <4>1, <4>2, <4>3
    <3>4. QED BY Zenon, <3>1, <3>2, <3>3 DEF TablesApart
  <2>11. ASSUME NEW k \in KPages
         PROVE  \/ k \in kfree' \/ \E q \in Proc : Dir(q)' = k
                \/ \E q \in Proc, i \in Pds : Table(q, i)' = k
    <3>1. k # NONE
      BY Zenon, NoPage
    <3>2. CASE k \in kfree
      BY Zenon, <2>3, <3>2
    <3>3. ASSUME NEW q \in Proc, Dir(q) = k PROVE k \in kfree' \/ \E r \in Proc : Dir(r)' = k
      <4>1. CASE q = p
        BY Zenon, <2>3, <3>3, <4>1 DEF d
      <4>2. CASE q # p
        BY Zenon, <2>8, <3>3, <4>2
      <4>3. QED BY Zenon, <4>1, <4>2
    <3>4. ASSUME NEW q \in Proc, NEW i \in Pds, Table(q, i) = k
          PROVE  k \in kfree' \/ \E r \in Proc, j \in Pds : Table(r, j)' = k
      <4>1. CASE q = p
        BY Zenon, <2>3, <3>1, <3>4, <4>1
      <4>2. CASE q # p
        BY Zenon, <2>8, <3>4, <4>2
      <4>3. QED BY Zenon, <4>1, <4>2
    <3>5. QED BY Zenon, <2>1, <3>2, <3>3, <3>4 DEF KernelKept
  <2>12. QED BY Zenon, <2>5, <2>9, <2>10, <2>11 DEF KernelKept
\* And so are the frames.
<1>UserGone.
  ASSUME NEW p \in Proc, Gone(p), NEW F,
         \A f : f \in F <=> f # NONE /\ \E u \in UPages : Frame(p, u) = f,
         ufree' = ufree \cup F, UNCHANGED <<kpage, spare>>
  PROVE  LoadsApart' /\ FramesApart' /\ UserKept' /\ ufree' \subseteq Frames
  <2> USE <1>UserGone
  <2>1. SpaceTyped /\ LoadsApart /\ FramesApart /\ UserKept
    BY Zenon, SpaceFacts
  <2>2. F \subseteq Frames
    BY Zenon, <2>1, PageKinds
  <2>3. ufree' \subseteq Frames /\ NONE \notin ufree' /\ NONE \notin spare
    BY Zenon, <2>1, <2>2, NoPage DEF SpaceTyped
  <2>4. \A f : f \in ufree' <=> f \in ufree \/ f \in F
    BY Zenon
  <2>5. ASSUME NEW f \in F PROVE f \notin spare /\ \A q \in Proc : kpage[q] # f
    <3>1. PICK u \in UPages : Frame(p, u) = f /\ f # NONE
      BY Zenon
    <3>2. QED BY Zenon, <2>1, <3>1 DEF FramesApart
  <2>6. LoadsApart'
    <3>1. ASSUME NEW f PROVE ~ (f \in ufree' /\ f \in spare')
      <4>1. ~ (f \in ufree /\ f \in spare)
        BY SMT, <2>1 DEF LoadsApart
      <4>2. QED BY Zenon, <2>4, <2>5, <4>1
    <3>2. ufree' \cap spare' = {}
      BY Zenon, <3>1
    <3>3. ASSUME NEW q \in Proc PROVE kpage'[q] \notin ufree' /\ kpage'[q] \notin spare'
      <4>1. kpage'[q] = kpage[q] /\ kpage[q] \notin ufree /\ kpage[q] \notin spare
        BY Zenon, <2>1 DEF LoadsApart
      <4>2. QED BY Zenon, <2>4, <2>5, <4>1
    <3>4. QED BY Zenon, <2>1, <3>2, <3>3 DEF LoadsApart
  <2>7. \A u : Frame(p, u)' = NONE
    BY Zenon DEF Gone
  <2>8. ASSUME NEW q \in Proc, NEW u \in UPages, q # p PROVE Frame(q, u)' = Frame(q, u)
    BY Zenon, <2>8 DEF Gone
  <2>9. FramesApart'
    <3>1. ASSUME NEW q \in Proc, NEW u \in UPages PROVE Frame(q, u)' \notin ufree' /\ Frame(q, u)' \notin spare'
      <4>1. CASE Frame(q, u)' = NONE
        BY Zenon, <2>3, <4>1
      <4>2. CASE Frame(q, u)' # NONE
        <5>1. q # p
          BY Zenon, <2>7, <4>2
        <5>2. /\ Frame(q, u)' = Frame(q, u) /\ Frame(q, u) \notin ufree /\ Frame(q, u) \notin spare
              /\ Frame(q, u) # NONE
          BY Zenon, <2>1, <2>8, <4>2, <5>1 DEF FramesApart
        <5>3. ASSUME NEW v \in UPages PROVE Frame(p, v) # Frame(q, u)
          <6>1. OneFrame(q, p, u, v)
            BY Zenon, <2>1 DEF FramesApart
          <6>2. QED BY Zenon, <5>1, <5>2, <6>1 DEF OneFrame
        <5>4. Frame(q, u) \notin F
          BY Zenon, <5>3
        <5>5. QED BY Zenon, <2>4, <5>2, <5>4
      <4>3. QED BY Zenon, <4>1, <4>2
    <3>2. ASSUME NEW q \in Proc, NEW r \in Proc, NEW u \in UPages, Frame(q, u)' # NONE
          PROVE  kpage'[r] # Frame(q, u)'
      <4>1. q # p
        BY Zenon, <2>7, <3>2
      <4>2. /\ Frame(q, u)' = Frame(q, u) /\ kpage'[r] = kpage[r]
            /\ Frame(q, u) # NONE => kpage[r] # Frame(q, u)
        BY Zenon, <2>1, <2>8, <4>1 DEF FramesApart
      <4>3. QED BY Zenon, <3>2, <4>2
    <3>3. ASSUME NEW q \in Proc, NEW r \in Proc, NEW u \in UPages, NEW v \in UPages
          PROVE  OneFrame(q, r, u, v)'
      <4>1. CASE q = p
        <5>1. Frame(q, u)' = NONE
          BY Zenon, <2>7, <4>1
        <5>2. QED BY Zenon, <5>1 DEF OneFrame
      <4>2. CASE r = p
        <5>1. Frame(r, v)' = NONE
          BY Zenon, <2>7, <4>2
        <5>2. QED BY Zenon, <5>1 DEF OneFrame
      <4>3. CASE q # p /\ r # p
        <5>1. OneFrame(q, r, u, v) /\ Frame(q, u)' = Frame(q, u) /\ Frame(r, v)' = Frame(r, v)
          BY Zenon, <2>1, <2>8, <4>3 DEF FramesApart
        <5>2. QED BY Zenon, <5>1 DEF OneFrame
      <4>4. QED BY Zenon, <4>1, <4>2, <4>3
    <3>4. QED BY Zenon, <3>1, <3>2, <3>3 DEF FramesApart
  <2>10. ASSUME NEW f \in Frames
         PROVE  \/ f \in ufree' \/ f \in spare' \/ \E q \in Proc : kpage'[q] = f
                \/ \E q \in Proc, u \in UPages : Frame(q, u)' = f
    <3>1. f # NONE
      BY Zenon, NoPage
    <3>2. CASE f \in ufree \/ f \in spare \/ \E q \in Proc : kpage[q] = f
      BY Zenon, <2>4, <3>2
    <3>3. ASSUME NEW q \in Proc, NEW u \in UPages, Frame(q, u) = f
          PROVE  f \in ufree' \/ \E r \in Proc, v \in UPages : Frame(r, v)' = f
      <4>1. CASE q = p
        BY Zenon, <2>4, <3>1, <3>3, <4>1
      <4>2. CASE q # p
        BY Zenon, <2>8, <3>3, <4>2
      <4>3. QED BY Zenon, <4>1, <4>2
    <3>4. QED BY Zenon, <2>1, <3>2, <3>3 DEF UserKept
  <2>11. QED BY Zenon, <2>3, <2>6, <2>9, <2>10 DEF UserKept
\* The step.
<1>Whole.
  ASSUME NEW p \in Proc, pagedir_destroy(p)
  PROVE  SpaceInv'
  <2> USE <1>Whole
  <2>1. /\ cur = p /\ pc[p] = "destroy" /\ Goes(p, "new") /\ todo' = [todo EXCEPT ![p] = <<>>]
        /\ UNCHANGED <<pagedir, kpage, spare, cur, cr3, tlb>>
    BY Zenon DEF pagedir_destroy, Steps
  <2>2. SpaceTyped /\ (\A q \in Proc : Stage(q)) /\ Active /\ "new" \in Place
    BY Zenon, SpaceFacts DEF Place
  <2>3. pagedir[p] = NONE /\ kpage[p] = NONE /\ cr3 = NONE
    BY Zenon, <2>1, <2>2 DEF Stage, Active
  <2>4. /\ pc' \in [Proc -> Place] /\ pc'[p] = "new"
        /\ \A q \in Proc : q # p => pc'[q] = pc[q]
    BY Zenon, <2>1, <2>2, GoesTo
  <2>5. /\ todo' \in [Proc -> Seq([page : UPages, writable : BOOLEAN])]
        /\ \A q \in Proc : q # p => todo'[q] = todo[q]
    <3>1. <<>> \in Seq([page : UPages, writable : BOOLEAN])
      BY SMT
    <3>2. QED BY Zenon, <2>1, <2>2, <3>1 DEF SpaceTyped
  <2>6. tlb' = {} /\ TlbCoherent'
    BY Zenon, <2>1, <2>3, TlbInit, TlbEmpty
  <2>7. /\ old_pd' \in [Proc -> KPages \cup {NONE}] /\ old_pd'[p] = NONE
        /\ \A q \in Proc : q # p => old_pd'[q] = old_pd[q]
    <3>1. CASE old_pd[p] = NONE
      BY Zenon, <2>2, <3>1 DEF pagedir_destroy, SpaceTyped
    <3>2. CASE old_pd[p] # NONE
      <4>1. old_pd' = [old_pd EXCEPT ![p] = NONE]
        BY Zenon, <3>2 DEF pagedir_destroy
      <4>2. QED BY Zenon, <2>2, <4>1 DEF SpaceTyped
    <3>3. QED BY Zenon, <3>1, <3>2
  <2>8. /\ DirsApart' /\ TablesApart' /\ KernelKept' /\ LoadsApart' /\ FramesApart' /\ UserKept'
        /\ kfree' \subseteq KPages /\ ufree' \subseteq Frames
        /\ pde' \in [KPages -> [Pds -> KPages \cup {NONE}]] /\ pte' \in [KPages -> [UPages -> Entry]]
    <3>1. CASE old_pd[p] = NONE
      <4>1. UNCHANGED <<kfree, ufree, old_pd, pde, pte>>
        BY Zenon, <3>1 DEF pagedir_destroy
      <4>2. UNCHANGED <<kfree, ufree, spare, kpage, pagedir, old_pd, pde, pte>>
        BY Zenon, <2>1, <4>1
      <4>3. DirsApart' /\ TablesApart' /\ KernelKept' /\ LoadsApart' /\ FramesApart' /\ UserKept'
        BY Zenon, <4>2, PagesStay
      <4>4. QED BY Zenon, <2>2, <4>1, <4>3 DEF SpaceTyped
    <3>2. CASE old_pd[p] # NONE
      <4> DEFINE T == Tables(old_pd[p])
                 F == FramesOf(old_pd[p])
      <4>1. /\ ufree' = ufree \cup F /\ kfree' = kfree \cup T \cup {old_pd[p]}
            /\ pde' = [pde EXCEPT ![old_pd[p]] = NoPdes]
            /\ pte' = [k \in KPages |-> IF k \in Tables(old_pd[p]) THEN NoPtes ELSE pte[k]]
            /\ old_pd' = [old_pd EXCEPT ![p] = NONE]
        BY Zenon, <3>2 DEF pagedir_destroy
      <4>2. /\ Dir(p) = old_pd[p]
            /\ \A k : k \in T <=> k # NONE /\ \E i \in Pds : Table(p, i) = k
            /\ \A f : f \in F <=> f # NONE /\ \E u \in UPages : Frame(p, u) = f
        BY Zenon, <2>2, <2>3, <3>2, <1>Destroyed
      <4>3. /\ Gone(p) /\ pde' \in [KPages -> [Pds -> KPages \cup {NONE}]]
            /\ pte' \in [KPages -> [UPages -> Entry]]
        BY Zenon, <2>1, <2>3, <3>2, <4>1, <1>TablesGone
      <4> HIDE DEF T, F
      <4>4. kfree' = kfree \cup T \cup {Dir(p)} /\ Dir(p) # NONE
        BY Zenon, <3>2, <4>1, <4>2
      <4>5. DirsApart' /\ TablesApart' /\ KernelKept' /\ kfree' \subseteq KPages
        BY Zenon, <4>2, <4>3, <4>4, <1>KernelGone
      <4>6. UNCHANGED <<kpage, spare>>
        BY Zenon, <2>1
      <4>7. LoadsApart' /\ FramesApart' /\ UserKept' /\ ufree' \subseteq Frames
        BY Zenon, <4>1, <4>2, <4>3, <4>6, <1>UserGone
      <4>8. QED BY Zenon, <4>3, <4>5, <4>7
    <3>3. QED BY Zenon, <3>1, <3>2
  <2>9. SpaceTyped'
    BY Zenon, <2>1, <2>2, <2>4, <2>5, <2>6, <2>7, <2>8 DEF SpaceTyped
  <2>10. ASSUME NEW q \in Proc PROVE Stage(q)'
    <3>1. CASE q = p
      <4>1. pc'[p] = "new" /\ pagedir'[p] = NONE /\ old_pd'[p] = NONE /\ kpage'[p] = NONE
        BY Zenon, <2>1, <2>3, <2>4, <2>7
      <4>2. Stage(p)'
        BY Zenon, <4>1 DEF Stage
      <4>3. QED BY Zenon, <3>1, <4>2
    <3>2. CASE q # p
      BY Zenon, <2>1, <2>2, <2>4, <2>5, <2>7, <3>2, StageStays
    <3>3. QED BY Zenon, <3>1, <3>2
  <2>11. Active'
    <3>1. cr3' = NONE /\ pc'[cur'] = "new"
      BY Zenon, <2>1, <2>3, <2>4
    <3>2. QED BY Zenon, <3>1 DEF Active
  <2>12. QED BY Zenon, <2>6, <2>8, <2>9, <2>10, <2>11 DEF SpaceInv
<1> QED BY Zenon, <1>Whole
-----------------------------------------------------------------------------
\* Nothing is mapped at first.
LEMMA SpaceStarts ==
  ASSUME SpaceConstants, Init
  PROVE  SpaceInv
<1>1. /\ kfree = KPages /\ ufree = Frames /\ spare = {}
      /\ pagedir = [p \in Proc |-> NONE] /\ old_pd = [p \in Proc |-> NONE]
      /\ pde = [k \in KPages |-> NoPdes] /\ pte = [k \in KPages |-> NoPtes]
      /\ pc = [p \in Proc |-> "new"] /\ todo = [p \in Proc |-> <<>>] /\ kpage = [p \in Proc |-> NONE]
      /\ cr3 = NONE /\ tlb = {} /\ cur = CHOOSE p \in Proc : TRUE
  BY Zenon, NoPage DEF Init
<1>2. cur \in Proc
  BY Zenon, <1>1 DEF SpaceConstants
<1>3. ASSUME NEW p \in Proc PROVE /\ pagedir[p] = NONE /\ old_pd[p] = NONE /\ pc[p] = "new"
                                  /\ kpage[p] = NONE /\ Dir(p) = NONE
  <2>1. pagedir[p] = NONE /\ old_pd[p] = NONE /\ pc[p] = "new" /\ kpage[p] = NONE
    BY Zenon, <1>1
  <2>2. QED BY Zenon, <2>1 DEF Dir
<1>4. ASSUME NEW p \in Proc PROVE (\A i : Table(p, i) = NONE) /\ (\A u : Frame(p, u) = NONE)
  BY Zenon, <1>3, NothingMapped
<1>5. SpaceTyped
  <2>1. <<>> \in Seq([page : UPages, writable : BOOLEAN])
    BY SMT
  <2>2. /\ NoPdes \in [Pds -> KPages \cup {NONE}] /\ NoPtes \in [UPages -> Entry] /\ "new" \in Place
    BY Zenon, NoEntry DEF NoPdes, NoPtes, Place
  <2>3. kfree \subseteq KPages /\ ufree \subseteq Frames /\ spare \subseteq Frames
    BY Zenon, <1>1
  <2>4. /\ pagedir \in [Proc -> KPages \cup {NONE}] /\ old_pd \in [Proc -> KPages \cup {NONE}]
        /\ kpage \in [Proc -> Frames \cup {NONE}] /\ pc \in [Proc -> Place]
    BY Zenon, <1>1, <2>2
  <2>5. pde \in [KPages -> [Pds -> KPages \cup {NONE}]] /\ pte \in [KPages -> [UPages -> Entry]]
    BY Zenon, <1>1, <2>2
  <2>6. todo \in [Proc -> Seq([page : UPages, writable : BOOLEAN])]
    BY Zenon, <1>1, <2>1
  <2>7. cr3 \in KPages \cup {NONE} /\ (\A e \in tlb : e.page \in UPages)
    BY Zenon, <1>1
  <2>8. QED BY Zenon, <1>2, <2>3, <2>4, <2>5, <2>6, <2>7 DEF SpaceTyped
<1>6. \A p \in Proc : Stage(p)
  BY Zenon, <1>3 DEF Stage
<1>7. DirsApart /\ TablesApart /\ KernelKept
  <2>1. NONE \notin kfree
    BY Zenon, <1>1, NoPage
  <2>2. DirsApart
    BY Zenon, <1>3, <2>1 DEF DirsApart
  <2>3. TablesApart
    BY Zenon, <1>4, <2>1 DEF TablesApart, OneTable
  <2>4. QED BY Zenon, <1>1, <2>2, <2>3 DEF KernelKept
<1>8. LoadsApart /\ FramesApart /\ UserKept
  <2>1. NONE \notin ufree /\ spare = {}
    BY Zenon, <1>1, NoPage
  <2>2. LoadsApart
    BY Zenon, <1>3, <2>1 DEF LoadsApart
  <2>3. FramesApart
    BY Zenon, <1>4, <2>1 DEF FramesApart, OneFrame
  <2>4. QED BY Zenon, <1>1, <2>2, <2>3 DEF UserKept
<1>9. Active
  BY Zenon, <1>1, <1>2, <1>3 DEF Active
<1>10. TlbCoherent
  BY Zenon, <1>1 DEF TlbCoherent
<1>11. QED BY Zenon, <1>5, <1>6, <1>7, <1>8, <1>9, <1>10 DEF SpaceInv

\* Every step keeps the invariant.
LEMMA SpaceNext ==
  ASSUME SpaceConstants, SpaceInv, Firsts, [Next]_vars
  PROVE  SpaceInv'
<1>1. ASSUME NEW u \in Touched PROVE u \in UPages
  BY Zenon DEF SpaceConstants
<1>2. CASE UNCHANGED vars
  BY Zenon, <1>2, SpaceStutter
<1>3. ASSUME NEW f \in spare, SpareFreed(f) PROVE SpaceInv'
  BY Zenon, <1>3, SpareStep
<1>4. ASSUME NEW p \in Proc,
             \/ pagedir_create(p) \/ process_activate(p) \/ GetFrame(p)
             \/ (\E ok \in BOOLEAN : ReadPage(p, ok)) \/ install_page(p) \/ InstallFails(p)
             \/ Exits(p) \/ ForgetPd(p) \/ LeavePd(p) \/ pagedir_destroy(p) \/ Switch(p)
      PROVE  SpaceInv'
  BY Zenon, <1>4, CreateStep, ActivateStep, LoadSteps, InstallStep, ExitsStep, ForgetStep, LeaveStep,
     DestroyStep, SwitchStep
<1>5. ASSUME NEW p \in Proc, NEW u \in Touched,
             \/ (\E write \in BOOLEAN : Access(p, u, write)) \/ pagedir_clear_page(p, u)
             \/ \E value \in BOOLEAN : pagedir_set_dirty(p, u, value) \/ pagedir_set_accessed(p, u, value)
      PROVE  SpaceInv'
  BY Zenon, <1>1, <1>5, PageSteps
<1>6. QED BY Zenon, <1>2, <1>3, <1>4, <1>5 DEF Next
-----------------------------------------------------------------------------
\* The page directories are those the processes have or are destroying.
LEMMA DirectoriesAre ==
  ASSUME SpaceInv, NEW d
  PROVE  d \in Directories <=> d # NONE /\ \E p \in Proc : Dir(p) = d
<1>1. \A p \in Proc : pagedir[p] # NONE => old_pd[p] = NONE
  BY Zenon, SpaceFacts DEF Stage
<1>2. d \in Directories <=> d # NONE /\ ((\E p \in Proc : pagedir[p] = d) \/ \E p \in Proc : old_pd[p] = d)
  BY Zenon DEF Directories
<1>3. ASSUME NEW p \in Proc PROVE d # NONE => (Dir(p) = d <=> pagedir[p] = d \/ old_pd[p] = d)
  <2>1. CASE pagedir[p] = NONE
    BY Zenon, <2>1 DEF Dir
  <2>2. CASE pagedir[p] # NONE
    BY Zenon, <1>1, <2>2 DEF Dir
  <2>3. QED BY Zenon, <2>1, <2>2
<1>4. QED BY Zenon, <1>2, <1>3

\* What the entries of a page directory in use map.
LEMMA DirMaps ==
  ASSUME SpaceConstants, SpaceTyped, NEW p \in Proc, Dir(p) # NONE
  PROVE  /\ \A i \in Pds : Table(p, i) = pde[Dir(p)][i]
         /\ \A u \in UPages : /\ Mapped(Dir(p), u) <=> Frame(p, u) # NONE
                              /\ Mapped(Dir(p), u) => Pte(Dir(p), u).frame = Frame(p, u)
<1> DEFINE d == Dir(p)
<1>1. \A i \in Pds : Table(p, i) = pde[d][i]
  BY Zenon DEF Table
<1> HIDE DEF d
<1>2. ASSUME NEW u \in UPages
      PROVE  /\ Mapped(d, u) <=> Frame(p, u) # NONE
             /\ Mapped(d, u) => Pte(d, u).frame = Frame(p, u)
  <2>1. PdOf[u] \in Pds /\ (Table(p, PdOf[u]) # NONE => EntryAt(p, u) \in Entry)
    BY Zenon, PageKinds
  <2>2. HasPt(d, u) <=> Table(p, PdOf[u]) # NONE
    BY Zenon, <1>1, <2>1 DEF HasPt
  <2>3. Pte(d, u) = EntryAt(p, u)
    BY Zenon, <1>1, <2>1 DEF Pte, EntryAt
  <2>4. Table(p, PdOf[u]) # NONE /\ EntryAt(p, u).present => EntryAt(p, u).frame # NONE
    BY Zenon, <2>1, EntryFields, NoPage
  <2>5. QED BY Zenon, <2>2, <2>3, <2>4 DEF Mapped, Frame
<1>3. QED BY Zenon, <1>1, <1>2 DEF d

\* Where a frame is mapped, and where a page is a page table.
MapsOf(f) == {x \in Directories \X UPages : Mapped(x[1], x[2]) /\ Pte(x[1], x[2]).frame = f}
TablesAt(k) == {x \in Directories \X Pds : pde[x[1]][x[2]] = k}
LoadsOf(f) == {p \in Proc : kpage[p] = f}

\* The mappings of a frame by the processes that have them.
LEMMA MapsAre ==
  ASSUME SpaceConstants, SpaceInv, NEW f \in Frames, NEW x
  PROVE  x \in MapsOf(f) <=> \E p \in Proc, u \in UPages : x = <<Dir(p), u>> /\ Frame(p, u) = f
<1>1. SpaceTyped /\ f # NONE
  BY Zenon, SpaceFacts, NoPage
<1>2. ASSUME x \in MapsOf(f)
      PROVE  \E p \in Proc, u \in UPages : x = <<Dir(p), u>> /\ Frame(p, u) = f
  <2>1. x \in Directories \X UPages /\ Mapped(x[1], x[2]) /\ Pte(x[1], x[2]).frame = f
    BY Zenon, <1>2 DEF MapsOf
  <2>2. PICK d \in Directories, u \in UPages : x = <<d, u>>
    BY SMT, <2>1
  <2>3. x[1] = d /\ x[2] = u
    BY <2>2
  <2>4. PICK p \in Proc : Dir(p) = d /\ d # NONE
    BY Zenon, DirectoriesAre
  <2>5. Mapped(Dir(p), u) /\ Pte(Dir(p), u).frame = f
    BY Zenon, <2>1, <2>3, <2>4
  <2>6. Frame(p, u) = f
    BY Zenon, <1>1, <2>4, <2>5, DirMaps
  <2>7. QED BY Zenon, <2>2, <2>4, <2>6
<1>3. ASSUME NEW p \in Proc, NEW u \in UPages, x = <<Dir(p), u>>, Frame(p, u) = f
      PROVE  x \in MapsOf(f)
  <2>1. Dir(p) # NONE
    BY Zenon, <1>1, <1>3, NothingMapped
  <2>2. Dir(p) \in Directories /\ Mapped(Dir(p), u) /\ Pte(Dir(p), u).frame = f
    BY Zenon, <1>1, <1>3, <2>1, DirMaps, DirectoriesAre
  <2>3. x \in Directories \X UPages /\ x[1] = Dir(p) /\ x[2] = u
    BY <1>3, <2>2
  <2>4. QED BY Zenon, <2>2, <2>3 DEF MapsOf
<1>4. QED BY Zenon, <1>2, <1>3

\* The same for the page tables.
LEMMA TablesAre ==
  ASSUME SpaceConstants, SpaceInv, NEW k \in KPages, NEW x
  PROVE  x \in TablesAt(k) <=> \E p \in Proc, i \in Pds : x = <<Dir(p), i>> /\ Table(p, i) = k
<1>1. SpaceTyped /\ k # NONE
  BY Zenon, SpaceFacts, NoPage
<1>2. ASSUME x \in TablesAt(k)
      PROVE  \E p \in Proc, i \in Pds : x = <<Dir(p), i>> /\ Table(p, i) = k
  <2>1. x \in Directories \X Pds /\ pde[x[1]][x[2]] = k
    BY Zenon, <1>2 DEF TablesAt
  <2>2. PICK d \in Directories, i \in Pds : x = <<d, i>>
    BY SMT, <2>1
  <2>3. x[1] = d /\ x[2] = i
    BY <2>2
  <2>4. PICK p \in Proc : Dir(p) = d /\ d # NONE
    BY Zenon, DirectoriesAre
  <2>5. pde[Dir(p)][i] = k
    BY Zenon, <2>1, <2>3, <2>4
  <2>6. Table(p, i) = k
    BY Zenon, <1>1, <2>4, <2>5, DirMaps
  <2>7. QED BY Zenon, <2>2, <2>4, <2>6
<1>3. ASSUME NEW p \in Proc, NEW i \in Pds, x = <<Dir(p), i>>, Table(p, i) = k
      PROVE  x \in TablesAt(k)
  <2>1. Dir(p) # NONE
    BY Zenon, <1>1, <1>3, NothingMapped
  <2>2. Dir(p) \in Directories /\ pde[Dir(p)][i] = k
    BY Zenon, <1>1, <1>3, <2>1, DirMaps, DirectoriesAre
  <2>3. x \in Directories \X Pds /\ x[1] = Dir(p) /\ x[2] = i
    BY <1>3, <2>2
  <2>4. QED BY Zenon, <2>2, <2>3 DEF TablesAt
<1>4. QED BY Zenon, <1>2, <1>3

\* Where a frame is: one of four places.
LEMMA FrameOnce ==
  ASSUME SpaceConstants, SpaceInv, NEW f \in Frames
  PROVE  \/ MapsOf(f) = {} /\ LoadsOf(f) = {} /\ f \notin spare /\ f \in ufree
         \/ MapsOf(f) = {} /\ LoadsOf(f) = {} /\ f \in spare /\ f \notin ufree
         \/ MapsOf(f) = {} /\ (\E p : LoadsOf(f) = {p}) /\ f \notin spare /\ f \notin ufree
         \/ (\E x : MapsOf(f) = {x}) /\ LoadsOf(f) = {} /\ f \notin spare /\ f \notin ufree
<1>1. LoadsApart /\ FramesApart /\ UserKept /\ f # NONE
  BY Zenon, SpaceFacts, NoPage
<1>2. ASSUME NEW x PROVE x \in LoadsOf(f) <=> x \in Proc /\ kpage[x] = f
  BY Zenon DEF LoadsOf
<1>3. ASSUME NEW x
      PROVE  x \in MapsOf(f) <=> \E p \in Proc, u \in UPages : x = <<Dir(p), u>> /\ Frame(p, u) = f
  BY Zenon, MapsAre
<1>4. ASSUME f \in ufree \/ f \in spare
      PROVE  MapsOf(f) = {} /\ LoadsOf(f) = {} /\ ~ (f \in ufree /\ f \in spare)
  <2>1. ~ (f \in ufree /\ f \in spare)
    BY SMT, <1>1 DEF LoadsApart
  <2>2. ASSUME NEW p \in Proc PROVE kpage[p] # f
    BY Zenon, <1>1, <1>4 DEF LoadsApart
  <2>3. ASSUME NEW p \in Proc, NEW u \in UPages PROVE Frame(p, u) # f
    BY Zenon, <1>1, <1>4 DEF FramesApart
  <2>4. LoadsOf(f) = {}
    BY Zenon, <1>2, <2>2
  <2>5. MapsOf(f) = {}
    BY Zenon, <1>3, <2>3
  <2>6. QED BY Zenon, <2>1, <2>4, <2>5
<1>5. ASSUME NEW p \in Proc, kpage[p] = f
      PROVE  MapsOf(f) = {} /\ LoadsOf(f) = {p} /\ f \notin spare /\ f \notin ufree
  <2>1. f \notin spare /\ f \notin ufree /\ \A q \in Proc : kpage[q] = f => q = p
    BY Zenon, <1>1, <1>5 DEF LoadsApart
  <2>2. ASSUME NEW q \in Proc, NEW u \in UPages PROVE Frame(q, u) # f
    BY Zenon, <1>1, <1>5 DEF FramesApart
  <2>3. MapsOf(f) = {}
    BY Zenon, <1>3, <2>2
  <2>4. LoadsOf(f) = {p}
    BY Zenon, <1>2, <1>5, <2>1
  <2>5. QED BY Zenon, <2>1, <2>3, <2>4
<1>6. ASSUME NEW p \in Proc, NEW u \in UPages, Frame(p, u) = f
      PROVE  MapsOf(f) = {<<Dir(p), u>>} /\ LoadsOf(f) = {} /\ f \notin spare /\ f \notin ufree
  <2>1. f \notin spare /\ f \notin ufree
    BY Zenon, <1>1, <1>6 DEF FramesApart
  <2>2. ASSUME NEW q \in Proc PROVE kpage[q] # f
    BY Zenon, <1>1, <1>6 DEF FramesApart
  <2>3. ASSUME NEW q \in Proc, NEW v \in UPages, Frame(q, v) = f PROVE q = p /\ v = u
    <3>1. OneFrame(q, p, v, u)
      BY Zenon, <1>1 DEF FramesApart
    <3>2. QED BY Zenon, <1>1, <1>6, <2>3, <3>1 DEF OneFrame
  <2>4. LoadsOf(f) = {}
    BY Zenon, <1>2, <2>2
  <2>5. ASSUME NEW x PROVE x \in MapsOf(f) <=> x = <<Dir(p), u>>
    BY Zenon, <1>3, <1>6, <2>3
  <2>6. MapsOf(f) = {<<Dir(p), u>>}
    BY Zenon, <2>5
  <2>7. QED BY Zenon, <2>1, <2>4, <2>6
<1>7. QED BY Zenon, <1>1, <1>4, <1>5, <1>6 DEF UserKept

\* Where a page of the kernel pool is: one of three places.
LEMMA TableOnce ==
  ASSUME SpaceConstants, SpaceInv, NEW k \in KPages
  PROVE  \/ TablesAt(k) = {} /\ k \notin Directories /\ k \in kfree
         \/ TablesAt(k) = {} /\ k \in Directories /\ k \notin kfree
         \/ (\E x : TablesAt(k) = {x}) /\ k \notin Directories /\ k \notin kfree
<1>1. DirsApart /\ TablesApart /\ KernelKept /\ k # NONE
  BY Zenon, SpaceFacts, NoPage
<1>2. ASSUME NEW x
      PROVE  x \in TablesAt(k) <=> \E p \in Proc, i \in Pds : x = <<Dir(p), i>> /\ Table(p, i) = k
  BY Zenon, TablesAre
<1>3. k \in Directories <=> \E p \in Proc : Dir(p) = k
  BY Zenon, <1>1, DirectoriesAre
<1>4. ASSUME k \in kfree PROVE TablesAt(k) = {} /\ k \notin Directories
  <2>1. \A p \in Proc : Dir(p) # k
    BY Zenon, <1>1, <1>4 DEF DirsApart
  <2>2. \A p \in Proc, i \in Pds : Table(p, i) # k
    BY Zenon, <1>1, <1>4 DEF TablesApart
  <2>3. QED BY Zenon, <1>2, <1>3, <2>1, <2>2
<1>5. ASSUME NEW p \in Proc, Dir(p) = k PROVE TablesAt(k) = {} /\ k \in Directories /\ k \notin kfree
  <2>1. k \notin kfree
    BY Zenon, <1>1, <1>5 DEF DirsApart
  <2>2. ASSUME NEW q \in Proc, NEW i \in Pds PROVE Table(q, i) # k
    BY Zenon, <1>1, <1>5 DEF TablesApart
  <2>3. QED BY Zenon, <1>2, <1>3, <1>5, <2>1, <2>2
<1>6. ASSUME NEW p \in Proc, NEW i \in Pds, Table(p, i) = k
      PROVE  TablesAt(k) = {<<Dir(p), i>>} /\ k \notin Directories /\ k \notin kfree
  <2>1. k \notin kfree
    BY Zenon, <1>1, <1>6 DEF TablesApart
  <2>2. ASSUME NEW q \in Proc PROVE Dir(q) # k
    BY Zenon, <1>1, <1>6 DEF TablesApart
  <2>3. ASSUME NEW q \in Proc, NEW j \in Pds, Table(q, j) = k PROVE q = p /\ j = i
    <3>1. OneTable(q, p, j, i)
      BY Zenon, <1>1 DEF TablesApart
    <3>2. QED BY Zenon, <1>1, <1>6, <2>3, <3>1 DEF OneTable
  <2>4. ASSUME NEW x PROVE x \in TablesAt(k) <=> x = <<Dir(p), i>>
    BY Zenon, <1>2, <1>6, <2>3
  <2>5. TablesAt(k) = {<<Dir(p), i>>}
    BY Zenon, <2>4
  <2>6. QED BY Zenon, <1>3, <2>1, <2>2, <2>5
<1>7. QED BY Zenon, <1>1, <1>4, <1>5, <1>6 DEF KernelKept
-----------------------------------------------------------------------------
\* The library's facts about well-founded orders.
Order == INSTANCE WellFoundedInduction

\* What palloc takes, the first page there is, is one of them.
LEMMA MinIn == Firsts
<1> SUFFICES ASSUME NEW S, S \subseteq Nat, S # {} PROVE Min(S) \in S
  BY Zenon DEF Firsts
<1> DEFINE R == {x \in Nat \X Nat : x[1] < x[2]}
<1>1. Order!IsWellFoundedOn(R, Nat)
  BY Zenon, Order!NatLessThanWellFounded DEF Order!OpToRel
<1>2. PICK x \in S : \A y \in S : ~ (<<y, x>> \in R)
  BY Zenon, <1>1, Order!WFMin
<1>3. ASSUME NEW y \in S PROVE x <= y
  <2>1. x \in Nat /\ y \in Nat /\ ~ (<<y, x>> \in R)
    BY Zenon, <1>2
  <2>2. <<y, x>> \in Nat \X Nat /\ <<y, x>>[1] = y /\ <<y, x>>[2] = x
    BY <2>1
  <2>3. ~ (y < x)
    BY Zenon, <2>1, <2>2
  <2>4. QED BY <2>1, <2>3
<1>4. QED BY Zenon, <1>3 DEF Min

\* The invariant holds.
LEMMA SpaceInvariance ==
  ASSUME SpaceConstants
  PROVE  Spec => []SpaceInv
<1>1. Init => SpaceInv
  BY Zenon, SpaceStarts
<1>2. SpaceInv /\ [Next]_vars => SpaceInv'
  BY Zenon, SpaceNext, MinIn
<1>3. QED BY <1>1, <1>2, PTL DEF Spec
-----------------------------------------------------------------------------

\* Free pages are of their pools, and the processor has a page directory.
THEOREM SpacesTyped ==
  ASSUME SpaceConstants
  PROVE  Spec => []TypeOK
<1>1. SpaceInv => TypeOK
  BY Zenon, NoPage DEF SpaceInv, SpaceTyped, TypeOK, Place
<1>2. QED BY <1>1, SpaceInvariance, PTL

\* The TLB has nothing the page table does not have, whatever pagedir.c changes in
\* it and wherever threads are switched.
THEOREM TlbFollowsTables ==
  ASSUME SpaceConstants
  PROVE  Spec => []TlbCoherent
<1>1. SpaceInv => TlbCoherent
  BY Zenon DEF SpaceInv
<1>2. QED BY <1>1, SpaceInvariance, PTL

\* The processor never has a page directory that was freed, wherever a thread is
\* switched from during process_exit ("Correct ordering here is crucial").
THEOREM NeverFreedInUse ==
  ASSUME SpaceConstants
  PROVE  Spec => []ActiveNotFreed
<1>1. ASSUME SpaceInv, cr3 # INIT PROVE cr3 \in Directories \ kfree
  <2>1. INIT = NONE /\ SpaceTyped /\ Active /\ DirsApart
    BY Zenon, <1>1, NoPage, SpaceFacts
  <2>2. cr3 = Dir(cur) /\ cr3 # NONE /\ cur \in Proc
    BY Zenon, <1>1, <2>1 DEF Active, SpaceTyped
  <2>3. cr3 \notin kfree
    BY Zenon, <2>1, <2>2 DEF DirsApart
  <2>4. cr3 \in Directories
    BY Zenon, <1>1, <2>2, DirectoriesAre
  <2>5. QED BY Zenon, <2>3, <2>4
<1>2. SpaceInv => ActiveNotFreed
  BY Zenon, <1>1 DEF ActiveNotFreed
<1>3. QED BY <1>2, SpaceInvariance, PTL

\* A process in user mode has its own page directory, its whole program loaded, and
\* only its own frames in the TLB.
THEOREM UserOwnsPages ==
  ASSUME SpaceConstants
  PROVE  Spec => []UserSeesOwn
<1>1. ASSUME SpaceInv, pc[cur] = "user"
      PROVE  /\ cr3 = pagedir[cur] /\ todo[cur] = <<>> /\ \A e \in tlb : e.frame \in FramesOf(cr3)
  <2>1. SpaceTyped /\ (\A p \in Proc : Stage(p)) /\ Active /\ TlbCoherent
    BY Zenon, <1>1, SpaceFacts
  <2>2. cr3 = pagedir[cur] /\ todo[cur] = <<>>
    BY Zenon, <1>1, <2>1 DEF Active, Stage, SpaceTyped
  <2>3. ASSUME NEW e \in tlb PROVE e.frame \in FramesOf(cr3)
    <3>1. e.page \in UPages /\ Mapped(cr3, e.page) /\ Pte(cr3, e.page).frame = e.frame
      BY Zenon, <2>1 DEF TlbCoherent, SpaceTyped
    <3>2. QED BY Zenon, <3>1 DEF FramesOf
  <2>4. QED BY Zenon, <2>2, <2>3
<1>2. SpaceInv => UserSeesOwn
  BY Zenon, <1>1 DEF UserSeesOwn
<1>3. QED BY <1>2, SpaceInvariance, PTL
-----------------------------------------------------------------------------
\* The library's facts about finite sets.
Finite == INSTANCE FiniteSetTheorems

\* None and one, counted.
LEMMA NoneOrOne == Cardinality({}) = 0 /\ \A x : Cardinality({x}) = 1
<1>1. \A S : Finite!Cardinality(S) = Cardinality(S)
  BY Zenon DEF Finite!Cardinality, Cardinality, Finite!IsFiniteSet, IsFiniteSet
<1>2. Finite!Cardinality({}) = 0
  BY Zenon, Finite!FS_EmptySet
<1>3. \A x : Finite!Cardinality({x}) = 1
  BY Zenon, Finite!FS_Singleton
<1>4. QED BY Zenon, <1>1, <1>2, <1>3

\* Every frame and every page of the kernel pool is in one place: through failures
\* of each step of load and through exits, none is shared, lost or freed twice.
THEOREM PagesKeptOnce ==
  ASSUME SpaceConstants
  PROVE  Spec => []PagesOnce
<1>1. ASSUME SpaceInv, NEW f \in Frames PROVE Uses(f) = 1
  <2>1. Uses(f) = Cardinality(MapsOf(f)) + Cardinality(LoadsOf(f))
                    + (IF f \in spare THEN 1 ELSE 0) + (IF f \in ufree THEN 1 ELSE 0)
    BY Zenon DEF Uses, MapsOf, LoadsOf
  <2>2. \/ Cardinality(MapsOf(f)) = 0 /\ Cardinality(LoadsOf(f)) = 0 /\ f \notin spare /\ f \in ufree
        \/ Cardinality(MapsOf(f)) = 0 /\ Cardinality(LoadsOf(f)) = 0 /\ f \in spare /\ f \notin ufree
        \/ Cardinality(MapsOf(f)) = 0 /\ Cardinality(LoadsOf(f)) = 1 /\ f \notin spare /\ f \notin ufree
        \/ Cardinality(MapsOf(f)) = 1 /\ Cardinality(LoadsOf(f)) = 0 /\ f \notin spare /\ f \notin ufree
    BY Zenon, <1>1, FrameOnce, NoneOrOne
  <2>3. QED BY SMT, <2>1, <2>2
<1>2. ASSUME SpaceInv, NEW k \in KPages PROVE TableUses(k) = 1
  <2>1. TableUses(k) = Cardinality(TablesAt(k))
                         + (IF k \in Directories THEN 1 ELSE 0) + (IF k \in kfree THEN 1 ELSE 0)
    BY Zenon DEF TableUses, TablesAt
  <2>2. \/ Cardinality(TablesAt(k)) = 0 /\ k \notin Directories /\ k \in kfree
        \/ Cardinality(TablesAt(k)) = 0 /\ k \in Directories /\ k \notin kfree
        \/ Cardinality(TablesAt(k)) = 1 /\ k \notin Directories /\ k \notin kfree
    BY Zenon, <1>2, TableOnce, NoneOrOne
  <2>3. QED BY SMT, <2>1, <2>2
<1>3. SpaceInv => PagesOnce
  BY Zenon, <1>1, <1>2 DEF PagesOnce
<1>4. QED BY <1>3, SpaceInvariance, PTL
=============================================================================
