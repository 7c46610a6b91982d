-------------------------------- MODULE PkVm --------------------------------
(***************************************************************************)
(* The proxy kernel's virtual memory: pk/mmap.c, with the open files its   *)
(* regions refer to (PkFiles).                                             *)
(*                                                                         *)
(* A region (vmr_t) is a mapping whose pages are not there yet.  Its page  *)
(* table entries hold its address; the first access to a page takes a      *)
(* physical page, and the region goes when no entry points at it any more. *)
(* The kernel promises at mmap time that those accesses find a free page.  *)
(*                                                                         *)
(* Addresses and sizes are in pages: every length is rounded up to pages   *)
(* and every address used to index the tables is aligned by the code.  The *)
(* kernel is one hart with interrupts off, so no system call sees another  *)
(* in progress; its loops over pages take one step per page.               *)
(***************************************************************************)
EXTENDS Integers, FiniteSets

CONSTANTS
  NPages,         \* current.mmap_max: pages of user address space
  FANOUT,         \* entries of a page table, 2^RISCV_PGLEVEL_BITS
  LEVELS,         \* RISCV_PGLEVELS
  FreePages,      \* __num_free_pages() before the program is loaded
  Slack,          \* the constant 16 of __do_mmap
  Vmr,            \* addresses of region structs
  VMRS_PER_PAGE,  \* region structs that fit a page
  Paging,         \* values of demand_paging in this instance
  ElfPages,       \* pages of the loaded program
  StackPages,     \* pages of its stack
  Prots,          \* rights the program asks for in this instance
  MapFds,         \* descriptors it maps, NULL for MAP_ANONYMOUS
  UsesFiles,      \* whether it also opens, closes and dups
  MAX_FDS, MAX_FILES

Page == 0 .. NPages - 1
Perm == {"R", "W", "X"}
NULL == -1

ASSUME GeometryAssumption ==
  /\ {NPages, FANOUT, LEVELS, FreePages, VMRS_PER_PAGE} \subseteq Nat \ {0}
  /\ Slack \in Nat
  /\ Prots \subseteq SUBSET Perm
  /\ MapFds \subseteq 0 .. MAX_FDS - 1 \cup {NULL}
  /\ Paging \subseteq BOOLEAN /\ UsesFiles \in BOOLEAN
  /\ ElfPages \subseteq Page
  /\ StackPages \subseteq Page
  /\ ElfPages \cap StackPages = {}
  /\ ElfPages # {} /\ StackPages # {}
ASSUME VmrAssumption == IsFiniteSet(Vmr) /\ NULL \notin Vmr
ASSUME TablesAssumption == {MAX_FDS, MAX_FILES} \subseteq Nat \ 0 .. 2

VARIABLES
  pte,             \* level-0 page table entry of each user page
  tables,          \* page tables below the root, by level and prefix
  free,            \* __num_free_pages()
  vmr,             \* the region structs
  vmrs,            \* those carved out of pages so far
  vmr_free,        \* those on the free list
  pages_promised,
  demand_paging,   \* FALSE with the -p flag
  brk, brk_max, vm_alloc_guess,  \* of current
  pc,              \* what the kernel is doing
  op,              \* the locals of the call in progress
  asked,           \* history: rights last asked for each mapped page
  fds, refcnt, kfd, host         \* the open files

memory == <<pte, tables, free, vmr, vmrs, vmr_free, pages_promised, asked>>
current == <<brk, brk_max, vm_alloc_guess, demand_paging>>
vmvars == <<memory, current, pc, op>>
filevars == <<fds, refcnt, kfd, host>>
vars == <<vmvars, filevars>>

\* References to file f by regions, and by the call in progress.
RegionRefs ==
  [f \in 0 .. MAX_FILES - 1 |->
     Cardinality({v \in vmrs \ vmr_free : vmr[v].file = f})
       + (IF op.file = f THEN 1 ELSE 0)]

Files == INSTANCE PkFiles
           WITH held <- RegionRefs, MaxHeld <- Cardinality(Vmr) + 1

-----------------------------------------------------------------------------
(* Page table entries *)

Zero == [tag |-> "zero"]
Promise(v) == [tag |-> "vmr", vmr |-> v]
Leaf(type) == [tag |-> "page", type |-> type]

\* prot_to_type: the R, W, X, A and D bits of a user page.
Type(prot) ==
  (IF prot = {} THEN {"R"} ELSE prot \cup {"A"})
    \cup (IF "W" \in prot THEN {"D"} ELSE {})

\* The tables __walk_create needs on the way to the entry of page p.
Tables(p) == {<<i, p \div FANOUT ^ i>> : i \in 1 .. LEVELS - 1}

\* Those the loaded program and its stack take.
ProgramTables == UNION {Tables(p) : p \in ElfPages \cup StackPages}

\* The program is loaded: there was memory for it, and for a page of regions.
ASSUME LoadedAssumption ==
  Cardinality(ProgramTables) + 1 + Cardinality(ElfPages \cup StackPages) <= FreePages

NoRegion == [file |-> NULL, refcnt |-> 0, prot |-> {}]
NoOp == [call |-> "none", first |-> 0, last |-> 0, at |-> 0, prot |-> {},
         file |-> NULL, fixed |-> FALSE, populate |-> FALSE, v |-> NULL]

\* The greatest member of a set of pages.
Highest(S) == CHOOSE p \in S : \A q \in S : q <= p

\* load_elf has mapped the program with one region and run_loaded_program
\* the stack with another; the heap begins after the program.
Init ==
  \E e, s \in Vmr, N \in SUBSET Vmr :
    /\ e # s /\ {e, s} \subseteq N /\ Cardinality(N) = VMRS_PER_PAGE
    /\ demand_paging \in Paging
    /\ pte = [p \in Page |->
                IF p \notin ElfPages \cup StackPages THEN Zero
                ELSE IF demand_paging
                     THEN Promise(IF p \in ElfPages THEN e ELSE s)
                     ELSE Leaf(Type(Perm))]
    /\ tables = ProgramTables
    /\ free = FreePages - Cardinality(tables) - 1
              - (IF demand_paging THEN 0
                 ELSE Cardinality(ElfPages \cup StackPages))
    /\ vmr = [v \in Vmr |->
                IF v \notin {e, s} \/ ~ demand_paging THEN NoRegion
                ELSE [file |-> NULL, prot |-> Perm,
                      refcnt |-> Cardinality(IF v = e THEN ElfPages
                                                      ELSE StackPages)]]
    /\ vmrs = N
    /\ vmr_free = IF demand_paging THEN N \ {e, s} ELSE N
    /\ pages_promised = IF demand_paging
                        THEN Cardinality(ElfPages \cup StackPages) ELSE 0
    /\ brk = Highest(ElfPages) + 1
    /\ brk_max = NPages
    /\ vm_alloc_guess = Highest(StackPages) + 1
    /\ pc = "user"
    /\ op = NoOp
    /\ asked = [p \in Page |-> IF pte[p] = Zero THEN {} ELSE Perm]
    /\ Files!Init

-----------------------------------------------------------------------------
(* Pieces of the kernel *)

\* Mutant: the promise of a region is redeemed with its last page.
DropPageLate(v) ==
  IF vmr[v].refcnt = 1
  THEN /\ pages_promised' = pages_promised - 1
       /\ vmr' = [vmr EXCEPT ![v] = NoRegion]
       /\ vmr_free' = vmr_free \cup {v}
       /\ IF vmr[v].file = NULL
          THEN UNCHANGED <<refcnt, host>>
          ELSE Files!Decref(vmr[v].file)
  ELSE /\ vmr' = [vmr EXCEPT ![v].refcnt = @ - 1]
       /\ UNCHANGED <<pages_promised, vmr_free, refcnt, host>>

\* __vmr_decref by one page of region v, and the free list and the file
\* reference when that was the last.
DropPage(v) ==
  /\ pages_promised' = pages_promised - 1
  /\ IF vmr[v].refcnt = 1
     THEN /\ vmr' = [vmr EXCEPT ![v] = NoRegion]
          /\ vmr_free' = vmr_free \cup {v}
          /\ IF vmr[v].file = NULL
             THEN UNCHANGED <<refcnt, host>>
             ELSE Files!Decref(vmr[v].file)
     ELSE /\ vmr' = [vmr EXCEPT ![v].refcnt = @ - 1]
          /\ UNCHANGED <<vmr_free, refcnt, host>>

\* Mutant: a mapped page is overwritten without being freed.
UnmapLeaks(p, avail) ==
  /\ free' = avail
  /\ IF pte[p].tag = "vmr"
     THEN DropPage(pte[p].vmr)
     ELSE UNCHANGED <<pages_promised, vmr, vmr_free, refcnt, host>>

\* __do_munmap of page p, when avail pages are free.
Unmap(p, avail) ==
  CASE pte[p].tag = "zero" ->
         /\ free' = avail
         /\ UNCHANGED <<pages_promised, vmr, vmr_free, refcnt, host>>
    [] pte[p].tag = "page" ->
         /\ free' = avail + 1
         /\ UNCHANGED <<pages_promised, vmr, vmr_free, refcnt, host>>
    [] pte[p].tag = "vmr" ->
         /\ free' = avail
         /\ DropPage(pte[p].vmr)

\* The first half of __handle_page_fault: page p, promised by a region, gets
\* a physical page, filled from the region's file.
FaultIn(p) ==
  /\ pte' = [pte EXCEPT ![p] = Leaf(Type(vmr[pte[p].vmr].prot))]
  /\ free' = free - 1
  /\ DropPage(pte[p].vmr)

\* The second half: does the entry allow an access that needs type?  A page
\* that can be written can be read.
Allows(entry, type) ==
  type \subseteq entry.type \cup (IF "W" \in entry.type THEN {"R"} ELSE {})

\* The kernel stops with a panic.
Panic(why) ==
  /\ pc' = why
  /\ UNCHANGED <<memory, current, op, filevars>>

-----------------------------------------------------------------------------
(* A program's access to page p that traps *)

\* handle_page_fault for an access of kind a.
Touch(p, a) ==
  /\ pc = "user"
  /\ pte[p].tag = "vmr"
  /\ IF free = 0
     THEN Panic("out of memory")
     ELSE /\ FaultIn(p)
          /\ pc' = IF Allows(Leaf(Type(vmr[pte[p].vmr].prot)), Type({a}))
                   THEN "user" ELSE "segfault"
          /\ UNCHANGED <<tables, vmrs, asked, current, op, fds, kfd>>

\* The file ends before the page: kassert(ret > 0).
TouchPastEnd(p) ==
  /\ pc = "user"
  /\ pte[p].tag = "vmr"
  /\ free > 0
  /\ vmr[pte[p].vmr].file # NULL
  /\ Panic("past end of file")

\* An access the page table does not allow ends the program.
Segfault(p, a) ==
  /\ pc = "user"
  /\ \/ pte[p].tag = "zero"
     \/ pte[p].tag = "page" /\ ~ Allows(pte[p], Type({a}))
  /\ Panic("segfault")

-----------------------------------------------------------------------------
(* mmap *)

Avail(p) == pte[p].tag = "zero"

\* Mutant: the highest start is one page too high.
FitsPast(a, n) ==
  a + n <= NPages + 1 /\ \A p \in (a .. a + n - 1) \cap Page : Avail(p)

Fits(a, n) == a + n <= NPages /\ \A p \in a .. a + n - 1 : Avail(p)

\* __vm_alloc_at: the lowest fit from start on.
FirstFit(start, n, a) ==
  /\ a >= start
  /\ Fits(a, n)
  /\ \A b \in start .. a - 1 : ~ Fits(b, n)

\* __vm_alloc tries from vm_alloc_guess, then from the heap.
AllocVm(n, a) ==
  IF \E b \in Page : b >= vm_alloc_guess /\ Fits(b, n)
  THEN FirstFit(vm_alloc_guess, n, a)
  ELSE FirstFit(brk, n, a)

\* do_mmap of n pages, up to __do_mmap, which looks at first with MAP_FIXED
\* only.  The descriptor is NULL for MAP_ANONYMOUS.
Mmap(first, n, prot, fixed, populate, d) ==
  /\ pc = "user"
  /\ fixed \/ first = 0
  /\ first + n <= NPages
  /\ pc' = "alloc"
  /\ op' = [call |-> "mmap", first |-> first, last |-> first + n - 1,
            at |-> first, prot |-> prot, fixed |-> fixed,
            populate |-> populate, v |-> NULL,
            file |-> IF d = NULL THEN NULL ELSE fds[d]]
  /\ IF d = NULL
     THEN UNCHANGED refcnt
     ELSE fds[d] # NULL /\ Files!Incref(fds[d])
  /\ UNCHANGED <<memory, current, fds, kfd, host>>

\* __do_brk to a higher page b.
GrowBrk(b) ==
  /\ pc = "user"
  /\ brk < b /\ b <= brk_max
  /\ pc' = "alloc"
  /\ op' = [call |-> "brk", first |-> brk, last |-> b - 1, at |-> brk,
            prot |-> Perm, fixed |-> TRUE, populate |-> FALSE, v |-> NULL,
            file |-> NULL]
  /\ UNCHANGED <<memory, current, filevars>>

Npage == op.last - op.first + 1

\* Mutant: earlier promises are forgotten.
AffordableAlone(n) == (n * 17) \div 16 + Slack < free

\* The promise __do_mmap can keep: room for the pages, a sixteenth more for
\* page tables, and slack.
Affordable(n) == (n * 17) \div 16 + Slack + pages_promised < free

\* Mutant: the reference of file_get is kept.
KeepFile == UNCHANGED <<refcnt, host>>

\* The reference of file_get goes with the call.
DropFile ==
  IF op.file = NULL
  THEN UNCHANGED <<refcnt, host>>
  ELSE Files!Decref(op.file)

\* The call ends without having mapped anything.
GiveUp ==
  /\ pc = "alloc"
  /\ ~ Affordable(Npage) \/ (~ op.fixed /\ \A a \in Page : ~ AllocVm(Npage, a))
  /\ DropFile
  /\ pc' = "user"
  /\ op' = NoOp
  /\ UNCHANGED <<memory, current, fds, kfd>>

\* __vmr_alloc takes region v for the pages from a on; with no region free it
\* carves a fresh page into N.  An affordable mapping finds that page.
AllocVmr(v, N, a) ==
  /\ pc = "alloc"
  /\ Affordable(Npage)
  /\ IF op.fixed THEN a = op.first ELSE AllocVm(Npage, a)
  /\ IF vmr_free # {}
     THEN N = {} /\ v \in vmr_free /\ free' = free
     ELSE /\ N \cap vmrs = {} /\ v \in N /\ Cardinality(N) = VMRS_PER_PAGE
          /\ free > 0 /\ free' = free - 1
  /\ vmrs' = vmrs \cup N
  /\ vmr_free' = (vmr_free \cup N) \ {v}
  /\ vmr' = [vmr EXCEPT ![v] =
               [file |-> op.file, refcnt |-> Npage, prot |-> op.prot]]
  /\ pages_promised' = pages_promised + Npage
  /\ IF op.file = NULL THEN UNCHANGED refcnt ELSE Files!Incref(op.file)
  /\ pc' = "map"
  /\ op' = [op EXCEPT !.first = a, !.last = a + Npage - 1, !.at = a, !.v = v]
  /\ UNCHANGED <<pte, tables, asked, current, fds, kfd, host>>

\* One page of the mapping loop: find its entry, unmap what is there, point
\* it to the region.  No page for a page table on the way is kassert(pte).
MapPage ==
  LET p == op.at
      new == Tables(p) \ tables
  IN  /\ pc = "map"
      /\ p <= op.last
      /\ IF Cardinality(new) > free
         THEN Panic("no page table")
         ELSE /\ tables' = tables \cup new
              /\ Unmap(p, free - Cardinality(new))
              /\ pte' = [pte EXCEPT ![p] = Promise(op.v)]
              /\ asked' = [asked EXCEPT ![p] = op.prot]
              /\ op' = [op EXCEPT !.at = p + 1]
              /\ UNCHANGED <<vmrs, current, pc, fds, kfd>>

\* The loop is done; a populated mapping goes on to fault its pages in.
MapEnd ==
  /\ pc = "map"
  /\ op.at > op.last
  /\ pc' = IF op.populate \/ ~ demand_paging THEN "populate" ELSE "mapped"
  /\ op' = [op EXCEPT !.at = op.first]
  /\ UNCHANGED <<memory, current, filevars>>

\* kassert(__handle_page_fault(a, prot) == 0) for one page.
PopulatePage ==
  /\ pc = "populate"
  /\ op.at <= op.last
  /\ IF free = 0
     THEN Panic("out of memory")
     ELSE /\ FaultIn(op.at)
          /\ IF Allows(Leaf(Type(vmr[pte[op.at].vmr].prot)), Type(op.prot))
             THEN pc' = pc /\ op' = [op EXCEPT !.at = @ + 1]
             ELSE pc' = "populate failed" /\ UNCHANGED op
          /\ UNCHANGED <<tables, vmrs, asked, current, fds, kfd>>

PopulatePastEnd ==
  /\ pc = "populate"
  /\ op.at <= op.last
  /\ free > 0
  /\ op.file # NULL
  /\ Panic("past end of file")

PopulateEnd ==
  /\ pc = "populate"
  /\ op.at > op.last
  /\ pc' = "mapped"
  /\ UNCHANGED <<memory, current, op, filevars>>

\* Mutant: do_mmap leaves brk_max alone.
KeepBrkMax == brk_max

LowerBrkMax == IF op.first < brk_max THEN op.first ELSE brk_max

\* __do_mmap returns: do_mmap keeps brk below the mapping and drops its
\* reference to the file, __do_brk moves brk.
Mapped ==
  /\ pc = "mapped"
  /\ vm_alloc_guess' = op.last + 1
  /\ IF op.call = "mmap"
     THEN /\ brk_max' = LowerBrkMax
          /\ UNCHANGED brk
     ELSE /\ brk' = op.last + 1
          /\ UNCHANGED brk_max
  /\ DropFile
  /\ pc' = "user"
  /\ op' = NoOp
  /\ UNCHANGED <<memory, demand_paging, fds, kfd>>

-----------------------------------------------------------------------------
(* munmap, mprotect, and brk downwards *)

\* do_munmap, do_mprotect, or __do_brk to a lower page, over first .. last.
EnterLoop(call, first, last, prot) ==
  /\ pc = "user"
  /\ pc' = IF call = "mprotect" THEN "protect" ELSE "unmap"
  /\ op' = [NoOp EXCEPT !.call = call, !.first = first, !.last = last,
                        !.at = first, !.prot = prot]
  /\ UNCHANGED <<memory, current, filevars>>

ShrinkBrk(b) ==
  /\ Highest(ElfPages) + 1 <= b /\ b < brk /\ b <= brk_max
  /\ EnterLoop("brk", b, brk - 1, {})

UnmapPage ==
  /\ pc = "unmap"
  /\ op.at <= op.last
  /\ Unmap(op.at, free)
  /\ pte' = [pte EXCEPT ![op.at] = Zero]
  /\ asked' = [asked EXCEPT ![op.at] = {}]
  /\ op' = [op EXCEPT !.at = @ + 1]
  /\ UNCHANGED <<tables, vmrs, current, pc, fds, kfd>>

UnmapEnd ==
  /\ pc = "unmap"
  /\ op.at > op.last
  /\ brk' = IF op.call = "brk" THEN op.first ELSE brk
  /\ pc' = "user"
  /\ op' = NoOp
  /\ UNCHANGED <<memory, brk_max, vm_alloc_guess, demand_paging, filevars>>

\* Mutant: the rights of a region are not compared.
RefusesPages(p) ==
  CASE pte[p].tag = "zero" -> TRUE
    [] pte[p].tag = "page" -> ~ op.prot \subseteq pte[p].type
    [] pte[p].tag = "vmr"  -> FALSE

\* ENOMEM or EACCES: nothing mapped there, or a right that is not given yet.
Refuses(p) ==
  CASE pte[p].tag = "zero" -> TRUE
    [] pte[p].tag = "page" -> ~ op.prot \subseteq pte[p].type
    [] pte[p].tag = "vmr"  -> ~ op.prot \subseteq vmr[pte[p].vmr].prot

\* A page that is there: its rights may only shrink.
ProtectLeaf ==
  /\ pc = "protect"
  /\ op.at <= op.last
  /\ pte[op.at].tag = "page"
  /\ ~ Refuses(op.at)
  /\ pte' = [pte EXCEPT ![op.at] = Leaf(Type(op.prot))]
  /\ asked' = [asked EXCEPT ![op.at] = op.prot]
  /\ op' = [op EXCEPT !.at = @ + 1]
  /\ UNCHANGED <<tables, free, vmr, vmrs, vmr_free, pages_promised, current,
                 pc, filevars>>

\* A promised page: the rights of its whole region shrink.
ProtectPromise ==
  /\ pc = "protect"
  /\ op.at <= op.last
  /\ pte[op.at].tag = "vmr"
  /\ ~ Refuses(op.at)
  /\ vmr' = [vmr EXCEPT ![pte[op.at].vmr].prot = op.prot]
  /\ asked' = [asked EXCEPT ![op.at] = op.prot]
  /\ op' = [op EXCEPT !.at = @ + 1]
  /\ UNCHANGED <<pte, tables, free, vmrs, vmr_free, pages_promised, current,
                 pc, filevars>>

\* The end of the range, or a page that refuses.
ProtectEnd ==
  /\ pc = "protect"
  /\ op.at <= op.last => Refuses(op.at)
  /\ pc' = "user"
  /\ op' = NoOp
  /\ UNCHANGED <<memory, current, filevars>>

-----------------------------------------------------------------------------

Kernel ==
  \/ GiveUp
  \/ \E v \in Vmr, N \in SUBSET Vmr, a \in Page : AllocVmr(v, N, a)
  \/ MapPage \/ MapEnd
  \/ PopulatePage \/ PopulatePastEnd \/ PopulateEnd
  \/ Mapped
  \/ UnmapPage \/ UnmapEnd
  \/ ProtectLeaf \/ ProtectPromise \/ ProtectEnd

Program ==
  \/ \E p \in Page : \/ \E a \in Perm : Touch(p, a) \/ Segfault(p, a)
                     \/ TouchPastEnd(p)
  \/ \E p \in Page, n \in 1 .. NPages, prot \in Prots :
       \/ \E fixed, populate \in BOOLEAN, d \in MapFds :
            Mmap(p, n, prot, fixed, populate, d)
       \/ p + n <= NPages /\ EnterLoop("mprotect", p, p + n - 1, prot)
  \/ \E p \in Page, n \in 1 .. NPages :
       p + n <= NPages /\ EnterLoop("munmap", p, p + n - 1, {})
  \/ \E b \in 0 .. NPages : GrowBrk(b) \/ ShrinkBrk(b)
  \/ UsesFiles /\ pc = "user" /\ UNCHANGED vmvars /\ Files!FileCall

Next == Kernel \/ Program

Spec == Init /\ [][Next]_vars

-----------------------------------------------------------------------------
(* Properties *)

Entry == {Zero} \cup {Promise(v) : v \in Vmr}
                \cup {Leaf(t) : t \in SUBSET (Perm \cup {"A", "D"})}

TypeOK ==
  /\ pte \in [Page -> Entry]
  /\ tables \subseteq UNION {Tables(p) : p \in Page}
  /\ free \in Nat
  /\ vmr \in [Vmr -> [file : 0 .. MAX_FILES - 1 \cup {NULL}, refcnt : Nat,
                     prot : SUBSET Perm]]
  /\ vmrs \subseteq Vmr
  /\ vmr_free \subseteq vmrs
  /\ pages_promised \in Nat
  /\ demand_paging \in BOOLEAN
  /\ {brk, brk_max, vm_alloc_guess} \subseteq 0 .. NPages
  /\ pc \in {"user", "alloc", "map", "populate", "mapped", "unmap", "protect",
            "out of memory", "no page table", "populate failed",
            "past end of file", "segfault"}
  /\ op \in [call : {"none", "mmap", "brk", "munmap", "mprotect"},
             first : Page, last : Page, at : 0 .. NPages, prot : SUBSET Perm,
             file : 0 .. MAX_FILES - 1 \cup {NULL}, fixed : BOOLEAN,
             populate : BOOLEAN, v : Vmr \cup {NULL}]
  /\ asked \in [Page -> SUBSET Perm]

\* Pages region v answers for: those whose entry points at it, and those the
\* mapping loop has still to reach.
ToMap == IF pc \in {"map", "no page table"} THEN op.last - op.at + 1 ELSE 0
Promised(v) ==
  Cardinality({p \in Page : pte[p] = Promise(v)})
    + (IF op.v = v THEN ToMap ELSE 0)

\* A region lives exactly as long as some page refers to it, and the kernel's
\* count of promised pages is that of the pages still to be faulted in: no
\* entry points at a region that was freed and reused, no region leaks, and
\* mmap admits against the true demand.
PromisesExact ==
  /\ \A v \in Vmr :
       IF v \in vmrs \ vmr_free
       THEN vmr[v].refcnt = Promised(v) /\ Promised(v) > 0
       ELSE Promised(v) = 0
  /\ pages_promised = Cardinality({p \in Page : pte[p].tag = "vmr"}) + ToMap

\* A mapping that mmap or brk granted never makes the kernel panic for lack
\* of memory, neither while it is made nor at any later first access,
\* whatever else was mapped in between.
PromiseKept == pc \notin {"out of memory", "no page table", "populate failed"}

\* No physical page is lost or used twice: each is free, or a page table, or
\* holds regions, or is mapped once.
PagesConserved ==
  FreePages = free + Cardinality(tables)
                + Cardinality(vmrs) \div VMRS_PER_PAGE
                + Cardinality({p \in Page : pte[p].tag = "page"})

\* The room brk may grow into holds nothing the program mapped: growing the
\* heap never replaces a mapping of mmap.  (The stack is not below brk_max.)
BrkRoomClear ==
  pc = "user" =>
    \A p \in brk .. brk_max - 1 : pte[p] = Zero \/ p \in StackPages

\* No page ever permits an access that the last mmap, brk or mprotect to cover
\* it did not ask for: an mprotect of one page of a region, whose rights the
\* other pages share, gives none of them a right.
RightsAsked ==
  \A p \in Page :
    LET type == CASE pte[p].tag = "zero" -> {}
                  [] pte[p].tag = "page" -> pte[p].type
                  [] pte[p].tag = "vmr"  -> Type(vmr[pte[p].vmr].prot)
    IN  pte[p] # Zero =>
          \A a \in Perm :
            Allows(Leaf(type), Type({a})) =>
              a \in asked[p] \/ (a = "R" /\ "W" \in asked[p])

\* The regions' references are what PkFiles takes them to be: mapping a file
\* holds it, and the last page of the region releases it.
FilesSpec == Files!Spec
=============================================================================
