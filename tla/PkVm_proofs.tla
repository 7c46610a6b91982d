----------------------------- MODULE PkVm_proofs ----------------------------
(***************************************************************************)
(* Proofs about PkVm, for every size of the address space, every shape of  *)
(* the page tables and every set of regions.                               *)
(***************************************************************************)
EXTENDS PkVm, FiniteSetTheorems, TLAPS

-----------------------------------------------------------------------------
(* The invariant *)

Stopped == pc \in {"out of memory", "no page table", "populate failed",
                   "past end of file", "segfault"}
Mapping == pc \in {"map", "populate", "mapped"}
InLoop == pc \in {"map", "populate", "unmap", "protect"}

\* The locals of the call in progress.
OpSane ==
  /\ pc = "user" => op = NoOp
  /\ pc = "alloc" \/ InLoop \/ pc = "mapped" => op.first <= op.last
  /\ InLoop => op.first <= op.at /\ op.at <= op.last + 1
  /\ pc = "no page table" => op.at <= op.last
  /\ pc \notin {"map", "populate", "mapped"} /\ ~ Stopped => op.v = NULL
  /\ pc = "map" => op.v \in vmrs \ vmr_free
  /\ pc = "map" \/ (pc = "populate" /\ op.at <= op.last) =>
       op.v \in Vmr /\ vmr[op.v].prot = op.prot

\* The pages the loop in progress has been over, or has still to go over.
LoopDone ==
  /\ pc = "map" => \A p \in op.first .. op.at - 1 : pte[p] = Promise(op.v)
  /\ pc = "populate" => \A p \in op.at .. op.last : pte[p] = Promise(op.v)
  /\ pc = "unmap" => \A p \in op.first .. op.at - 1 : pte[p] = Zero

\* What brk moves over.
BrkCall ==
  /\ pc = "alloc" \/ Mapping => op.call \in {"mmap", "brk"}
  /\ (pc = "alloc" \/ Mapping) /\ op.call = "brk" =>
       /\ op.first = brk /\ op.fixed
       /\ op.last < brk_max
  /\ pc = "unmap" /\ op.call = "brk" => op.last = brk - 1

\* The room of brk holds nothing but the mapping in progress.
RoomClear ==
  ~ Stopped =>
    \A p \in brk .. brk_max - 1 :
      \/ pte[p] = Zero
      \/ p \in StackPages
      \/ Mapping /\ p \in op.first .. op.last

\* Page tables that pages a .. b need beside those in T.
Missing(a, b, T) == (UNION {Tables(p) : p \in a .. b}) \ T

\* Every promised page, and every page table of the mapping in progress, has
\* a free page set aside.
Reserved ==
  ~ Stopped =>
    free >= pages_promised
      + (IF pc = "map" THEN Cardinality(Missing(op.at, op.last, tables)) ELSE 0)

\* What __do_mmap keeps free beside the pages covers the page tables a mapping
\* needs beside those of the program, and a page of regions.
SlackCovers ==
  \A a, b \in Page : a <= b =>
    Cardinality(Missing(a, b, ProgramTables)) + 1 <= (b - a + 1) \div 16 + Slack

-----------------------------------------------------------------------------
(* The constants *)

Promises == {Promise(v) : v \in Vmr}
Leaves == {Leaf(t) : t \in SUBSET (Perm \cup {"A", "D"})}

LEMMA Geometry ==
  /\ NPages \in Nat \ {0} /\ FreePages \in Nat \ {0}
  /\ VMRS_PER_PAGE \in Nat \ {0} /\ Slack \in Nat
  /\ Prots \subseteq SUBSET Perm
  /\ MapFds \subseteq 0 .. MAX_FDS - 1 \cup {NULL}
  /\ Paging \subseteq BOOLEAN
  /\ ElfPages \subseteq Page /\ StackPages \subseteq Page
  /\ ElfPages \cap StackPages = {} /\ ElfPages # {} /\ StackPages # {}
  /\ MAX_FDS \in Nat /\ MAX_FILES \in Nat
  /\ Page \subseteq Nat
  /\ NULL = -1
  BY GeometryAssumption, TablesAssumption DEF Page, NULL

LEMMA PagesFinite ==
  /\ IsFiniteSet(Page)
  /\ \A S \in SUBSET Page : IsFiniteSet(S) /\ Cardinality(S) \in Nat
<1>1. IsFiniteSet(Page)
  BY Geometry, FS_Interval DEF Page
<1> QED
  BY <1>1, FS_Subset, FS_CardinalityType

\* The kinds of page table entries differ.
LEMMA EntryKinds ==
  /\ Entry = {Zero} \cup Promises \cup Leaves
  /\ Zero.tag = "zero"
  /\ \A e \in Promises : e.tag = "vmr" /\ e.vmr \in Vmr /\ e = Promise(e.vmr)
  /\ \A e \in Leaves : /\ e.tag = "page"
                       /\ e.type \subseteq Perm \cup {"A", "D"}
                       /\ e = Leaf(e.type)
  /\ \A v, w : Promise(v) = Promise(w) => v = w
  /\ \A e \in Entry : /\ e.tag = "zero" <=> e = Zero
                      /\ e.tag = "vmr" <=> e \in Promises
                      /\ e.tag = "page" <=> e \in Leaves
<1>1. Entry = {Zero} \cup Promises \cup Leaves
  BY DEF Entry, Promises, Leaves
<1>2. Zero.tag = "zero"
  BY DEF Zero
<1>3. \A e \in Promises : e.tag = "vmr" /\ e.vmr \in Vmr /\ e = Promise(e.vmr)
  BY DEF Promises, Promise
<1>4. \A e \in Leaves : /\ e.tag = "page"
                       /\ e.type \subseteq Perm \cup {"A", "D"}
                       /\ e = Leaf(e.type)
  BY DEF Leaves, Leaf
<1>5. \A v, w : Promise(v) = Promise(w) => v = w
  <2>1. \A v : Promise(v).vmr = v
    BY DEF Promise
  <2> QED
    BY <2>1
<1> QED
  BY <1>1, <1>2, <1>3, <1>4, <1>5

\* The rights of a leaf are as Entry has them.
LEMMA TypeType == \A prot \in SUBSET Perm : /\ Type(prot) \subseteq Perm \cup {"A", "D"}
                                           /\ Leaf(Type(prot)) \in Leaves
  BY DEF Type, Perm, Leaves

\* A page needs finitely many page tables.
LEMMA TablesFinite == \A p : IsFiniteSet(Tables(p))
<1> SUFFICES ASSUME NEW p
             PROVE  IsFiniteSet(Tables(p))
  OBVIOUS
<1> DEFINE Level == 1 .. LEVELS - 1
           f == [i \in Level |-> <<i, p \div FANOUT ^ i>>]
<1>1. IsFiniteSet(Level)
  <2>1. LEVELS \in Nat
    BY GeometryAssumption
  <2> QED
    BY <2>1, FS_Interval
<1>2. f \in Surjection(Level, Tables(p))
  BY DEF Surjection, Tables
<1> QED
  BY <1>1, <1>2, FS_Surjection

\* A set of pages has a highest.
LEMMA HighestMax ==
  ASSUME NEW S \in SUBSET Page, S # {}
  PROVE  Highest(S) \in S /\ \A q \in S : q <= Highest(S)
<1> DEFINE T == {NPages - p : p \in S}
           R == {ss \in Nat \X Nat : ss[1] < ss[2]}
<1>1. T \subseteq Nat /\ T # {}
  <2>1. \A p \in S : NPages - p \in Nat
    BY Geometry DEF Page
  <2> QED
    BY <2>1
<1>2. IsWellFoundedOn(R, Nat)
  BY NatLessThanWellFounded DEF OpToRel
<1>3. PICK x \in T : \A y \in T : ~ (<<y, x>> \in R)
  <2> HIDE DEF T, R
  <2> QED
    BY <1>1, <1>2, WFMin
<1>4. PICK p \in S : x = NPages - p
  BY <1>3
<1>5. ASSUME NEW q \in S
      PROVE  q <= p
  <2>1. NPages - q \in T /\ NPages - p \in T
    BY <1>5, <1>4
  <2>2. ~ (NPages - q < NPages - p)
    BY <1>1, <1>3, <1>4, <2>1
  <2> QED
    BY <2>2, Geometry DEF Page
<1> QED
  BY <1>5 DEF Highest

-----------------------------------------------------------------------------
(* Counting page table entries *)

\* How many pages of table f have an entry in S.
Count(f, S) == Cardinality({p \in Page : f[p] \in S})

LEMMA CountType ==
  ASSUME NEW f, NEW S
  PROVE  Count(f, S) \in Nat
  BY PagesFinite DEF Count

Replaced(f, p, e) == [f EXCEPT ![p] = e]

\* One entry is replaced.
LEMMA CountChange ==
  ASSUME NEW f \in [Page -> Entry], NEW p \in Page, NEW e \in Entry, NEW S
  PROVE  Count(Replaced(f, p, e), S)
           = Count(f, S) - (IF f[p] \in S THEN 1 ELSE 0) + (IF e \in S THEN 1 ELSE 0)
<1> DEFINE A == {q \in Page : f[q] \in S}
           B == {q \in Page : Replaced(f, p, e)[q] \in S}
<1>1. /\ IsFiniteSet(A) /\ Cardinality(A) \in Nat
      /\ IsFiniteSet(B) /\ Cardinality(B) \in Nat
  BY PagesFinite
<1>2. Count(f, S) = Cardinality(A) /\ Count(Replaced(f, p, e), S) = Cardinality(B)
  BY DEF Count
<1>3. /\ p \in A <=> f[p] \in S
      /\ p \in B <=> e \in S
      /\ \A q \in Page : q # p => (q \in A <=> q \in B)
      /\ A \subseteq Page /\ B \subseteq Page
  BY DEF Replaced
<1> HIDE DEF A, B
<1>4. CASE e \in S <=> f[p] \in S
  <2>1. A = B
    BY <1>3, <1>4
  <2> QED
    BY <1>1, <1>2, <1>4, <2>1
<1>5. CASE e \in S /\ f[p] \notin S
  <2>1. B = A \cup {p} /\ p \notin A
    BY <1>3, <1>5
  <2>2. Cardinality(B) = Cardinality(A) + 1
    BY <1>1, <2>1, FS_AddElement
  <2> QED
    BY <1>1, <1>2, <1>5, <2>2
<1>6. CASE e \notin S /\ f[p] \in S
  <2>1. B = A \ {p} /\ p \in A
    BY <1>3, <1>6
  <2>2. Cardinality(B) = Cardinality(A) - 1
    BY <1>1, <2>1, FS_RemoveElement
  <2> QED
    BY <1>1, <1>2, <1>6, <2>2
<1> QED
  BY <1>4, <1>5, <1>6

\* An entry that is there is counted.
LEMMA CountPositive ==
  ASSUME NEW f, NEW S, NEW p \in Page, f[p] \in S
  PROVE  Count(f, S) >= 1
<1>1. {q \in Page : f[q] \in S} # {} /\ IsFiniteSet({q \in Page : f[q] \in S})
  BY PagesFinite
<1> QED
  BY <1>1, CountType, FS_EmptySet DEF Count

LEMMA CountZero ==
  ASSUME NEW f, NEW S, Count(f, S) = 0, NEW p \in Page
  PROVE  f[p] \notin S
  BY CountPositive

Mine(v) == Count(pte, {Promise(v)})

\* The cardinalities of the properties, in terms of Count.
LEMMA Counts ==
  ASSUME pte \in [Page -> Entry]
  PROVE  /\ Cardinality({p \in Page : pte[p].tag = "vmr"}) = Count(pte, Promises)
         /\ Cardinality({p \in Page : pte[p].tag = "page"}) = Count(pte, Leaves)
         /\ \A v : Promised(v) = Mine(v) + (IF op.v = v THEN ToMap ELSE 0)
<1>1. /\ {p \in Page : pte[p].tag = "vmr"} = {p \in Page : pte[p] \in Promises}
      /\ {p \in Page : pte[p].tag = "page"} = {p \in Page : pte[p] \in Leaves}
  BY EntryKinds
<1>2. \A v : {p \in Page : pte[p] = Promise(v)} = {p \in Page : pte[p] \in {Promise(v)}}
  OBVIOUS
<1> QED
  BY <1>1, <1>2 DEF Count, Mine, Promised

-----------------------------------------------------------------------------
(* One page table entry is replaced *)

Region == [file : 0 .. MAX_FILES - 1 \cup {NULL}, refcnt : Nat, prot : SUBSET Perm]
Used == vmrs \ vmr_free

\* TypeOK of the memory, and of the rest.
MemTypes ==
  /\ pte \in [Page -> Entry]
  /\ tables \subseteq UNION {Tables(p) : p \in Page}
  /\ free \in Nat
  /\ vmr \in [Vmr -> Region]
  /\ vmrs \subseteq Vmr
  /\ vmr_free \subseteq vmrs
  /\ pages_promised \in Nat
  /\ asked \in [Page -> SUBSET Perm]

Op == [call : {"none", "mmap", "brk", "munmap", "mprotect"},
       first : Page, last : Page, at : 0 .. NPages, prot : SUBSET Perm,
       file : 0 .. MAX_FILES - 1 \cup {NULL}, fixed : BOOLEAN,
       populate : BOOLEAN, v : Vmr \cup {NULL}]

CallTypes ==
  /\ demand_paging \in BOOLEAN
  /\ brk \in 0 .. NPages /\ brk_max \in 0 .. NPages
  /\ vm_alloc_guess \in 0 .. NPages
  /\ pc \in {"user", "alloc", "map", "populate", "mapped", "unmap", "protect",
            "out of memory", "no page table", "populate failed",
            "past end of file", "segfault"}
  /\ op \in Op

LEMMA Types == MemTypes /\ CallTypes <=> TypeOK
  BY DEF MemTypes, CallTypes, TypeOK, Region, Op

\* The loops that replace the entry of page p by e, when avail pages are free.
Redirect(p, e, avail) == Unmap(p, avail) /\ pte' = [pte EXCEPT ![p] = e]

\* A page that is faulted in is one.
LEMMA FaultRedirects ==
  ASSUME NEW p, pte[p].tag = "vmr", FaultIn(p)
  PROVE  Redirect(p, Leaf(Type(vmr[pte[p].vmr].prot)), free - 1)
  BY DEF FaultIn, Redirect, Unmap

\* 1 if page p is promised by v.
By(p, v) == IF pte[p] = Promise(v) THEN 1 ELSE 0

LEMMA DropPageRegions ==
  ASSUME MemTypes, NEW w \in Used, vmr[w].refcnt \in Nat \ {0}, DropPage(w), vmrs' = vmrs
  PROVE  /\ pages_promised' = pages_promised - 1
         /\ vmr' \in [Vmr -> Region] /\ vmr_free' \subseteq vmrs
         /\ Used' = IF vmr[w].refcnt = 1 THEN Used \ {w} ELSE Used
         /\ \A v \in Used' : /\ vmr'[v].refcnt = vmr[v].refcnt - (IF v = w THEN 1 ELSE 0)
                            /\ vmr'[v].prot = vmr[v].prot
                            /\ vmr'[v].file = vmr[v].file
<1>1. NoRegion \in Region
  BY DEF NoRegion, Region
<1>2. w \in Vmr /\ vmr[w] \in Region /\ Used \subseteq Vmr /\ w \in vmrs
  BY DEF MemTypes, Used
<1>3. CASE vmr[w].refcnt = 1
  <2>1. /\ vmr' = [vmr EXCEPT ![w] = NoRegion]
        /\ vmr_free' = vmr_free \cup {w}
        /\ pages_promised' = pages_promised - 1
    BY <1>3 DEF DropPage
  <2>2. Used' = Used \ {w}
    BY <2>1 DEF Used
  <2>3. vmr' \in [Vmr -> Region] /\ vmr_free' \subseteq vmrs
    BY <1>1, <1>2, <2>1 DEF MemTypes
  <2>4. \A v \in Used' : v # w /\ vmr'[v] = vmr[v] /\ vmr[v].refcnt \in Nat
    BY <1>2, <2>1, <2>2 DEF MemTypes, Region
  <2> QED
    BY <1>3, <2>1, <2>2, <2>3, <2>4
<1>4. CASE vmr[w].refcnt # 1
  <2>1. /\ vmr' = [vmr EXCEPT ![w].refcnt = @ - 1]
        /\ vmr_free' = vmr_free
        /\ pages_promised' = pages_promised - 1
    BY <1>4 DEF DropPage
  <2>2. Used' = Used
    BY <2>1 DEF Used
  <2>3. [vmr[w] EXCEPT !.refcnt = @ - 1] \in Region
    BY <1>2 DEF Region
  <2>4. vmr' = [vmr EXCEPT ![w] = [vmr[w] EXCEPT !.refcnt = @ - 1]]
    BY <2>1
  <2>5. vmr' \in [Vmr -> Region]
    BY <2>3, <2>4 DEF MemTypes
  <2>6. \A v \in Vmr : /\ vmr[v].refcnt \in Nat
                      /\ vmr'[v].refcnt = vmr[v].refcnt - (IF v = w THEN 1 ELSE 0)
                      /\ vmr'[v].prot = vmr[v].prot
                      /\ vmr'[v].file = vmr[v].file
    <3> TAKE v \in Vmr
    <3>1. vmr[v] \in Region
      BY DEF MemTypes
    <3>2. CASE v = w
      <4>1. vmr'[v] = [vmr[w] EXCEPT !.refcnt = @ - 1]
        BY <2>4, <3>2 DEF MemTypes
      <4> QED
        BY <3>1, <3>2, <4>1 DEF Region
    <3>3. CASE v # w
      <4>1. vmr'[v] = vmr[v]
        BY <2>4, <3>3 DEF MemTypes
      <4> QED
        BY <3>1, <3>3, <4>1 DEF Region
    <3> QED
      BY <3>2, <3>3
  <2> QED
    BY <1>2, <1>4, <2>1, <2>2, <2>5, <2>6 DEF MemTypes
<1> QED
  BY <1>3, <1>4

\* A region with a page is in use, and both counts include the page.
LEMMA PromiseUsed ==
  ASSUME MemTypes, PromisesExact, ToMap \in Nat,
         NEW p \in Page, pte[p] \in Promises
  PROVE  /\ pte[p].vmr \in Used
         /\ pte[p] = Promise(pte[p].vmr)
         /\ vmr[pte[p].vmr].refcnt \in Nat \ {0}
         /\ pages_promised >= 1 + ToMap
<1> DEFINE w == pte[p].vmr
<1>1. w \in Vmr /\ pte[p] = Promise(w)
  BY EntryKinds
<1>2. Mine(w) >= 1 /\ Mine(w) \in Nat
  BY <1>1, CountPositive, CountType DEF Mine
<1>3. Promised(w) >= 1
  <2>1. Promised(w) = Mine(w) + (IF op.v = w THEN ToMap ELSE 0)
    BY Counts DEF MemTypes
  <2> QED
    BY <1>2, <2>1
<1>4. w \in Used /\ vmr[w].refcnt = Promised(w)
  BY <1>1, <1>3 DEF PromisesExact, Used
<1>5. vmr[w].refcnt \in Nat
  BY <1>1 DEF MemTypes, Region
<1>6. Count(pte, Promises) >= 1 /\ Count(pte, Promises) \in Nat
  BY CountPositive, CountType
<1>7. pages_promised = Count(pte, Promises) + ToMap
  BY Counts DEF MemTypes, PromisesExact
<1> QED
  BY <1>1, <1>3, <1>4, <1>5, <1>6, <1>7

\* What a replaced entry does to the memory: the page that was there goes back
\* to the free pages, or the promise is taken back from its region.
LEMMA RedirectMemory ==
  ASSUME MemTypes, PromisesExact, ToMap \in Nat,
         NEW p \in Page, NEW e \in Entry, NEW avail, Redirect(p, e, avail),
         vmrs' = vmrs
  PROVE  /\ pte' \in [Page -> Entry]
         /\ pte' = [pte EXCEPT ![p] = e]
         /\ free' = IF pte[p] \in Leaves THEN avail + 1 ELSE avail
         /\ pages_promised' = pages_promised - (IF pte[p] \in Promises THEN 1 ELSE 0)
         /\ pages_promised' \in Nat
         /\ vmr' \in [Vmr -> Region] /\ vmr_free' \subseteq vmrs
         /\ \A v \in Vmr : v \in Used' <=> v \in Used /\ (pte[p] = Promise(v) => vmr[v].refcnt # 1)
         /\ \A v \in Used' : /\ vmr'[v].refcnt = vmr[v].refcnt - By(p, v)
                            /\ vmr'[v].prot = vmr[v].prot
                            /\ vmr'[v].file = vmr[v].file
<1>1. pte' = [pte EXCEPT ![p] = e] /\ pte' \in [Page -> Entry]
  BY DEF Redirect, MemTypes
<1>2. pte[p] \in Entry
  BY DEF MemTypes
<1>3. Used \subseteq Vmr /\ \A v \in Used : vmr[v].refcnt \in Nat
  BY DEF MemTypes, Used, Region
<1>4. CASE pte[p] \notin Promises
  <2>1. UNCHANGED <<pages_promised, vmr, vmr_free>>
    BY <1>2, <1>4, EntryKinds DEF Redirect, Unmap
  <2>2. free' = IF pte[p] \in Leaves THEN avail + 1 ELSE avail
    BY <1>2, <1>4, EntryKinds DEF Redirect, Unmap
  <2>3. Used' = Used
    BY <2>1 DEF Used
  <2>4. \A v \in Vmr : pte[p] # Promise(v)
    BY <1>4 DEF Promises
  <2>5. \A v \in Used' : vmr'[v].refcnt = vmr[v].refcnt - By(p, v)
    BY <1>3, <2>1, <2>3, <2>4 DEF By
  <2>6. pages_promised \in Nat /\ vmr' \in [Vmr -> Region] /\ vmr_free' \subseteq vmrs
    BY <2>1 DEF MemTypes
  <2> QED
    BY <1>1, <1>4, <2>1, <2>2, <2>3, <2>4, <2>5, <2>6
<1>5. CASE pte[p] \in Promises
  <2> DEFINE w == pte[p].vmr
  <2>1. /\ w \in Used /\ pte[p] = Promise(w) /\ vmr[w].refcnt \in Nat \ {0}
        /\ pages_promised >= 1
    BY <1>5, PromiseUsed DEF MemTypes
  <2>2. DropPage(w) /\ free' = avail
    BY <1>2, <1>5, EntryKinds DEF Redirect, Unmap
  <2>3. pte[p] \notin Leaves
    BY <1>2, <1>5, EntryKinds
  <2>4. \A v : pte[p] = Promise(v) <=> v = w
    BY <2>1, EntryKinds
  <2>5. \A v : By(p, v) = IF v = w THEN 1 ELSE 0
    BY <2>4 DEF By
  <2> HIDE DEF w
  <2>6. /\ pages_promised' = pages_promised - 1
        /\ vmr' \in [Vmr -> Region] /\ vmr_free' \subseteq vmrs
        /\ Used' = IF vmr[w].refcnt = 1 THEN Used \ {w} ELSE Used
        /\ \A v \in Used' : /\ vmr'[v].refcnt = vmr[v].refcnt - (IF v = w THEN 1 ELSE 0)
                           /\ vmr'[v].prot = vmr[v].prot
                           /\ vmr'[v].file = vmr[v].file
    BY <2>1, <2>2, DropPageRegions
  <2>7. \A v \in Vmr : v \in Used' <=> v \in Used /\ (pte[p] = Promise(v) => vmr[v].refcnt # 1)
    BY <1>3, <2>4, <2>6
  <2>8. pages_promised - 1 \in Nat
    BY <2>1 DEF MemTypes
  <2>9. \A v \in Used' : vmr'[v].refcnt = vmr[v].refcnt - By(p, v)
    BY <2>5, <2>6
  <2> QED
    BY <1>1, <1>5, <2>2, <2>3, <2>6, <2>7, <2>8, <2>9
<1> QED
  BY <1>4, <1>5

\* The counts that a replaced entry changes.
LEMMA RedirectCounts ==
  ASSUME MemTypes, NEW p \in Page, NEW e \in Entry, pte' = [pte EXCEPT ![p] = e]
  PROVE  /\ \A v : Mine(v)' = Mine(v) - By(p, v) + (IF e = Promise(v) THEN 1 ELSE 0)
         /\ Count(pte', Promises) = Count(pte, Promises)
              - (IF pte[p] \in Promises THEN 1 ELSE 0) + (IF e \in Promises THEN 1 ELSE 0)
         /\ Count(pte', Leaves) = Count(pte, Leaves)
              - (IF pte[p] \in Leaves THEN 1 ELSE 0) + (IF e \in Leaves THEN 1 ELSE 0)
<1>1. \A S : Count(pte', S) = Count(pte, S) - (IF pte[p] \in S THEN 1 ELSE 0)
                             + (IF e \in S THEN 1 ELSE 0)
  <2> TAKE S
  <2>1. pte \in [Page -> Entry] /\ pte' = Replaced(pte, p, e)
    BY DEF MemTypes, Replaced
  <2>2. \A f \in [Page -> Entry] :
          Count(Replaced(f, p, e), S)
            = Count(f, S) - (IF f[p] \in S THEN 1 ELSE 0) + (IF e \in S THEN 1 ELSE 0)
    BY CountChange
  <2>3. Count(Replaced(pte, p, e), S)
            = Count(pte, S) - (IF pte[p] \in S THEN 1 ELSE 0) + (IF e \in S THEN 1 ELSE 0)
    BY <2>1, <2>2
  <2> QED
    BY <2>1, <2>3
<1>2. ASSUME NEW v
      PROVE  Mine(v)' = Mine(v) - By(p, v) + (IF e = Promise(v) THEN 1 ELSE 0)
  <2>1. Count(pte', {Promise(v)})
          = Count(pte, {Promise(v)}) - (IF pte[p] \in {Promise(v)} THEN 1 ELSE 0)
              + (IF e \in {Promise(v)} THEN 1 ELSE 0)
    BY <1>1
  <2>2. Mine(v)' = Count(pte', {Promise(v)}) /\ Mine(v) = Count(pte, {Promise(v)})
    BY DEF Mine
  <2> QED
    BY <2>1, <2>2 DEF By
<1> QED
  BY <1>1, <1>2

\* The counts of promises stay exact: an entry that points to the region of
\* the call in progress is one the mapping loop had still to reach.
LEMMA RedirectPromises ==
  ASSUME MemTypes, PromisesExact, ToMap \in Nat, ToMap' \in Nat,
         NEW p \in Page, NEW e \in Entry, NEW avail, Redirect(p, e, avail),
         vmrs' = vmrs, op'.v = op.v,
         e \in Promises => e = Promise(op.v),
         ToMap = ToMap' + (IF e \in Promises THEN 1 ELSE 0)
  PROVE  PromisesExact'
<1> DEFINE D == IF e \in Promises THEN 1 ELSE 0
<1>1. pte' \in [Page -> Entry] /\ pte' = [pte EXCEPT ![p] = e]
  BY RedirectMemory
<1>2. /\ Cardinality({q \in Page : pte'[q].tag = "vmr"}) = Count(pte', Promises)
      /\ \A v : Promised(v)' = Mine(v)' + (IF op'.v = v THEN ToMap' ELSE 0)
  <2>1. /\ {q \in Page : pte'[q].tag = "vmr"} = {q \in Page : pte'[q] \in Promises}
        /\ \A v : {q \in Page : pte'[q] = Promise(v)} = {q \in Page : pte'[q] \in {Promise(v)}}
    BY <1>1, EntryKinds
  <2> QED
    BY <2>1 DEF Count, Mine, Promised
<1>3. /\ Cardinality({q \in Page : pte[q].tag = "vmr"}) = Count(pte, Promises)
      /\ \A v : Promised(v) = Mine(v) + (IF op.v = v THEN ToMap ELSE 0)
  BY Counts DEF MemTypes
<1>4. pages_promised' = Count(pte', Promises) + ToMap'
  <2>1. pages_promised = Count(pte, Promises) + ToMap
    BY <1>3 DEF PromisesExact
  <2>2. /\ pages_promised' = pages_promised - (IF pte[p] \in Promises THEN 1 ELSE 0)
        /\ Count(pte', Promises) = Count(pte, Promises)
             - (IF pte[p] \in Promises THEN 1 ELSE 0) + D
    BY <1>1, RedirectMemory, RedirectCounts
  <2>3. Count(pte, Promises) \in Nat /\ Count(pte', Promises) \in Nat
    BY CountType
  <2> QED
    BY <2>1, <2>2, <2>3
<1>5. ASSUME NEW v \in Vmr
      PROVE  IF v \in Used' THEN vmr'[v].refcnt = Promised(v)' /\ Promised(v)' > 0
                            ELSE Promised(v)' = 0
  <2>1. e = Promise(v) <=> e \in Promises /\ op.v = v
    BY EntryKinds DEF Promises
  <2>2. Mine(v)' = Mine(v) - By(p, v) + (IF e = Promise(v) THEN 1 ELSE 0)
    BY <1>1, RedirectCounts
  <2>3. Mine(v) \in Nat /\ Mine(v)' \in Nat /\ By(p, v) \in {0, 1}
    BY CountType DEF Mine, By
  <2>4. Promised(v)' = Promised(v) - By(p, v) /\ Promised(v) \in Nat
    BY <1>2, <1>3, <2>1, <2>2, <2>3
  <2>5. By(p, v) = 1 => v \in Used
    <3> SUFFICES ASSUME By(p, v) = 1
                 PROVE  v \in Used
      OBVIOUS
    <3>1. pte[p] \in Promises /\ pte[p] = Promise(v)
      BY DEF By, Promises
    <3>2. pte[p].vmr \in Used /\ pte[p] = Promise(pte[p].vmr)
      BY <3>1, PromiseUsed
    <3> QED
      BY <3>1, <3>2, EntryKinds
  <2>6. IF v \in Used THEN vmr[v].refcnt = Promised(v) /\ Promised(v) > 0
                      ELSE Promised(v) = 0
    BY DEF PromisesExact, Used
  <2>7. /\ v \in Used' <=> v \in Used /\ (By(p, v) = 1 => vmr[v].refcnt # 1)
        /\ v \in Used' => vmr'[v].refcnt = vmr[v].refcnt - By(p, v)
    <3>1. By(p, v) = 1 <=> pte[p] = Promise(v)
      BY DEF By
    <3>2. /\ v \in Used' <=> v \in Used /\ (pte[p] = Promise(v) => vmr[v].refcnt # 1)
          /\ v \in Used' => vmr'[v].refcnt = vmr[v].refcnt - By(p, v)
      BY RedirectMemory
    <3> QED
      BY <3>1, <3>2
  <2> QED
    BY <2>3, <2>4, <2>5, <2>6, <2>7
<1> QED
  BY <1>2, <1>4, <1>5 DEF PromisesExact, Used

-----------------------------------------------------------------------------
(* Types, the locals of the calls, and promises: steps that leave the memory *)
(* alone                                                                     *)

FdsTyped == fds \in [0 .. MAX_FDS - 1 -> 0 .. MAX_FILES - 1 \cup {NULL}]

VmCore ==
  /\ MemTypes /\ CallTypes /\ FdsTyped
  /\ OpSane /\ LoopDone
  /\ PromisesExact

\* What the types say of the locals.
LEMMA CallTypesFacts ==
  ASSUME CallTypes
  PROVE  /\ op \in Op
         /\ op.first \in Page /\ op.last \in Page /\ op.at \in 0 .. NPages
         /\ op.first \in Nat /\ op.last \in Nat /\ op.at \in Nat
         /\ op.first < NPages /\ op.last < NPages
         /\ op.v \in Vmr \cup {NULL}
         /\ op.file \in 0 .. MAX_FILES - 1 \cup {NULL}
         /\ op.prot \in SUBSET Perm
         /\ brk \in Nat /\ brk_max \in Nat
<1>1. op \in Op
  BY DEF CallTypes
<1>2. /\ op.first \in Page /\ op.last \in Page /\ op.at \in 0 .. NPages
      /\ op.v \in Vmr \cup {NULL} /\ op.prot \in SUBSET Perm
      /\ op.file \in 0 .. MAX_FILES - 1 \cup {NULL}
  BY <1>1 DEF Op
<1>3. \A x \in Page : x \in Nat /\ x < NPages
  BY Geometry DEF Page
<1>4. \A x \in 0 .. NPages : x \in Nat
  BY Geometry
<1>5. brk \in 0 .. NPages /\ brk_max \in 0 .. NPages
  BY DEF CallTypes
<1> QED
  BY <1>1, <1>2, <1>3, <1>4, <1>5

LEMMA ToMapType ==
  ASSUME CallTypes, OpSane
  PROVE  /\ ToMap \in Nat
         /\ pc \in {"map", "no page table"} => ToMap = op.last - op.at + 1
         /\ pc \notin {"map", "no page table"} => ToMap = 0
<1>1. op.last \in Nat /\ op.at \in Nat
  BY CallTypesFacts
<1>2. ASSUME pc \in {"map", "no page table"}
      PROVE  op.at <= op.last + 1 /\ ToMap = op.last - op.at + 1
  <2>1. CASE pc = "map"
    BY <1>1, <2>1 DEF OpSane, InLoop, ToMap
  <2>2. CASE pc = "no page table"
    <3>1. op.at <= op.last
      BY <2>2 DEF OpSane
    <3>2. ToMap = op.last - op.at + 1
      BY <2>2 DEF ToMap
    <3> QED
      BY <1>1, <3>1, <3>2
  <2> QED
    BY <1>2, <2>1, <2>2
<1>3. pc \notin {"map", "no page table"} => ToMap = 0
  BY DEF ToMap
<1>4. ToMap \in Nat
  <2>1. CASE pc \in {"map", "no page table"}
    <3>1. op.at <= op.last + 1 /\ ToMap = op.last - op.at + 1
      BY <1>2, <2>1
    <3> QED
      BY <1>1, <3>1
  <2>2. CASE pc \notin {"map", "no page table"}
    BY <2>2 DEF ToMap
  <2> QED
    BY <2>1, <2>2
<1>5. pc \in {"map", "no page table"} => ToMap = op.last - op.at + 1
  BY <1>2
<1> QED
  BY <1>3, <1>4, <1>5

\* op between calls.
LEMMA NoOpType ==
  /\ NoOp \in Op
  /\ NoOp.v = NULL /\ NoOp.file = NULL /\ NoOp.call = "none"
<1>1. 0 \in Page /\ 0 \in 0 .. NPages
  BY Geometry DEF Page
<1> QED
  BY <1>1 DEF NoOp, Op

\* A loop that goes on to another page.
LEMMA OpAt ==
  ASSUME op \in Op, NEW n \in 0 .. NPages, op' = [op EXCEPT !.at = n]
  PROVE  /\ op' \in Op
         /\ op'.at = n
         /\ op'.first = op.first /\ op'.last = op.last /\ op'.v = op.v
         /\ op'.prot = op.prot /\ op'.file = op.file /\ op'.call = op.call
         /\ op'.fixed = op.fixed /\ op'.populate = op.populate
  BY DEF Op

LEMMA StillStep ==
  ASSUME VmCore, UNCHANGED memory, CallTypes', FdsTyped', OpSane', LoopDone',
         ToMap' = ToMap, ToMap # 0 => op'.v = op.v
  PROVE  VmCore'
<1>1. UNCHANGED <<pte, tables, free, vmr, vmrs, vmr_free, pages_promised, asked>>
  BY DEF memory
<1>2. MemTypes'
  BY <1>1 DEF VmCore, MemTypes
<1>3. ToMap \in Nat
  BY ToMapType DEF VmCore
<1>4. \A v : Promised(v)' = Promised(v)
  BY <1>1, <1>3 DEF Promised
<1>5. PromisesExact'
  BY <1>1, <1>4 DEF VmCore, PromisesExact
<1> QED
  BY <1>2, <1>5 DEF VmCore

\* The kernel stops.
LEMMA PanicStep ==
  ASSUME VmCore, NEW why, Panic(why), why \in {"out of memory", "no page table",
           "populate failed", "past end of file", "segfault"},
         pc \in {"user", "map", "populate"},
         pc = "map" <=> why = "no page table",
         pc = "map" => op.at <= op.last
  PROVE  VmCore'
<1>1. /\ UNCHANGED memory /\ op' = op /\ pc' = why
      /\ UNCHANGED <<brk, brk_max, vm_alloc_guess, demand_paging, fds>>
  BY DEF Panic, current, filevars
<1>2. CallTypes' /\ FdsTyped'
  BY <1>1 DEF VmCore, CallTypes, FdsTyped
<1>3. OpSane' /\ LoopDone'
  BY <1>1 DEF VmCore, OpSane, LoopDone, InLoop, Stopped
<1>4. ToMap' = ToMap
  BY <1>1 DEF ToMap
<1> QED
  BY <1>1, <1>2, <1>3, <1>4, StillStep

\* do_mmap and __do_brk up to __do_mmap.
LEMMA MmapStep ==
  ASSUME VmCore, NEW first \in Page, NEW n \in 1 .. NPages, NEW prot \in Prots,
         NEW fixed \in BOOLEAN, NEW populate \in BOOLEAN, NEW d \in MapFds,
         Mmap(first, n, prot, fixed, populate, d)
  PROVE  VmCore'
<1>1. /\ UNCHANGED memory /\ pc = "user" /\ pc' = "alloc"
      /\ UNCHANGED <<brk, brk_max, vm_alloc_guess, demand_paging, fds>>
      /\ first + n <= NPages
      /\ op' = [call |-> "mmap", first |-> first, last |-> first + n - 1,
            at |-> first, prot |-> prot, fixed |-> fixed,
            populate |-> populate, v |-> NULL,
            file |-> IF d = NULL THEN NULL ELSE fds[d]]
  BY DEF Mmap, current
<1>2. /\ first + n - 1 \in Page /\ first \in 0 .. NPages /\ prot \in SUBSET Perm
      /\ first <= first + n - 1
  BY <1>1, Geometry DEF Page
<1>3. (IF d = NULL THEN NULL ELSE fds[d]) \in 0 .. MAX_FILES - 1 \cup {NULL}
  BY Geometry DEF VmCore, FdsTyped
<1>4. op' \in Op /\ op'.v = NULL /\ op'.first = first /\ op'.last = first + n - 1
  BY <1>1, <1>2, <1>3 DEF Op
<1>5. CallTypes' /\ FdsTyped'
  BY <1>1, <1>4 DEF VmCore, CallTypes, FdsTyped
<1>6. OpSane' /\ LoopDone'
  BY <1>1, <1>2, <1>4 DEF OpSane, LoopDone, InLoop, Stopped
<1>7. ToMap' = 0 /\ ToMap = 0
  BY <1>1 DEF ToMap
<1> QED
  BY <1>1, <1>5, <1>6, <1>7, StillStep

LEMMA GrowBrkStep ==
  ASSUME VmCore, NEW b \in 0 .. NPages, GrowBrk(b)
  PROVE  VmCore'
<1>1. /\ UNCHANGED memory /\ pc = "user" /\ pc' = "alloc"
      /\ UNCHANGED <<brk, brk_max, vm_alloc_guess, demand_paging, fds>>
      /\ brk < b /\ b <= brk_max
      /\ op' = [call |-> "brk", first |-> brk, last |-> b - 1, at |-> brk,
            prot |-> Perm, fixed |-> TRUE, populate |-> FALSE, v |-> NULL,
            file |-> NULL]
  BY DEF GrowBrk, current, filevars
<1>2. /\ brk \in Page /\ b - 1 \in Page /\ brk \in 0 .. NPages /\ brk <= b - 1
  BY <1>1, Geometry DEF Page, VmCore, CallTypes
<1>3. op' \in Op /\ op'.v = NULL /\ op'.first = brk /\ op'.last = b - 1
  BY <1>1, <1>2 DEF Op
<1>4. CallTypes' /\ FdsTyped'
  BY <1>1, <1>3 DEF VmCore, CallTypes, FdsTyped
<1>5. OpSane' /\ LoopDone'
  BY <1>1, <1>2, <1>3 DEF OpSane, LoopDone, InLoop, Stopped
<1>6. ToMap' = 0 /\ ToMap = 0
  BY <1>1 DEF ToMap
<1> QED
  BY <1>1, <1>4, <1>5, <1>6, StillStep

\* The program enters the loop of a call, with the locals of one.
LEMMA EnterLoopStep ==
  ASSUME VmCore, NEW c \in {"mprotect", "munmap", "brk"},
         NEW first \in Page, NEW last \in Page, first <= last,
         NEW prot \in SUBSET Perm, EnterLoop(c, first, last, prot)
  PROVE  VmCore'
<1>1. /\ UNCHANGED memory /\ pc = "user" /\ pc' \in {"protect", "unmap"}
      /\ UNCHANGED <<brk, brk_max, vm_alloc_guess, demand_paging, fds>>
      /\ op' = [NoOp EXCEPT !.call = c, !.first = first, !.last = last,
                        !.at = first, !.prot = prot]
  BY DEF EnterLoop, current, filevars
<1>2. first \in 0 .. NPages /\ first \in Nat /\ last \in Nat
  BY Geometry DEF Page
<1>3. /\ op' \in Op /\ op'.v = NULL /\ op'.first = first /\ op'.last = last
      /\ op'.at = first
  BY <1>1, <1>2, NoOpType DEF Op, NoOp
<1>4. CallTypes' /\ FdsTyped'
  BY <1>1, <1>3 DEF VmCore, CallTypes, FdsTyped
<1>5. OpSane'
  <2>1. op'.first <= op'.last /\ op'.first <= op'.at /\ op'.at <= op'.last + 1
    BY <1>2, <1>3
  <2> QED
    BY <1>1, <1>3, <2>1 DEF OpSane, InLoop, Stopped
<1>6. LoopDone'
  <2>1. \A p \in first .. first - 1 : FALSE
    BY <1>2
  <2> QED
    BY <1>1, <1>3, <2>1 DEF LoopDone
<1>7. ToMap' = 0 /\ ToMap = 0
  BY <1>1 DEF ToMap
<1> QED
  BY <1>1, <1>4, <1>5, <1>6, <1>7, StillStep

\* A call returns to the program.
LEMMA ReturnStep ==
  ASSUME VmCore, GiveUp \/ Mapped \/ UnmapEnd \/ ProtectEnd
  PROVE  VmCore'
<1>1. /\ UNCHANGED memory /\ pc # "map" /\ pc # "no page table"
      /\ pc' = "user" /\ op' = NoOp
      /\ UNCHANGED <<demand_paging, fds>>
  BY DEF GiveUp, Mapped, UnmapEnd, ProtectEnd, current, filevars
<1>2. /\ brk' \in 0 .. NPages /\ brk_max' \in 0 .. NPages
      /\ vm_alloc_guess' \in 0 .. NPages
  <2>1. op.first \in 0 .. NPages /\ op.last + 1 \in 0 .. NPages
    BY CallTypesFacts, Geometry DEF VmCore
  <2>2. /\ brk' \in {brk, op.first, op.last + 1}
        /\ brk_max' \in {brk_max, op.first}
        /\ vm_alloc_guess' \in {vm_alloc_guess, op.last + 1}
    BY DEF GiveUp, Mapped, UnmapEnd, ProtectEnd, current, LowerBrkMax
  <2> QED
    BY <2>1, <2>2 DEF VmCore, CallTypes
<1>3. CallTypes' /\ FdsTyped'
  BY <1>1, <1>2, NoOpType DEF VmCore, CallTypes, FdsTyped
<1>4. OpSane' /\ LoopDone'
  BY <1>1, NoOpType DEF OpSane, LoopDone, InLoop, Stopped
<1>5. ToMap' = 0 /\ ToMap = 0
  BY <1>1 DEF ToMap
<1> QED
  BY <1>1, <1>3, <1>4, <1>5, StillStep

\* A loop of __do_mmap is done.
LEMMA LoopEndStep ==
  ASSUME VmCore, MapEnd \/ PopulateEnd
  PROVE  VmCore'
<1>1. /\ UNCHANGED memory
      /\ UNCHANGED <<brk, brk_max, vm_alloc_guess, demand_paging, fds>>
      /\ op.at > op.last
  BY DEF MapEnd, PopulateEnd, current, filevars
<1>2. /\ MemTypes /\ CallTypes /\ FdsTyped /\ OpSane /\ LoopDone
  BY DEF VmCore
<1>3. CASE MapEnd
  <2>1. /\ pc = "map" /\ pc' \in {"populate", "mapped"}
        /\ op' = [op EXCEPT !.at = op.first]
    BY <1>3 DEF MapEnd
  <2>2. op.first \in 0 .. NPages
    BY <1>2, CallTypesFacts, Geometry
  <2>3. /\ op' \in Op /\ op'.at = op.first /\ op'.first = op.first
        /\ op'.last = op.last /\ op'.v = op.v /\ op'.prot = op.prot
    BY <1>2, <2>1, <2>2, OpAt DEF CallTypes
  <2>4. CallTypes' /\ FdsTyped'
    BY <1>1, <1>2, <2>1, <2>3 DEF CallTypes, FdsTyped
  <2>5. /\ op.at = op.last + 1 /\ op.first <= op.last
        /\ op.v \in Vmr /\ vmr[op.v].prot = op.prot
    BY <1>1, <1>2, <2>1, CallTypesFacts DEF OpSane, InLoop
  <2>6. OpSane'
    <3>1. op'.first <= op'.last /\ op'.first <= op'.at /\ op'.at <= op'.last + 1
      BY <1>2, <2>3, <2>5, CallTypesFacts
    <3>2. op'.v \in Vmr /\ vmr'[op'.v].prot = op'.prot
      BY <1>1, <2>3, <2>5 DEF memory
    <3> QED
      BY <2>1, <3>1, <3>2 DEF OpSane, InLoop, Stopped
  <2>7. LoopDone'
    <3>1. \A p \in op.first .. op.last : pte[p] = Promise(op.v)
      BY <1>2, <2>1, <2>5, CallTypesFacts DEF LoopDone
    <3> QED
      BY <1>1, <2>1, <2>3, <3>1 DEF LoopDone, memory
  <2>8. ToMap = 0 /\ ToMap' = 0
    <3>1. ToMap = op.last - op.at + 1 /\ ToMap' = 0
      BY <2>1 DEF ToMap
    <3> QED
      BY <1>2, <2>5, <3>1, CallTypesFacts
  <2> QED
    BY <1>1, <2>4, <2>6, <2>7, <2>8, StillStep
<1>4. CASE PopulateEnd
  <2>1. pc = "populate" /\ pc' = "mapped" /\ op' = op
    BY <1>4 DEF PopulateEnd
  <2>2. CallTypes' /\ FdsTyped'
    BY <1>1, <1>2, <2>1 DEF CallTypes, FdsTyped
  <2>3. OpSane' /\ LoopDone'
    BY <1>1, <1>2, <2>1 DEF OpSane, LoopDone, InLoop, Stopped
  <2>4. ToMap = 0 /\ ToMap' = 0
    BY <2>1 DEF ToMap
  <2> QED
    BY <1>1, <2>2, <2>3, <2>4, StillStep
<1> QED
  BY <1>3, <1>4

-----------------------------------------------------------------------------
(* Types, the locals of the calls, and promises: steps over one page *)

\* One entry is replaced, by the loop of a call or by a page fault.
LEMMA RedirectExact ==
  ASSUME VmCore, NEW p \in Page, NEW e \in Entry, NEW avail, Redirect(p, e, avail),
         free' \in Nat, vmrs' = vmrs, op'.v = op.v,
         tables' \subseteq UNION {Tables(q) : q \in Page},
         asked' \in [Page -> SUBSET Perm],
         e \in Promises => e = Promise(op.v),
         ToMap' \in Nat, ToMap = ToMap' + (IF e \in Promises THEN 1 ELSE 0)
  PROVE  MemTypes' /\ PromisesExact'
<1>1. MemTypes /\ PromisesExact /\ ToMap \in Nat
  BY ToMapType DEF VmCore
<1>2. MemTypes'
  <2>1. /\ pte' \in [Page -> Entry]
        /\ pages_promised' \in Nat
        /\ vmr' \in [Vmr -> Region] /\ vmr_free' \subseteq vmrs
    BY <1>1, RedirectMemory
  <2> QED
    BY <1>1, <2>1 DEF MemTypes
<1>3. PromisesExact'
  BY <1>1, RedirectPromises
<1> QED
  BY <1>2, <1>3

\* A region that an entry points at after a step is in use.
LEMMA StillUsed ==
  ASSUME MemTypes', PromisesExact', ToMap' \in Nat,
         NEW v \in Vmr, NEW p \in Page, pte'[p] = Promise(v)
  PROVE  v \in Used'
<1>1. Count(pte', {Promise(v)}) >= 1 /\ Count(pte', {Promise(v)}) \in Nat
  <2>1. pte'[p] \in {Promise(v)}
    OBVIOUS
  <2> QED
    BY <2>1, CountPositive, CountType
<1>2. {q \in Page : pte'[q] = Promise(v)} = {q \in Page : pte'[q] \in {Promise(v)}}
  OBVIOUS
<1>3. Promised(v)' = Count(pte', {Promise(v)}) + (IF op'.v = v THEN ToMap' ELSE 0)
  BY <1>2 DEF Promised, Count
<1>4. Promised(v)' # 0
  BY <1>1, <1>3
<1> QED
  BY <1>4 DEF PromisesExact, Used

\* The page tables of a page are among those of all pages.
LEMMA TablesType ==
  ASSUME NEW p \in Page, tables \subseteq UNION {Tables(q) : q \in Page}
  PROVE  /\ tables \cup (Tables(p) \ tables) \subseteq UNION {Tables(q) : q \in Page}
         /\ IsFiniteSet(Tables(p) \ tables)
         /\ Cardinality(Tables(p) \ tables) \in Nat
<1>1. IsFiniteSet(Tables(p) \ tables)
  BY TablesFinite, FS_Difference
<1>2. Cardinality(Tables(p) \ tables) \in Nat
  BY <1>1, FS_CardinalityType
<1>3. tables \cup (Tables(p) \ tables) \subseteq UNION {Tables(q) : q \in Page}
  OBVIOUS
<1> QED
  BY <1>1, <1>2, <1>3

\* What a step over page op.at of a loop finds.
LEMMA LoopPage ==
  ASSUME VmCore, op.at <= op.last
  PROVE  /\ op.at \in Page /\ op.at + 1 \in 0 .. NPages
         /\ op.at \in Nat /\ op.last \in Nat
         /\ MemTypes /\ CallTypes /\ FdsTyped /\ OpSane /\ LoopDone /\ PromisesExact
         /\ pte[op.at] \in Entry
<1>1. op.at \in Nat /\ op.last \in Nat /\ op.last < NPages
  BY CallTypesFacts DEF VmCore
<1>2. op.at \in Page /\ op.at + 1 \in 0 .. NPages
  BY <1>1, Geometry DEF Page
<1>3. pte \in [Page -> Entry]
  BY DEF VmCore, MemTypes
<1> QED
  BY <1>1, <1>2, <1>3 DEF VmCore

\* A page of the mapping loop.
LEMMA MapPageStep ==
  ASSUME VmCore, MapPage
  PROVE  VmCore'
<1> DEFINE p == op.at
           new == Tables(p) \ tables
<1>1. pc = "map" /\ p <= op.last
  BY DEF MapPage
<1>2. /\ p \in Page /\ p + 1 \in 0 .. NPages /\ p \in Nat /\ op.last \in Nat
      /\ MemTypes /\ CallTypes /\ FdsTyped /\ OpSane /\ LoopDone /\ PromisesExact
      /\ pte[p] \in Entry
  BY <1>1, LoopPage
<1>3. CASE Cardinality(new) > free
  <2>1. Panic("no page table")
    BY <1>3 DEF MapPage
  <2> QED
    BY <1>1, <2>1, PanicStep
<1>4. CASE ~ (Cardinality(new) > free)
  <2>1. /\ tables' = tables \cup new
        /\ Unmap(p, free - Cardinality(new))
        /\ pte' = [pte EXCEPT ![p] = Promise(op.v)]
        /\ asked' = [asked EXCEPT ![p] = op.prot]
        /\ op' = [op EXCEPT !.at = p + 1]
        /\ vmrs' = vmrs /\ pc' = pc /\ fds' = fds
        /\ brk' = brk /\ brk_max' = brk_max /\ vm_alloc_guess' = vm_alloc_guess
        /\ demand_paging' = demand_paging
    BY <1>4 DEF MapPage, current
  <2>2. /\ op' \in Op /\ op'.at = p + 1
        /\ op'.first = op.first /\ op'.last = op.last /\ op'.v = op.v
        /\ op'.prot = op.prot
    BY <1>2, <2>1, OpAt DEF CallTypes
  <2>3. Redirect(p, Promise(op.v), free - Cardinality(new))
    BY <2>1 DEF Redirect
  <2>4. op.v \in Used /\ op.v \in Vmr /\ vmr[op.v].prot = op.prot
    BY <1>1, <1>2 DEF OpSane, MemTypes, Used
  <2>5. Promise(op.v) \in Promises /\ Promise(op.v) \in Entry
    BY <2>4, EntryKinds DEF Promises
  <2>6. ToMap = op.last - p + 1 /\ ToMap' = op.last - p /\ ToMap' \in Nat /\ ToMap \in Nat
    <3>1. ToMap = op.last - op.at + 1 /\ ToMap' = op'.last - op'.at + 1
      BY <1>1, <2>1 DEF ToMap
    <3> QED
      BY <1>1, <1>2, <2>2, <3>1
  <2>7. ToMap = ToMap' + (IF Promise(op.v) \in Promises THEN 1 ELSE 0)
    <3>1. ToMap = ToMap' + 1
      BY <1>2, <2>6
    <3> QED
      BY <2>5, <3>1
  <2>8. Cardinality(new) \in Nat /\ tables' \subseteq UNION {Tables(q) : q \in Page}
    BY <1>2, <2>1, TablesType DEF MemTypes
  <2>9. free - Cardinality(new) \in Nat
    BY <1>2, <1>4, <2>8 DEF MemTypes
  <2> HIDE DEF p, new
  <2>10. /\ free' = IF pte[p] \in Leaves THEN free - Cardinality(new) + 1
                                        ELSE free - Cardinality(new)
         /\ \A v \in Vmr : v \in Used' <=> v \in Used /\ (pte[p] = Promise(v) => vmr[v].refcnt # 1)
         /\ \A v \in Used' : vmr'[v].prot = vmr[v].prot
    BY <1>2, <2>1, <2>3, <2>5, <2>6, RedirectMemory
  <2>11. free' \in Nat
    BY <2>9, <2>10
  <2>12. asked' \in [Page -> SUBSET Perm]
    BY <1>2, <2>1, CallTypesFacts DEF MemTypes
  <2>13. MemTypes' /\ PromisesExact'
    BY <1>2, <2>1, <2>2, <2>3, <2>5, <2>6, <2>7, <2>8, <2>11, <2>12, RedirectExact
  <2>14. CallTypes' /\ FdsTyped'
    BY <1>2, <2>1, <2>2 DEF CallTypes, FdsTyped
  <2>15. op.v \in Used' /\ vmr'[op.v].prot = op.prot
    <3>1. pte'[p] = Promise(op.v)
      BY <1>2, <2>1 DEF MemTypes
    <3>2. op.v \in Used'
      BY <1>2, <2>4, <2>6, <2>13, <3>1, StillUsed
    <3> QED
      BY <2>4, <2>10, <3>2
  <2>16. OpSane'
    <3>1. op'.first <= op'.last /\ op'.first <= op'.at /\ op'.at <= op'.last + 1
      <4>1. op.first <= op.last /\ op.first <= p /\ op.first \in Nat
        BY <1>1, <1>2, CallTypesFacts DEF OpSane, InLoop, p
      <4> QED
        BY <1>1, <1>2, <2>2, <4>1
    <3>2. op'.v \in Used' /\ op'.v \in Vmr /\ vmr'[op'.v].prot = op'.prot
      BY <2>2, <2>4, <2>15
    <3> QED
      BY <1>1, <2>1, <3>1, <3>2 DEF OpSane, InLoop, Stopped, Used
  <2>17. LoopDone'
    <3>1. \A q \in op.first .. p : pte'[q] = Promise(op.v)
      <4>1. \A q \in op.first .. p - 1 : pte[q] = Promise(op.v)
        BY <1>1, <1>2 DEF LoopDone, p
      <4>2. op.first \in Nat /\ p \in Nat /\ \A q \in op.first .. p : q \in Page
        BY <1>2, CallTypesFacts, Geometry DEF Page
      <4> QED
        BY <1>2, <2>1, <4>1, <4>2 DEF MemTypes
    <3>2. op'.at - 1 = p
      BY <1>2, <2>2
    <3> QED
      BY <1>1, <2>1, <2>2, <3>1, <3>2 DEF LoopDone
  <2> QED
    BY <2>13, <2>14, <2>16, <2>17 DEF VmCore
<1> QED
  BY <1>3, <1>4

\* A page that is faulted in leaves one promise less.
LEMMA FaultStep ==
  ASSUME VmCore, NEW p \in Page, pte[p].tag = "vmr", free # 0, FaultIn(p),
         UNCHANGED <<tables, vmrs, asked>>, op'.v = op.v, ToMap = 0, ToMap' = 0
  PROVE  /\ MemTypes' /\ PromisesExact'
         /\ pte' = [pte EXCEPT ![p] = Leaf(Type(vmr[pte[p].vmr].prot))]
         /\ \A v \in Used' : vmr'[v].prot = vmr[v].prot
<1> DEFINE e == Leaf(Type(vmr[pte[p].vmr].prot))
<1>1. MemTypes /\ CallTypes /\ PromisesExact
  BY DEF VmCore
<1>2. pte[p] \in Promises /\ pte[p].vmr \in Vmr
  BY <1>1, EntryKinds DEF MemTypes
<1>3. vmr[pte[p].vmr].prot \in SUBSET Perm
  BY <1>1, <1>2 DEF MemTypes, Region
<1>4. e \in Leaves /\ e \in Entry /\ e \notin Promises
  BY <1>3, TypeType, EntryKinds
<1>5. Redirect(p, e, free - 1)
  BY FaultRedirects
<1>6. free' = free - 1
  BY DEF FaultIn
<1>7. free' \in Nat
  BY <1>1, <1>6 DEF MemTypes
<1>8. pte' = [pte EXCEPT ![p] = e]
  BY DEF FaultIn
<1>9. ToMap' \in Nat /\ ToMap \in Nat /\ ToMap = ToMap' + (IF e \in Promises THEN 1 ELSE 0)
  BY <1>4
<1> HIDE DEF e
<1>10. MemTypes' /\ PromisesExact'
  BY <1>1, <1>4, <1>5, <1>7, <1>9, RedirectExact DEF MemTypes
<1>11. \A v \in Used' : vmr'[v].prot = vmr[v].prot
  BY <1>1, <1>4, <1>5, <1>9, RedirectMemory
<1> QED
  BY <1>8, <1>10, <1>11 DEF e

\* A page fault of the program.
LEMMA TouchStep ==
  ASSUME VmCore, NEW p \in Page, NEW a \in Perm, Touch(p, a)
  PROVE  VmCore'
<1>1. pc = "user" /\ pte[p].tag = "vmr"
  BY DEF Touch
<1>2. CASE free = 0
  <2>1. Panic("out of memory")
    BY <1>2 DEF Touch
  <2> QED
    BY <1>1, <2>1, PanicStep
<1>3. CASE free # 0
  <2>1. /\ FaultIn(p) /\ pc' \in {"user", "segfault"} /\ op' = op
        /\ UNCHANGED <<tables, vmrs, asked>>
        /\ UNCHANGED <<brk, brk_max, vm_alloc_guess, demand_paging, fds>>
    BY <1>3 DEF Touch, current
  <2>2. ToMap = 0 /\ ToMap' = 0
    BY <1>1, <2>1 DEF ToMap
  <2>3. MemTypes' /\ PromisesExact'
    BY <1>1, <1>3, <2>1, <2>2, FaultStep
  <2>4. CallTypes' /\ FdsTyped'
    BY <2>1 DEF VmCore, CallTypes, FdsTyped
  <2>5. OpSane' /\ LoopDone'
    BY <1>1, <2>1 DEF VmCore, OpSane, LoopDone, InLoop, Stopped
  <2> QED
    BY <2>3, <2>4, <2>5 DEF VmCore
<1> QED
  BY <1>2, <1>3

\* The rights a region gives are those it was populated with.
LEMMA AllowsOwn == \A prot : Allows(Leaf(Type(prot)), Type(prot))
  BY DEF Allows, Leaf

\* A page of the populating loop.
LEMMA PopulatePageStep ==
  ASSUME VmCore, PopulatePage
  PROVE  VmCore'
<1> DEFINE p == op.at
<1>1. pc = "populate" /\ p <= op.last
  BY DEF PopulatePage
<1>2. /\ p \in Page /\ p + 1 \in 0 .. NPages /\ p \in Nat /\ op.last \in Nat
      /\ MemTypes /\ CallTypes /\ FdsTyped /\ OpSane /\ LoopDone /\ PromisesExact
      /\ pte[p] \in Entry
  BY <1>1, LoopPage
<1>3. CASE free = 0
  <2>1. Panic("out of memory")
    BY <1>3 DEF PopulatePage
  <2> QED
    BY <1>1, <2>1, PanicStep
<1>4. CASE free # 0
  <2>1. /\ op.v \in Vmr /\ vmr[op.v].prot = op.prot
        /\ op.first <= op.last /\ op.first <= p /\ op.first \in Nat
    BY <1>1, <1>2, CallTypesFacts DEF OpSane, InLoop
  <2>2. \A q \in p .. op.last : pte[q] = Promise(op.v) /\ q \in Page
    <3>1. \A q \in p .. op.last : pte[q] = Promise(op.v)
      BY <1>1, <1>2 DEF LoopDone
    <3>2. op.last < NPages
      BY <1>2, CallTypesFacts
    <3> QED
      BY <1>2, <3>1, <3>2, Geometry DEF Page
  <2>3. pte[p] = Promise(op.v) /\ pte[p].tag = "vmr" /\ pte[p].vmr = op.v
    BY <1>1, <1>2, <2>2 DEF Promise
  <2>4. /\ FaultIn(p)
        /\ pc' = pc /\ op' = [op EXCEPT !.at = @ + 1]
        /\ UNCHANGED <<tables, vmrs, asked>>
        /\ UNCHANGED <<brk, brk_max, vm_alloc_guess, demand_paging, fds>>
    <3>1. Allows(Leaf(Type(vmr[pte[p].vmr].prot)), Type(op.prot))
      BY <2>1, <2>3, AllowsOwn
    <3> QED
      BY <1>4, <3>1 DEF PopulatePage, current
  <2>5. /\ op' \in Op /\ op'.at = p + 1
        /\ op'.first = op.first /\ op'.last = op.last /\ op'.v = op.v
        /\ op'.prot = op.prot
    <3>1. op' = [op EXCEPT !.at = p + 1]
      BY <2>4
    <3> QED
      BY <1>2, <3>1, OpAt DEF CallTypes
  <2>6. ToMap = 0 /\ ToMap' = 0
    BY <1>1, <2>4 DEF ToMap
  <2>7. /\ MemTypes' /\ PromisesExact'
        /\ pte' = [pte EXCEPT ![p] = Leaf(Type(vmr[pte[p].vmr].prot))]
        /\ \A v \in Used' : vmr'[v].prot = vmr[v].prot
    BY <1>2, <1>4, <2>3, <2>4, <2>5, <2>6, FaultStep
  <2>8. CallTypes' /\ FdsTyped'
    BY <1>2, <2>4, <2>5 DEF CallTypes, FdsTyped
  <2>9. \A q \in p + 1 .. op.last : pte'[q] = Promise(op.v)
    BY <1>2, <2>2, <2>7 DEF MemTypes
  <2>10. LoopDone'
    BY <1>1, <2>4, <2>5, <2>9 DEF LoopDone
  <2>11. p + 1 <= op.last => op.v \in Vmr /\ vmr'[op.v].prot = op.prot
    <3> SUFFICES ASSUME p + 1 <= op.last
                 PROVE  vmr'[op.v].prot = op.prot
      BY <2>1
    <3>1. p + 1 \in Page /\ pte'[p + 1] = Promise(op.v)
      BY <1>2, <2>2, <2>9
    <3>2. op.v \in Used'
      BY <2>1, <2>6, <2>7, <3>1, StillUsed
    <3> QED
      BY <2>1, <2>7, <3>2
  <2>12. OpSane'
    <3>1. op'.first <= op'.last /\ op'.first <= op'.at /\ op'.at <= op'.last + 1
      BY <1>1, <1>2, <2>1, <2>5
    <3>2. op'.at <= op'.last => op'.v \in Vmr /\ vmr'[op'.v].prot = op'.prot
      BY <2>5, <2>11
    <3> QED
      BY <1>1, <2>4, <3>1, <3>2 DEF OpSane, InLoop, Stopped
  <2> QED
    BY <2>7, <2>8, <2>10, <2>12 DEF VmCore
<1> QED
  BY <1>3, <1>4

\* A page of the unmapping loop.
LEMMA UnmapPageStep ==
  ASSUME VmCore, UnmapPage
  PROVE  VmCore'
<1> DEFINE p == op.at
<1>1. /\ pc = "unmap" /\ p <= op.last
      /\ Unmap(p, free)
      /\ pte' = [pte EXCEPT ![p] = Zero]
      /\ asked' = [asked EXCEPT ![p] = {}]
      /\ op' = [op EXCEPT !.at = p + 1]
      /\ tables' = tables /\ vmrs' = vmrs /\ pc' = pc /\ fds' = fds
      /\ UNCHANGED <<brk, brk_max, vm_alloc_guess, demand_paging, fds>>
  BY DEF UnmapPage, current
<1>2. /\ p \in Page /\ p + 1 \in 0 .. NPages /\ p \in Nat /\ op.last \in Nat
      /\ MemTypes /\ CallTypes /\ FdsTyped /\ OpSane /\ LoopDone /\ PromisesExact
      /\ pte[p] \in Entry
  BY <1>1, LoopPage
<1>3. /\ op' \in Op /\ op'.at = p + 1
      /\ op'.first = op.first /\ op'.last = op.last /\ op'.v = op.v
      /\ op'.prot = op.prot
  BY <1>1, <1>2, OpAt DEF CallTypes
<1>4. op.first <= op.last /\ op.first <= p /\ op.first \in Nat /\ op.v = NULL
  BY <1>1, <1>2, CallTypesFacts DEF OpSane, InLoop, Stopped
<1>5. Redirect(p, Zero, free)
  BY <1>1 DEF Redirect
<1>6. Zero \in Entry /\ Zero \notin Promises
  BY EntryKinds
<1>7. /\ ToMap = 0 /\ ToMap' = 0 /\ ToMap \in Nat
      /\ ToMap = ToMap' + (IF Zero \in Promises THEN 1 ELSE 0)
  BY <1>1, <1>6 DEF ToMap
<1> HIDE DEF p
<1>8. free' = IF pte[p] \in Leaves THEN free + 1 ELSE free
  BY <1>1, <1>2, <1>5, <1>6, <1>7, RedirectMemory
<1>9. free' \in Nat
  BY <1>2, <1>8 DEF MemTypes
<1>10. asked' \in [Page -> SUBSET Perm]
  BY <1>1, <1>2 DEF MemTypes
<1>11. MemTypes' /\ PromisesExact'
  BY <1>1, <1>2, <1>3, <1>5, <1>6, <1>7, <1>9, <1>10, RedirectExact DEF MemTypes
<1>12. CallTypes' /\ FdsTyped'
  BY <1>1, <1>2, <1>3 DEF CallTypes, FdsTyped
<1>13. LoopDone'
  <2>1. \A q \in op.first .. p - 1 : pte[q] = Zero
    BY <1>1, <1>2 DEF LoopDone, p
  <2>2. \A q \in op.first .. p : q \in Page
    BY <1>2, <1>4, Geometry DEF Page
  <2>3. \A q \in op.first .. p : pte'[q] = Zero
    BY <1>1, <1>2, <1>4, <2>1, <2>2 DEF MemTypes
  <2>4. op'.at - 1 = p
    BY <1>2, <1>3
  <2> QED
    BY <1>1, <1>3, <2>3, <2>4 DEF LoopDone
<1>14. OpSane'
  <2>1. op'.first <= op'.last /\ op'.first <= op'.at /\ op'.at <= op'.last + 1
    BY <1>1, <1>2, <1>3, <1>4
  <2> QED
    BY <1>1, <1>3, <1>4, <2>1 DEF OpSane, InLoop, Stopped
<1> QED
  BY <1>11, <1>12, <1>13, <1>14 DEF VmCore

\* A page of the protecting loop.
LEMMA ProtectPageStep ==
  ASSUME VmCore, ProtectLeaf \/ ProtectPromise
  PROVE  VmCore'
<1> DEFINE p == op.at
<1>1. /\ pc = "protect" /\ p <= op.last
      /\ asked' = [asked EXCEPT ![p] = op.prot]
      /\ op' = [op EXCEPT !.at = p + 1]
      /\ tables' = tables /\ vmrs' = vmrs /\ vmr_free' = vmr_free /\ free' = free
      /\ pages_promised' = pages_promised /\ pc' = pc
      /\ UNCHANGED <<brk, brk_max, vm_alloc_guess, demand_paging, fds, refcnt, host>>
  BY DEF ProtectLeaf, ProtectPromise, current, filevars
<1>2. /\ p \in Page /\ p + 1 \in 0 .. NPages /\ p \in Nat /\ op.last \in Nat
      /\ MemTypes /\ CallTypes /\ FdsTyped /\ OpSane /\ LoopDone /\ PromisesExact
      /\ pte[p] \in Entry
  BY <1>1, LoopPage
<1>3. /\ op' \in Op /\ op'.at = p + 1
      /\ op'.first = op.first /\ op'.last = op.last /\ op'.v = op.v
      /\ op'.prot = op.prot
  BY <1>1, <1>2, OpAt DEF CallTypes
<1>4. op.first <= op.last /\ op.first <= p /\ op.first \in Nat /\ op.v = NULL
  BY <1>1, <1>2, CallTypesFacts DEF OpSane, InLoop, Stopped
<1>5. op.prot \in SUBSET Perm
  BY <1>2, CallTypesFacts
<1>6. ToMap = 0 /\ ToMap' = 0 /\ ToMap \in Nat
  BY <1>1 DEF ToMap
<1> HIDE DEF p
<1>7. asked' \in [Page -> SUBSET Perm]
  BY <1>1, <1>2, <1>5 DEF MemTypes
<1>8. CallTypes' /\ FdsTyped'
  BY <1>1, <1>2, <1>3 DEF CallTypes, FdsTyped
<1>9. OpSane' /\ LoopDone'
  <2>1. op'.first <= op'.last /\ op'.first <= op'.at /\ op'.at <= op'.last + 1
    BY <1>1, <1>2, <1>3, <1>4
  <2> QED
    BY <1>1, <1>3, <1>4, <2>1 DEF OpSane, LoopDone, InLoop, Stopped
<1>10. CASE ProtectLeaf
  <2> DEFINE e == Leaf(Type(op.prot))
  <2>1. pte[p].tag = "page" /\ pte' = [pte EXCEPT ![p] = e] /\ vmr' = vmr
    BY <1>10 DEF ProtectLeaf, p
  <2>2. pte[p] \in Leaves
    BY <1>2, <2>1, EntryKinds
  <2>3. e \in Leaves /\ e \in Entry /\ e \notin Promises
    BY <1>5, TypeType, EntryKinds
  <2> HIDE DEF e
  <2>4. Unmap(p, free - 1)
    <3>1. free' = free - 1 + 1
      BY <1>1, <1>2 DEF MemTypes
    <3> QED
      BY <1>1, <2>1, <3>1 DEF Unmap
  <2>5. Redirect(p, e, free - 1)
    BY <2>1, <2>4 DEF Redirect
  <2>6. ToMap' \in Nat /\ ToMap = ToMap' + (IF e \in Promises THEN 1 ELSE 0)
    BY <1>6, <2>3
  <2>7. MemTypes' /\ PromisesExact'
    BY <1>1, <1>2, <1>3, <1>7, <2>3, <2>5, <2>6, RedirectExact DEF MemTypes
  <2> QED
    BY <1>8, <1>9, <2>7 DEF VmCore
<1>11. CASE ProtectPromise
  <2> DEFINE w == pte[p].vmr
  <2>1. /\ pte[p].tag = "vmr" /\ vmr' = [vmr EXCEPT ![w].prot = op.prot]
        /\ pte' = pte
    BY <1>11 DEF ProtectPromise, p
  <2>2. w \in Vmr
    BY <1>2, <2>1, EntryKinds
  <2> HIDE DEF w
  <2>3. [vmr[w] EXCEPT !.prot = op.prot] \in Region
    BY <1>2, <1>5, <2>2 DEF MemTypes, Region
  <2>4. vmr' = [vmr EXCEPT ![w] = [vmr[w] EXCEPT !.prot = op.prot]]
    BY <2>1
  <2>5. MemTypes'
    BY <1>1, <1>2, <1>7, <2>1, <2>3, <2>4 DEF MemTypes
  <2>6. \A v \in Vmr : vmr'[v].refcnt = vmr[v].refcnt
    BY <1>2, <2>2, <2>4 DEF MemTypes, Region
  <2>7. \A v : Promised(v)' = Promised(v)
    BY <1>3, <1>6, <2>1 DEF Promised
  <2>8. PromisesExact'
    BY <1>1, <1>2, <1>6, <2>1, <2>6, <2>7 DEF PromisesExact
  <2> QED
    BY <1>8, <1>9, <2>5, <2>8 DEF VmCore
<1> QED
  BY <1>10, <1>11

\* Where __vm_alloc puts a mapping.
LEMMA AllocVmPlace ==
  ASSUME NEW n, NEW a \in Page, AllocVm(n, a)
  PROVE  Fits(a, n)
  BY DEF AllocVm, FirstFit

\* __vmr_alloc.
LEMMA AllocVmrStep ==
  ASSUME VmCore, NEW v \in Vmr, NEW N \in SUBSET Vmr, NEW a \in Page, AllocVmr(v, N, a)
  PROVE  VmCore'
<1> DEFINE region == [file |-> op.file, refcnt |-> Npage, prot |-> op.prot]
<1>1. /\ pc = "alloc" /\ pc' = "map"
      /\ IF op.fixed THEN a = op.first ELSE AllocVm(Npage, a)
      /\ vmrs' = vmrs \cup N
      /\ vmr_free' = (vmr_free \cup N) \ {v}
      /\ vmr' = [vmr EXCEPT ![v] = region]
      /\ pages_promised' = pages_promised + Npage
      /\ op' = [op EXCEPT !.first = a, !.last = a + Npage - 1, !.at = a, !.v = v]
      /\ UNCHANGED <<pte, tables, asked>>
      /\ UNCHANGED <<brk, brk_max, vm_alloc_guess, demand_paging, fds>>
  BY DEF AllocVmr, current
<1>2. MemTypes /\ CallTypes /\ FdsTyped /\ OpSane /\ PromisesExact
  BY DEF VmCore
<1>3. /\ op.first \in Nat /\ op.last \in Nat /\ op.first <= op.last
      /\ op.first < NPages /\ op.last < NPages
      /\ op.prot \in SUBSET Perm /\ op.file \in 0 .. MAX_FILES - 1 \cup {NULL}
      /\ op \in Op
  BY <1>1, <1>2, CallTypesFacts DEF OpSane
<1>4. Npage \in Nat /\ Npage >= 1 /\ op.first + Npage <= NPages
  BY <1>3, Geometry DEF Npage
<1>5. a + Npage <= NPages /\ a \in Nat
  <2>1. CASE op.fixed
    BY <1>1, <1>3, <1>4, <2>1
  <2>2. CASE ~ op.fixed
    <3>1. Fits(a, Npage)
      BY <1>1, <2>2, AllocVmPlace
    <3> QED
      BY <3>1, Geometry DEF Fits
  <2> QED
    BY <2>1, <2>2
<1>6. a + Npage - 1 \in Page /\ a \in 0 .. NPages /\ a <= a + Npage - 1
  BY <1>4, <1>5, Geometry DEF Page
<1>7. /\ op' \in Op /\ op'.first = a /\ op'.last = a + Npage - 1 /\ op'.at = a
      /\ op'.v = v /\ op'.prot = op.prot
  BY <1>1, <1>3, <1>6 DEF Op
<1>8. v \notin Used
  <2>1. CASE vmr_free # {}
    BY <2>1 DEF AllocVmr, Used
  <2>2. CASE vmr_free = {}
    BY <2>2 DEF AllocVmr, Used
  <2> QED
    BY <2>1, <2>2
<1>9. v \in vmrs' /\ v \notin vmr_free'
  <2>1. CASE vmr_free # {}
    BY <1>1, <1>2, <2>1 DEF AllocVmr, MemTypes
  <2>2. CASE vmr_free = {}
    BY <1>1, <2>2 DEF AllocVmr
  <2> QED
    BY <2>1, <2>2
<1>10. Used' = Used \cup {v}
  <2>1. N \cap vmrs = {}
    BY DEF AllocVmr
  <2> QED
    BY <1>1, <1>2, <1>9, <2>1 DEF Used, MemTypes
<1>11. free' \in Nat
  <2>1. CASE vmr_free # {}
    BY <1>2, <2>1 DEF AllocVmr, MemTypes
  <2>2. CASE vmr_free = {}
    <3>1. free > 0 /\ free' = free - 1
      BY <2>2 DEF AllocVmr
    <3> QED
      BY <1>2, <3>1 DEF MemTypes
  <2> QED
    BY <2>1, <2>2
<1>12. region \in Region
  BY <1>3, <1>4 DEF Region
<1>13. vmr'[v].refcnt = Npage /\ vmr'[v].prot = op.prot
  BY <1>1, <1>2 DEF MemTypes
<1> HIDE DEF region
<1>14. MemTypes'
  <2>1. pages_promised' \in Nat
    BY <1>1, <1>2, <1>4 DEF MemTypes
  <2>2. vmr' \in [Vmr -> Region] /\ vmrs' \subseteq Vmr /\ vmr_free' \subseteq vmrs'
    BY <1>1, <1>2, <1>12 DEF MemTypes
  <2> QED
    BY <1>1, <1>2, <1>11, <2>1, <2>2 DEF MemTypes
<1>15. CallTypes' /\ FdsTyped'
  BY <1>1, <1>2, <1>7 DEF CallTypes, FdsTyped
<1>16. OpSane'
  <2>1. op'.first <= op'.last /\ op'.first <= op'.at /\ op'.at <= op'.last + 1
    BY <1>4, <1>5, <1>6, <1>7
  <2>2. op'.v \in vmrs' \ vmr_free' /\ op'.v \in Vmr /\ vmr'[op'.v].prot = op'.prot
    BY <1>7, <1>9, <1>13
  <2> QED
    BY <1>1, <2>1, <2>2 DEF OpSane, InLoop, Stopped
<1>17. LoopDone'
  <2>1. \A q \in a .. a - 1 : FALSE
    BY <1>5
  <2> QED
    BY <1>1, <1>7, <2>1 DEF LoopDone
<1>18. ToMap = 0 /\ ToMap' = Npage
  <2>1. ToMap' = op'.last - op'.at + 1
    BY <1>1 DEF ToMap
  <2>2. ToMap' = Npage
    BY <1>4, <1>5, <1>7, <2>1
  <2> QED
    BY <1>1, <2>2 DEF ToMap
<1>19. /\ \A w : Promised(w) = Cardinality({q \in Page : pte[q] = Promise(w)})
       /\ \A w : Promised(w)' = Promised(w) + (IF w = v THEN Npage ELSE 0)
  <2>1. \A w : Cardinality({q \in Page : pte[q] = Promise(w)}) \in Nat
    BY PagesFinite
  <2>2. \A w : Promised(w) = Cardinality({q \in Page : pte[q] = Promise(w)})
    BY <1>18, <2>1 DEF Promised
  <2>3. \A w : Promised(w)' = Cardinality({q \in Page : pte[q] = Promise(w)})
                                + (IF op'.v = w THEN Npage ELSE 0)
    BY <1>1, <1>18 DEF Promised
  <2> QED
    BY <1>7, <2>2, <2>3
<1>20. PromisesExact'
  <2>1. ASSUME NEW w \in Vmr
        PROVE  IF w \in Used' THEN vmr'[w].refcnt = Promised(w)' /\ Promised(w)' > 0
                              ELSE Promised(w)' = 0
    <3>1. IF w \in Used THEN vmr[w].refcnt = Promised(w) /\ Promised(w) > 0
                        ELSE Promised(w) = 0
      BY <1>2 DEF PromisesExact, Used
    <3>2. Promised(w) \in Nat
      BY <1>19, PagesFinite
    <3>3. CASE w = v
      <4>1. Promised(w) = 0
        BY <1>8, <3>1, <3>3
      <4>2. Promised(w)' = Npage
        BY <1>4, <1>19, <3>3, <4>1
      <4> QED
        BY <1>4, <1>10, <1>13, <3>3, <4>2
    <3>4. CASE w # v
      <4>1. Promised(w)' = Promised(w)
        BY <1>19, <3>2, <3>4
      <4>2. vmr'[w] = vmr[w]
        BY <1>1, <1>2, <3>4 DEF MemTypes
      <4> QED
        BY <1>10, <3>1, <3>4, <4>1, <4>2
    <3> QED
      BY <3>3, <3>4
  <2>2. pages_promised' = Cardinality({q \in Page : pte'[q].tag = "vmr"}) + ToMap'
    <3>1. pages_promised = Cardinality({q \in Page : pte[q].tag = "vmr"}) + ToMap
      BY <1>2 DEF PromisesExact
    <3>2. Cardinality({q \in Page : pte[q].tag = "vmr"}) \in Nat
      BY PagesFinite
    <3> QED
      BY <1>1, <1>4, <1>18, <3>1, <3>2
  <2> QED
    BY <2>1, <2>2 DEF PromisesExact, Used
<1> QED
  BY <1>14, <1>15, <1>16, <1>17, <1>20 DEF VmCore

\* A system call over files leaves the memory map alone.
LEMMA FileCallStep ==
  ASSUME VmCore, pc = "user", UNCHANGED vmvars, Files!FileCall
  PROVE  VmCore'
<1>1. /\ UNCHANGED memory /\ op' = op /\ pc' = pc
      /\ UNCHANGED <<brk, brk_max, vm_alloc_guess, demand_paging>>
  BY DEF vmvars, current
<1>2. FdsTyped'
  <2> DEFINE F == 0 .. MAX_FILES - 1
             D == 0 .. MAX_FDS - 1
  <2>1. \/ fds' = fds
        \/ \E d \in D, f \in F \cup {NULL} : fds' = [fds EXCEPT ![d] = f]
    <3>1. \/ \E f \in F, d \in D : fds' = [fds EXCEPT ![d] = f]
          \/ fds' = fds
          \/ \E d \in D : fds' = [fds EXCEPT ![d] = NULL]
          \/ \E d, e \in D : fds' = [fds EXCEPT ![e] = fds[d]]
      BY DEF Files!FileCall, Files!Openat, Files!OpenatNoFd, Files!OpenatRefused,
             Files!Close, Files!Dup, Files!Dup3, Files!File, Files!Fd, Files!NULL, NULL
    <3>2. \A d \in D : fds[d] \in F \cup {NULL}
      BY DEF VmCore, FdsTyped
    <3> QED
      BY <3>1, <3>2
  <2> QED
    BY <2>1 DEF VmCore, FdsTyped
<1>3. CallTypes' /\ OpSane' /\ LoopDone'
  BY <1>1 DEF VmCore, CallTypes, OpSane, LoopDone, InLoop, Stopped
<1>4. ToMap' = 0 /\ ToMap = 0
  BY <1>1 DEF ToMap
<1> QED
  BY <1>1, <1>2, <1>3, <1>4, StillStep

-----------------------------------------------------------------------------
(* Types and promises: every behaviour *)

\* The loaded program.
LEMMA VmCoreInit == Init => VmCore
<1> SUFFICES ASSUME Init
             PROVE  VmCore
  OBVIOUS
<1> DEFINE Loaded == ElfPages \cup StackPages
<1>1. PICK e \in Vmr, s \in Vmr, N \in SUBSET Vmr :
        /\ e # s /\ {e, s} \subseteq N
        /\ demand_paging \in Paging
        /\ pte = [p \in Page |->
                    IF p \notin ElfPages \cup StackPages THEN Zero
                    ELSE IF demand_paging
                         THEN Promise(IF p \in ElfPages THEN e ELSE s)
                         ELSE Leaf(Type(Perm))]
        /\ tables = ProgramTables
        /\ free = FreePages - Cardinality(tables) - 1
                  - (IF demand_paging THEN 0
                     ELSE Cardinality(ElfPages \cup StackPages))
        /\ vmr = [v \in Vmr |->
                    IF v \notin {e, s} \/ ~ demand_paging THEN NoRegion
                    ELSE [file |-> NULL, prot |-> Perm,
                          refcnt |-> Cardinality(IF v = e THEN ElfPages
                                                          ELSE StackPages)]]
        /\ vmrs = N
        /\ vmr_free = IF demand_paging THEN N \ {e, s} ELSE N
        /\ pages_promised = IF demand_paging
                            THEN Cardinality(ElfPages \cup StackPages) ELSE 0
        /\ brk = Highest(ElfPages) + 1
        /\ brk_max = NPages
        /\ vm_alloc_guess = Highest(StackPages) + 1
        /\ pc = "user"
        /\ op = NoOp
        /\ asked = [p \in Page |-> IF pte[p] = Zero THEN {} ELSE Perm]
        /\ Files!Init
  BY Zenon DEF Init
<1>2. /\ Loaded \subseteq Page
      /\ Cardinality(ElfPages) \in Nat /\ Cardinality(StackPages) \in Nat
      /\ Cardinality(Loaded) \in Nat
  BY Geometry, PagesFinite
<1>3. /\ ProgramTables \subseteq UNION {Tables(p) : p \in Page}
      /\ Cardinality(ProgramTables) \in Nat
  <2>1. IsFiniteSet(Loaded)
    BY <1>2, PagesFinite
  <2>2. IsFiniteSet({Tables(p) : p \in Loaded})
    <3> DEFINE f == [p \in Loaded |-> Tables(p)]
    <3>1. f \in Surjection(Loaded, {Tables(p) : p \in Loaded})
      BY DEF Surjection
    <3> QED
      BY <2>1, <3>1, FS_Surjection
  <2>3. IsFiniteSet(ProgramTables)
    BY <2>2, TablesFinite, FS_UNION DEF ProgramTables
  <2> QED
    BY <1>2, <2>3, FS_CardinalityType DEF ProgramTables
<1>4. demand_paging \in BOOLEAN
  BY <1>1, Geometry
<1>5. /\ \A v \in Vmr : Promise(v) \in Promises /\ Promise(v) \in Entry
      /\ Leaf(Type(Perm)) \in Leaves /\ Leaf(Type(Perm)) \in Entry /\ Zero \in Entry
  BY EntryKinds, TypeType DEF Promises
<1>6. pte \in [Page -> Entry]
  BY <1>1, <1>5
<1>7. NoRegion \in Region
  BY DEF NoRegion, Region
<1>8. vmr \in [Vmr -> Region]
  <2>1. \A n \in Nat : [file |-> NULL, refcnt |-> n, prot |-> Perm] \in Region
    BY DEF Region
  <2>2. ASSUME NEW v \in Vmr
        PROVE  vmr[v] \in Region
    <3>1. CASE v \notin {e, s} \/ ~ demand_paging
      BY <1>1, <1>7, <3>1
    <3>2. CASE v \in {e, s} /\ demand_paging
      <4>1. vmr[v] = [file |-> NULL, prot |-> Perm,
                      refcnt |-> Cardinality(IF v = e THEN ElfPages ELSE StackPages)]
        BY <1>1, <3>2
      <4>2. Cardinality(IF v = e THEN ElfPages ELSE StackPages) \in Nat
        BY <1>2
      <4> QED
        BY <4>1, <4>2 DEF Region
    <3> QED
      BY <3>1, <3>2
  <2>3. vmr = [v \in Vmr |-> vmr[v]]
    BY <1>1
  <2> QED
    BY <2>2, <2>3
<1>9. free \in Nat
  <2>1. /\ Cardinality(ProgramTables) + 1 + Cardinality(Loaded) <= FreePages
        /\ free = FreePages - Cardinality(ProgramTables) - 1
                  - (IF demand_paging THEN 0 ELSE Cardinality(Loaded))
    BY <1>1, LoadedAssumption
  <2> HIDE DEF Loaded
  <2> QED
    BY <1>2, <1>3, <2>1, Geometry
<1>10. MemTypes
  <2>1. vmrs \subseteq Vmr /\ vmr_free \subseteq vmrs
    BY <1>1
  <2>2. pages_promised \in Nat
    BY <1>1, <1>2
  <2>3. asked \in [Page -> SUBSET Perm]
    BY <1>1
  <2> QED
    BY <1>1, <1>3, <1>6, <1>8, <1>9, <2>1, <2>2, <2>3 DEF MemTypes
<1>11. CallTypes
  <2>1. \A p \in Page : p + 1 \in 0 .. NPages
    BY Geometry DEF Page
  <2>2. Highest(ElfPages) \in Page /\ Highest(StackPages) \in Page
    BY Geometry, HighestMax
  <2>3. /\ brk = Highest(ElfPages) + 1 /\ brk_max = NPages
        /\ vm_alloc_guess = Highest(StackPages) + 1
    BY <1>1
  <2>4. NPages \in 0 .. NPages
    BY Geometry
  <2>5. /\ brk \in 0 .. NPages /\ brk_max \in 0 .. NPages
        /\ vm_alloc_guess \in 0 .. NPages
    BY <2>1, <2>2, <2>3, <2>4
  <2> QED
    BY <1>1, <1>4, <2>5, NoOpType DEF CallTypes
<1>12. FdsTyped
  <2>1. fds = [d \in 0 .. MAX_FDS - 1 |-> IF d \in 0 .. 2 THEN d ELSE NULL]
    BY <1>1 DEF Files!Init, Files!Fd, Files!Stdio, Files!NULL, NULL
  <2>2. \A d \in 0 .. 2 : d \in 0 .. MAX_FILES - 1
    BY TablesAssumption
  <2> QED
    BY <2>1, <2>2 DEF FdsTyped
<1>13. OpSane /\ LoopDone
  BY <1>1, NoOpType DEF OpSane, LoopDone, InLoop, Stopped
<1>14. ToMap = 0
  BY <1>1 DEF ToMap
<1>15. \A v : Promised(v) = Cardinality({p \in Page : pte[p] = Promise(v)})
  <2>1. \A v : Cardinality({p \in Page : pte[p] = Promise(v)}) \in Nat
    BY PagesFinite
  <2> QED
    BY <1>14, <2>1 DEF Promised
<1>16. Cardinality({}) = 0
  BY FS_EmptySet
<1>17. PromisesExact
  <2>1. CASE ~ demand_paging
    <3>1. \A p \in Page : pte[p].tag # "vmr" /\ \A v \in Vmr : pte[p] # Promise(v)
      BY <1>1, <1>5, <1>6, <2>1, EntryKinds DEF Promises
    <3>2. /\ {p \in Page : pte[p].tag = "vmr"} = {}
          /\ \A v \in Vmr : {p \in Page : pte[p] = Promise(v)} = {}
      BY <3>1
    <3>3. vmrs \ vmr_free = {} /\ pages_promised = 0
      BY <1>1, <2>1
    <3> QED
      BY <1>14, <1>15, <1>16, <3>2, <3>3 DEF PromisesExact
  <2>2. CASE demand_paging
    <3>1. \A p \in Page : pte[p].tag = "vmr" <=> p \in Loaded
      BY <1>1, <1>5, <1>6, <2>2, EntryKinds
    <3>2. {p \in Page : pte[p].tag = "vmr"} = Loaded
      BY <1>2, <3>1
    <3>3. pages_promised = Cardinality({p \in Page : pte[p].tag = "vmr"}) + ToMap
      <4>1. pages_promised = Cardinality(Loaded)
        BY <1>1, <2>2
      <4>2. \A n \in Nat : n + 0 = n
        OBVIOUS
      <4> HIDE DEF Loaded
      <4>3. Cardinality({p \in Page : pte[p].tag = "vmr"}) + ToMap = Cardinality(Loaded) + 0
        BY <1>14, <3>2
      <4> QED
        BY <1>2, <4>1, <4>2, <4>3
    <3>4. \A p \in Page, v \in Vmr :
            pte[p] = Promise(v) <=> (v = e /\ p \in ElfPages) \/ (v = s /\ p \in StackPages)
      <4> TAKE p \in Page, v \in Vmr
      <4>1. Promise(v) # Zero
        BY <1>5, EntryKinds
      <4>2. CASE p \notin Loaded
        BY <1>1, <4>1, <4>2
      <4>3. CASE p \in ElfPages
        <5>1. pte[p] = Promise(e) /\ p \notin StackPages
          BY <1>1, <2>2, <4>3, Geometry
        <5> QED
          BY <4>3, <5>1, EntryKinds
      <4>4. CASE p \in StackPages
        <5>1. pte[p] = Promise(s) /\ p \notin ElfPages
          BY <1>1, <2>2, <4>4, Geometry
        <5> QED
          BY <4>4, <5>1, EntryKinds
      <4> QED
        BY <4>2, <4>3, <4>4
    <3>5. \A S \in SUBSET Page : S # {} => Cardinality(S) # 0
      BY PagesFinite, FS_EmptySet
    <3>6. ASSUME NEW v \in Vmr
          PROVE  IF v \in vmrs \ vmr_free
                 THEN vmr[v].refcnt = Promised(v) /\ Promised(v) > 0
                 ELSE Promised(v) = 0
      <4>0. v \in vmrs \ vmr_free <=> v \in {e, s}
        BY <1>1, <2>2
      <4>1. CASE v = e
        <5>1. {p \in Page : pte[p] = Promise(v)} = ElfPages
          BY <1>1, <3>4, <4>1, Geometry
        <5>2. vmr[v].refcnt = Cardinality(ElfPages)
          BY <1>1, <2>2, <4>1
        <5>3. Cardinality(ElfPages) > 0
          BY <1>2, <3>5, Geometry
        <5> QED
          BY <1>15, <4>0, <4>1, <5>1, <5>2, <5>3
      <4>2. CASE v = s
        <5>1. {p \in Page : pte[p] = Promise(v)} = StackPages
          BY <1>1, <3>4, <4>2, Geometry
        <5>2. vmr[v].refcnt = Cardinality(StackPages)
          BY <1>1, <2>2, <4>2
        <5>3. Cardinality(StackPages) > 0
          BY <1>2, <3>5, Geometry
        <5> QED
          BY <1>15, <4>0, <4>2, <5>1, <5>2, <5>3
      <4>3. CASE v \notin {e, s}
        <5>1. {p \in Page : pte[p] = Promise(v)} = {}
          BY <3>4, <4>3
        <5> QED
          BY <1>15, <1>16, <4>0, <4>3, <5>1
      <4> QED
        BY <4>1, <4>2, <4>3
    <3> QED
      BY <3>3, <3>6 DEF PromisesExact
  <2> QED
    BY <1>4, <2>1, <2>2
<1> QED
  BY <1>10, <1>11, <1>12, <1>13, <1>17 DEF VmCore

LEMMA VmCoreStep == VmCore /\ [Next]_vars => VmCore'
<1> SUFFICES ASSUME VmCore, [Next]_vars
             PROVE  VmCore'
  OBVIOUS
<1>1. CASE UNCHANGED vars
  <2>1. UNCHANGED memory /\ op' = op /\ pc' = pc
        /\ UNCHANGED <<brk, brk_max, vm_alloc_guess, demand_paging, fds>>
    BY <1>1 DEF vars, vmvars, filevars, current
  <2>2. CallTypes' /\ FdsTyped'
    BY <2>1 DEF VmCore, CallTypes, FdsTyped
  <2>3. OpSane' /\ LoopDone'
    BY <2>1 DEF VmCore, OpSane, LoopDone, InLoop, Stopped, memory
  <2>4. ToMap' = ToMap
    BY <2>1 DEF ToMap
  <2> QED
    BY <2>1, <2>2, <2>3, <2>4, StillStep
<1>2. CASE Kernel
  <2>1. CASE \E v \in Vmr, N \in SUBSET Vmr, a \in Page : AllocVmr(v, N, a)
    BY <2>1, AllocVmrStep
  <2>2. CASE MapPage
    BY <2>2, MapPageStep
  <2>3. CASE MapEnd \/ PopulateEnd
    BY <2>3, LoopEndStep
  <2>4. CASE PopulatePage
    BY <2>4, PopulatePageStep
  <2>5. CASE PopulatePastEnd
    <3>1. pc = "populate" /\ Panic("past end of file")
      BY <2>5 DEF PopulatePastEnd
    <3> QED
      BY <3>1, PanicStep
  <2>6. CASE GiveUp \/ Mapped \/ UnmapEnd \/ ProtectEnd
    BY <2>6, ReturnStep
  <2>7. CASE UnmapPage
    BY <2>7, UnmapPageStep
  <2>8. CASE ProtectLeaf \/ ProtectPromise
    BY <2>8, ProtectPageStep
  <2> QED
    BY <1>2, <2>1, <2>2, <2>3, <2>4, <2>5, <2>6, <2>7, <2>8 DEF Kernel
<1>3. CASE Program
  <2>1. CASE \E p \in Page, a \in Perm : Touch(p, a)
    BY <2>1, TouchStep
  <2>2. CASE \E p \in Page : TouchPastEnd(p) \/ \E a \in Perm : Segfault(p, a)
    <3>1. pc = "user" /\ (Panic("past end of file") \/ Panic("segfault"))
      BY <2>2 DEF TouchPastEnd, Segfault
    <3> QED
      BY <3>1, PanicStep
  <2>3. CASE \E p \in Page, n \in 1 .. NPages, prot \in Prots, fixed, populate \in BOOLEAN,
                d \in MapFds : Mmap(p, n, prot, fixed, populate, d)
    BY <2>3, MmapStep
  <2>4. CASE \E p \in Page, n \in 1 .. NPages, prot \in Prots :
               p + n <= NPages /\ EnterLoop("mprotect", p, p + n - 1, prot)
    <3>1. PICK p \in Page, n \in 1 .. NPages, prot \in Prots :
            p + n <= NPages /\ EnterLoop("mprotect", p, p + n - 1, prot)
      BY <2>4
    <3>2. p + n - 1 \in Page /\ p <= p + n - 1 /\ prot \in SUBSET Perm
      BY <3>1, Geometry DEF Page
    <3> QED
      BY <3>1, <3>2, EnterLoopStep
  <2>5. CASE \E p \in Page, n \in 1 .. NPages :
               p + n <= NPages /\ EnterLoop("munmap", p, p + n - 1, {})
    <3>1. PICK p \in Page, n \in 1 .. NPages :
            p + n <= NPages /\ EnterLoop("munmap", p, p + n - 1, {})
      BY <2>5
    <3>2. p + n - 1 \in Page /\ p <= p + n - 1
      BY <3>1, Geometry DEF Page
    <3> QED
      BY <3>1, <3>2, EnterLoopStep
  <2>6. CASE \E b \in 0 .. NPages : GrowBrk(b)
    BY <2>6, GrowBrkStep
  <2>7. CASE \E b \in 0 .. NPages : ShrinkBrk(b)
    <3>1. PICK b \in 0 .. NPages : ShrinkBrk(b)
      BY <2>7
    <3>2. b < brk /\ EnterLoop("brk", b, brk - 1, {})
      BY <3>1 DEF ShrinkBrk
    <3>3. brk \in 0 .. NPages
      BY DEF VmCore, CallTypes
    <3>4. b \in Page /\ brk - 1 \in Page /\ b <= brk - 1
      BY <3>2, <3>3, Geometry DEF Page
    <3>5. "brk" \in {"mprotect", "munmap", "brk"} /\ {} \in SUBSET Perm
      OBVIOUS
    <3> QED
      BY <3>2, <3>4, <3>5, EnterLoopStep
  <2>8. CASE UsesFiles /\ pc = "user" /\ UNCHANGED vmvars /\ Files!FileCall
    BY <2>8, FileCallStep
  <2> QED
    BY <1>3, <2>1, <2>2, <2>3, <2>4, <2>5, <2>6, <2>7, <2>8, Zenon DEF Program
<1> QED
  BY <1>1, <1>2, <1>3 DEF Next

\* The invariant of mmap.c that the theorems below share: types, the counts of
\* the regions, and where each call is in its loop.
THEOREM VmCoreInvariance == Spec => []VmCore
  BY VmCoreInit, VmCoreStep, PTL DEF Spec

\* Type correctness: every state of the memory map, the page tables and the
\* locals of the calls is as the code declares them.
THEOREM TypesKept == Spec => []TypeOK
<1>1. VmCore => TypeOK
  BY Types DEF VmCore
<1> QED
  BY <1>1, VmCoreInvariance, PTL

\* PromisesExact: a region of mmap.c lives exactly as long as a page refers to
\* it, and pages_promised counts the pages still to be faulted in.
THEOREM PromisesCounted == Spec => []PromisesExact
<1>1. VmCore => PromisesExact
  BY DEF VmCore
<1> QED
  BY <1>1, VmCoreInvariance, PTL

-----------------------------------------------------------------------------
(* Physical pages *)

\* PagesConserved, with the number of pages the regions are carved from.
Conserved ==
  \E k \in Nat :
    /\ Cardinality(vmrs) = k * VMRS_PER_PAGE
    /\ FreePages = free + Cardinality(tables) + k + Count(pte, Leaves)

LEMMA TablesFiniteSet ==
  ASSUME MemTypes
  PROVE  /\ IsFiniteSet(tables) /\ Cardinality(tables) \in Nat
         /\ IsFiniteSet(vmrs) /\ Cardinality(vmrs) \in Nat
<1> DEFINE f == [p \in Page |-> Tables(p)]
<1>1. f \in Surjection(Page, {Tables(p) : p \in Page})
  BY DEF Surjection
<1>2. IsFiniteSet({Tables(p) : p \in Page})
  BY <1>1, PagesFinite, FS_Surjection
<1>3. IsFiniteSet(UNION {Tables(p) : p \in Page})
  BY <1>2, TablesFinite, FS_UNION
<1>4. IsFiniteSet(tables) /\ IsFiniteSet(vmrs)
  BY <1>3, VmrAssumption, FS_Subset DEF MemTypes
<1> QED
  BY <1>4, FS_CardinalityType

\* A step that leaves the physical pages alone.
LEMMA ConservedStill ==
  ASSUME Conserved, UNCHANGED <<pte, tables, free, vmrs>>
  PROVE  Conserved'
  BY DEF Conserved, Count

\* One entry is replaced, and Cardinality(new) page tables are added.
LEMMA ConservedRedirect ==
  ASSUME VmCore, Conserved, NEW p \in Page, NEW e \in Entry, NEW avail,
         Redirect(p, e, avail), vmrs' = vmrs,
         NEW new, IsFiniteSet(new), new \cap tables = {}, tables' = tables \cup new,
         avail = free - Cardinality(new) - (IF e \in Leaves THEN 1 ELSE 0)
  PROVE  Conserved'
<1>1. MemTypes /\ PromisesExact /\ ToMap \in Nat
  BY ToMapType DEF VmCore
<1>2. /\ pte' = [pte EXCEPT ![p] = e]
      /\ free' = IF pte[p] \in Leaves THEN avail + 1 ELSE avail
  BY <1>1, RedirectMemory
<1>3. Count(pte', Leaves) = Count(pte, Leaves)
        - (IF pte[p] \in Leaves THEN 1 ELSE 0) + (IF e \in Leaves THEN 1 ELSE 0)
  BY <1>1, <1>2, RedirectCounts
<1>4. /\ Cardinality(new) \in Nat
      /\ Cardinality(tables') = Cardinality(tables) + Cardinality(new)
  <2>1. IsFiniteSet(tables) /\ Cardinality(tables) \in Nat
    BY <1>1, TablesFiniteSet
  <2>2. Cardinality(new) \in Nat /\ Cardinality(tables \cap new) = 0
    BY FS_CardinalityType, FS_EmptySet
  <2>3. Cardinality(tables \cup new)
          = Cardinality(tables) + Cardinality(new) - Cardinality(tables \cap new)
    BY <2>1, FS_Union
  <2> QED
    BY <2>1, <2>2, <2>3
<1>5. PICK k \in Nat :
        /\ Cardinality(vmrs) = k * VMRS_PER_PAGE
        /\ FreePages = free + Cardinality(tables) + k + Count(pte, Leaves)
  BY DEF Conserved
<1>6. /\ free \in Nat /\ Cardinality(tables) \in Nat
      /\ Count(pte, Leaves) \in Nat /\ Count(pte', Leaves) \in Nat
  BY <1>1, TablesFiniteSet, CountType DEF MemTypes
<1>7. FreePages = free' + Cardinality(tables') + k + Count(pte', Leaves)
  <2>1. free' = avail + (IF pte[p] \in Leaves THEN 1 ELSE 0)
    BY <1>2, <1>4, <1>6
  <2> QED
    BY <1>3, <1>4, <1>5, <1>6, <2>1
<1>8. Count(pte', Leaves) = Count(pte, Leaves)'
  BY DEF Count, Leaves
<1> QED
  BY <1>5, <1>7 DEF Conserved, Count

\* A page that is faulted in.
LEMMA ConservedFault ==
  ASSUME VmCore, Conserved, NEW p \in Page, pte[p].tag = "vmr", FaultIn(p),
         vmrs' = vmrs, tables' = tables
  PROVE  Conserved'
<1> DEFINE e == Leaf(Type(vmr[pte[p].vmr].prot))
<1>1. MemTypes
  BY DEF VmCore
<1>2. pte[p].vmr \in Vmr
  BY <1>1, EntryKinds DEF MemTypes
<1>3. vmr[pte[p].vmr].prot \in SUBSET Perm
  BY <1>1, <1>2 DEF MemTypes, Region
<1>4. e \in Leaves /\ e \in Entry
  BY <1>3, TypeType, EntryKinds
<1>5. Redirect(p, e, free - 1)
  BY FaultRedirects
<1>6. /\ IsFiniteSet({}) /\ {} \cap tables = {} /\ tables' = tables \cup {}
      /\ Cardinality({}) = 0
  BY FS_EmptySet
<1> HIDE DEF e
<1>7. free - 1 = free - Cardinality({}) - (IF e \in Leaves THEN 1 ELSE 0)
  BY <1>1, <1>4, <1>6 DEF MemTypes
<1> QED
  BY <1>4, <1>5, <1>6, <1>7, ConservedRedirect

\* A page of regions is carved.
LEMMA ConservedAlloc ==
  ASSUME VmCore, Conserved, NEW v \in Vmr, NEW N \in SUBSET Vmr, NEW a \in Page,
         AllocVmr(v, N, a)
  PROVE  Conserved'
<1>1. vmrs' = vmrs \cup N /\ UNCHANGED <<pte, tables>>
  BY DEF AllocVmr
<1>2. CASE vmr_free # {}
  <2>1. N = {} /\ free' = free
    BY <1>2 DEF AllocVmr
  <2> QED
    BY <1>1, <2>1, ConservedStill
<1>3. CASE vmr_free = {}
  <2>1. /\ N \cap vmrs = {} /\ Cardinality(N) = VMRS_PER_PAGE
        /\ free > 0 /\ free' = free - 1
    BY <1>3 DEF AllocVmr
  <2>2. PICK k \in Nat :
          /\ Cardinality(vmrs) = k * VMRS_PER_PAGE
          /\ FreePages = free + Cardinality(tables) + k + Count(pte, Leaves)
    BY DEF Conserved
  <2>3. MemTypes
    BY DEF VmCore
  <2>4. Cardinality(vmrs') = (k + 1) * VMRS_PER_PAGE
    <3>1. IsFiniteSet(N) /\ IsFiniteSet(vmrs)
      BY <2>3, VmrAssumption, FS_Subset, TablesFiniteSet
    <3>2. Cardinality(vmrs \cap N) = 0
      <4>1. vmrs \cap N = {}
        BY <2>1
      <4> QED
        BY <4>1, FS_EmptySet
    <3>3. Cardinality(vmrs \cup N)
            = Cardinality(vmrs) + Cardinality(N) - Cardinality(vmrs \cap N)
      BY <3>1, FS_Union
    <3>4. \A x, y \in Nat : (x + 1) * y = x * y + y - 0
      OBVIOUS
    <3>5. Cardinality(vmrs') = k * VMRS_PER_PAGE + VMRS_PER_PAGE - 0
      BY <1>1, <2>1, <2>2, <3>2, <3>3
    <3> QED
      BY <3>4, <3>5, Geometry
  <2>5. FreePages = free' + Cardinality(tables') + (k + 1) + Count(pte', Leaves)
    <3>1. free \in Nat /\ Cardinality(tables) \in Nat /\ Count(pte, Leaves) \in Nat
      BY <2>3, TablesFiniteSet, CountType DEF MemTypes
    <3> QED
      BY <1>1, <2>1, <2>2, <3>1
  <2> DEFINE j == k + 1
  <2>6. j \in Nat
    OBVIOUS
  <2>7. Cardinality(vmrs') = j * VMRS_PER_PAGE
    BY <2>4
  <2>8. FreePages = free' + Cardinality(tables') + j + Count(pte', Leaves)
    BY <2>5
  <2> HIDE DEF j
  <2> QED
    BY <2>6, <2>7, <2>8 DEF Conserved, Count
<1> QED
  BY <1>2, <1>3

LEMMA ConservedStep == VmCore /\ Conserved /\ [Next]_vars => Conserved'
<1> SUFFICES ASSUME VmCore, Conserved, [Next]_vars
             PROVE  Conserved'
  OBVIOUS
<1>0. /\ IsFiniteSet({}) /\ {} \cap tables = {} /\ tables = tables \cup {}
      /\ Cardinality({}) = 0
  BY FS_EmptySet
<1>1. CASE UNCHANGED <<pte, tables, free, vmrs>>
  BY <1>1, ConservedStill
<1>2. ASSUME NEW why, Panic(why)
      PROVE  Conserved'
  BY <1>1, <1>2 DEF Panic, memory
<1>3. CASE \E v \in Vmr, N \in SUBSET Vmr, a \in Page : AllocVmr(v, N, a)
  BY <1>3, ConservedAlloc
<1>4. CASE MapPage
  <2> DEFINE p == op.at
             new == Tables(p) \ tables
  <2>1. p <= op.last
    BY <1>4 DEF MapPage
  <2>2. p \in Page /\ MemTypes /\ OpSane
    BY <2>1, LoopPage
  <2>3. CASE Cardinality(new) > free
    <3>1. Panic("no page table")
      BY <1>4, <2>3 DEF MapPage
    <3> QED
      BY <1>2, <3>1
  <2>4. CASE ~ (Cardinality(new) > free)
    <3>1. /\ tables' = tables \cup new /\ vmrs' = vmrs
          /\ Redirect(p, Promise(op.v), free - Cardinality(new))
      BY <1>4, <2>4 DEF MapPage, Redirect
    <3>2. op.v \in Vmr
      BY <1>4, <2>2 DEF OpSane, MapPage
    <3>3. Promise(op.v) \in Entry /\ Promise(op.v) \notin Leaves
      BY <3>2, EntryKinds DEF Promises
    <3>4. IsFiniteSet(new) /\ Cardinality(new) \in Nat /\ new \cap tables = {}
      BY <2>2, TablesType DEF MemTypes
    <3> HIDE DEF new, p
    <3>5. free - Cardinality(new)
            = free - Cardinality(new) - (IF Promise(op.v) \in Leaves THEN 1 ELSE 0)
      BY <2>2, <3>3, <3>4 DEF MemTypes
    <3> QED
      BY <2>2, <3>1, <3>3, <3>4, <3>5, ConservedRedirect
  <2> QED
    BY <2>3, <2>4
<1>5. CASE PopulatePage
  <2>1. op.at <= op.last /\ pc = "populate"
    BY <1>5 DEF PopulatePage
  <2>2. op.at \in Page /\ LoopDone /\ op.at \in Nat /\ op.last \in Nat
    BY <2>1, LoopPage
  <2>3. pte[op.at].tag = "vmr"
    <3>1. op.at \in op.at .. op.last
      BY <2>1, <2>2
    <3>2. pte[op.at] = Promise(op.v)
      BY <2>1, <2>2, <3>1 DEF LoopDone
    <3> QED
      BY <3>2 DEF Promise
  <2>4. CASE free = 0
    <3>1. Panic("out of memory")
      BY <1>5, <2>4 DEF PopulatePage
    <3> QED
      BY <1>2, <3>1
  <2>5. CASE free # 0
    <3>1. FaultIn(op.at) /\ tables' = tables /\ vmrs' = vmrs
      BY <1>5, <2>5 DEF PopulatePage
    <3> QED
      BY <2>2, <2>3, <3>1, ConservedFault
  <2> QED
    BY <2>4, <2>5
<1>6. CASE \E p \in Page, a \in Perm : Touch(p, a)
  <2>1. PICK p \in Page, a \in Perm : Touch(p, a)
    BY <1>6
  <2>2. CASE free = 0
    <3>1. Panic("out of memory")
      BY <2>1, <2>2 DEF Touch
    <3> QED
      BY <1>2, <3>1
  <2>3. CASE free # 0
    <3>1. pte[p].tag = "vmr" /\ FaultIn(p) /\ tables' = tables /\ vmrs' = vmrs
      BY <2>1, <2>3 DEF Touch
    <3> QED
      BY <3>1, ConservedFault
  <2> QED
    BY <2>2, <2>3
<1>7. CASE UnmapPage
  <2>1. /\ op.at <= op.last /\ Redirect(op.at, Zero, free)
        /\ tables' = tables /\ vmrs' = vmrs
    BY <1>7 DEF UnmapPage, Redirect
  <2>2. op.at \in Page /\ MemTypes
    BY <2>1, LoopPage
  <2>3. Zero \in Entry /\ Zero \notin Leaves
    BY EntryKinds
  <2>4. free = free - Cardinality({}) - (IF Zero \in Leaves THEN 1 ELSE 0)
    BY <1>0, <2>2, <2>3 DEF MemTypes
  <2> QED
    BY <1>0, <2>1, <2>2, <2>3, <2>4, ConservedRedirect
<1>8. CASE ProtectLeaf
  <2> DEFINE e == Leaf(Type(op.prot))
  <2>1. /\ op.at <= op.last /\ pte[op.at].tag = "page"
        /\ pte' = [pte EXCEPT ![op.at] = e]
        /\ UNCHANGED <<tables, free, vmr, vmrs, vmr_free, pages_promised, refcnt, host>>
    BY <1>8 DEF ProtectLeaf, filevars
  <2>2. op.at \in Page /\ MemTypes /\ CallTypes
    BY <2>1, LoopPage
  <2>3. e \in Leaves /\ e \in Entry
    BY <2>2, CallTypesFacts, TypeType, EntryKinds
  <2> HIDE DEF e
  <2>4. free' = free - 1 + 1
    BY <2>1, <2>2 DEF MemTypes
  <2>5. Redirect(op.at, e, free - 1)
    BY <2>1, <2>4 DEF Redirect, Unmap
  <2>6. free - 1 = free - Cardinality({}) - (IF e \in Leaves THEN 1 ELSE 0)
    BY <1>0, <2>2, <2>3 DEF MemTypes
  <2> QED
    BY <1>0, <2>1, <2>2, <2>3, <2>5, <2>6, ConservedRedirect
<1>9. CASE \/ GiveUp \/ MapEnd \/ PopulateEnd \/ Mapped \/ UnmapEnd \/ ProtectPromise
           \/ ProtectEnd \/ UNCHANGED vars
  BY <1>1, <1>9 DEF GiveUp, MapEnd, PopulateEnd, Mapped, UnmapEnd, ProtectPromise,
                    ProtectEnd, vars, vmvars, memory
<1>10. CASE PopulatePastEnd
  BY <1>2, <1>10 DEF PopulatePastEnd
<1>11. CASE \E p \in Page : TouchPastEnd(p) \/ \E a \in Perm : Segfault(p, a)
  BY <1>2, <1>11 DEF TouchPastEnd, Segfault
<1>12. CASE /\ Program
            /\ ~ \E p \in Page : \/ \E a \in Perm : Touch(p, a) \/ Segfault(p, a)
                                 \/ TouchPastEnd(p)
  <2>1. UNCHANGED memory
    BY <1>12 DEF Program, Mmap, EnterLoop, GrowBrk, ShrinkBrk, vmvars
  <2> QED
    BY <1>1, <2>1 DEF memory
<1> QED
  BY <1>3, <1>4, <1>5, <1>6, <1>7, <1>8, <1>9, <1>10, <1>11, <1>12 DEF Next, Kernel

LEMMA ConservedInit == Init => Conserved
<1> SUFFICES ASSUME Init
             PROVE  Conserved
  OBVIOUS
<1> DEFINE Loaded == ElfPages \cup StackPages
           used == IF demand_paging THEN 0 ELSE Cardinality(Loaded)
<1>1. /\ Cardinality(vmrs) = VMRS_PER_PAGE
      /\ free = FreePages - Cardinality(tables) - 1 - used
      /\ demand_paging \in BOOLEAN
  BY Geometry DEF Init
<1>2. MemTypes
  BY VmCoreInit DEF VmCore
<1>3. Cardinality(tables) \in Nat /\ Cardinality(Loaded) \in Nat
  BY <1>2, TablesFiniteSet, Geometry, PagesFinite
<1>4. \A p \in Page : pte[p].tag = "page" <=> p \in Loaded /\ ~ demand_paging
  <2>1. /\ Zero.tag # "page" /\ Leaf(Type(Perm)).tag = "page"
        /\ \A v : Promise(v).tag # "page"
    BY DEF Zero, Leaf, Promise
  <2>2. PICK e \in Vmr, s \in Vmr :
          pte = [p \in Page |-> IF p \notin ElfPages \cup StackPages THEN Zero
                                ELSE IF demand_paging
                                     THEN Promise(IF p \in ElfPages THEN e ELSE s)
                                     ELSE Leaf(Type(Perm))]
    BY Zenon DEF Init
  <2> QED
    BY <1>1, <2>1, <2>2
<1>5. {p \in Page : pte[p].tag = "page"} = IF demand_paging THEN {} ELSE Loaded
  BY <1>1, <1>4, Geometry
<1>6. Count(pte, Leaves) = used
  <2>1. Count(pte, Leaves) = Cardinality({p \in Page : pte[p].tag = "page"})
    BY <1>2, Counts DEF MemTypes
  <2> QED
    BY <1>5, <2>1, FS_EmptySet
<1>7. Cardinality(vmrs) = 1 * VMRS_PER_PAGE
  BY <1>1, Geometry
<1>8. FreePages = free + Cardinality(tables) + 1 + used
  <2>1. used \in Nat
    BY <1>3
  <2> HIDE DEF used
  <2> QED
    BY <1>1, <1>3, <2>1, Geometry
<1> QED
  BY <1>6, <1>7, <1>8 DEF Conserved

LEMMA Whole == \A k \in Nat, n \in Nat \ {0} : (k * n) \div n = k
  OBVIOUS

\* PagesConserved: every physical page of pk/mmap.c is free, a page table, a
\* page of regions, or mapped once.
THEOREM NoPageLost == Spec => []PagesConserved
<1>1. VmCore /\ Conserved => PagesConserved
  <2> SUFFICES ASSUME VmCore, Conserved
               PROVE  PagesConserved
    OBVIOUS
  <2>1. PICK k \in Nat :
          /\ Cardinality(vmrs) = k * VMRS_PER_PAGE
          /\ FreePages = free + Cardinality(tables) + k + Count(pte, Leaves)
    BY DEF Conserved
  <2>2. Cardinality(vmrs) \div VMRS_PER_PAGE = k
    BY <2>1, Whole, Geometry
  <2>3. Cardinality({p \in Page : pte[p].tag = "page"}) = Count(pte, Leaves)
    BY Counts DEF VmCore, MemTypes
  <2> QED
    BY <2>1, <2>2, <2>3 DEF PagesConserved
<1> QED
  BY <1>1, ConservedInit, ConservedStep, VmCoreInvariance, PTL DEF Spec

-----------------------------------------------------------------------------
(* The room of the heap *)

\* The pages below b, from a on.
LEMMA Between ==
  ASSUME NEW a \in Nat, NEW b \in Nat
  PROVE  \A q : q \in a .. b - 1 <=> q \in Nat /\ a <= q /\ q < b
  OBVIOUS

\* Page p gets another entry, while the heap stays where it is.
LEMMA RoomEntry ==
  ASSUME MemTypes, CallTypes, RoomClear, ~ Stopped, brk' = brk, brk_max' = brk_max,
         NEW p \in Page, NEW e, pte' = [pte EXCEPT ![p] = e],
         \/ e = Zero
         \/ pte[p] # Zero
         \/ Mapping' /\ p \in op'.first .. op'.last,
         Mapping => Mapping' /\ op'.first = op.first /\ op'.last = op.last
  PROVE  RoomClear'
<1> SUFFICES ASSUME NEW q \in brk .. brk_max - 1
             PROVE  \/ pte'[q] = Zero
                    \/ q \in StackPages
                    \/ Mapping' /\ q \in op'.first .. op'.last
  BY DEF RoomClear
<1>1. \/ pte[q] = Zero
      \/ q \in StackPages
      \/ Mapping /\ q \in op.first .. op.last
  BY DEF RoomClear
<1>2. q \in Page
  <2>1. brk \in 0 .. NPages /\ brk_max \in 0 .. NPages
    BY DEF CallTypes
  <2>2. q \in Nat /\ q < NPages
    <3>1. brk \in Nat /\ brk_max \in Nat /\ brk_max <= NPages
      BY <2>1, Geometry
    <3>2. q \in Nat /\ q < brk_max
      BY <3>1, Between
    <3> QED
      BY <3>1, <3>2, Geometry
  <2> QED
    BY <2>2, Geometry DEF Page
<1>3. CASE q = p
  BY <1>1, <1>2, <1>3 DEF MemTypes
<1>4. CASE q # p
  BY <1>1, <1>2, <1>4 DEF MemTypes
<1> QED
  BY <1>3, <1>4

\* The page tables and the heap stay, and no mapping ends.
LEMMA RoomStill ==
  ASSUME RoomClear, ~ Stopped, UNCHANGED <<pte, brk, brk_max>>,
         Mapping => Mapping' /\ op'.first = op.first /\ op'.last = op.last
  PROVE  RoomClear'
  BY DEF RoomClear

\* The kernel stops.
LEMMA RoomStopped ==
  ASSUME Stopped'
  PROVE  RoomClear' /\ BrkCall'
  BY DEF Stopped, RoomClear, BrkCall, Mapping

\* The locals that BrkCall looks at stay.
LEMMA BrkCallStill ==
  ASSUME BrkCall, UNCHANGED <<brk, brk_max>>,
         op'.first = op.first, op'.last = op.last, op'.call = op.call,
         op'.fixed = op.fixed, pc' = pc \/ (Mapping /\ Mapping')
  PROVE  BrkCall'
<1>1. CASE pc' = pc
  BY <1>1 DEF BrkCall, Mapping
<1>2. CASE Mapping /\ Mapping'
  BY <1>2 DEF BrkCall, Mapping
<1> QED
  BY <1>1, <1>2

LEMMA RoomStep == VmCore /\ RoomClear /\ BrkCall /\ [Next]_vars => RoomClear' /\ BrkCall'
<1> SUFFICES ASSUME VmCore, RoomClear, BrkCall, [Next]_vars
             PROVE  RoomClear' /\ BrkCall'
  OBVIOUS
<1> DEFINE At(p) == op' = [op EXCEPT !.at = p]
<1>0. /\ MemTypes /\ CallTypes /\ OpSane /\ LoopDone
      /\ op.first \in Nat /\ op.last \in Nat /\ op.at \in Nat
      /\ brk \in Nat /\ brk_max \in Nat
  BY CallTypesFacts DEF VmCore
<1>1. ASSUME NEW n, op' = [op EXCEPT !.at = n]
      PROVE  /\ op'.first = op.first /\ op'.last = op.last /\ op'.call = op.call
             /\ op'.fixed = op.fixed
  BY <1>0, <1>1 DEF CallTypes, Op
<1>2. ASSUME NEW why \in {"out of memory", "no page table", "populate failed",
                          "past end of file", "segfault"}, Panic(why)
      PROVE  RoomClear' /\ BrkCall'
  BY <1>2, RoomStopped DEF Panic, Stopped
<1>3. CASE UNCHANGED <<pte, brk, brk_max, op, pc>>
  BY <1>3 DEF RoomClear, BrkCall, Stopped, Mapping
<1>4. CASE \E v \in Vmr, N \in SUBSET Vmr, a \in Page : AllocVmr(v, N, a)
  <2>1. PICK v \in Vmr, N \in SUBSET Vmr, a \in Page : AllocVmr(v, N, a)
    BY <1>4
  <2>2. /\ pc = "alloc" /\ pc' = "map"
        /\ IF op.fixed THEN a = op.first ELSE AllocVm(Npage, a)
        /\ op' = [op EXCEPT !.first = a, !.last = a + Npage - 1, !.at = a, !.v = v]
        /\ UNCHANGED <<pte, brk, brk_max>>
    BY <2>1 DEF AllocVmr, current
  <2>3. RoomClear'
    BY <2>2, RoomStill DEF Mapping, Stopped
  <2>4. /\ op'.first = a /\ op'.last = a + Npage - 1 /\ op'.call = op.call
        /\ op'.fixed = op.fixed
    BY <1>0, <2>2 DEF CallTypes, Op
  <2>5. op.call = "brk" => op'.first = op.first /\ op'.last = op.last
    BY <1>0, <2>2, <2>4 DEF BrkCall, Npage
  <2>6. BrkCall'
    BY <2>2, <2>4, <2>5 DEF BrkCall, Mapping
  <2> QED
    BY <2>3, <2>6
<1>5. CASE MapPage
  <2> DEFINE p == op.at
  <2>1. pc = "map" /\ p <= op.last
    BY <1>5 DEF MapPage
  <2>2. p \in Page
    BY <2>1, LoopPage
  <2>3. CASE Cardinality(Tables(p) \ tables) > free
    <3>1. Panic("no page table")
      BY <1>5, <2>3 DEF MapPage
    <3> QED
      BY <1>2, <3>1
  <2>4. CASE ~ (Cardinality(Tables(p) \ tables) > free)
    <3>1. /\ pte' = [pte EXCEPT ![p] = Promise(op.v)]
          /\ op' = [op EXCEPT !.at = p + 1]
          /\ pc' = pc /\ brk' = brk /\ brk_max' = brk_max
      BY <1>5, <2>4 DEF MapPage, current
    <3>2. Mapping /\ Mapping' /\ ~ Stopped
      BY <2>1, <3>1 DEF Mapping, Stopped
    <3>3. p \in op.first .. op.last
      BY <1>0, <2>1 DEF OpSane, InLoop
    <3> HIDE DEF p
    <3>4. RoomClear'
      BY <1>0, <1>1, <2>2, <3>1, <3>2, <3>3, RoomEntry
    <3>5. BrkCall'
      BY <1>1, <3>1, BrkCallStill
    <3> QED
      BY <3>4, <3>5
  <2> QED
    BY <2>3, <2>4
<1>6. CASE PopulatePage
  <2> DEFINE p == op.at
  <2>1. pc = "populate" /\ p <= op.last
    BY <1>6 DEF PopulatePage
  <2>2. p \in Page
    BY <2>1, LoopPage
  <2>3. CASE free = 0
    <3>1. Panic("out of memory")
      BY <1>6, <2>3 DEF PopulatePage
    <3> QED
      BY <1>2, <3>1
  <2>4. CASE free # 0 /\ pc' = "populate failed"
    BY <2>4, RoomStopped DEF Stopped
  <2>5. CASE free # 0 /\ pc' # "populate failed"
    <3>1. /\ pte' = [pte EXCEPT ![p] = Leaf(Type(vmr[pte[p].vmr].prot))]
          /\ op' = [op EXCEPT !.at = p + 1]
          /\ pc' = pc /\ brk' = brk /\ brk_max' = brk_max
      BY <1>6, <2>5 DEF PopulatePage, FaultIn, current
    <3>2. Mapping /\ Mapping' /\ ~ Stopped
      BY <2>1, <3>1 DEF Mapping, Stopped
    <3>3. p \in op.first .. op.last
      BY <1>0, <2>1 DEF OpSane, InLoop
    <3> HIDE DEF p
    <3>4. RoomClear'
      BY <1>0, <1>1, <2>2, <3>1, <3>2, <3>3, RoomEntry
    <3>5. BrkCall'
      BY <1>1, <3>1, BrkCallStill
    <3> QED
      BY <3>4, <3>5
  <2> QED
    BY <2>3, <2>4, <2>5
<1>7. CASE MapEnd \/ PopulateEnd
  <2>1. /\ UNCHANGED <<pte, brk, brk_max>>
        /\ Mapping /\ Mapping' /\ ~ Stopped
        /\ op' = op \/ op' = [op EXCEPT !.at = op.first]
    BY <1>7 DEF MapEnd, PopulateEnd, memory, current, Mapping, Stopped
  <2>2. /\ op'.first = op.first /\ op'.last = op.last /\ op'.call = op.call
        /\ op'.fixed = op.fixed
    BY <1>1, <2>1
  <2>3. RoomClear'
    BY <2>1, <2>2, RoomStill
  <2>4. BrkCall'
    BY <2>1, <2>2, BrkCallStill
  <2> QED
    BY <2>3, <2>4
<1>8. CASE Mapped
  <2>1. /\ pc = "mapped" /\ pc' = "user" /\ pte' = pte
        /\ Mapping /\ ~ Stopped /\ ~ Mapping'
    BY <1>8 DEF Mapped, memory, Mapping, Stopped
  <2>2. op.first <= op.last
    BY <1>0, <2>1 DEF OpSane
  <2>3. BrkCall'
    BY <2>1 DEF BrkCall, Mapping
  <2>4. \A q \in brk .. brk_max - 1 :
          pte[q] = Zero \/ q \in StackPages \/ q \in op.first .. op.last
    BY <2>1 DEF RoomClear
  <2>5. brk <= brk' /\ brk_max' <= brk_max
    <3>1. CASE op.call = "mmap"
      BY <1>0, <1>8, <3>1 DEF Mapped, LowerBrkMax
    <3>2. CASE op.call # "mmap"
      <4>1. op.first = brk
        BY <2>1, <3>2 DEF BrkCall, Mapping
      <4>2. brk' = op.last + 1 /\ brk_max' = brk_max
        BY <1>8, <3>2 DEF Mapped
      <4> QED
        BY <1>0, <2>2, <4>1, <4>2
    <3> QED
      BY <3>1, <3>2
  <2>6. brk' \in Nat /\ brk_max' \in Nat
    BY <1>0, <1>8 DEF Mapped, LowerBrkMax
  <2>7. \A q \in brk' .. brk_max' - 1 : q \notin op.first .. op.last
    <3>1. CASE op.call = "mmap"
      <4>1. brk_max' <= op.first
        BY <1>0, <1>8, <3>1 DEF Mapped, LowerBrkMax
      <4> TAKE q \in brk' .. brk_max' - 1
      <4>2. q \in Nat /\ q < brk_max'
        BY <2>6, Between
      <4>3. q < op.first
        BY <1>0, <2>6, <4>1, <4>2
      <4> QED
        BY <1>0, <4>2, <4>3
    <3>2. CASE op.call # "mmap"
      <4>1. brk' = op.last + 1
        BY <1>8, <3>2 DEF Mapped
      <4> QED
        BY <1>0, <2>6, <4>1
    <3> QED
      BY <3>1, <3>2
  <2>8. \A q \in brk' .. brk_max' - 1 : q \in brk .. brk_max - 1
    <3> TAKE q \in brk' .. brk_max' - 1
    <3>1. q \in Nat /\ q >= brk' /\ q < brk_max'
      BY <2>6, Between
    <3>2. brk <= q /\ q < brk_max
      BY <1>0, <2>5, <2>6, <3>1
    <3> QED
      BY <1>0, <3>1, <3>2, Between
  <2>9. RoomClear'
    BY <2>1, <2>4, <2>7, <2>8 DEF RoomClear
  <2> QED
    BY <2>3, <2>9
<1>9. CASE UnmapPage
  <2> DEFINE p == op.at
  <2>1. /\ pc = "unmap" /\ p <= op.last
        /\ pte' = [pte EXCEPT ![p] = Zero]
        /\ op' = [op EXCEPT !.at = p + 1]
        /\ pc' = pc /\ brk' = brk /\ brk_max' = brk_max
    BY <1>9 DEF UnmapPage, current
  <2>2. p \in Page /\ ~ Mapping /\ ~ Stopped
    BY <2>1, LoopPage DEF Mapping, Stopped
  <2> HIDE DEF p
  <2>3. RoomClear'
    BY <1>0, <2>1, <2>2, RoomEntry
  <2>4. BrkCall'
    BY <1>1, <2>1, BrkCallStill
  <2> QED
    BY <2>3, <2>4
<1>10. CASE UnmapEnd
  <2>1. /\ pc = "unmap" /\ op.at > op.last /\ pc' = "user" /\ pte' = pte
        /\ brk' = (IF op.call = "brk" THEN op.first ELSE brk) /\ brk_max' = brk_max
    BY <1>10 DEF UnmapEnd, memory
  <2>2. BrkCall'
    BY <2>1 DEF BrkCall, Mapping
  <2>3. \A q \in brk .. brk_max - 1 : pte[q] = Zero \/ q \in StackPages
    BY <2>1 DEF RoomClear, Mapping, Stopped
  <2>4. CASE op.call = "brk"
    <3>1. op.last = brk - 1 /\ brk' = op.first
      BY <2>1, <2>4 DEF BrkCall
    <3>2. op.at = op.last + 1
      BY <1>0, <2>1 DEF OpSane, InLoop
    <3>3. \A q \in op.first .. op.last : pte[q] = Zero
      BY <1>0, <2>1, <3>2 DEF LoopDone
    <3>4. \A q \in brk' .. brk_max' - 1 :
            q \in op.first .. op.last \/ q \in brk .. brk_max - 1
      BY <1>0, <2>1, <3>1
    <3>5. \A q \in brk' .. brk_max' - 1 : pte'[q] = Zero \/ q \in StackPages
      BY <2>1, <2>3, <3>3, <3>4
    <3>6. RoomClear'
      BY <3>5 DEF RoomClear
    <3> QED
      BY <2>2, <3>6
  <2>5. CASE op.call # "brk"
    <3>1. RoomClear'
      BY <2>1, <2>3, <2>5 DEF RoomClear
    <3> QED
      BY <2>2, <3>1
  <2> QED
    BY <2>4, <2>5
<1>11. CASE ProtectLeaf \/ ProtectPromise
  <2> DEFINE p == op.at
  <2>1. /\ pc = "protect" /\ p <= op.last
        /\ pte' = pte \/ (pte[p].tag = "page" /\ pte' = [pte EXCEPT ![p] = Leaf(Type(op.prot))])
        /\ op' = [op EXCEPT !.at = p + 1]
        /\ pc' = pc /\ brk' = brk /\ brk_max' = brk_max
    BY <1>11 DEF ProtectLeaf, ProtectPromise, current
  <2>2. p \in Page /\ ~ Mapping /\ ~ Stopped
    BY <2>1, LoopPage DEF Mapping, Stopped
  <2>3. pte[p].tag = "page" => pte[p] # Zero
    BY EntryKinds
  <2> HIDE DEF p
  <2>4. RoomClear'
    <3>1. CASE pte' = pte
      BY <2>1, <2>2, <3>1, RoomStill
    <3>2. CASE pte[p].tag = "page" /\ pte' = [pte EXCEPT ![p] = Leaf(Type(op.prot))]
      BY <1>0, <2>1, <2>2, <2>3, <3>2, RoomEntry
    <3> QED
      BY <2>1, <3>1, <3>2
  <2>5. BrkCall'
    BY <1>1, <2>1, BrkCallStill
  <2> QED
    BY <2>4, <2>5
<1>12. CASE GiveUp \/ ProtectEnd
  <2>1. /\ pc \in {"alloc", "protect"} /\ pc' = "user" /\ UNCHANGED <<pte, brk, brk_max>>
    BY <1>12 DEF GiveUp, ProtectEnd, memory, current
  <2>2. RoomClear'
    BY <2>1, RoomStill DEF Mapping, Stopped
  <2>3. BrkCall'
    BY <2>1 DEF BrkCall, Mapping
  <2> QED
    BY <2>2, <2>3
<1>13. CASE PopulatePastEnd \/ \E p \in Page : TouchPastEnd(p) \/ \E a \in Perm : Segfault(p, a)
  BY <1>2, <1>13 DEF PopulatePastEnd, TouchPastEnd, Segfault
<1>14. CASE \E p \in Page, a \in Perm : Touch(p, a)
  <2>1. PICK p \in Page, a \in Perm : Touch(p, a)
    BY <1>14
  <2>2. pc = "user" /\ pte[p].tag = "vmr"
    BY <2>1 DEF Touch
  <2>3. CASE free = 0
    <3>1. Panic("out of memory")
      BY <2>1, <2>3 DEF Touch
    <3> QED
      BY <1>2, <3>1
  <2>4. CASE free # 0
    <3>1. /\ pte' = [pte EXCEPT ![p] = Leaf(Type(vmr[pte[p].vmr].prot))]
          /\ pc' \in {"user", "segfault"} /\ op' = op
          /\ brk' = brk /\ brk_max' = brk_max
      BY <2>1, <2>4 DEF Touch, FaultIn, current
    <3>2. pte[p] # Zero /\ ~ Mapping /\ ~ Stopped
      BY <2>2, EntryKinds DEF Mapping, Stopped
    <3>3. RoomClear'
      BY <1>0, <3>1, <3>2, RoomEntry
    <3>4. BrkCall'
      BY <3>1 DEF BrkCall, Mapping
    <3> QED
      BY <3>3, <3>4
  <2> QED
    BY <2>3, <2>4
<1>15. CASE \E p \in Page, n \in 1 .. NPages, prot \in Prots, fixed, populate \in BOOLEAN,
               d \in MapFds : Mmap(p, n, prot, fixed, populate, d)
  <2>1. /\ pc = "user" /\ pc' = "alloc" /\ op'.call = "mmap"
        /\ UNCHANGED <<pte, brk, brk_max>>
    BY <1>15 DEF Mmap, memory, current
  <2>2. RoomClear'
    BY <2>1, RoomStill DEF Mapping, Stopped
  <2>3. BrkCall'
    BY <2>1 DEF BrkCall, Mapping
  <2> QED
    BY <2>2, <2>3
<1>16. CASE \E b \in 0 .. NPages : GrowBrk(b)
  <2>1. PICK b \in 0 .. NPages : GrowBrk(b)
    BY <1>16
  <2>2. /\ pc = "user" /\ pc' = "alloc" /\ op'.call = "brk"
        /\ op'.first = brk /\ op'.last = b - 1 /\ op'.fixed
        /\ b <= brk_max
        /\ UNCHANGED <<pte, brk, brk_max>>
    BY <2>1 DEF GrowBrk, memory, current
  <2>3. RoomClear'
    BY <2>2, RoomStill DEF Mapping, Stopped
  <2>4. op'.last < brk_max'
    BY <1>0, <2>2
  <2>5. BrkCall'
    BY <2>2, <2>4 DEF BrkCall, Mapping
  <2> QED
    BY <2>3, <2>5
<1>17. ASSUME NEW c \in {"mprotect", "munmap", "brk"}, NEW first, NEW last, NEW prot,
              EnterLoop(c, first, last, prot), c = "brk" => last = brk - 1
       PROVE  RoomClear' /\ BrkCall'
  <2>1. /\ pc = "user" /\ pc' \in {"protect", "unmap"}
        /\ op' = [NoOp EXCEPT !.call = c, !.first = first, !.last = last,
                              !.at = first, !.prot = prot]
        /\ UNCHANGED <<pte, brk, brk_max>>
    BY <1>17 DEF EnterLoop, memory, current
  <2>2. op'.call = c /\ op'.last = last
    BY <2>1 DEF NoOp
  <2>3. RoomClear'
    BY <2>1, RoomStill DEF Mapping, Stopped
  <2>4. BrkCall'
    BY <1>17, <2>1, <2>2 DEF BrkCall, Mapping
  <2> QED
    BY <2>3, <2>4
<1>18. CASE \E b \in 0 .. NPages : ShrinkBrk(b)
  BY <1>17, <1>18 DEF ShrinkBrk
<1>19. CASE UsesFiles /\ pc = "user" /\ UNCHANGED vmvars /\ Files!FileCall
  BY <1>3, <1>19 DEF vmvars, memory, current
<1>20. CASE UNCHANGED vars
  BY <1>3, <1>20 DEF vars, vmvars, memory, current
<1>21. CASE \E p \in Page, n \in 1 .. NPages, prot \in Prots :
              p + n <= NPages /\ EnterLoop("mprotect", p, p + n - 1, prot)
  BY <1>17, <1>21
<1>22. CASE \E p \in Page, n \in 1 .. NPages :
              p + n <= NPages /\ EnterLoop("munmap", p, p + n - 1, {})
  BY <1>17, <1>22
<1>23. CASE Kernel
  BY <1>4, <1>5, <1>6, <1>7, <1>8, <1>9, <1>10, <1>11, <1>12, <1>13, <1>23, Zenon DEF Kernel
<1>24. CASE Program
  BY <1>13, <1>14, <1>15, <1>16, <1>18, <1>19, <1>21, <1>22, <1>24, Zenon DEF Program
<1> QED
  BY <1>20, <1>23, <1>24 DEF Next

LEMMA RoomInit == Init => RoomClear /\ BrkCall
<1> SUFFICES ASSUME Init
             PROVE  RoomClear /\ BrkCall
  OBVIOUS
<1>1. /\ pc = "user" /\ brk = Highest(ElfPages) + 1 /\ brk_max = NPages
      /\ \A p \in Page : p \notin ElfPages \cup StackPages => pte[p] = Zero
  <2>1. PICK e \in Vmr, s \in Vmr :
          /\ pte = [p \in Page |-> IF p \notin ElfPages \cup StackPages THEN Zero
                                   ELSE IF demand_paging
                                        THEN Promise(IF p \in ElfPages THEN e ELSE s)
                                        ELSE Leaf(Type(Perm))]
          /\ pc = "user" /\ brk = Highest(ElfPages) + 1 /\ brk_max = NPages
    BY Zenon DEF Init
  <2> QED
    BY <2>1
<1>2. \A q \in ElfPages : q <= Highest(ElfPages)
  BY Geometry, HighestMax
<1>3. Highest(ElfPages) \in Nat
  BY Geometry, HighestMax
<1>4. \A q \in brk .. brk_max - 1 : pte[q] = Zero \/ q \in StackPages
  <2> TAKE q \in brk .. brk_max - 1
  <2>1. q \in Nat /\ q < NPages /\ q > Highest(ElfPages)
    BY <1>1, <1>3, Geometry
  <2>2. q \in Page
    BY <2>1, Geometry DEF Page
  <2>3. q \notin ElfPages
    BY <1>2, <1>3, <2>1
  <2> QED
    BY <1>1, <2>2, <2>3
<1>5. RoomClear
  BY <1>4 DEF RoomClear
<1>6. BrkCall
  BY <1>1 DEF BrkCall, Mapping
<1> QED
  BY <1>5, <1>6

\* BrkRoomClear: between calls the room brk may grow into holds nothing the
\* program mapped, so that __do_brk, which maps with MAP_FIXED, replaces
\* nothing.
THEOREM HeapRoomClear == Spec => []BrkRoomClear
<1>1. RoomClear => BrkRoomClear
  BY DEF RoomClear, BrkRoomClear, Stopped, Mapping
<1> QED
  BY <1>1, RoomInit, RoomStep, VmCoreInvariance, PTL DEF Spec

-----------------------------------------------------------------------------
(* Rights *)

\* The rights that entry e gives, with region regions[v] behind Promise(v).
EntryType(e, regions) ==
  CASE e.tag = "zero" -> {}
    [] e.tag = "page" -> e.type
    [] e.tag = "vmr"  -> Type(regions[e.vmr].prot)

\* A page of this type allows no more than these rights.
Within(type, rights) ==
  \A a \in Perm :
    Allows(Leaf(type), Type({a})) => a \in rights \/ (a = "R" /\ "W" \in rights)

LEMMA RightsEach ==
  RightsAsked <=>
    \A p \in Page : pte[p] # Zero => Within(EntryType(pte[p], vmr), asked[p])
  BY DEF RightsAsked, Within, EntryType

LEMMA WithinOwn == \A prot \in SUBSET Perm : Within(Type(prot), prot)
  BY DEF Within, Allows, Leaf, Type, Perm

\* Fewer rights allow less.
LEMMA WithinLess ==
  ASSUME NEW less \in SUBSET Perm, NEW prot \in SUBSET Perm, less \subseteq prot,
         NEW rights, Within(Type(prot), rights)
  PROVE  Within(Type(less), rights)
<1>1. ASSUME NEW a \in Perm, Allows(Leaf(Type(less)), Type({a}))
      PROVE  Allows(Leaf(Type(prot)), Type({a}))
  BY <1>1 DEF Allows, Leaf, Type, Perm
<1> QED
  BY <1>1 DEF Within

LEMMA EntryTypes ==
  /\ \A t, regions : EntryType(Leaf(t), regions) = t
  /\ \A v, regions : EntryType(Promise(v), regions) = Type(regions[v].prot)
<1>1. /\ \A t : Leaf(t).tag = "page" /\ Leaf(t).type = t
      /\ \A v : Promise(v).tag = "vmr" /\ Promise(v).vmr = v
  BY DEF Leaf, Promise
<1> QED
  BY <1>1 DEF EntryType

LEMMA CoreFacts == VmCore => MemTypes /\ PromisesExact /\ ToMap \in Nat
  BY ToMapType DEF VmCore

LEMMA CoreFactsNext == VmCore' => MemTypes' /\ PromisesExact' /\ ToMap' \in Nat
<1>1. (VmCore => MemTypes /\ PromisesExact /\ ToMap \in Nat)'
  BY CoreFacts, PTL
<1> QED
  BY <1>1

\* Entries that stay keep their rights when the regions still in use keep
\* theirs.
LEMMA RightsStay ==
  ASSUME VmCore, VmCore', RightsAsked, NEW q \in Page, pte'[q] = pte[q],
         asked'[q] = asked[q], pte'[q] # Zero,
         \A v \in Vmr : v \in Used /\ v \in Used' => vmr'[v].prot = vmr[v].prot
  PROVE  Within(EntryType(pte'[q], vmr'), asked'[q])
<1>1. pte[q] \in Entry /\ MemTypes /\ PromisesExact /\ ToMap \in Nat
  BY ToMapType DEF VmCore, MemTypes
<1>2. Within(EntryType(pte[q], vmr), asked[q])
  BY RightsEach
<1>3. CASE pte[q] \in Promises
  <2>1. pte[q] = Promise(pte[q].vmr) /\ pte[q].vmr \in Used /\ pte[q].vmr \in Vmr
    BY <1>1, <1>3, PromiseUsed, EntryKinds
  <2>2. pte[q].vmr \in Used'
    <3>1. MemTypes' /\ PromisesExact' /\ ToMap' \in Nat
      BY CoreFactsNext
    <3> QED
      BY <2>1, <3>1, StillUsed
  <2>3. vmr'[pte[q].vmr].prot = vmr[pte[q].vmr].prot
    BY <2>1, <2>2
  <2> QED
    BY <1>2, <2>1, <2>3, EntryTypes
<1>4. CASE pte[q] \in Leaves
  <2>1. pte[q] = Leaf(pte[q].type)
    BY <1>4, EntryKinds
  <2> QED
    BY <1>2, <2>1, EntryTypes
<1> QED
  BY <1>1, <1>3, <1>4, EntryKinds

LEMMA RightsEachNext ==
  RightsAsked' <=>
    \A p \in Page : pte'[p] # Zero => Within(EntryType(pte'[p], vmr'), asked'[p])
  BY DEF RightsAsked, Within, EntryType

\* One entry is replaced by one that gives what was asked for.
LEMMA RightsRedirect ==
  ASSUME VmCore, VmCore', RightsAsked, NEW p \in Page, NEW e \in Entry, NEW avail,
         Redirect(p, e, avail), vmrs' = vmrs,
         \A q \in Page : q # p => asked'[q] = asked[q],
         e # Zero => Within(EntryType(e, vmr'), asked'[p])
  PROVE  RightsAsked'
<1> SUFFICES ASSUME NEW q \in Page, pte'[q] # Zero
             PROVE  Within(EntryType(pte'[q], vmr'), asked'[q])
  BY RightsEachNext
<1>1. MemTypes /\ PromisesExact /\ ToMap \in Nat
  BY CoreFacts
<1>2. /\ pte' = [pte EXCEPT ![p] = e] /\ pte \in [Page -> Entry]
      /\ \A v \in Used' : vmr'[v].prot = vmr[v].prot
  BY <1>1, RedirectMemory DEF MemTypes
<1>3. CASE q = p
  BY <1>2, <1>3
<1>4. CASE q # p
  <2>1. pte'[q] = pte[q]
    BY <1>2, <1>4
  <2> QED
    BY <1>2, <1>4, <2>1, RightsStay
<1> QED
  BY <1>3, <1>4

\* A page that is faulted in has the rights of its region.
LEMMA RightsFault ==
  ASSUME VmCore, VmCore', RightsAsked, NEW p \in Page, pte[p].tag = "vmr",
         FaultIn(p), vmrs' = vmrs, asked' = asked
  PROVE  RightsAsked'
<1> DEFINE w == pte[p].vmr
           e == Leaf(Type(vmr[w].prot))
<1>1. MemTypes
  BY CoreFacts
<1>2. pte[p] = Promise(w) /\ w \in Vmr /\ pte[p] # Zero
  BY <1>1, EntryKinds DEF MemTypes
<1>3. vmr[w].prot \in SUBSET Perm
  BY <1>1, <1>2 DEF MemTypes, Region
<1>4. e \in Entry
  BY <1>3, TypeType, EntryKinds
<1>5. Redirect(p, e, free - 1)
  BY FaultRedirects
<1>6. Within(Type(vmr[w].prot), asked[p])
  BY <1>2, RightsEach, EntryTypes
<1>7. Within(EntryType(e, vmr'), asked'[p])
  BY <1>6, EntryTypes
<1> HIDE DEF e
<1> QED
  BY <1>4, <1>5, <1>7, RightsRedirect

\* The memory map stays, but for asked and regions not in use.
LEMMA RightsStill ==
  ASSUME VmCore, VmCore', RightsAsked, pte' = pte, asked' = asked,
         \A v \in Vmr : v \in Used /\ v \in Used' => vmr'[v].prot = vmr[v].prot
  PROVE  RightsAsked'
<1> SUFFICES ASSUME NEW q \in Page, pte'[q] # Zero
             PROVE  Within(EntryType(pte'[q], vmr'), asked'[q])
  BY RightsEachNext
<1> QED
  BY RightsStay

\* A page of the mapping loop.
LEMMA RightsMap ==
  ASSUME VmCore, VmCore', RightsAsked, MapPage, ~ (Cardinality(Tables(op.at) \ tables) > free)
  PROVE  RightsAsked'
<1> DEFINE p == op.at
<1>1. /\ pc = "map" /\ p <= op.last /\ vmrs' = vmrs
      /\ Redirect(p, Promise(op.v), free - Cardinality(Tables(p) \ tables))
      /\ asked' = [asked EXCEPT ![p] = op.prot]
      /\ pte' = [pte EXCEPT ![p] = Promise(op.v)]
  BY DEF MapPage, Redirect
<1>2. p \in Page /\ MemTypes /\ OpSane /\ PromisesExact /\ ToMap \in Nat /\ CallTypes
  BY <1>1, LoopPage, CoreFacts
<1>3. op.v \in Vmr /\ vmr[op.v].prot = op.prot /\ op.prot \in SUBSET Perm
  BY <1>1, <1>2, CallTypesFacts DEF OpSane
<1>4. Promise(op.v) \in Entry
  BY <1>3, EntryKinds DEF Promises
<1> HIDE DEF p
<1>5. pte'[p] = Promise(op.v)
  BY <1>1, <1>2 DEF MemTypes
<1>6. op.v \in Used'
  BY <1>2, <1>3, <1>5, StillUsed, CoreFactsNext
<1>7. vmr'[op.v].prot = op.prot
  <2>1. \A v \in Used' : vmr'[v].prot = vmr[v].prot
    BY <1>1, <1>2, <1>4, RedirectMemory
  <2> QED
    BY <1>3, <1>6, <2>1
<1>8. asked'[p] = op.prot /\ \A q \in Page : q # p => asked'[q] = asked[q]
  BY <1>1, <1>2 DEF MemTypes
<1>9. Within(EntryType(Promise(op.v), vmr'), asked'[p])
  BY <1>3, <1>7, <1>8, WithinOwn, EntryTypes
<1> QED
  BY <1>1, <1>2, <1>4, <1>8, <1>9, RightsRedirect

\* The rights of a region shrink.
LEMMA RightsProtectPromise ==
  ASSUME VmCore, VmCore', RightsAsked, ProtectPromise
  PROVE  RightsAsked'
<1> DEFINE p == op.at
           w == pte[p].vmr
<1>1. /\ pc = "protect" /\ p <= op.last /\ pte[p].tag = "vmr" /\ ~ Refuses(p)
      /\ vmr' = [vmr EXCEPT ![w].prot = op.prot]
      /\ asked' = [asked EXCEPT ![p] = op.prot]
      /\ UNCHANGED <<pte, vmrs, vmr_free>>
  BY DEF ProtectPromise
<1>2. p \in Page /\ MemTypes /\ CallTypes
  BY <1>1, LoopPage
<1>3. pte[p] = Promise(w) /\ w \in Vmr /\ op.prot \in SUBSET Perm
  BY <1>1, <1>2, EntryKinds, CallTypesFacts DEF MemTypes
<1>4. op.prot \subseteq vmr[w].prot /\ vmr[w].prot \in SUBSET Perm
  <2>1. op.prot \subseteq vmr[w].prot
    BY <1>1 DEF Refuses
  <2> QED
    BY <1>2, <1>3, <2>1 DEF MemTypes, Region
<1> HIDE DEF w, p
<1>5. /\ vmr'[w].prot = op.prot
      /\ \A v \in Vmr : v # w => vmr'[v] = vmr[v]
  BY <1>1, <1>2, <1>3 DEF MemTypes, Region
<1> SUFFICES ASSUME NEW q \in Page, pte'[q] # Zero
             PROVE  Within(EntryType(pte'[q], vmr'), asked'[q])
  BY RightsEachNext
<1>6. pte'[q] = pte[q] /\ pte[q] \in Entry
  BY <1>1, <1>2 DEF MemTypes
<1>7. CASE q = p
  <2>1. EntryType(pte'[q], vmr') = Type(op.prot)
    BY <1>3, <1>5, <1>6, <1>7, EntryTypes
  <2>2. asked'[q] = op.prot
    BY <1>1, <1>2, <1>7 DEF MemTypes
  <2> QED
    BY <1>3, <2>1, <2>2, WithinOwn
<1>8. CASE q # p /\ pte[q] = Promise(w)
  <2>1. EntryType(pte'[q], vmr') = Type(op.prot)
    BY <1>5, <1>6, <1>8, EntryTypes
  <2>2. Within(Type(vmr[w].prot), asked[q])
    <3>1. Within(EntryType(pte[q], vmr), asked[q])
      BY <1>6, RightsEach
    <3> QED
      BY <1>8, <3>1, EntryTypes
  <2>3. asked'[q] = asked[q]
    BY <1>1, <1>2, <1>8 DEF MemTypes
  <2> QED
    BY <1>3, <1>4, <2>1, <2>2, <2>3, WithinLess
<1>9. CASE q # p /\ pte[q] # Promise(w)
  <2>1. asked'[q] = asked[q]
    BY <1>1, <1>2, <1>9 DEF MemTypes
  <2>2. Within(EntryType(pte[q], vmr), asked[q])
    BY <1>6, RightsEach
  <2>3. EntryType(pte[q], vmr') = EntryType(pte[q], vmr)
    <3>1. CASE pte[q] \in Promises
      <4>1. pte[q] = Promise(pte[q].vmr) /\ pte[q].vmr \in Vmr
        BY <3>1, EntryKinds
      <4>2. vmr'[pte[q].vmr] = vmr[pte[q].vmr]
        BY <1>5, <1>9, <4>1
      <4> QED
        BY <4>1, <4>2, EntryTypes
    <3>2. CASE pte[q] \in Leaves
      <4>1. pte[q] = Leaf(pte[q].type)
        BY <3>2, EntryKinds
      <4> QED
        BY <4>1, EntryTypes
    <3> QED
      BY <1>6, <3>1, <3>2, EntryKinds
  <2> QED
    BY <1>6, <2>1, <2>2, <2>3
<1> QED
  BY <1>7, <1>8, <1>9

LEMMA RightsStep == VmCore /\ VmCore' /\ RightsAsked /\ [Next]_vars => RightsAsked'
<1> SUFFICES ASSUME VmCore, VmCore', RightsAsked, [Next]_vars
             PROVE  RightsAsked'
  OBVIOUS
<1>1. CASE UNCHANGED memory
  BY <1>1, RightsStill DEF memory
<1>2. ASSUME NEW why, Panic(why)
      PROVE  RightsAsked'
  BY <1>1, <1>2 DEF Panic
<1>3. CASE \E v \in Vmr, N \in SUBSET Vmr, a \in Page : AllocVmr(v, N, a)
  <2>1. PICK v \in Vmr, N \in SUBSET Vmr, a \in Page : AllocVmr(v, N, a)
    BY <1>3
  <2>2. /\ vmr' = [vmr EXCEPT ![v] =
                     [file |-> op.file, refcnt |-> Npage, prot |-> op.prot]]
        /\ pte' = pte /\ asked' = asked
    BY <2>1 DEF AllocVmr
  <2>3. v \notin Used
    BY <2>1 DEF AllocVmr, Used
  <2>4. \A w \in Vmr : w # v => vmr'[w] = vmr[w]
    BY <2>2, CoreFacts DEF MemTypes
  <2> QED
    BY <2>2, <2>3, <2>4, RightsStill
<1>4. CASE MapPage
  <2>1. CASE Cardinality(Tables(op.at) \ tables) > free
    <3>1. Panic("no page table")
      BY <1>4, <2>1 DEF MapPage
    <3> QED
      BY <1>2, <3>1
  <2> QED
    BY <1>4, <2>1, RightsMap
<1>5. CASE PopulatePage
  <2>1. op.at <= op.last /\ pc = "populate"
    BY <1>5 DEF PopulatePage
  <2>2. op.at \in Page /\ LoopDone /\ op.at \in Nat /\ op.last \in Nat
    BY <2>1, LoopPage
  <2>3. pte[op.at].tag = "vmr"
    <3>1. op.at \in op.at .. op.last
      BY <2>1, <2>2
    <3>2. pte[op.at] = Promise(op.v)
      BY <2>1, <2>2, <3>1 DEF LoopDone
    <3> QED
      BY <3>2 DEF Promise
  <2>4. CASE free = 0
    <3>1. Panic("out of memory")
      BY <1>5, <2>4 DEF PopulatePage
    <3> QED
      BY <1>2, <3>1
  <2>5. CASE free # 0
    <3>1. FaultIn(op.at) /\ vmrs' = vmrs /\ asked' = asked
      BY <1>5, <2>5 DEF PopulatePage
    <3> QED
      BY <2>2, <2>3, <3>1, RightsFault
  <2> QED
    BY <2>4, <2>5
<1>6. CASE \E p \in Page, a \in Perm : Touch(p, a)
  <2>1. PICK p \in Page, a \in Perm : Touch(p, a)
    BY <1>6
  <2>2. CASE free = 0
    <3>1. Panic("out of memory")
      BY <2>1, <2>2 DEF Touch
    <3> QED
      BY <1>2, <3>1
  <2>3. CASE free # 0
    <3>1. pte[p].tag = "vmr" /\ FaultIn(p) /\ vmrs' = vmrs /\ asked' = asked
      BY <2>1, <2>3 DEF Touch
    <3> QED
      BY <3>1, RightsFault
  <2> QED
    BY <2>2, <2>3
<1>7. CASE UnmapPage
  <2>1. /\ op.at <= op.last /\ Redirect(op.at, Zero, free)
        /\ vmrs' = vmrs /\ asked' = [asked EXCEPT ![op.at] = {}]
    BY <1>7 DEF UnmapPage, Redirect
  <2>2. op.at \in Page /\ MemTypes /\ Zero \in Entry
    BY <2>1, LoopPage, EntryKinds
  <2>3. \A q \in Page : q # op.at => asked'[q] = asked[q]
    BY <2>1, <2>2 DEF MemTypes
  <2> QED
    BY <2>1, <2>2, <2>3, RightsRedirect
<1>8. CASE ProtectLeaf
  <2> DEFINE e == Leaf(Type(op.prot))
  <2>1. /\ op.at <= op.last /\ pte[op.at].tag = "page"
        /\ pte' = [pte EXCEPT ![op.at] = e]
        /\ asked' = [asked EXCEPT ![op.at] = op.prot]
        /\ UNCHANGED <<free, vmr, vmrs, vmr_free, pages_promised, refcnt, host>>
    BY <1>8 DEF ProtectLeaf, filevars
  <2>2. op.at \in Page /\ MemTypes /\ CallTypes
    BY <2>1, LoopPage
  <2>3. e \in Entry /\ op.prot \in SUBSET Perm
    BY <2>2, CallTypesFacts, TypeType, EntryKinds
  <2>4. free' = free - 1 + 1
    BY <2>1, <2>2 DEF MemTypes
  <2>5. Redirect(op.at, e, free - 1)
    BY <2>1, <2>4 DEF Redirect, Unmap
  <2>6. asked'[op.at] = op.prot /\ \A q \in Page : q # op.at => asked'[q] = asked[q]
    BY <2>1, <2>2 DEF MemTypes
  <2>7. Within(EntryType(e, vmr'), asked'[op.at])
    BY <2>3, <2>6, WithinOwn, EntryTypes
  <2> HIDE DEF e
  <2> QED
    BY <2>1, <2>2, <2>3, <2>5, <2>6, <2>7, RightsRedirect
<1>9. CASE ProtectPromise
  BY <1>9, RightsProtectPromise
<1>10. CASE GiveUp \/ MapEnd \/ PopulateEnd \/ Mapped \/ UnmapEnd \/ ProtectEnd \/ UNCHANGED vars
  BY <1>1, <1>10 DEF GiveUp, MapEnd, PopulateEnd, Mapped, UnmapEnd, ProtectEnd, vars, vmvars
<1>11. CASE PopulatePastEnd
  BY <1>2, <1>11 DEF PopulatePastEnd
<1>12. CASE \E p \in Page : TouchPastEnd(p) \/ \E a \in Perm : Segfault(p, a)
  BY <1>2, <1>12 DEF TouchPastEnd, Segfault
<1>13. CASE /\ Program
            /\ ~ \E p \in Page : \/ \E a \in Perm : Touch(p, a) \/ Segfault(p, a)
                                 \/ TouchPastEnd(p)
  <2>1. UNCHANGED memory
    BY <1>13 DEF Program, Mmap, EnterLoop, GrowBrk, ShrinkBrk, vmvars
  <2> QED
    BY <1>1, <2>1
<1> QED
  BY <1>3, <1>4, <1>5, <1>6, <1>7, <1>8, <1>9, <1>10, <1>11, <1>12, <1>13 DEF Next, Kernel

LEMMA RightsInit == Init => RightsAsked
<1> SUFFICES ASSUME Init, NEW p \in Page, pte[p] # Zero
             PROVE  Within(EntryType(pte[p], vmr), asked[p])
  BY RightsEach
<1>1. asked[p] = Perm
  BY DEF Init
<1> QED
  BY <1>1 DEF Within

\* RightsAsked: no page ever permits an access that the last mmap, brk or
\* mprotect to cover it did not ask for, though mprotect changes the rights
\* that the pages of a region share.
THEOREM NoRightGained == Spec => []RightsAsked
  BY RightsInit, RightsStep, VmCoreInvariance, PTL DEF Spec

-----------------------------------------------------------------------------
(* The promise of mmap *)

\* Nothing the kernel promised has failed, and nothing will.
Kept == ProgramTables \subseteq tables /\ Reserved /\ PromiseKept

MapLoop == pc = "map"
MissingNow == IF MapLoop THEN Cardinality(Missing(op.at, op.last, tables)) ELSE 0

LEMMA MissingFinite ==
  ASSUME NEW a \in Nat, NEW b \in Nat, NEW T
  PROVE  IsFiniteSet(Missing(a, b, T)) /\ Cardinality(Missing(a, b, T)) \in Nat
<1> DEFINE f == [p \in a .. b |-> Tables(p)]
<1>1. IsFiniteSet(a .. b)
  BY FS_Interval
<1>2. f \in Surjection(a .. b, {Tables(p) : p \in a .. b})
  BY DEF Surjection
<1>3. IsFiniteSet({Tables(p) : p \in a .. b})
  BY <1>1, <1>2, FS_Surjection
<1>4. IsFiniteSet(UNION {Tables(p) : p \in a .. b})
  BY <1>3, TablesFinite, FS_UNION
<1>5. IsFiniteSet(Missing(a, b, T))
  <2>1. Missing(a, b, T) \subseteq UNION {Tables(p) : p \in a .. b}
    BY DEF Missing
  <2> QED
    BY <1>4, <2>1, FS_Subset
<1> QED
  BY <1>5, FS_CardinalityType

LEMMA MissingMember ==
  \A a, b, T, x : x \in Missing(a, b, T) <=> x \notin T /\ \E p \in a .. b : x \in Tables(p)
  BY DEF Missing

LEMMA ReservedNow ==
  /\ Reserved <=> (~ Stopped => free >= pages_promised + MissingNow)
  /\ VmCore => MissingNow \in Nat
<1>1. VmCore => MissingNow \in Nat
  BY CallTypesFacts, MissingFinite DEF VmCore, MissingNow, MapLoop
<1> QED
  BY <1>1 DEF Reserved, MissingNow, MapLoop

LEMMA PromiseKeptStopped ==
  PromiseKept => (Stopped <=> pc \in {"past end of file", "segfault"})
  BY DEF PromiseKept, Stopped

\* The promise is kept by a step with no more promised, no fewer pages free,
\* and nothing to map.
LEMMA KeptStill ==
  ASSUME VmCore, Kept, ~ Stopped, PromiseKept', tables' = tables,
         free \in Nat, pages_promised \in Nat,
         pages_promised' \in Nat, free' \in Nat,
         ~ MapLoop',
         free' - pages_promised' >= free - pages_promised
  PROVE  Kept'
<1>1. free >= pages_promised + MissingNow /\ MissingNow \in Nat
  BY ReservedNow DEF Kept
<1>2. \A f, g, x, y, m \in Nat :
        f >= x + m /\ g - y >= f - x => g >= y + 0
  OBVIOUS
<1>3. free' >= pages_promised' + 0
  BY <1>1, <1>2
<1>4. Reserved'
  <2>1. pc' # "map"
    BY DEF MapLoop
  <2> QED
    BY <1>3, <2>1 DEF Reserved
<1> QED
  BY <1>4 DEF Kept, ProgramTables

\* A stopped kernel stays stopped.
LEMMA KeptStopped ==
  ASSUME Kept, Stopped', PromiseKept', tables' = tables
  PROVE  Kept'
  BY DEF Kept, Reserved, ProgramTables

\* The program or the end of a file stops the kernel.
LEMMA KeptPanic ==
  ASSUME Kept, NEW why \in {"past end of file", "segfault"}, Panic(why)
  PROVE  Kept'
  BY KeptStopped DEF Panic, Stopped, PromiseKept, memory

\* A promised page finds a free page.
LEMMA KeptFault ==
  ASSUME VmCore, Kept, ~ Stopped, NEW p \in Page, pte[p].tag = "vmr"
  PROVE  /\ free # 0
         /\ FaultIn(p) /\ vmrs' = vmrs =>
              /\ free' = free - 1 /\ free' \in Nat
              /\ pages_promised' = pages_promised - 1 /\ pages_promised' \in Nat
<1>1. MemTypes /\ PromisesExact /\ ToMap \in Nat
  BY CoreFacts
<1>2. pte[p] \in Promises
  BY <1>1, EntryKinds DEF MemTypes
<1>3. pages_promised >= 1 + ToMap
  BY <1>1, <1>2, PromiseUsed
<1>4. free >= pages_promised + MissingNow /\ MissingNow \in Nat
  BY ReservedNow DEF Kept
<1>5. free # 0 /\ free - 1 \in Nat /\ pages_promised - 1 \in Nat
  BY <1>1, <1>3, <1>4 DEF MemTypes
<1> QED
  BY <1>5 DEF FaultIn, DropPage

\* A page of the mapping loop finds the page tables it needs.
LEMMA KeptMap ==
  ASSUME VmCore, VmCore', Kept, MapPage
  PROVE  Kept'
<1> DEFINE p == op.at
           new == Tables(p) \ tables
           M == Missing(op.at, op.last, tables)
           Next1 == Missing(op.at + 1, op.last, tables \cup new)
<1>1. pc = "map" /\ p <= op.last
  BY DEF MapPage
<1>2. /\ p \in Page /\ p \in Nat /\ op.last \in Nat /\ p + 1 \in 0 .. NPages
      /\ MemTypes /\ CallTypes /\ OpSane /\ PromisesExact /\ ToMap \in Nat
  BY <1>1, LoopPage, CoreFacts
<1>3. /\ IsFiniteSet(M) /\ Cardinality(M) \in Nat
      /\ IsFiniteSet(Next1) /\ Cardinality(Next1) \in Nat
      /\ IsFiniteSet(new) /\ Cardinality(new) \in Nat
  <2>1. op.at + 1 \in Nat
    BY <1>2
  <2> QED
    BY <1>2, <2>1, MissingFinite, TablesType DEF MemTypes
<1>4. new \subseteq M /\ Next1 \subseteq M \ new
  <2>1. p \in op.at .. op.last /\ \A q \in op.at + 1 .. op.last : q \in op.at .. op.last
    BY <1>1, <1>2
  <2>2. new \subseteq M
    BY <2>1, MissingMember
  <2>3. Next1 \subseteq M \ new
    BY <2>1, MissingMember
  <2> QED
    BY <2>2, <2>3
<1>5. free >= pages_promised + Cardinality(M)
  BY <1>1, ReservedNow DEF Kept, MissingNow, MapLoop, Stopped
<1> HIDE DEF new, M, Next1, p
<1>6. Cardinality(new) <= Cardinality(M) /\ Cardinality(Next1) <= Cardinality(M) - Cardinality(new)
  <2>1. Cardinality(new) <= Cardinality(M)
    BY <1>3, <1>4, FS_Subset
  <2>2. IsFiniteSet(M \ new) /\ Cardinality(M \ new) = Cardinality(M) - Cardinality(new)
    <3>1. M \cap new = new
      BY <1>4
    <3> QED
      BY <1>3, <3>1, FS_Difference
  <2>3. Cardinality(Next1) <= Cardinality(M \ new)
    BY <1>4, <2>2, FS_Subset
  <2> QED
    BY <2>1, <2>2, <2>3
<1>7. ~ (Cardinality(new) > free)
  <2>1. free \in Nat /\ pages_promised \in Nat
    BY <1>2 DEF MemTypes
  <2> QED
    BY <1>3, <1>5, <1>6, <2>1
<1>8. /\ tables' = tables \cup new /\ vmrs' = vmrs /\ pc' = pc
      /\ Redirect(p, Promise(op.v), free - Cardinality(new))
      /\ op' = [op EXCEPT !.at = p + 1]
  BY <1>7 DEF MapPage, Redirect, new, p
<1>9. op'.at = p + 1 /\ op'.last = op.last
  BY <1>2, <1>8, OpAt DEF CallTypes
<1>10. MissingNow' = Cardinality(Next1)
  BY <1>1, <1>8, <1>9 DEF MissingNow, MapLoop, Missing, Next1, Tables, p
<1>11. /\ free' = IF pte[p] \in Leaves THEN free - Cardinality(new) + 1
                                       ELSE free - Cardinality(new)
       /\ pages_promised' = pages_promised - (IF pte[p] \in Promises THEN 1 ELSE 0)
       /\ pages_promised' \in Nat
  <2>1. op.v \in Vmr
    BY <1>1, <1>2 DEF OpSane
  <2>2. Promise(op.v) \in Entry
    BY <2>1, EntryKinds DEF Promises
  <2> QED
    BY <1>2, <1>8, <2>2, RedirectMemory
<1>12. free' >= pages_promised' + Cardinality(Next1)
  <2>1. free \in Nat /\ pages_promised \in Nat
    BY <1>2 DEF MemTypes
  <2>2. free' >= free - Cardinality(new) /\ free' \in Int
    BY <1>3, <1>11, <2>1
  <2>3. pages_promised' <= pages_promised
    BY <1>11, <2>1
  <2> QED
    BY <1>3, <1>5, <1>6, <1>11, <2>1, <2>2, <2>3
<1>13. Reserved'
  <2>1. MissingNow' = IF pc' = "map" THEN Cardinality(Missing(op'.at, op'.last, tables')) ELSE 0
    BY DEF MissingNow, MapLoop, Missing, Tables
  <2>2. free' >= pages_promised' + MissingNow'
    BY <1>10, <1>12
  <2> QED
    BY <2>1, <2>2 DEF Reserved, Missing, Tables
<1> QED
  BY <1>1, <1>8, <1>13 DEF Kept, PromiseKept, ProgramTables, Tables

\* __do_mmap starts a mapping only when it can be kept.
LEMMA KeptAlloc ==
  ASSUME SlackCovers, VmCore, Kept, NEW v \in Vmr, NEW N \in SUBSET Vmr, NEW a \in Page,
         AllocVmr(v, N, a), VmCore'
  PROVE  Kept'
<1> DEFINE M == Missing(a, a + Npage - 1, tables)
           M0 == Missing(a, a + Npage - 1, ProgramTables)
<1>1. /\ pc = "alloc" /\ pc' = "map" /\ tables' = tables
      /\ Affordable(Npage)
      /\ free' = free \/ free' = free - 1
      /\ pages_promised' = pages_promised + Npage
      /\ op' = [op EXCEPT !.first = a, !.last = a + Npage - 1, !.at = a, !.v = v]
  BY DEF AllocVmr
<1>2. MemTypes /\ CallTypes /\ OpSane /\ op \in Op
  BY CallTypesFacts DEF VmCore
<1>3. op.first \in Nat /\ op.last \in Nat /\ op.first <= op.last
  BY <1>1, <1>2, CallTypesFacts DEF OpSane
<1>4. Npage \in Nat /\ Npage >= 1
  BY <1>3 DEF Npage
<1>5. op'.at = a /\ op'.last = a + Npage - 1
  BY <1>1, <1>2 DEF Op
<1>6. a \in Nat /\ a + Npage - 1 \in Page /\ a + Npage - 1 \in Nat /\ a <= a + Npage - 1
  <2>1. op'.last \in Page
    <3>1. op' \in Op
      BY DEF VmCore, CallTypes
    <3> QED
      BY <3>1 DEF Op
  <2> QED
    BY <1>4, <1>5, <2>1, Geometry
<1>7. Cardinality(M0) + 1 <= Npage \div 16 + Slack
  <2> DEFINE b == a + Npage - 1
  <2>1. b \in Page /\ a <= b /\ b - a + 1 = Npage
    BY <1>4, <1>6
  <2>2. M0 = Missing(a, b, ProgramTables)
    OBVIOUS
  <2> HIDE DEF b, M0
  <2>3. Cardinality(Missing(a, b, ProgramTables)) + 1 <= (b - a + 1) \div 16 + Slack
    BY <2>1 DEF SlackCovers
  <2> QED
    BY <2>1, <2>2, <2>3
<1>9. /\ IsFiniteSet(M0) /\ Cardinality(M0) \in Nat
      /\ IsFiniteSet(M) /\ Cardinality(M) \in Nat
  BY <1>6, MissingFinite
<1>10. M \subseteq M0
  BY DEF Kept, Missing
<1> HIDE DEF M, M0
<1>11. Cardinality(M) <= Cardinality(M0)
  BY <1>9, <1>10, FS_Subset
<1>12. (Npage * 17) \div 16 + Slack + pages_promised < free
  BY <1>1 DEF Affordable
<1>13. (Npage * 17) \div 16 = Npage + Npage \div 16 /\ Npage \div 16 \in Nat
  BY <1>4
<1>14. free \in Nat /\ pages_promised \in Nat /\ Slack \in Nat
  BY <1>2, Geometry DEF MemTypes
<1>15. free' >= pages_promised' + Cardinality(M)
  <2>1. Cardinality(M) + 1 <= Npage \div 16 + Slack
    BY <1>7, <1>9, <1>11, <1>13, <1>14
  <2>2. Npage + Npage \div 16 + Slack + pages_promised < free
    BY <1>12, <1>13
  <2>3. free' >= free - 1
    BY <1>1, <1>14
  <2>4. free' \in Int
    BY <1>1, <1>14
  <2> QED
    BY <1>1, <1>4, <1>9, <1>13, <1>14, <2>1, <2>2, <2>3, <2>4
<1>16. MissingNow' = Cardinality(M)
  BY <1>1, <1>5 DEF MissingNow, MapLoop, Missing, Tables, M
<1>17. Reserved'
  <2>1. MissingNow' = IF pc' = "map" THEN Cardinality(Missing(op'.at, op'.last, tables')) ELSE 0
    BY DEF MissingNow, MapLoop, Missing, Tables
  <2>2. free' >= pages_promised' + MissingNow'
    BY <1>15, <1>16
  <2> QED
    BY <2>1, <2>2 DEF Reserved, Missing, Tables
<1> QED
  BY <1>1, <1>17 DEF Kept, PromiseKept, ProgramTables, Tables

LEMMA KeptStep == SlackCovers => (VmCore /\ VmCore' /\ Kept /\ [Next]_vars => Kept')
<1> SUFFICES ASSUME SlackCovers, VmCore, VmCore', Kept, [Next]_vars
             PROVE  Kept'
  OBVIOUS
<1>1. free \in Nat /\ pages_promised \in Nat /\ free' \in Nat /\ pages_promised' \in Nat
  BY DEF VmCore, MemTypes
<1>2. \A x, y \in Nat : x - y >= x - y
  OBVIOUS
<1>3. CASE UNCHANGED <<free, pages_promised, tables>> /\ ~ Stopped /\ PromiseKept' /\ ~ MapLoop'
  BY <1>1, <1>2, <1>3, KeptStill
<1>4. CASE UNCHANGED vars
  BY <1>4 DEF vars, vmvars, memory, current, Kept, Reserved, PromiseKept, Stopped,
              Missing, Tables, ProgramTables
<1>5. CASE \E v \in Vmr, N \in SUBSET Vmr, a \in Page : AllocVmr(v, N, a)
  BY <1>5, KeptAlloc
<1>6. CASE MapPage
  BY <1>6, KeptMap
<1>7. CASE GiveUp \/ MapEnd \/ PopulateEnd \/ Mapped \/ UnmapEnd \/ ProtectEnd
  <2>1. /\ UNCHANGED <<free, pages_promised, tables>>
        /\ pc \in {"alloc", "map", "populate", "mapped", "unmap", "protect"}
        /\ pc' \in {"user", "populate", "mapped"}
    BY <1>7 DEF GiveUp, MapEnd, PopulateEnd, Mapped, UnmapEnd, ProtectEnd, memory
  <2>2. ~ Stopped /\ PromiseKept' /\ ~ MapLoop'
    BY <2>1 DEF Stopped, PromiseKept, MapLoop
  <2> QED
    BY <1>3, <2>1, <2>2
<1>8. CASE ProtectLeaf \/ ProtectPromise
  <2>1. /\ UNCHANGED <<free, pages_promised, tables>> /\ pc = "protect" /\ pc' = "protect"
    BY <1>8 DEF ProtectLeaf, ProtectPromise
  <2>2. ~ Stopped /\ PromiseKept' /\ ~ MapLoop'
    BY <2>1 DEF Stopped, PromiseKept, MapLoop
  <2> QED
    BY <1>3, <2>1, <2>2
<1>9. ASSUME NEW p \in Page, pte[p].tag = "vmr", FaultIn(p),
             UNCHANGED <<tables, vmrs>>, ~ Stopped, PromiseKept', ~ MapLoop'
      PROVE  Kept'
  <2>1. /\ free' = free - 1 /\ pages_promised' = pages_promised - 1
    BY <1>9, KeptFault
  <2>2. free' - pages_promised' >= free - pages_promised
    BY <1>1, <2>1
  <2> QED
    BY <1>1, <1>9, <2>2, KeptStill
<1>10. CASE PopulatePage
  <2>1. op.at <= op.last /\ pc = "populate"
    BY <1>10 DEF PopulatePage
  <2>2. /\ op.at \in Page /\ LoopDone /\ op.at \in Nat /\ op.last \in Nat /\ OpSane
        /\ MemTypes /\ CallTypes
    BY <2>1, LoopPage
  <2>3. pte[op.at] = Promise(op.v) /\ vmr[op.v].prot = op.prot
    <3>1. op.at \in op.at .. op.last
      BY <2>1, <2>2
    <3>2. pte[op.at] = Promise(op.v)
      BY <2>1, <2>2, <3>1 DEF LoopDone
    <3> QED
      BY <2>1, <2>2, <3>2 DEF OpSane
  <2>4. pte[op.at].tag = "vmr" /\ pte[op.at].vmr = op.v
    BY <2>3 DEF Promise
  <2>5. ~ Stopped
    BY <2>1 DEF Stopped
  <2>6. free # 0
    BY <2>2, <2>4, <2>5, KeptFault
  <2>7. Allows(Leaf(Type(vmr[pte[op.at].vmr].prot)), Type(op.prot))
    BY <2>3, <2>4, AllowsOwn
  <2>8. FaultIn(op.at) /\ pc' = pc /\ UNCHANGED <<tables, vmrs>>
    BY <1>10, <2>6, <2>7 DEF PopulatePage
  <2>9. PromiseKept' /\ ~ MapLoop'
    BY <2>1, <2>8 DEF PromiseKept, MapLoop
  <2> QED
    BY <1>9, <2>2, <2>4, <2>5, <2>8, <2>9
<1>11. CASE \E p \in Page, a \in Perm : Touch(p, a)
  <2>1. PICK p \in Page, a \in Perm : Touch(p, a)
    BY <1>11
  <2>2. pc = "user" /\ pte[p].tag = "vmr" /\ ~ Stopped
    BY <2>1 DEF Touch, Stopped
  <2>3. free # 0
    BY <2>2, KeptFault
  <2>4. FaultIn(p) /\ pc' \in {"user", "segfault"} /\ UNCHANGED <<tables, vmrs>>
    BY <2>1, <2>3 DEF Touch
  <2>5. PromiseKept' /\ ~ MapLoop'
    BY <2>4 DEF PromiseKept, MapLoop
  <2> QED
    BY <1>9, <2>2, <2>4, <2>5
<1>12. CASE UnmapPage
  <2>1. /\ op.at <= op.last /\ Redirect(op.at, Zero, free) /\ pc = "unmap" /\ pc' = pc
        /\ vmrs' = vmrs /\ tables' = tables
    BY <1>12 DEF UnmapPage, Redirect
  <2>2. op.at \in Page /\ MemTypes /\ PromisesExact /\ ToMap \in Nat /\ Zero \in Entry
    BY <2>1, LoopPage, CoreFacts, EntryKinds
  <2>3. /\ free' = IF pte[op.at] \in Leaves THEN free + 1 ELSE free
        /\ pages_promised' = pages_promised - (IF pte[op.at] \in Promises THEN 1 ELSE 0)
    BY <2>1, <2>2, RedirectMemory
  <2>4. free' - pages_promised' >= free - pages_promised
    BY <1>1, <2>3
  <2>5. ~ Stopped /\ PromiseKept' /\ ~ MapLoop'
    BY <2>1 DEF Stopped, PromiseKept, MapLoop
  <2> QED
    BY <1>1, <2>1, <2>4, <2>5, KeptStill
<1>13. CASE PopulatePastEnd
  BY <1>13, KeptPanic DEF PopulatePastEnd
<1>14. CASE \E p \in Page : TouchPastEnd(p) \/ \E a \in Perm : Segfault(p, a)
  BY <1>14, KeptPanic DEF TouchPastEnd, Segfault
<1>15. CASE /\ Program
            /\ ~ \E p \in Page : \/ \E a \in Perm : Touch(p, a) \/ Segfault(p, a)
                                 \/ TouchPastEnd(p)
  <2>1. UNCHANGED memory /\ pc = "user" /\ pc' \in {"user", "alloc", "protect", "unmap"}
    BY <1>15 DEF Program, Mmap, EnterLoop, GrowBrk, ShrinkBrk, vmvars
  <2>2. ~ Stopped /\ PromiseKept' /\ ~ MapLoop'
    BY <2>1 DEF Stopped, PromiseKept, MapLoop
  <2> QED
    BY <1>3, <2>1, <2>2 DEF memory
<1> QED
  BY <1>4, <1>5, <1>6, <1>7, <1>8, <1>10, <1>11, <1>12, <1>13, <1>14, <1>15 DEF Next, Kernel

LEMMA KeptInit == Init => Kept
<1> SUFFICES ASSUME Init
             PROVE  Kept
  OBVIOUS
<1> DEFINE Loaded == ElfPages \cup StackPages
           C == Cardinality(Loaded)
           T == Cardinality(ProgramTables)
<1>1. /\ pc = "user" /\ tables = ProgramTables /\ demand_paging \in BOOLEAN
      /\ free = FreePages - T - 1 - (IF demand_paging THEN 0 ELSE C)
      /\ pages_promised = IF demand_paging THEN C ELSE 0
  BY Geometry DEF Init
<1>2. C \in Nat /\ T \in Nat
  BY VmCoreInit, <1>1, TablesFiniteSet, Geometry, PagesFinite DEF VmCore
<1>3. T + 1 + C <= FreePages
  BY LoadedAssumption
<1> HIDE DEF C, T
<1>4. free >= pages_promised /\ pages_promised + 0 = pages_promised
  BY <1>1, <1>2, <1>3, Geometry
<1>5. free >= pages_promised + 0
  BY <1>4
<1>6. Reserved
  BY <1>1, <1>5 DEF Reserved
<1> QED
  BY <1>1, <1>6 DEF Kept, PromiseKept

\* PromiseKept: when the slack of __do_mmap covers the page tables a mapping
\* can need, the kernel never runs out of memory for a mapping it granted,
\* neither in its loops nor in a later page fault.
THEOREM PromisesKept == SlackCovers => (Spec => []PromiseKept)
<1> SUFFICES ASSUME SlackCovers
             PROVE  Spec => []PromiseKept
  OBVIOUS
<1>1. VmCore /\ VmCore' /\ Kept /\ [Next]_vars => Kept'
  BY KeptStep
<1>2. Kept => PromiseKept
  BY DEF Kept
<1> QED
  BY <1>1, <1>2, KeptInit, VmCoreInvariance, PTL DEF Spec

-----------------------------------------------------------------------------
(* The slack of the code *)

\* The tables of level i that pages with prefixes lo .. hi need.
LevelTables(i, lo, hi) == {<<i, q>> : q \in lo .. hi}

LEMMA LevelTablesCount ==
  ASSUME NEW i, NEW lo \in Nat, NEW hi \in Nat, lo <= hi
  PROVE  /\ IsFiniteSet(LevelTables(i, lo, hi))
         /\ Cardinality(LevelTables(i, lo, hi)) = hi - lo + 1
<1> DEFINE f == [q \in lo .. hi |-> <<i, q>>]
           S == lo .. hi
           T == LevelTables(i, lo, hi)
<1>1. IsFiniteSet(S) /\ Cardinality(S) = hi - lo + 1
  BY FS_Interval
<1>2. f \in Surjection(S, T)
  BY DEF Surjection, LevelTables
<1>3. f \in Injection(S, T)
  <2>1. f \in [S -> T]
    BY DEF LevelTables
  <2>2. \A x, y \in S : f[x] = f[y] => x = y
    OBVIOUS
  <2> QED
    BY <2>1, <2>2 DEF Injection, IsInjective
<1> HIDE DEF f, S, T
<1>4. IsFiniteSet(T) /\ Cardinality(T) = Cardinality(S)
  BY <1>1, <1>2, <1>3, FS_Surjection
<1> QED
  BY <1>1, <1>4 DEF T

\* What division by F, the pages that a table covers, does to pages a .. b.
Spread(F, a, b) ==
  /\ a \div F \in Nat /\ b \div F \in Nat /\ a \div F <= b \div F
  /\ b \div F - a \div F <= (b - a) \div F + 1
  /\ (b - a) \div F \in Nat
  /\ \A p \in a .. b : a \div F <= p \div F /\ p \div F <= b \div F /\ p \div F \in Nat

\* Pages a .. b need at most this many tables that cover F pages each.
LEMMA LevelTablesBound ==
  ASSUME NEW i, NEW a \in Nat, NEW b \in Nat, a <= b, NEW F, Spread(F, a, b)
  PROVE  /\ IsFiniteSet(LevelTables(i, a \div F, b \div F))
         /\ Cardinality(LevelTables(i, a \div F, b \div F)) \in Nat
         /\ Cardinality(LevelTables(i, a \div F, b \div F)) <= (b - a) \div F + 2
         /\ \A p \in a .. b : <<i, p \div F>> \in LevelTables(i, a \div F, b \div F)
<1> DEFINE lo == a \div F
           hi == b \div F
           c == (b - a) \div F
<1>1. /\ lo \in Nat /\ hi \in Nat /\ lo <= hi /\ c \in Nat /\ hi - lo <= c + 1
      /\ \A p \in a .. b : p \div F \in Nat /\ lo <= p \div F /\ p \div F <= hi
  BY DEF Spread
<1> HIDE DEF lo, hi, c
<1>2. /\ IsFiniteSet(LevelTables(i, lo, hi))
      /\ Cardinality(LevelTables(i, lo, hi)) = hi - lo + 1
  BY <1>1, LevelTablesCount
<1>3. Cardinality(LevelTables(i, lo, hi)) <= c + 2
  BY <1>1, <1>2
<1>4. \A p \in a .. b : <<i, p \div F>> \in LevelTables(i, lo, hi)
  <2> TAKE p \in a .. b
  <2> DEFINE q == p \div F
  <2>1. q \in Nat /\ lo <= q /\ q <= hi
    BY <1>1
  <2> HIDE DEF q
  <2>2. q \in lo .. hi
    BY <1>1, <2>1
  <2>3. <<i, q>> \in LevelTables(i, lo, hi)
    BY <2>2 DEF LevelTables
  <2> QED
    BY <2>3 DEF q
<1>5. Cardinality(LevelTables(i, lo, hi)) \in Nat
  BY <1>2, FS_CardinalityType
<1> QED
  BY <1>2, <1>3, <1>4, <1>5 DEF lo, hi, c

\* The 16 pages of __do_mmap suffice for the page tables of 64-bit machines
\* (Sv39) and of 32-bit ones (Sv32).
THEOREM SlackSuffices ==
  ASSUME Slack = 16,
         \/ FANOUT = 512 /\ LEVELS = 3
         \/ FANOUT = 1024 /\ LEVELS = 2
  PROVE  SlackCovers
<1> SUFFICES ASSUME NEW a \in Page, NEW b \in Page, a <= b
             PROVE  Cardinality(Missing(a, b, ProgramTables)) + 1 <= (b - a + 1) \div 16 + Slack
  BY DEF SlackCovers
<1>1. a \in Nat /\ b \in Nat
  BY Geometry
<1> DEFINE M == Missing(a, b, ProgramTables)
<1>2. IsFiniteSet(M) /\ Cardinality(M) \in Nat
  BY <1>1, MissingFinite
<1> DEFINE F1 == FANOUT ^ 1
           F2 == FANOUT ^ 2
           L1 == LevelTables(1, a \div F1, b \div F1)
           L2 == LevelTables(2, a \div F2, b \div F2)
<1>3. CASE FANOUT = 512 /\ LEVELS = 3
  <2>1. F1 = 512 /\ F2 = 262144
    BY <1>3, SMT
  <2>2. Spread(F1, a, b) /\ Spread(F2, a, b)
    BY <1>1, <2>1, SMT DEF Spread
  <2>3. (b - a) \div F1 + 2 + (b - a) \div F2 + 2 + 1 <= (b - a + 1) \div 16 + 16
    BY <1>1, <2>1, SMT
  <2>4. (b - a) \div F1 \in Nat /\ (b - a) \div F2 \in Nat
    BY <2>2 DEF Spread
  <2>5. \A p : Tables(p) = {<<1, p \div F1>>, <<2, p \div F2>>}
    <3>1. 1 .. LEVELS - 1 = {1, 2}
      BY <1>3
    <3> QED
      BY <3>1 DEF Tables
  <2> HIDE DEF F1, F2
  <2>6. /\ IsFiniteSet(L1) /\ Cardinality(L1) \in Nat
        /\ Cardinality(L1) <= (b - a) \div F1 + 2
        /\ \A p \in a .. b : <<1, p \div F1>> \in L1
    BY <1>1, <2>2, LevelTablesBound
  <2>7. /\ IsFiniteSet(L2) /\ Cardinality(L2) \in Nat
        /\ Cardinality(L2) <= (b - a) \div F2 + 2
        /\ \A p \in a .. b : <<2, p \div F2>> \in L2
    BY <1>1, <2>2, LevelTablesBound
  <2> HIDE DEF L1, L2, M
  <2>8. M \subseteq L1 \cup L2
    <3> SUFFICES ASSUME NEW x \in M
                 PROVE  x \in L1 \cup L2
      OBVIOUS
    <3>1. PICK p \in a .. b : x \in Tables(p)
      BY MissingMember DEF M
    <3> QED
      BY <2>5, <2>6, <2>7, <3>1
  <2>9. Cardinality(M) <= Cardinality(L1) + Cardinality(L2)
    <3>1. IsFiniteSet(L1 \cup L2)
      BY <2>6, <2>7, FS_Union
    <3>2. Cardinality(M) <= Cardinality(L1 \cup L2) /\ Cardinality(L1 \cup L2) \in Nat
      BY <2>8, <3>1, FS_Subset, FS_CardinalityType
    <3>3. Cardinality(L1 \cup L2) = Cardinality(L1) + Cardinality(L2) - Cardinality(L1 \cap L2)
      BY <2>6, <2>7, FS_Union
    <3>4. Cardinality(L1 \cap L2) \in Nat
      BY <2>6, FS_Intersection, FS_CardinalityType
    <3>5. Cardinality(M) \in Nat
      BY <1>2 DEF M
    <3> QED
      BY <2>6, <2>7, <3>2, <3>3, <3>4, <3>5
  <2> DEFINE c1 == (b - a) \div F1
             c2 == (b - a) \div F2
             m == Cardinality(M)
  <2>10. m \in Nat
    BY <1>2 DEF M
  <2>11. m <= c1 + 2 + (c2 + 2) /\ c1 \in Nat /\ c2 \in Nat
    BY <2>4, <2>6, <2>7, <2>9, <2>10
  <2>12. c1 + 2 + c2 + 2 + 1 <= (b - a + 1) \div 16 + 16
    BY <2>3
  <2> HIDE DEF c1, c2, m
  <2>13. m + 1 <= (b - a + 1) \div 16 + 16
    BY <1>1, <2>10, <2>11, <2>12
  <2> QED
    BY <2>13 DEF m, M
<1>4. CASE FANOUT = 1024 /\ LEVELS = 2
  <2>1. F1 = 1024
    BY <1>4, SMT
  <2>2. Spread(F1, a, b)
    BY <1>1, <2>1, SMT DEF Spread
  <2>3. (b - a) \div F1 + 2 + 1 <= (b - a + 1) \div 16 + 16
    BY <1>1, <2>1, SMT
  <2>4. (b - a) \div F1 \in Nat
    BY <2>2 DEF Spread
  <2>5. \A p : Tables(p) = {<<1, p \div F1>>}
    <3>1. 1 .. LEVELS - 1 = {1}
      BY <1>4
    <3> QED
      BY <3>1 DEF Tables
  <2> HIDE DEF F1
  <2>6. /\ IsFiniteSet(L1) /\ Cardinality(L1) \in Nat
        /\ Cardinality(L1) <= (b - a) \div F1 + 2
        /\ \A p \in a .. b : <<1, p \div F1>> \in L1
    BY <1>1, <2>2, LevelTablesBound
  <2> HIDE DEF L1, M
  <2>7. M \subseteq L1
    <3> SUFFICES ASSUME NEW x \in M
                 PROVE  x \in L1
      OBVIOUS
    <3>1. PICK p \in a .. b : x \in Tables(p)
      BY MissingMember DEF M
    <3> QED
      BY <2>5, <2>6, <3>1
  <2>8. Cardinality(M) <= Cardinality(L1)
    BY <2>6, <2>7, FS_Subset
  <2> DEFINE c1 == (b - a) \div F1
             m == Cardinality(M)
  <2>9. m \in Nat
    BY <1>2 DEF M
  <2>10. m <= c1 + 2 /\ c1 \in Nat
    BY <2>4, <2>6, <2>8, <2>9
  <2>11. c1 + 2 + 1 <= (b - a + 1) \div 16 + 16
    BY <2>3
  <2> HIDE DEF c1, m
  <2>12. m + 1 <= (b - a + 1) \div 16 + 16
    BY <1>1, <2>9, <2>10, <2>11
  <2> QED
    BY <2>12 DEF m, M
<1> QED
  BY <1>3, <1>4

-----------------------------------------------------------------------------
(* The open files: PkVm implements PkFiles *)

FP == INSTANCE PkFiles_proofs WITH held <- RegionRefs, MaxHeld <- Cardinality(Vmr) + 1

FileId == 0 .. MAX_FILES - 1

\* Only the calls of mmap have a reference of file_get.
CallFile == ~ (pc = "alloc" \/ Mapping \/ Stopped) => op.file = NULL

\* Regions in use that refer to file f.
Users(f) == {v \in Used : vmr[v].file = f}

LEMMA SameFile == Files!File = FileId /\ FP!File = FileId /\ Files!NULL = NULL /\ NULL \notin FileId
  BY Geometry DEF Files!File, FP!File, FileId, Files!NULL, NULL

\* The assumptions of PkFiles.
LEMMA FilesBounds ==
  /\ MAX_FDS \in Nat /\ MAX_FDS >= 3
  /\ MAX_FILES \in Nat /\ MAX_FILES >= 3
  /\ Cardinality(Vmr) + 1 \in Nat
  BY VmrAssumption, TablesAssumption, FS_CardinalityType

\* Both instances of PkFiles take the same steps.
LEMMA SameSteps ==
  /\ Files!Init <=> FP!Init
  /\ Files!Next => FP!Next
<1>1. Files!Init <=> FP!Init
  BY DEF Files!Init, FP!Init, Files!Fd, FP!Fd, Files!File, FP!File,
         Files!Stdio, FP!Stdio, Files!NULL, FP!NULL
<1>2. Files!FileCall => FP!FileCall
  BY DEF Files!FileCall, FP!FileCall, Files!Openat, FP!Openat, Files!OpenatNoFd,
         FP!OpenatNoFd, Files!OpenatRefused, FP!OpenatRefused, Files!Close, FP!Close,
         Files!Dup, FP!Dup, Files!Dup3, FP!Dup3, Files!Decref, FP!Decref,
         Files!Incref, FP!Incref, Files!GetsFree, FP!GetsFree, Files!GetsFd, FP!GetsFd,
         Files!NoFd, FP!NoFd, Files!HostOpens, FP!HostOpens,
         Files!Fd, FP!Fd, Files!File, FP!File, Files!NULL, FP!NULL
<1>3. Files!Other => FP!Other
  BY DEF Files!Other, FP!Other, Files!OpenProgram, FP!OpenProgram, Files!Hold, FP!Hold,
         Files!Release, FP!Release, Files!Decref, FP!Decref, Files!Incref, FP!Incref,
         Files!GetsFree, FP!GetsFree, Files!HostOpens, FP!HostOpens, Files!File, FP!File
<1> QED
  BY <1>1, <1>2, <1>3 DEF Files!Next, FP!Next

LEMMA UsersFinite ==
  ASSUME MemTypes, NEW f
  PROVE  /\ IsFiniteSet(Users(f)) /\ Cardinality(Users(f)) \in Nat
         /\ Cardinality(Users(f)) <= Cardinality(Vmr) /\ Cardinality(Vmr) \in Nat
<1>1. Users(f) \subseteq Vmr
  BY DEF Users, Used, MemTypes
<1> QED
  BY <1>1, VmrAssumption, FS_Subset, FS_CardinalityType

\* The references to file f that the regions and the call have.
Held(f) == Cardinality(Users(f)) + (IF op.file = f THEN 1 ELSE 0)

LEMMA Refs ==
  /\ RegionRefs = [f \in FileId |-> Held(f)]
  /\ RegionRefs' = [f \in FileId |-> Held(f)']
  BY DEF RegionRefs, Held, Users, Used, FileId

LEMMA HeldType ==
  ASSUME MemTypes, NEW f
  PROVE  Held(f) \in Nat
  BY UsersFinite DEF Held

LEMMA RefsStay ==
  ASSUME op'.file = op.file, \A f \in FileId : Users(f)' = Users(f)
  PROVE  RegionRefs' = RegionRefs
<1>1. \A f \in FileId : Held(f)' = Held(f)
  BY DEF Held
<1> QED
  BY <1>1, Refs

\* The regions and the call keep their files.
LEMMA FilesStill ==
  ASSUME op'.file = op.file, UNCHANGED <<vmr, vmrs, vmr_free>>, UNCHANGED filevars
  PROVE  UNCHANGED Files!vars
<1>1. \A f \in FileId : Users(f)' = Users(f)
  BY DEF Users, Used
<1> QED
  BY <1>1, RefsStay DEF filevars, Files!vars

\* A reference to file g goes.
LEMMA FilesRelease ==
  ASSUME MemTypes, NEW g \in FileId, Held(g) > 0,
         \A f \in FileId : Held(f)' = IF f = g THEN Held(f) - 1 ELSE Held(f),
         Files!Decref(g), UNCHANGED <<fds, kfd>>
  PROVE  Files!Next
<1>1. RegionRefs[g] > 0 /\ RegionRefs' = [RegionRefs EXCEPT ![g] = @ - 1]
  BY Refs
<1>2. Files!Release(g)
  BY <1>1 DEF Files!Release
<1> QED
  BY <1>2, SameFile DEF Files!Next, Files!Other

\* An open file, referred to from a descriptor or already held, is held once more.
LEMMA FilesHold ==
  ASSUME FP!IInv, MemTypes, NEW g \in FileId,
         Held(g) > 0 \/ \E d \in 0 .. MAX_FDS - 1 : fds[d] = g,
         Held(g) <= Cardinality(Vmr),
         \A f \in FileId : Held(f)' = IF f = g THEN Held(f) + 1 ELSE Held(f),
         Files!Incref(g), UNCHANGED <<fds, kfd, host>>
  PROVE  Files!Next
<1>1. RegionRefs[g] = Held(g) /\ RegionRefs' = [RegionRefs EXCEPT ![g] = @ + 1]
  BY Refs
<1>2. Held(g) \in Nat /\ Cardinality(Vmr) \in Nat
  BY HeldType, UsersFinite
<1>3. refcnt[g] > 0
  <2>1. g \in FP!File /\ FP!Fd = 0 .. MAX_FDS - 1
    BY SameFile DEF FP!Fd
  <2> QED
    BY <1>1, <2>1, FilesBounds, FP!Referred
<1>4. Files!Hold(g)
  BY <1>1, <1>2, <1>3 DEF Files!Hold
<1> QED
  BY <1>4, SameFile DEF Files!Next, Files!Other

\* The last page of a region takes the region's reference with it.
LEMMA FilesDropPage ==
  ASSUME MemTypes, NEW w \in Used, vmr[w].refcnt \in Nat \ {0}, DropPage(w),
         vmrs' = vmrs, op'.file = op.file, UNCHANGED <<fds, kfd>>
  PROVE  Files!Next \/ UNCHANGED Files!vars
<1>1. /\ Used' = IF vmr[w].refcnt = 1 THEN Used \ {w} ELSE Used
      /\ \A v \in Used' : vmr'[v].file = vmr[v].file
  BY DropPageRegions
<1> DEFINE g == vmr[w].file
<1>2. g \in FileId \cup {NULL}
  BY DEF MemTypes, Used, Region, FileId
<1>3. CASE vmr[w].refcnt = 1 /\ g # NULL
  <2>1. g \in FileId /\ Files!Decref(g)
    BY <1>2, <1>3 DEF DropPage
  <2>2. ASSUME NEW f \in FileId
        PROVE  Cardinality(Users(f)') = Cardinality(Users(f)) + (IF f = g THEN -1 ELSE 0)
    <3>1. Users(f)' = Users(f) \ {w}
      BY <1>1, <1>3 DEF Users
    <3>2. IsFiniteSet(Users(f)) /\ Cardinality(Users(f)) \in Nat
      BY UsersFinite
    <3>3. CASE f = g
      <4>1. w \in Users(f)
        BY <3>3 DEF Users
      <4>2. Cardinality(Users(f) \ {w}) = Cardinality(Users(f)) - 1
        BY <3>2, <4>1, FS_RemoveElement
      <4> QED
        BY <3>1, <3>2, <3>3, <4>2
    <3>4. CASE f # g
      <4>1. Users(f) \ {w} = Users(f)
        BY <3>4 DEF Users
      <4> QED
        BY <3>1, <3>2, <3>4, <4>1
    <3> QED
      BY <3>3, <3>4
  <2>3. \A f \in FileId : Held(f)' = IF f = g THEN Held(f) - 1 ELSE Held(f)
    BY <2>2, UsersFinite DEF Held
  <2>4. Held(g) > 0
    <3>1. Users(g) # {} /\ IsFiniteSet(Users(g)) /\ Cardinality(Users(g)) \in Nat
      BY UsersFinite DEF Users
    <3>2. Cardinality(Users(g)) # 0
      BY <3>1, FS_EmptySet
    <3> QED
      BY <3>1, <3>2 DEF Held
  <2> QED
    BY <2>1, <2>3, <2>4, FilesRelease
<1>4. CASE ~ (vmr[w].refcnt = 1 /\ g # NULL)
  <2>1. UNCHANGED <<refcnt, host>>
    BY <1>4 DEF DropPage
  <2>2. \A f \in FileId : Users(f)' = Users(f)
    BY <1>1, <1>4, SameFile DEF Users
  <2> QED
    BY <2>1, <2>2, RefsStay DEF Files!vars
<1> QED
  BY <1>3, <1>4

\* A page table entry is replaced.
LEMMA FilesUnmap ==
  ASSUME MemTypes, PromisesExact, ToMap \in Nat, NEW p \in Page, NEW avail, Unmap(p, avail),
         vmrs' = vmrs, op'.file = op.file, UNCHANGED <<fds, kfd>>
  PROVE  Files!Next \/ UNCHANGED Files!vars
<1>1. pte[p] \in Entry
  BY DEF MemTypes
<1>2. CASE pte[p] \in Promises
  <2>1. pte[p].vmr \in Used /\ vmr[pte[p].vmr].refcnt \in Nat \ {0}
    BY <1>2, PromiseUsed
  <2>2. DropPage(pte[p].vmr)
    BY <1>1, <1>2, EntryKinds DEF Unmap
  <2> QED
    BY <2>1, <2>2, FilesDropPage
<1>3. CASE pte[p] \notin Promises
  <2>1. UNCHANGED <<vmr, vmr_free, refcnt, host>>
    BY <1>1, <1>3, EntryKinds DEF Unmap
  <2> QED
    BY <2>1, FilesStill DEF filevars
<1> QED
  BY <1>2, <1>3

LEMMA FilesFault ==
  ASSUME MemTypes, PromisesExact, ToMap \in Nat, NEW p \in Page, pte[p].tag = "vmr", FaultIn(p),
         vmrs' = vmrs, op'.file = op.file, UNCHANGED <<fds, kfd>>
  PROVE  Files!Next \/ UNCHANGED Files!vars
BY FaultRedirects, FilesUnmap DEF Redirect

\* The call gives back the reference of file_get.
LEMMA FilesDropFile ==
  ASSUME MemTypes, op.file \in FileId \cup {NULL}, DropFile, op'.file = NULL,
         UNCHANGED <<vmr, vmrs, vmr_free, fds, kfd>>
  PROVE  Files!Next \/ UNCHANGED Files!vars
<1>1. CASE op.file = NULL
  BY <1>1, FilesStill DEF DropFile, filevars
<1>2. CASE op.file # NULL
  <2> DEFINE g == op.file
  <2>1. g \in FileId /\ Files!Decref(g)
    BY <1>2 DEF DropFile
  <2>2. \A f \in FileId : Users(f)' = Users(f) /\ op'.file # f
    BY SameFile DEF Users, Used
  <2>3. \A f \in FileId : Held(f)' = IF f = g THEN Held(f) - 1 ELSE Held(f)
    BY <2>2, UsersFinite DEF Held
  <2>4. Held(g) > 0
    BY UsersFinite DEF Held
  <2> QED
    BY <2>1, <2>3, <2>4, FilesRelease
<1> QED
  BY <1>1, <1>2

\* file_get at the beginning of mmap.
LEMMA FilesMmap ==
  ASSUME VmCore, FP!IInv, NEW p, NEW n, NEW prot, NEW fixed, NEW populate, NEW d \in MapFds,
         Mmap(p, n, prot, fixed, populate, d)
  PROVE  Files!Next \/ UNCHANGED Files!vars
<1>1. /\ pc = "user" /\ op = NoOp
      /\ op'.file = IF d = NULL THEN NULL ELSE fds[d]
      /\ IF d = NULL THEN UNCHANGED refcnt ELSE fds[d] # NULL /\ Files!Incref(fds[d])
      /\ UNCHANGED <<vmr, vmrs, vmr_free, fds, kfd, host>>
  BY DEF Mmap, VmCore, OpSane, memory
<1>2. op.file = NULL /\ MemTypes
  BY <1>1 DEF NoOp, VmCore
<1>3. CASE d = NULL
  BY <1>1, <1>2, <1>3, FilesStill DEF filevars
<1>4. CASE d # NULL
  <2> DEFINE g == fds[d]
  <2>1. d \in 0 .. MAX_FDS - 1 /\ g \in FileId /\ Files!Incref(g)
    BY <1>1, <1>4, Geometry DEF VmCore, FdsTyped, FileId
  <2>2. \A f \in FileId : Users(f)' = Users(f) /\ op.file # f /\ (op'.file = f <=> f = g)
    BY <1>1, <1>2, <1>4, SameFile DEF Users, Used
  <2>3. \A f \in FileId : /\ Held(f) = Cardinality(Users(f))
                          /\ Held(f)' = IF f = g THEN Held(f) + 1 ELSE Held(f)
    BY <1>2, <2>2, UsersFinite DEF Held
  <2>4. Held(g) <= Cardinality(Vmr)
    BY <1>2, <2>1, <2>3, UsersFinite
  <2> QED
    BY <1>1, <1>2, <2>1, <2>3, <2>4, FilesHold
<1> QED
  BY <1>3, <1>4

\* file_incref for a new region.
LEMMA FilesAlloc ==
  ASSUME VmCore, FP!IInv, NEW v \in Vmr, NEW N \in SUBSET Vmr, NEW a \in Page, AllocVmr(v, N, a)
  PROVE  Files!Next \/ UNCHANGED Files!vars
<1> DEFINE region == [file |-> op.file, refcnt |-> Npage, prot |-> op.prot]
           g == op.file
<1>1. /\ vmrs' = vmrs \cup N
      /\ vmr_free' = (vmr_free \cup N) \ {v}
      /\ vmr' = [vmr EXCEPT ![v] = region]
      /\ IF op.file = NULL THEN UNCHANGED refcnt ELSE Files!Incref(op.file)
      /\ op' = [op EXCEPT !.first = a, !.last = a + Npage - 1, !.at = a, !.v = v]
      /\ UNCHANGED <<fds, kfd, host>>
  BY DEF AllocVmr
<1>2. MemTypes /\ op \in Op /\ g \in FileId \cup {NULL}
  BY DEF VmCore, CallTypes, Op, FileId
<1>3. op'.file = op.file
  BY <1>1, <1>2 DEF Op
<1>4. v \notin Used /\ Used' = Used \cup {v}
  <2>1. vmr_free \subseteq vmrs
    BY <1>2 DEF MemTypes
  <2>2. \/ N = {} /\ v \in vmr_free
        \/ N \cap vmrs = {} /\ v \in N
    BY DEF AllocVmr
  <2> QED
    BY <1>1, <2>1, <2>2 DEF Used
<1>5. vmr'[v] = region /\ \A u \in Vmr : u # v => vmr'[u] = vmr[u]
  BY <1>1, <1>2 DEF MemTypes
<1>6. \A f \in FileId : Users(f)' = IF f = g THEN Users(f) \cup {v} ELSE Users(f)
  <2> TAKE f \in FileId
  <2>1. Used \subseteq Vmr
    BY <1>2 DEF MemTypes, Used
  <2>2. Users(f)' = {u \in Used \cup {v} : vmr'[u].file = f}
    BY <1>4 DEF Users
  <2>3. \A u \in Used : vmr'[u].file = vmr[u].file
    BY <1>4, <1>5, <2>1
  <2> QED
    BY <1>5, <2>2, <2>3 DEF Users
<1>7. CASE g = NULL
  <2>1. \A f \in FileId : Users(f)' = Users(f)
    BY <1>6, <1>7, SameFile
  <2> QED
    BY <1>1, <1>3, <1>7, <2>1, RefsStay DEF Files!vars
<1>8. CASE g # NULL
  <2>1. g \in FileId /\ Files!Incref(g)
    BY <1>1, <1>2, <1>8
  <2>2. /\ v \notin Users(g) /\ Users(g) \cup {v} \subseteq Vmr
        /\ IsFiniteSet(Users(g)) /\ Cardinality(Users(g)) \in Nat
        /\ Cardinality(Vmr) \in Nat
    BY <1>2, <1>4, UsersFinite DEF Users, Used, MemTypes
  <2>3. /\ Cardinality(Users(g) \cup {v}) = Cardinality(Users(g)) + 1
        /\ Cardinality(Users(g) \cup {v}) <= Cardinality(Vmr)
    BY <2>2, FS_AddElement, FS_Subset, VmrAssumption
  <2>4. \A f \in FileId : Cardinality(Users(f)') = Cardinality(Users(f)) + (IF f = g THEN 1 ELSE 0)
    BY <1>2, <1>6, <2>3, UsersFinite
  <2>5. Held(g) > 0 /\ Held(g) <= Cardinality(Vmr)
    BY <2>2, <2>3 DEF Held
  <2>6. \A f \in FileId : Held(f)' = IF f = g THEN Held(f) + 1 ELSE Held(f)
    BY <1>2, <1>3, <2>4, UsersFinite DEF Held
  <2> QED
    BY <1>1, <1>2, <2>1, <2>5, <2>6, FilesHold
<1> QED
  BY <1>7, <1>8

\* A step of the kernel that ends a call, or goes on from loop to loop.
LEMMA FilesEnd ==
  ASSUME VmCore, CallFile, GiveUp \/ MapEnd \/ PopulateEnd \/ Mapped \/ UnmapEnd \/ ProtectEnd
  PROVE  (Files!Next \/ UNCHANGED Files!vars) /\ CallFile'
<1>1. MemTypes /\ op \in Op /\ op.file \in FileId \cup {NULL}
  BY DEF VmCore, CallTypes, Op, FileId
<1>2. CASE GiveUp \/ Mapped
  <2>1. /\ DropFile /\ op' = NoOp /\ pc' = "user"
        /\ UNCHANGED <<vmr, vmrs, vmr_free, fds, kfd>>
    BY <1>2 DEF GiveUp, Mapped, memory
  <2>2. op'.file = NULL
    BY <2>1 DEF NoOp
  <2> QED
    BY <1>1, <2>1, <2>2, FilesDropFile DEF CallFile
<1>3. CASE MapEnd \/ PopulateEnd
  <2>1. /\ UNCHANGED <<vmr, vmrs, vmr_free>> /\ UNCHANGED filevars
        /\ pc' \in {"populate", "mapped"}
    BY <1>3 DEF MapEnd, PopulateEnd, memory
  <2>2. op'.file = op.file
    BY <1>1, <1>3 DEF MapEnd, PopulateEnd, Op
  <2> QED
    BY <2>1, <2>2, FilesStill DEF CallFile, Mapping
<1>4. CASE UnmapEnd \/ ProtectEnd
  <2>1. /\ UNCHANGED <<vmr, vmrs, vmr_free>> /\ UNCHANGED filevars
        /\ op' = NoOp /\ pc \in {"unmap", "protect"}
    BY <1>4 DEF UnmapEnd, ProtectEnd, memory
  <2>2. op'.file = NULL /\ op.file = NULL
    BY <2>1 DEF CallFile, NoOp, Mapping, Stopped
  <2> QED
    BY <2>1, <2>2, FilesStill DEF CallFile
<1> QED
  BY <1>2, <1>3, <1>4

LEMMA FilesPanic ==
  ASSUME NEW why, Panic(why), why \in {"out of memory", "no page table", "past end of file", "segfault"}
  PROVE  UNCHANGED Files!vars /\ CallFile'
<1>1. pc' = why /\ op' = op /\ UNCHANGED <<vmr, vmrs, vmr_free>> /\ UNCHANGED filevars
  BY DEF Panic, memory
<1>2. CallFile'
  BY <1>1 DEF CallFile, Stopped
<1> QED
  BY <1>1, <1>2, FilesStill

\* The loops of the kernel, and the accesses that trap.
LEMMA FilesLoop ==
  ASSUME VmCore, CallFile,
         \/ MapPage \/ PopulatePage \/ PopulatePastEnd
         \/ UnmapPage \/ ProtectLeaf \/ ProtectPromise
         \/ \E p \in Page : TouchPastEnd(p) \/ \E a \in Perm : Touch(p, a) \/ Segfault(p, a)
  PROVE  (Files!Next \/ UNCHANGED Files!vars) /\ CallFile'
<1>1. MemTypes /\ PromisesExact /\ op \in Op /\ ToMap \in Nat
  BY CoreFacts DEF VmCore, CallTypes
<1>2. CASE MapPage
  <2>1. CASE Panic("no page table")
    BY <2>1, FilesPanic
  <2>2. CASE ~ Panic("no page table")
    <3>1. /\ \E avail : Unmap(op.at, avail)
          /\ op' = [op EXCEPT !.at = op.at + 1] /\ pc' = pc /\ pc = "map" /\ op.at <= op.last
          /\ vmrs' = vmrs /\ UNCHANGED <<fds, kfd>>
      BY <1>2, <2>2 DEF MapPage
    <3>2. op'.file = op.file /\ op.at \in Page
      BY <1>1, <3>1, LoopPage DEF Op
    <3> QED
      BY <1>1, <3>1, <3>2, FilesUnmap DEF CallFile, Mapping
  <2> QED
    BY <2>1, <2>2
<1>3. CASE PopulatePage
  <2>1. CASE Panic("out of memory")
    BY <2>1, FilesPanic
  <2>2. CASE ~ Panic("out of memory")
    <3>1. /\ FaultIn(op.at) /\ pc = "populate" /\ op.at <= op.last
          /\ \/ pc' = pc /\ op' = [op EXCEPT !.at = @ + 1]
             \/ pc' = "populate failed" /\ op' = op
          /\ vmrs' = vmrs /\ UNCHANGED <<fds, kfd>>
      BY <1>3, <2>2 DEF PopulatePage
    <3>2. op'.file = op.file /\ op.at \in Page /\ LoopDone /\ op.at \in Nat /\ op.last \in Nat
      BY <1>1, <3>1, LoopPage DEF Op
    <3>3. pte[op.at].tag = "vmr"
      <4>1. op.at <= op.last
        BY <3>1
      <4>2. op.at \in op.at .. op.last
        BY <3>2, <4>1
      <4>3. pte[op.at] = Promise(op.v)
        BY <3>1, <3>2, <4>2 DEF LoopDone
      <4> QED
        BY <4>3 DEF Promise
    <3>4. CallFile'
      BY <3>1 DEF CallFile, Mapping, Stopped
    <3> QED
      BY <1>1, <3>1, <3>2, <3>3, <3>4, FilesFault
  <2> QED
    BY <2>1, <2>2
<1>4. CASE UnmapPage
  <2>1. /\ Unmap(op.at, free) /\ op.at <= op.last /\ pc' = pc /\ pc = "unmap"
        /\ op' = [op EXCEPT !.at = @ + 1]
        /\ vmrs' = vmrs /\ UNCHANGED <<fds, kfd>>
    BY <1>4 DEF UnmapPage
  <2>2. op'.file = op.file /\ op.at \in Page
    BY <1>1, <2>1, LoopPage DEF Op
  <2>3. CallFile'
    BY <2>1, <2>2 DEF CallFile, Mapping, Stopped
  <2> QED
    BY <1>1, <2>1, <2>2, <2>3, FilesUnmap
<1>5. CASE ProtectLeaf
  <2>1. /\ UNCHANGED <<vmr, vmrs, vmr_free>> /\ UNCHANGED filevars
        /\ pc' = pc /\ op' = [op EXCEPT !.at = @ + 1]
    BY <1>5 DEF ProtectLeaf
  <2>2. op'.file = op.file
    BY <1>1, <2>1 DEF Op
  <2> QED
    BY <2>1, <2>2, FilesStill DEF CallFile, Mapping, Stopped
<1>6. CASE ProtectPromise
  <2> DEFINE w == pte[op.at].vmr
  <2>1. /\ vmr' = [vmr EXCEPT ![w].prot = op.prot]
        /\ UNCHANGED <<vmrs, vmr_free>> /\ UNCHANGED filevars
        /\ pc' = pc /\ op' = [op EXCEPT !.at = @ + 1]
    BY <1>6 DEF ProtectPromise
  <2>2. op'.file = op.file
    BY <1>1, <2>1 DEF Op
  <2>3. \A v \in Used : vmr'[v].file = vmr[v].file
    <3> TAKE v \in Used
    <3>1. v \in Vmr /\ vmr[v] \in Region
      BY <1>1 DEF MemTypes, Used
    <3>2. vmr'[v] = IF v = w THEN [vmr[v] EXCEPT !.prot = op.prot] ELSE vmr[v]
      BY <1>1, <2>1, <3>1 DEF MemTypes
    <3> QED
      BY <3>1, <3>2 DEF Region
  <2>4. \A f \in FileId : Users(f)' = Users(f)
    BY <2>1, <2>3 DEF Users, Used
  <2>5. UNCHANGED Files!vars
    BY <2>1, <2>2, <2>4, RefsStay DEF filevars, Files!vars
  <2> QED
    BY <2>1, <2>2, <2>5 DEF CallFile, Mapping, Stopped
<1>7. CASE \E p \in Page, a \in Perm : Touch(p, a)
  <2>1. PICK p \in Page, a \in Perm : Touch(p, a)
    BY <1>7
  <2>2. CASE Panic("out of memory")
    BY <2>2, FilesPanic
  <2>3. CASE ~ Panic("out of memory")
    <3>1. /\ FaultIn(p) /\ pte[p].tag = "vmr" /\ pc = "user" /\ pc' \in {"user", "segfault"}
          /\ op' = op /\ vmrs' = vmrs /\ UNCHANGED <<fds, kfd>>
      BY <2>1, <2>3 DEF Touch, current
    <3>2. CallFile'
      BY <3>1 DEF CallFile, Mapping, Stopped
    <3> QED
      BY <1>1, <3>1, <3>2, FilesFault
  <2> QED
    BY <2>2, <2>3
<1>8. CASE PopulatePastEnd \/ \E p \in Page : TouchPastEnd(p) \/ \E a \in Perm : Segfault(p, a)
  <2>1. Panic("past end of file") \/ Panic("segfault")
    BY <1>8 DEF PopulatePastEnd, TouchPastEnd, Segfault
  <2> QED
    BY <2>1, FilesPanic
<1> QED
  BY <1>2, <1>3, <1>4, <1>5, <1>6, <1>7, <1>8

LEMMA FilesStep ==
  VmCore /\ FP!IInv /\ CallFile /\ [Next]_vars => [Files!Next]_Files!vars /\ CallFile'
<1> SUFFICES ASSUME VmCore, FP!IInv, CallFile, [Next]_vars
             PROVE  (Files!Next \/ UNCHANGED Files!vars) /\ CallFile'
  OBVIOUS
<1>1. CASE \E v \in Vmr, N \in SUBSET Vmr, a \in Page : AllocVmr(v, N, a)
  <2>1. pc' = "map"
    BY <1>1 DEF AllocVmr
  <2> QED
    BY <1>1, <2>1, FilesAlloc DEF CallFile, Mapping
<1>2. CASE /\ Kernel
           /\ ~ \E v \in Vmr, N \in SUBSET Vmr, a \in Page : AllocVmr(v, N, a)
  BY <1>2, FilesEnd, FilesLoop DEF Kernel
<1>3. CASE \E p \in Page : TouchPastEnd(p) \/ \E a \in Perm : Touch(p, a) \/ Segfault(p, a)
  BY <1>3, FilesLoop
<1>4. CASE \E p \in Page, n \in 1 .. NPages, prot \in Prots, fixed, populate \in BOOLEAN,
              d \in MapFds : Mmap(p, n, prot, fixed, populate, d)
  <2>1. pc' = "alloc"
    BY <1>4 DEF Mmap
  <2> QED
    BY <1>4, <2>1, FilesMmap DEF CallFile
<1>5. ASSUME NEW c, NEW first, NEW last, NEW prot, EnterLoop(c, first, last, prot)
      PROVE  UNCHANGED Files!vars /\ CallFile'
  <2>1. /\ UNCHANGED <<vmr, vmrs, vmr_free>> /\ UNCHANGED filevars
        /\ pc = "user"
        /\ op' = [NoOp EXCEPT !.call = c, !.first = first, !.last = last, !.at = first, !.prot = prot]
    BY <1>5 DEF EnterLoop, memory
  <2>2. op'.file = NULL /\ op.file = NULL
    BY <2>1 DEF CallFile, NoOp, Mapping, Stopped
  <2> QED
    BY <2>1, <2>2, FilesStill DEF CallFile
<1>6. CASE \E b \in 0 .. NPages : GrowBrk(b)
  <2>1. /\ UNCHANGED <<vmr, vmrs, vmr_free>> /\ UNCHANGED filevars
        /\ pc = "user" /\ pc' = "alloc" /\ op'.file = NULL
    BY <1>6 DEF GrowBrk, memory
  <2>2. op.file = NULL
    BY <2>1 DEF CallFile, Mapping, Stopped
  <2> QED
    BY <2>1, <2>2, FilesStill DEF CallFile
<1>7. CASE \E b \in 0 .. NPages : ShrinkBrk(b)
  BY <1>5, <1>7 DEF ShrinkBrk
<1>8. CASE UsesFiles /\ pc = "user" /\ UNCHANGED vmvars /\ Files!FileCall
  BY <1>8 DEF Files!Next, CallFile, Mapping, Stopped, vmvars
<1>9. CASE UNCHANGED vars
  BY <1>9, FilesStill DEF vars, vmvars, memory, CallFile, Mapping, Stopped
<1>10. CASE \E p \in Page, n \in 1 .. NPages :
              \/ p + n <= NPages /\ EnterLoop("munmap", p, p + n - 1, {})
              \/ \E prot \in Prots : p + n <= NPages /\ EnterLoop("mprotect", p, p + n - 1, prot)
  BY <1>5, <1>10
<1> QED
  BY <1>1, <1>2, <1>3, <1>4, <1>6, <1>7, <1>8, <1>9, <1>10, Zenon DEF Next, Program

LEMMA FilesInit == Init => Files!Init /\ CallFile
<1> SUFFICES ASSUME Init
             PROVE  CallFile
  BY DEF Init
<1> QED
  BY DEF Init, CallFile, NoOp

FileCore == FP!IInv /\ CallFile

LEMMA FileCoreInit == Init => FileCore
<1>1. FP!Init => FP!IInv
  BY FilesBounds, FP!InitInv
<1> QED
  BY <1>1, FilesInit, SameSteps DEF FileCore

LEMMA FileCoreStep ==
  VmCore /\ FileCore /\ [Next]_vars => [Files!Next]_Files!vars /\ FileCore'
<1> SUFFICES ASSUME VmCore, FileCore, [Next]_vars
             PROVE  [Files!Next]_Files!vars /\ FileCore'
  OBVIOUS
<1>1. [Files!Next]_Files!vars /\ CallFile'
  BY FilesStep DEF FileCore
<1>2. [FP!Next]_FP!vars
  BY <1>1, SameSteps DEF Files!vars, FP!vars
<1>3. FP!IInv /\ [FP!Next]_FP!vars => FP!IInv'
  BY FilesBounds, FP!InvStep
<1> QED
  BY <1>1, <1>2, <1>3 DEF FileCore

LEMMA FileCoreInvariance == Spec => []FileCore
  BY FileCoreInit, FileCoreStep, VmCoreInvariance, PTL DEF Spec

\* FilesSpec: with the references that regions and calls have, the memory map
\* uses open files as PkFiles specifies.
THEOREM FilesImplemented == Spec => FilesSpec
<1>1. Init => Files!Init
  BY FilesInit
<1> QED
  BY <1>1, FileCoreStep, VmCoreInvariance, FileCoreInvariance, PTL DEF Spec, FilesSpec, Files!Spec

\* The host keeps open exactly the files that descriptors, regions of the
\* memory map and calls refer to.
THEOREM MappedFilesOpen == Spec => []Files!HostExact
<1>1. FileCore => Files!HostExact
  BY SameFile DEF FileCore, FP!IInv, FP!Lockstep, Files!HostExact
<1> QED
  BY <1>1, FileCoreInvariance, PTL
=============================================================================
