--------------------------- MODULE PkFiles_proofs ---------------------------
(***************************************************************************)
(* Proofs about PkFiles, for every size of the two tables: type            *)
(* correctness, RefcntExact and HostExact.                                 *)
(***************************************************************************)
EXTENDS PkFiles, FiniteSetTheorems, TLAPS

LEMMA Ranges ==
  /\ File \subseteq Nat
  /\ NULL \notin File
  /\ NULL = -1
  /\ Stdio \subseteq File
  /\ Stdio \subseteq Fd
  /\ IsFiniteSet(Fd)
<1>1. IsFiniteSet(0 .. MAX_FDS - 1)
  BY FdsAssumption, FS_Interval
<1> QED
  BY <1>1, FdsAssumption, FilesAssumption DEF File, Fd, Stdio, NULL

-----------------------------------------------------------------------------
(* Counting descriptors *)

LEMMA FdsFinite ==
  ASSUME NEW f
  PROVE  IsFiniteSet(Fds(f)) /\ Cardinality(Fds(f)) \in Nat
<1>1. Fds(f) \in SUBSET Fd
  BY DEF Fds
<1>2. IsFiniteSet(Fds(f))
  BY <1>1, Ranges, FS_Subset
<1> QED
  BY <1>2, FS_CardinalityType

\* A file with a descriptor has a positive number of them.
LEMMA FdsPositive ==
  ASSUME NEW d \in Fd
  PROVE  Cardinality(Fds(fds[d])) >= 1
<1>1. Fds(fds[d]) # {}
  BY DEF Fds
<1> QED
  BY <1>1, FdsFinite, FS_EmptySet

\* Installing a file in a free descriptor.
LEMMA FdsInstall ==
  ASSUME TypeOK, NEW d \in Fd, NEW f \in File, fds[d] = NULL,
         fds' = [fds EXCEPT ![d] = f]
  PROVE  \A g \in File :
           Cardinality(Fds(g)') = Cardinality(Fds(g)) + (IF g = f THEN 1 ELSE 0)
<1> SUFFICES ASSUME NEW g \in File
             PROVE  Cardinality(Fds(g)') =
                      Cardinality(Fds(g)) + (IF g = f THEN 1 ELSE 0)
  OBVIOUS
<1>1. CASE g = f
  <2>1. Fds(g)' = Fds(g) \cup {d} /\ d \notin Fds(g)
    BY <1>1, Ranges DEF Fds, TypeOK
  <2> QED
    BY <1>1, <2>1, FdsFinite, FS_AddElement
<1>2. CASE g # f
  <2>1. Fds(g)' = Fds(g)
    BY <1>2, Ranges DEF Fds, TypeOK
  <2> QED
    BY <1>2, <2>1, FdsFinite
<1> QED
  BY <1>1, <1>2

\* Clearing a descriptor.
LEMMA FdsClear ==
  ASSUME TypeOK, NEW d \in Fd, fds[d] # NULL,
         fds' = [fds EXCEPT ![d] = NULL]
  PROVE  \A g \in File :
           Cardinality(Fds(g)') =
             Cardinality(Fds(g)) - (IF g = fds[d] THEN 1 ELSE 0)
<1> SUFFICES ASSUME NEW g \in File
             PROVE  Cardinality(Fds(g)') =
                      Cardinality(Fds(g)) - (IF g = fds[d] THEN 1 ELSE 0)
  OBVIOUS
<1>1. CASE g = fds[d]
  <2>1. Fds(g)' = Fds(g) \ {d} /\ d \in Fds(g)
    BY <1>1, Ranges DEF Fds, TypeOK
  <2> QED
    BY <1>1, <2>1, FdsFinite, FS_RemoveElement
<1>2. CASE g # fds[d]
  <2>1. Fds(g)' = Fds(g)
    BY <1>2, Ranges DEF Fds, TypeOK
  <2> QED
    BY <1>2, <2>1, FdsFinite
<1> QED
  BY <1>1, <1>2

-----------------------------------------------------------------------------
(* The inductive invariant *)

\* Both sides hand out their lowest free number, so that an open file's kfd
\* is its own index, and the stale kfd of a free one is not open.
Lockstep ==
  /\ host = {f \in File : refcnt[f] # 0}
  /\ \A f \in File :
       /\ refcnt[f] # 0 => kfd[f] = f
       /\ refcnt[f] = 0 => kfd[f] \in {f, -1}

IInv == TypeOK /\ RefcntExact /\ Lockstep

\* RefcntExact of one file, whose descriptors are counted by n.
Exact(f, r, n) ==
  IF r = 0 THEN n = 0 /\ f \notin Stdio
  ELSE r = n + (IF f \in Stdio THEN 2 ELSE 1) /\ r > 1

LEMMA RefcntExactEach ==
  RefcntExact <=>
    \A f \in File : Exact(f, refcnt[f], Cardinality(Fds(f)) + held[f])
  BY DEF RefcntExact, Exact

LEMMA HostOpensIndex ==
  ASSUME TypeOK, Lockstep, NEW f \in File, GetsFree(f),
         NEW k \in Nat, HostOpens(k)
  PROVE  k = f
<1>1. ASSUME k < f
      PROVE  FALSE
  <2>1. k \in File
    BY <1>1, FilesAssumption DEF File
  <2> QED
    BY <1>1, <2>1 DEF Lockstep, GetsFree, HostOpens
<1>2. ASSUME f < k
      PROVE  FALSE
  BY <1>2, Ranges DEF Lockstep, GetsFree, HostOpens
<1> QED
  BY <1>1, <1>2, Ranges

\* Opening the free file struct f, whatever refers to it.
LEMMA OpenStep ==
  ASSUME IInv, NEW f \in File, GetsFree(f), NEW k \in Nat, HostOpens(k),
         refcnt' = [refcnt EXCEPT ![f] = 2],
         kfd' = [kfd EXCEPT ![f] = k],
         host' = host \cup {k},
         fds' \in [Fd -> File \cup {NULL}],
         held' \in [File -> Nat],
         \A g \in File :
           Cardinality(Fds(g)') + held'[g] =
             Cardinality(Fds(g)) + held[g] + (IF g = f THEN 1 ELSE 0)
  PROVE  IInv'
<1> USE DEF IInv
<1>1. k = f
  BY HostOpensIndex
<1>2. TypeOK'
  BY <1>1, Ranges DEF TypeOK
<1>3. Lockstep'
  BY <1>1, Ranges DEF TypeOK, Lockstep
<1>4. RefcntExact'
  <2> SUFFICES ASSUME NEW g \in File
               PROVE  Exact(g, refcnt'[g], Cardinality(Fds(g)') + held'[g])
    BY DEF RefcntExact, Exact
  <2>1. Exact(g, refcnt[g], Cardinality(Fds(g)) + held[g])
    BY RefcntExactEach
  <2> QED
    BY <2>1, FdsFinite DEF Exact, TypeOK, GetsFree
<1> QED
  BY <1>2, <1>3, <1>4

\* One more reference to the open file f.
LEMMA IncrefStep ==
  ASSUME IInv, NEW f \in File, refcnt[f] # 0, Incref(f),
         UNCHANGED <<kfd, host>>,
         fds' \in [Fd -> File \cup {NULL}],
         held' \in [File -> Nat],
         \A g \in File :
           Cardinality(Fds(g)') + held'[g] =
             Cardinality(Fds(g)) + held[g] + (IF g = f THEN 1 ELSE 0)
  PROVE  IInv'
<1> USE DEF IInv
<1>1. TypeOK'
  <2>1. refcnt' \in [File -> Nat]
    BY DEF TypeOK, Incref
  <2> QED
    BY <2>1 DEF TypeOK
<1>2. Lockstep'
  BY DEF TypeOK, Lockstep, Incref
<1>3. RefcntExact'
  <2> SUFFICES ASSUME NEW g \in File
               PROVE  Exact(g, refcnt'[g], Cardinality(Fds(g)') + held'[g])
    BY DEF RefcntExact, Exact
  <2>1. Exact(g, refcnt[g], Cardinality(Fds(g)) + held[g])
    BY RefcntExactEach
  <2> QED
    BY <2>1, FdsFinite DEF Exact, TypeOK, Incref
<1> QED
  BY <1>1, <1>2, <1>3

\* One reference less to the file f.
LEMMA DecrefStep ==
  ASSUME IInv, NEW f \in File, Decref(f), UNCHANGED kfd,
         Cardinality(Fds(f)) + held[f] >= 1,
         fds' \in [Fd -> File \cup {NULL}],
         held' \in [File -> Nat],
         \A g \in File :
           Cardinality(Fds(g)') + held'[g] =
             Cardinality(Fds(g)) + held[g] - (IF g = f THEN 1 ELSE 0)
  PROVE  IInv'
<1> USE DEF IInv
<1>1. refcnt[f] \in Nat /\ refcnt[f] >= 2
  BY FdsFinite DEF RefcntExact, TypeOK
<1>2. /\ refcnt' = [refcnt EXCEPT ![f] = IF refcnt[f] = 2 THEN 0 ELSE @ - 1]
      /\ host' = IF refcnt[f] = 2 THEN host \ {kfd[f]} ELSE host
  BY DEF Decref
<1>3. TypeOK'
  <2>1. refcnt' \in [File -> Nat]
    BY <1>1, <1>2 DEF TypeOK
  <2>2. host' \subseteq Nat
    BY <1>2 DEF TypeOK
  <2> QED
    BY <2>1, <2>2 DEF TypeOK
<1>4. Lockstep'
  <2>1. CASE refcnt[f] = 2
    <3>1. /\ refcnt' = [refcnt EXCEPT ![f] = 0]
          /\ host' = host \ {f}
      BY <1>2, <2>1 DEF Lockstep
    <3> QED
      BY <3>1, <2>1 DEF TypeOK, Lockstep
  <2>2. CASE refcnt[f] # 2
    <3>1. /\ refcnt' = [refcnt EXCEPT ![f] = @ - 1]
          /\ refcnt[f] - 1 # 0
          /\ host' = host
      BY <1>1, <1>2, <2>2
    <3>2. \A g \in File : refcnt'[g] # 0 <=> refcnt[g] # 0
      BY <1>1, <3>1 DEF TypeOK
    <3> QED
      BY <3>1, <3>2 DEF Lockstep
  <2> QED
    BY <2>1, <2>2
<1>5. RefcntExact'
  <2> SUFFICES ASSUME NEW g \in File
               PROVE  Exact(g, refcnt'[g], Cardinality(Fds(g)') + held'[g])
    BY DEF RefcntExact, Exact
  <2>1. Exact(g, refcnt[g], Cardinality(Fds(g)) + held[g])
    BY RefcntExactEach
  <2> QED
    BY <1>1, <1>2, <2>1, FdsFinite DEF Exact, TypeOK
<1> QED
  BY <1>3, <1>4, <1>5

LEMMA InitInv == Init => IInv
<1> SUFFICES ASSUME Init
             PROVE  IInv
  OBVIOUS
<1>1. TypeOK /\ Lockstep
  BY Ranges DEF Init, TypeOK, Lockstep, Stdio
<1>2. ASSUME NEW f \in File
      PROVE  Exact(f, refcnt[f], Cardinality(Fds(f)) + held[f])
  <2>1. CASE f \in Stdio
    <3>1. Fds(f) = {f}
      BY <2>1, Ranges DEF Init, Fds
    <3>2. Cardinality(Fds(f)) = 1
      BY <3>1, FS_Singleton
    <3> QED
      BY <2>1, <3>2 DEF Init, Exact
  <2>2. CASE f \notin Stdio
    <3>1. Fds(f) = {}
      BY <2>2, Ranges DEF Init, Fds
    <3>2. Cardinality(Fds(f)) = 0
      BY <3>1, FS_EmptySet
    <3> QED
      BY <2>2, <3>2 DEF Init, Exact
  <2> QED
    BY <2>1, <2>2
<1> QED
  BY <1>1, <1>2, RefcntExactEach DEF IInv

LEMMA InvStep == IInv /\ [Next]_vars => IInv'
<1> SUFFICES ASSUME IInv, [Next]_vars
             PROVE  IInv'
  OBVIOUS
<1> USE DEF IInv
<1>0. 0 .. MAX_FILES \subseteq Nat
  OBVIOUS
<1>1. ASSUME NEW f \in File, NEW k \in Nat, NEW d \in Fd, Openat(f, k, d)
      PROVE  IInv'
  <2>1. fds[d] = NULL /\ fds' = [fds EXCEPT ![d] = f] /\ held' = held
    BY <1>1 DEF Openat, GetsFd
  <2>2. fds' \in [Fd -> File \cup {NULL}] /\ held' \in [File -> Nat]
    BY <2>1 DEF TypeOK
  <2>3. \A g \in File :
           Cardinality(Fds(g)') + held'[g] =
             Cardinality(Fds(g)) + held[g] + (IF g = f THEN 1 ELSE 0)
    <3> TAKE g \in File
    <3>1. /\ Cardinality(Fds(g)') =
               Cardinality(Fds(g)) + (IF g = f THEN 1 ELSE 0)
          /\ Cardinality(Fds(g)) \in Nat
      BY <2>1, FdsInstall, FdsFinite
    <3>2. held'[g] = held[g] /\ held[g] \in Nat
      BY <2>1 DEF TypeOK
    <3> QED
      BY <3>1, <3>2
  <2> QED
    BY <1>1, <2>2, <2>3, OpenStep DEF Openat
<1>2. ASSUME NEW f \in File, NEW k \in Nat, OpenatNoFd(f, k)
      PROVE  IInv'
  <2>1. k = f
    BY <1>2, HostOpensIndex DEF OpenatNoFd
  <2>2. TypeOK' /\ Lockstep'
    BY <1>2, <2>1, Ranges DEF OpenatNoFd, GetsFree, TypeOK, Lockstep
  <2> QED
    BY <1>2, <2>2 DEF OpenatNoFd, RefcntExact, Fds
<1>3. ASSUME NEW f \in File, NEW k \in Nat, OpenProgram(f, k)
      PROVE  IInv'
  <2>1. held[f] = 0
    BY <1>3, FdsFinite DEF OpenProgram, GetsFree, RefcntExact, TypeOK
  <2>2. fds' = fds /\ held' = [held EXCEPT ![f] = 1]
    BY <1>3 DEF OpenProgram
  <2>3. fds' \in [Fd -> File \cup {NULL}] /\ held' \in [File -> Nat]
    BY <2>2 DEF TypeOK
  <2>4. \A g \in File :
           Cardinality(Fds(g)') + held'[g] =
             Cardinality(Fds(g)) + held[g] + (IF g = f THEN 1 ELSE 0)
    BY <2>1, <2>2, FdsFinite DEF TypeOK, Fds
  <2> QED
    BY <1>3, <2>3, <2>4, OpenStep DEF OpenProgram
<1>4. ASSUME NEW f \in File, OpenatRefused(f)
      PROVE  IInv'
  <2>1. host' = host /\ UNCHANGED <<fds, refcnt, kfd, held>>
    BY <1>4, Ranges DEF OpenatRefused, GetsFree, Lockstep
  <2> QED
    BY <2>1 DEF TypeOK, Lockstep, RefcntExact, Fds
<1>5. ASSUME NEW f \in File, Hold(f)
      PROVE  IInv'
  <2>1. fds' = fds /\ held' = [held EXCEPT ![f] = @ + 1] /\ refcnt[f] # 0
    BY <1>5 DEF Hold, TypeOK
  <2>2. fds' \in [Fd -> File \cup {NULL}] /\ held' \in [File -> Nat]
    BY <2>1 DEF TypeOK
  <2>3. \A g \in File :
           Cardinality(Fds(g)') + held'[g] =
             Cardinality(Fds(g)) + held[g] + (IF g = f THEN 1 ELSE 0)
    <3> TAKE g \in File
    <3>1. Fds(g)' = Fds(g) /\ Cardinality(Fds(g)) \in Nat
      BY <2>1, FdsFinite DEF Fds
    <3>2. held'[g] = held[g] + (IF g = f THEN 1 ELSE 0) /\ held[g] \in Nat
      BY <2>1 DEF TypeOK
    <3> QED
      BY <3>1, <3>2
  <2> QED
    BY <1>5, <2>1, <2>2, <2>3, IncrefStep DEF Hold
<1>6. ASSUME NEW f \in File, Release(f)
      PROVE  IInv'
  <2>1. fds' = fds /\ held' = [held EXCEPT ![f] = @ - 1] /\ held[f] > 0
    BY <1>6 DEF Release
  <2>2. fds' \in [Fd -> File \cup {NULL}] /\ held' \in [File -> Nat]
    BY <2>1 DEF TypeOK
  <2>3. \A g \in File :
           Cardinality(Fds(g)') + held'[g] =
             Cardinality(Fds(g)) + held[g] - (IF g = f THEN 1 ELSE 0)
    <3> TAKE g \in File
    <3>1. Fds(g)' = Fds(g) /\ Cardinality(Fds(g)) \in Nat
      BY <2>1, FdsFinite DEF Fds
    <3>2. held'[g] = held[g] - (IF g = f THEN 1 ELSE 0) /\ held[g] \in Nat
      BY <2>1 DEF TypeOK
    <3> QED
      BY <3>1, <3>2
  <2>4. Cardinality(Fds(f)) + held[f] >= 1
    BY <2>1, FdsFinite DEF TypeOK
  <2> QED
    BY <1>6, <2>2, <2>3, <2>4, DecrefStep DEF Release
<1>7. ASSUME NEW d \in Fd, Close(d)
      PROVE  IInv'
  <2>1. /\ fds[d] \in File
        /\ fds[d] # NULL
        /\ fds' = [fds EXCEPT ![d] = NULL]
        /\ held' = held
    BY <1>7 DEF Close, TypeOK
  <2>2. fds' \in [Fd -> File \cup {NULL}] /\ held' \in [File -> Nat]
    BY <2>1 DEF TypeOK
  <2>3. \A g \in File :
           Cardinality(Fds(g)') + held'[g] =
             Cardinality(Fds(g)) + held[g] - (IF g = fds[d] THEN 1 ELSE 0)
    <3> TAKE g \in File
    <3>1. /\ Cardinality(Fds(g)') =
               Cardinality(Fds(g)) - (IF g = fds[d] THEN 1 ELSE 0)
          /\ Cardinality(Fds(g)) \in Nat
      BY <2>1, FdsClear, FdsFinite
    <3>2. held'[g] = held[g] /\ held[g] \in Nat
      BY <2>1 DEF TypeOK
    <3> QED
      BY <3>1, <3>2
  <2>4. Cardinality(Fds(fds[d])) + held[fds[d]] >= 1
    <3>1. held[fds[d]] \in Nat
      BY <2>1 DEF TypeOK
    <3> QED
      BY <3>1, FdsPositive, FdsFinite
  <2> QED
    BY <1>7, <2>1, <2>2, <2>3, <2>4, DecrefStep DEF Close
<1>8. ASSUME NEW d \in Fd, NEW e \in Fd, Dup(d, e) \/ Dup3(d, e)
      PROVE  IInv'
  <2>1. /\ fds[d] \in File
        /\ fds[e] = NULL
        /\ fds' = [fds EXCEPT ![e] = fds[d]]
        /\ held' = held
        /\ Incref(fds[d])
        /\ UNCHANGED <<kfd, host>>
    BY <1>8 DEF Dup, Dup3, GetsFd, TypeOK
  <2>2. fds' \in [Fd -> File \cup {NULL}] /\ held' \in [File -> Nat]
    BY <2>1 DEF TypeOK
  <2>3. refcnt[fds[d]] # 0
    BY <2>1, FdsPositive, FdsFinite DEF RefcntExact, TypeOK
  <2>4. \A g \in File :
           Cardinality(Fds(g)') + held'[g] =
             Cardinality(Fds(g)) + held[g] + (IF g = fds[d] THEN 1 ELSE 0)
    <3> TAKE g \in File
    <3>1. /\ Cardinality(Fds(g)') =
               Cardinality(Fds(g)) + (IF g = fds[d] THEN 1 ELSE 0)
          /\ Cardinality(Fds(g)) \in Nat
      BY <2>1, FdsInstall, FdsFinite
    <3>2. held'[g] = held[g] /\ held[g] \in Nat
      BY <2>1 DEF TypeOK
    <3> QED
      BY <3>1, <3>2
  <2> QED
    BY <2>1, <2>2, <2>3, <2>4, IncrefStep
<1>9. CASE UNCHANGED vars
  BY <1>9 DEF vars, TypeOK, Lockstep, RefcntExact, Fds
<1> QED
  BY <1>0, <1>1, <1>2, <1>3, <1>4, <1>5, <1>6, <1>7, <1>8, <1>9 DEF Next, FileCall, Other

\* What refers to a file keeps it open.
LEMMA Referred ==
  ASSUME IInv, NEW f \in File, held[f] > 0 \/ \E d \in Fd : fds[d] = f
  PROVE  refcnt[f] > 0
<1>1. /\ refcnt[f] \in Nat /\ held[f] \in Nat
      /\ Exact(f, refcnt[f], Cardinality(Fds(f)) + held[f])
  BY RefcntExactEach DEF IInv, TypeOK
<1>2. Cardinality(Fds(f)) \in Nat /\ (Fds(f) # {} => Cardinality(Fds(f)) > 0)
  BY FdsFinite, FS_EmptySet
<1>3. Cardinality(Fds(f)) + held[f] > 0
  BY <1>1, <1>2 DEF Fds
<1> QED
  BY <1>1, <1>3 DEF Exact

THEOREM Invariance == Spec => []IInv
  BY InitInv, InvStep, PTL DEF Spec

-----------------------------------------------------------------------------
(* The theorems *)

\* The tables of file.c keep their types: no reference count wraps below 0.
THEOREM TypeCorrect == Spec => []TypeOK
<1>1. IInv => TypeOK
  BY DEF IInv
<1> QED
  BY <1>1, Invariance, PTL

\* file_decref closes a file with its last reference and not before.
THEOREM CountsExact == Spec => []RefcntExact
<1>1. IInv => RefcntExact
  BY DEF IInv
<1> QED
  BY <1>1, Invariance, PTL

\* The host descriptors open on the kernel's behalf are those of its open
\* files, one each.
THEOREM HostAgrees == Spec => []HostExact
<1>1. IInv => HostExact
  BY DEF IInv, Lockstep, HostExact
<1> QED
  BY <1>1, Invariance, PTL
=============================================================================
