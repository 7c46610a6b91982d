-------------------------- MODULE Syscalls_proofs ---------------------------
(***************************************************************************)
(* Proofs about Syscalls, for every number and length of buffers: a call   *)
(* only takes the steps PkFiles has, returns the reference it took, and    *)
(* moves the bytes it says.                                                *)
(***************************************************************************)
EXTENDS Syscalls, PkFiles_proofs, SequenceTheorems, WellFoundedInduction

\* The call has a reference to its file.
Keeps == \/ pc = "chunk"
         \/ pc = "next" /\ call.op = "readv"

CallInv ==
  /\ fds \in [Fd -> File \cup {NULL}]
  /\ call.file \in File
  /\ regions \in [File -> Nat]
  /\ held = [f \in File |-> regions[f] + (IF Keeps /\ f = call.file THEN 1 ELSE 0)]

LEMMA CallInitInv == CallInit => CallInv
  BY Ranges DEF CallInit, Init, CallInv, Keeps, NoCall, Stdio

\* A step that keeps the reference the call has, if any.
LEMMA CallKeptStep ==
  ASSUME CallInv, Stays, call' = call, Keeps' <=> Keeps
  PROVE  CallInv'
  BY DEF CallInv, Stays, filevars

LEMMA CallGetStep ==
  ASSUME CallInv, FileGet(call'.file), call'.file \in File, ~ Keeps, Keeps'
  PROVE  CallInv'
<1>1. /\ fds' = fds
      /\ regions' = regions
      /\ held' = [held EXCEPT ![call'.file] = @ + 1]
  BY DEF FileGet, Hold
<1>2. held' = [f \in File |-> regions[f] + (IF f = call'.file THEN 1 ELSE 0)]
  BY <1>1 DEF CallInv
<1> QED
  BY <1>1, <1>2 DEF CallInv

LEMMA ReturnStep ==
  ASSUME CallInv, FileDecref(call.file), call' = call, Keeps, ~ Keeps'
  PROVE  CallInv'
<1>1. /\ fds' = fds
      /\ regions' = regions
      /\ held' = [held EXCEPT ![call.file] = @ - 1]
  BY DEF FileDecref, Release
<1>2. held' = [f \in File |-> regions[f]]
  BY <1>1 DEF CallInv
<1> QED
  BY <1>1, <1>2 DEF CallInv

LEMMA CallInvStep == CallInv /\ [SysNext]_sysvars => CallInv'
<1> SUFFICES ASSUME CallInv, [SysNext]_sysvars
             PROVE  CallInv'
  OBVIOUS
<1>1. CASE OtherCall
  <2>1. held = regions
    BY <1>1 DEF OtherCall, CallInv, Keeps
  <2>2. /\ pc = "user" /\ pc' = pc /\ call' = call
        /\ regions' = held'
        /\ FileCall \/ Other
    BY <1>1 DEF OtherCall
  <2>3. held' \in [File -> Nat] /\ fds' \in [Fd -> File \cup {NULL}]
    BY <2>1, <2>2 DEF CallInv, FileCall, Other, Openat, OpenatNoFd,
       OpenatRefused, Close, Dup, Dup3, OpenProgram, Hold, Release
  <2> QED
    BY <2>2, <2>3 DEF CallInv, Keeps
<1>2. ASSUME NEW op \in Reading \cup Writing, NEW d \in Fd, NEW iov, NEW n,
             Enter(op, d, iov, n)
      PROVE  CallInv'
  <2>1. /\ call'.file = fds[d] /\ call'.op = op
        /\ fds[d] \in File
        /\ pc = "user"
    BY <1>2 DEF Enter, CallInv
  <2>2. CASE op = "writev"
    <3>1. Stays /\ pc' = "next"
      BY <1>2, <2>2 DEF Enter
    <3> QED
      BY <2>1, <2>2, <3>1 DEF CallInv, Keeps, Stays, filevars
  <2>3. CASE op # "writev"
    <3>1. FileGet(fds[d]) /\ Keeps'
      BY <1>2, <2>1, <2>3 DEF Enter, Keeps, Reading, Writing
    <3> QED
      BY <2>1, <3>1, CallGetStep DEF Keeps
  <2> QED
    BY <2>2, <2>3
<1>3. CASE ReadvNext
  <2>1. pc = "next" /\ call.op = "readv" /\ call' = call
    BY <1>3 DEF ReadvNext
  <2>2. CASE pc' = "return"
    BY <1>3, <2>1, <2>2, ReturnStep DEF ReadvNext, Return, Keeps
  <2>3. CASE pc' # "return"
    BY <1>3, <2>1, <2>3, CallKeptStep DEF ReadvNext, Return, Keeps
  <2> QED
    BY <2>2, <2>3
<1>4. CASE WritevNext
  <2>1. pc = "next" /\ call.op = "writev" /\ call' = call
    BY <1>4 DEF WritevNext
  <2>2. CASE pc' = "return"
    BY <1>4, <2>1, <2>2, CallKeptStep DEF WritevNext, Return, Keeps
  <2>3. CASE pc' # "return"
    BY <1>4, <2>1, <2>3, CallGetStep DEF WritevNext, Return, Keeps, CallInv
  <2> QED
    BY <2>2, <2>3
<1>5. ASSUME NEW r, Chunk(r)
      PROVE  CallInv'
  <2>1. pc = "chunk" /\ call.op # "readv" /\ call' = call
    BY <1>5 DEF Chunk
  <2>2. CASE Over(r)
    <3>1. FileDecref(call.file) /\ pc' \in {"next", "return"}
      BY <1>5, <2>2 DEF Chunk, Return
    <3> QED
      BY <2>1, <3>1, ReturnStep DEF Keeps
  <2>3. CASE ~ Over(r)
    BY <1>5, <2>1, <2>3, CallKeptStep DEF Chunk, Keeps
  <2> QED
    BY <2>2, <2>3
<1>6. ASSUME NEW r, ReadvChunk(r)
      PROVE  CallInv'
  <2>1. pc = "chunk" /\ call.op = "readv" /\ call' = call
    BY <1>6 DEF ReadvChunk
  <2>2. \/ Stays /\ pc' \in {"next", "chunk"}
        \/ FileDecref(call.file) /\ pc' = "return"
    BY <1>6, <2>1 DEF ReadvChunk, Return
  <2> QED
    BY <2>1, <2>2, CallKeptStep, ReturnStep DEF Keeps
<1>7. CASE Fail
  BY <1>7, ReturnStep DEF Fail, Return, Keeps
<1>8. CASE Leave
  BY <1>8, Ranges DEF Leave, CallInv, Keeps, Stays, filevars, NoCall, Stdio
<1>9. ASSUME NEW g \in File, FaultRelease(g)
      PROVE  CallInv'
  <2>1. /\ fds' = fds /\ pc' = pc /\ call' = call
        /\ regions[g] > 0
        /\ regions' = [regions EXCEPT ![g] = @ - 1]
        /\ held' = [held EXCEPT ![g] = @ - 1]
    BY <1>9 DEF FaultRelease, Release
  <2>2. regions' \in [File -> Nat]
    BY <2>1 DEF CallInv
  <2>3. Keeps' <=> Keeps
    BY <2>1 DEF Keeps
  <2> QED
    BY <2>1, <2>2, <2>3 DEF CallInv
<1>10. CASE UNCHANGED sysvars
  BY <1>10 DEF sysvars, filevars, CallInv, Keeps
<1> QED
  BY <1>1, <1>2, <1>3, <1>4, <1>5, <1>6, <1>7, <1>8, <1>9, <1>10
     DEF SysNext, Begin, Kernel

LEMMA CallInvariance == SysSpec => []CallInv
  BY CallInitInv, CallInvStep, PTL DEF SysSpec

-----------------------------------------------------------------------------
(* The theorems *)

\* A system call returns the reference it took, on every path: short chunks,
\* errors of the host, bad lengths and an overflow of the count.
THEOREM CallsReturnReferences == SysSpec => []ReferencesReturned
<1>1. CallInv => ReferencesReturned
  BY DEF CallInv, ReferencesReturned, Keeps
<1> QED
  BY <1>1, CallInvariance, PTL

LEMMA SysStepFiles == CallInv /\ [SysNext]_sysvars => [Next]_vars
<1> SUFFICES ASSUME CallInv, [SysNext]_sysvars
             PROVE  Next \/ UNCHANGED vars
  OBVIOUS
<1>1. ASSUME Stays
      PROVE  UNCHANGED vars
  BY <1>1 DEF Stays, filevars, vars
<1>2. ASSUME NEW g \in File, Hold(g) \/ Release(g)
      PROVE  Next
  BY <1>2 DEF Next, Other
<1>3. CASE OtherCall
  BY <1>3 DEF OtherCall, Next
<1>4. ASSUME NEW op, NEW d \in Fd, NEW iov, NEW n, Enter(op, d, iov, n)
      PROVE  Next \/ UNCHANGED vars
  BY <1>1, <1>2, <1>4 DEF Enter, FileGet, CallInv
<1>5. CASE Kernel \/ Fail
  <2>1. Stays \/ FileGet(call.file) \/ FileDecref(call.file)
    BY <1>5 DEF Kernel, Fail, ReadvNext, WritevNext, Chunk, ReadvChunk, Leave
  <2> QED
    BY <1>1, <1>2, <2>1 DEF FileGet, FileDecref, CallInv
<1>6. ASSUME NEW g \in File, FaultRelease(g)
      PROVE  Next
  BY <1>2, <1>6 DEF FaultRelease
<1>7. CASE UNCHANGED sysvars
  BY <1>7 DEF sysvars, filevars, vars
<1> QED
  BY <1>3, <1>4, <1>5, <1>6, <1>7 DEF SysNext, Begin

\* What is proved of the open files holds under the chunked calls too: their
\* steps are steps of PkFiles.
THEOREM CallsKeepFiles == SysSpec => Spec
<1>1. CallInit => Init
  BY DEF CallInit
<1> QED
  BY <1>1, CallInvariance, SysStepFiles, PTL DEF SysSpec, Spec

\* A file is open until the last reference is gone, a call's own among them.
THEOREM CallCountsExact == SysSpec => []RefcntExact
  BY CallsKeepFiles, CountsExact, PTL

-----------------------------------------------------------------------------
(* Places in the buffers of a call *)

\* A set of numbers that is not empty has a least one.
LEMMA LeastNumber ==
  ASSUME NEW T \in SUBSET Nat, T # {}
  PROVE  \E m \in T : \A n \in T : m <= n
<1> DEFINE R == OpToRel(<, Nat)
<1>1. IsWellFoundedOn(R, Nat)
  BY NatLessThanWellFounded
<1>2. \A m, n \in T : <<n, m>> \in R <=> n < m
  BY DEF OpToRel
<1> HIDE DEF R
<1>3. \E m \in T : \A n \in T : ~ (<<n, m>> \in R)
  BY <1>1, WFMin
<1>4. \A m, n \in T : ~ (n < m) => m <= n
  OBVIOUS
<1> QED
  BY <1>2, <1>3, <1>4

\* Before is the function its recursive definition describes.
Sums(g, n) == g = [k \in 0 .. n |-> IF k = 0 THEN 0 ELSE g[k - 1] + call.iov[k]]

LEMMA SumsExist == \A n \in Nat : \E g : Sums(g, n)
<1> DEFINE T == {n \in Nat : ~ \E g : Sums(g, n)}
<1> SUFFICES ASSUME T # {}
             PROVE  FALSE
  OBVIOUS
<1>1. PICK m \in T : \A n \in T : m <= n
  BY LeastNumber
<1>2. CASE m = 0
  <2> DEFINE z == [k \in 0 .. 0 |-> 0]
  <2>1. z = [k \in 0 .. 0 |-> IF k = 0 THEN 0 ELSE z[k - 1] + call.iov[k]]
    OBVIOUS
  <2>2. Sums(z, 0)
    BY <2>1 DEF Sums
  <2> QED
    BY <1>2, <2>2
<1>3. CASE m # 0
  <2>1. m \in Nat /\ m - 1 \in Nat /\ m - 1 \notin T
    BY <1>1, <1>3
  <2>2. PICK g : Sums(g, m - 1)
    BY <2>1
  <2> DEFINE h == [k \in 0 .. m |-> IF k = m THEN g[m - 1] + call.iov[m] ELSE g[k]]
  <2>3. \A k \in 0 .. m - 1 : g[k] = IF k = 0 THEN 0 ELSE g[k - 1] + call.iov[k]
    BY <2>2, Zenon DEF Sums
  <2>4. \A k \in 0 .. m : h[k] = IF k = 0 THEN 0 ELSE h[k - 1] + call.iov[k]
    <3> TAKE k \in 0 .. m
    <3>1. CASE k = m
      <4>1. h[k] = g[m - 1] + call.iov[m] /\ h[m - 1] = g[m - 1]
        BY <2>1, <3>1
      <4> QED
        BY <1>3, <3>1, <4>1
    <3>2. CASE k # m /\ k # 0
      <4>1. k \in 0 .. m - 1 /\ k - 1 \in 0 .. m /\ k - 1 # m
        BY <2>1, <3>2
      <4>2. h[k] = g[k] /\ h[k - 1] = g[k - 1]
        BY <3>2, <4>1
      <4> QED
        BY <2>3, <3>2, <4>1, <4>2
    <3>3. CASE k # m /\ k = 0
      <4>1. h[k] = g[k] /\ k \in 0 .. m - 1
        BY <2>1, <3>3
      <4> QED
        BY <2>3, <3>3, <4>1
    <3> QED
      BY <3>1, <3>2, <3>3
  <2>5. h = [k \in 0 .. m |-> h[k]]
    OBVIOUS
  <2> HIDE DEF h
  <2>6. Sums(h, m)
    BY <2>4, <2>5 DEF Sums
  <2> QED
    BY <2>6
<1> QED
  BY <1>2, <1>3

LEMMA BeforeStep ==
  /\ Before[0] = 0
  /\ \A k \in 1 .. MaxIov : Before[k] = Before[k - 1] + call.iov[k]
<1>1. MaxIov \in Nat
  BY BoundsAssumption
<1>2. \E g : g = [k \in 0 .. MaxIov |-> IF k = 0 THEN 0 ELSE g[k - 1] + call.iov[k]]
  BY <1>1, SumsExist DEF Sums
<1>3. Before = [k \in 0 .. MaxIov |-> IF k = 0 THEN 0 ELSE Before[k - 1] + call.iov[k]]
  BY <1>2, Zenon DEF Before
<1>4. \A k \in 0 .. MaxIov : Before[k] = IF k = 0 THEN 0 ELSE Before[k - 1] + call.iov[k]
  BY <1>3, Zenon
<1>5. Before[0] = 0
  BY <1>1, <1>4
<1>6. ASSUME NEW k \in 1 .. MaxIov
      PROVE  Before[k] = Before[k - 1] + call.iov[k]
  <2>1. k \in 0 .. MaxIov /\ k # 0
    BY <1>1, <1>6
  <2> QED
    BY <1>4, <2>1, Zenon
<1> QED
  BY <1>5, <1>6

\* The buffers of a call.
IovTyped ==
  /\ call.iov \in Seq(Nat)
  /\ Len(call.iov) <= MaxIov
  /\ call.op # "readv" => \A k \in 1 .. Len(call.iov) : call.iov[k] <= MaxLen
  /\ \A k \in 1 .. Len(call.iov) : call.iov[k] <= MaxLen \/ call.iov[k] = Huge
  /\ call.op \notin {"readv", "writev"} => Len(call.iov) = 1

LEMMA IovFacts ==
  ASSUME IovTyped
  PROVE  /\ Len(call.iov) \in Nat /\ DOMAIN call.iov = 1 .. Len(call.iov)
         /\ \A k \in 1 .. Len(call.iov) : call.iov[k] \in Nat
         /\ MaxIov \in Nat /\ 1 .. Len(call.iov) \subseteq 1 .. MaxIov
  BY LenProperties, ElementOfSeq, BoundsAssumption DEF IovTyped

LEMMA BeforeNat ==
  ASSUME IovTyped
  PROVE  \A k \in 0 .. Len(call.iov) : Before[k] \in Nat
<1> DEFINE T == {k \in 0 .. Len(call.iov) : Before[k] \notin Nat}
<1>1. T \subseteq Nat
  BY IovFacts
<1> SUFFICES ASSUME T # {}
             PROVE  FALSE
  OBVIOUS
<1>2. PICK m \in T : \A n \in T : m <= n
  BY <1>1, LeastNumber
<1>3. m # 0
  BY <1>2, BeforeStep
<1>4. m \in 1 .. Len(call.iov) /\ m - 1 \in 0 .. Len(call.iov) /\ m - 1 \notin T
  BY <1>1, <1>2, <1>3, IovFacts
<1>5. Before[m] = Before[m - 1] + call.iov[m]
  BY <1>4, BeforeStep, IovFacts
<1> QED
  BY <1>4, <1>5, IovFacts

LEMMA BeforeGrows ==
  ASSUME IovTyped, NEW j \in 0 .. Len(call.iov)
  PROVE  \A k \in 0 .. Len(call.iov) : j <= k => Before[j] <= Before[k]
<1> DEFINE T == {k \in 0 .. Len(call.iov) : j <= k /\ ~ Before[j] <= Before[k]}
<1>1. T \subseteq Nat
  BY IovFacts
<1> SUFFICES ASSUME T # {}
             PROVE  FALSE
  OBVIOUS
<1>2. PICK m \in T : \A n \in T : m <= n
  BY <1>1, LeastNumber
<1>3. m # j
  BY <1>2, BeforeNat
<1>4. m \in 1 .. Len(call.iov) /\ m - 1 \in 0 .. Len(call.iov) /\ m - 1 \notin T /\ j <= m - 1
  BY <1>1, <1>2, <1>3, IovFacts
<1>5. Before[m] = Before[m - 1] + call.iov[m]
  BY <1>4, BeforeStep, IovFacts
<1>6. Before[j] <= Before[m - 1]
  BY <1>4
<1>7. Before[m - 1] \in Nat /\ Before[m] \in Nat /\ Before[j] \in Nat /\ call.iov[m] \in Nat
  BY <1>4, BeforeNat, IovFacts
<1>8. Before[j] <= Before[m]
  BY <1>5, <1>6, <1>7
<1> QED
  BY <1>2, <1>8

\* Bytes of the buffers before the m-th lie before it, those of the buffers
\* behind it lie behind.
LEMMA PlaceOrder ==
  ASSUME IovTyped, NEW a \in Nat \X Nat, InBuffer(a), NEW m \in 1 .. Len(call.iov)
  PROVE  /\ Place(a) \in Nat /\ Before[m - 1] \in Nat /\ Before[m] \in Nat
         /\ Before[m] = Before[m - 1] + call.iov[m]
         /\ a[1] = m => Place(a) = Before[m - 1] + a[2]
         /\ a[1] < m => Place(a) < Before[m - 1]
         /\ a[1] > m => Place(a) >= Before[m]
<1> DEFINE k == a[1]
           n == a[2]
<1>1. k \in 1 .. Len(call.iov) /\ n \in Nat /\ n < call.iov[k]
  BY IovFacts DEF InBuffer
<1>2. /\ k - 1 \in 0 .. Len(call.iov) /\ k \in 0 .. Len(call.iov)
      /\ m - 1 \in 0 .. Len(call.iov) /\ m \in 0 .. Len(call.iov)
  BY <1>1, IovFacts
<1>3. /\ Before[k - 1] \in Nat /\ Before[k] \in Nat
      /\ Before[m - 1] \in Nat /\ Before[m] \in Nat
      /\ call.iov[k] \in Nat /\ call.iov[m] \in Nat
  BY <1>1, <1>2, BeforeNat, IovFacts
<1>4. /\ Before[m] = Before[m - 1] + call.iov[m]
      /\ Before[k] = Before[k - 1] + call.iov[k]
  BY <1>1, BeforeStep, IovFacts
<1>5. Place(a) = Before[k - 1] + n
  BY DEF Place
<1>6. ASSUME k < m
      PROVE  Before[k] <= Before[m - 1]
  BY <1>2, <1>6, BeforeGrows, IovFacts
<1>7. ASSUME k > m
      PROVE  Before[m] <= Before[k - 1]
  BY <1>2, <1>7, BeforeGrows, IovFacts
<1>8. Place(a) \in Nat
  BY <1>1, <1>3, <1>5
<1>9. ASSUME k < m
      PROVE  Place(a) < Before[m - 1]
  <2>1. Before[k - 1] + n < Before[k]
    BY <1>1, <1>3, <1>4
  <2> QED
    BY <1>1, <1>3, <1>5, <1>6, <1>9, <2>1
<1>10. ASSUME k > m
       PROVE  Place(a) >= Before[m]
  <2>1. Before[m] <= Before[k - 1]
    BY <1>7, <1>10
  <2> QED
    BY <1>1, <1>3, <1>5, <2>1
<1>11. k = m => Place(a) = Before[m - 1] + n
  BY <1>5
<1> QED
  BY <1>3, <1>4, <1>8, <1>9, <1>10, <1>11

-----------------------------------------------------------------------------
(* What a call has moved *)

Reads == call.op \in Reading
Seeks == call.op \in {"read", "readv"}
Offset == IF call.op = "pread" THEN PREAD_OFFSET ELSE 0

\* The first n bytes of the buffers have been moved, in order, and no others.
Moved(n) ==
  /\ Reads =>
       \A a \in DOMAIN user :
         user[a] = IF InBuffer(a) /\ Place(a) < n THEN Place(a) + Offset ELSE None
  /\ pos = IF Seeks THEN n ELSE 0
  /\ ~ Reads => /\ Len(sent) = n
                /\ \A k \in 1 .. n : InBuffer(sent[k]) /\ Place(sent[k]) = k - 1

\* A call that has not returned.
InCall ==
  /\ {total, ret, room} \subseteq Nat
  /\ i \in 1 .. Len(call.iov) + 1
  /\ pc = "next" => total = 0
  /\ pc = "chunk" => /\ i <= Len(call.iov)
                     /\ total <= call.iov[i] /\ call.iov[i] <= MaxLen
  /\ call.op \notin {"readv", "writev"} => pc = "chunk" /\ i = 1 /\ ret = 0
  /\ call.op = "readv" => ret <= SSIZE_MAX
  /\ ~ short => ret = Before[i - 1]
  /\ short => call.op = "writev" /\ room = 0 /\ total = 0
  /\ Moved(ret + total)

Begun == total = 0 /\ ret = 0 /\ pos = 0 /\ user = Untouched /\ sent = <<>> /\ ~ short

TransferInv ==
  /\ pc \in {"user", "next", "chunk", "return"}
  /\ call.op \in Reading \cup Writing
  /\ DOMAIN user = (1 .. MaxIov) \X (0 .. MaxLen)
  /\ sent \in Seq(Nat \X Nat)
  /\ pc = "user" => Begun
  /\ pc # "user" => IovTyped
  /\ pc \in {"next", "chunk"} => InCall
  /\ TransferExact

LEMMA PlacesStay ==
  ASSUME call' = call
  PROVE  /\ Before' = Before
         /\ \A a : (InBuffer(a)' <=> InBuffer(a)) /\ Place(a)' = Place(a)
<1>1. Before' = Before
  BY Zenon DEF Before
<1> QED
  BY <1>1 DEF InBuffer, Place

LEMMA OffsetType == PREAD_OFFSET \in Nat /\ Offset \in Nat
<1>1. MaxLen \in Nat /\ MaxIov \in Nat
  BY BoundsAssumption
<1>2. MaxLen * MaxIov \in Nat
  BY <1>1
<1> QED
  BY <1>2 DEF PREAD_OFFSET, Offset

\* Where a chunk goes that is read.
LEMMA FromOffset ==
  ASSUME Reads, InCall
  PROVE  /\ From = ret + total + Offset
         /\ ret = Before[i - 1]
<1>1. /\ ~ short /\ ret = Before[i - 1]
      /\ ret \in Nat /\ total \in Nat
      /\ call.op = "pread" => ret = 0
      /\ pos = IF Seeks THEN ret + total ELSE 0
      /\ Reads => (Seeks <=> call.op # "pread")
  BY DEF InCall, Reads, Reading, Seeks, Moved
<1>2. CASE call.op = "pread"
  <2>1. From = PREAD_OFFSET + total /\ Offset = PREAD_OFFSET /\ ret = 0
    BY <1>1, <1>2 DEF From, Offset
  <2> QED
    BY <1>1, <2>1, OffsetType
<1>3. CASE call.op # "pread"
  <2>1. From = ret + total /\ Offset = 0
    BY <1>1, <1>3 DEF From, Offset
  <2> QED
    BY <1>1, <2>1
<1> QED
  BY <1>2, <1>3

\* The chunk of r bytes that is copied to the program is the next one.
LEMMA ReadMoves ==
  ASSUME IovTyped, Reads, InCall, pc = "chunk", DOMAIN user = (1 .. MaxIov) \X (0 .. MaxLen),
         NEW r \in Nat, total + r <= call.iov[i], CopyOut(r), call' = call,
         NEW n, n = ret + total + r
  PROVE  Moved(n)' /\ DOMAIN user' = DOMAIN user /\ sent' = sent
<1> DEFINE Copied(a) == a[1] = i /\ a[2] - total \in 0 .. r - 1
<1>1. /\ user' = [a \in DOMAIN user |->
                    IF Copied(a) THEN From + a[2] - total ELSE user[a]]
      /\ pos' = IF call.op = "pread" THEN pos ELSE pos + r
      /\ sent' = sent
  BY DEF CopyOut
<1>2. /\ ret \in Nat /\ total \in Nat /\ i \in 1 .. Len(call.iov)
      /\ Moved(ret + total)
  BY IovFacts DEF InCall
<1>3. From = ret + total + Offset /\ ret = Before[i - 1] /\ Offset \in Nat
  BY FromOffset, OffsetType
<1>4. ASSUME NEW a \in DOMAIN user
      PROVE  user'[a] = IF InBuffer(a) /\ Place(a) < n THEN Place(a) + Offset ELSE None
  <2>1. a \in Nat \X Nat /\ a[1] \in Nat /\ a[2] \in Nat
    OBVIOUS
  <2>2. user[a] = IF InBuffer(a) /\ Place(a) < ret + total THEN Place(a) + Offset ELSE None
    BY <1>2 DEF Moved
  <2>3. user'[a] = IF Copied(a) THEN From + a[2] - total ELSE user[a]
    BY <1>1
  <2>4. i \in Nat /\ call.iov[i] \in Nat
    BY <1>2, IovFacts
  <2>5. CASE InBuffer(a)
    <3>1. /\ Place(a) \in Nat /\ Before[i - 1] \in Nat /\ Before[i] \in Nat
          /\ Before[i] = Before[i - 1] + call.iov[i]
          /\ a[1] = i => Place(a) = Before[i - 1] + a[2]
          /\ a[1] < i => Place(a) < Before[i - 1]
          /\ a[1] > i => Place(a) >= Before[i]
      BY <1>2, <2>1, <2>5, PlaceOrder
    <3>2. CASE a[1] = i
      <4>1. Place(a) = ret + a[2]
        BY <1>3, <3>1, <3>2
      <4>2. Copied(a) <=> ret + total <= Place(a) /\ Place(a) < n
        BY <1>2, <2>1, <3>2, <4>1
      <4>3. From + a[2] - total = Place(a) + Offset
        BY <1>2, <1>3, <2>1, <4>1
      <4>4. Place(a) < ret + total => Place(a) < n
        BY <1>2, <3>1
      <4>5. CASE Copied(a)
        BY <2>3, <2>5, <4>2, <4>3, <4>5
      <4>6. CASE ~ Copied(a)
        <5>1. Place(a) < n <=> Place(a) < ret + total
          BY <1>2, <3>1, <4>2, <4>4, <4>6
        <5> QED
          BY <2>2, <2>3, <2>5, <4>6, <5>1
      <4> QED
        BY <4>5, <4>6
    <3>3. CASE a[1] # i
      <4>1. ~ Copied(a)
        BY <3>3
      <4>2. Place(a) < ret \/ Place(a) >= ret + call.iov[i]
        BY <1>3, <2>1, <2>4, <3>1, <3>3
      <4>3. Place(a) < n <=> Place(a) < ret + total
        BY <1>2, <2>4, <3>1, <4>2
      <4> QED
        BY <2>2, <2>3, <2>5, <4>1, <4>3
    <3> QED
      BY <3>2, <3>3
  <2>6. CASE ~ InBuffer(a)
    <3>1. a[1] = i => a[2] >= call.iov[i]
      BY <1>2, <2>1, <2>4, <2>6, IovFacts DEF InBuffer
    <3>2. ~ Copied(a)
      BY <1>2, <2>1, <2>4, <3>1
    <3> QED
      BY <2>2, <2>3, <2>6, <3>2
  <2> QED
    BY <2>5, <2>6
<1>5. pos' = IF Seeks THEN n ELSE 0
  <2>1. pos = IF Seeks THEN ret + total ELSE 0
    BY <1>2 DEF Moved
  <2>2. Seeks <=> call.op # "pread"
    BY DEF Seeks, Reads, Reading
  <2> QED
    BY <1>1, <1>2, <2>1, <2>2
<1>6. DOMAIN user' = DOMAIN user
  BY <1>1
<1>7. (Reads' <=> Reads) /\ (Seeks' <=> Seeks) /\ Offset' = Offset
  BY DEF Reads, Seeks, Offset
<1> QED
  BY <1>1, <1>4, <1>5, <1>6, <1>7, PlacesStay DEF Moved

\* The chunk that the host has taken is the next one.
LEMMA WriteMoves ==
  ASSUME IovTyped, ~ Reads, InCall, pc = "chunk", sent \in Seq(Nat \X Nat),
         NEW r \in Nat, total + r <= call.iov[i], r = 0 \/ ~ short, CopyIn(r), call' = call,
         NEW n, n = ret + total + r
  PROVE  Moved(n)' /\ user' = user /\ sent' \in Seq(Nat \X Nat)
<1> DEFINE new == [k \in 1 .. r |-> <<i, total + k - 1>>]
<1>1. sent' = sent \o new /\ user' = user /\ pos' = pos
  BY DEF CopyIn
<1>2. /\ ret \in Nat /\ total \in Nat /\ i \in 1 .. Len(call.iov) /\ i \in Nat
      /\ Len(sent) = ret + total
      /\ \A k \in 1 .. ret + total : InBuffer(sent[k]) /\ Place(sent[k]) = k - 1
      /\ pos = IF Seeks THEN ret + total ELSE 0
      /\ call.iov[i] \in Nat
  BY IovFacts DEF InCall, Moved
<1>3. \A k \in 1 .. r : <<i, total + k - 1>> \in Nat \X Nat
  BY <1>2
<1>4. new \in Seq(Nat \X Nat) /\ Len(new) = r
  BY <1>3
<1> HIDE DEF new
<1>5. /\ sent' \in Seq(Nat \X Nat) /\ Len(sent') = n
      /\ \A k \in 1 .. n :
           sent'[k] = IF k <= ret + total THEN sent[k] ELSE new[k - (ret + total)]
  <2>1. /\ sent \o new \in Seq(Nat \X Nat)
        /\ Len(sent \o new) = Len(sent) + Len(new)
        /\ \A k \in 1 .. Len(sent) + Len(new) :
             (sent \o new)[k] = IF k <= Len(sent) THEN sent[k] ELSE new[k - Len(sent)]
    BY <1>4, ConcatProperties, Zenon
  <2>2. Len(sent) + Len(new) = n
    BY <1>2, <1>4
  <2> QED
    BY <1>1, <1>2, <2>1, <2>2
<1>6. ASSUME NEW k \in 1 .. n
      PROVE  InBuffer(sent'[k]) /\ Place(sent'[k]) = k - 1
  <2>1. CASE k <= ret + total
    <3>1. k \in 1 .. ret + total /\ sent'[k] = sent[k]
      BY <1>2, <1>5, <2>1
    <3> QED
      BY <1>2, <3>1
  <2>2. CASE k > ret + total
    <3> DEFINE j == k - (ret + total)
               a == <<i, total + j - 1>>
    <3>1. j \in 1 .. r
      BY <1>2, <2>2
    <3>2. sent'[k] = a
      <4>1. ~ (k <= ret + total)
        BY <1>2, <2>2
      <4>2. sent'[k] = new[j]
        BY <1>5, <4>1
      <4> QED
        BY <3>1, <4>2 DEF new
    <3>3. a \in Nat \X Nat /\ a[1] = i /\ a[2] = total + j - 1 /\ a[2] < call.iov[i]
      BY <1>2, <3>1
    <3>4. InBuffer(a)
      BY <1>2, <3>3, IovFacts DEF InBuffer
    <3>5. Place(a) = Before[i - 1] + a[2]
      BY <1>2, <3>3, <3>4, PlaceOrder
    <3>6. ret = Before[i - 1]
      BY <3>1 DEF InCall
    <3>7. a[2] = k - 1 - ret
      BY <1>2, <3>1, <3>3
    <3>8. Place(a) = k - 1
      BY <1>2, <3>5, <3>6, <3>7
    <3> QED
      BY <3>2, <3>4, <3>8
  <2> QED
    BY <1>2, <2>1, <2>2
<1>7. ~ Seeks /\ pos' = 0
  BY <1>1, <1>2 DEF Seeks, Reads, Reading
<1>8. (Reads' <=> Reads) /\ (Seeks' <=> Seeks) /\ Offset' = Offset
  BY DEF Reads, Seeks, Offset
<1> QED
  BY <1>1, <1>5, <1>6, <1>7, <1>8, PlacesStay DEF Moved

-----------------------------------------------------------------------------
(* The steps of a call *)

\* The next chunk: what the host is asked for, and what it moves.
LEMMA ChunkMoves ==
  ASSUME IovTyped, InCall, pc = "chunk", call.op \in Reading \cup Writing,
         DOMAIN user = (1 .. MaxIov) \X (0 .. MaxLen), sent \in Seq(Nat \X Nat),
         NEW r \in 0 .. MAX_BUF, HostMoves(r), call' = call, short' = (short \/ r < Cur),
         NEW n, n = ret + total + r
  PROVE  /\ Moved(n)' /\ DOMAIN user' = DOMAIN user /\ sent' \in Seq(Nat \X Nat)
         /\ r \in Nat /\ total + r \in Nat /\ total + r <= call.iov[i] /\ room' \in Nat
         /\ short => r = 0 /\ total = call.iov[i]
         /\ short' => call.op \in Reading \/ room' = 0
         /\ ~ short' /\ Over(r) => total + r = call.iov[i]
         /\ ~ Over(r) => ~ short'
<1>1. /\ total \in Nat /\ ret \in Nat /\ room \in Nat
      /\ i \in 1 .. Len(call.iov) /\ call.iov[i] \in Nat /\ total <= call.iov[i]
      /\ short => call.op \notin Reading /\ room = 0
      /\ r \in Nat /\ MAX_BUF \in Nat \ {0}
  <2>1. /\ total \in Nat /\ ret \in Nat /\ room \in Nat
        /\ i \in 1 .. Len(call.iov) + 1 /\ i <= Len(call.iov) /\ total <= call.iov[i]
        /\ short => call.op = "writev" /\ room = 0
    BY DEF InCall
  <2>2. MAX_BUF \in Nat \ {0} /\ r \in Nat
    BY BufAssumption
  <2>3. i \in 1 .. Len(call.iov) /\ call.iov[i] \in Nat
    BY <2>1, IovFacts
  <2> QED
    BY <2>1, <2>2, <2>3 DEF Reading
<1>2. /\ Cur \in Nat /\ total + Cur <= call.iov[i]
      /\ Cur = 0 => total = call.iov[i]
  BY <1>1 DEF Cur, Least
<1>3. Reads <=> call.op \in Reading
  BY DEF Reads
<1>4. CASE Reads
  <2>1. r <= Cur /\ CopyOut(r) /\ ~ short
    BY <1>1, <1>2, <1>3, <1>4 DEF HostMoves
  <2>2. total + r <= call.iov[i]
    BY <1>1, <1>2, <2>1
  <2>3. room' = room
    BY <2>1 DEF CopyOut
  <2>4. Moved(n)' /\ DOMAIN user' = DOMAIN user /\ sent' = sent
    BY <1>1, <1>4, <2>1, <2>2, ReadMoves
  <2>5. ~ short' => total + r = call.iov[i] \/ ~ Over(r)
    BY <1>1, <1>2, <2>1 DEF Over
  <2>6. ~ Over(r) => ~ short'
    BY <2>1 DEF Over
  <2> QED
    BY <1>1, <1>3, <1>4, <2>1, <2>2, <2>3, <2>4, <2>5, <2>6
<1>5. CASE ~ Reads
  <2>1. r = Least(Cur, room) /\ (Cur > 0 => r > 0) /\ CopyIn(r)
    BY <1>3, <1>5 DEF HostMoves
  <2>2. r <= Cur /\ r <= room /\ (r < Cur => r = room)
    BY <1>1, <1>2, <2>1 DEF Least
  <2>3. total + r <= call.iov[i]
    BY <1>1, <1>2, <2>2
  <2>4. room' = room - r
    BY <2>1 DEF CopyIn
  <2>5. short => r = 0 /\ Cur = 0 /\ total = call.iov[i]
    BY <1>1, <1>2, <2>1, <2>2
  <2>6. Moved(n)' /\ user' = user /\ sent' \in Seq(Nat \X Nat)
    BY <1>1, <1>5, <2>1, <2>3, <2>5, WriteMoves
  <2>7. room' \in Nat /\ (short' => room' = 0)
    <3>1. room' \in Nat
      BY <1>1, <2>2, <2>4
    <3>2. short => room' = 0
      BY <1>1, <2>4, <2>5
    <3>3. r < Cur => room' = 0
      BY <1>1, <2>2, <2>4
    <3> QED
      BY <3>1, <3>2, <3>3
  <2>8. ~ short' => total + r = call.iov[i] \/ ~ Over(r)
    BY <1>1, <1>2, <2>2 DEF Over
  <2>9. ~ Over(r) => ~ short'
    <3>1. short => total + r = call.iov[i]
      BY <1>1, <2>5
    <3> QED
      BY <3>1 DEF Over
  <2> QED
    BY <1>1, <2>3, <2>5, <2>6, <2>7, <2>8, <2>9
<1> QED
  BY <1>4, <1>5

LEMMA MovedStay ==
  ASSUME NEW n, Moved(n), UNCHANGED <<user, pos, sent, call>>
  PROVE  Moved(n)'
<1>1. (Reads' <=> Reads) /\ (Seeks' <=> Seeks) /\ Offset' = Offset
  BY DEF Reads, Seeks, Offset
<1> QED
  BY <1>1, PlacesStay DEF Moved

\* The call returns m.
LEMMA Returning ==
  ASSUME TransferInv, pc # "user", pc' = "return", call' = call,
         DOMAIN user' = DOMAIN user, sent' \in Seq(Nat \X Nat),
         NEW m \in Int, ret' = m,
         m >= 0 => Moved(m)' /\ (~ short' => m = Before[Len(call.iov)])
  PROVE  TransferInv'
<1>1. Before' = Before /\ call'.op \in Reading \cup Writing
  BY PlacesStay DEF TransferInv
<1>2. TransferExact'
  <2>1. (Reads' <=> call'.op \in Reading) /\ (~ Reads' <=> call'.op \in Writing)
    BY <1>1 DEF Reads, Reading, Writing
  <2> QED
    BY <1>1, <2>1 DEF TransferExact, Moved, Seeks, Offset
<1>3. IovTyped'
  BY DEF TransferInv, IovTyped
<1> QED
  BY <1>1, <1>2, <1>3 DEF TransferInv

\* The call goes on.
LEMMA Going ==
  ASSUME TransferInv, pc # "user", pc' \in {"next", "chunk"}, call' = call,
         DOMAIN user' = DOMAIN user, sent' \in Seq(Nat \X Nat), InCall'
  PROVE  TransferInv'
<1>1. IovTyped'
  BY DEF TransferInv, IovTyped
<1>2. TransferExact'
  BY DEF TransferExact
<1> QED
  BY <1>1, <1>2 DEF TransferInv

\* Where the place of a call, and what it moved, are left alone.
LEMMA TransferStill ==
  ASSUME TransferInv, UNCHANGED <<pc, call, i, total, ret, pos, room, user, sent, short>>
  PROVE  TransferInv'
<1>1. Before' = Before /\ IovTyped' = IovTyped
  BY PlacesStay DEF IovTyped
<1>2. CASE pc \in {"next", "chunk"}
  <2>1. /\ {total, ret, room} \subseteq Nat
        /\ i \in 1 .. Len(call.iov) + 1
        /\ Moved(ret + total)'
    BY <1>2, MovedStay DEF TransferInv, InCall, Moved
  <2>2. InCall'
    BY <1>1, <1>2, <2>1 DEF TransferInv, InCall, Moved
  <2> QED
    BY <1>2, <2>2, Going DEF TransferInv
<1>3. CASE pc \notin {"next", "chunk"}
  <2>1. TransferExact'
    BY <1>1, PlacesStay DEF TransferInv, TransferExact
  <2> QED
    BY <1>1, <1>3, <2>1 DEF TransferInv, Begun
<1> QED
  BY <1>2, <1>3

\* Between buffers.
LEMMA NextFacts ==
  ASSUME TransferInv, pc = "next"
  PROVE  /\ IovTyped /\ InCall /\ Len(call.iov) \in Nat
         /\ ret \in Nat /\ total = 0 /\ i \in 1 .. Len(call.iov) + 1
         /\ Moved(ret)
         /\ i > Len(call.iov) => (~ short => ret = Before[Len(call.iov)])
         /\ sent \in Seq(Nat \X Nat)
<1>1. IovTyped /\ InCall /\ Len(call.iov) \in Nat /\ total = 0 /\ ret \in Nat
  BY IovFacts DEF TransferInv, InCall
<1>2. i \in 1 .. Len(call.iov) + 1 /\ (~ short => ret = Before[i - 1])
  BY <1>1 DEF InCall
<1>3. ret + total = ret
  BY <1>1
<1>4. Moved(ret)
  BY <1>1, <1>3 DEF InCall
<1>5. i > Len(call.iov) => i - 1 = Len(call.iov)
  BY <1>1, <1>2
<1> QED
  BY <1>1, <1>2, <1>4, <1>5 DEF TransferInv

LEMMA ReadvNextStep == ASSUME TransferInv, ReadvNext PROVE TransferInv'
<1>1. /\ pc = "next" /\ call.op = "readv"
      /\ UNCHANGED <<call, total, pos, room, user, sent, short>>
  BY DEF ReadvNext, data
<1>2. /\ IovTyped /\ InCall /\ Len(call.iov) \in Nat
      /\ ret \in Nat /\ total = 0 /\ i \in 1 .. Len(call.iov) + 1
      /\ Moved(ret)
      /\ i > Len(call.iov) => (~ short => ret = Before[Len(call.iov)])
      /\ sent \in Seq(Nat \X Nat)
  BY <1>1, NextFacts
<1>3. \/ i > Len(call.iov) /\ Return(ret)
      \/ Return(EINVAL)
      \/ /\ i <= Len(call.iov) /\ call.iov[i] # Huge
         /\ IF call.iov[i] = 0 THEN i' = i + 1 /\ pc' = pc ELSE pc' = "chunk" /\ i' = i
         /\ ret' = ret
  BY <1>2 DEF ReadvNext
<1>4. CASE i > Len(call.iov) /\ Return(ret)
  <2>1. ret' = ret /\ pc' = "return" /\ Moved(ret)'
    BY <1>1, <1>2, <1>4, MovedStay DEF Return, Moved
  <2>2. PICK m \in Nat : m = ret
    BY <1>2
  <2>3. Moved(m)'
    BY <1>1, <1>2, <2>2, MovedStay
  <2> QED
    BY <1>1, <1>2, <1>4, <2>1, <2>2, <2>3, Returning
<1>5. CASE Return(EINVAL)
  <2>1. ret' = -22 /\ pc' = "return"
    BY <1>5 DEF Return, EINVAL
  <2> QED
    BY <1>1, <1>2, <2>1, Returning
<1>6. CASE /\ i <= Len(call.iov) /\ call.iov[i] # Huge
           /\ IF call.iov[i] = 0 THEN i' = i + 1 /\ pc' = pc ELSE pc' = "chunk" /\ i' = i
           /\ ret' = ret
  <2>1. i \in 1 .. Len(call.iov) /\ call.iov[i] \in Nat /\ call.iov[i] <= MaxLen
    BY <1>2, <1>6, IovFacts DEF IovTyped
  <2>2. Before' = Before /\ Before[i] = Before[i - 1] + call.iov[i] /\ Before[i - 1] \in Nat
    <3>1. i - 1 \in 0 .. Len(call.iov)
      BY <1>2, <2>1
    <3> QED
      BY <1>1, <1>2, <2>1, <3>1, PlacesStay, BeforeStep, BeforeNat, IovFacts
  <2>3. Moved(ret + total)'
    <3>1. PICK m \in Nat : m = ret
      BY <1>2
    <3>2. ret' + total' = m
      BY <1>1, <1>2, <1>6, <3>1
    <3>3. Moved(m)'
      BY <1>1, <1>2, <3>1, MovedStay
    <3> QED
      BY <3>2, <3>3 DEF Moved
  <2>4. ~ short /\ ret = Before[i - 1] /\ ret <= SSIZE_MAX /\ room \in Nat
    BY <1>1, <1>2 DEF InCall
  <2>5. InCall'
    <3>1. CASE call.iov[i] = 0
      <4>1. i' = i + 1 /\ pc' = "next" /\ ret' = ret
        BY <1>1, <1>6, <3>1
      <4>2. i' - 1 = i /\ i' \in 1 .. Len(call.iov) + 1 /\ Before[i] = Before[i - 1]
        BY <2>1, <2>2, <3>1, <4>1
      <4> QED
        BY <1>1, <1>2, <2>2, <2>3, <2>4, <4>1, <4>2 DEF InCall
    <3>2. CASE call.iov[i] # 0
      <4>1. i' = i /\ pc' = "chunk" /\ ret' = ret
        BY <1>6, <3>2
      <4> QED
        BY <1>1, <1>2, <2>1, <2>2, <2>3, <2>4, <4>1 DEF InCall
    <3> QED
      BY <3>1, <3>2
  <2>6. pc' \in {"next", "chunk"}
    BY <1>1, <1>6
  <2> QED
    BY <1>1, <1>2, <2>5, <2>6, Going
<1> QED
  BY <1>3, <1>4, <1>5, <1>6

LEMMA WritevNextStep == ASSUME TransferInv, WritevNext PROVE TransferInv'
<1>1. /\ pc = "next" /\ call.op = "writev"
      /\ UNCHANGED <<call, i, total, pos, room, user, sent, short>>
  BY DEF WritevNext, data
<1>2. /\ IovTyped /\ InCall /\ Len(call.iov) \in Nat
      /\ ret \in Nat /\ total = 0 /\ i \in 1 .. Len(call.iov) + 1
      /\ Moved(ret)
      /\ i > Len(call.iov) => (~ short => ret = Before[Len(call.iov)])
      /\ sent \in Seq(Nat \X Nat)
  BY <1>1, NextFacts
<1>3. PICK m \in Nat : m = ret
  BY <1>2
<1>4. Moved(m)' /\ Before' = Before
  BY <1>1, <1>2, <1>3, MovedStay, PlacesStay
<1>5. CASE i > Len(call.iov)
  <2>1. pc' = "return" /\ ret' = m
    BY <1>1, <1>3, <1>5 DEF WritevNext, Return
  <2> QED
    BY <1>1, <1>2, <1>3, <1>4, <1>5, <2>1, Returning
<1>6. CASE ~ (i > Len(call.iov))
  <2>1. pc' = "chunk" /\ ret' = ret
    BY <1>6 DEF WritevNext
  <2>2. i \in 1 .. Len(call.iov) /\ i <= Len(call.iov)
    BY <1>2, <1>6
  <2>3. call.iov[i] \in Nat /\ call.iov[i] <= MaxLen
    BY <1>1, <1>2, <2>2, IovFacts DEF IovTyped
  <2>4. Moved(ret + total)'
    <3>1. ret' + total' = m
      BY <1>1, <1>2, <1>3, <2>1
    <3> QED
      BY <1>4, <3>1 DEF Moved
  <2>5. InCall'
    BY <1>1, <1>2, <1>4, <2>1, <2>2, <2>3, <2>4 DEF InCall
  <2> QED
    BY <1>1, <1>2, <2>1, <2>5, Going
<1> QED
  BY <1>5, <1>6

\* One chunk: what holds once the host has moved r bytes.
LEMMA ChunkFacts ==
  ASSUME TransferInv, pc = "chunk", NEW r \in 0 .. MAX_BUF, HostMoves(r),
         call' = call, short' = (short \/ r < Cur),
         NEW n, n = ret + total + r
  PROVE  /\ n \in Nat /\ Moved(n)' /\ Before' = Before
         /\ DOMAIN user' = DOMAIN user /\ sent' \in Seq(Nat \X Nat)
         /\ {r, ret, total, total + r, room'} \subseteq Nat
         /\ i \in 1 .. Len(call.iov) /\ Len(call.iov) \in Nat /\ i - 1 \in 0 .. Len(call.iov)
         /\ total + r <= call.iov[i] /\ call.iov[i] \in Nat /\ call.iov[i] <= MaxLen
         /\ Before[i - 1] \in Nat /\ Before[i] = Before[i - 1] + call.iov[i]
         /\ short' => call.op \in Reading \/ room' = 0
         /\ ~ short' /\ Over(r) => n = Before[i]
         /\ ~ Over(r) => ~ short' /\ ret = Before[i - 1]
         /\ call.op \notin {"readv", "writev"} => Len(call.iov) = 1 /\ i = 1 /\ ret = 0
         /\ call.op = "readv" => ret <= SSIZE_MAX
         /\ IovTyped
<1>1. /\ IovTyped /\ InCall /\ call.op \in Reading \cup Writing
      /\ DOMAIN user = (1 .. MaxIov) \X (0 .. MaxLen) /\ sent \in Seq(Nat \X Nat)
  BY DEF TransferInv
<1>2. /\ Moved(n)' /\ DOMAIN user' = DOMAIN user /\ sent' \in Seq(Nat \X Nat)
      /\ r \in Nat /\ total + r \in Nat /\ total + r <= call.iov[i] /\ room' \in Nat
      /\ short => r = 0 /\ total = call.iov[i]
      /\ short' => call.op \in Reading \/ room' = 0
      /\ ~ short' /\ Over(r) => total + r = call.iov[i]
      /\ ~ Over(r) => ~ short'
  BY <1>1, ChunkMoves
<1>3. /\ ret \in Nat /\ total \in Nat
      /\ i \in 1 .. Len(call.iov) + 1 /\ i <= Len(call.iov) /\ call.iov[i] <= MaxLen
      /\ ~ short => ret = Before[i - 1]
      /\ call.op \notin {"readv", "writev"} => i = 1 /\ ret = 0
      /\ call.op = "readv" => ret <= SSIZE_MAX
  BY <1>1 DEF InCall
<1>4. Len(call.iov) \in Nat /\ i \in 1 .. Len(call.iov) /\ i - 1 \in 0 .. Len(call.iov)
  BY <1>1, <1>3, IovFacts
<1>5. /\ call.iov[i] \in Nat /\ Before[i - 1] \in Nat
      /\ Before[i] = Before[i - 1] + call.iov[i]
  BY <1>1, <1>4, IovFacts, BeforeStep, BeforeNat
<1>6. n \in Nat
  BY <1>2, <1>3
<1>7. ~ short' => ~ short
  OBVIOUS
<1>8. ~ short' /\ Over(r) => n = Before[i]
  <2> SUFFICES ASSUME ~ short', Over(r)
               PROVE  n = Before[i]
    OBVIOUS
  <2>1. total + r = call.iov[i] /\ ret = Before[i - 1]
    BY <1>2, <1>3, <1>7
  <2> QED
    BY <1>2, <1>3, <1>5, <2>1
<1>9. ~ Over(r) => ret = Before[i - 1]
  BY <1>2, <1>3, <1>7
<1>10. call.op \notin {"readv", "writev"} => Len(call.iov) = 1
  BY <1>1 DEF IovTyped
<1>11. Before' = Before
  BY PlacesStay
<1> QED
  BY <1>1, <1>2, <1>3, <1>4, <1>5, <1>6, <1>8, <1>9, <1>10, <1>11

\* A chunk that leaves the call in its buffer.
LEMMA ChunkGoes ==
  ASSUME TransferInv, pc = "chunk", NEW r \in 0 .. MAX_BUF, HostMoves(r),
         short' = (short \/ r < Cur), ~ Over(r), total' = total + r,
         UNCHANGED <<pc, call, i, ret>>
  PROVE  TransferInv'
<1>0. PICK n : n = ret + total + r
  OBVIOUS
<1>1. /\ Moved(n)' /\ Before' = Before
      /\ DOMAIN user' = DOMAIN user /\ sent' \in Seq(Nat \X Nat)
      /\ {r, ret, total, total + r, room'} \subseteq Nat
      /\ i \in 1 .. Len(call.iov) /\ Len(call.iov) \in Nat
      /\ total + r <= call.iov[i] /\ call.iov[i] <= MaxLen
      /\ ~ short' /\ ret = Before[i - 1]
      /\ call.op \notin {"readv", "writev"} => i = 1 /\ ret = 0
      /\ call.op = "readv" => ret <= SSIZE_MAX
  BY <1>0, ChunkFacts
<1>2. ret' + total' = n
  BY <1>0, <1>1
<1>3. Moved(ret + total)'
  BY <1>1, <1>2 DEF Moved
<1>4. /\ {total', ret', room'} \subseteq Nat
      /\ i' \in 1 .. Len(call'.iov) + 1 /\ i' <= Len(call'.iov)
      /\ total' <= call'.iov[i'] /\ call'.iov[i'] <= MaxLen
  BY <1>1
<1>5. InCall'
  BY <1>1, <1>3, <1>4 DEF InCall
<1> QED
  BY <1>1, <1>5, Going

\* A chunk that takes the call to its next buffer.
LEMMA BufferDone ==
  ASSUME TransferInv, pc = "chunk", NEW r \in 0 .. MAX_BUF, HostMoves(r),
         short' = (short \/ r < Cur), Over(r), call.op \in {"readv", "writev"},
         NEW n, n = ret + total + r, ret' = n, total' = 0, i' = i + 1,
         pc' = "next", call' = call,
         call.op = "readv" => ~ short' /\ n <= SSIZE_MAX
  PROVE  TransferInv'
<1>1. /\ n \in Nat /\ Moved(n)' /\ Before' = Before
      /\ DOMAIN user' = DOMAIN user /\ sent' \in Seq(Nat \X Nat)
      /\ room' \in Nat
      /\ i \in 1 .. Len(call.iov) /\ Len(call.iov) \in Nat
      /\ short' => call.op \in Reading \/ room' = 0
      /\ ~ short' => n = Before[i]
  BY ChunkFacts
<1>2. short' => call.op = "writev" /\ room' = 0
  BY <1>1 DEF Reading
<1>3. ret' + total' = n /\ i' - 1 = i /\ i' \in 1 .. Len(call'.iov) + 1
  BY <1>1
<1>4. Moved(ret + total)'
  BY <1>1, <1>3 DEF Moved
<1>5. {total', ret', room'} \subseteq Nat
  BY <1>1
<1>6. InCall'
  BY <1>1, <1>2, <1>3, <1>4, <1>5 DEF InCall
<1> QED
  BY <1>1, <1>6, Going

LEMMA ChunkStep ==
  ASSUME TransferInv, NEW r \in 0 .. MAX_BUF, Chunk(r)
  PROVE  TransferInv'
<1>1. /\ pc = "chunk" /\ call.op # "readv" /\ HostMoves(r) /\ call' = call
      /\ short' = (short \/ r < Cur)
  BY DEF Chunk
<1>2. CASE ~ Over(r)
  BY <1>1, <1>2, ChunkGoes DEF Chunk
<1>0. PICK n : n = ret + total + r
  OBVIOUS
<1>3. /\ n \in Nat /\ Moved(n)' /\ Before' = Before
      /\ DOMAIN user' = DOMAIN user /\ sent' \in Seq(Nat \X Nat)
      /\ {r, ret, total, total + r} \subseteq Nat
      /\ ~ short' /\ Over(r) => n = Before[i]
      /\ call.op \notin {"readv", "writev"} => Len(call.iov) = 1 /\ i = 1 /\ ret = 0
  BY <1>0, <1>1, ChunkFacts
<1>4. CASE Over(r) /\ call.op = "writev"
  <2>1. ret' = n /\ i' = i + 1 /\ total' = 0 /\ pc' = "next"
    BY <1>0, <1>4 DEF Chunk
  <2> QED
    BY <1>0, <1>1, <1>4, <2>1, BufferDone
<1>5. CASE Over(r) /\ call.op # "writev"
  <2>1. pc' = "return" /\ ret' = total + r
    BY <1>5 DEF Chunk, Return
  <2>2. n = total + r /\ i = Len(call.iov)
    <3>1. Len(call.iov) = 1 /\ i = 1 /\ ret = 0
      BY <1>1, <1>3, <1>5
    <3>2. 0 + total + r = total + r
      BY <1>3
    <3> QED
      BY <1>0, <3>1, <3>2
  <2>3. PICK m \in Nat : m = n
    BY <1>3
  <2>4. Moved(m)' /\ ret' = m /\ (~ short' => m = Before[Len(call.iov)])
    BY <1>3, <1>5, <2>1, <2>2, <2>3
  <2> QED
    BY <1>1, <1>3, <2>1, <2>3, <2>4, Returning
<1> QED
  BY <1>2, <1>4, <1>5

\* The sum of what readv has moved is negative if it is not an ssize_t.
LEMMA SsizeSum ==
  ASSUME NEW m \in Nat, m <= 2 * SSIZE_MAX
  PROVE  /\ Ssize(m) \in Int
         /\ Ssize(m) >= 0 => Ssize(m) = m /\ m <= SSIZE_MAX
         /\ ~ (Ssize(m) < 0) => Ssize(m) >= 0
  BY SsizeAssumption DEF Ssize, Huge

LEMMA ReadvChunkStep ==
  ASSUME TransferInv, NEW r \in 0 .. MAX_BUF, ReadvChunk(r)
  PROVE  TransferInv'
<1>1. /\ pc = "chunk" /\ call.op = "readv" /\ HostMoves(r) /\ call' = call
      /\ short' = (short \/ r < Cur)
  BY DEF ReadvChunk
<1>2. CASE ~ Over(r)
  BY <1>1, <1>2, ChunkGoes DEF ReadvChunk
<1>0. PICK n : n = ret + total + r
  OBVIOUS
<1>3. /\ n \in Nat /\ Moved(n)' /\ Before' = Before
      /\ DOMAIN user' = DOMAIN user /\ sent' \in Seq(Nat \X Nat)
      /\ {r, ret, total, total + r} \subseteq Nat
      /\ i \in 1 .. Len(call.iov) /\ Len(call.iov) \in Nat /\ i - 1 \in 0 .. Len(call.iov)
      /\ total + r <= call.iov[i] /\ call.iov[i] \in Nat /\ call.iov[i] <= MaxLen
      /\ ~ short' /\ Over(r) => n = Before[i]
      /\ ret <= SSIZE_MAX
  BY <1>0, <1>1, ChunkFacts
<1>4. PICK m \in Nat : m = n
  BY <1>3
<1>5. m <= 2 * SSIZE_MAX
  BY <1>0, <1>3, <1>4, SsizeAssumption, BoundsAssumption
<1>6. /\ Ssize(m) \in Int
      /\ Ssize(m) >= 0 => Ssize(m) = m /\ m <= SSIZE_MAX
      /\ ~ (Ssize(m) < 0) => Ssize(m) >= 0
  BY <1>5, SsizeSum
<1>7. CASE Over(r) /\ r < Cur
  <2>1. pc' = "return" /\ ret' = Ssize(m) /\ short'
    BY <1>0, <1>1, <1>4, <1>7 DEF ReadvChunk, Return
  <2>2. Ssize(m) >= 0 => Moved(Ssize(m))'
    BY <1>3, <1>4, <1>6
  <2> QED
    BY <1>1, <1>3, <1>6, <2>1, <2>2, Returning
<1>8. CASE Over(r) /\ ~ (r < Cur) /\ Ssize(m) < 0
  <2>1. pc' = "return" /\ ret' = -22
    BY <1>0, <1>1, <1>4, <1>8 DEF ReadvChunk, Return, EINVAL
  <2> QED
    BY <1>1, <1>3, <2>1, Returning
<1>9. CASE Over(r) /\ ~ (r < Cur) /\ ~ (Ssize(m) < 0)
  <2>1. ret' = Ssize(m) /\ i' = i + 1 /\ total' = 0 /\ pc' = "next"
    BY <1>0, <1>1, <1>4, <1>9 DEF ReadvChunk
  <2>2. ret' = m /\ m <= SSIZE_MAX
    BY <1>6, <1>9, <2>1
  <2>3. ~ short
    BY <1>1 DEF TransferInv, InCall
  <2> QED
    BY <1>0, <1>1, <1>4, <1>9, <2>1, <2>2, <2>3, BufferDone
<1> QED
  BY <1>2, <1>7, <1>8, <1>9

-----------------------------------------------------------------------------
(* Calls that begin and end *)

\* The facts on places that are needed of the state after a step.
PlaceFacts ==
  /\ Before[0] = 0
  /\ IovTyped => \A a \in Nat \X Nat : InBuffer(a) => Place(a) \in Nat

LEMMA PlacesTyped == PlaceFacts
<1>1. ASSUME IovTyped, NEW a \in Nat \X Nat, InBuffer(a)
      PROVE  Place(a) \in Nat
  <2>1. a[1] \in 1 .. Len(call.iov)
    BY <1>1, IovFacts DEF InBuffer
  <2> QED
    BY <1>1, <2>1, PlaceOrder
<1> QED
  BY <1>1, BeforeStep DEF PlaceFacts

LEMMA PlacesTypedNext == PlaceFacts'
  BY PlacesTyped, PTL

\* The buffers that a program may name.
LEMMA IovsTyped ==
  ASSUME NEW op \in Reading \cup Writing, NEW iov \in Iovs(op),
         call'.op = op, call'.iov = iov
  PROVE  IovTyped'
<1>1. MaxIov \in Nat /\ MaxLen \in Nat /\ Huge \in Nat
  BY BoundsAssumption, SsizeAssumption DEF Huge
<1>2. PICK n \in Nat :
        /\ iov \in [1 .. n -> 0 .. MaxLen \cup (IF op = "readv" THEN {Huge} ELSE {})]
        /\ n <= MaxIov
        /\ op \notin {"readv", "writev"} => n = 1
  <2>1. CASE op \in {"readv", "writev"}
    <3>1. PICK n \in 0 .. MaxIov :
            iov \in [1 .. n -> 0 .. MaxLen \cup (IF op = "readv" THEN {Huge} ELSE {})]
      BY <2>1, Zenon DEF Iovs
    <3>2. n \in Nat /\ n <= MaxIov
      BY <1>1, <3>1
    <3> QED
      BY <2>1, <3>1, <3>2
  <2>2. CASE op \notin {"readv", "writev"}
    <3>1. iov \in [1 .. 1 -> 0 .. MaxLen]
      BY <2>2, Zenon DEF Iovs
    <3>2. iov \in [1 .. 1 -> 0 .. MaxLen \cup (IF op = "readv" THEN {Huge} ELSE {})]
      BY <2>2, <3>1
    <3>3. 1 \in Nat /\ 1 <= MaxIov
      BY <1>1, BoundsAssumption
    <3> QED
      BY <3>2, <3>3
  <2> QED
    BY <2>1, <2>2
<1>3. iov \in [1 .. n -> Nat]
  BY <1>1, <1>2
<1>4. iov \in Seq(Nat) /\ Len(iov) = n
  BY <1>3, LenProperties, SeqDef
<1>5. \A k \in 1 .. n : iov[k] \in 0 .. MaxLen \/ (op = "readv" /\ iov[k] = Huge)
  BY <1>2
<1>6. \A k \in 1 .. n : iov[k] <= MaxLen \/ (op = "readv" /\ iov[k] = Huge)
  BY <1>1, <1>5
<1> QED
  BY <1>2, <1>4, <1>6 DEF IovTyped

\* Nothing has been moved when a call begins.
LEMMA EnterStep ==
  ASSUME TransferInv, NEW op \in Reading \cup Writing, NEW d, NEW iov \in Iovs(op),
         NEW n \in 0 .. MaxRoom, Enter(op, d, iov, n)
  PROVE  TransferInv'
<1>1. /\ call'.op = op /\ call'.iov = iov
      /\ pc = "user" /\ room' = n /\ i' = 1
      /\ pc' = IF op \in {"readv", "writev"} THEN "next" ELSE "chunk"
      /\ UNCHANGED <<total, ret, pos, user, sent, short>>
  BY DEF Enter
<1>2. /\ total' = 0 /\ ret' = 0 /\ pos' = 0 /\ user' = Untouched /\ sent' = <<>> /\ ~ short'
      /\ DOMAIN user = (1 .. MaxIov) \X (0 .. MaxLen)
  BY <1>1 DEF TransferInv, Begun
<1>3. IovTyped'
  BY <1>1, IovsTyped
<1>4. /\ Len(call'.iov) \in Nat
      /\ \A k \in 1 .. Len(call'.iov) : call'.iov[k] \in Nat
      /\ MaxIov \in Nat /\ MaxLen \in Nat /\ SSIZE_MAX \in Nat /\ room' \in Nat
  BY <1>1, <1>3, LenProperties, ElementOfSeq, BoundsAssumption, SsizeAssumption DEF IovTyped
<1>5. Before'[0] = 0 /\ \A a \in Nat \X Nat : InBuffer(a)' => Place(a)' \in Nat
  BY <1>3, PlacesTypedNext DEF PlaceFacts
<1>6. Moved(ret + total)'
  <2>1. ret' + total' = 0
    BY <1>2
  <2>2. \A a \in DOMAIN user' : ~ (InBuffer(a)' /\ Place(a)' < 0)
    <3>1. ASSUME NEW a \in DOMAIN user', InBuffer(a)'
          PROVE  ~ (Place(a)' < 0)
      <4>1. a \in Nat \X Nat
        BY <1>2, <1>4 DEF Untouched
      <4>2. Place(a)' \in Nat
        BY <1>5, <3>1, <4>1
      <4> QED
        BY <4>2
    <3> QED
      BY <3>1
  <2>3. \A a \in DOMAIN user' : user'[a] = None
    BY <1>2 DEF Untouched
  <2>4. Len(sent') = 0 /\ 1 .. 0 = {}
    BY <1>2, EmptySeq
  <2> QED
    BY <1>2, <2>1, <2>2, <2>3, <2>4 DEF Moved
<1>7. InCall'
  <2>1. {total', ret', room'} \subseteq Nat /\ i' - 1 = 0 /\ i' \in 1 .. Len(call'.iov) + 1
    BY <1>1, <1>2, <1>4
  <2>2. ret' = Before'[i' - 1]
    BY <1>2, <1>5, <2>1
  <2>3. CASE op \in {"readv", "writev"}
    <3>1. pc' = "next"
      BY <1>1, <2>3
    <3>2. 0 <= SSIZE_MAX
      BY <1>4
    <3> QED
      BY <1>1, <1>2, <1>6, <2>1, <2>2, <2>3, <3>1, <3>2 DEF InCall
  <2>4. CASE op \notin {"readv", "writev"}
    <3>1. pc' = "chunk" /\ Len(call'.iov) = 1
      BY <1>1, <1>3, <2>4 DEF IovTyped
    <3>2. 1 \in 1 .. Len(call'.iov)
      BY <3>1
    <3>3. i' <= Len(call'.iov) /\ total' <= call'.iov[i'] /\ call'.iov[i'] <= MaxLen
      <4>1. call'.iov[1] \in Nat /\ call'.iov[1] <= MaxLen
        BY <1>1, <1>3, <1>4, <2>4, <3>2 DEF IovTyped
      <4> QED
        BY <1>1, <1>2, <3>1, <4>1
    <3> QED
      BY <1>1, <1>2, <1>6, <2>1, <2>2, <2>4, <3>1, <3>3 DEF InCall
  <2> QED
    BY <2>3, <2>4
<1>8. DOMAIN user' = (1 .. MaxIov) \X (0 .. MaxLen) /\ sent' \in Seq(Nat \X Nat)
  <2>1. DOMAIN user' = (1 .. MaxIov) \X (0 .. MaxLen)
    BY <1>2 DEF Untouched
  <2>2. sent' \in Seq(Nat \X Nat)
    BY <1>2, EmptySeq
  <2> QED
    BY <2>1, <2>2
<1>9. pc' \in {"next", "chunk"} /\ TransferExact'
  BY <1>1 DEF TransferExact
<1> QED
  BY <1>1, <1>3, <1>7, <1>8, <1>9 DEF TransferInv

LEMMA LeaveStep == ASSUME TransferInv, Leave PROVE TransferInv'
<1>1. /\ pc' = "user" /\ call' = NoCall /\ total' = 0 /\ ret' = 0 /\ pos' = 0
      /\ user' = Untouched /\ sent' = <<>> /\ ~ short'
  BY DEF Leave
<1>2. call'.op \in Reading
  BY <1>1 DEF NoCall, Reading
<1>3. DOMAIN user' = (1 .. MaxIov) \X (0 .. MaxLen) /\ sent' \in Seq(Nat \X Nat)
  BY <1>1, EmptySeq DEF Untouched
<1>4. TransferExact' /\ Begun'
  BY <1>1 DEF TransferExact, Begun
<1> QED
  BY <1>1, <1>2, <1>3, <1>4 DEF TransferInv

LEMMA FailStep == ASSUME TransferInv, Fail PROVE TransferInv'
<1>1. /\ pc = "chunk" /\ pc' = "return" /\ ret' = -5
      /\ UNCHANGED <<call, user, sent>>
  BY DEF Fail, Return, EIO, data
<1>2. sent' \in Seq(Nat \X Nat) /\ DOMAIN user' = DOMAIN user
  BY <1>1 DEF TransferInv
<1> QED
  BY <1>1, <1>2, Returning

LEMMA TransferInit == CallInit => TransferInv
<1> SUFFICES ASSUME CallInit
             PROVE  TransferInv
  OBVIOUS
<1>1. /\ pc = "user" /\ call = NoCall /\ total = 0 /\ ret = 0 /\ pos = 0
      /\ user = Untouched /\ sent = <<>> /\ short = FALSE
  BY DEF CallInit
<1>2. call.op \in Reading
  BY <1>1 DEF NoCall, Reading
<1>3. DOMAIN user = (1 .. MaxIov) \X (0 .. MaxLen) /\ sent \in Seq(Nat \X Nat)
  BY <1>1, EmptySeq DEF Untouched
<1>4. TransferExact /\ Begun
  BY <1>1 DEF TransferExact, Begun
<1> QED
  BY <1>1, <1>2, <1>3, <1>4 DEF TransferInv

LEMMA TransferStep == TransferInv /\ [SysNext]_sysvars => TransferInv'
<1> SUFFICES ASSUME TransferInv, [SysNext]_sysvars
             PROVE  TransferInv'
  OBVIOUS
<1>1. CASE OtherCall
  <2>1. UNCHANGED <<pc, call, i, total, ret, pos, room, user, sent, short>>
    BY <1>1 DEF OtherCall, data
  <2> QED
    BY <2>1, TransferStill
<1>2. CASE Begin
  <2>1. PICK op \in Reading \cup Writing, d \in Fd, n \in 0 .. MaxRoom :
          \E iov \in Iovs(op) : Enter(op, d, iov, n)
    BY <1>2 DEF Begin
  <2> QED
    BY <2>1, EnterStep
<1>3. CASE ReadvNext
  BY <1>3, ReadvNextStep
<1>4. CASE WritevNext
  BY <1>4, WritevNextStep
<1>5. ASSUME NEW r \in 0 .. MAX_BUF, Chunk(r) \/ ReadvChunk(r)
      PROVE  TransferInv'
  BY <1>5, ChunkStep, ReadvChunkStep
<1>6. CASE Leave
  BY <1>6, LeaveStep
<1>7. CASE Fail
  BY <1>7, FailStep
<1>8. ASSUME NEW g \in File, FaultRelease(g)
      PROVE  TransferInv'
  <2>1. UNCHANGED <<pc, call, i, total, ret, pos, room, user, sent, short>>
    BY <1>8 DEF FaultRelease, data
  <2> QED
    BY <2>1, TransferStill
<1>9. CASE UNCHANGED sysvars
  <2>1. UNCHANGED <<pc, call, i, total, ret, pos, room, user, sent, short>>
    BY <1>9 DEF sysvars, data
  <2> QED
    BY <2>1, TransferStill
<1> QED
  BY <1>1, <1>2, <1>3, <1>4, <1>5, <1>6, <1>7, <1>8, <1>9 DEF SysNext, Kernel

LEMMA TransferInvariance == SysSpec => []TransferInv
  BY TransferInit, TransferStep, PTL DEF SysSpec

\* A count that read, pread, write, readv or writev returns is the number of
\* bytes moved, the first ones of the buffers and in their order, from or to
\* the file's position on, for every number and length of buffers, every size
\* of the kernel's buffer and every short chunk: the chunks fit together, and
\* so do the buffers, up to the largest ssize_t.
THEOREM TransfersExact == SysSpec => []TransferExact
<1>1. TransferInv => TransferExact
  BY DEF TransferInv
<1> QED
  BY <1>1, TransferInvariance, PTL
=============================================================================
