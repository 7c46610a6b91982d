------------------------------ MODULE Syscalls ------------------------------
(***************************************************************************)
(* The system calls of pk/syscall.c that move data between user memory and *)
(* a host file: read, pread, write, readv and writev.  Each goes through a *)
(* buffer on the kernel stack, MAX_BUF bytes at a time, with one call of   *)
(* the host per chunk, and holds a reference to its file meanwhile.        *)
(*                                                                         *)
(* A byte of user memory is <<i, j>>, the j-th of the i-th buffer, and     *)
(* holds the position in the file of the byte the kernel put there, or     *)
(* None.  Copying to and from user memory may take a page fault, which may *)
(* drop the last page of a file mapping and with it a reference to a file  *)
(* (mmap.c:190), so that files change under a call as well.                *)
(***************************************************************************)
EXTENDS PkFiles, Sequences

CONSTANTS
  MAX_BUF,    \* size of the buffer on the kernel stack
  SSIZE_MAX,  \* the largest ssize_t
  MaxLen,     \* bound on the length of a buffer
  MaxIov,     \* bound on the number of buffers
  Called,     \* the files calls and mappings are made on
  MaxRoom     \* bound on what the host still has room for

ASSUME BufAssumption == MAX_BUF \in Nat \ {0}
ASSUME SsizeAssumption == SSIZE_MAX \in Nat
ASSUME BoundsAssumption ==
  /\ {MaxLen, MaxIov, MaxRoom} \subseteq Nat
  /\ MaxIov >= 1
  /\ MaxLen <= SSIZE_MAX

VARIABLES
  pc,       \* where the call is: "user" outside of calls
  call,     \* its arguments
  i,        \* the buffer it is at
  total,    \* bytes moved from or to this buffer
  ret,      \* bytes moved before, at the end the value returned
  pos,      \* the host's position in the file
  room,     \* bytes the host still has room for
  user,     \* user memory
  sent,     \* the bytes the host got, as user addresses
  short,    \* history: the host moved less than it was asked to
  regions   \* the references in held that the memory map has

filevars == <<fds, refcnt, kfd, host, held>>
data == <<pos, room, user, sent>>
sysvars == <<filevars, pc, call, i, total, ret, data, short, regions>>

Reading == {"read", "pread", "readv"}
Writing == {"write", "writev"}

None == -1
NoCall == [op |-> "read", file |-> 0, iov |-> <<>>]
Untouched == [a \in (1 .. MaxIov) \X (0 .. MaxLen) |-> None]
EIO == -5
EINVAL == -22

\* Where a pread of the program reads; other calls start at position 0.
PREAD_OFFSET == MaxLen * MaxIov

\* A length with the sign bit set, which no ssize_t represents.
Huge == SSIZE_MAX + 1

CallInit ==
  /\ Init
  /\ pc = "user"
  /\ call = NoCall
  /\ i = 0
  /\ total = 0
  /\ ret = 0
  /\ pos = 0
  /\ room = 0
  /\ user = Untouched
  /\ sent = <<>>
  /\ short = FALSE
  /\ regions = held

-----------------------------------------------------------------------------
(* Helpers *)

Least(m, n) == IF m < n THEN m ELSE n

\* What the next chunk asks of the host.
Cur == Least(call.iov[i] - total, MAX_BUF)

\* Where it begins in the file.
From == IF call.op = "pread" THEN PREAD_OFFSET + total ELSE pos

\* An unsigned sum below 2 * Huge, stored in an ssize_t.
Ssize(n) == IF n > SSIZE_MAX THEN n - 2 * Huge ELSE n

\* file_get takes a reference to the file of an open descriptor.
FileGet(f) == Hold(f) /\ UNCHANGED regions

\* file_decref at the end of a call that moved its data.
FileDecref(f) == Release(f) /\ UNCHANGED regions

Stays == UNCHANGED <<filevars, regions>>

-----------------------------------------------------------------------------
(* Beginning and ending *)

\* The buffers the program may name.  Only readv looks for Huge.
Iovs(op) ==
  IF op \in {"readv", "writev"}
  THEN UNION {[1 .. n -> 0 .. MaxLen \cup (IF op = "readv" THEN {Huge} ELSE {})] :
                n \in 0 .. MaxIov}
  ELSE [1 .. 1 -> 0 .. MaxLen]

\* A system call on an open descriptor.  All but writev take a reference to
\* the file here, and read, pread and write have one buffer.
Enter(op, d, iov, n) ==
  /\ pc = "user"
  /\ fds[d] # NULL
  /\ call' = [op |-> op, file |-> fds[d], iov |-> iov]
  /\ room' = n
  /\ i' = 1
  /\ IF op = "writev" THEN Stays ELSE FileGet(fds[d])
  /\ pc' = IF op \in {"readv", "writev"} THEN "next" ELSE "chunk"
  /\ UNCHANGED <<total, ret, pos, user, sent, short>>

\* The program runs on, and its memory is what the next call finds.
Leave ==
  /\ pc = "return"
  /\ pc' = "user"
  /\ call' = NoCall
  /\ i' = 0
  /\ total' = 0
  /\ ret' = 0
  /\ pos' = 0
  /\ room' = 0
  /\ user' = Untouched
  /\ sent' = <<>>
  /\ short' = FALSE
  /\ Stays

\* The call returns r.
Return(r) == pc' = "return" /\ ret' = r

-----------------------------------------------------------------------------
(* From buffer to buffer *)

\* The loop of sys_readv, at the next iovec.
ReadvNext ==
  /\ pc = "next"
  /\ call.op = "readv"
  /\ IF i > Len(call.iov)
     THEN Return(ret) /\ FileDecref(call.file) /\ UNCHANGED i
     ELSE IF call.iov[i] = Huge
     THEN Return(EINVAL) /\ FileDecref(call.file) /\ UNCHANGED i
     ELSE /\ IF call.iov[i] = 0
             THEN i' = i + 1 /\ UNCHANGED pc
             ELSE pc' = "chunk" /\ UNCHANGED i
          /\ Stays
          /\ UNCHANGED ret
  /\ UNCHANGED <<call, total, data, short>>

\* The loop of sys_writev calls sys_write for each iovec.
WritevNext ==
  /\ pc = "next"
  /\ call.op = "writev"
  /\ IF i > Len(call.iov)
     THEN Return(ret) /\ Stays
     ELSE pc' = "chunk" /\ FileGet(call.file) /\ UNCHANGED ret
  /\ UNCHANGED <<call, i, total, data, short>>

-----------------------------------------------------------------------------
(* One chunk *)

\* Mutant: the second chunk is copied over the first.
CopyOutFirst(r) ==
  /\ user' = [a \in DOMAIN user |->
                IF a[1] = i /\ a[2] \in 0 .. r - 1 THEN From + a[2] ELSE user[a]]
  /\ pos' = IF call.op = "pread" THEN pos ELSE pos + r
  /\ UNCHANGED <<sent, room>>

\* file_read or file_pread has returned r bytes, and memcpy_to_user puts them
\* behind those that have been moved.
CopyOut(r) ==
  /\ user' = [a \in DOMAIN user |->
                IF a[1] = i /\ a[2] - total \in 0 .. r - 1
                THEN From + a[2] - total ELSE user[a]]
  /\ pos' = IF call.op = "pread" THEN pos ELSE pos + r
  /\ UNCHANGED <<sent, room>>

\* memcpy_from_user of the next chunk, of which file_write takes r bytes.
CopyIn(r) ==
  /\ sent' = sent \o [k \in 1 .. r |-> <<i, total + k - 1>>]
  /\ room' = room - r
  /\ UNCHANGED <<user, pos>>

\* The host reads as little as it likes.  It writes less than asked when it has
\* no more room, and nothing after that.
HostMoves(r) ==
  IF call.op \in Reading THEN /\ r \in 0 .. Cur
                              /\ CopyOut(r)
                         ELSE /\ r = Least(Cur, room)
                              /\ Cur > 0 => r > 0
                              /\ CopyIn(r)

\* Mutant: only a short chunk ends the loop.
OverShort(r) == r < Cur

\* The loop over the chunks of a buffer is over.
Over(r) == r < Cur \/ total + r = call.iov[i]

\* The loops of sys_read, sys_pread and sys_write; the last one returns to
\* sys_writev if it has been called from there.
Chunk(r) ==
  /\ pc = "chunk"
  /\ call.op # "readv"
  /\ HostMoves(r)
  /\ short' = (short \/ r < Cur)
  /\ IF ~ Over(r)
     THEN total' = total + r /\ Stays /\ UNCHANGED <<pc, i, ret>>
     ELSE /\ FileDecref(call.file)
          /\ IF call.op = "writev"
             THEN /\ ret' = ret + total + r
                  /\ i' = i + 1
                  /\ total' = 0
                  /\ pc' = "next"
             ELSE Return(total + r) /\ UNCHANGED <<i, total>>
  /\ UNCHANGED call

\* The loop of sys_readv over the chunks of a buffer: a short one ends the call.
ReadvChunk(r) ==
  /\ pc = "chunk"
  /\ call.op = "readv"
  /\ HostMoves(r)
  /\ short' = (short \/ r < Cur)
  /\ IF ~ Over(r)
     THEN total' = total + r /\ Stays /\ UNCHANGED <<pc, i, ret>>
     ELSE LET sum == Ssize(ret + total + r)
          IN  IF r < Cur
              THEN Return(sum) /\ FileDecref(call.file) /\ UNCHANGED <<i, total>>
              ELSE IF sum < 0
              THEN Return(EINVAL) /\ FileDecref(call.file) /\ UNCHANGED <<i, total>>
              ELSE /\ ret' = sum
                   /\ i' = i + 1
                   /\ total' = 0
                   /\ pc' = "next"
                   /\ Stays
  /\ UNCHANGED call

\* Mutant: readv returns on an error without passing out_decref_f.
FailKeeping ==
  /\ pc = "chunk"
  /\ Return(EIO)
  /\ IF call.op = "readv" THEN Stays ELSE FileDecref(call.file)
  /\ UNCHANGED <<call, i, total, data, short>>

\* The host reports an error, which the call returns, whatever was moved
\* before.
Fail ==
  /\ pc = "chunk"
  /\ Return(EIO)
  /\ FileDecref(call.file)
  /\ UNCHANGED <<call, i, total, data, short>>

\* A page fault in the copy makes the last page of a mapping of f present.
FaultRelease(f) ==
  /\ pc \in {"next", "chunk"}
  /\ regions[f] > 0
  /\ Release(f)
  /\ regions' = [regions EXCEPT ![f] = @ - 1]
  /\ UNCHANGED <<pc, call, i, total, ret, data, short>>

-----------------------------------------------------------------------------

\* The other system calls, and the memory map on behalf of them.  Within
\* the bounds they leave room for the reference of a call.
OtherCall ==
  /\ pc = "user"
  /\ FileCall \/ Other
  /\ \A f \in File : held'[f] < IF f \in Called THEN MaxHeld ELSE 1
  /\ regions' = held'
  /\ UNCHANGED <<pc, call, i, total, ret, data, short>>

Begin ==
  \E op \in Reading \cup Writing, d \in Fd, n \in 0 .. MaxRoom :
    /\ op \in Reading => n = 0
    /\ fds[d] \in Called
    /\ \E iov \in Iovs(op) : Enter(op, d, iov, n)

Kernel ==
  \/ ReadvNext
  \/ WritevNext
  \/ \E r \in 0 .. MAX_BUF : Chunk(r) \/ ReadvChunk(r)
  \/ Leave

SysNext ==
  \/ OtherCall
  \/ Begin
  \/ Kernel
  \/ Fail
  \/ \E f \in File : FaultRelease(f)

\* The kernel goes on with a call it has begun, and the host answers; it need
\* not report an error but where it has no room for a write.
SysSpec ==
  /\ CallInit
  /\ [][SysNext]_sysvars
  /\ WF_sysvars(Kernel)
  /\ WF_sysvars(Fail /\ call.op \in Writing /\ room = 0 /\ Cur > 0)

-----------------------------------------------------------------------------
(* Properties *)

\* The length of the first k buffers.
Before[k \in 0 .. MaxIov] == IF k = 0 THEN 0 ELSE Before[k - 1] + call.iov[k]

\* Byte a is in a buffer, Place(a) bytes behind the beginning of the first.
InBuffer(a) == a[1] \in DOMAIN call.iov /\ a[2] < call.iov[a[1]]
Place(a) == Before[a[1] - 1] + a[2]

\* A call that returns a count has moved that many bytes, those at the
\* beginning of the buffers and in their order, from or to the file's position
\* on, which it leaves behind them (pread leaves it alone); it has touched
\* nothing else; and it moved less than it was asked only if the host did.
\* The chunks of a buffer, and the buffers of a call, fit together.
TransferExact ==
  pc = "return" /\ ret >= 0 =>
    /\ call.op \in Reading =>
         \A a \in DOMAIN user :
           user[a] = IF InBuffer(a) /\ Place(a) < ret
                     THEN Place(a) + (IF call.op = "pread" THEN PREAD_OFFSET ELSE 0)
                     ELSE None
    /\ pos = IF call.op \in {"read", "readv"} THEN ret ELSE 0
    /\ call.op \in Writing =>
         /\ Len(sent) = ret
         /\ \A k \in 1 .. ret : InBuffer(sent[k]) /\ Place(sent[k]) = k - 1
    /\ ~ short => ret = Before[Len(call.iov)]

\* Outside of a call, on every path out of one, no reference to a file is left
\* but those of descriptors and of the memory map.
ReferencesReturned == pc \in {"user", "return"} => held = regions

\* Every call returns: no loop over chunks or buffers turns on the spot.
CallReturns == pc # "user" ~> pc = "user"
=============================================================================
