------------------------------ MODULE PkFiles ------------------------------
(***************************************************************************)
(* The proxy kernel's open files: the table of file structs with their     *)
(* reference counts, the program's descriptor table fds (pk/file.c), the   *)
(* system calls over them (pk/syscall.c), and the descriptors the host     *)
(* keeps open on the kernel's behalf.                                      *)
(*                                                                         *)
(* The proxy kernel runs on one hart with interrupts off, so a system call *)
(* is one step.  References held outside fds - by the regions of the       *)
(* memory map, and by load_elf while it maps the program - are counted in  *)
(* held.  A file struct is its index in files[], a descriptor its index in *)
(* fds[].                                                                  *)
(***************************************************************************)
EXTENDS Integers, FiniteSets

CONSTANTS
  MAX_FDS,    \* length of fds[]
  MAX_FILES,  \* length of files[]
  MaxHeld     \* bound on the references the memory map holds on a file

ASSUME FdsAssumption == MAX_FDS \in Nat /\ MAX_FDS >= 3
ASSUME FilesAssumption == MAX_FILES \in Nat /\ MAX_FILES >= 3
ASSUME HeldAssumption == MaxHeld \in Nat

Fd == 0 .. MAX_FDS - 1
File == 0 .. MAX_FILES - 1
Stdio == 0 .. 2
NULL == -1

VARIABLES
  fds,     \* file struct of each descriptor, or NULL
  refcnt,  \* reference count of each file struct, 0 if it is free
  kfd,     \* host descriptor of each file struct, stale if it is free
  host,    \* descriptors open at the host
  held     \* references to each file struct from outside fds

vars == <<fds, refcnt, kfd, host, held>>

\* The state file_init leaves: it takes a file struct and a descriptor for
\* each standard stream, and keeps the reference file_get_free gave it.
Init ==
  /\ fds = [d \in Fd |-> IF d \in Stdio THEN d ELSE NULL]
  /\ refcnt = [f \in File |-> IF f \in Stdio THEN 3 ELSE 0]
  /\ kfd = [f \in File |-> IF f \in Stdio THEN f ELSE -1]
  /\ host = Stdio
  /\ held = [f \in File |-> 0]

-----------------------------------------------------------------------------
(* Helpers *)

\* file_get_free takes the first file struct without references.
GetsFree(f) == refcnt[f] = 0 /\ \A g \in File : g < f => refcnt[g] # 0

\* file_dup takes the first free descriptor.
GetsFd(d) == fds[d] = NULL /\ \A e \in Fd : e < d => fds[e] # NULL

NoFd == \A d \in Fd : fds[d] # NULL

\* The host opens its lowest free descriptor.
HostOpens(k) == k \in Nat \ host /\ \A j \in 0 .. k - 1 : j \in host

\* Mutant: the last reference goes without a close.
DecrefSilently(f) ==
  /\ refcnt' = [refcnt EXCEPT ![f] = IF @ = 2 THEN 0 ELSE @ - 1]
  /\ UNCHANGED host

\* file_decref: the count of an open file never rests at 1.
Decref(f) ==
  IF refcnt[f] = 2
  THEN /\ refcnt' = [refcnt EXCEPT ![f] = 0]
       /\ host' = host \ {kfd[f]}
  ELSE /\ refcnt' = [refcnt EXCEPT ![f] = @ - 1]
       /\ UNCHANGED host

Incref(f) == refcnt' = [refcnt EXCEPT ![f] = @ + 1]

-----------------------------------------------------------------------------
(* System calls *)

\* sys_openat, the host opens the file and a descriptor is free.
Openat(f, k, d) ==
  /\ GetsFree(f)
  /\ HostOpens(k)
  /\ GetsFd(d)
  /\ fds' = [fds EXCEPT ![d] = f]
  /\ refcnt' = [refcnt EXCEPT ![f] = 2]
  /\ kfd' = [kfd EXCEPT ![f] = k]
  /\ host' = host \cup {k}
  /\ UNCHANGED held

\* All descriptors are taken: file_decref closes what was just opened.
OpenatNoFd(f, k) ==
  /\ GetsFree(f)
  /\ HostOpens(k)
  /\ NoFd
  /\ kfd' = [kfd EXCEPT ![f] = k]
  /\ UNCHANGED <<fds, refcnt, host, held>>

\* Mutant: kfd is set before the result is tested.
OpenatRefusedStored(f) ==
  /\ GetsFree(f)
  /\ kfd' = [kfd EXCEPT ![f] = -2]
  /\ UNCHANGED <<fds, refcnt, host, held>>

\* The host refuses: file_decref closes whatever kfd the struct still has
\* from its last use.
OpenatRefused(f) ==
  /\ GetsFree(f)
  /\ host' = host \ {kfd[f]}
  /\ UNCHANGED <<fds, refcnt, kfd, held>>

\* sys_close.
Close(d) ==
  /\ fds[d] # NULL
  /\ fds' = [fds EXCEPT ![d] = NULL]
  /\ Decref(fds[d])
  /\ UNCHANGED <<kfd, held>>

\* sys_dup.
Dup(d, e) ==
  /\ fds[d] # NULL
  /\ GetsFd(e)
  /\ fds' = [fds EXCEPT ![e] = fds[d]]
  /\ Incref(fds[d])
  /\ UNCHANGED <<kfd, host, held>>

\* Mutant: the new descriptor is not counted.
Dup3Uncounted(d, e) ==
  /\ fds[d] # NULL
  /\ fds[e] = NULL
  /\ fds' = [fds EXCEPT ![e] = fds[d]]
  /\ UNCHANGED <<refcnt, kfd, host, held>>

\* sys_dup3 serves a free descriptor only.
Dup3(d, e) ==
  /\ fds[d] # NULL
  /\ fds[e] = NULL
  /\ fds' = [fds EXCEPT ![e] = fds[d]]
  /\ Incref(fds[d])
  /\ UNCHANGED <<kfd, host, held>>

-----------------------------------------------------------------------------
(* References from outside fds *)

\* load_elf opens the program without a descriptor.
OpenProgram(f, k) ==
  /\ GetsFree(f)
  /\ HostOpens(k)
  /\ refcnt' = [refcnt EXCEPT ![f] = 2]
  /\ kfd' = [kfd EXCEPT ![f] = k]
  /\ host' = host \cup {k}
  /\ held' = [held EXCEPT ![f] = 1]
  /\ UNCHANGED fds

\* A new region of the memory map refers to an open file.
Hold(f) ==
  /\ refcnt[f] > 0
  /\ held[f] < MaxHeld
  /\ held' = [held EXCEPT ![f] = @ + 1]
  /\ Incref(f)
  /\ UNCHANGED <<fds, kfd, host>>

\* The last page of a region is gone, or load_elf is done.
Release(f) ==
  /\ held[f] > 0
  /\ held' = [held EXCEPT ![f] = @ - 1]
  /\ Decref(f)
  /\ UNCHANGED <<fds, kfd>>

-----------------------------------------------------------------------------

\* The system calls of the program.
FileCall ==
  \/ \E f \in File :
       \/ \E k \in 0 .. MAX_FILES :
            \/ \E d \in Fd : Openat(f, k, d)
            \/ OpenatNoFd(f, k)
       \/ OpenatRefused(f)
  \/ \E d \in Fd :
       \/ Close(d)
       \/ \E e \in Fd : Dup(d, e) \/ Dup3(d, e)

\* The memory map, and load_elf.
Other ==
  \E f \in File :
    \/ \E k \in 0 .. MAX_FILES : OpenProgram(f, k)
    \/ Hold(f)
    \/ Release(f)

Next == FileCall \/ Other

Spec == Init /\ [][Next]_vars

-----------------------------------------------------------------------------
(* Properties *)

TypeOK ==
  /\ fds \in [Fd -> File \cup {NULL}]
  /\ refcnt \in [File -> Nat]
  /\ kfd \in [File -> Nat \cup {-1}]
  /\ host \subseteq Nat
  /\ held \in [File -> Nat]

Fds(f) == {d \in Fd : fds[d] = f}

\* The count of an open file is one more than its references, and two more
\* for a standard stream; a free file has none.  file_decref relies on it to
\* close a file with its last reference and not before.
RefcntExact ==
  \A f \in File :
    LET refs == Cardinality(Fds(f)) + held[f]
    IN  IF refcnt[f] = 0 THEN refs = 0 /\ f \notin Stdio
        ELSE refcnt[f] = refs + (IF f \in Stdio THEN 2 ELSE 1)
             /\ refcnt[f] > 1

\* The host keeps open exactly the descriptors of open files, each the
\* descriptor of one file: nothing in use is closed under the program, by a
\* stale kfd either, and nothing stays open that nobody can reach.
HostExact ==
  LET open == {f \in File : refcnt[f] # 0}
  IN  /\ host = {kfd[f] : f \in open}
      /\ \A f, g \in open : kfd[f] = kfd[g] => f = g
=============================================================================
