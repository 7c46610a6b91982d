-------------------------------- MODULE Htif --------------------------------
(***************************************************************************)
(* The host-target interface: one mailbox with a word in each direction,   *)
(* shared by console output, console input, proxied system calls and       *)
(* poweroff, from any hart (machine/htif.c, pk/frontend.c).  The build is  *)
(* for RV64.                                                               *)
(*                                                                         *)
(* The kernel writes tohost only when it is zero and the host only when    *)
(* it is not, and the other way round for fromhost, so that a test of a    *)
(* word and the write that the test permits are one step.  The variables   *)
(* the htif_lock guards are touched by its owner only.                     *)
(*                                                                         *)
(* Places of a hart in a call:                                             *)
(*   frontend  waiting for the lock of frontend_syscall                    *)
(*   lock      waiting for htif_lock                                       *)
(*   check     in getchar, before __check_fromhost                         *)
(*   peek      in getchar, behind it                                       *)
(*   send      in __set_tohost                                             *)
(*   reply     in the loop of do_tohost_fromhost                           *)
(*   unlock    before spinlock_unlock                                      *)
(*   answer    back in frontend_syscall, before it reads magic_mem[0]      *)
(*   dead      behind a failed assertion                                   *)
(*                                                                         *)
(* The n-th character typed is the number n, from 0 on: the first is NUL.  *)
(***************************************************************************)
EXTENDS Integers, Sequences, FiniteSets

CONSTANTS
  Hart,      \* the harts that use the interface
  Call,      \* the calls they make in this instance
  MaxCalls,  \* bound on the calls of each hart
  MaxTyped   \* bound on the characters typed

ASSUME CallAssumption ==
  Call \subseteq {"getchar", "putchar", "syscall", "poweroff"}
ASSUME MaxCallsAssumption == MaxCalls \in Nat
ASSUME MaxTypedAssumption == MaxTyped \in Nat

FREE == "free"
ASSUME FreeAssumption == FREE \notin Hart

VARIABLES
  tohost, fromhost,  \* the mailbox
  htif_console_buf,  \* 0 at first, -1 with a request out, 1 + c with c there
  htif_lock,         \* its owner, or FREE
  lock,              \* that of frontend_syscall
  magic_mem,         \* whose request it holds, and whether it is answered
  pc, call, calls,   \* of each hart
  host,              \* the host's side: see HostInit
  sent,              \* history: characters put
  got                \* history: characters returned by getchar, in order

guarded == <<htif_console_buf, htif_lock>>
frontend == <<lock, magic_mem>>
history == <<sent, got>>
vars == <<tohost, fromhost, guarded, frontend, pc, call, calls, host, history>>

Word(cmd, data) == [cmd |-> cmd, data |-> data]
Zero == Word("zero", 0)

\* The host as the kernel knows it: read requests it has not served yet, the
\* characters typed and passed on, replies it has not written yet, the
\* characters it has printed, and whether it has ended the simulation.
HostInit ==
  [reading |-> 0, typed |-> 0, passed |-> 0, replies |-> <<>>, printed |-> 0,
   off |-> FALSE]

Init ==
  /\ tohost = Zero
  /\ fromhost = Zero
  /\ htif_console_buf = 0
  /\ htif_lock = FREE
  /\ lock = FREE
  /\ magic_mem = [from |-> FREE, answered |-> FALSE]
  /\ pc = [h \in Hart |-> "idle"]
  /\ call = [h \in Hart |-> "none"]
  /\ calls = [h \in Hart |-> 0]
  /\ host = HostInit
  /\ sent = 0
  /\ got = <<>>

-----------------------------------------------------------------------------
(* The harts *)

Goto(h, place) == pc' = [pc EXCEPT ![h] = place]

\* Hart h calls htif_console_getchar, htif_console_putchar, htif_poweroff or
\* frontend_syscall.
Begin(h, c) ==
  /\ pc[h] = "idle"
  /\ calls[h] < MaxCalls
  /\ calls' = [calls EXCEPT ![h] = @ + 1]
  /\ call' = [call EXCEPT ![h] = c]
  /\ Goto(h, IF c = "syscall" THEN "frontend" ELSE "lock")
  /\ UNCHANGED <<tohost, fromhost, guarded, frontend, host, history>>

\* Mutant: frontend_syscall does not lock.
FrontendUnlocked(h) ==
  /\ pc[h] = "frontend"
  /\ lock' = h
  /\ magic_mem' = [from |-> h, answered |-> FALSE]
  /\ Goto(h, "lock")
  /\ UNCHANGED <<tohost, fromhost, guarded, call, calls, host, history>>

\* frontend_syscall locks and fills in magic_mem.
Frontend(h) ==
  /\ pc[h] = "frontend"
  /\ lock = FREE
  /\ lock' = h
  /\ magic_mem' = [from |-> h, answered |-> FALSE]
  /\ Goto(h, "lock")
  /\ UNCHANGED <<tohost, fromhost, guarded, call, calls, host, history>>

Lock(h) ==
  /\ pc[h] = "lock"
  /\ htif_lock = FREE
  /\ htif_lock' = h
  /\ Goto(h, IF call[h] = "getchar" THEN "check" ELSE "send")
  /\ UNCHANGED <<tohost, fromhost, htif_console_buf, frontend, call, calls,
                 host, history>>

\* Mutant: the character is stored as it is, not one above.
CheckFromhostPlain(h, next) ==
  /\ fromhost' = Zero
  /\ htif_console_buf' = IF fromhost.cmd = "read" THEN fromhost.data
                         ELSE htif_console_buf
  /\ Goto(h, IF fromhost.cmd = "syscall" THEN "dead" ELSE next)

\* __check_fromhost takes what is in fromhost and asserts that it is from the
\* console: a character, or the acknowledgement of one that was put.
CheckFromhost(h, next) ==
  /\ fromhost' = Zero
  /\ htif_console_buf' = IF fromhost.cmd = "read" THEN 1 + fromhost.data
                         ELSE htif_console_buf
  /\ Goto(h, IF fromhost.cmd = "syscall" THEN "dead" ELSE next)

Check(h) ==
  /\ pc[h] = "check"
  /\ CheckFromhost(h, "peek")
  /\ UNCHANGED <<tohost, htif_lock, frontend, call, calls, host, history>>

\* Mutant: every getchar asks for a character, also while one is asked for.
PeekAlways(h) ==
  /\ pc[h] = "peek"
  /\ htif_console_buf' = -1
  /\ got' = IF htif_console_buf > 0 THEN Append(got, htif_console_buf - 1)
                                    ELSE got
  /\ Goto(h, "send")
  /\ UNCHANGED <<tohost, fromhost, htif_lock, frontend, call, calls, host, sent>>

\* getchar takes the character that is there, and asks for the next unless
\* one is asked for already.
Peek(h) ==
  /\ pc[h] = "peek"
  /\ IF htif_console_buf >= 0
     THEN /\ htif_console_buf' = -1
          /\ Goto(h, "send")
     ELSE /\ UNCHANGED htif_console_buf
          /\ Goto(h, "unlock")
  /\ got' = IF htif_console_buf > 0 THEN Append(got, htif_console_buf - 1)
                                    ELSE got
  /\ UNCHANGED <<tohost, fromhost, htif_lock, frontend, call, calls, host, sent>>

\* __set_tohost, while the host has not taken the last word.
Wait(h) ==
  /\ pc[h] = "send"
  /\ tohost # Zero
  /\ CheckFromhost(h, "send")
  /\ UNCHANGED <<tohost, htif_lock, frontend, call, calls, host, history>>

Command == [getchar |-> "read", putchar |-> "write", syscall |-> "syscall",
            poweroff |-> "exit"]

\* Mutant: __set_tohost does not wait.
SendOver(h) ==
  /\ pc[h] = "send"
  /\ tohost' = Word(Command[call[h]], 0)
  /\ sent' = IF call[h] = "putchar" THEN sent + 1 ELSE sent
  /\ Goto(h, IF call[h] = "syscall" THEN "reply" ELSE "unlock")
  /\ UNCHANGED <<fromhost, guarded, frontend, call, calls, host, got>>

\* __set_tohost, once it has.
Send(h) ==
  /\ pc[h] = "send"
  /\ tohost = Zero
  /\ tohost' = Word(Command[call[h]], 0)
  /\ sent' = IF call[h] = "putchar" THEN sent + 1 ELSE sent
  /\ Goto(h, IF call[h] = "syscall" THEN "reply" ELSE "unlock")
  /\ UNCHANGED <<fromhost, guarded, frontend, call, calls, host, got>>

\* do_tohost_fromhost, until its own reply comes.
ReplyOther(h) ==
  /\ pc[h] = "reply"
  /\ fromhost.cmd \notin {"zero", "syscall"}
  /\ CheckFromhost(h, "reply")
  /\ UNCHANGED <<tohost, htif_lock, frontend, call, calls, host, history>>

\* Mutant: the reply is left in the mailbox.
ReplyKept(h) ==
  /\ pc[h] = "reply"
  /\ fromhost.cmd = "syscall"
  /\ Goto(h, "unlock")
  /\ UNCHANGED <<tohost, fromhost, guarded, frontend, call, calls, host,
                 history>>

Reply(h) ==
  /\ pc[h] = "reply"
  /\ fromhost.cmd = "syscall"
  /\ fromhost' = Zero
  /\ Goto(h, "unlock")
  /\ UNCHANGED <<tohost, guarded, frontend, call, calls, host, history>>

\* Mutant: do_tohost_fromhost does not unlock.
UnlockConsole(h) ==
  /\ pc[h] = "unlock"
  /\ htif_lock' = IF call[h] = "syscall" THEN htif_lock ELSE FREE
  /\ Goto(h, CASE call[h] = "syscall" -> "answer"
               [] call[h] = "poweroff" -> "lock"
               [] OTHER -> "idle")
  /\ UNCHANGED <<tohost, fromhost, htif_console_buf, frontend, call, calls,
                 host, history>>

\* getchar and putchar return, poweroff starts over.
Unlock(h) ==
  /\ pc[h] = "unlock"
  /\ htif_lock' = FREE
  /\ Goto(h, CASE call[h] = "syscall" -> "answer"
               [] call[h] = "poweroff" -> "lock"
               [] OTHER -> "idle")
  /\ UNCHANGED <<tohost, fromhost, htif_console_buf, frontend, call, calls,
                 host, history>>

\* frontend_syscall reads the answer, unlocks and returns.
Answer(h) ==
  /\ pc[h] = "answer"
  /\ lock' = FREE
  /\ Goto(h, "idle")
  /\ UNCHANGED <<tohost, fromhost, guarded, magic_mem, call, calls, host,
                 history>>

-----------------------------------------------------------------------------
(* The host *)

\* It takes the word in tohost and acts on it; some hosts acknowledge a
\* character put.
HostTake ==
  /\ tohost # Zero
  /\ tohost' = Zero
  /\ CASE tohost.cmd = "read" ->
            /\ host' = [host EXCEPT !.reading = @ + 1]
            /\ UNCHANGED magic_mem
       [] tohost.cmd = "write" ->
            /\ \E ack \in {<<>>, <<Word("write", 0)>>} :
                 host' = [host EXCEPT !.printed = @ + 1,
                                      !.replies = @ \o ack]
            /\ UNCHANGED magic_mem
       [] tohost.cmd = "syscall" ->
            /\ host' = [host EXCEPT !.replies = Append(@, Word("syscall", 0))]
            /\ magic_mem' = [magic_mem EXCEPT !.answered = TRUE]
       [] tohost.cmd = "exit" ->
            /\ host' = [host EXCEPT !.off = TRUE]
            /\ UNCHANGED magic_mem
  /\ UNCHANGED <<fromhost, guarded, lock, pc, call, calls, history>>

\* It serves a read request once a character has been typed.
HostPass ==
  /\ host.reading > 0
  /\ host.passed < host.typed
  /\ host' = [host EXCEPT !.reading = @ - 1, !.passed = @ + 1,
                          !.replies = Append(@, Word("read", host.passed))]
  /\ UNCHANGED <<tohost, fromhost, guarded, frontend, pc, call, calls, history>>

\* It writes its replies one by one.
HostReply ==
  /\ host.replies # <<>>
  /\ fromhost = Zero
  /\ fromhost' = Head(host.replies)
  /\ host' = [host EXCEPT !.replies = Tail(@)]
  /\ UNCHANGED <<tohost, guarded, frontend, pc, call, calls, history>>

\* Somebody types.
Type ==
  /\ host.typed < MaxTyped
  /\ host' = [host EXCEPT !.typed = @ + 1]
  /\ UNCHANGED <<tohost, fromhost, guarded, frontend, pc, call, calls, history>>

-----------------------------------------------------------------------------

Step(h) ==
  /\ ~ host.off
  /\ \/ Frontend(h) \/ Lock(h)
     \/ Check(h) \/ Peek(h)
     \/ Wait(h) \/ Send(h)
     \/ ReplyOther(h) \/ Reply(h)
     \/ Unlock(h) \/ Answer(h)

Serve == ~ host.off /\ (HostTake \/ HostPass \/ HostReply)

Environment == ~ host.off /\ (Type \/ \E h \in Hart, c \in Call : Begin(h, c))

Next == (\E h \in Hart : Step(h)) \/ Serve \/ Environment

Spec == Init /\ [][Next]_vars

\* The harts and the host keep going; nobody is obliged to call or to type.
FairSpec ==
  Spec /\ (\A h \in Hart : WF_vars(Step(h))) /\ WF_vars(Serve)

-----------------------------------------------------------------------------
(* Properties *)

Commands == {"zero", "read", "write", "syscall", "exit"}
Words == [cmd : Commands, data : Nat]
Locked == {"check", "peek", "send", "reply", "unlock"}

\* The words on their way to the kernel.
Coming == (IF fromhost = Zero THEN <<>> ELSE <<fromhost>>) \o host.replies

\* The assertion in __check_fromhost never fails: no call ever meets the reply
\* to a system call of somebody else.  It could not even be reported, since
\* the message would be printed through the lock that is held.
AssertionHolds == \A h \in Hart : pc[h] # "dead"

\* Where a sequence of words has those of one kind.
Places(ws, cmd) == {i \in DOMAIN ws : ws[i].cmd = cmd}

\* The characters getchar has returned, and the one in htif_console_buf.
Taken ==
  got \o (IF htif_console_buf > 0 THEN <<htif_console_buf - 1>> ELSE <<>>)

\* What getchar has returned, the character waiting in htif_console_buf and
\* those on their way are exactly the characters the host has passed on:
\* none is lost, doubled or overtaken, whichever calls the replies met.
InputExact ==
  LET reads == Places(Coming, "read")
  IN  /\ Taken = [i \in 1 .. Len(Taken) |-> i - 1]
      /\ \A i \in reads :
           Coming[i].data = Len(Taken) + Cardinality({j \in reads : j < i})
      /\ host.passed = Len(Taken) + Cardinality(reads)

\* Console requests that the host or a hart still has to act on, and
\* characters on their way.
Asked ==
  host.reading + Cardinality(Places(Coming, "read"))
    + (IF tohost.cmd = "read" THEN 1 ELSE 0)
    + (IF \E h \in Hart : pc[h] = "send" /\ call[h] = "getchar" THEN 1 ELSE 0)

\* One character is asked for exactly while htif_console_buf says so, so that
\* a reply never overwrites a character nobody has read.
OneRequest == Asked = IF htif_console_buf = -1 THEN 1 ELSE 0

\* Every character put is printed, or still in tohost: no call overwrites the
\* word of another, and what was put before a poweroff is printed before it.
OutputExact == sent = host.printed + (IF tohost.cmd = "write" THEN 1 ELSE 0)

\* The answer a hart reads from magic_mem is the answer to its own request.
AnswerOwn ==
  \A h \in Hart :
    pc[h] = "answer" => magic_mem = [from |-> h, answered |-> TRUE]

\* Every call returns, unless the simulation ends, and a poweroff ends it.
CallReturns ==
  \A h \in Hart :
    pc[h] # "idle" ~> (pc[h] = "idle" /\ call[h] # "poweroff") \/ host.off
=============================================================================
