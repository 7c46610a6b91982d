----------------------------- MODULE Htif_proofs ----------------------------
(***************************************************************************)
(* Proofs about Htif, for every set of harts, every number of calls and of *)
(* characters typed: no call meets a reply it does not expect, input is    *)
(* exact, output is exact, and every answer is one's own.                  *)
(*                                                                         *)
(* The words on their way to the kernel, Coming, are only counted, by the  *)
(* lemmas that come first: a word is added at the end, and taken at the    *)
(* front.  Then each step is shown to preserve the invariant.              *)
(***************************************************************************)
EXTENDS Htif, FiniteSetTheorems, SequenceTheorems, TLAPS

-----------------------------------------------------------------------------
(* The invariant *)

Replies == [cmd : {"read", "write", "syscall"}, data : Nat]

\* Coming, of the word w in fromhost and the replies ws behind it.
Queue(w, ws) == (IF w = Zero THEN <<>> ELSE <<w>>) \o ws

Number(ws, cmd) == Cardinality(Places(ws, cmd))

\* The characters among words ws are all the n-th.
Characters(ws, n) == \A i \in Places(ws, "read") : ws[i].data = n

TypeOK ==
  /\ tohost \in {Word(cmd, 0) : cmd \in Commands}
  /\ fromhost \in Replies \cup {Zero}
  /\ host \in [reading : Nat, typed : Nat, passed : Nat, replies : Seq(Replies),
              printed : Nat, off : BOOLEAN]
  /\ htif_console_buf \in Nat \cup {-1}
  /\ {htif_lock, lock} \subseteq Hart \cup {FREE}
  /\ magic_mem \in [from : Hart \cup {FREE}, answered : BOOLEAN]
  /\ pc \in [Hart -> {"idle", "frontend", "lock", "answer"} \cup Locked]
  /\ call \in [Hart -> {"getchar", "putchar", "syscall", "poweroff", "none"}]
  /\ calls \in [Hart -> Nat]
  /\ sent \in Nat
  /\ got \in Seq(Nat)

\* A hart is at the places of its call.
PlaceOfCall ==
  \A h \in Hart :
    /\ pc[h] \in {"check", "peek"} => call[h] = "getchar"
    /\ pc[h] \in {"frontend", "reply", "answer"} => call[h] = "syscall"
    /\ pc[h] # "idle" => call[h] # "none"

Owners == \A h \in Hart : htif_lock = h <=> pc[h] \in Locked

\* Between the lock and the unlock of frontend_syscall.
InSyscall(h) ==
  call[h] = "syscall" /\ pc[h] \in {"lock", "send", "reply", "unlock", "answer"}

SyscallOwners ==
  \A h \in Hart :
    /\ lock = h <=> InSyscall(h)
    /\ lock = h => magic_mem.from = h

\* A request is out, or its reply is on its way, exactly while a hart waits.
ReplyAwaited ==
  (IF tohost.cmd = "syscall" THEN 1 ELSE 0) + Number(Coming, "syscall")
    = IF \E h \in Hart : pc[h] = "reply" THEN 1 ELSE 0

\* The reply to a system call comes after its answer.
AnswerBeforeReply ==
  /\ Number(Coming, "syscall") > 0 => magic_mem.answered
  /\ \A h \in Hart : InSyscall(h) /\ pc[h] \in {"unlock", "answer"} =>
       magic_mem.answered

\* InputExact, given that at most one character is on its way.
InputInOrder ==
  /\ Taken = [i \in 1 .. Len(Taken) |-> i - 1]
  /\ Characters(Coming, Len(Taken))
  /\ host.passed = Len(Taken) + Number(Coming, "read")

HtifInv ==
  /\ TypeOK
  /\ PlaceOfCall
  /\ Owners
  /\ SyscallOwners
  /\ ReplyAwaited
  /\ AnswerBeforeReply
  /\ OneRequest
  /\ InputInOrder
  /\ OutputExact

-----------------------------------------------------------------------------
(* Words on their way *)

\* The number of words of one kind is a natural number, and 0 for none.
LEMMA NumberType ==
  ASSUME NEW ws \in Seq(Replies), NEW cmd
  PROVE  /\ IsFiniteSet(Places(ws, cmd))
         /\ Number(ws, cmd) \in Nat
         /\ Number(ws, cmd) = 0 <=> Places(ws, cmd) = {}
<1>1. /\ DOMAIN ws = 1 .. Len(ws)
      /\ Len(ws) \in Nat
  OBVIOUS
<1>2. IsFiniteSet(1 .. Len(ws))
  BY <1>1, FS_Interval
<1>3. Places(ws, cmd) \in SUBSET (1 .. Len(ws))
  BY <1>1 DEF Places
<1>4. IsFiniteSet(Places(ws, cmd))
  BY <1>2, <1>3, FS_Subset
<1> QED
  BY <1>4, FS_CardinalityType, FS_EmptySet DEF Number

\* A word that is added.
LEMMA AddWord ==
  ASSUME NEW ws \in Seq(Replies), NEW w \in Replies, NEW cmd, NEW n
  PROVE  /\ Append(ws, w) \in Seq(Replies)
         /\ Number(Append(ws, w), cmd)
              = Number(ws, cmd) + (IF w.cmd = cmd THEN 1 ELSE 0)
         /\ Characters(Append(ws, w), n) <=>
              Characters(ws, n) /\ (w.cmd = "read" => w.data = n)
<1> DEFINE vs == Append(ws, w)
           N == Len(ws)
<1>1. /\ vs \in Seq(Replies)
      /\ N \in Nat
      /\ DOMAIN ws = 1 .. N
      /\ DOMAIN vs = 1 .. N + 1
      /\ \A i \in 1 .. N : vs[i] = ws[i]
      /\ vs[N + 1] = w
  OBVIOUS
<1>2. \A c : /\ Places(vs, c) = Places(ws, c) \cup (IF w.cmd = c THEN {N + 1} ELSE {})
            /\ N + 1 \notin Places(ws, c)
  <2> HIDE DEF vs, N
  <2>1. 1 .. N + 1 = (1 .. N) \cup {N + 1} /\ N + 1 \notin 1 .. N
    BY <1>1
  <2> QED
    BY <1>1, <2>1 DEF Places
<1>3. Number(vs, cmd) = Number(ws, cmd) + (IF w.cmd = cmd THEN 1 ELSE 0)
  <2> HIDE DEF vs, N
  <2>1. CASE w.cmd = cmd
    <3>1. Places(vs, cmd) = Places(ws, cmd) \cup {N + 1}
      BY <1>2, <2>1
    <3>2. Number(vs, cmd) = Number(ws, cmd) + 1
      BY <1>2, <3>1, NumberType, FS_AddElement DEF Number
    <3> QED
      BY <2>1, <3>2
  <2>2. CASE w.cmd # cmd
    <3>1. Places(vs, cmd) = Places(ws, cmd)
      BY <1>2, <2>2
    <3> QED
      BY <2>2, <3>1, NumberType DEF Number
  <2> QED
    BY <2>1, <2>2
<1>4. Characters(vs, n) <=> Characters(ws, n) /\ (w.cmd = "read" => w.data = n)
  <2> HIDE DEF vs, N
  <2>1. \A i \in Places(ws, "read") : vs[i] = ws[i]
    BY <1>1 DEF Places
  <2> QED
    BY <1>1, <1>2, <2>1 DEF Characters
<1> QED
  BY <1>1, <1>3, <1>4

\* A word in front of the others.
LEMMA FrontWord ==
  ASSUME NEW ws \in Seq(Replies), NEW w \in Replies, NEW cmd, NEW n
  PROVE  /\ <<w>> \o ws \in Seq(Replies)
         /\ Number(<<w>> \o ws, cmd)
              = Number(ws, cmd) + (IF w.cmd = cmd THEN 1 ELSE 0)
         /\ Characters(<<w>> \o ws, n) <=>
              Characters(ws, n) /\ (w.cmd = "read" => w.data = n)
<1> DEFINE vs == <<w>> \o ws
           N == Len(ws)
           Later(c) == {i + 1 : i \in Places(ws, c)}
<1>1. /\ vs \in Seq(Replies)
      /\ N \in Nat
      /\ DOMAIN ws = 1 .. N
      /\ DOMAIN vs = 1 .. N + 1
      /\ vs[1] = w
      /\ \A i \in 1 .. N : vs[i + 1] = ws[i]
  OBVIOUS
<1>2. \A c : /\ Places(vs, c) = Later(c) \cup (IF w.cmd = c THEN {1} ELSE {})
            /\ 1 \notin Later(c)
            /\ Places(ws, c) \subseteq 1 .. N
  <2> HIDE DEF vs, N
  <2> TAKE c
  <2>1. Places(ws, c) = {i \in 1 .. N : vs[i + 1].cmd = c}
    BY <1>1 DEF Places
  <2>2. Places(vs, c) = {i \in 1 .. N + 1 : vs[i].cmd = c}
    BY <1>1 DEF Places
  <2>3. ASSUME NEW j \in 1 .. N + 1, j # 1, vs[j].cmd = c
        PROVE  j \in Later(c)
    <3>1. j - 1 \in 1 .. N /\ j = (j - 1) + 1
      BY <2>3, <1>1
    <3> QED
      BY <3>1, <2>1, <2>3
  <2>4. ASSUME NEW j \in Later(c)
        PROVE  j \in 1 .. N + 1 /\ j # 1 /\ vs[j].cmd = c
    <3>1. PICK i \in Places(ws, c) : j = i + 1
      BY <2>4
    <3> QED
      BY <3>1, <2>1, <1>1
  <2>5. 1 \in 1 .. N + 1
    BY <1>1
  <2> HIDE DEF Later
  <2> QED
    BY <2>1, <2>2, <2>3, <2>4, <2>5, <1>1
<1>3. IsFiniteSet(Later(cmd)) /\ Cardinality(Later(cmd)) = Number(ws, cmd)
  <2> DEFINE P == Places(ws, cmd)
             f == [i \in P |-> i + 1]
  <2>1. IsFiniteSet(P)
    BY NumberType
  <2>2. P \subseteq Nat
    BY <1>1, <1>2
  <2>3. f \in Bijection(P, Later(cmd))
    BY <2>2 DEF Bijection, Injection, Surjection, IsInjective
  <2>4. ExistsBijection(P, Later(cmd))
    BY <2>3 DEF ExistsBijection
  <2> QED
    BY <2>1, <2>4, FS_Bijection DEF Number
<1>4. Number(vs, cmd) = Number(ws, cmd) + (IF w.cmd = cmd THEN 1 ELSE 0)
  <2> HIDE DEF vs, N, Later
  <2>1. CASE w.cmd = cmd
    <3>1. Places(vs, cmd) = Later(cmd) \cup {1}
      BY <1>2, <2>1
    <3>2. Number(vs, cmd) = Number(ws, cmd) + 1
      BY <1>2, <1>3, <3>1, FS_AddElement DEF Number
    <3> QED
      BY <2>1, <3>2
  <2>2. CASE w.cmd # cmd
    <3>1. Places(vs, cmd) = Later(cmd)
      BY <1>2, <2>2
    <3> QED
      BY <2>2, <3>1, <1>3, NumberType DEF Number
  <2> QED
    BY <2>1, <2>2
<1>5. Characters(vs, n) <=> Characters(ws, n) /\ (w.cmd = "read" => w.data = n)
  <2> HIDE DEF vs, N
  <2>1. \A i \in Places(ws, "read") : vs[i + 1] = ws[i]
    BY <1>1, <1>2
  <2> QED
    BY <1>1, <1>2, <2>1 DEF Characters
<1> QED
  BY <1>1, <1>4, <1>5

\* If no characters are on their way, they are all the n-th.
LEMMA NoCharacters ==
  ASSUME NEW ws \in Seq(Replies), NEW n, Number(ws, "read") = 0
  PROVE  Characters(ws, n)
  BY NumberType DEF Characters

\* At most one character is on its way: none is before it.
LEMMA OneCharacter ==
  ASSUME NEW ws \in Seq(Replies), Number(ws, "read") <= 1,
         NEW i \in Places(ws, "read")
  PROVE  Cardinality({j \in Places(ws, "read") : j < i}) = 0
<1> DEFINE P == Places(ws, "read")
<1>1. IsFiniteSet(P) /\ Cardinality(P) \in Nat /\ Cardinality(P) # 0
  BY NumberType DEF Number
<1>2. Cardinality(P) = 1
  BY <1>1 DEF Number
<1>3. PICK x : P = {x}
  BY <1>1, <1>2, FS_Singleton
<1>4. i \in Int
  BY DEF Places
<1>5. {j \in P : j < i} = {}
  BY <1>3, <1>4
<1> QED
  BY <1>5, FS_EmptySet

\* Coming is a sequence of replies, and the replies alone behind an empty
\* mailbox.
LEMMA QueueOfReplies ==
  ASSUME NEW w \in Replies \cup {Zero}, NEW ws \in Seq(Replies)
  PROVE  /\ Queue(w, ws) \in Seq(Replies)
         /\ Queue(Zero, ws) = ws
<1>1. Queue(Zero, ws) = ws
  BY ConcatEmptySeq DEF Queue
<1>2. w # Zero => Queue(w, ws) = <<w>> \o ws
  BY DEF Queue
<1> QED
  BY <1>1, <1>2, FrontWord

\* A reply is not the empty mailbox.
LEMMA ReplyNotZero == \A w \in Replies : w # Zero /\ w.cmd # "zero"
  BY DEF Replies, Zero, Word

\* A reply that moves to the mailbox stays on its way.
LEMMA QueueMove ==
  ASSUME NEW ws \in Seq(Replies), ws # <<>>
  PROVE  /\ Head(ws) \in Replies
         /\ Tail(ws) \in Seq(Replies)
         /\ Queue(Head(ws), Tail(ws)) = Queue(Zero, ws)
<1>1. Head(ws) \in Replies /\ Tail(ws) \in Seq(Replies)
  OBVIOUS
<1>2. ws = <<Head(ws)>> \o Tail(ws)
  <2>1. /\ Len(ws) \in Nat \ {0}
        /\ Len(<<Head(ws)>> \o Tail(ws)) = Len(ws)
        /\ <<Head(ws)>> \o Tail(ws) \in Seq(Replies)
    BY <1>1
  <2>2. \A i \in 1 .. Len(ws) : (<<Head(ws)>> \o Tail(ws))[i] = ws[i]
    BY <1>1
  <2> QED
    BY <2>1, <2>2, SeqEqual
<1>3. Queue(Head(ws), Tail(ws)) = <<Head(ws)>> \o Tail(ws)
  BY <1>1, ReplyNotZero DEF Queue
<1> QED
  BY <1>1, <1>2, <1>3, QueueOfReplies

\* A reply that the host adds comes last.
LEMMA QueueAdd ==
  ASSUME NEW w \in Replies \cup {Zero}, NEW ws \in Seq(Replies),
         NEW new \in Replies
  PROVE  Queue(w, Append(ws, new)) = Append(Queue(w, ws), new)
<1>1. CASE w = Zero
  <2>1. Append(ws, new) \in Seq(Replies)
    OBVIOUS
  <2> QED
    BY <1>1, <2>1, QueueOfReplies
<1>2. CASE w # Zero
  <2>1. w \in Replies /\ <<w>> \in Seq(Replies)
    BY <1>2
  <2>2. <<w>> \o Append(ws, new) = Append(<<w>> \o ws, new)
    BY <2>1
  <2> QED
    BY <1>2, <2>2 DEF Queue
<1> QED
  BY <1>1, <1>2

\* Coming as a queue, before and after a step.
LEMMA ComingIsQueue ==
  /\ Coming = Queue(fromhost, host.replies)
  /\ Coming' = Queue(fromhost', host'.replies)
  BY DEF Coming, Queue

LEMMA ComingType ==
  ASSUME TypeOK
  PROVE  /\ Coming \in Seq(Replies)
         /\ \A cmd : Number(Coming, cmd) \in Nat
  BY ComingIsQueue, QueueOfReplies, NumberType DEF TypeOK

\* A word of any kind but "zero" that waits in the mailbox is counted.
LEMMA MailCounted ==
  ASSUME TypeOK, NEW cmd, fromhost.cmd = cmd, cmd # "zero"
  PROVE  Number(Coming, cmd) > 0
<1>1. fromhost \in Replies
  BY DEF TypeOK, Zero, Word
<1>2. Coming = <<fromhost>> \o host.replies
  BY <1>1, ReplyNotZero DEF Coming
<1>3. host.replies \in Seq(Replies)
  BY DEF TypeOK
<1>4. Number(Coming, cmd) = Number(host.replies, cmd) + 1
  BY <1>1, <1>2, <1>3, FrontWord
<1>5. Number(host.replies, cmd) \in Nat
  BY <1>3, NumberType
<1> QED
  BY <1>4, <1>5

\* A step that empties the mailbox takes the word in it, if any.
LEMMA Takes ==
  ASSUME TypeOK, fromhost' = Zero, host' = host, NEW cmd, cmd # "zero", NEW n
  PROVE  /\ Coming' \in Seq(Replies)
         /\ Number(Coming', cmd) \in Nat
         /\ Number(Coming, cmd)
              = Number(Coming', cmd) + (IF fromhost.cmd = cmd THEN 1 ELSE 0)
         /\ Characters(Coming, n) <=>
              /\ Characters(Coming', n)
              /\ fromhost.cmd = "read" => fromhost.data = n
<1> DEFINE ws == host.replies
<1>1. ws \in Seq(Replies) /\ fromhost \in Replies \cup {Zero}
  BY DEF TypeOK
<1>2. Coming' = ws
  BY <1>1, ComingIsQueue, QueueOfReplies
<1>3. CASE fromhost = Zero
  <2>1. Coming = ws
    BY <1>1, <1>3, ComingIsQueue, QueueOfReplies
  <2>2. fromhost.cmd # cmd /\ fromhost.cmd # "read"
    BY <1>3 DEF Zero, Word
  <2> QED
    BY <1>1, <1>2, <2>1, <2>2, NumberType
<1>4. CASE fromhost # Zero
  <2>1. fromhost \in Replies /\ Coming = <<fromhost>> \o ws
    BY <1>1, <1>4 DEF Coming
  <2> QED
    BY <1>1, <1>2, <2>1, FrontWord, NumberType
<1> QED
  BY <1>3, <1>4

\* A step of the host that adds a reply.
LEMMA Adds ==
  ASSUME TypeOK, fromhost' = fromhost, NEW w \in Replies,
         host'.replies = Append(host.replies, w), NEW cmd, NEW n
  PROVE  /\ Number(Coming', cmd)
              = Number(Coming, cmd) + (IF w.cmd = cmd THEN 1 ELSE 0)
         /\ Characters(Coming', n) <=>
              Characters(Coming, n) /\ (w.cmd = "read" => w.data = n)
<1>1. host.replies \in Seq(Replies) /\ fromhost \in Replies \cup {Zero}
  BY DEF TypeOK
<1>2. Coming' = Append(Coming, w)
  BY <1>1, ComingIsQueue, QueueAdd
<1> QED
  BY <1>2, ComingType, AddWord

\* A step of the host that moves a reply to the mailbox.
LEMMA Moves ==
  ASSUME TypeOK, HostReply
  PROVE  Coming' = Coming
<1>1. host.replies \in Seq(Replies) /\ host'.replies = Tail(host.replies)
  BY DEF TypeOK, HostReply
<1> QED
  BY <1>1, ComingIsQueue, QueueMove DEF HostReply

-----------------------------------------------------------------------------
(* Control: who is where, and who holds the locks *)

\* Only the owner of htif_lock is in its critical section, so only one hart.
LEMMA OneLocked ==
  ASSUME Owners, NEW g \in Hart, NEW h \in Hart,
         pc[g] \in Locked, pc[h] \in Locked
  PROVE  g = h
  BY DEF Owners

\* A call in getchar or putchar does not meet the reply to a system call: the
\* hart that waits for it holds htif_lock.
LEMMA NoStrayReply ==
  ASSUME HtifInv, NEW h \in Hart, pc[h] \in {"check", "send"}
  PROVE  fromhost.cmd # "syscall"
<1> SUFFICES ASSUME fromhost.cmd = "syscall"
             PROVE  FALSE
  OBVIOUS
<1>1. Number(Coming, "syscall") > 0 /\ Number(Coming, "syscall") \in Nat
  BY MailCounted, ComingType DEF HtifInv
<1>2. PICK g \in Hart : pc[g] = "reply"
  BY <1>1 DEF HtifInv, ReplyAwaited
<1>3. g = h
  BY <1>2, OneLocked DEF HtifInv, Locked
<1> QED
  BY <1>2, <1>3

\* The steps of a hart that call __check_fromhost.
Consumes(h) == Check(h) \/ Wait(h) \/ ReplyOther(h)

LEMMA ConsumesFrame ==
  ASSUME HtifInv, NEW h \in Hart, Consumes(h)
  PROVE  /\ fromhost.cmd # "syscall"
         /\ fromhost' = Zero
         /\ htif_console_buf' = IF fromhost.cmd = "read" THEN 1 + fromhost.data
                                ELSE htif_console_buf
         /\ \/ pc[h] = "check" /\ pc' = [pc EXCEPT ![h] = "peek"]
            \/ pc[h] \in {"send", "reply"} /\ pc' = [pc EXCEPT ![h] = pc[h]]
         /\ UNCHANGED <<tohost, htif_lock, frontend, call, calls, host, history>>
<1>1. fromhost.cmd # "syscall"
  BY NoStrayReply DEF Consumes, Check, Wait, ReplyOther
<1> QED
  BY <1>1 DEF Consumes, Check, Wait, ReplyOther, CheckFromhost, Goto

\* The steps of the harts and of their environment, and of the host.
HartStep(h) ==
  \/ Frontend(h) \/ Lock(h) \/ Consumes(h) \/ Peek(h) \/ Send(h) \/ Reply(h)
  \/ Unlock(h) \/ Answer(h) \/ \E c \in Call : Begin(h, c)
HostStep == HostTake \/ HostPass \/ HostReply \/ Type

LEMMA StepCases == [Next]_vars => (\E h \in Hart : HartStep(h)) \/ HostStep \/ UNCHANGED vars
  BY DEF Next, Step, Serve, Environment, HartStep, HostStep, Consumes

ControlInv == PlaceOfCall /\ Owners /\ SyscallOwners

\* What the host does with the word it takes.
LEMMA HostTakeCases ==
  ASSUME TypeOK, HostTake
  PROVE  /\ \/ /\ tohost.cmd = "read"
               /\ host' = [host EXCEPT !.reading = @ + 1]
               /\ magic_mem' = magic_mem
            \/ /\ tohost.cmd = "write"
               /\ \/ host' = [host EXCEPT !.printed = @ + 1]
                  \/ host' = [host EXCEPT !.printed = @ + 1,
                                          !.replies = Append(@, Word("write", 0))]
               /\ magic_mem' = magic_mem
            \/ /\ tohost.cmd = "syscall"
               /\ host' = [host EXCEPT !.replies = Append(@, Word("syscall", 0))]
               /\ magic_mem' = [magic_mem EXCEPT !.answered = TRUE]
            \/ /\ tohost.cmd = "exit"
               /\ host' = [host EXCEPT !.off = TRUE]
               /\ magic_mem' = magic_mem
         /\ tohost' = Zero
         /\ UNCHANGED <<fromhost, guarded, lock, pc, call, calls, history>>
<1>1. tohost.cmd \in {"read", "write", "syscall", "exit"}
  BY DEF TypeOK, HostTake, Commands, Word, Zero
<1>2. host.replies \in Seq(Replies)
  BY DEF TypeOK
<1>3. host.replies \o <<>> = host.replies
  BY <1>2
<1>4. host.replies \o <<Word("write", 0)>> = Append(host.replies, Word("write", 0))
  BY <1>2
<1>5. CASE tohost.cmd = "write"
  <2>1. PICK ack \in {<<>>, <<Word("write", 0)>>} :
          host' = [host EXCEPT !.printed = @ + 1, !.replies = @ \o ack]
    BY <1>5 DEF HostTake
  <2>2. CASE ack = <<>>
    <3>1. host' = [host EXCEPT !.printed = @ + 1]
      BY <1>3, <2>1, <2>2 DEF TypeOK
    <3> QED
      BY <1>5, <3>1 DEF HostTake
  <2>3. CASE ack = <<Word("write", 0)>>
    <3>1. host' = [host EXCEPT !.printed = @ + 1,
                              !.replies = Append(@, Word("write", 0))]
      BY <1>4, <2>1, <2>3
    <3> QED
      BY <1>5, <3>1 DEF HostTake
  <2> QED
    BY <2>2, <2>3
<1>6. CASE tohost.cmd # "write"
  BY <1>1, <1>6 DEF HostTake
<1> QED
  BY <1>5, <1>6

\* The same of the counters of the host.
LEMMA HostTakeCounts ==
  ASSUME TypeOK, HostTake
  PROVE  /\ host'.passed = host.passed
         /\ host'.reading = IF tohost.cmd = "read" THEN host.reading + 1 ELSE host.reading
         /\ host'.printed = IF tohost.cmd = "write" THEN host.printed + 1 ELSE host.printed
<1>1. host \in [reading : Nat, typed : Nat, passed : Nat, replies : Seq(Replies),
               printed : Nat, off : BOOLEAN]
  BY DEF TypeOK
<1>2. CASE tohost.cmd = "read"
  <2>1. host' = [host EXCEPT !.reading = @ + 1]
    BY <1>2, HostTakeCases
  <2> QED
    BY <1>1, <1>2, <2>1
<1>3. CASE tohost.cmd = "write"
  <2>1. \/ host' = [host EXCEPT !.printed = @ + 1]
        \/ host' = [host EXCEPT !.printed = @ + 1,
                                !.replies = Append(@, Word("write", 0))]
    BY <1>3, HostTakeCases
  <2> QED
    BY <1>1, <1>3, <2>1
<1>4. CASE tohost.cmd \notin {"read", "write"}
  <2>1. \/ host' = [host EXCEPT !.replies = Append(@, Word("syscall", 0))]
        \/ host' = [host EXCEPT !.off = TRUE]
    BY <1>4, HostTakeCases
  <2> QED
    BY <1>1, <1>4, <2>1
<1> QED
  BY <1>2, <1>3, <1>4

\* The steps of the host leave the harts and their locks alone.
LEMMA HostFrame ==
  ASSUME TypeOK, HostStep
  PROVE  /\ UNCHANGED <<htif_lock, htif_console_buf, lock, pc, call, calls, sent, got>>
         /\ magic_mem'.from = magic_mem.from
         /\ magic_mem.answered => magic_mem'.answered
<1>1. CASE HostTake
  <2>1. UNCHANGED <<guarded, lock, pc, call, calls, history>>
    BY <1>1 DEF HostTake
  <2>2. \/ magic_mem' = magic_mem
        \/ magic_mem' = [magic_mem EXCEPT !.answered = TRUE]
    BY <1>1, HostTakeCases
  <2> QED
    BY <2>1, <2>2 DEF TypeOK, guarded, history
<1>2. CASE HostPass \/ HostReply \/ Type
  BY <1>2 DEF HostPass, HostReply, Type, guarded, frontend, history
<1> QED
  BY <1>1, <1>2 DEF HostStep

LEMMA ControlStep ==
  ASSUME HtifInv, [Next]_vars
  PROVE  ControlInv'
<1> USE DEF HtifInv, ControlInv, Goto
<1>t. /\ pc \in [Hart -> {"idle", "frontend", "lock", "answer"} \cup Locked]
      /\ call \in [Hart -> {"getchar", "putchar", "syscall", "poweroff", "none"}]
      /\ Call \subseteq {"getchar", "putchar", "syscall", "poweroff"}
      /\ FREE \notin Hart
  BY CallAssumption, FreeAssumption DEF TypeOK
<1> USE DEF Locked
<1>1. ASSUME NEW h \in Hart, HartStep(h)
      PROVE  ControlInv'
  <2>1. CASE Frontend(h)
    BY <1>t, <2>1 DEF Frontend, guarded, PlaceOfCall, Owners, SyscallOwners, InSyscall
  <2>2. CASE Lock(h)
    BY <1>t, <2>2 DEF Lock, frontend, PlaceOfCall, Owners, SyscallOwners, InSyscall
  <2>3. CASE Consumes(h)
    BY <1>t, <2>3, ConsumesFrame DEF frontend, PlaceOfCall, Owners, SyscallOwners, InSyscall
  <2>4. CASE Peek(h)
    BY <1>t, <2>4 DEF Peek, frontend, PlaceOfCall, Owners, SyscallOwners, InSyscall
  <2>5. CASE Send(h)
    BY <1>t, <2>5 DEF Send, guarded, frontend, PlaceOfCall, Owners, SyscallOwners, InSyscall
  <2>6. CASE Reply(h)
    BY <1>t, <2>6 DEF Reply, guarded, frontend, PlaceOfCall, Owners, SyscallOwners, InSyscall
  <2>7. CASE Unlock(h)
    BY <1>t, <2>7 DEF Unlock, frontend, PlaceOfCall, Owners, SyscallOwners, InSyscall
  <2>8. CASE Answer(h)
    BY <1>t, <2>8 DEF Answer, guarded, PlaceOfCall, Owners, SyscallOwners, InSyscall
  <2>9. ASSUME NEW c \in Call, Begin(h, c)
        PROVE  ControlInv'
    BY <1>t, <2>9 DEF Begin, guarded, frontend, PlaceOfCall, Owners, SyscallOwners, InSyscall
  <2> QED
    BY <1>1, <2>1, <2>2, <2>3, <2>4, <2>5, <2>6, <2>7, <2>8, <2>9 DEF HartStep
<1>2. CASE HostStep
  BY <1>2, HostFrame DEF PlaceOfCall, Owners, SyscallOwners, InSyscall
<1>3. CASE UNCHANGED vars
  BY <1>3 DEF vars, guarded, frontend, PlaceOfCall, Owners, SyscallOwners, InSyscall
<1> QED
  BY <1>1, <1>2, <1>3, StepCases

-----------------------------------------------------------------------------
(* Types *)

LEMMA HostTypes ==
  ASSUME TypeOK, HostStep
  PROVE  /\ tohost' \in {Word(cmd, 0) : cmd \in Commands}
         /\ fromhost' \in Replies \cup {Zero}
         /\ magic_mem' \in [from : Hart \cup {FREE}, answered : BOOLEAN]
         /\ host' \in [reading : Nat, typed : Nat, passed : Nat,
                       replies : Seq(Replies), printed : Nat, off : BOOLEAN]
<1> DEFINE Host == [reading : Nat, typed : Nat, passed : Nat,
                    replies : Seq(Replies), printed : Nat, off : BOOLEAN]
<1>1. /\ Zero \in {Word(cmd, 0) : cmd \in Commands}
      /\ Word("write", 0) \in Replies
      /\ Word("syscall", 0) \in Replies
      /\ \A n \in Nat : Word("read", n) \in Replies
  BY DEF Zero, Word, Commands, Replies
<1>2. /\ host \in Host
      /\ magic_mem \in [from : Hart \cup {FREE}, answered : BOOLEAN]
      /\ fromhost \in Replies \cup {Zero}
      /\ tohost \in {Word(cmd, 0) : cmd \in Commands}
  BY DEF TypeOK
<1>3. \A w \in Replies : Append(host.replies, w) \in Seq(Replies)
  BY <1>2, AddWord
<1>4. CASE HostTake
  <2>1. host' \in Host
    <3>1. CASE host' = [host EXCEPT !.reading = @ + 1]
      BY <1>2, <3>1
    <3>2. CASE host' = [host EXCEPT !.printed = @ + 1]
      BY <1>2, <3>2
    <3>3. CASE host' = [host EXCEPT !.printed = @ + 1,
                                    !.replies = Append(@, Word("write", 0))]
      <4>1. Append(host.replies, Word("write", 0)) \in Seq(Replies)
        BY <1>1, <1>3
      <4>2. host.printed + 1 \in Nat
        BY <1>2
      <4> QED
        BY <1>2, <3>3, <4>1, <4>2
    <3>4. CASE host' = [host EXCEPT !.replies = Append(@, Word("syscall", 0))]
      BY <1>1, <1>2, <1>3, <3>4
    <3>5. CASE host' = [host EXCEPT !.off = TRUE]
      BY <1>2, <3>5
    <3> QED
      BY <1>4, <3>1, <3>2, <3>3, <3>4, <3>5, HostTakeCases
  <2>2. /\ tohost' = Zero /\ fromhost' = fromhost
        /\ magic_mem' = magic_mem \/ magic_mem' = [magic_mem EXCEPT !.answered = TRUE]
    BY <1>4, HostTakeCases
  <2> QED
    BY <1>1, <1>2, <2>1, <2>2
<1>5. CASE HostPass
  <2>1. Append(host.replies, Word("read", host.passed)) \in Seq(Replies)
    BY <1>1, <1>2, <1>3
  <2>2. host' = [host EXCEPT !.reading = @ - 1, !.passed = @ + 1,
                            !.replies = Append(@, Word("read", host.passed))]
    BY <1>5 DEF HostPass
  <2>3. host.reading - 1 \in Nat /\ host.passed + 1 \in Nat
    BY <1>2, <1>5 DEF HostPass
  <2>4. host' \in Host
    BY <1>2, <2>1, <2>2, <2>3
  <2> QED
    BY <1>2, <1>5, <2>4 DEF HostPass, frontend
<1>6. CASE HostReply
  <2>1. Head(host.replies) \in Replies /\ Tail(host.replies) \in Seq(Replies)
    BY <1>2, <1>6, QueueMove DEF HostReply
  <2>2. host' \in Host /\ fromhost' \in Replies
    BY <1>2, <1>6, <2>1 DEF HostReply
  <2> QED
    BY <1>2, <1>6, <2>2 DEF HostReply, frontend
<1>7. CASE Type
  <2>1. host' \in Host
    BY <1>2, <1>7 DEF Type
  <2> QED
    BY <1>2, <1>7, <2>1 DEF Type, frontend
<1> QED
  BY <1>4, <1>5, <1>6, <1>7 DEF HostStep

LEMMA TypeStep ==
  ASSUME HtifInv, [Next]_vars
  PROVE  TypeOK'
<1>0. TypeOK /\ PlaceOfCall
  BY DEF HtifInv
<1>t. /\ Zero \in {Word(cmd, 0) : cmd \in Commands}
      /\ Zero \in Replies \cup {Zero}
      /\ {"idle", "frontend", "lock", "answer", "check", "peek", "send", "reply", "unlock"}
           \subseteq {"idle", "frontend", "lock", "answer"} \cup Locked
  BY DEF Zero, Word, Commands, Locked
<1>1. ASSUME NEW h \in Hart, HartStep(h)
      PROVE  TypeOK'
  <2>1. CASE Frontend(h)
    BY <1>0, <1>t, <2>1 DEF TypeOK, Frontend, guarded, history, Goto
  <2>2. CASE Lock(h)
    BY <1>0, <1>t, <2>2 DEF TypeOK, Lock, frontend, history, Goto
  <2>3. CASE Consumes(h)
    <3>1. /\ fromhost' = Zero
          /\ pc' = [pc EXCEPT ![h] = "peek"] \/ pc' = [pc EXCEPT ![h] = pc[h]]
          /\ UNCHANGED <<tohost, htif_lock, frontend, call, calls, host, history>>
      BY <2>3, ConsumesFrame
    <3>2. htif_console_buf' \in Nat \cup {-1}
      <4>1. fromhost.cmd = "read" => fromhost.data \in Nat
        BY <1>0 DEF TypeOK, Replies, Zero, Word
      <4> QED
        BY <1>0, <2>3, <4>1, ConsumesFrame DEF TypeOK
    <3>3. pc' \in [Hart -> {"idle", "frontend", "lock", "answer"} \cup Locked]
      BY <1>0, <1>t, <3>1 DEF TypeOK
    <3> QED
      BY <1>0, <1>t, <3>1, <3>2, <3>3 DEF TypeOK, frontend, history
  <2>4. CASE Peek(h)
    <3>1. htif_console_buf' \in Nat \cup {-1}
      BY <1>0, <2>4 DEF Peek, TypeOK
    <3>2. got' \in Seq(Nat)
      BY <1>0, <2>4 DEF Peek, TypeOK
    <3>3. pc' \in [Hart -> {"idle", "frontend", "lock", "answer"} \cup Locked]
      BY <1>0, <1>t, <2>4 DEF Peek, TypeOK, Goto
    <3> QED
      BY <1>0, <2>4, <3>1, <3>2, <3>3 DEF TypeOK, Peek, frontend
  <2>5. CASE Send(h)
    <3>1. tohost' \in {Word(cmd, 0) : cmd \in Commands}
      <4>1. call[h] \in {"getchar", "putchar", "syscall", "poweroff"}
        BY <1>0, <2>5 DEF TypeOK, PlaceOfCall, Send
      <4>2. Command[call[h]] \in Commands
        BY <4>1 DEF Command, Commands
      <4> QED
        BY <2>5, <4>2 DEF Send
    <3>2. sent' \in Nat
      BY <1>0, <2>5 DEF Send, TypeOK
    <3> QED
      BY <1>0, <1>t, <2>5, <3>1, <3>2 DEF TypeOK, Send, guarded, frontend, Goto
  <2>6. CASE Reply(h)
    BY <1>0, <1>t, <2>6 DEF TypeOK, Reply, guarded, frontend, history, Goto
  <2>7. CASE Unlock(h)
    BY <1>0, <1>t, <2>7 DEF TypeOK, Unlock, frontend, history, Goto
  <2>8. CASE Answer(h)
    BY <1>0, <1>t, <2>8 DEF TypeOK, Answer, guarded, history, Goto
  <2>9. ASSUME NEW c \in Call, Begin(h, c)
        PROVE  TypeOK'
    BY <1>0, <1>t, <2>9, CallAssumption
    DEF TypeOK, Begin, guarded, frontend, history, Goto
  <2> QED
    BY <1>1, <2>1, <2>2, <2>3, <2>4, <2>5, <2>6, <2>7, <2>8, <2>9 DEF HartStep
<1>2. CASE HostStep
  <2>1. UNCHANGED <<htif_lock, htif_console_buf, lock, pc, call, calls, sent, got>>
    BY <1>0, <1>2, HostFrame
  <2>2. /\ tohost' \in {Word(cmd, 0) : cmd \in Commands}
        /\ fromhost' \in Replies \cup {Zero}
        /\ magic_mem' \in [from : Hart \cup {FREE}, answered : BOOLEAN]
        /\ host' \in [reading : Nat, typed : Nat, passed : Nat,
                      replies : Seq(Replies), printed : Nat, off : BOOLEAN]
    BY <1>0, <1>2, HostTypes
  <2> QED
    BY <1>0, <2>1, <2>2 DEF TypeOK
<1>3. CASE UNCHANGED vars
  BY <1>0, <1>3 DEF TypeOK, vars, guarded, frontend, history
<1> QED
  BY <1>1, <1>2, <1>3, StepCases

-----------------------------------------------------------------------------
(* System calls *)

Awaiting == \E h \in Hart : pc[h] = "reply"

LEMMA ComingSame == UNCHANGED <<fromhost, host>> => Coming' = Coming
  BY DEF Coming

MailInv == ReplyAwaited /\ AnswerBeforeReply

\* A hart's step that leaves the mailbox and magic_mem alone, and neither
\* starts nor ends a wait for a reply.
LEMMA MailUntouched ==
  ASSUME HtifInv, UNCHANGED <<tohost, fromhost, host, magic_mem>>,
         Awaiting' <=> Awaiting,
         \A g \in Hart : (InSyscall(g) /\ pc[g] \in {"unlock", "answer"})'
                        => InSyscall(g) /\ pc[g] \in {"unlock", "answer"}
  PROVE  MailInv'
  BY ComingSame DEF HtifInv, MailInv, ReplyAwaited, AnswerBeforeReply, Awaiting

LEMMA MailStep ==
  ASSUME HtifInv, [Next]_vars
  PROVE  MailInv'
<1>t. /\ TypeOK /\ PlaceOfCall /\ Owners /\ SyscallOwners
      /\ ReplyAwaited /\ AnswerBeforeReply
  BY DEF HtifInv
<1>p. /\ pc \in [Hart -> {"idle", "frontend", "lock", "answer"} \cup Locked]
      /\ call \in [Hart -> {"getchar", "putchar", "syscall", "poweroff", "none"}]
  BY <1>t DEF TypeOK
<1>n. Number(Coming, "syscall") \in Nat
  BY <1>t, ComingType
<1>1. ASSUME NEW h \in Hart, HartStep(h)
      PROVE  MailInv'
  <2>1. CASE Frontend(h)
    <3>1. \A g \in Hart : ~ InSyscall(g)
      BY <1>t, <2>1, FreeAssumption DEF Frontend, SyscallOwners
    <3>2. ~ Awaiting
      BY <1>t, <3>1 DEF Awaiting, InSyscall, PlaceOfCall
    <3>3. ~ Awaiting' /\ pc' = [pc EXCEPT ![h] = "lock"] /\ call' = call
      BY <1>p, <2>1, <3>2 DEF Frontend, Goto, Awaiting
    <3>4. \A g \in Hart : ~ (InSyscall(g)' /\ pc'[g] \in {"unlock", "answer"})
      BY <1>p, <3>1, <3>3 DEF InSyscall
    <3>5. Coming' = Coming /\ tohost' = tohost
      BY <2>1, ComingSame DEF Frontend
    <3>6. Number(Coming', "syscall") = 0 /\ ReplyAwaited'
      BY <1>t, <1>n, <3>2, <3>3, <3>5 DEF ReplyAwaited, Awaiting
    <3> QED
      BY <3>4, <3>6 DEF MailInv, AnswerBeforeReply
  <2>2. CASE Lock(h)
    <3>1. /\ Awaiting' <=> Awaiting
          /\ \A g \in Hart : (InSyscall(g) /\ pc[g] \in {"unlock", "answer"})'
                            => InSyscall(g) /\ pc[g] \in {"unlock", "answer"}
      BY <1>p, <2>2 DEF Lock, Goto, Awaiting, InSyscall
    <3> QED
      BY <2>2, <3>1, MailUntouched DEF Lock, frontend
  <2>3. CASE Consumes(h)
    <3>1. /\ fromhost.cmd # "syscall"
          /\ fromhost' = Zero
          /\ UNCHANGED <<tohost, host, magic_mem, call>>
          /\ \/ pc[h] = "check" /\ pc' = [pc EXCEPT ![h] = "peek"]
             \/ pc[h] \in {"send", "reply"} /\ pc' = [pc EXCEPT ![h] = pc[h]]
      BY <2>3, ConsumesFrame DEF frontend
    <3>2. Awaiting' <=> Awaiting
      BY <1>p, <3>1 DEF Awaiting
    <3>3. \A g \in Hart : (InSyscall(g) /\ pc[g] \in {"unlock", "answer"})'
                         => InSyscall(g) /\ pc[g] \in {"unlock", "answer"}
      BY <1>p, <3>1 DEF InSyscall
    <3>4. Number(Coming', "syscall") = Number(Coming, "syscall")
      BY <1>t, <3>1, Takes
    <3> QED
      BY <1>t, <3>1, <3>2, <3>3, <3>4
      DEF MailInv, ReplyAwaited, AnswerBeforeReply, Awaiting
  <2>4. CASE Peek(h)
    <3>1. /\ Awaiting' <=> Awaiting
          /\ \A g \in Hart : (InSyscall(g) /\ pc[g] \in {"unlock", "answer"})'
                            => InSyscall(g) /\ pc[g] \in {"unlock", "answer"}
      BY <1>p, <1>t, <2>4 DEF Peek, Goto, Awaiting, InSyscall, PlaceOfCall
    <3> QED
      BY <2>4, <3>1, MailUntouched DEF Peek, frontend
  <2>5. CASE Send(h)
    <3>1. ~ Awaiting
      BY <1>t, <2>5, OneLocked DEF Awaiting, Send, Locked
    <3>2. Number(Coming, "syscall") = 0
      BY <1>t, <1>n, <3>1 DEF ReplyAwaited, Awaiting
    <3>3. Coming' = Coming
      BY <2>5, ComingSame DEF Send
    <3>4. /\ tohost'.cmd = Command[call[h]]
          /\ pc' = [pc EXCEPT ![h] = IF call[h] = "syscall" THEN "reply" ELSE "unlock"]
          /\ UNCHANGED <<call, magic_mem>>
      BY <2>5 DEF Send, Word, Goto, frontend
    <3>5. tohost'.cmd = "syscall" <=> call[h] = "syscall"
      <4>1. call[h] \in {"getchar", "putchar", "syscall", "poweroff"}
        BY <1>p, <1>t, <2>5 DEF PlaceOfCall, Send
      <4> QED
        BY <3>4, <4>1 DEF Command
    <3>6. Awaiting' <=> call[h] = "syscall"
      BY <1>p, <3>1, <3>4 DEF Awaiting
    <3>7. ReplyAwaited'
      BY <3>2, <3>3, <3>5, <3>6 DEF ReplyAwaited, Awaiting
    <3>8. \A g \in Hart : (InSyscall(g) /\ pc[g] \in {"unlock", "answer"})'
                         => InSyscall(g) /\ pc[g] \in {"unlock", "answer"}
      BY <1>p, <3>4 DEF InSyscall
    <3> QED
      BY <1>t, <3>2, <3>3, <3>4, <3>7, <3>8 DEF MailInv, AnswerBeforeReply
  <2>6. CASE Reply(h)
    <3>1. /\ pc[h] = "reply"
          /\ fromhost.cmd = "syscall"
          /\ fromhost' = Zero
          /\ pc' = [pc EXCEPT ![h] = "unlock"]
          /\ UNCHANGED <<tohost, host, magic_mem, call>>
      BY <2>6 DEF Reply, Goto, frontend
    <3>2. Number(Coming, "syscall") > 0 /\ magic_mem.answered
      BY <1>t, <3>1, MailCounted DEF AnswerBeforeReply
    <3>3. tohost.cmd # "syscall" /\ Number(Coming, "syscall") = 1
      BY <1>t, <1>n, <3>2 DEF ReplyAwaited
    <3>4. Number(Coming', "syscall") = 0
      <4>1. Number(Coming, "syscall") = Number(Coming', "syscall") + 1
        BY <1>t, <3>1, Takes
      <4>2. Number(Coming', "syscall") \in Nat
        BY <1>t, <3>1, Takes
      <4> QED
        BY <3>3, <4>1, <4>2
    <3>5. ~ Awaiting'
      <4>1. \A g \in Hart : pc[g] = "reply" => g = h
        BY <1>t, <3>1, OneLocked DEF Locked
      <4> QED
        BY <1>p, <3>1, <4>1 DEF Awaiting
    <3> QED
      BY <3>1, <3>2, <3>3, <3>4, <3>5
      DEF MailInv, ReplyAwaited, AnswerBeforeReply, Awaiting
  <2>7. CASE Unlock(h)
    <3>1. /\ Awaiting' <=> Awaiting
          /\ \A g \in Hart : (InSyscall(g) /\ pc[g] \in {"unlock", "answer"})'
                            => InSyscall(g) /\ pc[g] \in {"unlock", "answer"}
      BY <1>p, <2>7 DEF Unlock, Goto, Awaiting, InSyscall
    <3> QED
      BY <2>7, <3>1, MailUntouched DEF Unlock, frontend
  <2>8. CASE Answer(h)
    <3>1. /\ Awaiting' <=> Awaiting
          /\ \A g \in Hart : (InSyscall(g) /\ pc[g] \in {"unlock", "answer"})'
                            => InSyscall(g) /\ pc[g] \in {"unlock", "answer"}
      BY <1>p, <2>8 DEF Answer, Goto, Awaiting, InSyscall
    <3> QED
      BY <2>8, <3>1, MailUntouched DEF Answer
  <2>9. ASSUME NEW c \in Call, Begin(h, c)
        PROVE  MailInv'
    <3>1. /\ Awaiting' <=> Awaiting
          /\ \A g \in Hart : (InSyscall(g) /\ pc[g] \in {"unlock", "answer"})'
                            => InSyscall(g) /\ pc[g] \in {"unlock", "answer"}
      BY <1>p, <2>9 DEF Begin, Goto, Awaiting, InSyscall
    <3> QED
      BY <2>9, <3>1, MailUntouched DEF Begin, frontend
  <2> QED
    BY <1>1, <2>1, <2>2, <2>3, <2>4, <2>5, <2>6, <2>7, <2>8, <2>9 DEF HartStep
<1>2. CASE HostStep
  <2>1. /\ UNCHANGED <<pc, call>>
        /\ magic_mem.answered => magic_mem'.answered
    BY <1>t, <1>2, HostFrame
  <2>2. \A g \in Hart : (InSyscall(g) /\ pc[g] \in {"unlock", "answer"})'
                       => magic_mem'.answered
    BY <1>t, <2>1 DEF InSyscall, AnswerBeforeReply
  <2>3. /\ (IF tohost'.cmd = "syscall" THEN 1 ELSE 0) + Number(Coming', "syscall")
             = (IF tohost.cmd = "syscall" THEN 1 ELSE 0) + Number(Coming, "syscall")
        /\ Number(Coming', "syscall") > 0 => magic_mem'.answered
    <3>1. CASE HostTake
      <4>1. tohost'.cmd # "syscall" /\ fromhost' = fromhost
        BY <1>t, <3>1, HostTakeCases DEF Zero, Word
      <4>2. CASE tohost.cmd = "syscall"
        <5>1. /\ host'.replies = Append(host.replies, Word("syscall", 0))
              /\ magic_mem'.answered
          BY <1>t, <3>1, <4>2, HostTakeCases DEF TypeOK
        <5>2. Word("syscall", 0) \in Replies /\ Word("syscall", 0).cmd = "syscall"
          BY DEF Word, Replies
        <5>3. Number(Coming', "syscall") = Number(Coming, "syscall") + 1
          BY <1>t, <4>1, <5>1, <5>2, Adds
        <5> QED
          BY <1>n, <4>1, <4>2, <5>1, <5>3
      <4>3. CASE tohost.cmd # "syscall"
        <5>1. \/ host'.replies = host.replies
              \/ host'.replies = Append(host.replies, Word("write", 0))
          BY <1>t, <3>1, <4>3, HostTakeCases DEF TypeOK
        <5>2. Word("write", 0) \in Replies /\ Word("write", 0).cmd = "write"
          BY DEF Word, Replies
        <5>3. Number(Coming', "syscall") = Number(Coming, "syscall")
          <6>1. CASE host'.replies = host.replies
            BY <4>1, <6>1 DEF Coming
          <6>2. CASE host'.replies = Append(host.replies, Word("write", 0))
            BY <1>t, <1>n, <4>1, <6>2, <5>2, Adds
          <6> QED
            BY <5>1, <6>1, <6>2
        <5> QED
          BY <1>t, <2>1, <4>1, <4>3, <5>3 DEF AnswerBeforeReply
      <4> QED
        BY <4>2, <4>3
    <3>2. CASE HostPass
      <4>1. /\ host'.replies = Append(host.replies, Word("read", host.passed))
            /\ UNCHANGED <<tohost, fromhost>>
        BY <1>t, <3>2 DEF HostPass, TypeOK
      <4>2. /\ Word("read", host.passed) \in Replies
            /\ Word("read", host.passed).cmd = "read"
        BY <1>t DEF TypeOK, Word, Replies
      <4>3. Number(Coming', "syscall") = Number(Coming, "syscall")
        <5>1. Number(Coming', "syscall") = Number(Coming, "syscall")
                + (IF Word("read", host.passed).cmd = "syscall" THEN 1 ELSE 0)
          BY <1>t, <4>1, <4>2, Adds
        <5> QED
          BY <1>n, <4>2, <5>1
      <4> QED
        BY <1>t, <2>1, <4>1, <4>3 DEF AnswerBeforeReply
    <3>3. CASE HostReply
      <4>1. Coming' = Coming /\ tohost' = tohost
        BY <1>t, <3>3, Moves DEF HostReply
      <4> QED
        BY <1>t, <2>1, <4>1 DEF AnswerBeforeReply
    <3>4. CASE Type
      <4>1. Coming' = Coming /\ tohost' = tohost
        BY <1>t, <3>4 DEF Type, TypeOK, Coming
      <4> QED
        BY <1>t, <2>1, <4>1 DEF AnswerBeforeReply
    <3> QED
      BY <1>2, <3>1, <3>2, <3>3, <3>4 DEF HostStep
  <2> QED
    BY <1>t, <2>1, <2>2, <2>3 DEF MailInv, ReplyAwaited, AnswerBeforeReply
<1>3. CASE UNCHANGED vars
  BY <1>3, MailUntouched DEF vars, frontend, Awaiting, InSyscall
<1> QED
  BY <1>1, <1>2, <1>3, StepCases

-----------------------------------------------------------------------------
(* Input *)

Requesting == \E h \in Hart : pc[h] = "send" /\ call[h] = "getchar"

\* OneRequest in terms of Number, before and after a step.
LEMMA OneRequestCounts ==
  /\ OneRequest <=>
       host.reading + Number(Coming, "read")
         + (IF tohost.cmd = "read" THEN 1 ELSE 0)
         + (IF Requesting THEN 1 ELSE 0)
       = IF htif_console_buf = -1 THEN 1 ELSE 0
  /\ OneRequest' <=>
       host'.reading + Number(Coming', "read")
         + (IF tohost'.cmd = "read" THEN 1 ELSE 0)
         + (IF Requesting' THEN 1 ELSE 0)
       = IF htif_console_buf' = -1 THEN 1 ELSE 0
  BY DEF OneRequest, Asked, Number, Requesting

InputInv == OneRequest /\ InputInOrder

LEMMA TakenType ==
  ASSUME TypeOK
  PROVE  /\ Taken \in Seq(Nat)
         /\ Len(Taken) \in Nat
<1>1. got \in Seq(Nat) /\ htif_console_buf \in Nat \cup {-1}
  BY DEF TypeOK
<1>2. htif_console_buf > 0 => <<htif_console_buf - 1>> \in Seq(Nat)
  BY <1>1
<1> QED
  BY <1>1, <1>2 DEF Taken

\* A step that leaves the channels alone.
LEMMA InputUntouched ==
  ASSUME HtifInv, UNCHANGED <<tohost, fromhost, host, htif_console_buf, got>>,
         Requesting' <=> Requesting
  PROVE  InputInv'
<1>1. Coming' = Coming /\ Taken' = Taken
  BY ComingSame DEF Taken
<1>2. OneRequest'
  BY <1>1, OneRequestCounts DEF HtifInv
<1> QED
  BY <1>1, <1>2 DEF HtifInv, InputInv, InputInOrder

\* A character that leaves the mailbox is the next one, and the only one.
LEMMA InputConsumed ==
  ASSUME HtifInv, NEW h \in Hart, Consumes(h)
  PROVE  InputInv'
<1>t. TypeOK /\ OneRequest /\ InputInOrder
  BY DEF HtifInv
<1> DEFINE R == Number(Coming, "read")
           n == Len(Taken)
<1>1. /\ fromhost' = Zero
      /\ htif_console_buf' = IF fromhost.cmd = "read" THEN 1 + fromhost.data
                             ELSE htif_console_buf
      /\ UNCHANGED <<tohost, host, got, call>>
      /\ \/ pc[h] = "check" /\ pc' = [pc EXCEPT ![h] = "peek"]
         \/ pc[h] \in {"send", "reply"} /\ pc' = [pc EXCEPT ![h] = pc[h]]
  BY ConsumesFrame DEF history
<1>2. Requesting' <=> Requesting
  BY <1>1, <1>t DEF TypeOK, Requesting
<1>3. /\ Coming' \in Seq(Replies)
      /\ Number(Coming', "read") \in Nat
      /\ R = Number(Coming', "read") + (IF fromhost.cmd = "read" THEN 1 ELSE 0)
      /\ Characters(Coming, n) => /\ Characters(Coming', n)
                                  /\ fromhost.cmd = "read" => fromhost.data = n
  BY <1>1, <1>t, Takes
<1>4. host.reading \in Nat /\ host.passed \in Nat /\ n \in Nat /\ Taken \in Seq(Nat)
  BY <1>t, TakenType DEF TypeOK
<1>5. CASE fromhost.cmd = "read"
  <2>1. /\ htif_console_buf = -1
        /\ Number(Coming', "read") = 0 /\ R = 1
        /\ host.reading = 0 /\ tohost.cmd # "read" /\ ~ Requesting
    <3> HIDE DEF R, n
    <3>1. host.reading + R + (IF tohost.cmd = "read" THEN 1 ELSE 0)
             + (IF Requesting THEN 1 ELSE 0)
           = IF htif_console_buf = -1 THEN 1 ELSE 0
      BY <1>t, OneRequestCounts DEF R
    <3> QED
      BY <1>3, <1>4, <1>5, <3>1
  <2>2. fromhost.data = n
    BY <1>t, <1>3, <1>5 DEF InputInOrder
  <2>3. htif_console_buf' = 1 + n
    BY <1>1, <1>5, <2>2
  <2>4. OneRequest'
    BY <1>1, <1>2, <1>4, <2>1, <2>3, OneRequestCounts
  <2>5. Taken = got /\ Taken' = Append(Taken, n)
    <3>1. Taken = got
      BY <1>t, <2>1 DEF Taken, TypeOK
    <3>2. Taken' = got \o <<n>>
      BY <1>1, <1>4, <2>3 DEF Taken
    <3> QED
      BY <1>4, <3>1, <3>2
  <2>6. Len(Taken') = n + 1 /\ Taken' = [i \in 1 .. n + 1 |-> i - 1]
    <3> HIDE DEF n
    <3>1. Taken = [i \in 1 .. n |-> i - 1] /\ Len(Taken) = n
      BY <1>t DEF InputInOrder, n
    <3>2. Append(Taken, n) = [i \in 1 .. n + 1 |-> IF i <= n THEN Taken[i] ELSE n]
      BY <1>4, <3>1
    <3>3. \A i \in 1 .. n + 1 : (IF i <= n THEN Taken[i] ELSE n) = i - 1
      BY <1>4, <3>1
    <3>4. Len(Append(Taken, n)) = n + 1
      BY <1>4, <3>1
    <3> QED
      BY <2>5, <3>2, <3>3, <3>4
  <2>7. Characters(Coming', Len(Taken'))
    BY <1>3, <2>1, NoCharacters
  <2>8. host'.passed = Len(Taken') + Number(Coming', "read")
    BY <1>t, <1>1, <1>4, <2>1, <2>6 DEF InputInOrder
  <2>9. InputInOrder'
    BY <2>6, <2>7, <2>8 DEF InputInOrder
  <2> QED
    BY <2>4, <2>9 DEF InputInv
<1>6. CASE fromhost.cmd # "read"
  <2>1. htif_console_buf' = htif_console_buf /\ Taken' = Taken
    BY <1>1, <1>6 DEF Taken
  <2>2. Number(Coming', "read") = R
    BY <1>3, <1>6
  <2>3. OneRequest'
    BY <1>t, <1>1, <1>2, <2>1, <2>2, OneRequestCounts
  <2>4. InputInOrder'
    BY <1>t, <1>1, <1>3, <2>1, <2>2 DEF InputInOrder
  <2> QED
    BY <2>3, <2>4 DEF InputInv
<1> QED
  BY <1>5, <1>6

\* getchar takes the character that is there, and asks for the next.
LEMMA InputPeeked ==
  ASSUME HtifInv, NEW h \in Hart, Peek(h)
  PROVE  InputInv'
<1>t. TypeOK /\ PlaceOfCall /\ Owners /\ OneRequest /\ InputInOrder
  BY DEF HtifInv
<1>1. Coming' = Coming
  BY ComingSame DEF Peek
<1>2. /\ host.reading \in Nat /\ Number(Coming, "read") \in Nat
      /\ htif_console_buf \in Nat \cup {-1} /\ got \in Seq(Nat)
  BY <1>t, ComingType DEF TypeOK
<1>3. Taken' = Taken
  <2>1. CASE htif_console_buf > 0
    <3>1. Taken = Append(got, htif_console_buf - 1)
      BY <1>2, <2>1 DEF Taken
    <3>2. /\ got' = Append(got, htif_console_buf - 1)
          /\ htif_console_buf' = -1
      BY <1>2, <2>1 DEF Peek
    <3>3. got' \in Seq(Nat)
      BY <1>2, <2>1, <3>2
    <3>4. Taken' = got'
      BY <3>2, <3>3 DEF Taken
    <3> QED
      BY <3>1, <3>2, <3>4
  <2>2. CASE ~ htif_console_buf > 0
    <3>1. got' = got /\ ~ htif_console_buf' > 0
      BY <1>2, <2>2 DEF Peek
    <3> QED
      BY <2>2, <3>1 DEF Taken
  <2> QED
    BY <2>1, <2>2
<1>4. InputInOrder'
  BY <1>t, <1>1, <1>3 DEF InputInOrder, Peek
<1>5. OneRequest'
  <2>1. UNCHANGED <<host, tohost, call>> /\ pc[h] = "peek"
    BY DEF Peek
  <2>2. CASE htif_console_buf >= 0
    <3>1. htif_console_buf' = -1 /\ pc' = [pc EXCEPT ![h] = "send"]
      BY <2>2 DEF Peek, Goto
    <3>2. Requesting'
      BY <1>t, <2>1, <3>1 DEF TypeOK, PlaceOfCall, Requesting
    <3>3. /\ host.reading = 0 /\ Number(Coming, "read") = 0
          /\ tohost.cmd # "read"
      <4>1. host.reading + Number(Coming, "read")
               + (IF tohost.cmd = "read" THEN 1 ELSE 0)
               + (IF Requesting THEN 1 ELSE 0) = 0
        BY <1>t, <1>2, <2>2, OneRequestCounts
      <4> QED
        BY <1>2, <4>1
    <3> QED
      BY <1>1, <2>1, <3>1, <3>2, <3>3, OneRequestCounts
  <2>3. CASE ~ htif_console_buf >= 0
    <3>1. htif_console_buf' = htif_console_buf /\ pc' = [pc EXCEPT ![h] = "unlock"]
      BY <2>3 DEF Peek, Goto
    <3>2. Requesting' <=> Requesting
      BY <1>t, <2>1, <3>1 DEF TypeOK, Requesting
    <3> QED
      BY <1>t, <1>1, <2>1, <3>1, <3>2, OneRequestCounts
  <2> QED
    BY <2>2, <2>3
<1> QED
  BY <1>4, <1>5 DEF InputInv

\* The request of getchar goes into the mailbox.
LEMMA InputSent ==
  ASSUME HtifInv, NEW h \in Hart, Send(h)
  PROVE  InputInv'
<1>t. TypeOK /\ PlaceOfCall /\ Owners /\ OneRequest /\ InputInOrder
  BY DEF HtifInv
<1>1. /\ pc[h] = "send"
      /\ pc' = [pc EXCEPT ![h] = IF call[h] = "syscall" THEN "reply" ELSE "unlock"]
      /\ UNCHANGED <<host, fromhost, htif_console_buf, got, call>>
      /\ tohost.cmd = "zero"
      /\ tohost'.cmd = Command[call[h]]
  BY DEF Send, Goto, Word, Zero, guarded
<1>2. Coming' = Coming /\ Taken' = Taken
  BY <1>1, ComingSame DEF Taken
<1>3. InputInOrder'
  BY <1>t, <1>1, <1>2 DEF InputInOrder
<1>4. call[h] \in {"getchar", "putchar", "syscall", "poweroff"}
  BY <1>t, <1>1 DEF TypeOK, PlaceOfCall
<1>5. tohost'.cmd = "read" <=> call[h] = "getchar"
  BY <1>1, <1>4 DEF Command
<1>6. \A g \in Hart : pc'[g] = "send" => g # h /\ pc[g] = "send"
  BY <1>t, <1>1 DEF TypeOK
<1>7. \A g \in Hart : pc[g] = "send" => g = h
  BY <1>t, <1>1, OneLocked DEF Locked
<1>8. ~ Requesting'
  BY <1>6, <1>7 DEF Requesting
<1>9. Requesting <=> call[h] = "getchar"
  BY <1>1, <1>7 DEF Requesting
<1>10. host.reading \in Nat /\ Number(Coming, "read") \in Nat
  BY <1>t, ComingType DEF TypeOK
<1>11. OneRequest'
  BY <1>t, <1>1, <1>2, <1>5, <1>8, <1>9, <1>10, OneRequestCounts
<1> QED
  BY <1>3, <1>11 DEF InputInv

\* The host passes on the next character when nothing else is on its way.
LEMMA InputPassed ==
  ASSUME HtifInv, HostPass
  PROVE  InputInv'
<1>t. TypeOK /\ OneRequest /\ InputInOrder
  BY DEF HtifInv
<1> DEFINE R == Number(Coming, "read")
           n == Len(Taken)
           w == Word("read", host.passed)
<1>1. /\ host.reading \in Nat /\ host.passed \in Nat /\ R \in Nat /\ n \in Nat
      /\ host.reading > 0
  BY <1>t, ComingType, TakenType DEF TypeOK, HostPass
<1>2. w \in Replies /\ w.cmd = "read" /\ w.data = host.passed
  BY <1>1 DEF Word, Replies
<1>3. /\ host'.reading = host.reading - 1
      /\ host'.passed = host.passed + 1
      /\ host'.replies = Append(host.replies, w)
      /\ UNCHANGED <<tohost, fromhost, htif_console_buf, got, pc, call>>
  BY <1>t DEF HostPass, TypeOK, guarded, history
<1> HIDE DEF R, n, w
<1>4. (Requesting' <=> Requesting) /\ Taken' = Taken
  BY <1>3 DEF Requesting, Taken
<1>5. /\ host.reading + R + (IF tohost.cmd = "read" THEN 1 ELSE 0)
           + (IF Requesting THEN 1 ELSE 0)
         = IF htif_console_buf = -1 THEN 1 ELSE 0
      /\ R = 0
  <2>1. host.reading + R + (IF tohost.cmd = "read" THEN 1 ELSE 0)
           + (IF Requesting THEN 1 ELSE 0)
         = IF htif_console_buf = -1 THEN 1 ELSE 0
    BY <1>t, OneRequestCounts DEF R
  <2> QED
    BY <1>1, <2>1
<1>6. /\ Characters(Coming, n)
      /\ host.passed = n
  BY <1>t, <1>1, <1>5 DEF InputInOrder, R, n
<1>7. /\ Number(Coming', "read") = R + 1
      /\ Characters(Coming', n)
  BY <1>t, <1>2, <1>3, <1>6, Adds DEF R
<1>8. OneRequest'
  BY <1>1, <1>3, <1>4, <1>5, <1>7, OneRequestCounts
<1>9. InputInOrder'
  BY <1>t, <1>1, <1>3, <1>4, <1>5, <1>6, <1>7 DEF InputInOrder, n
<1> QED
  BY <1>8, <1>9 DEF InputInv

\* The host takes a request for a character, or a word of another kind.
LEMMA InputTaken ==
  ASSUME HtifInv, HostTake
  PROVE  InputInv'
<1>t. TypeOK /\ OneRequest /\ InputInOrder
  BY DEF HtifInv
<1>1. /\ host.reading \in Nat
      /\ Number(Coming, "read") \in Nat
  BY <1>t, ComingType DEF TypeOK
<1>2. /\ tohost'.cmd # "read"
      /\ UNCHANGED <<fromhost, htif_console_buf, got, pc, call>>
  BY <1>t, HostTakeCases DEF Zero, Word, guarded, history
<1>3. (Requesting' <=> Requesting) /\ Taken' = Taken
  BY <1>2 DEF Requesting, Taken
<1>4. /\ host'.passed = host.passed
      /\ host'.reading = host.reading + (IF tohost.cmd = "read" THEN 1 ELSE 0)
  BY <1>t, <1>1, HostTakeCounts
<1>5. \/ host'.replies = host.replies
      \/ \E w \in Replies : /\ w.cmd # "read"
                            /\ host'.replies = Append(host.replies, w)
  <2>1. \A cmd \in {"write", "syscall"} : Word(cmd, 0) \in Replies /\ Word(cmd, 0).cmd # "read"
    BY DEF Word, Replies
  <2> QED
    BY <1>t, <2>1, HostTakeCases DEF TypeOK
<1>6. /\ Number(Coming', "read") = Number(Coming, "read")
      /\ Characters(Coming', Len(Taken)) <=> Characters(Coming, Len(Taken))
  <2>1. CASE host'.replies = host.replies
    <3>1. Coming' = Coming
      BY <1>2, <2>1 DEF Coming
    <3> QED
      BY <3>1
  <2>2. ASSUME NEW w \in Replies, w.cmd # "read",
               host'.replies = Append(host.replies, w)
        PROVE  /\ Number(Coming', "read") = Number(Coming, "read")
               /\ Characters(Coming', Len(Taken)) <=> Characters(Coming, Len(Taken))
    <3>1. /\ Number(Coming', "read")
                = Number(Coming, "read") + (IF w.cmd = "read" THEN 1 ELSE 0)
          /\ Characters(Coming', Len(Taken)) <=>
               Characters(Coming, Len(Taken)) /\ (w.cmd = "read" => w.data = Len(Taken))
      BY <1>t, <1>2, <2>2, Adds
    <3> QED
      BY <1>1, <2>2, <3>1
  <2> QED
    BY <1>5, <2>1, <2>2
<1>7. OneRequest'
  BY <1>t, <1>1, <1>2, <1>3, <1>4, <1>6, OneRequestCounts
<1>8. InputInOrder'
  BY <1>t, <1>3, <1>4, <1>6 DEF InputInOrder
<1> QED
  BY <1>7, <1>8 DEF InputInv

LEMMA InputStep ==
  ASSUME HtifInv, [Next]_vars
  PROVE  InputInv'
<1>t. TypeOK /\ PlaceOfCall /\ OneRequest /\ InputInOrder
  BY DEF HtifInv
<1>p. /\ pc \in [Hart -> {"idle", "frontend", "lock", "answer"} \cup Locked]
      /\ call \in [Hart -> {"getchar", "putchar", "syscall", "poweroff", "none"}]
  BY <1>t DEF TypeOK
<1>1. ASSUME NEW h \in Hart, HartStep(h)
      PROVE  InputInv'
  <2>1. CASE Frontend(h)
    <3>1. Requesting' <=> Requesting
      BY <1>p, <2>1 DEF Frontend, Goto, Requesting
    <3> QED
      BY <2>1, <3>1, InputUntouched DEF Frontend, guarded, history
  <2>2. CASE Lock(h)
    <3>1. Requesting' <=> Requesting
      BY <1>p, <2>2 DEF Lock, Goto, Requesting
    <3> QED
      BY <2>2, <3>1, InputUntouched DEF Lock, history
  <2>3. CASE Consumes(h)
    BY <2>3, InputConsumed
  <2>4. CASE Peek(h)
    BY <2>4, InputPeeked
  <2>5. CASE Send(h)
    BY <2>5, InputSent
  <2>6. CASE Reply(h)
    <3>1. /\ pc' = [pc EXCEPT ![h] = "unlock"] /\ pc[h] = "reply"
          /\ fromhost' = Zero /\ fromhost.cmd = "syscall"
          /\ UNCHANGED <<tohost, host, htif_console_buf, got, call>>
      BY <2>6 DEF Reply, Goto, guarded, history
    <3>2. (Requesting' <=> Requesting) /\ Taken' = Taken
      BY <1>p, <3>1 DEF Requesting, Taken
    <3>3. /\ Number(Coming', "read") = Number(Coming, "read")
          /\ Characters(Coming', Len(Taken)) <=> Characters(Coming, Len(Taken))
      <4>1. /\ Number(Coming', "read") \in Nat
            /\ Number(Coming, "read") = Number(Coming', "read")
                 + (IF fromhost.cmd = "read" THEN 1 ELSE 0)
            /\ Characters(Coming, Len(Taken)) <=>
                 /\ Characters(Coming', Len(Taken))
                 /\ fromhost.cmd = "read" => fromhost.data = Len(Taken)
        BY <1>t, <3>1, Takes
      <4> QED
        BY <3>1, <4>1
    <3>4. OneRequest'
      BY <1>t, <3>1, <3>2, <3>3, OneRequestCounts
    <3>5. InputInOrder'
      BY <1>t, <3>1, <3>2, <3>3 DEF InputInOrder
    <3> QED
      BY <3>4, <3>5 DEF InputInv
  <2>7. CASE Unlock(h)
    <3>1. Requesting' <=> Requesting
      BY <1>p, <2>7 DEF Unlock, Goto, Requesting
    <3> QED
      BY <2>7, <3>1, InputUntouched DEF Unlock, history
  <2>8. CASE Answer(h)
    <3>1. Requesting' <=> Requesting
      BY <1>p, <2>8 DEF Answer, Goto, Requesting
    <3> QED
      BY <2>8, <3>1, InputUntouched DEF Answer, guarded, history
  <2>9. ASSUME NEW c \in Call, Begin(h, c)
        PROVE  InputInv'
    <3>1. Requesting' <=> Requesting
      BY <1>p, <2>9 DEF Begin, Goto, Requesting
    <3> QED
      BY <2>9, <3>1, InputUntouched DEF Begin, guarded, history
  <2> QED
    BY <1>1, <2>1, <2>2, <2>3, <2>4, <2>5, <2>6, <2>7, <2>8, <2>9 DEF HartStep
<1>2. CASE HostStep
  <2>1. UNCHANGED <<htif_console_buf, pc, call, got>>
    BY <1>t, <1>2, HostFrame
  <2>2. (Requesting' <=> Requesting) /\ Taken' = Taken
    BY <2>1 DEF Requesting, Taken
  <2>3. CASE HostReply \/ Type
    <3>1. Coming' = Coming /\ tohost' = tohost
      BY <1>t, <2>3, Moves DEF HostReply, Type, TypeOK, Coming
    <3>2. host'.reading = host.reading /\ host'.passed = host.passed
      BY <1>t, <2>3 DEF HostReply, Type, TypeOK
    <3>3. OneRequest'
      BY <1>t, <2>1, <2>2, <3>1, <3>2, OneRequestCounts
    <3> QED
      BY <1>t, <2>2, <3>1, <3>2, <3>3 DEF InputInv, InputInOrder
  <2> QED
    BY <1>2, <2>3, InputTaken, InputPassed DEF HostStep
<1>3. CASE UNCHANGED vars
  BY <1>3, InputUntouched DEF vars, guarded, history, Requesting
<1> QED
  BY <1>1, <1>2, <1>3, StepCases

-----------------------------------------------------------------------------
(* Output *)

LEMMA OutputStep ==
  ASSUME HtifInv, [Next]_vars
  PROVE  OutputExact'
<1>t. TypeOK /\ PlaceOfCall /\ OutputExact
  BY DEF HtifInv
<1>n. host.printed \in Nat /\ sent \in Nat
  BY <1>t DEF TypeOK
<1>1. ASSUME NEW h \in Hart, HartStep(h)
      PROVE  OutputExact'
  <2>1. CASE Send(h)
    <3>1. tohost.cmd # "write" /\ host' = host
      BY <2>1 DEF Send, Zero, Word
    <3>2. /\ tohost'.cmd = Command[call[h]]
          /\ sent' = IF call[h] = "putchar" THEN sent + 1 ELSE sent
      BY <2>1 DEF Send, Word
    <3>3. call[h] \in {"getchar", "putchar", "syscall", "poweroff"}
      BY <1>t, <2>1 DEF TypeOK, PlaceOfCall, Send
    <3>4. tohost'.cmd = "write" <=> call[h] = "putchar"
      BY <3>2, <3>3 DEF Command
    <3> QED
      BY <1>t, <1>n, <3>1, <3>2, <3>4 DEF OutputExact
  <2>2. CASE ~ Send(h)
    <3>1. CASE Consumes(h)
      BY <1>t, <3>1, ConsumesFrame DEF OutputExact, history
    <3>2. CASE ~ Consumes(h)
      <4>1. UNCHANGED <<tohost, host, sent>>
        BY <1>1, <2>2, <3>2
        DEF HartStep, Frontend, Lock, Peek, Reply, Unlock, Answer, Begin, history
      <4> QED
        BY <1>t, <4>1 DEF OutputExact
    <3> QED
      BY <3>1, <3>2
  <2> QED
    BY <2>1, <2>2
<1>2. CASE HostStep
  <2>1. sent' = sent
    BY <1>t, <1>2, HostFrame
  <2>2. CASE HostTake
    <3>1. /\ tohost'.cmd # "write"
          /\ host'.printed = IF tohost.cmd = "write" THEN host.printed + 1 ELSE host.printed
      BY <1>t, <2>2, HostTakeCases, HostTakeCounts DEF Zero, Word
    <3> QED
      BY <1>t, <1>n, <2>1, <3>1 DEF OutputExact
  <2>3. CASE HostPass \/ HostReply \/ Type
    <3>1. tohost' = tohost /\ host'.printed = host.printed
      BY <1>t, <2>3 DEF HostPass, HostReply, Type, TypeOK
    <3> QED
      BY <1>t, <2>1, <3>1 DEF OutputExact
  <2> QED
    BY <1>2, <2>2, <2>3 DEF HostStep
<1>3. CASE UNCHANGED vars
  BY <1>t, <1>3 DEF vars, history, OutputExact
<1> QED
  BY <1>1, <1>2, <1>3, StepCases

-----------------------------------------------------------------------------
(* The invariant holds initially *)

LEMMA InitInv == Init => HtifInv
<1> SUFFICES ASSUME Init
             PROVE  HtifInv
  OBVIOUS
<1>1. Zero.cmd = "zero" /\ Zero \in {Word(cmd, 0) : cmd \in Commands}
  BY DEF Zero, Word, Commands
<1>2. TypeOK
  BY <1>1 DEF Init, HostInit, TypeOK
<1>3. Coming = <<>> /\ Taken = <<>>
  BY DEF Init, HostInit, Coming, Taken
<1>4. \A cmd : Places(Coming, cmd) = {} /\ Number(Coming, cmd) = 0
  BY <1>3, FS_EmptySet DEF Places, Number
<1>5. PlaceOfCall /\ Owners /\ SyscallOwners
  BY FreeAssumption DEF Init, PlaceOfCall, Owners, SyscallOwners, InSyscall, Locked
<1>6. ReplyAwaited /\ AnswerBeforeReply
  BY <1>1, <1>4 DEF Init, ReplyAwaited, AnswerBeforeReply
<1>7. OneRequest
  <2>1. ~ Requesting
    BY DEF Init, Requesting
  <2> QED
    BY <1>1, <1>4, <2>1, OneRequestCounts DEF Init, HostInit
<1>8. InputInOrder
  BY <1>3, <1>4 DEF Init, HostInit, InputInOrder, Characters
<1>9. OutputExact
  BY <1>1 DEF Init, HostInit, OutputExact
<1> QED
  BY <1>2, <1>5, <1>6, <1>7, <1>8, <1>9 DEF HtifInv

\* The invariant of the interface.
THEOREM HtifInvariance == Spec => []HtifInv
<1>1. HtifInv /\ [Next]_vars => HtifInv'
  BY ControlStep, TypeStep, MailStep, InputStep, OutputStep
  DEF ControlInv, MailInv, InputInv, HtifInv
<1> QED
  BY InitInv, <1>1, PTL DEF Spec

-----------------------------------------------------------------------------
(* The properties *)

\* The assertion of __check_fromhost (htif.c) never fails, on any number of
\* harts: the reply to a system call only ever meets the hart that waits for
\* it in do_tohost_fromhost.
THEOREM NoAssertionFails == Spec => []AssertionHolds
<1>1. HtifInv => AssertionHolds
  BY DEF HtifInv, TypeOK, AssertionHolds, Locked
<1> QED
  BY <1>1, HtifInvariance, PTL

\* htif_console_getchar has one request out exactly while htif_console_buf is
\* -1, so that __check_fromhost never overwrites a character.
THEOREM RequestsCounted == Spec => []OneRequest
<1>1. HtifInv => OneRequest
  BY DEF HtifInv
<1> QED
  BY <1>1, HtifInvariance, PTL

\* getchar returns every character typed, once and in order, whichever loop of
\* htif.c took it from the mailbox.
THEOREM InputKept == Spec => []InputExact
<1>1. ASSUME HtifInv
      PROVE  InputExact
  <2> DEFINE reads == Places(Coming, "read")
  <2>1. TypeOK /\ OneRequest /\ InputInOrder
    BY <1>1 DEF HtifInv
  <2>2. /\ Coming \in Seq(Replies) /\ Number(Coming, "read") \in Nat
        /\ host.reading \in Nat /\ Len(Taken) \in Nat
    BY <2>1, ComingType, TakenType DEF TypeOK
  <2>3. Number(Coming, "read") <= 1
    <3>1. host.reading + Number(Coming, "read")
             + (IF tohost.cmd = "read" THEN 1 ELSE 0)
             + (IF Requesting THEN 1 ELSE 0)
           = IF htif_console_buf = -1 THEN 1 ELSE 0
      BY <2>1, OneRequestCounts
    <3> QED
      BY <2>2, <3>1
  <2>4. ASSUME NEW i \in reads
        PROVE  Coming[i].data = Len(Taken) + Cardinality({j \in reads : j < i})
    <3>1. Cardinality({j \in reads : j < i}) = 0
      BY <2>2, <2>3, OneCharacter
    <3>2. Coming[i].data = Len(Taken)
      BY <2>1 DEF InputInOrder, Characters
    <3> QED
      BY <2>2, <3>1, <3>2
  <2> QED
    BY <2>1, <2>4 DEF InputInOrder, InputExact, Number
<1> QED
  BY <1>1, HtifInvariance, PTL

\* htif_console_putchar loses no character and htif_poweroff overtakes none:
\* no call of __set_tohost overwrites a word the host has not taken.
THEOREM OutputKept == Spec => []OutputExact
<1>1. HtifInv => OutputExact
  BY DEF HtifInv
<1> QED
  BY <1>1, HtifInvariance, PTL

\* frontend_syscall reads the answer to its own request from magic_mem.
THEOREM AnswersOwn == Spec => []AnswerOwn
<1>1. ASSUME HtifInv
      PROVE  AnswerOwn
  <2>1. ASSUME NEW h \in Hart, pc[h] = "answer"
        PROVE  magic_mem = [from |-> h, answered |-> TRUE]
    <3>1. InSyscall(h)
      BY <1>1, <2>1 DEF HtifInv, PlaceOfCall, InSyscall
    <3>2. magic_mem.from = h
      BY <1>1, <3>1 DEF HtifInv, SyscallOwners
    <3>3. magic_mem.answered /\ magic_mem.answered \in BOOLEAN
      BY <1>1, <2>1, <3>1 DEF HtifInv, AnswerBeforeReply, TypeOK
    <3>4. magic_mem \in [from : Hart \cup {FREE}, answered : BOOLEAN]
      BY <1>1 DEF HtifInv, TypeOK
    <3> QED
      BY <3>2, <3>3, <3>4
  <2> QED
    BY <2>1 DEF AnswerOwn
<1> QED
  BY <1>1, HtifInvariance, PTL
=============================================================================
