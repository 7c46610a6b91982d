-------------------------------- MODULE Ipi --------------------------------
(***************************************************************************)
(* Inter-processor interrupts between the harts of the machine-mode        *)
(* monitor: send_ipi and send_ipi_many (machine/mtrap.c), the software-    *)
(* interrupt half of trap_vector (machine/mentry.S) and poweroff on a      *)
(* platform without HTIF.                                                  *)
(*                                                                         *)
(* A hart in "super" runs supervisor or user code; every other pc value    *)
(* is machine mode, where interrupts are never taken (machine/atomic.h).   *)
(* Each memory access another hart can observe is an action of its own:    *)
(*                                                                         *)
(*   post     atomic_or of the event into the target's mipi_pending        *)
(*   ring     store of 1 to the target's ipi (MSIP) register               *)
(*   poll     load of a target's ipi register in the waiting loop          *)
(*   own      atomic_swap of the hart's own ipi register with 0            *)
(*   mret     return to the lower privilege level; a software interrupt    *)
(*            pending at that instant is taken before anything else runs   *)
(*   swap     amoswap of the hart's own mipi_pending with 0                *)
(*   decode   acting on the events that were swapped out                   *)
(*   halted   the endless wfi loop of an IPI_HALT                          *)
(*   off      the endless wfi loop of poweroff, or of a disabled hart      *)
(*                                                                         *)
(* Hart is the hart_mask of the device tree.                               *)
(***************************************************************************)
EXTENDS Naturals

CONSTANTS
  Hart,       \* hart ids in hart_mask
  Disabled,   \* the harts of disabled_hart_mask
  Request,    \* events the supervisors ask for in this instance
  MaxCalls    \* bound on the SBI calls of each hart

ASSUME HartAssumption == Hart \subseteq Nat
ASSUME DisabledAssumption == Disabled \subseteq Hart
ASSUME MaxCallsAssumption == MaxCalls \in Nat

Fence == {"FENCE_I", "SFENCE_VMA"}
Event == Fence \cup {"SOFT", "HALT"}

ASSUME RequestAssumption == Request \subseteq Event

VARIABLES
  ipi,           \* MSIP register of each hart
  mipi_pending,  \* events posted to each hart
  ssip,          \* mip.SSIP of each hart
  pc,            \* where each hart is
  event,         \* argument of the send_ipi_many the hart is in
  mask,          \* its target mask, until the last loop is entered
  todo,          \* targets its current loop has not reached yet
  incoming_ipi,  \* its local of that name
  cause,         \* events the hart swapped out and has not acted on
  calls,         \* SBI calls made so far
  owed,          \* history: targets of the current call yet to act on it
  due            \* history: fences owed to calls that have returned

vars == <<ipi, mipi_pending, ssip, pc, event, mask, todo, incoming_ipi,
          cause, calls, owed, due>>

Sending == {"post", "ring"}
Waiting == {"poll", "own"}
Stopped(h) == pc[h] \in {"halted", "off"}

Init ==
  /\ ipi = [h \in Hart |-> 0]
  /\ mipi_pending = [h \in Hart |-> {}]
  /\ ssip = [h \in Hart |-> 0]
  /\ pc = [h \in Hart |-> IF h \in Disabled THEN "off" ELSE "super"]
  /\ event = [h \in Hart |-> "SOFT"]
  /\ mask = [h \in Hart |-> {}]
  /\ todo = [h \in Hart |-> {}]
  /\ incoming_ipi = [h \in Hart |-> 0]
  /\ cause = [h \in Hart |-> {}]
  /\ calls = [h \in Hart |-> 0]
  /\ owed = [h \in Hart |-> {}]
  /\ due = [h \in Hart |-> {}]

-----------------------------------------------------------------------------
(* SBI calls, from mcall_trap *)

\* Enter send_ipi_many with event e and targets T.
Enter(h, e, T) ==
  /\ pc[h] = "super"
  /\ pc' = [pc EXCEPT ![h] = "post"]
  /\ event' = [event EXCEPT ![h] = e]
  /\ mask' = [mask EXCEPT ![h] = T]
  /\ todo' = [todo EXCEPT ![h] = T]
  /\ UNCHANGED <<ipi, mipi_pending, ssip, incoming_ipi, cause, owed, due>>

\* SBI_SEND_IPI, SBI_REMOTE_FENCE_I and SBI_REMOTE_SFENCE_VMA.
SendIpi(h, e, T) ==
  /\ calls[h] < MaxCalls
  /\ calls' = [calls EXCEPT ![h] = @ + 1]
  /\ Enter(h, e, T)

\* SBI_SHUTDOWN: poweroff sends IPI_HALT to every hart of hart_mask.
Shutdown(h) ==
  /\ Enter(h, "HALT", Hart)
  /\ UNCHANGED calls

\* SBI_CLEAR_IPI.
ClearIpi(h) ==
  /\ pc[h] = "super"
  /\ calls[h] < MaxCalls
  /\ calls' = [calls EXCEPT ![h] = @ + 1]
  /\ ssip' = [ssip EXCEPT ![h] = 0]
  /\ pc' = [pc EXCEPT ![h] = "mret"]
  /\ UNCHANGED <<ipi, mipi_pending, event, mask, todo, incoming_ipi, cause,
                 owed, due>>

-----------------------------------------------------------------------------
(* The sending loop *)

\* Both loops scan the mask upwards: t is the next hart they reach.
Reaches(h, t) == t \in todo[h] /\ \A u \in todo[h] : t <= u

\* send_ipi leaves early for a disabled hart and otherwise posts the event,
Post(h, t) ==
  /\ pc[h] = "post"
  /\ Reaches(h, t)
  /\ IF t \in Disabled
     THEN /\ todo' = [todo EXCEPT ![h] = @ \ {t}]
          /\ UNCHANGED <<mipi_pending, owed, pc>>
     ELSE /\ mipi_pending' = [mipi_pending EXCEPT ![t] = @ \cup {event[h]}]
          /\ owed' = [owed EXCEPT ![h] =
                        IF event[h] \in Fence THEN @ \cup {t} ELSE @]
          /\ pc' = [pc EXCEPT ![h] = "ring"]
          /\ UNCHANGED todo
  /\ UNCHANGED <<ipi, ssip, event, mask, incoming_ipi, cause, calls, due>>

\* then raises the target's software interrupt.
Ring(h, t) ==
  /\ pc[h] = "ring"
  /\ Reaches(h, t)
  /\ ipi' = [ipi EXCEPT ![t] = 1]
  /\ todo' = [todo EXCEPT ![h] = @ \ {t}]
  /\ pc' = [pc EXCEPT ![h] = "post"]
  /\ UNCHANGED <<mipi_pending, ssip, event, mask, incoming_ipi, cause, calls,
                 owed, due>>

\* Mutant: the early return forgets its condition.
ReturnSoftAlways(h) ==
  /\ pc[h] = "post"
  /\ todo[h] = {}
  /\ pc' = [pc EXCEPT ![h] = "mret"]
  /\ mask' = [mask EXCEPT ![h] = {}]
  /\ UNCHANGED <<ipi, mipi_pending, ssip, event, todo, incoming_ipi, cause,
                 calls, owed, due>>

\* A call for IPI_SOFT returns as soon as everything is sent.
ReturnSoft(h) ==
  /\ pc[h] = "post"
  /\ todo[h] = {}
  /\ event[h] = "SOFT"
  /\ pc' = [pc EXCEPT ![h] = "mret"]
  /\ mask' = [mask EXCEPT ![h] = {}]
  /\ UNCHANGED <<ipi, mipi_pending, ssip, event, todo, incoming_ipi, cause,
                 calls, owed, due>>

\* Any other call goes on to wait for its targets.
BeginWait(h) ==
  /\ pc[h] = "post"
  /\ todo[h] = {}
  /\ event[h] # "SOFT"
  /\ pc' = [pc EXCEPT ![h] = "poll"]
  /\ todo' = [todo EXCEPT ![h] = mask[h]]
  /\ mask' = [mask EXCEPT ![h] = {}]
  /\ UNCHANGED <<ipi, mipi_pending, ssip, event, incoming_ipi, cause, calls,
                 owed, due>>

-----------------------------------------------------------------------------
(* The waiting loop *)

\* The target's ipi register reads 0: go on to the next target.
PollClear(h, t) ==
  /\ pc[h] = "poll"
  /\ Reaches(h, t)
  /\ ipi[t] = 0
  /\ todo' = [todo EXCEPT ![h] = @ \ {t}]
  /\ UNCHANGED <<ipi, mipi_pending, ssip, pc, event, mask, incoming_ipi,
                 cause, calls, owed, due>>

\* It still reads 1: enter the loop body.
PollSet(h, t) ==
  /\ pc[h] = "poll"
  /\ Reaches(h, t)
  /\ ipi[t] = 1
  /\ pc' = [pc EXCEPT ![h] = "own"]
  /\ UNCHANGED <<ipi, mipi_pending, ssip, event, mask, todo, incoming_ipi,
                 cause, calls, owed, due>>

\* Mutant: the loop body reads the own register without consuming it.
ReadOwn(h) ==
  /\ pc[h] = "own"
  /\ incoming_ipi' = [incoming_ipi EXCEPT ![h] = IF ipi[h] = 1 THEN 1 ELSE @]
  /\ pc' = [pc EXCEPT ![h] = "poll"]
  /\ UNCHANGED <<ipi, mipi_pending, ssip, event, mask, todo, cause, calls,
                 owed, due>>

\* Mutant: incoming_ipi counts instead of accumulating with |=.
CountOwn(h) ==
  /\ pc[h] = "own"
  /\ incoming_ipi' = [incoming_ipi EXCEPT ![h] = @ + ipi[h]]
  /\ ipi' = [ipi EXCEPT ![h] = 0]
  /\ pc' = [pc EXCEPT ![h] = "poll"]
  /\ UNCHANGED <<mipi_pending, ssip, event, mask, todo, cause, calls, owed,
                 due>>

\* The loop body consumes the hart's own incoming IPI.
ConsumeOwn(h) ==
  /\ pc[h] = "own"
  /\ incoming_ipi' = [incoming_ipi EXCEPT ![h] = IF ipi[h] = 1 THEN 1 ELSE @]
  /\ ipi' = [ipi EXCEPT ![h] = 0]
  /\ pc' = [pc EXCEPT ![h] = "poll"]
  /\ UNCHANGED <<mipi_pending, ssip, event, mask, todo, cause, calls, owed,
                 due>>

\* What h's call has not been served yet is, once it returns, due.
Settle(h) ==
  /\ owed' = [owed EXCEPT ![h] = {}]
  /\ due' = [t \in Hart |->
               IF t \in owed[h] THEN due[t] \cup {event[h]} ELSE due[t]]

\* Mutant: a consumed IPI is not restored.
RestoreNothing(h) ==
  /\ pc[h] = "poll"
  /\ todo[h] = {}
  /\ pc' = [pc EXCEPT ![h] = IF event[h] = "HALT" THEN "off" ELSE "mret"]
  /\ incoming_ipi' = [incoming_ipi EXCEPT ![h] = 0]
  /\ Settle(h)
  /\ UNCHANGED <<ipi, mipi_pending, ssip, event, mask, todo, cause, calls>>

\* Every target was seen clear: restore a consumed IPI and return, or, in
\* poweroff, fall into the endless loop behind the call.
Restore(h) ==
  /\ pc[h] = "poll"
  /\ todo[h] = {}
  /\ ipi' = [ipi EXCEPT ![h] = IF incoming_ipi[h] = 1 THEN 1 ELSE @]
  /\ pc' = [pc EXCEPT ![h] = IF event[h] = "HALT" THEN "off" ELSE "mret"]
  /\ incoming_ipi' = [incoming_ipi EXCEPT ![h] = 0]
  /\ Settle(h)
  /\ UNCHANGED <<mipi_pending, ssip, event, mask, todo, cause, calls>>

-----------------------------------------------------------------------------
(* trap_vector *)

\* mret with no software interrupt pending resumes the supervisor.
Resume(h) ==
  /\ pc[h] = "mret"
  /\ ipi[h] = 0
  /\ pc' = [pc EXCEPT ![h] = "super"]
  /\ UNCHANGED <<ipi, mipi_pending, ssip, event, mask, todo, incoming_ipi,
                 cause, calls, owed, due>>

\* The interrupt is taken: clear MSIP first.
TakeIpi(h) ==
  /\ pc[h] \in {"super", "mret"}
  /\ ipi[h] = 1
  /\ ipi' = [ipi EXCEPT ![h] = 0]
  /\ pc' = [pc EXCEPT ![h] = "swap"]
  /\ UNCHANGED <<mipi_pending, ssip, event, mask, todo, incoming_ipi, cause,
                 calls, owed, due>>

\* Then fetch and clear the pending events,
SwapPending(h) ==
  /\ pc[h] = "swap"
  /\ cause' = [cause EXCEPT ![h] = mipi_pending[h]]
  /\ mipi_pending' = [mipi_pending EXCEPT ![h] = {}]
  /\ pc' = [pc EXCEPT ![h] = "decode"]
  /\ UNCHANGED <<ipi, ssip, event, mask, todo, incoming_ipi, calls, owed, due>>

\* Mutant: the cause is compared with IPI_SOFT instead of tested for its bit.
DecodeSoftAlone(h) ==
  /\ pc[h] = "decode"
  /\ ssip' = [ssip EXCEPT ![h] = IF cause[h] = {"SOFT"} THEN 1 ELSE @]
  /\ pc' = [pc EXCEPT ![h] = IF "HALT" \in cause[h] THEN "halted" ELSE "mret"]
  /\ owed' = [s \in Hart |->
                IF event[s] \in cause[h] THEN owed[s] \ {h} ELSE owed[s]]
  /\ due' = [due EXCEPT ![h] = @ \ cause[h]]
  /\ cause' = [cause EXCEPT ![h] = {}]
  /\ UNCHANGED <<ipi, mipi_pending, event, mask, todo, incoming_ipi, calls>>

\* Mutant: wfi without the jump back to it.
DecodeFallThrough(h) ==
  /\ pc[h] = "decode"
  /\ ssip' = [ssip EXCEPT ![h] = IF "SOFT" \in cause[h] THEN 1 ELSE @]
  /\ pc' = [pc EXCEPT ![h] = "mret"]
  /\ owed' = [s \in Hart |->
                IF event[s] \in cause[h] THEN owed[s] \ {h} ELSE owed[s]]
  /\ due' = [due EXCEPT ![h] = @ \ cause[h]]
  /\ cause' = [cause EXCEPT ![h] = {}]
  /\ UNCHANGED <<ipi, mipi_pending, event, mask, todo, incoming_ipi, calls>>

\* Mutant: MSIP is cleared after the swap.
DecodeThenClear(h) ==
  /\ pc[h] = "decode"
  /\ ssip' = [ssip EXCEPT ![h] = IF "SOFT" \in cause[h] THEN 1 ELSE @]
  /\ pc' = [pc EXCEPT ![h] = IF "HALT" \in cause[h] THEN "halted" ELSE "mret"]
  /\ owed' = [s \in Hart |->
                IF event[s] \in cause[h] THEN owed[s] \ {h} ELSE owed[s]]
  /\ due' = [due EXCEPT ![h] = @ \ cause[h]]
  /\ cause' = [cause EXCEPT ![h] = {}]
  /\ ipi' = [ipi EXCEPT ![h] = 0]
  /\ UNCHANGED <<mipi_pending, event, mask, todo, incoming_ipi, calls>>

\* and act on each: raise SSIP, fence, or stop for good.
Decode(h) ==
  /\ pc[h] = "decode"
  /\ ssip' = [ssip EXCEPT ![h] = IF "SOFT" \in cause[h] THEN 1 ELSE @]
  /\ pc' = [pc EXCEPT ![h] = IF "HALT" \in cause[h] THEN "halted" ELSE "mret"]
  /\ owed' = [s \in Hart |->
                IF event[s] \in cause[h] THEN owed[s] \ {h} ELSE owed[s]]
  /\ due' = [due EXCEPT ![h] = @ \ cause[h]]
  /\ cause' = [cause EXCEPT ![h] = {}]
  /\ UNCHANGED <<ipi, mipi_pending, event, mask, todo, incoming_ipi, calls>>

-----------------------------------------------------------------------------

\* What hart h does on its own account once it is in machine mode, or must
\* leave "super" for an interrupt.
Monitor(h) ==
  \/ \E t \in Hart : \/ Post(h, t)
                     \/ Ring(h, t)
                     \/ PollClear(h, t)
                     \/ PollSet(h, t)
  \/ ReturnSoft(h)
  \/ BeginWait(h)
  \/ ConsumeOwn(h)
  \/ Restore(h)
  \/ Resume(h)
  \/ TakeIpi(h)
  \/ SwapPending(h)
  \/ Decode(h)

\* What the supervisor of hart h may ask for.
Supervisor(h) ==
  \/ \E e \in Request \ {"HALT"}, T \in SUBSET Hart : SendIpi(h, e, T)
  \/ "HALT" \in Request /\ Shutdown(h)
  \/ ClearIpi(h)

Next == \E h \in Hart : Monitor(h) \/ Supervisor(h)

Spec == Init /\ [][Next]_vars

\* A running hart keeps executing; supervisors need not call.
FairSpec == Spec /\ \A h \in Hart : WF_vars(Monitor(h))

-----------------------------------------------------------------------------
(* Properties *)

TypeOK ==
  /\ ipi \in [Hart -> {0, 1}]
  /\ mipi_pending \in [Hart -> SUBSET Event]
  /\ ssip \in [Hart -> {0, 1}]
  /\ pc \in [Hart -> Sending \cup Waiting \cup
                     {"super", "mret", "swap", "decode", "halted", "off"}]
  /\ event \in [Hart -> Event]
  /\ mask \in [Hart -> SUBSET Hart]
  /\ todo \in [Hart -> SUBSET Hart]
  /\ incoming_ipi \in [Hart -> {0, 1}]
  /\ cause \in [Hart -> SUBSET Event]
  /\ calls \in [Hart -> Nat]
  /\ owed \in [Hart -> SUBSET Hart]
  /\ due \in [Hart -> SUBSET Event]

\* Hart t is bound to look at mipi_pending: its interrupt is raised, it is on
\* its way to the swap, or it keeps the consumed IPI in incoming_ipi.
Noticed(t) ==
  \/ ipi[t] = 1
  \/ pc[t] = "swap"
  \/ pc[t] \in Waiting /\ incoming_ipi[t] = 1

\* No event is lost: whatever is posted to a hart that still runs, the hart
\* will look, unless the sender is only just about to raise the interrupt.
\* At stake: clearing MSIP before the swap (mentry.S), consuming the own ipi
\* register while waiting and restoring it (send_ipi_many).
NoLostEvent ==
  \A t \in Hart :
    mipi_pending[t] # {} =>
      \/ Noticed(t)
      \/ Stopped(t)
      \/ \E s \in Hart : pc[s] = "ring" /\ Reaches(s, t)

\* Once a remote fence call has returned, none of its targets runs another
\* supervisor instruction before it has executed the fence.  This is what
\* the waiting loop of send_ipi_many is for.
FenceBeforeRun ==
  \A t \in Hart : due[t] # {} => pc[t] # "super"

PoweringOff == \E s \in Hart : event[s] = "HALT"

\* No deadlock among harts that wait for one another: every call returns,
\* unless some hart is shutting the machine down.
CallReturns ==
  \A h \in Hart :
    pc[h] \in Sending \cup Waiting
      ~> pc[h] \notin Sending \cup Waiting \/ PoweringOff

\* An IPI_SOFT reaches the supervisor of a running target as SSIP.
SoftDelivered ==
  \A t \in Hart :
    "SOFT" \in mipi_pending[t] ~> ssip[t] = 1 \/ Stopped(t) \/ PoweringOff

\* After poweroff no hart of the machine goes on running its supervisor.
PoweroffStops ==
  PoweringOff ~> [](\A h \in Hart : pc[h] # "super")

-----------------------------------------------------------------------------
(* Refinement *)

\* The machine as RemoteFence sees it: privilege levels and fences owed.
mode ==
  [h \in Hart |-> IF pc[h] = "super" THEN "super"
                  ELSE IF Stopped(h) THEN "stopped" ELSE "monitor"]

RF == INSTANCE RemoteFence

\* The protocol of registers, masks and loops keeps the promise of a remote
\* fence as RemoteFence states it.
RemoteFenceSpec == RF!Spec
=============================================================================
