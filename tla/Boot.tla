-------------------------------- MODULE Boot --------------------------------
(***************************************************************************)
(* How the harts of bbl come up: the reset loop of machine/mentry.S,       *)
(* init_first_hart and init_other_hart (machine/minit.c), boot_loader and  *)
(* boot_other_hart (bbl/bbl.c).  Once a hart has entered the payload it    *)
(* behaves as in Ipi, while others may still be on their way.              *)
(*                                                                         *)
(* New places a hart can be at, all in machine mode with interrupts off:   *)
(*                                                                         *)
(*   reset    top of the reset loop                                        *)
(*   mip      in it, past the test of disabled_hart_mask                   *)
(*   wake     the first hart, in wake_harts                                *)
(*   plic     before hart_plic_init                                        *)
(*   filter   the first hart, in filter_harts                              *)
(*   entry    the first hart, before it sets entry_point                   *)
(*   spin     waiting for entry_point in boot_other_hart                   *)
(*   parked   the endless loop of a disabled hart in boot_other_hart       *)
(*                                                                         *)
(* The scans of the device tree before wake_harts run on the first hart    *)
(* alone and are left out: the model begins where they end.                *)
(***************************************************************************)
EXTENDS Ipi

VARIABLES
  disabled_hart_mask,  \* the harts filter_harts has disabled so far
  entry_point,         \* whether it is set
  early                \* history: pending events posted before the target
                       \* had cleared its ipi register

bootvars == <<disabled_hart_mask, entry_point>>
ipivars == <<mipi_pending, ssip, event, mask, incoming_ipi, cause, calls,
             owed, due>>
allvars == <<vars, bootvars, early>>

\* The hart that does not go to the reset loop.
First == 0

ASSUME FirstAssumption == First \in Hart

\* Hart h has still to run hart_plic_init.
Uncleared(h) == pc[h] \in {"reset", "mip", "wake", "plic"}

Booting(h) == Uncleared(h) \/ pc[h] \in {"filter", "entry", "spin"}

BootInit ==
  /\ ipi = [h \in Hart |-> 0]
  /\ mipi_pending = [h \in Hart |-> {}]
  /\ ssip = [h \in Hart |-> 0]
  /\ pc = [h \in Hart |-> IF h = First THEN "wake" ELSE "reset"]
  /\ event = [h \in Hart |-> "SOFT"]
  /\ mask = [h \in Hart |-> {}]
  /\ todo = [h \in Hart |-> IF h = First THEN Hart ELSE {}]
  /\ incoming_ipi = [h \in Hart |-> 0]
  /\ cause = [h \in Hart |-> {}]
  /\ calls = [h \in Hart |-> 0]
  /\ owed = [h \in Hart |-> {}]
  /\ due = [h \in Hart |-> {}]
  /\ disabled_hart_mask = {}
  /\ entry_point = FALSE
  /\ early = [h \in Hart |-> {}]

-----------------------------------------------------------------------------
(* The first hart *)

\* Mutant: the loop of wake_harts ends one hart early.
WakeShort(t) ==
  /\ pc[First] = "wake"
  /\ Reaches(First, t)
  /\ ipi' = [ipi EXCEPT ![t] = IF \E u \in Hart : u > t THEN 1 ELSE @]
  /\ todo' = [todo EXCEPT ![First] = @ \ {t}]
  /\ UNCHANGED <<ipivars, pc, bootvars>>

\* wake_harts, for one hart: no hart is disabled at this point.
Wake(t) ==
  /\ pc[First] = "wake"
  /\ Reaches(First, t)
  /\ ipi' = IF t \in disabled_hart_mask THEN ipi ELSE [ipi EXCEPT ![t] = 1]
  /\ todo' = [todo EXCEPT ![First] = @ \ {t}]
  /\ UNCHANGED <<ipivars, pc, bootvars>>

WakeEnd ==
  /\ pc[First] = "wake"
  /\ todo[First] = {}
  /\ pc' = [pc EXCEPT ![First] = "plic"]
  /\ UNCHANGED <<ipivars, ipi, todo, bootvars>>

\* filter_harts, for one hart, in whatever order the device tree has them.
Filter(t) ==
  /\ pc[First] = "filter"
  /\ t \in todo[First]
  /\ disabled_hart_mask' = disabled_hart_mask \cup ({t} \cap Disabled)
  /\ todo' = [todo EXCEPT ![First] = @ \ {t}]
  /\ UNCHANGED <<ipivars, ipi, pc, entry_point>>

FilterEnd ==
  /\ pc[First] = "filter"
  /\ todo[First] = {}
  /\ pc' = [pc EXCEPT ![First] = "entry"]
  /\ UNCHANGED <<ipivars, ipi, todo, bootvars>>

SetEntryPoint ==
  /\ pc[First] = "entry"
  /\ entry_point' = TRUE
  /\ pc' = [pc EXCEPT ![First] = "spin"]
  /\ UNCHANGED <<ipivars, ipi, todo, disabled_hart_mask>>

-----------------------------------------------------------------------------
(* Every hart *)

\* The reset loop goes on while the hart is disabled ...
PassMask(h) ==
  /\ pc[h] = "reset"
  /\ h \notin disabled_hart_mask
  /\ pc' = [pc EXCEPT ![h] = "mip"]
  /\ UNCHANGED <<ipivars, ipi, todo, bootvars>>

\* ... or has no software interrupt pending.
TestMip(h) ==
  /\ pc[h] = "mip"
  /\ pc' = [pc EXCEPT ![h] = IF ipi[h] = 1 THEN "plic" ELSE "reset"]
  /\ UNCHANGED <<ipivars, ipi, todo, bootvars>>

\* hart_plic_init clears the register that woke the hart.
HartPlicInit(h) ==
  /\ pc[h] = "plic"
  /\ ipi' = [ipi EXCEPT ![h] = 0]
  /\ pc' = [pc EXCEPT ![h] = IF h = First THEN "filter" ELSE "spin"]
  /\ todo' = [todo EXCEPT ![h] = IF h = First THEN Hart ELSE {}]
  /\ UNCHANGED <<ipivars, bootvars>>

\* Mutant: the mask is not tested behind entry_point.
EnterUnchecked(h) ==
  /\ pc[h] = "spin"
  /\ entry_point
  /\ pc' = [pc EXCEPT ![h] = "mret"]
  /\ UNCHANGED <<ipivars, ipi, todo, bootvars>>

\* Mutant: the register is cleared behind entry_point, where others may
\* already have sent an IPI.
EnterClearing(h) ==
  /\ pc[h] = "spin"
  /\ entry_point
  /\ pc' = [pc EXCEPT ![h] = IF h \in disabled_hart_mask THEN "parked"
                             ELSE "mret"]
  /\ ipi' = [ipi EXCEPT ![h] = 0]
  /\ UNCHANGED <<ipivars, todo, bootvars>>

\* boot_other_hart, once entry_point is set: a disabled hart stays behind,
\* any other returns from machine mode into the payload.
BootOtherHart(h) ==
  /\ pc[h] = "spin"
  /\ entry_point
  /\ pc' = [pc EXCEPT ![h] = IF h \in disabled_hart_mask THEN "parked"
                             ELSE "mret"]
  /\ UNCHANGED <<ipivars, ipi, todo, bootvars>>

-----------------------------------------------------------------------------

Start(h) ==
  \/ PassMask(h)
  \/ TestMip(h)
  \/ HartPlicInit(h)
  \/ BootOtherHart(h)
  \/ /\ h = First
     /\ \/ \E t \in Hart : Wake(t) \/ Filter(t)
        \/ WakeEnd
        \/ FilterEnd
        \/ SetEntryPoint

\* An event is early if it is posted to a hart that has not cleared its
\* register yet, and until that hart swaps it out.
NoteEarly ==
  early' = [t \in Hart |->
              IF Uncleared(t) THEN mipi_pending'[t]
              ELSE early[t] \cap mipi_pending'[t]]

BootNext ==
  /\ \E h \in Hart :
       \/ Start(h)
       \/ (Monitor(h) \/ Supervisor(h)) /\ UNCHANGED bootvars
  /\ NoteEarly

BootSpec == BootInit /\ [][BootNext]_allvars

\* Every hart keeps executing.
FairBootSpec ==
  /\ BootSpec
  /\ \A h \in Hart : /\ WF_allvars(Start(h) /\ NoteEarly)
                     /\ WF_allvars(Monitor(h) /\ UNCHANGED bootvars /\ NoteEarly)

-----------------------------------------------------------------------------
(* Properties *)

\* A hart the device tree disables is woken like the others, before it is
\* known to be disabled, but never gets into the payload, whatever IPIs are
\* sent: boot_other_hart tests the mask behind entry_point.
DisabledNeverRun ==
  \A h \in Disabled : Booting(h) \/ pc[h] = "parked"

\* The events posted to a hart from the moment it has cleared its register
\* are not lost, and stay pending for it through the rest of its boot.
NoLostEventOnceCleared ==
  \A t \in Hart :
    mipi_pending[t] \ early[t] # {} =>
      \/ Noticed(t)
      \/ Stopped(t)
      \/ \E s \in Hart : pc[s] = "ring" /\ Reaches(s, t)

\* A remote fence that asked a hart which had cleared its register is
\* executed before the hart runs on - for one that was still booting, before
\* its first instruction in the payload.
FenceBeforeRunOnceCleared ==
  \A t \in Hart : due[t] \ early[t] # {} => pc[t] # "super"

\* Every hart that is not disabled comes to enter the payload: no order of
\* waking, clearing and publishing entry_point leaves one behind.
AllHartsStart ==
  \A h \in Hart \ Disabled : <>(~ Booting(h))

\* Hart h is in a call that asks no disabled hart.
Calling(h) ==
  /\ pc[h] \in Sending \cup Waiting
  /\ (mask[h] \cup todo[h]) \cap Disabled = {}

\* A call that asks no disabled hart returns, unless some hart is shutting the
\* machine down, also while harts are booting:
\* a caller may wait for a hart still on its way to hart_plic_init, and
\* callers may wait for one another.
EnabledCallReturns ==
  \A h \in Hart : Calling(h) ~> pc[h] \notin Sending \cup Waiting \/ PoweringOff

=============================================================================
