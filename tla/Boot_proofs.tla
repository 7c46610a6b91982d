----------------------------- MODULE Boot_proofs ----------------------------
(***************************************************************************)
(* Proofs about Boot, for every set of harts and every set of disabled     *)
(* ones: what holds once a hart has cleared its ipi register, and that a   *)
(* disabled hart stays out of the payload.                                 *)
(*                                                                         *)
(* A step of Boot is one of a hart that starts, or one of Ipi by a hart    *)
(* that is past that.  The lemmas of Ipi_proofs say what the latter does   *)
(* and StartFrame what the former; each part of the invariant is that of   *)
(* Ipi with early events set apart.                                        *)
(***************************************************************************)
EXTENDS Boot, Ipi_proofs

USE DEF Fence, Event, Sending, Waiting

BootPlaces == {"reset", "mip", "wake", "plic", "filter", "entry", "spin"}
IpiPlaces == Sending \cup Waiting \cup
             {"super", "mret", "swap", "decode", "halted", "off"}

BootTypeOK ==
  /\ Shape
  /\ ssip \in [Hart -> {0, 1}]
  /\ calls \in [Hart -> Nat]
  /\ pc \in [Hart -> BootPlaces \cup IpiPlaces \cup {"parked"}]
  /\ disabled_hart_mask \in SUBSET Disabled
  /\ entry_point \in BOOLEAN
  /\ early \in [Hart -> SUBSET Event]

\* The first hart alone is in wake_harts, filter_harts or before entry_point,
\* and until it has set entry_point all harts are in boot code.
FirstAlone ==
  /\ \A h \in Hart \ {First} : pc[h] \notin {"wake", "filter", "entry"}
  /\ pc[First] \notin {"reset", "mip"}
  /\ ~ entry_point <=> pc[First] \in {"wake", "plic", "filter", "entry"}
  /\ ~ entry_point => \A h \in Hart : Booting(h)

\* filter_harts has disabled the harts it has passed, and all once it is done.
MaskFilled ==
  pc[First] \notin {"wake", "plic"} =>
    \A h \in Disabled : h \in disabled_hart_mask \/ (pc[First] = "filter" /\ h \in todo[First])

\* All events of a hart that has not cleared its register are early.
EarlyPending ==
  \A t \in Hart :
    /\ early[t] \subseteq mipi_pending[t]
    /\ Uncleared(t) => early[t] = mipi_pending[t]

\* Event e is early for t, or binds it as in Ipi.
BoundOrEarly(t, e) == Bound(t, e) \/ e \in early[t]

LatePendingNoticed ==
  \A t \in Hart : \A c \in mipi_pending[t] \ early[t] :
    Noticed(t) \/ Stopped(t) \/ \E s \in Hart : Ringing(s, t)

LateOwedOnItsWay ==
  \A s, t \in Hart : t \in owed[s] =>
    /\ event[s] \in Fence
    /\ pc[s] \in Sending \cup Waiting
    /\ OnItsWay(s, t) \/ event[s] \in early[t]

LateSeenClear ==
  \A s, t \in Hart :
    pc[s] \in Waiting /\ t \in owed[s] \ todo[s] => BoundOrEarly(t, event[s])

LateDueBinds == \A t \in Hart : \A e \in due[t] : BoundOrEarly(t, e)

BootInv ==
  /\ BootTypeOK
  /\ FirstAlone
  /\ MaskFilled
  /\ DisabledNeverRun
  /\ EarlyPending
  /\ LatePendingNoticed
  /\ LateOwedOnItsWay
  /\ OwedMasked
  /\ LateSeenClear
  /\ LateDueBinds

-----------------------------------------------------------------------------
(* What one step can do *)

LEMMA BootInitInv == BootInit => BootInv
<1> SUFFICES ASSUME BootInit
             PROVE  BootInv
  OBVIOUS
<1> USE FirstAssumption, DisabledAssumption
<1>1. Shape
  <2>1. pc = [h \in Hart |-> pc[h]]
    BY DEF BootInit
  <2> QED
    BY <2>1 DEF BootInit, Shape
<1>2. BootTypeOK
  BY <1>1 DEF BootInit, BootTypeOK, BootPlaces, IpiPlaces
<1>3. FirstAlone /\ MaskFilled /\ DisabledNeverRun
  BY DEF BootInit, FirstAlone, MaskFilled, DisabledNeverRun, Booting, Uncleared
<1>4. EarlyPending /\ LatePendingNoticed /\ LateOwedOnItsWay
  BY DEF BootInit, EarlyPending, LatePendingNoticed, LateOwedOnItsWay
<1>5. OwedMasked /\ LateSeenClear /\ LateDueBinds
  BY DEF BootInit, OwedMasked, LateSeenClear, LateDueBinds
<1> QED
  BY <1>2, <1>3, <1>4, <1>5 DEF BootInv

\* A step is one of a hart that starts, or one of Ipi.
LEMMA StepCases ==
  ASSUME [BootNext]_allvars
  PROVE  \/ /\ \E h \in Hart : Start(h)
            /\ NoteEarly
         \/ /\ \E h \in Hart : Monitor(h) \/ Supervisor(h)
            /\ UNCHANGED bootvars
            /\ NoteEarly
         \/ UNCHANGED allvars
  BY DEF BootNext

\* A hart that starts moves itself alone, within boot code or out of it, and of
\* what Ipi keeps it changes ipi, raising it or clearing its own.
LEMMA StartFrame ==
  ASSUME BootTypeOK, FirstAlone, NEW h \in Hart, Start(h)
  PROVE  /\ UNCHANGED ipivars
         /\ Booting(h)
         /\ Booting(h)' \/ (entry_point /\ pc'[h] \in {"mret", "parked"})
         /\ Uncleared(h)' => Uncleared(h)
         /\ \A u \in Hart \ {h} : pc'[u] = pc[u] /\ todo'[u] = todo[u]
         /\ \A u \in Hart : ipi'[u] \in {ipi[u], 1} \/ (u = h /\ Uncleared(u))
  BY FirstAssumption
  DEF BootTypeOK, Shape, FirstAlone, BootPlaces, Booting, Uncleared, Start,
      PassMask, TestMip, HartPlicInit, BootOtherHart, Wake, Filter, WakeEnd,
      FilterEnd, SetEntryPoint, ipivars, bootvars

\* A step of Ipi is not one of a hart in boot code.
LEMMA IpiFrame ==
  ASSUME BootTypeOK, NEW h \in Hart, Monitor(h) \/ Supervisor(h)
  PROVE  /\ ~ Booting(h) /\ pc[h] # "parked"
         /\ pc' \in [Hart -> BootPlaces \cup IpiPlaces \cup {"parked"}]
         /\ pc'[h] \in IpiPlaces
         /\ \A u \in Hart \ {h} : pc'[u] = pc[u] /\ todo'[u] = todo[u]
  BY DEF BootTypeOK, Shape, BootPlaces, IpiPlaces, Booting, Uncleared,
     Monitor, Supervisor, Post, Ring,
     PollClear, PollSet, ReturnSoft, BeginWait, ConsumeOwn, Restore, Settle,
     Resume, TakeIpi, SwapPending, Decode, ClearIpi, SendIpi, Shutdown, Enter

LEMMA ShapeStep ==
  ASSUME Shape, [Next]_vars
  PROVE  Shape'
  BY RequestAssumption
  DEF Shape, Next, vars, Monitor, Supervisor, Post, Ring,
     PollClear, PollSet, ReturnSoft, BeginWait, ConsumeOwn, Restore, Settle,
     Resume, TakeIpi, SwapPending, Decode, ClearIpi, SendIpi, Shutdown, Enter

-----------------------------------------------------------------------------
(* Every step keeps the invariant, one part at a time *)

LEMMA BootTypeStep ==
  ASSUME BootInv, [BootNext]_allvars
  PROVE  BootTypeOK'
<1> USE DEF BootInv
<1>1. CASE UNCHANGED allvars
  <2>1. Shape'
    BY <1>1, ShapeStep DEF BootTypeOK, allvars
  <2> QED
    BY <1>1, <2>1 DEF BootTypeOK, allvars, vars, bootvars
<1>2. CASE NoteEarly /\ \E h \in Hart : Start(h)
  <2>1. PICK h \in Hart : Start(h)
    BY <1>2
  <2>0. /\ pc \in [Hart -> BootPlaces \cup IpiPlaces \cup {"parked"}]
        /\ ipi \in [Hart -> {0, 1}]
        /\ todo \in [Hart -> SUBSET Hart]
        /\ disabled_hart_mask \in SUBSET Disabled
        /\ entry_point \in BOOLEAN
    BY DEF BootTypeOK, Shape
  <2>2. pc' \in [Hart -> BootPlaces \cup IpiPlaces \cup {"parked"}]
    BY <2>0, <2>1, FirstAssumption
    DEF BootPlaces, IpiPlaces, Start, PassMask, TestMip, HartPlicInit,
        BootOtherHart, Wake, Filter, WakeEnd, FilterEnd, SetEntryPoint
  <2>6. ipi' \in [Hart -> {0, 1}] /\ todo' \in [Hart -> SUBSET Hart]
    BY <2>0, <2>1, FirstAssumption
    DEF Start, PassMask, TestMip, HartPlicInit,
        BootOtherHart, Wake, Filter, WakeEnd, FilterEnd, SetEntryPoint
  <2>7. /\ disabled_hart_mask' \in SUBSET Disabled
        /\ entry_point' \in BOOLEAN
        /\ UNCHANGED ipivars
    BY <2>0, <2>1
    DEF Start, PassMask, TestMip, HartPlicInit, BootOtherHart, Wake, Filter,
        WakeEnd, FilterEnd, SetEntryPoint, ipivars, bootvars
  <2>3. pc' = [u \in Hart |-> pc'[u]]
    BY <2>2
  <2>4. Shape'
    BY <2>3, <2>6, <2>7 DEF BootTypeOK, Shape, ipivars
  <2>5. early' \in [Hart -> SUBSET Event]
    BY <1>2, <2>4 DEF BootTypeOK, NoteEarly, Shape
  <2> QED
    BY <2>2, <2>4, <2>5, <2>7 DEF BootTypeOK, ipivars
<1>3. CASE /\ \E h \in Hart : Monitor(h) \/ Supervisor(h)
           /\ UNCHANGED bootvars
           /\ NoteEarly
  <2>1. PICK h \in Hart : Monitor(h) \/ Supervisor(h)
    BY <1>3
  <2>2. Shape'
    BY <2>1, ShapeStep DEF BootTypeOK, Next
  <2>3. pc' \in [Hart -> BootPlaces \cup IpiPlaces \cup {"parked"}]
    BY <2>1, IpiFrame
  <2>4. ssip' \in [Hart -> {0, 1}] /\ calls' \in [Hart -> Nat]
    BY <2>1
    DEF BootTypeOK, Monitor, Supervisor, Post, Ring,
     PollClear, PollSet, ReturnSoft, BeginWait, ConsumeOwn, Restore, Settle,
     Resume, TakeIpi, SwapPending, Decode, ClearIpi, SendIpi, Shutdown, Enter
  <2>5. early' \in [Hart -> SUBSET Event]
    BY <1>3, <2>2 DEF BootTypeOK, NoteEarly, Shape
  <2> QED
    BY <1>3, <2>2, <2>3, <2>4, <2>5 DEF BootTypeOK, bootvars
<1> QED
  BY <1>1, <1>2, <1>3, StepCases

LEMMA FirstAloneStep ==
  ASSUME BootInv, [BootNext]_allvars
  PROVE  FirstAlone' /\ MaskFilled' /\ DisabledNeverRun'
<1> USE FirstAssumption, DisabledAssumption DEF BootInv
<1>1. CASE UNCHANGED allvars
  BY <1>1 DEF FirstAlone, MaskFilled, DisabledNeverRun, Booting, Uncleared,
     allvars, vars, bootvars
<1>2. CASE \E h \in Hart : Start(h)
  <2>1. PICK h \in Hart : Start(h)
    BY <1>2
  <2>2. /\ \A u \in Hart \ {First} : pc'[u] \notin {"wake", "filter", "entry"}
        /\ pc'[First] \notin {"reset", "mip"}
        /\ ~ entry_point' <=> pc'[First] \in {"wake", "plic", "filter", "entry"}
    BY <2>1
    DEF BootTypeOK, FirstAlone, Start, PassMask, TestMip, HartPlicInit,
        BootOtherHart, Wake, Filter, WakeEnd, FilterEnd, SetEntryPoint,
        ipivars, bootvars, Booting, Uncleared
  <2>3. ~ entry_point' => ~ entry_point
    BY <2>1
    DEF Start, PassMask, TestMip, HartPlicInit,
        BootOtherHart, Wake, Filter, WakeEnd, FilterEnd, SetEntryPoint, bootvars
  <2>4. ~ entry_point' => \A u \in Hart : Booting(u)'
    BY <2>1, <2>3, StartFrame DEF FirstAlone, Booting, Uncleared
  <2>5. MaskFilled'
    BY <2>1
    DEF BootTypeOK, Shape, FirstAlone, MaskFilled, Start, PassMask, TestMip,
        HartPlicInit, BootOtherHart, Wake, Filter, WakeEnd, FilterEnd,
        SetEntryPoint, ipivars, bootvars
  <2>6. ASSUME NEW u \in Disabled
        PROVE  Booting(u)' \/ pc'[u] = "parked"
    <3>1. CASE u # h
      BY <2>1, <3>1, StartFrame DEF DisabledNeverRun, Booting, Uncleared
    <3>2. CASE u = h /\ BootOtherHart(h)
      <4>1. h \in disabled_hart_mask
        BY <3>2 DEF BootOtherHart, MaskFilled, FirstAlone
      <4> QED
        BY <3>2, <4>1 DEF BootOtherHart, BootTypeOK
    <3>3. CASE u = h /\ ~ BootOtherHart(h)
      BY <2>1, <3>3
      DEF BootTypeOK, Start, PassMask, TestMip, HartPlicInit, Wake, Filter,
          WakeEnd, FilterEnd, SetEntryPoint, Booting, Uncleared
    <3> QED
      BY <3>1, <3>2, <3>3
  <2> QED
    BY <2>2, <2>4, <2>5, <2>6 DEF FirstAlone, DisabledNeverRun
<1>3. CASE /\ \E h \in Hart : Monitor(h) \/ Supervisor(h)
           /\ UNCHANGED bootvars
  <2>1. PICK h \in Hart : Monitor(h) \/ Supervisor(h)
    BY <1>3
  <2>2. /\ ~ Booting(h) /\ pc[h] # "parked"
        /\ pc'[h] \in IpiPlaces
        /\ \A u \in Hart \ {h} : pc'[u] = pc[u] /\ todo'[u] = todo[u]
    BY <2>1, IpiFrame
  <2>3. entry_point /\ entry_point' /\ disabled_hart_mask' = disabled_hart_mask
    BY <1>3, <2>2 DEF FirstAlone, bootvars, BootTypeOK
  <2>4. FirstAlone'
    BY <2>2, <2>3 DEF FirstAlone, IpiPlaces
  <2>5. MaskFilled'
    BY <2>2, <2>3 DEF MaskFilled, FirstAlone, IpiPlaces
  <2>6. DisabledNeverRun'
    BY <2>2 DEF DisabledNeverRun, Booting, Uncleared
  <2> QED
    BY <2>4, <2>5, <2>6
<1> QED
  BY <1>1, <1>2, <1>3, StepCases

\* What binds a hart, or is early for it, stays so over a step of boot code:
\* what hart_plic_init clears was early.
LEMMA StartKeeps ==
  ASSUME BootInv, NoteEarly, NEW h \in Hart, Start(h), NEW t \in Hart, NEW e
  PROVE  /\ BoundOrEarly(t, e) => BoundOrEarly(t, e)'
         /\ Noticed(t) /\ ~ Uncleared(t) => Noticed(t)'
         /\ Stopped(t) => Stopped(t)'
         /\ e \in mipi_pending[t] /\ (Uncleared(t) \/ e \in early[t]) => e \in early'[t]
<1> USE DEF BootInv
<1>1. /\ UNCHANGED ipivars
      /\ Booting(h)
      /\ pc'[h] # "super"
      /\ t # h => pc'[t] = pc[t]
      /\ ~ Uncleared(t) => ipi'[t] \in {ipi[t], 1}
  BY StartFrame DEF Booting, Uncleared
<1>2. e \in mipi_pending[t] /\ (Uncleared(t) \/ e \in early[t]) => e \in early'[t]
  BY <1>1 DEF NoteEarly, ipivars
<1>3. Stopped(t) => Stopped(t)'
  BY <1>1 DEF Stopped, Booting, Uncleared
<1>4. Noticed(t) /\ ~ Uncleared(t) => Noticed(t)'
  BY <1>1 DEF Noticed, Booting, Uncleared, ipivars
<1>5. e \in early[t] => e \in mipi_pending[t]
  BY DEF EarlyPending
<1>6. ASSUME Bound(t, e)
      PROVE  BoundOrEarly(t, e)'
  <2>1. CASE pc[t] = "decode" /\ e \in cause[t]
    BY <1>1, <2>1 DEF BoundOrEarly, Bound, Booting, Uncleared, ipivars
  <2>2. CASE pc[t] # "super" /\ e \in mipi_pending[t] /\ Noticed(t)
    BY <1>1, <1>2, <1>4, <2>2 DEF BoundOrEarly, Bound, ipivars
  <2> QED
    BY <1>3, <1>6, <2>1, <2>2 DEF BoundOrEarly, Bound
<1> QED
  BY <1>2, <1>3, <1>4, <1>5, <1>6 DEF BoundOrEarly

\* A sender about to ring t is past its boot.
LEMMA StartRinging ==
  ASSUME BootInv, NEW h \in Hart, Start(h), NEW s \in Hart, NEW t \in Hart,
         Ringing(s, t)
  PROVE  Ringing(s, t)'
  BY StartFrame DEF BootInv, Ringing, Reaches, Booting, Uncleared

\* The same over a step of Ipi, until the hart acts on the event.
LEMMA IpiKeeps ==
  ASSUME BootInv, NoteEarly, [Next]_vars, NEW t \in Hart, NEW e \in Event,
         BoundOrEarly(t, e), ~ (Decode(t) /\ e \in cause[t])
  PROVE  BoundOrEarly(t, e)'
<1> USE DEF BootInv
<1> Shape
  BY DEF BootTypeOK
<1>1. CASE Bound(t, e)
  BY <1>1, BoundStep DEF BoundOrEarly
<1>2. CASE e \in early[t]
  <2>1. e \in mipi_pending[t]
    BY <1>2 DEF EarlyPending
  <2>2. CASE SwapPending(t)
    BY <2>1, <2>2, SwapStep DEF BoundOrEarly, Bound
  <2>3. CASE ~ SwapPending(t)
    <3>1. e \in mipi_pending'[t]
      BY <2>1, <2>3, KeepStep
    <3> QED
      BY <1>2, <3>1 DEF NoteEarly, BoundOrEarly
  <2> QED
    BY <2>2, <2>3
<1> QED
  BY <1>1, <1>2 DEF BoundOrEarly

LEMMA EarlyPendingStep ==
  ASSUME BootInv, [BootNext]_allvars
  PROVE  EarlyPending'
<1> USE DEF BootInv
<1>1. CASE UNCHANGED allvars
  BY <1>1 DEF EarlyPending, Uncleared, allvars, vars
<1>2. CASE NoteEarly
  <2>1. ASSUME NEW t \in Hart, ~ UNCHANGED allvars
        PROVE  Uncleared(t)' => Uncleared(t)
    <3>1. CASE \E h \in Hart : Start(h)
      BY <3>1, StartFrame DEF Uncleared
    <3>2. CASE \E h \in Hart : Monitor(h) \/ Supervisor(h)
      BY <3>2, IpiFrame DEF Uncleared, IpiPlaces
    <3> QED
      BY <2>1, <3>1, <3>2, StepCases
  <2>2. \A t \in Hart : early'[t] \subseteq mipi_pending'[t]
    BY <1>2 DEF NoteEarly
  <2>3. \A t \in Hart : Uncleared(t) => early'[t] = mipi_pending'[t]
    BY <1>2 DEF NoteEarly
  <2> QED
    BY <1>1, <2>1, <2>2, <2>3 DEF EarlyPending
<1> QED
  BY <1>1, <1>2, StepCases

\* A step that leaves everything alone.
LEMMA BootStutter ==
  ASSUME BootInv, UNCHANGED allvars
  PROVE  LatePendingNoticed' /\ LateOwedOnItsWay' /\ LateSeenClear' /\ LateDueBinds'
         /\ OwedMasked'
  BY DEF BootInv, LatePendingNoticed, LateOwedOnItsWay, LateSeenClear,
     LateDueBinds, OwedMasked, BoundOrEarly, Bound, OnItsWay, Noticed, Stopped,
     Ringing, Reaches, allvars, vars

\* The step is one of Ipi.
IpiStep == Next /\ NoteEarly

LEMMA StepOfThree ==
  ASSUME [BootNext]_allvars
  PROVE  \/ UNCHANGED allvars
         \/ IpiStep
         \/ NoteEarly /\ \E h \in Hart : Start(h)
  BY StepCases DEF IpiStep, Next

LEMMA LatePendingStep ==
  ASSUME BootInv, [BootNext]_allvars
  PROVE  LatePendingNoticed'
<1> USE DEF BootInv
<1> Shape
  BY DEF BootTypeOK
<1> SUFFICES ASSUME NoteEarly,
                    NEW t \in Hart, NEW c \in mipi_pending'[t] \ early'[t],
                    ~ Noticed(t)', ~ Stopped(t)'
             PROVE  \E s \in Hart : Ringing(s, t)'
  BY BootStutter, StepOfThree DEF LatePendingNoticed, IpiStep
<1>1. ~ Uncleared(t) /\ c \notin early[t]
  BY DEF NoteEarly
<1>2. CASE \E h \in Hart : Start(h)
  <2>1. PICK h \in Hart : Start(h)
    BY <1>2
  <2>2. c \in mipi_pending[t]
    BY <2>1, StartFrame DEF ipivars
  <2>3. PICK s \in Hart : Ringing(s, t)
    BY <1>1, <2>1, <2>2, StartKeeps DEF LatePendingNoticed
  <2> QED
    BY <2>1, <2>3, StartRinging
<1>3. CASE Next /\ \E s \in Hart : Posts(s, t)
  BY <1>3, PostStep
<1>4. CASE Next /\ ~ \E s \in Hart : Posts(s, t)
  <2>1. c \in mipi_pending[t]
    BY <1>4, PendingStep
  <2>2. ~ SwapPending(t)
    BY SwapStep
  <2>3. PICK s \in Hart : Ringing(s, t)
    BY <1>1, <1>4, <2>1, <2>2, NoticedStep, StoppedStep DEF LatePendingNoticed
  <2> QED
    BY <1>4, <2>3, RingingStep
<1> QED
  BY <1>2, <1>3, <1>4, StepOfThree, BootStutter DEF IpiStep, LatePendingNoticed

LEMMA LateOwedStep ==
  ASSUME BootInv, [BootNext]_allvars
  PROVE  LateOwedOnItsWay'
<1> USE DEF BootInv, OnItsWay
<1> Shape
  BY DEF BootTypeOK
<1>1. CASE UNCHANGED allvars
  BY <1>1, BootStutter
<1> SUFFICES ASSUME NoteEarly, ~ UNCHANGED allvars,
                    NEW s \in Hart, NEW t \in Hart, t \in owed'[s]
             PROVE  /\ event'[s] \in Fence
                    /\ pc'[s] \in Sending \cup Waiting
                    /\ OnItsWay(s, t)' \/ event'[s] \in early'[t]
  BY <1>1, StepOfThree DEF LateOwedOnItsWay, IpiStep
<1>2. CASE \E h \in Hart : Start(h)
  <2>1. PICK h \in Hart : Start(h)
    BY <1>2
  <2>2. UNCHANGED ipivars /\ t \in owed[s]
    BY <2>1, StartFrame DEF ipivars
  <2>3. /\ event[s] \in Fence
        /\ pc[s] \in Sending \cup Waiting
        /\ OnItsWay(s, t) \/ event[s] \in early[t]
    BY <2>2 DEF LateOwedOnItsWay
  <2>4. event'[s] = event[s] /\ pc'[s] = pc[s]
    BY <2>1, <2>2, <2>3, StartFrame DEF ipivars, Booting, Uncleared
  <2> SUFFICES OnItsWay(s, t)' \/ event'[s] \in early'[t]
    BY <2>3, <2>4
  <2>5. CASE event[s] \in mipi_pending[t] /\ (Noticed(t) \/ Ringing(s, t))
    BY <2>1, <2>2, <2>4, <2>5, StartKeeps, StartRinging DEF ipivars
  <2>6. CASE pc[t] = "decode" /\ event[s] \in cause[t]
    BY <2>1, <2>2, <2>4, <2>6, StartFrame DEF ipivars, Booting, Uncleared
  <2>7. CASE Stopped(t)
    BY <2>1, <2>7, StartKeeps
  <2>8. CASE event[s] \in early[t]
    BY <2>1, <2>4, <2>8, StartKeeps DEF EarlyPending
  <2> QED
    BY <2>3, <2>5, <2>6, <2>7, <2>8
<1>3. CASE Next /\ Posts(s, t)
  <2>1. event[s] \in Fence
    BY <1>3, PostStep DEF LateOwedOnItsWay
  <2> QED
    BY <1>3, <2>1, PostStep DEF Ringing
<1>4. CASE Next /\ ~ Posts(s, t)
  <2>1. t \in owed[s]
    BY <1>4, OwedStep
  <2>2. /\ event'[s] = event[s]
        /\ pc'[s] \in Sending \cup Waiting
        /\ ~ (Decode(t) /\ event[s] \in cause[t])
    BY <1>4, <2>1, StillOwedStep DEF LateOwedOnItsWay
  <2>3. /\ event[s] \in Fence
        /\ OnItsWay(s, t) \/ event[s] \in early[t]
    BY <2>1 DEF LateOwedOnItsWay
  <2> SUFFICES OnItsWay(s, t)' \/ event'[s] \in early'[t]
    BY <2>2, <2>3
  <2>4. CASE Ringing(s, t) /\ event[s] \in mipi_pending[t]
    <3>1. CASE SwapPending(t)
      BY <2>2, <2>4, <3>1, SwapStep
    <3>2. CASE ~ SwapPending(t)
      <4>1. event[s] \in mipi_pending'[t]
        BY <1>4, <2>4, <3>2, KeepStep
      <4> QED
        BY <1>4, <2>2, <2>4, <4>1, RingingStep
    <3> QED
      BY <3>1, <3>2
  <2>5. CASE Noticed(t) /\ event[s] \in mipi_pending[t]
    <3>1. CASE SwapPending(t)
      BY <2>2, <2>5, <3>1, SwapStep
    <3>2. CASE ~ SwapPending(t)
      <4>1. event[s] \in mipi_pending'[t]
        BY <1>4, <2>5, <3>2, KeepStep
      <4> QED
        BY <1>4, <2>2, <2>5, <3>2, <4>1, NoticedStep
    <3> QED
      BY <3>1, <3>2
  <2>6. CASE (pc[t] = "decode" /\ event[s] \in cause[t]) \/ Stopped(t)
    BY <1>4, <2>2, <2>6, DecodingStep, StoppedStep
  <2>7. CASE event[s] \in early[t]
    <3>1. BoundOrEarly(t, event[s])'
      BY <1>4, <2>2, <2>3, <2>7, IpiKeeps DEF BoundOrEarly
    <3> QED
      BY <2>2, <3>1 DEF BoundOrEarly, Bound
  <2> QED
    BY <2>3, <2>4, <2>5, <2>6, <2>7
<1> QED
  BY <1>2, <1>3, <1>4, StepOfThree DEF IpiStep

LEMMA BootOwedMaskedStep ==
  ASSUME BootInv, [BootNext]_allvars
  PROVE  OwedMasked'
<1> USE DEF BootInv
<1> Shape
  BY DEF BootTypeOK
<1>1. CASE UNCHANGED allvars
  BY <1>1, BootStutter
<1>2. CASE \E h \in Hart : Start(h)
  <2>1. PICK h \in Hart : Start(h)
    BY <1>2
  <2>2. ASSUME NEW s \in Hart, pc'[s] \in Sending
        PROVE  owed'[s] \subseteq mask'[s] /\ todo'[s] \subseteq mask'[s]
    BY <2>1, <2>2, StartFrame DEF OwedMasked, ipivars, Booting, Uncleared
  <2> QED
    BY <2>2 DEF OwedMasked
<1>3. CASE Next
  BY <1>3
  DEF Shape, LateOwedOnItsWay, OwedMasked, Reaches, Next, Monitor, Supervisor,
     Post, Ring,
     PollClear, PollSet, ReturnSoft, BeginWait, ConsumeOwn, Restore, Settle,
     Resume, TakeIpi, SwapPending, Decode, ClearIpi, SendIpi, Shutdown, Enter
<1> QED
  BY <1>1, <1>2, <1>3, StepOfThree DEF IpiStep

LEMMA LateSeenStep ==
  ASSUME BootInv, [BootNext]_allvars
  PROVE  LateSeenClear'
<1> USE DEF BootInv
<1> Shape
  BY DEF BootTypeOK
<1>1. CASE UNCHANGED allvars
  BY <1>1, BootStutter
<1> SUFFICES ASSUME NoteEarly, ~ UNCHANGED allvars,
                    NEW s \in Hart, NEW t \in Hart, pc'[s] \in Waiting,
                    t \in owed'[s], t \notin todo'[s]
             PROVE  BoundOrEarly(t, event[s])'
  BY <1>1, StepOfThree DEF LateSeenClear, IpiStep
<1>2. CASE \E h \in Hart : Start(h)
  <2>1. PICK h \in Hart : Start(h)
    BY <1>2
  <2>2. /\ pc'[s] = pc[s] /\ todo'[s] = todo[s]
        /\ owed'[s] = owed[s] /\ event'[s] = event[s]
    BY <2>1, StartFrame DEF ipivars, Booting, Uncleared
  <2>3. BoundOrEarly(t, event[s])
    BY <2>2 DEF LateSeenClear
  <2> QED
    BY <2>1, <2>2, <2>3, StartKeeps DEF BoundOrEarly
<1>3. CASE Next
  <2>1. ~ Posts(s, t)
    BY DEF Posts, Post, Shape
  <2>2. t \in owed[s]
    BY <1>3, <2>1, OwedStep
  <2>3. /\ event'[s] = event[s]
        /\ ~ (Decode(t) /\ event[s] \in cause[t])
    BY <1>3, <2>2, StillOwedStep DEF LateOwedOnItsWay
  <2>4. event[s] \in Event
    BY DEF Shape
  <2> SUFFICES BoundOrEarly(t, event[s])
    BY <1>3, <2>3, <2>4, IpiKeeps DEF BoundOrEarly
  <2>5. CASE PollClear(s, t)
    <3>1. ~ Ringing(s, t) /\ ipi[t] = 0
      BY <2>5 DEF PollClear, Ringing
    <3> QED
      BY <2>2, <3>1 DEF LateOwedOnItsWay, OnItsWay, BoundOrEarly, Bound, Noticed
  <2>6. CASE ~ PollClear(s, t)
    <3>1. pc[s] \in Waiting /\ t \notin todo[s]
      BY <1>3, <2>2, <2>6 DEF Shape, OwedMasked, LateOwedOnItsWay,
     Next, Monitor, Supervisor, Post, Ring,
     PollClear, PollSet, ReturnSoft, BeginWait, ConsumeOwn, Restore, Settle,
     Resume, TakeIpi, SwapPending, Decode, ClearIpi, SendIpi, Shutdown, Enter
    <3> QED
      BY <2>2, <3>1 DEF LateSeenClear
  <2> QED
    BY <2>5, <2>6
<1> QED
  BY <1>2, <1>3, StepOfThree DEF IpiStep

LEMMA LateDueStep ==
  ASSUME BootInv, [BootNext]_allvars
  PROVE  LateDueBinds'
<1> USE DEF BootInv
<1> Shape
  BY DEF BootTypeOK
<1>1. CASE UNCHANGED allvars
  BY <1>1, BootStutter
<1> SUFFICES ASSUME NoteEarly, ~ UNCHANGED allvars,
                    NEW t \in Hart, NEW e \in due'[t]
             PROVE  BoundOrEarly(t, e)'
  BY <1>1, StepOfThree DEF LateDueBinds, IpiStep
<1>2. CASE \E h \in Hart : Start(h)
  <2>1. PICK h \in Hart : Start(h)
    BY <1>2
  <2>2. e \in due[t]
    BY <2>1, StartFrame DEF ipivars
  <2> QED
    BY <2>1, <2>2, StartKeeps DEF LateDueBinds
<1>3. CASE Next
  <2>1. /\ e \in Event
        /\ ~ (Decode(t) /\ e \in cause[t])
        /\ e \in due[t] \/ \E s \in Hart : Restore(s) /\ t \in owed[s] /\ e = event[s]
    BY <1>3 DEF Shape, Next, Monitor, Supervisor, Post, Ring,
     PollClear, PollSet, ReturnSoft, BeginWait, ConsumeOwn, Restore, Settle,
     Resume, TakeIpi, SwapPending, Decode, ClearIpi, SendIpi, Shutdown, Enter
  <2>2. BoundOrEarly(t, e)
    BY <2>1 DEF LateDueBinds, LateSeenClear, Restore
  <2> QED
    BY <1>3, <2>1, <2>2, IpiKeeps
<1> QED
  BY <1>2, <1>3, StepOfThree DEF IpiStep

LEMMA BootInvStep == BootInv /\ [BootNext]_allvars => BootInv'
  BY BootTypeStep, FirstAloneStep, EarlyPendingStep, LatePendingStep,
     LateOwedStep, BootOwedMaskedStep, LateSeenStep, LateDueStep
  DEF BootInv

\* The invariant of the boot: the first hart alone is ahead, early events are
\* set apart, and what is late obeys the invariant of Ipi.
THEOREM BootInvariance == BootSpec => []BootInv
  BY BootInitInv, BootInvStep, PTL DEF BootSpec

-----------------------------------------------------------------------------
(* The theorems *)

\* A hart of disabled_hart_mask never enters the payload, in whatever order the
\* harts start, wake_harts reaches them and filter_harts masks them.
THEOREM DisabledStayOut == BootSpec => []DisabledNeverRun
<1>1. BootInv => DisabledNeverRun
  BY DEF BootInv
<1> QED
  BY <1>1, BootInvariance, PTL

\* Once a hart has run hart_plic_init no event posted to it is lost, although
\* it has not entered the payload and takes no interrupt yet.
THEOREM EventsNoticedOnceCleared == BootSpec => []NoLostEventOnceCleared
<1>1. BootInv => NoLostEventOnceCleared
  BY DEF BootInv, LatePendingNoticed, NoLostEventOnceCleared, Ringing
<1> QED
  BY <1>1, BootInvariance, PTL

\* A remote fence posted to a hart that had cleared its register is executed
\* before that hart's next, or first, instruction in the payload.
THEOREM FencesPrecedeRunOnceCleared == BootSpec => []FenceBeforeRunOnceCleared
<1>1. BootInv => FenceBeforeRunOnceCleared
  BY DEF BootInv, LateDueBinds, BoundOrEarly, Bound, FenceBeforeRunOnceCleared, Stopped
<1> QED
  BY <1>1, BootInvariance, PTL
=============================================================================
