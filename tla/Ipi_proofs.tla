----------------------------- MODULE Ipi_proofs -----------------------------
(***************************************************************************)
(* Proofs about Ipi, for every set of harts, every disabled_hart_mask and  *)
(* every number of calls: type correctness, NoLostEvent and FenceBeforeRun.*)
(***************************************************************************)
EXTENDS Ipi, TLAPS

\* What the lemmas about steps need of the types, whatever places a hart can be at.
Shape ==
  /\ ipi \in [Hart -> {0, 1}]
  /\ mipi_pending \in [Hart -> SUBSET Event]
  /\ pc = [h \in Hart |-> pc[h]]
  /\ event \in [Hart -> Event]
  /\ mask \in [Hart -> SUBSET Hart]
  /\ todo \in [Hart -> SUBSET Hart]
  /\ incoming_ipi \in [Hart -> {0, 1}]
  /\ cause \in [Hart -> SUBSET Event]
  /\ owed \in [Hart -> SUBSET Hart]
  /\ due \in [Hart -> SUBSET Event]

\* s has posted to t and is about to ring it.
Ringing(s, t) == pc[s] = "ring" /\ Reaches(s, t)

\* s posts to t, which is enabled.
Posts(s, t) == Post(s, t) /\ t \notin Disabled

\* Hart t will not run its supervisor again before it has acted on e.
Bound(t, e) ==
  \/ Stopped(t)
  \/ pc[t] = "decode" /\ e \in cause[t]
  \/ pc[t] # "super" /\ e \in mipi_pending[t] /\ Noticed(t)

\* Every posted event is, or is about to be, noticed.
PendingNoticed ==
  \A t \in Hart : mipi_pending[t] # {} =>
    Noticed(t) \/ Stopped(t) \/ \E s \in Hart : Ringing(s, t)

\* What s posted to t is raised or about to be, or t is acting on it.
OnItsWay(s, t) ==
  \/ event[s] \in mipi_pending[t] /\ (Noticed(t) \/ Ringing(s, t))
  \/ pc[t] = "decode" /\ event[s] \in cause[t]
  \/ Stopped(t)

\* A fence still owed to s by t is on its way to t.
OwedOnItsWay ==
  \A s, t \in Hart : t \in owed[s] =>
    /\ event[s] \in Fence
    /\ pc[s] \in Sending \cup Waiting
    /\ OnItsWay(s, t)

\* A call owes only what its mask names.
OwedMasked ==
  \A s \in Hart : pc[s] \in Sending =>
    owed[s] \subseteq mask[s] /\ todo[s] \subseteq mask[s]

\* Once s has seen the ipi register of t clear, t can no longer slip away.
SeenClear ==
  \A s, t \in Hart :
    pc[s] \in Waiting /\ t \in owed[s] \ todo[s] => Bound(t, event[s])

\* A fence that is due binds its hart.
DueBinds == \A t \in Hart : \A e \in due[t] : Bound(t, e)

IInv ==
  /\ TypeOK
  /\ PendingNoticed
  /\ OwedOnItsWay
  /\ OwedMasked
  /\ SeenClear
  /\ DueBinds

USE DEF Fence, Event, Sending, Waiting

-----------------------------------------------------------------------------
(* What one step can do to each part of the state *)

LEMMA InitInv == Init => IInv
  BY DisabledAssumption
     DEF Init, IInv, TypeOK, PendingNoticed, OwedOnItsWay, OwedMasked,
         SeenClear, DueBinds

LEMMA TypeStep == TypeOK /\ [Next]_vars => TypeOK'
  BY RequestAssumption
  DEF TypeOK, Next, vars, Monitor, Supervisor, Post, Ring,
     PollClear, PollSet, ReturnSoft, BeginWait, ConsumeOwn, Restore, Settle,
     Resume, TakeIpi, SwapPending, Decode, ClearIpi, SendIpi, Shutdown, Enter

LEMMA TypeShape == TypeOK => Shape
  BY DEF TypeOK, Shape

\* A new event in mipi_pending was posted by this step.
LEMMA PendingStep ==
  ASSUME Shape, [Next]_vars, NEW u \in Hart, NEW c \in mipi_pending'[u]
  PROVE  c \in mipi_pending[u] \/ \E s \in Hart : Posts(s, u) /\ c = event[s]
  BY DEF Shape, Next, vars, Monitor, Supervisor, Posts, Post, Ring,
     PollClear, PollSet, ReturnSoft, BeginWait, ConsumeOwn, Restore, Settle,
     Resume, TakeIpi, SwapPending, Decode, ClearIpi, SendIpi, Shutdown, Enter

\* Only the hart's own swap takes an event out of it.
LEMMA KeepStep ==
  ASSUME Shape, [Next]_vars, NEW u \in Hart, NEW c \in mipi_pending[u]
  PROVE  c \in mipi_pending'[u] \/ SwapPending(u)
  BY DEF Shape, Next, vars, Monitor, Supervisor, Post, Ring,
     PollClear, PollSet, ReturnSoft, BeginWait, ConsumeOwn, Restore, Settle,
     Resume, TakeIpi, SwapPending, Decode, ClearIpi, SendIpi, Shutdown, Enter

LEMMA SwapStep ==
  ASSUME Shape, NEW u \in Hart, SwapPending(u)
  PROVE  /\ mipi_pending'[u] = {}
         /\ cause'[u] = mipi_pending[u]
         /\ pc'[u] = "decode"
  BY DEF Shape, SwapPending

LEMMA PostStep ==
  ASSUME Shape, NEW s \in Hart, NEW u \in Hart, Posts(s, u)
  PROVE  /\ Ringing(s, u)'
         /\ event' = event
         /\ event[s] \in mipi_pending'[u]
         /\ event[s] \notin Fence => owed' = owed
<1>1. /\ todo' = todo
      /\ event' = event
      /\ event[s] \in mipi_pending'[u]
  BY DEF Shape, Posts, Post
<1>2. pc'[s] = "ring"
  BY DEF Shape, Posts, Post
<1>4. Ringing(s, u)'
  BY <1>1, <1>2 DEF Posts, Post, Ringing, Reaches
<1>3. event[s] \notin Fence => owed' = owed
  BY DEF Shape, Posts, Post
<1> QED
  BY <1>1, <1>3, <1>4

LEMMA StoppedStep ==
  ASSUME Shape, [Next]_vars, NEW u \in Hart, Stopped(u)
  PROVE  Stopped(u)'
  BY DEF Shape, Stopped, Next, vars, Monitor, Supervisor, Post, Ring,
     PollClear, PollSet, ReturnSoft, BeginWait, ConsumeOwn, Restore, Settle,
     Resume, TakeIpi, SwapPending, Decode, ClearIpi, SendIpi, Shutdown, Enter

LEMMA NoticedStep ==
  ASSUME Shape, [Next]_vars, NEW u \in Hart, Noticed(u)
  PROVE  Noticed(u)' \/ Stopped(u)' \/ SwapPending(u)
  BY DEF Shape, Noticed, Stopped, Next, vars, Monitor, Supervisor, Post, Ring,
     PollClear, PollSet, ReturnSoft, BeginWait, ConsumeOwn, Restore, Settle,
     Resume, TakeIpi, SwapPending, Decode, ClearIpi, SendIpi, Shutdown, Enter

LEMMA DecodingStep ==
  ASSUME Shape, [Next]_vars, NEW u \in Hart, NEW c \in cause[u],
         pc[u] = "decode"
  PROVE  (pc'[u] = "decode" /\ c \in cause'[u]) \/ Decode(u)
  BY DEF Shape, Next, vars, Monitor, Supervisor, Post, Ring,
     PollClear, PollSet, ReturnSoft, BeginWait, ConsumeOwn, Restore, Settle,
     Resume, TakeIpi, SwapPending, Decode, ClearIpi, SendIpi, Shutdown, Enter

\* The loops visit one target at a time.
LEMMA ReachesOne ==
  ASSUME NEW s \in Hart, NEW t \in Hart, NEW u \in Hart,
         Reaches(s, t), Reaches(s, u)
  PROVE  t = u
  BY HartAssumption DEF Reaches

\* A sender about to ring u still is, or has rung it.
LEMMA RingingStep ==
  ASSUME Shape, [Next]_vars, NEW s \in Hart, NEW u \in Hart, Ringing(s, u)
  PROVE  Ringing(s, u)' \/ Noticed(u)'
<1>1. CASE Ring(s, u)
  BY <1>1 DEF Shape, Ring, Noticed
<1>2. CASE ~ Ring(s, u)
  <2>1. \A t \in Hart : ~ Ring(s, t)
    BY <1>2, ReachesOne DEF Ring, Ringing
  <2>2. pc'[s] = pc[s] /\ todo'[s] = todo[s]
    BY <2>1 DEF Shape, Ringing, Next, vars, Monitor, Supervisor, Post, Ring,
     PollClear, PollSet, ReturnSoft, BeginWait, ConsumeOwn, Restore, Settle,
     Resume, TakeIpi, SwapPending, Decode, ClearIpi, SendIpi, Shutdown, Enter
  <2> QED
    BY <2>2 DEF Ringing, Reaches
<1> QED
  BY <1>1, <1>2

\* What is still owed after a step was owed before it or is posted by it.
LEMMA OwedStep ==
  ASSUME Shape, [Next]_vars, NEW s \in Hart, NEW u \in owed'[s],
         ~ Posts(s, u)
  PROVE  u \in owed[s]
  BY DEF Shape, Next, vars, Monitor, Supervisor, Posts, Post, Ring,
     PollClear, PollSet, ReturnSoft, BeginWait, ConsumeOwn, Restore, Settle,
     Resume, TakeIpi, SwapPending, Decode, ClearIpi, SendIpi, Shutdown, Enter

LEMMA StillOwedStep ==
  ASSUME Shape, [Next]_vars, NEW s \in Hart,
         event[s] \in Fence, pc[s] \in Sending \cup Waiting,
         NEW u \in owed[s], u \in owed'[s]
  PROVE  /\ event'[s] = event[s]
         /\ pc'[s] \in Sending \cup Waiting
         /\ ~ (Decode(u) /\ event[s] \in cause[u])
<1>1. event'[s] = event[s]
  BY DEF Shape, Next, vars, Monitor, Supervisor, Post, Ring,
     PollClear, PollSet, ReturnSoft, BeginWait, ConsumeOwn, Restore, Settle,
     Resume, TakeIpi, SwapPending, Decode, ClearIpi, SendIpi, Shutdown, Enter
<1>2. pc'[s] \in Sending \cup Waiting
  BY DEF Shape, Next, vars, Monitor, Supervisor, Post, Ring,
     PollClear, PollSet, ReturnSoft, BeginWait, ConsumeOwn, Restore, Settle,
     Resume, TakeIpi, SwapPending, Decode, ClearIpi, SendIpi, Shutdown, Enter
<1>3. ~ (Decode(u) /\ event[s] \in cause[u])
  BY DEF Shape, Decode
<1> QED
  BY <1>1, <1>2, <1>3

\* A hart bound to act on c stays bound until it does.
LEMMA BoundStep ==
  ASSUME Shape, [Next]_vars, NEW u \in Hart, NEW c \in Event, Bound(u, c),
         ~ (Decode(u) /\ c \in cause[u])
  PROVE  Bound(u, c)'
<1>1. CASE Stopped(u)
  BY <1>1, StoppedStep DEF Bound
<1>2. CASE pc[u] = "decode" /\ c \in cause[u]
  BY <1>2, DecodingStep DEF Bound
<1>3. CASE pc[u] # "super" /\ c \in mipi_pending[u] /\ Noticed(u)
  <2>1. CASE SwapPending(u)
    BY <1>3, <2>1, SwapStep DEF Bound
  <2>2. CASE ~ SwapPending(u)
    <3>1. c \in mipi_pending'[u]
      BY <1>3, <2>2, KeepStep
    <3>2. pc'[u] # "super"
      BY <1>3 DEF Shape, Noticed, Next, vars, Monitor, Supervisor, Post, Ring,
     PollClear, PollSet, ReturnSoft, BeginWait, ConsumeOwn, Restore, Settle,
     Resume, TakeIpi, SwapPending, Decode, ClearIpi, SendIpi, Shutdown, Enter
    <3> QED
      BY <1>3, <2>2, <3>1, <3>2, NoticedStep DEF Bound
  <2> QED
    BY <2>1, <2>2
<1> QED
  BY <1>1, <1>2, <1>3 DEF Bound

-----------------------------------------------------------------------------
(* Every step keeps the invariant, one conjunct at a time *)

LEMMA PendingNoticedStep ==
  ASSUME IInv, [Next]_vars
  PROVE  PendingNoticed'
<1> USE DEF IInv
<1> Shape
  BY TypeShape
<1> SUFFICES ASSUME NEW t \in Hart, NEW c \in mipi_pending'[t],
                    ~ Noticed(t)', ~ Stopped(t)'
             PROVE  \E s \in Hart : Ringing(s, t)'
  BY DEF PendingNoticed
<1>1. CASE \E s \in Hart : Posts(s, t)
  BY <1>1, PostStep
<1>2. CASE ~ \E s \in Hart : Posts(s, t)
  <2>1. c \in mipi_pending[t]
    BY <1>2, PendingStep
  <2>2. ~ SwapPending(t)
    BY SwapStep
  <2>3. PICK s \in Hart : Ringing(s, t)
    BY <2>1, <2>2, NoticedStep, StoppedStep DEF PendingNoticed
  <2> QED
    BY <2>3, RingingStep
<1> QED
  BY <1>1, <1>2

LEMMA OwedOnItsWayStep ==
  ASSUME IInv, [Next]_vars
  PROVE  OwedOnItsWay'
<1> USE DEF IInv, OnItsWay
<1> Shape
  BY TypeShape
<1> SUFFICES ASSUME NEW s \in Hart, NEW t \in Hart, t \in owed'[s]
             PROVE  /\ event'[s] \in Fence
                    /\ pc'[s] \in Sending \cup Waiting
                    /\ OnItsWay(s, t)'
  BY DEF OwedOnItsWay
<1>1. CASE Posts(s, t)
  <2>1. event[s] \in Fence
    BY <1>1, PostStep DEF OwedOnItsWay
  <2> QED
    BY <1>1, <2>1, PostStep DEF Ringing
<1>2. CASE ~ Posts(s, t)
  <2>1. t \in owed[s]
    BY <1>2, OwedStep
  <2>2. /\ event'[s] = event[s]
        /\ pc'[s] \in Sending \cup Waiting
        /\ ~ (Decode(t) /\ event[s] \in cause[t])
    BY <2>1, StillOwedStep DEF OwedOnItsWay
  <2>3. event[s] \in Fence /\ OnItsWay(s, t)
    BY <2>1 DEF OwedOnItsWay
  <2> SUFFICES OnItsWay(s, t)'
    BY <2>2, <2>3
  <2>4. CASE event[s] \in mipi_pending[t] /\ (Noticed(t) \/ Ringing(s, t))
    <3>1. CASE SwapPending(t)
      BY <2>2, <2>4, <3>1, SwapStep
    <3>2. CASE ~ SwapPending(t)
      <4>1. event[s] \in mipi_pending'[t]
        BY <2>4, <3>2, KeepStep
      <4> QED
        BY <2>2, <2>4, <3>2, <4>1, NoticedStep, RingingStep
    <3> QED
      BY <3>1, <3>2
  <2>5. CASE pc[t] = "decode" /\ event[s] \in cause[t]
    BY <2>2, <2>5, DecodingStep
  <2>6. CASE Stopped(t)
    BY <2>6, StoppedStep
  <2> QED
    BY <2>3, <2>4, <2>5, <2>6
<1> QED
  BY <1>1, <1>2

LEMMA OwedMaskedStep ==
  ASSUME IInv, [Next]_vars
  PROVE  OwedMasked'
  BY DEF IInv, TypeOK, OwedOnItsWay, OwedMasked, Reaches,
     Next, vars, Monitor, Supervisor, Post, Ring,
     PollClear, PollSet, ReturnSoft, BeginWait, ConsumeOwn, Restore, Settle,
     Resume, TakeIpi, SwapPending, Decode, ClearIpi, SendIpi, Shutdown, Enter

LEMMA SeenClearStep ==
  ASSUME IInv, [Next]_vars
  PROVE  SeenClear'
<1> USE DEF IInv
<1> Shape
  BY TypeShape
<1> SUFFICES ASSUME NEW s \in Hart, NEW t \in Hart, pc'[s] \in Waiting,
                    t \in owed'[s], t \notin todo'[s]
             PROVE  Bound(t, event[s])'
  BY DEF SeenClear
<1>1. ~ Posts(s, t)
  BY DEF Posts, Post, TypeOK
<1>2. t \in owed[s]
  BY <1>1, OwedStep
<1>3. /\ event'[s] = event[s]
      /\ ~ (Decode(t) /\ event[s] \in cause[t])
  BY <1>2, StillOwedStep DEF OwedOnItsWay
<1>4. event[s] \in Event
  BY DEF TypeOK
<1>5. CASE PollClear(s, t)
  <2>1. ~ Ringing(s, t) /\ ipi[t] = 0
    BY <1>5 DEF PollClear, Ringing
  <2>2. Bound(t, event[s])
    BY <1>2, <2>1 DEF OwedOnItsWay, OnItsWay, Bound, Noticed
  <2> QED
    BY <1>3, <1>4, <2>2, BoundStep DEF Bound
<1>6. CASE ~ PollClear(s, t)
  <2>1. pc[s] \in Waiting /\ t \notin todo[s]
    BY <1>2, <1>6 DEF TypeOK, OwedMasked,
     Next, vars, Monitor, Supervisor, Post, Ring,
     PollClear, PollSet, ReturnSoft, BeginWait, ConsumeOwn, Restore, Settle,
     Resume, TakeIpi, SwapPending, Decode, ClearIpi, SendIpi, Shutdown, Enter
  <2>2. Bound(t, event[s])
    BY <1>2, <2>1 DEF SeenClear
  <2> QED
    BY <1>3, <1>4, <2>2, BoundStep DEF Bound
<1> QED
  BY <1>5, <1>6

LEMMA DueBindsStep ==
  ASSUME IInv, [Next]_vars
  PROVE  DueBinds'
<1> USE DEF IInv
<1> Shape
  BY TypeShape
<1> SUFFICES ASSUME NEW t \in Hart, NEW e \in due'[t]
             PROVE  Bound(t, e)'
  BY DEF DueBinds
<1>1. /\ e \in Event
      /\ ~ (Decode(t) /\ e \in cause[t])
      /\ e \in due[t] \/ \E s \in Hart : Restore(s) /\ t \in owed[s] /\ e = event[s]
  BY DEF TypeOK, Next, vars, Monitor, Supervisor, Post, Ring,
     PollClear, PollSet, ReturnSoft, BeginWait, ConsumeOwn, Restore, Settle,
     Resume, TakeIpi, SwapPending, Decode, ClearIpi, SendIpi, Shutdown, Enter
<1>2. CASE e \in due[t]
  BY <1>1, <1>2, BoundStep DEF DueBinds
<1>3. CASE \E s \in Hart : Restore(s) /\ t \in owed[s] /\ e = event[s]
  <2>1. Bound(t, e)
    BY <1>3 DEF Restore, SeenClear
  <2> QED
    BY <1>1, <2>1, BoundStep
<1> QED
  BY <1>1, <1>2, <1>3

LEMMA InvStep == IInv /\ [Next]_vars => IInv'
  BY TypeStep, PendingNoticedStep, OwedOnItsWayStep, OwedMaskedStep,
     SeenClearStep, DueBindsStep
  DEF IInv

THEOREM Invariance == Spec => []IInv
  BY InitInv, InvStep, PTL DEF Spec

-----------------------------------------------------------------------------
(* The theorems *)

\* Every variable of the IPI protocol keeps its type.
THEOREM TypeCorrect == Spec => []TypeOK
<1>1. IInv => TypeOK
  BY DEF IInv
<1> QED
  BY <1>1, Invariance, PTL

\* No event posted to mipi_pending is ever lost: trap_vector clears MSIP
\* before it swaps, and send_ipi_many restores what it consumed.
THEOREM EventsNoticed == Spec => []NoLostEvent
<1>1. IInv => NoLostEvent
  BY DEF IInv, PendingNoticed, NoLostEvent, Ringing
<1> QED
  BY <1>1, Invariance, PTL

\* After a remote fence call has returned, no target runs its supervisor
\* before it has fenced.
THEOREM FencesPrecedeRun == Spec => []FenceBeforeRun
<1>1. IInv => FenceBeforeRun
  BY DEF IInv, DueBinds, Bound, FenceBeforeRun, TypeOK, Stopped
<1> QED
  BY <1>1, Invariance, PTL

-----------------------------------------------------------------------------
(* Ipi implements RemoteFence *)

LEMMA ModeRange ==
  ASSUME NEW h \in Hart
  PROVE  /\ mode[h] = "super" <=> pc[h] = "super"
         /\ mode[h] = "stopped" <=> pc[h] # "super" /\ Stopped(h)
         /\ mode[h] = "monitor" <=> pc[h] # "super" /\ ~ Stopped(h)
  BY DEF mode, Stopped

\* A step that leaves every hart's privilege level, and what is owed and
\* due, alone is a stutter.
LEMMA Stutter ==
  ASSUME UNCHANGED <<event, owed, due>>,
         \A u \in Hart : mode'[u] = mode[u]
  PROVE  UNCHANGED RF!vars
  BY DEF RF!vars, mode

LEMMA StepImplements == IInv /\ [Next]_vars => [RF!Next]_(RF!vars)
<1> SUFFICES ASSUME IInv, [Next]_vars
             PROVE  RF!Next \/ UNCHANGED RF!vars
  OBVIOUS
<1> USE DEF IInv, TypeOK
<1>2. ASSUME NEW h \in Hart, NEW t \in Hart, Ring(h, t)
      PROVE  UNCHANGED RF!vars
  BY <1>2, Stutter DEF Ring, mode, Stopped
<1>3. ASSUME NEW h \in Hart, NEW t \in Hart, PollClear(h, t)
      PROVE  UNCHANGED RF!vars
  BY <1>3, Stutter DEF PollClear, mode, Stopped
<1>4. ASSUME NEW h \in Hart, NEW t \in Hart, PollSet(h, t)
      PROVE  UNCHANGED RF!vars
  BY <1>4, Stutter DEF PollSet, mode, Stopped
<1>5. ASSUME NEW h \in Hart, NEW t \in Hart, Post(h, t)
      PROVE  RF!Next \/ UNCHANGED RF!vars
  <2>1. \A u \in Hart : mode'[u] = mode[u]
    BY <1>5 DEF Post, mode, Stopped
  <2>0. CASE t \in Disabled
    BY <1>5, <2>0, <2>1, Stutter DEF Post
  <2>2. CASE t \notin Disabled /\ event[h] \in Fence
    <3>1. mode[h] = "monitor"
      BY <1>5 DEF Post, mode, Stopped
    <3>2. mode' = mode
      BY <2>1 DEF mode
    <3>3. RF!Ask(h, t)
      BY <1>5, <2>2, <3>1, <3>2 DEF Post, RF!Ask
    <3> QED
      BY <3>3 DEF RF!Next
  <2>3. CASE t \notin Disabled /\ event[h] \notin Fence
    <3>1. owed' = owed
      BY <1>5, <2>3 DEF Post
    <3> QED
      BY <1>5, <2>1, <3>1, Stutter DEF Post
  <2> QED
    BY <2>0, <2>2, <2>3
<1>6. ASSUME NEW h \in Hart, ReturnSoft(h)
      PROVE  UNCHANGED RF!vars
  BY <1>6, Stutter DEF ReturnSoft, mode, Stopped
<1>7. ASSUME NEW h \in Hart, BeginWait(h)
      PROVE  UNCHANGED RF!vars
  BY <1>7, Stutter DEF BeginWait, mode, Stopped
<1>8. ASSUME NEW h \in Hart, ConsumeOwn(h)
      PROVE  UNCHANGED RF!vars
  BY <1>8, Stutter DEF ConsumeOwn, mode, Stopped
<1>9. ASSUME NEW h \in Hart, SwapPending(h)
      PROVE  UNCHANGED RF!vars
  BY <1>9, Stutter DEF SwapPending, mode, Stopped
<1>10. ASSUME NEW h \in Hart, Restore(h)
      PROVE  RF!Next
  <2>1. mode[h] = "monitor"
    BY <1>10 DEF Restore, mode, Stopped
  <2>2. CASE event[h] = "HALT"
    <3>2. owed[h] = {}
      BY <2>2 DEF OwedOnItsWay
    <3>3. owed' = owed /\ due' = due
      BY <1>10, <3>2 DEF Restore, Settle
    <3>4. mode' = [mode EXCEPT ![h] = "stopped"]
      BY <1>10, <2>2 DEF Restore, mode, Stopped
    <3>5. RF!Honor(h, {})
      BY <1>10, <2>1, <3>3, <3>4 DEF Restore, RF!Honor
    <3> QED
      BY <3>5 DEF RF!Next
  <2>3. CASE event[h] # "HALT"
    <3>1. mode' = mode
      BY <1>10, <2>3 DEF Restore, mode, Stopped
    <3>2. RF!Return(h)
      BY <1>10, <2>1, <3>1 DEF Restore, Settle, RF!Return
    <3> QED
      BY <3>2 DEF RF!Next
  <2> QED
    BY <2>2, <2>3
<1>11. ASSUME NEW h \in Hart, Resume(h)
      PROVE  RF!Next
  <2>1. mode[h] = "monitor"
    BY <1>11 DEF Resume, mode, Stopped
  <2>2. mode' = [mode EXCEPT ![h] = "super"]
    BY <1>11 DEF Resume, mode, Stopped
  <2>3. owed[h] = {}
    BY <1>11 DEF Resume, OwedOnItsWay
  <2>4. due[h] = {}
    BY <1>11 DEF Resume, DueBinds, Bound, Noticed, Stopped
  <2>5. RF!Resume(h)
    BY <1>11, <2>1, <2>2, <2>3, <2>4 DEF Resume, RF!Resume
  <2> QED
    BY <2>5 DEF RF!Next
<1>12. ASSUME NEW h \in Hart, NEW e \in Event, pc[h] = "super", pc'[h] # "super",
             ~ Stopped(h)', \A u \in Hart \ {h} : pc'[u] = pc[u],
             event' = [event EXCEPT ![h] = e], UNCHANGED <<owed, due>>
      PROVE  RF!Next
  <2>1. mode[h] = "super"
    BY <1>12 DEF mode
  <2>2. mode' = [mode EXCEPT ![h] = "monitor"]
    BY <1>12 DEF mode, Stopped
  <2>3. RF!Trap(h)
    BY <1>12, <2>1, <2>2 DEF RF!Trap
  <2> QED
    BY <2>3 DEF RF!Next
<1>13. ASSUME NEW h \in Hart, TakeIpi(h)
      PROVE  RF!Next \/ UNCHANGED RF!vars
  <2>1. CASE pc[h] = "super"
    <3>1. event' = [event EXCEPT ![h] = event[h]]
      BY <1>13 DEF TakeIpi
    <3> QED
      BY <1>13, <2>1, <3>1, <1>12 DEF TakeIpi, Stopped
  <2>2. CASE pc[h] = "mret"
    BY <1>13, <2>2, Stutter DEF TakeIpi, mode, Stopped
  <2> QED
    BY <1>13, <2>1, <2>2 DEF TakeIpi
<1>14. ASSUME NEW h \in Hart, Decode(h)
      PROVE  RF!Next
  <2>1. mode[h] = "monitor"
    BY <1>14 DEF Decode, mode, Stopped
  <2>2. mode' \in {mode, [mode EXCEPT ![h] = "stopped"]}
    BY <1>14 DEF Decode, mode, Stopped
  <2>3. RF!Honor(h, cause[h])
    BY <1>14, <2>1, <2>2 DEF Decode, RF!Honor
  <2> QED
    BY <2>3 DEF RF!Next
<1>15. ASSUME NEW h \in Hart, NEW e \in Event, NEW T \in SUBSET Hart, Enter(h, e, T)
      PROVE  RF!Next
  BY <1>15, <1>12 DEF Enter, Stopped
<1>16. ASSUME NEW h \in Hart, ClearIpi(h)
      PROVE  RF!Next
  <2>1. event' = [event EXCEPT ![h] = event[h]]
    BY <1>16 DEF ClearIpi
  <2> QED
    BY <1>16, <2>1, <1>12 DEF ClearIpi, Stopped
<1>17. CASE UNCHANGED vars
  BY <1>17, Stutter DEF vars, mode, Stopped
<1> QED
  BY <1>2, <1>3, <1>4, <1>5, <1>6, <1>7, <1>8, <1>9, <1>10, <1>11, <1>12, <1>13, <1>14, <1>15, <1>16, <1>17, RequestAssumption
  DEF Next, Monitor, Supervisor, SendIpi, Shutdown

LEMMA InitImplements == Init => RF!Init
  BY DEF Init, RF!Init, mode, Stopped

\* The IPI protocol implements RemoteFence.
THEOREM Refinement == Spec => RemoteFenceSpec
  BY InitImplements, StepImplements, Invariance, PTL
  DEF Spec, RemoteFenceSpec, RF!Spec
=============================================================================
