---------------------------- MODULE RemoteFence ----------------------------
(***************************************************************************)
(* What the monitor promises of SBI_REMOTE_FENCE_I and                     *)
(* SBI_REMOTE_SFENCE_VMA, with no registers, masks or loops: a call asks   *)
(* harts for a fence, a hart may honor what it is asked at any time it is  *)
(* in the monitor, and no hart leaves the monitor for its supervisor while *)
(* it still owes a fence to a call that has returned.                      *)
(***************************************************************************)
CONSTANTS Hart, Event, Fence

VARIABLES
  mode,   \* "super", "monitor" or "stopped", for each hart
  event,  \* what each hart's latest call asks for
  owed,   \* harts that still owe it to the call
  due     \* fences each hart owes to calls that have returned

vars == <<mode, event, owed, due>>

Init ==
  /\ mode \in [Hart -> {"super", "stopped"}]
  /\ event \in [Hart -> Event]
  /\ owed = [h \in Hart |-> {}]
  /\ due = [h \in Hart |-> {}]

\* Hart h enters the monitor, with a call for e or to serve an interrupt.
Trap(h) ==
  /\ mode[h] = "super"
  /\ mode' = [mode EXCEPT ![h] = "monitor"]
  /\ \E e \in Event : event' = [event EXCEPT ![h] = e]
  /\ UNCHANGED <<owed, due>>

\* The call of h asks one more hart.
Ask(h, t) ==
  /\ mode[h] = "monitor"
  /\ event[h] \in Fence
  /\ owed' = [owed EXCEPT ![h] = @ \cup {t}]
  /\ UNCHANGED <<mode, event, due>>

\* The call of h returns: what it is still owed is due.
Return(h) ==
  /\ mode[h] = "monitor"
  /\ owed' = [owed EXCEPT ![h] = {}]
  /\ due' = [t \in Hart |->
               IF t \in owed[h] THEN due[t] \cup {event[h]} ELSE due[t]]
  /\ UNCHANGED <<mode, event>>

\* Hart h executes the fences of E, whoever asked, and perhaps stops.
Honor(h, E) ==
  /\ mode[h] = "monitor"
  /\ mode' \in {mode, [mode EXCEPT ![h] = "stopped"]}
  /\ owed' = [s \in Hart |->
                IF event[s] \in E THEN owed[s] \ {h} ELSE owed[s]]
  /\ due' = [due EXCEPT ![h] = @ \ E]
  /\ UNCHANGED event

\* Hart h goes back to its supervisor, and owes nothing.
Resume(h) ==
  /\ mode[h] = "monitor"
  /\ due[h] = {}
  /\ owed[h] = {}
  /\ mode' = [mode EXCEPT ![h] = "super"]
  /\ UNCHANGED <<event, owed, due>>

Next ==
  \E h \in Hart :
    \/ Trap(h)
    \/ \E t \in Hart : Ask(h, t)
    \/ Return(h)
    \/ \E E \in SUBSET Event : Honor(h, E)
    \/ Resume(h)

Spec == Init /\ [][Next]_vars
=============================================================================
