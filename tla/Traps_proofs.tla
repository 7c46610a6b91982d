---------------------------- MODULE Traps_proofs ----------------------------
(***************************************************************************)
(* What holds of the monitor's traps for every program, every memory and   *)
(* every interleaving with other harts: the supervisor's timer; the        *)
(* discipline of mscratch, the stack and MPRV; that a trap the monitor     *)
(* cannot serve reaches the supervisor as the hart would have given it;    *)
(* and that an emulated instruction does what the instruction set says.    *)
(***************************************************************************)
EXTENDS Traps, TLAPS

-----------------------------------------------------------------------------
(* The timer *)

\* The interrupt is not enabled only once it is pending, or before the first
\* call of mcall_set_timer.
TimerInv ==
  /\ timer \in [time : 0 .. MaxTime, cmp : 0 .. MaxTime + 1, stip : BOOLEAN,
                mtie : BOOLEAN]
  /\ timer.stip => timer.time >= timer.cmp
  /\ ~timer.mtie => timer.stip \/ timer.cmp = MaxTime + 1

LEMMA TimerStep == TimerInv /\ [Next]_vars => TimerInv'
<1> SUFFICES ASSUME TimerInv, [Next]_vars PROVE TimerInv'
  OBVIOUS
<1> USE TimeAssumption DEF TimerInv
<1>1. CASE UNCHANGED timer
  BY <1>1
<1>2. CASE Tick
  BY <1>2 DEF Tick
<1>3. CASE TimerInterrupt
  BY <1>3 DEF TimerInterrupt
<1>4. ASSUME NEW when \in 0 .. MaxTime + 1, SetTimer(when) PROVE TimerInv'
  BY <1>4 DEF SetTimer
<1>5. CASE Call
  BY <1>1, <1>4, <1>5 DEF Call
<1>6. Next => UNCHANGED timer \/ Tick \/ TimerInterrupt \/ Call
  <2>1. Environment => UNCHANGED timer \/ Tick \/ TimerInterrupt
    BY DEF Environment, GoOn, Trap, TrapAgain, Sret, Remap
  <2>2. Monitor => UNCHANGED timer \/ Call
    <3>1. \A epc, mpp, badaddr, cause :
            Redirect(epc, mpp, badaddr, cause) => UNCHANGED timer
      BY DEF Redirect
    <3>2. \A a, cause, adj, epc : Fault(a, cause, adj, epc) => UNCHANGED timer
      BY DEF Fault
    <3>3. \A l : Local(l) => UNCHANGED timer
      BY DEF Local
    <3>0. PmpTrap => UNCHANGED timer
      BY <3>1 DEF PmpTrap
    <3>4. MachinePageFault => UNCHANGED timer
      BY <3>1, <3>2, <3>3 DEF MachinePageFault
    <3>5. Fetch => UNCHANGED timer
      BY <3>1, <3>2, <3>3 DEF Fetch
    <3>6. Decode => UNCHANGED timer
      BY <3>1, <3>3 DEF Decode, TrulyIllegal
    <3>7. LoadByte => UNCHANGED timer
      BY <3>1, <3>2, <3>3 DEF LoadByte
    <3>8. StoreByte => UNCHANGED timer
      BY <3>1, <3>2, <3>3 DEF StoreByte
    <3>9. VecElement => UNCHANGED timer
      BY <3>1, <3>2, <3>3 DEF VecElement
    <3>10. VecMasked => UNCHANGED timer
      BY <3>1, <3>2, <3>3 DEF VecMasked, VecNext
    <3>11. VecLoadByte => UNCHANGED timer
      BY <3>1, <3>2, <3>3 DEF VecLoadByte, VecNext
    <3>12. VecStoreByte => UNCHANGED timer
      BY <3>1, <3>2, <3>3 DEF VecStoreByte, VecNext
    <3>13. ReadInstruction => UNCHANGED timer
      BY <3>1, <3>2, <3>3 DEF ReadInstruction
    <3>14. PuntToMisalignedHandler => UNCHANGED timer
      BY <3>1, <3>2, <3>3 DEF PuntToMisalignedHandler
    <3>15. EmulateFloatLoad => UNCHANGED timer
      BY <3>1, <3>2, <3>3 DEF EmulateFloatLoad
    <3>16. EmulateFloatStore => UNCHANGED timer
      BY <3>1, <3>2, <3>3 DEF EmulateFloatStore
    <3>17. EmulateCsr => UNCHANGED timer
      BY <3>1, <3>2, <3>3 DEF EmulateCsr, TrulyIllegal
    <3>18. EmulateFp => UNCHANGED timer
      BY <3>1, <3>2, <3>3 DEF EmulateFp
    <3>19. EmulateNothing => UNCHANGED timer
      BY <3>1, <3>2, <3>3 DEF EmulateNothing, TrulyIllegal
    <3>20. ReadMask => UNCHANGED timer
      BY <3>1, <3>2, <3>3 DEF ReadMask
    <3>21. EmulateFsgnj => UNCHANGED timer
      BY DEF EmulateFsgnj
    <3>22. EmulateFmin => UNCHANGED timer
      BY DEF EmulateFmin
    <3>23. EmulateFcmp => UNCHANGED timer
      BY DEF EmulateFcmp
    <3>24. EmulateFmvIf => UNCHANGED timer
      BY DEF EmulateFmvIf
    <3>25. EmulateFmvFi => UNCHANGED timer
      BY DEF EmulateFmvFi
    <3>26. EmulateMulDiv => UNCHANGED timer
      BY DEF EmulateMulDiv
    <3> QED
      BY <3>0, <3>4, <3>5, <3>6, <3>7, <3>8, <3>9, <3>10, <3>11, <3>12, <3>13,
         <3>14, <3>15, <3>16, <3>17, <3>18, <3>19, <3>20, <3>21, <3>22, <3>23,
         <3>24, <3>25, <3>26 DEF Monitor
  <2> QED
    BY <2>1, <2>2 DEF Next
<1>7. CASE UNCHANGED vars
  BY <1>1, <1>7 DEF vars
<1> QED
  BY <1>1, <1>2, <1>3, <1>5, <1>6, <1>7

\* A pending interrupt is due, and one that is not enabled is pending.
LEMMA TimerInvKept == Spec => []TimerInv
<1>1. ASSUME Init PROVE TimerInv
  <2>1. timer = [time |-> 0, cmp |-> MaxTime + 1, stip |-> FALSE,
                 mtie |-> FALSE]
    BY <1>1 DEF Init
  <2> QED
    BY <2>1, TimeAssumption DEF TimerInv
<1> QED
  BY <1>1, TimerStep, PTL DEF Spec

\* Below machine mode the timer interrupt is pending only when the time last
\* asked for has come, and then it is pending or about to be (mtrap.c:94).
THEOREM TimerKept == Spec => []TimerExact
<1>1. TimerInv => TimerExact
  BY TimeAssumption DEF TimerInv, TimerExact
<1> QED
  BY <1>1, TimerInvKept, PTL

-----------------------------------------------------------------------------
(* Entry and exit *)

CsrField == {"mepc", "mcause", "mtval", "mpp", "mprv", "sepc", "scause",
             "stval", "spp", "sie", "spie"}
LocField == {"epc", "mpp", "adj", "then", "i", "bytes", "e", "vl"}
Places == {"fetch", "misaligned", "bytes", "vec", "vbytes", "illegal",
           "emulate", "mcall", "pmp"}

\* In a handler MPP and the handler's copy of it are the program's, so that
\* both ways out leave machine mode; and a fault of an access to the
\* instruction is a load fault, which machine_page_fault can report.
IInv ==
  /\ csr = [f \in CsrField |-> csr[f]]
  /\ loc = [f \in LocField |-> loc[f]]
  /\ pc \in {"run", "super", "nested"} \cup Places
  /\ csr.mprv \in BOOLEAN
  /\ loc.then \in {"misaligned", "emulate"}
  /\ pc = "super" => csr.spp \in {"U", "S"}
  /\ pc \in Places => csr.mpp \in {"U", "S"} /\ frames = <<frames[1]>>
  /\ pc \notin {"run", "super"} => loc.mpp \in {"U", "S"}
  /\ pc = "nested" => (loc.adj = "MPRV|MXR" => csr.mcause = "load fault")
  /\ Disciplined

\* A frame below another.
LEMMA Nesting == ASSUME NEW x, NEW y PROVE Len(Append(<<x>>, y)) = 2
<1>1. <<x>> \in Seq({x, y}) /\ Len(<<x>>) = 1
  OBVIOUS
<1>2. \A s \in Seq({x, y}) : Len(Append(s, y)) = Len(s) + 1
  OBVIOUS
<1> QED
  BY <1>1, <1>2

LEMMA First == ASSUME NEW x PROVE Append(<<>>, x) = <<x>> /\ Len(<<x>>) = 1
<1>1. <<>> \in Seq({x})
  OBVIOUS
<1>2. Append(<<>>, x) = <<x>>
  BY <1>1
<1>3. Len(<<x>>) = 1
  OBVIOUS
<1> QED
  BY <1>2, <1>3

\* A trap from below machine mode enters its handler.
LEMMA Entering ==
  ASSUME IInv, NEW cause, NEW tval, NEW p \in {"U", "S"}, NEW r,
         cause \in Addressed \cup {"ecall", "illegal"},
         pc = "run", Entry(cause, tval, p, r), pc' = Handler(cause),
         loc' = [NoLoc EXCEPT !.mpp = p]
  PROVE  IInv'
<1>1. pc' \in {"fetch", "mcall", "illegal", "pmp"}
  BY DEF Handler, Addressed, Misaligned
<1>2. frames' = <<r>> /\ Len(frames') = 1 /\ frames'[1] = r
  BY First DEF IInv, Disciplined, Entry
<1>3. /\ csr' = [f \in CsrField |-> csr'[f]]
      /\ csr'.mpp = p
      /\ csr'.mprv = FALSE
  <2>1. csr = [f \in CsrField |-> csr[f]] /\ csr.mprv = FALSE
    BY DEF IInv, Disciplined
  <2> QED
    BY <2>1 DEF Entry, CsrField
<1>4. /\ loc' = [f \in LocField |-> loc'[f]]
      /\ loc'.mpp = p
      /\ loc'.then = "misaligned"
  BY DEF LocField, NoLoc
<1> QED
  BY <1>1, <1>2, <1>3, <1>4 DEF IInv, Disciplined, Entry, Places

\* A redirection leaves for the supervisor.
LEMMA Redirecting ==
  ASSUME IInv, NEW epc, NEW mpp \in {"U", "S"}, NEW badaddr, NEW cause,
         Redirect(epc, mpp, badaddr, cause)
  PROVE  IInv'
<1>1. /\ csr' = [f \in CsrField |-> csr'[f]]
      /\ csr'.spp = mpp
      /\ csr'.mprv = FALSE
  BY DEF IInv, Redirect, CsrField
<1>2. /\ loc' = [f \in LocField |-> loc'[f]]
      /\ loc'.then = "misaligned"
  BY DEF LocField, NoLoc, Redirect, Leave
<1> QED
  BY <1>1, <1>2 DEF IInv, Disciplined, Redirect, Leave, Places

\* A handler returns to the program.
LEMMA Returning ==
  ASSUME IInv, pc \in Places, NEW r, NEW t, Return(r, t)
  PROVE  IInv'
<1>1. /\ csr' = [f \in CsrField |-> csr'[f]]
      /\ csr'.mprv = FALSE
  <2>1. csr = [f \in CsrField |-> csr[f]] /\ csr.mprv = FALSE
    BY DEF IInv, Disciplined, Places
  <2> QED
    BY <2>1 DEF Return, Forget, CsrField
<1>2. /\ loc' = [f \in LocField |-> loc'[f]]
      /\ loc'.then = "misaligned"
  BY DEF LocField, NoLoc, Return
<1> QED
  BY <1>1, <1>2 DEF IInv, Disciplined, Return, Places

\* An access of a handler faults.
LEMMA Faulting ==
  ASSUME IInv, pc \in Places, NEW a, NEW cause, NEW adj, NEW epc,
         Fault(a, cause, adj, epc), adj = "MPRV|MXR" => cause = "load fault"
  PROVE  IInv'
<1>1. /\ csr' = [f \in CsrField |-> csr'[f]]
      /\ csr'.mprv = TRUE
      /\ csr'.mcause = cause
  BY DEF IInv, Fault, CsrField
<1>2. /\ loc' = [f \in LocField |-> loc'[f]]
      /\ loc'.then = loc.then
      /\ loc'.adj = adj
      /\ loc'.mpp = loc.mpp
  BY DEF IInv, Fault, LocField
<1>3. Len(frames') = 2
  <2>1. frames = <<frames[1]>> /\ frames' = Append(frames, NoRegs)
    BY DEF IInv, Fault
  <2> QED
    BY <2>1, Nesting, Zenon
<1> QED
  BY <1>1, <1>2, <1>3 DEF IInv, Disciplined, Fault, Places

\* A handler goes on with its own variables.
LEMMA GoingOn ==
  ASSUME IInv, pc \in Places, pc' \in Places, NEW l, Local(l),
         l = [f \in LocField |-> l[f]], l.then \in {"misaligned", "emulate"},
         l.mpp = loc.mpp
  PROVE  IInv'
BY DEF IInv, Disciplined, Local, Places

\* A truly illegal instruction is one that is redirected from its handler.
LEMMA Refusing ==
  ASSUME IInv, pc \in Places, NEW cause, TrulyIllegal(cause)
  PROVE  IInv'
<1>1. loc.mpp \in {"U", "S"}
  BY DEF IInv, Places
<1>2. Redirect("insn", loc.mpp, Junk, cause)
  BY DEF TrulyIllegal
<1> QED
  BY <1>1, <1>2, Redirecting

LEMMA Initial == Init => IInv
<1> SUFFICES ASSUME Init PROVE IInv
  OBVIOUS
<1>1. csr = [f \in CsrField |-> csr[f]] /\ csr.mprv = FALSE
  <2>1. PICK sie \in BOOLEAN :
          csr = [mepc |-> "next", mcause |-> "", mtval |-> Junk, mpp |-> "U",
                 mprv |-> FALSE, sepc |-> "", scause |-> "", stval |-> Junk,
                 spp |-> "U", sie |-> sie, spie |-> TRUE]
    BY DEF Init
  <2> QED
    BY <2>1 DEF CsrField
<1>2. loc = [f \in LocField |-> loc[f]] /\ loc.then = "misaligned"
  BY DEF Init, NoLoc, LocField
<1> QED
  BY <1>1, <1>2 DEF Init, IInv, Disciplined, Places

\* What another hart and the supervisor do.
LEMMA EnvironmentStep == IInv /\ Environment => IInv'
<1> SUFFICES ASSUME IInv, Environment PROVE IInv'
  OBVIOUS
<1>1. \A in : Cause(in) \in Addressed \cup {"ecall", "illegal"}
  BY DEF Cause, Addressed, Misaligned
<1>2. ASSUME NEW in \in Code, NEW p \in {"U", "S"}, Trap(in, p) PROVE IInv'
  <2> DEFINE tval == IF Cause(in) \in Addressed THEN in.addr ELSE Junk
  <2>1. /\ pc = "run"
        /\ Entry(Cause(in), tval, p, Regs)
        /\ pc' = Handler(Cause(in))
        /\ loc' = [NoLoc EXCEPT !.mpp = p]
    BY <1>2 DEF Trap
  <2> HIDE DEF tval
  <2> QED
    BY <1>1, <2>1, Entering
<1>3. CASE TrapAgain
  <2> DEFINE tval == IF Cause(cur) \in Addressed THEN cur.addr ELSE Junk
  <2>1. /\ pc = "run"
        /\ Entry(Cause(cur), tval, prv, regs)
        /\ pc' = Handler(Cause(cur))
        /\ loc' = [NoLoc EXCEPT !.mpp = prv]
    BY <1>3 DEF TrapAgain
  <2>2. prv \in {"U", "S"}
    BY <2>1 DEF IInv, Disciplined
  <2> HIDE DEF tval
  <2> QED
    BY <1>1, <2>1, <2>2, Entering
<1>4. ASSUME NEW skip \in BOOLEAN, Sret(skip) PROVE IInv'
  <2>1. csr' = [f \in CsrField |-> csr'[f]] /\ csr'.mprv = csr.mprv
    BY <1>4 DEF IInv, Sret, Forget, CsrField
  <2>2. UNCHANGED <<loc, frames, mscratch>> /\ pc = "super" /\ pc' = "run"
    BY <1>4 DEF Sret, monitor
  <2>3. prv' = csr.spp
    BY <1>4 DEF Sret
  <2> QED
    BY <2>1, <2>2, <2>3 DEF IInv, Disciplined, Places
<1>5. ASSUME NEW p \in Pages, Remap(p) PROVE IInv'
  BY <1>5 DEF Remap, monitor, IInv, Disciplined
<1>6. CASE Tick
  BY <1>6 DEF Tick, monitor, IInv, Disciplined
<1>7. CASE TimerInterrupt
  BY <1>7 DEF TimerInterrupt, monitor, IInv, Disciplined
<1>8. CASE GoOn
  BY <1>8 DEF GoOn, monitor, IInv, Disciplined
<1> QED
  BY <1>2, <1>3, <1>4, <1>5, <1>6, <1>7, <1>8 DEF Environment

\* What the monitor does.
LEMMA MonitorStep == IInv /\ Monitor => IInv'
<1> SUFFICES ASSUME IInv, Monitor PROVE IInv'
  OBVIOUS
<1> DEFINE Plain(l) == /\ l = [f \in LocField |-> l[f]]
                       /\ l.then \in {"misaligned", "emulate"}
                       /\ l.mpp = loc.mpp
<1>1. \A l : pc \in Places /\ pc' \in Places /\ Local(l) /\ Plain(l) => IInv'
  BY GoingOn
<1>2. \A r, t : pc \in Places /\ Return(r, t) => IInv'
  BY Returning
<1>3. \A a, cause, adj, epc :
        /\ pc \in Places
        /\ Fault(a, cause, adj, epc)
        /\ adj = "MPRV|MXR" => cause = "load fault"
        => IInv'
  BY Faulting
<1>4. \A cause : pc \in Places /\ TrulyIllegal(cause) => IInv'
  BY Refusing
<1>5. Plain(loc) /\ \A v : Plain([loc EXCEPT !.i = v])
  BY DEF IInv, LocField
<1>6. /\ \A v, b : Plain([loc EXCEPT !.i = v, !.bytes = b])
      /\ \A v, n : Plain([loc EXCEPT !.e = v, !.vl = n])
      /\ \A v : Plain([loc EXCEPT !.e = v])
      /\ Plain([loc EXCEPT !.then = "emulate"])
  BY DEF IInv, LocField
<1>7. loc.then \in Places
  BY DEF IInv, Places
<1> HIDE DEF Plain
<1>0. CASE PmpTrap
  <2>1. csr.mpp \in {"U", "S"}
    BY <1>0 DEF PmpTrap, IInv, Places
  <2> QED
    BY <1>0, <2>1, Redirecting DEF PmpTrap
<1>8. CASE MachinePageFault
  <2>1. pc = "nested" /\ loc.mpp \in {"U", "S"} /\ csr.mprv
    BY <1>8 DEF MachinePageFault, IInv, Disciplined
  <2>2. loc.adj = "MPRV|MXR" => csr.mcause = "load fault"
    BY <2>1 DEF IInv
  <2>3. \E cause : Redirect(loc.epc, loc.mpp, csr.mtval, cause)
    BY <1>8, <2>1, <2>2 DEF MachinePageFault
  <2> QED
    BY <2>1, <2>3, Redirecting
<1>9. CASE Fetch
  BY <1>1, <1>3, <1>5, <1>7, <1>9 DEF Fetch, Places
<1>10. CASE Decode
  BY <1>1, <1>4, <1>5, <1>6, <1>10 DEF Decode, Places
<1>11. CASE LoadByte
  BY <1>1, <1>2, <1>3, <1>6, <1>11 DEF LoadByte, Places
<1>12. CASE StoreByte
  <2>1. pc = "bytes" /\ pc \in Places
    BY <1>12 DEF StoreByte, Places
  <2>2. \/ \E a : Fault(a, "store fault", "MPRV", "insn")
        \/ pc' = pc /\ Local([loc EXCEPT !.i = @ + 1])
        \/ Return(frames[1], tp)
    BY <1>12, Zenon DEF StoreByte
  <2> QED
    BY <1>1, <1>2, <1>3, <1>5, <2>1, <2>2
<1>13. CASE VecElement
  BY <1>1, <1>6, <1>13 DEF VecElement, Places
<1>14. \A v : pc \in Places /\ VecNext(v) => IInv'
  BY <1>1, <1>2, <1>6 DEF VecNext, Places
<1>15. CASE VecMasked
  BY <1>14, <1>15 DEF VecMasked, Places
<1>16. CASE VecLoadByte
  BY <1>1, <1>3, <1>6, <1>14, <1>16 DEF VecLoadByte, Places
<1>17. CASE VecStoreByte
  <2>1. pc = "vbytes" /\ pc \in Places
    BY <1>17 DEF VecStoreByte, Places
  <2>2. \/ \E a : Fault(a, "store fault", "MPRV", "insn")
        \/ pc' = pc /\ Local([loc EXCEPT !.i = @ + 1])
        \/ VecNext(vec)
    BY <1>17, Zenon DEF VecStoreByte
  <2> QED
    BY <1>1, <1>3, <1>5, <1>14, <2>1, <2>2
<1>18. CASE ReadInstruction
  BY <1>1, <1>6, <1>18 DEF ReadInstruction, Places
<1>19. CASE PuntToMisalignedHandler
  <2>1. csr' = [f \in CsrField |-> csr'[f]]
    BY <1>19 DEF IInv, PuntToMisalignedHandler, CsrField
  <2>2. csr'.mprv = csr.mprv /\ csr'.mpp = csr.mpp
    BY <1>19 DEF IInv, PuntToMisalignedHandler, CsrField
  <2>3. /\ loc' = [f \in LocField |-> loc'[f]]
        /\ loc'.mpp = loc.mpp
        /\ loc'.then = "misaligned"
    BY <1>19 DEF IInv, PuntToMisalignedHandler, LocField
  <2>4. pc = "emulate" /\ pc' = "fetch" /\ UNCHANGED <<frames, prv, mscratch>>
    BY <1>19 DEF PuntToMisalignedHandler
  <2> QED
    BY <2>1, <2>2, <2>3, <2>4 DEF IInv, Disciplined, Places
<1>20. CASE EmulateFloatLoad
  BY <1>2, <1>3, <1>20 DEF EmulateFloatLoad, Places
<1>21. CASE EmulateFloatStore
  <2>1. pc = "emulate" /\ pc \in Places
    BY <1>21 DEF EmulateFloatStore, Places
  <2>2. \/ \E a : Fault(a, "store fault", "MPRV", "insn")
        \/ Return(frames[1], tp)
    BY <1>21, Zenon DEF EmulateFloatStore
  <2> QED
    BY <1>2, <1>3, <2>1, <2>2
<1>22. CASE EmulateCsr
  BY <1>2, <1>4, <1>22 DEF EmulateCsr, Places
<1>23. CASE EmulateFp
  BY <1>2, <1>23 DEF EmulateFp, Places
<1>24. CASE EmulateNothing
  BY <1>4, <1>24 DEF EmulateNothing, Places
<1>25. CASE Call
  BY <1>2, <1>25 DEF Call, Places
<1>26. CASE ReadMask
  BY <1>2, <1>3, <1>26 DEF ReadMask, Places
<1>27. CASE EmulateFsgnj
  BY <1>2, <1>27 DEF EmulateFsgnj, Selected, Places
<1>28. CASE EmulateFmin
  BY <1>2, <1>28 DEF EmulateFmin, Selected, Places
<1>29. CASE EmulateFcmp
  BY <1>2, <1>29 DEF EmulateFcmp, Selected, Places
<1>30. CASE EmulateFmvIf
  BY <1>2, <1>30 DEF EmulateFmvIf, Selected, Places
<1>31. CASE EmulateFmvFi
  BY <1>2, <1>31 DEF EmulateFmvFi, Selected, Places
<1>32. CASE EmulateMulDiv
  BY <1>2, <1>32 DEF EmulateMulDiv, Places
<1> QED
  BY <1>0, <1>8, <1>9, <1>10, <1>11, <1>12, <1>13, <1>15, <1>16, <1>17, <1>18,
     <1>19, <1>20, <1>21, <1>22, <1>23, <1>24, <1>25, <1>26, <1>27, <1>28,
     <1>29, <1>30, <1>31, <1>32 DEF Monitor

\* What a nested trap finds in tp, the frames and MPRV is what its place says.
LEMMA DisciplineKept == Spec => []IInv
<1>1. ASSUME IInv, UNCHANGED vars PROVE IInv'
  <2>1. UNCHANGED <<pc, prv, mscratch, csr, frames, loc>>
    BY <1>1 DEF vars, monitor
  <2> QED
    BY <1>1, <2>1 DEF IInv, Disciplined
<1>2. IInv /\ [Next]_vars => IInv'
  BY <1>1, EnvironmentStep, MonitorStep DEF Next
<1> QED
  BY <1>2, Initial, PTL DEF Spec

\* A trap is told from a fault of the monitor's own, the stack and MPRV are as
\* the place in the code says, and no fault of an access is a fatal one.
THEOREM Discipline == Spec => []Disciplined
<1>1. IInv => Disciplined
  BY DEF IInv
<1> QED
  BY <1>1, DisciplineKept, PTL

-----------------------------------------------------------------------------
(* Emulation *)

(***************************************************************************)
(* PreciseRedirect and EmulationExact speak of the end of an emulation.    *)
(* The invariant below says, for every place in a handler, how much of the *)
(* instruction is done and what the handler still has of the program: the  *)
(* elements before vstart, the bytes before i, the address in mtval, the   *)
(* fcsr in tp, the registers in the frame.                                 *)
(***************************************************************************)

VectorOps == {"vload", "vstore"}
Illegal == {"flw", "fsw", "csr", "muldiv", "bad"} \cup FpOps

\* In the vector register the elements before n are loaded, and no others.
LoadedTo(in, vd, n) ==
  \A e \in DOMAIN Vector :
    IF in.k = "vload" /\ e \in Elements(in) /\ e < n THEN Loaded(in, e, vd[e])
    ELSE vd[e] = Vector[e]

\* In memory m the first n bytes of element e are stored.
ElementStored(in, m, e, n) ==
  \A j \in 0 .. n - 1 : m[Base(in, e) + j] = Bit(Vector[e], j)

StoredTo(in, m, n) ==
  in.k = "vstore" =>
    \A e \in Elements(in) : e < n => ElementStored(in, m, e, ELEN)

\* The elements before n are done, and no others.
DoneTo(in, vd, m, n) ==
  /\ LoadedTo(in, vd, n)
  /\ StoredTo(in, m, n)
  /\ IF in.k \in VectorOps THEN n \in 0 .. VL - 1 /\ (in.fof => n = 0) ELSE n = 0

\* With vector state v the emulation can start, or start again.
Ready(in, v, m) == v.vl = VL /\ DoneTo(in, v.vd, m, v.vstart)

\* Nothing but bytes the instruction stores has been written.
MemSound(in, m) ==
  \A a \in Address :
    IF Writes(in) /\ a \in Touched(in) THEN m[a] \in {Memory[a], Stored(in, a)}
    ELSE m[a] = Memory[a]

StoredBelow(in, m, n) == \A a \in Touched(in) : a < n => m[a] = Stored(in, a)

\* The n bytes of memory from a on.
Read(a, n) == [j \in 1 .. n |-> Memory[a + j - 1]]

Resumes(in) == IF in.k = "mask" THEN "next" ELSE "insn"

\* A fault of the monitor's own access that is on its way to the supervisor.
FaultFits(in, m, adj, epc, cause, a) ==
  /\ epc = Resumes(in)
  /\ IF adj = "MPRV|MXR" THEN CauseFits(in, "fetch fault", a)
     ELSE /\ cause \in {"load fault", "store fault"}
          /\ CauseFits(in, cause, a)
          /\ cause = "store fault" => StoredBelow(in, m, a)

\* An instruction that is for the misaligned handlers, and its address.
Misaligning(in, a) ==
  /\ in.k \in Loads \cup Stores \cup VectorOps \cup {"lr", "amo"}
  /\ in.k \in Loads \cup Stores => a = in.addr
  /\ in.k \in {"flw", "fsw"} => in.fs

\* What a handler with local variables l has done of instruction in when it is
\* at place p.
AtPlace(p, in, l, c, v, m) ==
  /\ p # "vec" => Ready(in, v, m)
  /\ p = "fetch" =>
       /\ l.i \in 0 .. Len(in.parcels) - 1
       /\ l.bytes = <<>>
       /\ IF l.then = "misaligned" THEN Misaligning(in, c.mtval) ELSE in.k \in Illegal
  /\ p \in {"misaligned", "illegal", "emulate"} => l.i = 0 /\ l.bytes = <<>>
  /\ p \in {"misaligned", "bytes"} => Misaligning(in, c.mtval)
  /\ p \in {"illegal", "emulate"} => in.k \in Illegal
  /\ p = "bytes" =>
       /\ in.k \in Loads \cup Stores
       /\ l.i \in 0 .. in.len - 1
       /\ in.k \in Loads => l.bytes = Read(in.addr, l.i)
       /\ in.k \in Stores => StoredBelow(in, m, in.addr + l.i)
  /\ p \in {"vec", "vbytes"} => in.k \in VectorOps /\ l.vl = VL
  /\ p = "vec" => DoneTo(in, v.vd, m, l.e)
  /\ p = "vbytes" =>
       /\ l.e = v.vstart
       /\ l.e \in Elements(in)
       /\ l.i \in 0 .. ELEN - 1
       /\ in.k = "vload" => l.bytes = Read(Base(in, l.e), l.i)
       /\ in.k = "vstore" => ElementStored(in, m, l.e, l.i)
  /\ p = "mcall" => in.k \in Calls
  /\ p = "pmp" =>
       in.k = "pmp" /\ c.mtval = in.addr /\ c.mcause = "access fault"
  /\ p = "nested" => FaultFits(in, m, l.adj, l.epc, c.mcause, c.mtval)

\* The program is not past instruction cur.
Begun ==
  /\ cur \in Code
  /\ MemSound(cur, mem)
  /\ orig.time \in 0 .. timer.time
  /\ IF pc = "super" THEN Ready(cur, vec, mem)
     ELSE /\ csr.sie = orig.sie
          /\ IF pc = "run" THEN regs = Regs /\ prv = orig.prv /\ Ready(cur, vec, mem)
             ELSE /\ frames[1] = Regs
                  /\ loc.mpp = orig.prv
                  /\ pc # "nested" => csr.mpp = orig.prv /\ tp = orig.fcsr
                  /\ AtPlace(pc, cur, loc, csr, vec, mem)

\* The shapes of the records and functions.
StateShape ==
  /\ orig = [f \in {"fcsr", "prv", "sie", "time"} |-> orig[f]]
  /\ vec = [f \in {"vl", "vstart", "vd"} |-> vec[f]]
  /\ vec.vd = [e \in DOMAIN Vector |-> vec.vd[e]]
  /\ mem = [a \in Address |-> mem[a]]
  /\ done \in BOOLEAN

\* Until the supervisor or the end of the emulation, the program is not past the
\* instruction, and what is done of it is what the place in the handler says.
EmuInv ==
  /\ StateShape
  /\ pc # "run" => ~done
  /\ ~done => Begun
  /\ PreciseRedirect

LEMMA EmuInitial == Init => EmuInv
<1> SUFFICES ASSUME Init PROVE EmuInv
  OBVIOUS
<1>1. orig = [f \in {"fcsr", "prv", "sie", "time"} |-> orig[f]]
  <2>1. PICK sie \in BOOLEAN :
          orig = [fcsr |-> slot, prv |-> prv, sie |-> sie, time |-> 0]
    BY DEF Init
  <2> QED
    BY <2>1
<1>2. /\ vec = [f \in {"vl", "vstart", "vd"} |-> vec[f]]
      /\ vec.vd = [e \in DOMAIN Vector |-> vec.vd[e]]
  <2>1. vec = [vl |-> VL, vstart |-> 0, vd |-> Vector]
    BY DEF Init
  <2>2. Vector = [e \in DOMAIN Vector |-> Vector[e]]
    BY VectorAssumption
  <2> QED
    BY <2>1, <2>2
<1>3. mem = [a \in Address |-> mem[a]]
  BY MemoryAssumption DEF Init, Address
<1> QED
  BY <1>1, <1>2, <1>3 DEF Init, EmuInv, StateShape, PreciseRedirect

-----------------------------------------------------------------------------
(* What other harts, the supervisor and the program do *)

\* A program below machine mode comes to an instruction, or back to it.
LEMMA Starting ==
  ASSUME IInv, EmuInv, NEW in, NEW p, NEW r,
         cur' \in Code, MemSound(cur', mem'), Ready(cur', vec', mem'),
         pc = "run", pc' = Handler(Cause(cur')),
         Entry(Cause(cur'), IF Cause(cur') \in Addressed THEN cur'.addr ELSE Junk,
               p, Regs),
         orig' = [f \in {"fcsr", "prv", "sie", "time"} |-> orig'[f]],
         orig'.fcsr = slot, orig'.prv = p, orig'.sie = csr.sie,
         orig'.time = timer.time, timer.time \in Nat, UNCHANGED timer,
         loc' = [NoLoc EXCEPT !.mpp = p],
         done' = FALSE,
         vec' = [f \in {"vl", "vstart", "vd"} |-> vec'[f]],
         vec'.vd = [e \in DOMAIN Vector |-> vec'.vd[e]],
         mem' = [a \in Address |-> mem'[a]]
  PROVE  EmuInv'
<1>1. /\ csr'.mcause = Cause(cur')
      /\ csr'.mtval = IF Cause(cur') \in Addressed THEN cur'.addr ELSE Junk
      /\ csr'.mpp = p
      /\ csr'.sie = csr.sie
  BY DEF Entry, IInv, CsrField
<1>2. frames'[1] = Regs /\ tp' = slot
  BY First DEF Entry, IInv, Disciplined
<1>3. /\ loc'.mpp = p
      /\ loc'.i = 0
      /\ loc'.bytes = <<>>
      /\ loc'.then = "misaligned"
  BY DEF NoLoc
<1>4. WellFormed(cur')
  BY CodeAssumption
<1>5. /\ cur'.k \in Loads \cup Stores \cup FpOps \cup Calls \cup
                    {"vload", "vstore", "lr", "amo", "csr", "muldiv", "bad", "pmp"}
      /\ cur'.k \notin Calls \cup {"pmp"} =>
           cur'.parcels \in Seq(Int) /\ cur'.parcels # <<>>
  BY <1>4 DEF WellFormed
<1>6. AtPlace(pc', cur', loc', csr', vec', mem')
  <2>1. CASE cur'.k \in {"load", "store", "vload", "vstore", "lr", "amo"}
    <3>1. pc' = "fetch" /\ csr'.mtval = cur'.addr
      BY <2>1, <1>1 DEF Handler, Cause, Misaligned, Addressed
    <3>2. Misaligning(cur', csr'.mtval)
      BY <3>1, <2>1 DEF Misaligning, VectorOps, Loads, Stores
    <3>3. cur'.parcels \in Seq(Int) /\ cur'.parcels # <<>>
      BY <2>1, <1>5 DEF Calls
    <3>4. 0 \in 0 .. Len(cur'.parcels) - 1
      BY <3>3
    <3> QED
      BY <3>1, <3>2, <3>4, <1>3 DEF AtPlace
  <2>2. CASE cur'.k \in Illegal
    <3>1. pc' = "illegal"
      BY <2>2 DEF Handler, Cause, Misaligned, Addressed, Illegal, FpOps
    <3> QED
      BY <3>1, <2>2, <1>3 DEF AtPlace
  <2>3. CASE cur'.k \in Calls
    <3>1. pc' = "mcall"
      BY <2>3 DEF Handler, Cause, Misaligned, Addressed, Calls
    <3> QED
      BY <3>1, <2>3 DEF AtPlace
  <2>4. CASE cur'.k = "pmp"
    <3>1. /\ pc' = "pmp"
          /\ csr'.mtval = cur'.addr
          /\ csr'.mcause = "access fault"
      BY <2>4, <1>1 DEF Handler, Cause, Misaligned, Addressed
    <3> QED
      BY <3>1, <2>4 DEF AtPlace
  <2> QED
    BY <1>5, <2>1, <2>2, <2>3, <2>4 DEF Illegal, Loads, Stores
<1>7. pc' \in {"fetch", "mcall", "illegal", "pmp"}
  BY <1>5 DEF Handler, Cause, Misaligned, Loads, Stores, FpOps, Calls
<1>8. Begun'
  BY <1>1, <1>2, <1>3, <1>6, <1>7 DEF Begun
<1> QED
  BY <1>7, <1>8 DEF EmuInv, StateShape, PreciseRedirect

\* The supervisor and other harts leave alone what the program has in memory.
LEMMA EmuEnvironment == IInv /\ TimerInv /\ EmuInv /\ Environment => EmuInv'
<1> SUFFICES ASSUME IInv, TimerInv, EmuInv, Environment PROVE EmuInv'
  OBVIOUS
<1>0. timer.time \in Nat /\ VL \in Nat \ {0} /\ DOMAIN Vector = 0 .. VL - 1
  BY TimeAssumption, VectorAssumption DEF TimerInv
<1>1. ASSUME NEW in \in Code, NEW p \in {"U", "S"}, Trap(in, p) PROVE EmuInv'
  <2>1. /\ pc = "run"
        /\ Entry(Cause(in), IF Cause(in) \in Addressed THEN in.addr ELSE Junk, p,
                 Regs)
        /\ mem' = Memory
        /\ vec' = [vl |-> VL, vstart |-> 0, vd |-> Vector]
        /\ cur' = in
        /\ done' = FALSE
        /\ orig' = [fcsr |-> slot, prv |-> p, sie |-> csr.sie, time |-> timer.time]
        /\ loc' = [NoLoc EXCEPT !.mpp = p]
        /\ pc' = Handler(Cause(in))
        /\ UNCHANGED timer
    BY <1>1 DEF Trap
  <2>2. MemSound(cur', mem')
    BY <2>1 DEF MemSound
  <2>3. Ready(cur', vec', mem')
    <3>1. LoadedTo(cur', Vector, 0) /\ StoredTo(cur', Memory, 0)
      BY <1>0 DEF LoadedTo, StoredTo, Elements
    <3>2. DoneTo(cur', Vector, Memory, 0)
      BY <3>1, <1>0 DEF DoneTo
    <3> QED
      BY <2>1, <3>2 DEF Ready
  <2>4. /\ orig' = [f \in {"fcsr", "prv", "sie", "time"} |-> orig'[f]]
        /\ orig'.fcsr = slot
        /\ orig'.prv = p
        /\ orig'.sie = csr.sie
        /\ orig'.time = timer.time
    BY <2>1
  <2>5. /\ vec' = [f \in {"vl", "vstart", "vd"} |-> vec'[f]]
        /\ vec'.vd = [e \in DOMAIN Vector |-> vec'.vd[e]]
        /\ mem' = [a \in Address |-> mem'[a]]
    BY <2>1, VectorAssumption, MemoryAssumption
  <2> QED
    BY <1>0, <2>1, <2>2, <2>3, <2>4, <2>5, Starting
<1>2. CASE TrapAgain
  <2>1. /\ pc = "run"
        /\ ~done
        /\ Entry(Cause(cur), IF Cause(cur) \in Addressed THEN cur.addr ELSE Junk,
                 prv, regs)
        /\ orig' = [orig EXCEPT !.fcsr = slot, !.time = timer.time]
        /\ loc' = [NoLoc EXCEPT !.mpp = prv]
        /\ pc' = Handler(Cause(cur))
        /\ UNCHANGED <<mem, vec, cur, done, timer>>
    BY <1>2 DEF TrapAgain
  <2>2. /\ cur \in Code
        /\ MemSound(cur, mem)
        /\ csr.sie = orig.sie
        /\ regs = Regs
        /\ prv = orig.prv
        /\ Ready(cur, vec, mem)
    BY <2>1 DEF EmuInv, Begun
  <2>3. /\ orig' = [f \in {"fcsr", "prv", "sie", "time"} |-> orig'[f]]
        /\ orig'.fcsr = slot
        /\ orig'.prv = prv
        /\ orig'.sie = csr.sie
        /\ orig'.time = timer.time
    BY <2>1, <2>2 DEF EmuInv, StateShape
  <2>4. /\ vec' = [f \in {"vl", "vstart", "vd"} |-> vec'[f]]
        /\ vec'.vd = [e \in DOMAIN Vector |-> vec'.vd[e]]
        /\ mem' = [a \in Address |-> mem'[a]]
        /\ done' = FALSE
    BY <2>1 DEF EmuInv, StateShape
  <2> QED
    BY <1>0, <2>1, <2>2, <2>3, <2>4, Starting
<1>3. ASSUME NEW skip \in BOOLEAN, Sret(skip) PROVE EmuInv'
  <2>1. /\ pc = "super"
        /\ pc' = "run"
        /\ prv' = csr.spp
        /\ csr' = [Forget(csr) EXCEPT !.sie = csr.spie, !.spie = TRUE]
        /\ done' = (skip \/ csr.sepc = "next")
        /\ cur' = IF done' THEN [k |-> "none"] ELSE cur
        /\ UNCHANGED <<regs, vec, mem, orig, timer>>
    BY <1>3 DEF Sret, program
  <2>2. csr'.sie = csr.spie
    BY <2>1 DEF Forget, IInv, CsrField
  <2>3. ~done' => Begun'
    <3>1. csr.spp = orig.prv /\ csr.spie = orig.sie /\ regs = Regs
      BY <2>1 DEF EmuInv, StateShape, PreciseRedirect
    <3> QED
      BY <2>1, <2>2, <3>1 DEF EmuInv, Begun
  <2> QED
    BY <2>1, <2>3 DEF EmuInv, StateShape, PreciseRedirect
<1>4. CASE UNCHANGED <<pc, prv, csr, regs, vec, mem, frames, tp, loc, cur, done, orig>>
           /\ timer'.time \in Nat /\ timer'.time >= timer.time
  <2>1. Begun => Begun'
    BY <1>4, <1>0 DEF Begun
  <2>2. PreciseRedirect => PreciseRedirect'
    BY <1>4 DEF PreciseRedirect
  <2> QED
    BY <1>4, <2>1, <2>2 DEF EmuInv, StateShape
<1>5. ASSUME NEW p \in Pages, Remap(p) PROVE EmuInv'
  BY <1>0, <1>4, <1>5 DEF Remap, program, monitor, history
<1>6. CASE Tick
  BY <1>0, <1>4, <1>6 DEF Tick, program, monitor, history, TimerInv
<1>7. CASE TimerInterrupt
  BY <1>0, <1>4, <1>7 DEF TimerInterrupt, program, monitor, history, TimerInv
<1>8. CASE GoOn
  <2>1. /\ pc' = "run" /\ done' = TRUE
        /\ vec' = [vl |-> VL, vstart |-> 0, vd |-> Vector]
        /\ mem' = Memory
        /\ orig' = [fcsr |-> slot, prv |-> prv, sie |-> csr.sie, time |-> 0]
    BY <1>8 DEF GoOn, EmuInv
  <2> QED
    BY <2>1, VectorAssumption, MemoryAssumption DEF EmuInv, StateShape, PreciseRedirect
<1> QED
  BY <1>1, <1>2, <1>3, <1>5, <1>6, <1>7, <1>8 DEF Environment

-----------------------------------------------------------------------------
(* The ways out of a handler *)

\* A redirection hands over what the handler has kept of the program.
LEMMA EmuRedirecting ==
  ASSUME IInv, EmuInv, pc \notin {"run", "super"},
         NEW epc, NEW mpp, NEW badaddr, NEW cause,
         Redirect(epc, mpp, badaddr, cause),
         mpp = orig.prv, epc = Resumes(cur), Ready(cur, vec, mem),
         CauseFits(cur, cause, badaddr),
         cause = "store fault" => StoredBelow(cur, mem, badaddr)
  PROVE  EmuInv'
<1>1. Begun
  BY DEF EmuInv
<1>2. /\ csr'.scause = cause
      /\ csr'.stval = badaddr
      /\ csr'.sepc = epc
      /\ csr'.spp = mpp
      /\ csr'.spie = csr.sie
      /\ csr'.sie = FALSE
  BY DEF Redirect, IInv, CsrField
<1>3. /\ pc' = "super"
      /\ regs' = Regs
      /\ UNCHANGED <<vec, mem, cur, done, orig, timer>>
  BY <1>1 DEF Redirect, Leave, history, Begun
<1>4. Begun'
  BY <1>1, <1>3 DEF Begun
<1>5. PreciseRedirect'
  <2>1. csr.sie = orig.sie /\ MemSound(cur, mem)
    BY <1>1 DEF Begun
  <2>2. \A a \in Address :
          IF Writes(cur) /\ a \in Touched(cur)
          THEN /\ mem[a] \in {Memory[a], Stored(cur, a)}
               /\ cause = "store fault" /\ a < badaddr => mem[a] = Stored(cur, a)
          ELSE mem[a] = Memory[a]
    BY <2>1 DEF MemSound, StoredBelow
  <2>3. /\ vec.vl = VL
        /\ \A e \in DOMAIN Vector :
             IF cur.k = "vload" /\ e \in Elements(cur) /\ e < vec.vstart
             THEN Loaded(cur, e, vec.vd[e])
             ELSE vec.vd[e] = Vector[e]
    BY DEF Ready, DoneTo, LoadedTo
  <2> QED
    BY <1>2, <1>3, <2>1, <2>2, <2>3 DEF PreciseRedirect, Resumes
<1>6. StateShape'
  BY <1>3 DEF EmuInv, StateShape
<1> QED
  BY <1>3, <1>4, <1>5, <1>6 DEF EmuInv

\* A handler refuses an instruction.
LEMMA EmuRefusing ==
  ASSUME IInv, EmuInv, pc \in Places \ {"vec"}, NEW cause, TrulyIllegal(cause),
         cause # "store fault", cur.k # "mask", CauseFits(cur, cause, Junk)
  PROVE  EmuInv'
<1>1. loc.mpp = orig.prv /\ Ready(cur, vec, mem)
  BY DEF EmuInv, Begun, AtPlace, Places
<1>2. Redirect("insn", loc.mpp, Junk, cause)
  BY DEF TrulyIllegal
<1>3. Resumes(cur) = "insn" /\ pc \notin {"run", "super"}
  BY DEF Resumes, Places
<1> QED
  BY <1>1, <1>2, <1>3, EmuRedirecting

\* A handler returns to the program.
LEMMA EmuReturning ==
  ASSUME EmuInv, NEW r, NEW t, Return(r, t),
         vec' = [f \in {"vl", "vstart", "vd"} |-> vec'[f]],
         vec'.vd = [e \in DOMAIN Vector |-> vec'.vd[e]],
         mem' = [a \in Address |-> mem'[a]]
  PROVE  EmuInv'
<1>1. pc' = "run" /\ done' = TRUE /\ orig' = orig
  BY DEF Return
<1>2. StateShape'
  BY <1>1 DEF EmuInv, StateShape
<1>3. PreciseRedirect'
  BY <1>1 DEF PreciseRedirect
<1> QED
  BY <1>1, <1>2, <1>3 DEF EmuInv

\* An access of a handler faults.
LEMMA EmuFaulting ==
  ASSUME IInv, EmuInv, pc \in Places \ {"vec"},
         NEW a, NEW cause, NEW adj, NEW epc, Fault(a, cause, adj, epc),
         FaultFits(cur, mem, adj, epc, cause, a)
  PROVE  EmuInv'
<1>1. Begun /\ pc \notin {"run", "super", "vec", "nested"}
  BY DEF EmuInv, Places
<1>2. /\ csr'.mcause = cause
      /\ csr'.mtval = a
      /\ csr'.sie = csr.sie
  BY DEF IInv, Fault, CsrField
<1>3. /\ loc'.adj = adj
      /\ loc'.epc = epc
      /\ loc'.mpp = loc.mpp
  BY DEF IInv, Fault, LocField
<1>4. frames'[1] = Regs
  <2>1. frames = <<frames[1]>> /\ frames' = Append(frames, NoRegs)
    BY <1>1 DEF IInv, Fault
  <2>2. frames[1] = Regs
    BY <1>1 DEF Begun
  <2>3. Append(<<Regs>>, NoRegs)[1] = Regs
    OBVIOUS
  <2> QED
    BY <2>1, <2>2, <2>3
<1>5. pc' = "nested" /\ UNCHANGED <<vec, mem, cur, done, orig, timer>>
  BY DEF Fault, program, history
<1>6. Ready(cur, vec, mem)
  BY <1>1 DEF Begun, AtPlace
<1>7. AtPlace(pc', cur', loc', csr', vec', mem')
  BY <1>2, <1>3, <1>5, <1>6 DEF AtPlace
<1>8. Begun'
  BY <1>1, <1>2, <1>3, <1>4, <1>5, <1>7 DEF Begun
<1>9. StateShape' /\ done' = done
  BY <1>5 DEF EmuInv, StateShape
<1>10. PreciseRedirect'
  BY <1>5 DEF PreciseRedirect
<1> QED
  BY <1>1, <1>5, <1>8, <1>9, <1>10 DEF EmuInv

\* A handler goes on with its own variables.
LEMMA EmuGoingOn ==
  ASSUME EmuInv, pc \in Places, pc' \in Places, NEW l, Local(l),
         l.mpp = loc.mpp, MemSound(cur, mem'),
         AtPlace(pc', cur, l, csr, vec', mem'),
         vec' = [f \in {"vl", "vstart", "vd"} |-> vec'[f]],
         vec'.vd = [e \in DOMAIN Vector |-> vec'.vd[e]],
         mem' = [a \in Address |-> mem'[a]]
  PROVE  EmuInv'
<1>1. Begun /\ pc \notin {"run", "super", "nested"}
           /\ pc' \notin {"run", "super", "nested"}
  BY DEF EmuInv, Places
<1>2. loc' = l /\ UNCHANGED <<csr, frames, tp, cur, done, orig, timer>>
  BY DEF Local, history
<1>3. Begun'
  BY <1>1, <1>2 DEF Begun
<1>4. StateShape' /\ done' = done
  BY <1>2 DEF EmuInv, StateShape
<1>5. PreciseRedirect'
  BY <1>1 DEF PreciseRedirect
<1> QED
  BY <1>1, <1>2, <1>3, <1>4, <1>5 DEF EmuInv

-----------------------------------------------------------------------------
(* Bytes, elements and addresses *)

LEMMA AppendRead ==
  ASSUME NEW a \in Int, NEW n \in Nat
  PROVE  Append(Read(a, n), Memory[a + n]) = Read(a, n + 1)
<1>1. PICK S : \A i \in 1 .. n + 1 : Memory[a + i - 1] \in S
  <2>1. \A i \in 1 .. n + 1 :
          Memory[a + i - 1] \in {Memory[a + j - 1] : j \in 1 .. n + 1}
    OBVIOUS
  <2> QED
    BY <2>1
<1>2. Read(a, n) \in Seq(S) /\ Len(Read(a, n)) = n
  BY <1>1 DEF Read
<1>3. Memory[a + n] \in S
  BY <1>1
<1>4. /\ Append(Read(a, n), Memory[a + n]) \in Seq(S)
      /\ Len(Append(Read(a, n), Memory[a + n])) = n + 1
  BY <1>2, <1>3
<1>5. PICK m \in Nat : m = n + 1
  OBVIOUS
<1>6. Read(a, m) \in Seq(S) /\ Len(Read(a, m)) = m
  BY <1>1, <1>5 DEF Read
<1>7. ASSUME NEW i \in 1 .. m
      PROVE  Append(Read(a, n), Memory[a + n])[i] = Read(a, m)[i]
  <2>1. Read(a, m)[i] = Memory[a + i - 1]
    BY DEF Read
  <2>2. CASE i \in 1 .. n
    BY <1>2, <1>3, <2>1, <2>2 DEF Read
  <2>3. CASE i = m
    <3>1. Append(Read(a, n), Memory[a + n])[n + 1] = Memory[a + n]
      BY <1>2, <1>3
    <3>2. a + i - 1 = a + n
      BY <1>5, <2>3
    <3> QED
      BY <1>5, <2>1, <2>3, <3>1, <3>2
  <2>4. i \in 1 .. n \/ i = m
    BY <1>5
  <2> QED
    BY <2>2, <2>3, <2>4
<1>8. Append(Read(a, n), Memory[a + n]) = Read(a, m)
  BY <1>4, <1>5, <1>6, <1>7
<1> QED
  BY <1>5, <1>8

\* The elements of a vector are apart.
LEMMA Apart ==
  ASSUME NEW in \in Code, in.k \in VectorOps, NEW e \in Elements(in),
         NEW f \in Elements(in), e < f
  PROVE  Base(in, e) + ELEN <= Base(in, f) /\ Base(in, e) \in Int /\ Base(in, f) \in Int
<1>1. in.addr \in Int /\ in.stride \in Nat /\ in.stride >= ELEN
  BY CodeAssumption DEF WellFormed, VectorOps
<1>2. e \in Nat /\ f \in Nat /\ ELEN \in Nat
  BY VectorAssumption DEF Elements
<1>3. PICK s \in Nat : s = in.stride
  BY <1>1
<1>4. PICK b \in Int : b = in.addr
  BY <1>1
<1>5. \A m, n, k, x \in Nat : m < n /\ x <= k => m * k + x <= n * k
  <2>1. \A m, d, k, x \in Nat : x <= k => m * k + x <= (m + d + 1) * k
    <3>1. \A m, d, k \in Nat : (m + d + 1) * k = m * k + d * k + k /\ d * k \in Nat
      OBVIOUS
    <3> QED
      BY <3>1
  <2> SUFFICES ASSUME NEW m \in Nat, NEW n \in Nat, NEW k \in Nat, NEW x \in Nat,
                      m < n, x <= k
               PROVE  m * k + x <= n * k
    OBVIOUS
  <2>2. n - m - 1 \in Nat /\ n = m + (n - m - 1) + 1
    OBVIOUS
  <2> QED
    BY <2>1, <2>2
<1>6. e * s + ELEN <= f * s
  BY <1>1, <1>2, <1>3, <1>5
<1>7. e * s \in Int /\ f * s \in Int
  BY <1>2
<1> QED
  BY <1>2, <1>3, <1>4, <1>6, <1>7 DEF Base

LEMMA BaseIsAddress ==
  ASSUME NEW in \in Code, in.k \in VectorOps, NEW e \in Elements(in)
  PROVE  Base(in, e) \in Int
<1>1. in.addr \in Int /\ in.stride \in Nat
  BY CodeAssumption DEF WellFormed, VectorOps
<1>2. e \in Nat
  BY VectorAssumption DEF Elements
<1>3. e * in.stride \in Int
  BY <1>1, <1>2
<1> QED
  BY <1>1, <1>3 DEF Base

\* What a store writes at a byte of an element.
LEMMA StoredElement ==
  ASSUME NEW in \in Code, in.k = "vstore", NEW e \in Elements(in),
         NEW j \in 0 .. ELEN - 1
  PROVE  /\ Base(in, e) + j \in Touched(in)
         /\ Base(in, e) + j \in Address
         /\ Stored(in, Base(in, e) + j) = Bit(Vector[e], j)
<1> DEFINE a == Base(in, e) + j
<1>0. ELEN \in Nat /\ Base(in, e) \in Int
  BY VectorAssumption, BaseIsAddress DEF VectorOps
<1>1. a \in ElementBytes(in, e)
  BY <1>0 DEF ElementBytes
<1>2. a \in Touched(in)
  BY <1>1 DEF Touched, Loads, Stores
<1>3. ~in.fof /\ ElementBytes(in, e) \subseteq Address
  BY CodeAssumption DEF WellFormed
<1>4. ASSUME NEW f \in Elements(in), a \in ElementBytes(in, f) PROVE f = e
  <2>1. Base(in, f) \in Int
    BY BaseIsAddress DEF VectorOps
  <2>2. e \in Nat /\ f \in Nat
    BY VectorAssumption DEF Elements
  <2>3. Base(in, f) <= a /\ a <= Base(in, f) + ELEN - 1
    BY <1>0, <1>4, <2>1 DEF ElementBytes
  <2>4. ~(e < f)
    <3>1. e < f => Base(in, e) + ELEN <= Base(in, f)
      BY Apart DEF VectorOps
    <3> QED
      BY <1>0, <2>1, <2>3, <3>1
  <2>5. ~(f < e)
    <3>1. f < e => Base(in, f) + ELEN <= Base(in, e)
      BY Apart DEF VectorOps
    <3> QED
      BY <1>0, <2>1, <2>3, <3>1
  <2> QED
    BY <2>2, <2>4, <2>5
<1>5. (CHOOSE f \in Elements(in) : a \in ElementBytes(in, f)) = e
  BY <1>1, <1>4
<1>6. Stored(in, a) = Bit(Vector[e], a - Base(in, e))
  BY <1>5 DEF Stored, Stores
<1>7. a - Base(in, e) = j
  BY <1>0
<1> QED
  BY <1>1, <1>2, <1>3, <1>6, <1>7

\* Where a store touches memory, it is in one of its elements.
LEMMA TouchedElement ==
  ASSUME NEW in \in Code, in.k = "vstore", NEW a \in Touched(in)
  PROVE  \E e \in Elements(in), j \in 0 .. ELEN - 1 : a = Base(in, e) + j
<1>1. PICK e \in Elements(in) : a \in ElementBytes(in, e)
  BY DEF Touched, Loads, Stores
<1>2. Base(in, e) \in Int /\ ELEN \in Nat
  BY VectorAssumption, BaseIsAddress DEF VectorOps
<1>3. a \in Int /\ Base(in, e) <= a /\ a <= Base(in, e) + ELEN - 1
  BY <1>1, <1>2 DEF ElementBytes
<1>4. a - Base(in, e) \in 0 .. ELEN - 1 /\ a = Base(in, e) + (a - Base(in, e))
  BY <1>2, <1>3
<1> QED
  BY <1>4

\* The bytes of an element make it up.
LEMMA LoadedValue ==
  ASSUME ValuesRight, NEW in \in Code, in.k = "vload", NEW e \in Elements(in),
         e = 0 \/ ~in.fof
  PROVE  Loaded(in, e, Value(Read(Base(in, e), ELEN)))
<1>1. Base(in, e) \in Int /\ ELEN \in Nat \ {0} /\ ELEN \in Lengths
  BY VectorAssumption, BaseIsAddress DEF VectorOps, Lengths
<1>2. ElementBytes(in, e) \subseteq Address
  BY CodeAssumption DEF WellFormed
<1>3. \A i \in 1 .. ELEN : Base(in, e) + i - 1 \in Address
  BY <1>1, <1>2 DEF ElementBytes
<1>4. \A i \in 1 .. ELEN : Memory[Base(in, e) + i - 1] \in {0, 1}
  BY <1>3, MemoryAssumption
<1>5. Read(Base(in, e), ELEN) \in BytesOfLength(ELEN)
  BY <1>4 DEF Read, BytesOfLength
<1>6. \A i \in 0 .. ELEN - 1 :
        Bit(Value(Read(Base(in, e), ELEN)), i) = Read(Base(in, e), ELEN)[i + 1]
  BY <1>1, <1>5 DEF ValuesRight
<1>7. ASSUME NEW i \in 0 .. ELEN - 1
      PROVE  Read(Base(in, e), ELEN)[i + 1] = Memory[Base(in, e) + i]
  <2>1. i + 1 \in 1 .. ELEN /\ Base(in, e) + (i + 1) - 1 = Base(in, e) + i
    BY <1>1
  <2> QED
    BY <2>1 DEF Read
<1> QED
  BY <1>6, <1>7 DEF Loaded

\* What is stored up to a byte of an element.
LEMMA StoredUpTo ==
  ASSUME NEW in \in Code, in.k = "vstore", NEW e \in Elements(in), NEW m,
         NEW i \in 0 .. ELEN - 1, StoredTo(in, m, e), ElementStored(in, m, e, i)
  PROVE  StoredBelow(in, m, Base(in, e) + i)
<1> SUFFICES ASSUME NEW a \in Touched(in), a < Base(in, e) + i
             PROVE  m[a] = Stored(in, a)
  BY DEF StoredBelow
<1>1. PICK f \in Elements(in), j \in 0 .. ELEN - 1 : a = Base(in, f) + j
  BY TouchedElement
<1>2. Base(in, e) \in Int /\ Base(in, f) \in Int /\ ELEN \in Nat
  BY VectorAssumption, BaseIsAddress DEF VectorOps
<1>3. e \in Nat /\ f \in Nat
  BY VectorAssumption DEF Elements
<1>4. Stored(in, a) = Bit(Vector[f], j)
  BY <1>1, StoredElement
<1>5. CASE f < e
  <2>1. ElementStored(in, m, f, ELEN)
    BY <1>5 DEF StoredTo
  <2> QED
    BY <1>1, <1>4, <2>1 DEF ElementStored
<1>6. CASE f = e
  <2>1. j \in 0 .. i - 1
    BY <1>1, <1>2, <1>6
  <2> QED
    BY <1>1, <1>4, <1>6, <2>1 DEF ElementStored
<1>7. CASE e < f
  <2>1. Base(in, e) + ELEN <= Base(in, f)
    BY <1>7, Apart DEF VectorOps
  <2> QED
    BY <1>1, <1>2, <2>1
<1> QED
  BY <1>3, <1>5, <1>6, <1>7

\* One more byte of an element is stored.
LEMMA StoringByte ==
  ASSUME NEW in \in Code, in.k = "vstore", NEW e \in Elements(in), NEW m,
         NEW i \in 0 .. ELEN - 1, m = [a \in Address |-> m[a]],
         MemSound(in, m), StoredTo(in, m, e), ElementStored(in, m, e, i)
  PROVE  LET new == [m EXCEPT ![Base(in, e) + i] = Bit(Vector[e], i)]
         IN  /\ new = [a \in Address |-> new[a]]
             /\ MemSound(in, new)
             /\ StoredTo(in, new, e)
             /\ ElementStored(in, new, e, i + 1)
<1> DEFINE at == Base(in, e) + i
           new == [m EXCEPT ![at] = Bit(Vector[e], i)]
<1>1. at \in Touched(in) /\ at \in Address /\ Stored(in, at) = Bit(Vector[e], i)
  BY StoredElement
<1>2. /\ new = [a \in Address |-> new[a]]
      /\ new[at] = Stored(in, at)
      /\ \A a : a \in Address /\ a # at => new[a] = m[a]
  BY <1>1
<1>3. MemSound(in, new)
  BY <1>1, <1>2 DEF MemSound, Writes
<1>4. ASSUME NEW f \in Elements(in), NEW j \in 0 .. ELEN - 1,
             (f = e /\ j = i) \/ m[Base(in, f) + j] = Bit(Vector[f], j)
      PROVE  new[Base(in, f) + j] = Bit(Vector[f], j)
  <2>1. /\ Base(in, f) + j \in Address
        /\ Stored(in, Base(in, f) + j) = Bit(Vector[f], j)
    BY StoredElement
  <2>2. CASE Base(in, f) + j = at
    BY <1>2, <2>1, <2>2
  <2>3. CASE Base(in, f) + j # at
    BY <1>2, <1>4, <2>1, <2>3
  <2> QED
    BY <2>2, <2>3
<1>5. StoredTo(in, new, e)
  <2> SUFFICES ASSUME NEW f \in Elements(in), f < e, NEW j \in 0 .. ELEN - 1
               PROVE  new[Base(in, f) + j] = Bit(Vector[f], j)
    BY DEF StoredTo, ElementStored
  <2>1. m[Base(in, f) + j] = Bit(Vector[f], j)
    BY DEF StoredTo, ElementStored
  <2> QED
    BY <1>4, <2>1
<1>6. ElementStored(in, new, e, i + 1)
  <2> SUFFICES ASSUME NEW j \in 0 .. (i + 1) - 1
               PROVE  new[Base(in, e) + j] = Bit(Vector[e], j)
    BY DEF ElementStored
  <2>1. j \in 0 .. ELEN - 1 /\ (j = i \/ j \in 0 .. i - 1)
    BY VectorAssumption
  <2>2. j = i \/ m[Base(in, e) + j] = Bit(Vector[e], j)
    BY <2>1 DEF ElementStored
  <2> QED
    BY <1>4, <2>1, <2>2
<1> QED
  BY <1>2, <1>3, <1>5, <1>6

-----------------------------------------------------------------------------
(* Vector loads and stores *)

\* An element more is done.
LEMMA OneMore ==
  ASSUME NEW in \in Code, NEW n \in 0 .. VL - 1, NEW vd, NEW new, NEW m,
         LoadedTo(in, vd, n), StoredTo(in, m, n),
         \A e \in DOMAIN Vector : e # n => new[e] = vd[e],
         IF in.k = "vload" /\ n \in Elements(in) THEN Loaded(in, n, new[n])
         ELSE new[n] = vd[n],
         in.k = "vstore" /\ n \in Elements(in) => ElementStored(in, m, n, ELEN)
  PROVE  LoadedTo(in, new, n + 1) /\ StoredTo(in, m, n + 1)
<1>1. \A e \in DOMAIN Vector : e \in Nat /\ (e < n + 1 <=> e < n \/ e = n)
  BY VectorAssumption
<1>2. n \in DOMAIN Vector /\ ~(n < n)
  BY VectorAssumption
<1>3. ASSUME NEW e \in DOMAIN Vector
      PROVE  IF in.k = "vload" /\ e \in Elements(in) /\ (e < n \/ e = n)
             THEN Loaded(in, e, new[e]) ELSE new[e] = Vector[e]
  <2>1. CASE e = n
    <3>1. vd[n] = Vector[n]
      BY <1>2 DEF LoadedTo
    <3> QED
      BY <2>1, <3>1
  <2>2. CASE e # n
    <3>1. new[e] = vd[e]
      BY <2>2
    <3> QED
      BY <2>2, <3>1 DEF LoadedTo
  <2> QED
    BY <2>1, <2>2
<1>4. LoadedTo(in, new, n + 1)
  BY <1>1, <1>3 DEF LoadedTo
<1>5. StoredTo(in, m, n + 1)
  BY <1>1 DEF StoredTo, Elements
<1> QED
  BY <1>4, <1>5

\* The loop goes on to the next element, or the instruction is over.
LEMMA EmuVecNext ==
  ASSUME IInv, EmuInv, pc \in {"vec", "vbytes"}, NEW v, VecNext(v),
         v = [f \in {"vl", "vstart", "vd"} |-> v[f]],
         v.vd = [e \in DOMAIN Vector |-> v.vd[e]],
         mem' = [a \in Address |-> mem'[a]], MemSound(cur, mem'),
         cur.k \in VectorOps, loc.vl = VL, loc.e \in 0 .. VL - 1,
         LoadedTo(cur, v.vd, loc.e + 1), StoredTo(cur, mem', loc.e + 1)
  PROVE  EmuInv'
<1>1. CASE loc.e + 1 < loc.vl /\ ~cur.fof
  <2> DEFINE l == [loc EXCEPT !.e = @ + 1]
  <2>1. pc' = "vec" /\ vec' = v /\ Local(l)
    BY <1>1 DEF VecNext
  <2>2. l.mpp = loc.mpp /\ l.e = loc.e + 1 /\ l.vl = loc.vl
    BY DEF IInv, LocField
  <2>3. loc.e + 1 \in 0 .. VL - 1
    BY <1>1, VectorAssumption
  <2>4. DoneTo(cur, v.vd, mem', loc.e + 1)
    BY <1>1, <2>3 DEF DoneTo
  <2>5. AtPlace(pc', cur, l, csr, vec', mem')
    BY <2>1, <2>2, <2>4 DEF AtPlace
  <2>6. pc \in Places /\ pc' \in Places
    BY <2>1 DEF Places
  <2> HIDE DEF l
  <2> QED
    BY <2>1, <2>2, <2>5, <2>6, EmuGoingOn
<1>2. CASE ~(loc.e + 1 < loc.vl /\ ~cur.fof)
  <2>1. /\ vec' = [v EXCEPT !.vl = IF cur.fof THEN 1 ELSE loc.vl, !.vstart = 0]
        /\ Return(frames[1], tp)
    BY <1>2 DEF VecNext
  <2>2. /\ vec' = [f \in {"vl", "vstart", "vd"} |-> vec'[f]]
        /\ vec'.vd = v.vd
    BY <2>1
  <2> QED
    BY <2>1, <2>2, EmuReturning
<1> QED
  BY <1>1, <1>2

LEMMA EmuVecMasked == IInv /\ EmuInv /\ VecMasked => EmuInv'
<1> SUFFICES ASSUME IInv, EmuInv, VecMasked PROVE EmuInv'
  OBVIOUS
<1>1. pc = "vec" /\ ~cur.mask[loc.e] /\ VecNext(vec) /\ UNCHANGED mem
  BY DEF VecMasked
<1>2. Begun /\ StateShape
  BY <1>1 DEF EmuInv
<1>3. /\ cur \in Code
      /\ MemSound(cur, mem)
      /\ cur.k \in VectorOps
      /\ loc.vl = VL
      /\ DoneTo(cur, vec.vd, mem, loc.e)
  BY <1>1, <1>2 DEF Begun, AtPlace
<1>4. /\ loc.e \in 0 .. VL - 1
      /\ LoadedTo(cur, vec.vd, loc.e)
      /\ StoredTo(cur, mem, loc.e)
  BY <1>3 DEF DoneTo
<1>5. loc.e \notin Elements(cur)
  BY <1>1 DEF Elements
<1>6. LoadedTo(cur, vec.vd, loc.e + 1) /\ StoredTo(cur, mem, loc.e + 1)
  BY <1>3, <1>4, <1>5, OneMore
<1>7. /\ vec = [f \in {"vl", "vstart", "vd"} |-> vec[f]]
      /\ vec.vd = [e \in DOMAIN Vector |-> vec.vd[e]]
      /\ mem' = [a \in Address |-> mem'[a]]
      /\ mem' = mem
  BY <1>1, <1>2 DEF StateShape
<1> QED
  BY <1>1, <1>3, <1>4, <1>6, <1>7, EmuVecNext

LEMMA EmuVecElement == IInv /\ EmuInv /\ VecElement => EmuInv'
<1> SUFFICES ASSUME IInv, EmuInv, VecElement PROVE EmuInv'
  OBVIOUS
<1> DEFINE l == [loc EXCEPT !.i = 0, !.bytes = <<>>]
<1>1. /\ pc = "vec" /\ pc' = "vbytes"
      /\ cur.mask[loc.e]
      /\ vec' = [vec EXCEPT !.vl = loc.vl, !.vstart = loc.e]
      /\ Local(l)
      /\ mem' = mem
  BY DEF VecElement
<1>2. Begun /\ StateShape
  BY <1>1 DEF EmuInv
<1>3. /\ cur \in Code
      /\ MemSound(cur, mem)
      /\ cur.k \in VectorOps
      /\ loc.vl = VL
      /\ DoneTo(cur, vec.vd, mem, loc.e)
  BY <1>1, <1>2 DEF Begun, AtPlace
<1>4. /\ vec' = [f \in {"vl", "vstart", "vd"} |-> vec'[f]]
      /\ vec'.vd = [e \in DOMAIN Vector |-> vec'.vd[e]]
      /\ vec'.vl = VL
      /\ vec'.vstart = loc.e
      /\ vec'.vd = vec.vd
      /\ mem' = [a \in Address |-> mem'[a]]
  BY <1>1, <1>2, <1>3 DEF StateShape
<1>5. /\ l.mpp = loc.mpp
      /\ l.e = loc.e
      /\ l.vl = loc.vl
      /\ l.i = 0
      /\ l.bytes = <<>>
  BY DEF IInv, LocField
<1>6. Ready(cur, vec', mem')
  BY <1>1, <1>3, <1>4 DEF Ready
<1>7. loc.e \in Elements(cur)
  BY <1>1, <1>3, VectorAssumption DEF DoneTo, Elements
<1>8. /\ Read(Base(cur, loc.e), 0) = <<>>
      /\ ElementStored(cur, mem', loc.e, 0)
      /\ 0 \in 0 .. ELEN - 1
  BY VectorAssumption DEF Read, ElementStored
<1>9. AtPlace(pc', cur, l, csr, vec', mem')
  BY <1>1, <1>3, <1>4, <1>5, <1>6, <1>7, <1>8 DEF AtPlace
<1>10. pc \in Places /\ pc' \in Places
  BY <1>1 DEF Places
<1> HIDE DEF l
<1> QED
  BY <1>1, <1>3, <1>4, <1>5, <1>9, <1>10, EmuGoingOn

\* What holds at a byte of an element.
LEMMA AtElement ==
  ASSUME EmuInv, pc = "vbytes", cur.k \in VectorOps
  PROVE  /\ cur \in Code
         /\ MemSound(cur, mem)
         /\ loc.vl = VL
         /\ loc.e \in Elements(cur)
         /\ loc.i \in 0 .. ELEN - 1
         /\ cur.k = "vload" => loc.bytes = Read(Base(cur, loc.e), loc.i)
         /\ cur.k = "vstore" => ElementStored(cur, mem, loc.e, loc.i)
         /\ loc.e \in 0 .. VL - 1
         /\ cur.fof => loc.e = 0
         /\ LoadedTo(cur, vec.vd, loc.e)
         /\ StoredTo(cur, mem, loc.e)
         /\ StateShape
<1>1. Begun /\ StateShape
  BY DEF EmuInv
<1>2. AtPlace(pc, cur, loc, csr, vec, mem) /\ cur \in Code /\ MemSound(cur, mem)
  BY <1>1 DEF Begun
<1>3. /\ loc.vl = VL
      /\ loc.e = vec.vstart
      /\ loc.e \in Elements(cur)
      /\ loc.i \in 0 .. ELEN - 1
      /\ cur.k = "vload" => loc.bytes = Read(Base(cur, loc.e), loc.i)
      /\ cur.k = "vstore" => ElementStored(cur, mem, loc.e, loc.i)
      /\ Ready(cur, vec, mem)
  BY <1>2 DEF AtPlace
<1> QED
  BY <1>1, <1>2, <1>3 DEF Ready, DoneTo

\* The byte that a vector load comes to.
LEMMA LoadingElement ==
  ASSUME EmuInv, pc = "vbytes", cur.k = "vload"
  PROVE  LET a == Base(cur, loc.e) + loc.i
         IN  /\ a \in Touched(cur)
             /\ Append(loc.bytes, mem[a]) = Read(Base(cur, loc.e), loc.i + 1)
<1> DEFINE a == Base(cur, loc.e) + loc.i
<1>1. /\ cur \in Code
      /\ MemSound(cur, mem)
      /\ loc.e \in Elements(cur)
      /\ loc.i \in 0 .. ELEN - 1
      /\ loc.bytes = Read(Base(cur, loc.e), loc.i)
      /\ cur.fof => loc.e = 0
  BY AtElement DEF VectorOps
<1>2. Base(cur, loc.e) \in Int /\ ELEN \in Nat \ {0} /\ loc.i \in Nat
  BY <1>1, VectorAssumption, BaseIsAddress DEF VectorOps
<1>3. a \in ElementBytes(cur, loc.e)
  BY <1>1, <1>2 DEF ElementBytes
<1>4. a \in Address /\ a \in Touched(cur) /\ ~Writes(cur)
  <2>1. ElementBytes(cur, loc.e) \subseteq Address
    BY <1>1, CodeAssumption DEF WellFormed
  <2> QED
    BY <1>1, <1>3, <2>1 DEF Touched, Writes, Loads, Stores
<1>5. mem[a] = Memory[a]
  BY <1>1, <1>4 DEF MemSound
<1> QED
  BY <1>1, <1>2, <1>4, <1>5, AppendRead

LEMMA EmuVecLoadByte == ValuesRight /\ IInv /\ EmuInv /\ VecLoadByte => EmuInv'
<1> SUFFICES ASSUME ValuesRight, IInv, EmuInv, VecLoadByte PROVE EmuInv'
  OBVIOUS
<1> DEFINE a == Base(cur, loc.e) + loc.i
           bytes == Append(loc.bytes, mem[a])
<1>1. pc = "vbytes" /\ cur.k = "vload"
  BY DEF VecLoadByte
<1>2. AtPlace(pc, cur, loc, csr, vec, mem)
  BY <1>1 DEF EmuInv, Begun
<1>3. /\ cur \in Code
      /\ MemSound(cur, mem)
      /\ loc.vl = VL
      /\ loc.e \in Elements(cur)
      /\ loc.i \in 0 .. ELEN - 1
      /\ loc.e \in 0 .. VL - 1
      /\ cur.fof => loc.e = 0
      /\ LoadedTo(cur, vec.vd, loc.e)
      /\ StoredTo(cur, mem, loc.e)
      /\ StateShape
  BY <1>1, AtElement DEF VectorOps
<1>4. loc.e = vec.vstart /\ Ready(cur, vec, mem)
  BY <1>1, <1>2 DEF AtPlace
<1>5. ELEN \in Nat \ {0} /\ loc.i \in Nat
  BY <1>3, VectorAssumption
<1>7. a \in Touched(cur) /\ bytes = Read(Base(cur, loc.e), loc.i + 1)
  BY <1>1, LoadingElement
<1>8. ~Writes(cur)
  BY <1>1 DEF Writes, Stores
<1>9. CASE Fault(a, "load fault", "MPRV", "insn")
  <2>1. FaultFits(cur, mem, "MPRV", "insn", "load fault", a)
    BY <1>1, <1>7, <1>8 DEF FaultFits, CauseFits, Resumes
  <2>2. pc \in Places \ {"vec"}
    BY <1>1 DEF Places
  <2> QED
    BY <1>9, <2>1, <2>2, EmuFaulting
<1>10. CASE /\ loc.i + 1 < ELEN
            /\ pc' = pc
            /\ Local([loc EXCEPT !.i = @ + 1, !.bytes = bytes])
            /\ UNCHANGED <<vec, mem>>
  <2> DEFINE l == [loc EXCEPT !.i = @ + 1, !.bytes = bytes]
  <2>1. /\ l.mpp = loc.mpp
        /\ l.e = loc.e
        /\ l.vl = loc.vl
        /\ l.i = loc.i + 1
        /\ l.bytes = bytes
    BY DEF IInv, LocField
  <2>2. loc.i + 1 \in 0 .. ELEN - 1
    BY <1>5, <1>10
  <2>3. Local(l)
    BY <1>10
  <2> HIDE DEF l, bytes, a
  <2>4. AtPlace(pc', cur, l, csr, vec', mem')
    BY <1>1, <1>3, <1>4, <1>7, <1>10, <2>1, <2>2 DEF AtPlace, VectorOps
  <2>5. pc \in Places /\ pc' \in Places
    BY <1>1, <1>10 DEF Places
  <2>6. /\ vec' = [f \in {"vl", "vstart", "vd"} |-> vec'[f]]
        /\ vec'.vd = [e \in DOMAIN Vector |-> vec'.vd[e]]
        /\ mem' = [x \in Address |-> mem'[x]]
        /\ MemSound(cur, mem')
    BY <1>3, <1>10 DEF StateShape
  <2> QED
    BY <2>1, <2>3, <2>4, <2>5, <2>6, EmuGoingOn
<1>11. CASE /\ ~(loc.i + 1 < ELEN)
            /\ VecNext([vec EXCEPT !.vd[loc.e] = Value(bytes), !.vl = Junk,
                                   !.vstart = 0])
            /\ UNCHANGED mem
  <2> DEFINE v == [vec EXCEPT !.vd[loc.e] = Value(bytes), !.vl = Junk, !.vstart = 0]
  <2>1. loc.i + 1 = ELEN
    BY <1>3, <1>5, <1>11
  <2>2. Loaded(cur, loc.e, Value(bytes))
    BY <1>1, <1>3, <1>7, <2>1, LoadedValue
  <2>3. /\ v = [f \in {"vl", "vstart", "vd"} |-> v[f]]
        /\ v.vd = [vec.vd EXCEPT ![loc.e] = Value(bytes)]
    BY <1>3 DEF StateShape
  <2>4. /\ v.vd = [e \in DOMAIN Vector |-> v.vd[e]]
        /\ v.vd[loc.e] = Value(bytes)
        /\ \A e \in DOMAIN Vector : e # loc.e => v.vd[e] = vec.vd[e]
    BY <1>3, <2>3 DEF StateShape, Elements
  <2>5. mem' = mem /\ mem' = [x \in Address |-> mem'[x]] /\ VecNext(v)
    BY <1>3, <1>11 DEF StateShape
  <2> HIDE DEF v, bytes, a
  <2>6. LoadedTo(cur, v.vd, loc.e + 1) /\ StoredTo(cur, mem, loc.e + 1)
    BY <1>1, <1>3, <2>2, <2>4, OneMore
  <2> QED
    BY <1>1, <1>3, <2>3, <2>4, <2>5, <2>6, EmuVecNext DEF VectorOps
<1> QED
  BY <1>9, <1>10, <1>11 DEF VecLoadByte

LEMMA EmuVecStoreByte == IInv /\ EmuInv /\ VecStoreByte => EmuInv'
<1> SUFFICES ASSUME IInv, EmuInv, VecStoreByte PROVE EmuInv'
  OBVIOUS
<1> DEFINE a == Base(cur, loc.e) + loc.i
           new == [mem EXCEPT ![a] = Bit(Vector[loc.e], loc.i)]
<1>1. pc = "vbytes" /\ cur.k = "vstore"
  BY DEF VecStoreByte
<1>2. AtPlace(pc, cur, loc, csr, vec, mem)
  BY <1>1 DEF EmuInv, Begun
<1>3. /\ cur \in Code
      /\ MemSound(cur, mem)
      /\ loc.vl = VL
      /\ loc.e \in Elements(cur)
      /\ loc.i \in 0 .. ELEN - 1
      /\ ElementStored(cur, mem, loc.e, loc.i)
      /\ loc.e \in 0 .. VL - 1
      /\ cur.fof => loc.e = 0
      /\ LoadedTo(cur, vec.vd, loc.e)
      /\ StoredTo(cur, mem, loc.e)
      /\ StateShape
  BY <1>1, AtElement DEF VectorOps
<1>4. loc.e = vec.vstart /\ Ready(cur, vec, mem)
  BY <1>1, <1>2 DEF AtPlace
<1>5. ELEN \in Nat \ {0} /\ loc.i \in Nat
  BY <1>3, VectorAssumption
<1>6. a \in Address /\ a \in Touched(cur)
  BY <1>1, <1>3, StoredElement
<1>7. vec.vd[loc.e] = Vector[loc.e]
  BY <1>1, <1>3 DEF LoadedTo, Elements
<1>8. /\ new = [x \in Address |-> new[x]]
      /\ MemSound(cur, new)
      /\ StoredTo(cur, new, loc.e)
      /\ ElementStored(cur, new, loc.e, loc.i + 1)
  BY <1>1, <1>3, StoringByte DEF StateShape
<1>9. CASE Fault(a, "store fault", "MPRV", "insn")
  <2>1. StoredBelow(cur, mem, a)
    BY <1>1, <1>3, StoredUpTo
  <2>2. Writes(cur)
    BY <1>1 DEF Writes
  <2>3. FaultFits(cur, mem, "MPRV", "insn", "store fault", a)
    BY <1>1, <1>6, <2>1, <2>2 DEF FaultFits, CauseFits, Resumes
  <2>4. pc \in Places \ {"vec"}
    BY <1>1 DEF Places
  <2> QED
    BY <1>9, <2>3, <2>4, EmuFaulting
<1>10. CASE /\ loc.i + 1 < ELEN
            /\ mem' = new
            /\ pc' = pc
            /\ Local([loc EXCEPT !.i = @ + 1])
            /\ UNCHANGED vec
  <2> DEFINE l == [loc EXCEPT !.i = @ + 1]
  <2>1. /\ l.mpp = loc.mpp
        /\ l.e = loc.e
        /\ l.vl = loc.vl
        /\ l.i = loc.i + 1
    BY DEF IInv, LocField
  <2>2. loc.i + 1 \in 0 .. ELEN - 1
    BY <1>5, <1>10
  <2>3. Local(l) /\ mem' = new /\ vec' = vec /\ pc' = "vbytes"
    BY <1>1, <1>10
  <2> HIDE DEF l, new, a
  <2>4. Ready(cur, vec, new)
    BY <1>3, <1>4, <1>8 DEF Ready, DoneTo
  <2>5. AtPlace(pc', cur, l, csr, vec', mem')
    BY <1>1, <1>3, <1>4, <1>8, <2>1, <2>2, <2>3, <2>4 DEF AtPlace, VectorOps
  <2>6. pc \in Places /\ pc' \in Places
    BY <1>1, <1>10 DEF Places
  <2>7. /\ vec' = [f \in {"vl", "vstart", "vd"} |-> vec'[f]]
        /\ vec'.vd = [e \in DOMAIN Vector |-> vec'.vd[e]]
        /\ mem' = [x \in Address |-> mem'[x]]
        /\ MemSound(cur, mem')
    BY <1>3, <1>8, <2>3 DEF StateShape
  <2> QED
    BY <2>1, <2>3, <2>5, <2>6, <2>7, EmuGoingOn
<1>11. CASE /\ ~(loc.i + 1 < ELEN)
            /\ mem' = new
            /\ VecNext(vec)
  <2>1. loc.i + 1 = ELEN
    BY <1>3, <1>5, <1>11
  <2> HIDE DEF new, a
  <2>2. LoadedTo(cur, vec.vd, loc.e + 1) /\ StoredTo(cur, new, loc.e + 1)
    BY <1>1, <1>3, <1>8, <2>1, OneMore
  <2>3. /\ vec = [f \in {"vl", "vstart", "vd"} |-> vec[f]]
        /\ vec.vd = [e \in DOMAIN Vector |-> vec.vd[e]]
    BY <1>3 DEF StateShape
  <2> QED
    BY <1>1, <1>3, <1>8, <1>11, <2>2, <2>3, EmuVecNext DEF VectorOps
<1> QED
  BY <1>7, <1>9, <1>10, <1>11, Zenon DEF VecStoreByte

-----------------------------------------------------------------------------
(* Misaligned loads and stores *)

\* What a store that is no vector's writes at a byte.
LEMMA StoredScalar ==
  ASSUME NEW in \in Code, in.k \in Stores, NEW j \in 0 .. in.len - 1
  PROVE  /\ in.addr \in Int
         /\ in.len \in Nat
         /\ in.addr + j \in Touched(in)
         /\ in.addr + j \in Address
         /\ Stored(in, in.addr + j) = Bit(Target(in), j)
         /\ Touched(in) = Bytes(in)
         /\ Writes(in)
<1>1. in.addr \in Int /\ in.len \in 1 .. XBITS /\ Bytes(in) \subseteq Address
  BY CodeAssumption DEF WellFormed
<1>2. in.len \in Nat
  BY <1>1, WidthAssumption
<1>3. in.addr + j \in Bytes(in) /\ (in.addr + j) - in.addr = j
  BY <1>1, <1>2 DEF Bytes
<1>4. Touched(in) = Bytes(in) /\ Writes(in)
  BY DEF Touched, Writes, Loads, Stores
<1> QED
  BY <1>1, <1>2, <1>3, <1>4 DEF Stored

LEMMA LoadedScalar ==
  ASSUME NEW in \in Code, in.k \in Loads
  PROVE  /\ in.addr \in Int
         /\ in.len \in Nat
         /\ in.len \in 1 .. XBITS
         /\ Bytes(in) \subseteq Address
         /\ Touched(in) = Bytes(in)
         /\ ~Writes(in)
         /\ Read(in.addr, in.len) \in BytesOfLength(in.len)
<1>1. in.addr \in Int /\ in.len \in 1 .. XBITS /\ Bytes(in) \subseteq Address
  BY CodeAssumption DEF WellFormed
<1>2. in.len \in Nat
  BY <1>1, WidthAssumption
<1>3. Touched(in) = Bytes(in) /\ ~Writes(in)
  BY DEF Touched, Writes, Loads, Stores
<1>4. \A i \in 1 .. in.len : in.addr + i - 1 \in Bytes(in)
  BY <1>1, <1>2 DEF Bytes
<1>5. \A i \in 1 .. in.len : Memory[in.addr + i - 1] \in {0, 1}
  BY <1>1, <1>4, MemoryAssumption
<1>6. Read(in.addr, in.len) \in BytesOfLength(in.len)
  BY <1>5 DEF Read, BytesOfLength
<1> QED
  BY <1>1, <1>2, <1>3, <1>6

\* What holds in the loops.
LEMMA AtBytes ==
  ASSUME EmuInv, pc = "bytes"
  PROVE  /\ cur \in Code
         /\ MemSound(cur, mem)
         /\ cur.k \in Loads \cup Stores
         /\ Misaligning(cur, csr.mtval)
         /\ csr.mtval = cur.addr
         /\ loc.i \in 0 .. cur.len - 1
         /\ cur.k \in Loads => loc.bytes = Read(cur.addr, loc.i)
         /\ cur.k \in Stores => StoredBelow(cur, mem, cur.addr + loc.i)
         /\ Ready(cur, vec, mem)
         /\ frames[1] = Regs
         /\ tp = orig.fcsr
         /\ csr.mpp = orig.prv
         /\ csr.sie = orig.sie
<1>1. Begun
  BY DEF EmuInv
<1>2. /\ AtPlace(pc, cur, loc, csr, vec, mem)
      /\ cur \in Code
      /\ MemSound(cur, mem)
      /\ frames[1] = Regs
      /\ tp = orig.fcsr
      /\ csr.mpp = orig.prv
      /\ csr.sie = orig.sie
  BY <1>1 DEF Begun
<1> QED
  BY <1>2 DEF AtPlace, Misaligning

\* The byte that a load comes to.
LEMMA LoadingByte ==
  ASSUME EmuInv, pc = "bytes", cur.k \in Loads
  PROVE  /\ csr.mtval + loc.i \in Touched(cur)
         /\ Append(loc.bytes, mem[csr.mtval + loc.i]) = Read(cur.addr, loc.i + 1)
<1>1. /\ cur \in Code
      /\ MemSound(cur, mem)
      /\ csr.mtval = cur.addr
      /\ loc.i \in 0 .. cur.len - 1
      /\ loc.bytes = Read(cur.addr, loc.i)
  BY AtBytes
<1>2. cur.addr \in Int /\ cur.len \in Nat
  BY <1>1, LoadedScalar
<1>3. cur.addr + loc.i \in Bytes(cur) /\ loc.i \in Nat
  BY <1>1, <1>2 DEF Bytes
<1>4. /\ Bytes(cur) \subseteq Address
      /\ Touched(cur) = Bytes(cur)
      /\ ~Writes(cur)
  BY <1>1, LoadedScalar
<1>5. mem[cur.addr + loc.i] = Memory[cur.addr + loc.i]
  BY <1>1, <1>3, <1>4 DEF MemSound
<1> QED
  BY <1>1, <1>2, <1>3, <1>4, <1>5, AppendRead

LEMMA EmuLoadByte == IInv /\ EmuInv /\ LoadByte => EmuInv'
<1> SUFFICES ASSUME IInv, EmuInv, LoadByte PROVE EmuInv'
  OBVIOUS
<1> DEFINE a == csr.mtval + loc.i
           bytes == Append(loc.bytes, mem[a])
<1>1. pc = "bytes" /\ cur.k \in Loads /\ StateShape
  BY DEF LoadByte, EmuInv
<1>2. /\ cur \in Code
      /\ MemSound(cur, mem)
      /\ Misaligning(cur, csr.mtval)
      /\ loc.i \in 0 .. cur.len - 1
      /\ Ready(cur, vec, mem)
  BY <1>1, AtBytes
<1>3. a \in Touched(cur) /\ bytes = Read(cur.addr, loc.i + 1)
  BY <1>1, LoadingByte
<1>4. ~Writes(cur) /\ cur.len \in Nat
  BY <1>1, <1>2, LoadedScalar
<1> HIDE DEF a, bytes
<1>5. CASE Fault(a, "load fault", "MPRV", "insn")
  <2>1. FaultFits(cur, mem, "MPRV", "insn", "load fault", a)
    BY <1>1, <1>3, <1>4 DEF FaultFits, CauseFits, Resumes, Loads
  <2>2. pc \in Places \ {"vec"}
    BY <1>1 DEF Places
  <2> QED
    BY <1>5, <2>1, <2>2, EmuFaulting
<1>6. CASE /\ loc.i + 1 < cur.len
           /\ pc' = pc
           /\ Local([loc EXCEPT !.i = @ + 1, !.bytes = bytes])
           /\ UNCHANGED <<vec, mem>>
  <2> DEFINE l == [loc EXCEPT !.i = @ + 1, !.bytes = bytes]
  <2>1. /\ l.mpp = loc.mpp
        /\ l.i = loc.i + 1
        /\ l.bytes = bytes
    BY DEF IInv, LocField
  <2>2. loc.i + 1 \in 0 .. cur.len - 1
    BY <1>2, <1>4, <1>6
  <2>3. Local(l)
    BY <1>6
  <2> HIDE DEF l
  <2>4. AtPlace(pc', cur, l, csr, vec', mem')
    BY <1>1, <1>2, <1>3, <1>6, <2>1, <2>2 DEF AtPlace, Loads, Stores
  <2>5. pc \in Places /\ pc' \in Places
    BY <1>1, <1>6 DEF Places
  <2>6. /\ vec' = [f \in {"vl", "vstart", "vd"} |-> vec'[f]]
        /\ vec'.vd = [e \in DOMAIN Vector |-> vec'.vd[e]]
        /\ mem' = [x \in Address |-> mem'[x]]
        /\ MemSound(cur, mem')
    BY <1>1, <1>2, <1>6 DEF StateShape
  <2> QED
    BY <2>1, <2>3, <2>4, <2>5, <2>6, EmuGoingOn
<1>7. CASE Return(LoadInto(cur, frames[1], bytes), tp) /\ UNCHANGED <<vec, mem>>
  BY <1>1, <1>7, EmuReturning DEF StateShape
<1> QED
  BY <1>5, <1>6, <1>7 DEF LoadByte, a, bytes

\* The byte that a store comes to.
LEMMA StoringScalar ==
  ASSUME EmuInv, pc = "bytes", cur.k \in Stores
  PROVE  LET a == csr.mtval + loc.i
             new == [mem EXCEPT ![a] = Bit(IF cur.k = "store" THEN frames[1].x
                                           ELSE frames[1].f, loc.i)]
         IN  /\ a \in Touched(cur)
             /\ StoredBelow(cur, mem, a)
             /\ new = [x \in Address |-> new[x]]
             /\ MemSound(cur, new)
             /\ StoredBelow(cur, new, cur.addr + (loc.i + 1))
<1> DEFINE a == csr.mtval + loc.i
           val == IF cur.k = "store" THEN frames[1].x ELSE frames[1].f
           new == [mem EXCEPT ![a] = Bit(val, loc.i)]
<1>1. /\ cur \in Code
      /\ MemSound(cur, mem)
      /\ csr.mtval = cur.addr
      /\ loc.i \in 0 .. cur.len - 1
      /\ StoredBelow(cur, mem, cur.addr + loc.i)
      /\ frames[1] = Regs
  BY AtBytes
<1>2. val = Target(cur)
  BY <1>1 DEF Target
<1>3. /\ cur.addr \in Int
      /\ cur.len \in Nat
      /\ a \in Touched(cur)
      /\ a \in Address
      /\ Stored(cur, a) = Bit(Target(cur), loc.i)
      /\ Touched(cur) = Bytes(cur)
      /\ Writes(cur)
  BY <1>1, StoredScalar
<1>4. mem = [x \in Address |-> mem[x]]
  BY DEF EmuInv, StateShape
<1>5. /\ new = [x \in Address |-> new[x]]
      /\ new[a] = Stored(cur, a)
      /\ \A x : x \in Address /\ x # a => new[x] = mem[x]
  BY <1>2, <1>3, <1>4
<1> HIDE DEF new
<1>6. MemSound(cur, new)
  BY <1>1, <1>3, <1>5 DEF MemSound
<1>7. ASSUME NEW x \in Touched(cur), x < cur.addr + (loc.i + 1)
      PROVE  new[x] = Stored(cur, x)
  <2>1. x \in Int
    BY <1>3 DEF Bytes
  <2>2. x \in Address
    BY <1>1, CodeAssumption, <1>3 DEF WellFormed
  <2>3. x = a \/ x < cur.addr + loc.i
    BY <1>1, <1>3, <1>7, <2>1
  <2>4. CASE x = a
    BY <1>5, <2>4
  <2>5. CASE x # a /\ x < cur.addr + loc.i
    BY <1>1, <1>5, <2>2, <2>5 DEF StoredBelow
  <2> QED
    BY <2>3, <2>4, <2>5
<1>8. StoredBelow(cur, new, cur.addr + (loc.i + 1))
  BY <1>7 DEF StoredBelow
<1> QED
  BY <1>1, <1>3, <1>5, <1>6, <1>8 DEF new

LEMMA EmuStoreByte == IInv /\ EmuInv /\ StoreByte => EmuInv'
<1> SUFFICES ASSUME IInv, EmuInv, StoreByte PROVE EmuInv'
  OBVIOUS
<1> DEFINE a == csr.mtval + loc.i
           new == [mem EXCEPT ![a] = Bit(IF cur.k = "store" THEN frames[1].x
                                         ELSE frames[1].f, loc.i)]
<1>1. pc = "bytes" /\ cur.k \in Stores /\ StateShape
  BY DEF StoreByte, EmuInv
<1>2. /\ cur \in Code
      /\ MemSound(cur, mem)
      /\ Misaligning(cur, csr.mtval)
      /\ loc.i \in 0 .. cur.len - 1
      /\ Ready(cur, vec, mem)
  BY <1>1, AtBytes
<1>3. /\ a \in Touched(cur)
      /\ StoredBelow(cur, mem, a)
      /\ new = [x \in Address |-> new[x]]
      /\ MemSound(cur, new)
      /\ StoredBelow(cur, new, cur.addr + (loc.i + 1))
  BY <1>1, StoringScalar
<1>4. Writes(cur) /\ cur.len \in Nat
  BY <1>1, <1>2, StoredScalar
<1>5. \/ Fault(a, "store fault", "MPRV", "insn")
      \/ /\ mem' = new
         /\ loc.i + 1 < cur.len
         /\ pc' = pc /\ Local([loc EXCEPT !.i = @ + 1])
         /\ UNCHANGED vec
      \/ /\ mem' = new
         /\ Return(frames[1], tp)
         /\ UNCHANGED vec
  BY Zenon DEF StoreByte
<1> HIDE DEF a, new
<1>6. CASE Fault(a, "store fault", "MPRV", "insn")
  <2>1. FaultFits(cur, mem, "MPRV", "insn", "store fault", a)
    BY <1>1, <1>3, <1>4 DEF FaultFits, CauseFits, Resumes, Stores
  <2>2. pc \in Places \ {"vec"}
    BY <1>1 DEF Places
  <2> QED
    BY <1>6, <2>1, <2>2, EmuFaulting
<1>7. CASE /\ mem' = new
           /\ loc.i + 1 < cur.len
           /\ pc' = pc /\ Local([loc EXCEPT !.i = @ + 1])
           /\ UNCHANGED vec
  <2> DEFINE l == [loc EXCEPT !.i = @ + 1]
  <2>1. /\ l.mpp = loc.mpp
        /\ l.i = loc.i + 1
    BY DEF IInv, LocField
  <2>2. loc.i + 1 \in 0 .. cur.len - 1
    BY <1>2, <1>4, <1>7
  <2>3. Local(l) /\ mem' = new /\ vec' = vec /\ pc' = "bytes"
    BY <1>1, <1>7
  <2> HIDE DEF l
  <2>4. Ready(cur, vec, new)
    BY <1>1, <1>2 DEF Ready, DoneTo, StoredTo, Stores
  <2>5. AtPlace(pc', cur, l, csr, vec', mem')
    BY <1>1, <1>2, <1>3, <2>1, <2>2, <2>3, <2>4 DEF AtPlace, Loads, Stores
  <2>6. pc \in Places /\ pc' \in Places
    BY <1>1, <2>3 DEF Places
  <2>7. /\ vec' = [f \in {"vl", "vstart", "vd"} |-> vec'[f]]
        /\ vec'.vd = [e \in DOMAIN Vector |-> vec'.vd[e]]
        /\ mem' = [x \in Address |-> mem'[x]]
        /\ MemSound(cur, mem')
    BY <1>1, <1>3, <2>3 DEF StateShape
  <2> QED
    BY <2>1, <2>3, <2>5, <2>6, <2>7, EmuGoingOn
<1>8. CASE mem' = new /\ Return(frames[1], tp) /\ UNCHANGED vec
  BY <1>1, <1>3, <1>8, EmuReturning DEF StateShape
<1> QED
  BY <1>5, <1>6, <1>7, <1>8

-----------------------------------------------------------------------------
(* The other steps of the monitor *)

\* The program's trap is handed on, or the fault of an access for it.
LEMMA EmuHandingOn ==
  IInv /\ EmuInv /\ (PmpTrap \/ MachinePageFault) => EmuInv'
<1> SUFFICES ASSUME IInv, EmuInv, PmpTrap \/ MachinePageFault PROVE EmuInv'
  OBVIOUS
<1>1. CASE PmpTrap
  <2>1. pc = "pmp" /\ Redirect("insn", csr.mpp, csr.mtval, csr.mcause)
    BY <1>1 DEF PmpTrap
  <2>2. /\ csr.mpp = orig.prv
        /\ AtPlace(pc, cur, loc, csr, vec, mem)
    BY <2>1 DEF EmuInv, Begun
  <2>3. /\ cur.k = "pmp"
        /\ csr.mtval = cur.addr
        /\ csr.mcause = "access fault"
        /\ Ready(cur, vec, mem)
    BY <2>1, <2>2 DEF AtPlace
  <2>4. CauseFits(cur, csr.mcause, csr.mtval) /\ Resumes(cur) = "insn"
    BY <2>3 DEF CauseFits, Resumes
  <2> QED
    BY <2>1, <2>2, <2>3, <2>4, EmuRedirecting
<1>2. CASE MachinePageFault
  <2> DEFINE cause == IF loc.adj = "MPRV|MXR" THEN "fetch fault" ELSE csr.mcause
  <2>1. pc = "nested" /\ csr.mprv
    BY <1>2 DEF MachinePageFault, IInv, Disciplined
  <2>2. loc.adj = "MPRV|MXR" => csr.mcause = "load fault"
    BY <2>1 DEF IInv
  <2>3. Redirect(loc.epc, loc.mpp, csr.mtval, cause)
    BY <1>2, <2>1, <2>2 DEF MachinePageFault
  <2>4. /\ loc.mpp = orig.prv
        /\ AtPlace(pc, cur, loc, csr, vec, mem)
    BY <2>1 DEF EmuInv, Begun
  <2>5. /\ FaultFits(cur, mem, loc.adj, loc.epc, csr.mcause, csr.mtval)
        /\ Ready(cur, vec, mem)
    BY <2>1, <2>4 DEF AtPlace
  <2>6. /\ loc.epc = Resumes(cur)
        /\ CauseFits(cur, cause, csr.mtval)
        /\ cause = "store fault" => StoredBelow(cur, mem, csr.mtval)
    BY <2>5 DEF FaultFits
  <2> HIDE DEF cause
  <2> QED
    BY <2>1, <2>3, <2>4, <2>5, <2>6, EmuRedirecting
<1> QED
  BY <1>1, <1>2

\* A step from one place to another, without a change to what is the program's.
LEMMA EmuMoving ==
  ASSUME EmuInv, pc \in Places, pc' \in Places, NEW l, Local(l),
         l.mpp = loc.mpp, UNCHANGED <<vec, mem>>,
         AtPlace(pc', cur, l, csr, vec, mem)
  PROVE  EmuInv'
<1>1. Begun /\ StateShape
  BY DEF EmuInv, Places
<1>2. /\ MemSound(cur, mem')
      /\ vec' = [f \in {"vl", "vstart", "vd"} |-> vec'[f]]
      /\ vec'.vd = [e \in DOMAIN Vector |-> vec'.vd[e]]
      /\ mem' = [x \in Address |-> mem'[x]]
  BY <1>1 DEF StateShape, Begun
<1>3. AtPlace(pc', cur, l, csr, vec', mem')
  OBVIOUS
<1> QED
  BY <1>2, <1>3, EmuGoingOn

LEMMA EmuFetch == IInv /\ EmuInv /\ Fetch => EmuInv'
<1> SUFFICES ASSUME IInv, EmuInv, Fetch PROVE EmuInv'
  OBVIOUS
<1> DEFINE a == cur.parcels[loc.i + 1]
<1>1. pc = "fetch" /\ loc.then \in {"misaligned", "emulate"}
  BY DEF Fetch, IInv
<1>2. /\ cur \in Code
      /\ AtPlace(pc, cur, loc, csr, vec, mem)
  BY <1>1 DEF EmuInv, Begun
<1>3. /\ loc.i \in 0 .. Len(cur.parcels) - 1
      /\ loc.bytes = <<>>
      /\ IF loc.then = "misaligned" THEN Misaligning(cur, csr.mtval)
         ELSE cur.k \in Illegal
      /\ Ready(cur, vec, mem)
  BY <1>1, <1>2 DEF AtPlace
<1>4. cur.k \notin Calls \cup {"pmp"}
  BY <1>3 DEF Misaligning, Illegal, Calls, Loads, Stores, VectorOps, FpOps
<1>5. cur.parcels \in Seq(Int)
  BY <1>2, <1>4, CodeAssumption DEF WellFormed
<1>6. Len(cur.parcels) \in Nat /\ DOMAIN cur.parcels = 1 .. Len(cur.parcels)
  BY <1>5
<1>7. loc.i + 1 \in DOMAIN cur.parcels
  BY <1>3, <1>6
<1>8. pc \in Places \ {"vec"}
  BY <1>1 DEF Places
<1>9. CASE Fault(a, "load fault", "MPRV|MXR", "insn")
  <2>1. FaultFits(cur, mem, "MPRV|MXR", "insn", "load fault", a)
    BY <1>4, <1>7 DEF FaultFits, CauseFits, Resumes, Calls
  <2> QED
    BY <1>8, <1>9, <2>1, EmuFaulting
<1>10. CASE /\ loc.i + 1 < Len(cur.parcels)
            /\ pc' = pc
            /\ Local([loc EXCEPT !.i = @ + 1])
            /\ UNCHANGED <<vec, mem>>
  <2> DEFINE l == [loc EXCEPT !.i = @ + 1]
  <2>1. /\ l.mpp = loc.mpp
        /\ l.i = loc.i + 1
        /\ l.bytes = loc.bytes
        /\ l.then = loc.then
    BY DEF IInv, LocField
  <2>2. loc.i + 1 \in 0 .. Len(cur.parcels) - 1
    BY <1>3, <1>6, <1>10
  <2>3. Local(l)
    BY <1>10
  <2> HIDE DEF l
  <2>4. AtPlace(pc', cur, l, csr, vec, mem)
    BY <1>1, <1>3, <1>10, <2>1, <2>2 DEF AtPlace
  <2> QED
    BY <1>8, <1>10, <2>1, <2>3, <2>4, EmuMoving
<1>11. CASE /\ pc' = loc.then
            /\ Local([loc EXCEPT !.i = 0])
            /\ UNCHANGED <<vec, mem>>
  <2> DEFINE l == [loc EXCEPT !.i = 0]
  <2>1. /\ l.mpp = loc.mpp
        /\ l.i = 0
        /\ l.bytes = loc.bytes
    BY DEF IInv, LocField
  <2>3. Local(l)
    BY <1>11
  <2> HIDE DEF l
  <2>4. AtPlace(pc', cur, l, csr, vec, mem) /\ pc' \in Places
    BY <1>1, <1>3, <1>11, <2>1 DEF AtPlace, Places
  <2> QED
    BY <1>8, <1>11, <2>1, <2>3, <2>4, EmuMoving
<1> QED
  BY <1>9, <1>10, <1>11 DEF Fetch

LEMMA EmuDecode == IInv /\ EmuInv /\ Decode => EmuInv'
<1> SUFFICES ASSUME IInv, EmuInv, Decode PROVE EmuInv'
  OBVIOUS
<1>1. pc = "misaligned" /\ pc \in Places \ {"vec"}
  BY DEF Decode, Places
<1>2. /\ cur \in Code
      /\ MemSound(cur, mem)
      /\ AtPlace(pc, cur, loc, csr, vec, mem)
  BY <1>1 DEF EmuInv, Begun
<1>3. /\ loc.i = 0
      /\ loc.bytes = <<>>
      /\ Misaligning(cur, csr.mtval)
      /\ Ready(cur, vec, mem)
  BY <1>1, <1>2 DEF AtPlace
<1>4. CASE /\ cur.k \in Loads \cup Stores
           /\ pc' = "bytes"
           /\ Local(loc)
           /\ UNCHANGED <<vec, mem>>
  <2>1. 0 \in 0 .. cur.len - 1 /\ cur.len \in Nat /\ cur.addr \in Int
    <3>1. cur.len \in 1 .. XBITS /\ cur.addr \in Int
      BY <1>2, <1>4, CodeAssumption DEF WellFormed
    <3> QED
      BY <3>1, WidthAssumption
  <2>2. Read(cur.addr, 0) = <<>>
    BY DEF Read
  <2>3. cur.k \in Stores => StoredBelow(cur, mem, cur.addr + 0)
    <3>1. cur.k \in Stores => Touched(cur) = Bytes(cur)
      BY <1>2, <2>1, StoredScalar
    <3> QED
      BY <2>1, <3>1 DEF StoredBelow, Bytes
  <2>4. AtPlace(pc', cur, loc, csr, vec, mem) /\ pc' \in Places
    BY <1>3, <1>4, <2>1, <2>2, <2>3 DEF AtPlace, Places
  <2> QED
    BY <1>1, <1>4, <2>4, EmuMoving
<1>5. CASE /\ cur.k \in {"vload", "vstore"}
           /\ pc' = "vec"
           /\ Local([loc EXCEPT !.e = vec.vstart, !.vl = vec.vl])
           /\ UNCHANGED <<vec, mem>>
  <2> DEFINE l == [loc EXCEPT !.e = vec.vstart, !.vl = vec.vl]
  <2>1. l.mpp = loc.mpp /\ l.e = vec.vstart /\ l.vl = vec.vl
    BY DEF IInv, LocField
  <2>2. Local(l)
    BY <1>5
  <2> HIDE DEF l
  <2>3. vec.vl = VL /\ DoneTo(cur, vec.vd, mem, vec.vstart)
    BY <1>3 DEF Ready
  <2>4. AtPlace(pc', cur, l, csr, vec, mem) /\ pc' \in Places
    BY <1>5, <2>1, <2>3 DEF AtPlace, VectorOps, Places
  <2> QED
    BY <1>1, <1>5, <2>1, <2>2, <2>4, EmuMoving
<1>6. CASE cur.k = "lr" /\ TrulyIllegal("load access")
  BY <1>1, <1>6, EmuRefusing DEF CauseFits
<1>7. CASE cur.k = "amo" /\ TrulyIllegal("store access")
  BY <1>1, <1>7, EmuRefusing DEF CauseFits
<1> QED
  BY <1>4, <1>5, <1>6, <1>7 DEF Decode

\* What holds where an illegal instruction is emulated.
LEMMA AtEmulate ==
  ASSUME EmuInv, pc \in {"illegal", "emulate"}
  PROVE  /\ cur \in Code
         /\ MemSound(cur, mem)
         /\ cur.k \in Illegal
         /\ loc.i = 0
         /\ loc.bytes = <<>>
         /\ Ready(cur, vec, mem)
         /\ frames[1] = Regs
         /\ tp = orig.fcsr
         /\ csr.mpp = orig.prv
         /\ csr.sie = orig.sie
         /\ StateShape
<1>1. Begun /\ StateShape
  BY DEF EmuInv
<1>2. AtPlace(pc, cur, loc, csr, vec, mem)
  BY <1>1 DEF Begun
<1> QED
  BY <1>1, <1>2 DEF Begun, AtPlace

LEMMA EmuReadInstruction == IInv /\ EmuInv /\ ReadInstruction => EmuInv'
<1> SUFFICES ASSUME IInv, EmuInv, ReadInstruction PROVE EmuInv'
  OBVIOUS
<1> DEFINE l == [loc EXCEPT !.then = "emulate"]
<1>1. /\ pc = "illegal"
      /\ pc \in Places
      /\ pc' \in {"emulate", "fetch"}
      /\ Local(l)
      /\ UNCHANGED <<vec, mem>>
  BY DEF ReadInstruction, Places
<1>2. /\ l.mpp = loc.mpp
      /\ l.i = loc.i
      /\ l.bytes = loc.bytes
      /\ l.then = "emulate"
  BY DEF IInv, LocField
<1> HIDE DEF l
<1>3. /\ cur \in Code
      /\ cur.k \in Illegal
      /\ loc.i = 0
      /\ loc.bytes = <<>>
      /\ Ready(cur, vec, mem)
  BY <1>1, AtEmulate
<1>4. 0 \in 0 .. Len(cur.parcels) - 1
  <2>1. cur.k \notin Calls \cup {"pmp"}
    BY <1>3 DEF Illegal, FpOps, Calls
  <2>2. cur.parcels \in Seq(Int) /\ cur.parcels # <<>>
    BY <1>3, <2>1, CodeAssumption DEF WellFormed
  <2> QED
    BY <2>2
<1>5. AtPlace(pc', cur, l, csr, vec, mem) /\ pc' \in Places
  BY <1>1, <1>2, <1>3, <1>4 DEF AtPlace, Places
<1> QED
  BY <1>1, <1>2, <1>5, EmuMoving

LEMMA EmuPunt == IInv /\ EmuInv /\ PuntToMisalignedHandler => EmuInv'
<1> SUFFICES ASSUME IInv, EmuInv, PuntToMisalignedHandler PROVE EmuInv'
  OBVIOUS
<1>1. /\ pc = "emulate"
      /\ cur.k \in {"flw", "fsw"}
      /\ cur.fs
      /\ csr' = [csr EXCEPT !.mtval = cur.addr]
      /\ loc' = [loc EXCEPT !.then = "misaligned"]
      /\ pc' = "fetch"
      /\ UNCHANGED <<vec, mem, cur, done, orig, timer, frames, tp>>
  BY DEF PuntToMisalignedHandler, program, history
<1>2. /\ csr'.mtval = cur.addr
      /\ csr'.mpp = csr.mpp
      /\ csr'.sie = csr.sie
      /\ loc'.mpp = loc.mpp
      /\ loc'.i = loc.i
      /\ loc'.bytes = loc.bytes
      /\ loc'.then = "misaligned"
  BY <1>1 DEF IInv, CsrField, LocField
<1>3. /\ cur \in Code
      /\ loc.i = 0
      /\ loc.bytes = <<>>
      /\ Ready(cur, vec, mem)
  BY <1>1, AtEmulate
<1>4. 0 \in 0 .. Len(cur.parcels) - 1
  <2>1. cur.k \notin Calls \cup {"pmp"}
    BY <1>1 DEF Calls
  <2>2. cur.parcels \in Seq(Int) /\ cur.parcels # <<>>
    BY <1>3, <2>1, CodeAssumption DEF WellFormed
  <2> QED
    BY <2>2
<1>5. Misaligning(cur, csr'.mtval)
  BY <1>1, <1>2 DEF Misaligning, Loads, Stores
<1>6. AtPlace(pc', cur', loc', csr', vec', mem')
  BY <1>1, <1>2, <1>3, <1>4, <1>5 DEF AtPlace
<1>7. Begun /\ StateShape
  BY <1>1 DEF EmuInv
<1>8. Begun'
  BY <1>1, <1>2, <1>6, <1>7 DEF Begun
<1>9. StateShape'
  BY <1>1, <1>7 DEF StateShape
<1>10. PreciseRedirect'
  BY <1>1 DEF PreciseRedirect
<1> QED
  BY <1>1, <1>8, <1>9, <1>10 DEF EmuInv

\* The emulation is over, and memory and vector register are left as they were.
LEMMA EmuDone ==
  ASSUME EmuInv, NEW r, NEW t, Return(r, t), UNCHANGED <<vec, mem>>
  PROVE  EmuInv'
BY EmuReturning DEF EmuInv, StateShape

LEMMA EmuFloatLoad == IInv /\ EmuInv /\ EmulateFloatLoad => EmuInv'
<1> SUFFICES ASSUME IInv, EmuInv, EmulateFloatLoad PROVE EmuInv'
  OBVIOUS
<1>1. pc = "emulate" /\ pc \in Places \ {"vec"} /\ cur.k = "flw"
  BY DEF EmulateFloatLoad, Places
<1>2. cur \in Code /\ cur.k \in Loads
  BY <1>1, AtEmulate DEF Loads
<1>3. CASE Fault(cur.addr, "load fault", "MPRV", "insn")
  <2>1. /\ cur.addr \in Int
        /\ cur.len \in 1 .. XBITS
        /\ Touched(cur) = Bytes(cur)
        /\ ~Writes(cur)
    BY <1>2, LoadedScalar
  <2>2. cur.addr \in Touched(cur)
    BY <2>1, WidthAssumption DEF Bytes
  <2>3. FaultFits(cur, mem, "MPRV", "insn", "load fault", cur.addr)
    BY <1>1, <2>1, <2>2 DEF FaultFits, CauseFits, Resumes
  <2> QED
    BY <1>1, <1>3, <2>3, EmuFaulting
<1>4. CASE UNCHANGED <<vec, mem>> /\ \E r : Return(r, tp)
  BY <1>4, EmuDone
<1> QED
  BY <1>3, <1>4 DEF EmulateFloatLoad

LEMMA EmuFloatStore == IInv /\ EmuInv /\ EmulateFloatStore => EmuInv'
<1> SUFFICES ASSUME IInv, EmuInv, EmulateFloatStore PROVE EmuInv'
  OBVIOUS
<1>1. pc = "emulate" /\ pc \in Places \ {"vec"} /\ cur.k = "fsw"
  BY DEF EmulateFloatStore, Places
<1>2. cur \in Code /\ cur.k \in Stores /\ StateShape
  BY <1>1, AtEmulate DEF Stores
<1>3. CASE Fault(cur.addr, "store fault", "MPRV", "insn")
  <2>1. cur.addr \in Int /\ cur.len \in 1 .. XBITS
    BY <1>2, CodeAssumption DEF WellFormed
  <2>2. 0 \in 0 .. cur.len - 1
    BY <2>1, WidthAssumption
  <2>3. /\ cur.addr + 0 \in Touched(cur)
        /\ Writes(cur)
        /\ Touched(cur) = Bytes(cur)
    BY <1>2, <2>2, StoredScalar
  <2>4. StoredBelow(cur, mem, cur.addr)
    BY <2>1, <2>3, WidthAssumption DEF StoredBelow, Bytes
  <2>5. cur.addr \in Touched(cur)
    BY <2>1, <2>3
  <2>6. FaultFits(cur, mem, "MPRV", "insn", "store fault", cur.addr)
    BY <1>1, <2>3, <2>4, <2>5 DEF FaultFits, CauseFits, Resumes
  <2> QED
    BY <1>1, <1>3, <2>6, EmuFaulting
<1>4. CASE /\ mem' = [a \in Address |-> IF a \in Bytes(cur)
                                        THEN Bit(frames[1].f, a - cur.addr)
                                        ELSE mem[a]]
           /\ Return(frames[1], tp)
           /\ UNCHANGED vec
  <2>1. mem' = [a \in Address |-> mem'[a]]
    BY <1>4
  <2> QED
    BY <1>2, <1>4, <2>1, EmuReturning DEF StateShape
<1> QED
  BY <1>3, <1>4 DEF EmulateFloatStore

\* What is done with an instruction without an access to memory.
LEMMA EmuOps ==
  ASSUME IInv, EmuInv,
         \/ EmulateCsr \/ EmulateFp \/ EmulateFsgnj \/ EmulateFmin \/ EmulateFcmp
         \/ EmulateFmvIf \/ EmulateFmvFi \/ EmulateMulDiv \/ EmulateNothing \/ Call
  PROVE  EmuInv'
<1>1. \A r, t : Return(r, t) /\ UNCHANGED <<vec, mem>> => EmuInv'
  BY EmuDone
<1>2. CASE EmulateCsr
  <2> DEFINE write == cur.op = "rw" \/ ~cur.zero
  <2>1. pc = "emulate" /\ cur.k = "csr" /\ pc \in Places \ {"vec"}
    BY <1>2 DEF EmulateCsr, Places
  <2>2. CASE ~Readable(cur) \/ (write /\ cur.num = "time")
    <3>1. TrulyIllegal("illegal")
      BY <1>2, <2>2 DEF EmulateCsr
    <3>2. RefusedCsr(cur)
      BY <2>2 DEF RefusedCsr, Readable
    <3>3. CauseFits(cur, "illegal", Junk)
      BY <2>1, <3>2 DEF CauseFits
    <3> QED
      BY <2>1, <3>1, <3>3, EmuRefusing
  <2>3. CASE ~(~Readable(cur) \/ (write /\ cur.num = "time"))
    <3>1. (\E r, t : Return(r, t)) /\ UNCHANGED <<vec, mem>>
      BY <1>2, <2>3 DEF EmulateCsr
    <3> QED
      BY <1>1, <3>1
  <2> QED
    BY <2>2, <2>3
<1>3. CASE EmulateFp
  BY <1>1, <1>3 DEF EmulateFp
<1>4. CASE EmulateFsgnj
  BY <1>1, <1>4 DEF EmulateFsgnj
<1>5. CASE EmulateFmin
  BY <1>1, <1>5 DEF EmulateFmin
<1>6. CASE EmulateFcmp
  BY <1>1, <1>6 DEF EmulateFcmp
<1>7. CASE EmulateFmvIf
  BY <1>1, <1>7 DEF EmulateFmvIf
<1>8. CASE EmulateFmvFi
  BY <1>1, <1>8 DEF EmulateFmvFi
<1>9. CASE EmulateMulDiv
  BY <1>1, <1>9 DEF EmulateMulDiv
<1>10. CASE EmulateNothing
  <2>1. pc = "emulate" /\ pc \in Places \ {"vec"} /\ TrulyIllegal("illegal")
    BY <1>10 DEF EmulateNothing, Places
  <2>2. \/ cur.k = "bad"
        \/ cur.k \in {"flw", "fsw"} \cup FpOps /\ (~cur.fs \/ ReservedRm(cur))
    BY <1>10 DEF EmulateNothing
  <2>3. cur.k # "mask" /\ CauseFits(cur, "illegal", Junk)
    BY <2>2 DEF CauseFits, FpOps
  <2> QED
    BY <2>1, <2>3, EmuRefusing
<1>11. CASE Call
  BY <1>1, <1>11 DEF Call
<1> QED
  BY <1>2, <1>3, <1>4, <1>5, <1>6, <1>7, <1>8, <1>9, <1>10, <1>11

LEMMA EmuReadMask == IInv /\ EmuInv /\ ReadMask => EmuInv'
<1> SUFFICES ASSUME IInv, EmuInv, ReadMask PROVE EmuInv'
  OBVIOUS
<1>1. pc = "mcall" /\ pc \in Places \ {"vec"} /\ cur.k = "mask"
  BY DEF ReadMask, Places
<1>2. CASE Fault(cur.addr, "load fault", "MPRV", "next")
  <2>1. cur.addr \in Touched(cur) /\ ~Writes(cur)
    BY <1>1 DEF Touched, Writes, Loads, Stores
  <2>2. FaultFits(cur, mem, "MPRV", "next", "load fault", cur.addr)
    BY <1>1, <2>1 DEF FaultFits, CauseFits, Resumes
  <2> QED
    BY <1>1, <1>2, <2>2, EmuFaulting
<1>3. CASE Return([frames[1] EXCEPT !.x = 0], tp) /\ UNCHANGED <<vec, mem>>
  BY <1>3, EmuDone
<1> QED
  BY <1>2, <1>3 DEF ReadMask

LEMMA EmuMonitor == ValuesRight /\ IInv /\ EmuInv /\ Monitor => EmuInv'
BY EmuHandingOn, EmuFetch, EmuDecode, EmuLoadByte, EmuStoreByte, EmuVecElement,
   EmuVecMasked, EmuVecLoadByte, EmuVecStoreByte, EmuReadInstruction, EmuPunt,
   EmuFloatLoad, EmuFloatStore, EmuOps, EmuReadMask DEF Monitor

\* The emulators keep it (illegal_insn_trap, misaligned_*_trap and all they call).
LEMMA EmuInvKept ==
  ASSUME ValuesRight
  PROVE  Spec => []EmuInv
<1>1. IInv /\ TimerInv /\ EmuInv /\ [Next]_vars => EmuInv'
  <2> SUFFICES ASSUME IInv, TimerInv, EmuInv, [Next]_vars PROVE EmuInv'
    OBVIOUS
  <2>1. CASE Next
    BY <2>1, EmuMonitor, EmuEnvironment DEF Next
  <2>2. CASE UNCHANGED vars
    <3>1. UNCHANGED <<pc, prv, csr, regs, vec, mem, frames, tp, loc, cur, done,
                      orig, timer>>
      BY <2>2 DEF vars, program, monitor, history
    <3>2. Begun => Begun'
      BY <3>1 DEF Begun
    <3>3. StateShape => StateShape'
      BY <3>1 DEF StateShape
    <3>4. PreciseRedirect => PreciseRedirect'
      BY <3>1 DEF PreciseRedirect
    <3> QED
      BY <3>1, <3>2, <3>3, <3>4 DEF EmuInv
  <2> QED
    BY <2>1, <2>2
<1> QED
  BY <1>1, EmuInitial, DisciplineKept, TimerInvKept, PTL DEF Spec

\* Whatever the emulation does and wherever it faults, the supervisor gets the
\* trap as the hart would have given it (redirect_trap and
\* __trap_from_machine_mode), for every program, memory and interleaving with
\* other harts, on the arithmetic fact that bytes make up a value.
THEOREM Precise ==
  ASSUME ValuesRight
  PROVE  Spec => []PreciseRedirect
<1>1. EmuInv => PreciseRedirect
  BY DEF EmuInv
<1> QED
  BY <1>1, EmuInvKept, PTL

-----------------------------------------------------------------------------
(* What the emulation of an instruction leaves *)

Emulable(in) ==
  /\ in.k \notin {"bad", "lr", "amo", "pmp"}
  /\ in.k = "csr" => ~RefusedCsr(in)
  /\ in.k \in {"flw", "fsw"} \cup FpOps => in.fs /\ ~ReservedRm(in)

MemDone(in, m) ==
  \A a \in Address :
    m[a] = IF Writes(in) /\ a \in Touched(in) THEN Stored(in, a) ELSE Memory[a]

Last(in) == IF in.k \in {"vload", "vstore"} /\ in.fof THEN 1 ELSE VL

VecDone(in, v) ==
  /\ v.vstart = 0
  /\ v.vl = Last(in)
  /\ \A e \in DOMAIN Vector :
       IF in.k = "vload" /\ e \in Elements(in) /\ e < Last(in)
       THEN Loaded(in, e, v.vd[e])
       ELSE v.vd[e] = Vector[e]

\* Registers r and fcsr t are those that an instruction leaves.
RegistersDone(in, r, t, o, now) ==
  XRight(in, r.x, o, now) /\ FRight(in, r.f, o) /\ FcsrRight(in, t, o)

LEMMA Finishing ==
  ASSUME IInv, EmuInv, pc \in Places, NEW r, NEW t, Return(r, t),
         Emulable(cur), RegistersDone(cur, r, t, orig, timer'.time),
         MemDone(cur, mem'), VecDone(cur, vec')
  PROVE  EmulationExact'
<1>1. Begun /\ pc \notin {"run", "super", "nested"}
  BY DEF EmuInv, Places
<1>2. csr.mpp = orig.prv /\ csr.sie = orig.sie
  BY <1>1 DEF Begun
<1>3. csr'.mepc = "next" /\ csr'.sie = csr.sie
  BY DEF Return, Forget, IInv, CsrField
<1>4. /\ prv' = orig.prv
      /\ regs' = r
      /\ slot' = t
      /\ UNCHANGED <<cur, orig>>
  BY <1>2 DEF Return
<1>5. /\ cur'.k \notin {"bad", "lr", "amo", "pmp"}
      /\ cur'.k = "csr" => ~RefusedCsr(cur')
      /\ cur'.k \in {"flw", "fsw"} \cup FpOps => cur'.fs /\ ~ReservedRm(cur')
  BY <1>4 DEF Emulable
<1>6. /\ XRight(cur', regs'.x, orig', timer'.time)
      /\ FRight(cur', regs'.f, orig')
      /\ FcsrRight(cur', slot', orig')
  BY <1>4 DEF RegistersDone
<1>7. \A a \in Address :
        mem'[a] = IF Writes(cur') /\ a \in Touched(cur') THEN Stored(cur', a)
                  ELSE Memory[a]
  BY <1>4 DEF MemDone
<1>8. /\ vec'.vstart = 0
      /\ LET last == IF cur'.k \in {"vload", "vstore"} /\ cur'.fof THEN 1 ELSE VL
         IN  /\ vec'.vl = last
             /\ \A e \in DOMAIN Vector :
                  IF cur'.k = "vload" /\ e \in Elements(cur') /\ e < last
                  THEN Loaded(cur', e, vec'.vd[e])
                  ELSE vec'.vd[e] = Vector[e]
  BY <1>4 DEF VecDone, Last
<1> QED
  BY <1>2, <1>3, <1>4, <1>5, <1>6, <1>7, <1>8 DEF EmulationExact

\* An instruction that is no vector's has done nothing to the vector register,
\* and one that stores nothing has done nothing to memory.
LEMMA NothingElse ==
  ASSUME NEW in, NEW v, NEW m, MemSound(in, m), Ready(in, v, m)
  PROVE  /\ ~Writes(in) => MemDone(in, m)
         /\ in.k \notin VectorOps => VecDone(in, v)
<1>1. ~Writes(in) => MemDone(in, m)
  BY DEF MemSound, MemDone
<1>2. ASSUME in.k \notin VectorOps PROVE VecDone(in, v)
  <2>1. v.vl = VL /\ v.vstart = 0 /\ LoadedTo(in, v.vd, v.vstart)
    BY <1>2 DEF Ready, DoneTo
  <2> QED
    BY <1>2, <2>1 DEF VecDone, Last, LoadedTo, VectorOps
<1> QED
  BY <1>1, <1>2

LEMMA SetRegister ==
  ASSUME NEW n
  PROVE  /\ [Regs EXCEPT !.x = n].x = n /\ [Regs EXCEPT !.x = n].f = Regs.f
         /\ [Regs EXCEPT !.f = n].f = n /\ [Regs EXCEPT !.f = n].x = Regs.x
<1>1. Regs = [i \in {"x", "f"} |-> Regs[i]]
  BY RegsAssumption
<1> QED
  BY <1>1

\* fcsr is left alone by all but the operations that have one of its bits.
LEMMA SameFcsr ==
  ASSUME NEW in, NEW o, in.k \notin FpOps \cup {"csr"} \/ in.k \in {"fsgnj", "fmv_if", "fmv_fi"}
  PROVE  FcsrRight(in, o.fcsr, o)
BY DEF FcsrRight, FpOps

\* Bytes loaded into a register.
LEMMA LoadRight ==
  ASSUME ValuesRight, ShiftsRight, NEW in \in Code, in.k \in Loads,
         NEW o, NEW now
  PROVE  RegistersDone(in, LoadInto(in, Regs, Read(in.addr, in.len)), o.fcsr, o, now)
<1> DEFINE bytes == Read(in.addr, in.len)
<1>1. /\ in.addr \in Int
      /\ in.len \in 1 .. XBITS
      /\ in.len \in Nat
      /\ bytes \in BytesOfLength(in.len)
  BY LoadedScalar
<1>2. \A i \in 0 .. in.len - 1 : bytes[i + 1] = Memory[in.addr + i]
  <2> SUFFICES ASSUME NEW i \in 0 .. in.len - 1
               PROVE  bytes[i + 1] = Memory[in.addr + i]
    OBVIOUS
  <2>1. i + 1 \in 1 .. in.len /\ in.addr + (i + 1) - 1 = in.addr + i
    BY <1>1
  <2> QED
    BY <2>1 DEF Read
<1>3. bytes[in.len] = Memory[in.addr + in.len - 1]
  BY <1>1 DEF Read
<1> HIDE DEF bytes
<1>4. FcsrRight(in, o.fcsr, o)
  BY SameFcsr DEF Loads, FpOps
<1>5. CASE in.k = "load"
  <2> DEFINE x == ShiftBack(Value(bytes), IF in.signed THEN XBITS - in.len ELSE 0)
  <2>0. in.signed \in BOOLEAN
    BY <1>5, CodeAssumption DEF WellFormed
  <2>1. /\ x \in Registers
        /\ \A i \in 0 .. XBITS - 1 :
             Bit(x, i) = IF i < in.len THEN bytes[i + 1]
                         ELSE IF in.signed THEN bytes[in.len] ELSE 0
    BY <1>1, <2>0 DEF ShiftsRight
  <2>2. LoadInto(in, Regs, bytes) = [Regs EXCEPT !.x = x]
    BY <1>5 DEF LoadInto
  <2> HIDE DEF x
  <2>3. \A i \in 0 .. XBITS - 1 : Bit(x, i) = Extended(in, i)
    <3>1. \A i \in 0 .. XBITS - 1 : i < in.len => i \in 0 .. in.len - 1
      BY <1>1
    <3> QED
      BY <1>2, <1>3, <2>1, <3>1 DEF Extended
  <2>4. XRight(in, x, o, now)
    BY <1>5, <2>1, <2>3 DEF XRight
  <2>5. FRight(in, Regs.f, o)
    BY <1>5 DEF FRight
  <2> QED
    BY <1>4, <2>2, <2>4, <2>5, SetRegister DEF RegistersDone, bytes
<1>6. CASE in.k = "flw"
  <2>1. in.len \in Lengths
    BY <1>1 DEF Lengths
  <2>2. /\ Value(bytes) \in 0 .. 2 ^ in.len - 1
        /\ \A i \in 0 .. in.len - 1 : Bit(Value(bytes), i) = bytes[i + 1]
    BY <1>1, <2>1 DEF ValuesRight
  <2>3. LoadInto(in, Regs, bytes) = [Regs EXCEPT !.f = Value(bytes)]
    BY <1>6 DEF LoadInto
  <2>4. FRight(in, Value(bytes), o)
    BY <1>2, <1>6, <2>2 DEF FRight
  <2>5. XRight(in, Regs.x, o, now)
    BY <1>6 DEF XRight
  <2> QED
    BY <1>4, <2>3, <2>4, <2>5, SetRegister DEF RegistersDone, bytes
<1> QED
  BY <1>5, <1>6 DEF Loads

\* A store, scalar or vector, leaves the registers alone.
LEMMA StoreRight ==
  ASSUME NEW in, in.k \in Stores \cup VectorOps, NEW o, NEW now
  PROVE  RegistersDone(in, Regs, o.fcsr, o, now)
<1>1. FcsrRight(in, o.fcsr, o)
  BY SameFcsr DEF Stores, VectorOps, FpOps
<1>2. XRight(in, Regs.x, o, now)
  BY DEF XRight, Stores, VectorOps
<1>3. FRight(in, Regs.f, o)
  BY DEF FRight, Stores, VectorOps
<1> QED
  BY <1>1, <1>2, <1>3 DEF RegistersDone

LEMMA ExactLoadByte ==
  ASSUME ValuesRight, ShiftsRight, IInv, EmuInv, LoadByte, pc' = "run"
  PROVE  EmulationExact'
<1> DEFINE bytes == Append(loc.bytes, mem[csr.mtval + loc.i])
<1>1. pc = "bytes" /\ cur.k \in Loads
  BY DEF LoadByte
<1>2. /\ ~(loc.i + 1 < cur.len)
      /\ Return(LoadInto(cur, frames[1], bytes), tp)
      /\ UNCHANGED <<vec, mem>>
  BY <1>1 DEF LoadByte, Fault
<1>3. /\ cur \in Code
      /\ MemSound(cur, mem)
      /\ Misaligning(cur, csr.mtval)
      /\ loc.i \in 0 .. cur.len - 1
      /\ Ready(cur, vec, mem)
      /\ frames[1] = Regs
      /\ tp = orig.fcsr
  BY <1>1, AtBytes
<1>4. bytes = Read(cur.addr, loc.i + 1)
  BY <1>1, LoadingByte
<1>5. ~Writes(cur) /\ cur.len \in Nat
  BY <1>1, <1>3, LoadedScalar
<1>6. loc.i + 1 = cur.len
  BY <1>2, <1>3, <1>5
<1> HIDE DEF bytes
<1>7. RegistersDone(cur, LoadInto(cur, Regs, bytes), tp, orig, timer'.time)
  BY <1>1, <1>3, <1>4, <1>6, LoadRight
<1>8. MemDone(cur, mem') /\ VecDone(cur, vec')
  BY <1>1, <1>2, <1>3, <1>5, NothingElse DEF Loads, VectorOps
<1>9. Emulable(cur)
  BY <1>1, <1>3 DEF Emulable, Misaligning, Loads, FpOps, ReservedRm
<1> QED
  BY <1>1, <1>2, <1>3, <1>7, <1>8, <1>9, Finishing DEF Places

LEMMA ExactStoreByte ==
  ASSUME IInv, EmuInv, StoreByte, pc' = "run"
  PROVE  EmulationExact'
<1> DEFINE a == csr.mtval + loc.i
           new == [mem EXCEPT ![a] = Bit(IF cur.k = "store" THEN frames[1].x
                                         ELSE frames[1].f, loc.i)]
<1>1. pc = "bytes" /\ cur.k \in Stores
  BY DEF StoreByte
<1>2. /\ ~(loc.i + 1 < cur.len)
      /\ mem' = new
      /\ Return(frames[1], tp)
      /\ UNCHANGED vec
  BY <1>1, Zenon DEF StoreByte, Fault
<1>3. /\ cur \in Code
      /\ MemSound(cur, mem)
      /\ Misaligning(cur, csr.mtval)
      /\ loc.i \in 0 .. cur.len - 1
      /\ Ready(cur, vec, mem)
      /\ frames[1] = Regs
      /\ tp = orig.fcsr
  BY <1>1, AtBytes
<1>4. /\ MemSound(cur, new)
      /\ StoredBelow(cur, new, cur.addr + (loc.i + 1))
  BY <1>1, StoringScalar
<1>5. /\ Writes(cur)
      /\ cur.len \in Nat
      /\ cur.addr \in Int
      /\ Touched(cur) = Bytes(cur)
  BY <1>1, <1>3, StoredScalar
<1>6. loc.i + 1 = cur.len
  BY <1>2, <1>3, <1>5
<1> HIDE DEF new, a
<1>7. MemDone(cur, mem')
  <2>1. \A x \in Touched(cur) : x < cur.addr + cur.len
    BY <1>5 DEF Bytes
  <2>2. \A x \in Touched(cur) : new[x] = Stored(cur, x)
    BY <1>4, <1>6, <2>1 DEF StoredBelow
  <2> QED
    BY <1>2, <1>4, <2>2 DEF MemSound, MemDone
<1>8. VecDone(cur, vec')
  BY <1>1, <1>2, <1>3, NothingElse DEF Stores, VectorOps
<1>9. Emulable(cur)
  BY <1>1, <1>3 DEF Emulable, Misaligning, Stores, FpOps, ReservedRm
<1>10. RegistersDone(cur, frames[1], tp, orig, timer'.time)
  BY <1>1, <1>3, StoreRight
<1> QED
  BY <1>1, <1>2, <1>7, <1>8, <1>9, <1>10, Finishing DEF Places

\* The loop over the elements ends.
LEMMA ExactVecNext ==
  ASSUME IInv, EmuInv, pc \in {"vec", "vbytes"}, NEW v, VecNext(v), pc' = "run",
         v = [f \in {"vl", "vstart", "vd"} |-> v[f]],
         MemSound(cur, mem'), cur \in Code,
         cur.k \in VectorOps, loc.vl = VL, loc.e \in 0 .. VL - 1, cur.fof => loc.e = 0,
         LoadedTo(cur, v.vd, loc.e + 1), StoredTo(cur, mem', loc.e + 1)
  PROVE  EmulationExact'
<1>1. /\ ~(loc.e + 1 < loc.vl /\ ~cur.fof)
      /\ vec' = [v EXCEPT !.vl = IF cur.fof THEN 1 ELSE loc.vl, !.vstart = 0]
      /\ Return(frames[1], tp)
  BY DEF VecNext
<1>2. frames[1] = Regs /\ tp = orig.fcsr
  BY DEF EmuInv, Begun
<1>3. loc.e + 1 = Last(cur)
  BY <1>1, VectorAssumption DEF Last, VectorOps
<1>4. VecDone(cur, vec')
  <2>1. /\ vec'.vl = Last(cur)
        /\ vec'.vstart = 0
        /\ vec'.vd = v.vd
    BY <1>1 DEF Last, VectorOps
  <2> QED
    BY <1>3, <2>1 DEF VecDone, LoadedTo
<1>5. MemDone(cur, mem')
  <2>1. CASE cur.k = "vload"
    BY <2>1 DEF MemSound, MemDone, Writes, Stores
  <2>2. CASE cur.k = "vstore"
    <3>1. ~cur.fof
      BY <2>2, CodeAssumption DEF WellFormed
    <3>2. Last(cur) = VL
      BY <3>1 DEF Last
    <3>3. \A e \in Elements(cur) : e < VL
      BY VectorAssumption DEF Elements
    <3>4. \A e \in Elements(cur) : ElementStored(cur, mem', e, ELEN)
      BY <1>3, <2>2, <3>2, <3>3 DEF StoredTo
    <3>5. ASSUME NEW a \in Touched(cur) PROVE mem'[a] = Stored(cur, a)
      <4>1. PICK e \in Elements(cur), j \in 0 .. ELEN - 1 : a = Base(cur, e) + j
        BY <2>2, TouchedElement
      <4>2. Stored(cur, a) = Bit(Vector[e], j)
        BY <2>2, <4>1, StoredElement
      <4> QED
        BY <3>4, <4>1, <4>2 DEF ElementStored
    <3> QED
      BY <3>5 DEF MemSound, MemDone
  <2> QED
    BY <2>1, <2>2 DEF VectorOps
<1>6. Emulable(cur)
  BY DEF Emulable, VectorOps, FpOps
<1>7. RegistersDone(cur, frames[1], tp, orig, timer'.time)
  BY <1>2, StoreRight
<1> QED
  BY <1>1, <1>4, <1>5, <1>6, <1>7, Finishing DEF Places

LEMMA ExactVecMasked ==
  ASSUME IInv, EmuInv, VecMasked, pc' = "run"
  PROVE  EmulationExact'
<1>1. pc = "vec" /\ ~cur.mask[loc.e] /\ VecNext(vec) /\ mem' = mem
  BY DEF VecMasked
<1>2. Begun /\ StateShape
  BY <1>1 DEF EmuInv
<1>3. /\ cur \in Code
      /\ MemSound(cur, mem)
      /\ cur.k \in VectorOps
      /\ loc.vl = VL
      /\ DoneTo(cur, vec.vd, mem, loc.e)
  BY <1>1, <1>2 DEF Begun, AtPlace
<1>4. /\ loc.e \in 0 .. VL - 1
      /\ cur.fof => loc.e = 0
      /\ LoadedTo(cur, vec.vd, loc.e)
      /\ StoredTo(cur, mem, loc.e)
  BY <1>3 DEF DoneTo
<1>5. loc.e \notin Elements(cur)
  BY <1>1 DEF Elements
<1>6. LoadedTo(cur, vec.vd, loc.e + 1) /\ StoredTo(cur, mem, loc.e + 1)
  BY <1>3, <1>4, <1>5, OneMore
<1>7. vec = [f \in {"vl", "vstart", "vd"} |-> vec[f]]
  BY <1>2 DEF StateShape
<1> QED
  BY <1>1, <1>3, <1>4, <1>6, <1>7, ExactVecNext

LEMMA ExactVecLoadByte ==
  ASSUME ValuesRight, IInv, EmuInv, VecLoadByte, pc' = "run"
  PROVE  EmulationExact'
<1> DEFINE bytes == Append(loc.bytes, mem[Base(cur, loc.e) + loc.i])
           v == [vec EXCEPT !.vd[loc.e] = Value(bytes), !.vl = Junk, !.vstart = 0]
<1>1. pc = "vbytes" /\ cur.k = "vload" /\ cur.k \in VectorOps
  BY DEF VecLoadByte, VectorOps
<1>2. ~(loc.i + 1 < ELEN) /\ VecNext(v) /\ mem' = mem
  BY <1>1 DEF VecLoadByte, Fault
<1>3. /\ cur \in Code
      /\ MemSound(cur, mem)
      /\ loc.vl = VL
      /\ loc.e \in Elements(cur)
      /\ loc.i \in 0 .. ELEN - 1
      /\ loc.e \in 0 .. VL - 1
      /\ cur.fof => loc.e = 0
      /\ LoadedTo(cur, vec.vd, loc.e)
      /\ StoredTo(cur, mem, loc.e)
      /\ StateShape
  BY <1>1, AtElement
<1>4. bytes = Read(Base(cur, loc.e), loc.i + 1)
  BY <1>1, LoadingElement
<1>5. loc.i + 1 = ELEN
  BY <1>2, <1>3, VectorAssumption
<1>6. Loaded(cur, loc.e, Value(bytes))
  BY <1>1, <1>3, <1>4, <1>5, LoadedValue
<1>7. /\ v = [f \in {"vl", "vstart", "vd"} |-> v[f]]
      /\ v.vd = [vec.vd EXCEPT ![loc.e] = Value(bytes)]
  BY <1>3 DEF StateShape
<1>8. /\ v.vd[loc.e] = Value(bytes)
      /\ \A e \in DOMAIN Vector : e # loc.e => v.vd[e] = vec.vd[e]
  BY <1>3, <1>7 DEF StateShape, Elements
<1> HIDE DEF v, bytes
<1>9. LoadedTo(cur, v.vd, loc.e + 1) /\ StoredTo(cur, mem, loc.e + 1)
  BY <1>1, <1>3, <1>6, <1>8, OneMore
<1> QED
  BY <1>1, <1>2, <1>3, <1>7, <1>9, ExactVecNext

LEMMA ExactVecStoreByte ==
  ASSUME IInv, EmuInv, VecStoreByte, pc' = "run"
  PROVE  EmulationExact'
<1> DEFINE a == Base(cur, loc.e) + loc.i
           new == [mem EXCEPT ![a] = Bit(Vector[loc.e], loc.i)]
<1>1. pc = "vbytes" /\ cur.k = "vstore" /\ cur.k \in VectorOps
  BY DEF VecStoreByte, VectorOps
<1>2. /\ cur \in Code
      /\ MemSound(cur, mem)
      /\ loc.vl = VL
      /\ loc.e \in Elements(cur)
      /\ loc.i \in 0 .. ELEN - 1
      /\ ElementStored(cur, mem, loc.e, loc.i)
      /\ loc.e \in 0 .. VL - 1
      /\ cur.fof => loc.e = 0
      /\ LoadedTo(cur, vec.vd, loc.e)
      /\ StoredTo(cur, mem, loc.e)
      /\ StateShape
  BY <1>1, AtElement
<1>3. vec.vd[loc.e] = Vector[loc.e]
  BY <1>1, <1>2 DEF LoadedTo, Elements
<1>4. ~(loc.i + 1 < ELEN) /\ mem' = new /\ VecNext(vec)
  BY <1>1, <1>3, Zenon DEF VecStoreByte, Fault
<1>5. loc.i + 1 = ELEN
  BY <1>2, <1>4, VectorAssumption
<1>6. /\ MemSound(cur, new)
      /\ StoredTo(cur, new, loc.e)
      /\ ElementStored(cur, new, loc.e, ELEN)
  BY <1>1, <1>2, <1>5, StoringByte DEF StateShape
<1> HIDE DEF new, a
<1>7. LoadedTo(cur, vec.vd, loc.e + 1) /\ StoredTo(cur, new, loc.e + 1)
  BY <1>1, <1>2, <1>6, OneMore
<1>8. vec = [f \in {"vl", "vstart", "vd"} |-> vec[f]]
  BY <1>2 DEF StateShape
<1> QED
  BY <1>1, <1>2, <1>4, <1>6, <1>7, <1>8, ExactVecNext

LEMMA ExactFloatLoad ==
  ASSUME ValuesRight, ShiftsRight, IInv, EmuInv, EmulateFloatLoad, pc' = "run"
  PROVE  EmulationExact'
<1> DEFINE bytes == [i \in 1 .. cur.len |-> mem[cur.addr + i - 1]]
<1>1. pc = "emulate" /\ cur.k = "flw" /\ cur.fs /\ cur.k \in Loads
  BY DEF EmulateFloatLoad, Loads
<1>2. Return(LoadInto(cur, frames[1], bytes), tp) /\ UNCHANGED <<vec, mem>>
  BY DEF EmulateFloatLoad, Fault
<1>3. /\ cur \in Code
      /\ MemSound(cur, mem)
      /\ Ready(cur, vec, mem)
      /\ frames[1] = Regs
      /\ tp = orig.fcsr
  BY <1>1, AtEmulate
<1>4. /\ ~Writes(cur)
      /\ cur.addr \in Int
      /\ cur.len \in Nat
      /\ Bytes(cur) \subseteq Address
  BY <1>1, <1>3, LoadedScalar
<1>5. \A i \in 1 .. cur.len : mem[cur.addr + i - 1] = Memory[cur.addr + i - 1]
  <2>1. \A i \in 1 .. cur.len : cur.addr + i - 1 \in Address
    BY <1>4 DEF Bytes
  <2> QED
    BY <1>3, <1>4, <2>1 DEF MemSound
<1>6. bytes = Read(cur.addr, cur.len)
  BY <1>5 DEF Read
<1> HIDE DEF bytes
<1>7. RegistersDone(cur, LoadInto(cur, Regs, bytes), tp, orig, timer'.time)
  BY <1>1, <1>3, <1>6, LoadRight
<1>8. MemDone(cur, mem') /\ VecDone(cur, vec')
  BY <1>1, <1>2, <1>3, <1>4, NothingElse DEF VectorOps
<1>9. Emulable(cur)
  BY <1>1 DEF Emulable, FpOps, ReservedRm
<1> QED
  BY <1>1, <1>2, <1>3, <1>7, <1>8, <1>9, Finishing DEF Places

LEMMA ExactFloatStore ==
  ASSUME IInv, EmuInv, EmulateFloatStore, pc' = "run"
  PROVE  EmulationExact'
<1>1. pc = "emulate" /\ cur.k = "fsw" /\ cur.fs /\ cur.k \in Stores
  BY DEF EmulateFloatStore, Stores
<1>2. /\ mem' = [a \in Address |-> IF a \in Bytes(cur)
                                   THEN Bit(frames[1].f, a - cur.addr)
                                   ELSE mem[a]]
      /\ Return(frames[1], tp)
      /\ UNCHANGED vec
  BY Zenon DEF EmulateFloatStore, Fault
<1>3. /\ cur \in Code
      /\ MemSound(cur, mem)
      /\ Ready(cur, vec, mem)
      /\ frames[1] = Regs
      /\ tp = orig.fcsr
  BY <1>1, AtEmulate
<1>4. Writes(cur) /\ Touched(cur) = Bytes(cur)
  BY <1>1 DEF Writes, Touched, Loads, Stores
<1>5. \A a : Stored(cur, a) = Bit(Regs.f, a - cur.addr)
  BY <1>1 DEF Stored, Stores, Target
<1>6. MemDone(cur, mem')
  BY <1>2, <1>3, <1>4, <1>5 DEF MemDone, MemSound
<1>7. VecDone(cur, vec')
  BY <1>1, <1>2, <1>3, NothingElse DEF VectorOps
<1>8. RegistersDone(cur, frames[1], tp, orig, timer'.time)
  BY <1>1, <1>3, StoreRight
<1>9. Emulable(cur)
  BY <1>1 DEF Emulable, FpOps, ReservedRm
<1> QED
  BY <1>1, <1>2, <1>6, <1>7, <1>8, <1>9, Finishing DEF Places

\* An operation on registers and fcsr alone.
LEMMA ExactOp ==
  ASSUME IInv, EmuInv, pc \in {"emulate", "mcall"}, NEW r, NEW t, Return(r, t),
         UNCHANGED <<vec, mem>>, cur.k \notin Stores \cup VectorOps, Emulable(cur),
         RegistersDone(cur, r, t, orig, timer'.time)
  PROVE  EmulationExact'
<1>1. Begun /\ AtPlace(pc, cur, loc, csr, vec, mem) /\ MemSound(cur, mem)
  BY DEF EmuInv, Begun
<1>2. Ready(cur, vec, mem)
  BY <1>1 DEF AtPlace
<1>3. ~Writes(cur)
  BY DEF Writes, VectorOps
<1>4. MemDone(cur, mem') /\ VecDone(cur, vec')
  BY <1>1, <1>2, <1>3, NothingElse
<1> QED
  BY <1>4, Finishing DEF Places

\* And what it has of the program.
LEMMA AtOp ==
  ASSUME EmuInv, pc \in {"emulate", "mcall"}
  PROVE  /\ cur \in Code
         /\ WellFormed(cur)
         /\ frames[1] = Regs
         /\ tp = orig.fcsr
         /\ orig.time \in 0 .. timer.time
BY CodeAssumption DEF EmuInv, Begun

LEMMA ExactCsr ==
  ASSUME IInv, EmuInv, TimerInv, EmulateCsr, pc' = "run"
  PROVE  EmulationExact'
<1> DEFINE write == cur.op = "rw" \/ ~cur.zero
           old == ReadCsr(cur.num)
           t == IF write THEN WriteFcsr(cur.num, NewValue(cur, old)) ELSE tp
           r == [frames[1] EXCEPT !.x = old]
<1>1. pc = "emulate" /\ cur.k = "csr"
  BY DEF EmulateCsr
<1>2. /\ Readable(cur)
      /\ ~(write /\ cur.num = "time")
      /\ Return(r, t)
      /\ UNCHANGED <<vec, mem, timer>>
  BY DEF EmulateCsr, TrulyIllegal, Redirect
<1>3. /\ WellFormed(cur)
      /\ frames[1] = Regs
      /\ tp = orig.fcsr
      /\ orig.time \in 0 .. timer.time
  BY <1>1, AtOp
<1>4. /\ cur.num \in {"time", FRM, FFLAGS}
      /\ cur.op \in {"rw", "rs", "rc"}
      /\ cur.rs1 \in {0, 1}
  BY <1>1, <1>3 DEF WellFormed
<1>5. Emulable(cur)
  BY <1>1, <1>2, <1>4 DEF Emulable, RefusedCsr, Readable, FpOps
<1>6. XRight(cur, r.x, orig, timer'.time)
  <2>1. r.x = old
    BY <1>3, SetRegister
  <2>2. CASE cur.num = "time"
    <3>1. old = timer.time /\ old \in orig.time .. timer'.time
      BY <1>2, <1>3, <2>2, TimeAssumption DEF ReadCsr, FRM, FFLAGS, TimerInv
    <3> QED
      BY <1>1, <2>1, <2>2, <3>1 DEF XRight
  <2>3. CASE cur.num # "time"
    <3>1. old = IF cur.num \in orig.fcsr THEN 1 ELSE 0
      BY <1>3, <1>4, <2>3 DEF ReadCsr
    <3> QED
      BY <1>1, <2>1, <2>3, <3>1 DEF XRight
  <2> QED
    BY <2>2, <2>3
<1>7. FRight(cur, r.f, orig)
  BY <1>1, <1>3, SetRegister DEF FRight
<1>8. FcsrRight(cur, t, orig)
  <2> SUFFICES ASSUME NEW b \in {FRM, FFLAGS}
               PROVE  b \in t <=>
                        IF cur.num = b /\ cur.op = "rw" THEN cur.rs1 = 1
                        ELSE IF cur.num = b /\ cur.op # "rw" /\ ~cur.zero /\ cur.rs1 = 1
                        THEN cur.op = "rs"
                        ELSE b \in orig.fcsr
    BY <1>1 DEF FcsrRight
  <2>1. CASE ~write
    BY <1>3, <2>1
  <2>2. CASE write
    <3> DEFINE n == NewValue(cur, old)
    <3>1. cur.num \in {FRM, FFLAGS} /\ t = IF n = 1 THEN tp \cup {cur.num} ELSE tp \ {cur.num}
      BY <1>2, <1>4, <2>2 DEF WriteFcsr
    <3>2. CASE b # cur.num
      BY <1>3, <3>1, <3>2
    <3>3. CASE b = cur.num
      <4>1. b \in t <=> n = 1
        BY <3>1, <3>3
      <4>2. old = 1 <=> b \in orig.fcsr
        BY <1>3, <3>3 DEF ReadCsr, FRM, FFLAGS
      <4>3. n = CASE cur.op = "rw" -> cur.rs1
                  [] cur.op = "rs" -> IF cur.rs1 = 1 THEN 1 ELSE old
                  [] cur.op = "rc" -> IF cur.rs1 = 1 THEN 0 ELSE old
        BY DEF NewValue
      <4>4. cur.op = "rw" => (n = 1 <=> cur.rs1 = 1)
        BY <4>3
      <4>5. cur.op = "rs" => (n = 1 <=> cur.rs1 = 1 \/ old = 1)
        BY <4>3
      <4>6. cur.op = "rc" => (n = 1 <=> cur.rs1 # 1 /\ old = 1)
        BY <4>3
      <4> QED
        BY <1>4, <2>2, <3>3, <4>1, <4>2, <4>4, <4>5, <4>6
    <3> QED
      BY <3>2, <3>3
  <2> QED
    BY <2>1, <2>2
<1> HIDE DEF r, t
<1>9. RegistersDone(cur, r, t, orig, timer'.time)
  BY <1>6, <1>7, <1>8 DEF RegistersDone
<1> QED
  BY <1>1, <1>2, <1>5, <1>9, ExactOp DEF Stores, VectorOps

\* What holds of the operations on floats.
LEMMA AtFloat ==
  ASSUME EmuInv, pc = "emulate", cur.k \in FpOps, cur.fs, ~ReservedRm(cur)
  PROVE  /\ WellFormed(cur)
         /\ frames[1] = Regs
         /\ tp = orig.fcsr
         /\ Emulable(cur)
         /\ cur.k \notin Stores \cup VectorOps
BY AtOp DEF Emulable, FpOps, Stores, VectorOps

LEMMA ExactFp ==
  ASSUME IInv, EmuInv, EmulateFp, pc' = "run"
  PROVE  EmulationExact'
<1> DEFINE f == IF cur.rm = "dynamic" THEN ReadCsr(FRM) ELSE IF cur.rm = "up" THEN 1 ELSE 0
           t == IF cur.raises THEN tp \cup {FFLAGS} ELSE tp
           r == [frames[1] EXCEPT !.f = f]
<1>1. /\ pc = "emulate" /\ cur.k = "fop" /\ cur.fs /\ cur.rm # "reserved"
      /\ Return(r, t)
      /\ UNCHANGED <<vec, mem>>
  BY DEF EmulateFp
<1>2. cur.k \in FpOps /\ ~ReservedRm(cur)
  BY <1>1 DEF FpOps, ReservedRm
<1>3. frames[1] = Regs /\ tp = orig.fcsr /\ Emulable(cur) /\ cur.k \notin Stores \cup VectorOps
  BY <1>1, <1>2, AtFloat
<1>4. r.f = f /\ r.x = Regs.x
  BY <1>3, SetRegister
<1>5. f = IF cur.rm = "up" \/ (cur.rm = "dynamic" /\ FRM \in orig.fcsr) THEN 1 ELSE 0
  BY <1>3 DEF ReadCsr, FRM, FFLAGS
<1>6. FRight(cur, r.f, orig) /\ XRight(cur, r.x, orig, timer'.time)
  BY <1>1, <1>4, <1>5 DEF FRight, XRight
<1>7. FcsrRight(cur, t, orig)
  BY <1>1, <1>3 DEF FcsrRight, FRM, FFLAGS
<1> HIDE DEF r, t
<1>8. RegistersDone(cur, r, t, orig, timer'.time)
  BY <1>6, <1>7 DEF RegistersDone
<1> QED
  BY <1>1, <1>3, <1>8, ExactOp

\* An invalid operand raises its flag.
LEMMA FlagRight ==
  ASSUME NEW in, in.k \in {"fmin", "fcmp"}, NEW o, tp = o.fcsr, NEW raised,
         raised <=> InvalidRight(in.k, in.rm, in.rs1, in.rs2)
  PROVE  FcsrRight(in, Flag(raised), o)
<1>1. CASE raised
  BY <1>1 DEF FcsrRight, Flag, FRM, FFLAGS
<1>2. CASE ~raised
  BY <1>2 DEF FcsrRight, Flag, FRM, FFLAGS
<1> QED
  BY <1>1, <1>2

LEMMA ExactFsgnj ==
  ASSUME OpsRight, IInv, EmuInv, EmulateFsgnj, pc' = "run"
  PROVE  EmulationExact'
<1> DEFINE f == Fsgnj(cur.rm, cur.rs1, cur.rs2)
           r == [frames[1] EXCEPT !.f = f]
<1>1. /\ pc = "emulate" /\ cur.k = "fsgnj" /\ cur.fs /\ cur.rm <= 2
      /\ Return(r, tp)
      /\ UNCHANGED <<vec, mem>>
  BY DEF EmulateFsgnj, Selected
<1>2. WellFormed(cur)
  BY <1>1, AtOp
<1>3. cur.rm \in 0 .. 2 /\ cur.rs1 \in Floats /\ cur.rs2 \in Floats
  BY <1>1, <1>2 DEF WellFormed, FpOps
<1>4. cur.k \in FpOps /\ ~ReservedRm(cur)
  BY <1>1, <1>3 DEF FpOps, ReservedRm
<1>5. frames[1] = Regs /\ tp = orig.fcsr /\ Emulable(cur) /\ cur.k \notin Stores \cup VectorOps
  BY <1>1, <1>4, AtFloat
<1>6. r.f = f /\ r.x = Regs.x
  BY <1>5, SetRegister
<1>7. FsgnjRight(cur.rm, cur.rs1, cur.rs2, f)
  BY <1>3 DEF OpsRight
<1> HIDE DEF f
<1>8. FRight(cur, r.f, orig) /\ XRight(cur, r.x, orig, timer'.time)
  BY <1>1, <1>6, <1>7 DEF FRight, XRight
<1>9. FcsrRight(cur, tp, orig)
  BY <1>1, <1>5, SameFcsr
<1> HIDE DEF r
<1>10. RegistersDone(cur, r, tp, orig, timer'.time)
  BY <1>8, <1>9 DEF RegistersDone
<1> QED
  BY <1>1, <1>5, <1>10, ExactOp

LEMMA ExactFmin ==
  ASSUME OpsRight, IInv, EmuInv, EmulateFmin, pc' = "run"
  PROVE  EmulationExact'
<1> DEFINE f == Fmin(cur.rm, cur.rs1, cur.rs2)
           raised == Raises("fmin", cur.rm, cur.rs1, cur.rs2)
           r == [frames[1] EXCEPT !.f = f]
<1>1. /\ pc = "emulate" /\ cur.k = "fmin" /\ cur.fs /\ cur.rm <= 1
      /\ Return(r, Flag(raised))
      /\ UNCHANGED <<vec, mem>>
  BY DEF EmulateFmin, Selected
<1>2. WellFormed(cur)
  BY <1>1, AtOp
<1>3. cur.rm \in 0 .. 1 /\ cur.rs1 \in Floats /\ cur.rs2 \in Floats
  BY <1>1, <1>2 DEF WellFormed, FpOps
<1>4. cur.k \in FpOps /\ ~ReservedRm(cur)
  BY <1>1, <1>3 DEF FpOps, ReservedRm
<1>5. frames[1] = Regs /\ tp = orig.fcsr /\ Emulable(cur) /\ cur.k \notin Stores \cup VectorOps
  BY <1>1, <1>4, AtFloat
<1>6. r.f = f /\ r.x = Regs.x
  BY <1>5, SetRegister
<1>7. /\ FminRight(cur.rm, cur.rs1, cur.rs2, f)
      /\ raised <=> InvalidRight("fmin", cur.rm, cur.rs1, cur.rs2)
  BY <1>3 DEF OpsRight
<1> HIDE DEF f, raised
<1>8. FRight(cur, r.f, orig) /\ XRight(cur, r.x, orig, timer'.time)
  BY <1>1, <1>6, <1>7 DEF FRight, XRight
<1>9. FcsrRight(cur, Flag(raised), orig)
  BY <1>1, <1>5, <1>7, FlagRight
<1> HIDE DEF r
<1>10. RegistersDone(cur, r, Flag(raised), orig, timer'.time)
  BY <1>8, <1>9 DEF RegistersDone
<1> QED
  BY <1>1, <1>5, <1>10, ExactOp

LEMMA ExactFcmp ==
  ASSUME OpsRight, IInv, EmuInv, EmulateFcmp, pc' = "run"
  PROVE  EmulationExact'
<1> DEFINE x == IF Fcmp(cur.rm, cur.rs1, cur.rs2) THEN 1 ELSE 0
           raised == Raises("fcmp", cur.rm, cur.rs1, cur.rs2)
           r == [frames[1] EXCEPT !.x = x]
<1>1. /\ pc = "emulate" /\ cur.k = "fcmp" /\ cur.fs /\ cur.rm <= 2
      /\ Return(r, Flag(raised))
      /\ UNCHANGED <<vec, mem>>
  BY DEF EmulateFcmp, Selected
<1>2. WellFormed(cur)
  BY <1>1, AtOp
<1>3. cur.rm \in 0 .. 2 /\ cur.rs1 \in Floats /\ cur.rs2 \in Floats
  BY <1>1, <1>2 DEF WellFormed, FpOps
<1>4. cur.k \in FpOps /\ ~ReservedRm(cur)
  BY <1>1, <1>3 DEF FpOps, ReservedRm
<1>5. frames[1] = Regs /\ tp = orig.fcsr /\ Emulable(cur) /\ cur.k \notin Stores \cup VectorOps
  BY <1>1, <1>4, AtFloat
<1>6. r.x = x /\ r.f = Regs.f /\ x \in {0, 1}
  BY <1>5, SetRegister
<1>7. /\ FcmpRight(cur.rm, cur.rs1, cur.rs2, x)
      /\ raised <=> InvalidRight("fcmp", cur.rm, cur.rs1, cur.rs2)
  BY <1>3 DEF OpsRight
<1> HIDE DEF x, raised
<1>8. FRight(cur, r.f, orig) /\ XRight(cur, r.x, orig, timer'.time)
  BY <1>1, <1>6, <1>7 DEF FRight, XRight
<1>9. FcsrRight(cur, Flag(raised), orig)
  BY <1>1, <1>5, <1>7, FlagRight
<1> HIDE DEF r
<1>10. RegistersDone(cur, r, Flag(raised), orig, timer'.time)
  BY <1>8, <1>9 DEF RegistersDone
<1> QED
  BY <1>1, <1>5, <1>10, ExactOp

LEMMA ExactFmvIf ==
  ASSUME OpsRight, MovesRight, IInv, EmuInv, EmulateFmvIf, pc' = "run"
  PROVE  EmulationExact'
<1> DEFINE x == IF cur.rm = 0 THEN Unsigned(Signed(cur.rs1, 1 + EXP + FRAC), XBITS)
                ELSE Class(cur.rs1)
           r == [frames[1] EXCEPT !.x = x]
<1>1. /\ pc = "emulate" /\ cur.k = "fmv_if" /\ cur.fs /\ cur.rm <= 1
      /\ Return(r, tp)
      /\ UNCHANGED <<vec, mem>>
  BY DEF EmulateFmvIf, Selected
<1>2. WellFormed(cur)
  BY <1>1, AtOp
<1>3. cur.rm \in {0, 1} /\ cur.rs1 \in Floats
  BY <1>1, <1>2 DEF WellFormed, FpOps
<1>4. cur.k \in FpOps /\ ~ReservedRm(cur)
  BY <1>1, <1>3 DEF FpOps, ReservedRm
<1>5. frames[1] = Regs /\ tp = orig.fcsr /\ Emulable(cur) /\ cur.k \notin Stores \cup VectorOps
  BY <1>1, <1>4, AtFloat
<1>6. r.x = x /\ r.f = Regs.f
  BY <1>5, SetRegister
<1>7. /\ cur.rm = 0 => /\ x \in Registers
                       /\ \A i \in 0 .. XBITS - 1 :
                            Bit(x, i) = IF i < EXP + FRAC THEN Bit(cur.rs1, i)
                                        ELSE Sign(cur.rs1)
      /\ cur.rm = 1 => FclassRight(cur.rs1, x)
  BY <1>3 DEF OpsRight, MovesRight
<1> HIDE DEF x
<1>8. FRight(cur, r.f, orig) /\ XRight(cur, r.x, orig, timer'.time)
  BY <1>1, <1>3, <1>6, <1>7 DEF FRight, XRight
<1>9. FcsrRight(cur, tp, orig)
  BY <1>1, <1>5, SameFcsr
<1> HIDE DEF r
<1>10. RegistersDone(cur, r, tp, orig, timer'.time)
  BY <1>8, <1>9 DEF RegistersDone
<1> QED
  BY <1>1, <1>5, <1>10, ExactOp

LEMMA ExactFmvFi ==
  ASSUME MovesRight, IInv, EmuInv, EmulateFmvFi, pc' = "run"
  PROVE  EmulationExact'
<1> DEFINE f == Unsigned(cur.rs1, 1 + EXP + FRAC)
           r == [frames[1] EXCEPT !.f = f]
<1>1. /\ pc = "emulate" /\ cur.k = "fmv_fi" /\ cur.fs /\ cur.rm <= 0
      /\ Return(r, tp)
      /\ UNCHANGED <<vec, mem>>
  BY DEF EmulateFmvFi, Selected
<1>2. WellFormed(cur)
  BY <1>1, AtOp
<1>3. cur.rm = 0 /\ cur.rs1 \in Registers
  BY <1>1, <1>2 DEF WellFormed
<1>4. cur.k \in FpOps /\ ~ReservedRm(cur)
  BY <1>1, <1>3 DEF FpOps, ReservedRm
<1>5. frames[1] = Regs /\ tp = orig.fcsr /\ Emulable(cur) /\ cur.k \notin Stores \cup VectorOps
  BY <1>1, <1>4, AtFloat
<1>6. r.f = f /\ r.x = Regs.x
  BY <1>5, SetRegister
<1>7. f \in Floats /\ \A i \in 0 .. EXP + FRAC : Bit(f, i) = Bit(cur.rs1, i)
  BY <1>3 DEF MovesRight
<1> HIDE DEF f
<1>8. FRight(cur, r.f, orig) /\ XRight(cur, r.x, orig, timer'.time)
  BY <1>1, <1>6, <1>7 DEF FRight, XRight, Floats
<1>9. FcsrRight(cur, tp, orig)
  BY <1>1, <1>5, SameFcsr
<1> HIDE DEF r
<1>10. RegistersDone(cur, r, tp, orig, timer'.time)
  BY <1>8, <1>9 DEF RegistersDone
<1> QED
  BY <1>1, <1>5, <1>10, ExactOp

LEMMA ExactMulDiv ==
  ASSUME OpsRight, IInv, EmuInv, EmulateMulDiv, pc' = "run"
  PROVE  EmulationExact'
<1>1. pc = "emulate" /\ cur.k = "muldiv" /\ UNCHANGED <<vec, mem>>
  BY DEF EmulateMulDiv
<1>2. PICK x \in IF cur.word THEN MulDiv32(cur.op, cur.rs1, cur.rs2)
                 ELSE MulDiv(cur.op, cur.rs1, cur.rs2) :
        Return([frames[1] EXCEPT !.x = x], tp)
  BY DEF EmulateMulDiv
<1> DEFINE r == [frames[1] EXCEPT !.x = x]
<1>3. WellFormed(cur) /\ frames[1] = Regs /\ tp = orig.fcsr
  BY <1>1, AtOp
<1>4. /\ cur.rs1 \in Registers /\ cur.rs2 \in Registers
      /\ cur.op \in IF cur.word THEN WordOps ELSE MulDivOps
  BY <1>1, <1>3 DEF WellFormed
<1>5. /\ x \in Registers
      /\ MulDivRight(cur.op, cur.rs1, cur.rs2,
                     IF cur.word THEN XBITS \div 2 ELSE XBITS, x)
  <2>1. CASE cur.word
    BY <1>2, <1>4, <2>1 DEF OpsRight
  <2>2. CASE ~cur.word
    BY <1>2, <1>4, <2>2 DEF OpsRight
  <2> QED
    BY <2>1, <2>2
<1>6. r.x = x /\ r.f = Regs.f
  BY <1>3, SetRegister
<1>7. FRight(cur, r.f, orig) /\ XRight(cur, r.x, orig, timer'.time)
  BY <1>1, <1>5, <1>6 DEF FRight, XRight
<1>8. FcsrRight(cur, tp, orig)
  BY <1>1, <1>3, SameFcsr DEF FpOps
<1> HIDE DEF r
<1>9. RegistersDone(cur, r, tp, orig, timer'.time)
  BY <1>7, <1>8 DEF RegistersDone
<1>10. Emulable(cur) /\ cur.k \notin Stores \cup VectorOps
  BY <1>1 DEF Emulable, FpOps, Stores, VectorOps
<1>11. Return(r, tp)
  BY <1>2 DEF r
<1> QED
  BY <1>1, <1>9, <1>10, <1>11, ExactOp

LEMMA ExactCall ==
  ASSUME IInv, EmuInv, Call \/ ReadMask, pc' = "run"
  PROVE  EmulationExact'
<1>1. pc = "mcall" /\ cur.k \in Calls /\ UNCHANGED <<vec, mem>>
  BY DEF Call, ReadMask, Calls, Fault, program
<1>2. PICK x : /\ x = IF cur.k = "nosys" THEN ENOSYS ELSE 0
               /\ Return([frames[1] EXCEPT !.x = x], tp)
  BY DEF Call, ReadMask, Fault
<1> DEFINE r == [frames[1] EXCEPT !.x = x]
<1>3. frames[1] = Regs /\ tp = orig.fcsr
  BY <1>1, AtOp
<1>4. r.x = x /\ r.f = Regs.f
  BY <1>3, SetRegister
<1>5. FRight(cur, r.f, orig) /\ XRight(cur, r.x, orig, timer'.time)
  BY <1>1, <1>2, <1>4 DEF FRight, XRight, Calls
<1>6. FcsrRight(cur, tp, orig)
  BY <1>1, <1>3, SameFcsr DEF FpOps, Calls
<1> HIDE DEF r
<1>7. RegistersDone(cur, r, tp, orig, timer'.time)
  BY <1>5, <1>6 DEF RegistersDone
<1>8. Emulable(cur) /\ cur.k \notin Stores \cup VectorOps
  BY <1>1 DEF Emulable, FpOps, Stores, VectorOps, Calls
<1>9. Return(r, tp)
  BY <1>2 DEF r
<1> QED
  BY <1>1, <1>7, <1>8, <1>9, ExactOp

\* No other step of the monitor ends in the program.
LEMMA ExactMonitor ==
  ASSUME ValuesRight, ShiftsRight, OpsRight, MovesRight, IInv, TimerInv, EmuInv, Monitor
  PROVE  EmulationExact'
<1>1. CASE pc' # "run"
  BY <1>1 DEF EmulationExact
<1>2. CASE pc' = "run"
  <2>1. ~PmpTrap /\ ~MachinePageFault
    BY <1>2 DEF PmpTrap, MachinePageFault, Redirect
  <2>2. ~Decode /\ ~ReadInstruction /\ ~PuntToMisalignedHandler /\ ~EmulateNothing
        /\ ~VecElement
    BY <1>2 DEF Decode, ReadInstruction, PuntToMisalignedHandler, EmulateNothing,
                VecElement, TrulyIllegal, Redirect
  <2>3. ~Fetch
    <3>1. Fetch => pc = "fetch" /\ loc.then \in {"misaligned", "emulate"}
      BY DEF Fetch, IInv
    <3> QED
      BY <1>2, <3>1 DEF Fetch, Fault
  <2> QED
    BY <1>2, <2>1, <2>2, <2>3, ExactLoadByte, ExactStoreByte, ExactVecMasked,
       ExactVecLoadByte, ExactVecStoreByte, ExactFloatLoad, ExactFloatStore,
       ExactCsr, ExactFp, ExactFsgnj, ExactFmin, ExactFcmp, ExactFmvIf,
       ExactFmvFi, ExactMulDiv, ExactCall DEF Monitor
<1> QED
  BY <1>1, <1>2

\* The clock goes on while the program does.
LEMMA ExactEnvironment ==
  IInv /\ TimerInv /\ EmulationExact /\ Environment => EmulationExact'
<1> SUFFICES ASSUME IInv, TimerInv, EmulationExact, Environment PROVE EmulationExact'
  OBVIOUS
<1>1. CASE /\ UNCHANGED <<pc, prv, csr, regs, slot, vec, mem, cur, done, orig>>
           /\ timer'.time \in Nat /\ timer'.time >= timer.time
           /\ timer.time \in Nat
  <2>1. XRight(cur, regs.x, orig, timer.time) => XRight(cur, regs.x, orig, timer'.time)
    <3>1. \A x : x \in orig.time .. timer.time => x \in orig.time .. timer'.time
      BY <1>1
    <3> QED
      BY <3>1 DEF XRight
  <2> QED
    BY <1>1, <2>1 DEF EmulationExact
<1>2. timer.time \in Nat
  BY TimeAssumption DEF TimerInv
<1>3. \A p : Remap(p) => EmulationExact'
  BY <1>1, <1>2 DEF Remap, program, monitor, history
<1>4. Tick => EmulationExact'
  BY <1>1, <1>2 DEF Tick, program, monitor, history, TimerInv
<1>5. TimerInterrupt => EmulationExact'
  BY <1>1, <1>2 DEF TimerInterrupt, program, monitor, history, TimerInv
<1>6. GoOn => EmulationExact'
  BY DEF GoOn, EmulationExact
<1>7. \A skip : Sret(skip) => EmulationExact'
  BY DEF Sret, EmulationExact
<1>8. \A in, p : Trap(in, p) => EmulationExact'
  BY DEF Trap, EmulationExact
<1>9. TrapAgain => EmulationExact'
  BY DEF TrapAgain, EmulationExact
<1> QED
  BY <1>3, <1>4, <1>5, <1>6, <1>7, <1>8, <1>9 DEF Environment

\* Whatever faults and restarts lie between, an emulated instruction leaves the
\* program's registers, memory, vector register and fcsr as the instruction set
\* asks for (emulation.c, misaligned_ldst.c, misaligned_vec_ldst.c, fp_ldst.c),
\* if the pure functions that compute results do so on all operands.
THEOREM Exact ==
  ASSUME ValuesRight, ShiftsRight, OpsRight, MovesRight
  PROVE  Spec => []EmulationExact
<1>1. Init => EmulationExact
  <2>1. Init => cur = [k |-> "none"]
    BY DEF Init
  <2>2. cur = [k |-> "none"] => cur.k = "none"
    OBVIOUS
  <2> QED
    BY <2>1, <2>2 DEF EmulationExact
<1>2. IInv /\ TimerInv /\ EmuInv /\ EmulationExact /\ [Next]_vars => EmulationExact'
  <2> SUFFICES ASSUME IInv, TimerInv, EmuInv, EmulationExact, [Next]_vars
               PROVE  EmulationExact'
    OBVIOUS
  <2>1. CASE Next
    BY <2>1, ExactMonitor, ExactEnvironment DEF Next
  <2>2. CASE UNCHANGED vars
    BY <2>2 DEF vars, program, monitor, history, EmulationExact
  <2> QED
    BY <2>1, <2>2
<1> QED
  BY <1>1, <1>2, EmuInvKept, DisciplineKept, TimerInvKept, PTL DEF Spec
=============================================================================
