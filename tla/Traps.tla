------------------------------- MODULE Traps --------------------------------
(***************************************************************************)
(* The machine-mode traps of one hart (machine/mentry.S, mtrap.c): a       *)
(* program below machine mode executes instructions that the hart cannot,  *)
(* the monitor emulates them (emulation.c, misaligned_ldst.c, fp_ldst.c,   *)
(* misaligned_vec_ldst.c) or hands the trap on to the supervisor           *)
(* (redirect_trap), and keeps the supervisor's timer.                      *)
(*                                                                         *)
(* While it emulates, the monitor reads the instruction and the program's  *)
(* memory with the program's own rights, one access at a time, and each    *)
(* access may fault: other harts map and unmap pages at any time.  Such a  *)
(* fault is a trap from machine mode, and the supervisor gets it as if the *)
(* program's instruction had caused it.  The build is one without floating *)
(* point registers, whose fcsr lives in the save slot of x0, and without   *)
(* multiplication.                                                         *)
(*                                                                         *)
(* A byte of memory is one bit.                                            *)
(***************************************************************************)
EXTENDS EmulatedOps, Sequences

CONSTANTS
  Code,     \* the instructions that trap
  Pages,    \* pages of the program's code and data
  PAGE,     \* bytes of a page
  Memory,   \* what the program has in memory
  Regs,     \* and in its registers, when it comes to such an instruction
  Vector,   \* and in a vector register: its elements, from 0 on
  ELEN,     \* bytes of an element
  MaxTime   \* bound on the clock

ASSUME PageAssumption == PAGE \in Nat \ {0}
ASSUME TimeAssumption == MaxTime \in Nat

VARIABLES
  pc,        \* "run" below machine mode, "super" in the supervisor's handler
  prv,       \* privilege of the hart: "U", "S" or "M"
  mscratch,  \* whether it points to the machine stack; otherwise it is 0
  frames,    \* the registers saved on the machine stack, the first at its top
  regs,      \* the registers of the hart
  slot,      \* x0's save slot at the top of the stack
  tp,        \* the monitor's tp, which holds fcsr
  csr,       \* control and status registers of the two modes
  vec,       \* vl, vstart and the vector register
  mem,
  mapped,    \* pages that are present
  loc,       \* local variables of a handler
  cur,       \* the instruction at "insn"
  done,      \* whether the program is past it
  orig,      \* history: the program's state when it came to it
  timer      \* time, timecmp, and the bits STIP and MTIE

program == <<regs, vec, mem>>
monitor == <<frames, slot, tp, loc>>
history == <<cur, done, orig>>
vars == <<pc, prv, mscratch, csr, program, monitor, history, mapped, timer>>

VL == Cardinality(DOMAIN Vector)
Present(a) == a \div PAGE \in mapped
Junk == -1

\* fcsr is a set of bits: one of the rounding mode and one exception flag.
FRM == "frm"
FFLAGS == "fflags"

\* The registers that hold nothing the hart or the monitor will read again.
Forget(c) == [c EXCEPT !.mcause = "", !.mtval = Junk, !.sepc = "",
                       !.scause = "", !.stval = Junk, !.spp = "U"]

NoRegs == [x |-> Junk, f |-> Junk]
NoLoc == [epc |-> "insn", mpp |-> "U", adj |-> "", then |-> "misaligned",
          i |-> 0, bytes |-> <<>>, e |-> 0, vl |-> 0]

Init ==
  /\ pc = "run"
  /\ prv \in {"U", "S"}
  /\ mscratch = TRUE
  /\ frames = <<>>
  /\ regs = Regs
  /\ slot = {FRM}
  /\ tp = {}
  /\ \E sie \in BOOLEAN :
       /\ csr = [mepc |-> "next", mcause |-> "", mtval |-> Junk, mpp |-> "U",
                 mprv |-> FALSE, sepc |-> "", scause |-> "", stval |-> Junk,
                 spp |-> "U", sie |-> sie, spie |-> TRUE]
       /\ orig = [fcsr |-> slot, prv |-> prv, sie |-> sie, time |-> 0]
  /\ vec = [vl |-> VL, vstart |-> 0, vd |-> Vector]
  /\ mem = Memory
  /\ mapped = Pages
  /\ loc = NoLoc
  /\ cur = [k |-> "none"]
  /\ done = TRUE
  /\ timer = [time |-> 0, cmp |-> MaxTime + 1, stip |-> FALSE, mtie |-> FALSE]

-----------------------------------------------------------------------------
(* Instructions *)

Loads == {"load", "flw"}
Stores == {"store", "fsw"}
FpOps == {"fop", "fsgnj", "fmin", "fcmp", "fmv_if", "fmv_fi"}
Calls == {"timer", "nosys", "mask"}

Address == DOMAIN Memory
Bytes(in) == in.addr .. in.addr + in.len - 1
Elements(in) == {e \in DOMAIN Vector : in.mask[e]}
Base(in, e) == in.addr + e * in.stride
ElementBytes(in, e) == Base(in, e) .. Base(in, e) + ELEN - 1

\* The instructions of Code have the fields that their handlers read of them.
\* The elements of a vector in memory follow each other and do not overlap.
WellFormed(in) ==
  /\ in.k \in Loads \cup Stores \cup FpOps \cup Calls \cup
              {"vload", "vstore", "lr", "amo", "csr", "muldiv", "bad", "pmp"}
  /\ in.k \notin Calls \cup {"pmp"} => in.parcels \in Seq(Int) \ {<<>>}
  /\ in.k \in Loads \cup Stores =>
       in.addr \in Int /\ in.len \in 1 .. XBITS /\ Bytes(in) \subseteq Address
  /\ in.k = "load" => in.signed \in BOOLEAN
  /\ in.k \in {"vload", "vstore"} =>
       /\ in.addr \in Int /\ in.stride \in Nat /\ in.stride >= ELEN
       /\ in.fof => in.k = "vload"
       /\ \A e \in Elements(in) :
            e = 0 \/ ~in.fof => ElementBytes(in, e) \subseteq Address
  /\ in.k = "csr" =>
       in.num \in {"time", FRM, FFLAGS} /\ in.op \in {"rw", "rs", "rc"} /\ in.rs1 \in {0, 1}
  /\ in.k \in FpOps \ {"fop", "fmv_fi"} => in.rm \in Nat /\ in.rs1 \in Floats
  /\ in.k \in {"fsgnj", "fmin", "fcmp"} => in.rs2 \in Floats
  /\ in.k = "fmv_fi" => in.rm \in Nat /\ in.rs1 \in Registers
  /\ in.k = "muldiv" =>
       /\ in.rs1 \in Registers /\ in.rs2 \in Registers
       /\ in.op \in IF in.word THEN WordOps ELSE MulDivOps

ASSUME VectorAssumption ==
  {ELEN, VL} \subseteq Nat \ {0} /\ Vector \in [0 .. VL - 1 -> Nat]
ASSUME MemoryAssumption == Address \subseteq Int /\ Memory \in [Address -> {0, 1}]
ASSUME RegsAssumption == Regs \in [x : Registers, f : Nat]
ASSUME CodeAssumption == \A in \in Code : WellFormed(in)

-----------------------------------------------------------------------------
(* Entry and exit *)

\* What the hart reports of an instruction: the cause, and the address in mtval.
Cause(in) ==
  CASE in.k \in {"load", "vload", "lr"} -> "misaligned load"
    [] in.k \in {"store", "vstore", "amo"} -> "misaligned store"
    [] in.k \in {"timer", "nosys", "mask"} -> "ecall"
    [] in.k = "pmp" -> "access fault"
    [] OTHER -> "illegal"

Misaligned == {"misaligned load", "misaligned store"}
Addressed == Misaligned \cup {"access fault"}

\* trap_table, for the causes that medeleg leaves to the monitor.
Handler(cause) ==
  CASE cause \in Misaligned -> "fetch"
    [] cause = "ecall" -> "mcall"
    [] cause = "illegal" -> "illegal"
    [] cause = "access fault" -> "pmp"

\* The hart takes a trap of a program at privilege p with registers r, and
\* trap_vector saves them; fcsr moves from x0's save slot to tp.
Entry(cause, tval, p, r) ==
  /\ csr' = [csr EXCEPT !.mcause = cause, !.mepc = "insn", !.mtval = tval,
                        !.mpp = p]
  /\ prv' = "M"
  /\ mscratch' = FALSE
  /\ frames' = Append(frames, r)
  /\ tp' = slot
  /\ slot' = {}

\* restore_mscratch, restore_regs and mret, from the frame at the stack's top.
Leave(p) ==
  /\ mscratch' = TRUE
  /\ regs' = frames[1]
  /\ frames' = <<>>
  /\ tp' = {}
  /\ prv' = p
  /\ loc' = NoLoc

\* Mutant: mstatus is that of the nested trap, with MPRV set.
RedirectNested(epc, mpp, badaddr, cause) ==
  /\ csr' = [csr EXCEPT !.mcause = cause, !.scause = cause, !.sepc = epc,
                        !.stval = badaddr, !.mepc = "stvec", !.spp = mpp,
                        !.spie = csr.sie, !.sie = FALSE, !.mpp = "S"]
  /\ pc' = "super"
  /\ Leave("S")
  /\ UNCHANGED <<slot, vec, mem, history, mapped, timer>>

\* redirect_trap.  Its mstatus is that of the program's trap, with MPP as mpp
\* and MPRV clear.  The handler does not return: x0's slot stays cleared.
Redirect(epc, mpp, badaddr, cause) ==
  /\ csr' = [csr EXCEPT !.mcause = cause, !.scause = cause, !.sepc = epc,
                        !.stval = badaddr, !.mepc = "stvec", !.spp = mpp,
                        !.spie = csr.sie, !.sie = FALSE, !.mpp = "S",
                        !.mprv = FALSE]
  /\ pc' = "super"
  /\ Leave("S")
  /\ UNCHANGED <<slot, vec, mem, history, mapped, timer>>

\* pmp_trap: what the program may not reach is the supervisor's to judge.
PmpTrap ==
  /\ pc = "pmp"
  /\ Redirect("insn", csr.mpp, csr.mtval, csr.mcause)

\* truly_illegal_insn: stval is the instruction, not an address.
TrulyIllegal(cause) == Redirect("insn", loc.mpp, Junk, cause)

-----------------------------------------------------------------------------
(* The program and the supervisor *)

\* The program goes on with instructions that the hart executes, which make its
\* registers and memory what they are when it comes to the next that traps.
GoOn ==
  /\ pc = "run"
  /\ done
  /\ cur.k # "none"
  /\ cur' = [k |-> "none"]
  /\ regs' = Regs
  /\ vec' = [vl |-> VL, vstart |-> 0, vd |-> Vector]
  /\ mem' = Memory
  /\ orig' = [fcsr |-> slot, prv |-> prv, sie |-> csr.sie, time |-> 0]
  /\ UNCHANGED <<pc, prv, mscratch, csr, monitor, done, mapped, timer>>

\* The program, at privilege p, comes to instruction in, which traps.
Trap(in, p) ==
  /\ pc = "run"
  /\ done
  /\ cur.k = "none"
  /\ Entry(Cause(in), IF Cause(in) \in Addressed THEN in.addr ELSE Junk, p,
           Regs)
  /\ regs' = NoRegs
  /\ mem' = Memory
  /\ vec' = [vl |-> VL, vstart |-> 0, vd |-> Vector]
  /\ cur' = in
  /\ done' = FALSE
  /\ orig' = [fcsr |-> slot, prv |-> p, sie |-> csr.sie, time |-> timer.time]
  /\ loc' = [NoLoc EXCEPT !.mpp = p]
  /\ pc' = Handler(Cause(in))
  /\ UNCHANGED <<mapped, timer>>

\* The supervisor has made it go back to the instruction, which traps again.
TrapAgain ==
  /\ pc = "run"
  /\ ~done
  /\ Entry(Cause(cur), IF Cause(cur) \in Addressed THEN cur.addr ELSE Junk,
           prv, regs)
  /\ regs' = NoRegs
  /\ orig' = [orig EXCEPT !.fcsr = slot, !.time = timer.time]
  /\ loc' = [NoLoc EXCEPT !.mpp = prv]
  /\ pc' = Handler(Cause(cur))
  /\ UNCHANGED <<mem, vec, cur, done, mapped, timer>>

\* The supervisor returns to the program: at sepc, or past an instruction that
\* it has emulated itself.
Sret(skip) ==
  /\ pc = "super"
  /\ skip => csr.scause = "illegal"
  /\ pc' = "run"
  /\ prv' = csr.spp
  /\ csr' = [Forget(csr) EXCEPT !.sie = csr.spie, !.spie = TRUE]
  /\ done' = (skip \/ csr.sepc = "next")
  /\ cur' = IF done' THEN [k |-> "none"] ELSE cur
  /\ UNCHANGED <<mscratch, program, monitor, orig, mapped, timer>>

\* Another hart changes the address space.
Remap(p) ==
  /\ mapped' = IF p \in mapped THEN mapped \ {p} ELSE mapped \cup {p}
  /\ UNCHANGED <<pc, prv, mscratch, csr, program, monitor, history, timer>>

Tick ==
  /\ timer.time < MaxTime
  /\ timer' = [timer EXCEPT !.time = @ + 1]
  /\ UNCHANGED <<pc, prv, mscratch, csr, program, monitor, history, mapped>>

\* The machine timer interrupt: it is enabled below machine mode only.
TimerInterrupt ==
  /\ prv # "M"
  /\ timer.mtie
  /\ timer.time >= timer.cmp
  /\ timer' = [timer EXCEPT !.mtie = FALSE, !.stip = TRUE]
  /\ UNCHANGED <<pc, prv, mscratch, csr, program, monitor, history, mapped>>

-----------------------------------------------------------------------------
(* The monitor's own accesses (unprivileged_memory.h) *)

\* An access at a with the program's rights faults: a trap from machine mode,
\* whose frame is below the first one.  a1 holds adj, and a2 holds epc.
Fault(a, cause, adj, epc) ==
  /\ ~Present(a)
  /\ csr' = [csr EXCEPT !.mcause = cause, !.mtval = a, !.mprv = TRUE,
                        !.mpp = "M", !.mepc = "monitor"]
  /\ frames' = Append(frames, NoRegs)
  /\ loc' = [loc EXCEPT !.adj = adj, !.epc = epc]
  /\ tp' = {}
  /\ pc' = "nested"
  /\ UNCHANGED <<prv, mscratch, slot, program, history, mapped, timer>>

\* __trap_from_machine_mode: loc holds what the access left in a1, a2 and a3.
MachinePageFault ==
  /\ pc = "nested"
  /\ IF csr.mprv /\ (loc.adj = "MPRV|MXR" => csr.mcause = "load fault")
     THEN Redirect(loc.epc, loc.mpp, csr.mtval,
                   IF loc.adj = "MPRV|MXR" THEN "fetch fault" ELSE csr.mcause)
     ELSE /\ pc' = "bad"
          /\ UNCHANGED <<prv, mscratch, csr, program, monitor, history, mapped,
                         timer>>

Local(l) ==
  /\ loc' = l
  /\ UNCHANGED <<prv, mscratch, csr, frames, slot, tp, regs, history, mapped,
                 timer>>

\* get_insn reads the instruction, in one or two pieces.
Fetch ==
  /\ pc = "fetch"
  /\ LET a == cur.parcels[loc.i + 1]
     IN  \/ Fault(a, "load fault", "MPRV|MXR", "insn")
         \/ /\ Present(a)
            /\ IF loc.i + 1 < Len(cur.parcels)
               THEN pc' = pc /\ Local([loc EXCEPT !.i = @ + 1])
               ELSE pc' = loc.then /\ Local([loc EXCEPT !.i = 0])
            /\ UNCHANGED <<vec, mem>>

\* The handler returns with mepc past the instruction, registers r, fcsr t.
Return(r, t) ==
  /\ csr' = [Forget(csr) EXCEPT !.mepc = "next"]
  /\ slot' = t
  /\ regs' = r
  /\ frames' = <<>>
  /\ tp' = {}
  /\ mscratch' = TRUE
  /\ prv' = csr.mpp
  /\ pc' = "run"
  /\ done' = TRUE
  /\ loc' = NoLoc
  /\ UNCHANGED <<cur, orig, mapped>>

-----------------------------------------------------------------------------
(* Misaligned loads and stores *)

\* The instruction decides how it goes on; others are an access fault.
Decode ==
  /\ pc = "misaligned"
  /\ \/ /\ cur.k \in Loads \cup Stores
        /\ pc' = "bytes"
        /\ Local(loc)
        /\ UNCHANGED <<vec, mem>>
     \/ /\ cur.k \in {"vload", "vstore"}
        /\ pc' = "vec"
        /\ Local([loc EXCEPT !.e = vec.vstart, !.vl = vec.vl])
        /\ UNCHANGED <<vec, mem>>
     \/ cur.k = "lr" /\ TrulyIllegal("load access")
     \/ cur.k = "amo" /\ TrulyIllegal("store access")

\* The value of the bytes loaded, of which there are len.
Value(bytes) ==
  MapThenSumSet(LAMBDA i : bytes[i] * 2 ^ (i - 1), DOMAIN bytes)

\* (intptr_t)v << shift >> shift
ShiftBack(v, shift) ==
  LET w == (v * 2 ^ shift) % 2 ^ XBITS
      s == IF Bit(w, XBITS - 1) = 1 THEN w - 2 ^ XBITS ELSE w
  IN  (s \div 2 ^ shift) % 2 ^ XBITS

\* SET_RD or SET_F32_RD
LoadInto(in, r, bytes) ==
  CASE in.k = "load" ->
         [r EXCEPT !.x = ShiftBack(Value(bytes),
                                   IF in.signed THEN XBITS - in.len ELSE 0)]
    [] in.k = "flw" -> [r EXCEPT !.f = Value(bytes)]

\* One byte of misaligned_load_trap's loop.
LoadByte ==
  /\ pc = "bytes"
  /\ cur.k \in Loads
  /\ LET a == csr.mtval + loc.i
         bytes == Append(loc.bytes, mem[a])
     IN  \/ Fault(a, "load fault", "MPRV", "insn")
         \/ /\ Present(a)
            /\ IF loc.i + 1 < cur.len
               THEN /\ pc' = pc
                    /\ Local([loc EXCEPT !.i = @ + 1, !.bytes = bytes])
               ELSE /\ Return(LoadInto(cur, frames[1], bytes), tp)
                    /\ UNCHANGED timer
            /\ UNCHANGED <<vec, mem>>

\* One byte of misaligned_store_trap's loop.
StoreByte ==
  /\ pc = "bytes"
  /\ cur.k \in Stores
  /\ LET a == csr.mtval + loc.i
         val == IF cur.k = "store" THEN frames[1].x ELSE frames[1].f
     IN  \/ Fault(a, "store fault", "MPRV", "insn")
         \/ /\ Present(a)
            /\ mem' = [mem EXCEPT ![a] = Bit(val, loc.i)]
            /\ IF loc.i + 1 < cur.len
               THEN pc' = pc /\ Local([loc EXCEPT !.i = @ + 1])
               ELSE Return(frames[1], tp) /\ UNCHANGED timer
            /\ UNCHANGED vec

\* Mutant: vstart is not written back before the element's accesses.
VecElementLost ==
  /\ pc = "vec"
  /\ cur.mask[loc.e]
  /\ vec' = [vec EXCEPT !.vl = loc.vl, !.vstart = 0]
  /\ pc' = "vbytes"
  /\ Local([loc EXCEPT !.i = 0, !.bytes = <<>>])
  /\ UNCHANGED mem

\* misaligned_vec_ldst comes to an element: reading the mask, the index and the
\* data clobbers vl and vstart, which are restored in case its accesses trap.
VecElement ==
  /\ pc = "vec"
  /\ cur.mask[loc.e]
  /\ vec' = [vec EXCEPT !.vl = loc.vl, !.vstart = loc.e]
  /\ pc' = "vbytes"
  /\ Local([loc EXCEPT !.i = 0, !.bytes = <<>>])
  /\ UNCHANGED mem

\* The loop goes on to the next element, or the instruction is over.  v is the
\* vector register, and writing it has clobbered vl and reset vstart.
VecNext(v) ==
  IF loc.e + 1 < loc.vl /\ ~cur.fof
  THEN /\ pc' = "vec"
       /\ vec' = v
       /\ Local([loc EXCEPT !.e = @ + 1])
  ELSE /\ vec' = [v EXCEPT !.vl = IF cur.fof THEN 1 ELSE loc.vl, !.vstart = 0]
       /\ Return(frames[1], tp)
       /\ UNCHANGED timer

VecMasked ==
  /\ pc = "vec"
  /\ ~cur.mask[loc.e]
  /\ VecNext(vec)
  /\ UNCHANGED mem

VecLoadByte ==
  /\ pc = "vbytes"
  /\ cur.k = "vload"
  /\ LET a == Base(cur, loc.e) + loc.i
         bytes == Append(loc.bytes, mem[a])
     IN  \/ Fault(a, "load fault", "MPRV", "insn")
         \/ /\ Present(a)
            /\ IF loc.i + 1 < ELEN
               THEN /\ pc' = pc
                    /\ Local([loc EXCEPT !.i = @ + 1, !.bytes = bytes])
                    /\ UNCHANGED vec
               ELSE VecNext([vec EXCEPT !.vd[loc.e] = Value(bytes),
                                        !.vl = Junk, !.vstart = 0])
            /\ UNCHANGED mem

VecStoreByte ==
  /\ pc = "vbytes"
  /\ cur.k = "vstore"
  /\ LET a == Base(cur, loc.e) + loc.i
     IN  \/ Fault(a, "store fault", "MPRV", "insn")
         \/ /\ Present(a)
            /\ mem' = [mem EXCEPT ![a] = Bit(vec.vd[loc.e], loc.i)]
            /\ IF loc.i + 1 < ELEN
               THEN /\ pc' = pc
                    /\ Local([loc EXCEPT !.i = @ + 1])
                    /\ UNCHANGED vec
               ELSE VecNext(vec)

-----------------------------------------------------------------------------
(* Illegal instructions *)

\* illegal_insn_trap: a hart that does not report the instruction has it read.
ReadInstruction ==
  /\ pc = "illegal"
  /\ pc' = IF cur.reported THEN "emulate" ELSE "fetch"
  /\ Local([loc EXCEPT !.then = "emulate"])
  /\ UNCHANGED <<vec, mem>>

\* emulate_float_load and emulate_float_store leave a misaligned address, in
\* mtval, to the misaligned handlers.
PuntToMisalignedHandler ==
  /\ pc = "emulate"
  /\ cur.k \in {"flw", "fsw"}
  /\ cur.fs
  /\ cur.addr % cur.len # 0
  /\ csr' = [csr EXCEPT !.mtval = cur.addr]
  /\ loc' = [loc EXCEPT !.then = "misaligned"]
  /\ pc' = "fetch"
  /\ UNCHANGED <<prv, mscratch, frames, slot, tp, program, history, mapped,
                 timer>>

\* An aligned address takes one access.
EmulateFloatLoad ==
  /\ pc = "emulate"
  /\ cur.k = "flw"
  /\ cur.fs
  /\ cur.addr % cur.len = 0
  /\ \/ Fault(cur.addr, "load fault", "MPRV", "insn")
     \/ /\ Present(cur.addr)
        /\ LET bytes == [i \in 1 .. cur.len |-> mem[cur.addr + i - 1]]
           IN  Return(LoadInto(cur, frames[1], bytes), tp)
        /\ UNCHANGED <<vec, mem, timer>>

EmulateFloatStore ==
  /\ pc = "emulate"
  /\ cur.k = "fsw"
  /\ cur.fs
  /\ cur.addr % cur.len = 0
  /\ \/ Fault(cur.addr, "store fault", "MPRV", "insn")
     \/ /\ Present(cur.addr)
        /\ mem' = [a \in Address |-> IF a \in Bytes(cur)
                                     THEN Bit(frames[1].f, a - cur.addr)
                                     ELSE mem[a]]
        /\ Return(frames[1], tp)
        /\ UNCHANGED <<vec, timer>>

\* emulate_read_csr: the value of a register, as a number.
ReadCsr(num) ==
  CASE num = "time" -> timer.time
    [] num \in {FRM, FFLAGS} -> IF num \in tp THEN 1 ELSE 0

Readable(in) ==
  IF in.num = "time" THEN in.allowed ELSE in.fs

\* What emulate_system_opcode writes: rs1, or some of its bits set or cleared.
NewValue(in, old) ==
  CASE in.op = "rw" -> in.rs1
    [] in.op = "rs" -> IF in.rs1 = 1 THEN 1 ELSE old
    [] in.op = "rc" -> IF in.rs1 = 1 THEN 0 ELSE old

\* Mutant: SET_FRM takes fcsr to be the rounding mode alone.
WriteFcsrAlone(num, v) == IF v = 1 THEN {num} ELSE {}

\* SET_FRM and SET_FFLAGS keep the other half of fcsr.
WriteFcsr(num, v) == IF v = 1 THEN tp \cup {num} ELSE tp \ {num}

\* emulate_system_opcode: reading comes first, and nothing is changed when the
\* write is refused.  The clock cannot be written.
EmulateCsr ==
  /\ pc = "emulate"
  /\ cur.k = "csr"
  /\ LET write == cur.op = "rw" \/ ~cur.zero
         old == ReadCsr(cur.num)
     IN  IF ~Readable(cur) \/ (write /\ cur.num = "time")
         THEN TrulyIllegal("illegal")
         ELSE /\ Return([frames[1] EXCEPT !.x = old],
                        IF write
                        THEN WriteFcsr(cur.num, NewValue(cur, old))
                        ELSE tp)
              /\ UNCHANGED <<vec, mem, timer>>

\* emulate_fp: the rounding mode is the instruction's or, in a dynamic one,
\* that of fcsr; the result here is the mode, and the operation may raise flags.
EmulateFp ==
  /\ pc = "emulate"
  /\ cur.k = "fop"
  /\ cur.fs
  /\ cur.rm # "reserved"
  /\ Return([frames[1] EXCEPT !.f =
               IF cur.rm = "dynamic" THEN ReadCsr(FRM)
               ELSE IF cur.rm = "up" THEN 1 ELSE 0],
            IF cur.raises THEN tp \cup {FFLAGS} ELSE tp)
  /\ UNCHANGED <<vec, mem, timer>>

\* The operations in fp_emulation_table that take operands from rs1 and rs2.
\* They have a field rm, which is not a rounding mode.
Selected(k, top) ==
  /\ pc = "emulate"
  /\ cur.k = k
  /\ cur.fs
  /\ cur.rm <= top

Flag(raised) == IF raised THEN tp \cup {FFLAGS} ELSE tp

EmulateFsgnj ==
  /\ Selected("fsgnj", 2)
  /\ Return([frames[1] EXCEPT !.f = Fsgnj(cur.rm, cur.rs1, cur.rs2)], tp)
  /\ UNCHANGED <<vec, mem, timer>>

EmulateFmin ==
  /\ Selected("fmin", 1)
  /\ Return([frames[1] EXCEPT !.f = Fmin(cur.rm, cur.rs1, cur.rs2)],
            Flag(Raises("fmin", cur.rm, cur.rs1, cur.rs2)))
  /\ UNCHANGED <<vec, mem, timer>>

EmulateFcmp ==
  /\ Selected("fcmp", 2)
  /\ Return([frames[1] EXCEPT !.x = IF Fcmp(cur.rm, cur.rs1, cur.rs2) THEN 1
                                    ELSE 0],
            Flag(Raises("fcmp", cur.rm, cur.rs1, cur.rs2)))
  /\ UNCHANGED <<vec, mem, timer>>

\* emulate_fmv_if: the pattern itself, sign-extended, or its class.
EmulateFmvIf ==
  /\ Selected("fmv_if", 1)
  /\ Return([frames[1] EXCEPT !.x =
               IF cur.rm = 0
               THEN Unsigned(Signed(cur.rs1, 1 + EXP + FRAC), XBITS)
               ELSE Class(cur.rs1)], tp)
  /\ UNCHANGED <<vec, mem, timer>>

EmulateFmvFi ==
  /\ Selected("fmv_fi", 0)
  /\ Return([frames[1] EXCEPT !.f = Unsigned(cur.rs1, 1 + EXP + FRAC)], tp)
  /\ UNCHANGED <<vec, mem, timer>>

\* emulate_mul_div and emulate_mul_div32
EmulateMulDiv ==
  /\ pc = "emulate"
  /\ cur.k = "muldiv"
  /\ \E x \in IF cur.word THEN MulDiv32(cur.op, cur.rs1, cur.rs2)
            ELSE MulDiv(cur.op, cur.rs1, cur.rs2) :
       Return([frames[1] EXCEPT !.x = x], tp)
  /\ UNCHANGED <<vec, mem, timer>>

\* Values of rm that the operations have no meaning for.
ReservedRm(in) ==
  \/ in.k = "fop" /\ in.rm = "reserved"
  \/ in.k \in {"fsgnj", "fcmp"} /\ in.rm > 2
  \/ in.k \in {"fmin", "fmv_if"} /\ in.rm > 1
  \/ in.k = "fmv_fi" /\ in.rm > 0

\* Nothing is emulated of it, or the program's floating point is disabled.
EmulateNothing ==
  /\ pc = "emulate"
  /\ \/ cur.k = "bad"
     \/ cur.k \in {"flw", "fsw"} \cup FpOps /\ ~cur.fs
     \/ cur.k \in FpOps /\ cur.fs /\ ReservedRm(cur)
  /\ TrulyIllegal("illegal")

-----------------------------------------------------------------------------
(* Calls of the supervisor (mcall_trap) *)

ENOSYS == 2 ^ XBITS - 2   \* stands for -ENOSYS

\* Mutant: the interrupt is not enabled.
SetTimerOff(when) ==
  timer' = [timer EXCEPT !.cmp = when, !.stip = FALSE]

\* mcall_set_timer
SetTimer(when) ==
  timer' = [timer EXCEPT !.cmp = when, !.stip = FALSE, !.mtie = TRUE]

\* mcall_trap, which moves mepc past the call first.
Call ==
  /\ pc = "mcall"
  /\ \/ /\ cur.k = "timer"
        /\ \E when \in 0 .. MaxTime + 1 : SetTimer(when)
        /\ Return([frames[1] EXCEPT !.x = 0], tp)
     \/ /\ cur.k = "nosys"
        /\ Return([frames[1] EXCEPT !.x = ENOSYS], tp)
        /\ UNCHANGED timer
  /\ UNCHANGED <<vec, mem>>

\* send_ipi_many reads the mask of harts from the caller's memory, with mepc
\* past the call: a fault there is reported at the next instruction.
ReadMask ==
  /\ pc = "mcall"
  /\ cur.k = "mask"
  /\ \/ Fault(cur.addr, "load fault", "MPRV", "next")
     \/ /\ Present(cur.addr)
        /\ Return([frames[1] EXCEPT !.x = 0], tp)
        /\ UNCHANGED <<vec, mem, timer>>

-----------------------------------------------------------------------------
Monitor ==
  \/ PmpTrap
  \/ MachinePageFault
  \/ Fetch
  \/ Decode
  \/ LoadByte
  \/ StoreByte
  \/ VecElement
  \/ VecMasked
  \/ VecLoadByte
  \/ VecStoreByte
  \/ ReadInstruction
  \/ PuntToMisalignedHandler
  \/ EmulateFloatLoad
  \/ EmulateFloatStore
  \/ EmulateCsr
  \/ EmulateFp
  \/ EmulateFsgnj
  \/ EmulateFmin
  \/ EmulateFcmp
  \/ EmulateFmvIf
  \/ EmulateFmvFi
  \/ EmulateMulDiv
  \/ EmulateNothing
  \/ Call
  \/ ReadMask

Environment ==
  \/ GoOn
  \/ \E in \in Code, p \in {"U", "S"} : Trap(in, p)
  \/ TrapAgain
  \/ \E skip \in BOOLEAN : Sret(skip)
  \/ \E p \in Pages : Remap(p)
  \/ Tick
  \/ TimerInterrupt

Next == Monitor \/ Environment

Spec == Init /\ [][Next]_vars

-----------------------------------------------------------------------------
(* Correctness *)

\* A trap is told from one of the monitor's own by mscratch alone, and MPRV is
\* set only from an access that faults to the redirection of that fault: below
\* machine mode the stack is empty and ready and MPRV is clear, and in a handler
\* there is one frame, or two with MPRV when its access has faulted; a fault of
\* an access is never taken for a fault of the monitor (bad_trap).
Disciplined ==
  /\ pc # "bad"
  /\ IF pc \in {"run", "super"}
     THEN prv \in {"U", "S"} /\ mscratch /\ frames = <<>> /\ ~csr.mprv
     ELSE /\ prv = "M"
          /\ ~mscratch
          /\ Len(frames) = IF csr.mprv THEN 2 ELSE 1
          /\ csr.mprv <=> pc = "nested"

\* The register an instruction stores.
Target(in) == IF in.k = "store" THEN Regs.x ELSE Regs.f
\* The bytes of memory an instruction loads or stores.
Touched(in) ==
  CASE in.k \in Loads \cup Stores -> Bytes(in)
    [] in.k \in {"vload", "vstore"} ->
         UNION {ElementBytes(in, e) : e \in Elements(in)}
    [] in.k = "mask" -> {in.addr}
    [] OTHER -> {}

\* Byte a of memory once an instruction has stored it.
Stored(in, a) ==
  IF in.k \in Stores
  THEN Bit(Target(in), a - in.addr)
  ELSE LET e == CHOOSE e \in Elements(in) : a \in ElementBytes(in, e)
       IN  Bit(Vector[e], a - Base(in, e))

Writes(in) == in.k \in Stores \cup {"vstore"}

\* x is element e of the vector register once an instruction has loaded it.
Loaded(in, e, x) ==
  \A i \in 0 .. ELEN - 1 : Bit(x, i) = Memory[Base(in, e) + i]

RefusedCsr(in) ==
  \/ in.num = "time" /\ (~in.allowed \/ in.op = "rw" \/ ~in.zero)
  \/ in.num # "time" /\ ~in.fs

\* An instruction can cause a trap of this cause, with a in stval.
CauseFits(in, cause, a) ==
  CASE cause = "fetch fault" -> a \in {in.parcels[i] : i \in DOMAIN in.parcels}
    [] cause = "load fault" -> a \in Touched(in) /\ ~Writes(in)
    [] cause = "store fault" -> a \in Touched(in) /\ Writes(in)
    [] cause = "illegal" ->
         /\ a = Junk
         /\ \/ in.k = "bad"
            \/ in.k \in {"flw", "fsw"} \cup FpOps /\ (~in.fs \/ ReservedRm(in))
            \/ in.k = "csr" /\ RefusedCsr(in)
    [] cause = "access fault" -> a = in.addr /\ in.k = "pmp"
    [] cause = "load access" -> a = Junk /\ in.k = "lr"
    [] cause = "store access" -> a = Junk /\ in.k = "amo"

\* However far the emulation came, the supervisor gets the trap as the hart
\* would have given it: at the instruction, with the program's registers,
\* privilege and interrupt state, a cause and an address of that instruction,
\* nothing in memory but bytes it stores, those below the fault included, and
\* vl and vstart such that the elements before vstart alone are done.  A fault
\* of the mask of a call is the exception: it is reported past the call.
PreciseRedirect ==
  pc = "super" =>
    /\ csr.sepc = IF cur.k = "mask" THEN "next" ELSE "insn"
    /\ csr.spp = orig.prv
    /\ csr.spie = orig.sie
    /\ ~csr.sie
    /\ regs = Regs
    /\ CauseFits(cur, csr.scause, csr.stval)
    /\ \A a \in Address :
         IF Writes(cur) /\ a \in Touched(cur)
         THEN /\ mem[a] \in {Memory[a], Stored(cur, a)}
              /\ csr.scause = "store fault" /\ a < csr.stval
                   => mem[a] = Stored(cur, a)
         ELSE mem[a] = Memory[a]
    /\ vec.vl = VL
    /\ \A e \in DOMAIN Vector :
         IF cur.k = "vload" /\ e \in Elements(cur) /\ e < vec.vstart
         THEN Loaded(cur, e, vec.vd[e])
         ELSE vec.vd[e] = Vector[e]

\* Bit i of a register an instruction has loaded len bytes into.
Extended(in, i) ==
  CASE i < in.len -> Memory[in.addr + i]
    [] OTHER -> IF in.signed THEN Memory[in.addr + in.len - 1] ELSE 0

\* x is what an instruction leaves in its integer register when its emulation
\* began in state o and ends at the time now.
XRight(in, x, o, now) ==
  CASE in.k = "load" ->
         /\ x \in Registers
         /\ \A i \in 0 .. XBITS - 1 : Bit(x, i) = Extended(in, i)
    [] in.k \in {"timer", "mask"} -> x = 0
    [] in.k = "nosys" -> x = ENOSYS
    [] in.k = "csr" ->
         IF in.num = "time" THEN x \in o.time .. now
         ELSE x = IF in.num \in o.fcsr THEN 1 ELSE 0
    [] in.k = "muldiv" ->
         /\ x \in Registers
         /\ MulDivRight(in.op, in.rs1, in.rs2,
                        IF in.word THEN XBITS \div 2 ELSE XBITS, x)
    [] in.k = "fcmp" -> x \in {0, 1} /\ FcmpRight(in.rm, in.rs1, in.rs2, x)
    [] in.k = "fmv_if" /\ in.rm = 0 ->
         /\ x \in Registers
         /\ \A i \in 0 .. XBITS - 1 :
              Bit(x, i) = IF i < EXP + FRAC THEN Bit(in.rs1, i) ELSE Sign(in.rs1)
    [] in.k = "fmv_if" /\ in.rm = 1 -> FclassRight(in.rs1, x)
    [] OTHER -> x = Regs.x

\* And f in its floating point register.
FRight(in, f, o) ==
  CASE in.k = "flw" ->
         /\ f \in 0 .. 2 ^ in.len - 1
         /\ \A i \in 0 .. in.len - 1 : Bit(f, i) = Memory[in.addr + i]
    [] in.k = "fop" ->
         f = IF in.rm = "up" \/ (in.rm = "dynamic" /\ FRM \in o.fcsr) THEN 1 ELSE 0
    [] in.k = "fsgnj" -> FsgnjRight(in.rm, in.rs1, in.rs2, f)
    [] in.k = "fmin" -> FminRight(in.rm, in.rs1, in.rs2, f)
    [] in.k = "fmv_fi" ->
         /\ f \in 0 .. 2 ^ (1 + EXP + FRAC) - 1
         /\ \A i \in 0 .. EXP + FRAC : Bit(f, i) = Bit(in.rs1, i)
    [] OTHER -> f = Regs.f

\* The bits of fcsr, which an instruction may set, clear or leave.
FcsrRight(in, fcsr, o) ==
  \A b \in {FRM, FFLAGS} :
    b \in fcsr <=>
      CASE in.k = "fop" /\ in.raises /\ b = FFLAGS -> TRUE
        [] /\ in.k \in {"fmin", "fcmp"}
           /\ b = FFLAGS
           /\ InvalidRight(in.k, in.rm, in.rs1, in.rs2) -> TRUE
        [] in.k = "csr" /\ in.num = b /\ in.op = "rw" -> in.rs1 = 1
        [] /\ in.k = "csr" /\ in.num = b /\ in.op # "rw"
           /\ ~in.zero
           /\ in.rs1 = 1 -> in.op = "rs"
        [] OTHER -> b \in o.fcsr

\* What the emulation of loads rests on: bytes make up the value whose bits they
\* are, and the two shifts extend it.  Bytes come in the lengths below.
Lengths == 1 .. XBITS \cup {ELEN}

BytesOfLength(n) == [1 .. n -> {0, 1}]

ValuesRight ==
  \A n \in Lengths : \A bytes \in BytesOfLength(n) :
    /\ Value(bytes) \in 0 .. 2 ^ n - 1
    /\ \A i \in 0 .. n - 1 : Bit(Value(bytes), i) = bytes[i + 1]

ShiftsRight ==
  \A n \in 1 .. XBITS, signed \in BOOLEAN : \A bytes \in BytesOfLength(n) :
    LET x == ShiftBack(Value(bytes), IF signed THEN XBITS - n ELSE 0)
    IN  /\ x \in Registers
        /\ \A i \in 0 .. XBITS - 1 :
             Bit(x, i) = IF i < n THEN bytes[i + 1] ELSE IF signed THEN bytes[n] ELSE 0

\* Once the program is past an instruction, however often it was started again,
\* its registers, memory, vector state and fcsr are what the instruction set
\* asks for, and nothing else of them has changed.  fcsr is compared with what
\* it was when the emulation last began.
EmulationExact ==
  (pc = "run" /\ done /\ cur.k # "none") =>
    /\ csr.mepc = "next"
    /\ prv = orig.prv
    /\ csr.sie = orig.sie
    /\ cur.k \notin {"bad", "lr", "amo", "pmp"}
    /\ cur.k = "csr" => ~RefusedCsr(cur)
    /\ cur.k \in {"flw", "fsw"} \cup FpOps => cur.fs /\ ~ReservedRm(cur)
    /\ XRight(cur, regs.x, orig, timer.time)
    /\ FRight(cur, regs.f, orig)
    /\ FcsrRight(cur, slot, orig)
    /\ \A a \in Address :
         mem[a] = IF Writes(cur) /\ a \in Touched(cur) THEN Stored(cur, a)
                  ELSE Memory[a]
    /\ vec.vstart = 0
    /\ LET last == IF cur.k \in {"vload", "vstore"} /\ cur.fof THEN 1 ELSE VL
       IN  /\ vec.vl = last
           /\ \A e \in DOMAIN Vector :
                IF cur.k = "vload" /\ e \in Elements(cur) /\ e < last
                THEN Loaded(cur, e, vec.vd[e])
                ELSE vec.vd[e] = Vector[e]

\* The supervisor's timer (mtrap.c:94, mentry.S:59): whenever the hart is below
\* machine mode, the timer interrupt is pending only if the time last asked for
\* has come, and if it has come the interrupt is pending or enabled to be.
TimerExact ==
  prv # "M" =>
    /\ timer.stip => timer.time >= timer.cmp
    /\ timer.time >= timer.cmp => timer.stip \/ timer.mtie

\* What mentry.S:158 says of the way out, "Move the emulated FCSR from tp into
\* x0's save slot": fcsr outlives a trap.
FcsrKept ==
  pc = "super" => slot = orig.fcsr
=============================================================================
