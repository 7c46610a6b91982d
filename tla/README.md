# A TLA+ model of riscv-pk

This directory specifies and checks the two programs of this repository: the
machine-mode monitor (`machine/`, which with `bbl/` becomes the Berkeley boot
loader) and the proxy kernel (`pk/`), which runs one user program and forwards
its system calls to a host. The models are written from the code; a comment or
document of the repository is never the source of a definition. Where one says
something the code does not do, a run shows it (see *Disagreements*).

1. [The system](#1-the-system)
2. [The modules](#2-the-modules)
3. [What each run checks](#3-what-each-run-checks)
4. [Fairness](#4-fairness)
5. [Disagreements between the code and its comments](#5-disagreements-between-the-code-and-its-comments)
6. [What is proved](#6-what-is-proved)
7. [What is not modelled](#7-what-is-not-modelled)
8. [Plan](#8-plan)

To repeat a run: `tlc -config MCIpi.cfg MCIpi.tla`; to repeat a proof:
`tlapm Ipi_proofs.tla`.

## 1. The system

### Inventory

| component | code | state it keeps | operations | hard behaviour | what makes it correct |
|---|---|---|---|---|---|
| inter-processor interrupts | `mtrap.c`, `mentry.S` | per hart: `ipi` (MSIP) register, `mipi_pending`, `mip.SSIP` | SBI send_ipi, remote fence, clear_ipi; interrupt entry; poweroff | harts interleave at every memory access; senders wait for each other with interrupts off | no event without an interrupt; a remote fence precedes the target's next instruction; callers do not deadlock; soft IPIs arrive; poweroff stops all |
| boot of the harts | `mentry.S`, `minit.c`, `bbl.c` | `disabled_hart_mask`, `entry_point`, each hart's place | wake, clear, filter, publish the entry point | harts still booting while others run and send IPIs | enabled harts start, disabled ones never run the payload, no event is lost |
| trap entry and SBI dispatch | `mentry.S`, `mtrap.c` | `mscratch`, `mepc`, `mstatus`, the machine stack, timer registers | trap, redirect to S-mode, timer, console calls | a page fault while the monitor reads supervisor memory; a trap inside a trap | the supervisor sees each trap once, with the right privilege and pc |
| HTIF and frontend | `htif.c`, `frontend.c` | `tohost`, `fromhost`, `htif_console_buf`, `htif_lock` | putchar, getchar, syscall, poweroff | one mailbox shared by console and system calls; lock held over asserts | characters neither lost nor doubled; no self-deadlock; every call gets its own answer |
| device tree | `fdt.c` and the drivers' callbacks | scan stack, `hart_mask`, addresses | scan, query_*, filter_* | nesting, shared scratch nodes, state kept across nodes, in-place edits | the machine found is the one described; the kernel's tree loses nothing but the firmware's own |
| open files | `file.c`, `syscall.c` | `files[]` with counts, `fds[]`, the host's descriptors | openat, close, dup, dup3, references by mappings | counts offset by one; tables full half way through | counts exact; host descriptors open exactly while used |
| virtual memory | `mmap.c` | page table, regions (`vmr_t`), free pages, `pages_promised`, `brk`, `brk_max`, `vm_alloc_guess` | mmap, munmap, mprotect, brk, page fault | lazy allocation: a promise made at mmap is redeemed at any later access | promises exact and kept, pages conserved, rights as asked |
| system calls | `syscall.c`, `usermem.c` | kernel buffers | read, write, pread, writev, paths, uname, ... | long transfers cut in pieces that can fail | partial results reported, nothing twice |
| start-up of pk | `pk.c`, `elf.c` | `current`, the loaded image, stack contents | parse arguments, load ELF, build the stack | limits of sizes | the image and stack the program was promised |
| pk traps | `handlers.c`, `entry.S` | trap frame | dispatch by cause | user faults while in the kernel | only user faults become signals |
| emulation | `emulation.c`, `misaligned_*.c`, `muldiv_emulation.c`, `fp_*.c` | registers of the trapped context | misaligned accesses, mul/div, CSRs, floating point | faults half way, restarts; sign and overflow | equal to what the instruction does, however often it is started again |
| drivers | `uart*.c`, `finisher.c` | device addresses | putchar, getchar, exit | none beyond polling | |
| utilities | `util/` | none | string functions, `snprintf` | truncation | C library semantics |
| vendored and generated | `softfloat/`, `configure`, `dummy_payload/` | | | | |

### How they interact

A hart of the monitor runs its supervisor until a trap. `trap_vector` either
serves a software interrupt itself (it swaps `mipi_pending` with 0 and acts on
what it found) or dispatches to C code: `mcall_trap` for SBI calls, the
emulators, or a redirection to the supervisor. Harts share memory and reach
each other only through `OTHER_HLS(i)`: a bit or-ed into `mipi_pending` and a
store to the memory-mapped `ipi` register. Before that, the boot loader brings
the harts up with the same register. The console goes through UART or HTIF;
HTIF is one mailbox under one lock.

The proxy kernel runs on a single hart on top of the monitor's initialisation,
with interrupts off. Its parts call each other: `do_mmap` takes a file
reference with `file_get`, a region keeps one with `file_incref`, the last page
of the region drops it; a page fault reads the file through the frontend, which
is an HTIF exchange the kernel waits for.

### Where testing hardly reaches

`PROJECT.json` lists each hazard at its line. The themes: interleavings of
harts in `send_ipi_many` and during boot; reference counts and promises that a
long legal sequence of calls must keep exact; limits (free pages, descriptors,
regions); and state remembered across calls (`brk_max`, `vm_alloc_guess`, a
stale `kfd`).

## 2. The modules

| module | what it is |
|---|---|
| `RemoteFence` | abstract specification: what a remote fence call promises |
| `Ipi` | the IPI protocol, one action per visible memory access; shown to implement `RemoteFence` |
| `Ipi_proofs` | theorems about `Ipi` |
| `Boot` | extends `Ipi`: the harts start in the reset loop and come up while others already run |
| `Boot_proofs` | theorems about `Boot`, with the step lemmas of `Ipi_proofs` |
| `EmulatedOps` | what the emulators compute: multiplication and division, comparison, minima, signs and classes of floats; and what the instruction set asks |
| `Traps` | the machine-mode traps of one hart: entry and exit, redirection, faults inside the monitor, emulation, the timer |
| `Traps_proofs` | theorems about `Traps` |
| `Fdt` | the device tree scanner with every query and filter |
| `Fdt_proofs` | theorems about `Fdt` |
| `Htif` | the host-target mailbox, with the console, system calls and poweroff that share it, and the host |
| `Htif_proofs` | theorems about `Htif` |
| `PkFiles` | open files of the proxy kernel, and the host's descriptors |
| `PkFiles_proofs` | theorems about `PkFiles` |
| `Syscalls` | extends `PkFiles`: read, pread, write, readv and writev in chunks, with other calls between them |
| `Syscalls_proofs` | theorems about `Syscalls`, built on those about `PkFiles` |
| `PkVm` | virtual memory of the proxy kernel; shown to use files as `PkFiles` specifies |
| `PkVm_proofs` | theorems about `PkVm`, with those about `PkFiles` for the files of regions |
| `MCIpi`, `MCBoot`, `MCTraps`, `MCFdt`, `MCHtif`, `MCSyscalls`, `MCPkVm` | the instances for TLC, with one `.cfg` per run |

Operators marked "Mutant" in the modules are plausible wrong versions of the
definition that follows them. No specification uses them; each property was
seen to fail when its mutant replaces the definition, which is listed in
`PROJECT.json`.

### Ipi

A hart in `"super"` runs its supervisor; every other value of `pc` is a point
of the monitor between two accesses that other harts can see. `send_ipi` is two
steps (`Post`, `Ring`) because another hart may run between the atomic or and
the store. The loops of `send_ipi_many` take their targets in ascending order
(`Reaches`); `PollClear`, `PollSet`, `ConsumeOwn` are the loads and the swap of
the waiting loop, `Restore` its end. `TakeIpi`, `SwapPending` and `Decode` are
the interrupt handler; after a trap `mret` is a step of its own because an
interrupt pending at that moment is taken before the supervisor executes
anything, which is what makes the early return of the waiting loop safe.
`Supervisor` lets the supervisor of a hart make any call with any set of
targets. `mask` is cleared once it is dead, to keep the state space small.

Two history variables say what was promised: `owed[s]` is the set of harts that
have been posted the fence of `s`'s current call and have not executed it;
`due[t]` are fences owed by `t` to calls that have already returned.

Memory is sequentially consistent in the model. The code orders its accesses
with the `aq`/`rl` bits of its atomics, `mb()`, and device registers; a weaker
memory model is not explored.

The requests of a run are a constant. TLC's instance has one kind of fence:
`FENCE_I` takes the same path as `SFENCE_VMA`, and the theorems cover both.

### Boot

`Boot` starts where the first hart has finished scanning the device tree and
every other hart is in the reset loop. It keeps the variables and actions of
`Ipi` and adds places for the boot (`wake`, `reset`, `mip`, `plic`, `filter`,
`entry`, `spin`, `parked`), `disabled_hart_mask` as it grows, and
`entry_point`. `Disabled` is what the device tree says, unknown to the harts
until `Filter` has visited them. The order of `Filter` is arbitrary, as that
of nodes in a device tree. The model is of a build without `CUSTOM_DTS`, the
one in which `filter_dtb` filters.

`early[t]` is a history variable: events posted to `t` before it had cleared
its register. They are exactly the events a booting hart may lose, and the
properties say that it loses no other.

### Traps

A program below machine mode comes to an instruction of `Code` that the hart
cannot execute (`Trap`), and `trap_vector` saves its registers and dispatches.
From there on each access to the program's memory, of the instruction in one or
two pieces, of one byte of data, of the mask of a call, is a step that
may fault, since `Remap` lets another hart map or unmap a page between any
two of them. `Fault` is the nested trap: its frame lies below the first and it
overwrites `mcause`, `mepc`, `mtval` and `mstatus`. `MachinePageFault` is what
`__trap_from_machine_mode` makes of it; `"bad"` is `bad_trap`. `loc` holds what
a handler has in registers, among them `mepc` and `mstatus` in `a2` and `a3`, which the
redirection relies on. `Redirect` and `Return` are the two ways out; the
supervisor then returns to the instruction (`TrapAgain`) or skips it (`Sret`).

The build is the one without floating point registers, in which the program's
`fcsr` lives in the save slot of `x0` and moves to `tp` on entry; it has one bit
of rounding mode and one flag. It is without multiplication as well. A byte of
memory is one bit and a register `XBITS` of them, a float has `EXP` bits of exponent
and `FRAC` of fraction: sign extension, byte order and partial effects stay visible.

`EmulatedOps` holds the arithmetic: C's division and its conversions between
widths, and `softfloat`'s comparisons on bit patterns. Its reference definitions
are of another kind: a quotient is what makes up the dividend together with a
small remainder, a comparison is one of the numbers the patterns stand for. Where C
leaves the result open, a division by zero or one that overflows, the
emulator may return anything and the reference asks for nothing.

When the program goes on to the next instruction (`GoOn`), its registers and memory
are reset to `Regs` and `Memory`; the supervisor may restart an instruction any number
of times before, with the effects of the last attempt in place. `orig` is a
history variable, the state the emulation began with. Interrupts other than
the timer's are those of `Ipi`, and nothing in machine mode is interrupted.
The supervisor's handler makes no calls and takes no traps of its own.

### Fdt

A device tree is a sequence of tokens, `stack` the locals of the levels of
`fdt_scan_helper`, and each query or filter a set of callbacks on a record of
what it may change. `pass` runs through the queries of `init_first_hart` and the
filters of `filter_dtb` in the code's order; `found` holds the globals they set and
`tree` the copy that filters edit. The oddities of the code are kept:

- siblings share one local `child`, so a node without cell counts has those of
  an earlier sibling (`fdt.c:46`). `WellFormed` says what a tree is: nodes nest, to
  at most `MaxDepth` levels (999 stands for no level in `filter_compat`); a node's properties
  have different names and come before its children; and a node whose children have a `reg`
  states their counts, where a sibling before it has stated any. It is the module's assumption
  about `Dtbs`, and `OwnCounts` says that it suffices;
- a `reg` below a cpu's node overwrites the hart number (`fdt.c:250`), and the upper
  end of a region of memory counts as in it (`fdt.c:191`); trees in which these
  make a difference are not enumerated, and `Machine` below excludes them;
- a property shorter than the one it overwrites leaves a word behind (`more` and
  the token `"WORD"`), see section 5.

A cell has `CellBase` values, and a number or the end of a region wraps at the square of
that (`Wide`, 2^64), as `uint64_t` does. A hart's number goes through an `int` (`ToInt`), and the bit
of the mask is `1 << hart` in one (`OneShifted`): hart 32 would mask hart 0, and hart 31 all
from there on, so `HartsNumbered(d)` asks for numbers below 31 where the mask is compared with
the tree. `Regions` is the list a `reg` makes with given
counts and `Within` the regions `mem_done` takes the firmware to be in. Interrupt lists
refer to controllers by phandle.

`Machine(d)` is what a tree is to say of a machine for the code to find it: memory in whole
regions that do not wrap, one of them with the firmware in it (`MemoryDescribed`);
harts with different numbers that an `int` holds, a status and one interrupt controller each, with a phandle of
its own (`HartsDescribed`); one clint, and at most one plic, that list an interrupt of every hart the
firmware has room for (`DevicesDescribed`). Each conjunct is what the code asserts, or relies on
without a check: a cpu within a cpu fails an assert of `hart_prop`, a hart without a
controller is not found, and one whose phandle is another's would be taken for it. It is no assumption of the module but of the
theorems that name it, and TLC checks it of every tree of `MCFdt.cfg` (`TreesAssumption`).

The UARTs' baud rate, the check of the header, `fdt_size` and printing are left
out.

### PkFiles

One action per system call on descriptors: the kernel runs each to its end
with interrupts off. `HostOpens` models what the host returns: its lowest free
descriptor. `refcnt` keeps the code's convention: an open file's count is one
above its references, and a decrement at 2 closes the file and frees the
struct; for the three standard streams it starts two above. `held[f]`
counts the references of the memory map and of `load_elf`, which come and go
through `Hold` and `Release`; in `PkVm` it is instantiated by the references
the regions really hold.

`OpenatRefused` is the path where the host refuses to open: the code releases
the struct through `file_decref`, which closes the host descriptor in `kfd`,
a value left from the struct's last use (-1 before its first). `HostExact`
says that this never closes another file's descriptor.

### Syscalls

`Enter` takes the file, `Chunk` and `ReadvChunk` are one turn of a loop with its
call of the host and its copy, `ReadvNext` and `WritevNext` go from buffer to
buffer, `Leave` returns to the program. A byte of user memory holds the file
position its value came from, and a byte the host got the user address it came
from, so that a gap, a repetition or a swap shows. The host may answer short
of what it is asked, or with an error, at every chunk; it writes short only when
it has no room left. `Ssize` is the conversion of a sum to a signed number, and
`Huge` a length with the sign bit set. A copy may take a page fault that makes the last page of
a mapping present and drops its reference (`FaultRelease`), so files change
under a call. Every other call on descriptors happens between (`OtherCall`, which is
`PkFiles`' actions). Bad descriptors, the null and sign checks of `readv`'s
arguments, and the calls that pass their arguments to the host once are left out.

### PkVm

Everything is in pages: the code rounds lengths up and aligns addresses before
it uses them. A page's entry is zero, points at a region (*promised*), or maps
a page with its rights. `op` holds the locals of the call in progress; calls
that loop over pages take one step per page, so that running out of memory
half way is visible. A panic or a fatal signal is a value of `pc` in which
nothing happens any more.

- `Affordable` is the admission test of `__do_mmap`, with its constant 16 as the
  parameter `Slack`. The carving of a page of regions in `__vmr_alloc` comes
  after it and so never fails: its failure path is unreachable and not an
  action.
- `Tables` are the page tables `__walk_create` adds; `free` counts
  `__num_free_pages()`. Which page is taken is abstracted, and so are the
  kernel's own tables.
- `Fits`, `FirstFit` and `AllocVm` are `__vm_alloc_at` and `__vm_alloc`.
- `brk_max` starts above the stack, as in the code, so `BrkRoomClear` says
  that the heap's room holds no mapping *of the program*, and excepts the
  stack: with the real layout the admission test stops the heap long before.
- Requests stay in the user range and cover at least one page: the code
  rejects the others before it changes anything. `mremap` always fails.
- `asked` is a history variable, the rights last asked for each page.

### Htif

A hart goes through the places listed at the head of the module; the host takes
words, serves read requests, and writes replies in steps of its own, as slowly
as it likes. A test of a mailbox word and the write it permits are one step,
because each side writes a word only in the state in which the other does not.
What `htif_lock` guards is touched by its owner only, which the model keeps:
`Peek` and the rest run with the lock.

The host is external. It is modelled by what the code relies on: it takes a
word from `tohost` and clears it, writes `fromhost` only when that is zero, serves
a read request with one character, answers a system call with one reply, and
may or may not acknowledge a character put (the code accepts both). Characters
are numbered as typed, from 0, so that the first is NUL, the value the `1 +` in
`__check_fromhost` has to tell from an empty buffer. All calls may come from
all harts; the proxy kernel makes system calls from one only, and the boot
loader makes none, so the model allows more than either program does.

## 3. What each run checks

Twelve runs: eight pass, and four show a disagreement of section 5.

### Ipi

`ipi`: 2 harts, fences, soft IPIs and halts, 2 calls each, fair. It shows type
correctness, `NoLostEvent`, `FenceBeforeRun`, the refinement of `RemoteFence`,
and the liveness properties `CallReturns`, `SoftDelivered`, `PoweroffStops`.

`MaxCalls` bounds the calls of each hart. Two calls reach the states in which a
target has still to serve one call when the next is posted. For any number of
harts and calls, disabled harts among them, the safety properties are proved
(section 6); three harts with one disabled are the instance of `boot`.

`FenceBeforeRun` is what the waiting loop of `send_ipi_many` achieves. Its
comment says that it waits "until all events have been handled"; literally it
waits until the targets' registers are clear, which they are before the events
are handled, and the property is that the difference cannot be observed.

### Boot

| run | instance | shows |
|---|---|---|
| `boot` | 3 harts, the first disabled; fence, soft, halt; 1 call each; fair | `DisabledNeverRun`, `AllHartsStart`, `EnabledCallReturns`; nothing sent from the moment a hart has cleared its register is lost: `NoLostEventOnceCleared`, `FenceBeforeRunOnceCleared` |
| `boot_deadlock`, `boot_halt` | 2 harts | violations, see section 5 |

Two harts start and call each other, one of them perhaps still booting, which
is what the protocol distinguishes. The disabled hart is the first one, the
case in which the hart that publishes `entry_point` is itself left behind.

### Traps

`traps`: about 120 instructions, one or more for each path through the
handlers, pages of four bytes (two of data, one of code), registers of six bits,
floats of five (which has every class of them), three vector elements of two
bytes, from both privileges. Misaligned accesses cross a page, aligned ones
do not, and some instructions lie in two pages. `WellFormed` is what `Traps` assumes
of its instructions: the fields their handlers read, memory that exists, and
vector elements in memory that do not overlap (what stores to overlapping ones
leave depends on their order, which the properties do not describe). `ArithmeticRight`,
an assumption TLC evaluates, compares the bytes, shifts and operations of `Traps` and
`EmulatedOps` with their references for all operands; section 6 rests on it.

- `PreciseRedirect`: whatever happened inside the monitor, the supervisor gets a
  trap the hart itself could have given: at the instruction, with a cause and an
  address that fit it, the registers, privilege and interrupt state of the
  program, no memory changed but bytes the instruction stores, those below the
  fault stored, and `vl` and `vstart` right for going on.
- `EmulationExact`: when the program is past an instruction, started again or not,
  its registers, memory, vector state and `fcsr` are what the instruction set
  says, computed bit by bit instead of with the code's shifts.
- `Disciplined`: `mscratch`, stack, privilege and MPRV always agree with where the
  monitor is, and `bad_trap` is not reached.
- `TimerExact`: `STIP` only when due, and when due pending or enabled.

Some causes cannot happen in a monitor of this build and are no actions: an
access that faults with a cause other than a page fault, and floating point
with registers. `traps_fcsr` is a finding. All properties are safety; a restart
that faults again and again is a matter of the supervisor.

### Fdt

`fdt`: all trees that differ from a plain machine in up to three of: the number of
cells, the order of nodes, where a hart's interrupt controller is, the
mmu types, two or three harts (one beyond `MAX_HARTS`) and their status, memory in one
or two nodes or regions, flat, nested or contained devices, and the order
of the interrupt lists. `AssertionsHold` says no assert fails on a proper
tree; `MachineFound` that memory, harts, phandles and each hart's registers are the
tree's, by a definition that searches the tree instead of scanning it;
`KernelTreeExact` that the kernel's tree is the same token by token but for what
the filters are for; `MaskMatchesTree` that it agrees with
`disabled_hart_mask`. Three options at once let each callback's leftover state
meet the node that could be misled by it. `fdt_disabled` is a finding.

### PkFiles and Syscalls

`syscalls`: three descriptors, four structs, so that both tables fill up and
streams are closed and reused; buffers of up to three bytes, up to two of them,
chunks of two; `SSIZE_MAX` 4, so that totals overflow; calls on one file that
mappings hold too. Lengths cover an empty buffer, one chunk, and one
and a half. `RefcntExact` says each count is what the references require;
`HostExact` that the host keeps open exactly the descriptors of files in use;
`TransferExact` that the count returned names the bytes moved, in order
and no others; `ReferencesReturned` that every way out gives back the file;
`CallReturns` that no loop turns on the spot. The table sizes and the number of
references are arbitrary in the theorems.

### PkVm

| run | instance | shows |
|---|---|---|
| `vm_promises` | 5 pages, 2-level tables of fanout 2, 9 free pages, 4 regions, `Slack` 2 | `PromisesExact`, `PromiseKept`, `PagesConserved`, `BrkRoomClear` for all sequences of anonymous mappings, with `demand_paging` on and off (`-p`) |
| `vm_files` | 2 pages in 3-level tables, 6 free pages, 3 regions, `Slack` 0, one mapped file, all sets of rights, with open, close, dup | `RightsAsked`; `FilesSpec`: regions use files as `PkFiles` allows |

`FreePages` is chosen so that admission both succeeds and fails, and so that
all pages, tables and regions together need one page more than there is: a
kernel that admitted everything would run out. `Slack` is scaled from 16 to
what the smaller tables need: with 0 in place of 2, `vm_promises` fails.
Running out of memory is a branch of the steps that take a page, `Panic`
where the code panics; with no slack and deeper tables `vm_files` comes closest.
Four regions in two
pages make `__vmr_alloc` reuse and carve. Regions are interchangeable, so
they are a symmetry set; no liveness property is checked with it. `Prots`,
`MapFds`, `UsesFiles` and `Paging` select which arguments a run enumerates.

### Htif

`htif`: two harts, two calls each out of all four kinds, two characters typed,
fair. `InputExact`, `OneRequest` and `OutputExact` say that the mailbox neither
loses nor doubles a character in either direction; `AssertionHolds` that no
call meets a reply it asserts it cannot meet, whose message it could not print
without taking the lock it holds; `AnswerOwn` that `magic_mem` holds the
caller's answer; `CallReturns` that every call returns and poweroff ends the
simulation. Two calls per hart let a getchar leave a request that is answered
in the middle of another hart's system call; two characters let one wait in the
buffer while the next is typed.

Runs that stop (`CHECK_DEADLOCK FALSE`) are those in which the modelled system
may really stop: halted harts, a panic, or supervisors that have made the
calls `MaxCalls` gives them. `syscalls` is checked for deadlock.

## 4. Fairness

Only the monitor is assumed to make progress: `FairSpec` has weak fairness of
`Monitor(h)` for each hart, that is, a hart in machine mode keeps executing
instructions and a pending, enabled interrupt is eventually taken. Hardware
executes each hart independently, so the fairness is per hart, not global.
Supervisors are never obliged to call or to stop calling. `FairBootSpec` adds
the same for the boot code of each hart. No fairness between competing actions
is needed: within one hart at most one monitor action is enabled.

In `Htif` each hart and the host keep going. Spinlocks are not fair, but with
`MaxCalls` calls per hart the lock is eventually free for good, so weak fairness
suffices; an endless stream of other calls could starve a hart, in the code too.

In `Syscalls` the kernel goes on with a call it has begun and the host answers
(`WF` of `Kernel`); the host need not report errors, except that it cannot go on
answering a write with nothing when it has no room (`WF` of `Fail` there). `Traps`
and `Fdt` have safety properties only and assume no fairness.

`CallReturns`, `EnabledCallReturns` and `SoftDelivered` except runs in which some
hart is powering off, where that is what the caller wants: a target in the final
loop of `poweroff` no longer serves its register.

## 5. Disagreements between the code and its comments

- `boot_deadlock`: a masked hart that was woken and then sees the mask first
  stays in the reset loop with its register set. `send_ipi` skips disabled
  harts but the waiting loop does not, so a remote fence to all harts never
  returns; the loop is meant to "prevent deadlock" (`mtrap.c:118`).
  `EnabledCallReturns` is what holds: calls that ask no disabled hart return.
- `boot_halt`: `hart_plic_init` (`minit.c:163`) clears the register of a hart
  that is still booting. A halt sent before is then not handled, although the
  sender waits for it (`mtrap.c:117`) and goes on to stop; the hart enters the
  payload and runs on.

- `fdt_disabled`: a hart whose status is `"disabled"` and that `filter_harts`
  masks gets the shorter `"masked"` with its own length (`fdt.c:681`), and the word
  left over, a zero, is no token. Every later scan takes it for the end of the
  tree ("FDT_END", `fdt.c:86`): the filters after it stop there, and the kernel is
  handed a tree with a hole.
- `traps_fcsr`: on a hart without floating point, a trap that is redirected leaves
  the program's `fcsr` zero. It is moved to `tp` on entry; the way out of
  `__redirect_trap` joins `restore_mscratch` (`mentry.S:220`), behind the instruction
  that should "Move the emulated FCSR from tp into x0's save slot"
  (`mentry.S:158`). `EmulationExact` compares `fcsr` from the last start of the emulation on.

Met on the way and not contradicted by anything written down: a fault while
`send_ipi_many` reads its mask is reported past the call, which is then lost
(`mtrap.c:107`, an exception in `PreciseRedirect`); the compressed float loads leave
`mtval` as it is when they go to the misaligned handlers (`emulation.c:24`); a
conversion of a float to a 32-bit integer rounds the magnitude and clips it to
limits that are not sign-extended (`fp_emulation.c:266`); a
masked hart is woken before it is masked and may run as far as
`boot_other_hart`, which keeps it out of the payload (`DisabledNeverRun`); the
assert at `fdt.c:301` is content with a hart beyond its own number.

## 6. What is proved

The theorems hold for every value of the constants that satisfies the named
assumptions of the module.

`Ipi_proofs`, for any finite or infinite set `Hart` of natural numbers, any
`Disabled`, `Request` and `MaxCalls`:

| theorem | states |
|---|---|
| `Invariance` | `Spec => []IInv` |
| `TypeCorrect` | `Spec => []TypeOK` |
| `EventsNoticed` | `Spec => []NoLostEvent` |
| `FencesPrecedeRun` | `Spec => []FenceBeforeRun` |
| `Refinement` | `Spec => RemoteFenceSpec` |

`NoLostEvent` is close to inductive. `FenceBeforeRun` is not: it says nothing of
calls still in progress. The inductive invariant `IInv` follows a fence from
its posting to its execution: while a call is owed a fence by `u`, `u` either has the
event pending or is about to act on it (`OwedOnItsWay`); a fence is owed only to
targets of the call (`OwedMasked`); once the waiting loop has passed `u`, `u`'s register
has been cleared, so `u` is bound inside the monitor until it acts (`SeenClear`);
and a fence still due after the return binds its hart in the same way
(`DueBinds`). The step that matters is `PollClear`: reading 0 from the register
of a hart that owes a fence implies it is between `TakeIpi` and `Decode`, or waits itself
with `incoming_ipi` set. The refinement uses the same invariant, one step of
`RemoteFence` or a stutter per action.

`Boot_proofs`, for any `Hart` and `Disabled`, the first hart among them or not:

| theorem | states |
|---|---|
| `DisabledStayOut` | `BootSpec => []DisabledNeverRun` |
| `EventsNoticedOnceCleared` | `BootSpec => []NoLostEventOnceCleared` |
| `FencesPrecedeRunOnceCleared` | `BootSpec => []FenceBeforeRunOnceCleared` |

Each part of `IInv` has a counterpart in `BootInv` that sets early events apart: what a
hart owes is bound as in `Ipi` or it is `early`, and a hart that has not cleared its
register has only early events (`EarlyPending`). `FirstAlone` says that until
`entry_point` is set every hart is still starting, which is why `filter_harts`
is done (`MaskFilled`) before any hart can leave the spin. A step of a hart that has
started is one of `Ipi`, and the lemmas of `Ipi_proofs` say what it does.

`Htif_proofs`, for any harts, number of calls and characters:

| theorem | states |
|---|---|
| `NoAssertionFails` | `Spec => []AssertionHolds` |
| `RequestsCounted` | `Spec => []OneRequest` |
| `InputKept` | `Spec => []InputExact` |
| `OutputKept` | `Spec => []OutputExact` |
| `AnswersOwn` | `Spec => []AnswerOwn` |

The words on their way to the kernel are counted by kind. A reply to a system call
is awaited by exactly one hart (`ReplyAwaited`), its answer is in place before it
(`AnswerBeforeReply`), and of read requests, replies to them and a buffered
character there is always one or none (`OneRequest`), so that a word taken at the
front is the only one of its kind. `InputInOrder` says what number the character in
each of those places has.

`PkFiles_proofs`, for any table sizes of at least 3 and any `MaxHeld`:

| theorem | states |
|---|---|
| `Invariance` | `Spec => []IInv` |
| `TypeCorrect` | `Spec => []TypeOK` |
| `CountsExact` | `Spec => []RefcntExact` |
| `HostAgrees` | `Spec => []HostExact` |

The counts are cardinalities of sets of descriptors; the lemmas `FdsInstall` and
`FdsClear` say how they change. For the host side the strengthening is
`Lockstep`: every struct in use, and every one ever used, has the host
descriptor equal to its own index. It holds because both the kernel's table
and the host hand out the lowest free number, the host's behaviour being
the one assumption about it. It is why the stale descriptor that a refused
open closes is never somebody else's.

`Syscalls_proofs`, for any buffers, chunk size and tables:

| theorem | states |
|---|---|
| `CallsReturnReferences` | `SysSpec => []ReferencesReturned` |
| `CallsKeepFiles` | `SysSpec => Spec` of `PkFiles` |
| `CallCountsExact` | `SysSpec => []RefcntExact` |
| `TransfersExact` | `SysSpec => []TransferExact` |

The invariant `CallInv` says that the references are those of the memory map
and, at the places where the call `Keeps` its file, one more. `writev` has the file
only from buffer to buffer, which is why `Keeps` is not a matter of `pc` alone. A step
either leaves the files alone, takes the reference as it comes to such a place,
or returns it as it leaves. `CallsKeepFiles` and `CallCountsExact` carry what is proved of
`PkFiles` over to the system calls.

`TransfersExact` rests on `TransferInv`: in the middle of a call exactly the first
`ret + total` bytes of the buffers have been moved (`Moved`), `ret` is the length of
the buffers passed unless the host has been short, and after a short write the host has no
more room. `Before`, the sum of the buffers' lengths, is a recursive function; the
library's induction theorems cannot be used, so facts about it are
proved by the least counterexample (`LeastNumber`, from the well-foundedness of `<`): it
exists, is a natural number and grows, and bytes of other buffers lie on the right side of
a chunk (`PlaceOrder`). That `readv` reports an overflow of its sum as an error is
`SsizeSum`: a sum of two numbers up to `SSIZE_MAX` is negative as an `ssize_t` exactly when
it is not one.

`PkVm_proofs`, for any geometry of page tables, free pages, regions, rights and files:

| theorem | states |
|---|---|
| `TypesKept` | `Spec => []TypeOK` |
| `PromisesCounted` | `Spec => []PromisesExact` |
| `NoPageLost` | `Spec => []PagesConserved` |
| `HeapRoomClear` | `Spec => []BrkRoomClear` |
| `NoRightGained` | `Spec => []RightsAsked` |
| `PromisesKept` | `SlackCovers => (Spec => []PromiseKept)` |
| `SlackSuffices` | `SlackCovers` for a slack of 16 and the tables of Sv39 and of Sv32 |
| `FilesImplemented` | `Spec => FilesSpec` |
| `MappedFilesOpen` | `Spec => []Files!HostExact` |

- `PromisesExact` counts page table entries. A step changes one entry or gives a region
  to new ones; the lemmas on counting say how a cardinality changes with one entry. It is
  inductive together with the types and the place of each call in its loop (`VmCore`).
- `PagesConserved` adds up free pages, tables, pages of regions and mapped pages; regions
  are carved a page at a time, and there are enough of them for that.
- `BrkRoomClear` holds between calls; within one, the loop of `__do_brk` has cleared what
  lies behind it, and a mapping keeps out of the room because `__vm_alloc` and
  the admission test do.
- `RightsAsked` needs that the rights in an entry are within those of its region or those
  last asked for, and that `mprotect`, which changes a region's rights for all of its
  pages, never grants what a page was not asked.
- `PromiseKept` is not inductive: a promise is good only if enough pages are free for all
  promises and for the tables the mapping in progress has still to add (`Kept`). The
  admission test guarantees that if its slack and its sixteenth of the request cover
  the tables a mapping can miss. This is the hypothesis `SlackCovers`, and `SlackSuffices`
  shows it for the code's constant and both kinds of machines, by counting the
  prefixes of an interval at each level.
- `FilesSpec` takes `PkFiles_proofs` with the references of regions and calls for `held`.
  The files a region or a call refers to are in use, so a reference taken or
  dropped is a step of `PkFiles`; what is proved there holds for mapped files too.

The assumptions of `PkVm` beside the ranges of its constants: there are finitely many
region structs; the tables of files have room for the three standard streams; and the program
that has been loaded fits in memory, or `load_elf` and `run_loaded_program` would have stopped
(`elf.c:107`, `pk.c:112`) before it runs.

`Traps_proofs`, for any program `Code`, memory, pages and register width:

| theorem | states |
|---|---|
| `Discipline` | `Spec => []Disciplined` |
| `TimerKept` | `Spec => []TimerExact` |
| `Precise` | `ValuesRight`, hence `Spec => []PreciseRedirect` |
| `Exact` | `ValuesRight`, `ShiftsRight`, `OpsRight`, `MovesRight`, hence `Spec => []EmulationExact` |

`Disciplined` needs to know in `IInv` that `MPP`, and the handler's copy of it that
outlives a nested trap, are the program's, or a redirection could leave the hart in
machine mode; that a handler runs on exactly one frame; and that a failed
read of an instruction is a load fault, the only cause
`machine_page_fault` accepts for it. For the timer, `TimerInv` adds that the interrupt is
disabled only once it has been made pending, or before the first `set_timer`.

`PreciseRedirect` and `EmulationExact` speak of the end of an emulation. `EmuInv` says
what is true on the way there. Until the supervisor has the trap or the program is past
the instruction (`Begun`), memory differs from what it was only in bytes that the
instruction stores (`MemSound`); the vector elements before `vstart` are done and no others
(`Ready`), so that the instruction can be started again at any time; the frame has
the program's registers and `tp` its `fcsr`; and `AtPlace` says for each place in
a handler how far it is: in the byte loops that `i` bytes have been read or written, in the
vector loop that the elements before `e` are done, in the misaligned handlers that `mtval` is
the address of the access although the trap may have been another one. A fault
that is on its way to the supervisor fits the instruction (`FaultFits`). Stores are the
hard part: that a byte of one element is not the byte of another needs the elements to be
apart (`Apart`), a product with the stride.

The hypotheses of `Precise` and `Exact` are facts about pure functions, free of state:
that bytes make up the number whose bits they are, that the shifts of
`misaligned_load_trap` extend it, and that the operations of `EmulatedOps` are
right. They speak of sums of powers of two, which the provers cannot compute with for
an unknown width; TLC evaluates all four on the widths of `MCTraps`.

`Fdt_proofs`, for any set `Dtbs` of well-formed trees of any size, with `Whole(d)`, that no value
has words beyond the ones a filter may write over, for each of them, and with `Machine(d)`
(section 3) for the last three:

| theorem | states |
|---|---|
| `ScannerKept` | `Spec => []ScanInv` |
| `ScanEndsAtEnd` | `Spec => []EndsAtEnd` |
| `CountsAreOwn` | `Spec => []OwnCounts` |
| `FiltersWork` | `Spec => [](ScanInv /\ FilterInv)` |
| `KernelTree` | `Spec => []KernelTreeExact` |
| `MaskMatches` | `Spec => []MaskMatchesTree`, if no hart is in a deleted device (`HartsStand`) and all have a bit of the mask (`HartsNumbered`) |
| `MachineKnown` | `Spec => [](ScanInv /\ FilterInv /\ MachineInv)` |
| `AssertionsNeverFail` | `Spec => []AssertionsHold` |
| `MachineIsFound` | `Spec => []MachineFound` |

- `Whole` is what the finding `fdt_disabled` violates; `ScanEndsAtEnd` says that a value too long
  is the only reason for a scan to end early. The trees of `MCFdt.cfg` satisfy `Whole`,
  `HartsStand`, `HartsNumbered` and `Machine`.
- `ScanInv` ties the recursion to the tree. The tokens are those handed over, but for
  whole nodes that are gone and values that may change (`TokensKept`). The calls under way are
  those of the nodes that hold the token being read, outermost first (`StackKept`), and a
  level's counts come from its node, from a sibling before it, or are the defaults
  (`CountsKept`), from which `OwnCounts` follows in a well-formed tree. A deletion overwrites a node
  at the moment its call returns, when no call is left for a node within.
- The nesting itself is derived from the depth of each token; what ends where a node
  ends (`EndsHere`) is found by the least counterexample, as in `Syscalls_proofs`.
- `FilterInv` says what each filter has done when it is at a token: the queries nothing;
  `filter_harts` and `filter_plic` their edits to the nodes whose properties they have read
  (`HandledNodes`), with locals that say exactly what they have read of the current one
  (`HartSeen`, `PlicSeen`); `filter_compat` the deletion of the compatible nodes that have
  ended outside the outermost one under way (`Gone`), whose level is `kill` (`KillKept`). At the
  end of a filter that is the whole tree, and the next one starts from it.

- `MachineFound` speaks of the end of a query, and `AssertionsHold` of asserts that hold
  only because of what earlier callbacks have left. `MachineInv` says of each query what it
  has found of the nodes its scan is past (`Upto`): the size of a region the firmware is in
  (`MemInv`), the harts and phandles (`HartsFoundInv`), the wires of every hart to the devices
  (`DevicesInv`); and what its locals say of the node under way. In `query_harts` those locals
  are nodes of outer levels: `CpuKept` and `ControllerKept` tie the pointers to the
  levels of the cpu and of the controller in it, `NumberKept` and `PhandleKept` what has been
  read in between to those nodes. Hence the conditions of `HartsDescribed` that no cpu and no `reg`
  lies in a cpu's node, and no controller in a controller: either would overwrite what is still
  needed. The devices are wired from phandles found by the query before, so `DevicesInv`
  rests on `HartsFoundInv` at the end of its scan.
- That the loop over a list of interrupts wires every hart listed (`WiresAre`), and that the
  cells of a region make numbers of 64 bits (`NumberIs`, by the least counterexample; `RegionsAre`),
  are lemmas about pure operators.

Every invariant and action property the runs check is stated by a theorem. Only
model-checked: liveness, which is beyond the prover, and the arithmetic named above.

## 7. What is not modelled

`PROJECT.json` lists every component with its status. By lines most of the
repository is code the models have no use for: `softfloat/` is vendored and
`machine/encoding.h` is generated. Left out for good:

- floating point arithmetic and conversion, whose results are the library's; what
  the monitor does around them (rounding mode, flags, disabled state) is in
  `Traps`, and operations without rounding are in `EmulatedOps`;
- compressed float accesses, which take the path of the others;
- moving characters through UARTs and the finisher's store, formatting of console
  output, string functions, the dummy payload and generated scripts;
- weak memory, and the set-up of PMP, PLIC and CSRs;
- parsing of ELF headers and of the command line, and `pk`'s system calls that
  make one call of the host or fill in a constant.

Within modelled components: `die` during boot, `poweroff` through the finisher
(one store that stops the machine), HTIF on RV32, the physical identity of pages,
the kernel's own mappings, traps the supervisor takes in its own handler, access
faults in the monitor, and the test of user addresses in `usermem.c`.

## 8. Plan

In order of importance; the models of 1 to 7 are done.

1. `Ipi`, `RemoteFence`, `Ipi_proofs`.
2. `PkFiles`, `PkFiles_proofs`.
3. `PkVm`, composed with `PkFiles`, and `PkVm_proofs`.
4. `Boot`, `Boot_proofs`.
5. `Htif`, `Htif_proofs`. To add: an abstract console (a stream of characters each way) and an
   abstract call (one answer per request) that it implements, as a refinement.
6. `EmulatedOps`, `Traps`, `Traps_proofs`.
7. `Syscalls`, `Syscalls_proofs`, `Fdt` and `Fdt_proofs`.
8. `Elf`: `load_elf` and the stack `pk` builds, on top of `PkVm`'s mappings.

A run takes from seconds to a few minutes.
