-------------------------------- MODULE Fdt --------------------------------
(***************************************************************************)
(* The scanner of device trees of machine/fdt.c, the queries by which the  *)
(* first hart learns what machine it runs on, and the filters by which the *)
(* boot loader hides the firmware's own devices and harts from the kernel. *)
(*                                                                         *)
(* A tree is a sequence of tokens, as in the structure block of a          *)
(* flattened device tree.  fdt_scan_helper recurses once for each level;   *)
(* the stack below holds the locals of each level, and a pointer to a node *)
(* is the number of the level whose local `child' it is, since one local   *)
(* serves all the children of a node.  0 is the null pointer.              *)
(***************************************************************************)
EXTENDS Integers, Sequences, FiniteSets, SequencesExt

CONSTANTS
  Dtbs,        \* the device trees that may be handed over
  MAX_HARTS,
  BootHart,    \* mhartid of the hart that scans
  CellBase,    \* 2^32, the values of a cell
  IntBits,     \* 32, the bits of an int
  Self         \* the address of mem_done

ASSUME FdtAssumption ==
  /\ MAX_HARTS \in Nat \ {0}
  /\ BootHart \in 0 .. MAX_HARTS - 1
  /\ CellBase \in Nat \ {0, 1}
  /\ Self \in Nat

\* A cell is an int wide, and a long twice that: 1 << h, where the 1 is an int,
\* is bit h of a long for every hart there is room for.
ASSUME IntAssumption ==
  /\ IntBits \in Nat \ {0, 1}
  /\ CellBase = 2 ^ IntBits
  /\ 2 * IntBits <= CellBase     \* which follows, but not for the provers
  /\ MAX_HARTS < IntBits

VARIABLES
  dtb,      \* the tree as handed over
  tree,     \* the tree being scanned: dtb, then the copy that is filtered
  pass,     \* the number of the scan in Passes
  lex,      \* the token being read
  stack,    \* the locals of each level of fdt_scan_helper
  scan,     \* the locals of the query or filter
  found,    \* what the queries have found: the globals they set
  failed    \* an assertion has failed, and the hart is stopped

vars == <<dtb, tree, pass, lex, stack, scan, found, failed>>

NULL == 0
IRQ_S_EXT == 9
IRQ_M_EXT == 11

\* init_first_hart's queries, then filter_dtb's filters, in order.
Passes == << "uart", "uart16550", "uart_litex", "htif", "finisher", "mem",
             "harts", "clint", "plic", "chosen", "filter_harts",
             "filter_plic", "filter_clint", "filter_debug" >>

Queries == {"uart", "uart16550", "uart_litex", "finisher"}
Compats == {"filter_clint", "filter_debug"}

\* The deepest level there is: filter_compat takes 999 for none.
MaxDepth == 998

Hart == 0 .. MAX_HARTS - 1
Cell == 0 .. CellBase - 1

----------------------------------------------------------------------------
(* Device trees *)

Nodes(d) == {b \in DOMAIN d : d[b].t = "BEGIN_NODE"}

\* The number of nodes that hold token i.
Depth(d, i) ==
  Cardinality({j \in 1 .. i - 1 : d[j].t = "BEGIN_NODE"})
    - Cardinality({j \in 1 .. i - 1 : d[j].t = "END_NODE"})

\* The node that begins at b holds token i: it has not ended before i.
Holds(d, b, i) == b < i /\ \A j \in b + 1 .. i : Depth(d, j) > Depth(d, b)

\* Token i is in the node that begins at b, or begins it.
In(d, b, i) == i = b \/ Holds(d, b, i)

\* The innermost node that holds token i, 0 if none does.
Owner(d, i) ==
  LET around == {b \in Nodes(d) : Holds(d, b, i)}
  IN IF around = {} THEN 0 ELSE CHOOSE b \in around : \A a \in around : a <= b

\* Token i is in node b before any child of it.
Own(d, b, i) == b < i /\ \A j \in b + 1 .. i : d[j].t \notin {"BEGIN_NODE", "END_NODE"}

\* The properties of node b of name n.
Named(d, b, n) ==
  {i \in DOMAIN d : Own(d, b, i) /\ d[i].t = "PROP" /\ d[i].name = n}
Has(d, b, n) == Named(d, b, n) # {}
Value(d, b, n) == d[CHOOSE i \in Named(d, b, n) : TRUE].value

\* The counts of a node: as stated, or the defaults of the specification.
CountsOf(d, b) ==
  <<IF Has(d, b, "#address-cells") THEN Value(d, b, "#address-cells")[1] ELSE 2,
    IF Has(d, b, "#size-cells") THEN Value(d, b, "#size-cells")[1] ELSE 1>>

\* A node states its counts, or no node before it with the same parent does:
\* siblings share the scanner's `child'.
StatesCounts(d, b) ==
  \A n \in {"#address-cells", "#size-cells"} :
    Has(d, b, n) \/ \A a \in Nodes(d) : a < b /\ Owner(d, a) = Owner(d, b) => ~Has(d, a, n)

\* What a device tree looks like: nodes end, a node has its properties, of
\* different names, before its children, the words of a value follow it, and
\* counts are stated where they are used.
WellFormed(d) ==
  /\ Len(d) \in Nat \ {0} /\ d = [i \in 1 .. Len(d) |-> d[i]]
  /\ \A i \in DOMAIN d :
       /\ d[i].t \in {"NOP", "PROP", "WORD", "BEGIN_NODE", "END_NODE", "END"}
       /\ d[i].t = "END" <=> i = Len(d)
       /\ Depth(d, i) \in (IF d[i].t = "END_NODE" THEN 1 ELSE 0) .. MaxDepth
       /\ d[i].t = "PROP" =>
            /\ d[i] = [t |-> "PROP", name |-> d[i].name, value |-> d[i].value,
                       more |-> d[i].more]
            /\ \E b \in Nodes(d) : Own(d, b, i)
       /\ d[i].t = "WORD" =>
            \E j \in 1 .. i - 1 : d[j].t = "PROP" /\ i <= j + d[j].more
  /\ Depth(d, Len(d)) = 0
  /\ \A b \in Nodes(d) :
       /\ \A i, j \in DOMAIN d :
            /\ Own(d, b, i) /\ d[i].t = "PROP"
            /\ Own(d, b, j) /\ d[j].t = "PROP"
            /\ d[i].name = d[j].name
            => i = j
       /\ Has(d, b, "reg") => Owner(d, b) # 0 /\ StatesCounts(d, Owner(d, b))

ASSUME DtbsAssumption == \A d \in Dtbs : WellFormed(d)

----------------------------------------------------------------------------
(* Reading properties *)

\* 2^64, the values of a uint64_t.
Wide == CellBase * CellBase

\* The number that cells make, most significant first, in 64 bits.
Number(cells) ==
  LET n[i \in 0 .. Len(cells)] ==
        IF i = 0 THEN 0 ELSE (n[i - 1] * CellBase + cells[i]) % Wide
  IN n[Len(cells)]

\* fdt_get_address: what the node's count makes of value.
GetAddress(node, value) == Number(SubSeq(value, 1, stack[node].address_cells))

\* What an int keeps of a number.
ToInt(n) ==
  LET low == n % CellBase IN IF low < CellBase - low THEN low ELSE low - CellBase

\* fdt_string_list_index(prop, str) >= 0
Lists(prop, str) == \E i \in DOMAIN prop.value : prop.value[i] = str

----------------------------------------------------------------------------
(* The callbacks.  Each takes what it may change as a record c, with the   *)
(* node it is called for, and returns what it leaves.                      *)

Fail(c) == [c EXCEPT !.failed = TRUE]

\* The property makes the node compatible with one of strs.
Matches(prop, strs) == prop.name = "compatible" /\ \E str \in strs : Lists(prop, str)

\* The locals of a scan before it starts.  int_value and ndev of the clint
\* and plic scans are uninitialized; they are written before they are read.
NewScan(q) ==
  CASE q \in Queries \cup {"htif"} -> [compat |-> FALSE, reg |-> 0, reg_offset |-> 0]
    [] q = "mem" -> [memory |-> FALSE, reg_value |-> <<>>]
    [] q = "harts" -> [cpu |-> NULL, hart |-> 0, controller |-> NULL,
                       cells |-> 0, phandle |-> 0]
    [] q \in {"clint", "plic", "filter_plic"} ->
         [compat |-> FALSE, reg |-> 0, int_value |-> NULL, ndev |-> 0, done |-> FALSE]
    [] q = "chosen" -> [chosen |-> NULL, kernel_start |-> 0, kernel_end |-> 0]
    [] q = "filter_harts" -> [compat |-> FALSE, hart |-> -1, status |-> NULL,
                              mmu_type |-> "none"]
    [] q \in Compats -> [depth |-> 0, kill |-> 999]

uart_open(q, c) == [c EXCEPT !.scan = NewScan(q)]

\* What the scans for a device at an address do with a property.
DeviceProp(c, node, prop, strs) ==
  IF Matches(prop, strs) THEN [c EXCEPT !.scan.compat = TRUE]
  ELSE IF prop.name = "reg"
  THEN [c EXCEPT !.scan.reg = GetAddress(node - 1, prop.value)]
  ELSE c

uart_prop(c, node, prop) == DeviceProp(c, node, prop, {"sifive,uart0"})

uart16550_prop(c, node, prop) ==
  IF prop.name = "reg-offset" THEN [c EXCEPT !.scan.reg_offset = prop.value[1]]
  ELSE DeviceProp(c, node, prop, {"ns16550a", "ns16750"})

\* Only the first string of the list is looked at.
uart_litex_prop(c, node, prop) ==
  LET first == IF prop.name = "compatible" THEN [prop EXCEPT !.value = <<@[1]>>] ELSE prop
  IN DeviceProp(c, node, first, {"litex,uart0", "litex,liteuart"})

finisher_prop(c, node, prop) == DeviceProp(c, node, prop, {"sifive,test0"})

htif_prop(c, prop) ==
  IF Matches(prop, {"ucb,htif0"}) THEN [c EXCEPT !.scan.compat = TRUE] ELSE c

\* The first device found is kept.  What is written to a new UART to set up its
\* line is left out.
uart_done(q, c, node) ==
  IF ~c.scan.compat \/ c.scan.reg = 0 \/ c.found.dev[q] # 0 THEN c
  ELSE [c EXCEPT !.found.dev[q] = c.scan.reg]

uart16550_done(c, node) ==
  IF ~c.scan.compat \/ c.scan.reg = 0 \/ c.found.dev["uart16550"] # 0 THEN c
  ELSE [c EXCEPT !.found.dev["uart16550"] = c.scan.reg + c.scan.reg_offset]

htif_done(c, node) ==
  IF c.scan.compat THEN [c EXCEPT !.found.dev["htif"] = 1] ELSE c

mem_open(c, node) == [c EXCEPT !.scan = NewScan("mem")]

mem_prop(c, node, prop) ==
  CASE prop.name = "device_type" /\ prop.value = "memory" ->
         [c EXCEPT !.scan.memory = TRUE]
    [] prop.name = "reg" -> [c EXCEPT !.scan.reg_value = prop.value]
    [] OTHER -> c

\* The regions that value lists, as pairs of a base and a size, when those have
\* so many cells as counts says.
Regions(value, counts) ==
  LET n == counts[1] + counts[2]
  IN [i \in 1 .. Len(value) \div n |->
        LET at == (i - 1) * n
        IN <<Number(SubSeq(value, at + 1, at + counts[1])),
             Number(SubSeq(value, at + counts[1] + 1, at + n))>>]

\* Which of the regions mem_done is in, the end of a region taken for part of it.
Within(regions) ==
  {i \in DOMAIN regions :
     /\ regions[i][1] <= Self
     /\ Self <= (regions[i][1] + regions[i][2]) % Wide}

\* The last such region gives its size.
mem_done(c, node) ==
  LET counts == <<stack[node - 1].address_cells, stack[node - 1].size_cells>>
      value == c.scan.reg_value
      regions == Regions(value, counts)
      here == Within(regions)
  IN IF ~c.scan.memory THEN c
     ELSE IF value = <<>> \/ Len(value) % (counts[1] + counts[2]) # 0 THEN Fail(c)
     ELSE IF here = {} THEN c
     ELSE [c EXCEPT !.found.mem_size =
                      regions[CHOOSE i \in here : \A j \in here : j <= i][2]]

hart_open(c, node) ==
  [c EXCEPT !.scan.hart = IF c.scan.cpu = NULL THEN -1 ELSE @,
            !.scan.cells = IF c.scan.controller = NULL THEN 0 ELSE @,
            !.scan.phandle = IF c.scan.controller = NULL THEN 0 ELSE @]

hart_prop(c, node, prop) ==
  CASE prop.name = "device_type" /\ prop.value = "cpu" ->
         IF c.scan.cpu # NULL THEN Fail(c) ELSE [c EXCEPT !.scan.cpu = node]
    [] prop.name = "interrupt-controller" ->
         IF c.scan.controller # NULL THEN Fail(c)
         ELSE [c EXCEPT !.scan.controller = node]
    [] prop.name = "#interrupt-cells" -> [c EXCEPT !.scan.cells = prop.value[1]]
    [] prop.name = "phandle" -> [c EXCEPT !.scan.phandle = prop.value[1]]
    [] prop.name = "reg" ->
         [c EXCEPT !.scan.hart = ToInt(GetAddress(node - 1, prop.value))]
    [] OTHER -> c

\* hls_init clears what was known of the hart.
hart_done(c, node) ==
  LET s == c.scan
  IN IF s.cpu = node /\ s.hart < 0 THEN Fail(c)
     ELSE IF s.controller # node \/ s.cpu = NULL THEN c
     ELSE IF s.phandle = 0 \/ s.cells # 1 THEN Fail(c)
     ELSE IF s.hart >= MAX_HARTS THEN c
     ELSE [c EXCEPT !.found.hart_phandles[s.hart] = s.phandle,
                    !.found.hart_mask = @ \cup {s.hart},
                    !.found.ipi[s.hart] = NULL,
                    !.found.plic_m[s.hart] = NULL,
                    !.found.plic_s[s.hart] = NULL]

\* Mutant: the controller stays after its node.
hart_close_cpu(c, node) ==
  [c EXCEPT !.scan.cpu = IF @ = node THEN NULL ELSE @]

hart_close(c, node) ==
  [c EXCEPT !.scan.cpu = IF @ = node THEN NULL ELSE @,
            !.scan.controller = IF @ = node THEN NULL ELSE @]

clint_open(c, node) ==
  [c EXCEPT !.scan.compat = FALSE, !.scan.reg = 0, !.scan.int_value = NULL]

\* int_value is a pointer into the tree: the place of the property.
clint_prop(c, node, prop) ==
  IF prop.name = "interrupts-extended" THEN [c EXCEPT !.scan.int_value = lex]
  ELSE DeviceProp(c, node, prop, {"riscv,clint0"})

plic_prop(c, node, prop) ==
  CASE prop.name = "interrupts-extended" -> [c EXCEPT !.scan.int_value = lex]
    [] prop.name = "riscv,ndev" -> [c EXCEPT !.scan.ndev = prop.value[1]]
    [] OTHER -> DeviceProp(c, node, prop, {"riscv,plic0"})

\* The interrupts of a device: n cells each, the first its hart's phandle.
Interrupts(c, n) ==
  LET value == c.tree[c.scan.int_value].value
  IN [i \in 1 .. Len(value) \div n |-> SubSeq(value, (i - 1) * n + 1, i * n)]

\* The hart with this phandle: the first of those that have it.
HartOf(c, phandle) ==
  LET harts == {h \in Hart : c.found.hart_phandles[h] = phandle}
  IN IF harts = {} THEN MAX_HARTS ELSE CHOOSE h \in harts : \A k \in harts : h <= k

\* The last interrupt of the device that is hart h's and in irqs: its
\* place on the device is where the registers of h are.
Wire(c, n, h, old, irqs) ==
  LET ints == Interrupts(c, n)
      mine == {i \in DOMAIN ints : HartOf(c, ints[i][1]) = h /\ ints[i][2] \in irqs}
  IN IF mine = {} THEN old
     ELSE <<c.scan.reg, (CHOOSE i \in mine : \A j \in mine : j <= i) - 1>>

\* Mutant: two cells for each hart.
clint_done_stride(c, node) ==
  LET s == c.scan
  IN IF ~s.compat THEN c
     ELSE IF \/ s.reg = 0
             \/ s.int_value = NULL
             \/ Len(c.tree[s.int_value].value) % 4 # 0
             \/ s.done
     THEN Fail(c)
     ELSE [c EXCEPT !.scan.done = TRUE,
                    !.found.mtime = s.reg,
                    !.found.ipi = [h \in Hart |->
                       Wire(c, 2, h, c.found.ipi[h], Cell)]]

\* The registers are at reg + index * 4 and reg + 0x4000 + index * 8.
clint_done(c, node) ==
  LET s == c.scan
  IN IF ~s.compat THEN c
     ELSE IF \/ s.reg = 0
             \/ s.int_value = NULL
             \/ Len(c.tree[s.int_value].value) % 4 # 0
             \/ s.done
     THEN Fail(c)
     ELSE [c EXCEPT !.scan.done = TRUE,
                    !.found.mtime = s.reg,
                    !.found.ipi = [h \in Hart |->
                       Wire(c, 4, h, c.found.ipi[h], Cell)]]

plic_done(c, node) ==
  LET s == c.scan
  IN IF ~s.compat THEN c
     ELSE IF \/ s.reg = 0
             \/ s.int_value = NULL
             \/ Len(c.tree[s.int_value].value) % 2 # 0
             \/ s.ndev \notin 0 .. 1023
             \/ s.done
     THEN Fail(c)
     ELSE [c EXCEPT !.scan.done = TRUE,
                    !.found.plic = <<s.reg, s.ndev>>,
                    !.found.plic_m = [h \in Hart |->
                       Wire(c, 2, h, c.found.plic_m[h], {IRQ_M_EXT})],
                    !.found.plic_s = [h \in Hart |->
                       Wire(c, 2, h, c.found.plic_s[h], {IRQ_S_EXT})]]

\* -1 replaces the machine's external interrupt, for the kernel not to use it.
plic_redact(c, node) ==
  IF ~c.scan.compat THEN c
  ELSE [c EXCEPT !.scan.done = TRUE,
                 !.tree[c.scan.int_value].value =
                   [i \in DOMAIN @ |-> IF i % 2 = 0 /\ @[i] = IRQ_M_EXT
                                       THEN CellBase - 1 ELSE @[i]]]

chosen_open(c, node, name) ==
  IF name = "chosen" THEN [c EXCEPT !.scan.chosen = node] ELSE c

chosen_prop(c, node, prop) ==
  CASE c.scan.chosen # NULL /\ prop.name = "riscv,kernel-start" ->
         [c EXCEPT !.scan.kernel_start = GetAddress(node - 1, prop.value)]
    [] c.scan.chosen # NULL /\ prop.name = "riscv,kernel-end" ->
         [c EXCEPT !.scan.kernel_end = GetAddress(node - 1, prop.value)]
    [] OTHER -> c

chosen_close(c, node) ==
  [c EXCEPT !.scan.chosen = IF @ = node THEN NULL ELSE @]

compat_open(c, node) == [c EXCEPT !.scan.depth = @ + 1]

\* What each filter_compat is to delete.
compat_name == IF Passes[pass] = "filter_clint" THEN "riscv,clint0" ELSE "riscv,debug-013"

\* Mutant: a compatible descendant takes over.
compat_prop_inner(c, node, prop) ==
  IF Matches(prop, {compat_name}) THEN [c EXCEPT !.scan.kill = c.scan.depth] ELSE c

compat_prop(c, node, prop) ==
  IF Matches(prop, {compat_name}) /\ c.scan.depth < c.scan.kill
  THEN [c EXCEPT !.scan.kill = c.scan.depth] ELSE c

\* compat_close returns -1, to delete the node, when it is the one to kill.
Killed(c) == c.scan.kill = c.scan.depth

compat_close(c, node) ==
  [c EXCEPT !.scan.kill = IF Killed(c) THEN 999 ELSE @,
            !.scan.depth = @ - 1]

hart_filter_open(c, node) == [c EXCEPT !.scan = NewScan("filter_harts")]

\* status is a pointer into the tree.
hart_filter_prop(c, node, prop) ==
  CASE prop.name = "device_type" /\ prop.value = "cpu" ->
         [c EXCEPT !.scan.compat = TRUE]
    [] prop.name = "reg" ->
         [c EXCEPT !.scan.hart = ToInt(GetAddress(node - 1, prop.value))]
    [] prop.name = "status" -> [c EXCEPT !.scan.status = lex]
    [] prop.name = "mmu-type" -> [c EXCEPT !.scan.mmu_type = prop.value]
    [] OTHER -> c

hart_filter_mask(c) ==
  \/ c.scan.mmu_type = "none"
  \/ c.tree[c.scan.status].value # "okay"
  \/ c.scan.mmu_type \notin {"riscv,sv39", "riscv,sv48"}

\* The bits of the mask that 1 << h sets: RISC-V shifts an int modulo its bits,
\* and the int is extended with its sign.
OneShifted(h) ==
  LET bit == h % IntBits
  IN IF bit = IntBits - 1 THEN bit .. 2 * IntBits - 1 ELSE {bit}

\* Mutant: the mask is assigned, not added to.
hart_filter_done_last(c, node) ==
  LET s == c.scan
  IN IF ~s.compat THEN c
     ELSE IF s.status = NULL \/ s.hart < 0 THEN Fail(c)
     ELSE IF ~hart_filter_mask(c) THEN c
     ELSE [c EXCEPT !.tree[s.status] = [@ EXCEPT !.value = "masked", !.more = 0],
                    !.found.disabled_hart_mask = OneShifted(s.hart)]

\* The new status is written over the old, and its length with it: `masked'
\* takes two words, whatever the room of the old one was.
hart_filter_done(c, node) ==
  LET s == c.scan
  IN IF ~s.compat THEN c
     ELSE IF s.status = NULL \/ s.hart < 0 THEN Fail(c)
     ELSE IF ~hart_filter_mask(c) THEN c
     ELSE [c EXCEPT !.tree[s.status] = [@ EXCEPT !.value = "masked", !.more = 0],
                    !.found.disabled_hart_mask = @ \cup OneShifted(s.hart)]

----------------------------------------------------------------------------
(* Which callbacks each scan has *)

Open(c, node, name) ==
  LET q == Passes[pass]
  IN CASE q \in Queries \cup {"htif"} -> uart_open(q, c)
       [] q = "mem" -> mem_open(c, node)
       [] q = "harts" -> hart_open(c, node)
       [] q \in {"clint", "plic", "filter_plic"} -> clint_open(c, node)
       [] q = "chosen" -> chosen_open(c, node, name)
       [] q = "filter_harts" -> hart_filter_open(c, node)
       [] q \in Compats -> compat_open(c, node)

HasProp(c, node, prop) ==
  LET q == Passes[pass]
  IN CASE q = "uart" -> uart_prop(c, node, prop)
       [] q = "uart16550" -> uart16550_prop(c, node, prop)
       [] q = "uart_litex" -> uart_litex_prop(c, node, prop)
       [] q = "htif" -> htif_prop(c, prop)
       [] q = "finisher" -> finisher_prop(c, node, prop)
       [] q = "mem" -> mem_prop(c, node, prop)
       [] q = "harts" -> hart_prop(c, node, prop)
       [] q = "clint" -> clint_prop(c, node, prop)
       [] q \in {"plic", "filter_plic"} -> plic_prop(c, node, prop)
       [] q = "chosen" -> chosen_prop(c, node, prop)
       [] q = "filter_harts" -> hart_filter_prop(c, node, prop)
       [] q \in Compats -> compat_prop(c, node, prop)

Done(c, node) ==
  LET q == Passes[pass]
  IN CASE q = "uart16550" -> uart16550_done(c, node)
       [] q \in Queries -> uart_done(q, c, node)
       [] q = "htif" -> htif_done(c, node)
       [] q = "mem" -> mem_done(c, node)
       [] q = "harts" -> hart_done(c, node)
       [] q = "clint" -> clint_done(c, node)
       [] q = "plic" -> plic_done(c, node)
       [] q = "filter_plic" -> plic_redact(c, node)
       [] q = "filter_harts" -> hart_filter_done(c, node)
       [] OTHER -> c

Close(c, node) ==
  LET q == Passes[pass]
  IN CASE q = "harts" -> hart_close(c, node)
       [] q = "chosen" -> chosen_close(c, node)
       [] q \in Compats -> compat_close(c, node)
       [] OTHER -> c

Deletes(c) == Passes[pass] \in Compats /\ Killed(c)

----------------------------------------------------------------------------
(* The scanner *)

\* Mutant: one address cell by default.
NewLevelOne == [name |-> "", address_cells |-> 1, size_cells |-> 1,
             last |-> FALSE, begin |-> 0]

\* The locals of a level: the child, shared by all the children, with the
\* default counts; whether a child was met; and where the current child began.
NewLevel == [name |-> "", address_cells |-> 2, size_cells |-> 1,
             last |-> FALSE, begin |-> 0]

level == Len(stack)
cur == level - 1                      \* the node whose tokens are read
tok == tree[lex]

Now == [scan |-> scan, found |-> found, tree |-> tree, failed |-> failed]

Becomes(c) ==
  /\ scan' = c.scan
  /\ found' = c.found
  /\ tree' = c.tree
  /\ failed' = c.failed

\* The properties of the node have all been seen, if that was not said before.
DoneOnce(c) == IF ~stack[level].last /\ cur # NULL THEN Done(c, cur) ELSE c

Scanning == ~failed /\ pass <= Len(Passes)

Init ==
  /\ dtb \in Dtbs
  /\ tree = dtb
  /\ pass = 1
  /\ lex = 1
  /\ stack = <<NewLevel>>
  /\ scan = NewScan(Passes[1])
  /\ found = [dev |-> [q \in Queries \cup {"htif"} |-> 0],
              mem_size |-> 0,
              hart_phandles |-> [h \in Hart |-> 0],
              hart_mask |-> {},
              mtime |-> 0,
              ipi |-> [h \in Hart |-> NULL],
              plic |-> NULL,
              plic_m |-> [h \in Hart |-> NULL],
              plic_s |-> [h \in Hart |-> NULL],
              kernel |-> <<0, 0>>,
              disabled_hart_mask |-> {}]
  /\ failed = FALSE

Nop ==
  /\ Scanning /\ tok.t = "NOP"
  /\ lex' = lex + 1
  /\ UNCHANGED <<dtb, tree, pass, stack, scan, found, failed>>

\* A property after a child fails an assertion.  Its value is more words than
\* the token and as many as its length says are stepped over.
Prop ==
  /\ Scanning /\ tok.t = "PROP"
  /\ lex' = lex + 1 + tok.more
  /\ stack' = CASE cur = NULL -> stack
                [] tok.name = "#address-cells" ->
                     [stack EXCEPT ![cur].address_cells = tok.value[1]]
                [] tok.name = "#size-cells" ->
                     [stack EXCEPT ![cur].size_cells = tok.value[1]]
                [] OTHER -> stack
  /\ Becomes(IF stack[level].last THEN Fail(Now) ELSE HasProp(Now, cur, tok))
  /\ UNCHANGED <<dtb, pass>>

\* The node's done, the child's open, and the call for the child.
BeginNode ==
  /\ Scanning /\ tok.t = "BEGIN_NODE"
  /\ Becomes(Open(DoneOnce(Now), level, tok.name))
  /\ stack' = Append([stack EXCEPT ![level].last = TRUE,
                                   ![level].name = tok.name,
                                   ![level].begin = lex],
                     NewLevel)
  /\ lex' = lex + 1
  /\ UNCHANGED <<dtb, pass>>

\* Tokens from first up to next are overwritten.
Erased(tr, first, next) ==
  [i \in DOMAIN tr |-> IF i \in first .. next - 1 THEN [t |-> "NOP"] ELSE tr[i]]

\* The call returns next: the caller closes the child, and overwrites it if
\* the callback says so.
Return(next) ==
  LET c == DoneOnce(Now)
      closed == Close(c, cur)
  IN /\ Becomes(IF Deletes(c)
                THEN [closed EXCEPT !.tree = Erased(@, stack[cur].begin, next)]
                ELSE closed)
     /\ stack' = SubSeq(stack, 1, cur)
     /\ lex' = next
     /\ UNCHANGED <<dtb, pass>>

\* Any word that is none of the four ends the scan: it is taken for FDT_END,
\* and each level returns and leaves it for its caller to see.
AnyOther == tok.t \notin {"NOP", "PROP", "BEGIN_NODE", "END_NODE"}

EndNode ==
  /\ Scanning /\ cur # NULL
  /\ tok.t = "END_NODE" \/ AnyOther
  /\ Return(IF AnyOther THEN lex ELSE lex + 1)

\* What the query asserts, or copies to the globals, when the scan is over.
Finish(c) ==
  LET q == Passes[pass]
  IN CASE q = "mem" /\ c.found.mem_size = 0 -> Fail(c)
       [] q = "harts" /\ \A h \in c.found.hart_mask : h < BootHart -> Fail(c)
       [] q = "clint" /\ ~c.scan.done -> Fail(c)
       [] q = "chosen" ->
            [c EXCEPT !.found.kernel = <<c.scan.kernel_start, c.scan.kernel_end>>]
       [] OTHER -> c

EndScan ==
  LET c == Finish(Now)
  IN /\ Scanning /\ AnyOther /\ cur = NULL
     /\ Becomes(IF pass < Len(Passes)
                THEN [c EXCEPT !.scan = NewScan(Passes[pass + 1])] ELSE c)
     /\ pass' = pass + 1
     /\ stack' = <<NewLevel>>
     /\ lex' = 1
     /\ UNCHANGED dtb

Next == Nop \/ Prop \/ BeginNode \/ EndNode \/ EndScan

Spec == Init /\ [][Next]_vars

----------------------------------------------------------------------------
(* What a tree says of the machine, read without scanning it               *)

Address(d, b) ==
  Number(SubSeq(Value(d, b, "reg"), 1, CountsOf(d, Owner(d, b))[1]))

OfType(d, type) ==
  {b \in Nodes(d) : Has(d, b, "device_type") /\ Value(d, b, "device_type") = type}

CompatibleWith(d, str) ==
  {b \in Nodes(d) :
     Has(d, b, "compatible") /\ Lists([value |-> Value(d, b, "compatible")], str)}

\* The regions of a node of memory.
MemoryOf(d, b) == Regions(Value(d, b, "reg"), CountsOf(d, Owner(d, b)))

\* The interrupt controllers in a hart's node, and the phandle of the hart's own.
ControllersIn(d, b) ==
  {k \in Nodes(d) : (k = b \/ Holds(d, b, k)) /\ Has(d, k, "interrupt-controller")}
ControllerOf(d, b) == CHOOSE k \in ControllersIn(d, b) : TRUE
PhandleOf(d, b) == Value(d, ControllerOf(d, b), "phandle")[1]

\* The places where device g, of n cells for each interrupt, lists one of irqs of
\* hart b's controller.
Places(d, g, n, b, irqs) ==
  LET ints == Value(d, g, "interrupts-extended")
  IN {i \in 0 .. Len(ints) \div n - 1 :
        ints[n * i + 1] = PhandleOf(d, b) /\ ints[n * i + 2] \in irqs}

\* The harts the kernel is not to use.
Unfit(d) ==
  {b \in OfType(d, "cpu") :
     \/ Value(d, b, "status") # "okay"
     \/ ~Has(d, b, "mmu-type")
     \/ Value(d, b, "mmu-type") \notin {"riscv,sv39", "riscv,sv48"}}

----------------------------------------------------------------------------
(* What a tree is to say of a machine, for the code to find it.  The trees *)
(* of MCFdt do; Fdt_proofs assumes it, where it says so.                   *)

\* No property is longer than its token.
Whole(d) == \A i \in DOMAIN d : d[i].t = "PROP" => d[i].more = 0

\* No hart is in a device that is deleted.
HartsStand(d) ==
  \A b \in OfType(d, "cpu") :
    \A g \in CompatibleWith(d, "riscv,clint0") \cup CompatibleWith(d, "riscv,debug-013") :
      ~ In(d, g, b)

\* Every hart has a bit of the mask.
HartsNumbered(d) == \A b \in OfType(d, "cpu") : Address(d, b) \in 0 .. IntBits - 2

\* Node b has a property n of cells.
OfCells(d, b, n) == Has(d, b, n) /\ Value(d, b, n) \in Seq(Cell)

Harts(d) == OfType(d, "cpu")
Clints(d) == CompatibleWith(d, "riscv,clint0")
Plics(d) == CompatibleWith(d, "riscv,plic0")

\* The memory: whole regions with counts that are numbers, the firmware in one of
\* them and just past none.
MemoryDescribed(d) ==
  /\ \A b \in OfType(d, "memory") :
       LET counts == CountsOf(d, Owner(d, b))
       IN /\ counts[1] \in Nat /\ counts[2] \in Nat /\ counts[1] + counts[2] > 0
          /\ OfCells(d, b, "reg") /\ Value(d, b, "reg") # <<>>
          /\ Len(Value(d, b, "reg")) % (counts[1] + counts[2]) = 0
          /\ \A i \in DOMAIN MemoryOf(d, b) :
               LET end == MemoryOf(d, b)[i][1] + MemoryOf(d, b)[i][2]
               IN end < Wide /\ end # Self
  /\ \E b \in OfType(d, "memory") : Within(MemoryOf(d, b)) # {}

\* The harts: each with a number that is an int, a status and one interrupt controller
\* in it, no two with the same number or controller's phandle, and the boot hart among
\* them.
HartsDescribed(d) ==
  /\ \A b \in Harts(d) :
       /\ OfCells(d, b, "reg") /\ Has(d, b, "status")
       /\ CountsOf(d, Owner(d, b))[1] \in 0 .. Len(Value(d, b, "reg"))
       /\ Address(d, b) < CellBase - Address(d, b)
       /\ \A a \in Nodes(d) : Holds(d, b, a) => a \notin Harts(d) /\ ~ Has(d, a, "reg")
       /\ \E k \in Nodes(d) : ControllersIn(d, b) = {k}
       /\ Has(d, ControllerOf(d, b), "phandle") /\ PhandleOf(d, b) # 0
       /\ Has(d, ControllerOf(d, b), "#interrupt-cells")
       /\ Value(d, ControllerOf(d, b), "#interrupt-cells")[1] = 1
  /\ \A k \in Nodes(d) : \A a \in Nodes(d) :
       Has(d, k, "interrupt-controller") /\ Holds(d, k, a) => ~ Has(d, a, "interrupt-controller")
  /\ \A a \in Harts(d) : \A b \in Harts(d) :
       Address(d, a) = Address(d, b) \/ PhandleOf(d, a) = PhandleOf(d, b) => a = b
  /\ \E b \in Harts(d) : Address(d, b) = BootHart

\* Device g lists an interrupt of each hart, in n cells each.
Serves(d, g, n, irqs) ==
  /\ Has(d, g, "reg") /\ Address(d, g) # 0
  /\ OfCells(d, g, "interrupts-extended")
  /\ Len(Value(d, g, "interrupts-extended")) % n = 0
  /\ \A b \in Harts(d) : Address(d, b) < MAX_HARTS => Places(d, g, n, b, irqs) # {}

\* The interrupts of the plic that are the machine's.
MachineIrqs == {IRQ_M_EXT}

PlicServes(d, g) == Serves(d, g, 2, MachineIrqs)

\* As many interrupts as a plic may have.
Sources(ndev) == ndev \in 0 .. 1023

\* One clint, and one plic at most.
DevicesDescribed(d) ==
  /\ Clints(d) # {}
  /\ \A g \in Clints(d) : Clints(d) = {g} /\ Serves(d, g, 4, Cell)
  /\ \A g \in Plics(d) :
       /\ Plics(d) = {g} /\ PlicServes(d, g)
       /\ Has(d, g, "riscv,ndev") /\ Sources(Value(d, g, "riscv,ndev")[1])

Machine(d) == MemoryDescribed(d) /\ HartsDescribed(d) /\ DevicesDescribed(d)

----------------------------------------------------------------------------
(* Properties *)

Over == pass > Len(Passes)

\* None of the assertions of the queries and filters fails on a tree that
\* describes the machine.
AssertionsHold == ~failed

\* A node's counts, when its children are read, are its own: those it states,
\* or the defaults, and nothing is left of a sibling's.
OwnCounts ==
  Scanning /\ cur > 1 /\ tok.t = "PROP" /\ tok.name = "reg" =>
    LET parent == stack[cur - 1]
    IN <<parent.address_cells, parent.size_cells>> = CountsOf(dtb, parent.begin)

\* mem_size is the size of the region the firmware itself runs from, whatever
\* other regions and nodes of memory there are and in whatever order.
MemoryFound ==
  Over =>
    \E b \in OfType(dtb, "memory") : \E i \in DOMAIN MemoryOf(dtb, b) :
      LET base == MemoryOf(dtb, b)[i][1]
          size == MemoryOf(dtb, b)[i][2]
      IN base <= Self /\ Self < base + size /\ found.mem_size = size

\* The harts found are those of the tree that have a number below MAX_HARTS,
\* each with the phandle of its own interrupt controller.
HartsFound ==
  Over =>
    LET harts == {b \in OfType(dtb, "cpu") : Address(dtb, b) < MAX_HARTS}
    IN /\ found.hart_mask = {Address(dtb, b) : b \in harts}
       /\ \A b \in harts :
            found.hart_phandles[Address(dtb, b)] = PhandleOf(dtb, b)

\* Every hart that will be woken has the registers the clint and the plic
\* have for it: those at the place where they list its controller.
HartsWired ==
  Over =>
    \A b \in OfType(dtb, "cpu") :
      Address(dtb, b) < MAX_HARTS =>
        /\ \A g \in CompatibleWith(dtb, "riscv,clint0") :
             \E i \in Places(dtb, g, 4, b, Cell) :
               found.ipi[Address(dtb, b)] = <<Address(dtb, g), i>>
        /\ \A g \in CompatibleWith(dtb, "riscv,plic0") :
             \E i \in Places(dtb, g, 2, b, {IRQ_M_EXT}) :
               found.plic_m[Address(dtb, b)] = <<Address(dtb, g), i>>

\* What init_first_hart needs to bring the machine up is what the tree says.
MachineFound == MemoryFound /\ HartsFound /\ HartsWired

\* The tree the kernel gets is the one handed over without the firmware's
\* devices and all they contain, with the unfit harts masked and the machine's
\* external interrupts taken from the plic: nothing else is lost or changed.
KernelTreeExact ==
  Over =>
    LET gone == CompatibleWith(dtb, "riscv,clint0")
                  \cup CompatibleWith(dtb, "riscv,debug-013")
        Kept(i) == \A b \in gone : i # b /\ ~Holds(dtb, b, i)
        masked == {i \in DOMAIN dtb : \E b \in Unfit(dtb) : i \in Named(dtb, b, "status")}
        plics == {i \in DOMAIN dtb : \E b \in CompatibleWith(dtb, "riscv,plic0") :
                                       i \in Named(dtb, b, "interrupts-extended")}
        Redacted(v) == [k \in DOMAIN v |->
                          IF k % 2 = 0 /\ v[k] = IRQ_M_EXT THEN CellBase - 1 ELSE v[k]]
    IN \A i \in DOMAIN dtb :
         tree[i] = IF ~Kept(i) THEN [t |-> "NOP"]
                   ELSE IF i \in masked THEN [dtb[i] EXCEPT !.value = "masked", !.more = 0]
                   ELSE IF i \in plics THEN [dtb[i] EXCEPT !.value = Redacted(@)]
                   ELSE dtb[i]

\* The harts the boot loader keeps from the kernel are those whose status in
\* the kernel's tree says so.
MaskMatchesTree ==
  Over =>
    found.disabled_hart_mask =
      {Address(dtb, b) : b \in {b \in OfType(dtb, "cpu") :
                                  \E i \in Named(dtb, b, "status") :
                                    tree[i].value = "masked"}}

\* fdt.c calls any word that is no other token FDT_END: the scan ends at the
\* token that ends the tree, and nowhere before.
EndsAtEnd == Scanning /\ AnyOther => tok.t = "END"

=============================================================================
