------------------------------- MODULE MCFdt --------------------------------
(* Device trees for Fdt. *)
EXTENDS Fdt

P(n, v) == [t |-> "PROP", name |-> n, value |-> v, more |-> 0]
Node(name, inner) ==
  <<[t |-> "BEGIN_NODE", name |-> name]>> \o inner \o <<[t |-> "END_NODE"]>>

\* Statuses of more than two words have the rest after the token.
Status(v) ==
  IF v = "disabled" THEN <<[P("status", v) EXCEPT !.more = 1], [t |-> "WORD"]>>
  ELSE <<P("status", v)>>

Cells(a, s) == <<P("#address-cells", <<a>>), P("#size-cells", <<s>>)>>

\* An address or size of n cells.
Num(n, x) == IF n = 1 THEN <<x>> ELSE <<x \div CellBase, x % CellBase>>

Controller(ph) ==
  Node("interrupt-controller",
       <<P("#interrupt-cells", <<1>>), P("interrupt-controller", <<>>),
         P("phandle", <<ph>>)>>)

\* A hart, with its controller in a node of its own, after another node, or
\* in the node of the hart itself.
Cpu(shape, h, ph, status, mmu) ==
  LET type == <<P("device_type", "cpu")>>
      reg == <<P("reg", <<h>>)>>
      rest == Status(status) \o (IF mmu = "none" THEN <<>> ELSE <<P("mmu-type", mmu)>>)
  IN CASE shape = "child" -> Node("cpu", type \o reg \o rest \o Controller(ph))
       [] shape = "second" ->
            Node("cpu", reg \o rest \o type \o <<[t |-> "NOP"]>>
                        \o Node("cache", <<P("phandle", <<15>>)>>)
                        \o Controller(ph))
       [] shape = "self" ->
            Node("cpu", <<P("interrupt-controller", <<>>), P("phandle", <<ph>>)>>
                        \o reg \o rest \o type \o <<P("#interrupt-cells", <<1>>)>>)

\* Harts as triples of a number, a phandle and a status.
Cpus(shape, harts, mmu) ==
  Node("cpus", Cells(1, 0) \o
               FlattenSeq([i \in DOMAIN harts |->
                 Cpu(shape, harts[i][1], harts[i][2], harts[i][3], mmu)]))

\* One or two nodes of memory, or one with two regions; mem_done is in the
\* region at 8, of size 4.
Memory(shape, ac) ==
  LET M(v) == Node("memory", <<P("device_type", "memory"), P("reg", v)>>)
      near == Num(ac, 8) \o <<4>>
      far == Num(ac, 2) \o <<3>>
  IN CASE shape = "one" -> M(near)
       [] shape = "two" -> M(far \o near)
       [] shape = "split" -> M(near) \o M(far)

Clint(order) ==
  Node("clint",
       <<P("compatible", <<"sifive,clint0", "riscv,clint0">>),
         P("interrupts-extended",
           FlattenSeq([i \in DOMAIN order |-> <<order[i], 3, order[i], 7>>])),
         P("reg", <<5, 1>>)>>)

Plic(order) ==
  Node("plic",
       <<P("compatible", <<"riscv,plic0">>), P("reg", <<6, 1>>),
         P("riscv,ndev", <<7>>), P("interrupt-controller", <<>>),
         P("#interrupt-cells", <<1>>),
         P("interrupts-extended",
           FlattenSeq([i \in DOMAIN order |->
             IF i = 1 THEN <<order[i], IRQ_M_EXT>>
             ELSE <<order[i], IRQ_M_EXT, order[i], IRQ_S_EXT>>]))>>)

Device(compat, at) ==
  Node("device", <<P("reg", <<at, 1>>), P("compatible", compat)>>)

\* The firmware's own devices may be alone, nested, or in one another.  A bus
\* that states no counts comes before those that do.
Soc(shape, order) ==
  LET debug == <<P("compatible", <<"sifive,debug-013", "riscv,debug-013">>)>>
      uart == Device(<<"sifive,uart0">>, 9)
  IN Node("soc", Cells(1, 1) \o
       CASE shape = "flat" ->
              uart \o Clint(order) \o Plic(order) \o Node("debug", debug)
         [] shape = "nested" ->
              Node("bus", Node("device", <<P("reg", <<0, 9, 1>>)>>))
              \o Node("bus", Cells(1, 1) \o Clint(order) \o Device(<<"ns16550a">>, 10))
              \o Node("debug", debug \o Node("sub", debug))
              \o Plic(order) \o uart
         [] shape = "inside" ->
              Node("debug", debug \o Cells(1, 1) \o Clint(order) \o Node("sub", <<>>))
              \o Device(<<"x", "litex,uart0">>, 11) \o Plic(order)
              \o Device(<<"litex,liteuart">>, 12) \o Device(<<"sifive,test0">>, 13)
              \o Device(<<"ucb,htif0">>, 14))

Chosen(ac) ==
  Node("chosen", <<P("riscv,kernel-start", Num(ac, 17)),
                   P("riscv,kernel-end", Num(ac, 18))>>)

Phandles(harts) == [i \in DOMAIN harts |-> harts[i][2]]

Dtb(o) ==
  LET cpus == Cpus(o.cpu, o.harts, o.mmu)
      mem == Memory(o.memory, o.ac)
      soc == Soc(o.soc, IF o.swap THEN Reverse(Phandles(o.harts)) ELSE Phandles(o.harts))
  IN Node("", Cells(o.ac, 1) \o
       CASE o.order = 1 -> Chosen(o.ac) \o cpus \o mem \o soc
         [] o.order = 2 -> cpus \o soc \o mem
         [] o.order = 3 -> mem \o cpus \o soc \o Chosen(o.ac))
     \o <<[t |-> "END"]>>

Options(statuses) ==
  [ac : {1, 2}, order : 1 .. 3, cpu : {"child", "second", "self"},
   mmu : {"riscv,sv39", "none", "riscv,sv32"},
   harts : {<<<<0, 3, s>>, <<1, 4, "okay">>>> : s \in statuses}
           \cup {<<<<2, 5, "okay">>, <<1, 4, s>>, <<0, 3, "okay">>>> : s \in statuses},
   memory : {"one", "two", "split"}, soc : {"flat", "nested", "inside"},
   swap : BOOLEAN]

Plain == [ac |-> 1, order |-> 1, cpu |-> "child", mmu |-> "riscv,sv39",
          harts |-> <<<<0, 3, "okay">>, <<1, 4, "okay">>>>, memory |-> "one",
          soc |-> "flat", swap |-> FALSE]

\* The trees that differ from the plain one in at most n ways.
Near(n, statuses) ==
  {Dtb(o) : o \in {o \in Options(statuses) :
     Cardinality({k \in DOMAIN Plain : o[k] # Plain[k]}) <= n}}

Trees == Near(3, {"okay", "fail"})

\* They say of a machine all that Fdt_proofs asks of a tree.
ASSUME TreesAssumption ==
  \A d \in Trees : Whole(d) /\ HartsStand(d) /\ HartsNumbered(d) /\ Machine(d)

DisabledTrees == Near(1, {"okay", "disabled"})
=============================================================================
