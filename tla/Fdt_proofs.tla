----------------------------- MODULE Fdt_proofs -----------------------------
(***************************************************************************)
(* Proofs about Fdt, for every set of well-formed trees in which no value  *)
(* is longer than what may be written over it.  (Finding fdt_disabled is a *)
(* tree that has a longer one, and the scan ends where it is.)             *)
(*                                                                         *)
(* fdt_scan_helper is recursive and knows of a node only the locals of its *)
(* call.  The invariant ScanInv ties them to the tree: the tokens are      *)
(* those handed over but for whole nodes deleted and some values changed   *)
(* (TokensKept), the calls under way are those of the nodes that hold the  *)
(* token being read (StackKept), and what a call has for a count comes     *)
(* from its node, from a sibling before it, or is the default (CountsKept).*)
(* A node is deleted when it ends, and no call under way is for a node in  *)
(* it, which is why that keeps both.                                       *)
(*                                                                         *)
(* Each filter knows of a node only what its callbacks have put into their *)
(* locals.  FilterInv states of each what the tree is when the filters     *)
(* before it have worked on all of it and this one on the nodes it is past *)
(* (HandledNodes), and what the locals say of the node whose properties    *)
(* are being read (HartSeen, PlicSeen).  filter_compat works on a node     *)
(* when it ends, with all that is in it; KillKept states that kill is the  *)
(* level of the outermost call under way whose node is known to go, and    *)
(* Gone is what has been deleted by then.                                  *)
(*                                                                         *)
(* MachineInv states of each query what it has found of the nodes its scan *)
(* is past (Upto), and what its locals say of the node under way (MemSeen, *)
(* HartsFoundInv, DeviceSeen).  query_harts keeps the levels of a cpu and  *)
(* of its interrupt controller, which CpuKept and ControllerKept tie to    *)
(* the nodes that they are levels of.  What a tree is to say of a machine  *)
(* for that (Machine of Fdt) is assumed where a theorem needs it.          *)
(***************************************************************************)
EXTENDS Fdt, FiniteSetTheorems, WellFoundedInduction, SequenceTheorems, TLAPS

-----------------------------------------------------------------------------
(* The depth of a token *)

\* A set of numbers that is not empty has a least one.
LEMMA LeastNumber ==
  ASSUME NEW T \in SUBSET Nat, T # {}
  PROVE  \E m \in T : \A n \in T : m <= n
<1> DEFINE R == OpToRel(<, Nat)
<1>1. IsWellFoundedOn(R, Nat)
  BY NatLessThanWellFounded
<1>2. \A m, n \in T : <<n, m>> \in R <=> n < m
  BY DEF OpToRel
<1> HIDE DEF R
<1>3. \E m \in T : \A n \in T : ~ (<<n, m>> \in R)
  BY <1>1, WFMin
<1>4. \A m, n \in T : ~ (n < m) => m <= n
  OBVIOUS
<1> QED
  BY <1>2, <1>3, <1>4

\* The tokens of one kind up to i are finitely many.
LEMMA Countable ==
  ASSUME NEW d, NEW t, NEW i \in Nat
  PROVE  IsFiniteSet({j \in 1 .. i : d[j].t = t})
<1>1. IsFiniteSet(1 .. i)
  BY FS_Interval
<1>2. {j \in 1 .. i : d[j].t = t} \in SUBSET (1 .. i)
  OBVIOUS
<1> QED
  BY <1>1, <1>2, FS_Subset

\* A node is one deeper than what is before it.
LEMMA DepthStep ==
  ASSUME NEW d, NEW i \in Nat \ {0}
  PROVE  /\ Depth(d, i) \in Int
         /\ Depth(d, i + 1) = Depth(d, i) + IF d[i].t = "BEGIN_NODE" THEN 1
                                            ELSE IF d[i].t = "END_NODE" THEN -1 ELSE 0
<1> DEFINE Before(t, k) == {j \in 1 .. k : d[j].t = t}
<1>1. \A t : IsFiniteSet(Before(t, i - 1))
  <2>1. i - 1 \in Nat
    OBVIOUS
  <2> QED
    BY <2>1, Countable
<1>2. \A t : Cardinality(Before(t, i - 1)) \in Nat
  BY <1>1, FS_CardinalityType
<1>3. ASSUME NEW t
      PROVE  Cardinality(Before(t, i)) =
               Cardinality(Before(t, i - 1)) + IF d[i].t = t THEN 1 ELSE 0
  <2>1. CASE d[i].t = t
    <3>1. Before(t, i) = Before(t, i - 1) \cup {i} /\ i \notin Before(t, i - 1)
      BY <2>1
    <3> HIDE DEF Before
    <3>2. Cardinality(Before(t, i - 1) \cup {i}) = Cardinality(Before(t, i - 1)) + 1
      BY <3>1, <1>1, FS_AddElement
    <3> QED
      BY <3>1, <3>2, <2>1
  <2>2. CASE d[i].t # t
    <3>1. Before(t, i) = Before(t, i - 1)
      BY <2>2
    <3> HIDE DEF Before
    <3>2. Cardinality(Before(t, i - 1)) \in Nat
      BY <1>2
    <3> QED
      BY <3>1, <3>2, <2>2
  <2> QED
    BY <2>1, <2>2
<1>4. /\ Depth(d, i) = Cardinality(Before("BEGIN_NODE", i - 1))
                         - Cardinality(Before("END_NODE", i - 1))
      /\ Depth(d, i + 1) = Cardinality(Before("BEGIN_NODE", i))
                             - Cardinality(Before("END_NODE", i))
  <2>1. i + 1 - 1 = i
    OBVIOUS
  <2> QED
    BY <2>1 DEF Depth
<1> HIDE DEF Before
<1>5. \A t : Cardinality(Before(t, i)) =
               Cardinality(Before(t, i - 1)) + IF d[i].t = t THEN 1 ELSE 0
  BY <1>3
<1>6. "BEGIN_NODE" # "END_NODE"
  OBVIOUS
<1> DEFINE B == Cardinality(Before("BEGIN_NODE", i - 1))
           E == Cardinality(Before("END_NODE", i - 1))
<1>7. B \in Nat /\ E \in Nat
  BY <1>2
<1>8. CASE d[i].t = "BEGIN_NODE"
  <2>1. Depth(d, i) = B - E /\ Depth(d, i + 1) = (B + 1) - (E + 0)
    BY <1>4, <1>5, <1>6, <1>8
  <2> QED
    BY <2>1, <1>7, <1>8
<1>9. CASE d[i].t = "END_NODE"
  <2>1. Depth(d, i) = B - E /\ Depth(d, i + 1) = (B + 0) - (E + 1)
    BY <1>4, <1>5, <1>6, <1>9
  <2> QED
    BY <2>1, <1>7, <1>9
<1>10. CASE d[i].t # "BEGIN_NODE" /\ d[i].t # "END_NODE"
  <2>1. Depth(d, i) = B - E /\ Depth(d, i + 1) = (B + 0) - (E + 0)
    BY <1>4, <1>5, <1>10
  <2> QED
    BY <2>1, <1>7, <1>10
<1> QED
  BY <1>8, <1>9, <1>10

\* No node holds the first token.
LEMMA DepthFirst == \A d : Depth(d, 1) = 0
<1>1. \A d, t : {j \in 1 .. 1 - 1 : d[j].t = t} = {}
  OBVIOUS
<1> QED
  BY <1>1, FS_EmptySet DEF Depth

\* The last token before i that is less deep than v.
LEMMA LastBelow ==
  ASSUME NEW d, NEW b \in Nat \ {0}, NEW i \in Nat, b < i, NEW v \in Int,
         Depth(d, b) < v
  PROVE  \E m \in b .. i : Depth(d, m) < v /\ \A j \in m + 1 .. i : ~ (Depth(d, j) < v)
<1> DEFINE T == {n \in 0 .. i - b : Depth(d, i - n) < v}
<1>1. i - b \in T
  <2>1. i - b \in 0 .. i - b /\ i - (i - b) = b
    OBVIOUS
  <2> QED
    BY <2>1
<1>2. PICK n \in T : \A k \in T : n <= k
  <2>1. T \in SUBSET Nat /\ T # {}
    BY <1>1
  <2> HIDE DEF T
  <2> QED
    BY <2>1, LeastNumber
<1>3. i - n \in b .. i /\ Depth(d, i - n) < v
  BY <1>2
<1>4. ASSUME NEW j \in (i - n) + 1 .. i, Depth(d, j) < v PROVE FALSE
  <2>1. i - j \in 0 .. i - b /\ i - (i - j) = j /\ i - j < n
    BY <1>2
  <2>2. i - j \in T
    BY <2>1, <1>4
  <2> QED
    BY <2>1, <2>2, <1>2
<1> QED
  BY <1>3, <1>4

\* Whatever is deeper than v has a node of that depth around it.
LEMMA Enclosing ==
  ASSUME NEW d, NEW b \in Nat \ {0}, NEW i \in Nat, b < i, NEW v \in Int,
         Depth(d, b) <= v, v < Depth(d, i)
  PROVE  \E m \in b .. i - 1 :
           d[m].t = "BEGIN_NODE" /\ Depth(d, m) = v /\ Holds(d, m, i)
<1>1. \A j \in Nat \ {0} : Depth(d, j) \in Int
  BY DepthStep
<1>2. PICK m \in b .. i :
        Depth(d, m) < v + 1 /\ \A j \in m + 1 .. i : ~ (Depth(d, j) < v + 1)
  <2>1. v + 1 \in Int /\ Depth(d, b) < v + 1
    BY <1>1
  <2> QED
    BY <2>1, LastBelow
<1>3. m # i
  BY <1>1, <1>2
<1>4. m \in b .. i - 1 /\ m + 1 \in m + 1 .. i /\ m \in Nat \ {0}
  BY <1>3
<1>5. /\ Depth(d, m) \in Int
      /\ Depth(d, m + 1) \in Int
      /\ Depth(d, m + 1) = Depth(d, m) + IF d[m].t = "BEGIN_NODE" THEN 1
                                         ELSE IF d[m].t = "END_NODE" THEN -1 ELSE 0
  BY <1>4, DepthStep, <1>1
<1>6. ~ (Depth(d, m + 1) < v + 1)
  BY <1>2, <1>4
<1>7. d[m].t = "BEGIN_NODE"
  BY <1>2, <1>5, <1>6
<1>8. Depth(d, m) = v
  BY <1>2, <1>5, <1>6, <1>7
<1>9. \A j \in m + 1 .. i : Depth(d, j) > Depth(d, m)
  <2> TAKE j \in m + 1 .. i
  <2>1. j \in Nat \ {0}
    BY <1>4
  <2> QED
    BY <2>1, <1>1, <1>2, <1>8
<1> QED
  BY <1>4, <1>7, <1>8, <1>9 DEF Holds

\* A node that holds a token holds those between.
LEMMA HoldsWithin ==
  ASSUME NEW d, NEW a \in Nat, NEW b \in Nat, NEW i \in Nat,
         Holds(d, a, i), a < b, b <= i
  PROVE  Holds(d, a, b)
BY DEF Holds

\* What a node holds is deeper than the node.
LEMMA HoldsDeeper ==
  ASSUME NEW d, NEW b \in Nat \ {0}, NEW i \in Nat \ {0}, Holds(d, b, i)
  PROVE  b < i /\ Depth(d, b) \in Int /\ Depth(d, i) \in Int /\ Depth(d, b) < Depth(d, i)
<1>1. b < i /\ Depth(d, i) > Depth(d, b)
  BY DEF Holds
<1>2. Depth(d, b) \in Int /\ Depth(d, i) \in Int
  BY DepthStep
<1> QED
  BY <1>1, <1>2

\* A node holds what the nodes in it hold.
LEMMA HoldsThrough ==
  ASSUME NEW d, NEW a \in Nat \ {0}, NEW b \in Nat \ {0}, NEW i \in Nat \ {0},
         Holds(d, a, b), Holds(d, b, i)
  PROVE  Holds(d, a, i)
<1>1. a < b /\ b < i
  BY DEF Holds
<1>2. ASSUME NEW j \in a + 1 .. i PROVE Depth(d, j) > Depth(d, a)
  <2>1. CASE j <= b
    BY <2>1, <1>1 DEF Holds
  <2>2. CASE j > b
    <3>1. j \in b + 1 .. i /\ j \in Nat \ {0}
      BY <2>2
    <3>2. Depth(d, j) > Depth(d, b)
      BY <3>1 DEF Holds
    <3>3. Depth(d, b) > Depth(d, a)
      BY HoldsDeeper
    <3>4. Depth(d, j) \in Int /\ Depth(d, a) \in Int /\ Depth(d, b) \in Int
      BY <3>1, DepthStep
    <3> QED
      BY <3>2, <3>3, <3>4
  <2> QED
    BY <2>1, <2>2
<1> QED
  BY <1>1, <1>2 DEF Holds

\* What is in a node before its children is just one deeper.
LEMMA OwnDepth ==
  ASSUME NEW d, NEW b \in Nat \ {0}, NEW i \in Nat \ {0},
         d[b].t = "BEGIN_NODE", Own(d, b, i)
  PROVE  Holds(d, b, i) /\ \A j \in b + 1 .. i : Depth(d, j) = Depth(d, b) + 1
<1>1. b < i
  BY DEF Own
<1> DEFINE T == {j \in b + 1 .. i : Depth(d, j) # Depth(d, b) + 1}
<1>2. T = {}
  <2> SUFFICES ASSUME T # {} PROVE FALSE
    OBVIOUS
  <2>1. PICK m \in T : \A n \in T : m <= n
    <3>1. T \in SUBSET Nat
      OBVIOUS
    <3> QED
      BY <3>1, LeastNumber
  <2>2. CASE m = b + 1
    BY <2>1, <2>2, DepthStep
  <2>3. CASE m # b + 1
    <3>1. m - 1 \in b + 1 .. i /\ m - 1 \in Nat \ {0} /\ (m - 1) + 1 = m
      BY <2>1, <2>3
    <3>2. m - 1 \notin T
      BY <2>1, <3>1
    <3>3. Depth(d, m - 1) = Depth(d, b) + 1
      BY <3>1, <3>2
    <3>4. d[m - 1].t \notin {"BEGIN_NODE", "END_NODE"}
      BY <3>1 DEF Own
    <3>5. Depth(d, (m - 1) + 1) = Depth(d, m - 1) + 0
      BY <3>1, <3>4, DepthStep
    <3>6. Depth(d, m) = Depth(d, b) + 1
      BY <3>1, <3>3, <3>5, DepthStep
    <3> QED
      BY <2>1, <3>6
  <2> QED
    BY <2>2, <2>3
<1>3. \A j \in b + 1 .. i : Depth(d, j) = Depth(d, b) + 1
  BY <1>2
<1>4. Depth(d, b) \in Int
  BY DepthStep
<1> QED
  BY <1>1, <1>3, <1>4 DEF Holds

\* Token i lies in a node that has been deleted from tr.
Dropped(d, tr, i) == \E b \in Nodes(d) : tr[b].t # "BEGIN_NODE" /\ In(d, b, i)

IsProp(p) == p = [t |-> "PROP", name |-> p.name, value |-> p.value, more |-> 0]

\* The tree is the one handed over but for deleted nodes and some values.
TokensKept(d, tr) ==
  /\ tr = [i \in DOMAIN d |-> tr[i]]
  /\ \A i \in DOMAIN d :
       IF Dropped(d, tr, i) THEN tr[i].t = "NOP"
       ELSE /\ tr[i].t = d[i].t
            /\ d[i].t = "PROP" =>
                 /\ IsProp(tr[i])
                 /\ tr[i].name = d[i].name
                 /\ \/ d[i].name \in {"status", "interrupts-extended"}
                    \/ tr[i] = d[i]

LevelFields == {"name", "address_cells", "size_cells", "last", "begin"}

\* The levels are the nodes that hold token l, the outermost first.
StackKept(d, tr, s, l) ==
  /\ l \in DOMAIN d
  /\ Len(s) \in Nat \ {0}
  /\ s = [k \in 1 .. Len(s) |-> s[k]]
  /\ \A k \in 1 .. Len(s) : s[k] = [f \in LevelFields |-> s[k][f]]
  /\ \A k \in 1 .. Len(s) - 1 :
       /\ s[k].begin \in Nodes(d)
       /\ tr[s[k].begin].t = "BEGIN_NODE"
       /\ Holds(d, s[k].begin, l)
       /\ s[k].last = TRUE
       /\ \A j \in 1 .. k - 1 : s[j].begin < s[k].begin
  /\ \A b \in Nodes(d) :
       Holds(d, b, l) /\ tr[b].t = "BEGIN_NODE" => \E k \in 1 .. Len(s) - 1 : b = s[k].begin
  /\ s[Len(s)].last \in BOOLEAN
  /\ s[Len(s)].last /\ Len(s) > 1 =>
       \E j \in s[Len(s) - 1].begin + 1 .. l - 1 : d[j].t \in {"BEGIN_NODE", "END_NODE"}

\* The node of which level k holds the children; 0 for the top.
Above(s, k) == IF k = 1 THEN 0 ELSE s[k - 1].begin

\* The properties of node b of name n before token l.
Seen(d, b, n, l) == {i \in Named(d, b, n) : i < l}

\* A node with the same parent has stated n, before token l.
Stated(d, n, up, l) ==
  \E c \in Nodes(d) : c < l /\ Owner(d, c) = up /\ Has(d, c, n)

\* What a level has for the count n in its field f, whose default is x.
CountKept(d, s, l, n, f, x) ==
  /\ \A k \in 1 .. Len(s) - 1 :
       LET b == s[k].begin
       IN IF Seen(d, b, n, l) # {} THEN s[k][f] = Value(d, b, n)[1]
          ELSE s[k][f] = x \/ Stated(d, n, Above(s, k), b)
  /\ s[Len(s)][f] = x \/ Stated(d, n, Above(s, Len(s)), l)

CountsKept(d, s, l) ==
  /\ \A k \in 1 .. Len(s) - 1 : Owner(d, s[k].begin) = Above(s, k)
  /\ CountKept(d, s, l, "#address-cells", "address_cells", 2)
  /\ CountKept(d, s, l, "#size-cells", "size_cells", 1)

HartFields == {"compat", "hart", "status", "mmu_type"}
PlicFields == {"compat", "reg", "int_value", "ndev", "done"}

\* i is a pointer to a property of name n.
Points(d, i, n) == i = NULL \/ (i \in DOMAIN d /\ d[i].t = "PROP" /\ d[i].name = n)

\* The pointers of the two filters that write through them, in locals sc.
PointersKept(sc) ==
  /\ pass = 11 => DOMAIN sc = HartFields /\ Points(dtb, sc.status, "status")
  /\ pass = 12 => DOMAIN sc = PlicFields /\ Points(dtb, sc.int_value, "interrupts-extended")

\* The scanner keeps to the tree.
ScanInv ==
  /\ dtb \in Dtbs
  /\ pass \in 1 .. 15
  /\ TokensKept(dtb, tree)
  /\ pass <= 14 => StackKept(dtb, tree, stack, lex) /\ CountsKept(dtb, stack, lex)
  /\ pass <= 12 => \A b \in Nodes(dtb) : tree[b].t = "BEGIN_NODE"
  /\ PointersKept(scan)

-----------------------------------------------------------------------------
(* Well-formed trees *)

\* What the tokens of a tree are.
LEMMA Shape ==
  ASSUME NEW d, WellFormed(d)
  PROVE  /\ Len(d) \in Nat \ {0}
         /\ DOMAIN d = 1 .. Len(d)
         /\ Nodes(d) \subseteq DOMAIN d
         /\ \A i \in DOMAIN d :
              /\ d[i].t \in {"NOP", "PROP", "WORD", "BEGIN_NODE", "END_NODE", "END"}
              /\ d[i].t = "END" <=> i = Len(d)
              /\ Depth(d, i) \in Nat
              /\ Depth(d, i) <= MaxDepth
              /\ d[i].t = "END_NODE" => Depth(d, i) # 0
         /\ Depth(d, Len(d)) = 0
<1>1. Len(d) \in Nat \ {0} /\ d = [i \in 1 .. Len(d) |-> d[i]]
  BY DEF WellFormed
<1>2. DOMAIN d = 1 .. Len(d)
  BY <1>1
<1>3. Nodes(d) \subseteq DOMAIN d
  BY DEF Nodes
<1>4. ASSUME NEW i \in DOMAIN d
      PROVE  /\ d[i].t \in {"NOP", "PROP", "WORD", "BEGIN_NODE", "END_NODE", "END"}
             /\ d[i].t = "END" <=> i = Len(d)
             /\ Depth(d, i) \in (IF d[i].t = "END_NODE" THEN 1 ELSE 0) .. MaxDepth
  BY DEF WellFormed
<1>5. ASSUME NEW i \in DOMAIN d
      PROVE  /\ Depth(d, i) \in Nat
             /\ Depth(d, i) <= MaxDepth
             /\ d[i].t = "END_NODE" => Depth(d, i) # 0
  BY <1>4 DEF MaxDepth
<1>6. Depth(d, Len(d)) = 0
  BY DEF WellFormed
<1> QED
  BY <1>1, <1>2, <1>3, <1>4, <1>5, <1>6

\* What a property is, and that a node has it.
LEMMA PropShape ==
  ASSUME NEW d, WellFormed(d), NEW i \in DOMAIN d, d[i].t = "PROP"
  PROVE  /\ d[i] = [t |-> "PROP", name |-> d[i].name, value |-> d[i].value,
                    more |-> d[i].more]
         /\ \E b \in Nodes(d) : Own(d, b, i)
BY DEF WellFormed

\* A property is that of one node.
LEMMA NamedIs ==
  ASSUME NEW d, WellFormed(d), NEW b \in Nodes(d), NEW n, NEW i \in Named(d, b, n)
  PROVE  Named(d, b, n) = {i} /\ Value(d, b, n) = d[i].value /\ Has(d, b, n)
<1>1. \A j \in Named(d, b, n) : j = i
  <2> TAKE j \in Named(d, b, n)
  <2>1. /\ i \in DOMAIN d /\ Own(d, b, i) /\ d[i].t = "PROP" /\ d[i].name = n
        /\ j \in DOMAIN d /\ Own(d, b, j) /\ d[j].t = "PROP" /\ d[j].name = n
    BY DEF Named
  <2> QED
    BY <2>1 DEF WellFormed
<1>2. Named(d, b, n) = {i}
  BY <1>1
<1>3. (CHOOSE j \in Named(d, b, n) : TRUE) = i
  BY <1>2
<1> QED
  BY <1>2, <1>3 DEF Value, Has

\* Where a node begins.
LEMMA NodeFacts ==
  ASSUME NEW d, WellFormed(d), NEW b \in Nodes(d)
  PROVE  b \in DOMAIN d /\ b \in Nat \ {0} /\ d[b].t = "BEGIN_NODE"
BY Shape DEF Nodes

\* Between a node and its own tokens no other node begins.
LEMMA OwnInnermost ==
  ASSUME NEW d, WellFormed(d), NEW b \in Nodes(d), NEW i \in DOMAIN d, Own(d, b, i),
         NEW a \in Nodes(d), In(d, a, i)
  PROVE  a <= b /\ a < i
<1>1. /\ a \in Nat \ {0} /\ d[a].t = "BEGIN_NODE"
      /\ b \in Nat \ {0}
      /\ i \in Nat \ {0}
  BY NodeFacts, Shape
<1>2. a <= i
  BY <1>1 DEF In, Holds
<1>3. ~ (a > b)
  <2> SUFFICES ASSUME a > b PROVE FALSE
    OBVIOUS
  <2>1. a \in b + 1 .. i
    BY <1>1, <1>2
  <2> QED
    BY <2>1, <1>1 DEF Own
<1>4. b < i
  BY DEF Own
<1> QED
  BY <1>1, <1>3, <1>4

\* The last node to begin of those that hold a token is its owner.
LEMMA OwnerIs ==
  ASSUME NEW d, WellFormed(d), NEW b \in Nodes(d), NEW i, Holds(d, b, i),
         \A a \in Nodes(d) : Holds(d, a, i) => a <= b
  PROVE  Owner(d, i) = b
<1> DEFINE around == {a \in Nodes(d) : Holds(d, a, i)}
<1>1. b \in around /\ \A a \in around : a <= b
  OBVIOUS
<1>2. PICK c \in around : c = (CHOOSE e \in around : \A a \in around : a <= e)
                          /\ \A a \in around : a <= c
  BY <1>1
<1>3. b <= c /\ c <= b
  BY <1>1, <1>2
<1>4. b \in Nat /\ c \in Nat
  BY <1>2, NodeFacts
<1>5. c = b
  BY <1>3, <1>4
<1>6. around # {}
  BY <1>1
<1>7. Owner(d, i) = IF around = {} THEN 0
                    ELSE CHOOSE e \in around : \A a \in around : a <= e
  BY DEF Owner
<1> HIDE DEF around
<1> QED
  BY <1>2, <1>5, <1>6, <1>7

\* A token that no node holds has no owner.
LEMMA OwnerNone ==
  ASSUME NEW d, NEW i, \A a \in Nodes(d) : ~ Holds(d, a, i)
  PROVE  Owner(d, i) = 0
BY DEF Owner

\* Nothing holds the last token.
LEMMA LastIsFree ==
  ASSUME NEW d, WellFormed(d), NEW b \in Nodes(d)
  PROVE  ~ Holds(d, b, Len(d)) /\ b # Len(d)
<1>1. b \in Nat \ {0} /\ Len(d) \in Nat \ {0} /\ Depth(d, b) \in Nat /\ Depth(d, Len(d)) = 0
  BY NodeFacts, Shape
<1>2. Holds(d, b, Len(d)) => Depth(d, b) < Depth(d, Len(d))
  BY <1>1, HoldsDeeper
<1>3. b # Len(d)
  BY NodeFacts, Shape
<1> QED
  BY <1>1, <1>2, <1>3

\* A node has what the nodes in it have.
LEMMA InThrough ==
  ASSUME NEW d, WellFormed(d), NEW a \in Nodes(d), NEW b \in Nodes(d), NEW i \in DOMAIN d,
         In(d, a, b), In(d, b, i)
  PROVE  In(d, a, i)
<1>1. a \in Nat \ {0} /\ b \in Nat \ {0} /\ i \in Nat \ {0}
  BY NodeFacts, Shape
<1> QED
  BY <1>1, HoldsThrough DEF In

\* A node that has a token has those between.
LEMMA InWithin ==
  ASSUME NEW d, WellFormed(d), NEW a \in Nodes(d), NEW b \in DOMAIN d, NEW i \in DOMAIN d,
         In(d, a, i), a <= b, b <= i
  PROVE  In(d, a, b)
<1>1. a \in Nat \ {0} /\ b \in Nat \ {0} /\ i \in Nat \ {0}
  BY NodeFacts, Shape
<1> QED
  BY <1>1, HoldsWithin DEF In

-----------------------------------------------------------------------------
(* The tree while it is filtered *)

\* No node that is left lies in one that is not.
LEMMA LeftStanding ==
  ASSUME NEW d, WellFormed(d), NEW tr, TokensKept(d, tr),
         NEW g \in Nodes(d), tr[g].t # "BEGIN_NODE",
         NEW b \in Nodes(d), tr[b].t = "BEGIN_NODE"
  PROVE  ~ In(d, g, b)
<1> SUFFICES ASSUME In(d, g, b) PROVE FALSE
  OBVIOUS
<1>1. Dropped(d, tr, b)
  BY DEF Dropped
<1>2. b \in DOMAIN d
  BY NodeFacts
<1>3. tr[b].t = "NOP"
  BY <1>1, <1>2 DEF TokensKept
<1> QED
  BY <1>3

\* A token that has not been overwritten is as it was handed over, but for the
\* values that may change.
LEMMA TokenIs ==
  ASSUME NEW d, WellFormed(d), NEW tr, TokensKept(d, tr), NEW i \in DOMAIN d, tr[i].t # "NOP"
  PROVE  /\ ~ Dropped(d, tr, i)
         /\ tr[i].t = d[i].t
         /\ d[i].t = "PROP" =>
              /\ IsProp(tr[i])
              /\ tr[i].name = d[i].name
              /\ \/ d[i].name \in {"status", "interrupts-extended"}
                 \/ tr[i] = d[i]
BY DEF TokensKept

\* The properties of a node that is left are left.
LEMMA OwnNotDropped ==
  ASSUME NEW d, WellFormed(d), NEW tr, TokensKept(d, tr),
         NEW b \in Nodes(d), tr[b].t = "BEGIN_NODE", NEW i \in DOMAIN d, Own(d, b, i)
  PROVE  ~ Dropped(d, tr, i) /\ tr[i].t = d[i].t
<1>1. ~ Dropped(d, tr, i)
  <2> SUFFICES ASSUME NEW g \in Nodes(d), tr[g].t # "BEGIN_NODE", In(d, g, i) PROVE FALSE
    BY DEF Dropped
  <2>1. g <= b
    BY OwnInnermost
  <2>2. b <= i
    <3>1. b < i /\ b \in Nat /\ i \in Nat
      BY NodeFacts, Shape DEF Own
    <3> QED
      BY <3>1
  <2>3. In(d, g, b)
    BY <2>1, <2>2, InWithin, NodeFacts
  <2> QED
    BY <2>3, LeftStanding
<1> QED
  BY <1>1 DEF TokensKept
-----------------------------------------------------------------------------
(* The levels of the scanner *)

\* There is a level below each but the first.
LEMMA Below ==
  ASSUME NEW n \in Nat \ {0}
  PROVE  n # 1 => n > 1 /\ n - 1 \in 1 .. n - 1 /\ 1 \in 1 .. n - 1 /\ n - 1 \in Nat \ {0}
OBVIOUS

\* The facts of StackKept about one level.
LEMMA LevelFacts ==
  ASSUME NEW d, WellFormed(d), NEW tr, NEW s, NEW l, StackKept(d, tr, s, l),
         NEW k \in 1 .. Len(s) - 1
  PROVE  /\ s[k].begin \in Nodes(d)
         /\ s[k].begin \in DOMAIN d
         /\ s[k].begin \in Nat \ {0}
         /\ tr[s[k].begin].t = "BEGIN_NODE"
         /\ Holds(d, s[k].begin, l)
         /\ s[k].begin < l
         /\ l \in Nat \ {0}
<1>1. s[k].begin \in Nodes(d) /\ tr[s[k].begin].t = "BEGIN_NODE" /\ Holds(d, s[k].begin, l)
  BY DEF StackKept
<1>2. l \in Nat \ {0}
  BY Shape DEF StackKept
<1> QED
  BY <1>1, <1>2, NodeFacts DEF Holds

\* Levels are in the order in which their nodes begin.
LEMMA LevelsInOrder ==
  ASSUME NEW d, WellFormed(d), NEW tr, NEW s, NEW l, StackKept(d, tr, s, l),
         NEW j \in 1 .. Len(s) - 1, NEW k \in 1 .. Len(s) - 1, j <= k
  PROVE  s[j].begin <= s[k].begin
<1>1. j = k \/ j \in 1 .. k - 1
  OBVIOUS
<1>2. j \in 1 .. k - 1 => s[j].begin < s[k].begin
  BY DEF StackKept
<1>3. s[j].begin \in Nat /\ s[k].begin \in Nat
  BY LevelFacts
<1> QED
  BY <1>1, <1>2, <1>3

\* The innermost level is the node that holds the token.
LEMMA TopOwns ==
  ASSUME NEW d, WellFormed(d), NEW tr, TokensKept(d, tr),
         NEW s, NEW l, StackKept(d, tr, s, l), ~ Dropped(d, tr, l)
  PROVE  Owner(d, l) = Above(s, Len(s))
<1>1. Len(s) \in Nat \ {0}
  BY DEF StackKept
<1>2. \A b \in Nodes(d) : Holds(d, b, l) => \E k \in 1 .. Len(s) - 1 : b = s[k].begin
  BY DEF StackKept, Dropped, In
<1>3. CASE Len(s) = 1
  <2>1. \A b \in Nodes(d) : ~ Holds(d, b, l)
    BY <1>2, <1>3
  <2> QED
    BY <2>1, <1>3, OwnerNone DEF Above
<1>4. CASE Len(s) # 1
  <2> DEFINE b == s[Len(s) - 1].begin
  <2>1. Len(s) - 1 \in 1 .. Len(s) - 1
    BY <1>1, <1>4, Below
  <2>2. b \in Nodes(d) /\ Holds(d, b, l)
    BY <2>1, LevelFacts
  <2>3. ASSUME NEW a \in Nodes(d), Holds(d, a, l) PROVE a <= b
    <3>1. PICK k \in 1 .. Len(s) - 1 : a = s[k].begin
      BY <1>2, <2>3
    <3> QED
      BY <3>1, <2>1, LevelsInOrder
  <2>4. Above(s, Len(s)) = b
    BY <1>4 DEF Above
  <2> HIDE DEF b
  <2> QED
    BY <2>2, <2>3, <2>4, OwnerIs
<1> QED
  BY <1>3, <1>4

\* A property is one of the innermost node, before its children.
LEMMA PropOfTop ==
  ASSUME NEW d, WellFormed(d), NEW tr, TokensKept(d, tr),
         NEW s, NEW l, StackKept(d, tr, s, l), tr[l].t = "PROP"
  PROVE  /\ Len(s) > 1
         /\ ~ s[Len(s)].last
         /\ d[l].t = "PROP"
         /\ Own(d, s[Len(s) - 1].begin, l)
         /\ ~ Dropped(d, tr, l)
<1>1. l \in DOMAIN d /\ Len(s) \in Nat \ {0}
  BY DEF StackKept
<1>2. ~ Dropped(d, tr, l) /\ d[l].t = "PROP"
  BY <1>1, TokenIs
<1>3. PICK b \in Nodes(d) : Own(d, b, l)
  BY <1>1, <1>2, PropShape
<1>4. Holds(d, b, l)
  <2>1. b \in Nat \ {0} /\ d[b].t = "BEGIN_NODE" /\ l \in Nat \ {0}
    BY <1>1, NodeFacts, Shape
  <2> QED
    BY <2>1, <1>3, OwnDepth
<1>5. tr[b].t = "BEGIN_NODE"
  BY <1>2, <1>4 DEF Dropped, In
<1>6. PICK k \in 1 .. Len(s) - 1 : b = s[k].begin
  BY <1>4, <1>5 DEF StackKept
<1>7. Len(s) > 1 /\ Len(s) - 1 \in 1 .. Len(s) - 1
  BY <1>1, <1>6
<1>8. s[Len(s) - 1].begin = b
  <2>1. s[Len(s) - 1].begin <= b
    <3>1. s[Len(s) - 1].begin \in Nodes(d) /\ Holds(d, s[Len(s) - 1].begin, l)
      BY <1>7, LevelFacts
    <3> QED
      BY <3>1, <1>1, <1>3, OwnInnermost DEF In
  <2>2. b <= s[Len(s) - 1].begin
    BY <1>6, <1>7, LevelsInOrder
  <2>3. b \in Nat /\ s[Len(s) - 1].begin \in Nat
    BY <1>6, <1>7, LevelFacts
  <2> QED
    BY <2>1, <2>2, <2>3
<1>9. ~ s[Len(s)].last
  <2> SUFFICES ASSUME s[Len(s)].last PROVE FALSE
    OBVIOUS
  <2>1. PICK j \in s[Len(s) - 1].begin + 1 .. l - 1 : d[j].t \in {"BEGIN_NODE", "END_NODE"}
    BY <1>7 DEF StackKept
  <2>2. b \in Nat /\ l \in Nat
    BY <1>1, NodeFacts, Shape
  <2>3. j \in b + 1 .. l
    BY <2>1, <2>2, <1>8
  <2> QED
    BY <2>1, <2>3, <1>3 DEF Own
<1> QED
  BY <1>2, <1>3, <1>7, <1>8, <1>9

\* A node that ends is the innermost.
LEMMA EndOfTop ==
  ASSUME NEW d, WellFormed(d), NEW tr, TokensKept(d, tr),
         NEW s, NEW l, StackKept(d, tr, s, l), tr[l].t = "END_NODE"
  PROVE  /\ Len(s) > 1
         /\ d[l].t = "END_NODE"
         /\ ~ Dropped(d, tr, l)
         /\ Depth(d, l) = Depth(d, s[Len(s) - 1].begin) + 1
<1>1. l \in DOMAIN d /\ Len(s) \in Nat \ {0} /\ l \in Nat \ {0}
  BY Shape DEF StackKept
<1>2. ~ Dropped(d, tr, l) /\ d[l].t = "END_NODE"
  BY <1>1, TokenIs
<1>3. Depth(d, l) \in Nat \ {0}
  BY <1>1, <1>2, Shape
<1>4. Depth(d, 1) = 0
  BY DepthFirst
<1>5. PICK m \in 1 .. l - 1 :
        d[m].t = "BEGIN_NODE" /\ Depth(d, m) = Depth(d, l) - 1 /\ Holds(d, m, l)
  <2>1. 1 < l
    BY <1>1, <1>3, <1>4
  <2>2. Depth(d, l) - 1 \in Int /\ Depth(d, 1) <= Depth(d, l) - 1 /\ Depth(d, l) - 1 < Depth(d, l)
    BY <1>3, <1>4
  <2>3. 1 \in Nat \ {0}
    OBVIOUS
  <2> HIDE DEF Depth
  <2> QED
    BY <2>1, <2>2, <2>3, <1>1, Enclosing
<1>6. m \in Nodes(d)
  <2>1. m \in DOMAIN d
    BY <1>1, Shape
  <2> QED
    BY <2>1, <1>5 DEF Nodes
<1>7. tr[m].t = "BEGIN_NODE"
  BY <1>2, <1>5, <1>6 DEF Dropped, In
<1>8. PICK k \in 1 .. Len(s) - 1 : m = s[k].begin
  BY <1>5, <1>6, <1>7 DEF StackKept
<1>9. Len(s) > 1 /\ Len(s) - 1 \in 1 .. Len(s) - 1
  BY <1>1, <1>8
<1> DEFINE b == s[Len(s) - 1].begin
<1>10. m <= b /\ b \in Nodes(d) /\ Holds(d, b, l) /\ b \in Nat \ {0} /\ b < l
  BY <1>8, <1>9, LevelsInOrder, LevelFacts
<1> HIDE DEF b
<1>11. ~ (m < b)
  <2> SUFFICES ASSUME m < b PROVE FALSE
    OBVIOUS
  <2>1. b \in m + 1 .. l
    BY <1>1, <1>10
  <2>2. Depth(d, b) > Depth(d, m)
    BY <2>1, <1>5 DEF Holds
  <2>3. Depth(d, b) < Depth(d, l) /\ Depth(d, b) \in Int
    BY <1>1, <1>10, HoldsDeeper
  <2> QED
    BY <2>2, <2>3, <1>3, <1>5
<1>12. m = b
  BY <1>10, <1>11
<1>13. Depth(d, l) = Depth(d, b) + 1
  BY <1>12, <1>3, <1>5
<1> QED
  BY <1>2, <1>9, <1>13 DEF b

\* Any other token is the last one.
LEMMA OtherIsLast ==
  ASSUME NEW d, WellFormed(d), Whole(d), NEW tr, TokensKept(d, tr),
         NEW s, NEW l, StackKept(d, tr, s, l),
         tr[l].t \notin {"NOP", "PROP", "BEGIN_NODE", "END_NODE"}
  PROVE  tr[l].t = "END" /\ l = Len(d) /\ Len(s) = 1
<1>1. l \in DOMAIN d /\ Len(s) \in Nat \ {0} /\ l \in Nat \ {0}
  BY Shape DEF StackKept
<1>2. tr[l].t = d[l].t
  BY <1>1, TokenIs
<1>3. d[l].t # "WORD"
  <2> SUFFICES ASSUME d[l].t = "WORD" PROVE FALSE
    OBVIOUS
  <2>1. PICK j \in 1 .. l - 1 : d[j].t = "PROP" /\ l <= j + d[j].more
    BY <1>1 DEF WellFormed
  <2>2. j \in DOMAIN d
    BY <1>1, Shape
  <2>3. d[j].more = 0
    BY <2>1, <2>2 DEF Whole
  <2> QED
    BY <2>1, <2>3, <1>1
<1>4. d[l].t = "END" /\ l = Len(d)
  BY <1>1, <1>2, <1>3, Shape
<1>5. Len(s) = 1
  <2> SUFFICES ASSUME Len(s) # 1 PROVE FALSE
    OBVIOUS
  <2>1. 1 \in 1 .. Len(s) - 1
    BY <1>1, Below
  <2>2. s[1].begin \in Nodes(d) /\ Holds(d, s[1].begin, l)
    BY <2>1, LevelFacts
  <2> QED
    BY <2>2, <1>4, LastIsFree
<1> QED
  BY <1>2, <1>4, <1>5

\* The scan is over only at the last token.
LEMMA NotLast ==
  ASSUME NEW d, WellFormed(d), NEW tr, TokensKept(d, tr), NEW l \in DOMAIN d, tr[l].t # "END"
  PROVE  l + 1 \in DOMAIN d /\ l \in Nat \ {0} /\ l + 1 \in Nat \ {0}
<1>1. ~ Dropped(d, tr, Len(d))
  <2>1. \A b \in Nodes(d) : ~ In(d, b, Len(d))
    BY LastIsFree DEF In
  <2> QED
    BY <2>1 DEF Dropped
<1>2. Len(d) \in DOMAIN d /\ d[Len(d)].t = "END"
  BY Shape
<1>3. tr[Len(d)].t = "END"
  BY <1>1, <1>2 DEF TokensKept
<1>4. l # Len(d)
  BY <1>3
<1> QED
  BY <1>4, Shape
-----------------------------------------------------------------------------
(* How the levels follow the tokens *)

\* A node holds the next token when it has not ended there.
LEMMA HoldsUp ==
  ASSUME NEW d, NEW b \in Nat \ {0}, NEW l \in Nat \ {0}
  PROVE  Holds(d, b, l + 1) <=> (b = l \/ Holds(d, b, l)) /\ Depth(d, l + 1) > Depth(d, b)
<1>1. b < l + 1 <=> b = l \/ b < l
  OBVIOUS
<1>2. b < l + 1 => \A j \in b + 1 .. l + 1 : j = l + 1 \/ j \in b + 1 .. l
  OBVIOUS
<1>3. \A j \in b + 1 .. l : j \in b + 1 .. l + 1
  OBVIOUS
<1>4. b < l + 1 => l + 1 \in b + 1 .. l + 1
  OBVIOUS
<1>5. b = l => ~ \E j \in b + 1 .. l : TRUE
  OBVIOUS
<1> QED
  BY <1>1, <1>2, <1>3, <1>4, <1>5, Zenon DEF Holds

\* A token that is skipped ends no node that is left.
LEMMA HoldsNext ==
  ASSUME NEW d, WellFormed(d), NEW tr, TokensKept(d, tr),
         NEW l \in DOMAIN d, tr[l].t \in {"NOP", "PROP"},
         NEW b \in Nodes(d), tr[b].t = "BEGIN_NODE"
  PROVE  Holds(d, b, l + 1) <=> Holds(d, b, l)
<1>1. b \in Nat \ {0} /\ l \in Nat \ {0} /\ l + 1 \in Nat \ {0} /\ b \in DOMAIN d
  BY NodeFacts, Shape
<1>2. b # l
  OBVIOUS
<1>3. Holds(d, b, l + 1) => Holds(d, b, l)
  BY <1>1, <1>2, HoldsUp
<1>4. ASSUME Holds(d, b, l) PROVE Holds(d, b, l + 1)
  <2>1. /\ Depth(d, b) \in Int /\ Depth(d, l) \in Int /\ Depth(d, l + 1) \in Int
        /\ Depth(d, b) < Depth(d, l)
        /\ Depth(d, l + 1) = Depth(d, l) + IF d[l].t = "BEGIN_NODE" THEN 1
                                           ELSE IF d[l].t = "END_NODE" THEN -1 ELSE 0
    BY <1>1, <1>4, HoldsDeeper, DepthStep
  <2>2. Depth(d, l + 1) > Depth(d, b)
    <3>1. CASE d[l].t # "END_NODE"
      BY <2>1, <3>1
    <3>2. CASE d[l].t = "END_NODE"
      <4>1. Dropped(d, tr, l)
        BY <3>2 DEF TokensKept
      <4>2. PICK g \in Nodes(d) : tr[g].t # "BEGIN_NODE" /\ In(d, g, l)
        BY <4>1 DEF Dropped
      <4>3. g \in Nat \ {0} /\ d[g].t = "BEGIN_NODE" /\ g \in DOMAIN d
        BY NodeFacts
      <4>4. Holds(d, g, l)
        BY <3>2, <4>2, <4>3 DEF In
      <4>5. b < g
        <5>1. b # g
          BY <4>2
        <5>2. ~ (g < b)
          <6>1. b < l
            BY <1>4 DEF Holds
          <6>2. g < b => In(d, g, b)
            BY <6>1, <4>3, <1>1, <4>4, HoldsWithin DEF In
          <6> QED
            BY <6>2, <4>2, LeftStanding
        <5> QED
          BY <5>1, <5>2, <4>3, <1>1
      <4>6. g < l /\ Depth(d, g) < Depth(d, l) /\ Depth(d, g) \in Int
        BY <4>3, <4>4, <1>1, HoldsDeeper
      <4>7. Depth(d, g) > Depth(d, b)
        <5>1. g \in b + 1 .. l
          BY <4>3, <4>5, <4>6, <1>1
        <5> QED
          BY <5>1, <1>4 DEF Holds
      <4> QED
        BY <2>1, <3>2, <4>6, <4>7
    <3> QED
      BY <3>1, <3>2
  <2> QED
    BY <1>1, <1>4, <2>2, HoldsUp
<1> QED
  BY <1>3, <1>4

\* s2 is s but for the counts.
SameLevels(s, s2) ==
  /\ Len(s2) = Len(s)
  /\ s2 = [k \in 1 .. Len(s2) |-> s2[k]]
  /\ \A k \in 1 .. Len(s2) : /\ s2[k] = [f \in LevelFields |-> s2[k][f]]
                              /\ s2[k].begin = s[k].begin
                              /\ s2[k].last = s[k].last

\* Past a property or a token of no meaning.
LEMMA MovesOn ==
  ASSUME NEW d, WellFormed(d), NEW tr, TokensKept(d, tr),
         NEW s, NEW l, StackKept(d, tr, s, l), tr[l].t \in {"NOP", "PROP"},
         NEW tr2, \A b \in Nodes(d) : tr2[b].t = "BEGIN_NODE" <=> tr[b].t = "BEGIN_NODE",
         NEW s2, SameLevels(s, s2)
  PROVE  StackKept(d, tr2, s2, l + 1)
<1>0. /\ Len(s2) = Len(s)
      /\ s2 = [k \in 1 .. Len(s2) |-> s2[k]]
      /\ \A k \in 1 .. Len(s2) : /\ s2[k] = [f \in LevelFields |-> s2[k][f]]
                                 /\ s2[k].begin = s[k].begin
                                 /\ s2[k].last = s[k].last
  BY DEF SameLevels
<1>1. l \in DOMAIN d /\ Len(s) \in Nat \ {0}
  BY DEF StackKept
<1>2. l + 1 \in DOMAIN d /\ l \in Nat \ {0}
  BY <1>1, NotLast
<1>3. \A b \in Nodes(d) :
        tr[b].t = "BEGIN_NODE" => (Holds(d, b, l + 1) <=> Holds(d, b, l))
  BY <1>1, HoldsNext
<1>4. ASSUME NEW k \in 1 .. Len(s2) - 1
      PROVE  /\ s2[k].begin \in Nodes(d)
             /\ tr2[s2[k].begin].t = "BEGIN_NODE"
             /\ Holds(d, s2[k].begin, l + 1)
             /\ s2[k].last = TRUE
             /\ \A j \in 1 .. k - 1 : s2[j].begin < s2[k].begin
  <2>1. k \in 1 .. Len(s) - 1 /\ k \in 1 .. Len(s2)
    BY <1>0, <1>1
  <2>2. /\ s[k].begin \in Nodes(d)
        /\ tr[s[k].begin].t = "BEGIN_NODE"
        /\ Holds(d, s[k].begin, l)
        /\ s[k].last = TRUE
        /\ \A j \in 1 .. k - 1 : s[j].begin < s[k].begin
    BY <1>0, <2>1 DEF StackKept
  <2>3. \A j \in 1 .. k - 1 : j \in 1 .. Len(s2)
    BY <1>0, <1>1
  <2> QED
    BY <1>0, <2>1, <2>2, <2>3, <1>3
<1>5. ASSUME NEW b \in Nodes(d), Holds(d, b, l + 1), tr2[b].t = "BEGIN_NODE"
      PROVE  \E k \in 1 .. Len(s2) - 1 : b = s2[k].begin
  <2>1. PICK k \in 1 .. Len(s) - 1 : b = s[k].begin
    BY <1>0, <1>3, <1>5 DEF StackKept
  <2>2. k \in 1 .. Len(s2)
    BY <1>0, <1>1
  <2> QED
    BY <1>0, <2>1, <2>2
<1>6. Len(s2) \in 1 .. Len(s2)
  BY <1>0, <1>1
<1>7. s2[Len(s2)].last = s[Len(s)].last
  BY <1>0, <1>6
<1>8. s2[Len(s2)].last \in BOOLEAN
  BY <1>0, <1>7 DEF StackKept
<1>9. s2[Len(s2)].last /\ Len(s2) > 1 =>
        \E j \in s2[Len(s2) - 1].begin + 1 .. (l + 1) - 1 :
          d[j].t \in {"BEGIN_NODE", "END_NODE"}
  <2> SUFFICES ASSUME s2[Len(s2)].last, Len(s2) > 1
               PROVE  \E j \in s2[Len(s2) - 1].begin + 1 .. (l + 1) - 1 :
                        d[j].t \in {"BEGIN_NODE", "END_NODE"}
    OBVIOUS
  <2>1. PICK j \in s[Len(s) - 1].begin + 1 .. l - 1 : d[j].t \in {"BEGIN_NODE", "END_NODE"}
    BY <1>0, <1>7 DEF StackKept
  <2>2. Len(s) - 1 \in 1 .. Len(s2) /\ Len(s) - 1 \in 1 .. Len(s) - 1
    BY <1>0, <1>1
  <2>3. s2[Len(s2) - 1].begin = s[Len(s) - 1].begin /\ s[Len(s) - 1].begin \in Nat
    BY <1>0, <2>2, LevelFacts
  <2>4. j \in s[Len(s) - 1].begin + 1 .. (l + 1) - 1
    BY <1>0, <2>3, <1>2
  <2> QED
    BY <1>0, <2>1, <2>3, <2>4
<1> QED
  BY <1>0, <1>1, <1>2, <1>4, <1>5, <1>8, <1>9 DEF StackKept

\* s2 has one level more than s, for the node at l.
Pushed(s, s2, l) ==
  /\ Len(s2) = Len(s) + 1
  /\ s2 = [k \in 1 .. Len(s2) |-> s2[k]]
  /\ \A k \in 1 .. Len(s2) : s2[k] = [f \in LevelFields |-> s2[k][f]]
  /\ \A k \in 1 .. Len(s) - 1 : s2[k].begin = s[k].begin /\ s2[k].last = s[k].last
  /\ s2[Len(s)].begin = l
  /\ s2[Len(s)].last = TRUE
  /\ s2[Len(s) + 1].last = FALSE

\* Into a node.
LEMMA Opens ==
  ASSUME NEW d, WellFormed(d), NEW tr, TokensKept(d, tr),
         NEW s, NEW l, StackKept(d, tr, s, l), tr[l].t = "BEGIN_NODE",
         NEW tr2, \A b \in Nodes(d) : tr2[b].t = "BEGIN_NODE" <=> tr[b].t = "BEGIN_NODE",
         NEW s2, Pushed(s, s2, l)
  PROVE  StackKept(d, tr2, s2, l + 1)
<1> USE DEF Pushed
<1>1. l \in DOMAIN d /\ Len(s) \in Nat \ {0}
  BY DEF StackKept
<1>2. l + 1 \in DOMAIN d /\ l \in Nat \ {0}
  BY <1>1, NotLast
<1>3. d[l].t = "BEGIN_NODE" /\ l \in Nodes(d)
  BY <1>1, TokenIs DEF Nodes
<1>4. ASSUME NEW b \in Nodes(d)
      PROVE  Holds(d, b, l + 1) <=> b = l \/ Holds(d, b, l)
  <2>1. b \in Nat \ {0}
    BY NodeFacts
  <2>2. Depth(d, l + 1) = Depth(d, l) + 1 /\ Depth(d, l) \in Int /\ Depth(d, b) \in Int
    BY <1>2, <1>3, <2>1, DepthStep
  <2>3. b = l \/ Holds(d, b, l) => Depth(d, l + 1) > Depth(d, b)
    <3>1. Holds(d, b, l) => Depth(d, b) < Depth(d, l)
      BY <1>2, <2>1, HoldsDeeper
    <3> QED
      BY <2>2, <3>1
  <2> QED
    BY <2>1, <2>3, <1>2, HoldsUp
<1>5. ASSUME NEW k \in 1 .. Len(s2) - 1
      PROVE  /\ s2[k].begin \in Nodes(d)
             /\ tr2[s2[k].begin].t = "BEGIN_NODE"
             /\ Holds(d, s2[k].begin, l + 1)
             /\ s2[k].last = TRUE
             /\ \A j \in 1 .. k - 1 : s2[j].begin < s2[k].begin
  <2>1. CASE k = Len(s)
    <3>1. \A j \in 1 .. k - 1 : s2[j].begin = s[j].begin /\ s[j].begin < l
      <4>1. \A j \in 1 .. k - 1 : j \in 1 .. Len(s) - 1
        BY <2>1
      <4> QED
        BY <4>1, LevelFacts
    <3> QED
      BY <2>1, <3>1, <1>3, <1>4
  <2>2. CASE k # Len(s)
    <3>1. k \in 1 .. Len(s) - 1
      BY <1>1, <2>2
    <3>2. /\ s[k].begin \in Nodes(d)
          /\ tr[s[k].begin].t = "BEGIN_NODE"
          /\ Holds(d, s[k].begin, l)
          /\ s[k].last = TRUE
          /\ \A j \in 1 .. k - 1 : s[j].begin < s[k].begin
      BY <3>1 DEF StackKept
    <3>3. \A j \in 1 .. k - 1 : j \in 1 .. Len(s) - 1
      BY <1>1, <3>1
    <3> QED
      BY <3>1, <3>2, <3>3, <1>4
  <2> QED
    BY <2>1, <2>2
<1>6. ASSUME NEW b \in Nodes(d), Holds(d, b, l + 1), tr2[b].t = "BEGIN_NODE"
      PROVE  \E k \in 1 .. Len(s2) - 1 : b = s2[k].begin
  <2>1. CASE b = l
    <3>1. Len(s) \in 1 .. Len(s2) - 1
      BY <1>1
    <3> QED
      BY <2>1, <3>1
  <2>2. CASE Holds(d, b, l)
    <3>1. PICK k \in 1 .. Len(s) - 1 : b = s[k].begin
      BY <2>2, <1>6 DEF StackKept
    <3>2. k \in 1 .. Len(s2) - 1
      BY <1>1
    <3> QED
      BY <3>1, <3>2
  <2> QED
    BY <2>1, <2>2, <1>4, <1>6
<1>7. Len(s2) \in Nat \ {0}
  BY <1>1
<1>8. s2[Len(s2)].last = FALSE
  OBVIOUS
<1> QED
  BY <1>2, <1>5, <1>6, <1>7, <1>8 DEF StackKept

\* What a node that ends at l holds.
LEMMA EndsHere ==
  ASSUME NEW d, WellFormed(d), NEW b \in Nodes(d), NEW l \in DOMAIN d, l + 1 \in DOMAIN d,
         d[l].t = "END_NODE", Holds(d, b, l), Depth(d, l) = Depth(d, b) + 1
  PROVE  /\ \A i \in DOMAIN d : In(d, b, i) <=> i \in b .. l
         /\ \A a \in Nodes(d) : Holds(d, a, l + 1) <=> Holds(d, a, l) /\ Holds(d, a, b)
         /\ \A a \in Nodes(d) : Holds(d, a, l) => In(d, a, b) \/ b < a
<1>1. b \in Nat \ {0} /\ l \in Nat \ {0} /\ b < l /\ d[b].t = "BEGIN_NODE"
  BY NodeFacts, Shape DEF Holds
<1>2. /\ Depth(d, b) \in Int /\ Depth(d, l) \in Int /\ Depth(d, l + 1) \in Int
      /\ Depth(d, l + 1) = Depth(d, b)
  BY <1>1, DepthStep
<1>3. ASSUME NEW i \in DOMAIN d PROVE In(d, b, i) <=> i \in b .. l
  <2>1. i \in Nat \ {0}
    BY Shape
  <2>2. i \in b .. l => In(d, b, i)
    BY <1>1, <2>1, HoldsWithin DEF In
  <2>3. ASSUME Holds(d, b, i) PROVE i \in b .. l
    <3>1. b < i
      BY <2>3 DEF Holds
    <3>2. ~ (i >= l + 1)
      <4> SUFFICES ASSUME i >= l + 1 PROVE FALSE
        OBVIOUS
      <4>1. l + 1 \in b + 1 .. i
        BY <1>1, <2>1
      <4>2. Depth(d, l + 1) > Depth(d, b)
        BY <4>1, <2>3 DEF Holds
      <4> QED
        BY <4>2, <1>2
    <3> QED
      BY <3>1, <3>2, <1>1, <2>1
  <2> QED
    BY <2>2, <2>3, <1>1 DEF In
<1>4. ASSUME NEW a \in Nodes(d)
      PROVE  /\ Holds(d, a, l + 1) <=> Holds(d, a, l) /\ Holds(d, a, b)
             /\ Holds(d, a, l) => In(d, a, b) \/ b < a
  <2>1. a \in Nat \ {0} /\ d[a].t = "BEGIN_NODE"
    BY NodeFacts
  <2>2. ASSUME Holds(d, a, l + 1) PROVE Holds(d, a, l) /\ Holds(d, a, b)
    <3>1. Holds(d, a, l)
      <4>1. a # l
        BY <2>1
      <4> QED
        BY <2>1, <2>2, <1>1, <4>1, HoldsUp
    <3>2. Depth(d, a) < Depth(d, b) /\ a < l + 1 /\ Depth(d, a) \in Int
      BY <2>1, <2>2, <1>1, <1>2, HoldsDeeper
    <3>3. ~ (a >= b)
      <4> SUFFICES ASSUME a >= b PROVE FALSE
        OBVIOUS
      <4>1. a = b \/ a \in b + 1 .. l
        BY <2>1, <3>2, <1>1
      <4>2. a \in b + 1 .. l => Depth(d, a) > Depth(d, b)
        BY DEF Holds
      <4> QED
        BY <4>1, <4>2, <3>2, <1>2
    <3>4. a < b /\ b <= l + 1
      BY <2>1, <1>1, <3>3
    <3> QED
      BY <3>1, <3>4, <2>1, <2>2, <1>1, HoldsWithin
  <2>3. ASSUME Holds(d, a, l), Holds(d, a, b) PROVE Holds(d, a, l + 1)
    <3>1. Depth(d, a) < Depth(d, b) /\ Depth(d, a) \in Int
      BY <2>1, <2>3, <1>1, HoldsDeeper
    <3> QED
      BY <2>1, <2>3, <3>1, <1>1, <1>2, HoldsUp
  <2>4. Holds(d, a, l) /\ a < b => Holds(d, a, b)
    BY <2>1, <1>1, HoldsWithin
  <2> QED
    BY <2>1, <2>2, <2>3, <2>4, <1>1 DEF In
<1> QED
  BY <1>3, <1>4
\* Out of a node, which may have been deleted.
LEMMA Closes ==
  ASSUME NEW d, WellFormed(d), NEW tr, TokensKept(d, tr),
         NEW s, NEW l, StackKept(d, tr, s, l), tr[l].t = "END_NODE",
         NEW tr2, \A b \in Nodes(d) :
                    /\ tr2[b].t = "BEGIN_NODE" => tr[b].t = "BEGIN_NODE"
                    /\ b < s[Len(s) - 1].begin /\ tr[b].t = "BEGIN_NODE" =>
                         tr2[b].t = "BEGIN_NODE",
         NEW s2, Len(s2) = Len(s) - 1, s2 = [k \in 1 .. Len(s2) |-> s2[k]],
         \A k \in 1 .. Len(s) - 1 : s2[k] = s[k]
  PROVE  StackKept(d, tr2, s2, l + 1)
<1> DEFINE top == s[Len(s) - 1].begin
<1>1. l \in DOMAIN d /\ Len(s) \in Nat \ {0} /\ Len(s) > 1 /\ d[l].t = "END_NODE"
  <2>1. l \in DOMAIN d /\ Len(s) \in Nat \ {0}
    BY DEF StackKept
  <2>2. Len(s) > 1 /\ d[l].t = "END_NODE"
    BY EndOfTop
  <2> QED
    BY <2>1, <2>2
<1>2. l + 1 \in DOMAIN d /\ l \in Nat \ {0}
  BY <1>1, NotLast
<1>3. Len(s) - 1 \in 1 .. Len(s) - 1
  BY <1>1
<1>4. top \in Nodes(d) /\ Holds(d, top, l) /\ top \in Nat \ {0} /\ top < l
  BY <1>3, LevelFacts
<1>5. Depth(d, l) = Depth(d, top) + 1
  BY EndOfTop
<1>6. \A a \in Nodes(d) : Holds(d, a, l + 1) <=> Holds(d, a, l) /\ Holds(d, a, top)
  <2> HIDE DEF top
  <2> QED
    BY <1>1, <1>2, <1>4, <1>5, EndsHere
<1>7. ASSUME NEW k \in 1 .. Len(s2) - 1
      PROVE  /\ s2[k].begin \in Nodes(d)
             /\ tr2[s2[k].begin].t = "BEGIN_NODE"
             /\ Holds(d, s2[k].begin, l + 1)
             /\ s2[k].last = TRUE
             /\ \A j \in 1 .. k - 1 : s2[j].begin < s2[k].begin
  <2>1. k \in 1 .. Len(s) - 1 /\ k \in 1 .. (Len(s) - 1) - 1
    BY <1>1
  <2>2. /\ s[k].begin \in Nodes(d)
        /\ tr[s[k].begin].t = "BEGIN_NODE"
        /\ Holds(d, s[k].begin, l)
        /\ s[k].last = TRUE
        /\ \A j \in 1 .. k - 1 : s[j].begin < s[k].begin
    BY <2>1 DEF StackKept
  <2>3. s[k].begin < top
    BY <1>3, <2>1 DEF StackKept
  <2>4. tr2[s[k].begin].t = "BEGIN_NODE"
    BY <2>2, <2>3
  <2>5. Holds(d, s[k].begin, l + 1)
    <3>1. Holds(d, s[k].begin, top)
      BY <2>1, <2>2, <2>3, <1>2, <1>4, LevelFacts, HoldsWithin
    <3> QED
      BY <3>1, <2>2, <1>6
  <2>6. \A j \in 1 .. k - 1 : j \in 1 .. Len(s) - 1
    BY <1>1
  <2> QED
    BY <2>1, <2>2, <2>4, <2>5, <2>6
<1>8. ASSUME NEW b \in Nodes(d), Holds(d, b, l + 1), tr2[b].t = "BEGIN_NODE"
      PROVE  \E k \in 1 .. Len(s2) - 1 : b = s2[k].begin
  <2>1. Holds(d, b, l) /\ Holds(d, b, top)
    BY <1>6, <1>8
  <2>2. PICK k \in 1 .. Len(s) - 1 : b = s[k].begin
    BY <2>1, <1>8 DEF StackKept
  <2>3. k # Len(s) - 1
    BY <2>1, <2>2, <1>4 DEF Holds
  <2>4. k \in 1 .. Len(s2) - 1
    BY <1>1, <2>3
  <2> QED
    BY <2>2, <2>4
<1>9. Len(s2) \in Nat \ {0} /\ s2[Len(s2)] = s[Len(s) - 1]
  BY <1>1, <1>3
<1>10. \A k \in 1 .. Len(s2) : s2[k] = [f \in LevelFields |-> s2[k][f]]
  <2> TAKE k \in 1 .. Len(s2)
  <2>1. k \in 1 .. Len(s) - 1 /\ k \in 1 .. Len(s)
    BY <1>1
  <2>2. s[k] = [f \in LevelFields |-> s[k][f]]
    BY <2>1 DEF StackKept
  <2> QED
    BY <2>1, <2>2
<1>11. s[Len(s) - 1].last \in BOOLEAN
  BY <1>3 DEF StackKept
<1>12. Len(s2) > 1 =>
         \E j \in s2[Len(s2) - 1].begin + 1 .. (l + 1) - 1 :
           d[j].t \in {"BEGIN_NODE", "END_NODE"}
  <2> SUFFICES ASSUME Len(s2) > 1
               PROVE  \E j \in s2[Len(s2) - 1].begin + 1 .. (l + 1) - 1 :
                        d[j].t \in {"BEGIN_NODE", "END_NODE"}
    OBVIOUS
  <2>1. Len(s2) - 1 \in 1 .. Len(s) - 1
    BY <1>1
  <2>2. s2[Len(s2) - 1].begin = s[Len(s2) - 1].begin /\ s[Len(s2) - 1].begin \in Nat
        /\ s[Len(s2) - 1].begin < l
    BY <2>1, LevelFacts
  <2>3. l \in s2[Len(s2) - 1].begin + 1 .. (l + 1) - 1
    BY <2>2, <1>2
  <2> QED
    BY <2>3, <1>1
<1> QED
  BY <1>2, <1>7, <1>8, <1>9, <1>10, <1>11, <1>12 DEF StackKept

-----------------------------------------------------------------------------
(* How the tree changes *)

\* tr2 is tr with the tokens from b to l overwritten.
Cut(tr, tr2, b, l) ==
  /\ DOMAIN tr2 = DOMAIN tr
  /\ tr2 = [i \in DOMAIN tr |-> tr2[i]]
  /\ \A i \in DOMAIN tr : tr2[i] = IF i \in b .. l THEN [t |-> "NOP"] ELSE tr[i]

\* Overwriting up to the next token overwrites up to this one.
LEMMA ErasedIs ==
  ASSUME NEW tr, NEW b, NEW l, NEW next, next - 1 = l
  PROVE  Cut(tr, Erased(tr, b, next), b, l)
<1>1. Erased(tr, b, next) = [i \in DOMAIN tr |-> IF i \in b .. l THEN [t |-> "NOP"] ELSE tr[i]]
  BY DEF Erased
<1> QED
  BY <1>1 DEF Cut

\* A node that ends is deleted.
LEMMA Deletes1 ==
  ASSUME NEW d, WellFormed(d), NEW tr, TokensKept(d, tr),
         NEW b \in Nodes(d), NEW l \in DOMAIN d,
         \A i \in DOMAIN d : In(d, b, i) <=> i \in b .. l,
         NEW new, Cut(tr, new, b, l)
  PROVE  TokensKept(d, new)
<1>1. DOMAIN tr = DOMAIN d
  BY DEF TokensKept
<1>2. \A i \in DOMAIN d : new[i] = IF i \in b .. l THEN [t |-> "NOP"] ELSE tr[i]
  BY <1>1 DEF Cut
<1>3. new = [i \in DOMAIN d |-> new[i]]
  BY <1>1 DEF Cut
<1>4. \A a \in Nodes(d) : a \in DOMAIN d
  BY NodeFacts
<1>5. ASSUME NEW i \in DOMAIN d
      PROVE  Dropped(d, new, i) <=> Dropped(d, tr, i) \/ i \in b .. l
  <2>1. ASSUME NEW a \in Nodes(d), In(d, a, i), new[a].t # "BEGIN_NODE", tr[a].t = "BEGIN_NODE"
        PROVE  i \in b .. l
    <3>1. a \in b .. l
      BY <2>1, <1>2, <1>4
    <3>2. In(d, b, a)
      BY <3>1, <1>4
    <3> QED
      BY <3>2, <2>1, InThrough
  <2>2. ASSUME NEW a \in Nodes(d), In(d, a, i), tr[a].t # "BEGIN_NODE"
        PROVE  new[a].t # "BEGIN_NODE"
    <3>1. [t |-> "NOP"].t # "BEGIN_NODE"
      OBVIOUS
    <3> QED
      BY <2>2, <3>1, <1>2, <1>4
  <2>3. ASSUME i \in b .. l PROVE In(d, b, i) /\ new[b].t # "BEGIN_NODE"
    <3>1. In(d, b, i) /\ b \in b .. l
      <4>1. In(d, b, b)
        BY DEF In
      <4> QED
        BY <2>3, <4>1, <1>4
    <3>2. new[b].t = "NOP"
      <4>1. new[b] = [t |-> "NOP"]
        BY <3>1, <1>2, <1>4
      <4> QED
        BY <4>1
    <3> QED
      BY <3>1, <3>2
  <2> QED
    BY <2>1, <2>2, <2>3 DEF Dropped
<1>6. ASSUME NEW i \in DOMAIN d
      PROVE  IF Dropped(d, new, i) THEN new[i].t = "NOP"
             ELSE /\ new[i].t = d[i].t
                  /\ d[i].t = "PROP" =>
                       /\ IsProp(new[i])
                       /\ new[i].name = d[i].name
                       /\ \/ d[i].name \in {"status", "interrupts-extended"}
                          \/ new[i] = d[i]
  <2>1. CASE i \in b .. l
    <3>1. new[i] = [t |-> "NOP"]
      BY <2>1, <1>2
    <3>2. new[i].t = "NOP"
      BY <3>1
    <3> QED
      BY <2>1, <3>2, <1>5
  <2>2. CASE i \notin b .. l
    <3>1. new[i] = tr[i]
      BY <2>2, <1>2
    <3> QED
      BY <2>2, <3>1, <1>5 DEF TokensKept
  <2> QED
    BY <2>1, <2>2
<1> QED
  BY <1>3, <1>6 DEF TokensKept

\* A value is changed that may be.
LEMMA Overwrites ==
  ASSUME NEW d, WellFormed(d), NEW tr, TokensKept(d, tr), NEW i \in DOMAIN d,
         d[i].t = "PROP", d[i].name \in {"status", "interrupts-extended"},
         NEW p, IsProp(p), p.name = d[i].name, ~ Dropped(d, tr, i)
  PROVE  /\ TokensKept(d, [tr EXCEPT ![i] = p])
         /\ \A j \in DOMAIN d : [tr EXCEPT ![i] = p][j].t = tr[j].t
<1> DEFINE new == [tr EXCEPT ![i] = p]
<1>1. DOMAIN tr = DOMAIN d
  BY DEF TokensKept
<1>2. \A j \in DOMAIN d : new[j] = IF j = i THEN p ELSE tr[j]
  BY <1>1
<1>3. new = [j \in DOMAIN d |-> new[j]]
  BY <1>1
<1> HIDE DEF new
<1>4. p.t = "PROP"
  BY DEF IsProp
<1>5. tr[i].t = "PROP"
  BY DEF TokensKept
<1>6. \A j \in DOMAIN d : new[j].t = tr[j].t
  BY <1>2, <1>4, <1>5
<1>7. \A j \in DOMAIN d : Dropped(d, new, j) <=> Dropped(d, tr, j)
  BY <1>6, NodeFacts DEF Dropped
<1>8. ASSUME NEW j \in DOMAIN d
      PROVE  IF Dropped(d, new, j) THEN new[j].t = "NOP"
             ELSE /\ new[j].t = d[j].t
                  /\ d[j].t = "PROP" =>
                       /\ IsProp(new[j])
                       /\ new[j].name = d[j].name
                       /\ \/ d[j].name \in {"status", "interrupts-extended"}
                          \/ new[j] = d[j]
  <2>1. CASE j = i
    BY <2>1, <1>2, <1>4, <1>7
  <2>2. CASE j # i
    BY <2>2, <1>2, <1>7 DEF TokensKept
  <2> QED
    BY <2>1, <2>2
<1> QED
  BY <1>3, <1>6, <1>8 DEF TokensKept, new

-----------------------------------------------------------------------------
(* How the counts follow the tokens *)

\* What is seen of a node grows only by its own properties.
LEMMA SeenNext ==
  ASSUME NEW d, WellFormed(d), NEW b \in Nodes(d), NEW n, NEW l \in DOMAIN d
  PROVE  /\ l \notin Named(d, b, n) => Seen(d, b, n, l + 1) = Seen(d, b, n, l)
         /\ l \in Named(d, b, n) => l \in Seen(d, b, n, l + 1)
<1>1. \A i \in Named(d, b, n) : i \in Nat
  BY Shape DEF Named
<1>2. l \in Nat
  BY Shape
<1>3. \A i \in Named(d, b, n) : i < l + 1 <=> i < l \/ i = l
  BY <1>1, <1>2
<1> QED
  BY <1>3 DEF Seen

\* What was stated before stays so.
LEMMA StatedLater ==
  ASSUME NEW d, WellFormed(d), NEW n, NEW up, NEW l \in Nat, NEW m \in Nat, l <= m,
         Stated(d, n, up, l)
  PROVE  Stated(d, n, up, m)
<1>1. PICK c \in Nodes(d) : c < l /\ Owner(d, c) = up /\ Has(d, c, n)
  BY DEF Stated
<1>2. c < m
  BY <1>1, NodeFacts
<1> QED
  BY <1>1, <1>2 DEF Stated

\* Nothing is seen of a node that is left when no property is.
SeenOn(d, s, n, l) ==
  \A k \in 1 .. Len(s) - 1 : Seen(d, s[k].begin, n, l + 1) = Seen(d, s[k].begin, n, l)

\* A token that is no property is seen by no node.
LEMMA CountOn ==
  ASSUME NEW d, WellFormed(d), NEW tr, TokensKept(d, tr),
         NEW s, NEW l, StackKept(d, tr, s, l), tr[l].t # "PROP",
         NEW n
  PROVE  SeenOn(d, s, n, l)
<1> SUFFICES ASSUME NEW k \in 1 .. Len(s) - 1
             PROVE  Seen(d, s[k].begin, n, l + 1) = Seen(d, s[k].begin, n, l)
  BY DEF SeenOn
<1>1. s[k].begin \in Nodes(d) /\ tr[s[k].begin].t = "BEGIN_NODE" /\ l \in DOMAIN d
  BY LevelFacts DEF StackKept
<1>2. l \notin Named(d, s[k].begin, n)
  <2> SUFFICES ASSUME l \in Named(d, s[k].begin, n) PROVE FALSE
    OBVIOUS
  <2>1. Own(d, s[k].begin, l) /\ d[l].t = "PROP"
    BY DEF Named
  <2>2. tr[l].t = d[l].t
    BY <1>1, <2>1, OwnNotDropped
  <2> QED
    BY <2>1, <2>2
<1> QED
  BY <1>1, <1>2, SeenNext

\* A NOP leaves a count.
LEMMA NopCount ==
  ASSUME NEW d, WellFormed(d), NEW tr, TokensKept(d, tr),
         NEW s, NEW l, StackKept(d, tr, s, l), tr[l].t = "NOP",
         NEW n, NEW f, NEW x, CountKept(d, s, l, n, f, x)
  PROVE  CountKept(d, s, l + 1, n, f, x)
<1>1. l \in Nat /\ l + 1 \in Nat /\ l <= l + 1
  BY Shape DEF StackKept
<1>2. \A k \in 1 .. Len(s) - 1 :
        Seen(d, s[k].begin, n, l + 1) = Seen(d, s[k].begin, n, l)
  <2>1. tr[l].t # "PROP"
    OBVIOUS
  <2>2. SeenOn(d, s, n, l)
    BY <2>1, CountOn
  <2> QED
    BY <2>2 DEF SeenOn
<1>3. Stated(d, n, Above(s, Len(s)), l) => Stated(d, n, Above(s, Len(s)), l + 1)
  BY <1>1, StatedLater
<1> QED
  BY <1>2, <1>3 DEF CountKept

\* A NOP leaves both counts.
LEMMA NopCounts ==
  ASSUME NEW d, WellFormed(d), NEW tr, TokensKept(d, tr),
         NEW s, NEW l, StackKept(d, tr, s, l), tr[l].t = "NOP", CountsKept(d, s, l)
  PROVE  CountsKept(d, s, l + 1)
BY NopCount DEF CountsKept

\* A property is seen of the innermost node, which takes a count from it.
LEMMA PropCount ==
  ASSUME NEW d, WellFormed(d), NEW tr, TokensKept(d, tr),
         NEW s, NEW l, StackKept(d, tr, s, l), tr[l].t = "PROP",
         NEW n, NEW f, NEW x, CountKept(d, s, l, n, f, x),
         NEW s2, Len(s2) = Len(s),
         \A k \in 1 .. Len(s) : s2[k].begin = s[k].begin,
         \A k \in 1 .. Len(s) :
           s2[k][f] = IF k = Len(s) - 1 /\ d[l].name = n THEN d[l].value[1] ELSE s[k][f]
  PROVE  CountKept(d, s2, l + 1, n, f, x)
<1>1. /\ l \in Nat \ {0} /\ l + 1 \in Nat /\ l <= l + 1 /\ l \in DOMAIN d
      /\ Len(s) \in Nat \ {0}
  BY Shape DEF StackKept
<1>2. Len(s) > 1 /\ d[l].t = "PROP" /\ Own(d, s[Len(s) - 1].begin, l)
  BY PropOfTop
<1>3. ASSUME NEW k \in 1 .. Len(s), k = 1 \/ k - 1 \in 1 .. Len(s) - 1
      PROVE  Above(s2, k) = Above(s, k)
  <2>1. k # 1 => k - 1 \in 1 .. Len(s)
    BY <1>3
  <2> QED
    BY <2>1 DEF Above
<1>4. ASSUME NEW k \in 1 .. Len(s) - 1
      PROVE  IF Seen(d, s2[k].begin, n, l + 1) # {} THEN s2[k][f] = Value(d, s2[k].begin, n)[1]
             ELSE s2[k][f] = x \/ Stated(d, n, Above(s2, k), s2[k].begin)
  <2> DEFINE b == s[k].begin
  <2>1. b \in Nodes(d) /\ k \in 1 .. Len(s) /\ s2[k].begin = b /\ b \in Nat \ {0}
    <3>1. k \in 1 .. Len(s)
      BY <1>1
    <3> QED
      BY <3>1, LevelFacts
  <2>2. CASE k = Len(s) - 1 /\ d[l].name = n
    <3>1. l \in Named(d, b, n)
      BY <1>1, <1>2, <2>2 DEF Named
    <3>2. Value(d, b, n) = d[l].value
      BY <2>1, <3>1, NamedIs
    <3>3. l \in Seen(d, b, n, l + 1)
      BY <1>1, <3>1 DEF Seen
    <3> QED
      BY <2>1, <2>2, <3>2, <3>3
  <2>3. CASE ~ (k = Len(s) - 1 /\ d[l].name = n)
    <3>1. l \notin Named(d, b, n)
      <4> SUFFICES ASSUME l \in Named(d, b, n) PROVE FALSE
        OBVIOUS
      <4>1. Own(d, b, l) /\ d[l].name = n
        BY DEF Named
      <4>2. Len(s) - 1 \in 1 .. Len(s) - 1 /\ k \in 1 .. (Len(s) - 1) - 1
        BY <1>1, <1>2, <2>3, <4>1
      <4> DEFINE top == s[Len(s) - 1].begin
      <4>3. top \in Nodes(d) /\ top \in Nat \ {0} /\ top < l /\ b < top
        <5>1. b < top
          BY <4>2 DEF StackKept
        <5> QED
          BY <4>2, <5>1, LevelFacts
      <4>4. d[top].t = "BEGIN_NODE" /\ top \in b + 1 .. l
        BY <4>3, <2>1, <1>1, NodeFacts
      <4> QED
        BY <4>1, <4>4 DEF Own
    <3>2. Seen(d, b, n, l + 1) = Seen(d, b, n, l)
      BY <1>1, <2>1, <3>1, SeenNext
    <3>3. s2[k][f] = s[k][f]
      BY <2>1, <2>3
    <3>4. Above(s2, k) = Above(s, k)
      <4>1. k = 1 \/ k - 1 \in 1 .. Len(s) - 1
        BY <1>1
      <4> QED
        BY <4>1, <2>1, <1>3
    <3> QED
      BY <2>1, <3>2, <3>3, <3>4 DEF CountKept
  <2> QED
    BY <2>2, <2>3
<1>5. s2[Len(s)][f] = x \/ Stated(d, n, Above(s2, Len(s)), l + 1)
  <2>1. Len(s) \in 1 .. Len(s) /\ Len(s) # Len(s) - 1 /\ Len(s) - 1 \in 1 .. Len(s) - 1
    BY <1>1, <1>2
  <2>2. s2[Len(s)][f] = s[Len(s)][f] /\ Above(s2, Len(s)) = Above(s, Len(s))
    BY <2>1, <1>3
  <2>3. s[Len(s)][f] = x \/ Stated(d, n, Above(s, Len(s)), l)
    BY DEF CountKept
  <2> QED
    BY <2>2, <2>3, <1>1, StatedLater
<1> QED
  BY <1>4, <1>5 DEF CountKept

\* A property changes the counts as it says.
LEMMA PropCounts ==
  ASSUME NEW d, WellFormed(d), NEW tr, TokensKept(d, tr),
         NEW s, NEW l, StackKept(d, tr, s, l), tr[l].t = "PROP", CountsKept(d, s, l),
         NEW s2, Len(s2) = Len(s),
         \A k \in 1 .. Len(s) : s2[k].begin = s[k].begin,
         \A k \in 1 .. Len(s) :
           /\ s2[k].address_cells = IF k = Len(s) - 1 /\ d[l].name = "#address-cells"
                                    THEN d[l].value[1] ELSE s[k].address_cells
           /\ s2[k].size_cells = IF k = Len(s) - 1 /\ d[l].name = "#size-cells"
                                 THEN d[l].value[1] ELSE s[k].size_cells
  PROVE  CountsKept(d, s2, l + 1)
<1>1. CountKept(d, s2, l + 1, "#address-cells", "address_cells", 2)
  <2>1. CountKept(d, s, l, "#address-cells", "address_cells", 2)
    BY DEF CountsKept
  <2>2. \A k \in 1 .. Len(s) :
          s2[k]["address_cells"] = IF k = Len(s) - 1 /\ d[l].name = "#address-cells"
                                   THEN d[l].value[1] ELSE s[k]["address_cells"]
    OBVIOUS
  <2> QED
    BY <2>1, <2>2, PropCount
<1>2. CountKept(d, s2, l + 1, "#size-cells", "size_cells", 1)
  <2>1. CountKept(d, s, l, "#size-cells", "size_cells", 1)
    BY DEF CountsKept
  <2>2. \A k \in 1 .. Len(s) :
          s2[k]["size_cells"] = IF k = Len(s) - 1 /\ d[l].name = "#size-cells"
                                THEN d[l].value[1] ELSE s[k]["size_cells"]
    OBVIOUS
  <2> QED
    BY <2>1, <2>2, PropCount
<1>3. Len(s) \in Nat \ {0}
  BY DEF StackKept
<1>4. \A k \in 1 .. Len(s) - 1 : Owner(d, s2[k].begin) = Above(s2, k)
  <2> TAKE k \in 1 .. Len(s) - 1
  <2>1. k \in 1 .. Len(s) /\ (k # 1 => k - 1 \in 1 .. Len(s))
    BY <1>3
  <2>2. Owner(d, s[k].begin) = Above(s, k)
    BY DEF CountsKept
  <2> QED
    BY <2>1, <2>2 DEF Above
<1> QED
  BY <1>1, <1>2, <1>4 DEF CountsKept

\* A child starts from the defaults, and takes what its siblings left.
LEMMA BeginCount ==
  ASSUME NEW d, WellFormed(d), NEW tr, TokensKept(d, tr),
         NEW s, NEW l, StackKept(d, tr, s, l), tr[l].t = "BEGIN_NODE",
         NEW n, NEW f, NEW x, CountKept(d, s, l, n, f, x),
         NEW s2, Len(s2) = Len(s) + 1,
         \A k \in 1 .. Len(s) - 1 : s2[k].begin = s[k].begin,
         s2[Len(s)].begin = l,
         \A k \in 1 .. Len(s) : s2[k][f] = s[k][f],
         s2[Len(s) + 1][f] = x
  PROVE  CountKept(d, s2, l + 1, n, f, x)
<1>1. l \in Nat \ {0} /\ l \in DOMAIN d /\ Len(s) \in Nat \ {0}
  BY Shape DEF StackKept
<1>2. d[l].t = "BEGIN_NODE" /\ l \in Nodes(d)
  BY <1>1, TokenIs DEF Nodes
<1>3. \A k \in 1 .. Len(s) : Above(s2, k) = Above(s, k)
  <2> TAKE k \in 1 .. Len(s)
  <2>1. k # 1 => k - 1 \in 1 .. Len(s) - 1
    BY <1>1
  <2> QED
    BY <2>1 DEF Above
<1>4. ASSUME NEW k \in 1 .. Len(s)
      PROVE  IF Seen(d, s2[k].begin, n, l + 1) # {} THEN s2[k][f] = Value(d, s2[k].begin, n)[1]
             ELSE s2[k][f] = x \/ Stated(d, n, Above(s2, k), s2[k].begin)
  <2>1. CASE k = Len(s)
    <3>1. Seen(d, l, n, l + 1) = {}
      <4>1. \A i \in Named(d, l, n) : l < i /\ i \in Nat
        BY Shape DEF Named, Own
      <4> QED
        BY <4>1, <1>1 DEF Seen
    <3>2. s[k][f] = x \/ Stated(d, n, Above(s, k), l)
      BY <2>1 DEF CountKept
    <3> QED
      BY <2>1, <3>1, <3>2, <1>3
  <2>2. CASE k # Len(s)
    <3>1. k \in 1 .. Len(s) - 1
      BY <1>1, <2>2
    <3>2. Seen(d, s[k].begin, n, l + 1) = Seen(d, s[k].begin, n, l)
      <4>1. tr[l].t # "PROP"
        OBVIOUS
      <4>2. SeenOn(d, s, n, l)
        BY <4>1, CountOn
      <4> QED
        BY <3>1, <4>2 DEF SeenOn
    <3> QED
      BY <3>1, <3>2, <1>3 DEF CountKept
  <2> QED
    BY <2>1, <2>2
<1>5. Len(s2) - 1 = Len(s) /\ Len(s2) = Len(s) + 1
  BY <1>1
<1>6. s2[Len(s2)][f] = x
  BY <1>5
<1> QED
  BY <1>4, <1>5, <1>6 DEF CountKept

\* A child has the defaults, and takes over what its siblings left.
LEMMA BeginCounts ==
  ASSUME NEW d, WellFormed(d), NEW tr, TokensKept(d, tr),
         NEW s, NEW l, StackKept(d, tr, s, l), tr[l].t = "BEGIN_NODE", CountsKept(d, s, l),
         NEW s2, Len(s2) = Len(s) + 1,
         \A k \in 1 .. Len(s) - 1 : s2[k].begin = s[k].begin,
         s2[Len(s)].begin = l,
         \A k \in 1 .. Len(s) : /\ s2[k].address_cells = s[k].address_cells
                                /\ s2[k].size_cells = s[k].size_cells,
         s2[Len(s) + 1].address_cells = 2, s2[Len(s) + 1].size_cells = 1
  PROVE  CountsKept(d, s2, l + 1)
<1>1. CountKept(d, s2, l + 1, "#address-cells", "address_cells", 2)
  <2>1. CountKept(d, s, l, "#address-cells", "address_cells", 2)
    BY DEF CountsKept
  <2>2. /\ \A k \in 1 .. Len(s) : s2[k]["address_cells"] = s[k]["address_cells"]
        /\ s2[Len(s) + 1]["address_cells"] = 2
    OBVIOUS
  <2> QED
    BY <2>1, <2>2, BeginCount
<1>2. CountKept(d, s2, l + 1, "#size-cells", "size_cells", 1)
  <2>1. CountKept(d, s, l, "#size-cells", "size_cells", 1)
    BY DEF CountsKept
  <2>2. /\ \A k \in 1 .. Len(s) : s2[k]["size_cells"] = s[k]["size_cells"]
        /\ s2[Len(s) + 1]["size_cells"] = 1
    OBVIOUS
  <2> QED
    BY <2>1, <2>2, BeginCount
<1>3. Len(s) \in Nat \ {0} /\ l \in DOMAIN d
  BY DEF StackKept
<1>4. ~ Dropped(d, tr, l)
  BY <1>3, TokenIs
<1>5. ASSUME NEW k \in 1 .. Len(s) PROVE Owner(d, s2[k].begin) = Above(s2, k)
  <2>1. k # 1 => k - 1 \in 1 .. Len(s) - 1
    BY <1>3
  <2>2. Above(s2, k) = Above(s, k)
    BY <2>1 DEF Above
  <2>3. CASE k = Len(s)
    BY <2>2, <2>3, <1>4, TopOwns
  <2>4. CASE k # Len(s)
    <3>1. k \in 1 .. Len(s) - 1
      BY <1>3, <2>4
    <3> QED
      BY <3>1, <2>2 DEF CountsKept
  <2> QED
    BY <2>3, <2>4
<1> QED
  BY <1>1, <1>2, <1>5 DEF CountsKept

\* What a child has stated its siblings may find.
LEMMA EndCount ==
  ASSUME NEW d, WellFormed(d), NEW tr, TokensKept(d, tr),
         NEW s, NEW l, StackKept(d, tr, s, l), tr[l].t = "END_NODE",
         \A k \in 1 .. Len(s) - 1 : Owner(d, s[k].begin) = Above(s, k),
         NEW n, NEW f, NEW x, CountKept(d, s, l, n, f, x),
         NEW s2, Len(s2) = Len(s) - 1, \A k \in 1 .. Len(s) - 1 : s2[k] = s[k]
  PROVE  CountKept(d, s2, l + 1, n, f, x)
<1>1. l \in Nat \ {0} /\ l + 1 \in Nat /\ l \in DOMAIN d /\ Len(s) \in Nat \ {0}
  BY Shape DEF StackKept
<1>2. Len(s) > 1
  BY EndOfTop
<1>3. \A k \in 1 .. Len(s) - 1 : Above(s2, k) = Above(s, k)
  <2> TAKE k \in 1 .. Len(s) - 1
  <2>1. k # 1 => k - 1 \in 1 .. Len(s) - 1
    BY <1>1
  <2> QED
    BY <2>1 DEF Above
<1>4. \A k \in 1 .. Len(s) - 1 :
        Seen(d, s[k].begin, n, l + 1) = Seen(d, s[k].begin, n, l)
  <2>1. tr[l].t # "PROP"
    OBVIOUS
  <2>2. SeenOn(d, s, n, l)
    BY <2>1, CountOn
  <2> QED
    BY <2>2 DEF SeenOn
<1>5. ASSUME NEW k \in 1 .. (Len(s) - 1) - 1
      PROVE  IF Seen(d, s2[k].begin, n, l + 1) # {} THEN s2[k][f] = Value(d, s2[k].begin, n)[1]
             ELSE s2[k][f] = x \/ Stated(d, n, Above(s2, k), s2[k].begin)
  <2>1. k \in 1 .. Len(s) - 1
    BY <1>1
  <2> QED
    BY <2>1, <1>3, <1>4 DEF CountKept
<1> DEFINE m == Len(s) - 1
           b == s[Len(s) - 1].begin
<1>6. m \in 1 .. Len(s) - 1
  BY <1>1, <1>2
<1>7. b \in Nodes(d) /\ b \in Nat \ {0} /\ b < l /\ Owner(d, b) = Above(s, m)
  BY <1>6, LevelFacts
<1>8. s2[m][f] = x \/ Stated(d, n, Above(s2, m), l + 1)
  <2>1. CASE Seen(d, b, n, l) # {}
    <3>1. Has(d, b, n)
      BY <2>1 DEF Seen, Has
    <3>2. b < l + 1
      BY <1>1, <1>7
    <3> QED
      BY <3>1, <3>2, <1>3, <1>6, <1>7 DEF Stated
  <2>2. CASE Seen(d, b, n, l) = {}
    <3>1. s[m][f] = x \/ Stated(d, n, Above(s, m), b)
      BY <2>2, <1>6 DEF CountKept
    <3>2. b <= l + 1
      BY <1>1, <1>7
    <3>3. Stated(d, n, Above(s, m), b) => Stated(d, n, Above(s, m), l + 1)
      BY <3>2, <1>1, <1>7, StatedLater
    <3> QED
      BY <3>1, <3>3, <1>3, <1>6
  <2> QED
    BY <2>1, <2>2
<1> QED
  BY <1>5, <1>8 DEF CountKept

\* A node that ends leaves its counts to its siblings.
LEMMA EndCounts ==
  ASSUME NEW d, WellFormed(d), NEW tr, TokensKept(d, tr),
         NEW s, NEW l, StackKept(d, tr, s, l), tr[l].t = "END_NODE", CountsKept(d, s, l),
         NEW s2, Len(s2) = Len(s) - 1, \A k \in 1 .. Len(s) - 1 : s2[k] = s[k]
  PROVE  CountsKept(d, s2, l + 1)
<1>1. Len(s) \in Nat \ {0}
  BY DEF StackKept
<1>2. \A k \in 1 .. Len(s) - 1 : Owner(d, s[k].begin) = Above(s, k)
  BY DEF CountsKept
<1>3. \A k \in 1 .. Len(s2) - 1 : Owner(d, s2[k].begin) = Above(s2, k)
  <2> TAKE k \in 1 .. Len(s2) - 1
  <2>1. k \in 1 .. Len(s) - 1 /\ (k # 1 => k - 1 \in 1 .. Len(s) - 1)
    BY <1>1
  <2> QED
    BY <2>1, <1>2 DEF Above
<1>4. /\ CountKept(d, s2, l + 1, "#address-cells", "address_cells", 2)
      /\ CountKept(d, s2, l + 1, "#size-cells", "size_cells", 1)
  BY <1>2, EndCount DEF CountsKept
<1> QED
  BY <1>3, <1>4 DEF CountsKept

-----------------------------------------------------------------------------
(* What the callbacks leave alone *)

PassNames == {"uart", "uart16550", "uart_litex", "htif", "finisher", "mem",
              "harts", "clint", "plic", "chosen", "filter_harts",
              "filter_plic", "filter_clint", "filter_debug"}

\* Which pass is which filter.
LEMMA PassIs ==
  ASSUME pass \in 1 .. 14
  PROVE  /\ Passes[pass] \in PassNames
         /\ Passes[pass] = "filter_harts" <=> pass = 11
         /\ Passes[pass] = "filter_plic" <=> pass = 12
         /\ Passes[pass] \in Compats <=> pass \in {13, 14}
BY DEF Passes, PassNames, Compats

CallFields == {"scan", "found", "tree", "failed"}
IsCall(c) == DOMAIN c = CallFields

FoundFields == {"dev", "mem_size", "hart_phandles", "hart_mask", "mtime", "ipi", "plic",
                "plic_m", "plic_s", "kernel", "disabled_hart_mask"}

\* The disabled harts stay those of c0.
FoundLeft(c0, c) ==
  DOMAIN c0.found = FoundFields =>
    /\ DOMAIN c.found = FoundFields
    /\ c.found.disabled_hart_mask = c0.found.disabled_hart_mask

\* c is what is left of c0, and the tree and the disabled harts are.
Leaves(c0, c) == IsCall(c) /\ c.tree = c0.tree /\ FoundLeft(c0, c)

\* An assertion that fails changes nothing else.
LEMMA FailLeaves ==
  ASSUME NEW c, IsCall(c)
  PROVE  Leaves(c, Fail(c)) /\ Fail(c).scan = c.scan
BY DEF IsCall, CallFields, Fail, FoundLeft, Leaves

\* The scans for a device at an address keep to their locals.
LEMMA DevicePropLeaves ==
  ASSUME NEW c, IsCall(c), NEW node, NEW prop, NEW strs
  PROVE  Leaves(c, DeviceProp(c, node, prop, strs))
BY DEF IsCall, CallFields, DeviceProp, FoundLeft, Leaves

\* Opening a node changes the locals only.
LEMMA OpenLeaves ==
  ASSUME NEW c, IsCall(c), Passes[pass] \in PassNames, NEW node, NEW name
  PROVE  Leaves(c, Open(c, node, name))
BY DEF IsCall, CallFields, FoundLeft, Leaves, PassNames, Queries, Compats, Open, uart_open, mem_open, hart_open,
       clint_open, chosen_open, hart_filter_open, compat_open

\* close keeps to the locals.
LEMMA CloseLeaves ==
  ASSUME NEW c, IsCall(c), Passes[pass] \in PassNames, NEW node
  PROVE  Leaves(c, Close(c, node))
<1>1. Leaves(c, hart_close(c, node))
  BY DEF IsCall, CallFields, FoundLeft, Leaves, hart_close
<1>2. Leaves(c, chosen_close(c, node))
  BY DEF IsCall, CallFields, FoundLeft, Leaves, chosen_close
<1>3. Leaves(c, compat_close(c, node))
  BY DEF IsCall, CallFields, FoundLeft, Leaves, compat_close
<1>4. Leaves(c, c)
  BY DEF FoundLeft, Leaves
<1> QED
  BY <1>1, <1>2, <1>3, <1>4 DEF Close

\* prop keeps to the locals.
LEMMA PropLeaves ==
  ASSUME NEW c, IsCall(c), Passes[pass] \in PassNames, NEW node, NEW prop
  PROVE  Leaves(c, HasProp(c, node, prop))
<1>1. /\ Leaves(c, uart_prop(c, node, prop))
      /\ Leaves(c, uart_litex_prop(c, node, prop))
      /\ Leaves(c, finisher_prop(c, node, prop))
  BY DevicePropLeaves DEF uart_prop, uart_litex_prop, finisher_prop
<1>2. Leaves(c, uart16550_prop(c, node, prop))
  <2>1. Leaves(c, [c EXCEPT !.scan.reg_offset = prop.value[1]])
    BY DEF IsCall, CallFields, FoundLeft, Leaves
  <2> QED
    BY <2>1, DevicePropLeaves DEF uart16550_prop
<1>3. Leaves(c, htif_prop(c, prop))
  BY DEF IsCall, CallFields, FoundLeft, Leaves, htif_prop
<1>4. Leaves(c, mem_prop(c, node, prop))
  BY DEF IsCall, CallFields, FoundLeft, Leaves, mem_prop
<1>5. Leaves(c, hart_prop(c, node, prop))
  <2>1. Leaves(c, Fail(c))
    BY FailLeaves
  <2> QED
    BY <2>1 DEF IsCall, CallFields, FoundLeft, Leaves, hart_prop
<1>6. Leaves(c, clint_prop(c, node, prop))
  <2>1. Leaves(c, [c EXCEPT !.scan.int_value = lex])
    BY DEF IsCall, CallFields, FoundLeft, Leaves
  <2> QED
    BY <2>1, DevicePropLeaves DEF clint_prop
<1>7. Leaves(c, plic_prop(c, node, prop))
  <2>1. /\ Leaves(c, [c EXCEPT !.scan.int_value = lex])
        /\ Leaves(c, [c EXCEPT !.scan.ndev = prop.value[1]])
    BY DEF IsCall, CallFields, FoundLeft, Leaves
  <2>2. Leaves(c, DeviceProp(c, node, prop, {"riscv,plic0"}))
    BY DevicePropLeaves
  <2> QED
    BY <2>1, <2>2 DEF plic_prop
<1>8. Leaves(c, chosen_prop(c, node, prop))
  BY DEF IsCall, CallFields, FoundLeft, Leaves, chosen_prop
<1>9. Leaves(c, hart_filter_prop(c, node, prop))
  BY DEF IsCall, CallFields, FoundLeft, Leaves, hart_filter_prop
<1>10. Leaves(c, compat_prop(c, node, prop))
  BY DEF IsCall, CallFields, FoundLeft, Leaves, compat_prop
<1> QED
  BY <1>1, <1>2, <1>3, <1>4, <1>5, <1>6, <1>7, <1>8, <1>9, <1>10
     DEF HasProp, PassNames, Compats

\* Of the done callbacks only two write to the tree.
LEMMA DoneLeaves ==
  ASSUME NEW c, IsCall(c), Passes[pass] \in PassNames, NEW node,
         Passes[pass] \notin {"filter_harts", "filter_plic"}
  PROVE  Leaves(c, Done(c, node))
<1>1. Leaves(c, Fail(c)) /\ Leaves(c, c)
  BY FailLeaves DEF IsCall, CallFields, FoundLeft, FoundFields, Leaves
<1>2. Leaves(c, uart16550_done(c, node))
  BY <1>1 DEF IsCall, CallFields, FoundLeft, FoundFields, Leaves, uart16550_done
<1>3. Leaves(c, uart_done(Passes[pass], c, node))
  BY <1>1 DEF IsCall, CallFields, FoundLeft, FoundFields, Leaves, uart_done
<1>4. Leaves(c, htif_done(c, node))
  BY <1>1 DEF IsCall, CallFields, FoundLeft, FoundFields, Leaves, htif_done
<1>5. Leaves(c, mem_done(c, node))
  BY <1>1 DEF IsCall, CallFields, FoundLeft, FoundFields, Leaves, mem_done
<1>6. Leaves(c, hart_done(c, node))
  BY <1>1 DEF IsCall, CallFields, FoundLeft, FoundFields, Leaves, hart_done
<1>7. Leaves(c, clint_done(c, node))
  BY <1>1 DEF IsCall, CallFields, FoundLeft, FoundFields, Leaves, clint_done
<1>8. Leaves(c, plic_done(c, node))
  BY <1>1 DEF IsCall, CallFields, FoundLeft, FoundFields, Leaves, plic_done
<1> QED
  BY <1>1, <1>2, <1>3, <1>4, <1>5, <1>6, <1>7, <1>8 DEF Done, PassNames, Queries

\* The end of a scan keeps to the locals and what was found.
LEMMA FinishLeaves ==
  ASSUME NEW c, IsCall(c)
  PROVE  Leaves(c, Finish(c))
<1>1. Leaves(c, Fail(c)) /\ Leaves(c, c)
  BY FailLeaves DEF IsCall, CallFields, FoundLeft, FoundFields, Leaves
<1> QED
  BY <1>1 DEF IsCall, CallFields, FoundLeft, FoundFields, Leaves, Finish

-----------------------------------------------------------------------------
(* How the actions change the levels *)

\* A function on 1 .. n is a sequence of length n.
LEMMA SeqLen ==
  ASSUME NEW n \in Nat, NEW s, s = [k \in 1 .. n |-> s[k]]
  PROVE  Len(s) = n /\ s \in Seq({s[k] : k \in 1 .. n})
<1> DEFINE S == {s[k] : k \in 1 .. n}
<1>1. s \in [1 .. n -> S]
  OBVIOUS
<1>2. s \in Seq(S)
  BY <1>1, SeqDef
<1>3. Len(s) \in Nat /\ DOMAIN s = 1 .. Len(s)
  BY <1>2, LenProperties
<1>4. 1 .. n = 1 .. Len(s)
  BY <1>1, <1>3
<1>5. Len(s) = n
  BY <1>3, <1>4
<1> QED
  BY <1>2, <1>5

IsStack(s) ==
  /\ Len(s) \in Nat \ {0}
  /\ s = [k \in 1 .. Len(s) |-> s[k]]
  /\ \A k \in 1 .. Len(s) : s[k] = [f \in LevelFields |-> s[k][f]]

\* Field f of level k of s becomes v in s2.
LevelIs(s, s2, k, f, v) ==
  /\ IsStack(s2)
  /\ Len(s2) = Len(s)
  /\ \A j \in 1 .. Len(s) : \A g \in LevelFields :
       s2[j][g] = IF j = k /\ g = f THEN v ELSE s[j][g]

\* A field of a level is set, and nothing else.
LEMMA LevelSet ==
  ASSUME NEW s, IsStack(s), NEW k \in 1 .. Len(s), NEW f \in LevelFields, NEW v
  PROVE  LevelIs(s, [s EXCEPT ![k] = [s[k] EXCEPT ![f] = v]], k, f, v)
<1> DEFINE s2 == [s EXCEPT ![k] = [s[k] EXCEPT ![f] = v]]
<1>1. DOMAIN s = 1 .. Len(s) /\ s2 = [j \in 1 .. Len(s) |-> s2[j]]
  BY DEF IsStack
<1>2. Len(s2) = Len(s)
  BY <1>1, SeqLen DEF IsStack
<1>3. \A j \in 1 .. Len(s) : s2[j] = IF j = k THEN [s[k] EXCEPT ![f] = v] ELSE s[j]
  BY <1>1
<1>4. DOMAIN s[k] = LevelFields
  BY DEF IsStack
<1>5. /\ [s[k] EXCEPT ![f] = v] = [g \in LevelFields |-> [s[k] EXCEPT ![f] = v][g]]
      /\ \A g \in LevelFields : [s[k] EXCEPT ![f] = v][g] = IF g = f THEN v ELSE s[k][g]
  BY <1>4
<1>6. \A j \in 1 .. Len(s) : s2[j] = [g \in LevelFields |-> s2[j][g]]
  BY <1>3, <1>5 DEF IsStack
<1> HIDE DEF s2
<1>7. IsStack(s2)
  BY <1>1, <1>2, <1>6 DEF IsStack
<1>8. \A j \in 1 .. Len(s) : \A g \in LevelFields :
        s2[j][g] = IF j = k /\ g = f THEN v ELSE s[j][g]
  BY <1>3, <1>5
<1> QED
  BY <1>2, <1>7, <1>8 DEF LevelIs, s2

\* A level is added on top.
LEMMA LevelPush ==
  ASSUME NEW s, IsStack(s)
  PROVE  /\ IsStack(Append(s, NewLevel))
         /\ Len(Append(s, NewLevel)) = Len(s) + 1
         /\ \A k \in 1 .. Len(s) : Append(s, NewLevel)[k] = s[k]
         /\ Append(s, NewLevel)[Len(s) + 1] = NewLevel
<1> DEFINE s2 == Append(s, NewLevel)
           S == {s[k] : k \in 1 .. Len(s)} \cup {NewLevel}
<1>1. s \in Seq(S)
  <2>1. s \in [1 .. Len(s) -> S] /\ Len(s) \in Nat
    BY DEF IsStack
  <2> QED
    BY <2>1, SeqDef
<1>2. /\ s2 \in Seq(S)
      /\ Len(s2) = Len(s) + 1
      /\ \A k \in 1 .. Len(s) : s2[k] = s[k]
      /\ s2[Len(s) + 1] = NewLevel
  <2>1. NewLevel \in S
    OBVIOUS
  <2> HIDE DEF S
  <2> QED
    BY <1>1, <2>1, AppendProperties
<1> HIDE DEF s2, S
<1>3. s2 = [k \in 1 .. Len(s2) |-> s2[k]] /\ Len(s2) \in Nat
  BY <1>2, LenProperties
<1>4. \A k \in 1 .. Len(s2) : k \in 1 .. Len(s) \/ k = Len(s) + 1
  BY <1>2 DEF IsStack
<1>5. NewLevel = [f \in LevelFields |-> NewLevel[f]]
  BY DEF NewLevel, LevelFields
<1>6. \A k \in 1 .. Len(s2) : s2[k] = [f \in LevelFields |-> s2[k][f]]
  BY <1>2, <1>4, <1>5 DEF IsStack
<1>7. Len(s2) # 0
  BY <1>2 DEF IsStack
<1>8. IsStack(s2)
  BY <1>3, <1>6, <1>7 DEF IsStack
<1> QED
  BY <1>2, <1>8 DEF s2

\* The level on top is removed.
LEMMA LevelPop ==
  ASSUME NEW s, IsStack(s), Len(s) > 1
  PROVE  /\ IsStack(SubSeq(s, 1, Len(s) - 1))
         /\ Len(SubSeq(s, 1, Len(s) - 1)) = Len(s) - 1
         /\ \A k \in 1 .. Len(s) - 1 : SubSeq(s, 1, Len(s) - 1)[k] = s[k]
<1> DEFINE n == Len(s) - 1
           s2 == SubSeq(s, 1, n)
<1>1. n \in Nat \ {0} /\ n \in 1 .. Len(s)
  BY DEF IsStack
<1>2. s2 = [k \in 1 .. n |-> s[k]]
  <2>1. SubSeq(s, 1, n) = [k \in 1 .. (1 + n - 1) |-> s[1 + k - 1]]
    BY DEF IsStack
  <2> QED
    BY <2>1, <1>1
<1> HIDE DEF s2
<1>3. s2 = [k \in 1 .. n |-> s2[k]] /\ \A k \in 1 .. n : s2[k] = s[k]
  BY <1>2
<1>4. Len(s2) = n
  BY <1>1, <1>3, SeqLen
<1>5. \A k \in 1 .. n : s2[k] = [f \in LevelFields |-> s2[k][f]]
  <2>1. \A k \in 1 .. n : k \in 1 .. Len(s)
    BY <1>1
  <2> QED
    BY <2>1, <1>3 DEF IsStack
<1> QED
  BY <1>1, <1>3, <1>4, <1>5 DEF IsStack, s2

-----------------------------------------------------------------------------
(* What the callbacks keep *)

\* What a callback returns is fit to go on with.
CallKept(c) ==
  /\ IsCall(c)
  /\ TokensKept(dtb, c.tree)
  /\ \A b \in Nodes(dtb) : c.tree[b].t = "BEGIN_NODE" <=> tree[b].t = "BEGIN_NODE"
  /\ pass \notin {11, 12} => c.tree = tree
  /\ PointersKept(c.scan)

\* The state is one a callback may leave.
LEMMA NowKept ==
  ASSUME ScanInv
  PROVE  CallKept(Now)
<1>1. IsCall(Now) /\ Now.tree = tree /\ Now.scan = scan
  BY DEF IsCall, CallFields, Now
<1> QED
  BY <1>1 DEF CallKept, ScanInv

\* A callback that keeps to its locals leaves the tree.
LEMMA LeavesKept ==
  ASSUME NEW c, CallKept(c), NEW c2, Leaves(c, c2), PointersKept(c2.scan)
  PROVE  CallKept(c2)
BY DEF CallKept, Leaves

\* open leaves the tree.
LEMMA OpenKept ==
  ASSUME NEW c, CallKept(c), pass \in 1 .. 14, NEW node, NEW name
  PROVE  CallKept(Open(c, node, name))
<1> DEFINE c2 == Open(c, node, name)
<1>1. IsCall(c) /\ Passes[pass] \in PassNames
  BY PassIs DEF CallKept
<1>2. Leaves(c, c2)
  BY <1>1, OpenLeaves
<1>3. ASSUME pass = 11 PROVE PointersKept(c2.scan)
  <2>1. Passes[pass] = "filter_harts"
    BY <1>3, PassIs
  <2>2. c2 = [c EXCEPT !.scan = NewScan("filter_harts")]
    BY <2>1 DEF Open, hart_filter_open, Queries, Compats
  <2>3. c2.scan = NewScan("filter_harts")
    BY <2>2, <1>1 DEF IsCall, CallFields
  <2>4. NewScan("filter_harts") = [compat |-> FALSE, hart |-> -1, status |-> NULL,
                                   mmu_type |-> "none"]
    BY DEF NewScan, Queries, Compats
  <2>5. DOMAIN c2.scan = HartFields /\ c2.scan.status = NULL
    BY <2>3, <2>4 DEF HartFields
  <2> QED
    BY <2>5, <1>3 DEF PointersKept, Points
<1>4. ASSUME pass = 12 PROVE PointersKept(c2.scan)
  <2>1. Passes[pass] = "filter_plic"
    BY <1>4, PassIs
  <2>2. c2 = [c EXCEPT !.scan.compat = FALSE, !.scan.reg = 0, !.scan.int_value = NULL]
    BY <2>1 DEF Open, clint_open, Queries, Compats
  <2>3. DOMAIN c.scan = PlicFields
    BY <1>4 DEF CallKept, PointersKept
  <2>4. DOMAIN c2.scan = PlicFields /\ c2.scan.int_value = NULL
    BY <2>2, <2>3, <1>1 DEF IsCall, CallFields, PlicFields
  <2> QED
    BY <2>4, <1>4 DEF PointersKept, Points
<1>5. PointersKept(c2.scan)
  BY <1>3, <1>4 DEF PointersKept
<1> QED
  BY <1>2, <1>5, LeavesKept

\* prop leaves the tree, and takes pointers only to what may be written.
LEMMA PropKept ==
  ASSUME NEW c, CallKept(c), pass \in 1 .. 14, NEW node, NEW prop,
         lex \in DOMAIN dtb, dtb[lex].t = "PROP", dtb[lex].name = prop.name
  PROVE  CallKept(HasProp(c, node, prop))
<1> DEFINE c2 == HasProp(c, node, prop)
<1>1. IsCall(c) /\ Passes[pass] \in PassNames /\ PointersKept(c.scan)
  BY PassIs DEF CallKept
<1>2. Leaves(c, c2)
  BY <1>1, PropLeaves
<1>3. ASSUME pass = 11 PROVE PointersKept(c2.scan)
  <2>1. Passes[pass] = "filter_harts"
    BY <1>3, PassIs
  <2>2. c2 = hart_filter_prop(c, node, prop)
    BY <2>1 DEF HasProp, Compats
  <2>3. DOMAIN c.scan = HartFields /\ Points(dtb, c.scan.status, "status")
    BY <1>1, <1>3 DEF PointersKept
  <2>4. /\ DOMAIN c2.scan = HartFields
        /\ c2.scan.status = c.scan.status \/ (c2.scan.status = lex /\ prop.name = "status")
    BY <2>2, <2>3, <1>1 DEF IsCall, CallFields, HartFields, hart_filter_prop
  <2> QED
    BY <2>3, <2>4, <1>3 DEF PointersKept, Points
<1>4. ASSUME pass = 12 PROVE PointersKept(c2.scan)
  <2>1. Passes[pass] = "filter_plic"
    BY <1>4, PassIs
  <2>2. c2 = plic_prop(c, node, prop)
    BY <2>1 DEF HasProp, Compats
  <2>3. DOMAIN c.scan = PlicFields /\ Points(dtb, c.scan.int_value, "interrupts-extended")
    BY <1>1, <1>4 DEF PointersKept
  <2>4. /\ DOMAIN c2.scan = PlicFields
        /\ \/ c2.scan.int_value = c.scan.int_value
           \/ c2.scan.int_value = lex /\ prop.name = "interrupts-extended"
    BY <2>2, <2>3, <1>1 DEF IsCall, CallFields, PlicFields, plic_prop, DeviceProp
  <2> QED
    BY <2>3, <2>4, <1>4 DEF PointersKept, Points
<1>5. PointersKept(c2.scan)
  BY <1>3, <1>4 DEF PointersKept
<1> QED
  BY <1>2, <1>5, LeavesKept

\* A masked status is a property.
LEMMA MaskedProp ==
  ASSUME NEW q, IsProp(q)
  PROVE  LET p == [q EXCEPT !.value = "masked", !.more = 0]
         IN IsProp(p) /\ p.name = q.name
<1> DEFINE p == [q EXCEPT !.value = "masked", !.more = 0]
<1>1. DOMAIN q = {"t", "name", "value", "more"} /\ q.t = "PROP"
  BY DEF IsProp
<1>2. p = [f \in {"t", "name", "value", "more"} |-> p[f]]
  BY <1>1
<1>3. p.t = "PROP" /\ p.more = 0 /\ p.name = q.name
  BY <1>1
<1> HIDE DEF p
<1>4. IsProp(p)
  BY <1>2, <1>3 DEF IsProp
<1> QED
  BY <1>3, <1>4 DEF p

\* A property is overwritten with one of its name.
LEMMA WriteKept ==
  ASSUME NEW c, CallKept(c), NEW i \in DOMAIN dtb, dtb[i].t = "PROP",
         dtb[i].name \in {"status", "interrupts-extended"},
         pass \in {11, 12}, WellFormed(dtb),
         \A b \in Nodes(dtb) : tree[b].t = "BEGIN_NODE",
         NEW c2, IsCall(c2), PointersKept(c2.scan),
         NEW p, IsProp(p), p.name = c.tree[i].name, c2.tree = [c.tree EXCEPT ![i] = p]
  PROVE  CallKept(c2)
<1>1. TokensKept(dtb, c.tree) /\ ~ Dropped(dtb, c.tree, i)
  BY DEF CallKept, Dropped
<1>2. p.name = dtb[i].name
  BY <1>1 DEF TokensKept
<1>3. /\ TokensKept(dtb, c2.tree)
      /\ \A j \in DOMAIN dtb : c2.tree[j].t = c.tree[j].t
  BY <1>1, <1>2, Overwrites
<1> QED
  BY <1>3, NodeFacts DEF CallKept

\* done writes only through such pointers.
LEMMA DoneKept ==
  ASSUME NEW c, CallKept(c), pass \in 1 .. 14, NEW node, WellFormed(dtb),
         pass <= 12 => \A b \in Nodes(dtb) : tree[b].t = "BEGIN_NODE"
  PROVE  CallKept(Done(c, node))
<1> DEFINE c2 == Done(c, node)
<1>1. IsCall(c) /\ Passes[pass] \in PassNames /\ PointersKept(c.scan) /\ TokensKept(dtb, c.tree)
  BY PassIs DEF CallKept
<1>2. CASE pass \notin {11, 12}
  <2>1. Passes[pass] \notin {"filter_harts", "filter_plic"}
    BY <1>2, PassIs
  <2>2. Leaves(c, c2)
    BY <1>1, <2>1, DoneLeaves
  <2>3. PointersKept(c2.scan)
    BY <1>2 DEF PointersKept
  <2> QED
    BY <2>2, <2>3, LeavesKept
<1>3. CASE pass = 11
  <2>1. Passes[pass] = "filter_harts"
    BY <1>3, PassIs
  <2>2. c2 = hart_filter_done(c, node)
    BY <2>1 DEF Done, Queries
  <2> DEFINE i == c.scan.status
             c3 == [c EXCEPT !.tree[i] = [@ EXCEPT !.value = "masked", !.more = 0],
                             !.found.disabled_hart_mask = @ \cup OneShifted(c.scan.hart)]
  <2>3. CASE c2 = c
    BY <2>3
  <2>4. CASE c2 = Fail(c)
    BY <2>4, <1>1, FailLeaves, LeavesKept
  <2>5. CASE c2 = c3 /\ i # NULL
    <3>1. i \in DOMAIN dtb /\ dtb[i].t = "PROP" /\ dtb[i].name = "status"
      BY <1>1, <1>3, <2>5 DEF PointersKept, Points
    <3>2. IsCall(c3) /\ c3.scan = c.scan
      BY <1>1 DEF IsCall, CallFields
    <3> DEFINE p == [c.tree[i] EXCEPT !.value = "masked", !.more = 0]
    <3>3. c3.tree = [c.tree EXCEPT ![i] = p]
      BY <1>1 DEF IsCall, CallFields
    <3>4. IsProp(c.tree[i])
      <4>1. ~ Dropped(dtb, c.tree, i)
        BY <1>3 DEF CallKept, Dropped
      <4> QED
        BY <4>1, <3>1, <1>1 DEF TokensKept
    <3>5. IsProp(p) /\ p.name = c.tree[i].name
      BY <3>4, MaskedProp
    <3>6. \A b \in Nodes(dtb) : tree[b].t = "BEGIN_NODE"
      BY <1>3
    <3> HIDE DEF p, i, c3
    <3> QED
      BY <1>1, <1>3, <2>5, <3>1, <3>2, <3>3, <3>5, <3>6, WriteKept
  <2> QED
    BY <2>2, <2>3, <2>4, <2>5 DEF hart_filter_done
<1>4. CASE pass = 12
  <2>1. Passes[pass] = "filter_plic"
    BY <1>4, PassIs
  <2>2. c2 = plic_redact(c, node)
    BY <2>1 DEF Done, Queries
  <2> DEFINE i == c.scan.int_value
             v == [k \in DOMAIN c.tree[i].value |->
                     IF k % 2 = 0 /\ c.tree[i].value[k] = IRQ_M_EXT
                     THEN CellBase - 1 ELSE c.tree[i].value[k]]
             c3 == [c EXCEPT !.scan.done = TRUE, !.tree[i].value = v]
  <2>3. CASE c2 = c
    BY <2>3
  <2>4. CASE c2 = c3
    <3>1. IsCall(c3) /\ c3.scan = [c.scan EXCEPT !.done = TRUE]
      BY <1>1 DEF IsCall, CallFields
    <3>2. PointersKept(c3.scan)
      <4>1. DOMAIN c.scan = PlicFields /\ Points(dtb, c.scan.int_value, "interrupts-extended")
        BY <1>1, <1>4 DEF PointersKept
      <4>2. DOMAIN c3.scan = PlicFields /\ c3.scan.int_value = c.scan.int_value
        BY <3>1, <4>1 DEF PlicFields
      <4> QED
        BY <4>1, <4>2, <1>4 DEF PointersKept
    <3> DEFINE p == [c.tree[i] EXCEPT !.value = v]
    <3>3. c3.tree = [c.tree EXCEPT ![i] = p]
      <4> HIDE DEF v
      <4> QED
        BY <1>1 DEF IsCall, CallFields
    <3>4. CASE i = NULL
      <4>1. i \notin DOMAIN c.tree
        <5>1. DOMAIN c.tree = DOMAIN dtb /\ DOMAIN dtb = 1 .. Len(dtb) /\ Len(dtb) \in Nat
          BY <1>1, Shape DEF TokensKept
        <5> QED
          BY <5>1, <3>4 DEF NULL
      <4>2. c3.tree = c.tree
        <5>1. c.tree = [j \in DOMAIN dtb |-> c.tree[j]]
          BY <1>1 DEF TokensKept
        <5> HIDE DEF i, p
        <5> QED
          BY <4>1, <3>3, <5>1
      <4>3. c3.found = c.found
        BY <1>1 DEF IsCall, CallFields
      <4> HIDE DEF c3
      <4>4. Leaves(c, c3)
        BY <3>1, <4>2, <4>3 DEF Leaves, FoundLeft
      <4> QED
        BY <2>4, <3>2, <4>4, LeavesKept
    <3>5. CASE i # NULL
      <4>1. i \in DOMAIN dtb /\ dtb[i].t = "PROP" /\ dtb[i].name = "interrupts-extended"
        BY <1>1, <1>4, <3>5 DEF PointersKept, Points
      <4>2. IsProp(c.tree[i])
        <5>1. ~ Dropped(dtb, c.tree, i)
          BY <1>4 DEF CallKept, Dropped
        <5> QED
          BY <5>1, <4>1, <1>1 DEF TokensKept
      <4>3. IsProp(p) /\ p.name = c.tree[i].name
        <5> HIDE DEF v
        <5> QED
          BY <4>2 DEF IsProp
      <4>4. \A b \in Nodes(dtb) : tree[b].t = "BEGIN_NODE"
        BY <1>4
      <4> HIDE DEF p, i, c3
      <4> QED
        BY <1>4, <2>4, <3>1, <3>2, <3>3, <4>1, <4>3, <4>4, WriteKept
    <3> QED
      BY <3>4, <3>5
  <2> QED
    BY <2>2, <2>3, <2>4 DEF plic_redact
<1> QED
  BY <1>2, <1>3, <1>4

\* So does done when it is called at most once.
LEMMA DoneOnceKept ==
  ASSUME ScanInv, NEW c, CallKept(c), pass \in 1 .. 14, WellFormed(dtb)
  PROVE  CallKept(DoneOnce(c))
<1>1. CallKept(Done(c, cur))
  BY DoneKept DEF ScanInv
<1> QED
  BY <1>1 DEF DoneOnce

\* close leaves the tree.
LEMMA CloseKept ==
  ASSUME NEW c, CallKept(c), pass \in 1 .. 14, NEW node
  PROVE  CallKept(Close(c, node))
<1>1. IsCall(c) /\ Passes[pass] \in PassNames
  BY PassIs DEF CallKept
<1>2. Leaves(c, Close(c, node))
  BY <1>1, CloseLeaves
<1>3. CASE pass \in {11, 12}
  <2>1. Passes[pass] \in {"filter_harts", "filter_plic"}
    BY <1>3, PassIs
  <2>2. Close(c, node) = c
    BY <2>1 DEF Close, Compats
  <2> QED
    BY <2>2
<1>4. CASE pass \notin {11, 12}
  <2>1. PointersKept(Close(c, node).scan)
    BY <1>4 DEF PointersKept
  <2> QED
    BY <1>2, <2>1, LeavesKept
<1> QED
  BY <1>3, <1>4

-----------------------------------------------------------------------------
(* The invariant of the scanner *)

\* The tree handed over is well formed.
LEMMA Trees == ASSUME ScanInv PROVE WellFormed(dtb)
BY DtbsAssumption DEF ScanInv

\* There are 14 scans.
LEMMA PassLen == Len(Passes) = 14
BY DEF Passes

\* At the first token the levels are those of no node.
LEMMA FreshScan ==
  ASSUME NEW d, WellFormed(d), NEW tr
  PROVE  StackKept(d, tr, <<NewLevel>>, 1) /\ CountsKept(d, <<NewLevel>>, 1)
<1> DEFINE s == <<NewLevel>>
<1>1. Len(s) = 1 /\ s = [k \in 1 .. 1 |-> s[k]] /\ s[1] = NewLevel
  OBVIOUS
<1>2. NewLevel = [f \in LevelFields |-> NewLevel[f]]
  BY DEF NewLevel, LevelFields
<1>3. NewLevel.last = FALSE /\ NewLevel.address_cells = 2 /\ NewLevel.size_cells = 1
  BY DEF NewLevel
<1>4. 1 \in DOMAIN d
  BY Shape
<1>5. \A b \in Nodes(d) : ~ Holds(d, b, 1)
  BY NodeFacts DEF Holds
<1> HIDE DEF s
<1>6. ~ \E k \in 1 .. Len(s) - 1 : TRUE
  BY <1>1
<1>7. StackKept(d, tr, s, 1)
  <2>1. \A k \in 1 .. Len(s) : s[k] = [f \in LevelFields |-> s[k][f]]
    BY <1>1, <1>2
  <2>2. s[Len(s)].last = FALSE /\ Len(s) \in Nat \ {0} /\ s = [k \in 1 .. Len(s) |-> s[k]]
    BY <1>1, <1>3
  <2> QED
    BY <2>1, <2>2, <1>4, <1>5, <1>6 DEF StackKept
<1>8. CountsKept(d, s, 1)
  BY <1>1, <1>3, <1>6 DEF CountsKept, CountKept
<1> QED
  BY <1>7, <1>8 DEF s

\* A machine that is reset starts the first scan.
LEMMA ScanInit ==
  ASSUME \A d \in Dtbs : Whole(d), Init
  PROVE  ScanInv
<1>1. dtb \in Dtbs /\ tree = dtb /\ pass = 1 /\ lex = 1 /\ stack = <<NewLevel>>
  BY DEF Init
<1>2. WellFormed(dtb) /\ Whole(dtb)
  BY <1>1, DtbsAssumption
<1>3. \A b \in Nodes(dtb) : dtb[b].t = "BEGIN_NODE"
  BY DEF Nodes
<1>4. TokensKept(dtb, dtb)
  <2>1. \A i \in DOMAIN dtb : ~ Dropped(dtb, dtb, i)
    BY <1>3 DEF Dropped
  <2>2. \A i \in DOMAIN dtb : dtb[i].t = "PROP" => IsProp(dtb[i])
    BY <1>2, PropShape DEF Whole, IsProp
  <2>3. dtb = [i \in DOMAIN dtb |-> dtb[i]]
    BY <1>2 DEF WellFormed
  <2> QED
    BY <2>1, <2>2, <2>3 DEF TokensKept
<1>5. StackKept(dtb, tree, stack, lex) /\ CountsKept(dtb, stack, lex)
  BY <1>1, <1>2, FreshScan
<1> QED
  BY <1>1, <1>3, <1>4, <1>5 DEF ScanInv, PointersKept

\* What a callback leaves is the next state.
LEMMA Becoming ==
  ASSUME ScanInv, pass <= 14, NEW c, CallKept(c), Becomes(c), UNCHANGED <<dtb, pass>>
  PROVE  /\ TokensKept(dtb', tree')
         /\ PointersKept(scan)'
         /\ \A b \in Nodes(dtb) : tree'[b].t = "BEGIN_NODE" <=> tree[b].t = "BEGIN_NODE"
         /\ pass' <= 12 => \A b \in Nodes(dtb)' : tree'[b].t = "BEGIN_NODE"
         /\ dtb' \in Dtbs /\ pass' \in 1 .. 15
<1>1. tree' = c.tree /\ scan' = c.scan
  BY DEF Becomes
<1>2. TokensKept(dtb', tree')
  BY <1>1 DEF CallKept
<1>3. PointersKept(scan)'
  BY <1>1 DEF CallKept, PointersKept
<1>4. \A b \in Nodes(dtb) : tree'[b].t = "BEGIN_NODE" <=> tree[b].t = "BEGIN_NODE"
  BY <1>1 DEF CallKept
<1>5. Nodes(dtb)' = Nodes(dtb)
  BY DEF Nodes
<1>6. pass <= 12 => \A b \in Nodes(dtb) : tree[b].t = "BEGIN_NODE"
  BY DEF ScanInv
<1>7. dtb' \in Dtbs /\ pass' \in 1 .. 15
  BY DEF ScanInv
<1> QED
  BY <1>2, <1>3, <1>4, <1>5, <1>6, <1>7

\* What holds while a scan runs.
LEMMA Running ==
  ASSUME ScanInv, Scanning
  PROVE  /\ pass \in 1 .. 14 /\ pass <= 14
         /\ WellFormed(dtb)
         /\ TokensKept(dtb, tree)
         /\ StackKept(dtb, tree, stack, lex)
         /\ CountsKept(dtb, stack, lex)
         /\ IsStack(stack)
         /\ lex \in DOMAIN dtb
         /\ dtb \in Dtbs
<1>1. pass <= 14 /\ pass \in 1 .. 15
  BY PassLen DEF Scanning, ScanInv
<1>2. StackKept(dtb, tree, stack, lex)
  BY <1>1 DEF ScanInv
<1>3. IsStack(stack) /\ lex \in DOMAIN dtb
  BY <1>2 DEF StackKept, IsStack
<1> QED
  BY <1>1, <1>2, <1>3, Trees DEF ScanInv

\* NOPs are stepped over.
LEMMA NopKeeps ==
  ASSUME ScanInv, Nop
  PROVE  ScanInv'
<1>1. Scanning /\ tree[lex].t = "NOP" /\ lex' = lex + 1
      /\ UNCHANGED <<dtb, tree, pass, stack, scan, found, failed>>
  BY DEF Nop, tok
<1>2. StackKept(dtb, tree, stack, lex + 1)
  <2>1. SameLevels(stack, stack)
    BY <1>1, Running DEF SameLevels, IsStack
  <2>2. /\ WellFormed(dtb) /\ TokensKept(dtb, tree) /\ StackKept(dtb, tree, stack, lex)
        /\ tree[lex].t \in {"NOP", "PROP"}
    BY <1>1, Running
  <2> QED
    BY <2>1, <2>2, MovesOn
<1>3. CountsKept(dtb, stack, lex + 1)
  BY <1>1, Running, NopCounts
<1>4. Nodes(dtb)' = Nodes(dtb) /\ PointersKept(scan)' = PointersKept(scan)
  BY <1>1 DEF Nodes, PointersKept
<1> QED
  BY <1>1, <1>2, <1>3, <1>4 DEF ScanInv

\* What a property does to the levels.
LEMMA PropStack ==
  ASSUME ScanInv, Prop
  PROVE  /\ IsStack(stack') /\ Len(stack') = Len(stack)
         /\ \A k \in 1 .. Len(stack) :
              /\ stack'[k].begin = stack[k].begin
              /\ stack'[k].last = stack[k].last
              /\ stack'[k].address_cells =
                   IF k = Len(stack) - 1 /\ dtb[lex].name = "#address-cells"
                   THEN dtb[lex].value[1] ELSE stack[k].address_cells
              /\ stack'[k].size_cells =
                   IF k = Len(stack) - 1 /\ dtb[lex].name = "#size-cells"
                   THEN dtb[lex].value[1] ELSE stack[k].size_cells
<1>1. Scanning /\ tree[lex].t = "PROP"
  BY DEF Prop, tok
<1>2. Len(stack) > 1 /\ ~ Dropped(dtb, tree, lex) /\ dtb[lex].t = "PROP"
  BY <1>1, Running, PropOfTop
<1>3. /\ IsStack(stack) /\ Len(stack) \in Nat
      /\ cur \in 1 .. Len(stack) /\ cur # NULL /\ cur = Len(stack) - 1
  <2>1. IsStack(stack)
    BY <1>1, Running
  <2>2. Len(stack) \in Nat \ {0}
    BY <2>1 DEF IsStack
  <2>3. cur = Len(stack) - 1 /\ Len(stack) > 1
    BY <1>2 DEF cur, level
  <2>4. cur \in 1 .. Len(stack) /\ cur # 0
    BY <2>2, <2>3
  <2> QED
    BY <2>1, <2>2, <2>3, <2>4 DEF NULL
<1>4. tok.name = dtb[lex].name
      /\ (tok.name \in {"#address-cells", "#size-cells"} => tok.value = dtb[lex].value)
  BY <1>1, <1>2, Running DEF tok, TokensKept
<1>5. CASE tok.name = "#address-cells"
  <2>1. stack' = [stack EXCEPT ![cur] = [stack[cur] EXCEPT !["address_cells"] = tok.value[1]]]
    BY <1>3, <1>5 DEF Prop
  <2>2. "address_cells" \in LevelFields /\ {"begin", "last", "size_cells"} \subseteq LevelFields
    BY DEF LevelFields
  <2>3. /\ IsStack(stack') /\ Len(stack') = Len(stack)
        /\ \A j \in 1 .. Len(stack) : \A g \in LevelFields :
             stack'[j][g] = IF j = cur /\ g = "address_cells" THEN tok.value[1] ELSE stack[j][g]
    <3>1. LevelIs(stack, stack', cur, "address_cells", tok.value[1])
      BY <1>3, <2>1, <2>2, LevelSet
    <3> QED
      BY <3>1 DEF LevelIs
  <2>4. \A j \in 1 .. Len(stack) :
          /\ stack'[j].begin = stack[j].begin
          /\ stack'[j].last = stack[j].last
          /\ stack'[j].size_cells = stack[j].size_cells
          /\ stack'[j].address_cells = IF j = cur THEN tok.value[1] ELSE stack[j].address_cells
    BY <2>2, <2>3
  <2> QED
    BY <2>3, <2>4, <1>3, <1>4, <1>5
<1>6. CASE tok.name = "#size-cells"
  <2>1. stack' = [stack EXCEPT ![cur] = [stack[cur] EXCEPT !["size_cells"] = tok.value[1]]]
    BY <1>3, <1>6 DEF Prop
  <2>2. "size_cells" \in LevelFields /\ {"begin", "last", "address_cells"} \subseteq LevelFields
    BY DEF LevelFields
  <2>3. /\ IsStack(stack') /\ Len(stack') = Len(stack)
        /\ \A j \in 1 .. Len(stack) : \A g \in LevelFields :
             stack'[j][g] = IF j = cur /\ g = "size_cells" THEN tok.value[1] ELSE stack[j][g]
    <3>1. LevelIs(stack, stack', cur, "size_cells", tok.value[1])
      BY <1>3, <2>1, <2>2, LevelSet
    <3> QED
      BY <3>1 DEF LevelIs
  <2>4. \A j \in 1 .. Len(stack) :
          /\ stack'[j].begin = stack[j].begin
          /\ stack'[j].last = stack[j].last
          /\ stack'[j].address_cells = stack[j].address_cells
          /\ stack'[j].size_cells = IF j = cur THEN tok.value[1] ELSE stack[j].size_cells
    BY <2>2, <2>3
  <2> QED
    BY <2>3, <2>4, <1>3, <1>4, <1>6
<1>7. CASE tok.name \notin {"#address-cells", "#size-cells"}
  <2>1. stack' = stack
    BY <1>3, <1>7 DEF Prop
  <2> QED
    BY <2>1, <1>3, <1>4, <1>7
<1> QED
  BY <1>5, <1>6, <1>7

\* Properties are read.
LEMMA PropKeeps ==
  ASSUME ScanInv, Prop
  PROVE  ScanInv'
<1>1. Scanning /\ tree[lex].t = "PROP" /\ UNCHANGED <<dtb, pass>>
  BY DEF Prop, tok
<1>2. /\ ~ stack[level].last /\ dtb[lex].t = "PROP" /\ ~ Dropped(dtb, tree, lex)
  BY <1>1, Running, PropOfTop DEF level
<1>3. lex \in DOMAIN dtb /\ IsProp(tok) /\ tok.name = dtb[lex].name
  BY <1>1, <1>2, Running DEF tok, TokensKept
<1>4. lex' = lex + 1
  <2>1. tok.more = 0 /\ lex \in Nat
    BY <1>1, <1>3, Running, Shape DEF IsProp
  <2> QED
    BY <2>1 DEF Prop
<1> DEFINE c == HasProp(Now, cur, tok)
<1>5. Becomes(c)
  BY <1>2 DEF Prop
<1>6. CallKept(c)
  <2>1. pass \in 1 .. 14
    BY <1>1, Running
  <2> QED
    BY <2>1, <1>2, <1>3, NowKept, PropKept
<1> HIDE DEF c
<1>7. /\ TokensKept(dtb', tree')
      /\ PointersKept(scan)'
      /\ \A b \in Nodes(dtb) : tree'[b].t = "BEGIN_NODE" <=> tree[b].t = "BEGIN_NODE"
      /\ pass' <= 12 => \A b \in Nodes(dtb)' : tree'[b].t = "BEGIN_NODE"
      /\ dtb' \in Dtbs /\ pass' \in 1 .. 15
  BY <1>1, <1>5, <1>6, Running, Becoming
<1>8. StackKept(dtb, tree', stack', lex + 1)
  <2>1. /\ Len(stack') = Len(stack)
        /\ stack' = [k \in 1 .. Len(stack') |-> stack'[k]]
        /\ \A k \in 1 .. Len(stack') : /\ stack'[k] = [f \in LevelFields |-> stack'[k][f]]
                                       /\ stack'[k].begin = stack[k].begin
                                       /\ stack'[k].last = stack[k].last
    BY PropStack DEF IsStack
  <2>2. /\ WellFormed(dtb) /\ TokensKept(dtb, tree) /\ StackKept(dtb, tree, stack, lex)
        /\ tree[lex].t \in {"NOP", "PROP"}
    BY <1>1, Running
  <2>3. \A b \in Nodes(dtb) : tree'[b].t = "BEGIN_NODE" <=> tree[b].t = "BEGIN_NODE"
    BY <1>7
  <2>4. SameLevels(stack, stack')
    BY <2>1 DEF SameLevels
  <2> QED
    BY <2>2, <2>3, <2>4, MovesOn
<1>9. CountsKept(dtb, stack', lex + 1)
  BY <1>1, Running, PropStack, PropCounts
<1> QED
  BY <1>1, <1>4, <1>7, <1>8, <1>9 DEF ScanInv

\* A level is pushed for the child.
LEMMA BeginStack ==
  ASSUME ScanInv, BeginNode
  PROVE  /\ IsStack(stack') /\ Len(stack') = Len(stack) + 1
         /\ stack'[Len(stack) + 1].last = FALSE
         /\ stack'[Len(stack) + 1].address_cells = 2
         /\ stack'[Len(stack) + 1].size_cells = 1
         /\ \A k \in 1 .. Len(stack) - 1 :
              stack'[k].begin = stack[k].begin /\ stack'[k].last = stack[k].last
         /\ stack'[Len(stack)].begin = lex /\ stack'[Len(stack)].last = TRUE
         /\ \A k \in 1 .. Len(stack) : /\ stack'[k].address_cells = stack[k].address_cells
                                       /\ stack'[k].size_cells = stack[k].size_cells
<1>1. Scanning
  BY DEF BeginNode
<1> DEFINE n == Len(stack)
           s1 == [stack EXCEPT ![n].last = TRUE, ![n].name = tok.name, ![n].begin = lex]
<1>5. stack' = Append(s1, NewLevel)
  BY DEF BeginNode, level
<1>6. IsStack(stack) /\ n \in Nat \ {0}
  <2>1. IsStack(stack)
    BY <1>1, Running
  <2> QED
    BY <2>1 DEF IsStack
<1>7. /\ IsStack(s1) /\ Len(s1) = n
      /\ \A k \in 1 .. n :
           /\ s1[k].begin = IF k = n THEN lex ELSE stack[k].begin
           /\ s1[k].last = IF k = n THEN TRUE ELSE stack[k].last
           /\ s1[k].address_cells = stack[k].address_cells
           /\ s1[k].size_cells = stack[k].size_cells
  <2> DEFINE w == [stack[n] EXCEPT !.last = TRUE, !.name = tok.name, !.begin = lex]
  <2>1. n \in 1 .. n /\ DOMAIN stack = 1 .. n /\ DOMAIN stack[n] = LevelFields
    BY <1>6 DEF IsStack
  <2>2. s1 = [stack EXCEPT ![n] = w]
    BY <2>1 DEF LevelFields
  <2>3. /\ w = [f \in LevelFields |-> w[f]]
        /\ w.last = TRUE /\ w.begin = lex
        /\ w.address_cells = stack[n].address_cells
        /\ w.size_cells = stack[n].size_cells
    BY <2>1 DEF LevelFields
  <2> HIDE DEF w, s1
  <2>4. s1 = [k \in 1 .. n |-> s1[k]] /\ \A k \in 1 .. n : s1[k] = IF k = n THEN w ELSE stack[k]
    BY <2>1, <2>2
  <2>5. Len(s1) = n
    BY <2>4, <1>6, SeqLen
  <2>6. IsStack(s1)
    BY <2>3, <2>4, <2>5, <1>6 DEF IsStack
  <2> QED
    BY <2>3, <2>4, <2>5, <2>6
<1> HIDE DEF s1
<1>8. /\ IsStack(stack') /\ Len(stack') = n + 1
      /\ \A k \in 1 .. n : stack'[k] = s1[k]
      /\ stack'[n + 1] = NewLevel
  <2>1. /\ IsStack(Append(s1, NewLevel))
        /\ Len(Append(s1, NewLevel)) = Len(s1) + 1
        /\ \A k \in 1 .. Len(s1) : Append(s1, NewLevel)[k] = s1[k]
        /\ Append(s1, NewLevel)[Len(s1) + 1] = NewLevel
    BY <1>7, LevelPush
  <2> QED
    BY <2>1, <1>5, <1>7
<1>9. /\ stack'[n + 1].last = FALSE
      /\ stack'[n + 1].address_cells = 2
      /\ stack'[n + 1].size_cells = 1
  <2>1. NewLevel.last = FALSE /\ NewLevel.address_cells = 2 /\ NewLevel.size_cells = 1
    BY DEF NewLevel
  <2> QED
    BY <2>1, <1>8
<1>10. /\ \A k \in 1 .. n - 1 : stack'[k].begin = stack[k].begin /\ stack'[k].last = stack[k].last
       /\ stack'[n].begin = lex /\ stack'[n].last = TRUE
       /\ \A k \in 1 .. n : /\ stack'[k].address_cells = stack[k].address_cells
                            /\ stack'[k].size_cells = stack[k].size_cells
  <2>1. n \in 1 .. n /\ \A k \in 1 .. n - 1 : k \in 1 .. n /\ k # n
    BY <1>6
  <2> QED
    BY <2>1, <1>7, <1>8
<1> QED
  BY <1>8, <1>9, <1>10

\* Children are entered.
LEMMA BeginKeeps ==
  ASSUME ScanInv, BeginNode
  PROVE  ScanInv'
<1>1. Scanning /\ tree[lex].t = "BEGIN_NODE" /\ UNCHANGED <<dtb, pass>> /\ lex' = lex + 1
  BY DEF BeginNode, tok
<1> DEFINE c == Open(DoneOnce(Now), level, tok.name)
<1>2. Becomes(c)
  BY DEF BeginNode
<1>3. CallKept(c)
  <2>1. pass \in 1 .. 14 /\ WellFormed(dtb)
    BY <1>1, Running
  <2>2. CallKept(DoneOnce(Now))
    BY <2>1, NowKept, DoneOnceKept
  <2> QED
    BY <2>1, <2>2, OpenKept
<1> HIDE DEF c
<1>4. /\ TokensKept(dtb', tree')
      /\ PointersKept(scan)'
      /\ \A b \in Nodes(dtb) : tree'[b].t = "BEGIN_NODE" <=> tree[b].t = "BEGIN_NODE"
      /\ pass' <= 12 => \A b \in Nodes(dtb)' : tree'[b].t = "BEGIN_NODE"
      /\ dtb' \in Dtbs /\ pass' \in 1 .. 15
  BY <1>1, <1>2, <1>3, Running, Becoming
<1>5. /\ IsStack(stack') /\ Len(stack') = Len(stack) + 1
      /\ stack'[Len(stack) + 1].last = FALSE
      /\ stack'[Len(stack) + 1].address_cells = 2
      /\ stack'[Len(stack) + 1].size_cells = 1
      /\ \A k \in 1 .. Len(stack) - 1 :
           stack'[k].begin = stack[k].begin /\ stack'[k].last = stack[k].last
      /\ stack'[Len(stack)].begin = lex /\ stack'[Len(stack)].last = TRUE
      /\ \A k \in 1 .. Len(stack) : /\ stack'[k].address_cells = stack[k].address_cells
                                    /\ stack'[k].size_cells = stack[k].size_cells
  BY BeginStack
<1>11. /\ WellFormed(dtb) /\ TokensKept(dtb, tree) /\ StackKept(dtb, tree, stack, lex)
       /\ CountsKept(dtb, stack, lex)
  BY <1>1, Running
<1>12. StackKept(dtb, tree', stack', lex + 1)
  <2>1. /\ stack' = [k \in 1 .. Len(stack') |-> stack'[k]]
        /\ \A k \in 1 .. Len(stack') : stack'[k] = [f \in LevelFields |-> stack'[k][f]]
    BY <1>5 DEF IsStack
  <2>2. /\ \A b \in Nodes(dtb) : tree'[b].t = "BEGIN_NODE" <=> tree[b].t = "BEGIN_NODE"
        /\ tree[lex].t = "BEGIN_NODE"
        /\ Len(stack') = Len(stack) + 1
    BY <1>1, <1>4, <1>5
  <2>3. Pushed(stack, stack', lex)
    BY <2>1, <2>2, <1>5 DEF Pushed
  <2> QED
    BY <2>2, <2>3, <1>11, Opens
<1>13. CountsKept(dtb, stack', lex + 1)
  BY <1>1, <1>5, <1>11, BeginCounts
<1> QED
  BY <1>1, <1>4, <1>12, <1>13 DEF ScanInv

\* The token is the node's own END_NODE, and its level is popped.
LEMMA EndStack ==
  ASSUME \A d \in Dtbs : Whole(d), ScanInv, EndNode
  PROVE  /\ Scanning /\ tree[lex].t = "END_NODE" /\ dtb[lex].t = "END_NODE"
         /\ Len(stack) > 1 /\ cur = Len(stack) - 1 /\ cur \in 1 .. Len(stack) - 1
         /\ Depth(dtb, lex) = Depth(dtb, stack[cur].begin) + 1
         /\ Return(lex + 1) /\ lex' = lex + 1 /\ UNCHANGED <<dtb, pass>>
         /\ IsStack(stack') /\ Len(stack') = Len(stack) - 1
         /\ \A k \in 1 .. Len(stack) - 1 : stack'[k] = stack[k]
<1>1. Scanning /\ cur # NULL /\ (tree[lex].t = "END_NODE" \/ AnyOther)
  BY DEF EndNode, tok
<1>2. /\ WellFormed(dtb) /\ TokensKept(dtb, tree) /\ StackKept(dtb, tree, stack, lex)
      /\ CountsKept(dtb, stack, lex) /\ pass \in 1 .. 14 /\ pass <= 14
      /\ lex \in DOMAIN dtb /\ dtb \in Dtbs /\ IsStack(stack)
  BY <1>1, Running
<1>3. tree[lex].t = "END_NODE"
  <2> SUFFICES ASSUME tree[lex].t # "END_NODE" PROVE FALSE
    OBVIOUS
  <2>1. tree[lex].t \notin {"NOP", "PROP", "BEGIN_NODE", "END_NODE"}
    BY <1>1 DEF AnyOther, tok
  <2>2. Len(stack) = 1
    BY <2>1, <1>2, OtherIsLast
  <2> QED
    BY <2>2, <1>1 DEF cur, level, NULL
<1>4. /\ Len(stack) > 1 /\ dtb[lex].t = "END_NODE"
      /\ Depth(dtb, lex) = Depth(dtb, stack[Len(stack) - 1].begin) + 1
  BY <1>2, <1>3, EndOfTop
<1>5. cur = Len(stack) - 1
  BY DEF cur, level
<1>6. Return(lex + 1)
  <2>1. ~ AnyOther
    BY <1>3 DEF AnyOther, tok
  <2> QED
    BY <2>1 DEF EndNode
<1>7. stack' = SubSeq(stack, 1, cur) /\ lex' = lex + 1 /\ UNCHANGED <<dtb, pass>>
  BY <1>6, Zenon DEF Return
<1>8. cur \in 1 .. Len(stack) - 1
  <2>1. Len(stack) \in Nat \ {0}
    BY <1>2 DEF IsStack
  <2> QED
    BY <2>1, <1>4, <1>5
<1>9. /\ IsStack(stack') /\ Len(stack') = Len(stack) - 1
      /\ \A k \in 1 .. Len(stack) - 1 : stack'[k] = stack[k]
  BY <1>2, <1>4, <1>5, <1>7, LevelPop
<1> QED
  BY <1>1, <1>3, <1>4, <1>5, <1>6, <1>7, <1>8, <1>9

\* Nodes are left.
LEMMA EndKeeps ==
  ASSUME \A d \in Dtbs : Whole(d), ScanInv, EndNode
  PROVE  ScanInv'
<1>1. /\ Scanning /\ tree[lex].t = "END_NODE" /\ dtb[lex].t = "END_NODE"
      /\ Len(stack) > 1 /\ cur = Len(stack) - 1 /\ cur \in 1 .. Len(stack) - 1
      /\ Depth(dtb, lex) = Depth(dtb, stack[cur].begin) + 1
      /\ Return(lex + 1) /\ lex' = lex + 1 /\ UNCHANGED <<dtb, pass>>
      /\ IsStack(stack') /\ Len(stack') = Len(stack) - 1
      /\ \A k \in 1 .. Len(stack) - 1 : stack'[k] = stack[k]
  BY EndStack
<1>2. /\ WellFormed(dtb) /\ TokensKept(dtb, tree) /\ StackKept(dtb, tree, stack, lex)
      /\ CountsKept(dtb, stack, lex) /\ pass \in 1 .. 14 /\ pass <= 14
      /\ lex \in DOMAIN dtb /\ dtb \in Dtbs /\ IsStack(stack)
  BY <1>1, Running
<1>3. tree[lex].t = "END_NODE"
  BY <1>1
<1>4. /\ Len(stack) > 1 /\ dtb[lex].t = "END_NODE"
      /\ Depth(dtb, lex) = Depth(dtb, stack[Len(stack) - 1].begin) + 1
  BY <1>1
<1>5. cur = Len(stack) - 1
  BY <1>1
<1>6. Return(lex + 1)
  BY <1>1
<1> DEFINE b == stack[cur].begin
           c == DoneOnce(Now)
           closed == Close(c, cur)
           cut == [closed EXCEPT !.tree = Erased(@, b, lex + 1)]
<1>7. /\ lex' = lex + 1 /\ UNCHANGED <<dtb, pass>>
      /\ Deletes(c) => tree' = cut.tree
      /\ ~ Deletes(c) => Becomes(closed)
  <2>2. Deletes(c) => tree' = cut.tree
    BY <1>6, Zenon DEF Return, Becomes
  <2>3. ~ Deletes(c) => Becomes(closed)
    BY <1>6, Zenon DEF Return
  <2> QED
    BY <1>1, <2>2, <2>3
<1>8. CallKept(c) /\ CallKept(closed)
  <2>1. CallKept(c)
    BY <1>2, NowKept, DoneOnceKept
  <2> HIDE DEF c
  <2> QED
    BY <2>1, <1>2, CloseKept
<1>9. cur \in 1 .. Len(stack) - 1 /\ b \in Nodes(dtb) /\ b \in Nat \ {0} /\ b < lex
      /\ lex \in Nat \ {0} /\ Holds(dtb, b, lex)
  BY <1>1, <1>2, LevelFacts
<1>10. /\ IsStack(stack') /\ Len(stack') = Len(stack) - 1
       /\ \A k \in 1 .. Len(stack) - 1 : stack'[k] = stack[k]
  BY <1>1
<1>11. CountsKept(dtb, stack', lex + 1)
  BY <1>2, <1>3, <1>10, EndCounts
<1>12. CASE ~ Deletes(c)
  <2>1. Becomes(closed)
    BY <1>7, <1>12
  <2> HIDE DEF closed, c
  <2>2. /\ TokensKept(dtb', tree')
        /\ PointersKept(scan)'
        /\ \A a \in Nodes(dtb) : tree'[a].t = "BEGIN_NODE" <=> tree[a].t = "BEGIN_NODE"
        /\ pass' <= 12 => \A a \in Nodes(dtb)' : tree'[a].t = "BEGIN_NODE"
        /\ dtb' \in Dtbs /\ pass' \in 1 .. 15
    BY <1>2, <1>7, <1>8, <2>1, Becoming
  <2>3. StackKept(dtb, tree', stack', lex + 1)
    <3>1. stack' = [k \in 1 .. Len(stack') |-> stack'[k]]
      BY <1>10 DEF IsStack
    <3>2. \A a \in Nodes(dtb) :
            /\ tree'[a].t = "BEGIN_NODE" => tree[a].t = "BEGIN_NODE"
            /\ a < stack[Len(stack) - 1].begin /\ tree[a].t = "BEGIN_NODE" =>
                 tree'[a].t = "BEGIN_NODE"
      BY <2>2
    <3> QED
      BY <3>1, <3>2, <1>2, <1>3, <1>10, Closes
  <2> QED
    BY <2>2, <2>3, <1>7, <1>11 DEF ScanInv
<1>13. CASE Deletes(c)
  <2>1. pass \in {13, 14}
    BY <1>2, <1>13, PassIs DEF Deletes
  <2>2. closed.tree = tree /\ IsCall(closed)
    BY <1>8, <2>1 DEF CallKept
  <2> HIDE DEF closed, c
  <2>3. Cut(tree, tree', b, lex)
    <3>1. tree' = cut.tree
      BY <1>7, <1>13
    <3>2. cut.tree = Erased(tree, b, lex + 1)
      <4> HIDE DEF b
      <4> QED
        BY <2>2 DEF IsCall, CallFields
    <3>3. (lex + 1) - 1 = lex
      BY <1>9
    <3>4. Cut(tree, Erased(tree, b, lex + 1), b, lex)
      <4> HIDE DEF b
      <4> QED
        BY <3>3, ErasedIs
    <3> QED
      BY <3>1, <3>2, <3>4
  <2>4. lex + 1 \in DOMAIN dtb
    BY <1>2, <1>3, NotLast
  <2>5. \A i \in DOMAIN dtb : In(dtb, b, i) <=> i \in b .. lex
    <3>1. Depth(dtb, lex) = Depth(dtb, b) + 1
      BY <1>4, <1>5
    <3> HIDE DEF b
    <3> QED
      BY <1>2, <1>4, <1>9, <2>4, <3>1, EndsHere
  <2>6. TokensKept(dtb, tree')
    <3> HIDE DEF b
    <3> QED
      BY <1>2, <1>9, <2>3, <2>5, Deletes1
  <2>7. \A a \in Nodes(dtb) :
          /\ tree'[a].t = "BEGIN_NODE" => tree[a].t = "BEGIN_NODE"
          /\ a < stack[Len(stack) - 1].begin /\ tree[a].t = "BEGIN_NODE" =>
               tree'[a].t = "BEGIN_NODE"
    <3> TAKE a \in Nodes(dtb)
    <3>1. a \in DOMAIN tree /\ a \in Nat \ {0}
      BY <1>2, NodeFacts DEF TokensKept
    <3>2. tree'[a] = IF a \in b .. lex THEN [t |-> "NOP"] ELSE tree[a]
      <4> HIDE DEF b
      <4> QED
        BY <2>3, <3>1 DEF Cut
    <3>3. [t |-> "NOP"].t # "BEGIN_NODE"
      OBVIOUS
    <3>4. tree'[a].t = "BEGIN_NODE" => tree[a].t = "BEGIN_NODE"
      BY <3>2, <3>3
    <3>5. a < b => a \notin b .. lex
      BY <3>1, <1>9
    <3> QED
      BY <3>2, <3>4, <3>5, <1>5
  <2>8. StackKept(dtb, tree', stack', lex + 1)
    <3>1. stack' = [k \in 1 .. Len(stack') |-> stack'[k]]
      BY <1>10 DEF IsStack
    <3> QED
      BY <2>7, <3>1, <1>2, <1>3, <1>10, Closes
  <2>9. PointersKept(scan)' /\ pass' \in 1 .. 15 /\ ~ (pass' <= 12)
    BY <2>1, <1>7 DEF PointersKept
  <2> QED
    BY <2>6, <2>8, <2>9, <1>2, <1>7, <1>11 DEF ScanInv
<1> QED
  BY <1>12, <1>13

\* The next scan begins.
LEMMA EndScanKeeps ==
  ASSUME ScanInv, EndScan
  PROVE  ScanInv'
<1>1. /\ Scanning /\ pass' = pass + 1 /\ stack' = <<NewLevel>> /\ lex' = 1 /\ dtb' = dtb
  BY DEF EndScan
<1>2. /\ WellFormed(dtb) /\ TokensKept(dtb, tree)
      /\ pass \in 1 .. 14 /\ pass <= 14 /\ dtb \in Dtbs
  BY <1>1, Running
<1> DEFINE c == Finish(Now)
           c2 == IF pass < Len(Passes) THEN [c EXCEPT !.scan = NewScan(Passes[pass + 1])] ELSE c
<1>3. IsCall(c) /\ c.tree = tree
  <2>1. IsCall(Now) /\ Now.tree = tree
    BY DEF IsCall, CallFields, Now
  <2> QED
    BY <2>1, FinishLeaves DEF Leaves
<1>4. scan' = c2.scan /\ tree' = c2.tree
  BY DEF EndScan, Becomes
<1> HIDE DEF c
<1>5. tree' = tree /\ (pass < 14 => scan' = NewScan(Passes[pass + 1]))
  BY <1>3, <1>4, PassLen DEF IsCall, CallFields
<1> HIDE DEF c2
<1>6. PointersKept(scan)'
  <2>1. ASSUME pass + 1 = 11
        PROVE  DOMAIN scan' = HartFields /\ scan'.status = NULL
    <3>1. Passes[11] = "filter_harts"
      BY DEF Passes
    <3>2. scan' = NewScan("filter_harts")
      BY <3>1, <2>1, <1>2, <1>5
    <3>3. NewScan("filter_harts") = [compat |-> FALSE, hart |-> -1, status |-> NULL,
                                     mmu_type |-> "none"]
      BY DEF NewScan, Queries, Compats
    <3> QED
      BY <3>2, <3>3 DEF HartFields
  <2>2. ASSUME pass + 1 = 12
        PROVE  DOMAIN scan' = PlicFields /\ scan'.int_value = NULL
    <3>1. Passes[12] = "filter_plic"
      BY DEF Passes
    <3>2. scan' = NewScan("filter_plic")
      BY <3>1, <2>2, <1>2, <1>5
    <3>3. NewScan("filter_plic") = [compat |-> FALSE, reg |-> 0, int_value |-> NULL,
                                    ndev |-> 0, done |-> FALSE]
      BY DEF NewScan, Queries, Compats
    <3> QED
      BY <3>2, <3>3 DEF PlicFields
  <2> QED
    BY <2>1, <2>2, <1>1, <1>2 DEF PointersKept, Points
<1>7. StackKept(dtb, tree, <<NewLevel>>, 1) /\ CountsKept(dtb, <<NewLevel>>, 1)
  BY <1>2, FreshScan
<1>8. pass' <= 12 => \A b \in Nodes(dtb)' : tree'[b].t = "BEGIN_NODE"
  <2>1. Nodes(dtb)' = Nodes(dtb)
    BY <1>1 DEF Nodes
  <2> QED
    BY <2>1, <1>1, <1>2, <1>5 DEF ScanInv
<1>9. pass' \in 1 .. 15
  BY <1>1, <1>2
<1> QED
  BY <1>1, <1>2, <1>5, <1>6, <1>7, <1>8, <1>9 DEF ScanInv

\* Nothing but the scanner's own steps moves it.
THEOREM ScannerKept ==
  ASSUME \A d \in Dtbs : Whole(d)
  PROVE  Spec => []ScanInv
<1>1. Init => ScanInv
  BY ScanInit
<1>2. ScanInv /\ [Next]_vars => ScanInv'
  <2> SUFFICES ASSUME ScanInv, [Next]_vars PROVE ScanInv'
    OBVIOUS
  <2>1. CASE Nop
    BY <2>1, NopKeeps
  <2>2. CASE Prop
    BY <2>2, PropKeeps
  <2>3. CASE BeginNode
    BY <2>3, BeginKeeps
  <2>4. CASE EndNode
    BY <2>4, EndKeeps
  <2>5. CASE EndScan
    BY <2>5, EndScanKeeps
  <2>6. CASE UNCHANGED vars
    BY <2>6 DEF vars, ScanInv, PointersKept, Nodes
  <2> QED
    BY <2>1, <2>2, <2>3, <2>4, <2>5, <2>6 DEF Next
<1> QED
  BY <1>1, <1>2, PTL DEF Spec

-----------------------------------------------------------------------------
(* The scan ends where the tree does, and counts are a node's own *)

\* The scan keeps to the tree, so another token is the END of it.
LEMMA EndsThere ==
  ASSUME \A d \in Dtbs : Whole(d), ScanInv
  PROVE  EndsAtEnd
<1> SUFFICES ASSUME Scanning, AnyOther PROVE tok.t = "END"
  BY DEF EndsAtEnd
<1>1. WellFormed(dtb) /\ TokensKept(dtb, tree) /\ StackKept(dtb, tree, stack, lex) /\ Whole(dtb)
  BY Running
<1>2. tree[lex].t \notin {"NOP", "PROP", "BEGIN_NODE", "END_NODE"}
  BY DEF AnyOther, tok
<1> QED
  BY <1>1, <1>2, OtherIsLast DEF tok

\* What a level has for a count when a child of a child of its node is read.
LEMMA OwnCount ==
  ASSUME NEW d, WellFormed(d), NEW tr, NEW s, NEW l, StackKept(d, tr, s, l),
         NEW k \in 1 .. Len(s) - 1, NEW top \in Nodes(d), s[k].begin < top, top < l,
         Owner(d, s[k].begin) = Above(s, k),
         NEW n, NEW f, NEW x, CountKept(d, s, l, n, f, x),
         \/ Has(d, s[k].begin, n)
         \/ \A a \in Nodes(d) :
              a < s[k].begin /\ Owner(d, a) = Owner(d, s[k].begin) => ~ Has(d, a, n)
  PROVE  s[k][f] = IF Has(d, s[k].begin, n) THEN Value(d, s[k].begin, n)[1] ELSE x
<1> DEFINE p == s[k].begin
<1>1. p \in Nodes(d) /\ p \in Nat \ {0} /\ l \in Nat \ {0}
  BY LevelFacts
<1>2. IF Seen(d, p, n, l) # {} THEN s[k][f] = Value(d, p, n)[1]
      ELSE s[k][f] = x \/ Stated(d, n, Above(s, k), p)
  BY DEF CountKept
<1>3. CASE Has(d, p, n)
  <2>1. PICK i \in Named(d, p, n) : TRUE
    BY <1>3 DEF Has
  <2>2. /\ i \in DOMAIN d /\ i \in Nat
        /\ \A j \in p + 1 .. i : d[j].t \notin {"BEGIN_NODE", "END_NODE"}
    BY <2>1, Shape DEF Named, Own
  <2>3. top \in Nat /\ d[top].t = "BEGIN_NODE"
    BY NodeFacts
  <2>4. i < l
    <3>1. p + 1 <= top
      BY <1>1, <2>3
    <3>2. top \notin p + 1 .. i
      BY <2>2, <2>3
    <3> HIDE DEF p
    <3> QED
      BY <1>1, <2>2, <2>3, <3>1, <3>2
  <2>5. Seen(d, p, n, l) # {}
    BY <2>1, <2>4 DEF Seen
  <2> QED
    BY <1>2, <1>3, <2>5
<1>4. CASE ~ Has(d, p, n)
  <2>1. Seen(d, p, n, l) = {}
    BY <1>4 DEF Has, Seen
  <2>2. ~ Stated(d, n, Above(s, k), p)
    BY <1>4 DEF Stated
  <2> QED
    BY <1>2, <1>4, <2>1, <2>2
<1> QED
  BY <1>3, <1>4

\* The counts of the parent of a node that has a reg are the parent's.
LEMMA ParentCounts ==
  ASSUME ScanInv, Scanning, Len(stack) > 1, Has(dtb, stack[cur].begin, "reg")
  PROVE  /\ cur > 1 /\ Owner(dtb, stack[cur].begin) = stack[cur - 1].begin
         /\ <<stack[cur - 1].address_cells, stack[cur - 1].size_cells>>
              = CountsOf(dtb, stack[cur - 1].begin)
<1>1. /\ WellFormed(dtb) /\ StackKept(dtb, tree, stack, lex) /\ CountsKept(dtb, stack, lex)
      /\ Len(stack) \in Nat
  BY Running DEF StackKept
<1>2. cur \in 1 .. Len(stack) - 1 /\ cur \in Nat
  BY <1>1 DEF cur, level
<1> DEFINE k == cur - 1
           top == stack[cur].begin
           p == stack[k].begin
<1>3. top \in Nodes(dtb) /\ top < lex
  BY <1>1, <1>2, LevelFacts
<1>4. Owner(dtb, top) = Above(stack, cur)
  BY <1>1, <1>2 DEF CountsKept
<1>5. Owner(dtb, top) # 0 /\ StatesCounts(dtb, Owner(dtb, top))
  BY <1>1, <1>3 DEF WellFormed
<1>6. cur # 1 /\ Owner(dtb, top) = p
  BY <1>4, <1>5 DEF Above
<1>7. cur > 1 /\ k \in 1 .. Len(stack) - 1 /\ k \in 1 .. cur - 1
  BY <1>1, <1>2, <1>6
<1>8. p < top
  BY <1>1, <1>2, <1>7 DEF StackKept
<1>9. Owner(dtb, p) = Above(stack, k)
  BY <1>1, <1>7 DEF CountsKept
<1> HIDE DEF k
<1>10. stack[k].address_cells =
         IF Has(dtb, p, "#address-cells") THEN Value(dtb, p, "#address-cells")[1] ELSE 2
  <2>1. CountKept(dtb, stack, lex, "#address-cells", "address_cells", 2)
    BY <1>1 DEF CountsKept
  <2>2. \/ Has(dtb, p, "#address-cells")
        \/ \A a \in Nodes(dtb) :
             a < p /\ Owner(dtb, a) = Owner(dtb, p) => ~ Has(dtb, a, "#address-cells")
    BY <1>5, <1>6 DEF StatesCounts
  <2>3. stack[k]["address_cells"] =
          IF Has(dtb, p, "#address-cells") THEN Value(dtb, p, "#address-cells")[1] ELSE 2
    BY <1>1, <1>3, <1>7, <1>8, <1>9, <2>1, <2>2, OwnCount
  <2> QED
    BY <2>3
<1>11. stack[k].size_cells =
         IF Has(dtb, p, "#size-cells") THEN Value(dtb, p, "#size-cells")[1] ELSE 1
  <2>1. CountKept(dtb, stack, lex, "#size-cells", "size_cells", 1)
    BY <1>1 DEF CountsKept
  <2>2. \/ Has(dtb, p, "#size-cells")
        \/ \A a \in Nodes(dtb) :
             a < p /\ Owner(dtb, a) = Owner(dtb, p) => ~ Has(dtb, a, "#size-cells")
    BY <1>5, <1>6 DEF StatesCounts
  <2>3. stack[k]["size_cells"] =
          IF Has(dtb, p, "#size-cells") THEN Value(dtb, p, "#size-cells")[1] ELSE 1
    BY <1>1, <1>3, <1>7, <1>8, <1>9, <2>1, <2>2, OwnCount
  <2> QED
    BY <2>3
<1>12. <<stack[k].address_cells, stack[k].size_cells>> = CountsOf(dtb, p)
  BY <1>10, <1>11 DEF CountsOf
<1> QED
  BY <1>6, <1>7, <1>12 DEF k

\* When a reg is read they are the ones it is read with.
LEMMA CountsOwn ==
  ASSUME ScanInv
  PROVE  OwnCounts
<1> SUFFICES ASSUME Scanning, cur > 1, tok.t = "PROP", tok.name = "reg"
             PROVE  <<stack[cur - 1].address_cells, stack[cur - 1].size_cells>>
                      = CountsOf(dtb, stack[cur - 1].begin)
  BY DEF OwnCounts
<1>1. /\ WellFormed(dtb) /\ TokensKept(dtb, tree) /\ StackKept(dtb, tree, stack, lex)
      /\ lex \in DOMAIN dtb
  BY Running
<1>2. tree[lex].t = "PROP" /\ tree[lex].name = "reg"
  BY DEF tok
<1>3. Len(stack) > 1 /\ dtb[lex].t = "PROP" /\ Own(dtb, stack[Len(stack) - 1].begin, lex)
  BY <1>1, <1>2, PropOfTop
<1>4. dtb[lex].name = "reg"
  BY <1>1, <1>2, TokenIs
<1>5. Has(dtb, stack[cur].begin, "reg")
  BY <1>1, <1>3, <1>4 DEF Has, Named, cur, level
<1> QED
  BY <1>3, <1>5, ParentCounts

\* The scan of fdt.c takes no word for FDT_END but the one that ends the tree,
\* when no value is longer than what a filter writes over it.
THEOREM ScanEndsAtEnd ==
  ASSUME \A d \in Dtbs : Whole(d)
  PROVE  Spec => []EndsAtEnd
<1>1. Spec => []ScanInv
  BY ScannerKept
<1>2. ScanInv => EndsAtEnd
  BY EndsThere
<1> QED
  BY <1>1, <1>2, PTL

\* The address of a device is read with the counts of its own parent, though
\* fdt_scan_helper has one `child' for all the children of a node.
THEOREM CountsAreOwn ==
  ASSUME \A d \in Dtbs : Whole(d)
  PROVE  Spec => []OwnCounts
<1>1. Spec => []ScanInv
  BY ScannerKept
<1>2. ScanInv => OwnCounts
  BY CountsOwn
<1> QED
  BY <1>1, <1>2, PTL

-----------------------------------------------------------------------------
(* The filters *)

\* The properties of node cur are being read.
Doing == Len(stack) > 1 /\ ~ stack[Len(stack)].last
TopNode == stack[Len(stack) - 1].begin

\* The nodes whose properties have all been read.
HandledNodes == {b \in Nodes(dtb) : b < lex /\ ~ (Doing /\ b = TopNode)}

MaskedToken(p) == [p EXCEPT !.value = "masked", !.more = 0]
RedactedToken(p) ==
  [p EXCEPT !.value = [i \in DOMAIN @ |-> IF i % 2 = 0 /\ @[i] = IRQ_M_EXT
                                          THEN CellBase - 1 ELSE @[i]]]

\* d when the unfit harts of B are masked.
WithMasked(d, B) ==
  [i \in DOMAIN d |-> IF \E b \in Unfit(d) \cap B : i \in Named(d, b, "status")
                      THEN MaskedToken(d[i]) ELSE d[i]]

\* tr when the plics of B are redacted.
WithRedacted(d, tr, B) ==
  [i \in DOMAIN d |-> IF \E b \in Plics(d) \cap B : i \in Named(d, b, "interrupts-extended")
                      THEN RedactedToken(tr[i]) ELSE tr[i]]

\* tr when the nodes of G are deleted.
WithDeleted(d, tr, G) ==
  [i \in DOMAIN d |-> IF \E g \in G : In(d, g, i) THEN [t |-> "NOP"] ELSE tr[i]]

\* What the code takes a node's reg for, and the bits of the unfit harts of B.
HartOfReg(d, b) == ToInt(Address(d, b))
Names(d, B) == UNION {OneShifted(HartOfReg(d, b)) : b \in Unfit(d) \cap B}

HartsMasked == WithMasked(dtb, Nodes(dtb))
PlicsRedacted == WithRedacted(dtb, HartsMasked, Nodes(dtb))
ClintsDeleted == WithDeleted(dtb, PlicsRedacted, CompatibleWith(dtb, "riscv,clint0"))
AllFiltered == WithDeleted(dtb, ClintsDeleted, CompatibleWith(dtb, "riscv,debug-013"))

\* What filter_harts has of node b when its properties before token l are read.
HartSeen(sc, d, b, l) ==
  /\ sc.compat <=> \E i \in Seen(d, b, "device_type", l) : d[i].value = "cpu"
  /\ sc.hart = IF Seen(d, b, "reg", l) = {} THEN -1 ELSE HartOfReg(d, b)
  /\ IF Seen(d, b, "status", l) = {} THEN sc.status = NULL
     ELSE sc.status \in Seen(d, b, "status", l)
  /\ sc.mmu_type = IF Seen(d, b, "mmu-type", l) = {} THEN "none" ELSE Value(d, b, "mmu-type")

\* What filter_plic has.
PlicSeen(sc, d, b, l) ==
  /\ sc.compat <=> \E i \in Seen(d, b, "compatible", l) : Lists(d[i], "riscv,plic0")
  /\ IF Seen(d, b, "interrupts-extended", l) = {} THEN sc.int_value = NULL
     ELSE sc.int_value \in Seen(d, b, "interrupts-extended", l)

Ended(d, b, l) == b < l /\ ~ Holds(d, b, l)

\* The nodes filter_compat has deleted when it is at token l with levels s and
\* locals sc, if all that are compatible with str go.
Gone(d, str, s, l, sc) ==
  {b \in CompatibleWith(d, str) :
     Ended(d, b, l) /\ (sc.kill = 999 \/ b < s[sc.kill].begin)}

\* The locals of filter_compat: kill is the outermost level whose node is known
\* to be compatible.
KillKept(d, str, s, l, sc) ==
  /\ DOMAIN sc = {"depth", "kill"}
  /\ sc.depth = Len(s) - 1
  /\ sc.kill \in (1 .. Len(s) - 1) \cup {999}
  /\ sc.kill # 999 => s[sc.kill].begin \in CompatibleWith(d, str)
  /\ \A k \in 1 .. Len(s) - 1 :
       k < sc.kill =>
         \A i \in Seen(d, s[k].begin, "compatible", l) : ~ Lists(d[i], str)

\* filter_compat makes t of tr.
Deleting(d, tr, str, t, s, l, sc) ==
  KillKept(d, str, s, l, sc) /\ t = WithDeleted(d, tr, Gone(d, str, s, l, sc))

\* Harts of B without a status or a number would have failed an assertion.
Described(d, B) ==
  \A b \in OfType(d, "cpu") \cap B : Has(d, b, "status") /\ Has(d, b, "reg")

QueriesInv == pass <= 10 => tree = dtb /\ found.disabled_hart_mask = {}

HartsInv ==
  pass = 11 =>
    /\ tree = WithMasked(dtb, HandledNodes)
    /\ found.disabled_hart_mask = Names(dtb, HandledNodes)
    /\ Described(dtb, HandledNodes)
    /\ Doing => HartSeen(scan, dtb, TopNode, lex)

MaskInv ==
  pass >= 12 =>
    /\ found.disabled_hart_mask = Names(dtb, Nodes(dtb))
    /\ Described(dtb, Nodes(dtb))

PlicsInv ==
  pass = 12 =>
    /\ tree = WithRedacted(dtb, HartsMasked, HandledNodes)
    /\ Doing => PlicSeen(scan, dtb, TopNode, lex)

DeleteInv ==
  /\ pass = 13 => Deleting(dtb, PlicsRedacted, "riscv,clint0", tree, stack, lex, scan)
  /\ pass = 14 => Deleting(dtb, ClintsDeleted, "riscv,debug-013", tree, stack, lex, scan)
  /\ pass = 15 => tree = AllFiltered

\* Each filter has done its work on the nodes it is past.
FilterInv ==
  /\ DOMAIN found = FoundFields
  /\ pass = 15 => ~ failed
  /\ ~ failed => QueriesInv /\ HartsInv /\ MaskInv /\ PlicsInv /\ DeleteInv

-----------------------------------------------------------------------------
(* What is left until the filters *)

\* What the callbacks leave of the tree and the disabled harts is the next state's.
LeftAlone ==
  /\ tree' = tree
  /\ DOMAIN found = FoundFields =>
       DOMAIN found' = FoundFields /\ found'.disabled_hart_mask = found.disabled_hart_mask

\* A callback that keeps to its locals leaves the tree and the mask.
LEMMA BecomingLeft ==
  ASSUME NEW c, Leaves(Now, c), Becomes(c)
  PROVE  LeftAlone
<1>1. Now.tree = tree /\ Now.found = found
  BY DEF Now
<1>2. tree' = c.tree /\ found' = c.found
  BY DEF Becomes
<1> QED
  BY <1>1, <1>2 DEF Leaves, FoundLeft, LeftAlone

\* So do two of them.
LEMMA LeavesTwice ==
  ASSUME NEW c1, NEW c2, NEW c3, Leaves(c1, c2), Leaves(c2, c3)
  PROVE  Leaves(c1, c3)
BY DEF Leaves, FoundLeft

\* Calling none leaves them.
LEMMA NowLeft == IsCall(Now) /\ Leaves(Now, Now)
BY DEF IsCall, CallFields, Now, Leaves, FoundLeft

\* NOPs leave the tree and the mask.
LEMMA NopLeft ==
  ASSUME Nop
  PROVE  LeftAlone
BY DEF Nop, LeftAlone

\* Reading a property does.
LEMMA PropLeft ==
  ASSUME ScanInv, Prop
  PROVE  LeftAlone
<1>1. Passes[pass] \in PassNames
  BY Running, PassIs DEF Prop
<1>2. Leaves(Now, HasProp(Now, cur, tok)) /\ Leaves(Now, Fail(Now))
  BY <1>1, NowLeft, PropLeaves, FailLeaves
<1> QED
  BY <1>2, BecomingLeft DEF Prop

\* Ending a scan does.
LEMMA EndScanLeft ==
  ASSUME ScanInv, EndScan
  PROVE  LeftAlone
<1> DEFINE c == Finish(Now)
           c2 == IF pass < Len(Passes) THEN [c EXCEPT !.scan = NewScan(Passes[pass + 1])] ELSE c
<1>1. Leaves(Now, c)
  BY NowLeft, FinishLeaves
<1>2. Becomes(c2)
  BY DEF EndScan
<1> HIDE DEF c
<1>3. Leaves(Now, c2)
  BY <1>1 DEF Leaves, FoundLeft, IsCall, CallFields
<1> HIDE DEF c2
<1> QED
  BY <1>2, <1>3, BecomingLeft

\* But for the two filters that write, done leaves what the others do.
LEMMA DoneOnceLeft ==
  ASSUME ScanInv, Scanning, pass \notin {11, 12}
  PROVE  Leaves(Now, DoneOnce(Now))
<1>1. Passes[pass] \in PassNames /\ Passes[pass] \notin {"filter_harts", "filter_plic"}
  BY Running, PassIs
<1>2. Leaves(Now, Done(Now, cur))
  BY <1>1, NowLeft, DoneLeaves
<1> QED
  BY <1>2, NowLeft DEF DoneOnce

\* Entering a node does, unless done writes.
LEMMA BeginLeft ==
  ASSUME ScanInv, BeginNode, Leaves(Now, DoneOnce(Now))
  PROVE  LeftAlone
<1> DEFINE c == DoneOnce(Now)
<1>1. Passes[pass] \in PassNames
  BY Running, PassIs DEF BeginNode
<1>2. Becomes(Open(c, level, tok.name)) /\ Leaves(Now, c)
  BY DEF BeginNode
<1> HIDE DEF c
<1>3. Leaves(c, Open(c, level, tok.name))
  BY <1>1, <1>2, OpenLeaves DEF Leaves
<1> QED
  BY <1>2, <1>3, LeavesTwice, BecomingLeft

\* Leaving a node does, unless done writes or the node is deleted.
LEMMA EndLeft ==
  ASSUME ScanInv, EndNode, Leaves(Now, DoneOnce(Now)), pass <= 12
  PROVE  LeftAlone
<1> DEFINE c == DoneOnce(Now)
<1>1. /\ Passes[pass] \in PassNames
      /\ Passes[pass] \notin Compats
  BY Running, PassIs DEF EndNode
<1>2. Leaves(Now, c) /\ Becomes(Close(c, cur))
  BY <1>1 DEF EndNode, Return, Deletes
<1> HIDE DEF c
<1>3. Leaves(c, Close(c, cur))
  BY <1>1, <1>2, CloseLeaves DEF Leaves
<1> QED
  BY <1>2, <1>3, LeavesTwice, BecomingLeft

\* The queries leave the tree and the disabled harts.
LEMMA QueriesLeave ==
  ASSUME ScanInv, Next, pass <= 10
  PROVE  LeftAlone
<1>1. CASE Nop
  BY <1>1, NopLeft
<1>2. CASE Prop
  BY <1>2, PropLeft
<1>3. CASE BeginNode
  <2>1. Scanning /\ pass \notin {11, 12}
    BY <1>3 DEF BeginNode
  <2> QED
    BY <2>1, <1>3, DoneOnceLeft, BeginLeft
<1>4. CASE EndNode
  <2>1. Scanning /\ pass \notin {11, 12} /\ pass <= 12
    BY <1>4, Running DEF EndNode
  <2> QED
    BY <2>1, <1>4, DoneOnceLeft, EndLeft
<1>5. CASE EndScan
  BY <1>5, EndScanLeft
<1> QED
  BY <1>1, <1>2, <1>3, <1>4, <1>5 DEF Next

-----------------------------------------------------------------------------
(* Which nodes are done with *)

\* A property is the top node's own.
LEMMA PropIs ==
  ASSUME ScanInv, Prop
  PROVE  /\ Scanning /\ tree[lex].t = "PROP" /\ dtb[lex].t = "PROP"
         /\ Doing /\ TopNode \in Nodes(dtb) /\ Own(dtb, TopNode, lex) /\ cur = Len(stack) - 1
         /\ tok.name = dtb[lex].name
         /\ dtb[lex].name \notin {"status", "interrupts-extended"} => tok = dtb[lex]
         /\ lex' = lex + 1 /\ UNCHANGED <<dtb, pass>>
         /\ Becomes(HasProp(Now, cur, tok))
<1>1. Scanning /\ tree[lex].t = "PROP" /\ UNCHANGED <<dtb, pass>>
  BY DEF Prop, tok
<1>2. /\ WellFormed(dtb) /\ TokensKept(dtb, tree) /\ StackKept(dtb, tree, stack, lex)
      /\ lex \in DOMAIN dtb
  BY <1>1, Running
<1>3. /\ Len(stack) > 1 /\ ~ stack[Len(stack)].last /\ dtb[lex].t = "PROP"
      /\ Own(dtb, TopNode, lex)
  BY <1>1, <1>2, PropOfTop DEF TopNode
<1>4. /\ IsProp(tok) /\ tok.name = dtb[lex].name
      /\ dtb[lex].name \notin {"status", "interrupts-extended"} => tok = dtb[lex]
  BY <1>1, <1>2, <1>3, TokenIs DEF tok
<1>5. lex' = lex + 1
  <2>1. tok.more = 0 /\ lex \in Nat
    BY <1>2, <1>4, Shape DEF IsProp
  <2> QED
    BY <2>1 DEF Prop
<1>6. Becomes(HasProp(Now, cur, tok))
  BY <1>3 DEF Prop, level
<1>7. TopNode \in Nodes(dtb)
  <2>1. Len(stack) \in Nat
    BY <1>2 DEF StackKept
  <2>2. Len(stack) - 1 \in 1 .. Len(stack) - 1
    BY <2>1, <1>3
  <2> QED
    BY <2>2, <1>2, LevelFacts DEF TopNode
<1> QED
  BY <1>1, <1>3, <1>4, <1>5, <1>6, <1>7 DEF Doing, cur, level

\* The top node while its properties are read, and when the last has been.
LEMMA TopFacts ==
  ASSUME ScanInv, Scanning, Len(stack) > 1
  PROVE  /\ Len(stack) - 1 \in 1 .. Len(stack) - 1
         /\ TopNode \in Nodes(dtb) /\ TopNode \in Nat \ {0} /\ TopNode < lex
         /\ lex \in Nat \ {0} /\ Holds(dtb, TopNode, lex)
         /\ tree[TopNode].t = "BEGIN_NODE"
<1>1. WellFormed(dtb) /\ StackKept(dtb, tree, stack, lex)
  BY Running
<1>2. Len(stack) - 1 \in 1 .. Len(stack) - 1
  <2>1. Len(stack) \in Nat
    BY <1>1 DEF StackKept
  <2> QED
    BY <2>1
<1> QED
  BY <1>1, <1>2, LevelFacts DEF TopNode

\* Tokens that neither begin nor end a node leave what is done with.
LEMMA HandledSame ==
  ASSUME ScanInv, Nop \/ Prop, pass <= 12
  PROVE  Doing' = Doing /\ (Doing => TopNode' = TopNode) /\ HandledNodes' = HandledNodes
<1>1. /\ Scanning /\ tree[lex].t \in {"NOP", "PROP"} /\ lex' = lex + 1 /\ UNCHANGED <<dtb, pass>>
      /\ Len(stack') = Len(stack)
      /\ \A k \in 1 .. Len(stack) : /\ stack'[k].begin = stack[k].begin
                                    /\ stack'[k].last = stack[k].last
  <2>1. CASE Nop
    BY <2>1 DEF Nop, tok
  <2>2. CASE Prop
    BY <2>2, PropIs, PropStack
  <2> QED
    BY <2>1, <2>2
<1>2. Len(stack) \in Nat \ {0}
  BY <1>1, Running DEF IsStack
<1>3. Doing' = Doing
  BY <1>1, <1>2 DEF Doing
<1>4. Doing => TopNode' = TopNode
  <2>1. Len(stack) > 1 => Len(stack) - 1 \in 1 .. Len(stack)
    BY <1>2
  <2> QED
    BY <2>1, <1>1 DEF Doing, TopNode
<1>5. \A b \in Nodes(dtb) : b < lex' <=> b < lex
  <2> TAKE b \in Nodes(dtb)
  <2>1. b \in Nat /\ lex \in Nat
    BY <1>1, Running, NodeFacts, Shape
  <2>2. b # lex
    BY <1>1 DEF ScanInv
  <2> QED
    BY <1>1, <2>1, <2>2
<1>6. Nodes(dtb)' = Nodes(dtb)
  BY <1>1 DEF Nodes
<1> QED
  BY <1>3, <1>4, <1>5, <1>6 DEF HandledNodes

\* A child that begins is being read, and its parent is done with.
LEMMA HandledBegin ==
  ASSUME ScanInv, BeginNode, pass <= 12
  PROVE  /\ Doing' /\ TopNode' = lex /\ lex \in Nodes(dtb)
         /\ HandledNodes' = HandledNodes \cup (IF Doing THEN {TopNode} ELSE {})
<1>1. Scanning /\ tree[lex].t = "BEGIN_NODE" /\ lex' = lex + 1 /\ UNCHANGED <<dtb, pass>>
  BY DEF BeginNode, tok
<1>2. /\ WellFormed(dtb) /\ TokensKept(dtb, tree) /\ lex \in DOMAIN dtb /\ lex \in Nat \ {0}
      /\ Len(stack) \in Nat \ {0}
  BY <1>1, Running, Shape DEF IsStack
<1>3. lex \in Nodes(dtb)
  BY <1>1, <1>2, TokenIs DEF Nodes
<1>4. Doing' /\ TopNode' = lex
  <2>1. /\ Len(stack') = Len(stack) + 1 /\ stack'[Len(stack) + 1].last = FALSE
        /\ stack'[Len(stack)].begin = lex
    BY BeginStack
  <2>2. Len(stack') > 1 /\ Len(stack') - 1 = Len(stack)
    BY <1>2, <2>1
  <2> QED
    BY <2>1, <2>2 DEF Doing, TopNode
<1>5. \A b \in Nodes(dtb) : b < lex' /\ b # lex <=> b < lex
  BY <1>1, <1>2, NodeFacts
<1>6. Nodes(dtb)' = Nodes(dtb)
  BY <1>1 DEF Nodes
<1>7. Doing => TopNode \in Nodes(dtb) /\ TopNode < lex
  BY <1>1, TopFacts DEF Doing
<1> QED
  BY <1>3, <1>4, <1>5, <1>6, <1>7 DEF HandledNodes

\* A node that ends is done with.
LEMMA HandledEnd ==
  ASSUME \A d \in Dtbs : Whole(d), ScanInv, EndNode, pass <= 12
  PROVE  /\ ~ Doing'
         /\ HandledNodes' = HandledNodes \cup (IF Doing THEN {TopNode} ELSE {})
<1>1. /\ Scanning /\ tree[lex].t = "END_NODE" /\ lex' = lex + 1 /\ UNCHANGED <<dtb, pass>>
      /\ Len(stack) > 1 /\ Len(stack') = Len(stack) - 1
      /\ \A k \in 1 .. Len(stack) - 1 : stack'[k] = stack[k]
  BY EndStack
<1>2. /\ WellFormed(dtb) /\ StackKept(dtb, tree, stack, lex) /\ lex \in Nat \ {0}
      /\ Len(stack) \in Nat \ {0}
  BY <1>1, Running, Shape DEF IsStack
<1>3. ~ Doing'
  <2>1. Len(stack) - 1 \in 1 .. Len(stack) - 1
    BY <1>1, <1>2
  <2>2. stack[Len(stack) - 1].last = TRUE
    BY <1>2, <2>1 DEF StackKept
  <2> QED
    BY <1>1, <2>1, <2>2 DEF Doing
<1>4. \A b \in Nodes(dtb) : b < lex' <=> b < lex
  <2> TAKE b \in Nodes(dtb)
  <2>1. b \in Nat
    BY <1>2, NodeFacts
  <2>2. b # lex
    BY <1>1 DEF ScanInv
  <2> QED
    BY <1>1, <1>2, <2>1, <2>2
<1>5. Nodes(dtb)' = Nodes(dtb)
  BY <1>1 DEF Nodes
<1>6. Doing => TopNode \in Nodes(dtb) /\ TopNode < lex
  BY <1>1, TopFacts DEF Doing
<1> QED
  BY <1>3, <1>4, <1>5, <1>6 DEF HandledNodes

\* When the scan is over every node is done with, and in the next none is.
LEMMA HandledOver ==
  ASSUME \A d \in Dtbs : Whole(d), ScanInv, EndScan
  PROVE  /\ ~ Doing /\ HandledNodes = Nodes(dtb) /\ lex = Len(dtb) /\ Len(stack) = 1
         /\ ~ Doing' /\ HandledNodes' = {} /\ dtb' = dtb
<1>1. /\ Scanning /\ AnyOther /\ cur = NULL /\ stack' = <<NewLevel>> /\ lex' = 1 /\ dtb' = dtb
  BY DEF EndScan
<1>2. /\ WellFormed(dtb) /\ TokensKept(dtb, tree) /\ StackKept(dtb, tree, stack, lex)
      /\ Whole(dtb)
  BY <1>1, Running
<1>3. lex = Len(dtb) /\ Len(stack) = 1
  <2>1. tree[lex].t \notin {"NOP", "PROP", "BEGIN_NODE", "END_NODE"}
    BY <1>1 DEF AnyOther, tok
  <2> QED
    BY <2>1, <1>2, OtherIsLast
<1>4. ~ Doing
  BY <1>3 DEF Doing
<1>5. ~ Doing'
  <2>1. Len(<<NewLevel>>) = 1
    OBVIOUS
  <2> QED
    BY <2>1, <1>1 DEF Doing
<1>6. \A b \in Nodes(dtb) : b < Len(dtb) /\ ~ (b < 1)
  <2> TAKE b \in Nodes(dtb)
  <2>1. b \in 1 .. Len(dtb) /\ Len(dtb) \in Nat /\ b # Len(dtb)
    BY <1>2, Shape, LastIsFree
  <2> QED
    BY <2>1
<1>7. Nodes(dtb)' = Nodes(dtb)
  BY <1>1 DEF Nodes
<1> QED
  BY <1>1, <1>3, <1>4, <1>5, <1>6, <1>7 DEF HandledNodes

-----------------------------------------------------------------------------
(* What is seen of a node *)

\* Nothing is, where it begins.
LEMMA NoneSeen ==
  ASSUME NEW d, WellFormed(d), NEW b \in Nodes(d), NEW m, m = b + 1, NEW n
  PROVE  Seen(d, b, n, m) = {}
<1>1. b \in Nat
  BY NodeFacts
<1>2. \A i \in Named(d, b, n) : b < i /\ i \in Nat
  BY Shape DEF Named, Own
<1> QED
  BY <1>1, <1>2 DEF Seen

\* Its property is, where it is read.
LEMMA OneSeen ==
  ASSUME NEW d, WellFormed(d), NEW b \in Nodes(d), NEW l \in DOMAIN d, Own(d, b, l),
         d[l].t = "PROP", NEW m, m = l + 1, NEW n
  PROVE  IF n = d[l].name
         THEN /\ Seen(d, b, n, m) = {l} /\ Seen(d, b, n, l) = {}
              /\ Named(d, b, n) = {l} /\ Value(d, b, n) = d[l].value
         ELSE Seen(d, b, n, m) = Seen(d, b, n, l)
<1>1. l \in Nat
  BY Shape
<1>2. l \in Named(d, b, n) <=> n = d[l].name
  BY DEF Named
<1>3. n = d[l].name => Named(d, b, n) = {l} /\ Value(d, b, n) = d[l].value
  BY <1>2, NamedIs
<1>4. n = d[l].name => Seen(d, b, n, m) = {l} /\ Seen(d, b, n, l) = {}
  BY <1>1, <1>3 DEF Seen
<1>5. n # d[l].name => Seen(d, b, n, m) = Seen(d, b, n, l)
  BY <1>2, SeenNext
<1> QED
  BY <1>3, <1>4, <1>5

\* All of them are, where a child begins or it ends.
LEMMA AllSeen ==
  ASSUME NEW d, WellFormed(d), NEW b \in Nodes(d), NEW l \in DOMAIN d, b < l,
         d[l].t \in {"BEGIN_NODE", "END_NODE"}, NEW n
  PROVE  Seen(d, b, n, l) = Named(d, b, n)
<1>1. b \in Nat /\ l \in Nat
  BY NodeFacts, Shape
<1>2. ASSUME NEW i \in Named(d, b, n) PROVE i < l
  <2>1. i \in Nat /\ l \notin b + 1 .. i
    BY Shape DEF Named, Own
  <2> QED
    BY <1>1, <2>1
<1> QED
  BY <1>2 DEF Seen

\* A property belongs to one node.
LEMMA NamedApart ==
  ASSUME NEW d, WellFormed(d), NEW a \in Nodes(d), NEW b \in Nodes(d), NEW n, NEW k,
         NEW i \in Named(d, a, n), i \in Named(d, b, k)
  PROVE  a = b
<1>1. Own(d, a, i) /\ Own(d, b, i) /\ i \in DOMAIN d /\ i \in Nat \ {0}
  BY Shape DEF Named
<1>2. a \in Nat \ {0} /\ b \in Nat \ {0} /\ d[a].t = "BEGIN_NODE" /\ d[b].t = "BEGIN_NODE"
  BY NodeFacts
<1>3. In(d, a, i) /\ In(d, b, i)
  BY <1>1, <1>2, OwnDepth DEF In
<1>4. a <= b /\ b <= a
  BY <1>1, <1>3, OwnInnermost
<1> QED
  BY <1>2, <1>4

\* A node's reg is read as its address.
LEMMA RegRead ==
  ASSUME ScanInv, Prop, dtb[lex].name = "reg"
  PROVE  GetAddress(cur - 1, tok.value) = Address(dtb, TopNode)
<1>1. /\ Scanning /\ dtb[lex].t = "PROP" /\ Doing /\ TopNode \in Nodes(dtb)
      /\ Own(dtb, TopNode, lex) /\ cur = Len(stack) - 1 /\ tok = dtb[lex]
  BY PropIs
<1>2. WellFormed(dtb) /\ lex \in DOMAIN dtb
  BY <1>1, Running
<1>3. lex \in Named(dtb, TopNode, "reg")
  BY <1>1, <1>2 DEF Named
<1>4. Value(dtb, TopNode, "reg") = tok.value /\ Has(dtb, TopNode, "reg")
  BY <1>1, <1>2, <1>3, NamedIs
<1> DEFINE x == stack[cur - 1].address_cells
           y == stack[cur - 1].size_cells
<1>5. <<x, y>> = CountsOf(dtb, Owner(dtb, TopNode))
  BY <1>1, <1>4, ParentCounts DEF Doing, TopNode
<1>6. <<x, y>>[1] = x
  OBVIOUS
<1> HIDE DEF x, y
<1>7. CountsOf(dtb, Owner(dtb, TopNode))[1] = x
  BY <1>5, <1>6
<1> QED
  BY <1>4, <1>7 DEF GetAddress, Address, x

-----------------------------------------------------------------------------
(* filter_harts *)

\* A node that begins has nothing seen of it.
LEMMA HartSeenOpen ==
  ASSUME NEW d, WellFormed(d), NEW b \in Nodes(d), NEW m, m = b + 1
  PROVE  HartSeen(NewScan("filter_harts"), d, b, m)
<1>1. NewScan("filter_harts") = [compat |-> FALSE, hart |-> -1, status |-> NULL,
                                 mmu_type |-> "none"]
  BY DEF NewScan, Queries, Compats
<1>2. /\ Seen(d, b, "device_type", m) = {} /\ Seen(d, b, "reg", m) = {}
      /\ Seen(d, b, "status", m) = {} /\ Seen(d, b, "mmu-type", m) = {}
  BY NoneSeen
<1> QED
  BY <1>1, <1>2 DEF HartSeen

\* What hart_filter_prop notes of a property.
LEMMA HartPropIs ==
  ASSUME pass = 11, DOMAIN scan = HartFields
  PROVE  LET sc == HasProp(Now, cur, tok).scan
         IN /\ sc.compat = IF tok.name = "device_type" /\ tok.value = "cpu" THEN TRUE
                           ELSE scan.compat
            /\ sc.hart = IF tok.name = "reg" THEN ToInt(GetAddress(cur - 1, tok.value))
                          ELSE scan.hart
            /\ sc.status = IF tok.name = "status" THEN lex ELSE scan.status
            /\ sc.mmu_type = IF tok.name = "mmu-type" THEN tok.value ELSE scan.mmu_type
<1>1. Passes[pass] = "filter_harts"
  BY DEF Passes
<1>2. HasProp(Now, cur, tok) = hart_filter_prop(Now, cur, tok)
  BY <1>1 DEF HasProp, Compats
<1> DEFINE c == Now
<1>3. IsCall(c) /\ c.scan = scan
  BY DEF IsCall, CallFields, Now
<1> HIDE DEF c
<1>4. LET sc == hart_filter_prop(c, cur, tok).scan
      IN /\ sc.compat = IF tok.name = "device_type" /\ tok.value = "cpu" THEN TRUE
                        ELSE scan.compat
         /\ sc.hart = IF tok.name = "reg" THEN ToInt(GetAddress(cur - 1, tok.value))
                          ELSE scan.hart
         /\ sc.status = IF tok.name = "status" THEN lex ELSE scan.status
         /\ sc.mmu_type = IF tok.name = "mmu-type" THEN tok.value ELSE scan.mmu_type
  BY <1>3 DEF hart_filter_prop, IsCall, CallFields, HartFields
<1> QED
  BY <1>2, <1>4 DEF c

\* filter_harts takes down the properties of a node.
LEMMA HartProp ==
  ASSUME ScanInv, Prop, pass = 11, HartSeen(scan, dtb, TopNode, lex)
  PROVE  HartSeen(scan', dtb, TopNode, lex')
<1>1. /\ Scanning /\ dtb[lex].t = "PROP" /\ TopNode \in Nodes(dtb) /\ Own(dtb, TopNode, lex)
      /\ tok.name = dtb[lex].name
      /\ dtb[lex].name \notin {"status", "interrupts-extended"} => tok = dtb[lex]
      /\ lex' = lex + 1 /\ Becomes(HasProp(Now, cur, tok))
  BY PropIs
<1>2. WellFormed(dtb) /\ lex \in DOMAIN dtb /\ DOMAIN scan = HartFields
  BY <1>1, Running DEF ScanInv, PointersKept
<1> DEFINE b == TopNode
           name == dtb[lex].name
<1>3. \A n : IF n = name
             THEN /\ Seen(dtb, b, n, lex') = {lex} /\ Seen(dtb, b, n, lex) = {}
                  /\ Named(dtb, b, n) = {lex} /\ Value(dtb, b, n) = dtb[lex].value
             ELSE Seen(dtb, b, n, lex') = Seen(dtb, b, n, lex)
  BY <1>1, <1>2, OneSeen
<1>4. scan' = HasProp(Now, cur, tok).scan
  BY <1>1 DEF Becomes
<1>5. /\ scan'.compat = IF tok.name = "device_type" /\ tok.value = "cpu" THEN TRUE
                        ELSE scan.compat
      /\ scan'.hart = IF tok.name = "reg" THEN ToInt(GetAddress(cur - 1, tok.value))
                          ELSE scan.hart
      /\ scan'.status = IF tok.name = "status" THEN lex ELSE scan.status
      /\ scan'.mmu_type = IF tok.name = "mmu-type" THEN tok.value ELSE scan.mmu_type
  BY <1>2, <1>4, HartPropIs
<1>6. name = "reg" => ToInt(GetAddress(cur - 1, tok.value)) = HartOfReg(dtb, b)
  BY RegRead DEF HartOfReg
<1> HIDE DEF b, name
<1>7. /\ scan.compat <=> \E i \in Seen(dtb, b, "device_type", lex) : dtb[i].value = "cpu"
      /\ scan.hart = IF Seen(dtb, b, "reg", lex) = {} THEN -1 ELSE HartOfReg(dtb, b)
      /\ IF Seen(dtb, b, "status", lex) = {} THEN scan.status = NULL
         ELSE scan.status \in Seen(dtb, b, "status", lex)
      /\ scan.mmu_type = IF Seen(dtb, b, "mmu-type", lex) = {} THEN "none"
                         ELSE Value(dtb, b, "mmu-type")
  BY DEF HartSeen, b
<1>8. tok.name = name /\ (name \notin {"status", "interrupts-extended"} => tok.value = dtb[lex].value)
  BY <1>1 DEF name
<1>9. scan'.compat <=> \E i \in Seen(dtb, b, "device_type", lex') : dtb[i].value = "cpu"
  BY <1>3, <1>5, <1>7, <1>8
<1>10. scan'.hart = IF Seen(dtb, b, "reg", lex') = {} THEN -1 ELSE HartOfReg(dtb, b)
  BY <1>3, <1>5, <1>6, <1>7, <1>8
<1>11. IF Seen(dtb, b, "status", lex') = {} THEN scan'.status = NULL
       ELSE scan'.status \in Seen(dtb, b, "status", lex')
  BY <1>3, <1>5, <1>7, <1>8
<1>12. scan'.mmu_type = IF Seen(dtb, b, "mmu-type", lex') = {} THEN "none"
                        ELSE Value(dtb, b, "mmu-type")
  BY <1>3, <1>5, <1>7, <1>8
<1> QED
  BY <1>9, <1>10, <1>11, <1>12 DEF HartSeen, b

\* The tree and the disabled harts when filter_harts is done with the nodes of B.
HartsDone(c, B) ==
  ~ c.failed =>
    /\ c.tree = WithMasked(dtb, B)
    /\ c.found.disabled_hart_mask = Names(dtb, B)
    /\ Described(dtb, B)

\* done masks the node if it is an unfit hart.
LEMMA HartDone ==
  ASSUME ScanInv, Scanning, pass = 11, Doing, dtb[lex].t \in {"BEGIN_NODE", "END_NODE"},
         HartSeen(scan, dtb, TopNode, lex), HartsDone(Now, HandledNodes),
         DOMAIN found = FoundFields
  PROVE  HartsDone(Done(Now, cur), HandledNodes \cup {TopNode})
<1> DEFINE b == TopNode
           B == HandledNodes
           c == Done(Now, cur)
<1>1. /\ WellFormed(dtb) /\ lex \in DOMAIN dtb /\ b \in Nodes(dtb) /\ b < lex
      /\ B \subseteq Nodes(dtb) /\ b \notin B
  BY Running, TopFacts DEF Doing, HandledNodes
<1>2. \A n : Seen(dtb, b, n, lex) = Named(dtb, b, n)
  BY <1>1, AllSeen
<1>3. c = hart_filter_done(Now, cur)
  BY DEF Done, Passes, Queries
<1>4. /\ ~ failed /\ tree = WithMasked(dtb, B) /\ found.disabled_hart_mask = Names(dtb, B)
      /\ Described(dtb, B)
  BY DEF HartsDone, Now, Scanning
<1> HIDE DEF b, B
<1>5. /\ scan.compat <=> b \in OfType(dtb, "cpu")
      /\ scan.hart = IF Has(dtb, b, "reg") THEN HartOfReg(dtb, b) ELSE -1
      /\ IF Has(dtb, b, "status") THEN scan.status \in Named(dtb, b, "status")
         ELSE scan.status = NULL
      /\ scan.mmu_type = IF Has(dtb, b, "mmu-type") THEN Value(dtb, b, "mmu-type") ELSE "none"
  <2>1. /\ scan.compat <=> \E i \in Named(dtb, b, "device_type") : dtb[i].value = "cpu"
        /\ scan.hart = IF Named(dtb, b, "reg") = {} THEN -1 ELSE HartOfReg(dtb, b)
        /\ IF Named(dtb, b, "status") = {} THEN scan.status = NULL
           ELSE scan.status \in Named(dtb, b, "status")
        /\ scan.mmu_type = IF Named(dtb, b, "mmu-type") = {} THEN "none"
                           ELSE Value(dtb, b, "mmu-type")
    BY <1>2 DEF HartSeen, b
  <2>2. (\E i \in Named(dtb, b, "device_type") : dtb[i].value = "cpu")
          <=> b \in OfType(dtb, "cpu")
    BY <1>1, NamedIs DEF OfType, Has
  <2> QED
    BY <2>1, <2>2 DEF Has
<1>6. \A i \in Named(dtb, b, "status") :
        /\ i \in DOMAIN dtb
        /\ tree[i] = dtb[i]
        /\ dtb[i].value = Value(dtb, b, "status")
        /\ Named(dtb, b, "status") = {i}
  <2> TAKE i \in Named(dtb, b, "status")
  <2>1. i \in DOMAIN dtb
    BY DEF Named
  <2>2. ~ \E a \in Unfit(dtb) \cap B : i \in Named(dtb, a, "status")
    BY <1>1, NamedApart
  <2>3. tree[i] = dtb[i]
    BY <1>4, <2>1, <2>2 DEF WithMasked
  <2> QED
    BY <1>1, <2>1, <2>3, NamedIs
<1>7. IsCall(Now) /\ Now.scan = scan /\ Now.tree = tree /\ Now.found = found
  BY DEF IsCall, CallFields, Now
<1>8. (b \in Unfit(dtb)) <=>
        /\ b \in OfType(dtb, "cpu")
        /\ \/ Value(dtb, b, "status") # "okay"
           \/ ~ Has(dtb, b, "mmu-type")
           \/ Value(dtb, b, "mmu-type") \notin {"riscv,sv39", "riscv,sv48"}
  BY DEF Unfit
<1>9. ASSUME b \notin Unfit(dtb),
             b \in OfType(dtb, "cpu") => Has(dtb, b, "status") /\ Has(dtb, b, "reg")
      PROVE  HartsDone(Now, B \cup {b})
  <2>1. Unfit(dtb) \cap (B \cup {b}) = Unfit(dtb) \cap B
    BY <1>9
  <2>2. WithMasked(dtb, B \cup {b}) = WithMasked(dtb, B) /\ Names(dtb, B \cup {b}) = Names(dtb, B)
    BY <2>1 DEF WithMasked, Names
  <2>3. Described(dtb, B \cup {b})
    BY <1>4, <1>9 DEF Described
  <2> QED
    BY <1>4, <1>7, <2>2, <2>3 DEF HartsDone
<1>10. CASE ~ scan.compat
  <2>1. c = Now
    BY <1>3, <1>7, <1>10 DEF hart_filter_done
  <2>2. b \notin Unfit(dtb) /\ b \notin OfType(dtb, "cpu")
    BY <1>5, <1>8, <1>10
  <2> HIDE DEF c
  <2> QED
    BY <1>9, <2>1, <2>2 DEF b, B, c
<1>11. CASE scan.compat /\ (scan.status = NULL \/ scan.hart < 0)
  <2>1. c = Fail(Now)
    BY <1>3, <1>7, <1>11 DEF hart_filter_done
  <2>2. c.failed = TRUE
    BY <2>1, <1>7 DEF Fail, IsCall, CallFields
  <2> HIDE DEF c
  <2> QED
    BY <2>2 DEF HartsDone, c
<1>12. CASE scan.compat /\ scan.status # NULL /\ ~ (scan.hart < 0)
  <2>1. /\ b \in OfType(dtb, "cpu") /\ Has(dtb, b, "status") /\ Has(dtb, b, "reg")
        /\ scan.status \in Named(dtb, b, "status") /\ scan.hart = HartOfReg(dtb, b)
    BY <1>5, <1>12
  <2>2. tree[scan.status].value = Value(dtb, b, "status")
    BY <1>6, <2>1
  <2>3. hart_filter_mask(Now) <=> b \in Unfit(dtb)
    BY <1>5, <1>7, <1>8, <2>1, <2>2 DEF hart_filter_mask
  <2>4. CASE b \notin Unfit(dtb)
    <3>1. c = Now
      BY <1>3, <1>7, <1>12, <2>3, <2>4 DEF hart_filter_done
    <3> HIDE DEF c
    <3> QED
      BY <1>9, <2>1, <2>4, <3>1 DEF b, B, c
  <2>5. CASE b \in Unfit(dtb)
    <3> DEFINE i == scan.status
               c2 == [Now EXCEPT !.tree[i] = [@ EXCEPT !.value = "masked", !.more = 0],
                                 !.found.disabled_hart_mask = @ \cup OneShifted(scan.hart)]
    <3>1. c = c2
      BY <1>3, <1>7, <1>12, <2>3, <2>5 DEF hart_filter_done
    <3>2. c2.tree = [tree EXCEPT ![i] = MaskedToken(tree[i])]
      BY <1>7 DEF IsCall, CallFields, MaskedToken
    <3>3. c2.found.disabled_hart_mask = found.disabled_hart_mask \cup OneShifted(scan.hart)
      BY <1>7 DEF IsCall, CallFields, FoundFields
    <3> HIDE DEF c, c2, i
    <3>4. i \in DOMAIN dtb /\ tree[i] = dtb[i] /\ Named(dtb, b, "status") = {i}
      BY <1>6, <2>1 DEF i
    <3>5. c2.tree = WithMasked(dtb, B \cup {b})
      <4>1. tree = [j \in DOMAIN dtb |->
                      IF \E a \in Unfit(dtb) \cap B : j \in Named(dtb, a, "status")
                      THEN MaskedToken(dtb[j]) ELSE dtb[j]]
        BY <1>4 DEF WithMasked
      <4>2. \A j : (\E a \in Unfit(dtb) \cap (B \cup {b}) : j \in Named(dtb, a, "status"))
                     <=> j = i \/ \E a \in Unfit(dtb) \cap B : j \in Named(dtb, a, "status")
        BY <2>5, <3>4
      <4>3. c2.tree = [j \in DOMAIN dtb |->
                         IF j = i \/ \E a \in Unfit(dtb) \cap B : j \in Named(dtb, a, "status")
                         THEN MaskedToken(dtb[j]) ELSE dtb[j]]
        BY <3>2, <3>4, <4>1
      <4> QED
        BY <4>2, <4>3 DEF WithMasked
    <3>6. c2.found.disabled_hart_mask = Names(dtb, B \cup {b})
      <4>1. Names(dtb, B \cup {b}) = Names(dtb, B) \cup OneShifted(HartOfReg(dtb, b))
        BY <2>5 DEF Names
      <4> QED
        BY <1>4, <2>1, <3>3, <4>1
    <3>7. Described(dtb, B \cup {b})
      BY <1>4, <2>1 DEF Described
    <3> QED
      BY <3>1, <3>5, <3>6, <3>7 DEF HartsDone, b, B, c
  <2> QED
    BY <2>4, <2>5
<1> QED
  BY <1>10, <1>11, <1>12

\* What done leaves in the filters that write is what the step leaves.
LEMMA WritersBegin ==
  ASSUME ScanInv, BeginNode, pass \in {11, 12}
  PROVE  LET c == DoneOnce(Now)
         IN /\ tree' = c.tree /\ found' = c.found /\ failed' = c.failed
            /\ scan' = IF pass = 11 THEN NewScan("filter_harts")
                       ELSE [c.scan EXCEPT !.compat = FALSE, !.reg = 0, !.int_value = NULL]
<1> DEFINE c == DoneOnce(Now)
           c2 == Open(c, level, tok.name)
<1>1. Scanning /\ Becomes(c2)
  BY DEF BeginNode
<1>2. IsCall(c)
  BY <1>1, Running, NowKept, DoneOnceKept DEF CallKept
<1> HIDE DEF c
<1>3. CASE pass = 11
  <2>1. c2 = [c EXCEPT !.scan = NewScan("filter_harts")]
    BY <1>3 DEF Open, Passes, hart_filter_open, Queries, Compats
  <2>2. c2.tree = c.tree /\ c2.found = c.found /\ c2.failed = c.failed
        /\ c2.scan = NewScan("filter_harts")
    BY <1>2, <2>1 DEF IsCall, CallFields
  <2> HIDE DEF c2
  <2> QED
    BY <1>1, <1>3, <2>2 DEF Becomes, c
<1>4. CASE pass = 12
  <2> DEFINE sc == [c.scan EXCEPT !.compat = FALSE, !.reg = 0, !.int_value = NULL]
  <2>1. c2 = [c EXCEPT !.scan.compat = FALSE, !.scan.reg = 0, !.scan.int_value = NULL]
    BY <1>4 DEF Open, Passes, clint_open, Queries, Compats
  <2>2. c2.tree = c.tree /\ c2.found = c.found /\ c2.failed = c.failed /\ c2.scan = sc
    BY <1>2, <2>1 DEF IsCall, CallFields
  <2> HIDE DEF c2, sc
  <2>3. tree' = c.tree /\ found' = c.found /\ failed' = c.failed /\ scan' = sc
    BY <1>1, <2>2 DEF Becomes
  <2> QED
    BY <1>4, <2>3 DEF sc, c
<1> QED
  BY <1>3, <1>4

\* At the end of a node, a filter that writes does what done does.
LEMMA WritersEnd ==
  ASSUME \A d \in Dtbs : Whole(d), ScanInv, EndNode, pass \in {11, 12}
  PROVE  LET c == DoneOnce(Now)
         IN tree' = c.tree /\ found' = c.found /\ failed' = c.failed
<1> DEFINE c == DoneOnce(Now)
<1>1. Return(lex + 1)
  BY EndStack
<1>2. ~ Deletes(c) /\ Close(c, cur) = c
  BY DEF Deletes, Close, Passes, Compats
<1>3. Becomes(Close(c, cur))
  BY <1>1, <1>2, Zenon DEF Return
<1>4. Becomes(c)
  BY <1>2, <1>3
<1> HIDE DEF c
<1> QED
  BY <1>4 DEF Becomes, c

\* A filter that ends changes nothing more.
LEMMA WritersOver ==
  ASSUME ScanInv, EndScan, pass \in 11 .. 14
  PROVE  /\ tree' = tree /\ found' = found /\ failed' = failed /\ pass' = pass + 1
         /\ pass < 14 => scan' = NewScan(Passes[pass + 1])
<1>1. Finish(Now) = Now
  BY DEF Finish, Passes
<1> DEFINE c == Now
           c2 == IF pass < 14 THEN [c EXCEPT !.scan = NewScan(Passes[pass + 1])] ELSE c
<1>2. Becomes(c2) /\ pass' = pass + 1
  BY <1>1, PassLen DEF EndScan
<1>3. IsCall(c) /\ c.tree = tree /\ c.found = found /\ c.failed = failed
  BY DEF IsCall, CallFields, Now
<1> HIDE DEF c
<1>4. /\ c2.tree = tree /\ c2.found = found /\ c2.failed = failed
      /\ pass < 14 => c2.scan = NewScan(Passes[pass + 1])
  BY <1>3 DEF IsCall, CallFields
<1> HIDE DEF c2
<1> QED
  BY <1>2, <1>4 DEF Becomes

\* done writes no other global.
LEMMA HartDoneFound ==
  ASSUME pass = 11, DOMAIN found = FoundFields
  PROVE  DOMAIN Done(Now, cur).found = FoundFields
<1>1. Done(Now, cur) = hart_filter_done(Now, cur)
  BY DEF Done, Passes, Queries
<1> DEFINE c == Now
<1>2. IsCall(c) /\ DOMAIN c.found = FoundFields
  BY DEF IsCall, CallFields, Now
<1> HIDE DEF c
<1>3. DOMAIN hart_filter_done(c, cur).found = FoundFields
  BY <1>2 DEF hart_filter_done, Fail, IsCall, CallFields, FoundFields
<1> QED
  BY <1>1, <1>3 DEF c

\* done masks the node whose properties have been read, if it is an unfit hart.
LEMMA HartDoneOnce ==
  ASSUME ScanInv, Scanning, pass = 11, HartsInv, DOMAIN found = FoundFields,
         Doing => dtb[lex].t \in {"BEGIN_NODE", "END_NODE"}
  PROVE  /\ HartsDone(DoneOnce(Now), HandledNodes \cup (IF Doing THEN {TopNode} ELSE {}))
         /\ DOMAIN DoneOnce(Now).found = FoundFields
<1>1. HartsDone(Now, HandledNodes) /\ (Doing => HartSeen(scan, dtb, TopNode, lex))
  BY DEF HartsInv, HartsDone, Now
<1>2. Len(stack) \in Nat \ {0}
  BY Running DEF IsStack
<1>0. cur = Len(stack) - 1 /\ level = Len(stack)
  BY DEF cur, level
<1>3. CASE Doing
  <2>1. cur # 0 /\ ~ stack[level].last
    BY <1>0, <1>2, <1>3 DEF Doing
  <2>2. DoneOnce(Now) = Done(Now, cur)
    BY <2>1 DEF DoneOnce, NULL
  <2> QED
    BY <1>1, <1>3, <2>2, HartDone, HartDoneFound
<1>4. CASE ~ Doing
  <2>3. cur = 0 \/ stack[level].last
    BY <1>0, <1>2, <1>4 DEF Doing
  <2>1. DoneOnce(Now) = Now
    BY <2>3 DEF DoneOnce, NULL
  <2>2. HandledNodes \cup {} = HandledNodes
    OBVIOUS
  <2> QED
    BY <1>1, <1>4, <2>1, <2>2 DEF Now
<1> QED
  BY <1>3, <1>4

\* filter_harts masks the unfit harts it passes.
LEMMA HartsFiltered ==
  ASSUME \A d \in Dtbs : Whole(d), ScanInv, FilterInv, Next, pass = 11
  PROVE  FilterInv'
<1>1. Scanning /\ HartsInv /\ DOMAIN found = FoundFields /\ ~ failed
  <2>1. Scanning
    BY DEF Next, Nop, Prop, BeginNode, EndNode, EndScan
  <2> QED
    BY <2>1 DEF FilterInv, Scanning
<1>2. /\ tree = WithMasked(dtb, HandledNodes)
      /\ found.disabled_hart_mask = Names(dtb, HandledNodes)
      /\ Described(dtb, HandledNodes)
      /\ Doing => HartSeen(scan, dtb, TopNode, lex)
  BY <1>1 DEF HartsInv
<1>3. ASSUME pass' = 11, DOMAIN found' = FoundFields, ~ failed' => HartsInv' PROVE FilterInv'
  BY <1>3 DEF FilterInv, QueriesInv, MaskInv, PlicsInv, DeleteInv
<1>4. CASE Nop
  <2>1. Doing' = Doing /\ (Doing => TopNode' = TopNode) /\ HandledNodes' = HandledNodes
    BY <1>4, HandledSame
  <2>2. UNCHANGED <<dtb, tree, pass, stack, scan, found, failed>> /\ lex' = lex + 1
        /\ tree[lex].t = "NOP"
    BY <1>4 DEF Nop, tok
  <2>3. Doing => HartSeen(scan, dtb, TopNode, lex')
    <3> SUFFICES ASSUME Doing PROVE HartSeen(scan, dtb, TopNode, lex')
      OBVIOUS
    <3>1. /\ WellFormed(dtb) /\ TokensKept(dtb, tree) /\ StackKept(dtb, tree, stack, lex)
          /\ Len(stack) - 1 \in 1 .. Len(stack) - 1
      BY <1>1, Running, TopFacts DEF Doing
    <3>2. \A n : Seen(dtb, TopNode, n, lex') = Seen(dtb, TopNode, n, lex)
      <4> TAKE n
      <4>1. SeenOn(dtb, stack, n, lex)
        BY <2>2, <3>1, CountOn
      <4> QED
        BY <2>2, <3>1, <4>1 DEF SeenOn, TopNode
    <3> QED
      BY <1>2, <3>2 DEF HartSeen
  <2>4. HartsInv'
    BY <1>2, <2>1, <2>2, <2>3 DEF HartsInv
  <2> QED
    BY <1>1, <1>3, <2>2, <2>4
<1>5. CASE Prop
  <2>1. Doing' = Doing /\ (Doing => TopNode' = TopNode) /\ HandledNodes' = HandledNodes
    BY <1>5, HandledSame
  <2>2. Doing /\ UNCHANGED <<dtb, pass>>
    BY <1>5, PropIs
  <2>3. HartSeen(scan', dtb, TopNode, lex')
    BY <1>2, <1>5, <2>2, HartProp
  <2>4. /\ tree' = tree /\ DOMAIN found' = FoundFields
        /\ found'.disabled_hart_mask = found.disabled_hart_mask
    BY <1>1, <1>5, PropLeft DEF LeftAlone
  <2>5. HartsInv'
    BY <1>2, <2>1, <2>2, <2>3, <2>4 DEF HartsInv
  <2> QED
    BY <1>3, <2>2, <2>4, <2>5
<1>6. CASE BeginNode
  <2>1. /\ Doing' /\ TopNode' = lex /\ lex \in Nodes(dtb)
        /\ HandledNodes' = HandledNodes \cup (IF Doing THEN {TopNode} ELSE {})
    BY <1>6, HandledBegin
  <2>2. UNCHANGED <<dtb, pass>> /\ lex' = lex + 1
    BY <1>6 DEF BeginNode
  <2>3. dtb[lex].t = "BEGIN_NODE"
    BY <2>1 DEF Nodes
  <2>4. /\ HartsDone(DoneOnce(Now), HandledNodes')
        /\ DOMAIN DoneOnce(Now).found = FoundFields
    BY <1>1, <2>1, <2>3, HartDoneOnce
  <2>5. /\ tree' = DoneOnce(Now).tree /\ found' = DoneOnce(Now).found
        /\ failed' = DoneOnce(Now).failed /\ scan' = NewScan("filter_harts")
    BY <1>6, WritersBegin
  <2>6. HartSeen(scan', dtb, lex, lex')
    BY <1>1, <2>1, <2>2, <2>5, Running, HartSeenOpen
  <2>7. ~ failed' => HartsInv'
    BY <2>1, <2>2, <2>4, <2>5, <2>6 DEF HartsInv, HartsDone
  <2> QED
    BY <1>3, <2>2, <2>4, <2>5, <2>7
<1>7. CASE EndNode
  <2>1. ~ Doing' /\ HandledNodes' = HandledNodes \cup (IF Doing THEN {TopNode} ELSE {})
    BY <1>7, HandledEnd
  <2>2. dtb[lex].t = "END_NODE" /\ UNCHANGED <<dtb, pass>>
    BY <1>7, EndStack
  <2>3. /\ HartsDone(DoneOnce(Now), HandledNodes')
        /\ DOMAIN DoneOnce(Now).found = FoundFields
    BY <1>1, <2>1, <2>2, HartDoneOnce
  <2>4. /\ tree' = DoneOnce(Now).tree /\ found' = DoneOnce(Now).found
        /\ failed' = DoneOnce(Now).failed
    BY <1>7, WritersEnd
  <2>5. ~ failed' => HartsInv'
    BY <2>1, <2>2, <2>3, <2>4 DEF HartsInv, HartsDone
  <2> QED
    BY <1>3, <2>2, <2>3, <2>4, <2>5
<1>8. CASE EndScan
  <2>1. HandledNodes = Nodes(dtb) /\ ~ Doing' /\ HandledNodes' = {} /\ dtb' = dtb
    BY <1>8, HandledOver
  <2>2. tree' = tree /\ found' = found /\ pass' = 12
    BY <1>8, WritersOver
  <2>3. MaskInv'
    BY <1>2, <2>1, <2>2 DEF MaskInv, Nodes
  <2>4. PlicsInv'
    <3>1. HartsMasked' = HartsMasked /\ tree' = HartsMasked
      BY <1>2, <2>1, <2>2 DEF HartsMasked, Nodes
    <3>2. WithRedacted(dtb, HartsMasked, {}) = HartsMasked
      BY DEF WithRedacted, HartsMasked, WithMasked
    <3> QED
      BY <2>1, <2>2, <3>1, <3>2 DEF PlicsInv
  <2> QED
    BY <1>1, <2>2, <2>3, <2>4 DEF FilterInv, QueriesInv, HartsInv, DeleteInv
<1> QED
  BY <1>4, <1>5, <1>6, <1>7, <1>8 DEF Next

-----------------------------------------------------------------------------
(* filter_plic *)

\* A node is compatible if the property read of it lists the string.
LEMMA CompatIs ==
  ASSUME NEW d, WellFormed(d), NEW b \in Nodes(d), NEW str
  PROVE  (\E i \in Named(d, b, "compatible") : Lists(d[i], str)) <=> b \in CompatibleWith(d, str)
<1>1. \A v : [value |-> v].value = v
  OBVIOUS
<1>2. Lists([value |-> Value(d, b, "compatible")], str) <=>
        \E k \in DOMAIN Value(d, b, "compatible") : Value(d, b, "compatible")[k] = str
  BY <1>1 DEF Lists
<1>3. \A i \in Named(d, b, "compatible") :
        /\ Has(d, b, "compatible")
        /\ Lists(d[i], str) <=> Lists([value |-> Value(d, b, "compatible")], str)
  BY <1>2, NamedIs DEF Lists
<1> HIDE DEF Lists
<1>4. Has(d, b, "compatible") => Named(d, b, "compatible") # {}
  BY DEF Has
<1> QED
  BY <1>3, <1>4 DEF CompatibleWith

\* A node that begins has nothing seen of it.
LEMMA PlicSeenOpen ==
  ASSUME NEW d, WellFormed(d), NEW b \in Nodes(d), NEW m, m = b + 1,
         NEW sc, DOMAIN sc = PlicFields
  PROVE  PlicSeen([sc EXCEPT !.compat = FALSE, !.reg = 0, !.int_value = NULL], d, b, m)
<1>1. /\ Seen(d, b, "compatible", m) = {} /\ Seen(d, b, "interrupts-extended", m) = {}
  BY NoneSeen
<1> DEFINE s2 == [sc EXCEPT !.compat = FALSE, !.reg = 0, !.int_value = NULL]
<1>2. s2.compat = FALSE /\ s2.int_value = NULL
  BY DEF PlicFields
<1> HIDE DEF s2
<1> QED
  BY <1>1, <1>2 DEF PlicSeen, s2

\* What plic_prop notes of a property for the filter.
LEMMA PlicPropIs ==
  ASSUME pass = 12, DOMAIN scan = PlicFields
  PROVE  LET sc == HasProp(Now, cur, tok).scan
         IN /\ sc.compat = IF Matches(tok, {"riscv,plic0"}) THEN TRUE ELSE scan.compat
            /\ sc.int_value = IF tok.name = "interrupts-extended" THEN lex ELSE scan.int_value
<1>1. Passes[pass] = "filter_plic"
  BY DEF Passes
<1>2. HasProp(Now, cur, tok) = plic_prop(Now, cur, tok)
  BY <1>1 DEF HasProp, Compats
<1> DEFINE c == Now
<1>3. IsCall(c) /\ c.scan = scan
  BY DEF IsCall, CallFields, Now
<1> HIDE DEF c
<1>4. LET sc == plic_prop(c, cur, tok).scan
      IN /\ sc.compat = IF Matches(tok, {"riscv,plic0"}) THEN TRUE ELSE scan.compat
         /\ sc.int_value = IF tok.name = "interrupts-extended" THEN lex ELSE scan.int_value
  <2>1. Matches(tok, {"riscv,plic0"}) => tok.name = "compatible"
    BY DEF Matches
  <2> QED
    BY <1>3, <2>1 DEF plic_prop, DeviceProp, IsCall, CallFields, PlicFields
<1> QED
  BY <1>2, <1>4 DEF c

\* filter_plic takes down the properties of a node.
LEMMA PlicProp ==
  ASSUME ScanInv, Prop, pass = 12, PlicSeen(scan, dtb, TopNode, lex)
  PROVE  PlicSeen(scan', dtb, TopNode, lex')
<1>1. /\ Scanning /\ dtb[lex].t = "PROP" /\ TopNode \in Nodes(dtb) /\ Own(dtb, TopNode, lex)
      /\ tok.name = dtb[lex].name
      /\ dtb[lex].name \notin {"status", "interrupts-extended"} => tok = dtb[lex]
      /\ lex' = lex + 1 /\ Becomes(HasProp(Now, cur, tok))
  BY PropIs
<1>2. WellFormed(dtb) /\ lex \in DOMAIN dtb /\ DOMAIN scan = PlicFields
  BY <1>1, Running DEF ScanInv, PointersKept
<1> DEFINE b == TopNode
           name == dtb[lex].name
<1>3. \A n : IF n = name
             THEN Seen(dtb, b, n, lex') = {lex} /\ Seen(dtb, b, n, lex) = {}
             ELSE Seen(dtb, b, n, lex') = Seen(dtb, b, n, lex)
  BY <1>1, <1>2, OneSeen
<1>4. scan' = HasProp(Now, cur, tok).scan
  BY <1>1 DEF Becomes
<1>5. /\ scan'.compat = IF Matches(tok, {"riscv,plic0"}) THEN TRUE ELSE scan.compat
      /\ scan'.int_value = IF tok.name = "interrupts-extended" THEN lex ELSE scan.int_value
  BY <1>2, <1>4, PlicPropIs
<1>6. Matches(tok, {"riscv,plic0"}) <=> name = "compatible" /\ Lists(dtb[lex], "riscv,plic0")
  BY <1>1 DEF Matches
<1> HIDE DEF b, name
<1>7. /\ scan.compat <=> \E i \in Seen(dtb, b, "compatible", lex) : Lists(dtb[i], "riscv,plic0")
      /\ IF Seen(dtb, b, "interrupts-extended", lex) = {} THEN scan.int_value = NULL
         ELSE scan.int_value \in Seen(dtb, b, "interrupts-extended", lex)
  BY DEF PlicSeen, b
<1>8. tok.name = name
  BY <1>1 DEF name
<1>9. scan'.compat <=> \E i \in Seen(dtb, b, "compatible", lex') : Lists(dtb[i], "riscv,plic0")
  <2>1. CASE name = "compatible"
    <3>1. /\ Seen(dtb, b, "compatible", lex') = {lex} /\ Seen(dtb, b, "compatible", lex) = {}
          /\ scan'.compat = IF Lists(dtb[lex], "riscv,plic0") THEN TRUE ELSE scan.compat
      BY <1>3, <1>5, <1>6, <2>1
    <3>2. ~ scan.compat
      BY <1>7, <3>1
    <3> QED
      BY <3>1, <3>2
  <2>2. CASE name # "compatible"
    BY <1>3, <1>5, <1>6, <1>7, <2>2
  <2> QED
    BY <2>1, <2>2
<1>10. IF Seen(dtb, b, "interrupts-extended", lex') = {} THEN scan'.int_value = NULL
       ELSE scan'.int_value \in Seen(dtb, b, "interrupts-extended", lex')
  BY <1>3, <1>5, <1>7, <1>8
<1> QED
  BY <1>9, <1>10 DEF PlicSeen, b

\* The tree and the globals when filter_plic is done with the nodes of B.
PlicsDone(c, B) ==
  c.tree = WithRedacted(dtb, HartsMasked, B) /\ c.found = found

\* done redacts the node if it is a plic.
LEMMA PlicDone ==
  ASSUME ScanInv, Scanning, pass = 12, Doing, dtb[lex].t \in {"BEGIN_NODE", "END_NODE"},
         PlicSeen(scan, dtb, TopNode, lex), tree = WithRedacted(dtb, HartsMasked, HandledNodes)
  PROVE  PlicsDone(Done(Now, cur), HandledNodes \cup {TopNode})
<1> DEFINE b == TopNode
           B == HandledNodes
           c == Done(Now, cur)
<1>1. /\ WellFormed(dtb) /\ lex \in DOMAIN dtb /\ b \in Nodes(dtb) /\ b < lex
      /\ B \subseteq Nodes(dtb) /\ b \notin B /\ DOMAIN dtb = 1 .. Len(dtb)
  BY Running, TopFacts, Shape DEF Doing, HandledNodes
<1>2. \A n : Seen(dtb, b, n, lex) = Named(dtb, b, n)
  BY <1>1, AllSeen
<1>3. c = plic_redact(Now, cur)
  BY DEF Done, Passes, Queries
<1>4. tree = WithRedacted(dtb, HartsMasked, B)
  OBVIOUS
<1> HIDE DEF b, B
<1>5. /\ scan.compat <=> b \in Plics(dtb)
      /\ IF Named(dtb, b, "interrupts-extended") = {} THEN scan.int_value = NULL
         ELSE scan.int_value \in Named(dtb, b, "interrupts-extended")
  BY <1>1, <1>2, CompatIs DEF PlicSeen, Plics, b
<1>6. IsCall(Now) /\ Now.scan = scan /\ Now.tree = tree /\ Now.found = found
  BY DEF IsCall, CallFields, Now
<1> DEFINE At(j, C) == \E a \in Plics(dtb) \cap C : j \in Named(dtb, a, "interrupts-extended")
<1>7. \A C : WithRedacted(dtb, HartsMasked, C) =
               [j \in DOMAIN dtb |-> IF At(j, C) THEN RedactedToken(HartsMasked[j])
                                     ELSE HartsMasked[j]]
  BY DEF WithRedacted
<1>8. ASSUME \A j : At(j, B \cup {b}) <=> At(j, B)
      PROVE  WithRedacted(dtb, HartsMasked, B \cup {b}) = tree
  BY <1>4, <1>7, <1>8
<1>9. CASE ~ scan.compat
  <2>1. c = Now
    BY <1>3, <1>6, <1>9 DEF plic_redact
  <2>2. \A j : At(j, B \cup {b}) <=> At(j, B)
    BY <1>5, <1>9
  <2> HIDE DEF c, At
  <2> QED
    BY <1>6, <1>8, <2>1, <2>2 DEF PlicsDone, b, B, c
<1>10. CASE scan.compat
  <2> DEFINE i == scan.int_value
             c2 == [Now EXCEPT !.scan.done = TRUE,
                      !.tree[i].value = [k \in DOMAIN @ |-> IF k % 2 = 0 /\ @[k] = IRQ_M_EXT
                                                            THEN CellBase - 1 ELSE @[k]]]
  <2>1. c = c2
    BY <1>3, <1>6, <1>10 DEF plic_redact
  <2>2. c2.tree = [tree EXCEPT ![i] = RedactedToken(tree[i])] /\ c2.found = found
    BY <1>6 DEF IsCall, CallFields, RedactedToken
  <2> HIDE DEF c, c2, i
  <2>3. b \in Plics(dtb)
    BY <1>5, <1>10
  <2>4. \A j : At(j, B \cup {b}) <=> j \in Named(dtb, b, "interrupts-extended") \/ At(j, B)
    BY <2>3
  <2>5. CASE Named(dtb, b, "interrupts-extended") = {}
    <3>1. i \notin DOMAIN dtb
      BY <1>1, <1>5, <2>5 DEF i, NULL
    <3>2. [tree EXCEPT ![i] = RedactedToken(tree[i])] = tree
      BY <1>4, <1>7, <3>1
    <3>3. \A j : At(j, B \cup {b}) <=> At(j, B)
      BY <2>4, <2>5
    <3> HIDE DEF At
    <3> QED
      BY <1>8, <2>1, <2>2, <3>2, <3>3 DEF PlicsDone, b, B, c
  <2>6. CASE Named(dtb, b, "interrupts-extended") # {}
    <3>1. i \in Named(dtb, b, "interrupts-extended")
      BY <1>5, <2>6 DEF i
    <3>2. Named(dtb, b, "interrupts-extended") = {i} /\ i \in DOMAIN dtb
      BY <1>1, <3>1, NamedIs DEF Named
    <3>3. ~ At(i, B)
      BY <1>1, <3>1, NamedApart
    <3>4. \A j : At(j, B \cup {b}) <=> j = i \/ At(j, B)
      BY <2>4, <3>2
    <3> HIDE DEF At
    <3>5. tree[i] = HartsMasked[i]
      BY <1>4, <1>7, <3>2, <3>3
    <3>6. [tree EXCEPT ![i] = RedactedToken(tree[i])]
            = [j \in DOMAIN dtb |-> IF At(j, B \cup {b}) THEN RedactedToken(HartsMasked[j])
                                    ELSE HartsMasked[j]]
      <4>1. RedactedToken(tree[i]) = RedactedToken(HartsMasked[i])
        BY <3>5
      <4>2. tree = [j \in DOMAIN dtb |-> IF At(j, B) THEN RedactedToken(HartsMasked[j])
                                         ELSE HartsMasked[j]]
        BY <1>4, <1>7
      <4> DEFINE r == RedactedToken(tree[i])
      <4>3. At(i, B \cup {b}) /\ r = RedactedToken(HartsMasked[i])
        BY <3>4, <4>1
      <4> HIDE DEF r
      <4>4. [tree EXCEPT ![i] = r]
              = [j \in DOMAIN dtb |-> IF j = i THEN r
                                      ELSE IF At(j, B) THEN RedactedToken(HartsMasked[j])
                                      ELSE HartsMasked[j]]
        BY <3>2, <4>2
      <4>5. \A j : (IF j = i THEN r ELSE IF At(j, B) THEN RedactedToken(HartsMasked[j])
                                    ELSE HartsMasked[j])
                   = IF At(j, B \cup {b}) THEN RedactedToken(HartsMasked[j]) ELSE HartsMasked[j]
        BY <3>4, <4>3
      <4>6. [tree EXCEPT ![i] = r]
              = [j \in DOMAIN dtb |-> IF At(j, B \cup {b}) THEN RedactedToken(HartsMasked[j])
                                      ELSE HartsMasked[j]]
        BY <4>4, <4>5
      <4> QED
        BY <4>6 DEF r
    <3>7. c2.tree = WithRedacted(dtb, HartsMasked, B \cup {b})
      BY <1>7, <2>2, <3>6
    <3> QED
      BY <2>1, <2>2, <3>7 DEF PlicsDone, b, B, c
  <2> QED
    BY <2>5, <2>6
<1> QED
  BY <1>9, <1>10

\* done redacts the node whose properties have been read, if it is a plic.
LEMMA PlicDoneOnce ==
  ASSUME ScanInv, Scanning, pass = 12, PlicsInv,
         Doing => dtb[lex].t \in {"BEGIN_NODE", "END_NODE"}
  PROVE  PlicsDone(DoneOnce(Now), HandledNodes \cup (IF Doing THEN {TopNode} ELSE {}))
<1>0. cur = Len(stack) - 1 /\ level = Len(stack)
  BY DEF cur, level
<1>1. /\ tree = WithRedacted(dtb, HartsMasked, HandledNodes)
      /\ Doing => PlicSeen(scan, dtb, TopNode, lex)
  BY DEF PlicsInv
<1>2. Len(stack) \in Nat \ {0}
  BY Running DEF IsStack
<1>3. CASE Doing
  <2>1. cur # 0 /\ ~ stack[level].last
    BY <1>0, <1>2, <1>3 DEF Doing
  <2>2. DoneOnce(Now) = Done(Now, cur)
    BY <2>1 DEF DoneOnce, NULL
  <2> QED
    BY <1>1, <1>3, <2>2, PlicDone
<1>4. CASE ~ Doing
  <2>3. cur = 0 \/ stack[level].last
    BY <1>0, <1>2, <1>4 DEF Doing
  <2>1. DoneOnce(Now) = Now
    BY <2>3 DEF DoneOnce, NULL
  <2>2. HandledNodes \cup {} = HandledNodes
    OBVIOUS
  <2>4. Now.tree = tree /\ Now.found = found
    BY DEF Now
  <2> QED
    BY <1>1, <1>4, <2>1, <2>2, <2>4 DEF PlicsDone
<1> QED
  BY <1>3, <1>4

\* filter_compat has deleted nothing before the first token.
LEMMA FirstDeleting ==
  ASSUME NEW d, WellFormed(d), NEW tr, tr = [i \in DOMAIN d |-> tr[i]], NEW str,
         NEW q \in Compats
  PROVE  Deleting(d, tr, str, tr, <<NewLevel>>, 1, NewScan(q))
<1> DEFINE s == <<NewLevel>>
           sc == NewScan(q)
<1>1. sc = [depth |-> 0, kill |-> 999]
  BY DEF NewScan, Compats, Queries
<1>2. Len(s) = 1
  OBVIOUS
<1> HIDE DEF s, sc
<1>3. KillKept(d, str, s, 1, sc)
  BY <1>1, <1>2 DEF KillKept
<1>4. Gone(d, str, s, 1, sc) = {}
  BY NodeFacts DEF Gone, Ended, CompatibleWith
<1>5. WithDeleted(d, tr, {}) = tr
  BY DEF WithDeleted
<1> QED
  BY <1>3, <1>4, <1>5 DEF Deleting, s, sc

\* filter_plic redacts the plics it passes.
LEMMA PlicsFiltered ==
  ASSUME \A d \in Dtbs : Whole(d), ScanInv, FilterInv, Next, pass = 12
  PROVE  FilterInv'
<1>1. Scanning /\ PlicsInv /\ MaskInv /\ DOMAIN found = FoundFields /\ ~ failed
  <2>1. Scanning
    BY DEF Next, Nop, Prop, BeginNode, EndNode, EndScan
  <2> QED
    BY <2>1 DEF FilterInv, Scanning
<1>2. /\ tree = WithRedacted(dtb, HartsMasked, HandledNodes)
      /\ Doing => PlicSeen(scan, dtb, TopNode, lex)
  BY <1>1 DEF PlicsInv
<1>3. /\ found.disabled_hart_mask = Names(dtb, Nodes(dtb))
      /\ Described(dtb, Nodes(dtb))
  BY <1>1 DEF MaskInv
<1>4. ASSUME dtb' = dtb,
             DOMAIN found = FoundFields =>
               /\ DOMAIN found' = FoundFields
               /\ found'.disabled_hart_mask = found.disabled_hart_mask
      PROVE  DOMAIN found' = FoundFields /\ MaskInv' /\ HartsMasked' = HartsMasked
  BY <1>1, <1>3, <1>4 DEF MaskInv, Nodes, HartsMasked
<1>5. ASSUME pass' = 12, DOMAIN found' = FoundFields, MaskInv', PlicsInv' PROVE FilterInv'
  BY <1>5 DEF FilterInv, QueriesInv, HartsInv, DeleteInv
<1>6. CASE Nop
  <2>1. Doing' = Doing /\ (Doing => TopNode' = TopNode) /\ HandledNodes' = HandledNodes
    BY <1>6, HandledSame
  <2>2. UNCHANGED <<dtb, tree, pass, stack, scan, found, failed>> /\ lex' = lex + 1
        /\ tree[lex].t = "NOP"
    BY <1>6 DEF Nop, tok
  <2>3. Doing => PlicSeen(scan, dtb, TopNode, lex')
    <3> SUFFICES ASSUME Doing PROVE PlicSeen(scan, dtb, TopNode, lex')
      OBVIOUS
    <3>1. /\ WellFormed(dtb) /\ TokensKept(dtb, tree) /\ StackKept(dtb, tree, stack, lex)
          /\ Len(stack) - 1 \in 1 .. Len(stack) - 1
      BY <1>1, Running, TopFacts DEF Doing
    <3>2. \A n : Seen(dtb, TopNode, n, lex') = Seen(dtb, TopNode, n, lex)
      <4> TAKE n
      <4>1. SeenOn(dtb, stack, n, lex)
        BY <2>2, <3>1, CountOn
      <4> QED
        BY <2>2, <3>1, <4>1 DEF SeenOn, TopNode
    <3> QED
      BY <1>2, <3>2 DEF PlicSeen
  <2>4. /\ DOMAIN found' = FoundFields /\ MaskInv' /\ HartsMasked' = HartsMasked
    BY <1>4, <2>2
  <2>5. PlicsInv'
    BY <1>2, <2>1, <2>2, <2>3, <2>4 DEF PlicsInv
  <2> QED
    BY <1>5, <2>2, <2>4, <2>5
<1>7. CASE Prop
  <2>1. Doing' = Doing /\ (Doing => TopNode' = TopNode) /\ HandledNodes' = HandledNodes
    BY <1>7, HandledSame
  <2>2. Doing /\ UNCHANGED <<dtb, pass>>
    BY <1>7, PropIs
  <2>3. PlicSeen(scan', dtb, TopNode, lex')
    BY <1>2, <1>7, <2>2, PlicProp
  <2>4. /\ tree' = tree /\ DOMAIN found' = FoundFields /\ MaskInv' /\ HartsMasked' = HartsMasked
    BY <1>4, <1>7, <2>2, PropLeft DEF LeftAlone
  <2>5. PlicsInv'
    BY <1>2, <2>1, <2>2, <2>3, <2>4 DEF PlicsInv
  <2> QED
    BY <1>5, <2>2, <2>4, <2>5
<1>8. CASE BeginNode
  <2>1. /\ Doing' /\ TopNode' = lex /\ lex \in Nodes(dtb)
        /\ HandledNodes' = HandledNodes \cup (IF Doing THEN {TopNode} ELSE {})
    BY <1>8, HandledBegin
  <2>2. UNCHANGED <<dtb, pass>> /\ lex' = lex + 1
    BY <1>8 DEF BeginNode
  <2>3. dtb[lex].t = "BEGIN_NODE"
    BY <2>1 DEF Nodes
  <2>4. PlicsDone(DoneOnce(Now), HandledNodes')
    BY <1>1, <2>1, <2>3, PlicDoneOnce
  <2> DEFINE c == DoneOnce(Now)
  <2>5. /\ tree' = c.tree /\ found' = c.found
        /\ scan' = [c.scan EXCEPT !.compat = FALSE, !.reg = 0, !.int_value = NULL]
    BY <1>8, WritersBegin
  <2>6. DOMAIN c.scan = PlicFields
    BY <1>1, Running, NowKept, DoneOnceKept DEF CallKept, PointersKept
  <2>7. PlicSeen(scan', dtb, lex, lex')
    BY <1>1, <2>1, <2>2, <2>5, <2>6, Running, PlicSeenOpen
  <2>8. tree' = WithRedacted(dtb, HartsMasked, HandledNodes') /\ found' = found
    BY <2>4, <2>5 DEF PlicsDone
  <2>9. /\ DOMAIN found' = FoundFields /\ MaskInv' /\ HartsMasked' = HartsMasked
    BY <1>4, <2>2, <2>8
  <2> HIDE DEF c
  <2>10. PlicsInv'
    BY <2>1, <2>2, <2>7, <2>8, <2>9 DEF PlicsInv
  <2> QED
    BY <1>5, <2>2, <2>9, <2>10
<1>9. CASE EndNode
  <2>1. ~ Doing' /\ HandledNodes' = HandledNodes \cup (IF Doing THEN {TopNode} ELSE {})
    BY <1>9, HandledEnd
  <2>2. dtb[lex].t = "END_NODE" /\ UNCHANGED <<dtb, pass>>
    BY <1>9, EndStack
  <2>3. PlicsDone(DoneOnce(Now), HandledNodes')
    BY <1>1, <2>1, <2>2, PlicDoneOnce
  <2>4. tree' = DoneOnce(Now).tree /\ found' = DoneOnce(Now).found
    BY <1>9, WritersEnd
  <2>5. tree' = WithRedacted(dtb, HartsMasked, HandledNodes') /\ found' = found
    BY <2>3, <2>4 DEF PlicsDone
  <2>6. /\ DOMAIN found' = FoundFields /\ MaskInv' /\ HartsMasked' = HartsMasked
    BY <1>4, <2>2, <2>5
  <2>7. PlicsInv'
    BY <2>1, <2>2, <2>5, <2>6 DEF PlicsInv
  <2> QED
    BY <1>5, <2>2, <2>6, <2>7
<1>10. CASE EndScan
  <2>1. HandledNodes = Nodes(dtb) /\ dtb' = dtb
    BY <1>10, HandledOver
  <2>2. /\ tree' = tree /\ found' = found /\ pass' = 13
        /\ scan' = NewScan("filter_clint") /\ stack' = <<NewLevel>> /\ lex' = 1
    BY <1>10, WritersOver DEF Passes, EndScan
  <2>3. /\ DOMAIN found' = FoundFields /\ MaskInv' /\ HartsMasked' = HartsMasked
    BY <1>4, <2>1, <2>2
  <2>4. PlicsRedacted' = PlicsRedacted /\ tree = PlicsRedacted
    BY <1>2, <2>1, <2>3 DEF PlicsRedacted, Nodes
  <2>5. Deleting(dtb, PlicsRedacted, "riscv,clint0", PlicsRedacted, <<NewLevel>>, 1,
                 NewScan("filter_clint"))
    <3>1. PlicsRedacted = [i \in DOMAIN dtb |-> PlicsRedacted[i]]
      BY DEF PlicsRedacted, WithRedacted
    <3> QED
      BY <1>1, <3>1, Running, FirstDeleting DEF Compats
  <2> DEFINE s1 == <<NewLevel>>
             sc1 == NewScan("filter_clint")
  <2>6. stack' = s1 /\ scan' = sc1 /\ Deleting(dtb, PlicsRedacted, "riscv,clint0", PlicsRedacted, s1, 1, sc1)
    BY <2>2, <2>5
  <2> HIDE DEF s1, sc1
  <2>7. Deleting(dtb', PlicsRedacted', "riscv,clint0", tree', stack', lex', scan')
    BY <2>1, <2>2, <2>4, <2>6
  <2>8. DeleteInv'
    <3>1. pass' # 14 /\ pass' # 15
      BY <2>2
    <3> QED
      BY <2>7, <3>1, Zenon DEF DeleteInv
  <2> QED
    BY <2>2, <2>3, <2>8 DEF FilterInv, QueriesInv, HartsInv, PlicsInv
<1> QED
  BY <1>6, <1>7, <1>8, <1>9, <1>10 DEF Next

-----------------------------------------------------------------------------
(* Which nodes a filter deletes *)

\* There are no more levels than the tree is deep, so 999 is none of them.
LEMMA LevelsDeep ==
  ASSUME NEW d, WellFormed(d), NEW tr, NEW s, NEW l, StackKept(d, tr, s, l),
         NEW k \in 1 .. Len(s) - 1
  PROVE  k < 999
<1> DEFINE Bad == {j \in 1 .. Len(s) - 1 : ~ (j <= Depth(d, s[j].begin) + 1)}
<1>1. Len(s) \in Nat \ {0} /\ l \in DOMAIN d
  BY DEF StackKept
<1>2. Bad = {}
  <2> SUFFICES ASSUME Bad # {} PROVE FALSE
    OBVIOUS
  <2>1. Bad \in SUBSET Nat
    BY <1>1
  <2> HIDE DEF Bad
  <2>2. PICK m \in Bad : \A n \in Bad : m <= n
    BY <2>1, LeastNumber
  <2>3. m \in 1 .. Len(s) - 1 /\ ~ (m <= Depth(d, s[m].begin) + 1)
    BY <2>2 DEF Bad
  <2>4. m \in Nat \ {0}
    BY <1>1, <2>3
  <2>5. s[m].begin \in DOMAIN d /\ s[m].begin \in Nat \ {0} /\ s[m].begin < l
        /\ l \in Nat \ {0}
    BY <2>3, LevelFacts
  <2>6. Depth(d, s[m].begin) \in Nat
    BY <2>5, Shape
  <2>7. m # 1
    BY <2>3, <2>6
  <2>8. PICK j \in Nat : j = m - 1
    BY <2>4
  <2>9. j \in 1 .. Len(s) - 1 /\ j \in 1 .. m - 1 /\ ~ (m <= j)
    BY <1>1, <2>3, <2>4, <2>7, <2>8
  <2>10. j <= Depth(d, s[j].begin) + 1
    BY <2>2, <2>9 DEF Bad
  <2>11. s[j].begin \in Nat \ {0} /\ Holds(d, s[j].begin, l)
    BY <2>9, LevelFacts
  <2>12. s[j].begin < s[m].begin
    BY <2>3, <2>9 DEF StackKept
  <2>13. Holds(d, s[j].begin, s[m].begin)
    BY <2>5, <2>11, <2>12, HoldsWithin
  <2>14. Depth(d, s[j].begin) \in Int /\ Depth(d, s[j].begin) < Depth(d, s[m].begin)
    BY <2>5, <2>11, <2>13, HoldsDeeper
  <2> QED
    BY <2>3, <2>4, <2>6, <2>8, <2>10, <2>14
<1>3. k <= Depth(d, s[k].begin) + 1
  BY <1>2
<1>4. s[k].begin \in Nat \ {0} /\ l \in Nat \ {0} /\ Holds(d, s[k].begin, l)
  BY LevelFacts
<1>5. Depth(d, s[k].begin) \in Int /\ Depth(d, s[k].begin) < Depth(d, l)
  BY <1>4, HoldsDeeper
<1>6. Depth(d, l) \in Nat /\ Depth(d, l) <= 998
  BY <1>1, Shape DEF MaxDepth
<1> QED
  BY <1>1, <1>3, <1>5, <1>6

\* A node that has ended stays so.
LEMMA EndedStays ==
  ASSUME NEW d, WellFormed(d), NEW b \in Nodes(d), NEW l \in DOMAIN d, NEW m, m = l + 1,
         Ended(d, b, l)
  PROVE  Ended(d, b, m)
<1>1. b \in Nat \ {0} /\ l \in Nat \ {0}
  BY NodeFacts, Shape
<1>2. Holds(d, b, l + 1) => b = l \/ Holds(d, b, l)
  BY <1>1, HoldsUp
<1> QED
  BY <1>1, <1>2 DEF Ended

\* A node that ends at a token holds it.
LEMMA EndedNew ==
  ASSUME NEW d, WellFormed(d), NEW b \in Nodes(d), NEW l \in DOMAIN d, NEW m, m = l + 1,
         ~ Ended(d, b, l), Ended(d, b, m)
  PROVE  Holds(d, b, l)
<1>1. b \in Nat \ {0} /\ l \in Nat \ {0} /\ d[b].t = "BEGIN_NODE"
  BY NodeFacts, Shape
<1>2. ASSUME b = l PROVE FALSE
  <2>1. Depth(d, b + 1) = Depth(d, b) + 1 /\ Depth(d, b) \in Int
    BY <1>1, DepthStep
  <2>2. Holds(d, b, b + 1)
    BY <1>1, <2>1, HoldsUp
  <2> QED
    BY <1>2, <2>2 DEF Ended
<1> QED
  BY <1>1, <1>2 DEF Ended

\* What a filter starts from has NOPs for the nodes that are deleted already.
Base(d, tr) ==
  \A b \in Nodes(d) :
    tr[b].t # "BEGIN_NODE" => \A i \in DOMAIN d : In(d, b, i) => tr[i] = [t |-> "NOP"]

\* A deleted node that holds the token was deleted before this filter.
LEMMA DeadHere ==
  ASSUME NEW d, WellFormed(d), NEW tr, NEW G \in SUBSET Nodes(d), NEW l \in DOMAIN d,
         \A g \in G : Ended(d, g, l),
         NEW t, t = WithDeleted(d, tr, G),
         NEW b \in Nodes(d), Holds(d, b, l), t[b].t # "BEGIN_NODE"
  PROVE  tr[b].t # "BEGIN_NODE"
<1> SUFFICES ASSUME tr[b].t = "BEGIN_NODE" PROVE FALSE
  OBVIOUS
<1>1. b \in DOMAIN d
  BY NodeFacts
<1>2. PICK g \in G : In(d, g, b)
  <2>1. (\E g \in G : In(d, g, b)) \/ t[b] = tr[b]
    BY <1>1 DEF WithDeleted
  <2> QED
    BY <2>1
<1>3. In(d, b, l)
  BY DEF In
<1>4. In(d, g, l)
  BY <1>2, <1>3, InThrough
<1>5. g \in Nat /\ l \in Nat /\ g < l /\ ~ Holds(d, g, l)
  BY NodeFacts, Shape DEF Ended
<1> QED
  BY <1>4, <1>5 DEF In

\* Deleting those again changes nothing.
LEMMA GrowBase ==
  ASSUME NEW d, WellFormed(d), NEW tr, Base(d, tr), NEW G, NEW H, G \subseteq H,
         \A h \in H : h \in G \/ (h \in Nodes(d) /\ tr[h].t # "BEGIN_NODE")
  PROVE  WithDeleted(d, tr, H) = WithDeleted(d, tr, G)
<1> DEFINE nop == [t |-> "NOP"]
<1>1. \A i \in DOMAIN d : (\E h \in H : In(d, h, i)) => (\E g \in G : In(d, g, i)) \/ tr[i] = nop
  BY DEF Base
<1>2. \A i \in DOMAIN d : (\E g \in G : In(d, g, i)) => (\E h \in H : In(d, h, i))
  OBVIOUS
<1> HIDE DEF nop
<1>3. \A i \in DOMAIN d : (IF \E h \in H : In(d, h, i) THEN nop ELSE tr[i])
                          = IF \E g \in G : In(d, g, i) THEN nop ELSE tr[i]
  BY <1>1, <1>2
<1>4. [i \in DOMAIN d |-> IF \E h \in H : In(d, h, i) THEN nop ELSE tr[i]]
      = [i \in DOMAIN d |-> IF \E g \in G : In(d, g, i) THEN nop ELSE tr[i]]
  BY <1>3
<1> QED
  BY <1>4 DEF WithDeleted, nop

\* The nodes deleted are nodes that have ended.
LEMMA GoneIs ==
  ASSUME NEW d, NEW str, NEW s, NEW l, NEW sc
  PROVE  /\ Gone(d, str, s, l, sc) \in SUBSET Nodes(d)
         /\ \A g \in Gone(d, str, s, l, sc) : Ended(d, g, l)
BY DEF Gone, CompatibleWith

\* The same tree is left when no other node that is left is to be deleted.
LEMMA SameLeft ==
  ASSUME NEW d, WellFormed(d), NEW tr, Base(d, tr), NEW t, NEW str,
         NEW s, NEW l \in DOMAIN d, NEW sc, t = WithDeleted(d, tr, Gone(d, str, s, l, sc)),
         NEW s2, NEW sc2, NEW m, m = l + 1,
         Gone(d, str, s, l, sc) \subseteq Gone(d, str, s2, m, sc2),
         \A g \in Gone(d, str, s2, m, sc2) :
           g \in Gone(d, str, s, l, sc) \/ (Holds(d, g, l) /\ t[g].t # "BEGIN_NODE")
  PROVE  t = WithDeleted(d, tr, Gone(d, str, s2, m, sc2))
<1> DEFINE G == Gone(d, str, s, l, sc)
           H == Gone(d, str, s2, m, sc2)
<1>1. G \in SUBSET Nodes(d) /\ H \in SUBSET Nodes(d) /\ \A g \in G : Ended(d, g, l)
  BY GoneIs
<1>2. t = WithDeleted(d, tr, G) /\ G \subseteq H
      /\ \A g \in H : g \in G \/ (Holds(d, g, l) /\ t[g].t # "BEGIN_NODE")
  OBVIOUS
<1> HIDE DEF G, H
<1>3. \A h \in H : h \in G \/ (h \in Nodes(d) /\ tr[h].t # "BEGIN_NODE")
  BY <1>1, <1>2, DeadHere
<1>4. WithDeleted(d, tr, H) = WithDeleted(d, tr, G)
  BY <1>2, <1>3, GrowBase
<1> QED
  BY <1>2, <1>4 DEF H

\* filter_compat steps over NOPs.
LEMMA NopDeleting ==
  ASSUME NEW d, WellFormed(d), NEW tr, Base(d, tr), NEW t, TokensKept(d, t),
         NEW s, NEW l, StackKept(d, t, s, l), NEW str, NEW sc,
         Deleting(d, tr, str, t, s, l, sc), t[l].t = "NOP", NEW m, m = l + 1
  PROVE  Deleting(d, tr, str, t, s, m, sc)
<1>1. l \in DOMAIN d /\ KillKept(d, str, s, l, sc)
      /\ t = WithDeleted(d, tr, Gone(d, str, s, l, sc))
  BY DEF StackKept, Deleting
<1>2. SeenOn(d, s, "compatible", l)
  BY CountOn
<1>3. KillKept(d, str, s, m, sc)
  BY <1>1, <1>2 DEF KillKept, SeenOn
<1>4. Gone(d, str, s, l, sc) \subseteq Gone(d, str, s, m, sc)
  BY <1>1, EndedStays DEF Gone, CompatibleWith
<1>5. ASSUME NEW g \in Gone(d, str, s, m, sc)
      PROVE  g \in Gone(d, str, s, l, sc) \/ (Holds(d, g, l) /\ t[g].t # "BEGIN_NODE")
  <2>1. g \in Nodes(d) /\ Ended(d, g, m)
    BY GoneIs
  <2>2. Ended(d, g, l) => g \in Gone(d, str, s, l, sc)
    BY DEF Gone
  <2>3. ASSUME Holds(d, g, l), t[g].t = "BEGIN_NODE" PROVE FALSE
    <3>1. Holds(d, g, l + 1)
      BY <1>1, <2>1, <2>3, HoldsNext
    <3> QED
      BY <2>1, <3>1 DEF Ended
  <2>4. Ended(d, g, l) \/ Holds(d, g, l)
    BY <1>1, <2>1, EndedNew
  <2> QED
    BY <2>2, <2>3, <2>4
<1>6. t = WithDeleted(d, tr, Gone(d, str, s, m, sc))
  BY <1>1, <1>4, <1>5, SameLeft
<1> QED
  BY <1>3, <1>6 DEF Deleting

\* A node that holds a token that is left is left.
LEMMA AliveHolds ==
  ASSUME NEW d, WellFormed(d), NEW t, TokensKept(d, t), NEW l \in DOMAIN d, t[l].t # "NOP",
         NEW b \in Nodes(d), Holds(d, b, l)
  PROVE  t[b].t = "BEGIN_NODE"
<1>1. ~ Dropped(d, t, l)
  BY TokenIs
<1> QED
  BY <1>1 DEF Dropped, In

\* filter_compat marks the level of a property that is compatible.
LEMMA PropDeleting ==
  ASSUME NEW d, WellFormed(d), NEW tr, Base(d, tr), NEW t, TokensKept(d, t),
         NEW s, NEW l, StackKept(d, t, s, l), NEW str, NEW sc,
         Deleting(d, tr, str, t, s, l, sc), t[l].t = "PROP", NEW m, m = l + 1,
         NEW s2, Len(s2) = Len(s), \A k \in 1 .. Len(s) : s2[k].begin = s[k].begin,
         NEW sc2, DOMAIN sc2 = {"depth", "kill"}, sc2.depth = sc.depth,
         sc2.kill = IF d[l].name = "compatible" /\ Lists(d[l], str) /\ sc.depth < sc.kill
                    THEN sc.depth ELSE sc.kill
  PROVE  Deleting(d, tr, str, t, s2, m, sc2)
<1> DEFINE top == s[Len(s) - 1].begin
           n == Len(s) - 1
           hit == d[l].name = "compatible" /\ Lists(d[l], str)
<1>1. /\ l \in DOMAIN d /\ KillKept(d, str, s, l, sc) /\ Len(s) \in Nat \ {0}
      /\ t = WithDeleted(d, tr, Gone(d, str, s, l, sc))
  BY DEF StackKept, Deleting
<1>2. Len(s) > 1 /\ d[l].t = "PROP" /\ Own(d, top, l)
  BY PropOfTop
<1>3. /\ n \in 1 .. Len(s) - 1 /\ n \in Nat /\ top \in Nodes(d) /\ top \in Nat \ {0}
      /\ top < l /\ l \in Nat /\ Holds(d, top, l) /\ n < 999
  <2>1. n \in 1 .. Len(s) - 1 /\ n \in Nat
    BY <1>1, <1>2
  <2> QED
    BY <2>1, LevelFacts, LevelsDeep
<1>4. /\ DOMAIN sc = {"depth", "kill"} /\ sc.depth = n
      /\ sc.kill \in (1 .. n) \cup {999}
      /\ sc.kill # 999 => s[sc.kill].begin \in CompatibleWith(d, str)
      /\ \A k \in 1 .. n : k < sc.kill =>
           \A i \in Seen(d, s[k].begin, "compatible", l) : ~ Lists(d[i], str)
  BY <1>1 DEF KillKept
<1>5. \A k \in 1 .. n : k # n => s[k].begin \in Nodes(d) /\ s[k].begin # top
  <2> TAKE k \in 1 .. n
  <2>1. s[k].begin \in Nodes(d) /\ s[k].begin \in Nat
    BY LevelFacts
  <2>2. k # n => k \in 1 .. n - 1
    BY <1>3
  <2>3. \A j \in 1 .. n - 1 : s[j].begin < top
    BY <1>3 DEF StackKept
  <2> QED
    BY <1>3, <2>1, <2>2, <2>3
<1>6. \A k \in 1 .. n : \A i \in Seen(d, s[k].begin, "compatible", m) :
        i \in Seen(d, s[k].begin, "compatible", l) \/ (k = n /\ i = l /\ d[l].name = "compatible")
  <2> TAKE k \in 1 .. n
  <2> TAKE i \in Seen(d, s[k].begin, "compatible", m)
  <2>1. i \in Named(d, s[k].begin, "compatible") /\ i < m /\ i \in Nat
    BY <1>1, Shape DEF Seen, Named
  <2>2. i < l => i \in Seen(d, s[k].begin, "compatible", l)
    BY <2>1 DEF Seen
  <2>3. ASSUME i = l PROVE k = n /\ d[l].name = "compatible"
    <3>1. d[l].name = "compatible" /\ l \in Named(d, s[k].begin, "compatible")
      BY <2>1, <2>3 DEF Named
    <3>2. l \in Named(d, top, "compatible")
      BY <1>1, <1>2, <3>1 DEF Named
    <3> QED
      BY <1>3, <1>5, <3>1, <3>2, NamedApart
  <2> QED
    BY <1>3, <2>1, <2>2, <2>3
<1>7. hit => top \in CompatibleWith(d, str)
  <2> SUFFICES ASSUME hit PROVE top \in CompatibleWith(d, str)
    OBVIOUS
  <2>1. l \in Named(d, top, "compatible")
    BY <1>1, <1>2 DEF Named
  <2> QED
    BY <1>3, <2>1, CompatIs
<1>8. Len(s2) - 1 = n /\ \A k \in 1 .. n : s2[k].begin = s[k].begin
  BY <1>1
<1>9. sc2.kill = IF hit /\ n < sc.kill THEN n ELSE sc.kill
  BY <1>4
<1>10. top = s[n].begin
  OBVIOUS
<1>11. \A g \in Nodes(d) : Ended(d, g, m) <=> Ended(d, g, l)
  <2> TAKE g \in Nodes(d)
  <2>1. Ended(d, g, l) => Ended(d, g, m)
    BY <1>1, EndedStays
  <2>2. ASSUME Ended(d, g, m), ~ Ended(d, g, l) PROVE FALSE
    <3>1. Holds(d, g, l)
      BY <1>1, <2>2, EndedNew
    <3>2. t[g].t = "BEGIN_NODE"
      BY <1>1, <3>1, AliveHolds
    <3>3. Holds(d, g, l + 1)
      BY <1>1, <3>1, <3>2, HoldsNext
    <3> QED
      BY <2>2, <3>3 DEF Ended
  <2> QED
    BY <2>1, <2>2
<1>12. \A g \in Nodes(d) : Ended(d, g, l) => g < top
  <2> TAKE g \in Nodes(d)
  <2> SUFFICES ASSUME Ended(d, g, l) PROVE g < top
    OBVIOUS
  <2>1. g \in Nat \ {0} /\ g < l /\ ~ Holds(d, g, l) /\ d[g].t = "BEGIN_NODE"
    BY NodeFacts DEF Ended
  <2>2. g # top
    BY <1>3, <2>1
  <2>3. g \notin top + 1 .. l
    BY <1>2, <2>1 DEF Own
  <2> QED
    BY <1>3, <2>1, <2>2, <2>3
<1> HIDE DEF top, n, hit
<1>13. KillKept(d, str, s2, m, sc2)
  <2>1. sc2.kill \in (1 .. n) \cup {999}
    BY <1>3, <1>4, <1>9
  <2>2. sc2.kill # 999 => s2[sc2.kill].begin \in CompatibleWith(d, str)
    BY <1>3, <1>4, <1>7, <1>8, <1>9, <1>10
  <2>3. ASSUME NEW k \in 1 .. n, k < sc2.kill,
               NEW i \in Seen(d, s[k].begin, "compatible", m)
        PROVE  ~ Lists(d[i], str)
    <3>1. k < sc.kill
      BY <1>3, <1>4, <1>9, <2>3
    <3>2. CASE i \in Seen(d, s[k].begin, "compatible", l)
      BY <1>4, <3>1, <3>2
    <3>3. CASE k = n /\ i = l /\ d[l].name = "compatible"
      <4>1. ~ hit
        BY <1>3, <1>9, <2>3, <3>1, <3>3
      <4> QED
        BY <3>3, <4>1 DEF hit
    <3> QED
      BY <1>6, <3>2, <3>3
  <2>4. \A k \in 1 .. n : k < sc2.kill =>
          \A i \in Seen(d, s2[k].begin, "compatible", m) : ~ Lists(d[i], str)
    BY <1>8, <2>3
  <2>5. sc2.depth = n
    BY <1>4
  <2> QED
    BY <1>8, <2>1, <2>2, <2>4, <2>5 DEF KillKept
<1>14. \A g \in Nodes(d) : Ended(d, g, l) =>
         ((sc2.kill = 999 \/ g < s2[sc2.kill].begin) <=> (sc.kill = 999 \/ g < s[sc.kill].begin))
  <2> TAKE g \in Nodes(d)
  <2> SUFFICES ASSUME Ended(d, g, l)
               PROVE  (sc2.kill = 999 \/ g < s2[sc2.kill].begin)
                        <=> (sc.kill = 999 \/ g < s[sc.kill].begin)
    OBVIOUS
  <2>1. g < top
    BY <1>12
  <2>2. CASE sc2.kill = sc.kill
    BY <1>4, <1>8, <2>2
  <2>3. CASE sc2.kill # sc.kill
    <3>1. sc2.kill = n /\ sc.kill = 999
      BY <1>3, <1>4, <1>9, <2>3
    <3> QED
      BY <1>3, <1>8, <1>10, <2>1, <3>1
  <2> QED
    BY <2>2, <2>3
<1>15. Gone(d, str, s2, m, sc2) = Gone(d, str, s, l, sc)
  <2>1. \A g \in CompatibleWith(d, str) : g \in Nodes(d)
    BY DEF CompatibleWith
  <2> QED
    BY <2>1, <1>11, <1>14 DEF Gone
<1> QED
  BY <1>1, <1>13, <1>15 DEF Deleting

\* filter_compat enters a child.
LEMMA BeginDeleting ==
  ASSUME NEW d, WellFormed(d), NEW tr, Base(d, tr), NEW t, TokensKept(d, t),
         NEW s, NEW l, StackKept(d, t, s, l), NEW str, NEW sc,
         Deleting(d, tr, str, t, s, l, sc), t[l].t = "BEGIN_NODE", NEW m, m = l + 1,
         NEW s2, Len(s2) = Len(s) + 1, \A k \in 1 .. Len(s) - 1 : s2[k].begin = s[k].begin,
         s2[Len(s)].begin = l,
         NEW sc2, DOMAIN sc2 = {"depth", "kill"}, sc2.depth = sc.depth + 1, sc2.kill = sc.kill
  PROVE  Deleting(d, tr, str, t, s2, m, sc2)
<1> DEFINE n == Len(s) - 1
<1>1. /\ l \in DOMAIN d /\ KillKept(d, str, s, l, sc) /\ Len(s) \in Nat \ {0}
      /\ t = WithDeleted(d, tr, Gone(d, str, s, l, sc))
  BY DEF StackKept, Deleting
<1>2. /\ DOMAIN sc = {"depth", "kill"} /\ sc.depth = n
      /\ sc.kill \in (1 .. n) \cup {999}
      /\ sc.kill # 999 => s[sc.kill].begin \in CompatibleWith(d, str)
      /\ \A k \in 1 .. n : k < sc.kill =>
           \A i \in Seen(d, s[k].begin, "compatible", l) : ~ Lists(d[i], str)
  BY <1>1 DEF KillKept
<1>3. d[l].t = "BEGIN_NODE" /\ l \in Nodes(d)
  BY <1>1, TokenIs DEF Nodes
<1>4. SeenOn(d, s, "compatible", l)
  BY CountOn
<1>5. Seen(d, l, "compatible", m) = {}
  BY <1>3, NoneSeen
<1>6. \A k \in 1 .. n : Seen(d, s[k].begin, "compatible", m) = Seen(d, s[k].begin, "compatible", l)
  BY <1>4 DEF SeenOn
<1>7. Len(s) = n + 1 /\ n \in Nat /\ Len(s2) - 1 = n + 1 /\ s2[n + 1].begin = l
      /\ \A k \in 1 .. n : s2[k].begin = s[k].begin
  BY <1>1
<1> HIDE DEF n
<1>8. KillKept(d, str, s2, m, sc2)
  <2>1. sc2.kill \in (1 .. n + 1) \cup {999}
    BY <1>2, <1>7
  <2>2. sc2.kill # 999 => s2[sc2.kill].begin \in CompatibleWith(d, str)
    BY <1>2, <1>7
  <2>3. ASSUME NEW k \in 1 .. n + 1, k < sc2.kill,
               NEW i \in Seen(d, s2[k].begin, "compatible", m)
        PROVE  ~ Lists(d[i], str)
    <3>1. k = n + 1 \/ k \in 1 .. n
      BY <1>7
    <3> QED
      BY <1>2, <1>5, <1>6, <1>7, <2>3, <3>1
  <2>4. sc2.depth = Len(s2) - 1
    BY <1>2, <1>7
  <2> QED
    BY <1>7, <2>1, <2>2, <2>3, <2>4 DEF KillKept
<1>9. \A g \in Nodes(d) : Ended(d, g, m) <=> Ended(d, g, l)
  <2> TAKE g \in Nodes(d)
  <2>1. Ended(d, g, l) => Ended(d, g, m)
    BY <1>1, EndedStays
  <2>2. ASSUME Ended(d, g, m), ~ Ended(d, g, l) PROVE FALSE
    <3>1. Holds(d, g, l) /\ g \in Nat \ {0} /\ l \in Nat \ {0}
      BY <1>1, <2>2, EndedNew, NodeFacts, Shape
    <3>2. /\ Depth(d, g) \in Int /\ Depth(d, l) \in Int /\ Depth(d, g) < Depth(d, l)
          /\ Depth(d, l + 1) = Depth(d, l) + 1
      BY <1>3, <3>1, HoldsDeeper, DepthStep
    <3>3. Depth(d, l + 1) > Depth(d, g)
      BY <3>2
    <3>4. Holds(d, g, l + 1) <=> (g = l \/ Holds(d, g, l)) /\ Depth(d, l + 1) > Depth(d, g)
      BY <3>1, HoldsUp
    <3>5. Ended(d, g, l + 1)
      BY <2>2
    <3> QED
      BY <3>1, <3>3, <3>4, <3>5 DEF Ended
  <2> QED
    BY <2>1, <2>2
<1>10. Gone(d, str, s2, m, sc2) = Gone(d, str, s, l, sc)
  <2>1. \A g \in CompatibleWith(d, str) : g \in Nodes(d)
    BY DEF CompatibleWith
  <2>2. sc.kill # 999 => s2[sc.kill].begin = s[sc.kill].begin
    BY <1>2, <1>7
  <2> QED
    BY <2>1, <2>2, <1>9 DEF Gone
<1> QED
  BY <1>1, <1>8, <1>10 DEF Deleting

\* What filter_compat knows where a node ends: its kill is of a node that is left,
\* and the node that ends is the only one left to end there.
Ending(d, s, l, str, sc, m, n, top) ==
  /\ n \in 1 .. Len(s) - 1 /\ n \in Nat \ {0} /\ n < 999 /\ Len(s) = n + 1
  /\ l \in DOMAIN d /\ top \in Nodes(d) /\ top \in Nat \ {0} /\ top < l
  /\ \A i \in DOMAIN d : In(d, top, i) <=> i \in top .. l
  /\ \A a \in Nodes(d) : Ended(d, a, m) =>
       Ended(d, a, l) \/ a = top
  /\ Ended(d, top, m) /\ ~ Ended(d, top, l)
  /\ sc.depth = n /\ DOMAIN sc = {"depth", "kill"}
  /\ sc.kill \in (1 .. n) \cup {999}
  /\ sc.kill # 999 => /\ s[sc.kill].begin \in CompatibleWith(d, str)
                      /\ s[sc.kill].begin <= top
  /\ \A k \in 1 .. n : k < sc.kill =>
       \A i \in Seen(d, s[k].begin, "compatible", m) : ~ Lists(d[i], str)
  /\ sc.kill = 999 => top \notin CompatibleWith(d, str)

\* What ends with a node.
LEMMA EndingNode ==
  ASSUME NEW d, WellFormed(d), NEW t, TokensKept(d, t),
         NEW s, NEW l, StackKept(d, t, s, l), NEW str, NEW sc,
         KillKept(d, str, s, l, sc), t[l].t = "END_NODE", NEW m, m = l + 1,
         NEW n, n = Len(s) - 1, NEW top, top = s[n].begin
  PROVE  Ending(d, s, l, str, sc, m, n, top)
<1>1. /\ Len(s) > 1 /\ d[l].t = "END_NODE" /\ ~ Dropped(d, t, l)
      /\ Depth(d, l) = Depth(d, s[Len(s) - 1].begin) + 1
  BY EndOfTop
<1>2. Len(s) \in Nat \ {0} /\ l \in DOMAIN d
  BY DEF StackKept
<1>3. n \in 1 .. Len(s) - 1 /\ n \in Nat \ {0} /\ Len(s) = n + 1
  BY <1>1, <1>2
<1>4. /\ top \in Nodes(d) /\ top \in Nat \ {0} /\ top < l /\ l \in Nat \ {0}
      /\ Holds(d, top, l) /\ n < 999
  BY <1>3, LevelFacts, LevelsDeep
<1>5. Depth(d, l) = Depth(d, top) + 1
  BY <1>1
<1>6. m \in DOMAIN d
  <2>1. t[l].t # "END"
    OBVIOUS
  <2> QED
    BY <1>2, <2>1, NotLast
<1>7. /\ \A i \in DOMAIN d : In(d, top, i) <=> i \in top .. l
      /\ \A a \in Nodes(d) : Holds(d, a, l + 1) <=> Holds(d, a, l) /\ Holds(d, a, top)
      /\ \A a \in Nodes(d) : Holds(d, a, l) => In(d, a, top) \/ top < a
  BY <1>1, <1>2, <1>4, <1>5, <1>6, EndsHere
<1>8. ~ Holds(d, top, top)
  BY <1>4 DEF Holds
<1>9. Ended(d, top, m) /\ ~ Ended(d, top, l)
  BY <1>4, <1>7, <1>8 DEF Ended
<1>10. ASSUME NEW a \in Nodes(d), Ended(d, a, m), ~ Ended(d, a, l) PROVE a = top
  <2>1. Holds(d, a, l)
    BY <1>2, <1>10, EndedNew
  <2>2. t[a].t = "BEGIN_NODE"
    BY <1>2, <2>1, AliveHolds
  <2>3. PICK k \in 1 .. Len(s) - 1 : a = s[k].begin
    BY <2>1, <2>2 DEF StackKept
  <2>4. a \in Nat /\ ~ (top < a)
    <3>1. k <= n /\ a \in Nat
      BY <1>3, <2>3, NodeFacts
    <3>2. s[k].begin <= s[n].begin
      BY <1>3, <2>3, <3>1, LevelsInOrder
    <3> QED
      BY <1>4, <2>3, <3>1, <3>2
  <2>5. In(d, a, top) /\ ~ Holds(d, a, top)
    BY <1>7, <1>10, <2>1, <2>4 DEF Ended
  <2> QED
    BY <2>5 DEF In
<1>11. /\ sc.depth = n /\ DOMAIN sc = {"depth", "kill"} /\ sc.kill \in (1 .. n) \cup {999}
       /\ sc.kill # 999 => s[sc.kill].begin \in CompatibleWith(d, str)
       /\ \A k \in 1 .. n : k < sc.kill =>
            \A i \in Seen(d, s[k].begin, "compatible", l) : ~ Lists(d[i], str)
  BY DEF KillKept
<1>12. sc.kill # 999 => s[sc.kill].begin <= top
  BY <1>3, <1>11, LevelsInOrder
<1>13. \A k \in 1 .. n : Seen(d, s[k].begin, "compatible", m) = Seen(d, s[k].begin, "compatible", l)
  <2>1. SeenOn(d, s, "compatible", l)
    BY CountOn
  <2> QED
    BY <2>1 DEF SeenOn
<1>14. ASSUME sc.kill = 999 PROVE top \notin CompatibleWith(d, str)
  <2>1. \A i \in Seen(d, top, "compatible", l) : ~ Lists(d[i], str)
    BY <1>3, <1>4, <1>11, <1>14
  <2>2. Seen(d, top, "compatible", l) = Named(d, top, "compatible")
    BY <1>1, <1>2, <1>4, AllSeen
  <2> QED
    BY <1>4, <2>1, <2>2, CompatIs
<1>15. \A k \in 1 .. n : k < sc.kill =>
         \A i \in Seen(d, s[k].begin, "compatible", m) : ~ Lists(d[i], str)
  BY <1>11, <1>13
<1> QED
  BY <1>2, <1>3, <1>4, <1>7, <1>9, <1>10, <1>11, <1>12, <1>14, <1>15 DEF Ending

\* A node that is not the one to delete stays, for now if kill is around it.
LEMMA EndDeleting ==
  ASSUME NEW d, WellFormed(d), NEW tr, Base(d, tr), NEW t, TokensKept(d, t),
         NEW s, NEW l, StackKept(d, t, s, l), NEW str, NEW sc,
         Deleting(d, tr, str, t, s, l, sc), t[l].t = "END_NODE", NEW m, m = l + 1,
         NEW s2, Len(s2) = Len(s) - 1, \A k \in 1 .. Len(s) - 1 : s2[k] = s[k],
         sc.kill # sc.depth,
         NEW sc2, DOMAIN sc2 = {"depth", "kill"}, sc2.depth = sc.depth - 1, sc2.kill = sc.kill
  PROVE  Deleting(d, tr, str, t, s2, m, sc2)
<1>0. PICK n, top : n = Len(s) - 1 /\ top = s[n].begin
  OBVIOUS
<1>1. KillKept(d, str, s, l, sc) /\ t = WithDeleted(d, tr, Gone(d, str, s, l, sc))
  BY DEF Deleting
<1>2. /\ n \in 1 .. Len(s) - 1 /\ n \in Nat \ {0} /\ n < 999 /\ Len(s) = n + 1
      /\ l \in DOMAIN d /\ top \in Nodes(d) /\ top \in Nat \ {0} /\ top < l
      /\ \A a \in Nodes(d) : Ended(d, a, m) => Ended(d, a, l) \/ a = top
      /\ Ended(d, top, m) /\ ~ Ended(d, top, l)
      /\ sc.depth = n
      /\ sc.kill \in (1 .. n) \cup {999}
      /\ sc.kill # 999 => /\ s[sc.kill].begin \in CompatibleWith(d, str)
                          /\ s[sc.kill].begin <= top
      /\ \A k \in 1 .. n : k < sc.kill =>
           \A i \in Seen(d, s[k].begin, "compatible", m) : ~ Lists(d[i], str)
      /\ sc.kill = 999 => top \notin CompatibleWith(d, str)
  <2>1. Ending(d, s, l, str, sc, m, n, top)
    BY <1>0, <1>1, EndingNode
  <2> QED
    BY <2>1 DEF Ending
<1>3. Len(s2) - 1 = n - 1 /\ \A k \in 1 .. n : s2[k] = s[k]
  BY <1>0, <1>2
<1>4. \A k \in 1 .. n - 1 : k \in 1 .. n
  BY <1>2
<1>5. sc.kill \in (1 .. n - 1) \cup {999}
  BY <1>2
<1>6. KillKept(d, str, s2, m, sc2)
  <2>1. sc2.kill # 999 => s2[sc2.kill].begin \in CompatibleWith(d, str)
    BY <1>2, <1>3
  <2>2. \A k \in 1 .. n - 1 : k < sc2.kill =>
          \A i \in Seen(d, s2[k].begin, "compatible", m) : ~ Lists(d[i], str)
    BY <1>2, <1>3, <1>4
  <2> QED
    BY <1>2, <1>3, <1>5, <2>1, <2>2 DEF KillKept
<1>7. sc2.kill # 999 => s2[sc2.kill].begin = s[sc.kill].begin /\ s[sc.kill].begin \in Nat
  <2> SUFFICES ASSUME sc.kill # 999
               PROVE  s2[sc.kill].begin = s[sc.kill].begin /\ s[sc.kill].begin \in Nat
    OBVIOUS
  <2>1. s2[sc.kill] = s[sc.kill]
    BY <1>2, <1>3
  <2>2. s[sc.kill].begin \in Nodes(d)
    BY <1>2 DEF CompatibleWith
  <2> QED
    BY <2>1, <2>2, NodeFacts
<1>8. Gone(d, str, s2, m, sc2) = Gone(d, str, s, l, sc)
  <2>1. \A g \in CompatibleWith(d, str) : g \in Nodes(d)
    BY DEF CompatibleWith
  <2>2. ASSUME NEW g \in Gone(d, str, s, l, sc) PROVE g \in Gone(d, str, s2, m, sc2)
    <3>1. g \in CompatibleWith(d, str) /\ g \in Nodes(d) /\ Ended(d, g, l)
          /\ (sc.kill = 999 \/ g < s[sc.kill].begin)
      BY <2>1 DEF Gone
    <3>2. l \in DOMAIN d
      BY <1>2
    <3>3. Ended(d, g, m)
      BY <3>1, <3>2, EndedStays
    <3> QED
      BY <1>7, <3>1, <3>3 DEF Gone
  <2>3. ASSUME NEW g \in Gone(d, str, s2, m, sc2) PROVE g \in Gone(d, str, s, l, sc)
    <3>1. g \in CompatibleWith(d, str) /\ Ended(d, g, m)
          /\ (sc.kill = 999 \/ g < s[sc.kill].begin)
      <4>1. /\ g \in CompatibleWith(d, str) /\ Ended(d, g, m)
            /\ (sc2.kill = 999 \/ g < s2[sc2.kill].begin)
        BY DEF Gone
      <4> QED
        BY <1>7, <4>1
    <3>2. g # top
      BY <1>2, <1>7, <3>1
    <3>3. Ended(d, g, l)
      <4>1. \A a \in Nodes(d) : Ended(d, a, m) => Ended(d, a, l) \/ a = top
        BY <1>2
      <4> QED
        BY <2>1, <3>1, <3>2, <4>1
    <3> QED
      BY <3>1, <3>3 DEF Gone
  <2> QED
    BY <2>2, <2>3
<1> QED
  BY <1>1, <1>6, <1>8 DEF Deleting

\* The outermost node that is compatible is deleted, and what is in it with it.
LEMMA KillDeleting ==
  ASSUME NEW d, WellFormed(d), NEW tr, Base(d, tr), NEW t, TokensKept(d, t),
         NEW s, NEW l, StackKept(d, t, s, l), NEW str, NEW sc,
         Deleting(d, tr, str, t, s, l, sc), t[l].t = "END_NODE", NEW m, m = l + 1,
         NEW s2, Len(s2) = Len(s) - 1, \A k \in 1 .. Len(s) - 1 : s2[k] = s[k],
         sc.kill = sc.depth,
         NEW sc2, DOMAIN sc2 = {"depth", "kill"}, sc2.depth = sc.depth - 1, sc2.kill = 999,
         NEW t2, NEW top, top = s[Len(s) - 1].begin, Cut(t, t2, top, l)
  PROVE  Deleting(d, tr, str, t2, s2, m, sc2)
<1>0. PICK n : n = Len(s) - 1
  OBVIOUS
<1> DEFINE G == Gone(d, str, s, l, sc)
           H == Gone(d, str, s2, m, sc2)
<1>1. KillKept(d, str, s, l, sc) /\ t = WithDeleted(d, tr, G)
  BY DEF Deleting
<1>2. /\ n \in 1 .. Len(s) - 1 /\ n \in Nat \ {0} /\ n < 999 /\ Len(s) = n + 1
      /\ l \in DOMAIN d /\ top \in Nodes(d) /\ top \in Nat \ {0} /\ top < l
      /\ \A i \in DOMAIN d : In(d, top, i) <=> i \in top .. l
      /\ \A a \in Nodes(d) : Ended(d, a, m) => Ended(d, a, l) \/ a = top
      /\ Ended(d, top, m) /\ ~ Ended(d, top, l)
      /\ sc.depth = n
      /\ sc.kill # 999 => s[sc.kill].begin \in CompatibleWith(d, str)
      /\ \A k \in 1 .. n : k < sc.kill =>
           \A i \in Seen(d, s[k].begin, "compatible", m) : ~ Lists(d[i], str)
  <2>1. Ending(d, s, l, str, sc, m, n, top)
    BY <1>0, <1>1, EndingNode
  <2> QED
    BY <2>1 DEF Ending
<1>3. Len(s2) - 1 = n - 1 /\ \A k \in 1 .. n : s2[k] = s[k]
  BY <1>0, <1>2
<1>4. \A k \in 1 .. n - 1 : k \in 1 .. n /\ k < n
  BY <1>2
<1>5. sc.kill = n /\ top = s[n].begin /\ n # 999
  <2>1. sc.depth = n /\ n \in Nat /\ n < 999
    BY <1>2
  <2>2. n # 999
    BY <2>1
  <2> QED
    <3>1. top = s[n].begin
      BY <1>0
    <3> QED
      BY <2>1, <2>2, <3>1
<1>6. top \in CompatibleWith(d, str)
  <2>1. sc.kill # 999 => s[sc.kill].begin \in CompatibleWith(d, str)
    BY <1>2
  <2> QED
    BY <1>5, <2>1
<1>7. KillKept(d, str, s2, m, sc2)
  <2>1. \A k \in 1 .. n - 1 : k < sc2.kill =>
          \A i \in Seen(d, s2[k].begin, "compatible", m) : ~ Lists(d[i], str)
    BY <1>2, <1>3, <1>4, <1>5
  <2> QED
    BY <1>2, <1>3, <2>1 DEF KillKept
<1>8. G \subseteq H
  <2>1. ASSUME NEW g \in G PROVE g \in H
    <3>1. g \in CompatibleWith(d, str) /\ g \in Nodes(d) /\ Ended(d, g, l)
      BY DEF Gone, CompatibleWith
    <3>2. Ended(d, g, m)
      <4>1. l \in DOMAIN d
        BY <1>2
      <4> QED
        BY <3>1, <4>1, EndedStays
    <3> QED
      BY <3>1, <3>2 DEF Gone
  <2> QED
    BY <2>1
<1>9. top \in H
  BY <1>2, <1>6 DEF Gone
<1>10. ASSUME NEW g \in H PROVE g \in G \/ (g \in Nodes(d) /\ In(d, top, g))
  <2>1. g \in CompatibleWith(d, str) /\ g \in Nodes(d) /\ Ended(d, g, m)
    BY DEF Gone, CompatibleWith
  <2>2. g \in Nat \ {0} /\ g \in DOMAIN d
    BY <2>1, NodeFacts
  <2>3. CASE g = top
    BY <2>1, <2>3 DEF In
  <2>4. CASE g # top
    <3>1. Ended(d, g, l) /\ g < l
      <4>1. \A a \in Nodes(d) : Ended(d, a, m) => Ended(d, a, l) \/ a = top
        BY <1>2
      <4>2. Ended(d, g, l)
        BY <2>1, <2>4, <4>1
      <4> QED
        BY <4>2 DEF Ended
    <3>2. CASE g < top
      BY <1>5, <2>1, <3>1, <3>2 DEF Gone
    <3>3. CASE ~ (g < top)
      <4>1. g \in top .. l
        BY <1>2, <2>2, <3>1, <3>3, Shape
      <4> QED
        BY <1>2, <2>1, <2>2, <4>1
    <3> QED
      BY <3>2, <3>3
  <2> QED
    BY <2>3, <2>4
<1> DEFINE nop == [t |-> "NOP"]
<1>11. \A i \in DOMAIN d : (\E h \in H : In(d, h, i)) <=> i \in top .. l \/ \E g \in G : In(d, g, i)
  <2> TAKE i \in DOMAIN d
  <2>1. ASSUME NEW h \in H, In(d, h, i) PROVE i \in top .. l \/ \E g \in G : In(d, g, i)
    <3>1. CASE h \in G
      BY <2>1, <3>1
    <3>2. CASE h \in Nodes(d) /\ In(d, top, h)
      <4>1. top \in Nodes(d)
        BY <1>2
      <4>2. In(d, top, i)
        BY <2>1, <3>2, <4>1, InThrough
      <4> QED
        BY <1>2, <4>2
    <3> QED
      BY <1>10, <3>1, <3>2
  <2>2. i \in top .. l => \E h \in H : In(d, h, i)
    BY <1>2, <1>9
  <2>3. (\E g \in G : In(d, g, i)) => \E h \in H : In(d, h, i)
    BY <1>8
  <2> QED
    BY <2>1, <2>2, <2>3
<1> HIDE DEF G, H, nop
<1>12. t = [i \in DOMAIN d |-> IF \E g \in G : In(d, g, i) THEN nop ELSE tr[i]]
  BY <1>1 DEF WithDeleted, nop
<1>13. /\ DOMAIN t = DOMAIN d
       /\ t2 = [i \in DOMAIN d |-> t2[i]]
       /\ \A i \in DOMAIN d : t2[i] = IF i \in top .. l THEN nop ELSE t[i]
  BY <1>12 DEF Cut, nop
<1>14. \A i \in DOMAIN d : t2[i] = IF \E h \in H : In(d, h, i) THEN nop ELSE tr[i]
  BY <1>11, <1>12, <1>13
<1>15. t2 = [i \in DOMAIN d |-> IF \E h \in H : In(d, h, i) THEN nop ELSE tr[i]]
  BY <1>13, <1>14
<1>16. t2 = WithDeleted(d, tr, H)
  BY <1>15 DEF WithDeleted, nop
<1> QED
  BY <1>7, <1>16 DEF Deleting, H

\* When the scan is over every compatible node has been deleted.
LEMMA OverDeleting ==
  ASSUME NEW d, WellFormed(d), NEW tr, NEW t, NEW s, Len(s) = 1, NEW l, l = Len(d),
         NEW str, NEW sc, Deleting(d, tr, str, t, s, l, sc)
  PROVE  t = WithDeleted(d, tr, CompatibleWith(d, str))
<1>1. sc.kill = 999 /\ t = WithDeleted(d, tr, Gone(d, str, s, l, sc))
  BY DEF Deleting, KillKept
<1>2. \A g \in CompatibleWith(d, str) : Ended(d, g, l)
  <2> TAKE g \in CompatibleWith(d, str)
  <2>1. g \in Nodes(d)
    BY DEF CompatibleWith
  <2>2. ~ Holds(d, g, Len(d)) /\ g # Len(d)
    BY <2>1, LastIsFree
  <2>3. g \in 1 .. Len(d) /\ Len(d) \in Nat
    BY <2>1, Shape
  <2> QED
    BY <2>2, <2>3 DEF Ended
<1>3. Gone(d, str, s, l, sc) = CompatibleWith(d, str)
  BY <1>1, <1>2 DEF Gone
<1> QED
  BY <1>1, <1>3

-----------------------------------------------------------------------------
(* The filters that delete *)

\* Before filter_clint no node is deleted.
LEMMA PlicsBase ==
  ASSUME WellFormed(dtb)
  PROVE  /\ PlicsRedacted = [i \in DOMAIN dtb |-> PlicsRedacted[i]]
         /\ \A b \in Nodes(dtb) : PlicsRedacted[b].t = "BEGIN_NODE"
<1>1. PlicsRedacted = [i \in DOMAIN dtb |-> PlicsRedacted[i]]
  BY DEF PlicsRedacted, WithRedacted
<1>2. ASSUME NEW b \in Nodes(dtb) PROVE PlicsRedacted[b].t = "BEGIN_NODE"
  <2>1. b \in DOMAIN dtb /\ dtb[b].t = "BEGIN_NODE"
    BY NodeFacts
  <2>2. \A a, n : b \notin Named(dtb, a, n)
    BY <2>1 DEF Named
  <2>3. HartsMasked[b] = dtb[b]
    BY <2>1, <2>2 DEF HartsMasked, WithMasked
  <2>4. PlicsRedacted[b] = HartsMasked[b]
    BY <2>1, <2>2 DEF PlicsRedacted, WithRedacted
  <2> QED
    BY <2>1, <2>3, <2>4
<1> QED
  BY <1>1, <1>2

\* Before filter_debug those are that filter_clint has.
LEMMA ClintsBase ==
  ASSUME WellFormed(dtb)
  PROVE  /\ ClintsDeleted = [i \in DOMAIN dtb |-> ClintsDeleted[i]]
         /\ Base(dtb, ClintsDeleted)
<1> DEFINE G == CompatibleWith(dtb, "riscv,clint0")
           tr == PlicsRedacted
           t == ClintsDeleted
           nop == [t |-> "NOP"]
<1>1. \A b \in Nodes(dtb) : tr[b].t = "BEGIN_NODE"
  BY PlicsBase
<1>2. t = [i \in DOMAIN dtb |-> IF \E g \in G : In(dtb, g, i) THEN nop ELSE tr[i]]
  BY DEF ClintsDeleted, WithDeleted
<1>3. \A g \in G : g \in Nodes(dtb)
  BY DEF CompatibleWith
<1> HIDE DEF G, tr, t
<1>4. ASSUME NEW b \in Nodes(dtb), t[b].t # "BEGIN_NODE", NEW i \in DOMAIN dtb, In(dtb, b, i)
      PROVE  t[i] = nop
  <2>1. b \in DOMAIN dtb
    BY NodeFacts
  <2>2. PICK g \in G : In(dtb, g, b)
    BY <1>1, <1>2, <1>4, <2>1
  <2>3. In(dtb, g, i)
    BY <1>3, <1>4, <2>2, InThrough
  <2> QED
    BY <1>2, <1>4, <2>3
<1>5. t = [i \in DOMAIN dtb |-> t[i]]
  BY <1>2
<1> QED
  BY <1>4, <1>5 DEF Base, t

\* filter_compat has no done.
LEMMA NoDone ==
  ASSUME pass \in {13, 14}
  PROVE  DoneOnce(Now) = Now /\ Passes[pass] \in Compats
<1>1. Passes[pass] \in {"filter_clint", "filter_debug"}
  BY DEF Passes
<1>2. Done(Now, cur) = Now
  BY <1>1 DEF Done, Queries
<1> QED
  BY <1>1, <1>2 DEF DoneOnce, Compats

\* What its callbacks do to the locals.
LEMMA CompatCalls ==
  ASSUME pass \in {13, 14}, DOMAIN scan = {"depth", "kill"}
  PROVE  /\ LET c == HasProp(Now, cur, tok)
            IN /\ c.tree = tree /\ c.found = found /\ c.failed = failed
               /\ DOMAIN c.scan = {"depth", "kill"} /\ c.scan.depth = scan.depth
               /\ c.scan.kill = IF Matches(tok, {compat_name}) /\ scan.depth < scan.kill
                                THEN scan.depth ELSE scan.kill
         /\ LET c == Open(Now, level, tok.name)
            IN /\ c.tree = tree /\ c.found = found /\ c.failed = failed
               /\ DOMAIN c.scan = {"depth", "kill"} /\ c.scan.depth = scan.depth + 1
               /\ c.scan.kill = scan.kill
         /\ LET c == Close(Now, cur)
            IN /\ IsCall(c)
               /\ c.tree = tree /\ c.found = found /\ c.failed = failed
               /\ DOMAIN c.scan = {"depth", "kill"} /\ c.scan.depth = scan.depth - 1
               /\ c.scan.kill = IF scan.kill = scan.depth THEN 999 ELSE scan.kill
         /\ Deletes(Now) <=> scan.kill = scan.depth
<1>1. Passes[pass] \in {"filter_clint", "filter_debug"}
  BY DEF Passes
<1>2. /\ HasProp(Now, cur, tok) = compat_prop(Now, cur, tok)
      /\ Open(Now, level, tok.name) = compat_open(Now, level)
      /\ Close(Now, cur) = compat_close(Now, cur)
      /\ Deletes(Now) <=> Killed(Now)
  BY <1>1 DEF HasProp, Open, Close, Deletes, Compats, Queries
<1> DEFINE c == Now
           hit == Matches(tok, {compat_name})
<1>3. IsCall(c) /\ c.tree = tree /\ c.found = found /\ c.failed = failed /\ c.scan = scan
  BY DEF IsCall, CallFields, Now
<1>4. compat_prop(c, cur, tok) = IF hit /\ c.scan.depth < c.scan.kill
                                 THEN [c EXCEPT !.scan.kill = c.scan.depth] ELSE c
  BY DEF compat_prop
<1> HIDE DEF c, hit
<1>5. LET c2 == compat_prop(c, cur, tok)
      IN /\ c2.tree = tree /\ c2.found = found /\ c2.failed = failed
         /\ DOMAIN c2.scan = {"depth", "kill"} /\ c2.scan.depth = scan.depth
         /\ c2.scan.kill = IF hit /\ scan.depth < scan.kill THEN scan.depth ELSE scan.kill
  BY <1>3, <1>4 DEF IsCall, CallFields
<1>6. LET c2 == compat_open(c, level)
      IN /\ c2.tree = tree /\ c2.found = found /\ c2.failed = failed
         /\ DOMAIN c2.scan = {"depth", "kill"} /\ c2.scan.depth = scan.depth + 1
         /\ c2.scan.kill = scan.kill
  BY <1>3 DEF compat_open, IsCall, CallFields
<1>7. LET c2 == compat_close(c, cur)
      IN /\ IsCall(c2)
         /\ c2.tree = tree /\ c2.found = found /\ c2.failed = failed
         /\ DOMAIN c2.scan = {"depth", "kill"} /\ c2.scan.depth = scan.depth - 1
         /\ c2.scan.kill = IF scan.kill = scan.depth THEN 999 ELSE scan.kill
  BY <1>3 DEF compat_close, Killed, IsCall, CallFields
<1>8. Killed(c) <=> scan.kill = scan.depth
  BY <1>3 DEF Killed
<1> QED
  BY <1>2, <1>5, <1>6, <1>7, <1>8 DEF c, hit

\* Each token leaves what filter_compat knows and has deleted.
LEMMA DeletingStep ==
  ASSUME \A d \in Dtbs : Whole(d), ScanInv, pass \in {13, 14},
         Nop \/ Prop \/ BeginNode \/ EndNode,
         NEW tr, Base(dtb, tr), NEW str, str = compat_name,
         Deleting(dtb, tr, str, tree, stack, lex, scan)
  PROVE  /\ Deleting(dtb, tr, str, tree', stack', lex', scan')
         /\ UNCHANGED <<dtb, pass, found, failed>>
<1>1. Scanning
  BY DEF Nop, Prop, BeginNode, EndNode
<1>2. /\ WellFormed(dtb) /\ TokensKept(dtb, tree) /\ StackKept(dtb, tree, stack, lex)
  BY <1>1, Running
<1>3. DOMAIN scan = {"depth", "kill"}
  BY DEF Deleting, KillKept
<1>4. lex' = lex + 1
  <2>1. EndNode => lex' = lex + 1
    BY EndStack
  <2>2. Prop => lex' = lex + 1
    BY PropIs
  <2> QED
    BY <2>1, <2>2 DEF Nop, BeginNode
<1>5. CASE Nop
  <2>1. tree[lex].t = "NOP" /\ UNCHANGED <<dtb, tree, pass, stack, scan, found, failed>>
    BY <1>5 DEF Nop, tok
  <2>2. Deleting(dtb, tr, str, tree, stack, lex', scan)
    BY <1>2, <1>4, <2>1, NopDeleting
  <2> QED
    BY <2>1, <2>2
<1>6. CASE Prop
  <2>1. /\ tree[lex].t = "PROP" /\ dtb[lex].t = "PROP" /\ tok.name = dtb[lex].name
        /\ dtb[lex].name \notin {"status", "interrupts-extended"} => tok = dtb[lex]
        /\ UNCHANGED <<dtb, pass>> /\ Becomes(HasProp(Now, cur, tok))
    BY <1>6, PropIs
  <2>2. Matches(tok, {compat_name}) <=> dtb[lex].name = "compatible" /\ Lists(dtb[lex], str)
    BY <2>1 DEF Matches
  <2>3. /\ tree' = tree /\ found' = found /\ failed' = failed
        /\ DOMAIN scan' = {"depth", "kill"} /\ scan'.depth = scan.depth
        /\ scan'.kill = IF Matches(tok, {compat_name}) /\ scan.depth < scan.kill
                        THEN scan.depth ELSE scan.kill
    BY <1>3, <2>1, CompatCalls DEF Becomes
  <2>4. scan'.kill = IF dtb[lex].name = "compatible" /\ Lists(dtb[lex], str)
                        /\ scan.depth < scan.kill
                     THEN scan.depth ELSE scan.kill
    BY <2>2, <2>3
  <2>5. Len(stack') = Len(stack) /\ \A k \in 1 .. Len(stack) : stack'[k].begin = stack[k].begin
    BY <1>6, PropStack
  <2>6. Deleting(dtb, tr, str, tree, stack', lex', scan')
    BY <1>2, <1>4, <2>1, <2>3, <2>4, <2>5, PropDeleting
  <2> QED
    BY <2>1, <2>3, <2>6
<1>7. CASE BeginNode
  <2>1. /\ tree[lex].t = "BEGIN_NODE" /\ UNCHANGED <<dtb, pass>>
        /\ Becomes(Open(Now, level, tok.name))
    BY <1>7, NoDone DEF BeginNode, tok
  <2>2. /\ tree' = tree /\ found' = found /\ failed' = failed
        /\ DOMAIN scan' = {"depth", "kill"} /\ scan'.depth = scan.depth + 1
        /\ scan'.kill = scan.kill
    BY <1>3, <2>1, CompatCalls DEF Becomes
  <2>3. /\ Len(stack') = Len(stack) + 1 /\ stack'[Len(stack)].begin = lex
        /\ \A k \in 1 .. Len(stack) - 1 : stack'[k].begin = stack[k].begin
    BY <1>7, BeginStack
  <2>4. Deleting(dtb, tr, str, tree, stack', lex', scan')
    BY <1>2, <1>4, <2>1, <2>2, <2>3, BeginDeleting
  <2> QED
    BY <2>1, <2>2, <2>4
<1>8. CASE EndNode
  <2>1. /\ tree[lex].t = "END_NODE" /\ UNCHANGED <<dtb, pass>> /\ Return(lex + 1)
        /\ cur = Len(stack) - 1 /\ Len(stack') = Len(stack) - 1
        /\ \A k \in 1 .. Len(stack) - 1 : stack'[k] = stack[k]
    BY <1>8, EndStack
  <2> DEFINE c == Close(Now, cur)
             b == stack[cur].begin
             cut == [c EXCEPT !.tree = Erased(@, b, lex + 1)]
  <2>2. /\ Deletes(Now) => Becomes(cut)
        /\ ~ Deletes(Now) => Becomes(c)
    BY <2>1, NoDone, Zenon DEF Return
  <2>3. /\ IsCall(c)
        /\ c.tree = tree /\ c.found = found /\ c.failed = failed
        /\ DOMAIN c.scan = {"depth", "kill"} /\ c.scan.depth = scan.depth - 1
        /\ c.scan.kill = IF scan.kill = scan.depth THEN 999 ELSE scan.kill
        /\ Deletes(Now) <=> scan.kill = scan.depth
    BY <1>3, CompatCalls
  <2> HIDE DEF c, b
  <2>4. CASE scan.kill # scan.depth
    <3>1. /\ tree' = tree /\ found' = found /\ failed' = failed
          /\ DOMAIN scan' = {"depth", "kill"} /\ scan'.depth = scan.depth - 1
          /\ scan'.kill = scan.kill
      BY <2>2, <2>3, <2>4 DEF Becomes
    <3>2. Deleting(dtb, tr, str, tree, stack', lex', scan')
      BY <1>2, <1>4, <2>1, <2>4, <3>1, EndDeleting
    <3> QED
      BY <2>1, <3>1, <3>2
  <2>5. CASE scan.kill = scan.depth
    <3>1. /\ cut.tree = Erased(tree, b, lex + 1) /\ cut.found = found /\ cut.failed = failed
          /\ cut.scan = c.scan
      BY <2>3 DEF IsCall, CallFields
    <3>2. Becomes(cut)
      BY <2>2, <2>3, <2>5
    <3> HIDE DEF cut
    <3>3. /\ tree' = Erased(tree, b, lex + 1) /\ found' = found /\ failed' = failed
          /\ DOMAIN scan' = {"depth", "kill"} /\ scan'.depth = scan.depth - 1
          /\ scan'.kill = 999
      BY <2>3, <2>5, <3>1, <3>2 DEF Becomes
    <3>4. Cut(tree, tree', b, lex)
      <4>1. (lex + 1) - 1 = lex
        BY <1>2, Shape DEF StackKept
      <4> QED
        BY <3>3, <4>1, ErasedIs
    <3>5. b = stack[Len(stack) - 1].begin
      BY <2>1 DEF b
    <3>6. Deleting(dtb, tr, str, tree', stack', lex', scan')
      BY <1>2, <1>4, <2>1, <2>5, <3>3, <3>4, <3>5, KillDeleting
    <3> QED
      BY <2>1, <3>3, <3>6
  <2> QED
    BY <2>4, <2>5
<1> QED
  BY <1>5, <1>6, <1>7, <1>8

\* filter_clint and filter_debug delete the nodes that are compatible.
LEMMA CompatsFiltered ==
  ASSUME \A d \in Dtbs : Whole(d), ScanInv, FilterInv, Next, pass \in {13, 14}
  PROVE  FilterInv'
<1>1. Scanning /\ MaskInv /\ DeleteInv /\ DOMAIN found = FoundFields /\ ~ failed
  <2>1. Scanning
    BY DEF Next, Nop, Prop, BeginNode, EndNode, EndScan
  <2> QED
    BY <2>1 DEF FilterInv, Scanning
<1>2. WellFormed(dtb)
  BY Trees
<1> DEFINE tr == IF pass = 13 THEN PlicsRedacted ELSE ClintsDeleted
           str == IF pass = 13 THEN "riscv,clint0" ELSE "riscv,debug-013"
<1>3. Deleting(dtb, tr, str, tree, stack, lex, scan)
  BY <1>1 DEF DeleteInv
<1>4. Base(dtb, tr)
  <2>1. Base(dtb, PlicsRedacted)
    BY <1>2, PlicsBase DEF Base
  <2> QED
    BY <1>2, <2>1, ClintsBase
<1>10. /\ pass = 13 => tr = PlicsRedacted /\ str = "riscv,clint0"
       /\ pass = 14 => tr = ClintsDeleted /\ str = "riscv,debug-013"
  <2>1. pass = 14 => pass # 13
    OBVIOUS
  <2> QED
    BY <2>1, Zenon
<1>5. str = compat_name
  <2>1. CASE pass = 13
    <3>1. Passes[pass] = "filter_clint"
      BY <2>1 DEF Passes
    <3> QED
      BY <1>10, <2>1, <3>1, Zenon DEF compat_name
  <2>2. CASE pass = 14
    <3>1. Passes[pass] = "filter_debug" /\ "filter_debug" # "filter_clint"
      BY <2>2 DEF Passes
    <3>2. Passes[pass] # "filter_clint"
      BY <3>1
    <3> QED
      BY <1>10, <2>2, <3>2, Zenon DEF compat_name
  <2> QED
    BY <2>1, <2>2
<1>6. ASSUME dtb' = dtb
      PROVE  /\ PlicsRedacted' = PlicsRedacted /\ ClintsDeleted' = ClintsDeleted
             /\ AllFiltered' = AllFiltered
  BY <1>6 DEF PlicsRedacted, HartsMasked, ClintsDeleted, AllFiltered, Nodes
<1>7. ASSUME dtb' = dtb, found' = found PROVE MaskInv' /\ DOMAIN found' = FoundFields
  BY <1>1, <1>7 DEF MaskInv, Nodes
<1> HIDE DEF tr, str
<1>8. CASE Nop \/ Prop \/ BeginNode \/ EndNode
  <2>1. /\ Deleting(dtb, tr, str, tree', stack', lex', scan')
        /\ UNCHANGED <<dtb, pass, found, failed>>
    <3> QED
      BY <1>3, <1>4, <1>5, <1>8, DeletingStep
  <2>2. DeleteInv'
    <3>1. CASE pass = 13
      <4>1. Deleting(dtb', PlicsRedacted', "riscv,clint0", tree', stack', lex', scan')
        BY <1>6, <1>10, <2>1, <3>1
      <4>2. pass' # 14 /\ pass' # 15
        BY <2>1, <3>1
      <4> QED
        BY <4>1, <4>2, Zenon DEF DeleteInv
    <3>2. CASE pass = 14
      <4>1. Deleting(dtb', ClintsDeleted', "riscv,debug-013", tree', stack', lex', scan')
        BY <1>6, <1>10, <2>1, <3>2
      <4>2. pass' # 13 /\ pass' # 15
        BY <2>1, <3>2
      <4> QED
        BY <4>1, <4>2, Zenon DEF DeleteInv
    <3> QED
      BY <3>1, <3>2
  <2> QED
    BY <1>1, <1>7, <2>1, <2>2 DEF FilterInv, QueriesInv, HartsInv, PlicsInv
<1>9. CASE EndScan
  <2>1. dtb' = dtb /\ lex = Len(dtb) /\ Len(stack) = 1
    BY <1>9, HandledOver
  <2>2. /\ tree' = tree /\ found' = found /\ failed' = failed /\ pass' = pass + 1
        /\ pass < 14 => scan' = NewScan(Passes[pass + 1])
        /\ stack' = <<NewLevel>> /\ lex' = 1
    BY <1>9, WritersOver DEF EndScan
  <2>3. tree = WithDeleted(dtb, tr, CompatibleWith(dtb, str))
    <3> QED
      BY <1>2, <1>3, <2>1, OverDeleting
  <2>4. CASE pass = 13
    <3>1. tree = ClintsDeleted
      BY <1>10, <2>3, <2>4 DEF ClintsDeleted
    <3>2. scan' = NewScan("filter_debug") /\ pass' = 14
      BY <2>2, <2>4 DEF Passes
    <3>3. Deleting(dtb, ClintsDeleted, "riscv,debug-013", ClintsDeleted, <<NewLevel>>, 1,
                   NewScan("filter_debug"))
      BY <1>2, ClintsBase, FirstDeleting DEF Compats
    <3> DEFINE s1 == <<NewLevel>>
               sc1 == NewScan("filter_debug")
    <3>4. stack' = s1 /\ scan' = sc1
          /\ Deleting(dtb, ClintsDeleted, "riscv,debug-013", ClintsDeleted, s1, 1, sc1)
      BY <2>2, <3>2, <3>3
    <3> HIDE DEF s1, sc1
    <3>5. Deleting(dtb', ClintsDeleted', "riscv,debug-013", tree', stack', lex', scan')
      BY <1>6, <2>1, <2>2, <3>1, <3>4
    <3>6. pass' # 13 /\ pass' # 15
      BY <3>2
    <3>7. DeleteInv'
      BY <3>5, <3>6, Zenon DEF DeleteInv
    <3> QED
      BY <1>7, <2>1, <2>2, <3>2, <3>7 DEF FilterInv, QueriesInv, HartsInv, PlicsInv
  <2>5. CASE pass = 14
    <3>1. tree = AllFiltered
      BY <1>10, <2>3, <2>5 DEF AllFiltered
    <3>2. pass' = 15 /\ ~ failed'
      BY <1>1, <2>2, <2>5
    <3>3. DeleteInv'
      <4>1. pass' # 13 /\ pass' # 14
        BY <3>2
      <4>2. tree' = AllFiltered'
        BY <1>6, <2>1, <2>2, <3>1
      <4> QED
        BY <4>1, <4>2, Zenon DEF DeleteInv
    <3> QED
      BY <1>7, <2>1, <2>2, <3>2, <3>3 DEF FilterInv, QueriesInv, HartsInv, PlicsInv
  <2> QED
    BY <2>4, <2>5
<1> QED
  BY <1>8, <1>9 DEF Next

-----------------------------------------------------------------------------
(* What the kernel gets *)

\* An int keeps a number that is less than half of a cell's values.
LEMMA IntIs ==
  ASSUME NEW n \in Nat, n < CellBase - n
  PROVE  ToInt(n) = n
<1>1. CellBase \in Nat /\ n < CellBase
  BY FdtAssumption
<1>2. n % CellBase = n
  BY <1>1
<1> QED
  BY <1>2 DEF ToInt

\* So it keeps the number of every hart with a bit of its own, and sets that bit.
LEMMA BitIs ==
  ASSUME NEW n \in 0 .. IntBits - 2
  PROVE  OneShifted(ToInt(n)) = {n}
<1>1. IntBits \in Nat /\ CellBase \in Nat /\ IntBits <= CellBase - IntBits
  BY FdtAssumption, IntAssumption
<1>2. ToInt(n) = n
  BY <1>1, IntIs
<1>3. n % IntBits = n /\ n # IntBits - 1
  BY <1>1
<1> QED
  BY <1>2, <1>3 DEF OneShifted

\* Of a tree on which no filter has worked, nothing has been changed.
LEMMA FirstFilter ==
  ASSUME NEW d
  PROVE  WithMasked(d, {}) = [i \in DOMAIN d |-> d[i]] /\ Names(d, {}) = {} /\ Described(d, {})
BY DEF WithMasked, Names, Described

\* The queries change neither the tree nor the mask, and filter_harts starts afresh.
LEMMA QueriesFiltered ==
  ASSUME \A d \in Dtbs : Whole(d), ScanInv, FilterInv, Next, pass <= 10
  PROVE  FilterInv'
<1>0. ASSUME pass' \in Int, pass' <= 10, tree' = dtb', DOMAIN found' = FoundFields,
             found'.disabled_hart_mask = {}
      PROVE  FilterInv'
  <2>1. /\ pass' # 11 /\ pass' # 12 /\ pass' # 13 /\ pass' # 14 /\ pass' # 15
        /\ ~ (pass' >= 12)
    BY <1>0
  <2>2. QueriesInv'
    BY <1>0 DEF QueriesInv
  <2>3. HartsInv' /\ MaskInv' /\ PlicsInv' /\ DeleteInv'
    BY <2>1, Zenon DEF HartsInv, MaskInv, PlicsInv, DeleteInv
  <2> QED
    BY <1>0, <2>1, <2>2, <2>3, Zenon DEF FilterInv
<1>1. Scanning /\ QueriesInv /\ DOMAIN found = FoundFields /\ ~ failed
  <2>1. Scanning
    BY DEF Next, Nop, Prop, BeginNode, EndNode, EndScan
  <2> QED
    BY <2>1 DEF FilterInv, Scanning
<1>2. /\ tree' = tree /\ DOMAIN found' = FoundFields
      /\ found'.disabled_hart_mask = found.disabled_hart_mask
  BY <1>1, QueriesLeave DEF LeftAlone
<1>3. tree = dtb /\ found.disabled_hart_mask = {} /\ pass \in 1 .. 14
  BY <1>1, Running DEF QueriesInv
<1>4. CASE Nop \/ Prop \/ BeginNode \/ EndNode
  <2>1. UNCHANGED <<dtb, pass>>
    BY <1>4 DEF Nop, Prop, BeginNode, EndNode, Return
  <2>2. pass' \in Int /\ pass' <= 10 /\ tree' = dtb'
    BY <1>2, <1>3, <2>1
  <2> QED
    BY <1>0, <1>2, <1>3, <2>2
<1>5. CASE EndScan
  <2>1. dtb' = dtb /\ pass' = pass + 1 /\ ~ Doing' /\ HandledNodes' = {}
    BY <1>5, HandledOver DEF EndScan
  <2>2. dtb = [i \in DOMAIN dtb |-> dtb[i]]
    <3>1. WellFormed(dtb) /\ DOMAIN dtb = 1 .. Len(dtb)
      BY Trees, Shape
    <3> QED
      BY <3>1 DEF WellFormed
  <2>3. CASE pass = 10
    <3>1. /\ WithMasked(dtb', HandledNodes') = dtb /\ Names(dtb', HandledNodes') = {}
          /\ Described(dtb', HandledNodes')
      BY <2>1, <2>2, FirstFilter
    <3>2. HartsInv'
      BY <1>2, <1>3, <2>1, <3>1 DEF HartsInv
    <3> QED
      BY <1>2, <2>1, <2>3, <3>2 DEF FilterInv, QueriesInv, MaskInv, PlicsInv, DeleteInv
  <2>4. CASE pass # 10
    <3>1. pass' <= 10
      BY <1>3, <2>1, <2>4
    <3>2. pass' \in Int /\ tree' = dtb'
      BY <1>2, <1>3, <2>1
    <3> QED
      BY <1>0, <1>2, <1>3, <3>1, <3>2
  <2> QED
    BY <2>3, <2>4
<1> QED
  BY <1>4, <1>5 DEF Next

\* No filter has worked at reset.
LEMMA FilterInit ==
  ASSUME Init
  PROVE  FilterInv
<1>1. pass = 1 /\ tree = dtb /\ DOMAIN found = FoundFields /\ found.disabled_hart_mask = {}
  BY DEF Init, FoundFields
<1> QED
  BY <1>1 DEF FilterInv, QueriesInv, HartsInv, MaskInv, PlicsInv, DeleteInv

\* Each filter does its work on every node, and no other changes what it did.
THEOREM FiltersWork ==
  ASSUME \A d \in Dtbs : Whole(d)
  PROVE  Spec => [](ScanInv /\ FilterInv)
<1>1. Spec => []ScanInv
  BY ScannerKept
<1>2. Init => FilterInv
  BY FilterInit
<1>3. ScanInv /\ FilterInv /\ [Next]_vars => FilterInv'
  <2> SUFFICES ASSUME ScanInv, FilterInv, [Next]_vars PROVE FilterInv'
    OBVIOUS
  <2>1. CASE UNCHANGED vars
    BY <2>1 DEF vars, FilterInv, QueriesInv, HartsInv, MaskInv, PlicsInv, DeleteInv,
                Doing, TopNode, HandledNodes, Nodes, PlicsRedacted, HartsMasked,
                ClintsDeleted, AllFiltered
  <2>2. CASE Next
    <3>1. pass \in 1 .. 14
      <4>1. Scanning
        BY <2>2 DEF Next, Nop, Prop, BeginNode, EndNode, EndScan
      <4> QED
        BY <4>1, Running
    <3>2. pass <= 10 \/ pass = 11 \/ pass = 12 \/ pass \in {13, 14}
      BY <3>1
    <3> QED
      BY <2>2, <3>2, QueriesFiltered, HartsFiltered, PlicsFiltered, CompatsFiltered
  <2> QED
    BY <2>1, <2>2
<1> QED
  BY <1>1, <1>2, <1>3, PTL DEF Spec

\* What is left of the tree when the filters are done.
LEMMA FilteredIs ==
  ASSUME ScanInv, FilterInv, Over, NEW i \in DOMAIN dtb
  PROVE  LET gone == CompatibleWith(dtb, "riscv,clint0")
                       \cup CompatibleWith(dtb, "riscv,debug-013")
         IN tree[i] =
              IF \E g \in gone : In(dtb, g, i) THEN [t |-> "NOP"]
              ELSE IF \E b \in Unfit(dtb) : i \in Named(dtb, b, "status")
              THEN MaskedToken(dtb[i])
              ELSE IF \E b \in Plics(dtb) : i \in Named(dtb, b, "interrupts-extended")
              THEN RedactedToken(dtb[i]) ELSE dtb[i]
<1> DEFINE C == CompatibleWith(dtb, "riscv,clint0")
           D == CompatibleWith(dtb, "riscv,debug-013")
           nop == [t |-> "NOP"]
           masked == \E b \in Unfit(dtb) : i \in Named(dtb, b, "status")
           redacted == \E b \in Plics(dtb) : i \in Named(dtb, b, "interrupts-extended")
<1>1. tree = AllFiltered
  <2>1. pass = 15
    BY PassLen DEF Over, ScanInv
  <2>2. ~ failed
    BY <2>1 DEF FilterInv
  <2>3. DeleteInv
    BY <2>2 DEF FilterInv
  <2> QED
    BY <2>1, <2>3 DEF DeleteInv
<1>2. ~ (masked /\ redacted)
  <2>1. masked => dtb[i].name = "status"
    BY DEF Named
  <2>2. redacted => dtb[i].name = "interrupts-extended"
    BY DEF Named
  <2>3. "status" # "interrupts-extended"
    OBVIOUS
  <2> QED
    BY <2>1, <2>2, <2>3
<1>3. \A b \in Unfit(dtb) \cup Plics(dtb) : b \in Nodes(dtb)
  BY DEF Unfit, OfType, Plics, CompatibleWith
<1>4. HartsMasked[i] = IF masked THEN MaskedToken(dtb[i]) ELSE dtb[i]
  BY <1>3 DEF HartsMasked, WithMasked
<1>5. PlicsRedacted[i] = IF redacted THEN RedactedToken(HartsMasked[i]) ELSE HartsMasked[i]
  BY <1>3 DEF PlicsRedacted, WithRedacted
<1> HIDE DEF masked, redacted, C, D, nop
<1>6. PlicsRedacted[i] = IF masked THEN MaskedToken(dtb[i])
                         ELSE IF redacted THEN RedactedToken(dtb[i]) ELSE dtb[i]
  BY <1>2, <1>4, <1>5
<1>7. ClintsDeleted[i] = IF \E g \in C : In(dtb, g, i) THEN nop ELSE PlicsRedacted[i]
  BY DEF ClintsDeleted, WithDeleted, C, nop
<1>8. AllFiltered[i] = IF \E g \in D : In(dtb, g, i) THEN nop ELSE ClintsDeleted[i]
  BY DEF AllFiltered, WithDeleted, D, nop
<1>9. (\E g \in C \cup D : In(dtb, g, i)) <=> (\E g \in C : In(dtb, g, i)) \/ \E g \in D : In(dtb, g, i)
  OBVIOUS
<1>10. tree[i] = IF \E g \in C \cup D : In(dtb, g, i) THEN nop
                 ELSE IF masked THEN MaskedToken(dtb[i])
                 ELSE IF redacted THEN RedactedToken(dtb[i]) ELSE dtb[i]
  BY <1>1, <1>6, <1>7, <1>8, <1>9
<1> QED
  BY <1>10 DEF C, D, nop, masked, redacted

\* The kernel gets the tree handed over, but for exactly what the filters are
\* to take from it: the firmware's devices with all they contain, the status of
\* the unfit harts and the machine's external interrupts of the plic.
THEOREM KernelTree ==
  ASSUME \A d \in Dtbs : Whole(d)
  PROVE  Spec => []KernelTreeExact
<1>1. Spec => [](ScanInv /\ FilterInv)
  BY FiltersWork
<1>2. ScanInv /\ FilterInv => KernelTreeExact
  <2> SUFFICES ASSUME ScanInv, FilterInv, Over, NEW i \in DOMAIN dtb
               PROVE  LET gone == CompatibleWith(dtb, "riscv,clint0")
                                    \cup CompatibleWith(dtb, "riscv,debug-013")
                          Kept(j) == \A b \in gone : j # b /\ ~Holds(dtb, b, j)
                          masked == {j \in DOMAIN dtb : \E b \in Unfit(dtb) :
                                                          j \in Named(dtb, b, "status")}
                          plics == {j \in DOMAIN dtb :
                                      \E b \in CompatibleWith(dtb, "riscv,plic0") :
                                        j \in Named(dtb, b, "interrupts-extended")}
                          Redacted(v) == [k \in DOMAIN v |->
                                            IF k % 2 = 0 /\ v[k] = IRQ_M_EXT
                                            THEN CellBase - 1 ELSE v[k]]
                      IN tree[i] =
                           IF ~Kept(i) THEN [t |-> "NOP"]
                           ELSE IF i \in masked
                           THEN [dtb[i] EXCEPT !.value = "masked", !.more = 0]
                           ELSE IF i \in plics THEN [dtb[i] EXCEPT !.value = Redacted(@)]
                           ELSE dtb[i]
    BY DEF KernelTreeExact
  <2> DEFINE gone == CompatibleWith(dtb, "riscv,clint0")
                       \cup CompatibleWith(dtb, "riscv,debug-013")
             nop == [t |-> "NOP"]
             masked == \E b \in Unfit(dtb) : i \in Named(dtb, b, "status")
             redacted == \E b \in Plics(dtb) : i \in Named(dtb, b, "interrupts-extended")
  <2>1. tree[i] = IF \E g \in gone : In(dtb, g, i) THEN nop
                  ELSE IF masked THEN MaskedToken(dtb[i])
                  ELSE IF redacted THEN RedactedToken(dtb[i]) ELSE dtb[i]
    BY FilteredIs
  <2>2. (\E g \in gone : In(dtb, g, i)) <=> ~ \A b \in gone : i # b /\ ~Holds(dtb, b, i)
    BY DEF In
  <2>3. redacted <=> \E b \in CompatibleWith(dtb, "riscv,plic0") :
                       i \in Named(dtb, b, "interrupts-extended")
    BY DEF Plics
  <2> QED
    BY <2>1, <2>2, <2>3 DEF MaskedToken, RedactedToken
<1> QED
  BY <1>1, <1>2, PTL

\* The kernel's tree masks exactly the harts the boot loader keeps from it.
THEOREM MaskMatches ==
  ASSUME \A d \in Dtbs : Whole(d) /\ HartsStand(d) /\ HartsNumbered(d)
  PROVE  Spec => []MaskMatchesTree
<1>1. Spec => [](ScanInv /\ FilterInv)
  <2>1. \A d \in Dtbs : Whole(d)
    OBVIOUS
  <2> QED
    BY <2>1, FiltersWork
<1>2. ScanInv /\ FilterInv => MaskMatchesTree
  <2> SUFFICES ASSUME ScanInv, FilterInv, Over PROVE MaskMatchesTree
    BY DEF MaskMatchesTree
  <2> DEFINE gone == CompatibleWith(dtb, "riscv,clint0")
                       \cup CompatibleWith(dtb, "riscv,debug-013")
             harts == OfType(dtb, "cpu")
             Marked(b) == \E i \in Named(dtb, b, "status") : tree[i].value = "masked"
  <2>1. WellFormed(dtb) /\ HartsStand(dtb) /\ HartsNumbered(dtb)
    BY Trees DEF ScanInv
  <2>2. MaskInv
    <3>1. pass = 15 /\ ~ failed
      BY PassLen DEF Over, ScanInv, FilterInv
    <3> QED
      BY <3>1 DEF FilterInv
  <2>3. /\ found.disabled_hart_mask = {Address(dtb, b) : b \in Unfit(dtb)}
        /\ \A b \in harts : Has(dtb, b, "status")
    <3>1. /\ found.disabled_hart_mask = Names(dtb, Nodes(dtb))
          /\ Described(dtb, Nodes(dtb))
      BY <2>2, PassLen DEF MaskInv, Over, ScanInv
    <3>2. \A b \in harts : b \in Nodes(dtb)
      BY DEF OfType
    <3>3. Unfit(dtb) \cap Nodes(dtb) = Unfit(dtb)
      BY <3>2 DEF Unfit
    <3>4. \A b \in Unfit(dtb) : OneShifted(HartOfReg(dtb, b)) = {Address(dtb, b)}
      <4>1. \A b \in Unfit(dtb) : Address(dtb, b) \in 0 .. IntBits - 2
        BY <2>1 DEF HartsNumbered, Unfit
      <4> QED
        BY <4>1, BitIs DEF HartOfReg
    <3>5. Names(dtb, Nodes(dtb)) = {Address(dtb, b) : b \in Unfit(dtb)}
      BY <3>3, <3>4 DEF Names
    <3> QED
      BY <3>1, <3>2, <3>5 DEF Described
  <2>4. ASSUME NEW b \in harts, NEW i \in Named(dtb, b, "status")
        PROVE  tree[i].value = IF b \in Unfit(dtb) THEN "masked" ELSE Value(dtb, b, "status")
    <3>1. b \in Nodes(dtb) /\ i \in DOMAIN dtb /\ Own(dtb, b, i) /\ dtb[i].name = "status"
          /\ dtb[i].t = "PROP" /\ b <= i /\ b \in DOMAIN dtb
      BY <2>1, <2>4, NodeFacts, Shape DEF OfType, Named, Own
    <3>2. ~ \E g \in gone : In(dtb, g, i)
      <4> SUFFICES ASSUME NEW g \in gone, In(dtb, g, i) PROVE FALSE
        OBVIOUS
      <4>1. g \in Nodes(dtb)
        BY DEF CompatibleWith
      <4>2. g <= b
        BY <2>1, <3>1, <4>1, OwnInnermost
      <4>3. In(dtb, g, b)
        BY <2>1, <3>1, <4>1, <4>2, InWithin
      <4> QED
        BY <2>1, <4>3 DEF HartsStand
    <3>3. ~ \E a \in Plics(dtb) : i \in Named(dtb, a, "interrupts-extended")
      BY <3>1 DEF Named
    <3>4. (\E a \in Unfit(dtb) : i \in Named(dtb, a, "status")) <=> b \in Unfit(dtb)
      <4>1. \A a \in Unfit(dtb) : a \in Nodes(dtb)
        BY DEF Unfit, OfType
      <4> QED
        BY <2>1, <2>4, <3>1, <4>1, NamedApart
    <3>5. tree[i] = IF b \in Unfit(dtb) THEN MaskedToken(dtb[i]) ELSE dtb[i]
      BY <3>1, <3>2, <3>3, <3>4, FilteredIs
    <3>6. MaskedToken(dtb[i]).value = "masked"
      <4>1. dtb[i] = [t |-> "PROP", name |-> dtb[i].name, value |-> dtb[i].value,
                      more |-> dtb[i].more]
        BY <2>1, <3>1, PropShape
      <4> DEFINE p == dtb[i]
      <4>2. DOMAIN p = {"t", "name", "value", "more"}
        BY <4>1
      <4> HIDE DEF p
      <4>3. [p EXCEPT !.value = "masked", !.more = 0].value = "masked"
        BY <4>2
      <4> QED
        BY <4>3 DEF MaskedToken, p
    <3>7. dtb[i].value = Value(dtb, b, "status")
      BY <2>1, <2>4, <3>1, NamedIs
    <3> QED
      BY <3>5, <3>6, <3>7
  <2>5. \A b \in harts : Marked(b) <=> b \in Unfit(dtb)
    <3> TAKE b \in harts
    <3>1. PICK i : i \in Named(dtb, b, "status")
      BY <2>3 DEF Has
    <3>2. b \in Unfit(dtb) => Marked(b)
      BY <2>4, <3>1
    <3>3. ASSUME b \notin Unfit(dtb), Marked(b) PROVE FALSE
      <4>1. Value(dtb, b, "status") = "masked"
        BY <2>4, <3>3
      <4>2. "masked" # "okay"
        OBVIOUS
      <4> QED
        BY <3>3, <4>1, <4>2 DEF Unfit
    <3> QED
      BY <3>2, <3>3
  <2>6. Unfit(dtb) = {b \in harts : Marked(b)}
    BY <2>5 DEF Unfit
  <2> QED
    BY <2>3, <2>6 DEF MaskMatchesTree
<1> QED
  BY <1>1, <1>2, PTL

-----------------------------------------------------------------------------
(* What the queries have found *)

\* The nodes that scan p is done with.
Upto(p) == IF pass < p THEN {} ELSE IF pass = p THEN HandledNodes ELSE Nodes(dtb)

\* What query_mem has of node b when its properties before token l are read.
MemSeen(sc, d, b, l) ==
  /\ sc.memory <=> \E i \in Seen(d, b, "device_type", l) : d[i].value = "memory"
  /\ sc.reg_value = IF Seen(d, b, "reg", l) = {} THEN <<>> ELSE Value(d, b, "reg")

\* size is that of a region of a node of B in which the firmware is, 0 if there is none.
MemKnown(size, d, B) ==
  IF \A b \in OfType(d, "memory") \cap B : Within(MemoryOf(d, b)) = {} THEN size = 0
  ELSE \E b \in OfType(d, "memory") \cap B : \E i \in Within(MemoryOf(d, b)) :
         size = MemoryOf(d, b)[i][2]

MemInv ==
  /\ MemKnown(found.mem_size, dtb, Upto(6))
  /\ pass = 6 => /\ DOMAIN scan = {"memory", "reg_value"}
                 /\ Doing => MemSeen(scan, dtb, TopNode, lex)

\* The harts whose controllers are in B, if they have a number below MAX_HARTS.
Known(d, B) == {b \in Harts(d) : Address(d, b) < MAX_HARTS /\ ControllerOf(d, b) \in B}

HartsKnown(f, d, B) ==
  /\ f.hart_mask = {Address(d, b) : b \in Known(d, B)}
  /\ DOMAIN f.hart_phandles = Hart
  /\ \A h \in Hart \ f.hart_mask : f.hart_phandles[h] = 0
  /\ \A b \in Known(d, B) : f.hart_phandles[Address(d, b)] = PhandleOf(d, b)

\* Node b is known to be a hart, or an interrupt controller, before token l.
CpuSeen(d, b, l) == \E i \in Seen(d, b, "device_type", l) : d[i].value = "cpu"
ControllerSeen(d, b, l) == Seen(d, b, "interrupt-controller", l) # {}

\* The node whose reg query_harts takes for the number of a hart.
HartNode == stack[IF scan.cpu = NULL THEN Len(stack) - 1 ELSE scan.cpu].begin

\* What query_harts has of the hart and of the controller under way.
CpuKept ==
  /\ scan.cpu \in 0 .. Len(stack) - 1
  /\ \A k \in 1 .. Len(stack) - 1 : k = scan.cpu <=> CpuSeen(dtb, stack[k].begin, lex)
ControllerKept ==
  /\ scan.controller \in 0 .. Len(stack) - 1
  /\ \A k \in 1 .. Len(stack) - 1 :
       k = scan.controller <=> ControllerSeen(dtb, stack[k].begin, lex)
NumberKept ==
  Doing \/ scan.cpu # NULL =>
    scan.hart = IF Seen(dtb, HartNode, "reg", lex) = {} THEN -1 ELSE HartOfReg(dtb, HartNode)
PhandleKept ==
  Doing /\ scan.controller \in {NULL, Len(stack) - 1} =>
    /\ scan.cells = IF Seen(dtb, TopNode, "#interrupt-cells", lex) = {} THEN 0
                    ELSE Value(dtb, TopNode, "#interrupt-cells")[1]
    /\ scan.phandle = IF Seen(dtb, TopNode, "phandle", lex) = {} THEN 0
                      ELSE Value(dtb, TopNode, "phandle")[1]

HartScan == {"cpu", "hart", "controller", "cells", "phandle"}

HartsFoundInv ==
  /\ HartsKnown(found, dtb, Upto(7))
  /\ pass = 7 => /\ DOMAIN scan = HartScan
                 /\ CpuKept /\ ControllerKept /\ NumberKept /\ PhandleKept

\* What query_clint and query_plic have of node b.
DeviceSeen(sc, d, b, l, str) ==
  /\ sc.compat <=> \E i \in Seen(d, b, "compatible", l) : Lists(d[i], str)
  /\ sc.reg = IF Seen(d, b, "reg", l) = {} THEN 0 ELSE Address(d, b)
  /\ IF Seen(d, b, "interrupts-extended", l) = {} THEN sc.int_value = NULL
     ELSE sc.int_value \in Seen(d, b, "interrupts-extended", l)
  /\ Seen(d, b, "riscv,ndev", l) # {} /\ pass = 9 => sc.ndev = Value(d, b, "riscv,ndev")[1]

\* Each hart has a place on the devices of G, in wires.
Wired(wires, d, G, n, irqs) ==
  \A g \in G : \A b \in Harts(d) : Address(d, b) < MAX_HARTS =>
    \E i \in Places(d, g, n, b, irqs) : wires[Address(d, b)] = <<Address(d, g), i>>

\* Each hart has a place on the clint, and on the plic, if they are in B.
ClintWired(wires, d, B) == Wired(wires, d, Clints(d) \cap B, 4, Cell)
PlicWired(wires, d, B) == Wired(wires, d, Plics(d) \cap B, 2, MachineIrqs)

\* The string by which the query under way knows its device.
DeviceName == IF pass = 8 THEN "riscv,clint0" ELSE "riscv,plic0"

\* What query_clint or query_plic has of the device under way.
DevicesUnderWay ==
  /\ DOMAIN scan = PlicFields
  /\ scan.done <=> CompatibleWith(dtb, DeviceName) \cap HandledNodes # {}
  /\ Doing => DeviceSeen(scan, dtb, TopNode, lex, DeviceName)

DevicesInv ==
  /\ ClintWired(found.ipi, dtb, Upto(8))
  /\ PlicWired(found.plic_m, dtb, Upto(9))
  /\ pass \in {8, 9} => DevicesUnderWay

\* Each query has found what the tree says of the nodes it is past, and nothing failed.
MachineInv == ~ failed /\ MemInv /\ HartsFoundInv /\ DevicesInv

-----------------------------------------------------------------------------
(* Numbers and regions *)

\* g holds the numbers that the first cells make.
Numbers(g, cells, n) ==
  g = [i \in 0 .. n |-> IF i = 0 THEN 0 ELSE (g[i - 1] * CellBase + cells[i]) % Wide]

\* There is such a g.
LEMMA NumbersExist == \A cells : \A n \in Nat : \E g : Numbers(g, cells, n)
<1> TAKE cells
<1> DEFINE T == {n \in Nat : ~ \E g : Numbers(g, cells, n)}
<1> SUFFICES ASSUME T # {}
             PROVE  FALSE
  OBVIOUS
<1>1. PICK m \in T : \A n \in T : m <= n
  BY LeastNumber
<1> DEFINE X(x, i) == (x * CellBase + cells[i]) % Wide
<1>2. CASE m = 0
  <2> DEFINE z == [i \in 0 .. 0 |-> 0]
  <2>1. z = [i \in 0 .. 0 |-> IF i = 0 THEN 0 ELSE X(z[i - 1], i)]
    <3> HIDE DEF X
    <3> QED
      OBVIOUS
  <2>2. Numbers(z, cells, 0)
    BY <2>1 DEF Numbers
  <2> QED
    BY <1>2, <2>2
<1>3. CASE m # 0
  <2>1. m \in Nat /\ m - 1 \in Nat /\ m - 1 \notin T
    BY <1>1, <1>3
  <2>2. PICK g : Numbers(g, cells, m - 1)
    BY <2>1
  <2>3. \A i \in 0 .. m - 1 : g[i] = IF i = 0 THEN 0 ELSE X(g[i - 1], i)
    BY <2>2, Zenon DEF Numbers
  <2> HIDE DEF X
  <2> DEFINE h == [i \in 0 .. m |-> IF i = m THEN X(g[m - 1], m) ELSE g[i]]
  <2>4. \A i \in 0 .. m : h[i] = IF i = 0 THEN 0 ELSE X(h[i - 1], i)
    <3> TAKE i \in 0 .. m
    <3>1. CASE i = m
      <4>1. h[i] = X(g[m - 1], m) /\ h[m - 1] = g[m - 1]
        BY <2>1, <3>1
      <4> QED
        BY <1>3, <3>1, <4>1
    <3>2. CASE i # m /\ i # 0
      <4>1. i \in 0 .. m - 1 /\ i - 1 \in 0 .. m /\ i - 1 # m
        BY <2>1, <3>2
      <4>2. h[i] = g[i] /\ h[i - 1] = g[i - 1]
        BY <3>2, <4>1
      <4> QED
        BY <2>3, <3>2, <4>1, <4>2
    <3>3. CASE i # m /\ i = 0
      <4>1. h[i] = g[i] /\ i \in 0 .. m - 1
        BY <2>1, <3>3
      <4> QED
        BY <2>3, <3>3, <4>1
    <3> QED
      BY <3>1, <3>2, <3>3
  <2>5. h = [i \in 0 .. m |-> h[i]]
    OBVIOUS
  <2> HIDE DEF h
  <2>6. h = [i \in 0 .. m |-> IF i = 0 THEN 0 ELSE X(h[i - 1], i)]
    BY <2>4, <2>5
  <2>7. Numbers(h, cells, m)
    BY <2>6 DEF Numbers, X
  <2> QED
    BY <2>7
<1> QED
  BY <1>2, <1>3

\* Cells make a number of 64 bits.
LEMMA NumberIs ==
  ASSUME NEW cells \in Seq(Cell)
  PROVE  Number(cells) \in 0 .. Wide - 1
<1>1. CellBase \in Nat \ {0} /\ Cell = 0 .. CellBase - 1 /\ Len(cells) \in Nat
  BY FdtAssumption DEF Cell
<1>2. Wide \in Nat \ {0}
  BY <1>1 DEF Wide
<1> DEFINE n[i \in 0 .. Len(cells)] ==
             IF i = 0 THEN 0 ELSE (n[i - 1] * CellBase + cells[i]) % Wide
<1>3. \E g : g = [i \in 0 .. Len(cells) |->
                   IF i = 0 THEN 0 ELSE (g[i - 1] * CellBase + cells[i]) % Wide]
  BY <1>1, NumbersExist DEF Numbers
<1>4. n = [i \in 0 .. Len(cells) |->
            IF i = 0 THEN 0 ELSE (n[i - 1] * CellBase + cells[i]) % Wide]
  BY <1>3, Zenon
<1>5. Number(cells) = n[Len(cells)]
  BY Zenon DEF Number
<1> HIDE DEF n
<1>6. \A i \in 0 .. Len(cells) :
        n[i] = IF i = 0 THEN 0 ELSE (n[i - 1] * CellBase + cells[i]) % Wide
  BY <1>4, Zenon
<1> DEFINE T == {i \in 0 .. Len(cells) : n[i] \notin 0 .. Wide - 1}
<1>7. T = {}
  <2> SUFFICES ASSUME T # {}
               PROVE  FALSE
    OBVIOUS
  <2>1. T \in SUBSET Nat
    BY <1>1
  <2>2. PICK m \in T : \A i \in T : m <= i
    BY <2>1, LeastNumber
  <2>3. m # 0
    <3>1. n[0] = 0
      BY <1>1, <1>6
    <3> QED
      BY <1>2, <3>1
  <2>4. m \in 1 .. Len(cells) /\ m - 1 \in 0 .. Len(cells) /\ m - 1 \notin T
    BY <1>1, <2>1, <2>2, <2>3
  <2>5. n[m - 1] \in Nat /\ cells[m] \in Nat
    <3>1. cells[m] \in Cell
      BY <2>4
    <3>2. n[m - 1] \in 0 .. Wide - 1
      BY <2>4
    <3> QED
      BY <1>1, <3>1, <3>2
  <2>6. n[m] = (n[m - 1] * CellBase + cells[m]) % Wide
    BY <1>6, <2>3, <2>4
  <2>7. n[m - 1] * CellBase + cells[m] \in Nat
    <3>1. \A a, b, c \in Nat : a * b + c \in Nat
      OBVIOUS
    <3> QED
      BY <1>1, <2>5, <3>1
  <2> DEFINE x == n[m - 1] * CellBase + cells[m]
  <2>8. x % Wide \in 0 .. Wide - 1
    <3> HIDE DEF x
    <3> QED
      BY <1>2, <2>7 DEF x
  <2> QED
    BY <2>2, <2>6, <2>8
<1> QED
  BY <1>1, <1>5, <1>7

\* So do some of them.
LEMMA PartIs ==
  ASSUME NEW cells \in Seq(Cell), NEW i \in Nat \ {0}, NEW j \in Int, j <= Len(cells)
  PROVE  Number(SubSeq(cells, i, j)) \in 0 .. Wide - 1
<1>1. SubSeq(cells, i, j) \in Seq(Cell)
  <2>1. CASE i <= j
    <3>1. i \in 1 .. Len(cells) /\ j \in i .. Len(cells)
      BY <2>1
    <3> QED
      BY <3>1, SubSeqProperties
  <2>2. CASE ~ (i <= j)
    BY <2>2
  <2> QED
    BY <2>1, <2>2
<1> QED
  BY <1>1, NumberIs

\* A region within a value ends in it.
LEMMA RegionEnds ==
  ASSUME NEW m \in Nat, NEW n \in Nat \ {0}, NEW i \in 1 .. m \div n
  PROVE  (i - 1) * n \in Nat /\ (i - 1) * n + n <= m
<1>1. m \div n \in Nat /\ n * (m \div n) <= m
  OBVIOUS
<1>2. i * n <= (m \div n) * n
  BY <1>1
<1>3. (i - 1) * n + n = i * n /\ i - 1 \in Nat
  BY <1>1
<1>4. (i - 1) * n \in Nat
  BY <1>3
<1> QED
  BY <1>1, <1>2, <1>3, <1>4

\* The regions of a node of memory are pairs of numbers.
LEMMA RegionsAre ==
  ASSUME NEW d, MemoryDescribed(d), NEW b \in OfType(d, "memory"),
         NEW i \in DOMAIN MemoryOf(d, b)
  PROVE  /\ MemoryOf(d, b)[i][1] \in 0 .. Wide - 1
         /\ MemoryOf(d, b)[i][2] \in 0 .. Wide - 1
<1> DEFINE value == Value(d, b, "reg")
           counts == CountsOf(d, Owner(d, b))
           n == counts[1] + counts[2]
           at == (i - 1) * n
<1>1. /\ counts[1] \in Nat /\ counts[2] \in Nat /\ n > 0 /\ value \in Seq(Cell)
  BY DEF MemoryDescribed, OfCells
<1> HIDE DEF value, counts
<1>2. MemoryOf(d, b) = Regions(value, counts)
  BY DEF MemoryOf, value, counts
<1>3. DOMAIN MemoryOf(d, b) = 1 .. Len(value) \div n
  BY <1>2 DEF Regions
<1>4. MemoryOf(d, b)[i] = <<Number(SubSeq(value, at + 1, at + counts[1])),
                           Number(SubSeq(value, at + counts[1] + 1, at + n))>>
  BY <1>2, <1>3, Zenon DEF Regions
<1>5. at \in Nat /\ at + n <= Len(value)
  <2>1. n \in Nat \ {0} /\ Len(value) \in Nat
    BY <1>1
  <2> HIDE DEF n
  <2> QED
    BY <1>3, <2>1, RegionEnds
<1> HIDE DEF at
<1>6. Number(SubSeq(value, at + 1, at + counts[1])) \in 0 .. Wide - 1
  <2>1. at + 1 \in Nat \ {0} /\ at + counts[1] \in Int /\ at + counts[1] <= Len(value)
    BY <1>1, <1>5
  <2> QED
    BY <1>1, <2>1, PartIs
<1>7. Number(SubSeq(value, at + counts[1] + 1, at + n)) \in 0 .. Wide - 1
  <2>1. at + counts[1] + 1 \in Nat \ {0} /\ at + n \in Int /\ at + n <= Len(value)
    BY <1>1, <1>5
  <2> QED
    BY <1>1, <2>1, PartIs
<1> QED
  BY <1>4, <1>6, <1>7

\* A hart's number is one, and the code takes it for that.
LEMMA HartNumber ==
  ASSUME NEW d, HartsDescribed(d), NEW b \in Harts(d)
  PROVE  Address(d, b) \in Nat /\ HartOfReg(d, b) = Address(d, b)
<1> DEFINE value == Value(d, b, "reg")
           n == CountsOf(d, Owner(d, b))[1]
<1>1. value \in Seq(Cell) /\ n \in 0 .. Len(value)
  BY DEF HartsDescribed, OfCells
<1>2. Address(d, b) = Number(SubSeq(value, 1, n))
  BY DEF Address
<1> HIDE DEF value, n
<1>3. n \in Int /\ n <= Len(value) /\ 1 \in Nat \ {0}
  BY <1>1
<1>4. Number(SubSeq(value, 1, n)) \in 0 .. Wide - 1
  BY <1>1, <1>3, PartIs
<1>5. Address(d, b) < CellBase - Address(d, b)
  BY DEF HartsDescribed
<1>6. Address(d, b) \in Nat
  BY <1>2, <1>4
<1> QED
  BY <1>5, <1>6, IntIs DEF HartOfReg

-----------------------------------------------------------------------------
(* What each scan finds and what it may fail at *)

\* Which pass is which query.
LEMMA QueryIs ==
  ASSUME pass \in 1 .. 14
  PROVE  /\ Passes[pass] \in PassNames
         /\ Passes[pass] = "mem" <=> pass = 6
         /\ Passes[pass] = "harts" <=> pass = 7
         /\ Passes[pass] = "clint" <=> pass = 8
         /\ Passes[pass] = "plic" <=> pass = 9
         /\ Passes[pass] = "filter_harts" <=> pass = 11
BY DEF Passes, PassNames

\* c is what is left of c0, and nothing has been found and nothing has failed.
ScanOnly(c0, c) == IsCall(c) /\ c.found = c0.found /\ c.failed = c0.failed

\* open finds nothing.
LEMMA OpenOnly ==
  ASSUME NEW c, IsCall(c), Passes[pass] \in PassNames, NEW node, NEW name
  PROVE  ScanOnly(c, Open(c, node, name))
BY DEF IsCall, CallFields, ScanOnly, PassNames, Queries, Compats, Open,
       uart_open, mem_open, hart_open,
       clint_open, chosen_open, hart_filter_open, compat_open

\* close finds nothing.
LEMMA CloseOnly ==
  ASSUME NEW c, IsCall(c), Passes[pass] \in PassNames, NEW node
  PROVE  ScanOnly(c, Close(c, node))
<1>1. ScanOnly(c, hart_close(c, node))
  BY DEF IsCall, CallFields, ScanOnly, hart_close
<1>2. ScanOnly(c, chosen_close(c, node))
  BY DEF IsCall, CallFields, ScanOnly, chosen_close
<1>3. ScanOnly(c, compat_close(c, node))
  BY DEF IsCall, CallFields, ScanOnly, compat_close
<1>4. ScanOnly(c, c)
  BY DEF ScanOnly
<1> QED
  BY <1>1, <1>2, <1>3, <1>4 DEF Close

\* The scans for a device find nothing before done.
LEMMA DevicePropOnly ==
  ASSUME NEW c, IsCall(c), NEW node, NEW prop, NEW strs
  PROVE  ScanOnly(c, DeviceProp(c, node, prop, strs))
BY DEF IsCall, CallFields, DeviceProp, ScanOnly

\* prop finds nothing, and fails only in query_harts.
LEMMA PropOnly ==
  ASSUME NEW c, IsCall(c), Passes[pass] \in PassNames, NEW node, NEW prop
  PROVE  /\ IsCall(HasProp(c, node, prop))
         /\ HasProp(c, node, prop).found = c.found
         /\ Passes[pass] # "harts" => HasProp(c, node, prop).failed = c.failed
<1>1. /\ ScanOnly(c, uart_prop(c, node, prop))
      /\ ScanOnly(c, uart_litex_prop(c, node, prop))
      /\ ScanOnly(c, finisher_prop(c, node, prop))
  BY DevicePropOnly DEF uart_prop, uart_litex_prop, finisher_prop
<1>2. ScanOnly(c, uart16550_prop(c, node, prop))
  <2>1. ScanOnly(c, [c EXCEPT !.scan.reg_offset = prop.value[1]])
    BY DEF IsCall, CallFields, ScanOnly
  <2> QED
    BY <2>1, DevicePropOnly DEF uart16550_prop
<1>3. ScanOnly(c, htif_prop(c, prop))
  BY DEF IsCall, CallFields, ScanOnly, htif_prop
<1>4. ScanOnly(c, mem_prop(c, node, prop))
  BY DEF IsCall, CallFields, ScanOnly, mem_prop
<1>5. IsCall(hart_prop(c, node, prop)) /\ hart_prop(c, node, prop).found = c.found
  BY DEF IsCall, CallFields, Fail, hart_prop
<1>6. ScanOnly(c, clint_prop(c, node, prop))
  <2>1. ScanOnly(c, [c EXCEPT !.scan.int_value = lex])
    BY DEF IsCall, CallFields, ScanOnly
  <2> QED
    BY <2>1, DevicePropOnly DEF clint_prop
<1>7. ScanOnly(c, plic_prop(c, node, prop))
  <2>1. /\ ScanOnly(c, [c EXCEPT !.scan.int_value = lex])
        /\ ScanOnly(c, [c EXCEPT !.scan.ndev = prop.value[1]])
    BY DEF IsCall, CallFields, ScanOnly
  <2>2. ScanOnly(c, DeviceProp(c, node, prop, {"riscv,plic0"}))
    BY DevicePropOnly
  <2> QED
    BY <2>1, <2>2 DEF plic_prop
<1>8. ScanOnly(c, chosen_prop(c, node, prop))
  BY DEF IsCall, CallFields, ScanOnly, chosen_prop
<1>9. ScanOnly(c, hart_filter_prop(c, node, prop))
  BY DEF IsCall, CallFields, ScanOnly, hart_filter_prop
<1>10. ScanOnly(c, compat_prop(c, node, prop))
  BY DEF IsCall, CallFields, ScanOnly, compat_prop
<1>11. Passes[pass] # "harts" => ScanOnly(c, HasProp(c, node, prop))
  BY <1>1, <1>2, <1>3, <1>4, <1>6, <1>7, <1>8, <1>9, <1>10 DEF HasProp, PassNames, Compats
<1>12. Passes[pass] = "harts" => HasProp(c, node, prop) = hart_prop(c, node, prop)
  BY DEF HasProp, Compats
<1> QED
  BY <1>5, <1>11, <1>12 DEF ScanOnly

\* What a pass that does not look for it leaves of what a machine needs.
MachineLeft(c0, c) ==
  /\ IsCall(c) /\ DOMAIN c.found = FoundFields
  /\ pass # 6 => c.found.mem_size = c0.found.mem_size
  /\ pass # 7 => /\ c.found.hart_mask = c0.found.hart_mask
                 /\ c.found.hart_phandles = c0.found.hart_phandles
  /\ pass \notin {7, 8} => c.found.ipi = c0.found.ipi
  /\ pass \notin {7, 9} => c.found.plic_m = c0.found.plic_m
  /\ pass \notin {6, 7, 8, 9, 11} => c.failed = c0.failed

\* A failed assertion leaves what was found.
LEMMA FailMachine ==
  ASSUME NEW c, IsCall(c), DOMAIN c.found = FoundFields, pass \in {6, 7, 8, 9, 11}
  PROVE  MachineLeft(c, Fail(c))
BY DEF IsCall, CallFields, Fail, MachineLeft

\* done finds what its query is for.
LEMMA DoneMachine ==
  ASSUME NEW c, IsCall(c), DOMAIN c.found = FoundFields, pass \in 1 .. 14, NEW node
  PROVE  MachineLeft(c, Done(c, node))
<1>1. MachineLeft(c, c)
  BY DEF MachineLeft
<1>2. pass \in {6, 7, 8, 9, 11} => MachineLeft(c, Fail(c))
  BY FailMachine
<1>3. MachineLeft(c, uart16550_done(c, node))
  BY <1>1 DEF IsCall, CallFields, FoundFields, MachineLeft, uart16550_done
<1>4. MachineLeft(c, uart_done(Passes[pass], c, node))
  BY <1>1 DEF IsCall, CallFields, FoundFields, MachineLeft, uart_done
<1>5. MachineLeft(c, htif_done(c, node))
  BY <1>1 DEF IsCall, CallFields, FoundFields, MachineLeft, htif_done
<1>6. pass = 6 => MachineLeft(c, mem_done(c, node))
  BY <1>1, <1>2 DEF IsCall, CallFields, FoundFields, MachineLeft, mem_done
<1>7. pass = 7 => MachineLeft(c, hart_done(c, node))
  BY <1>1, <1>2 DEF IsCall, CallFields, FoundFields, MachineLeft, hart_done
<1>8. pass = 8 => MachineLeft(c, clint_done(c, node))
  <2> DEFINE ipi == [h \in Hart |-> Wire(c, 4, h, c.found.ipi[h], Cell)]
             r == [c EXCEPT !.scan.done = TRUE, !.found.mtime = c.scan.reg, !.found.ipi = ipi]
  <2>1. clint_done(c, node) = c \/ clint_done(c, node) = Fail(c) \/ clint_done(c, node) = r
    BY Zenon DEF clint_done
  <2> HIDE DEF ipi
  <2>2. pass = 8 => MachineLeft(c, r)
    BY <1>1 DEF IsCall, CallFields, FoundFields, MachineLeft
  <2> HIDE DEF r
  <2> QED
    BY <1>1, <1>2, <2>1, <2>2
<1>9. pass = 9 => MachineLeft(c, plic_done(c, node))
  <2> DEFINE plic == <<c.scan.reg, c.scan.ndev>>
             wires_m == [h \in Hart |-> Wire(c, 2, h, c.found.plic_m[h], {IRQ_M_EXT})]
             wires_s == [h \in Hart |-> Wire(c, 2, h, c.found.plic_s[h], {IRQ_S_EXT})]
             r == [c EXCEPT !.scan.done = TRUE, !.found.plic = plic,
                            !.found.plic_m = wires_m, !.found.plic_s = wires_s]
  <2>1. plic_done(c, node) = c \/ plic_done(c, node) = Fail(c) \/ plic_done(c, node) = r
    BY Zenon DEF plic_done
  <2> HIDE DEF plic, wires_m, wires_s
  <2>2. pass = 9 => MachineLeft(c, r)
    BY <1>1 DEF IsCall, CallFields, FoundFields, MachineLeft
  <2> HIDE DEF r
  <2> QED
    BY <1>1, <1>2, <2>1, <2>2
<1>10. MachineLeft(c, plic_redact(c, node))
  BY <1>1 DEF IsCall, CallFields, FoundFields, MachineLeft, plic_redact
<1>11. pass = 11 => MachineLeft(c, hart_filter_done(c, node))
  BY <1>1, <1>2 DEF IsCall, CallFields, FoundFields, MachineLeft, hart_filter_done
<1>12. /\ Passes[pass] \in PassNames
       /\ Passes[pass] = "mem" <=> pass = 6
       /\ Passes[pass] = "harts" <=> pass = 7
       /\ Passes[pass] = "clint" <=> pass = 8
       /\ Passes[pass] = "plic" <=> pass = 9
       /\ Passes[pass] = "filter_harts" <=> pass = 11
  BY QueryIs
<1> HIDE DEF MachineLeft
<1>13. CASE pass \in {6, 7, 8, 9, 11}
  BY <1>6, <1>7, <1>8, <1>9, <1>11, <1>12, <1>13, Zenon DEF Done, Queries
<1>14. CASE pass \notin {6, 7, 8, 9, 11}
  BY <1>1, <1>3, <1>4, <1>5, <1>10, <1>12, <1>14 DEF Done, Queries, PassNames
<1> QED
  BY <1>13, <1>14

\* The end of a scan finds nothing of the machine.
LEMMA FinishMachine ==
  ASSUME NEW c, IsCall(c), DOMAIN c.found = FoundFields, pass \in 1 .. 14
  PROVE  /\ IsCall(Finish(c)) /\ DOMAIN Finish(c).found = FoundFields
         /\ Finish(c).found.mem_size = c.found.mem_size
         /\ Finish(c).found.hart_mask = c.found.hart_mask
         /\ Finish(c).found.hart_phandles = c.found.hart_phandles
         /\ Finish(c).found.ipi = c.found.ipi
         /\ Finish(c).found.plic_m = c.found.plic_m
         /\ pass \notin {6, 7, 8} => Finish(c).failed = c.failed
<1>1. /\ Passes[pass] = "mem" <=> pass = 6
      /\ Passes[pass] = "harts" <=> pass = 7
      /\ Passes[pass] = "clint" <=> pass = 8
  BY QueryIs
<1> QED
  BY <1>1 DEF IsCall, CallFields, FoundFields, Fail, Finish

\* done is called for the node whose properties have been read.
LEMMA DoneIs ==
  ASSUME ScanInv, Scanning
  PROVE  DoneOnce(Now) = IF Doing THEN Done(Now, cur) ELSE Now
<1>1. Len(stack) \in Nat \ {0}
  BY Running DEF IsStack
<1>2. cur = Len(stack) - 1 /\ level = Len(stack)
  BY DEF cur, level
<1>3. Doing <=> ~ stack[level].last /\ cur # NULL
  BY <1>1, <1>2 DEF Doing, NULL
<1> QED
  BY <1>3, Zenon DEF DoneOnce

\* The call for a step is a record of its fields.
LEMMA DoneCall ==
  ASSUME ScanInv, Scanning
  PROVE  IsCall(DoneOnce(Now)) /\ Passes[pass] \in PassNames
BY Running, NowKept, DoneOnceKept, QueryIs DEF CallKept

\* A node that begins leaves what done leaves, and the locals that open leaves.
LEMMA BeginFinds ==
  ASSUME ScanInv, BeginNode
  PROVE  /\ found' = DoneOnce(Now).found /\ failed' = DoneOnce(Now).failed
         /\ scan' = Open(DoneOnce(Now), level, tok.name).scan
<1> DEFINE c == DoneOnce(Now)
           c2 == Open(c, level, tok.name)
<1>1. Scanning /\ Becomes(c2)
  BY DEF BeginNode
<1>2. IsCall(c) /\ Passes[pass] \in PassNames
  BY <1>1, DoneCall
<1> HIDE DEF c
<1>3. ScanOnly(c, c2)
  BY <1>2, OpenOnly
<1> HIDE DEF c2
<1>4. found' = c.found /\ failed' = c.failed /\ scan' = c2.scan
  BY <1>1, <1>3 DEF Becomes, ScanOnly
<1> QED
  BY <1>4 DEF c, c2

\* A node that ends leaves what done leaves, and the locals that close leaves.
LEMMA EndFinds ==
  ASSUME \A d \in Dtbs : Whole(d), ScanInv, EndNode
  PROVE  /\ found' = DoneOnce(Now).found /\ failed' = DoneOnce(Now).failed
         /\ scan' = Close(DoneOnce(Now), cur).scan
<1> DEFINE c == DoneOnce(Now)
           c2 == Close(c, cur)
           c3 == IF Deletes(c) THEN [c2 EXCEPT !.tree = Erased(@, stack[cur].begin, lex + 1)]
                 ELSE c2
<1>1. Scanning /\ Becomes(c3)
  BY EndStack, Zenon DEF Return
<1>2. IsCall(c) /\ Passes[pass] \in PassNames
  BY <1>1, DoneCall
<1> HIDE DEF c
<1>3. ScanOnly(c, c2)
  BY <1>2, CloseOnly
<1> HIDE DEF c2
<1>4. c3.found = c.found /\ c3.failed = c.failed /\ c3.scan = c2.scan
  BY <1>3 DEF ScanOnly, IsCall, CallFields
<1> HIDE DEF c3
<1>5. found' = c.found /\ failed' = c.failed /\ scan' = c2.scan
  BY <1>1, <1>4 DEF Becomes
<1> QED
  BY <1>5 DEF c, c2

\* Other tokens find nothing, and nothing fails but in query_harts.
LEMMA QuietFinds ==
  ASSUME ScanInv, Nop \/ Prop
  PROVE  found' = found /\ (pass # 7 => failed' = failed)
<1>1. CASE Nop
  BY <1>1 DEF Nop
<1>2. CASE Prop
  <2> DEFINE c == Now
             c2 == HasProp(c, cur, tok)
  <2>1. Scanning /\ Becomes(c2)
    BY <1>2, PropIs
  <2>2. pass \in 1 .. 14
    BY <2>1, Running
  <2>3. IsCall(c) /\ c.found = found /\ c.failed = failed
    BY DEF IsCall, CallFields, Now
  <2>4. Passes[pass] \in PassNames /\ (Passes[pass] = "harts" <=> pass = 7)
    BY <2>2, QueryIs
  <2> HIDE DEF c
  <2>5. c2.found = c.found /\ (pass # 7 => c2.failed = c.failed)
    BY <2>3, <2>4, PropOnly
  <2> HIDE DEF c2
  <2> QED
    BY <2>1, <2>3, <2>5 DEF Becomes
<1> QED
  BY <1>1, <1>2

\* The end of a scan leaves what the query makes of it, and the next starts afresh.
LEMMA OverFinds ==
  ASSUME ScanInv, EndScan
  PROVE  /\ found' = Finish(Now).found /\ failed' = Finish(Now).failed /\ pass' = pass + 1
         /\ pass < 14 => scan' = NewScan(Passes[pass + 1])
<1> DEFINE c == Finish(Now)
           c2 == IF pass < 14 THEN [c EXCEPT !.scan = NewScan(Passes[pass + 1])] ELSE c
<1>1. Becomes(c2) /\ pass' = pass + 1
  BY PassLen DEF EndScan
<1>2. IsCall(Now)
  BY DEF IsCall, CallFields, Now
<1>3. IsCall(c)
  BY <1>2, FinishLeaves DEF Leaves
<1> HIDE DEF c
<1>4. /\ c2.found = c.found /\ c2.failed = c.failed
      /\ pass < 14 => c2.scan = NewScan(Passes[pass + 1])
  BY <1>3 DEF IsCall, CallFields
<1> HIDE DEF c2
<1> QED
  BY <1>1, <1>4 DEF Becomes, c

\* What a step that does not look for it leaves of what a machine needs.
LeftMachine ==
  /\ DOMAIN found' = FoundFields
  /\ pass # 6 => found'.mem_size = found.mem_size
  /\ pass # 7 => /\ found'.hart_mask = found.hart_mask
                 /\ found'.hart_phandles = found.hart_phandles
  /\ pass \notin {7, 8} => found'.ipi = found.ipi
  /\ pass \notin {7, 9} => found'.plic_m = found.plic_m
  /\ pass \notin {6, 7, 8, 9, 11} => failed' = failed

\* Each query finds only what it is for.
LEMMA MachineStays ==
  ASSUME \A d \in Dtbs : Whole(d), ScanInv, DOMAIN found = FoundFields, Next
  PROVE  LeftMachine
<1>1. CASE Nop \/ Prop
  BY <1>1, QuietFinds DEF LeftMachine
<1>2. CASE BeginNode \/ EndNode
  <2> DEFINE c == Now
             c2 == DoneOnce(c)
  <2>1. Scanning /\ found' = c2.found /\ failed' = c2.failed
    BY <1>2, BeginFinds, EndFinds DEF BeginNode, EndNode
  <2>2. pass \in 1 .. 14 /\ IsCall(c) /\ c.found = found /\ c.failed = failed
    BY <2>1, Running DEF IsCall, CallFields, Now
  <2>3. c2 = IF Doing THEN Done(c, cur) ELSE c
    BY <2>1, DoneIs
  <2> HIDE DEF c
  <2>4. MachineLeft(c, Done(c, cur)) /\ MachineLeft(c, c)
    BY <2>2, DoneMachine DEF MachineLeft
  <2>5. MachineLeft(c, c2)
    BY <2>3, <2>4
  <2> HIDE DEF c2
  <2> QED
    BY <2>1, <2>2, <2>5 DEF MachineLeft, LeftMachine
<1>3. CASE EndScan
  <2> DEFINE c == Now
             c2 == Finish(c)
  <2>1. Scanning /\ found' = c2.found /\ failed' = c2.failed
    BY <1>3, OverFinds DEF EndScan
  <2>2. pass \in 1 .. 14 /\ IsCall(c) /\ c.found = found /\ c.failed = failed
    BY <2>1, Running DEF IsCall, CallFields, Now
  <2> HIDE DEF c
  <2>3. /\ DOMAIN c2.found = FoundFields
        /\ c2.found.mem_size = c.found.mem_size
        /\ c2.found.hart_mask = c.found.hart_mask
        /\ c2.found.hart_phandles = c.found.hart_phandles
        /\ c2.found.ipi = c.found.ipi
        /\ c2.found.plic_m = c.found.plic_m
        /\ pass \notin {6, 7, 8} => c2.failed = c.failed
    BY <2>2, FinishMachine
  <2> HIDE DEF c2
  <2> QED
    BY <2>1, <2>2, <2>3 DEF LeftMachine
<1> QED
  BY <1>1, <1>2, <1>3 DEF Next

\* What a scan is done with changes only while it runs.
LEMMA UptoStays ==
  ASSUME \A d \in Dtbs : Whole(d), ScanInv, Next, NEW p \in 6 .. 9, pass # p
  PROVE  Upto(p)' = Upto(p)
<1>1. CASE ~ EndScan
  <2>1. dtb' = dtb /\ pass' = pass
    BY <1>1 DEF Next, Nop, Prop, BeginNode, EndNode, Return
  <2> QED
    BY <2>1 DEF Upto, Nodes
<1>2. CASE EndScan
  <2>1. dtb' = dtb /\ pass' = pass + 1 /\ HandledNodes' = {} /\ pass \in 1 .. 15
    BY <1>2, OverFinds, HandledOver DEF ScanInv
  <2>2. Nodes(dtb)' = Nodes(dtb)
    BY <2>1 DEF Nodes
  <2>3. CASE pass + 1 = p
    BY <2>1, <2>3 DEF Upto
  <2>4. CASE pass + 1 # p
    BY <2>1, <2>2, <2>4 DEF Upto
  <2> QED
    BY <2>3, <2>4
<1> QED
  BY <1>1, <1>2

\* When it is over it is done with every node.
LEMMA UptoOver ==
  ASSUME \A d \in Dtbs : Whole(d), ScanInv, EndScan, NEW p \in 6 .. 9, pass = p
  PROVE  Upto(p)' = Nodes(dtb) /\ HandledNodes = Nodes(dtb) /\ dtb' = dtb
<1>1. dtb' = dtb /\ pass' = pass + 1 /\ HandledNodes = Nodes(dtb)
  BY OverFinds, HandledOver
<1>2. Nodes(dtb)' = Nodes(dtb)
  BY <1>1 DEF Nodes
<1> QED
  BY <1>1, <1>2 DEF Upto

\* A token of no meaning shows nothing of a node.
LEMMA NopSeen ==
  ASSUME ScanInv, Nop, Len(stack) > 1, NEW k \in 1 .. Len(stack) - 1, NEW n
  PROVE  Seen(dtb, stack[k].begin, n, lex') = Seen(dtb, stack[k].begin, n, lex)
<1>1. Scanning /\ tree[lex].t = "NOP" /\ lex' = lex + 1
  BY DEF Nop, tok
<1>2. WellFormed(dtb) /\ TokensKept(dtb, tree) /\ StackKept(dtb, tree, stack, lex)
  BY <1>1, Running
<1>3. SeenOn(dtb, stack, n, lex)
  BY <1>1, <1>2, CountOn
<1> QED
  BY <1>1, <1>3 DEF SeenOn

\* The tree handed over stays.
LEMMA DtbStays == Next => dtb' = dtb /\ Nodes(dtb)' = Nodes(dtb)
<1> SUFFICES ASSUME Next
             PROVE  dtb' = dtb
  BY DEF Nodes
<1> QED
  BY DEF Next, Nop, Prop, BeginNode, EndNode, EndScan, Return

\* A scan starts with its own locals and no node.
LEMMA Starts ==
  ASSUME \A d \in Dtbs : Whole(d), ScanInv, Next, NEW p \in 6 .. 9, pass # p, pass' = p
  PROVE  scan' = NewScan(Passes[p]) /\ ~ Doing' /\ HandledNodes' = {} /\ Len(stack') = 1
<1>1. EndScan
  BY DEF Next, Nop, Prop, BeginNode, EndNode, Return
<1>2. pass' = pass + 1 /\ (pass < 14 => scan' = NewScan(Passes[pass + 1])) /\ pass \in 1 .. 15
  BY <1>1, OverFinds DEF ScanInv
<1>3. pass + 1 = p /\ pass < 14
  BY <1>2
<1>4. stack' = <<NewLevel>>
  BY <1>1 DEF EndScan
<1>5. Len(<<NewLevel>>) = 1
  OBVIOUS
<1> QED
  BY <1>1, <1>2, <1>3, <1>4, <1>5, HandledOver

-----------------------------------------------------------------------------
(* query_mem *)

\* A set of numbers up to n that is not empty has a greatest one.
LEMMA GreatestNumber ==
  ASSUME NEW n \in Nat, NEW T \in SUBSET (0 .. n), T # {}
  PROVE  \E m \in T : \A i \in T : i <= m
<1> DEFINE S == {n - i : i \in T}
<1>1. S \in SUBSET Nat /\ S # {}
  <2>1. \A i \in T : i \in Int /\ i <= n
    OBVIOUS
  <2>2. \A i \in T : n - i \in Nat
    BY <2>1
  <2> QED
    BY <2>2
<1>2. PICK s \in S : \A x \in S : s <= x
  BY <1>1, LeastNumber
<1>3. PICK m \in T : s = n - m
  BY <1>2
<1>4. ASSUME NEW i \in T PROVE i <= m
  <2>1. s <= n - i
    BY <1>2
  <2> QED
    BY <1>3, <2>1
<1> QED
  BY <1>4

\* The greatest is what CHOOSE takes.
LEMMA GreatestIs ==
  ASSUME NEW n \in Nat, NEW T \in SUBSET (0 .. n), T # {}
  PROVE  (CHOOSE m \in T : \A i \in T : i <= m) \in T
<1>1. \E m \in T : \A i \in T : i <= m
  BY GreatestNumber
<1> QED
  BY <1>1

\* A node is of the type read of it.
LEMMA TypeIs ==
  ASSUME NEW d, WellFormed(d), NEW b \in Nodes(d), NEW type
  PROVE  (\E i \in Named(d, b, "device_type") : d[i].value = type) <=> b \in OfType(d, type)
<1>1. ASSUME NEW i \in Named(d, b, "device_type")
      PROVE  (d[i].value = type) <=> b \in OfType(d, type)
  <2>1. Value(d, b, "device_type") = d[i].value /\ Has(d, b, "device_type")
    BY NamedIs
  <2> QED
    BY <2>1 DEF OfType
<1>2. b \in OfType(d, type) => Named(d, b, "device_type") # {}
  BY DEF OfType, Has
<1>3. ASSUME NEW i \in Named(d, b, "device_type"), b \in OfType(d, type)
      PROVE  \E j \in Named(d, b, "device_type") : d[j].value = type
  BY <1>1, <1>3
<1> QED
  BY <1>1, <1>2, <1>3

\* The firmware is in the region that has been found, and before its end.
LEMMA MemoryThere ==
  ASSUME NEW d, MemoryDescribed(d), NEW size, MemKnown(size, d, Nodes(d))
  PROVE  \E b \in OfType(d, "memory") : \E i \in DOMAIN MemoryOf(d, b) :
           /\ MemoryOf(d, b)[i][1] <= Self /\ Self < MemoryOf(d, b)[i][1] + MemoryOf(d, b)[i][2]
           /\ size = MemoryOf(d, b)[i][2] /\ size # 0
<1>1. OfType(d, "memory") \cap Nodes(d) = OfType(d, "memory")
  BY DEF OfType
<1>2. PICK b \in OfType(d, "memory") : \E i \in Within(MemoryOf(d, b)) :
             size = MemoryOf(d, b)[i][2]
  BY <1>1 DEF MemKnown, MemoryDescribed
<1>3. PICK i \in Within(MemoryOf(d, b)) : size = MemoryOf(d, b)[i][2]
  BY <1>2
<1> DEFINE base == MemoryOf(d, b)[i][1]
           x == MemoryOf(d, b)[i][2]
<1>4. i \in DOMAIN MemoryOf(d, b) /\ base <= Self /\ Self <= (base + x) % Wide
  BY DEF Within
<1>5. base \in 0 .. Wide - 1 /\ x \in 0 .. Wide - 1
  BY <1>4, RegionsAre
<1>6. base + x < Wide /\ base + x # Self
  BY <1>4 DEF MemoryDescribed
<1>7. Wide \in Nat \ {0} /\ Self \in Nat
  <2>1. CellBase \in Nat \ {0}
    BY FdtAssumption
  <2> QED
    BY <2>1, FdtAssumption DEF Wide
<1> HIDE DEF base, x
<1>8. (base + x) % Wide = base + x
  BY <1>5, <1>6, <1>7
<1>9. Self < base + x /\ x # 0
  BY <1>4, <1>5, <1>6, <1>7, <1>8
<1> QED
  BY <1>3, <1>4, <1>9 DEF base, x

\* A node without a region the firmware is in changes nothing.
LEMMA MemSame ==
  ASSUME NEW d, NEW size, NEW B, MemKnown(size, d, B), NEW b,
         b \notin OfType(d, "memory") \/ Within(MemoryOf(d, b)) = {}
  PROVE  MemKnown(size, d, B \cup {b})
BY DEF MemKnown

\* One with such a region gives its size.
LEMMA MemAdds ==
  ASSUME NEW d, NEW B, NEW b \in OfType(d, "memory"), NEW i \in Within(MemoryOf(d, b))
  PROVE  MemKnown(MemoryOf(d, b)[i][2], d, B \cup {b})
BY DEF MemKnown

\* mem_prop takes down what is read of a node.
LEMMA MemProp ==
  ASSUME ScanInv, Prop, pass = 6, DOMAIN scan = {"memory", "reg_value"},
         MemSeen(scan, dtb, TopNode, lex)
  PROVE  DOMAIN scan' = {"memory", "reg_value"} /\ MemSeen(scan', dtb, TopNode, lex')
<1>1. /\ Scanning /\ dtb[lex].t = "PROP" /\ TopNode \in Nodes(dtb) /\ Own(dtb, TopNode, lex)
      /\ tok.name = dtb[lex].name
      /\ dtb[lex].name \notin {"status", "interrupts-extended"} => tok = dtb[lex]
      /\ lex' = lex + 1 /\ Becomes(HasProp(Now, cur, tok))
  BY PropIs
<1>2. WellFormed(dtb) /\ lex \in DOMAIN dtb
  BY <1>1, Running
<1> DEFINE b == TopNode
           name == dtb[lex].name
<1>3. \A n : IF n = name
             THEN /\ Seen(dtb, b, n, lex') = {lex} /\ Seen(dtb, b, n, lex) = {}
                  /\ Value(dtb, b, n) = dtb[lex].value
             ELSE Seen(dtb, b, n, lex') = Seen(dtb, b, n, lex)
  BY <1>1, <1>2, OneSeen
<1>4. scan' = mem_prop(Now, cur, tok).scan
  <2>1. Passes[pass] = "mem"
    BY DEF Passes
  <2>2. HasProp(Now, cur, tok) = mem_prop(Now, cur, tok)
    BY <2>1 DEF HasProp, Compats
  <2> QED
    BY <1>1, <2>2 DEF Becomes
<1> DEFINE c == Now
<1>5. IsCall(c) /\ c.scan = scan
  BY DEF IsCall, CallFields, Now
<1> HIDE DEF c
<1>6. /\ DOMAIN mem_prop(c, cur, tok).scan = {"memory", "reg_value"}
      /\ mem_prop(c, cur, tok).scan.memory =
           IF tok.name = "device_type" /\ tok.value = "memory" THEN TRUE ELSE scan.memory
      /\ mem_prop(c, cur, tok).scan.reg_value =
           IF tok.name = "reg" THEN tok.value ELSE scan.reg_value
  BY <1>5 DEF mem_prop, IsCall, CallFields
<1>7. /\ DOMAIN scan' = {"memory", "reg_value"}
      /\ scan'.memory = IF tok.name = "device_type" /\ tok.value = "memory" THEN TRUE
                        ELSE scan.memory
      /\ scan'.reg_value = IF tok.name = "reg" THEN tok.value ELSE scan.reg_value
  BY <1>4, <1>6 DEF c
<1> HIDE DEF b, name
<1>8. /\ scan.memory <=> \E i \in Seen(dtb, b, "device_type", lex) : dtb[i].value = "memory"
      /\ scan.reg_value = IF Seen(dtb, b, "reg", lex) = {} THEN <<>> ELSE Value(dtb, b, "reg")
  BY DEF MemSeen, b
<1>9. tok.name = name /\ (name \in {"device_type", "reg"} => tok.value = dtb[lex].value)
  BY <1>1 DEF name
<1>10. scan'.memory <=> \E i \in Seen(dtb, b, "device_type", lex') : dtb[i].value = "memory"
  <2>1. CASE name = "device_type"
    <3>1. /\ Seen(dtb, b, "device_type", lex') = {lex} /\ Seen(dtb, b, "device_type", lex) = {}
      BY <1>3, <2>1
    <3>2. ~ scan.memory
      BY <1>8, <3>1
    <3> QED
      BY <1>7, <1>9, <2>1, <3>1, <3>2
  <2>2. CASE name # "device_type"
    BY <1>3, <1>7, <1>8, <1>9, <2>2
  <2> QED
    BY <2>1, <2>2
<1>11. scan'.reg_value = IF Seen(dtb, b, "reg", lex') = {} THEN <<>> ELSE Value(dtb, b, "reg")
  BY <1>3, <1>7, <1>8, <1>9
<1> QED
  BY <1>7, <1>10, <1>11 DEF MemSeen, b

\* done takes the size of the region the firmware is in, if the node has it.
LEMMA MemDone ==
  ASSUME ScanInv, Scanning, pass = 6, Doing, dtb[lex].t \in {"BEGIN_NODE", "END_NODE"},
         MemSeen(scan, dtb, TopNode, lex), MemoryDescribed(dtb), ~ failed,
         DOMAIN found = FoundFields, MemKnown(found.mem_size, dtb, HandledNodes)
  PROVE  /\ ~ Done(Now, cur).failed
         /\ MemKnown(Done(Now, cur).found.mem_size, dtb, HandledNodes \cup {TopNode})
<1> DEFINE b == TopNode
           B == HandledNodes
           c == Now
           value == c.scan.reg_value
           counts == <<stack[cur - 1].address_cells, stack[cur - 1].size_cells>>
           here == Within(Regions(value, counts))
<1>1. WellFormed(dtb) /\ lex \in DOMAIN dtb /\ b \in Nodes(dtb) /\ b < lex
  BY Running, TopFacts DEF Doing
<1>2. \A n : Seen(dtb, b, n, lex) = Named(dtb, b, n)
  BY <1>1, AllSeen
<1>3. scan.memory <=> b \in OfType(dtb, "memory")
  BY <1>1, <1>2, TypeIs DEF MemSeen
<1>4. Done(Now, cur) = mem_done(c, cur)
  <2>1. Passes[pass] = "mem"
    BY DEF Passes
  <2> QED
    BY <2>1 DEF Done, Queries
<1>5. IsCall(c) /\ c.scan = scan /\ c.found = found /\ c.failed = failed
  BY DEF IsCall, CallFields, Now
<1> HIDE DEF c
<1>6. CASE b \notin OfType(dtb, "memory")
  <2>1. mem_done(c, cur) = c
    BY <1>3, <1>5, <1>6, Zenon DEF mem_done
  <2>2. MemKnown(found.mem_size, dtb, B \cup {b})
    BY <1>6, MemSame
  <2> QED
    BY <1>4, <1>5, <2>1, <2>2
<1>7. CASE b \in OfType(dtb, "memory")
  <2>1. OfCells(dtb, b, "reg") /\ Value(dtb, b, "reg") # <<>>
    BY <1>7 DEF MemoryDescribed
  <2>2. value = Value(dtb, b, "reg") /\ Has(dtb, b, "reg") /\ value # <<>>
    BY <1>2, <1>5, <2>1 DEF MemSeen, OfCells, Has
  <2>3. counts = CountsOf(dtb, Owner(dtb, b))
    BY <2>2, ParentCounts DEF Doing, TopNode, cur, level
  <2>4. Len(value) % (counts[1] + counts[2]) = 0
    BY <1>7, <2>2, <2>3 DEF MemoryDescribed
  <2>9. c.scan.memory
    BY <1>3, <1>5, <1>7
  <2> HIDE DEF value, counts
  <2>5. Regions(value, counts) = MemoryOf(dtb, b)
    BY <2>2, <2>3 DEF MemoryOf
  <2> DEFINE i == CHOOSE m \in here : \A j \in here : j <= m
             new == [c EXCEPT !.found.mem_size = Regions(value, counts)[i][2]]
  <2>6. mem_done(c, cur) = IF here = {} THEN c ELSE new
    BY <2>2, <2>4, <2>9, Zenon DEF mem_done, value, counts
  <2>7. CASE here = {}
    <3>1. MemKnown(found.mem_size, dtb, B \cup {b})
      BY <2>5, <2>7, MemSame
    <3> QED
      BY <1>4, <1>5, <2>6, <2>7, <3>1
  <2>8. CASE here # {}
    <3>1. i \in here
      <4> DEFINE n == Len(value) \div (counts[1] + counts[2])
      <4>1. here \in SUBSET (0 .. n)
        <5>1. DOMAIN Regions(value, counts) = 1 .. n
          BY DEF Regions
        <5> QED
          BY <5>1 DEF Within
      <4>2. n \in Nat
        <5>1. Len(value) \in Nat
          BY <2>1, <2>2 DEF OfCells
        <5>2. counts[1] + counts[2] \in Nat \ {0}
          BY <1>7, <2>3 DEF MemoryDescribed
        <5> QED
          BY <5>1, <5>2
      <4> HIDE DEF here, n
      <4>3. (CHOOSE m \in here : \A j \in here : j <= m) \in here
        BY <2>8, <4>1, <4>2, GreatestIs
      <4> QED
        BY <4>3
    <3>2. MemKnown(MemoryOf(dtb, b)[i][2], dtb, B \cup {b})
      BY <1>7, <2>5, <3>1, MemAdds
    <3> HIDE DEF i, here
    <3>3. new.found.mem_size = MemoryOf(dtb, b)[i][2] /\ new.failed = failed
      BY <1>5, <2>5 DEF IsCall, CallFields, FoundFields
    <3> HIDE DEF new
    <3> QED
      BY <1>4, <2>6, <2>8, <3>2, <3>3
  <2> QED
    BY <2>7, <2>8
<1> QED
  BY <1>6, <1>7

\* query_mem has of the nodes it is past what they say of the firmware's memory.
LEMMA MemStep ==
  ASSUME \A d \in Dtbs : Whole(d), ScanInv, DOMAIN found = FoundFields, ~ failed, MemInv,
         MemoryDescribed(dtb), Next
  PROVE  MemInv' /\ (pass = 6 => ~ failed')
<1>1. dtb' = dtb
  BY DtbStays
<1>2. CASE pass # 6
  <2>1. MemKnown(found.mem_size, dtb, Upto(6)) /\ Upto(6)' = Upto(6)
    BY <1>2, UptoStays DEF MemInv
  <2>2. found'.mem_size = found.mem_size
    BY <1>2, MachineStays DEF LeftMachine
  <2>3. pass' = 6 => DOMAIN scan' = {"memory", "reg_value"} /\ ~ Doing'
    <3> SUFFICES ASSUME pass' = 6
                 PROVE  DOMAIN scan' = {"memory", "reg_value"} /\ ~ Doing'
      OBVIOUS
    <3>1. scan' = NewScan(Passes[6]) /\ ~ Doing'
      BY <1>2, Starts
    <3>2. Passes[6] = "mem"
      BY DEF Passes
    <3>3. NewScan("mem") = [memory |-> FALSE, reg_value |-> <<>>]
      BY DEF NewScan, Queries, Compats
    <3> QED
      BY <3>1, <3>2, <3>3
  <2> QED
    BY <1>1, <1>2, <2>1, <2>2, <2>3 DEF MemInv
<1>3. CASE pass = 6
  <2>1. /\ MemKnown(found.mem_size, dtb, HandledNodes)
        /\ DOMAIN scan = {"memory", "reg_value"}
        /\ Doing => MemSeen(scan, dtb, TopNode, lex)
    BY <1>3 DEF MemInv, Upto
  <2>2. Scanning
    BY DEF Next, Nop, Prop, BeginNode, EndNode, EndScan
  <2>3. WellFormed(dtb) /\ lex \in DOMAIN dtb
    BY <2>2, Running
  <2>4. ASSUME pass' = 6, MemKnown(found'.mem_size, dtb, HandledNodes'),
               DOMAIN scan' = {"memory", "reg_value"},
               Doing' => MemSeen(scan', dtb, TopNode', lex'), ~ failed'
        PROVE  MemInv' /\ ~ failed'
    BY <1>1, <2>4 DEF MemInv, Upto
  <2>5. ASSUME dtb[lex].t \in {"BEGIN_NODE", "END_NODE"}
        PROVE  /\ ~ DoneOnce(Now).failed
               /\ MemKnown(DoneOnce(Now).found.mem_size, dtb,
                           HandledNodes \cup (IF Doing THEN {TopNode} ELSE {}))
    <3>1. CASE Doing
      <4>1. DoneOnce(Now) = Done(Now, cur)
        BY <2>2, <3>1, DoneIs
      <4> QED
        BY <1>3, <2>1, <2>2, <2>5, <3>1, <4>1, MemDone
    <3>2. CASE ~ Doing
      <4>1. DoneOnce(Now) = Now /\ Now.found = found /\ Now.failed = failed
        BY <2>2, <3>2, DoneIs DEF Now
      <4>2. HandledNodes \cup {} = HandledNodes
        OBVIOUS
      <4> QED
        BY <2>1, <3>2, <4>1, <4>2
    <3> QED
      BY <3>1, <3>2
  <2>6. CASE Nop
    <3>1. Doing' = Doing /\ (Doing => TopNode' = TopNode) /\ HandledNodes' = HandledNodes
      BY <1>3, <2>6, HandledSame
    <3>2. UNCHANGED <<pass, scan, found, failed>>
      BY <2>6 DEF Nop
    <3>3. Doing => MemSeen(scan, dtb, TopNode, lex')
      <4> SUFFICES ASSUME Doing PROVE MemSeen(scan, dtb, TopNode, lex')
        OBVIOUS
      <4>1. \A n : Seen(dtb, TopNode, n, lex') = Seen(dtb, TopNode, n, lex)
        BY <2>2, <2>6, NopSeen, TopFacts DEF Doing, TopNode
      <4> QED
        BY <2>1, <4>1 DEF MemSeen
    <3> QED
      BY <1>3, <2>1, <2>4, <3>1, <3>2, <3>3
  <2>7. CASE Prop
    <3>1. Doing' = Doing /\ (Doing => TopNode' = TopNode) /\ HandledNodes' = HandledNodes
      BY <1>3, <2>7, HandledSame
    <3>2. Doing /\ pass' = pass /\ found' = found /\ failed' = failed
      BY <1>3, <2>7, PropIs, QuietFinds
    <3>3. DOMAIN scan' = {"memory", "reg_value"} /\ MemSeen(scan', dtb, TopNode, lex')
      BY <1>3, <2>1, <2>7, <3>2, MemProp
    <3> QED
      BY <1>3, <2>1, <2>4, <3>1, <3>2, <3>3
  <2>8. CASE BeginNode
    <3>1. /\ Doing' /\ TopNode' = lex /\ lex \in Nodes(dtb)
          /\ HandledNodes' = HandledNodes \cup (IF Doing THEN {TopNode} ELSE {})
      BY <1>3, <2>8, HandledBegin
    <3>2. pass' = pass /\ lex' = lex + 1
      BY <2>8 DEF BeginNode
    <3>3. dtb[lex].t = "BEGIN_NODE"
      BY <3>1 DEF Nodes
    <3>4. /\ found' = DoneOnce(Now).found /\ failed' = DoneOnce(Now).failed
          /\ scan' = Open(DoneOnce(Now), level, tok.name).scan
      BY <2>8, BeginFinds
    <3>5. scan' = [memory |-> FALSE, reg_value |-> <<>>]
      <4> DEFINE c == DoneOnce(Now)
      <4>1. IsCall(c)
        BY <2>2, DoneCall
      <4>2. Passes[pass] = "mem"
        BY <1>3 DEF Passes
      <4> HIDE DEF c
      <4>3. Open(c, level, tok.name) = [c EXCEPT !.scan = NewScan("mem")]
        BY <4>2 DEF Open, mem_open, Queries, Compats
      <4>4. NewScan("mem") = [memory |-> FALSE, reg_value |-> <<>>]
        BY DEF NewScan, Queries, Compats
      <4>5. Open(c, level, tok.name).scan = NewScan("mem")
        BY <4>1, <4>3 DEF IsCall, CallFields
      <4> QED
        BY <3>4, <4>4, <4>5 DEF c
    <3>6. MemSeen(scan', dtb, lex, lex')
      <4>1. \A n : Seen(dtb, lex, n, lex') = {}
        BY <2>3, <3>1, <3>2, NoneSeen
      <4> QED
        BY <3>5, <4>1 DEF MemSeen
    <3>7. ~ DoneOnce(Now).failed /\ MemKnown(DoneOnce(Now).found.mem_size, dtb, HandledNodes')
      BY <2>5, <3>1, <3>3
    <3>8. DOMAIN scan' = {"memory", "reg_value"}
      BY <3>5
    <3> QED
      BY <1>3, <2>4, <3>1, <3>2, <3>4, <3>6, <3>7, <3>8
  <2>9. CASE EndNode
    <3>1. ~ Doing' /\ HandledNodes' = HandledNodes \cup (IF Doing THEN {TopNode} ELSE {})
      BY <1>3, <2>9, HandledEnd
    <3>2. dtb[lex].t = "END_NODE" /\ pass' = pass
      BY <2>9, EndStack
    <3>3. /\ found' = DoneOnce(Now).found /\ failed' = DoneOnce(Now).failed
          /\ scan' = Close(DoneOnce(Now), cur).scan
      BY <2>9, EndFinds
    <3>4. ~ DoneOnce(Now).failed /\ MemKnown(DoneOnce(Now).found.mem_size, dtb, HandledNodes')
      BY <2>5, <3>1, <3>2
    <3>5. DOMAIN scan' = {"memory", "reg_value"}
      <4> DEFINE c == DoneOnce(Now)
                 c1 == Now
      <4>1. Passes[pass] = "mem"
        BY <1>3 DEF Passes
      <4>2. Close(c, cur) = c
        BY <4>1 DEF Close, Compats
      <4>3. IsCall(c1) /\ c1.scan = scan
        BY DEF IsCall, CallFields, Now
      <4>4. Done(c1, cur) = mem_done(c1, cur)
        BY <4>1 DEF Done, Queries
      <4>5. c = IF Doing THEN mem_done(c1, cur) ELSE c1
        BY <2>2, <4>4, DoneIs
      <4> HIDE DEF c1
      <4>6. mem_done(c1, cur).scan = c1.scan
        BY <4>3 DEF mem_done, Fail, IsCall, CallFields
      <4> QED
        BY <2>1, <3>3, <4>2, <4>3, <4>5, <4>6
    <3> QED
      BY <1>3, <2>4, <3>1, <3>2, <3>3, <3>4, <3>5
  <2>10. CASE EndScan
    <3>1. Upto(6)' = Nodes(dtb) /\ HandledNodes = Nodes(dtb)
      BY <1>3, <2>10, UptoOver
    <3>2. /\ found' = Finish(Now).found /\ failed' = Finish(Now).failed /\ pass' = pass + 1
      BY <2>10, OverFinds
    <3>3. found.mem_size # 0
      BY <2>1, <3>1, MemoryThere
    <3>4. Finish(Now) = Now
      <4> DEFINE c == Now
      <4>1. c.found.mem_size # 0 /\ Passes[pass] = "mem"
        BY <1>3, <3>3 DEF Now, Passes
      <4> HIDE DEF c
      <4> QED
        BY <4>1 DEF Finish, c
    <3>5. found' = found /\ failed' = failed
      BY <3>2, <3>4 DEF Now
    <3> QED
      BY <1>1, <1>3, <2>1, <3>1, <3>2, <3>5 DEF MemInv
  <2> QED
    BY <2>6, <2>7, <2>8, <2>9, <2>10 DEF Next
<1> QED
  BY <1>2, <1>3

-----------------------------------------------------------------------------
(* query_harts *)

\* What is read of level k's node before token l, it is also before token l2.
SameSeen(k, l, l2) ==
  \A n : Seen(dtb, stack[k].begin, n, l2) = Seen(dtb, stack[k].begin, n, l)

\* A token that is no property shows nothing of a node, and one of the innermost
\* node nothing of the others.
LEMMA LevelsSeen ==
  ASSUME ScanInv, Nop \/ Prop \/ BeginNode \/ EndNode, \A d \in Dtbs : Whole(d),
         NEW k \in 1 .. Len(stack) - 1, Prop => k # Len(stack) - 1
  PROVE  SameSeen(k, lex, lex')
<1>1. Scanning /\ (~ EndNode => lex' = lex + 1)
  <2>1. CASE Nop
    BY <2>1 DEF Nop
  <2>2. CASE Prop
    BY <2>2, PropIs
  <2>3. CASE BeginNode
    BY <2>3 DEF BeginNode
  <2>4. CASE EndNode
    BY <2>4 DEF EndNode
  <2> QED
    BY <2>1, <2>2, <2>3, <2>4
<1>2. lex' = lex + 1
  BY <1>1, EndStack
<1>3. WellFormed(dtb) /\ TokensKept(dtb, tree) /\ StackKept(dtb, tree, stack, lex)
      /\ lex \in DOMAIN dtb
  BY <1>1, Running
<1>4. CASE ~ Prop
  <2>1. tree[lex].t # "PROP"
    BY <1>4, EndStack DEF Nop, BeginNode, tok
  <2>2. \A n : SeenOn(dtb, stack, n, lex)
    BY <1>3, <2>1, CountOn
  <2> QED
    BY <1>2, <2>2 DEF SeenOn, SameSeen
<1>5. CASE Prop
  <2>1. dtb[lex].t = "PROP" /\ TopNode \in Nodes(dtb) /\ Own(dtb, TopNode, lex) /\ Doing
    BY <1>5, PropIs
  <2>2. lex \in Named(dtb, TopNode, dtb[lex].name)
    BY <1>3, <2>1 DEF Named
  <2>3. stack[k].begin \in Nodes(dtb)
    BY <1>3, LevelFacts
  <2>4. stack[k].begin < TopNode /\ TopNode \in Nat
    <3>1. Len(stack) - 1 \in 1 .. Len(stack) - 1 /\ k \in 1 .. (Len(stack) - 1) - 1
      BY <1>3, <1>5 DEF StackKept
    <3>2. TopNode \in Nat
      BY <1>3, <2>1, NodeFacts
    <3> QED
      BY <1>3, <3>1, <3>2 DEF StackKept, TopNode
  <2>5. \A n : lex \notin Named(dtb, stack[k].begin, n)
    <3> TAKE n
    <3>1. stack[k].begin \in Nat
      BY <1>3, <2>3, NodeFacts
    <3> QED
      BY <1>3, <2>1, <2>2, <2>3, <2>4, <3>1, NamedApart
  <2>6. \A n : Seen(dtb, stack[k].begin, n, lex + 1) = Seen(dtb, stack[k].begin, n, lex)
    BY <1>3, <2>3, <2>5, SeenNext
  <2> QED
    BY <1>2, <2>6 DEF SameSeen
<1> QED
  BY <1>4, <1>5

\* A level's node known to be a hart is one.
LEMMA CpuIs ==
  ASSUME NEW d, WellFormed(d), NEW b \in Nodes(d), NEW l, CpuSeen(d, b, l)
  PROVE  b \in Harts(d)
<1>1. \E i \in Named(d, b, "device_type") : d[i].value = "cpu"
  BY DEF CpuSeen, Seen
<1> QED
  BY <1>1, TypeIs DEF Harts

\* It is known when its children begin or it ends.
LEMMA CpuKnown ==
  ASSUME NEW d, WellFormed(d), NEW b \in Nodes(d), NEW l \in DOMAIN d, b < l,
         d[l].t \in {"BEGIN_NODE", "END_NODE"}
  PROVE  CpuSeen(d, b, l) <=> b \in Harts(d)
<1>1. Seen(d, b, "device_type", l) = Named(d, b, "device_type")
  BY AllSeen
<1> QED
  BY <1>1, TypeIs DEF Harts, CpuSeen

\* A level's node is in that of a level below.
LEMMA LevelIn ==
  ASSUME ScanInv, Scanning, NEW j \in 1 .. Len(stack) - 1, NEW k \in 1 .. Len(stack) - 1, j < k
  PROVE  Holds(dtb, stack[j].begin, stack[k].begin)
<1>1. WellFormed(dtb) /\ StackKept(dtb, tree, stack, lex)
  BY Running
<1>2. /\ stack[j].begin \in Nat /\ Holds(dtb, stack[j].begin, lex)
      /\ stack[k].begin \in Nat /\ stack[k].begin < lex /\ lex \in Nat
  BY <1>1, LevelFacts
<1>3. stack[j].begin < stack[k].begin
  <2>1. j \in 1 .. k - 1
    BY <1>1 DEF StackKept
  <2> QED
    BY <1>1, <2>1 DEF StackKept
<1> QED
  BY <1>2, <1>3, HoldsWithin

\* What query_harts has of the harts under way.
HartsUnderWay == CpuKept /\ ControllerKept /\ NumberKept /\ PhandleKept

\* No hart and no interrupt controller is in one, so none is met inside.
LEMMA NoneInside ==
  ASSUME ScanInv, Prop, DOMAIN scan = HartScan, CpuKept, ControllerKept, HartsDescribed(dtb)
  PROVE  /\ dtb[lex].name = "device_type" /\ dtb[lex].value = "cpu" => scan.cpu = NULL
         /\ dtb[lex].name = "interrupt-controller" => scan.controller = NULL
         /\ dtb[lex].name = "reg" => scan.cpu \in {NULL, Len(stack) - 1}
<1> DEFINE b == TopNode
           name == dtb[lex].name
<1>1. /\ Scanning /\ dtb[lex].t = "PROP" /\ b \in Nodes(dtb) /\ Own(dtb, b, lex) /\ Doing
  BY PropIs
<1>2. WellFormed(dtb) /\ lex \in DOMAIN dtb /\ StackKept(dtb, tree, stack, lex)
  BY <1>1, Running
<1>3. lex \in Named(dtb, b, name) /\ Has(dtb, b, name)
  BY <1>1, <1>2 DEF Named, Has
<1>4. Seen(dtb, b, name, lex) = {}
  <2>1. Seen(dtb, b, name, lex + 1) = {lex} /\ Seen(dtb, b, name, lex) = {}
    BY <1>1, <1>2, OneSeen
  <2> QED
    BY <2>1
<1>5. Len(stack) - 1 \in 1 .. Len(stack) - 1 /\ Len(stack) \in Nat
  BY <1>1, TopFacts, Running DEF Doing, StackKept
<1> HIDE DEF name
<1>6. ASSUME scan.cpu # NULL, scan.cpu # Len(stack) - 1
      PROVE  b \notin Harts(dtb) /\ ~ Has(dtb, b, "reg")
  <2>1. scan.cpu \in 1 .. Len(stack) - 1 /\ scan.cpu < Len(stack) - 1
    BY <1>5, <1>6 DEF CpuKept, NULL
  <2>2. stack[scan.cpu].begin \in Nodes(dtb)
    BY <1>2, <2>1, LevelFacts
  <2>3. stack[scan.cpu].begin \in Harts(dtb)
    BY <1>2, <2>1, <2>2, CpuIs DEF CpuKept
  <2>4. Holds(dtb, stack[scan.cpu].begin, b)
    BY <1>1, <1>5, <2>1, LevelIn DEF TopNode
  <2> QED
    BY <1>1, <2>3, <2>4 DEF HartsDescribed
<1>7. ASSUME scan.controller # NULL, scan.controller # Len(stack) - 1
      PROVE  ~ Has(dtb, b, "interrupt-controller")
  <2>1. scan.controller \in 1 .. Len(stack) - 1 /\ scan.controller < Len(stack) - 1
    BY <1>5, <1>7 DEF ControllerKept, NULL
  <2>2. stack[scan.controller].begin \in Nodes(dtb)
    BY <1>2, <2>1, LevelFacts
  <2>3. Has(dtb, stack[scan.controller].begin, "interrupt-controller")
    BY <2>1 DEF ControllerKept, ControllerSeen, Seen, Has
  <2>4. Holds(dtb, stack[scan.controller].begin, b)
    BY <1>1, <1>5, <2>1, LevelIn DEF TopNode
  <2> QED
    BY <1>1, <2>2, <2>3, <2>4 DEF HartsDescribed
<1>8. name = "device_type" /\ dtb[lex].value = "cpu" => b \in Harts(dtb)
  BY <1>1, <1>2, <1>3, TypeIs DEF Harts
<1>9. name = "device_type" => scan.cpu # Len(stack) - 1
  <2>1. name = "device_type" => ~ CpuSeen(dtb, b, lex)
    BY <1>4 DEF CpuSeen
  <2> QED
    BY <1>5, <2>1 DEF CpuKept, TopNode
<1>10. name = "interrupt-controller" => scan.controller # Len(stack) - 1
  <2>1. name = "interrupt-controller" => ~ ControllerSeen(dtb, b, lex)
    BY <1>4 DEF ControllerSeen
  <2> QED
    BY <1>5, <2>1 DEF ControllerKept, TopNode
<1> HIDE DEF b
<1>11. name = "device_type" /\ dtb[lex].value = "cpu" => scan.cpu = NULL
  BY <1>6, <1>8, <1>9
<1>12. name = "interrupt-controller" => scan.controller = NULL
  BY <1>3, <1>7, <1>10
<1>13. name = "reg" => scan.cpu \in {NULL, Len(stack) - 1}
  BY <1>3, <1>6
<1> QED
  BY <1>11, <1>12, <1>13 DEF name

\* What hart_prop leaves when it does not fail.
HartPropLeft(s0, s, node, name, value) ==
  LET isCpu == name = "device_type" /\ value = "cpu"
  IN /\ DOMAIN s = HartScan
     /\ s.cpu = IF isCpu THEN node ELSE s0.cpu
     /\ s.controller = IF name = "interrupt-controller" THEN node ELSE s0.controller
     /\ s.cells = IF name = "#interrupt-cells" THEN value[1] ELSE s0.cells
     /\ s.phandle = IF name = "phandle" THEN value[1] ELSE s0.phandle
     /\ s.hart = IF name = "reg" THEN ToInt(GetAddress(node - 1, value)) ELSE s0.hart

\* It does not when no hart and no controller is under way.
LEMMA HartPropFinds ==
  ASSUME NEW c, IsCall(c), DOMAIN c.scan = HartScan, NEW node, NEW prop,
         prop.name = "device_type" /\ prop.value = "cpu" => c.scan.cpu = NULL,
         prop.name = "interrupt-controller" => c.scan.controller = NULL
  PROVE  LET h == hart_prop(c, node, prop)
         IN h.failed = c.failed /\ HartPropLeft(c.scan, h.scan, node, prop.name, prop.value)
<1> DEFINE h == hart_prop(c, node, prop)
<1>1. CASE prop.name = "device_type" /\ prop.value = "cpu"
  BY <1>1 DEF hart_prop, IsCall, CallFields, HartScan, HartPropLeft
<1>2. CASE prop.name = "interrupt-controller"
  BY <1>2 DEF hart_prop, IsCall, CallFields, HartScan, HartPropLeft
<1>3. CASE prop.name = "#interrupt-cells"
  BY <1>3 DEF hart_prop, IsCall, CallFields, HartScan, HartPropLeft
<1>4. CASE prop.name = "phandle"
  BY <1>4 DEF hart_prop, IsCall, CallFields, HartScan, HartPropLeft
<1>5. CASE prop.name = "reg"
  <2> DEFINE x == ToInt(GetAddress(node - 1, prop.value))
  <2>1. h = [c EXCEPT !.scan.hart = x]
    BY <1>5 DEF hart_prop
  <2> HIDE DEF x, h
  <2>2. h.failed = c.failed /\ DOMAIN h.scan = HartScan /\ h.scan.hart = x
        /\ h.scan.cpu = c.scan.cpu /\ h.scan.controller = c.scan.controller
        /\ h.scan.cells = c.scan.cells /\ h.scan.phandle = c.scan.phandle
    BY <2>1 DEF IsCall, CallFields, HartScan
  <2> QED
    BY <1>5, <2>2 DEF HartPropLeft, x, h
<1>6. CASE /\ ~ (prop.name = "device_type" /\ prop.value = "cpu")
           /\ prop.name \notin {"interrupt-controller", "#interrupt-cells", "phandle", "reg"}
  <2>1. h = c
    BY <1>6 DEF hart_prop
  <2> HIDE DEF h
  <2> QED
    BY <1>6, <2>1 DEF HartPropLeft, h
<1> QED
  BY <1>1, <1>2, <1>3, <1>4, <1>5, <1>6

\* query_harts takes down what is read of a node, and no assertion fails.
LEMMA HartsProp ==
  ASSUME \A d \in Dtbs : Whole(d), ScanInv, Prop, pass = 7, DOMAIN scan = HartScan,
         HartsUnderWay, HartsDescribed(dtb)
  PROVE  DOMAIN scan' = HartScan /\ HartsUnderWay' /\ failed' = failed
<1> DEFINE b == TopNode
           name == dtb[lex].name
           value == dtb[lex].value
           top == Len(stack) - 1
<1>1. /\ Scanning /\ dtb[lex].t = "PROP" /\ b \in Nodes(dtb) /\ Own(dtb, b, lex) /\ Doing
      /\ tok.name = name /\ cur = top
      /\ name \notin {"status", "interrupts-extended"} => tok.value = value
      /\ lex' = lex + 1 /\ Becomes(HasProp(Now, cur, tok)) /\ dtb' = dtb
  BY PropIs
<1>2. WellFormed(dtb) /\ lex \in DOMAIN dtb /\ Len(stack) \in Nat /\ top \in 1 .. top
  BY <1>1, Running, TopFacts DEF Doing, StackKept
<1>3. \A n : IF n = name
             THEN /\ Seen(dtb, b, n, lex') = {lex} /\ Seen(dtb, b, n, lex) = {}
                  /\ Value(dtb, b, n) = value
             ELSE Seen(dtb, b, n, lex') = Seen(dtb, b, n, lex)
  BY <1>1, <1>2, OneSeen
<1>4. \A k \in 1 .. top : k # top => SameSeen(k, lex, lex')
  BY LevelsSeen
<1>5. Len(stack') = Len(stack) /\ \A k \in 1 .. top : stack'[k].begin = stack[k].begin
  BY <1>2, PropStack
<1>6. TopNode' = b /\ Doing' = Doing /\ stack'[top].begin = stack[top].begin /\ stack[top].begin = b
  BY <1>2, <1>5, HandledSame, <1>1 DEF TopNode
<1> DEFINE c == Now
<1>7. IsCall(c) /\ c.scan = scan /\ c.failed = failed
  BY DEF IsCall, CallFields, Now
<1> HIDE DEF c
<1>8. /\ name = "device_type" /\ value = "cpu" => scan.cpu = NULL
      /\ name = "interrupt-controller" => scan.controller = NULL
      /\ name = "reg" => scan.cpu \in {NULL, top}
  BY NoneInside DEF HartsUnderWay
<1>9. failed' = failed /\ HartPropLeft(scan, scan', cur, name, tok.value)
  <2>1. Passes[pass] = "harts"
    BY DEF Passes
  <2>2. HasProp(c, cur, tok) = hart_prop(c, cur, tok)
    BY <2>1 DEF HasProp, Compats
  <2>3. LET h == hart_prop(c, cur, tok)
        IN h.failed = c.failed /\ HartPropLeft(c.scan, h.scan, cur, tok.name, tok.value)
    BY <1>1, <1>7, <1>8, HartPropFinds
  <2> QED
    BY <1>1, <1>7, <2>2, <2>3 DEF Becomes, c
<1>10. name = "reg" => ToInt(GetAddress(cur - 1, tok.value)) = HartOfReg(dtb, b)
  BY RegRead DEF HartOfReg
<1> DEFINE isCpu == name = "device_type" /\ value = "cpu"
<1>11. /\ DOMAIN scan' = HartScan
       /\ scan'.cpu = IF isCpu THEN top ELSE scan.cpu
       /\ scan'.controller = IF name = "interrupt-controller" THEN top ELSE scan.controller
       /\ scan'.cells = IF name = "#interrupt-cells" THEN value[1] ELSE scan.cells
       /\ scan'.phandle = IF name = "phandle" THEN value[1] ELSE scan.phandle
       /\ scan'.hart = IF name = "reg" THEN HartOfReg(dtb, b) ELSE scan.hart
  BY <1>1, <1>9, <1>10 DEF HartPropLeft
<1>12. scan.cpu \in 0 .. top /\ scan.controller \in 0 .. top
  BY DEF HartsUnderWay, CpuKept, ControllerKept
<1> HIDE DEF b, name, value, top
<1>13. CpuSeen(dtb, b, lex') <=> isCpu \/ CpuSeen(dtb, b, lex)
  <2>1. CASE name = "device_type"
    BY <1>3, <2>1 DEF CpuSeen, value
  <2>2. CASE name # "device_type"
    BY <1>3, <2>2 DEF CpuSeen
  <2> QED
    BY <2>1, <2>2
<1>14. CpuKept'
  <2>1. scan'.cpu \in 0 .. Len(stack') - 1
    BY <1>2, <1>5, <1>11, <1>12 DEF top
  <2>2. ASSUME NEW k \in 1 .. Len(stack') - 1
        PROVE  k = scan'.cpu <=> CpuSeen(dtb', stack'[k].begin, lex')
    <3>1. k \in 1 .. top /\ (k = scan.cpu <=> CpuSeen(dtb, stack[k].begin, lex))
      BY <1>5 DEF HartsUnderWay, CpuKept, top
    <3>2. CASE k = top
      <4>1. CpuSeen(dtb', stack'[k].begin, lex') <=> isCpu \/ CpuSeen(dtb, stack[k].begin, lex)
        BY <1>1, <1>6, <1>13, <3>2
      <4> QED
        BY <1>11, <3>1, <3>2, <4>1
    <3>3. CASE k # top
      <4>1. CpuSeen(dtb', stack'[k].begin, lex') <=> CpuSeen(dtb, stack[k].begin, lex)
        <5>1. SameSeen(k, lex, lex') /\ stack'[k].begin = stack[k].begin
          BY <1>4, <1>5, <3>1, <3>3
        <5> QED
          BY <1>1, <5>1 DEF SameSeen, CpuSeen
      <4>2. k # NULL
        BY <3>1 DEF NULL
      <4> QED
        BY <1>8, <1>11, <3>1, <3>3, <4>1, <4>2
    <3> QED
      BY <3>2, <3>3
  <2> QED
    BY <2>1, <2>2 DEF CpuKept
<1>15. ControllerSeen(dtb, b, lex')
         <=> name = "interrupt-controller" \/ ControllerSeen(dtb, b, lex)
  BY <1>3 DEF ControllerSeen
<1>16. ControllerKept'
  <2>1. scan'.controller \in 0 .. Len(stack') - 1
    BY <1>2, <1>5, <1>11, <1>12 DEF top
  <2>2. ASSUME NEW k \in 1 .. Len(stack') - 1
        PROVE  k = scan'.controller <=> ControllerSeen(dtb', stack'[k].begin, lex')
    <3>1. k \in 1 .. top /\ (k = scan.controller <=> ControllerSeen(dtb, stack[k].begin, lex))
      BY <1>5 DEF HartsUnderWay, ControllerKept, top
    <3>2. CASE k = top
      <4>1. ControllerSeen(dtb', stack'[k].begin, lex')
              <=> name = "interrupt-controller" \/ ControllerSeen(dtb, stack[k].begin, lex)
        BY <1>1, <1>6, <1>15, <3>2
      <4> QED
        BY <1>11, <3>1, <3>2, <4>1
    <3>3. CASE k # top
      <4>1. ControllerSeen(dtb', stack'[k].begin, lex')
              <=> ControllerSeen(dtb, stack[k].begin, lex)
        <5>1. SameSeen(k, lex, lex') /\ stack'[k].begin = stack[k].begin
          BY <1>4, <1>5, <3>1, <3>3
        <5> QED
          BY <1>1, <5>1 DEF SameSeen, ControllerSeen
      <4>2. k # NULL
        BY <3>1 DEF NULL
      <4> QED
        BY <1>8, <1>11, <3>1, <3>3, <4>1, <4>2
    <3> QED
      BY <3>2, <3>3
  <2> QED
    BY <2>1, <2>2 DEF ControllerKept
<1>17. NumberKept'
  <2> DEFINE node == HartNode
  <2>1. scan.hart = IF Seen(dtb, node, "reg", lex) = {} THEN -1 ELSE HartOfReg(dtb, node)
    BY <1>1 DEF HartsUnderWay, NumberKept
  <2>2. HartNode' = node
    <3>1. CASE isCpu
      <4>1. scan.cpu = NULL /\ scan'.cpu = top /\ top # NULL
        BY <1>2, <1>8, <1>11, <3>1 DEF NULL
      <4>2. HartNode = stack[top].begin /\ HartNode' = stack'[top].begin
        BY <4>1 DEF HartNode, top
      <4> QED
        BY <1>6, <4>2
    <3>2. CASE ~ isCpu
      <4>1. scan'.cpu = scan.cpu
        BY <1>11, <3>2
      <4>2. scan.cpu # NULL => scan.cpu \in 1 .. top
        BY <1>12 DEF NULL
      <4> QED
        BY <1>2, <1>5, <4>1, <4>2 DEF HartNode, top
    <3> QED
      BY <3>1, <3>2
  <2>3. CASE name = "reg"
    <3>1. node = b
      BY <1>6, <1>8, <2>3 DEF HartNode, top
    <3>2. Seen(dtb, b, "reg", lex') # {}
      BY <1>3, <2>3
    <3> QED
      BY <1>1, <1>11, <2>2, <2>3, <3>1, <3>2 DEF NumberKept
  <2>4. CASE name # "reg"
    <3>1. Seen(dtb, node, "reg", lex') = Seen(dtb, node, "reg", lex)
      <4>1. CASE node = b
        BY <1>3, <2>4, <4>1
      <4>2. CASE node # b
        <5>1. scan.cpu \in 1 .. top /\ scan.cpu # top /\ node = stack[scan.cpu].begin
          BY <1>6, <1>12, <4>2 DEF HartNode, NULL, top
        <5>2. SameSeen(scan.cpu, lex, lex')
          BY <1>4, <5>1
        <5> QED
          BY <5>1, <5>2 DEF SameSeen
      <4> QED
        BY <4>1, <4>2
    <3> HIDE DEF node
    <3> QED
      BY <1>1, <1>11, <2>1, <2>2, <2>4, <3>1 DEF NumberKept
  <2> QED
    BY <2>3, <2>4
<1>18. PhandleKept'
  <2> SUFFICES ASSUME scan'.controller \in {NULL, top}
               PROVE  /\ scan'.cells = IF Seen(dtb, b, "#interrupt-cells", lex') = {} THEN 0
                                       ELSE Value(dtb, b, "#interrupt-cells")[1]
                      /\ scan'.phandle = IF Seen(dtb, b, "phandle", lex') = {} THEN 0
                                         ELSE Value(dtb, b, "phandle")[1]
    BY <1>1, <1>5, <1>6 DEF PhandleKept, top
  <2>1. scan.controller \in {NULL, top}
    BY <1>8, <1>11
  <2>2. /\ scan.cells = IF Seen(dtb, b, "#interrupt-cells", lex) = {} THEN 0
                        ELSE Value(dtb, b, "#interrupt-cells")[1]
        /\ scan.phandle = IF Seen(dtb, b, "phandle", lex) = {} THEN 0
                          ELSE Value(dtb, b, "phandle")[1]
    BY <1>1, <2>1 DEF HartsUnderWay, PhandleKept, top, b
  <2>3. scan'.cells = IF Seen(dtb, b, "#interrupt-cells", lex') = {} THEN 0
                      ELSE Value(dtb, b, "#interrupt-cells")[1]
    BY <1>3, <1>11, <2>2
  <2>4. scan'.phandle = IF Seen(dtb, b, "phandle", lex') = {} THEN 0
                        ELSE Value(dtb, b, "phandle")[1]
    BY <1>3, <1>11, <2>2
  <2> QED
    BY <2>3, <2>4
<1> QED
  BY <1>9, <1>11, <1>14, <1>16, <1>17, <1>18 DEF HartsUnderWay

\* A node that is the controller of no hart with a number changes nothing.
LEMMA HartsSame ==
  ASSUME NEW d, NEW f, NEW B, HartsKnown(f, d, B), NEW b,
         \A h \in Harts(d) : ControllerOf(d, h) = b => ~ (Address(d, h) < MAX_HARTS)
  PROVE  HartsKnown(f, d, B \cup {b})
<1>1. Known(d, B \cup {b}) = Known(d, B)
  BY DEF Known
<1> QED
  BY <1>1 DEF HartsKnown

\* The controller of one that has adds it.
LEMMA HartsAdd ==
  ASSUME NEW d, HartsDescribed(d), NEW f, NEW B, HartsKnown(f, d, B), NEW h \in Harts(d),
         Address(d, h) < MAX_HARTS, NEW f2,
         f2.hart_mask = f.hart_mask \cup {Address(d, h)},
         f2.hart_phandles = [f.hart_phandles EXCEPT ![Address(d, h)] = PhandleOf(d, h)]
  PROVE  HartsKnown(f2, d, B \cup {ControllerOf(d, h)})
<1> DEFINE a == Address(d, h)
           b == ControllerOf(d, h)
           p == PhandleOf(d, h)
<1>1. a \in Hart
  <2>1. a \in Nat /\ MAX_HARTS \in Nat
    BY HartNumber, FdtAssumption
  <2> QED
    BY <2>1 DEF Hart
<1>2. \A g \in Harts(d) : ControllerOf(d, g) = b => g = h
  BY DEF HartsDescribed, PhandleOf
<1>3. \A g \in Harts(d) : Address(d, g) = a => g = h
  BY DEF HartsDescribed
<1>4. Known(d, B \cup {b}) = Known(d, B) \cup {h}
  BY <1>2 DEF Known
<1>5. DOMAIN f.hart_phandles = Hart
  BY DEF HartsKnown
<1>6. {Address(d, g) : g \in Known(d, B \cup {b})} = {Address(d, g) : g \in Known(d, B)} \cup {a}
  BY <1>4
<1> HIDE DEF a, b, p
<1>7. f2.hart_mask = {Address(d, g) : g \in Known(d, B \cup {b})}
  BY <1>6 DEF HartsKnown, a
<1>8. /\ DOMAIN f2.hart_phandles = Hart /\ f2.hart_phandles[a] = p
      /\ \A x \in Hart : x # a => f2.hart_phandles[x] = f.hart_phandles[x]
  BY <1>1, <1>5 DEF a, p
<1>9. \A x \in Hart \ f2.hart_mask : f2.hart_phandles[x] = 0
  BY <1>8 DEF HartsKnown, a
<1>10. ASSUME NEW g \in Known(d, B \cup {b})
       PROVE  f2.hart_phandles[Address(d, g)] = PhandleOf(d, g)
  <2>1. CASE g = h
    BY <1>8, <2>1 DEF a, p
  <2>2. CASE g # h
    <3>1. g \in Known(d, B) /\ g \in Harts(d) /\ Address(d, g) < MAX_HARTS
      BY <1>4, <2>2 DEF Known
    <3>2. Address(d, g) \in Hart
      <4>1. Address(d, g) \in Nat /\ MAX_HARTS \in Nat
        BY <3>1, HartNumber, FdtAssumption
      <4> QED
        BY <3>1, <4>1 DEF Hart
    <3>3. Address(d, g) # a
      BY <1>3, <2>2, <3>1
    <3> QED
      BY <1>8, <3>1, <3>2, <3>3 DEF HartsKnown
  <2> QED
    BY <2>1, <2>2
<1> QED
  BY <1>7, <1>8, <1>9, <1>10 DEF HartsKnown, b

\* What hart_done leaves when it does not fail: the locals, and the hart if the node
\* is its controller.
LEMMA HartDoneFinds ==
  ASSUME NEW c, IsCall(c), DOMAIN c.found = FoundFields, NEW node,
         c.scan.cpu = node => ~ (c.scan.hart < 0),
         c.scan.controller = node /\ c.scan.cpu # NULL => c.scan.phandle # 0 /\ c.scan.cells = 1
  PROVE  LET h == hart_done(c, node)
         IN /\ h.failed = c.failed /\ h.scan = c.scan
            /\ IF c.scan.controller # node \/ c.scan.cpu = NULL \/ c.scan.hart >= MAX_HARTS
               THEN h.found = c.found
               ELSE /\ h.found.hart_mask = c.found.hart_mask \cup {c.scan.hart}
                    /\ h.found.hart_phandles =
                         [c.found.hart_phandles EXCEPT ![c.scan.hart] = c.scan.phandle]
<1> DEFINE h == hart_done(c, node)
           x == c.scan.hart
           p == c.scan.phandle
<1>1. CASE c.scan.controller # node \/ c.scan.cpu = NULL
  <2>1. h = c
    BY <1>1, Zenon DEF hart_done
  <2> QED
    BY <1>1, <2>1
<1>2. CASE ~ (c.scan.controller # node \/ c.scan.cpu = NULL) /\ x >= MAX_HARTS
  <2>1. h = c
    BY <1>2, Zenon DEF hart_done
  <2> QED
    BY <1>2, <2>1
<1>3. CASE ~ (c.scan.controller # node \/ c.scan.cpu = NULL) /\ ~ (x >= MAX_HARTS)
  <2> DEFINE phandles == [c.found.hart_phandles EXCEPT ![x] = p]
             mask == c.found.hart_mask \cup {x}
             ipi == [c.found.ipi EXCEPT ![x] = NULL]
             wires_m == [c.found.plic_m EXCEPT ![x] = NULL]
             wires_s == [c.found.plic_s EXCEPT ![x] = NULL]
             r == [c EXCEPT !.found = [c.found EXCEPT !.hart_phandles = phandles,
                                                      !.hart_mask = mask, !.ipi = ipi,
                                                      !.plic_m = wires_m, !.plic_s = wires_s]]
  <2>1. h = [c EXCEPT !.found.hart_phandles[x] = p,
                      !.found.hart_mask = @ \cup {x},
                      !.found.ipi[x] = NULL,
                      !.found.plic_m[x] = NULL,
                      !.found.plic_s[x] = NULL]
    BY <1>3, Zenon DEF hart_done
  <2> HIDE DEF h, x, p
  <2>2. h = r
    BY <2>1 DEF IsCall, CallFields, FoundFields
  <2> HIDE DEF phandles, mask, ipi, wires_m, wires_s
  <2>3. /\ r.failed = c.failed /\ r.scan = c.scan
        /\ r.found.hart_mask = mask /\ r.found.hart_phandles = phandles
    BY DEF IsCall, CallFields, FoundFields
  <2> QED
    BY <1>3, <2>2, <2>3 DEF mask, phandles, h, x, p
<1> QED
  BY <1>1, <1>2, <1>3

\* done finds the hart whose controller the node is, and no assertion fails.
LEMMA HartFound ==
  ASSUME ScanInv, Scanning, pass = 7, Doing, dtb[lex].t \in {"BEGIN_NODE", "END_NODE"},
         DOMAIN scan = HartScan, HartsUnderWay, HartsDescribed(dtb),
         DOMAIN found = FoundFields, HartsKnown(found, dtb, HandledNodes)
  PROVE  /\ Done(Now, cur).failed = failed /\ Done(Now, cur).scan = scan
         /\ HartsKnown(Done(Now, cur).found, dtb, HandledNodes \cup {TopNode})
<1> DEFINE b == TopNode
           top == Len(stack) - 1
           c == Now
           h == hart_done(c, cur)
<1>1. /\ WellFormed(dtb) /\ lex \in DOMAIN dtb /\ b \in Nodes(dtb) /\ b < lex /\ b = stack[top].begin
      /\ Holds(dtb, b, lex) /\ top \in 1 .. top /\ StackKept(dtb, tree, stack, lex)
      /\ lex \in Nat \ {0}
  BY Running, TopFacts DEF Doing, TopNode
<1>2. cur = top
  BY DEF cur, level
<1>3. Done(c, cur) = h
  <2>1. Passes[pass] = "harts"
    BY DEF Passes
  <2> QED
    BY <2>1 DEF Done, Queries
<1>4. IsCall(c) /\ c.scan = scan /\ c.found = found /\ c.failed = failed
  BY DEF IsCall, CallFields, Now
<1> HIDE DEF c
<1>5. ASSUME scan.cpu # NULL
      PROVE  LET g == stack[scan.cpu].begin
             IN /\ scan.cpu \in 1 .. top /\ g \in Harts(dtb) /\ (g = b \/ Holds(dtb, g, b))
                /\ scan.hart = Address(dtb, g) /\ scan.hart \in Nat
  <2> DEFINE g == stack[scan.cpu].begin
  <2>1. scan.cpu \in 1 .. top
    BY <1>5 DEF HartsUnderWay, CpuKept, NULL
  <2>2. g \in Nodes(dtb) /\ g < lex
    BY <1>1, <2>1, LevelFacts
  <2>3. g \in Harts(dtb)
    BY <1>1, <2>1, <2>2, CpuIs DEF HartsUnderWay, CpuKept
  <2>4. g = b \/ Holds(dtb, g, b)
    <3>1. CASE scan.cpu = top
      BY <1>1, <3>1
    <3>2. CASE scan.cpu # top
      <4>1. scan.cpu < top
        BY <1>1, <2>1, <3>2
      <4> QED
        BY <1>1, <2>1, <4>1, LevelIn
    <3> QED
      BY <3>1, <3>2
  <2>5. scan.hart = Address(dtb, g)
    <3>1. Seen(dtb, g, "reg", lex) = Named(dtb, g, "reg")
      BY <1>1, <2>2, AllSeen
    <3>2. Named(dtb, g, "reg") # {}
      BY <2>3 DEF HartsDescribed, OfCells, Has
    <3>3. HartNode = g
      BY <1>5 DEF HartNode
    <3>4. scan.hart = HartOfReg(dtb, g)
      BY <1>5, <3>1, <3>2, <3>3 DEF HartsUnderWay, NumberKept
    <3> QED
      BY <2>3, <3>4, HartNumber
  <2>6. Address(dtb, g) \in Nat
    BY <2>3, HartNumber
  <2> QED
    BY <2>1, <2>3, <2>4, <2>5, <2>6
<1>6. scan.controller = top <=> Has(dtb, b, "interrupt-controller")
  <2>1. Seen(dtb, b, "interrupt-controller", lex) = Named(dtb, b, "interrupt-controller")
    BY <1>1, AllSeen
  <2> QED
    BY <1>1, <2>1 DEF HartsUnderWay, ControllerKept, ControllerSeen, Has
<1>7. \A g \in Harts(dtb) :
        LET k == ControllerOf(dtb, g)
        IN k \in Nodes(dtb) /\ (k = g \/ Holds(dtb, g, k)) /\ Has(dtb, k, "interrupt-controller")
  <2> TAKE g \in Harts(dtb)
  <2>1. PICK k \in Nodes(dtb) : ControllersIn(dtb, g) = {k}
    BY DEF HartsDescribed
  <2>2. ControllerOf(dtb, g) \in ControllersIn(dtb, g)
    BY <2>1 DEF ControllerOf
  <2> QED
    BY <2>2 DEF ControllersIn
<1>8. CASE scan.controller # top \/ scan.cpu = NULL
  <2>1. \A g \in Harts(dtb) : ControllerOf(dtb, g) # b
    <3> SUFFICES ASSUME NEW g \in Harts(dtb), ControllerOf(dtb, g) = b
                 PROVE  FALSE
      OBVIOUS
    <3>1. scan.cpu = NULL /\ (b = g \/ Holds(dtb, g, b))
      BY <1>6, <1>7, <1>8
    <3>2. g \in Nodes(dtb) /\ g \in Nat \ {0} /\ b \in Nat \ {0}
      BY <1>1, NodeFacts DEF Harts, OfType
    <3>3. Holds(dtb, g, lex)
      BY <1>1, <3>1, <3>2, HoldsThrough
    <3>4. tree[g].t = "BEGIN_NODE"
      BY <3>2 DEF ScanInv
    <3>5. PICK k \in 1 .. Len(stack) - 1 : g = stack[k].begin
      BY <1>1, <3>2, <3>3, <3>4 DEF StackKept
    <3>6. g < lex
      BY <3>3 DEF Holds
    <3>7. CpuSeen(dtb, g, lex)
      BY <1>1, <3>2, <3>6, CpuKnown
    <3>8. k = scan.cpu
      BY <3>5, <3>7 DEF HartsUnderWay, CpuKept
    <3> QED
      BY <3>1, <3>8 DEF NULL
  <2>2. h.failed = c.failed /\ h.scan = c.scan /\ h.found = c.found
    <3>1. c.scan.cpu = cur => ~ (c.scan.hart < 0)
      <4> SUFFICES ASSUME scan.cpu = cur
                   PROVE  ~ (scan.hart < 0)
        BY <1>4
      <4>1. scan.hart \in Nat
        BY <1>1, <1>2, <1>5 DEF NULL
      <4> QED
        BY <4>1
    <3>2. c.scan.controller = cur /\ c.scan.cpu # NULL => c.scan.phandle # 0 /\ c.scan.cells = 1
      BY <1>2, <1>4, <1>8
    <3>3. c.scan.controller # cur \/ c.scan.cpu = NULL
      BY <1>2, <1>4, <1>8
    <3>4. DOMAIN c.found = FoundFields
      BY <1>4
    <3>5. /\ h.failed = c.failed /\ h.scan = c.scan
          /\ IF c.scan.controller # cur \/ c.scan.cpu = NULL \/ c.scan.hart >= MAX_HARTS
             THEN h.found = c.found
             ELSE /\ h.found.hart_mask = c.found.hart_mask \cup {c.scan.hart}
                  /\ h.found.hart_phandles =
                       [c.found.hart_phandles EXCEPT ![c.scan.hart] = c.scan.phandle]
      BY <1>4, <3>1, <3>2, <3>4, HartDoneFinds
    <3> QED
      BY <3>3, <3>5
  <2>3. HartsKnown(found, dtb, HandledNodes \cup {b})
    BY <2>1, HartsSame
  <2> QED
    BY <1>3, <1>4, <2>2, <2>3 DEF c
<1>9. CASE scan.controller = top /\ scan.cpu # NULL
  <2> DEFINE g == stack[scan.cpu].begin
  <2>1. /\ g \in Harts(dtb) /\ (g = b \/ Holds(dtb, g, b))
        /\ scan.hart = Address(dtb, g) /\ scan.hart \in Nat
    BY <1>5, <1>9
  <2> HIDE DEF g
  <2>2. b = ControllerOf(dtb, g)
    <3>1. b \in ControllersIn(dtb, g)
      BY <1>1, <1>6, <1>9, <2>1 DEF ControllersIn
    <3>2. PICK k \in Nodes(dtb) : ControllersIn(dtb, g) = {k}
      BY <2>1 DEF HartsDescribed
    <3> QED
      BY <3>1, <3>2 DEF ControllerOf
  <2>3. scan.phandle = PhandleOf(dtb, g) /\ scan.phandle # 0 /\ scan.cells = 1
    <3>1. /\ Has(dtb, b, "phandle") /\ PhandleOf(dtb, g) # 0
          /\ Has(dtb, b, "#interrupt-cells") /\ Value(dtb, b, "#interrupt-cells")[1] = 1
      BY <2>1, <2>2 DEF HartsDescribed
    <3>2. \A n : Seen(dtb, b, n, lex) = Named(dtb, b, n)
      BY <1>1, AllSeen
    <3>3. /\ scan.cells = Value(dtb, b, "#interrupt-cells")[1]
          /\ scan.phandle = Value(dtb, b, "phandle")[1]
      BY <1>9, <3>1, <3>2 DEF HartsUnderWay, PhandleKept, Has
    <3> QED
      BY <2>2, <3>1, <3>3 DEF PhandleOf
  <2>4. /\ h.failed = c.failed /\ h.scan = c.scan
        /\ IF scan.hart >= MAX_HARTS
           THEN h.found = c.found
           ELSE /\ h.found.hart_mask = c.found.hart_mask \cup {scan.hart}
                /\ h.found.hart_phandles =
                     [c.found.hart_phandles EXCEPT ![scan.hart] = scan.phandle]
    <3>1. c.scan.cpu = cur => ~ (c.scan.hart < 0)
      <4>1. ~ (scan.hart < 0)
        BY <2>1
      <4> QED
        BY <1>4, <4>1
    <3>2. c.scan.controller = cur /\ c.scan.cpu # NULL => c.scan.phandle # 0 /\ c.scan.cells = 1
      BY <1>4, <2>3
    <3> QED
      BY <1>2, <1>4, <1>9, <3>1, <3>2, HartDoneFinds
  <2>5. HartsKnown(h.found, dtb, HandledNodes \cup {b})
    <3>1. CASE scan.hart >= MAX_HARTS
      <4>1. \A a \in Harts(dtb) : ControllerOf(dtb, a) = b => a = g
        BY <2>1, <2>2 DEF HartsDescribed, PhandleOf
      <4>2. ~ (Address(dtb, g) < MAX_HARTS)
        BY <2>1, <3>1, FdtAssumption
      <4>3. HartsKnown(found, dtb, HandledNodes \cup {b})
        BY <4>1, <4>2, HartsSame
      <4> QED
        BY <1>4, <2>4, <3>1, <4>3
    <3>2. CASE ~ (scan.hart >= MAX_HARTS)
      <4>1. Address(dtb, g) < MAX_HARTS
        BY <2>1, <3>2, FdtAssumption
      <4> HIDE DEF b, h
      <4> QED
        BY <1>4, <2>1, <2>2, <2>3, <2>4, <3>2, <4>1, HartsAdd
    <3> QED
      BY <3>1, <3>2
  <2> QED
    BY <1>3, <1>4, <2>4, <2>5 DEF c
<1> QED
  BY <1>8, <1>9

\* query_harts has of the nodes it is past the harts whose controllers they are.
LEMMA HartsStep ==
  ASSUME \A d \in Dtbs : Whole(d), ScanInv, DOMAIN found = FoundFields, ~ failed, HartsFoundInv,
         HartsDescribed(dtb), Next
  PROVE  HartsFoundInv' /\ (pass = 7 => ~ failed')
<1>1. dtb' = dtb
  BY DtbStays
<1>2. CASE pass # 7
  <2>1. HartsKnown(found, dtb, Upto(7)) /\ Upto(7)' = Upto(7)
    BY <1>2, UptoStays DEF HartsFoundInv
  <2>2. found'.hart_mask = found.hart_mask /\ found'.hart_phandles = found.hart_phandles
    BY <1>2, MachineStays DEF LeftMachine
  <2>3. HartsKnown(found', dtb', Upto(7)')
    BY <1>1, <2>1, <2>2 DEF HartsKnown
  <2>4. pass' = 7 => DOMAIN scan' = HartScan /\ HartsUnderWay'
    <3> SUFFICES ASSUME pass' = 7
                 PROVE  DOMAIN scan' = HartScan /\ HartsUnderWay'
      OBVIOUS
    <3>1. scan' = NewScan(Passes[7]) /\ ~ Doing' /\ Len(stack') = 1
      BY <1>2, Starts
    <3>2. Passes[7] = "harts"
      BY DEF Passes
    <3>3. NewScan("harts") = [cpu |-> NULL, hart |-> 0, controller |-> NULL,
                              cells |-> 0, phandle |-> 0]
      BY DEF NewScan, Queries, Compats
    <3>4. DOMAIN scan' = HartScan /\ scan'.cpu = 0 /\ scan'.controller = 0
      BY <3>1, <3>2, <3>3 DEF HartScan, NULL
    <3>5. CpuKept' /\ ControllerKept'
      <4>1. 1 .. Len(stack') - 1 = {} /\ 0 \in 0 .. Len(stack') - 1
        BY <3>1
      <4> QED
        BY <3>4, <4>1 DEF CpuKept, ControllerKept
    <3>6. NumberKept' /\ PhandleKept'
      BY <3>1, <3>4 DEF NumberKept, PhandleKept, NULL
    <3> QED
      BY <3>4, <3>5, <3>6 DEF HartsUnderWay
  <2> QED
    BY <1>2, <2>3, <2>4 DEF HartsFoundInv, HartsUnderWay
<1>3. CASE pass = 7
  <2>1. HartsKnown(found, dtb, HandledNodes) /\ DOMAIN scan = HartScan /\ HartsUnderWay
    BY <1>3 DEF HartsFoundInv, HartsUnderWay, Upto
  <2>2. Scanning
    BY DEF Next, Nop, Prop, BeginNode, EndNode, EndScan
  <2>3. /\ WellFormed(dtb) /\ lex \in DOMAIN dtb /\ StackKept(dtb, tree, stack, lex)
        /\ Len(stack) \in Nat \ {0}
    BY <2>2, Running DEF StackKept
  <2>4. ASSUME pass' = 7, HartsKnown(found', dtb, HandledNodes'),
               DOMAIN scan' = HartScan, HartsUnderWay', ~ failed'
        PROVE  HartsFoundInv' /\ ~ failed'
    BY <1>1, <2>4 DEF HartsFoundInv, HartsUnderWay, Upto
  <2>5. ASSUME dtb[lex].t \in {"BEGIN_NODE", "END_NODE"}
        PROVE  /\ ~ DoneOnce(Now).failed /\ DoneOnce(Now).scan = scan
               /\ HartsKnown(DoneOnce(Now).found, dtb,
                             HandledNodes \cup (IF Doing THEN {TopNode} ELSE {}))
    <3>1. CASE Doing
      <4>1. DoneOnce(Now) = Done(Now, cur)
        BY <2>2, <3>1, DoneIs
      <4> QED
        BY <1>3, <2>1, <2>2, <2>5, <3>1, <4>1, HartFound
    <3>2. CASE ~ Doing
      <4>1. DoneOnce(Now) = Now /\ Now.found = found /\ Now.failed = failed /\ Now.scan = scan
        BY <2>2, <3>2, DoneIs DEF Now
      <4>2. HandledNodes \cup {} = HandledNodes
        OBVIOUS
      <4> QED
        BY <2>1, <3>2, <4>1, <4>2
    <3> QED
      BY <3>1, <3>2
  <2>6. CASE Nop
    <3>1. Doing' = Doing /\ (Doing => TopNode' = TopNode) /\ HandledNodes' = HandledNodes
      BY <1>3, <2>6, HandledSame
    <3>2. UNCHANGED <<pass, scan, found, failed, stack>>
      BY <2>6 DEF Nop
    <3>3. \A k \in 1 .. Len(stack) - 1 : SameSeen(k, lex, lex')
      <4>1. ~ Prop
        BY <2>6 DEF Nop, Prop
      <4> QED
        BY <2>6, <4>1, LevelsSeen
    <3>4. CpuKept' /\ ControllerKept'
      BY <1>1, <2>1, <3>2, <3>3 DEF HartsUnderWay, CpuKept, ControllerKept, SameSeen, CpuSeen,
                                    ControllerSeen
    <3>5. NumberKept'
      <4> SUFFICES ASSUME Doing \/ scan.cpu # NULL
                   PROVE  scan.hart = IF Seen(dtb, HartNode, "reg", lex') = {} THEN -1
                                      ELSE HartOfReg(dtb, HartNode)
        BY <1>1, <3>1, <3>2 DEF NumberKept, HartNode
      <4>1. PICK k \in 1 .. Len(stack) - 1 : HartNode = stack[k].begin
        <5>1. CASE scan.cpu # NULL
          BY <2>1, <5>1 DEF HartsUnderWay, CpuKept, HartNode, NULL
        <5>2. CASE scan.cpu = NULL
          BY <2>2, <5>2, TopFacts DEF HartNode, Doing
        <5> QED
          BY <5>1, <5>2
      <4>2. Seen(dtb, HartNode, "reg", lex') = Seen(dtb, HartNode, "reg", lex)
        BY <3>3, <4>1 DEF SameSeen
      <4> QED
        BY <2>1, <4>2 DEF HartsUnderWay, NumberKept
    <3>6. PhandleKept'
      <4>1. Doing => \A n : Seen(dtb, TopNode, n, lex') = Seen(dtb, TopNode, n, lex)
        BY <2>2, <3>3, TopFacts DEF SameSeen, Doing, TopNode
      <4> QED
        BY <1>1, <2>1, <3>1, <3>2, <4>1 DEF HartsUnderWay, PhandleKept
    <3> QED
      BY <1>3, <2>1, <2>4, <3>1, <3>2, <3>4, <3>5, <3>6 DEF HartsUnderWay
  <2>7. CASE Prop
    <3>1. HandledNodes' = HandledNodes
      BY <1>3, <2>7, HandledSame
    <3>2. pass' = pass /\ found' = found
      BY <1>3, <2>7, PropIs, QuietFinds
    <3>3. DOMAIN scan' = HartScan /\ HartsUnderWay' /\ failed' = failed
      BY <1>3, <2>1, <2>7, HartsProp
    <3> QED
      BY <1>3, <2>1, <2>4, <3>1, <3>2, <3>3
  <2>8. CASE BeginNode
    <3>1. /\ Doing' /\ TopNode' = lex /\ lex \in Nodes(dtb)
          /\ HandledNodes' = HandledNodes \cup (IF Doing THEN {TopNode} ELSE {})
      BY <1>3, <2>8, HandledBegin
    <3>2. pass' = pass /\ lex' = lex + 1
      BY <2>8 DEF BeginNode
    <3>3. dtb[lex].t = "BEGIN_NODE"
      BY <3>1 DEF Nodes
    <3>4. /\ found' = DoneOnce(Now).found /\ failed' = DoneOnce(Now).failed
          /\ scan' = Open(DoneOnce(Now), level, tok.name).scan
      BY <2>8, BeginFinds
    <3>5. ~ DoneOnce(Now).failed /\ DoneOnce(Now).scan = scan
          /\ HartsKnown(DoneOnce(Now).found, dtb, HandledNodes')
      BY <2>5, <3>1, <3>3
    <3>6. /\ DOMAIN scan' = HartScan /\ scan'.cpu = scan.cpu /\ scan'.controller = scan.controller
          /\ scan'.hart = IF scan.cpu = NULL THEN -1 ELSE scan.hart
          /\ scan.controller = NULL => scan'.cells = 0 /\ scan'.phandle = 0
      <4> DEFINE c == DoneOnce(Now)
      <4>1. IsCall(c) /\ c.scan = scan
        BY <2>2, <3>5, DoneCall
      <4>2. Passes[pass] = "harts"
        BY <1>3 DEF Passes
      <4> HIDE DEF c
      <4>3. Open(c, level, tok.name) = hart_open(c, level)
        BY <4>2 DEF Open, Queries, Compats
      <4>4. scan' = hart_open(c, level).scan
        BY <3>4, <4>3 DEF c
      <4> QED
        BY <2>1, <4>1, <4>4 DEF hart_open, IsCall, CallFields, HartScan
    <3>7. /\ Len(stack') = Len(stack) + 1 /\ stack'[Len(stack)].begin = lex
          /\ \A k \in 1 .. Len(stack) - 1 : stack'[k].begin = stack[k].begin
      BY <2>8, BeginStack
    <3>8. \A k \in 1 .. Len(stack) - 1 : SameSeen(k, lex, lex')
      <4>1. ~ Prop
        BY <2>8 DEF BeginNode, Prop
      <4> QED
        BY <2>8, <4>1, LevelsSeen
    <3>9. \A n : Seen(dtb, lex, n, lex') = {}
      BY <2>3, <3>1, <3>2, NoneSeen
    <3>10. CpuKept'
      <4>1. scan'.cpu \in 0 .. Len(stack') - 1
        BY <2>1, <2>3, <3>6, <3>7 DEF HartsUnderWay, CpuKept
      <4>2. ASSUME NEW k \in 1 .. Len(stack') - 1
            PROVE  k = scan'.cpu <=> CpuSeen(dtb', stack'[k].begin, lex')
        <5>1. CASE k = Len(stack)
          <6>1. k # scan'.cpu
            BY <2>1, <2>3, <3>6, <5>1 DEF HartsUnderWay, CpuKept
          <6>2. ~ CpuSeen(dtb', stack'[k].begin, lex')
            BY <1>1, <3>7, <3>9, <5>1 DEF CpuSeen
          <6> QED
            BY <6>1, <6>2
        <5>2. CASE k # Len(stack)
          <6>1. k \in 1 .. Len(stack) - 1
            BY <2>3, <3>7, <5>2
          <6>2. stack'[k].begin = stack[k].begin /\ SameSeen(k, lex, lex')
            BY <3>7, <3>8, <6>1
          <6>3. CpuSeen(dtb', stack'[k].begin, lex') <=> CpuSeen(dtb, stack[k].begin, lex)
            BY <1>1, <6>2 DEF SameSeen, CpuSeen
          <6> QED
            BY <2>1, <3>6, <6>1, <6>3 DEF HartsUnderWay, CpuKept
        <5> QED
          BY <5>1, <5>2
      <4> QED
        BY <4>1, <4>2 DEF CpuKept
    <3>11. ControllerKept'
      <4>1. scan'.controller \in 0 .. Len(stack') - 1
        BY <2>1, <2>3, <3>6, <3>7 DEF HartsUnderWay, ControllerKept
      <4>2. ASSUME NEW k \in 1 .. Len(stack') - 1
            PROVE  k = scan'.controller <=> ControllerSeen(dtb', stack'[k].begin, lex')
        <5>1. CASE k = Len(stack)
          <6>1. k # scan'.controller
            BY <2>1, <2>3, <3>6, <5>1 DEF HartsUnderWay, ControllerKept
          <6>2. ~ ControllerSeen(dtb', stack'[k].begin, lex')
            BY <1>1, <3>7, <3>9, <5>1 DEF ControllerSeen
          <6> QED
            BY <6>1, <6>2
        <5>2. CASE k # Len(stack)
          <6>1. k \in 1 .. Len(stack) - 1
            BY <2>3, <3>7, <5>2
          <6>2. stack'[k].begin = stack[k].begin /\ SameSeen(k, lex, lex')
            BY <3>7, <3>8, <6>1
          <6>3. ControllerSeen(dtb', stack'[k].begin, lex')
                  <=> ControllerSeen(dtb, stack[k].begin, lex)
            BY <1>1, <6>2 DEF SameSeen, ControllerSeen
          <6> QED
            BY <2>1, <3>6, <6>1, <6>3 DEF HartsUnderWay, ControllerKept
        <5> QED
          BY <5>1, <5>2
      <4> QED
        BY <4>1, <4>2 DEF ControllerKept
    <3>12. NumberKept'
      <4>1. CASE scan.cpu = NULL
        <5>1. HartNode' = lex
          <6>1. Len(stack') - 1 = Len(stack)
            BY <2>3, <3>7
          <6> QED
            BY <3>6, <3>7, <4>1, <6>1 DEF HartNode
        <5> QED
          BY <1>1, <3>6, <3>9, <4>1, <5>1 DEF NumberKept
      <4>2. CASE scan.cpu # NULL
        <5>1. scan.cpu \in 1 .. Len(stack) - 1
          BY <2>1, <4>2 DEF HartsUnderWay, CpuKept, NULL
        <5>2. HartNode = stack[scan.cpu].begin /\ HartNode' = HartNode
          BY <3>6, <3>7, <4>2, <5>1 DEF HartNode
        <5>3. Seen(dtb, HartNode, "reg", lex') = Seen(dtb, HartNode, "reg", lex)
          BY <3>8, <5>1, <5>2 DEF SameSeen
        <5>4. scan.hart = IF Seen(dtb, HartNode, "reg", lex) = {} THEN -1
                          ELSE HartOfReg(dtb, HartNode)
          BY <2>1, <4>2 DEF HartsUnderWay, NumberKept
        <5> QED
          BY <1>1, <3>6, <4>2, <5>2, <5>3, <5>4 DEF NumberKept
      <4> QED
        BY <4>1, <4>2
    <3>13. PhandleKept'
      <4> SUFFICES ASSUME scan'.controller \in {NULL, Len(stack') - 1}
                   PROVE  scan'.cells = 0 /\ scan'.phandle = 0
        BY <1>1, <3>1, <3>9 DEF PhandleKept
      <4>1. scan.controller \in 0 .. Len(stack) - 1
        BY <2>1 DEF HartsUnderWay, ControllerKept
      <4>2. scan.controller = NULL
        BY <2>3, <3>6, <3>7, <4>1
      <4> QED
        BY <3>6, <4>2
    <3> QED
      BY <1>3, <2>4, <3>2, <3>4, <3>5, <3>6, <3>10, <3>11, <3>12, <3>13 DEF HartsUnderWay
  <2>9. CASE EndNode
    <3>1. ~ Doing' /\ HandledNodes' = HandledNodes \cup (IF Doing THEN {TopNode} ELSE {})
      BY <1>3, <2>9, HandledEnd
    <3>2. /\ dtb[lex].t = "END_NODE" /\ pass' = pass /\ Len(stack) > 1 /\ cur = Len(stack) - 1
          /\ Len(stack') = Len(stack) - 1
          /\ \A k \in 1 .. Len(stack) - 1 : stack'[k] = stack[k]
      BY <2>9, EndStack
    <3>3. /\ found' = DoneOnce(Now).found /\ failed' = DoneOnce(Now).failed
          /\ scan' = Close(DoneOnce(Now), cur).scan
      BY <2>9, EndFinds
    <3>4. ~ DoneOnce(Now).failed /\ DoneOnce(Now).scan = scan
          /\ HartsKnown(DoneOnce(Now).found, dtb, HandledNodes')
      BY <2>5, <3>1, <3>2
    <3>5. /\ DOMAIN scan' = HartScan
          /\ scan'.cpu = IF scan.cpu = Len(stack) - 1 THEN NULL ELSE scan.cpu
          /\ scan'.controller =
               IF scan.controller = Len(stack) - 1 THEN NULL ELSE scan.controller
          /\ scan'.hart = scan.hart
      <4> DEFINE c == DoneOnce(Now)
      <4>1. IsCall(c) /\ c.scan = scan
        BY <2>2, <3>4, DoneCall
      <4>2. Passes[pass] = "harts"
        BY <1>3 DEF Passes
      <4> HIDE DEF c
      <4>3. Close(c, cur) = hart_close(c, cur)
        BY <4>2 DEF Close, Compats
      <4>4. scan' = hart_close(c, cur).scan
        BY <3>3, <4>3 DEF c
      <4> QED
        BY <2>1, <3>2, <4>1, <4>4 DEF hart_close, IsCall, CallFields, HartScan
    <3>6. \A k \in 1 .. Len(stack) - 1 : SameSeen(k, lex, lex')
      <4>1. ~ Prop
        BY <2>9, EndStack DEF Prop, tok
      <4> QED
        BY <2>9, <4>1, LevelsSeen
    <3>7. \A k \in 1 .. Len(stack') - 1 : k \in 1 .. Len(stack) - 1 /\ k # Len(stack) - 1
      BY <2>3, <3>2
    <3>8. CpuKept'
      <4>1. scan'.cpu \in 0 .. Len(stack') - 1
        BY <2>1, <2>3, <3>2, <3>5 DEF HartsUnderWay, CpuKept, NULL
      <4>2. ASSUME NEW k \in 1 .. Len(stack') - 1
            PROVE  k = scan'.cpu <=> CpuSeen(dtb', stack'[k].begin, lex')
        <5>1. stack'[k] = stack[k] /\ SameSeen(k, lex, lex') /\ k # Len(stack) - 1 /\ k # NULL
          BY <3>2, <3>6, <3>7 DEF NULL
        <5>2. CpuSeen(dtb', stack'[k].begin, lex') <=> CpuSeen(dtb, stack[k].begin, lex)
          BY <1>1, <5>1 DEF SameSeen, CpuSeen
        <5>3. k = scan.cpu <=> CpuSeen(dtb, stack[k].begin, lex)
          BY <2>1, <3>7 DEF HartsUnderWay, CpuKept
        <5> QED
          BY <3>5, <5>1, <5>2, <5>3
      <4> QED
        BY <4>1, <4>2 DEF CpuKept
    <3>9. ControllerKept'
      <4>1. scan'.controller \in 0 .. Len(stack') - 1
        BY <2>1, <2>3, <3>2, <3>5 DEF HartsUnderWay, ControllerKept, NULL
      <4>2. ASSUME NEW k \in 1 .. Len(stack') - 1
            PROVE  k = scan'.controller <=> ControllerSeen(dtb', stack'[k].begin, lex')
        <5>1. stack'[k] = stack[k] /\ SameSeen(k, lex, lex') /\ k # Len(stack) - 1 /\ k # NULL
          BY <3>2, <3>6, <3>7 DEF NULL
        <5>2. ControllerSeen(dtb', stack'[k].begin, lex')
                <=> ControllerSeen(dtb, stack[k].begin, lex)
          BY <1>1, <5>1 DEF SameSeen, ControllerSeen
        <5>3. k = scan.controller <=> ControllerSeen(dtb, stack[k].begin, lex)
          BY <2>1, <3>7 DEF HartsUnderWay, ControllerKept
        <5> QED
          BY <3>5, <5>1, <5>2, <5>3
      <4> QED
        BY <4>1, <4>2 DEF ControllerKept
    <3>10. NumberKept'
      <4> SUFFICES ASSUME scan'.cpu # NULL
                   PROVE  scan'.hart = IF Seen(dtb, HartNode', "reg", lex') = {} THEN -1
                                       ELSE HartOfReg(dtb, HartNode')
        BY <1>1, <3>1 DEF NumberKept
      <4>1. scan'.cpu = scan.cpu /\ scan.cpu # NULL
        BY <3>5
      <4>2. scan.cpu \in 1 .. Len(stack) - 1
        BY <2>1, <4>1 DEF HartsUnderWay, CpuKept, NULL
      <4>3. HartNode = stack[scan.cpu].begin /\ HartNode' = HartNode
        BY <3>2, <4>1, <4>2 DEF HartNode
      <4>4. Seen(dtb, HartNode, "reg", lex') = Seen(dtb, HartNode, "reg", lex)
        BY <3>6, <4>2, <4>3 DEF SameSeen
      <4> QED
        BY <2>1, <3>5, <4>1, <4>3, <4>4 DEF HartsUnderWay, NumberKept
    <3>11. PhandleKept'
      BY <3>1 DEF PhandleKept
    <3> QED
      BY <1>3, <2>4, <3>2, <3>3, <3>4, <3>5, <3>8, <3>9, <3>10, <3>11 DEF HartsUnderWay
  <2>10. CASE EndScan
    <3>1. Upto(7)' = Nodes(dtb) /\ HandledNodes = Nodes(dtb)
      BY <1>3, <2>10, UptoOver
    <3>2. found' = Finish(Now).found /\ failed' = Finish(Now).failed /\ pass' = pass + 1
      BY <2>10, OverFinds
    <3>3. BootHart \in found.hart_mask
      <4>1. PICK b \in Harts(dtb) : Address(dtb, b) = BootHart
        BY DEF HartsDescribed
      <4>2. BootHart < MAX_HARTS
        BY FdtAssumption
      <4>3. ControllerOf(dtb, b) \in Nodes(dtb)
        <5>1. PICK k \in Nodes(dtb) : ControllersIn(dtb, b) = {k}
          BY <4>1 DEF HartsDescribed
        <5> QED
          BY <5>1 DEF ControllerOf
      <4>4. b \in Known(dtb, Nodes(dtb))
        BY <4>1, <4>2, <4>3 DEF Known
      <4> QED
        BY <2>1, <3>1, <4>1, <4>4 DEF HartsKnown
    <3>4. Finish(Now) = Now
      <4> DEFINE c == Now
      <4>1. BootHart \in c.found.hart_mask /\ Passes[pass] = "harts" /\ ~ (BootHart < BootHart)
        BY <1>3, <3>3, FdtAssumption DEF Now, Passes
      <4> HIDE DEF c
      <4>2. ~ (\A h \in c.found.hart_mask : h < BootHart)
        BY <4>1
      <4> QED
        BY <4>1, <4>2 DEF Finish, c
    <3>5. found' = found /\ failed' = failed
      BY <3>2, <3>4 DEF Now
    <3> QED
      BY <1>1, <1>3, <2>1, <3>1, <3>2, <3>5 DEF HartsFoundInv
  <2> QED
    BY <2>6, <2>7, <2>8, <2>9, <2>10 DEF Next
<1> QED
  BY <1>2, <1>3

-----------------------------------------------------------------------------
(* query_clint and query_plic *)

\* The hart that a phandle stands for when all the harts are known.
LEMMA HartOfIs ==
  ASSUME NEW d, HartsDescribed(d), NEW c, HartsKnown(c.found, d, Nodes(d)),
         NEW b \in Harts(d), Address(d, b) < MAX_HARTS, NEW p
  PROVE  HartOf(c, p) = Address(d, b) <=> p = PhandleOf(d, b)
<1> DEFINE a == Address(d, b)
           harts == {h \in Hart : c.found.hart_phandles[h] = p}
<1>1. \A g \in Harts(d) : ControllerOf(d, g) \in Nodes(d)
  <2> TAKE g \in Harts(d)
  <2>1. PICK k \in Nodes(d) : ControllersIn(d, g) = {k}
    BY DEF HartsDescribed
  <2> QED
    BY <2>1 DEF ControllerOf
<1>2. a \in Hart /\ a # MAX_HARTS /\ Hart \subseteq Nat
  <2>1. a \in Nat /\ MAX_HARTS \in Nat
    BY HartNumber, FdtAssumption
  <2> QED
    BY <2>1 DEF Hart
<1>3. b \in Known(d, Nodes(d)) /\ c.found.hart_phandles[a] = PhandleOf(d, b)
  BY <1>1 DEF Known, HartsKnown
<1>4. HartOf(c, p) = IF harts = {} THEN MAX_HARTS
                     ELSE CHOOSE h \in harts : \A k \in harts : h <= k
  BY DEF HartOf
<1>5. ASSUME p = PhandleOf(d, b)
      PROVE  harts = {a}
  <2>1. a \in harts
    BY <1>2, <1>3, <1>5
  <2>2. ASSUME NEW h \in harts PROVE h = a
    <3>1. h \in Hart /\ c.found.hart_phandles[h] = PhandleOf(d, b) /\ PhandleOf(d, b) # 0
      BY <1>5 DEF HartsDescribed
    <3>2. h \in c.found.hart_mask
      BY <3>1 DEF HartsKnown
    <3>3. PICK g \in Known(d, Nodes(d)) : h = Address(d, g)
      BY <3>2 DEF HartsKnown
    <3>4. c.found.hart_phandles[h] = PhandleOf(d, g) /\ g \in Harts(d)
      BY <3>3 DEF HartsKnown, Known
    <3>5. g = b
      BY <3>1, <3>4 DEF HartsDescribed
    <3> QED
      BY <3>3, <3>5
  <2> HIDE DEF harts
  <2> QED
    BY <2>1, <2>2
<1> HIDE DEF harts
<1>6. p = PhandleOf(d, b) => HartOf(c, p) = a
  <2> SUFFICES ASSUME p = PhandleOf(d, b)
               PROVE  HartOf(c, p) = a
    OBVIOUS
  <2>1. harts = {a}
    BY <1>5
  <2>2. \E h \in harts : \A k \in harts : h <= k
    <3> HIDE DEF a
    <3>1. a \in Nat
      BY <1>2
    <3>2. a \in harts
      BY <2>1
    <3>3. \A k \in harts : k = a
      BY <2>1
    <3>4. \A k \in harts : a <= k
      BY <3>1, <3>3
    <3> QED
      BY <3>2, <3>4
  <2>3. (CHOOSE h \in harts : \A k \in harts : h <= k) \in harts
    BY <2>2
  <2>4. HartOf(c, p) = CHOOSE h \in harts : \A k \in harts : h <= k
    BY <1>4, <2>1
  <2>5. HartOf(c, p) \in {a}
    BY <2>1, <2>3, <2>4
  <2> QED
    BY <2>5
<1>7. HartOf(c, p) = a => p = PhandleOf(d, b)
  <2> SUFFICES ASSUME HartOf(c, p) = a
               PROVE  p = PhandleOf(d, b)
    OBVIOUS
  <2>1. harts # {}
    BY <1>2, <1>4
  <2>2. harts \in SUBSET Nat
    BY <1>2 DEF harts
  <2>3. \E h \in harts : \A k \in harts : h <= k
    BY <2>1, <2>2, LeastNumber
  <2>4. (CHOOSE h \in harts : \A k \in harts : h <= k) \in harts
    BY <2>3
  <2>5. a \in harts
    BY <1>4, <2>1, <2>4
  <2> QED
    BY <1>3, <2>5 DEF harts
<1> QED
  BY <1>6, <1>7

\* The first two cells of an interrupt.
LEMMA InterruptIs ==
  ASSUME NEW S, NEW value \in Seq(S), NEW n \in Nat, n >= 2, NEW i \in 1 .. Len(value) \div n
  PROVE  /\ SubSeq(value, (i - 1) * n + 1, i * n)[1] = value[n * (i - 1) + 1]
         /\ SubSeq(value, (i - 1) * n + 1, i * n)[2] = value[n * (i - 1) + 2]
<1> DEFINE x == (i - 1) * n
<1>1. x \in Nat /\ x + n <= Len(value)
  <2>1. Len(value) \in Nat /\ n \in Nat \ {0}
    OBVIOUS
  <2> QED
    BY <2>1, RegionEnds
<1>2. i \in Nat /\ i * n = x + n /\ n * (i - 1) = x
  <2>1. Len(value) \div n \in Nat
    OBVIOUS
  <2>2. i \in Nat
    BY <2>1
  <2> QED
    BY <2>2
<1> HIDE DEF x
<1>3. \A j \in x + 1 .. x + n : value[j] \in S
  BY <1>1
<1>4. \A j \in 1 .. (x + n) - (x + 1) + 1 : SubSeq(value, x + 1, x + n)[j] = value[x + 1 + j - 1]
  BY <1>1, <1>3, SubSeqProperties
<1>5. /\ 1 \in 1 .. (x + n) - (x + 1) + 1 /\ 2 \in 1 .. (x + n) - (x + 1) + 1
      /\ x + 1 + 1 - 1 = x + 1 /\ x + 1 + 2 - 1 = x + 2
  BY <1>1
<1>6. SubSeq(value, x + 1, x + n)[1] = value[x + 1] /\ SubSeq(value, x + 1, x + n)[2] = value[x + 2]
  BY <1>4, <1>5
<1> QED
  BY <1>2, <1>6 DEF x

\* A hart is wired to a place where the device lists it.
LEMMA WireIs ==
  ASSUME NEW d, HartsDescribed(d), NEW c, HartsKnown(c.found, d, Nodes(d)),
         NEW b \in Harts(d), Address(d, b) < MAX_HARTS, NEW g,
         OfCells(d, g, "interrupts-extended"), c.scan.reg = Address(d, g),
         c.tree[c.scan.int_value].value = Value(d, g, "interrupts-extended"),
         NEW n \in Nat, n >= 2, NEW irqs, Places(d, g, n, b, irqs) # {}, NEW old
  PROVE  \E i \in Places(d, g, n, b, irqs) :
           Wire(c, n, Address(d, b), old, irqs) = <<Address(d, g), i>>
<1> DEFINE value == Value(d, g, "interrupts-extended")
           q == Len(value) \div n
           a == Address(d, b)
           p == PhandleOf(d, b)
           ints == Interrupts(c, n)
           mine == {i \in DOMAIN ints : HartOf(c, ints[i][1]) = a /\ ints[i][2] \in irqs}
           last == CHOOSE i \in mine : \A j \in mine : j <= i
           places == Places(d, g, n, b, irqs)
<1>1. value \in Seq(Cell)
  BY DEF OfCells
<1> HIDE DEF value
<1>2. q \in Nat
  BY <1>1
<1>3. ints = [i \in 1 .. q |-> SubSeq(value, (i - 1) * n + 1, i * n)]
  BY DEF Interrupts, value
<1>4. places = {i \in 0 .. q - 1 : value[n * i + 1] = p /\ value[n * i + 2] \in irqs}
  BY DEF Places, value
<1>5. \A x : HartOf(c, x) = a <=> x = p
  BY HartOfIs
<1>6. ASSUME NEW i \in 1 .. q
      PROVE  ints[i][1] = value[n * (i - 1) + 1] /\ ints[i][2] = value[n * (i - 1) + 2]
  <2>1. ints[i] = SubSeq(value, (i - 1) * n + 1, i * n)
    BY <1>3
  <2> QED
    BY <1>1, <2>1, InterruptIs
<1>7. DOMAIN ints = 1 .. q
  BY <1>3
<1>8. Wire(c, n, a, old, irqs) = IF mine = {} THEN old ELSE <<c.scan.reg, last - 1>>
  BY Zenon DEF Wire
<1> HIDE DEF ints, a, p, q, places
<1>9. \A i \in 1 .. q : i \in mine <=> i - 1 \in places
  <2> TAKE i \in 1 .. q
  <2>1. i - 1 \in 0 .. q - 1
    BY <1>2
  <2>2. ints[i][1] = value[n * (i - 1) + 1] /\ ints[i][2] = value[n * (i - 1) + 2]
    BY <1>6
  <2>3. HartOf(c, ints[i][1]) = a <=> value[n * (i - 1) + 1] = p
    BY <1>5, <2>2
  <2> QED
    BY <1>4, <1>7, <2>1, <2>2, <2>3
<1>10. mine \in SUBSET (0 .. q)
  BY <1>2, <1>7
<1>11. mine # {}
  <2>1. PICK i \in places : TRUE
    BY DEF places
  <2>2. i + 1 \in 1 .. q /\ (i + 1) - 1 = i
    BY <1>2, <1>4
  <2> QED
    BY <1>9, <2>1, <2>2
<1>12. last \in mine
  <2> HIDE DEF mine
  <2> QED
    BY <1>2, <1>10, <1>11, GreatestIs
<1>13. last \in 1 .. q
  BY <1>7, <1>12
<1> HIDE DEF last, mine
<1>14. last - 1 \in places
  BY <1>9, <1>12, <1>13
<1> QED
  BY <1>8, <1>11, <1>14 DEF a, places

\* What clint_prop and plic_prop note of a property.
LEMMA DevicePropIs ==
  ASSUME pass \in {8, 9}, DOMAIN scan = PlicFields
  PROVE  LET sc == HasProp(Now, cur, tok).scan
         IN /\ DOMAIN sc = PlicFields /\ sc.done = scan.done
            /\ sc.compat = IF Matches(tok, {DeviceName}) THEN TRUE ELSE scan.compat
            /\ sc.reg = IF tok.name = "reg" THEN GetAddress(cur - 1, tok.value) ELSE scan.reg
            /\ sc.int_value = IF tok.name = "interrupts-extended" THEN lex ELSE scan.int_value
            /\ pass = 9 => sc.ndev = IF tok.name = "riscv,ndev" THEN tok.value[1] ELSE scan.ndev
<1> DEFINE c == Now
           str == DeviceName
           address == GetAddress(cur - 1, tok.value)
           compat == Matches(tok, {str})
           q == DeviceProp(c, cur, tok, {str})
           x == HasProp(c, cur, tok)
<1>1. IsCall(c) /\ c.scan = scan
  BY DEF IsCall, CallFields, Now
<1>2. Matches(tok, {str}) => tok.name = "compatible"
  BY DEF Matches
<1>3. q = IF compat THEN [c EXCEPT !.scan.compat = TRUE]
          ELSE IF tok.name = "reg" THEN [c EXCEPT !.scan.reg = address] ELSE c
  BY Zenon DEF DeviceProp
<1>4. x = IF tok.name = "interrupts-extended" THEN [c EXCEPT !.scan.int_value = lex]
          ELSE IF tok.name = "riscv,ndev" /\ pass = 9
               THEN [c EXCEPT !.scan.ndev = tok.value[1]] ELSE q
  <2>1. CASE pass = 8
    <3>1. Passes[pass] = "clint" /\ str = "riscv,clint0"
      BY <2>1 DEF Passes, DeviceName
    <3>2. x = clint_prop(c, cur, tok)
      BY <3>1 DEF HasProp, Compats
    <3>3. q = DeviceProp(c, cur, tok, {"riscv,clint0"})
      BY <3>1
    <3> HIDE DEF x, c, q
    <3>4. pass # 9
      BY <2>1
    <3> QED
      BY <3>2, <3>3, <3>4, Zenon DEF clint_prop
  <2>2. CASE pass = 9
    <3>1. Passes[pass] = "plic" /\ str = "riscv,plic0"
      BY <2>2 DEF Passes, DeviceName
    <3>2. x = plic_prop(c, cur, tok)
      BY <3>1 DEF HasProp, Compats
    <3>3. q = DeviceProp(c, cur, tok, {"riscv,plic0"})
      BY <3>1
    <3> HIDE DEF x, c, q
    <3>4. pass = 9
      BY <2>2
    <3> QED
      BY <3>2, <3>3, <3>4, Zenon DEF plic_prop
  <2> QED
    BY <2>1, <2>2
<1> HIDE DEF c, address, q, x, compat
<1>5. /\ DOMAIN x.scan = PlicFields /\ x.scan.done = scan.done
      /\ x.scan.compat = IF compat THEN TRUE ELSE scan.compat
      /\ x.scan.reg = IF tok.name = "reg" THEN address ELSE scan.reg
      /\ x.scan.int_value = IF tok.name = "interrupts-extended" THEN lex ELSE scan.int_value
      /\ pass = 9 => x.scan.ndev = IF tok.name = "riscv,ndev" THEN tok.value[1] ELSE scan.ndev
  <2>1. compat => tok.name = "compatible"
    BY <1>2 DEF compat
  <2> QED
    BY <1>1, <1>3, <1>4, <2>1 DEF IsCall, CallFields, PlicFields
<1> QED
  BY <1>5 DEF x, c, address, compat

\* query_clint and query_plic take down the properties of a node.
LEMMA DevicesProp ==
  ASSUME ScanInv, Prop, pass \in {8, 9}, DOMAIN scan = PlicFields,
         DeviceSeen(scan, dtb, TopNode, lex, DeviceName)
  PROVE  /\ DOMAIN scan' = PlicFields /\ scan'.done = scan.done
         /\ DeviceSeen(scan', dtb, TopNode, lex', DeviceName)
<1>1. /\ Scanning /\ dtb[lex].t = "PROP" /\ TopNode \in Nodes(dtb) /\ Own(dtb, TopNode, lex)
      /\ tok.name = dtb[lex].name
      /\ dtb[lex].name \notin {"status", "interrupts-extended"} => tok = dtb[lex]
      /\ lex' = lex + 1 /\ Becomes(HasProp(Now, cur, tok))
  BY PropIs
<1>2. WellFormed(dtb) /\ lex \in DOMAIN dtb
  BY <1>1, Running
<1> DEFINE b == TopNode
           name == dtb[lex].name
           str == DeviceName
<1>3. \A n : IF n = name
             THEN /\ Seen(dtb, b, n, lex') = {lex} /\ Seen(dtb, b, n, lex) = {}
                  /\ Value(dtb, b, n) = dtb[lex].value
             ELSE Seen(dtb, b, n, lex') = Seen(dtb, b, n, lex)
  BY <1>1, <1>2, OneSeen
<1>4. scan' = HasProp(Now, cur, tok).scan
  BY <1>1 DEF Becomes
<1>5. /\ DOMAIN scan' = PlicFields /\ scan'.done = scan.done
      /\ scan'.compat = IF Matches(tok, {str}) THEN TRUE ELSE scan.compat
      /\ scan'.reg = IF tok.name = "reg" THEN GetAddress(cur - 1, tok.value) ELSE scan.reg
      /\ scan'.int_value = IF tok.name = "interrupts-extended" THEN lex ELSE scan.int_value
      /\ pass = 9 => scan'.ndev = IF tok.name = "riscv,ndev" THEN tok.value[1] ELSE scan.ndev
  BY <1>4, DevicePropIs
<1>6. Matches(tok, {str}) <=> name = "compatible" /\ Lists(dtb[lex], str)
  BY <1>1 DEF Matches
<1>7. name = "reg" => GetAddress(cur - 1, tok.value) = Address(dtb, b)
  BY RegRead
<1> HIDE DEF b, name, str
<1>8. /\ scan.compat <=> \E i \in Seen(dtb, b, "compatible", lex) : Lists(dtb[i], str)
      /\ scan.reg = IF Seen(dtb, b, "reg", lex) = {} THEN 0 ELSE Address(dtb, b)
      /\ IF Seen(dtb, b, "interrupts-extended", lex) = {} THEN scan.int_value = NULL
         ELSE scan.int_value \in Seen(dtb, b, "interrupts-extended", lex)
      /\ Seen(dtb, b, "riscv,ndev", lex) # {} /\ pass = 9 =>
           scan.ndev = Value(dtb, b, "riscv,ndev")[1]
  BY DEF DeviceSeen, b, str
<1>9. tok.name = name /\ (name \notin {"status", "interrupts-extended"} => tok.value = dtb[lex].value)
  BY <1>1 DEF name
<1>10. scan'.compat <=> \E i \in Seen(dtb, b, "compatible", lex') : Lists(dtb[i], str)
  <2>1. CASE name = "compatible"
    <3>1. /\ Seen(dtb, b, "compatible", lex') = {lex} /\ Seen(dtb, b, "compatible", lex) = {}
          /\ scan'.compat = IF Lists(dtb[lex], str) THEN TRUE ELSE scan.compat
      BY <1>3, <1>5, <1>6, <2>1
    <3>2. ~ scan.compat
      BY <1>8, <3>1
    <3> QED
      BY <3>1, <3>2
  <2>2. CASE name # "compatible"
    BY <1>3, <1>5, <1>6, <1>8, <2>2
  <2> QED
    BY <2>1, <2>2
<1>11. scan'.reg = IF Seen(dtb, b, "reg", lex') = {} THEN 0 ELSE Address(dtb, b)
  BY <1>3, <1>5, <1>7, <1>8, <1>9
<1>12. IF Seen(dtb, b, "interrupts-extended", lex') = {} THEN scan'.int_value = NULL
       ELSE scan'.int_value \in Seen(dtb, b, "interrupts-extended", lex')
  BY <1>3, <1>5, <1>8, <1>9
<1>13. Seen(dtb, b, "riscv,ndev", lex') # {} /\ pass = 9 =>
         scan'.ndev = Value(dtb, b, "riscv,ndev")[1]
  BY <1>3, <1>5, <1>8, <1>9
<1> QED
  BY <1>5, <1>10, <1>11, <1>12, <1>13 DEF DeviceSeen, b, str

\* So every hart is wired to a device that serves it.
LEMMA WiresAre ==
  ASSUME NEW d, HartsDescribed(d), NEW c, HartsKnown(c.found, d, Nodes(d)), NEW g,
         NEW n \in Nat, n >= 2, NEW irqs, Serves(d, g, n, irqs), c.scan.reg = Address(d, g),
         c.tree[c.scan.int_value].value = Value(d, g, "interrupts-extended"),
         NEW wires, NEW old, wires = [h \in Hart |-> Wire(c, n, h, old[h], irqs)]
  PROVE  Wired(wires, d, {g}, n, irqs)
<1> SUFFICES ASSUME NEW b \in Harts(d), Address(d, b) < MAX_HARTS
             PROVE  \E i \in Places(d, g, n, b, irqs) : wires[Address(d, b)] = <<Address(d, g), i>>
  BY DEF Wired
<1>1. Address(d, b) \in Hart
  <2>1. Address(d, b) \in Nat /\ MAX_HARTS \in Nat
    BY HartNumber, FdtAssumption
  <2> QED
    BY <2>1 DEF Hart
<1>2. wires[Address(d, b)] = Wire(c, n, Address(d, b), old[Address(d, b)], irqs)
  BY <1>1, Zenon
<1>3. OfCells(d, g, "interrupts-extended") /\ Places(d, g, n, b, irqs) # {}
  BY DEF Serves
<1>4. \E i \in Places(d, g, n, b, irqs) :
        Wire(c, n, Address(d, b), old[Address(d, b)], irqs) = <<Address(d, g), i>>
  BY <1>3, WireIs
<1> QED
  BY <1>2, <1>4

\* What is known of a device when its children begin or it ends.
LEMMA DeviceKnown ==
  ASSUME ScanInv, Scanning, pass \in {8, 9}, Doing, dtb[lex].t \in {"BEGIN_NODE", "END_NODE"},
         DeviceSeen(scan, dtb, TopNode, lex, DeviceName), tree = dtb
  PROVE  /\ scan.compat <=> TopNode \in CompatibleWith(dtb, DeviceName)
         /\ Has(dtb, TopNode, "reg") => scan.reg = Address(dtb, TopNode)
         /\ Has(dtb, TopNode, "interrupts-extended") =>
              /\ scan.int_value # NULL
              /\ tree[scan.int_value].value = Value(dtb, TopNode, "interrupts-extended")
         /\ Has(dtb, TopNode, "riscv,ndev") /\ pass = 9 =>
              scan.ndev = Value(dtb, TopNode, "riscv,ndev")[1]
<1> DEFINE b == TopNode
<1>1. WellFormed(dtb) /\ lex \in DOMAIN dtb /\ b \in Nodes(dtb) /\ b < lex
  BY Running, TopFacts DEF Doing
<1>2. \A n : Seen(dtb, b, n, lex) = Named(dtb, b, n)
  BY <1>1, AllSeen
<1> HIDE DEF b
<1>3. scan.compat <=> b \in CompatibleWith(dtb, DeviceName)
  BY <1>1, <1>2, CompatIs DEF DeviceSeen, b
<1>4. Has(dtb, b, "reg") => scan.reg = Address(dtb, b)
  BY <1>2 DEF DeviceSeen, Has, b
<1>5. ASSUME Has(dtb, b, "interrupts-extended")
      PROVE  /\ scan.int_value # NULL
             /\ tree[scan.int_value].value = Value(dtb, b, "interrupts-extended")
  <2>1. scan.int_value \in Named(dtb, b, "interrupts-extended")
    BY <1>2, <1>5 DEF DeviceSeen, Has, b
  <2>2. dtb[scan.int_value].value = Value(dtb, b, "interrupts-extended")
    BY <1>1, <2>1, NamedIs
  <2>3. scan.int_value \in 1 .. Len(dtb)
    BY <1>1, <2>1, Shape DEF Named
  <2> QED
    BY <2>2, <2>3 DEF NULL
<1>6. Has(dtb, b, "riscv,ndev") /\ pass = 9 => scan.ndev = Value(dtb, b, "riscv,ndev")[1]
  BY <1>2 DEF DeviceSeen, Has, b
<1> QED
  BY <1>3, <1>4, <1>5, <1>6 DEF b

\* Done with a node that is no device of theirs, the queries have wired what they had.
LEMMA WiredSame ==
  ASSUME NEW wires, NEW d, NEW G, NEW B, NEW n, NEW irqs, Wired(wires, d, G \cap B, n, irqs),
         NEW b, b \notin G
  PROVE  G \cap (B \cup {b}) = G \cap B /\ Wired(wires, d, G \cap (B \cup {b}), n, irqs)
<1>1. G \cap (B \cup {b}) = G \cap B
  OBVIOUS
<1> QED
  BY <1>1

\* The nodes that DeviceName is to tell from the others.
LEMMA DeviceNames ==
  /\ pass = 8 => CompatibleWith(dtb, DeviceName) = Clints(dtb)
  /\ pass = 9 => CompatibleWith(dtb, DeviceName) = Plics(dtb)
<1>1. (pass = 8 => DeviceName = "riscv,clint0") /\ (pass = 9 => DeviceName = "riscv,plic0")
  BY DEF DeviceName
<1> QED
  BY <1>1, Zenon DEF Clints, Plics

\* The one clint, and the one plic, of a tree serve its harts.
LEMMA OneClint ==
  ASSUME NEW d, DevicesDescribed(d), NEW g \in Clints(d)
  PROVE  Clints(d) = {g} /\ Serves(d, g, 4, Cell)
BY DEF DevicesDescribed

\* The one plic of a tree serves its harts.
LEMMA OnePlic ==
  ASSUME NEW d, DevicesDescribed(d), NEW g, g \in Plics(d)
  PROVE  /\ Plics(d) = {g} /\ PlicServes(d, g)
         /\ Has(d, g, "riscv,ndev") /\ Sources(Value(d, g, "riscv,ndev")[1])
BY Zenon DEF DevicesDescribed, PlicServes

\* What a plic has that serves the harts.
LEMMA PlicServesIs ==
  ASSUME NEW d, NEW g, PlicServes(d, g)
  PROVE  /\ Has(d, g, "reg") /\ Address(d, g) # 0 /\ Has(d, g, "interrupts-extended")
         /\ Len(Value(d, g, "interrupts-extended")) % 2 = 0
BY Zenon DEF PlicServes, Serves, OfCells

\* So every hart is wired to a plic that serves it.
LEMMA PlicWiresAre ==
  ASSUME NEW d, HartsDescribed(d), NEW c, HartsKnown(c.found, d, Nodes(d)), NEW g,
         PlicServes(d, g), c.scan.reg = Address(d, g),
         c.tree[c.scan.int_value].value = Value(d, g, "interrupts-extended"),
         NEW wires, NEW old, wires = [h \in Hart |-> Wire(c, 2, h, old[h], MachineIrqs)]
  PROVE  Wired(wires, d, {g}, 2, MachineIrqs)
<1>1. 2 \in Nat /\ 2 >= 2
  OBVIOUS
<1>2. Serves(d, g, 2, MachineIrqs)
  BY Zenon DEF PlicServes
<1> QED
  BY <1>1, <1>2, WiresAre, Zenon

\* The harts wired to the one plic are wired to the plics.
LEMMA PlicWiredIs ==
  ASSUME NEW wires, NEW d, NEW B, NEW b, Plics(d) = {b}, Wired(wires, d, {b}, 2, MachineIrqs)
  PROVE  PlicWired(wires, d, B \cup {b})
<1>1. Plics(d) \cap (B \cup {b}) = {b}
  OBVIOUS
<1> QED
  BY <1>1, Zenon DEF PlicWired

\* done wires the harts to the clint, and no assertion fails.
LEMMA ClintFound ==
  ASSUME ScanInv, Scanning, pass = 8, Doing, dtb[lex].t \in {"BEGIN_NODE", "END_NODE"},
         DOMAIN scan = PlicFields, DeviceSeen(scan, dtb, TopNode, lex, DeviceName), tree = dtb,
         HartsDescribed(dtb), DevicesDescribed(dtb), DOMAIN found = FoundFields,
         HartsKnown(found, dtb, Nodes(dtb)),
         ClintWired(found.ipi, dtb, HandledNodes),
         scan.done <=> Clints(dtb) \cap HandledNodes # {}
  PROVE  LET c == Done(Now, cur)
         IN /\ c.failed = failed /\ DOMAIN c.scan = PlicFields
            /\ c.scan.done <=> Clints(dtb) \cap (HandledNodes \cup {TopNode}) # {}
            /\ ClintWired(c.found.ipi, dtb, HandledNodes \cup {TopNode})
<1> DEFINE b == TopNode
           B == HandledNodes
           c == Now
           h == clint_done(c, cur)
<1>1. Done(c, cur) = h
  <2>1. Passes[pass] = "clint"
    BY DEF Passes
  <2> QED
    BY <2>1 DEF Done, Queries
<1>2. IsCall(c) /\ c.scan = scan /\ c.found = found /\ c.failed = failed /\ c.tree = tree
  BY DEF IsCall, CallFields, Now
<1>3. CompatibleWith(dtb, DeviceName) = Clints(dtb)
  BY DeviceNames
<1>4. b \notin B
  BY DEF HandledNodes
<1> HIDE DEF c
<1>5. CASE b \notin Clints(dtb)
  <2>1. ~ scan.compat
    BY <1>3, <1>5, DeviceKnown
  <2>2. h = c
    BY <1>2, <2>1, Zenon DEF clint_done
  <2> HIDE DEF b, B
  <2>3. /\ Clints(dtb) \cap (B \cup {b}) = Clints(dtb) \cap B
        /\ ClintWired(found.ipi, dtb, B \cup {b})
    BY <1>5, WiredSame DEF ClintWired, B
  <2> QED
    BY <1>1, <1>2, <2>2, <2>3 DEF b, B, c
<1>6. CASE b \in Clints(dtb)
  <2>1. Clints(dtb) = {b} /\ Serves(dtb, b, 4, Cell)
    BY <1>6, OneClint
  <2>2. Clints(dtb) \cap B = {} /\ Clints(dtb) \cap (B \cup {b}) = {b} /\ ~ scan.done
    BY <1>4, <2>1
  <2>3. Has(dtb, b, "reg") /\ Address(dtb, b) # 0 /\ Has(dtb, b, "interrupts-extended")
        /\ Len(Value(dtb, b, "interrupts-extended")) % 4 = 0
    BY <2>1 DEF Serves, OfCells
  <2>4. /\ scan.compat /\ scan.reg = Address(dtb, b) /\ scan.int_value # NULL
        /\ tree[scan.int_value].value = Value(dtb, b, "interrupts-extended")
    BY <1>3, <1>6, <2>3, DeviceKnown
  <2> DEFINE wires == [x \in Hart |-> Wire(c, 4, x, c.found.ipi[x], Cell)]
             r == [c EXCEPT !.scan.done = TRUE, !.found.mtime = c.scan.reg, !.found.ipi = wires]
  <2>5. h = r
    <3>1. c.scan.compat /\ ~ (c.scan.reg = 0) /\ ~ (c.scan.int_value = NULL)
          /\ ~ (Len(c.tree[c.scan.int_value].value) % 4 # 0) /\ ~ c.scan.done
      BY <1>2, <2>2, <2>3, <2>4
    <3> QED
      BY <3>1, Zenon DEF clint_done
  <2>6. Wired(wires, dtb, {b}, 4, Cell)
    <3>1. HartsKnown(c.found, dtb, Nodes(dtb)) /\ c.scan.reg = Address(dtb, b)
          /\ c.tree[c.scan.int_value].value = Value(dtb, b, "interrupts-extended")
      BY <1>2, <2>4
    <3>2. 4 \in Nat /\ 4 >= 2
      OBVIOUS
    <3> DEFINE old == c.found.ipi
    <3>3. wires = [x \in Hart |-> Wire(c, 4, x, old[x], Cell)]
      OBVIOUS
    <3> HIDE DEF wires, old
    <3> QED
      BY <2>1, <3>1, <3>2, <3>3, WiresAre
  <2> HIDE DEF wires, h
  <2>7. /\ r.failed = c.failed /\ DOMAIN r.scan = PlicFields
        /\ r.scan.done = TRUE /\ r.found.ipi = wires
    BY <1>2 DEF IsCall, CallFields, FoundFields, PlicFields
  <2> HIDE DEF r, b, B
  <2>8. ClintWired(h.found.ipi, dtb, B \cup {b})
    BY <2>2, <2>5, <2>6, <2>7 DEF ClintWired
  <2>9. h.failed = failed /\ DOMAIN h.scan = PlicFields /\ h.scan.done
    BY <1>2, <2>5, <2>7
  <2>10. Clints(dtb) \cap (B \cup {b}) # {}
    BY <2>2
  <2> QED
    BY <1>1, <2>8, <2>9, <2>10 DEF h, b, B, c
<1> QED
  BY <1>5, <1>6

\* done wires the harts to the plic, and no assertion fails.
LEMMA PlicFound ==
  ASSUME ScanInv, Scanning, pass = 9, Doing, dtb[lex].t \in {"BEGIN_NODE", "END_NODE"},
         DOMAIN scan = PlicFields, DeviceSeen(scan, dtb, TopNode, lex, DeviceName), tree = dtb,
         HartsDescribed(dtb), DevicesDescribed(dtb), DOMAIN found = FoundFields,
         HartsKnown(found, dtb, Nodes(dtb)),
         PlicWired(found.plic_m, dtb, HandledNodes),
         scan.done <=> Plics(dtb) \cap HandledNodes # {}
  PROVE  LET c == Done(Now, cur)
         IN /\ c.failed = failed /\ DOMAIN c.scan = PlicFields
            /\ c.scan.done <=> Plics(dtb) \cap (HandledNodes \cup {TopNode}) # {}
            /\ PlicWired(c.found.plic_m, dtb, HandledNodes \cup {TopNode})
<1> DEFINE b == TopNode
           B == HandledNodes
           c == Now
           h == plic_done(c, cur)
<1>1. Done(c, cur) = h
  <2>1. Passes[pass] = "plic"
    BY DEF Passes
  <2> QED
    BY <2>1 DEF Done, Queries
<1>2. IsCall(c) /\ c.scan = scan /\ c.found = found /\ c.failed = failed /\ c.tree = tree
  BY DEF IsCall, CallFields, Now
<1>3. CompatibleWith(dtb, DeviceName) = Plics(dtb)
  BY DeviceNames
<1>4. b \notin B
  BY DEF HandledNodes
<1> HIDE DEF c
<1>5. CASE b \notin Plics(dtb)
  <2>1. ~ scan.compat
    BY <1>3, <1>5, DeviceKnown
  <2>2. h = c
    BY <1>2, <2>1, Zenon DEF plic_done
  <2> HIDE DEF b, B
  <2>3. /\ Plics(dtb) \cap (B \cup {b}) = Plics(dtb) \cap B
        /\ PlicWired(found.plic_m, dtb, B \cup {b})
    BY <1>5, WiredSame DEF PlicWired, B
  <2> QED
    BY <1>1, <1>2, <2>2, <2>3 DEF b, B, c
<1>6. CASE b \in Plics(dtb)
  <2>1. Plics(dtb) = {b} /\ PlicServes(dtb, b)
        /\ Has(dtb, b, "riscv,ndev") /\ Sources(Value(dtb, b, "riscv,ndev")[1])
    BY <1>6, OnePlic
  <2>2. Plics(dtb) \cap B = {} /\ Plics(dtb) \cap (B \cup {b}) = {b} /\ ~ scan.done
    BY <1>4, <2>1
  <2>3. Has(dtb, b, "reg") /\ Address(dtb, b) # 0 /\ Has(dtb, b, "interrupts-extended")
        /\ Len(Value(dtb, b, "interrupts-extended")) % 2 = 0
    BY <2>1, PlicServesIs
  <2>4. /\ scan.compat /\ scan.reg = Address(dtb, b) /\ scan.int_value # NULL
        /\ tree[scan.int_value].value = Value(dtb, b, "interrupts-extended")
        /\ scan.ndev = Value(dtb, b, "riscv,ndev")[1]
    BY <1>3, <1>6, <2>1, <2>3, DeviceKnown
  <2> DEFINE wires == [x \in Hart |-> Wire(c, 2, x, c.found.plic_m[x], MachineIrqs)]
             wires_s == [x \in Hart |-> Wire(c, 2, x, c.found.plic_s[x], {IRQ_S_EXT})]
             plic == <<c.scan.reg, c.scan.ndev>>
             r == [c EXCEPT !.scan.done = TRUE, !.found.plic = plic,
                            !.found.plic_m = wires, !.found.plic_s = wires_s]
  <2>5. h = r
    <3>1. c.scan.compat /\ ~ (c.scan.reg = 0) /\ ~ (c.scan.int_value = NULL)
          /\ ~ (Len(c.tree[c.scan.int_value].value) % 2 # 0) /\ ~ c.scan.done
          /\ Sources(c.scan.ndev)
      BY <1>2, <2>1, <2>2, <2>3, <2>4
    <3> QED
      BY <3>1, Zenon DEF plic_done, MachineIrqs, Sources
  <2>6. Wired(wires, dtb, {b}, 2, MachineIrqs)
    <3>1. HartsKnown(c.found, dtb, Nodes(dtb)) /\ c.scan.reg = Address(dtb, b)
          /\ c.tree[c.scan.int_value].value = Value(dtb, b, "interrupts-extended")
      BY <1>2, <2>4
    <3> DEFINE old == c.found.plic_m
    <3>3. wires = [x \in Hart |-> Wire(c, 2, x, old[x], MachineIrqs)]
      OBVIOUS
    <3> HIDE DEF wires, old
    <3> QED
      BY <2>1, <3>1, <3>3, PlicWiresAre
  <2> HIDE DEF wires, wires_s, plic, h
  <2>7. r.failed = c.failed /\ DOMAIN r.scan = PlicFields /\ r.scan.done = TRUE
        /\ r.found.plic_m = wires
    BY <1>2 DEF IsCall, CallFields, FoundFields, PlicFields
  <2> HIDE DEF r, b, B
  <2>8. PlicWired(h.found.plic_m, dtb, B \cup {b})
    BY <2>1, <2>5, <2>6, <2>7, PlicWiredIs
  <2>9. h.failed = failed /\ DOMAIN h.scan = PlicFields /\ h.scan.done
    BY <1>2, <2>5, <2>7
  <2>10. Plics(dtb) \cap (B \cup {b}) # {}
    BY <2>2
  <2> QED
    BY <1>1, <2>8, <2>9, <2>10 DEF h, b, B, c
<1> QED
  BY <1>5, <1>6

\* What query_clint or query_plic has found of the nodes of B.
DevicesFound(f, B) ==
  /\ pass = 8 => ClintWired(f.ipi, dtb, B)
  /\ pass = 9 => PlicWired(f.plic_m, dtb, B)

\* done finds the device, if the node is one, and no assertion fails.
LEMMA DeviceFound ==
  ASSUME ScanInv, Scanning, pass \in {8, 9}, Doing, dtb[lex].t \in {"BEGIN_NODE", "END_NODE"},
         DevicesUnderWay, DevicesFound(found, HandledNodes), tree = dtb,
         HartsDescribed(dtb), DevicesDescribed(dtb), DOMAIN found = FoundFields,
         HartsKnown(found, dtb, Nodes(dtb))
  PROVE  LET c == Done(Now, cur)
         IN /\ c.failed = failed /\ DOMAIN c.scan = PlicFields
            /\ c.scan.done <=> CompatibleWith(dtb, DeviceName) \cap (HandledNodes \cup {TopNode}) # {}
            /\ DevicesFound(c.found, HandledNodes \cup {TopNode})
<1>1. /\ DOMAIN scan = PlicFields /\ DeviceSeen(scan, dtb, TopNode, lex, DeviceName)
      /\ scan.done <=> CompatibleWith(dtb, DeviceName) \cap HandledNodes # {}
  BY DEF DevicesUnderWay
<1> DEFINE x == Done(Now, cur)
           B == HandledNodes \cup {TopNode}
<1>2. CASE pass = 8
  <2>1. CompatibleWith(dtb, DeviceName) = Clints(dtb)
    BY <1>2, DeviceNames
  <2>2. ClintWired(found.ipi, dtb, HandledNodes) /\ (scan.done <=> Clints(dtb) \cap HandledNodes # {})
    BY <1>1, <1>2, <2>1 DEF DevicesFound
  <2>3. /\ x.failed = failed /\ DOMAIN x.scan = PlicFields
        /\ x.scan.done <=> Clints(dtb) \cap B # {}
        /\ ClintWired(x.found.ipi, dtb, B)
    BY <1>1, <1>2, <2>2, ClintFound
  <2> HIDE DEF x, B
  <2>4. DevicesFound(x.found, B)
    BY <1>2, <2>3 DEF DevicesFound
  <2> QED
    BY <2>1, <2>3, <2>4 DEF x, B
<1>3. CASE pass = 9
  <2>1. CompatibleWith(dtb, DeviceName) = Plics(dtb)
    BY <1>3, DeviceNames
  <2>2. PlicWired(found.plic_m, dtb, HandledNodes) /\ (scan.done <=> Plics(dtb) \cap HandledNodes # {})
    BY <1>1, <1>3, <2>1 DEF DevicesFound
  <2>3. /\ x.failed = failed /\ DOMAIN x.scan = PlicFields
        /\ x.scan.done <=> Plics(dtb) \cap B # {}
        /\ PlicWired(x.found.plic_m, dtb, B)
    BY <1>1, <1>3, <2>2, PlicFound
  <2> HIDE DEF x, B
  <2>4. DevicesFound(x.found, B)
    BY <1>3, <2>3 DEF DevicesFound
  <2> QED
    BY <2>1, <2>3, <2>4 DEF x, B
<1> QED
  BY <1>2, <1>3

\* Nothing is to be wired to no device.
LEMMA NoneWired ==
  ASSUME NEW wires, NEW d
  PROVE  ClintWired(wires, d, {}) /\ PlicWired(wires, d, {})
<1>1. Clints(d) \cap {} = {} /\ Plics(d) \cap {} = {}
  OBVIOUS
<1>2. \A n : \A irqs : Wired(wires, d, {}, n, irqs)
  BY DEF Wired
<1>3. Wired(wires, d, {}, 4, Cell) /\ Wired(wires, d, {}, 2, MachineIrqs)
  BY <1>2, Zenon
<1> QED
  BY <1>1, <1>3, Zenon DEF ClintWired, PlicWired

\* A node that begins finds the locals of the query as they are for it.
LEMMA DeviceOpens ==
  ASSUME pass \in {8, 9}, NEW c, IsCall(c), DOMAIN c.scan = PlicFields, NEW node, NEW name
  PROVE  LET sc == Open(c, node, name).scan
         IN /\ DOMAIN sc = PlicFields /\ sc.done = c.scan.done
            /\ sc.compat = FALSE /\ sc.reg = 0 /\ sc.int_value = NULL
<1>1. Passes[pass] \in {"clint", "plic"}
  BY DEF Passes
<1>2. Open(c, node, name) = clint_open(c, node)
  BY <1>1 DEF Open, Queries, Compats
<1> DEFINE x == clint_open(c, node)
<1>3. x = [c EXCEPT !.scan.compat = FALSE, !.scan.reg = 0, !.scan.int_value = NULL]
  BY Zenon DEF clint_open
<1> HIDE DEF x
<1>4. /\ DOMAIN x.scan = PlicFields /\ x.scan.done = c.scan.done
      /\ x.scan.compat = FALSE /\ x.scan.reg = 0 /\ x.scan.int_value = NULL
  BY <1>3 DEF IsCall, CallFields, PlicFields
<1> QED
  BY <1>2, <1>4 DEF x

\* A node that ends leaves them.
LEMMA DeviceCloses ==
  ASSUME pass \in {8, 9}, NEW c, NEW node
  PROVE  Close(c, node) = c
<1>1. Passes[pass] \in {"clint", "plic"}
  BY DEF Passes
<1> QED
  BY <1>1 DEF Close, Compats

\* The locals of query_clint and of query_plic at their start.
LEMMA DeviceStarts ==
  ASSUME NEW p \in {8, 9}
  PROVE  DOMAIN NewScan(Passes[p]) = PlicFields /\ NewScan(Passes[p]).done = FALSE
<1>1. Passes[p] \in {"clint", "plic"}
  BY DEF Passes
<1>2. NewScan(Passes[p]) = [compat |-> FALSE, reg |-> 0, int_value |-> NULL, ndev |-> 0, done |-> FALSE]
  BY <1>1 DEF NewScan, Queries, Compats
<1> QED
  BY <1>2 DEF PlicFields

\* A token of no meaning shows nothing of a device.
LEMMA DeviceStays ==
  ASSUME ScanInv, Nop, Doing, DeviceSeen(scan, dtb, TopNode, lex, DeviceName), pass \in {8, 9}
  PROVE  DeviceSeen(scan, dtb, TopNode, lex', DeviceName)
<1>1. Scanning /\ Len(stack) > 1
  BY DEF Nop, Doing
<1>2. \A n : Seen(dtb, TopNode, n, lex') = Seen(dtb, TopNode, n, lex)
  BY <1>1, NopSeen, TopFacts DEF TopNode
<1> QED
  BY <1>2 DEF DeviceSeen

\* What is under way after a step of the same scan.
LEMMA UnderWayIs ==
  ASSUME pass' = pass, dtb' = dtb, DOMAIN scan' = PlicFields,
         scan'.done <=> CompatibleWith(dtb, DeviceName) \cap HandledNodes' # {},
         Doing' => DeviceSeen(scan', dtb, TopNode', lex', DeviceName)
  PROVE  DevicesUnderWay'
<1>1. DeviceName' = DeviceName
  BY DEF DeviceName
<1>2. Doing' => DeviceSeen(scan, dtb, TopNode, lex, DeviceName)'
  BY <1>1 DEF DeviceSeen
<1> QED
  BY <1>1, <1>2 DEF DevicesUnderWay

\* query_clint and query_plic have of the nodes they are past the device they are for.
LEMMA DevicesStep ==
  ASSUME \A d \in Dtbs : Whole(d), ScanInv, DOMAIN found = FoundFields, ~ failed, HartsFoundInv,
         DevicesInv, HartsDescribed(dtb), DevicesDescribed(dtb), pass <= 10 => tree = dtb, Next
  PROVE  DevicesInv' /\ (pass \in {8, 9} => ~ failed')
<1>1. dtb' = dtb /\ Nodes(dtb)' = Nodes(dtb)
  BY DtbStays
<1>2. Scanning
  BY DEF Next, Nop, Prop, BeginNode, EndNode, EndScan
<1>3. pass \in 1 .. 14 /\ WellFormed(dtb) /\ lex \in DOMAIN dtb
  BY <1>2, Running
<1>4. LeftMachine
  BY MachineStays
<1>5. ASSUME pass' \in {8, 9}, pass' # pass
      PROVE  DevicesUnderWay'
  <2>1. scan' = NewScan(Passes[pass']) /\ ~ Doing' /\ HandledNodes' = {}
    <3>1. pass' \in 6 .. 9 /\ pass # pass'
      BY <1>5
    <3> DEFINE p == pass'
    <3>2. p \in 6 .. 9 /\ pass # p /\ pass' = p
      BY <3>1
    <3> HIDE DEF p
    <3>3. scan' = NewScan(Passes[p]) /\ ~ Doing' /\ HandledNodes' = {}
      BY <3>2, Starts
    <3> QED
      BY <3>3 DEF p
  <2>2. DOMAIN scan' = PlicFields /\ scan'.done = FALSE
    BY <1>5, <2>1, DeviceStarts
  <2> QED
    BY <2>1, <2>2 DEF DevicesUnderWay
<1>6. CASE pass \notin {8, 9}
  <2>1. Upto(8)' = Upto(8) /\ Upto(9)' = Upto(9)
    BY <1>6, UptoStays
  <2>2. CASE pass < 8
    <3>1. Upto(8) = {} /\ Upto(9) = {}
      BY <1>3, <2>2 DEF Upto
    <3>2. ClintWired(found.ipi, dtb, Upto(8))' /\ PlicWired(found.plic_m, dtb, Upto(9))'
      BY <2>1, <3>1, NoneWired
    <3> QED
      BY <1>5, <1>6, <3>2 DEF DevicesInv
  <2>3. CASE pass > 9
    <3>1. found'.ipi = found.ipi /\ found'.plic_m = found.plic_m
      BY <1>4, <2>3 DEF LeftMachine
    <3>2. ClintWired(found.ipi, dtb, Upto(8))' /\ PlicWired(found.plic_m, dtb, Upto(9))'
      BY <1>1, <2>1, <3>1 DEF DevicesInv
    <3> QED
      BY <1>5, <1>6, <3>2 DEF DevicesInv
  <2> QED
    BY <1>3, <1>6, <2>2, <2>3
<1>7. CASE pass \in {8, 9}
  <2>1. DevicesUnderWay /\ DevicesFound(found, HandledNodes) /\ tree = dtb
    BY <1>7 DEF DevicesInv, DevicesFound, Upto
  <2>2. HartsKnown(found, dtb, Nodes(dtb))
    BY <1>7 DEF HartsFoundInv, Upto
  <2>3. ASSUME pass' = pass, DevicesFound(found', HandledNodes'), DevicesUnderWay', ~ failed'
        PROVE  DevicesInv' /\ ~ failed'
    <3>1. CASE pass = 8
      <4>1. ClintWired(found.ipi, dtb, Upto(8))'
        BY <1>1, <2>3, <3>1 DEF DevicesFound, Upto
      <4>2. Upto(9)' = {}
        BY <2>3, <3>1 DEF Upto
      <4>3. PlicWired(found.plic_m, dtb, Upto(9))'
        BY <4>2, NoneWired
      <4> QED
        BY <2>3, <4>1, <4>3 DEF DevicesInv
    <3>2. CASE pass = 9
      <4>1. PlicWired(found.plic_m, dtb, Upto(9))'
        BY <1>1, <2>3, <3>2 DEF DevicesFound, Upto
      <4>2. Upto(8)' = Upto(8) /\ found'.ipi = found.ipi
        BY <1>4, <3>2, UptoStays DEF LeftMachine
      <4>3. ClintWired(found.ipi, dtb, Upto(8))'
        BY <1>1, <4>2 DEF DevicesInv
      <4> QED
        BY <2>3, <4>1, <4>3 DEF DevicesInv
    <3> QED
      BY <1>7, <3>1, <3>2
  <2>4. ASSUME dtb[lex].t \in {"BEGIN_NODE", "END_NODE"}
        PROVE  LET c == DoneOnce(Now)
                   B == HandledNodes \cup (IF Doing THEN {TopNode} ELSE {})
               IN /\ ~ c.failed /\ DOMAIN c.scan = PlicFields
                  /\ c.scan.done <=> CompatibleWith(dtb, DeviceName) \cap B # {}
                  /\ DevicesFound(c.found, B)
    <3>1. CASE Doing
      <4>1. DoneOnce(Now) = Done(Now, cur)
        BY <1>2, <3>1, DoneIs
      <4> QED
        BY <1>2, <1>7, <2>1, <2>2, <2>4, <3>1, <4>1, DeviceFound
    <3>2. CASE ~ Doing
      <4>1. DoneOnce(Now) = Now /\ Now.found = found /\ Now.failed = failed /\ Now.scan = scan
        BY <1>2, <3>2, DoneIs DEF Now
      <4>2. HandledNodes \cup {} = HandledNodes
        OBVIOUS
      <4> QED
        BY <2>1, <3>2, <4>1, <4>2 DEF DevicesUnderWay
    <3> QED
      BY <3>1, <3>2
  <2>5. CASE Nop
    <3>1. Doing' = Doing /\ (Doing => TopNode' = TopNode) /\ HandledNodes' = HandledNodes
      BY <1>7, <2>5, HandledSame
    <3>2. UNCHANGED <<dtb, pass, scan, found, failed>>
      BY <2>5 DEF Nop
    <3>3. Doing => DeviceSeen(scan, dtb, TopNode, lex', DeviceName)
      BY <1>7, <2>1, <2>5, DeviceStays DEF DevicesUnderWay
    <3>4. DevicesUnderWay'
      BY <2>1, <3>1, <3>2, <3>3, UnderWayIs DEF DevicesUnderWay
    <3> QED
      BY <2>1, <2>3, <3>1, <3>2, <3>4
  <2>6. CASE Prop
    <3>1. Doing' = Doing /\ (Doing => TopNode' = TopNode) /\ HandledNodes' = HandledNodes
      BY <1>7, <2>6, HandledSame
    <3>2. Doing /\ pass' = pass /\ found' = found /\ failed' = failed
      BY <1>7, <2>6, PropIs, QuietFinds
    <3>3. /\ DOMAIN scan' = PlicFields /\ scan'.done = scan.done
          /\ DeviceSeen(scan', dtb, TopNode, lex', DeviceName)
      BY <1>7, <2>1, <2>6, <3>2, DevicesProp DEF DevicesUnderWay
    <3>4. DevicesUnderWay'
      BY <1>1, <2>1, <3>1, <3>2, <3>3, UnderWayIs DEF DevicesUnderWay
    <3> QED
      BY <2>1, <2>3, <3>1, <3>2, <3>4
  <2>7. CASE BeginNode
    <3>1. /\ Doing' /\ TopNode' = lex /\ lex \in Nodes(dtb)
          /\ HandledNodes' = HandledNodes \cup (IF Doing THEN {TopNode} ELSE {})
      BY <1>7, <2>7, HandledBegin
    <3>2. pass' = pass /\ lex' = lex + 1
      BY <2>7 DEF BeginNode
    <3>3. dtb[lex].t = "BEGIN_NODE"
      BY <3>1 DEF Nodes
    <3>4. /\ found' = DoneOnce(Now).found /\ failed' = DoneOnce(Now).failed
          /\ scan' = Open(DoneOnce(Now), level, tok.name).scan
      BY <2>7, BeginFinds
    <3> DEFINE c == DoneOnce(Now)
    <3>5. /\ ~ c.failed /\ DOMAIN c.scan = PlicFields
          /\ c.scan.done <=> CompatibleWith(dtb, DeviceName) \cap HandledNodes' # {}
          /\ DevicesFound(c.found, HandledNodes')
      BY <2>4, <3>1, <3>3
    <3>6. IsCall(c)
      BY <1>2, DoneCall
    <3> HIDE DEF c
    <3>7. /\ DOMAIN scan' = PlicFields /\ scan'.done = c.scan.done
          /\ scan'.compat = FALSE /\ scan'.reg = 0 /\ scan'.int_value = NULL
      <4> DEFINE sc == Open(c, level, tok.name).scan
      <4>1. /\ DOMAIN sc = PlicFields /\ sc.done = c.scan.done
            /\ sc.compat = FALSE /\ sc.reg = 0 /\ sc.int_value = NULL
        BY <1>7, <3>5, <3>6, DeviceOpens
      <4>2. scan' = sc
        BY <3>4 DEF c
      <4> HIDE DEF sc
      <4> QED
        BY <4>1, <4>2
    <3>8. DeviceSeen(scan', dtb, lex, lex', DeviceName)
      <4>1. \A n : Seen(dtb, lex, n, lex') = {}
        BY <1>3, <3>1, <3>2, NoneSeen
      <4> QED
        BY <3>7, <4>1 DEF DeviceSeen
    <3>9. DevicesUnderWay'
      BY <1>1, <3>1, <3>2, <3>5, <3>7, <3>8, UnderWayIs
    <3> QED
      BY <2>3, <3>2, <3>4, <3>5, <3>9 DEF c
  <2>8. CASE EndNode
    <3>1. ~ Doing' /\ HandledNodes' = HandledNodes \cup (IF Doing THEN {TopNode} ELSE {})
      BY <1>7, <2>8, HandledEnd
    <3>2. dtb[lex].t = "END_NODE" /\ pass' = pass
      BY <2>8, EndStack
    <3>3. /\ found' = DoneOnce(Now).found /\ failed' = DoneOnce(Now).failed
          /\ scan' = Close(DoneOnce(Now), cur).scan
      BY <2>8, EndFinds
    <3> DEFINE c == DoneOnce(Now)
    <3>4. /\ ~ c.failed /\ DOMAIN c.scan = PlicFields
          /\ c.scan.done <=> CompatibleWith(dtb, DeviceName) \cap HandledNodes' # {}
          /\ DevicesFound(c.found, HandledNodes')
      BY <2>4, <3>1, <3>2
    <3> HIDE DEF c
    <3>5. scan' = c.scan
      BY <1>7, <3>3, DeviceCloses DEF c
    <3>6. DevicesUnderWay'
      BY <1>1, <3>1, <3>2, <3>4, <3>5, UnderWayIs
    <3> QED
      BY <2>3, <3>2, <3>3, <3>4, <3>6 DEF c
  <2>9. CASE EndScan
    <3>1. /\ HandledNodes = Nodes(dtb)
          /\ (pass = 8 => Upto(8)' = Nodes(dtb)) /\ (pass = 9 => Upto(9)' = Nodes(dtb))
      <4>1. pass = 8 => HandledNodes = Nodes(dtb) /\ Upto(8)' = Nodes(dtb)
        BY <2>9, UptoOver
      <4>2. pass = 9 => HandledNodes = Nodes(dtb) /\ Upto(9)' = Nodes(dtb)
        BY <2>9, UptoOver
      <4> QED
        BY <1>7, <4>1, <4>2
    <3>2. found' = Finish(Now).found /\ failed' = Finish(Now).failed /\ pass' = pass + 1
      BY <2>9, OverFinds
    <3>3. Finish(Now) = Now
      <4> DEFINE c == Now
      <4>1. c.scan = scan
        BY DEF Now
      <4> HIDE DEF c
      <4>2. CASE pass = 8
        <5>1. CompatibleWith(dtb, DeviceName) = Clints(dtb)
          BY <4>2, DeviceNames
        <5>2. Clints(dtb) # {} /\ Clints(dtb) \subseteq Nodes(dtb)
          BY DEF DevicesDescribed, Clints, CompatibleWith
        <5>3. scan.done
          BY <2>1, <3>1, <5>1, <5>2 DEF DevicesUnderWay
        <5>4. Passes[pass] = "clint"
          BY <4>2 DEF Passes
        <5> QED
          BY <4>1, <5>3, <5>4 DEF Finish, c
      <4>3. CASE pass = 9
        <5>1. Passes[pass] = "plic"
          BY <4>3 DEF Passes
        <5> QED
          BY <5>1 DEF Finish, c
      <4> QED
        BY <1>7, <4>2, <4>3
    <3>4. found' = found /\ failed' = failed
      BY <3>2, <3>3 DEF Now
    <3>5. pass' \in {8, 9} => DevicesUnderWay'
      BY <1>3, <1>5, <3>2
    <3>6. CASE pass = 8
      <4>1. ClintWired(found.ipi, dtb, Upto(8))'
        BY <1>1, <2>1, <3>1, <3>4, <3>6 DEF DevicesFound
      <4>2. Upto(9)' = {}
        <5>1. Upto(9)' = Upto(9) /\ Upto(9) = {}
          BY <3>6, UptoStays DEF Upto
        <5> QED
          BY <5>1
      <4>3. PlicWired(found.plic_m, dtb, Upto(9))'
        BY <4>2, NoneWired
      <4> QED
        BY <3>4, <3>5, <4>1, <4>3 DEF DevicesInv
    <3>7. CASE pass = 9
      <4>1. PlicWired(found.plic_m, dtb, Upto(9))'
        BY <1>1, <2>1, <3>1, <3>4, <3>7 DEF DevicesFound
      <4>2. Upto(8)' = Upto(8)
        BY <3>7, UptoStays
      <4>3. ClintWired(found.ipi, dtb, Upto(8))'
        BY <1>1, <3>4, <4>2 DEF DevicesInv
      <4> QED
        BY <3>4, <3>5, <4>1, <4>3 DEF DevicesInv
    <3> QED
      BY <1>7, <3>6, <3>7
  <2> QED
    BY <2>5, <2>6, <2>7, <2>8, <2>9 DEF Next
<1> QED
  BY <1>6, <1>7

\* filter_harts finds a status and a number in every hart's node.
LEMMA FilterDone ==
  ASSUME ScanInv, Scanning, pass = 11, Doing, dtb[lex].t \in {"BEGIN_NODE", "END_NODE"},
         HartSeen(scan, dtb, TopNode, lex), HartsDescribed(dtb)
  PROVE  Done(Now, cur).failed = failed
<1> DEFINE b == TopNode
           c == Now
           h == hart_filter_done(c, cur)
<1>1. Done(c, cur) = h
  <2>1. Passes[pass] = "filter_harts"
    BY DEF Passes
  <2> QED
    BY <2>1 DEF Done, Queries
<1>2. IsCall(c) /\ c.scan = scan /\ c.failed = failed
  BY DEF IsCall, CallFields, Now
<1>3. WellFormed(dtb) /\ lex \in DOMAIN dtb /\ b \in Nodes(dtb) /\ b < lex
  BY Running, TopFacts DEF Doing
<1>4. \A n : Seen(dtb, b, n, lex) = Named(dtb, b, n)
  BY <1>3, AllSeen
<1> HIDE DEF b, c
<1>5. scan.compat => b \in Harts(dtb)
  BY <1>3, <1>4, TypeIs DEF HartSeen, Harts, b
<1>6. scan.compat => ~ (scan.status = NULL) /\ ~ (scan.hart < 0)
  <2> SUFFICES ASSUME scan.compat
               PROVE  ~ (scan.status = NULL) /\ ~ (scan.hart < 0)
    OBVIOUS
  <2>1. Has(dtb, b, "reg") /\ Has(dtb, b, "status")
    BY <1>5 DEF HartsDescribed, OfCells
  <2>2. scan.status \in Named(dtb, b, "status")
    BY <1>4, <2>1 DEF HartSeen, Has, b
  <2>3. scan.status \in 1 .. Len(dtb)
    BY <1>3, <2>2, Shape DEF Named
  <2>4. scan.hart = HartOfReg(dtb, b)
    BY <1>4, <2>1 DEF HartSeen, Has, b
  <2>5. HartOfReg(dtb, b) \in Nat
    BY <1>5, HartNumber
  <2> QED
    BY <2>3, <2>4, <2>5 DEF NULL
<1>7. CASE ~ scan.compat
  <2>1. ~ c.scan.compat
    BY <1>2, <1>7
  <2>2. h = c
    BY <2>1, Zenon DEF hart_filter_done
  <2> QED
    BY <1>1, <1>2, <2>2 DEF c
<1>8. CASE scan.compat
  <2>1. c.scan.compat /\ ~ (c.scan.status = NULL) /\ ~ (c.scan.hart < 0)
    BY <1>2, <1>6, <1>8
  <2> DEFINE masked == [c.tree[c.scan.status] EXCEPT !.value = "masked", !.more = 0]
             names == c.found.disabled_hart_mask \cup OneShifted(c.scan.hart)
             r == [c EXCEPT !.tree[c.scan.status] = masked, !.found.disabled_hart_mask = names]
  <2>2. h \in {c, r}
    BY <2>1, Zenon DEF hart_filter_done
  <2> HIDE DEF h, masked, names
  <2>3. r.failed = c.failed
    BY <1>2 DEF IsCall, CallFields
  <2> HIDE DEF r
  <2> QED
    BY <1>1, <1>2, <2>2, <2>3 DEF h, c
<1> QED
  BY <1>7, <1>8

\* So no assertion of filter_harts fails.
LEMMA FilterStep ==
  ASSUME \A d \in Dtbs : Whole(d), ScanInv, FilterInv, ~ failed, HartsDescribed(dtb), Next, pass = 11
  PROVE  ~ failed'
<1>1. Scanning
  BY DEF Next, Nop, Prop, BeginNode, EndNode, EndScan
<1>2. Doing => HartSeen(scan, dtb, TopNode, lex)
  BY DEF FilterInv, HartsInv
<1>3. CASE Nop \/ Prop
  BY <1>3, QuietFinds
<1>4. CASE BeginNode \/ EndNode
  <2>1. failed' = DoneOnce(Now).failed
    BY <1>4, BeginFinds, EndFinds
  <2>2. dtb[lex].t \in {"BEGIN_NODE", "END_NODE"}
    BY <1>4, HandledBegin, EndStack DEF Nodes
  <2>3. DoneOnce(Now) = IF Doing THEN Done(Now, cur) ELSE Now
    BY <1>1, DoneIs
  <2>4. Doing => Done(Now, cur).failed = failed
    BY <1>1, <1>2, <2>2, FilterDone
  <2>5. Now.failed = failed
    BY DEF Now
  <2> QED
    BY <2>1, <2>3, <2>4, <2>5
<1>5. CASE EndScan
  <2>1. failed' = Finish(Now).failed
    BY <1>5, OverFinds
  <2>2. Passes[pass] = "filter_harts"
    BY DEF Passes
  <2>3. Finish(Now) = Now
    BY <2>2 DEF Finish
  <2> QED
    BY <2>1, <2>3 DEF Now
<1> QED
  BY <1>3, <1>4, <1>5 DEF Next

\* Nothing has been found, and no query has begun, at reset.
LEMMA MachineInit ==
  ASSUME Init
  PROVE  MachineInv
<1>1. pass = 1 /\ ~ failed /\ found.mem_size = 0 /\ found.hart_mask = {}
      /\ found.hart_phandles = [h \in Hart |-> 0]
  BY DEF Init
<1>2. Upto(6) = {} /\ Upto(7) = {} /\ Upto(8) = {} /\ Upto(9) = {}
  BY <1>1 DEF Upto
<1>3. MemInv
  BY <1>1, <1>2 DEF MemInv, MemKnown
<1>4. Known(dtb, {}) = {}
  BY DEF Known
<1>5. HartsFoundInv
  BY <1>1, <1>2, <1>4 DEF HartsFoundInv, HartsKnown
<1>6. DevicesInv
  BY <1>1, <1>2, NoneWired DEF DevicesInv
<1> QED
  BY <1>1, <1>3, <1>5, <1>6 DEF MachineInv

\* Each step keeps what the queries have found, and no assertion fails.
LEMMA MachineStep ==
  ASSUME \A d \in Dtbs : Whole(d) /\ Machine(d), ScanInv, FilterInv, MachineInv, Next
  PROVE  MachineInv'
<1>1. (\A d \in Dtbs : Whole(d)) /\ Machine(dtb)
  BY DEF ScanInv
<1>2. DOMAIN found = FoundFields /\ ~ failed /\ MemInv /\ HartsFoundInv /\ DevicesInv
  BY DEF FilterInv, MachineInv
<1>3. MemoryDescribed(dtb) /\ HartsDescribed(dtb) /\ DevicesDescribed(dtb)
  BY <1>1 DEF Machine
<1>4. pass <= 10 => tree = dtb
  BY <1>2 DEF FilterInv, QueriesInv
<1>5. MemInv' /\ (pass = 6 => ~ failed')
  BY <1>1, <1>2, <1>3, MemStep
<1>6. HartsFoundInv' /\ (pass = 7 => ~ failed')
  BY <1>1, <1>2, <1>3, HartsStep
<1>7. DevicesInv' /\ (pass \in {8, 9} => ~ failed')
  BY <1>1, <1>2, <1>3, <1>4, DevicesStep
<1>8. pass = 11 => ~ failed'
  BY <1>1, <1>2, <1>3, FilterStep
<1>9. pass \notin {6, 7, 8, 9, 11} => ~ failed'
  BY <1>1, <1>2, MachineStays DEF LeftMachine
<1> QED
  BY <1>5, <1>6, <1>7, <1>8, <1>9 DEF MachineInv

\* On trees that describe a machine, each query finds what they say.
THEOREM MachineKnown ==
  ASSUME \A d \in Dtbs : Whole(d) /\ Machine(d)
  PROVE  Spec => [](ScanInv /\ FilterInv /\ MachineInv)
<1>1. Spec => [](ScanInv /\ FilterInv)
  <2>1. \A d \in Dtbs : Whole(d)
    OBVIOUS
  <2> QED
    BY <2>1, FiltersWork
<1>2. Init => MachineInv
  BY MachineInit
<1>3. ScanInv /\ FilterInv /\ MachineInv /\ [Next]_vars => MachineInv'
  <2> SUFFICES ASSUME ScanInv, FilterInv, MachineInv, [Next]_vars
               PROVE  MachineInv'
    OBVIOUS
  <2>1. CASE UNCHANGED vars
    <3>1. MemInv' <=> MemInv
      BY <2>1 DEF vars, MemInv, Upto, HandledNodes, Doing, TopNode, Nodes
    <3>2. HartsFoundInv' <=> HartsFoundInv
      BY <2>1 DEF vars, HartsFoundInv, Upto, HandledNodes, Doing, TopNode, Nodes, CpuKept,
                  ControllerKept, NumberKept, PhandleKept, HartNode
    <3>3. DevicesInv' <=> DevicesInv
      BY <2>1, Zenon DEF vars, DevicesInv, DevicesUnderWay, Upto, HandledNodes, Doing, TopNode, Nodes,
                  DeviceName, DeviceSeen
    <3> QED
      BY <2>1, <3>1, <3>2, <3>3 DEF vars, MachineInv
  <2>2. CASE Next
    BY <2>2, MachineStep
  <2> QED
    BY <2>1, <2>2
<1> QED
  BY <1>1, <1>2, <1>3, PTL DEF Spec

\* No assertion of the scanner, its queries or its filters fails on a tree that
\* describes a machine.
THEOREM AssertionsNeverFail ==
  ASSUME \A d \in Dtbs : Whole(d) /\ Machine(d)
  PROVE  Spec => []AssertionsHold
<1>1. Spec => [](ScanInv /\ FilterInv /\ MachineInv)
  BY MachineKnown
<1>2. MachineInv => AssertionsHold
  BY DEF MachineInv, AssertionsHold
<1> QED
  BY <1>1, <1>2, PTL

\* When the scans are over, what has been found is what the tree says.
LEMMA FoundIs ==
  ASSUME ScanInv, MachineInv, Machine(dtb), Over
  PROVE  MachineFound
<1>1. MemoryDescribed(dtb) /\ HartsDescribed(dtb) /\ DevicesDescribed(dtb)
  BY DEF Machine
<1>2. Upto(6) = Nodes(dtb) /\ Upto(7) = Nodes(dtb) /\ Upto(8) = Nodes(dtb) /\ Upto(9) = Nodes(dtb)
  BY PassLen DEF Upto, Over, ScanInv
<1>3. /\ MemKnown(found.mem_size, dtb, Nodes(dtb)) /\ HartsKnown(found, dtb, Nodes(dtb))
      /\ ClintWired(found.ipi, dtb, Nodes(dtb)) /\ PlicWired(found.plic_m, dtb, Nodes(dtb))
  BY <1>2 DEF MachineInv, MemInv, HartsFoundInv, DevicesInv
<1>4. MemoryFound
  <2> DEFINE size == found.mem_size
  <2>1. MemKnown(size, dtb, Nodes(dtb))
    BY <1>3
  <2> HIDE DEF size
  <2>2. \E b \in OfType(dtb, "memory") : \E i \in DOMAIN MemoryOf(dtb, b) :
          /\ MemoryOf(dtb, b)[i][1] <= Self
          /\ Self < MemoryOf(dtb, b)[i][1] + MemoryOf(dtb, b)[i][2]
          /\ size = MemoryOf(dtb, b)[i][2] /\ size # 0
    BY <1>1, <2>1, MemoryThere
  <2> QED
    BY <2>2 DEF MemoryFound, size
<1>5. HartsFound
  <2> DEFINE harts == {b \in OfType(dtb, "cpu") : Address(dtb, b) < MAX_HARTS}
  <2>1. \A b \in Harts(dtb) : ControllerOf(dtb, b) \in Nodes(dtb)
    <3> TAKE b \in Harts(dtb)
    <3>1. PICK k \in Nodes(dtb) : ControllersIn(dtb, b) = {k}
      BY <1>1 DEF HartsDescribed
    <3> QED
      BY <3>1 DEF ControllerOf
  <2>2. Known(dtb, Nodes(dtb)) = harts
    BY <2>1 DEF Known, Harts
  <2>3. /\ found.hart_mask = {Address(dtb, b) : b \in harts}
        /\ \A b \in harts : found.hart_phandles[Address(dtb, b)] = PhandleOf(dtb, b)
    BY <1>3, <2>2 DEF HartsKnown
  <2> QED
    BY <2>3 DEF HartsFound
<1>6. HartsWired
  <2> SUFFICES ASSUME NEW b \in Harts(dtb), Address(dtb, b) < MAX_HARTS
               PROVE  /\ \A g \in Clints(dtb) : \E i \in Places(dtb, g, 4, b, Cell) :
                           found.ipi[Address(dtb, b)] = <<Address(dtb, g), i>>
                      /\ \A g \in Plics(dtb) : \E i \in Places(dtb, g, 2, b, MachineIrqs) :
                           found.plic_m[Address(dtb, b)] = <<Address(dtb, g), i>>
    BY Zenon DEF HartsWired, Harts, Clints, Plics, MachineIrqs
  <2>1. Clints(dtb) \cap Nodes(dtb) = Clints(dtb) /\ Plics(dtb) \cap Nodes(dtb) = Plics(dtb)
    BY DEF Clints, Plics, CompatibleWith
  <2>2. Wired(found.ipi, dtb, Clints(dtb), 4, Cell)
    BY <1>3, <2>1, Zenon DEF ClintWired
  <2>3. Wired(found.plic_m, dtb, Plics(dtb), 2, MachineIrqs)
    BY <1>3, <2>1, Zenon DEF PlicWired
  <2>4. \A g \in Clints(dtb) : \E i \in Places(dtb, g, 4, b, Cell) :
          found.ipi[Address(dtb, b)] = <<Address(dtb, g), i>>
    BY <2>2, Zenon DEF Wired
  <2>5. \A g \in Plics(dtb) : \E i \in Places(dtb, g, 2, b, MachineIrqs) :
          found.plic_m[Address(dtb, b)] = <<Address(dtb, g), i>>
    BY <2>3, Zenon DEF Wired
  <2> QED
    BY <2>4, <2>5, Zenon
<1> QED
  BY <1>4, <1>5, <1>6 DEF MachineFound

\* What the first hart needs to bring the machine up is found as the tree says: the
\* memory the firmware is in, the harts with their phandles, and the place of each
\* on the clint and the plic.
THEOREM MachineIsFound ==
  ASSUME \A d \in Dtbs : Whole(d) /\ Machine(d)
  PROVE  Spec => []MachineFound
<1>1. Spec => [](ScanInv /\ FilterInv /\ MachineInv)
  BY MachineKnown
<1>2. ScanInv /\ FilterInv /\ MachineInv => MachineFound
  <2> SUFFICES ASSUME ScanInv, MachineInv
               PROVE  MachineFound
    OBVIOUS
  <2>1. Machine(dtb)
    BY DEF ScanInv
  <2>2. CASE Over
    BY <2>1, <2>2, FoundIs
  <2>3. CASE ~ Over
    BY <2>3 DEF MachineFound, MemoryFound, HartsFound, HartsWired
  <2> QED
    BY <2>2, <2>3
<1> QED
  BY <1>1, <1>2, PTL

=============================================================================
