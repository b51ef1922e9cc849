-------------------------------- MODULE Fdt --------------------------------
(***************************************************************************)
(* The flattened device tree as the kernel reads it in early boot, before  *)
(* it has a heap: straight from the blob's structure block, without a tree *)
(* (kernel/devicetree/fdt).                                                *)
(*                                                                         *)
(* A blob is a sequence of tokens, read at positions.  A node is the       *)
(* position of its FDT_BEGIN_NODE token; 0 stands for no node and for no   *)
(* property.  A property's value is a sequence of cells, or, for the       *)
(* properties that hold text, that text.  A path is a record: whether it   *)
(* has a slash, and its segments; without a slash its one segment is an    *)
(* alias.                                                                  *)
(***************************************************************************)
EXTENDS Integers, Sequences, SequencesExt, FiniteSetsExt

CONSTANTS
  CellBase,      \* one more than a cell holds (2^32)
  MaxPathDepth,  \* MAX_PATH_DEPTH
  MaxRegions     \* length of the arrays that memory regions are returned in

ASSUME FdtAssumption == CellBase \in Nat \ {0, 1} /\ MaxPathDepth \in Nat \ {0}
                          /\ MaxRegions \in Nat \ {0}

None == 0
InOrder(fdt, positions) ==
  SelectSeq([k \in DOMAIN fdt |-> k], LAMBDA k : k \in positions)
First(positions) == IF positions = {} THEN None ELSE Min(positions)

(* A value of several cells, most significant first.                       *)
Number(cells) == FoldLeft(LAMBDA high, cell : high * CellBase + cell, 0, cells)

(* The same in a usize, which holds two cells.                             *)
Usize(cells) == Number(cells) % (CellBase * CellBase)

(* chunks_exact: what does not fill a chunk is left out.                   *)
Chunks(cells, size) ==
  [k \in 1 .. Len(cells) \div size |-> SubSeq(cells, (k - 1) * size + 1, k * size)]

-----------------------------------------------------------------------------
(* Nodes and properties.                                                   *)

(* The token that the structure block's iterator without properties finds. *)
NextStructure(fdt, i) ==
  Min({j \in i .. Len(fdt) : fdt[j].tok \notin {"nop", "prop"}})

(* RawNode's children_ptr: the token after the properties, if it begins a  *)
(* node.                                                                   *)
FirstChild(fdt, node) ==
  LET j == NextStructure(fdt, node + 1) IN IF fdt[j].tok = "begin" THEN j ELSE None

(* PropIter: the properties up to the first other token.                   *)
Props(fdt, node) ==
  {j \in node + 1 .. Len(fdt) :
     fdt[j].tok = "prop" /\ \A k \in node + 1 .. j : fdt[k].tok \in {"prop", "nop"}}

PropNamed(fdt, node, name) == First({j \in Props(fdt, node) : fdt[j].name = name})

Depth(fdt, i, j) ==
  Cardinality({k \in i .. j : fdt[k].tok = "begin"})
    - Cardinality({k \in i .. j : fdt[k].tok = "end"})

(* NodeIter from a token on: the nodes down to a depth, until the node that *)
(* holds that token ends, or something else than a tree follows.           *)
NodesFrom(fdt, i, max_depth) ==
  {j \in i .. Len(fdt) :
     /\ fdt[j].tok = "begin"
     /\ \A k \in i .. j : fdt[k].tok \in {"begin", "end", "prop", "nop"}
     /\ \A k \in i .. j : Depth(fdt, i, k) >= 0
     /\ Depth(fdt, i, j) <= max_depth}

NodesNamed(fdt, base) ==
  {j \in NodesFrom(fdt, 1, Len(fdt)) : fdt[j].name.base = base}

RootNode(fdt) == First(NodesNamed(fdt, ""))

(* Mutant of Children: the iterator is not bounded to one level.           *)
Children_AnyDepth(fdt, node) ==
  IF FirstChild(fdt, node) = None THEN {} ELSE NodesFrom(fdt, FirstChild(fdt, node), Len(fdt))

Children(fdt, node) ==
  IF FirstChild(fdt, node) = None THEN {} ELSE NodesFrom(fdt, FirstChild(fdt, node), 1)

-----------------------------------------------------------------------------
(* Paths.  The nodes on the way are a sequence from the root; <<>> when    *)
(* there is no such node.                                                  *)

(* alias_path; Fails has a slash but leads nowhere.                        *)
Fails == [slash |-> TRUE, segs |-> <<[base |-> "no such node", unit |-> -1]>>]
AliasPath(fdt, path) ==
  LET aliases == First(NodesNamed(fdt, "aliases"))
      prop    == PropNamed(fdt, aliases, path.segs[1].base)
  IN  IF path.slash THEN path
      ELSE IF path.segs = <<>> \/ aliases = None \/ prop = None THEN Fails
      ELSE fdt[prop].text

Descend(fdt, way, name) ==
  LET next == First({c \in Children(fdt, Last(way)) : fdt[c].name = name})
  IN  IF way = <<>> \/ next = None THEN <<>> ELSE Append(way, next)

NodesOnPath(fdt, path) ==
  FoldLeft(LAMBDA way, name : Descend(fdt, way, name),
           <<RootNode(fdt)>>, AliasPath(fdt, path).segs)

(* get_nodes_path returns at most MAX_PATH_DEPTH nodes.                    *)
GetNodesPath(fdt, path) ==
  LET way == NodesOnPath(fdt, path) IN IF Len(way) <= MaxPathDepth THEN way ELSE <<>>

GetNodeByPath(fdt, path) ==
  LET way == NodesOnPath(fdt, path) IN IF way = <<>> THEN None ELSE Last(way)

-----------------------------------------------------------------------------
(* Addresses.  A failed assertion or unwrap is the result Panics.          *)

Panics == [tag |-> "panics"]
NotFound == [tag |-> "none"]
Address(addr) == [tag |-> "address", addr |-> addr]

CellsOf(fdt, node, name, default) ==
  LET prop == PropNamed(fdt, node, name) IN IF prop = None THEN default ELSE fdt[prop].cells[1]
AddressCells(fdt, node) == CellsOf(fdt, node, "#address-cells", 2)
SizeCells(fdt, node) == CellsOf(fdt, node, "#size-cells", 1)

(* value_as_prop_encoded_array_cells_pair_iter and what it asserts.        *)
PairsValid(cells, ac, sc) == ac \in {1, 2} /\ sc \in {1, 2} /\ Len(cells) % (ac + sc) = 0
Pairs(cells, ac, sc) ==
  [k \in 1 .. Len(cells) \div (ac + sc) |->
     LET chunk == Chunks(cells, ac + sc)[k]
     IN  <<Usize(SubSeq(chunk, 1, ac)), Usize(SubSeq(chunk, ac + 1, ac + sc))>>]

TripletsValid(cells, ac, pac, sc) == ac > 0 /\ pac > 0 /\ sc > 0 /\ Len(cells) % (ac + pac + sc) = 0
Triplets(cells, ac, pac, sc) ==
  [k \in 1 .. Len(cells) \div (ac + pac + sc) |->
     LET chunk == Chunks(cells, ac + pac + sc)[k]
     IN  [child  |-> Usize(SubSeq(chunk, 1, ac)),
          parent |-> Usize(SubSeq(chunk, ac + 1, ac + pac)),
          size   |-> Usize(SubSeq(chunk, ac + pac + 1, ac + pac + sc))]]

(* The node's own address: its unit address, otherwise its first reg.      *)
UnitAddress(fdt, way) ==
  LET node == Last(way)
      reg  == PropNamed(fdt, node, "reg")
      bus  == way[Len(way) - 1]
  IN  IF fdt[node].name.unit >= 0 THEN Address(fdt[node].name.unit)
      ELSE IF Len(way) = 1 \/ reg = None THEN Panics
      ELSE LET cells == fdt[reg].cells
               ac == AddressCells(fdt, bus)
               sc == SizeCells(fdt, bus)
           IN  IF PairsValid(cells, ac, sc) /\ cells # <<>>
               THEN Address(Pairs(cells, ac, sc)[1][1]) ELSE Panics

Covers(range, addr) == addr >= range.child /\ addr < range.child + range.size

(* One bus on the way up.  A bus without ranges, or none that covers the   *)
(* address, passes the address on.                                         *)
TranslateAt(fdt, way, result, index) ==
  LET ranges == PropNamed(fdt, way[index], "ranges")
      cells  == fdt[ranges].cells
      ac     == AddressCells(fdt, way[index])
      sc     == SizeCells(fdt, way[index])
      pac    == AddressCells(fdt, way[index - 1])
      covers == SelectSeq(Triplets(cells, ac, pac, sc), LAMBDA r : Covers(r, result.addr))
  IN  IF result = Panics \/ ranges = None THEN result
      ELSE IF index = 1 \/ ~TripletsValid(cells, ac, pac, sc) THEN Panics
      ELSE IF covers = <<>> THEN result
      ELSE Address(result.addr - covers[1].child + covers[1].parent)

ResolvePhysAddr(fdt, path) ==
  LET way == GetNodesPath(fdt, path)
  IN  IF way = <<>> THEN NotFound
      ELSE FoldRight(LAMBDA index, result : TranslateAt(fdt, way, result, index),
                     [k \in 1 .. Len(way) - 1 |-> k], UnitAddress(fdt, way))

-----------------------------------------------------------------------------
(* Memory regions.                                                         *)

(* parse_memory: the reg of the first memory node that has one.            *)
ParseMemory(fdt) ==
  LET root == RootNode(fdt)
      ac   == AddressCells(fdt, root)
      sc   == SizeCells(fdt, root)
      regs == UNION {{j \in Props(fdt, node) : fdt[j].name = "reg"} :
                       node \in NodesNamed(fdt, "memory")}
      cells == fdt[Min(regs)].cells
  IN  IF regs = {} THEN <<>>
      ELSE IF ~PairsValid(cells, ac, sc) THEN <<"panics">>
      ELSE SubSeq(Pairs(cells, ac, sc), 1, Min({MaxRegions, Len(cells) \div (ac + sc)}))

(* The reg properties of the children of reserved-memory, in order.        *)
RegsOfChildren(fdt, node) ==
  {j \in UNION {Props(fdt, child) : child \in Children(fdt, node)} :
     fdt[j].name = "reg" /\ fdt[j].cells # <<>>}

(* Mutant of ReservedRegs: the loop ends after the first, as parse_memory's. *)
ReservedRegs_FirstOnly(fdt, node) ==
  LET regs == RegsOfChildren(fdt, node) IN IF regs = {} THEN <<>> ELSE <<Min(regs)>>

ReservedRegs(fdt, node) == InOrder(fdt, RegsOfChildren(fdt, node))

(* parse_reserved_memory: the blob itself, the children of reserved-memory, *)
(* and the reservation block; an error when they do not fit the array, or  *)
(* when addresses would have to be translated.                             *)
ParseReserved(fdt, blob, reservations) ==
  LET node == First(NodesNamed(fdt, "reserved-memory"))
      root == RootNode(fdt)
      ac   == AddressCells(fdt, node)
      sc   == SizeCells(fdt, node)
      regs == IF node = None THEN <<>> ELSE ReservedRegs(fdt, node)
      regions == FoldLeft(LAMBDA found, j : found \o Pairs(fdt[j].cells, ac, sc), <<blob>>, regs)
                   \o reservations
  IN  IF \/ /\ node # None
            /\ <<ac, sc>> # <<AddressCells(fdt, root), SizeCells(fdt, root)>>
         \/ Len(regions) > MaxRegions
      THEN [tag |-> "error"]
      ELSE IF \/ \E j \in Range(regs) : ~PairsValid(fdt[j].cells, ac, sc)
              \/ node # None /\ \E j \in Props(fdt, node) :
                                  fdt[j].name = "ranges" /\ fdt[j].cells # <<>>
      THEN Panics
      ELSE [tag |-> "regions", regions |-> regions]
=============================================================================
