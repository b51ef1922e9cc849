----------------------------- MODULE TreeLookup -----------------------------
(***************************************************************************)
(* What the drivers ask the finished device tree (mod.rs, node.rs): nodes  *)
(* by path, alias or phandle, and the physical addresses of registers.     *)
(* The reference definitions read the source tree the blob was made from.  *)
(***************************************************************************)
EXTENDS DeviceTree

(* Node::iter: depth first, parents before children, siblings in order.    *)
Preorder ==
  LET iter[n \in DOMAIN nodes] ==
        <<n>> \o FoldLeft(LAMBDA done, c : done \o iter[c], <<>>, nodes[n].children)
  IN  iter[1]

(* The node and its ancestors, up to the root.                             *)
Chain(all) ==
  [n \in DOMAIN all |->
     LET up[m \in 0 .. n] == IF m = 0 THEN <<>> ELSE <<m>> \o up[all[m].parent]
     IN  up[n]]

(* Node::path.                                                             *)
PathOf(all, n) ==
  [slash |-> TRUE,
   segs  |-> [k \in 1 .. Len(Chain(all)[n]) - 1 |->
                all[Reverse(Chain(all)[n])[k + 1]].name]]

ChildNamed(n, name) ==
  LET found == SelectSeq(nodes[n].children, LAMBDA c : nodes[c].name = name)
  IN  IF n = None \/ found = <<>> THEN None ELSE found[1]

(* to_path: a child of the root called aliases holds the aliases.          *)
ToPath(path) ==
  LET aliases == ChildNamed(1, [base |-> "aliases", unit |-> -1])
      props   == SelectSeq(nodes[aliases].props, LAMBDA p : p.name = path.segs[1].base)
  IN  IF path.slash THEN path
      ELSE IF path.segs = <<>> \/ aliases = None \/ props = <<>> THEN Fails
      ELSE props[1].text

NodeByPath(path) ==
  FoldLeft(LAMBDA n, name : ChildNamed(n, name), 1, ToPath(path).segs)

NodeByPhandle(phandle) ==
  IF phandle \in DOMAIN phandle_map THEN phandle_map[phandle] ELSE None

(* address_as_usize and the like fail on more than two cells.              *)
Fits(cells) == Len(cells) <= 2

(* Mutant of InRange: the range's address on the parent's bus is compared. *)
InRange_WrongSide(range, addr) ==
  /\ Fits(range.child) /\ Fits(range.parent) /\ Fits(range.length)
  /\ addr >= Number(range.parent)
  /\ addr < Number(range.parent) + Number(range.length)

InRange(range, addr) ==
  /\ Fits(range.child) /\ Fits(range.parent) /\ Fits(range.length)
  /\ addr >= Number(range.child)
  /\ addr < Number(range.child) + Number(range.length)

(* One turn of the loop over the parents.  A bus without ranges, or none   *)
(* that covers the address, ends it; "stop" is that end.                   *)
Turn(result, n) ==
  LET ranges == SelectSeq(nodes[n].props, LAMBDA p : p.name = "ranges")
      found  == SelectSeq(ranges[1].items, LAMBDA r : InRange(r, result.addr))
  IN  IF result.tag # "address" \/ result.stop THEN result
      ELSE IF ranges = <<>> \/ found = <<>> THEN [result EXCEPT !.stop = TRUE]
      ELSE IF Number(found[1].length) <= result.length THEN Panics
      ELSE [result EXCEPT !.addr = Number(found[1].parent) + (@ - Number(found[1].child))]

(* resolve_phys_address_and_length for one item of reg.                    *)
ResolvePhysAddressAndLength(n, index) ==
  LET regs  == SelectSeq(nodes[n].props, LAMBDA p : p.name = "reg")
      item  == regs[1].items[index]
      start == [tag |-> "address", addr |-> Number(item.address),
                length |-> Number(item.length), stop |-> FALSE]
  IN  IF regs = <<>> \/ index \notin DOMAIN regs[1].items THEN NotFound
      ELSE IF ~Fits(item.address) \/ ~Fits(item.length) THEN NotFound
      ELSE FoldLeft(LAMBDA result, m : Turn(result, m), start, Tail(Chain(nodes)[n]))

-----------------------------------------------------------------------------
(* Reference definitions, on the source tree.                              *)

SourceCells(n, name, default) ==
  LET props == SelectSeq(tree[n].props, LAMBDA p : p.name = name)
  IN  IF props = <<>> THEN default ELSE props[1].cells[1]
AC(n) == SourceCells(n, "#address-cells", 2)
SC(n) == SourceCells(n, "#size-cells", 1)

SourceProp(n, name) == SelectSeq(tree[n].props, LAMBDA p : p.name = name)
PlaceOf(n, name) == Min({k \in DOMAIN tree[n].props : tree[n].props[k].name = name}
                          \cup {Len(tree[n].props) + 1})

(* The first register of a node: where it is on its bus, and how long.     *)
SourceReg(n) ==
  LET cells == SourceProp(n, "reg")[1].cells
      bus   == tree[n].parent
  IN  [addr   |-> Number(SubSeq(cells, 1, AC(bus))),
       length |-> Number(SubSeq(cells, AC(bus) + 1, AC(bus) + SC(bus)))]

(* The windows of a bus, as a set of [child, parent, size].                *)
Windows(n) ==
  LET cells == SourceProp(n, "ranges")[1].cells
      pac   == AC(tree[n].parent)
      size  == AC(n) + pac + SC(n)
      part(k, from, upto) == Number(SubSeq(cells, (k - 1) * size + from, (k - 1) * size + upto))
  IN  {[child  |-> part(k, 1, AC(n)),
        parent |-> part(k, AC(n) + 1, AC(n) + pac),
        size   |-> part(k, AC(n) + pac + 1, size)] : k \in 1 .. Len(cells) \div size}

(* A bus is regular when the windows it opens are listed after its cells   *)
(* and no wider than two cells, and do not overlap.                        *)
RegularBus(n) ==
  /\ SourceProp(n, "ranges") # <<>> /\ Windows(n) # {}
  /\ \A name \in {"#address-cells", "#size-cells"} :
       SourceProp(n, name) # <<>> => PlaceOf(n, name) < PlaceOf(n, "ranges")
  /\ {AC(n), SC(n), AC(tree[n].parent)} \subseteq {1, 2}
  /\ \A v, w \in Windows(n) :
       v = w \/ v.child + v.size <= w.child \/ w.child + w.size <= v.child

(* The address of a register of that length as the CPU sees it, through    *)
(* the window of each bus on the way; -1 when a bus has none it fits in,   *)
(* or fits in with nothing to spare.                                       *)
CpuAddress(n) ==
  LET reg   == SourceReg(n)
      up[m \in 1 .. n] ==      \* the address on the bus above node m
        LET below == CHOOSE c \in 1 .. n : c \in ToSet(Chain(tree)[n]) /\ tree[c].parent = m
            addr  == up[below]
            fits  == {w \in Windows(m) : w.child <= addr
                                           /\ addr + reg.length < w.child + w.size}
        IN  IF m = n THEN reg.addr
            ELSE IF addr = -1 \/ fits = {} THEN -1
            ELSE LET w == CHOOSE w \in fits : TRUE IN addr - w.child + w.parent
  IN  up[Reverse(Chain(tree)[n])[2]]

Buses(n) == ToSet(Chain(tree)[n]) \ {1, n}

(* The nodes both layers are meant to translate: behind regular buses,     *)
(* named after their register.                                             *)
Regular(n) ==
  /\ tree[n].parent # None /\ SourceProp(n, "reg") # <<>>
  /\ SourceProp(1, "ranges") = <<>>
  /\ {AC(tree[n].parent), SC(tree[n].parent)} \subseteq {1, 2}
  /\ Len(SourceProp(n, "reg")[1].cells) >= AC(tree[n].parent) + SC(tree[n].parent)
  /\ tree[n].name.unit \in {-1, SourceReg(n).addr}
  /\ \A m \in Buses(n) : RegularBus(m)
  /\ Len(Chain(tree)[n]) <= MaxPathDepth

-----------------------------------------------------------------------------
(* Properties.                                                             *)

(* init_devicetree builds the tree the blob was made from, whatever NOPs   *)
(* are in it: the same nodes in the same order under the same parents,     *)
(* their properties and phandles; and it accepts no damaged blob           *)
(* (StructureBlockIter::next, DeviceTree::from_fdt, Node::iter).           *)
TreeIsTheSource ==
  phase = "done" =>
    /\ ~Damaged
    /\ Preorder = [n \in DOMAIN tree |-> n]
    /\ \A n \in DOMAIN tree :
         /\ nodes[n].name = tree[n].name
         /\ nodes[n].parent = tree[n].parent
         /\ PropTokens(nodes[n].props) = PropTokens(tree[n].props)
         /\ \A p \in ToSet(SourceProp(n, "phandle")) : NodeByPhandle(p.cells[1]) = n

(* The search over the blob and the search in the tree find the same node, *)
(* by its own path and by every alias: the console chosen in early boot is *)
(* the device the driver binds later (get_node_by_path, node_by_path,      *)
(* Node::path).                                                            *)
BlobNode(n) == InOrder(tokens, {j \in DOMAIN tokens : tokens[j].tok = "begin"})[n]
Aliases == UNION {{[slash |-> FALSE, segs |-> <<[base |-> p.name, unit |-> -1]>>] :
                     p \in ToSet(tree[n].props)} :
                    n \in {m \in DOMAIN tree : tree[m].name.base = "aliases"}}
SameNode ==
  phase = "done" =>
    /\ \A n \in DOMAIN tree :
         /\ NodeByPath(PathOf(nodes, n)) = n
         /\ GetNodeByPath(tokens, PathOf(nodes, n)) = BlobNode(n)
    /\ \A alias \in Aliases :
         LET n == NodeByPath(alias)
         IN  GetNodeByPath(tokens, alias) = IF n = None THEN None ELSE BlobNode(n)

(* Behind regular buses the address from the blob, the one from the tree   *)
(* and the one the buses' windows define are the same: the early console   *)
(* and the driver's device are one (Fdt::resolve_phys_addr,                *)
(* Node::resolve_phys_address_and_length).                                 *)
SameAddress ==
  phase = "done" =>
    \A n \in {m \in DOMAIN tree : Regular(m)} :
      LET late == ResolvePhysAddressAndLength(n, 1)
      IN  CpuAddress(n) # -1 =>
            /\ late.tag = "address" /\ late.addr = CpuAddress(n)
            /\ late.length = SourceReg(n).length
            /\ ResolvePhysAddr(tokens, PathOf(nodes, n)) = Address(CpuAddress(n))

(* Every region the device tree reserves, by a child of reserved-memory,   *)
(* by the reservation block, or by being the blob, is known before memory  *)
(* is handed out, and all memory that is handed out is a memory node's     *)
(* (parse_memory, parse_reserved_memory).                                  *)
RegsUnder(n) ==
  UNION {ToSet(Pairs(p.cells, AC(tree[n].parent), SC(tree[n].parent))) :
           p \in ToSet(SourceProp(n, "reg"))}
ReservedIsKnown ==
  phase \in {"parse", "done"} /\ ~Damaged =>
    /\ UNION {RegsUnder(n) : n \in {m \in DOMAIN tree :
                  tree[m].parent # None /\ tree[tree[m].parent].name.base = "reserved-memory"}}
         \cup ToSet(Reservations) \cup {BlobRegion}
       = ToSet(early.reserved.regions)
    /\ ToSet(early.memory) \subseteq
         UNION {RegsUnder(n) : n \in {m \in DOMAIN tree : tree[m].name.base = "memory"}}
=============================================================================
