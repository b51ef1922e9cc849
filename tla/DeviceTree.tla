----------------------------- MODULE DeviceTree -----------------------------
(***************************************************************************)
(* The device tree during boot (kernel/devicetree).                        *)
(*                                                                         *)
(* setup_arch asks the blob itself (Fdt) for the regions of memory and for *)
(* the address of the early console; after the heap exists, init_devicetree *)
(* reads the blob once more, entry by entry, and builds the tree of nodes  *)
(* that the drivers use from then on.  Two pieces of code thus answer the  *)
(* same questions about the same blob, one before the other.               *)
(*                                                                         *)
(* The blob is flattened from a source tree by the compiler of device      *)
(* trees, which may leave NOPs in it; a damaged blob has one token edited. *)
(* A source tree is the sequence of its nodes, parents before children.    *)
(***************************************************************************)
EXTENDS Fdt

CONSTANTS
  Trees,     \* the source trees
  Edits      \* kinds of edits of the blob, a subset of EditKinds

EditKinds == {"none", "nop", "prop", "junk", "fin"}
ASSUME DeviceTreeAssumption == Edits \subseteq EditKinds

VARIABLES
  tree,        \* the source tree
  edit,        \* how its blob was edited
  tokens,      \* the structure block
  phase,       \* "early", "parse", "done" (DEVICE_TREE is set), "panicked"
  pos, prev_token,
  nodes_stack,
  nodes,       \* all nodes made so far; the tree links them by index
  phandle_map,
  early        \* what setup_arch found: [base, memory, reserved]

vars == <<tree, edit, tokens, phase, pos, prev_token, nodes_stack, nodes,
          phandle_map, early>>

-----------------------------------------------------------------------------
(* The blob.                                                               *)

BlobRegion == <<9, 2>>         \* the blob's own address and size
Reservations == << <<1, 1>> >> \* its reservation block

Kids(source, n) == InOrder(source, {c \in DOMAIN source : source[c].parent = n})

PropTokens(props) ==
  [k \in DOMAIN props |-> [tok |-> "prop", name |-> props[k].name,
                           cells |-> props[k].cells, text |-> props[k].text]]

Flatten(source) ==
  LET flat[n \in DOMAIN source] ==
        <<[tok |-> "begin", name |-> source[n].name]>>
          \o PropTokens(source[n].props)
          \o FoldLeft(LAMBDA done, c : done \o flat[c], <<>>, Kids(source, n))
          \o <<[tok |-> "end"]>>
  IN  flat[1] \o <<[tok |-> "fin"]>>

(* What one edit at a place makes of the blob.  A property may follow only *)
(* the start of a node or another property.                                *)
Insert(blob, i, token) == SubSeq(blob, 1, i - 1) \o <<token>> \o SubSeq(blob, i, Len(blob))
StrayProp == [tok |-> "prop", name |-> "x", cells |-> <<0>>, text |-> ""]
Edited(blob, kind, i) ==
  CASE kind = "none" -> blob
    [] kind = "nop"  -> Insert(blob, i, [tok |-> "nop"])
    [] kind = "prop" -> Insert(blob, i, StrayProp)
    [] kind = "junk" -> [blob EXCEPT ![i] = [tok |-> "junk"]]
    [] kind = "fin"  -> [blob EXCEPT ![i] = [tok |-> "fin"]]

MayEdit(blob, kind, i) ==
  /\ i \in 1 .. Len(blob) - 1
  /\ kind = "none" => i = 1
  /\ kind = "prop" => i > 1 /\ blob[i - 1].tok = "end"

Damaged == edit \in {"prop", "junk", "fin"}

Init ==
  /\ tree \in Trees
  /\ edit \in Edits
  /\ LET blob == Flatten(tree)
     IN  \E i \in {k \in DOMAIN blob : MayEdit(blob, edit, k)} :
           tokens = Edited(blob, edit, i)
  /\ phase = "early"
  /\ pos = 1 /\ prev_token = "start"
  /\ nodes_stack = <<>>
  /\ nodes = <<>>
  /\ phandle_map = <<>>
  /\ early = [base |-> NotFound, memory |-> <<>>, reserved |-> NotFound]

parsing == <<pos, prev_token, nodes_stack, nodes, phandle_map>>

-----------------------------------------------------------------------------
(* setup_arch: the early console and the regions of memory.                *)

(* parse_chosen, then parse_parameters: the console's path if its node is  *)
(* there and not disabled.                                                 *)
StdoutPath(fdt) ==
  LET chosen == First(NodesNamed(fdt, "chosen"))
      prop   == PropNamed(fdt, chosen, "stdout-path")
  IN  IF chosen = None \/ prop = None THEN Fails ELSE fdt[prop].text

ConsoleUsable(fdt, node) ==
  LET status == PropNamed(fdt, node, "status")
  IN  /\ node # None
      /\ PropNamed(fdt, node, "compatible") # None
      /\ status = None \/ fdt[status].text = "okay"

EarlyConsole(fdt) ==
  IF ConsoleUsable(fdt, GetNodeByPath(fdt, StdoutPath(fdt)))
  THEN ResolvePhysAddr(fdt, StdoutPath(fdt)) ELSE NotFound

SetupArch ==
  /\ phase = "early"
  /\ early' = [base     |-> EarlyConsole(tokens),
               memory   |-> ParseMemory(tokens),
               reserved |-> ParseReserved(tokens, BlobRegion, Reservations)]
  /\ phase' = IF \/ early'.base = Panics \/ early'.memory = <<"panics">>
                 \/ early'.reserved.tag # "regions"
              THEN "panicked" ELSE "parse"
  /\ UNCHANGED <<tree, edit, tokens, parsing>>

-----------------------------------------------------------------------------
(* init_devicetree: DeviceTree::from_fdt over StructureBlockIter.          *)

Here == Min({j \in pos .. Len(tokens) : tokens[j].tok # "nop"})
Token == tokens[Here]

TokenIs(kind) == phase = "parse" /\ Token.tok = kind
Advance == pos' = Here + 1 /\ prev_token' = Token.tok

BeginNode ==
  /\ TokenIs("begin")
  /\ nodes' = Append(nodes, [name |-> Token.name, props |-> <<>>, children |-> <<>>,
                             parent |-> IF nodes_stack = <<>> THEN None ELSE Last(nodes_stack)])
  /\ nodes_stack' = Append(nodes_stack, Len(nodes) + 1)
  /\ Advance
  /\ UNCHANGED <<tree, edit, tokens, phase, phandle_map, early>>

(* Mutant of EndNode: the child becomes the first of its siblings.         *)
EndNode_ChildFirst ==
  /\ TokenIs("end")
  /\ nodes_stack' = Front(nodes_stack)
  /\ IF Len(nodes_stack) > 1
     THEN /\ nodes' = [nodes EXCEPT ![Last(Front(nodes_stack))].children =
                         <<Last(nodes_stack)>> \o @]
          /\ UNCHANGED phase
     ELSE phase' = "done" /\ UNCHANGED nodes
  /\ Advance
  /\ UNCHANGED <<tree, edit, tokens, phandle_map, early>>

(* The end of the root is the end of the tree.                             *)
EndNode ==
  /\ TokenIs("end")
  /\ nodes_stack' = Front(nodes_stack)
  /\ IF Len(nodes_stack) > 1
     THEN /\ nodes' = [nodes EXCEPT ![Last(Front(nodes_stack))].children =
                         Append(@, Last(nodes_stack))]
          /\ UNCHANGED phase
     ELSE phase' = "done" /\ UNCHANGED nodes
  /\ Advance
  /\ UNCHANGED <<tree, edit, tokens, phandle_map, early>>

(* The properties a node has so far.                                       *)
Value(node, name) == {k \in DOMAIN node.props : node.props[k].name = name}
CellCount(node, name, default) ==
  IF Value(node, name) = {} THEN default ELSE node.props[Min(Value(node, name))].cells[1]
NodeAddressCells(node) == CellCount(node, "#address-cells", 2)
NodeSizeCells(node) == CellCount(node, "#size-cells", 1)
ParentOrSelf(all, n) == IF all[n].parent = None THEN all[n] ELSE all[all[n].parent]

(* Property::from_raw decodes reg with the cells of the parent, and ranges *)
(* with the cells the node itself has by then; the parts are sequences of  *)
(* cells.                                                                  *)
RegItems(all, n, cells) ==
  LET ac == NodeAddressCells(ParentOrSelf(all, n))
      sc == NodeSizeCells(ParentOrSelf(all, n))
  IN  [k \in 1 .. Len(cells) \div (ac + sc) |->
         [address |-> SubSeq(Chunks(cells, ac + sc)[k], 1, ac),
          length  |-> SubSeq(Chunks(cells, ac + sc)[k], ac + 1, ac + sc)]]

RangesItems(all, n, cells) ==
  LET ac  == NodeAddressCells(all[n])
      pac == NodeAddressCells(ParentOrSelf(all, n))
      sc  == NodeSizeCells(all[n])
      size == ac + pac + sc
  IN  [k \in 1 .. Len(cells) \div size |->
         [child  |-> SubSeq(Chunks(cells, size)[k], 1, ac),
          parent |-> SubSeq(Chunks(cells, size)[k], ac + 1, ac + pac),
          length |-> SubSeq(Chunks(cells, size)[k], ac + pac + 1, size)]]

Decoded(all, n, prop) ==
  [name |-> prop.name, cells |-> prop.cells, text |-> prop.text,
   items |-> CASE prop.name = "reg"    -> RegItems(all, n, prop.cells)
               [] prop.name = "ranges" -> RangesItems(all, n, prop.cells)
               [] OTHER                -> <<>>]

(* What from_raw unwraps or never expects.                                 *)
OneCell == {"phandle", "#address-cells", "#size-cells"}
DecodePanics(all, n, prop) ==
  \/ prop.name \in OneCell /\ Len(prop.cells) # 1
  \/ prop.name = "status" /\ prop.text \notin {"okay", "disabled", "reserved", "fail"}
  \/ /\ prop.name = "reg"
     /\ NodeAddressCells(ParentOrSelf(all, n)) + NodeSizeCells(ParentOrSelf(all, n)) = 0

Prop ==
  /\ TokenIs("prop") /\ prev_token # "end"
  /\ nodes_stack # <<>>
  /\ ~DecodePanics(nodes, Last(nodes_stack), Token)
  /\ LET n == Last(nodes_stack)
     IN  /\ nodes' = [nodes EXCEPT ![n].props = Append(@, Decoded(nodes, n, Token))]
         /\ phandle_map' = IF Token.name = "phandle"
                           THEN [p \in DOMAIN phandle_map \cup {Token.cells[1]} |->
                                   IF p = Token.cells[1] THEN n ELSE phandle_map[p]]
                           ELSE phandle_map
  /\ Advance
  /\ UNCHANGED <<tree, edit, tokens, phase, nodes_stack, early>>

(* The iterator or from_fdt returns an error, which init_devicetree does   *)
(* not expect; or from_raw panics.                                         *)
Reject ==
  /\ \/ TokenIs("prop") /\ prev_token = "end"
     \/ TokenIs("prop") /\ nodes_stack # <<>> /\ DecodePanics(nodes, Last(nodes_stack), Token)
     \/ TokenIs("end") /\ nodes_stack = <<>>
     \/ TokenIs("fin") \/ TokenIs("junk")
  /\ phase' = "panicked"
  /\ UNCHANGED <<tree, edit, tokens, parsing, early>>

Next == SetupArch \/ BeginNode \/ EndNode \/ Prop \/ Reject

Spec == Init /\ [][Next]_vars /\ WF_vars(Next)
=============================================================================
