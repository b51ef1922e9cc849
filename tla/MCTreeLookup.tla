---------------------------- MODULE MCTreeLookup ----------------------------
(* Source trees for TreeLookup.  A cell holds 0..15.                       *)
EXTENDS TreeLookup

N(base) == [base |-> base, unit |-> -1]
At(base, unit) == [base |-> base, unit |-> unit]
To(segs) == [slash |-> TRUE, segs |-> segs]
By(alias) == [slash |-> FALSE, segs |-> <<N(alias)>>]

C(name, cells) == [name |-> name, cells |-> cells, text |-> ""]
T(name, text) == [name |-> name, cells |-> <<1>>, text |-> text]
Node(name, parent, props) == [name |-> name, parent |-> parent, props |-> props]
AddrSize(a, s) == <<C("#address-cells", <<a>>), C("#size-cells", <<s>>)>>

Compatible == T("compatible", "uart")
Uart(unit, parent, props) ==
  Node(At("serial", unit), parent, <<Compatible, C("reg", <<unit, 1>>)>> \o props)

(* The board's tree: aliases, the console, two reserved regions, a bus     *)
(* with two windows.                                                       *)
Board ==
  << Node(N(""), 0, AddrSize(1, 1) \o <<C("interrupt-parent", <<2>>)>>),
     Node(N("aliases"), 1, <<T("serial1", To(<<N("soc"), At("serial", 3)>>)),
                             T("lost", To(<<N("soc"), N("none")>>))>>),
     Node(N("chosen"), 1, <<T("stdout-path", By("serial1"))>>),
     Node(At("memory", 0), 1, <<C("reg", <<0, 6, 10, 2>>)>>),
     Node(N("reserved-memory"), 1, AddrSize(1, 1) \o <<C("ranges", <<>>)>>),
     Node(At("nvram", 4), 5, <<C("reg", <<4, 1>>)>>),
     Node(At("cma", 2), 5, <<C("reg", <<2, 1, 11, 1>>)>>),
     Node(N("soc"), 1, AddrSize(1, 1) \o <<C("ranges", <<1, 9, 5, 8, 2, 4>>)>>),
     Node(At("intc", 9), 8, <<C("phandle", <<2>>), C("reg", <<9, 1>>)>>),
     Uart(3, 8, <<T("status", "okay"), C("phandle", <<3>>)>>) >>

(* Two levels of buses of different widths; the defaults at the root; a    *)
(* node of the same name deeper down.                                      *)
Wide ==
  << Node(N(""), 0, <<T("model", "wide")>>),
     Node(At("memory", 1), 1, <<C("reg", <<0, 1, 2, 0, 4, 2>>)>>),
     Node(N("chosen"), 1, <<T("stdout-path", To(<<N("soc"), N("aux"), At("serial", 1)>>))>>),
     Node(N("soc"), 1, AddrSize(1, 1) \o <<C("ranges", <<2, 1, 3, 8>>)>>),
     Node(N("aux"), 4, AddrSize(1, 1) \o <<C("ranges", <<0, 4, 4>>), C("phandle", <<1>>)>>),
     Uart(1, 5, <<>>),
     Node(N("dev"), 4, <<C("reg", <<8, 1>>)>>),
     Node(N("aux"), 1, <<T("status", "disabled")>>) >>

(* The windows of the bus stand before its cells.                          *)
RangesFirst ==
  << Node(N(""), 0, AddrSize(1, 1)),
     Node(N("soc"), 1, <<C("ranges", <<1, 9, 5>>)>> \o AddrSize(1, 1)),
     Uart(3, 2, <<>>) >>

(* A bus whose ranges are empty, one without, a register that fills its    *)
(* window, and a second node of memory.                                    *)
Odd ==
  << Node(N(""), 0, AddrSize(1, 1)),
     Node(At("memory", 0), 1, <<C("reg", <<0, 4>>)>>),
     Node(At("memory", 8), 1, <<C("reg", <<8, 4>>)>>),
     Node(N("soc"), 1, AddrSize(1, 1) \o <<C("ranges", <<1, 9, 5>>)>>),
     Node(N("same"), 4, AddrSize(1, 1) \o <<C("ranges", <<>>)>>),
     Uart(3, 5, <<>>),
     Node(At("full", 1), 4, <<C("reg", <<1, 5>>)>>),
     Node(N("cpus"), 1, AddrSize(1, 0)),
     Node(At("cpu", 0), 8, <<C("reg", <<0>>)>>) >>

(* Blobs that boot panics on: a status that is not one of the four, a      *)
(* phandle of two cells, more reserved regions than fit, reserved memory   *)
(* with cells of its own, a register of 0 cells, ranges at the root.       *)
BadStatus == << Node(N(""), 0, AddrSize(1, 1)), Uart(3, 1, <<T("status", "ok")>>) >>
BadPhandle == << Node(N(""), 0, AddrSize(1, 1)), Uart(3, 1, <<C("phandle", <<1, 2>>)>>) >>
BadReserved ==
  << Node(N(""), 0, AddrSize(1, 1)), Node(N("reserved-memory"), 1, AddrSize(1, 1)),
     Node(At("cma", 2), 2, <<C("reg", <<2, 1, 3, 1, 4, 1, 5, 1, 6, 1>>)>>) >>
BadCells ==
  << Node(N(""), 0, AddrSize(1, 1)), Node(N("reserved-memory"), 1, AddrSize(2, 1)) >>
BadReg == << Node(N(""), 0, AddrSize(0, 0)), Node(N("dev"), 1, <<C("reg", <<1>>)>>) >>
BadRanges ==
  << Node(N(""), 0, AddrSize(1, 1) \o <<C("ranges", <<1, 1, 9>>)>>),
     Node(N("chosen"), 1, <<T("stdout-path", To(<<At("serial", 3)>>))>>), Uart(3, 1, <<>>) >>

MCTrees == {Board, Wide, RangesFirst, Odd, BadStatus, BadPhandle, BadReserved, BadCells,
            BadReg, BadRanges}
=============================================================================
