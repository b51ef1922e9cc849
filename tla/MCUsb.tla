------------------------------- MODULE MCUsb --------------------------------
(***************************************************************************)
(* Buses: a keyboard at the root port; a high-speed hub with a low-speed   *)
(* keyboard behind another device and an empty port; a full-speed hub; a   *)
(* hub with a device whose configuration the control buffer cannot take    *)
(* before the keyboard, and one with a broken device there; a root device  *)
(* that is neither; nothing at all.                                        *)
(***************************************************************************)
EXTENDS Usb, TLC

Dev(is, speed, mps, len, alt) ==
    [is |-> is, speed |-> speed, mps |-> mps, len |-> len, alt |-> alt]
Hub(speed) == Dev("hub", speed, 16, 7, FALSE)
Other(speed, len) == Dev("other", speed, 4, len, FALSE)
Keyboard(speed, alt) == Dev("keyboard", speed, 2, 9, alt)
Tree(root, ports) == [root |-> root, ports |-> ports]

MCTrees ==
    {Tree(Keyboard("full", FALSE), <<>>),
     Tree(Hub("high"), <<Other("high", 8), Nothing, Keyboard("low", TRUE)>>),
     Tree(Hub("full"), <<Keyboard("full", FALSE)>>),
     Tree(Hub("high"), <<Other("full", 11), Keyboard("low", FALSE)>>),
     Tree(Hub("high"), <<Dev("broken", "high", 4, 8, FALSE), Keyboard("low", FALSE)>>),
     Tree(Other("high", 8), <<>>),
     Tree(Nothing, <<>>)}

(* The devices are as the theorem about the search takes them to be.       *)
ASSUME MCUsualDevices == UsualDevices
=============================================================================
