---------------------------- MODULE MCDriverInit ----------------------------
(* Model values for DriverInit: the nodes of the board's device tree with
   the lines they have there. *)
EXTENDS DriverInit

Line(ctl, hwirq) == [ctl |-> ctl, hwirq |-> hwirq]
MCLineOf ==
  [ armctrl |-> Line("l1_intc", 8),
    timer   |-> Line("l1_intc", 3),
    mailbox |-> Line("armctrl", 1),
    usb     |-> Line("armctrl", 17),
    dma     |-> Line("armctrl", 27),
    uart    |-> Line("armctrl", 37) ]
MCSources == {"timer", "mailbox", "usb", "dma", "uart"}
MCNodes == DOMAIN Driver

(* The controllers, the drivers that others wait for, one of those that
   wait, and the timer come in every order, the others before or after. *)
MCNodeOrders ==
  UNION {{order \o <<"uart", "dma", "fb">>, <<"uart", "dma", "fb">> \o order} :
           order \in SetToSeqs({"l1_intc", "armctrl", "mailbox", "firmware", "usb", "timer"})}

ASSUME MCWholeBoard == WholeBoard
=============================================================================
