-------------------------------- MODULE Ring --------------------------------
(***************************************************************************)
(* RingArray (common/ring_array.rs): the buffer between an interrupt       *)
(* handler and the task that reads it.  Three of them carry input and      *)
(* console output: the UART's, the keyboard's and the boot console's.  A   *)
(* full ring overwrites its oldest item; clear leaves the items where they *)
(* are and only resets the index.                                          *)
(***************************************************************************)
EXTENDS Integers, Sequences, SequencesExt

(* RingArray::new: n slots, all holding the fill value.                    *)
NewRing(n, fill) ==
    [buffer |-> [i \in 0 .. n - 1 |-> fill], index |-> 0, full |-> FALSE]

Slots(r) == DOMAIN r.buffer
Capacity(r) == CHOOSE n \in {i + 1 : i \in Slots(r)} : n \notin Slots(r)

RingLen(r) == IF r.full THEN Capacity(r) ELSE r.index

(* push.  As code that forgets that the ring stays full:                   *)
PushItem_FullForgotten(r, item) ==
    LET next == (r.index + 1) % Capacity(r)
    IN  [buffer |-> [r.buffer EXCEPT ![r.index] = item],
         index |-> next, full |-> next = 0]
PushItem(r, item) ==
    LET next == (r.index + 1) % Capacity(r)
    IN  [buffer |-> [r.buffer EXCEPT ![r.index] = item],
         index |-> next, full |-> r.full \/ next = 0]

PushAll(r, items) == FoldLeft(PushItem, r, items)

(* Where iter and drain begin.                                             *)
First(r) == IF r.full THEN r.index ELSE 0

(* iter: one item after the other, around the end of the buffer.           *)
Items(r) == [i \in 1 .. RingLen(r) |->
               r.buffer[(First(r) + i - 1) % Capacity(r)]]

(* drain: two copies, up to the end of the buffer and from its start.      *)
Drained(r) ==
    LET len == RingLen(r)
        room == Capacity(r) - First(r)
        part == IF room < len THEN room ELSE len
    IN  [i \in 1 .. part |-> r.buffer[First(r) + i - 1]]
          \o [i \in 1 .. len - part |-> r.buffer[i - 1]]

(* clear: the items stay in the buffer.                                    *)
ClearRing(r) == [buffer |-> r.buffer, index |-> 0, full |-> FALSE]

-----------------------------------------------------------------------------
(* What a ring is for: of the items pushed since it was last emptied, the  *)
(* newest that fit, oldest first.                                          *)
Newest(n, items) ==
    IF Len(items) <= n THEN items ELSE SubSeq(items, Len(items) - n + 1, Len(items))

HoldsNewest(r, items) ==
    /\ Items(r) = Newest(Capacity(r), items)
    /\ Drained(r) = Items(r)
=============================================================================
