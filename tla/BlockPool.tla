------------------------------ MODULE BlockPool ------------------------------
(***************************************************************************)
(* What the kernel's global allocator promises to its callers: a request   *)
(* is answered with memory that is large enough, aligned as asked, and not *)
(* part of any other block still in use.                                   *)
(***************************************************************************)
EXTENDS Integers

CONSTANT Layouts    (* the layouts that are asked for: [size, align] *)
VARIABLE inUse      (* the blocks in use: [addr, layout] *)

Span(b) == b.addr .. (b.addr + b.layout.size - 1)

PoolInit == inUse = {}

Allocated(addr, l) ==
  LET b == [addr |-> addr, layout |-> l]
  IN  /\ addr \in Nat
      /\ addr % l.align = 0
      /\ \A other \in inUse : Span(b) \intersect Span(other) = {}
      /\ inUse' = inUse \union {b}

Freed(b) == inUse' = inUse \ {b}

PoolNext ==
  \/ \E b \in inUse' : Allocated(b.addr, b.layout)
  \/ \E b \in inUse : Freed(b)

PoolSpec == PoolInit /\ [][PoolNext]_inUse
=============================================================================
