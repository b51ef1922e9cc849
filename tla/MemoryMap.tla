----------------------------- MODULE MemoryMap -----------------------------
(***************************************************************************)
(* The physical memory the kernel may use (mm/memory.rs): the regions of   *)
(* the device tree without the reserved ones and the kernel's own image.   *)
(*                                                                         *)
(* calc_available_mem works in passes over an array of fixed size.  In     *)
(* each pass every region is cut by every reserved region in turn; a cut   *)
(* in the middle leaves the left part in place and puts the right part     *)
(* behind the regions there are, and only those new parts are looked at in *)
(* the next pass.                                                          *)
(***************************************************************************)
EXTENDS Integers, SequencesExt

CONSTANT Entries    (* the length of the arrays (32) *)

Region(addr, size) == [addr |-> addr, size |-> size]
NoRegion == Region(0, 0)
End(r) == r.addr + r.size
Bytes(r) == r.addr .. (End(r) - 1)

(* The parts of m before and behind r. *)
Below(m, r) == Region(m.addr, r.addr - m.addr)
AboveFromStart(m, r) == Region(r.addr, End(m) - r.addr)
Above(m, r) == Region(End(r), End(m) - End(r))

(* region_diff: what is left of m in its place, and the part split off. *)
RegionDiff(m, r) ==
  LET apart == End(r) <= m.addr \/ End(m) <= r.addr
  IN  CASE apart -> <<m, NoRegion>>
        [] ~apart /\ m.addr < r.addr /\ End(r) < End(m) -> <<Below(m, r), Above(m, r)>>
        [] ~apart /\ m.addr < r.addr /\ End(m) <= End(r) -> <<Below(m, r), NoRegion>>
        [] ~apart /\ r.addr <= m.addr /\ End(r) < End(m) -> <<Above(m, r), NoRegion>>
        [] ~apart /\ r.addr <= m.addr /\ End(m) <= End(r) -> <<NoRegion, NoRegion>>

(* One region against all reserved ones: [left, parts split off]. *)
CutRegion(m, reserved) ==
  FoldLeft(LAMBDA cut, r :
             LET diff == RegionDiff(cut.left, r)
             IN  [left |-> diff[1],
                  split |-> IF diff[2].size = 0 THEN cut.split
                            ELSE Append(cut.split, diff[2])],
           [left |-> m, split |-> <<>>], reserved)

(* The positions that hold a region, without the first skip of them. *)
Positions(mem, skip) ==
  LET used == SelectSeq([i \in 1..Entries |-> i], LAMBDA i : mem[i].size # 0)
  IN  SubSeq(used, skip + 1, Len(used))

(* One pass.  The new parts go behind the index regions there are, and
   overwrite the array from there; those it has no room for are dropped. *)
Pass(calc, reserved) ==
  LET at == Positions(calc.mem, calc.skip)
      new == FlattenSeq([i \in 1..Len(at) |->
               CutRegion(calc.mem[at[i]], reserved).split])
      cut == [i \in 1..Entries |->
               IF Contains(at, i) THEN CutRegion(calc.mem[i], reserved).left
               ELSE calc.mem[i]]
  IN  IF calc.done THEN calc
      ELSE IF new = <<>> \/ calc.index >= Entries
        THEN [calc EXCEPT !.mem = cut, !.done = TRUE]
        ELSE [mem |-> [i \in 1..Entries |->
                         IF i <= calc.index THEN cut[i]
                         ELSE IF i - calc.index <= Len(new) THEN new[i - calc.index]
                         ELSE NoRegion],
              skip |-> calc.index,
              index |-> calc.index + Len(new),
              done |-> FALSE]

(* calc_available_mem, without the order: every pass but the last finds a
   new part, so there are at most Entries + 1 of them. *)
CalcAvailableMem(mem, reserved) ==
  LET first == SelectInSeq(mem, LAMBDA r : r.size = 0)
      start == [mem |-> mem, skip |-> 0, done |-> FALSE,
                index |-> IF first = 0 THEN Entries ELSE first - 1]
  IN  FoldLeft(LAMBDA calc, k : Pass(calc, reserved), start,
               [k \in 1..(Entries + 1) |-> k]).mem

(* The array is sorted by size, the largest first; it does not say which
   of two regions of one size comes first. *)
LargestRegions(mem) ==
  {m \in Range(mem) : \A other \in Range(mem) : other.size <= m.size}
=============================================================================
