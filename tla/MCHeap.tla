------------------------------- MODULE MCHeap -------------------------------
(* Model values for Heap: pages of two small blocks or one large one, words
   of four bits, eight bits to a frame, tables of two entries, and memory
   maps with holes in the middle, at an edge, and off the frame boundaries. *)
EXTENDS Heap

MCBlockSize == <<1, 2>>
MCLayouts == {[size |-> 1, align |-> 1], [size |-> 1, align |-> 2],
              [size |-> 3, align |-> 2]}

Map(mem, reserved) ==
  [mem |-> [i \in 1..Entries |-> IF i <= Len(mem) THEN mem[i] ELSE NoRegion],
   reserved |-> reserved]

(* One region with firmware, device tree and kernel in it; one cut at both
   ends and off the frames; two regions, of which the larger one is cut by
   one reserved region in each of the first three passes. *)
CutMaps ==
  {Map(<<Region(0, 33)>>, <<Region(0, 1), Region(30, 2), Region(3, 3)>>),
   Map(<<Region(1, 27)>>, <<Region(26, 9), Region(0, 2)>>),
   Map(<<Region(50, 6), Region(0, 40)>>,
       <<Region(2, 1), Region(6, 2), Region(36, 3), Region(52, 2)>>)}

(* The first region is reserved as a whole: the part that the first pass
   splits off the second one is passed over in the next. *)
SwallowedMaps ==
  {Map(<<Region(0, 4), Region(10, 40)>>,
       <<Region(0, 4), Region(12, 2), Region(20, 2)>>)}

MCMemoryInputs == CutMaps \union SwallowedMaps
=============================================================================
