------------------------------- MODULE Frames -------------------------------
(***************************************************************************)
(* The page frame allocator (mm/frame_allocator.rs): a bitmap, kept in the *)
(* first frames of the region it manages, with one bit per frame and room  *)
(* for more bits than there are frames.  A frame is named by its position  *)
(* in the region.  Each call runs under the lock of                        *)
(* BOOT_PHYS_MEM_MANAGER and is one step of whoever makes it.              *)
(***************************************************************************)
EXTENDS MemoryMap, FiniteSets

CONSTANTS
  PageSize,     (* PAGE_SIZE, the size of a frame, in units *)
  WordBits,     (* the bits of a usize (64) *)
  FrameWords,   (* the words of a frame (512) *)
  MinFrames     (* new() asserts more than this many frames' worth (10) *)

ASSUME PageSizeAssumption == PageSize \in Nat \ {0}
ASSUME WordBitsAssumption == WordBits \in Nat \ {0}
ASSUME FrameWordsAssumption == FrameWords \in Nat \ {0}
ASSUME MinFramesAssumption == MinFrames \in Nat \ {0}

VARIABLES
  start,        (* BitMapFrameAllocator.start *)
  total,        (* BitMapFrameAllocator.total_frames *)
  bitmap        (* the bits that are set, by word *)

frameVars == <<start, total, bitmap>>

Null == -1      (* ptr::null_mut() *)

Bits == 0..(WordBits - 1)
CeilDiv(a, b) == (a + b - 1) \div b
Frame(word, bit) == word * WordBits + bit

(* BitMapFrameAllocator.bitmap_frames *)
BitmapFrames == CeilDiv(total, WordBits * FrameWords)
Words == 0..(BitmapFrames * FrameWords - 1)
FrameNumbers == 0..(total - 1)
BitNumbers == 0..(BitmapFrames * FrameWords * WordBits - 1)

(* Frames whose bit is set. *)
Marked(f) == \E w \in Words : \E b \in bitmap[w] : f = Frame(w, b)

(* BitMapFrameAllocator::new: the whole frames of the region; the frames
   the bitmap lies in are taken from the start. *)
NewAllocator(region) ==
  /\ region.size > MinFrames * PageSize
  /\ start = CeilDiv(region.addr, PageSize) * PageSize
  /\ total = (End(region) \div PageSize) - (start \div PageSize)
  /\ bitmap = [w \in Words |-> {b \in Bits : Frame(w, b) < BitmapFrames}]

(* The first bit that is clear: in the first word that is not full, the
   number of its trailing ones. *)
FirstClear(w, b) ==
  /\ b \in Bits \ bitmap[w]
  /\ \A lower \in 0..(b - 1) : lower \in bitmap[w]
  /\ \A before \in 0..(w - 1) : bitmap[before] = Bits

(* alloc_frame, which hands out frame f: a bit behind the last frame ends
   the search. *)
AllocFrame(f) ==
  \E w \in Words, b \in Bits :
    /\ FirstClear(w, b)
    /\ f = Frame(w, b)
    /\ f < total
    /\ bitmap' = [bitmap EXCEPT ![w] = @ \union {b}]
    /\ UNCHANGED <<start, total>>

(* alloc_frame, which returns null: the search finds nothing. *)
Exhausted == \A w \in Words, b \in Bits : FirstClear(w, b) => Frame(w, b) >= total
NoFrame == Exhausted /\ UNCHANGED frameVars

(* dealloc_frame of a frame. *)
DeallocFrameInverted(f) ==
  /\ bitmap' = [bitmap EXCEPT ![f \div WordBits] = @ \intersect {f % WordBits}]
  /\ UNCHANGED <<start, total>>
DeallocFrame(f) ==
  /\ bitmap' = [bitmap EXCEPT ![f \div WordBits] = @ \ {f % WordBits}]
  /\ UNCHANGED <<start, total>>
=============================================================================
