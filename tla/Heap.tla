-------------------------------- MODULE Heap --------------------------------
(***************************************************************************)
(* The kernel heap (mm/heap_allocator.rs) on top of the page frames, from  *)
(* the calculation of available memory at boot on.                         *)
(*                                                                         *)
(* A request is rounded up to a size class.  Each class has a list of free *)
(* blocks; an empty one is refilled with the blocks of a fresh page, which *)
(* is mapped behind the last page of the heap.  Requests of more than a    *)
(* page take fresh pages, and are never reused.                            *)
(*                                                                         *)
(* One caller at a time is inside the allocator (HEAP_MANAGER), but while  *)
(* it is there other tasks take and return page frames for DMA buffers, so *)
(* each call of alloc_frame under it is a step of its own.  The model ends *)
(* where the code maps a page that has no frame behind it: what the lists  *)
(* in such pages hold is undefined.                                        *)
(***************************************************************************)
EXTENDS Frames

CONSTANTS
  MemoryInputs,   (* what the device tree says: [mem, reserved] *)
  BlockSize,      (* the block size of each class (powers of two) *)
  TableEntries,   (* PAGE_TABLE_ENTRIES (512) *)
  BootTables,     (* the tables setup_page_tables creates (6) *)
  Layouts,        (* the layouts asked for: [size, align] *)
  MaxPages,       (* bound: the pages the heap may grow to *)
  MaxLive,        (* bound: the blocks in use at a time *)
  MaxBuffers      (* bound: the DMA buffers in use at a time *)

HeadCount == Len(BlockSize)
Classes == 1..HeadCount

ASSUME BlockSizeAssumption ==
  /\ BlockSize \in Seq(Nat \ {0})
  /\ \A c, d \in Classes : c < d =>
       BlockSize[c] < BlockSize[d] /\ BlockSize[d] % BlockSize[c] = 0
  /\ BlockSize # <<>> /\ BlockSize[HeadCount] = PageSize
ASSUME LayoutAssumption ==
  \A l \in Layouts : l.size \in Nat \ {0} /\ \E c \in Classes : l.align = BlockSize[c]
ASSUME RegionsAssumption ==
  \A input \in MemoryInputs :
    LargestRegions(CalcAvailableMem(input.mem, input.reserved)) \subseteq [addr : Nat, size : Nat]

VARIABLES
  boot,       (* the memory input of this boot; never changes *)
  heads,      (* Heap.heads: per class the free blocks, the first one first *)
  multiPage,  (* Heap.multi_page_list: [addr, pages] *)
  pages,      (* the frame behind each page of the heap; HEAP_SIZE is their number *)
  tables,     (* the frames of the page tables *)
  buffers,    (* the frames of DMA buffers *)
  inUse,      (* what the callers were given and did not return: [addr, layout] *)
  call        (* what the caller inside the allocator still has to do *)

heapVars == <<heads, multiPage, inUse>>
backVars == <<pages, tables, buffers>>
vars == <<frameVars, boot, heapVars, backVars, call>>

Idle == [do |-> "idle"]
HeapSize == Len(pages) * PageSize

(* A page of the heap, or a page table, has no frame behind it. *)
Unbacked == Null \in Range(pages) \union Range(tables)

-----------------------------------------------------------------------------
(* Where a request goes: the smallest class whose blocks are large enough
   and aligned, or HeadCount + 1 if it needs whole pages. *)
HeadIndexBySize(l) ==
  CHOOSE c \in 1..(HeadCount + 1) :
    /\ c <= HeadCount => l.size <= BlockSize[c]
    /\ \A d \in 1..(c - 1) : l.size > BlockSize[d]
HeadIndex(l) ==
  CHOOSE c \in 1..(HeadCount + 1) :
    /\ c <= HeadCount => l.size <= BlockSize[c] /\ l.align <= BlockSize[c]
    /\ \A d \in 1..(c - 1) : l.size > BlockSize[d] \/ l.align > BlockSize[d]

PagesNeeded(l) == CeilDiv(l.size, PageSize)

(* map_page of the next page of the heap creates the tables on its way that
   are missing: pages are mapped in order, so one of the last level before
   every TableEntries pages, and one above it before as many of those. *)
MissingTables ==
  Cardinality({n \in {TableEntries, TableEntries * TableEntries} :
                 Len(pages) % n = 0})

(* The allocator asks for a fresh page, to go on with what k says. *)
WantPage(k) == [do |-> "page", for |-> k]

Init ==
  /\ boot \in MemoryInputs
  /\ \E region \in LargestRegions(CalcAvailableMem(boot.mem, boot.reserved)) :
       NewAllocator(region)
  /\ heads = [c \in Classes |-> <<>>]
  /\ multiPage = <<>>
  /\ pages = <<>>
  /\ tables = <<>>
  /\ buffers = {}
  /\ inUse = {}
  /\ call = [do |-> "setup", left |-> BootTables]

-----------------------------------------------------------------------------
(***************************************************************************)
(* Under the lock of the heap, and during boot.                            *)
(***************************************************************************)

(* f is what alloc_frame returns: a frame, or Null if there is none. *)
FrameOrNull(f) == AllocFrame(f) \/ (f = Null /\ NoFrame)

(* setup_page_tables: one PageTable::new after the other; then init_heap
   refills every class. *)
SetupPageTables(f) ==
  /\ call.do = "setup"
  /\ ~Unbacked
  /\ FrameOrNull(f)
  /\ tables' = Append(tables, f)
  /\ call' = IF call.left > 1 THEN [call EXCEPT !.left = @ - 1]
             ELSE WantPage([do |-> "init", class |-> 1])
  /\ UNCHANGED <<boot, heapVars, pages, buffers>>

(* alloc_heap_page: alloc_frame for the page itself ... *)
TakePage(f) ==
  /\ call.do = "page"
  /\ FrameOrNull(f)
  /\ call' = [do |-> "map", for |-> call.for, frame |-> f, missing |-> MissingTables]
  /\ UNCHANGED <<boot, heapVars, backVars>>

(* ... and in map_page for each table that is missing. *)
TakeTable(f) ==
  /\ call.do = "map"
  /\ call.missing > 0
  /\ ~Unbacked
  /\ FrameOrNull(f)
  /\ tables' = Append(tables, f)
  /\ call' = [call EXCEPT !.missing = @ - 1]
  /\ UNCHANGED <<boot, heapVars, pages, buffers>>

(* The page is mapped: its address is the size of the heap so far. *)
MappedPage ==
  /\ call.do = "map"
  /\ call.missing = 0
  /\ ~Unbacked
  /\ pages' = Append(pages, call.frame)
  /\ UNCHANGED <<frameVars, boot, tables, buffers>>

(* refill_head pushes the blocks of the page at addr, the last one ends up
   first. *)
RefilledPastEnd(c, addr) ==
  [k \in 1..(PageSize \div BlockSize[c] + 1) |-> addr + PageSize - (k - 1) * BlockSize[c]]
Refilled(c, addr) ==
  [k \in 1..(PageSize \div BlockSize[c]) |-> addr + PageSize - k * BlockSize[c]]

(* init_heap: the classes in turn. *)
InitHead ==
  /\ MappedPage
  /\ call.for.do = "init"
  /\ heads' = [heads EXCEPT ![call.for.class] = Refilled(call.for.class, HeapSize)]
  /\ call' = IF call.for.class < HeadCount
             THEN WantPage([do |-> "init", class |-> call.for.class + 1])
             ELSE Idle
  /\ UNCHANGED <<multiPage, inUse>>

(* alloc goes on once its list has been refilled. *)
RefillHead ==
  /\ MappedPage
  /\ call.for.do = "refill"
  /\ LET c == HeadIndex(call.for.layout)
         list == Refilled(c, HeapSize)
     IN  /\ heads' = [heads EXCEPT ![c] = Tail(list)]
         /\ inUse' = inUse \union {[addr |-> Head(list), layout |-> call.for.layout]}
  /\ call' = Idle
  /\ UNCHANGED multiPage

(* alloc of several pages: the first one is returned when the last one is
   mapped. *)
AllocPages ==
  /\ MappedPage
  /\ call.for.do = "pages"
  /\ IF call.for.left > 1
       THEN /\ call' = WantPage([call.for EXCEPT !.left = @ - 1])
            /\ UNCHANGED inUse
       ELSE /\ inUse' = inUse \union {[addr |-> call.for.first, layout |-> call.for.layout]}
            /\ call' = Idle
  /\ UNCHANGED <<heads, multiPage>>

-----------------------------------------------------------------------------
(***************************************************************************)
(* The callers.                                                            *)
(***************************************************************************)
Booted ==
  /\ call.do # "setup"
  /\ call.do \in {"page", "map"} => call.for.do # "init"
MayCall == call = Idle /\ ~Unbacked

(* alloc takes the first block of the list. *)
AllocFromList(l) ==
  /\ MayCall
  /\ Cardinality(inUse) < MaxLive
  /\ HeadIndex(l) \in Classes
  /\ heads[HeadIndex(l)] # <<>>
  /\ inUse' = inUse \union {[addr |-> Head(heads[HeadIndex(l)]), layout |-> l]}
  /\ heads' = [heads EXCEPT ![HeadIndex(l)] = Tail(@)]
  /\ UNCHANGED <<frameVars, boot, multiPage, backVars, call>>

(* alloc finds the list empty, or needs whole pages. *)
AllocFresh(l) ==
  /\ MayCall
  /\ Cardinality(inUse) < MaxLive
  /\ HeadIndex(l) \in Classes => heads[HeadIndex(l)] = <<>>
  /\ LET n == IF HeadIndex(l) \in Classes THEN 1 ELSE PagesNeeded(l)
     IN  /\ Len(pages) + n <= MaxPages
         /\ call' = WantPage(
              IF HeadIndex(l) \in Classes THEN [do |-> "refill", layout |-> l]
              ELSE [do |-> "pages", left |-> n, first |-> HeapSize, layout |-> l])
  /\ UNCHANGED <<frameVars, boot, heapVars, backVars>>

(* dealloc puts a block in front of its list, and pages on a list that
   nothing is ever taken from. *)
Dealloc(b) ==
  /\ MayCall
  /\ inUse' = inUse \ {b}
  /\ IF HeadIndex(b.layout) \in Classes
       THEN /\ heads' = [heads EXCEPT ![HeadIndex(b.layout)] = <<b.addr>> \o @]
            /\ UNCHANGED multiPage
       ELSE /\ multiPage' =
                 <<[addr |-> b.addr, pages |-> PagesNeeded(b.layout)]>> \o multiPage
            /\ UNCHANGED heads
  /\ UNCHANGED <<frameVars, boot, backVars, call>>

(* UsbDmaBuffer::new_zeroed, after boot in any task; without a frame it
   fails, which changes nothing. *)
NewBuffer(f) ==
  /\ Booted
  /\ ~Unbacked
  /\ Cardinality(buffers) < MaxBuffers
  /\ AllocFrame(f)
  /\ buffers' = buffers \union {f}
  /\ UNCHANGED <<boot, heapVars, pages, tables, call>>

(* UsbDmaBuffer::drop. *)
DropBuffer(f) ==
  /\ ~Unbacked
  /\ DeallocFrame(f)
  /\ buffers' = buffers \ {f}
  /\ UNCHANGED <<boot, heapVars, pages, tables, call>>

Next ==
  \/ \E f \in BitNumbers \union {Null} :
       SetupPageTables(f) \/ TakePage(f) \/ TakeTable(f)
  \/ InitHead
  \/ RefillHead
  \/ AllocPages
  \/ \E l \in Layouts : AllocFromList(l) \/ AllocFresh(l)
  \/ \E b \in inUse : Dealloc(b)
  \/ \E f \in BitNumbers : NewBuffer(f)
  \/ \E f \in buffers : DropBuffer(f)

Spec == Init /\ [][Next]_vars

-----------------------------------------------------------------------------
(***************************************************************************)
(* Properties.                                                             *)
(***************************************************************************)
(* "Available physical memory regions" (mm/mod.rs:42): every frame that the
   kernel may hand out lies within what the device tree calls memory and
   touches nothing that is reserved.  The code does not keep this where a
   reserved region swallows a memory region or what is left of one: a pass
   of calc_available_mem then skips a part too many (see MemoryMap). *)
FramesAvoidReserved ==
  \A f \in FrameNumbers :
    LET frame == Bytes(Region(start + f * PageSize, PageSize))
    IN  /\ \A byte \in frame : \E m \in Range(boot.mem) : byte \in Bytes(m)
        /\ \A r \in Range(boot.reserved) : frame \intersect Bytes(r) = {}

(* Who has frame f: the bitmap itself, a page table, a page of the heap, the
   page being mapped, or a buffer. *)
Holders(f) ==
  (IF f < BitmapFrames THEN {<<"bitmap", 0>>} ELSE {})
    \union {<<"table", k>> : k \in {i \in DOMAIN tables : tables[i] = f}}
    \union {<<"page", k>> : k \in {i \in DOMAIN pages : pages[i] = f}}
    \union (IF call.do = "map" /\ call.frame = f THEN {<<"call", 0>>} ELSE {})
    \union (IF f \in buffers THEN {<<"buffer", 0>>} ELSE {})

(* No frame has two holders, whatever is taken and returned in between by
   others, and the bitmap knows exactly the frames that have one: none leaks
   and none is refused while it is free. *)
FramesHaveOneHolder ==
  /\ \A f \in BitNumbers :
       /\ \A h, g \in Holders(f) : h = g
       /\ Marked(f) <=> Holders(f) # {}
  /\ Exhausted => \A f \in FrameNumbers : Holders(f) # {}

(* The blocks on the free lists, by address and size. *)
FreeBlocks ==
  (UNION {{Region(heads[c][k], BlockSize[c]) : k \in DOMAIN heads[c]} : c \in Classes})
    \union {Region(m.addr, m.pages * PageSize) : m \in Range(multiPage)}

(* The block behind what a caller was given. *)
BlockOf(b) ==
  Region(b.addr, IF HeadIndex(b.layout) \in Classes THEN BlockSize[HeadIndex(b.layout)]
                 ELSE PagesNeeded(b.layout) * PageSize)

(* The lists and the callers share the heap without overlap: a block is on
   one list once, or in use, and a list never holds a block that overlaps
   another one of any size.  Together they are all of the heap, save for the
   pages of a call that is not finished. *)
BlocksPartitionHeap ==
  LET blocks == FreeBlocks \union {BlockOf(b) : b \in inUse}
      unfinished == IF call.do \in {"page", "map"} /\ call.for.do = "pages"
                    THEN HeapSize - call.for.first ELSE 0
  IN  /\ \A c \in Classes : IsInjective(heads[c])
      /\ IsInjective(multiPage)
      /\ \A x, y \in blocks : x # y => Bytes(x) \intersect Bytes(y) = {}
      /\ FreeBlocks \intersect {BlockOf(b) : b \in inUse} = {}
      /\ UNION {Bytes(x) : x \in blocks} = 0..(HeapSize - unfinished - 1)

(* To its callers the heap is a pool of blocks that are large enough,
   aligned, and disjoint while in use. *)
Pool == INSTANCE BlockPool
ImplementsBlockPool == Pool!PoolSpec
=============================================================================
