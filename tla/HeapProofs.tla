----------------------------- MODULE HeapProofs -----------------------------
(***************************************************************************)
(* Proofs about Heap and Frames, for every size of memory, of words, of    *)
(* frames and of page tables.                                              *)
(***************************************************************************)
EXTENDS Heap, SequenceTheorems, WellFoundedInduction, TLAPS

(* The provers may take their time on a slow machine. *)
USE SMTT(30), ZenonT(30)

(* A number of numbers has a least one. *)
LEMMA Least ==
  ASSUME NEW T \in SUBSET Nat, T # {}
  PROVE  \E x \in T : \A y \in T : x <= y
<1>1. PICK x \in T : \A y \in T : ~ (<<y, x>> \in OpToRel(<, Nat))
  BY NatLessThanWellFounded, WFMin
<1>2. \A y \in T : ~ (y < x)
  BY <1>1 DEF OpToRel
<1>3. QED BY <1>2

(* Words and bits of a number. *)
LEMMA Split ==
  ASSUME NEW B \in Nat \ {0}, NEW n \in Nat, NEW f \in 0..(n * B - 1)
  PROVE  /\ f \div B \in 0..(n - 1)
         /\ f % B \in 0..(B - 1)
         /\ (f \div B) * B + (f % B) = f
<1>1. /\ f \div B \in Int /\ f % B \in 0..(B - 1)
      /\ f = B * (f \div B) + (f % B)
  OBVIOUS
<1> DEFINE q == f \div B
           r == f % B
<1> HIDE DEF q, r
<1>2. q \in Int /\ r \in 0..(B - 1) /\ f = B * q + r /\ f >= 0 /\ f < n * B
  BY <1>1 DEF q, r
<1>3. q >= 0
  <2>1. SUFFICES ASSUME q <= -1 PROVE FALSE
    BY <1>2
  <2>2. B * q <= B * (-1)
    BY <1>2, <2>1
  <2>3. QED BY <1>2, <2>2
<1>4. q < n
  <2>1. SUFFICES ASSUME q >= n PROVE FALSE
    BY <1>2
  <2>2. B * q >= B * n
    BY <1>2, <2>1
  <2>3. B * n = n * B
    OBVIOUS
  <2>4. QED BY <1>2, <2>2, <2>3
<1>5. B * q = q * B
  BY <1>2
<1>6. QED BY <1>2, <1>3, <1>4, <1>5 DEF q, r

LEMMA Order ==
  ASSUME NEW B \in Nat \ {0}, NEW w \in Nat, NEW v \in Nat,
         NEW b \in 0..(B - 1), NEW c \in 0..(B - 1), w < v
  PROVE  w * B + b < v * B + c
<1>1. (w + 1) * B <= v * B
  OBVIOUS
<1>2. (w + 1) * B = w * B + B
  OBVIOUS
<1>3. QED BY <1>1, <1>2

LEMMA Unique ==
  ASSUME NEW B \in Nat \ {0}, NEW w \in Nat, NEW v \in Nat,
         NEW b \in 0..(B - 1), NEW c \in 0..(B - 1), w * B + b = v * B + c
  PROVE  w = v /\ b = c
<1>1. w * B + b \in Nat /\ v * B + c \in Nat
  OBVIOUS
<1>2. ~(w < v) /\ ~(v < w)
  BY <1>1, Order
<1>3. w = v
  BY <1>2
<1>4. QED BY <1>3

(* Rounding up. *)
LEMMA RoundUp ==
  ASSUME NEW a \in Nat, NEW b \in Nat \ {0}
  PROVE  CeilDiv(a, b) \in Nat /\ CeilDiv(a, b) * b >= a
<1> DEFINE s == a + b - 1
           q == s \div b
           r == s % b
<1>1. s \in Nat
  OBVIOUS
<1>2. q \in Int /\ r \in 0..(b - 1) /\ s = b * q + r
  BY <1>1
<1> HIDE DEF q, r
<1>3. q >= 0
  <2>1. SUFFICES ASSUME q <= -1 PROVE FALSE
    BY <1>2
  <2>2. b * q <= b * (-1)
    BY <1>2, <2>1
  <2>3. QED BY <1>1, <1>2, <2>2
<1>4. b * q >= a
  BY <1>2
<1>5. q * b = b * q
  BY <1>2
<1>6. QED BY <1>2, <1>3, <1>4, <1>5 DEF CeilDiv, q

-----------------------------------------------------------------------------
(* The bitmap. *)

(* The allocator knows its memory, and has a bit for each frame and more. *)
BitmapType ==
  /\ total \in Nat
  /\ bitmap \in [Words -> SUBSET Bits]

LEMMA Layout ==
  ASSUME total \in Nat
  PROVE  /\ WordBits \in Nat \ {0} /\ FrameWords \in Nat \ {0}
         /\ BitmapFrames \in Nat
         /\ BitmapFrames * FrameWords \in Nat
         /\ BitNumbers = 0..((BitmapFrames * FrameWords) * WordBits - 1)
         /\ FrameNumbers \subseteq BitNumbers
<1>1. WordBits \in Nat \ {0} /\ FrameWords \in Nat \ {0}
  BY WordBitsAssumption, FrameWordsAssumption
<1> DEFINE k == WordBits * FrameWords
<1>2. k \in Nat \ {0}
  BY <1>1
<1>3. BitmapFrames = CeilDiv(total, k)
  BY DEF BitmapFrames
<1> HIDE DEF k
<1>4. BitmapFrames \in Nat /\ BitmapFrames * k >= total
  BY <1>2, <1>3, RoundUp
<1>5. BitmapFrames * FrameWords \in Nat
  BY <1>1, <1>4
<1>6. BitmapFrames * k = (BitmapFrames * FrameWords) * WordBits
  BY <1>1, <1>4 DEF k
<1>7. BitNumbers = 0..((BitmapFrames * FrameWords) * WordBits - 1)
  BY DEF BitNumbers
<1>8. FrameNumbers \subseteq BitNumbers
  <2> DEFINE n == (BitmapFrames * FrameWords) * WordBits
  <2>1. n \in Nat /\ n >= total /\ BitNumbers = 0..(n - 1)
    BY <1>1, <1>4, <1>5, <1>6, <1>7
  <2> HIDE DEF n
  <2>2. QED BY <2>1 DEF FrameNumbers
<1>9. QED BY <1>1, <1>4, <1>5, <1>7, <1>8

(* Every bit has one number, and every number one bit. *)
LEMMA Numbers ==
  ASSUME total \in Nat
  PROVE  /\ \A f \in BitNumbers :
              /\ f \div WordBits \in Words /\ f % WordBits \in Bits
              /\ Frame(f \div WordBits, f % WordBits) = f
         /\ \A w, v \in Words : \A b, c \in Bits :
              /\ Frame(w, b) \in Nat
              /\ Frame(w, b) = Frame(v, c) => w = v /\ b = c
              /\ w < v => Frame(w, b) < Frame(v, c)
<1> DEFINE n == BitmapFrames * FrameWords
<1>1. /\ WordBits \in Nat \ {0} /\ n \in Nat
      /\ BitNumbers = 0..(n * WordBits - 1) /\ Words = 0..(n - 1)
  BY Layout DEF Words
<1> HIDE DEF n
<1>2. ASSUME NEW f \in BitNumbers
      PROVE  /\ f \div WordBits \in Words /\ f % WordBits \in Bits
             /\ Frame(f \div WordBits, f % WordBits) = f
  BY <1>1, Split DEF Bits, Frame
<1>3. ASSUME NEW w \in Words, NEW v \in Words, NEW b \in Bits, NEW c \in Bits
      PROVE  /\ Frame(w, b) \in Nat
             /\ Frame(w, b) = Frame(v, c) => w = v /\ b = c
             /\ w < v => Frame(w, b) < Frame(v, c)
  <2>1. w \in Nat /\ v \in Nat /\ b \in 0..(WordBits - 1) /\ c \in 0..(WordBits - 1)
    BY <1>1 DEF Bits
  <2>2. Frame(w, b) \in Nat
    BY <1>1, <2>1 DEF Frame
  <2>3. Frame(w, b) = Frame(v, c) => w = v /\ b = c
    BY <1>1, <2>1, Unique DEF Frame
  <2>4. w < v => Frame(w, b) < Frame(v, c)
    BY <1>1, <2>1, Order DEF Frame
  <2>5. QED BY <2>2, <2>3, <2>4
<1>4. QED BY <1>2, <1>3

(* alloc_frame marks one frame that was not marked. *)
LEMMA AllocMarks ==
  ASSUME BitmapType, NEW f, AllocFrame(f)
  PROVE  /\ f \in BitNumbers /\ ~Marked(f)
         /\ total' = total /\ BitmapType'
         /\ \A g \in BitNumbers : Marked(g)' <=> Marked(g) \/ g = f
<1>1. PICK w \in Words, b \in Bits :
        /\ FirstClear(w, b) /\ f = Frame(w, b) /\ f < total
        /\ bitmap' = [bitmap EXCEPT ![w] = bitmap[w] \union {b}]
  BY DEF AllocFrame
<1>2. total' = total /\ start' = start
  BY DEF AllocFrame
<1>3. total \in Nat /\ bitmap \in [Words -> SUBSET Bits] /\ b \notin bitmap[w]
  BY <1>1 DEF BitmapType, FirstClear
<1>4. /\ f \in Nat /\ f \in BitNumbers
      /\ \A v \in Words, c \in Bits : f = Frame(v, c) => v = w /\ c = b
  <2>1. f \in Nat /\ \A v \in Words, c \in Bits : f = Frame(v, c) => v = w /\ c = b
    BY <1>1, <1>3, Numbers
  <2>2. f \in FrameNumbers
    BY <1>1, <1>3, <2>1 DEF FrameNumbers
  <2>3. QED BY <1>3, <2>1, <2>2, Layout
<1>5. ~Marked(f)
  <2>1. SUFFICES ASSUME NEW v \in Words, NEW c \in bitmap[v], f = Frame(v, c)
                 PROVE  FALSE
    BY DEF Marked
  <2>2. c \in Bits
    BY <1>3
  <2>3. QED BY <1>3, <1>4, <2>1, <2>2
<1>6. Words' = Words /\ Bits' = Bits
  BY <1>2 DEF Words, Bits, BitmapFrames
<1>7. BitmapType'
  BY <1>1, <1>2, <1>3, <1>6 DEF BitmapType
<1>8. ASSUME NEW g \in BitNumbers PROVE Marked(g)' <=> Marked(g) \/ g = f
  <2>1. Marked(g)' <=> \E v \in Words : \E c \in bitmap'[v] : g = Frame(v, c)
    BY <1>6 DEF Marked
  <2>2. Marked(g) <=> \E v \in Words : \E c \in bitmap[v] : g = Frame(v, c)
    BY DEF Marked
  <2>3. \A v \in Words : bitmap'[v] = IF v = w THEN bitmap[v] \union {b} ELSE bitmap[v]
    BY <1>1, <1>3
  <2>4. QED BY <1>1, <2>1, <2>2, <2>3
<1>9. QED BY <1>2, <1>4, <1>5, <1>7, <1>8

(* dealloc_frame clears the mark of one frame. *)
LEMMA DeallocUnmarks ==
  ASSUME BitmapType, NEW f \in BitNumbers, DeallocFrame(f)
  PROVE  /\ total' = total /\ BitmapType'
         /\ \A g \in BitNumbers : Marked(g)' <=> Marked(g) /\ g # f
<1> DEFINE w == f \div WordBits
           b == f % WordBits
<1>1. /\ total' = total /\ total \in Nat /\ bitmap \in [Words -> SUBSET Bits]
      /\ bitmap' = [bitmap EXCEPT ![w] = bitmap[w] \ {b}]
  BY DEF DeallocFrame, BitmapType
<1>2. w \in Words /\ b \in Bits /\ Frame(w, b) = f
  BY <1>1, Numbers
<1> HIDE DEF w, b
<1>3. Words' = Words /\ Bits' = Bits
  BY <1>1 DEF Words, Bits, BitmapFrames
<1>4. BitmapType'
  BY <1>1, <1>2, <1>3 DEF BitmapType
<1>5. ASSUME NEW g \in BitNumbers PROVE Marked(g)' <=> Marked(g) /\ g # f
  <2>1. Marked(g)' <=> \E v \in Words : \E c \in bitmap'[v] : g = Frame(v, c)
    BY <1>3 DEF Marked
  <2>2. Marked(g) <=> \E v \in Words : \E c \in bitmap[v] : g = Frame(v, c)
    BY DEF Marked
  <2>3. \A v \in Words : bitmap'[v] = IF v = w THEN bitmap[v] \ {b} ELSE bitmap[v]
    BY <1>1, <1>2
  <2>4. \A v \in Words, c \in Bits : f = Frame(v, c) => v = w /\ c = b
    BY <1>1, <1>2, Numbers
  <2>5. \A v \in Words : bitmap[v] \subseteq Bits
    BY <1>1
  <2>6. QED BY <1>2, <2>1, <2>2, <2>3, <2>4, <2>5
<1>6. QED BY <1>1, <1>4, <1>5

(* alloc_frame finds nothing only when every frame is marked. *)
LEMMA SearchIsComplete ==
  ASSUME BitmapType, Exhausted, NEW f \in FrameNumbers
  PROVE  Marked(f)
<1> SUFFICES ASSUME ~Marked(f) PROVE FALSE
  OBVIOUS
<1> DEFINE v == f \div WordBits
           c == f % WordBits
<1>1. total \in Nat /\ bitmap \in [Words -> SUBSET Bits] /\ f \in BitNumbers /\ f < total
  BY Layout DEF BitmapType, FrameNumbers
<1>2. v \in Words /\ c \in Bits /\ Frame(v, c) = f
  BY <1>1, Numbers
<1> HIDE DEF v, c
<1>3. c \notin bitmap[v]
  BY <1>2 DEF Marked
<1>4. /\ WordBits \in Nat \ {0} /\ Words \subseteq Nat /\ Bits \subseteq Nat
      /\ \A w \in Words : 0..(w - 1) \subseteq Words
      /\ \A b \in Bits : 0..(b - 1) \subseteq Bits
  BY <1>1, Layout DEF Words, Bits
<1> DEFINE open == {w \in Words : bitmap[w] # Bits}
<1>5. PICK w \in open : \A x \in open : w <= x
  <2>1. open \in SUBSET Nat /\ v \in open
    BY <1>2, <1>3, <1>4
  <2> HIDE DEF open
  <2>2. QED BY <2>1, Least
<1>6. PICK b \in Bits \ bitmap[w] : \A x \in Bits \ bitmap[w] : b <= x
  <2>1. Bits \ bitmap[w] \in SUBSET Nat /\ Bits \ bitmap[w] # {}
    BY <1>1, <1>4, <1>5
  <2>2. QED BY <2>1, Least
<1>7. FirstClear(w, b)
  <2>1. ASSUME NEW x \in 0..(b - 1) PROVE x \in bitmap[w]
    <3>1. x \in Bits /\ x < b
      BY <1>4, <1>6
    <3>2. QED BY <1>4, <1>6, <3>1
  <2>2. ASSUME NEW x \in 0..(w - 1) PROVE bitmap[x] = Bits
    <3>1. x \in Words /\ x < w
      BY <1>4, <1>5
    <3>2. QED BY <1>4, <1>5, <3>1
  <2>3. QED BY <1>6, <2>1, <2>2 DEF FirstClear
<1>8. Frame(w, b) >= total
  BY <1>5, <1>6, <1>7 DEF Exhausted
<1>9. w <= v
  BY <1>2, <1>3, <1>5
<1>10. CASE w < v
  BY <1>1, <1>2, <1>5, <1>6, <1>8, <1>10, Numbers
<1>11. CASE w = v
  <2>1. b <= c
    BY <1>2, <1>3, <1>6, <1>11
  <2>2. Frame(w, b) <= Frame(v, c)
    BY <1>1, <1>2, <1>4, <1>6, <1>11, <2>1 DEF Frame
  <2>3. Frame(w, b) \in Nat /\ Frame(v, c) \in Nat
    BY <1>1, <1>2, <1>5, <1>6, Numbers
  <2>4. QED BY <1>1, <1>2, <1>8, <2>2, <2>3
<1>12. QED BY <1>2, <1>4, <1>5, <1>9, <1>10, <1>11

-----------------------------------------------------------------------------
(* The holders of frames. *)

(* The lists of frames, and the records that name one. *)
ListsType ==
  /\ pages \in Seq(BitNumbers \union {Null})
  /\ tables \in Seq(BitNumbers \union {Null})
  /\ buffers \subseteq BitNumbers
CallShape ==
  /\ call.do = "setup" => call = [do |-> "setup", left |-> call.left]
  /\ call.do = "map" =>
       /\ call = [do |-> "map", for |-> call.for, frame |-> call.frame,
                  missing |-> call.missing]
       /\ call.frame \in BitNumbers \union {Null}

OneHolder ==
  \A f \in BitNumbers :
    /\ \A h, g \in Holders(f) : h = g
    /\ Marked(f) <=> Holders(f) # {}

IInv == BitmapType /\ ListsType /\ CallShape /\ OneHolder

(* Holding is a matter of the lists and of what is being mapped. *)
LEMMA HoldersOf ==
  ASSUME NEW f, NEW h
  PROVE  h \in Holders(f) <=>
           \/ h = <<"bitmap", 0>> /\ f < BitmapFrames
           \/ \E k \in DOMAIN tables : h = <<"table", k>> /\ tables[k] = f
           \/ \E k \in DOMAIN pages : h = <<"page", k>> /\ pages[k] = f
           \/ h = <<"call", 0>> /\ call.do = "map" /\ call.frame = f
           \/ h = <<"buffer", 0>> /\ f \in buffers
BY DEF Holders

(* A step that touches no frame. *)
LEMMA SameHolders ==
  ASSUME IInv, UNCHANGED frameVars, UNCHANGED backVars,
         call.do # "map", call'.do # "map", CallShape'
  PROVE  IInv'
<1>1. /\ BitmapFrames' = BitmapFrames /\ Words' = Words /\ Bits' = Bits
      /\ BitNumbers' = BitNumbers
  BY DEF frameVars, BitmapFrames, Words, Bits, BitNumbers
<1>2. \A f : Marked(f)' = Marked(f) /\ Holders(f)' = Holders(f)
  BY <1>1 DEF Marked, Holders, frameVars, backVars
<1>3. BitmapType' /\ ListsType'
  BY <1>1 DEF IInv, BitmapType, ListsType, frameVars, backVars
<1>4. OneHolder'
  BY <1>1, <1>2 DEF IInv, OneHolder
<1>5. QED BY <1>3, <1>4 DEF IInv

(* A frame that alloc_frame returns gets the one holder n. *)
LEMMA NewHolder ==
  ASSUME IInv, NEW f, NEW n, AllocFrame(f), ListsType', CallShape',
         \A g \in BitNumbers :
           Holders(g)' = IF g = f THEN Holders(g) \union {n} ELSE Holders(g)
  PROVE  IInv'
<1>1. /\ f \in BitNumbers /\ ~Marked(f) /\ total' = total /\ BitmapType'
      /\ \A g \in BitNumbers : Marked(g)' <=> Marked(g) \/ g = f
  BY AllocMarks DEF IInv
<1>2. BitNumbers' = BitNumbers
  BY <1>1 DEF BitNumbers, BitmapFrames
<1>3. Holders(f) = {}
  BY <1>1 DEF IInv, OneHolder
<1>4. OneHolder'
  <2>1. ASSUME NEW g \in BitNumbers
        PROVE  /\ \A h, i \in Holders(g)' : h = i
               /\ Marked(g)' <=> Holders(g)' # {}
    <3>1. CASE g = f
      BY <1>1, <1>3, <3>1
    <3>2. CASE g # f
      BY <1>1, <3>2 DEF IInv, OneHolder
    <3>3. QED BY <3>1, <3>2
  <2>2. QED BY <1>2, <2>1 DEF OneHolder
<1>5. QED BY <1>1, <1>4 DEF IInv

(* A list of tables or pages gets another entry. *)
LEMMA Appended ==
  ASSUME NEW s \in Seq(BitNumbers \union {Null}), NEW f \in BitNumbers \union {Null}
  PROVE  /\ Append(s, f) \in Seq(BitNumbers \union {Null})
         /\ Len(s) \in Nat /\ DOMAIN s = 1..Len(s)
         /\ DOMAIN Append(s, f) = DOMAIN s \union {Len(s) + 1}
         /\ \A k \in DOMAIN s : Append(s, f)[k] = s[k]
         /\ Append(s, f)[Len(s) + 1] = f
<1> DEFINE t == Append(s, f)
<1>1. /\ t \in Seq(BitNumbers \union {Null}) /\ Len(t) = Len(s) + 1
      /\ \A k \in 1..Len(s) : t[k] = s[k]
      /\ t[Len(s) + 1] = f
  BY AppendProperties
<1>2. Len(s) \in Nat /\ DOMAIN s = 1..Len(s) /\ DOMAIN t = 1..Len(t)
  BY <1>1, LenProperties
<1> HIDE DEF t
<1>3. DOMAIN t = DOMAIN s \union {Len(s) + 1}
  BY <1>1, <1>2
<1>4. QED BY <1>1, <1>2, <1>3 DEF t

(* What alloc_frame may return, and that null changes nothing. *)
LEMMA Returned ==
  ASSUME IInv, NEW f, FrameOrNull(f)
  PROVE  /\ f \in BitNumbers \union {Null}
         /\ f \in BitNumbers => AllocFrame(f)
         /\ f = Null => UNCHANGED frameVars
         /\ Null \notin BitNumbers
         /\ BitNumbers' = BitNumbers /\ BitmapFrames' = BitmapFrames
         /\ BitmapType'
<1>1. Null \notin BitNumbers
  BY DEF Null, BitNumbers
<1>2. CASE AllocFrame(f)
  BY <1>1, <1>2, AllocMarks DEF IInv, BitNumbers, BitmapFrames
<1>3. CASE f = Null /\ NoFrame
  BY <1>1, <1>3 DEF IInv, NoFrame, frameVars, BitNumbers, BitmapFrames, BitmapType, Words, Bits
<1>4. QED BY <1>2, <1>3 DEF FrameOrNull

(* Null gives nobody a frame. *)
LEMMA NullHolder ==
  ASSUME IInv, UNCHANGED frameVars, ListsType', CallShape',
         \A g \in BitNumbers : Holders(g)' = Holders(g)
  PROVE  IInv'
<1>1. BitNumbers' = BitNumbers /\ Words' = Words /\ Bits' = Bits
  BY DEF frameVars, BitNumbers, BitmapFrames, Words, Bits
<1>2. BitmapType' /\ \A g : Marked(g)' = Marked(g)
  BY <1>1 DEF IInv, frameVars, BitmapType, Marked
<1>3. OneHolder'
  BY <1>1, <1>2 DEF IInv, OneHolder
<1>4. QED BY <1>2, <1>3 DEF IInv

-----------------------------------------------------------------------------
(* The steps. *)

LEMMA SetupIInv ==
  ASSUME IInv, NEW f, SetupPageTables(f)
  PROVE  IInv'
<1> DEFINE n == Len(tables) + 1
<1>1. /\ call.do = "setup" /\ FrameOrNull(f) /\ tables' = Append(tables, f)
      /\ pages' = pages /\ buffers' = buffers
      /\ call' = IF call.left > 1 THEN [call EXCEPT !.left = call.left - 1]
                 ELSE WantPage([do |-> "init", class |-> 1])
  BY DEF SetupPageTables
<1>2. call'.do # "map" /\ CallShape'
  <2>1. call = [do |-> "setup", left |-> call.left]
    BY <1>1 DEF IInv, CallShape
  <2>2. \/ call' = [do |-> "setup", left |-> call.left - 1]
        \/ call' = [do |-> "page", for |-> [do |-> "init", class |-> 1]]
    BY <1>1, <2>1 DEF WantPage
  <2>3. call'.do # "map" /\ (call'.do = "setup" => call' = [do |-> "setup", left |-> call'.left])
    BY <2>2
  <2>4. QED BY <2>3 DEF CallShape
<1>3. /\ f \in BitNumbers \union {Null}
      /\ tables' \in Seq(BitNumbers \union {Null})
      /\ DOMAIN tables' = DOMAIN tables \union {n} /\ n \notin DOMAIN tables
      /\ \A k \in DOMAIN tables : tables'[k] = tables[k]
      /\ tables'[n] = f
  BY <1>1, Returned, Appended DEF IInv, ListsType
<1> HIDE DEF n
<1>4. BitNumbers' = BitNumbers /\ BitmapFrames' = BitmapFrames /\ Null \notin BitNumbers
  BY <1>1, Returned
<1>5. ListsType'
  BY <1>1, <1>3, <1>4 DEF IInv, ListsType, Null
<1>6. ASSUME NEW g \in BitNumbers
      PROVE  Holders(g)' = IF g = f THEN Holders(g) \union {<<"table", n>>} ELSE Holders(g)
  <2>1. call'.do # "map" /\ call.do # "map"
    BY <1>1, <1>2
  <2>2. {k \in DOMAIN tables' : tables'[k] = g} =
          IF g = f THEN {k \in DOMAIN tables : tables[k] = g} \union {n}
          ELSE {k \in DOMAIN tables : tables[k] = g}
    BY <1>3
  <2>3. QED BY <1>1, <1>4, <2>1, <2>2 DEF Holders
<1>7. CASE f \in BitNumbers
  BY <1>1, <1>2, <1>5, <1>6, <1>7, Returned, NewHolder
<1>8. CASE f = Null
  BY <1>1, <1>2, <1>4, <1>5, <1>6, <1>8, Returned, NullHolder
<1>9. QED BY <1>3, <1>7, <1>8

LEMMA TakePageIInv ==
  ASSUME IInv, NEW f, TakePage(f)
  PROVE  IInv'
<1>1. /\ call.do = "page" /\ FrameOrNull(f)
      /\ tables' = tables /\ pages' = pages /\ buffers' = buffers
      /\ call' = [do |-> "map", for |-> call.for, frame |-> f, missing |-> MissingTables]
  BY DEF TakePage, backVars
<1>2. f \in BitNumbers \union {Null} /\ BitNumbers' = BitNumbers
      /\ BitmapFrames' = BitmapFrames /\ Null \notin BitNumbers
  BY <1>1, Returned
<1>3. CallShape' /\ ListsType'
  BY <1>1, <1>2 DEF IInv, CallShape, ListsType, Null
<1>4. ASSUME NEW g \in BitNumbers
      PROVE  Holders(g)' = IF g = f THEN Holders(g) \union {<<"call", 0>>} ELSE Holders(g)
  <2>1. call'.do = "map" /\ call'.frame = f /\ call.do # "map"
    BY <1>1
  <2>2. QED BY <1>1, <1>2, <2>1 DEF Holders
<1>5. CASE f \in BitNumbers
  BY <1>1, <1>3, <1>4, <1>5, Returned, NewHolder
<1>6. CASE f = Null
  BY <1>1, <1>2, <1>3, <1>4, <1>6, Returned, NullHolder
<1>7. QED BY <1>2, <1>5, <1>6

LEMMA TakeTableIInv ==
  ASSUME IInv, NEW f, TakeTable(f)
  PROVE  IInv'
<1> DEFINE n == Len(tables) + 1
<1>1. /\ call.do = "map" /\ FrameOrNull(f) /\ tables' = Append(tables, f)
      /\ pages' = pages /\ buffers' = buffers
      /\ call' = [call EXCEPT !.missing = call.missing - 1]
  BY DEF TakeTable
<1>2. call'.do = "map" /\ call'.frame = call.frame
      /\ call' = [do |-> "map", for |-> call'.for, frame |-> call'.frame,
                  missing |-> call'.missing]
      /\ call.frame \in BitNumbers \union {Null}
  <2>1. call = [do |-> "map", for |-> call.for, frame |-> call.frame,
                missing |-> call.missing]
        /\ call.frame \in BitNumbers \union {Null}
    BY <1>1 DEF IInv, CallShape
  <2>2. call' = [do |-> "map", for |-> call.for, frame |-> call.frame,
                 missing |-> call.missing - 1]
    BY <1>1, <2>1
  <2>3. QED BY <2>1, <2>2
<1>3. /\ f \in BitNumbers \union {Null}
      /\ tables' \in Seq(BitNumbers \union {Null})
      /\ DOMAIN tables' = DOMAIN tables \union {n} /\ n \notin DOMAIN tables
      /\ \A k \in DOMAIN tables : tables'[k] = tables[k]
      /\ tables'[n] = f
  BY <1>1, Returned, Appended DEF IInv, ListsType
<1> HIDE DEF n
<1>4. BitNumbers' = BitNumbers /\ BitmapFrames' = BitmapFrames /\ Null \notin BitNumbers
  BY <1>1, Returned
<1>5. ListsType' /\ CallShape'
  BY <1>1, <1>2, <1>3, <1>4 DEF IInv, ListsType, CallShape, Null
<1>6. ASSUME NEW g \in BitNumbers
      PROVE  Holders(g)' = IF g = f THEN Holders(g) \union {<<"table", n>>} ELSE Holders(g)
  <2>1. {k \in DOMAIN tables' : tables'[k] = g} =
          IF g = f THEN {k \in DOMAIN tables : tables[k] = g} \union {n}
          ELSE {k \in DOMAIN tables : tables[k] = g}
    BY <1>3
  <2>2. QED BY <1>1, <1>2, <1>4, <2>1 DEF Holders
<1>7. CASE f \in BitNumbers
  BY <1>1, <1>5, <1>6, <1>7, Returned, NewHolder
<1>8. CASE f = Null
  BY <1>1, <1>4, <1>5, <1>6, <1>8, Returned, NullHolder
<1>9. QED BY <1>3, <1>7, <1>8

(* A page that is mapped keeps its frame, which changes hands. *)
LEMMA MappedIInv ==
  ASSUME IInv, MappedPage, call'.do \notin {"map", "setup"}
  PROVE  IInv'
<1> DEFINE n == Len(pages) + 1
           f == call.frame
<1>1. /\ call.do = "map" /\ pages' = Append(pages, f)
      /\ tables' = tables /\ buffers' = buffers /\ UNCHANGED frameVars
  BY DEF MappedPage
<1>2. f \in BitNumbers \union {Null} /\ Null \notin BitNumbers
  BY <1>1 DEF IInv, CallShape, Null, BitNumbers
<1> HIDE DEF f
<1>3. /\ pages' \in Seq(BitNumbers \union {Null})
      /\ DOMAIN pages' = DOMAIN pages \union {n} /\ n \notin DOMAIN pages
      /\ \A k \in DOMAIN pages : pages'[k] = pages[k]
      /\ pages'[n] = f
  BY <1>1, <1>2, Appended DEF IInv, ListsType
<1> HIDE DEF n
<1>4. /\ BitNumbers' = BitNumbers /\ BitmapFrames' = BitmapFrames
      /\ Words' = Words /\ Bits' = Bits
  BY <1>1 DEF frameVars, BitNumbers, BitmapFrames, Words, Bits
<1>5. BitmapType' /\ ListsType' /\ CallShape'
  BY <1>1, <1>3, <1>4 DEF IInv, BitmapType, ListsType, CallShape, frameVars, Null
<1>6. ASSUME NEW g \in BitNumbers
      PROVE  Holders(g)' = IF g = f THEN (Holders(g) \ {<<"call", 0>>}) \union {<<"page", n>>}
                           ELSE Holders(g)
  <2>1. {k \in DOMAIN pages' : pages'[k] = g} =
          IF g = f THEN {k \in DOMAIN pages : pages[k] = g} \union {n}
          ELSE {k \in DOMAIN pages : pages[k] = g}
    BY <1>3
  <2>2. call'.do # "map" /\ call.do = "map" /\ call.frame = f
    BY <1>1 DEF f
  <2>3. QED BY <1>1, <1>4, <2>1, <2>2 DEF Holders
<1>7. OneHolder'
  <2>1. ASSUME NEW g \in BitNumbers
        PROVE  /\ \A h, i \in Holders(g)' : h = i
               /\ Marked(g)' <=> Holders(g)' # {}
    <3>1. Marked(g)' = Marked(g)
      BY <1>1, <1>4 DEF Marked, frameVars
    <3>2. CASE g = f
      <4>1. <<"call", 0>> \in Holders(g)
        BY <1>1, <3>2 DEF Holders, f
      <4>2. Holders(g) = {<<"call", 0>>} /\ Marked(g)
        BY <4>1 DEF IInv, OneHolder
      <4>3. Holders(g)' = {<<"page", n>>}
        BY <1>6, <3>2, <4>2
      <4>4. QED BY <3>1, <4>2, <4>3
    <3>3. CASE g # f
      BY <1>6, <3>1, <3>3 DEF IInv, OneHolder
    <3>4. QED BY <3>2, <3>3
  <2>2. QED BY <1>4, <2>1 DEF OneHolder
<1>8. QED BY <1>5, <1>7 DEF IInv

LEMMA NewBufferIInv ==
  ASSUME IInv, NEW f, NewBuffer(f)
  PROVE  IInv'
<1>1. /\ AllocFrame(f) /\ buffers' = buffers \union {f}
      /\ tables' = tables /\ pages' = pages /\ call' = call
  BY DEF NewBuffer
<1>2. f \in BitNumbers /\ BitNumbers' = BitNumbers /\ BitmapFrames' = BitmapFrames
  BY <1>1, AllocMarks DEF IInv, BitNumbers, BitmapFrames
<1>3. ListsType' /\ CallShape'
  BY <1>1, <1>2 DEF IInv, ListsType, CallShape, Null
<1>4. ASSUME NEW g \in BitNumbers
      PROVE  Holders(g)' = IF g = f THEN Holders(g) \union {<<"buffer", 0>>} ELSE Holders(g)
  BY <1>1, <1>2 DEF Holders
<1>5. QED BY <1>1, <1>3, <1>4, NewHolder

LEMMA DropBufferIInv ==
  ASSUME IInv, NEW f \in buffers, DropBuffer(f)
  PROVE  IInv'
<1>1. /\ DeallocFrame(f) /\ buffers' = buffers \ {f}
      /\ tables' = tables /\ pages' = pages /\ call' = call
  BY DEF DropBuffer
<1>2. f \in BitNumbers
  BY DEF IInv, ListsType
<1>3. /\ total' = total /\ BitmapType'
      /\ \A g \in BitNumbers : Marked(g)' <=> Marked(g) /\ g # f
  BY <1>1, <1>2, DeallocUnmarks DEF IInv
<1>4. BitNumbers' = BitNumbers /\ BitmapFrames' = BitmapFrames
  BY <1>3 DEF BitNumbers, BitmapFrames
<1>5. ListsType' /\ CallShape'
  BY <1>1, <1>4 DEF IInv, ListsType, CallShape, Null
<1>6. ASSUME NEW g \in BitNumbers
      PROVE  Holders(g)' = IF g = f THEN Holders(g) \ {<<"buffer", 0>>} ELSE Holders(g)
  BY <1>1, <1>4 DEF Holders
<1>7. Holders(f) = {<<"buffer", 0>>}
  <2>1. <<"buffer", 0>> \in Holders(f)
    BY DEF Holders
  <2>2. QED BY <1>2, <2>1 DEF IInv, OneHolder
<1>8. OneHolder'
  BY <1>3, <1>4, <1>6, <1>7 DEF IInv, OneHolder
<1>9. QED BY <1>3, <1>5, <1>8 DEF IInv

(* The rounded start of a region larger than MinFrames frames lies below
   its end. *)
LEMMA WholeFrames ==
  ASSUME NEW a \in Nat, NEW e \in Nat, NEW p \in Nat \ {0}, NEW q \in Nat,
         q = CeilDiv(a, p), e >= a + p
  PROVE  (e \div p) - ((q * p) \div p) \in Nat
<1>1. q * p <= e
  <2> DEFINE s == a + p - 1
             d == s \div p
             r == s % p
  <2>1. s \in Nat /\ d = q
    BY DEF CeilDiv
  <2>2. r \in 0..(p - 1) /\ s = p * d + r /\ d \in Int
    BY <2>1
  <2> HIDE DEF d, r
  <2>3. p * q <= s
    BY <2>1, <2>2
  <2>4. p * q = q * p
    OBVIOUS
  <2>5. q * p \in Nat
    OBVIOUS
  <2> DEFINE t == q * p
  <2> HIDE DEF t
  <2>6. t <= s /\ t \in Nat
    BY <2>3, <2>4, <2>5 DEF t
  <2>7. t <= e
    BY <2>6
  <2>8. QED BY <2>7 DEF t
<1>2. ASSUME NEW m \in Nat, q * p <= m PROVE m \div p \in Nat /\ m \div p >= q
  <2> DEFINE d == m \div p
             r == m % p
  <2>1. r \in 0..(p - 1) /\ m = p * d + r /\ d \in Int
    OBVIOUS
  <2> HIDE DEF d, r
  <2>2. d >= q
    <3>1. SUFFICES ASSUME d <= q - 1 PROVE FALSE
      BY <2>1
    <3>2. p * d <= p * (q - 1)
      BY <2>1, <3>1
    <3>3. p * (q - 1) = q * p - p
      OBVIOUS
    <3>4. QED BY <1>2, <2>1, <3>2, <3>3
  <2>3. QED BY <2>1, <2>2 DEF d
<1>3. (q * p) \div p <= e \div p
  <2> DEFINE d == (q * p) \div p
             r == (q * p) % p
             u == e \div p
  <2>1. q * p \in Nat
    OBVIOUS
  <2>2. r \in 0..(p - 1) /\ q * p = p * d + r /\ d \in Int
    BY <2>1
  <2>3. u \in Nat /\ u >= q
    BY <1>1, <1>2
  <2> HIDE DEF d, r, u
  <2>4. d <= q
    <3>1. SUFFICES ASSUME d >= q + 1 PROVE FALSE
      BY <2>2
    <3>2. p * d >= p * (q + 1)
      BY <2>2, <3>1
    <3>3. p * (q + 1) = q * p + p
      OBVIOUS
    <3>4. QED BY <2>1, <2>2, <3>2, <3>3
  <2>5. d <= u
    BY <2>2, <2>3, <2>4
  <2>6. QED BY <2>5 DEF d, u
<1>4. e \div p \in Nat /\ (q * p) \div p \in Nat
  BY <1>1, <1>2
<1>5. QED BY <1>3, <1>4

LEMMA InitIInv ==
  ASSUME Init
  PROVE  IInv
<1>1. PICK region \in [addr : Nat, size : Nat] : NewAllocator(region)
  BY RegionsAssumption DEF Init
<1>2. total \in Nat
  <2> DEFINE a == region.addr
             e == End(region)
             q == CeilDiv(a, PageSize)
  <2>1. PageSize \in Nat \ {0} /\ MinFrames \in Nat \ {0}
    BY PageSizeAssumption, MinFramesAssumption
  <2>2. a \in Nat /\ region.size \in Nat /\ e = a + region.size
    BY DEF End
  <2>3. MinFrames * PageSize >= PageSize /\ MinFrames * PageSize \in Nat
    BY <2>1
  <2>4. region.size > MinFrames * PageSize
    BY <1>1 DEF NewAllocator
  <2> DEFINE m == MinFrames * PageSize
  <2> HIDE DEF m
  <2>5. m >= PageSize /\ m \in Nat /\ region.size > m
    BY <2>3, <2>4 DEF m
  <2>6. e \in Nat /\ e >= a + PageSize
    BY <2>1, <2>2, <2>5
  <2>7. q \in Nat
    BY <2>1, <2>2, RoundUp
  <2>8. total = (e \div PageSize) - ((q * PageSize) \div PageSize)
    BY <1>1 DEF NewAllocator
  <2> HIDE DEF a, e
  <2>9. QED BY <2>1, <2>2, <2>6, <2>7, <2>8, WholeFrames
<1>3. /\ bitmap = [w \in Words |-> {b \in Bits : Frame(w, b) < BitmapFrames}]
      /\ pages = <<>> /\ tables = <<>> /\ buffers = {}
      /\ call = [do |-> "setup", left |-> BootTables]
  BY <1>1 DEF Init, NewAllocator
<1>4. BitmapType /\ ListsType /\ CallShape
  BY <1>2, <1>3, EmptySeq DEF BitmapType, ListsType, CallShape
<1>5. ASSUME NEW f \in BitNumbers
      PROVE  /\ \A h, g \in Holders(f) : h = g
             /\ Marked(f) <=> Holders(f) # {}
  <2>1. Holders(f) = IF f < BitmapFrames THEN {<<"bitmap", 0>>} ELSE {}
    BY <1>3 DEF Holders
  <2>2. Marked(f) <=> f < BitmapFrames
    <3>1. Marked(f) => f < BitmapFrames
      BY <1>3 DEF Marked
    <3>2. f < BitmapFrames => Marked(f)
      <4>1. PICK w \in Words, b \in Bits : f = Frame(w, b)
        BY <1>2, Numbers
      <4>2. QED BY <1>3, <4>1 DEF Marked
    <3>3. QED BY <3>1, <3>2
  <2>3. QED BY <2>1, <2>2
<1>6. QED BY <1>4, <1>5 DEF IInv, OneHolder

(* The other steps move blocks, not frames. *)
LEMMA BlocksIInv ==
  ASSUME IInv, UNCHANGED frameVars, UNCHANGED backVars,
         \/ call' = call
         \/ call.do # "map" /\ call'.do \notin {"map", "setup"}
  PROVE  IInv'
<1>1. CASE call' = call
  <2>1. /\ BitmapFrames' = BitmapFrames /\ Words' = Words /\ Bits' = Bits
        /\ BitNumbers' = BitNumbers
    BY DEF frameVars, BitmapFrames, Words, Bits, BitNumbers
  <2>2. \A f : Marked(f)' = Marked(f) /\ Holders(f)' = Holders(f)
    BY <1>1, <2>1 DEF Marked, Holders, frameVars, backVars
  <2>3. BitmapType' /\ ListsType' /\ CallShape'
    BY <1>1, <2>1 DEF IInv, BitmapType, ListsType, CallShape, frameVars, backVars, Null
  <2>4. OneHolder'
    BY <2>1, <2>2 DEF IInv, OneHolder
  <2>5. QED BY <2>3, <2>4 DEF IInv
<1>2. CASE call.do # "map" /\ call'.do \notin {"map", "setup"}
  BY <1>2, SameHolders DEF CallShape
<1>3. QED BY <1>1, <1>2

LEMMA NextIInv == IInv /\ [Next]_vars => IInv'
<1> SUFFICES ASSUME IInv, [Next]_vars PROVE IInv'
  OBVIOUS
<1> USE DEF WantPage, Idle
<1>1. ASSUME NEW f, SetupPageTables(f) \/ TakePage(f) \/ TakeTable(f) PROVE IInv'
  BY <1>1, SetupIInv, TakePageIInv, TakeTableIInv
<1>2. CASE InitHead
  <2>1. call'.do \notin {"map", "setup"}
    BY <1>2 DEF InitHead
  <2>2. QED BY <1>2, <2>1, MappedIInv DEF InitHead
<1>3. CASE RefillHead
  <2>1. call'.do \notin {"map", "setup"}
    BY <1>3 DEF RefillHead
  <2>2. QED BY <1>3, <2>1, MappedIInv DEF RefillHead
<1>4. CASE AllocPages
  <2>1. call'.do \notin {"map", "setup"}
    BY <1>4 DEF AllocPages
  <2>2. QED BY <1>4, <2>1, MappedIInv DEF AllocPages
<1>5. ASSUME NEW l \in Layouts, AllocFromList(l) PROVE IInv'
  <2>1. UNCHANGED frameVars /\ UNCHANGED backVars /\ call' = call
    BY <1>5 DEF AllocFromList
  <2>2. QED BY <2>1, BlocksIInv
<1>6. ASSUME NEW l \in Layouts, AllocFresh(l) PROVE IInv'
  <2>1. UNCHANGED frameVars /\ UNCHANGED backVars
    BY <1>6 DEF AllocFresh
  <2>2. call.do # "map"
    BY <1>6 DEF AllocFresh, MayCall
  <2>3. call'.do \notin {"map", "setup"}
    BY <1>6 DEF AllocFresh
  <2>4. QED BY <2>1, <2>2, <2>3, BlocksIInv
<1>7. ASSUME NEW b \in inUse, Dealloc(b) PROVE IInv'
  <2>1. UNCHANGED frameVars /\ UNCHANGED backVars /\ call' = call
    BY <1>7 DEF Dealloc
  <2>2. QED BY <2>1, BlocksIInv
<1>8. ASSUME NEW f, NewBuffer(f) PROVE IInv'
  BY <1>8, NewBufferIInv
<1>9. ASSUME NEW f \in buffers, DropBuffer(f) PROVE IInv'
  BY <1>9, DropBufferIInv
<1>10. CASE UNCHANGED vars
  BY <1>10, BlocksIInv DEF vars
<1>11. QED BY <1>1, <1>2, <1>3, <1>4, <1>5, <1>6, <1>7, <1>8, <1>9, <1>10 DEF Next

-----------------------------------------------------------------------------
(* The results. *)

(* The inductive invariant holds in every reachable state. *)
THEOREM Invariance == Spec => []IInv
<1>1. Init => IInv
  BY InitIInv
<1>2. QED BY <1>1, NextIInv, PTL DEF Spec

(* Every page frame that the bitmap has given out is held once, and
   alloc_frame refuses only when all of them are held: nothing leaks and
   nothing is given out twice, in memory of any size. *)
THEOREM EveryFrameHasOneHolder == Spec => []FramesHaveOneHolder
<1>1. IInv => FramesHaveOneHolder
  <2> SUFFICES ASSUME IInv PROVE FramesHaveOneHolder
    OBVIOUS
  <2>1. ASSUME Exhausted, NEW f \in FrameNumbers PROVE Holders(f) # {}
    <3>1. Marked(f)
      BY <2>1, SearchIsComplete DEF IInv
    <3>2. f \in BitNumbers
      BY Layout DEF IInv, BitmapType
    <3>3. QED BY <3>1, <3>2 DEF IInv, OneHolder
  <2>2. QED BY <2>1 DEF IInv, OneHolder, FramesHaveOneHolder
<1>2. QED BY <1>1, Invariance, PTL

-----------------------------------------------------------------------------
(***************************************************************************)
(* The kernel heap's pages are partitioned into blocks, for every sequence *)
(* of size classes and every set of requests: no two live blocks overlap,  *)
(* nothing on a free list is in use, and no byte is lost.                  *)
(*                                                                         *)
(* First come facts about sets of equal blocks, without a state: cutting a *)
(* page into a list, taking one block from a partition and putting one     *)
(* back.  Then the invariant: the free lists, the blocks that are taken    *)
(* off them for the calls that run, and the allocated blocks partition the *)
(* pages; one lemma for each action shows that it keeps that.  The         *)
(* refinement of BlockPool follows, step by step.                          *)
(***************************************************************************)
(* Size classes. *)

Lists == 1..(HeadCount + 1)

LEMMA ClassSizes ==
  /\ HeadCount \in Nat \ {0}
  /\ HeadCount \in Classes /\ BlockSize[HeadCount] = PageSize
  /\ PageSize \in Nat \ {0}
  /\ \A c \in Classes : /\ BlockSize[c] \in Nat \ {0}
                        /\ BlockSize[c] <= PageSize
                        /\ PageSize % BlockSize[c] = 0
<1>1. HeadCount \in Nat \ {0} /\ BlockSize[HeadCount] = PageSize
  BY BlockSizeAssumption, EmptySeq, LenProperties DEF HeadCount
<1>2. PageSize \in Nat \ {0}
  BY PageSizeAssumption
<1>3. HeadCount \in Classes /\ \A c \in Classes : BlockSize[c] \in Nat \ {0}
  BY <1>1, BlockSizeAssumption, ElementOfSeq DEF Classes, HeadCount
<1>4. ASSUME NEW c \in Classes
      PROVE  BlockSize[c] <= PageSize /\ PageSize % BlockSize[c] = 0
  <2>1. CASE c = HeadCount
    BY <1>1, <1>2, <2>1
  <2>2. CASE c < HeadCount
    BY <1>1, <1>2, <1>3, <2>2, BlockSizeAssumption
  <2>3. QED BY <1>1, <2>1, <2>2 DEF Classes
<1>5. QED BY <1>1, <1>2, <1>3, <1>4

(* The class a request goes to is large enough and aligned; requests of more
   than a page go to none. *)
LEMMA HeadIndexFits ==
  ASSUME NEW l \in Layouts
  PROVE  /\ HeadIndex(l) \in Lists
         /\ HeadIndex(l) \in Classes => /\ l.size <= BlockSize[HeadIndex(l)]
                                        /\ l.align <= BlockSize[HeadIndex(l)]
         /\ HeadIndex(l) \notin Classes => HeadIndex(l) = HeadCount + 1
         /\ l.size \in Nat \ {0} /\ \E c \in Classes : l.align = BlockSize[c]
<1>1. l.size \in Nat \ {0} /\ \E c \in Classes : l.align = BlockSize[c]
  BY LayoutAssumption
<1> DEFINE Good(c) == c <= HeadCount => l.size <= BlockSize[c] /\ l.align <= BlockSize[c]
           T == {c \in Lists : Good(c)}
<1>2. HeadCount + 1 \in T /\ T \in SUBSET Nat /\ T # {}
  BY ClassSizes DEF Lists
<1>3. PICK x \in T : \A y \in T : x <= y
  <2> HIDE DEF T
  <2>1. QED BY <1>2, Least
<1>4. \A d \in 1..(x - 1) : l.size > BlockSize[d] \/ l.align > BlockSize[d]
  <2> SUFFICES ASSUME NEW d \in 1..(x - 1)
               PROVE  l.size > BlockSize[d] \/ l.align > BlockSize[d]
    OBVIOUS
  <2>1. d \in Lists /\ d <= HeadCount /\ d \notin T /\ d \in Classes
    BY <1>2, <1>3, ClassSizes DEF Lists, Classes
  <2>2. ~(l.size <= BlockSize[d] /\ l.align <= BlockSize[d])
    BY <2>1
  <2>3. l.align \in Nat /\ BlockSize[d] \in Nat /\ l.size \in Nat
    BY <1>1, <2>1, ClassSizes
  <2>4. QED BY <2>2, <2>3
<1>5. HeadIndex(l) \in Lists
      /\ (HeadIndex(l) <= HeadCount =>
            l.size <= BlockSize[HeadIndex(l)] /\ l.align <= BlockSize[HeadIndex(l)])
  <2>1. x \in 1..(HeadCount + 1)
        /\ (x <= HeadCount => l.size <= BlockSize[x] /\ l.align <= BlockSize[x])
    BY DEF Lists
  <2>2. QED BY <1>4, <2>1 DEF HeadIndex, Lists
<1>6. QED BY <1>1, <1>5, ClassSizes DEF Lists, Classes

-----------------------------------------------------------------------------
(* Partitions of memory.  free has a list of blocks for each class and one
   for what was taken by the page; used has a block for each name. *)

Blocks == [addr : Nat, size : Nat \ {0}]
Apart(r, s) == End(r) <= s.addr \/ End(s) <= r.addr
InBlock(r, x) == r.addr <= x /\ x < End(r)

FreeLists == [Lists -> Seq(Blocks)]

Disjoint(free, used) ==
  /\ \A c, d \in Lists : \A i \in DOMAIN free[c], j \in DOMAIN free[d] :
       c # d \/ i # j => Apart(free[c][i], free[d][j])
  /\ \A c \in Lists : \A i \in DOMAIN free[c] : \A b \in DOMAIN used :
       Apart(free[c][i], used[b])
  /\ \A a, b \in DOMAIN used : a # b => Apart(used[a], used[b])

Inside(free, used, n) ==
  /\ \A c \in Lists : \A i \in DOMAIN free[c] : End(free[c][i]) <= n
  /\ \A b \in DOMAIN used : End(used[b]) <= n

Covers(free, used, n) ==
  \A x \in 0..(n - 1) :
    \/ \E c \in Lists : \E i \in DOMAIN free[c] : InBlock(free[c][i], x)
    \/ \E b \in DOMAIN used : InBlock(used[b], x)

Partition(free, used, n) ==
  /\ free \in FreeLists
  /\ \A b \in DOMAIN used : used[b] \in Blocks
  /\ Disjoint(free, used)
  /\ Inside(free, used, n)
  /\ Covers(free, used, n)

(* The first block of a list is given to a caller. *)
Takes(free, used, c, b, free2, used2) ==
  /\ c \in Lists /\ free[c] # <<>>
  /\ free2 = [free EXCEPT ![c] = Tail(free[c])]
  /\ b \notin DOMAIN used
  /\ DOMAIN used2 = DOMAIN used \union {b}
  /\ used2[b] = Head(free[c])
  /\ \A a \in DOMAIN used : used2[a] = used[a]

LEMMA BlockTaken ==
  ASSUME NEW free, NEW used, NEW n \in Nat, Partition(free, used, n),
         NEW c, NEW b, NEW free2, NEW used2, Takes(free, used, c, b, free2, used2)
  PROVE  Partition(free2, used2, n)
<1> USE DEF Takes
<1>1. free \in FreeLists /\ free[c] \in Seq(Blocks)
  BY DEF Partition, FreeLists
<1> DEFINE s == free[c]
           t == Tail(s)
<1>2. /\ t \in Seq(Blocks) /\ Len(s) \in Nat \ {0} /\ Len(t) = Len(s) - 1
      /\ DOMAIN s = 1..Len(s) /\ DOMAIN t = 1..Len(t)
      /\ s[1] = Head(s) /\ s[1] \in Blocks /\ \A i \in DOMAIN t : t[i] = s[i + 1]
  <2>1. s \in Seq(Blocks) /\ s # <<>>
    BY <1>1
  <2> HIDE DEF s
  <2>2. QED BY <2>1, HeadTailProperties, LenProperties, ElementOfSeq, EmptySeq
<1>3. /\ free2 \in FreeLists /\ free2[c] = t
      /\ \A d \in Lists : d # c => free2[d] = free[d]
  BY <1>1, <1>2 DEF FreeLists
<1> HIDE DEF t
<1> DEFINE Old(d, i) == IF d = c THEN i + 1 ELSE i
<1>4. ASSUME NEW d \in Lists, NEW i \in DOMAIN free2[d]
      PROVE  /\ Old(d, i) \in DOMAIN free[d]
             /\ free2[d][i] = free[d][Old(d, i)]
             /\ d = c => Old(d, i) # 1 /\ i \in Int
  <2>1. CASE d = c
    BY <1>2, <1>3, <2>1
  <2>2. CASE d # c
    BY <1>3, <2>2
  <2>3. QED BY <2>1, <2>2
<1>5. used2[b] = free[c][1] /\ 1 \in DOMAIN free[c] /\ used2[b] \in Blocks
  BY <1>2
<1>6. Disjoint(free2, used2)
  <2>1. ASSUME NEW d \in Lists, NEW e \in Lists, NEW i \in DOMAIN free2[d],
               NEW j \in DOMAIN free2[e], d # e \/ i # j
        PROVE  Apart(free2[d][i], free2[e][j])
    <3>1. d # e \/ Old(d, i) # Old(e, j)
      BY <1>4, <2>1
    <3> HIDE DEF Old
    <3>2. QED BY <1>4, <3>1 DEF Partition, Disjoint
  <2>2. ASSUME NEW d \in Lists, NEW i \in DOMAIN free2[d], NEW a \in DOMAIN used2
        PROVE  Apart(free2[d][i], used2[a])
    <3>1. CASE a = b
      <4>1. d # c \/ Old(d, i) # 1
        BY <1>4
      <4> HIDE DEF Old
      <4>2. QED BY <1>4, <1>5, <3>1, <4>1 DEF Partition, Disjoint
    <3>2. CASE a \in DOMAIN used
      <4> HIDE DEF Old
      <4>1. QED BY <1>4, <3>2 DEF Partition, Disjoint
    <3>3. QED BY <3>1, <3>2
  <2>3. ASSUME NEW a \in DOMAIN used2, NEW e \in DOMAIN used2, a # e
        PROVE  Apart(used2[a], used2[e])
    <3>1. \A o \in DOMAIN used : Apart(used2[b], used[o]) /\ Apart(used[o], used2[b])
      BY <1>5 DEF Partition, Disjoint, Apart
    <3>2. QED BY <2>3, <3>1 DEF Partition, Disjoint
  <2>4. QED BY <2>1, <2>2, <2>3 DEF Disjoint
<1>7. Inside(free2, used2, n)
  <2> HIDE DEF Old
  <2>1. QED BY <1>4, <1>5 DEF Partition, Inside
<1>8. Covers(free2, used2, n)
  <2> SUFFICES ASSUME NEW x \in 0..(n - 1)
               PROVE  \/ \E d \in Lists : \E i \in DOMAIN free2[d] : InBlock(free2[d][i], x)
                      \/ \E a \in DOMAIN used2 : InBlock(used2[a], x)
    BY DEF Covers
  <2>1. CASE \E a \in DOMAIN used : InBlock(used[a], x)
    BY <2>1
  <2>2. ASSUME NEW d \in Lists, NEW i \in DOMAIN free[d], InBlock(free[d][i], x)
        PROVE  \/ \E e \in Lists : \E j \in DOMAIN free2[e] : InBlock(free2[e][j], x)
               \/ \E a \in DOMAIN used2 : InBlock(used2[a], x)
    <3>1. CASE d # c
      BY <1>3, <2>2, <3>1
    <3>2. CASE d = c /\ i = 1
      BY <1>5, <2>2, <3>2
    <3>3. CASE d = c /\ i # 1
      <4>1. i - 1 \in DOMAIN t /\ t[i - 1] = s[(i - 1) + 1] /\ (i - 1) + 1 = i
        BY <1>2, <3>3
      <4>2. i - 1 \in DOMAIN free2[c] /\ InBlock(free2[c][i - 1], x)
        BY <1>3, <2>2, <3>3, <4>1
      <4>3. QED BY <4>2, <3>3
    <3>4. QED BY <3>1, <3>2, <3>3
  <2>3. QED BY <2>1, <2>2 DEF Partition, Covers
<1>9. \A a \in DOMAIN used2 : used2[a] \in Blocks
  BY <1>5 DEF Partition
<1>10. QED BY <1>3, <1>6, <1>7, <1>8, <1>9 DEF Partition

(* x is put in front of the list q. *)
PutFirst(x, q, list) == list = <<x>> \o q

LEMMA FirstAndRest ==
  ASSUME NEW S, NEW q \in Seq(S), NEW x \in S, NEW t, PutFirst(x, q, t)
  PROVE  /\ t \in Seq(S) /\ Len(q) \in Nat /\ DOMAIN q = 1..Len(q)
         /\ Len(t) = Len(q) + 1 /\ DOMAIN t = 1..(Len(q) + 1)
         /\ t[1] = x
         /\ \A k \in 1..Len(q) : t[k + 1] = q[k]
<1>1. <<x>> \in Seq(S) /\ Len(<<x>>) = 1 /\ <<x>>[1] = x
  OBVIOUS
<1>2. Len(q) \in Nat /\ DOMAIN q = 1..Len(q)
  BY LenProperties
<1>3. /\ t \in Seq(S) /\ Len(t) = 1 + Len(q)
      /\ \A i \in 1..(1 + Len(q)) : t[i] = IF i <= 1 THEN <<x>>[i] ELSE q[i - 1]
  BY <1>1, ConcatProperties DEF PutFirst
<1>4. t[1] = x
  BY <1>1, <1>2, <1>3
<1>5. ASSUME NEW i \in 1..Len(q) PROVE t[i + 1] = q[i]
  <2>1. i + 1 \in 1..(1 + Len(q)) /\ ~(i + 1 <= 1) /\ (i + 1) - 1 = i
    BY <1>2
  <2>2. t[i + 1] = q[(i + 1) - 1]
    BY <1>3, <2>1
  <2>3. QED BY <2>1, <2>2
<1>6. QED BY <1>2, <1>3, <1>4, <1>5, LenProperties

(* A caller's block is put in front of a list. *)
Returns(free, used, c, b, list, free2, used2) ==
  /\ c \in Lists /\ b \in DOMAIN used
  /\ PutFirst(used[b], free[c], list)
  /\ free2 = [free EXCEPT ![c] = list]
  /\ DOMAIN used2 = DOMAIN used \ {b}
  /\ \A a \in DOMAIN used2 : used2[a] = used[a]

LEMMA BlockReturned ==
  ASSUME NEW free, NEW used, NEW n \in Nat, Partition(free, used, n),
         NEW c, NEW b, NEW list, NEW free2, NEW used2,
         Returns(free, used, c, b, list, free2, used2)
  PROVE  Partition(free2, used2, n)
<1> USE DEF Returns
<1>1. free \in FreeLists /\ free[c] \in Seq(Blocks) /\ used[b] \in Blocks
  BY DEF Partition, FreeLists
<1> DEFINE s == free[c]
           t == list
<1>2. /\ t \in Seq(Blocks) /\ Len(s) \in Nat /\ Len(t) = Len(s) + 1
      /\ DOMAIN s = 1..Len(s) /\ DOMAIN t = 1..Len(t)
      /\ t[1] = used[b] /\ \A i \in 1..Len(s) : t[i + 1] = s[i]
  <2>1. s \in Seq(Blocks) /\ PutFirst(used[b], s, t)
    BY <1>1
  <2> HIDE DEF s, t
  <2>2. QED BY <1>1, <2>1, FirstAndRest
<1>3. /\ free2 \in FreeLists /\ free2[c] = t
      /\ \A d \in Lists : d # c => free2[d] = free[d]
  BY <1>1, <1>2 DEF FreeLists
<1> HIDE DEF t
(* The front of the list is the block, the rest is where it was. *)
<1> DEFINE Front1(d, i) == d = c /\ i = 1
           Old(d, i) == IF d = c THEN i - 1 ELSE i
<1>4. ASSUME NEW d \in Lists, NEW i \in DOMAIN free2[d]
      PROVE  /\ Front1(d, i) => free2[d][i] = used[b]
             /\ ~Front1(d, i) => /\ Old(d, i) \in DOMAIN free[d]
                                 /\ free2[d][i] = free[d][Old(d, i)]
             /\ d = c => i \in Int
  <2>1. CASE d = c
    <3>1. CASE i = 1
      BY <1>2, <1>3, <2>1, <3>1
    <3>2. CASE i # 1
      <4>1. i - 1 \in 1..Len(s) /\ (i - 1) + 1 = i
        BY <1>2, <1>3, <2>1, <3>2
      <4>2. t[i] = s[i - 1]
        BY <1>2, <4>1
      <4>3. QED BY <1>2, <1>3, <2>1, <3>2, <4>1, <4>2
    <3>3. QED BY <3>1, <3>2
  <2>2. CASE d # c
    BY <1>3, <2>2
  <2>3. QED BY <2>1, <2>2
<1>5. Disjoint(free2, used2)
  <2>1. ASSUME NEW d \in Lists, NEW e \in Lists, NEW i \in DOMAIN free2[d],
               NEW j \in DOMAIN free2[e], d # e \/ i # j
        PROVE  Apart(free2[d][i], free2[e][j])
    <3>1. CASE ~Front1(d, i) /\ ~Front1(e, j)
      <4>1. d # e \/ Old(d, i) # Old(e, j)
        BY <1>4, <2>1
      <4> HIDE DEF Old, Front1
      <4>2. QED BY <1>4, <3>1, <4>1 DEF Partition, Disjoint
    <3>2. CASE Front1(d, i) /\ ~Front1(e, j)
      <4> HIDE DEF Old
      <4>1. QED BY <1>4, <3>2 DEF Partition, Disjoint, Apart
    <3>3. CASE ~Front1(d, i) /\ Front1(e, j)
      <4> HIDE DEF Old
      <4>1. QED BY <1>4, <3>3 DEF Partition, Disjoint
    <3>4. QED BY <2>1, <3>1, <3>2, <3>3
  <2>2. ASSUME NEW d \in Lists, NEW i \in DOMAIN free2[d], NEW a \in DOMAIN used2
        PROVE  Apart(free2[d][i], used2[a])
    <3> HIDE DEF Old
    <3>1. a # b /\ a \in DOMAIN used /\ used2[a] = used[a]
      OBVIOUS
    <3>2. QED BY <1>4, <3>1 DEF Partition, Disjoint
  <2>3. ASSUME NEW a \in DOMAIN used2, NEW e \in DOMAIN used2, a # e
        PROVE  Apart(used2[a], used2[e])
    BY <2>3 DEF Partition, Disjoint
  <2>4. QED BY <2>1, <2>2, <2>3 DEF Disjoint
<1>6. Inside(free2, used2, n)
  <2> HIDE DEF Old
  <2>1. QED BY <1>4 DEF Partition, Inside
<1>7. Covers(free2, used2, n)
  <2> SUFFICES ASSUME NEW x \in 0..(n - 1)
               PROVE  \/ \E d \in Lists : \E i \in DOMAIN free2[d] : InBlock(free2[d][i], x)
                      \/ \E a \in DOMAIN used2 : InBlock(used2[a], x)
    BY DEF Covers
  <2>1. ASSUME NEW d \in Lists, NEW i \in DOMAIN free[d], InBlock(free[d][i], x)
        PROVE  \E e \in Lists : \E j \in DOMAIN free2[e] : InBlock(free2[e][j], x)
    <3>1. CASE d # c
      BY <1>3, <2>1, <3>1
    <3>2. CASE d = c
      <4>1. i \in 1..Len(s)
        BY <1>2, <3>2
      <4> HIDE DEF s
      <4>2. i + 1 \in DOMAIN t /\ t[i + 1] = s[i]
        BY <1>2, <4>1
      <4>3. i + 1 \in DOMAIN free2[c] /\ free2[c][i + 1] = free[d][i]
        BY <1>3, <3>2, <4>2 DEF s
      <4>4. QED BY <2>1, <4>3
    <3>3. QED BY <3>1, <3>2
  <2>2. ASSUME NEW a \in DOMAIN used, InBlock(used[a], x)
        PROVE  \/ \E d \in Lists : \E i \in DOMAIN free2[d] : InBlock(free2[d][i], x)
               \/ \E e \in DOMAIN used2 : InBlock(used2[e], x)
    <3>1. CASE a = b
      <4>1. 1 \in DOMAIN free2[c] /\ free2[c][1] = used[b]
        BY <1>2, <1>3
      <4>2. QED BY <2>2, <3>1, <4>1
    <3>2. CASE a # b
      BY <2>2, <3>2
    <3>3. QED BY <3>1, <3>2
  <2>3. QED BY <2>1, <2>2 DEF Partition, Covers
<1>8. \A a \in DOMAIN used2 : used2[a] \in Blocks
  BY DEF Partition
<1>9. QED BY <1>3, <1>5, <1>6, <1>7, <1>8 DEF Partition

LEMMA BelowAndAbove ==
  ASSUME NEW r \in Blocks, NEW s \in Blocks, NEW n \in Nat, End(r) <= n, n <= s.addr
  PROVE  Apart(r, s) /\ Apart(s, r)
BY DEF Apart, Blocks, End

(* An empty list is filled with blocks of the memory from n on. *)
LEMMA ListFilled ==
  ASSUME NEW free, NEW used, NEW n \in Nat, Partition(free, used, n),
         NEW c \in Lists, free[c] = <<>>, NEW list \in Seq(Blocks), NEW m \in Nat, n <= m,
         \A i, j \in DOMAIN list : i # j => Apart(list[i], list[j]),
         \A i \in DOMAIN list : n <= list[i].addr /\ End(list[i]) <= m,
         \A x \in n..(m - 1) : \E i \in DOMAIN list : InBlock(list[i], x),
         NEW free2, free2 = [free EXCEPT ![c] = list]
  PROVE  Partition(free2, used, m)
<1>1. /\ free \in FreeLists /\ free2 \in FreeLists /\ free2[c] = list
      /\ \A d \in Lists : d # c => free2[d] = free[d]
      /\ DOMAIN free[c] = {}
  BY EmptySeq DEF Partition, FreeLists
<1>2. \A b \in DOMAIN used : used[b] \in Blocks /\ used[b].addr \in Nat
                            /\ End(used[b]) \in Nat /\ End(used[b]) <= n
  BY DEF Partition, Inside, Blocks, End
<1>3. ASSUME NEW d \in Lists, NEW i \in DOMAIN free2[d]
      PROVE  /\ free2[d][i] \in Blocks
             /\ d # c => i \in DOMAIN free[d] /\ free2[d][i] = free[d][i] /\ End(free2[d][i]) <= n
             /\ d = c => i \in DOMAIN list /\ free2[d][i] = list[i]
  <2>1. CASE d = c
    BY <1>1, <2>1, ElementOfSeq, LenProperties
  <2>2. CASE d # c
    <3>1. free[d] \in Seq(Blocks)
      BY <1>1 DEF FreeLists
    <3>2. free[d][i] \in Blocks
      BY <1>1, <2>2, <3>1, ElementOfSeq, LenProperties
    <3>3. QED BY <1>1, <2>2, <3>2 DEF Partition, Inside
  <2>3. QED BY <2>1, <2>2
<1>4. Disjoint(free2, used)
  <2>1. ASSUME NEW d \in Lists, NEW e \in Lists, NEW i \in DOMAIN free2[d],
               NEW j \in DOMAIN free2[e], d # e \/ i # j
        PROVE  Apart(free2[d][i], free2[e][j])
    <3>1. CASE d = c /\ e = c
      BY <1>3, <2>1, <3>1
    <3>2. CASE d # c /\ e # c
      BY <1>3, <2>1, <3>2 DEF Partition, Disjoint
    <3>3. CASE d = c /\ e # c
      <4>1. n <= free2[d][i].addr /\ End(free2[e][j]) <= n
            /\ free2[d][i] \in Blocks /\ free2[e][j] \in Blocks
        BY <1>3, <3>3
      <4>2. QED BY <4>1, BelowAndAbove
    <3>4. CASE d # c /\ e = c
      <4>1. n <= free2[e][j].addr /\ End(free2[d][i]) <= n
            /\ free2[d][i] \in Blocks /\ free2[e][j] \in Blocks
        BY <1>3, <3>4
      <4>2. QED BY <4>1, BelowAndAbove
    <3>5. QED BY <3>1, <3>2, <3>3, <3>4
  <2>2. ASSUME NEW d \in Lists, NEW i \in DOMAIN free2[d], NEW b \in DOMAIN used
        PROVE  Apart(free2[d][i], used[b])
    <3>1. CASE d = c
      <4>1. n <= free2[d][i].addr /\ free2[d][i] \in Blocks
        BY <1>3, <3>1
      <4>2. QED BY <1>2, <4>1 DEF Apart, Blocks
    <3>2. CASE d # c
      BY <1>3, <3>2 DEF Partition, Disjoint
    <3>3. QED BY <3>1, <3>2
  <2>3. QED BY <2>1, <2>2 DEF Partition, Disjoint
<1>5. Inside(free2, used, m)
  <2>1. ASSUME NEW d \in Lists, NEW i \in DOMAIN free2[d]
        PROVE  End(free2[d][i]) <= m
    <3>1. free2[d][i] \in Blocks
      BY <1>3
    <3>2. End(free2[d][i]) \in Nat
      BY <3>1 DEF Blocks, End
    <3>3. QED BY <1>3, <3>2
  <2>2. QED BY <1>2, <2>1 DEF Inside
<1>6. Covers(free2, used, m)
  <2> SUFFICES ASSUME NEW x \in 0..(m - 1)
               PROVE  \/ \E d \in Lists : \E i \in DOMAIN free2[d] : InBlock(free2[d][i], x)
                      \/ \E a \in DOMAIN used : InBlock(used[a], x)
    BY DEF Covers
  <2>1. CASE x \in n..(m - 1)
    <3>1. PICK i \in DOMAIN list : InBlock(list[i], x)
      BY <2>1
    <3>2. QED BY <1>1, <3>1
  <2>2. CASE x \in 0..(n - 1)
    <3>1. CASE \E b \in DOMAIN used : InBlock(used[b], x)
      BY <3>1
    <3>2. ASSUME NEW d \in Lists, NEW i \in DOMAIN free[d], InBlock(free[d][i], x)
          PROVE  \E e \in Lists : \E j \in DOMAIN free2[e] : InBlock(free2[e][j], x)
      BY <1>1, <3>2
    <3>3. QED BY <2>2, <3>1, <3>2 DEF Partition, Covers
  <2>3. QED BY <2>1, <2>2
<1>7. QED BY <1>1, <1>4, <1>5, <1>6 DEF Partition

(* A caller is given the memory from n on. *)
LEMMA PagesTaken ==
  ASSUME NEW free, NEW used, NEW n \in Nat, Partition(free, used, n),
         NEW size \in Nat \ {0}, NEW b, b \notin DOMAIN used,
         NEW used2, DOMAIN used2 = DOMAIN used \union {b},
         used2[b] = Region(n, size), \A a \in DOMAIN used : used2[a] = used[a]
  PROVE  Partition(free, used2, n + size)
<1>1. used2[b] \in Blocks /\ used2[b].addr = n /\ End(used2[b]) = n + size
  BY DEF Region, Blocks, End
<1>2. \A a \in DOMAIN used : used2[a] = used[a] /\ used[a] \in Blocks
                            /\ used[a].addr \in Nat /\ End(used[a]) \in Nat /\ End(used[a]) <= n
  BY DEF Partition, Inside, Blocks, End
<1>3. ASSUME NEW c \in Lists, NEW i \in DOMAIN free[c]
      PROVE  /\ free[c][i] \in Blocks /\ free[c][i].addr \in Nat
             /\ End(free[c][i]) \in Nat /\ End(free[c][i]) <= n
  <2>1. free[c] \in Seq(Blocks)
    BY DEF Partition, FreeLists
  <2>2. free[c][i] \in Blocks
    BY <2>1, ElementOfSeq, LenProperties
  <2>3. QED BY <2>2 DEF Partition, Inside, Blocks, End
<1>4. Disjoint(free, used2)
  <2>1. \A c \in Lists : \A i \in DOMAIN free[c] : Apart(free[c][i], used2[b])
    BY <1>1, <1>3 DEF Apart
  <2>2. \A a \in DOMAIN used : Apart(used2[a], used2[b]) /\ Apart(used2[b], used2[a])
    BY <1>1, <1>2 DEF Apart
  <2>3. QED BY <2>1, <2>2 DEF Partition, Disjoint
<1>5. Inside(free, used2, n + size)
  <2>1. \A c \in Lists : \A i \in DOMAIN free[c] : End(free[c][i]) <= n + size
    BY <1>3
  <2>2. \A a \in DOMAIN used2 : End(used2[a]) <= n + size
    BY <1>1, <1>2
  <2>3. QED BY <2>1, <2>2 DEF Inside
<1>6. Covers(free, used2, n + size)
  <2> SUFFICES ASSUME NEW x \in 0..(n + size - 1)
               PROVE  \/ \E d \in Lists : \E i \in DOMAIN free[d] : InBlock(free[d][i], x)
                      \/ \E a \in DOMAIN used2 : InBlock(used2[a], x)
    BY DEF Covers
  <2>1. CASE x < n
    BY <1>2, <2>1 DEF Partition, Covers
  <2>2. CASE x >= n
    BY <1>1, <2>2 DEF InBlock
  <2>3. QED BY <2>1, <2>2
<1>7. QED BY <1>1, <1>2, <1>4, <1>5, <1>6 DEF Partition

-----------------------------------------------------------------------------
(* Multiples. *)

LEMMA Multiples ==
  ASSUME NEW a \in Nat, NEW B \in Nat \ {0}
  PROVE  a % B = 0 <=> \E q \in Nat : a = q * B
<1>1. /\ a \div B \in Nat /\ a % B \in 0..(B - 1)
      /\ (a \div B) * B + (a % B) = a
  <2>1. a \in 0..((a + 1) * B - 1)
    <3>1. (a + 1) * B >= (a + 1) * 1
      OBVIOUS
    <3>2. (a + 1) * B \in Nat
      OBVIOUS
    <3>3. QED BY <3>1, <3>2
  <2> DEFINE n == a + 1
  <2>2. n \in Nat /\ a \in 0..(n * B - 1)
    BY <2>1
  <2> HIDE DEF n
  <2>3. /\ a \div B \in 0..(n - 1) /\ a % B \in 0..(B - 1)
        /\ (a \div B) * B + (a % B) = a
    BY <2>2, Split
  <2>4. QED BY <2>2, <2>3
<1> DEFINE d == a \div B
           r == a % B
<1>2. d \in Nat /\ r \in 0..(B - 1) /\ d * B + r = a
  BY <1>1
<1> HIDE DEF d, r
<1>3. ASSUME NEW q \in Nat, a = q * B PROVE r = 0
  <2>1. 0 \in 0..(B - 1) /\ q * B + 0 = d * B + r
    BY <1>2, <1>3
  <2>2. QED BY <1>2, <2>1, Unique
<1>4. r = 0 => a = d * B
  <2>1. d * B \in Nat
    BY <1>2
  <2>2. QED BY <1>2, <2>1
<1>5. QED BY <1>2, <1>3, <1>4 DEF r

LEMMA MultipleOfMultiple ==
  ASSUME NEW a \in Nat, NEW P \in Nat \ {0}, NEW B \in Nat \ {0},
         a % P = 0, P % B = 0
  PROVE  a % B = 0
<1>1. PICK q \in Nat : a = q * P
  BY Multiples
<1>2. PICK m \in Nat : P = m * B
  BY Multiples
<1>3. q * m \in Nat /\ a = (q * m) * B
  BY <1>1, <1>2
<1>4. QED BY <1>3, Multiples

-----------------------------------------------------------------------------
(* Lists of blocks that stand for lists of addresses or of pages. *)

Image(q, f) == [k \in DOMAIN q |-> f[q[k]]]

LEMMA ImageOfList ==
  ASSUME NEW S, NEW T, NEW f \in [S -> T], NEW q \in Seq(S)
  PROVE  /\ Image(q, f) \in Seq(T) /\ DOMAIN Image(q, f) = DOMAIN q
         /\ \A k \in DOMAIN q : Image(q, f)[k] = f[q[k]] /\ q[k] \in S
<1> DEFINE p == Image(q, f)
<1>1. Len(q) \in Nat /\ DOMAIN q = 1..Len(q) /\ \A k \in 1..Len(q) : q[k] \in S
  BY LenProperties, ElementOfSeq
<1>2. p \in Seq(T) /\ Len(p) = Len(q) /\ DOMAIN p = DOMAIN q
      /\ \A k \in DOMAIN q : p[k] = f[q[k]]
  <2>1. p = [k \in 1..Len(q) |-> f[q[k]]]
    BY <1>1 DEF Image
  <2>2. \A k \in 1..Len(q) : f[q[k]] \in T
    BY <1>1
  <2>3. p \in [1..Len(q) -> T]
    BY <2>1, <2>2
  <2> HIDE DEF p
  <2>4. p \in Seq(T)
    BY <1>1, <2>3
  <2>5. Len(p) = Len(q)
    BY <1>1, <2>3, <2>4, LenProperties
  <2>6. QED BY <1>1, <2>1, <2>4, <2>5
<1>3. QED BY <1>1, <1>2 DEF p

LEMMA ImageIsList ==
  ASSUME NEW S, NEW q \in Seq(S), NEW f
  PROVE  /\ Image(q, f) \in Seq({f[q[k]] : k \in DOMAIN q})
         /\ DOMAIN Image(q, f) = DOMAIN q
         /\ \A k \in DOMAIN q : Image(q, f)[k] = f[q[k]]
         /\ Len(Image(q, f)) = Len(q)
<1> DEFINE p == Image(q, f)
           T == {f[q[k]] : k \in DOMAIN q}
<1>1. Len(q) \in Nat /\ DOMAIN q = 1..Len(q)
  BY LenProperties
<1>2. DOMAIN p = 1..Len(q) /\ p = [k \in 1..Len(q) |-> f[q[k]]]
  BY <1>1 DEF Image
<1>3. \A k \in 1..Len(q) : f[q[k]] \in T
  BY <1>1
<1> HIDE DEF T
<1>4. p \in [1..Len(q) -> T]
  BY <1>2, <1>3
<1> HIDE DEF p
<1>5. p \in Seq(T)
  BY <1>1, <1>4
<1>6. Len(p) = Len(q)
  BY <1>1, <1>2, <1>5, LenProperties
<1>7. QED BY <1>1, <1>2, <1>5, <1>6 DEF p, T

LEMMA ImageIsEmpty ==
  ASSUME NEW S, NEW q \in Seq(S), NEW f
  PROVE  q = <<>> <=> Image(q, f) = <<>>
<1> DEFINE p == Image(q, f)
           T == {f[q[k]] : k \in DOMAIN q}
<1>1. p \in Seq(T) /\ Len(p) = Len(q)
  BY ImageIsList
<1> HIDE DEF p, T
<1>2. QED BY <1>1, EmptySeq DEF p

LEMMA ImageOfTail ==
  ASSUME NEW S, NEW q \in Seq(S), q # <<>>, NEW f
  PROVE  /\ Head(q) \in S /\ Tail(q) \in Seq(S)
         /\ Head(q) = q[1]
         /\ Image(Tail(q), f) = Tail(Image(q, f))
         /\ \A k \in DOMAIN Tail(q) : Tail(q)[k] = q[k + 1] /\ k + 1 \in DOMAIN q
         /\ 1 \in DOMAIN q
<1> DEFINE p == Image(q, f)
           T == {f[q[k]] : k \in DOMAIN q}
           t == Tail(q)
           u == Tail(p)
<1>1. Len(q) \in Nat \ {0} /\ DOMAIN q = 1..Len(q)
  BY LenProperties, EmptySeq
<1>2. p \in Seq(T) /\ DOMAIN p = DOMAIN q /\ \A k \in DOMAIN q : p[k] = f[q[k]]
  <2>1. p \in Seq(T)
    BY ImageIsList
  <2>2. QED BY <2>1 DEF Image
<1>3. Len(p) = Len(q) /\ p # <<>>
  BY ImageIsList, ImageIsEmpty
<1> HIDE DEF p, T
<1>4. /\ t \in Seq(S) /\ Len(t) = Len(q) - 1 /\ Head(q) = q[1] /\ Head(q) \in S
      /\ \A k \in 1..Len(t) : t[k] = q[k + 1]
  BY <1>1, HeadTailProperties
<1>5. /\ u \in Seq(T) /\ Len(u) = Len(p) - 1 /\ Head(p) = p[1]
      /\ \A k \in 1..Len(u) : u[k] = p[k + 1]
  BY <1>2, HeadTailProperties
<1> HIDE DEF t, u
<1>6. DOMAIN t = 1..Len(t) /\ DOMAIN u = 1..Len(u) /\ Len(t) = Len(u) /\ 1 \in DOMAIN q
  BY <1>1, <1>3, <1>4, <1>5, LenProperties
<1>7. \A k \in DOMAIN t : t[k] = q[k + 1] /\ k + 1 \in DOMAIN q
  BY <1>1, <1>4, <1>6
<1>8. u = [k \in DOMAIN t |-> f[t[k]]]
  <2>1. \A k \in DOMAIN t : u[k] = f[t[k]]
    BY <1>2, <1>5, <1>6, <1>7
  <2>2. u = [k \in DOMAIN u |-> u[k]]
    BY <1>5, <1>6
  <2>3. QED BY <1>6, <2>1, <2>2
<1>9. QED BY <1>2, <1>4, <1>5, <1>6, <1>7, <1>8 DEF Image, t, u, p

LEMMA ImageOfFront ==
  ASSUME NEW S, NEW q \in Seq(S), NEW a \in S, NEW f, NEW t, PutFirst(a, q, t)
  PROVE  PutFirst(f[a], Image(q, f), Image(t, f))
<1> DEFINE p == Image(q, f)
           T == {f[q[k]] : k \in DOMAIN q} \union {f[a]}
           u == <<f[a]>> \o p
<1>1. p \in Seq(T) /\ DOMAIN p = DOMAIN q /\ \A k \in DOMAIN q : p[k] = f[q[k]]
  <2> DEFINE T1 == {f[q[k]] : k \in DOMAIN q}
  <2>1. p \in Seq(T1)
    BY ImageIsList
  <2>2. T1 \subseteq T
    OBVIOUS
  <2> HIDE DEF p, T, T1
  <2>3. p \in Seq(T)
    BY <2>1, <2>2, ElementOfSeq, LenProperties
  <2>4. QED BY <2>3 DEF Image, p
<1>2. f[a] \in T /\ PutFirst(f[a], p, u)
  BY DEF PutFirst
<1> HIDE DEF p, T, u
<1>3. /\ t \in Seq(S) /\ Len(q) \in Nat /\ DOMAIN q = 1..Len(q)
      /\ Len(t) = Len(q) + 1 /\ DOMAIN t = 1..(Len(q) + 1)
      /\ t[1] = a /\ \A k \in 1..Len(q) : t[k + 1] = q[k]
  BY FirstAndRest
<1>4. /\ u \in Seq(T) /\ Len(p) \in Nat /\ DOMAIN p = 1..Len(p)
      /\ Len(u) = Len(p) + 1 /\ DOMAIN u = 1..(Len(p) + 1)
      /\ u[1] = f[a] /\ \A k \in 1..Len(p) : u[k + 1] = p[k]
  BY <1>1, <1>2, FirstAndRest
<1>5. Len(p) = Len(q)
  BY <1>1, <1>3, <1>4
<1>6. ASSUME NEW k \in DOMAIN t PROVE u[k] = f[t[k]]
  <2>1. CASE k = 1
    BY <1>3, <1>4, <2>1
  <2>2. CASE k # 1
    <3>1. k - 1 \in 1..Len(q) /\ (k - 1) + 1 = k
      BY <1>3, <2>2
    <3>2. t[(k - 1) + 1] = q[k - 1] /\ u[(k - 1) + 1] = p[k - 1]
      BY <1>3, <1>4, <1>5, <3>1
    <3>3. QED BY <1>1, <1>3, <3>1, <3>2
  <2>3. QED BY <2>1, <2>2
<1>7. u = [k \in DOMAIN t |-> f[t[k]]]
  <2>1. u = [k \in DOMAIN u |-> u[k]]
    BY <1>4
  <2>2. QED BY <1>3, <1>4, <1>5, <1>6, <2>1
<1>8. QED BY <1>2, <1>7 DEF Image, p

-----------------------------------------------------------------------------
(* The blocks of the heap. *)

PageLists == [addr : Nat, pages : Nat \ {0}]
Sized(q, size) == Image(q, [a \in Nat |-> Region(a, size)])
SizedPages(q) == Image(q, [m \in PageLists |-> Region(m.addr, m.pages * PageSize)])
Free == [c \in Lists |-> IF c \in Classes THEN Sized(heads[c], BlockSize[c]) ELSE SizedPages(multiPage)]
Used == [b \in inUse |-> BlockOf(b)]

(* What the lists and the callers share: all of the heap, or what there was
   before the call that is not finished. *)
Given == IF call.do \in {"page", "map"} /\ call.for.do = "pages"
         THEN call.for.first ELSE HeapSize

HeapTypes ==
  /\ heads \in [Classes -> Seq(Nat)]
  /\ multiPage \in Seq(PageLists)
  /\ inUse \subseteq [addr : Nat, layout : Layouts]
  /\ Len(pages) \in Nat

(* Blocks start at multiples of their size, and pages at those of a page. *)
Aligned ==
  /\ \A c \in Classes : \A k \in DOMAIN heads[c] : heads[c][k] % BlockSize[c] = 0
  /\ \A b \in inUse :
       b.addr % (IF HeadIndex(b.layout) \in Classes THEN BlockSize[HeadIndex(b.layout)]
                 ELSE PageSize) = 0

(* What a call that waits for a page was promised. *)
InitWaits(k) ==
  /\ k.do = "init" /\ k.class \in Classes
  /\ k = [do |-> "init", class |-> k.class]
  /\ \A c \in Classes : c >= k.class => heads[c] = <<>>
RefillWaits(k) ==
  /\ k.do = "refill" /\ k.layout \in Layouts
  /\ HeadIndex(k.layout) \in Classes /\ heads[HeadIndex(k.layout)] = <<>>
PagesWait(k) ==
  /\ k.do = "pages" /\ k.layout \in Layouts
  /\ k = [do |-> "pages", left |-> k.left, first |-> k.first, layout |-> k.layout]
  /\ HeadIndex(k.layout) \notin Classes
  /\ k.left \in Nat \ {0} /\ k.first \in Nat /\ k.first % PageSize = 0
  /\ k.first + PagesNeeded(k.layout) * PageSize = HeapSize + k.left * PageSize
Waits(k) == InitWaits(k) \/ RefillWaits(k) \/ PagesWait(k)

CallWaits ==
  /\ call.do \in {"setup", "idle", "page", "map"}
  /\ call.do = "setup" => /\ \A c \in Classes : heads[c] = <<>>
                          /\ pages = <<>> /\ inUse = {} /\ multiPage = <<>>
  /\ call.do \in {"page", "map"} => Waits(call.for)

BlocksInv == HeapTypes /\ Partition(Free, Used, Given) /\ Aligned /\ CallWaits

(* The blocks of a fresh page tile it. *)
LEMMA PageOfBlocks ==
  ASSUME NEW c \in Classes, NEW n \in Nat, n % PageSize = 0
  PROVE  LET list == Sized(Refilled(c, n), BlockSize[c])
         IN  /\ Refilled(c, n) \in Seq(Nat) /\ Refilled(c, n) # <<>>
             /\ \A k \in DOMAIN Refilled(c, n) : Refilled(c, n)[k] % BlockSize[c] = 0
             /\ list \in Seq(Blocks)
             /\ \A i, j \in DOMAIN list : i # j => Apart(list[i], list[j])
             /\ \A i \in DOMAIN list : n <= list[i].addr /\ End(list[i]) <= n + PageSize
             /\ \A x \in n..(n + PageSize - 1) : \E i \in DOMAIN list : InBlock(list[i], x)
<1> DEFINE B == BlockSize[c]
           m == PageSize \div B
           q == Refilled(c, n)
           f == [a \in Nat |-> Region(a, B)]
           list == Image(q, f)
<1>1. B \in Nat \ {0} /\ PageSize \in Nat \ {0} /\ PageSize % B = 0
  BY ClassSizes
<1>2. m \in Nat \ {0} /\ PageSize = m * B
  <2>1. PICK k \in Nat : PageSize = k * B
    BY <1>1, Multiples
  <2>2. k # 0
    BY <1>1, <2>1
  <2>3. PageSize - 1 \in 0..(k * B - 1)
    BY <1>1, <2>1
  <2>4. m \in Int /\ PageSize % B = PageSize - B * m
    BY <1>1
  <2>5. m * B = k * B
    BY <1>1, <2>1, <2>4
  <2>6. m = k
    <3> HIDE DEF m
    <3>1. m \in Int /\ B \in Nat \ {0}
      BY <1>1, <2>4
    <3>2. (m - k) * B = 0
      BY <2>5, <3>1
    <3>3. QED BY <3>1, <3>2
  <2>7. QED BY <2>1, <2>2, <2>6
<1> HIDE DEF m
<1>3. q = [k \in 1..m |-> n + PageSize - k * B]
  BY DEF Refilled, m
<1> DEFINE At(k) == n + PageSize - k * B
<1>4. ASSUME NEW k \in 1..m
      PROVE  /\ At(k) \in Nat /\ At(k) >= n /\ At(k) + B <= n + PageSize
             /\ At(k) = n + (m - k) * B
  <2>1. k * B <= m * B /\ B <= k * B /\ k * B \in Nat
    BY <1>1, <1>2
  <2>2. (m - k) * B = m * B - k * B
    BY <1>1, <1>2
  <2>3. QED BY <1>1, <1>2, <2>1, <2>2
<1>5. ASSUME NEW i \in 1..m, NEW j \in 1..m, i < j
      PROVE  At(j) + B <= At(i)
  <2>1. (i + 1) * B <= j * B
    BY <1>1, <1>2, <1>5
  <2>2. (i + 1) * B = i * B + B
    BY <1>1
  <2>3. QED BY <1>1, <1>2, <2>1, <2>2
<1>6. q \in Seq(Nat) /\ q # <<>> /\ DOMAIN q = 1..m /\ \A k \in 1..m : q[k] = At(k)
  <2>1. q \in [1..m -> Nat]
    BY <1>3, <1>4
  <2>2. DOMAIN q = 1..m /\ \A k \in 1..m : q[k] = At(k)
    BY <1>3
  <2> HIDE DEF q
  <2>3. q \in Seq(Nat)
    BY <1>2, <2>1
  <2>4. Len(q) = m
    BY <1>2, <2>2, <2>3, LenProperties
  <2>5. QED BY <1>2, <2>2, <2>3, <2>4, EmptySeq
<1>7. \A k \in DOMAIN q : q[k] % B = 0
  <2> SUFFICES ASSUME NEW k \in 1..m PROVE At(k) % B = 0
    BY <1>6
  <2>1. PICK p \in Nat : n = p * PageSize
    BY <1>1, Multiples
  <2>2. n = (p * m) * B /\ p * m \in Nat
    BY <1>1, <1>2, <2>1
  <2>3. At(k) = (p * m + (m - k)) * B /\ p * m + (m - k) \in Nat
    <3> DEFINE u == p * m
               v == m - k
    <3>1. u \in Nat /\ v \in Nat /\ n = u * B /\ At(k) = n + v * B
      BY <1>2, <1>4, <2>2
    <3> HIDE DEF u, v, At
    <3>2. (u + v) * B = u * B + v * B
      BY <1>1, <3>1
    <3>3. At(k) = (u + v) * B /\ u + v \in Nat
      BY <3>1, <3>2
    <3>4. QED BY <3>3 DEF u, v
  <2>4. QED BY <1>1, <1>4, <2>3, Multiples
<1> HIDE DEF q, At
<1>8. /\ list \in Seq(Blocks) /\ DOMAIN list = 1..m
      /\ \A k \in 1..m : list[k].addr = At(k) /\ End(list[k]) = At(k) + B
  <2>1. f \in [Nat -> Blocks]
    BY <1>1 DEF Region, Blocks
  <2>2. \A k \in 1..m : f[At(k)] = Region(At(k), B)
    BY <1>4
  <2> HIDE DEF f
  <2>3. list \in Seq(Blocks)
    BY <1>6, <2>1, ImageOfList
  <2>4. DOMAIN list = 1..m /\ \A k \in 1..m : list[k] = f[At(k)]
    BY <1>6 DEF Image
  <2> HIDE DEF list
  <2>5. \A k \in 1..m : list[k] = Region(At(k), B)
    BY <2>2, <2>4
  <2>6. \A k \in 1..m : list[k].addr = At(k) /\ End(list[k]) = At(k) + B
    <3> SUFFICES ASSUME NEW k \in 1..m
                 PROVE  list[k].addr = At(k) /\ End(list[k]) = At(k) + B
      OBVIOUS
    <3>1. list[k] = [addr |-> At(k), size |-> B]
      BY <2>5 DEF Region
    <3>2. list[k].addr = At(k) /\ list[k].size = B
      BY <3>1
    <3>3. QED BY <3>2 DEF End
  <2>7. QED BY <2>3, <2>4, <2>6
<1>9. Sized(q, B) = list
  BY DEF Sized
<1> HIDE DEF list
<1>10. \A i, j \in DOMAIN list : i # j => Apart(list[i], list[j])
  <2> SUFFICES ASSUME NEW i \in 1..m, NEW j \in 1..m, i # j
               PROVE  Apart(list[i], list[j])
    BY <1>8
  <2>1. CASE i < j
    BY <1>5, <1>8, <2>1 DEF Apart
  <2>2. CASE j < i
    BY <1>5, <1>8, <2>2 DEF Apart
  <2>3. QED BY <1>2, <2>1, <2>2
<1>11. \A i \in DOMAIN list : n <= list[i].addr /\ End(list[i]) <= n + PageSize
  BY <1>1, <1>4, <1>8
<1>12. ASSUME NEW x \in n..(n + PageSize - 1) PROVE \E i \in DOMAIN list : InBlock(list[i], x)
  <2> DEFINE y == x - n
             d == y \div B
             r == y % B
  <2>1. y \in 0..(m * B - 1) /\ x = n + y
    BY <1>1, <1>2
  <2> HIDE DEF y
  <2>2. d \in 0..(m - 1) /\ r \in 0..(B - 1) /\ d * B + r = y
    BY <1>1, <1>2, <2>1, Split
  <2> HIDE DEF d, r
  <2> DEFINE k == m - d
  <2>3. k \in 1..m /\ m - k = d
    BY <1>2, <2>2
  <2> HIDE DEF k
  <2>4. At(k) = n + d * B /\ d * B \in Nat
    BY <1>1, <1>4, <2>2, <2>3
  <2>5. At(k) <= x /\ x < At(k) + B
    BY <1>1, <2>1, <2>2, <2>4
  <2>6. QED BY <1>8, <2>3, <2>5 DEF InBlock
<1>13. QED BY <1>6, <1>7, <1>8, <1>9, <1>10, <1>11, <1>12 DEF q, list

(* The heap is a whole number of pages. *)
LEMMA HeapSizes ==
  ASSUME HeapTypes
  PROVE  /\ HeapSize \in Nat /\ HeapSize % PageSize = 0
         /\ \A c \in Classes : (0 % BlockSize[c] = 0)
<1>1. HeapSize \in Nat /\ HeapSize = Len(pages) * PageSize /\ Len(pages) \in Nat
  BY ClassSizes DEF HeapSize, HeapTypes
<1>2. HeapSize % PageSize = 0
  BY <1>1, ClassSizes, Multiples
<1>3. ASSUME NEW c \in Classes PROVE 0 % BlockSize[c] = 0
  BY ClassSizes
<1>4. QED BY <1>1, <1>2, <1>3

(* A call for whole pages asks for at least one. *)
LEMMA SomePages ==
  ASSUME NEW l \in Layouts
  PROVE  PagesNeeded(l) \in Nat \ {0} /\ PagesNeeded(l) * PageSize \in Nat \ {0}
         /\ PagesNeeded(l) * PageSize >= l.size
<1>1. l.size \in Nat \ {0} /\ PageSize \in Nat \ {0}
  BY HeadIndexFits, ClassSizes
<1> DEFINE n == CeilDiv(l.size, PageSize)
<1>2. n \in Nat /\ n * PageSize >= l.size
  BY <1>1, RoundUp
<1> HIDE DEF n
<1>3. n # 0
  BY <1>1, <1>2
<1>4. n * PageSize \in Nat \ {0}
  BY <1>1, <1>2, <1>3
<1>5. QED BY <1>2, <1>3, <1>4 DEF PagesNeeded, n

(* The block behind what a caller got. *)
LEMMA BlockBehind ==
  ASSUME NEW b \in [addr : Nat, layout : Layouts]
  PROVE  BlockOf(b) \in Blocks /\ BlockOf(b).addr = b.addr
         /\ BlockOf(b).size >= b.layout.size
<1> DEFINE l == b.layout
<1>1. l \in Layouts /\ b.addr \in Nat /\ l.size \in Nat
  BY HeadIndexFits
<1>2. CASE HeadIndex(l) \in Classes
  <2>1. BlockOf(b) = Region(b.addr, BlockSize[HeadIndex(l)])
    BY <1>2 DEF BlockOf
  <2>2. BlockSize[HeadIndex(l)] \in Nat \ {0} /\ BlockSize[HeadIndex(l)] >= l.size
    BY <1>1, <1>2, ClassSizes, HeadIndexFits
  <2>3. QED BY <1>1, <2>1, <2>2 DEF Region, Blocks
<1>3. CASE HeadIndex(l) \notin Classes
  <2>1. BlockOf(b) = Region(b.addr, PagesNeeded(l) * PageSize)
    BY <1>3 DEF BlockOf
  <2>2. PagesNeeded(l) * PageSize \in Nat \ {0} /\ PagesNeeded(l) * PageSize >= l.size
    BY <1>1, SomePages
  <2>3. QED BY <1>1, <2>1, <2>2 DEF Region, Blocks
<1>4. QED BY <1>2, <1>3

(* The lists of blocks. *)
LEMMA FreeIs ==
  ASSUME HeapTypes
  PROVE  /\ Free \in FreeLists
         /\ \A c \in Classes : /\ c \in Lists /\ Free[c] = Sized(heads[c], BlockSize[c])
                               /\ heads[c] = <<>> <=> Free[c] = <<>>
         /\ HeadCount + 1 \in Lists /\ HeadCount + 1 \notin Classes
         /\ Free[HeadCount + 1] = SizedPages(multiPage)
<1>1. /\ HeadCount + 1 \in Lists /\ HeadCount + 1 \notin Classes
      /\ \A c \in Classes : c \in Lists
  BY ClassSizes DEF Lists, Classes
<1>2. ASSUME NEW c \in Classes
      PROVE  /\ Sized(heads[c], BlockSize[c]) \in Seq(Blocks)
             /\ heads[c] = <<>> <=> Sized(heads[c], BlockSize[c]) = <<>>
  <2> DEFINE f == [a \in Nat |-> Region(a, BlockSize[c])]
  <2>1. f \in [Nat -> Blocks] /\ heads[c] \in Seq(Nat)
    BY ClassSizes DEF Region, Blocks, HeapTypes
  <2>2. Sized(heads[c], BlockSize[c]) = Image(heads[c], f)
    BY DEF Sized
  <2> HIDE DEF f
  <2>3. Image(heads[c], f) \in Seq(Blocks)
    BY <2>1, ImageOfList
  <2>4. heads[c] = <<>> <=> Image(heads[c], f) = <<>>
    BY <2>1, ImageIsEmpty
  <2>5. QED BY <2>2, <2>3, <2>4
<1>3. SizedPages(multiPage) \in Seq(Blocks)
  <2> DEFINE f == [m \in PageLists |-> Region(m.addr, m.pages * PageSize)]
  <2>1. f \in [PageLists -> Blocks] /\ multiPage \in Seq(PageLists)
    <3>1. ASSUME NEW m \in PageLists PROVE Region(m.addr, m.pages * PageSize) \in Blocks
      <4>1. m.addr \in Nat /\ m.pages \in Nat \ {0} /\ PageSize \in Nat \ {0}
        BY ClassSizes DEF PageLists
      <4>2. m.pages * PageSize \in Nat \ {0}
        BY <4>1
      <4>3. QED BY <4>1, <4>2 DEF Region, Blocks
    <3>2. QED BY <3>1 DEF HeapTypes
  <2>2. SizedPages(multiPage) = Image(multiPage, f)
    BY DEF SizedPages
  <2> HIDE DEF f
  <2>3. QED BY <2>1, <2>2, ImageOfList
<1>4. QED BY <1>1, <1>2, <1>3 DEF Free, FreeLists

-----------------------------------------------------------------------------
(* How the steps change what the partition is about. *)

LEMMA HeadsChanged ==
  ASSUME HeapTypes, NEW c \in Classes, NEW q \in Seq(Nat),
         heads' = [heads EXCEPT ![c] = q], multiPage' = multiPage
  PROVE  /\ heads' \in [Classes -> Seq(Nat)]
         /\ Free' = [Free EXCEPT ![c] = Sized(q, BlockSize[c])]
<1>1. heads \in [Classes -> Seq(Nat)]
  BY DEF HeapTypes
<1>2. c \in Lists /\ Lists' = Lists /\ Classes' = Classes
  BY FreeIs DEF Lists, Classes, HeadCount
<1>3. Free' = [d \in Lists |-> IF d \in Classes THEN Sized(heads'[d], BlockSize[d])
                               ELSE SizedPages(multiPage)]
  BY <1>2 DEF Free
<1>4. Free = [d \in Lists |-> IF d \in Classes THEN Sized(heads[d], BlockSize[d])
                              ELSE SizedPages(multiPage)]
  BY DEF Free
<1>5. QED BY <1>1, <1>2, <1>3, <1>4

LEMMA PagesListed ==
  ASSUME HeapTypes, NEW q, multiPage' = q, heads' = heads
  PROVE  Free' = [Free EXCEPT ![HeadCount + 1] = SizedPages(q)]
<1>1. HeadCount + 1 \in Lists /\ HeadCount + 1 \notin Classes
  BY FreeIs
<1>2. \A d \in Lists : d # HeadCount + 1 => d \in Classes
  BY ClassSizes DEF Lists, Classes
<1>3. Free' = [d \in Lists |-> IF d \in Classes THEN Sized(heads[d], BlockSize[d])
                               ELSE SizedPages(q)]
  BY DEF Free
<1>4. Free = [d \in Lists |-> IF d \in Classes THEN Sized(heads[d], BlockSize[d])
                              ELSE SizedPages(multiPage)]
  BY DEF Free
<1>5. QED BY <1>1, <1>2, <1>3, <1>4

LEMMA OneMoreUsed ==
  ASSUME NEW b, inUse' = inUse \union {b}
  PROVE  /\ DOMAIN Used' = DOMAIN Used \union {b} /\ Used'[b] = BlockOf(b)
         /\ \A a \in DOMAIN Used : Used'[a] = Used[a] /\ Used[a] = BlockOf(a)
         /\ DOMAIN Used = inUse
BY DEF Used

LEMMA OneLessUsed ==
  ASSUME NEW b \in inUse, inUse' = inUse \ {b}
  PROVE  /\ DOMAIN Used' = DOMAIN Used \ {b} /\ Used[b] = BlockOf(b)
         /\ \A a \in DOMAIN Used' : Used'[a] = Used[a]
         /\ DOMAIN Used = inUse
BY DEF Used

LEMMA OnePageMore ==
  ASSUME IInv, MappedPage
  PROVE  Len(pages') \in Nat /\ HeapSize' = HeapSize + PageSize /\ call.do = "map"
<1>1. pages \in Seq(BitNumbers \union {Null}) /\ pages' = Append(pages, call.frame)
      /\ call.do = "map" /\ call.frame \in BitNumbers \union {Null}
  BY DEF IInv, ListsType, CallShape, MappedPage
<1>2. Len(pages') = Len(pages) + 1 /\ Len(pages) \in Nat
  BY <1>1, AppendProperties, LenProperties
<1>3. (Len(pages) + 1) * PageSize = Len(pages) * PageSize + PageSize
  BY <1>2, ClassSizes
<1>4. QED BY <1>1, <1>2, <1>3 DEF HeapSize

(* A block that is free is not in use. *)
LEMMA FreeIsNotUsed ==
  ASSUME HeapTypes, NEW free, NEW n, Partition(free, Used, n),
         NEW c \in Lists, NEW i \in DOMAIN free[c], NEW b \in inUse
  PROVE  free[c][i] # BlockOf(b)
<1>1. Apart(free[c][i], Used[b]) /\ Used[b] = BlockOf(b)
  BY DEF Partition, Disjoint, Used
<1>2. BlockOf(b) \in Blocks
  BY BlockBehind DEF HeapTypes
<1>3. ~Apart(BlockOf(b), BlockOf(b))
  BY <1>2 DEF Apart, Blocks, End
<1>4. QED BY <1>1, <1>3

(* A step that leaves the blocks and the pages alone. *)
LEMMA SameBlocks ==
  ASSUME BlocksInv, UNCHANGED heapVars, pages' = pages, Given' = Given, CallWaits'
  PROVE  BlocksInv'
<1>1. heads' = heads /\ multiPage' = multiPage /\ inUse' = inUse
  BY DEF heapVars
<1>2. Free' = Free /\ Used' = Used
  BY <1>1 DEF Free, Used
<1>3. HeapTypes' /\ Aligned'
  BY <1>1 DEF BlocksInv, HeapTypes, Aligned
<1>4. Partition(Free, Used, Given)'
  BY <1>2 DEF BlocksInv
<1>5. QED BY <1>3, <1>4 DEF BlocksInv

LEMMA SameWaits ==
  ASSUME NEW k, Waits(k), heads' = heads, pages' = pages
  PROVE  Waits(k)'
BY DEF Waits, InitWaits, RefillWaits, PagesWait, HeapSize

-----------------------------------------------------------------------------
(* The steps that move no block. *)

LEMMA SetupBlocks ==
  ASSUME IInv, BlocksInv, NEW f, SetupPageTables(f)
  PROVE  BlocksInv'
<1>1. /\ call.do = "setup" /\ UNCHANGED heapVars /\ pages' = pages
      /\ call' = IF call.left > 1 THEN [call EXCEPT !.left = call.left - 1]
                 ELSE WantPage([do |-> "init", class |-> 1])
  BY DEF SetupPageTables
<1>2. /\ heads' = heads /\ multiPage' = multiPage /\ inUse' = inUse
      /\ \A c \in Classes : heads[c] = <<>>
      /\ pages = <<>> /\ inUse = {} /\ multiPage = <<>>
  BY <1>1 DEF heapVars, BlocksInv, CallWaits
<1>3. \/ call' = [do |-> "setup", left |-> call.left - 1]
      \/ call' = [do |-> "page", for |-> [do |-> "init", class |-> 1]]
  <2>1. call = [do |-> "setup", left |-> call.left]
    BY <1>1 DEF IInv, CallShape
  <2>2. QED BY <1>1, <2>1 DEF WantPage
<1>4. CallWaits'
  <2>1. CASE call' = [do |-> "setup", left |-> call.left - 1]
    BY <1>1, <1>2, <2>1 DEF CallWaits
  <2>2. CASE call' = [do |-> "page", for |-> [do |-> "init", class |-> 1]]
    <3>1. call'.do = "page" /\ call'.for = [do |-> "init", class |-> 1]
      BY <2>2
    <3>2. 1 \in Classes
      BY ClassSizes DEF Classes
    <3>3. InitWaits(call.for)'
      BY <1>2, <3>1, <3>2 DEF InitWaits
    <3>4. QED BY <3>1, <3>3 DEF CallWaits, Waits
  <2>3. QED BY <1>3, <2>1, <2>2
<1>5. Given' = Given
  <2>1. Given = HeapSize
    BY <1>1 DEF Given
  <2>2. Given' = HeapSize'
    BY <1>3 DEF Given
  <2>3. QED BY <1>1, <2>1, <2>2 DEF HeapSize
<1>6. QED BY <1>1, <1>4, <1>5, SameBlocks

LEMMA TakePageBlocks ==
  ASSUME BlocksInv, NEW f, TakePage(f)
  PROVE  BlocksInv'
<1>1. /\ call.do = "page" /\ UNCHANGED heapVars /\ pages' = pages
      /\ call'.do = "map" /\ call'.for = call.for
  BY DEF TakePage, backVars
<1>2. heads' = heads /\ Waits(call.for)
  BY <1>1 DEF heapVars, BlocksInv, CallWaits
<1>3. Waits(call.for)'
  BY <1>1, <1>2, SameWaits DEF Waits, InitWaits, RefillWaits, PagesWait, HeapSize
<1>4. CallWaits'
  BY <1>1, <1>3 DEF CallWaits, Waits, InitWaits, RefillWaits, PagesWait
<1>5. Given' = Given
  BY <1>1 DEF Given, HeapSize
<1>6. QED BY <1>1, <1>4, <1>5, SameBlocks

LEMMA TakeTableBlocks ==
  ASSUME IInv, BlocksInv, NEW f, TakeTable(f)
  PROVE  BlocksInv'
<1>1. /\ call.do = "map" /\ UNCHANGED heapVars /\ pages' = pages
      /\ call' = [call EXCEPT !.missing = call.missing - 1]
  BY DEF TakeTable
<1>2. call'.do = "map" /\ call'.for = call.for
  <2>1. call = [do |-> "map", for |-> call.for, frame |-> call.frame,
                missing |-> call.missing]
    BY <1>1 DEF IInv, CallShape
  <2>2. QED BY <1>1, <2>1
<1>3. heads' = heads /\ Waits(call.for)
  BY <1>1 DEF heapVars, BlocksInv, CallWaits
<1>4. CallWaits'
  BY <1>1, <1>2, <1>3
  DEF CallWaits, Waits, InitWaits, RefillWaits, PagesWait, HeapSize
<1>5. Given' = Given
  BY <1>1, <1>2 DEF Given, HeapSize
<1>6. QED BY <1>1, <1>4, <1>5, SameBlocks

LEMMA OthersBlocks ==
  ASSUME BlocksInv, UNCHANGED heapVars, pages' = pages, call' = call
  PROVE  BlocksInv'
<1>1. heads' = heads /\ multiPage' = multiPage /\ inUse' = inUse
  BY DEF heapVars
<1>2. CallWaits'
  BY <1>1 DEF BlocksInv, CallWaits, Waits, InitWaits, RefillWaits, PagesWait, HeapSize
<1>3. Given' = Given
  BY DEF Given, HeapSize
<1>4. QED BY <1>2, <1>3, SameBlocks

LEMMA AllocFreshBlocks ==
  ASSUME BlocksInv, NEW l \in Layouts, AllocFresh(l)
  PROVE  BlocksInv'
<1> DEFINE n == IF HeadIndex(l) \in Classes THEN 1 ELSE PagesNeeded(l)
           k == IF HeadIndex(l) \in Classes THEN [do |-> "refill", layout |-> l]
                ELSE [do |-> "pages", left |-> n, first |-> HeapSize, layout |-> l]
<1>1. /\ call.do = "idle" /\ UNCHANGED heapVars /\ pages' = pages
      /\ HeadIndex(l) \in Classes => heads[HeadIndex(l)] = <<>>
      /\ call' = WantPage(k)
  BY DEF AllocFresh, MayCall, Idle, backVars
<1>2. heads' = heads /\ HeapSize' = HeapSize /\ HeapSize \in Nat /\ HeapSize % PageSize = 0
  BY <1>1, HeapSizes DEF heapVars, HeapSize, BlocksInv
<1>3. call'.do = "page" /\ call'.for = k
  BY <1>1 DEF WantPage
<1>4. CASE HeadIndex(l) \in Classes
  <2>1. call'.for = [do |-> "refill", layout |-> l]
    BY <1>3, <1>4
  <2>2. CallWaits'
    BY <1>1, <1>2, <1>3, <1>4, <2>1 DEF CallWaits, Waits, RefillWaits
  <2>3. Given' = Given
    BY <1>1, <1>2, <1>3, <2>1 DEF Given
  <2>4. QED BY <1>1, <2>2, <2>3, SameBlocks
<1>5. CASE HeadIndex(l) \notin Classes
  <2> DEFINE p == PagesNeeded(l)
  <2>1. call'.for = [do |-> "pages", left |-> p, first |-> HeapSize, layout |-> l]
    BY <1>3, <1>5
  <2>2. p \in Nat \ {0}
    BY SomePages
  <2> HIDE DEF p
  <2>3. /\ call'.for.do = "pages" /\ call'.for.layout = l /\ call'.for.left = p
        /\ call'.for.first = HeapSize
        /\ call'.for = [do |-> "pages", left |-> call'.for.left, first |-> call'.for.first,
                        layout |-> call'.for.layout]
    BY <2>1
  <2>4. HeapSize + p * PageSize = HeapSize' + p * PageSize
    BY <1>2
  <2>5. PagesWait(call.for)'
    BY <1>2, <1>5, <2>2, <2>3, <2>4 DEF PagesWait, p
  <2>6. CallWaits'
    BY <1>3, <2>5 DEF CallWaits, Waits
  <2>7. Given' = Given
    <3>1. Given = HeapSize
      BY <1>1 DEF Given
    <3>2. Given' = HeapSize
      BY <1>3, <2>3 DEF Given
    <3>3. QED BY <3>1, <3>2
  <2>8. QED BY <1>1, <2>6, <2>7, SameBlocks
<1>6. QED BY <1>4, <1>5

-----------------------------------------------------------------------------
(* The steps that move blocks. *)

(* The list of a class is filled with the blocks of the page just mapped. *)
LEMMA PageListed ==
  ASSUME IInv, BlocksInv, MappedPage, NEW c \in Classes, heads[c] = <<>>,
         Given = HeapSize
  PROVE  LET q == Refilled(c, HeapSize)
         IN  /\ q \in Seq(Nat) /\ q # <<>>
             /\ \A k \in DOMAIN q : q[k] % BlockSize[c] = 0
             /\ Sized(q, BlockSize[c]) \in Seq(Blocks)
             /\ Partition([Free EXCEPT ![c] = Sized(q, BlockSize[c])], Used, HeapSize')
<1> DEFINE q == Refilled(c, HeapSize)
           list == Sized(q, BlockSize[c])
           n == HeapSize
           m == n + PageSize
           free2 == [Free EXCEPT ![c] = list]
<1>1. n \in Nat /\ n % PageSize = 0 /\ PageSize \in Nat \ {0} /\ HeapSize' = m
  BY HeapSizes, ClassSizes, OnePageMore DEF BlocksInv
<1>2. /\ q \in Seq(Nat) /\ q # <<>>
      /\ \A k \in DOMAIN q : q[k] % BlockSize[c] = 0
      /\ list \in Seq(Blocks)
      /\ \A i, j \in DOMAIN list : i # j => Apart(list[i], list[j])
      /\ \A i \in DOMAIN list : n <= list[i].addr /\ End(list[i]) <= n + PageSize
      /\ \A x \in n..(n + PageSize - 1) : \E i \in DOMAIN list : InBlock(list[i], x)
  <2> HIDE DEF n
  <2>1. QED BY <1>1, PageOfBlocks DEF n
<1>3. c \in Lists /\ Free[c] = <<>> /\ Partition(Free, Used, n)
  BY FreeIs DEF BlocksInv
<1> HIDE DEF q, list, n
<1>4. m \in Nat /\ n <= m
  BY <1>1
<1>5. /\ \A i \in DOMAIN list : n <= list[i].addr /\ End(list[i]) <= m
      /\ \A x \in n..(m - 1) : \E i \in DOMAIN list : InBlock(list[i], x)
  BY <1>1, <1>2
<1> HIDE DEF m
<1>6. Partition(free2, Used, m)
  <2>1. free2 = [Free EXCEPT ![c] = list]
    OBVIOUS
  <2> HIDE DEF free2
  <2>2. QED BY <1>1, <1>2, <1>3, <1>4, <1>5, <2>1, ListFilled
<1>7. QED BY <1>1, <1>2, <1>6 DEF q, list, n

LEMMA InitHeadBlocks ==
  ASSUME IInv, BlocksInv, InitHead
  PROVE  BlocksInv'
<1> DEFINE c == call.for.class
           q == Refilled(c, HeapSize)
<1>1. /\ MappedPage /\ call.for.do = "init" /\ heads' = [heads EXCEPT ![c] = q]
      /\ call' = IF c < HeadCount THEN WantPage([do |-> "init", class |-> c + 1]) ELSE Idle
      /\ multiPage' = multiPage /\ inUse' = inUse
  BY DEF InitHead
<1>2. call.do = "map" /\ InitWaits(call.for)
  BY <1>1 DEF BlocksInv, CallWaits, Waits, RefillWaits, PagesWait, MappedPage
<1>3. c \in Classes /\ heads[c] = <<>> /\ \A d \in Classes : d >= c => heads[d] = <<>>
      /\ c \in Nat
  BY <1>2 DEF InitWaits, Classes
<1>4. Given = HeapSize
  BY <1>1 DEF Given
<1> HIDE DEF c
<1>5. /\ q \in Seq(Nat) /\ \A k \in DOMAIN q : q[k] % BlockSize[c] = 0
      /\ Partition([Free EXCEPT ![c] = Sized(q, BlockSize[c])], Used, HeapSize')
  BY <1>1, <1>3, <1>4, PageListed
<1> HIDE DEF q
<1>6. /\ heads' \in [Classes -> Seq(Nat)]
      /\ Free' = [Free EXCEPT ![c] = Sized(q, BlockSize[c])]
  BY <1>1, <1>3, <1>5, HeadsChanged DEF BlocksInv
<1>7. Used' = Used
  BY <1>1 DEF Used
<1>8. \/ call' = [do |-> "page", for |-> [do |-> "init", class |-> c + 1]] /\ c < HeadCount
      \/ call' = [do |-> "idle"]
  BY <1>1 DEF WantPage, Idle
<1>9. Given' = HeapSize'
  BY <1>8 DEF Given
<1>10. HeapTypes'
  BY <1>1, <1>6, OnePageMore DEF BlocksInv, HeapTypes
<1>11. \A d \in Classes : heads'[d] = IF d = c THEN q ELSE heads[d]
  BY <1>1, <1>3 DEF BlocksInv, HeapTypes
<1>12. Aligned'
  BY <1>1, <1>5, <1>11 DEF BlocksInv, Aligned
<1>13. CallWaits'
  <2>1. CASE call' = [do |-> "page", for |-> [do |-> "init", class |-> c + 1]]
             /\ c < HeadCount
    <3>1. call'.do = "page" /\ call'.for = [do |-> "init", class |-> c + 1]
      BY <2>1
    <3>2. c + 1 \in Classes
      BY <1>3, <2>1, ClassSizes DEF Classes
    <3>3. \A d \in Classes : d >= c + 1 => heads'[d] = <<>>
      BY <1>3, <1>11 DEF Classes
    <3>4. InitWaits(call.for)'
      BY <3>1, <3>2, <3>3 DEF InitWaits
    <3>5. QED BY <3>1, <3>4 DEF CallWaits, Waits
  <2>2. CASE call' = [do |-> "idle"]
    BY <2>2 DEF CallWaits
  <2>3. QED BY <1>8, <2>1, <2>2
<1>14. Partition(Free, Used, Given)'
  BY <1>5, <1>6, <1>7, <1>9
<1>15. QED BY <1>10, <1>12, <1>13, <1>14 DEF BlocksInv

(* The first block of the list q of class c is given out for l, and the rest
   is what the class is left with. *)
LEMMA HeadGiven ==
  ASSUME HeapTypes, Aligned, NEW l \in Layouts, NEW c \in Classes, c = HeadIndex(l),
         NEW q \in Seq(Nat), q # <<>>, \A k \in DOMAIN q : q[k] % BlockSize[c] = 0,
         NEW n \in Nat, Partition([Free EXCEPT ![c] = Sized(q, BlockSize[c])], Used, n),
         heads' = [heads EXCEPT ![c] = Tail(q)], multiPage' = multiPage,
         inUse' = inUse \union {[addr |-> Head(q), layout |-> l]}, Len(pages') \in Nat
  PROVE  HeapTypes' /\ Aligned' /\ Partition(Free', Used', n)
<1> DEFINE f == [a \in Nat |-> Region(a, BlockSize[c])]
           free == [Free EXCEPT ![c] = Sized(q, BlockSize[c])]
           b == [addr |-> Head(q), layout |-> l]
<1>1. f \in [Nat -> Blocks] /\ Sized(q, BlockSize[c]) = Image(q, f)
  BY ClassSizes DEF Region, Blocks, Sized
<1>2. c \in Lists /\ Free \in FreeLists /\ free[c] = Image(q, f)
  BY <1>1, FreeIs DEF FreeLists
<1>3. BlockOf(b) = Region(Head(q), BlockSize[c])
  BY DEF BlockOf
<1>4. inUse' = inUse \union {b} /\ b.addr = Head(q) /\ b.layout = l
  OBVIOUS
<1>5. f[Head(q)] = Region(Head(q), BlockSize[c]) /\ Head(q) \in Nat
  BY HeadTailProperties
<1>6. Sized(Tail(q), BlockSize[c]) = Image(Tail(q), f)
  BY DEF Sized
<1> HIDE DEF b, f, free
<1>7. /\ Tail(q) \in Seq(Nat) /\ Head(q) = q[1] /\ 1 \in DOMAIN q
      /\ \A k \in DOMAIN Tail(q) : Tail(q)[k] = q[k + 1] /\ k + 1 \in DOMAIN q
      /\ Image(Tail(q), f) = Tail(Image(q, f))
  <2>1. Tail(q) \in Seq(Nat) /\ Head(q) = q[1] /\ 1 \in DOMAIN q
    BY <1>1, ImageOfTail
  <2>2. Image(Tail(q), f) = Tail(Image(q, f))
    BY <1>1, ImageOfTail
  <2>3. \A k \in DOMAIN Tail(q) : Tail(q)[k] = q[k + 1] /\ k + 1 \in DOMAIN q
    BY <1>1, ImageOfTail
  <2>4. QED BY <2>1, <2>2, <2>3
<1>8. /\ Image(q, f) # <<>> /\ Head(Image(q, f)) = BlockOf(b)
      /\ 1 \in DOMAIN Image(q, f) /\ Image(q, f)[1] = BlockOf(b)
  <2>1. Image(q, f) \in Seq(Blocks) /\ Image(q, f) # <<>>
    <3>1. Image(q, f) \in Seq(Blocks)
      BY <1>1, ImageOfList
    <3>2. Image(q, f) # <<>>
      BY <1>1, ImageIsEmpty
    <3>3. QED BY <3>1, <3>2
  <2>2. Head(Image(q, f)) = Image(q, f)[1]
    BY <2>1, HeadTailProperties
  <2>3. Image(q, f)[1] = f[q[1]] /\ 1 \in DOMAIN Image(q, f)
    BY <1>7 DEF Image
  <2>4. QED BY <1>3, <1>5, <1>7, <2>1, <2>2, <2>3
<1>9. b \notin inUse
  <2>1. 1 \in DOMAIN free[c] /\ free[c][1] = BlockOf(b) /\ Partition(free, Used, n)
    BY <1>2, <1>8 DEF free
  <2>2. QED BY <1>2, <2>1, FreeIsNotUsed
<1>10. /\ heads' \in [Classes -> Seq(Nat)]
       /\ Free' = [Free EXCEPT ![c] = Sized(Tail(q), BlockSize[c])]
  BY <1>7, HeadsChanged
<1>11. Free' = [free EXCEPT ![c] = Tail(free[c])]
  BY <1>1, <1>2, <1>6, <1>7, <1>10 DEF free
<1>12. /\ DOMAIN Used' = DOMAIN Used \union {b} /\ Used'[b] = BlockOf(b)
       /\ \A a \in DOMAIN Used : Used'[a] = Used[a]
       /\ DOMAIN Used = inUse
  BY <1>4, OneMoreUsed
<1>13. Partition(Free', Used', n)
  <2>1. /\ b \notin DOMAIN Used /\ Used'[b] = Head(free[c]) /\ free[c] # <<>>
        /\ Partition(free, Used, n)
    BY <1>2, <1>8, <1>9, <1>12 DEF free
  <2>2. Takes(free, Used, c, b, Free', Used')
    BY <1>2, <1>11, <1>12, <2>1 DEF Takes
  <2>3. QED BY <1>2, <2>1, <2>2, BlockTaken
<1>14. HeapTypes'
  <2>1. b \in [addr : Nat, layout : Layouts]
    BY <1>5 DEF b
  <2>2. QED BY <1>4, <1>10, <2>1 DEF HeapTypes
<1>15. Aligned'
  <2>1. /\ heads'[c] = Tail(q)
        /\ \A d \in Classes : d # c => heads'[d] = heads[d]
    BY DEF HeapTypes
  <2>2. \A d \in Classes : \A k \in DOMAIN heads'[d] : heads'[d][k] % BlockSize[d] = 0
    <3> SUFFICES ASSUME NEW d \in Classes, NEW k \in DOMAIN heads'[d]
                 PROVE  heads'[d][k] % BlockSize[d] = 0
      OBVIOUS
    <3>1. CASE d = c
      <4>1. heads'[d][k] = q[k + 1] /\ k + 1 \in DOMAIN q
        BY <1>7, <2>1, <3>1
      <4>2. QED BY <3>1, <4>1
    <3>2. CASE d # c
      BY <2>1, <3>2 DEF Aligned
    <3>3. QED BY <3>1, <3>2
  <2>3. b.addr % BlockSize[HeadIndex(b.layout)] = 0 /\ HeadIndex(b.layout) \in Classes
    BY <1>4, <1>7
  <2>4. QED BY <1>4, <2>2, <2>3 DEF Aligned
<1>16. QED BY <1>13, <1>14, <1>15

LEMMA AllocFromListBlocks ==
  ASSUME BlocksInv, NEW l \in Layouts, AllocFromList(l)
  PROVE  BlocksInv'
<1> DEFINE c == HeadIndex(l)
           q == heads[c]
<1>1. /\ call.do = "idle" /\ c \in Classes /\ q # <<>>
      /\ inUse' = inUse \union {[addr |-> Head(q), layout |-> l]}
      /\ heads' = [heads EXCEPT ![c] = Tail(q)]
      /\ multiPage' = multiPage /\ pages' = pages /\ call' = call
  BY DEF AllocFromList, MayCall, Idle, backVars
<1>2. /\ q \in Seq(Nat) /\ \A k \in DOMAIN q : q[k] % BlockSize[c] = 0
      /\ Len(pages') \in Nat /\ HeapTypes /\ Aligned
  BY <1>1 DEF BlocksInv, HeapTypes, Aligned
<1>3. [Free EXCEPT ![c] = Sized(q, BlockSize[c])] = Free
  BY <1>1, <1>2, FreeIs DEF FreeLists
<1>4. Partition(Free, Used, HeapSize) /\ HeapSize \in Nat
  BY <1>1, HeapSizes DEF BlocksInv, Given
<1> HIDE DEF c, q
<1>5. HeapTypes' /\ Aligned' /\ Partition(Free', Used', HeapSize)
  BY <1>1, <1>2, <1>3, <1>4, HeadGiven DEF c
<1>6. CallWaits' /\ Given' = HeapSize
  BY <1>1 DEF CallWaits, Given, HeapSize
<1>7. QED BY <1>5, <1>6 DEF BlocksInv

LEMMA RefillHeadBlocks ==
  ASSUME IInv, BlocksInv, RefillHead
  PROVE  BlocksInv'
<1> DEFINE l == call.for.layout
           c == HeadIndex(l)
           q == Refilled(c, HeapSize)
<1>1. /\ MappedPage /\ call.for.do = "refill"
      /\ heads' = [heads EXCEPT ![c] = Tail(q)]
      /\ inUse' = inUse \union {[addr |-> Head(q), layout |-> l]}
      /\ multiPage' = multiPage /\ call' = [do |-> "idle"]
  BY DEF RefillHead, Idle
<1>2. l \in Layouts /\ c \in Classes /\ heads[c] = <<>> /\ Given = HeapSize
  BY <1>1 DEF BlocksInv, CallWaits, Waits, InitWaits, RefillWaits, PagesWait, MappedPage, Given
<1> HIDE DEF l, c
<1>3. /\ q \in Seq(Nat) /\ q # <<>> /\ \A k \in DOMAIN q : q[k] % BlockSize[c] = 0
      /\ Partition([Free EXCEPT ![c] = Sized(q, BlockSize[c])], Used, HeapSize')
  BY <1>1, <1>2, PageListed
<1> HIDE DEF q
<1>4. Len(pages') \in Nat /\ HeapSize' \in Nat /\ HeapTypes /\ Aligned
  BY <1>1, OnePageMore, HeapSizes, ClassSizes DEF BlocksInv
<1>5. HeapTypes' /\ Aligned' /\ Partition(Free', Used', HeapSize')
  BY <1>1, <1>2, <1>3, <1>4, HeadGiven DEF c
<1>6. CallWaits' /\ Given' = HeapSize'
  BY <1>1 DEF CallWaits, Given
<1>7. QED BY <1>5, <1>6 DEF BlocksInv

LEMMA AllocPagesBlocks ==
  ASSUME IInv, BlocksInv, AllocPages
  PROVE  BlocksInv'
<1> DEFINE k == call.for
           p == PagesNeeded(k.layout) * PageSize
           b == [addr |-> k.first, layout |-> k.layout]
<1>1. /\ MappedPage /\ k.do = "pages" /\ heads' = heads /\ multiPage' = multiPage
      /\ IF k.left > 1
           THEN call' = WantPage([k EXCEPT !.left = k.left - 1]) /\ inUse' = inUse
           ELSE inUse' = inUse \union {b} /\ call' = [do |-> "idle"]
  BY DEF AllocPages, Idle
<1>2. /\ k.layout \in Layouts /\ HeadIndex(k.layout) \notin Classes
      /\ k = [do |-> "pages", left |-> k.left, first |-> k.first, layout |-> k.layout]
      /\ k.left \in Nat \ {0} /\ k.first \in Nat /\ k.first % PageSize = 0
      /\ k.first + p = HeapSize + k.left * PageSize
      /\ Given = k.first
  BY <1>1 DEF BlocksInv, CallWaits, Waits, InitWaits, RefillWaits, PagesWait,
              MappedPage, Given
<1>3. /\ HeapSize \in Nat /\ PageSize \in Nat \ {0} /\ p \in Nat \ {0}
      /\ HeapSize' = HeapSize + PageSize /\ Len(pages') \in Nat
  BY <1>1, <1>2, HeapSizes, ClassSizes, OnePageMore, SomePages DEF BlocksInv
<1>4. Free' = Free /\ Partition(Free, Used, k.first)
  BY <1>1, <1>2 DEF Free, BlocksInv
<1>5. CASE k.left > 1
  <2>1. /\ call'.do = "page" /\ call'.for = [do |-> "pages", left |-> k.left - 1,
                                             first |-> k.first, layout |-> k.layout]
    BY <1>1, <1>2, <1>5 DEF WantPage
  <2>2. k.first + p = HeapSize' + (k.left - 1) * PageSize
    <3>1. (k.left - 1) * PageSize = k.left * PageSize - PageSize
      BY <1>2, <1>3
    <3>2. k.left * PageSize \in Nat
      BY <1>2, <1>3
    <3> HIDE DEF p
    <3>3. QED BY <1>2, <1>3, <3>1, <3>2
  <2> HIDE DEF k
  <2>3. PagesWait(call.for)'
    <3>1. /\ call'.for.do = "pages" /\ call'.for.left = k.left - 1
          /\ call'.for.first = k.first /\ call'.for.layout = k.layout
      BY <2>1
    <3>2. k.left - 1 \in Nat \ {0}
      BY <1>2, <1>5
    <3>3. QED BY <1>2, <2>1, <2>2, <3>1, <3>2 DEF PagesWait, p
  <2>4. CallWaits'
    BY <2>1, <2>3 DEF CallWaits, Waits
  <2>5. Given' = k.first
    BY <2>1 DEF Given
  <2>6. Used' = Used /\ HeapTypes' /\ Aligned'
    BY <1>1, <1>3, <1>5 DEF BlocksInv, HeapTypes, Aligned, Used
  <2>7. Partition(Free, Used, Given)'
    BY <1>4, <2>5, <2>6
  <2>8. QED BY <2>4, <2>6, <2>7 DEF BlocksInv
<1>6. CASE ~(k.left > 1)
  <2>1. inUse' = inUse \union {b} /\ call' = [do |-> "idle"]
    BY <1>1, <1>6
  <2>2. k.first + p = HeapSize'
    <3>1. k.left = 1
      BY <1>2, <1>6
    <3> HIDE DEF k, p
    <3>2. QED BY <1>2, <1>3, <3>1
  <2>3. b \in [addr : Nat, layout : Layouts] /\ BlockOf(b) = Region(k.first, p)
    BY <1>2 DEF BlockOf
  <2>4. b.addr = k.first /\ b.layout = k.layout
    OBVIOUS
  <2> HIDE DEF b, k, p
  <2>5. b \notin inUse
    <3> SUFFICES ASSUME b \in inUse PROVE FALSE
      OBVIOUS
    <3>1. Used[b] = Region(k.first, p) /\ b \in DOMAIN Used
      BY <2>3 DEF Used
    <3>2. End(Used[b]) <= k.first
      BY <1>4, <3>1 DEF Partition, Inside
    <3>3. QED BY <1>2, <1>3, <3>1, <3>2 DEF Region, End
  <2>6. /\ DOMAIN Used' = DOMAIN Used \union {b} /\ Used'[b] = Region(k.first, p)
        /\ \A a \in DOMAIN Used : Used'[a] = Used[a]
        /\ DOMAIN Used = inUse
    BY <2>1, <2>3, OneMoreUsed
  <2>7. Partition(Free, Used', k.first + p)
    BY <1>2, <1>3, <1>4, <2>5, <2>6, PagesTaken
  <2>8. CallWaits' /\ Given' = HeapSize'
    BY <2>1 DEF CallWaits, Given
  <2>9. HeapTypes'
    BY <1>1, <1>3, <2>1, <2>3 DEF BlocksInv, HeapTypes
  <2>10. Aligned'
    BY <1>1, <1>2, <2>1, <2>4 DEF BlocksInv, Aligned
  <2>11. Partition(Free, Used, Given)'
    BY <1>4, <2>2, <2>7, <2>8
  <2>12. QED BY <2>8, <2>9, <2>10, <2>11 DEF BlocksInv
<1>7. QED BY <1>5, <1>6

LEMMA DeallocBlocks ==
  ASSUME BlocksInv, NEW b \in inUse, Dealloc(b)
  PROVE  BlocksInv'
<1> DEFINE l == b.layout
           c == HeadIndex(l)
           m == [addr |-> b.addr, pages |-> PagesNeeded(l)]
<1>1. /\ call.do = "idle" /\ call' = call /\ pages' = pages
      /\ inUse' = inUse \ {b}
      /\ c \in Classes => /\ heads' = [heads EXCEPT ![c] = <<b.addr>> \o heads[c]]
                          /\ multiPage' = multiPage
      /\ c \notin Classes => heads' = heads /\ multiPage' = <<m>> \o multiPage
  BY DEF Dealloc, MayCall, Idle, backVars
<1>2. /\ b.addr \in Nat /\ l \in Layouts /\ HeapTypes /\ Aligned
      /\ HeapSize \in Nat /\ Partition(Free, Used, HeapSize)
  BY <1>1, HeapSizes DEF BlocksInv, HeapTypes, Given
<1>3. CallWaits' /\ Given' = HeapSize
  BY <1>1 DEF CallWaits, Given, HeapSize
<1>4. /\ DOMAIN Used' = DOMAIN Used \ {b} /\ Used[b] = BlockOf(b)
      /\ \A a \in DOMAIN Used' : Used'[a] = Used[a]
      /\ DOMAIN Used = inUse
  BY <1>1, OneLessUsed
<1>5. CASE c \in Classes
  <2> DEFINE q == heads[c]
             f == [a \in Nat |-> Region(a, BlockSize[c])]
             t == <<b.addr>> \o q
  <2>1. f \in [Nat -> Blocks] /\ q \in Seq(Nat)
    BY <1>2, <1>5, ClassSizes DEF Region, Blocks, HeapTypes
  <2>2. c \in Lists /\ Free[c] = Image(q, f) /\ Sized(t, BlockSize[c]) = Image(t, f)
        /\ f[b.addr] = BlockOf(b)
    BY <1>2, <1>5, FreeIs DEF Sized, BlockOf
  <2>0. PutFirst(b.addr, q, t)
    BY DEF PutFirst
  <2> HIDE DEF f, q, t, m, c
  <2>3. t \in Seq(Nat) /\ PutFirst(f[b.addr], Image(q, f), Image(t, f))
        /\ \A i \in DOMAIN t : t[i] = b.addr \/ (i - 1 \in DOMAIN q /\ t[i] = q[i - 1])
    <3>1. t \in Seq(Nat) /\ DOMAIN t = 1..(Len(q) + 1) /\ t[1] = b.addr
          /\ Len(q) \in Nat /\ DOMAIN q = 1..Len(q) /\ \A k \in 1..Len(q) : t[k + 1] = q[k]
      <4> DEFINE Addresses == Nat
      <4>1. b.addr \in Addresses /\ q \in Seq(Addresses)
        BY <1>2, <2>1
      <4> HIDE DEF Addresses
      <4>2. t \in Seq(Addresses) /\ DOMAIN t = 1..(Len(q) + 1) /\ t[1] = b.addr
            /\ Len(q) \in Nat /\ DOMAIN q = 1..Len(q) /\ \A k \in 1..Len(q) : t[k + 1] = q[k]
        BY <2>0, <4>1, FirstAndRest
      <4>3. QED BY <4>2 DEF Addresses
    <3>2. PutFirst(f[b.addr], Image(q, f), Image(t, f))
      BY <1>2, <2>0, <2>1, ImageOfFront
    <3>3. ASSUME NEW i \in DOMAIN t
          PROVE  t[i] = b.addr \/ (i - 1 \in DOMAIN q /\ t[i] = q[i - 1])
      <4>1. CASE i = 1
        BY <3>1, <4>1
      <4>2. CASE i # 1
        <5>1. i - 1 \in DOMAIN q /\ i - 1 \in 1..Len(q) /\ (i - 1) + 1 = i
          BY <3>1, <4>2
        <5>2. t[(i - 1) + 1] = q[i - 1]
          BY <3>1, <5>1
        <5>3. QED BY <5>1, <5>2
      <4>3. QED BY <4>1, <4>2
    <3>4. QED BY <3>1, <3>2, <3>3
  <2>4. heads' = [heads EXCEPT ![c] = t] /\ multiPage' = multiPage
    BY <1>1, <1>5 DEF q, t
  <2>5. /\ heads' \in [Classes -> Seq(Nat)]
        /\ Free' = [Free EXCEPT ![c] = Sized(t, BlockSize[c])]
    BY <1>2, <1>5, <2>3, <2>4, HeadsChanged
  <2> DEFINE s == Sized(t, BlockSize[c])
  <2>6. PutFirst(Used[b], Free[c], s) /\ Free' = [Free EXCEPT ![c] = s]
    BY <1>4, <2>2, <2>3, <2>5
  <2> HIDE DEF s
  <2>7. Partition(Free', Used', HeapSize)
    <3> HIDE DEF c
    <3>1. Returns(Free, Used, c, b, s, Free', Used')
      BY <1>4, <2>2, <2>6 DEF Returns
    <3>2. QED BY <1>2, <3>1, BlockReturned
  <2>8. HeapTypes'
    BY <1>1, <1>2, <2>4, <2>5 DEF HeapTypes
  <2>9. Aligned'
    <3>1. b.addr % BlockSize[c] = 0 /\ \A i \in DOMAIN q : q[i] % BlockSize[c] = 0
      BY <1>2, <1>5 DEF Aligned, q, c
    <3>2. heads'[c] = t /\ \A d \in Classes : d # c => heads'[d] = heads[d]
      BY <1>2, <1>5, <2>4 DEF HeapTypes
    <3> HIDE DEF c
    <3>3. \A d \in Classes : \A i \in DOMAIN heads'[d] : heads'[d][i] % BlockSize[d] = 0
      <4> SUFFICES ASSUME NEW d \in Classes, NEW i \in DOMAIN heads'[d]
                   PROVE  heads'[d][i] % BlockSize[d] = 0
        OBVIOUS
      <4>1. CASE d = c
        BY <2>3, <3>1, <3>2, <4>1
      <4>2. CASE d # c
        BY <1>2, <3>2, <4>2 DEF Aligned
      <4>3. QED BY <4>1, <4>2
    <3>4. QED BY <1>1, <1>2, <3>3 DEF Aligned
  <2>10. QED BY <1>3, <2>7, <2>8, <2>9 DEF BlocksInv
<1>6. CASE c \notin Classes
  <2> DEFINE f == [x \in PageLists |-> Region(x.addr, x.pages * PageSize)]
             t == <<m>> \o multiPage
             last == HeadCount + 1
  <2>1. f \in [PageLists -> Blocks] /\ multiPage \in Seq(PageLists)
    <3>1. ASSUME NEW x \in PageLists PROVE Region(x.addr, x.pages * PageSize) \in Blocks
      <4>1. x.addr \in Nat /\ x.pages \in Nat \ {0} /\ PageSize \in Nat \ {0}
        BY ClassSizes DEF PageLists
      <4>2. x.pages * PageSize \in Nat \ {0}
        BY <4>1
      <4>3. QED BY <4>1, <4>2 DEF Region, Blocks
    <3>2. QED BY <1>2, <3>1 DEF HeapTypes
  <2>2. m \in PageLists /\ f[m] = BlockOf(b)
    <3>1. m \in PageLists
      BY <1>2, SomePages DEF PageLists
    <3>2. f[m] = Region(m.addr, m.pages * PageSize)
      BY <3>1
    <3>3. QED BY <1>6, <3>1, <3>2 DEF BlockOf
  <2>3. last \in Lists /\ Free[last] = Image(multiPage, f)
        /\ SizedPages(t) = Image(t, f)
    BY <1>2, FreeIs DEF SizedPages
  <2>4. multiPage' = t /\ heads' = heads
    BY <1>1, <1>6
  <2>0. PutFirst(m, multiPage, t)
    BY DEF PutFirst
  <2> HIDE DEF f, m, t
  <2>5. t \in Seq(PageLists) /\ PutFirst(f[m], Image(multiPage, f), Image(t, f))
    <3>1. t \in Seq(PageLists)
      BY <2>0, <2>1, <2>2, FirstAndRest
    <3>2. PutFirst(f[m], Image(multiPage, f), Image(t, f))
      BY <2>0, <2>1, <2>2, ImageOfFront
    <3>3. QED BY <3>1, <3>2
  <2>6. Free' = [Free EXCEPT ![last] = SizedPages(t)]
    BY <1>2, <2>4, PagesListed
  <2> DEFINE s == SizedPages(t)
  <2>7. PutFirst(Used[b], Free[last], s) /\ Free' = [Free EXCEPT ![last] = s]
    BY <1>4, <2>2, <2>3, <2>5, <2>6
  <2> HIDE DEF s
  <2>8. Partition(Free', Used', HeapSize)
    <3> HIDE DEF last
    <3>1. Returns(Free, Used, last, b, s, Free', Used')
      BY <1>4, <2>3, <2>7 DEF Returns
    <3>2. QED BY <1>2, <3>1, BlockReturned
  <2>9. HeapTypes' /\ Aligned'
    BY <1>1, <1>2, <2>4, <2>5 DEF HeapTypes, Aligned
  <2>10. QED BY <1>3, <2>8, <2>9 DEF BlocksInv
<1>7. QED BY <1>5, <1>6

LEMMA InitBlocks ==
  ASSUME Init
  PROVE  BlocksInv
<1>1. /\ heads = [c \in Classes |-> <<>>] /\ multiPage = <<>> /\ pages = <<>> /\ inUse = {}
      /\ call.do = "setup"
  BY DEF Init
<1>2. HeapTypes /\ Aligned /\ CallWaits
  <2>1. Len(pages) = 0 /\ pages \in Seq(Nat)
    BY <1>1
  <2>2. HeapTypes
    BY <1>1, <2>1 DEF HeapTypes
  <2>3. Aligned
    BY <1>1, EmptySeq DEF Aligned
  <2>4. CallWaits
    BY <1>1 DEF CallWaits
  <2>5. QED BY <2>2, <2>3, <2>4
<1>3. Given = 0
  BY <1>1, ClassSizes DEF Given, HeapSize
<1>4. /\ Free \in FreeLists /\ DOMAIN Used = {}
      /\ \A c \in Lists : Free[c] = <<>>
  <2>1. \A c \in Classes : Free[c] = <<>>
    BY <1>1, <1>2, FreeIs
  <2>2. SizedPages(multiPage) = <<>>
    BY <1>1, EmptySeq DEF SizedPages, Image
  <2>3. \A c \in Lists : c \in Classes \/ c = HeadCount + 1
    BY ClassSizes DEF Lists, Classes
  <2>4. QED BY <1>1, <1>2, <2>1, <2>2, <2>3, FreeIs DEF Used
<1>5. \A c \in Lists : DOMAIN Free[c] = {}
  BY <1>4
<1>6. Partition(Free, Used, 0)
  BY <1>4, <1>5 DEF Partition, Disjoint, Inside, Covers
<1>7. QED BY <1>2, <1>3, <1>6 DEF BlocksInv

LEMMA NextBlocks == IInv /\ BlocksInv /\ [Next]_vars => BlocksInv'
<1> SUFFICES ASSUME IInv, BlocksInv, [Next]_vars PROVE BlocksInv'
  OBVIOUS
<1>1. ASSUME NEW f, SetupPageTables(f) \/ TakePage(f) \/ TakeTable(f) PROVE BlocksInv'
  BY <1>1, SetupBlocks, TakePageBlocks, TakeTableBlocks
<1>2. CASE InitHead
  BY <1>2, InitHeadBlocks
<1>3. CASE RefillHead
  BY <1>3, RefillHeadBlocks
<1>4. CASE AllocPages
  BY <1>4, AllocPagesBlocks
<1>5. ASSUME NEW l \in Layouts, AllocFromList(l) \/ AllocFresh(l) PROVE BlocksInv'
  BY <1>5, AllocFromListBlocks, AllocFreshBlocks
<1>6. ASSUME NEW b \in inUse, Dealloc(b) PROVE BlocksInv'
  BY <1>6, DeallocBlocks
<1>7. ASSUME NEW f, NewBuffer(f) \/ DropBuffer(f) PROVE BlocksInv'
  BY <1>7, OthersBlocks DEF NewBuffer, DropBuffer
<1>8. CASE UNCHANGED vars
  BY <1>8, OthersBlocks DEF vars, backVars
<1>9. QED BY <1>1, <1>2, <1>3, <1>4, <1>5, <1>6, <1>7, <1>8 DEF Next

(* The invariant says what BlocksPartitionHeap says of addresses. *)
LEMMA FreeBlocksAre ==
  ASSUME HeapTypes, NEW x
  PROVE  x \in FreeBlocks <=> \E c \in Lists : \E i \in DOMAIN Free[c] : x = Free[c][i]
<1>1. ASSUME NEW c \in Classes
      PROVE  /\ DOMAIN Free[c] = DOMAIN heads[c] /\ c \in Lists
             /\ \A i \in DOMAIN heads[c] : Free[c][i] = Region(heads[c][i], BlockSize[c])
  <2> DEFINE f == [a \in Nat |-> Region(a, BlockSize[c])]
  <2>1. Free[c] = Image(heads[c], f) /\ heads[c] \in Seq(Nat) /\ c \in Lists
    BY FreeIs DEF Sized, HeapTypes
  <2>2. \A i \in DOMAIN heads[c] : heads[c][i] \in Nat
    BY <2>1, ElementOfSeq, LenProperties
  <2>3. QED BY <2>1, <2>2 DEF Image
<1> DEFINE last == HeadCount + 1
<1>2. /\ last \in Lists /\ DOMAIN Free[last] = DOMAIN multiPage
      /\ \A i \in DOMAIN multiPage :
           Free[last][i] = Region(multiPage[i].addr, multiPage[i].pages * PageSize)
  <2> DEFINE f == [m \in PageLists |-> Region(m.addr, m.pages * PageSize)]
  <2>1. Free[last] = Image(multiPage, f) /\ multiPage \in Seq(PageLists) /\ last \in Lists
    BY FreeIs DEF SizedPages, HeapTypes
  <2>2. \A i \in DOMAIN multiPage : multiPage[i] \in PageLists
    BY <2>1, ElementOfSeq, LenProperties
  <2>3. QED BY <2>1, <2>2 DEF Image
<1>3. \A c \in Lists : c \in Classes \/ c = last
  BY ClassSizes DEF Lists, Classes
<1> HIDE DEF last
<1>4. x \in FreeBlocks <=>
        \/ \E c \in Classes : \E i \in DOMAIN heads[c] : x = Region(heads[c][i], BlockSize[c])
        \/ \E i \in DOMAIN multiPage :
             x = Region(multiPage[i].addr, multiPage[i].pages * PageSize)
  BY DEF FreeBlocks, Range
<1>5. QED BY <1>1, <1>2, <1>3, <1>4

LEMMA ApartBytes ==
  ASSUME NEW x \in Blocks, NEW y \in Blocks, Apart(x, y)
  PROVE  x # y /\ Bytes(x) \intersect Bytes(y) = {}
BY DEF Blocks, Apart, Bytes, End

LEMMA PartitionOfHeap ==
  ASSUME BlocksInv
  PROVE  BlocksPartitionHeap
<1> DEFINE used == {BlockOf(b) : b \in inUse}
           blocks == FreeBlocks \union used
           unfinished == IF call.do \in {"page", "map"} /\ call.for.do = "pages"
                         THEN HeapSize - call.for.first ELSE 0
<1>1. HeapTypes /\ Partition(Free, Used, Given) /\ HeapSize \in Nat
  BY HeapSizes DEF BlocksInv
<1>2. \A c \in Lists : \A i \in DOMAIN Free[c] : Free[c][i] \in Blocks
  BY <1>1, FreeIs, ElementOfSeq, LenProperties DEF FreeLists
<1>3. \A b \in inUse : Used[b] = BlockOf(b) /\ BlockOf(b) \in Blocks
  BY <1>1, BlockBehind DEF HeapTypes, Used
<1>4. DOMAIN Used = inUse
  BY DEF Used
<1>5. ASSUME NEW x \in blocks
      PROVE  /\ x \in Blocks
             /\ \/ \E c \in Lists : \E i \in DOMAIN Free[c] : x = Free[c][i]
                \/ \E b \in inUse : x = Used[b]
  BY <1>1, <1>2, <1>3, FreeBlocksAre
<1>6. \A c, d \in Lists : \A i \in DOMAIN Free[c], j \in DOMAIN Free[d] :
        Free[c][i] = Free[d][j] => c = d /\ i = j
  <2> SUFFICES ASSUME NEW c \in Lists, NEW d \in Lists, NEW i \in DOMAIN Free[c],
                      NEW j \in DOMAIN Free[d], ~(c = d /\ i = j)
               PROVE  Free[c][i] # Free[d][j]
    OBVIOUS
  <2>1. Apart(Free[c][i], Free[d][j])
    BY <1>1 DEF Partition, Disjoint
  <2>2. QED BY <1>2, <2>1, ApartBytes
<1>7. \A c \in Classes : IsInjective(heads[c])
  <2> SUFFICES ASSUME NEW c \in Classes, NEW i \in DOMAIN heads[c], NEW j \in DOMAIN heads[c],
                      heads[c][i] = heads[c][j]
               PROVE  i = j
    BY DEF IsInjective
  <2>1. c \in Lists /\ Free[c] = Sized(heads[c], BlockSize[c])
    BY <1>1, FreeIs
  <2>2. /\ i \in DOMAIN Free[c] /\ j \in DOMAIN Free[c] /\ Free[c][i] = Free[c][j]
    BY <2>1 DEF Sized, Image
  <2>3. QED BY <1>6, <2>1, <2>2
<1>8. IsInjective(multiPage)
  <2> SUFFICES ASSUME NEW i \in DOMAIN multiPage, NEW j \in DOMAIN multiPage,
                      multiPage[i] = multiPage[j]
               PROVE  i = j
    BY DEF IsInjective
  <2> DEFINE last == HeadCount + 1
  <2>1. last \in Lists /\ Free[last] = SizedPages(multiPage)
    BY <1>1, FreeIs
  <2>2. /\ i \in DOMAIN Free[last] /\ j \in DOMAIN Free[last] /\ Free[last][i] = Free[last][j]
    BY <2>1 DEF SizedPages, Image
  <2> HIDE DEF last
  <2>3. QED BY <1>6, <2>1, <2>2
<1>9. \A x, y \in blocks : x # y => Bytes(x) \intersect Bytes(y) = {}
  <2> SUFFICES ASSUME NEW x \in blocks, NEW y \in blocks, x # y
               PROVE  Bytes(x) \intersect Bytes(y) = {}
    OBVIOUS
  <2>1. x \in Blocks /\ y \in Blocks
    BY <1>5
  <2>2. Apart(x, y) \/ Apart(y, x)
    <3>1. CASE \E c \in Lists : \E i \in DOMAIN Free[c] : x = Free[c][i]
      <4>1. CASE \E c \in Lists : \E i \in DOMAIN Free[c] : y = Free[c][i]
        BY <1>1, <3>1, <4>1 DEF Partition, Disjoint
      <4>2. CASE \E b \in inUse : y = Used[b]
        BY <1>1, <1>4, <3>1, <4>2 DEF Partition, Disjoint
      <4>3. QED BY <1>5, <4>1, <4>2
    <3>2. CASE \E b \in inUse : x = Used[b]
      <4>1. CASE \E c \in Lists : \E i \in DOMAIN Free[c] : y = Free[c][i]
        BY <1>1, <1>4, <3>2, <4>1 DEF Partition, Disjoint
      <4>2. CASE \E b \in inUse : y = Used[b]
        BY <1>1, <1>4, <3>2, <4>2 DEF Partition, Disjoint
      <4>3. QED BY <1>5, <4>1, <4>2
    <3>3. QED BY <1>5, <3>1, <3>2
  <2>3. QED BY <2>1, <2>2, ApartBytes
<1>10. FreeBlocks \intersect used = {}
  <2> SUFFICES ASSUME NEW x \in FreeBlocks, NEW b \in inUse, x = BlockOf(b) PROVE FALSE
    OBVIOUS
  <2>1. PICK c \in Lists : \E i \in DOMAIN Free[c] : x = Free[c][i]
    BY <1>1, FreeBlocksAre
  <2>2. PICK i \in DOMAIN Free[c] : x = Free[c][i]
    BY <2>1
  <2>3. QED BY <1>1, <2>2, FreeIsNotUsed
<1>11. UNION {Bytes(x) : x \in blocks} = 0..(HeapSize - unfinished - 1)
  <2>1. Given \in Nat /\ HeapSize - unfinished = Given
    <3>1. CASE call.do \in {"page", "map"} /\ call.for.do = "pages"
      <4>1. call.for.first \in Nat
        BY <3>1 DEF BlocksInv, CallWaits, Waits, InitWaits, RefillWaits, PagesWait
      <4>2. QED BY <1>1, <3>1, <4>1 DEF Given
    <3>2. CASE ~(call.do \in {"page", "map"} /\ call.for.do = "pages")
      BY <1>1, <3>2 DEF Given
    <3>3. QED BY <3>1, <3>2
  <2>2. ASSUME NEW x \in blocks, NEW byte \in Bytes(x) PROVE byte \in 0..(Given - 1)
    <3>1. x \in Blocks /\ End(x) <= Given
      BY <1>1, <1>4, <1>5 DEF Partition, Inside
    <3>2. QED BY <2>1, <3>1 DEF Blocks, Bytes, End
  <2>3. ASSUME NEW byte \in 0..(Given - 1) PROVE \E x \in blocks : byte \in Bytes(x)
    <3>1. PICK x \in blocks : InBlock(x, byte)
      <4>1. CASE \E c \in Lists : \E i \in DOMAIN Free[c] : InBlock(Free[c][i], byte)
        <5>1. PICK c \in Lists : \E i \in DOMAIN Free[c] : InBlock(Free[c][i], byte)
          BY <4>1
        <5>2. PICK i \in DOMAIN Free[c] : InBlock(Free[c][i], byte)
          BY <5>1
        <5>3. Free[c][i] \in FreeBlocks
          BY <1>1, FreeBlocksAre
        <5>4. QED BY <5>2, <5>3
      <4>2. CASE \E b \in DOMAIN Used : InBlock(Used[b], byte)
        BY <1>3, <1>4, <4>2
      <4>3. QED BY <1>1, <4>1, <4>2 DEF Partition, Covers
    <3>2. x \in Blocks
      BY <1>5
    <3>3. QED BY <2>1, <3>1, <3>2 DEF Blocks, Bytes, End, InBlock
  <2> HIDE DEF blocks, unfinished
  <2>4. QED BY <2>1, <2>2, <2>3
<1>12. QED BY <1>7, <1>8, <1>9, <1>10, <1>11 DEF BlocksPartitionHeap

(* A step that gives a block to a caller is one of the pool. *)
LEMMA GivenByPool ==
  ASSUME BlocksInv, BlocksInv', NEW b, inUse' = inUse \union {b}
  PROVE  Pool!PoolNext \/ inUse' = inUse
<1> SUFFICES ASSUME b \notin inUse PROVE Pool!PoolNext
  OBVIOUS
<1> DEFINE l == b.layout
           c == HeadIndex(l)
<1>1. /\ inUse' \subseteq [addr : Nat, layout : Layouts] /\ Partition(Free', Used', Given')
      /\ Aligned'
  BY DEF BlocksInv, HeapTypes
<1>2. b \in inUse' /\ b \in [addr : Nat, layout : Layouts]
  BY <1>1
<1>3. b = [addr |-> b.addr, layout |-> l] /\ b.addr \in Nat /\ l \in Layouts
  BY <1>2
<1>4. b.addr % l.align = 0
  <2>1. PICK e \in Classes : l.align = BlockSize[e]
    BY <1>3, HeadIndexFits
  <2>2. BlockSize[e] \in Nat \ {0} /\ PageSize \in Nat \ {0} /\ PageSize % BlockSize[e] = 0
    BY ClassSizes
  <2>3. CASE c \in Classes
    <3>1. b.addr % BlockSize[c] = 0
      BY <1>1, <1>2, <2>3 DEF Aligned
    <3>2. BlockSize[c] \in Nat \ {0} /\ BlockSize[e] <= BlockSize[c]
      BY <1>3, <2>1, <2>3, ClassSizes, HeadIndexFits
    <3>3. c \in Nat /\ e \in Nat
      BY <2>3 DEF Classes
    <3>4. ~(c < e)
      <4>1. c < e => BlockSize[c] < BlockSize[e]
        BY <2>3, BlockSizeAssumption
      <4>2. QED BY <2>2, <3>2, <4>1
    <3>5. BlockSize[c] % BlockSize[e] = 0
      <4>1. CASE e = c
        BY <2>2, <4>1
      <4>2. CASE e < c
        BY <2>3, <4>2, BlockSizeAssumption
      <4>3. QED BY <3>3, <3>4, <4>1, <4>2
    <3> HIDE DEF c
    <3>6. QED BY <1>3, <2>1, <2>2, <3>1, <3>2, <3>5, MultipleOfMultiple
  <2>4. CASE c \notin Classes
    <3>1. b.addr % PageSize = 0
      BY <1>1, <1>2, <2>4 DEF Aligned
    <3>2. QED BY <1>3, <2>1, <2>2, <3>1, MultipleOfMultiple
  <2>5. QED BY <2>3, <2>4
<1>5. ASSUME NEW other \in inUse
      PROVE  Pool!Span(b) \intersect Pool!Span(other) = {}
  <2>1. other \in inUse' /\ other # b /\ other \in [addr : Nat, layout : Layouts]
    BY <1>1
  <2>2. Used'[b] = BlockOf(b) /\ Used'[other] = BlockOf(other) /\ DOMAIN Used' = inUse'
    BY <1>2, <2>1 DEF Used
  <2>3. Apart(BlockOf(b), BlockOf(other))
    BY <1>1, <1>2, <2>1, <2>2 DEF Partition, Disjoint
  <2>4. \A x \in [addr : Nat, layout : Layouts] :
          /\ BlockOf(x) \in Blocks /\ BlockOf(x).addr = x.addr
          /\ BlockOf(x).size >= x.layout.size
          /\ x.layout.size \in Nat
    BY BlockBehind, HeadIndexFits
  <2>5. Bytes(BlockOf(b)) \intersect Bytes(BlockOf(other)) = {}
    BY <1>2, <2>1, <2>3, <2>4, ApartBytes
  <2>6. \A x \in [addr : Nat, layout : Layouts] : Pool!Span(x) \subseteq Bytes(BlockOf(x))
    BY <2>4 DEF Pool!Span, Bytes, End, Blocks
  <2>7. QED BY <1>2, <2>1, <2>5, <2>6
<1>6. Pool!Allocated(b.addr, b.layout)
  BY <1>3, <1>4, <1>5 DEF Pool!Allocated
<1>7. QED BY <1>2, <1>6 DEF Pool!PoolNext

LEMMA NextIsPoolStep ==
  BlocksInv /\ BlocksInv' /\ [Next]_vars => [Pool!PoolNext]_inUse
<1> SUFFICES ASSUME BlocksInv, BlocksInv', [Next]_vars
             PROVE  Pool!PoolNext \/ inUse' = inUse
  OBVIOUS
<1>1. ASSUME NEW f, SetupPageTables(f) \/ TakePage(f) \/ TakeTable(f) \/ NewBuffer(f)
                    \/ DropBuffer(f)
      PROVE  inUse' = inUse
  BY <1>1 DEF SetupPageTables, TakePage, TakeTable, NewBuffer, DropBuffer, heapVars
<1>2. CASE InitHead
  BY <1>2 DEF InitHead
<1>3. CASE RefillHead
  BY <1>3, GivenByPool DEF RefillHead
<1>4. CASE AllocPages
  BY <1>4, GivenByPool DEF AllocPages
<1>5. ASSUME NEW l \in Layouts, AllocFromList(l) PROVE Pool!PoolNext \/ inUse' = inUse
  BY <1>5, GivenByPool DEF AllocFromList
<1>6. ASSUME NEW l \in Layouts, AllocFresh(l) PROVE inUse' = inUse
  BY <1>6 DEF AllocFresh, heapVars
<1>7. ASSUME NEW b \in inUse, Dealloc(b) PROVE Pool!PoolNext
  BY <1>7 DEF Dealloc, Pool!PoolNext, Pool!Freed
<1>8. CASE UNCHANGED vars
  BY <1>8 DEF vars, heapVars
<1>9. QED BY <1>1, <1>2, <1>3, <1>4, <1>5, <1>6, <1>7, <1>8 DEF Next

(* The lists, the callers and the call that is not finished tile the heap:
   the inductive invariant of the blocks holds in every reachable state. *)
THEOREM BlocksInvariance == Spec => []BlocksInv
<1>1. Init => BlocksInv
  BY InitBlocks
<1>2. QED BY <1>1, NextBlocks, Invariance, PTL DEF Spec

(* alloc and dealloc share the heap without overlap and without loss: every
   byte of the heap is in one block, that block is on one list once or in
   use once, whatever the size classes are. *)
THEOREM HeapIsPartitioned == Spec => []BlocksPartitionHeap
<1>1. BlocksInv => BlocksPartitionHeap
  BY PartitionOfHeap
<1>2. QED BY <1>1, BlocksInvariance, PTL

(* To its callers the allocator is a pool: what alloc returns is aligned as
   asked, large enough and apart from all that is in use, and what dealloc
   takes back is all that changes otherwise. *)
THEOREM HeapImplementsPool == Spec => ImplementsBlockPool
<1>1. Init => Pool!PoolInit
  BY DEF Init, Pool!PoolInit
<1>2. QED BY <1>1, NextIsPoolStep, BlocksInvariance, PTL
          DEF Spec, ImplementsBlockPool, Pool!PoolSpec
-----------------------------------------------------------------------------
(***************************************************************************)
(* The memory map.                                                         *)
(***************************************************************************)

Regions == [addr : Nat, size : Nat]

(* region_diff is the difference of sets: what it leaves in place and what it
   splits off are apart, and together the bytes of m that are not in r, wherever
   the two regions lie. *)
THEOREM RegionDiffIsExact ==
  ASSUME NEW m \in Regions, NEW r \in Regions
  PROVE  LET left == RegionDiff(m, r)[1]
             split == RegionDiff(m, r)[2]
         IN  /\ left \in Regions /\ split \in Regions
             /\ Bytes(left) \union Bytes(split) = Bytes(m) \ Bytes(r)
             /\ Bytes(left) \intersect Bytes(split) = {}
<1> DEFINE d == RegionDiff(m, r)
           apart == End(r) <= m.addr \/ End(m) <= r.addr
           Right(x, y) == /\ x \in Regions /\ y \in Regions
                          /\ Bytes(x) \union Bytes(y) = Bytes(m) \ Bytes(r)
                          /\ Bytes(x) \intersect Bytes(y) = {}
<1>1. /\ m.addr \in Nat /\ m.size \in Nat /\ End(m) = m.addr + m.size
      /\ r.addr \in Nat /\ r.size \in Nat /\ End(r) = r.addr + r.size
  BY DEF Regions, End
<1>2. NoRegion \in Regions /\ Bytes(NoRegion) = {}
  BY DEF NoRegion, Region, Regions, Bytes, End
<1>3. /\ Bytes(m) = {x \in Int : m.addr <= x /\ x < End(m)}
      /\ Bytes(r) = {x \in Int : r.addr <= x /\ x < End(r)}
  BY <1>1 DEF Bytes
<1>4. m.addr < r.addr =>
        /\ Below(m, r) \in Regions
        /\ Bytes(Below(m, r)) = {x \in Int : m.addr <= x /\ x < r.addr}
  BY <1>1 DEF Below, Region, Regions, Bytes, End
<1>5. End(r) < End(m) =>
        /\ Above(m, r) \in Regions
        /\ Bytes(Above(m, r)) = {x \in Int : End(r) <= x /\ x < End(m)}
  <2> DEFINE s == End(m) - End(r)
             g == End(r)
  <2>1. Above(m, r) = [addr |-> g, size |-> s]
    BY DEF Above, Region
  <2>2. End(r) < End(m) => g \in Nat /\ s \in Nat /\ g + s = End(m)
    BY <1>1
  <2> HIDE DEF s, g
  <2>3. End(r) < End(m) => Above(m, r) \in Regions
    BY <2>1, <2>2 DEF Regions
  <2>4. End(r) < End(m) => Bytes(Above(m, r)) = g .. (End(m) - 1)
    BY <2>1, <2>2 DEF Bytes, End
  <2>5. g = End(r)
    BY DEF g
  <2>6. QED BY <1>1, <2>3, <2>4, <2>5
<1>6. CASE apart
  <2>1. d = <<m, NoRegion>>
    BY <1>6 DEF RegionDiff
  <2>2. Right(m, NoRegion)
    BY <1>1, <1>2, <1>3, <1>6
  <2>3. QED BY <2>1, <2>2
<1>7. CASE ~apart /\ m.addr < r.addr /\ End(r) < End(m)
  <2>1. d = <<Below(m, r), Above(m, r)>>
    BY <1>1, <1>7 DEF RegionDiff
  <2>2. Right(Below(m, r), Above(m, r))
    BY <1>1, <1>3, <1>4, <1>5, <1>7
  <2>3. QED BY <2>1, <2>2
<1>8. CASE ~apart /\ m.addr < r.addr /\ End(m) <= End(r)
  <2>1. d = <<Below(m, r), NoRegion>>
    BY <1>1, <1>8 DEF RegionDiff
  <2>2. Right(Below(m, r), NoRegion)
    BY <1>1, <1>2, <1>3, <1>4, <1>8
  <2>3. QED BY <2>1, <2>2
<1>9. CASE ~apart /\ r.addr <= m.addr /\ End(r) < End(m)
  <2>1. d = <<Above(m, r), NoRegion>>
    BY <1>1, <1>9 DEF RegionDiff
  <2>2. Right(Above(m, r), NoRegion)
    BY <1>1, <1>2, <1>3, <1>5, <1>9
  <2>3. QED BY <2>1, <2>2
<1>10. CASE ~apart /\ r.addr <= m.addr /\ End(m) <= End(r)
  <2>1. d = <<NoRegion, NoRegion>>
    BY <1>1, <1>10 DEF RegionDiff
  <2>2. Right(NoRegion, NoRegion)
    BY <1>1, <1>2, <1>3, <1>10
  <2>3. QED BY <2>1, <2>2
<1>11. QED BY <1>1, <1>6, <1>7, <1>8, <1>9, <1>10

(* The frames of the allocator lie in the region that it was created for. *)
FramesInRegion ==
  \E region \in LargestRegions(CalcAvailableMem(boot.mem, boot.reserved)) :
    \A f \in FrameNumbers : Bytes(Region(start + f * PageSize, PageSize)) \subseteq Bytes(region)

(* Rounding a region to whole frames, up at its start and down at its end. *)
LEMMA FrameWithin ==
  ASSUME NEW a \in Nat, NEW e \in Nat, NEW p \in Nat \ {0}, NEW q \in Nat,
         q = CeilDiv(a, p),
         NEW f \in Nat, f < (e \div p) - ((q * p) \div p)
  PROVE  a <= q * p + f * p /\ q * p + f * p + p <= e
<1> DEFINE u == e \div p
           r == e % p
           d == (q * p) \div p
<1>1. r \in 0..(p - 1) /\ e = p * u + r /\ u \in Int
  OBVIOUS
<1>2. d = q
  OBVIOUS
<1>3. a <= q * p
  BY RoundUp
<1> HIDE DEF u, r, d
<1>4. f < u - d
  BY DEF u, d
<1>5. q + f + 1 <= u /\ q + f + 1 \in Nat
  BY <1>1, <1>2, <1>4
<1>6. p * (q + f + 1) <= p * u
  BY <1>1, <1>5
<1>7. p * (q + f + 1) = q * p + f * p + p
  OBVIOUS
<1>8. f * p \in Nat /\ q * p \in Nat /\ p * u \in Int
  BY <1>1
<1> DEFINE x == q * p
           y == f * p
           z == p * u
<1> HIDE DEF x, y, z
<1>9. /\ x \in Nat /\ y \in Nat /\ z \in Int /\ a <= x
      /\ r \in Nat /\ e = z + r /\ x + y + p <= z
  BY <1>1, <1>3, <1>6, <1>7, <1>8 DEF x, y, z
<1>10. a <= x + y /\ x + y + p <= e
  BY <1>9
<1>11. QED BY <1>10 DEF x, y

LEMMA InitRegion == Init => FramesInRegion
<1> SUFFICES ASSUME Init PROVE FramesInRegion
  OBVIOUS
<1>1. PICK region \in LargestRegions(CalcAvailableMem(boot.mem, boot.reserved)) :
         NewAllocator(region)
  BY DEF Init
<1>2. boot \in MemoryInputs /\ region \in Regions
  BY <1>1, RegionsAssumption DEF Init, Regions
<1> DEFINE a == region.addr
           e == End(region)
           q == CeilDiv(a, PageSize)
<1>3. a \in Nat /\ e \in Nat /\ PageSize \in Nat \ {0} /\ q \in Nat
  BY <1>2, PageSizeAssumption, RoundUp DEF Regions, End
<1>4. start = q * PageSize /\ total = (e \div PageSize) - ((q * PageSize) \div PageSize)
  BY <1>1 DEF NewAllocator
<1>5. Bytes(region) = a .. (e - 1)
  BY DEF Bytes
<1> HIDE DEF a, e, q
<1>6. ASSUME NEW f \in FrameNumbers
      PROVE  Bytes(Region(start + f * PageSize, PageSize)) \subseteq Bytes(region)
  <2>1. f \in Nat /\ f < total
    <3>1. total \in Int
      BY <1>3, <1>4
    <3>2. QED BY <3>1 DEF FrameNumbers
  <2>2. a <= q * PageSize + f * PageSize /\ q * PageSize + f * PageSize + PageSize <= e
    BY <1>3, <1>4, <2>1, FrameWithin DEF q
  <2> DEFINE s == start + f * PageSize
  <2>3. s \in Nat /\ a <= s /\ s + PageSize <= e
    BY <1>3, <1>4, <2>1, <2>2
  <2> HIDE DEF s
  <2>4. Bytes(Region(s, PageSize)) = s .. (s + PageSize - 1)
    BY <1>3, <2>3 DEF Bytes, Region, End
  <2>5. s .. (s + PageSize - 1) \subseteq a .. (e - 1)
    BY <1>3, <2>3
  <2>6. QED BY <1>5, <2>4, <2>5 DEF s
<1>7. QED BY <1>1, <1>6 DEF FramesInRegion

(* The allocator is created once and keeps its frames. *)
LEMMA SameRegion ==
  ASSUME FramesInRegion, [Next]_vars
  PROVE  FramesInRegion'
<1>1. UNCHANGED <<start, total, boot>>
  <2> USE DEF FrameOrNull, AllocFrame, NoFrame, MappedPage, frameVars
  <2>1. ASSUME NEW f, SetupPageTables(f) \/ TakePage(f) \/ TakeTable(f)
        PROVE  UNCHANGED <<start, total, boot>>
    BY <2>1 DEF SetupPageTables, TakePage, TakeTable
  <2>2. ASSUME InitHead \/ RefillHead \/ AllocPages PROVE UNCHANGED <<start, total, boot>>
    BY <2>2 DEF InitHead, RefillHead, AllocPages
  <2>3. ASSUME NEW l \in Layouts, AllocFromList(l) \/ AllocFresh(l)
        PROVE  UNCHANGED <<start, total, boot>>
    BY <2>3 DEF AllocFromList, AllocFresh
  <2>4. ASSUME NEW b, Dealloc(b) PROVE UNCHANGED <<start, total, boot>>
    BY <2>4 DEF Dealloc
  <2>5. ASSUME NEW f, NewBuffer(f) \/ DropBuffer(f) PROVE UNCHANGED <<start, total, boot>>
    BY <2>5 DEF NewBuffer, DropBuffer, DeallocFrame
  <2>6. CASE UNCHANGED vars
    BY <2>6 DEF vars
  <2>7. QED BY <2>1, <2>2, <2>3, <2>4, <2>5, <2>6 DEF Next
<1>2. FrameNumbers' = FrameNumbers
  BY <1>1 DEF FrameNumbers
<1>3. QED BY <1>1, <1>2 DEF FramesInRegion

(* However the region lies to the frames, new() and the allocator's numbers keep
   every frame inside it, in memory of any size. *)
THEOREM FramesStayInRegion == Spec => []FramesInRegion
<1>1. QED BY InitRegion, SameRegion, PTL DEF Spec
=============================================================================
