--------------------------- MODULE TerminalProofs ---------------------------
(***************************************************************************)
(* Proofs about the terminal: its rings, of any size and for items of any  *)
(* kind; the hand-over of kernel messages between consoles, for every      *)
(* size of the boot ring; the watchdog and power device, for every         *)
(* frequency and timeout; and the way of a byte from an interrupt through  *)
(* its ring and the line to every screen, for every ring, alphabet, set of *)
(* keys and boards.                                                        *)
(***************************************************************************)
EXTENDS Terminal, SequenceTheorems, FiniteSetTheorems, WellFoundedInduction, TLAPS

(* The provers may take their time on a slow machine. *)
USE SMTT(30), ZenonT(30)

-----------------------------------------------------------------------------
(***************************************************************************)
(* Rings.                                                                  *)
(***************************************************************************)
(* The rings of n slots for the items of S. *)
Rings(n, S) ==
  [buffer : [0 .. n - 1 -> S], index : 0 .. n - 1, full : BOOLEAN]

(* Ring r was pushed the items since it was last empty: it holds all of
   them, or is full. *)
Represents(r, items) ==
  /\ r.full => Len(items) >= Capacity(r)
  /\ ~r.full => r.index = Len(items)
  /\ \A i \in 1 .. RingLen(r) :
       r.buffer[(First(r) + i - 1) % Capacity(r)] = items[Len(items) - RingLen(r) + i]

(* One turn around the buffer. *)
LEMMA Turn ==
  ASSUME NEW n \in Nat \ {0}, NEW x \in 0 .. (2 * n - 1)
  PROVE  x % n = IF x < n THEN x ELSE x - n
<1> DEFINE q == x \div n
           r == x % n
<1>1. q \in Int /\ r \in 0 .. (n - 1) /\ x = n * q + r
  OBVIOUS
<1> HIDE DEF q, r
<1>2. q >= 0
  <2>1. SUFFICES ASSUME q <= -1 PROVE FALSE
    BY <1>1
  <2>2. n * q <= n * (-1)
    BY <1>1, <2>1
  <2>3. QED BY <1>1, <2>2
<1>3. q < 2
  <2>1. SUFFICES ASSUME q >= 2 PROVE FALSE
    BY <1>1
  <2>2. n * q >= n * 2
    BY <1>1, <2>1
  <2>3. QED BY <1>1, <2>2
<1>4. q = 0 \/ q = 1
  BY <1>1, <1>2, <1>3
<1>5. r = IF x < n THEN x ELSE x - n
  BY <1>1, <1>4
<1>6. QED BY <1>5 DEF r

(* The parts of a ring. *)
LEMMA Parts ==
  ASSUME NEW S, NEW n \in Nat \ {0}, NEW r \in Rings(n, S)
  PROVE  /\ Capacity(r) = n
         /\ r.buffer \in [0 .. n - 1 -> S] /\ r.index \in 0 .. n - 1 /\ r.full \in BOOLEAN
         /\ RingLen(r) = (IF r.full THEN n ELSE r.index) /\ RingLen(r) \in 0 .. n
         /\ First(r) = (IF r.full THEN r.index ELSE 0) /\ First(r) \in 0 .. n - 1
<1>1. r.buffer \in [0 .. n - 1 -> S] /\ r.index \in 0 .. n - 1 /\ r.full \in BOOLEAN
  BY DEF Rings
<1>2. Capacity(r) = n
  <2>1. Slots(r) = 0 .. n - 1
    BY <1>1 DEF Slots
  <2>2. {i + 1 : i \in Slots(r)} = 1 .. n
    <3>1. \A k \in 1 .. n : k - 1 \in Slots(r) /\ k = (k - 1) + 1
      BY <2>1
    <3>2. \A i \in Slots(r) : i + 1 \in 1 .. n
      BY <2>1
    <3>3. QED BY <3>1, <3>2
  <2>3. \A k \in 1 .. n : k \notin Slots(r) <=> k = n
    BY <2>1
  <2>4. QED BY <2>2, <2>3 DEF Capacity
<1>3. RingLen(r) = (IF r.full THEN n ELSE r.index) /\ RingLen(r) \in 0 .. n
  BY <1>1, <1>2 DEF RingLen
<1>4. First(r) = (IF r.full THEN r.index ELSE 0) /\ First(r) \in 0 .. n - 1
  BY <1>1 DEF First
<1>5. QED BY <1>1, <1>2, <1>3, <1>4

-----------------------------------------------------------------------------
(* The operations. *)

(* new, and clear whatever the slots hold: nothing is in the ring. *)
THEOREM EmptyRing ==
  ASSUME NEW S, NEW n \in Nat \ {0}
  PROVE  /\ \A x \in S : NewRing(n, x) \in Rings(n, S) /\ Represents(NewRing(n, x), <<>>)
         /\ \A r \in Rings(n, S) :
              ClearRing(r) \in Rings(n, S) /\ Represents(ClearRing(r), <<>>)
<1>1. ASSUME NEW r \in Rings(n, S), r.index = 0, ~r.full PROVE Represents(r, <<>>)
  <2>1. RingLen(r) = 0
    BY <1>1, Parts
  <2>2. QED BY <1>1, <2>1, EmptySeq DEF Represents
<1>2. ASSUME NEW x \in S
      PROVE  NewRing(n, x) \in Rings(n, S) /\ Represents(NewRing(n, x), <<>>)
  <2> DEFINE r == NewRing(n, x)
  <2>1. r \in Rings(n, S) /\ r.index = 0 /\ ~r.full
    BY DEF NewRing, Rings
  <2> HIDE DEF r
  <2>2. Represents(r, <<>>)
    BY <1>1, <2>1
  <2>3. QED BY <2>1, <2>2 DEF r
<1>3. ASSUME NEW r \in Rings(n, S)
      PROVE  ClearRing(r) \in Rings(n, S) /\ Represents(ClearRing(r), <<>>)
  <2> DEFINE t == ClearRing(r)
  <2>1. t \in Rings(n, S) /\ t.index = 0 /\ ~t.full
    <3>1. r.buffer \in [0 .. n - 1 -> S]
      BY Parts
    <3>2. 0 \in 0 .. n - 1
      OBVIOUS
    <3>3. QED BY <3>1, <3>2 DEF ClearRing, Rings
  <2> HIDE DEF t
  <2>2. Represents(t, <<>>)
    BY <1>1, <2>1
  <2>3. QED BY <2>1, <2>2 DEF t
<1>4. QED BY <1>2, <1>3

(* push: the ring represents one item more; when it is full that item takes
   the place of the oldest. *)
THEOREM PushRepresents ==
  ASSUME NEW S, NEW n \in Nat \ {0}, NEW r \in Rings(n, S), NEW items \in Seq(S),
         NEW x \in S, Represents(r, items)
  PROVE  PushItem(r, x) \in Rings(n, S) /\ Represents(PushItem(r, x), Append(items, x))
<1> DEFINE t == PushItem(r, x)
           more == Append(items, x)
           len == Len(items)
           k == r.index
           turn == (k + 1) % n
<1>1. /\ Capacity(r) = n
      /\ r.buffer \in [0 .. n - 1 -> S] /\ k \in 0 .. n - 1 /\ r.full \in BOOLEAN
      /\ RingLen(r) = (IF r.full THEN n ELSE k)
      /\ First(r) = (IF r.full THEN k ELSE 0)
  BY Parts
<1>2. turn = IF k + 1 < n THEN k + 1 ELSE 0
  <2> DEFINE y == k + 1
  <2>1. y \in 0 .. (2 * n - 1) /\ y <= n /\ turn = y % n
    BY <1>1
  <2> HIDE DEF y, turn
  <2>2. y % n = IF y < n THEN y ELSE y - n
    BY <2>1, Turn
  <2>3. turn = IF y < n THEN y ELSE 0
    BY <2>1, <2>2
  <2>4. QED BY <2>3 DEF y
<1>3. /\ t.buffer = [r.buffer EXCEPT ![k] = x] /\ t.index = turn
      /\ t.full = (r.full \/ turn = 0)
      /\ t \in Rings(n, S)
  <2>1. t = [buffer |-> [r.buffer EXCEPT ![k] = x], index |-> turn, full |-> r.full \/ turn = 0]
    BY <1>1 DEF PushItem
  <2>2. turn \in 0 .. n - 1
    BY <1>1, <1>2
  <2> HIDE DEF turn, t
  <2>3. QED BY <1>1, <2>1, <2>2 DEF Rings
<1>4. /\ more \in Seq(S) /\ Len(more) = len + 1 /\ len \in Nat
      /\ \A i \in 1 .. len : more[i] = items[i]
      /\ more[len + 1] = x
  BY AppendProperties, LenProperties
<1>5. /\ r.full => len >= n
      /\ ~r.full => k = len
      /\ \A i \in 1 .. RingLen(r) :
           r.buffer[(First(r) + i - 1) % n] = items[len - RingLen(r) + i]
  BY <1>1 DEF Represents
<1> HIDE DEF t, more, len, k, turn
<1>6. /\ Capacity(t) = n
      /\ RingLen(t) = (IF t.full THEN n ELSE t.index)
      /\ First(t) = (IF t.full THEN t.index ELSE 0)
  BY <1>3, Parts
<1>7. \A i \in 0 .. n - 1 : t.buffer[i] = IF i = k THEN x ELSE r.buffer[i]
  BY <1>1, <1>3
<1>8. CASE ~r.full
  <2>1. k = len /\ len < n /\ RingLen(r) = len /\ First(r) = 0
    BY <1>1, <1>5, <1>8
  <2>2. RingLen(t) = len + 1 /\ First(t) = 0 /\ (t.full <=> len + 1 = n)
    <3>1. t.full <=> turn = 0
      BY <1>3, <1>8
    <3>2. turn = (IF len + 1 < n THEN len + 1 ELSE 0) /\ len + 1 <= n
      BY <1>2, <1>4, <2>1
    <3>3. t.full <=> len + 1 = n
      BY <1>4, <3>1, <3>2
    <3>4. QED BY <1>3, <1>4, <1>6, <3>2, <3>3
  <2>3. ASSUME NEW i \in 1 .. (len + 1)
        PROVE  t.buffer[(First(t) + i - 1) % n] = more[Len(more) - RingLen(t) + i]
    <3>1. (0 + i - 1) % n = i - 1 /\ i - 1 \in 0 .. n - 1
      <4>1. i - 1 \in 0 .. (2 * n - 1) /\ i - 1 < n /\ 0 + i - 1 = i - 1
        BY <1>4, <2>1
      <4>2. QED BY <4>1, Turn
    <3>2. Len(more) - RingLen(t) + i = i
      BY <1>4, <2>2
    <3>3. CASE i = len + 1
      <4>1. i - 1 = k
        BY <1>4, <2>1, <3>3
      <4>2. QED BY <1>4, <1>7, <2>2, <3>1, <3>2, <3>3, <4>1
    <3>4. CASE i \in 1 .. len
      <4>1. r.buffer[(0 + i - 1) % n] = items[len - len + i] /\ len - len + i = i
        BY <1>4, <1>5, <2>1, <3>4
      <4>2. i - 1 # k
        BY <1>4, <2>1, <3>4
      <4>3. QED BY <1>4, <1>7, <2>2, <3>1, <3>2, <3>4, <4>1, <4>2
    <3>5. QED BY <1>4, <3>3, <3>4
  <2>4. (t.full => Len(more) >= n) /\ (~t.full => t.index = Len(more))
    BY <1>2, <1>3, <1>4, <1>8, <2>1, <2>2
  <2>5. QED BY <1>3, <1>6, <2>2, <2>3, <2>4 DEF Represents, t, more
<1>9. CASE r.full
  <2>1. len >= n /\ RingLen(r) = n /\ First(r) = k
    BY <1>1, <1>5, <1>9
  <2>2. t.full /\ RingLen(t) = n /\ First(t) = turn
    BY <1>3, <1>6, <1>9
  <2>3. ASSUME NEW i \in 1 .. n
        PROVE  t.buffer[(First(t) + i - 1) % n] = more[Len(more) - RingLen(t) + i]
    <3>1. (turn + i - 1) % n = IF turn + i - 1 < n THEN turn + i - 1 ELSE turn + i - 1 - n
      <4> DEFINE y == turn + i - 1
      <4>1. y \in 0 .. (2 * n - 1)
        BY <1>1, <1>2
      <4> HIDE DEF y
      <4>2. y % n = IF y < n THEN y ELSE y - n
        BY <4>1, Turn
      <4>3. QED BY <1>1, <1>2, <4>1, <4>2 DEF y
    <3>2. Len(more) - RingLen(t) + i = len - n + i + 1
      BY <1>4, <2>2
    <3>3. CASE i = n
      <4>1. (turn + i - 1) % n = k
        <5>1. turn = k + 1 \/ (turn = 0 /\ k + 1 = n)
          BY <1>1, <1>2
        <5>2. IF turn + n - 1 < n THEN turn + n - 1 = k ELSE turn + n - 1 - n = k
          BY <1>1, <1>2, <5>1
        <5>3. QED BY <3>1, <3>3, <5>2
      <4>2. len - n + i + 1 = len + 1
        BY <1>4, <3>3
      <4>3. QED BY <1>1, <1>4, <1>7, <2>2, <3>2, <4>1, <4>2
    <3>4. CASE i < n
      <4>1. (k + (i + 1) - 1) % n = IF k + i < n THEN k + i ELSE k + i - n
        <5> DEFINE y == k + i
        <5>1. y \in 0 .. (2 * n - 1) /\ k + (i + 1) - 1 = y
          BY <1>1, <3>4
        <5> HIDE DEF y
        <5>2. y % n = IF y < n THEN y ELSE y - n
          BY <5>1, Turn
        <5>3. (k + (i + 1) - 1) % n = IF y < n THEN y ELSE y - n
          BY <5>1, <5>2
        <5>4. QED BY <1>1, <5>1, <5>3 DEF y
      <4>2. (turn + i - 1) % n = (k + (i + 1) - 1) % n
        BY <1>1, <1>2, <3>1, <3>4, <4>1
      <4>3. (turn + i - 1) % n \in 0 .. n - 1 /\ (turn + i - 1) % n # k
        BY <1>1, <3>4, <4>1, <4>2
      <4>4. i + 1 \in 1 .. n
        BY <3>4
      <4>5. r.buffer[(k + (i + 1) - 1) % n] = items[len - n + (i + 1)]
        BY <1>5, <2>1, <4>4
      <4>6. len - n + (i + 1) = len - n + i + 1 /\ len - n + i + 1 \in 1 .. len
        BY <1>4, <2>1, <3>4
      <4>7. QED BY <1>4, <1>7, <2>2, <3>2, <4>2, <4>3, <4>5, <4>6
    <3>5. QED BY <3>3, <3>4
  <2>4. Len(more) >= n
    BY <1>4, <2>1
  <2>5. QED BY <1>3, <1>6, <2>2, <2>3, <2>4 DEF Represents, t, more
<1>10. QED BY <1>1, <1>8, <1>9

(* iter and drain give the newest items, the oldest of them first; the two
   copies of drain meet where iter turns around the end. *)
THEOREM RepresentedIsHeld ==
  ASSUME NEW S, NEW n \in Nat \ {0}, NEW r \in Rings(n, S), NEW items \in Seq(S),
         Represents(r, items)
  PROVE  HoldsNewest(r, items)
<1> DEFINE len == Len(items)
           m == RingLen(r)
           f == First(r)
           b == r.buffer
<1>1. /\ Capacity(r) = n /\ b \in [0 .. n - 1 -> S]
      /\ m \in 0 .. n /\ f \in 0 .. n - 1
      /\ m = (IF r.full THEN n ELSE r.index) /\ f = (IF r.full THEN r.index ELSE 0)
      /\ r.index \in 0 .. n - 1 /\ r.full \in BOOLEAN
  BY Parts
<1>2. len \in Nat
  BY LenProperties
<1>3. /\ r.full => len >= n
      /\ ~r.full => r.index = len
      /\ \A i \in 1 .. m : b[(f + i - 1) % n] = items[len - m + i]
  BY <1>1 DEF Represents
<1>4. m = (IF len <= n THEN len ELSE n) /\ m <= len
  BY <1>1, <1>2, <1>3
<1> HIDE DEF len, m, f, b
<1>5. \A i \in 1 .. m : (f + i - 1) % n = IF f + i - 1 < n THEN f + i - 1 ELSE f + i - 1 - n
  <2> SUFFICES ASSUME NEW i \in 1 .. m
               PROVE  (f + i - 1) % n = IF f + i - 1 < n THEN f + i - 1 ELSE f + i - 1 - n
    OBVIOUS
  <2> DEFINE y == f + i - 1
  <2>1. y \in 0 .. (2 * n - 1)
    BY <1>1
  <2> HIDE DEF y
  <2>2. y % n = IF y < n THEN y ELSE y - n
    BY <2>1, Turn
  <2>3. QED BY <1>1, <2>1, <2>2 DEF y
<1> DEFINE all == Items(r)
<1>6. all = [i \in 1 .. m |-> b[(f + i - 1) % n]]
  BY <1>1 DEF Items, m, f, b
<1>7. /\ all \in Seq(S) /\ Len(all) = m
      /\ \A i \in 1 .. m : all[i] = items[len - m + i]
  <2>1. \A i \in 1 .. m : len - m + i \in 1 .. len
    BY <1>1, <1>2, <1>4
  <2>2. \A i \in 1 .. m : all[i] = items[len - m + i]
    <3> HIDE DEF all
    <3>1. QED BY <1>3, <1>6
  <2>3. \A i \in 1 .. m : all[i] = items[len - m + i] /\ len - m + i \in 1 .. len
    BY <2>1, <2>2
  <2>4. \A i \in 1 .. len : items[i] \in S
    BY ElementOfSeq DEF len
  <2>5. all \in [1 .. m -> S]
    BY <1>6, <2>3, <2>4
  <2>6. m \in Nat
    BY <1>1
  <2>7. all \in Seq(S) /\ Len(all) = m
    BY <2>5, <2>6
  <2>8. QED BY <2>3, <2>7
<1> DEFINE newest == Newest(n, items)
<1>8. newest \in Seq(S) /\ Len(newest) = m /\ \A i \in 1 .. m : newest[i] = items[len - m + i]
  <2>1. CASE len <= n
    BY <1>2, <1>4, <2>1 DEF Newest, len
  <2>2. CASE len > n
    <3> DEFINE lo == len - n + 1
    <3>1. lo \in Int /\ len \in Int /\ \A i \in lo .. len : i \in 1 .. len
      BY <1>2, <2>2
    <3>2. \A i \in lo .. len : items[i] \in S
      BY <3>1, ElementOfSeq DEF len
    <3>3. newest = SubSeq(items, lo, len)
      BY <1>2, <2>2 DEF Newest, len
    <3> HIDE DEF newest, lo
    <3>4. /\ newest \in Seq(S)
          /\ Len(newest) = (IF lo <= len THEN len - lo + 1 ELSE 0)
          /\ \A i \in 1 .. (len - lo + 1) : newest[i] = items[lo + i - 1]
      BY <3>1, <3>2, <3>3, SubSeqProperties
    <3>5. lo <= len /\ len - lo + 1 = n /\ m = n
          /\ \A i \in 1 .. n : lo + i - 1 = len - n + i
      BY <1>2, <1>4, <2>2 DEF lo
    <3>6. QED BY <3>4, <3>5
  <2>3. QED BY <1>2, <2>1, <2>2
<1>9. all = newest
  BY <1>7, <1>8, SeqEqual
<1> DEFINE room == n - f
           part == IF room < m THEN room ELSE m
           head == [i \in 1 .. part |-> b[f + i - 1]]
           rest == [i \in 1 .. m - part |-> b[i - 1]]
<1>10. Drained(r) = head \o rest
  BY <1>1 DEF Drained, m, f, b
<1>11. /\ part \in Nat /\ m - part \in Nat
       /\ \A i \in 1 .. part : f + i - 1 \in 0 .. n - 1
       /\ \A i \in 1 .. m - part : i - 1 \in 0 .. n - 1
  BY <1>1
<1>12. head \in Seq(S) /\ Len(head) = part /\ rest \in Seq(S) /\ Len(rest) = m - part
  <2>1. head \in [1 .. part -> S] /\ rest \in [1 .. m - part -> S]
    BY <1>1, <1>11
  <2> HIDE DEF head, rest, part
  <2>2. QED BY <1>11, <2>1
<1>13. ASSUME NEW i \in 1 .. m PROVE (head \o rest)[i] = all[i]
  <2>1. (head \o rest)[i] = IF i <= part THEN head[i] ELSE rest[i - part]
    <3>1. i \in 1 .. (part + (m - part))
      BY <1>1, <1>11
    <3> HIDE DEF head, rest, part
    <3>2. QED BY <1>12, <3>1, ConcatProperties
  <2>2. CASE i <= part
    <3>1. i \in 1 .. part /\ f + i - 1 < n
      BY <1>1, <2>2
    <3>2. all[i] = b[f + i - 1]
      BY <1>5, <1>6, <3>1
    <3>3. head[i] = b[f + i - 1]
      BY <3>1
    <3> HIDE DEF part, rest, head, all
    <3>4. QED BY <2>1, <2>2, <3>2, <3>3
  <2>3. CASE i > part
    <3>1. part = n - f /\ i - part \in 1 .. (m - part) /\ i - part - 1 = f + i - 1 - n
          /\ ~(f + i - 1 < n)
      BY <1>1, <2>3
    <3>2. all[i] = b[f + i - 1 - n]
      BY <1>5, <1>6, <3>1
    <3>3. rest[i - part] = b[i - part - 1]
      BY <3>1
    <3> HIDE DEF part, rest, head, all
    <3>4. ~(i <= part)
      BY <1>11, <2>3
    <3>5. QED BY <2>1, <3>1, <3>2, <3>3, <3>4
  <2> HIDE DEF part, rest, head, all
  <2>4. i <= part \/ i > part
    BY <1>1, <1>11
  <2>5. QED BY <2>2, <2>3, <2>4
<1>14. head \o rest \in Seq(S) /\ Len(head \o rest) = m
  <2> HIDE DEF head, rest, part
  <2>1. /\ head \o rest \in Seq(S) /\ Len(head \o rest) = part + (m - part)
    BY <1>12, ConcatProperties
  <2>2. part + (m - part) = m
    BY <1>1, <1>11
  <2>3. QED BY <2>1, <2>2
<1> HIDE DEF head, rest, all, newest
<1>15. Drained(r) = all
  BY <1>7, <1>10, <1>13, <1>14, SeqEqual
<1>16. QED BY <1>1, <1>9, <1>15 DEF HoldsNewest, all, newest

-----------------------------------------------------------------------------
(***************************************************************************)
(* The watchdog.  While the machine is on, what is due is the count of the *)
(* hardware, if it counts, or unknown, if the count began with a timeout   *)
(* too long for the register; after a restart or power-off the shell's     *)
(* wait is longer than the count by the least timeout.                     *)
(***************************************************************************)
HaltBits == {0, 2, 4, 6, 8, 10}

WatchdogInv ==
  /\ wdt \in [timeout : Nat, wdog : Nat, running : BOOLEAN, partition : SUBSET Nat]
  /\ IF machine = "reset" THEN due \in {0, Unknown}
     ELSE IF wdt.running THEN due \in {wdt.wdog, Unknown} ELSE due = Never
  /\ waiting \in Nat
  /\ asked \in {"none", "restart", "power_off"}
  /\ wdt.partition = IF asked = "power_off" THEN HaltBits ELSE {}
  /\ asked # "none" =>
       /\ at = "busy_wait"
       /\ machine = "on" => wdt.running /\ wdt.wdog >= 1 /\ waiting = wdt.wdog + MinTicks

(* The bits that restart_with_partition writes. *)
LEMMA Partitions == PartitionBits(0) = {} /\ PartitionBits(Halt) = HaltBits
<1>1. 2^0 = 1 /\ 2^1 = 2 /\ 2^2 = 4 /\ 2^3 = 8 /\ 2^4 = 16 /\ 2^5 = 32
  OBVIOUS
<1>2. ASSUME NEW i \in 0 .. 5
      PROVE  ~((0 \div 2^i) % 2 = 1) /\ (63 \div 2^i) % 2 = 1
  <2>1. CASE i = 0
    BY <1>1, <2>1
  <2>2. CASE i = 1
    BY <1>1, <2>2
  <2>3. CASE i = 2
    BY <1>1, <2>3
  <2>4. CASE i = 3
    BY <1>1, <2>4
  <2>5. CASE i = 4
    BY <1>1, <2>5
  <2>6. CASE i = 5
    BY <1>1, <2>6
  <2>7. 0 .. 5 = {0, 1, 2, 3, 4, 5}
    OBVIOUS
  <2>8. QED BY <2>1, <2>2, <2>3, <2>4, <2>5, <2>6, <2>7
<1>3. Bits(0) = {} /\ Bits(Halt) = 0 .. 5
  BY <1>2 DEF Bits, Halt
<1>4. QED BY <1>3 DEF PartitionBits, HaltBits

(* A timeout that fits is loaded as it is. *)
LEMMA LoadedWhole ==
  ASSUME NEW ticks \in 0 .. TimeSet
  PROVE  Loaded(ticks) = ticks
<1>1. TimeSet \in Nat
  BY WatchdogAssumption
<1> DEFINE n == TimeSet + 1
<1>2. n \in Nat \ {0} /\ ticks \in 0 .. (2 * n - 1) /\ ticks < n
  BY <1>1
<1> HIDE DEF n
<1>3. ticks % n = ticks
  BY <1>2, Turn
<1>4. QED BY <1>3 DEF Loaded, n

(* Whatever the timeout, the register holds a number of ticks, which is due
   or longer than the register holds. *)
LEMMA TimeoutLoaded ==
  ASSUME WatchdogInv
  PROVE  /\ Loaded(TimeoutTicks) \in Nat
         /\ DueIn(TimeoutTicks) \in {Loaded(TimeoutTicks), Unknown}
         /\ Loaded(MinTicks) = MinTicks /\ MinTicks \in Nat \ {0}
<1>1. Hz \in Nat \ {0} /\ TimeSet \in Nat /\ MinTicks \in 1 .. TimeSet
  BY WatchdogAssumption
<1> DEFINE t == wdt.timeout
           x == t * Hz
           n == TimeSet + 1
<1>2. t \in Nat
  BY DEF WatchdogInv
<1>3. x \in Nat
  <2> HIDE DEF t
  <2>1. QED BY <1>1, <1>2
<1>4. TimeoutTicks = x
  BY DEF TimeoutTicks
<1>5. n \in Nat \ {0}
  BY <1>1
<1> HIDE DEF t, x, n
<1>6. x % n \in Nat
  <2>1. x % n \in 0 .. (n - 1)
    BY <1>3, <1>5
  <2>2. QED BY <1>5, <2>1
<1>7. Loaded(x) \in Nat
  BY <1>6 DEF Loaded, n
<1>8. x <= TimeSet => Loaded(x) = x
  BY <1>1, <1>3, LoadedWhole
<1>9. DueIn(x) \in {Loaded(x), Unknown}
  BY <1>8 DEF DueIn
<1>10. QED BY <1>1, <1>4, <1>7, <1>9, LoadedWhole

LEMMA CommandKeeps ==
  ASSUME WatchdogInv, machine = "on", at = "on_line", WatchdogCommand
  PROVE  WatchdogInv'
<1>1. asked = "none" /\ asked' = asked /\ waiting' = waiting
  BY DEF WatchdogInv, WatchdogCommand
<1>2. /\ wdt \in [timeout : Nat, wdog : Nat, running : BOOLEAN, partition : SUBSET Nat]
      /\ wdt.partition = {}
      /\ IF wdt.running THEN due \in {wdt.wdog, Unknown} ELSE due = Never
      /\ waiting \in Nat
  BY <1>1 DEF WatchdogInv
<1> DEFINE n == Loaded(TimeoutTicks)
           m == DueIn(TimeoutTicks)
<1>3. n \in Nat /\ m \in {n, Unknown}
  BY TimeoutLoaded
<1>4. CASE NoWatchdog
  BY <1>1, <1>2, <1>4 DEF WatchdogInv, NoWatchdog
<1>5. CASE WatchdogStart
  <2>1. wdt' = [wdt EXCEPT !.wdog = n, !.running = TRUE] /\ due' = m /\ machine' = machine
    BY <1>5 DEF WatchdogStart
  <2> HIDE DEF n, m
  <2>2. QED BY <1>1, <1>2, <1>3, <2>1 DEF WatchdogInv
<1>6. CASE WatchdogStop
  BY <1>1, <1>2, <1>6 DEF WatchdogInv, WatchdogStop, Stopped
<1>7. CASE WatchdogAck
  <2>1. /\ wdt' = [wdt EXCEPT !.wdog = n] /\ machine' = machine
        /\ due' = IF wdt.running THEN m ELSE Never
    BY <1>7 DEF WatchdogAck
  <2> HIDE DEF n, m
  <2>2. QED BY <1>1, <1>2, <1>3, <2>1 DEF WatchdogInv
<1>8. ASSUME NEW secs \in Seconds, SetTimeout(secs)
      PROVE  WatchdogInv'
  <2>1. due' = due
    BY <1>8 DEF SetTimeout
  <2>2. CASE wdt' = wdt /\ machine' \in {machine, "panicked"}
    BY <1>1, <1>2, <2>1, <2>2 DEF WatchdogInv
  <2>3. CASE secs \in 1 .. MaxSecs /\ wdt' = [wdt EXCEPT !.timeout = secs] /\ machine' = machine
    <3>1. secs \in Nat
      BY <2>3, WatchdogAssumption
    <3>2. QED BY <1>1, <1>2, <2>1, <2>3, <3>1 DEF WatchdogInv
  <2>4. QED BY <1>8, <2>2, <2>3 DEF SetTimeout
<1>9. QED BY <1>4, <1>5, <1>6, <1>7, <1>8 DEF WatchdogCommand

LEMMA PowerKeeps ==
  ASSUME WatchdogInv, machine = "on", RunPower
  PROVE  WatchdogInv'
<1>1. at = "on_line" /\ at' = "busy_wait" /\ machine' = machine /\ PowerCommand
  BY DEF RunPower, PowerCommand
<1>2. asked = "none"
  BY <1>1 DEF WatchdogInv
<1>3. CASE ~fitted
  BY <1>1, <1>2, <1>3 DEF WatchdogInv, PowerCommand
<1>4. CASE fitted
  <2>1. PICK n \in {0, Halt}, who \in {"restart", "power_off"} :
          RestartWithPartition(n, who) /\ (n = Halt <=> who = "power_off")
    BY <1>1, <1>4 DEF PowerCommand, Halt
  <2> DEFINE bits == PartitionBits(n)
             count == Loaded(MinTicks)
  <2>2. bits \in SUBSET Nat /\ bits = IF who = "power_off" THEN HaltBits ELSE {}
    BY <2>1, Partitions DEF HaltBits, Halt
  <2>3. count = MinTicks /\ MinTicks \in Nat \ {0}
    BY TimeoutLoaded
  <2>4. /\ wdt' = [wdt EXCEPT !.partition = bits, !.wdog = count, !.running = TRUE]
        /\ waiting' = MinTicks + MinTicks /\ asked' = who /\ due' = MinTicks
    BY <2>1 DEF RestartWithPartition, BusyWait
  <2> HIDE DEF bits, count
  <2>5. /\ wdt' \in [timeout : Nat, wdog : Nat, running : BOOLEAN, partition : SUBSET Nat]
        /\ wdt'.partition = bits /\ wdt'.wdog = MinTicks /\ wdt'.running
    BY <2>2, <2>3, <2>4 DEF WatchdogInv
  <2>7. machine' = "on" /\ due' = wdt'.wdog /\ waiting' \in Nat
        /\ waiting' = wdt'.wdog + MinTicks /\ wdt'.wdog >= 1
    BY <1>1, <2>3, <2>4, <2>5
  <2>8. asked' \in {"restart", "power_off"} /\ (asked' = "power_off" <=> who = "power_off")
    BY <2>1, <2>4
  <2>9. QED BY <1>1, <2>2, <2>5, <2>7, <2>8 DEF WatchdogInv
<1>5. QED BY <1>3, <1>4

LEMMA TickKeeps ==
  ASSUME WatchdogInv, machine = "on", WatchdogTick, at' = at
  PROVE  WatchdogInv'
<1>1. asked' = asked /\ waiting' = Less(waiting) /\ due' = Less(due)
  BY DEF WatchdogTick
<1>2. MinTicks \in Nat \ {0}
  BY TimeoutLoaded
<1>3. CASE ~wdt.running
  <2>1. wdt' = wdt /\ machine' = machine /\ due = Never /\ due' = due
    BY <1>1, <1>3 DEF WatchdogInv, WatchdogTick, Less, Never
  <2>2. QED BY <1>1, <1>3, <2>1 DEF WatchdogInv, Less
<1>4. CASE wdt.running
  <2> DEFINE n == Less(wdt.wdog)
  <2>1. n \in Nat /\ due' \in {n, Unknown} /\ wdt.wdog \in Nat /\ waiting' \in Nat
    BY <1>1, <1>4 DEF WatchdogInv, Less, Unknown
  <2>2. wdt' = [wdt EXCEPT !.wdog = n]
        /\ machine' = IF wdt.wdog <= 1 THEN "reset" ELSE machine
    BY <1>4 DEF WatchdogTick
  <2>3. (wdt.wdog <= 1 => n = 0) /\ (wdt.wdog > 1 => n = wdt.wdog - 1 /\ n >= 1)
    BY <2>1 DEF Less
  <2>4. asked # "none" /\ wdt.wdog > 1 => waiting' = n + MinTicks
    BY <1>1, <1>2, <2>1, <2>3 DEF WatchdogInv, Less
  <2> HIDE DEF n
  <2>5. QED BY <1>1, <1>4, <2>1, <2>2, <2>3, <2>4 DEF WatchdogInv
<1>5. QED BY <1>3, <1>4 DEF WatchdogInv

(* The other steps leave the device alone, and only a wait that is over ends
   busy_wait: after a restart or power-off it is not over. *)
LEMMA OthersKeep ==
  ASSUME WatchdogInv, UNCHANGED watchdogVars,
         at' = at \/ at # "busy_wait" \/ (waiting = 0 /\ machine = "on")
  PROVE  WatchdogInv'
<1>1. /\ wdt' = wdt /\ waiting' = waiting /\ machine' = machine /\ asked' = asked /\ due' = due
  BY DEF watchdogVars
<1>2. MinTicks \in Nat \ {0}
  BY TimeoutLoaded
<1>3. asked # "none" => at' = at
  BY <1>2 DEF WatchdogInv
<1>4. QED BY <1>1, <1>3 DEF WatchdogInv

(* The machine resets when the timeout in force has passed, and not
   otherwise, and a restart or power-off is the last thing that the shell does
   (ResetsAsPromised, drivers/watchdog/bcm2835_pm.rs:91-242): whatever the
   board's device tree asks for.  When a reset comes of a timeout that the
   register does not hold is left open, but no stop is too late. *)
THEOREM ResetsWhenDue == Spec => []ResetsAsPromised
<1>1. Init => WatchdogInv
  <2> SUFFICES ASSUME Init PROVE WatchdogInv
    OBVIOUS
  <2>1. PICK b \in Boards : WatchdogInit(b.watchdog)
    BY DEF Init
  <2>2. b.watchdog \in Nat
    BY <2>1, TerminalAssumption
  <2>3. QED BY <2>1, <2>2 DEF WatchdogInit, WatchdogInv
<1>2. WatchdogInv /\ [Next]_vars => WatchdogInv'
  <2> SUFFICES ASSUME WatchdogInv, [Next]_vars PROVE WatchdogInv'
    OBVIOUS
  <2>1. CASE Boot /\ machine = "on"
    <3>1. UNCHANGED watchdogVars /\ at # "busy_wait"
      BY <2>1 DEF Boot, BootPrint, SetupArch, UartSetup, FbSetup, KeyboardSetup, DriversDone,
                  TerminalInit, Booting
    <3>2. QED BY <3>1, OthersKeep
  <2>2. CASE \/ Start \/ Poll \/ ReadUart \/ ReadKbd \/ PollDone \/ EditLine \/ EnterLine
             \/ InputDone \/ RunText
    <3>1. UNCHANGED watchdogVars /\ at # "busy_wait"
      BY <2>2 DEF Start, Poll, ReadUart, ReadKbd, PollDone, EditLine, EnterLine, InputDone, RunText
    <3>2. QED BY <3>1, OthersKeep
  <2>3. CASE RunWatchdog /\ machine = "on"
    BY <2>3, CommandKeeps DEF RunWatchdog
  <2>4. CASE RunPower /\ machine = "on"
    BY <2>4, PowerKeeps
  <2>5. CASE BusyWaited /\ machine = "on"
    BY <2>5, OthersKeep DEF BusyWaited
  <2>6. CASE Interrupts \/ Type \/ Tick
    <3>1. UNCHANGED watchdogVars /\ at' = at
      BY <2>6 DEF Interrupts, UartIrq, KeyboardIrq, KernelMessage, Type, Tick, KeepTask, shellVars
    <3>2. QED BY <3>1, OthersKeep
  <2>7. CASE HardwareTick /\ machine = "on"
    BY <2>7, TickKeeps DEF HardwareTick, KeepTask, shellVars
  <2>8. CASE UNCHANGED vars
    <3>1. UNCHANGED watchdogVars /\ at' = at
      BY <2>8 DEF vars, shellVars
    <3>2. QED BY <3>1, OthersKeep
  <2>9. QED BY <2>1, <2>2, <2>3, <2>4, <2>5, <2>6, <2>7, <2>8 DEF Next, ShellTask
<1>3. WatchdogInv => ResetsAsPromised
  <2> SUFFICES ASSUME WatchdogInv PROVE ResetsAsPromised
    OBVIOUS
  <2>1. StaysOff <=> asked = "power_off"
    BY DEF WatchdogInv, StaysOff, HaltBits
  <2>2. QED BY <2>1 DEF WatchdogInv, ResetsAsPromised, ResetIsDue
<1>4. QED BY <1>1, <1>2, <1>3, PTL DEF Spec

-----------------------------------------------------------------------------
(***************************************************************************)
(* Kernel messages.  Before there is a console the boot ring represents    *)
(* all of them; after that every message that is due was heard, that is    *)
(* seen on some device.                                                    *)
(***************************************************************************)
Openings == [by : {"nobody", "early", "system"}, after : Nat]

ConsoleStates ==
  [boot : Rings(BootLen, Nat), early : BOOLEAN, list : Seq(Devices),
   seen : [Devices -> Seq(Nat)], opened : Openings]

UpTo(n) == [i \in 1 .. n |-> i]

Heard(c, m) == \E d \in Devices : \E i \in DOMAIN c.seen[d] : c.seen[d][i] = m

(* Message m is among those that Promised names. *)
Owed(o, m) == m > IF o.by = "early" THEN o.after - BootLen ELSE o.after

Ordered(s, n) ==
  \A j \in DOMAIN s :
    /\ s[j] <= n
    /\ \A i \in DOMAIN s : i < j /\ s[j] # Farewell => s[i] < s[j]

Unheard(c) == c.list = <<>> /\ ~c.early

Follows(c, n) ==
  /\ c \in ConsoleStates
  /\ \A d \in Devices : Ordered(c.seen[d], n)
  /\ c.opened.by = "nobody" <=> Unheard(c)
  /\ Unheard(c) => Represents(c.boot, UpTo(n)) /\ \A d \in Devices : c.seen[d] = <<>>
  /\ ~Unheard(c) => \A m \in 1 .. n : Owed(c.opened, m) => Heard(c, m)

(* One item more at the end of a sequence. *)
LEMMA OneMore ==
  ASSUME NEW s \in Seq(Nat), NEW x \in Nat
  PROVE  /\ s \o <<x>> \in Seq(Nat) /\ Len(s) \in Nat
         /\ DOMAIN s = 1 .. Len(s) /\ DOMAIN (s \o <<x>>) = 1 .. (Len(s) + 1)
         /\ \A i \in 1 .. Len(s) : (s \o <<x>>)[i] = s[i]
         /\ (s \o <<x>>)[Len(s) + 1] = x
         /\ \A i \in 1 .. Len(s) : s[i] \in Nat
<1> DEFINE one == <<x>>
<1>1. one \in Seq(Nat) /\ Len(one) = 1 /\ one[1] = x
  OBVIOUS
<1> HIDE DEF one
<1>2. /\ s \o one \in Seq(Nat) /\ Len(s \o one) = Len(s) + Len(one)
      /\ \A i \in 1 .. Len(s) + Len(one) :
           (s \o one)[i] = IF i <= Len(s) THEN s[i] ELSE one[i - Len(s)]
  BY <1>1, ConcatProperties
<1>3. /\ Len(s) \in Nat /\ DOMAIN s = 1 .. Len(s)
      /\ DOMAIN (s \o one) = 1 .. Len(s \o one)
  BY <1>2, LenProperties
<1>4. \A i \in 1 .. Len(s) : s[i] \in Nat
  BY ElementOfSeq
<1>5. \A i \in 1 .. Len(s) : (s \o one)[i] = s[i]
  BY <1>1, <1>2, <1>3
<1>6. (s \o one)[Len(s) + 1] = x
  BY <1>1, <1>2, <1>3
<1>7. QED BY <1>1, <1>2, <1>3, <1>4, <1>5, <1>6 DEF one

LEMMA OrderedMore ==
  ASSUME NEW s \in Seq(Nat), NEW n \in Nat, Ordered(s, n)
  PROVE  /\ Ordered(s, n + 1)
         /\ Ordered(s \o <<n + 1>>, n + 1)
         /\ Ordered(s \o <<Farewell>>, n)
<1>1. \A j \in DOMAIN s : s[j] \in Nat /\ s[j] <= n
  BY OneMore DEF Ordered, Farewell
<1>2. Ordered(s, n + 1)
  BY <1>1 DEF Ordered
<1>3. ASSUME NEW x \in Nat, NEW m \in Nat, n <= m, x <= m, x = Farewell \/ x = n + 1
      PROVE  Ordered(s \o <<x>>, m)
  <2> DEFINE t == s \o <<x>>
             l == Len(s)
  <2>1. /\ l \in Nat /\ DOMAIN s = 1 .. l /\ DOMAIN t = 1 .. (l + 1)
        /\ \A i \in 1 .. l : t[i] = s[i] /\ s[i] \in Nat
        /\ t[l + 1] = x
    BY OneMore
  <2> HIDE DEF t, l
  <2>2. ASSUME NEW j \in DOMAIN t
        PROVE  t[j] <= m /\ \A i \in DOMAIN t : i < j /\ t[j] # Farewell => t[i] < t[j]
    <3>1. CASE j \in 1 .. l
      <4>1. t[j] = s[j] /\ \A i \in DOMAIN t : i < j => i \in 1 .. l /\ t[i] = s[i]
        BY <2>1, <3>1
      <4>2. s[j] <= n /\ s[j] \in Nat
        BY <1>1, <2>1, <3>1
      <4>3. \A i \in 1 .. l : i < j /\ s[j] # Farewell => s[i] < s[j]
        BY <2>1, <3>1 DEF Ordered
      <4>4. QED BY <1>3, <2>1, <4>1, <4>2, <4>3
    <3>2. CASE j = l + 1
      <4>1. t[j] = x /\ \A i \in DOMAIN t : i < j => i \in 1 .. l /\ t[i] = s[i]
        BY <2>1, <3>2
      <4>2. \A i \in 1 .. l : s[i] <= n /\ s[i] \in Nat
        BY <1>1, <2>1
      <4>3. QED BY <1>3, <4>1, <4>2
    <3>3. QED BY <2>1, <2>2, <3>1, <3>2
  <2>3. QED BY <2>2 DEF Ordered, t
<1>4. Ordered(s \o <<n + 1>>, n + 1)
  BY <1>3
<1>5. Ordered(s \o <<Farewell>>, n)
  BY <1>3 DEF Farewell
<1>6. QED BY <1>2, <1>4, <1>5

(* One message is sent to some devices. *)
SentOnce(c, t, D, x) ==
  /\ t \in ConsoleStates /\ t.boot = c.boot /\ t.early = c.early /\ t.list = c.list
  /\ t.opened = c.opened
  /\ \A d \in Devices : t.seen[d] = IF d \in D THEN c.seen[d] \o <<x>> ELSE c.seen[d]
  /\ \A m \in Nat : Heard(t, m) <=> Heard(c, m) \/ (m = x /\ D # {})

LEMMA SentOne ==
  ASSUME NEW c \in ConsoleStates, NEW D, D \subseteq Devices, NEW x \in Nat
  PROVE  SentOnce(c, SentTo(c, D, <<x>>), D, x)
<1> DEFINE t == SentTo(c, D, <<x>>)
           seen == [d \in Devices |-> IF d \in D THEN c.seen[d] \o <<x>> ELSE c.seen[d]]
<1>1. \A d \in Devices : c.seen[d] \in Seq(Nat)
  BY DEF ConsoleStates
<1>2. seen \in [Devices -> Seq(Nat)]
  BY <1>1, OneMore
<1>3. t = [c EXCEPT !.seen = seen]
  BY DEF SentTo
<1>4. \A d \in Devices : seen[d] = IF d \in D THEN c.seen[d] \o <<x>> ELSE c.seen[d]
  OBVIOUS
<1> HIDE DEF t, seen
<1>5. /\ t \in ConsoleStates /\ t.boot = c.boot /\ t.early = c.early /\ t.list = c.list
      /\ t.opened = c.opened /\ t.seen = seen
  BY <1>2, <1>3 DEF ConsoleStates
<1>6. ASSUME NEW m \in Nat
      PROVE  Heard(t, m) <=> Heard(c, m) \/ (m = x /\ D # {})
  <2>1. ASSUME NEW d \in Devices
        PROVE  (\E i \in DOMAIN t.seen[d] : t.seen[d][i] = m)
                 <=> (\E i \in DOMAIN c.seen[d] : c.seen[d][i] = m) \/ (m = x /\ d \in D)
    <3> DEFINE s == c.seen[d]
               u == s \o <<x>>
               l == Len(s)
    <3>1. /\ l \in Nat /\ DOMAIN s = 1 .. l /\ DOMAIN u = 1 .. (l + 1)
          /\ \A i \in 1 .. l : u[i] = s[i]
          /\ u[l + 1] = x
      BY <1>1, OneMore
    <3>2. t.seen[d] = IF d \in D THEN u ELSE s
      BY <1>4, <1>5
    <3> HIDE DEF s, u, l
    <3>3. (\E i \in DOMAIN u : u[i] = m) <=> (\E i \in DOMAIN s : s[i] = m) \/ m = x
      <4>1. ASSUME NEW i \in DOMAIN u, u[i] = m
            PROVE  (\E h \in DOMAIN s : s[h] = m) \/ m = x
        BY <3>1, <4>1
      <4>2. ASSUME NEW i \in DOMAIN s, s[i] = m
            PROVE  \E h \in DOMAIN u : u[h] = m
        <5>1. i \in DOMAIN u /\ u[i] = m
          BY <3>1, <4>2
        <5>2. QED BY <5>1
      <4>3. ASSUME m = x
            PROVE  \E h \in DOMAIN u : u[h] = m
        <5>1. l + 1 \in DOMAIN u /\ u[l + 1] = m
          BY <3>1, <4>3
        <5>2. QED BY <5>1
      <4>4. QED BY <4>1, <4>2, <4>3
    <3>4. QED BY <3>2, <3>3 DEF s
  <2>2. D # {} <=> \E d \in Devices : d \in D
    OBVIOUS
  <2>3. QED BY <2>1, <2>2 DEF Heard
<1>7. QED BY <1>4, <1>5, <1>6 DEF t, SentOnce

LEMMA UpToProperties ==
  ASSUME NEW n \in Nat
  PROVE  /\ UpTo(n) \in Seq(Nat) /\ Len(UpTo(n)) = n
         /\ \A i \in 1 .. n : UpTo(n)[i] = i
         /\ Append(UpTo(n), n + 1) = UpTo(n + 1)
<1>1. ASSUME NEW m \in Nat
      PROVE  /\ UpTo(m) \in Seq(Nat) /\ Len(UpTo(m)) = m
             /\ \A i \in 1 .. m : UpTo(m)[i] = i
  <2>1. UpTo(m) \in [1 .. m -> Nat]
    BY DEF UpTo
  <2>2. QED BY <2>1 DEF UpTo
<1> DEFINE a == UpTo(n)
           b == UpTo(n + 1)
           t == Append(a, n + 1)
<1>2. /\ a \in Seq(Nat) /\ Len(a) = n /\ \A i \in 1 .. n : a[i] = i
      /\ b \in Seq(Nat) /\ Len(b) = n + 1 /\ \A i \in 1 .. (n + 1) : b[i] = i
  BY <1>1
<1> HIDE DEF a, b
<1>3. t \in Seq(Nat) /\ Len(t) = n + 1 /\ (\A i \in 1 .. n : t[i] = a[i]) /\ t[n + 1] = n + 1
  BY <1>2, AppendProperties
<1> HIDE DEF t
<1>4. \A i \in 1 .. Len(t) : t[i] = b[i]
  <2> SUFFICES ASSUME NEW i \in 1 .. (n + 1) PROVE t[i] = b[i]
    BY <1>3
  <2>1. i \in 1 .. n \/ i = n + 1
    OBVIOUS
  <2>2. QED BY <1>2, <1>3, <2>1
<1>5. t = b
  BY <1>2, <1>3, <1>4, SeqEqual
<1>6. QED BY <1>2, <1>5 DEF t, a, b

(* What the boot ring hands over. *)
LEMMA BootItems ==
  ASSUME NEW r \in Rings(BootLen, Nat), NEW n \in Nat, Represents(r, UpTo(n))
  PROVE  \E k \in 1 .. (n + 1) :
           /\ Items(r) \in Seq(Nat) /\ Len(Items(r)) = n + 1 - k
           /\ \A i \in 1 .. (n + 1 - k) : Items(r)[i] = k + i - 1
           /\ k = 1 \/ n + 1 - k >= BootLen
<1>1. BootLen \in Nat \ {0}
  BY ConsolesAssumption
<1>2. UpTo(n) \in Seq(Nat) /\ Len(UpTo(n)) = n /\ \A i \in 1 .. n : UpTo(n)[i] = i
  BY UpToProperties
<1>3. HoldsNewest(r, UpTo(n))
  BY <1>1, <1>2, RepresentedIsHeld
<1>4. Items(r) = Newest(BootLen, UpTo(n))
  BY <1>1, <1>3, Parts DEF HoldsNewest
<1> DEFINE u == UpTo(n)
           s == Items(r)
<1>5. CASE n <= BootLen
  <2>1. s = u
    BY <1>2, <1>4, <1>5 DEF Newest
  <2> HIDE DEF s, u
  <2>2. 1 \in 1 .. (n + 1) /\ n + 1 - 1 = n
    OBVIOUS
  <2>3. s \in Seq(Nat) /\ Len(s) = n /\ \A i \in 1 .. n : s[i] = 1 + i - 1
    BY <1>2, <2>1 DEF u
  <2>4. QED BY <2>2, <2>3 DEF s
<1>6. CASE ~(n <= BootLen)
  <2> DEFINE k == n - BootLen + 1
  <2>1. k \in 1 .. (n + 1) /\ n + 1 - k = BootLen /\ n + 1 - k >= BootLen
    BY <1>1, <1>6
  <2>2. s = SubSeq(u, k, n)
    BY <1>2, <1>4, <1>6 DEF Newest
  <2>10. \A i \in 1 .. n : u[i] = i
    BY <1>2
  <2> HIDE DEF s, u, k
  <2>3. \A i \in k .. n : u[i] = i /\ u[i] \in Nat
    <3>1. \A i \in k .. n : i \in 1 .. n
      BY <2>1
    <3>2. QED BY <2>10, <3>1
  <2>4. k \in Int /\ n \in Int
    BY <2>1
  <2>5. /\ SubSeq(u, k, n) \in Seq(Nat)
        /\ Len(SubSeq(u, k, n)) = (IF k <= n THEN n - k + 1 ELSE 0)
        /\ \A i \in 1 .. (n - k + 1) : SubSeq(u, k, n)[i] = u[k + i - 1]
    BY <2>3, <2>4, SubSeqProperties
  <2>6. k <= n /\ n - k + 1 = n + 1 - k
    BY <1>1, <2>1
  <2>7. s \in Seq(Nat) /\ Len(s) = n + 1 - k
    BY <2>2, <2>5, <2>6
  <2>8. ASSUME NEW i \in 1 .. (n + 1 - k) PROVE s[i] = k + i - 1
    <3>1. i \in 1 .. (n - k + 1) /\ k + i - 1 \in k .. n
      BY <2>1, <2>6
    <3>2. QED BY <2>2, <2>3, <2>5, <3>1
  <2>9. QED BY <2>1, <2>7, <2>8 DEF s
<1>7. QED BY <1>5, <1>6

(* console_write_str: one message more. *)
LEMMA WriteFollows ==
  ASSUME NEW c, NEW n \in Nat, Follows(c, n)
  PROVE  /\ Follows(Write(c, n + 1), n + 1)
         /\ Write(c, n + 1).list = c.list /\ Write(c, n + 1).early = c.early
<1>1. c \in ConsoleStates /\ \A d \in Devices : c.seen[d] \in Seq(Nat) /\ Ordered(c.seen[d], n)
  BY DEF Follows, ConsoleStates
<1>2. \A d \in Devices : /\ Ordered(c.seen[d], n + 1)
                         /\ Ordered(c.seen[d] \o <<n + 1>>, n + 1)
  BY <1>1, OrderedMore
<1>3. ASSUME NEW D \in SUBSET Devices, D # {}, ~Unheard(c)
      PROVE  /\ Follows(SentTo(c, D, <<n + 1>>), n + 1)
             /\ SentTo(c, D, <<n + 1>>).list = c.list /\ SentTo(c, D, <<n + 1>>).early = c.early
  <2> DEFINE t == SentTo(c, D, <<n + 1>>)
  <2> DEFINE x == n + 1
  <2>1. x \in Nat /\ c \in ConsoleStates
    BY <1>1
  <2> HIDE DEF x
  <2>8. SentOnce(c, SentTo(c, D, <<x>>), D, x)
    BY <1>3, <2>1, SentOne
  <2>2. /\ t \in ConsoleStates /\ t.early = c.early /\ t.list = c.list
        /\ t.opened = c.opened
        /\ \A d \in Devices : t.seen[d] = IF d \in D THEN c.seen[d] \o <<n + 1>> ELSE c.seen[d]
        /\ \A m \in Nat : Heard(t, m) <=> Heard(c, m) \/ m = n + 1
    BY <1>3, <2>8 DEF SentOnce, x
  <2> HIDE DEF t
  <2>3. \A m \in 1 .. (n + 1) : Owed(t.opened, m) => Heard(t, m)
    <3>1. \A m \in 1 .. n : Owed(c.opened, m) => Heard(c, m)
      BY <1>3 DEF Follows
    <3>2. \A m \in 1 .. (n + 1) : m \in Nat /\ (m \in 1 .. n \/ m = n + 1)
      OBVIOUS
    <3>3. QED BY <2>2, <3>1, <3>2
  <2>6. ~Unheard(t) /\ t.opened.by # "nobody"
    BY <1>3, <2>2 DEF Unheard, Follows
  <2>7. Follows(t, n + 1)
    BY <1>2, <2>2, <2>3, <2>6 DEF Follows
  <2>9. QED BY <2>2, <2>7 DEF t
<1>4. CASE c.list # <<>>
  <2>1. ToSet(c.list) \in SUBSET Devices /\ ToSet(c.list) # {}
    <3>1. c.list \in Seq(Devices)
      BY <1>1 DEF ConsoleStates
    <3>2. Len(c.list) \in Nat \ {0} /\ DOMAIN c.list = 1 .. Len(c.list)
      BY <1>4, <3>1, LenProperties, EmptySeq
    <3>3. \A i \in 1 .. Len(c.list) : c.list[i] \in Devices
      BY <3>1, ElementOfSeq
    <3>4. 1 \in DOMAIN c.list
      BY <3>2
    <3>5. QED BY <3>2, <3>3, <3>4 DEF ToSet
  <2>2. Write(c, n + 1) = SentTo(c, ToSet(c.list), <<n + 1>>) /\ ~Unheard(c)
    BY <1>4 DEF Write, Unheard
  <2>3. QED BY <1>3, <2>1, <2>2
<1>5. CASE c.list = <<>> /\ c.early
  <2>1. Write(c, n + 1) = SentTo(c, {"uart"}, <<n + 1>>) /\ ~Unheard(c)
    BY <1>5 DEF Write, Unheard
  <2>2. {"uart"} \in SUBSET Devices /\ {"uart"} # {}
    BY DEF Devices
  <2>3. QED BY <1>3, <2>1, <2>2
<1>6. CASE Unheard(c)
  <2> DEFINE r == PushItem(c.boot, n + 1)
             t == [c EXCEPT !.boot = r]
  <2>1. Write(c, n + 1) = t
    BY <1>6 DEF Write, Unheard
  <2>2. r \in Rings(BootLen, Nat) /\ Represents(r, UpTo(n + 1))
    <3>1. /\ c.boot \in Rings(BootLen, Nat) /\ BootLen \in Nat \ {0} /\ n + 1 \in Nat
          /\ UpTo(n) \in Seq(Nat) /\ Represents(c.boot, UpTo(n))
          /\ Append(UpTo(n), n + 1) = UpTo(n + 1)
      BY <1>1, <1>6, ConsolesAssumption, UpToProperties DEF Follows, ConsoleStates
    <3>2. r \in Rings(BootLen, Nat) /\ Represents(r, Append(UpTo(n), n + 1))
      BY <3>1, PushRepresents
    <3>3. QED BY <3>1, <3>2
  <2> HIDE DEF r
  <2>3. /\ t \in ConsoleStates /\ t.boot = r /\ t.early = c.early /\ t.list = c.list
        /\ t.seen = c.seen /\ t.opened = c.opened
    BY <1>1, <2>2 DEF ConsoleStates
  <2> HIDE DEF t
  <2>4. Follows(t, n + 1)
    BY <1>2, <1>6, <2>2, <2>3 DEF Follows, Unheard
  <2>5. QED BY <2>1, <2>3, <2>4
<1>7. QED BY <1>1, <1>4, <1>5, <1>6 DEF Unheard, ConsoleStates

(* register_early_console: the boot ring's messages, while there is no
   other console. *)
LEMMA EarlyFollows ==
  ASSUME NEW c, NEW n \in Nat, Follows(c, n), c.list = <<>>
  PROVE  Follows(EarlyRegistered(c, n), n)
<1>1. CASE c.early
  BY <1>1 DEF EarlyRegistered
<1>2. CASE ~c.early
  <2> DEFINE s == Items(c.boot)
             seen == [d \in Devices |-> IF d \in {"uart"} THEN c.seen[d] \o s ELSE c.seen[d]]
             t == EarlyRegistered(c, n)
             o == [by |-> "early", after |-> n]
  <2>1. /\ c \in ConsoleStates /\ c.boot \in Rings(BootLen, Nat)
        /\ Represents(c.boot, UpTo(n)) /\ \A d \in Devices : c.seen[d] = <<>>
        /\ c.opened.by = "nobody"
    BY <1>2 DEF Follows, Unheard, ConsoleStates
  <2>2. PICK k \in 1 .. (n + 1) :
           /\ s \in Seq(Nat) /\ Len(s) = n + 1 - k
           /\ \A i \in 1 .. (n + 1 - k) : s[i] = k + i - 1
           /\ k = 1 \/ n + 1 - k >= BootLen
    BY <2>1, BootItems
  <2>3. DOMAIN s = 1 .. (n + 1 - k)
    BY <2>2, LenProperties
  <2>4. ClearRing(c.boot) \in Rings(BootLen, Nat)
    BY <2>1, ConsolesAssumption, EmptyRing
  <2>5. t = [c EXCEPT !.seen = seen, !.boot = ClearRing(c.boot), !.early = TRUE, !.opened = o]
    BY <1>2, <2>1 DEF EarlyRegistered, SentTo, Opened
  <2>14. o \in Openings /\ o.by = "early" /\ o.after = n
    BY DEF Openings
  <2> HIDE DEF s, t, o
  <2>6. \A d \in Devices : seen[d] = IF d = "uart" THEN s ELSE <<>>
    <3>1. <<>> \o s = s
      BY <2>2, ConcatEmptySeq
    <3>2. QED BY <2>1, <3>1
  <2>7. seen \in [Devices -> Seq(Nat)]
    <3>1. <<>> \in Seq(Nat) /\ s \in Seq(Nat)
      BY <2>2, EmptySeq
    <3>2. \A d \in Devices : seen[d] \in Seq(Nat)
      BY <2>6, <3>1
    <3> HIDE DEF s
    <3>3. seen = [d \in Devices |-> seen[d]]
      OBVIOUS
    <3>4. QED BY <3>2, <3>3
  <2> HIDE DEF seen
  <2>8. t \in ConsoleStates /\ t.early /\ t.list = <<>> /\ t.seen = seen /\ t.opened = o
    BY <2>1, <2>4, <2>5, <2>7, <2>14 DEF ConsoleStates
  <2>9. ASSUME NEW d \in Devices PROVE Ordered(t.seen[d], n)
    <3>1. Ordered(s, n)
      <4>1. \A i \in DOMAIN s : i \in 1 .. (n + 1 - k) /\ s[i] = k + i - 1
        BY <2>2, <2>3
      <4>2. \A j \in DOMAIN s : s[j] <= n
        BY <4>1
      <4>3. \A i, j \in DOMAIN s : i < j => s[i] < s[j]
        BY <4>1
      <4>4. QED BY <4>2, <4>3 DEF Ordered
    <3>2. Ordered(<<>>, n)
      BY DEF Ordered
    <3>3. QED BY <2>6, <2>8, <3>1, <3>2
  <2>10. ASSUME NEW m \in 1 .. n, Owed(t.opened, m) PROVE Heard(t, m)
    <3>1. Heard(t, m) <=> \E i \in DOMAIN s : s[i] = m
      <4>1. "uart" \in Devices
        BY DEF Devices
      <4>2. QED BY <2>6, <2>8, <4>1 DEF Heard
    <3>2. k <= m
      <4>1. m > n - BootLen
        BY <2>8, <2>10, <2>14 DEF Owed
      <4>2. QED BY <2>2, <4>1, ConsolesAssumption
    <3>3. m - k + 1 \in 1 .. (n + 1 - k) /\ k + (m - k + 1) - 1 = m
      BY <3>2
    <3>4. m - k + 1 \in DOMAIN s /\ s[m - k + 1] = m
      BY <2>2, <2>3, <3>3
    <3>5. QED BY <3>1, <3>4
  <2>12. ~Unheard(t) /\ t.opened.by # "nobody"
    BY <2>8, <2>14 DEF Unheard
  <2>13. QED BY <2>8, <2>9, <2>10, <2>12 DEF Follows, t
<1>3. QED BY <1>1, <1>2

(* A console that is listed has heard nothing yet; one that takes over from
   the early console leaves what that one was sent. *)
LEMMA ListedFollows ==
  ASSUME NEW c, NEW n \in Nat, Follows(c, n), NEW d \in Devices
  PROVE  /\ Follows(Listed(c, d, n), n) /\ Listed(c, d, n).early = c.early
         /\ Listed(c, d, n).list # <<>>
<1> DEFINE t == Listed(c, d, n)
           l == Append(c.list, d)
           o == Opened(c, "system", n)
<1>1. /\ c \in ConsoleStates /\ c.list \in Seq(Devices) /\ c.opened \in Openings
      /\ c.opened.by = "nobody" <=> Unheard(c)
  BY DEF Follows, ConsoleStates
<1>2. l \in Seq(Devices) /\ l # <<>>
  <2>1. l \in Seq(Devices) /\ Len(l) = Len(c.list) + 1 /\ Len(c.list) \in Nat
    BY <1>1, AppendProperties, LenProperties
  <2>2. Len(l) # 0
    BY <2>1
  <2>3. QED BY <2>1, <2>2, EmptySeq
<1>3. t = [c EXCEPT !.list = l, !.opened = o]
  BY DEF Listed
<1>9. /\ o \in Openings /\ o.by # "nobody"
      /\ Unheard(c) => o.by = "system" /\ o.after = n
      /\ ~Unheard(c) => o = c.opened
  BY <1>1 DEF Opened, Openings
<1> HIDE DEF t, l, o
<1>4. /\ t \in ConsoleStates /\ t.early = c.early /\ t.list = l /\ t.seen = c.seen
      /\ t.opened = o
  BY <1>1, <1>2, <1>3, <1>9 DEF ConsoleStates
<1>5. ~Unheard(t)
  BY <1>2, <1>4 DEF Unheard
<1>6. ASSUME NEW m \in 1 .. n, Owed(t.opened, m) PROVE Heard(t, m)
  <2>1. CASE Unheard(c)
    <3>1. ~(m > n)
      OBVIOUS
    <3>2. QED BY <1>4, <1>6, <1>9, <2>1, <3>1 DEF Owed
  <2>2. CASE ~Unheard(c)
    <3>1. Heard(c, m)
      BY <1>4, <1>6, <1>9, <2>2 DEF Follows
    <3>2. QED BY <1>4, <3>1 DEF Heard
  <2>3. QED BY <2>1, <2>2
<1>7. Follows(t, n)
  BY <1>4, <1>5, <1>6, <1>9 DEF Follows
<1>8. QED BY <1>2, <1>4, <1>7 DEF t

LEMMA RetiredFollows ==
  ASSUME NEW c, NEW n \in Nat, Follows(c, n), c.list # <<>>
  PROVE  Follows(Retired(c), n) /\ Retired(c).list = c.list
<1> DEFINE e == [c EXCEPT !.early = FALSE]
           t == Retired(c)
<1>1. c \in ConsoleStates /\ \A d \in Devices : c.seen[d] \in Seq(Nat) /\ Ordered(c.seen[d], n)
  BY DEF Follows, ConsoleStates
<1>2. /\ e \in ConsoleStates /\ ~e.early /\ e.list = c.list /\ e.seen = c.seen
      /\ e.opened = c.opened
  BY <1>1 DEF ConsoleStates
<1>3. t = SentTo(e, {"uart"}, <<Farewell>>)
  BY DEF Retired
<1> HIDE DEF e, t
<1>4. {"uart"} \subseteq Devices /\ Farewell \in Nat
  BY DEF Devices, Farewell
<1>5. SentOnce(e, t, {"uart"}, Farewell)
  BY <1>2, <1>3, <1>4, SentOne
<1>6. /\ t \in ConsoleStates /\ ~t.early /\ t.list = c.list /\ t.opened = c.opened
      /\ \A d \in Devices :
           t.seen[d] = IF d \in {"uart"} THEN c.seen[d] \o <<Farewell>> ELSE c.seen[d]
      /\ \A m \in Nat \ {Farewell} : Heard(t, m) <=> Heard(c, m)
  BY <1>2, <1>5 DEF SentOnce, Heard
<1>7. \A d \in Devices : Ordered(t.seen[d], n)
  BY <1>1, <1>6, OrderedMore
<1>8. ~Unheard(t) /\ ~Unheard(c) /\ t.opened.by # "nobody"
  BY <1>6 DEF Unheard, Follows
<1>9. \A m \in 1 .. n : Owed(t.opened, m) => Heard(t, m)
  <2>1. \A m \in 1 .. n : m \in Nat \ {Farewell}
    BY DEF Farewell
  <2>2. \A m \in 1 .. n : Owed(c.opened, m) => Heard(c, m)
    BY <1>8 DEF Follows
  <2>3. QED BY <1>6, <2>1, <2>2
<1>11. QED BY <1>6, <1>7, <1>8, <1>9 DEF Follows, t

(* register_console. *)
LEMMA RegisteredFollows ==
  ASSUME NEW c, NEW n \in Nat, Follows(c, n), NEW d \in Devices
  PROVE  Follows(Registered(c, d, n + 1), n + IF c.early THEN 2 ELSE 1)
<1> DEFINE told == Write(c, n + 1)
           listed == Listed(told, d, n + 1)
           x == n + 1
<1>1. x \in Nat
  OBVIOUS
<1>2. Follows(told, x) /\ told.early = c.early
  BY WriteFollows
<1>3. Registered(c, d, n + 1) = IF listed.early THEN Write(Retired(listed), n + 1 + 1) ELSE listed
  BY DEF Registered
<1> HIDE DEF told, x
<1>4. Follows(listed, x) /\ listed.early = c.early /\ listed.list # <<>>
  BY <1>1, <1>2, ListedFollows DEF x
<1> HIDE DEF listed
<1>5. Follows(Retired(listed), x)
  BY <1>1, <1>4, RetiredFollows
<1>6. Follows(Write(Retired(listed), x + 1), x + 1)
  BY <1>1, <1>5, WriteFollows
<1>7. CASE c.early
  <2>1. n + 1 + 1 = x + 1 /\ n + 2 = x + 1
    BY DEF x
  <2>2. QED BY <1>3, <1>4, <1>6, <1>7, <2>1
<1>8. CASE ~c.early
  BY <1>3, <1>4, <1>8 DEF x
<1>9. QED BY <1>2, <1>7, <1>8

(* No console, or consoles of which the history begins. *)
LEMMA NothingHeard ==
  ASSUME NEW e \in BOOLEAN, NEW l \in Seq(Devices), NEW o \in Openings,
         o.by = "nobody" <=> l = <<>> /\ ~e
  PROVE  Follows([NoConsoles EXCEPT !.early = e, !.list = l, !.opened = o], 0)
<1> DEFINE t == [NoConsoles EXCEPT !.early = e, !.list = l, !.opened = o]
           r == NewRing(BootLen, Farewell)
           seen == [d \in Devices |-> <<>>]
           none == [by |-> "nobody", after |-> 0]
<1>1. r \in Rings(BootLen, Nat) /\ Represents(r, <<>>)
  BY ConsolesAssumption, EmptyRing DEF Farewell
<1>2. UpTo(0) = <<>>
  <2>1. UpTo(0) \in Seq(Nat) /\ Len(UpTo(0)) = 0
    BY UpToProperties
  <2>2. QED BY <2>1, EmptySeq
<1>3. seen \in [Devices -> Seq(Nat)] /\ \A d \in Devices : seen[d] = <<>>
  <2>1. <<>> \in Seq(Nat)
    BY EmptySeq
  <2>2. QED BY <2>1
<1>4. t = [boot |-> r, early |-> e, list |-> l, seen |-> seen, opened |-> o]
  <2>1. NoConsoles = [boot |-> r, early |-> FALSE, list |-> <<>>, seen |-> seen,
                      opened |-> none]
    BY DEF NoConsoles
  <2> HIDE DEF r, seen, none
  <2>2. t = [[boot |-> r, early |-> FALSE, list |-> <<>>, seen |-> seen, opened |-> none]
               EXCEPT !.early = e, !.list = l, !.opened = o]
    BY <2>1
  <2> HIDE DEF t
  <2>3. QED BY <2>2
<1> HIDE DEF t, r, seen
<1>5. /\ t \in ConsoleStates /\ t.boot = r /\ t.early = e /\ t.list = l /\ t.opened = o
      /\ \A d \in Devices : t.seen[d] = <<>>
  BY <1>1, <1>3, <1>4 DEF ConsoleStates
<1>6. \A d \in Devices : Ordered(t.seen[d], 0)
  <2>1. Ordered(<<>>, 0)
    BY DEF Ordered
  <2>2. QED BY <1>5, <2>1
<1>7. \A m \in 1 .. 0 : Owed(t.opened, m) => Heard(t, m)
  OBVIOUS
<1>8. t.opened.by = "nobody" <=> Unheard(t)
  BY <1>5 DEF Unheard
<1>9. QED BY <1>1, <1>2, <1>5, <1>6, <1>7, <1>8 DEF Follows, t

LEMMA FollowsIsKept == Follows(con, printed) /\ printed \in Nat => MessagesAreKept
<1> SUFFICES ASSUME Follows(con, printed), printed \in Nat PROVE MessagesAreKept
  OBVIOUS
<1> DEFINE n == printed
           s == Items(con.boot)
<1>1. con \in ConsoleStates /\ con.opened \in Openings /\ BootLen \in Nat
  BY ConsolesAssumption DEF Follows, ConsoleStates
<1>2. \A m : m \in Seen <=> Heard(con, m)
  BY DEF Heard, Seen, ToSet
<1>3. ASSUME NEW m \in Promised PROVE m \in Seen
  <2>1. con.opened.by # "nobody" /\ m \in 1 .. n /\ Owed(con.opened, m)
    <3>1. con.opened.by \in {"nobody", "early", "system"} /\ con.opened.after \in Nat
      BY <1>1 DEF Openings
    <3>2. CASE con.opened.by = "nobody"
      BY <1>3, <3>2 DEF Promised
    <3>3. CASE con.opened.by = "early"
      BY <1>3, <3>3 DEF Promised, Newer, Owed
    <3>4. CASE con.opened.by = "system"
      BY <1>3, <3>4 DEF Promised, Newer, Owed
    <3>5. QED BY <3>1, <3>2, <3>3, <3>4
  <2>2. ~Unheard(con)
    BY <2>1 DEF Follows
  <2>3. Heard(con, m)
    BY <2>1, <2>2 DEF Follows
  <2>4. QED BY <1>2, <2>3
<1>4. ASSUME con.opened.by = "nobody", NEW m \in Newer(n - BootLen) PROVE m \in ToSet(s)
  <2>1. con.boot \in Rings(BootLen, Nat) /\ Represents(con.boot, UpTo(n))
    BY <1>1, <1>4 DEF Follows, ConsoleStates
  <2>2. PICK k \in 1 .. (n + 1) :
           /\ s \in Seq(Nat) /\ Len(s) = n + 1 - k
           /\ \A i \in 1 .. (n + 1 - k) : s[i] = k + i - 1
           /\ k = 1 \/ n + 1 - k >= BootLen
    BY <2>1, BootItems
  <2>3. DOMAIN s = 1 .. (n + 1 - k)
    BY <2>2, LenProperties
  <2> HIDE DEF s
  <2>4. m \in k .. n
    BY <1>1, <1>4, <2>2 DEF Newer
  <2>5. m - k + 1 \in 1 .. (n + 1 - k) /\ k + (m - k + 1) - 1 = m
    BY <2>4
  <2>6. m - k + 1 \in DOMAIN s /\ s[m - k + 1] = m
    BY <2>2, <2>3, <2>5
  <2>7. QED BY <2>6 DEF ToSet
<1>5. \A d \in Devices : \A i, j \in DOMAIN con.seen[d] :
        i < j /\ con.seen[d][j] # Farewell => con.seen[d][i] < con.seen[d][j]
  BY DEF Follows, Ordered
<1>6. QED BY <1>3, <1>4, <1>5 DEF MessagesAreKept

(* Whatever the drivers register while the machine boots, every message from
   the first console on is seen, and of those before an early console the
   newest that the boot ring holds; until there is a console the ring keeps
   them; and no device shows a message twice or out of order.  A boot ring
   that a system console finds first is not seen by anybody, and nothing is
   said of it (MessagesAreKept, kernel/console.rs:28-77). *)
MessagesInv ==
  /\ printed \in Nat
  /\ Follows(con, printed)
  /\ at = "setup_arch" => con.list = <<>>

THEOREM MessagesStayKept == Spec => []MessagesAreKept
<1>1. Init => MessagesInv
  <2> SUFFICES ASSUME Init PROVE MessagesInv
    OBVIOUS
  <2>1. con = NoConsoles /\ printed = 0
    BY DEF Init, ConsolesInit
  <2>2. /\ [NoConsoles EXCEPT !.early = FALSE, !.list = <<>>,
                              !.opened = [by |-> "nobody", after |-> 0]] = NoConsoles
        /\ NoConsoles.list = <<>>
    <3> DEFINE r == NewRing(BootLen, Farewell)
               seen == [d \in Devices |-> <<>>]
               none == [by |-> "nobody", after |-> 0]
    <3>1. NoConsoles = [boot |-> r, early |-> FALSE, list |-> <<>>, seen |-> seen,
                        opened |-> none]
      BY DEF NoConsoles
    <3> HIDE DEF r, seen, none
    <3>2. NoConsoles.early = FALSE /\ NoConsoles.list = <<>> /\ NoConsoles.opened = none
      BY <3>1
    <3>3. NoConsoles = [f \in {"boot", "early", "list", "seen", "opened"} |-> NoConsoles[f]]
      BY <3>1
    <3>4. QED BY <3>2, <3>3 DEF none
  <2>3. <<>> \in Seq(Devices)
    BY EmptySeq
  <2>4. Follows(NoConsoles, 0)
    <3>1. [by |-> "nobody", after |-> 0] \in Openings
      BY DEF Openings
    <3>2. QED BY <2>2, <2>3, <3>1, NothingHeard
  <2>5. QED BY <2>1, <2>2, <2>4 DEF MessagesInv
<1>2. MessagesInv /\ [Next]_vars => MessagesInv'
  <2> SUFFICES ASSUME MessagesInv, [Next]_vars PROVE MessagesInv'
    OBVIOUS
  <2>1. printed \in Nat /\ Follows(con, printed)
    BY DEF MessagesInv
  <2>2. CASE BootPrint
    <3>1. con' = Write(con, printed + 1) /\ printed' = printed + 1 /\ at' = at
      BY <2>2 DEF BootPrint, PrintMessage
    <3>2. Follows(Write(con, printed + 1), printed + 1) /\ Write(con, printed + 1).list = con.list
      BY <2>1, WriteFollows
    <3>3. QED BY <2>1, <3>1, <3>2 DEF MessagesInv
  <2>3. CASE SetupArch
    <3>1. at' = "drivers" /\ con.list = <<>> /\ printed' = printed
      BY <2>3 DEF SetupArch, MessagesInv, EarlyInit, consolesVars
    <3>2. con' = EarlyRegistered(con, printed) \/ con' = con
      BY <2>3 DEF SetupArch, EarlyInit, consolesVars
    <3>3. Follows(EarlyRegistered(con, printed), printed)
      BY <2>1, <3>1, EarlyFollows
    <3>4. QED BY <2>1, <3>1, <3>2, <3>3 DEF MessagesInv
  <2>4. CASE UartSetup \/ FbSetup
    <3>1. PICK d \in Devices : RegisterConsole(d)
      BY <2>4 DEF UartSetup, FbSetup, Devices
    <3>2. at' = "drivers"
      BY <2>4 DEF UartSetup, FbSetup
    <3>3. Follows(Registered(con, d, printed + 1), printed + IF con.early THEN 2 ELSE 1)
      BY <2>1, RegisteredFollows
    <3>4. QED BY <2>1, <3>1, <3>2, <3>3 DEF MessagesInv, RegisterConsole
  <2>5. CASE DriversDone
    <3> DEFINE o == [con.opened EXCEPT !.after = 0]
    <3>1. /\ con' = [NoConsoles EXCEPT !.early = con.early, !.list = con.list, !.opened = o]
          /\ printed' = 0 /\ at' = "modules"
      BY <2>5 DEF DriversDone, BootMessagesOver
    <3>2. /\ con.early \in BOOLEAN /\ con.list \in Seq(Devices)
          /\ con.opened \in Openings
          /\ con.opened.by = "nobody" <=> con.list = <<>> /\ ~con.early
      BY <2>1 DEF Follows, ConsoleStates, Unheard
    <3>5. o \in Openings /\ o.by = con.opened.by
      BY <3>2 DEF Openings
    <3> HIDE DEF o
    <3>3. Follows([NoConsoles EXCEPT !.early = con.early, !.list = con.list, !.opened = o], 0)
      BY <3>2, <3>5, NothingHeard
    <3>4. QED BY <3>1, <3>3 DEF MessagesInv
  <2>6. CASE UNCHANGED consolesVars /\ (at' = at \/ at' # "setup_arch")
    BY <2>1, <2>6 DEF MessagesInv, consolesVars
  <2>7. CASE KeyboardSetup \/ TerminalInit
    <3>1. UNCHANGED consolesVars /\ (at' = at \/ at' # "setup_arch")
      BY <2>7 DEF KeyboardSetup, TerminalInit
    <3>2. QED BY <2>6, <3>1
  <2>8. CASE ShellTask
    <3>1. UNCHANGED consolesVars
      BY <2>8 DEF ShellTask, Start, Poll, ReadUart, ReadKbd, PollDone, EditLine, EnterLine,
                  InputDone, RunText, RunWatchdog, RunPower, BusyWaited, KeepDevices
    <3>2. at' = at \/ at' # "setup_arch"
      BY <2>8 DEF ShellTask, Start, Poll, ReadUart, ReadKbd, PollDone, EditLine, EnterLine,
                  InputDone, RunText, RunWatchdog, RunPower, BusyWaited, Answered
    <3>3. QED BY <2>6, <3>1, <3>2
  <2>9. CASE Interrupts \/ Type \/ Tick \/ HardwareTick
    <3>1. UNCHANGED consolesVars /\ at' = at
      BY <2>9 DEF Interrupts, UartIrq, KeyboardIrq, KernelMessage, Type, Tick, HardwareTick,
                  KeepTask, shellVars
    <3>2. QED BY <2>6, <3>1
  <2>10. CASE UNCHANGED vars
    <3>1. UNCHANGED consolesVars /\ at' = at
      BY <2>10 DEF vars, shellVars
    <3>2. QED BY <2>6, <3>1
  <2>11. QED BY <2>2, <2>3, <2>4, <2>5, <2>7, <2>8, <2>9, <2>10 DEF Next, Boot
<1>3. MessagesInv => MessagesAreKept
  BY FollowsIsKept DEF MessagesInv
<1>4. QED BY <1>1, <1>2, <1>3, PTL DEF Spec

-----------------------------------------------------------------------------
(***************************************************************************)
(* The line that is meant.                                                 *)
(***************************************************************************)
(* A number of numbers has a least one and, below a bound, a greatest. *)
LEMMA LeastNumber ==
  ASSUME NEW T \in SUBSET Nat, T # {}
  PROVE  \E x \in T : \A y \in T : x <= y
<1>1. PICK x \in T : \A y \in T : ~ (<<y, x>> \in OpToRel(<, Nat))
  BY NatLessThanWellFounded, WFMin
<1>2. \A y \in T : ~ (y < x)
  BY <1>1 DEF OpToRel
<1>3. QED BY <1>2

LEMMA GreatestNumber ==
  ASSUME NEW n \in Nat, NEW T \in SUBSET (0 .. n), T # {}
  PROVE  \E x \in T : \A y \in T : y <= x
<1> DEFINE above == {u \in Nat : \A y \in T : y <= u}
<1>1. above # {} /\ above \in SUBSET Nat
  <2>1. n \in above
    OBVIOUS
  <2>2. QED BY <2>1
<1>2. PICK x \in above : \A u \in above : x <= u
  BY <1>1, LeastNumber
<1>3. x \in T
  <2>1. SUFFICES ASSUME x \notin T PROVE FALSE
    OBVIOUS
  <2>2. \A y \in T : y < x
    BY <1>2, <2>1
  <2>3. x \in Nat /\ \A y \in T : y \in Nat
    BY <1>2
  <2>4. x >= 1
    <3>1. PICK y \in T : TRUE
      OBVIOUS
    <3>2. y \in Nat /\ y < x
      BY <2>2, <2>3
    <3>3. QED BY <2>3, <3>2
  <2>5. x - 1 \in above
    BY <2>2, <2>3, <2>4
  <2>6. QED BY <1>2, <2>5
<1>4. QED BY <1>2, <1>3

(* How many of the numbers from i to j are in a set. *)
Count(T, i, j) == Cardinality(T \cap (i .. j))

LEMMA CountSplit ==
  ASSUME NEW T, NEW i \in Int, NEW j \in Int, NEW k \in Int, i <= j + 1, j <= k
  PROVE  /\ Count(T, i, j) \in Nat /\ Count(T, j + 1, k) \in Nat
         /\ Count(T, i, k) = Count(T, i, j) + Count(T, j + 1, k)
<1> DEFINE A == T \cap (i .. j)
           B == T \cap (j + 1 .. k)
<1>1. IsFiniteSet(A) /\ IsFiniteSet(B)
  <2>1. IsFiniteSet(i .. j) /\ IsFiniteSet(j + 1 .. k)
    BY FS_Interval
  <2>2. A \in SUBSET (i .. j) /\ B \in SUBSET (j + 1 .. k)
    OBVIOUS
  <2>3. QED BY <2>1, <2>2, FS_Subset
<1>2. A \cup B = T \cap (i .. k) /\ A \cap B = {}
  OBVIOUS
<1>3. Cardinality(A \cup B) = Cardinality(A) + Cardinality(B) - Cardinality(A \cap B)
  BY <1>1, FS_Union
<1>4. Cardinality(A) \in Nat /\ Cardinality(B) \in Nat /\ Cardinality({}) = 0
  BY <1>1, FS_CardinalityType, FS_EmptySet
<1> DEFINE a == Cardinality(A)
           b == Cardinality(B)
<1>5. Cardinality(A \cup B) = a + b
  <2>1. Cardinality(A \cup B) = a + b - 0 /\ a \in Nat /\ b \in Nat
    BY <1>2, <1>3, <1>4
  <2> HIDE DEF a, b
  <2>2. QED BY <2>1
<1>6. QED BY <1>2, <1>4, <1>5 DEF Count

LEMMA CountOne ==
  ASSUME NEW T, NEW i \in Int
  PROVE  /\ Count(T, i, i) = IF i \in T THEN 1 ELSE 0
         /\ \A j \in Int : j < i => Count(T, i, j) = 0
<1>1. i .. i = {i} /\ \A j \in Int : j < i => i .. j = {}
  OBVIOUS
<1>2. T \cap {i} = IF i \in T THEN {i} ELSE {}
  OBVIOUS
<1>3. QED BY <1>1, <1>2, FS_EmptySet, FS_Singleton DEF Count

LEMMA CountWithin ==
  ASSUME NEW T, NEW U, NEW i \in Int, NEW j \in Int,
         \A k \in i .. j : k \in T <=> k \in U
  PROVE  Count(T, i, j) = Count(U, i, j)
<1>1. T \cap (i .. j) = U \cap (i .. j)
  OBVIOUS
<1>2. QED BY <1>1 DEF Count

(* The bytes that erase, and what Survives says in terms of them. *)
Erasing(bytes) == {k \in DOMAIN bytes : bytes[k] = "BS"}

Balanced(bytes, i, j) == Count(Erasing(bytes), i, j) <= Count(Printable(bytes), i, j)

LEMMA SurvivesIs ==
  ASSUME NEW S, NEW bytes \in Seq(S), NEW i \in 1 .. Len(bytes)
  PROVE  Survives(bytes, i) <=> \A j \in i .. Len(bytes) : Balanced(bytes, i + 1, j)
<1>1. DOMAIN bytes = 1 .. Len(bytes) /\ Len(bytes) \in Nat
  BY LenProperties
<1>2. ASSUME NEW j \in i .. Len(bytes)
      PROVE  {k \in i + 1 .. j : bytes[k] = "BS"} = Erasing(bytes) \cap (i + 1 .. j)
  BY <1>1 DEF Erasing
<1>3. QED BY <1>2 DEF Survives, Balanced, Count

(* Where an erasing byte cannot be balanced, the last printable byte that
   survived is the one it erases: behind it, erasing and printable bytes
   are equally many. *)
LEMMA LastIsOpen ==
  ASSUME NEW S, NEW bytes \in Seq(S), NEW m \in Surviving(bytes),
         \A i \in Surviving(bytes) : i <= m
  PROVE  LET n == Len(bytes)
         IN  /\ Count(Erasing(bytes), m + 1, n) = Count(Printable(bytes), m + 1, n)
             /\ \A i \in Surviving(bytes) \ {m} :
                  Count(Erasing(bytes), i + 1, n) < Count(Printable(bytes), i + 1, n)
<1> DEFINE n == Len(bytes)
           E == Erasing(bytes)
           P == Printable(bytes)
           K == Surviving(bytes)
<1>1. n \in Nat /\ DOMAIN bytes = 1 .. n /\ P \subseteq 1 .. n /\ K \subseteq P
      /\ E \cap P = {}
  BY LenProperties DEF Printable, Surviving, Erasing
<1>2. \A i \in P : i \in K <=> \A j \in i .. n : Count(E, i + 1, j) <= Count(P, i + 1, j)
  BY <1>1, SurvivesIs DEF Surviving, Balanced
<1>3. m \in 1 .. n
  BY <1>1
<1> HIDE DEF n, E, P, K
<1>4. Count(E, m + 1, n) <= Count(P, m + 1, n)
  BY <1>1, <1>2, <1>3 DEF K
<1>5. ASSUME Count(E, m + 1, n) < Count(P, m + 1, n) PROVE FALSE
  <2> DEFINE more == {t \in m + 1 .. n : Count(E, t, n) < Count(P, t, n)}
  <2>1. more \in SUBSET (0 .. n)
    BY <1>3
  <2>2. m + 1 \in more
    <3>1. m + 1 > n => Count(E, m + 1, n) = 0 /\ Count(P, m + 1, n) = 0
      BY <1>1, <1>3, CountOne
    <3>2. QED BY <1>1, <1>3, <1>5, <3>1
  <2>3. PICK t \in more : \A u \in more : u <= t
    BY <1>1, <2>1, <2>2, GreatestNumber
  <2>4. t \in m + 1 .. n /\ Count(E, t, n) < Count(P, t, n)
    BY <2>3
  <2>5. ASSUME NEW j \in t .. n
        PROVE  /\ Count(E, j + 1, n) >= Count(P, j + 1, n)
               /\ Count(E, j + 1, n) \in Nat /\ Count(P, j + 1, n) \in Nat
               /\ Count(E, t, n) = Count(E, t, j) + Count(E, j + 1, n)
               /\ Count(P, t, n) = Count(P, t, j) + Count(P, j + 1, n)
               /\ Count(E, t, j) \in Nat /\ Count(P, t, j) \in Nat
    <3>1. /\ Count(E, j + 1, n) \in Nat /\ Count(P, j + 1, n) \in Nat
          /\ Count(E, t, n) = Count(E, t, j) + Count(E, j + 1, n)
          /\ Count(P, t, n) = Count(P, t, j) + Count(P, j + 1, n)
          /\ Count(E, t, j) \in Nat /\ Count(P, t, j) \in Nat
      <4>1. t \in Int /\ j \in Int /\ n \in Int /\ t <= j + 1 /\ j <= n
        BY <1>1, <1>3, <2>4
      <4>2. QED BY <4>1, CountSplit
    <3>2. CASE j = n
      <4>1. Count(E, j + 1, n) = 0 /\ Count(P, j + 1, n) = 0
        BY <1>1, <3>2, CountOne
      <4>2. QED BY <3>1, <4>1
    <3>3. CASE j # n
      <4>1. j + 1 \in m + 1 .. n /\ j + 1 > t
        BY <1>1, <1>3, <2>4, <3>3
      <4>2. j + 1 \notin more
        BY <2>3, <2>4, <4>1
      <4>3. QED BY <3>1, <4>1, <4>2
    <3>4. QED BY <3>2, <3>3
  <2>6. t \in P
    <3>1. /\ Count(E, t, t) = (IF t \in E THEN 1 ELSE 0)
          /\ Count(P, t, t) = (IF t \in P THEN 1 ELSE 0)
      BY <2>4, CountOne
    <3>2. Count(P, t, t) > Count(E, t, t)
      BY <2>4, <2>5
    <3>3. QED BY <3>1, <3>2
  <2>7. ASSUME NEW j \in t .. n
        PROVE  Count(E, t + 1, j) <= Count(P, t + 1, j)
    <3>1. Count(P, t, j) > Count(E, t, j)
      BY <2>4, <2>5
    <3>2. /\ Count(E, t, j) = Count(E, t, t) + Count(E, t + 1, j)
          /\ Count(P, t, j) = Count(P, t, t) + Count(P, t + 1, j)
          /\ Count(E, t + 1, j) \in Nat /\ Count(P, t + 1, j) \in Nat
      <4>1. t \in Int /\ j \in Int /\ t <= t + 1 /\ t <= j
        BY <1>1, <1>3, <2>4
      <4>2. QED BY <4>1, CountSplit
    <3>3. Count(E, t, t) = 0 /\ Count(P, t, t) = 1
      BY <1>1, <2>4, <2>6, CountOne
    <3>4. QED BY <3>1, <3>2, <3>3
  <2>8. t \in K
    BY <1>2, <2>6, <2>7
  <2>9. QED BY <1>3, <2>4, <2>8 DEF K
<1>6. Count(E, m + 1, n) \in Nat /\ Count(P, m + 1, n) \in Nat
  BY <1>1, <1>3, CountSplit
<1>7. ASSUME NEW i \in K \ {m}
      PROVE  Count(E, i + 1, n) < Count(P, i + 1, n)
  <2>1. i \in 1 .. n /\ i < m /\ m \in P
    BY <1>1, <1>3, <1>7 DEF K
  <2>2. Count(E, i + 1, m - 1) <= Count(P, i + 1, m - 1)
    <3>1. m - 1 \in i .. n
      BY <1>1, <1>3, <2>1
    <3>2. QED BY <1>1, <1>2, <1>7, <3>1
  <2>3. /\ Count(E, i + 1, n) = Count(E, i + 1, m - 1) + Count(E, (m - 1) + 1, n)
        /\ Count(P, i + 1, n) = Count(P, i + 1, m - 1) + Count(P, (m - 1) + 1, n)
        /\ Count(E, i + 1, m - 1) \in Nat /\ Count(P, i + 1, m - 1) \in Nat
    <3>1. i + 1 \in Int /\ m - 1 \in Int /\ n \in Int /\ i + 1 <= (m - 1) + 1 /\ m - 1 <= n
      BY <1>1, <1>3, <2>1
    <3>2. QED BY <3>1, CountSplit
  <2>4. (m - 1) + 1 = m
    BY <1>3
  <2>5. /\ Count(E, m, n) = Count(E, m, m) + Count(E, m + 1, n)
        /\ Count(P, m, n) = Count(P, m, m) + Count(P, m + 1, n)
    BY <1>1, <1>3, CountSplit
  <2>6. Count(E, m, m) = 0 /\ Count(P, m, m) = 1
    BY <1>1, <1>3, <2>1, CountOne
  <2>7. QED BY <1>4, <1>6, <2>2, <2>3, <2>4, <2>5, <2>6
<1>8. QED BY <1>4, <1>5, <1>6, <1>7 DEF n, E, P, K

(* One byte more leaves the counts before it as they are. *)
LEMMA SurvivesAppend ==
  ASSUME NEW S, NEW bytes \in Seq(S), NEW b \in S, b # "NL"
  PROVE  LET n == Len(bytes)
             more == Append(bytes, b)
         IN  /\ b = "ESC" => Surviving(more) = Surviving(bytes)
             /\ b \notin {"ESC", "BS"} => Surviving(more) = Surviving(bytes) \cup {n + 1}
             /\ b = "BS" =>
                  Surviving(more) =
                    {i \in Surviving(bytes) :
                       Count(Erasing(bytes), i + 1, n) < Count(Printable(bytes), i + 1, n)}
<1> DEFINE n == Len(bytes)
           more == Append(bytes, b)
           E == Erasing(bytes)
           P == Printable(bytes)
           E1 == Erasing(more)
           P1 == Printable(more)
<1>1. /\ n \in Nat /\ more \in Seq(S) /\ Len(more) = n + 1
      /\ \A i \in 1 .. n : more[i] = bytes[i]
      /\ more[n + 1] = b
      /\ DOMAIN bytes = 1 .. n /\ DOMAIN more = 1 .. n + 1
  BY AppendProperties, LenProperties
<1>2. /\ P \subseteq 1 .. n /\ P1 \subseteq 1 .. n + 1
      /\ \A k \in 1 .. n : (k \in E1 <=> k \in E) /\ (k \in P1 <=> k \in P)
      /\ n + 1 \in E1 <=> b = "BS"
      /\ n + 1 \in P1 <=> b \notin {"BS", "ESC"}
  BY <1>1 DEF Erasing, Printable
<1>3. \A i \in 1 .. n : i \in Surviving(bytes) <=>
        i \in P /\ \A j \in i .. n : Count(E, i + 1, j) <= Count(P, i + 1, j)
  BY SurvivesIs DEF Surviving, Balanced
<1>4. \A i \in 1 .. n + 1 : i \in Surviving(more) <=>
        i \in P1 /\ \A j \in i .. n + 1 : Count(E1, i + 1, j) <= Count(P1, i + 1, j)
  BY <1>1, SurvivesIs DEF Surviving, Balanced
<1>5. Surviving(bytes) \subseteq 1 .. n /\ Surviving(more) \subseteq 1 .. n + 1
  BY <1>2 DEF Surviving
<1> HIDE DEF n, more, E, P, E1, P1
<1>6. ASSUME NEW i \in 1 .. n, NEW j \in i .. n
      PROVE  /\ Count(E1, i + 1, j) = Count(E, i + 1, j)
             /\ Count(P1, i + 1, j) = Count(P, i + 1, j)
  <2>1. \A k \in i + 1 .. j : k \in 1 .. n
    BY <1>1
  <2>2. i + 1 \in Int /\ j \in Int
    BY <1>1
  <2>3. QED BY <1>2, <2>1, <2>2, CountWithin
<1>7. ASSUME NEW i \in 1 .. n
      PROVE  /\ Count(E1, i + 1, n + 1) = Count(E, i + 1, n) + Count(E1, n + 1, n + 1)
             /\ Count(P1, i + 1, n + 1) = Count(P, i + 1, n) + Count(P1, n + 1, n + 1)
             /\ Count(E, i + 1, n) \in Nat /\ Count(P, i + 1, n) \in Nat
  <2>1. i + 1 \in Int /\ n \in Int /\ n + 1 \in Int /\ i + 1 <= n + 1 /\ n <= n + 1
    BY <1>1
  <2>2. /\ Count(E1, i + 1, n + 1) = Count(E1, i + 1, n) + Count(E1, n + 1, n + 1)
        /\ Count(P1, i + 1, n + 1) = Count(P1, i + 1, n) + Count(P1, n + 1, n + 1)
        /\ Count(E1, i + 1, n) \in Nat /\ Count(P1, i + 1, n) \in Nat
    BY <2>1, CountSplit
  <2>3. n \in i .. n
    BY <1>1
  <2>4. QED BY <1>6, <2>2, <2>3
<1>8. /\ Count(E1, n + 1, n + 1) = (IF b = "BS" THEN 1 ELSE 0)
      /\ Count(P1, n + 1, n + 1) = (IF b \in {"BS", "ESC"} THEN 0 ELSE 1)
  BY <1>1, <1>2, CountOne
<1>9. ASSUME NEW i \in 1 .. n
      PROVE  i \in Surviving(more) <=>
               /\ i \in Surviving(bytes)
               /\ b = "BS" => Count(E, i + 1, n) < Count(P, i + 1, n)
  <2>1. i \in 1 .. n + 1 /\ (i \in P1 <=> i \in P)
    BY <1>1, <1>2
  <2>2. \A j \in i .. n + 1 : j \in i .. n \/ j = n + 1
    BY <1>1
  <2>3. i .. n \subseteq i .. n + 1 /\ n + 1 \in i .. n + 1 /\ n \in i .. n
    BY <1>1
  <2>4. i \in Surviving(more) <=>
          /\ i \in P
          /\ \A j \in i .. n : Count(E, i + 1, j) <= Count(P, i + 1, j)
          /\ Count(E1, i + 1, n + 1) <= Count(P1, i + 1, n + 1)
    BY <1>4, <1>6, <2>1, <2>2, <2>3
  <2> DEFINE e == Count(E, i + 1, n)
             p == Count(P, i + 1, n)
  <2>5. /\ Count(E1, i + 1, n + 1) = e + (IF b = "BS" THEN 1 ELSE 0)
        /\ Count(P1, i + 1, n + 1) = p + (IF b \in {"BS", "ESC"} THEN 0 ELSE 1)
        /\ e \in Nat /\ p \in Nat
    BY <1>7, <1>8
  <2>6. (\A j \in i .. n : Count(E, i + 1, j) <= Count(P, i + 1, j)) => e <= p
    BY <2>3
  <2> HIDE DEF e, p
  <2>7. CASE b = "BS"
    <3>1. Count(E1, i + 1, n + 1) <= Count(P1, i + 1, n + 1) <=> e < p
      BY <2>5, <2>7
    <3>2. QED BY <1>3, <2>4, <2>7, <3>1 DEF e, p
  <2>8. CASE b # "BS"
    <3>1. e <= p => Count(E1, i + 1, n + 1) <= Count(P1, i + 1, n + 1)
      BY <2>5, <2>8
    <3>2. QED BY <1>3, <2>4, <2>6, <2>8, <3>1
  <2>9. QED BY <2>7, <2>8
<1>10. n + 1 \in Surviving(more) <=> b \notin {"BS", "ESC"}
  <2>1. n + 1 \in 1 .. n + 1 /\ \A j \in n + 1 .. n + 1 : j = n + 1
    BY <1>1
  <2>2. Count(E1, (n + 1) + 1, n + 1) = 0 /\ Count(P1, (n + 1) + 1, n + 1) = 0
    <3>1. (n + 1) + 1 \in Int /\ n + 1 \in Int /\ n + 1 < (n + 1) + 1
      BY <1>1
    <3>2. QED BY <3>1, CountOne
  <2>3. QED BY <1>2, <1>4, <2>1, <2>2
<1>11. n + 1 \notin Surviving(bytes) /\ 1 .. n + 1 = (1 .. n) \cup {n + 1}
  BY <1>1, <1>5
<1>12. b = "ESC" => Surviving(more) = Surviving(bytes)
  BY <1>5, <1>9, <1>10, <1>11
<1>13. b \notin {"ESC", "BS"} => Surviving(more) = Surviving(bytes) \cup {n + 1}
  BY <1>5, <1>9, <1>10, <1>11
<1>14. b = "BS" =>
         Surviving(more) = {i \in Surviving(bytes) : Count(E, i + 1, n) < Count(P, i + 1, n)}
  BY <1>5, <1>9, <1>10, <1>11
<1>15. QED BY <1>12, <1>13, <1>14 DEF n, more, E, P

(* The numbers of a set by their rank. *)
LEMMA FiniteNumbers ==
  ASSUME NEW n \in Nat, NEW K \in SUBSET (1 .. n)
  PROVE  /\ IsFiniteSet(K) /\ Cardinality(K) \in Nat
         /\ \A A \in SUBSET K : IsFiniteSet(A) /\ Cardinality(A) \in Nat
                              /\ Cardinality(A) <= Cardinality(K)
                              /\ (Cardinality(A) = Cardinality(K) => A = K)
                              /\ (Cardinality(A) = 0 <=> A = {})
<1>1. IsFiniteSet(1 .. n)
  BY FS_Interval
<1>2. IsFiniteSet(K)
  BY <1>1, FS_Subset
<1>3. ASSUME NEW A \in SUBSET K
      PROVE  /\ IsFiniteSet(A) /\ Cardinality(A) <= Cardinality(K)
             /\ (Cardinality(A) = Cardinality(K) => A = K)
  BY <1>2, FS_Subset
<1>4. \A A \in SUBSET K : Cardinality(A) \in Nat /\ (Cardinality(A) = 0 <=> A = {})
  BY <1>3, FS_CardinalityType, FS_EmptySet
<1>5. QED BY <1>2, <1>3, <1>4, FS_CardinalityType

LEMMA Ranks ==
  ASSUME NEW n \in Nat, NEW K \in SUBSET (1 .. n)
  PROVE  /\ Cardinality(K) \in Nat
         /\ \A i \in K : Rank(K, i) \in 1 .. Cardinality(K)
         /\ \A r \in 1 .. Cardinality(K) : Nth(K, r) \in K /\ Rank(K, Nth(K, r)) = r
<1> DEFINE upto(i) == {j \in K : j <= i}
           c == Cardinality(K)
<1>1. IsFiniteSet(K) /\ c \in Nat
  BY FiniteNumbers
<1>2. \A i \in K : i \in Nat /\ i \in 1 .. n
  OBVIOUS
<1>3. ASSUME NEW i \in K
      PROVE  /\ IsFiniteSet(upto(i)) /\ Rank(K, i) = Cardinality(upto(i))
             /\ Rank(K, i) \in Nat /\ 1 <= Rank(K, i) /\ Rank(K, i) <= c
             /\ i \in upto(i)
  <2>1. upto(i) \in SUBSET K
    OBVIOUS
  <2>2. i \in upto(i)
    BY <1>2
  <2>3. Rank(K, i) = Cardinality(upto(i))
    BY DEF Rank
  <2> HIDE DEF upto
  <2>4. upto(i) # {}
    BY <2>2
  <2>5. \A A \in SUBSET K : /\ IsFiniteSet(A) /\ Cardinality(A) \in Nat
                            /\ Cardinality(A) <= c /\ (Cardinality(A) = 0 <=> A = {})
    BY FiniteNumbers
  <2>6. /\ IsFiniteSet(upto(i)) /\ Cardinality(upto(i)) \in Nat
        /\ Cardinality(upto(i)) <= c /\ Cardinality(upto(i)) # 0
    BY <2>1, <2>4, <2>5
  <2> HIDE DEF c
  <2>7. QED BY <2>2, <2>3, <2>6
<1>4. ASSUME NEW r \in 1 .. c
      PROVE  \E i \in K : Rank(K, i) = r
  <2> DEFINE T == {i \in K : Rank(K, i) >= r}
  <2>1. r \in Nat /\ 1 <= r /\ r <= c
    BY <1>1
  <2> HIDE DEF c
  <2>2. T # {}
    <3>1. c # 0
      BY <2>1
    <3>2. K # {}
      BY <3>1, FS_EmptySet DEF c
    <3>3. K \in SUBSET (0 .. n)
      BY <1>2
    <3>4. PICK g \in K : \A j \in K : j <= g
      BY <3>2, <3>3, GreatestNumber
    <3>5. upto(g) = K
      BY <3>4
    <3> HIDE DEF upto
    <3>6. Rank(K, g) = c
      BY <1>3, <3>5 DEF c
    <3>7. g \in T
      BY <1>1, <2>1, <3>6
    <3>8. QED BY <3>7
  <2>3. T \in SUBSET Nat
    BY <1>2
  <2> HIDE DEF upto
  <2>4. PICK i \in T : \A t \in T : i <= t
    BY <2>2, <2>3, LeastNumber
  <2>5. i \in K /\ Rank(K, i) >= r /\ Rank(K, i) \in Nat /\ i \in Nat
    BY <1>2, <1>3, <2>4
  <2>6. ASSUME Rank(K, i) > r PROVE FALSE
    <3> DEFINE below == upto(i) \ {i}
    <3>1. IsFiniteSet(below) /\ Cardinality(below) = Cardinality(upto(i)) - 1
      BY <1>3, <2>5, FS_RemoveElement
    <3>2. Cardinality(below) = Rank(K, i) - 1 /\ Rank(K, i) - 1 >= r /\ Rank(K, i) - 1 # 0
      BY <1>3, <2>1, <2>5, <2>6, <3>1
    <3>3. below # {}
      BY <3>2, FS_EmptySet
    <3>4. below = {j \in K : j < i}
      <4>1. \A j \in K : j < i <=> j <= i /\ j # i
        BY <1>2, <2>5
      <4>2. QED BY <4>1 DEF upto
    <3> HIDE DEF below
    <3>5. below \in SUBSET (0 .. n)
      <4>1. \A j \in K : j \in 0 .. n
        BY <1>2
      <4>2. QED BY <3>4, <4>1
    <3>6. PICK p \in below : \A j \in below : j <= p
      BY <3>3, <3>5, GreatestNumber
    <3>7. p \in K /\ p < i /\ p \in Nat
      BY <1>2, <3>4, <3>6
    <3>8. upto(p) = below
      <4>1. ASSUME NEW j \in K PROVE j <= p <=> j < i
        <5>1. j \in Nat /\ p \in Nat /\ i \in Nat /\ p < i
          BY <1>2, <2>5, <3>7
        <5>2. j < i => j <= p
          BY <3>4, <3>6
        <5>3. QED BY <5>1, <5>2
      <4>2. QED BY <3>4, <4>1 DEF upto
    <3>9. Rank(K, p) = Rank(K, i) - 1
      BY <1>3, <3>2, <3>7, <3>8
    <3>10. p \in T
      BY <3>2, <3>7, <3>9
    <3>11. i <= p
      BY <2>4, <3>10
    <3>12. QED BY <2>5, <3>7, <3>11
  <2>7. Rank(K, i) = r
    BY <2>1, <2>5, <2>6
  <2>8. QED BY <2>5, <2>7
<1>5. ASSUME NEW r \in 1 .. c
      PROVE  Nth(K, r) \in K /\ Rank(K, Nth(K, r)) = r
  BY <1>4 DEF Nth
<1>6. \A i \in K : Rank(K, i) \in 1 .. c
  <2> HIDE DEF c, upto
  <2>1. QED BY <1>1, <1>3
<1>7. QED BY <1>1, <1>5, <1>6

(* Different numbers of a set have different ranks. *)
LEMMA RanksDiffer ==
  ASSUME NEW n \in Nat, NEW K \in SUBSET (1 .. n), NEW i \in K, NEW j \in K,
         Rank(K, i) = Rank(K, j)
  PROVE  i = j
<1>1. ASSUME NEW p \in K, NEW q \in K, Rank(K, p) = Rank(K, q), p < q PROVE FALSE
  <2> DEFINE A == {k \in K : k <= p}
             B == {k \in K : k <= q}
  <2>1. \A k \in K : k \in 1 .. n /\ k \in Int
    OBVIOUS
  <2>2. A \in SUBSET B /\ B \in SUBSET (1 .. n)
    <3>1. \A k \in K : k <= p => k <= q
      BY <1>1, <2>1
    <3>2. QED BY <2>1, <3>1
  <2>3. q \in B /\ q \notin A
    BY <1>1, <2>1
  <2>4. Cardinality(A) = Cardinality(B)
    BY <1>1 DEF Rank
  <2> HIDE DEF A, B
  <2>5. A = B
    BY <2>2, <2>4, FiniteNumbers
  <2>6. QED BY <2>3, <2>5
<1>2. i \in Int /\ j \in Int
  OBVIOUS
<1>3. ~(i < j) /\ ~(j < i)
  BY <1>1
<1>4. QED BY <1>2, <1>3

(* A number that is greater than all of a set has the last rank. *)
LEMMA RanksMore ==
  ASSUME NEW n \in Nat, NEW K \in SUBSET (1 .. n), NEW m \in 1 .. n, \A i \in K : i < m
  PROVE  /\ Cardinality(K \cup {m}) = Cardinality(K) + 1 /\ Cardinality(K) \in Nat
         /\ \A r \in 1 .. Cardinality(K) :
              Nth(K \cup {m}, r) = Nth(K, r) /\ Nth(K, r) \in K
         /\ Nth(K \cup {m}, Cardinality(K) + 1) = m
<1> DEFINE L == K \cup {m}
           c == Cardinality(K)
<1>1. c \in Nat /\ \A i \in K : Rank(K, i) \in 1 .. c
  BY Ranks
<1>2. m \in Nat /\ m \notin K /\ \A i \in K : i \in Nat
  <2>1. m \in Nat /\ \A i \in K : i \in Nat
    OBVIOUS
  <2>2. m \in K => m < m
    OBVIOUS
  <2>3. QED BY <2>1, <2>2
<1>3. Cardinality(L) = c + 1
  <2>1. IsFiniteSet(K)
    BY FiniteNumbers
  <2>2. QED BY <1>2, <2>1, FS_AddElement
<1>4. \A i \in K : Rank(L, i) = Rank(K, i)
  <2>1. ASSUME NEW i \in K
        PROVE  {j \in L : j <= i} = {j \in K : j <= i}
    <3>1. i < m /\ i \in Nat
      BY <1>2
    <3>2. ~(m <= i)
      BY <1>2, <3>1
    <3>3. QED BY <3>2
  <2>2. QED BY <2>1 DEF Rank
<1>5. Rank(L, m) = c + 1
  <2>1. \A j \in L : j <= m
    BY <1>2
  <2>2. {j \in L : j <= m} = L
    BY <2>1
  <2>3. QED BY <1>3, <2>2 DEF Rank
<1>6. L \in SUBSET (1 .. n) /\ m \in L /\ \A i \in L : i \in K \/ i = m
  OBVIOUS
<1> HIDE DEF L
<1>7. \A r \in 1 .. Cardinality(L) : Nth(L, r) \in L /\ Rank(L, Nth(L, r)) = r
  BY <1>6, Ranks
<1>8. \A r \in 1 .. c : Nth(K, r) \in K /\ Rank(K, Nth(K, r)) = r
  BY Ranks
<1> HIDE DEF c
<1>9. Nth(L, c + 1) = m
  <2>1. c + 1 \in 1 .. Cardinality(L)
    BY <1>1, <1>3
  <2>2. Nth(L, c + 1) \in L /\ Rank(L, Nth(L, c + 1)) = Rank(L, m)
    BY <1>5, <1>7, <2>1
  <2>3. QED BY <1>6, <2>2, RanksDiffer
<1>10. ASSUME NEW r \in 1 .. c
       PROVE  Nth(L, r) = Nth(K, r) /\ Nth(K, r) \in K
  <2>1. r \in 1 .. Cardinality(L)
    BY <1>1, <1>3
  <2>2. Nth(L, r) \in L /\ Rank(L, Nth(L, r)) = r
    BY <1>7, <2>1
  <2>3. Nth(K, r) \in K /\ Rank(K, Nth(K, r)) = r
    BY <1>8
  <2>4. Nth(K, r) \in L /\ Rank(L, Nth(K, r)) = r
    BY <1>4, <2>3 DEF L
  <2>5. Nth(L, r) = Nth(K, r)
    BY <1>6, <2>2, <2>4, RanksDiffer
  <2>6. QED BY <2>3, <2>5
<1>11. QED BY <1>1, <1>3, <1>9, <1>10 DEF L, c

(* What is at the places of a set. *)
Picked(K, bytes) == [r \in 1 .. Cardinality(K) |-> bytes[Nth(K, r)]]

Places(K, n, f, S) == n \in Nat /\ K \in SUBSET (1 .. n) /\ \A i \in K : f[i] \in S
Agree(K, f, g) == \A i \in K : g[i] = f[i]
Exceeds(L, K, m) == L = K \cup {m} /\ \A i \in K : i < m

LEMMA PickedIs ==
  ASSUME NEW S, NEW n, NEW K, NEW f, NEW g, Places(K, n, f, S), Agree(K, f, g)
  PROVE  /\ Picked(K, f) \in Seq(S) /\ Len(Picked(K, f)) = Cardinality(K)
         /\ Picked(K, g) = Picked(K, f)
         /\ Picked({}, f) = <<>>
<1> DEFINE c == Cardinality(K)
<1>1. c \in Nat /\ \A r \in 1 .. c : Nth(K, r) \in K
  BY Ranks DEF Places
<1> HIDE DEF c
<1>2. [r \in 1 .. c |-> f[Nth(K, r)]] \in [1 .. c -> S]
  BY <1>1 DEF Places
<1>3. Picked(K, f) \in Seq(S) /\ Len(Picked(K, f)) = c
  BY <1>1, <1>2 DEF Picked, c
<1>4. Picked(K, g) = Picked(K, f)
  BY <1>1 DEF Picked, Agree, c
<1>5. Picked({}, f) = <<>>
  <2>1. Cardinality({}) = 0 /\ 1 .. 0 = {}
    BY FS_EmptySet
  <2>2. QED BY <2>1 DEF Picked
<1>6. QED BY <1>3, <1>4, <1>5 DEF c

LEMMA PickedMore ==
  ASSUME NEW S, NEW n, NEW K, NEW m, NEW L, NEW f, Places(L, n, f, S), Exceeds(L, K, m)
  PROVE  Picked(L, f) = Append(Picked(K, f), f[m])
<1> DEFINE c == Cardinality(K)
           s == Picked(K, f)
           t == Picked(L, f)
           a == Append(s, f[m])
<1>1. Cardinality(L) = c + 1 /\ c \in Nat /\ Nth(L, c + 1) = m
      /\ \A r \in 1 .. c : Nth(L, r) = Nth(K, r) /\ Nth(K, r) \in K
  <2>1. n \in Nat /\ K \in SUBSET (1 .. n) /\ m \in 1 .. n
    BY DEF Places, Exceeds
  <2>2. L = K \cup {m} /\ \A i \in K : i < m
    BY DEF Exceeds
  <2>3. /\ Cardinality(K \cup {m}) = Cardinality(K) + 1 /\ Cardinality(K) \in Nat
        /\ \A r \in 1 .. Cardinality(K) :
             Nth(K \cup {m}, r) = Nth(K, r) /\ Nth(K, r) \in K
        /\ Nth(K \cup {m}, Cardinality(K) + 1) = m
    BY <2>1, <2>2, RanksMore
  <2>4. QED BY <2>2, <2>3
<1>2. Places(L, n, f, S) /\ Places(K, n, f, S) /\ Agree(L, f, f) /\ Agree(K, f, f)
      /\ f[m] \in S
  BY DEF Places, Agree, Exceeds
<1> HIDE DEF c
<1>3. s \in Seq(S) /\ Len(s) = c
  BY <1>2, PickedIs DEF c
<1>4. t \in Seq(S) /\ Len(t) = c + 1
  BY <1>1, <1>2, PickedIs
<1>5. /\ \A r \in 1 .. c : s[r] = f[Nth(K, r)]
      /\ \A r \in 1 .. c + 1 : t[r] = f[Nth(L, r)]
  BY <1>1 DEF Picked, c
<1> HIDE DEF s, t
<1>6. /\ a \in Seq(S) /\ Len(a) = c + 1
      /\ \A i \in 1 .. c : a[i] = s[i]
      /\ a[c + 1] = f[m]
  BY <1>2, <1>3, AppendProperties
<1>7. ASSUME NEW i \in 1 .. c + 1 PROVE t[i] = a[i]
  <2>1. i \in 1 .. c \/ i = c + 1
    BY <1>1
  <2>2. QED BY <1>1, <1>5, <1>6, <2>1
<1> HIDE DEF a
<1>8. t = a
  BY <1>4, <1>6, <1>7, SeqEqual
<1>9. QED BY <1>8 DEF a, s, t

(* What is before the last of a sequence. *)
LEMMA FrontAppend ==
  ASSUME NEW S, NEW s \in Seq(S), NEW x \in S
  PROVE  Append(s, x) # <<>> /\ Front(Append(s, x)) = s
<1> DEFINE a == Append(s, x)
           n == Len(s)
           f == SubSeq(a, 1, n)
<1>1. n \in Nat /\ a \in Seq(S) /\ Len(a) = n + 1 /\ \A i \in 1 .. n : a[i] = s[i]
  BY AppendProperties, LenProperties
<1>2. \A i \in 1 .. n : a[i] \in S
  BY <1>1, ElementOfSeq
<1> HIDE DEF a, n
<1>3. Front(a) = f
  <2>1. Len(a) - 1 = n
    BY <1>1
  <2>2. QED BY <2>1 DEF Front
<1> HIDE DEF f
<1>4. f \in Seq(S) /\ Len(f) = n /\ \A i \in 1 .. n : f[i] = a[i]
  <2>1. 1 \in Int /\ n \in Int
    BY <1>1
  <2>2. /\ f \in Seq(S) /\ Len(f) = (IF 1 <= n THEN n - 1 + 1 ELSE 0)
        /\ \A i \in 1 .. (n - 1 + 1) : f[i] = a[1 + i - 1]
    BY <1>2, <2>1, SubSeqProperties DEF f
  <2>3. (IF 1 <= n THEN n - 1 + 1 ELSE 0) = n /\ n - 1 + 1 = n
    BY <1>1
  <2>4. \A i \in 1 .. n : 1 + i - 1 = i
    OBVIOUS
  <2>5. QED BY <2>2, <2>3, <2>4
<1>5. f = s
  BY <1>1, <1>4, SeqEqual DEF n
<1>6. a # <<>>
  BY <1>1, EmptySeq
<1>7. QED BY <1>3, <1>5, <1>6 DEF a

(* What the line means after one byte more. *)
LEMMA MeantNothing == Meant(<<>>) = <<>>
<1>1. Surviving(<<>>) = {}
  BY DEF Surviving, Printable
<1>2. Meant(<<>>) = Picked({}, <<>>)
  BY <1>1 DEF Meant, Picked
<1>3. Places({}, 0, <<>>, {}) /\ Agree({}, <<>>, <<>>)
  BY DEF Places, Agree
<1>4. Picked({}, <<>>) = <<>>
  BY <1>3, PickedIs
<1>5. QED BY <1>2, <1>4

LEMMA MeantAppend ==
  ASSUME NEW S, NEW bytes \in Seq(S), NEW b \in S, b # "NL"
  PROVE  LET more == Append(bytes, b)
             meant == Meant(bytes)
         IN  /\ meant \in Seq(S)
             /\ b = "ESC" => Meant(more) = meant
             /\ b = "BS" => Meant(more) = IF meant = <<>> THEN meant ELSE Front(meant)
             /\ b \notin {"ESC", "BS"} => Meant(more) = Append(meant, b)
<1> DEFINE n == Len(bytes)
           more == Append(bytes, b)
           meant == Meant(bytes)
           K == Surviving(bytes)
           K1 == Surviving(more)
<1>1. /\ n \in Nat /\ DOMAIN bytes = 1 .. n
      /\ \A i \in 1 .. n : bytes[i] \in S
      /\ \A i \in 1 .. n : more[i] = bytes[i]
      /\ more[n + 1] = b
  BY AppendProperties, LenProperties, ElementOfSeq
<1>2. meant = Picked(K, bytes) /\ Meant(more) = Picked(K1, more)
  BY DEF Meant, Picked
<1>3. K \in SUBSET (1 .. n)
  BY <1>1 DEF Surviving, Printable
<1>4. /\ b = "ESC" => K1 = K
      /\ b \notin {"ESC", "BS"} => K1 = K \cup {n + 1}
      /\ b = "BS" =>
           K1 = {i \in K : Count(Erasing(bytes), i + 1, n) < Count(Printable(bytes), i + 1, n)}
  BY SurvivesAppend
<1>5. \A m \in K : (\A i \in K : i <= m) =>
         /\ Count(Erasing(bytes), m + 1, n) = Count(Printable(bytes), m + 1, n)
         /\ \A i \in K \ {m} :
              Count(Erasing(bytes), i + 1, n) < Count(Printable(bytes), i + 1, n)
  BY LastIsOpen
<1>6. \A i \in 1 .. n : Count(Erasing(bytes), i + 1, n) \in Nat
  <2>1. ASSUME NEW i \in 1 .. n PROVE Count(Erasing(bytes), i + 1, n) \in Nat
    <3>1. i + 1 \in Int /\ n \in Int /\ i + 1 <= n + 1 /\ n <= n
      BY <1>1
    <3>2. QED BY <3>1, CountSplit
  <2>2. QED BY <2>1
<1> HIDE DEF n, more, K, K1, meant
<1>7. /\ meant \in Seq(S) /\ Len(meant) = Cardinality(K)
      /\ Picked(K, more) = meant /\ Picked({}, bytes) = <<>>
  <2>1. Places(K, n, bytes, S) /\ Agree(K, bytes, more)
    BY <1>1, <1>3 DEF Places, Agree
  <2>2. QED BY <1>2, <2>1, PickedIs
<1>8. b = "ESC" => Meant(more) = meant
  BY <1>2, <1>4, <1>7
<1>9. ASSUME b \notin {"ESC", "BS"} PROVE Meant(more) = Append(meant, b)
  <2> DEFINE L == K \cup {n + 1}
  <2>1. Exceeds(L, K, n + 1)
    BY <1>1, <1>3 DEF Exceeds
  <2>2. Places(L, n + 1, more, S)
    <3>1. n + 1 \in Nat /\ 1 .. n \subseteq 1 .. n + 1 /\ n + 1 \in 1 .. n + 1
      BY <1>1
    <3>2. QED BY <1>1, <1>3, <3>1 DEF Places
  <2>3. K1 = L
    BY <1>4, <1>9
  <2> HIDE DEF L
  <2>4. Picked(L, more) = Append(Picked(K, more), more[n + 1])
    BY <2>1, <2>2, PickedMore
  <2>5. QED BY <1>1, <1>2, <1>7, <2>3, <2>4
<1>10. ASSUME b = "BS"
       PROVE  Meant(more) = IF meant = <<>> THEN meant ELSE Front(meant)
  <2>1. CASE K = {}
    <3>1. K1 = {}
      BY <1>4, <1>10, <2>1
    <3>2. meant = <<>> /\ Meant(more) = meant
      BY <1>2, <1>7, <2>1, <3>1
    <3>3. QED BY <3>2
  <2>2. CASE K # {}
    <3>1. K \in SUBSET (0 .. n)
      BY <1>1, <1>3
    <3>2. PICK m \in K : \A i \in K : i <= m
      BY <1>1, <2>2, <3>1, GreatestNumber
    <3>3. K1 = K \ {m}
      <4>1. /\ Count(Erasing(bytes), m + 1, n) = Count(Printable(bytes), m + 1, n)
            /\ \A i \in K \ {m} :
                 Count(Erasing(bytes), i + 1, n) < Count(Printable(bytes), i + 1, n)
        BY <1>5, <3>2
      <4>2. Count(Erasing(bytes), m + 1, n) \in Nat
        BY <1>3, <1>6, <3>2
      <4>3. ~(Count(Erasing(bytes), m + 1, n) < Count(Printable(bytes), m + 1, n))
        BY <4>1, <4>2
      <4>4. QED BY <1>4, <1>10, <4>1, <4>3
    <3>4. K1 \in SUBSET (1 .. n) /\ m \in 1 .. n /\ Exceeds(K, K1, m)
      <4>1. m \in 1 .. n /\ \A i \in K : i \in 1 .. n /\ i <= m
        BY <1>3, <3>2
      <4>2. \A i \in K \ {m} : i < m
        BY <4>1
      <4>3. QED BY <1>3, <3>2, <3>3, <4>1, <4>2 DEF Exceeds
    <3>5. Places(K, n, bytes, S) /\ bytes[m] \in S
      BY <1>1, <1>3, <3>4 DEF Places
    <3>6. meant = Append(Picked(K1, bytes), bytes[m])
      <4>1. Picked(K, bytes) = Append(Picked(K1, bytes), bytes[m])
        BY <3>4, <3>5, PickedMore
      <4>2. QED BY <1>2, <3>4, <4>1
    <3>7. Picked(K1, bytes) \in Seq(S) /\ Picked(K1, more) = Picked(K1, bytes)
      <4>1. Places(K1, n, bytes, S) /\ Agree(K1, bytes, more)
        BY <1>1, <3>4 DEF Places, Agree
      <4>2. QED BY <4>1, PickedIs
    <3> DEFINE s == Picked(K1, bytes)
    <3>8. Meant(more) = s
      BY <1>2, <3>7
    <3> HIDE DEF s
    <3>9. meant = Append(s, bytes[m]) /\ s \in Seq(S) /\ bytes[m] \in S
      BY <3>5, <3>6, <3>7 DEF s
    <3>10. meant # <<>> /\ Front(meant) = s
      BY <3>9, FrontAppend
    <3>11. QED BY <3>8, <3>10
  <2>3. QED BY <2>1, <2>2
<1>11. QED BY <1>7, <1>8, <1>9, <1>10 DEF n, more, meant

-----------------------------------------------------------------------------
(***************************************************************************)
(* Folds: what a sequence is folded to, one item after the other.  The     *)
(* step of a fold is a function here, for items at places 1 .. n.          *)
(***************************************************************************)
LEMMA Climb ==
  ASSUME NEW n \in Nat, NEW G, 0 \in G, \A i \in 1 .. n : i - 1 \in G => i \in G
  PROVE  \A i \in 0 .. n : i \in G
<1> DEFINE bad == {i \in 0 .. n : i \notin G}
<1>1. SUFFICES ASSUME bad # {} PROVE FALSE
  OBVIOUS
<1>2. bad \in SUBSET Nat
  OBVIOUS
<1>3. PICK k \in bad : \A i \in bad : k <= i
  BY <1>1, <1>2, LeastNumber
<1>4. k \in 0 .. n /\ k \notin G
  BY <1>3
<1>5. k \in 1 .. n /\ k - 1 \in 0 .. n /\ ~(k <= k - 1)
  <2>1. k # 0
    BY <1>4
  <2>2. QED BY <1>4, <2>1
<1>6. k - 1 \in G
  BY <1>3, <1>5
<1>7. QED BY <1>4, <1>5, <1>6

LEMMA GreatestOf ==
  ASSUME NEW n \in Nat, NEW s \in SUBSET (1 .. n)
  PROVE  /\ s # {} => Max(s) \in s
         /\ \A k \in s : (\A y \in s : y <= k) => Max(s) = k
<1>1. s \in SUBSET (0 .. n) /\ \A k \in s : k \in Nat
  OBVIOUS
<1>2. s # {} => Max(s) \in s /\ \A y \in s : Max(s) >= y
  <2>1. ASSUME s # {} PROVE \E x \in s : \A y \in s : x >= y
    <3>1. PICK x \in s : \A y \in s : y <= x
      BY <1>1, <2>1, GreatestNumber
    <3>2. \A y \in s : x >= y
      BY <1>1, <3>1
    <3>3. QED BY <3>2
  <2>2. QED BY <2>1 DEF Max
<1>3. ASSUME NEW k \in s, \A y \in s : y <= k PROVE Max(s) = k
  <2>1. Max(s) \in s /\ Max(s) >= k /\ Max(s) <= k
    BY <1>2, <1>3
  <2>2. Max(s) \in Nat /\ k \in Nat
    BY <1>1, <2>1
  <2> HIDE DEF Max
  <2>3. QED BY <2>1, <2>2
<1>4. QED BY <1>2, <1>3

Iterates(f, k, base, step) ==
  \A s \in SUBSET (1 .. k) :
    f[s] = IF s = {} THEN base ELSE step[<<f[s \ {Max(s)}], Max(s)>>]

LEMMA FoldExists ==
  ASSUME NEW A, NEW n \in Nat, NEW base \in A, NEW step \in [A \X (1 .. n) -> A]
  PROVE  \E f \in [SUBSET (1 .. n) -> A] : Iterates(f, n, base, step)
<1> DEFINE Good(k) == \E f \in [SUBSET (1 .. k) -> A] : Iterates(f, k, base, step)
<1>1. Good(0)
  <2> DEFINE f == [s \in SUBSET (1 .. 0) |-> base]
  <2>1. \A s \in SUBSET (1 .. 0) : s = {}
    OBVIOUS
  <2>2. f \in [SUBSET (1 .. 0) -> A] /\ Iterates(f, 0, base, step)
    BY <2>1 DEF Iterates
  <2>3. QED BY <2>2
<1>2. ASSUME NEW k \in 1 .. n, Good(k - 1) PROVE Good(k)
  <2>1. PICK f \in [SUBSET (1 .. k - 1) -> A] : Iterates(f, k - 1, base, step)
    BY <1>2
  <2> DEFINE g == [s \in SUBSET (1 .. k) |->
                     IF k \in s THEN step[<<f[s \ {k}], k>>] ELSE f[s]]
  <2>2. k \in Nat /\ k - 1 \in Nat
    OBVIOUS
  <2>3. \A s \in SUBSET (1 .. k) : s \ {k} \in SUBSET (1 .. k - 1)
    <3>1. \A i \in 1 .. k : i # k => i \in 1 .. k - 1
      OBVIOUS
    <3>2. QED BY <3>1
  <2>4. \A s \in SUBSET (1 .. k) : k \notin s => s \in SUBSET (1 .. k - 1) /\ s \ {k} = s
    BY <2>3
  <2>5. \A s \in SUBSET (1 .. k - 1) : s \in SUBSET (1 .. k) /\ k \notin s
    <3>1. \A i \in 1 .. k - 1 : i \in 1 .. k /\ i # k
      OBVIOUS
    <3>2. QED BY <3>1
  <2>6. g \in [SUBSET (1 .. k) -> A]
    BY <2>3, <2>4
  <2>7. \A s \in SUBSET (1 .. k - 1) : g[s] = f[s]
    BY <2>5
  <2>8. \A s \in SUBSET (1 .. k) : k \in s => g[s] = step[<<f[s \ {k}], k>>]
    OBVIOUS
  <2> HIDE DEF g
  <2>9. ASSUME NEW s \in SUBSET (1 .. k)
        PROVE  g[s] = IF s = {} THEN base ELSE step[<<g[s \ {Max(s)}], Max(s)>>]
    <3>1. CASE k \in s
      <4>1. \A y \in s : y <= k
        OBVIOUS
      <4>2. Max(s) = k
        BY <2>2, <3>1, <4>1, GreatestOf
      <4>3. g[s] = step[<<g[s \ {k}], k>>]
        BY <2>3, <2>7, <2>8, <3>1
      <4>4. QED BY <3>1, <4>2, <4>3
    <3>2. CASE k \notin s
      <4>1. s \in SUBSET (1 .. k - 1)
        BY <2>4, <3>2
      <4>2. f[s] = IF s = {} THEN base ELSE step[<<f[s \ {Max(s)}], Max(s)>>]
        BY <2>1, <4>1 DEF Iterates
      <4>3. s \ {Max(s)} \in SUBSET (1 .. k - 1)
        BY <4>1
      <4>4. QED BY <2>7, <4>1, <4>2, <4>3
    <3>3. QED BY <3>1, <3>2
  <2>10. Iterates(g, k, base, step)
    BY <2>9 DEF Iterates
  <2>11. QED BY <2>6, <2>10
<1>3. n \in 0 .. n
  OBVIOUS
<1> HIDE DEF Good
<1>4. \A k \in 0 .. n : k \in {i \in 0 .. n : Good(i)}
  <2> DEFINE G == {i \in 0 .. n : Good(i)}
  <2>1. 0 \in G
    BY <1>1
  <2>2. \A k \in 1 .. n : k - 1 \in G => k \in G
    BY <1>2
  <2> HIDE DEF G
  <2>3. \A k \in 0 .. n : k \in G
    BY <2>1, <2>2, Climb
  <2>4. QED BY <2>3 DEF G
<1>5. Good(n)
  BY <1>3, <1>4
<1>6. QED BY <1>5 DEF Good

(* The places up to i are those up to i - 1 and the greatest, i. *)
LEMMA UpToGreatest ==
  ASSUME NEW n \in Nat, NEW i \in 1 .. n
  PROVE  /\ 1 .. i \in SUBSET (1 .. n) /\ 1 .. i # {}
         /\ Max(1 .. i) = i /\ (1 .. i) \ {i} = 1 .. (i - 1)
<1>1. 1 .. i \in SUBSET (1 .. n) /\ i \in 1 .. i /\ \A y \in 1 .. i : y <= i
  OBVIOUS
<1>2. Max(1 .. i) = i
  BY <1>1, GreatestOf
<1>3. (1 .. i) \ {i} = 1 .. (i - 1)
  <2>1. \A y : y \in (1 .. i) \ {i} <=> y \in 1 .. (i - 1)
    OBVIOUS
  <2>2. QED BY <2>1
<1>4. QED BY <1>1, <1>2, <1>3

(* push for a sequence of items. *)
LEMMA PushTyped ==
  ASSUME NEW S, NEW n \in Nat \ {0}, NEW r \in Rings(n, S), NEW x \in S
  PROVE  PushItem(r, x) \in Rings(n, S)
<1> DEFINE k == r.index
           turn == (k + 1) % n
           t == PushItem(r, x)
<1>1. /\ Capacity(r) = n
      /\ r.buffer \in [0 .. n - 1 -> S] /\ k \in 0 .. n - 1 /\ r.full \in BOOLEAN
  BY Parts
<1>2. turn \in 0 .. n - 1
  BY <1>1
<1>3. t = [buffer |-> [r.buffer EXCEPT ![k] = x], index |-> turn, full |-> r.full \/ turn = 0]
  BY <1>1 DEF PushItem
<1> HIDE DEF turn, t
<1>4. t \in Rings(n, S)
  BY <1>1, <1>2, <1>3 DEF Rings
<1>5. QED BY <1>4 DEF t

LEMMA PushAllIs ==
  ASSUME NEW S, NEW n \in Nat \ {0}, NEW r \in Rings(n, S), NEW items \in Seq(S)
  PROVE  \E f : /\ f[{}] = r
                /\ PushAll(r, items) = f[1 .. Len(items)]
                /\ \A i \in 1 .. Len(items) : f[1 .. i] = PushItem(f[1 .. (i - 1)], items[i])
<1> DEFINE m == Len(items)
           A == Rings(n, S)
           step == [p \in A \X (1 .. m) |-> PushItem(p[1], items[p[2]])]
           iter == CHOOSE f : f = [s \in SUBSET (DOMAIN items) |->
                      IF s = {} THEN r ELSE PushItem(f[s \ {Max(s)}], items[Max(s)])]
<1>1. m \in Nat /\ DOMAIN items = 1 .. m /\ \A i \in 1 .. m : items[i] \in S
  BY LenProperties, ElementOfSeq
<1>2. PushAll(r, items) = iter[DOMAIN items]
  BY DEF PushAll, FoldLeft, MapThenFoldSet
<1>3. step \in [A \X (1 .. m) -> A]
        /\ \A a \in A : \A i \in 1 .. m : step[<<a, i>>] = PushItem(a, items[i])
  <2>1. \A p \in A \X (1 .. m) : p[1] \in A /\ items[p[2]] \in S
    BY <1>1
  <2>2. \A p \in A \X (1 .. m) : PushItem(p[1], items[p[2]]) \in A
    BY <2>1, PushTyped
  <2>3. QED BY <2>2
<1> HIDE DEF m, A, step
<1>4. PICK f \in [SUBSET (1 .. m) -> A] : Iterates(f, m, r, step)
  <2>1. r \in A
    BY DEF A
  <2>2. QED BY <1>1, <1>3, <2>1, FoldExists
<1>5. \A s \in SUBSET (1 .. m) :
        f[s] = IF s = {} THEN r ELSE PushItem(f[s \ {Max(s)}], items[Max(s)])
  <2>1. ASSUME NEW s \in SUBSET (1 .. m), s # {}
        PROVE  f[s] = PushItem(f[s \ {Max(s)}], items[Max(s)])
    <3>1. Max(s) \in 1 .. m
      BY <1>1, <2>1, GreatestOf
    <3>2. f[s \ {Max(s)}] \in A
      OBVIOUS
    <3>3. f[s] = step[<<f[s \ {Max(s)}], Max(s)>>]
      BY <1>4, <2>1 DEF Iterates
    <3>4. QED BY <1>3, <3>1, <3>2, <3>3
  <2>2. ASSUME NEW s \in SUBSET (1 .. m), s = {} PROVE f[s] = r
    BY <1>4, <2>2 DEF Iterates
  <2>3. QED BY <2>1, <2>2
<1>6. f = [s \in SUBSET (DOMAIN items) |->
            IF s = {} THEN r ELSE PushItem(f[s \ {Max(s)}], items[Max(s)])]
  BY <1>1, <1>5
<1>7. iter = [s \in SUBSET (DOMAIN items) |->
               IF s = {} THEN r ELSE PushItem(iter[s \ {Max(s)}], items[Max(s)])]
  BY <1>6
<1> HIDE DEF iter
<1>8. iter[{}] = r
  BY <1>7
<1>9. ASSUME NEW i \in 1 .. m
      PROVE  iter[1 .. i] = PushItem(iter[1 .. (i - 1)], items[i])
  <2>1. /\ 1 .. i \in SUBSET (DOMAIN items) /\ 1 .. i # {}
        /\ Max(1 .. i) = i /\ (1 .. i) \ {i} = 1 .. (i - 1)
    BY <1>1, UpToGreatest
  <2>2. iter[1 .. i] = PushItem(iter[(1 .. i) \ {Max(1 .. i)}], items[Max(1 .. i)])
    BY <1>7, <2>1
  <2>3. QED BY <2>1, <2>2
<1>10. QED BY <1>1, <1>2, <1>8, <1>9 DEF m

(* A ring represents what it did, and then all that was pushed. *)
THEOREM PushAllRepresents ==
  ASSUME NEW S, NEW n \in Nat \ {0}, NEW r \in Rings(n, S), NEW log \in Seq(S),
         NEW items \in Seq(S), Represents(r, log)
  PROVE  PushAll(r, items) \in Rings(n, S) /\ Represents(PushAll(r, items), log \o items)
<1> DEFINE m == Len(items)
           all == log \o items
           upto(i) == SubSeq(all, 1, Len(log) + i)
           Good(f, i) == f[1 .. i] \in Rings(n, S) /\ Represents(f[1 .. i], upto(i))
<1>1. PICK f : /\ f[{}] = r
               /\ PushAll(r, items) = f[1 .. m]
               /\ \A i \in 1 .. m : f[1 .. i] = PushItem(f[1 .. (i - 1)], items[i])
  BY PushAllIs
<1>2. /\ m \in Nat /\ Len(log) \in Nat /\ all \in Seq(S) /\ Len(all) = Len(log) + m
      /\ \A i \in 1 .. m : items[i] \in S /\ all[Len(log) + i] = items[i]
      /\ \A i \in 1 .. Len(log) : all[i] = log[i]
  BY LenProperties, ConcatProperties, ElementOfSeq
<1> DEFINE l == Len(log)
<1>3. \A i \in 0 .. m : /\ upto(i) \in Seq(S) /\ Len(upto(i)) = l + i
                        /\ \A j \in 1 .. l + i : upto(i)[j] = all[j]
  <2> SUFFICES ASSUME NEW i \in 0 .. m
               PROVE  /\ upto(i) \in Seq(S) /\ Len(upto(i)) = l + i
                      /\ \A j \in 1 .. l + i : upto(i)[j] = all[j]
    OBVIOUS
  <2> HIDE DEF all, m, l
  <2> DEFINE k == l + i
  <2>1. k \in Nat /\ k <= Len(all) /\ \A j \in 1 .. k : j \in 1 .. Len(all)
    BY <1>2 DEF l
  <2>2. \A j \in 1 .. k : all[j] \in S
    BY <1>2, <2>1, ElementOfSeq
  <2>3. upto(i) = SubSeq(all, 1, k)
    BY DEF l
  <2> HIDE DEF k, upto
  <2>4. 1 \in Int /\ k \in Int
    BY <2>1
  <2>5. /\ SubSeq(all, 1, k) \in Seq(S)
        /\ Len(SubSeq(all, 1, k)) = (IF 1 <= k THEN k - 1 + 1 ELSE 0)
        /\ \A j \in 1 .. (k - 1 + 1) : SubSeq(all, 1, k)[j] = all[1 + j - 1]
    BY <2>2, <2>4, SubSeqProperties
  <2>6. (IF 1 <= k THEN k - 1 + 1 ELSE 0) = k /\ k - 1 + 1 = k
        /\ \A j \in 1 .. k : 1 + j - 1 = j
    BY <2>1
  <2>7. QED BY <2>3, <2>5, <2>6 DEF k
<1>4. upto(0) = log /\ upto(m) = all
  <2>1. 0 \in 0 .. m /\ m \in 0 .. m /\ l + 0 = l /\ l + m = Len(all) /\ l = Len(log)
    BY <1>2
  <2> HIDE DEF upto, all, m, l
  <2>2. /\ upto(0) \in Seq(S) /\ Len(upto(0)) = l /\ \A j \in 1 .. l : upto(0)[j] = log[j]
        /\ upto(m) \in Seq(S) /\ Len(upto(m)) = Len(all)
        /\ \A j \in 1 .. Len(all) : upto(m)[j] = all[j]
    BY <1>2, <1>3, <2>1
  <2>3. QED BY <1>2, <2>1, <2>2, SeqEqual
<1>5. \A i \in 1 .. m : upto(i) = Append(upto(i - 1), items[i])
  <2> SUFFICES ASSUME NEW i \in 1 .. m PROVE upto(i) = Append(upto(i - 1), items[i])
    OBVIOUS
  <2>1. /\ i \in 0 .. m /\ i - 1 \in 0 .. m /\ l \in Nat /\ l = Len(log) /\ l + i \in Nat
        /\ l + (i - 1) = l + i - 1
    BY <1>2
  <2> HIDE DEF upto, all, m, l
  <2> DEFINE k == l + i
             a == Append(upto(i - 1), items[i])
  <2>2. k \in Nat /\ l + (i - 1) = k - 1 /\ k - 1 + 1 = k
    BY <2>1
  <2>3. /\ upto(i - 1) \in Seq(S) /\ Len(upto(i - 1)) = k - 1
        /\ \A j \in 1 .. k - 1 : upto(i - 1)[j] = all[j]
        /\ upto(i) \in Seq(S) /\ Len(upto(i)) = k
        /\ \A j \in 1 .. k : upto(i)[j] = all[j]
    BY <1>3, <2>1, <2>2
  <2>4. items[i] \in S /\ all[k] = items[i]
    BY <1>2, <2>1
  <2>5. /\ a \in Seq(S) /\ Len(a) = k
        /\ (\A j \in 1 .. k - 1 : a[j] = upto(i - 1)[j]) /\ a[k] = items[i]
    BY <2>2, <2>3, <2>4, AppendProperties
  <2> HIDE DEF k, a
  <2>6. \A j \in 1 .. k : j \in 1 .. k - 1 \/ j = k
    BY <2>2
  <2>7. \A j \in 1 .. k : upto(i)[j] = a[j]
    BY <2>3, <2>4, <2>5, <2>6
  <2>8. upto(i) = a
    BY <2>3, <2>5, <2>7, SeqEqual
  <2>9. QED BY <2>8 DEF a
<1>6. Good(f, 0)
  <2>1. 1 .. 0 = {}
    OBVIOUS
  <2>2. QED BY <1>1, <1>4, <2>1
<1> HIDE DEF upto, all
<1>7. ASSUME NEW i \in 1 .. m, Good(f, i - 1) PROVE Good(f, i)
  <2>1. /\ f[1 .. i] = PushItem(f[1 .. (i - 1)], items[i]) /\ items[i] \in S
        /\ upto(i) = Append(upto(i - 1), items[i]) /\ upto(i - 1) \in Seq(S)
    <3>1. i - 1 \in 0 .. m
      BY <1>2
    <3>2. QED BY <1>1, <1>2, <1>3, <1>5, <3>1
  <2>2. QED BY <1>7, <2>1, PushRepresents
<1> HIDE DEF Good, m
<1>8. \A i \in 0 .. m : Good(f, i)
  <2> DEFINE G == {i \in 0 .. m : Good(f, i)}
  <2>1. 0 \in G
    BY <1>2, <1>6
  <2>2. \A i \in 1 .. m : i - 1 \in G => i \in G
    BY <1>7
  <2> HIDE DEF G
  <2>3. \A i \in 0 .. m : i \in G
    BY <1>2, <2>1, <2>2, Climb
  <2>4. QED BY <2>3 DEF G
<1>9. Good(f, m)
  <2>1. m \in 0 .. m
    BY <1>2
  <2>2. QED BY <1>8, <2>1
<1>10. QED BY <1>1, <1>4, <1>9 DEF Good, all, m

-----------------------------------------------------------------------------
(***************************************************************************)
(* Input: from an interrupt to the line.                                   *)
(***************************************************************************)
LayoutKeys == DOMAIN Layout
KeyBytes == {"a", "A", "q", "Q", "@", "3", "NL", "ESC", "BS"}
InBytes == Typed \cup KeyBytes
RingBytes == InBytes \cup {None}

(* A keyboard: its queue represents the bytes since the last read, and a
   key that repeats has a byte. *)
KeyboardStates ==
  [prev : SUBSET Keys, caps : BOOLEAN,
   queue : Rings(QueueLen, RingBytes), log : Seq(InBytes),
   repeat : LayoutKeys \cup {None}, byte : KeyBytes \cup {None},
   tracked : LayoutKeys \cup {None}, age : Nat, since : Nat]

KeyboardOk(k) ==
  /\ k \in KeyboardStates
  /\ Represents(k.queue, k.log)
  /\ k.repeat # None => k.byte # None

(* The serial device's ring does too; what is read are bytes that came. *)
InputInv ==
  /\ uart \in [ring : Rings(UartLen, RingBytes), log : Seq(InBytes)]
  /\ Represents(uart.ring, uart.log)
  /\ KeyboardOk(kbd)
  /\ down \in SUBSET Keys /\ IsFiniteSet(down)
  /\ batch \in Seq(InBytes)

(* The row r is the end of the line l. *)
Ends(r, l) ==
  Len(r) <= Len(l) /\ \A i \in 1 .. Len(r) : r[i] = l[Len(l) - Len(r) + i]

(* A row of one of the three kinds. *)
Kinds == {"whole", "wrapped", "told"}
IsRow(s) == s = [row |-> s.row, kind |-> s.kind] /\ s.kind \in Kinds

(* What an output shows of the line l. *)
RowFits(s, l) ==
  /\ IsRow(s)
  /\ s.kind = "whole" => s = [row |-> <<Prompt>> \o l, kind |-> "whole"]
  /\ s.kind = "wrapped" =>
       \E r \in Seq(InBytes) : s = [row |-> r, kind |-> "wrapped"] /\ Ends(r, l)

(* The line is what its bytes mean.  Every output shows it behind the
   prompt while the task reads, or its end, and otherwise it is empty. *)
Reading == at \in {"wait", "read", "process"}

LineInv ==
  /\ outputs \in Seq(Devices)
  /\ edited \in Seq(InBytes) /\ line \in Seq(InBytes)
  /\ line = Meant(edited)
  /\ entered.text = Meant(entered.typed)
  /\ ~Reading => line = <<>>
  /\ \A d \in Devices : IsRow(screen[d])
  /\ Reading /\ term # None => \A d \in ToSet(outputs) : RowFits(screen[d], line)

LEMMA SeqWider == \A S, T : S \subseteq T => Seq(S) \subseteq Seq(T)
OBVIOUS

LEMMA TranslateByte ==
  ASSUME NEW usage \in LayoutKeys, NEW mods, NEW caps \in BOOLEAN
  PROVE  Translate(usage, mods, caps) \in KeyBytes \cup {None}
<1>1. LayoutKeys = {"a", "q", "three", "enter", "esc", "bksp"}
  BY DEF LayoutKeys, Layout
<1>2. \A u \in LayoutKeys : /\ Layout[u].plain \in KeyBytes \cup {None}
                            /\ Layout[u].shift \in KeyBytes \cup {None}
                            /\ Layout[u].altgr \in KeyBytes \cup {None}
  <2> SUFFICES ASSUME NEW u \in LayoutKeys
               PROVE  /\ Layout[u].plain \in KeyBytes \cup {None}
                      /\ Layout[u].shift \in KeyBytes \cup {None}
                      /\ Layout[u].altgr \in KeyBytes \cup {None}
    OBVIOUS
  <2>1. CASE u \in {"a", "q"}
    BY <2>1 DEF Layout, KeyBytes, None
  <2>2. CASE u \in {"three", "enter"}
    BY <2>2 DEF Layout, KeyBytes, None
  <2>3. CASE u \in {"esc", "bksp"}
    BY <2>3 DEF Layout, KeyBytes, None
  <2>4. QED BY <1>1, <2>1, <2>2, <2>3
<1>3. QED BY <1>2 DEF Translate

LEMMA BytesAreHeld == KeyBytes \subseteq InBytes /\ InBytes \subseteq RingBytes
                      /\ None \notin InBytes /\ Prompt \notin InBytes
BY TerminalAssumption DEF KeyBytes, InBytes, RingBytes, None, Prompt

LEMMA QueuedOk ==
  ASSUME NEW k, KeyboardOk(k), NEW b \in KeyBytes
  PROVE  /\ KeyboardOk(Queued(k, b))
         /\ \A u \in LayoutKeys : KeyboardOk([Queued(k, b) EXCEPT !.repeat = u, !.byte = b])
<1> DEFINE q == PushItem(k.queue, b)
           l == Append(k.log, b)
           t == Queued(k, b)
<1>1. k \in KeyboardStates /\ k.queue \in Rings(QueueLen, RingBytes) /\ k.log \in Seq(InBytes)
      /\ Represents(k.queue, k.log)
  BY DEF KeyboardOk, KeyboardStates
<1>2. k.log \in Seq(RingBytes) /\ b \in RingBytes /\ b \in InBytes /\ b # None
  <2>1. b \in RingBytes /\ b \in InBytes /\ b # None
    BY BytesAreHeld
  <2>2. k.log \in Seq(RingBytes)
    BY <1>1, BytesAreHeld, SeqWider
  <2>3. QED BY <2>1, <2>2
<1>3. q \in Rings(QueueLen, RingBytes) /\ Represents(q, l) /\ l \in Seq(InBytes)
  BY <1>1, <1>2, PushRepresents, KeyboardAssumption, AppendProperties
<1>4. t = [k EXCEPT !.queue = q, !.log = l]
  BY DEF Queued
<1> HIDE DEF q, l, t
<1>5. t \in KeyboardStates /\ t.queue = q /\ t.log = l /\ t.repeat = k.repeat /\ t.byte = k.byte
  BY <1>1, <1>3, <1>4 DEF KeyboardStates
<1>6. KeyboardOk(t)
  BY <1>3, <1>5 DEF KeyboardOk
<1>7. ASSUME NEW u \in LayoutKeys PROVE KeyboardOk([t EXCEPT !.repeat = u, !.byte = b])
  <2> DEFINE v == [t EXCEPT !.repeat = u, !.byte = b]
  <2>1. v \in KeyboardStates /\ v.queue = q /\ v.log = l /\ v.byte = b
    BY <1>5 DEF KeyboardStates
  <2> HIDE DEF v
  <2>2. KeyboardOk(v)
    BY <1>2, <1>3, <2>1 DEF KeyboardOk
  <2>3. QED BY <2>2 DEF v
<1>8. QED BY <1>6, <1>7 DEF t

LEMMA KeyDownOk ==
  ASSUME NEW k, KeyboardOk(k), NEW usage \in Keys, NEW mods
  PROVE  KeyboardOk(KeyDown(k, usage, mods))
<1> DEFINE byte == Translate(usage, mods, k.caps)
<1>1. k \in KeyboardStates /\ k.caps \in BOOLEAN
  BY DEF KeyboardOk, KeyboardStates
<1>2. CASE usage \in k.prev
  BY <1>2 DEF KeyDown
<1>3. CASE usage \notin k.prev /\ usage = "caps"
  <2> DEFINE t == [k EXCEPT !.caps = ~k.caps]
  <2>1. /\ t \in KeyboardStates /\ t.queue = k.queue /\ t.log = k.log
        /\ t.repeat = k.repeat /\ t.byte = k.byte
    BY <1>1 DEF KeyboardStates
  <2> HIDE DEF t
  <2>2. KeyboardOk(t)
    BY <2>1 DEF KeyboardOk
  <2>3. QED BY <1>3, <2>2 DEF KeyDown, t
<1>4. CASE usage \notin k.prev /\ usage # "caps"
  <2>1. usage \in LayoutKeys
    BY <1>4, KeyboardAssumption DEF LayoutKeys
  <2>2. byte \in KeyBytes \cup {None}
    BY <1>1, <2>1, TranslateByte
  <2>3. KeyDown(k, usage, mods) =
          IF byte = None THEN k ELSE [Queued(k, byte) EXCEPT !.repeat = usage, !.byte = byte]
    BY <1>4 DEF KeyDown
  <2> HIDE DEF byte
  <2>4. CASE byte = None
    BY <2>3, <2>4
  <2>5. CASE byte # None
    <3> DEFINE v == [Queued(k, byte) EXCEPT !.repeat = usage, !.byte = byte]
    <3>1. byte \in KeyBytes
      BY <2>2, <2>5
    <3>2. \A u \in LayoutKeys : KeyboardOk([Queued(k, byte) EXCEPT !.repeat = u, !.byte = byte])
      BY <3>1, QueuedOk
    <3>3. KeyboardOk(v)
      BY <2>1, <3>2
    <3> HIDE DEF v
    <3>4. KeyDown(k, usage, mods) = v
      BY <2>3, <2>5 DEF v
    <3>5. QED BY <3>3, <3>4
  <2>6. QED BY <2>4, <2>5
<1>5. QED BY <1>2, <1>3, <1>4

(* The keys of a report, one after the other. *)
KeysDown(k, usages, mods) == FoldLeft(LAMBDA s, u : KeyDown(s, u, mods), k, usages)

LEMMA KeysDownOk ==
  ASSUME NEW k, KeyboardOk(k), NEW usages \in Seq(Keys), NEW mods
  PROVE  KeyboardOk(KeysDown(k, usages, mods))
<1> DEFINE m == Len(usages)
           A == {t \in KeyboardStates : KeyboardOk(t)}
           step == [p \in A \X (1 .. m) |-> KeyDown(p[1], usages[p[2]], mods)]
           iter == CHOOSE f : f = [s \in SUBSET (DOMAIN usages) |->
                      IF s = {} THEN k ELSE KeyDown(f[s \ {Max(s)}], usages[Max(s)], mods)]
<1>1. m \in Nat /\ DOMAIN usages = 1 .. m /\ \A i \in 1 .. m : usages[i] \in Keys
  BY LenProperties, ElementOfSeq
<1>2. KeysDown(k, usages, mods) = iter[DOMAIN usages]
  BY DEF KeysDown, FoldLeft, MapThenFoldSet
<1>3. \A t : t \in A <=> KeyboardOk(t)
  BY DEF KeyboardOk
<1>4. step \in [A \X (1 .. m) -> A]
        /\ \A a \in A : \A i \in 1 .. m : step[<<a, i>>] = KeyDown(a, usages[i], mods)
  <2>1. \A p \in A \X (1 .. m) : p[1] \in A /\ usages[p[2]] \in Keys
    BY <1>1
  <2>2. \A p \in A \X (1 .. m) : KeyDown(p[1], usages[p[2]], mods) \in A
    <3> HIDE DEF A
    <3>1. QED BY <1>3, <2>1, KeyDownOk
  <2>3. QED BY <2>2
<1> HIDE DEF m, A, step
<1>5. PICK f \in [SUBSET (1 .. m) -> A] : Iterates(f, m, k, step)
  BY <1>1, <1>3, <1>4, FoldExists
<1>6. \A s \in SUBSET (1 .. m) :
        f[s] = IF s = {} THEN k ELSE KeyDown(f[s \ {Max(s)}], usages[Max(s)], mods)
  <2>1. ASSUME NEW s \in SUBSET (1 .. m), s # {}
        PROVE  f[s] = KeyDown(f[s \ {Max(s)}], usages[Max(s)], mods)
    <3>1. Max(s) \in 1 .. m
      BY <1>1, <2>1, GreatestOf
    <3>2. f[s \ {Max(s)}] \in A
      OBVIOUS
    <3>3. f[s] = step[<<f[s \ {Max(s)}], Max(s)>>]
      BY <1>5, <2>1 DEF Iterates
    <3>4. QED BY <1>4, <3>1, <3>2, <3>3
  <2>2. ASSUME NEW s \in SUBSET (1 .. m), s = {} PROVE f[s] = k
    BY <1>5, <2>2 DEF Iterates
  <2>3. QED BY <2>1, <2>2
<1>7. f = [s \in SUBSET (DOMAIN usages) |->
            IF s = {} THEN k ELSE KeyDown(f[s \ {Max(s)}], usages[Max(s)], mods)]
  BY <1>1, <1>6
<1>8. iter = [s \in SUBSET (DOMAIN usages) |->
               IF s = {} THEN k ELSE KeyDown(iter[s \ {Max(s)}], usages[Max(s)], mods)]
  BY <1>7
<1> HIDE DEF iter
<1>9. iter[1 .. 0] \in A
  <2>1. 1 .. 0 = {}
    OBVIOUS
  <2>2. QED BY <1>3, <1>8, <2>1
<1>10. ASSUME NEW i \in 1 .. m, iter[1 .. (i - 1)] \in A PROVE iter[1 .. i] \in A
  <2>1. /\ 1 .. i \in SUBSET (DOMAIN usages) /\ 1 .. i # {}
        /\ Max(1 .. i) = i /\ (1 .. i) \ {i} = 1 .. (i - 1)
    BY <1>1, UpToGreatest
  <2>2. iter[1 .. i] = KeyDown(iter[(1 .. i) \ {Max(1 .. i)}], usages[Max(1 .. i)], mods)
    BY <1>8, <2>1
  <2>3. iter[1 .. i] = KeyDown(iter[1 .. (i - 1)], usages[i], mods)
    BY <2>1, <2>2
  <2>4. QED BY <1>1, <1>3, <1>10, <2>3, KeyDownOk
<1>11. iter[1 .. m] \in A
  <2> DEFINE G == {i \in 0 .. m : iter[1 .. i] \in A}
  <2>1. 0 \in G
    BY <1>1, <1>9
  <2>2. \A i \in 1 .. m : i - 1 \in G => i \in G
    BY <1>10
  <2> HIDE DEF G
  <2>3. \A i \in 0 .. m : i \in G
    BY <1>1, <2>1, <2>2, Climb
  <2>4. QED BY <1>1, <2>3 DEF G
<1>12. QED BY <1>1, <1>2, <1>3, <1>11

LEMMA ReportOk ==
  ASSUME NEW k, KeyboardOk(k), NEW usages \in Seq(Keys), NEW mods
  PROVE  KeyboardOk(HandleReport(k, usages, mods))
<1> DEFINE typed == KeysDown(k, usages, mods)
           checked == RepeatChecked(typed, ToSet(usages), mods)
           byte == Translate(typed.repeat, mods, typed.caps)
           t == [checked EXCEPT !.prev = ToSet(usages)]
<1>1. HandleReport(k, usages, mods) = t
  BY DEF HandleReport, KeysDown
<1>2. KeyboardOk(typed)
  BY KeysDownOk
<1> HIDE DEF typed
<1>3. typed \in KeyboardStates /\ typed.caps \in BOOLEAN /\ typed.repeat \in LayoutKeys \cup {None}
  BY <1>2 DEF KeyboardOk, KeyboardStates
<1>4. typed.repeat # None => byte \in KeyBytes \cup {None}
  BY <1>3, TranslateByte
<1> HIDE DEF byte
<1>5. KeyboardOk(checked)
  <2>1. CASE typed.repeat = None
    BY <1>2, <2>1 DEF RepeatChecked
  <2>2. CASE typed.repeat # None /\ typed.repeat \notin ToSet(usages)
    <3> DEFINE v == [typed EXCEPT !.repeat = None, !.byte = None]
    <3>1. v \in KeyboardStates /\ v.queue = typed.queue /\ v.log = typed.log /\ v.repeat = None
      BY <1>3 DEF KeyboardStates
    <3> HIDE DEF v
    <3>2. KeyboardOk(v)
      BY <1>2, <3>1 DEF KeyboardOk
    <3>3. QED BY <2>2, <3>2 DEF RepeatChecked, v
  <2>3. CASE typed.repeat # None /\ typed.repeat \in ToSet(usages)
    <3> DEFINE v == [typed EXCEPT !.byte = byte]
    <3>1. checked = IF byte = None THEN typed ELSE v
      BY <2>3 DEF RepeatChecked, byte
    <3>2. /\ v \in KeyboardStates /\ v.queue = typed.queue /\ v.log = typed.log
          /\ v.byte = byte
      BY <1>3, <1>4, <2>3 DEF KeyboardStates
    <3> HIDE DEF v
    <3>3. byte # None => KeyboardOk(v)
      BY <1>2, <3>2 DEF KeyboardOk
    <3>4. QED BY <1>2, <3>1, <3>3
  <2>4. QED BY <2>1, <2>2, <2>3
<1> HIDE DEF checked
<1>6. ToSet(usages) \in SUBSET Keys
  BY ElementOfSeq, LenProperties DEF ToSet
<1>7. /\ t \in KeyboardStates /\ t.queue = checked.queue /\ t.log = checked.log
      /\ t.repeat = checked.repeat /\ t.byte = checked.byte
  <2>1. checked \in KeyboardStates
    BY <1>5 DEF KeyboardOk
  <2>2. QED BY <1>6, <2>1 DEF KeyboardStates
<1> HIDE DEF t
<1>8. KeyboardOk(t)
  BY <1>5, <1>7 DEF KeyboardOk
<1>9. QED BY <1>1, <1>8

LEMMA StopRepeatOk ==
  ASSUME NEW k, KeyboardOk(k)
  PROVE  KeyboardOk(StopRepeat(k)) /\ StopRepeat(k).queue = k.queue
         /\ StopRepeat(k).log = k.log
<1> DEFINE t == StopRepeat(k)
<1>1. t \in KeyboardStates /\ t.queue = k.queue /\ t.log = k.log /\ t.repeat = None
  BY DEF StopRepeat, KeyboardOk, KeyboardStates
<1> HIDE DEF t
<1>2. KeyboardOk(t)
  BY <1>1 DEF KeyboardOk
<1>3. QED BY <1>1, <1>2 DEF t

LEMMA AgedOk ==
  ASSUME NEW k, KeyboardOk(k) PROVE KeyboardOk(Aged(k))
<1> DEFINE Older(age) == IF age < MaxHold THEN age + 1 ELSE age
           t == [k EXCEPT !.age = Older(k.age), !.since = Older(k.since)]
<1>1. Aged(k) = IF k.tracked = None THEN k ELSE t
  BY DEF Aged
<1>2. k \in KeyboardStates /\ Older(k.age) \in Nat /\ Older(k.since) \in Nat
  BY DEF KeyboardOk, KeyboardStates
<1> HIDE DEF Older
<1>3. /\ t \in KeyboardStates /\ t.queue = k.queue /\ t.log = k.log
      /\ t.repeat = k.repeat /\ t.byte = k.byte
  BY <1>2 DEF KeyboardStates
<1> HIDE DEF t
<1>4. KeyboardOk(t)
  BY <1>3 DEF KeyboardOk
<1>5. QED BY <1>1, <1>4

LEMMA ServedOk ==
  ASSUME NEW k, KeyboardOk(k) PROVE KeyboardOk(ServiceRepeat(k))
<1>1. k \in KeyboardStates /\ k.repeat \in LayoutKeys \cup {None}
      /\ k.byte \in KeyBytes \cup {None} /\ (k.repeat # None => k.byte # None)
  BY DEF KeyboardOk, KeyboardStates
<1>2. ASSUME NEW x \in LayoutKeys \cup {None}
      PROVE  KeyboardOk([k EXCEPT !.tracked = x, !.age = 0, !.since = 0])
  <2> DEFINE t == [k EXCEPT !.tracked = x, !.age = 0, !.since = 0]
  <2>1. /\ t \in KeyboardStates /\ t.queue = k.queue /\ t.log = k.log
        /\ t.repeat = k.repeat /\ t.byte = k.byte
    BY <1>1 DEF KeyboardStates
  <2> HIDE DEF t
  <2>2. KeyboardOk(t)
    BY <2>1 DEF KeyboardOk
  <2>3. QED BY <2>2 DEF t
<1>3. KeyboardOk(Untracked(k)) /\ KeyboardOk(Tracking(k))
  BY <1>1, <1>2 DEF Untracked, Tracking
<1>4. KeyboardOk(StopRepeat(k))
  BY StopRepeatOk
<1>5. ASSUME k.repeat # None PROVE KeyboardOk(Repeated(k))
  <2> DEFINE q == Queued(k, k.byte)
             t == [q EXCEPT !.since = 0]
  <2>1. KeyboardOk(q)
    BY <1>1, <1>5, QueuedOk
  <2>2. Repeated(k) = t
    BY DEF Repeated
  <2> HIDE DEF q
  <2>3. /\ t \in KeyboardStates /\ t.queue = q.queue /\ t.log = q.log
        /\ t.repeat = q.repeat /\ t.byte = q.byte
    <3>1. q \in KeyboardStates
      BY <2>1 DEF KeyboardOk
    <3>2. QED BY <3>1 DEF KeyboardStates
  <2> HIDE DEF t
  <2>4. KeyboardOk(t)
    BY <2>1, <2>3 DEF KeyboardOk
  <2>5. QED BY <2>2, <2>4
<1>6. QED BY <1>3, <1>4, <1>5 DEF ServiceRepeat

(* What is read from a ring that represents the bytes that came are such
   bytes. *)
LEMMA DrainedBytes ==
  ASSUME NEW n \in Nat \ {0}, NEW r \in Rings(n, RingBytes), NEW log \in Seq(InBytes),
         Represents(r, log)
  PROVE  Drained(r) \in Seq(InBytes)
<1>1. log \in Seq(RingBytes)
  BY BytesAreHeld, SeqWider
<1>2. HoldsNewest(r, log) /\ Capacity(r) = n
  BY <1>1, RepresentedIsHeld, Parts
<1>3. Drained(r) = Newest(n, log)
  BY <1>2 DEF HoldsNewest
<1>4. Newest(n, log) \in Seq(InBytes)
  <2> DEFINE len == Len(log)
             lo == len - n + 1
  <2>1. CASE len <= n
    BY <2>1 DEF Newest
  <2>2. CASE len > n
    <3>1. lo \in Int /\ len \in Int /\ \A i \in lo .. len : i \in 1 .. len
      BY <2>2, LenProperties
    <3>2. \A i \in lo .. len : log[i] \in InBytes
      BY <3>1, ElementOfSeq
    <3>3. Newest(n, log) = SubSeq(log, lo, len)
      BY <2>2, LenProperties DEF Newest
    <3> HIDE DEF lo, len
    <3>4. QED BY <3>1, <3>2, <3>3, SubSeqProperties
  <2>3. QED BY <2>1, <2>2, LenProperties
<1>5. QED BY <1>3, <1>4

LEMMA EmptiedOk ==
  ASSUME NEW k, KeyboardOk(k)
  PROVE  KeyboardOk(Emptied(k)) /\ ReadKeyboard(k) \in Seq(InBytes)
<1> DEFINE served == ServiceRepeat(k)
           q == ClearRing(served.queue)
           t == [served EXCEPT !.queue = q, !.log = <<>>]
<1>1. KeyboardOk(served)
  BY ServedOk
<1>2. Emptied(k) = t /\ ReadKeyboard(k) = Drained(served.queue)
  BY DEF Emptied, ReadKeyboard
<1> HIDE DEF served
<1>3. /\ served \in KeyboardStates /\ served.queue \in Rings(QueueLen, RingBytes)
      /\ served.log \in Seq(InBytes) /\ Represents(served.queue, served.log)
  BY <1>1 DEF KeyboardOk, KeyboardStates
<1>4. q \in Rings(QueueLen, RingBytes) /\ Represents(q, <<>>) /\ <<>> \in Seq(InBytes)
  BY <1>3, EmptyRing, EmptySeq, KeyboardAssumption
<1> HIDE DEF q
<1>5. /\ t \in KeyboardStates /\ t.queue = q /\ t.log = <<>>
      /\ t.repeat = served.repeat /\ t.byte = served.byte
  BY <1>3, <1>4 DEF KeyboardStates
<1> HIDE DEF t
<1>6. KeyboardOk(t)
  BY <1>1, <1>4, <1>5 DEF KeyboardOk
<1>7. Drained(served.queue) \in Seq(InBytes)
  BY <1>3, DrainedBytes, KeyboardAssumption
<1>8. QED BY <1>2, <1>6, <1>7

(* Whatever arrives, is typed, is lost on its way or is read: the rings
   represent the bytes that came, and only such bytes are read. *)
LEMMA InputHolds == Spec => []InputInv
<1> DEFINE UartStates == [ring : Rings(UartLen, RingBytes), log : Seq(InBytes)]
<1>0. None \in RingBytes /\ <<>> \in Seq(InBytes) /\ <<>> \in Seq(RingBytes)
  BY EmptySeq DEF RingBytes
<1>1. Init => InputInv
  <2> SUFFICES ASSUME Init PROVE InputInv
    OBVIOUS
  <2> DEFINE q == NewRing(UartLen, None)
             p == NewRing(QueueLen, None)
  <2>1. uart = [ring |-> q, log |-> <<>>] /\ batch = <<>> /\ down = {} /\ kbd = NewKeyboard
    BY DEF Init, KeyboardInit
  <2>2. /\ q \in Rings(UartLen, RingBytes) /\ Represents(q, <<>>)
        /\ p \in Rings(QueueLen, RingBytes) /\ Represents(p, <<>>)
    BY <1>0, EmptyRing, TerminalAssumption, KeyboardAssumption
  <2>3. NewKeyboard = [prev |-> {}, caps |-> FALSE, queue |-> p, log |-> <<>>,
          repeat |-> None, byte |-> None, tracked |-> None, age |-> 0, since |-> 0]
    BY DEF NewKeyboard
  <2> HIDE DEF q, p
  <2>4. NewKeyboard \in KeyboardStates /\ NewKeyboard.queue = p /\ NewKeyboard.log = <<>>
        /\ NewKeyboard.repeat = None
    BY <1>0, <2>2, <2>3 DEF KeyboardStates
  <2>5. KeyboardOk(kbd)
    BY <2>1, <2>2, <2>4 DEF KeyboardOk
  <2>6. uart \in UartStates /\ Represents(uart.ring, uart.log)
    BY <1>0, <2>1, <2>2
  <2>7. IsFiniteSet({})
    BY FS_EmptySet
  <2>8. QED BY <1>0, <2>1, <2>5, <2>6, <2>7 DEF InputInv
<1>2. InputInv /\ [Next]_vars => InputInv'
  <2> SUFFICES ASSUME InputInv, [Next]_vars PROVE InputInv'
    OBVIOUS
  <2>1. /\ uart \in UartStates /\ Represents(uart.ring, uart.log)
        /\ uart.ring \in Rings(UartLen, RingBytes) /\ uart.log \in Seq(InBytes)
        /\ KeyboardOk(kbd) /\ down \in SUBSET Keys /\ IsFiniteSet(down)
        /\ batch \in Seq(InBytes)
    BY DEF InputInv
  <2>2. CASE UNCHANGED <<uart, kbd, down, batch>>
    BY <2>2 DEF InputInv
  <2>3. CASE ReadUart
    <3> DEFINE q == ClearRing(uart.ring)
    <3>1. /\ batch' = Drained(uart.ring) /\ uart' = [ring |-> q, log |-> <<>>]
          /\ UNCHANGED <<kbd, down>>
      BY <2>3 DEF ReadUart, keyboardVars
    <3>2. q \in Rings(UartLen, RingBytes) /\ Represents(q, <<>>)
      BY <2>1, EmptyRing, TerminalAssumption
    <3> HIDE DEF q
    <3>3. uart' \in UartStates /\ Represents(uart'.ring, uart'.log)
      BY <1>0, <3>1, <3>2
    <3>4. Drained(uart.ring) \in Seq(InBytes)
      BY <2>1, DrainedBytes, TerminalAssumption
    <3>5. QED BY <2>1, <3>1, <3>3, <3>4 DEF InputInv
  <2>4. CASE ReadKbd
    <3>1. batch' = ReadKeyboard(kbd) /\ kbd' = Emptied(kbd) /\ UNCHANGED <<uart, down>>
      BY <2>4 DEF ReadKbd, uartVars
    <3>2. KeyboardOk(Emptied(kbd)) /\ ReadKeyboard(kbd) \in Seq(InBytes)
      BY <2>1, EmptiedOk
    <3>3. QED BY <2>1, <3>1, <3>2 DEF InputInv
  <2>5. CASE EditLine \/ EnterLine
    <3>1. batch # <<>> /\ batch' = Tail(batch) /\ UNCHANGED <<uart, kbd, down>>
      BY <2>5 DEF EditLine, EnterLine, uartVars, keyboardVars
    <3>2. Tail(batch) \in Seq(InBytes)
      BY <2>1, <3>1, HeadTailProperties
    <3>3. QED BY <2>1, <3>1, <3>2 DEF InputInv
  <2>6. CASE UartIrq
    <3>1. PICK n \in 1 .. FifoLen : \E bytes \in [1 .. n -> Typed] :
            uart' = [ring |-> PushAll(uart.ring, bytes), log |-> uart.log \o bytes]
      BY <2>6 DEF UartIrq
    <3>2. PICK bytes \in [1 .. n -> Typed] :
            uart' = [ring |-> PushAll(uart.ring, bytes), log |-> uart.log \o bytes]
      BY <3>1
    <3>3. bytes \in Seq(InBytes)
      <4>1. n \in Nat
        BY TerminalAssumption
      <4>2. bytes \in Seq(Typed)
        BY <4>1
      <4>3. QED BY <4>2, SeqWider DEF InBytes
    <3>4. bytes \in Seq(RingBytes) /\ uart.log \in Seq(RingBytes)
      BY <2>1, <3>3, BytesAreHeld, SeqWider
    <3> DEFINE q == PushAll(uart.ring, bytes)
               l == uart.log \o bytes
    <3>5. q \in Rings(UartLen, RingBytes) /\ Represents(q, l)
      BY <2>1, <3>4, PushAllRepresents, TerminalAssumption
    <3>6. l \in Seq(InBytes)
      BY <2>1, <3>3, ConcatProperties
    <3>7. uart' = [ring |-> q, log |-> l]
      BY <3>2
    <3> HIDE DEF q, l
    <3>8. uart' \in UartStates /\ Represents(uart'.ring, uart'.log)
      BY <3>5, <3>6, <3>7
    <3>9. UNCHANGED <<kbd, down, batch>>
      BY <2>6 DEF UartIrq, keyboardVars, KeepTask, shellVars
    <3>10. QED BY <2>1, <3>8, <3>9 DEF InputInv
  <2>7. CASE KeyboardIrq
    <3>1. UNCHANGED <<uart, batch, down>>
      BY <2>7 DEF KeyboardIrq, Report, ReportLost, KeyboardError, uartVars, KeepTask, shellVars
    <3>2. KeyboardOk(kbd')
      <4>1. CASE Report
        <5>1. CASE \E usages \in SetToSeqs(down) : kbd' = HandleReport(kbd, usages, held)
          <6>1. PICK usages \in SetToSeqs(down) : kbd' = HandleReport(kbd, usages, held)
            BY <5>1
          <6>2. Cardinality(down) \in Nat
            BY <2>1, FS_CardinalityType
          <6>3. usages \in [1 .. Cardinality(down) -> down]
            BY DEF SetToSeqs
          <6>4. usages \in Seq(Keys)
            <7> DEFINE c == Cardinality(down)
            <7>1. c \in Nat /\ usages \in [1 .. c -> down]
              BY <6>2, <6>3
            <7> HIDE DEF c
            <7>2. usages \in Seq(down)
              BY <7>1
            <7>3. QED BY <2>1, <7>2, SeqWider
          <6>5. QED BY <2>1, <6>1, <6>4, ReportOk
        <5>2. CASE kbd' = RolledOver(kbd)
          BY <2>1, <5>2 DEF RolledOver
        <5>3. QED BY <4>1, <5>1, <5>2 DEF Report
      <4>2. CASE ReportLost
        BY <2>1, <4>2 DEF ReportLost
      <4>3. CASE KeyboardError
        <5>1. kbd' = StopRepeat(kbd)
          BY <4>3 DEF KeyboardError
        <5>2. QED BY <2>1, <5>1, StopRepeatOk
      <4>4. QED BY <2>7, <4>1, <4>2, <4>3 DEF KeyboardIrq
    <3>3. QED BY <2>1, <3>1, <3>2 DEF InputInv
  <2>8. CASE Type
    <3>1. UNCHANGED <<uart, kbd, batch>>
      BY <2>8 DEF Type, KeyGoesDown, KeyGoesUp, ReportsAgain, uartVars, KeepTask, shellVars
    <3>2. down' \in SUBSET Keys /\ IsFiniteSet(down')
      <4>1. down' = down \/ (\E u \in Keys : down' = down \cup {u})
            \/ (\E u \in down : down' = down \ {u})
        BY <2>8 DEF Type, KeyGoesDown, KeyGoesUp, ReportsAgain
      <4>2. QED BY <2>1, <4>1, FS_AddElement, FS_RemoveElement
    <3>3. QED BY <2>1, <3>1, <3>2 DEF InputInv
  <2>9. CASE Tick
    <3>1. kbd' = Aged(kbd) /\ UNCHANGED <<uart, down, batch>>
      BY <2>9 DEF Tick, KeyboardTick, uartVars, KeepTask, shellVars
    <3>2. KeyboardOk(Aged(kbd))
      BY <2>1, AgedOk
    <3>3. QED BY <2>1, <3>1, <3>2 DEF InputInv
  <2>10. CASE Boot
    <3>1. UNCHANGED <<uart, kbd, down, batch>>
      BY <2>10 DEF Boot, BootPrint, SetupArch, UartSetup, FbSetup, KeyboardSetup, DriversDone,
                   TerminalInit, KeepShell, uartVars, keyboardVars
    <3>2. QED BY <2>2, <3>1
  <2>11. CASE Start \/ Poll \/ PollDone \/ InputDone \/ RunText \/ RunWatchdog \/ RunPower
              \/ BusyWaited
    <3>1. UNCHANGED <<uart, kbd, down, batch>>
      BY <2>11 DEF Start, Poll, PollDone, InputDone, RunText, RunWatchdog, RunPower, BusyWaited,
                   uartVars, keyboardVars
    <3>2. QED BY <2>2, <3>1
  <2>12. CASE HardwareTick
    <3>1. UNCHANGED <<uart, kbd, down, batch>>
      BY <2>12 DEF HardwareTick, KeepTask, shellVars, uartVars, keyboardVars
    <3>2. QED BY <2>2, <3>1
  <2>13. CASE UNCHANGED vars
    <3>1. UNCHANGED <<uart, kbd, down, batch>>
      BY <2>13 DEF vars, shellVars, uartVars, keyboardVars
    <3>2. QED BY <2>2, <3>1
  <2>14. CASE KernelMessage
    <3>1. UNCHANGED <<uart, kbd, down, batch>>
      BY <2>14 DEF KernelMessage, uartVars, keyboardVars
    <3>2. QED BY <2>2, <3>1
  <2>15. QED BY <2>3, <2>4, <2>5, <2>6, <2>7, <2>8, <2>9, <2>10, <2>11, <2>12, <2>13, <2>14
            DEF Next, ShellTask, Interrupts
<1>3. QED BY <1>1, <1>2, PTL DEF Spec

(* A prompt and the line behind it. *)
LEMMA BehindPrompt ==
  ASSUME NEW s \in Seq(InBytes)
  PROVE  /\ <<Prompt>> \o <<>> = <<Prompt>>
         /\ \A b \in InBytes : <<Prompt>> \o Append(s, b) = Append(<<Prompt>> \o s, b)
         /\ s # <<>> => Front(<<Prompt>> \o s) = <<Prompt>> \o Front(s)
         /\ <<Prompt>> \o s # <<>>
<1> DEFINE B == InBytes \cup {Prompt}
           p == <<Prompt>>
           t == p \o s
<1>1. /\ p \in Seq(B) /\ Len(p) = 1 /\ s \in Seq(B) /\ Len(s) \in Nat
  <2>1. p \in Seq(B) /\ Len(p) = 1
    OBVIOUS
  <2>2. QED BY <2>1, SeqWider, LenProperties
<1> HIDE DEF B, p
<1>2. t \in Seq(B) /\ Len(t) = 1 + Len(s)
  <2>1. t \in Seq(B) /\ Len(t) = Len(p) + Len(s)
    BY <1>1, ConcatProperties
  <2>2. QED BY <1>1, <2>1
<1>3. p \o <<>> = p
  BY <1>1, ConcatEmptySeq
<1>4. \A b \in B : \A r \in Seq(B) : p \o Append(r, b) = Append(p \o r, b)
  <2>1. ASSUME NEW b \in B, NEW r \in Seq(B) PROVE p \o Append(r, b) = Append(p \o r, b)
    <3>1. /\ r \in Seq(B) /\ <<b>> \in Seq(B) /\ Append(r, b) = r \o <<b>>
          /\ p \o r \in Seq(B) /\ Append(p \o r, b) = (p \o r) \o <<b>>
      <4>1. <<b>> \in Seq(B) /\ p \o r \in Seq(B)
        BY <1>1, ConcatProperties
      <4>2. QED BY <4>1, AppendIsConcat
    <3>2. p \o (r \o <<b>>) = (p \o r) \o <<b>>
      BY <1>1, <3>1, ConcatAssociative
    <3>3. QED BY <3>1, <3>2
  <2>2. QED BY <2>1
<1>5. ASSUME s # <<>> PROVE Front(t) = p \o Front(s)
  <2>1. PICK f \in Seq(B), x \in B : s = Append(f, x)
    BY <1>1, <1>5, SequenceEmptyOrAppend
  <2>2. t = Append(p \o f, x)
    BY <1>4, <2>1 DEF t
  <2>3. p \o f \in Seq(B)
    BY <1>1, <2>1, ConcatProperties
  <2>4. Front(t) = p \o f
    <3>1. Front(Append(p \o f, x)) = p \o f
      BY <2>1, <2>3, FrontAppend
    <3>2. QED BY <2>2, <3>1
  <2>5. Front(s) = f
    BY <2>1, FrontAppend
  <2>6. QED BY <2>4, <2>5
<1>6. t # <<>>
  BY <1>1, <1>2, EmptySeq
<1>7. InBytes \subseteq B
  BY DEF B
<1>8. QED BY <1>1, <1>3, <1>4, <1>5, <1>6, <1>7 DEF p

(* A row that is the end of the line stays one. *)
LEMMA EndsNothing ==
  ASSUME NEW S, NEW l \in Seq(S)
  PROVE  <<>> \in Seq(S) /\ Ends(<<>>, l)
<1>1. <<>> \in Seq(S) /\ Len(<<>>) = 0 /\ Len(l) \in Nat
  BY EmptySeq, LenProperties
<1>2. QED BY <1>1 DEF Ends

LEMMA EndsAppend ==
  ASSUME NEW S, NEW r \in Seq(S), NEW l \in Seq(S), NEW x \in S, NEW y \in S
  PROVE  Ends(Append(r, x), Append(l, y)) <=> Ends(r, l) /\ x = y
<1> DEFINE a == Append(r, x)
           b == Append(l, y)
           m == Len(r)
           n == Len(l)
<1>1. /\ m \in Nat /\ Len(a) = m + 1 /\ a[m + 1] = x /\ \A i \in 1 .. m : a[i] = r[i]
      /\ n \in Nat /\ Len(b) = n + 1 /\ b[n + 1] = y /\ \A i \in 1 .. n : b[i] = l[i]
  BY AppendProperties, LenProperties
<1> HIDE DEF a, b
<1>2. ASSUME m <= n
      PROVE  (\A i \in 1 .. (m + 1) : a[i] = b[n + 1 - (m + 1) + i])
               <=> (\A i \in 1 .. m : r[i] = l[n - m + i]) /\ x = y
  <2> HIDE DEF m, n
  <2>1. \A i \in 1 .. m : n - m + i \in 1 .. n /\ n + 1 - (m + 1) + i = n - m + i
    BY <1>1, <1>2
  <2>2. n + 1 - (m + 1) + (m + 1) = n + 1 /\ m + 1 \in 1 .. (m + 1)
    BY <1>1
  <2>3. \A i \in 1 .. m : a[i] = b[n + 1 - (m + 1) + i] <=> r[i] = l[n - m + i]
    BY <1>1, <2>1
  <2>4. a[m + 1] = b[n + 1 - (m + 1) + (m + 1)] <=> x = y
    BY <1>1, <2>2
  <2>5. \A i \in 1 .. (m + 1) : i \in 1 .. m \/ i = m + 1
    BY <1>1
  <2>6. \A i \in 1 .. m : i \in 1 .. (m + 1)
    BY <1>1
  <2>7. QED BY <2>2, <2>3, <2>4, <2>5, <2>6
<1> HIDE DEF m, n
<1>3. m + 1 <= n + 1 <=> m <= n
  BY <1>1
<1>4. Ends(r, l) <=> m <= n /\ \A i \in 1 .. m : r[i] = l[n - m + i]
  BY DEF Ends, m, n
<1>5. Ends(a, b) <=> m + 1 <= n + 1 /\ \A i \in 1 .. (m + 1) : a[i] = b[n + 1 - (m + 1) + i]
  BY <1>1 DEF Ends
<1>6. Ends(a, b) <=> Ends(r, l) /\ x = y
  BY <1>2, <1>3, <1>4, <1>5
<1>7. QED BY <1>6 DEF a, b

LEMMA EndsIsSuffix ==
  ASSUME NEW S, NEW r \in Seq(S), NEW l \in Seq(S), Ends(r, l)
  PROVE  IsSuffix(r, l)
<1> DEFINE a == Reverse(r)
           b == Reverse(l)
           m == Len(r)
           n == Len(l)
<1>1. m \in Nat /\ n \in Nat /\ m <= n /\ \A i \in 1 .. m : r[i] = l[n - m + i]
  BY LenProperties DEF Ends
<1>2. /\ a \in Seq(S) /\ Len(a) = m /\ \A i \in 1 .. m : a[i] = r[m - i + 1]
      /\ b \in Seq(S) /\ Len(b) = n /\ \A i \in 1 .. n : b[i] = l[n - i + 1]
  <2>1. ASSUME NEW s \in Seq(S)
        PROVE  /\ Reverse(s) \in Seq(S) /\ Len(Reverse(s)) = Len(s)
               /\ \A i \in 1 .. Len(s) : Reverse(s)[i] = s[Len(s) - i + 1]
    <3> DEFINE k == Len(s)
    <3>1. k \in Nat /\ \A i \in 1 .. k : s[i] \in S
      BY LenProperties, ElementOfSeq
    <3>2. Reverse(s) = [i \in 1 .. k |-> s[(k - i) + 1]]
      BY DEF Reverse
    <3> HIDE DEF k
    <3>3. \A i \in 1 .. k : (k - i) + 1 \in 1 .. k
      BY <3>1
    <3>4. Reverse(s) \in [1 .. k -> S]
      BY <3>1, <3>2, <3>3
    <3>5. Reverse(s) \in Seq(S) /\ Len(Reverse(s)) = k
      BY <3>1, <3>4
    <3>6. QED BY <3>2, <3>5 DEF k
  <2>2. QED BY <2>1
<1> HIDE DEF a, b, m, n
<1>3. \A i \in 1 .. m : a[i] = b[i]
  <2> SUFFICES ASSUME NEW i \in 1 .. m PROVE a[i] = b[i]
    OBVIOUS
  <2>1. m - i + 1 \in 1 .. m /\ n - m + (m - i + 1) = n - i + 1 /\ i \in 1 .. n
    BY <1>1
  <2>2. QED BY <1>1, <1>2, <2>1
<1>4. SubSeq(a, 1, m) = SubSeq(b, 1, m)
  <2>1. 1 \in Int /\ m \in Int /\ \A i \in 1 .. m : i \in 1 .. n
    BY <1>1
  <2>2. \A i \in 1 .. m : a[i] \in S /\ b[i] \in S
    BY <1>2, <2>1, ElementOfSeq
  <2>3. /\ SubSeq(a, 1, m) \in Seq(S)
        /\ Len(SubSeq(a, 1, m)) = (IF 1 <= m THEN m - 1 + 1 ELSE 0)
        /\ \A i \in 1 .. (m - 1 + 1) : SubSeq(a, 1, m)[i] = a[1 + i - 1]
    BY <2>1, <2>2, SubSeqProperties
  <2>4. /\ SubSeq(b, 1, m) \in Seq(S)
        /\ Len(SubSeq(b, 1, m)) = (IF 1 <= m THEN m - 1 + 1 ELSE 0)
        /\ \A i \in 1 .. (m - 1 + 1) : SubSeq(b, 1, m)[i] = b[1 + i - 1]
    BY <2>1, <2>2, SubSeqProperties
  <2>5. (IF 1 <= m THEN m - 1 + 1 ELSE 0) = m /\ m - 1 + 1 = m
    BY <1>1
  <2>6. \A i \in 1 .. m : 1 + i - 1 = i
    OBVIOUS
  <2> DEFINE c == SubSeq(a, 1, m)
             e == SubSeq(b, 1, m)
  <2>7. c \in Seq(S) /\ e \in Seq(S) /\ Len(c) = m /\ Len(e) = m
        /\ \A i \in 1 .. m : c[i] = e[i]
    BY <1>3, <2>3, <2>4, <2>5, <2>6
  <2> HIDE DEF c, e
  <2>8. c = e
    BY <2>7, SeqEqual
  <2>9. QED BY <2>8 DEF c, e
<1>5. QED BY <1>1, <1>2, <1>4 DEF IsSuffix, IsPrefix, a, b, m, n

(* What is written makes rows of rows. *)
LEMMA RowsShown ==
  ASSUME NEW s, NEW n, NEW w, IsRow(s)
  PROVE  IsRow(Shows(s, n, w))
<1> DEFINE r == s.row
           k == s.kind
<1>1. s = [row |-> r, kind |-> k] /\ k \in Kinds
  BY DEF IsRow
<1> HIDE DEF r, k
<1>2. ASSUME NEW x, NEW m \in Kinds PROVE IsRow([row |-> x, kind |-> m])
  BY <1>2 DEF IsRow
<1>3. ASSUME NEW x PROVE IsRow([s EXCEPT !.row = x])
  <2>1. [s EXCEPT !.row = x] = [row |-> x, kind |-> k]
    BY <1>1
  <2>2. QED BY <1>1, <1>2, <2>1
<1>4. IsRow(Blank) /\ IsRow([row |-> <<>>, kind |-> "wrapped"])
      /\ IsRow([row |-> <<Prompt>>, kind |-> "whole"])
  BY <1>2 DEF Blank, Kinds
<1>5. IsRow(Filled(s, n, w))
  BY <1>3, <1>4 DEF Filled
<1>6. QED BY <1>3, <1>4, <1>5 DEF Shows, Prompt

LEMMA WrappedFits ==
  ASSUME NEW s, NEW l, NEW r \in Seq(InBytes),
         s = [row |-> r, kind |-> "wrapped"], Ends(r, l)
  PROVE  RowFits(s, l)
<1>1. s.kind = "wrapped" /\ IsRow(s)
  BY DEF IsRow, Kinds
<1>2. QED BY <1>1 DEF RowFits

(* What a prompt, a byte and a backspace do to a row. *)
LEMMA PromptFits ==
  ASSUME NEW s, NEW n, IsRow(s)
  PROVE  RowFits(Shows(s, n, Prompt), <<>>)
<1>1. <<Prompt>> \o <<>> = <<Prompt>>
  BY EmptySeq, BehindPrompt
<1>5. IsRow(Shows(s, n, Prompt))
  BY RowsShown
<1>2. CASE s.kind = "told"
  <2>1. Shows(s, n, Prompt) = s
    BY <1>2 DEF Shows, Prompt
  <2>2. QED BY <1>2, <1>5, <2>1 DEF RowFits
<1>3. CASE s.kind # "told"
  <2>1. Shows(s, n, Prompt) = [row |-> <<Prompt>>, kind |-> "whole"]
    BY <1>3 DEF Shows, Prompt
  <2>2. QED BY <1>1, <1>5, <2>1 DEF RowFits
<1>4. QED BY <1>2, <1>3

LEMMA ByteFits ==
  ASSUME NEW s, NEW n, NEW l \in Seq(InBytes), RowFits(s, l),
         NEW b \in InBytes, b \notin {"NL", "BS"}, b # Prompt
  PROVE  RowFits(Shows(s, n, b), Append(l, b))
<1> DEFINE t == Shows(s, n, b)
           more == Append(l, b)
<1>1. more \in Seq(InBytes) /\ IsRow(t) /\ IsRow(s)
  BY AppendProperties, RowsShown DEF RowFits
<1>2. CASE s.kind = "told"
  <2>1. t = s
    BY <1>2 DEF Shows
  <2>2. QED BY <1>2, <2>1 DEF RowFits
<1>3. CASE s.kind # "told"
  <2>1. t = Filled(s, n, b)
    BY <1>3 DEF Shows
  <2>2. CASE Len(s.row) + 1 < n
    <3>1. t = [s EXCEPT !.row = Append(s.row, b)]
      BY <2>1, <2>2 DEF Filled
    <3>2. CASE s.kind = "whole"
      <4> DEFINE q == <<Prompt>> \o l
      <4>1. s = [row |-> q, kind |-> "whole"]
        BY <3>2 DEF RowFits
      <4>2. Append(q, b) = <<Prompt>> \o more
        BY BehindPrompt
      <4> HIDE DEF q, t
      <4>3. t = [row |-> Append(q, b), kind |-> "whole"]
        BY <3>1, <4>1
      <4>4. QED BY <1>1, <4>2, <4>3 DEF RowFits, t
    <3>3. CASE s.kind = "wrapped"
      <4>1. PICK r \in Seq(InBytes) : s = [row |-> r, kind |-> "wrapped"] /\ Ends(r, l)
        BY <3>3 DEF RowFits
      <4>2. Append(r, b) \in Seq(InBytes) /\ Ends(Append(r, b), more)
        BY <4>1, AppendProperties, EndsAppend
      <4> HIDE DEF t, more
      <4>3. t = [row |-> Append(r, b), kind |-> "wrapped"]
        BY <3>1, <4>1
      <4>4. RowFits(t, more)
        BY <4>2, <4>3, WrappedFits
      <4>5. QED BY <4>4 DEF t, more
    <3>4. QED BY <1>1, <1>3, <3>2, <3>3 DEF IsRow, Kinds
  <2>3. CASE ~(Len(s.row) + 1 < n)
    <3>1. t = [row |-> <<>>, kind |-> "wrapped"]
      BY <2>1, <2>3 DEF Filled
    <3>2. <<>> \in Seq(InBytes) /\ Ends(<<>>, more)
      BY <1>1, EndsNothing
    <3> HIDE DEF t, more
    <3>3. RowFits(t, more)
      BY <3>1, <3>2, WrappedFits
    <3>4. QED BY <3>3 DEF t, more
  <2>4. QED BY <2>2, <2>3
<1>4. QED BY <1>2, <1>3

LEMMA BackspaceFits ==
  ASSUME NEW s, NEW n, NEW l \in Seq(InBytes), l # <<>>, RowFits(s, l)
  PROVE  RowFits(Shows(s, n, "BS"), Front(l))
<1> DEFINE t == Shows(s, n, "BS")
<1>1. PICK f \in Seq(InBytes), y \in InBytes : l = Append(f, y)
  BY SequenceEmptyOrAppend
<1>2. Front(l) = f /\ IsRow(t) /\ IsRow(s)
  BY <1>1, FrontAppend, RowsShown DEF RowFits
<1>3. CASE s.kind = "told"
  <2>1. t = s
    BY <1>3 DEF Shows
  <2>2. QED BY <1>3, <2>1 DEF RowFits
<1>4. CASE s.kind # "told"
  <2>1. t = IF s.row = <<>> THEN s ELSE [s EXCEPT !.row = Front(s.row)]
    BY <1>4 DEF Shows, Prompt
  <2>2. CASE s.kind = "whole"
    <3> DEFINE q == <<Prompt>> \o l
    <3>1. s = [row |-> q, kind |-> "whole"]
      BY <2>2 DEF RowFits
    <3>2. q # <<>> /\ Front(q) = <<Prompt>> \o Front(l)
      BY BehindPrompt
    <3> HIDE DEF q, t
    <3>3. t = [row |-> Front(q), kind |-> "whole"]
      BY <2>1, <3>1, <3>2
    <3>4. QED BY <1>2, <3>2, <3>3 DEF RowFits, t
  <2>3. CASE s.kind = "wrapped"
    <3>1. PICK r \in Seq(InBytes) : s = [row |-> r, kind |-> "wrapped"] /\ Ends(r, l)
      BY <2>3 DEF RowFits
    <3> HIDE DEF t
    <3>2. CASE r = <<>>
      <4>1. t = [row |-> <<>>, kind |-> "wrapped"]
        BY <2>1, <3>1, <3>2
      <4>2. <<>> \in Seq(InBytes) /\ Ends(<<>>, f)
        BY EndsNothing
      <4>3. RowFits(t, f)
        BY <4>1, <4>2, WrappedFits
      <4>4. QED BY <1>2, <4>3 DEF t
    <3>3. CASE r # <<>>
      <4>1. PICK g \in Seq(InBytes), x \in InBytes : r = Append(g, x)
        BY <3>3, SequenceEmptyOrAppend
      <4>2. Front(r) = g
        BY <4>1, FrontAppend
      <4>3. Ends(g, f)
        BY <1>1, <3>1, <4>1, EndsAppend
      <4>4. t = [row |-> g, kind |-> "wrapped"]
        BY <2>1, <3>1, <3>3, <4>2
      <4>5. RowFits(t, f)
        BY <4>3, <4>4, WrappedFits
      <4>6. QED BY <1>2, <4>5 DEF t
    <3>4. QED BY <3>2, <3>3
  <2>4. QED BY <1>2, <1>4, <2>2, <2>3 DEF IsRow, Kinds
<1>5. QED BY <1>3, <1>4

(* What is written changes every output, and leaves rows everywhere. *)
LEMMA Written ==
  ASSUME outputs \in Seq(Devices), NEW w, WriteOut(w),
         \A d \in Devices : IsRow(screen[d])
  PROVE  /\ \A d \in ToSet(outputs) :
              d \in Devices /\ screen'[d] = Shows(screen[d], Width[d], w)
         /\ \A d \in Devices : IsRow(screen'[d])
<1>1. ToSet(outputs) \subseteq Devices
  BY ElementOfSeq, LenProperties DEF ToSet
<1>2. \A d \in ToSet(outputs) : d \in Sinks(term)
  BY DEF Sinks
<1>3. \A d \in Devices : screen'[d] = IF d \in Sinks(term)
                                      THEN Shows(screen[d], Width[d], w) ELSE screen[d]
  BY DEF WriteOut
<1>4. \A d \in Devices : IsRow(Shows(screen[d], Width[d], w))
  BY RowsShown
<1>5. QED BY <1>1, <1>2, <1>3, <1>4

LEMMA LineHolds == Spec => []LineInv
<1>1. Init => LineInv
  <2> SUFFICES ASSUME Init PROVE LineInv
    OBVIOUS
  <2>1. /\ outputs = <<>> /\ line = <<>> /\ edited = <<>> /\ entered = NoLine
        /\ at = "setup_arch" /\ screen = [d \in Devices |-> Blank]
    BY DEF Init
  <2>5. IsRow(Blank)
    BY DEF IsRow, Blank, Kinds
  <2>2. <<>> \in Seq(Devices) /\ <<>> \in Seq(InBytes)
    BY EmptySeq
  <2>3. Meant(<<>>) = <<>> /\ NoLine.text = <<>> /\ NoLine.typed = <<>> /\ ~Reading
    BY <2>1, MeantNothing DEF NoLine, Reading
  <2>4. QED BY <2>1, <2>2, <2>3, <2>5 DEF LineInv
<1>2. InputInv /\ LineInv /\ [Next]_vars => LineInv'
  <2> SUFFICES ASSUME InputInv, LineInv, [Next]_vars PROVE LineInv'
    OBVIOUS
  <2>1. /\ outputs \in Seq(Devices)
        /\ edited \in Seq(InBytes) /\ line \in Seq(InBytes)
        /\ line = Meant(edited)
        /\ entered.text = Meant(entered.typed)
        /\ ~Reading => line = <<>>
        /\ \A d \in Devices : IsRow(screen[d])
        /\ Reading /\ term # None => \A d \in ToSet(outputs) : RowFits(screen[d], line)
        /\ batch \in Seq(InBytes)
    BY DEF LineInv, InputInv
  <2>2. NoLine.text = Meant(NoLine.typed)
    BY MeantNothing DEF NoLine
  <2>3. \A b \in InBytes : b # Prompt
    BY BytesAreHeld
  <2>4. CASE /\ UNCHANGED <<outputs, edited, line, entered, screen, term>>
             /\ Reading' <=> Reading
    BY <2>1, <2>4 DEF LineInv
  <2>5. CASE Boot
    <3>1. UNCHANGED <<edited, line, entered, screen>>
      BY <2>5 DEF Boot, BootPrint, SetupArch, UartSetup, FbSetup, KeyboardSetup, DriversDone,
                  TerminalInit, KeepShell
    <3>2. ~Reading /\ ~Reading'
      BY <2>5 DEF Boot, BootPrint, SetupArch, UartSetup, FbSetup, KeyboardSetup, DriversDone,
                  TerminalInit, Booting, Reading
    <3>3. outputs' \in Seq(Devices)
      <4>1. outputs' = outputs \/ (\E d \in Devices : outputs' = Append(outputs, d))
        BY <2>5 DEF Boot, BootPrint, SetupArch, UartSetup, FbSetup, KeyboardSetup, DriversDone,
                    TerminalInit, registryVars, Devices
      <4>2. \A d \in Devices : Append(outputs, d) \in Seq(Devices)
        BY <2>1, AppendProperties
      <4>3. QED BY <2>1, <4>1, <4>2
    <3>4. QED BY <2>1, <3>1, <3>2, <3>3 DEF LineInv
  <2>6. CASE Start
    <3>1. /\ UNCHANGED <<edited, line, entered, outputs, term>> /\ line = <<>>
          /\ IF term = None THEN screen' = screen ELSE WelcomeOut
      <4>1. ~Reading
        BY <2>6 DEF Start, Reading
      <4>2. QED BY <2>1, <2>6, <4>1 DEF Start, KeepDevices, registryVars
    <3>2. /\ \A d \in Devices : IsRow(screen'[d])
          /\ term # None => \A d \in ToSet(outputs) : RowFits(screen'[d], line)
      <4>1. CASE term = None
        BY <2>1, <3>1, <4>1
      <4>2. CASE term # None
        <5> DEFINE new(d) == Shows(Shows(screen[d], Width[d], "NL"), Width[d], Prompt)
        <5>1. \A d \in Devices : screen'[d] = IF d \in Sinks(term) THEN new(d) ELSE screen[d]
          BY <3>1, <4>2 DEF WelcomeOut
        <5>2. \A d \in Devices : IsRow(Shows(screen[d], Width[d], "NL"))
          BY <2>1, RowsShown
        <5>3. \A d \in Devices : RowFits(new(d), <<>>) /\ IsRow(new(d))
          BY <5>2, PromptFits, RowsShown
        <5> HIDE DEF new
        <5>4. \A d \in ToSet(outputs) : d \in Devices /\ d \in Sinks(term)
          BY <2>1, ElementOfSeq, LenProperties DEF ToSet, Sinks
        <5>5. QED BY <2>1, <3>1, <5>1, <5>3, <5>4
      <4>3. QED BY <4>1, <4>2
    <3>3. Reading'
      BY <2>6 DEF Start, Reading
    <3>4. QED BY <2>1, <3>1, <3>2, <3>3 DEF LineInv
  <2>7. CASE Poll \/ ReadUart \/ ReadKbd \/ PollDone \/ InputDone
    <3>1. UNCHANGED <<outputs, edited, line, entered, screen, term>>
      BY <2>7 DEF Poll, ReadUart, ReadKbd, PollDone, InputDone, KeepDevices, registryVars
    <3>2. Reading' /\ Reading
      BY <2>7 DEF Poll, ReadUart, ReadKbd, PollDone, InputDone, Reading
    <3>3. QED BY <2>4, <3>1, <3>2
  <2>8. CASE EditLine
    <3> DEFINE b == Head(batch)
    <3>1. /\ b \in InBytes /\ b # "NL" /\ b # Prompt /\ edited' = Append(edited, b)
          /\ UNCHANGED <<outputs, entered, term, at>> /\ Reading /\ Reading'
      <4>1. batch # <<>> /\ Head(batch) # "NL" /\ edited' = Append(edited, Head(batch))
            /\ UNCHANGED <<outputs, entered, term, at>> /\ at = "process"
        BY <2>8 DEF EditLine, KeepDevices, registryVars
      <4>2. Head(batch) \in InBytes
        BY <2>1, <4>1, HeadTailProperties
      <4>3. QED BY <2>3, <4>1, <4>2 DEF Reading
    <3>2. /\ b = "BS" => Erase
          /\ b = "ESC" => UNCHANGED <<line, screen>>
          /\ b \notin {"BS", "ESC"} => Insert(b)
      BY <2>8 DEF EditLine
    <3> HIDE DEF b
    <3>3. /\ edited' \in Seq(InBytes)
          /\ b = "ESC" => Meant(edited') = line
          /\ b = "BS" => Meant(edited') = IF line = <<>> THEN line ELSE Front(line)
          /\ b \notin {"ESC", "BS"} => Meant(edited') = Append(line, b)
      <4>1. Append(edited, b) \in Seq(InBytes)
        BY <2>1, <3>1, AppendProperties
      <4>2. /\ b = "ESC" => Meant(Append(edited, b)) = Meant(edited)
            /\ b = "BS" => Meant(Append(edited, b)) =
                             IF Meant(edited) = <<>> THEN Meant(edited) ELSE Front(Meant(edited))
            /\ b \notin {"ESC", "BS"} => Meant(Append(edited, b)) = Append(Meant(edited), b)
        BY <2>1, <3>1, MeantAppend
      <4>3. QED BY <2>1, <3>1, <4>1, <4>2
    <3>5. CASE b = "ESC" \/ (b = "BS" /\ line = <<>>)
      <4>1. UNCHANGED <<line, screen>>
        BY <3>2, <3>5 DEF Erase
      <4>2. line' = Meant(edited')
        BY <3>3, <3>5, <4>1
      <4>3. QED BY <2>1, <3>1, <3>3, <4>1, <4>2 DEF LineInv
    <3>6. CASE b = "BS" /\ line # <<>>
      <4>1. line' = Front(line) /\ WriteOut("BS")
        BY <3>2, <3>6 DEF Erase
      <4>2. line' = Meant(edited')
        BY <3>3, <3>6, <4>1
      <4>3. line' \in Seq(InBytes)
        <5>1. line \in Seq(InBytes) /\ line # <<>>
          BY <2>1, <3>6
        <5>2. \E s \in Seq(InBytes), x \in InBytes : line = Append(s, x)
          BY <5>1, SequenceEmptyOrAppend
        <5>3. QED BY <4>1, <5>2, FrontAppend
      <4>4. /\ \A d \in ToSet(outputs) :
                 d \in Devices /\ screen'[d] = Shows(screen[d], Width[d], "BS")
            /\ \A d \in Devices : IsRow(screen'[d])
        BY <2>1, <4>1, Written
      <4>5. ASSUME term # None, NEW d \in ToSet(outputs) PROVE RowFits(screen'[d], line')
        <5>1. RowFits(screen[d], line)
          BY <2>1, <3>1, <4>5
        <5>2. RowFits(Shows(screen[d], Width[d], "BS"), Front(line))
          BY <2>1, <3>6, <5>1, BackspaceFits
        <5>3. QED BY <4>1, <4>4, <5>2
      <4>6. QED BY <2>1, <3>1, <3>3, <4>2, <4>3, <4>4, <4>5 DEF LineInv
    <3>7. CASE b \notin {"ESC", "BS"}
      <4>1. line' = Append(line, b) /\ WriteOut(b)
        BY <3>2, <3>7 DEF Insert
      <4>2. line' = Meant(edited')
        BY <3>3, <3>7, <4>1
      <4>3. line' \in Seq(InBytes)
        BY <2>1, <3>1, <4>1, AppendProperties
      <4>4. /\ \A d \in ToSet(outputs) :
                 d \in Devices /\ screen'[d] = Shows(screen[d], Width[d], b)
            /\ \A d \in Devices : IsRow(screen'[d])
        BY <2>1, <4>1, Written
      <4>5. ASSUME term # None, NEW d \in ToSet(outputs) PROVE RowFits(screen'[d], line')
        <5>1. RowFits(screen[d], line)
          BY <2>1, <3>1, <4>5
        <5>2. RowFits(Shows(screen[d], Width[d], b), Append(line, b))
          BY <2>1, <3>1, <3>7, <5>1, ByteFits
        <5>3. QED BY <4>1, <4>4, <5>2
      <4>6. QED BY <2>1, <3>1, <3>3, <4>2, <4>3, <4>4, <4>5 DEF LineInv
    <3>8. QED BY <3>5, <3>6, <3>7
  <2>9. CASE EnterLine
    <3>1. /\ entered' = [text |-> line, typed |-> edited] /\ line' = <<>> /\ edited' = <<>>
          /\ at' = "on_line" /\ UNCHANGED <<outputs, term>> /\ WriteOut("NL")
      BY <2>9 DEF EnterLine, KeepDevices, registryVars
    <3>2. entered'.text = Meant(entered'.typed) /\ line' = Meant(edited') /\ ~Reading'
      BY <2>1, <3>1, MeantNothing DEF Reading
    <3>3. <<>> \in Seq(InBytes)
      BY EmptySeq
    <3>4. \A d \in Devices : IsRow(screen'[d])
      BY <2>1, <3>1, Written
    <3>5. QED BY <2>1, <3>1, <3>2, <3>3, <3>4 DEF LineInv
  <2>10. CASE /\ UNCHANGED <<outputs, edited, line, term>>
              /\ ~Reading /\ Answered
    <3>1. /\ entered' = NoLine /\ Reading' /\ line = <<>> /\ WriteOut(Prompt)
      BY <2>1, <2>10 DEF Answered, Reading
    <3>2. /\ \A d \in ToSet(outputs) : RowFits(screen'[d], line)
          /\ \A d \in Devices : IsRow(screen'[d])
      <4>1. /\ \A d \in ToSet(outputs) :
                 d \in Devices /\ screen'[d] = Shows(screen[d], Width[d], Prompt)
            /\ \A d \in Devices : IsRow(screen'[d])
        BY <2>1, <3>1, Written
      <4>2. \A d \in Devices : RowFits(Shows(screen[d], Width[d], Prompt), <<>>)
        BY <2>1, PromptFits
      <4>3. QED BY <3>1, <4>1, <4>2
    <3>3. QED BY <2>1, <2>2, <2>10, <3>1, <3>2 DEF LineInv
  <2>11. CASE RunText \/ BusyWaited
    <3>1. /\ UNCHANGED <<outputs, edited, line, term>> /\ ~Reading /\ Answered
      BY <2>11 DEF RunText, BusyWaited, KeepDevices, registryVars, Reading
    <3>2. QED BY <2>10, <3>1
  <2>12. CASE RunWatchdog
    <3>1. /\ UNCHANGED <<outputs, edited, line, term>> /\ ~Reading
          /\ Answered \/ UNCHANGED <<screen, entered, at>>
      BY <2>12 DEF RunWatchdog, KeepDevices, registryVars, Reading
    <3>2. CASE Answered
      BY <2>10, <3>1, <3>2
    <3>3. CASE UNCHANGED <<screen, entered, at>>
      BY <2>4, <3>1, <3>3 DEF Reading
    <3>4. QED BY <3>1, <3>2, <3>3
  <2>13. CASE RunPower
    <3>1. UNCHANGED <<outputs, edited, line, entered, screen, term>>
      BY <2>13 DEF RunPower, KeepDevices, registryVars
    <3>2. ~Reading /\ ~Reading'
      BY <2>13 DEF RunPower, Reading
    <3>3. QED BY <2>4, <3>1, <3>2
  <2>14. CASE UartIrq \/ KeyboardIrq \/ Type \/ Tick \/ HardwareTick
    <3>1. UNCHANGED <<outputs, edited, line, entered, screen, term, at>>
      BY <2>14 DEF UartIrq, KeyboardIrq, Type, Tick, HardwareTick, KeepTask,
                   shellVars, registryVars
    <3>2. QED BY <2>4, <3>1 DEF Reading
  <2>15. CASE UNCHANGED vars
    <3>1. UNCHANGED <<outputs, edited, line, entered, screen, term, at>>
      BY <2>15 DEF vars, shellVars, registryVars
    <3>2. QED BY <2>4, <3>1 DEF Reading
  <2>16. CASE KernelMessage
    <3>1. /\ UNCHANGED <<outputs, edited, line, entered, term, at>>
          /\ screen' = [d \in Devices |-> IF d \in ToSet(con.list) THEN Told ELSE screen[d]]
      BY <2>16 DEF KernelMessage, registryVars
    <3>2. IsRow(Told) /\ \A l : RowFits(Told, l)
      BY DEF IsRow, Told, Kinds, RowFits
    <3>3. \A d \in Devices : screen'[d] = Told \/ screen'[d] = screen[d]
      BY <3>1
    <3>4. \A d \in ToSet(outputs) : d \in Devices
      BY <2>1, ElementOfSeq, LenProperties DEF ToSet
    <3>5. \A d \in Devices : IsRow(screen'[d])
      BY <2>1, <3>2, <3>3
    <3>6. (Reading /\ term # None)' => \A d \in ToSet(outputs) : RowFits(screen'[d], line)
      BY <2>1, <3>1, <3>2, <3>3, <3>4 DEF Reading
    <3>7. QED BY <2>1, <3>1, <3>5, <3>6 DEF LineInv, Reading
  <2>17. QED BY <2>5, <2>6, <2>7, <2>8, <2>9, <2>11, <2>12, <2>13, <2>14, <2>15, <2>16
            DEF Next, ShellTask, Interrupts
<1>3. QED BY <1>1, <1>2, InputHolds, PTL DEF Spec

(* Whatever interrupts arrive between two reads and however the task and
   they interleave, both rings hold the newest of the bytes that came, in
   their order, and the line that is edited and the one that is handed over
   are what the bytes mean (NothingTypedIsLost, common/ring_array.rs:19-65,
   kernel/terminal.rs:56-116). *)
THEOREM TypedIsNotLost == Spec => []NothingTypedIsLost
<1>1. InputInv /\ LineInv => NothingTypedIsLost
  <2> SUFFICES ASSUME InputInv, LineInv PROVE NothingTypedIsLost
    OBVIOUS
  <2>1. HoldsNewest(uart.ring, uart.log)
    <3>1. uart.ring \in Rings(UartLen, RingBytes) /\ uart.log \in Seq(RingBytes)
          /\ Represents(uart.ring, uart.log)
      BY BytesAreHeld, SeqWider DEF InputInv
    <3>2. QED BY <3>1, RepresentedIsHeld, TerminalAssumption
  <2>2. HoldsNewest(kbd.queue, kbd.log)
    <3>1. kbd.queue \in Rings(QueueLen, RingBytes) /\ kbd.log \in Seq(InBytes)
          /\ Represents(kbd.queue, kbd.log)
      BY DEF InputInv, KeyboardOk, KeyboardStates
    <3>2. kbd.log \in Seq(RingBytes)
      BY <3>1, BytesAreHeld, SeqWider
    <3>3. QED BY <3>1, <3>2, RepresentedIsHeld, KeyboardAssumption
  <2>3. QED BY <2>1, <2>2 DEF LineInv, NothingTypedIsLost
<1>2. QED BY <1>1, InputHolds, LineHolds, PTL

(* Every registered output, however wide, shows the prompt and the line
   while the shell waits, whatever was typed and erased and whichever device
   it came from, as long as the line stays on one row; after that it shows the
   end of the line.  Where a kernel message came between nothing is said of
   the line that it came into, and the next one is shown again
   (ScreenShowsLine, kernel/terminal.rs:74-116, 136-143). *)
THEOREM ScreensShowTheLine == Spec => []ScreenShowsLine
<1>1. LineInv => ScreenShowsLine
  <2> SUFFICES ASSUME LineInv, at = "wait", term # None, NEW d \in ToSet(outputs)
               PROVE  /\ screen[d].kind = "whole" => screen[d].row = <<Prompt>> \o line
                      /\ screen[d].kind = "wrapped" => IsSuffix(screen[d].row, line)
    BY DEF ScreenShowsLine
  <2>1. RowFits(screen[d], line) /\ line \in Seq(InBytes)
    BY DEF LineInv, Reading
  <2>2. CASE screen[d].kind = "whole"
    <3>1. screen[d].row = <<Prompt>> \o line
      BY <2>1, <2>2 DEF RowFits
    <3>2. QED BY <2>2, <3>1
  <2>3. CASE screen[d].kind = "wrapped"
    <3>1. PICK r \in Seq(InBytes) : screen[d] = [row |-> r, kind |-> "wrapped"] /\ Ends(r, line)
      BY <2>1, <2>3 DEF RowFits
    <3>2. screen[d].row = r
      BY <3>1
    <3>3. IsSuffix(r, line)
      BY <2>1, <3>1, EndsIsSuffix
    <3>4. QED BY <2>3, <3>2, <3>3
  <2>4. QED BY <2>2, <2>3
<1>2. QED BY <1>1, LineHolds, PTL
=============================================================================
