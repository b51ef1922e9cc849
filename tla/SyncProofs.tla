----------------------------- MODULE SyncProofs -----------------------------
(***************************************************************************)
(* Proofs about the kernel's synchronisation: SpinLocks, for any number of *)
(* tasks, and OnceLock, for any number of threads and any values.  The two *)
(* share nothing but this module.                                          *)
(*                                                                         *)
(* SpinLocks.  What a routine still has to do is judged by the states it   *)
(* runs through: how deep the interrupt mask is nested and which of the    *)
(* handlers' locks it holds.  A task may hold one only under the mask.     *)
(* Every routine is shown to run from a context that holds nothing back to *)
(* one, through such states only, by the way it is put together from       *)
(* guards; that the rest of each routine still does is the heart of the    *)
(* invariant.                                                              *)
(*                                                                         *)
(* OnceLock.  Its invariants are inductive together with StatusTells,      *)
(* which ties the status word to where the threads are.                    *)
(***************************************************************************)
EXTENDS SpinLocks, OnceLock, SequenceTheorems, TLAPS

(* The provers may take their time on a slow machine. *)
USE SMTT(30), ZenonT(30)

Ops == {Mask, Unmask} \union {Take(l) : l \in Locks} \union {Give(l) : l \in Locks}

(* The states a context may be in: a task holds a lock that handlers take
   only with interrupts masked. *)
Holdings(irq) ==
  {h \in [depth : Nat, held : SUBSET HandlerLocks] :
     irq \/ h.depth > 0 \/ h.held = {}}
Nothing == [depth |-> 0, held |-> {}]

(* One operation, where it is allowed: no mask is restored that was not
   saved, no lock taken twice or given back that is not held. *)
Allowed(op, h) ==
  CASE op.do = "mask"   -> TRUE
    [] op.do = "unmask" -> h.depth > 0
    [] op.do = "take"   -> op.lock \notin h.held
    [] op.do = "give"   -> op.lock \in HandlerLocks => op.lock \in h.held
After(op, h) ==
  CASE op.do = "mask"   -> [depth |-> h.depth + 1, held |-> h.held]
    [] op.do = "unmask" -> [depth |-> h.depth - 1, held |-> h.held]
    [] op.do = "take"   -> [depth |-> h.depth,
                            held |-> h.held \union ({op.lock} \intersect HandlerLocks)]
    [] op.do = "give"   -> [depth |-> h.depth, held |-> h.held \ {op.lock}]

(* The operations s lead from a to b through states f of the right kind. *)
Trace(f, irq, s, a, b) ==
  /\ f \in [1..(Len(s) + 1) -> Holdings(irq)]
  /\ f[1] = a
  /\ f[Len(s) + 1] = b
  /\ \A i \in 1..Len(s) : Allowed(s[i], f[i]) /\ f[i + 1] = After(s[i], f[i])
Runs(irq, s, a, b) == s \in Seq(Ops) /\ \E f : Trace(f, irq, s, a, b)

(* A body that gives back all it takes. *)
Neutral(irq, s, h) == Runs(irq, s, h, h)

-----------------------------------------------------------------------------
(* Runs. *)

(* Nothing to do leads nowhere else. *)
LEMMA RunsEmpty ==
  ASSUME NEW irq \in BOOLEAN, NEW a \in Holdings(irq)
  PROVE  /\ Runs(irq, <<>>, a, a)
         /\ \A b, c : Runs(irq, <<>>, b, c) => b = c
<1>1. Len(<<>>) = 0 /\ <<>> \in Seq(Ops)
  BY EmptySeq
<1>2. Trace([i \in 1..1 |-> a], irq, <<>>, a, a)
  BY <1>1 DEF Trace
<1>3. ASSUME NEW b, NEW c, Runs(irq, <<>>, b, c) PROVE b = c
  <2>1. PICK f : Trace(f, irq, <<>>, b, c)
    BY <1>3 DEF Runs
  <2>2. f[1] = b /\ f[0 + 1] = c
    BY <1>1, <2>1 DEF Trace
  <2>3. QED BY <2>2
<1>4. Runs(irq, <<>>, a, a)
  BY <1>1, <1>2 DEF Runs
<1>5. QED BY <1>3, <1>4

(* One operation. *)
LEMMA RunsOne ==
  ASSUME NEW irq \in BOOLEAN, NEW a \in Holdings(irq), NEW op \in Ops,
         Allowed(op, a), After(op, a) \in Holdings(irq)
  PROVE  Runs(irq, <<op>>, a, After(op, a))
<1> DEFINE f == [i \in 1..2 |-> IF i = 1 THEN a ELSE After(op, a)]
           s == <<op>>
<1>1. Len(s) = 1 /\ s[1] = op /\ s \in Seq(Ops)
  OBVIOUS
<1>2. f \in [1..2 -> Holdings(irq)] /\ f[1] = a /\ f[2] = After(op, a)
  OBVIOUS
<1> HIDE DEF f, s
<1>3. Trace(f, irq, s, a, After(op, a))
  BY <1>1, <1>2 DEF Trace
<1>4. Runs(irq, s, a, After(op, a))
  BY <1>1, <1>3 DEF Runs
<1>5. QED BY <1>4 DEF s

(* One run after another. *)
LEMMA RunsConcat ==
  ASSUME NEW irq \in BOOLEAN, NEW s, NEW t, NEW a, NEW b, NEW c,
         Runs(irq, s, a, b), Runs(irq, t, b, c)
  PROVE  Runs(irq, s \o t, a, c)
<1>1. PICK f : Trace(f, irq, s, a, b)
  BY DEF Runs
<1>2. PICK g : Trace(g, irq, t, b, c)
  BY DEF Runs
<1> DEFINE m == Len(s)
           n == Len(t)
           u == s \o t
           h == [i \in 1..(m + n + 1) |-> IF i <= m THEN f[i] ELSE g[i - m]]
<1>3. m \in Nat /\ n \in Nat
  BY LenProperties DEF Runs
<1>4. /\ u \in Seq(Ops) /\ Len(u) = m + n
      /\ \A i \in 1..(m + n) : u[i] = IF i <= m THEN s[i] ELSE t[i - m]
  BY ConcatProperties DEF Runs
<1>5. /\ f \in [1..(m + 1) -> Holdings(irq)] /\ f[1] = a /\ f[m + 1] = b
      /\ \A i \in 1..m : Allowed(s[i], f[i]) /\ f[i + 1] = After(s[i], f[i])
  BY <1>1 DEF Trace
<1>6. /\ g \in [1..(n + 1) -> Holdings(irq)] /\ g[1] = b /\ g[n + 1] = c
      /\ \A i \in 1..n : Allowed(t[i], g[i]) /\ g[i + 1] = After(t[i], g[i])
  BY <1>2 DEF Trace
<1> HIDE DEF m, n, u
<1>7. /\ \A i \in 1..(m + 1) : h[i] = f[i]
      /\ \A i \in 1..(n + 1) : h[m + i] = g[i]
  BY <1>3, <1>5, <1>6
<1>8. h \in [1..(m + n + 1) -> Holdings(irq)]
  BY <1>3, <1>5, <1>6
<1> HIDE DEF h
<1>9. ASSUME NEW i \in 1..(m + n)
      PROVE  Allowed(u[i], h[i]) /\ h[i + 1] = After(u[i], h[i])
  <2>1. CASE i <= m
    <3>1. i \in 1..m /\ i \in 1..(m + 1) /\ i + 1 \in 1..(m + 1)
      BY <1>3, <2>1
    <3>2. u[i] = s[i] /\ h[i] = f[i] /\ h[i + 1] = f[i + 1]
      BY <1>4, <1>7, <2>1, <3>1
    <3>3. QED BY <1>5, <3>1, <3>2
  <2>2. CASE i > m
    <3>1. PICK j \in 1..n : i = m + j
      BY <1>3, <2>2
    <3>2. j \in 1..(n + 1) /\ j + 1 \in 1..(n + 1) /\ i + 1 = m + (j + 1)
          /\ i - m = j /\ ~(i <= m)
      BY <1>3, <3>1
    <3>3. u[i] = t[j] /\ h[i] = g[j] /\ h[i + 1] = g[j + 1]
      BY <1>4, <1>7, <3>1, <3>2
    <3>4. QED BY <1>6, <3>3
  <2>3. QED BY <1>3, <2>1, <2>2
<1>10. h[1] = a /\ h[m + n + 1] = c
  BY <1>3, <1>5, <1>6, <1>7
<1>11. Trace(h, irq, u, a, c)
  BY <1>4, <1>8, <1>9, <1>10 DEF Trace
<1>12. QED BY <1>4, <1>11 DEF Runs, u

(* The first operation of a run is allowed, and the rest runs on. *)
LEMMA RunsTail ==
  ASSUME NEW irq \in BOOLEAN, NEW s, NEW a, NEW b,
         Runs(irq, s, a, b), s # <<>>
  PROVE  /\ s \in Seq(Ops)
         /\ Head(s) \in Ops
         /\ a \in Holdings(irq)
         /\ Allowed(Head(s), a)
         /\ After(Head(s), a) \in Holdings(irq)
         /\ Runs(irq, Tail(s), After(Head(s), a), b)
<1>1. PICK f : Trace(f, irq, s, a, b)
  BY DEF Runs
<1>2. s \in Seq(Ops)
  BY DEF Runs
<1> DEFINE n == Len(s)
           t == Tail(s)
           g == [i \in 1..n |-> f[i + 1]]
<1>3. n \in Nat \ {0}
  BY <1>2, EmptySeq
<1>4. /\ t \in Seq(Ops) /\ Len(t) = n - 1 /\ Head(s) \in Ops
      /\ \A i \in 1..(n - 1) : t[i] = s[i + 1]
  BY <1>2, HeadTailProperties
<1>5. Head(s) = s[1]
  BY <1>2
<1>6. /\ f \in [1..(n + 1) -> Holdings(irq)] /\ f[1] = a /\ f[n + 1] = b
      /\ \A i \in 1..n : Allowed(s[i], f[i]) /\ f[i + 1] = After(s[i], f[i])
  BY <1>1 DEF Trace
<1> HIDE DEF n, t
<1>7. Allowed(Head(s), a) /\ f[2] = After(Head(s), a) /\ a \in Holdings(irq)
      /\ f[2] \in Holdings(irq)
  BY <1>3, <1>5, <1>6
<1>8. /\ g \in [1..n -> Holdings(irq)] /\ g[1] = f[2] /\ g[n] = b
      /\ \A i \in 1..n : g[i] = f[i + 1]
  BY <1>3, <1>6
<1> HIDE DEF g
<1>9. ASSUME NEW i \in 1..(n - 1)
      PROVE  Allowed(t[i], g[i]) /\ g[i + 1] = After(t[i], g[i])
  <2>1. i \in 1..n /\ i + 1 \in 1..n
    BY <1>3
  <2>2. t[i] = s[i + 1] /\ g[i] = f[i + 1] /\ g[i + 1] = f[(i + 1) + 1]
    BY <1>4, <1>8, <2>1
  <2>3. QED BY <1>6, <2>1, <2>2
<1>10. n - 1 + 1 = n
  BY <1>3
<1>11. Trace(g, irq, t, f[2], b)
  BY <1>4, <1>8, <1>9, <1>10 DEF Trace
<1>12. QED BY <1>2, <1>4, <1>7, <1>11 DEF Runs, t
-----------------------------------------------------------------------------
(* Guards and routines. *)

(* What one operation of each kind does to a state. *)
LEMMA Steps ==
  ASSUME NEW irq \in BOOLEAN, NEW h \in Holdings(irq), NEW l \in Locks
  PROVE  /\ {Mask, Unmask, Take(l), Give(l)} \subseteq Ops
         /\ Allowed(Mask, h)
         /\ After(Mask, h) = [depth |-> h.depth + 1, held |-> h.held]
         /\ Allowed(Unmask, h) <=> h.depth > 0
         /\ After(Unmask, h) = [depth |-> h.depth - 1, held |-> h.held]
         /\ Allowed(Take(l), h) <=> l \notin h.held
         /\ After(Take(l), h) =
              [depth |-> h.depth, held |-> h.held \union ({l} \intersect HandlerLocks)]
         /\ Allowed(Give(l), h) <=> (l \in HandlerLocks => l \in h.held)
         /\ After(Give(l), h) = [depth |-> h.depth, held |-> h.held \ {l}]
BY DEF Ops, Mask, Unmask, Take, Give, Allowed, After

(* A record of a depth and a set of locks is what its fields are. *)
LEMMA SameHoldings ==
  ASSUME NEW irq, NEW h \in Holdings(irq)
  PROVE  /\ h = [depth |-> h.depth, held |-> h.held]
         /\ h.depth \in Nat /\ h.held \subseteq HandlerLocks
         /\ irq \/ h.depth > 0 \/ h.held = {}
BY DEF Holdings

(* Bodies one after the other. *)
LEMMA NeutralConcat ==
  ASSUME NEW irq \in BOOLEAN, NEW h, NEW s, NEW t,
         Neutral(irq, s, h), Neutral(irq, t, h)
  PROVE  Neutral(irq, s \o t, h)
BY RunsConcat DEF Neutral

(* An allocator's lock says nothing about handlers. *)
LEMMA AllocatorGuard ==
  ASSUME NEW irq \in BOOLEAN, NEW h \in Holdings(irq), NEW l \in AllocatorLocks,
         NEW s, Neutral(irq, s, h)
  PROVE  Neutral(irq, WithLock(l, s), h)
<1>1. l \in Locks /\ l \notin HandlerLocks
  BY DEF Locks, AllocatorLocks, HandlerLocks
<1>2. l \notin h.held
  BY <1>1, SameHoldings
<1>3. /\ Allowed(Take(l), h) /\ After(Take(l), h) = h
      /\ Allowed(Give(l), h) /\ After(Give(l), h) = h
      /\ Take(l) \in Ops /\ Give(l) \in Ops
  <2>1. h.held \union ({l} \intersect HandlerLocks) = h.held /\ h.held \ {l} = h.held
    BY <1>1, <1>2
  <2>2. [depth |-> h.depth, held |-> h.held] = h
    BY SameHoldings
  <2> DEFINE ls == h.held \union ({l} \intersect HandlerLocks)
  <2>3. After(Take(l), h) = [depth |-> h.depth, held |-> ls]
    BY <1>1, Steps
  <2> HIDE DEF ls
  <2>4. ls = h.held
    BY <2>1 DEF ls
  <2>5. After(Take(l), h) = h
    BY <2>2, <2>3, <2>4, Zenon
  <2>6. After(Give(l), h) = h
    BY <1>1, <2>1, <2>2, Steps, Zenon
  <2>7. QED BY <1>1, <1>2, <2>5, <2>6, Steps
<1>4. Runs(irq, <<Take(l)>>, h, h) /\ Runs(irq, <<Give(l)>>, h, h)
  BY <1>3, RunsOne
<1>5. QED BY <1>4, RunsConcat DEF Neutral, WithLock

(* The plain guard of a handler's lock is for handlers and for sections
   that mask interrupts. *)
LEMMA PlainGuard ==
  ASSUME NEW irq \in BOOLEAN, NEW h \in Holdings(irq), NEW l \in HandlerLocks,
         NEW s, l \notin h.held, irq \/ h.depth > 0,
         Neutral(irq, s, [depth |-> h.depth, held |-> h.held \union {l}])
  PROVE  Neutral(irq, WithLock(l, s), h)
<1> DEFINE k == [depth |-> h.depth, held |-> h.held \union {l}]
<1>1. l \in Locks
  BY DEF Locks
<1>2. k \in Holdings(irq) /\ k.depth = h.depth /\ k.held = h.held \union {l}
  BY SameHoldings DEF Holdings
<1>3. Allowed(Take(l), h) /\ After(Take(l), h) = k
  <2>1. {l} \intersect HandlerLocks = {l}
    OBVIOUS
  <2>2. QED BY <1>1, <2>1, Steps
<1>4. Allowed(Give(l), k) /\ After(Give(l), k) = h
  <2>1. k.held \ {l} = h.held
    BY <1>2
  <2>2. [depth |-> h.depth, held |-> h.held] = h
    BY SameHoldings
  <2> HIDE DEF k
  <2>3. After(Give(l), k) = [depth |-> k.depth, held |-> k.held \ {l}]
    BY <1>1, <1>2, Steps
  <2>4. After(Give(l), k) = h
    BY <1>2, <2>1, <2>2, <2>3, Zenon
  <2>5. QED BY <1>1, <1>2, <2>4, Steps
<1>5. Take(l) \in Ops /\ Give(l) \in Ops
  BY <1>1, Steps
<1> HIDE DEF k
<1>6. Runs(irq, <<Take(l)>>, h, k) /\ Runs(irq, <<Give(l)>>, k, h)
  BY <1>2, <1>3, <1>4, <1>5, RunsOne
<1>7. Runs(irq, s, k, k)
  BY DEF Neutral, k
<1>8. QED BY <1>6, <1>7, RunsConcat DEF Neutral, WithLock

(* A section with interrupts masked, and the guard of lock_irq. *)
LEMMA MaskedSection ==
  ASSUME NEW irq \in BOOLEAN, NEW h \in Holdings(irq), NEW s,
         Neutral(irq, s, [depth |-> h.depth + 1, held |-> h.held])
  PROVE  Neutral(irq, WithoutIrqFiq(s), h)
<1> DEFINE k == [depth |-> h.depth + 1, held |-> h.held]
<1>1. k \in Holdings(irq) /\ k.depth = h.depth + 1 /\ k.held = h.held
  BY SameHoldings DEF Holdings
<1>2. Allowed(Mask, h) /\ After(Mask, h) = k /\ Mask \in Ops
  BY Steps DEF Locks, HandlerLocks
<1>3. Allowed(Unmask, k) /\ After(Unmask, k) = h /\ Unmask \in Ops
  <2>1. k.depth > 0 /\ k.depth - 1 = h.depth
    BY <1>1, SameHoldings
  <2>2. "uart" \in Locks
    BY DEF Locks, HandlerLocks
  <2>3. QED BY <1>1, <2>1, <2>2, Steps, SameHoldings
<1> HIDE DEF k
<1>4. Runs(irq, <<Mask>>, h, k) /\ Runs(irq, <<Unmask>>, k, h)
  BY <1>1, <1>2, <1>3, RunsOne
<1>5. Runs(irq, s, k, k)
  BY DEF Neutral, k
<1>6. QED BY <1>4, <1>5, RunsConcat DEF Neutral, WithoutIrqFiq

LEMMA TwoOps ==
  ASSUME NEW x, NEW y
  PROVE  <<x>> \o <<y>> = <<x, y>>
<1>1. <<x>> \in Seq({x, y}) /\ <<y>> \in Seq({x, y}) /\ <<x, y>> \in Seq({x, y})
  OBVIOUS
<1>2. Len(<<x>>) = 1 /\ Len(<<y>>) = 1 /\ Len(<<x, y>>) = 2
  OBVIOUS
<1>3. /\ <<x>> \o <<y>> \in Seq({x, y})
      /\ Len(<<x>> \o <<y>>) = 2
      /\ \A i \in 1..2 : (<<x>> \o <<y>>)[i] = IF i <= 1 THEN <<x>>[i] ELSE <<y>>[i - 1]
  BY <1>1, <1>2, ConcatProperties
<1>4. \A i \in 1..2 : (<<x>> \o <<y>>)[i] = <<x, y>>[i]
  BY <1>3
<1>5. QED BY <1>1, <1>2, <1>3, <1>4, SeqEqual

LEMMA IrqGuard ==
  ASSUME NEW irq \in BOOLEAN, NEW h \in Holdings(irq), NEW l \in HandlerLocks,
         NEW s, l \notin h.held,
         Neutral(irq, s, [depth |-> h.depth + 1, held |-> h.held \union {l}])
  PROVE  Neutral(irq, WithLockIrq(l, s), h)
<1> DEFINE k == [depth |-> h.depth + 1, held |-> h.held]
           m == [depth |-> h.depth + 1, held |-> h.held \union {l}]
<1>1. k \in Holdings(irq) /\ k.depth = h.depth + 1 /\ k.held = h.held
  BY SameHoldings DEF Holdings
<1>2. m \in Holdings(irq) /\ m.depth = k.depth /\ m.held = k.held \union {l}
  BY SameHoldings DEF Holdings
<1>3. l \in Locks
  BY DEF Locks
<1>4. /\ Allowed(Mask, h) /\ After(Mask, h) = k
      /\ {Mask, Unmask, Take(l), Give(l)} \subseteq Ops
  BY <1>3, Steps
<1>5. Allowed(Take(l), k) /\ After(Take(l), k) = m
  <2>1. {l} \intersect HandlerLocks = {l}
    OBVIOUS
  <2> HIDE DEF k
  <2>2. /\ Allowed(Take(l), k)
        /\ After(Take(l), k) =
             [depth |-> k.depth, held |-> k.held \union ({l} \intersect HandlerLocks)]
    BY <1>1, <1>3, Steps
  <2>3. QED BY <1>1, <2>1, <2>2, Zenon
<1>6. Allowed(Give(l), m) /\ After(Give(l), m) = k
  <2>1. m.held \ {l} = h.held
    BY <1>1, <1>2
  <2> HIDE DEF m
  <2>2. After(Give(l), m) = [depth |-> m.depth, held |-> m.held \ {l}]
    BY <1>2, <1>3, Steps
  <2>3. After(Give(l), m) = k
    BY <1>1, <1>2, <2>1, <2>2, Zenon
  <2>4. QED BY <1>2, <1>3, <2>3, Steps
<1>7. Allowed(Unmask, k) /\ After(Unmask, k) = h
  <2>1. k.depth > 0 /\ k.depth - 1 = h.depth
    BY <1>1, SameHoldings
  <2>2. QED BY <1>1, <1>3, <2>1, Steps, SameHoldings
<1> HIDE DEF k, m
<1>8. /\ Runs(irq, <<Mask>>, h, k) /\ Runs(irq, <<Take(l)>>, k, m)
      /\ Runs(irq, <<Give(l)>>, m, k) /\ Runs(irq, <<Unmask>>, k, h)
  BY <1>1, <1>2, <1>4, <1>5, <1>6, <1>7, RunsOne
<1>9. /\ <<Mask>> \o <<Take(l)>> = <<Mask, Take(l)>>
      /\ <<Give(l)>> \o <<Unmask>> = <<Give(l), Unmask>>
  BY TwoOps
<1>10. /\ Runs(irq, <<Mask, Take(l)>>, h, m)
       /\ Runs(irq, <<Give(l), Unmask>>, m, h)
  BY <1>8, <1>9, RunsConcat
<1>11. Runs(irq, s, m, m)
  BY DEF Neutral, m
<1>12. QED BY <1>10, <1>11, RunsConcat DEF Neutral, WithLockIrq

-----------------------------------------------------------------------------
(* The routines. *)

(* A task's routine gives back all it takes, and the handlers' locks it
   takes it holds only with interrupts masked. *)
LEMMA TaskRoutine ==
  ASSUME NEW irq \in BOOLEAN, NEW r, r \notin HandlerRoutines, NEW way \in Ways(r)
  PROVE  Neutral(irq, way, Nothing)
<1> DEFINE H(d, ls) == [depth |-> d, held |-> ls]
<1>1. /\ Nothing \in Holdings(irq) /\ Nothing.depth = 0 /\ Nothing.held = {}
      /\ Nothing = H(0, {})
  BY DEF Nothing, Holdings
<1>2. ASSUME NEW ls \in SUBSET HandlerLocks
      PROVE  /\ H(1, ls) \in Holdings(irq)
             /\ H(1, ls).depth = 1 /\ H(1, ls).held = ls
  BY <1>2 DEF Holdings
<1>3. \A h \in Holdings(irq) : Neutral(irq, <<>>, h)
  BY RunsEmpty DEF Neutral
<1>4. {"heap", "frames"} \subseteq AllocatorLocks
  BY DEF AllocatorLocks
<1>5. \A h \in Holdings(irq) : /\ Neutral(irq, Allocate, h)
                              /\ Neutral(irq, AllocateRefill, h)
                              /\ Neutral(irq, WithLock("frames", <<>>), h)
  BY <1>3, <1>4, AllocatorGuard DEF Allocate, AllocateRefill
<1>6. \A h \in Holdings(irq) : \A a \in MayAllocate : Neutral(irq, a, h)
  BY <1>3, <1>5 DEF MayAllocate
<1>7. 0 + 1 = 1 /\ 1 > 0
  OBVIOUS
<1>8. ASSUME NEW l \in HandlerLocks, NEW s, Neutral(irq, s, H(1, {l}))
      PROVE  Neutral(irq, WithLockIrq(l, s), Nothing)
  <2>1. [depth |-> Nothing.depth + 1, held |-> Nothing.held \union {l}] = H(1, {l})
    BY <1>1
  <2>2. Neutral(irq, s, [depth |-> Nothing.depth + 1, held |-> Nothing.held \union {l}])
    BY <1>8, <2>1, Zenon
  <2>3. l \notin Nothing.held
    BY <1>1
  <2> HIDE DEF H
  <2>4. QED BY <1>1, <2>2, <2>3, IrqGuard, Zenon
<1>9. {"consoles", "uart", "transfer", "keyboard", "queues"} \subseteq HandlerLocks
  BY DEF HandlerLocks
<1>10. ASSUME NEW l \in HandlerLocks PROVE H(1, {l}) \in Holdings(irq)
  BY <1>2
<1> HIDE DEF H
<1>11. CASE r = "allocate"
  BY <1>1, <1>5, <1>11 DEF Ways
<1>12. CASE r = "print"
  BY <1>3, <1>8, <1>9, <1>10, <1>12 DEF Ways
<1>13. CASE r = "uart_read"
  BY <1>6, <1>8, <1>9, <1>10, <1>13 DEF Ways
<1>14. CASE r = "keyboard_read"
  BY <1>3, <1>6, <1>8, <1>9, <1>10, <1>14, NeutralConcat DEF Ways
<1>15. CASE r = "cancel"
  BY <1>5, <1>8, <1>9, <1>10, <1>15 DEF Ways
<1>16. CASE r = "add_task"
  <2>1. PICK a \in MayAllocate :
          way = Allocate \o WithoutIrqFiq(Allocate \o WithLock("queues", a))
    BY <1>16 DEF Ways
  <2>2. /\ H(1, {}) \in Holdings(irq)
        /\ H(1, {}).depth = 1 /\ H(1, {}).held = {}
    BY <1>2
  <2>3. Neutral(irq, a, H(1, {"queues"}))
    BY <1>6, <1>9, <1>10
  <2>4. H(1, {"queues"}) =
          [depth |-> H(1, {}).depth, held |-> H(1, {}).held \union {"queues"}]
    BY <2>2 DEF H
  <2>5. Neutral(irq, WithLock("queues", a), H(1, {}))
    BY <1>7, <1>9, <2>2, <2>3, <2>4, PlainGuard
  <2>6. Neutral(irq, Allocate \o WithLock("queues", a), H(1, {}))
    BY <1>5, <2>2, <2>5, NeutralConcat
  <2>7. H(1, {}) = [depth |-> Nothing.depth + 1, held |-> Nothing.held]
    BY <1>1 DEF H
  <2>8. Neutral(irq, WithoutIrqFiq(Allocate \o WithLock("queues", a)), Nothing)
    BY <1>1, <2>6, <2>7, MaskedSection
  <2>9. QED BY <1>1, <1>5, <2>1, <2>8, NeutralConcat
<1>17. r \in {"allocate", "print", "uart_read", "keyboard_read", "cancel", "add_task"}
  BY DEF Ways, HandlerRoutines
<1>18. QED BY <1>11, <1>12, <1>13, <1>14, <1>15, <1>16, <1>17

(* A handler gives back all it takes; it may hold what it likes. *)
LEMMA HandlerRoutine ==
  ASSUME NEW r, NEW way \in Ways(r)
  PROVE  Neutral(TRUE, way, Nothing)
<1> DEFINE H(d, ls) == [depth |-> d, held |-> ls]
<1>1. ASSUME NEW d \in Nat, NEW ls \in SUBSET HandlerLocks
      PROVE  /\ H(d, ls) \in Holdings(TRUE)
             /\ H(d, ls).depth = d /\ H(d, ls).held = ls
  BY <1>1 DEF Holdings
<1>2. TRUE \in BOOLEAN /\ {} \in SUBSET HandlerLocks /\ 0 \in Nat
  OBVIOUS
<1>3. Nothing = H(0, {}) /\ Nothing \in Holdings(TRUE)
  BY DEF Nothing, Holdings
<1>4. \A h \in Holdings(TRUE) : Neutral(TRUE, <<>>, h)
  BY RunsEmpty DEF Neutral
<1>5. \A h \in Holdings(TRUE) :
         /\ \A a \in MayAllocate : Neutral(TRUE, a, h)
         /\ Neutral(TRUE, WithLock("frames", <<>>), h)
  <2>1. {"heap", "frames"} \subseteq AllocatorLocks
    BY DEF AllocatorLocks
  <2>2. QED BY <1>4, <2>1, AllocatorGuard DEF Allocate, MayAllocate
<1>6. ASSUME NEW d \in Nat, NEW ls \in SUBSET HandlerLocks,
             NEW l \in HandlerLocks \ ls, NEW s, Neutral(TRUE, s, H(d, ls \union {l}))
      PROVE  Neutral(TRUE, WithLock(l, s), H(d, ls))
  <2>1. /\ H(d, ls) \in Holdings(TRUE) /\ l \notin H(d, ls).held
        /\ H(d, ls \union {l}) =
             [depth |-> H(d, ls).depth, held |-> H(d, ls).held \union {l}]
    BY <1>1
  <2> HIDE DEF H
  <2>2. QED BY <1>2, <1>6, <2>1, PlainGuard
<1>7. ASSUME NEW l \in HandlerLocks
      PROVE  Neutral(TRUE, WithLockIrq(l, <<>>), Nothing)
  <2>1. /\ l \notin Nothing.held
        /\ [depth |-> Nothing.depth + 1, held |-> Nothing.held \union {l}] \in Holdings(TRUE)
    BY DEF Nothing, Holdings
  <2>2. QED BY <1>2, <1>3, <1>4, <2>1, IrqGuard
<1>8. {"handlers", "uart", "transfer", "keyboard", "queues"} \subseteq HandlerLocks
  BY DEF HandlerLocks
<1>9. \A d \in Nat, ls \in SUBSET HandlerLocks : H(d, ls) \in Holdings(TRUE)
  BY <1>1
<1> HIDE DEF H
<1>10. ASSUME NEW l \in HandlerLocks
       PROVE  Neutral(TRUE, WithLock(l, <<>>), Nothing)
  <2>1. {} \union {l} \in SUBSET HandlerLocks /\ l \in HandlerLocks \ {}
    OBVIOUS
  <2>2. Neutral(TRUE, <<>>, H(0, {} \union {l}))
    BY <1>2, <1>4, <1>9, <2>1
  <2>3. QED BY <1>2, <1>3, <1>6, <2>1, <2>2
<1>11. CASE r = "uart_irq"
  BY <1>8, <1>10, <1>11, NeutralConcat DEF Ways
<1>12. CASE r = "report_irq"
  <2>1. /\ {} \union {"transfer"} = {"transfer"}
        /\ {"transfer"} \union {"keyboard"} \in SUBSET HandlerLocks
        /\ {"transfer"} \in SUBSET HandlerLocks
        /\ "keyboard" \in HandlerLocks \ {"transfer"}
        /\ "transfer" \in HandlerLocks \ {}
    BY <1>8
  <2>2. Neutral(TRUE, <<>>, H(0, {"transfer"} \union {"keyboard"}))
    BY <1>2, <1>4, <1>9, <2>1
  <2>3. Neutral(TRUE, WithLock("keyboard", <<>>), H(0, {"transfer"}))
    BY <1>2, <1>6, <2>1, <2>2
  <2>4. Neutral(TRUE, WithLock("transfer", WithLock("keyboard", <<>>)), Nothing)
    BY <1>2, <1>3, <1>6, <2>1, <2>3
  <2>5. QED BY <1>2, <1>8, <1>10, <1>12, <2>4, NeutralConcat DEF Ways
<1>13. CASE r = "disconnect_irq"
  <2>1. way = WithLock("handlers", <<>>)
                \o WithLockIrq("transfer", <<>>) \o WithLockIrq("keyboard", <<>>)
                \o WithLock("frames", <<>>)
    BY <1>13 DEF Ways
  <2>2. /\ Neutral(TRUE, WithLock("handlers", <<>>), Nothing)
        /\ Neutral(TRUE, WithLockIrq("transfer", <<>>), Nothing)
        /\ Neutral(TRUE, WithLockIrq("keyboard", <<>>), Nothing)
        /\ Neutral(TRUE, WithLock("frames", <<>>), Nothing)
    BY <1>3, <1>5, <1>7, <1>8, <1>10
  <2>3. QED BY <1>2, <2>1, <2>2, NeutralConcat
<1>14. CASE r = "tick_irq"
  <2>1. PICK a \in MayAllocate :
          way = WithLock("handlers", <<>>) \o WithoutIrqFiq(WithLock("queues", a))
    BY <1>14 DEF Ways
  <2>2. /\ {} \union {"queues"} \in SUBSET HandlerLocks
        /\ "queues" \in HandlerLocks \ {} /\ 1 \in Nat
    BY <1>8
  <2>3. Neutral(TRUE, a, H(1, {} \union {"queues"}))
    BY <1>5, <1>9, <2>2
  <2>4. Neutral(TRUE, WithLock("queues", a), H(1, {}))
    BY <1>2, <1>6, <2>2, <2>3
  <2>5. H(1, {}) = [depth |-> Nothing.depth + 1, held |-> Nothing.held]
    BY DEF H, Nothing
  <2>6. Neutral(TRUE, WithoutIrqFiq(WithLock("queues", a)), Nothing)
    BY <1>2, <1>3, <2>4, <2>5, MaskedSection
  <2>7. QED BY <1>2, <1>8, <1>10, <2>1, <2>6, NeutralConcat
<1>15. CASE r \notin HandlerRoutines
  BY <1>2, <1>15, TaskRoutine
<1>16. QED BY <1>11, <1>12, <1>13, <1>14, <1>15 DEF HandlerRoutines

-----------------------------------------------------------------------------
(* The invariant. *)

(* What context c holds. *)
Here(c) ==
  [depth |-> Len(handles[c]), held |-> {l \in HandlerLocks : owner[l] = c}]

Types ==
  /\ running \in Tasks
  /\ inIrq \in BOOLEAN
  /\ todo \in [Contexts -> Seq(Ops)]
  /\ handles \in [Contexts -> Seq(BOOLEAN)]
  /\ masked \in BOOLEAN
  /\ owner \in [Locks -> Contexts \union {Free}]

(* Only a task's outermost handle has seen interrupts enabled. *)
SavedMasks ==
  \A c \in Contexts : \A i \in 1..Len(handles[c]) :
    handles[c][i] <=> (c = Irq \/ i > 1)

(* No handler is left half done. *)
IrqIdle == ~inIrq => todo[Irq] = <<>>

(* The rest of every routine gives back what its context holds. *)
RoutinesRun == \A c \in Contexts : Runs(c = Irq, todo[c], Here(c), Nothing)

IInv == Types /\ MasksNest /\ SavedMasks /\ IrqIdle /\ RoutinesRun

LEMMA InitIInv == Init => IInv
<1> SUFFICES ASSUME Init PROVE IInv
  OBVIOUS
<1> USE SpinLocksAssumption DEF Init
<1>1. Types
  BY EmptySeq DEF Types
<1>2. \A c \in Contexts : todo[c] = <<>> /\ handles[c] = <<>>
  OBVIOUS
<1>3. Irq \in Contexts /\ Tasks \subseteq Contexts
  BY DEF Contexts
<1>4. MasksNest /\ SavedMasks /\ IrqIdle
  BY <1>2, <1>3, EmptySeq DEF MasksNest, SavedMasks, IrqIdle
<1>5. ASSUME NEW c \in Contexts PROVE Here(c) = Nothing
  <2>1. {l \in HandlerLocks : owner[l] = c} = {}
    BY DEF Locks
  <2>2. Len(handles[c]) = 0
    BY <1>2, EmptySeq
  <2>3. QED BY <2>1, <2>2 DEF Here, Nothing
<1>6. \A irq \in BOOLEAN : Nothing \in Holdings(irq)
  BY DEF Nothing, Holdings
<1>7. RoutinesRun
  <2>1. \A c \in Contexts : (c = Irq) \in BOOLEAN
    OBVIOUS
  <2>2. QED BY <1>2, <1>5, <1>6, <2>1, RunsEmpty DEF RoutinesRun
<1>8. QED BY <1>1, <1>4, <1>7 DEF IInv

(* A context holds what a context of its kind may, and nothing between two
   routines. *)
LEMMA Holds ==
  ASSUME IInv, NEW c \in Contexts
  PROVE  Here(c) \in Holdings(c = Irq) /\ (todo[c] = <<>> => Here(c) = Nothing)
<1> DEFINE irq == c = Irq
<1>1. Runs(irq, todo[c], Here(c), Nothing) /\ irq \in BOOLEAN
  BY DEF IInv, RoutinesRun
<1> HIDE DEF irq
<1>2. PICK f : Trace(f, irq, todo[c], Here(c), Nothing)
  BY <1>1 DEF Runs
<1>3. Len(todo[c]) \in Nat
  BY <1>1, LenProperties DEF Runs
<1>4. Here(c) \in Holdings(irq)
  BY <1>2, <1>3 DEF Trace
<1>5. todo[c] = <<>> => Here(c) = Nothing
  BY <1>1, <1>4, RunsEmpty
<1>6. QED BY <1>4, <1>5 DEF irq

(* Only the active context has handles, unless an interrupt does. *)
LEMMA Contexted ==
  ASSUME IInv
  PROVE  /\ Active \in Contexts
         /\ Active = Irq <=> inIrq
         /\ \A c \in Contexts \ {Active} : c # Irq => handles[c] = <<>>
<1>1. running \in Tasks /\ inIrq \in BOOLEAN
  BY DEF IInv, Types
<1>2. Active \in Contexts /\ (Active = Irq <=> inIrq)
  BY <1>1, SpinLocksAssumption DEF Active, Contexts
<1>3. ASSUME NEW c \in Contexts \ {Active}, c # Irq PROVE handles[c] = <<>>
  BY <1>3 DEF IInv, MasksNest, Active, Contexts
<1>4. QED BY <1>2, <1>3

(* What an operation of the active context leaves to do still runs, if it
   did to what the contexts hold what After says. *)
LEMMA AdvanceRuns ==
  ASSUME IInv, todo[Active] # <<>>, Advance, inIrq' = inIrq,
         Here(Active)' = After(Head(todo[Active]), Here(Active)),
         \A c \in Contexts \ {Active} : Here(c)' = Here(c),
         Active' = Active
  PROVE  /\ todo' \in [Contexts -> Seq(Ops)]
         /\ IrqIdle'
         /\ RoutinesRun'
<1> DEFINE a == Active
           irq == a = Irq
<1>1. a \in Contexts /\ irq \in BOOLEAN /\ (irq <=> inIrq)
  BY Contexted
<1>2. todo \in [Contexts -> Seq(Ops)]
  BY DEF IInv, Types
<1>3. todo' = [todo EXCEPT ![a] = Tail(todo[a])]
  BY DEF Advance
<1>4. Runs(irq, todo[a], Here(a), Nothing)
  BY <1>1 DEF IInv, RoutinesRun
<1>5. /\ todo[a] \in Seq(Ops)
      /\ Runs(irq, Tail(todo[a]), After(Head(todo[a]), Here(a)), Nothing)
  BY <1>1, <1>4, RunsTail
<1>6. Tail(todo[a]) \in Seq(Ops)
  BY <1>5, HeadTailProperties
<1>7. todo' \in [Contexts -> Seq(Ops)]
  BY <1>1, <1>2, <1>3, <1>6
<1>8. ASSUME NEW c \in Contexts PROVE Runs(c = Irq, todo'[c], Here(c)', Nothing)
  <2>1. CASE c = a
    BY <1>1, <1>2, <1>3, <1>5, <2>1
  <2>2. CASE c # a
    <3>1. todo'[c] = todo[c] /\ Here(c)' = Here(c)
      BY <1>2, <1>3, <2>2
    <3>2. Runs(c = Irq, todo[c], Here(c), Nothing)
      BY DEF IInv, RoutinesRun
    <3>3. QED BY <3>1, <3>2
  <2>3. QED BY <2>1, <2>2
<1>9. RoutinesRun'
  BY <1>8 DEF RoutinesRun
<1>10. IrqIdle'
  <2>1. SUFFICES ASSUME ~inIrq' PROVE todo'[Irq] = <<>>
    BY DEF IrqIdle
  <2>2. todo[Irq] = <<>> /\ a # Irq
    BY <1>1, <2>1 DEF IInv, IrqIdle
  <2>3. QED BY <1>2, <1>3, <2>2 DEF Contexts
<1>11. QED BY <1>7, <1>9, <1>10

(* A context starts a routine that gives back all it takes. *)
LEMMA StartRuns ==
  ASSUME IInv, NEW c \in Contexts, NEW way, todo[c] = <<>>,
         Neutral(c = Irq, way, Nothing),
         todo' = [todo EXCEPT ![c] = way], handles' = handles, owner' = owner
  PROVE  todo' \in [Contexts -> Seq(Ops)] /\ RoutinesRun'
<1>1. todo \in [Contexts -> Seq(Ops)]
  BY DEF IInv, Types
<1>2. Runs(c = Irq, way, Nothing, Nothing) /\ way \in Seq(Ops)
  BY DEF Neutral, Runs
<1>3. todo' \in [Contexts -> Seq(Ops)]
  BY <1>1, <1>2
<1>4. ASSUME NEW d \in Contexts PROVE Runs(d = Irq, todo'[d], Here(d)', Nothing)
  <2>1. Here(d)' = Here(d)
    BY DEF Here
  <2>2. CASE d = c
    <3>1. Here(c) = Nothing
      BY Holds
    <3>2. QED BY <1>1, <1>2, <2>1, <2>2, <3>1
  <2>3. CASE d # c
    <3>1. todo'[d] = todo[d] /\ Runs(d = Irq, todo[d], Here(d), Nothing)
      BY <1>1, <2>3 DEF IInv, RoutinesRun
    <3>2. QED BY <2>1, <3>1
  <2>4. QED BY <2>2, <2>3
<1>5. QED BY <1>3, <1>4 DEF RoutinesRun

(* A task calls a routine. *)
LEMMA CallIInv ==
  ASSUME IInv, NEW r \in TaskRoutines, Call(r)
  PROVE  IInv'
<1>1. PICK way \in Ways(r) : todo' = [todo EXCEPT ![running] = way]
  BY DEF Call
<1>2. running \in Contexts /\ running # Irq /\ todo[running] = <<>>
  BY SpinLocksAssumption DEF Call, IInv, Types, Contexts
<1>3. Neutral(running = Irq, way, Nothing)
  BY <1>2, SpinLocksAssumption, TaskRoutine
<1>4. todo' \in [Contexts -> Seq(Ops)] /\ RoutinesRun'
  BY <1>1, <1>2, <1>3, StartRuns DEF Call
<1>5. Types' /\ MasksNest' /\ SavedMasks'
  BY <1>4 DEF Call, IInv, Types, MasksNest, SavedMasks
<1>6. IrqIdle'
  BY <1>1, <1>2 DEF IInv, Types, IrqIdle, Call, Contexts
<1>7. QED BY <1>4, <1>5, <1>6 DEF IInv

(* An interrupt enters. *)
LEMMA TakeIrqIInv ==
  ASSUME IInv, NEW r \in IrqRoutines, TakeIrq(r)
  PROVE  IInv'
<1>1. PICK way \in Ways(r) : todo' = [todo EXCEPT ![Irq] = way]
  BY DEF TakeIrq
<1>2. Irq \in Contexts /\ todo[Irq] = <<>>
  BY DEF TakeIrq, IInv, IrqIdle, Contexts
<1>3. Neutral(Irq = Irq, way, Nothing)
  BY HandlerRoutine
<1>4. todo' \in [Contexts -> Seq(Ops)] /\ RoutinesRun'
  BY <1>1, <1>2, <1>3, StartRuns DEF TakeIrq
<1>5. Types' /\ MasksNest' /\ SavedMasks' /\ IrqIdle'
  BY <1>4 DEF TakeIrq, IInv, Types, MasksNest, SavedMasks, IrqIdle
<1>6. QED BY <1>4, <1>5 DEF IInv

(* An interrupt returns, to whatever task. *)
LEMMA ReturnIInv ==
  ASSUME IInv, ReturnFromIrq
  PROVE  IInv'
<1>1. Types' /\ MasksNest' /\ SavedMasks' /\ IrqIdle'
  BY DEF ReturnFromIrq, IInv, Types, MasksNest, SavedMasks, IrqIdle
<1>2. \A c : Here(c)' = Here(c) /\ todo' = todo
  BY DEF ReturnFromIrq, Here
<1>3. RoutinesRun'
  BY <1>2 DEF IInv, RoutinesRun
<1>4. QED BY <1>1, <1>3 DEF IInv

(* The next operation is one of four. *)
LEMMA NextOp ==
  ASSUME IInv, NEW k, Next1(k)
  PROVE  /\ todo[Active] # <<>>
         /\ Active \in Contexts
         /\ Head(todo[Active]) \in Ops
         /\ Head(todo[Active]).do = k
         /\ Allowed(Head(todo[Active]), Here(Active))
         /\ k \in {"take", "give"} =>
              Head(todo[Active]).lock \in Locks
<1> DEFINE a == Active
           irq == a = Irq
<1>1. a \in Contexts /\ irq \in BOOLEAN /\ todo[a] # <<>>
  BY Contexted DEF Next1
<1>2. Runs(irq, todo[a], Here(a), Nothing)
  BY <1>1 DEF IInv, RoutinesRun
<1>3. Head(todo[a]) \in Ops /\ Allowed(Head(todo[a]), Here(a))
  BY <1>1, <1>2, RunsTail
<1>4. \A op \in Ops : op.do \in {"take", "give"} => op.lock \in Locks
  BY DEF Ops, Mask, Unmask, Take, Give
<1>5. QED BY <1>1, <1>3, <1>4 DEF Next1

LEMMA TakeLockIInv ==
  ASSUME IInv, TakeLock
  PROVE  IInv'
<1> DEFINE a == Active
           op == Head(todo[a])
           l == op.lock
<1>1. /\ todo[a] # <<>> /\ a \in Contexts /\ op.do = "take" /\ l \in Locks
  BY NextOp DEF TakeLock
<1>2. /\ owner \in [Locks -> Contexts \union {Free}] /\ owner[l] = Free
      /\ owner' = [owner EXCEPT ![l] = a] /\ handles' = handles /\ masked' = masked
      /\ running' = running /\ inIrq' = inIrq /\ Active' = a
  BY DEF TakeLock, IInv, Types, Active
<1> HIDE DEF op, l
<1>3. \A c \in Contexts : c # Free
  BY SpinLocksAssumption
<1>4. ASSUME NEW c \in Contexts \ {a} PROVE Here(c)' = Here(c)
  <2>1. {m \in HandlerLocks : owner'[m] = c} = {m \in HandlerLocks : owner[m] = c}
    BY <1>1, <1>2, <1>3 DEF Locks
  <2>2. QED BY <1>2, <2>1 DEF Here
<1>5. Here(a)' = After(op, Here(a))
  <2>1. {m \in HandlerLocks : owner'[m] = a} =
          {m \in HandlerLocks : owner[m] = a} \union ({l} \intersect HandlerLocks)
    BY <1>1, <1>2 DEF Locks
  <2>2. After(op, Here(a)) =
          [depth |-> Here(a).depth,
           held |-> Here(a).held \union ({l} \intersect HandlerLocks)]
    BY <1>1 DEF After, l
  <2>3. /\ Here(a).depth = Len(handles[a])
        /\ Here(a).held = {m \in HandlerLocks : owner[m] = a}
    BY DEF Here
  <2>4. Here(a)' = [depth |-> Len(handles[a]),
                    held |-> {m \in HandlerLocks : owner'[m] = a}]
    BY <1>2 DEF Here
  <2> HIDE DEF a
  <2>5. QED BY <2>1, <2>2, <2>3, <2>4
<1>6. todo' \in [Contexts -> Seq(Ops)] /\ IrqIdle' /\ RoutinesRun'
  BY <1>1, <1>2, <1>4, <1>5, AdvanceRuns DEF TakeLock, op
<1>7. Types'
  BY <1>1, <1>2, <1>6 DEF IInv, Types
<1>8. MasksNest' /\ SavedMasks'
  BY <1>2 DEF IInv, MasksNest, SavedMasks
<1>9. QED BY <1>6, <1>7, <1>8 DEF IInv

LEMMA GiveLockIInv ==
  ASSUME IInv, GiveLock
  PROVE  IInv'
<1> DEFINE a == Active
           op == Head(todo[a])
           l == op.lock
<1>1. /\ todo[a] # <<>> /\ a \in Contexts /\ op.do = "give" /\ l \in Locks
      /\ Allowed(op, Here(a))
  BY NextOp DEF GiveLock
<1>2. /\ owner \in [Locks -> Contexts \union {Free}]
      /\ owner' = [owner EXCEPT ![l] = Free] /\ handles' = handles /\ masked' = masked
      /\ running' = running /\ inIrq' = inIrq /\ Active' = a
  BY DEF GiveLock, IInv, Types, Active
<1>3. l \in HandlerLocks => owner[l] = a
  BY <1>1 DEF Allowed, Here
<1> HIDE DEF op, l
<1>4. \A c \in Contexts : c # Free
  BY SpinLocksAssumption
<1>5. ASSUME NEW c \in Contexts \ {a} PROVE Here(c)' = Here(c)
  <2>1. {m \in HandlerLocks : owner'[m] = c} = {m \in HandlerLocks : owner[m] = c}
    BY <1>1, <1>2, <1>3, <1>4 DEF Locks
  <2>2. QED BY <1>2, <2>1 DEF Here
<1>6. Here(a)' = After(op, Here(a))
  <2>1. {m \in HandlerLocks : owner'[m] = a} =
          {m \in HandlerLocks : owner[m] = a} \ {l}
    BY <1>1, <1>2, <1>4 DEF Locks
  <2>2. After(op, Here(a)) = [depth |-> Here(a).depth, held |-> Here(a).held \ {l}]
    BY <1>1 DEF After, l
  <2>3. /\ Here(a).depth = Len(handles[a])
        /\ Here(a).held = {m \in HandlerLocks : owner[m] = a}
    BY DEF Here
  <2>4. Here(a)' = [depth |-> Len(handles[a]),
                    held |-> {m \in HandlerLocks : owner'[m] = a}]
    BY <1>2 DEF Here
  <2> HIDE DEF a
  <2>5. QED BY <2>1, <2>2, <2>3, <2>4
<1>7. todo' \in [Contexts -> Seq(Ops)] /\ IrqIdle' /\ RoutinesRun'
  BY <1>1, <1>2, <1>5, <1>6, AdvanceRuns DEF GiveLock, op
<1>8. Types'
  BY <1>1, <1>2, <1>7 DEF IInv, Types
<1>9. MasksNest' /\ SavedMasks'
  BY <1>2 DEF IInv, MasksNest, SavedMasks
<1>10. QED BY <1>7, <1>8, <1>9 DEF IInv

LEMMA DisableIrqIInv ==
  ASSUME IInv, DisableIrq
  PROVE  IInv'
<1> DEFINE a == Active
           op == Head(todo[a])
           s == handles[a]
           t == Append(s, masked)
<1>1. /\ todo[a] # <<>> /\ a \in Contexts /\ op.do = "mask"
  BY NextOp DEF DisableIrq
<1>2. /\ handles \in [Contexts -> Seq(BOOLEAN)] /\ handles' = [handles EXCEPT ![a] = t]
      /\ owner' = owner /\ masked' = TRUE /\ masked \in BOOLEAN
      /\ running' = running /\ inIrq' = inIrq /\ Active' = a
  BY DEF DisableIrq, IInv, Types, Active
<1>3. /\ t \in Seq(BOOLEAN) /\ t # <<>> /\ Len(t) = Len(s) + 1 /\ Len(s) \in Nat
      /\ \A i \in 1..Len(s) : t[i] = s[i]
      /\ t[Len(s) + 1] = masked
  BY <1>1, <1>2, AppendProperties, LenProperties
<1> HIDE DEF op, t
<1>4. /\ handles'[a] = t
      /\ \A c \in Contexts \ {a} : handles'[c] = handles[c]
      /\ handles' \in [Contexts -> Seq(BOOLEAN)]
  BY <1>1, <1>2, <1>3
<1>5. \A c \in Contexts \ {a} : Here(c)' = Here(c)
  BY <1>2, <1>4 DEF Here
<1>6. Here(a)' = After(op, Here(a))
  <2>1. After(op, Here(a)) = [depth |-> Here(a).depth + 1, held |-> Here(a).held]
    BY <1>1 DEF After
  <2>2. /\ Here(a).depth = Len(s)
        /\ Here(a).held = {m \in HandlerLocks : owner[m] = a}
    BY DEF Here
  <2>3. Here(a)' = [depth |-> Len(t), held |-> {m \in HandlerLocks : owner[m] = a}]
    BY <1>2, <1>4 DEF Here
  <2> HIDE DEF a, s
  <2>4. QED BY <1>3, <2>1, <2>2, <2>3
<1>7. todo' \in [Contexts -> Seq(Ops)] /\ IrqIdle' /\ RoutinesRun'
  BY <1>1, <1>2, <1>5, <1>6, AdvanceRuns DEF DisableIrq, op
<1>8. Types'
  BY <1>2, <1>4, <1>7 DEF IInv, Types
<1>9. masked <=> (a = Irq \/ Len(s) > 0)
  <2>1. CASE inIrq
    BY <2>1, Contexted DEF IInv, MasksNest
  <2>2. CASE ~inIrq
    <3>1. a = running /\ a # Irq /\ (masked <=> s # <<>>)
      BY <2>2, Contexted DEF IInv, MasksNest, Active
    <3>2. s # <<>> <=> Len(s) > 0
      BY <1>1, <1>2, EmptySeq
    <3>3. QED BY <3>1, <3>2
  <2>3. QED BY <2>1, <2>2
<1>10. SavedMasks'
  <2>1. ASSUME NEW c \in Contexts, NEW i \in 1..Len(handles'[c])
        PROVE  handles'[c][i] <=> (c = Irq \/ i > 1)
    <3>1. CASE c # a
      BY <1>4, <2>1, <3>1 DEF IInv, SavedMasks
    <3>2. CASE c = a /\ i \in 1..Len(s)
      BY <1>1, <1>3, <1>4, <3>2 DEF IInv, SavedMasks
    <3>3. CASE c = a /\ i = Len(s) + 1
      BY <1>3, <1>4, <1>9, <3>3
    <3>4. QED BY <1>3, <1>4, <2>1, <3>1, <3>2, <3>3
  <2>2. QED BY <2>1 DEF SavedMasks
<1>11. MasksNest'
  <2>1. ~inIrq => handles'[running] # <<>>
    BY <1>3, <1>4 DEF Active
  <2>2. ASSUME NEW u \in Tasks, inIrq \/ u # running PROVE handles'[u] = <<>>
    <3>1. u \in Contexts \ {a} /\ u # Irq
      BY <2>2, SpinLocksAssumption DEF Active, Contexts
    <3>2. QED BY <1>4, <3>1, Contexted
  <2>3. QED BY <1>2, <2>1, <2>2 DEF MasksNest
<1>12. QED BY <1>7, <1>8, <1>10, <1>11 DEF IInv

LEMMA RestoreIInv ==
  ASSUME IInv, RestoreInterrupts
  PROVE  IInv'
<1> DEFINE a == Active
           op == Head(todo[a])
           s == handles[a]
           n == Len(s)
           t == SubSeq(s, 1, n - 1)
<1>1. /\ todo[a] # <<>> /\ a \in Contexts /\ op.do = "unmask"
      /\ Allowed(op, Here(a))
  BY NextOp DEF RestoreInterrupts
<1>2. /\ handles \in [Contexts -> Seq(BOOLEAN)] /\ handles' = [handles EXCEPT ![a] = t]
      /\ owner' = owner /\ masked' = s[n]
      /\ running' = running /\ inIrq' = inIrq /\ Active' = a
  BY DEF RestoreInterrupts, RestoredMask, HandleUsed, IInv, Types, Active
<1>3. n \in Nat \ {0} /\ s \in Seq(BOOLEAN) /\ \A i \in 1..n : s[i] \in BOOLEAN
  <2>1. s \in Seq(BOOLEAN) /\ n \in Nat /\ s \in [1..n -> BOOLEAN]
    BY <1>1, <1>2, LenProperties
  <2>2. n > 0
    BY <1>1 DEF Allowed, Here
  <2>3. QED BY <2>1, <2>2
<1>4. /\ t \in Seq(BOOLEAN) /\ Len(t) = n - 1
      /\ \A i \in 1..(n - 1) : t[i] = s[i]
  <2>1. 1 \in Int /\ n - 1 \in Int /\ \A i \in 1..(n - 1) : s[i] \in BOOLEAN
    BY <1>3
  <2>2. /\ t \in Seq(BOOLEAN)
        /\ Len(t) = IF 1 <= n - 1 THEN (n - 1) - 1 + 1 ELSE 0
        /\ \A i \in 1..((n - 1) - 1 + 1) : t[i] = s[1 + i - 1]
    BY <2>1, SubSeqProperties
  <2>3. QED BY <1>3, <2>2
<1> HIDE DEF op, t, n
<1>5. /\ handles'[a] = t
      /\ \A c \in Contexts \ {a} : handles'[c] = handles[c]
      /\ handles' \in [Contexts -> Seq(BOOLEAN)]
  BY <1>1, <1>2, <1>4
<1>6. \A c \in Contexts \ {a} : Here(c)' = Here(c)
  BY <1>2, <1>5 DEF Here
<1>7. Here(a)' = After(op, Here(a))
  <2>1. After(op, Here(a)) = [depth |-> Here(a).depth - 1, held |-> Here(a).held]
    BY <1>1 DEF After
  <2>2. /\ Here(a).depth = n
        /\ Here(a).held = {m \in HandlerLocks : owner[m] = a}
    BY DEF Here, n
  <2>3. Here(a)' = [depth |-> Len(t), held |-> {m \in HandlerLocks : owner[m] = a}]
    BY <1>2, <1>5 DEF Here
  <2> HIDE DEF a, s
  <2>4. QED BY <1>4, <2>1, <2>2, <2>3
<1>8. todo' \in [Contexts -> Seq(Ops)] /\ IrqIdle' /\ RoutinesRun'
  BY <1>1, <1>2, <1>6, <1>7, AdvanceRuns DEF RestoreInterrupts, op
<1>9. Types'
  BY <1>2, <1>3, <1>5, <1>8 DEF IInv, Types
<1>10. masked' <=> (a = Irq \/ n > 1)
  BY <1>1, <1>2, <1>3 DEF IInv, SavedMasks, n
<1>11. SavedMasks'
  <2>1. ASSUME NEW c \in Contexts, NEW i \in 1..Len(handles'[c])
        PROVE  handles'[c][i] <=> (c = Irq \/ i > 1)
    <3>1. CASE c # a
      BY <1>5, <2>1, <3>1 DEF IInv, SavedMasks
    <3>2. CASE c = a
      <4>1. i \in 1..(n - 1) /\ i \in 1..n
        BY <1>3, <1>4, <1>5, <2>1, <3>2
      <4>2. handles'[c][i] = s[i]
        BY <1>4, <1>5, <3>2, <4>1
      <4>3. QED BY <1>1, <3>2, <4>1, <4>2 DEF IInv, SavedMasks, n
    <3>3. QED BY <3>1, <3>2
  <2>2. QED BY <2>1 DEF SavedMasks
<1>12. MasksNest'
  <2>1. inIrq => masked'
    BY <1>10, Contexted
  <2>2. t # <<>> <=> n > 1
    BY <1>3, <1>4, EmptySeq
  <2>3. ~inIrq => (masked' <=> handles'[running] # <<>>)
    <3>1. ~inIrq => a = running /\ a # Irq
      BY Contexted DEF Active
    <3>2. QED BY <1>5, <1>10, <2>2, <3>1
  <2>4. ASSUME NEW u \in Tasks, inIrq \/ u # running PROVE handles'[u] = <<>>
    <3>1. u \in Contexts \ {a} /\ u # Irq
      BY <2>4, SpinLocksAssumption DEF Active, Contexts
    <3>2. QED BY <1>5, <3>1, Contexted
  <2>5. QED BY <1>2, <2>1, <2>3, <2>4 DEF MasksNest
<1>13. QED BY <1>8, <1>9, <1>11, <1>12 DEF IInv

(* The invariant is kept by every step. *)
LEMMA NextIInv == IInv /\ [Next]_vars => IInv'
<1> SUFFICES ASSUME IInv, [Next]_vars PROVE IInv'
  OBVIOUS
<1>1. ASSUME NEW r \in TaskRoutines, Call(r) PROVE IInv'
  BY <1>1, CallIInv
<1>2. CASE DisableIrq
  BY <1>2, DisableIrqIInv
<1>3. CASE RestoreInterrupts
  BY <1>3, RestoreIInv
<1>4. CASE TakeLock
  BY <1>4, TakeLockIInv
<1>5. CASE GiveLock
  BY <1>5, GiveLockIInv
<1>6. ASSUME NEW r \in IrqRoutines, TakeIrq(r) PROVE IInv'
  BY <1>6, TakeIrqIInv
<1>7. CASE ReturnFromIrq
  BY <1>7, ReturnIInv
<1>8. CASE UNCHANGED vars
  BY <1>8 DEF vars, IInv, Types, MasksNest, SavedMasks, IrqIdle, RoutinesRun, Here
<1>9. QED BY <1>1, <1>2, <1>3, <1>4, <1>5, <1>6, <1>7, <1>8 DEF Next

-----------------------------------------------------------------------------
(* The results. *)

(* The inductive invariant holds in every reachable state. *)
THEOREM Invariance == Spec => []IInv
BY InitIInv, NextIInv, PTL DEF Spec

(* Masks nest: whoever saved the mask outermost gets interrupts back, nobody
   else does, and neither a task switch nor a handler ever meets a handle
   of another task. *)
THEOREM MasksAlwaysNest == Spec => []MasksNest
<1>1. IInv => MasksNest
  BY DEF IInv
<1>2. QED BY <1>1, Invariance, PTL

(* The holder of a handler's lock executes, so nobody else can wait for it. *)
LEMMA HolderIsActive ==
  ASSUME IInv
  PROVE  HandlerLocksNeverWaitedFor
<1> SUFFICES ASSUME NEW c \in Contexts, NEW l \in HandlerLocks, WaitsFor(c, l)
             PROVE  FALSE
  BY DEF HandlerLocksNeverWaitedFor
<1> DEFINE irq == c = Irq
           d == owner[l]
<1>1. todo[c] # <<>> /\ Head(todo[c]) = Take(l) /\ d # Free
  BY DEF WaitsFor
<1>2. l \in Locks
  BY DEF Locks
<1>3. d \in Contexts
  BY <1>1, <1>2 DEF IInv, Types
<1>4. Runs(irq, todo[c], Here(c), Nothing) /\ irq \in BOOLEAN
  BY DEF IInv, RoutinesRun
<1> HIDE DEF irq
<1>5. /\ Here(c) \in Holdings(irq)
      /\ Allowed(Take(l), Here(c))
      /\ After(Take(l), Here(c)) \in Holdings(irq)
  BY <1>1, <1>4, RunsTail
<1>6. d # c
  <2>1. l \notin Here(c).held
    BY <1>2, <1>4, <1>5, Steps
  <2>2. QED BY <2>1 DEF Here
<1>7. c # Irq => handles[c] # <<>>
  <2>1. After(Take(l), Here(c)) =
          [depth |-> Here(c).depth,
           held |-> Here(c).held \union ({l} \intersect HandlerLocks)]
    BY <1>2, <1>4, <1>5, Steps
  <2>2. irq \/ Here(c).depth > 0
    BY <1>5, <2>1 DEF Holdings
  <2>3. Here(c).depth = Len(handles[c])
    BY DEF Here
  <2>4. QED BY <2>2, <2>3, EmptySeq DEF irq
<1>8. c = Irq => inIrq
  BY <1>1 DEF IInv, IrqIdle
<1>9. c = Active
  BY <1>7, <1>8, Contexted
<1>10. l \in Here(d).held
  BY DEF Here
<1>11. d # Irq
  <2>1. SUFFICES ASSUME d = Irq, ~inIrq PROVE FALSE
    BY <1>6, <1>9, Contexted
  <2>2. todo[Irq] = <<>>
    BY <2>1 DEF IInv, IrqIdle
  <2>3. Here(Irq) = Nothing
    BY <2>2, Holds DEF Contexts
  <2>4. QED BY <1>10, <2>1, <2>3 DEF Nothing
<1>12. handles[d] = <<>>
  BY <1>3, <1>6, <1>9, <1>11, Contexted
<1>13. Here(d).depth = 0
  BY <1>12, EmptySeq DEF Here
<1>14. Here(d) \in Holdings(d = Irq)
  BY <1>3, Holds
<1>15. QED BY <1>10, <1>11, <1>13, <1>14 DEF Holdings

(* Nobody, task or handler, ever finds a lock taken that handlers use: their
   guards mask interrupts first, so the holder of one is never interrupted or
   switched away from, and a handler never spins on the only core. *)
THEOREM HandlersNeverSpin == Spec => []HandlerLocksNeverWaitedFor
BY HolderIsActive, Invariance, PTL

-----------------------------------------------------------------------------
(* OnceLock. *)

(* Only the winner of the exchange is between it and the closing store, and
   status says so; the value is there once status is INITIALIZED; what
   set() saw of INITIALIZED stays true; set() has a value to store. *)
StatusTells ==
  /\ \A t \in Threads : at[t] \in {"write", "publish"} => status = INITIALIZING
  /\ status = INITIALIZED => data \in Values
  /\ \A t \in Threads : at[t] = "read" => status = INITIALIZED
  /\ \A t \in Threads :
       at[t] = "set" /\ saw[t] = INITIALIZED => status = INITIALIZED
  /\ \A t \in Threads : at[t] \in {"set", "write", "publish"} => value[t] \in Values

OnceInv == TypeOK /\ DataGuarded /\ ErrMeansSet /\ StatusTells

USE DEF UNINITIALIZED, INITIALIZING, INITIALIZED

LEMMA OnceInitInv == OnceInit => OnceInv
BY NoneAssumption
   DEF OnceInit, OnceInv, TypeOK, DataGuarded, ErrMeansSet, StatusTells, Status, Points

(* Every step of a thread keeps the invariant. *)
LEMMA ThreadOnceInv ==
  ASSUME OnceInv, NEW t \in Threads,
         \/ \E v \in Values : SetBegin(t, v)
         \/ SetStep(t) \/ GetLoad(t) \/ GetRead(t)
  PROVE  OnceInv'
<1> USE DEF OnceInv, TypeOK, DataGuarded, ErrMeansSet, StatusTells, Status, Points, Return
<1>1. ASSUME NEW v \in Values, SetBegin(t, v) PROVE OnceInv'
  BY <1>1 DEF SetBegin
<1>2. CASE SetLoses(t)
  BY <1>2, ValuesAssumption, NoneAssumption DEF SetLoses, Lost
<1>3. CASE SetSpins(t)
  BY <1>3 DEF SetSpins
<1>4. CASE SetExchange(t)
  <2>1. CASE status = UNINITIALIZED
    BY <1>4, <2>1 DEF SetExchange, Exchange
  <2>2. CASE status # UNINITIALIZED
    BY <1>4, <2>2 DEF SetExchange, Exchange
  <2>3. QED BY <2>1, <2>2
<1>5. CASE SetWrite(t)
  BY <1>5, ValuesAssumption DEF SetWrite
<1>6. CASE SetPublish(t)
  BY <1>6, ValuesAssumption DEF SetPublish, PublishedStatus
<1>7. CASE GetLoad(t)
  BY <1>7, ValuesAssumption, NoneAssumption DEF GetLoad
<1>8. CASE GetRead(t)
  BY <1>8, ValuesAssumption, NoneAssumption DEF GetRead
<1>9. QED
  BY <1>1, <1>2, <1>3, <1>4, <1>5, <1>6, <1>7, <1>8 DEF SetStep

LEMMA OnceNextInv ==
  ASSUME OnceInv, [OnceNext]_onceVars
  PROVE  OnceInv'
<1>1. CASE UNCHANGED onceVars
  BY <1>1 DEF onceVars, OnceInv, TypeOK, DataGuarded, ErrMeansSet, StatusTells
<1>2. CASE OnceNext
  BY <1>2, ThreadOnceInv DEF OnceNext
<1>3. QED BY <1>1, <1>2

(* The invariant below ties the status word to where every thread is, for any
   number of threads and any values. *)
THEOREM OnceLockInvariance == OnceSafetySpec => []OnceInv
<1>1. QED BY OnceInitInv, OnceNextInv, PTL DEF OnceSafetySpec

(* data is read and written without a lock, yet only by the winner of the
   exchange until it is complete, and complete whenever get() reads it. *)
THEOREM DataIsGuarded == OnceSafetySpec => []DataGuarded
<1>1. OnceInv => DataGuarded
  BY DEF OnceInv
<1>2. QED BY <1>1, OnceLockInvariance, PTL

(* Err from set() means that get() finds a value. *)
THEOREM LosersFindAValue == OnceSafetySpec => []ErrMeansSet
<1>1. OnceInv => ErrMeansSet
  BY DEF OnceInv
<1>2. QED BY <1>1, OnceLockInvariance, PTL

(* A step is a write of the cell, or leaves it as it was. *)
LEMMA StepSimulation ==
  ASSUME OnceInv, [OnceNext]_onceVars
  PROVE  LET cell == IF status = INITIALIZED THEN data ELSE None
         IN  (\E v \in Values : Cell!Write(v)) \/ cell' = cell
<1> DEFINE cell == IF status = INITIALIZED THEN data ELSE None
<1>1. CASE UNCHANGED onceVars
  BY <1>1 DEF onceVars
<1>2. ASSUME NEW t \in Threads, SetPublish(t)
      PROVE  Cell!Write(value[t]) /\ value[t] \in Values
  BY <1>2 DEF SetPublish, PublishedStatus, Cell!Write, OnceInv, DataGuarded, StatusTells
<1>3. ASSUME NEW t \in Threads, SetWrite(t)
      PROVE  status # INITIALIZED /\ status' = status
  BY <1>3 DEF SetWrite, OnceInv, StatusTells
<1>4. ASSUME NEW t \in Threads, SetExchange(t)
      PROVE  cell' = cell
  BY <1>4 DEF SetExchange, Exchange
<1>5. ASSUME NEW t \in Threads,
             \/ \E v \in Values : SetBegin(t, v)
             \/ SetLoses(t) \/ SetSpins(t) \/ GetLoad(t) \/ GetRead(t)
      PROVE  UNCHANGED <<status, data>>
  BY <1>5 DEF SetBegin, SetLoses, SetSpins, GetLoad, GetRead
<1>6. QED BY <1>1, <1>2, <1>3, <1>4, <1>5 DEF OnceNext, SetStep

(* To its callers an OnceLock is a cell that is written at most once. *)
THEOREM OnceLockImplementsWriteOnce == OnceSafetySpec => ImplementsWriteOnce
<1>1. OnceInit => Cell!Init
  BY DEF OnceInit, Cell!Init
<1>2. OnceInv /\ [OnceNext]_onceVars =>
        [\E v \in Values : Cell!Write(v)]_(IF status = INITIALIZED THEN data ELSE None)
  BY StepSimulation
<1>3. QED
  BY <1>1, <1>2, OnceLockInvariance, PTL DEF OnceSafetySpec, ImplementsWriteOnce, Cell!Spec
=============================================================================
