----------------------------- MODULE SchedProofs -----------------------------
(***************************************************************************)
(* Proofs about Sched, for every number of tasks and set of peripherals.   *)
(*                                                                         *)
(* First, facts about the queues the model is built from: what Append,     *)
(* Tail and concatenation do to the elements of a sequence and to the      *)
(* absence of duplicates.                                                  *)
(*                                                                         *)
(* Then the invariants.  They are inductive once it is said what the       *)
(* memory looks like before the scheduler starts.  What every step of      *)
(* schedule() shares is proved first: ScheduleHome (queues and task        *)
(* states), ScheduleMask (stacks and interrupt masks) and ScheduleType.    *)
(*                                                                         *)
(* Last, the refinement: every step of Sched is a step of RunQueue, the    *)
(* first-in first-out line, on the concatenated queues, or changes nothing *)
(* RunQueue sees.  (That the line also moves on, RunQueue's fairness, is   *)
(* left to the model checker.)                                             *)
(***************************************************************************)
EXTENDS Sched, SequenceTheorems, TLAPS

(* The provers may take their time on a slow machine. *)
USE SMTT(30), ZenonT(30)

-----------------------------------------------------------------------------
(***************************************************************************)
(* Queues.                                                                 *)
(***************************************************************************)

(* An empty queue holds nothing, without duplicates. *)
LEMMA EmptyQueue ==
  Range(<<>>) = {} /\ IsInjective(<<>>)
BY DEF Range, IsInjective

(* The elements of a queue are of the queue's type. *)
LEMMA RangeType ==
  ASSUME NEW S, NEW q \in Seq(S)
  PROVE  Range(q) \subseteq S
BY LenProperties DEF Range

(* A queue without elements is the empty queue. *)
LEMMA NoElements ==
  ASSUME NEW S, NEW q \in Seq(S)
  PROVE  q = <<>> <=> Range(q) = {}
<1>1. ASSUME q # <<>> PROVE Range(q) # {}
  <2>1. 1 \in DOMAIN q
    BY <1>1, EmptySeq, LenProperties
  <2>2. QED BY <2>1 DEF Range
<1>2. QED BY <1>1, EmptyQueue

(* push_back adds one element, and keeps a queue free of duplicates if the
   element was not in it. *)
LEMMA AppendQueue ==
  ASSUME NEW S, NEW q \in Seq(S), NEW x \in S
  PROVE  /\ Append(q, x) \in Seq(S)
         /\ Append(q, x) # <<>>
         /\ Range(Append(q, x)) = Range(q) \union {x}
         /\ IsInjective(q) /\ x \notin Range(q) => IsInjective(Append(q, x))
<1> DEFINE a == Append(q, x)
<1>1. /\ a \in Seq(S) /\ Len(a) = Len(q) + 1
      /\ \A i \in 1..Len(q) : a[i] = q[i]
      /\ a[Len(q) + 1] = x
      /\ DOMAIN a = 1..(Len(q) + 1)
      /\ DOMAIN q = 1..Len(q)
      /\ Len(q) \in Nat
  BY LenProperties
<1> HIDE DEF a
<1>2. Range(a) = Range(q) \union {x}
  <2>1. ASSUME NEW i \in DOMAIN a PROVE a[i] \in Range(q) \union {x}
    BY <2>1, <1>1 DEF Range
  <2>2. ASSUME NEW i \in DOMAIN q PROVE q[i] \in Range(a)
    <3>1. i \in DOMAIN a /\ a[i] = q[i]
      BY <1>1
    <3>2. QED BY <3>1 DEF Range
  <2>3. x \in Range(a)
    <3>1. Len(q) + 1 \in DOMAIN a
      BY <1>1
    <3>2. QED BY <3>1, <1>1 DEF Range
  <2>4. QED BY <2>1, <2>2, <2>3 DEF Range
<1>3. ASSUME IsInjective(q), x \notin Range(q) PROVE IsInjective(a)
  <2> SUFFICES ASSUME NEW i \in DOMAIN a, NEW j \in DOMAIN a, a[i] = a[j]
               PROVE  i = j
    BY DEF IsInjective
  <2>1. \A k \in DOMAIN q : q[k] # x
    BY <1>3 DEF Range
  <2>2. QED BY <1>1, <1>3, <2>1 DEF IsInjective
<1>4. a # <<>>
  BY <1>1
<1>5. QED BY <1>1, <1>2, <1>3, <1>4 DEF a

(* pop_front takes one element off; if the queue had no duplicates it is
   gone from the rest. *)
LEMMA PopQueue ==
  ASSUME NEW S, NEW q \in Seq(S), q # <<>>
  PROVE  /\ Head(q) \in Range(q)
         /\ Head(q) \in S
         /\ Tail(q) \in Seq(S)
         /\ Range(q) = Range(Tail(q)) \union {Head(q)}
         /\ IsInjective(q) => /\ IsInjective(Tail(q))
                              /\ Head(q) \notin Range(Tail(q))
<1> DEFINE r == Tail(q)
<1>1. /\ r \in Seq(S) /\ Len(r) = Len(q) - 1
      /\ Len(q) \in Nat \ {0}
      /\ \A i \in 1..Len(r) : r[i] = q[i + 1]
      /\ DOMAIN r = 1..(Len(q) - 1)
      /\ DOMAIN q = 1..Len(q)
      /\ Head(q) = q[1]
      /\ Head(q) \in S
  BY HeadTailProperties, EmptySeq, LenProperties
<1> HIDE DEF r
<1>2. Head(q) \in Range(q)
  <2>1. 1 \in DOMAIN q
    BY <1>1
  <2>2. QED BY <2>1, <1>1 DEF Range
<1>3. ASSUME NEW i \in DOMAIN q PROVE q[i] \in Range(r) \union {Head(q)}
  <2>1. CASE i = 1
    BY <2>1, <1>1
  <2>2. CASE i # 1
    <3>1. i - 1 \in DOMAIN r /\ r[i - 1] = q[i]
      BY <2>2, <1>1
    <3>2. QED BY <3>1 DEF Range
  <2>3. QED BY <2>1, <2>2
<1>4. ASSUME NEW i \in DOMAIN r PROVE r[i] \in Range(q)
  <2>1. i + 1 \in DOMAIN q /\ r[i] = q[i + 1]
    BY <1>1
  <2>2. QED BY <2>1 DEF Range
<1>5. Range(q) = Range(r) \union {Head(q)}
  BY <1>2, <1>3, <1>4 DEF Range
<1>6. ASSUME IsInjective(q)
      PROVE  IsInjective(r) /\ Head(q) \notin Range(r)
  <2>1. \A i \in DOMAIN r : i + 1 \in DOMAIN q /\ r[i] = q[i + 1] /\ i \in Nat \ {0}
    BY <1>1
  <2>2. ASSUME NEW i \in DOMAIN r, NEW j \in DOMAIN r, r[i] = r[j]
        PROVE  i = j
    <3>1. i + 1 = j + 1
      BY <2>1, <2>2, <1>6 DEF IsInjective
    <3>2. QED BY <3>1, <2>1
  <2>3. ASSUME NEW i \in DOMAIN r PROVE r[i] # Head(q)
    <3>1. i + 1 # 1 /\ 1 \in DOMAIN q
      BY <2>1, <1>1
    <3>2. QED BY <3>1, <2>1, <1>1, <1>6 DEF IsInjective
  <2>4. QED BY <2>2, <2>3 DEF IsInjective, Range
<1>7. QED BY <1>1, <1>2, <1>5, <1>6 DEF r

(* Draining one queue to the end of another keeps every element, and makes
   no duplicate if the two had none and shared none. *)
LEMMA ConcatQueues ==
  ASSUME NEW S, NEW p \in Seq(S), NEW q \in Seq(S)
  PROVE  /\ p \o q \in Seq(S)
         /\ Range(p \o q) = Range(p) \union Range(q)
         /\ (/\ IsInjective(p) /\ IsInjective(q)
             /\ Range(p) \intersect Range(q) = {}) => IsInjective(p \o q)
<1> DEFINE c == p \o q
<1>1. /\ c \in Seq(S) /\ Len(c) = Len(p) + Len(q)
      /\ \A i \in 1..(Len(p) + Len(q)) :
           c[i] = IF i <= Len(p) THEN p[i] ELSE q[i - Len(p)]
      /\ DOMAIN c = 1..(Len(p) + Len(q))
      /\ DOMAIN p = 1..Len(p)
      /\ DOMAIN q = 1..Len(q)
      /\ Len(p) \in Nat /\ Len(q) \in Nat
  BY ConcatProperties, LenProperties
<1> HIDE DEF c
<1>2. ASSUME NEW i \in DOMAIN c PROVE c[i] \in Range(p) \union Range(q)
  <2>1. CASE i <= Len(p)
    BY <2>1, <1>1 DEF Range
  <2>2. CASE ~(i <= Len(p))
    <3>1. i - Len(p) \in DOMAIN q /\ c[i] = q[i - Len(p)]
      BY <2>2, <1>1
    <3>2. QED BY <3>1 DEF Range
  <2>3. QED BY <2>1, <2>2
<1>3. ASSUME NEW i \in DOMAIN p PROVE p[i] \in Range(c)
  <2>1. i \in DOMAIN c /\ c[i] = p[i]
    BY <1>1
  <2>2. QED BY <2>1 DEF Range
<1>4. ASSUME NEW i \in DOMAIN q PROVE q[i] \in Range(c)
  <2>1. i + Len(p) \in DOMAIN c /\ c[i + Len(p)] = q[i]
    BY <1>1
  <2>2. QED BY <2>1 DEF Range
<1>5. Range(c) = Range(p) \union Range(q)
  BY <1>2, <1>3, <1>4 DEF Range
<1>6. ASSUME IsInjective(p), IsInjective(q), Range(p) \intersect Range(q) = {}
      PROVE  IsInjective(c)
  <2> SUFFICES ASSUME NEW i \in DOMAIN c, NEW j \in DOMAIN c, c[i] = c[j]
               PROVE  i = j
    BY DEF IsInjective
  <2>1. \A k \in DOMAIN p, l \in DOMAIN q : p[k] # q[l]
    BY <1>6 DEF Range
  <2>2. CASE i <= Len(p) /\ j <= Len(p)
    BY <2>2, <1>1, <1>6 DEF IsInjective
  <2>3. CASE i <= Len(p) /\ ~(j <= Len(p))
    <3>1. i \in DOMAIN p /\ j - Len(p) \in DOMAIN q
      BY <2>3, <1>1
    <3>2. QED BY <3>1, <2>1, <2>3, <1>1
  <2>4. CASE ~(i <= Len(p)) /\ j <= Len(p)
    <3>1. j \in DOMAIN p /\ i - Len(p) \in DOMAIN q
      BY <2>4, <1>1
    <3>2. QED BY <3>1, <2>1, <2>4, <1>1
  <2>5. CASE ~(i <= Len(p)) /\ ~(j <= Len(p))
    <3>1. /\ i - Len(p) \in DOMAIN q /\ c[i] = q[i - Len(p)]
          /\ j - Len(p) \in DOMAIN q /\ c[j] = q[j - Len(p)]
      BY <2>5, <1>1
    <3>2. i - Len(p) = j - Len(p)
      BY <3>1, <1>6 DEF IsInjective
    <3>3. QED BY <3>2, <1>1
  <2>6. QED BY <2>2, <2>3, <2>4, <2>5
<1>7. QED BY <1>1, <1>5, <1>6 DEF c

(* Pushing to the back of the second of two queues pushes to the back of
   their concatenation. *)
LEMMA ConcatAppend ==
  ASSUME NEW S, NEW p \in Seq(S), NEW q \in Seq(S), NEW x \in S
  PROVE  p \o Append(q, x) = Append(p \o q, x)
<1>1. /\ Append(q, x) = q \o <<x>>
      /\ Append(p \o q, x) = (p \o q) \o <<x>>
      /\ <<x>> \in Seq(S)
      /\ p \o q \in Seq(S)
  BY AppendIsConcat, ConcatProperties
<1>2. QED BY <1>1, ConcatAssociative

-----------------------------------------------------------------------------
(***************************************************************************)
(* The invariants.                                                         *)
(***************************************************************************)

(* Before start_sched nothing runs: only new tasks exist, no stack is in
   use, interrupts are enabled and no interrupt has been asked for. *)
BootState ==
  phase = "boot" =>
    /\ current = Idle
    /\ \A t \in Tids : state[t] \in {"None", "New"}
    /\ \A t \in Tids : stack[t] = <<>> /\ ~ctxMask[t]
    /\ ~masked
    /\ ~flag

(* The idle task is there from the first to the last. *)
IdleLives == state[Idle] \notin {"None", "Terminated"}

IInv ==
  TypeOK /\ OneHome /\ MaskDiscipline /\ FlagStaysInIrq /\ BootState /\ IdleLives

-----------------------------------------------------------------------------
(* Stacks. *)

(* The frame a step leaves on top, and what is below it. *)
LEMMA PopFrame ==
  ASSUME NEW s \in Seq(Frames), s # <<>>
  PROVE  /\ Top(s) \in Frames
         /\ Pop(s) \in Seq(Frames)
         /\ Len(Pop(s)) = Len(s) - 1
         /\ \A i \in 1..(Len(s) - 1) : Pop(s)[i] = s[i]
         /\ Len(s) \in Nat \ {0}
<1>1. Len(s) \in Nat \ {0}
  BY EmptySeq, LenProperties
<1>2. s[Len(s)] \in Frames
  BY <1>1, ElementOfSeq
<1>3. /\ Pop(s) \in Seq(Frames)
      /\ Len(Pop(s)) = Len(s) - 1
      /\ \A i \in 1..(Len(s) - 1) : Pop(s)[i] = s[i]
  <2> DEFINE n == Len(s) - 1
  <2>1. n \in Int /\ 1 \in Int
    BY <1>1
  <2>2. \A i \in 1..n : s[i] \in Frames
    BY <1>1, ElementOfSeq
  <2> HIDE DEF n
  <2>3. /\ SubSeq(s, 1, n) \in Seq(Frames)
        /\ Len(SubSeq(s, 1, n)) = IF 1 <= n THEN n - 1 + 1 ELSE 0
        /\ \A i \in 1..(n - 1 + 1) : SubSeq(s, 1, n)[i] = s[1 + i - 1]
    BY <2>1, <2>2, SubSeqProperties
  <2>4. n \in Nat
    BY <1>1 DEF n
  <2>5. /\ Len(SubSeq(s, 1, n)) = n
        /\ \A i \in 1..n : SubSeq(s, 1, n)[i] = s[i]
    BY <2>3, <2>4
  <2>6. QED BY <2>3, <2>5 DEF Pop, n
<1>4. QED BY <1>1, <1>2, <1>3 DEF Top

(* Pushing a frame. *)
LEMMA PushFrame ==
  ASSUME NEW s \in Seq(Frames), NEW f \in Frames
  PROVE  /\ Append(s, f) \in Seq(Frames)
         /\ Append(s, f) # <<>>
         /\ Len(Append(s, f)) = Len(s) + 1
         /\ Top(Append(s, f)) = f
         /\ \A i \in 1..Len(s) : Append(s, f)[i] = s[i]
         /\ Len(s) \in Nat
<1>1. Len(s) \in Nat
  BY LenProperties
<1>2. QED BY <1>1, AppendProperties DEF Top

(* An interrupt or a critical section entered from a task's own code. *)
LEMMA EnterProper ==
  ASSUME NEW e \in Seq(Frames), e = <<>>,
         NEW f \in Frames, ~f.mask
  PROVE  /\ Append(e, f) \in Seq(Frames)
         /\ Append(e, f) # <<>>
         /\ ProperStack(Append(e, f))
         /\ Len(Append(e, f)) = 1
         /\ Top(Append(e, f)) = f
<1>1. Len(e) = 0
  BY EmptySeq
<1> DEFINE a == Append(e, f)
<1>2. /\ a \in Seq(Frames) /\ a # <<>> /\ Len(a) = Len(e) + 1 /\ Top(a) = f
  BY PushFrame
<1> HIDE DEF a
<1>3. Len(a) = 1 /\ a[1] = f
  BY <1>1, <1>2 DEF Top
<1>4. ProperStack(a)
  BY <1>3 DEF ProperStack
<1>5. QED BY <1>2, <1>3, <1>4 DEF a

(* Leaving the innermost frame restores the mask of what is below it. *)
LEMMA PopProper ==
  ASSUME NEW s \in Seq(Frames), s # <<>>, ProperStack(s)
  PROVE  /\ Pop(s) \in Seq(Frames)
         /\ ProperStack(Pop(s))
         /\ Top(s).mask <=> Pop(s) # <<>>
<1>1. /\ Pop(s) \in Seq(Frames)
      /\ Len(Pop(s)) = Len(s) - 1
      /\ \A i \in 1..(Len(s) - 1) : Pop(s)[i] = s[i]
      /\ Len(s) \in Nat \ {0}
  BY PopFrame
<1>2. CASE Len(s) = 1
  <2>1. Pop(s) = <<>>
    BY <1>1, <1>2, EmptySeq
  <2>2. ~Top(s).mask
    BY <1>2 DEF ProperStack, Top
  <2>3. QED BY <1>1, <1>2, <2>1, <2>2 DEF ProperStack
<1>3. CASE Len(s) = 2
  <2>1. Len(Pop(s)) = 1 /\ Pop(s)[1] = s[1]
    BY <1>1, <1>3
  <2>4. Pop(s) # <<>>
    BY <2>1, EmptySeq
  <2>2. Top(s).mask
    BY <1>3 DEF ProperStack, Top
  <2>3. QED BY <1>1, <1>3, <2>1, <2>2, <2>4 DEF ProperStack
<1>4. QED BY <1>1, <1>2, <1>3 DEF ProperStack

(* A critical section entered behind the dispatch loop. *)
LEMMA NestProper ==
  ASSUME NEW r \in Seq(Frames), Len(r) = 1, ~r[1].mask, r[1].kind = "eret",
         NEW k \in Frames, k = [kind |-> "crit", mask |-> TRUE]
  PROVE  /\ Append(r, k) \in Seq(Frames)
         /\ Append(r, k) # <<>>
         /\ ProperStack(Append(r, k))
         /\ Top(Append(r, k)).kind = "crit"
<1> DEFINE c == Append(r, k)
<1>1. /\ c \in Seq(Frames) /\ c # <<>> /\ Len(c) = Len(r) + 1 /\ Top(c) = k
      /\ \A i \in 1..Len(r) : c[i] = r[i]
  BY PushFrame
<1> HIDE DEF c
<1>2. Len(c) = 2 /\ c[1] = r[1] /\ c[2] = k
  BY <1>1 DEF Top
<1>3. ProperStack(c)
  BY <1>2 DEF ProperStack
<1>4. QED BY <1>1, <1>3 DEF c

(* Leaving the dispatch loop: the interrupt's frame becomes "eret", and a
   critical section on it is proper. *)
LEMMA DispatchProper ==
  ASSUME NEW s \in Seq(Frames), s # <<>>, ProperStack(s), Top(s).kind = "irq",
         NEW e, e = [Top(s) EXCEPT !.kind = "eret"],
         NEW k, k = [kind |-> "crit", mask |-> TRUE]
  PROVE  LET r == Append(Pop(s), e)
             c == Append(r, k)
         IN  /\ r \in Seq(Frames) /\ r # <<>> /\ ProperStack(r)
             /\ c \in Seq(Frames) /\ c # <<>> /\ ProperStack(c)
             /\ Top(c).kind = "crit"
<1> DEFINE r == Append(Pop(s), e)
<1>1. /\ Top(s) \in Frames
      /\ Pop(s) \in Seq(Frames)
      /\ Len(Pop(s)) = Len(s) - 1
      /\ Len(s) \in Nat \ {0}
  BY PopFrame
<1>2. Len(s) = 1
  <2>1. Len(s) # 2
    BY DEF ProperStack, Top
  <2>2. QED BY <1>1, <2>1 DEF ProperStack
<1>3. ~Top(s).mask
  BY <1>2 DEF ProperStack, Top
<1>4. e \in Frames /\ e.kind = "eret" /\ ~e.mask
  <2> DEFINE t == Top(s)
  <2>1. t \in Frames /\ ~t.mask /\ e = [t EXCEPT !.kind = "eret"]
    BY <1>1, <1>3
  <2> HIDE DEF t
  <2>2. QED BY <2>1 DEF Frames, FrameKinds
<1>5. k \in Frames
  BY DEF Frames, FrameKinds
<1>6. Pop(s) = <<>>
  BY <1>1, <1>2, EmptySeq
<1>7. r \in Seq(Frames) /\ r # <<>> /\ Len(r) = 1 /\ Top(r) = e /\ ProperStack(r)
  BY <1>1, <1>4, <1>6, EnterProper
<1> HIDE DEF r
<1>8. r[1] = e
  BY <1>7 DEF Top
<1>9. /\ Append(r, k) \in Seq(Frames) /\ Append(r, k) # <<>>
      /\ ProperStack(Append(r, k)) /\ Top(Append(r, k)).kind = "crit"
  BY <1>4, <1>5, <1>7, <1>8, NestProper
<1>10. QED BY <1>7, <1>9 DEF r
-----------------------------------------------------------------------------
(* Queues and task states. *)

(* Scheduler::schedule may be entered: the queues hold the tasks their
   states name, and only the current task may be Running. *)
QueuesHold(st) ==
  /\ st \in [Tids -> TaskStates]
  /\ Holds(newQ, {t \in Tasks : st[t] = "New"})
  /\ Holds(readyQ, {t \in Tasks : st[t] = "Ready"})
  /\ st[current] \in {"Running", "Terminated"}
  /\ \A t \in Tids : st[t] = "Running" => t = current

(* What is known of queues and task states once schedule() is through. *)
QueuesHeld(st) ==
  /\ newQ' \in Seq(Tasks)
  /\ readyQ' \in Seq(Tasks)
  /\ current' \in Tids
  /\ state' \in [Tids -> TaskStates]
  /\ Holds(newQ', {t \in Tasks : state'[t] = "New"})
  /\ Holds(readyQ', {t \in Tasks : state'[t] = "Ready"})
  /\ {t \in Tids : state'[t] = "Running"} = {current'}
  /\ \A t \in Tids : state'[t] = "None" <=> st[t] = "None"
  /\ \A t \in Tids : state'[t] = "Terminated" <=> st[t] = "Terminated"

LEMMA TidFacts == Tids = Tasks \union {Idle} /\ Idle \notin Tasks /\ Idle \in Tids
BY MaxTidAssumption DEF Tids, Tasks, Idle

(* The drained ready_queue holds every new and every ready task, once. *)
LEMMA PreparedHold ==
  ASSUME NEW st, QueuesHold(st), newQ \in Seq(Tasks), readyQ \in Seq(Tasks)
  PROVE  /\ PreparedQ \in Seq(Tasks)
         /\ Holds(PreparedQ, {t \in Tasks : st[t] \in {"New", "Ready"}})
         /\ \A t \in Tids : Prepared(st)[t] =
              IF t \in Tasks /\ st[t] = "New" THEN "Ready" ELSE st[t]
         /\ Prepared(st) \in [Tids -> TaskStates]
<1>1. Range(readyQ) \intersect Range(newQ) = {}
  BY DEF QueuesHold, Holds
<1>2. /\ PreparedQ \in Seq(Tasks)
      /\ Range(PreparedQ) = Range(readyQ) \union Range(newQ)
      /\ IsInjective(PreparedQ)
  BY <1>1, ConcatQueues DEF QueuesHold, Holds, PreparedQ
<1>3. Holds(PreparedQ, {t \in Tasks : st[t] \in {"New", "Ready"}})
  BY <1>2 DEF QueuesHold, Holds
<1>4. \A t \in Tids : t \in Range(newQ) <=> (t \in Tasks /\ st[t] = "New")
  BY DEF QueuesHold, Holds
<1>5. \A t \in Tids : Prepared(st)[t] =
        IF t \in Tasks /\ st[t] = "New" THEN "Ready" ELSE st[t]
  BY <1>4 DEF Prepared
<1>6. Prepared(st) \in [Tids -> TaskStates]
  BY DEF Prepared, QueuesHold, TaskStates
<1>7. QED BY <1>2, <1>3, <1>5, <1>6

(* schedule() returns at once: nobody was in the queues. *)
LEMMA KeepHome ==
  ASSUME NEW st, QueuesHold(st), newQ \in Seq(Tasks), readyQ \in Seq(Tasks),
         current \in Tids, NEW fs, KeepCurrent(st, fs)
  PROVE  QueuesHeld(st)
<1>1. \A t \in Tasks : st[t] \notin {"New", "Ready"}
  BY PreparedHold, EmptyQueue DEF KeepCurrent, Holds
<1>2. /\ state' \in [Tids -> TaskStates]
      /\ \A t \in Tids : state'[t] = st[t]
  BY <1>1, PreparedHold DEF KeepCurrent
<1>3. newQ' = <<>> /\ newQ' \in Seq(Tasks) /\ Holds(newQ', {})
  BY EmptyQueue, EmptySeq DEF KeepCurrent, Holds
<1>4. {t \in Tasks : state'[t] = "New"} = {}
  BY <1>1, <1>2, TidFacts
<1>5. readyQ' = readyQ /\ current' = current
  BY DEF KeepCurrent
<1>6. {t \in Tasks : state'[t] = "Ready"} = {t \in Tasks : st[t] = "Ready"}
  BY <1>2, TidFacts
<1>7. {t \in Tids : state'[t] = "Running"} = {current'}
  BY <1>2, <1>5 DEF KeepCurrent, QueuesHold
<1>8. QED BY <1>2, <1>3, <1>4, <1>5, <1>6, <1>7 DEF QueuesHeld, QueuesHold

(* schedule() switches to another task, with rest left in ready_queue. *)
LEMMA SwitchHome ==
  ASSUME NEW st, QueuesHold(st), newQ \in Seq(Tasks), readyQ \in Seq(Tasks),
         current \in Tids, NEW fs,
         NEW next \in Tids, next # current, st[next] # "None",
         st[next] # "Terminated",
         NEW rest \in Seq(Tasks),
         Holds(rest, {t \in Tasks : st[t] \in {"New", "Ready"}} \ {next}),
         SwitchTo(next, rest, st, fs)
  PROVE  QueuesHeld(st)
<1>1. /\ state' \in [Tids -> TaskStates]
      /\ \A t \in Tids : state'[t] =
           IF t = next THEN "Running"
           ELSE IF t = current THEN IF st[t] = "Running" THEN "Ready" ELSE st[t]
           ELSE IF t \in Tasks /\ st[t] = "New" THEN "Ready" ELSE st[t]
  <2> DEFINE p == Prepared(st)
  <2>1. /\ p \in [Tids -> TaskStates]
        /\ \A t \in Tids : p[t] =
             IF t \in Tasks /\ st[t] = "New" THEN "Ready" ELSE st[t]
    BY PreparedHold
  <2>2. state' = [p EXCEPT
                   ![current] = IF st[current] = "Running" THEN "Ready" ELSE @,
                   ![next] = "Running"]
    BY DEF SwitchTo
  <2>3. st[current] # "New"
    BY DEF QueuesHold
  <2> HIDE DEF p
  <2>4. QED BY <2>1, <2>2, <2>3 DEF TaskStates
<1>2. newQ' = <<>> /\ newQ' \in Seq(Tasks) /\ Holds(newQ', {})
  BY EmptyQueue, EmptySeq DEF SwitchTo, Holds
<1>3. {t \in Tasks : state'[t] = "New"} = {}
  <2>1. st[current] # "New"
    BY DEF QueuesHold
  <2>2. QED BY <1>1, <2>1, TidFacts
<1>4. current' = next
  BY DEF SwitchTo
<1>5. {t \in Tids : state'[t] = "Running"} = {next}
  BY <1>1 DEF QueuesHold
<1>6. \A t \in Tids : /\ state'[t] = "None" <=> st[t] = "None"
                      /\ state'[t] = "Terminated" <=> st[t] = "Terminated"
  BY <1>1
<1>7. readyQ' \in Seq(Tasks) /\ Holds(readyQ', {t \in Tasks : state'[t] = "Ready"})
  <2>1. current \notin {t \in Tasks : st[t] \in {"New", "Ready"}}
    BY DEF QueuesHold
  <2>2. CASE st[current] = "Running" /\ current # Idle
    <3>1. readyQ' = Append(rest, current) /\ current \in Tasks
      BY <2>2, TidFacts DEF SwitchTo, Requeued
    <3>2. current \notin Range(rest)
      BY <2>1 DEF Holds
    <3>3. /\ readyQ' \in Seq(Tasks)
          /\ Range(readyQ') = Range(rest) \union {current}
          /\ IsInjective(readyQ')
      BY <3>1, <3>2, AppendQueue DEF Holds
    <3>4. {t \in Tasks : state'[t] = "Ready"}
            = ({t \in Tasks : st[t] \in {"New", "Ready"}} \ {next}) \union {current}
      BY <1>1, <2>2, <3>1, TidFacts
    <3>5. QED BY <3>3, <3>4 DEF Holds
  <2>3. CASE ~(st[current] = "Running" /\ current # Idle)
    <3>1. readyQ' = rest
      BY <2>3 DEF SwitchTo, Requeued
    <3>2. \A t \in Tasks : (state'[t] = "Ready") <=>
                             (st[t] \in {"New", "Ready"} /\ t # next)
      <4> TAKE t \in Tasks
      <4>1. t \in Tids /\ t # Idle
        BY TidFacts
      <4>2. CASE t = current
        <5>1. st[t] = "Terminated"
          BY <2>3, <4>1, <4>2 DEF QueuesHold
        <5>2. QED BY <1>1, <4>1, <4>2, <5>1
      <4>3. CASE t # current
        BY <1>1, <4>1, <4>3
      <4>4. QED BY <4>2, <4>3
    <3>3. QED BY <3>1, <3>2 DEF Holds
  <2>4. QED BY <2>2, <2>3
<1>8. QED BY <1>1, <1>2, <1>3, <1>4, <1>5, <1>6, <1>7 DEF QueuesHeld

(* The task schedule() switches to is not the current one, and what it
   leaves in ready_queue is everybody else who waits. *)
LEMMA SwitchCases ==
  ASSUME NEW st, QueuesHold(st), newQ \in Seq(Tasks), readyQ \in Seq(Tasks),
         current \in Tids, NEW fs, Schedule(st, fs),
         current = Idle => st[current] = "Running",
         st[Idle] \notin {"None", "Terminated"}
  PROVE  \/ KeepCurrent(st, fs)
         \/ \E next \in Tids, rest \in Seq(Tasks) :
              /\ next # current
              /\ st[next] \notin {"None", "Terminated"}
              /\ Holds(rest, {t \in Tasks : st[t] \in {"New", "Ready"}} \ {next})
              /\ SwitchTo(next, rest, st, fs)
<1> DEFINE waiting == {t \in Tasks : st[t] \in {"New", "Ready"}}
<1>1. PreparedQ \in Seq(Tasks) /\ Holds(PreparedQ, waiting)
  BY PreparedHold
<1>2. CASE PreparedQ = <<>> /\ st[current] # "Running"
           /\ SwitchTo(Idle, <<>>, st, fs)
  <2>1. Idle # current
    BY <1>2
  <2>2. <<>> \in Seq(Tasks) /\ Holds(<<>>, waiting \ {Idle})
    <3>1. waiting = {}
      BY <1>1, <1>2, EmptyQueue DEF Holds
    <3>2. QED BY <3>1, EmptyQueue, EmptySeq DEF Holds
  <2>3. QED BY <1>2, <2>1, <2>2, TidFacts
<1>3. CASE PreparedQ # <<>> /\ SwitchTo(Head(PreparedQ), Tail(PreparedQ), st, fs)
  <2> DEFINE next == Head(PreparedQ)
             rest == Tail(PreparedQ)
  <2>1. /\ next \in Range(PreparedQ) /\ next \in Tasks
        /\ rest \in Seq(Tasks)
        /\ Range(PreparedQ) = Range(rest) \union {next}
        /\ IsInjective(rest) /\ next \notin Range(rest)
    BY <1>1, <1>3, PopQueue DEF Holds
  <2>2. SwitchTo(next, rest, st, fs)
    BY <1>3
  <2> HIDE DEF next, rest
  <2>3. next \in Tids /\ st[next] \in {"New", "Ready"}
    BY <1>1, <2>1, TidFacts DEF Holds
  <2>4. next # current
    BY <2>3 DEF QueuesHold
  <2>5. Holds(rest, waiting \ {next})
    BY <1>1, <2>1 DEF Holds
  <2>6. QED BY <2>1, <2>2, <2>3, <2>4, <2>5
<1>4. QED BY <1>2, <1>3 DEF Schedule

(* What every call of schedule() does to queues and task states. *)
LEMMA ScheduleHome ==
  ASSUME NEW st, QueuesHold(st), newQ \in Seq(Tasks), readyQ \in Seq(Tasks),
         current \in Tids, NEW fs, Schedule(st, fs),
         current = Idle => st[current] = "Running",
         st[Idle] \notin {"None", "Terminated"}
  PROVE  QueuesHeld(st)
<1>1. CASE KeepCurrent(st, fs)
  <2>1. QED BY <1>1, KeepHome
<1>2. CASE \E next \in Tids, rest \in Seq(Tasks) :
              /\ next # current
              /\ st[next] \notin {"None", "Terminated"}
              /\ Holds(rest, {t \in Tasks : st[t] \in {"New", "Ready"}} \ {next})
              /\ SwitchTo(next, rest, st, fs)
  BY <1>2, SwitchHome
<1>3. QED BY <1>1, <1>2, SwitchCases

-----------------------------------------------------------------------------
(* Stacks and masks. *)

(* The stacks and masks after schedule(), entered with the frames fs that a
   critical section of the current task leaves. *)
LEMMA ScheduleMask ==
  ASSUME TypeOK, MaskDiscipline, NEW st, NEW fs \in [Tids -> Seq(Frames)],
         \A t \in Tids \ {current} : fs[t] = stack[t],
         ProperStack(fs[current]), fs[current] # <<>>,
         Top(fs[current]).kind = "crit",
         \/ KeepCurrent(st, fs)
         \/ \E next \in Tids \ {current} : \E rest : SwitchTo(next, rest, st, fs)
  PROVE  /\ MaskDiscipline'
         /\ stack' \in [Tids -> Seq(Frames)]
         /\ ctxMask' \in [Tids -> BOOLEAN]
         /\ masked' \in BOOLEAN
<1> USE DEF TypeOK
<1>1. /\ stack' = fs
      /\ \A t \in Tids : ProperStack(fs[t])
  BY DEF KeepCurrent, SwitchTo, MaskDiscipline
<1>2. CASE KeepCurrent(st, fs)
  BY <1>1, <1>2 DEF KeepCurrent, MaskDiscipline
<1>3. ASSUME NEW next \in Tids \ {current}, NEW rest, SwitchTo(next, rest, st, fs)
      PROVE  /\ MaskDiscipline'
             /\ stack' \in [Tids -> Seq(Frames)]
             /\ ctxMask' \in [Tids -> BOOLEAN]
             /\ masked' \in BOOLEAN
  <2>1. /\ current' = next
        /\ ctxMask' = [ctxMask EXCEPT ![current] = TRUE]
        /\ masked' = ctxMask[next]
    BY <1>3 DEF SwitchTo, MaskLoaded
  <2>2. masked' <=> fs[next] # <<>>
    BY <2>1 DEF MaskDiscipline
  <2>3. ASSUME NEW t \in Tids \ {next}
        PROVE  /\ ctxMask'[t] <=> fs[t] # <<>>
               /\ fs[t] # <<>> => Top(fs[t]).kind = "crit"
    <3>1. CASE t = current
      BY <2>1, <3>1
    <3>2. CASE t # current
      BY <2>1, <3>2 DEF MaskDiscipline
    <3>3. QED BY <3>1, <3>2
  <2>4. MaskDiscipline'
    BY <1>1, <2>1, <2>2, <2>3 DEF MaskDiscipline
  <2>5. QED BY <1>1, <2>1, <2>4
<1>4. QED BY <1>2, <1>3

(* Frames of another task are left alone by a step on the current stack. *)
LEMMA StackStep ==
  ASSUME TypeOK, MaskDiscipline, NEW s \in Seq(Frames), ProperStack(s),
         stack' = [stack EXCEPT ![current] = s],
         UNCHANGED <<current, ctxMask>>,
         masked' \in BOOLEAN,
         masked' <=> s # <<>>
  PROVE  MaskDiscipline' /\ stack' \in [Tids -> Seq(Frames)]
<1>1. /\ stack' \in [Tids -> Seq(Frames)]
      /\ stack'[current] = s
      /\ \A t \in Tids \ {current} : stack'[t] = stack[t]
  BY DEF TypeOK
<1>2. \A t \in Tids : ProperStack(stack'[t])
  BY <1>1 DEF MaskDiscipline
<1>3. MaskDiscipline'
  BY <1>1, <1>2 DEF MaskDiscipline, TypeOK
<1>4. QED BY <1>1, <1>3

-----------------------------------------------------------------------------
(* The invariant. *)

(* The initial state: only the idle task exists. *)
LEMMA InitIInv == Init => IInv
<1> SUFFICES ASSUME Init PROVE IInv
  OBVIOUS
<1> USE DEF Init
<1>1. TypeOK
  <2>1. <<>> \in Seq(Tasks) /\ <<>> \in Seq(Frames)
    BY EmptySeq
  <2>2. state \in [Tids -> TaskStates]
    BY DEF TaskStates
  <2>3. /\ place \in [Tids -> Places]
        /\ ctxMask \in [Tids -> BOOLEAN]
    BY DEF Places
  <2>4. stack \in [Tids -> Seq(Frames)]
    BY <2>1
  <2>5. nextTid \in 1..(MaxTid + 1)
    BY MaxTidAssumption
  <2>6. QED BY <2>1, <2>2, <2>3, <2>4, <2>5, TidFacts DEF TypeOK
<1>2. \A t \in Tids : /\ state[t] = IF t = Idle THEN "New" ELSE "None"
                      /\ stack[t] = <<>> /\ ~ctxMask[t]
  OBVIOUS
<1>3. OneHome
  <2>1. Holds(<<>>, {})
    BY EmptyQueue DEF Holds
  <2>2. \A t \in Tasks : state[t] = "None"
    BY <1>2, TidFacts
  <2>3. /\ {t \in Tasks : state[t] = "New"} = {}
        /\ {t \in Tasks : state[t] = "Ready"} = {}
        /\ {t \in Tasks : state[t] = "Terminated"} = {}
    BY <2>2
  <2>4. \A t \in Tids : t >= nextTid => state[t] = "None"
    BY <1>2 DEF Tids, Idle
  <2>5. QED BY <2>1, <2>3, <2>4 DEF OneHome
<1>4. MaskDiscipline
  <2>1. ProperStack(<<>>)
    BY EmptySeq DEF ProperStack
  <2>2. QED BY <1>2, <2>1, TidFacts DEF MaskDiscipline
<1>5. FlagStaysInIrq /\ BootState /\ IdleLives
  BY <1>2, TidFacts DEF FlagStaysInIrq, BootState, IdleLives
<1>6. QED BY <1>1, <1>3, <1>4, <1>5 DEF IInv

(* Every call of schedule(), whoever makes it, keeps the invariant. *)
LEMMA ScheduleStep ==
  ASSUME IInv, phase = "sched", UNCHANGED <<phase, nextTid>>,
         NEW st, NEW fs \in [Tids -> Seq(Frames)], Schedule(st, fs),
         QueuesHold(st),
         current = Idle => st[current] = "Running",
         st[Idle] \notin {"None", "Terminated"},
         \A t \in Tids : st[t] = "None" <=> state[t] = "None",
         \A t \in Tids \ {current} : fs[t] = stack[t],
         ProperStack(fs[current]), fs[current] # <<>>,
         Top(fs[current]).kind = "crit",
         termQ' \in Seq(Tasks),
         Holds(termQ', {t \in Tasks : st[t] = "Terminated"}),
         ~flag', flag' \in BOOLEAN,
         place' \in [Tids -> Places],
         UNCHANGED <<alarm, lines, raises>>
  PROVE  IInv'
<1> USE DEF IInv
<1>1. newQ \in Seq(Tasks) /\ readyQ \in Seq(Tasks) /\ current \in Tids
  BY DEF TypeOK
<1>2. QueuesHeld(st)
  BY <1>1, ScheduleHome
<1>3. /\ MaskDiscipline'
      /\ stack' \in [Tids -> Seq(Frames)]
      /\ ctxMask' \in [Tids -> BOOLEAN]
      /\ masked' \in BOOLEAN
  <2>1. \/ KeepCurrent(st, fs)
        \/ \E next \in Tids \ {current} : \E rest : SwitchTo(next, rest, st, fs)
    BY <1>1, SwitchCases
  <2>2. QED BY <2>1, ScheduleMask
<1>4. TypeOK'
  BY <1>2, <1>3 DEF TypeOK, QueuesHeld
<1>5. OneHome'
  <2>1. {t \in Tasks : st[t] = "Terminated"} = {t \in Tasks : state'[t] = "Terminated"}
    BY <1>2, TidFacts DEF QueuesHeld
  <2>2. \A t \in Tids : t >= nextTid => state'[t] = "None"
    BY <1>2 DEF QueuesHeld, OneHome
  <2>3. QED BY <1>2, <2>1, <2>2 DEF QueuesHeld, OneHome
<1>6. FlagStaysInIrq' /\ BootState' /\ IdleLives'
  BY <1>2, TidFacts DEF FlagStaysInIrq, BootState, IdleLives, QueuesHeld
<1>7. QED BY <1>3, <1>4, <1>5, <1>6

(* Where the processor may be, as the invariant tells it. *)
LEMMA CurrentFacts ==
  ASSUME IInv, phase = "sched"
  PROVE  /\ state[current] = "Running"
         /\ QueuesHold(state)
         /\ current \in Tids
         /\ stack[current] \in Seq(Frames)
         /\ ProperStack(stack[current])
         /\ masked <=> stack[current] # <<>>
         /\ flag => Inside("irq")
<1>1. state[current] = "Running" /\ \A t \in Tids : state[t] = "Running" => t = current
  BY DEF IInv, OneHome, TypeOK
<1>2. QueuesHold(state)
  BY <1>1 DEF IInv, OneHome, TypeOK, QueuesHold
<1>3. QED BY <1>1, <1>2 DEF IInv, TypeOK, MaskDiscipline, FlagStaysInIrq

(* A critical section entered from the task's own code. *)
LEMMA CriticalFrames ==
  ASSUME IInv, InTask
  PROVE  /\ Critical \in [Tids -> Seq(Frames)]
         /\ \A t \in Tids \ {current} : Critical[t] = stack[t]
         /\ ProperStack(Critical[current])
         /\ Critical[current] # <<>>
         /\ Top(Critical[current]).kind = "crit"
         /\ ~flag
<1>1. /\ current \in Tids /\ stack[current] = <<>> /\ ~masked
      /\ stack[current] \in Seq(Frames)
  BY CurrentFacts DEF InTask
<1>2. ~flag
  BY <1>1, CurrentFacts DEF InTask, Inside
<1> DEFINE f == [kind |-> "crit", mask |-> masked]
<1>3. f \in Frames /\ ~f.mask /\ f.kind = "crit"
  BY <1>1 DEF Frames, FrameKinds, IInv, TypeOK
<1> HIDE DEF f
<1>4. Critical = [stack EXCEPT ![current] = Append(stack[current], f)]
  BY DEF Critical, f
<1>5. LET a == Append(stack[current], f)
      IN  a \in Seq(Frames) /\ a # <<>> /\ ProperStack(a) /\ Top(a) = f
  BY <1>1, <1>3, EnterProper
<1>6. QED BY <1>1, <1>2, <1>3, <1>4, <1>5 DEF IInv, TypeOK

(* add_task: a thread id above every one in use enters new_queue. *)
LEMMA PushHome ==
  ASSUME IInv, NEW tid, tid >= nextTid, PushNewTask(tid),
         UNCHANGED <<phase, readyQ, termQ, current>>
  PROVE  /\ OneHome' /\ IdleLives'
         /\ nextTid' \in 1..(MaxTid + 1)
         /\ newQ' \in Seq(Tasks)
         /\ state' \in [Tids -> TaskStates]
         /\ \A t \in Tids : state'[t] = IF t = tid THEN "New" ELSE state[t]
<1> USE DEF IInv
<1>1. /\ tid \in Tasks /\ tid \in Tids /\ tid # Idle
      /\ state[tid] = "None"
      /\ nextTid' = tid + 1
      /\ newQ' = Append(newQ, tid)
      /\ state' = [state EXCEPT ![tid] = "New"]
  BY TidFacts DEF PushNewTask, OneHome
<1>2. /\ state' \in [Tids -> TaskStates]
      /\ \A t \in Tids : state'[t] = IF t = tid THEN "New" ELSE state[t]
  BY <1>1 DEF TypeOK, TaskStates
<1>3. nextTid' \in 1..(MaxTid + 1)
  BY <1>1, MaxTidAssumption DEF Tasks
<1>4. /\ newQ' \in Seq(Tasks)
      /\ Range(newQ') = Range(newQ) \union {tid}
      /\ IsInjective(newQ')
  <2>1. tid \notin Range(newQ) /\ IsInjective(newQ) /\ newQ \in Seq(Tasks)
    BY <1>1 DEF OneHome, Holds, TypeOK
  <2>2. QED BY <1>1, <2>1, AppendQueue
<1>5. OneHome'
  <2>1. Holds(newQ', {t \in Tasks : state'[t] = "New"})
    BY <1>1, <1>2, <1>4, TidFacts DEF OneHome, Holds
  <2>2. /\ {t \in Tasks : state'[t] = "Ready"} = {t \in Tasks : state[t] = "Ready"}
        /\ {t \in Tasks : state'[t] = "Terminated"}
             = {t \in Tasks : state[t] = "Terminated"}
        /\ {t \in Tids : state'[t] = "Running"} = {t \in Tids : state[t] = "Running"}
    BY <1>1, <1>2, TidFacts
  <2>3. \A t \in Tids : t >= nextTid' => state'[t] = "None"
    BY <1>1, <1>2 DEF OneHome, TypeOK, Tids, Tasks
  <2>4. QED BY <2>1, <2>2, <2>3 DEF OneHome
<1>6. IdleLives'
  BY <1>1, <1>2, TidFacts DEF IdleLives
<1>7. QED BY <1>2, <1>3, <1>4, <1>5, <1>6

LEMMA BootAddTaskIInv ==
  ASSUME IInv, BootAddTask
  PROVE  IInv'
<1> USE DEF IInv
<1>1. nextTid + 1 >= nextTid
  BY DEF TypeOK
<1>2. UNCHANGED <<phase, readyQ, termQ, current>> /\ PushNewTask(nextTid + 1)
  BY DEF BootAddTask
<1>3. /\ OneHome' /\ IdleLives'
      /\ nextTid' \in 1..(MaxTid + 1)
      /\ newQ' \in Seq(Tasks)
      /\ state' \in [Tids -> TaskStates]
      /\ \A t \in Tids : state'[t] = IF t = nextTid + 1 THEN "New" ELSE state[t]
  BY <1>1, <1>2, PushHome
<1>4. UNCHANGED <<phase, readyQ, termQ, current, place, ctxMask, stack, masked,
                  flag, alarm, lines, raises>>
  BY DEF BootAddTask, cpuVars, irqVars
<1>5. TypeOK'
  BY <1>3, <1>4 DEF TypeOK
<1>6. MaskDiscipline' /\ FlagStaysInIrq'
  BY <1>4 DEF MaskDiscipline, FlagStaysInIrq, Inside
<1>7. BootState'
  BY <1>3, <1>4 DEF BootState
<1>8. QED BY <1>3, <1>5, <1>6, <1>7

LEMMA StartSchedIInv ==
  ASSUME IInv, StartSched
  PROVE  IInv'
<1> USE DEF IInv
<1>1. /\ phase = "boot" /\ phase' = "sched" /\ alarm' = "armed"
      /\ current = Idle /\ state' = [state EXCEPT ![Idle] = "Running"]
      /\ ~masked'
      /\ masked' \in BOOLEAN
      /\ UNCHANGED <<nextTid, newQ, readyQ, termQ, current, place, stack,
                     ctxMask, flag, lines, raises>>
  BY TidFacts DEF StartSched, BootState, TypeOK, queueVars
<1>2. /\ state' \in [Tids -> TaskStates]
      /\ \A t \in Tids : state'[t] = IF t = Idle THEN "Running" ELSE state[t]
  BY <1>1 DEF TypeOK, TaskStates
<1>3. \A t \in Tasks : state'[t] = state[t]
  BY <1>2, TidFacts
<1>4. OneHome'
  <2>1. /\ {t \in Tasks : state'[t] = "New"} = {t \in Tasks : state[t] = "New"}
        /\ {t \in Tasks : state'[t] = "Ready"} = {t \in Tasks : state[t] = "Ready"}
        /\ {t \in Tasks : state'[t] = "Terminated"}
             = {t \in Tasks : state[t] = "Terminated"}
    BY <1>3
  <2>2. {t \in Tids : state'[t] = "Running"} = {Idle}
    BY <1>1, <1>2, TidFacts DEF BootState
  <2>3. \A t \in Tids : t >= nextTid => t # Idle
    BY DEF TypeOK, Tids, Idle
  <2>4. QED BY <1>1, <1>2, <2>1, <2>2, <2>3 DEF OneHome
<1>5. TypeOK'
  BY <1>1, <1>2 DEF TypeOK
<1>6. MaskDiscipline' /\ FlagStaysInIrq' /\ BootState' /\ IdleLives'
  BY <1>1, <1>2, TidFacts
     DEF MaskDiscipline, FlagStaysInIrq, BootState, IdleLives
<1>7. QED BY <1>4, <1>5, <1>6

(* Steps that touch neither queues, nor stacks, nor the flag. *)
LEMMA FrameIInv ==
  ASSUME IInv, UNCHANGED <<phase, schedVars, cpuVars, flag>>, TypeOK',
         nextTid' >= nextTid
  PROVE  IInv'
<1> USE DEF IInv, schedVars, cpuVars
<1>1. OneHome'
  <2>1. \A t \in Tids : t >= nextTid' => t >= nextTid
    BY DEF TypeOK, Tids
  <2>2. QED BY <2>1 DEF OneHome
<1>2. MaskDiscipline' /\ FlagStaysInIrq' /\ BootState' /\ IdleLives'
  BY DEF MaskDiscipline, FlagStaysInIrq, Inside, BootState, IdleLives
<1>3. QED BY <1>1, <1>2

LEMMA WaitForInterruptIInv ==
  ASSUME IInv, WaitForInterrupt
  PROVE  IInv'
<1>1. TypeOK'
  BY DEF IInv, TypeOK, WaitForInterrupt, schedVars, cpuVars, irqVars, Places
<1>2. QED
  BY <1>1, FrameIInv DEF IInv, TypeOK, WaitForInterrupt, irqVars

LEMMA AddTaskBeginIInv ==
  ASSUME IInv, AddTaskBegin
  PROVE  IInv'
<1>1. TypeOK'
  BY MaxTidAssumption
     DEF IInv, TypeOK, AddTaskBegin, schedVars, cpuVars, irqVars, Places
<1>2. nextTid' >= nextTid
  BY DEF IInv, TypeOK, AddTaskBegin
<1>3. QED BY <1>1, <1>2, FrameIInv DEF AddTaskBegin, irqVars

LEMMA AlarmDeviceIInv ==
  ASSUME IInv, AlarmExpires \/ \E d \in Devices : DeviceRaises(d)
  PROVE  IInv'
<1>1. CASE AlarmExpires
  <2>1. TypeOK'
    BY <1>1 DEF IInv, TypeOK, AlarmExpires, schedVars, cpuVars
  <2>2. QED BY <1>1, <2>1, FrameIInv DEF IInv, TypeOK, AlarmExpires
<1>2. ASSUME NEW d \in Devices, DeviceRaises(d) PROVE IInv'
  <2>1. TypeOK'
    BY <1>2, MaxRaisesAssumption DEF IInv, TypeOK, DeviceRaises, schedVars, cpuVars
  <2>2. QED BY <1>2, <2>1, FrameIInv DEF IInv, TypeOK, DeviceRaises
<1>3. QED BY <1>1, <1>2

LEMMA DispatchDeviceIInv ==
  ASSUME IInv, NEW d \in Devices, DispatchDevice(d)
  PROVE  IInv'
<1>1. TypeOK'
  BY DEF IInv, TypeOK, DispatchDevice, schedVars, cpuVars
<1>2. QED BY <1>1, FrameIInv DEF IInv, TypeOK, DispatchDevice

LEMMA DispatchAlarmIInv ==
  ASSUME IInv, DispatchAlarm
  PROVE  IInv'
<1> USE DEF IInv, DispatchAlarm, AlarmHandler, schedVars, cpuVars
<1>1. TypeOK'
  BY DEF TypeOK
<1>2. OneHome' /\ MaskDiscipline' /\ IdleLives'
  BY DEF OneHome, MaskDiscipline, IdleLives
<1>3. FlagStaysInIrq' /\ BootState'
  BY DEF FlagStaysInIrq, BootState, Inside
<1>4. QED BY <1>1, <1>2, <1>3

LEMMA AddTaskPushIInv ==
  ASSUME IInv, AddTaskPush
  PROVE  IInv'
<1> USE DEF IInv
<1>1. nextTid >= nextTid
  BY DEF TypeOK
<1>2. /\ PushNewTask(nextTid)
      /\ UNCHANGED <<phase, readyQ, termQ, current, ctxMask, stack, masked,
                     flag, alarm, lines, raises>>
      /\ place' = [place EXCEPT ![current] = "run"]
      /\ phase = "sched"
  BY DEF AddTaskPush, cpuVars, irqVars, InTask
<1>3. /\ OneHome' /\ IdleLives'
      /\ nextTid' \in 1..(MaxTid + 1)
      /\ newQ' \in Seq(Tasks)
      /\ state' \in [Tids -> TaskStates]
  BY <1>1, <1>2, PushHome
<1>4. TypeOK'
  BY <1>2, <1>3 DEF TypeOK, Places
<1>5. MaskDiscipline' /\ FlagStaysInIrq' /\ BootState'
  BY <1>2 DEF MaskDiscipline, FlagStaysInIrq, Inside, BootState
<1>6. QED BY <1>3, <1>4, <1>5

LEMMA YieldTaskIInv ==
  ASSUME IInv, YieldTask
  PROVE  IInv'
<1>1. /\ phase = "sched" /\ InTask
      /\ Schedule(state, Critical)
      /\ UNCHANGED <<phase, nextTid, termQ, flag, alarm, lines, raises>>
      /\ place' = [place EXCEPT ![current] = "run"]
  BY DEF YieldTask, InTask, irqVars
<1>2. /\ QueuesHold(state)
      /\ current = Idle => state[current] = "Running"
      /\ state[Idle] \notin {"None", "Terminated"}
  BY <1>1, CurrentFacts DEF IInv, IdleLives
<1>3. /\ termQ' \in Seq(Tasks)
      /\ Holds(termQ', {t \in Tasks : state[t] = "Terminated"})
      /\ place' \in [Tids -> Places]
      /\ flag' \in BOOLEAN
  BY <1>1 DEF IInv, OneHome, TypeOK, Places
<1>4. QED BY <1>1, <1>2, <1>3, CriticalFrames, ScheduleStep

LEMMA TerminateTaskIInv ==
  ASSUME IInv, TerminateTask
  PROVE  IInv'
<1>1. /\ phase = "sched" /\ InTask /\ current # Idle
      /\ termQ' = Append(termQ, current)
      /\ Schedule(Exited, Critical)
      /\ UNCHANGED <<phase, nextTid, place, flag, alarm, lines, raises>>
  BY DEF TerminateTask, InTask, irqVars
<1>2. state[current] = "Running" /\ current \in Tasks /\ current \in Tids
  BY <1>1, CurrentFacts, TidFacts
<1>3. /\ Exited \in [Tids -> TaskStates]
      /\ \A t \in Tids : Exited[t] = IF t = current THEN "Terminated" ELSE state[t]
  BY <1>2 DEF Exited, IInv, TypeOK, TaskStates
<1>4. QueuesHold(Exited)
  <2>1. QueuesHold(state)
    BY <1>1, CurrentFacts
  <2>2. /\ {t \in Tasks : Exited[t] = "New"} = {t \in Tasks : state[t] = "New"}
        /\ {t \in Tasks : Exited[t] = "Ready"} = {t \in Tasks : state[t] = "Ready"}
    BY <1>2, <1>3, TidFacts
  <2>3. QED BY <1>2, <1>3, <2>1, <2>2 DEF QueuesHold
<1>5. termQ' \in Seq(Tasks) /\ Holds(termQ', {t \in Tasks : Exited[t] = "Terminated"})
  <2>1. /\ termQ \in Seq(Tasks)
        /\ Holds(termQ, {t \in Tasks : state[t] = "Terminated"})
    BY DEF IInv, TypeOK, OneHome
  <2>2. current \notin Range(termQ)
    BY <1>2, <2>1 DEF Holds
  <2>3. /\ termQ' \in Seq(Tasks)
        /\ Range(termQ') = Range(termQ) \union {current}
        /\ IsInjective(termQ')
    BY <1>1, <1>2, <2>1, <2>2, AppendQueue DEF Holds
  <2>4. {t \in Tasks : Exited[t] = "Terminated"}
          = {t \in Tasks : state[t] = "Terminated"} \union {current}
    BY <1>2, <1>3, TidFacts
  <2>5. QED BY <2>1, <2>3, <2>4 DEF Holds
<1>6. /\ Exited[Idle] \notin {"None", "Terminated"}
      /\ \A t \in Tids : Exited[t] = "None" <=> state[t] = "None"
      /\ place' \in [Tids -> Places]
      /\ flag' \in BOOLEAN
  BY <1>1, <1>2, <1>3, TidFacts DEF IInv, IdleLives, TypeOK
<1>7. QED BY <1>1, <1>4, <1>5, <1>6, CriticalFrames, ScheduleStep

(* Leaving the innermost frame of the current stack. *)
LEMMA PopIInv ==
  ASSUME IInv, LeaveCritical \/ ReturnFromIrq
  PROVE  IInv'
<1>1. /\ phase = "sched" /\ stack[current] # <<>>
      /\ Top(stack[current]).kind # "irq"
      /\ masked' = Top(stack[current]).mask
      /\ stack' = [stack EXCEPT ![current] = Pop(stack[current])]
      /\ UNCHANGED <<phase, nextTid, newQ, readyQ, termQ, current, state,
                     ctxMask, place, flag, alarm, lines, raises>>
  BY DEF LeaveCritical, ReturnFromIrq, Inside, schedVars, irqVars
<1>2. /\ stack[current] \in Seq(Frames) /\ ProperStack(stack[current])
  BY <1>1, CurrentFacts
<1>3. ~flag
  BY <1>1, CurrentFacts DEF Inside
<1>4. masked' \in BOOLEAN
  <2>1. Top(stack[current]) \in Frames
    BY <1>1, <1>2, PopFrame
  <2>2. QED BY <1>1, <2>1 DEF Frames
<1>5. MaskDiscipline' /\ stack' \in [Tids -> Seq(Frames)]
  <2>1. /\ Pop(stack[current]) \in Seq(Frames)
        /\ ProperStack(Pop(stack[current]))
        /\ Top(stack[current]).mask <=> Pop(stack[current]) # <<>>
    BY <1>1, <1>2, PopProper
  <2>2. QED BY <1>1, <1>4, <2>1, StackStep DEF IInv
<1>6. TypeOK'
  BY <1>1, <1>4, <1>5 DEF IInv, TypeOK
<1>7. OneHome' /\ IdleLives' /\ FlagStaysInIrq' /\ BootState'
  BY <1>1, <1>3 DEF IInv, OneHome, IdleLives, FlagStaysInIrq, BootState
<1>8. QED BY <1>5, <1>6, <1>7 DEF IInv

LEMMA TakeIrqIInv ==
  ASSUME IInv, TakeIrq
  PROVE  IInv'
<1> DEFINE f == [kind |-> "irq", mask |-> masked]
<1>1. /\ phase = "sched" /\ ~masked /\ masked' = TRUE
      /\ stack' = [stack EXCEPT ![current] = Append(stack[current], f)]
      /\ UNCHANGED <<phase, nextTid, newQ, readyQ, termQ, current, state,
                     ctxMask, flag, alarm, lines, raises>>
  BY DEF TakeIrq, schedVars, irqVars
<1>2. /\ stack[current] = <<>> /\ stack[current] \in Seq(Frames) /\ ~flag
  BY <1>1, CurrentFacts DEF Inside
<1>3. f \in Frames /\ ~f.mask
  BY <1>1 DEF Frames, FrameKinds, IInv, TypeOK
<1> HIDE DEF f
<1>4. MaskDiscipline' /\ stack' \in [Tids -> Seq(Frames)]
  <2>1. LET a == Append(stack[current], f)
        IN  a \in Seq(Frames) /\ a # <<>> /\ ProperStack(a)
    BY <1>2, <1>3, EnterProper
  <2>2. QED BY <1>1, <2>1, StackStep DEF IInv
<1>5. place' \in [Tids -> Places]
  BY DEF TakeIrq, IInv, TypeOK, Places
<1>6. TypeOK'
  BY <1>1, <1>4, <1>5 DEF IInv, TypeOK
<1>7. OneHome' /\ IdleLives' /\ FlagStaysInIrq' /\ BootState'
  BY <1>1, <1>2 DEF IInv, OneHome, IdleLives, FlagStaysInIrq, BootState
<1>8. QED BY <1>4, <1>6, <1>7 DEF IInv

LEMMA DispatchDoneIInv ==
  ASSUME IInv, DispatchDone
  PROVE  IInv'
<1> DEFINE s == stack[current]
           e == [Top(s) EXCEPT !.kind = "eret"]
           r == Append(Pop(s), e)
           k == [kind |-> "crit", mask |-> masked]
           ret == [stack EXCEPT ![current] = r]
           fs == [ret EXCEPT ![current] = Append(ret[current], k)]
<1>1. /\ phase = "sched" /\ s # <<>> /\ Top(s).kind = "irq"
      /\ UNCHANGED <<phase, nextTid, termQ, place, alarm, lines, raises>>
  BY DEF DispatchDone, Inside
<1>2. /\ s \in Seq(Frames) /\ ProperStack(s) /\ masked /\ masked \in BOOLEAN
      /\ current \in Tids /\ QueuesHold(state) /\ state[current] = "Running"
  BY <1>1, CurrentFacts DEF IInv, TypeOK
<1>3. k = [kind |-> "crit", mask |-> TRUE]
  BY <1>2
<1>4. /\ r \in Seq(Frames) /\ r # <<>> /\ ProperStack(r)
      /\ Append(r, k) \in Seq(Frames) /\ Append(r, k) # <<>>
      /\ ProperStack(Append(r, k))
      /\ Top(Append(r, k)).kind = "crit"
  <2> HIDE DEF k
  <2>1. QED BY <1>1, <1>2, <1>3, DispatchProper
<1>5. CASE flag
  <2>1. Schedule(state, fs) /\ flag' = FALSE
    BY <1>5 DEF DispatchDone, ClearScheduleFlag
  <2>2. /\ ret[current] = r /\ fs[current] = Append(r, k)
        /\ fs \in [Tids -> Seq(Frames)]
        /\ \A t \in Tids \ {current} : fs[t] = stack[t]
    <3> HIDE DEF r, k
    <3>1. QED BY <1>2, <1>4 DEF IInv, TypeOK
  <2> HIDE DEF fs, ret, r, k
  <2>3. /\ termQ' \in Seq(Tasks)
        /\ Holds(termQ', {t \in Tasks : state[t] = "Terminated"})
        /\ place' \in [Tids -> Places]
        /\ flag' \in BOOLEAN /\ ~flag'
    BY <1>1, <2>1 DEF IInv, OneHome, TypeOK
  <2>4. state[Idle] \notin {"None", "Terminated"}
    BY DEF IInv, IdleLives
  <2>5. QED BY <1>1, <1>2, <1>4, <2>1, <2>2, <2>3, <2>4, ScheduleStep
<1>6. CASE ~flag
  <2>1. /\ stack' = [stack EXCEPT ![current] = r]
        /\ UNCHANGED <<flag, masked, newQ, readyQ, current, state, ctxMask>>
    BY <1>6 DEF DispatchDone
  <2> HIDE DEF r
  <2>2. MaskDiscipline' /\ stack' \in [Tids -> Seq(Frames)]
    BY <1>2, <1>4, <2>1, StackStep DEF IInv
  <2>3. TypeOK'
    BY <1>1, <2>1, <2>2 DEF IInv, TypeOK
  <2>4. OneHome' /\ IdleLives' /\ FlagStaysInIrq' /\ BootState'
    BY <1>1, <1>6, <2>1 DEF IInv, OneHome, IdleLives, FlagStaysInIrq, BootState
  <2>5. QED BY <2>2, <2>3, <2>4 DEF IInv
<1>7. QED BY <1>5, <1>6

(* Every step keeps the invariant. *)
LEMMA NextIInv ==
  ASSUME IInv, [Next]_vars
  PROVE  IInv'
<1>1. CASE UNCHANGED vars
  BY <1>1 DEF vars, IInv, TypeOK, OneHome, MaskDiscipline, FlagStaysInIrq,
              Inside, BootState, IdleLives
<1>2. CASE Next
  BY <1>2, BootAddTaskIInv, StartSchedIInv, WaitForInterruptIInv, YieldTaskIInv,
     AddTaskBeginIInv, AddTaskPushIInv, TerminateTaskIInv, PopIInv,
     AlarmDeviceIInv, TakeIrqIInv, DispatchAlarmIInv, DispatchDeviceIInv,
     DispatchDoneIInv
     DEF Next
<1>3. QED BY <1>1, <1>2

THEOREM Invariance == SafetySpec => []IInv
<1>1. QED BY InitIInv, NextIInv, PTL DEF SafetySpec

(* The values every variable keeps to, for any number of tasks. *)
THEOREM TypeCorrect == SafetySpec => []TypeOK
<1>1. IInv => TypeOK
  BY DEF IInv
<1>2. QED BY <1>1, Invariance, PTL

(* Every task has exactly one home between any two steps of the kernel: the
   queue its state names, or the processor. *)
THEOREM TasksHaveOneHome == SafetySpec => []OneHome
<1>1. IInv => OneHome
  BY DEF IInv
<1>2. QED BY <1>1, Invariance, PTL

(* Interrupts are masked exactly inside the scheduler and the interrupt
   path, and no switch hands a task another task's mask. *)
THEOREM MasksFollowStacks == SafetySpec => []MaskDiscipline
<1>1. IInv => MaskDiscipline
  BY DEF IInv
<1>2. QED BY <1>1, Invariance, PTL

(* No task finds the reschedule flag another interrupt set. *)
THEOREM FlagIsConsumed == SafetySpec => []FlagStaysInIrq
<1>1. IInv => FlagStaysInIrq
  BY DEF IInv
<1>2. QED BY <1>1, Invariance, PTL

-----------------------------------------------------------------------------
(***************************************************************************)
(* The refinement.                                                         *)
(***************************************************************************)

(* What RunQueue sees of the state. *)
lineVars == <<PreparedQ, current, termQ, phase>>

(* After schedule() new_queue is empty, so the line is ready_queue. *)
LEMMA LineAfterSchedule ==
  ASSUME newQ' = <<>>, readyQ' \in Seq(Tasks)
  PROVE  PreparedQ' = readyQ'
BY ConcatEmptySeq DEF PreparedQ

(* An empty line means two empty queues. *)
LEMMA EmptyLine ==
  ASSUME IInv, PreparedQ = <<>>
  PROVE  readyQ = <<>> /\ newQ = <<>>
<1>1. readyQ \in Seq(Tasks) /\ newQ \in Seq(Tasks)
  BY DEF IInv, TypeOK
<1>2. Range(readyQ) \union Range(newQ) = {}
  BY <1>1, ConcatQueues, EmptyQueue DEF PreparedQ
<1>3. QED BY <1>1, <1>2, NoElements

(* A task standing in the line is in one of the two queues. *)
LEMMA LineRange ==
  ASSUME IInv, NEW t \in Tasks
  PROVE  Line!InLine(t) <=> state[t] \in {"New", "Ready"}
<1>1. readyQ \in Seq(Tasks) /\ newQ \in Seq(Tasks)
  BY DEF IInv, TypeOK
<1>2. PreparedQ \in Seq(Tasks) /\ Range(PreparedQ) = Range(readyQ) \union Range(newQ)
  BY <1>1, ConcatQueues DEF PreparedQ
<1>3. DOMAIN PreparedQ = 1..Len(PreparedQ)
  BY <1>2, LenProperties
<1>4. Line!InLine(t) <=> t \in Range(PreparedQ)
  BY <1>3 DEF Line!InLine, Range
<1>5. Range(PreparedQ) = {u \in Tasks : state[u] \in {"New", "Ready"}}
  BY <1>2 DEF IInv, OneHome, Holds
<1>6. QED BY <1>4, <1>5

(* A finished task is in terminated_queue. *)
LEMMA FinishedRange ==
  ASSUME IInv, NEW t \in Tasks
  PROVE  Line!IsFinished(t) <=> state[t] = "Terminated"
<1>1. termQ \in Seq(Tasks) /\ DOMAIN termQ = 1..Len(termQ)
  BY LenProperties DEF IInv, TypeOK
<1>2. Line!IsFinished(t) <=> t \in Range(termQ)
  BY <1>1 DEF Line!IsFinished, Range
<1>3. QED BY <1>2 DEF IInv, OneHome, Holds

(* add_task puts the new task at the end of the line. *)
LEMMA PushIsSpawn ==
  ASSUME IInv, NEW tid, tid >= nextTid, PushNewTask(tid),
         UNCHANGED <<phase, readyQ, termQ, current>>
  PROVE  Line!RQNext
<1>1. tid \in Tasks /\ tid \in Tids /\ state[tid] = "None"
  BY TidFacts DEF PushNewTask, IInv, OneHome
<1>2. ~Line!InLine(tid) /\ ~Line!IsFinished(tid)
  BY <1>1, LineRange, FinishedRange
<1>3. tid # current
  <2>1. CASE phase = "sched"
    BY <1>1, <2>1, CurrentFacts
  <2>2. CASE phase = "boot"
    BY <1>1, <2>2, TidFacts DEF IInv, BootState
  <2>3. QED BY <2>1, <2>2 DEF IInv, TypeOK
<1>4. PreparedQ' = Append(PreparedQ, tid)
  BY <1>1, ConcatAppend DEF PushNewTask, PreparedQ, IInv, TypeOK
<1>5. Line!Spawn(tid)
  BY <1>2, <1>3, <1>4 DEF Line!Spawn
<1>6. QED BY <1>1, <1>5 DEF Line!RQNext

(* schedule() of a task that may continue lets the line move up, or finds
   nobody waiting. *)
LEMMA PreemptIsRotate ==
  ASSUME IInv, IInv', phase = "sched", NEW fs, Schedule(state, fs),
         UNCHANGED <<phase, termQ>>
  PROVE  Line!RQNext \/ UNCHANGED lineVars
<1>1. state[current] = "Running"
  BY CurrentFacts
<1>2. CASE KeepCurrent(state, fs)
  <2>1. PreparedQ = <<>> /\ readyQ' = readyQ /\ newQ' = <<>> /\ current' = current
    BY <1>2 DEF KeepCurrent
  <2>2. PreparedQ' = PreparedQ
    BY <2>1, EmptyLine DEF PreparedQ
  <2>3. QED BY <2>1, <2>2 DEF lineVars
<1>3. CASE PreparedQ # <<>> /\ SwitchTo(Head(PreparedQ), Tail(PreparedQ), state, fs)
  <2>1. /\ newQ' = <<>> /\ readyQ' = Requeued(state, Tail(PreparedQ))
        /\ current' = Head(PreparedQ)
    BY <1>3 DEF SwitchTo
  <2>2. PreparedQ' = IF current = Idle THEN Tail(PreparedQ)
                                       ELSE Append(Tail(PreparedQ), current)
    BY <1>1, <2>1, LineAfterSchedule DEF Requeued, IInv, TypeOK
  <2>3. Line!Rotate
    BY <1>3, <2>1, <2>2 DEF Line!Rotate
  <2>4. QED BY <2>3 DEF Line!RQNext
<1>4. QED BY <1>1, <1>2, <1>3 DEF Schedule

(* terminate_task makes the running task finish and the line move up. *)
LEMMA TerminateIsFinish ==
  ASSUME IInv, IInv', TerminateTask
  PROVE  Line!RQNext
<1>1. /\ phase = "sched" /\ current # Idle /\ phase' = phase
      /\ termQ' = Append(termQ, current)
      /\ Schedule(Exited, Critical)
  BY DEF TerminateTask, InTask
<1>2. Exited[current] = "Terminated"
  BY DEF Exited, IInv, TypeOK
<1>3. CASE PreparedQ = <<>> /\ SwitchTo(Idle, <<>>, Exited, Critical)
  <2>1. newQ' = <<>> /\ readyQ' = <<>> /\ current' = Idle
    BY <1>2, <1>3 DEF SwitchTo, Requeued
  <2>2. PreparedQ' = PreparedQ
    BY <1>3, <2>1, LineAfterSchedule DEF IInv, TypeOK
  <2>3. Line!Finish
    BY <1>1, <1>3, <2>1, <2>2 DEF Line!Finish
  <2>4. QED BY <2>3 DEF Line!RQNext
<1>4. CASE PreparedQ # <<>> /\ SwitchTo(Head(PreparedQ), Tail(PreparedQ), Exited, Critical)
  <2>1. /\ newQ' = <<>> /\ readyQ' = Tail(PreparedQ) /\ current' = Head(PreparedQ)
    BY <1>2, <1>4 DEF SwitchTo, Requeued
  <2>2. PreparedQ' = Tail(PreparedQ)
    BY <2>1, LineAfterSchedule DEF IInv, TypeOK
  <2>3. Line!Finish
    BY <1>1, <1>4, <2>1, <2>2 DEF Line!Finish
  <2>4. QED BY <2>3 DEF Line!RQNext
<1>5. QED BY <1>1, <1>2, <1>3, <1>4 DEF Schedule, KeepCurrent

(* Every step of the scheduler is a step of the line or invisible to it. *)
LEMMA StepSimulation ==
  ASSUME IInv, IInv', [Next]_vars
  PROVE  Line!RQNext \/ UNCHANGED lineVars
<1>1. CASE BootAddTask
  <2>1. nextTid + 1 >= nextTid
    BY DEF IInv, TypeOK
  <2>2. QED BY <1>1, <2>1, PushIsSpawn DEF BootAddTask
<1>2. CASE AddTaskPush
  <2>1. nextTid >= nextTid
    BY DEF IInv, TypeOK
  <2>2. QED BY <1>2, <2>1, PushIsSpawn DEF AddTaskPush
<1>3. CASE StartSched
  <2>1. UNCHANGED <<PreparedQ, current, termQ>> /\ phase = "boot" /\ phase' = "sched"
    BY <1>3 DEF StartSched, queueVars, PreparedQ
  <2>2. Line!Start
    BY <2>1 DEF Line!Start
  <2>3. QED BY <2>2 DEF Line!RQNext
<1>4. CASE YieldTask
  BY <1>4, PreemptIsRotate DEF YieldTask, InTask
<1>5. CASE TerminateTask
  BY <1>5, TerminateIsFinish
<1>6. CASE DispatchDone
  <2>1. CASE flag
    <3>1. phase = "sched" /\ UNCHANGED <<phase, termQ>> /\ \E fs : Schedule(state, fs)
      BY <1>6, <2>1 DEF DispatchDone, Inside
    <3>2. QED BY <3>1, PreemptIsRotate
  <2>2. CASE ~flag
    BY <1>6, <2>2 DEF DispatchDone, lineVars, PreparedQ
  <2>3. QED BY <2>1, <2>2
<1>7. CASE \/ WaitForInterrupt \/ AddTaskBegin \/ LeaveCritical \/ AlarmExpires
           \/ TakeIrq \/ DispatchAlarm \/ ReturnFromIrq
  BY <1>7 DEF WaitForInterrupt, AddTaskBegin, LeaveCritical, AlarmExpires,
              TakeIrq, DispatchAlarm, ReturnFromIrq, schedVars, lineVars, PreparedQ
<1>8. CASE \E d \in Devices : DeviceRaises(d) \/ DispatchDevice(d)
  BY <1>8 DEF DeviceRaises, DispatchDevice, schedVars, lineVars, PreparedQ
<1>9. CASE UNCHANGED vars
  BY <1>9 DEF vars, lineVars, PreparedQ
<1>10. QED
  BY <1>1, <1>2, <1>3, <1>4, <1>5, <1>6, <1>7, <1>8, <1>9 DEF Next

(* new_queue and ready_queue together are one first-in first-out line, and
   current_task its head: no task overtakes another. *)
THEOREM SchedImplementsLine == SafetySpec => Line!RQSafety
<1>1. Init => Line!RQInit
  <2>1. <<>> \o <<>> = <<>>
    BY EmptySeq, ConcatEmptySeq
  <2>2. QED BY <2>1 DEF Init, Line!RQInit, PreparedQ
<1>2. IInv /\ IInv' /\ [Next]_vars => [Line!RQNext]_(Line!rqVars)
  <2> SUFFICES ASSUME IInv, IInv', [Next]_vars
               PROVE  Line!RQNext \/ UNCHANGED Line!rqVars
    OBVIOUS
  <2>1. CASE UNCHANGED lineVars
    BY <2>1 DEF lineVars, Line!rqVars
  <2>2. QED BY <2>1, StepSimulation
<1>3. QED
  BY <1>1, <1>2, Invariance, PTL DEF SafetySpec, Line!RQSafety
=============================================================================
