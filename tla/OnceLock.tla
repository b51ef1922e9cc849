------------------------------ MODULE OnceLock ------------------------------
(***************************************************************************)
(* OnceLock (kernel/sync/once_lock.rs): set, get and is_initialized called *)
(* by any number of threads.  Each access to status, and each access to    *)
(* data, is a step; the code takes no other lock and masks nothing, so any *)
(* other thread may come in between.                                       *)
(***************************************************************************)
EXTENDS Integers

CONSTANTS
  Threads,   (* who calls: boot code, tasks, other cores *)
  Values,    (* what they try to store *)
  None       (* Option::None, not a value *)

ASSUME ValuesAssumption == Values \intersect {None, "ok", "err"} = {}
ASSUME NoneAssumption == None \notin {"ok", "err"}

UNINITIALIZED == 0
INITIALIZING == 1
INITIALIZED == 2
Status == {UNINITIALIZED, INITIALIZING, INITIALIZED}

(* Where a thread is: outside, in set() with the status it saw last, behind
   a won compare_exchange, before the closing store, or in get() behind a
   load that saw INITIALIZED. *)
Points == {"out", "set", "write", "publish", "read"}

VARIABLES
  status,    (* OnceLock.status *)
  data,      (* OnceLock.data *)
  at,        (* where each thread is *)
  saw,       (* the local variable status of set() *)
  value,     (* the argument of set() *)
  result     (* what the last call returned: "ok", "err", a value or None *)

onceVars == <<status, data, at, saw, value, result>>

OnceInit ==
  /\ status = UNINITIALIZED
  /\ data = None
  /\ at = [t \in Threads |-> "out"]
  /\ saw = [t \in Threads |-> UNINITIALIZED]
  /\ value = [t \in Threads |-> None]
  /\ result = [t \in Threads |-> None]

Return(t, r) ==
  /\ at' = [at EXCEPT ![t] = "out"]
  /\ result' = [result EXCEPT ![t] = r]

(* set(v) begins with a load of the status. *)
SetBegin(t, v) ==
  /\ at[t] = "out"
  /\ at' = [at EXCEPT ![t] = "set"]
  /\ value' = [value EXCEPT ![t] = v]
  /\ saw' = [saw EXCEPT ![t] = status]
  /\ UNCHANGED <<status, data, result>>

(* Somebody else has set it: Err(value). *)
Lost(t) == saw[t] = INITIALIZED

SetLoses(t) ==
  /\ at[t] = "set"
  /\ Lost(t)
  /\ Return(t, "err")
  /\ UNCHANGED <<status, data, saw, value>>

(* Somebody else is setting it: spin, load again. *)
SetSpins(t) ==
  /\ at[t] = "set"
  /\ saw[t] = INITIALIZING
  /\ saw' = [saw EXCEPT ![t] = status]
  /\ UNCHANGED <<status, data, at, value, result>>

(* compare_exchange(UNINITIALIZED, INITIALIZING). *)
ExchangeUnchecked(t) ==
  /\ status' = INITIALIZING
  /\ at' = [at EXCEPT ![t] = "write"]
  /\ UNCHANGED saw

Exchange(t) ==
  \/ /\ status = UNINITIALIZED
     /\ status' = INITIALIZING
     /\ at' = [at EXCEPT ![t] = "write"]
     /\ UNCHANGED saw
  \/ /\ status # UNINITIALIZED
     /\ saw' = [saw EXCEPT ![t] = status]
     /\ UNCHANGED <<status, at>>

SetExchange(t) ==
  /\ at[t] = "set"
  /\ saw[t] = UNINITIALIZED
  /\ Exchange(t)
  /\ UNCHANGED <<data, value, result>>

(* *data = Some(value). *)
SetWrite(t) ==
  /\ at[t] = "write"
  /\ data' = value[t]
  /\ at' = [at EXCEPT ![t] = "publish"]
  /\ UNCHANGED <<status, saw, value, result>>

(* The closing store; set returns Ok. *)
PublishedStatusStuck == INITIALIZING
PublishedStatus == INITIALIZED

SetPublish(t) ==
  /\ at[t] = "publish"
  /\ status' = PublishedStatus
  /\ Return(t, "ok")
  /\ UNCHANGED <<data, saw, value>>

(* get(): the load that finds INITIALIZED is followed by a read of data. *)
GetLoad(t) ==
  /\ at[t] = "out"
  /\ IF status = INITIALIZED
       THEN /\ at' = [at EXCEPT ![t] = "read"]
            /\ UNCHANGED result
       ELSE Return(t, None)
  /\ UNCHANGED <<status, data, saw, value>>

GetRead(t) ==
  /\ at[t] = "read"
  /\ Return(t, data)
  /\ UNCHANGED <<status, data, saw, value>>

SetStep(t) ==
  SetLoses(t) \/ SetSpins(t) \/ SetExchange(t) \/ SetWrite(t) \/ SetPublish(t)

OnceNext ==
  \E t \in Threads :
    \/ \E v \in Values : SetBegin(t, v)
    \/ SetStep(t)
    \/ GetLoad(t)
    \/ GetRead(t)

OnceSafetySpec == OnceInit /\ [][OnceNext]_onceVars

(* A thread inside set() goes on: it is never abandoned, only preempted. *)
OnceSpec == OnceSafetySpec /\ \A t \in Threads : WF_onceVars(SetStep(t))

-----------------------------------------------------------------------------
(***************************************************************************)
(* Properties.                                                             *)
(***************************************************************************)

TypeOK ==
  /\ status \in Status
  /\ data \in Values \union {None}
  /\ at \in [Threads -> Points]
  /\ saw \in [Threads -> Status]
  /\ value \in [Threads -> Values \union {None}]
  /\ result \in [Threads -> Values \union {None, "ok", "err"}]

(* data is an UnsafeCell: only the thread that won the exchange may touch it
   before INITIALIZED is stored, and a get() behind its load, possibly
   preempted there, reads a complete value. *)
DataGuarded ==
  /\ \A t, u \in Threads :
       at[t] \in {"write", "publish"} /\ at[u] \in {"write", "publish", "read"}
         => t = u
  /\ \A t \in Threads : at[t] = "read" => data # None
  /\ \A t \in Threads : at[t] = "publish" => data = value[t]

(* Seen through get(), the lock is a cell written once: what any caller was
   handed stays what everyone is handed. *)
Cell == INSTANCE WriteOnce WITH
          Empty <- None,
          cell <- IF status = INITIALIZED THEN data ELSE None
ImplementsWriteOnce == Cell!Spec

(* A caller told Err finds the value there: it lost to a set() that is
   complete, not to one under way. *)
ErrMeansSet ==
  \A t \in Threads : result[t] = "err" => status = INITIALIZED /\ data # None

(* set() returns, however many threads spin on a slow winner. *)
SetReturns == \A t \in Threads : at[t] = "set" ~> at[t] = "out"
=============================================================================
