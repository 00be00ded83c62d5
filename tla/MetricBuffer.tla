---------------------------- MODULE MetricBuffer ----------------------------
(***************************************************************************)
(* The sample buffer of one symbiomon_metric (src/src/types.h) and the two *)
(* functions that append to it, symbiomon_metric_update and                *)
(* symbiomon_metric_update_gauge_by_fixed_amount (src/src/client.c), run   *)
(* by any number of ULTs on any number of execution streams.               *)
(*                                                                         *)
(* One action per stretch of code no other ULT can observe the middle of:  *)
(*   idle --Update*--> lock --Lock--> store --StoreVal--> stamp            *)
(*   stamp --StoreStamp--> stamped --Publish--> unlock                     *)
(*   stamp --Publish--> published --StoreStamp--> unlock --Unlock--> idle  *)
(* The argument check runs before ABT_mutex_lock.  The value is stored     *)
(* before the opaque call to ABT_get_wtime; the time and sample_id stores  *)
(* and the increment of buffer_index follow it with nothing that orders    *)
(* them for a reader holding no lock, so they may become visible in either *)
(* order.  Time and sample_id are one stamp here: the ULT that wrote them. *)
(***************************************************************************)
EXTENDS Integers, FiniteSets

CONSTANTS
  Ults,        \* the ULTs that may update the metric
  NoUlt,       \* owner of the free mutex, stamp of a calloc'd slot
  Vals,        \* arguments of symbiomon_metric_update
  Diffs,       \* arguments of symbiomon_metric_update_gauge_by_fixed_amount
  BufferSize   \* METRIC_BUFFER_SIZE: the slots the buffer has

ASSUME UltsAssumption == IsFiniteSet(Ults) /\ NoUlt \notin Ults
ASSUME ArgsAssumption == Vals \subseteq Int /\ Diffs \subseteq Int
ASSUME SizeAssumption == BufferSize \in Nat \ {0}

VARIABLES
  type,    \* metric->type
  buf,     \* metric->buffer
  index,   \* metric->buffer_index
  mutex,   \* holder of metric->metric_mutex
  pc,      \* per ULT: where it is in an update function
  arg,     \* per ULT: which function, and its val or diff
  ret,     \* per ULT: the code its last call returned
  base     \* per ULT: buffer_index when its argument was checked (history)

callVars == <<pc, arg, ret, base>>
bufferVars == <<type, buf, index, mutex, pc, arg, ret, base>>

Types == {"COUNTER", "TIMER", "GAUGE"}
Slots == 0 .. BufferSize - 1
Blank == [val |-> 0, by |-> NoUlt]
Arg == [op : {"set", "add"}, val : Int]
NoArg == [op |-> "set", val |-> 0]

Critical == {"store", "stamp", "stamped", "published", "unlock"}
Unpublished == {"lock", "store", "stamp", "stamped"}
Labels == {"idle", "lock"} \cup Critical

(* ULTs whose call has been accepted and whose sample is still to appear.  *)
Pending == {u \in Ults : pc[u] \in Unpublished}

(***************************************************************************)
(* The bound of the model.  The code never compares buffer_index with      *)
(* METRIC_BUFFER_SIZE: staying within the buffer is left to the caller, so *)
(* a call that could not find a slot is not made here.                     *)
(***************************************************************************)
HasRoom == index + Cardinality(Pending) < BufferSize

BufferInit ==
  /\ type \in Types
  /\ buf = [i \in Slots |-> Blank]
  /\ index = 0
  /\ mutex = NoUlt
  /\ pc = [u \in Ults |-> "idle"]
  /\ arg = [u \in Ults |-> NoArg]
  /\ ret = [u \in Ults |-> "none"]
  /\ base = [u \in Ults |-> 0]

-----------------------------------------------------------------------------
(***************************************************************************)
(* The unlocked check of symbiomon_metric_update.  The counter case loads  *)
(* buffer_index twice; published slots never change and the index never    *)
(* falls, so the outcome is that of the check made at once at the load     *)
(* that decides it, and one step is enough.                                *)
(***************************************************************************)
Accepts_NewerOnly(v) ==   \* mutant: the first comparison is skipped
  /\ type = "COUNTER" /\ index > 1 => buf[index - 1].val <= v
  /\ type = "TIMER" => v >= 0

Accepts_Any(v) == v \in Int   \* mutant: no check at all

Accepts(v) ==
  /\ type = "COUNTER" /\ index >= 1 => buf[index - 1].val <= v
  /\ type = "TIMER" => v >= 0

(* An accepted call proceeds to the lock. *)
Enter(u, op, v) ==
  /\ pc[u] = "idle"
  /\ HasRoom
  /\ pc' = [pc EXCEPT ![u] = "lock"]
  /\ arg' = [arg EXCEPT ![u] = [op |-> op, val |-> v]]
  /\ ret' = [ret EXCEPT ![u] = "none"]
  /\ base' = [base EXCEPT ![u] = index]
  /\ UNCHANGED <<type, buf, index, mutex>>

(* A call refused with SYMBIOMON_ERR_INVALID_VALUE touches nothing. *)
Refuse(u) ==
  /\ pc[u] = "idle"
  /\ ret' = [ret EXCEPT ![u] = "INVALID_VALUE"]
  /\ UNCHANGED <<type, buf, index, mutex, pc, arg, base>>

Update(u, v) == Accepts(v) /\ Enter(u, "set", v)
UpdateInvalid(u, v) == ~Accepts(v) /\ Refuse(u)

UpdateGauge(u, d) == type = "GAUGE" /\ Enter(u, "add", d)
UpdateGaugeInvalid(u) == type # "GAUGE" /\ Refuse(u)

Lock_Barging(u) ==   \* mutant: ABT_mutex_lock does not wait
  /\ pc[u] = "lock"
  /\ mutex' = u
  /\ pc' = [pc EXCEPT ![u] = "store"]
  /\ UNCHANGED <<type, buf, index, arg, ret, base>>

Lock(u) ==
  /\ pc[u] = "lock"
  /\ mutex = NoUlt
  /\ mutex' = u
  /\ pc' = [pc EXCEPT ![u] = "store"]
  /\ UNCHANGED <<type, buf, index, arg, ret, base>>

(* What the call stores: the first adjustment of a gauge stores 1.         *)
NewVal(a) ==
  IF a.op = "set" THEN a.val
  ELSE IF index > 0 THEN buf[index - 1].val + a.val ELSE 1

StoreVal(u) ==
  /\ pc[u] = "store"
  /\ buf' = [buf EXCEPT ![index].val = NewVal(arg[u])]
  /\ pc' = [pc EXCEPT ![u] = "stamp"]
  /\ UNCHANGED <<type, index, mutex, arg, ret, base>>

StoreStamp_NextSlot(u) ==   \* mutant: buffer_index re-read after its increment
  /\ pc[u] \in {"stamp", "published"}
  /\ buf' = [i \in Slots |-> IF i = index THEN [buf[i] EXCEPT !.by = u] ELSE buf[i]]
  /\ pc' = [pc EXCEPT ![u] = IF pc[u] = "stamp" THEN "stamped" ELSE "unlock"]
  /\ UNCHANGED <<type, index, mutex, arg, ret, base>>

(* The stamp goes to the slot of the value, published already or not.      *)
StoreStamp(u) ==
  /\ UNCHANGED <<type, index, mutex, arg, ret, base>>
  /\ \/ /\ pc[u] = "stamp"
        /\ buf' = [buf EXCEPT ![index].by = u]
        /\ pc' = [pc EXCEPT ![u] = "stamped"]
     \/ /\ pc[u] = "published"
        /\ buf' = [buf EXCEPT ![index - 1].by = u]
        /\ pc' = [pc EXCEPT ![u] = "unlock"]

Publish(u) ==
  /\ index' = index + 1
  /\ UNCHANGED <<type, buf, mutex, arg, ret, base>>
  /\ \/ /\ pc[u] = "stamp"
        /\ pc' = [pc EXCEPT ![u] = "published"]
     \/ /\ pc[u] = "stamped"
        /\ pc' = [pc EXCEPT ![u] = "unlock"]

Unlock_Forgotten(u) ==   \* mutant: a return without ABT_mutex_unlock
  /\ pc[u] = "unlock"
  /\ pc' = [pc EXCEPT ![u] = "idle"]
  /\ arg' = [arg EXCEPT ![u] = NoArg]
  /\ ret' = [ret EXCEPT ![u] = "SUCCESS"]
  /\ base' = [base EXCEPT ![u] = 0]
  /\ UNCHANGED <<type, buf, index, mutex>>

(* ABT_mutex_unlock and the return; the frame's locals are gone.           *)
Unlock(u) ==
  /\ pc[u] = "unlock"
  /\ mutex' = NoUlt
  /\ pc' = [pc EXCEPT ![u] = "idle"]
  /\ arg' = [arg EXCEPT ![u] = NoArg]
  /\ ret' = [ret EXCEPT ![u] = "SUCCESS"]
  /\ base' = [base EXCEPT ![u] = 0]
  /\ UNCHANGED <<type, buf, index>>

-----------------------------------------------------------------------------
(* The steps of a call that has been accepted. *)
Progress(u) ==
  Lock(u) \/ StoreVal(u) \/ StoreStamp(u) \/ Publish(u) \/ Unlock(u)

BufferStep(u) ==
  \/ \E v \in Vals : Update(u, v) \/ UpdateInvalid(u, v)
  \/ \E d \in Diffs : UpdateGauge(u, d)
  \/ Diffs # {} /\ UpdateGaugeInvalid(u)
  \/ Progress(u)

BufferNext == \E u \in Ults : BufferStep(u)

BufferSpec == BufferInit /\ [][BufferNext]_bufferVars

(***************************************************************************)
(* Argobots runs every ready ULT in the end; nobody is obliged to make a   *)
(* new call.  A waiter for the mutex needs no more than that: each ULT     *)
(* that overtakes it takes a slot, and the slots run out.                  *)
(***************************************************************************)
FairBufferSpec == BufferSpec /\ \A u \in Ults : WF_bufferVars(Progress(u))

-----------------------------------------------------------------------------
(* What an observer of the buffer relies on. *)
Published == 0 .. index - 1

(* The state is well formed: indexes within the buffer, one program counter
   per ULT, a mutex that is free or held by a ULT. *)
TypeOK ==
  /\ type \in Types
  /\ buf \in [Slots -> [val : Int, by : Ults \cup {NoUlt}]]
  /\ index \in 0 .. BufferSize
  /\ mutex \in Ults \cup {NoUlt}
  /\ pc \in [Ults -> Labels]
  /\ arg \in [Ults -> Arg]
  /\ ret \in [Ults -> {"none", "SUCCESS", "INVALID_VALUE"}]
  /\ base \in [Ults -> 0 .. BufferSize]

(* The code between ABT_mutex_lock and ABT_mutex_unlock is run by the holder
   of metric_mutex and by no other ULT. *)
LockInv == \A u \in Ults : pc[u] \in Critical <=> mutex = u

(* Every accepted call still has a slot of its own in the buffer. *)
RoomInv == index + Cardinality(Pending) <= BufferSize

(* The value stored and not yet published is the one its call asked for,
   and for a gauge adjustment the one that follows the newest sample. *)
StoredInv ==
  \A u \in Ults : pc[u] \in {"stamp", "stamped"} => buf[index].val = NewVal(arg[u])

(* A published sample lacks its time and sample_id only while its writer is
   still inside the critical section, and only the newest sample does. *)
StampInv ==
  /\ \A u \in Ults : pc[u] = "stamped" => buf[index].by = u
  /\ \A u \in Ults : pc[u] = "published" => index > 0
  /\ \A i \in Published :
       buf[i].by \in Ults \/ (i = index - 1 /\ \E u \in Ults : pc[u] = "published")

(* A call under way is one its check accepted for this metric's type. *)
ArgInv ==
  \A u \in Ults : pc[u] # "idle" =>
    /\ arg[u].op = "add" => type = "GAUGE"
    /\ type = "TIMER" => arg[u].val >= 0

(* A counter's call under way is not below the sample that was newest when
   its argument was checked. *)
BaseInv ==
  /\ \A u \in Ults : base[u] <= index
  /\ \A u \in Ults :
       type = "COUNTER" /\ pc[u] # "idle" /\ base[u] > 0
         => buf[base[u] - 1].val <= arg[u].val

(* No negative duration reaches the buffer of a timer: the argument check
   and the store are separate steps and the value crosses both (client.c
   symbiomon_metric_update). *)
TimerInv == type = "TIMER" => \A i \in Published : buf[i].val >= 0

(* The inductive invariant the proofs use. *)
Inductive ==
  /\ TypeOK
  /\ LockInv
  /\ RoomInv
  /\ StoredInv
  /\ StampInv
  /\ ArgInv
  /\ BaseInv
  /\ TimerInv

(* Whenever metric_mutex is free every published sample carries its time and
   sample_id, whatever order the stores of the update functions took. *)
SamplesStamped == mutex = NoUlt => \A i \in Published : buf[i].by \in Ults

(* Published samples never change value and never disappear: every reader in
   client.c and provider.c walks the buffer without the mutex and relies on
   the prefix below buffer_index being settled. *)
AppendOnly ==
  [][index <= index' /\ \A i \in Published : buf'[i].val = buf[i].val]_bufferVars

(* A published counter value is never below the value that was newest when
   its call was checked, however many other calls went in between. *)
NoStaleCounter ==
  [][\A u \in Ults :
       type = "COUNTER" /\ index' > index /\ pc[u] # pc'[u] /\ base[u] > 0
         => buf[base[u] - 1].val <= buf'[index].val]_bufferVars

(* The counter type promises values that never decrease: the reason
   symbiomon_metric_update returns SYMBIOMON_ERR_INVALID_VALUE at all. *)
CounterMonotone ==
  type = "COUNTER" =>
    \A i \in Published : i > 0 => buf[i - 1].val <= buf[i].val

(* Only racing calls can break that promise: the samples of a counter never
   decrease as long as all of them come from one ULT, whatever calls of other
   ULTs are refused or have still to publish (client.c:128-149). *)
SoloMonotone ==
  \A u \in Ults :
    type = "COUNTER" /\ (\A i \in Published : buf[i].by = u)
      => \A i \in Published : i > 0 => buf[i - 1].val <= buf[i].val

(* Every accepted update returns: a ULT waiting for metric_mutex gets it and
   leaves it again, whatever the other ULTs do. *)
UpdateReturns == \A u \in Ults : pc[u] = "lock" ~> pc[u] = "idle"

-----------------------------------------------------------------------------
(* The buffer implements the time series: a call takes effect on the series
   at the increment of buffer_index, and nowhere else. *)
Series == [i \in 1 .. index |-> buf[i - 1].val]
Phase ==
  [u \in Ults |->
     IF pc[u] = "idle" THEN "idle"
     ELSE IF pc[u] \in Unpublished THEN "called" ELSE "recorded"]

TS == INSTANCE TimeSeries WITH series <- Series, phase <- Phase

(* Each accepted call appends exactly one sample, at one instant between its
   call and its return, and gauge adjustments are never lost: what the
   critical sections of the two update functions are there for. *)
ImplementsTimeSeries == TS!TSSpec
=============================================================================
