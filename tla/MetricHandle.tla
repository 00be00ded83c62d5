---------------------------- MODULE MetricHandle ----------------------------
(***************************************************************************)
(* The client of a metric service and the handles it opens on remote       *)
(* metrics (src/src/client.c): the counter num_metric_handles of the       *)
(* client, the refcount of each handle, and the three calls that change    *)
(* them without a lock.                                                    *)
(*                                                                         *)
(* A step is one load or store of a counter, so that calls made on several *)
(* execution streams interleave.  Programs that make one call at a time, as *)
(* src/examples/client.c and the tests do, are the behaviours in which      *)
(* overlapped stays false.                                                  *)
(* What happens after a read of freed memory is undefined: fault records   *)
(* the first one and ends the behaviour.                                   *)
(***************************************************************************)
EXTENDS Integers, FiniteSets

CONSTANTS
  Streams,     \* execution streams of the client's process
  Handles,     \* heap blocks for symbiomon_metric_handle structures
  MaxRefs,     \* bound: references to one handle
  MaxCalls     \* bound: calls on handles in one behaviour

ASSUME HandlesAssumption == IsFiniteSet(Handles)
ASSUME BoundsAssumption == MaxRefs \in Nat /\ MaxCalls \in Nat

VARIABLES
  client,              \* whether the client is allocated
  num_metric_handles,  \* the counter in the client
  open,                \* the allocated handles
  refcount,            \* the counter in each handle
  owned,               \* references the program has to each handle (history)
  pc, at, reg,         \* per stream: place in a call, its handle, a loaded counter
  calls,               \* calls on handles so far (history)
  raced,               \* handles on which two calls have overlapped (history)
  overlapped,          \* whether any two calls have (history)
  warned,              \* the number finalize has warned of, or zero
  fault                \* what freed memory was used, if any

history == <<calls, raced, overlapped>>
handleVars == <<client, num_metric_handles, open, refcount, owned, pc, at, reg, history,
                warned, fault>>

Places == {"idle", "up", "up_store", "incr", "decr", "test", "drop", "down", "down_store"}

HandleInit ==
  /\ client = "none"
  /\ num_metric_handles = 0
  /\ open = {}
  /\ refcount = [h \in Handles |-> 0]
  /\ owned = [h \in Handles |-> 0]
  /\ pc = [s \in Streams |-> "idle"]
  /\ at \in [Streams -> Handles]
  /\ reg = [s \in Streams |-> 0]
  /\ calls = 0
  /\ raced = {}
  /\ overlapped = FALSE
  /\ warned = 0
  /\ fault = "none"

(* Stream s begins a call: does another stream make one? *)
Calling(s) ==
  /\ fault = "none"
  /\ pc[s] = "idle"
  /\ overlapped' = (overlapped \/ \E t \in Streams : pc[t] # "idle")

Goto(s, place) == pc' = [pc EXCEPT ![s] = place]

(* It is a call on handle h: does another stream make one on it? *)
Call(s, h, place) ==
  /\ Calling(s)
  /\ calls < MaxCalls
  /\ calls' = calls + 1
  /\ at' = [at EXCEPT ![s] = h]
  /\ raced' = IF \E t \in Streams : pc[t] # "idle" /\ at[t] = h THEN raced \cup {h} ELSE raced
  /\ Goto(s, place)

(* A step of stream s of a call on a handle, which must still be allocated. *)
Touch(s, place) ==
  /\ fault = "none"
  /\ pc[s] = place
  /\ at[s] \in open

(* The same step when another stream has freed the handle. *)
TouchFreed(s) ==
  /\ fault = "none"
  /\ pc[s] \in {"incr", "decr", "test", "drop", "down_store"}
  /\ at[s] \notin open
  /\ fault' = "handle"
  /\ UNCHANGED <<client, num_metric_handles, open, refcount, owned, pc, at, reg, warned, history>>

-----------------------------------------------------------------------------
(* symbiomon_client_init: the client exists and has no handles. *)
ClientInit(s) ==
  /\ Calling(s)
  /\ client = "none"
  /\ client' = "live"
  /\ num_metric_handles' = 0
  /\ UNCHANGED <<open, refcount, owned, pc, at, reg, warned, fault, calls, raced>>

(* symbiomon_client_finalize: warns of handles still open, frees the client. *)
ClientFinalize(s) ==
  /\ Calling(s)
  /\ client = "live"
  /\ warned' = num_metric_handles
  /\ client' = "freed"
  /\ UNCHANGED <<num_metric_handles, open, refcount, owned, pc, at, reg, fault, calls,
                 raced>>

(***************************************************************************)
(* symbiomon_remote_metric_handle_create: allocate, then count.  When      *)
(* margo_addr_dup fails the handle is freed and nothing has changed.       *)
(***************************************************************************)
Create(s, h) ==
  /\ client = "live"
  /\ h \notin open
  /\ open' = open \cup {h}
  /\ refcount' = [refcount EXCEPT ![h] = 1]
  /\ owned' = [owned EXCEPT ![h] = 1]
  /\ Call(s, h, "up")
  /\ UNCHANGED <<client, num_metric_handles, reg, warned, fault>>

(* The load and the store of num_metric_handles += 1. *)
CountUp(s) ==
  /\ fault = "none"
  /\ \/ /\ client = "live" /\ pc[s] = "up"
        /\ reg' = [reg EXCEPT ![s] = num_metric_handles]
        /\ Goto(s, "up_store")
        /\ UNCHANGED <<num_metric_handles, fault>>
     \/ /\ client = "live" /\ pc[s] = "up_store"
        /\ num_metric_handles' = reg[s] + 1
        /\ Goto(s, "idle")
        /\ UNCHANGED <<reg, fault>>
     \/ /\ client = "freed" /\ pc[s] \in {"up", "up_store"}
        /\ fault' = "client"
        /\ UNCHANGED <<num_metric_handles, pc, reg>>
  /\ UNCHANGED <<client, open, refcount, owned, at, warned, history>>

-----------------------------------------------------------------------------
(***************************************************************************)
(* symbiomon_remote_metric_handle_ref_incr, called by an owner of a        *)
(* reference: a load, then a store.                                        *)
(***************************************************************************)
RefIncr(s, h) ==
  /\ owned[h] \in 1 .. MaxRefs - 1
  /\ Call(s, h, "incr")
  /\ reg' = [reg EXCEPT ![s] = refcount[h]]
  /\ fault' = IF h \in open THEN fault ELSE "handle"
  /\ UNCHANGED <<client, num_metric_handles, open, refcount, owned, warned>>

StoreIncr(s) ==
  /\ Touch(s, "incr")
  /\ refcount' = [refcount EXCEPT ![at[s]] = reg[s] + 1]
  /\ owned' = [owned EXCEPT ![at[s]] = @ + 1]
  /\ Goto(s, "idle")
  /\ UNCHANGED <<client, num_metric_handles, open, at, reg, warned, fault, history>>

-----------------------------------------------------------------------------
(***************************************************************************)
(* symbiomon_remote_metric_handle_release: decrement, compare with zero,   *)
(* and for the last reference free the address, count down, free.  The     *)
(* comparison uses the decremented value or loads refcount again, as the   *)
(* build has it.                                                           *)
(***************************************************************************)
Release(s, h) ==
  /\ owned[h] > 0
  /\ Call(s, h, "decr")
  /\ reg' = [reg EXCEPT ![s] = refcount[h]]
  /\ owned' = [owned EXCEPT ![h] = @ - 1]
  /\ fault' = IF h \in open THEN fault ELSE "handle"
  /\ UNCHANGED <<client, num_metric_handles, open, refcount, warned>>

StoreDecr(s) ==
  /\ Touch(s, "decr")
  /\ refcount' = [refcount EXCEPT ![at[s]] = reg[s] - 1]
  /\ reg' = [reg EXCEPT ![s] = reg[s] - 1]
  /\ Goto(s, "test")
  /\ UNCHANGED <<client, num_metric_handles, open, owned, at, warned, fault, history>>

Test(s) ==
  /\ Touch(s, "test")
  /\ \E seen \in {reg[s], refcount[at[s]]} :
       Goto(s, IF seen = 0 THEN "drop" ELSE "idle")
  /\ UNCHANGED <<client, num_metric_handles, open, refcount, owned, at, reg, warned, fault,
                 history>>

(* margo_addr_free needs handle->client->mid, and so does the count. *)
Drop(s) ==
  /\ Touch(s, "drop")
  /\ IF client = "live" THEN Goto(s, "down") /\ UNCHANGED fault
                        ELSE fault' = "client" /\ UNCHANGED pc
  /\ UNCHANGED <<client, num_metric_handles, open, refcount, owned, at, reg, warned, history>>

Close_Uncounted(s) ==   \* mutant: num_metric_handles -= 1 forgotten
  /\ Touch(s, "down_store")
  /\ open' = open \ {at[s]}
  /\ Goto(s, "idle")
  /\ UNCHANGED <<client, num_metric_handles, refcount, owned, at, reg, warned, fault, history>>

(* The load of num_metric_handles -= 1. *)
CountDown(s) ==
  /\ fault = "none"
  /\ pc[s] = "down"
  /\ IF client = "live"
       THEN /\ reg' = [reg EXCEPT ![s] = num_metric_handles]
            /\ Goto(s, "down_store")
            /\ UNCHANGED fault
       ELSE /\ fault' = "client"
            /\ UNCHANGED <<reg, pc>>
  /\ UNCHANGED <<client, num_metric_handles, open, refcount, owned, at, warned, history>>

(* Its store, and free(handle). *)
Close(s) ==
  /\ Touch(s, "down_store")
  /\ IF client = "live"
       THEN /\ num_metric_handles' = reg[s] - 1
            /\ open' = open \ {at[s]}
            /\ Goto(s, "idle")
            /\ UNCHANGED fault
       ELSE /\ fault' = "client"
            /\ UNCHANGED <<num_metric_handles, open, pc>>
  /\ UNCHANGED <<client, refcount, owned, at, reg, warned, history>>

-----------------------------------------------------------------------------
HandleNext ==
  \E s \in Streams :
    \/ ClientInit(s) \/ ClientFinalize(s)
    \/ \E h \in Handles : Create(s, h) \/ RefIncr(s, h) \/ Release(s, h)
    \/ CountUp(s) \/ StoreIncr(s) \/ StoreDecr(s) \/ Test(s)
    \/ Drop(s) \/ CountDown(s) \/ Close(s) \/ TouchFreed(s)

HandleSpec == HandleInit /\ [][HandleNext]_handleVars

-----------------------------------------------------------------------------
(* Every variable has its type. *)
HandleTypeOK ==
  /\ client \in {"none", "live", "freed"}
  /\ num_metric_handles \in Int
  /\ open \in SUBSET Handles
  /\ refcount \in [Handles -> Int]
  /\ owned \in [Handles -> Nat]
  /\ pc \in [Streams -> Places]
  /\ at \in [Streams -> Handles]
  /\ reg \in [Streams -> Int]
  /\ calls \in Nat
  /\ raced \in SUBSET Handles /\ overlapped \in BOOLEAN
  /\ warned \in Int
  /\ fault \in {"none", "client", "handle"}

Busy(h) == \E s \in Streams : pc[s] # "idle" /\ at[s] = h
Quiet == \A s \in Streams : pc[s] = "idle"

(* What holds of a handle that one call at a time uses, at each place of the call. *)
PlaceOK(s) ==
  LET h == at[s] IN
  /\ pc[s] # "idle" => h \in open
  /\ pc[s] \in {"up", "up_store", "incr"} => refcount[h] = owned[h] /\ owned[h] > 0
  /\ pc[s] = "incr" => reg[s] = refcount[h]
  /\ pc[s] = "decr" => reg[s] = refcount[h] /\ refcount[h] = owned[h] + 1
  /\ pc[s] = "test" => reg[s] = refcount[h] /\ refcount[h] = owned[h]
  /\ pc[s] \in {"drop", "down", "down_store"} => refcount[h] = 0 /\ owned[h] = 0

(* Calls on a handle that is not in raced do not overlap, and keep it in order. *)
HandlesInOrder ==
  /\ \A s, t \in Streams :
       pc[s] # "idle" /\ pc[t] # "idle" /\ at[s] = at[t] /\ at[s] \notin raced => s = t
  /\ \A s \in Streams : at[s] \notin raced => PlaceOK(s)

(* Unless two calls on it have overlapped, a handle is allocated as long as the
   program has a reference to it and no longer, and its refcount is the number
   of these references, whatever is done to other handles meanwhile
   (client.c handle_create, ref_incr, release). *)
HandlesAgree ==
  \A h \in Handles \ raced :
    ~Busy(h) => /\ h \in open <=> owned[h] > 0
                /\ h \in open => refcount[h] = owned[h]

(* Unless calls have overlapped, the client counts the allocated handles whenever
   no call is under way (client.c:325, 347). *)
CountAgrees ==
  ~overlapped /\ Quiet /\ client = "live" => num_metric_handles = Cardinality(open)

(* A freed handle is touched only if two calls on some handle have overlapped:
   a program that shares no handle between streams is safe from it
   (client.c:336, 344-348). *)
NoHandleFault == fault = "handle" => raced # {}

(* Unless calls have overlapped, a handle outlives its client only after the
   warning: a freed client is not touched unless finalize has warned of open
   handles, and without the warning none is left (client.c:40-45, 346-347). *)
ClientFaultAnnounced ==
  ~overlapped =>
    /\ fault = "client" => warned # 0
    /\ client = "freed" /\ warned = 0 => open = {}

(* Without overlap the count is behind the handles only inside create. *)
CountInOrder ==
  ~overlapped =>
    /\ \A s, t \in Streams : pc[s] # "idle" /\ pc[t] # "idle" => s = t
    /\ raced = {}
    /\ client = "none" => Quiet /\ open = {}
    /\ client = "freed" => \A s \in Streams : pc[s] \notin {"up", "up_store", "down", "down_store"}
    /\ client = "live" =>
         Cardinality(open) = num_metric_handles +
           (IF \E s \in Streams : pc[s] \in {"up", "up_store"} THEN 1 ELSE 0)
    /\ \A s \in Streams :
         pc[s] \in {"up_store", "down_store"} => reg[s] = num_metric_handles

(* The inductive invariant the proofs use. *)
HandleInv ==
  /\ HandleTypeOK /\ HandlesInOrder /\ HandlesAgree
  /\ NoHandleFault /\ CountInOrder /\ ClientFaultAnnounced

(* Finalize warns of exactly the handles that have not been released, unless
   calls have overlapped (client.c:40-44). *)
WarningTruthful ==
  [][client = "live" /\ client' = "freed" /\ ~overlapped' => warned' = Cardinality(open)]_handleVars
=============================================================================
