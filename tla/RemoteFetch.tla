----------------------------- MODULE RemoteFetch -----------------------------
(***************************************************************************)
(* symbiomon_remote_metric_fetch (src/src/client.c) and the RPC handler    *)
(* symbiomon_metric_fetch_ult (src/src/provider.c) that serves it, over    *)
(* the buffer of MetricBuffer, which ULTs of the provider's process go on  *)
(* updating.  The handler takes no lock: it loads buffer_index, copies the *)
(* end of the buffer and pushes the copy into the caller's memory before   *)
(* it answers.                                                             *)
(*                                                                         *)
(* A call is one execution of symbiomon_remote_metric_fetch; concurrent    *)
(* callers and one caller after another are both different calls.  A call  *)
(* may give up on its RPC while the handler is still to run.               *)
(*   caller:   new --Fetch*--> waiting --Receive, FetchFail--> done        *)
(*   handler:  request --Setup--> find --Find--> compare --Compare-->      *)
(*             (resize, locate --Reload-->) copy --Copy--> push --Push-->  *)
(*             respond --Respond--> replied                                *)
(***************************************************************************)
EXTENDS MetricBuffer, Sequences

CONSTANTS
  Calls,      \* the executions of symbiomon_remote_metric_fetch
  Requests,   \* values of *num_samples_requested
  Junk,       \* values an uninitialised actual_count may have
  Faults,     \* the Mercury operations that may fail
  Fused       \* does the build load buffer_index once (optimised) or for
              \* the comparison and again for the size or the position

ASSUME CallsAssumption == IsFiniteSet(Calls)
ASSUME RequestsAssumption == Requests \subseteq Int
ASSUME JunkAssumption == Junk \subseteq Int
ASSUME FaultsAssumption == Faults \subseteq {"register", "forward", "setup", "transfer"}
ASSUME FusedAssumption == Fused \in BOOLEAN

VARIABLES
  caller,  \* per call: where the caller is
  req,     \* per call: in.count
  known,   \* per call: does in.metric_id name the metric
  bulk,    \* per call: the handle of the caller's memory, given to the handler
  mem,     \* per call: the samples pushed into the caller's memory
  got,     \* per call: the return code and *num_samples_requested
  since,   \* per call: buffer_index when the call was made (history)
  srv,     \* per call: where its handler is
  from,    \* per call: the slot the handler copies from
  out,     \* per call: the handler's out.ret and out.actual_count
  copy,    \* per call: the handler's copy of the samples
  up       \* is the provider's process alive

callerVars == <<caller, req, known, bulk, got, since>>
handlerVars == <<srv, from, out, copy, mem>>
fetchVars == <<caller, req, known, bulk, mem, got, since, srv, from, out, copy, up>>
allVars == <<bufferVars, fetchVars>>

Lesser(m, n) == IF m < n THEN m ELSE n
Handler == {"none", "request", "find", "compare", "resize", "locate", "copy",
            "push", "respond", "replied"}
Unfreed == {"registered", "null"}   \* a bulk handle whose memory was not given up
Codes == {"none", "SUCCESS", "INVALID_METRIC", "FROM_MERCURY"}
Sample == [val : Int, by : Ults \cup {NoUlt}]

FetchInit ==
  /\ BufferInit
  /\ caller = [k \in Calls |-> "new"]
  /\ req = [k \in Calls |-> 0]
  /\ known = [k \in Calls |-> TRUE]
  /\ bulk = [k \in Calls |-> "none"]
  /\ mem = [k \in Calls |-> <<>>]
  /\ got = [k \in Calls |-> [ret |-> "none", num |-> 0]]
  /\ since = [k \in Calls |-> 0]
  /\ srv = [k \in Calls |-> "none"]
  /\ from = [k \in Calls |-> 0]
  /\ out = [k \in Calls |-> [ret |-> "none", count |-> 0]]
  /\ copy = [k \in Calls |-> <<>>]
  /\ up = TRUE

-----------------------------------------------------------------------------
(* The caller. *)

(* A negative or too large request is turned into the size of the buffer. *)
Capped(n) == IF n >= BufferSize \/ n < 0 THEN BufferSize ELSE n

Ask(k, n, id, handle) ==
  /\ caller[k] = "new"
  /\ caller' = [caller EXCEPT ![k] = "waiting"]
  /\ req' = [req EXCEPT ![k] = Capped(n)]
  /\ known' = [known EXCEPT ![k] = id]
  /\ bulk' = [bulk EXCEPT ![k] = handle]
  /\ since' = [since EXCEPT ![k] = index]
  /\ srv' = [srv EXCEPT ![k] = "request"]
  /\ UNCHANGED <<bufferVars, mem, got, from, out, copy, up>>

Fetch(k, n, id) == Ask(k, n, id, "registered")

(* margo_bulk_create fails.  A build without assertions goes on with a null
   handle, through which nothing can be pushed ... *)
FetchUnregistered(k, n, id) == "register" \in Faults /\ Ask(k, n, id, "null")

(* ... and in one with assertions the caller's process ends. *)
FetchAbort(k) ==
  /\ "register" \in Faults
  /\ caller[k] = "new"
  /\ caller' = [caller EXCEPT ![k] = "aborted"]
  /\ UNCHANGED <<bufferVars, handlerVars, req, known, bulk, got, since, up>>

(* The answer arrives: its count and code go to the caller as they are, and
   only now is the bulk handle freed. *)
Receive(k) ==
  /\ caller[k] = "waiting"
  /\ srv[k] = "replied"
  /\ caller' = [caller EXCEPT ![k] = "done"]
  /\ got' = [got EXCEPT ![k] = [ret |-> out[k].ret, num |-> out[k].count]]
  /\ bulk' = [bulk EXCEPT ![k] = "freed"]
  /\ UNCHANGED <<bufferVars, handlerVars, req, known, since, up>>

FetchFail_Freeing(k) ==   \* mutant: the error path frees the bulk handle
  /\ "forward" \in Faults
  /\ caller[k] = "waiting"
  /\ caller' = [caller EXCEPT ![k] = "done"]
  /\ got' = [got EXCEPT ![k] = [ret |-> "FROM_MERCURY", num |-> req[k]]]
  /\ bulk' = [bulk EXCEPT ![k] = "freed"]
  /\ UNCHANGED <<bufferVars, handlerVars, req, known, since, up>>

(* margo_create, margo_provider_forward or margo_get_output fails.  Unless
   it was margo_create, the request may have been delivered all the same, or
   still be on its way; memory and bulk handle are not freed, and
   *num_samples_requested keeps the cap. *)
FetchFail(k) ==
  /\ "forward" \in Faults
  /\ caller[k] = "waiting"
  /\ caller' = [caller EXCEPT ![k] = "done"]
  /\ got' = [got EXCEPT ![k] = [ret |-> "FROM_MERCURY", num |-> req[k]]]
  /\ UNCHANGED <<bufferVars, handlerVars, req, known, bulk, since, up>>

-----------------------------------------------------------------------------
(* The handler. *)

At(k, label, next) ==
  /\ up
  /\ srv[k] = label
  /\ srv' = [srv EXCEPT ![k] = next]
  /\ UNCHANGED <<bufferVars, callerVars>>

(* The jump to finish: an error code beside whatever actual_count holds.   *)
Finish(k, code, count) == out' = [out EXCEPT ![k] = [ret |-> code, count |-> count]]

(* Deserialise the input, allocate b and register it. *)
Setup(k) == At(k, "request", "find") /\ UNCHANGED <<from, out, copy, mem, up>>

(* margo_get_input or margo_bulk_create fails.  The jump to finish passes
   the initialisation of b and local_bulk, which are freed there: the
   process survives that or it does not. *)
SetupFail(k) ==
  /\ "setup" \in Faults
  /\ At(k, "request", "respond")
  /\ \E c \in Junk : Finish(k, "FROM_MERCURY", c)
  /\ up' \in BOOLEAN
  /\ UNCHANGED <<from, copy, mem>>

Find_Silent(k) ==   \* mutant: no answer for an unknown metric
  known[k] /\ At(k, "find", "compare") /\ UNCHANGED <<from, out, copy, mem, up>>

Find(k) ==
  /\ UNCHANGED <<from, copy, mem, up>>
  /\ \/ known[k] /\ At(k, "find", "compare") /\ UNCHANGED out
     \/ /\ ~known[k]
        /\ At(k, "find", "respond")
        /\ \E c \in Junk : Finish(k, "INVALID_METRIC", c)

(* What is copied for a value n of buffer_index: all of it, or the end.    *)
CopyAll(k, n) ==
  /\ out' = [out EXCEPT ![k].count = n]
  /\ from' = [from EXCEPT ![k] = 0]

CopyEnd_Oldest(k, n) ==   \* mutant: the first samples instead of the last
  /\ out' = [out EXCEPT ![k].count = req[k]]
  /\ from' = [from EXCEPT ![k] = 0]

CopyEnd_OneLate(k, n) ==   \* mutant: off by one at the end of the buffer
  /\ out' = [out EXCEPT ![k].count = req[k]]
  /\ from' = [from EXCEPT ![k] = n - req[k] + 1]

CopyEnd(k, n) ==
  /\ out' = [out EXCEPT ![k].count = req[k]]
  /\ from' = [from EXCEPT ![k] = n - req[k]]

(* The comparison of buffer_index with in.count; in an optimised build the
   value compared is also the one used. *)
Compare(k) ==
  /\ UNCHANGED <<copy, mem, up>>
  /\ \/ Fused /\ index < req[k] /\ At(k, "compare", "copy") /\ CopyAll(k, index)
     \/ Fused /\ index >= req[k] /\ At(k, "compare", "copy") /\ CopyEnd(k, index)
     \/ ~Fused /\ index < req[k] /\ At(k, "compare", "resize") /\ UNCHANGED <<from, out>>
     \/ ~Fused /\ index >= req[k] /\ At(k, "compare", "locate") /\ UNCHANGED <<from, out>>

(* The second load of buffer_index, in a build that makes one.  *)
Reload(k) ==
  /\ UNCHANGED <<copy, mem, up>>
  /\ \/ At(k, "resize", "copy") /\ CopyAll(k, index)
     \/ At(k, "locate", "copy") /\ CopyEnd(k, index)

Copy(k) ==
  /\ At(k, "copy", "push")
  /\ copy' = [copy EXCEPT ![k] = [i \in 1 .. out[k].count |-> buf[from[k] + i - 1]]]
  /\ UNCHANGED <<from, out, mem, up>>

(* The bulk transfer moves in.count samples, whatever actual_count is; the
   samples of b that were not written are zero and are left out here.  *)
Push(k) ==
  /\ At(k, "push", "respond")
  /\ UNCHANGED <<from, copy, up>>
  /\ \/ /\ bulk[k] # "null"
        /\ mem' = [mem EXCEPT ![k] = SubSeq(copy[k], 1, Lesser(req[k], Len(copy[k])))]
        /\ out' = [out EXCEPT ![k].ret = "SUCCESS"]
     \/ /\ "transfer" \in Faults \/ bulk[k] = "null"
        /\ out' = [out EXCEPT ![k].ret = "FROM_MERCURY"]
        /\ UNCHANGED mem

Respond(k) ==
  /\ At(k, "respond", "replied")
  /\ copy' = [copy EXCEPT ![k] = <<>>]
  /\ UNCHANGED <<from, out, mem, up>>

-----------------------------------------------------------------------------
Serve(k) ==
  \/ Setup(k) \/ SetupFail(k) \/ Find(k) \/ Compare(k) \/ Reload(k)
  \/ Copy(k) \/ Push(k) \/ Respond(k)

UltStep(u) == up /\ BufferStep(u) /\ UNCHANGED fetchVars

FetchNext ==
  \/ \E u \in Ults : UltStep(u)
  \/ \E k \in Calls :
       \/ \E n \in Requests, id \in BOOLEAN : Fetch(k, n, id) \/ FetchUnregistered(k, n, id)
       \/ FetchAbort(k)
       \/ Receive(k)
       \/ FetchFail(k)
       \/ Serve(k)

FetchSpec == FetchInit /\ [][FetchNext]_allVars

(* Margo runs the handler of every request that arrives and delivers its
   answer; ULTs that update need no fairness for a fetch to return. *)
FairFetchSpec ==
  /\ FetchSpec
  /\ \A k \in Calls : WF_allVars(Serve(k)) /\ WF_allVars(Receive(k))

-----------------------------------------------------------------------------
FetchTypeOK ==
  /\ TypeOK
  /\ caller \in [Calls -> {"new", "waiting", "done", "aborted"}]
  /\ req \in [Calls -> 0 .. BufferSize]
  /\ known \in [Calls -> BOOLEAN]
  /\ bulk \in [Calls -> {"none", "freed"} \cup Unfreed]
  /\ mem \in [Calls -> Seq(Sample)]
  /\ got \in [Calls -> [ret : Codes, num : Int]]
  /\ since \in [Calls -> 0 .. BufferSize]
  /\ srv \in [Calls -> Handler]
  /\ from \in [Calls -> 0 .. BufferSize]
  /\ out \in [Calls -> [ret : Codes, count : Int]]
  /\ copy \in [Calls -> Seq(Sample)]
  /\ up \in BOOLEAN

(* The window a handler has settled on: the last Lesser(in.count, n) samples
   of the n there were at some moment since the call was made. *)
Window(k) ==
  LET n == from[k] + out[k].count
  IN  /\ since[k] <= n /\ n <= index
      /\ out[k].count = Lesser(req[k], n)

(* s holds the values of that window. *)
Holds(k, s) ==
  /\ Len(s) = out[k].count
  /\ \A i \in 1 .. Len(s) : s[i].val = buf[from[k] + i - 1].val

(* Where each handler stands: what it has loaded lies within the published
   samples, what it has copied is what those slots hold, and a successful
   answer is about what was pushed.  A build that loads buffer_index twice
   may settle on more samples than the caller has room for. *)
Located(k) == srv[k] \in {"copy", "push"} \/ out[k].ret = "SUCCESS"
CallInv(k) ==
  /\ since[k] <= index
  /\ caller[k] = "new" => srv[k] = "none" /\ got[k].ret = "none"
  /\ srv[k] \notin {"none", "replied"} => bulk[k] \in Unfreed
  /\ srv[k] = "locate" => req[k] <= index
  /\ srv[k] \in {"resize", "locate"} => ~Fused
  /\ Located(k) => /\ out[k].count >= 0
                   /\ since[k] <= from[k] + out[k].count
                   /\ from[k] + out[k].count <= index
  /\ Located(k) /\ Fused => Window(k)
  /\ srv[k] = "push" => Holds(k, copy[k])
  /\ out[k].ret = "SUCCESS" => srv[k] \in {"respond", "replied"}
  /\ out[k].ret = "SUCCESS" /\ Fused => Holds(k, mem[k])
  /\ got[k].ret = "SUCCESS" =>
       srv[k] = "replied" /\ out[k].ret = "SUCCESS" /\ got[k].num = out[k].count
  /\ \A i \in 1 .. Len(copy[k]) - 1 : copy[k][i].by \in Ults
  /\ \A i \in 1 .. Len(mem[k]) - 1 : mem[k][i].by \in Ults

(* The inductive invariant the proofs use. *)
FetchInductive == Inductive /\ FetchTypeOK /\ \A k \in Calls : CallInv(k)

(* A fetch that succeeds returns the latest samples: as many as asked for,
   or all there are, oldest first, and as they were at one moment between
   the call and its return, although the handler takes no lock and updates
   go on (provider.c symbiomon_metric_fetch_ult). *)
FetchLatest ==
  \A k \in Calls :
    caller[k] = "done" /\ got[k].ret = "SUCCESS" =>
      got[k].num = out[k].count /\ Window(k) /\ Holds(k, mem[k])

(* Only the newest sample of a fetch can have been copied before its time
   and sample_id were written. *)
FetchStamped ==
  \A k \in Calls : \A i \in 1 .. Len(mem[k]) - 1 : mem[k][i].by \in Ults

(* A handler never pushes into memory its caller has unregistered, also when
   the caller gave up on the RPC before the handler came to push; the handle is
   that of registered memory, or null where the registration failed. *)
PushIntoRegistered == \A k \in Calls : srv[k] = "push" => bulk[k] \in Unfreed

(* A fetch never returns more samples than were requested: what the handler
   says it copies ("copyout metric buffer of requested size"). *)
FetchWithinRequest ==
  \A k \in Calls :
    caller[k] = "done" /\ got[k].ret = "SUCCESS" => got[k].num <= req[k]

(* Every fetch returns as long as the provider's process lives. *)
FetchReturns == \A k \in Calls : caller[k] = "waiting" ~> (caller[k] = "done" \/ ~up)
=============================================================================
