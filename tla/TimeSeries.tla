----------------------------- MODULE TimeSeries -----------------------------
(***************************************************************************)
(* What one SYMBIOMON metric promises to the ULTs that update it: a        *)
(* sequence of values that only grows at its end.  A call is judged when   *)
(* it is made, against the newest value recorded so far; an accepted call  *)
(* appends exactly one value before it returns, and a gauge adjustment     *)
(* appends the value that is newest at that moment plus its difference.    *)
(* No buffer, index or mutex appears here: MetricBuffer implements this.   *)
(***************************************************************************)
EXTENDS Integers, Sequences

CONSTANTS
  Ults,    \* the ULTs that may update the metric
  Vals,    \* arguments of symbiomon_metric_update
  Diffs    \* arguments of symbiomon_metric_update_gauge_by_fixed_amount

VARIABLES
  type,    \* the metric's type, fixed when it is created
  series,  \* the values recorded so far, oldest first
  phase,   \* per ULT: no call, a call still to be recorded, a recorded one
  arg,     \* per ULT: the call it is making
  ret      \* per ULT: what its last call returned

tsVars == <<type, series, phase, arg, ret>>

Types == {"COUNTER", "TIMER", "GAUGE"}
NoArg == [op |-> "set", val |-> 0]
Newest == series[Len(series)]

(* A counter may not fall below the newest value; a timer is not negative. *)
Accepts(v) ==
  /\ type = "COUNTER" /\ series # <<>> => Newest <= v
  /\ type = "TIMER" => v >= 0

(* The value a call records: a first gauge adjustment always records 1.    *)
Recorded(a) ==
  IF a.op = "set" THEN a.val
  ELSE IF series = <<>> THEN 1 ELSE Newest + a.val

TSInit ==
  /\ type \in Types
  /\ series = <<>>
  /\ phase = [u \in Ults |-> "idle"]
  /\ arg = [u \in Ults |-> NoArg]
  /\ ret = [u \in Ults |-> "none"]

Call(u, op, v) ==
  /\ phase[u] = "idle"
  /\ IF op = "set" THEN Accepts(v) ELSE type = "GAUGE"
  /\ phase' = [phase EXCEPT ![u] = "called"]
  /\ arg' = [arg EXCEPT ![u] = [op |-> op, val |-> v]]
  /\ ret' = [ret EXCEPT ![u] = "none"]
  /\ UNCHANGED <<type, series>>

Reject(u, op, v) ==
  /\ phase[u] = "idle"
  /\ IF op = "set" THEN ~Accepts(v) ELSE type # "GAUGE"
  /\ ret' = [ret EXCEPT ![u] = "INVALID_VALUE"]
  /\ UNCHANGED <<type, series, phase, arg>>

Record(u) ==
  /\ phase[u] = "called"
  /\ series' = Append(series, Recorded(arg[u]))
  /\ phase' = [phase EXCEPT ![u] = "recorded"]
  /\ UNCHANGED <<type, arg, ret>>

Return(u) ==
  /\ phase[u] = "recorded"
  /\ phase' = [phase EXCEPT ![u] = "idle"]
  /\ arg' = [arg EXCEPT ![u] = NoArg]
  /\ ret' = [ret EXCEPT ![u] = "SUCCESS"]
  /\ UNCHANGED <<type, series>>

TSNext ==
  \E u \in Ults :
    \/ \E v \in Vals : Call(u, "set", v) \/ Reject(u, "set", v)
    \/ \E d \in Diffs : Call(u, "add", d) \/ Reject(u, "add", d)
    \/ Record(u)
    \/ Return(u)

TSSpec == TSInit /\ [][TSNext]_tsVars
=============================================================================
