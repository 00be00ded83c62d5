---------------------------- MODULE LuleshProofs ----------------------------
(***************************************************************************)
(* Theorems about LULESH's exchanges over time, its time steps and regions:*)
(* HaloExchange, for every set of ranks, every script and every choice of  *)
(* peers the assumptions of that module allow; LuleshTime, for all         *)
(* processes, limits and bounds; LuleshRegions, for every number of        *)
(* elements and regions, rank, balance and choice of runs.                 *)
(*                                                                         *)
(* Exchanges: the inductive invariant says exactly which messages are under*)
(* way: those of an exchange the sender has been through and the receiver  *)
(* has not.  A rank that takes the first message with the right tag then   *)
(* takes the one of its own round, since a sender that is ahead must have  *)
(* sent that one before, and no receiver is past an exchange its senders   *)
(* have not been through.                                                  *)
(*                                                                         *)
(* Time: a process is at most a cycle ahead of another, for the one behind *)
(* is then on its way from the reduction.  Those that began with the same  *)
(* step stay in step: the one behind is about to make the step the other   *)
(* has made.                                                               *)
(*                                                                         *)
(* Regions: the last number given is that of the last region, and the next *)
(* run is of another, so a stretch of one region lies within a run.  Each  *)
(* index set holds the elements of its region among those already looked   *)
(* at, once each, so the count made before is never exceeded and is reached*)
(* at the end.                                                             *)
(***************************************************************************)
EXTENDS HaloExchange, LuleshTime, LuleshRegions, DataLemmas, FunctionTheorems, TLAPS

Msgs == [from : Ranks, to : Ranks, round : Rounds]

Sent(q, k) == at[q] > k \/ (at[q] = k /\ phase[q] \in {"flush", "unpack"})
Owed(m) ==
  /\ Script[m.round] \in Exchanges /\ m.to \in Sends[Script[m.round]][m.from]
  /\ Sent(m.from, m.round) /\ at[m.to] <= m.round

HaloTypes ==
  /\ buffered \subseteq Exchanges /\ aborted \in BOOLEAN
  /\ at \in [Ranks -> 1..Len(Script) + 1]
  /\ phase \in [Ranks -> {"post", "compute", "flush", "unpack", "inside"}]
  /\ pend \in [Ranks -> SUBSET Ranks]

NetIsOwed == net \subseteq Msgs /\ \A m \in Msgs : m \in net <=> Owed(m)

PhaseFits ==
  \A r \in Ranks : phase[r] # "post" =>
    /\ ~Finished(r)
    /\ phase[r] = "inside" <=> Doing(r) \notin Exchanges

PendFits ==
  \A r \in Ranks :
    pend[r] = IF phase[r] \in {"compute", "flush", "unpack"} THEN Posts[Doing(r)][r] ELSE {}

NeverAhead ==
  \A q, r \in Ranks, k \in Rounds :
    Script[k] \in Exchanges /\ q \in Sends[Script[k]][r] /\ k < at[q] => Sent(r, k)

HaloInv == HaloTypes /\ NetIsOwed /\ NeverAhead /\ PhaseFits /\ PendFits

(* A rank that has not finished is at an entry of the script.              *)
LEMMA AtRound ==
  ASSUME HaloTypes, NEW r \in Ranks, ~Finished(r)
  PROVE  at[r] \in Rounds /\ at[r] \in Nat /\ Len(Script) \in Nat /\ Rounds = 1..Len(Script)
BY ScriptAssumption DEF HaloTypes, Finished, Rounds

(* The message a pending receive matches is that of the receiver's round.  *)
LEMMA FirstIsOwn ==
  ASSUME HaloInv, NEW r \in Ranks, ~Finished(r), Doing(r) \in Exchanges,
         NEW q \in Posts[Doing(r)][r], Matching(q, r, Doing(r)) # {}
  PROVE  First(Matching(q, r, Doing(r))) = [from |-> q, to |-> r, round |-> at[r]]
<1> DEFINE ms == Matching(q, r, Doing(r))
           own == [from |-> q, to |-> r, round |-> at[r]]
<1>1. at[r] \in Rounds /\ at[r] \in Nat /\ Rounds = 1..Len(Script) /\ Len(Script) \in Nat
  BY AtRound DEF HaloInv
<1>2. q \in Ranks /\ r \in Sends[Doing(r)][q]
  BY PeersAssumption
<1>3. \A m \in ms : m \in Msgs /\ Owed(m) /\ m.from = q /\ m.to = r
  BY DEF Matching, HaloInv, NetIsOwed
<1>4. \A m \in ms : m.round \in Nat /\ at[r] <= m.round
  BY <1>1, <1>3 DEF Owed, Msgs
<1>5. own \in Msgs
  BY <1>1, <1>2 DEF Msgs
<1>6. Sent(q, at[r])
  <2>1. PICK m \in ms : TRUE
    OBVIOUS
  <2>2. Sent(q, m.round) /\ m.round \in Nat /\ at[r] <= m.round
    BY <1>3, <1>4, <2>1 DEF Owed
  <2>3. at[q] \in Nat
    BY <1>1, <1>2 DEF HaloInv, HaloTypes
  <2> QED
    BY <1>1, <2>2, <2>3 DEF Sent
<1>7. Owed(own)
  BY <1>1, <1>2, <1>6 DEF Owed, Doing
<1>8. own \in net
  BY <1>5, <1>7 DEF HaloInv, NetIsOwed
<1>9. own \in ms
  BY <1>8 DEF Matching, Doing
<1>10. \A o \in ms : own.round <= o.round
  BY <1>4
<1>11. First(ms) \in ms /\ \A o \in ms : First(ms).round <= o.round
  BY <1>9, <1>10 DEF First
<1>12. First(ms).round = at[r]
  BY <1>1, <1>4, <1>9, <1>11
<1> QED
  BY <1>3, <1>11, <1>12 DEF Msgs
-----------------------------------------------------------------------------
LEMMA InitInv == HaloInit => HaloInv
<1> SUFFICES ASSUME HaloInit PROVE HaloInv
  OBVIOUS
<1>1. Len(Script) \in Nat /\ Rounds = 1..Len(Script)
  BY ScriptAssumption DEF Rounds
<1>2. buffered \subseteq Exchanges /\ aborted \in BOOLEAN
  BY ScriptAssumption DEF HaloInit
<1>3. at \in [Ranks -> 1..Len(Script) + 1]
  BY <1>1 DEF HaloInit
<1>4. HaloTypes
  BY <1>2, <1>3 DEF HaloInit, HaloTypes
<1>5. NetIsOwed
  BY <1>1 DEF HaloInit, NetIsOwed, Owed, Sent, Msgs
<1>6. NeverAhead
  BY <1>1 DEF HaloInit, NeverAhead
<1> QED
  BY <1>4, <1>5, <1>6 DEF HaloInit, HaloInv, PhaseFits, PendFits

(* A step that neither sends nor receives, nor moves to the next call, and *)
(* keeps who has sent, keeps what is owed.                                 *)
LEMMA NetKept ==
  ASSUME HaloInv, UNCHANGED <<at, net>>,
         \A q \in Ranks : (phase[q] \in {"flush", "unpack"}) <=> (phase'[q] \in {"flush", "unpack"})
  PROVE  NetIsOwed' /\ NeverAhead'
<1>1. \A q \in Ranks, k \in Rounds : Sent(q, k)' <=> Sent(q, k)
  BY DEF Sent, Rounds
<1>2. \A m \in Msgs : Owed(m) <=> Owed(m)'
  BY <1>1 DEF Owed, Msgs
<1> QED
  BY <1>1, <1>2 DEF HaloInv, NetIsOwed, NeverAhead, Msgs, Rounds

LEMMA CommRecvInv ==
  ASSUME HaloInv, NEW r \in Ranks, CommRecv(r)
  PROVE  HaloInv'
<1> USE DEF CommRecv, In
<1>1. HaloTypes'
  BY PeersAssumption DEF HaloInv, HaloTypes
<1>2. NetIsOwed' /\ NeverAhead'
  BY NetKept DEF HaloInv, HaloTypes
<1>3. PhaseFits' /\ PendFits'
  BY DEF HaloInv, HaloTypes, PhaseFits, PendFits, Finished, Doing
<1> QED
  BY <1>1, <1>2, <1>3 DEF HaloInv

LEMMA CommSendInv ==
  ASSUME HaloInv, NEW r \in Ranks, CommSend(r)
  PROVE  HaloInv'
<1> DEFINE new == {[from |-> r, to |-> q, round |-> at[r]] : q \in Sends[Doing(r)][r]}
<1>1. HaloTypes'
  BY DEF CommSend, HaloInv, HaloTypes
<1>2. at[r] \in Rounds /\ at[r] \in Nat /\ Rounds = 1..Len(Script) /\ Len(Script) \in Nat
  BY AtRound DEF CommSend, In, HaloInv
<1>3. phase[r] = "compute" /\ Doing(r) \in Exchanges /\ ~Finished(r)
      /\ phase' = [phase EXCEPT ![r] = "flush"] /\ at' = at /\ pend' = pend
      /\ net' = net \cup new
  BY DEF CommSend, In
<1>4. Sends[Doing(r)][r] \subseteq Ranks
  BY <1>3, PeersAssumption
<1>5. new \subseteq Msgs
  BY <1>2, <1>4 DEF Msgs
<1>6. ASSUME NEW m \in Msgs PROVE m \in net' <=> Owed(m)'
  <2>1. CASE m.from = r /\ m.round = at[r]
    <3>1. ~Owed(m)
      BY <1>2, <1>3, <2>1 DEF Owed, Sent
    <3>2. m \in new <=> m.to \in Sends[Doing(r)][r]
      <4>1. m = [from |-> r, to |-> m.to, round |-> at[r]]
        BY <2>1 DEF Msgs
      <4> QED
        BY <4>1
    <3>3. phase'[r] = "flush"
      BY <1>3 DEF HaloInv, HaloTypes
    <3>4. m.to \in Sends[Doing(r)][r] => at[m.to] <= at[r]
      <4> SUFFICES ASSUME m.to \in Sends[Doing(r)][r], ~(at[m.to] <= at[r]) PROVE FALSE
        OBVIOUS
      <4>1. m.to \in Ranks /\ at[m.to] \in Nat
        BY <1>2 DEF Msgs, HaloInv, HaloTypes
      <4>2. Sent(r, at[r])
        BY <1>2, <1>3, <4>1 DEF HaloInv, NeverAhead, Doing
      <4> QED
        BY <1>2, <1>3, <4>2 DEF Sent
    <3> QED
      BY <1>3, <2>1, <3>1, <3>2, <3>3, <3>4 DEF Owed, Sent, Doing, HaloInv, NetIsOwed
  <2>2. CASE ~(m.from = r /\ m.round = at[r])
    <3>1. m \notin new
      BY <2>2
    <3>2. Owed(m)' <=> Owed(m)
      BY <1>2, <1>3, <2>2 DEF Owed, Sent, Msgs, HaloInv, HaloTypes
    <3> QED
      BY <1>3, <3>1, <3>2 DEF HaloInv, NetIsOwed
  <2> QED
    BY <2>1, <2>2
<1>7. NetIsOwed'
  BY <1>3, <1>5, <1>6 DEF HaloInv, NetIsOwed, Msgs, Rounds
<1>8. PhaseFits' /\ PendFits'
  BY <1>3 DEF HaloInv, HaloTypes, PhaseFits, PendFits, Finished, Doing
<1>9. NeverAhead'
  <2>1. \A q \in Ranks, k \in Rounds : Sent(q, k) => Sent(q, k)'
    BY <1>3 DEF Sent, HaloInv, HaloTypes
  <2> QED
    BY <1>3, <2>1 DEF HaloInv, NeverAhead, Rounds
<1> QED
  BY <1>1, <1>7, <1>8, <1>9 DEF HaloInv

LEMMA WaitallInv ==
  ASSUME HaloInv, NEW r \in Ranks, Waitall(r)
  PROVE  HaloInv'
<1> USE DEF Waitall, In
<1>1. HaloTypes'
  BY DEF HaloInv, HaloTypes
<1>2. NetIsOwed' /\ NeverAhead'
  BY NetKept DEF HaloInv, HaloTypes
<1>3. PhaseFits' /\ PendFits'
  BY DEF HaloInv, HaloTypes, PhaseFits, PendFits, Finished, Doing
<1> QED
  BY <1>1, <1>2, <1>3 DEF HaloInv

LEMMA EnterInv ==
  ASSUME HaloInv, NEW r \in Ranks, Enter(r)
  PROVE  HaloInv'
<1> USE DEF Enter, In
<1>1. HaloTypes'
  BY DEF HaloInv, HaloTypes
<1>2. NetIsOwed' /\ NeverAhead'
  BY NetKept DEF HaloInv, HaloTypes
<1>3. Doing(r) \notin Exchanges
  BY DEF Collectives, Exchanges
<1>4. PhaseFits' /\ PendFits'
  BY <1>3 DEF HaloInv, HaloTypes, PhaseFits, PendFits, Finished, Doing
<1> QED
  BY <1>1, <1>2, <1>4 DEF HaloInv

LEMMA LeaveInv ==
  ASSUME HaloInv, NEW r \in Ranks, Leave(r)
  PROVE  HaloInv'
<1>1. /\ at[r] \in Rounds /\ at[r] \in Nat /\ Rounds = 1..Len(Script) /\ Len(Script) \in Nat
      /\ ~Finished(r) /\ phase[r] = "inside" /\ Doing(r) \notin Exchanges
      /\ at' = [at EXCEPT ![r] = @ + 1] /\ phase' = [phase EXCEPT ![r] = "post"]
      /\ pend' = pend /\ net' = net /\ buffered' = buffered /\ aborted' = aborted
  BY AtRound DEF Leave, In, Next_, HaloInv, Collectives, Exchanges
<1>2. HaloTypes'
  BY <1>1 DEF HaloInv, HaloTypes
<1>3. \A q \in Ranks, k \in Rounds : Script[k] \in Exchanges => (Sent(q, k) <=> Sent(q, k)')
  BY <1>1 DEF Sent, Doing, HaloInv, HaloTypes
<1>4. \A m \in Msgs : Owed(m) <=> Owed(m)'
  BY <1>1, <1>3 DEF Owed, Msgs, Doing, HaloInv, HaloTypes
<1>5. NetIsOwed'
  BY <1>1, <1>4 DEF HaloInv, NetIsOwed, Msgs, Rounds
<1>6. NeverAhead'
  BY <1>1, <1>3 DEF HaloInv, NeverAhead, HaloTypes, Doing, Rounds
<1>7. PhaseFits' /\ PendFits'
  BY <1>1 DEF HaloInv, HaloTypes, PhaseFits, PendFits, Finished, Doing
<1> QED
  BY <1>2, <1>5, <1>6, <1>7 DEF HaloInv

(* Unpacking takes from net exactly what this rank was owed of its round.  *)
LEMMA UnpackTakes ==
  ASSUME HaloInv, NEW r \in Ranks, Unpack(r)
  PROVE  /\ net' = {m \in net : ~(m.to = r /\ m.round = at[r])}
         /\ \A q \in Posts[Doing(r)][r] : Sent(q, at[r])
<1> DEFINE peers == Posts[Doing(r)][r]
           Ms(q) == Matching(q, r, Doing(r))
           Own(q) == [from |-> q, to |-> r, round |-> at[r]]
<1>1. /\ ~Finished(r) /\ Doing(r) \in Exchanges
      /\ \A q \in Unpacks[Doing(r)][r] : Ms(q) # {}
      /\ net' = net \ {First(Ms(q)) : q \in Unpacks[Doing(r)][r]}
  BY DEF Unpack, In
<1>2. Unpacks[Doing(r)][r] = peers
  BY <1>1, PeersAssumption
<1>3. \A q \in peers : First(Ms(q)) = Own(q)
  BY <1>1, <1>2, FirstIsOwn
<1>4. net' = net \ {Own(q) : q \in peers}
  BY <1>1, <1>2, <1>3
<1>5. ASSUME NEW m \in net, m.to = r, m.round = at[r]
      PROVE  m \in {Own(q) : q \in peers}
  <2>1. m \in Msgs /\ Owed(m)
    BY DEF HaloInv, NetIsOwed
  <2>2. m = Own(m.from)
    BY <1>5, <2>1 DEF Msgs
  <2>3. m.from \in Ranks /\ r \in Sends[Doing(r)][m.from]
    BY <1>5, <2>1 DEF Msgs, Owed, Doing
  <2>4. m.from \in peers
    BY <1>1, <2>3, PeersAssumption
  <2> QED
    BY <2>2, <2>4
<1>6. \A q \in peers : Own(q) \in net
  <2> SUFFICES ASSUME NEW q \in peers PROVE Own(q) \in net
    OBVIOUS
  <2>1. Ms(q) # {}
    BY <1>1, <1>2
  <2>2. q \in Ranks /\ r \in Sends[Doing(r)][q]
    BY <1>1, PeersAssumption
  <2>3. at[r] \in Rounds /\ at[r] \in Nat
    BY <1>1, AtRound DEF HaloInv
  <2>4. PICK m \in Ms(q) : TRUE
    BY <2>1
  <2>5. m \in Msgs /\ Owed(m) /\ m.from = q /\ m.to = r
    BY <2>4 DEF Matching, HaloInv, NetIsOwed
  <2>6. Sent(q, at[r])
    <3>1. m.round \in Nat /\ at[q] \in Nat /\ at[r] <= m.round /\ Sent(q, m.round)
      BY <2>2, <2>5, ScriptAssumption DEF Owed, Msgs, Rounds, HaloInv, HaloTypes
    <3> QED
      BY <2>3, <3>1 DEF Sent
  <2> QED
    BY <1>1, <2>2, <2>3, <2>6 DEF Owed, Msgs, Doing, HaloInv, NetIsOwed
<1>7. \A q \in peers : Sent(q, at[r])
  <2> SUFFICES ASSUME NEW q \in peers PROVE Sent(q, at[r])
    OBVIOUS
  <2>1. Owed(Own(q))
    BY <1>6 DEF HaloInv, NetIsOwed
  <2> QED
    BY <2>1 DEF Owed
<1>8. \A m \in {Own(q) : q \in peers} : m.to = r /\ m.round = at[r]
  OBVIOUS
<1> QED
  BY <1>4, <1>5, <1>7, <1>8

LEMMA UnpackInv ==
  ASSUME HaloInv, NEW r \in Ranks, Unpack(r)
  PROVE  HaloInv'
<1>1. /\ at[r] \in Rounds /\ at[r] \in Nat /\ Rounds = 1..Len(Script) /\ Len(Script) \in Nat
      /\ ~Finished(r) /\ phase[r] = "unpack" /\ Doing(r) \in Exchanges
      /\ at' = [at EXCEPT ![r] = @ + 1] /\ phase' = [phase EXCEPT ![r] = "post"]
      /\ pend' = [pend EXCEPT ![r] = @ \ Unpacks[Doing(r)][r]]
      /\ buffered' = buffered /\ aborted' = aborted
  BY AtRound DEF Unpack, In, Next_, HaloInv
<1>2. Unpacks[Doing(r)][r] = Posts[Doing(r)][r]
  BY <1>1, PeersAssumption
<1>3. pend[r] = Posts[Doing(r)][r]
  BY <1>1 DEF HaloInv, PendFits
<1>4. pend' = [pend EXCEPT ![r] = {}]
  BY <1>1, <1>2, <1>3
<1>5. HaloTypes'
  BY <1>1, <1>4 DEF HaloInv, HaloTypes
<1>6. \A q \in Ranks, k \in Rounds : Sent(q, k) <=> Sent(q, k)'
  BY <1>1 DEF Sent, HaloInv, HaloTypes
<1>7. \A m \in Msgs : Owed(m)' <=> Owed(m) /\ ~(m.to = r /\ m.round = at[r])
  BY <1>1, <1>6 DEF Owed, Msgs, HaloInv, HaloTypes
<1>8. NetIsOwed'
  <2>1. net' = {m \in net : ~(m.to = r /\ m.round = at[r])}
    BY UnpackTakes
  <2> QED
    BY <1>7, <2>1 DEF HaloInv, NetIsOwed, Msgs, Rounds
<1>9. NeverAhead'
  <2> SUFFICES ASSUME NEW q \in Ranks, NEW p \in Ranks, NEW k \in Rounds,
                      Script[k] \in Exchanges, q \in Sends[Script[k]][p], k < at'[q]
               PROVE  Sent(p, k)'
    BY DEF NeverAhead, Rounds
  <2>1. CASE k < at[q]
    BY <1>6, <2>1 DEF HaloInv, NeverAhead
  <2>2. CASE ~(k < at[q])
    <3>1. q = r /\ k = at[r]
      BY <1>1, <2>2 DEF HaloInv, HaloTypes
    <3>2. p \in Posts[Doing(r)][r]
      BY <3>1, PeersAssumption DEF Doing
    <3>3. Sent(p, at[r])
      BY <3>2, UnpackTakes
    <3> QED
      BY <1>6, <3>1, <3>3
  <2> QED
    BY <2>1, <2>2
<1>10. PhaseFits' /\ PendFits'
  BY ZenonT(40), <1>1, <1>4 DEF HaloInv, HaloTypes, PhaseFits, PendFits, Finished, Doing
<1> QED
  BY <1>5, <1>8, <1>9, <1>10 DEF HaloInv

LEMMA StillInv ==
  ASSUME HaloInv, UNCHANGED <<buffered, at, phase, pend, net>>, aborted' \in BOOLEAN
  PROVE  HaloInv'
<1>1. NetIsOwed' /\ NeverAhead'
  BY NetKept
<1>2. HaloTypes'
  BY DEF HaloInv, HaloTypes
<1> QED
  BY <1>1, <1>2 DEF HaloInv, PhaseFits, PendFits, Finished, Doing

LEMMA NextInv == HaloInv /\ [HaloNext]_haloVars => HaloInv'
<1> SUFFICES ASSUME HaloInv, [HaloNext]_haloVars PROVE HaloInv'
  OBVIOUS
<1>1. ASSUME NEW r \in Ranks, Step(r) PROVE HaloInv'
  BY <1>1, CommRecvInv, CommSendInv, WaitallInv, UnpackInv, EnterInv, LeaveInv DEF Step
<1>2. ASSUME NEW r \in Ranks, Abort(r) PROVE HaloInv'
  BY <1>2, StillInv DEF Abort
<1>3. CASE UNCHANGED haloVars
  BY <1>3, StillInv DEF haloVars, HaloInv, HaloTypes
<1> QED
  BY <1>1, <1>2, <1>3 DEF HaloNext, Poll
-----------------------------------------------------------------------------
(* The invariant holds in every reachable state.                           *)
THEOREM HaloInvHolds == HaloSpec => []HaloInv
<1>1. HaloInit => HaloInv
  BY InitInv
<1>2. HaloInv /\ [HaloNext]_haloVars => HaloInv'
  BY NextInv
<1> QED
  BY <1>1, <1>2, PTL DEF HaloSpec

(* Type correctness, and no message goes to a rank that awaits none.       *)
THEOREM HaloTypeOKHolds == HaloSpec => []HaloTypeOK
<1>1. HaloInv => HaloTypeOK
  <2> SUFFICES ASSUME HaloInv PROVE HaloTypeOK
    OBVIOUS
  <2>1. \A m \in net : m \in Msgs /\ Owed(m)
    BY DEF HaloInv, NetIsOwed
  <2>2. net \subseteq [from : Ranks, to : Ranks, round : Rounds]
    BY <2>1 DEF Msgs
  <2> QED
    BY <2>1, <2>2 DEF HaloInv, HaloTypes, HaloTypeOK, Owed
<1> QED
  BY <1>1, HaloInvHolds, PTL

(* Whatever the ranks' pace, a rank takes from each neighbour the message  *)
(* of its own exchange and cycle (CommSBN, CommSyncPosVel, CommMonoQ).     *)
THEOREM OwnRoundHolds == HaloSpec => []OwnRound
<1>1. HaloInv => OwnRound
  <2> SUFFICES ASSUME HaloInv, NEW r \in Ranks, ~Finished(r), Doing(r) \in Exchanges,
                      NEW q \in Posts[Doing(r)][r], Matching(q, r, Doing(r)) # {}
               PROVE  First(Matching(q, r, Doing(r))).round = at[r]
    BY DEF OwnRound
  <2> QED
    BY FirstIsOwn
<1> QED
  BY <1>1, HaloInvHolds, PTL

(* CommRecv never resets a request that is pending.                        *)
THEOREM NoRequestLostHolds == HaloSpec => []NoRequestLost
<1>1. HaloInv => NoRequestLost
  BY DEF HaloInv, PendFits, NoRequestLost
<1> QED
  BY <1>1, HaloInvHolds, PTL

(* When all ranks are at MPI_Finalize no message is left over.             *)
THEOREM NothingLeftHolds == HaloSpec => []NothingLeft
<1>1. HaloInv => NothingLeft
  <2> SUFFICES ASSUME HaloInv, \A r \in Ranks : Finished(r), NEW m \in net PROVE FALSE
    BY DEF NothingLeft
  <2>1. m \in Msgs /\ Owed(m)
    BY DEF HaloInv, NetIsOwed
  <2>2. m.to \in Ranks /\ m.round \in 1..Len(Script) /\ Len(Script) \in Nat
    BY <2>1, ScriptAssumption DEF Msgs, Rounds
  <2>3. at[m.to] = Len(Script) + 1 /\ at[m.to] <= m.round
    BY <2>1, <2>2 DEF Finished, Owed
  <2> QED
    BY <2>2, <2>3
<1> QED
  BY <1>1, HaloInvHolds, PTL

(* The four together.                                                      *)
THEOREM HaloSafeHolds == HaloSpec => []HaloSafe
<1>1. HaloTypeOK /\ OwnRound /\ NoRequestLost /\ NothingLeft => HaloSafe
  BY DEF HaloSafe
<1> QED
  BY <1>1, HaloTypeOKHolds, OwnRoundHolds, NoRequestLostHolds, NothingLeftHolds, PTL

-----------------------------------------------------------------------------
Runs(r) == time[r] < StopTime /\ cycle[r] < Its
Increment(r) == Fitted(StopTime - time[r], dt[r])

TimeTypes ==
  /\ DOMAIN stage = Processes /\ DOMAIN time = Processes /\ DOMAIN dt = Processes
  /\ cycle \in [Processes -> Nat]
  /\ \A r \in Processes : stage[r] \in {"loop", "allreduce", "fit", "work", "out"}

(* What a place in the loop says of the process there.                     *)
Placed ==
  \A r \in Processes :
    /\ stage[r] = "allreduce" => cycle[r] # 0 /\ Runs(r)
    /\ stage[r] = "fit" => Runs(r)
    /\ stage[r] = "out" => ~Runs(r)
    /\ stage[r] = "work" => cycle[r] # 0
    /\ cycle[r] = 0 => Runs(r)

(* One that is behind comes from the reduction or has yet to begin; those
   in the same cycle leave the reduction together. *)
Abreast ==
  \A r, q \in Processes :
    /\ cycle[r] < cycle[q] =>
         /\ cycle[q] = cycle[r] + 1 /\ stage[q] # "fit"
         /\ stage[r] = "fit" \/ (stage[r] = "loop" /\ cycle[r] = 0)
    /\ cycle[r] = cycle[q] /\ cycle[r] # 0 /\ stage[r] = "fit" => stage[q] = "fit"

(* Two that began with the same step.                                      *)
Alike ==
  \A r, q \in Processes : firstdt[r] = firstdt[q] =>
    /\ cycle[r] = cycle[q] => time[r] = time[q] /\ dt[r] = dt[q]
    /\ cycle[r] < cycle[q] => time[q] = time[r] + Increment(r) /\ dt[q] = Increment(r)

InStep == TimeTypes /\ Placed /\ Abreast /\ Alike

LEMMA InStepInit == TimeInit => InStep
<1> SUFFICES ASSUME TimeInit PROVE InStep
  OBVIOUS
<1>1. TimeTypes /\ Placed
  BY TimeAssumption DEF TimeInit, TimeTypes, Placed, Runs
<1>2. Abreast /\ Alike
  BY DEF TimeInit, Abreast, Alike
<1> QED
  BY <1>1, <1>2 DEF InStep

(* Into the cycle, into the reduction, or out of the loop.                 *)
LEMMA LoopHeadStep ==
  ASSUME InStep, NEW r \in Processes, LoopHead(r)
  PROVE  InStep'
<1>1. /\ stage[r] = "loop" /\ UNCHANGED <<time, dt, cycle, firstdt>>
      /\ stage' = [stage EXCEPT ![r] = IF ~Runs(r) THEN "out"
                                       ELSE IF cycle[r] # 0 THEN "allreduce" ELSE "fit"]
  BY DEF LoopHead, Go, Runs
<1>2. /\ DOMAIN stage' = Processes /\ \A q \in Processes \ {r} : stage'[q] = stage[q]
      /\ stage'[r] = IF ~Runs(r) THEN "out" ELSE IF cycle[r] # 0 THEN "allreduce" ELSE "fit"
  BY <1>1 DEF InStep, TimeTypes
<1>3. /\ \A q \in Processes : Runs(q)' = Runs(q)
      /\ \A q \in Processes : Increment(q)' = Increment(q)
  BY <1>1 DEF Runs, Increment, Fitted
<1> HIDE DEF Runs, Increment
<1>4. TimeTypes' /\ Placed'
  BY <1>1, <1>2, <1>3 DEF InStep, TimeTypes, Placed
<1>5. Alike'
  BY <1>1, <1>3 DEF InStep, Alike
<1>6. Abreast'
  BY <1>1, <1>2 DEF InStep, TimeTypes, Placed, Abreast
<1> QED
  BY <1>4, <1>5, <1>6 DEF InStep

(* All in the reduction are in one cycle, and leave it with one limit.     *)
LEMMA AllreduceStep == InStep /\ Allreduce => InStep'
<1> SUFFICES ASSUME InStep, Allreduce PROVE InStep'
  OBVIOUS
<1> DEFINE least == Min({offered[q] : q \in Processes})
<1>1. /\ \A r \in Processes : stage[r] = "allreduce"
      /\ stage' = [r \in Processes |-> "fit"]
      /\ dt' = [r \in Processes |-> Adjusted(least, dt[r])]
      /\ UNCHANGED <<time, cycle, firstdt>>
  BY DEF Allreduce
<1> HIDE DEF least
<1>2. \A r, q \in Processes : cycle[r] = cycle[q]
  BY <1>1 DEF InStep, TimeTypes, Abreast
<1>3. \A r, q \in Processes : firstdt[r] = firstdt[q] => time[r] = time[q] /\ dt[r] = dt[q]
  BY <1>2 DEF InStep, Alike
<1>4. \A r, q \in Processes : firstdt[r] = firstdt[q] => dt'[r] = dt'[q]
  BY <1>1, <1>3
<1>5. TimeTypes' /\ Placed'
  <2>1. \A r \in Processes : Runs(r)' = Runs(r) /\ Runs(r)
    BY <1>1 DEF InStep, Placed, Runs
  <2> HIDE DEF Runs
  <2> QED
    BY <1>1, <2>1 DEF InStep, TimeTypes, Placed
<1>6. Abreast' /\ Alike'
  BY <1>1, <1>2, <1>3, <1>4 DEF InStep, TimeTypes, Abreast, Alike
<1> QED
  BY <1>5, <1>6 DEF InStep

(* The first to advance is ahead of the others by its step; one that began
   alike makes the same step from the same time. *)
LEMMA AdvanceStep ==
  ASSUME InStep, NEW r \in Processes, Advance(r)
  PROVE  InStep'
<1>1. /\ stage[r] = "fit" /\ stage' = [stage EXCEPT ![r] = "work"]
      /\ dt' = [dt EXCEPT ![r] = Increment(r)]
      /\ time' = [time EXCEPT ![r] = time[r] + Increment(r)]
      /\ cycle' = [cycle EXCEPT ![r] = cycle[r] + 1] /\ firstdt' = firstdt
  BY DEF Advance, Go, Increment
<1>2. /\ DOMAIN stage' = Processes /\ DOMAIN time' = Processes /\ DOMAIN dt' = Processes
      /\ cycle' \in [Processes -> Nat] /\ cycle[r] \in Nat
      /\ stage'[r] = "work" /\ dt'[r] = Increment(r) /\ time'[r] = time[r] + Increment(r)
      /\ cycle'[r] = cycle[r] + 1
      /\ \A q \in Processes \ {r} : /\ stage'[q] = stage[q] /\ dt'[q] = dt[q]
                                   /\ time'[q] = time[q] /\ cycle'[q] = cycle[q]
  BY <1>1 DEF InStep, TimeTypes
<1>3. \A q \in Processes \ {r} : (Runs(q)' <=> Runs(q)) /\ Increment(q)' = Increment(q)
  BY <1>2 DEF Runs, Increment, Fitted
<1>4. \A q \in Processes : firstdt[q] = firstdt[r] =>
        /\ cycle[q] = cycle[r] => Increment(q) = Increment(r) /\ time[q] = time[r]
        /\ cycle[q] = cycle[r] + 1 => time[q] = time[r] + Increment(r) /\ dt[q] = Increment(r)
  <2>1. ASSUME NEW q \in Processes, firstdt[q] = firstdt[r], cycle[q] = cycle[r]
        PROVE  Increment(q) = Increment(r) /\ time[q] = time[r]
    BY <2>1 DEF InStep, Alike, Increment, Fitted
  <2>2. ASSUME NEW q \in Processes, firstdt[q] = firstdt[r], cycle[q] = cycle[r] + 1
        PROVE  time[q] = time[r] + Increment(r) /\ dt[q] = Increment(r)
    <3> HIDE DEF Increment
    <3> QED
      BY <1>2, <2>2 DEF InStep, Alike
  <2> QED
    BY <2>1, <2>2
<1>5. \A q \in Processes :
        /\ cycle[q] \in Nat /\ cycle[q] >= cycle[r] /\ cycle[q] <= cycle[r] + 1
        /\ cycle[q] = cycle[r] + 1 => stage[q] # "fit"
        /\ cycle[q] = cycle[r] => stage[q] = "fit" \/ (stage[q] = "loop" /\ cycle[q] = 0)
  BY <1>1 DEF InStep, TimeTypes, Placed, Abreast
<1> HIDE DEF Runs, Increment
<1>6. TimeTypes' /\ Placed'
  BY <1>2, <1>3 DEF InStep, TimeTypes, Placed
<1>7. Abreast'
  <2> SUFFICES ASSUME NEW a \in Processes, NEW b \in Processes
               PROVE  /\ cycle'[a] < cycle'[b] =>
                           /\ cycle'[b] = cycle'[a] + 1 /\ stage'[b] # "fit"
                           /\ stage'[a] = "fit" \/ (stage'[a] = "loop" /\ cycle'[a] = 0)
                      /\ cycle'[a] = cycle'[b] /\ cycle'[a] # 0 /\ stage'[a] = "fit" => stage'[b] = "fit"
    BY DEF Abreast
  <2>1. CASE a # r /\ b # r
    BY <1>2, <2>1 DEF InStep, Abreast
  <2>2. CASE a = r \/ b = r
    BY <1>2, <1>5, <2>2
  <2> QED
    BY <2>1, <2>2
<1>8. Alike'
  <2> SUFFICES ASSUME NEW a \in Processes, NEW b \in Processes, firstdt[a] = firstdt[b]
               PROVE  /\ cycle'[a] = cycle'[b] => time'[a] = time'[b] /\ dt'[a] = dt'[b]
                      /\ cycle'[a] < cycle'[b] =>
                           time'[b] = time'[a] + Increment(a)' /\ dt'[b] = Increment(a)'
    BY <1>1 DEF Alike
  <2>1. CASE a # r /\ b # r
    BY <1>2, <1>3, <2>1 DEF InStep, Alike
  <2>2. CASE a = r
    BY <1>2, <1>4, <1>5, <2>2
  <2>3. CASE a # r /\ b = r
    BY <1>2, <1>3, <1>4, <1>5, <2>3
  <2> QED
    BY <2>1, <2>2, <2>3
<1> QED
  BY <1>6, <1>7, <1>8 DEF InStep

LEMMA LeapFrogStep ==
  ASSUME InStep, NEW r \in Processes, LeapFrog(r)
  PROVE  InStep'
<1>1. /\ stage[r] = "work" /\ stage' = [stage EXCEPT ![r] = "loop"]
      /\ UNCHANGED <<time, dt, cycle, firstdt>>
  BY DEF LeapFrog, Go
<1>2. /\ DOMAIN stage' = Processes /\ stage'[r] = "loop"
      /\ \A q \in Processes \ {r} : stage'[q] = stage[q]
      /\ \A q \in Processes : (Runs(q)' <=> Runs(q)) /\ Increment(q)' = Increment(q)
  BY <1>1 DEF InStep, TimeTypes, Runs, Increment, Fitted
<1> HIDE DEF Runs, Increment
<1>3. TimeTypes' /\ Placed' /\ Alike'
  BY <1>1, <1>2 DEF InStep, TimeTypes, Placed, Alike
<1>4. Abreast'
  BY <1>1, <1>2 DEF InStep, TimeTypes, Placed, Abreast
<1> QED
  BY <1>3, <1>4 DEF InStep

LEMMA InStepStep == InStep /\ [TimeNext]_timeVars => InStep'
<1> SUFFICES ASSUME InStep, [TimeNext]_timeVars PROVE InStep'
  OBVIOUS
<1>1. ASSUME NEW r \in Processes, LoopHead(r) PROVE InStep'
  BY <1>1, LoopHeadStep
<1>2. ASSUME NEW r \in Processes, Advance(r) PROVE InStep'
  BY <1>2, AdvanceStep
<1>3. ASSUME NEW r \in Processes, LeapFrog(r) PROVE InStep'
  BY <1>3, LeapFrogStep
<1>4. CASE Allreduce
  BY <1>4, AllreduceStep
<1>5. CASE UNCHANGED timeVars
  BY <1>5 DEF timeVars, InStep, TimeTypes, Placed, Abreast, Alike, Runs, Increment, Fitted
<1> QED
  BY <1>1, <1>2, <1>3, <1>4, <1>5 DEF TimeNext, Wait

(* Whatever the first steps, a reduction is of one cycle; ranks that began
   with the same step never differ in time or step within a cycle, and none
   of them is left alone in the reduction by another (lulesh.cc:166-224, 2747). *)
THEOREM LockstepHolds == TimeSpec => []Lockstep
<1>1. InStep => Lockstep
  <2> SUFFICES ASSUME InStep, NEW r \in Processes, NEW q \in Processes
               PROVE  /\ cycle[q] <= cycle[r] + 1
                      /\ stage[r] = "allreduce" /\ stage[q] = "allreduce" => cycle[r] = cycle[q]
                      /\ firstdt[r] = firstdt[q] =>
                           /\ cycle[r] = cycle[q] => time[r] = time[q] /\ dt[r] = dt[q]
                           /\ stage[r] = "out" => stage[q] # "allreduce"
    BY DEF Lockstep
  <2>1. cycle[q] <= cycle[r] + 1
    BY DEF InStep, TimeTypes, Abreast
  <2>2. stage[r] \in {"out", "allreduce"} /\ stage[q] = "allreduce" => cycle[r] = cycle[q]
    BY DEF InStep, TimeTypes, Abreast
  <2>3. firstdt[r] = firstdt[q] /\ cycle[r] = cycle[q] => time[r] = time[q] /\ dt[r] = dt[q]
    BY DEF InStep, Alike
  <2>4. firstdt[r] = firstdt[q] /\ stage[r] = "out" => stage[q] # "allreduce"
    BY <2>2, <2>3 DEF InStep, Placed, Runs
  <2> QED
    BY <2>1, <2>2, <2>3, <2>4
<1> QED
  BY <1>1, InStepInit, InStepStep, PTL DEF TimeSpec

-----------------------------------------------------------------------------
LEMMA HugeType == Huge \in Nat /\ Huge >= 2
BY SMT DEF Huge

(* Min of FiniteSetsExt on limits: one of them, and none is less.          *)
LEMMA LeastLimit ==
  ASSUME NEW S, S \subseteq Nat, S # {}
  PROVE  Min(S) \in S /\ \A x \in S : Min(S) <= x
<1>1. \E x \in S : \A y \in S : x <= y
  BY NatHasLeast
<1> QED
  BY <1>1 DEF Min

(* What the elements leave a rank to bring to the reduction.               *)
LEMMA LimitTypes ==
  /\ \A S \in SUBSET (CourantLimits \cup HydroLimits) : Constraint(S) \in 2..Huge
  /\ \A c, h \in 2..Huge : Offer(c, h) \in 1..Huge
<1>1. ASSUME NEW S \in SUBSET (CourantLimits \cup HydroLimits)
      PROVE  Constraint(S) \in 2..Huge
  <2>1. S \cup {Huge} \subseteq Nat \ {0, 1}
    BY HugeType, TimeAssumption
  <2>2. Min(S \cup {Huge}) \in S \cup {Huge} /\ Min(S \cup {Huge}) <= Huge
    BY <2>1, LeastLimit
  <2> QED
    BY HugeType, <2>1, <2>2 DEF Constraint
<1>2. ASSUME NEW c \in 2..Huge, NEW h \in 2..Huge
      PROVE  Offer(c, h) \in 1..Huge
  <2> DEFINE halved == IF c < Huge THEN c \div 2 ELSE Huge
  <2>1. halved \in 1..Huge
    BY HugeType
  <2>2. (h*2) \div 3 \in 1..Huge
    BY HugeType
  <2>3. Offer(c, h) = IF h < halved THEN (h*2) \div 3 ELSE halved
    BY DEF Offer
  <2> HIDE DEF halved
  <2> QED
    BY <2>1, <2>2, <2>3
<1> QED
  BY <1>1, <1>2

(* A step grows by a fifth and to dtmax at most, and never to nothing.     *)
LEMMA AdjustedType ==
  ASSUME NEW new \in 1..Huge, NEW old \in 1..Huge
  PROVE  Adjusted(new, old) \in 1..Huge
<1> DEFINE held == IF new >= old /\ 10*new < 11*old THEN old
                   ELSE IF 10*new > 12*old THEN (12*old) \div 10
                   ELSE new
<1>1. Huge \in Nat
  BY HugeType
<1>2. held \in Nat \ {0}
  BY <1>1
<1>3. Adjusted(new, old) = IF held > DtMax THEN DtMax ELSE held
  BY DEF Adjusted
<1> HIDE DEF held
<1> QED
  BY <1>1, <1>2, <1>3, TimeAssumption

(* The step that is made: within what is left of the time, and what it
   leaves is nothing or a third of it at least. *)
LEMMA FittedProperties ==
  ASSUME NEW target \in Nat \ {0}, NEW step \in 1..Huge
  PROVE  /\ Fitted(target, step) \in 1..step /\ Fitted(target, step) <= target
         /\ \/ Fitted(target, step) = target
            \/ 3*(target - Fitted(target, step)) >= Fitted(target, step)
<1>1. Huge \in Nat /\ step \in Nat \ {0}
  BY HugeType
<1>2. CASE target > step /\ 3*target < 4*step
  <2>1. /\ (2*step) \div 3 \in Nat /\ 3*((2*step) \div 3) <= 2*step
        /\ 2*step < 3*((2*step) \div 3) + 3
    BY <1>1
  <2>2. (2*step) \div 3 < step /\ step > 3
    BY <1>1, <1>2, <2>1
  <2>3. Fitted(target, step) = (2*step) \div 3
    BY <1>2, <2>2 DEF Fitted
  <2> HIDE DEF Fitted
  <2> QED
    BY <1>1, <1>2, <2>1, <2>2, <2>3
<1>3. CASE ~(target > step /\ 3*target < 4*step)
  BY <1>1, <1>3 DEF Fitted
<1> QED
  BY <1>2, <1>3

InTime == InStep /\ TimeInv

LEMMA TimeInvInit == TimeInit => TimeInv
<1> SUFFICES ASSUME TimeInit PROVE TimeInv
  OBVIOUS
<1>1. Huge \in Nat /\ Huge >= 2
  BY HugeType
<1>2. dt \in [Processes -> 1..Huge] /\ firstdt \in [Processes -> FirstSteps]
  <2>1. firstdt \in [Processes -> FirstSteps] /\ FirstSteps \subseteq 1..Huge /\ dt = firstdt
    BY TimeAssumption DEF TimeInit
  <2> QED
    BY <2>1
<1> QED
  BY <1>1, <1>2, TimeAssumption DEF TimeInit, TimeInv, TimeTypeOK, NoSliver

LEMMA LoopHeadInTime ==
  ASSUME InTime, NEW r \in Processes, LoopHead(r)
  PROVE  TimeInv'
<1>1. /\ UNCHANGED <<time, dt, cycle, dtcourant, dthydro, firstdt>>
      /\ \E to \in {"allreduce", "fit", "out"} : stage' = [stage EXCEPT ![r] = to]
      /\ \/ offered' = offered
         \/ offered' = [offered EXCEPT ![r] = Offer(dtcourant[r], dthydro[r])]
  BY DEF LoopHead, Go
<1>2. Offer(dtcourant[r], dthydro[r]) \in 1..Huge
  BY LimitTypes DEF InTime, TimeInv, TimeTypeOK
<1>3. TimeTypeOK'
  BY <1>1, <1>2 DEF InTime, TimeInv, TimeTypeOK
<1>4. NoSliver'
  BY <1>1 DEF InTime, TimeInv, TimeTypeOK, NoSliver
<1> QED
  BY <1>3, <1>4 DEF TimeInv

LEMMA AllreduceInTime == InTime /\ Allreduce => TimeInv'
<1> SUFFICES ASSUME InTime, Allreduce PROVE TimeInv'
  OBVIOUS
<1> DEFINE least == Min({offered[q] : q \in Processes})
<1>1. least \in 1..Huge
  <2>1. {offered[q] : q \in Processes} \subseteq 1..Huge /\ {offered[q] : q \in Processes} # {}
    BY TimeAssumption DEF InTime, TimeInv, TimeTypeOK
  <2>2. 1..Huge \subseteq Nat
    BY HugeType
  <2> QED
    BY <2>1, <2>2, LeastLimit
<1>2. /\ stage' = [r \in Processes |-> "fit"]
      /\ dt' = [r \in Processes |-> Adjusted(least, dt[r])]
      /\ UNCHANGED <<time, cycle, dtcourant, dthydro, offered, firstdt>>
  BY DEF Allreduce
<1> HIDE DEF least
<1>3. \A r \in Processes : Adjusted(least, dt[r]) \in 1..Huge
  BY <1>1, AdjustedType DEF InTime, TimeInv, TimeTypeOK
<1>4. TimeTypeOK' /\ NoSliver'
  BY <1>2, <1>3 DEF InTime, TimeInv, TimeTypeOK, NoSliver
<1> QED
  BY <1>4 DEF TimeInv

LEMMA AdvanceInTime ==
  ASSUME InTime, NEW r \in Processes, Advance(r)
  PROVE  TimeInv'
<1>1. /\ stage[r] = "fit" /\ stage' = [stage EXCEPT ![r] = "work"]
      /\ dt' = [dt EXCEPT ![r] = Increment(r)]
      /\ time' = [time EXCEPT ![r] = time[r] + Increment(r)]
      /\ cycle' = [cycle EXCEPT ![r] = cycle[r] + 1]
      /\ UNCHANGED <<dtcourant, dthydro, offered, firstdt>>
  BY DEF Advance, Go, Increment
<1>2. /\ time[r] \in Nat /\ time[r] < StopTime /\ cycle[r] \in Nat /\ cycle[r] < Its
      /\ dt[r] \in 1..Huge /\ StopTime \in Nat /\ Its \in Nat /\ Huge \in Nat
  BY <1>1, HugeType, TimeAssumption DEF InTime, InStep, Placed, Runs, TimeInv, TimeTypeOK
<1>3. /\ Increment(r) \in 1..dt[r] /\ Increment(r) <= StopTime - time[r]
      /\ \/ Increment(r) = StopTime - time[r]
         \/ 3*((StopTime - time[r]) - Increment(r)) >= Increment(r)
  <2> DEFINE target == StopTime - time[r]
  <2>1. target \in Nat \ {0}
    BY <1>2
  <2>2. Increment(r) = Fitted(target, dt[r])
    BY DEF Increment
  <2> HIDE DEF target
  <2>3. /\ Fitted(target, dt[r]) \in 1..dt[r] /\ Fitted(target, dt[r]) <= target
        /\ \/ Fitted(target, dt[r]) = target
           \/ 3*(target - Fitted(target, dt[r])) >= Fitted(target, dt[r])
    BY <1>2, <2>1, FittedProperties
  <2> QED
    BY <2>2, <2>3 DEF target
<1> HIDE DEF Increment
<1>4. time[r] + Increment(r) \in 0..StopTime /\ Increment(r) \in 1..Huge /\ cycle[r] + 1 \in 0..Its
  BY <1>2, <1>3
<1>5. TimeTypeOK'
  BY <1>1, <1>4 DEF InTime, TimeInv, TimeTypeOK
<1>6. NoSliver'
  <2> SUFFICES ASSUME NEW q \in Processes, stage'[q] = "work"
               PROVE  time'[q] = StopTime \/ 3*(StopTime - time'[q]) >= dt'[q]
    BY DEF NoSliver
  <2>1. CASE q = r
    <3>1. time'[q] = time[r] + Increment(r) /\ dt'[q] = Increment(r)
      BY <1>1, <2>1 DEF InTime, TimeInv, TimeTypeOK
    <3> QED
      BY <1>2, <1>3, <3>1
  <2>2. CASE q # r
    BY <1>1, <2>2 DEF InTime, TimeInv, TimeTypeOK, NoSliver
  <2> QED
    BY <2>1, <2>2
<1> QED
  BY <1>5, <1>6 DEF TimeInv

LEMMA LeapFrogInTime ==
  ASSUME InTime, NEW r \in Processes, LeapFrog(r)
  PROVE  TimeInv'
<1>1. PICK c \in SUBSET CourantLimits, h \in SUBSET HydroLimits :
        /\ dtcourant' = [dtcourant EXCEPT ![r] = Constraint(c)]
        /\ dthydro' = [dthydro EXCEPT ![r] = Constraint(h)]
  BY DEF LeapFrog
<1>2. Constraint(c) \in 2..Huge /\ Constraint(h) \in 2..Huge
  BY LimitTypes
<1>3. stage' = [stage EXCEPT ![r] = "loop"] /\ UNCHANGED <<time, dt, cycle, offered, firstdt>>
  BY DEF LeapFrog, Go
<1>4. TimeTypeOK'
  BY <1>1, <1>2, <1>3 DEF InTime, TimeInv, TimeTypeOK
<1>5. NoSliver'
  BY <1>3 DEF InTime, TimeInv, TimeTypeOK, NoSliver
<1> QED
  BY <1>4, <1>5 DEF TimeInv

(* The steps of a rank are never nothing, add up to stoptime at most and
   end without a sliver (lulesh.cc:166-224). *)
THEOREM TimeInvHolds == TimeSpec => []TimeInv
<1>1. TimeInit => InTime
  BY InStepInit, TimeInvInit DEF InTime
<1>2. InTime /\ [TimeNext]_timeVars => InTime'
  <2> SUFFICES ASSUME InTime, [TimeNext]_timeVars PROVE TimeInv'
    BY InStepStep DEF InTime
  <2>1. ASSUME NEW r \in Processes, LoopHead(r) PROVE TimeInv'
    BY <2>1, LoopHeadInTime
  <2>2. ASSUME NEW r \in Processes, Advance(r) PROVE TimeInv'
    BY <2>2, AdvanceInTime
  <2>3. ASSUME NEW r \in Processes, LeapFrog(r) PROVE TimeInv'
    BY <2>3, LeapFrogInTime
  <2>4. CASE Allreduce
    BY <2>4, AllreduceInTime
  <2>5. CASE UNCHANGED timeVars
    BY <2>5 DEF timeVars, InTime, TimeInv, TimeTypeOK, NoSliver
  <2> QED
    BY <2>1, <2>2, <2>3, <2>4, <2>5 DEF TimeNext, Wait
<1>3. InTime => TimeInv
  BY DEF InTime
<1> QED
  BY <1>1, <1>2, <1>3, PTL DEF TimeSpec

-----------------------------------------------------------------------------
Regions == 0..numReg - 1

RegTypes ==
  /\ myRank \in Nat /\ numReg \in Nat \ {0}
  /\ drawing \in {"pick", "sets", "fill", "done"} /\ lastReg \in {-1} \cup 1..numReg
  /\ regNumList \in Seq(1..numReg) /\ Len(regNumList) <= NumElem
  /\ drawing # "pick" => Len(regNumList) = NumElem

(* What is given ends with the last region.                                *)
EndsInLast ==
  drawing = "pick" =>
    /\ numReg > 1 /\ (regNumList = << >> <=> lastReg = -1)
    /\ regNumList # << >> => regNumList[Len(regNumList)] = lastReg

Counted(r) == {e \in 0..NumElem - 1 : RegionOf(e) = r}
Given(r) == {e \in 0..filled - 1 : RegionOf(e) = r}

SetsFilled ==
  drawing \in {"fill", "done"} =>
    /\ filled \in 0..NumElem /\ (drawing = "done" => filled = NumElem)
    /\ room = [r \in Regions |-> Cardinality(Counted(r))]
    /\ DOMAIN sets = Regions
    /\ \A r \in Regions :
         /\ sets[r] \in Seq(Nat)
         /\ ToSet(sets[r]) = Given(r) /\ Len(sets[r]) = Cardinality(Given(r))

RegionsIInv == RegTypes /\ EndsInLast /\ StretchesAreRuns /\ SetsFilled

(* The number drawn is that of a region.                                   *)
LEMMA DrawnType == ASSUME RegTypes PROVE Drawn \subseteq 1..numReg
<1>1. ASSUME NEW i \in Nat PROVE Rotated(i) \in 1..numReg
  <2>1. i + myRank \in Nat /\ numReg \in Nat \ {0}
    BY DEF RegTypes
  <2>2. (i + myRank) % numReg \in 0..numReg - 1
    BY <2>1
  <2> QED
    BY <2>1, <2>2 DEF Rotated
<1>2. 0..numReg - 1 \subseteq Nat
  BY DEF RegTypes
<1> QED
  BY <1>1, <1>2 DEF Drawn

(* The list of numbers with a run added, cut off at the last element.      *)
LEMMA TakeProperties ==
  ASSUME RegTypes, NEW region \in 1..numReg, NEW n \in Nat
  PROVE  /\ Take(region, n) \in Seq(1..numReg)
         /\ Len(Take(region, n)) = IF Len(regNumList) + n <= NumElem THEN Len(regNumList) + n ELSE NumElem
         /\ \A k \in 1..Len(Take(region, n)) :
              Take(region, n)[k] = IF k <= Len(regNumList) THEN regNumList[k] ELSE region
<1> DEFINE added == [i \in 1..n |-> region]
<1> DEFINE run == regNumList \o added
<1>0. Len(regNumList) \in Nat /\ NumElem \in Nat /\ Len(regNumList) <= NumElem
  BY LenProperties, RegionsAssumption DEF RegTypes
<1>1. added \in Seq(1..numReg) /\ Len(added) = n /\ \A k \in 1..n : added[k] = region
  OBVIOUS
<1> HIDE DEF added
<1>2. /\ run \in Seq(1..numReg) /\ Len(run) = Len(regNumList) + n
      /\ \A k \in 1..Len(regNumList) + n :
           run[k] = IF k <= Len(regNumList) THEN regNumList[k] ELSE region
  <2>1. /\ run \in Seq(1..numReg) /\ Len(run) = Len(regNumList) + n
        /\ \A k \in 1..Len(regNumList) + n :
             run[k] = IF k <= Len(regNumList) THEN regNumList[k] ELSE added[k - Len(regNumList)]
    BY <1>1, ConcatProperties DEF RegTypes
  <2>2. \A k \in 1..Len(regNumList) + n :
          ~(k <= Len(regNumList)) => added[k - Len(regNumList)] = region
    BY <1>0, <1>1
  <2> HIDE DEF run
  <2> QED
    BY <2>1, <2>2
<1>3. Take(region, n) = IF Len(run) <= NumElem THEN run ELSE SubSeq(run, 1, NumElem)
  BY DEF Take, added
<1> HIDE DEF run
<1>4. CASE Len(run) <= NumElem
  BY <1>0, <1>2, <1>3, <1>4
<1>5. CASE Len(run) > NumElem
  <2>0. NumElem < Len(run) /\ Len(run) = Len(regNumList) + n
    BY <1>0, <1>2, <1>5
  <2>1. ASSUME NEW k \in 1..NumElem PROVE run[k] \in 1..numReg
    <3>1. k \in 1..Len(run)
      BY <1>0, <2>0
    <3> QED
      BY <1>2, <3>1, ElementOfSeq
  <2>2. /\ SubSeq(run, 1, NumElem) \in Seq(1..numReg)
        /\ Len(SubSeq(run, 1, NumElem)) = NumElem
        /\ \A k \in 1..NumElem : SubSeq(run, 1, NumElem)[k] = run[k]
    BY <1>0, <2>1, SubSeqProperties
  <2>3. Take(region, n) = SubSeq(run, 1, NumElem) /\ ~(Len(regNumList) + n <= NumElem)
    BY <1>0, <1>3, <2>0
  <2>4. ASSUME NEW k \in 1..NumElem
        PROVE  SubSeq(run, 1, NumElem)[k] = IF k <= Len(regNumList) THEN regNumList[k] ELSE region
    <3>1. k \in 1..Len(regNumList) + n
      BY <1>0, <2>0
    <3> QED
      BY <1>2, <2>2, <3>1
  <2> QED
    BY <2>2, <2>3, <2>4
<1> QED
  BY <1>0, <1>2, <1>4, <1>5

LEMMA RegionsInit == RegInit => RegionsIInv
<1> SUFFICES ASSUME RegInit PROVE RegionsIInv
  OBVIOUS
<1>1. /\ myRank \in Nat /\ numReg \in Nat \ {0} /\ NumElem \in Nat \ {0}
      /\ lastReg = -1
  BY RegionsAssumption DEF RegInit
<1>2. CASE numReg = 1
  <2>1. drawing = "sets" /\ regNumList = [e \in 1..NumElem |-> 1]
    BY <1>2 DEF RegInit
  <2>2. regNumList \in Seq(1..numReg) /\ Len(regNumList) = NumElem
    BY <1>1, <1>2, <2>1
  <2> QED
    BY <1>1, <1>2, <2>1, <2>2 DEF RegionsIInv, RegTypes, EndsInLast, StretchesAreRuns, SetsFilled
<1>3. CASE numReg # 1
  <2>1. drawing = "pick" /\ regNumList = << >>
    BY <1>3 DEF RegInit
  <2>2. regNumList \in Seq(1..numReg) /\ Len(regNumList) = 0
    BY <2>1, EmptySeq
  <2>3. StretchesAreRuns
    BY <2>2 DEF StretchesAreRuns
  <2> QED
    BY <1>1, <1>3, <2>1, <2>2, <2>3 DEF RegionsIInv, RegTypes, EndsInLast, SetsFilled
<1> QED
  BY <1>2, <1>3

(* A stretch that reaches into the new run starts there, for the run before
   is of another region. *)
LEMMA PickStep == RegionsIInv /\ Pick => RegionsIInv'
<1> SUFFICES ASSUME RegionsIInv, Pick PROVE RegionsIInv'
  OBVIOUS
<1> USE DEF RegionsIInv
<1>1. PICK region \in Drawn \ {lastReg}, n \in RunLengths :
        regNumList' = Take(region, n) /\ lastReg' = region
  BY DEF Pick
<1>2. /\ drawing = "pick" /\ Len(regNumList) < NumElem
      /\ UNCHANGED <<myRank, numReg, balance, drawing, room, sets, filled>>
  BY DEF Pick
<1> DEFINE old == Len(regNumList)
<1> DEFINE new == Len(regNumList')
<1>3. region \in 1..numReg /\ region # lastReg /\ n \in Nat \ {0} /\ NumElem \in Nat
  BY DrawnType, RegionsAssumption
<1>4. /\ regNumList' \in Seq(1..numReg) /\ old \in Nat
      /\ new = IF old + n <= NumElem THEN old + n ELSE NumElem
      /\ \A k \in 1..new : regNumList'[k] = IF k <= old THEN regNumList[k] ELSE region
  BY <1>1, <1>3, TakeProperties, LenProperties DEF RegTypes
<1>5. new \in Nat /\ old < new /\ new <= NumElem /\ new <= old + n
  BY <1>2, <1>3, <1>4
<1>6. old # 0 => regNumList[old] = lastReg
  BY <1>2, EmptySeq DEF RegTypes, EndsInLast
<1> HIDE DEF old, new
<1>7. RegTypes'
  BY <1>1, <1>2, <1>3, <1>4, <1>5 DEF RegTypes, new
<1>8. EndsInLast'
  <2>1. regNumList' # << >>
    BY <1>5, <1>4, EmptySeq DEF new
  <2>2. regNumList'[new] = region
    BY <1>4, <1>5
  <2> QED
    BY <1>1, <1>2, <1>3, <2>1, <2>2 DEF EndsInLast, new
<1>9. StretchesAreRuns'
  <2> SUFFICES ASSUME NEW i \in 1..new, NEW j \in 1..new,
                      \A k \in i..j : regNumList'[k] = regNumList'[i]
               PROVE  \E m \in RunLengths : j - i + 1 <= m
    BY DEF StretchesAreRuns, new
  <2>1. CASE j <= old
    <3>1. CASE i <= old
      <4>1. i \in 1..old /\ j \in 1..old
        BY <1>4, <1>5, <2>1, <3>1
      <4>2. \A k \in i..j : regNumList[k] = regNumList[i]
        BY <1>4, <1>5, <2>1, <4>1
      <4>3. numReg > 1
        BY <1>2 DEF EndsInLast
      <4> QED
        BY <4>1, <4>2, <4>3 DEF StretchesAreRuns, old
    <3>2. CASE i > old
      BY <1>3, <1>4, <1>5, <2>1, <3>2
    <3> QED
      BY <1>4, <1>5, <3>1, <3>2
  <2>2. CASE j > old
    <3>1. i > old
      <4> SUFFICES ASSUME i <= old PROVE FALSE
        BY <1>4, <1>5
      <4>1. old \in i..j /\ old + 1 \in i..j /\ old # 0
        BY <1>4, <1>5, <2>2
      <4>2. regNumList'[old] = regNumList'[old + 1]
        BY <4>1
      <4>3. regNumList'[old] = lastReg /\ regNumList'[old + 1] = region
        BY <1>4, <1>5, <1>6, <4>1
      <4> QED
        BY <1>3, <4>2, <4>3
    <3>2. j - i + 1 <= n
      BY <1>3, <1>4, <1>5, <2>2, <3>1
    <3> QED
      BY <3>2
  <2> QED
    BY <1>4, <1>5, <2>1, <2>2
<1>10. SetsFilled'
  BY <1>2 DEF SetsFilled
<1> QED
  BY <1>7, <1>8, <1>9, <1>10

LEMMA CountStep == RegionsIInv /\ CountRegions => RegionsIInv'
<1> SUFFICES ASSUME RegionsIInv, CountRegions PROVE RegionsIInv'
  OBVIOUS
<1> USE DEF RegionsIInv
<1>1. /\ drawing = "sets" /\ drawing' = "fill" /\ filled' = 0
      /\ UNCHANGED <<myRank, numReg, balance, regNumList, lastReg>>
      /\ sets' = [r \in Regions |-> << >>]
      /\ room' = [r \in Regions |-> Cardinality({e \in 0..NumElem - 1 : RegionOf(e) = r})]
  BY DEF CountRegions, Regions
<1>2. RegTypes' /\ EndsInLast' /\ StretchesAreRuns'
  BY <1>1 DEF RegTypes, EndsInLast, StretchesAreRuns
<1>3. \A r : Counted(r)' = {e \in 0..NumElem - 1 : RegionOf(e) = r}
  BY <1>1 DEF Counted, RegionOf
<1>4. \A r : Given(r)' = {}
  BY <1>1 DEF Given
<1>5. /\ << >> \in Seq(Nat) /\ ToSet(<< >>) = {} /\ Len(<< >>) = 0 /\ Cardinality({}) = 0
  BY EmptySeq, FS_EmptySet DEF ToSet
<1>6. Regions' = Regions /\ NumElem \in Nat /\ 0 \in 0..NumElem
  BY <1>1, RegionsAssumption DEF Regions
<1> HIDE DEF Regions, Counted, Given
<1>7. SetsFilled'
  BY <1>1, <1>3, <1>4, <1>5, <1>6 DEF SetsFilled
<1> QED
  BY <1>2, <1>7

LEMMA GivenFinite ==
  ASSUME RegTypes, filled \in 0..NumElem, NEW r
  PROVE  /\ IsFiniteSet(Given(r)) /\ IsFiniteSet(Counted(r)) /\ Given(r) \subseteq Counted(r)
         /\ Cardinality(Given(r)) \in Nat /\ Cardinality(Counted(r)) \in Nat
         /\ Cardinality(Given(r)) <= Cardinality(Counted(r))
<1>1. IsFiniteSet(0..NumElem - 1)
  BY FS_Interval, RegionsAssumption
<1>2. Counted(r) \in SUBSET (0..NumElem - 1)
  BY DEF Counted
<1>3. IsFiniteSet(Counted(r))
  BY <1>1, <1>2, FS_Subset
<1>4. Given(r) \in SUBSET Counted(r)
  BY RegionsAssumption DEF Given, Counted
<1> QED
  BY <1>3, <1>4, FS_Subset, FS_CardinalityType

(* One element more, in the set of its region and no other.                *)
LEMMA FillStep == RegionsIInv /\ FillSets => RegionsIInv'
<1> SUFFICES ASSUME RegionsIInv, FillSets PROVE RegionsIInv'
  OBVIOUS
<1> USE DEF RegionsIInv
<1>1. /\ drawing = "fill"
      /\ UNCHANGED <<myRank, numReg, balance, regNumList, lastReg, room>>
  BY DEF FillSets
<1>2. /\ drawing' \in {"fill", "done"} /\ RegTypes' /\ EndsInLast' /\ StretchesAreRuns'
  BY <1>1 DEF FillSets, RegTypes, EndsInLast, StretchesAreRuns
<1>3. /\ Regions' = Regions /\ \A r : Counted(r)' = Counted(r)
  BY <1>1 DEF Regions, Counted, RegionOf
<1>4. CASE filled < NumElem
  <2>3. PICK own \in Regions : own = RegionOf(filled)
    <3>0. filled \in Nat /\ NumElem \in Nat
      BY <1>1, RegionsAssumption DEF SetsFilled
    <3>1. filled + 1 \in 1..Len(regNumList)
      BY <1>1, <1>4, <3>0 DEF RegTypes
    <3>2. regNumList[filled + 1] \in 1..numReg
      BY <3>1, ElementOfSeq DEF RegTypes
    <3> QED
      BY <3>2 DEF RegionOf, Regions, RegTypes
  <2>1. /\ sets' = [sets EXCEPT ![own] = Append(@, filled)]
        /\ filled' = filled + 1 /\ drawing' = "fill"
    BY <1>1, <1>4, <2>3 DEF FillSets
  <2>2. /\ filled \in Nat /\ NumElem \in Nat /\ filled + 1 \in 0..NumElem
    BY <1>1, <1>4, RegionsAssumption DEF SetsFilled
  <2>4. /\ Given(own)' = Given(own) \cup {filled} /\ filled \notin Given(own)
        /\ \A r : r # own => Given(r)' = Given(r)
    BY <1>1, <2>1, <2>2, <2>3 DEF Given, RegionOf
  <2>5. /\ DOMAIN sets' = Regions
        /\ sets'[own] = Append(sets[own], filled)
        /\ \A r \in Regions \ {own} : sets'[r] = sets[r]
    BY <1>1, <2>1, <2>3 DEF SetsFilled
  <2>6. /\ sets'[own] \in Seq(Nat) /\ ToSet(sets'[own]) = Given(own)'
        /\ Len(sets'[own]) = Cardinality(Given(own)')
    <3>1. sets[own] \in Seq(Nat) /\ ToSet(sets[own]) = Given(own) /\ Len(sets[own]) = Cardinality(Given(own))
      BY <1>1, <2>3 DEF SetsFilled
    <3>2. /\ Append(sets[own], filled) \in Seq(Nat)
          /\ ToSet(Append(sets[own], filled)) = ToSet(sets[own]) \cup {filled}
      BY <2>2, <3>1, AppendSet
    <3>3. Len(Append(sets[own], filled)) = Len(sets[own]) + 1
      BY <2>2, <3>1, AppendProperties
    <3>4. IsFiniteSet(Given(own))
      BY <1>1, GivenFinite DEF SetsFilled
    <3>5. Cardinality(Given(own) \cup {filled}) = Cardinality(Given(own)) + 1
      BY <2>4, <3>4, FS_AddElement
    <3> QED
      BY <2>4, <2>5, <3>1, <3>2, <3>3, <3>5
  <2>7. ASSUME NEW r \in Regions \ {own}
        PROVE  sets'[r] \in Seq(Nat) /\ ToSet(sets'[r]) = Given(r)' /\ Len(sets'[r]) = Cardinality(Given(r)')
    BY <1>1, <2>4, <2>5 DEF SetsFilled
  <2>8. /\ filled' \in 0..NumElem /\ drawing' # "done"
        /\ room' = [r \in Regions |-> Cardinality(Counted(r))]
    BY <1>1, <2>1, <2>2 DEF SetsFilled
  <2> HIDE DEF Regions, Counted, Given
  <2>9. \A r \in Regions : sets'[r] \in Seq(Nat) /\ ToSet(sets'[r]) = Given(r)' /\ Len(sets'[r]) = Cardinality(Given(r)')
    BY <2>6, <2>7
  <2>10. room' = [r \in Regions' |-> Cardinality(Counted(r)')]
    BY <1>3, <2>8
  <2> HIDE DEF RegionsIInv
  <2>11. SetsFilled'
    BY <1>3, <2>1, <2>5, <2>8, <2>9, <2>10 DEF SetsFilled
  <2> QED
    BY <1>2, <2>11 DEF RegionsIInv
<1>5. CASE ~(filled < NumElem)
  <2>1. drawing' = "done" /\ UNCHANGED <<sets, filled>> /\ filled = NumElem
    BY <1>1, <1>5, RegionsAssumption DEF FillSets, SetsFilled
  <2>2. \A r : Given(r)' = Given(r)
    BY <1>1, <2>1 DEF Given, RegionOf
  <2> HIDE DEF Regions, Counted, Given
  <2>3. SetsFilled'
    BY <1>1, <1>3, <2>1, <2>2 DEF SetsFilled
  <2> QED
    BY <1>2, <2>3
<1> QED
  BY <1>4, <1>5

LEMMA RegionsStep == RegionsIInv /\ [RegNext]_regVars => RegionsIInv'
<1> SUFFICES ASSUME RegionsIInv, [RegNext]_regVars PROVE RegionsIInv'
  OBVIOUS
<1>1. CASE Pick
  BY <1>1, PickStep
<1>2. CASE Assigned
  BY <1>2 DEF Assigned, RegionsIInv, RegTypes, EndsInLast, StretchesAreRuns, SetsFilled
<1>3. CASE CountRegions
  BY <1>3, CountStep
<1>4. CASE FillSets
  BY <1>4, FillStep
<1>5. CASE UNCHANGED regVars
  BY <1>5 DEF regVars, RegionsIInv, RegTypes, EndsInLast, StretchesAreRuns, SetsFilled,
              Regions, Counted, Given, RegionOf
<1> QED
  BY <1>1, <1>2, <1>3, <1>4, <1>5 DEF RegNext, Redraw, RegDone

LEMMA RegionsIInvHolds == RegSpec => []RegionsIInv
BY RegionsInit, RegionsStep, PTL DEF RegSpec

(* The least number of regions with a very expensive one is five.          *)
LEMMA RepOrder == ASSUME RegTypes PROVE ExpensiveFromFive
<1>1. SUFFICES ASSUME NEW c \in 0..2
      PROVE  /\ \A r \in 0..numReg - 1, q \in 0..numReg - 1 : r <= q => Rep(r, numReg, c) <= Rep(q, numReg, c)
             /\ (Rep(numReg - 1, numReg, c) = 10*(1 + c)) <=> numReg >= 5
  BY DEF ExpensiveFromFive
<1> DEFINE half == numReg \div 2
<1> DEFINE top == (numReg + 15) \div 20
<1>2. numReg \in Nat \ {0}
  BY DEF RegTypes
<1>3. /\ half \in Nat /\ 2*half <= numReg /\ numReg < 2*half + 2
      /\ top \in Nat /\ 20*top <= numReg + 15 /\ numReg + 15 < 20*top + 20
  BY <1>2
<1>4. \A r : Rep(r, numReg, c) = IF r < half THEN 1 ELSE IF r < numReg - top THEN 1 + c ELSE 10*(1 + c)
  BY DEF Rep
<1> HIDE DEF half, top
<1>5. \A r \in 0..numReg - 1, q \in 0..numReg - 1 : r <= q => Rep(r, numReg, c) <= Rep(q, numReg, c)
  BY <1>2, <1>3, <1>4
<1>6. (Rep(numReg - 1, numReg, c) = 10*(1 + c)) <=> numReg >= 5
  BY <1>2, <1>3, <1>4
<1> QED
  BY <1>5, <1>6

(* The regions of a rank, for every sequence of draws: no element is left
   out or written past the end of an index set, and a stretch is a run
   (lulesh-init.cc:401-510). *)
THEOREM RegionInvHolds == RegSpec => []RegionInv
<1>1. RegionsIInv => RegionInv
  <2> SUFFICES ASSUME RegionsIInv PROVE RegionInv
    OBVIOUS
  <2> USE DEF RegionsIInv
  <2>1. RegTypeOK
    <3>1. ToSet(regNumList) \subseteq 1..numReg
      BY ElementOfSeq, LenProperties DEF RegTypes, ToSet
    <3> QED
      BY <3>1 DEF RegTypes, RegTypeOK
  <2>2. SetsPartition
    <3> SUFFICES ASSUME drawing \in {"fill", "done"} PROVE SetsPartition
      BY DEF SetsPartition
    <3>1. \A r \in Regions : Len(sets[r]) <= room[r]
      BY GivenFinite DEF SetsFilled
    <3>2. CASE drawing = "done"
      <4>1. filled = NumElem /\ \A r \in Regions : Given(r) = Counted(r)
        BY <3>2 DEF SetsFilled, Given, Counted
      <4>2. \A r \in Regions : Len(sets[r]) = room[r] /\ Len(sets[r]) = Cardinality(ToSet(sets[r]))
        BY <4>1 DEF SetsFilled
      <4>3. \A r \in Regions : ToSet(sets[r]) = Counted(r)
        BY <4>1 DEF SetsFilled
      <4>4. ASSUME NEW e \in 0..NumElem - 1 PROVE \E r \in Regions : e \in Counted(r)
        <5>1. e + 1 \in 1..Len(regNumList)
          BY <3>2, RegionsAssumption DEF RegTypes
        <5>2. regNumList[e + 1] \in 1..numReg
          BY <5>1, ElementOfSeq DEF RegTypes
        <5>3. RegionOf(e) \in Regions
          BY <5>2 DEF RegionOf, Regions, RegTypes
        <5> QED
          BY <5>3 DEF Counted
      <4>5. UNION {ToSet(sets[r]) : r \in Regions} = 0..NumElem - 1
        BY <4>3, <4>4 DEF Counted
      <4>6. \A r, q \in Regions : r # q => ToSet(sets[r]) \cap ToSet(sets[q]) = {}
        BY <4>3 DEF Counted
      <4> QED
        BY <3>1, <4>2, <4>5, <4>6 DEF SetsPartition, Regions
    <3>3. CASE drawing # "done"
      BY <3>1, <3>3 DEF SetsPartition, Regions
    <3> QED
      BY <3>2, <3>3
  <2>3. ExpensiveFromFive
    BY RepOrder
  <2> QED
    BY <2>1, <2>2, <2>3 DEF RegionInv
<1> QED
  BY <1>1, RegionsIInvHolds, PTL
=============================================================================
