---------------------------- MODULE HaloExchange ----------------------------
(***************************************************************************)
(* The ranks of examples/lulesh as MPI processes: from the exchange of the *)
(* nodal masses to MPI_Finalize every rank runs one script of exchanges    *)
(* and collective calls, at its own pace.  An exchange is CommRecv (post   *)
(* receives), CommSend (post sends, then wait for them) and an unpacking   *)
(* function (wait for the receives).  Which ranks talk in an exchange is a *)
(* parameter; LuleshComm shows that its three sides agree.                 *)
(*                                                                         *)
(* MPI is external: messages of one sender, receiver and tag do not        *)
(* overtake each other, and a send completes when the receive it goes to   *)
(* is posted, or at once if MPI buffers it, on which nothing may depend.   *)
(***************************************************************************)
EXTENDS Integers, Sequences, FiniteSets

CONSTANTS
  Ranks,       \* the MPI processes
  Root,        \* the rank MPI_Reduce collects at
  Script,      \* exchanges and collective calls in program order
  Posts,       \* [exchange -> [rank -> ranks CommRecv posts a receive for]]
  Sends,       \* [exchange -> [rank -> ranks CommSend sends to]]
  Unpacks,     \* [exchange -> [rank -> ranks the unpacking function waits for]]
  Bufferings   \* the sets of exchanges whose messages MPI may buffer

Exchanges == {"mass", "force", "posVel", "monoQ"}
Collectives == {"barrier", "allreduce", "reduce"}

ASSUME ScriptAssumption ==
  /\ Script \in Seq(Exchanges \cup Collectives)
  /\ Root \in Ranks /\ Bufferings \subseteq SUBSET Exchanges

ASSUME PeersAssumption ==
  \A e \in Exchanges, r \in Ranks :
    /\ Posts[e][r] \subseteq Ranks /\ Sends[e][r] \subseteq Ranks
    /\ Unpacks[e][r] = Posts[e][r]
    /\ \A q \in Ranks : q \in Posts[e][r] <=> r \in Sends[e][q]

VARIABLES
  buffered,   \* the exchanges whose sends complete at once
  at,         \* how far in the script a rank is
  phase,      \* where in the exchange or collective call it is
  pend,       \* recvRequest: the ranks it has a receive pending from
  net,        \* messages sent and not yet received
  aborted     \* MPI_Abort was called

haloVars == <<buffered, at, phase, pend, net, aborted>>

Finished(r) == at[r] = Len(Script) + 1
Doing(r) == Script[at[r]]
In(r, kinds, ph) == ~aborted /\ ~Finished(r) /\ Doing(r) \in kinds /\ phase[r] = ph

Tag(e) == IF e \in {"mass", "force"} THEN "SBN" ELSE e

(* The messages a receive by r from q in this exchange could match, and    *)
(* the one it does match: the first sent.                                  *)
Matching(q, r, e) == {m \in net : m.from = q /\ m.to = r /\ Tag(Script[m.round]) = Tag(e)}
First(ms) == CHOOSE m \in ms : \A o \in ms : m.round <= o.round
-----------------------------------------------------------------------------
HaloInit ==
  /\ buffered \in Bufferings
  /\ at = [r \in Ranks |-> 1] /\ phase = [r \in Ranks |-> "post"]
  /\ pend = [r \in Ranks |-> {}] /\ net = {} /\ aborted = FALSE

Next_(r) ==   \* on to the next call of the script
  at' = [at EXCEPT ![r] = @ + 1] /\ phase' = [phase EXCEPT ![r] = "post"]

(* Every entry of recvRequest is reset, then the receives are posted.      *)
CommRecv(r) ==
  /\ In(r, Exchanges, "post")
  /\ pend' = [pend EXCEPT ![r] = Posts[Doing(r)][r]]
  /\ phase' = [phase EXCEPT ![r] = "compute"]
  /\ UNCHANGED <<buffered, at, net, aborted>>

CommSend(r) ==
  /\ In(r, Exchanges, "compute")
  /\ net' = net \cup {[from |-> r, to |-> q, round |-> at[r]] : q \in Sends[Doing(r)][r]}
  /\ phase' = [phase EXCEPT ![r] = "flush"]
  /\ UNCHANGED <<buffered, at, pend, aborted>>

(* The message has met its receive: it was received, or is the first its   *)
(* receiver's pending receive matches.                                     *)
Met(m) ==
  \/ m \notin net
  \/ /\ m.from \in pend[m.to]
     /\ Tag(Doing(m.to)) = Tag(Script[m.round])
     /\ m = First(Matching(m.from, m.to, Doing(m.to)))

(* MPI_Waitall at the end of CommSend.                                     *)
Waitall(r) ==
  /\ In(r, Exchanges, "flush")
  /\ \/ Doing(r) \in buffered
     \/ \A q \in Sends[Doing(r)][r] : Met([from |-> r, to |-> q, round |-> at[r]])
  /\ phase' = [phase EXCEPT ![r] = "unpack"]
  /\ UNCHANGED <<buffered, at, pend, net, aborted>>

\* mutant: MPI_Wait is forgotten for the message of one rank
Unpack_OneForgotten(r) ==
  /\ In(r, Exchanges, "unpack")
  /\ LET awaited == Unpacks[Doing(r)][r] \ {Root}
         Ms(q) == Matching(q, r, Doing(r))
     IN /\ \A q \in awaited : Ms(q) # {}
        /\ net' = net \ {First(Ms(q)) : q \in awaited}
        /\ pend' = [pend EXCEPT ![r] = @ \ awaited]
  /\ Next_(r)
  /\ UNCHANGED <<buffered, aborted>>

\* mutant: the unpacking function waits for every neighbour
Unpack_DoRecv(r) ==
  /\ In(r, Exchanges, "unpack")
  /\ LET awaited == Unpacks[Doing(r)][r] \cup Sends[Doing(r)][r]
         Ms(q) == Matching(q, r, Doing(r))
     IN /\ \A q \in awaited : Ms(q) # {}
        /\ net' = net \ {First(Ms(q)) : q \in awaited}
        /\ pend' = [pend EXCEPT ![r] = @ \ awaited]
  /\ Next_(r)
  /\ UNCHANGED <<buffered, aborted>>

(* CommSBN, CommSyncPosVel, CommMonoQ: they wait for message after         *)
(* message; what they do between two waits concerns this rank only.        *)
Unpack(r) ==
  /\ In(r, Exchanges, "unpack")
  /\ LET awaited == Unpacks[Doing(r)][r]
         Ms(q) == Matching(q, r, Doing(r))
     IN /\ \A q \in awaited : Ms(q) # {}
        /\ net' = net \ {First(Ms(q)) : q \in awaited}
        /\ pend' = [pend EXCEPT ![r] = @ \ awaited]
  /\ Next_(r)
  /\ UNCHANGED <<buffered, aborted>>

Enter(r) ==
  /\ In(r, Collectives, "post")
  /\ phase' = [phase EXCEPT ![r] = "inside"]
  /\ UNCHANGED <<buffered, at, pend, net, aborted>>

(* A rank leaves MPI_Barrier and MPI_Allreduce when all have entered;      *)
(* MPI_Reduce makes only the root wait.                                    *)
Leave(r) ==
  /\ In(r, Collectives, "inside")
  /\ \/ Doing(r) = "reduce" /\ r # Root
     \/ \A q \in Ranks : at[q] > at[r] \/ (at[q] = at[r] /\ phase[q] = "inside")
  /\ Next_(r)
  /\ UNCHANGED <<buffered, pend, net, aborted>>

(* A negative volume while forces (or, before the gradients, volumes) are  *)
(* computed, or too much viscosity afterwards: MPI_Abort ends every rank.  *)
Abort(r) ==
  /\ \/ In(r, {"force"}, "compute")
     \/ In(r, {"monoQ"}, "post")
     \/ ~aborted /\ phase[r] = "post" /\ at[r] - 1 \in DOMAIN Script /\ Script[at[r] - 1] = "monoQ"
  /\ aborted' = TRUE
  /\ UNCHANGED <<buffered, at, phase, pend, net>>

(* A rank that waits polls, and ranks that are done do nothing: ranks in   *)
(* each other's way show as EveryRankFinishes violated.                    *)
Poll == UNCHANGED haloVars

Step(r) == CommRecv(r) \/ CommSend(r) \/ Waitall(r) \/ Unpack(r) \/ Enter(r) \/ Leave(r)

HaloNext == (\E r \in Ranks : Step(r) \/ Abort(r)) \/ Poll

(* Every rank is a process of its own that keeps running.                  *)
HaloSpec ==
  HaloInit /\ [][HaloNext]_haloVars /\ \A r \in Ranks : WF_haloVars(Step(r))
-----------------------------------------------------------------------------
Rounds == DOMAIN Script

(* Type correctness: in an exchange no message goes to a rank that does    *)
(* not await one.                                                          *)
HaloTypeOK ==
  /\ buffered \subseteq Exchanges /\ aborted \in BOOLEAN
  /\ at \in [Ranks -> 1..Len(Script) + 1]
  /\ phase \in [Ranks -> {"post", "compute", "flush", "unpack", "inside"}]
  /\ pend \in [Ranks -> SUBSET Ranks]
  /\ net \subseteq [from : Ranks, to : Ranks, round : Rounds]
  /\ \A m \in net : Script[m.round] \in Exchanges /\ m.to \in Sends[Script[m.round]][m.from]

(* However far ahead a sender is, the message a rank takes from it was     *)
(* packed in the same exchange of the same cycle: the nodal masses and the *)
(* forces share one tag, and so do the exchanges of different cycles.      *)
OwnRound ==
  \A r \in Ranks : ~Finished(r) /\ Doing(r) \in Exchanges =>
    \A q \in Posts[Doing(r)][r] :
      LET ms == Matching(q, r, Doing(r))
      IN ms # {} => First(ms).round = at[r]

(* CommRecv resets the request array, and no request is lost by it: when   *)
(* it is called nothing is pending, and nothing when the program ends.     *)
NoRequestLost ==
  \A r \in Ranks : phase[r] \in {"post", "inside"} => pend[r] = {}

(* When MPI_Finalize is reached everywhere no message is left over.        *)
NothingLeft == (\A r \in Ranks : Finished(r)) => net = {}

(* The four together: every message of a run reaches the receive that was  *)
(* posted for it, and no other.                                            *)
HaloSafe == HaloTypeOK /\ OwnRound /\ NoRequestLost /\ NothingLeft

(* Ranks that run the same script are never in each other's way: whatever  *)
(* MPI buffers, every rank reaches MPI_Finalize unless one aborts.         *)
EveryRankFinishes == <>(aborted \/ \A r \in Ranks : Finished(r))
=============================================================================
