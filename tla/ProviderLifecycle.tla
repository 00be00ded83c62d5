------------------------- MODULE ProviderLifecycle --------------------------
(***************************************************************************)
(* The life of providers in a server process (src/src/provider.c,          *)
(* src/src/bedrock-module.c): registration of their two RPCs, the finalize *)
(* callback that margo keeps for them, and explicit destruction, in any    *)
(* order.                                                                  *)
(*                                                                         *)
(* External: margo's tables of RPCs and of finalize callbacks, which it    *)
(* runs last in, first out, when the process calls margo_finalize.         *)
(***************************************************************************)
EXTENDS Integers, FiniteSets, SequencesExt

CONSTANTS
  Ids,          \* provider ids
  Blocks,       \* heap blocks for symbiomon_provider structures
  Null,         \* no provider
  MaxRegister,  \* bound: providers registered in one behaviour
  MaxMetrics    \* bound: metrics in a provider

ASSUME NullAssumption == Null \notin Blocks
ASSUME MetricsAssumption == MaxMetrics \in Nat

VARIABLES
  mid,        \* the margo instance: running, finalizing, finalized or crashed
  listening,  \* margo_is_listening: it was started as a server
  provider,   \* per block: the symbiomon_provider in it
  live,       \* the allocated blocks
  rpc,        \* per RPC name and provider id: the registered data
  callbacks,  \* margo's stack of finalize callbacks, by owner
  given,      \* blocks whose pointer register handed to the program (history)
  registers   \* registrations so far (history)

lifeVars == <<mid, listening, provider, live, rpc, callbacks, given, registers>>

RPCs == {"symbiomon_remote_metric_fetch", "symbiomon_remote_list_metrics"}
Registrations == RPCs \X Ids

Calloced == [provider_id |-> Null, num_metrics |-> 0, push |-> FALSE]

LifeInit ==
  /\ mid = "running"
  /\ listening \in BOOLEAN
  /\ provider = [b \in Blocks |-> Calloced]
  /\ live = {}
  /\ rpc = [r \in Registrations |-> Null]
  /\ callbacks = << >>
  /\ given = {}
  /\ registers = 0

-----------------------------------------------------------------------------
(***************************************************************************)
(* symbiomon_provider_register.  Refused when margo does not listen        *)
(* (INVALID_ARGS) and when the fetch RPC of that id exists                 *)
(* (INVALID_PROVIDER), changing nothing.  push is push_finalize_callback   *)
(* of the arguments, keep says that the last argument is not               *)
(* SYMBIOMON_PROVIDER_IGNORE: the two are independent.                     *)
(***************************************************************************)
MayRegister(id) ==
  /\ listening
  /\ rpc[<<"symbiomon_remote_metric_fetch", id>>] = Null

Register(id, push, keep) ==
  /\ mid = "running"
  /\ registers < MaxRegister
  /\ MayRegister(id)
  /\ \E b \in Blocks \ live :
       /\ live' = live \cup {b}
       /\ provider' = [provider EXCEPT ![b] =
                         [provider_id |-> id, num_metrics |-> 0, push |-> push]]
       /\ rpc' = [r \in Registrations |-> IF r[2] = id THEN b ELSE rpc[r]]
       /\ callbacks' = IF push THEN Append(callbacks, b) ELSE callbacks
       /\ given' = IF keep THEN given \cup {b} ELSE given \ {b}
  /\ registers' = registers + 1
  /\ UNCHANGED <<mid, listening>>

(* symbiomon_register_provider of the bedrock module: zeroed arguments, so no
   callback, and the pointer is kept. *)
BedrockRegister(id) == Register(id, FALSE, TRUE)

(* A metric comes into the provider; MetricRegistry has the details. *)
AddMetric(b) ==
  /\ mid = "running"
  /\ b \in live
  /\ provider[b].num_metrics < MaxMetrics
  /\ provider' = [provider EXCEPT ![b].num_metrics = @ + 1]
  /\ UNCHANGED <<mid, listening, live, rpc, callbacks, given, registers>>

-----------------------------------------------------------------------------
(***************************************************************************)
(* symbiomon_finalize_provider: both RPCs deregistered, every metric       *)
(* removed, the provider freed.  It then reads provider->mid, the first    *)
(* field of the freed block, to log: the process may not survive that.     *)
(***************************************************************************)
Logged(here) == mid' \in {here, "crashed"}

Finalized(b) ==
  /\ rpc' = [r \in Registrations |-> IF r[2] = provider[b].provider_id THEN Null ELSE rpc[r]]
  /\ provider' = [provider EXCEPT ![b].num_metrics = 0]
  /\ live' = live \ {b}

(* margo_provider_pop_finalize_callback: the last one pushed for this owner. *)
Pop(b) ==
  LET own == {i \in DOMAIN callbacks : callbacks[i] = b} IN
  IF own = {} THEN UNCHANGED callbacks
  ELSE \E i \in own : /\ \A j \in own : j <= i
                      /\ callbacks' = RemoveAt(callbacks, i)

Destroy_Unpopped(b) ==   \* mutant: the finalize callback left on the stack
  /\ mid = "running"
  /\ b \in given
  /\ Finalized(b)
  /\ given' = given \ {b}
  /\ Logged("running")
  /\ UNCHANGED <<listening, callbacks, registers>>

(***************************************************************************)
(* symbiomon_provider_destroy, and symbiomon_deregister_provider of the    *)
(* bedrock module, by a program that was given the pointer: pop the        *)
(* callback margo may have for this owner, then run it.                    *)
(***************************************************************************)
Destroy(b) ==
  /\ mid = "running"
  /\ b \in given
  /\ Pop(b)
  /\ Finalized(b)
  /\ given' = given \ {b}
  /\ Logged("running")
  /\ UNCHANGED <<listening, registers>>

(* The program calls margo_finalize; its pointers are of no use from then on. *)
MargoFinalize ==
  /\ mid = "running"
  /\ mid' = "finalizing"
  /\ UNCHANGED <<listening, provider, live, rpc, callbacks, given, registers>>

(* Margo runs the callback pushed last. *)
RunCallback ==
  /\ mid = "finalizing"
  /\ callbacks # << >>
  /\ Finalized(Last(callbacks))
  /\ callbacks' = Front(callbacks)
  /\ Logged("finalizing")
  /\ UNCHANGED <<listening, given, registers>>

CallbacksDone ==
  /\ mid = "finalizing"
  /\ callbacks = << >>
  /\ mid' = "finalized"
  /\ UNCHANGED <<listening, provider, live, rpc, callbacks, given, registers>>

-----------------------------------------------------------------------------
LifeNext ==
  \/ \E id \in Ids : BedrockRegister(id) \/ \E push, keep \in BOOLEAN : Register(id, push, keep)
  \/ \E b \in Blocks : AddMetric(b) \/ Destroy(b)
  \/ MargoFinalize \/ RunCallback \/ CallbacksDone

LifeSpec == LifeInit /\ [][LifeNext]_lifeVars

-----------------------------------------------------------------------------
(* Every variable has its type. *)
LifeTypeOK ==
  /\ mid \in {"running", "finalizing", "finalized", "crashed"}
  /\ listening \in BOOLEAN
  /\ provider \in [Blocks -> [provider_id : Ids \cup {Null}, num_metrics : 0 .. MaxMetrics,
                              push : BOOLEAN]]
  /\ live \in SUBSET Blocks
  /\ rpc \in [Registrations -> Blocks \cup {Null}]
  /\ callbacks \in Seq(Blocks)
  /\ \A b \in live : provider[b].provider_id \in Ids
  /\ given \in SUBSET Blocks
  /\ registers \in Nat

(* While the process runs, a pointer that register handed out is that of a live
   provider: what the program may still destroy is there (provider.c:184-190). *)
GivenLive == mid = "running" => given \subseteq live

(* Both RPCs of an id lead to the same provider, which is allocated and has that
   id, and each allocated provider is reached under its own id: no handler runs
   on a freed provider, and no two providers share an id, over any order of
   register, destroy and finalize (provider.c:71-101, 176-180). *)
ServesLive ==
  /\ \A r \in Registrations : rpc[r] # Null => rpc[r] \in live /\ provider[rpc[r]].provider_id = r[2]
  /\ \A b \in live, name \in RPCs : rpc[<<name, provider[b].provider_id>>] = b

(* Margo holds exactly one callback for each allocated provider registered with
   push_finalize_callback, and none for another: neither margo_finalize nor
   destroy can free a provider twice (provider.c:163-164, 190-192). *)
CallbackOnce ==
  /\ IsInjective(callbacks)
  /\ ToSet(callbacks) = {b \in live : provider[b].push}

(* A freed provider has left no metric behind, and after margo_finalize no
   provider that had a callback is left (provider.c:172-180). *)
FinalizeFrees ==
  /\ \A b \in Blocks \ live : provider[b].num_metrics = 0
  /\ mid = "finalized" => \A b \in live : ~provider[b].push

(* The inductive invariant. *)
LifeInv == LifeTypeOK /\ GivenLive /\ ServesLive /\ CallbackOnce /\ FinalizeFrees

(* What the comment of symbiomon_provider_register promises: a provider
   registered with SYMBIOMON_PROVIDER_IGNORE does not survive margo_finalize
   (symbiomon-server.h:40-42).  It makes no exception for arguments that clear
   push_finalize_callback; the default ones set it (symbiomon-server.h:32-33). *)
IgnoredIsDestroyed == mid = "finalized" => live \subseteq given
=============================================================================
