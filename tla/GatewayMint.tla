---------------------------- MODULE GatewayMint ----------------------------
(***************************************************************************)
(* Mints: the handler mint of gateway/src/routes/mod.rs, mint_asset of     *)
(* gateway/src/tapd.rs, and reconcile_mints of gateway/src/reconcile.rs.   *)
(*                                                                         *)
(* A mint is two calls.  MintAsset puts the asset into the node's one      *)
(* pending batch, FinalizeBatch broadcasts the batch that is pending by    *)
(* then, whoever filled it.  The claim on the new asset is a row keyed by  *)
(* the batch; when the batch confirms, a reconciler looks for an asset     *)
(* anchored in the batch's transaction and credits the claim's owner.      *)
(*                                                                         *)
(* A mint request stands for its caller and for the asset it asks for; a   *)
(* batch is the set of the assets in it.                                   *)
(***************************************************************************)
EXTENDS Integers, FiniteSets

CONSTANTS
  Mints,         \* the mint requests clients may submit
  Charged,       \* those that owe the operator a fee
  Reconcilers,   \* tasks that run reconcile_mints
  Maintenance,   \* the one of them that is the maintenance loop
  LossyReplies,  \* may a call report failure although the node executes it?
  MaxCrashes     \* bound on crashes of the gateway process

ASSUME MintAssumption ==
  /\ IsFiniteSet(Mints) /\ Charged \subseteq Mints
  /\ Maintenance \in Reconcilers
  /\ LossyReplies \in BOOLEAN /\ MaxCrashes \in Nat

VARIABLES
  pc,         \* where each request's handler is
  feesHeld,   \* requests whose fee was moved to the operator and not back
  claims,     \* table pending_mints
  credits,    \* how often each request was credited
  creditedAs, \* which asset it was credited
  rpc,        \* the node's side of the request's current call
  staged,     \* assets in the node's pending batch
  finalized,  \* what the request's FinalizeBatch broadcast, or {}
  confirmed,  \* batches the chain has confirmed
  matches,    \* of each reconciler: the asset it found for a batch, not applied yet
  crashes

registry == <<feesHeld, claims, credits, creditedAs>>
node == <<rpc, staged, finalized, confirmed>>
mintVars == <<pc, registry, node, matches, crashes>>

Batches == (SUBSET Mints) \ {{}}
Claims == [batch : Batches, by : Mints, txid : BOOLEAN]
Unclaimed == [a \in Mints |-> "nothing"]
Broadcast == {finalized[m] : m \in Mints} \ {{}}

Goto(m, from, to) == pc[m] \in from /\ pc' = [pc EXCEPT ![m] = to]

----------------------------------------------------------------------------
(* routes::mint *)

\* The fee is moved first and the asset is asked for.
Mint(m) ==
  /\ Goto(m, {"idle"}, "minting")
  /\ feesHeld' = feesHeld \cup ({m} \cap Charged)
  /\ rpc' = [rpc EXCEPT ![m] = "mint_asset"]
  /\ UNCHANGED <<claims, credits, creditedAs, staged, finalized, confirmed, matches, crashes>>

\* charge_fee finds too few sats.
MintRefused(m) ==
  /\ m \in Charged /\ Goto(m, {"idle"}, "refused")
  /\ UNCHANGED <<registry, node, matches, crashes>>

Finalize(m) ==
  /\ rpc[m] = "staged" /\ Goto(m, {"minting"}, "finalizing")
  /\ rpc' = [rpc EXCEPT ![m] = "finalize_batch"]
  /\ UNCHANGED <<registry, staged, finalized, confirmed, matches, crashes>>

RepliesErr(m) == rpc[m] = "refused" \/ LossyReplies

\* A wrong variant: the fee stays with the operator.
MintFailedKeepsFee(m) ==
  /\ RepliesErr(m) /\ Goto(m, {"minting", "finalizing"}, "failed")
  /\ UNCHANGED <<registry, node, matches, crashes>>

\* Either call failed: the fee goes back.
MintFailed(m) ==
  /\ RepliesErr(m) /\ Goto(m, {"minting", "finalizing"}, "failed")
  /\ feesHeld' = feesHeld \ {m}
  /\ UNCHANGED <<claims, credits, creditedAs, node, matches, crashes>>

\* A wrong variant: a reply without the transaction's id is not claimed.
ClaimIfKnown(m) ==
  /\ rpc[m] = "broadcast" /\ Goto(m, {"finalizing"}, "ok")
  /\ \E known \in BOOLEAN :
       claims' = claims \cup {c \in {[batch |-> finalized[m], by |-> m, txid |-> known]} : c.txid}
  /\ UNCHANGED <<feesHeld, credits, creditedAs, node, matches, crashes>>

\* add_pending_mint; the reply may lack the transaction's id.  No batch is
\* broadcast twice, so the row of another owner that it looks for is not there.
Claim(m) ==
  /\ rpc[m] = "broadcast" /\ Goto(m, {"finalizing"}, "ok")
  /\ \E known \in BOOLEAN :
       claims' = claims \cup {[batch |-> finalized[m], by |-> m, txid |-> known]}
  /\ UNCHANGED <<feesHeld, credits, creditedAs, node, matches, crashes>>

----------------------------------------------------------------------------
(* The node *)

NodeOnly == UNCHANGED <<pc, registry, matches, crashes>>
Answer(m, from, to) == rpc[m] = from /\ rpc' = [rpc EXCEPT ![m] = to]

NodeStages(m) ==
  /\ Answer(m, "mint_asset", "staged")
  /\ staged' = staged \cup {m}
  /\ UNCHANGED <<finalized, confirmed>> /\ NodeOnly

NodeFinalizes(m) ==
  /\ staged # {} /\ Answer(m, "finalize_batch", "broadcast")
  /\ finalized' = [finalized EXCEPT ![m] = staged] /\ staged' = {}
  /\ UNCHANGED confirmed /\ NodeOnly

\* Either call may be turned down, or not arrive; the batch stays pending.
NodeRefuses(m) ==
  /\ \E call \in {"mint_asset", "finalize_batch"} : Answer(m, call, "refused")
  /\ UNCHANGED <<staged, finalized, confirmed>> /\ NodeOnly

Confirm(b) ==
  /\ b \in Broadcast \ confirmed /\ confirmed' = confirmed \cup {b}
  /\ UNCHANGED <<rpc, staged, finalized>> /\ NodeOnly

----------------------------------------------------------------------------
(* reconcile_mints *)

ReconcilerOnly == UNCHANGED <<pc, feesHeld, node, crashes>>

\* set_pending_txid, with the id list_batches gave.  A row keeps its key, so
\* it does not matter how long ago the batches were listed.
LearnTxid(c) ==
  /\ c \in claims /\ ~c.txid
  /\ claims' = (claims \ {c}) \cup {[c EXCEPT !.txid = TRUE]}
  /\ UNCHANGED <<credits, creditedAs, matches>> /\ ReconcilerOnly

Matched(p) == {b \in Batches : matches[p][b] # "nothing"}

\* The rows are read and the assets listed.  list_assets shows the assets
\* of confirmed batches in an order of its own, and the first one anchored in
\* the claim's transaction is taken.
ListAssets(p) ==
  /\ Matched(p) = {}
  /\ LET ready == {c.batch : c \in {c \in claims : c.txid /\ c.batch \in confirmed}}
     IN \E first \in [ready -> Mints] :
          /\ ready # {} /\ \A b \in ready : first[b] \in b
          /\ matches' = [matches EXCEPT ![p] =
               [b \in Batches |-> IF b \in ready THEN first[b] ELSE "nothing"]]
  /\ UNCHANGED <<claims, credits, creditedAs>> /\ ReconcilerOnly

CreditClaim(c, a) ==
  /\ credits' = [credits EXCEPT ![c.by] = @ + 1]
  /\ creditedAs' = [creditedAs EXCEPT ![c.by] = a]

\* A wrong variant: the row is not deleted.
ResolveKeepsRow(b, a) ==
  IF \E c \in claims : c.batch = b
  THEN \E c \in claims : c.batch = b /\ CreditClaim(c, a) /\ UNCHANGED claims
  ELSE UNCHANGED <<claims, credits, creditedAs>>

\* resolve_pending_mint: one transaction.
ResolvePendingMint(b, a) ==
  IF \E c \in claims : c.batch = b
  THEN \E c \in claims : c.batch = b /\ CreditClaim(c, a) /\ claims' = claims \ {c}
  ELSE UNCHANGED <<claims, credits, creditedAs>>

Resolve(p, b) ==
  /\ b \in Matched(p)
  /\ ResolvePendingMint(b, matches[p][b])
  /\ matches' = [matches EXCEPT ![p][b] = "nothing"]
  /\ ReconcilerOnly

----------------------------------------------------------------------------
(* Losing a task, or all of them *)

Dropped(m) ==
  /\ Goto(m, {"minting", "finalizing"}, "gone")
  /\ UNCHANGED <<registry, node, matches, crashes>>

NoMatches == [b \in Batches |-> "nothing"]

Abandon(p) ==
  /\ p # Maintenance /\ Matched(p) # {}
  /\ matches' = [matches EXCEPT ![p] = NoMatches]
  /\ UNCHANGED <<claims, credits, creditedAs>> /\ ReconcilerOnly

Crash ==
  /\ crashes < MaxCrashes /\ crashes' = crashes + 1
  /\ pc' = [m \in Mints |-> IF pc[m] \in {"minting", "finalizing"} THEN "gone" ELSE pc[m]]
  /\ matches' = [p \in Reconcilers |-> NoMatches]
  /\ UNCHANGED <<registry, node>>

MintInit ==
  /\ pc = [m \in Mints |-> "idle"]
  /\ feesHeld = {} /\ claims = {}
  /\ credits = [m \in Mints |-> 0] /\ creditedAs = Unclaimed
  /\ rpc = [m \in Mints |-> "none"]
  /\ staged = {} /\ finalized = [m \in Mints |-> {}] /\ confirmed = {}
  /\ matches = [p \in Reconcilers |-> NoMatches]
  /\ crashes = 0

Handler(m) == Mint(m) \/ MintRefused(m) \/ Finalize(m) \/ MintFailed(m) \/ Claim(m) \/ Dropped(m)
Node(m) == NodeStages(m) \/ NodeFinalizes(m) \/ NodeRefuses(m)
Reconcile(p) == ListAssets(p) \/ Abandon(p) \/ \E b \in Batches : Resolve(p, b)

MintNext ==
  \/ \E m \in Mints : Handler(m) \/ Node(m)
  \/ \E b \in Batches : Confirm(b)
  \/ \E c \in claims : LearnTxid(c)
  \/ \E p \in Reconcilers : Reconcile(p)
  \/ Crash

MintSpec == MintInit /\ [][MintNext]_mintVars

\* The maintenance loop goes round for ever and its calls do not fail for
\* ever.  Nothing is assumed of the handlers, the node or the chain.
MintFairness ==
  /\ \A c \in Claims : WF_mintVars(LearnTxid(c))
  /\ SF_mintVars(ListAssets(Maintenance))
  /\ \A b \in Batches : WF_mintVars(Resolve(Maintenance, b))

MintFairSpec == MintSpec /\ MintFairness

----------------------------------------------------------------------------
(* Properties *)

MintTypeOK ==
  /\ pc \in [Mints -> {"idle", "minting", "finalizing", "ok", "refused", "failed", "gone"}]
  /\ feesHeld \subseteq Charged /\ claims \subseteq Claims
  /\ credits \in [Mints -> Nat] /\ creditedAs \in [Mints -> Mints \cup {"nothing"}]
  /\ rpc \in [Mints -> {"none", "mint_asset", "staged", "finalize_batch", "broadcast", "refused"}]
  /\ staged \subseteq Mints /\ finalized \in [Mints -> SUBSET Mints]
  /\ confirmed \subseteq Batches
  /\ matches \in [Reconcilers -> [Batches -> Mints \cup {"nothing"}]]
  /\ crashes \in 0 .. MaxCrashes

\* However the mints share batches and the reconcilers overlap, a confirmed
\* batch credits one user once, one of its assets, and an asset is credited
\* to one user at most (registry.rs 433-435).
BatchCreditedOnce ==
  \A m \in Mints :
    credits[m] > 0 =>
      /\ credits[m] = 1
      /\ finalized[m] \in confirmed /\ creditedAs[m] \in finalized[m]
      /\ \A n \in Mints \ {m} : credits[n] > 0 => creditedAs[n] # creditedAs[m]

\* The operator keeps the fee of a mint that was answered with success and of
\* none that was answered with failure (routes/mod.rs 691).
FeesSettled ==
  \A m \in Charged :
    /\ pc[m] \in {"ok", "minting", "finalizing"} => m \in feesHeld
    /\ pc[m] \in {"failed", "refused"} => m \notin feesHeld

\* A mint that was answered with success is credited once its batch has
\* confirmed, by the maintenance loop alone if need be.
MintCredited ==
  \A m \in Mints : (pc[m] = "ok" /\ finalized[m] \in confirmed) ~> credits[m] > 0

=============================================================================
