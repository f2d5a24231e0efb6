-------------------------- MODULE GatewayParts_proofs --------------------------
(***************************************************************************)
(* Theorems about two parts of the gateway beside its ledgers:             *)
(*   GatewayMint  for every set of mints, whichever of them owe a fee, any *)
(*                number of reconcilers and crashes, lossy replies or not  *)
(*   GatewayHost  for every set of events, connections and callers, every  *)
(*                window of freshness and number of snapshots kept, clocks *)
(*                of any length, and any number of restarts and steps back *)
(* The parts are proved about one by one: no theorem is about both.        *)
(***************************************************************************)
EXTENDS GatewayMint, GatewayHost, FiniteSetTheorems, TLAPS

----------------------------------------------------------------------------
(* GatewayMint: the inductive invariant *)

\* A request's handler and its call at the node keep step.
Calls ==
  \A m \in Mints :
    /\ pc[m] = "idle" => rpc[m] = "none"
    /\ pc[m] = "ok" => rpc[m] = "broadcast"
    /\ finalized[m] # {} <=> rpc[m] = "broadcast"

\* An asset is in one batch at most: the pending one or one that was broadcast.
InBatch(m, a) == a \in finalized[m]
Disjoint ==
  /\ \A a \in Mints : rpc[a] \in {"none", "mint_asset"} =>
       a \notin staged /\ \A m \in Mints : ~InBatch(m, a)
  /\ \A m, n, a \in Mints : InBatch(m, a) /\ InBatch(n, a) => m = n
  /\ \A m, a \in Mints : InBatch(m, a) => a \notin staged

\* A claim is one of an answered request, on the batch it broadcast.
Claimed ==
  /\ \A c \in claims : /\ c.batch = finalized[c.by] /\ pc[c.by] = "ok" /\ credits[c.by] = 0
  /\ \A c, d \in claims : c.by = d.by => c = d

\* What was credited, and what a reconciler is about to credit, has confirmed.
Confirmed ==
  /\ \A m \in Mints :
       credits[m] > 0 =>
         /\ credits[m] = 1 /\ pc[m] = "ok"
         /\ finalized[m] \in confirmed /\ creditedAs[m] \in finalized[m]
  /\ \A p \in Reconcilers, b \in Batches :
       matches[p][b] # "nothing" => b \in confirmed /\ matches[p][b] \in b

BatchesHold == Calls /\ Disjoint /\ Claimed /\ Confirmed

Fees == FeesSettled /\ \A m \in Mints : pc[m] = "idle" => m \notin feesHeld

MintIInv == MintTypeOK /\ BatchesHold /\ Fees

----------------------------------------------------------------------------
(* GatewayMint: types *)

Matches == [Reconcilers -> [Batches -> Mints \cup {"nothing"}]]

LEMMA MatchTypes == NoMatches \in [Batches -> Mints \cup {"nothing"}]
BY DEF NoMatches

LEMMA MintTypeInit == MintInit => MintTypeOK
BY MintAssumption, MatchTypes DEF MintInit, MintTypeOK, Unclaimed

LEMMA CreditTypes ==
  ASSUME MintTypeOK, NEW b \in Batches, NEW a \in Mints \cup {"nothing"}, ResolvePendingMint(b, a)
  PROVE  /\ claims' \subseteq Claims /\ credits' \in [Mints -> Nat]
         /\ creditedAs' \in [Mints -> Mints \cup {"nothing"}]
<1>1. CASE UNCHANGED <<claims, credits, creditedAs>>
  BY <1>1 DEF MintTypeOK
<1>2. ASSUME NEW c \in claims, CreditClaim(c, a), claims' = claims \ {c}
      PROVE  /\ claims' \subseteq Claims /\ credits' \in [Mints -> Nat]
             /\ creditedAs' \in [Mints -> Mints \cup {"nothing"}]
  <2>1. c.by \in Mints
    BY DEF MintTypeOK, Claims
  <2>2. credits' \in [Mints -> Nat]
    BY <1>2, <2>1 DEF CreditClaim, MintTypeOK
  <2>3. creditedAs' \in [Mints -> Mints \cup {"nothing"}]
    BY <1>2, <2>1 DEF CreditClaim, MintTypeOK
  <2> QED
    BY <1>2, <2>2, <2>3 DEF MintTypeOK
<1> QED
  BY <1>1, <1>2 DEF ResolvePendingMint

LEMMA MintTypeStep == MintTypeOK /\ Calls /\ [MintNext]_mintVars => MintTypeOK'
<1> SUFFICES ASSUME MintTypeOK, Calls, [MintNext]_mintVars PROVE MintTypeOK'
  OBVIOUS
<1> USE MintAssumption
<1>1. ASSUME NEW m \in Mints, Mint(m) \/ MintRefused(m) \/ Finalize(m) \/ MintFailed(m) \/ Dropped(m)
      PROVE  MintTypeOK'
  <2>1. pc' \in [Mints -> {"idle", "minting", "finalizing", "ok", "refused", "failed", "gone"}]
    BY <1>1 DEF Mint, MintRefused, Finalize, MintFailed, Dropped, Goto, MintTypeOK
  <2>2. rpc' \in [Mints -> {"none", "mint_asset", "staged", "finalize_batch", "broadcast", "refused"}]
    BY <1>1 DEF Mint, MintRefused, Finalize, MintFailed, Dropped, node, MintTypeOK
  <2>3. feesHeld' \subseteq Charged
    BY <1>1 DEF Mint, MintRefused, Finalize, MintFailed, Dropped, registry, MintTypeOK
  <2>4. UNCHANGED <<claims, credits, creditedAs, staged, finalized, confirmed, matches, crashes>>
    BY <1>1 DEF Mint, MintRefused, Finalize, MintFailed, Dropped, node, registry
  <2> QED
    BY <2>1, <2>2, <2>3, <2>4 DEF MintTypeOK
<1>2. ASSUME NEW m \in Mints, Claim(m) PROVE MintTypeOK'
  <2>1. PICK known \in BOOLEAN :
          claims' = claims \cup {[batch |-> finalized[m], by |-> m, txid |-> known]}
    BY <1>2 DEF Claim
  <2>2. finalized[m] \in Batches
    <3>1. finalized[m] # {} /\ finalized[m] \in SUBSET Mints
      BY <1>2 DEF Claim, Calls, MintTypeOK
    <3> QED
      BY <3>1 DEF Batches
  <2>3. [batch |-> finalized[m], by |-> m, txid |-> known] \in Claims
    BY <2>2 DEF Claims
  <2>4. pc' \in [Mints -> {"idle", "minting", "finalizing", "ok", "refused", "failed", "gone"}]
    BY <1>2 DEF Claim, Goto, MintTypeOK
  <2> QED
    BY <1>2, <2>1, <2>3, <2>4 DEF Claim, node, MintTypeOK
<1>3. ASSUME NEW m \in Mints, Node(m) PROVE MintTypeOK'
  <2>1. rpc' \in [Mints -> {"none", "mint_asset", "staged", "finalize_batch", "broadcast", "refused"}]
    BY <1>3 DEF Node, NodeStages, NodeFinalizes, NodeRefuses, Answer, MintTypeOK
  <2>2. staged' \subseteq Mints
    BY <1>3 DEF Node, NodeStages, NodeFinalizes, NodeRefuses, MintTypeOK
  <2>3. finalized' \in [Mints -> SUBSET Mints]
    BY <1>3 DEF Node, NodeStages, NodeFinalizes, NodeRefuses, MintTypeOK
  <2>4. UNCHANGED <<pc, registry, confirmed, matches, crashes>>
    BY <1>3 DEF Node, NodeStages, NodeFinalizes, NodeRefuses, NodeOnly
  <2> QED
    BY <2>1, <2>2, <2>3, <2>4 DEF MintTypeOK, registry
<1>4. ASSUME NEW b \in Batches, Confirm(b) PROVE MintTypeOK'
  BY <1>4 DEF Confirm, NodeOnly, registry, MintTypeOK
<1>5. ASSUME NEW c \in claims, LearnTxid(c) PROVE MintTypeOK'
  <2>1. [c EXCEPT !.txid = TRUE] \in Claims
    BY DEF MintTypeOK, Claims
  <2> QED
    BY <1>5, <2>1 DEF LearnTxid, ReconcilerOnly, node, MintTypeOK
<1>6. ASSUME NEW p \in Reconcilers, ListAssets(p) PROVE MintTypeOK'
  <2> DEFINE ready == {c.batch : c \in {c \in claims : c.txid /\ c.batch \in confirmed}}
  <2>1. PICK first \in [ready -> Mints] :
          matches' = [matches EXCEPT ![p] =
            [b \in Batches |-> IF b \in ready THEN first[b] ELSE "nothing"]]
    BY <1>6 DEF ListAssets
  <2> DEFINE f == [b \in Batches |-> IF b \in ready THEN first[b] ELSE "nothing"]
  <2>2. f \in [Batches -> Mints \cup {"nothing"}]
    BY <2>1
  <2>3. matches' = [matches EXCEPT ![p] = f]
    BY <2>1
  <2> HIDE DEF f, ready
  <2>4. matches' \in Matches
    BY <2>2, <2>3 DEF MintTypeOK, Matches
  <2> QED
    BY <1>6, <2>4 DEF ListAssets, ReconcilerOnly, node, MintTypeOK, Matches
<1>7. ASSUME NEW p \in Reconcilers, Abandon(p) PROVE MintTypeOK'
  <2>1. matches' \in Matches
    BY <1>7, MatchTypes DEF Abandon, MintTypeOK, Matches
  <2> QED
    BY <1>7, <2>1 DEF Abandon, ReconcilerOnly, node, MintTypeOK, Matches
<1>8. ASSUME NEW p \in Reconcilers, NEW b \in Batches, Resolve(p, b) PROVE MintTypeOK'
  <2>1. matches[p] \in [Batches -> Mints \cup {"nothing"}]
    BY DEF MintTypeOK
  <2>2. /\ claims' \subseteq Claims /\ credits' \in [Mints -> Nat]
        /\ creditedAs' \in [Mints -> Mints \cup {"nothing"}]
    BY <1>8, <2>1, CreditTypes DEF Resolve
  <2>3. [matches[p] EXCEPT ![b] = "nothing"] \in [Batches -> Mints \cup {"nothing"}]
    BY <2>1
  <2>4. matches' = [matches EXCEPT ![p] = [matches[p] EXCEPT ![b] = "nothing"]]
    BY <1>8 DEF Resolve
  <2>5. matches' \in Matches
    BY <2>3, <2>4 DEF MintTypeOK, Matches
  <2> QED
    BY <1>8, <2>2, <2>5 DEF Resolve, ReconcilerOnly, node, MintTypeOK, Matches
<1>9. CASE Crash
  <2>1. pc' \in [Mints -> {"idle", "minting", "finalizing", "ok", "refused", "failed", "gone"}]
    BY <1>9 DEF Crash, MintTypeOK
  <2>2. matches' \in Matches
    BY <1>9, MatchTypes DEF Crash, Matches
  <2>3. crashes' \in 0 .. MaxCrashes
    BY <1>9 DEF Crash, MintTypeOK
  <2> QED
    BY <1>9, <2>1, <2>2, <2>3 DEF Crash, registry, node, MintTypeOK, Matches
<1>10. CASE UNCHANGED mintVars
  BY <1>10 DEF mintVars, registry, node, MintTypeOK
<1> QED
  BY <1>1, <1>2, <1>3, <1>4, <1>5, <1>6, <1>7, <1>8, <1>9, <1>10 DEF MintNext, Handler, Reconcile

----------------------------------------------------------------------------
(* GatewayMint: the handlers and the node *)

\* What the steps that are about one mint leave alone.
LEMMA CallsStep == MintTypeOK /\ Calls /\ [MintNext]_mintVars => Calls'
<1> SUFFICES ASSUME MintTypeOK, Calls, [MintNext]_mintVars PROVE Calls'
  OBVIOUS
<1>1. ASSUME NEW m \in Mints, Mint(m) \/ Finalize(m) PROVE Calls'
  BY <1>1 DEF Mint, Finalize, Goto, MintTypeOK, Calls
<1>2. ASSUME NEW m \in Mints, MintRefused(m) \/ MintFailed(m) \/ Dropped(m) PROVE Calls'
  BY <1>2 DEF MintRefused, MintFailed, Dropped, Goto, node, MintTypeOK, Calls
<1>3. ASSUME NEW m \in Mints, Claim(m) PROVE Calls'
  BY <1>3 DEF Claim, Goto, node, MintTypeOK, Calls
<1>4. ASSUME NEW m \in Mints, NodeStages(m) \/ NodeRefuses(m) PROVE Calls'
  BY <1>4 DEF NodeStages, NodeRefuses, Answer, NodeOnly, MintTypeOK, Calls
<1>5. ASSUME NEW m \in Mints, NodeFinalizes(m) PROVE Calls'
  BY <1>5 DEF NodeFinalizes, Answer, NodeOnly, MintTypeOK, Calls
<1>6. CASE Crash
  BY <1>6 DEF Crash, node, MintTypeOK, Calls
<1>7. ASSUME \/ \E b \in Batches : Confirm(b)
             \/ \E c \in claims : LearnTxid(c)
             \/ \E p \in Reconcilers : Reconcile(p)
             \/ UNCHANGED mintVars
      PROVE  Calls'
  <2>1. UNCHANGED <<pc, rpc, finalized>>
    BY <1>7 DEF Confirm, NodeOnly, LearnTxid, Reconcile, ListAssets, Abandon, Resolve,
                ReconcilerOnly, node, mintVars
  <2> QED
    BY <2>1 DEF Calls
<1> QED
  BY <1>1, <1>2, <1>3, <1>4, <1>5, <1>6, <1>7 DEF MintNext, Handler, Node

LEMMA DisjointStep == MintTypeOK /\ Calls /\ Disjoint /\ [MintNext]_mintVars => Disjoint'
<1> SUFFICES ASSUME MintTypeOK, Calls, Disjoint, [MintNext]_mintVars PROVE Disjoint'
  OBVIOUS
<1>1. ASSUME NEW m \in Mints, Mint(m) \/ Finalize(m) PROVE Disjoint'
  BY <1>1 DEF Mint, Finalize, Goto, MintTypeOK, Calls, Disjoint, InBatch
<1>2. ASSUME NEW m \in Mints, NodeStages(m) PROVE Disjoint'
  <2>1. /\ rpc[m] = "mint_asset" /\ rpc' = [rpc EXCEPT ![m] = "staged"]
        /\ staged' = staged \cup {m} /\ UNCHANGED finalized
    BY <1>2 DEF NodeStages, Answer
  <2>2. \A n \in Mints : ~InBatch(n, m)
    BY <2>1 DEF Disjoint
  <2> QED
    BY <2>1, <2>2 DEF Disjoint, InBatch, MintTypeOK
<1>3. ASSUME NEW m \in Mints, NodeFinalizes(m) PROVE Disjoint'
  <2>1. /\ rpc[m] = "finalize_batch" /\ rpc' = [rpc EXCEPT ![m] = "broadcast"]
        /\ finalized' = [finalized EXCEPT ![m] = staged] /\ staged' = {}
        /\ finalized[m] = {}
    BY <1>3 DEF NodeFinalizes, Answer, Calls
  <2>2. \A n, a \in Mints : InBatch(n, a)' <=> IF n = m THEN a \in staged ELSE InBatch(n, a)
    BY <2>1 DEF InBatch, MintTypeOK
  <2>3. \A a \in Mints : rpc'[a] \in {"none", "mint_asset"} => rpc[a] \in {"none", "mint_asset"}
    BY <2>1 DEF MintTypeOK
  <2> QED
    BY <2>1, <2>2, <2>3 DEF Disjoint
<1>4. ASSUME NEW m \in Mints, NodeRefuses(m) PROVE Disjoint'
  BY <1>4 DEF NodeRefuses, Answer, MintTypeOK, Disjoint, InBatch
<1>5. ASSUME \/ \E m \in Mints : MintRefused(m) \/ MintFailed(m) \/ Claim(m) \/ Dropped(m)
             \/ \E b \in Batches : Confirm(b)
             \/ \E c \in claims : LearnTxid(c)
             \/ \E p \in Reconcilers : Reconcile(p)
             \/ Crash \/ UNCHANGED mintVars
      PROVE  Disjoint'
  <2>1. UNCHANGED <<rpc, staged, finalized>>
    BY <1>5 DEF MintRefused, MintFailed, Claim, Dropped, Confirm, LearnTxid, Reconcile,
                ListAssets, Abandon, Resolve, ReconcilerOnly, Crash, node, mintVars
  <2> QED
    BY <2>1 DEF Disjoint, InBatch
<1> QED
  BY <1>1, <1>2, <1>3, <1>4, <1>5 DEF MintNext, Handler, Node

----------------------------------------------------------------------------
(* GatewayMint: the claims *)

\* A batch that is broadcast stays what it is.
LEMMA FinalizedStays ==
  ASSUME MintTypeOK, Calls, [MintNext]_mintVars, NEW m \in Mints, finalized[m] # {}
  PROVE  finalized'[m] = finalized[m]
<1>1. ASSUME NEW n \in Mints, NodeFinalizes(n) PROVE finalized'[m] = finalized[m]
  BY <1>1 DEF NodeFinalizes, Answer, Calls, MintTypeOK
<1> QED
  BY <1>1 DEF MintNext, Handler, Mint, MintRefused, Finalize, MintFailed, Claim, Dropped, Node,
     NodeStages, NodeRefuses, Confirm, LearnTxid, Reconcile, ListAssets, Abandon, Resolve,
     ReconcilerOnly, Crash, node, mintVars

\* An answered request stays answered.
LEMMA AnsweredStays ==
  ASSUME MintTypeOK, [MintNext]_mintVars, NEW m \in Mints, pc[m] = "ok"
  PROVE  pc'[m] = "ok"
<1>1. ASSUME NEW n \in Mints, Handler(n) PROVE pc'[m] = "ok"
  BY <1>1 DEF Handler, Mint, MintRefused, Finalize, MintFailed, Claim, Dropped, Goto, MintTypeOK
<1>2. CASE Crash
  BY <1>2 DEF Crash
<1> QED
  BY <1>1, <1>2 DEF MintNext, Node, NodeStages, NodeFinalizes, NodeRefuses, NodeOnly, Confirm,
     LearnTxid, Reconcile, ListAssets, Abandon, Resolve, ReconcilerOnly, mintVars

LEMMA ConfirmedStays ==
  ASSUME [MintNext]_mintVars
  PROVE  confirmed \subseteq confirmed'
BY DEF MintNext, Handler, Mint, MintRefused, Finalize, MintFailed, Claim, Dropped, Node,
     NodeStages, NodeFinalizes, NodeRefuses, Confirm, LearnTxid, Reconcile, ListAssets,
     Abandon, Resolve, ReconcilerOnly, Crash, node, mintVars

ClaimsHold == Claimed /\ Confirmed

\* Steps that credit nothing and find nothing.
LEMMA ClaimsStay ==
  ASSUME MintTypeOK, Calls, ClaimsHold, [MintNext]_mintVars, UNCHANGED <<claims, credits, creditedAs>>,
         \A p \in Reconcilers, b \in Batches : matches'[p][b] \in {matches[p][b], "nothing"}
  PROVE  ClaimsHold'
<1>1. \A c \in claims : c.by \in Mints
  BY DEF MintTypeOK, Claims
<1>2. \A m \in Mints : pc[m] = "ok" => pc'[m] = "ok" /\ finalized'[m] = finalized[m]
  BY AnsweredStays, FinalizedStays DEF Calls
<1>3. Claimed'
  BY <1>1, <1>2 DEF ClaimsHold, Claimed
<1>4. Confirmed'
  BY <1>2, ConfirmedStays DEF ClaimsHold, Confirmed
<1> QED
  BY <1>3, <1>4 DEF ClaimsHold

LEMMA ClaimClaims ==
  ASSUME MintTypeOK, Calls, ClaimsHold, NEW m \in Mints, Claim(m)
  PROVE  ClaimsHold'
<1>1. /\ pc[m] = "finalizing" /\ pc' = [pc EXCEPT ![m] = "ok"]
      /\ UNCHANGED <<credits, creditedAs, finalized, confirmed, matches>>
  BY DEF Claim, Goto, node
<1>2. PICK known \in BOOLEAN :
        claims' = claims \cup {[batch |-> finalized[m], by |-> m, txid |-> known]}
  BY DEF Claim
<1> DEFINE new == [batch |-> finalized[m], by |-> m, txid |-> known]
<1>3. new.by = m /\ new.batch = finalized[m]
  OBVIOUS
<1>4. \A c \in claims : c.by # m /\ c.by \in Mints
  BY <1>1 DEF ClaimsHold, Claimed, MintTypeOK, Claims
<1>5. credits[m] = 0
  BY <1>1 DEF ClaimsHold, Confirmed, MintTypeOK
<1>6. claims' = claims \cup {new}
  BY <1>2
<1>7. \A c \in claims : c.batch = finalized[c.by] /\ pc[c.by] = "ok" /\ credits[c.by] = 0
  BY DEF ClaimsHold, Claimed
<1>8. \A n \in Mints : n = m \/ pc'[n] = pc[n]
  BY <1>1 DEF MintTypeOK
<1>9. pc'[m] = "ok"
  BY <1>1 DEF MintTypeOK
<1>13. new.batch = finalized'[m] /\ credits'[m] = 0
  BY <1>1, <1>3, <1>5
<1> HIDE DEF new
<1>10. \A c \in claims' : c.batch = finalized'[c.by] /\ pc'[c.by] = "ok" /\ credits'[c.by] = 0
  BY <1>1, <1>3, <1>4, <1>6, <1>7, <1>8, <1>9, <1>13
<1>11. \A c, d \in claims' : c.by = d.by => c = d
  BY <1>3, <1>4, <1>6 DEF ClaimsHold, Claimed
<1>12. Confirmed'
  BY <1>1, <1>8, <1>9 DEF ClaimsHold, Confirmed
<1> QED
  BY <1>10, <1>11, <1>12 DEF ClaimsHold, Claimed

LEMMA LearnClaims ==
  ASSUME MintTypeOK, ClaimsHold, NEW c \in claims, LearnTxid(c)
  PROVE  ClaimsHold'
<1> DEFINE new == [c EXCEPT !.txid = TRUE]
<1>1. /\ claims' = (claims \ {c}) \cup {new}
      /\ UNCHANGED <<pc, credits, creditedAs, finalized, confirmed, matches>>
  BY DEF LearnTxid, ReconcilerOnly, node
<1>2. new.by = c.by /\ new.batch = c.batch
  BY DEF MintTypeOK, Claims
<1> HIDE DEF new
<1>3. Claimed'
  BY <1>1, <1>2 DEF ClaimsHold, Claimed
<1>4. Confirmed'
  BY <1>1 DEF ClaimsHold, Confirmed
<1> QED
  BY <1>3, <1>4 DEF ClaimsHold

LEMMA ListClaims ==
  ASSUME MintTypeOK, ClaimsHold, NEW p \in Reconcilers, ListAssets(p)
  PROVE  ClaimsHold'
<1> DEFINE ready == {c.batch : c \in {c \in claims : c.txid /\ c.batch \in confirmed}}
<1>1. PICK first \in [ready -> Mints] :
        /\ \A b \in ready : first[b] \in b
        /\ matches' = [matches EXCEPT ![p] =
             [b \in Batches |-> IF b \in ready THEN first[b] ELSE "nothing"]]
  BY DEF ListAssets
<1>2. ready \subseteq confirmed
  OBVIOUS
<1>3. UNCHANGED <<pc, claims, credits, creditedAs, finalized, confirmed>>
  BY DEF ListAssets, ReconcilerOnly, node
<1> HIDE DEF ready
<1>4. \A b \in Batches : matches'[p][b] # "nothing" => b \in confirmed /\ matches'[p][b] \in b
  BY <1>1, <1>2 DEF MintTypeOK
<1>5. \A q \in Reconcilers \ {p} : matches'[q] = matches[q]
  BY <1>1 DEF MintTypeOK
<1>6. Confirmed'
  BY <1>3, <1>4, <1>5 DEF ClaimsHold, Confirmed
<1>7. Claimed'
  BY <1>3 DEF ClaimsHold, Claimed
<1> QED
  BY <1>6, <1>7 DEF ClaimsHold

LEMMA ResolveClaims ==
  ASSUME MintTypeOK, ClaimsHold, NEW p \in Reconcilers, NEW b \in Batches, Resolve(p, b)
  PROVE  ClaimsHold'
<1>1. UNCHANGED <<pc, finalized, confirmed>>
  BY DEF Resolve, ReconcilerOnly, node
<1>2. \A q \in Reconcilers, d \in Batches : matches'[q][d] \in {matches[q][d], "nothing"}
  BY DEF Resolve, MintTypeOK
<1>3. PICK a : a = matches[p][b] /\ a \in b /\ b \in confirmed /\ ResolvePendingMint(b, a)
  BY DEF Resolve, Matched, ClaimsHold, Confirmed
<1>4. CASE UNCHANGED <<claims, credits, creditedAs>>
  BY <1>1, <1>2, <1>4 DEF ClaimsHold, Claimed, Confirmed
<1>5. ASSUME NEW c \in claims, c.batch = b, CreditClaim(c, a), claims' = claims \ {c}
      PROVE  ClaimsHold'
  <2>1. PICK m \in Mints : m = c.by
    BY DEF MintTypeOK, Claims
  <2>2. /\ pc[m] = "ok" /\ finalized[m] = b
        /\ \A d \in claims \ {c} : d.by # m /\ d.by \in Mints
    BY <1>5, <2>1 DEF ClaimsHold, Claimed, MintTypeOK, Claims
  <2>3. /\ credits'[m] = 1 /\ creditedAs'[m] = a
        /\ \A n \in Mints \ {m} : credits'[n] = credits[n] /\ creditedAs'[n] = creditedAs[n]
    BY <1>5, <2>1 DEF CreditClaim, ClaimsHold, Claimed, MintTypeOK
  <2>4. Claimed'
    BY <1>1, <1>5, <2>2, <2>3 DEF ClaimsHold, Claimed
  <2>5. Confirmed'
    BY <1>1, <1>2, <1>3, <2>2, <2>3 DEF ClaimsHold, Confirmed
  <2> QED
    BY <2>4, <2>5 DEF ClaimsHold
<1> QED
  BY <1>3, <1>4, <1>5 DEF ResolvePendingMint

LEMMA ClaimsStep == MintTypeOK /\ Calls /\ ClaimsHold /\ [MintNext]_mintVars => ClaimsHold'
<1> SUFFICES ASSUME MintTypeOK, Calls, ClaimsHold, [MintNext]_mintVars PROVE ClaimsHold'
  OBVIOUS
<1>1. ASSUME NEW m \in Mints, Mint(m) \/ MintRefused(m) \/ Finalize(m) \/ MintFailed(m) \/ Dropped(m) \/ Node(m)
      PROVE  ClaimsHold'
  <2>1. UNCHANGED <<claims, credits, creditedAs, matches>>
    BY <1>1 DEF Mint, MintRefused, Finalize, MintFailed, Dropped, Node, NodeStages,
                NodeFinalizes, NodeRefuses, NodeOnly, registry
  <2> QED
    BY <2>1, ClaimsStay
<1>2. ASSUME \/ \E b \in Batches : Confirm(b)
             \/ \E p \in Reconcilers : Abandon(p)
             \/ Crash \/ UNCHANGED mintVars
      PROVE  ClaimsHold'
  <2>1. UNCHANGED <<claims, credits, creditedAs>>
    BY <1>2 DEF Confirm, NodeOnly, Abandon, Crash, mintVars, registry
  <2>2. \A q \in Reconcilers, b \in Batches : matches'[q][b] \in {matches[q][b], "nothing"}
    BY <1>2 DEF Confirm, NodeOnly, Abandon, Crash, mintVars, NoMatches, MintTypeOK
  <2> QED
    BY <2>1, <2>2, ClaimsStay
<1> QED
  BY <1>1, <1>2, ClaimClaims, LearnClaims, ListClaims, ResolveClaims DEF MintNext, Handler, Reconcile

----------------------------------------------------------------------------
(* GatewayMint: the fees *)

LEMMA FeesStep == MintTypeOK /\ Fees /\ [MintNext]_mintVars => Fees'
<1> SUFFICES ASSUME MintTypeOK, Fees, [MintNext]_mintVars PROVE Fees'
  OBVIOUS
<1> USE MintAssumption
<1>1. ASSUME NEW m \in Mints, Mint(m) PROVE Fees'
  BY <1>1 DEF Mint, Goto, Fees, FeesSettled, MintTypeOK
<1>2. ASSUME NEW m \in Mints, MintRefused(m) PROVE Fees'
  BY <1>2 DEF MintRefused, Goto, registry, Fees, FeesSettled, MintTypeOK
<1>3. ASSUME NEW m \in Mints, Finalize(m) \/ Claim(m) \/ Dropped(m) PROVE Fees'
  BY <1>3 DEF Finalize, Claim, Dropped, Goto, registry, Fees, FeesSettled, MintTypeOK
<1>4. ASSUME NEW m \in Mints, MintFailed(m) PROVE Fees'
  BY <1>4 DEF MintFailed, Goto, Fees, FeesSettled, MintTypeOK
<1>5. CASE Crash
  BY <1>5 DEF Crash, registry, Fees, FeesSettled, MintTypeOK
<1>6. ASSUME \/ \E m \in Mints : Node(m)
             \/ \E b \in Batches : Confirm(b)
             \/ \E c \in claims : LearnTxid(c)
             \/ \E p \in Reconcilers : Reconcile(p)
             \/ UNCHANGED mintVars
      PROVE  Fees'
  <2>1. UNCHANGED <<pc, feesHeld>>
    BY <1>6 DEF Node, NodeStages, NodeFinalizes, NodeRefuses, Confirm, NodeOnly, LearnTxid,
                Reconcile, ListAssets, Abandon, Resolve, ReconcilerOnly, registry, mintVars
  <2> QED
    BY <2>1 DEF Fees, FeesSettled
<1> QED
  BY <1>1, <1>2, <1>3, <1>4, <1>5, <1>6 DEF MintNext, Handler

----------------------------------------------------------------------------
(* GatewayMint: the theorems *)

LEMMA MintInitHolds == MintInit => MintIInv
<1> SUFFICES ASSUME MintInit PROVE MintIInv
  OBVIOUS
<1>1. MintTypeOK
  BY MintTypeInit
<1>2. BatchesHold
  BY DEF MintInit, NoMatches, BatchesHold, Calls, Disjoint, InBatch, Claimed, Confirmed
<1>3. Fees
  BY MintAssumption DEF MintInit, Fees, FeesSettled
<1> QED
  BY <1>1, <1>2, <1>3 DEF MintIInv

\* Types, batches, claims and fees in every reachable state.
THEOREM MintHolds == MintSpec => []MintIInv
<1>1. MintInit => MintIInv
  BY MintInitHolds
<1>2. MintIInv /\ [MintNext]_mintVars => MintIInv'
  <2> SUFFICES ASSUME MintIInv, [MintNext]_mintVars PROVE MintIInv'
    OBVIOUS
  <2>1. MintTypeOK /\ Calls /\ Disjoint /\ ClaimsHold /\ Fees
    BY DEF MintIInv, BatchesHold, ClaimsHold
  <2>2. MintTypeOK' /\ Calls' /\ Disjoint' /\ ClaimsHold' /\ Fees'
    BY <2>1, MintTypeStep, CallsStep, DisjointStep, ClaimsStep, FeesStep
  <2> QED
    BY <2>2 DEF MintIInv, BatchesHold, ClaimsHold
<1> QED
  BY <1>1, <1>2, PTL DEF MintSpec

\* Every variable keeps its type.
THEOREM MintTypeCorrect == MintSpec => []MintTypeOK
<1>1. MintIInv => MintTypeOK
  BY DEF MintIInv
<1> QED
  BY <1>1, MintHolds, PTL

\* However many mints share the node's batch and however many reconcilers
\* overlap, a batch credits one user once, and no two users the same asset.
THEOREM BatchesCreditedOnce == MintSpec => []BatchCreditedOnce
<1>1. MintIInv => BatchCreditedOnce
  <2> SUFFICES ASSUME MintIInv, NEW m \in Mints, credits[m] > 0
               PROVE  /\ credits[m] = 1
                      /\ finalized[m] \in confirmed /\ creditedAs[m] \in finalized[m]
                      /\ \A n \in Mints \ {m} : credits[n] > 0 => creditedAs[n] # creditedAs[m]
    BY DEF BatchCreditedOnce
  <2>1. Confirmed /\ Disjoint /\ MintTypeOK
    BY DEF MintIInv, BatchesHold
  <2>2. \A n \in Mints : credits[n] > 0 =>
          /\ credits[n] = 1 /\ finalized[n] \in confirmed
          /\ creditedAs[n] \in Mints /\ InBatch(n, creditedAs[n])
    BY <2>1 DEF Confirmed, InBatch, MintTypeOK
  <2>3. \A n \in Mints : credits[n] > 0 /\ creditedAs[n] = creditedAs[m] => n = m
    BY <2>1, <2>2 DEF Disjoint
  <2> QED
    BY <2>2, <2>3 DEF InBatch
<1> QED
  BY <1>1, MintHolds, PTL

\* Fees follow the answers (routes/mod.rs 691).
THEOREM FeesFollowAnswers == MintSpec => []FeesSettled
<1>1. MintIInv => FeesSettled
  BY DEF MintIInv, Fees
<1> QED
  BY <1>1, MintHolds, PTL

----------------------------------------------------------------------------
(* GatewayHost: the inductive invariant, in one part per module of the gateway *)

Busy == [pc : {"verified", "accepted", "claiming"}, event : Events, now : Seconds]

Fair == blame \cap {"restarted", "clockBack", "stalled"} = {}

Carries(q, e) == At(q, "verified") /\ EventOf(q) = e

\* The map holds an event until its expiry or not at all.
Known == \A e \in Events : spent[e] \in {0, Expiry(e)}

\* A request that waits for the check was fresh when it read the clock.
Timely ==
  \A q \in Requests : At(q, "verified") =>
    /\ request[q].now < Expiry(EventOf(q))
    /\ "clockBack" \notin blame => request[q].now <= clock

\* An event that was let in is in the map, or has expired with no copy waiting.
Remembered(e) ==
  accepted[e] = 0 \/ spent[e] = Expiry(e) \/ (clock >= Expiry(e) /\ \A q \in Requests : ~Carries(q, e))

Once == Fair => \A e \in Events : accepted[e] <= 1 /\ Remembered(e)

GateHolds == Known /\ Timely /\ Once

\* Only the configured operator is told so, or only the claimed one; a claim
\* is being written only while there is neither.
Configured == envAdmin # NoOne => told \subseteq {envAdmin} /\ \A q \in Requests : ~At(q, "claiming")
Claimant ==
  envAdmin = NoOne /\ "claimRace" \notin blame =>
    /\ told \subseteq {operator}
    /\ \A p, q \in Requests : At(p, "claiming") /\ At(q, "claiming") => p = q
    /\ operator # NoOne => \A q \in Requests : ~At(q, "claiming")

RulingHolds == Configured /\ Claimant

\* The snapshots, while the clock only goes forward and no second has two: a
\* file that is being written is not whole, every other one is older, and so
\* the pruning that follows never reaches the newest.
Orderly == blame \cap {"clockBack", "overwritten"} = {}

Newest(s, ver) ==
  \A t \in Seconds \ {s} : files[t].ver < ver /\ files[t].at <= files[s].at

Written ==
  /\ \A s \in Seconds : files[s].at <= clock /\ files[s].ver <= taken
  /\ reported <= taken
  /\ backup.pc \in {"open", "fill", "prune"} => backup.ver = taken /\ backup.ver > 0
  /\ backup.pc \in {"open", "fill"} => \A s \in Seconds : files[s].ver = taken =>
       s = backup.sec /\ backup.pc = "fill" /\ ~files[s].whole
  /\ backup.pc = "prune" =>
       /\ files[backup.sec].whole /\ files[backup.sec].ver = backup.ver
       /\ Newest(backup.sec, backup.ver)

Surviving == reported # 0 => \E s \in Seconds : files[s].whole /\ files[s].ver >= reported

SnapshotsHold == Orderly => Written /\ Surviving

HostIInv == HostTypeOK /\ GateHolds /\ RulingHolds /\ SnapshotsHold

----------------------------------------------------------------------------
(* GatewayHost: types *)

LEMMA Constants ==
  /\ MaxSkew \in Nat /\ Retention \in Nat /\ MaxClock \in Nat /\ MaxSnapshots \in Nat
  /\ MaxFaults \in Nat /\ Signer \in [Events -> Callers] /\ NoOne \notin Callers
BY GatewayHostAssumption

LEMMA SecondsNat == Seconds \subseteq Nat /\ 0 \in Seconds
BY Constants DEF Seconds

LEMMA BusyRequests ==
  ASSUME HostTypeOK, NEW q \in Requests, ~At(q, "idle")
  PROVE  /\ request[q] \in Busy /\ EventOf(q) \in Events /\ request[q].now \in Seconds
         /\ Caller(q) \in Callers
BY Constants DEF HostTypeOK, Busy, At, Idle, EventOf, Caller

LEMMA ExpiryNat ==
  ASSUME HostTypeOK, NEW e \in Events
  PROVE  Expiry(e) \in Nat /\ Expiry(e) > 0
<1>1. created[e] \in Nat
  BY SecondsNat DEF HostTypeOK
<1> QED
  BY <1>1, Constants DEF Expiry

LEMMA BackupStates ==
  /\ Waits \in [pc : {"waits", "due", "open", "fill", "prune"}, sec : Seconds, ver : Nat]
  /\ Due \in [pc : {"waits", "due", "open", "fill", "prune"}, sec : Seconds, ver : Nat]
  /\ NoFile \in [ver : Nat, at : Seconds, whole : BOOLEAN]
BY SecondsNat DEF Due, Waits, NoFile

LEMMA HostTypeInit == HostInit => HostTypeOK
BY Constants, SecondsNat DEF HostInit, HostTypeOK, Due, Waits, NoFile

LEMMA HostTypeStep == HostTypeOK /\ [HostNext]_hostVars => HostTypeOK'
<1> SUFFICES ASSUME HostTypeOK, [HostNext]_hostVars PROVE HostTypeOK'
  OBVIOUS
<1> USE Constants, SecondsNat, BackupStates
<1>1. ASSUME NEW q \in Requests, NEW e \in Events, Deliver(q, e) PROVE HostTypeOK'
  BY <1>1 DEF HostTypeOK, Deliver, signed, ruling, snapshots, At
<1>2. ASSUME NEW q \in Requests, RateLimited(q) PROVE HostTypeOK'
  BY <1>2 DEF HostTypeOK, RateLimited, Ends, signed, ruling, snapshots
<1>3. ASSUME NEW q \in Requests, CheckReplay(q) PROVE HostTypeOK'
  <2> EventOf(q) \in Events
    BY <1>3, BusyRequests DEF CheckReplay, At
  <2>1. Expiry(EventOf(q)) \in Nat
    BY ExpiryNat
  <2>2. \A known \in {spent, Pruned(request[q].now)} : known \in [Events -> Nat]
    BY DEF HostTypeOK, Pruned
  <2>3. spent' \in [Events -> Nat] /\ accepted' \in [Events -> Nat]
    BY <1>3, <2>1, <2>2 DEF CheckReplay, HostTypeOK
  <2>4. request' \in [Requests -> {Idle} \cup Busy]
    BY <1>3, BusyRequests DEF CheckReplay, HostTypeOK, Ends, At, Busy
  <2>5. blame' \subseteq {"restarted", "clockBack", "stalled", "claimRace", "overwritten"}
    BY <1>3 DEF CheckReplay, HostTypeOK
  <2> QED
    BY <1>3, <2>3, <2>4, <2>5 DEF CheckReplay, HostTypeOK, Busy, signed, ruling, snapshots
<1>4. ASSUME NEW q \in Requests, AdminClaims(q) PROVE HostTypeOK'
  <2> Caller(q) \in Callers /\ request[q] \in Busy
    BY <1>4, BusyRequests DEF AdminClaims, ClaimsFrom, At
  <2>1. request' \in [Requests -> {Idle} \cup Busy]
    BY <1>4 DEF AdminClaims, ClaimsFrom, HostTypeOK, Ends, Busy
  <2> QED
    BY <1>4, <2>1 DEF AdminClaims, ClaimsFrom, HostTypeOK, Busy, signed, snapshots
<1>5. ASSUME NEW q \in Requests, AdminClaimed(q) PROVE HostTypeOK'
  <2> Caller(q) \in Callers
    BY <1>5, BusyRequests DEF AdminClaimed, At
  <2> QED
    BY <1>5 DEF AdminClaimed, Ends, HostTypeOK, signed, snapshots
<1>6. ASSUME NEW q \in Requests, Operates(q) PROVE HostTypeOK'
  <2> Caller(q) \in Callers
    BY <1>6, BusyRequests DEF Operates, At
  <2> QED
    BY <1>6 DEF Operates, Ends, HostTypeOK, signed, snapshots
<1>7. CASE TakeSnapshot
  <2>1. taken' \in Nat
    BY <1>7 DEF TakeSnapshot, HostTypeOK
  <2>2. temps' \subseteq Seconds
    BY <1>7 DEF TakeSnapshot, HostTypeOK
  <2>3. backup' \in [pc : {"waits", "due", "open", "fill", "prune"}, sec : Seconds, ver : Nat]
    BY <1>7 DEF TakeSnapshot, HostTypeOK
  <2> QED
    BY <1>7, <2>1, <2>2, <2>3 DEF TakeSnapshot, HostTypeOK, signed, gate, ruling
<1>8. CASE OpenArtifact
  BY <1>8 DEF OpenArtifact, HostTypeOK, signed, gate, ruling
<1>9. CASE FillArtifact
  BY <1>9 DEF FillArtifact, HostTypeOK, signed, gate, ruling
<1>10. CASE Prune
  <2>1. files' \in [Seconds -> [ver : Nat, at : Seconds, whole : BOOLEAN]]
    BY <1>10 DEF Prune, Artifacts, HostTypeOK
  <2> QED
    BY <1>10, <2>1 DEF Prune, HostTypeOK, signed, gate, ruling
<1>11. CASE PruneFails \/ Reports
  <2>1. CASE PruneFails
    <3>1. files' \in [Seconds -> [ver : Nat, at : Seconds, whole : BOOLEAN]]
      BY <2>1 DEF PruneFails, HostTypeOK
    <3> QED
      BY <2>1, <3>1 DEF PruneFails, Waits, HostTypeOK, signed, gate, ruling
  <2>2. CASE Reports
    BY <2>2 DEF Reports, Waits, HostTypeOK, signed, gate, ruling
  <2> QED
    BY <1>11, <2>1, <2>2
<1>12. CASE Tick
  <2>1. clock' \in Seconds
    BY <1>12 DEF Tick, Seconds, HostTypeOK
  <2>2. backup' \in [pc : {"waits", "due", "open", "fill", "prune"}, sec : Seconds, ver : Nat]
    BY <1>12 DEF Tick, Wakes, HostTypeOK
  <2> QED
    BY <1>12, <2>1, <2>2 DEF Tick, HostTypeOK, signed, gate, ruling
<1>13. CASE StepBack
  <2>1. clock' \in Seconds
    BY <1>13 DEF StepBack, Seconds, HostTypeOK
  <2>2. backup' \in [pc : {"waits", "due", "open", "fill", "prune"}, sec : Seconds, ver : Nat]
    BY <1>13 DEF StepBack, Wakes, HostTypeOK
  <2> QED
    BY <1>13, <2>1, <2>2 DEF StepBack, HostTypeOK, signed, gate, ruling
<1>14. CASE WriteFails
  <2>1. faults' \in Nat
    BY <1>14 DEF WriteFails, HostTypeOK
  <2>2. temps' \subseteq Seconds
    BY <1>14 DEF WriteFails, HostTypeOK
  <2> QED
    BY <1>14, <2>1, <2>2 DEF WriteFails, HostTypeOK, signed, gate, ruling
<1>15. CASE Restart
  BY <1>15 DEF Restart, Due, Waits, HostTypeOK, signed, ruling
<1>16. CASE UNCHANGED hostVars
  BY <1>16 DEF HostTypeOK, hostVars, signed, gate, ruling, snapshots
<1> QED
  BY <1>1, <1>2, <1>3, <1>4, <1>5, <1>6, <1>7, <1>8, <1>9, <1>10, <1>11, <1>12, <1>13,
     <1>14, <1>15, <1>16 DEF HostNext, Serve

----------------------------------------------------------------------------
(* GatewayHost: the gate *)

\* No step that leaves the requests, the map and the clock alone matters.
LEMMA GateStutters ==
  ASSUME GateHolds, UNCHANGED <<clock, request, spent, created, accepted>>, blame \subseteq blame'
  PROVE  GateHolds'
BY DEF GateHolds, Known, Timely, Once, Fair, Remembered, Carries, At, EventOf, Expiry

\* A request that leaves the check behind is of no concern to it.
LEMMA GateLeaves ==
  ASSUME HostTypeOK, GateHolds, NEW q \in Requests, NEW r \in {Idle} \cup Busy, r.pc # "verified",
         request' = [request EXCEPT ![q] = r],
         UNCHANGED <<clock, spent, created, accepted>>, blame \subseteq blame'
  PROVE  GateHolds'
<1>1. \A p \in Requests : At(p, "verified")' =>
         At(p, "verified") /\ request'[p] = request[p] /\ EventOf(p)' = EventOf(p)
  BY DEF HostTypeOK, At, EventOf
<1>2. Known' /\ Timely'
  BY <1>1 DEF GateHolds, Known, Timely, Expiry, EventOf
<1>3. \A e \in Events : Remembered(e) => Remembered(e)'
  BY <1>1 DEF Remembered, Carries, Expiry
<1>4. Once'
  BY <1>3 DEF GateHolds, Once, Fair
<1> QED
  BY <1>2, <1>4 DEF GateHolds

LEMMA DeliverGate ==
  ASSUME HostTypeOK, GateHolds, NEW q \in Requests, NEW e \in Events, Deliver(q, e)
  PROVE  GateHolds'
<1> DEFINE r == [pc |-> "verified", event |-> e, now |-> clock]
<1>1. /\ request' = [request EXCEPT ![q] = r]
      /\ UNCHANGED <<clock, spent, created, accepted, blame>>
  BY DEF Deliver, signed
<1>2. clock < Expiry(e)
  <2>1. clock \in Nat /\ created[e] \in Nat /\ MaxSkew \in Nat
    BY Constants, SecondsNat DEF HostTypeOK
  <2> QED
    BY <2>1 DEF Deliver, Fresh, Expiry
<1>3. \A p \in Requests : At(p, "verified")' =>
         \/ p = q /\ EventOf(p)' = e /\ request'[p].now = clock
         \/ At(p, "verified") /\ request'[p] = request[p] /\ EventOf(p)' = EventOf(p)
  BY <1>1 DEF HostTypeOK, At, EventOf
<1>4. \A x \in Events : Expiry(x)' = Expiry(x)
  BY <1>1 DEF Expiry
<1>5. clock \in Nat
  BY SecondsNat DEF HostTypeOK
<1>6. Known'
  BY <1>1, <1>4 DEF GateHolds, Known
<1>7. Timely'
  <2> SUFFICES ASSUME NEW p \in Requests, At(p, "verified")'
               PROVE  /\ request'[p].now < Expiry(EventOf(p))'
                      /\ "clockBack" \notin blame' => request'[p].now <= clock'
    BY DEF Timely
  <2>1. CASE EventOf(p)' = e /\ request'[p].now = clock
    <3>1. Expiry(EventOf(p))' = Expiry(e)
      BY <1>1, <2>1 DEF Expiry
    <3> QED
      BY <1>1, <1>2, <1>5, <2>1, <3>1
  <2>2. CASE At(p, "verified") /\ request'[p] = request[p] /\ EventOf(p)' = EventOf(p)
    <3>1. Expiry(EventOf(p))' = Expiry(EventOf(p))
      BY <1>1, <2>2 DEF Expiry
    <3> QED
      BY <1>1, <2>2, <3>1 DEF GateHolds, Timely
  <2> QED
    BY <1>3, <2>1, <2>2
<1>8. ASSUME NEW x \in Events, Remembered(x) PROVE Remembered(x)'
  <2>1. CASE x = e
    <3>1. Expiry(e) \in Nat /\ ~(clock >= Expiry(e))
      BY <1>2, <1>5, ExpiryNat
    <3> QED
      BY <1>1, <1>4, <1>8, <2>1, <3>1 DEF Remembered
  <2>2. CASE x # e
    <3>1. \A p \in Requests : Carries(p, x)' => Carries(p, x)
      BY <1>3, <2>2 DEF Carries
    <3> QED
      BY <1>1, <1>4, <1>8, <3>1 DEF Remembered
  <2> QED
    BY <2>1, <2>2
<1>9. Once'
  BY <1>1, <1>8 DEF GateHolds, Once, Fair
<1> QED
  BY <1>6, <1>7, <1>9 DEF GateHolds

\* What a prune may forget: an event no waiting request can bring back, unless
\* one of them was overtaken.
LEMMA PruneForgets ==
  ASSUME HostTypeOK, GateHolds, NEW q \in Requests, At(q, "verified"),
         NEW known \in {spent, Pruned(request[q].now)}, "clockBack" \notin blame,
         ~\E p \in Requests : /\ At(p, "verified") /\ spent[EventOf(p)] > request[p].now
                              /\ known[EventOf(p)] = 0,
         NEW e \in Events, Remembered(e), accepted[e] # 0
  PROVE  \/ known[e] = Expiry(e)
         \/ clock >= Expiry(e) /\ \A p \in Requests : ~Carries(p, e)
<1>1. Expiry(e) \in Nat /\ Expiry(e) > 0 /\ clock \in Nat /\ request[q].now \in Nat
  BY ExpiryNat, BusyRequests, SecondsNat DEF HostTypeOK, At
<1>2. CASE spent[e] # Expiry(e)
  BY <1>2 DEF Remembered
<1>3. CASE spent[e] = Expiry(e) /\ known[e] # Expiry(e)
  <2>1. known[e] = 0 /\ ~(spent[e] > request[q].now)
    BY <1>3 DEF Pruned
  <2>2. request[q].now <= clock
    BY DEF GateHolds, Timely
  <2>3. clock >= Expiry(e)
    BY <1>1, <1>3, <2>1, <2>2
  <2>4. \A p \in Requests : ~Carries(p, e)
    <3> SUFFICES ASSUME NEW p \in Requests, Carries(p, e) PROVE FALSE
      OBVIOUS
    <3>1. At(p, "verified") /\ EventOf(p) = e
      BY DEF Carries
    <3>2. request[p].now < Expiry(e) /\ request[p].now \in Nat
      BY <3>1, BusyRequests, SecondsNat DEF GateHolds, Timely, At
    <3>3. spent[EventOf(p)] > request[p].now
      BY <1>1, <1>3, <3>1, <3>2
    <3> QED
      BY <2>1, <3>1, <3>3
  <2> QED
    BY <2>3, <2>4
<1> QED
  BY <1>2, <1>3

LEMMA CheckGate ==
  ASSUME HostTypeOK, GateHolds, NEW q \in Requests, CheckReplay(q)
  PROVE  GateHolds'
<1>0. PICK e \in Events, now \in Nat : e = EventOf(q) /\ now = request[q].now
  BY BusyRequests, SecondsNat DEF CheckReplay, At
<1>1. At(q, "verified") /\ now < Expiry(e) /\ UNCHANGED <<clock, created>>
  BY <1>0 DEF CheckReplay, signed, GateHolds, Timely
<1>2. PICK known \in {spent, Pruned(now)} :
        /\ blame' = IF \E p \in Requests : /\ At(p, "verified")
                                           /\ spent[EventOf(p)] > request[p].now
                                           /\ known[EventOf(p)] = 0
                    THEN blame \cup {"stalled"} ELSE blame
        /\ \/ /\ known[e] > now /\ spent' = known /\ Ends(q) /\ UNCHANGED accepted
           \/ /\ known[e] <= now /\ spent' = [known EXCEPT ![e] = Expiry(e)]
              /\ accepted' = [accepted EXCEPT ![e] = @ + 1]
              /\ request' = [request EXCEPT ![q].pc = "accepted"]
  BY <1>0 DEF CheckReplay
<1>3. known \in [Events -> Nat] /\ \A x \in Events : known[x] \in {0, Expiry(x)}
  BY DEF Pruned, HostTypeOK, GateHolds, Known
<1>4. \A x \in Events : Expiry(x)' = Expiry(x)
  BY <1>1 DEF Expiry
<1>5. \A p \in Requests : At(p, "verified")' =>
         At(p, "verified") /\ p # q /\ request'[p] = request[p] /\ EventOf(p)' = EventOf(p)
  BY <1>2, BusyRequests DEF HostTypeOK, At, EventOf, Ends, Idle
<1>6. Known'
  BY <1>1, <1>2, <1>3, <1>4 DEF Known
<1>7. blame \subseteq blame'
  BY <1>2
<1>8. Timely'
  <2> SUFFICES ASSUME NEW p \in Requests, At(p, "verified")'
               PROVE  /\ request'[p].now < Expiry(EventOf(p))'
                      /\ "clockBack" \notin blame' => request'[p].now <= clock'
    BY DEF Timely
  <2>1. At(p, "verified") /\ request'[p] = request[p] /\ EventOf(p)' = EventOf(p)
    BY <1>5
  <2>2. Expiry(EventOf(p))' = Expiry(EventOf(p))
    BY <1>1, <2>1 DEF Expiry
  <2> QED
    BY <1>1, <1>7, <2>1, <2>2 DEF GateHolds, Timely
<1>9. ASSUME Fair' PROVE \A x \in Events : (accepted[x] <= 1 /\ Remembered(x))'
  <2>1. Fair /\ "clockBack" \notin blame /\ "stalled" \notin blame'
    BY <1>7, <1>9 DEF Fair
  <2>2. ~\E p \in Requests : /\ At(p, "verified") /\ spent[EventOf(p)] > request[p].now
                             /\ known[EventOf(p)] = 0
    BY <1>2, <2>1
  <2>3. \A x \in Events : accepted[x] <= 1 /\ Remembered(x) /\ accepted[x] \in Nat
    BY <2>1 DEF GateHolds, Once, HostTypeOK
  <2>4. \A x \in Events : accepted[x] # 0 =>
          \/ known[x] = Expiry(x)
          \/ clock >= Expiry(x) /\ \A p \in Requests : ~Carries(p, x)
    BY <1>0, <1>1, <2>1, <2>2, <2>3, PruneForgets
  <2>5. \A p \in Requests, x \in Events : Carries(p, x)' => Carries(p, x)
    BY <1>5 DEF Carries
  <2>6. CASE known[e] > now /\ spent' = known /\ Ends(q) /\ UNCHANGED accepted
    BY <1>1, <1>4, <2>3, <2>4, <2>5, <2>6 DEF Remembered
  <2>7. CASE /\ known[e] <= now /\ spent' = [known EXCEPT ![e] = Expiry(e)]
             /\ accepted' = [accepted EXCEPT ![e] = @ + 1]
    <3>1. accepted[e] = 0
      <4>1. Carries(q, e) /\ Expiry(e) \in Nat /\ known[e] \in Nat
        BY <1>0, <1>1, <1>3, ExpiryNat DEF Carries
      <4>2. known[e] # Expiry(e)
        BY <1>1, <2>7, <4>1
      <4> QED
        BY <1>1, <2>4, <4>1, <4>2
    <3>2. accepted'[e] = 1 /\ spent'[e] = Expiry(e)
      BY <1>1, <1>3, <2>7, <3>1 DEF HostTypeOK
    <3>3. \A x \in Events \ {e} : accepted'[x] = accepted[x] /\ spent'[x] = known[x]
      BY <1>3, <2>7 DEF HostTypeOK
    <3>4. (accepted[e] <= 1 /\ Remembered(e))'
      BY <1>1, <1>4, <3>2 DEF Remembered
    <3>5. \A x \in Events \ {e} : (accepted[x] <= 1 /\ Remembered(x))'
      BY <1>1, <1>4, <2>3, <2>4, <2>5, <3>3 DEF Remembered
    <3> QED
      BY <3>4, <3>5
  <2> QED
    BY <1>2, <2>6, <2>7
<1>10. Once'
  BY <1>9 DEF Once
<1> QED
  BY <1>6, <1>8, <1>10 DEF GateHolds

LEMMA TickGate ==
  ASSUME HostTypeOK, GateHolds, Tick
  PROVE  GateHolds'
<1>1. /\ clock \in Nat /\ clock' = clock + 1
      /\ UNCHANGED <<request, spent, created, accepted, blame>>
  BY SecondsNat DEF HostTypeOK, Tick, signed, gate
<1>2. \A e \in Events : Expiry(e)' = Expiry(e) /\ Expiry(e) \in Nat
  BY <1>1, ExpiryNat DEF Expiry
<1>3. Known'
  BY <1>1, <1>2 DEF GateHolds, Known
<1>4. Timely'
  <2>1. \A q \in Requests : At(q, "verified") => request[q].now \in Nat /\ EventOf(q) \in Events
    BY BusyRequests, SecondsNat DEF At
  <2> QED
    BY <1>1, <1>2, <2>1 DEF GateHolds, Timely, EventOf, At
<1>5. \A e \in Events : Remembered(e) => Remembered(e)'
  BY <1>1, <1>2 DEF Remembered, Carries, At, EventOf
<1> QED
  BY <1>1, <1>3, <1>4, <1>5 DEF GateHolds, Once, Fair

LEMMA StepBackGate ==
  ASSUME HostTypeOK, GateHolds, StepBack
  PROVE  GateHolds'
<1>1. UNCHANGED <<request, spent, created, accepted>> /\ "clockBack" \in blame'
  BY DEF StepBack, signed, gate
<1> QED
  BY <1>1 DEF GateHolds, Known, Timely, Once, Fair, EventOf, At, Expiry

LEMMA RestartGate ==
  ASSUME HostTypeOK, GateHolds, Restart
  PROVE  GateHolds'
<1>1. /\ request' = [q \in Requests |-> Idle] /\ spent' = [e \in Events |-> 0]
      /\ blame' = IF \E e \in Events : spent[e] > clock THEN blame \cup {"restarted"} ELSE blame
      /\ UNCHANGED <<clock, created, accepted>>
  BY DEF Restart, signed
<1>2. \A q \in Requests : ~At(q, "verified")'
  BY <1>1 DEF At, Idle
<1>3. ASSUME Fair' PROVE Fair /\ \A e \in Events : ~(spent[e] > clock)
  BY <1>1, <1>3 DEF Fair
<1>4. Known' /\ Timely'
  BY <1>1, <1>2 DEF Known, Timely
<1>5. ASSUME Fair', NEW e \in Events PROVE (accepted[e] <= 1 /\ Remembered(e))'
  <2>1. accepted[e] <= 1 /\ Remembered(e) /\ ~(spent[e] > clock)
    BY <1>3, <1>5 DEF GateHolds, Once
  <2>2. Expiry(e) \in Nat /\ clock \in Nat /\ Expiry(e)' = Expiry(e)
    BY <1>1, ExpiryNat, SecondsNat DEF HostTypeOK, Expiry
  <2>3. accepted[e] = 0 \/ clock >= Expiry(e)
    BY <2>1, <2>2 DEF Remembered
  <2> QED
    BY <1>1, <1>2, <2>1, <2>2, <2>3 DEF Remembered, Carries
<1> QED
  BY <1>4, <1>5 DEF GateHolds, Once

LEMMA GateStep == HostTypeOK /\ GateHolds /\ [HostNext]_hostVars => GateHolds'
<1> SUFFICES ASSUME HostTypeOK, GateHolds, [HostNext]_hostVars PROVE GateHolds'
  OBVIOUS
<1>1. ASSUME NEW q \in Requests, RateLimited(q) \/ AdminClaims(q) \/ AdminClaimed(q) \/ Operates(q)
      PROVE  GateHolds'
  <2>1. UNCHANGED <<clock, spent, created, accepted>> /\ blame \subseteq blame'
    BY <1>1 DEF RateLimited, AdminClaims, ClaimsFrom, AdminClaimed, Operates, signed
  <2>2. request[q] \in Busy
    BY <1>1, BusyRequests DEF RateLimited, AdminClaims, ClaimsFrom, AdminClaimed, Operates, At
  <2>3. \E r \in {Idle} \cup Busy : r.pc # "verified" /\ request' = [request EXCEPT ![q] = r]
    <3>1. CASE Ends(q)
      BY <3>1 DEF Ends, Idle
    <3>2. CASE request' = [request EXCEPT ![q].pc = "claiming"]
      <4> DEFINE r == [request[q] EXCEPT !.pc = "claiming"]
      <4>1. r \in Busy /\ r.pc # "verified" /\ request' = [request EXCEPT ![q] = r]
        BY <2>2, <3>2 DEF Busy, HostTypeOK
      <4> QED
        BY <4>1
    <3> QED
      BY <1>1, <3>1, <3>2 DEF RateLimited, AdminClaims, ClaimsFrom, AdminClaimed, Operates
  <2> QED
    BY <2>1, <2>3, GateLeaves
<1>2. ASSUME \/ TakeSnapshot \/ OpenArtifact \/ FillArtifact \/ Prune \/ PruneFails \/ Reports
             \/ WriteFails \/ UNCHANGED hostVars
      PROVE  GateHolds'
  <2>1. UNCHANGED <<clock, request, spent, created, accepted>> /\ blame \subseteq blame'
    BY <1>2 DEF TakeSnapshot, OpenArtifact, FillArtifact, Prune, PruneFails, Reports, WriteFails, hostVars,
                signed, gate
  <2> QED
    BY <2>1, GateStutters
<1> QED
  BY <1>1, <1>2, DeliverGate, CheckGate, TickGate, StepBackGate, RestartGate DEF HostNext, Serve

----------------------------------------------------------------------------
(* GatewayHost: the operator *)

LEMMA RulingStep == HostTypeOK /\ RulingHolds /\ [HostNext]_hostVars => RulingHolds'
<1> SUFFICES ASSUME HostTypeOK, RulingHolds, [HostNext]_hostVars PROVE RulingHolds'
  OBVIOUS
<1> USE Constants
\* Steps that bring no claim about and leave what was answered.
<1>1. ASSUME UNCHANGED <<envAdmin, operator, told>>, blame \subseteq blame',
             \A q \in Requests : At(q, "claiming")' => At(q, "claiming")
      PROVE  RulingHolds'
  BY <1>1 DEF RulingHolds, Configured, Claimant
<1>2. ASSUME NEW q \in Requests, AdminClaims(q) PROVE RulingHolds'
  <2>1. Caller(q) \in Callers /\ UNCHANGED <<envAdmin, operator>>
    BY <1>2, BusyRequests DEF AdminClaims, ClaimsFrom, At, signed
  <2>2. CASE Admin = NoOne /\ request' = [request EXCEPT ![q].pc = "claiming"] /\ UNCHANGED told
    <3>1. envAdmin = NoOne /\ operator = NoOne
      BY <2>2 DEF Admin
    <3>2. \A p \in Requests : At(p, "claiming")' <=> (p = q \/ At(p, "claiming"))
      BY <1>2, <2>2, BusyRequests DEF AdminClaims, ClaimsFrom, At, HostTypeOK, Busy
    <3>3. "claimRace" \notin blame' =>
            "claimRace" \notin blame /\ \A p \in Requests : ~At(p, "claiming")
      BY <1>2, <2>2 DEF AdminClaims, ClaimsFrom
    <3> QED
      BY <2>1, <2>2, <3>1, <3>2, <3>3 DEF RulingHolds, Configured, Claimant
  <2>3. CASE /\ Admin # NoOne /\ Ends(q) /\ UNCHANGED blame
             /\ told' = IF Admin = Caller(q) THEN told \cup {Caller(q)} ELSE told
    <3>1. \A p \in Requests : At(p, "claiming")' => At(p, "claiming")
      BY <2>3 DEF Ends, Idle, At, HostTypeOK
    <3> QED
      BY <2>1, <2>3, <3>1 DEF RulingHolds, Configured, Claimant, Admin
  <2> QED
    BY <1>2, <2>2, <2>3 DEF AdminClaims, ClaimsFrom
<1>3. ASSUME NEW q \in Requests, AdminClaimed(q) PROVE RulingHolds'
  <2>1. /\ Caller(q) \in Callers /\ UNCHANGED <<envAdmin, blame>> /\ At(q, "claiming")
        /\ operator' = Caller(q) /\ told' = told \cup {Caller(q)}
    BY <1>3, BusyRequests DEF AdminClaimed, At, signed
  <2>2. envAdmin = NoOne
    BY <2>1 DEF RulingHolds, Configured
  <2>3. \A p \in Requests : At(p, "claiming")' <=> (p # q /\ At(p, "claiming"))
    BY <1>3 DEF AdminClaimed, Ends, Idle, At, HostTypeOK
  <2>4. ASSUME "claimRace" \notin blame
        PROVE  told = {} /\ \A p \in Requests : ~At(p, "claiming")'
    BY <2>1, <2>2, <2>3, <2>4 DEF RulingHolds, Claimant, HostTypeOK
  <2> QED
    BY <2>1, <2>2, <2>4 DEF RulingHolds, Configured, Claimant
<1>4. ASSUME NEW q \in Requests, Operates(q) PROVE RulingHolds'
  <2>1. /\ Caller(q) \in Callers /\ UNCHANGED <<envAdmin, operator, blame>>
        /\ told' = IF Admin = Caller(q) THEN told \cup {Caller(q)} ELSE told
    BY <1>4, BusyRequests DEF Operates, At, signed
  <2>2. \A p \in Requests : At(p, "claiming")' => At(p, "claiming")
    BY <1>4 DEF Operates, Ends, Idle, At, HostTypeOK
  <2> QED
    BY <2>1, <2>2 DEF RulingHolds, Configured, Claimant, Admin
<1>5. ASSUME NEW q \in Requests, NEW e \in Events, Deliver(q, e) PROVE RulingHolds'
  <2>1. \A p \in Requests : At(p, "claiming")' => At(p, "claiming")
    BY <1>5 DEF Deliver, At, HostTypeOK
  <2> QED
    BY <1>1, <1>5, <2>1 DEF Deliver, signed, ruling
<1>6. ASSUME NEW q \in Requests, RateLimited(q) PROVE RulingHolds'
  <2>1. \A p \in Requests : At(p, "claiming")' => At(p, "claiming")
    BY <1>6 DEF RateLimited, Ends, Idle, At, HostTypeOK
  <2> QED
    BY <1>1, <1>6, <2>1 DEF RateLimited, signed, ruling
<1>7. ASSUME NEW q \in Requests, CheckReplay(q) PROVE RulingHolds'
  <2>1. \A p \in Requests : At(p, "claiming")' => At(p, "claiming")
    BY <1>7, BusyRequests DEF CheckReplay, Ends, Idle, At, HostTypeOK, Busy
  <2> QED
    BY <1>1, <1>7, <2>1 DEF CheckReplay, signed, ruling
<1>8. CASE Restart
  <2>1. \A p \in Requests : ~At(p, "claiming")'
    BY <1>8 DEF Restart, Idle, At
  <2> QED
    BY <1>1, <1>8, <2>1 DEF Restart, signed, ruling
<1>9. ASSUME \/ TakeSnapshot \/ OpenArtifact \/ FillArtifact \/ Prune \/ PruneFails \/ Reports
             \/ Tick \/ StepBack \/ WriteFails \/ UNCHANGED hostVars
      PROVE  RulingHolds'
  <2>1. UNCHANGED <<envAdmin, operator, told, request>> /\ blame \subseteq blame'
    BY <1>9 DEF TakeSnapshot, OpenArtifact, FillArtifact, Prune, PruneFails, Reports, Tick, StepBack,
                WriteFails, hostVars, signed, gate, ruling
  <2> QED
    BY <1>1, <2>1 DEF At
<1> QED
  BY <1>2, <1>3, <1>4, <1>5, <1>6, <1>7, <1>8, <1>9 DEF HostNext, Serve

----------------------------------------------------------------------------
(* GatewayHost: the snapshots *)

LEMMA FileTypes ==
  ASSUME HostTypeOK
  PROVE  /\ \A s \in Seconds : files[s].ver \in Nat /\ files[s].at \in Nat /\ files[s].whole \in BOOLEAN
         /\ backup.sec \in Seconds /\ backup.ver \in Nat /\ taken \in Nat /\ reported \in Nat
         /\ clock \in Nat /\ clock \in Seconds
BY SecondsNat DEF HostTypeOK

LEMMA PruneKeeps ==
  ASSUME HostTypeOK, Written, Surviving, Prune
  PROVE  Written' /\ Surviving'
<1>1. /\ backup.pc = "prune" /\ Cardinality(Artifacts) > Kept
      /\ UNCHANGED <<clock, backup, taken, reported>>
  BY DEF Prune
<1>2. PICK s \in Artifacts : /\ \A t \in Artifacts \ {s} : Older(s, t)
                             /\ files' = [files EXCEPT ![s] = NoFile]
  BY DEF Prune
<1>3. s \in Seconds /\ s # backup.sec
  <2>1. PICK t \in Artifacts : t # s
    <3>1. SUFFICES ASSUME Artifacts = {s} PROVE FALSE
      BY <1>2
    <3>2. Cardinality(Artifacts) = 1
      BY <3>1, FS_Singleton
    <3> QED
      BY <1>1, <3>2, Constants DEF Kept
  <2>2. s \in Seconds /\ t \in Seconds /\ Older(s, t)
    BY <1>2, <2>1 DEF Artifacts
  <2>3. s = backup.sec => files[t].ver < files[s].ver /\ files[t].at <= files[s].at
    BY <1>1, <2>1, <2>2 DEF Written, Newest
  <2> QED
    BY <2>2, <2>3, FileTypes DEF Older
<1>4. /\ files'[s] = NoFile /\ files'[backup.sec] = files[backup.sec]
      /\ \A t \in Seconds \ {s} : files'[t] = files[t]
  BY <1>2, <1>3, FileTypes DEF HostTypeOK
<1>5. NoFile.ver = 0 /\ NoFile.at = 0
  BY DEF NoFile
<1>6. Written'
  BY <1>1, <1>3, <1>4, <1>5, FileTypes DEF Written, Newest
<1>7. Surviving'
  BY <1>1, <1>4, FileTypes DEF Written, Surviving
<1> QED
  BY <1>6, <1>7

\* A file that failing removals take is past the newest ones: one is newer.
LEMMA FailingPruneKeeps ==
  ASSUME HostTypeOK, Written, Surviving, PruneFails
  PROVE  Written' /\ Surviving'
<1>1. /\ backup.pc = "prune" /\ reported' = backup.ver /\ backup'.pc = "waits"
      /\ UNCHANGED <<clock, taken>>
  BY DEF PruneFails, Waits
<1>2. PICK gone \in SUBSET Stale : files' = [s \in Seconds |-> IF s \in gone THEN NoFile ELSE files[s]]
  BY DEF PruneFails
<1>3. backup.sec \notin gone
  <2>1. \A t \in Artifacts : ~Older(backup.sec, t)
    <3> TAKE t \in Artifacts
    <3>1. t \in Seconds /\ (t # backup.sec => files[t].ver < files[backup.sec].ver /\ files[t].at <= files[backup.sec].at)
      BY <1>1 DEF Written, Newest, Artifacts
    <3> QED
      BY <3>1, FileTypes DEF Older
  <2>2. {t \in Artifacts : Older(backup.sec, t)} = {}
    BY <2>1
  <2>3. Cardinality({t \in Artifacts : Older(backup.sec, t)}) = 0
    BY <2>2, FS_EmptySet
  <2>4. Kept \in Nat /\ Kept >= 1
    BY Constants DEF Kept
  <2> QED
    BY <1>2, <2>3, <2>4 DEF Stale
<1>4. NoFile.ver = 0 /\ NoFile.at = 0
  BY DEF NoFile
<1>5. /\ files'[backup.sec] = files[backup.sec]
      /\ \A s \in Seconds : files'[s] = files[s] \/ (files'[s].ver = 0 /\ files'[s].at = 0)
  BY <1>2, <1>3, <1>4, FileTypes
<1>6. Written'
  BY <1>1, <1>5, FileTypes DEF Written
<1>7. Surviving'
  BY <1>1, <1>5, FileTypes DEF Written, Surviving
<1> QED
  BY <1>6, <1>7

LEMMA SnapshotsStep == HostTypeOK /\ SnapshotsHold /\ [HostNext]_hostVars => SnapshotsHold'
<1> SUFFICES ASSUME HostTypeOK, SnapshotsHold, [HostNext]_hostVars, Orderly'
             PROVE  Written' /\ Surviving'
  BY DEF SnapshotsHold
<1> USE FileTypes
<1>1. ASSUME blame \subseteq blame' PROVE Written /\ Surviving
  BY <1>1 DEF SnapshotsHold, Orderly
\* Steps that at most stop or wake the loop, while the clock goes forward.
<1>2. ASSUME UNCHANGED <<files, taken, reported>>, blame \subseteq blame',
             clock' \in Nat, clock <= clock', backup' \in {backup, Waits, Due}
      PROVE  Written' /\ Surviving'
  <2>1. Written /\ Surviving
    BY <1>1, <1>2
  <2>2. Waits.pc = "waits" /\ Due.pc = "due"
    BY DEF Waits, Due
  <2>3. Surviving'
    BY <1>2, <2>1 DEF Surviving
  <2>4. \A s \in Seconds : files'[s].at <= clock' /\ files'[s].ver <= taken'
    BY <1>2, <2>1 DEF Written
  <2>5. Written'
    BY <1>2, <2>1, <2>2, <2>4 DEF Written, Newest
  <2> QED
    BY <2>3, <2>5
<1>3. ASSUME \/ \E q \in Requests : Serve(q)
             \/ UNCHANGED hostVars
      PROVE  Written' /\ Surviving'
  <2>1. UNCHANGED <<files, taken, reported, clock, backup>> /\ blame \subseteq blame'
    BY <1>3 DEF Serve, Deliver, RateLimited, CheckReplay, AdminClaims, ClaimsFrom, AdminClaimed, Operates,
                hostVars, snapshots
  <2> QED
    BY <1>2, <2>1
<1>4. CASE TakeSnapshot
  <2>1. Written /\ Surviving /\ UNCHANGED <<clock, files, reported>>
    BY <1>1, <1>4 DEF TakeSnapshot
  <2>2. CASE taken' = taken + 1 /\ backup' = [pc |-> "open", sec |-> clock, ver |-> taken + 1]
    BY <2>1, <2>2 DEF Written, Surviving
  <2>3. CASE backup' = Waits /\ UNCHANGED taken
    BY <1>2, <1>4, <2>1, <2>3 DEF TakeSnapshot
  <2> QED
    BY <1>4, <2>2, <2>3 DEF TakeSnapshot
<1>5. CASE OpenArtifact
  <2> DEFINE f == [ver |-> backup.ver, at |-> clock, whole |-> FALSE]
  <2>1. /\ Written /\ Surviving /\ UNCHANGED <<clock, taken, reported>>
        /\ backup.pc = "open" /\ backup' = [backup EXCEPT !.pc = "fill"]
    BY <1>1, <1>5 DEF OpenArtifact
  <2>2. ~files[backup.sec].whole
    BY <1>5 DEF OpenArtifact, Orderly
  <2>3. files'[backup.sec] = f /\ \A t \in Seconds \ {backup.sec} : files'[t] = files[t]
    BY <1>5 DEF OpenArtifact, HostTypeOK
  <2>4. backup'.pc = "fill" /\ backup'.sec = backup.sec /\ backup'.ver = backup.ver
    BY <2>1 DEF HostTypeOK
  <2>5. f.ver = backup.ver /\ f.at = clock /\ ~f.whole
    OBVIOUS
  <2> HIDE DEF f
  <2>6. Written'
    BY <2>1, <2>3, <2>4, <2>5 DEF Written
  <2>7. Surviving'
    BY <2>1, <2>2, <2>3 DEF Surviving
  <2> QED
    BY <2>6, <2>7
<1>6. CASE FillArtifact
  <2> DEFINE f == [ver |-> backup.ver, at |-> clock, whole |-> TRUE]
  <2>1. /\ Written /\ Surviving /\ UNCHANGED <<clock, taken, reported>>
        /\ backup.pc = "fill" /\ backup' = [backup EXCEPT !.pc = "prune"]
    BY <1>1, <1>6 DEF FillArtifact
  <2>2. files'[backup.sec] = f /\ \A t \in Seconds \ {backup.sec} : files'[t] = files[t]
    BY <1>6 DEF FillArtifact, HostTypeOK
  <2>3. backup'.pc = "prune" /\ backup'.sec = backup.sec /\ backup'.ver = backup.ver
    BY <2>1 DEF HostTypeOK
  <2>4. f.ver = backup.ver /\ f.at = clock /\ f.whole
    OBVIOUS
  <2> HIDE DEF f
  <2>5. \A t \in Seconds \ {backup.sec} : files[t].ver < backup.ver /\ files[t].at <= clock
    BY <2>1 DEF Written
  <2>6. Written'
    BY <2>1, <2>2, <2>3, <2>4, <2>5 DEF Written, Newest
  <2>7. Surviving'
    BY <2>1, <2>2, <2>4 DEF Written, Surviving
  <2> QED
    BY <2>6, <2>7
<1>7. CASE Prune
  BY <1>1, <1>7, PruneKeeps DEF Prune
<1>8. CASE Reports
  <2>1. /\ Written /\ Surviving /\ UNCHANGED <<clock, files, taken>>
        /\ backup.pc = "prune" /\ reported' = backup.ver /\ backup' = Waits
    BY <1>1, <1>8 DEF Reports
  <2>2. Surviving'
    BY <2>1 DEF Written, Surviving
  <2>3. Written'
    BY <2>1 DEF Written, Waits
  <2> QED
    BY <2>2, <2>3
<1>9. CASE Tick \/ WriteFails \/ Restart
  <2>1. /\ UNCHANGED <<files, taken, reported>> /\ blame \subseteq blame'
        /\ backup' \in {backup, Waits, Due}
    BY <1>9 DEF Tick, WriteFails, Restart, Wakes
  <2>2. clock' = clock \/ clock' = clock + 1
    BY <1>9 DEF Tick, WriteFails, Restart
  <2> QED
    BY <1>2, <2>1, <2>2
<1>10. CASE StepBack
  BY <1>10 DEF StepBack, Orderly
<1>11. CASE PruneFails
  BY <1>1, <1>11, FailingPruneKeeps DEF PruneFails
<1> QED
  BY <1>3, <1>4, <1>5, <1>6, <1>7, <1>8, <1>9, <1>10, <1>11 DEF HostNext

----------------------------------------------------------------------------
(* GatewayHost: the theorems *)

LEMMA HostInitHolds == HostInit => HostIInv
<1> SUFFICES ASSUME HostInit PROVE HostIInv
  OBVIOUS
<1> USE Constants
<1>1. HostTypeOK
  BY HostTypeInit
<1>2. \A q \in Requests : request[q].pc = "idle"
  BY DEF HostInit, Idle
<1>3. GateHolds
  BY <1>2 DEF HostInit, GateHolds, Known, Timely, Once, Remembered, At
<1>4. RulingHolds
  BY <1>2 DEF HostInit, RulingHolds, Configured, Claimant, At
<1>5. SnapshotsHold
  <2>1. \A s \in Seconds : files[s].ver = 0 /\ files[s].at = 0
    BY DEF HostInit, NoFile
  <2>2. backup.pc = "due" /\ clock = 0 /\ taken = 0 /\ reported = 0
    BY DEF HostInit, Due, Waits
  <2> QED
    BY <2>1, <2>2 DEF SnapshotsHold, Written, Surviving
<1> QED
  BY <1>1, <1>3, <1>4, <1>5 DEF HostIInv

\* The state of the gate, the operator and the backups in every reachable state.
THEOREM HostHolds == HostSpec => []HostIInv
<1>1. HostInit => HostIInv
  BY HostInitHolds
<1>2. HostIInv /\ [HostNext]_hostVars => HostIInv'
  BY HostTypeStep, GateStep, RulingStep, SnapshotsStep DEF HostIInv
<1> QED
  BY <1>1, <1>2, PTL DEF HostSpec

\* Every variable keeps its type.
THEOREM HostTypeCorrect == HostSpec => []HostTypeOK
<1>1. HostIInv => HostTypeOK
  BY DEF HostIInv
<1> QED
  BY <1>1, HostHolds, PTL

\* No copy of a signed request is let in (security.rs:6), but for the
\* exceptions that SpentOnce names.
THEOREM EventsSpentOnce == HostSpec => []SpentOnce
<1>1. HostIInv => SpentOnce
  BY DEF HostIInv, GateHolds, Once, Fair, SpentOnce
<1> QED
  BY <1>1, HostHolds, PTL

\* One caller is the operator, over all restarts (routes/mod.rs, admin_claim).
THEOREM OperatorUnique == HostSpec => []OneOperator
<1>1. ASSUME HostIInv, "claimRace" \notin blame PROVE Cardinality(told) <= 1
  <2>1. PICK x : told \subseteq {x}
    BY <1>1 DEF HostIInv, RulingHolds, Configured, Claimant
  <2>2. told = {} \/ told = {x}
    BY <2>1
  <2>3. Cardinality(told) = 0 \/ Cardinality(told) = 1
    BY <2>2, FS_EmptySet, FS_Singleton
  <2> QED
    BY <2>3
<1>2. HostIInv => OneOperator
  BY <1>1 DEF OneOperator
<1> QED
  BY <1>2, HostHolds, PTL

\* A reported snapshot, or a later one, is there and whole (backup.rs), but
\* for the exceptions that NewestSnapshotKept names.
THEOREM SnapshotSurvives == HostSpec => []NewestSnapshotKept
<1>1. ASSUME HostIInv, reported # 0, Orderly
      PROVE  \E s \in Artifacts : files[s].whole /\ files[s].ver >= reported
  <2>1. HostTypeOK /\ Surviving
    BY <1>1 DEF HostIInv, SnapshotsHold
  <2>2. PICK s \in Seconds : files[s].whole /\ files[s].ver >= reported
    BY <1>1, <2>1 DEF Surviving
  <2>3. s \in Artifacts
    BY <2>2 DEF Artifacts, NoFile
  <2> QED
    BY <2>2, <2>3
<1>2. HostIInv => NewestSnapshotKept
  BY <1>1 DEF NewestSnapshotKept, Orderly
<1> QED
  BY <1>2, HostHolds, PTL
================================================================================
