----------------------------- MODULE GatewayHost -----------------------------
(***************************************************************************)
(* What the gateway does around its ledger, under one wall clock that may  *)
(* step back and with restarts: it lets a signed request in once (auth.rs, *)
(* security.rs), it keeps an operator (routes/mod.rs), and it writes       *)
(* snapshots of the ledger and deletes old ones (backup.rs, main.rs).      *)
(*                                                                         *)
(* An event is the authorisation a request carries: a signature over the   *)
(* call and the second it was made.  A copy of it may arrive at any time.  *)
(* Snapshots are numbered: a later one holds a later state of the ledger.  *)
(***************************************************************************)
EXTENDS Naturals, FiniteSets, FiniteSetsExt

CONSTANTS
  Events, Requests, Callers,
  Signer,       \* who signed an event
  NoOne,        \* no operator
  MaxSkew,      \* max_skew_secs
  Retention,    \* backup_retention
  MaxClock,     \* bound on the clock, in seconds
  MaxSnapshots, \* bound on the snapshots
  MaxFaults     \* bound on restarts, steps back of the clock, and failing writes and removals

ASSUME GatewayHostAssumption ==
  /\ Signer \in [Events -> Callers] /\ NoOne \notin Callers
  /\ {MaxSkew, Retention, MaxClock, MaxSnapshots, MaxFaults} \subseteq Nat

VARIABLES
  clock,     \* the wall clock
  created,   \* the second each event was signed in
  call,      \* the route each event was signed for
  request,   \* what each connection does
  spent,     \* Maps.replay: the expiry of each spent event, 0 for none
  envAdmin,  \* admin_pubkey of the configuration
  operator,  \* the operator the registry keeps
  accepted,  \* how often each event was let in
  told,      \* the callers that were answered as the operator
  files,     \* the snapshots in the backup directory, by the second in their name
  temps,     \* the temporary files left there, by the second in their name
  backup,    \* what the backup loop does
  taken,     \* snapshots taken so far
  reported,  \* the last snapshot that was logged as written
  faults,
  blame      \* what happened that the properties make an exception for

signed == <<created, call, envAdmin>>
gate == <<request, spent, accepted>>
ruling == <<operator, told>>
snapshots == <<files, temps, backup, taken, reported>>
hostVars == <<clock, signed, gate, ruling, snapshots, faults, blame>>

Seconds == 0 .. MaxClock
NoFile == [ver |-> 0, at |-> 0, whole |-> FALSE]
Waits == [pc |-> "waits", sec |-> 0, ver |-> 0]
Due == [Waits EXCEPT !.pc = "due"]

----------------------------------------------------------------------------
(* authenticate *)

Idle == [pc |-> "idle"]
At(q, pc) == request[q].pc = pc
EventOf(q) == request[q].event
Caller(q) == Signer[EventOf(q)]
Ends(q) == request' = [request EXCEPT ![q] = Idle]

\* verify_nip98: neither too old nor too far in the future.
Fresh(e) == clock <= created[e] + MaxSkew /\ created[e] <= clock + MaxSkew

\* url_matches: the event names the route the request was sent to.
SignedFor(e, route) == call[e] = route

\* A wrong variant: the spent event expires in its last fresh second.
ExpiryShort(e) == created[e] + MaxSkew

\* Just past the last second in which the event is fresh.
Expiry(e) == created[e] + MaxSkew + 1

\* A request arrives: the first of its event or a copy.  The time is read once.
Deliver(q, e) ==
  /\ At(q, "idle") /\ Fresh(e)
  /\ request' = [request EXCEPT ![q] = [pc |-> "verified", event |-> e, now |-> clock]]
  /\ UNCHANGED <<clock, signed, spent, accepted, ruling, snapshots, faults, blame>>

\* allow_rate: the caller's bucket is empty.
RateLimited(q) ==
  /\ At(q, "verified") /\ Ends(q)
  /\ UNCHANGED <<clock, signed, spent, accepted, ruling, snapshots, faults, blame>>

\* The expired events are forgotten.
Pruned(now) == [e \in Events |-> IF spent[e] > now THEN spent[e] ELSE 0]

\* check_replay.  Requests that are not modelled fill the map, so that a prune
\* may happen at any check.  A request that read the clock before an event
\* expired may be checked after the event was forgotten.
CheckReplay(q) ==
  /\ At(q, "verified")
  /\ \E known \in {spent, Pruned(request[q].now)} :
       /\ blame' = IF \E p \in Requests : /\ At(p, "verified")
                                          /\ spent[EventOf(p)] > request[p].now
                                          /\ known[EventOf(p)] = 0
                   THEN blame \cup {"stalled"} ELSE blame
       /\ \/ /\ known[EventOf(q)] > request[q].now
             /\ spent' = known /\ Ends(q) /\ UNCHANGED accepted
          \/ /\ known[EventOf(q)] <= request[q].now
             /\ spent' = [known EXCEPT ![EventOf(q)] = Expiry(EventOf(q))]
             /\ accepted' = [accepted EXCEPT ![EventOf(q)] = @ + 1]
             /\ request' = [request EXCEPT ![q].pc = "accepted"]
  /\ UNCHANGED <<clock, signed, ruling, snapshots, faults>>

----------------------------------------------------------------------------
(* The operator *)

\* effective_admin: the configured operator wins over the claimed one.
Admin == IF envAdmin # NoOne THEN envAdmin ELSE operator

\* admin_claim: the operator is read first and written later.
ClaimsFrom(q, admin) ==
  /\ At(q, "accepted") /\ SignedFor(EventOf(q), "claim")
  /\ \/ /\ admin = NoOne /\ request' = [request EXCEPT ![q].pc = "claiming"]
        /\ blame' = IF \E p \in Requests : At(p, "claiming") THEN blame \cup {"claimRace"} ELSE blame
        /\ UNCHANGED told
     \/ /\ admin # NoOne /\ Ends(q)
        /\ told' = IF admin = Caller(q) THEN told \cup {Caller(q)} ELSE told
        /\ UNCHANGED blame
  /\ UNCHANGED <<clock, signed, spent, accepted, operator, snapshots, faults>>

\* A wrong variant: a claim asks only the configuration for an operator.
ClaimsUnchecked(q) == ClaimsFrom(q, envAdmin)

AdminClaims(q) == ClaimsFrom(q, Admin)

\* set_admin_pubkey overwrites what another claim may have written meanwhile.
AdminClaimed(q) ==
  /\ At(q, "claiming") /\ Ends(q)
  /\ operator' = Caller(q) /\ told' = told \cup {Caller(q)}
  /\ UNCHANGED <<clock, signed, spent, accepted, snapshots, faults, blame>>

\* auth_admin, before each operator route.
Operates(q) ==
  /\ At(q, "accepted") /\ SignedFor(EventOf(q), "operate") /\ Ends(q)
  /\ told' = IF Admin = Caller(q) THEN told \cup {Caller(q)} ELSE told
  /\ UNCHANGED <<clock, signed, spent, accepted, operator, snapshots, faults, blame>>

----------------------------------------------------------------------------
(* run_backup *)

Artifacts == {s \in Seconds : files[s] # NoFile}
Kept == IF Retention > 1 THEN Retention ELSE 1

\* The name is the second the snapshot begins in; a temporary file that a
\* crash left under that name makes it fail.
TakeSnapshot ==
  /\ backup.pc = "due" /\ taken < MaxSnapshots
  /\ \/ /\ clock \notin temps /\ taken' = taken + 1 /\ temps' = temps \cup {clock}
        /\ backup' = [pc |-> "open", sec |-> clock, ver |-> taken + 1]
     \/ /\ clock \in temps /\ backup' = Waits /\ UNCHANGED <<taken, temps>>
  /\ UNCHANGED <<clock, signed, gate, ruling, files, reported, faults, blame>>

\* finalize: fs::write empties a file of the same name before it fills it.
OpenArtifact ==
  /\ backup.pc = "open" /\ backup' = [backup EXCEPT !.pc = "fill"]
  /\ blame' = IF files[backup.sec].whole THEN blame \cup {"overwritten"} ELSE blame
  /\ files' = [files EXCEPT ![backup.sec] = [ver |-> backup.ver, at |-> clock, whole |-> FALSE]]
  /\ UNCHANGED <<clock, signed, gate, ruling, temps, taken, reported, faults>>

FillArtifact ==
  /\ backup.pc = "fill" /\ backup' = [backup EXCEPT !.pc = "prune"]
  /\ files' = [files EXCEPT ![backup.sec] = [ver |-> backup.ver, at |-> clock, whole |-> TRUE]]
  /\ temps' = temps \ {backup.sec}
  /\ UNCHANGED <<clock, signed, gate, ruling, taken, reported, faults, blame>>

\* By the time of the last write; within a second the order of the writes.
Older(s, t) ==
  \/ files[s].at < files[t].at
  \/ files[s].at = files[t].at /\ files[s].ver < files[t].ver

\* A wrong variant: the list is in the order of the directory, by name, newest first.
PruneByName ==
  /\ backup.pc = "prune" /\ Cardinality(Artifacts) > Kept
  /\ files' = [files EXCEPT ![Max(Artifacts)] = NoFile]
  /\ UNCHANGED <<clock, signed, gate, ruling, temps, backup, taken, reported, faults, blame>>

\* Whole or not, the oldest files go.
Prune ==
  /\ backup.pc = "prune" /\ Cardinality(Artifacts) > Kept
  /\ \E s \in Artifacts :
       /\ \A t \in Artifacts \ {s} : Older(s, t)
       /\ files' = [files EXCEPT ![s] = NoFile]
  /\ UNCHANGED <<clock, signed, gate, ruling, temps, backup, taken, reported, faults, blame>>

\* The directory cannot be listed or some file cannot be removed: any of the
\* files past the newest stay, and the snapshot is reported all the same.
Stale == {s \in Artifacts : Cardinality({t \in Artifacts : Older(s, t)}) >= Kept}
PruneFails ==
  /\ faults < MaxFaults /\ faults' = faults + 1
  /\ backup.pc = "prune" /\ reported' = backup.ver /\ backup' = Waits
  /\ \E gone \in SUBSET Stale \ {Stale} :
       files' = [s \in Seconds |-> IF s \in gone THEN NoFile ELSE files[s]]
  /\ UNCHANGED <<clock, signed, gate, ruling, temps, taken, blame>>

Reports ==
  /\ backup.pc = "prune" /\ Cardinality(Artifacts) <= Kept
  /\ reported' = backup.ver /\ backup' = Waits
  /\ UNCHANGED <<clock, signed, gate, ruling, files, temps, taken, faults, blame>>

----------------------------------------------------------------------------
(* Time and faults *)

\* The period of the loop is counted on another clock, and is over a second long.
Wakes == backup' = IF backup = Waits THEN Due ELSE backup

Tick ==
  /\ clock < MaxClock /\ clock' = clock + 1 /\ Wakes
  /\ UNCHANGED <<signed, gate, ruling, files, temps, taken, reported, faults, blame>>

StepBack ==
  /\ faults < MaxFaults /\ faults' = faults + 1
  /\ clock > 0 /\ clock' = clock - 1 /\ Wakes /\ blame' = blame \cup {"clockBack"}
  /\ UNCHANGED <<signed, gate, ruling, files, temps, taken, reported>>

\* A write of the snapshot fails: the temporary file goes, what was written stays.
WriteFails ==
  /\ faults < MaxFaults /\ faults' = faults + 1
  /\ backup.pc \in {"open", "fill"} /\ backup' = Waits /\ temps' = temps \ {backup.sec}
  /\ UNCHANGED <<clock, signed, gate, ruling, files, taken, reported, blame>>

\* The spent events are forgotten, those that are still fresh too; the
\* registry keeps the operator; the loop takes a snapshot at once.
Restart ==
  /\ faults < MaxFaults /\ faults' = faults + 1
  /\ request' = [q \in Requests |-> Idle] /\ spent' = [e \in Events |-> 0]
  /\ blame' = IF \E e \in Events : spent[e] > clock THEN blame \cup {"restarted"} ELSE blame
  /\ backup' = Due
  /\ UNCHANGED <<clock, signed, accepted, ruling, files, temps, taken, reported>>

----------------------------------------------------------------------------

HostInit ==
  /\ clock = 0 /\ created \in [Events -> Seconds] /\ call \in [Events -> {"claim", "operate"}]
  /\ envAdmin \in Callers \cup {NoOne} /\ operator = NoOne /\ told = {}
  /\ request = [q \in Requests |-> Idle] /\ spent = [e \in Events |-> 0]
  /\ accepted = [e \in Events |-> 0]
  /\ files = [s \in Seconds |-> NoFile] /\ temps = {} /\ backup = Due
  /\ taken = 0 /\ reported = 0 /\ faults = 0 /\ blame = {}

Serve(q) ==
  \/ \E e \in Events : Deliver(q, e)
  \/ RateLimited(q) \/ CheckReplay(q) \/ AdminClaims(q) \/ AdminClaimed(q) \/ Operates(q)

HostNext ==
  \/ \E q \in Requests : Serve(q)
  \/ TakeSnapshot \/ OpenArtifact \/ FillArtifact \/ Prune \/ PruneFails \/ Reports
  \/ Tick \/ StepBack \/ WriteFails \/ Restart

HostSpec == HostInit /\ [][HostNext]_hostVars

----------------------------------------------------------------------------
(* Properties *)

\* Every variable keeps its type; in particular the clock never leaves its
\* range, and only a caller who signed an event is ever the operator.
HostTypeOK ==
  /\ clock \in Seconds
  /\ created \in [Events -> Seconds] /\ call \in [Events -> {"claim", "operate"}]
  /\ request \in [Requests -> {Idle} \cup
       [pc : {"verified", "accepted", "claiming"}, event : Events, now : Seconds]]
  /\ spent \in [Events -> Nat] /\ accepted \in [Events -> Nat]
  /\ envAdmin \in Callers \cup {NoOne} /\ operator \in Callers \cup {NoOne}
  /\ told \subseteq Callers
  /\ files \in [Seconds -> [ver : Nat, at : Seconds, whole : BOOLEAN]]
  /\ temps \subseteq Seconds
  /\ backup \in [pc : {"waits", "due", "open", "fill", "prune"}, sec : Seconds, ver : Nat]
  /\ taken \in Nat /\ reported \in Nat /\ faults \in Nat
  /\ blame \subseteq {"restarted", "clockBack", "stalled", "claimRace", "overwritten"}

\* "A NIP-98 event id may be spent once" (security.rs:6): no copy of a request
\* is let in, whenever it arrives.  The exceptions: a restart while the event
\* was fresh, a clock that stepped back, and a request that read the clock, was
\* overtaken by another and checked only when the event had been forgotten.
SpentOnce ==
  blame \cap {"restarted", "clockBack", "stalled"} = {} =>
    \A e \in Events : accepted[e] <= 1

\* Over all restarts only one caller is ever answered as the operator, by a
\* claim or by an operator route, unless two claims ran at the same time.
OneOperator == "claimRace" \notin blame => Cardinality(told) <= 1

\* Once a snapshot is reported, it or a later one is in the directory and
\* whole, whatever crashes or fails and however few are kept.  The exceptions:
\* a clock that stepped back, and a second snapshot in the second of the first.
NewestSnapshotKept ==
  reported # 0 /\ blame \cap {"clockBack", "overwritten"} = {} =>
    \E s \in Artifacts : files[s].whole /\ files[s].ver >= reported
=============================================================================
