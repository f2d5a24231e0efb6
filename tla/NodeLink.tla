------------------------------ MODULE NodeLink ------------------------------
(***************************************************************************)
(* The wallet's connection to a Taproot Assets node: the embedded Tor      *)
(* client (tor/service.rs, tor/connector.rs), the gRPC client with its     *)
(* rate limit (taproot/client.rs), the two tasks that an unlock spawns     *)
(* (reconnect_tapd_bg once and supervise_tapd for ever), the commands of   *)
(* the Taproot screen and of the Tor screen, and the reset of the wallet   *)
(* (commands.rs).                                                          *)
(*                                                                         *)
(* Every task and command shares one Mutex<Option<TaprootClient>> and      *)
(* takes it for each step anew, so a connection takes from seconds to      *)
(* minutes between the look at that slot and the write to it; a command    *)
(* that asks the node holds it until the node answers, which nothing in    *)
(* the code bounds.                                                        *)
(***************************************************************************)
EXTENDS App

CONSTANTS
  Nodes,         \* nodes the user may enter in the form
  Default,       \* the node embedded in the build, or NoNode
  NoNode,
  Onion,         \* nodes that are reached over Tor
  MaxCommands    \* bound on what the user does

ASSUME LinkAssumption ==
  NoNode \notin Nodes /\ Onion \subseteq Nodes \cup {Default} /\ MaxCommands \in Nat

VARIABLES
  tor,        \* TorService.state
  torClient,  \* TorService.client is Some
  link,       \* WalletState.taproot: the slot of conns it holds, 0 for None
  conns,      \* the open connections; a client and its clones share one
  snap,       \* the supervisor's clone of the client, 0 for none
  proc,       \* tasks and commands that are about to connect
  file,       \* the node in tapd-config.json
  torn,       \* tapd-config.json is there, cut short by a failed or broken-off write
  secret,     \* the node whose macaroon the vault keeps
  outdated,   \* the tasks hold a password that no longer opens the vault
  vault,      \* "none", "locked" or "open"
  calling,    \* a command holds the lock on the client and waits for the node
  commands

torVars == <<tor, torClient>>
clientVars == <<link, conns, snap>>
diskVars == <<file, torn, secret>>
linkBounds == <<commands, faults>>
linkVars == <<torVars, clientVars, proc, diskVars, outdated, vault, calling, clearing, linkBounds, blame>>

Tasks == {"unlock", "supervisor"}      \* in bg_tasks: aborted at the next unlock or delete
Procs == Tasks \cup {"form", "auto", "last", "start", "stop"}
\* "form" is connect_tapd, "auto" connect_default_tapd, "start" and "stop" are
\* start_tor and stop_tor; "last" is a task that was aborted while it ran and
\* gets to the end of its last segment.

AnyNode == Nodes \cup {Default, NoNode}
Slots == {1, 2}
\* "spent": the token bucket of the client is empty for the moment.
NoConn == [node |-> NoNode, mac |-> NoNode, live |-> FALSE, spent |-> FALSE]
At(pc, n, m) == [pc |-> pc, node |-> n, mac |-> m, stale |-> FALSE]
Idle == At("idle", NoNode, NoNode)
Steps == {"idle", "sleep", "probe", "drop", "check", "load", "tor", "boot", "booted", "unbooted",
          "dial", "save", "store", "install", "stopping"}

Go(p, pc) == proc' = [proc EXCEPT ![p].pc = pc]
Leave(p) == proc' = [proc EXCEPT ![p] = IF p = "supervisor" THEN [Idle EXCEPT !.pc = "sleep"] ELSE Idle]
\* A dropped connection, a failed dial, bootstrap or probe, a burst of requests.
LinkFault == Fault /\ UNCHANGED commands
Command == commands < MaxCommands /\ commands' = commands + 1 /\ UNCHANGED faults

\* A connection lives as long as the client or the supervisor's clone of it.
Held(l, s, c) == [i \in Slots |-> IF i \in {l, s} THEN c[i] ELSE NoConn]

----------------------------------------------------------------------------
(* Before the connection: which node, and whether there is one already *)

ToDefault(p) ==
  IF Default = NoNode THEN Leave(p) ELSE proc' = [proc EXCEPT ![p] = At("tor", Default, Default)]

\* A wrong variant: an unlock connects whether or not there is a connection.
CheckFile(p) ==
  /\ p \in Tasks /\ proc[p].pc = "check" /\ ~calling
  /\ IF file = NoNode THEN ToDefault(p) /\ UNCHANGED blame
     ELSE /\ proc' = [proc EXCEPT ![p] = At("load", file, NoNode)]
          /\ Blame("mixed", proc["form"].pc = "store")
  /\ UNCHANGED <<torVars, clientVars, diskVars, outdated, vault, calling, clearing, linkBounds>>

Saving == proc["form"].pc = "save"

\* reconnect_tapd_bg: nothing to do when there is a connection; the node is
\* the one in the saved file, or else the embedded one, if there is one.  A
\* file that is cut short, or is being written just then, is an error.
Check(p) ==
  /\ p \in Tasks /\ proc[p].pc = "check" /\ ~calling
  /\ \/ (link # 0 \/ torn \/ Saving) /\ Leave(p) /\ UNCHANGED blame
     \/ /\ link = 0 /\ file # NoNode /\ ~torn
        /\ proc' = [proc EXCEPT ![p] = At("load", file, NoNode)]
        /\ Blame("mixed", proc["form"].pc = "store")
     \/ link = 0 /\ file = NoNode /\ ~torn /\ ToDefault(p) /\ UNCHANGED blame
  /\ UNCHANGED <<torVars, clientVars, diskVars, outdated, vault, calling, clearing, linkBounds>>

\* connect_default_tapd.
CheckDefault ==
  /\ proc["auto"].pc = "check" /\ ~calling
  /\ IF link # 0 THEN Leave("auto") ELSE ToDefault("auto")
  /\ UNCHANGED <<torVars, clientVars, diskVars, outdated, vault, calling, clearing, linkBounds, blame>>

\* The file is read first, the vault after it.
LoadSecret(p) ==
  /\ proc[p].pc = "load"
  /\ \/ /\ secret # NoNode /\ ~outdated
        /\ proc' = [proc EXCEPT ![p].pc = "tor", ![p].mac = secret]
     \/ (secret = NoNode \/ outdated) /\ Leave(p)
  /\ UNCHANGED <<torVars, clientVars, diskVars, outdated, vault, calling, clearing, linkBounds, blame>>

----------------------------------------------------------------------------
(* TorService::start, and the connection *)

Elsewhere == UNCHANGED <<clientVars, diskVars, outdated, vault, calling, clearing>>

Started(p) == proc[p].pc = "tor" /\ (p = "start" \/ proc[p].node \in Onion)
Down == tor \in {"stopped", "error"}

\* start_tor ends with the start of Tor, the others connect then.
AfterTor(p) == IF p = "start" THEN Leave(p) ELSE Go(p, "dial")

\* Whoever finds Tor ready or bootstrapping goes on at once, and the
\* connector then needs the client.
StartTor(p) ==
  /\ \/ proc[p].pc = "tor" /\ ~Started(p) /\ Go(p, "dial") /\ UNCHANGED tor
     \/ Started(p) /\ ~Down /\ torClient /\ AfterTor(p) /\ UNCHANGED tor
     \/ Started(p) /\ ~Down /\ ~torClient /\ Leave(p) /\ UNCHANGED tor
     \/ Started(p) /\ Down /\ Go(p, "boot") /\ tor' = "bootstrapping"
  /\ Elsewhere /\ UNCHANGED <<torClient, linkBounds, blame>>

\* The directories or the configuration fail, and the state stays as it is.
SetUpFails(p) ==
  /\ Started(p) /\ Down /\ tor' = "bootstrapping" /\ Leave(p)
  /\ LinkFault /\ Blame("cut", TRUE)
  /\ Elsewhere /\ UNCHANGED torClient

Bootstrapped(p) ==
  /\ proc[p].pc = "boot" /\ tor' = "ready" /\ Go(p, "booted")
  /\ Elsewhere /\ UNCHANGED <<torClient, linkBounds, blame>>

\* A wrong variant: a failed bootstrap leaves the state as it was.
BootFailsSilently(p) ==
  /\ proc[p].pc = "boot" /\ Go(p, "unbooted") /\ LinkFault
  /\ Elsewhere /\ UNCHANGED <<torVars, blame>>

BootFails(p) ==
  /\ proc[p].pc = "boot" /\ tor' = "error" /\ Go(p, "unbooted") /\ LinkFault
  /\ Elsewhere /\ UNCHANGED <<torClient, blame>>

\* The client has a lock of its own, taken after the state's: a bootstrap that
\* failed takes away the client of another that succeeded in between.
StoreClient(p) ==
  /\ \/ proc[p].pc = "booted" /\ torClient' = TRUE /\ AfterTor(p) /\ UNCHANGED blame
     \/ /\ proc[p].pc = "unbooted" /\ torClient' = FALSE /\ Leave(p)
        /\ Blame("overlap", tor = "ready" /\ torClient)
  /\ Elsewhere /\ UNCHANGED <<tor, linkBounds>>

\* stop() takes the same two locks, the client's first.
StopTor ==
  /\ proc["stop"].pc = "idle" /\ Command
  /\ proc' = [proc EXCEPT !["stop"] = At("stopping", NoNode, NoNode)] /\ torClient' = FALSE
  /\ Elsewhere /\ UNCHANGED <<tor, blame>>

StopEnds ==
  /\ proc["stop"].pc = "stopping" /\ Leave("stop") /\ tor' = "stopped"
  /\ blame' = blame \ {"cut", "overlap"}
  /\ Elsewhere /\ UNCHANGED <<torClient, linkBounds>>

Dialled(p) ==
  /\ proc[p].pc = "dial" /\ Go(p, IF p = "form" THEN "save" ELSE "install")
  /\ Elsewhere /\ UNCHANGED <<torVars, linkBounds, blame>>

\* Refused, or timed out after 30 seconds, over Tor after 120; or Tor was
\* stopped before the connector asked for its client.
DialFails(p) ==
  /\ proc[p].pc = "dial" /\ Leave(p)
  /\ LinkFault \/ (proc[p].node \in Onion /\ ~torClient /\ UNCHANGED linkBounds)
  /\ Elsewhere /\ UNCHANGED <<torVars, blame>>

----------------------------------------------------------------------------
(* After the connection: connect_tapd saves the node, and everyone installs *)

SaveConfig ==
  /\ Saving /\ file' = proc["form"].node /\ torn' = FALSE /\ Go("form", "store")
  /\ Blame("mixed", \E p \in Procs : proc[p].pc = "load")
  /\ UNCHANGED <<torVars, clientVars, secret, outdated, vault, calling, clearing, linkBounds>>

\* The file is written in place, and may be left cut short.
SaveFails ==
  /\ Saving /\ torn' \in {torn, TRUE} /\ Leave("form") /\ LinkFault
  /\ UNCHANGED <<torVars, clientVars, file, secret, outdated, vault, calling, clearing, blame>>

\* A wrong variant: a macaroon that is there already is kept.
StoreSecretOnce ==
  /\ proc["form"].pc = "store"
  /\ \/ /\ vault # "none" /\ secret' = (IF secret = NoNode THEN proc["form"].mac ELSE secret)
        /\ Go("form", "install") /\ UNCHANGED blame
     \/ Leave("form") /\ Blame("mixed", TRUE) /\ UNCHANGED secret
  /\ UNCHANGED <<torVars, clientVars, file, torn, outdated, vault, calling, clearing, linkBounds>>

\* The password opens the vault, or it does not, or the vault is gone.
StoreSecret ==
  /\ proc["form"].pc = "store"
  /\ \/ /\ vault # "none" /\ secret' = proc["form"].mac
        /\ Go("form", "install") /\ UNCHANGED blame
     \/ Leave("form") /\ Blame("mixed", TRUE) /\ UNCHANGED secret
  /\ UNCHANGED <<torVars, clientVars, file, torn, outdated, vault, calling, clearing, linkBounds>>

\* The client is put into the slot whatever the slot holds.
Install(p) ==
  /\ proc[p].pc = "install" /\ ~calling
  /\ LET s == CHOOSE i \in Slots : i # snap IN
     /\ link' = s
     /\ conns' = Held(s, snap, [conns EXCEPT ![s] =
          [node |-> proc[p].node, mac |-> proc[p].mac, live |-> TRUE, spent |-> FALSE]])
  /\ proc' = [q \in Procs |->
       IF q = p THEN (IF p = "supervisor" THEN [Idle EXCEPT !.pc = "sleep"] ELSE Idle)
       ELSE [proc[q] EXCEPT !.stale = @ \/ (q # "form" /\ proc[q].node # NoNode)]]
  /\ UNCHANGED <<torVars, snap, diskVars, outdated, vault, calling, clearing, linkBounds, blame>>

----------------------------------------------------------------------------
(* supervise_tapd *)

\* A wrong variant: without a client there is nothing to look after.
WakeIfLinked ==
  /\ proc["supervisor"].pc = "sleep" /\ ~calling /\ link # 0
  /\ Go("supervisor", IF conns[link].spent THEN "drop" ELSE "probe")
  /\ snap' = link
  /\ UNCHANGED <<torVars, link, conns, diskVars, outdated, vault, calling, clearing, linkBounds, blame>>

\* A request beyond the rate is refused before it is sent.
Wake ==
  /\ proc["supervisor"].pc = "sleep" /\ ~calling
  /\ Go("supervisor", IF link = 0 THEN "check" ELSE IF conns[link].spent THEN "drop" ELSE "probe")
  /\ snap' = link
  /\ UNCHANGED <<torVars, link, conns, diskVars, outdated, vault, calling, clearing, linkBounds, blame>>

Answering(c) == c.live /\ c.mac = c.node

ProbeAnswered ==
  /\ proc["supervisor"].pc = "probe" /\ Answering(conns[snap]) /\ Go("supervisor", "sleep")
  /\ snap' = 0 /\ conns' = Held(link, 0, conns)
  /\ UNCHANGED <<torVars, link, diskVars, outdated, vault, calling, clearing, linkBounds, blame>>

ProbeFails ==
  /\ proc["supervisor"].pc = "probe" /\ Go("supervisor", "drop")
  /\ \/ ~Answering(conns[snap]) /\ UNCHANGED linkBounds
     \/ Answering(conns[snap]) /\ LinkFault
  /\ UNCHANGED <<torVars, clientVars, diskVars, outdated, vault, calling, clearing, blame>>

\* Whatever the slot holds by now.
Drop ==
  /\ proc["supervisor"].pc = "drop" /\ ~calling /\ Go("supervisor", "check")
  /\ link' = 0 /\ snap' = 0 /\ conns' = Held(0, 0, conns)
  /\ UNCHANGED <<torVars, diskVars, outdated, vault, calling, clearing, linkBounds, blame>>

----------------------------------------------------------------------------
(* The user *)

Quiet == UNCHANGED <<torVars, diskVars, clearing, blame>>

\* A command that asks the node holds the lock on the client meanwhile.
Call ==
  /\ link # 0 /\ ~calling /\ ~conns[link].spent /\ calling' = TRUE
  /\ UNCHANGED <<clientVars, proc, outdated, vault, linkBounds>> /\ Quiet

CallEnds ==
  /\ calling /\ calling' = FALSE
  /\ UNCHANGED <<clientVars, proc, outdated, vault, linkBounds>> /\ Quiet

Form(n) ==
  /\ vault = "open" /\ proc["form"].pc = "idle" /\ Command
  /\ proc' = [proc EXCEPT !["form"] = At("tor", n, n)]
  /\ UNCHANGED <<clientVars, outdated, vault, calling>> /\ Quiet

AutoConnect ==
  /\ vault = "open" /\ proc["auto"].pc = "idle" /\ Command
  /\ proc' = [proc EXCEPT !["auto"] = At("check", NoNode, NoNode)]
  /\ UNCHANGED <<clientVars, outdated, vault, calling>> /\ Quiet

\* start_tor.
TorCommand ==
  /\ proc["start"].pc = "idle" /\ Command
  /\ proc' = [proc EXCEPT !["start"] = At("tor", NoNode, NoNode)]
  /\ UNCHANGED <<clientVars, outdated, vault, calling>> /\ Quiet

Disconnect ==
  /\ link # 0 /\ ~calling /\ Command
  /\ link' = 0 /\ conns' = Held(0, snap, conns)
  /\ UNCHANGED <<snap, proc, outdated, vault, calling>> /\ Quiet

\* The tasks keep the password they were given at unlock.
ChangePassword ==
  /\ vault = "open" /\ ~outdated /\ Command /\ outdated' = TRUE
  /\ UNCHANGED <<clientVars, proc, vault, calling>> /\ Quiet

Spawned == [unlock |-> At("check", NoNode, NoNode), supervisor |-> [Idle EXCEPT !.pc = "sleep"]]
NoTasks == [unlock |-> Idle, supervisor |-> Idle]

\* abort() takes effect where a task waits; one that runs finishes its segment.
Abort(next) ==
  /\ \/ proc' = [p \in Procs |-> IF p \in Tasks THEN next[p] ELSE proc[p]]
     \/ \E t \in Tasks :
          /\ proc[t].pc = "install" /\ proc["last"].pc = "idle"
          /\ proc' = [p \in Procs |-> IF p \in Tasks THEN next[p]
                                      ELSE IF p = "last" THEN proc[t] ELSE proc[p]]
  /\ snap' = 0
  /\ Blame("cut", \E t \in Tasks : proc[t].pc \in {"boot", "booted"})

\* initialize_wallet_state: of a wallet that is created, imported or unlocked,
\* also while a reset waits.
OpenWallet ==
  /\ Command /\ Abort(Spawned)
  /\ vault' = "open" /\ outdated' = FALSE /\ conns' = Held(link, 0, conns)
  /\ UNCHANGED <<torVars, link, diskVars, calling, clearing>>

\* delete_wallet_command stops the tasks and deletes the vault, then waits
\* for the lock on the client.
Reset ==
  /\ vault = "open" /\ ~clearing /\ Command /\ Abort(NoTasks)
  /\ vault' = "none" /\ secret' = NoNode /\ clearing' = TRUE /\ conns' = Held(link, 0, conns)
  /\ UNCHANGED <<torVars, link, file, torn, outdated, calling>>

\* The snapshot cannot be removed, or the salt once the snapshot is gone: the
\* command returns, and the tasks stay stopped.
ResetFails ==
  /\ vault = "open" /\ ~clearing /\ commands < MaxCommands /\ commands' = commands + 1 /\ Fault
  /\ Abort(NoTasks) /\ conns' = Held(link, 0, conns)
  /\ \/ UNCHANGED <<vault, secret>>
     \/ vault' = "none" /\ secret' = NoNode
  /\ UNCHANGED <<torVars, link, file, torn, outdated, calling, clearing>>

\* It clears the rest of the state, and purges the files, those of a wallet
\* opened meanwhile too; a file that cannot be removed stays.
Clear ==
  /\ clearing /\ ~calling /\ clearing' = FALSE
  /\ link' = 0 /\ conns' = Held(0, snap, conns)
  /\ \/ file' = NoNode /\ torn' = FALSE /\ UNCHANGED linkBounds
     \/ UNCHANGED <<file, torn>> /\ LinkFault
  /\ UNCHANGED <<torVars, snap, proc, secret, outdated, vault, calling, blame>>

\* The app is closed or killed, and started again.
Restart ==
  /\ Command
  /\ vault' = (IF vault = "open" THEN "locked" ELSE vault)
  /\ tor' = "stopped" /\ torClient' = FALSE
  /\ link' = 0 /\ snap' = 0 /\ conns' = Held(0, 0, conns)
  /\ proc' = [p \in Procs |-> Idle] /\ outdated' = FALSE /\ calling' = FALSE /\ clearing' = FALSE
  /\ torn' \in {torn, torn \/ Saving}
  /\ blame' = (blame \ {"cut", "overlap"}) \cup IF proc["form"].pc = "store" THEN {"mixed"} ELSE {}
  /\ UNCHANGED <<file, secret>>

----------------------------------------------------------------------------
(* The network *)

ConnectionDrops ==
  /\ \E s \in Slots : conns[s].live /\ conns' = [conns EXCEPT ![s].live = FALSE]
  /\ LinkFault
  /\ UNCHANGED <<link, snap, proc, outdated, vault, calling>> /\ Quiet

\* A screen that polls too fast empties the bucket of the client.
Burst ==
  /\ link # 0 /\ ~conns[link].spent /\ conns' = [conns EXCEPT ![link].spent = TRUE]
  /\ LinkFault
  /\ UNCHANGED <<link, snap, proc, outdated, vault, calling>> /\ Quiet

Refill ==
  /\ \E s \in Slots : conns[s].spent /\ conns' = [conns EXCEPT ![s].spent = FALSE]
  /\ UNCHANGED <<link, snap, proc, outdated, vault, calling, linkBounds>> /\ Quiet

----------------------------------------------------------------------------

LinkInit ==
  /\ tor = "stopped" /\ torClient = FALSE
  /\ link = 0 /\ snap = 0 /\ conns = [s \in Slots |-> NoConn]
  /\ proc = [p \in Procs |-> Idle]
  /\ file = NoNode /\ torn = FALSE /\ secret = NoNode /\ outdated = FALSE /\ vault = "none"
  /\ calling = FALSE /\ clearing = FALSE /\ commands = 0 /\ faults = 0 /\ blame = {}

Supervise == Wake \/ ProbeAnswered \/ ProbeFails \/ Drop
SaveNode == SaveConfig \/ SaveFails \/ StoreSecret

\* What a task or a command does next of its own, when nothing fails.
Advance(p) ==
  \/ Check(p) \/ LoadSecret(p) \/ StartTor(p) \/ Bootstrapped(p) \/ StoreClient(p)
  \/ Dialled(p) \/ Install(p)
  \/ p = "supervisor" /\ Supervise
  \/ p = "form" /\ SaveNode
  \/ p = "auto" /\ CheckDefault

LinkNext ==
  \/ \E p \in Procs : Advance(p) \/ SetUpFails(p) \/ BootFails(p) \/ DialFails(p)
  \/ Call \/ CallEnds \/ (\E n \in Nodes : Form(n)) \/ AutoConnect \/ Disconnect \/ ChangePassword
  \/ TorCommand \/ StopTor \/ StopEnds
  \/ OpenWallet \/ Reset \/ ResetFails \/ Clear \/ Restart
  \/ ConnectionDrops \/ Burst \/ Refill

LinkSpec == LinkInit /\ [][LinkNext]_linkVars

\* What the supervisor does without an answer from outside; a dial ends, by
\* its timeout at the latest.
Runs ==
  LET p == "supervisor" IN
  Wake \/ Drop \/ Check(p) \/ LoadSecret(p) \/ StartTor(p) \/ StoreClient(p) \/ Dialled(p) \/ Install(p)

\* The supervisor runs; the lock is a fair queue: the supervisor gets it,
\* however often others do.  A command that writes files or takes Tor's locks
\* gets to the end of that.  No answer of a node and no end of a bootstrap is
\* assumed: the code sets neither a timeout nor a keepalive.
LinkFairness ==
  /\ SF_linkVars(Runs)
  /\ WF_linkVars(\E p \in Procs : StoreClient(p))
  /\ WF_linkVars(StopEnds) /\ WF_linkVars(SaveNode)

LinkFairSpec == LinkSpec /\ LinkFairness

----------------------------------------------------------------------------
(* Properties *)

\* The type invariant: one connection in the slot, at most one more in the
\* supervisor's hands, and no connection that nobody holds (the event
\* streams of a client end with it, EventStreamHandles).
LinkTypeOK ==
  /\ tor \in {"stopped", "bootstrapping", "ready", "error"} /\ torClient \in BOOLEAN
  /\ link \in {0} \cup Slots /\ snap \in {0} \cup Slots
  /\ conns \in [Slots -> [node : AnyNode, mac : AnyNode, live : BOOLEAN, spent : BOOLEAN]]
  /\ conns = Held(link, snap, conns)
  /\ proc \in [Procs -> [pc : Steps, node : AnyNode, mac : AnyNode, stale : BOOLEAN]]
  /\ file \in AnyNode /\ torn \in BOOLEAN /\ secret \in AnyNode /\ outdated \in BOOLEAN
  /\ vault \in {"none", "locked", "open"} /\ calling \in BOOLEAN /\ clearing \in BOOLEAN
  /\ commands \in 0 .. MaxCommands /\ faults \in 0 .. MaxFaults
  /\ blame \subseteq {"cut", "overlap", "mixed"}

\* A node is sent the macaroon that belongs to it, unless a connect_tapd
\* wrote the file and failed before the vault, or a task read the one before
\* and the other after such a write.
MacaroonFits ==
  "mixed" \notin blame => \A s \in Slots : conns[s].mac = conns[s].node

\* Tor is in a state start() takes for a running client, with no client and
\* nobody on the way to one: every connection over Tor fails from then on.
TorWedged ==
  /\ ~Down /\ ~torClient
  /\ \A p \in Procs : proc[p].pc \notin {"boot", "booted", "unbooted", "stopping"}

\* That happens in three ways only: since the last stop_tor or restart, which
\* put it right, an unlock or a reset aborted a task in the middle of a
\* bootstrap ("cut"), start() returned early with an error ("cut"), or a
\* bootstrap that had failed took away the client of one that succeeded
\* between its two writes ("overlap").
WedgedForCause == TorWedged => blame \cap {"cut", "overlap"} # {}

\* "Don't override an already-established connection."  (client.rs:1375)  What
\* the code keeps of it: a connection is replaced only by the user's form, or
\* by a task or command that had looked before the connection was there.
OverriddenOnlyInARace ==
  [][link # 0 /\ link' # 0 /\ (\E p \in Procs : Install(p)) =>
       \E p \in Procs : proc[p].pc = "install" /\ (p = "form" \/ proc[p].stale)]_linkVars

Healthy == link # 0 /\ Answering(conns[link])
Target == IF file # NoNode THEN file ELSE Default
Excused ==
  \/ vault # "open" \/ proc["supervisor"].pc = "idle"    \* stopped by a reset that failed
  \/ torn \/ Target = NoNode
  \/ file # NoNode /\ (secret # file \/ outdated)
  \/ Target \in Onion /\ TorWedged

\* What the comment on supervise_tapd promises: "Makes the wallet self-heal
\* mid-session".  An open wallet has a healthy connection again and again,
\* except where its configuration is cut short or does not belong together,
\* its password was changed, Tor is wedged, or a failed reset stopped the
\* supervisor.  The code does not keep this: an answer that never comes holds
\* up the supervisor for ever.
SelfHeals == []<>(Healthy \/ Excused)

\* What it keeps: the wallet heals unless an answer stays out for ever, of the
\* node to a command that holds the client's lock or to the supervisor's
\* probe, or of the network to a bootstrap of Tor.
HealsUnlessHung ==
  \/ <>[]calling
  \/ <>[](proc["supervisor"].pc = "probe")
  \/ <>[](\E p \in Procs : proc[p].pc = "boot")
  \/ SelfHeals
=============================================================================
