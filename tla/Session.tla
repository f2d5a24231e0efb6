------------------------------- MODULE Session -------------------------------
(***************************************************************************)
(* A session of the wallet: unlock (initialize_wallet_state), logout (the  *)
(* screen only), reset (delete_wallet_command), and the Ark service that   *)
(* an unlock starts: a task of the shared runtime that waits for a thread  *)
(* of its own, the database the thread opens, and the channel the commands *)
(* put their requests into (commands.rs, ark/service.rs).                  *)
(*                                                                         *)
(* Aborting a task takes effect at its next await only, a thread is never  *)
(* stopped, and a user may unlock again, or reset and make another wallet, *)
(* while what belongs to the former unlock goes on.                        *)
(*                                                                         *)
(* The Ark wallet is external (bark).  It is modelled by what the handlers *)
(* use of it: which outputs (VTXOs) it lists and what became of them.      *)
(***************************************************************************)
EXTENDS AppSeed, Sequences, FiniteSets

CONSTANTS
  Rich,       \* the seed that owns the outputs
  Vtxos, Calls,
  NoCall,
  MaxStarts   \* bound on the unlocks

ASSUME SessionAssumption ==
  Rich \in Seeds /\ NoCall \notin Calls /\ MaxStarts \in Nat

VARIABLES
  arkDb,      \* the seed ozark-wallet.db was created with, NoSeed for no wallet in it
  ark,        \* state.ark: the unlock whose thread it sends to, 0 for None
  status,     \* bg_init.ark
  listening,  \* the unlocks whose desk listener runs
  task,       \* of each unlock: the task that starts its Ark service
  thread,     \* of each unlock: the thread that owns its Ark wallet
  call,       \* the unlock whose thread each command waits for, 0 for none
  vtxo,       \* what became of each output
  starts

state == <<wallet, arkDb, ark, status, listening, clearing>>
sessionBounds == <<starts, faults>>
sessionVars == <<state, task, thread, call, vtxo, sessionBounds, blame>>

Starts == 1 .. MaxStarts
NoThread == [pc |-> "none", seed |-> NoSeed, found |-> NoSeed, queue |-> <<>>, at |-> NoCall,
             op |-> "none", saw |-> {}]
Ops == {"look", "receive", "pay", "send", "refresh", "exit", "syncExits", "drain"}
SessionFault == Fault /\ UNCHANGED starts

----------------------------------------------------------------------------
(* Unlock, logout and reset *)

\* A task that is past its last await is out of an abort's reach.
Aborted(t) == IF t \in {"spawned", "waiting"} THEN "aborted" ELSE t
AbortAll == [n \in Starts |-> Aborted(task[n])]

\* initialize_wallet_state; the handle of the listener it spawns is pushed to
\* bg_tasks before all that is there is aborted.
Start(seed) ==
  /\ starts < MaxStarts /\ starts' = starts + 1
  /\ LET bgTasks == listening \cup {starts + 1} IN listening' = bgTasks \ bgTasks
  /\ status' = "pending"
  /\ task' = [AbortAll EXCEPT ![starts + 1] = "spawned"]
  /\ thread' = [thread EXCEPT ![starts + 1].seed = seed]
  /\ UNCHANGED <<arkDb, ark, clearing, call, vtxo, faults, blame>>

\* create_new_wallet and import_wallet; logging out does not tell the backend.
Create == wallet = NoSeed /\ \E s \in Seeds : Start(s) /\ wallet' = s
Unlock == wallet # NoSeed /\ Start(wallet) /\ UNCHANGED wallet

\* The vault is written, and the on-chain wallet, which comes first, does not open.
CreateFails ==
  /\ wallet = NoSeed /\ wallet' \in Seeds
  /\ UNCHANGED <<arkDb, ark, status, listening, clearing, task, thread, call, vtxo, sessionBounds, blame>>

\* A wrong variant: what the tasks do is left to them.
DeleteKeepsTasks ==
  /\ wallet # NoSeed /\ ~clearing /\ clearing' = TRUE
  /\ listening' = {} /\ wallet' = NoSeed /\ ark' = 0
  /\ Blame("late", \E n \in Starts : task[n] \in {"setArk", "setReady"})
  /\ UNCHANGED <<arkDb, status, task, thread, call, vtxo, sessionBounds>>

\* delete_wallet_command up to the lock on the tapd client.
Delete ==
  /\ wallet # NoSeed /\ ~clearing /\ clearing' = TRUE
  /\ task' = AbortAll /\ listening' = {}
  /\ wallet' = NoSeed /\ ark' = 0
  /\ Blame("late", \E n \in Starts : task[n] \in {"setArk", "setReady"})
  /\ UNCHANGED <<arkDb, status, thread, call, vtxo, sessionBounds>>

\* The vault cannot be removed, or its salt cannot when the snapshot is gone:
\* the command ends there, with the service installed and the databases kept.
DeleteFails ==
  /\ wallet # NoSeed /\ ~clearing /\ SessionFault
  /\ task' = AbortAll /\ listening' = {}
  /\ wallet' \in {wallet, NoSeed} /\ Blame("half", wallet' = NoSeed)
  /\ UNCHANGED <<arkDb, ark, status, clearing, thread, call, vtxo>>

\* A wrong variant: a database is forgotten.
PurgeForgets ==
  /\ clearing /\ clearing' = FALSE /\ status' = "idle"
  /\ Blame("outlived", \E n \in Starts : thread[n].pc \in {"spawned", "opened"})
  /\ UNCHANGED <<arkDb, wallet, ark, listening, task, thread, call, vtxo, sessionBounds>>

\* The rest of it; a thread that is about to open its database is not waited for.
Purge ==
  /\ clearing /\ clearing' = FALSE
  /\ status' = "idle" /\ arkDb' = NoSeed
  /\ Blame("outlived", \E n \in Starts : thread[n].pc \in {"spawned", "opened"})
  /\ UNCHANGED <<wallet, ark, listening, task, thread, call, vtxo, sessionBounds>>

\* The database cannot be removed, and nobody is told.
PurgeFails ==
  /\ clearing /\ clearing' = FALSE /\ SessionFault
  /\ status' = "idle" /\ arkDb # NoSeed
  /\ blame' = blame \cup {"left"}
  /\ UNCHANGED <<wallet, arkDb, ark, listening, task, thread, call, vtxo>>

----------------------------------------------------------------------------
(* The task of an unlock and the thread it starts *)

TaskStep(n, from, to) == task[n] = from /\ task' = [task EXCEPT ![n] = to]
ThreadStep(n, from, to) == thread[n].pc = from /\ thread' = [thread EXCEPT ![n].pc = to]

Spawn(n) ==
  /\ TaskStep(n, "spawned", "waiting") /\ ThreadStep(n, "none", "spawned")
  /\ UNCHANGED <<state, call, vtxo, sessionBounds, blame>>

\* SqliteClient::open and read_properties.
OpenDb(n) ==
  /\ thread[n].pc = "spawned"
  /\ thread' = [thread EXCEPT ![n].pc = "opened", ![n].found = arkDb]
  /\ UNCHANGED <<state, task, call, vtxo, sessionBounds, blame>>

\* The sender goes with an aborted task, and the loop ends at once.
Ready(n) == /\ thread' = [thread EXCEPT ![n].found = NoSeed,
                                        ![n].pc = IF task[n] = "waiting" THEN "serving" ELSE "ended"]
            /\ task' = [task EXCEPT ![n] = IF @ = "waiting" THEN "setArk" ELSE @]
            /\ Blame("twin", task[n] = "waiting" /\ \E m \in Starts \ {n} : thread[m].pc = "serving")

\* create_with_exits; a file that was unlinked since it was opened may take the write with it.
CreateArk(n) ==
  /\ thread[n].pc = "opened" /\ thread[n].found = NoSeed /\ arkDb = NoSeed
  /\ arkDb' \in IF "outlived" \in blame THEN {thread[n].seed, NoSeed} ELSE {thread[n].seed}
  /\ Ready(n)
  /\ UNCHANGED <<wallet, ark, status, listening, clearing, call, vtxo, sessionBounds>>

\* open_with_exits, which refuses another wallet's database.
OpenArk(n) ==
  /\ thread[n].pc = "opened" /\ thread[n].found = thread[n].seed
  /\ Ready(n)
  /\ UNCHANGED <<state, call, vtxo, sessionBounds>>

\* The server, the database or the mnemonic does not fit.
InitFails(n) ==
  /\ ThreadStep(n, "opened", "ended")
  /\ task' = [task EXCEPT ![n] = IF @ = "waiting" THEN "setFailed" ELSE @]
  /\ UNCHANGED <<state, call, vtxo, sessionBounds, blame>>

SetArk(n) ==
  /\ TaskStep(n, "setArk", "setReady") /\ ark' = n
  /\ UNCHANGED <<wallet, arkDb, status, listening, clearing, thread, call, vtxo, sessionBounds, blame>>
SetStatus(n) ==
  /\ \/ TaskStep(n, "setReady", "done") /\ status' = "ready"
     \/ TaskStep(n, "setFailed", "done") /\ status' = "failed"
  /\ UNCHANGED <<wallet, arkDb, ark, listening, clearing, thread, call, vtxo, sessionBounds, blame>>

----------------------------------------------------------------------------
(* A command and its request *)

Answered(cs) == call' = [c \in Calls |-> IF c \in cs THEN 0 ELSE call[c]]

\* A command clones the service, and without one tells the user to unlock.
HasService == ark # 0

\* The clone sends the request; when the thread is gone the user gets an error at once.
Ask(c) ==
  /\ call[c] = 0 /\ HasService /\ thread[ark].pc = "serving"
  /\ call' = [call EXCEPT ![c] = ark]
  /\ thread' = [thread EXCEPT ![ark].queue = Append(@, c)]
  /\ UNCHANGED <<state, task, vtxo, sessionBounds, blame>>

Own(n) == IF thread[n].seed = Rich THEN Vtxos ELSE {}
In(n, places) == {v \in Own(n) : vtxo[v] \in places}
Spendable(n) == In(n, {"spendable"})

\* What the handlers look at before they ask bark for anything.
Sees(n, op) == CASE op \in {"pay", "refresh", "exit"} -> Spendable(n)
                 [] op = "drain" -> In(n, {"claimable", "draining"})
                 [] OTHER -> {}

\* A wrong variant: an exit is started for whatever there is.
RefusedUnlessExit(op, saw) == op \in {"pay", "drain"} /\ saw = {}

\* No balance for the invoice, no funds to exit, no claimable exits.
Refused(op, saw) == op \in {"pay", "exit", "drain"} /\ saw = {}

\* One request after the other, whoever sent it and whatever became of the
\* wallet.  What it asks matters from here on only.
Receive(n, op) ==
  LET c == Head(thread[n].queue)
      saw == Sees(n, op)
      rest == [thread[n] EXCEPT !.queue = Tail(@)]
  IN /\ thread[n].pc = "serving" /\ thread[n].at = NoCall /\ thread[n].queue # <<>>
     /\ thread' = [thread EXCEPT ![n] =
          IF Refused(op, saw) THEN rest ELSE [rest EXCEPT !.at = c, !.op = op, !.saw = saw]]
     /\ IF Refused(op, saw) THEN Answered({c}) ELSE UNCHANGED call
     /\ UNCHANGED <<state, task, vtxo, sessionBounds, blame>>

Moved(vs, to) == [v \in Vtxos |-> IF v \in vs THEN to ELSE vtxo[v]]
Respond(n) ==
  /\ thread' = [thread EXCEPT ![n].at = NoCall, ![n].op = "none", ![n].saw = {}]
  /\ Answered({thread[n].at})
  /\ UNCHANGED <<state, task, sessionBounds, blame>>
Serving(n, op) == /\ thread[n].pc = "serving" /\ thread[n].at # NoCall
                  /\ thread[n].op = op
                  /\ Respond(n)

\* Balance, addresses, history, lists, exit status, sync.
Look(n) == Serving(n, "look") /\ UNCHANGED vtxo
Sent(n, op) == \E v \in Spendable(n) : Serving(n, op) /\ vtxo' = Moved({v}, "spent")
\* Over Lightning, to another Ark wallet, to an address of the chain, everything to one.
PayLightning(n) == Sent(n, "pay")
SendArk(n) == Sent(n, "send")
SendOnchain(n) == Sent(n, "send")
OffboardAll(n) == Serving(n, "send") /\ Spendable(n) # {} /\ vtxo' = Moved(Spendable(n), "spent")
\* The outputs it saw become fresh ones; none of them may be gone by then.
RefreshVtxos(n) == Serving(n, "refresh") /\ thread[n].saw \subseteq Spendable(n) /\ UNCHANGED vtxo
CreateInvoice(n) == \E v \in In(n, {"none"}) : Serving(n, "receive") /\ vtxo' = Moved({v}, "invoiced")
\* Whichever invoices were paid by now.
ClaimReceives(n) ==
  Serving(n, "receive") /\ \E vs \in SUBSET In(n, {"invoiced"}) : vtxo' = Moved(vs, "spendable")
StartExit(n) == Serving(n, "exit") /\ vtxo' = Moved(Spendable(n), "exiting")
SyncExits(n) ==
  /\ Serving(n, "syncExits")
  /\ \E vs \in SUBSET In(n, {"exiting"}) :
       vtxo' = [v \in Vtxos |-> CASE v \in vs -> "claimable"
                                  [] v \in In(n, {"draining"}) -> "spent"
                                  [] OTHER -> vtxo[v]]
\* The transaction is broadcast; the exits are listed as claimable until the next sync.
DrainExits(n) == /\ Serving(n, "drain") /\ thread[n].saw \subseteq In(n, {"claimable", "draining"})
                 /\ vtxo' = Moved(thread[n].saw, "draining")

\* bark refuses, the server cannot be reached, or the address does not parse.
HandlerFails(n) ==
  /\ thread[n].pc = "serving" /\ thread[n].at # NoCall
  /\ Respond(n) /\ UNCHANGED vtxo

Handle(n) ==
  \/ Look(n) \/ PayLightning(n) \/ SendArk(n) \/ SendOnchain(n) \/ OffboardAll(n) \/ RefreshVtxos(n)
  \/ CreateInvoice(n) \/ ClaimReceives(n) \/ StartExit(n) \/ SyncExits(n) \/ DrainExits(n) \/ HandlerFails(n)

\* Nobody is left who could send: the service was replaced or dropped.
Stop(n) ==
  /\ ThreadStep(n, "serving", "ended")
  /\ ark # n /\ task[n] \in {"done", "setReady", "aborted"} /\ thread[n].queue = <<>> /\ thread[n].at = NoCall
  /\ UNCHANGED <<state, task, call, vtxo, sessionBounds, blame>>

----------------------------------------------------------------------------
(* Panics of a thread and crashes of the app *)

Asked(n) == {c \in Calls : call[c] = n}

\* A wrong variant: only the caller that is being served learns of it.
PanicForgets(n) ==
  /\ thread[n].pc = "serving" /\ thread[n].at # NoCall /\ SessionFault
  /\ thread' = [thread EXCEPT ![n] = [NoThread EXCEPT !.pc = "ended", !.seed = thread[n].seed]]
  /\ Answered({thread[n].at})
  /\ UNCHANGED <<state, task, vtxo, blame>>

\* The requests go with the receiver, and their senders learn of it.
Panic(n) ==
  /\ thread[n].pc = "serving" /\ thread[n].at # NoCall /\ SessionFault
  /\ thread' = [thread EXCEPT ![n] = [NoThread EXCEPT !.pc = "ended", !.seed = thread[n].seed]]
  /\ Answered(Asked(n))
  /\ UNCHANGED <<state, task, vtxo, blame>>

Crash ==
  /\ SessionFault /\ Blame("cut", clearing)
  /\ ark' = 0 /\ status' = "idle" /\ listening' = {} /\ clearing' = FALSE
  /\ task' = [n \in Starts |-> IF task[n] = "none" THEN "none" ELSE "aborted"]
  /\ thread' = [n \in Starts |-> IF task[n] = "none" THEN NoThread ELSE [NoThread EXCEPT !.pc = "ended"]]
  /\ Answered(Calls)
  /\ UNCHANGED <<wallet, arkDb, vtxo>>

SessionInit ==
  /\ wallet \in {NoSeed, Rich} /\ arkDb \in {NoSeed, wallet}
  /\ ark = 0 /\ status = "idle" /\ listening = {} /\ clearing = FALSE
  /\ task = [n \in Starts |-> "none"] /\ thread = [n \in Starts |-> NoThread]
  /\ call = [c \in Calls |-> 0]
  /\ vtxo \in [Vtxos -> {"none", "spendable"}]
  /\ starts = 0 /\ faults = 0 /\ blame = {}

ThreadRuns(n) == OpenDb(n) \/ CreateArk(n) \/ OpenArk(n) \/ InitFails(n) \/ Handle(n) \/ Stop(n)
                 \/ \E op \in Ops : Receive(n, op)
TaskRuns(n) == Spawn(n) \/ SetArk(n) \/ SetStatus(n)
SessionNext ==
  \/ Create \/ CreateFails \/ Unlock
  \/ Delete \/ DeleteFails \/ Purge \/ PurgeFails \/ Crash
  \/ \E n \in Starts : TaskRuns(n) \/ ThreadRuns(n) \/ Panic(n)
  \/ \E c \in Calls : Ask(c)

SessionSpec == SessionInit /\ [][SessionNext]_sessionVars
----------------------------------------------------------------------------
SessionTypeOK ==
  /\ wallet \in Seeds \cup {NoSeed} /\ arkDb \in Seeds \cup {NoSeed}
  /\ ark \in {0} \cup Starts /\ status \in {"idle", "pending", "ready", "failed"}
  /\ listening \subseteq Starts /\ clearing \in BOOLEAN
  /\ task \in [Starts -> {"none", "spawned", "waiting", "setArk", "setReady", "setFailed", "done", "aborted"}]
  /\ \A n \in Starts : /\ thread[n].pc \in {"none", "spawned", "opened", "serving", "ended"}
                       /\ thread[n].seed \in Seeds \cup {NoSeed} /\ thread[n].queue \in Seq(Calls)
                       /\ thread[n].saw \subseteq Vtxos
  /\ call \in [Calls -> {0} \cup Starts]
  /\ blame \subseteq {"late", "half", "outlived", "left", "cut", "twin"}

\* What commands.rs:327 promises of a reset, "so the UI cannot keep spending
\* from a deleted wallet", also across what happens between: the installed
\* service is one of the wallet in the vault, and a status of Ready means that
\* there is one.  The exceptions: a task that the reset found past its last
\* await, and a reset that ended when it had removed the snapshot and could not
\* remove the salt (commands.rs:325).
ServesThisWallet ==
  blame \cap {"late", "half"} = {} =>
    /\ ark # 0 => thread[ark].seed = wallet
    /\ status = "ready" /\ ~clearing => ark # 0

\* With no reset under way, a wallet never meets another wallet's Ark database,
\* which it could not open, except after a reset that did not wait for a thread
\* about to open it (service.rs:169), that did not reach its end by a crash or
\* by its early error (commands.rs:325), or that could not remove the file,
\* which is not reported (commands.rs:369).
OpensItsOwn ==
  wallet # NoSeed /\ arkDb # NoSeed /\ ~clearing /\ blame \cap {"outlived", "cut", "half", "left"} = {}
    => arkDb = wallet

\* service.rs:522: an exit is started for funds there are.  A thread that was
\* replaced by a new unlock serves on, and may move them between the look and the start.
ExitsHaveFunds ==
  [][\A n \in Starts : StartExit(n) => Spendable(n) # {} \/ "twin" \in blame']_sessionVars

\* No command waits for nobody: as long as it has no answer its thread is there
\* and has its request, also when the service has been replaced, the wallet
\* deleted, or the handler has panicked (service.rs:641).
NobodyForgotten ==
  \A c \in Calls : call[c] # 0 =>
    /\ thread[call[c]].pc = "serving"
    /\ thread[call[c]].at = c \/ \E i \in 1 .. Len(thread[call[c]].queue) : thread[call[c]].queue[i] = c

\* commands.rs:89: an unlocked wallet "serves remote buyers while the app is open".
ServesBuyers == status = "ready" => listening # {}
=============================================================================
