---------------------------- MODULE Wallet_proofs ----------------------------
(***************************************************************************)
(* Theorems about the three parts of the wallet app that a session starts  *)
(* and a reset takes down, each for any values of its constants:           *)
(*   Session   the unlocks and the Ark service they start                  *)
(*   Onchain   the on-chain wallet and its payments                        *)
(*   NodeLink  the connection to the Taproot Assets node, and Tor          *)
(* The parts are proved about one by one: no theorem is about two of them. *)
(***************************************************************************)
EXTENDS Session, Onchain, NodeLink, TLAPS

----------------------------------------------------------------------------
(* Session: the inductive invariant *)

Threads ==
  [pc : {"none", "spawned", "opened", "serving", "ended"},
   seed : Seeds \cup {NoSeed}, found : Seeds \cup {NoSeed}, queue : Seq(Calls),
   at : Calls \cup {NoCall}, op : Ops \cup {"none"}, saw : SUBSET Vtxos]

TaskSteps == {"none", "spawned", "waiting", "setArk", "setReady", "setFailed", "done", "aborted"}

\* SessionTypeOK, with the threads as records
SessionTypeInv ==
  /\ wallet \in Seeds \cup {NoSeed} /\ arkDb \in Seeds \cup {NoSeed}
  /\ ark \in {0} \cup Starts /\ status \in {"idle", "pending", "ready", "failed"}
  /\ listening \subseteq Starts /\ clearing \in BOOLEAN
  /\ task \in [Starts -> TaskSteps] /\ thread \in [Starts -> Threads]
  /\ call \in [Calls -> {0} \cup Starts]
  /\ starts \in 0 .. MaxStarts /\ blame \subseteq {"late", "half", "outlived", "left", "cut", "twin"}

\* What an unlock that has not happened yet has started, how far the thread of a
\* task can be, and that a request is taken by a thread that serves.
StepsOf(n) ==
  /\ n > starts => task[n] = "none" /\ thread[n] = NoThread
  /\ task[n] \in {"none", "spawned"} => thread[n].pc = "none"
  /\ thread[n].pc # "serving" => thread[n].at = NoCall
StepsInv == \A n \in Starts : StepsOf(n)

\* What starts a thread or installs it belongs to the wallet of the moment.
Mine(n) == wallet # NoSeed /\ thread[n].seed = wallet
WalletInv == \A n \in Starts : task[n] \in {"spawned", "waiting"} => Mine(n)
ServiceInv ==
  blame \cap {"late", "half"} = {} =>
    /\ ark # 0 => Mine(ark)
    /\ \A n \in Starts : task[n] = "setArk" => Mine(n)
    /\ \A n \in Starts : task[n] = "setReady" => ark # 0
    /\ status = "ready" /\ ~clearing => ark # 0

\* After a reset that left nothing behind, a thread about to open the database and the
\* database itself are the wallet's.
SessionDbInv ==
  blame \cap {"outlived", "cut", "half", "left"} = {} /\ ~clearing =>
    /\ arkDb # NoSeed => wallet # NoSeed /\ arkDb = wallet
    /\ \A n \in Starts : thread[n].pc \in {"spawned", "opened"} => Mine(n)

\* While one thread serves at a time, nobody moves what it has looked at.
ExitInv ==
  "twin" \notin blame =>
    /\ \A m, n \in Starts : thread[m].pc = "serving" /\ thread[n].pc = "serving" => m = n
    /\ \A n \in Starts :
         thread[n].pc = "serving" /\ thread[n].at # NoCall /\ thread[n].op = "exit"
           => Spendable(n) # {}

SessionIInv == /\ SessionTypeInv /\ StepsInv /\ WalletInv /\ ServiceInv /\ SessionDbInv /\ ExitInv
               /\ NobodyForgotten

----------------------------------------------------------------------------
(* Session: the steps *)

\* Create and Unlock start an unlock of a wallet: a new one when there is none.
Begin(s) == Start(s) /\ wallet' = s /\ wallet \in {NoSeed, s}

\* What every end of a handler does, of whichever request.
Reply(n) == thread[n].pc = "serving" /\ thread[n].at # NoCall /\ Respond(n)

LEMMA HandlersReply ==
  ASSUME NEW n \in Starts, Handle(n)
  PROVE  Reply(n)
BY DEF Handle, Look, PayLightning, SendArk, SendOnchain, OffboardAll, RefreshVtxos, CreateInvoice,
       ClaimReceives, StartExit, SyncExits, DrainExits, HandlerFails, Sent, Serving, Reply

ThreadActs(n) ==
  \/ OpenDb(n) \/ CreateArk(n) \/ OpenArk(n) \/ InitFails(n) \/ Handle(n) \/ Stop(n) \/ Panic(n)
  \/ \E op \in Ops : Receive(n, op)

\* What ends early, or has no effect where it should have one.
Failing == CreateFails \/ DeleteFails \/ PurgeFails

LEMMA SessionCases ==
  ASSUME SessionTypeInv, SessionNext
  PROVE  \/ \E s \in Seeds : Begin(s)
         \/ Delete \/ Purge \/ Crash \/ Failing
         \/ \E n \in Starts : Spawn(n) \/ SetArk(n) \/ SetStatus(n)
         \/ \E n \in Starts : ThreadActs(n)
         \/ \E c \in Calls : Ask(c)
BY DEF SessionTypeInv, SessionNext, Create, Unlock, Begin, ThreadRuns, TaskRuns, ThreadActs, Failing

LEMMA NoThreads == NoThread \in Threads
BY DEF NoThread, Threads

----------------------------------------------------------------------------
(* Session: types *)

LEMMA TypeStart ==
  ASSUME SessionTypeInv, NEW s \in Seeds, Begin(s)
  PROVE  SessionTypeInv'
<1> starts + 1 \in Starts /\ starts' = starts + 1 /\ starts' \in 0 .. MaxStarts
  BY SessionAssumption, SeedAssumption DEF SessionTypeInv, Begin, Start, Starts
<1>1. task' \in [Starts -> TaskSteps]
  BY DEF SessionTypeInv, Begin, Start, AbortAll, Aborted, TaskSteps
<1>2. thread' \in [Starts -> Threads]
  <2>1. thread[starts + 1] \in Threads
    BY DEF SessionTypeInv
  <2>2. [thread[starts + 1] EXCEPT !.seed = s] \in Threads
    BY <2>1 DEF Threads
  <2> QED
    BY <2>2 DEF SessionTypeInv, Begin, Start
<1> QED
  BY <1>1, <1>2 DEF SessionTypeInv, Begin, Start, Threads, TaskSteps

LEMMA TypeReset ==
  ASSUME SessionTypeInv, Delete \/ Purge \/ Crash \/ Failing
  PROVE  SessionTypeInv'
<1>1. CASE Delete
  BY <1>1 DEF SessionTypeInv, Delete, AbortAll, Aborted, TaskSteps, Blame, sessionBounds
<1>2. CASE Purge
  BY <1>2 DEF SessionTypeInv, Purge, Blame, sessionBounds
<1>3. CASE Crash
  <2>1. thread' \in [Starts -> Threads] /\ task' \in [Starts -> TaskSteps]
    BY <1>3, NoThreads DEF Crash, Threads, TaskSteps, SessionTypeInv
  <2>2. call' \in [Calls -> {0} \cup Starts]
    BY <1>3 DEF Crash, Answered, SessionTypeInv
  <2> QED
    BY <1>3, <2>1, <2>2 DEF SessionTypeInv, Crash, Blame, SessionFault, Fault
<1>4. CASE Failing
  BY <1>4
     DEF Failing, CreateFails, DeleteFails, PurgeFails, SessionTypeInv, AbortAll, Aborted, TaskSteps,
         Blame, SessionFault, Fault, sessionBounds
<1> QED
  BY <1>1, <1>2, <1>3, <1>4

LEMMA TypeTask ==
  ASSUME SessionTypeInv, NEW n \in Starts, Spawn(n) \/ SetArk(n) \/ SetStatus(n)
  PROVE  SessionTypeInv'
<1>1. task' \in [Starts -> TaskSteps]
  BY DEF SessionTypeInv, Spawn, SetArk, SetStatus, TaskStep, TaskSteps
<1>2. thread' \in [Starts -> Threads]
  <2>1. thread[n] \in Threads
    BY DEF SessionTypeInv
  <2>2. [thread[n] EXCEPT !.pc = "spawned"] \in Threads
    BY <2>1 DEF Threads
  <2> QED
    BY <2>2 DEF SessionTypeInv, Spawn, SetArk, SetStatus, ThreadStep
<1> QED
  BY <1>1, <1>2 DEF SessionTypeInv, Spawn, SetArk, SetStatus, TaskStep, ThreadStep, state, sessionBounds

LEMMA TypeThread ==
  ASSUME SessionTypeInv, NEW n \in Starts, ThreadActs(n)
  PROVE  SessionTypeInv'
<1> thread \in [Starts -> Threads] /\ task \in [Starts -> TaskSteps] /\ call \in [Calls -> {0} \cup Starts]
    /\ thread[n] \in Threads
  BY DEF SessionTypeInv
<1>1. CASE OpenDb(n)
  <2>1. thread' \in [Starts -> Threads]
    BY <1>1 DEF OpenDb, Threads, SessionTypeInv
  <2> QED
    BY <1>1, <2>1 DEF OpenDb, SessionTypeInv, state, sessionBounds
<1>2. CASE CreateArk(n) \/ OpenArk(n)
  <2>1. thread' \in [Starts -> Threads] /\ task' \in [Starts -> TaskSteps]
    BY <1>2 DEF CreateArk, OpenArk, Ready, Threads, TaskSteps
  <2>2. arkDb' \in Seeds \cup {NoSeed}
    BY <1>2 DEF CreateArk, OpenArk, SessionTypeInv, state, Threads
  <2> QED
    BY <1>2, <2>1, <2>2 DEF CreateArk, OpenArk, Ready, Blame, SessionTypeInv, state, sessionBounds
<1>3. CASE InitFails(n) \/ Stop(n)
  <2>1. thread' \in [Starts -> Threads]
    <3>1. [thread[n] EXCEPT !.pc = "ended"] \in Threads
      BY DEF Threads
    <3> QED
      BY <1>3, <3>1 DEF InitFails, Stop, ThreadStep
  <2>2. task' \in [Starts -> TaskSteps]
    BY <1>3 DEF InitFails, Stop, TaskSteps
  <2> QED
    BY <1>3, <2>1, <2>2 DEF InitFails, Stop, SessionTypeInv, state, sessionBounds
<1>4. CASE Handle(n)
  <2>1. Respond(n)
    BY <1>4, HandlersReply DEF Reply
  <2>2. thread' \in [Starts -> Threads]
    BY <2>1 DEF Respond, Threads
  <2>3. call' \in [Calls -> {0} \cup Starts]
    BY <2>1 DEF Respond, Answered
  <2> QED
    BY <2>1, <2>2, <2>3 DEF Respond, SessionTypeInv, state, sessionBounds
<1>5. CASE Panic(n)
  <2>1. thread' \in [Starts -> Threads]
    BY <1>5, NoThreads DEF Panic, Threads
  <2>2. call' \in [Calls -> {0} \cup Starts]
    BY <1>5 DEF Panic, Answered
  <2> QED
    BY <1>5, <2>1, <2>2 DEF Panic, SessionTypeInv, state, SessionFault, Fault
<1>6. ASSUME NEW op \in Ops, Receive(n, op) PROVE SessionTypeInv'
  <2>1. thread[n].queue \in Seq(Calls) /\ thread[n].queue # <<>>
    BY <1>6 DEF Receive, Threads
  <2>2. Head(thread[n].queue) \in Calls /\ Tail(thread[n].queue) \in Seq(Calls)
    BY <2>1
  <2>3. Sees(n, op) \in SUBSET Vtxos
    BY DEF Sees, Spendable, In, Own
  <2>4. thread' \in [Starts -> Threads]
    <3> DEFINE rest == [thread[n] EXCEPT !.queue = Tail(@)]
    <3>1. rest \in Threads
      BY <2>2 DEF Threads
    <3>2. [rest EXCEPT !.at = Head(thread[n].queue), !.op = op, !.saw = Sees(n, op)] \in Threads
      BY <2>2, <2>3, <3>1 DEF Threads
    <3> QED
      BY <1>6, <3>1, <3>2 DEF Receive
  <2>5. call' \in [Calls -> {0} \cup Starts]
    BY <1>6 DEF Receive, Answered
  <2> QED
    BY <1>6, <2>4, <2>5 DEF Receive, SessionTypeInv, state, sessionBounds
<1> QED
  BY <1>1, <1>2, <1>3, <1>4, <1>5, <1>6 DEF ThreadActs

LEMMA TypeAsk ==
  ASSUME SessionTypeInv, NEW c \in Calls, Ask(c)
  PROVE  SessionTypeInv'
<1>1. ark \in Starts /\ thread[ark] \in Threads
  BY DEF Ask, HasService, SessionTypeInv
<1>2. Append(thread[ark].queue, c) \in Seq(Calls)
  BY <1>1 DEF Threads
<1>3. thread' \in [Starts -> Threads]
  BY <1>1, <1>2 DEF Ask, SessionTypeInv, Threads
<1> QED
  BY <1>1, <1>3 DEF Ask, SessionTypeInv, state, sessionBounds

LEMMA SessionTypeStep ==
  ASSUME SessionTypeInv, [SessionNext]_sessionVars
  PROVE  SessionTypeInv'
<1>1. CASE UNCHANGED sessionVars
  BY <1>1 DEF SessionTypeInv, sessionVars, state, sessionBounds
<1> QED
  BY <1>1, SessionCases, TypeStart, TypeReset, TypeTask, TypeThread, TypeAsk

LEMMA SessionTypeInit == SessionInit => SessionTypeInv
<1> SUFFICES ASSUME SessionInit PROVE SessionTypeInv
  OBVIOUS
<1>1. starts \in 0 .. MaxStarts
  BY SessionAssumption, SeedAssumption DEF SessionInit
<1> QED
  BY <1>1, NoThreads, SessionAssumption, SeedAssumption DEF SessionInit, SessionTypeInv, TaskSteps

----------------------------------------------------------------------------
(* Session: what a step of one thread can change *)

LEMMA NoThreadIs ==
  NoThread.pc = "none" /\ NoThread.seed = NoSeed /\ NoThread.at = NoCall
BY DEF NoThread

LEMMA ThreadStays ==
  ASSUME SessionTypeInv, NEW n \in Starts, ThreadActs(n)
  PROVE  /\ \A m \in Starts : m # n => thread'[m] = thread[m] /\ task'[m] = task[m]
         /\ thread'[n].seed = thread[n].seed
         /\ thread[n].pc # "none" /\ thread'[n].pc \in {"opened", "serving", "ended"}
         /\ thread'[n].pc = "opened" => thread[n].pc \in {"spawned", "opened"}
         /\ thread[n].pc # "serving" => thread'[n].at = thread[n].at
         /\ thread'[n].pc = "ended" /\ thread[n].pc = "serving" => thread'[n].at = NoCall
         /\ task'[n] = task[n] \/ (task[n] = "waiting" /\ task'[n] \in {"setArk", "setFailed"})
         /\ UNCHANGED <<wallet, ark, status, listening, clearing, starts>>
         /\ blame' \in {blame, blame \cup {"twin"}}
<1> thread \in [Starts -> Threads] /\ task \in [Starts -> TaskSteps] /\ thread[n] \in Threads
  BY DEF SessionTypeInv
<1>1. CASE OpenDb(n)
  BY <1>1 DEF OpenDb, Threads, state, sessionBounds
<1>2. CASE CreateArk(n) \/ OpenArk(n)
  BY <1>2 DEF CreateArk, OpenArk, Ready, Blame, Threads, TaskSteps, state, sessionBounds
<1>3. CASE InitFails(n) \/ Stop(n)
  BY <1>3 DEF InitFails, Stop, ThreadStep, Threads, TaskSteps, state, sessionBounds
<1>4. CASE Handle(n)
  <2>1. Reply(n)
    BY <1>4, HandlersReply
  <2> QED
    BY <2>1 DEF Reply, Respond, Threads, state, sessionBounds
<1>5. CASE Panic(n)
  BY <1>5 DEF Panic, NoThread, Threads, state, SessionFault, Fault
<1>6. ASSUME NEW op \in Ops, Receive(n, op)
      PROVE  /\ thread[n].pc = "serving" /\ thread'[n].pc = "serving" /\ thread'[n].seed = thread[n].seed
             /\ \A m \in Starts : m # n => thread'[m] = thread[m]
             /\ UNCHANGED <<state, task, sessionBounds, blame>>
  BY <1>6 DEF Receive, Threads
<1> QED
  BY <1>1, <1>2, <1>3, <1>4, <1>5, <1>6 DEF ThreadActs, state, sessionBounds

LEMMA TaskStays ==
  ASSUME SessionTypeInv, NEW n \in Starts, Spawn(n) \/ SetArk(n) \/ SetStatus(n)
  PROVE  /\ \A m \in Starts : m # n => thread'[m] = thread[m] /\ task'[m] = task[m]
         /\ thread'[n].seed = thread[n].seed /\ task[n] # "none"
         /\ \/ task[n] = "spawned" /\ task'[n] = "waiting" /\ UNCHANGED ark /\ UNCHANGED status
               /\ thread[n].pc = "none" /\ thread'[n].pc = "spawned" /\ thread'[n].at = thread[n].at
            \/ task[n] = "setArk" /\ task'[n] = "setReady" /\ ark' = n /\ UNCHANGED status
               /\ thread' = thread
            \/ task[n] = "setReady" /\ task'[n] = "done" /\ status' = "ready" /\ UNCHANGED ark
               /\ thread' = thread
            \/ task[n] = "setFailed" /\ task'[n] = "done" /\ status' = "failed" /\ UNCHANGED ark
               /\ thread' = thread
         /\ UNCHANGED <<wallet, arkDb, listening, clearing, starts, call, vtxo, blame>>
<1> thread \in [Starts -> Threads] /\ task \in [Starts -> TaskSteps] /\ thread[n] \in Threads
  BY DEF SessionTypeInv
<1>1. CASE Spawn(n)
  BY <1>1 DEF Spawn, TaskStep, ThreadStep, Threads, state, sessionBounds
<1>2. CASE SetArk(n)
  BY <1>2 DEF SetArk, TaskStep, sessionBounds
<1>3. CASE SetStatus(n)
  BY <1>3 DEF SetStatus, TaskStep, sessionBounds
<1> QED
  BY <1>1, <1>2, <1>3

LEMMA StartStays ==
  ASSUME SessionTypeInv, StepsInv, NEW s \in Seeds, Begin(s)
  PROVE  /\ starts' = starts + 1 /\ starts' \in Starts
         /\ task[starts'] = "none" /\ thread[starts'] = NoThread
         /\ wallet' = s /\ wallet \in {NoSeed, s}
         /\ task'[starts'] = "spawned" /\ thread'[starts'].pc = "none" /\ thread'[starts'].seed = s
         /\ thread'[starts'].at = NoCall
         /\ \A m \in Starts : m # starts' => task'[m] = Aborted(task[m]) /\ thread'[m] = thread[m]
         /\ status' = "pending" /\ UNCHANGED <<arkDb, ark, clearing, call, vtxo, blame>>
<1>1. starts' = starts + 1 /\ starts' \in Starts /\ starts' > starts
  BY SessionAssumption, SeedAssumption DEF SessionTypeInv, Begin, Start, Starts
<1>2. task[starts'] = "none" /\ thread[starts'] = NoThread
  BY <1>1 DEF StepsInv, StepsOf
<1>3. /\ task' = [AbortAll EXCEPT ![starts'] = "spawned"]
      /\ thread' = [thread EXCEPT ![starts'].seed = s]
  BY <1>1 DEF Begin, Start
<1>4. AbortAll \in [Starts -> {Aborted(task[m]) : m \in Starts}] /\ thread \in [Starts -> Threads]
  BY DEF AbortAll, SessionTypeInv
<1>5. /\ task'[starts'] = "spawned" /\ thread'[starts'].pc = "none" /\ thread'[starts'].seed = s
      /\ thread'[starts'].at = NoCall
  BY <1>1, <1>2, <1>3, <1>4 DEF NoThread
<1>6. \A m \in Starts : m # starts' => task'[m] = Aborted(task[m]) /\ thread'[m] = thread[m]
  BY <1>1, <1>3, <1>4 DEF AbortAll
<1> QED
  BY <1>1, <1>2, <1>5, <1>6 DEF Begin, Start

LEMMA AskStays ==
  ASSUME SessionTypeInv, NEW c \in Calls, Ask(c)
  PROVE  /\ ark \in Starts /\ thread[ark].pc = "serving" /\ call[c] = 0
         /\ thread' = [thread EXCEPT ![ark].queue = Append(@, c)]
         /\ \A m \in Starts : m # ark => thread'[m] = thread[m]
         /\ \A m \in Starts : /\ thread'[m].pc = thread[m].pc /\ thread'[m].seed = thread[m].seed
                              /\ thread'[m].at = thread[m].at /\ thread'[m].op = thread[m].op
         /\ thread'[ark].queue = Append(thread[ark].queue, c)
         /\ call' = [call EXCEPT ![c] = ark]
         /\ UNCHANGED <<state, task, vtxo, sessionBounds, blame>>
<1>1. ark \in Starts /\ thread \in [Starts -> Threads] /\ thread[ark] \in Threads
  BY DEF Ask, HasService, SessionTypeInv
<1>2. thread'[ark] = [thread[ark] EXCEPT !.queue = Append(@, c)]
  BY <1>1 DEF Ask
<1> QED
  BY <1>1, <1>2 DEF Ask, Threads

LEMMA CrashClears ==
  ASSUME Crash
  PROVE  /\ \A n \in Starts : /\ task'[n] \in {"none", "aborted"} /\ (task[n] = "none" <=> task'[n] = "none")
                              /\ task[n] = "none" => thread'[n] = NoThread
                              /\ thread'[n].pc \in {"none", "ended"} /\ thread'[n].at = NoCall
         /\ ark' = 0 /\ status' = "idle" /\ listening' = {} /\ ~clearing'
         /\ \A c \in Calls : call'[c] = 0
         /\ blame' = IF clearing THEN blame \cup {"cut"} ELSE blame
         /\ UNCHANGED <<wallet, arkDb, vtxo, starts>>
BY DEF Crash, NoThread, Answered, Blame, SessionFault, Fault

LEMMA FailingStays ==
  ASSUME SessionTypeInv, Failing
  PROVE  /\ UNCHANGED <<arkDb, ark, thread, call, vtxo, starts>> /\ blame \subseteq blame'
         /\ \A n \in Starts : task'[n] \in {task[n], Aborted(task[n])}
         /\ \/ wallet = NoSeed /\ UNCHANGED <<task, clearing, status>>
            \/ /\ wallet' \in {wallet, NoSeed} /\ (wallet' = NoSeed => "half" \in blame')
               /\ task' = AbortAll /\ UNCHANGED <<clearing, status>>
            \/ UNCHANGED <<wallet, task>> /\ ~clearing' /\ status' = "idle" /\ "left" \in blame'
BY DEF Failing, CreateFails, DeleteFails, PurgeFails, SessionTypeInv, AbortAll, Aborted,
       Blame, SessionFault, sessionBounds

----------------------------------------------------------------------------
(* Session: nothing runs of an unlock that has not happened *)

LEMMA StepsStep ==
  ASSUME SessionTypeInv, StepsInv, [SessionNext]_sessionVars
  PROVE  StepsInv'
<1> starts \in 0 .. MaxStarts /\ Starts \subseteq Nat /\ MaxStarts \in Nat
  BY SessionAssumption, SeedAssumption DEF SessionTypeInv, Starts
<1>1. CASE UNCHANGED sessionVars
  BY <1>1 DEF StepsInv, StepsOf, sessionVars, sessionBounds
<1>2. ASSUME NEW s \in Seeds, Begin(s) PROVE StepsInv'
  <2> SUFFICES ASSUME NEW m \in Starts PROVE StepsOf(m)'
    BY DEF StepsInv
  <2>1. CASE m = starts'
    BY <1>2, <2>1, StartStays, NoThreadIs DEF StepsOf
  <2>2. CASE m # starts'
    <3>1. task'[m] = Aborted(task[m]) /\ thread'[m] = thread[m] /\ (m > starts' => m > starts)
      BY <1>2, <2>2, StartStays
    <3>2. StepsOf(m)
      BY DEF StepsInv
    <3> QED
      BY <3>1, <3>2 DEF StepsOf, Aborted
  <2> QED
    BY <2>1, <2>2
<1>3. CASE Delete
  BY <1>3 DEF StepsInv, StepsOf, Delete, AbortAll, Aborted, sessionBounds
<1>4. CASE Purge
  BY <1>4 DEF StepsInv, StepsOf, Purge, sessionBounds
<1>5. CASE Crash
  BY <1>5, CrashClears, NoThreadIs DEF StepsInv, StepsOf
<1>6. ASSUME NEW n \in Starts, Spawn(n) \/ SetArk(n) \/ SetStatus(n) PROVE StepsInv'
  BY <1>6, TaskStays DEF StepsInv, StepsOf
<1>7. ASSUME NEW n \in Starts, ThreadActs(n) PROVE StepsInv'
  <2> SUFFICES ASSUME NEW m \in Starts PROVE StepsOf(m)'
    BY DEF StepsInv
  <2>1. StepsOf(m) /\ starts' = starts
    BY <1>7, ThreadStays DEF StepsInv
  <2>2. CASE m = n
    BY <1>7, <2>1, <2>2, ThreadStays, NoThreadIs DEF StepsOf
  <2>3. CASE m # n
    BY <1>7, <2>1, <2>3, ThreadStays DEF StepsOf
  <2> QED
    BY <2>2, <2>3
<1>8. ASSUME NEW c \in Calls, Ask(c) PROVE StepsInv'
  BY <1>8, AskStays, NoThreadIs DEF StepsInv, StepsOf, state, sessionBounds
<1>9. CASE Failing
  BY <1>9, FailingStays DEF StepsInv, StepsOf, Aborted
<1> QED
  BY <1>1, <1>2, <1>3, <1>4, <1>5, <1>6, <1>7, <1>8, <1>9, SessionCases

----------------------------------------------------------------------------
(* Session: whose tasks and whose service *)

LEMMA WalletStep ==
  ASSUME SessionTypeInv, StepsInv, WalletInv, [SessionNext]_sessionVars
  PROVE  WalletInv'
<1>1. CASE UNCHANGED sessionVars
  BY <1>1 DEF WalletInv, Mine, sessionVars, state
<1>2. ASSUME NEW s \in Seeds, Begin(s) PROVE WalletInv'
  BY <1>2, StartStays, NoThreadIs, SessionAssumption, SeedAssumption DEF WalletInv, Mine, Aborted
<1>3. CASE Delete
  BY <1>3 DEF WalletInv, Delete, AbortAll, Aborted
<1>4. CASE Purge
  BY <1>4 DEF WalletInv, Mine, Purge
<1>5. CASE Crash
  BY <1>5, CrashClears, NoThreadIs DEF WalletInv
<1>6. ASSUME NEW n \in Starts, Spawn(n) \/ SetArk(n) \/ SetStatus(n) PROVE WalletInv'
  BY <1>6, TaskStays DEF WalletInv, Mine
<1>7. ASSUME NEW n \in Starts, ThreadActs(n) PROVE WalletInv'
  BY <1>7, ThreadStays DEF WalletInv, Mine
<1>8. ASSUME NEW c \in Calls, Ask(c) PROVE WalletInv'
  BY <1>8, AskStays, NoThreadIs DEF WalletInv, Mine, state
<1>9. CASE Failing
  BY <1>9, FailingStays DEF WalletInv, Mine, AbortAll, Aborted
<1> QED
  BY <1>1, <1>2, <1>3, <1>4, <1>5, <1>6, <1>7, <1>8, <1>9, SessionCases

\* A reset drops the service of the wallet; what can still install one or
\* report one is a task past its last await, and then the reset is to blame.
LEMMA ServiceStep ==
  ASSUME SessionTypeInv, StepsInv, WalletInv, ServiceInv, [SessionNext]_sessionVars
  PROVE  ServiceInv'
<1> ark \in {0} \cup Starts /\ 0 \notin Starts
  BY DEF SessionTypeInv, Starts
<1>1. CASE UNCHANGED sessionVars
  BY <1>1 DEF ServiceInv, Mine, sessionVars, state
<1>2. ASSUME NEW s \in Seeds, Begin(s) PROVE ServiceInv'
  <2>1. wallet = NoSeed \/ (wallet = s /\ s # NoSeed)
    BY <1>2, StartStays, NoThreadIs, SessionAssumption, SeedAssumption
  <2>2. \A m \in Starts : Mine(m) => Mine(m)'
    BY <1>2, <2>1, StartStays, NoThreadIs, SessionAssumption, SeedAssumption DEF Mine
  <2> QED
    BY <1>2, <2>2, StartStays, NoThreadIs DEF ServiceInv, Aborted
<1>3. CASE Delete
  BY <1>3 DEF ServiceInv, Delete, AbortAll, Aborted, Blame
<1>4. CASE Purge
  BY <1>4 DEF ServiceInv, Mine, Purge, Blame
<1>5. CASE Crash
  BY <1>5, CrashClears, NoThreadIs DEF ServiceInv
<1>6. ASSUME NEW n \in Starts, Spawn(n) \/ SetArk(n) \/ SetStatus(n) PROVE ServiceInv'
  <2>1. \A m \in Starts : Mine(m) => Mine(m)'
    BY <1>6, TaskStays DEF Mine
  <2> QED
    BY <1>6, <2>1, TaskStays DEF ServiceInv
<1>7. ASSUME NEW n \in Starts, ThreadActs(n) PROVE ServiceInv'
  <2>1. \A m \in Starts : Mine(m) => Mine(m)'
    BY <1>7, ThreadStays DEF Mine
  <2> QED
    BY <1>7, <2>1, ThreadStays DEF ServiceInv, WalletInv
<1>8. ASSUME NEW c \in Calls, Ask(c) PROVE ServiceInv'
  BY <1>8, AskStays, NoThreadIs DEF ServiceInv, Mine, state
<1>9. CASE Failing
  BY <1>9, FailingStays DEF ServiceInv, Mine, AbortAll, Aborted
<1> QED
  BY <1>1, <1>2, <1>3, <1>4, <1>5, <1>6, <1>7, <1>8, <1>9, SessionCases

----------------------------------------------------------------------------
(* Session: whose database *)

LEMMA SessionDbStep ==
  ASSUME SessionTypeInv, StepsInv, WalletInv, SessionDbInv, [SessionNext]_sessionVars
  PROVE  SessionDbInv'
<1>1. CASE UNCHANGED sessionVars
  BY <1>1 DEF SessionDbInv, Mine, sessionVars, state
<1>2. ASSUME NEW s \in Seeds, Begin(s) PROVE SessionDbInv'
  <2>1. wallet = NoSeed \/ (wallet = s /\ s # NoSeed)
    BY <1>2, StartStays, NoThreadIs, SessionAssumption, SeedAssumption
  <2>2. \A m \in Starts : Mine(m) => Mine(m)'
    BY <1>2, <2>1, StartStays, NoThreadIs, SessionAssumption, SeedAssumption DEF Mine
  <2> QED
    BY <1>2, <2>1, <2>2, StartStays, NoThreadIs DEF SessionDbInv
<1>3. CASE Delete
  BY <1>3 DEF SessionDbInv, Delete
<1>4. CASE Purge
  BY <1>4 DEF SessionDbInv, Purge, Blame
<1>5. CASE Crash
  BY <1>5, CrashClears, NoThreadIs DEF SessionDbInv
<1>6. ASSUME NEW n \in Starts, Spawn(n) \/ SetArk(n) \/ SetStatus(n) PROVE SessionDbInv'
  <2>1. \A m \in Starts : Mine(m) => Mine(m)'
    BY <1>6, TaskStays DEF Mine
  <2>2. task[n] = "spawned" => Mine(n)
    BY DEF WalletInv
  <2> QED
    BY <1>6, <2>1, <2>2, TaskStays DEF SessionDbInv
<1>7. ASSUME NEW n \in Starts, ThreadActs(n) PROVE SessionDbInv'
  <2>1. \A m \in Starts : Mine(m) => Mine(m)'
    BY <1>7, ThreadStays DEF Mine
  <2>2. arkDb' = arkDb \/ CreateArk(n)
    BY <1>7, HandlersReply
    DEF ThreadActs, OpenDb, OpenArk, InitFails, Reply, Respond, Stop, Panic, Receive, state
  <2>3. CASE CreateArk(n)
    <3>1. /\ thread[n].pc = "opened" /\ UNCHANGED clearing
          /\ "outlived" \notin blame => arkDb' = thread[n].seed
      BY <2>3 DEF CreateArk
    <3> QED
      BY <1>7, <2>1, <3>1, ThreadStays DEF SessionDbInv, Mine
  <2> QED
    BY <1>7, <2>1, <2>2, <2>3, ThreadStays DEF SessionDbInv
<1>8. ASSUME NEW c \in Calls, Ask(c) PROVE SessionDbInv'
  BY <1>8, AskStays, NoThreadIs DEF SessionDbInv, Mine, state
<1>9. CASE Failing
  BY <1>9, FailingStays DEF SessionDbInv, Mine
<1> QED
  BY <1>1, <1>2, <1>3, <1>4, <1>5, <1>6, <1>7, <1>8, <1>9, SessionCases

----------------------------------------------------------------------------
(* Session: what a thread has looked at *)

\* Only a thread that serves moves an output, and no other thread serves then
\* unless one is to blame.
LEMMA ServingAlone ==
  ASSUME SessionTypeInv, ExitInv, NEW n \in Starts, thread[n].pc = "serving", "twin" \notin blame
  PROVE  \A m \in Starts : thread[m].pc = "serving" => m = n
BY DEF ExitInv

\* What becomes of the outputs is all that Spendable depends on.
LEMMA SpendableStays ==
  ASSUME NEW n \in Starts, thread'[n].seed = thread[n].seed, vtxo' = vtxo
  PROVE  Spendable(n)' = Spendable(n)
BY DEF Spendable, In, Own

\* How far a thread is in its request, for all steps that no output is moved by.
Keeps(n) ==
  /\ thread'[n].seed = thread[n].seed
  /\ thread'[n].pc = "serving" /\ thread'[n].at # NoCall /\ thread'[n].op = "exit" =>
       thread[n].pc = "serving" /\ thread[n].at # NoCall /\ thread[n].op = "exit"

LEMMA Kept ==
  ASSUME ExitInv, vtxo' = vtxo, blame \subseteq blame',
         \A n \in Starts : thread'[n].pc = "serving" => thread[n].pc = "serving" /\ Keeps(n)
  PROVE  ExitInv'
<1>1. ASSUME NEW n \in Starts, thread'[n].pc = "serving" PROVE Spendable(n)' = Spendable(n)
  BY <1>1, SpendableStays DEF Keeps
<1> QED
  BY <1>1 DEF ExitInv, Keeps

LEMMA ExitStep ==
  ASSUME SessionTypeInv, StepsInv, ExitInv, [SessionNext]_sessionVars
  PROVE  ExitInv'
<1> thread \in [Starts -> Threads]
  BY DEF SessionTypeInv
<1>1. CASE UNCHANGED sessionVars
  BY <1>1, Kept DEF Keeps, sessionVars
<1>2. ASSUME NEW s \in Seeds, Begin(s) PROVE ExitInv'
  BY <1>2, StartStays, Kept DEF Keeps
<1>3. CASE Delete
  BY <1>3, Kept DEF Keeps, Delete, Blame
<1>4. CASE Purge
  BY <1>4, Kept DEF Keeps, Purge, Blame
<1>5. CASE Crash
  BY <1>5, CrashClears, Kept
<1>6. ASSUME NEW n \in Starts, Spawn(n) \/ SetArk(n) \/ SetStatus(n) PROVE ExitInv'
  <2>1. \A m \in Starts : thread'[m].pc = "serving" => thread'[m] = thread[m]
    BY <1>6, TaskStays
  <2> QED
    BY <1>6, <2>1, TaskStays, Kept DEF Keeps
<1>7. ASSUME NEW n \in Starts, OpenDb(n) \/ InitFails(n) \/ Stop(n) \/ Panic(n) PROVE ExitInv'
  <2>1. \A m \in Starts : m # n => thread'[m] = thread[m]
    BY <1>7 DEF OpenDb, InitFails, Stop, Panic, ThreadStep
  <2>2. thread'[n].pc # "serving" /\ UNCHANGED <<vtxo, blame>>
    BY <1>7 DEF OpenDb, InitFails, Stop, Panic, ThreadStep, NoThread, Threads
  <2> QED
    BY <2>1, <2>2, Kept DEF Keeps
<1>8. ASSUME NEW n \in Starts, CreateArk(n) \/ OpenArk(n) PROVE ExitInv'
  <2>1. /\ thread[n].pc = "opened" /\ Ready(n) /\ UNCHANGED vtxo
        /\ \A m \in Starts : m # n => thread'[m] = thread[m]
        /\ thread'[n].at = thread[n].at
    BY <1>8 DEF CreateArk, OpenArk, Ready, Threads
  <2>2. thread'[n].at = NoCall
    BY <2>1 DEF StepsInv, StepsOf
  <2>3. thread'[n].pc = "serving" => task[n] = "waiting"
    BY <1>8 DEF CreateArk, OpenArk, Ready, Threads
  <2>4. \A m \in Starts : m # n => Spendable(m)' = Spendable(m)
    BY <2>1, SpendableStays
  <2>5. blame \subseteq blame'
    BY <2>1 DEF Ready, Blame
  <2>6. ASSUME "twin" \notin blame', thread'[n].pc = "serving", NEW m \in Starts, m # n
        PROVE  thread'[m].pc # "serving"
    BY <2>1, <2>3, <2>6 DEF Ready, Blame
  <2> QED
    BY <2>1, <2>2, <2>4, <2>5, <2>6 DEF ExitInv
<1>9. ASSUME NEW n \in Starts, NEW op \in Ops, Receive(n, op) PROVE ExitInv'
  <2>1. /\ \A m \in Starts : m # n => thread'[m] = thread[m]
        /\ thread[n].pc = "serving" /\ UNCHANGED <<vtxo, blame>>
        /\ thread'[n].seed = thread[n].seed
    BY <1>9 DEF Receive, Threads
  <2>2. thread'[n].at # NoCall => thread'[n].op = op /\ ~Refused(op, Sees(n, op))
    BY <1>9 DEF Receive, Threads
  <2>3. thread'[n].at # NoCall /\ thread'[n].op = "exit" => Spendable(n) # {}
    BY <2>2 DEF Refused, Sees
  <2>4. Spendable(n)' = Spendable(n)
    BY <2>1, SpendableStays
  <2> QED
    BY <2>1, <2>3, <2>4 DEF ExitInv
<1>10. ASSUME NEW n \in Starts, Handle(n) PROVE ExitInv'
  <2>1. Reply(n)
    BY <1>10, HandlersReply
  <2>2. thread'[n].at = NoCall /\ UNCHANGED blame /\ thread[n].pc = "serving"
    BY <2>1 DEF Reply, Respond, Threads
  <2>3. \A m \in Starts : m # n => thread'[m] = thread[m]
    BY <2>1 DEF Reply, Respond
  <2> QED
    BY <2>2, <2>3 DEF ExitInv
<1>11. ASSUME NEW c \in Calls, Ask(c) PROVE ExitInv'
  BY <1>11, AskStays, Kept DEF Keeps
<1>12. CASE Failing
  BY <1>12, FailingStays, Kept DEF Keeps
<1> QED
  BY <1>1, <1>2, <1>3, <1>4, <1>5, <1>6, <1>7, <1>8, <1>9, <1>10, <1>11, <1>12, SessionCases DEF ThreadActs

----------------------------------------------------------------------------
(* Session: who waits for whom *)

\* The command c waits for the thread n, which has its request.
Has(n, c) ==
  /\ thread[n].pc = "serving"
  /\ thread[n].at = c \/ \E i \in 1 .. Len(thread[n].queue) : thread[n].queue[i] = c

LEMMA Waits ==
  NobodyForgotten <=> \A c \in Calls : call[c] # 0 => Has(call[c], c)
BY DEF NobodyForgotten, Has

\* A step of a thread that nobody waits for.
LEMMA UnaskedStays ==
  ASSUME SessionTypeInv, NobodyForgotten, NEW n \in Starts, thread[n].pc # "serving", call' = call,
         \A m \in Starts : m # n => thread'[m] = thread[m]
  PROVE  NobodyForgotten'
<1> SUFFICES ASSUME NEW c \in Calls, NEW m, call'[c] = m, m # 0 PROVE Has(m, c)'
  BY DEF NobodyForgotten, Has
<1>1. call[c] \in Starts /\ Has(call[c], c)
  BY Waits DEF SessionTypeInv
<1>2. call[c] # n
  BY <1>1 DEF Has
<1> QED
  BY <1>1, <1>2 DEF Has

\* Those who wait for another thread, or are not answered by this one and still
\* in its queue, are not forgotten.
LEMMA OthersWait ==
  ASSUME SessionTypeInv, NobodyForgotten, NEW n \in Starts, NEW cs, Answered(cs),
         \A m \in Starts : m # n => thread'[m] = thread[m],
         \A c \in Calls \ cs : call[c] = n => Has(n, c)'
  PROVE  NobodyForgotten'
<1> SUFFICES ASSUME NEW c \in Calls, NEW m, call'[c] = m, m # 0 PROVE Has(m, c)'
  BY DEF NobodyForgotten, Has
<1>1. c \notin cs /\ call[c] = m /\ m \in Starts /\ Has(m, c)
  BY Waits DEF SessionTypeInv, Answered
<1>2. CASE m = n
  BY <1>1, <1>2
<1>3. CASE m # n
  BY <1>1, <1>3 DEF Has
<1> QED
  BY <1>2, <1>3

LEMMA CallsReceive ==
  ASSUME SessionTypeInv, NobodyForgotten, NEW n \in Starts, NEW op \in Ops, Receive(n, op)
  PROVE  NobodyForgotten'
<1> DEFINE q == thread[n].queue
<1>1. /\ thread[n] \in Threads /\ q \in Seq(Calls) /\ q # <<>>
      /\ thread[n].pc = "serving" /\ thread[n].at = NoCall
  BY DEF SessionTypeInv, Receive, Threads
<1>2. Head(q) \in Calls /\ Head(q) = q[1] /\ Tail(q) \in Seq(Calls) /\ Len(q) \in Nat /\ Len(Tail(q)) = Len(q) - 1
      /\ \A i \in 1 .. Len(Tail(q)) : Tail(q)[i] = q[i + 1]
  BY <1>1
<1>3. /\ thread'[n].pc = "serving" /\ thread'[n].queue = Tail(q)
      /\ \A m \in Starts : m # n => thread'[m] = thread[m]
      /\ \/ Answered({Head(q)})
         \/ call' = call /\ thread'[n].at = Head(q)
  BY <1>1 DEF Receive, SessionTypeInv, Threads
<1>4. ASSUME NEW c \in Calls, call[c] = n, c # Head(q)
      PROVE  \E j \in 1 .. Len(Tail(q)) : Tail(q)[j] = c
  <2>1. PICK i \in 1 .. Len(q) : q[i] = c
    <3>1. Has(n, c) /\ c # NoCall /\ n # 0
      BY <1>4, Waits, SessionAssumption, SeedAssumption DEF Starts
    <3> QED
      BY <1>1, <3>1 DEF Has
  <2>2. i # 1
    BY <1>2, <1>4, <2>1
  <2>3. i - 1 \in 1 .. Len(Tail(q)) /\ (i - 1) + 1 = i
    BY <1>2, <2>1, <2>2
  <2>4. Tail(q)[i - 1] = c
    BY <1>2, <2>1, <2>3
  <2> QED
    BY <2>3, <2>4
<1>5. \A c \in Calls : call[c] = n => Has(n, c)' \/ (c = Head(q) /\ Answered({Head(q)}))
  BY <1>3, <1>4 DEF Has
<1>6. CASE Answered({Head(q)})
  <2>1. \A c \in Calls \ {Head(q)} : call[c] = n => Has(n, c)'
    BY <1>5
  <2> QED
    BY <1>3, <1>6, <2>1, OthersWait
<1>7. CASE call' = call /\ thread'[n].at = Head(q)
  <2>1. \A c \in Calls : call[c] = n => Has(n, c)'
    BY <1>3, <1>4, <1>7 DEF Has
  <2> SUFFICES ASSUME NEW c \in Calls, NEW m, call'[c] = m, m # 0 PROVE Has(m, c)'
    BY DEF NobodyForgotten, Has
  <2>2. call[c] \in Starts /\ Has(call[c], c)
    BY <1>7, Waits DEF SessionTypeInv
  <2> QED
    BY <1>3, <1>7, <2>1, <2>2 DEF Has
<1> QED
  BY <1>3, <1>6, <1>7

LEMMA CallsStep ==
  ASSUME SessionTypeInv, StepsInv, NobodyForgotten, [SessionNext]_sessionVars
  PROVE  NobodyForgotten'
<1> thread \in [Starts -> Threads] /\ call \in [Calls -> {0} \cup Starts]
  BY DEF SessionTypeInv
<1>1. CASE UNCHANGED sessionVars
  BY <1>1 DEF NobodyForgotten, sessionVars
<1>2. ASSUME NEW s \in Seeds, Begin(s) PROVE NobodyForgotten'
  <2>1. /\ starts' \in Starts /\ thread[starts'].pc # "serving" /\ call' = call
        /\ \A m \in Starts : m # starts' => thread'[m] = thread[m]
    BY <1>2, StartStays, NoThreadIs
  <2> HIDE DEF NobodyForgotten
  <2> QED
    BY <2>1, UnaskedStays
<1>3. CASE Delete \/ Purge
  BY <1>3 DEF NobodyForgotten, Delete, Purge
<1>4. CASE Crash
  BY <1>4, CrashClears DEF NobodyForgotten
<1>5. ASSUME NEW n \in Starts, Spawn(n) \/ SetArk(n) \/ SetStatus(n) PROVE NobodyForgotten'
  <2>1. thread' = thread \/ thread[n].pc # "serving"
    BY <1>5, TaskStays
  <2>2. call' = call /\ \A m \in Starts : m # n => thread'[m] = thread[m]
    BY <1>5, TaskStays
  <2>3. CASE thread' = thread
    BY <2>2, <2>3 DEF NobodyForgotten
  <2> QED
    BY <2>1, <2>2, <2>3, UnaskedStays
<1>6. ASSUME NEW n \in Starts, OpenDb(n) \/ CreateArk(n) \/ OpenArk(n) \/ InitFails(n) PROVE NobodyForgotten'
  <2>1. thread[n].pc # "serving" /\ call' = call /\ \A m \in Starts : m # n => thread'[m] = thread[m]
    BY <1>6 DEF OpenDb, CreateArk, OpenArk, InitFails, Ready, ThreadStep
  <2> QED
    BY <2>1, UnaskedStays
<1>7. ASSUME NEW n \in Starts, Stop(n) PROVE NobodyForgotten'
  <2>1. /\ thread[n].queue = <<>> /\ thread[n].at = NoCall /\ call' = call
        /\ \A m \in Starts : m # n => thread'[m] = thread[m]
    BY <1>7 DEF Stop, ThreadStep
  <2>2. \A c \in Calls : ~Has(n, c)
    BY <2>1, SessionAssumption, SeedAssumption DEF Has
  <2> SUFFICES ASSUME NEW c \in Calls, NEW m, call'[c] = m, m # 0 PROVE Has(m, c)'
    BY DEF NobodyForgotten, Has
  <2>3. call[c] \in Starts /\ Has(call[c], c) /\ call[c] # n
    BY <2>1, <2>2, Waits
  <2> QED
    BY <2>1, <2>3 DEF Has
<1>8. ASSUME NEW n \in Starts, Handle(n) PROVE NobodyForgotten'
  <2>1. Reply(n)
    BY <1>8, HandlersReply
  <2>2. /\ thread'[n].pc = "serving" /\ thread'[n].queue = thread[n].queue
        /\ \A m \in Starts : m # n => thread'[m] = thread[m]
        /\ Answered({thread[n].at})
    BY <2>1 DEF Reply, Respond, Threads
  <2>3. \A c \in Calls \ {thread[n].at} : call[c] = n => Has(n, c)'
    BY <2>2, Waits DEF Has, Starts
  <2> QED
    BY <2>2, <2>3, OthersWait
<1>9. ASSUME NEW n \in Starts, Panic(n) PROVE NobodyForgotten'
  <2>1. Answered(Asked(n)) /\ \A m \in Starts : m # n => thread'[m] = thread[m]
    BY <1>9 DEF Panic
  <2>2. \A c \in Calls \ Asked(n) : call[c] # n
    BY DEF Asked
  <2> QED
    BY <2>1, <2>2, OthersWait
<1>10. ASSUME NEW n \in Starts, NEW op \in Ops, Receive(n, op) PROVE NobodyForgotten'
  BY <1>10, CallsReceive
<1>11. ASSUME NEW c \in Calls, Ask(c) PROVE NobodyForgotten'
  <2>1. /\ thread[ark] \in Threads /\ thread'[ark].queue = Append(thread[ark].queue, c) /\ ark \in Starts
        /\ call' = [call EXCEPT ![c] = ark] /\ thread[ark].pc = "serving"
        /\ \A m \in Starts : m # ark => thread'[m] = thread[m]
        /\ thread'[ark].pc = thread[ark].pc /\ thread'[ark].at = thread[ark].at
    BY <1>11, AskStays
  <2>2. /\ thread[ark].queue \in Seq(Calls) /\ Len(thread[ark].queue) \in Nat
        /\ Len(thread'[ark].queue) = Len(thread[ark].queue) + 1
        /\ thread'[ark].queue[Len(thread[ark].queue) + 1] = c
        /\ \A i \in 1 .. Len(thread[ark].queue) : thread'[ark].queue[i] = thread[ark].queue[i]
    BY <2>1 DEF Threads
  <2>3. Len(thread[ark].queue) + 1 \in 1 .. Len(thread'[ark].queue)
        /\ \A i \in 1 .. Len(thread[ark].queue) : i \in 1 .. Len(thread'[ark].queue)
    BY <2>2
  <2> SUFFICES ASSUME NEW d \in Calls, NEW m, call'[d] = m, m # 0 PROVE Has(m, d)'
    BY DEF NobodyForgotten, Has
  <2>4. CASE d = c
    BY <2>1, <2>2, <2>3, <2>4 DEF Has
  <2>5. CASE d # c
    <3>1. call'[d] = call[d] /\ call[d] \in Starts /\ Has(call[d], d)
      BY <2>1, <2>5, Waits
    <3>2. CASE call[d] = ark
      BY <2>1, <2>2, <2>3, <3>1, <3>2 DEF Has
    <3>3. CASE call[d] # ark
      BY <2>1, <3>1, <3>3 DEF Has
    <3> QED
      BY <3>2, <3>3
  <2> QED
    BY <2>4, <2>5
<1>12. CASE Failing
  BY <1>12, FailingStays DEF NobodyForgotten
<1> QED
  BY <1>1, <1>2, <1>3, <1>4, <1>5, <1>6, <1>7, <1>8, <1>9, <1>10, <1>11, <1>12, SessionCases DEF ThreadActs

----------------------------------------------------------------------------
(* Session: the theorems *)

LEMMA SessionInductive == SessionSpec => []SessionIInv
<1>1. SessionInit => SessionIInv
  <2> SUFFICES ASSUME SessionInit PROVE SessionIInv
    OBVIOUS
  <2>1. StepsInv
    BY NoThreadIs DEF SessionInit, StepsInv, StepsOf
  <2>2. WalletInv /\ ServiceInv /\ SessionDbInv /\ ExitInv /\ NobodyForgotten
    BY NoThreadIs, SessionAssumption, SeedAssumption DEF SessionInit, WalletInv, ServiceInv, SessionDbInv, ExitInv, NobodyForgotten
  <2> QED
    BY <2>1, <2>2, SessionTypeInit DEF SessionIInv
<1>2. SessionIInv /\ [SessionNext]_sessionVars => SessionIInv'
  BY SessionTypeStep, StepsStep, WalletStep, ServiceStep, SessionDbStep, ExitStep, CallsStep DEF SessionIInv
<1> QED
  BY <1>1, <1>2, PTL DEF SessionSpec

\* Every variable keeps to its type (of a thread, also its requests and what it looked at).
THEOREM SessionTypeCorrect == SessionSpec => []SessionTypeOK
<1>1. SessionIInv => SessionTypeOK
  BY DEF SessionIInv, SessionTypeInv, SessionTypeOK, Threads, TaskSteps
<1> QED
  BY <1>1, SessionInductive, PTL

\* The installed Ark service is of the wallet in the vault, and an unlock that
\* has reported it as ready has one, however unlocks, resets, tasks past an abort
\* and crashes follow each other, but for a task a reset found past its last await
\* and a reset that failed between the snapshot and its salt.
THEOREM ServiceIsTheWallets == SessionSpec => []ServesThisWallet
<1>1. SessionIInv => ServesThisWallet
  BY DEF SessionIInv, ServiceInv, Mine, ServesThisWallet
<1> QED
  BY <1>1, SessionInductive, PTL

\* A wallet meets no other wallet's Ark database, but after a reset that did not
\* wait for a thread about to open it, that a crash or an early error cut short,
\* or that could not remove the file.
THEOREM DatabaseIsTheWallets == SessionSpec => []OpensItsOwn
<1>1. SessionIInv => OpensItsOwn
  BY DEF SessionIInv, SessionDbInv, WalletInv, OpensItsOwn
<1> QED
  BY <1>1, SessionInductive, PTL

\* No command waits for a thread that has not got its request or has ended.
THEOREM CommandsAreAnswered == SessionSpec => []NobodyForgotten
<1>1. SessionIInv => NobodyForgotten
  BY DEF SessionIInv
<1> QED
  BY <1>1, SessionInductive, PTL

\* An exit is started for funds there are, unless two unlocks' threads serve at once.
THEOREM ExitsAreFunded == SessionSpec => ExitsHaveFunds
<1>1. SessionIInv /\ [SessionNext]_sessionVars =>
        [\A n \in Starts : StartExit(n) => Spendable(n) # {} \/ "twin" \in blame']_sessionVars
  <2> SUFFICES ASSUME SessionIInv, NEW n \in Starts, StartExit(n), "twin" \notin blame'
               PROVE  Spendable(n) # {}
    OBVIOUS
  <2>1. thread[n].pc = "serving" /\ thread[n].at # NoCall /\ thread[n].op = "exit" /\ blame' = blame
    BY DEF StartExit, Serving, Respond
  <2> QED
    BY <2>1 DEF SessionIInv, ExitInv
<1> QED
  BY <1>1, SessionInductive, PTL DEF SessionSpec, ExitsHaveFunds

----------------------------------------------------------------------------
(* Onchain: the inductive invariant *)

Memory == [seed : Seeds \cup {NoSeed}, view : SUBSET Sends, staged : SUBSET Items]
Payments == [pc : {"rest", "build", "broadcast", "save", "ok", "error", "gone"},
             of : {0} \cup Opens, coin : Coins \cup {NoCoin}, server : Nat, lost : BOOLEAN]
Scans == [pc : {"rest", "scan", "apply"}, of : {0} \cup Opens, saw : SUBSET Sends, server : Nat]

\* OnchainTypeOK, with the wallets, payments and the scan as records
OnchainTypeInv ==
  /\ wallet \in Seeds \cup {NoSeed} /\ clearing \in BOOLEAN /\ path \in BOOLEAN
  /\ db \in [seed : Seeds \cup {NoSeed}, items : SUBSET Items]
  /\ onchain \in {0} \cup Opens /\ opens \in 0 .. MaxOpens /\ reveal \in {0} \cup Opens
  /\ mem \in [Opens -> Memory] /\ send \in [Sends -> Payments] /\ scan \in Scans
  /\ mempool \in SUBSET Sends /\ chain \in SUBSET Sends /\ known \in SUBSET Sends
  /\ faults \in 0 .. MaxFaults

\* A command that is under way holds on to a wallet that was opened, and what
\* a wallet stages it saves in the same step.
Opened(i) == i \in 1 .. opens
HoldInv ==
  /\ onchain # 0 => Opened(onchain)
  /\ reveal # 0 => Opened(reveal)
  /\ scan.of # 0 => Opened(scan.of)
  /\ scan.pc # "rest" => scan.of # 0
  /\ \A t \in Sends : /\ send[t].of # 0 => Opened(send[t].of)
                      /\ send[t].pc \in {"build", "broadcast", "save"} => send[t].of # 0
  /\ \A i \in Opens : mem[i].staged = {}

\* The wallets that are in use: the installed one, while there is the path of
\* its database, and those that a command holds on to.
Used(i) ==
  (path /\ onchain = i) \/ scan.of = i \/ reveal = i \/ \E t \in Sends : send[t].of = i

\* While no reset was outlived, cut short or failed, the database is the wallet's.
OnchainDbInv ==
  blame \cap {"outlived", "cut", "half", "left"} = {} =>
    /\ ~clearing => db = NoDb \/ (wallet # NoSeed /\ db.seed = wallet)
    /\ (\E i \in Opens : Used(i)) => db.seed # NoSeed

\* A payment with an error is out only when a reply or a write was lost.
UnpaidInv ==
  \A t \in Sends :
    t \in Out => \/ send[t].pc \in {"save", "ok", "gone"}
                 \/ send[t].pc \in {"broadcast", "error"} /\ send[t].lost

\* While no coin is built from twice, the payments that are out or about to be
\* spend different coins, and those that were accepted are out.
Casting == {t \in Sends : send[t].pc = "broadcast"}
PaidInv ==
  "reused" \notin blame =>
    /\ \A t, u \in Out \cup Casting : t # u => send[t].coin # send[u].coin
    /\ \A t \in Sends : send[t].pc \in {"save", "ok"} => t \in Out

\* While one wallet is in use and its writes succeed, what scans have reported is
\* in the database and in the wallet that the next payment is built from.
KnownInv ==
  blame \cap {"twin", "unsaved", "outlived"} = {} =>
    /\ \A i, j \in Opens : Used(i) /\ Used(j) => i = j
    /\ known \subseteq db.items
    /\ \A i \in Opens : Used(i) => known \subseteq mem[i].view /\ mem[i].view \subseteq db.items

OnchainIInv == OnchainTypeInv /\ HoldInv /\ OnchainDbInv /\ UnpaidInv /\ PaidInv /\ KnownInv

----------------------------------------------------------------------------
(* Onchain: the steps *)

\* Create and Unlock open a wallet, unless the database is another one's.
OpenFor(s) == wallet \in {NoSeed, s} /\ wallet' = s /\ Open(s)
Shut(s) == /\ wallet = NoSeed /\ wallet' = s /\ ~Loads(s)
           /\ UNCHANGED <<clearing, onchain, path, opens, db, mem, send, scan, reveal, network,
                          known, faults, blame>>
OnchainResetFails == DeleteOnchainFails \/ PurgeOnchainFails

Pays(t) == \/ Preflight(t) \/ Build(t) \/ BuildFails(t) \/ Accepted(t) \/ Refuse(t)
           \/ ReplyLost(t) \/ Save(t) \/ Confirm(t)

LEMMA OnchainCases ==
  ASSUME OnchainTypeInv, OnchainNext
  PROVE  \/ \E s \in Seeds : OpenFor(s) \/ Shut(s)
         \/ DeleteOnchain \/ PurgeOnchain \/ OnchainResetFails \/ CrashOnchain
         \/ Reveal \/ Revealed
         \/ SyncStart \/ Scan \/ ScanFails \/ Apply
         \/ \E t \in Sends : Pays(t)
<1>1. ASSUME CreateOnchain PROVE \E s \in Seeds : OpenFor(s) \/ Shut(s)
  BY <1>1 DEF CreateOnchain, OpenFor, Shut
<1>2. ASSUME UnlockOnchain PROVE \E s \in Seeds : OpenFor(s)
  <2>1. wallet \in Seeds
    BY <1>2 DEF UnlockOnchain, OnchainTypeInv
  <2>2. OpenFor(wallet)
    BY <1>2, <2>1 DEF UnlockOnchain, OpenFor
  <2> QED
    BY <2>1, <2>2
<1> QED
  BY <1>1, <1>2 DEF OnchainNext, Pays, OnchainResetFails

\* A reset that fails ends a step early, and leaves the files and the commands as they are.
LEMMA ResetFailing ==
  ASSUME OnchainTypeInv, OnchainResetFails
  PROVE  /\ UNCHANGED <<onchain, opens, db, mem, send, scan, reveal, network, known>>
         /\ path' \in BOOLEAN /\ (path' => path) /\ clearing' \in BOOLEAN
         /\ wallet' \in Seeds \cup {NoSeed} /\ faults' \in 0 .. MaxFaults
         /\ blame \subseteq blame'
         /\ blame' \cap {"half", "left"} = {} => wallet' = wallet /\ clearing' = clearing
<1>1. Fault
  BY DEF OnchainResetFails, DeleteOnchainFails, PurgeOnchainFails
<1>2. faults' \in 0 .. MaxFaults
  BY <1>1, OnchainAssumption, SeedAssumption, AppAssumption DEF Fault, OnchainTypeInv
<1>3. CASE DeleteOnchainFails
  BY <1>2, <1>3 DEF DeleteOnchainFails, Blame, OnchainTypeInv
<1>4. CASE PurgeOnchainFails
  BY <1>2, <1>4 DEF PurgeOnchainFails, OnchainTypeInv
<1> QED
  BY <1>3, <1>4 DEF OnchainResetFails

LEMMA Empties ==
  Unsent \in Payments /\ NoScan \in Scans /\ Closed \in Memory
BY DEF Unsent, Payments, NoScan, Scans, Closed, Memory

----------------------------------------------------------------------------
(* Onchain: types *)

LEMMA TypeOpen ==
  ASSUME OnchainTypeInv, NEW s \in Seeds, OpenFor(s) \/ Shut(s)
  PROVE  OnchainTypeInv'
<1>1. CASE OpenFor(s)
  <2>1. opens + 1 \in Opens /\ opens' \in 0 .. MaxOpens /\ onchain' \in {0} \cup Opens
    BY <1>1, OnchainAssumption, SeedAssumption, AppAssumption DEF OnchainTypeInv, OpenFor, Open, Opens
  <2>2. [seed |-> s, view |-> db.items \cap Sends, staged |-> {}] \in Memory
    BY DEF Memory
  <2>3. mem' \in [Opens -> Memory]
    BY <1>1, <2>1, <2>2 DEF OpenFor, Open, OnchainTypeInv
  <2>4. db' \in [seed : Seeds \cup {NoSeed}, items : SUBSET Items]
    BY <1>1 DEF OpenFor, Open, OnchainTypeInv
  <2> QED
    BY <1>1, <2>1, <2>3, <2>4 DEF OpenFor, Open, OnchainTypeInv, network
<1>2. CASE Shut(s)
  BY <1>2 DEF Shut, OnchainTypeInv, network
<1> QED
  BY <1>1, <1>2

LEMMA TypeSession ==
  ASSUME OnchainTypeInv, DeleteOnchain \/ PurgeOnchain \/ OnchainResetFails \/ CrashOnchain
  PROVE  OnchainTypeInv'
<1>1. CASE DeleteOnchain
  BY <1>1 DEF DeleteOnchain, OnchainTypeInv, network
<1>2. CASE PurgeOnchain
  BY <1>2 DEF PurgeOnchain, OnchainTypeInv, network, NoDb
<1>3. CASE CrashOnchain
  <2>1. mem' \in [Opens -> Memory] /\ scan' \in Scans
    BY <1>3, Empties DEF CrashOnchain
  <2>2. \A t \in Sends : send[t] \in Payments /\ [send[t] EXCEPT !.pc = "gone", !.of = 0, !.server = 0] \in Payments
    BY DEF OnchainTypeInv, Payments
  <2>3. send' \in [Sends -> Payments]
    BY <1>3, <2>2 DEF CrashOnchain
  <2>4. faults' \in 0 .. MaxFaults
    <3>1. Fault
      BY <1>3 DEF CrashOnchain
    <3> QED
      BY <3>1, OnchainAssumption, SeedAssumption, AppAssumption DEF Fault, OnchainTypeInv
  <2> QED
    BY <1>3, <2>1, <2>3, <2>4 DEF CrashOnchain, OnchainTypeInv, network
<1>4. CASE OnchainResetFails
  BY <1>4, ResetFailing DEF OnchainTypeInv, network
<1> QED
  BY <1>1, <1>2, <1>3, <1>4

LEMMA TypePersist ==
  ASSUME OnchainTypeInv, NEW i \in Opens, NEW m \in Memory,
         \/ Persisted(i, m) /\ UNCHANGED <<faults, blame>>
         \/ PersistFails(i, m)
  PROVE  /\ mem' \in [Opens -> Memory] /\ faults' \in 0 .. MaxFaults
         /\ db' \in [seed : Seeds \cup {NoSeed}, items : SUBSET Items]
<1>1. [m EXCEPT !.staged = {}] \in Memory
  BY DEF Memory
<1>2. mem' \in [Opens -> Memory]
  BY <1>1 DEF Persisted, PersistFails, OnchainTypeInv
<1>3. Saved(m, db) \in [seed : Seeds \cup {NoSeed}, items : SUBSET Items]
  BY DEF Saved, Memory, OnchainTypeInv
<1> QED
  BY <1>2, <1>3, OnchainAssumption, SeedAssumption, AppAssumption DEF Persisted, PersistFails, Fault, OnchainTypeInv

LEMMA HeldIsOpened ==
  ASSUME OnchainTypeInv, HoldInv, NEW i, Opened(i)
  PROVE  i \in Opens /\ i # 0 /\ mem[i] \in Memory
BY OnchainAssumption, SeedAssumption, AppAssumption DEF OnchainTypeInv, Opened, Opens

LEMMA Updates ==
  ASSUME OnchainTypeInv, scan.of \in Opens
  PROVE  Updated \in Memory /\ Updated.seed = mem[scan.of].seed
         /\ Updated.view = mem[scan.of].view \cup scan.saw
         /\ Updated.staged = mem[scan.of].staged \cup (scan.saw \ mem[scan.of].view) \cup {"rest"}
<1>1. mem[scan.of] \in Memory /\ scan.saw \subseteq Sends
  BY DEF OnchainTypeInv, Scans
<1> QED
  BY <1>1 DEF Updated, Memory, Items

LEMMA Reveals ==
  ASSUME OnchainTypeInv, reveal \in Opens
  PROVE  /\ [mem[reveal] EXCEPT !.staged = @ \cup {"rest"}] \in Memory
BY DEF OnchainTypeInv, Memory, Items

LEMMA TypeLook ==
  ASSUME OnchainTypeInv, HoldInv, Reveal \/ Revealed \/ SyncStart \/ Scan \/ ScanFails \/ Apply
  PROVE  OnchainTypeInv'
<1> DEFINE Dbs == [seed : Seeds \cup {NoSeed}, items : SUBSET Items]
<1>1. CASE Reveal
  BY <1>1 DEF Reveal, OnchainTypeInv, session, network
<1>2. CASE Revealed
  <2> DEFINE m == [mem[reveal] EXCEPT !.staged = @ \cup {"rest"}]
  <2>1. reveal \in Opens /\ m \in Memory
    BY <1>2, HeldIsOpened, Reveals DEF Revealed, HoldInv
  <2>2. \/ Persisted(reveal, m) /\ UNCHANGED <<faults, blame>>
        \/ PersistFails(reveal, m)
    BY <1>2 DEF Revealed
  <2>3. mem' \in [Opens -> Memory] /\ faults' \in 0 .. MaxFaults /\ db' \in Dbs
    <3> HIDE DEF m
    <3> QED
      BY <2>1, <2>2, TypePersist
  <2> QED
    BY <1>2, <2>3 DEF Revealed, OnchainTypeInv, session, network
<1>3. CASE SyncStart \/ Scan \/ ScanFails
  <2>1. CASE SyncStart
    <3>1. scan' \in Scans
      BY <2>1 DEF SyncStart, OnchainTypeInv, Scans
    <3> QED
      BY <2>1, <3>1 DEF SyncStart, OnchainTypeInv, session, network
  <2>2. CASE Scan
    <3>1. Out \subseteq Sends
      BY DEF OnchainTypeInv, Out
    <3>2. scan' \in Scans
      BY <2>2, <3>1 DEF Scan, OnchainTypeInv, Scans
    <3> QED
      BY <2>2, <3>2 DEF Scan, OnchainTypeInv, session, network
  <2>3. CASE ScanFails
    <3>1. scan' \in Scans
      BY <2>3, Empties DEF ScanFails, OnchainTypeInv, Scans
    <3> QED
      BY <2>3, <3>1 DEF ScanFails, OnchainTypeInv, session, network
  <2> QED
    BY <1>3, <2>1, <2>2, <2>3
<1>4. CASE Apply
  <2>1. scan.of \in Opens /\ Updated \in Memory
    BY <1>4, HeldIsOpened, Updates DEF Apply, HoldInv
  <2>2. \/ Persisted(scan.of, Updated) /\ UNCHANGED <<faults, blame>>
        \/ PersistFails(scan.of, Updated)
    BY <1>4 DEF Apply
  <2>3. mem' \in [Opens -> Memory] /\ faults' \in 0 .. MaxFaults /\ db' \in Dbs
    <3> HIDE DEF Updated
    <3> QED
      BY <2>1, <2>2, TypePersist
  <2>4. known' \in SUBSET Sends /\ scan' \in Scans
    BY <1>4, Empties DEF Apply, OnchainTypeInv, Scans
  <2> QED
    BY <1>4, <2>3, <2>4 DEF Apply, OnchainTypeInv, session, network
<1> QED
  BY <1>1, <1>2, <1>3, <1>4

\* What a step makes of a payment.
Becomes(t, pc, of, coin, lost) ==
  /\ send' \in [Sends -> Payments] /\ \A u \in Sends : u # t => send'[u] = send[u]
  /\ send'[t].pc = pc /\ send'[t].of = of /\ send'[t].coin = coin /\ send'[t].lost = lost

LEMMA Sending ==
  ASSUME OnchainTypeInv, NEW t \in Sends, NEW r \in Payments, send' = [send EXCEPT ![t] = r]
  PROVE  Becomes(t, r.pc, r.of, r.coin, r.lost)
BY DEF OnchainTypeInv, Becomes

LEMMA Endings ==
  ASSUME NEW s \in Payments, NEW pc \in {"ok", "error"}
  PROVE  /\ Ended(s, pc) \in Payments /\ Ended(s, pc).pc = pc /\ Ended(s, pc).of = 0
         /\ Ended(s, pc).coin = s.coin /\ Ended(s, pc).lost = s.lost
         /\ [Ended(s, pc) EXCEPT !.lost = TRUE] \in Payments
         /\ [Ended(s, pc) EXCEPT !.lost = TRUE].pc = pc /\ [Ended(s, pc) EXCEPT !.lost = TRUE].of = 0
         /\ [Ended(s, pc) EXCEPT !.lost = TRUE].coin = s.coin /\ [Ended(s, pc) EXCEPT !.lost = TRUE].lost
BY DEF Ended, Payments

LEMMA Preflights ==
  ASSUME OnchainTypeInv, NEW t \in Sends, Preflight(t)
  PROVE  /\ send[t].pc = "rest" /\ Unlocked /\ Becomes(t, "build", onchain, NoCoin, FALSE)
         /\ UNCHANGED <<session, db, mem, scan, reveal, network, known, faults, blame>>
<1> DEFINE r == [Unsent EXCEPT !.pc = "build", !.of = onchain]
<1>1. r \in Payments /\ r.pc = "build" /\ r.of = onchain /\ r.coin = NoCoin /\ r.lost = FALSE
  BY DEF Unsent, Payments, OnchainTypeInv
<1>2. send' = [send EXCEPT ![t] = r]
  BY DEF Preflight, Step
<1> HIDE DEF r
<1>3. Becomes(t, "build", onchain, NoCoin, FALSE)
  BY <1>1, <1>2, Sending
<1> QED
  BY <1>3 DEF Preflight, Step

LEMMA Builds ==
  ASSUME OnchainTypeInv, NEW t \in Sends, Build(t)
  PROVE  /\ send[t].pc = "build"
         /\ \E c \in Unspent(send[t].of) :
              /\ Becomes(t, "broadcast", send[t].of, c, send[t].lost)
              /\ Blame("reused", c \in Spent(Out \cup Casting))
         /\ UNCHANGED <<session, db, mem, scan, reveal, network, known, faults>>
<1>1. PICK c \in Unspent(send[t].of) :
        /\ send' = [send EXCEPT ![t] = [send[t] EXCEPT !.pc = "broadcast", !.coin = c, !.server = 1]]
        /\ Blame("reused", c \in Spent(Out \cup Casting))
  BY DEF Build, Step, Casting
<1> DEFINE r == [send[t] EXCEPT !.pc = "broadcast", !.coin = c, !.server = 1]
<1>2. c \in Coins /\ send[t] \in Payments
  BY DEF Unspent, OnchainTypeInv
<1>3. r \in Payments /\ r.pc = "broadcast" /\ r.of = send[t].of /\ r.coin = c /\ r.lost = send[t].lost
  BY <1>2 DEF Payments
<1>4. send' = [send EXCEPT ![t] = r]
  BY <1>1
<1> HIDE DEF r
<1>5. Becomes(t, "broadcast", send[t].of, c, send[t].lost)
  BY <1>3, <1>4, Sending
<1> QED
  BY <1>1, <1>5 DEF Build

LEMMA Fails ==
  ASSUME OnchainTypeInv, NEW t \in Sends, BuildFails(t)
  PROVE  /\ send[t].pc = "build" /\ Becomes(t, "error", 0, send[t].coin, send[t].lost)
         /\ UNCHANGED <<session, db, mem, scan, reveal, network, known, faults, blame>>
<1> DEFINE r == Ended(send[t], "error")
<1>1. r \in Payments /\ r.pc = "error" /\ r.of = 0 /\ r.coin = send[t].coin /\ r.lost = send[t].lost
  BY Endings DEF OnchainTypeInv
<1>2. send' = [send EXCEPT ![t] = r]
  BY DEF BuildFails, Step
<1> HIDE DEF r
<1>3. Becomes(t, "error", 0, send[t].coin, send[t].lost)
  BY <1>1, <1>2, Sending
<1> QED
  BY <1>3 DEF BuildFails, Step

LEMMA Accepts ==
  ASSUME OnchainTypeInv, NEW t \in Sends, Accepted(t)
  PROVE  /\ send[t].pc = "broadcast" /\ Becomes(t, "save", send[t].of, send[t].coin, send[t].lost)
         /\ Reaches(t)
         /\ UNCHANGED <<session, db, mem, scan, reveal, known, faults, blame>>
<1> DEFINE r == [send[t] EXCEPT !.pc = "save", !.server = 0]
<1>1. r \in Payments /\ r.pc = "save" /\ r.of = send[t].of /\ r.coin = send[t].coin /\ r.lost = send[t].lost
  BY DEF OnchainTypeInv, Payments
<1>2. send' = [send EXCEPT ![t] = r]
  BY DEF Accepted, Step
<1> HIDE DEF r
<1>3. Becomes(t, "save", send[t].of, send[t].coin, send[t].lost)
  BY <1>1, <1>2, Sending
<1> QED
  BY <1>3 DEF Accepted, Step

LEMMA NotAccepts ==
  ASSUME OnchainTypeInv, NEW t \in Sends, NEW s \in Payments, NotAccepted(t, s)
  PROVE  /\ s.pc = "broadcast"
         /\ \/ Becomes(t, "broadcast", s.of, s.coin, s.lost)
            \/ Becomes(t, "error", 0, s.coin, s.lost)
<1> DEFINE next == [s EXCEPT !.server = @ + 1]
<1>1. s.pc = "broadcast" /\ (send' = [send EXCEPT ![t] = next] \/ send' = [send EXCEPT ![t] = Ended(s, "error")])
  BY DEF NotAccepted
<1>2. next \in Payments /\ next.pc = s.pc /\ next.of = s.of /\ next.coin = s.coin /\ next.lost = s.lost
  BY DEF Payments
<1> HIDE DEF next
<1>3. CASE send' = [send EXCEPT ![t] = next]
  BY <1>1, <1>2, <1>3, Sending
<1>4. CASE send' = [send EXCEPT ![t] = Ended(s, "error")]
  <2> DEFINE r == Ended(s, "error")
  <2>1. r \in Payments /\ r.pc = "error" /\ r.of = 0 /\ r.coin = s.coin /\ r.lost = s.lost
    BY Endings
  <2>2. send' = [send EXCEPT ![t] = r]
    BY <1>4
  <2> HIDE DEF r
  <2>3. Becomes(t, "error", 0, s.coin, s.lost)
    BY <2>1, <2>2, Sending
  <2> QED
    BY <1>1, <2>3
<1> QED
  BY <1>1, <1>3, <1>4

\* A server that does not answer may still have the payment.
LEMMA Refuses ==
  ASSUME OnchainTypeInv, NEW t \in Sends, Refuse(t) \/ ReplyLost(t)
  PROVE  /\ send[t].pc = "broadcast"
         /\ \E lost \in BOOLEAN :
              /\ \/ lost = send[t].lost /\ UNCHANGED network
                 \/ lost /\ Reaches(t)
              /\ \/ Becomes(t, "broadcast", send[t].of, send[t].coin, lost)
                 \/ Becomes(t, "error", 0, send[t].coin, lost)
         /\ UNCHANGED <<session, db, mem, scan, reveal, known, blame>>
         /\ UNCHANGED faults \/ Fault
<1>1. send[t] \in Payments /\ send[t].lost \in BOOLEAN
  BY DEF OnchainTypeInv, Payments
<1>2. CASE Refuse(t)
  <2>1. NotAccepted(t, send[t])
    BY <1>2 DEF Refuse
  <2> QED
    BY <1>1, <1>2, <2>1, NotAccepts DEF Refuse
<1>3. CASE ReplyLost(t)
  <2> DEFINE s == [send[t] EXCEPT !.lost = TRUE]
  <2>1. s \in Payments /\ s.pc = send[t].pc /\ s.of = send[t].of /\ s.coin = send[t].coin /\ s.lost = TRUE
    BY <1>1 DEF Payments
  <2>2. NotAccepted(t, s)
    BY <1>3 DEF ReplyLost
  <2> HIDE DEF s
  <2>3. send[t].pc = "broadcast" /\ (\/ Becomes(t, "broadcast", send[t].of, send[t].coin, TRUE)
                                     \/ Becomes(t, "error", 0, send[t].coin, TRUE))
    BY <2>1, <2>2, NotAccepts
  <2> QED
    BY <1>3, <2>3 DEF ReplyLost
<1> QED
  BY <1>2, <1>3

LEMMA Saves ==
  ASSUME OnchainTypeInv, NEW t \in Sends, Save(t)
  PROVE  /\ send[t].pc = "save"
         /\ \/ /\ Becomes(t, "ok", 0, send[t].coin, send[t].lost)
               /\ Persisted(send[t].of, mem[send[t].of]) /\ UNCHANGED <<faults, blame>>
            \/ /\ Becomes(t, "error", 0, send[t].coin, TRUE) /\ PersistFails(send[t].of, mem[send[t].of])
         /\ UNCHANGED <<session, scan, reveal, network, known>>
<1> DEFINE r == Ended(send[t], "ok")
           q == [Ended(send[t], "error") EXCEPT !.lost = TRUE]
<1>0. send[t] \in Payments
  BY DEF OnchainTypeInv
<1>1. /\ r \in Payments /\ r.pc = "ok" /\ r.of = 0 /\ r.coin = send[t].coin /\ r.lost = send[t].lost
      /\ q \in Payments /\ q.pc = "error" /\ q.of = 0 /\ q.coin = send[t].coin /\ q.lost = TRUE
  BY <1>0, Endings DEF Payments, Ended
<1>2. /\ send[t].pc = "save"
      /\ \/ /\ send' = [send EXCEPT ![t] = r]
            /\ Persisted(send[t].of, mem[send[t].of]) /\ UNCHANGED <<faults, blame>>
         \/ /\ send' = [send EXCEPT ![t] = q]
            /\ PersistFails(send[t].of, mem[send[t].of])
      /\ UNCHANGED <<session, scan, reveal, network, known>>
  BY DEF Save, Step
<1> HIDE DEF r, q
<1>3. send' = [send EXCEPT ![t] = r] => Becomes(t, "ok", 0, send[t].coin, send[t].lost)
  BY <1>1, Sending
<1>4. send' = [send EXCEPT ![t] = q] => Becomes(t, "error", 0, send[t].coin, TRUE)
  BY <1>1, Sending
<1> QED
  BY <1>2, <1>3, <1>4

\* A payment that reaches a server is out, and takes the place of those of its coin.
LEMMA Reached ==
  ASSUME OnchainTypeInv, NEW t \in Sends, Reaches(t)
  PROVE  /\ mempool' \in SUBSET Sends /\ chain' = chain /\ t \in Out'
         /\ \A u \in Out' : u = t \/ u \in Out
         /\ \A u \in Out : send[u].coin # send[t].coin => u \in Out'
BY DEF OnchainTypeInv, Reaches, Out

LEMMA TypePay ==
  ASSUME OnchainTypeInv, HoldInv, NEW t \in Sends, Pays(t)
  PROVE  OnchainTypeInv'
<1>1. CASE Preflight(t)
  BY <1>1, Preflights DEF Becomes, OnchainTypeInv, session, network
<1>2. CASE Build(t)
  BY <1>2, Builds DEF Becomes, OnchainTypeInv, session, network
<1>3. CASE BuildFails(t)
  BY <1>3, Fails DEF Becomes, OnchainTypeInv, session, network
<1>4. CASE Accepted(t)
  <2>1. mempool' \in SUBSET Sends /\ chain' = chain /\ send' \in [Sends -> Payments]
    BY <1>4, Accepts, Reached DEF Becomes
  <2> QED
    BY <1>4, <2>1, Accepts DEF OnchainTypeInv, session
<1>5. CASE Refuse(t) \/ ReplyLost(t)
  <2>1. mempool' \in SUBSET Sends /\ chain' = chain /\ send' \in [Sends -> Payments]
    BY <1>5, Refuses, Reached DEF Becomes, OnchainTypeInv, network
  <2>2. faults' \in 0 .. MaxFaults
    BY <1>5, Refuses, OnchainAssumption, SeedAssumption, AppAssumption DEF Fault, OnchainTypeInv
  <2> QED
    BY <1>5, <2>1, <2>2, Refuses DEF OnchainTypeInv, session
<1>6. CASE Save(t)
  <2>1. send[t].of \in Opens /\ mem[send[t].of] \in Memory
    BY <1>6, HeldIsOpened, Saves DEF HoldInv
  <2>2. /\ mem' \in [Opens -> Memory] /\ faults' \in 0 .. MaxFaults
        /\ db' \in [seed : Seeds \cup {NoSeed}, items : SUBSET Items]
    BY <1>6, <2>1, Saves, TypePersist
  <2>3. send' \in [Sends -> Payments]
    BY <1>6, Saves DEF Becomes
  <2> QED
    BY <1>6, <2>2, <2>3, Saves DEF OnchainTypeInv, session, network
<1>7. CASE Confirm(t)
  BY <1>7 DEF Confirm, OnchainTypeInv, session
<1> QED
  BY <1>1, <1>2, <1>3, <1>4, <1>5, <1>6, <1>7 DEF Pays

LEMMA OnchainTypeStep ==
  ASSUME OnchainTypeInv, HoldInv, [OnchainNext]_onchainVars
  PROVE  OnchainTypeInv'
<1>1. CASE UNCHANGED onchainVars
  BY <1>1 DEF OnchainTypeInv, onchainVars, session, network
<1> QED
  BY <1>1, OnchainCases, TypeOpen, TypeSession, TypeLook, TypePay

LEMMA OnchainTypeInit == OnchainInit => OnchainTypeInv
<1> SUFFICES ASSUME OnchainInit PROVE OnchainTypeInv
  OBVIOUS
<1>1. opens \in 0 .. MaxOpens /\ faults \in 0 .. MaxFaults
  BY OnchainAssumption, SeedAssumption, AppAssumption DEF OnchainInit
<1>2. db \in [seed : Seeds \cup {NoSeed}, items : SUBSET Items] /\ wallet \in Seeds \cup {NoSeed}
  BY OnchainAssumption, SeedAssumption, AppAssumption DEF OnchainInit, NoDb
<1> QED
  BY <1>1, <1>2, Empties DEF OnchainInit, OnchainTypeInv

----------------------------------------------------------------------------
(* Onchain: what the commands leave as it is *)

Looks == Reveal \/ Revealed \/ SyncStart \/ Scan \/ ScanFails \/ Apply

\* A wallet is written to the database: what it knows stays, and the database
\* only grows.
Written(i, m) == \/ Persisted(i, m) /\ UNCHANGED <<faults, blame>>
                 \/ PersistFails(i, m)

LEMMA Writing ==
  ASSUME OnchainTypeInv, NEW i \in Opens, NEW m \in Memory, Written(i, m)
  PROVE  /\ db'.seed = db.seed /\ db.items \subseteq db'.items
         /\ \A j \in Opens : j # i => mem'[j] = mem[j]
         /\ mem'[i].view = m.view /\ mem'[i].staged = {} /\ mem'[i].seed = m.seed
         /\ blame \subseteq blame'
         /\ "unsaved" \notin blame' => m.staged \subseteq db'.items /\ UNCHANGED blame
<1> DEFINE r == [m EXCEPT !.staged = {}]
<1>1. r.view = m.view /\ r.staged = {} /\ r.seed = m.seed
  BY DEF Memory
<1>2. mem' = [mem EXCEPT ![i] = r]
  BY DEF Written, Persisted, PersistFails
<1> HIDE DEF r
<1>3. Saved(m, db).seed = db.seed /\ Saved(m, db).items = db.items \cup m.staged
  BY DEF Saved, OnchainTypeInv
<1> QED
  BY <1>1, <1>2, <1>3 DEF Written, Persisted, PersistFails, OnchainTypeInv

LEMMA Revealing ==
  ASSUME OnchainTypeInv, HoldInv, Revealed
  PROVE  \E m \in Memory :
           /\ reveal \in Opens /\ Written(reveal, m)
           /\ m.view = mem[reveal].view /\ m.seed = mem[reveal].seed
<1> DEFINE m == [mem[reveal] EXCEPT !.staged = @ \cup {"rest"}]
<1>1. reveal \in Opens /\ m \in Memory
  BY HeldIsOpened, Reveals DEF Revealed, HoldInv
<1>2. Written(reveal, m)
  BY DEF Revealed, Written
<1>3. m.view = mem[reveal].view /\ m.seed = mem[reveal].seed
  BY <1>1 DEF OnchainTypeInv, Memory
<1> QED
  BY <1>1, <1>2, <1>3

LEMMA Applying ==
  ASSUME OnchainTypeInv, HoldInv, Apply
  PROVE  scan.of \in Opens /\ Updated \in Memory /\ Written(scan.of, Updated)
BY HeldIsOpened, Updates DEF Apply, HoldInv, Written

LEMMA SaveWrites ==
  ASSUME OnchainTypeInv, HoldInv, NEW t \in Sends, Save(t)
  PROVE  /\ send[t].of \in Opens /\ mem[send[t].of] \in Memory
         /\ Written(send[t].of, mem[send[t].of])
BY HeldIsOpened, Saves DEF HoldInv, Written

\* A command starts with the installed wallet and holds on to no other.
LEMMA LooksUse ==
  ASSUME OnchainTypeInv, HoldInv, Looks
  PROVE  /\ UNCHANGED <<session, send, network>>
         /\ \A i \in Opens : Used(i)' => Used(i)
         /\ scan'.of \in {0, scan.of, onchain} /\ (scan'.pc # "rest" => scan'.of # 0)
         /\ reveal' \in {0, onchain, reveal}
<1>1. CASE Reveal
  BY <1>1 DEF Reveal, Unlocked, Used, session, HoldInv
<1>2. CASE Revealed
  BY <1>2 DEF Revealed, Used, session, HoldInv, Opens
<1>3. CASE SyncStart
  BY <1>3 DEF SyncStart, Unlocked, Used, session, HoldInv
<1>4. CASE Scan
  <2>1. scan'.of = scan.of /\ scan.pc = "scan"
    BY <1>4 DEF Scan, OnchainTypeInv, Scans
  <2> QED
    BY <1>4, <2>1 DEF Scan, Used, session, HoldInv
<1>5. CASE ScanFails
  <2>1. scan.pc = "scan" /\ (scan' = NoScan \/ (scan'.of = scan.of /\ scan'.pc = scan.pc))
    BY <1>5 DEF ScanFails, OnchainTypeInv, Scans
  <2>2. NoScan.of = 0 /\ NoScan.pc = "rest"
    BY DEF NoScan
  <2> QED
    BY <1>5, <2>1, <2>2 DEF ScanFails, Used, session, HoldInv, Opens
<1>6. CASE Apply
  <2>1. NoScan.of = 0 /\ NoScan.pc = "rest"
    BY DEF NoScan
  <2> QED
    BY <1>6, <2>1 DEF Apply, Used, session, HoldInv, Opens
<1> QED
  BY <1>1, <1>2, <1>3, <1>4, <1>5, <1>6 DEF Looks

LEMMA PaysUse ==
  ASSUME OnchainTypeInv, HoldInv, NEW t \in Sends, Pays(t)
  PROVE  /\ UNCHANGED <<session, scan, reveal, known>>
         /\ \A u \in Sends : u # t => send'[u] = send[u]
         /\ send'[t].of \in {0, send[t].of} \/ (path /\ send'[t].of = onchain)
         /\ send'[t].pc \in {"build", "broadcast", "save"} => send'[t].of # 0
         /\ \A i \in Opens : Used(i)' => Used(i)
<1>1. /\ UNCHANGED <<session, scan, reveal, known>>
      /\ \A u \in Sends : u # t => send'[u] = send[u]
      /\ send'[t].of \in {0, send[t].of} \/ (path /\ send'[t].of = onchain)
      /\ send'[t].pc \in {"build", "broadcast", "save"} => send'[t].of # 0
  <2>1. CASE Preflight(t)
    BY <2>1, Preflights DEF Becomes, Unlocked
  <2>2. CASE Build(t)
    BY <2>2, Builds DEF Becomes, HoldInv
  <2>3. CASE BuildFails(t)
    BY <2>3, Fails DEF Becomes
  <2>4. CASE Accepted(t)
    BY <2>4, Accepts DEF Becomes, HoldInv
  <2>5. CASE Refuse(t) \/ ReplyLost(t)
    BY <2>5, Refuses DEF Becomes, HoldInv
  <2>6. CASE Save(t)
    BY <2>6, Saves DEF Becomes
  <2>7. CASE Confirm(t)
    BY <2>7 DEF Confirm, HoldInv
  <2> QED
    BY <2>1, <2>2, <2>3, <2>4, <2>5, <2>6, <2>7 DEF Pays
<1>2. ASSUME NEW i \in Opens, Used(i)' PROVE Used(i)
  <2>1. i # 0 /\ onchain' = onchain /\ path' = path /\ scan' = scan /\ reveal' = reveal
    BY <1>1 DEF Opens, session
  <2> QED
    BY <1>1, <1>2, <2>1 DEF Used
<1> QED
  BY <1>1, <1>2

LEMMA CommandsWrite ==
  ASSUME OnchainTypeInv, HoldInv, Looks \/ \E t \in Sends : Pays(t)
  PROVE  /\ \/ UNCHANGED <<db, mem>>
            \/ \E i \in Opens : Used(i) /\ \E m \in Memory : Written(i, m)
         /\ blame \subseteq blame'
<1>1. CASE Revealed
  BY <1>1, Revealing, Writing DEF Used
<1>2. CASE Apply
  BY <1>2, Applying, Writing DEF Used
<1>3. CASE Reveal \/ SyncStart \/ Scan \/ ScanFails
  BY <1>3 DEF Reveal, SyncStart, Scan, ScanFails
<1>4. ASSUME NEW t \in Sends, Save(t)
      PROVE  (\E i \in Opens : Used(i) /\ \E m \in Memory : Written(i, m)) /\ blame \subseteq blame'
  BY <1>4, SaveWrites, Writing DEF Used
<1>5. ASSUME NEW t \in Sends, Pays(t), ~Save(t)
      PROVE  UNCHANGED <<db, mem>> /\ blame \subseteq blame'
  BY <1>5 DEF Pays, Preflight, Build, Blame, BuildFails, Accepted, Refuse, ReplyLost, Confirm
<1> QED
  BY <1>1, <1>2, <1>3, <1>4, <1>5 DEF Looks

----------------------------------------------------------------------------
(* Onchain: which wallets the commands hold on to *)

LEMMA HoldStep ==
  ASSUME OnchainTypeInv, HoldInv, [OnchainNext]_onchainVars
  PROVE  HoldInv'
<1> opens \in Nat
  BY OnchainAssumption, SeedAssumption, AppAssumption DEF OnchainTypeInv
<1>1. CASE UNCHANGED onchainVars
  BY <1>1 DEF HoldInv, Opened, onchainVars, session
<1>2. ASSUME NEW s \in Seeds, OpenFor(s) PROVE HoldInv'
  <2>1. /\ opens' = opens + 1 /\ onchain' = opens' /\ opens' \in Opens
        /\ UNCHANGED <<send, scan, reveal>>
    BY <1>2, OnchainAssumption, SeedAssumption, AppAssumption DEF OpenFor, Open, Opens
  <2>2. \A i : Opened(i) => Opened(i)'
    BY <2>1 DEF Opened
  <2>3. Opened(onchain)'
    BY <2>1 DEF Opened
  <2>4. \A i \in Opens : mem'[i].staged = {}
    BY <1>2, <2>1 DEF OpenFor, Open, OnchainTypeInv, HoldInv
  <2> QED
    BY <2>1, <2>2, <2>3, <2>4 DEF HoldInv
<1>3. ASSUME NEW s \in Seeds, Shut(s) PROVE HoldInv'
  BY <1>3 DEF Shut, HoldInv, Opened
<1>4. CASE DeleteOnchain
  BY <1>4 DEF DeleteOnchain, HoldInv, Opened
<1>5. CASE PurgeOnchain \/ OnchainResetFails
  BY <1>5, ResetFailing DEF PurgeOnchain, HoldInv, Opened
<1>6. CASE CrashOnchain
  <2>1. /\ onchain' = 0 /\ reveal' = 0 /\ scan'.of = 0 /\ scan'.pc = "rest"
        /\ \A i \in Opens : mem'[i].staged = {}
    BY <1>6 DEF CrashOnchain, NoScan, Closed
  <2>2. \A t \in Sends : send'[t].of = 0 /\ send'[t].pc \notin {"build", "broadcast", "save"}
    <3> TAKE t \in Sends
    <3>1. send[t] \in Payments
      BY DEF OnchainTypeInv
    <3>2. CASE send[t].of = 0
      BY <1>6, <3>2 DEF CrashOnchain, HoldInv
    <3>3. CASE send[t].of # 0
      BY <1>6, <3>1, <3>3 DEF CrashOnchain, Payments
    <3> QED
      BY <3>2, <3>3
  <2> QED
    BY <2>1, <2>2 DEF HoldInv
<1>7. CASE Looks \/ \E t \in Sends : Pays(t)
  <2>1. \A i \in Opens : mem'[i].staged = {}
    BY <1>7, CommandsWrite, Writing DEF HoldInv
  <2>2. onchain' = onchain /\ opens' = opens
    BY <1>7, LooksUse, PaysUse DEF session
  <2>3. CASE Looks
    BY <2>1, <2>2, <2>3, LooksUse DEF HoldInv, Opened
  <2>4. ASSUME NEW t \in Sends, Pays(t) PROVE HoldInv'
    BY <2>1, <2>2, <2>4, PaysUse DEF HoldInv, Opened
  <2> QED
    BY <1>7, <2>3, <2>4
<1> QED
  BY <1>1, <1>2, <1>3, <1>4, <1>5, <1>6, <1>7, OnchainCases DEF Looks

\* Once the path is cleared, only commands hold on to a wallet.
LEMMA PurgeUses ==
  ASSUME PurgeOnchain
  PROVE  /\ \A i \in Opens : Used(i)' => Used(i)
         /\ "outlived" \notin blame' => blame' = blame /\ \A i \in Opens : ~Used(i)'
<1>1. /\ path' = FALSE /\ UNCHANGED <<onchain, send, scan, reveal>>
      /\ "outlived" \notin blame' => blame' = blame /\ ~Busy
  BY DEF PurgeOnchain, Blame
<1> QED
  BY <1>1 DEF Used, Busy

----------------------------------------------------------------------------
(* Onchain: whose database *)

LEMMA OnchainDbStep ==
  ASSUME OnchainTypeInv, HoldInv, OnchainDbInv, [OnchainNext]_onchainVars
  PROVE  OnchainDbInv'
<1>1. CASE UNCHANGED onchainVars
  BY <1>1 DEF OnchainDbInv, Used, onchainVars, session
<1>2. ASSUME NEW s \in Seeds, OpenFor(s) PROVE OnchainDbInv'
  <2>1. db'.seed = s /\ wallet' = s /\ s # NoSeed
    BY <1>2, OnchainAssumption, SeedAssumption, AppAssumption DEF OpenFor, Open, OnchainTypeInv
  <2> QED
    BY <2>1 DEF OnchainDbInv
<1>3. ASSUME NEW s \in Seeds, Shut(s) PROVE OnchainDbInv'
  <2>1. wallet = NoSeed /\ db # NoDb /\ blame' = blame /\ clearing' = clearing
    BY <1>3 DEF Shut, Loads
  <2>2. db' = db /\ \A i \in Opens : Used(i)' <=> Used(i)
    BY <1>3 DEF Shut, Used
  <2> QED
    BY <2>1, <2>2 DEF OnchainDbInv
<1>4. CASE DeleteOnchain
  <2>1. \A i \in Opens : Used(i)' => Used(i)
    BY <1>4 DEF DeleteOnchain, Used, Opens
  <2> QED
    BY <1>4, <2>1 DEF DeleteOnchain, OnchainDbInv
<1>5. CASE PurgeOnchain
  <2>1. db' = NoDb
    BY <1>5 DEF PurgeOnchain
  <2> QED
    BY <1>5, <2>1, PurgeUses DEF OnchainDbInv
<1>6. CASE CrashOnchain
  <2>1. onchain' = 0 /\ reveal' = 0 /\ scan'.of = 0 /\ db' = db /\ wallet' = wallet
    BY <1>6 DEF CrashOnchain, NoScan
  <2>2. \A t \in Sends : send'[t].of = 0
    BY <1>6 DEF CrashOnchain, OnchainTypeInv, Payments
  <2>3. \A i \in Opens : ~Used(i)'
    BY <2>1, <2>2 DEF Used, Opens
  <2>4. "cut" \notin blame' => ~clearing /\ blame' = blame
    BY <1>6 DEF CrashOnchain, Blame
  <2> QED
    BY <2>1, <2>3, <2>4 DEF OnchainDbInv
<1>7. CASE Looks \/ \E t \in Sends : Pays(t)
  <2>1. /\ wallet' = wallet /\ clearing' = clearing
        /\ \A i \in Opens : Used(i)' => Used(i)
        /\ blame \subseteq blame'
    BY <1>7, LooksUse, PaysUse, CommandsWrite DEF session
  <2>2. db' = db \/ (db'.seed = db.seed /\ \E i \in Opens : Used(i))
    BY <1>7, CommandsWrite, Writing
  <2>3. NoDb.seed = NoSeed
    BY DEF NoDb
  <2> QED
    BY <2>1, <2>2, <2>3 DEF OnchainDbInv
<1>8. CASE OnchainResetFails
  <2>1. /\ db' = db /\ blame \subseteq blame'
        /\ blame' \cap {"half", "left"} = {} => wallet' = wallet /\ clearing' = clearing
    BY <1>8, ResetFailing
  <2>2. \A i \in Opens : Used(i)' => Used(i)
    BY <1>8, ResetFailing DEF Used
  <2> QED
    BY <2>1, <2>2 DEF OnchainDbInv
<1> QED
  BY <1>1, <1>2, <1>3, <1>4, <1>5, <1>6, <1>7, <1>8, OnchainCases DEF Looks

----------------------------------------------------------------------------
(* Onchain: which payments are out *)

\* No session or scan step concerns the network; a crash ends the payments under way.
LEMMA NetworkStays ==
  ASSUME OnchainTypeInv, HoldInv,
         \/ \E s \in Seeds : OpenFor(s) \/ Shut(s)
         \/ DeleteOnchain \/ PurgeOnchain \/ OnchainResetFails \/ Looks \/ UNCHANGED onchainVars
  PROVE  UNCHANGED <<send, network>> /\ blame \subseteq blame'
<1>1. CASE Looks
  BY <1>1, LooksUse, CommandsWrite
<1>2. CASE OnchainResetFails
  BY <1>2, ResetFailing
<1> QED
  BY <1>1, <1>2 DEF OpenFor, Shut, Open, DeleteOnchain, PurgeOnchain, Blame, onchainVars

LEMMA CrashEnds ==
  ASSUME OnchainTypeInv, HoldInv, CrashOnchain, NEW t \in Sends
  PROVE  /\ send'[t] = send[t] \/ (send'[t].pc = "gone" /\ send'[t].coin = send[t].coin)
         /\ send[t].pc \in {"build", "broadcast", "save"} => send'[t].pc = "gone"
         /\ network' = network /\ blame \subseteq blame'
<1>1. send[t] \in Payments
  BY DEF OnchainTypeInv
<1> QED
  BY <1>1 DEF CrashOnchain, Payments, HoldInv, Blame

LEMMA UnpaidStep ==
  ASSUME OnchainTypeInv, HoldInv, UnpaidInv, [OnchainNext]_onchainVars
  PROVE  UnpaidInv'
<1>1. CASE \/ \E s \in Seeds : OpenFor(s) \/ Shut(s)
           \/ DeleteOnchain \/ PurgeOnchain \/ OnchainResetFails \/ Looks \/ UNCHANGED onchainVars
  BY <1>1, NetworkStays DEF UnpaidInv, Out, network
<1>2. CASE CrashOnchain
  BY <1>2, CrashEnds DEF UnpaidInv, Out, network
<1>3. ASSUME NEW t \in Sends, Pays(t) PROVE UnpaidInv'
  <2> SUFFICES ASSUME NEW u \in Sends, u \in Out'
               PROVE  \/ send'[u].pc \in {"save", "ok", "gone"}
                      \/ send'[u].pc \in {"broadcast", "error"} /\ send'[u].lost
    BY DEF UnpaidInv
  <2>1. CASE Preflight(t)
    BY <2>1, Preflights DEF Becomes, UnpaidInv, Out, network
  <2>2. CASE Build(t)
    BY <2>2, Builds DEF Becomes, UnpaidInv, Out, network
  <2>3. CASE BuildFails(t)
    BY <2>3, Fails DEF Becomes, UnpaidInv, Out, network
  <2>4. CASE Accepted(t)
    <3>1. u = t \/ (u \in Out /\ send'[u] = send[u])
      BY <2>4, Accepts, Reached DEF Becomes
    <3> QED
      BY <2>4, <3>1, Accepts DEF Becomes, UnpaidInv
  <2>5. CASE Refuse(t) \/ ReplyLost(t)
    <3>1. send[t].pc = "broadcast" /\ send'[t].pc \in {"broadcast", "error"}
          /\ \A v \in Sends : v # t => send'[v] = send[v]
      BY <2>5, Refuses DEF Becomes
    <3>2. \/ send'[t].lost = send[t].lost /\ UNCHANGED network
          \/ send'[t].lost /\ Reaches(t)
      BY <2>5, Refuses DEF Becomes
    <3>3. CASE send'[t].lost = send[t].lost /\ UNCHANGED network
      BY <3>1, <3>3 DEF UnpaidInv, Out, network
    <3>4. CASE send'[t].lost /\ Reaches(t)
      <4>1. u = t \/ (u \in Out /\ send'[u] = send[u])
        BY <3>1, <3>4, Reached
      <4> QED
        BY <3>1, <3>4, <4>1 DEF UnpaidInv
    <3> QED
      BY <3>2, <3>3, <3>4
  <2>6. CASE Save(t)
    <3>1. Out' = Out
      BY <2>6, Saves DEF Out, network
    <3> QED
      BY <2>6, <3>1, Saves DEF Becomes, UnpaidInv
  <2>7. CASE Confirm(t)
    <3>1. send' = send /\ Out' = Out
      BY <2>7 DEF Confirm, Out
    <3> QED
      BY <3>1 DEF UnpaidInv
  <2> QED
    BY <1>3, <2>1, <2>2, <2>3, <2>4, <2>5, <2>6, <2>7 DEF Pays
<1> QED
  BY <1>1, <1>2, <1>3, OnchainCases DEF Looks

\* A payment that was built from a coin of its own, among those that are out
\* or about to be, stays out: only one of its coin could take its place.
LEMMA PaidStep ==
  ASSUME OnchainTypeInv, HoldInv, UnpaidInv, PaidInv, [OnchainNext]_onchainVars
  PROVE  PaidInv'
<1>1. CASE \/ \E s \in Seeds : OpenFor(s) \/ Shut(s)
           \/ DeleteOnchain \/ PurgeOnchain \/ OnchainResetFails \/ Looks \/ UNCHANGED onchainVars
  BY <1>1, NetworkStays DEF PaidInv, Out, Casting, network
<1>2. CASE CrashOnchain
  <2>1. Out' = Out /\ Casting' \subseteq Casting /\ blame \subseteq blame'
    BY <1>2, CrashEnds DEF Out, Casting, network, CrashOnchain, Blame
  <2>2. \A t \in Sends : send'[t].coin = send[t].coin
    BY <1>2, CrashEnds
  <2>3. \A t \in Sends : send'[t].pc \in {"save", "ok"} => send[t].pc \in {"save", "ok"}
    BY <1>2, CrashEnds
  <2> QED
    BY <2>1, <2>2, <2>3 DEF PaidInv, Out, Casting, OnchainTypeInv
<1>3. ASSUME NEW t \in Sends, Pays(t) PROVE PaidInv'
  <2> DEFINE Live == Out \cup Casting
  <2>0. Out \subseteq Sends /\ Casting \subseteq Sends /\ blame \subseteq blame'
    BY <1>3, CommandsWrite DEF Out, Casting, OnchainTypeInv
  \* The steps that build nothing and put nothing out but what is about to be.
  <2>a. ASSUME \A u \in Sends : u # t => send'[u] = send[u],
               send'[t].coin = send[t].coin \/ (t \notin Live /\ t \notin Live'),
               Live' \subseteq Live,
               "reused" \notin blame' => Out \subseteq Out',
               send'[t].pc \in {"save", "ok"} => t \in Out'  \/ send[t].pc \in {"save", "ok"}
        PROVE  PaidInv'
    <3> SUFFICES ASSUME "reused" \notin blame'
                 PROVE  /\ \A u, v \in Live' : u # v => send'[u].coin # send'[v].coin
                        /\ \A u \in Sends : send'[u].pc \in {"save", "ok"} => u \in Out'
      BY DEF PaidInv
    <3>1. \A u \in Live' : send'[u].coin = send[u].coin
      BY <2>0, <2>a
    <3>2. \A u, v \in Live : u # v => send[u].coin # send[v].coin
      BY <2>0 DEF PaidInv
    <3>3. \A u \in Sends : send[u].pc \in {"save", "ok"} => u \in Out
      BY <2>0 DEF PaidInv
    <3> HIDE DEF Live
    <3> QED
      BY <2>a, <3>1, <3>2, <3>3
  <2>1. CASE Preflight(t)
    <3>1. Out' = Out /\ t \notin Out /\ t \notin Casting
      BY <2>1, Preflights DEF Out, network, UnpaidInv, Casting
    <3>2. Casting' = Casting
      BY <2>1, Preflights DEF Becomes, Casting
    <3> QED
      BY <2>1, <2>a, <3>1, <3>2, Preflights DEF Becomes
  <2>2. CASE Build(t)
    <3>1. PICK c \in Unspent(send[t].of) :
            /\ Becomes(t, "broadcast", send[t].of, c, send[t].lost)
            /\ Blame("reused", c \in Spent(Live))
      BY <2>2, Builds
    <3>2. Out' = Out /\ t \notin Live
      BY <2>2, Builds DEF Out, network, UnpaidInv, Casting
    <3>3. Casting' = Casting \cup {t} /\ \A u \in Live : send'[u] = send[u]
      BY <2>0, <3>1, <3>2 DEF Becomes, Casting
    <3> SUFFICES ASSUME "reused" \notin blame'
                 PROVE  /\ \A u, v \in Live' : u # v => send'[u].coin # send'[v].coin
                        /\ \A u \in Sends : send'[u].pc \in {"save", "ok"} => u \in Out'
      BY DEF PaidInv
    <3>4. \A u \in Live : send[u].coin # c
      BY <3>1 DEF Blame, Spent
    <3>5. /\ \A u, v \in Live : u # v => send[u].coin # send[v].coin
          /\ \A u \in Sends : send[u].pc \in {"save", "ok"} => u \in Out
      BY <2>0 DEF PaidInv
    <3>6. send'[t].coin = c /\ send'[t].pc = "broadcast" /\ \A u \in Sends : u # t => send'[u] = send[u]
      BY <3>1 DEF Becomes
    <3>7. Live' = Live \cup {t}
      BY <3>2, <3>3
    <3> HIDE DEF Live
    <3> QED
      BY <3>2, <3>3, <3>4, <3>5, <3>6, <3>7
  <2>3. CASE BuildFails(t)
    <3>1. Out' = Out
      BY <2>3, Fails DEF Out, network
    <3>2. Casting' = Casting
      BY <2>3, Fails DEF Becomes, Casting
    <3> QED
      BY <2>3, <2>a, <3>1, <3>2, Fails DEF Becomes
  <2>4. ASSUME Reaches(t), send[t].pc = "broadcast",
               \A u \in Sends : u # t => send'[u] = send[u],
               send'[t].coin = send[t].coin
        PROVE  PaidInv'
    <3>1. /\ \A u \in Sends : u # t => send'[u] = send[u]
          /\ send'[t].coin = send[t].coin /\ t \in Casting /\ t \in Out'
      BY <2>4, Reached DEF Casting
    <3>2. Live' \subseteq Live
      BY <2>4, <3>1, Reached DEF Casting
    <3>3. "reused" \notin blame' => Out \subseteq Out'
      <4> SUFFICES ASSUME "reused" \notin blame', NEW u \in Out PROVE u \in Out'
        OBVIOUS
      <4>1. u = t \/ send[u].coin # send[t].coin
        BY <2>0, <3>1 DEF PaidInv
      <4> QED
        BY <2>4, <3>1, <4>1, Reached
    <3> QED
      BY <2>a, <3>1, <3>2, <3>3
  <2>5. CASE Accepted(t)
    BY <2>4, <2>5, Accepts DEF Becomes
  <2>6. CASE Refuse(t) \/ ReplyLost(t)
    <3>1. PICK lost \in BOOLEAN :
            /\ \/ UNCHANGED network
               \/ Reaches(t)
            /\ \/ Becomes(t, "broadcast", send[t].of, send[t].coin, lost)
               \/ Becomes(t, "error", 0, send[t].coin, lost)
      BY <2>6, Refuses
    <3>2. CASE Reaches(t)
      BY <2>4, <2>6, <3>1, <3>2, Refuses DEF Becomes
    <3>3. CASE UNCHANGED network
      <4>1. Out' = Out /\ Casting' \subseteq Casting
        BY <2>6, <3>1, <3>3, Refuses DEF Out, network, Becomes, Casting
      <4> QED
        BY <2>a, <3>1, <4>1 DEF Becomes
    <3> QED
      BY <3>1, <3>2, <3>3
  <2>7. CASE Save(t)
    <3>1. Out' = Out
      BY <2>7, Saves DEF Out, network
    <3>2. Casting' = Casting
      BY <2>7, Saves DEF Becomes, Casting
    <3> QED
      BY <2>7, <2>a, <3>1, <3>2, Saves DEF Becomes
  <2>8. CASE Confirm(t)
    <3>1. send' = send /\ Out' = Out /\ blame' = blame
      BY <2>8 DEF Confirm, Out
    <3> QED
      BY <3>1 DEF PaidInv, Casting
  <2> QED
    BY <1>3, <2>1, <2>2, <2>3, <2>5, <2>6, <2>7, <2>8 DEF Pays
<1> QED
  BY <1>1, <1>2, <1>3, OnchainCases DEF Looks

----------------------------------------------------------------------------
(* Onchain: what scans have reported *)

\* The steps that report nothing new.
LEMMA KnownStays ==
  ASSUME OnchainTypeInv, KnownInv, known' \subseteq known, db.items \subseteq db'.items, blame \subseteq blame',
         \A i \in Opens : Used(i)' => Used(i),
         \A i \in Opens : mem'[i].view = mem[i].view
  PROVE  KnownInv'
BY DEF KnownInv

LEMMA KnownStep ==
  ASSUME OnchainTypeInv, HoldInv, KnownInv, [OnchainNext]_onchainVars
  PROVE  KnownInv'
<1>1. CASE UNCHANGED onchainVars
  BY <1>1 DEF KnownInv, Used, onchainVars, session
<1>2. ASSUME NEW s \in Seeds, OpenFor(s) PROVE KnownInv'
  <2> DEFINE n == opens + 1
  <2>1. n \in Opens /\ onchain' = n /\ UNCHANGED <<send, scan, reveal, known>>
    BY <1>2, OnchainAssumption, SeedAssumption, AppAssumption DEF OpenFor, Open, Opens, OnchainTypeInv
  <2>2. /\ mem'[n].view = db.items \cap Sends /\ db'.items = db.items
        /\ \A i \in Opens : i # n => mem'[i] = mem[i]
    BY <1>2, <2>1 DEF OpenFor, Open, OnchainTypeInv
  <2> HIDE DEF n
  <2> SUFFICES ASSUME blame' \cap {"twin", "unsaved", "outlived"} = {}
               PROVE  /\ \A i, j \in Opens : Used(i)' /\ Used(j)' => i = j
                      /\ known' \subseteq db'.items
                      /\ \A i \in Opens : Used(i)' => known' \subseteq mem'[i].view /\ mem'[i].view \subseteq db'.items
    BY DEF KnownInv
  <2>3. blame \cap {"twin", "unsaved", "outlived"} = {} /\ ~Busy
    BY <1>2 DEF OpenFor, Open, Blame
  <2>4. \A i \in Opens : Used(i)' => i = n
    BY <2>1, <2>3 DEF Used, Busy
  <2>5. known \subseteq db.items /\ known \subseteq Sends
    BY <2>3 DEF KnownInv, OnchainTypeInv
  <2> QED
    BY <2>1, <2>2, <2>4, <2>5
<1>3. ASSUME NEW s \in Seeds, Shut(s) PROVE KnownInv'
  BY <1>3 DEF Shut, KnownInv, Used
<1>4. CASE DeleteOnchain
  <2>1. \A i \in Opens : Used(i)' => Used(i)
    BY <1>4 DEF DeleteOnchain, Used, Opens
  <2> QED
    BY <1>4, <2>1, KnownStays DEF DeleteOnchain
<1>5. CASE PurgeOnchain
  <2>1. known' = {}
    BY <1>5 DEF PurgeOnchain
  <2> QED
    BY <1>5, <2>1, PurgeUses DEF KnownInv
<1>6. CASE CrashOnchain
  <2>1. /\ onchain' = 0 /\ reveal' = 0 /\ scan'.of = 0 /\ db' = db /\ known' = known
        /\ blame \subseteq blame'
    BY <1>6 DEF CrashOnchain, NoScan, Blame
  <2>2. \A t \in Sends : send'[t].of = 0
    BY <1>6 DEF CrashOnchain, OnchainTypeInv, Payments
  <2>3. \A i \in Opens : ~Used(i)'
    BY <2>1, <2>2 DEF Used, Opens
  <2> QED
    BY <2>1, <2>3 DEF KnownInv
<1>7. CASE Apply
  <2> DEFINE i == scan.of
  <2>1. i \in Opens /\ Updated \in Memory /\ Written(i, Updated) /\ Used(i)
    BY <1>7, Applying DEF Used
  <2>2. /\ Updated.view = mem[i].view \cup scan.saw
        /\ scan.saw \subseteq mem[i].view \cup Updated.staged
    BY <2>1, Updates
  <2>3. /\ db.items \subseteq db'.items /\ mem'[i].view = Updated.view
        /\ \A j \in Opens : j # i => mem'[j] = mem[j]
        /\ blame \subseteq blame'
        /\ "unsaved" \notin blame' => Updated.staged \subseteq db'.items
    BY <2>1, Writing
  <2>4. known' \subseteq known \cup scan.saw
    BY <1>7 DEF Apply
  <2>5. \A j \in Opens : Used(j)' => Used(j)
    BY <1>7, LooksUse DEF Looks
  <2> HIDE DEF i, Updated
  <2> SUFFICES ASSUME blame' \cap {"twin", "unsaved", "outlived"} = {}
               PROVE  /\ \A j, k \in Opens : Used(j)' /\ Used(k)' => j = k
                      /\ known' \subseteq db'.items
                      /\ \A j \in Opens : Used(j)' => known' \subseteq mem'[j].view /\ mem'[j].view \subseteq db'.items
    BY DEF KnownInv
  <2>6. /\ \A j, k \in Opens : Used(j) /\ Used(k) => j = k
        /\ known \subseteq db.items /\ known \subseteq mem[i].view /\ mem[i].view \subseteq db.items
    BY <2>1, <2>3 DEF KnownInv
  <2>7. \A j \in Opens : Used(j) => j = i
    BY <2>1, <2>6
  <2> QED
    BY <2>2, <2>3, <2>4, <2>5, <2>6, <2>7
<1>8. CASE Looks /\ ~Apply
  <2>1. (\A j \in Opens : Used(j)' => Used(j)) /\ blame \subseteq blame'
    BY <1>8, LooksUse, CommandsWrite
  <2>2. known' = known
    BY <1>8 DEF Looks, Reveal, Revealed, SyncStart, Scan, ScanFails
  <2>3. db.items \subseteq db'.items /\ \A j \in Opens : mem'[j].view = mem[j].view
    <3>1. CASE Revealed
      BY <3>1, Revealing, Writing
    <3>2. CASE ~Revealed
      BY <1>8, <3>2 DEF Looks, Reveal, SyncStart, Scan, ScanFails
    <3> QED
      BY <3>1, <3>2
  <2> QED
    BY <2>1, <2>2, <2>3, KnownStays
<1>9. ASSUME NEW t \in Sends, Pays(t) PROVE KnownInv'
  <2>1. (\A j \in Opens : Used(j)' => Used(j)) /\ known' = known /\ blame \subseteq blame'
    BY <1>9, PaysUse, CommandsWrite
  <2>2. db.items \subseteq db'.items /\ \A j \in Opens : mem'[j].view = mem[j].view
    <3>1. CASE Save(t)
      BY <3>1, SaveWrites, Writing
    <3>2. CASE ~Save(t)
      BY <1>9, <3>2 DEF Pays, Preflight, Build, BuildFails, Accepted, Refuse, ReplyLost, Confirm
    <3> QED
      BY <3>1, <3>2
  <2> QED
    BY <2>1, <2>2, KnownStays
<1>10. CASE OnchainResetFails
  <2>1. \A i \in Opens : Used(i)' => Used(i)
    BY <1>10, ResetFailing DEF Used
  <2> QED
    BY <1>10, <2>1, ResetFailing, KnownStays
<1> QED
  BY <1>1, <1>2, <1>3, <1>4, <1>5, <1>6, <1>7, <1>8, <1>9, <1>10, OnchainCases DEF Looks

----------------------------------------------------------------------------
(* Onchain: the theorems *)

LEMMA OnchainInductive == OnchainSpec => []OnchainIInv
<1>1. OnchainInit => OnchainIInv
  <2> SUFFICES ASSUME OnchainInit PROVE OnchainIInv
    OBVIOUS
  <2>1. /\ Unsent.of = 0 /\ Unsent.pc = "rest" /\ NoScan.of = 0 /\ NoScan.pc = "rest" /\ Closed.staged = {}
        /\ NoDb.seed = NoSeed /\ NoDb.items = {}
    BY DEF Unsent, NoScan, Closed, NoDb
  <2>2. \A i \in Opens : ~Used(i)
    BY <2>1 DEF OnchainInit, Used, Opens
  <2>3. HoldInv
    BY <2>1 DEF OnchainInit, HoldInv
  <2>5. OnchainDbInv
    BY <2>1, <2>2 DEF OnchainInit, OnchainDbInv, NoDb
  <2>6. UnpaidInv /\ PaidInv
    BY <2>1 DEF OnchainInit, UnpaidInv, PaidInv, Out, Casting
  <2>7. KnownInv
    BY <2>2 DEF OnchainInit, KnownInv
  <2> QED
    BY <2>3, <2>5, <2>6, <2>7, OnchainTypeInit DEF OnchainIInv
<1>2. OnchainIInv /\ [OnchainNext]_onchainVars => OnchainIInv'
  BY OnchainTypeStep, HoldStep, OnchainDbStep, UnpaidStep, PaidStep, KnownStep DEF OnchainIInv
<1> QED
  BY <1>1, <1>2, PTL DEF OnchainSpec

\* Every variable keeps to its type, of the wallets, payments and the scan the
\* parts that the type invariant of the model names.
THEOREM OnchainTypeCorrect == OnchainSpec => []OnchainTypeOK
<1>1. OnchainTypeInv => OnchainTypeOK
  BY DEF OnchainTypeInv, OnchainTypeOK, Memory, Payments, Scans, Out
<1> QED
  BY <1>1, OnchainInductive, PTL DEF OnchainIInv

\* With no reset under way the wallet's database opens with the wallet's seed, but
\* after a reset that a command outlived, that a crash or its early error cut
\* short, or that could not remove the file.
THEOREM DatabaseOpens == OnchainSpec => []OpensAgain
<1>1. OnchainIInv => OpensAgain
  BY DEF OnchainIInv, OnchainDbInv, OpensAgain, Loads
<1> QED
  BY <1>1, OnchainInductive, PTL

\* A payment that was answered with a transaction id is with the network, as
\* long as no coin was built from while a payment of it was out or on its way.
THEOREM PaymentsStay == OnchainSpec => []PaidStays
<1>1. OnchainIInv => PaidStays
  BY DEF OnchainIInv, PaidInv, PaidStays
<1> QED
  BY <1>1, OnchainInductive, PTL

\* A payment that was answered with an error is not with the network, unless a
\* reply was lost or the database could not be written after it was out.
THEOREM ErrorsAreUnpaid == OnchainSpec => []ErrorMeansUnpaid
<1>1. OnchainIInv => ErrorMeansUnpaid
  BY DEF OnchainIInv, UnpaidInv, ErrorMeansUnpaid
<1> QED
  BY <1>1, OnchainInductive, PTL

\* No payment is built from a coin that a scan has reported as spent, also after
\* restarts and new unlocks, while one wallet is in use and its writes succeed.
THEOREM ReportedCoinsAreLeft == OnchainSpec => SyncedCoinsLeft
<1> DEFINE A == \A t \in Sends :
       send[t].pc = "build" /\ send'[t].pc = "broadcast" /\ blame \cap {"twin", "unsaved", "outlived"} = {}
       => send'[t].coin \notin Spent(known)
<1>1. OnchainIInv /\ [OnchainNext]_onchainVars => [A]_onchainVars
  <2> SUFFICES ASSUME OnchainIInv, OnchainNext, NEW t \in Sends, send[t].pc = "build", send'[t].pc = "broadcast",
                      blame \cap {"twin", "unsaved", "outlived"} = {}
               PROVE  send'[t].coin \notin Spent(known)
    OBVIOUS
  <2> USE DEF OnchainIInv
  <2>1. Build(t)
    <3>1. send' # send
      OBVIOUS
    <3>2. ~CrashOnchain
      BY CrashEnds
    <3>3. PICK u \in Sends : Pays(u)
      BY <3>1, <3>2, OnchainCases, NetworkStays DEF Looks
    <3>4. u = t
      BY <3>3, PaysUse
    <3> QED
      BY <3>1, <3>3, <3>4, Preflights, Fails, Accepts, Refuses, Saves DEF Pays, Becomes, Confirm
  <2>2. PICK c \in Unspent(send[t].of) : Becomes(t, "broadcast", send[t].of, c, send[t].lost)
    BY <2>1, Builds
  <2>3. send[t].of \in Opens /\ Used(send[t].of)
    BY HeldIsOpened DEF HoldInv, Used
  <2>4. known \subseteq mem[send[t].of].view
    BY <2>3 DEF KnownInv
  <2>5. c \notin Spent(mem[send[t].of].view)
    BY <2>2 DEF Unspent
  <2> QED
    BY <2>2, <2>4, <2>5 DEF Becomes, Spent
<1> QED
  BY <1>1, OnchainInductive, PTL DEF OnchainSpec, SyncedCoinsLeft

----------------------------------------------------------------------------
(* NodeLink: the inductive invariant *)

Aims == [pc : Steps, node : AnyNode, mac : AnyNode, stale : BOOLEAN]
Conns == [node : AnyNode, mac : AnyNode, live : BOOLEAN, spent : BOOLEAN]

\* LinkTypeOK without what it says about who holds a connection
LinkTypeInv ==
  /\ tor \in {"stopped", "bootstrapping", "ready", "error"} /\ torClient \in BOOLEAN
  /\ link \in {0} \cup Slots /\ snap \in {0} \cup Slots /\ conns \in [Slots -> Conns]
  /\ proc \in [Procs -> Aims]
  /\ file \in AnyNode /\ torn \in BOOLEAN /\ secret \in AnyNode /\ outdated \in BOOLEAN
  /\ vault \in {"none", "locked", "open"} /\ calling \in BOOLEAN /\ clearing \in BOOLEAN
  /\ commands \in 0 .. MaxCommands /\ faults \in 0 .. MaxFaults
  /\ blame \subseteq {"cut", "overlap", "mixed"}

\* Who is on the way to a connection has a node for it, but for the commands that
\* only start and stop Tor, and only the supervisor on its round holds a clone of
\* the client.
Unaimed == {"idle", "sleep", "probe", "drop", "check"}
Bare == {"start", "stop"}
ProcInv ==
  /\ \A p \in Procs \ Bare : proc[p].pc \in Unaimed <=> proc[p].node = NoNode
  /\ \A p \in Bare : proc[p].node = NoNode
  /\ proc["start"].pc \in {"idle", "tor", "boot", "booted", "unbooted"}
  /\ proc["stop"].pc \in {"idle", "stopping"}
  /\ snap # 0 => proc["supervisor"].pc \in {"probe", "drop"}
  /\ proc["supervisor"].pc = "probe" => snap # 0

\* A connection is someone's.
HeldInv == \A i \in Slots : i \notin {link, snap} => conns[i] = NoConn

\* Who is on the way to a connection although there is one was overtaken by it.
RaceInv ==
  link # 0 => \A p \in Procs : p # "form" /\ proc[p].node # NoNode => proc[p].stale

\* While the file and the vault are written and read without anyone in between,
\* the macaroon that is taken from the vault is the one of the node in the file.
Fitted == {"tor", "boot", "booted", "unbooted", "dial", "save", "store", "install"}
MacInv ==
  "mixed" \notin blame =>
    /\ \A s \in Slots : conns[s].mac = conns[s].node
    /\ \A p \in Procs : proc[p].pc \in Fitted => proc[p].mac = proc[p].node
    /\ \A p \in Procs : proc[p].pc = "load" =>
         proc["form"].pc # "store" /\ secret \in {NoNode, proc[p].node}
    /\ IF proc["form"].pc = "store" THEN file \in {NoNode, proc["form"].node}
       ELSE file = NoNode \/ secret \in {NoNode, file}

\* Unless a bootstrap was cut off or undone, someone is on the way to make true
\* what the state of Tor says, or to take it back.
TorInv ==
  /\ tor = "bootstrapping" => "cut" \in blame \/ \E p \in Procs : proc[p].pc = "boot"
  /\ tor = "ready" /\ ~torClient =>
       \/ blame \cap {"cut", "overlap"} # {}
       \/ \E p \in Procs : proc[p].pc = "booted"
       \/ proc["stop"].pc = "stopping"

LinkIInv == LinkTypeInv /\ ProcInv /\ HeldInv /\ RaceInv /\ MacInv /\ TorInv

----------------------------------------------------------------------------
(* NodeLink: the steps of tasks and commands *)

\* p is now at pc with this node and macaroon, and nobody else has moved.
To(p, pc, n, m) ==
  /\ proc' \in [Procs -> Aims] /\ \A q \in Procs : q # p => proc'[q] = proc[q]
  /\ proc'[p].pc = pc /\ proc'[p].node = n /\ proc'[p].mac = m

\* p goes on with what it has, or gives up.
On(p, pc) == To(p, pc, proc[p].node, proc[p].mac) /\ proc'[p].stale = proc[p].stale
Off(p) == To(p, IF p = "supervisor" THEN "sleep" ELSE "idle", NoNode, NoNode)

\* start_tor does not go on to a connection.
OnOrOff(p, pc) == (p # "start" /\ On(p, pc)) \/ Off(p)

LEMMA AtIs ==
  ASSUME NEW pc \in Steps, NEW n \in AnyNode, NEW m \in AnyNode
  PROVE  /\ At(pc, n, m) \in Aims /\ At(pc, n, m).pc = pc
         /\ At(pc, n, m).node = n /\ At(pc, n, m).mac = m
BY DEF At, Aims

LEMMA IdleIs ==
  /\ Idle \in Aims /\ Idle.pc = "idle" /\ Idle.node = NoNode /\ Idle.mac = NoNode
  /\ [Idle EXCEPT !.pc = "sleep"] \in Aims /\ [Idle EXCEPT !.pc = "sleep"].pc = "sleep"
  /\ [Idle EXCEPT !.pc = "sleep"].node = NoNode /\ [Idle EXCEPT !.pc = "sleep"].mac = NoNode
BY DEF Idle, At, Aims, Steps, AnyNode

LEMMA GoesOn ==
  ASSUME LinkTypeInv, NEW p \in Procs, NEW pc \in Steps, Go(p, pc)
  PROVE  On(p, pc)
<1>1. [proc[p] EXCEPT !.pc = pc] \in Aims /\ proc[p] \in Aims
  BY DEF LinkTypeInv, Aims
<1>2. proc' = [proc EXCEPT ![p] = [proc[p] EXCEPT !.pc = pc]]
  BY DEF Go, LinkTypeInv
<1> QED
  BY <1>1, <1>2 DEF On, To, LinkTypeInv, Aims

LEMMA Aiming ==
  ASSUME LinkTypeInv, NEW p \in Procs, NEW pc \in Steps, NEW n \in AnyNode, NEW m \in AnyNode,
         proc' = [proc EXCEPT ![p] = At(pc, n, m)]
  PROVE  To(p, pc, n, m)
BY AtIs DEF To, LinkTypeInv

LEMMA Leaving ==
  ASSUME LinkTypeInv, NEW p \in Procs, Leave(p)
  PROVE  Off(p)
<1> DEFINE r == IF p = "supervisor" THEN [Idle EXCEPT !.pc = "sleep"] ELSE Idle
<1>1. /\ r \in Aims /\ r.pc = (IF p = "supervisor" THEN "sleep" ELSE "idle")
      /\ r.node = NoNode /\ r.mac = NoNode
  BY IdleIs
<1>2. proc' = [proc EXCEPT ![p] = r]
  BY DEF Leave
<1> HIDE DEF r
<1> QED
  BY <1>1, <1>2 DEF Off, To, LinkTypeInv

LEMMA Defaults ==
  ASSUME LinkTypeInv, NEW p \in Procs, ToDefault(p)
  PROVE  Off(p) \/ (Default # NoNode /\ To(p, "tor", Default, Default))
<1>1. "tor" \in Steps /\ Default \in AnyNode
  BY DEF Steps, AnyNode
<1> QED
  BY <1>1, Leaving, Aiming DEF ToDefault

LEMMA Checks ==
  ASSUME LinkTypeInv, NEW p \in Procs, Check(p) \/ (p = "auto" /\ CheckDefault)
  PROVE  /\ proc[p].pc = "check" /\ p \notin Bare
         /\ \/ Off(p) /\ UNCHANGED blame
            \/ /\ link = 0 /\ file # NoNode /\ To(p, "load", file, NoNode)
               /\ Blame("mixed", proc["form"].pc = "store")
            \/ link = 0 /\ Default # NoNode /\ To(p, "tor", Default, Default) /\ UNCHANGED blame
         /\ UNCHANGED <<torVars, clientVars, diskVars, outdated, vault, calling, clearing, linkBounds>>
<1>1. "load" \in Steps /\ file \in AnyNode /\ NoNode \in AnyNode
  BY DEF Steps, AnyNode, LinkTypeInv
<1>0. p \notin Bare
  BY DEF Check, Tasks, Bare
<1>2. CASE Check(p)
  <2>1. CASE Leave(p) /\ UNCHANGED blame
    BY <1>0, <1>2, <2>1, Leaving DEF Check
  <2>2. CASE link = 0 /\ file # NoNode /\ proc' = [proc EXCEPT ![p] = At("load", file, NoNode)]
             /\ Blame("mixed", proc["form"].pc = "store")
    <3>1. To(p, "load", file, NoNode)
      BY <1>1, <2>2, Aiming
    <3> QED
      BY <1>0, <1>2, <2>2, <3>1 DEF Check
  <2>3. CASE link = 0 /\ file = NoNode /\ ToDefault(p) /\ UNCHANGED blame
    BY <1>0, <1>2, <2>3, Defaults DEF Check
  <2> QED
    BY <1>2, <2>1, <2>2, <2>3 DEF Check
<1>3. CASE p = "auto" /\ CheckDefault
  BY <1>0, <1>3, Defaults, Leaving DEF CheckDefault
<1> QED
  BY <1>2, <1>3

LEMMA SecretLoads ==
  ASSUME LinkTypeInv, NEW p \in Procs, LoadSecret(p)
  PROVE  /\ proc[p].pc = "load"
         /\ \/ /\ secret # NoNode /\ To(p, "tor", proc[p].node, secret)
               /\ proc'[p].stale = proc[p].stale
            \/ Off(p)
         /\ UNCHANGED <<torVars, clientVars, diskVars, outdated, vault, calling, clearing, linkBounds, blame>>
<1>1. CASE proc' = [proc EXCEPT ![p].pc = "tor", ![p].mac = secret] /\ secret # NoNode
  <2> DEFINE r == [proc[p] EXCEPT !.pc = "tor", !.mac = secret]
  <2>1. /\ r \in Aims /\ r.pc = "tor" /\ r.mac = secret /\ r.node = proc[p].node
        /\ r.stale = proc[p].stale
    BY DEF LinkTypeInv, Aims, Steps
  <2>2. proc' = [proc EXCEPT ![p] = r]
    BY <1>1 DEF LinkTypeInv
  <2> HIDE DEF r
  <2>3. To(p, "tor", proc[p].node, secret) /\ proc'[p].stale = proc[p].stale
    BY <2>1, <2>2 DEF To, LinkTypeInv
  <2> QED
    BY <1>1, <2>3 DEF LoadSecret
<1>2. CASE Leave(p)
  BY <1>2, Leaving DEF LoadSecret
<1> QED
  BY <1>1, <1>2 DEF LoadSecret

LEMMA Tors ==
  ASSUME LinkTypeInv, NEW p \in Procs,
         StartTor(p) \/ SetUpFails(p) \/ Bootstrapped(p) \/ BootFails(p) \/ StoreClient(p)
  PROVE  /\ \/ proc[p].pc = "tor" /\ OnOrOff(p, "dial") /\ UNCHANGED <<torVars, blame>>
            \/ proc[p].pc = "tor" /\ Down /\ On(p, "boot") /\ tor' = "bootstrapping" /\ UNCHANGED <<torClient, blame>>
            \/ proc[p].pc = "tor" /\ tor' = "bootstrapping" /\ Off(p) /\ UNCHANGED torClient /\ blame' = blame \cup {"cut"}
            \/ proc[p].pc = "boot" /\ tor' = "ready" /\ On(p, "booted") /\ UNCHANGED <<torClient, blame>>
            \/ proc[p].pc = "boot" /\ tor' = "error" /\ On(p, "unbooted") /\ UNCHANGED <<torClient, blame>>
            \/ proc[p].pc = "booted" /\ torClient' = TRUE /\ OnOrOff(p, "dial") /\ UNCHANGED <<tor, blame>>
            \/ /\ proc[p].pc = "unbooted" /\ torClient' = FALSE /\ Off(p) /\ UNCHANGED tor
               /\ Blame("overlap", tor = "ready" /\ torClient)
         /\ Elsewhere /\ (UNCHANGED linkBounds \/ LinkFault)
<1> {"dial", "boot", "booted", "unbooted"} \subseteq Steps
  BY DEF Steps
<1>1. \A pc \in {"dial", "boot", "booted", "unbooted"} : Go(p, pc) => On(p, pc)
  BY GoesOn
<1>2. Leave(p) => Off(p)
  BY Leaving
<1>3. CASE StartTor(p)
  BY <1>1, <1>2, <1>3 DEF StartTor, Started, AfterTor, OnOrOff, torVars
<1>4. CASE SetUpFails(p)
  BY <1>2, <1>4 DEF SetUpFails, Started, Blame
<1>5. CASE Bootstrapped(p)
  BY <1>1, <1>5 DEF Bootstrapped
<1>6. CASE BootFails(p)
  BY <1>1, <1>6 DEF BootFails
<1>7. CASE StoreClient(p)
  BY <1>1, <1>2, <1>7 DEF StoreClient, AfterTor, OnOrOff
<1> QED
  BY <1>3, <1>4, <1>5, <1>6, <1>7

LEMMA TorStops ==
  ASSUME LinkTypeInv, StopTor \/ StopEnds
  PROVE  /\ \/ /\ proc["stop"].pc = "idle" /\ To("stop", "stopping", NoNode, NoNode)
               /\ torClient' = FALSE /\ UNCHANGED <<tor, blame>> /\ Command
            \/ /\ proc["stop"].pc = "stopping" /\ Off("stop") /\ tor' = "stopped"
               /\ blame' = blame \ {"cut", "overlap"} /\ UNCHANGED <<torClient, linkBounds>>
         /\ Elsewhere
<1>1. "stop" \in Procs /\ "stopping" \in Steps /\ NoNode \in AnyNode
  BY DEF Procs, Steps, AnyNode
<1>2. CASE StopTor
  BY <1>1, <1>2, Aiming DEF StopTor
<1>3. CASE StopEnds
  BY <1>1, <1>3, Leaving DEF StopEnds
<1> QED
  BY <1>2, <1>3

LEMMA TorStarts ==
  ASSUME LinkTypeInv, TorCommand
  PROVE  /\ proc["start"].pc = "idle" /\ To("start", "tor", NoNode, NoNode) /\ Command
         /\ UNCHANGED <<torVars, clientVars, diskVars, outdated, vault, calling, clearing, blame>>
<1>1. "start" \in Procs /\ "tor" \in Steps /\ NoNode \in AnyNode
  BY DEF Procs, Steps, AnyNode
<1> QED
  BY <1>1, Aiming DEF TorCommand, Quiet

LEMMA Dials ==
  ASSUME LinkTypeInv, NEW p \in Procs, Dialled(p) \/ DialFails(p)
  PROVE  /\ proc[p].pc = "dial"
         /\ \/ On(p, IF p = "form" THEN "save" ELSE "install")
            \/ Off(p)
         /\ Elsewhere /\ UNCHANGED <<torVars, blame>> /\ (UNCHANGED linkBounds \/ LinkFault)
<1> {"save", "install"} \subseteq Steps
  BY DEF Steps
<1>1. \A pc \in {"save", "install"} : Go(p, pc) => On(p, pc)
  BY GoesOn
<1> QED
  BY <1>1, Leaving DEF Dialled, DialFails

LEMMA Forms ==
  ASSUME LinkTypeInv, SaveNode \/ \E n \in Nodes : Form(n)
  PROVE  /\ \/ /\ proc["form"].pc = "save" /\ file' = proc["form"].node /\ On("form", "store")
               /\ Blame("mixed", \E p \in Procs : proc[p].pc = "load") /\ UNCHANGED <<secret, linkBounds>>
            \/ /\ proc["form"].pc = "store" /\ secret' = proc["form"].mac
               /\ On("form", "install") /\ UNCHANGED <<file, blame, linkBounds>>
            \/ /\ proc["form"].pc = "store" /\ Off("form") /\ blame' = blame \cup {"mixed"}
               /\ UNCHANGED <<file, secret, linkBounds>>
            \/ /\ proc["form"].pc = "save" /\ Off("form") /\ LinkFault
               /\ UNCHANGED <<file, secret, blame>>
            \/ /\ proc["form"].pc = "idle" /\ \E n \in Nodes : To("form", "tor", n, n)
               /\ UNCHANGED <<file, secret, blame>> /\ Command
         /\ torn' \in BOOLEAN /\ UNCHANGED <<torVars, clientVars, outdated, vault, calling, clearing>>
<1>0. "form" \in Procs /\ {"store", "install", "tor"} \subseteq Steps
  BY DEF Procs, Steps
<1>1. \A pc \in {"store", "install"} : Go("form", pc) => On("form", pc)
  BY <1>0, GoesOn
<1>2. CASE SaveNode
  BY <1>0, <1>1, <1>2, Leaving DEF SaveNode, SaveConfig, SaveFails, Saving, StoreSecret, Blame, LinkTypeInv
<1>3. ASSUME NEW n \in Nodes, Form(n) PROVE To("form", "tor", n, n)
  <2>1. n \in AnyNode
    BY DEF AnyNode
  <2> QED
    BY <1>0, <1>3, <2>1, Aiming DEF Form
<1> QED
  BY <1>2, <1>3 DEF Form, Quiet, diskVars, LinkTypeInv

LEMMA Autos ==
  ASSUME LinkTypeInv, AutoConnect
  PROVE  /\ proc["auto"].pc = "idle" /\ To("auto", "check", NoNode, NoNode) /\ Command
         /\ UNCHANGED <<torVars, clientVars, diskVars, outdated, vault, calling, clearing, blame>>
<1>1. "auto" \in Procs /\ "check" \in Steps /\ NoNode \in AnyNode
  BY DEF Procs, Steps, AnyNode
<1> QED
  BY <1>1, Aiming DEF AutoConnect, Quiet

LEMMA Supervises ==
  ASSUME LinkTypeInv, Supervise
  PROVE  /\ \/ /\ proc["supervisor"].pc = "sleep" /\ snap' = link /\ UNCHANGED <<link, conns>>
               /\ \/ link = 0 /\ On("supervisor", "check")
                  \/ link # 0 /\ (On("supervisor", "drop") \/ On("supervisor", "probe"))
            \/ /\ proc["supervisor"].pc = "probe" /\ On("supervisor", "sleep") /\ UNCHANGED link
               /\ snap' = 0 /\ conns' = Held(link, 0, conns)
            \/ proc["supervisor"].pc = "probe" /\ On("supervisor", "drop") /\ UNCHANGED clientVars
            \/ /\ proc["supervisor"].pc = "drop" /\ On("supervisor", "check")
               /\ link' = 0 /\ snap' = 0 /\ conns' = Held(0, 0, conns)
         /\ UNCHANGED <<torVars, diskVars, outdated, vault, calling, clearing, blame>>
         /\ UNCHANGED linkBounds \/ LinkFault
<1>0. "supervisor" \in Procs /\ {"sleep", "check", "drop", "probe"} \subseteq Steps
  BY DEF Procs, Tasks, Steps
<1>1. \A pc \in {"sleep", "check", "drop", "probe"} : Go("supervisor", pc) => On("supervisor", pc)
  BY <1>0, GoesOn
<1>2. CASE Wake
  BY <1>1, <1>2 DEF Wake
<1>3. CASE ProbeAnswered
  BY <1>1, <1>3 DEF ProbeAnswered
<1>4. CASE ProbeFails
  BY <1>1, <1>4 DEF ProbeFails
<1>5. CASE Drop
  BY <1>1, <1>5 DEF Drop
<1> QED
  BY <1>2, <1>3, <1>4, <1>5 DEF Supervise

LEMMA HeldIs ==
  ASSUME NEW l, NEW s, NEW c, NEW i \in Slots
  PROVE  Held(l, s, c)[i] = IF i \in {l, s} THEN c[i] ELSE NoConn
BY DEF Held

LEMMA Installs ==
  ASSUME LinkTypeInv, NEW p \in Procs, Install(p)
  PROVE  /\ proc[p].pc = "install" /\ link' \in Slots /\ link' # snap
         /\ conns' \in [Slots -> Conns]
         /\ conns'[link'].node = proc[p].node /\ conns'[link'].mac = proc[p].mac
         /\ \A i \in Slots : i # link' => conns'[i] = IF i = snap THEN conns[i] ELSE NoConn
         /\ proc' \in [Procs -> Aims]
         /\ proc'[p].pc = (IF p = "supervisor" THEN "sleep" ELSE "idle") /\ proc'[p].node = NoNode
         /\ \A q \in Procs : q # p =>
              /\ proc'[q].pc = proc[q].pc /\ proc'[q].node = proc[q].node /\ proc'[q].mac = proc[q].mac
              /\ q # "form" /\ proc[q].node # NoNode => proc'[q].stale
         /\ UNCHANGED <<torVars, snap, diskVars, outdated, vault, calling, clearing, linkBounds, blame>>
<1> DEFINE s == CHOOSE i \in Slots : i # snap
           c == [node |-> proc[p].node, mac |-> proc[p].mac, live |-> TRUE, spent |-> FALSE]
           d == [conns EXCEPT ![s] = c]
<1>1. s \in Slots /\ s # snap
  BY DEF Slots
<1>2. c \in Conns /\ NoConn \in Conns
  BY DEF Conns, LinkTypeInv, Aims, NoConn, AnyNode
<1>3. link' = s /\ conns' = Held(s, snap, d)
  BY DEF Install
<1>4. d \in [Slots -> Conns] /\ d[s] = c /\ \A i \in Slots : i # s => d[i] = conns[i]
  BY <1>1, <1>2 DEF LinkTypeInv
<1>5. c.node = proc[p].node /\ c.mac = proc[p].mac
  OBVIOUS
<1> HIDE DEF s, c, d
<1>6. /\ conns' \in [Slots -> Conns] /\ conns'[s] = c
      /\ \A i \in Slots : i # s => conns'[i] = IF i = snap THEN conns[i] ELSE NoConn
  BY <1>1, <1>2, <1>3, <1>4 DEF Held
<1>7. proc' = [q \in Procs |->
        IF q = p THEN (IF p = "supervisor" THEN [Idle EXCEPT !.pc = "sleep"] ELSE Idle)
        ELSE [proc[q] EXCEPT !.stale = @ \/ (q # "form" /\ proc[q].node # NoNode)]]
  BY DEF Install
<1>8. ASSUME NEW q \in Procs, q # p
      PROVE  /\ proc'[q] \in Aims
             /\ proc'[q].pc = proc[q].pc /\ proc'[q].node = proc[q].node /\ proc'[q].mac = proc[q].mac
             /\ q # "form" /\ proc[q].node # NoNode => proc'[q].stale
  <2> DEFINE b == proc[q].stale \/ (q # "form" /\ proc[q].node # NoNode)
  <2>1. proc'[q] = [proc[q] EXCEPT !.stale = b] /\ b \in BOOLEAN
    BY <1>7, <1>8 DEF LinkTypeInv, Aims
  <2>2. (q # "form" /\ proc[q].node # NoNode) => b
    OBVIOUS
  <2> HIDE DEF b
  <2>3. proc[q] \in Aims
    BY DEF LinkTypeInv
  <2>4. proc'[q] \in Aims /\ proc'[q].pc = proc[q].pc /\ proc'[q].node = proc[q].node
        /\ proc'[q].mac = proc[q].mac
    BY <2>1, <2>3 DEF Aims
  <2>5. proc'[q].stale = b
    BY <2>1, <2>3 DEF Aims
  <2> QED
    BY <2>2, <2>4, <2>5
<1>9. proc'[p] = IF p = "supervisor" THEN [Idle EXCEPT !.pc = "sleep"] ELSE Idle
  BY <1>7
<1>10. proc' \in [Procs -> Aims]
  BY <1>7, <1>8, <1>9, IdleIs
<1> QED
  BY <1>1, <1>3, <1>5, <1>6, <1>8, <1>9, <1>10, IdleIs DEF Install

\* An abort leaves of the tasks at most one that gets to the end of its segment.
LEMMA Aborts ==
  ASSUME LinkTypeInv, NEW next, Abort(next), next["unlock"] \in Aims, next["supervisor"] \in Aims
  PROVE  /\ proc' \in [Procs -> Aims] /\ snap' = 0
         /\ \A p \in Tasks : proc'[p] = next[p]
         /\ \A p \in Procs \ Tasks :
              \/ proc'[p] = proc[p]
              \/ p = "last" /\ proc[p].pc = "idle"
                 /\ \E t \in Tasks : proc[t].pc = "install" /\ proc'[p] = proc[t]
         /\ blame' = blame \/ blame' = blame \cup {"cut"}
         /\ "cut" \notin blame' => \A t \in Tasks : proc[t].pc \notin {"boot", "booted"}
<1> Tasks \subseteq Procs /\ "last" \in Procs /\ "last" \notin Tasks /\ Tasks = {"unlock", "supervisor"}
  BY DEF Procs, Tasks
<1>1. blame' = (IF \E t \in Tasks : proc[t].pc \in {"boot", "booted"} THEN blame \cup {"cut"} ELSE blame)
  BY DEF Abort, Blame
<1>2. CASE proc' = [p \in Procs |-> IF p \in Tasks THEN next[p] ELSE proc[p]]
  BY <1>1, <1>2 DEF Abort, LinkTypeInv
<1>3. ASSUME NEW t \in Tasks, proc[t].pc = "install", proc["last"].pc = "idle",
             proc' = [p \in Procs |-> IF p \in Tasks THEN next[p] ELSE IF p = "last" THEN proc[t] ELSE proc[p]]
      PROVE  /\ proc' \in [Procs -> Aims]
             /\ \A p \in Tasks : proc'[p] = next[p]
             /\ \A p \in Procs \ Tasks : proc'[p] = proc[p] \/ (p = "last" /\ proc'[p] = proc[t])
  BY <1>3 DEF LinkTypeInv
<1> QED
  BY <1>1, <1>2, <1>3 DEF Abort

\* An unlock and a reset abort the tasks; a restart, everyone.
LEMMA OpenResets ==
  ASSUME LinkTypeInv, OpenWallet \/ Reset \/ ResetFails
  PROVE  /\ proc' \in [Procs -> Aims] /\ snap' = 0 /\ link' = link /\ conns' = Held(link, 0, conns)
         /\ \A p \in Tasks : proc'[p].pc \in {"idle", "sleep", "check"} /\ proc'[p].node = NoNode
         /\ \A p \in Procs \ Tasks :
              \/ proc'[p] = proc[p]
              \/ p = "last" /\ proc[p].pc = "idle"
                 /\ \E t \in Tasks : proc[t].pc = "install" /\ proc'[p] = proc[t]
         /\ blame' = blame \/ blame' = blame \cup {"cut"}
         /\ "cut" \notin blame' => \A t \in Tasks : proc[t].pc \notin {"boot", "booted"}
         /\ secret' \in {secret, NoNode} /\ file' = file /\ torn' = torn
         /\ UNCHANGED <<torVars, calling>> /\ commands' \in 0 .. MaxCommands /\ faults' \in 0 .. MaxFaults
         /\ vault' \in {"none", "open"} /\ outdated' \in BOOLEAN /\ clearing' \in BOOLEAN
<1>1. /\ Spawned["unlock"] \in Aims /\ Spawned["unlock"].pc = "check" /\ Spawned["unlock"].node = NoNode
      /\ Spawned["supervisor"] \in Aims /\ Spawned["supervisor"].pc = "sleep"
      /\ Spawned["supervisor"].node = NoNode
  <2>1. "check" \in Steps /\ NoNode \in AnyNode
    BY DEF Steps, AnyNode
  <2> QED
    <3>1. /\ Spawned["unlock"] = At("check", NoNode, NoNode)
          /\ Spawned["supervisor"] = [Idle EXCEPT !.pc = "sleep"]
      BY DEF Spawned
    <3>2. /\ At("check", NoNode, NoNode) \in Aims /\ At("check", NoNode, NoNode).pc = "check"
          /\ At("check", NoNode, NoNode).node = NoNode
      BY <2>1, AtIs
    <3> QED
      BY <3>1, <3>2, IdleIs
<1>2. /\ NoTasks["unlock"] \in Aims /\ NoTasks["unlock"].pc = "idle" /\ NoTasks["unlock"].node = NoNode
      /\ NoTasks["supervisor"] \in Aims /\ NoTasks["supervisor"].pc = "idle"
      /\ NoTasks["supervisor"].node = NoNode
  BY IdleIs DEF NoTasks
<1>b. ASSUME commands < MaxCommands, commands' = commands + 1, UNCHANGED faults \/ Fault
      PROVE  commands' \in 0 .. MaxCommands /\ faults' \in 0 .. MaxFaults
  BY <1>b, LinkAssumption, AppAssumption DEF LinkTypeInv, Fault
<1>3. CASE OpenWallet
  <2>1. Abort(Spawned)
    BY <1>3 DEF OpenWallet
  <2>2. /\ proc' \in [Procs -> Aims] /\ snap' = 0
        /\ \A p \in Tasks : proc'[p] = Spawned[p]
        /\ \A p \in Procs \ Tasks :
              \/ proc'[p] = proc[p]
              \/ p = "last" /\ proc[p].pc = "idle"
                 /\ \E t \in Tasks : proc[t].pc = "install" /\ proc'[p] = proc[t]
        /\ blame' = blame \/ blame' = blame \cup {"cut"}
        /\ "cut" \notin blame' => \A t \in Tasks : proc[t].pc \notin {"boot", "booted"}
    BY <1>1, <2>1, Aborts
  <2> QED
    <3>1. commands' \in 0 .. MaxCommands /\ faults' \in 0 .. MaxFaults
      BY <1>3, <1>b DEF OpenWallet, Command
    <3> QED
      BY <1>1, <1>3, <2>2, <3>1 DEF OpenWallet, Tasks, diskVars, LinkTypeInv
<1>4. CASE Reset \/ ResetFails
  <2>1. Abort(NoTasks)
    BY <1>4 DEF Reset, ResetFails
  <2>2. /\ proc' \in [Procs -> Aims] /\ snap' = 0
        /\ \A p \in Tasks : proc'[p] = NoTasks[p]
        /\ \A p \in Procs \ Tasks :
              \/ proc'[p] = proc[p]
              \/ p = "last" /\ proc[p].pc = "idle"
                 /\ \E t \in Tasks : proc[t].pc = "install" /\ proc'[p] = proc[t]
        /\ blame' = blame \/ blame' = blame \cup {"cut"}
        /\ "cut" \notin blame' => \A t \in Tasks : proc[t].pc \notin {"boot", "booted"}
    BY <1>2, <2>1, Aborts
  <2> QED
    <3>1. commands' \in 0 .. MaxCommands /\ faults' \in 0 .. MaxFaults
      BY <1>4, <1>b DEF Reset, ResetFails, Command
    <3>2. /\ link' = link /\ conns' = Held(link, 0, conns) /\ UNCHANGED <<torVars, calling, torn, file, outdated>>
          /\ secret' \in {secret, NoNode} /\ vault' \in {"none", "open"} /\ clearing' \in {clearing, TRUE}
      BY <1>4 DEF Reset, ResetFails
    <3>3. \A p \in Tasks : proc'[p].pc \in {"idle", "sleep", "check"} /\ proc'[p].node = NoNode
      BY <1>2, <2>2 DEF Tasks
    <3> QED
      BY <2>2, <3>1, <3>2, <3>3 DEF LinkTypeInv
<1> QED
  BY <1>3, <1>4

LEMMA Restarts ==
  ASSUME LinkTypeInv, Restart
  PROVE  /\ \A p \in Procs : proc'[p] = Idle
         /\ proc' \in [Procs -> Aims]
         /\ tor' = "stopped" /\ torClient' = FALSE /\ link' = 0 /\ snap' = 0 /\ conns' = Held(0, 0, conns)
         /\ blame' \subseteq blame \cup {"mixed"}
         /\ "mixed" \notin blame' => "mixed" \notin blame /\ proc["form"].pc # "store"
         /\ torn' \in BOOLEAN /\ UNCHANGED <<file, secret>>
BY IdleIs DEF Restart, Saving, LinkTypeInv

\* The user's other commands and the network: connections come to an end or change
\* in what they can do, and nobody moves.
Outside == Call \/ CallEnds \/ Disconnect \/ ChangePassword \/ ConnectionDrops \/ Burst \/ Refill

LEMMA OutsideStays ==
  ASSUME LinkTypeInv, HeldInv, Outside
  PROVE  /\ UNCHANGED <<proc, snap, torVars, diskVars, blame>> /\ link' \in {0, link}
         /\ conns' \in [Slots -> Conns]
         /\ \A i \in Slots : /\ conns'[i] = NoConn \/ (/\ conns'[i].node = conns[i].node
                                                       /\ conns'[i].mac = conns[i].mac)
                             /\ i \notin {link', snap'} => conns'[i] = NoConn
<1>0. NoConn \in Conns /\ NoConn.live = FALSE /\ NoConn.spent = FALSE
  BY DEF NoConn, Conns, AnyNode
<1>1. CASE Call \/ CallEnds \/ ChangePassword
  BY <1>1 DEF Call, CallEnds, ChangePassword, Quiet, clientVars, HeldInv, LinkTypeInv
<1>2. CASE Disconnect
  BY <1>0, <1>2 DEF Disconnect, Quiet, Held, HeldInv, LinkTypeInv
<1>3. ASSUME NEW s \in Slots, NEW c \in Conns, c.node = conns[s].node, c.mac = conns[s].mac,
             conns' = [conns EXCEPT ![s] = c], conns[s] # NoConn, link' = link, snap' = snap
      PROVE  /\ conns' \in [Slots -> Conns]
             /\ \A i \in Slots : /\ conns'[i] = NoConn \/ (/\ conns'[i].node = conns[i].node
                                                           /\ conns'[i].mac = conns[i].mac)
                                 /\ i \notin {link', snap'} => conns'[i] = NoConn
  BY <1>3 DEF LinkTypeInv, HeldInv
<1>4. \A s \in Slots : /\ [conns[s] EXCEPT !.live = FALSE] \in Conns
                       /\ [conns[s] EXCEPT !.live = FALSE].node = conns[s].node
                       /\ [conns[s] EXCEPT !.live = FALSE].mac = conns[s].mac
                       /\ \A b \in BOOLEAN : /\ [conns[s] EXCEPT !.spent = b] \in Conns
                                             /\ [conns[s] EXCEPT !.spent = b].node = conns[s].node
                                             /\ [conns[s] EXCEPT !.spent = b].mac = conns[s].mac
  BY DEF LinkTypeInv, Conns
<1>5. CASE ConnectionDrops
  <2>1. PICK s \in Slots : conns[s].live /\ conns' = [conns EXCEPT ![s].live = FALSE]
    BY <1>5 DEF ConnectionDrops
  <2>2. conns' = [conns EXCEPT ![s] = [conns[s] EXCEPT !.live = FALSE]] /\ conns[s] # NoConn
    BY <1>0, <2>1 DEF LinkTypeInv
  <2> QED
    BY <1>3, <1>4, <1>5, <2>2 DEF ConnectionDrops, Quiet
<1>6. CASE Burst
  <2>1. link \in Slots /\ conns' = [conns EXCEPT ![link] = [conns[link] EXCEPT !.spent = TRUE]]
        /\ UNCHANGED <<proc, snap, link, torVars, diskVars, blame>>
    BY <1>6 DEF Burst, Quiet, LinkTypeInv
  <2>2. conns' \in [Slots -> Conns] /\ \A i \in Slots : i # link => conns'[i] = conns[i]
    BY <1>4, <2>1 DEF LinkTypeInv
  <2>3. conns'[link].node = conns[link].node /\ conns'[link].mac = conns[link].mac
    BY <1>4, <2>1 DEF LinkTypeInv
  <2> QED
    BY <2>1, <2>2, <2>3 DEF HeldInv
<1>7. CASE Refill
  <2>1. PICK s \in Slots : conns[s].spent /\ conns' = [conns EXCEPT ![s].spent = FALSE]
    BY <1>7 DEF Refill
  <2>2. conns' = [conns EXCEPT ![s] = [conns[s] EXCEPT !.spent = FALSE]] /\ conns[s] # NoConn
    BY <1>0, <2>1 DEF LinkTypeInv
  <2> QED
    BY <1>3, <1>4, <1>7, <2>2 DEF Refill, Quiet
<1> QED
  BY <1>1, <1>2, <1>5, <1>6, <1>7 DEF Outside

\* The steps of one task or command that moves alone.
Moves(p) ==
  \/ Check(p) \/ (p = "auto" /\ CheckDefault) \/ LoadSecret(p)
  \/ StartTor(p) \/ SetUpFails(p) \/ Bootstrapped(p) \/ BootFails(p) \/ StoreClient(p)
  \/ Dialled(p) \/ DialFails(p)
  \/ p = "form" /\ (SaveNode \/ \E n \in Nodes : Form(n))
  \/ p = "auto" /\ AutoConnect
  \/ p = "supervisor" /\ Supervise
  \/ p = "start" /\ TorCommand
  \/ p = "stop" /\ (StopTor \/ StopEnds)

LEMMA LinkCases ==
  ASSUME LinkNext
  PROVE  \/ \E p \in Procs : Moves(p) \/ Install(p)
         \/ OpenWallet \/ Reset \/ ResetFails \/ Clear \/ Restart \/ Outside
<1> "form" \in Procs /\ "auto" \in Procs /\ "start" \in Procs /\ "stop" \in Procs
  BY DEF Procs
<1> QED
  BY DEF LinkNext, Advance, Moves, Outside

----------------------------------------------------------------------------
(* NodeLink: types, and what goes with the step of a task *)

LEMMA LinkTypeStep ==
  ASSUME LinkTypeInv, HeldInv, [LinkNext]_linkVars
  PROVE  LinkTypeInv'
<1> /\ "form" \in Procs /\ "auto" \in Procs /\ "supervisor" \in Procs
    /\ NoConn \in Conns /\ conns \in [Slots -> Conns] /\ proc \in [Procs -> Aims]
  BY DEF Procs, Tasks, NoConn, Conns, AnyNode, LinkTypeInv
<1>1. CASE UNCHANGED linkVars
  BY <1>1 DEF LinkTypeInv, linkVars, torVars, clientVars, diskVars, linkBounds
<1>2. commands' \in 0 .. MaxCommands /\ faults' \in 0 .. MaxFaults
  <2>1. UNCHANGED linkBounds \/ LinkFault \/ Command \/ ResetFails
    <3>1. ASSUME NEW p \in Procs, Moves(p) PROVE UNCHANGED linkBounds \/ LinkFault \/ Command
      BY <3>1, Checks, SecretLoads, Tors, Dials, Forms, Autos, TorStarts, TorStops, Supervises DEF Moves
    <3>2. ASSUME NEW p \in Procs, Install(p) PROVE UNCHANGED linkBounds
      BY <3>2 DEF Install
    <3> QED
      BY <1>1, <3>1, <3>2, LinkCases DEF OpenWallet, Reset, ResetFails, Clear, Restart, Outside, Call, CallEnds, Disconnect,
         ChangePassword, ConnectionDrops, Burst, Refill, linkVars
  <2>2. CASE ResetFails
    BY <2>2, OpenResets
  <2> QED
    BY <2>1, <2>2, LinkAssumption, AppAssumption DEF LinkTypeInv, LinkFault, Fault, Command, linkBounds
<1>3. \A l, s : Held(l, s, conns) \in [Slots -> Conns]
  BY DEF Held
<1>4. ASSUME NEW p \in Procs, Moves(p) PROVE LinkTypeInv'
  <2>1. proc' \in [Procs -> Aims]
    BY <1>4, Checks, SecretLoads, Tors, Dials, Forms, Autos, TorStarts, TorStops, Supervises
    DEF Moves, OnOrOff, On, Off, To
  <2>2. /\ tor' \in {"stopped", "bootstrapping", "ready", "error"} /\ torClient' \in BOOLEAN
        /\ file' \in AnyNode /\ torn' \in BOOLEAN /\ secret' \in AnyNode
        /\ blame' \subseteq {"cut", "overlap", "mixed"}
    BY <1>4, Checks, SecretLoads, Tors, Dials, Forms, Autos, TorStarts, TorStops, Supervises
    DEF Moves, LinkTypeInv, Aims, torVars, diskVars, Elsewhere, Blame
  <2>3. link' \in {0} \cup Slots /\ snap' \in {0} \cup Slots /\ conns' \in [Slots -> Conns]
    <3>1. CASE Supervise
      <4>1. link' \in {0, link} /\ snap' \in {0, link, snap}
            /\ (conns' = conns \/ conns' = Held(link, 0, conns) \/ conns' = Held(0, 0, conns))
        BY <3>1, Supervises DEF clientVars
      <4> QED
        BY <1>3, <4>1 DEF LinkTypeInv
    <3>2. CASE ~Supervise
      <4>1. UNCHANGED clientVars
        BY <1>4, <3>2, Checks, SecretLoads, Tors, Dials, Forms, Autos, TorStarts, TorStops DEF Moves, Elsewhere
      <4> QED
        BY <4>1 DEF LinkTypeInv, clientVars
    <3> QED
      BY <3>1, <3>2
  <2>4. UNCHANGED <<outdated, vault, calling, clearing>>
    BY <1>4, Checks, SecretLoads, Tors, Dials, Forms, Autos, TorStarts, TorStops, Supervises DEF Moves, Elsewhere
  <2> QED
    BY <1>2, <2>1, <2>2, <2>3, <2>4 DEF LinkTypeInv
<1>5. ASSUME NEW p \in Procs, Install(p) PROVE LinkTypeInv'
  <2>1. /\ link' \in Slots /\ proc' \in [Procs -> Aims] /\ conns' \in [Slots -> Conns]
        /\ UNCHANGED <<torVars, snap, diskVars, outdated, vault, calling, clearing, blame>>
    BY <1>5, Installs
  <2> QED
    BY <1>2, <2>1 DEF LinkTypeInv, torVars, diskVars
<1>6. CASE OpenWallet \/ Reset \/ ResetFails
  <2>1. /\ proc' \in [Procs -> Aims] /\ snap' = 0 /\ link' = link /\ conns' = Held(link, 0, conns)
        /\ blame' \subseteq {"cut", "overlap", "mixed"} /\ secret' \in AnyNode /\ file' = file /\ torn' = torn
        /\ UNCHANGED <<torVars, calling>>
        /\ vault' \in {"none", "open"} /\ outdated' \in BOOLEAN /\ clearing' \in BOOLEAN
    BY <1>6, OpenResets DEF LinkTypeInv, AnyNode
  <2> QED
    BY <1>2, <1>3, <2>1 DEF LinkTypeInv, torVars
<1>7. CASE Clear
  BY <1>2, <1>3, <1>7 DEF Clear, LinkTypeInv, torVars, Blame, AnyNode
<1>8. CASE Restart
  <2>1. proc' \in [Procs -> Aims] /\ torn' \in BOOLEAN /\ UNCHANGED <<file, secret>>
        /\ blame' \subseteq {"cut", "overlap", "mixed"}
    BY <1>8, Restarts DEF LinkTypeInv
  <2> QED
    BY <1>2, <1>3, <1>8, <2>1 DEF Restart, LinkTypeInv
<1>9. CASE Outside
  <2>1. /\ UNCHANGED <<proc, snap, torVars, diskVars, blame>> /\ link' \in {0, link}
        /\ conns' \in [Slots -> Conns]
    BY <1>9, OutsideStays
  <2>2. outdated' \in BOOLEAN /\ vault' = vault /\ calling' \in BOOLEAN /\ clearing' = clearing
    BY <1>9 DEF Outside, Call, CallEnds, Disconnect, ChangePassword, ConnectionDrops, Burst, Refill,
       Quiet, LinkTypeInv
  <2> QED
    BY <1>2, <2>1, <2>2 DEF LinkTypeInv, torVars, diskVars
<1> QED
  BY <1>1, <1>4, <1>5, <1>6, <1>7, <1>8, <1>9, LinkCases

----------------------------------------------------------------------------
(* NodeLink: who is on the way to a connection, and who holds one *)

LEMMA ProcStep ==
  ASSUME LinkTypeInv, ProcInv, [LinkNext]_linkVars
  PROVE  ProcInv'
<1> /\ "form" \in Procs /\ "auto" \in Procs /\ "supervisor" \in Procs /\ "supervisor" \in Tasks
    /\ NoNode \notin Nodes /\ proc \in [Procs -> Aims] /\ 0 \notin Slots
    /\ Bare \subseteq Procs /\ "start" \in Bare /\ "stop" \in Bare
  BY LinkAssumption, AppAssumption DEF Procs, Tasks, LinkTypeInv, Slots, Bare
<1>1. CASE UNCHANGED linkVars
  BY <1>1 DEF ProcInv, linkVars, clientVars
<1>2. ASSUME NEW p \in Procs, Moves(p) PROVE ProcInv'
  <2>1. /\ \A q \in Procs : q # p => proc'[q] = proc[q]
        /\ p \notin Bare => (proc'[p].pc \in Unaimed <=> proc'[p].node = NoNode)
        /\ p \in Bare => proc'[p].node = NoNode
        /\ p = "start" => proc'[p].pc \in {"idle", "tor", "boot", "booted", "unbooted"}
        /\ p = "stop" => proc'[p].pc \in {"idle", "stopping"}
    <3>1. CASE Check(p) \/ (p = "auto" /\ CheckDefault) \/ LoadSecret(p)
      BY <3>1, Checks, SecretLoads DEF ProcInv, Unaimed, Bare, Off, To
    <3>2. CASE StartTor(p) \/ SetUpFails(p) \/ Bootstrapped(p) \/ BootFails(p) \/ StoreClient(p)
      <4>1. p # "stop" /\ proc[p].pc \in {"tor", "boot", "booted", "unbooted"}
        BY <3>2, Tors DEF ProcInv
      <4>2. \/ Off(p) \/ (p # "start" /\ On(p, "dial"))
            \/ \E pc \in {"boot", "booted", "unbooted"} : On(p, pc)
        BY <3>2, Tors DEF OnOrOff
      <4>3. proc[p].node = NoNode <=> p \in Bare
        BY <4>1 DEF ProcInv, Unaimed, Bare
      <4> QED
        BY <4>1, <4>2, <4>3 DEF Unaimed, Bare, On, Off, To
    <3>3. CASE Dialled(p) \/ DialFails(p)
      BY <3>3, Dials DEF ProcInv, Unaimed, Bare, On, Off, To
    <3>4. CASE p = "form" /\ (SaveNode \/ \E n \in Nodes : Form(n))
      BY <3>4, Forms DEF ProcInv, Unaimed, Bare, On, Off, To
    <3>5. CASE p = "auto" /\ AutoConnect
      BY <3>5, Autos DEF Unaimed, Bare, To
    <3>6. CASE p = "supervisor" /\ Supervise
      BY <3>6, Supervises DEF ProcInv, Unaimed, Bare, On, To
    <3>7. CASE p = "start" /\ TorCommand
      BY <3>7, TorStarts DEF Bare, To
    <3>8. CASE p = "stop" /\ (StopTor \/ StopEnds)
      BY <3>8, TorStops DEF Bare, Off, To
    <3> QED
      BY <1>2, <3>1, <3>2, <3>3, <3>4, <3>5, <3>6, <3>7, <3>8 DEF Moves
  <2>2. CASE Supervise
    BY <1>2, <2>1, <2>2, Supervises DEF ProcInv, On, To, clientVars
  <2>3. CASE ~Supervise
    <3>1. UNCHANGED clientVars
      BY <1>2, <2>3, Checks, SecretLoads, Tors, Dials, Forms, Autos, TorStarts, TorStops DEF Moves, Elsewhere
    <3>2. p = "supervisor" => proc[p].pc \notin {"probe", "drop"} /\ proc'[p].pc \notin {"probe", "drop"}
      <4>1. CASE Check(p) \/ (p = "auto" /\ CheckDefault) \/ LoadSecret(p)
        BY <4>1, Checks, SecretLoads DEF Off, To
      <4>2. CASE StartTor(p) \/ SetUpFails(p) \/ Bootstrapped(p) \/ BootFails(p) \/ StoreClient(p)
        BY <4>2, Tors DEF OnOrOff, On, Off, To
      <4>3. CASE Dialled(p) \/ DialFails(p)
        BY <4>3, Dials DEF On, Off, To
      <4> QED
        BY <1>2, <2>3, <4>1, <4>2, <4>3 DEF Moves
    <3> QED
      BY <2>1, <3>1, <3>2 DEF ProcInv, clientVars
  <2> QED
    BY <2>2, <2>3
<1>3. ASSUME NEW p \in Procs, Install(p) PROVE ProcInv'
  BY <1>3, Installs DEF ProcInv, Unaimed, Bare
<1>4. CASE OpenWallet \/ Reset \/ ResetFails
  <2>1. \A p \in Procs \ Bare : proc'[p].pc \in Unaimed <=> proc'[p].node = NoNode
    BY <1>4, OpenResets DEF ProcInv, Unaimed, Procs, Tasks, Bare
  <2>2. snap' = 0 /\ proc'["supervisor"].pc # "probe"
    BY <1>4, OpenResets
  <2>3. \A p \in Bare : proc'[p] = proc[p]
    BY <1>4, OpenResets DEF Bare, Tasks
  <2> QED
    BY <2>1, <2>2, <2>3 DEF ProcInv
<1>5. CASE Clear
  BY <1>5 DEF Clear, ProcInv
<1>6. CASE Restart
  BY <1>6, Restarts, IdleIs DEF ProcInv, Unaimed, Bare
<1>7. CASE Outside
  BY <1>7 DEF ProcInv, Outside, Call, CallEnds, Disconnect, ChangePassword, ConnectionDrops, Burst, Refill,
     clientVars
<1> QED
  BY <1>1, <1>2, <1>3, <1>4, <1>5, <1>6, <1>7, LinkCases

\* Of the connections, only an installation makes a new one.
LEMMA ConnsStay ==
  ASSUME LinkTypeInv, ProcInv, HeldInv, LinkNext
  PROVE  /\ HeldInv'
         /\ \/ /\ \A i \in Slots : conns'[i] = NoConn \/ (conns'[i].node = conns[i].node
                                                          /\ conns'[i].mac = conns[i].mac)
               /\ link' \in {0, link}
            \/ \E p \in Procs : Install(p)
<1> link \in {0} \cup Slots /\ snap \in {0} \cup Slots /\ 0 \notin Slots
  BY DEF LinkTypeInv, Slots
<1>a. ASSUME NEW l, NEW s, conns' = Held(l, s, conns), link' = l, snap' = s
      PROVE  HeldInv' /\ \A i \in Slots : conns'[i] \in {NoConn, conns[i]}
  BY <1>a DEF Held, HeldInv
<1>1. ASSUME NEW p \in Procs, Moves(p)
      PROVE  HeldInv' /\ (\A i \in Slots : conns'[i] \in {NoConn, conns[i]}) /\ link' \in {0, link}
  <2>1. CASE Supervise
    <3>1. CASE snap' = link /\ UNCHANGED <<link, conns>> /\ proc["supervisor"].pc = "sleep"
      BY <3>1 DEF HeldInv, ProcInv
    <3>2. CASE UNCHANGED clientVars
      BY <3>2 DEF HeldInv, clientVars
    <3>3. CASE UNCHANGED link /\ snap' = 0 /\ conns' = Held(link, 0, conns)
      BY <3>3, <1>a
    <3>4. CASE link' = 0 /\ snap' = 0 /\ conns' = Held(0, 0, conns)
      BY <3>4, <1>a
    <3> QED
      BY <2>1, <3>1, <3>2, <3>3, <3>4, Supervises
  <2>2. CASE ~Supervise
    <3>1. UNCHANGED clientVars
      BY <1>1, <2>2, Checks, SecretLoads, Tors, Dials, Forms, Autos, TorStarts, TorStops DEF Moves, Elsewhere
    <3> QED
      BY <3>1 DEF HeldInv, clientVars
  <2> QED
    BY <2>1, <2>2
<1>2. ASSUME NEW p \in Procs, Install(p) PROVE HeldInv'
  BY <1>2, Installs DEF HeldInv
<1>3. CASE OpenWallet \/ Reset \/ ResetFails
  BY <1>3, <1>a, OpenResets
<1>4. CASE Clear
  BY <1>4, <1>a DEF Clear
<1>5. CASE Restart
  BY <1>5, <1>a, Restarts
<1>6. CASE Outside
  <2>1. HeldInv'
    BY <1>6, OutsideStays DEF HeldInv
  <2>2. link' \in {0, link}
    BY <1>6, OutsideStays
  <2>3. \A i \in Slots : conns'[i] = NoConn \/ (conns'[i].node = conns[i].node
                                                          /\ conns'[i].mac = conns[i].mac)
    BY <1>6, OutsideStays
  <2> QED
    BY <2>1, <2>2, <2>3
<1> QED
  BY <1>1, <1>2, <1>3, <1>4, <1>5, <1>6, LinkCases

LEMMA Alone ==
  ASSUME LinkTypeInv, NEW p \in Procs, Moves(p)
  PROVE  \A q \in Procs : q # p => proc'[q] = proc[q]
<1>1. CASE Check(p) \/ (p = "auto" /\ CheckDefault) \/ LoadSecret(p)
  BY <1>1, Checks, SecretLoads DEF Off, To
<1>2. CASE StartTor(p) \/ SetUpFails(p) \/ Bootstrapped(p) \/ BootFails(p) \/ StoreClient(p)
  BY <1>2, Tors DEF OnOrOff, On, Off, To
<1>3. CASE Dialled(p) \/ DialFails(p)
  BY <1>3, Dials DEF On, Off, To
<1>4. CASE p = "form" /\ (SaveNode \/ \E n \in Nodes : Form(n))
  BY <1>4, Forms DEF On, Off, To
<1>5. CASE p = "auto" /\ AutoConnect
  BY <1>5, Autos DEF To
<1>6. CASE p = "supervisor" /\ Supervise
  BY <1>6, Supervises DEF On, To
<1>7. CASE p = "start" /\ TorCommand
  BY <1>7, TorStarts DEF To
<1>8. CASE p = "stop" /\ (StopTor \/ StopEnds)
  BY <1>8, TorStops DEF Off, To
<1> QED
  BY <1>1, <1>2, <1>3, <1>4, <1>5, <1>6, <1>7, <1>8 DEF Moves

\* Who has aimed at a node when there was no connection is overtaken by the next one.
LEMMA RaceStep ==
  ASSUME LinkTypeInv, ProcInv, HeldInv, RaceInv, [LinkNext]_linkVars
  PROVE  RaceInv'
<1> /\ "form" \in Procs /\ Tasks \subseteq Procs /\ 0 \notin Slots
  BY DEF Procs, Tasks, Slots
<1>1. CASE UNCHANGED linkVars
  BY <1>1 DEF RaceInv, linkVars, clientVars
<1>2. ASSUME NEW p \in Procs, Moves(p) PROVE RaceInv'
  <2>1. link' \in {0, link}
    BY <1>2, Checks, SecretLoads, Tors, Dials, Forms, Autos, TorStarts, TorStops, Supervises DEF Moves, clientVars, Elsewhere
  <2> SUFFICES ASSUME link' # 0, NEW q \in Procs, q # "form", proc'[q].node # NoNode
               PROVE  proc'[q].stale
    BY DEF RaceInv
  <2>2. link # 0 /\ link' = link
    BY <2>1
  <2>3. CASE q # p
    <3>1. proc'[q] = proc[q]
      BY <1>2, <2>3, Alone
    <3> QED
      BY <2>2, <3>1 DEF RaceInv
  <2>4. CASE q = p
    <3>1. proc'[p].node = NoNode \/ (proc'[p].node = proc[p].node /\ proc'[p].stale = proc[p].stale)
      <4>1. CASE StartTor(p) \/ SetUpFails(p) \/ Bootstrapped(p) \/ BootFails(p) \/ StoreClient(p)
        BY <4>1, Tors DEF OnOrOff, On, Off, To
      <4>2. CASE Check(p) \/ (p = "auto" /\ CheckDefault)
        BY <2>2, <4>2, Checks DEF Off, To
      <4>3. CASE TorCommand \/ StopTor \/ StopEnds
        BY <1>2, <2>2, <2>4, <4>3, Alone, TorStarts, TorStops DEF Moves, Off, To
      <4> QED
        BY <1>2, <2>4, <4>1, <4>2, <4>3, SecretLoads, Dials, Autos, Supervises DEF Moves, On, Off, To
    <3> QED
      BY <2>2, <2>4, <3>1 DEF RaceInv
  <2> QED
    BY <2>3, <2>4
<1>3. ASSUME NEW p \in Procs, Install(p) PROVE RaceInv'
  BY <1>3, Installs DEF RaceInv
<1>4. CASE OpenWallet \/ Reset \/ ResetFails
  <2> SUFFICES ASSUME link # 0, NEW p \in Procs, p # "form", proc'[p].node # NoNode
               PROVE  proc'[p].stale
    BY <1>4, OpenResets DEF RaceInv
  <2>1. \E q \in Procs : q # "form" /\ proc'[p] = proc[q]
    <3>1. p \notin Tasks
      BY <1>4, OpenResets
    <3>2. "form" \notin Tasks
      BY DEF Tasks
    <3> QED
      BY <1>4, <3>1, <3>2, OpenResets
  <2> QED
    BY <2>1 DEF RaceInv
<1>5. CASE Clear
  BY <1>5 DEF Clear, RaceInv
<1>6. CASE Restart
  BY <1>6, Restarts DEF RaceInv
<1>7. CASE Outside
  BY <1>7, OutsideStays DEF RaceInv
<1> QED
  BY <1>1, <1>2, <1>3, <1>4, <1>5, <1>6, <1>7, LinkCases

----------------------------------------------------------------------------
(* NodeLink: the macaroon of a connection *)

\* A task that finds a file while no form is between the file and the vault finds
\* the macaroon of its node there, or none, and so it stays.
LEMMA MacStep ==
  ASSUME LinkTypeInv, ProcInv, HeldInv, MacInv, [LinkNext]_linkVars
  PROVE  MacInv'
<1> /\ "form" \in Procs /\ "form" \notin Tasks /\ Tasks \subseteq Procs /\ proc \in [Procs -> Aims]
    /\ NoConn.mac = NoConn.node
  BY DEF Procs, Tasks, LinkTypeInv, NoConn
<1>1. CASE UNCHANGED linkVars
  BY <1>1 DEF MacInv, linkVars, clientVars, diskVars
<1> DEFINE Fit(s) == conns[s].mac = conns[s].node
           Sound(p) == /\ proc[p].pc \in Fitted => proc[p].mac = proc[p].node
                       /\ proc[p].pc = "load" =>
                            proc["form"].pc # "store" /\ secret \in {NoNode, proc[p].node}
           Stored == IF proc["form"].pc = "store" THEN file \in {NoNode, proc["form"].node}
                     ELSE file = NoNode \/ secret \in {NoNode, file}
<1>2. MacInv <=> ("mixed" \notin blame => (\A s \in Slots : Fit(s)) /\ (\A p \in Procs : Sound(p)) /\ Stored)
  BY DEF MacInv
<1>3. ASSUME NEW p \in Procs, Moves(p), "mixed" \notin blame' PROVE MacInv'
  <2>1. \A q \in Procs : q # p => proc'[q] = proc[q]
    BY <1>3, Alone
  <2>2. "mixed" \notin blame
    BY <1>3, Checks, SecretLoads, Tors, Dials, Forms, Autos, TorStarts, TorStops, Supervises DEF Moves, Blame, Elsewhere
  <2>3. (\A s \in Slots : Fit(s)) /\ (\A q \in Procs : Sound(q)) /\ Stored
    BY <1>2, <2>2
  <2>4. \A s \in Slots : Fit(s)'
    <3>1. CASE Supervise
      BY <2>3, <3>1, Supervises DEF Held, clientVars
    <3>2. CASE ~Supervise
      <4>1. UNCHANGED clientVars
        BY <1>3, <3>2, Checks, SecretLoads, Tors, Dials, Forms, Autos, TorStarts, TorStops DEF Moves, Elsewhere
      <4> QED
        BY <2>3, <4>1 DEF clientVars
    <3> QED
      BY <3>1, <3>2
  \* A step that neither reads nor writes the file or the vault.
  <2>5. ASSUME UNCHANGED <<file, secret>>, proc'[p].pc # "load",
               proc'[p].pc \in Fitted => proc'[p].mac = proc'[p].node,
               p = "form" => proc[p].pc # "store" /\ proc'[p].pc # "store"
        PROVE  (\A q \in Procs : Sound(q)') /\ Stored'
    <3>1. (proc'["form"].pc = "store" <=> proc["form"].pc = "store")
          /\ (proc["form"].pc = "store" => proc'["form"] = proc["form"])
      BY <2>1, <2>5
    <3> QED
      BY <2>1, <2>3, <2>5, <3>1
  <2>6. (\A q \in Procs : Sound(q)') /\ Stored'
    <3>1. CASE Check(p) \/ (p = "auto" /\ CheckDefault)
      <4>1. CASE To(p, "load", file, NoNode) /\ file # NoNode /\ Blame("mixed", proc["form"].pc = "store")
        <5>1. proc["form"].pc # "store" /\ secret \in {NoNode, file} /\ UNCHANGED <<file, secret>>
          BY <1>3, <2>3, <3>1, <4>1, Checks DEF Blame, diskVars
        <5>2. proc'["form"].pc # "store"
          BY <2>1, <4>1, <5>1 DEF To
        <5>3. Sound(p)'
          BY <4>1, <5>1, <5>2 DEF To, Fitted
        <5>4. \A q \in Procs : q # p => Sound(q)'
          BY <2>1, <2>3, <5>1, <5>2
        <5> QED
          BY <2>3, <5>1, <5>2, <5>3, <5>4
      <4>2. CASE Off(p) \/ To(p, "tor", Default, Default)
        BY <2>5, <3>1, <4>2, Checks DEF Off, To, Fitted, diskVars
      <4> QED
        BY <3>1, <4>1, <4>2, Checks
    <3>2. CASE LoadSecret(p)
      <4>1. proc[p].pc = "load" /\ UNCHANGED <<file, secret>>
            /\ (Off(p) \/ (secret # NoNode /\ To(p, "tor", proc[p].node, secret)))
        BY <3>2, SecretLoads DEF diskVars
      <4>2. secret \in {NoNode, proc[p].node}
        BY <2>3, <4>1
      <4> QED
        BY <2>5, <4>1, <4>2 DEF Off, To, Fitted
    <3>3. CASE StartTor(p) \/ SetUpFails(p) \/ Bootstrapped(p) \/ BootFails(p) \/ StoreClient(p)
      <4>1. proc[p].pc \in Fitted \ {"store"} /\ UNCHANGED <<file, secret>>
            /\ (Off(p) \/ \E pc \in {"dial", "boot", "booted", "unbooted"} : On(p, pc))
        BY <3>3, Tors DEF Fitted, Elsewhere, diskVars, OnOrOff
      <4>2. proc[p].mac = proc[p].node
        BY <2>3, <4>1
      <4> QED
        BY <2>5, <4>1, <4>2 DEF Off, On, To, Fitted
    <3>4. CASE Dialled(p) \/ DialFails(p)
      <4>1. proc[p].pc = "dial" /\ UNCHANGED <<file, secret>>
            /\ (Off(p) \/ \E pc \in {"save", "install"} : On(p, pc))
        BY <3>4, Dials DEF Elsewhere, diskVars
      <4>2. proc[p].mac = proc[p].node
        BY <2>3, <4>1 DEF Fitted
      <4> QED
        BY <2>5, <4>1, <4>2 DEF Off, On, To, Fitted
    <3>5. CASE p = "form" /\ (SaveNode \/ \E n \in Nodes : Form(n))
      <4>1. CASE /\ proc["form"].pc = "save" /\ file' = proc["form"].node /\ On("form", "store")
                 /\ Blame("mixed", \E q \in Procs : proc[q].pc = "load") /\ UNCHANGED secret
        <5>1. \A q \in Procs : proc[q].pc # "load"
          BY <1>3, <4>1 DEF Blame
        <5>2. proc'[p].pc = "store" /\ proc'[p].node = proc[p].node /\ proc'[p].mac = proc[p].mac
          BY <3>5, <4>1 DEF On, To
        <5>3. proc[p].mac = proc[p].node
          BY <2>3, <3>5, <4>1 DEF Fitted
        <5> QED
          BY <2>1, <2>3, <3>5, <4>1, <5>1, <5>2, <5>3
      <4>2. CASE /\ proc["form"].pc = "store" /\ secret' = proc["form"].mac
                 /\ On("form", "install") /\ UNCHANGED file
        <5>1. \A q \in Procs : proc[q].pc # "load"
          BY <2>3, <4>2
        <5>2. proc'[p].pc = "install" /\ proc'[p].node = proc[p].node /\ proc'[p].mac = proc[p].mac
          BY <3>5, <4>2 DEF On, To
        <5>3. proc[p].mac = proc[p].node /\ file \in {NoNode, proc[p].node}
          BY <2>3, <3>5, <4>2 DEF Fitted
        <5> QED
          BY <2>1, <2>3, <3>5, <4>2, <5>1, <5>2, <5>3
      <4>3. CASE /\ proc["form"].pc = "idle" /\ (\E n \in Nodes : To("form", "tor", n, n))
                 /\ UNCHANGED <<file, secret>>
        BY <2>5, <3>5, <4>3 DEF To
      <4>4. CASE proc["form"].pc = "save" /\ Off("form") /\ UNCHANGED <<file, secret>>
        BY <2>5, <3>5, <4>4 DEF Off, To, Fitted
      <4> QED
        BY <1>3, <3>5, <4>1, <4>2, <4>3, <4>4, Forms
    <3>6. CASE p = "auto" /\ AutoConnect
      BY <2>5, <3>6, Autos DEF To, Fitted, diskVars
    <3>7. CASE p = "supervisor" /\ Supervise
      <4>1. /\ UNCHANGED <<file, secret>>
            /\ \E pc \in {"sleep", "check", "drop", "probe"} : On(p, pc)
        BY <3>7, Supervises DEF diskVars
      <4> QED
        BY <2>5, <3>7, <4>1 DEF On, To, Fitted
    <3>8. CASE p = "start" /\ TorCommand
      BY <2>5, <3>8, TorStarts DEF To, Fitted, diskVars
    <3>9. CASE p = "stop" /\ (StopTor \/ StopEnds)
      BY <2>5, <3>9, TorStops DEF Off, To, Fitted, Elsewhere, diskVars
    <3> QED
      BY <1>3, <3>1, <3>2, <3>3, <3>4, <3>5, <3>6, <3>7, <3>8, <3>9 DEF Moves
  <2> QED
    BY <2>4, <2>6 DEF MacInv
<1>4. ASSUME NEW p \in Procs, Install(p) PROVE MacInv'
  <2>1. "mixed" \notin blame' => (\A s \in Slots : Fit(s)) /\ (\A q \in Procs : Sound(q)) /\ Stored
    BY <1>2, <1>4, Installs
  <2>2. \A q \in Procs : proc'[q].pc = proc[q].pc \/ proc'[q].pc \in {"sleep", "idle"}
    BY <1>4, Installs
  <2>3. \A q \in Procs : q # p => proc'[q].node = proc[q].node /\ proc'[q].mac = proc[q].mac
    BY <1>4, Installs
  <2>4. /\ file' = file /\ secret' = secret /\ proc[p].pc = "install"
        /\ proc'[p].pc \in {"sleep", "idle"}
    BY <1>4, Installs DEF diskVars
  <2>5. proc'["form"].pc = "store" <=> proc["form"].pc = "store"
    BY <1>4, <2>4, Installs
  <2>6. "mixed" \notin blame' => (\A q \in Procs : Sound(q)') /\ Stored'
    <3> SUFFICES ASSUME "mixed" \notin blame' PROVE (\A q \in Procs : Sound(q)') /\ Stored'
      OBVIOUS
    <3>1. \A q \in Procs : Sound(q)'
      BY <2>1, <2>2, <2>3, <2>4, <2>5 DEF Fitted
    <3>2. ASSUME p = "form" PROVE Stored'
      <4>1. proc["form"].pc = "install" /\ proc'["form"].pc # "store"
        BY <2>4, <3>2
      <4>2. file = NoNode \/ secret \in {NoNode, file}
        BY <2>1, <4>1
      <4>3. file' = NoNode \/ secret' \in {NoNode, file'}
        BY <2>4, <4>2
      <4> QED
        BY <4>1, <4>3
    <3>3. ASSUME p # "form" PROVE Stored'
      <4>1. proc'["form"].node = proc["form"].node
        BY <2>3, <3>3
      <4>2. CASE proc["form"].pc = "store"
        <5>1. file \in {NoNode, proc["form"].node}
          BY <2>1, <4>2
        <5>2. proc'["form"].pc = "store" /\ file' \in {NoNode, proc'["form"].node}
          BY <2>4, <2>5, <4>1, <4>2, <5>1
        <5> QED
          BY <5>2
      <4>3. CASE proc["form"].pc # "store"
        <5>1. file = NoNode \/ secret \in {NoNode, file}
          BY <2>1, <4>3
        <5>2. proc'["form"].pc # "store" /\ (file' = NoNode \/ secret' \in {NoNode, file'})
          BY <2>4, <2>5, <4>3, <5>1
        <5> QED
          BY <5>2
      <4> QED
        BY <4>2, <4>3
    <3>4. Stored'
      BY <3>2, <3>3
    <3> QED
      BY <3>1, <3>4
  <2>7. "mixed" \notin blame' => \A s \in Slots : Fit(s)'
    <3>1. "mixed" \notin blame' => proc[p].mac = proc[p].node
      BY <2>1, <2>4 DEF Fitted
    <3> QED
      BY <1>4, <2>1, <3>1, Installs
  <2> QED
    BY <2>6, <2>7 DEF MacInv
<1>5. CASE OpenWallet \/ Reset \/ ResetFails
  <2>1. "mixed" \notin blame' => (\A s \in Slots : Fit(s)) /\ (\A q \in Procs : Sound(q)) /\ Stored
    BY <1>2, <1>5, OpenResets
  <2>2. \A s \in Slots : conns'[s] \in {conns[s], NoConn}
    BY <1>5, OpenResets DEF Held
  <2>3. \A p \in Tasks : proc'[p].pc \in {"idle", "sleep", "check"}
    BY <1>5, OpenResets
  <2>4. \A p \in Procs \ Tasks : \/ proc'[p] = proc[p]
                                 \/ p = "last" /\ \E t \in Tasks : proc[t].pc = "install" /\ proc'[p] = proc[t]
    BY <1>5, OpenResets
  <2>5. proc'["form"] = proc["form"] /\ file' = file /\ secret' \in {secret, NoNode}
    BY <1>5, OpenResets
  <2>6. "mixed" \notin blame' => \A p \in Procs : Sound(p)'
    BY <2>1, <2>3, <2>4, <2>5 DEF Fitted
  <2> QED
    BY <2>1, <2>2, <2>5, <2>6 DEF MacInv
<1>6. CASE Clear
  <2>1. /\ UNCHANGED <<proc, secret, blame>> /\ file' \in {NoNode, file}
        /\ \A s \in Slots : conns'[s] \in {conns[s], NoConn}
    BY <1>6 DEF Clear, Held
  <2> QED
    BY <2>1 DEF MacInv
<1>7. CASE Restart
  <2>1. \A s \in Slots : conns'[s] = NoConn
    BY <1>7, Restarts DEF Held, Slots
  <2>2. \A p \in Procs : proc'[p].pc = "idle"
    BY <1>7, Restarts, IdleIs
  <2>3. "mixed" \notin blame' => proc["form"].pc # "store" /\ "mixed" \notin blame
    BY <1>7, Restarts
  <2>4. file' = file /\ secret' = secret
    BY <1>7, Restarts
  <2> QED
    BY <2>1, <2>2, <2>3, <2>4 DEF MacInv, Fitted
<1>8. CASE Outside
  <2>1. /\ UNCHANGED <<proc, file, secret, blame>>
        /\ \A s \in Slots : conns'[s] = NoConn \/ (conns'[s].node = conns[s].node
                                                   /\ conns'[s].mac = conns[s].mac)
    BY <1>8, OutsideStays DEF diskVars
  <2> QED
    BY <2>1 DEF MacInv
<1>9. ASSUME NEW p \in Procs, Moves(p), "mixed" \in blame' PROVE MacInv'
  BY <1>9 DEF MacInv
<1> QED
  BY <1>1, <1>3, <1>4, <1>5, <1>6, <1>7, <1>8, <1>9, LinkCases

----------------------------------------------------------------------------
(* NodeLink: the state of Tor *)

\* The steps that leave Tor as it is and move nobody into, out of or on in a bootstrap.
LEMMA TorStays ==
  ASSUME TorInv, torVars' = torVars, blame \subseteq blame', proc'["stop"].pc = proc["stop"].pc,
         \A p \in Procs : \/ proc'[p].pc = proc[p].pc
                          \/ proc[p].pc \notin {"boot", "booted"} /\ proc'[p].pc \notin {"boot", "booted"}
  PROVE  TorInv'
<1> tor' = tor /\ torClient' = torClient
  BY DEF torVars
<1> \A p \in Procs : /\ proc'[p].pc = "boot" <=> proc[p].pc = "boot"
                     /\ proc'[p].pc = "booted" <=> proc[p].pc = "booted"
  OBVIOUS
<1> QED
  BY DEF TorInv

LEMMA TorStep ==
  ASSUME LinkTypeInv, ProcInv, TorInv, [LinkNext]_linkVars
  PROVE  TorInv'
<1> DEFINE Way == {"boot", "booted"}
           Tor(p) == StartTor(p) \/ SetUpFails(p) \/ Bootstrapped(p) \/ BootFails(p) \/ StoreClient(p)
<1> proc \in [Procs -> Aims] /\ Tasks \subseteq Procs /\ "form" \in Procs /\ "auto" \in Procs
    /\ "supervisor" \in Procs /\ "start" \in Procs /\ "stop" \in Procs
  BY DEF Procs, Tasks, LinkTypeInv
<1>1. CASE UNCHANGED linkVars
  BY <1>1, TorStays DEF linkVars
<1>2. ASSUME NEW p \in Procs, Tor(p)
      PROVE  TorInv'
  <2>0. p # "stop"
    BY <1>2, Tors DEF ProcInv
  <2>1. \A q \in Procs : q # p => proc'[q] = proc[q]
    BY <1>2, Alone DEF Moves
  <2>2. CASE proc[p].pc = "tor" /\ OnOrOff(p, "dial") /\ UNCHANGED <<torVars, blame>>
    <3>1. proc'[p].pc \notin Way
      BY <2>2 DEF OnOrOff, On, Off, To
    <3> QED
      BY <2>0, <2>1, <2>2, <3>1, TorStays
  <2>3. CASE proc[p].pc = "tor" /\ Down /\ On(p, "boot") /\ tor' = "bootstrapping" /\ UNCHANGED <<torClient, blame>>
    <3>1. proc'[p].pc = "boot"
      BY <2>3 DEF On, To
    <3> QED
      BY <2>3, <3>1 DEF TorInv
  <2>4. CASE tor' = "bootstrapping" /\ blame' = blame \cup {"cut"}
    BY <2>4 DEF TorInv
  <2>5. CASE proc[p].pc = "boot" /\ tor' = "ready" /\ On(p, "booted") /\ UNCHANGED <<torClient, blame>>
    <3>1. proc'[p].pc = "booted"
      BY <2>5 DEF On, To
    <3> QED
      BY <2>5, <3>1 DEF TorInv
  <2>6. CASE proc[p].pc = "boot" /\ tor' = "error" /\ On(p, "unbooted") /\ UNCHANGED <<torClient, blame>>
    BY <2>6 DEF TorInv
  <2>7. CASE proc[p].pc = "booted" /\ torClient' = TRUE /\ OnOrOff(p, "dial") /\ UNCHANGED <<tor, blame>>
    <3>1. \A q \in Procs : proc[q].pc = "boot" => proc'[q].pc = "boot"
      BY <2>1, <2>7
    <3> QED
      BY <2>7, <3>1 DEF TorInv
  <2>8. CASE /\ proc[p].pc = "unbooted" /\ torClient' = FALSE /\ Off(p) /\ UNCHANGED tor
             /\ Blame("overlap", tor = "ready" /\ torClient)
    <3>1. /\ \A q \in Procs : proc[q].pc \in Way => proc'[q].pc = proc[q].pc
          /\ proc'["stop"].pc = proc["stop"].pc
          /\ blame \subseteq blame' /\ (tor = "ready" /\ torClient => "overlap" \in blame')
      BY <2>0, <2>1, <2>8 DEF Blame
    <3> QED
      BY <2>8, <3>1 DEF TorInv
  <2> QED
    BY <1>2, <2>2, <2>3, <2>4, <2>5, <2>6, <2>7, <2>8, Tors
<1>3. CASE StopTor \/ StopEnds
  <2>1. \A q \in Procs : q # "stop" => proc'[q] = proc[q]
    BY <1>3, Alone DEF Moves
  <2>2. CASE proc["stop"].pc = "idle" /\ To("stop", "stopping", NoNode, NoNode) /\ UNCHANGED <<tor, blame>>
    <3>1. proc'["stop"].pc = "stopping" /\ \A q \in Procs : proc[q].pc = "boot" => proc'[q].pc = "boot"
      BY <2>1, <2>2 DEF To
    <3> QED
      BY <2>2, <3>1 DEF TorInv
  <2>3. CASE tor' = "stopped"
    BY <2>3 DEF TorInv
  <2> QED
    BY <1>3, <2>2, <2>3, TorStops
<1>4. ASSUME NEW p \in Procs, Moves(p), ~Tor(p), ~(StopTor \/ StopEnds)
      PROVE  TorInv'
  <2>1. \A q \in Procs : q # p => proc'[q] = proc[q]
    BY <1>4, Alone
  <2>0. p # "stop"
    BY <1>4, Checks, SecretLoads, Dials DEF Moves, ProcInv, Bare
  <2>2. torVars' = torVars /\ blame \subseteq blame'
    BY <1>4, Checks, SecretLoads, Dials, Forms, Autos, TorStarts, Supervises DEF Moves, Blame
  <2>3. proc[p].pc \notin Way /\ proc'[p].pc \notin Way
    <3>1. CASE Check(p) \/ (p = "auto" /\ CheckDefault) \/ LoadSecret(p)
      BY <3>1, Checks, SecretLoads DEF Off, To
    <3>2. CASE Dialled(p) \/ DialFails(p)
      BY <3>2, Dials DEF On, Off, To
    <3>3. CASE p = "form" /\ (SaveNode \/ \E n \in Nodes : Form(n))
      BY <3>3, Forms DEF On, Off, To
    <3>4. CASE p = "auto" /\ AutoConnect
      BY <3>4, Autos DEF To
    <3>5. CASE p = "supervisor" /\ Supervise
      BY <3>5, Supervises DEF On, To
    <3>6. CASE p = "start" /\ TorCommand
      BY <3>6, TorStarts DEF To
    <3> QED
      BY <1>4, <3>1, <3>2, <3>3, <3>4, <3>5, <3>6 DEF Moves
  <2> QED
    BY <2>0, <2>1, <2>2, <2>3, TorStays
<1>5. ASSUME NEW p \in Procs, Install(p) PROVE TorInv'
  <2>1. \A q \in Procs : \/ proc'[q].pc = proc[q].pc
                         \/ proc[q].pc \notin Way /\ proc'[q].pc \notin Way
    BY <1>5, Installs
  <2>2. p # "stop" /\ torVars' = torVars /\ blame' = blame
    BY <1>5, Installs DEF ProcInv
  <2>3. proc'["stop"].pc = proc["stop"].pc
    BY <1>5, <2>2, Installs
  <2> QED
    BY <2>1, <2>2, <2>3, TorStays
<1>6. CASE OpenWallet \/ Reset \/ ResetFails
  <2>1. torVars' = torVars /\ blame \subseteq blame'
    BY <1>6, OpenResets
  <2>2. CASE "cut" \in blame'
    BY <2>2 DEF TorInv
  <2>3. CASE "cut" \notin blame'
    <3>1. proc'["stop"] = proc["stop"]
      BY <1>6, OpenResets DEF Tasks
    <3>2. \A q \in Tasks : proc[q].pc \notin Way /\ proc'[q].pc \notin Way
      BY <1>6, <2>3, OpenResets
    <3>3. \A q \in Procs \ Tasks : \/ proc'[q].pc = proc[q].pc
                                   \/ proc[q].pc \notin Way /\ proc'[q].pc \notin Way
      BY <1>6, OpenResets
    <3> QED
      BY <2>1, <3>1, <3>2, <3>3, TorStays
  <2> QED
    BY <2>2, <2>3
<1>7. CASE Clear
  BY <1>7, TorStays DEF Clear
<1>8. CASE Restart
  BY <1>8, Restarts DEF TorInv
<1>9. CASE Outside
  BY <1>9, TorStays DEF Outside, Call, CallEnds, Disconnect, ChangePassword, ConnectionDrops, Burst, Refill, Quiet
<1> QED
  BY <1>1, <1>2, <1>3, <1>4, <1>5, <1>6, <1>7, <1>8, <1>9, LinkCases DEF Moves

----------------------------------------------------------------------------
(* NodeLink: the theorems *)

LEMMA LinkInductive == LinkSpec => []LinkIInv
<1>1. LinkInit => LinkIInv
  <2> SUFFICES ASSUME LinkInit PROVE LinkIInv
    OBVIOUS
  <2>1. LinkTypeInv
    <3>1. NoConn \in Conns /\ commands \in 0 .. MaxCommands /\ faults \in 0 .. MaxFaults
      BY LinkAssumption, AppAssumption DEF LinkInit, NoConn, Conns, AnyNode
    <3> QED
      BY <3>1, IdleIs DEF LinkInit, LinkTypeInv, AnyNode
  <2>2. \A p \in Procs : proc[p].pc = "idle" /\ proc[p].node = NoNode
    BY IdleIs DEF LinkInit
  <2>3. ProcInv /\ HeldInv /\ RaceInv
    BY <2>2 DEF LinkInit, ProcInv, Unaimed, Bare, HeldInv, RaceInv, Procs, Tasks
  <2>4. MacInv /\ TorInv
    BY <2>2 DEF LinkInit, MacInv, TorInv, Fitted, NoConn, Procs
  <2> QED
    BY <2>1, <2>3, <2>4 DEF LinkIInv
<1>2. LinkIInv /\ [LinkNext]_linkVars => LinkIInv'
  <2> SUFFICES ASSUME LinkIInv, [LinkNext]_linkVars PROVE LinkIInv'
    OBVIOUS
  <2>1. HeldInv'
    <3>1. CASE UNCHANGED linkVars
      BY <3>1 DEF LinkIInv, HeldInv, linkVars, clientVars
    <3> QED
      BY <3>1, ConnsStay DEF LinkIInv
  <2> QED
    BY <2>1, LinkTypeStep, ProcStep, RaceStep, MacStep, TorStep DEF LinkIInv
<1> QED
  BY <1>1, <1>2, PTL DEF LinkSpec

\* Every variable keeps to its type, and no connection is left that neither the
\* slot nor the supervisor holds.
THEOREM LinkTypeCorrect == LinkSpec => []LinkTypeOK
<1>1. LinkTypeInv /\ HeldInv => LinkTypeOK
  <2> SUFFICES ASSUME LinkTypeInv, HeldInv PROVE LinkTypeOK
    OBVIOUS
  <2>1. conns = Held(link, snap, conns)
    BY DEF Held, HeldInv, LinkTypeInv
  <2> QED
    BY <2>1 DEF LinkTypeInv, LinkTypeOK, Aims, Conns
<1> QED
  BY <1>1, LinkInductive, PTL DEF LinkIInv

\* A node is sent the macaroon that belongs to it, but after a form or a restart
\* that wrote the node and not its macaroon, or a task that read in between.
THEOREM MacaroonsFit == LinkSpec => []MacaroonFits
<1>1. LinkIInv => MacaroonFits
  BY DEF LinkIInv, MacInv, MacaroonFits
<1> QED
  BY <1>1, LinkInductive, PTL

\* Tor is left in a state that claims a client, without a client or anyone on the
\* way to one, only since a bootstrap was cut off by an abort or an early return
\* of start(), or undone by one that had failed; stop_tor and a restart end it.
THEOREM TorIsWedgedForCause == LinkSpec => []WedgedForCause
<1>1. LinkIInv => WedgedForCause
  BY DEF LinkIInv, LinkTypeInv, TorInv, WedgedForCause, TorWedged, Down, Procs
<1> QED
  BY <1>1, LinkInductive, PTL

\* A connection is replaced by the user's form only, or by who had looked for
\* one before it was there.
THEOREM OverriddenInRaces == LinkSpec => OverriddenOnlyInARace
<1> DEFINE A == link # 0 /\ link' # 0 /\ (\E p \in Procs : Install(p)) =>
                  \E p \in Procs : proc[p].pc = "install" /\ (p = "form" \/ proc[p].stale)
<1>1. LinkIInv /\ [LinkNext]_linkVars => [A]_linkVars
  <2> SUFFICES ASSUME LinkIInv, link # 0, NEW p \in Procs, Install(p)
               PROVE  proc[p].pc = "install" /\ (p = "form" \/ proc[p].stale)
    OBVIOUS
  <2>1. proc[p].pc = "install"
    BY DEF Install
  <2>2. proc[p].node # NoNode
    BY <2>1 DEF LinkIInv, ProcInv, Unaimed, Bare
  <2> QED
    BY <2>1, <2>2 DEF LinkIInv, RaceInv
<1> QED
  BY <1>1, LinkInductive, PTL DEF LinkSpec, OverriddenOnlyInARace
=============================================================================
