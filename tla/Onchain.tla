------------------------------- MODULE Onchain -------------------------------
(***************************************************************************)
(* The on-chain wallet: bdk's wallet in memory, its SQLite database, and   *)
(* the payments, scans and addresses of onchain/wallet.rs, across unlocks  *)
(* and resets of the session (commands.rs).                                *)
(*                                                                         *)
(* A command takes a reference to the wallet of the moment and the path of *)
(* the database, and keeps both whatever happens to the session.  The lock *)
(* on the wallet is held for each part of a command, not across the calls  *)
(* to an Esplora server.  A payment is broadcast but never put into the    *)
(* wallet: only a scan tells the wallet that its coins are spent.          *)
(* An unlock may run while a reset waits for another lock.                 *)
(*                                                                         *)
(* A payment spends one coin; change, fees and block heights are left out. *)
(* External: bdk, and the servers with the chain behind them.  The faults  *)
(* are crashes, lost replies, and writes and removals of files that fail.  *)
(***************************************************************************)
EXTENDS AppSeed, FiniteSets

CONSTANTS
  Owner,         \* the seed that owns the coins
  Coins, Sends,
  Endpoints,     \* how many Esplora servers are tried in turn
  MaxOpens       \* bound on the unlocks

ASSUME OnchainAssumption ==
  Owner \in Seeds /\ Endpoints \in Nat \ {0} /\ MaxOpens \in Nat

VARIABLES
  db,         \* ozark-onchain.db: whose descriptors and what else it holds
  onchain,    \* state.onchain: the unlock whose wallet it is, 0 for None
  path,       \* whether state.onchain_db_path is set
  mem,        \* of each unlock: what its wallet knows and has not saved
  send,       \* each payment: its step, wallet, coin, server
  scan,       \* sync_wallet
  reveal,     \* get_new_address waits for the lock on the wallet of this unlock, 0 for none
  mempool, chain,  \* the payments the network knows
  known,      \* the payments that scans have told the user's wallet about
  opens

session == <<wallet, clearing, onchain, path, opens>>
network == <<mempool, chain>>
onchainVars == <<session, db, mem, send, scan, reveal, network, known, faults, blame>>

Opens == 1 .. MaxOpens
Items == Sends \cup {"rest"}   \* "rest": block heights and address indexes
NoDb == [seed |-> NoSeed, items |-> {}]
Closed == [seed |-> NoSeed, view |-> {}, staged |-> {}]
NoCoin == "none"
Unsent == [pc |-> "rest", of |-> 0, coin |-> NoCoin, server |-> 0, lost |-> FALSE]
NoScan == [pc |-> "rest", of |-> 0, saw |-> {}, server |-> 0]
Out == mempool \cup chain
Spent(txs) == {send[t].coin : t \in txs}

----------------------------------------------------------------------------
(* The session *)

Loads(seed) == db = NoDb \/ db.seed = seed

\* What holds on to the wallet of a former unlock goes on with it.
Busy == \E i \in Opens : scan.of = i \/ reveal = i \/ \E t \in Sends : send[t].of = i

\* onchain::create_wallet as initialize_wallet_state calls it.
Open(seed) ==
  /\ Loads(seed) /\ opens < MaxOpens /\ opens' = opens + 1
  /\ mem' = [mem EXCEPT ![opens + 1] = [seed |-> seed, view |-> db.items \cap Sends, staged |-> {}]]
  /\ onchain' = opens + 1 /\ path' = TRUE /\ db' = [db EXCEPT !.seed = seed]
  /\ Blame("twin", Busy)
  /\ UNCHANGED <<clearing, send, scan, reveal, network, known, faults>>

\* The vault is written first and stays when the database does not load.
CreateOnchain ==
  /\ wallet = NoSeed
  /\ \E s \in Seeds :
       /\ wallet' = s
       /\ \/ Open(s)
          \/ ~Loads(s) /\ UNCHANGED <<clearing, onchain, path, opens, db, mem, send, scan, reveal,
                                      network, known, faults, blame>>

UnlockOnchain == wallet # NoSeed /\ Open(wallet) /\ UNCHANGED wallet

DeleteOnchain ==
  /\ wallet # NoSeed /\ ~clearing
  /\ clearing' = TRUE /\ wallet' = NoSeed /\ onchain' = 0
  /\ UNCHANGED <<path, opens, db, mem, send, scan, reveal, network, known, faults, blame>>

\* The vault cannot be removed, or its salt cannot when the snapshot is gone:
\* the command ends there, with the wallet open and the database kept.
DeleteOnchainFails ==
  /\ wallet # NoSeed /\ ~clearing /\ Fault
  /\ wallet' \in {wallet, NoSeed} /\ Blame("half", wallet' = NoSeed)
  /\ UNCHANGED <<clearing, onchain, path, opens, db, mem, send, scan, reveal, network, known>>

\* A wrong variant: the reset leaves the database.
PurgeOnchainForgets ==
  /\ clearing /\ clearing' = FALSE /\ path' = FALSE /\ known' = {}
  /\ Blame("outlived", Busy)
  /\ UNCHANGED <<wallet, onchain, opens, db, mem, send, scan, reveal, network, faults>>

\* purge_wallet_files; commands that are under way are not waited for.
PurgeOnchain ==
  /\ clearing /\ clearing' = FALSE /\ path' = FALSE /\ db' = NoDb /\ known' = {}
  /\ Blame("outlived", Busy)
  /\ UNCHANGED <<wallet, onchain, opens, mem, send, scan, reveal, network, faults>>

\* The database cannot be removed, and nobody is told.
PurgeOnchainFails ==
  /\ clearing /\ clearing' = FALSE /\ path' = FALSE /\ db # NoDb
  /\ Fault /\ blame' = blame \cup {"left"}
  /\ UNCHANGED <<wallet, onchain, opens, db, mem, send, scan, reveal, network, known>>

CrashOnchain ==
  /\ Fault /\ Blame("cut", clearing)
  /\ onchain' = 0 /\ path' = FALSE /\ clearing' = FALSE /\ scan' = NoScan /\ reveal' = 0
  /\ mem' = [i \in Opens |-> Closed]
  /\ send' = [t \in Sends |-> IF send[t].of = 0 THEN send[t]
                              ELSE [send[t] EXCEPT !.pc = "gone", !.of = 0, !.server = 0]]
  /\ UNCHANGED <<wallet, opens, db, network, known>>

----------------------------------------------------------------------------
(* persist_wallet: only what is staged goes to the file of that path *)

Saved(m, d) == IF m.staged = {} THEN d ELSE [d EXCEPT !.items = @ \cup m.staged]

\* m is wallet i with what a command has added.
Persisted(i, m) ==
  mem' = [mem EXCEPT ![i] = [m EXCEPT !.staged = {}]] /\ db' = Saved(m, db)
\* The staged changes are taken before they are written, and lost with the write.
PersistFails(i, m) ==
  /\ Fault /\ blame' = blame \cup {"unsaved"}
  /\ mem' = [mem EXCEPT ![i] = [m EXCEPT !.staged = {}]] /\ UNCHANGED db

\* Every command needs the wallet and the path, and keeps both.
Unlocked == onchain # 0 /\ path

\* get_new_address
Reveal ==
  /\ Unlocked /\ reveal = 0 /\ reveal' = onchain
  /\ UNCHANGED <<session, db, mem, send, scan, network, known, faults, blame>>
Revealed ==
  /\ reveal # 0 /\ reveal' = 0
  /\ LET m == [mem[reveal] EXCEPT !.staged = @ \cup {"rest"}] IN
       \/ Persisted(reveal, m) /\ UNCHANGED <<faults, blame>>
       \/ PersistFails(reveal, m)
  /\ UNCHANGED <<session, send, scan, network, known>>

----------------------------------------------------------------------------
(* sync_wallet *)

SyncStart ==
  /\ Unlocked /\ scan = NoScan
  /\ scan' = [pc |-> "scan", of |-> onchain, saw |-> {}, server |-> 1]
  /\ UNCHANGED <<session, db, mem, send, reveal, network, known, faults, blame>>

\* The server has seen the coins of the owner only.
Scan ==
  /\ scan.pc = "scan"
  /\ scan' = [scan EXCEPT !.pc = "apply", !.saw = IF mem[scan.of].seed = Owner THEN Out ELSE {}]
  /\ UNCHANGED <<session, db, mem, send, reveal, network, known, faults, blame>>

\* The next server, or the error of the last one.
ScanFails ==
  /\ scan.pc = "scan"
  /\ scan' = IF scan.server < Endpoints THEN [scan EXCEPT !.server = @ + 1] ELSE NoScan
  /\ UNCHANGED <<session, db, mem, send, reveal, network, known, faults, blame>>

Updated == LET m == mem[scan.of] IN
  [m EXCEPT !.view = @ \cup scan.saw, !.staged = @ \cup (scan.saw \ m.view) \cup {"rest"}]

\* A wrong variant: the update is left to the next write.
ApplyInMemory ==
  /\ scan.pc = "apply" /\ scan' = NoScan
  /\ mem' = [mem EXCEPT ![scan.of] = [Updated EXCEPT !.staged = {}]]
  /\ known' = IF mem[scan.of].seed = wallet THEN known \cup scan.saw ELSE known
  /\ UNCHANGED <<session, db, send, reveal, network, faults, blame>>

Apply ==
  /\ scan.pc = "apply" /\ scan' = NoScan
  /\ \/ /\ Persisted(scan.of, Updated)
        /\ known' = IF mem[scan.of].seed = wallet THEN known \cup scan.saw ELSE known
        /\ UNCHANGED <<faults, blame>>
     \/ PersistFails(scan.of, Updated) /\ UNCHANGED known
  /\ UNCHANGED <<session, send, reveal, network>>

----------------------------------------------------------------------------
(* send_to_address *)

Step(t, from, to) == send[t].pc = from /\ send' = [send EXCEPT ![t] = to]
Unspent(i) == IF mem[i].seed = Owner THEN Coins \ Spent(mem[i].view) ELSE {}
Ended(s, pc) == [s EXCEPT !.pc = pc, !.of = 0, !.server = 0]

\* The address parses, and what the wallet believes to have covers the amount.
Covered(i) == Unspent(i) # {}
Preflight(t) ==
  /\ Unlocked /\ Covered(onchain)
  /\ Step(t, "rest", [Unsent EXCEPT !.pc = "build", !.of = onchain])
  /\ UNCHANGED <<session, db, mem, scan, reveal, network, known, faults, blame>>

\* build_tx and sign, under the lock taken anew.
Build(t) ==
  /\ send[t].pc = "build"
  /\ \E c \in Unspent(send[t].of) :
       /\ Step(t, "build", [send[t] EXCEPT !.pc = "broadcast", !.coin = c, !.server = 1])
       /\ Blame("reused", c \in Spent(Out \cup {u \in Sends : send[u].pc = "broadcast"}))
  /\ UNCHANGED <<session, db, mem, scan, reveal, network, known, faults>>

BuildFails(t) ==
  /\ Step(t, "build", Ended(send[t], "error"))
  /\ UNCHANGED <<session, db, mem, scan, reveal, network, known, faults, blame>>

\* A payment of the same coin that waits in the mempool is replaced.
Reaches(t) ==
  /\ send[t].coin \notin Spent(chain \ {t})
  /\ mempool' = {u \in mempool : send[u].coin # send[t].coin} \cup ({t} \ chain)
  /\ UNCHANGED chain

\* A wrong variant: every server has to accept the payment.
AcceptedByAll(t) ==
  /\ Step(t, "broadcast", IF send[t].server < Endpoints THEN [send[t] EXCEPT !.server = @ + 1]
                          ELSE [send[t] EXCEPT !.pc = "save", !.server = 0])
  /\ Reaches(t)
  /\ UNCHANGED <<session, db, mem, scan, reveal, known, faults, blame>>

Accepted(t) ==
  /\ Step(t, "broadcast", [send[t] EXCEPT !.pc = "save", !.server = 0]) /\ Reaches(t)
  /\ UNCHANGED <<session, db, mem, scan, reveal, known, faults, blame>>

\* A wrong variant: the last server's error is not looked at.
RefusedIsSent(t, s) ==
  /\ s.pc = "broadcast"
  /\ send' = [send EXCEPT ![t] = IF s.server < Endpoints THEN [s EXCEPT !.server = @ + 1]
                                 ELSE [s EXCEPT !.pc = "save", !.server = 0]]

\* On to the next server, or to the error of the last one.
NotAccepted(t, s) ==
  /\ s.pc = "broadcast"
  /\ send' = [send EXCEPT ![t] = IF s.server < Endpoints THEN [s EXCEPT !.server = @ + 1]
                                 ELSE Ended(s, "error")]

\* The server refuses, is down, or knows the payment already.
Refuse(t) ==
  /\ NotAccepted(t, send[t])
  /\ UNCHANGED <<session, db, mem, scan, reveal, network, known, faults, blame>>

ReplyLost(t) ==
  /\ NotAccepted(t, [send[t] EXCEPT !.lost = TRUE]) /\ Reaches(t) /\ Fault
  /\ UNCHANGED <<session, db, mem, scan, reveal, known, blame>>

Save(t) ==
  /\ \/ /\ Step(t, "save", Ended(send[t], "ok")) /\ Persisted(send[t].of, mem[send[t].of])
        /\ UNCHANGED <<faults, blame>>
     \/ /\ Step(t, "save", [Ended(send[t], "error") EXCEPT !.lost = TRUE])
        /\ PersistFails(send[t].of, mem[send[t].of])
  /\ UNCHANGED <<session, scan, reveal, network, known>>

Confirm(t) ==
  /\ t \in mempool /\ mempool' = mempool \ {t} /\ chain' = chain \cup {t}
  /\ UNCHANGED <<session, db, mem, send, scan, reveal, known, faults, blame>>

OnchainInit ==
  /\ wallet \in {NoSeed, Owner} /\ clearing = FALSE /\ onchain = 0 /\ path = FALSE /\ opens = 0
  /\ db \in {NoDb, [seed |-> wallet, items |-> {}]}
  /\ mem = [i \in Opens |-> Closed]
  /\ send = [t \in Sends |-> Unsent] /\ scan = NoScan /\ reveal = 0
  /\ mempool = {} /\ chain = {} /\ known = {} /\ faults = 0 /\ blame = {}

OnchainNext ==
  \/ CreateOnchain \/ UnlockOnchain \/ CrashOnchain
  \/ DeleteOnchain \/ DeleteOnchainFails \/ PurgeOnchain \/ PurgeOnchainFails
  \/ Reveal \/ Revealed
  \/ SyncStart \/ Scan \/ ScanFails \/ Apply
  \/ \E t \in Sends : \/ Preflight(t) \/ Build(t) \/ BuildFails(t) \/ Accepted(t) \/ Refuse(t)
                      \/ ReplyLost(t) \/ Save(t) \/ Confirm(t)

OnchainSpec == OnchainInit /\ [][OnchainNext]_onchainVars
----------------------------------------------------------------------------
OnchainTypeOK ==
  /\ wallet \in Seeds \cup {NoSeed} /\ clearing \in BOOLEAN /\ path \in BOOLEAN
  /\ db.seed \in Seeds \cup {NoSeed} /\ db.items \subseteq Items
  /\ onchain \in {0} \cup Opens /\ opens \in 0 .. MaxOpens /\ reveal \in {0} \cup Opens
  /\ \A i \in Opens : mem[i].view \subseteq Sends /\ mem[i].staged \subseteq Items
  /\ \A t \in Sends : send[t].pc \in {"rest", "build", "broadcast", "save", "ok", "error", "gone"}
  /\ scan.saw \subseteq Sends /\ Out \subseteq Sends /\ known \subseteq Sends
  /\ faults \in 0 .. MaxFaults

\* With no reset under way, a wallet can be opened with its seed
\* (commands.rs:71): the database is its own or a fresh one.  The exceptions: a
\* reset that a command in flight outlives, that a crash or its early error
\* (commands.rs:325) cuts off, or that cannot remove the file, which is not
\* reported (commands.rs:369), may leave one that no wallet, or another one,
\* can open.
OpensAgain ==
  wallet # NoSeed /\ ~clearing /\ blame \cap {"outlived", "cut", "half", "left"} = {}
    => Loads(wallet)

\* A payment answered with a transaction id stays with the network, unless a
\* later one was built from its coin (wallet.rs:278).
PaidStays ==
  \A t \in Sends : send[t].pc = "ok" /\ "reused" \notin blame => t \in Out

\* An error means that nothing was paid, or else that a reply was lost or the
\* database could not be written after the payment was out (wallet.rs:333).
ErrorMeansUnpaid ==
  \A t \in Sends : send[t].pc = "error" /\ ~send[t].lost => t \notin Out

\* What a scan answered with success has told the wallet about is not spent
\* again until a reset, also after a restart.  The exceptions: a scan that began
\* before a new unlock tells the wallet of the former one, a write that failed
\* is not made up for, and a command that outlives a reset, which removes the
\* database, reports and saves what the next unlock does not find whole.
SyncedCoinsLeft ==
  [][\A t \in Sends :
       send[t].pc = "build" /\ send'[t].pc = "broadcast" /\ blame \cap {"twin", "unsaved", "outlived"} = {}
       => send'[t].coin \notin Spent(known)]_onchainVars
=============================================================================
