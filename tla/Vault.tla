-------------------------------- MODULE Vault --------------------------------
(***************************************************************************)
(* The encrypted vault of the wallet, wallet/vault.rs: a Stronghold        *)
(* snapshot and the salt its key is derived with, two files that belong    *)
(* together, each with a .bak and a .tmp beside it, and the commands of    *)
(* commands.rs that write them.  Every operation on a file is a step: the  *)
(* app may be killed after each, and each may fail.                        *)
(*                                                                         *)
(* "main" is the thread that runs the commands one after the other.        *)
(* connect_tapd is asynchronous and puts its macaroon into the vault from  *)
(* another thread, "form": it loads the snapshot and saves it later.       *)
(*                                                                         *)
(* A generation is one call of write_wallet_atomic: a fresh salt, and the  *)
(* password it was called with.  A snapshot of generation g opens with the *)
(* salt of g only.                                                         *)
(***************************************************************************)
EXTENDS Naturals

CONSTANTS
  MaxWrites,   \* bound on the generations
  MaxFaults    \* bound on crashes and failing file operations

ASSUME VaultAssumption == MaxWrites \in Nat /\ MaxFaults \in Nat

VARIABLES
  snap,      \* ozark-wallet.stronghold, .bak, .tmp
  salt,      \* ozark-wallet.salt, .bak, .tmp: the generation, 0 for no file
  seedOf,    \* the seed in the snapshots of each generation, by the generation of its wallet
  main,      \* what the command thread does
  form,      \* the snapshot connect_tapd has loaded and not saved yet
  seed,      \* the wallet the user was told he has, 0 for none
  password,  \* the generation whose password the user was told is good
  stored,    \* the secrets the user was told are stored
  purged,    \* the user was told that the wallet is deleted, and made no other
  writes, faults,
  blame      \* what happened that the properties make an exception for

files == <<snap, salt>>
told == <<seed, password, stored, purged>>
vars == <<files, seedOf, main, form, told, writes, faults, blame>>

Places == {"main", "bak", "tmp"}
Secrets == {"token", "macaroon"}
Generations == 1 .. MaxWrites
None == [gen |-> 0, keep |-> {}]
NoFile == [p \in Places |-> None]
Rest == [op |-> "rest", pc |-> "rest", gen |-> 0, carry |-> {}, copy |-> None]

\* load_stronghold: both files are there and belong together.
Opens == snap.main # None /\ snap.main.gen = salt.main
HasWallet == snap.main # None

----------------------------------------------------------------------------
(* write_wallet_atomic, one file operation at a time *)

Begin(op, carry) ==
  /\ main = Rest /\ writes < MaxWrites /\ writes' = writes + 1
  /\ main' = [Rest EXCEPT !.op = op, !.pc = "dropSnapTmp", !.gen = writes + 1, !.carry = carry]

\* generate_wallet, or an import, from the screen that is shown without a wallet.
Create ==
  /\ ~HasWallet /\ Begin("create", {})
  /\ seedOf' = [seedOf EXCEPT ![writes + 1] = writes + 1]
  /\ blame' = IF seed # 0 THEN blame \cup {"recreated"} ELSE blame
  /\ purged' = FALSE
  /\ UNCHANGED <<files, form, seed, password, stored, faults>>

\* change_wallet_password reads the secrets and the seed first.
Change ==
  /\ Opens /\ Begin("change", snap.main.keep)
  /\ seedOf' = [seedOf EXCEPT ![writes + 1] = seedOf[snap.main.gen]]
  /\ UNCHANGED <<files, form, told, faults, blame>>

Do(pc, next, newSnap, newSalt) ==
  /\ main.pc = pc /\ main' = [main EXCEPT !.pc = next]
  /\ snap' = newSnap /\ salt' = newSalt
  /\ UNCHANGED <<seedOf, form, told, writes, faults, blame>>

\* A rename replaces its target; nothing happens when the source is missing.
Moved(f, from, to, none) ==
  IF f[from] = none THEN f ELSE [f EXCEPT ![to] = f[from], ![from] = none]

DropTmp ==
  \/ Do("dropSnapTmp", "dropSaltTmp", [snap EXCEPT !.tmp = None], salt)
  \/ Do("dropSaltTmp", "writeSnap", snap, [salt EXCEPT !.tmp = 0])

\* A wrong variant: the new files are written over the old ones.
WriteInPlace ==
  \/ Do("writeSnap", "writeSalt", [snap EXCEPT !.main = [gen |-> main.gen, keep |-> {}]], salt)
  \/ Do("writeSalt", "purgeSnapBak", snap, [salt EXCEPT !.main = main.gen])

\* The new files are complete before the old ones are touched.
WriteTmp ==
  \/ Do("writeSnap", "writeSalt", [snap EXCEPT !.tmp = [gen |-> main.gen, keep |-> {}]], salt)
  \/ Do("writeSalt", "dropSnapBak", snap, [salt EXCEPT !.tmp = main.gen])

\* The old files go aside; a secret stored since they were read is lost.
BackUpSnap ==
  \/ Do("dropSnapBak", "backSnap", IF HasWallet THEN [snap EXCEPT !.bak = None] ELSE snap, salt)
  \/ /\ main.pc = "backSnap" /\ main' = [main EXCEPT !.pc = "dropSaltBak"]
     /\ snap' = Moved(snap, "main", "bak", None)
     /\ blame' = IF main.op = "change" /\ snap.main.keep # main.carry
                 THEN blame \cup {"raced"} ELSE blame
     /\ UNCHANGED <<salt, seedOf, form, told, writes, faults>>
BackUpSalt ==
  \/ Do("dropSaltBak", "backSalt", snap, IF salt.main # 0 THEN [salt EXCEPT !.bak = 0] ELSE salt)
  \/ Do("backSalt", "newSnap", snap, Moved(salt, "main", "bak", 0))

Replace ==
  \/ Do("newSnap", "newSalt", Moved(snap, "tmp", "main", None), salt)
  \/ Do("newSalt", "purgeSnapBak", snap, Moved(salt, "tmp", "main", 0))

PurgeBak ==
  \/ Do("purgeSnapBak", "purgeSaltBak", [snap EXCEPT !.bak = None], salt)
  \/ Do("purgeSaltBak", IF main.op = "create" THEN "created" ELSE "token", snap,
        [salt EXCEPT !.bak = 0])

\* A wrong variant: only the snapshot is restored.
RollBackSnap ==
  \/ Do("rollSnap", "rollSalt", IF ~HasWallet THEN Moved(snap, "bak", "main", None) ELSE snap, salt)
  \/ /\ main.pc = "rollSalt" /\ main' = Rest
     /\ UNCHANGED <<files, seedOf, form, told, writes, faults, blame>>

\* What is missing is restored from the backup.
RollBack ==
  \/ Do("rollSnap", "rollSalt", IF ~HasWallet THEN Moved(snap, "bak", "main", None) ELSE snap, salt)
  \/ /\ main.pc = "rollSalt" /\ main' = Rest
     /\ salt' = (IF salt.main = 0 THEN Moved(salt, "bak", "main", 0) ELSE salt)
     /\ UNCHANGED <<snap, seedOf, form, told, writes, faults, blame>>

Created ==
  /\ main.pc = "created" /\ main' = Rest
  /\ seed' = main.gen /\ password' = main.gen /\ stored' = {}
  /\ UNCHANGED <<files, seedOf, form, purged, writes, faults, blame>>

----------------------------------------------------------------------------
(* store_secret: the snapshot is loaded, and saved under the key it was loaded with *)

Lost(copy) == IF snap.main # copy THEN blame \cup {"raced"} ELSE blame

\* A wrong variant: the snapshot is written anew for each secret.
RestoreAlone(secret, next) ==
  /\ main.pc = secret
  /\ \/ /\ secret \notin main.carry /\ main' = [main EXCEPT !.pc = next]
        /\ UNCHANGED <<snap, blame>>
     \/ /\ secret \in main.carry /\ main.copy = None /\ Opens
        /\ main' = [main EXCEPT !.copy = snap.main] /\ UNCHANGED <<snap, blame>>
     \/ /\ secret \in main.carry /\ main.copy # None
        /\ snap' = [snap EXCEPT !.main = [main.copy EXCEPT !.keep = {secret}]]
        /\ blame' = Lost(main.copy)
        /\ main' = [main EXCEPT !.pc = next, !.copy = None]
  /\ UNCHANGED <<salt, seedOf, form, told, writes, faults>>

\* change_wallet_password puts the secrets back, the token first.
Restore(secret, next) ==
  /\ main.pc = secret
  /\ \/ /\ secret \notin main.carry /\ main' = [main EXCEPT !.pc = next]
        /\ UNCHANGED <<snap, blame>>
     \/ /\ secret \in main.carry /\ main.copy = None /\ Opens
        /\ main' = [main EXCEPT !.copy = snap.main] /\ UNCHANGED <<snap, blame>>
     \/ /\ secret \in main.carry /\ main.copy # None
        /\ snap' = [snap EXCEPT !.main = [main.copy EXCEPT !.keep = @ \cup {secret}]]
        /\ blame' = Lost(main.copy)
        /\ main' = [main EXCEPT !.pc = next, !.copy = None]
  /\ UNCHANGED <<salt, seedOf, form, told, writes, faults>>

\* The wallet does not open any more: the command ends with an error.
RestoreFails ==
  /\ main.pc \in Secrets \cap main.carry /\ main.copy = None /\ ~Opens /\ main' = Rest
  /\ UNCHANGED <<files, seedOf, form, told, writes, faults, blame>>

Changed ==
  /\ main.pc = "changed" /\ main' = Rest /\ password' = main.gen
  /\ UNCHANGED <<files, seedOf, form, seed, stored, purged, writes, faults, blame>>

\* save_ark_config_command.
LoadForToken ==
  /\ main = Rest /\ Opens
  /\ main' = [Rest EXCEPT !.op = "token", !.pc = "save", !.copy = snap.main]
  /\ UNCHANGED <<files, seedOf, form, told, writes, faults, blame>>

SaveToken ==
  /\ main.pc = "save" /\ main' = Rest
  /\ snap' = [snap EXCEPT !.main = [main.copy EXCEPT !.keep = @ \cup {"token"}]]
  /\ stored' = stored \cup {"token"} /\ blame' = Lost(main.copy)
  /\ UNCHANGED <<salt, seedOf, form, seed, password, purged, writes, faults>>

\* connect_tapd.
LoadForMacaroon ==
  /\ form = None /\ Opens /\ seed # 0 /\ form' = snap.main
  /\ UNCHANGED <<files, seedOf, main, told, writes, faults, blame>>

SaveMacaroon ==
  /\ form # None /\ form' = None
  /\ snap' = [snap EXCEPT !.main = [form EXCEPT !.keep = @ \cup {"macaroon"}]]
  /\ stored' = stored \cup {"macaroon"} /\ blame' = Lost(form)
  /\ UNCHANGED <<salt, seedOf, main, seed, password, purged, writes, faults>>

----------------------------------------------------------------------------
(* delete_wallet: the files, and then what interrupted writes left *)

Delete ==
  /\ main = Rest /\ HasWallet /\ main' = [Rest EXCEPT !.op = "delete", !.pc = "delSnap"]
  /\ seed' = 0 /\ password' = 0 /\ stored' = {} /\ blame' = blame \ {"leftover"}
  /\ UNCHANGED <<files, seedOf, form, purged, writes, faults>>

\* A wrong variant: what an interrupted write left behind stays.
RemoveMain ==
  \/ Do("delSnap", "delSalt", [snap EXCEPT !.main = None], salt)
  \/ /\ main.pc = "delSalt" /\ main' = Rest /\ purged' = TRUE
     /\ salt' = [salt EXCEPT !.main = 0]
     /\ UNCHANGED <<snap, seedOf, form, seed, password, stored, writes, faults, blame>>

Remove ==
  \/ Do("delSnap", "delSalt", [snap EXCEPT !.main = None], salt)
  \/ Do("delSalt", "delRest", snap, [salt EXCEPT !.main = 0])
  \/ /\ main.pc = "delRest" /\ main' = Rest /\ purged' = TRUE
     /\ snap' = [snap EXCEPT !.bak = None, !.tmp = None]
     /\ salt' = [salt EXCEPT !.bak = 0, !.tmp = 0]
     /\ UNCHANGED <<seedOf, form, seed, password, stored, writes, faults, blame>>

----------------------------------------------------------------------------
(* Faults *)

Prepares == {"dropSnapTmp", "dropSaltTmp", "writeSnap", "writeSalt"}
Replaces == {"dropSnapBak", "backSnap", "dropSaltBak", "backSalt", "newSnap", "newSalt"}
Settles == {"purgeSnapBak", "purgeSaltBak", "token", "macaroon"}
\* From the first rename until the command ends, the files are between two states.
Between == (Replaces \ {"dropSnapBak", "backSnap"}) \cup Settles
           \cup {"rollSnap", "rollSalt", "created", "changed"}

\* A file operation fails.  A failed replacement is rolled back; a failure
\* afterwards ends the command with an error although the files are replaced.
OperationFails ==
  /\ faults < MaxFaults /\ faults' = faults + 1
  /\ main.pc \in Prepares \cup Replaces \cup Settles \cup {"save", "delSnap", "delSalt"}
  /\ main' = IF main.pc \in Replaces THEN [main EXCEPT !.pc = "rollSnap"] ELSE Rest
  /\ blame' = IF main.pc \in Settles \cup {"newSalt"} THEN blame \cup {"torn"} ELSE blame
  /\ UNCHANGED <<files, seedOf, form, told, writes>>

\* A rename of the rollback fails: the next one is tried, and nobody is told.
RollBackFails ==
  /\ faults < MaxFaults /\ faults' = faults + 1
  /\ \/ main.pc = "rollSnap" /\ ~HasWallet /\ snap.bak # None /\ main' = [main EXCEPT !.pc = "rollSalt"]
     \/ main.pc = "rollSalt" /\ salt.main = 0 /\ salt.bak # 0 /\ main' = Rest
  /\ blame' = blame \cup {"torn"}
  /\ UNCHANGED <<files, seedOf, form, told, writes>>

\* Some of what interrupted writes left cannot be removed: the deletion
\* succeeds all the same.
RemovalFails ==
  /\ faults < MaxFaults /\ faults' = faults + 1
  /\ main.pc = "delRest" /\ main' = Rest /\ purged' = TRUE
  /\ \E s, t \in SUBSET {"bak", "tmp"} :
       /\ snap' = [p \in Places |-> IF p \in s THEN None ELSE snap[p]]
       /\ salt' = [p \in Places |-> IF p \in t THEN 0 ELSE salt[p]]
  /\ blame' = blame \cup {"leftover"}
  /\ UNCHANGED <<seedOf, form, seed, password, stored, writes>>

Crash ==
  /\ faults < MaxFaults /\ faults' = faults + 1
  /\ main # Rest \/ form # None
  /\ main' = Rest /\ form' = None
  /\ blame' = IF main.pc \in Between THEN blame \cup {"torn"} ELSE blame
  /\ UNCHANGED <<files, seedOf, told, writes>>

----------------------------------------------------------------------------

Init ==
  /\ snap = NoFile /\ salt = [p \in Places |-> 0] /\ seedOf = [g \in Generations |-> 0]
  /\ main = Rest /\ form = None
  /\ seed = 0 /\ password = 0 /\ stored = {} /\ purged = FALSE
  /\ writes = 0 /\ faults = 0 /\ blame = {}

Write == DropTmp \/ WriteTmp \/ BackUpSnap \/ BackUpSalt \/ Replace \/ PurgeBak \/ RollBack \/ Created

Next ==
  \/ Create \/ Change \/ Write
  \/ Restore("token", "macaroon") \/ Restore("macaroon", "changed") \/ RestoreFails \/ Changed
  \/ LoadForToken \/ SaveToken \/ LoadForMacaroon \/ SaveMacaroon
  \/ Delete \/ Remove \/ OperationFails \/ RollBackFails \/ RemovalFails \/ Crash

Spec == Init /\ [][Next]_vars

----------------------------------------------------------------------------
(* Properties *)

Snapshot == [gen : 0 .. MaxWrites, keep : SUBSET Secrets]

\* The type invariant.
TypeOK ==
  /\ snap \in [Places -> Snapshot] /\ salt \in [Places -> 0 .. MaxWrites]
  /\ seedOf \in [Generations -> 0 .. MaxWrites]
  /\ main \in [op : {"rest", "create", "change", "token", "delete"},
               pc : Prepares \cup Between \cup {"rest", "dropSnapBak", "backSnap", "save",
                                                "delSnap", "delSalt", "delRest"},
               gen : 0 .. MaxWrites, carry : SUBSET Secrets, copy : Snapshot]
  /\ form \in Snapshot /\ seed \in 0 .. MaxWrites /\ password \in 0 .. MaxWrites
  /\ stored \subseteq Secrets /\ purged \in BOOLEAN
  /\ writes \in 0 .. MaxWrites /\ faults \in 0 .. MaxFaults
  /\ blame \subseteq {"torn", "raced", "recreated", "leftover"}

\* Wherever the app is killed and whatever fails, a snapshot of the user's
\* seed and the salt that opens it are on disk, under one name or another.
\* The exceptions: a store_secret that ran into a replacement, and a wallet
\* created because an interrupted write had left none to be seen.
SeedOnDisk ==
  seed # 0 /\ blame \cap {"raced", "recreated"} = {} =>
    \E p, q \in Places : snap[p] # None /\ snap[p].gen = salt[q] /\ seedOf[snap[p].gen] = seed

\* "If anything fails after the backups are created, the old snapshot/salt
\* are restored from .bak" (vault.rs:116): with no command running the wallet
\* opens with the password the user was told last, and what was stored beside
\* the seed is still in it.  The exceptions: a crash after the first rename, a
\* failure of the last rename (which restores the salt beside the new
\* snapshot) or of what follows it, a failure of the rollback itself (its
\* errors are dropped, vault.rs:163 and 166), and those of SeedOnDisk.
OpensWhenTold ==
  main = Rest /\ seed # 0 /\ blame \subseteq {"leftover"} =>
    Opens /\ salt.main = password /\ snap.main.keep = stored

\* When the user was told that his wallet is deleted, neither its snapshot nor
\* its salt is left, and under no other name either, but for a .bak or .tmp
\* that could not be removed in this deletion (vault.rs:356-361 drops the
\* error).  The exception is a store_secret in flight, which writes its
\* snapshot back.
NothingLeft ==
  purged /\ form = None /\ "raced" \notin blame =>
    /\ snap.main = None /\ salt.main = 0
    /\ "leftover" \notin blame => snap = NoFile /\ salt = [p \in Places |-> 0]
=============================================================================
