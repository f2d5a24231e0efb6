---------------------------- MODULE Vault_proofs ----------------------------
(***************************************************************************)
(* Theorems about Vault, for any number of generations and of crashes and  *)
(* failing file operations.                                                *)
(***************************************************************************)
EXTENDS Vault, TLAPS

----------------------------------------------------------------------------
(* The inductive invariant *)

Pair(p, q) == snap[p] # None /\ snap[p].gen = salt[q]
NewFile == [gen |-> main.gen, keep |-> {}]

Clean == blame \cap {"raced", "recreated"} = {}

Writing == main.op \in {"create", "change"}
Before == Prepares \cup {"dropSnapBak", "backSnap"}    \* the old files are in place
Aside == {"dropSaltBak", "backSalt"}                   \* the old snapshot is not
Done == Settles \cup {"created", "changed"}            \* the new files are in place

\* What each command is at.
Phase ==
  /\ main.op = "create" => seedOf[main.gen] = main.gen
  /\ Writing => main.gen \in Generations /\ main.pc \in Before \cup Between
  /\ main.op = "create" => main.pc \notin Secrets \cup {"changed"}
  /\ main.op = "change" => main.pc # "created"
  /\ main.op = "rest" => main = Rest
  /\ main.op = "token" => main.pc = "save" /\ main.copy # None
  /\ main.op = "delete" => main.pc \in {"delSnap", "delSalt", "delRest"}

\* No generation is used before it is begun.
Begun(file) == file = None \/ file.gen \in 1 .. writes
Fresh ==
  /\ \A p \in Places : Begun(snap[p])
  /\ Begun(form) /\ Begun(main.copy) /\ main.gen <= writes

\* Where the new files are, by how far a replacement is.
NewFiles ==
  /\ main.pc \in {"writeSalt", "dropSnapBak", "backSnap", "newSnap"} \cup Aside => snap["tmp"] = NewFile
  /\ main.pc \in {"dropSnapBak", "backSnap", "newSnap"} \cup Aside => salt["tmp"] = main.gen
  /\ main.pc = "newSalt" => snap["main"].gen = main.gen /\ salt["tmp"] = main.gen
  /\ main.pc \in Done => snap["main"].gen = main.gen /\ salt["main"] = main.gen
  /\ main.pc \in {"newSalt"} \cup Done => snap["tmp"] = None
  /\ main.pc \in Done \ {"purgeSnapBak"} => snap["bak"] = None

\* Where the old files are meanwhile, when the user has a wallet.
OldFiles ==
  /\ main.pc \in Before => Pair("main", "main")
  /\ main.pc \in Aside => Pair("bak", "main")
  /\ main.pc \in {"newSnap", "newSalt"} => Pair("bak", "bak")

\* Every snapshot is one of the user's seed, and one of them has its salt.
Recoverable ==
  /\ \A p \in Places : snap[p] # None => seedOf[snap[p].gen] = seed
  /\ \E p, q \in Places : Pair(p, q)
  /\ main.op = "change" => seedOf[main.gen] = seed /\ OldFiles
  /\ main.op \notin {"create", "delete"}

\* The files that were there when the user was told his password and secrets.
Old(p) == snap[p].gen = password /\ snap[p].keep = stored /\ snap[p] # None
SaltThere == salt["main"] = password \/ (salt["main"] = 0 /\ salt["bak"] = password)

Steady ==
  /\ main.op \in {"rest", "token"} => Old("main") /\ salt["main"] = password
  /\ main.pc \in Before => Old("main") /\ salt["main"] = password
  /\ main.pc \in Aside => Old("bak") /\ salt["main"] = password /\ snap["main"] = None
  /\ main.pc = "newSnap" => Old("bak") /\ salt["bak"] = password /\ snap["main"] = None /\ salt["main"] = 0
  /\ main.pc = "newSalt" => snap["main"].keep = {} /\ salt["main"] = 0
  /\ main.pc \in Before \cup Aside \cup {"newSnap"} => password < main.gen
  /\ main.pc \in Aside \cup {"newSnap", "newSalt"} => main.carry = stored
  /\ main.pc \in Done => snap["main"].keep \cup main.carry = stored
  /\ main.pc = "macaroon" => {"token"} \cap main.carry \subseteq snap["main"].keep
  /\ main.pc = "changed" => main.carry \subseteq snap["main"].keep
  /\ main.pc = "rollSnap" => SaltThere /\ (Old("main") \/ (snap["main"] = None /\ Old("bak")))
  /\ main.pc = "rollSalt" => SaltThere /\ Old("main")

\* A new wallet has no secrets, and a snapshot loaded before is not its.
Blank ==
  /\ Writing /\ main.pc \in Before \cup Aside \cup {"newSnap", "newSalt"} => form.gen < main.gen
  /\ main.op = "create" => form.gen < main.gen
  /\ main.op = "create" /\ main.pc \in {"newSalt"} \cup Done => snap["main"].keep = {}

\* What a deletion has removed stays removed.
Emptied ==
  /\ main.pc \in {"delSalt", "delRest"} => snap["main"] = None
  /\ main.pc = "delRest" => salt["main"] = 0
  /\ purged => main = Rest /\ snap["main"] = None /\ salt["main"] = 0
  /\ purged /\ "leftover" \notin blame => snap = NoFile /\ salt = [p \in Places |-> 0]

Files == NewFiles /\ (seed # 0 => Recoverable)
Promised == Blank /\ (seed # 0 => Steady)

IInv ==
  /\ TypeOK /\ Phase /\ Fresh
  /\ Clean => Files
  /\ blame \subseteq {"leftover"} => Promised
  /\ "raced" \notin blame => Emptied

----------------------------------------------------------------------------
(* Types, phases and generations *)

Basics == TypeOK /\ Phase /\ Fresh

Phases == Prepares \cup Between \cup {"rest", "dropSnapBak", "backSnap", "save", "delSnap", "delSalt", "delRest"}
Ops == {"rest", "create", "change", "token", "delete"}

\* What the thread that runs the commands may hold.
LEMMA MainTypes ==
  ASSUME TypeOK
  PROVE  /\ main = [op |-> main.op, pc |-> main.pc, gen |-> main.gen, carry |-> main.carry, copy |-> main.copy]
         /\ main.op \in Ops /\ main.pc \in Phases /\ main.gen \in 0 .. MaxWrites
         /\ main.carry \subseteq Secrets /\ main.copy \in Snapshot
BY DEF TypeOK, Ops, Phases

\* No file is a snapshot of no generation.
LEMMA NoneTypes == None \in Snapshot /\ None.gen = 0 /\ None.keep = {}
BY VaultAssumption DEF None, Snapshot

\* A file operation moves generations that were begun before.
LEMMA DoBasics ==
  ASSUME Basics, NEW pc, NEW next, NEW newSnap, NEW newSalt, Do(pc, next, newSnap, newSalt),
         newSnap \in [Places -> Snapshot], newSalt \in [Places -> 0 .. MaxWrites],
         \A p \in Places : Begun(newSnap[p]), next \in Phases,
         Writing => next \in Before \cup Between,
         main.op = "create" => next \notin Secrets \cup {"changed"},
         main.op = "change" => next # "created",
         main.op \notin {"rest", "token"},
         main.op = "delete" => next \in {"delSnap", "delSalt", "delRest"}
  PROVE  Basics'
<1>1. /\ main'.op = main.op /\ main'.pc = next /\ main'.gen = main.gen /\ main'.copy = main.copy
      /\ main'.carry = main.carry /\ TypeOK'
  BY MainTypes DEF Do, Basics, TypeOK, told, Ops, Phases
<1>2. Phase'
  BY <1>1 DEF Do, Basics, Phase, told, Writing
<1>3. Fresh'
  BY <1>1 DEF Do, Basics, Fresh, Begun, told
<1> QED
  BY <1>1, <1>2, <1>3 DEF Basics

\* A rename, for files of any type.
LEMMA MovedTypes ==
  ASSUME NEW T, NEW none \in T, NEW f \in [Places -> T], NEW p \in Places, NEW q \in Places, p # q
  PROVE  /\ Moved(f, p, q, none) \in [Places -> T]
         /\ f[p] = none => Moved(f, p, q, none) = f
         /\ f[p] # none => /\ Moved(f, p, q, none)[q] = f[p] /\ Moved(f, p, q, none)[p] = none
                           /\ \A x \in Places \ {p, q} : Moved(f, p, q, none)[x] = f[x]
BY DEF Moved

\* A file may be removed, or written with the new generation.
LEMMA PlaceTypes ==
  ASSUME TypeOK, NEW p \in Places
  PROVE  /\ snap[p] \in Snapshot /\ salt[p] \in 0 .. MaxWrites
         /\ [snap EXCEPT ![p] = None] \in [Places -> Snapshot]
         /\ [salt EXCEPT ![p] = 0] \in [Places -> 0 .. MaxWrites]
         /\ [salt EXCEPT ![p] = main.gen] \in [Places -> 0 .. MaxWrites]
         /\ [snap EXCEPT ![p] = NewFile] \in [Places -> Snapshot]
BY NoneTypes, VaultAssumption, MainTypes DEF TypeOK, NewFile, Snapshot

\* A rename keeps the types, and begins no generation.
LEMMA MovedFiles ==
  ASSUME Basics, NEW p \in Places, NEW q \in Places, p # q
  PROVE  /\ Moved(snap, p, q, None) \in [Places -> Snapshot]
         /\ Moved(salt, p, q, 0) \in [Places -> 0 .. MaxWrites]
         /\ \A x \in Places : Begun(Moved(snap, p, q, None)[x])
<1>1. snap \in [Places -> Snapshot] /\ salt \in [Places -> 0 .. MaxWrites] /\ 0 \in 0 .. MaxWrites
  BY VaultAssumption DEF Basics, TypeOK
<1>2. Moved(snap, p, q, None) \in [Places -> Snapshot]
  BY <1>1, NoneTypes, MovedTypes
<1>3. Moved(salt, p, q, 0) \in [Places -> 0 .. MaxWrites]
  BY <1>1, MovedTypes
<1>4. \A x \in Places : Moved(snap, p, q, None)[x] \in {snap[y] : y \in Places} \cup {None}
  BY <1>1 DEF Moved
<1>5. \A x \in Places : Begun(Moved(snap, p, q, None)[x])
  BY <1>4 DEF Basics, Fresh, Begun
<1> QED
  BY <1>2, <1>3, <1>5

Distinct == "main" \in Places /\ "bak" \in Places /\ "tmp" \in Places
\* The places of a file.
LEMMA PlacesDistinct == Distinct
BY DEF Distinct, Places

\* A thread at rest has the type of main.
LEMMA RestType ==
  Rest \in [op : {"rest", "create", "change", "token", "delete"},
            pc : Prepares \cup Between \cup {"rest", "dropSnapBak", "backSnap", "save",
                                             "delSnap", "delSalt", "delRest"},
            gen : 0 .. MaxWrites, carry : SUBSET Secrets, copy : Snapshot]
BY NoneTypes, VaultAssumption DEF Rest

\* A command ends, without beginning a generation.
LEMMA RestBasics ==
  ASSUME Basics, main' = Rest, UNCHANGED <<snap, seedOf, form, writes>>,
         salt' \in [Places -> 0 .. MaxWrites], faults' \in 0 .. MaxFaults,
         seed' \in 0 .. MaxWrites, password' \in 0 .. MaxWrites, stored' \subseteq Secrets, purged' \in BOOLEAN,
         blame' \subseteq {"torn", "raced", "recreated", "leftover"}
  PROVE  Basics'
<1>1. TypeOK'
  BY NoneTypes, VaultAssumption DEF Basics, TypeOK, Rest, Ops, Phases
<1>2. Phase' /\ Fresh'
  BY VaultAssumption DEF Basics, TypeOK, Phase, Fresh, Begun, Rest, Writing
<1> QED
  BY <1>1, <1>2 DEF Basics

\* The steps of write_wallet_atomic.
LEMMA WriteBasics == Basics /\ Write => Basics'
<1> SUFFICES ASSUME Basics, Write PROVE Basics'
  OBVIOUS
<1>1. main.op \in {"create", "change"} \/ main.pc \notin Before \cup Between
  BY DEF Basics, Phase, TypeOK, Before, Between, Prepares, Replaces, Settles, Writing, Rest
<1>2. /\ \A p \in Places : Begun(snap[p]) /\ Begun(None) /\ Begun([snap EXCEPT ![p] = None][p])
      /\ \A p, q \in Places : Begun([snap EXCEPT ![p] = None][q])
      /\ Writing => \A q \in Places : Begun([snap EXCEPT !["tmp"] = NewFile][q])
      /\ TypeOK /\ snap \in [Places -> Snapshot] /\ salt \in [Places -> 0 .. MaxWrites]
  BY MainTypes DEF Basics, Fresh, TypeOK, Begun, Phase, NewFile, Generations
<1> USE PlacesDistinct DEF Distinct
<1>0. /\ \A p, q \in Places : p # q => /\ Moved(snap, p, q, None) \in [Places -> Snapshot]
                                       /\ Moved(salt, p, q, 0) \in [Places -> 0 .. MaxWrites]
                                       /\ \A x \in Places : Begun(Moved(snap, p, q, None)[x])
      /\ "main" # "bak" /\ "tmp" # "main"
  BY MovedFiles
<1>3. CASE DropTmp
  <2>1. CASE Do("dropSnapTmp", "dropSaltTmp", [snap EXCEPT !.tmp = None], salt)
    BY <1>1, <1>2, <2>1, DoBasics, PlaceTypes, NoneTypes
       DEF Do, Before, Between, Prepares, Replaces, Settles, Phases, Secrets
  <2>2. CASE Do("dropSaltTmp", "writeSnap", snap, [salt EXCEPT !.tmp = 0])
    BY <1>1, <1>2, <2>2, DoBasics, PlaceTypes, NoneTypes
       DEF Do, Before, Between, Prepares, Replaces, Settles, Phases, Secrets
  <2> QED
    BY <1>3, <2>1, <2>2 DEF DropTmp
<1>4. CASE WriteTmp
  <2>1. CASE Do("writeSnap", "writeSalt", [snap EXCEPT !.tmp = [gen |-> main.gen, keep |-> {}]], salt)
    BY <1>1, <1>2, <2>1, DoBasics, PlaceTypes, NoneTypes
       DEF Do, Before, Between, Prepares, Replaces, Settles, Phases, Secrets, NewFile, Writing
  <2>2. CASE Do("writeSalt", "dropSnapBak", snap, [salt EXCEPT !.tmp = main.gen])
    BY <1>1, <1>2, <2>2, DoBasics, PlaceTypes, NoneTypes
       DEF Do, Before, Between, Prepares, Replaces, Settles, Phases, Secrets
  <2> QED
    BY <1>4, <2>1, <2>2 DEF WriteTmp
<1>5. CASE BackUpSnap
  <2>1. CASE Do("dropSnapBak", "backSnap", IF HasWallet THEN [snap EXCEPT !.bak = None] ELSE snap, salt)
    BY <1>1, <1>2, <2>1, DoBasics, PlaceTypes, NoneTypes
       DEF Do, Before, Between, Prepares, Replaces, Settles, Phases, Secrets
  <2>2. CASE /\ main.pc = "backSnap" /\ main' = [main EXCEPT !.pc = "dropSaltBak"]
            /\ snap' = Moved(snap, "main", "bak", None) /\ UNCHANGED <<salt, seedOf, form, told, writes, faults>>
            /\ blame' \in {blame, blame \cup {"raced"}}
    <3>1. snap' \in [Places -> Snapshot] /\ \A p \in Places : Begun(snap'[p])
      BY <2>2, MovedFiles
    <3>2. /\ main'.op = main.op /\ main'.pc = "dropSaltBak" /\ main'.gen = main.gen /\ main'.copy = main.copy
          /\ main'.carry = main.carry /\ TypeOK'
      BY <1>2, <3>1, <2>2, MainTypes DEF TypeOK, told, Ops, Phases, Between, Replaces
    <3>3. Phase' /\ Fresh'
      BY <1>1, <3>1, <3>2, <2>2
         DEF Basics, Phase, Fresh, Begun, Writing, Before, Between, Prepares, Replaces, told, Secrets
    <3> QED
      BY <3>2, <3>3 DEF Basics
  <2> QED
    BY <1>5, <2>1, <2>2 DEF BackUpSnap
<1>6. CASE BackUpSalt
  <2>1. CASE Do("dropSaltBak", "backSalt", snap, IF salt.main # 0 THEN [salt EXCEPT !.bak = 0] ELSE salt)
    BY <1>1, <1>2, <2>1, DoBasics, PlaceTypes, NoneTypes
       DEF Do, Before, Between, Prepares, Replaces, Settles, Phases, Secrets
  <2>2. CASE Do("backSalt", "newSnap", snap, Moved(salt, "main", "bak", 0))
    <3>1. Moved(salt, "main", "bak", 0) \in [Places -> 0 .. MaxWrites]
      BY <1>0
    <3> QED
      BY <1>1, <1>2, <2>2, <3>1, DoBasics
         DEF Do, Before, Between, Prepares, Replaces, Settles, Phases, Secrets
  <2> QED
    BY <1>6, <2>1, <2>2 DEF BackUpSalt
<1>7. CASE Replace
  <2>1. CASE Do("newSnap", "newSalt", Moved(snap, "tmp", "main", None), salt)
    BY <1>1, <1>2, <2>1, <1>0, DoBasics
       DEF Do, Before, Between, Prepares, Replaces, Settles, Phases, Secrets
  <2>2. CASE Do("newSalt", "purgeSnapBak", snap, Moved(salt, "tmp", "main", 0))
    <3>1. Moved(salt, "tmp", "main", 0) \in [Places -> 0 .. MaxWrites]
      BY <1>0
    <3> QED
      BY <1>1, <1>2, <2>2, <3>1, DoBasics
         DEF Do, Before, Between, Prepares, Replaces, Settles, Phases, Secrets
  <2> QED
    BY <1>7, <2>1, <2>2 DEF Replace
<1>8. CASE PurgeBak
  <2>1. CASE Do("purgeSnapBak", "purgeSaltBak", [snap EXCEPT !.bak = None], salt)
    BY <1>1, <1>2, <2>1, DoBasics, PlaceTypes, NoneTypes
       DEF Do, Before, Between, Prepares, Replaces, Settles, Phases, Secrets
  <2>2. CASE Do("purgeSaltBak", IF main.op = "create" THEN "created" ELSE "token", snap,
             [salt EXCEPT !.bak = 0])
    BY <1>1, <1>2, <2>2, DoBasics, PlaceTypes, NoneTypes
       DEF Do, Before, Between, Prepares, Replaces, Settles, Phases, Secrets
  <2> QED
    BY <1>8, <2>1, <2>2 DEF PurgeBak
<1>9. CASE RollBack
  <2>1. CASE Do("rollSnap", "rollSalt", IF ~HasWallet THEN Moved(snap, "bak", "main", None) ELSE snap, salt)
    BY <1>1, <1>2, <2>1, <1>0, DoBasics
       DEF Do, Before, Between, Prepares, Replaces, Settles, Phases, Secrets
  <2>2. CASE /\ main.pc = "rollSalt" /\ main' = Rest
            /\ salt' = (IF salt.main = 0 THEN Moved(salt, "bak", "main", 0) ELSE salt)
            /\ UNCHANGED <<snap, seedOf, form, told, writes, faults, blame>>
    <3>1. salt' \in [Places -> 0 .. MaxWrites]
      BY <1>2, <2>2, MovedFiles
    <3> QED
      BY <1>2, <3>1, <2>2, RestBasics DEF TypeOK, told
  <2> QED
    BY <1>9, <2>1, <2>2 DEF RollBack
<1>10. CASE Created
  BY <1>2, <1>10, MainTypes, RestBasics DEF Created, TypeOK, files
<1> QED
  BY <1>3, <1>4, <1>5, <1>6, <1>7, <1>8, <1>9, <1>10 DEF Write

WithSecret(file, secret) == [file EXCEPT !.keep = @ \cup {secret}]

\* A snapshot is saved with one secret more.
LEMMA Saved ==
  ASSUME Basics, NEW file \in Snapshot, file # None, Begun(file), NEW secret \in Secrets
  PROVE  /\ WithSecret(file, secret) \in Snapshot /\ Begun(WithSecret(file, secret))
         /\ WithSecret(file, secret) # None /\ WithSecret(file, secret).gen = file.gen
         /\ WithSecret(file, secret).keep = file.keep \cup {secret}
         /\ LET saved == [snap EXCEPT !["main"] = WithSecret(file, secret)] IN
              saved \in [Places -> Snapshot] /\ \A p \in Places : Begun(saved[p])
<1>1. /\ WithSecret(file, secret) \in Snapshot /\ WithSecret(file, secret).gen = file.gen
      /\ WithSecret(file, secret).keep = file.keep \cup {secret}
  BY DEF WithSecret, Snapshot
<1>2. WithSecret(file, secret) # None /\ Begun(WithSecret(file, secret))
  BY <1>1, NoneTypes DEF Begun
<1> QED
  BY <1>1, <1>2 DEF Basics, TypeOK, Fresh

\* What is on disk and in memory, by type and generation.
LEMMA FileTypes ==
  ASSUME Basics
  PROVE  /\ main.copy \in Snapshot /\ Begun(main.copy) /\ form \in Snapshot /\ Begun(form)
         /\ snap["main"] \in Snapshot /\ Begun(snap["main"]) /\ "token" \in Secrets /\ "macaroon" \in Secrets
         /\ writes \in Nat /\ MaxWrites \in Nat /\ Rest.copy = None /\ Rest.gen = 0
BY MainTypes, VaultAssumption DEF Basics, TypeOK, Fresh, Secrets, Rest, Places

\* A write begins a generation of its own.
LEMMA BeginBasics ==
  ASSUME Basics, NEW op \in {"create", "change"}, NEW carry \in SUBSET Secrets, Begin(op, carry),
         seedOf' \in [Generations -> 0 .. MaxWrites],
         op = "create" => seedOf'[writes + 1] = writes + 1,
         UNCHANGED <<files, form, seed, password, stored, faults>>, purged' \in BOOLEAN,
         blame' \subseteq {"torn", "raced", "recreated", "leftover"}
  PROVE  Basics'
<1>1. /\ main' = [op |-> op, pc |-> "dropSnapTmp", gen |-> writes + 1, carry |-> carry, copy |-> None]
      /\ writes' = writes + 1 /\ writes < MaxWrites
  BY DEF Begin, Rest
<1>2. main'.op = op /\ main'.pc = "dropSnapTmp" /\ main'.gen = writes + 1 /\ main'.copy = None
  BY <1>1
<1>3. main'.carry = carry
  BY <1>1
<1>4. writes \in 0 .. MaxWrites /\ writes + 1 \in 0 .. MaxWrites /\ writes + 1 \in Generations
  BY <1>1, VaultAssumption DEF Basics, TypeOK, Generations
<1>5. main' \in [op : Ops, pc : Phases, gen : 0 .. MaxWrites, carry : SUBSET Secrets, copy : Snapshot]
  BY <1>1, <1>4, NoneTypes DEF Ops, Phases, Prepares
<1>6. TypeOK'
  BY <1>1, <1>4, <1>5 DEF Basics, TypeOK, files, Ops, Phases
<1>7. Phase'
  BY <1>2, <1>4 DEF Phase, Writing, Before, Prepares, Secrets
<1>8. Fresh'
  BY <1>1, <1>2, <1>4 DEF Basics, Fresh, Begun, files, TypeOK
<1> QED
  BY <1>6, <1>7, <1>8 DEF Basics

\* A wallet is created.
LEMMA CreateBasics == Basics /\ Create => Basics'
<1> SUFFICES ASSUME Basics, Create PROVE Basics'
  OBVIOUS
<1>1. /\ seedOf' \in [Generations -> 0 .. MaxWrites] /\ seedOf'[writes + 1] = writes + 1
      /\ {} \in SUBSET Secrets /\ Begin("create", {})
  BY VaultAssumption DEF Create, Basics, TypeOK, Begin, Generations
<1> QED
  BY <1>1, BeginBasics DEF Create, Basics, TypeOK

\* A password is changed.
LEMMA ChangeBasics == Basics /\ Change => Basics'
<1> SUFFICES ASSUME Basics, Change PROVE Basics'
  OBVIOUS
<1>1. snap["main"].gen \in Generations /\ snap["main"].keep \in SUBSET Secrets
  BY FileTypes DEF Change, Opens, Basics, TypeOK, Begun, Generations, Snapshot
<1>2. seedOf' \in [Generations -> 0 .. MaxWrites] /\ Begin("change", snap["main"].keep)
  BY <1>1, VaultAssumption DEF Change, Basics, TypeOK, Begin, Generations
<1> QED
  BY <1>1, <1>2, BeginBasics DEF Change, Basics, TypeOK, told

\* A secret is put back after a change of password.
LEMMA RestoreBasics ==
  ASSUME Basics, NEW secret \in Secrets, NEW next \in {"macaroon", "changed"}, Restore(secret, next)
  PROVE  Basics'
<1>1. main.op = "change"
  BY DEF Restore, Basics, Phase, TypeOK, Writing, Rest, Secrets
<1>2. \/ main' = [main EXCEPT !.pc = next] /\ UNCHANGED <<snap, blame>>
      \/ Opens /\ main' = [main EXCEPT !.copy = snap["main"]] /\ UNCHANGED <<snap, blame>>
      \/ /\ main.copy # None /\ main' = [main EXCEPT !.pc = next, !.copy = None]
         /\ snap' = [snap EXCEPT !["main"] = WithSecret(main.copy, secret)] /\ blame' = Lost(main.copy)
  BY DEF Restore, WithSecret
<1>3. /\ main'.op = main.op /\ main'.gen = main.gen /\ main'.carry = main.carry
      /\ main'.pc \in {main.pc, next} /\ main'.copy \in {main.copy, snap["main"], None}
      /\ main' \in [op : Ops, pc : Phases, gen : 0 .. MaxWrites, carry : SUBSET Secrets, copy : Snapshot]
  BY <1>2, FileTypes, MainTypes, NoneTypes DEF Basics, Phases, Between, Settles
<1>4. snap' \in [Places -> Snapshot] /\ \A p \in Places : Begun(snap'[p])
  <2>1. UNCHANGED snap => snap' \in [Places -> Snapshot] /\ \A p \in Places : Begun(snap'[p])
    BY DEF Basics, TypeOK, Fresh, Begun
  <2>2. main.copy # None /\ snap' = [snap EXCEPT !["main"] = WithSecret(main.copy, secret)]
          => snap' \in [Places -> Snapshot] /\ \A p \in Places : Begun(snap'[p])
    BY Saved, FileTypes
  <2> QED
    BY <1>2, <2>1, <2>2
<1>5. blame' \subseteq {"torn", "raced", "recreated", "leftover"}
  BY <1>2 DEF Lost, Basics, TypeOK
<1>6. TypeOK'
  BY <1>3, <1>4, <1>5 DEF Restore, Basics, TypeOK, told, Ops, Phases
<1>7. Phase'
  BY <1>1, <1>3 DEF Restore, Basics, Phase, told, Writing, Between, Settles, Before
<1>8. Begun(main'.copy)
  BY <1>3, FileTypes DEF Begun
<1>9. Fresh'
  BY <1>3, <1>4, <1>8 DEF Restore, Basics, Fresh, Begun
<1> QED
  BY <1>6, <1>7, <1>9 DEF Basics

\* Secrets are stored from either thread, and commands end.
LEMMA SecretBasics ==
  ASSUME Basics, LoadForToken \/ SaveToken \/ LoadForMacaroon \/ SaveMacaroon
  PROVE  Basics'
<1>1. CASE LoadForToken
  <2>1. main' = [op |-> "token", pc |-> "save", gen |-> 0, carry |-> {}, copy |-> snap["main"]]
    BY <1>1 DEF LoadForToken, Rest
  <2>2. TypeOK'
    BY <1>1, <2>1, FileTypes DEF LoadForToken, Basics, TypeOK, told, files
  <2>3. Phase' /\ Fresh'
    BY <1>1, <2>1, FileTypes DEF LoadForToken, Basics, Phase, Fresh, Begun, told, files, Opens, Writing
  <2> QED
    BY <2>2, <2>3 DEF Basics
<1>2. CASE SaveToken
  <2>1. main.copy # None
    BY <1>2 DEF SaveToken, Basics, Phase, TypeOK, Writing, Rest, Before, Between, Prepares, Replaces, Settles, Secrets
  <2>2. snap' \in [Places -> Snapshot] /\ \A p \in Places : Begun(snap'[p])
    BY <1>2, <2>1, Saved, FileTypes DEF SaveToken, WithSecret
  <2>3. TypeOK'
    BY <1>2, <2>2, FileTypes, RestType DEF SaveToken, Basics, TypeOK, Lost
  <2>4. Phase' /\ Fresh'
    BY <1>2, <2>2, FileTypes DEF SaveToken, Basics, Phase, Fresh, Begun, Writing, Rest
  <2> QED
    BY <2>3, <2>4 DEF Basics
<1>3. CASE LoadForMacaroon
  <2>1. TypeOK'
    BY <1>3, FileTypes DEF LoadForMacaroon, Basics, TypeOK, told, files
  <2>2. Phase' /\ Fresh'
    BY <1>3, FileTypes DEF LoadForMacaroon, Basics, Phase, Fresh, Begun, told, files, Writing
  <2> QED
    BY <2>1, <2>2 DEF Basics
<1>4. CASE SaveMacaroon
  <2>1. snap' \in [Places -> Snapshot] /\ \A p \in Places : Begun(snap'[p])
    BY <1>4, Saved, FileTypes DEF SaveMacaroon, WithSecret
  <2>2. TypeOK'
    BY <1>4, <2>1, FileTypes, NoneTypes DEF SaveMacaroon, Basics, TypeOK, Lost
  <2>3. Phase' /\ Fresh'
    BY <1>4, <2>1, NoneTypes DEF SaveMacaroon, Basics, Phase, Fresh, Begun, Writing
  <2> QED
    BY <2>2, <2>3 DEF Basics
<1> QED
  BY <1>1, <1>2, <1>3, <1>4

\* A wallet is deleted.
LEMMA DeleteBasics == Basics /\ (Delete \/ Remove) => Basics'
<1> SUFFICES ASSUME Basics, Delete \/ Remove PROVE Basics'
  OBVIOUS
<1>1. CASE Delete
  <2>1. main' = [op |-> "delete", pc |-> "delSnap", gen |-> 0, carry |-> {}, copy |-> None]
    BY <1>1 DEF Delete, Rest
  <2>2. TypeOK'
    BY <1>1, <2>1, FileTypes, NoneTypes DEF Delete, Basics, TypeOK, files
  <2>3. Phase' /\ Fresh'
    BY <1>1, <2>1, FileTypes DEF Delete, Basics, Phase, Fresh, Begun, files, Writing
  <2> QED
    BY <2>2, <2>3 DEF Basics
<1>2. CASE Remove
  <2>1. main.pc \in {"delSnap", "delSalt", "delRest"} => main.op = "delete"
    BY DEF Basics, Phase, TypeOK, Writing, Rest, Before, Between, Prepares, Replaces, Settles, Secrets
  <2>2. /\ \A p \in Places : Begun(snap[p]) /\ Begun(None)
        /\ TypeOK /\ snap \in [Places -> Snapshot] /\ salt \in [Places -> 0 .. MaxWrites]
    BY DEF Basics, Fresh, TypeOK, Begun
  <2>3. \A p \in Places : Begun([snap EXCEPT !["main"] = None][p])
                          /\ Begun([snap EXCEPT !["bak"] = None, !["tmp"] = None][p])
    BY <2>2
  <2>4. CASE Do("delSnap", "delSalt", [snap EXCEPT !.main = None], salt)
    BY <2>1, <2>2, <2>3, <2>4, DoBasics, PlaceTypes, PlacesDistinct DEF Do, Distinct, Phases, Writing
  <2>5. CASE Do("delSalt", "delRest", snap, [salt EXCEPT !.main = 0])
    BY <2>1, <2>2, <2>3, <2>5, DoBasics, PlaceTypes, PlacesDistinct DEF Do, Distinct, Phases, Writing
  <2>6. CASE main.pc = "delRest"
    <3>1. /\ main' = Rest /\ purged' = TRUE /\ snap' = [snap EXCEPT !["bak"] = None, !["tmp"] = None]
          /\ salt' = [salt EXCEPT !["bak"] = 0, !["tmp"] = 0]
          /\ UNCHANGED <<seedOf, form, seed, password, stored, writes, faults, blame>>
      BY <1>2, <2>6 DEF Remove, Do
    <3>2. snap' \in [Places -> Snapshot] /\ salt' \in [Places -> 0 .. MaxWrites]
      <4>1. None \in Snapshot /\ 0 \in 0 .. MaxWrites
        BY NoneTypes, VaultAssumption
      <4>2. [snap EXCEPT !["bak"] = None, !["tmp"] = None] \in [Places -> Snapshot]
        BY <2>2, <4>1
      <4>3. [salt EXCEPT !["bak"] = 0, !["tmp"] = 0] \in [Places -> 0 .. MaxWrites]
        BY <2>2, <4>1
      <4> QED
        BY <3>1, <4>2, <4>3
    <3>3. TypeOK'
      BY <2>2, <3>1, <3>2, RestType DEF TypeOK
    <3>4. Phase'
      BY <3>1 DEF Phase, Writing, Rest
    <3>5. \A p \in Places : Begun(snap'[p])
      BY <2>3, <3>1
    <3>6. Fresh'
      <4>1. main'.copy = None /\ main'.gen = 0 /\ writes' = writes /\ form' = form /\ writes \in Nat
        BY <3>1, FileTypes
      <4>2. Begun(form)
        BY FileTypes
      <4> QED
        BY <3>5, <4>1, <4>2 DEF Fresh, Begun
    <3> QED
      BY <3>3, <3>4, <3>6 DEF Basics
  <2> QED
    BY <1>2, <2>4, <2>5, <2>6 DEF Remove, Do
<1> QED
  BY <1>1, <1>2

\* A file operation fails, or the app is killed.
LEMMA FaultBasics == Basics /\ (OperationFails \/ Crash) => Basics'
<1> SUFFICES ASSUME Basics, OperationFails \/ Crash PROVE Basics'
  OBVIOUS
<1>1. /\ faults' \in 0 .. MaxFaults /\ blame' \subseteq {"torn", "raced", "recreated", "leftover"}
      /\ form' \in {form, None} /\ UNCHANGED <<files, seedOf, told, writes>>
  BY VaultAssumption DEF OperationFails, Crash, Basics, TypeOK
<1>2. \/ main' = Rest
      \/ main.pc \in Replaces /\ main' = [main EXCEPT !.pc = "rollSnap"]
  BY DEF OperationFails, Crash
<1>3. CASE main' = Rest
  <2>1. TypeOK'
    BY <1>1, <1>3, RestType, NoneTypes DEF Basics, TypeOK, files, told
  <2>2. Phase' /\ Fresh'
    BY <1>1, <1>3, FileTypes DEF Basics, Phase, Fresh, Begun, files, told, Writing, Rest
  <2> QED
    BY <2>1, <2>2 DEF Basics
<1>4. CASE main.pc \in Replaces /\ main' = [main EXCEPT !.pc = "rollSnap"]
  <2>1. /\ main'.op = main.op /\ main'.pc = "rollSnap" /\ main'.gen = main.gen /\ main'.copy = main.copy
        /\ main'.carry = main.carry
        /\ main' \in [op : Ops, pc : Phases, gen : 0 .. MaxWrites, carry : SUBSET Secrets, copy : Snapshot]
    BY <1>4, MainTypes DEF Basics, Phases, Between
  <2>2. TypeOK'
    BY <1>1, <2>1, NoneTypes DEF Basics, TypeOK, files, told, Ops, Phases
  <2>3. Writing
    BY <1>4 DEF Basics, Phase, TypeOK, Writing, Rest, Replaces
  <2>4. Phase' /\ Fresh'
    BY <1>1, <2>1, <2>3, FileTypes
       DEF Basics, Phase, Fresh, Begun, files, told, Writing, Before, Between, Secrets
  <2> QED
    BY <2>2, <2>4 DEF Basics
<1> QED
  BY <1>2, <1>3, <1>4

\* A rename of the rollback fails.
LEMMA RollBackFailsBasics == Basics /\ RollBackFails => Basics'
<1> SUFFICES ASSUME Basics, RollBackFails PROVE Basics'
  OBVIOUS
<1>1. /\ faults' \in 0 .. MaxFaults /\ blame' \subseteq {"torn", "raced", "recreated", "leftover"}
      /\ UNCHANGED <<files, seedOf, form, told, writes>>
  BY VaultAssumption DEF RollBackFails, Basics, TypeOK
<1>2. CASE main' = Rest
  BY <1>1, <1>2, RestBasics DEF Basics, TypeOK, files, told
<1>3. CASE main.pc = "rollSnap" /\ main' = [main EXCEPT !.pc = "rollSalt"]
  <2>1. /\ main'.op = main.op /\ main'.pc = "rollSalt" /\ main'.gen = main.gen /\ main'.copy = main.copy
        /\ main'.carry = main.carry
        /\ main' \in [op : Ops, pc : Phases, gen : 0 .. MaxWrites, carry : SUBSET Secrets, copy : Snapshot]
    BY <1>3, MainTypes DEF Basics, Phases, Between
  <2>2. TypeOK'
    BY <1>1, <2>1 DEF Basics, TypeOK, files, told, Ops, Phases
  <2>3. Writing
    BY <1>3 DEF Basics, Phase, TypeOK, Writing, Rest
  <2>4. Phase' /\ Fresh'
    BY <1>1, <2>1, <2>3, FileTypes
       DEF Basics, Phase, Fresh, Begun, files, told, Writing, Before, Between, Secrets
  <2> QED
    BY <2>2, <2>4 DEF Basics
<1> QED
  BY <1>2, <1>3 DEF RollBackFails

\* Some file stays after a deletion.
LEMMA RemovalFailsBasics == Basics /\ RemovalFails => Basics'
<1> SUFFICES ASSUME Basics, RemovalFails PROVE Basics'
  OBVIOUS
<1>1. PICK s \in SUBSET {"bak", "tmp"}, t \in SUBSET {"bak", "tmp"} :
        /\ snap' = [p \in Places |-> IF p \in s THEN None ELSE snap[p]]
        /\ salt' = [p \in Places |-> IF p \in t THEN 0 ELSE salt[p]]
  BY DEF RemovalFails
<1>2. snap \in [Places -> Snapshot] /\ salt \in [Places -> 0 .. MaxWrites] /\ 0 \in 0 .. MaxWrites
  BY VaultAssumption DEF Basics, TypeOK
<1>3. snap' \in [Places -> Snapshot] /\ salt' \in [Places -> 0 .. MaxWrites]
  BY <1>1, <1>2, NoneTypes
<1>4. \A p \in Places : Begun(snap'[p])
  BY <1>1 DEF Basics, Fresh, Begun
<1>5. /\ faults' \in 0 .. MaxFaults /\ blame' \subseteq {"torn", "raced", "recreated", "leftover"}
      /\ main' = Rest /\ purged' = TRUE /\ UNCHANGED <<seedOf, form, seed, password, stored, writes>>
  BY VaultAssumption DEF RemovalFails, Basics, TypeOK
<1>6. TypeOK'
  BY <1>3, <1>5, RestType DEF Basics, TypeOK
<1>7. Phase'
  BY <1>5 DEF Phase, Writing, Rest
<1>8. Fresh'
  BY <1>4, <1>5, FileTypes DEF Fresh, Begun
<1> QED
  BY <1>6, <1>7, <1>8 DEF Basics

\* Every step keeps the types, phases and generations.
LEMMA BasicsStep == Basics /\ [Next]_vars => Basics'
<1> SUFFICES ASSUME Basics, [Next]_vars PROVE Basics'
  OBVIOUS
<1>1. CASE Restore("token", "macaroon") \/ Restore("macaroon", "changed")
  BY <1>1, RestoreBasics DEF Secrets
<1>2. CASE RestoreFails \/ Changed
  <2>1. password' \in 0 .. MaxWrites
    BY <1>2, MainTypes DEF RestoreFails, Changed, Basics, TypeOK, told
  <2> QED
    BY <1>2, <2>1, RestBasics DEF RestoreFails, Changed, Basics, TypeOK, told, files
<1>3. CASE UNCHANGED vars
  BY <1>3 DEF Basics, TypeOK, Phase, Fresh, Begun, Writing, vars, files, told
<1> QED
  BY <1>1, <1>2, <1>3, CreateBasics, ChangeBasics, WriteBasics, SecretBasics, DeleteBasics, FaultBasics,
     RollBackFailsBasics, RemovalFailsBasics
     DEF Next

\* They hold in the beginning.
LEMMA BasicsInit == Init => Basics
<1> SUFFICES ASSUME Init PROVE Basics
  OBVIOUS
<1>1. TypeOK
  <2>1. snap \in [Places -> Snapshot] /\ form \in Snapshot
    BY NoneTypes DEF Init, NoFile
  <2>2. salt \in [Places -> 0 .. MaxWrites] /\ seedOf \in [Generations -> 0 .. MaxWrites]
    BY VaultAssumption DEF Init
  <2> QED
    <3>1. main = Rest /\ blame \subseteq {"leftover"} /\ stored = {} /\ purged = FALSE
      BY DEF Init
    <3>2. /\ seed \in 0 .. MaxWrites /\ password \in 0 .. MaxWrites
          /\ writes \in 0 .. MaxWrites /\ faults \in 0 .. MaxFaults
      BY VaultAssumption DEF Init
    <3> QED
      BY <2>1, <2>2, <3>1, <3>2, RestType DEF TypeOK
<1>2. Phase /\ Fresh
  BY NoneTypes, VaultAssumption DEF Init, Phase, Fresh, Begun, NoFile, Rest, Writing
<1> QED
  BY <1>1, <1>2 DEF Basics

----------------------------------------------------------------------------
(* What each step does to the files *)

Kept == (Clean => Files) /\ (blame \subseteq {"leftover"} => Promised) /\ ("raced" \notin blame => Emptied)

\* A file operation of a command that writes: the rest of the state stays.
Advances(pc, next) ==
  /\ main.pc = pc /\ main'.pc = next /\ main'.op = main.op /\ main'.gen = main.gen /\ main'.carry = main.carry
  /\ seedOf' = seedOf /\ form' = form /\ blame' = blame
  /\ seed' = seed /\ password' = password /\ stored' = stored /\ purged' = purged
  /\ main.op \in {"create", "change"} /\ main.gen \in 1 .. writes /\ writes \in Nat

\* What the file operations of a write have in common.
LEMMA FileStep ==
  ASSUME IInv, NEW pc \in Before \cup Between, NEW next \in Before \cup Between,
         NEW newSnap, NEW newSalt, Do(pc, next, newSnap, newSalt)
  PROVE  /\ Advances(pc, next) /\ snap' = newSnap /\ salt' = newSalt
         /\ ("raced" \notin blame => Emptied)'
<1>1. /\ main.pc = pc /\ main'.pc = next
      /\ main'.op = main.op /\ main'.gen = main.gen /\ main'.carry = main.carry
      /\ snap' = newSnap /\ salt' = newSalt
      /\ seedOf' = seedOf /\ form' = form /\ blame' = blame
      /\ seed' = seed /\ password' = password /\ stored' = stored /\ purged' = purged
  BY MainTypes DEF Do, told, IInv
<1>2. main.op \in {"create", "change"} /\ main.gen \in 1 .. writes /\ writes \in Nat
  BY <1>1, FileTypes
     DEF IInv, Basics, Phase, Fresh, TypeOK, Writing, Rest, Generations, Before, Between, Prepares, Replaces, Settles
<1>3. ASSUME "raced" \notin blame PROVE Emptied'
  BY <1>1, <1>2, <1>3
     DEF IInv, Emptied, Rest, Before, Between, Prepares, Replaces, Settles
<1> QED
  BY <1>1, <1>2, <1>3 DEF Advances

\* A rename, place by place.
Renamed(f, g, p, q, none) ==
  IF f[p] = none THEN g = f
  ELSE g[q] = f[p] /\ g[p] = none /\ \A x \in Places \ {p, q} : g[x] = f[x]

\* Moved is such a rename.
LEMMA MovedRenames ==
  ASSUME NEW T, NEW none \in T, NEW f \in [Places -> T], NEW p \in Places, NEW q \in Places, p # q
  PROVE  Renamed(f, Moved(f, p, q, none), p, q, none)
BY MovedTypes DEF Renamed

\* A write or a removal, place by place.
Stays(f, g) == \A x \in Places : g[x] = f[x]
Only(f, g, p, v) == g[p] = v /\ \A x \in Places \ {p} : g[x] = f[x]

\* The sets of steps are expanded from here on.
USE DEF Before, Between, Prepares, Replaces, Settles, Aside, Done, Secrets, Writing, Places

\* A left-over .tmp snapshot is removed: nothing depends on it.
LEMMA DropSnapTmpKeeps ==
  ASSUME IInv, Do("dropSnapTmp", "dropSaltTmp", [snap EXCEPT !.tmp = None], salt)
  PROVE  Kept'
<1>1. /\ Advances("dropSnapTmp", "dropSaltTmp") /\ ("raced" \notin blame => Emptied)'
      /\ snap' = [snap EXCEPT !.tmp = None] /\ salt' = salt
  BY FileStep
<1>2. /\ Only(snap, snap', "tmp", None)
      /\ Stays(salt, salt')
  <2>1. snap \in [Places -> Snapshot] /\ salt \in [Places -> 0 .. MaxWrites]
        /\ None \in Snapshot /\ 0 \in 0 .. MaxWrites
    BY NoneTypes, VaultAssumption DEF IInv, TypeOK
  <2> QED
    BY <1>1, <2>1, PlacesDistinct DEF Stays, Only, Distinct, NewFile, HasWallet
<1>3. ASSUME Clean PROVE Files'
  BY <1>1, <1>2, <1>3, NoneTypes
     DEF IInv, Clean, Files, NewFiles, NewFile, Recoverable, OldFiles, Pair, Advances, Renamed,
         Stays, Only, Fresh, Begun
<1>4. ASSUME blame \subseteq {"leftover"} PROVE Promised'
  BY <1>1, <1>2, <1>4, NoneTypes
     DEF IInv, Clean, Files, NewFiles, NewFile, Recoverable, OldFiles, Pair, Promised, Blank,
         Steady, Old, SaltThere, Advances, Renamed, Stays, Only, Fresh, Begun
<1> QED
  BY <1>1, <1>3, <1>4 DEF Kept, Clean, Advances

\* A left-over .tmp salt is removed.
LEMMA DropSaltTmpKeeps ==
  ASSUME IInv, Do("dropSaltTmp", "writeSnap", snap, [salt EXCEPT !.tmp = 0])
  PROVE  Kept'
<1>1. /\ Advances("dropSaltTmp", "writeSnap") /\ ("raced" \notin blame => Emptied)'
      /\ snap' = snap /\ salt' = [salt EXCEPT !.tmp = 0]
  BY FileStep
<1>2. /\ Stays(snap, snap')
      /\ Only(salt, salt', "tmp", 0)
  <2>1. snap \in [Places -> Snapshot] /\ salt \in [Places -> 0 .. MaxWrites]
        /\ None \in Snapshot /\ 0 \in 0 .. MaxWrites
    BY NoneTypes, VaultAssumption DEF IInv, TypeOK
  <2> QED
    BY <1>1, <2>1, PlacesDistinct DEF Stays, Only, Distinct, NewFile, HasWallet
<1>3. ASSUME Clean PROVE Files'
  BY <1>1, <1>2, <1>3, NoneTypes
     DEF IInv, Clean, Files, NewFiles, NewFile, Recoverable, OldFiles, Pair, Advances, Renamed,
         Stays, Only, Fresh, Begun
<1>4. ASSUME blame \subseteq {"leftover"} PROVE Promised'
  BY <1>1, <1>2, <1>4, NoneTypes
     DEF IInv, Clean, Files, NewFiles, NewFile, Recoverable, OldFiles, Pair, Promised, Blank,
         Steady, Old, SaltThere, Advances, Renamed, Stays, Only, Fresh, Begun
<1> QED
  BY <1>1, <1>3, <1>4 DEF Kept, Clean, Advances

\* The new snapshot is written beside the old one.
LEMMA WriteSnapKeeps ==
  ASSUME IInv, Do("writeSnap", "writeSalt", [snap EXCEPT !.tmp = [gen |-> main.gen, keep |-> {}]], salt)
  PROVE  Kept'
<1>1. /\ Advances("writeSnap", "writeSalt") /\ ("raced" \notin blame => Emptied)'
      /\ snap' = [snap EXCEPT !.tmp = [gen |-> main.gen, keep |-> {}]] /\ salt' = salt
  BY FileStep
<1>2. /\ Only(snap, snap', "tmp", NewFile)
      /\ Stays(salt, salt')
  <2>1. snap \in [Places -> Snapshot] /\ salt \in [Places -> 0 .. MaxWrites]
        /\ None \in Snapshot /\ 0 \in 0 .. MaxWrites
    BY NoneTypes, VaultAssumption DEF IInv, TypeOK
  <2> QED
    BY <1>1, <2>1, PlacesDistinct DEF Stays, Only, Distinct, NewFile, HasWallet
<1>3. ASSUME Clean PROVE Files'
  BY <1>1, <1>2, <1>3, NoneTypes
     DEF IInv, Clean, Files, NewFiles, NewFile, Recoverable, OldFiles, Pair, Advances, Renamed,
         Stays, Only, Fresh, Begun
<1>4. ASSUME blame \subseteq {"leftover"} PROVE Promised'
  BY <1>1, <1>2, <1>4, NoneTypes
     DEF IInv, Clean, Files, NewFiles, NewFile, Recoverable, OldFiles, Pair, Promised, Blank,
         Steady, Old, SaltThere, Advances, Renamed, Stays, Only, Fresh, Begun
<1> QED
  BY <1>1, <1>3, <1>4 DEF Kept, Clean, Advances

\* The new salt is written beside the old one.
LEMMA WriteSaltKeeps ==
  ASSUME IInv, Do("writeSalt", "dropSnapBak", snap, [salt EXCEPT !.tmp = main.gen])
  PROVE  Kept'
<1>1. /\ Advances("writeSalt", "dropSnapBak") /\ ("raced" \notin blame => Emptied)'
      /\ snap' = snap /\ salt' = [salt EXCEPT !.tmp = main.gen]
  BY FileStep
<1>2. /\ Stays(snap, snap')
      /\ Only(salt, salt', "tmp", main.gen)
  <2>1. snap \in [Places -> Snapshot] /\ salt \in [Places -> 0 .. MaxWrites]
        /\ None \in Snapshot /\ 0 \in 0 .. MaxWrites
    BY NoneTypes, VaultAssumption DEF IInv, TypeOK
  <2> QED
    BY <1>1, <2>1, PlacesDistinct DEF Stays, Only, Distinct, NewFile, HasWallet
<1>3. ASSUME Clean PROVE Files'
  BY <1>1, <1>2, <1>3, NoneTypes
     DEF IInv, Clean, Files, NewFiles, NewFile, Recoverable, OldFiles, Pair, Advances, Renamed,
         Stays, Only, Fresh, Begun
<1>4. ASSUME blame \subseteq {"leftover"} PROVE Promised'
  BY <1>1, <1>2, <1>4, NoneTypes
     DEF IInv, Clean, Files, NewFiles, NewFile, Recoverable, OldFiles, Pair, Promised, Blank,
         Steady, Old, SaltThere, Advances, Renamed, Stays, Only, Fresh, Begun
<1> QED
  BY <1>1, <1>3, <1>4 DEF Kept, Clean, Advances

\* An old backup goes only while there is a main snapshot.
LEMMA DropSnapBakKeeps ==
  ASSUME IInv, Do("dropSnapBak", "backSnap", IF HasWallet THEN [snap EXCEPT !.bak = None] ELSE snap, salt)
  PROVE  Kept'
<1>1. /\ Advances("dropSnapBak", "backSnap") /\ ("raced" \notin blame => Emptied)'
      /\ snap' = (IF HasWallet THEN [snap EXCEPT !.bak = None] ELSE snap) /\ salt' = salt
  BY FileStep
<1>2. /\ (Stays(snap, snap') \/ Only(snap, snap', "bak", None))
      /\ Stays(salt, salt')
  <2>1. snap \in [Places -> Snapshot] /\ salt \in [Places -> 0 .. MaxWrites]
        /\ None \in Snapshot /\ 0 \in 0 .. MaxWrites
    BY NoneTypes, VaultAssumption DEF IInv, TypeOK
  <2> QED
    BY <1>1, <2>1, PlacesDistinct DEF Stays, Only, Distinct, NewFile, HasWallet
<1>3. ASSUME Clean PROVE Files'
  BY <1>1, <1>2, <1>3, NoneTypes
     DEF IInv, Clean, Files, NewFiles, NewFile, Recoverable, OldFiles, Pair, Advances, Renamed,
         Stays, Only, Fresh, Begun
<1>4. ASSUME blame \subseteq {"leftover"} PROVE Promised'
  BY <1>1, <1>2, <1>4, NoneTypes
     DEF IInv, Clean, Files, NewFiles, NewFile, Recoverable, OldFiles, Pair, Promised, Blank,
         Steady, Old, SaltThere, Advances, Renamed, Stays, Only, Fresh, Begun
<1> QED
  BY <1>1, <1>3, <1>4 DEF Kept, Clean, Advances

\* An old backup of the salt goes; the pair is .bak and the main salt.
LEMMA DropSaltBakKeeps ==
  ASSUME IInv, Do("dropSaltBak", "backSalt", snap, IF salt.main # 0 THEN [salt EXCEPT !.bak = 0] ELSE salt)
  PROVE  Kept'
<1>1. /\ Advances("dropSaltBak", "backSalt") /\ ("raced" \notin blame => Emptied)'
      /\ snap' = snap /\ salt' = (IF salt.main # 0 THEN [salt EXCEPT !.bak = 0] ELSE salt)
  BY FileStep
<1>2. /\ Stays(snap, snap')
      /\ (Stays(salt, salt') \/ Only(salt, salt', "bak", 0))
  <2>1. snap \in [Places -> Snapshot] /\ salt \in [Places -> 0 .. MaxWrites]
        /\ None \in Snapshot /\ 0 \in 0 .. MaxWrites
    BY NoneTypes, VaultAssumption DEF IInv, TypeOK
  <2> QED
    BY <1>1, <2>1, PlacesDistinct DEF Stays, Only, Distinct, NewFile, HasWallet
<1>3. ASSUME Clean PROVE Files'
  BY <1>1, <1>2, <1>3, NoneTypes
     DEF IInv, Clean, Files, NewFiles, NewFile, Recoverable, OldFiles, Pair, Advances, Renamed,
         Stays, Only, Fresh, Begun
<1>4. ASSUME blame \subseteq {"leftover"} PROVE Promised'
  BY <1>1, <1>2, <1>4, NoneTypes
     DEF IInv, Clean, Files, NewFiles, NewFile, Recoverable, OldFiles, Pair, Promised, Blank,
         Steady, Old, SaltThere, Advances, Renamed, Stays, Only, Fresh, Begun
<1> QED
  BY <1>1, <1>3, <1>4 DEF Kept, Clean, Advances

\* The old salt goes aside.
LEMMA BackSaltKeeps ==
  ASSUME IInv, Do("backSalt", "newSnap", snap, Moved(salt, "main", "bak", 0))
  PROVE  Kept'
<1>1. /\ Advances("backSalt", "newSnap") /\ ("raced" \notin blame => Emptied)'
      /\ snap' = snap /\ salt' = Moved(salt, "main", "bak", 0)
  BY FileStep
<1>2. /\ Stays(snap, snap')
      /\ Renamed(salt, salt', "main", "bak", 0)
  <2>1. snap \in [Places -> Snapshot] /\ salt \in [Places -> 0 .. MaxWrites]
        /\ None \in Snapshot /\ 0 \in 0 .. MaxWrites
    BY NoneTypes, VaultAssumption DEF IInv, TypeOK
  <2>2. Renamed(salt, Moved(salt, "main", "bak", 0), "main", "bak", 0)
    BY <2>1, MovedRenames, PlacesDistinct DEF Distinct
  <2> QED
    BY <1>1, <2>1, <2>2, PlacesDistinct DEF Stays, Only, Distinct, NewFile, HasWallet
<1>3. ASSUME Clean PROVE Files'
  BY <1>1, <1>2, <1>3, NoneTypes
     DEF IInv, Clean, Files, NewFiles, NewFile, Recoverable, OldFiles, Pair, Advances, Renamed,
         Stays, Only, Fresh, Begun
<1>4. ASSUME blame \subseteq {"leftover"} PROVE Promised'
  BY <1>1, <1>2, <1>4, NoneTypes
     DEF IInv, Clean, Files, NewFiles, NewFile, Recoverable, OldFiles, Pair, Promised, Blank,
         Steady, Old, SaltThere, Advances, Renamed, Stays, Only, Fresh, Begun
<1> QED
  BY <1>1, <1>3, <1>4 DEF Kept, Clean, Advances

\* The new snapshot takes its place; the old pair is in .bak.
LEMMA NewSnapKeeps ==
  ASSUME IInv, Do("newSnap", "newSalt", Moved(snap, "tmp", "main", None), salt)
  PROVE  Kept'
<1>1. /\ Advances("newSnap", "newSalt") /\ ("raced" \notin blame => Emptied)'
      /\ snap' = Moved(snap, "tmp", "main", None) /\ salt' = salt
  BY FileStep
<1>2. /\ Renamed(snap, snap', "tmp", "main", None)
      /\ Stays(salt, salt')
  <2>1. snap \in [Places -> Snapshot] /\ salt \in [Places -> 0 .. MaxWrites]
        /\ None \in Snapshot /\ 0 \in 0 .. MaxWrites
    BY NoneTypes, VaultAssumption DEF IInv, TypeOK
  <2>2. Renamed(snap, Moved(snap, "tmp", "main", None), "tmp", "main", None)
    BY <2>1, MovedRenames, PlacesDistinct DEF Distinct
  <2> QED
    BY <1>1, <2>1, <2>2, PlacesDistinct DEF Stays, Only, Distinct, NewFile, HasWallet
<1>3. ASSUME Clean PROVE Files'
  BY <1>1, <1>2, <1>3, NoneTypes
     DEF IInv, Clean, Files, NewFiles, NewFile, Recoverable, OldFiles, Pair, Advances, Renamed,
         Stays, Only, Fresh, Begun
<1>4. ASSUME blame \subseteq {"leftover"} PROVE Promised'
  BY <1>1, <1>2, <1>4, NoneTypes
     DEF IInv, Clean, Files, NewFiles, NewFile, Recoverable, OldFiles, Pair, Promised, Blank,
         Steady, Old, SaltThere, Advances, Renamed, Stays, Only, Fresh, Begun
<1> QED
  BY <1>1, <1>3, <1>4 DEF Kept, Clean, Advances

\* The new salt follows; from here the pair is the new one.
LEMMA NewSaltKeeps ==
  ASSUME IInv, Do("newSalt", "purgeSnapBak", snap, Moved(salt, "tmp", "main", 0))
  PROVE  Kept'
<1>1. /\ Advances("newSalt", "purgeSnapBak") /\ ("raced" \notin blame => Emptied)'
      /\ snap' = snap /\ salt' = Moved(salt, "tmp", "main", 0)
  BY FileStep
<1>2. /\ Stays(snap, snap')
      /\ Renamed(salt, salt', "tmp", "main", 0)
  <2>1. snap \in [Places -> Snapshot] /\ salt \in [Places -> 0 .. MaxWrites]
        /\ None \in Snapshot /\ 0 \in 0 .. MaxWrites
    BY NoneTypes, VaultAssumption DEF IInv, TypeOK
  <2>2. Renamed(salt, Moved(salt, "tmp", "main", 0), "tmp", "main", 0)
    BY <2>1, MovedRenames, PlacesDistinct DEF Distinct
  <2> QED
    BY <1>1, <2>1, <2>2, PlacesDistinct DEF Stays, Only, Distinct, NewFile, HasWallet
<1>3. ASSUME Clean PROVE Files'
  BY <1>1, <1>2, <1>3, NoneTypes
     DEF IInv, Clean, Files, NewFiles, NewFile, Recoverable, OldFiles, Pair, Advances, Renamed,
         Stays, Only, Fresh, Begun
<1>4. ASSUME blame \subseteq {"leftover"} PROVE Promised'
  BY <1>1, <1>2, <1>4, NoneTypes
     DEF IInv, Clean, Files, NewFiles, NewFile, Recoverable, OldFiles, Pair, Promised, Blank,
         Steady, Old, SaltThere, Advances, Renamed, Stays, Only, Fresh, Begun
<1> QED
  BY <1>1, <1>3, <1>4 DEF Kept, Clean, Advances

\* The backups go when the new pair is complete.
LEMMA PurgeSnapBakKeeps ==
  ASSUME IInv, Do("purgeSnapBak", "purgeSaltBak", [snap EXCEPT !.bak = None], salt)
  PROVE  Kept'
<1>1. /\ Advances("purgeSnapBak", "purgeSaltBak") /\ ("raced" \notin blame => Emptied)'
      /\ snap' = [snap EXCEPT !.bak = None] /\ salt' = salt
  BY FileStep
<1>2. /\ Only(snap, snap', "bak", None)
      /\ Stays(salt, salt')
  <2>1. snap \in [Places -> Snapshot] /\ salt \in [Places -> 0 .. MaxWrites]
        /\ None \in Snapshot /\ 0 \in 0 .. MaxWrites
    BY NoneTypes, VaultAssumption DEF IInv, TypeOK
  <2> QED
    BY <1>1, <2>1, PlacesDistinct DEF Stays, Only, Distinct, NewFile, HasWallet
<1>3. ASSUME Clean PROVE Files'
  BY <1>1, <1>2, <1>3, NoneTypes
     DEF IInv, Clean, Files, NewFiles, NewFile, Recoverable, OldFiles, Pair, Advances, Renamed,
         Stays, Only, Fresh, Begun
<1>4. ASSUME blame \subseteq {"leftover"} PROVE Promised'
  BY <1>1, <1>2, <1>4, NoneTypes
     DEF IInv, Clean, Files, NewFiles, NewFile, Recoverable, OldFiles, Pair, Promised, Blank,
         Steady, Old, SaltThere, Advances, Renamed, Stays, Only, Fresh, Begun
<1> QED
  BY <1>1, <1>3, <1>4 DEF Kept, Clean, Advances

\* The backup of the salt goes.
LEMMA PurgeSaltBakKeeps ==
  ASSUME IInv, Do("purgeSaltBak", IF main.op = "create" THEN "created" ELSE "token", snap, [salt EXCEPT !.bak = 0])
  PROVE  Kept'
<1>1. /\ Advances("purgeSaltBak", (IF main.op = "create" THEN "created" ELSE "token"))
      /\ ("raced" \notin blame => Emptied)'
      /\ snap' = snap /\ salt' = [salt EXCEPT !.bak = 0]
  BY FileStep
<1>2. /\ Stays(snap, snap')
      /\ Only(salt, salt', "bak", 0)
  <2>1. snap \in [Places -> Snapshot] /\ salt \in [Places -> 0 .. MaxWrites]
        /\ None \in Snapshot /\ 0 \in 0 .. MaxWrites
    BY NoneTypes, VaultAssumption DEF IInv, TypeOK
  <2> QED
    BY <1>1, <2>1, PlacesDistinct DEF Stays, Only, Distinct, NewFile, HasWallet
<1>3. ASSUME Clean PROVE Files'
  BY <1>1, <1>2, <1>3, NoneTypes
     DEF IInv, Clean, Files, NewFiles, NewFile, Recoverable, OldFiles, Pair, Advances, Renamed,
         Stays, Only, Fresh, Begun
<1>4. ASSUME blame \subseteq {"leftover"} PROVE Promised'
  BY <1>1, <1>2, <1>4, NoneTypes
     DEF IInv, Clean, Files, NewFiles, NewFile, Recoverable, OldFiles, Pair, Promised, Blank,
         Steady, Old, SaltThere, Advances, Renamed, Stays, Only, Fresh, Begun
<1> QED
  BY <1>1, <1>3, <1>4 DEF Kept, Clean, Advances

\* A missing snapshot is restored from its backup.
LEMMA RollSnapKeeps ==
  ASSUME IInv, Do("rollSnap", "rollSalt", IF ~HasWallet THEN Moved(snap, "bak", "main", None) ELSE snap, salt)
  PROVE  Kept'
<1>1. /\ Advances("rollSnap", "rollSalt") /\ ("raced" \notin blame => Emptied)'
      /\ snap' = (IF ~HasWallet THEN Moved(snap, "bak", "main", None) ELSE snap) /\ salt' = salt
  BY FileStep
<1>2. /\ IF snap["main"] = None THEN Renamed(snap, snap', "bak", "main", None) ELSE snap' = snap
      /\ Stays(salt, salt')
  <2>1. snap \in [Places -> Snapshot] /\ salt \in [Places -> 0 .. MaxWrites]
        /\ None \in Snapshot /\ 0 \in 0 .. MaxWrites
    BY NoneTypes, VaultAssumption DEF IInv, TypeOK
  <2> QED
    BY <1>1, <2>1, MovedRenames, PlacesDistinct DEF Stays, Only, Distinct, NewFile, HasWallet
<1>3. ASSUME Clean PROVE Files'
  BY <1>1, <1>2, <1>3, NoneTypes
     DEF IInv, Clean, Files, NewFiles, NewFile, Recoverable, OldFiles, Pair, Advances, Renamed,
         Stays, Only, Fresh, Begun
<1>4. ASSUME blame \subseteq {"leftover"} PROVE Promised'
  BY <1>1, <1>2, <1>4, NoneTypes
     DEF IInv, Clean, Files, NewFiles, NewFile, Recoverable, OldFiles, Pair, Promised, Blank,
         Steady, Old, SaltThere, Advances, Renamed, Stays, Only, Fresh, Begun
<1> QED
  BY <1>1, <1>3, <1>4 DEF Kept, Clean, Advances

\* The old snapshot goes aside; it is the one the secrets were read from, or blamed.
LEMMA BackSnapKeeps ==
  ASSUME IInv, main.pc = "backSnap", BackUpSnap
  PROVE  Kept'
<1>1. /\ main'.pc = "dropSaltBak" /\ main'.op = main.op /\ main'.gen = main.gen /\ main'.carry = main.carry
      /\ snap' = Moved(snap, "main", "bak", None) /\ salt' = salt
      /\ blame' = IF main.op = "change" /\ snap["main"].keep # main.carry THEN blame \cup {"raced"} ELSE blame
      /\ seedOf' = seedOf /\ form' = form
      /\ seed' = seed /\ password' = password /\ stored' = stored /\ purged' = purged
  BY MainTypes DEF IInv, BackUpSnap, Do, told
<1>2. Renamed(snap, snap', "main", "bak", None)
  <2>1. snap \in [Places -> Snapshot] /\ None \in Snapshot
    BY NoneTypes DEF IInv, TypeOK
  <2> QED
    BY <1>1, <2>1, MovedRenames, PlacesDistinct DEF Distinct
<1>3. main.op \in {"create", "change"} /\ main.gen \in 1 .. writes /\ writes \in Nat /\ main.op # "rest"
  BY FileTypes DEF IInv, Basics, Phase, Fresh, TypeOK, Rest, Generations
<1>4. ASSUME Clean' PROVE Files'
  BY <1>1, <1>2, <1>3, <1>4, NoneTypes
     DEF IInv, Clean, Renamed, Fresh, Begun, Files, NewFiles, NewFile, Recoverable, OldFiles, Pair
<1>5. ASSUME blame' \subseteq {"leftover"} PROVE Promised'
  BY <1>1, <1>2, <1>3, <1>5, NoneTypes
     DEF IInv, Clean, Renamed, Fresh, Begun, Promised, Blank, Steady, Old, SaltThere, Files,
         NewFiles, NewFile, Recoverable, OldFiles, Pair
<1>6. ASSUME "raced" \notin blame' PROVE Emptied'
  BY <1>1, <1>3, <1>6 DEF IInv, Emptied, Rest
<1> QED
  BY <1>4, <1>5, <1>6 DEF Kept

\* A missing salt is restored from its backup.
LEMMA RollSaltKeeps ==
  ASSUME IInv, main.pc = "rollSalt", RollBack
  PROVE  Kept'
<1>1. /\ main' = Rest /\ snap' = snap /\ blame' = blame /\ seedOf' = seedOf /\ form' = form
      /\ salt' = (IF salt["main"] = 0 THEN Moved(salt, "bak", "main", 0) ELSE salt)
      /\ seed' = seed /\ password' = password /\ stored' = stored /\ purged' = purged
  BY DEF RollBack, Do, told
<1>2. IF salt["main"] = 0 THEN Renamed(salt, salt', "bak", "main", 0) ELSE salt' = salt
  <2>1. salt \in [Places -> 0 .. MaxWrites] /\ 0 \in 0 .. MaxWrites
    BY VaultAssumption DEF IInv, TypeOK
  <2>2. Renamed(salt, Moved(salt, "bak", "main", 0), "bak", "main", 0)
    BY <2>1, MovedRenames, PlacesDistinct DEF Distinct
  <2> QED
    BY <1>1, <2>2
<1>3. main' = Rest /\ main'.op = "rest" /\ main'.pc = "rest" /\ main'.gen = 0 /\ main.op # "rest"
  BY <1>1 DEF Rest, IInv, Phase
<1>4. ASSUME Clean PROVE Files'
  BY <1>1, <1>2, <1>3, <1>4, NoneTypes
     DEF IInv, Clean, Renamed, Fresh, Begun, Files, NewFiles, NewFile, Recoverable, OldFiles, Pair
<1>5. ASSUME blame \subseteq {"leftover"} PROVE Promised'
  BY <1>1, <1>2, <1>3, <1>5, NoneTypes
     DEF IInv, Clean, Renamed, Fresh, Begun, Promised, Blank, Steady, Old, SaltThere, Files,
         NewFiles, NewFile, Recoverable, OldFiles, Pair
<1>6. ASSUME "raced" \notin blame PROVE Emptied'
  BY <1>1, <1>3, <1>6 DEF IInv, Emptied
<1> QED
  BY <1>1, <1>4, <1>5, <1>6 DEF Kept, Clean

\* The user is told that his wallet is there.
LEMMA CreatedKeeps ==
  ASSUME IInv, Created
  PROVE  Kept'
<1>1. /\ main.pc = "created" /\ snap' = snap /\ salt' = salt /\ blame' = blame /\ seedOf' = seedOf /\ form' = form
      /\ seed' = main.gen /\ password' = main.gen /\ stored' = {} /\ purged' = purged
  BY DEF Created, files
<1>2. main' = Rest /\ main'.op = "rest" /\ main'.pc = "rest" /\ main'.gen = 0
  BY DEF Created, Rest
<1>3. main.op = "create" /\ main.gen \in Generations /\ seedOf[main.gen] = main.gen
  BY <1>1 DEF IInv, Phase, TypeOK, Rest
<1>4. main.op # "rest" /\ main.gen \in 1 .. writes /\ writes \in Nat
  BY <1>3, FileTypes DEF IInv, Basics, Fresh, TypeOK, Generations
<1>5. ASSUME Clean PROVE Files'
  BY <1>1, <1>2, <1>3, <1>4, <1>5, NoneTypes
     DEF IInv, Clean, Fresh, Begun, Files, NewFiles, NewFile, Recoverable, OldFiles, Pair
<1>6. ASSUME blame \subseteq {"leftover"} PROVE Promised'
  BY <1>1, <1>2, <1>3, <1>4, <1>6, NoneTypes, MainTypes, VaultAssumption
     DEF IInv, Clean, Fresh, Begun, Promised, Blank, Steady, Old, SaltThere, Files, NewFiles,
         NewFile, Recoverable, OldFiles, Pair, Generations, TypeOK, Phase
<1>7. ASSUME "raced" \notin blame PROVE Emptied'
  BY <1>1, <1>2, <1>4, <1>7 DEF IInv, Emptied, Rest
<1> QED
  BY <1>1, <1>5, <1>6, <1>7 DEF Kept, Clean

\* The steps of write_wallet_atomic together.
LEMMA WriteKeeps == IInv /\ Write => Kept'
BY DropSnapTmpKeeps, DropSaltTmpKeeps, WriteSnapKeeps, WriteSaltKeeps, DropSnapBakKeeps, BackSnapKeeps,
   DropSaltBakKeeps, BackSaltKeeps, NewSnapKeeps, NewSaltKeeps, PurgeSnapBakKeeps, PurgeSaltBakKeeps,
   RollSnapKeeps, RollSaltKeeps, CreatedKeeps
      DEF Write, Kept, DropTmp, WriteTmp, BackUpSnap, BackUpSalt, Replace, PurgeBak, RollBack

\* A wallet is created where there is none to be seen.
LEMMA CreateKeeps ==
  ASSUME IInv, Create
  PROVE  Kept'
<1>1. /\ main'.op = "create" /\ main'.pc = "dropSnapTmp" /\ main'.gen = writes + 1 /\ snap' = snap /\ salt' = salt
      /\ form' = form /\ seed' = seed /\ purged' = FALSE /\ main = Rest
      /\ blame' = IF seed # 0 THEN blame \cup {"recreated"} ELSE blame
  BY DEF Create, Begin, files, Rest
<1>2. writes \in Nat /\ form.gen \in 0 .. writes
  BY FileTypes, NoneTypes DEF IInv, Basics, Fresh, Begun
<1>3. ASSUME Clean' PROVE Files'
  BY <1>1, <1>3 DEF IInv, Clean, Files, NewFiles, NewFile, Recoverable, OldFiles, Pair
<1>4. ASSUME blame' \subseteq {"leftover"} PROVE Promised'
  BY <1>1, <1>2, <1>4 DEF Promised, Blank, Files, NewFiles, NewFile, Recoverable, OldFiles, Pair
<1>5. Emptied'
  BY <1>1 DEF Emptied
<1> QED
  BY <1>3, <1>4, <1>5 DEF Kept

\* A change of password starts from files that open.
LEMMA ChangeKeeps ==
  ASSUME IInv, Change
  PROVE  Kept'
<1>1. /\ main'.op = "change" /\ main'.pc = "dropSnapTmp" /\ main'.gen = writes + 1 /\ main = Rest /\ main.op = "rest"
      /\ snap' = snap /\ salt' = salt /\ main.pc = "rest"
      /\ form' = form /\ seed' = seed /\ purged' = purged /\ blame' = blame
      /\ password' = password /\ stored' = stored /\ Opens
      /\ seedOf' = [seedOf EXCEPT ![writes + 1] = seedOf[snap["main"].gen]]
  BY DEF Change, Begin, files, Rest, told
<1>2. /\ writes \in Nat /\ form.gen \in 0 .. writes /\ writes + 1 \in Generations
      /\ seedOf \in [Generations -> 0 .. MaxWrites]
  <2>1. writes \in Nat /\ writes < MaxWrites /\ MaxWrites \in Nat
    BY FileTypes DEF IInv, Basics, Change, Begin
  <2>2. form.gen \in 0 .. writes
    BY FileTypes, NoneTypes, <2>1 DEF IInv, Basics, Begun
  <2>3. seedOf \in [Generations -> 0 .. MaxWrites]
    BY DEF IInv, TypeOK
  <2> QED
    BY <2>1, <2>2, <2>3 DEF Generations
<1>3. /\ seedOf'[writes + 1] = seedOf[snap["main"].gen]
      /\ \A g \in 1 .. writes : seedOf'[g] = seedOf[g]
  BY <1>1, <1>2 DEF IInv, TypeOK, Generations
<1>4. ASSUME Clean PROVE Files'
  BY <1>1, <1>2, <1>3, <1>4
     DEF IInv, Clean, Opens, Fresh, Begun, Files, NewFiles, NewFile, Recoverable, OldFiles, Pair
<1>5. ASSUME blame \subseteq {"leftover"} PROVE Promised'
  BY <1>1, <1>2, <1>5
     DEF IInv, Opens, Fresh, Begun, Promised, Blank, Steady, Old, SaltThere, Files, NewFiles,
         NewFile, Recoverable, OldFiles, Pair
<1>6. ASSUME "raced" \notin blame PROVE Emptied'
  BY <1>1, <1>6 DEF IInv, Emptied, Opens, NoFile
<1> QED
  BY <1>1, <1>4, <1>5, <1>6 DEF Kept, Clean

\* A snapshot that is saved is the one on disk with a secret more, or blamed.
LEMMA SavedOver ==
  ASSUME IInv, NEW file \in Snapshot, file # None, Begun(file), NEW secret \in Secrets,
         snap' = [snap EXCEPT !["main"] = WithSecret(file, secret)], blame' = Lost(file),
         "raced" \notin blame'
  PROVE  /\ blame' = blame /\ snap["main"] = file /\ snap'["main"] # None
         /\ snap'["main"].gen = snap["main"].gen /\ snap'["main"].keep = snap["main"].keep \cup {secret}
         /\ snap'["bak"] = snap["bak"] /\ snap'["tmp"] = snap["tmp"]
<1>1. blame' = blame /\ snap["main"] = file
  BY DEF Lost
<1>2. snap \in [Places -> Snapshot]
  BY DEF IInv, TypeOK
<1> QED
  BY <1>1, <1>2, Saved, PlacesDistinct DEF Distinct, IInv, Basics

\* The token is saved over the snapshot it was loaded with, or blamed.
LEMMA SaveTokenKeeps ==
  ASSUME IInv, SaveToken
  PROVE  Kept'
<1>1. /\ main.pc = "save" /\ main' = Rest /\ salt' = salt /\ seedOf' = seedOf /\ form' = form /\ seed' = seed
      /\ password' = password /\ purged' = purged /\ stored' = stored \cup {"token"}
      /\ snap' = [snap EXCEPT !["main"] = WithSecret(main.copy, "token")] /\ blame' = Lost(main.copy)
  BY DEF SaveToken, WithSecret
<1>2. /\ main.op = "token" /\ main.copy # None /\ main'.op = "rest" /\ main'.pc = "rest" /\ main'.gen = 0
  BY <1>1 DEF IInv, Phase, TypeOK, Rest
<1>3. "raced" \notin blame' =>
         /\ blame' = blame /\ snap["main"] = main.copy /\ snap'["main"] # None
         /\ snap'["main"].gen = snap["main"].gen /\ snap'["main"].keep = snap["main"].keep \cup {"token"}
         /\ snap'["bak"] = snap["bak"] /\ snap'["tmp"] = snap["tmp"]
  BY <1>1, <1>2, SavedOver, FileTypes DEF IInv, Basics
<1>4. ASSUME Clean' PROVE Files'
  BY <1>1, <1>2, <1>3, <1>4
     DEF IInv, Clean, Fresh, Begun, Files, NewFiles, NewFile, Recoverable, OldFiles, Pair
<1>5. ASSUME blame' \subseteq {"leftover"} PROVE Promised'
  BY <1>1, <1>2, <1>3, <1>5
     DEF IInv, Fresh, Begun, Promised, Blank, Steady, Old, SaltThere, Files, NewFiles, NewFile,
         Recoverable, OldFiles, Pair
<1>6. ASSUME "raced" \notin blame' PROVE Emptied'
  BY <1>1, <1>2, <1>3, <1>6 DEF IInv, Emptied, Rest
<1> QED
  BY <1>4, <1>5, <1>6 DEF Kept

\* Likewise the macaroon, from the other thread.
LEMMA SaveMacaroonKeeps ==
  ASSUME IInv, SaveMacaroon
  PROVE  Kept'
<1>1. /\ main' = main /\ salt' = salt /\ seedOf' = seedOf /\ form' = None /\ seed' = seed /\ form # None
      /\ password' = password /\ purged' = purged /\ stored' = stored \cup {"macaroon"}
      /\ snap' = [snap EXCEPT !["main"] = WithSecret(form, "macaroon")] /\ blame' = Lost(form)
  BY DEF SaveMacaroon, WithSecret
<1>2. "raced" \notin blame' =>
         /\ blame' = blame /\ snap["main"] = form /\ snap'["main"] # None
         /\ snap'["main"].gen = snap["main"].gen /\ snap'["main"].keep = snap["main"].keep \cup {"macaroon"}
         /\ snap'["bak"] = snap["bak"] /\ snap'["tmp"] = snap["tmp"]
  BY <1>1, SavedOver, FileTypes DEF IInv, Basics
<1>3. ASSUME Clean' PROVE Files'
  BY <1>1, <1>2, <1>3
     DEF IInv, Clean, Fresh, Begun, Files, NewFiles, NewFile, Recoverable, OldFiles, Pair
<1>4. ASSUME blame' \subseteq {"leftover"} PROVE Promised'
  <2>1. "raced" \notin blame' /\ Clean
    BY <1>2, <1>4 DEF Clean
  <2>2. Promised /\ Files
    BY <1>2, <1>4, <2>1 DEF IInv
  <2> QED
    BY <1>1, <1>2, <2>1, <2>2, NoneTypes, MainTypes
       DEF IInv, Fresh, Begun, Promised, Blank, Steady, Old, SaltThere, Files, NewFiles,
           NewFile, Recoverable, OldFiles, Pair, Phase, Generations, TypeOK
<1>5. ASSUME "raced" \notin blame' PROVE Emptied'
  BY <1>1, <1>2, <1>5 DEF IInv, Emptied, NoFile
<1> QED
  BY <1>3, <1>4, <1>5 DEF Kept

\* Only a wallet that opens is loaded.
LEMMA LoadKeeps ==
  ASSUME IInv, LoadForToken \/ LoadForMacaroon
  PROVE  Kept'
<1>1. /\ snap' = snap /\ salt' = salt /\ seedOf' = seedOf /\ seed' = seed /\ blame' = blame
      /\ password' = password /\ purged' = purged /\ stored' = stored /\ Opens
  BY DEF LoadForToken, LoadForMacaroon, files, told
<1>2. "raced" \notin blame => ~purged
  BY <1>1 DEF IInv, Emptied, Opens, NoFile
<1>3. CASE LoadForToken
  <2>1. main = Rest /\ main.op = "rest" /\ main'.op = "token" /\ main'.pc = "save" /\ main'.gen = 0 /\ form' = form
    BY <1>3 DEF LoadForToken, Rest
  <2>2. ASSUME Clean PROVE Files'
    BY <1>1, <2>1, <2>2 DEF IInv, Clean, Files, NewFiles, NewFile, Recoverable, OldFiles, Pair
  <2>3. ASSUME blame \subseteq {"leftover"} PROVE Promised'
    BY <1>1, <2>1, <2>3
       DEF IInv, Promised, Blank, Steady, Old, SaltThere, Files, NewFiles, NewFile, Recoverable,
           OldFiles, Pair
  <2>4. ASSUME "raced" \notin blame PROVE Emptied'
    BY <1>1, <1>2, <2>1, <2>4 DEF IInv, Emptied
  <2> QED
    BY <1>1, <2>2, <2>3, <2>4 DEF Kept, Clean
<1>4. CASE LoadForMacaroon
  <2>1. main' = main /\ form' = snap["main"] /\ seed # 0
    BY <1>4 DEF LoadForMacaroon
  <2>2. ASSUME Clean PROVE Files'
    BY <1>1, <2>1, <2>2 DEF IInv, Clean, Files, NewFiles, NewFile, Recoverable, OldFiles, Pair
  <2>3. ASSUME blame \subseteq {"leftover"} PROVE Promised'
    BY <1>1, <2>1, <2>3, MainTypes, NoneTypes
       DEF IInv, Clean, Opens, Fresh, Begun, Promised, Blank, Steady, Old, SaltThere, Files,
           NewFiles, NewFile, Recoverable, OldFiles, Pair, TypeOK
  <2>4. ASSUME "raced" \notin blame PROVE Emptied'
    BY <1>1, <1>2, <2>1, <2>4 DEF IInv, Emptied
  <2> QED
    BY <1>1, <2>2, <2>3, <2>4 DEF Kept, Clean
<1> QED
  BY <1>3, <1>4

\* The secrets are put back one after the other; the token is there before the macaroon.
LEMMA RestoreKeeps ==
  ASSUME IInv, NEW secret, NEW next, <<secret, next>> \in {<<"token", "macaroon">>, <<"macaroon", "changed">>},
         Restore(secret, next)
  PROVE  Kept'
<1>1. /\ main.pc = secret /\ salt' = salt /\ seedOf' = seedOf /\ form' = form /\ seed' = seed
      /\ password' = password /\ purged' = purged /\ stored' = stored
      /\ main.op = "change" /\ ~(purged /\ "raced" \notin blame)
      /\ secret \in Secrets /\ next \in {"macaroon", "changed"}
  BY DEF Restore, told, IInv, Phase, TypeOK, Rest, Emptied
<1>2. \/ secret \notin main.carry /\ main' = [main EXCEPT !.pc = next] /\ UNCHANGED <<snap, blame>>
      \/ main' = [main EXCEPT !.copy = snap["main"]] /\ UNCHANGED <<snap, blame>>
      \/ /\ main.copy # None /\ main' = [main EXCEPT !.pc = next, !.copy = None] /\ secret \in main.carry
         /\ snap' = [snap EXCEPT !["main"] = WithSecret(main.copy, secret)] /\ blame' = Lost(main.copy)
  BY DEF Restore, WithSecret
<1>3. /\ main'.op = main.op /\ main'.gen = main.gen /\ main'.carry = main.carry /\ main.carry \subseteq Secrets
      /\ main'.pc \in {secret, next}
  BY <1>1, <1>2, MainTypes DEF IInv
<1>4. "raced" \notin blame' =>
         /\ blame' = blame
         /\ \/ snap' = snap /\ main'.pc = secret
            \/ snap' = snap /\ main'.pc = next /\ secret \notin main.carry
            \/ /\ snap'["main"] # None /\ main'.pc = next /\ secret \in main.carry
               /\ snap'["main"].gen = snap["main"].gen /\ snap'["main"].keep = snap["main"].keep \cup {secret}
               /\ snap'["bak"] = snap["bak"] /\ snap'["tmp"] = snap["tmp"]
  <2>1. /\ main' = [main EXCEPT !.pc = next] => main'.pc = next
        /\ main' = [main EXCEPT !.pc = next, !.copy = None] => main'.pc = next
        /\ main' = [main EXCEPT !.copy = snap["main"]] => main'.pc = secret
    BY <1>1, MainTypes DEF IInv
  <2>2. /\ "raced" \notin blame' /\ main.copy # None /\ blame' = Lost(main.copy)
        /\ snap' = [snap EXCEPT !["main"] = WithSecret(main.copy, secret)]
        => /\ blame' = blame /\ snap'["main"] # None
           /\ snap'["main"].gen = snap["main"].gen /\ snap'["main"].keep = snap["main"].keep \cup {secret}
           /\ snap'["bak"] = snap["bak"] /\ snap'["tmp"] = snap["tmp"]
    BY <1>1, SavedOver, FileTypes DEF IInv, Basics
  <2> QED
    BY <1>2, <2>1, <2>2
<1>5. ASSUME Clean' PROVE Files'
  BY <1>1, <1>3, <1>4, <1>5
     DEF IInv, Clean, Fresh, Begun, Files, NewFiles, NewFile, Recoverable, OldFiles, Pair
<1>6. ASSUME blame' \subseteq {"leftover"} PROVE Promised'
  <2>1. /\ blame \subseteq {"leftover"} /\ Promised /\ Clean /\ Files /\ main.op = "change"
        /\ main.pc = secret /\ main.carry \subseteq Secrets
    BY <1>1, <1>3, <1>4, <1>6 DEF IInv, Clean
  <2>2. Blank'
    BY <1>1, <1>3, <1>4, <2>1 DEF Promised, Blank
  <2>3. ASSUME seed # 0 PROVE Steady'
    <3>1. /\ snap["main"].keep \cup main.carry = stored
          /\ secret = "macaroon" => {"token"} \cap main.carry \subseteq snap["main"].keep
      BY <1>1, <2>1, <2>3 DEF Promised, Steady
    <3>2. /\ main'.pc \in {"token", "macaroon", "changed"} /\ main'.op = "change"
          /\ main'.carry = main.carry /\ stored' = stored
      BY <1>1, <1>3
    <3>3. /\ main'.op \notin {"rest", "token"}
          /\ main'.pc \notin Before \cup Aside \cup {"newSnap", "newSalt", "rollSnap", "rollSalt"}
      BY <3>2 
    <3>4. \/ snap' = snap /\ main'.pc = secret
          \/ snap' = snap /\ main'.pc = next /\ secret \notin main.carry
          \/ snap'["main"].keep = snap["main"].keep \cup {secret} /\ main'.pc = next /\ secret \in main.carry
      BY <1>4, <1>6
    <3>5. snap'["main"].keep \cup main.carry = stored
      BY <3>1, <3>4
    <3>6. /\ main'.pc = "macaroon" => {"token"} \cap main.carry \subseteq snap'["main"].keep
          /\ main'.pc = "changed" => main.carry \subseteq snap'["main"].keep
      <4>1. CASE secret = "token" /\ next = "macaroon"
        BY <3>1, <3>4, <4>1
      <4>2. CASE secret = "macaroon" /\ next = "changed"
        BY <3>1, <3>4, <4>2, <2>1 
      <4> QED
        BY <4>1, <4>2
    <3> QED
      BY <3>2, <3>3, <3>5, <3>6 DEF Steady
  <2> QED
    BY <2>2, <2>3, <1>1 DEF Promised
<1>7. ASSUME "raced" \notin blame' PROVE Emptied'
  BY <1>1, <1>3, <1>4, <1>7 DEF Emptied
<1> QED
  BY <1>5, <1>6, <1>7 DEF Kept

\* A change of password ends; it cannot fail here unless files were blamed.
LEMMA EndKeeps ==
  ASSUME IInv, RestoreFails \/ Changed
  PROVE  Kept'
<1>1. /\ main' = Rest /\ main'.op = "rest" /\ main'.pc = "rest" /\ main'.gen = 0
      /\ snap' = snap /\ salt' = salt /\ seedOf' = seedOf /\ form' = form /\ seed' = seed /\ blame' = blame
      /\ purged' = purged /\ stored' = stored /\ main.pc \in Secrets \cup {"changed"}
  BY DEF RestoreFails, Changed, files, told, Rest
<1>2. /\ main.op = "change" /\ main.gen \in Generations /\ ~(purged /\ "raced" \notin blame)
      /\ RestoreFails => ~Opens
      /\ Changed => main.pc = "changed" /\ password' = main.gen
  BY <1>1 DEF IInv, Phase, TypeOK, Rest, Emptied, RestoreFails, Changed
<1>3. Clean => Opens
  BY <1>1, <1>2, NoneTypes DEF IInv, Files, NewFiles, Opens, Generations
<1>4. ASSUME Clean PROVE Files'
  BY <1>1, <1>2, <1>4 DEF IInv, Clean, Files, NewFiles, NewFile, Recoverable, OldFiles, Pair
<1>5. ASSUME blame \subseteq {"leftover"} PROVE Promised'
  BY <1>1, <1>2, <1>3, <1>5
     DEF IInv, Clean, Opens, Fresh, Begun, Promised, Blank, Steady, Old, SaltThere, Files,
         NewFiles, NewFile, Recoverable, OldFiles, Pair
<1>6. ASSUME "raced" \notin blame PROVE Emptied'
  BY <1>1, <1>2, <1>6 DEF Emptied
<1> QED
  BY <1>1, <1>4, <1>5, <1>6 DEF Kept, Clean

\* What a deletion removes, file after file.
LEMMA RemoveKeeps ==
  ASSUME IInv, Delete \/ Remove
  PROVE  Kept'
<1>1. CASE Delete
  <2>1. /\ main'.op = "delete" /\ main'.pc = "delSnap" /\ seed' = 0 /\ purged' = purged /\ HasWallet
        /\ blame' = blame \ {"leftover"}
    BY <1>1 DEF Delete, Rest
  <2> QED
    BY <2>1
       DEF IInv, Kept, Emptied, HasWallet, NoFile, Clean, Promised, Blank, Steady, Old,
           SaltThere, Files, NewFiles, NewFile, Recoverable, OldFiles, Pair
<1>2. CASE Remove
  <2>1. /\ main.pc \in {"delSnap", "delSalt", "delRest"} /\ blame' = blame /\ seed' = seed /\ form' = form
    BY <1>2 DEF Remove, Do, told
  <2>2. main.op = "delete" /\ (Clean => seed = 0)
    BY <2>1 DEF IInv, Phase, TypeOK, Rest, Files, Recoverable
  <2>3. CASE main.pc # "delRest"
    <3>1. /\ main'.op = "delete" /\ main'.pc \in {"delSalt", "delRest"} /\ purged' = purged
          /\ main.pc = "delSnap" => main'.pc = "delSalt" /\ snap' = [snap EXCEPT !["main"] = None]
          /\ main.pc = "delSalt" => snap' = snap /\ salt' = [salt EXCEPT !["main"] = 0]
      BY <1>2, <2>2, <2>3, MainTypes DEF Remove, Do, told, IInv
    <3>2. snap \in [Places -> Snapshot] /\ salt \in [Places -> 0 .. MaxWrites] /\ "main" \in Places
      BY DEF IInv, TypeOK
    <3>3. Emptied \/ "raced" \in blame
      BY DEF IInv
    <3>4. "raced" \notin blame => Emptied'
      BY <2>1, <2>3, <3>1, <3>2, <3>3 DEF Emptied, Rest
    <3>5. (Clean => Files) /\ (blame \subseteq {"leftover"} => Promised) => (Clean => Files)' /\ (blame \subseteq {"leftover"} => Promised)'
      BY <2>1, <2>2, <3>1
         DEF Clean, Promised, Blank, Steady, Old, SaltThere, Files, NewFiles, NewFile,
             Recoverable, OldFiles, Pair
    <3> QED
      BY <2>1, <3>4, <3>5 DEF IInv, Kept
  <2>4. CASE main.pc = "delRest"
    <3>1. /\ main' = Rest /\ main'.op = "rest" /\ main'.pc = "rest"
          /\ snap' = [snap EXCEPT !["bak"] = None, !["tmp"] = None]
          /\ salt' = [salt EXCEPT !["bak"] = 0, !["tmp"] = 0]
      <4>1. main' = Rest /\ snap' = [snap EXCEPT !["bak"] = None, !["tmp"] = None]
            /\ salt' = [salt EXCEPT !["bak"] = 0, !["tmp"] = 0]
        BY <1>2, <2>4 DEF Remove, Do
      <4> QED
        BY <4>1 DEF Rest
    <3>2. snap \in [Places -> Snapshot] /\ salt \in [Places -> 0 .. MaxWrites]
      BY DEF IInv, TypeOK
    <3>3. "raced" \notin blame => snap["main"] = None /\ salt["main"] = 0
      BY <2>4 DEF IInv, Emptied
    <3>4. "raced" \notin blame => snap' = NoFile /\ salt' = [p \in Places |-> 0]
      BY <3>1, <3>2, <3>3 DEF NoFile
    <3>5. "raced" \notin blame => Emptied'
      <4>1. snap["main"] = None /\ salt["main"] = 0 => snap'["main"] = None /\ salt'["main"] = 0
        BY <3>1, <3>2 DEF Places
      <4> QED
        BY <3>1, <3>3, <3>4, <4>1 DEF Emptied
    <3>6. (Clean => Files)' /\ (blame \subseteq {"leftover"} => Promised)'
      BY <2>1, <2>2, <3>1
         DEF Clean, Promised, Blank, Steady, Old, SaltThere, Files, NewFiles, NewFile,
             Recoverable, OldFiles, Pair
    <3> QED
      BY <2>1, <3>5, <3>6 DEF Kept
  <2> QED
    BY <2>3, <2>4
<1> QED
  BY <1>1, <1>2

\* A fault leaves the files; what it may break is blamed.
LEMMA FaultKeeps ==
  ASSUME IInv, OperationFails \/ Crash
  PROVE  Kept'
<1>1. /\ snap' = snap /\ salt' = salt /\ seedOf' = seedOf /\ form' \in {form, None} /\ seed' = seed
      /\ password' = password /\ purged' = purged /\ stored' = stored
      /\ blame' \in {blame, blame \cup {"torn"}}
  BY DEF OperationFails, Crash, files, told
<1>2. form'.gen <= form.gen /\ form.gen \in Nat
  BY <1>1, FileTypes, NoneTypes DEF IInv, Basics, Begun
<1>3. CASE main' = Rest
  <2>1. main'.op = "rest" /\ main'.pc = "rest"
    BY <1>3 DEF Rest
  <2>2. blame' \subseteq {"leftover"} => main.pc \notin (Between \ {"newSnap", "dropSaltBak", "backSalt"}) \/ main = Rest
    BY DEF OperationFails, Crash, Rest
  <2>3. blame' \subseteq {"leftover"} => main.pc \in Prepares \cup {"rest", "dropSnapBak", "backSnap", "save",
                                                  "delSnap", "delSalt", "delRest"}
    <3>1. main.pc \in Replaces /\ OperationFails => main'.pc = "rollSnap"
      BY MainTypes DEF OperationFails, IInv
    <3>2. blame' \subseteq {"leftover"} /\ Crash => main.pc \notin Between
      BY DEF Crash
    <3> QED
      BY <2>1, <2>2, <3>1, <3>2, MainTypes DEF IInv, Phases, OperationFails
  <2>4. ASSUME Clean PROVE Files'
    BY <1>1, <2>1, <2>4, <1>3 DEF IInv, Clean, Files, NewFiles, NewFile, Recoverable, OldFiles, Pair
  <2>5. ASSUME blame' \subseteq {"leftover"} PROVE Promised'
    BY <1>1, <2>1, <2>3, <2>5, MainTypes
       DEF IInv, Clean, Phase, Ops, Promised, Blank, Steady, Old, SaltThere, Files, NewFiles,
           NewFile, Recoverable, OldFiles, Pair
  <2>6. ASSUME "raced" \notin blame PROVE Emptied'
    BY <1>1, <1>3, <2>1, <2>6 DEF IInv, Emptied
  <2> QED
    BY <1>1, <2>4, <2>5, <2>6 DEF Kept, Clean
<1>4. CASE main' # Rest
  <2>1. /\ OperationFails /\ main.pc \in Replaces /\ main'.pc = "rollSnap" /\ main'.op = main.op
        /\ main'.gen = main.gen /\ main'.carry = main.carry /\ form' = form
        /\ blame' \subseteq {"leftover"} => main.pc # "newSalt"
    BY <1>4, MainTypes DEF OperationFails, Crash, IInv
  <2>2. main.op \in {"create", "change"}
    BY <2>1 DEF IInv, Phase, TypeOK, Rest
  <2>3. ASSUME Clean PROVE Files'
    BY <1>1, <2>1, <2>2, <2>3 DEF IInv, Clean, Files, NewFiles, NewFile, Recoverable, OldFiles, Pair
  <2>4. ASSUME blame' \subseteq {"leftover"} PROVE Promised'
    BY <1>1, <2>1, <2>2, <2>4
       DEF IInv, Clean, Promised, Blank, Steady, Old, SaltThere, Files, NewFiles, NewFile,
           Recoverable, OldFiles, Pair
  <2>5. ASSUME "raced" \notin blame PROVE Emptied'
    BY <1>1, <2>1, <2>2, <2>5 DEF IInv, Emptied, Rest
  <2> QED
    BY <1>1, <2>3, <2>4, <2>5 DEF Kept, Clean
<1> QED
  BY <1>3, <1>4

\* A rename of the rollback fails: the old files stay aside, and it is blamed.
LEMMA RollBackFailsKeeps ==
  ASSUME IInv, RollBackFails
  PROVE  Kept'
<1>1. /\ snap' = snap /\ salt' = salt /\ seedOf' = seedOf /\ form' = form /\ seed' = seed
      /\ purged' = purged /\ blame' = blame \cup {"torn"} /\ main.pc \in {"rollSnap", "rollSalt"}
  BY DEF RollBackFails, files, told
<1>2. \/ main' = Rest /\ main'.op = "rest" /\ main'.pc = "rest"
      \/ main'.op = main.op /\ main'.pc = "rollSalt" /\ main'.gen = main.gen
  BY MainTypes DEF RollBackFails, Rest, IInv
<1>3. main.op \in {"create", "change"} /\ main # Rest
  BY <1>1 DEF IInv, Phase, TypeOK, Rest
<1>4. ASSUME Clean PROVE Files'
  BY <1>1, <1>2, <1>3, <1>4 DEF IInv, Clean, Files, NewFiles, NewFile, Recoverable, OldFiles, Pair
<1>5. ASSUME "raced" \notin blame PROVE Emptied'
  BY <1>1, <1>2, <1>3, <1>5 DEF IInv, Emptied
<1> QED
  BY <1>1, <1>4, <1>5 DEF Kept, Clean

\* A deletion that could not remove everything has removed the wallet itself.
LEMMA RemovalFailsKeeps ==
  ASSUME IInv, RemovalFails
  PROVE  Kept'
<1>1. /\ main.pc = "delRest" /\ main' = Rest /\ main'.op = "rest" /\ main'.pc = "rest"
      /\ seed' = seed /\ form' = form /\ blame' = blame \cup {"leftover"}
      /\ snap["main"] = None => snap'["main"] = None
      /\ salt["main"] = 0 => salt'["main"] = 0
  BY DEF RemovalFails, Rest, Places
<1>2. main.op = "delete" /\ (Clean => seed = 0)
  BY <1>1 DEF IInv, Phase, TypeOK, Rest, Files, Recoverable
<1>3. "raced" \notin blame => Emptied'
  BY <1>1 DEF IInv, Emptied
<1>4. (Clean => Files)' /\ (blame \subseteq {"leftover"} => Promised)'
  BY <1>1, <1>2
     DEF Clean, Promised, Blank, Steady, Old, SaltThere, Files, NewFiles, NewFile,
         Recoverable, OldFiles, Pair, Writing, Before, Prepares, Settles, Aside, Done
<1> QED
  BY <1>1, <1>3, <1>4 DEF Kept

\* Every step keeps what the files owe the user.
LEMMA KeptStep == IInv /\ [Next]_vars => Kept'
<1> SUFFICES ASSUME IInv, [Next]_vars PROVE Kept'
  OBVIOUS
<1>1. CASE UNCHANGED vars
  BY <1>1
     DEF IInv, Kept, Clean, vars, files, told, Emptied, Promised, Blank, Steady, Old, SaltThere,
         Files, NewFiles, NewFile, Recoverable, OldFiles, Pair
<1> QED
  BY <1>1, CreateKeeps, ChangeKeeps, WriteKeeps, RestoreKeeps, EndKeeps, SaveTokenKeeps, SaveMacaroonKeeps,
     LoadKeeps, RemoveKeeps, FaultKeeps, RollBackFailsKeeps, RemovalFailsKeeps DEF Next

\* In the beginning nothing is owed.
LEMMA KeptInit == Init => Kept
<1> SUFFICES ASSUME Init PROVE Kept
  OBVIOUS
<1>1. main.op = "rest" /\ main.pc = "rest" /\ seed = 0 /\ purged = FALSE
  BY DEF Init, Rest
<1> QED
  BY <1>1
     DEF Kept, Emptied, Promised, Blank, Steady, Old, SaltThere, Files, NewFiles, NewFile,
         Recoverable, OldFiles, Pair

\* The two halves of the inductive invariant.
LEMMA Parts == IInv <=> Basics /\ Kept
BY DEF IInv, Basics, Kept

----------------------------------------------------------------------------
(* The theorems *)

\* The files, the generations in them and the step each command has reached
\* agree in every state: the inductive invariant of the others.
THEOREM VaultHolds == Spec => []IInv
<1>1. Init => IInv
  BY BasicsInit, KeptInit, Parts
<1>2. IInv /\ [Next]_vars => IInv'
  <2> SUFFICES ASSUME IInv, [Next]_vars PROVE IInv'
    OBVIOUS
  <2>1. Basics'
    BY BasicsStep, Parts
  <2>2. Kept'
    BY KeptStep
  <2> QED
    BY <2>1, <2>2 DEF IInv, Basics, Kept
<1> QED
  BY <1>1, <1>2, PTL DEF Spec

\* Every variable keeps its type, in particular no file belongs to a
\* generation that was never written (vault.rs:115).
THEOREM VaultTypeCorrect == Spec => []TypeOK
<1>1. IInv => TypeOK
  BY DEF IInv
<1> QED
  BY <1>1, VaultHolds, PTL

\* However often passwords are changed and whatever crashes or fails, the
\* user's seed stays on disk with the salt that opens it (vault.rs:170-186).
THEOREM SeedStays == Spec => []SeedOnDisk
<1>1. IInv => SeedOnDisk
  BY DEF IInv, SeedOnDisk, Clean, Files, Recoverable, Pair
<1> QED
  BY <1>1, VaultHolds, PTL

\* A failure up to the last rename is rolled back, so that the wallet opens
\* with the password the user was told, secrets included (vault.rs:115-117),
\* unless a rename of the rollback fails too (vault.rs:163, 166).
THEOREM PasswordHolds == Spec => []OpensWhenTold
<1>1. IInv => OpensWhenTold
  BY DEF IInv, OpensWhenTold, Opens, Promised, Steady, Old, Rest, Clean, Files, NewFiles, Fresh, Begun
<1> QED
  BY <1>1, VaultHolds, PTL

\* A deletion the user was told of has removed snapshot and salt, and what
\* interrupted writes had left behind, but for what it could not remove of
\* the latter (vault.rs:345-363).
THEOREM DeletionComplete == Spec => []NothingLeft
<1>1. IInv => NothingLeft
  BY DEF IInv, NothingLeft, Emptied
<1> QED
  BY <1>1, VaultHolds, PTL
=============================================================================
