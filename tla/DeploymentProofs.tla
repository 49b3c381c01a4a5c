-------------------------- MODULE DeploymentProofs ---------------------------
(***************************************************************************)
(* Proofs about a deployment, for any number of runners and builds, of     *)
(* tenants, sessions, sweeps and inventory revisions: the schema history   *)
(* tells what the database went through (HistoryTellsSchema), and a tenant *)
(* that leaves the inventory leaves behind only rows of jobs that were in  *)
(* flight when its drain was observed (OnlyStraddlersAreLeftBehind).       *)
(***************************************************************************)
EXTENDS Deployment, FiniteSetTheorems, TLAPS

(* Where a migration is in a sequence of them.                              *)
Places(seq, m) == {v \in 1..Len(seq) : seq[v] = m}

-----------------------------------------------------------------------------
(* Migrations.                                                              *)

RunnerPcs ==
    {"idle", "setup", "bootstrap", "blocked", "waiting", "locked", "applying", "ended",
     "overtaken", "collided"}
InTransaction == {"waiting", "locked", "applying"}
Underway == {"setup", "bootstrap", "blocked"} \cup InTransaction

RunnerStates ==
    [pc : RunnerPcs, installed : Seq(Identities), work : Seq(Identities), seen : Nat,
     made : BOOLEAN, fresh : BOOLEAN]

MigrationType ==
    /\ history \in Seq(Identities)
    /\ schema \in [Identities -> Nat]
    /\ vendor \in Nat /\ vendor <= VendorVersion
    /\ runner \in [Runners -> RunnerStates]

(* A runner that reads or writes holds the lock.                            *)
OneInside ==
    \A r \in Runners : runner[r].pc \in {"locked", "applying"} => lock = r

(* One that applies read what is committed, which begins its build, and its *)
(* work continues it in that build.                                         *)
WorkContinues ==
    \A r \in Runners :
        IF runner[r].pc = "applying"
        THEN /\ runner[r].installed = history
             /\ Agrees(history \o runner[r].work, Builds[r])
        ELSE runner[r].work = <<>>

(* At most one transaction created the history table and has not ended, and *)
(* then no other is past the bootstrap.                                     *)
TableKnown ==
    \A r \in Runners :
        /\ runner[r].made =>
              /\ table = "open" /\ runner[r].pc \in InTransaction
              /\ \A q \in Runners : runner[q].made => q = r
        /\ runner[r].pc \in InTransaction /\ ~runner[r].made => table = "there"

(* A runner that found the database set up finds it so until it ends; only  *)
(* the others wait in the bootstrap or are overtaken.                       *)
SetUpKnown ==
    \A r \in Runners :
        /\ runner[r].pc \in Underway /\ ~runner[r].fresh =>
              runner[r].seen = VendorVersion /\ vendor = VendorVersion /\ table = "there"
        /\ runner[r].pc \in {"blocked", "overtaken"} => runner[r].fresh

NoneCollides == \A r \in Runners : runner[r].pc # "collided"

Accounting ==
    /\ \A m \in Identities : schema[m] = Cardinality(Places(history, m))
    /\ \E r \in Runners : Agrees(history, Builds[r])

MigrationInv ==
    /\ MigrationType /\ OneInside /\ WorkContinues /\ TableKnown /\ SetUpKnown
    /\ NoneCollides /\ Accounting

(* The places of a migration in a sequence are finitely many, and those in  *)
(* a longer one are those in its two parts.                                 *)
LEMMA PlacesFinite ==
    ASSUME NEW S, NEW seq \in Seq(S), NEW m
    PROVE  /\ IsFiniteSet(Places(seq, m))
           /\ Cardinality(Places(seq, m)) \in Nat
<1>1. IsFiniteSet(1..Len(seq))
  BY FS_Interval
<1>2. IsFiniteSet(Places(seq, m))
  BY <1>1, FS_Subset DEF Places
<1> QED BY <1>2, FS_CardinalityType

LEMMA PlacesOfConcatenation ==
    ASSUME NEW S, NEW a \in Seq(S), NEW b \in Seq(S), NEW m
    PROVE  Cardinality(Places(a \o b, m)) = Cardinality(Places(a, m)) + Cardinality(Places(b, m))
<1> DEFINE low == Places(a, m)
           high == {v \in (Len(a) + 1)..(Len(a) + Len(b)) : (a \o b)[v] = m}
           shift == [v \in Places(b, m) |-> v + Len(a)]
<1>0. Len(a) \in Nat /\ Len(b) \in Nat /\ Len(a \o b) = Len(a) + Len(b)
  OBVIOUS
<1>1. Places(a \o b, m) = low \cup high
  BY <1>0 DEF Places
<1>2. low \cap high = {}
  BY <1>0 DEF Places
<1>3. IsFiniteSet(low) /\ Cardinality(low) \in Nat
  BY PlacesFinite
<1>4. IsFiniteSet(Places(b, m)) /\ Cardinality(Places(b, m)) \in Nat
  BY PlacesFinite
<1>5. shift \in Bijection(Places(b, m), high)
  <2>1. shift \in [Places(b, m) -> high]
    BY <1>0 DEF Places
  <2>2. \A v, w \in Places(b, m) : shift[v] = shift[w] => v = w
    BY <1>0 DEF Places
  <2>3. \A w \in high : \E v \in Places(b, m) : shift[v] = w
    <3> SUFFICES ASSUME NEW w \in high PROVE \E v \in Places(b, m) : shift[v] = w
      OBVIOUS
    <3>1. w - Len(a) \in Places(b, m)
      BY <1>0 DEF Places
    <3>2. shift[w - Len(a)] = w
      BY <1>0, <3>1 DEF Places
    <3> QED BY <3>1, <3>2
  <2> QED BY <2>1, <2>2, <2>3 DEF Bijection, Injection, Surjection, IsInjective
<1>6. IsFiniteSet(high) /\ Cardinality(high) = Cardinality(Places(b, m))
  <2>1. ExistsBijection(Places(b, m), high)
    BY <1>5 DEF ExistsBijection
  <2> HIDE DEF high
  <2> QED BY <1>4, <2>1, FS_Bijection
<1>7. Cardinality(low \cup high) = Cardinality(low) + Cardinality(high) - Cardinality(low \cap high)
  BY <1>3, <1>6, FS_Union
<1>8. Cardinality(low \cap high) = 0
  BY <1>2, FS_EmptySet
<1> HIDE DEF low, high
<1> QED BY <1>1, <1>3, <1>4, <1>6, <1>7, <1>8 DEF low

LEMMA MigrationInitially == MigrationInit => MigrationInv
<1> SUFFICES ASSUME MigrationInit PROVE MigrationInv
  OBVIOUS
<1> USE DEF MigrationInit, At
<1>0. history \in Seq(Identities) /\ \E r \in Runners : Agrees(history, Builds[r])
  <2>1. CASE history = <<>>
    BY <2>1, BuildAssumption DEF Agrees
  <2>2. CASE history = Earlier
    BY <2>2, BuildAssumption
  <2> QED BY <2>1, <2>2
<1>1. MigrationType
  <2>1. \A m \in Identities : Cardinality(Places(history, m)) \in Nat
    BY <1>0, PlacesFinite
  <2>2. schema \in [Identities -> Nat]
    BY <2>1 DEF Places
  <2> QED BY <1>0, <2>2, BuildAssumption DEF MigrationType, RunnerStates, RunnerPcs
<1>2. OneInside /\ WorkContinues /\ NoneCollides
  BY DEF OneInside, WorkContinues, NoneCollides
<1>3. TableKnown /\ SetUpKnown
  BY DEF TableKnown, SetUpKnown, Underway, InTransaction
<1>4. Accounting
  BY <1>0 DEF Accounting, Places
<1> QED BY <1>1, <1>2, <1>3, <1>4 DEF MigrationInv

(* Before the lock: a runner's work is empty and stays so.                  *)
LEMMA SetUpMoves ==
    ASSUME MigrationInv, NEW r \in Runners,
           BeginSetup(r) \/ SetUpVendor(r) \/ RequireVendor(r)
    PROVE  MigrationInv'
<1> USE DEF MigrationInv
<1>0. VendorVersion \in Nat
  BY BuildAssumption
<1>1. /\ UNCHANGED <<history, schema, table, lock>>
      /\ vendor' \in Nat /\ vendor <= vendor' /\ vendor' <= VendorVersion
  BY <1>0 DEF BeginSetup, SetUpVendor, RequireVendor, MigrationType
<1>2. PICK now \in RunnerStates :
        /\ runner' = [runner EXCEPT ![r] = now]
        /\ now.pc \in {"setup", "overtaken", "bootstrap", "ended"}
        /\ now.work = <<>> /\ ~now.made
        /\ now.pc \in Underway /\ ~now.fresh =>
              now.seen = VendorVersion /\ vendor = VendorVersion /\ table = "there"
        /\ now.pc = "overtaken" => now.fresh
  <2>1. CASE BeginSetup(r)
    <3>0. /\ At("setup") \in RunnerStates /\ At("setup").pc = "setup"
          /\ At("setup").work = <<>> /\ ~At("setup").made
      BY DEF At, RunnerStates, RunnerPcs
    <3>1. CASE NotSetUp
      <4> DEFINE now == [At("setup") EXCEPT !.seen = vendor, !.fresh = TRUE]
      <4>1. NotSetUp = TRUE
        BY <3>1, Zenon DEF NotSetUp
      <4>2. runner' = [runner EXCEPT ![r] = now]
        BY <2>1, <4>1, Zenon DEF BeginSetup
      <4>3. /\ now \in RunnerStates /\ now.pc = "setup" /\ now.work = <<>> /\ ~now.made
            /\ now.seen = vendor /\ now.fresh = TRUE
        BY <3>0 DEF RunnerStates, MigrationType
      <4> HIDE DEF now
      <4> QED BY <4>2, <4>3
    <3>2. CASE ~NotSetUp
      <4> DEFINE now == [At("setup") EXCEPT !.seen = vendor, !.fresh = FALSE]
      <4>1. NotSetUp = FALSE
        BY <3>2, Zenon DEF NotSetUp
      <4>2. runner' = [runner EXCEPT ![r] = now]
        BY <2>1, <4>1, Zenon DEF BeginSetup
      <4>3. /\ now \in RunnerStates /\ now.pc = "setup" /\ now.work = <<>> /\ ~now.made
            /\ now.seen = vendor /\ now.fresh = FALSE
        BY <3>0 DEF RunnerStates, MigrationType
      <4>4. vendor = VendorVersion /\ table = "there"
        BY <1>0, <3>2 DEF NotSetUp, MigrationType
      <4> HIDE DEF now
      <4> QED BY <4>2, <4>3, <4>4
    <3> QED BY <3>1, <3>2
  <2>2. CASE SetUpVendor(r)
    <3>1. /\ runner[r] \in RunnerStates /\ runner[r].pc = "setup"
          /\ runner[r].fresh /\ ~runner[r].made /\ runner[r].work = <<>>
      <4>1. runner[r] \in RunnerStates /\ runner[r].pc = "setup"
        BY <2>2 DEF SetUpVendor, MigrationType
      <4>2. runner[r].seen # VendorVersion
        BY <1>0, <2>2, <4>1 DEF SetUpVendor, RunnerStates
      <4> QED BY <4>1, <4>2 DEF SetUpKnown, TableKnown, WorkContinues, Underway, InTransaction
    <3>2. CASE runner' = [runner EXCEPT ![r].seen = @ + 1]
      <4> DEFINE now == [runner[r] EXCEPT !.seen = @ + 1]
      <4>1. now \in RunnerStates /\ now.pc = "setup" /\ now.fresh /\ ~now.made /\ now.work = <<>>
        BY <3>1 DEF RunnerStates
      <4>2. runner' = [runner EXCEPT ![r] = now]
        BY <3>2 DEF MigrationType
      <4> HIDE DEF now
      <4> QED BY <4>1, <4>2
    <3>3. CASE runner' = [runner EXCEPT ![r].pc = "overtaken"]
      <4> DEFINE now == [runner[r] EXCEPT !.pc = "overtaken"]
      <4>1. now \in RunnerStates /\ now.pc = "overtaken" /\ now.fresh /\ ~now.made /\ now.work = <<>>
        BY <3>1 DEF RunnerStates, RunnerPcs
      <4>2. runner' = [runner EXCEPT ![r] = now]
        BY <3>3 DEF MigrationType
      <4> HIDE DEF now
      <4> QED BY <4>1, <4>2
    <3> QED BY <2>2, <3>2, <3>3 DEF SetUpVendor
  <2>3. CASE RequireVendor(r)
    <3>1. /\ runner[r] \in RunnerStates /\ runner[r].pc = "setup"
          /\ ~runner[r].made /\ runner[r].work = <<>>
          /\ ~runner[r].fresh =>
                runner[r].seen = VendorVersion /\ vendor = VendorVersion /\ table = "there"
      BY <2>3 DEF RequireVendor, MigrationType, SetUpKnown, TableKnown, WorkContinues,
                  Underway, InTransaction, RunnerStates
    <3>2. CASE runner' = [runner EXCEPT ![r].pc = "bootstrap"]
      <4> DEFINE now == [runner[r] EXCEPT !.pc = "bootstrap"]
      <4>1. /\ now \in RunnerStates /\ now.pc = "bootstrap" /\ ~now.made /\ now.work = <<>>
            /\ now.fresh = runner[r].fresh /\ now.seen = runner[r].seen
        BY <3>1 DEF RunnerStates, RunnerPcs
      <4>2. runner' = [runner EXCEPT ![r] = now]
        BY <3>2 DEF MigrationType
      <4> HIDE DEF now
      <4> QED BY <3>1, <4>1, <4>2
    <3>3. CASE runner' = [runner EXCEPT ![r] = At("ended")]
      <4>1. /\ At("ended") \in RunnerStates /\ At("ended").pc = "ended"
            /\ ~At("ended").made /\ At("ended").work = <<>>
        BY DEF At, RunnerStates, RunnerPcs
      <4> QED BY <3>3, <4>1 DEF Underway, InTransaction
    <3> QED BY <2>3, <3>2, <3>3 DEF RequireVendor
  <2> QED BY <2>1, <2>2, <2>3
<1>3. \A q \in Runners : runner[q].pc \in Underway /\ ~runner[q].fresh => vendor' = vendor
  BY <1>0, <1>1 DEF MigrationType, SetUpKnown
<1>4. MigrationType'
  BY <1>1, <1>2 DEF MigrationType
<1>5. OneInside' /\ NoneCollides'
  BY <1>1, <1>2 DEF OneInside, NoneCollides, MigrationType
<1>6. WorkContinues'
  BY <1>1, <1>2 DEF WorkContinues, MigrationType
<1>7. TableKnown'
  BY <1>1, <1>2 DEF TableKnown, MigrationType, InTransaction
<1>8. SetUpKnown'
  <2>1. vendor = VendorVersion => vendor' = vendor
    BY <1>0, <1>1 DEF MigrationType
  <2> QED BY <1>1, <1>2, <1>3, <2>1 DEF SetUpKnown, MigrationType
<1>9. Accounting'
  BY <1>1 DEF Accounting
<1> QED BY <1>4, <1>5, <1>6, <1>7, <1>8, <1>9

LEMMA BootstrapMoves ==
    ASSUME MigrationInv, NEW r \in Runners, Bootstrap(r)
    PROVE  MigrationInv'
<1> USE DEF MigrationInv
<1>1. /\ runner[r] \in RunnerStates /\ runner[r].pc \in {"bootstrap", "blocked"}
      /\ ~runner[r].made /\ runner[r].work = <<>>
      /\ runner[r].pc = "blocked" => runner[r].fresh
      /\ ~runner[r].fresh =>
            runner[r].seen = VendorVersion /\ vendor = VendorVersion /\ table = "there"
  BY DEF Bootstrap, MigrationType, SetUpKnown, TableKnown, WorkContinues, Underway,
         InTransaction, RunnerStates
<1>2. UNCHANGED <<history, schema, vendor, lock>>
  BY DEF Bootstrap
<1>3. PICK now \in RunnerStates :
        /\ runner' = [runner EXCEPT ![r] = now]
        /\ now.work = <<>> /\ now.fresh = runner[r].fresh /\ now.seen = runner[r].seen
        /\ \/ /\ now.pc = "waiting" /\ now.made /\ table = "absent" /\ table' = "open"
           \/ now.pc = "waiting" /\ ~now.made /\ table = "there" /\ table' = table
           \/ /\ now.pc \in {"blocked", "overtaken"} /\ ~now.made /\ now.fresh
              /\ table' = table
  <2>1. CASE table = "absent"
    <3> DEFINE now == [runner[r] EXCEPT !.pc = "waiting", !.made = TRUE]
    <3>1. /\ now \in RunnerStates /\ now.pc = "waiting" /\ now.made /\ now.work = <<>>
          /\ now.fresh = runner[r].fresh /\ now.seen = runner[r].seen
      BY <1>1 DEF RunnerStates, RunnerPcs
    <3>2. runner' = [runner EXCEPT ![r] = now] /\ table' = "open"
      BY <2>1 DEF Bootstrap, MigrationType
    <3> HIDE DEF now
    <3> QED BY <2>1, <3>1, <3>2
  <2>2. CASE table # "absent"
    <3>1. PICK to \in {"blocked", "overtaken", "waiting"} :
            /\ runner' = [runner EXCEPT ![r].pc = to] /\ table' = table
            /\ to = "blocked" => table = "open"
            /\ to = "overtaken" => runner[r].pc = "blocked"
            /\ to = "waiting" => table = "there"
      BY <2>2 DEF Bootstrap, MigrationType
    <3> DEFINE now == [runner[r] EXCEPT !.pc = to]
    <3>2. /\ now \in RunnerStates /\ now.pc = to /\ ~now.made /\ now.work = <<>>
          /\ now.fresh = runner[r].fresh /\ now.seen = runner[r].seen
      BY <1>1 DEF RunnerStates, RunnerPcs
    <3>3. runner' = [runner EXCEPT ![r] = now]
      BY <3>1 DEF MigrationType
    <3>4. to \in {"blocked", "overtaken"} => runner[r].fresh
      BY <1>1, <3>1
    <3> HIDE DEF now
    <3> QED BY <1>1, <3>1, <3>2, <3>3, <3>4
  <2> QED BY <2>1, <2>2
<1>4. MigrationType'
  BY <1>2, <1>3 DEF MigrationType
<1>5. OneInside' /\ NoneCollides' /\ WorkContinues'
  BY <1>2, <1>3 DEF OneInside, NoneCollides, WorkContinues, MigrationType
<1>6. TableKnown'
  BY <1>3 DEF TableKnown, MigrationType, InTransaction
<1>7. SetUpKnown'
  BY <1>1, <1>2, <1>3 DEF SetUpKnown, MigrationType, Underway, InTransaction
<1>8. Accounting'
  BY <1>2 DEF Accounting
<1> QED BY <1>4, <1>5, <1>6, <1>7, <1>8

(* The end of a transaction: nobody else is inside, and the history table   *)
(* is there for the others, or none of them needs it.                       *)
LEMMA EndMoves ==
    ASSUME MigrationInv, NEW r \in Runners, NEW pc \in {"idle", "ended"},
           runner' = [runner EXCEPT ![r] = At(pc)],
           vendor' = vendor, lock' = Released(r), history' \in Seq(Identities),
           schema' \in [Identities -> Nat], Accounting',
           history' = history \/ runner[r].pc = "applying",
           \/ table' = "there" /\ runner[r].pc \in InTransaction
           \/ table' = IF runner[r].made THEN "absent" ELSE table
    PROVE  MigrationInv'
<1> USE DEF MigrationInv
<1>1. /\ At(pc) \in RunnerStates /\ At(pc).pc = pc /\ At(pc).work = <<>> /\ ~At(pc).made
  BY DEF At, RunnerStates, RunnerPcs
<1>2. \A q \in Runners \ {r} : runner'[q] = runner[q]
  BY DEF MigrationType
<1>3. runner'[r].pc = pc /\ runner'[r].work = <<>> /\ ~runner'[r].made
  BY <1>1 DEF MigrationType
<1>4. MigrationType'
  BY <1>1 DEF MigrationType
<1>5. OneInside' /\ NoneCollides'
  BY <1>2, <1>3 DEF OneInside, NoneCollides, Released
<1>6. WorkContinues'
  <2>1. \A q \in Runners \ {r} : runner[q].pc = "applying" => history' = history
    BY DEF OneInside
  <2> QED BY <1>2, <1>3, <2>1 DEF WorkContinues
<1>7. TableKnown'
  BY <1>2, <1>3 DEF TableKnown, InTransaction
<1>8. SetUpKnown'
  <2>1. \A q \in Runners \ {r} :
          runner[q].pc \in Underway /\ ~runner[q].fresh => table' = "there"
    BY DEF SetUpKnown, TableKnown
  <2> QED BY <1>2, <1>3, <2>1 DEF SetUpKnown, Underway, InTransaction
<1> QED BY <1>4, <1>5, <1>6, <1>7, <1>8

LEMMA LockMoves ==
    ASSUME MigrationInv, NEW r \in Runners, TakeLock(r)
    PROVE  MigrationInv'
<1> USE DEF MigrationInv
<1>0. lock = FREE /\ FREE \notin Runners
  BY BuildAssumption DEF TakeLock
<1>1. MigrationType' /\ NoneCollides'
  BY DEF TakeLock, MigrationType, RunnerStates, RunnerPcs, NoneCollides
<1>2. OneInside' /\ WorkContinues'
  BY <1>0 DEF TakeLock, MigrationType, RunnerStates, OneInside, WorkContinues
<1>3. TableKnown' /\ SetUpKnown'
  BY DEF TakeLock, MigrationType, RunnerStates, TableKnown, SetUpKnown, Underway, InTransaction
<1>4. Accounting'
  BY DEF TakeLock, Accounting
<1> QED BY <1>1, <1>2, <1>3, <1>4

LEMMA ReadMoves ==
    ASSUME MigrationInv, NEW r \in Runners, ReadInstalled(r)
    PROVE  MigrationInv'
<1> USE DEF MigrationInv
<1>0. UNCHANGED <<history, schema, vendor>> /\ runner[r].pc = "locked"
  BY DEF ReadInstalled
<1>a. Accounting'
  BY <1>0 DEF Accounting
<1>1. CASE Agrees(history, Builds[r])
  <2> DEFINE now == [runner[r] EXCEPT !.pc = "applying", !.installed = history]
  <2>1. /\ runner' = [runner EXCEPT ![r] = now] /\ UNCHANGED <<lock, table>>
    BY <1>1 DEF ReadInstalled, MigrationType
  <2>2. /\ now \in RunnerStates /\ now.pc = "applying" /\ now.installed = history
        /\ now.work = <<>> /\ now.made = runner[r].made /\ now.fresh = runner[r].fresh
        /\ now.seen = runner[r].seen
    BY <1>0 DEF MigrationType, RunnerStates, RunnerPcs, WorkContinues
  <2> HIDE DEF now
  <2>3. MigrationType' /\ NoneCollides'
    BY <1>0, <2>1, <2>2 DEF MigrationType, NoneCollides
  <2>4. OneInside'
    BY <1>0, <2>1, <2>2 DEF MigrationType, OneInside
  <2>5. WorkContinues'
    <3>1. history \o <<>> = history
      BY DEF MigrationType
    <3> QED BY <1>0, <1>1, <2>1, <2>2, <3>1 DEF MigrationType, WorkContinues
  <2>6. TableKnown' /\ SetUpKnown'
    BY <1>0, <2>1, <2>2 DEF MigrationType, TableKnown, SetUpKnown, Underway, InTransaction
  <2> QED BY <1>a, <2>3, <2>4, <2>5, <2>6
<1>2. CASE ~Agrees(history, Builds[r])
  <2>1. runner' = [runner EXCEPT ![r] = At("ended")] /\ RolledBack(r)
    BY <1>2 DEF ReadInstalled
  <2> QED BY <1>0, <1>a, <2>1, EndMoves DEF RolledBack, MigrationType
<1> QED BY <1>1, <1>2

LEMMA ApplyMoves ==
    ASSUME MigrationInv, NEW r \in Runners, ApplyMigration(r)
    PROVE  MigrationInv'
<1> USE DEF MigrationInv
<1> DEFINE w == runner[r].work
           n == NextVersion(r)
           more == Append(w, Builds[r][n])
<1>1. /\ Builds[r] \in Seq(Identities) /\ history \in Seq(Identities) /\ w \in Seq(Identities)
      /\ runner[r].installed = history /\ Agrees(history \o w, Builds[r])
      /\ runner[r].pc = "applying"
  BY BuildAssumption DEF ApplyMigration, MigrationType, RunnerStates, WorkContinues
<1>2. /\ n = Len(history) + Len(w) + 1 /\ n <= Len(Builds[r])
      /\ runner' = [runner EXCEPT ![r].work = more]
      /\ UNCHANGED <<history, schema, vendor, table, lock>>
  BY <1>1 DEF ApplyMigration, NextVersion
<1> HIDE DEF w, n
<1>3. n \in 1..Len(Builds[r]) /\ Builds[r][n] \in Identities
  BY <1>1, <1>2
<1>4. more \in Seq(Identities)
  BY <1>1, <1>3
<1>5. Agrees(history \o more, Builds[r])
  <2>1. /\ Len(history \o w) = Len(history) + Len(w)
        /\ Len(history \o more) = n
        /\ Len(history) \in Nat /\ Len(w) \in Nat
    BY <1>1, <1>2, <1>3, <1>4
  <2>2. (history \o more)[n] = Builds[r][n]
    BY <1>1, <1>2, <1>3, <1>4
  <2>3. \A v \in 1..(n - 1) : (history \o more)[v] = (history \o w)[v]
    BY <1>1, <1>2, <1>3, <1>4
  <2>4. \A v \in 1..(n - 1) : (history \o w)[v] = Builds[r][v]
    BY <1>1, <1>2, <2>1 DEF Agrees
  <2>5. \A v \in 1..n : v = n \/ v \in 1..(n - 1)
    BY <1>3
  <2> DEFINE longer == history \o more
  <2>6. \A v \in 1..Len(longer) : longer[v] = Builds[r][v]
    <3>1. Len(longer) = n
      BY <2>1
    <3> QED BY <2>2, <2>3, <2>4, <2>5, <3>1, Zenon
  <2>7. Len(longer) <= Len(Builds[r])
    BY <1>2, <2>1, Zenon
  <2> QED BY <2>6, <2>7, Zenon DEF Agrees
<1> HIDE DEF more
<1>6. MigrationType' /\ OneInside' /\ NoneCollides'
  BY <1>2, <1>4 DEF MigrationType, RunnerStates, OneInside, NoneCollides
<1>7. WorkContinues'
  BY <1>1, <1>2, <1>5 DEF MigrationType, RunnerStates, WorkContinues
<1>8. TableKnown' /\ SetUpKnown'
  BY <1>2 DEF MigrationType, RunnerStates, TableKnown, SetUpKnown
<1>9. Accounting'
  BY <1>2 DEF Accounting
<1> QED BY <1>6, <1>7, <1>8, <1>9

LEMMA CommitMoves ==
    ASSUME MigrationInv, NEW r \in Runners, Commit(r)
    PROVE  MigrationInv'
<1> USE DEF MigrationInv
<1> DEFINE w == runner[r].work
<1>0. /\ history \in Seq(Identities) /\ w \in Seq(Identities) /\ runner[r].pc = "applying"
      /\ runner[r].installed = history /\ Agrees(history \o w, Builds[r])
  BY DEF Commit, MigrationType, RunnerStates, WorkContinues
<1>1. /\ history' = history \o w
      /\ schema' = [m \in Identities |-> schema[m] + Cardinality(Places(w, m))]
      /\ runner' = [runner EXCEPT ![r] = At("ended")]
      /\ table' = "there" /\ lock' = Released(r) /\ vendor' = vendor
  BY <1>0 DEF Commit, Places
<1>2. history' \in Seq(Identities)
  BY <1>0, <1>1
<1>3. schema' \in [Identities -> Nat]
  <2>1. \A m \in Identities : Cardinality(Places(w, m)) \in Nat
    BY <1>0, PlacesFinite
  <2> HIDE DEF w
  <2> QED BY <1>1, <2>1 DEF MigrationType
<1>4. Accounting'
  <2>1. \A m \in Identities : schema'[m] = Cardinality(Places(history', m))
    <3> SUFFICES ASSUME NEW m \in Identities
                 PROVE  schema'[m] = Cardinality(Places(history', m))
      OBVIOUS
    <3>1. Cardinality(Places(history \o w, m))
            = Cardinality(Places(history, m)) + Cardinality(Places(w, m))
      BY <1>0, PlacesOfConcatenation
    <3>2. schema[m] = Cardinality(Places(history, m))
      BY DEF Accounting
    <3> HIDE DEF w
    <3> QED BY <1>1, <3>1, <3>2
  <2>2. \E x \in Runners : Agrees(history', Builds[x])
    BY <1>0, <1>1
  <2>3. \A m \in Identities : Places(history, m)' = Places(history', m)
    BY DEF Places
  <2> QED BY <2>1, <2>2, <2>3 DEF Accounting, Agrees
<1> HIDE DEF w
<1> QED BY <1>0, <1>1, <1>2, <1>3, <1>4, EndMoves DEF InTransaction

LEMMA AbortMoves ==
    ASSUME MigrationInv, NEW r \in Runners, Abort(r)
    PROVE  MigrationInv'
<1>1. /\ runner' = [runner EXCEPT ![r] = At("idle")] /\ UNCHANGED <<history, schema, vendor>>
      /\ lock' = Released(r) /\ table' = IF runner[r].made THEN "absent" ELSE table
  BY DEF Abort, RolledBack
<1>2. Accounting'
  BY <1>1 DEF MigrationInv, Accounting
<1> QED BY <1>1, <1>2, EndMoves DEF MigrationInv, MigrationType

LEMMA MigrationMoves == ASSUME MigrationInv, MigrationStep PROVE MigrationInv'
BY SetUpMoves, BootstrapMoves, LockMoves, ReadMoves, ApplyMoves, CommitMoves, AbortMoves
   DEF MigrationStep, Run

LEMMA MigrationRests == ASSUME MigrationInv, UNCHANGED migrationVars PROVE MigrationInv'
BY DEF MigrationInv, MigrationType, OneInside, WorkContinues, TableKnown, SetUpKnown,
       NoneCollides, Accounting, migrationVars

-----------------------------------------------------------------------------
(* The sweep.                                                               *)

Present(s) == rows[s] # "none" \/ job[s] = "admitted"

SweepType ==
    /\ inventory \in [revision : Nat, states : [Tenants -> States]]
    /\ DOMAIN reaper = Processes
    /\ \A p \in Processes : DOMAIN reaper[p] = DOMAIN Off /\ reaper[p].revision \in Nat
    /\ DOMAIN job = Sessions /\ DOMAIN rows = Sessions
    /\ \A e \in evidence : e.revision \in Nat

(* A drain result is never of a later inventory than the deployed one: the  *)
(* reaper that made it loaded it.                                           *)
EvidenceIsPast ==
    /\ \A p \in Processes : reaper[p].revision <= inventory.revision
    /\ \A e \in evidence : e.revision <= inventory.revision

(* While a tenant is still retiring in the inventory a result binds, it     *)
(* admits nobody: whoever has a row or will have one was in flight then.    *)
EvidenceStands ==
    \A e \in evidence : \A s \in Sessions :
        /\ e.revision = inventory.revision /\ e.tenant = TenantOf[s]
        /\ inventory.states[TenantOf[s]] = "retiring"
        /\ Present(s)
        => s \in e.inflight

(* A tenant that is out has only what straddled its removal, registered or  *)
(* still to register.                                                       *)
OnlyStraddlers ==
    \A s \in Sessions :
        Present(s) /\ inventory.states[TenantOf[s]] = "out" => s \in straddlers

SweepInv == SweepType /\ EvidenceIsPast /\ EvidenceStands /\ OnlyStraddlers

LEMMA SweepInitially == SweepInit => SweepInv
<1> SUFFICES ASSUME SweepInit PROVE SweepInv
  OBVIOUS
<1> USE SweepAssumption DEF SweepInit, Off
<1>1. SweepType
  BY DEF SweepType, States
<1>2. EvidenceIsPast /\ EvidenceStands
  BY DEF EvidenceIsPast, EvidenceStands
<1>3. OnlyStraddlers
  BY DEF OnlyStraddlers, Present
<1> QED BY <1>1, <1>2, <1>3 DEF SweepInv

(* A step that deploys nothing, records no drain and lets nobody new in.    *)
LEMMA SweepStands ==
    ASSUME SweepInv, UNCHANGED <<inventory, evidence, straddlers>>, SweepType',
           \A p \in Processes :
             reaper'[p].revision \in {0, inventory.revision, reaper[p].revision},
           \A s \in Sessions : Present(s)' => Present(s) \/ inventory.states[TenantOf[s]] = "active"
    PROVE  SweepInv'
BY DEF SweepInv, SweepType, EvidenceIsPast, EvidenceStands, OnlyStraddlers

LEMMA JobsMove ==
    ASSUME SweepInv, NEW s \in Sessions,
           Admit(s) \/ Register(s) \/ CloseOwn(s) \/ Lapse(s)
    PROVE  SweepInv'
<1>1. UNCHANGED <<inventory, evidence, straddlers, reaper>>
  BY DEF Admit, Register, CloseOwn, Lapse
<1>2. SweepType'
  BY <1>1 DEF SweepInv, SweepType, Admit, Register, CloseOwn, Lapse
<1>3. \A x \in Sessions : Present(x)' => Present(x) \/ inventory.states[TenantOf[x]] = "active"
  BY DEF SweepInv, SweepType, Admit, Register, CloseOwn, Lapse, Present
<1> QED BY <1>1, <1>2, <1>3, SweepStands

(* A process moves to another place of its cycle.                           *)
LEMMA ProcessMoves ==
    ASSUME SweepInv, UNCHANGED <<inventory, evidence, straddlers, job>>,
           NEW p \in Processes, NEW now, reaper' = [reaper EXCEPT ![p] = now],
           DOMAIN now = DOMAIN Off,
           now.revision \in {0, inventory.revision, reaper[p].revision},
           DOMAIN rows' = Sessions, \A s \in Sessions : rows'[s] # "none" => rows[s] # "none"
    PROVE  SweepInv'
<1>1. \A q \in Processes : reaper'[q] = IF q = p THEN now ELSE reaper[q]
  BY DEF SweepInv, SweepType
<1>2. SweepType'
  BY <1>1 DEF SweepInv, SweepType
<1> QED BY <1>1, <1>2, SweepStands DEF Present

(* The revision of a process record with other fields changed.              *)
LEMMA OffDomain ==
    DOMAIN Off = {"pc", "revision", "tenants", "retiring", "todo", "batch", "failed"}
    /\ Off.revision = 0
BY DEF Off

LEMMA ReaperMoves == ASSUME SweepInv, NEW p \in Processes, ReaperStep(p) PROVE SweepInv'
<1>0. DOMAIN reaper = Processes /\ DOMAIN reaper[p] = DOMAIN Off
  BY DEF SweepInv, SweepType
<1>1. CASE Start(p)
  <2>1. UNCHANGED <<inventory, evidence, straddlers, job, rows>>
    BY <1>1 DEF Start
  <2> DEFINE listed == SelectSeq(Order, LAMBDA t : inventory.states[t] # "out")
             swept == [Off EXCEPT !.pc = "list", !.tenants = listed, !.todo = listed]
             retiring == {t \in Tenants : inventory.states[t] = "retiring"}
             once == [swept EXCEPT !.revision = inventory.revision, !.retiring = retiring]
  <2>2. reaper' = [reaper EXCEPT ![p] = swept] \/ reaper' = [reaper EXCEPT ![p] = once]
    BY <1>1 DEF Start
  <2> HIDE DEF listed, retiring
  <2>3. DOMAIN swept = DOMAIN Off /\ swept.revision = 0
    BY OffDomain
  <2>4. DOMAIN once = DOMAIN Off /\ once.revision = inventory.revision
    BY OffDomain
  <2> HIDE DEF swept, once
  <2> QED BY <2>1, <2>2, <2>3, <2>4, ProcessMoves DEF SweepInv, SweepType
<1>2. CASE List(p)
  <2> DEFINE now == [reaper[p] EXCEPT !.pc = "close",
                                      !.batch = ExpiredSessions(Head(reaper[p].todo))]
  <2>1. /\ UNCHANGED <<inventory, evidence, straddlers, job, rows>>
        /\ reaper' = [reaper EXCEPT ![p] = now]
    BY <1>0, <1>2 DEF List
  <2>2. DOMAIN now = DOMAIN Off /\ now.revision = reaper[p].revision
    BY <1>0, OffDomain
  <2> HIDE DEF now
  <2> QED BY <2>1, <2>2, ProcessMoves DEF SweepInv, SweepType
<1>3. CASE CloseCandidate(p)
  <2>1. UNCHANGED <<inventory, evidence, straddlers, job>>
    BY <1>3 DEF CloseCandidate
  <2>2. PICK failed : reaper' = [reaper EXCEPT ![p].batch = Tail(@), ![p].failed = failed]
    BY <1>0, <1>3 DEF CloseCandidate
  <2> DEFINE now == [reaper[p] EXCEPT !.batch = Tail(@), !.failed = failed]
  <2>3. reaper' = [reaper EXCEPT ![p] = now]
    BY <1>0, <2>2
  <2>4. DOMAIN now = DOMAIN Off /\ now.revision = reaper[p].revision
    BY <1>0, OffDomain
  <2>5. DOMAIN rows' = Sessions /\ \A s \in Sessions : rows'[s] # "none" => rows[s] # "none"
    BY <1>3 DEF CloseCandidate, SweepInv, SweepType
  <2> HIDE DEF now
  <2> QED BY <2>1, <2>3, <2>4, <2>5, ProcessMoves
<1>4. CASE Purge(p)
  <2> DEFINE now == [reaper[p] EXCEPT !.pc = "list", !.todo = Tail(@)]
  <2>1. /\ UNCHANGED <<inventory, evidence, straddlers, job>>
        /\ reaper' = [reaper EXCEPT ![p] = now]
    BY <1>0, <1>4 DEF Purge
  <2>2. DOMAIN now = DOMAIN Off /\ now.revision = reaper[p].revision
    BY <1>0, OffDomain
  <2>3. DOMAIN rows' = Sessions /\ \A s \in Sessions : rows'[s] # "none" => rows[s] # "none"
    BY <1>4 DEF Purge, SweepInv, SweepType
  <2> HIDE DEF now
  <2> QED BY <2>1, <2>2, <2>3, ProcessMoves
<1>5. CASE EndCycle(p)
  <2> DEFINE todo == SelectSeq(Order, LAMBDA t : t \in reaper[p].retiring)
             between == [reaper[p] EXCEPT !.pc = "between"]
             observe == [reaper[p] EXCEPT !.pc = "observe", !.todo = todo]
  <2>1. UNCHANGED <<inventory, evidence, straddlers, job, rows>>
    BY <1>5 DEF EndCycle
  <2>2. \/ reaper' = [reaper EXCEPT ![p] = between]
        \/ reaper' = [reaper EXCEPT ![p] = Off]
        \/ reaper' = [reaper EXCEPT ![p] = observe]
    BY <1>0, <1>5 DEF EndCycle
  <2> HIDE DEF todo
  <2>3. /\ DOMAIN between = DOMAIN Off /\ between.revision = reaper[p].revision
        /\ DOMAIN observe = DOMAIN Off /\ observe.revision = reaper[p].revision
    BY <1>0, OffDomain
  <2> HIDE DEF between, observe
  <2> QED BY <2>1, <2>2, <2>3, OffDomain, ProcessMoves DEF SweepInv, SweepType
<1>6. CASE Observe(p)
  <2> DEFINE t == Head(reaper[p].todo)
             result == [tenant |-> t, revision |-> reaper[p].revision, inflight |-> InFlight(t)]
             further == [reaper[p] EXCEPT !.todo = Tail(@)]
  <2>1. UNCHANGED <<inventory, straddlers, job, rows>>
    BY <1>6 DEF Observe
  <2>2. PICK now : /\ reaper' = [reaper EXCEPT ![p] = now]
                   /\ DOMAIN now = DOMAIN Off /\ now.revision \in {0, reaper[p].revision}
    <3>1. reaper' = [reaper EXCEPT ![p] = Off] \/ reaper' = [reaper EXCEPT ![p] = further]
      BY <1>0, <1>6 DEF Observe
    <3>2. DOMAIN further = DOMAIN Off /\ further.revision = reaper[p].revision
      BY <1>0, OffDomain
    <3> HIDE DEF further
    <3> QED BY <3>1, <3>2, OffDomain
  <2>3. CASE UNCHANGED evidence
    BY <2>1, <2>2, <2>3, ProcessMoves DEF SweepInv, SweepType
  <2>4. CASE NoDurableRows(t) /\ evidence' \subseteq evidence \cup {result}
    <3>0. \A q \in Processes : reaper'[q] = IF q = p THEN now ELSE reaper[q]
      BY <1>0, <2>2
    <3>1. SweepType' /\ EvidenceIsPast'
      BY <2>1, <2>2, <2>4, <3>0 DEF SweepInv, SweepType, EvidenceIsPast
    <3>2. EvidenceStands'
      <4> SUFFICES ASSUME NEW e \in evidence', NEW s \in Sessions,
                          e.revision = inventory.revision, e.tenant = TenantOf[s],
                          inventory.states[TenantOf[s]] = "retiring", Present(s)
                   PROVE  s \in e.inflight
        BY <2>1 DEF EvidenceStands, Present
      <4>1. CASE e \in evidence
        BY <4>1 DEF SweepInv, EvidenceStands
      <4>2. CASE e = result
        BY <2>4, <4>2 DEF NoDurableRows, Of, InFlight, Present
      <4> QED BY <2>4, <4>1, <4>2
    <3>3. OnlyStraddlers'
      BY <2>1 DEF SweepInv, OnlyStraddlers, Present
    <3> QED BY <3>1, <3>2, <3>3 DEF SweepInv
  <2> QED BY <1>6, <2>3, <2>4 DEF Observe
<1> QED BY <1>1, <1>2, <1>3, <1>4, <1>5, <1>6 DEF ReaperStep

LEMMA ServiceMoves == ASSUME SweepInv, NextCycle \/ Stop PROVE SweepInv'
<1>0. /\ DOMAIN reaper = Processes /\ DOMAIN reaper["serve"] = DOMAIN Off
      /\ "serve" \in Processes
  BY DEF SweepInv, SweepType, Processes
<1>1. UNCHANGED <<inventory, evidence, straddlers, job, rows>>
  BY DEF NextCycle, Stop
<1>2. CASE Stop
  BY <1>0, <1>1, <1>2, OffDomain, ProcessMoves DEF Stop, SweepInv, SweepType
<1>3. CASE NextCycle
  <2> DEFINE now == [reaper["serve"] EXCEPT !.pc = "list", !.todo = reaper["serve"].tenants]
  <2>1. reaper' = [reaper EXCEPT !["serve"] = now]
    BY <1>0, <1>3 DEF NextCycle
  <2>2. DOMAIN now = DOMAIN Off /\ now.revision = reaper["serve"].revision
    BY <1>0, OffDomain
  <2> HIDE DEF now
  <2> QED BY <1>0, <1>1, <2>1, <2>2, ProcessMoves DEF SweepInv, SweepType
<1> QED BY <1>2, <1>3

LEMMA DeployMoves ==
    ASSUME SweepInv, NEW states \in [Tenants -> States], Deploy(states)
    PROVE  SweepInv'
<1>0. TenantOf \in [Sessions -> Tenants]
  BY SweepAssumption
<1>1. /\ inventory' = [revision |-> inventory.revision + 1, states |-> states]
      /\ UNCHANGED <<evidence, job, rows, queue, reaper>>
      /\ straddlers \subseteq straddlers'
  BY DEF Deploy
<1>2. inventory' \in [revision : Nat, states : [Tenants -> States]]
  BY <1>1 DEF SweepInv, SweepType
<1>3. inventory'.revision = inventory.revision + 1 /\ inventory'.states = states
  BY <1>1
<1>4. SweepType'
  BY <1>1, <1>2 DEF SweepInv, SweepType
<1>5. EvidenceIsPast' /\ EvidenceStands'
  BY <1>1, <1>3 DEF SweepInv, SweepType, EvidenceIsPast, EvidenceStands
<1>6. OnlyStraddlers'
  <2> SUFFICES ASSUME NEW s \in Sessions, Present(s), states[TenantOf[s]] = "out"
               PROVE  s \in straddlers'
    BY <1>1, <1>3 DEF OnlyStraddlers, Present
  <2> DEFINE t == TenantOf[s]
  <2>0. t \in Tenants /\ inventory.states[t] \in States
    BY <1>0 DEF SweepInv, SweepType
  <2>1. CASE inventory.states[t] = "out"
    BY <1>1, <2>1 DEF SweepInv, OnlyStraddlers
  <2>2. CASE inventory.states[t] = "retiring"
    <3>1. PICK results \in SUBSET evidence :
            /\ \E e \in results : Drained(t, e)
            /\ straddlers' = straddlers \cup UNION {e.inflight : e \in results}
      BY <2>0, <2>2 DEF Deploy
    <3>2. PICK e \in results : Drained(t, e)
      BY <3>1
    <3>3. s \in e.inflight
      BY <2>2, <3>2 DEF SweepInv, EvidenceStands, Drained
    <3> QED BY <3>1, <3>2, <3>3
  <2>3. inventory.states[t] # "active"
    <3>1. LegalMove(inventory.states[t], states[t])
      BY <2>0 DEF Deploy
    <3> QED BY <3>1 DEF LegalMove
  <2> QED BY <2>0, <2>1, <2>2, <2>3 DEF States
<1> QED BY <1>4, <1>5, <1>6 DEF SweepInv

LEMMA SweepMoves == ASSUME SweepInv, SweepStep PROVE SweepInv'
BY JobsMove, ReaperMoves, ServiceMoves, DeployMoves DEF SweepStep

LEMMA SweepRests == ASSUME SweepInv, UNCHANGED sweepVars PROVE SweepInv'
BY DEF SweepInv, SweepType, EvidenceIsPast, EvidenceStands, OnlyStraddlers, Present, sweepVars

-----------------------------------------------------------------------------
(* Runners of whatever builds that start, fail and run again at the same    *)
(* time leave a history that begins a build and says how often each         *)
(* migration was applied.  None fails because of another past the lock,     *)
(* which covers the reading and the writing; before it, in the vendor's     *)
(* set-up or the bootstrap, only one that started on a database that was    *)
(* not yet fully set up does (apply_platform_migrations).                   *)
THEOREM HistoryAlwaysTellsSchema == DeploymentSpec => []HistoryTellsSchema
<1>1. DeploymentInit => MigrationInv
  BY MigrationInitially DEF DeploymentInit
<1>2. MigrationInv /\ [DeploymentNext]_vars => MigrationInv'
  BY MigrationMoves, MigrationRests DEF DeploymentNext, Migrate, Operate, vars
<1>3. MigrationInv => HistoryTellsSchema
  BY DEF MigrationInv, Accounting, Places, NoneCollides, SetUpKnown, HistoryTellsSchema
<1> QED BY <1>1, <1>2, <1>3, PTL DEF DeploymentSpec

(* However inventories follow one another, a row of a tenant nobody sweeps  *)
(* any more is of a job that was in flight when the drain that removed the  *)
(* tenant was observed: while a tenant retires nobody new is admitted, and  *)
(* a drain result is worth nothing in any other inventory                   *)
(* (validate_tenant_lifecycle_transition).                                  *)
THEOREM NoOtherRowIsLeftBehind == DeploymentSpec => []OnlyStraddlersAreLeftBehind
<1>1. DeploymentInit => SweepInv
  BY SweepInitially DEF DeploymentInit
<1>2. SweepInv /\ [DeploymentNext]_vars => SweepInv'
  BY SweepMoves, SweepRests DEF DeploymentNext, Migrate, Operate, vars
<1>3. SweepInv => OnlyStraddlersAreLeftBehind
  BY DEF SweepInv, OnlyStraddlers, OnlyStraddlersAreLeftBehind, Present
<1> QED BY <1>1, <1>2, <1>3, PTL DEF DeploymentSpec
=============================================================================
