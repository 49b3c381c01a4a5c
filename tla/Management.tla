------------------------------ MODULE Management ------------------------------
(***************************************************************************)
(* Merchant configuration management: the SQLite repository                *)
(* (management/repository.py), the service that reads, resolves and        *)
(* decides outside its transactions (management/service.py) and the HTTP   *)
(* adapter's handlers that run it on a pool of threads                     *)
(* (management/api.py).  One merchant with one draft.                      *)
(*                                                                         *)
(* Every repository write is one BEGIN IMMEDIATE transaction: SQLite admits *)
(* one writer, so it is one action.  The reads before it are not part of   *)
(* it: a call keeps what it read (calls) and commits later.  A refused,    *)
(* conflicting or replayed call changes no table and is a stuttering step, *)
(* or returns its handler thread to idle.                                  *)
(*                                                                         *)
(* Abstracted: a draft's content is its override, its catalog, its other   *)
(* fixture families and the kind of its dataset manifest; a revision       *)
(* names one stored draft (revisions only grow), so it stands for the      *)
(* draft fingerprint, and a preview for its fingerprint.  Timestamps,      *)
(* actor (one per deployment) and audit event ids are left out.            *)
(***************************************************************************)
EXTENDS Naturals, Sequences, FiniteSets, SequencesExt

CONSTANTS
    Handlers,      \* handler threads of the HTTP adapter
    Requests,      \* request ids of publications, retirements and rollbacks
    Validations,   \* request ids of validations
    Overrides,     \* merchant overrides a draft may hold
    Invalid,       \* those no configuration tree resolves or validates
    Catalogs,      \* catalog fixtures
    Families,      \* the other five fixture families, as one value
    Written,       \* the draft contents operators submit
    Datasets,      \* the fixture bundles operators import
    Roots,         \* contents of the active configuration tree
    Contracts,     \* management contract schemas of successive builds
    SeedOverride,  \* what a configuration tree holds for this merchant
    SeedCatalog,
    SeedFamilies,
    MaxShown,      \* bound on the previews shown (model bound)
    MaxRevision,   \* bound on draft revisions (model bound)
    MaxAudit       \* bound on the length of the audit log (model bound)

ASSUME ManagementAssumption ==
    /\ Invalid \subseteq Overrides
    /\ Written \subseteq
         [override : Overrides, catalog : Catalogs, families : Families,
          manifest : {"none", "supplied", "derived"}]
    /\ Datasets \subseteq [catalog : Catalogs, families : Families]
    /\ SeedOverride \in Overrides
    /\ SeedCatalog \in Catalogs
    /\ SeedFamilies \in Families
    /\ MaxShown \in Nat
    /\ MaxRevision \in Nat
    /\ MaxAudit \in Nat

VARIABLES
    draft,       \* management_drafts: the draft's row
    versions,    \* management_versions, in the order of insertion
    active,      \* management_active_versions: a version number, 0 for no row
    receipts,    \* management_publication_requests
    validations, \* management_validation_requests
    audit,       \* management_audit_records, in sequence order
    calls,       \* what each handler thread has read and means to commit
    shown,       \* previews an operator was ever shown
    root,        \* the active configuration tree
    contract,    \* the contract schema of the running build
    up           \* the process passed its startup checks

tables == <<draft, versions, active, receipts, validations, audit>>
process == <<calls, shown, root, contract, up>>
vars == <<tables, process>>

(* A draft's editable content; its manifest is absent, supplied with a      *)
(* dataset, or derived by a catalog import.                                 *)
Manifests == {"none", "supplied", "derived"}
Content ==
    [override : Overrides, catalog : Catalogs, families : Families,
     manifest : Manifests]
Revisions == 1..MaxRevision
NoDraft == [revision |-> 0]
Draft == [revision : Revisions, content : Content]

(* resolve_merchant_override: the effective configuration depends on the    *)
(* override and on the base layers of the tree it is resolved against.      *)
Resolve(tree, override) == [tree |-> tree, override |-> override]
Configs == [tree : Roots, override : Overrides]
Resolves(d) == d.content.override \notin Invalid

(* ResolvedMerchantPreview, which its fingerprint identifies.               *)
PreviewOf(d, tree) ==
    [revision |-> d.revision, config |-> Resolve(tree, d.content.override),
     catalog |-> d.content.catalog, families |-> d.content.families,
     manifest |-> d.content.manifest, schema |-> contract]
Preview ==
    [revision : Revisions, config : Configs, catalog : Catalogs,
     families : Families, manifest : Manifests, schema : Contracts]

(* PublishedMerchantVersion.                                                *)
Version == [number : Nat, previous : Nat, payload : Preview]
VersionOf(number, previous, payload) ==
    [number |-> number, previous |-> previous, payload |-> payload]

(* _load_model of a stored version: its validator refuses a version of      *)
(* another contract schema.                                                 *)
Loads(v) == v.payload.schema = contract

NoReceipt == [kind |-> "none", number |-> 0]
Idle == [op |-> "idle"]

Init ==
    /\ draft = NoDraft
    /\ versions = <<>>
    /\ active = 0
    /\ receipts = [q \in Requests |-> NoReceipt]
    /\ validations = [q \in Validations |-> 0]
    /\ audit = <<>>
    /\ calls = [h \in Handlers |-> Idle]
    /\ shown = {}
    /\ root \in Roots
    /\ contract \in Contracts
    /\ up = TRUE

-----------------------------------------------------------------------------
(* Repository helpers.                                                      *)

LatestNumber == IF versions = <<>> THEN 0 ELSE Last(versions).number
Stored(number) == {v \in Range(versions) : v.number = number}

Audited(event, ref) ==
    /\ Len(audit) < MaxAudit
    /\ audit' = Append(audit, [event |-> event, ref |-> ref])

Return(h) == calls' = [calls EXCEPT ![h] = Idle]

(* A handler starts only on an idle thread of a process that is up.  An     *)
(* operator names the revision it was shown: one that is no longer current  *)
(* is refused at once, one that the draft has not reached is never named.   *)
Starts(h) == up /\ calls[h].op = "idle"
Seen(e) == e = draft.revision

Proceed(h, call) ==
    /\ calls' = [calls EXCEPT ![h] = call]
    /\ UNCHANGED <<tables, shown, root, contract, up>>

-----------------------------------------------------------------------------
(* Drafts.  A save call carries the whole new draft and the revision it     *)
(* expects to replace.                                                      *)

SaveCall(kind, e, content) ==
    [op |-> "save", kind |-> kind, expected |-> e, content |-> content]

(* write_draft: the operator supplies the whole content; the read before    *)
(* the save only decides the timestamps.                                    *)
WriteDraft(h, e, content) ==
    /\ Starts(h)
    /\ Seen(e)
    /\ Proceed(h, SaveCall("edit", e, content))

(* seed_draft: a first revision copied from the active configuration tree.  *)
SeedDraft(h) ==
    /\ Starts(h)
    /\ draft = NoDraft
    /\ Proceed(h, SaveCall("edit", 0, [override |-> SeedOverride,
                                       catalog |-> SeedCatalog,
                                       families |-> SeedFamilies,
                                       manifest |-> "none"]))

(* import_dataset: read the draft, keep its override, replace its fixtures  *)
(* and manifest.  A repetition of the import that produced the stored       *)
(* draft is answered from it and changes nothing.                           *)
DatasetSave(e, dataset) ==
    /\ draft.revision = e
    /\ draft # NoDraft
    /\ \/ draft.content.catalog # dataset.catalog
       \/ draft.content.families # dataset.families
       \/ draft.content.manifest # dataset.manifest

Imported(d, dataset) ==
    [d.content EXCEPT !.catalog = dataset.catalog,
                      !.families = dataset.families,
                      !.manifest = dataset.manifest]

ImportDataset(h, e, fixtures) ==
    LET dataset == [catalog |-> fixtures.catalog, families |-> fixtures.families,
                    manifest |-> "supplied"]
    IN /\ Starts(h)
       /\ Seen(e)
       /\ DatasetSave(e, dataset)
       /\ Proceed(h, SaveCall("edit", e, Imported(draft, dataset)))

(* import_catalog: a first read of the draft supplies the other families    *)
(* for a derived dataset, which import_dataset then applies to a second     *)
(* read.                                                                    *)
ImportCatalog(h, e, catalog) ==
    /\ Starts(h)
    /\ e >= 1
    /\ Seen(e)
    /\ Proceed(h, [op |-> "derive", expected |-> e,
                   dataset |-> [catalog |-> catalog,
                                families |-> draft.content.families,
                                manifest |-> "derived"]])

ImportDerivedDataset(h) ==
    LET call == calls[h]
    IN /\ call.op = "derive"
       /\ \/ /\ DatasetSave(call.expected, call.dataset)
             /\ Proceed(h, SaveCall("catalog", call.expected,
                                   Imported(draft, call.dataset)))
          \/ /\ ~DatasetSave(call.expected, call.dataset)
             /\ Proceed(h, Idle)

(* Provenance, once there, may not be removed; a retry of the stored draft  *)
(* is answered from it.                                                     *)
Saves(e, content) ==
    /\ draft.revision = e
    /\ draft # NoDraft /\ draft.content.manifest # "none" => content.manifest # "none"

(* Mutant: the update is not conditional on the expected revision.          *)
SaveDraftBlindly(h) ==
    /\ calls[h].op = "save"
    /\ draft.revision < MaxRevision
    /\ draft' = [revision |-> draft.revision + 1, content |-> calls[h].content]
    /\ Audited(IF draft = NoDraft THEN "draft_created" ELSE "draft_updated",
               draft.revision + 1)
    /\ Return(h)
    /\ UNCHANGED <<versions, active, receipts, validations, shown, root, contract, up>>

SaveDraft(h) ==
    /\ calls[h].op = "save"
    /\ Saves(calls[h].expected, calls[h].content)
    /\ draft.revision < MaxRevision
    /\ draft' = [revision |-> draft.revision + 1, content |-> calls[h].content]
    /\ Audited(IF draft = NoDraft THEN "draft_created" ELSE "draft_updated",
               draft.revision + 1)
    /\ Return(h)
    /\ UNCHANGED <<versions, active, receipts, validations, shown, root, contract, up>>

RefuseSave(h) ==
    /\ calls[h].op = "save"
    /\ ~Saves(calls[h].expected, calls[h].content)
    /\ Return(h)
    /\ UNCHANGED <<tables, shown, root, contract, up>>

-----------------------------------------------------------------------------
(* Validation and preview of one stored revision.                           *)

(* validate_draft reads the draft, inspects it and records the result in a  *)
(* transaction that looks its request id up first: the draft may have moved *)
(* on from the revision e it read.                                          *)
ValidateDraft(q, e) ==
    /\ up
    /\ e <= draft.revision
    /\ validations[q] = 0
    /\ validations' = [validations EXCEPT ![q] = e]
    /\ Audited("draft_validated", e)
    /\ UNCHANGED <<draft, versions, active, receipts, process>>

PreviewDraft ==
    /\ up
    /\ draft # NoDraft
    /\ Resolves(draft)
    /\ Cardinality(shown) < MaxShown
    /\ PreviewOf(draft, root) \notin shown
    /\ shown' = shown \cup {PreviewOf(draft, root)}
    /\ UNCHANGED <<tables, calls, root, contract, up>>

-----------------------------------------------------------------------------
(* Publication, retirement and rollback.  Each looks its request id up in   *)
(* its own transaction: a known id is answered from its receipt, or refused *)
(* when its fingerprint stands for another command; neither changes a table.*)

Unanswered(q) == receipts[q] = NoReceipt

(* Mutant: the service does not compare its preview with the approved one.  *)
PublishDraftUnapproved(h, q, approved, a) ==
    /\ Starts(h)
    /\ Unanswered(q)
    /\ draft.revision = approved.revision
    /\ Resolves(draft)
    /\ Proceed(h, [op |-> "publish", request |-> q, base |-> a,
                   preview |-> PreviewOf(draft, root)])

(* publish_draft: replay lookup, then resolve the named revision again and  *)
(* compare with the preview the operator approved.                          *)
PublishDraft(h, q, approved, a) ==
    /\ Starts(h)
    /\ Unanswered(q)
    /\ draft.revision = approved.revision
    /\ Resolves(draft)
    /\ PreviewOf(draft, root) = approved
    /\ Proceed(h, [op |-> "publish", request |-> q, base |-> a,
                   preview |-> approved])

Publishes(call) ==
    /\ Unanswered(call.request)
    /\ draft.revision = call.preview.revision
    /\ Resolves(draft)
    /\ Resolve(root, draft.content.override) = call.preview.config
    /\ active = call.base

Activated(q, kind, version) ==
    /\ versions' = Append(versions, version)
    /\ active' = version.number
    /\ receipts' = [receipts EXCEPT
         ![q] = [kind |-> kind, number |-> version.number]]

(* Mutants of Publish: the version is numbered and linked from the active   *)
(* pointer; the request is looked up only before the transaction and the    *)
(* draft and active pointer are not compared again in it.                   *)
PublishFromActive(h) ==
    /\ calls[h].op = "publish"
    /\ Publishes(calls[h])
    /\ Activated(calls[h].request, "publish",
                 VersionOf(active + 1, active, calls[h].preview))
    /\ Audited("version_published", active + 1)
    /\ Return(h)
    /\ UNCHANGED <<draft, validations, shown, root, contract, up>>

PublishOnEarlierLookup(h) ==
    /\ calls[h].op = "publish"
    /\ Activated(calls[h].request, "publish",
                 VersionOf(LatestNumber + 1, LatestNumber, calls[h].preview))
    /\ Audited("version_published", LatestNumber + 1)
    /\ Return(h)
    /\ UNCHANGED <<draft, validations, shown, root, contract, up>>

Publish(h) ==
    /\ calls[h].op = "publish"
    /\ Publishes(calls[h])
    /\ Activated(calls[h].request, "publish",
                 VersionOf(LatestNumber + 1, LatestNumber, calls[h].preview))
    /\ Audited("version_published", LatestNumber + 1)
    /\ Return(h)
    /\ UNCHANGED <<draft, validations, shown, root, contract, up>>

RefusePublish(h) ==
    /\ calls[h].op = "publish"
    /\ ~Publishes(calls[h])
    /\ Return(h)
    /\ UNCHANGED <<tables, shown, root, contract, up>>

Retire(q, a) ==
    /\ up
    /\ Unanswered(q)
    /\ active # 0
    /\ active = a
    /\ active' = 0
    /\ receipts' = [receipts EXCEPT
         ![q] = [kind |-> "retire", number |-> a]]
    /\ Audited("version_retired", a)
    /\ UNCHANGED <<draft, versions, validations, process>>

Rollback(q, a, source) ==
    /\ up
    /\ Unanswered(q)
    /\ active # 0
    /\ active = a
    /\ \E v \in Stored(source) :
         /\ Loads(v)
         /\ Activated(q, "rollback",
                      VersionOf(LatestNumber + 1, active,
                                [v.payload EXCEPT !.schema = contract]))
         /\ Audited("version_rolled_back", LatestNumber + 1)
    /\ UNCHANGED <<draft, validations, process>>

-----------------------------------------------------------------------------
(* The environment: the configuration tree is edited on disk, and the       *)
(* process is stopped and started again, perhaps as another build; calls in *)
(* flight are lost with it.                                                 *)

EditConfigTree(tree) ==
    /\ tree # root
    /\ root' = tree
    /\ UNCHANGED <<tables, calls, shown, contract, up>>

(* _initialize and _require_current_contract_fingerprint.                   *)
Restart(c) ==
    /\ contract' = c
    /\ up' = \A v \in Range(versions) : v.payload.schema = c
    /\ calls' = [h \in Handlers |-> Idle]
    /\ UNCHANGED <<tables, shown, root>>

EditStep(h) ==
    \/ \E e \in 0..MaxRevision, content \in Written : WriteDraft(h, e, content)
    \/ SeedDraft(h)
    \/ \E e \in Revisions, fixtures \in Datasets : ImportDataset(h, e, fixtures)
    \/ \E e \in Revisions, catalog \in Catalogs : ImportCatalog(h, e, catalog)
    \/ ImportDerivedDataset(h)
    \/ SaveDraft(h)
    \/ RefuseSave(h)

PublicationStep(h) ==
    \/ \E q \in Requests, p \in shown, a \in {0, active} : PublishDraft(h, q, p, a)
    \/ Publish(h)
    \/ RefusePublish(h)

Next ==
    \/ \E h \in Handlers : EditStep(h) \/ PublicationStep(h)
    \/ \E q \in Validations, e \in Revisions : ValidateDraft(q, e)
    \/ PreviewDraft
    \/ \E q \in Requests, a \in DOMAIN versions :
         Retire(q, a) \/ \E source \in DOMAIN versions : Rollback(q, a, source)
    \/ \E tree \in Roots : EditConfigTree(tree)
    \/ \E c \in Contracts : Restart(c)

Spec == Init /\ [][Next]_vars

-----------------------------------------------------------------------------
(* Type correctness of the tables.                                          *)
TypeOK ==
    /\ draft \in Draft \cup {NoDraft}
    /\ versions \in Seq(Version)
    /\ active \in 0..Len(versions)
    /\ shown \subseteq Preview
    /\ root \in Roots
    /\ contract \in Contracts
    /\ up \in BOOLEAN

(* Whatever races, retirements and rollbacks there were, the stored         *)
(* versions form one line: numbered without gaps, each linked to the one    *)
(* before it, and only the newest can be the active one.  publish links to  *)
(* the latest stored version and rollback to the active one: they agree.    *)
VersionsLinked ==
    /\ \A i \in DOMAIN versions :
         versions[i].number = i /\ versions[i].previous = i - 1
    /\ active \in {0, Len(versions)}

(* The audit log explains the tables: its records of draft revisions and    *)
(* of versions number them from 1 on without gaps up to the last one there  *)
(* is, and its latest record of an activation or a retirement tells which   *)
(* version is active.                                                       *)
DraftEvents == {"draft_created", "draft_updated"}
VersionEvents == {"version_published", "version_rolled_back"}
ActiveEvents == VersionEvents \cup {"version_retired"}
Records(log, events) == {i \in DOMAIN log : log[i].event \in events}
Numbers(log, events, n) ==
    LET found == Records(log, events) IN
    /\ Cardinality(found) = n
    /\ \A i \in found : log[i].ref = Cardinality({j \in found : j <= i})
ActiveIn(log, number) ==
    LET found == Records(log, ActiveEvents) IN
    \/ found = {} /\ number = 0
    \/ \E i \in found :
         /\ \A j \in found : j <= i
         /\ number = IF log[i].event = "version_retired" THEN 0 ELSE log[i].ref
AuditExplainsState ==
    /\ Numbers(audit, DraftEvents, draft.revision)
    /\ \A i \in Records(audit, DraftEvents) :
         audit[i].event = "draft_created" <=> audit[i].ref = 1
    /\ Numbers(audit, VersionEvents, Len(versions))
    /\ ActiveIn(audit, active)

(* A running process can load every version it stores: a build with another *)
(* contract schema refuses to start over them (repository.py,               *)
(* _require_current_contract_fingerprint).                                  *)
VersionsLoad == up => \A v \in Range(versions) : Loads(v)

(* The tables tell one history, the audit log tells the same one, and the   *)
(* running process can read it: the three parts above hold together.        *)
HistorySound == VersionsLinked /\ AuditExplainsState /\ VersionsLoad

(* What is published was approved: every stored payload is one an operator  *)
(* was shown as a preview, although the service resolves the draft again,   *)
(* between the approval and the commit, against a tree that may have        *)
(* changed, and a rollback stamps a stored payload with the running schema. *)
PublishedWasShown ==
    \A v \in Range(versions) : v.payload \in shown

(* A catalog import replaces the catalog of the draft it names and keeps    *)
(* every other fixture family and the override of the revision it           *)
(* replaces, although it reads the draft twice before it saves.             *)
CatalogImportKeepsTheRest ==
    [][\A h \in Handlers :
         /\ calls[h].op = "save"
         /\ calls[h].kind = "catalog"
         /\ calls'[h].op = "idle"
         /\ draft' # draft
         => /\ draft.content.families = draft'.content.families
            /\ draft.content.override = draft'.content.override]_vars

(* The repository implements the abstract history: publications, rollbacks  *)
(* and retirements are its steps, each request id has one effect, and       *)
(* everything else (drafts, validations, restarts) leaves it alone.         *)
Contents == [config : Configs, catalog : Catalogs, families : Families,
             manifest : Manifests]
ContentOf(p) == [config |-> p.config, catalog |-> p.catalog,
                 families |-> p.families, manifest |-> p.manifest]

History == INSTANCE PublicationHistory WITH
    history <- [i \in DOMAIN versions |-> ContentOf(versions[i].payload)],
    serving <- active,
    answers <- [q \in Requests |-> receipts[q].number]

ImplementsPublicationHistory == History!Spec
=============================================================================
