---------------------------- MODULE DurableSession ---------------------------
(***************************************************************************)
(* The session registry together with the checkpoint data plane            *)
(* (durability/postgres_checkpoints.py): the fenced saver of each lease     *)
(* holder, and the deleting saver of a closer.                              *)
(*                                                                          *)
(* A saver operation is one transaction too, but its authorising statement  *)
(* reads TWO tables and locks only one: SELECT ... FROM platform_sessions   *)
(* LEFT JOIN platform_checkpoint_generations ... FOR UPDATE OF session_row. *)
(* When the statement waits for the session row, the session columns are    *)
(* those of the newest row, but the generation columns still come from the  *)
(* snapshot taken when the statement started.  So the operation of a lease  *)
(* holder is two steps here: BeginOperation takes the snapshot (and the     *)
(* saver's asyncio operation lock), CommitOperation holds the row lock.     *)
(* The table effects of the operation, checkpoint rows and sealed manifest  *)
(* alike, commit together; storage[p] says whether generation p has any.    *)
(***************************************************************************)
EXTENDS SessionRegistry

VARIABLE saver      \* by lease owner: the operation its saver is executing

vars == <<row, gens, receipts, storage, issued, claims, quiet, saver>>

Idle == [kind |-> "idle", gen |-> 0, seen |-> "absent", age |-> 0]

SaverOperation ==
    [kind : {"idle", "write", "delete"}, gen : Principals,
     seen : {"absent", "pending", "current", "retired", "deleted"},
     age : 0..Skew]

Init ==
    /\ RegistryInit
    /\ saver = [o \in LeaseOwners |-> Idle]

(* What the lease holder's saver may do to a generation it saw in a state.  *)
Permitted(kind, seen) ==
    \/ kind = "write" /\ seen \in {"current", "pending"}
    \/ kind = "delete" /\ seen \in {"retired", "deleted"}

BeginOperation(o, kind, p) ==
    /\ o \in issued
    /\ saver[o] = Idle
    /\ gens[p].state # "absent"
    /\ saver' = [saver EXCEPT ![o] = [kind |-> kind, gen |-> p,
                                      seen |-> gens[p].state, age |-> 0]]
    /\ UNCHANGED registryVars

(* Mutant: the session columns are read in the snapshot, not under the lock. *)
CommitOnSnapshot(o, s) ==
    /\ saver[o].kind # "idle"
    /\ s <= saver[o].age
    /\ Permitted(saver[o].kind, saver[o].seen)
    /\ storage' = [storage EXCEPT ![saver[o].gen] = (saver[o].kind = "write")]
    /\ saver' = [saver EXCEPT ![o] = Idle]
    /\ UNCHANGED <<row, gens, receipts, issued, claims, quiet>>

CommitOperation(o, s) ==
    /\ saver[o].kind # "idle"
    /\ s <= saver[o].age
    /\ LeaseAuthorized(o, s)
    /\ Permitted(saver[o].kind, saver[o].seen)
    /\ storage' = [storage EXCEPT ![saver[o].gen] = (saver[o].kind = "write")]
    /\ saver' = [saver EXCEPT ![o] = Idle]
    /\ UNCHANGED <<row, gens, receipts, issued, claims, quiet>>

(* A rejection, a time-out or a cancellation rolls the transaction back.    *)
RollbackOperation(o) ==
    /\ saver[o].kind # "idle"
    /\ saver' = [saver EXCEPT ![o] = Idle]
    /\ UNCHANGED registryVars

(* adelete_thread under a close authority: any registered generation may be *)
(* deleted, none may be written, whatever the snapshot said of its state.   *)
CloseDelete(c, p, s) ==
    /\ CloseAuthorized(c, s)
    /\ gens[p].state # "absent"
    /\ storage' = [storage EXCEPT ![p] = FALSE]
    /\ UNCHANGED <<row, gens, receipts, issued, claims, quiet, saver>>

Tick ==
    /\ RegistryTick
    /\ saver' = [o \in LeaseOwners |->
                   IF saver[o].kind = "idle" THEN saver[o]
                   ELSE [saver[o] EXCEPT !.age = Min({saver[o].age + 1, Skew})]]

SaverStep(o) ==
    \/ \E kind \in {"write", "delete"}, p \in Principals : BeginOperation(o, kind, p)
    \/ \E s \in 0..quiet : CommitOperation(o, s)
    \/ RollbackOperation(o)

Next ==
    \/ RegistryStep /\ UNCHANGED saver
    \/ \E o \in LeaseOwners : SaverStep(o)
    \/ \E c \in claims, s \in 0..quiet, p \in Principals : CloseDelete(c, p, s)
    \/ Tick

Spec == Init /\ [][Next]_vars

-----------------------------------------------------------------------------
(* Invariants.                                                              *)

TypeOK ==
    /\ row \in SessionRow
    /\ gens \in [Principals -> CheckpointGeneration]
    /\ receipts \subseteq Receipt
    /\ storage \in [Principals -> BOOLEAN]
    /\ issued \subseteq LeaseOwners
    /\ claims \subseteq SessionCloseAuthority
    /\ quiet \in 0..Skew
    /\ saver \in [LeaseOwners -> SaverOperation]

(* Every stored row passes SessionRegistryRecord._validate_state, the check *)
(* each later call makes when it reads the row: a row that failed it could  *)
(* neither be used nor reaped again.  In particular the lease of an open    *)
(* session never outlives the session, whatever renewals did.  That an open *)
(* row has a payload is part of PayloadReadable.                            *)
RowValid ==
    /\ row.lifecycle \in Open \cup {"closing"} =>
         /\ row.owner # NONE
         /\ row.fence >= 1
    /\ row.lifecycle \in Open =>
         /\ row.closeOp = NONE
         /\ row.fence = InitialFence
         /\ row.owner \in issued
         /\ row.lease <= row.life
    /\ row.lifecycle = "closing" =>
         [op |-> row.closeOp, owner |-> row.owner, fence |-> row.fence] \in claims
    /\ row.lifecycle = "closed" => row.owner = NONE /\ row.envelope = NONE

(* The stored payload can always be decrypted: _restore_payload rebuilds    *)
(* the encryption context from the row, so every transaction that moves the *)
(* namespace or the revision must have sealed the payload again.            *)
PayloadReadable ==
    row.lifecycle \in Open \cup {"closing"} =>
        row.envelope = EnvelopeContext(row.ns, row.revision)

(* The inventory and the row never disagree, so no lease operation fails    *)
(* with "checkpoint inventory does not match the current session": one      *)
(* current generation, the row's; earlier ones retired or deleted; at most  *)
(* the next one pending; none beyond.                                       *)
InventoryConsistent ==
    row.lifecycle \in Open =>
        /\ row.ns = row.principal
        /\ \A p \in Principals :
             /\ p < row.principal => gens[p].state \in {"retired", "deleted"}
             /\ p = row.principal => gens[p].state = "current"
             /\ p = row.principal + 1 => gens[p].state \in {"absent", "pending"}
             /\ p > row.principal + 1 => gens[p].state = "absent"

(* An allocated rotation can always be switched to or replayed: while it is *)
(* pending, the marker names it and no publication moved the revision it    *)
(* was allocated at; once completed, its revision is not ahead of the       *)
(* session; and a transition allocates at most one generation.  These are   *)
(* the branches of begin_checkpoint_rotation and                            *)
(* switch_checkpoint_generation that raise SessionRegistryDataError.        *)
RotationConsistent ==
    row.lifecycle \in Open =>
        \A p \in Principals \ {0} :
            /\ gens[p].state = "pending" =>
                 /\ row.lifecycle = "active"
                 /\ row.marker # NONE
                 /\ row.marker = gens[p].transition
                 /\ row.revision = gens[p].source
            /\ gens[p].state # "absent" =>
                 /\ gens[p].transition # NONE
                 /\ gens[p].source <= row.revision
                 /\ \A q \in Principals :
                      gens[q].transition = gens[p].transition => q = p

(* The generations, the row and every allocated rotation agree, so that no  *)
(* call on the session ends in SessionRegistryDataError.                    *)
GenerationsConsistent == InventoryConsistent /\ RotationConsistent

(* The receipts explain the revision: each revision up to the session's was *)
(* committed by exactly one operation, no operation committed twice, and    *)
(* none was committed in a namespace the session had not reached.  Restart  *)
(* recovery relies on it (reconcile_checkpoint_revision).                   *)
ReceiptsExplainRevision ==
    row.lifecycle \in Open \cup {"closing"} =>
        /\ \A n \in 1..row.revision : \E r \in receipts : r.revision = n
        /\ \A r \in receipts : r.revision \in 1..row.revision /\ r.ns <= row.ns
        /\ \A q, r \in receipts : (q.revision = r.revision \/ q.op = r.op) => q = r
        /\ \A q, r \in receipts : q.revision <= r.revision => q.ns <= r.ns

(* A closed session retains nothing but its tombstone: no receipt, no       *)
(* generation and no checkpoint data, not even data whose write was already *)
(* under way when the close began; and the next registration of the same    *)
(* session starts from nothing.  Before that, checkpoint data exists only   *)
(* for registered generations, the ones a close inventories.                *)
ClosedRetainsNothing ==
    /\ \A p \in Principals : storage[p] => gens[p].state # "absent"
    /\ row.lifecycle \in {"closed", "absent"} =>
         /\ receipts = {}
         /\ \A p \in Principals : gens[p] = NoGeneration /\ ~storage[p]

(* What the database holds of a session is coherent after every transaction *)
(* of every party: the five parts above hold together.                      *)
SessionCoherent ==
    /\ RowValid
    /\ PayloadReadable
    /\ GenerationsConsistent
    /\ ReceiptsExplainRevision
    /\ ClosedRetainsNothing

(* Auxiliary: a saver operation under way belongs to a registration that    *)
(* was granted, and if that registration still holds the lease, the         *)
(* generation it saw still exists.                                          *)
SaverAnchored ==
    \A o \in LeaseOwners :
        saver[o].kind # "idle" =>
            /\ o \in issued
            /\ (row.lifecycle \in Open /\ row.owner = o) =>
                 gens[saver[o].gen].state # "absent"

(* The inductive invariant.                                                 *)
IInv ==
    /\ TypeOK
    /\ RowValid
    /\ PayloadReadable
    /\ InventoryConsistent
    /\ RotationConsistent
    /\ ReceiptsExplainRevision
    /\ ClosedRetainsNothing
    /\ SaverAnchored

-----------------------------------------------------------------------------
(* Action properties.  Each is a step predicate, and the property that every *)
(* step satisfies it.                                                       *)

AddsNoDataInClose ==
    row.lifecycle \in {"closing", "closed"} =>
        \A p \in Principals : storage'[p] => storage[p]

(* From the moment a close claim is granted no checkpoint data appears any  *)
(* more, although a saver operation of the former holder may be past its    *)
(* snapshot: the fence and lifecycle it is checked against are the newest.  *)
NoWriteAfterClose == [][AddsNoDataInClose]_vars

LifecycleOrder ==
    {<<"absent", "opening">>, <<"opening", "active">>, <<"opening", "closing">>,
     <<"active", "closing">>, <<"closing", "closed">>, <<"closed", "absent">>}

SameSession == row.lifecycle # "absent" /\ row'.lifecycle # "absent"

SucceedsInOrder ==
    /\ row'.lifecycle # row.lifecycle =>
         <<row.lifecycle, row'.lifecycle>> \in LifecycleOrder
    /\ SameSession =>
         /\ row'.fence >= row.fence
         /\ row'.revision >= row.revision
         /\ row'.principal >= row.principal
         /\ (row'.owner # row.owner /\ row'.owner # NONE) => row'.fence > row.fence
         /\ row.closeOp # NONE => row'.closeOp = row.closeOp

(* No change of hands without a new fence; fence, revision and principal    *)
(* never go back while the session exists; a close keeps the operation it   *)
(* was begun with, whoever takes it over; a closing session is never        *)
(* reopened, and a session is registered again only after its tombstone was *)
(* purged.                                                                  *)
FencedSuccession == [][SucceedsInOrder]_vars

OnlyCloses ==
    \/ row'.lifecycle = "closing"
    \/ /\ row'.lease <= row.lease
       /\ row'.life <= row.life
       /\ [row' EXCEPT !.lease = 0, !.life = 0] = [row EXCEPT !.lease = 0, !.life = 0]

LapsedOnlyCloses ==
    (row.lifecycle \in Open /\ (row.lease <= 0 \/ row.life <= 0)) => OnlyCloses

(* A lapsed lease is never revived and its holder changes the session row   *)
(* no more: whatever the clock reading that admitted a call, an expired     *)
(* lease or session can only be closed.                                     *)
LapsedLeaseIsFinal == [][LapsedOnlyCloses]_vars
=============================================================================
