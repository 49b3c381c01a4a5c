--------------------------- MODULE SessionRegistry ---------------------------
(***************************************************************************)
(* The durable session registry (durability/session_registry.py): the      *)
(* tables that hold ONE (tenant, logical session) and the transactions     *)
(* that change them.                                                       *)
(*                                                                         *)
(* Every registry call is one PostgreSQL transaction that first locks the  *)
(* session row (SELECT ... FOR UPDATE), so it is one atomic action here.   *)
(* What is not atomic is TIME.  The locking read evaluates                 *)
(* clock_timestamp() before it waits for the lock, and it is re-evaluated  *)
(* only if the row was updated during the wait; the transaction may commit *)
(* later still.  A transaction therefore decides with a database_now that  *)
(* lags the commit by s ticks, for some s between 0 and the time since the *)
(* row was last updated (quiet), never more than Skew, the time limit of a *)
(* registry operation.  Calls that re-check their authority in the UPDATE  *)
(* statement itself (activate, renew, publish, switch) use s = 0 there.    *)
(*                                                                         *)
(* Expiries are countdowns: row.lease is lease_expires_at - now and        *)
(* row.life is expires_at - now, in ticks, down to -Skew.                  *)
(*                                                                         *)
(* Callers are arbitrary: whoever was ever granted an authority may        *)
(* present it at any time, so delayed, repeated and abandoned calls of     *)
(* earlier lease holders are all behaviours of this model.  A rejected or  *)
(* replayed call changes no table and is a stuttering step.                *)
(*                                                                         *)
(* Not modelled: deployment, graph contract, config version and transport  *)
(* (equal for every authority issued for one registration), created_at and *)
(* updated_at, and the bytes of the encrypted payload, of which only the   *)
(* principal-retirement marker and the sealing context matter here.        *)
(***************************************************************************)
EXTENDS Integers, FiniteSets, FiniteSetsExt

CONSTANTS
    LeaseOwners,      \* lease_owner_id of a registration: a fresh uuid each
    CloseOwners,      \* lease_owner_id of a close request
    CloseOps,         \* close operation ids
    Operations,       \* operation ids of published state changes
    Transitions,      \* principal-transition ids
    NONE,             \* SQL NULL
    LeaseDuration,    \* ticks granted by a registration or a renewal
    Retention,        \* session_retention_seconds, in ticks
    CloseDuration,    \* ticks granted by a close claim
    Tombstone,        \* closed_tombstone_retention_seconds, in ticks
    Skew,             \* bound on the age of a transaction's clock reading
    MaxFence,         \* bound on fencing_generation (model bound)
    MaxPrincipal,     \* bound on principal_generation (model bound)
    MaxRevision       \* bound on session_revision (model bound)

(* register_and_acquire refuses a lease that is not shorter than the        *)
(* retention; _lease_duration refuses a duration that is not positive.      *)
ASSUME DurationAssumption ==
    /\ LeaseDuration \in Nat \ {0}
    /\ Retention \in Nat
    /\ LeaseDuration < Retention
    /\ CloseDuration \in Nat \ {0}
    /\ Tombstone \in Nat \ {0}
    /\ Skew \in Nat

ASSUME BoundAssumption ==
    /\ MaxFence \in Nat \ {0}
    /\ MaxPrincipal \in Nat
    /\ MaxRevision \in Nat

ASSUME IdentityAssumption ==
    /\ LeaseOwners \cap CloseOwners = {}
    /\ NONE \notin LeaseOwners \cup CloseOwners \cup CloseOps \cup Transitions

VARIABLES
    row,         \* the platform_sessions row
    gens,        \* platform_checkpoint_generations, by principal generation
    receipts,    \* platform_session_operations
    storage,     \* which generations have checkpoint or manifest rows
    issued,      \* lease owners a registration was ever granted to
    claims,      \* close authorities ever granted
    quiet        \* ticks since the session row was last updated, up to Skew

registryVars == <<row, gens, receipts, storage, issued, claims, quiet>>

Principals == 0..MaxPrincipal
Revisions == 0..MaxRevision
Fences == 1..MaxFence
Horizon == LeaseDuration + Retention + CloseDuration + Tombstone
Ticks == (0 - Skew)..Horizon

(* register_and_acquire always installs fencing generation 1; only a close  *)
(* claim raises it, so every lease authority carries this fence.            *)
InitialFence == 1

Open == {"opening", "active"}

(* The additional authenticated data the payload was encrypted under.       *)
EnvelopeContext(ns, revision) == [ns |-> ns, revision |-> revision]
EnvelopeContexts == [ns : Principals, revision : Revisions]

NoRow ==
    [lifecycle |-> "absent", fence |-> 0, owner |-> NONE, lease |-> 0,
     life |-> 0, closeOp |-> NONE, ns |-> 0, principal |-> 0, revision |-> 0,
     marker |-> NONE, envelope |-> NONE]

SessionRow ==
    [lifecycle : {"absent", "opening", "active", "closing", "closed"},
     fence : 0..MaxFence, owner : LeaseOwners \cup CloseOwners \cup {NONE},
     lease : Ticks, life : Ticks, closeOp : CloseOps \cup {NONE},
     ns : Principals, principal : Principals, revision : Revisions,
     marker : Transitions \cup {NONE}, envelope : EnvelopeContexts \cup {NONE}]

(* A namespace is named by its principal generation: the fence in it is     *)
(* always 1 and the ::principal:: suffix is the generation.                 *)
NoGeneration == [state |-> "absent", transition |-> NONE, source |-> 0]

CheckpointGeneration ==
    [state : {"absent", "pending", "current", "retired", "deleted"},
     transition : Transitions \cup {NONE}, source : Revisions]

Receipt == [op : Operations, revision : Revisions, ns : Principals]
SessionCloseAuthority == [op : CloseOps, owner : CloseOwners, fence : Fences]

RegistryInit ==
    /\ row = NoRow
    /\ gens = [p \in Principals |-> NoGeneration]
    /\ receipts = {}
    /\ storage = [p \in Principals |-> FALSE]
    /\ issued = {}
    /\ claims = {}
    /\ quiet = 0

-----------------------------------------------------------------------------
(* Authority checks, against the clock as it was s ticks ago.               *)

LeaseLapsed(s) == row.lease + s <= 0
SessionExpired(s) == row.life + s <= 0

LeaseAuthorized(o, s) ==
    /\ ~SessionExpired(s)
    /\ row.lifecycle \in Open
    /\ ~LeaseLapsed(s)
    /\ row.owner = o
    /\ row.fence = InitialFence

CloseAuthorized(c, s) ==
    /\ row.lifecycle = "closing"
    /\ row.owner = c.owner
    /\ row.closeOp = c.op
    /\ row.fence = c.fence
    /\ ~LeaseLapsed(s)

(* _checkpoint_generations(require_current=True): any other inventory is a  *)
(* SessionRegistryDataError.                                                *)
InventoryMatches ==
    /\ {p \in Principals : gens[p].state = "current"} = {row.principal}
    /\ row.ns = row.principal

RotationPending == \E p \in Principals : gens[p].state = "pending"

(* _rotation_members: the generation transition t allocated; its source is  *)
(* the generation before it.                                                *)
RotationDestination(t, p) == p > 0 /\ gens[p].transition = t

-----------------------------------------------------------------------------
(* Registration and lease.                                                  *)

RegisterAndAcquire(o) ==
    /\ row.lifecycle = "absent"
    /\ o \notin issued
    /\ row' = [NoRow EXCEPT !.lifecycle = "opening", !.fence = InitialFence,
                            !.owner = o, !.lease = LeaseDuration,
                            !.life = Retention,
                            !.envelope = EnvelopeContext(0, 0)]
    /\ gens' = [gens EXCEPT ![0] = [NoGeneration EXCEPT !.state = "current"]]
    /\ issued' = issued \cup {o}
    /\ quiet' = 0
    /\ UNCHANGED <<receipts, storage, claims>>

Activate(o) ==
    /\ LeaseAuthorized(o, 0)
    /\ row.lifecycle = "opening"
    /\ row' = [row EXCEPT !.lifecycle = "active"]
    /\ quiet' = 0
    /\ UNCHANGED <<gens, receipts, storage, issued, claims>>

(* Mutant: the clock of the locking read is trusted, not checked again in   *)
(* the UPDATE.                                                              *)
RenewOnReadClock(o) ==
    /\ \E s \in 0..quiet : LeaseAuthorized(o, s)
    /\ row' = [row EXCEPT
                 !.lease = Max({row.lease, Min({row.life, LeaseDuration})})]
    /\ quiet' = 0
    /\ UNCHANGED <<gens, receipts, storage, issued, claims>>

Renew(o) ==
    /\ LeaseAuthorized(o, 0)
    /\ row' = [row EXCEPT
                 !.lease = Max({row.lease, Min({row.life, LeaseDuration})})]
    /\ quiet' = 0
    /\ UNCHANGED <<gens, receipts, storage, issued, claims>>

-----------------------------------------------------------------------------
(* Session state.  marker is the principal-retirement marker of the         *)
(* published payload.                                                       *)

(* Mutant: an earlier receipt of the same operation is not looked for.      *)
PublishRepeated(o, op, marker) ==
    /\ LeaseAuthorized(o, 0)
    /\ row.lifecycle = "active"
    /\ ~RotationPending
    /\ row.revision < MaxRevision
    /\ row' = [row EXCEPT
                 !.revision = row.revision + 1, !.marker = marker,
                 !.envelope = EnvelopeContext(row.ns, row.revision + 1)]
    /\ receipts' = receipts \cup
         {[op |-> op, revision |-> row.revision + 1, ns |-> row.ns]}
    /\ quiet' = 0
    /\ UNCHANGED <<gens, storage, issued, claims>>

Publish(o, op, marker) ==
    /\ LeaseAuthorized(o, 0)
    /\ row.lifecycle = "active"
    /\ ~RotationPending
    /\ \A r \in receipts : r.op # op
    /\ row.revision < MaxRevision
    /\ row' = [row EXCEPT
                 !.revision = row.revision + 1, !.marker = marker,
                 !.envelope = EnvelopeContext(row.ns, row.revision + 1)]
    /\ receipts' = receipts \cup
         {[op |-> op, revision |-> row.revision + 1, ns |-> row.ns]}
    /\ quiet' = 0
    /\ UNCHANGED <<gens, storage, issued, claims>>

-----------------------------------------------------------------------------
(* Checkpoint-generation rotation for a change of principal.                *)

BeginCheckpointRotation(o, t, s) ==
    /\ LeaseAuthorized(o, s)
    /\ row.lifecycle = "active"
    /\ InventoryMatches
    /\ \A p \in Principals : gens[p].transition # t
    /\ ~RotationPending
    /\ row.marker = t
    /\ row.principal < MaxPrincipal
    /\ gens[row.principal + 1].state = "absent"
    /\ gens' = [gens EXCEPT ![row.principal + 1] =
                  [state |-> "pending", transition |-> t,
                   source |-> row.revision]]
    /\ UNCHANGED <<row, receipts, storage, issued, claims, quiet>>

SwitchCheckpointGeneration(o, t) ==
    /\ LeaseAuthorized(o, 0)
    /\ row.lifecycle = "active"
    /\ InventoryMatches
    /\ row.marker = t
    /\ \E p \in Principals :
         /\ RotationDestination(t, p)
         /\ gens[p].state = "pending"
         /\ gens[p - 1].state = "current"
         /\ row.ns = p - 1
         /\ row.principal = p - 1
         /\ row.revision = gens[p].source
         /\ gens' = [gens EXCEPT ![p - 1].state = "retired",
                                 ![p].state = "current"]
         /\ row' = [row EXCEPT !.ns = p, !.principal = p,
                               !.envelope = EnvelopeContext(p, row.revision)]
    /\ quiet' = 0
    /\ UNCHANGED <<receipts, storage, issued, claims>>

RecordCheckpointDeletion(o, t, s) ==
    /\ LeaseAuthorized(o, s)
    /\ InventoryMatches
    /\ \E p \in Principals :
         /\ RotationDestination(t, p)
         /\ gens[p].state # "pending"
         /\ gens[p - 1].state = "retired"
         /\ gens' = [gens EXCEPT ![p - 1].state = "deleted"]
    /\ UNCHANGED <<row, receipts, storage, issued, claims, quiet>>

-----------------------------------------------------------------------------
(* Closing.                                                                 *)

(* Mutant: the close owner changes without a new fence.                     *)
TakeCloseLeaseSameFence(op, k, s) ==
    /\ row.closeOp \in {NONE, op}
    /\ row' = [row EXCEPT !.lifecycle = "closing", !.owner = k,
                          !.lease = CloseDuration - s, !.closeOp = op]
    /\ claims' = claims \cup {[op |-> op, owner |-> k, fence |-> row.fence]}
    /\ quiet' = 0
    /\ UNCHANGED <<gens, receipts, storage, issued>>

(* The close operation id is kept once set; a claim for another operation   *)
(* is refused.                                                              *)
TakeCloseLease(op, k, s) ==
    /\ row.closeOp \in {NONE, op}
    /\ row.fence < MaxFence
    /\ row' = [row EXCEPT !.lifecycle = "closing", !.fence = row.fence + 1,
                          !.owner = k, !.lease = CloseDuration - s,
                          !.closeOp = op]
    /\ claims' = claims \cup {[op |-> op, owner |-> k, fence |-> row.fence + 1]}
    /\ quiet' = 0
    /\ UNCHANGED <<gens, receipts, storage, issued>>

(* Mutant: an open session is closed without its lease authority.           *)
BeginCloseUnauthorized(o, op, k, s) ==
    /\ \/ row.lifecycle \in Open
       \/ row.lifecycle = "closing" /\ row.closeOp = op /\ LeaseLapsed(s)
    /\ TakeCloseLease(op, k, s)

BeginClose(o, op, k, s) ==
    /\ \/ LeaseAuthorized(o, s)
       \/ row.lifecycle = "closing" /\ row.closeOp = op /\ LeaseLapsed(s)
    /\ TakeCloseLease(op, k, s)

ClaimExpired(op, k, s) ==
    /\ row.lifecycle \in Open \cup {"closing"}
    /\ LeaseLapsed(s) \/ (row.lifecycle # "closing" /\ SessionExpired(s))
    /\ TakeCloseLease(op, k, s)

(* refresh_close does not compare fences: a lapsed claim may be taken again *)
(* by any holder of the same close operation.                               *)
RefreshClose(c, s) ==
    /\ row.lifecycle = "closing"
    /\ row.closeOp = c.op
    /\ \/ LeaseLapsed(s) /\ TakeCloseLease(c.op, c.owner, s)
       \/ /\ ~LeaseLapsed(s)
          /\ row.owner = c.owner
          /\ row' = [row EXCEPT !.lease = Max({row.lease, CloseDuration - s})]
          /\ quiet' = 0
          /\ UNCHANGED <<gens, receipts, storage, issued, claims>>

RecordCloseCheckpointDeletion(c, p, s) ==
    /\ CloseAuthorized(c, s)
    /\ gens[p].state # "absent"
    /\ gens' = [gens EXCEPT ![p].state = "deleted"]
    /\ UNCHANGED <<row, receipts, storage, issued, claims, quiet>>

FinalizeClose(c, s) ==
    /\ CloseAuthorized(c, s)
    /\ \E p \in Principals : gens[p].state # "absent"
    /\ \A p \in Principals : gens[p].state \in {"absent", "deleted"}
    /\ \A p \in Principals : ~storage[p]
    /\ receipts' = {}
    /\ gens' = [p \in Principals |-> NoGeneration]
    /\ row' = [row EXCEPT !.lifecycle = "closed", !.owner = NONE, !.lease = 0,
                          !.marker = NONE, !.envelope = NONE,
                          !.life = Tombstone - s]
    /\ quiet' = 0
    /\ UNCHANGED <<storage, issued, claims>>

PurgeClosedTombstones ==
    /\ row.lifecycle = "closed"
    /\ SessionExpired(0)
    /\ row' = NoRow
    /\ quiet' = 0
    /\ UNCHANGED <<gens, receipts, storage, issued, claims>>

-----------------------------------------------------------------------------
(* The passage of database time.                                            *)
Countdown(n) == Max({n - 1, 0 - Skew})

RegistryTick ==
    /\ row' = [row EXCEPT
         !.lease = IF row.lifecycle \in Open \cup {"closing"}
                     THEN Countdown(row.lease) ELSE row.lease,
         !.life = IF row.lifecycle # "absent"
                    THEN Countdown(row.life) ELSE row.life]
    /\ quiet' = Min({quiet + 1, Skew})
    /\ UNCHANGED <<gens, receipts, storage, issued, claims>>

(* Every transaction of the registry, by whoever holds or held an authority. *)
LeaseStep(o) ==
    \/ RegisterAndAcquire(o)
    \/ Activate(o)
    \/ Renew(o)
    \/ \E op \in Operations, m \in Transitions \cup {NONE} : Publish(o, op, m)
    \/ \E t \in Transitions, s \in 0..quiet : BeginCheckpointRotation(o, t, s)
    \/ \E t \in Transitions : SwitchCheckpointGeneration(o, t)
    \/ \E t \in Transitions, s \in 0..quiet : RecordCheckpointDeletion(o, t, s)

RegistryStep ==
    \/ \E o \in LeaseOwners :
         \/ LeaseStep(o)
         \/ \E op \in CloseOps, k \in CloseOwners, s \in 0..quiet : BeginClose(o, op, k, s)
    \/ \E op \in CloseOps, k \in CloseOwners, s \in 0..quiet : ClaimExpired(op, k, s)
    \/ \E c \in claims, s \in 0..quiet :
         \/ RefreshClose(c, s)
         \/ \E p \in Principals : RecordCloseCheckpointDeletion(c, p, s)
         \/ FinalizeClose(c, s)
    \/ PurgeClosedTombstones
=============================================================================
