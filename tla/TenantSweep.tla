----------------------------- MODULE TenantSweep -----------------------------
(***************************************************************************)
(* Which tenants the session reaper sweeps, in which order it takes their  *)
(* rows, and when a tenant leaves its inventory                            *)
(* (durability/tenant_lifecycle.py, scripts/session_reaper.py,             *)
(* OperationalSessionReaper in durability/session_lifecycle.py).           *)
(*                                                                         *)
(* The deployed inventory and the merchant configuration are replaced      *)
(* together: every start of the reaper refuses an inventory whose active   *)
(* tenants are not the configured merchants.  A reaper process reads the   *)
(* inventory once, when it starts: one serves cycle after cycle until it   *)
(* is stopped, another (--once) sweeps once and records drain evidence; the *)
(* two may run at the same time.  A voice job reads the configuration when *)
(* it starts and registers its session later.                              *)
(*                                                                         *)
(* A session row is live, expired (its lease or life is over), claimed (a  *)
(* close is under way or failed) or closed (a tombstone).  queue lists the *)
(* rows that are not closed by lease expiry: a row enters it at its        *)
(* registration and moves to its end when a close claims it with a new     *)
(* lease; renewals of live rows do not matter to the order of expired ones *)
(* beyond that.  The steps of one close are those of SessionClose.         *)
(***************************************************************************)
EXTENDS Naturals, Sequences, FiniteSets, SequencesExt

CONSTANTS
    Tenants,
    Sessions,         \* logical session ids, one voice job each
    TenantOf,         \* [Sessions -> Tenants]
    Order,            \* the tenants in the order they are swept: sorted ids
    Defect,           \* [Sessions -> {"none", "claim", "finalize"}]: what fails
                      \* at every attempt to clean that session up
    Batch,            \* reaper_batch_size
    MaxInventory      \* bound on inventory revisions

ASSUME SweepAssumption ==
    /\ TenantOf \in [Sessions -> Tenants]
    /\ Range(Order) = Tenants
    /\ Defect \in [Sessions -> {"none", "claim", "finalize"}]
    /\ Batch \in Nat \ {0}
    /\ MaxInventory \in Nat \ {0}

VARIABLES
    inventory,   \* the deployed inventory: revision and tenant states
    evidence,    \* drain results: tenant, revision, and who was in flight
    straddlers,  \* jobs in flight at an observation that removed their tenant
    job,         \* each voice job: waiting, admitted, or past registration
    rows,        \* platform_sessions, by logical session
    queue,       \* rows that are not closed, by lease expiry
    reaper       \* each reaper process and its cycle

sweepVars == <<inventory, evidence, straddlers, job, rows, queue, reaper>>

States == {"active", "retiring", "out"}
Processes == {"serve", "once"}
Off == [pc |-> "off", revision |-> 0, tenants |-> <<>>, retiring |-> {}, todo |-> <<>>,
        batch |-> <<>>, failed |-> FALSE]

SweepInit ==
    /\ inventory \in [revision : {1}, states : [Tenants -> {"active", "retiring"}]]
    /\ evidence = {}
    /\ straddlers = {}
    /\ job = [s \in Sessions |-> "waiting"]
    /\ rows = [s \in Sessions |-> "none"]
    /\ queue = <<>>
    /\ reaper = [p \in Processes |-> Off]

Of(t) == {s \in Sessions : TenantOf[s] = t}
(* tenant_durable_row_counts finds nothing of the tenant. *)
NoDurableRows(t) == \A s \in Of(t) : rows[s] = "none"
InFlight(t) == {s \in Of(t) : job[s] = "admitted"}

-----------------------------------------------------------------------------
(* Voice jobs, as far as rows are concerned.                                *)

Admit(s) ==
    /\ job[s] = "waiting"
    /\ inventory.states[TenantOf[s]] = "active"
    /\ job' = [job EXCEPT ![s] = "admitted"]
    /\ UNCHANGED <<inventory, evidence, straddlers, rows, queue, reaper>>

(* The job registers its session, or fails before it does.                  *)
Register(s) ==
    /\ job[s] = "admitted"
    /\ job' = [job EXCEPT ![s] = "past"]
    /\ \/ /\ rows' = [rows EXCEPT ![s] = "live"]
          /\ queue' = Append(queue, s)
       \/ UNCHANGED <<rows, queue>>
    /\ UNCHANGED <<inventory, evidence, straddlers, reaper>>

(* The job closes its own session, or its lease lapses.                     *)
CloseOwn(s) ==
    /\ rows[s] = "live" /\ Defect[s] = "none"
    /\ rows' = [rows EXCEPT ![s] = "closed"]
    /\ queue' = Remove(queue, s)
    /\ UNCHANGED <<inventory, evidence, straddlers, job, reaper>>

Lapse(s) ==
    /\ rows[s] \in {"live", "claimed"}
    /\ rows' = [rows EXCEPT ![s] = "expired"]
    /\ UNCHANGED <<inventory, evidence, straddlers, job, queue, reaper>>

-----------------------------------------------------------------------------
(* The reaper.                                                              *)

(* _run: load and validate the inventory, open the platform, and begin the  *)
(* first cycle over the tenants loaded.  The revision is for the retiring   *)
(* ones, which only --once observes.                                        *)
Start(p) ==
    /\ reaper[p].pc = "off"
    /\ LET listed == SelectSeq(Order, LAMBDA t : inventory.states[t] # "out")
           swept == [Off EXCEPT !.pc = "list", !.tenants = listed, !.todo = listed]
           retiring == {t \in Tenants : inventory.states[t] = "retiring"}
       IN reaper' = [reaper EXCEPT ![p] =
            IF p = "serve" \/ retiring = {} THEN swept
            ELSE [swept EXCEPT !.revision = inventory.revision, !.retiring = retiring]]
    /\ UNCHANGED <<inventory, evidence, straddlers, job, rows, queue>>

(* serve: after the interval the same tenants again, until it is told to    *)
(* stop, which it looks at between cycles.                                  *)
NextCycle ==
    /\ reaper["serve"].pc = "between"
    /\ reaper' = [reaper EXCEPT !["serve"].pc = "list",
                                !["serve"].todo = reaper["serve"].tenants]
    /\ UNCHANGED <<inventory, evidence, straddlers, job, rows, queue>>

Stop ==
    /\ reaper["serve"].pc = "between"
    /\ reaper' = [reaper EXCEPT !["serve"] = Off]
    /\ UNCHANGED <<inventory, evidence, straddlers, job, rows, queue>>

First(seq, n) == SubSeq(seq, 1, IF Len(seq) < n THEN Len(seq) ELSE n)

(* Mutant: the candidates are ordered by session id.                        *)
ExpiredSessionsById(t) ==
    First(SelectSeq(SetToSeq(Sessions), LAMBDA s : TenantOf[s] = t /\ rows[s] = "expired"),
          Batch)

(* expired_sessions: the first rows by expiry, up to the batch size.        *)
ExpiredSessions(t) ==
    First(SelectSeq(queue, LAMBDA s : TenantOf[s] = t /\ rows[s] = "expired"), Batch)

List(p) ==
    /\ reaper[p].pc = "list" /\ reaper[p].todo # <<>>
    /\ reaper' = [reaper EXCEPT ![p].pc = "close",
                                ![p].batch = ExpiredSessions(Head(reaper[p].todo))]
    /\ UNCHANGED <<inventory, evidence, straddlers, job, rows, queue>>

(* claim_expired and finalize for one candidate.  One that is no longer     *)
(* expired is a benign race; any other failure is recorded (only --once     *)
(* acts on it) and the sweep goes on.                                       *)
CloseCandidate(p) ==
    /\ reaper[p].pc = "close" /\ reaper[p].batch # <<>>
    /\ LET s == Head(reaper[p].batch)
           eligible == rows[s] = "expired"
           claimed == eligible /\ Defect[s] # "claim"
           finalized == claimed /\ Defect[s] = "none"
       IN /\ reaper' = [reaper EXCEPT ![p].batch = Tail(@),
               ![p].failed = @ \/ (p = "once" /\ eligible /\ ~finalized)]
          /\ rows' = [rows EXCEPT ![s] = IF finalized THEN "closed"
                                         ELSE IF claimed THEN "claimed" ELSE @]
          /\ queue' = IF finalized THEN Remove(queue, s)
                      ELSE IF claimed THEN Append(Remove(queue, s), s) ELSE queue
    /\ UNCHANGED <<inventory, evidence, straddlers, job>>

(* purge_closed_tombstones, of those whose retention is over, whatever      *)
(* happened before it; then the next tenant.                                *)
Purge(p) ==
    /\ reaper[p].pc = "close" /\ reaper[p].batch = <<>>
    /\ \E gone \in SUBSET {s \in Of(Head(reaper[p].todo)) : rows[s] = "closed"} :
         /\ Cardinality(gone) <= Batch
         /\ rows' = [s \in Sessions |-> IF s \in gone THEN "none" ELSE rows[s]]
    /\ reaper' = [reaper EXCEPT ![p].pc = "list", ![p].todo = Tail(@)]
    /\ UNCHANGED <<inventory, evidence, straddlers, job, queue>>

(* run_once is over: serve waits for the next cycle; --once fails when      *)
(* anything failed, and otherwise observes the retiring tenants.            *)
EndCycle(p) ==
    /\ reaper[p].pc = "list" /\ reaper[p].todo = <<>>
    /\ reaper' = [reaper EXCEPT ![p] =
         CASE p = "serve" -> [@ EXCEPT !.pc = "between"]
           [] p = "once" /\ @.failed -> Off
           [] OTHER -> [@ EXCEPT !.pc = "observe",
                          !.todo = SelectSeq(Order, LAMBDA t : t \in reaper[p].retiring)]]
    /\ UNCHANGED <<inventory, evidence, straddlers, job, rows, queue>>

(* _record_retiring_tenant_drains: a tenant without rows gets its evidence, *)
(* bound to the inventory the reaper loaded; one with rows is a failure     *)
(* that does not stop the others.  Of the results one inventory got for a   *)
(* tenant, the one an operator will present is kept: the new or the old.    *)
Bound(t, revision, e) == e.tenant = t /\ e.revision = revision

Observe(p) ==
    /\ reaper[p].pc = "observe"
    /\ IF reaper[p].todo = <<>>
         THEN reaper' = [reaper EXCEPT ![p] = Off] /\ UNCHANGED evidence
         ELSE LET t == Head(reaper[p].todo) revision == reaper[p].revision IN
              /\ reaper' = [reaper EXCEPT ![p].todo = Tail(@)]
              /\ \/ /\ NoDurableRows(t)
                    /\ evidence' = {e \in evidence : ~Bound(t, revision, e)}
                         \cup {[tenant |-> t, revision |-> revision,
                               inflight |-> InFlight(t)]}
                 \/ /\ \/ ~NoDurableRows(t)
                       \/ \E e \in evidence : Bound(t, revision, e)
                    /\ UNCHANGED evidence
    /\ UNCHANGED <<inventory, straddlers, job, rows, queue>>

-----------------------------------------------------------------------------
(* validate_tenant_lifecycle_transition: the replacement binds its          *)
(* predecessor; an active tenant does not vanish, a retiring one does not   *)
(* return directly, a new one enters as active.                             *)
LegalMove(before, after) ==
    <<before, after>> \notin {<<"active", "out">>, <<"retiring", "active">>, <<"out", "retiring">>}

(* Mutant: the drain result may bind any inventory revision.                *)
DrainedOnce(t, e) == e.tenant = t

Drained(t, e) == e.tenant = t /\ e.revision = inventory.revision

(* A tenant is removed on one drain result that binds the inventory in      *)
(* which it was retiring.                                                   *)
Deploy(states) ==
    /\ inventory.revision < MaxInventory
    /\ \A t \in Tenants : LegalMove(inventory.states[t], states[t])
    /\ LET removed == {t \in Tenants : inventory.states[t] = "retiring" /\ states[t] = "out"}
       IN \E results \in SUBSET evidence :
            /\ Cardinality(results) = Cardinality(removed)
            /\ \A t \in removed : \E e \in results : Drained(t, e)
            /\ straddlers' = straddlers \cup UNION {e.inflight : e \in results}
    /\ inventory' = [revision |-> inventory.revision + 1, states |-> states]
    /\ UNCHANGED <<evidence, job, rows, queue, reaper>>

ReaperStep(p) ==
    Start(p) \/ List(p) \/ CloseCandidate(p) \/ Purge(p) \/ EndCycle(p) \/ Observe(p)

SweepStep ==
    \/ \E s \in Sessions : Admit(s) \/ Register(s) \/ CloseOwn(s) \/ Lapse(s)
    \/ \E p \in Processes : ReaperStep(p)
    \/ NextCycle \/ Stop
    \/ \E states \in [Tenants -> States] : Deploy(states)
-----------------------------------------------------------------------------
(* A row of a tenant the inventory no longer lists, which no reaper started *)
(* from then on will sweep, belongs to a job that was already in flight     *)
(* when the drain was observed; no other row can be left behind, however    *)
(* often a tenant is retired, removed and admitted again, and however old   *)
(* the evidence in the directory is                                         *)
(* (tenant_lifecycle.py, validate_tenant_lifecycle_transition).             *)
OnlyStraddlersAreLeftBehind ==
    \A s \in Sessions :
        rows[s] # "none" /\ inventory.states[TenantOf[s]] = "out" => s \in straddlers

(* Every expired session whose cleanup can succeed is closed in the end,    *)
(* although others fail at every attempt and a sweep takes no more than a   *)
(* batch: a row that was claimed goes behind the ones still waiting.  Two   *)
(* things must not be the case: a batch or more of the tenant's rows cannot *)
(* even be claimed, which then stay first for ever; or the reaper that      *)
(* serves started while the inventory did not list the tenant, and has not  *)
(* been restarted since (expired_sessions, OperationalSessionReaper.serve). *)
Hopeless(t) == {s \in Of(t) : Defect[s] = "claim"}
Unlisted(t) == reaper["serve"].pc # "off" /\ t \notin Range(reaper["serve"].tenants)

SweepReachesEveryRow ==
    \A s \in Sessions :
        (Defect[s] = "none" /\ Cardinality(Hopeless(TenantOf[s])) < Batch
           /\ rows[s] = "expired")
        ~> (\/ rows[s] \in {"closed", "none"}
            \/ inventory.states[TenantOf[s]] = "out"
            \/ Unlisted(TenantOf[s]))
=============================================================================
