------------------------------ MODULE VoiceJob -------------------------------
(***************************************************************************)
(* One voice job (scripts/voice_agent.py): how it acquires the durable     *)
(* platform and a leased session, serves a call under the supervision of   *)
(* the lease, and gives everything back.                                   *)
(*                                                                         *)
(* Entrypoint, lease supervisor, session-close task, shutdown callback and *)
(* startup cleanup are tasks of one event loop: they interleave at each    *)
(* await, and each action below ends at one.  The registry is the one of   *)
(* SessionRegistry, with one session row and one lease owner, Worker.  The *)
(* steps inside a durable close, and the reaper's, are those SessionClose  *)
(* models; here a finalization and a sweep are one step each.  Turns and   *)
(* their quiescence are those of CallerContext; here a close finds the     *)
(* call quiet or times out.                                                *)
(*                                                                         *)
(* The telephone platform is external: it may ask for the shutdown of the  *)
(* job, or report the session closed, at any moment after both exist.      *)
(***************************************************************************)
EXTENDS SessionRegistry

CONSTANTS
    Worker,       \* the lease_owner_id drawn by acquire_fresh_session
    JobClose,     \* operation id and owner of the session's bound closer
    Interval,     \* lease_renewal_interval_seconds, in ticks
    MaxRequest,   \* operation_timeout_seconds of one registry call, in ticks
    MaxFaults     \* bound on failed calls, lost answers and time-outs

(* SessionLeaseSupervisor and the platform configuration refuse an interval *)
(* that is not positive or not shorter than the lease.                      *)
ASSUME IntervalAssumption ==
    /\ Interval \in Nat \ {0}
    /\ Interval < LeaseDuration
    /\ MaxRequest \in Nat \ {0}
    /\ MaxFaults \in Nat

ASSUME WorkerAssumption ==
    /\ Worker \in LeaseOwners
    /\ JobClose \in CloseOps \cap CloseOwners

VARIABLES
    kind,       \* "network": durable; "local": console or development network
    stage,      \* the last startup stage the entrypoint marked
    sup,        \* the lease supervisor and the request it has under way
    ctx,        \* the caller context: authority lost, closed, lock holder
    claim,      \* what the bound closer retains: NONE, "held" or "finalized"
    at,         \* the step each task that tears the call down has reached
    pool,       \* the connection pool and what aclose remembers of it
    outcome,    \* how resources.aclose ended for each task that calls it
    faults

jobVars == <<kind, stage, sup, ctx, claim, at, pool, outcome, faults>>
voiceVars == <<registryVars, jobVars>>

(* Tasks that close the caller context; the last two also release the pool. *)
Tasks == {"retire", "reap", "shutdown", "cleanup"}
Releasers == {"shutdown", "cleanup"}

(* A lock that nobody holds names no task.                                  *)
ASSUME HolderAssumption == NONE \notin Tasks

Stages == {"received", "qualified", "opened", "admitted", "acquired", "built",
           "supervised", "ready", "refused", "failed", "aborted"}
Steps == {"idle", "stop", "enter", "lock", "begin", "quiesce", "finalize",
          "disconnect", "abandon", "discard", "direct", "release", "done"}

(* The shutdown callback is registered and the voice session exists; an     *)
(* aborted job failed after that.                                           *)
Registered == stage \in {"supervised", "ready", "aborted"}

JobTypeOK ==
    /\ kind \in {"network", "local"}
    /\ stage \in Stages
    /\ sup \in [pc : {"off", "renewing", "answered", "sleeping", "done"}, stop : BOOLEAN,
                elapsed : 0..MaxRequest, granted : Ticks, left : 0..Interval]
    /\ ctx \in [lost : BOOLEAN, closed : BOOLEAN, holder : Tasks \cup {NONE}]
    /\ claim \in {NONE, "held", "finalized"}
    /\ at \in [Tasks -> Steps]
    /\ pool \in [state : {"unopened", "open", "drained", "stuck"},
                 closed : BOOLEAN, failure : BOOLEAN]
    /\ outcome \in [Releasers -> {"none", "clean", "raised"}]
    /\ faults \in 0..MaxFaults

JobInit ==
    /\ RegistryInit
    /\ kind \in {"network", "local"}
    /\ stage = "received"
    /\ sup = [pc |-> "off", stop |-> FALSE, elapsed |-> 0, granted |-> 0, left |-> 0]
    /\ ctx = [lost |-> FALSE, closed |-> FALSE, holder |-> NONE]
    /\ claim = NONE
    /\ at = [a \in Tasks |-> "idle"]
    /\ pool = [state |-> "unopened", closed |-> FALSE, failure |-> FALSE]
    /\ outcome = [a \in Releasers |-> "none"]
    /\ faults = 0

Leased == kind = "network"

(* A registry call reaches the database only through an open pool.          *)
Reachable == pool.state = "open"

Fault == faults < MaxFaults /\ faults' = faults + 1
NoFault == UNCHANGED faults

-----------------------------------------------------------------------------
(* Startup: _run_entrypoint.  What fails before the pool is open leaves     *)
(* nothing behind; what fails later goes through                            *)
(* _raise_after_durable_startup_cleanup when the platform is open.          *)

(* Configuration, admission preflight, LLM certification, routing           *)
(* qualification and, for a network job, the latency evidence.              *)
Qualify ==
    /\ stage = "received"
    /\ \/ stage' = "qualified" /\ NoFault
       \/ stage' = "refused" /\ Fault
    /\ UNCHANGED <<registryVars, kind, sup, ctx, claim, at, pool, outcome>>

(* DurablePlatformResources.open: a pool that does not open, or fails the   *)
(* schema and role gates, is closed before the failure is raised.           *)
OpenPlatform ==
    /\ stage = "qualified" /\ Leased
    /\ \/ /\ stage' = "opened" /\ NoFault
          /\ pool' = [pool EXCEPT !.state = "open"]
       \/ /\ stage' = "refused" /\ Fault
          /\ pool' \in {[pool EXCEPT !.state = s] : s \in {"drained", "stuck"}}
    /\ UNCHANGED <<registryVars, kind, sup, ctx, claim, at, outcome>>

(* How a failed entrypoint ends: cleanup closes the loop if there is one,   *)
(* otherwise the acquired session directly, and releases the pool.          *)
StartupFails ==
    /\ stage' = IF Registered THEN "aborted" ELSE "failed"
    /\ at' = [at EXCEPT !["cleanup"] =
                IF ~Leased THEN "idle"
                ELSE IF Registered THEN "stop"
                ELSE IF stage = "acquired" THEN "direct" ELSE "release"]

(* VoiceJobAdmission.complete: connect and wait for the participant, with a *)
(* time limit; the participant must belong to the tenant.                   *)
Admit ==
    /\ IF Leased THEN stage = "opened" ELSE stage = "qualified"
    /\ \/ stage' = "admitted" /\ NoFault /\ UNCHANGED at
       \/ StartupFails /\ Fault
    /\ UNCHANGED <<registryVars, kind, sup, ctx, claim, pool, outcome>>

(* acquire_fresh_session.  A registration whose answer is lost leaves its   *)
(* row behind.  Once acknowledged, a failure to restore or bind closes the  *)
(* session again, through a closer of its own, before it is raised.         *)
CloseInPlace(op) ==
    /\ row' = [row EXCEPT !.lifecycle = "closed", !.owner = NONE, !.lease = 0,
                          !.closeOp = op, !.envelope = NONE, !.life = Tombstone]
    /\ gens' = [p \in Principals |-> NoGeneration]
    /\ UNCHANGED <<receipts, storage, issued, claims, quiet>>

Acquire ==
    /\ stage = "admitted" /\ Leased
    /\ \/ /\ RegisterAndAcquire(Worker)
          /\ \/ stage' = "acquired" /\ NoFault /\ UNCHANGED at
             \/ StartupFails /\ Fault
       \/ StartupFails /\ Fault /\ UNCHANGED registryVars
    /\ UNCHANGED <<kind, sup, ctx, claim, pool, outcome>>

(* The failure to restore or bind; its own close may fail too.              *)
BindFails ==
    /\ stage = "acquired" /\ claim = NONE
    /\ row.lifecycle = "opening"
    /\ Fault
    /\ \/ LeaseAuthorized(Worker, 0) /\ \E op \in CloseOps : CloseInPlace(op)
       \/ UNCHANGED registryVars
    /\ stage' = "failed"
    /\ at' = [at EXCEPT !["cleanup"] = "release"]
    /\ UNCHANGED <<kind, sup, ctx, claim, pool, outcome>>

(* build_voice_loop: the initial checkpoint is seeded and the session       *)
(* activated under the lease.                                               *)
Build ==
    /\ IF Leased THEN stage = "acquired" ELSE stage = "admitted"
    /\ \/ /\ IF Leased THEN Activate(Worker) ELSE UNCHANGED registryVars
          /\ \/ stage' = "built" /\ NoFault /\ UNCHANGED at
             \/ StartupFails /\ Fault
       \/ StartupFails /\ Fault /\ UNCHANGED registryVars
       \/ /\ Leased /\ ~LeaseAuthorized(Worker, 0)
          /\ StartupFails /\ NoFault /\ UNCHANGED registryVars
    /\ UNCHANGED <<kind, sup, ctx, claim, pool, outcome>>

(* register_shutdown, and start_lease_supervision for a durable session.    *)
Supervise ==
    /\ stage = "built"
    /\ stage' = "supervised"
    /\ sup' = IF Leased THEN [sup EXCEPT !.pc = "renewing"] ELSE sup
    /\ UNCHANGED <<registryVars, kind, ctx, claim, at, pool, outcome, faults>>

StartSession ==
    /\ stage = "supervised"
    /\ \/ stage' = "ready" /\ NoFault /\ UNCHANGED at
       \/ StartupFails /\ Fault
    /\ UNCHANGED <<registryVars, kind, sup, ctx, claim, pool, outcome>>

-----------------------------------------------------------------------------
(* SessionLeaseSupervisor._run.  elapsed is loop.time() - started_at,       *)
(* granted is lease_expires_at - updated_at of the returned record.         *)

RenewCommits ==
    /\ sup.pc = "renewing" /\ Reachable
    /\ Renew(Worker)
    /\ sup' = [sup EXCEPT !.pc = "answered", !.granted = row'.lease]
    /\ UNCHANGED <<kind, stage, ctx, claim, at, pool, outcome, faults>>

(* _report_loss: the loss is reported once, and the task runs the callback  *)
(* retire_voice_transport to its end.                                       *)
ReportLoss ==
    /\ at["retire"] = "idle"
    /\ at' = [at EXCEPT !["retire"] = "disconnect"]
    /\ ctx' = [ctx EXCEPT !.lost = TRUE]
    /\ sup' = [sup EXCEPT !.pc = "done", !.elapsed = 0, !.granted = 0, !.left = 0]

(* A renewal that is refused, fails or exceeds its time limit.              *)
RenewFails ==
    /\ \/ sup.pc = "renewing" /\ ~LeaseAuthorized(Worker, 0) /\ NoFault
       \/ sup.pc \in {"renewing", "answered"} /\ Fault
       \/ sup.pc \in {"renewing", "answered"} /\ sup.elapsed = MaxRequest /\ NoFault
    /\ ReportLoss
    /\ UNCHANGED <<registryVars, kind, stage, claim, pool, outcome>>

Remaining == sup.granted - sup.elapsed
RenewalDelay == Min({Interval, Remaining - Interval})

(* Mutant: the time the request took is not deducted.                       *)
RenewAnsweredWhole ==
    /\ sup.pc = "answered"
    /\ LET delay == Min({Interval, sup.granted - Interval}) IN
         \/ /\ delay <= 0
            /\ ReportLoss
         \/ /\ delay > 0
            /\ sup' = [sup EXCEPT !.pc = IF sup.stop THEN "done" ELSE "sleeping",
                                  !.left = IF sup.stop THEN 0 ELSE delay,
                                  !.elapsed = 0, !.granted = 0]
            /\ UNCHANGED <<ctx, at>>
    /\ UNCHANGED <<registryVars, kind, stage, claim, pool, outcome, faults>>

(* The answer arrives: the next renewal is due while a whole interval of    *)
(* the lease is still left, or the lease is given up.                       *)
RenewAnswered ==
    /\ sup.pc = "answered"
    /\ \/ /\ RenewalDelay <= 0
          /\ ReportLoss
       \/ /\ RenewalDelay > 0
          /\ sup' = [sup EXCEPT !.pc = IF sup.stop THEN "done" ELSE "sleeping",
                                !.left = IF sup.stop THEN 0 ELSE RenewalDelay,
                                !.elapsed = 0, !.granted = 0]
          /\ UNCHANGED <<ctx, at>>
    /\ UNCHANGED <<registryVars, kind, stage, claim, pool, outcome, faults>>

Wake ==
    /\ sup.pc = "sleeping"
    /\ \/ sup.stop /\ sup' = [sup EXCEPT !.pc = "done", !.left = 0]
       \/ ~sup.stop /\ sup.left = 0 /\ sup' = [sup EXCEPT !.pc = "renewing"]
    /\ UNCHANGED <<registryVars, kind, stage, ctx, claim, at, pool, outcome, faults>>

-----------------------------------------------------------------------------
(* Teardown.                                                                *)

(* Where a task goes when its close of the context returned or raised.      *)
Onward(a) == IF a \in Releasers THEN "release" ELSE "done"

Moves(a, step) == at' = [at EXCEPT ![a] = step]

(* The "close" event of the voice session; _reap acts on the first only.    *)
ReapFires ==
    /\ Registered
    /\ at["reap"] = "idle"
    /\ Moves("reap", "enter")
    /\ UNCHANGED <<registryVars, kind, stage, sup, ctx, claim, pool, outcome, faults>>

(* The job's shutdown callback, once registered.                            *)
ShutdownFires ==
    /\ Registered
    /\ at["shutdown"] = "idle"
    /\ Moves("shutdown", "stop")
    /\ UNCHANGED <<registryVars, kind, stage, sup, ctx, claim, pool, outcome, faults>>

(* VoiceLoop.aclose: SessionLeaseSupervisor.aclose sets the stop event and  *)
(* waits for the task, the retirement it may be running included.           *)
AskStop(a) ==
    /\ at[a] = "stop" /\ ~sup.stop
    /\ sup' = [sup EXCEPT !.stop = TRUE]
    /\ UNCHANGED <<registryVars, kind, stage, ctx, claim, at, pool, outcome, faults>>

SupervisorEnded == sup.pc \in {"off", "done"} /\ at["retire"] \in {"idle", "done"}

Stopped(a) ==
    /\ at[a] = "stop" /\ sup.stop /\ SupervisorEnded
    /\ Moves(a, "enter")
    /\ UNCHANGED <<registryVars, kind, stage, sup, ctx, claim, pool, outcome, faults>>

(* retire_voice_transport after its latch: the room is left, within a time  *)
(* limit, and the context abandoned whatever happened to the room.          *)
RoomLeft ==
    /\ at["retire"] = "disconnect"
    /\ NoFault \/ Fault
    /\ Moves("retire", "abandon")
    /\ UNCHANGED <<registryVars, kind, stage, sup, ctx, claim, pool, outcome>>

(* CallerContext.aclose_session: a context that lost its authority is       *)
(* abandoned, never closed through the registry.                            *)
Enter(a) ==
    /\ at[a] = "enter"
    /\ Moves(a, IF ctx.lost THEN "abandon" ELSE "lock")
    /\ UNCHANGED <<registryVars, kind, stage, sup, ctx, claim, pool, outcome, faults>>

(* Taking the context's lock; a closed context has nothing left to do.      *)
Lock(a) ==
    /\ at[a] \in {"lock", "abandon"}
    /\ ctx.holder = NONE
    /\ LET lost == ctx.lost \/ at[a] = "abandon" IN
         \/ /\ ctx.closed
            /\ Moves(a, Onward(a))
            /\ ctx' = [ctx EXCEPT !.lost = lost]
         \/ /\ ~ctx.closed
            /\ Moves(a, IF at[a] = "abandon" THEN "discard" ELSE "begin")
            /\ ctx' = [ctx EXCEPT !.holder = a, !.lost = lost]
    /\ UNCHANGED <<registryVars, kind, stage, sup, claim, pool, outcome, faults>>

Unlocked == [ctx EXCEPT !.holder = NONE]
Closed == [ctx EXCEPT !.holder = NONE, !.closed = TRUE]

(* BoundDurableSessionCloser.begin_close: a claim is asked for once; a row  *)
(* already closed by this very operation counts as finalized.               *)
BeginReplay == row.lifecycle = "closing" /\ row.closeOp = JobClose /\ row.owner = JobClose
BeginAccepted == LeaseAuthorized(Worker, 0) \/ (row.lifecycle = "closing" /\ row.closeOp = JobClose)
CompletedByUs == row.lifecycle = "closed" /\ row.closeOp = JobClose

BoundBegin ==
    \/ claim # NONE /\ UNCHANGED <<registryVars, claim>>
    \/ /\ claim = NONE /\ Reachable /\ ~(BeginReplay /\ ~LeaseLapsed(0))
       /\ BeginClose(Worker, JobClose, JobClose, 0)
       /\ claim' = "held"
    \/ /\ claim = NONE /\ Reachable /\ BeginReplay /\ ~LeaseLapsed(0)
       /\ claim' = "held" /\ UNCHANGED registryVars
    \/ /\ claim = NONE /\ Reachable /\ CompletedByUs
       /\ claim' = "finalized" /\ UNCHANGED registryVars

(* begin_close raises: refused, unreachable, or its answer is lost after it *)
(* took effect.                                                             *)
BeginRaises ==
    /\ claim = NONE
    /\ \/ /\ \/ ~Reachable
             \/ ~BeginAccepted /\ ~CompletedByUs
          /\ NoFault /\ UNCHANGED registryVars
       \/ Fault /\ UNCHANGED registryVars
       \/ Fault /\ Reachable /\ BeginClose(Worker, JobClose, JobClose, 0)
    /\ UNCHANGED claim

(* finalize_close: refreshes the claim, deletes, finalizes; a lapsed claim  *)
(* is taken again; a row finalized by this operation is accepted.           *)
BoundFinalize ==
    \/ claim = "finalized" /\ UNCHANGED <<registryVars, claim>>
    \/ /\ claim = "held" /\ Reachable
       /\ row.lifecycle = "closing" /\ row.closeOp = JobClose
       /\ LeaseLapsed(0) \/ row.owner = JobClose
       /\ CloseInPlace(JobClose)
       /\ claim' = "finalized"
    \/ /\ claim = "held" /\ Reachable /\ CompletedByUs
       /\ claim' = "finalized" /\ UNCHANGED registryVars

FinalizeRaises ==
    /\ claim = "held"
    /\ \/ /\ \/ ~Reachable
             \/ row.lifecycle = "absent"
          /\ NoFault
       \/ Fault
    /\ UNCHANGED <<registryVars, claim>>

(* A context without a durable closer begins nothing.                       *)
Begin(a) ==
    /\ at[a] = "begin"
    /\ \/ ~Leased /\ Moves(a, "quiesce") /\ NoFault /\ UNCHANGED <<registryVars, ctx, claim>>
       \/ Leased /\ BoundBegin /\ Moves(a, "quiesce") /\ NoFault /\ UNCHANGED ctx
       \/ Leased /\ BeginRaises /\ Moves(a, Onward(a)) /\ ctx' = Unlocked
    /\ UNCHANGED <<kind, stage, sup, pool, outcome>>

(* _await_close_quiescence, with the time limit of CallerContext.           *)
Quiesce(a) ==
    /\ at[a] = "quiesce"
    /\ \/ Moves(a, "finalize") /\ NoFault /\ UNCHANGED ctx
       \/ Moves(a, Onward(a)) /\ Fault /\ ctx' = Unlocked
    /\ UNCHANGED <<registryVars, kind, stage, sup, claim, pool, outcome>>

(* _acomplete_close: only a finalized durable session marks the context     *)
(* closed.                                                                  *)
Complete(a) ==
    /\ at[a] = "finalize"
    /\ Moves(a, Onward(a))
    /\ \/ ~Leased /\ ctx' = Closed /\ NoFault /\ UNCHANGED <<registryVars, claim>>
       \/ Leased /\ BoundFinalize /\ ctx' = Closed /\ NoFault
       \/ Leased /\ FinalizeRaises /\ ctx' = Unlocked
    /\ UNCHANGED <<kind, stage, sup, pool, outcome>>

(* aabandon_session under the lock: await quiescence, discard, closed.      *)
Abandon(a) ==
    /\ at[a] = "discard"
    /\ Moves(a, Onward(a))
    /\ \/ ctx' = [Closed EXCEPT !.lost = TRUE] /\ NoFault
       \/ ctx' = Unlocked /\ Fault
    /\ UNCHANGED <<registryVars, kind, stage, sup, claim, pool, outcome>>

(* Mutant: a failed close of the acquired session skips the release.        *)
DirectCloseOnly ==
    /\ at["cleanup"] = "direct"
    /\ \/ BoundBegin /\ Moves("cleanup", "release") /\ NoFault
       \/ BeginRaises /\ Moves("cleanup", "done")
    /\ UNCHANGED <<kind, stage, sup, ctx, pool, outcome>>

(* Startup cleanup of an acquired session that has no loop yet: begin and,  *)
(* if that worked, finalize; the pool is released whatever happened.        *)
DirectClose ==
    /\ at["cleanup"] = "direct"
    /\ \/ claim = NONE /\ BoundBegin /\ UNCHANGED at /\ NoFault
       \/ claim # NONE /\ BoundFinalize /\ Moves("cleanup", "release") /\ NoFault
       \/ (BeginRaises \/ FinalizeRaises) /\ Moves("cleanup", "release")
    /\ UNCHANGED <<kind, stage, sup, ctx, pool, outcome>>

(* Mutant: aclose forgets a failed close of the pool.                       *)
ReleaseForgetful(a) ==
    /\ at[a] = "release"
    /\ Moves(a, "done")
    /\ \/ /\ ~Leased \/ pool.closed \/ pool.state = "stuck"
          /\ outcome' = [outcome EXCEPT ![a] = "clean"]
          /\ UNCHANGED pool /\ NoFault
       \/ /\ Leased /\ ~pool.closed
          /\ pool' = [pool EXCEPT !.state = "drained", !.closed = TRUE]
          /\ outcome' = [outcome EXCEPT ![a] = "clean"] /\ NoFault
       \/ /\ Leased /\ ~pool.closed /\ Fault
          /\ pool' = [pool EXCEPT !.state = "stuck"]
          /\ outcome' = [outcome EXCEPT ![a] = "raised"]
    /\ UNCHANGED <<registryVars, kind, stage, sup, ctx, claim>>

(* DurablePlatformResources.aclose, serialized by its own lock.  A close    *)
(* that fails after the pool marked itself closed is remembered: a later    *)
(* call cannot drain what is left and raises again.  One that fails before  *)
(* leaves the pool open, for a later call.  A cancellation that arrives     *)
(* while the pool drains is raised after the drain.                         *)
Release(a) ==
    /\ at[a] = "release"
    /\ Moves(a, "done")
    /\ \/ /\ ~Leased \/ pool.closed
          /\ outcome' = [outcome EXCEPT ![a] = "clean"]
          /\ UNCHANGED pool /\ NoFault
       \/ /\ Leased /\ ~pool.closed /\ pool.failure
          /\ outcome' = [outcome EXCEPT ![a] = "raised"]
          /\ UNCHANGED pool /\ NoFault
       \/ /\ Leased /\ ~pool.closed /\ ~pool.failure
          /\ pool' = [pool EXCEPT !.state = "drained", !.closed = TRUE]
          /\ outcome' = [outcome EXCEPT ![a] = "clean"] /\ NoFault
       \/ /\ Leased /\ ~pool.closed /\ ~pool.failure /\ Fault
          /\ pool' \in {[pool EXCEPT !.state = "drained", !.closed = TRUE],
                       [pool EXCEPT !.state = "stuck", !.failure = TRUE], pool}
          /\ outcome' = [outcome EXCEPT ![a] = "raised"]
    /\ UNCHANGED <<registryVars, kind, stage, sup, ctx, claim>>

-----------------------------------------------------------------------------
(* The reaper, another process: it closes a row whose lease or life is over *)
(* under the operation already recorded, or its own.                        *)
Sweep ==
    /\ row.lifecycle \in Open \cup {"closing"}
    /\ LeaseLapsed(0) \/ (row.lifecycle # "closing" /\ SessionExpired(0))
    /\ \E op \in CloseOps :
         /\ IF row.closeOp = NONE THEN op # JobClose ELSE op = row.closeOp
         /\ CloseInPlace(op)
    /\ UNCHANGED jobVars

Purge == PurgeClosedTombstones /\ UNCHANGED jobVars

(* A registry call ends by its time limit.                                  *)
Tick ==
    /\ sup.pc \in {"renewing", "answered"} => sup.elapsed < MaxRequest
    /\ RegistryTick
    /\ sup' = [sup EXCEPT
         !.elapsed = IF sup.pc \in {"renewing", "answered"} THEN @ + 1 ELSE @,
         !.left = Max({@ - 1, 0})]
    /\ UNCHANGED <<kind, stage, ctx, claim, at, pool, outcome, faults>>

Startup ==
    \/ Qualify \/ OpenPlatform \/ Admit \/ Acquire \/ BindFails \/ Build
    \/ Supervise \/ StartSession

Supervisor == RenewCommits \/ RenewFails \/ RenewAnswered \/ Wake

Teardown(a) ==
    \/ AskStop(a) \/ Stopped(a) \/ Enter(a) \/ Lock(a) \/ Begin(a) \/ Quiesce(a)
    \/ Complete(a) \/ Abandon(a) \/ Release(a)

JobNext ==
    \/ Startup
    \/ Supervisor
    \/ ReapFires \/ ShutdownFires
    \/ RoomLeft \/ DirectClose
    \/ \E a \in Tasks : Teardown(a)
    \/ Sweep \/ Purge
    \/ Tick

-----------------------------------------------------------------------------
(* While the supervisor waits, the row still holds its lease, and when the  *)
(* alarm is due a whole renewal interval of it will be left: the delay is   *)
(* computed from the database's own two timestamps less the whole time the  *)
(* request took, so however late the answer came the next renewal starts    *)
(* inside the lease (session_lease.py, _run).                               *)
SleeperHoldsLease ==
    /\ sup.pc = "sleeping" /\ sup.left > 0
    /\ row.owner = Worker
    => row.lease >= sup.left + Interval

(* Four tasks may tear the same call down at once.  Once the caller context *)
(* reports itself closed, none of them is still inside a close of it: no    *)
(* durable call is made for a context that was already given up             *)
(* (session.py, aclose_session and aabandon_session).                       *)
ClosedContextIsSettled ==
    ctx.closed => \A a \in Tasks : at[a] \notin {"begin", "quiesce", "finalize", "discard"}

(* A release of the job's resources that reports success means the pool     *)
(* drained: neither a second release nor one that found the pool already    *)
(* marked closed may hide a drain that failed (platform_runtime.py,         *)
(* aclose).                                                                 *)
CleanReportIsTrue ==
    Leased /\ (\E a \in Releasers : outcome[a] = "clean") => pool.state = "drained"

(* What a job says of its teardown is so, whoever else tears it down: the   *)
(* two parts above hold together.                                           *)
ReportsAreTrue == ClosedContextIsSettled /\ CleanReportIsTrue

(* Whatever fails during startup, service or shutdown, a job whose startup  *)
(* failed or whose shutdown began gets rid of its pool, or the failure to   *)
(* is raised, though four tasks wait for each other on the way; and the     *)
(* session row it registered is closed in the end, by the job or by the     *)
(* reaper (voice_agent.py, _raise_after_durable_startup_cleanup;            *)
(* pipeline.py, VoiceLoop.aclose).                                          *)
EverythingReleased ==
    /\ (Leased /\ (stage \in {"failed", "aborted"} \/ at["shutdown"] # "idle"))
         ~> (pool.state # "open" \/ \E a \in Releasers : outcome[a] = "raised")
    /\ (row.lifecycle \in Open) ~> (row.lifecycle \in {"closed", "absent"})
=============================================================================
