----------------------------- MODULE SessionClose ----------------------------
(***************************************************************************)
(* The close protocol (durability/session_lifecycle.py): the bound closer  *)
(* of a lease holder, driven by CallerContext.aclose_session, and the      *)
(* background reapers, all working through the same coordinator on the     *)
(* session of module DurableSession.                                       *)
(*                                                                         *)
(* Each closer is a sequential program whose steps are the registry and    *)
(* data-plane calls; pc names the call it makes next.  A call can be       *)
(* answered, can take effect and lose its acknowledgement, or can fail     *)
(* without effect.  Time may pass between any two calls of a closer: a     *)
(* closer that is busy at a tick makes at least one call before the next   *)
(* tick, except that it may be delayed longer (a fault) a bounded number   *)
(* of times.                                                               *)
(*                                                                         *)
(* The close owner of a closer is a fresh uuid, named by the closer.  A    *)
(* reaper draws a new owner per attempt, which makes no difference: it     *)
(* never presents an older claim again.  The close operation of a bound    *)
(* closer is a fresh uuid too, named by the closer.  A reaper that lists a *)
(* session with a close operation adopts it; for any other it draws one.   *)
(* That uuid means something only if its claim is granted, which begins    *)
(* the close of one registration: it is named by that registration.        *)
(***************************************************************************)
EXTENDS DurableSession, Functions

CONSTANTS
    LiveCloser,   \* the bound closer of each lease owner that ever closes
    MaxFaults     \* bound on faults: calls that fail or lose their
                  \* acknowledgement, and ticks that overtake a busy closer

(* bind() draws a closer per lease, and no two uuids are equal.             *)
ASSUME CloserAssumption ==
    /\ CloseOps = Range(LiveCloser) \cup LeaseOwners
    /\ DOMAIN LiveCloser \subseteq LeaseOwners
    /\ LiveCloser \in [DOMAIN LiveCloser -> CloseOwners]
    /\ IsInjective(LiveCloser)
    /\ MaxFaults \in Nat

VARIABLES
    closer,       \* the state of each closer
    registrant,   \* the lease owner that registered the present session
    carried,      \* close operations adopted in one registration and begun
                  \* in a later one
    faults,       \* faults so far
    due           \* busy closers that made no call since the last tick

closeVars == <<row, gens, receipts, storage, issued, claims, quiet, saver,
               closer, registrant, carried, faults, due>>

Closers == CloseOwners
LiveClosers == Range(LiveCloser)
Reapers == Closers \ LiveClosers
Holder(x) == CHOOSE o \in DOMAIN LiveCloser : LiveCloser[o] = x

(* Where a closer is at rest: before begin_close or between two sweeps, in  *)
(* the hands of the caller after an exception, or done.                     *)
AtRest == {"idle", "failed", "incomplete", "finalized"}

Calls ==
    {"claim", "check", "inspect", "refresh", "list", "prepare", "delete",
     "confirm", "record", "settle", "finalize", "retry", "purge"}

(* op and fence are the claim last granted (fence 0: no claim yet; op NONE: *)
(* a reaper without a close operation to adopt); todo                       *)
(* the generations still to inspect or delete; retried: finalize_close has  *)
(* used its one retry.  The bound closer itself keeps the claim of its last *)
(* begin_live_close, whose fence is never compared: finalize refreshes it   *)
(* first, and refresh_close does not compare fences.  age is the time since *)
(* its last call, up to Skew: the clock reading of its next call is not     *)
(* older than that.                                                         *)
CloserState ==
    [pc : AtRest \cup Calls, op : CloseOps \cup {NONE}, fence : 0..MaxFence,
     todo : SUBSET Principals, retried : BOOLEAN, age : 0..Skew]

Busy(x) == closer[x].pc \notin AtRest

CloseInit ==
    /\ Init
    /\ closer = [x \in Closers |->
                   [pc |-> "idle", op |-> IF x \in LiveClosers THEN x ELSE NONE,
                    fence |-> 0, todo |-> {}, retried |-> FALSE, age |-> 0]]
    /\ registrant = NONE
    /\ carried = {}
    /\ faults = 0
    /\ due = {}

Generations == {p \in Principals : gens[p].state # "absent"}
Retained == {p \in Generations : gens[p].state # "deleted"}
Readings(x) == {s \in 0..quiet : s <= closer[x].age}
Authority(x) == [op |-> closer[x].op, owner |-> x, fence |-> closer[x].fence]

-----------------------------------------------------------------------------
(* What follows a call.                                                     *)

(* An exception that is not NOT_ELIGIBLE leaves finalize_close with it; the *)
(* reaper records it and goes on to purge.                                  *)
Raised(x) ==
    [closer[x] EXCEPT !.pc = IF x \in Reapers THEN "purge" ELSE "failed"]

(* NOT_ELIGIBLE is a benign race to the reaper; the bound closer begins the *)
(* close again, once.                                                       *)
NotEligible(x) ==
    IF x \in LiveClosers /\ ~closer[x].retried
      THEN [closer[x] EXCEPT !.pc = "retry", !.retried = TRUE]
      ELSE Raised(x)

Goes(x, state) ==
    /\ closer' = [closer EXCEPT ![x] = [state EXCEPT !.age = 0]]
    /\ due' = due \ {x}

(* A call that took effect: it is answered, or its acknowledgement is lost. *)
Answered(x, state) ==
    \/ Goes(x, state) /\ UNCHANGED faults
    \/ faults < MaxFaults /\ Goes(x, Raised(x)) /\ faults' = faults + 1

(* A call that the database refuses changes no table.                       *)
Refused(x, state) ==
    /\ Goes(x, state)
    /\ UNCHANGED <<row, gens, receipts, storage, issued, claims, quiet, saver,
                   registrant, carried, faults>>

Unregistered == UNCHANGED <<registrant, carried, saver>>

(* A call that fails, or its caller that dies, without effect.              *)
CallFails(x) ==
    /\ Busy(x)
    /\ faults < MaxFaults
    /\ Goes(x, Raised(x))
    /\ faults' = faults + 1
    /\ UNCHANGED <<row, gens, receipts, storage, issued, claims, quiet>>
    /\ Unregistered

-----------------------------------------------------------------------------
(* refresh_close, from wherever the coordinator calls it.                   *)

Refresh(x, state) ==
    \E s \in Readings(x) :
        /\ RefreshClose(Authority(x), s)
        /\ Answered(x, [state EXCEPT !.fence = row'.fence])
        /\ Unregistered

(* SESSION_NOT_FOUND is an admission error, not a close error.              *)
RefreshMissing == row.lifecycle = "absent"
RefreshNotEligible == row.lifecycle \notin {"absent", "closing"}
RefreshWrongOwner(x, s) ==
    /\ row.lifecycle = "closing"
    /\ \/ row.closeOp # closer[x].op
       \/ ~LeaseLapsed(s) /\ row.owner # x

RefreshRaises(x) ==
    /\ RefreshMissing \/ \E s \in Readings(x) : RefreshWrongOwner(x, s)
    /\ Refused(x, Raised(x))

(* A call under the claim is refused, and the reason of                     *)
(* _close_authority_rejection.                                              *)
ClaimNotEligible(x, s) ==
    \/ row.lifecycle \notin {"absent", "closing"}
    \/ /\ row.lifecycle = "closing" /\ row.owner = x
       /\ row.closeOp = closer[x].op /\ row.fence = closer[x].fence
       /\ LeaseLapsed(s)

ClaimLost(x) ==
    \/ row.lifecycle = "absent"
    \/ /\ row.lifecycle = "closing"
       /\ \/ row.owner # x
          \/ row.closeOp # closer[x].op
          \/ row.fence # closer[x].fence

-----------------------------------------------------------------------------
(* begin_live_close: a claim still held is returned again (replay), a       *)
(* lapsed one is taken again, an open session needs the lease authority.    *)
BeginLiveClose(x, o, state) ==
    \E s \in Readings(x) :
        LET replay == /\ row.lifecycle = "closing" /\ row.owner = x
                      /\ row.closeOp = x /\ ~LeaseLapsed(s)
        IN \/ /\ replay
              /\ Refused(x, [state EXCEPT !.fence = row.fence, !.todo = Retained])
           \/ /\ ~replay
              /\ BeginClose(o, x, x, s)
              /\ Answered(x, [state EXCEPT !.fence = row'.fence, !.todo = Retained])
              /\ Unregistered

(* Refused: the row is missing, the close belongs to someone else, or the   *)
(* lease authority is rejected.                                             *)
LiveCloseRejected(x, o, s) ==
    /\ ~LeaseAuthorized(o, s)
    /\ ~(row.lifecycle = "closing" /\ row.closeOp = x /\ (LeaseLapsed(s) \/ row.owner = x))

(* The rejections close_completed is asked about.                           *)
MayBeCompleted(s) ==
    /\ row.lifecycle \in Open \cup {"closed"}
    /\ SessionExpired(s) \/ row.lifecycle = "closed"

(* BoundDurableSessionCloser.begin_close; also the first thing a retry of   *)
(* aclose_session does when no claim was acknowledged yet.                  *)
LiveBegin(x) ==
    /\ x \in LiveClosers
    /\ Holder(x) \in issued
    /\ closer[x].pc = "idle"
    /\ \/ BeginLiveClose(x, Holder(x), [closer[x] EXCEPT !.pc = "inspect"])
       \/ \E s \in Readings(x) :
            /\ LiveCloseRejected(x, Holder(x), s)
            /\ Refused(x, [closer[x] EXCEPT
                             !.pc = IF MayBeCompleted(s) THEN "check" ELSE "failed"])

CloseCompleted(x) ==
    /\ closer[x].pc = "check"
    /\ Refused(x, [closer[x] EXCEPT
                     !.pc = IF row.lifecycle = "closed" /\ row.closeOp = x
                              THEN "finalized" ELSE "failed"])

(* checkpoint_has_pending_interrupt refreshes the claim before it reads     *)
(* each generation the claim had not deleted.  An exception it raises is    *)
(* swallowed (a cancellation is not), a pending interrupt ends it early,    *)
(* and it is not repeated once it was answered.                             *)
Inspect(x) ==
    /\ closer[x].pc = "inspect"
    /\ \/ /\ closer[x].todo # {}
          /\ Refresh(x, [closer[x] EXCEPT !.todo = @ \ {Min(@)}])
       \/ Refused(x, [closer[x] EXCEPT !.pc = "refresh"])

(* The caller calls aclose_session again after an exception.                *)
Retry(x) ==
    /\ x \in LiveClosers
    /\ closer[x].pc \in {"failed", "incomplete"}
    /\ Refused(x, [closer[x] EXCEPT !.retried = FALSE,
                     !.pc = IF closer[x].fence = 0 THEN "idle" ELSE "inspect"])

(* finalize_close's second begin_live_close.                                *)
BeginAgain(x) ==
    /\ closer[x].pc = "retry"
    /\ \/ BeginLiveClose(x, Holder(x), [closer[x] EXCEPT !.pc = "refresh"])
       \/ /\ \E s \in Readings(x) : LiveCloseRejected(x, Holder(x), s)
          /\ Refused(x, Raised(x))

-----------------------------------------------------------------------------
(* DurableSessionLifecycleCoordinator.finalize.                             *)

StartFinalize(x) ==
    /\ closer[x].pc = "refresh"
    /\ \/ Refresh(x, [closer[x] EXCEPT !.pc = "list"])
       \/ RefreshNotEligible /\ Refused(x, [closer[x] EXCEPT !.pc = "finalize"])
       \/ RefreshRaises(x)

NextGeneration(todo) == IF todo = {} THEN "settle" ELSE "prepare"

(* Mutant: generations already recorded as deleted are not deleted again.   *)
ListRetainedGenerations(x) ==
    /\ closer[x].pc = "list"
    /\ \E s \in Readings(x) :
         \/ /\ CloseAuthorized(Authority(x), s)
            /\ Refused(x, [closer[x] EXCEPT !.pc = NextGeneration(Retained),
                                            !.todo = Retained])
         \/ /\ ClaimNotEligible(x, s)
            /\ Refused(x, [closer[x] EXCEPT !.pc = "finalize"])
         \/ ClaimLost(x) /\ Refused(x, Raised(x))

ListGenerations(x) ==
    /\ closer[x].pc = "list"
    /\ \E s \in Readings(x) :
         \/ /\ CloseAuthorized(Authority(x), s)
            /\ Refused(x, [closer[x] EXCEPT !.pc = NextGeneration(Generations),
                                            !.todo = Generations])
         \/ /\ ClaimNotEligible(x, s)
            /\ Refused(x, [closer[x] EXCEPT !.pc = "finalize"])
         \/ ClaimLost(x) /\ Refused(x, Raised(x))

(* _delete_generation: refresh, delete, refresh, record.                    *)
RefreshAround(x, at, next) ==
    /\ closer[x].pc = at
    /\ \/ Refresh(x, [closer[x] EXCEPT !.pc = next])
       \/ RefreshNotEligible /\ Refused(x, NotEligible(x))
       \/ RefreshRaises(x)

(* Mutant: the generation is deleted through an unfenced saver.             *)
DeleteGenerationUnfenced(x) ==
    /\ closer[x].pc = "delete"
    /\ storage' = [storage EXCEPT ![Min(closer[x].todo)] = FALSE]
    /\ Goes(x, [closer[x] EXCEPT !.pc = "confirm"])
    /\ UNCHANGED <<row, gens, receipts, issued, claims, quiet, faults>>
    /\ Unregistered

DeleteGeneration(x) ==
    /\ closer[x].pc = "delete"
    /\ \E s \in Readings(x) :
         \/ /\ CloseDelete(Authority(x), Min(closer[x].todo), s)
            /\ Answered(x, [closer[x] EXCEPT !.pc = "confirm"])
            /\ UNCHANGED <<registrant, carried>>
         \/ ~CloseAuthorized(Authority(x), s) /\ Refused(x, Raised(x))

RecordDeletion(x) ==
    /\ closer[x].pc = "record"
    /\ LET p == Min(closer[x].todo)
           left == closer[x].todo \ {p}
       IN \E s \in Readings(x) :
            \/ /\ RecordCloseCheckpointDeletion(Authority(x), p, s)
               /\ Answered(x, [closer[x] EXCEPT !.pc = NextGeneration(left), !.todo = left])
               /\ Unregistered
            \/ ClaimNotEligible(x, s) /\ Refused(x, NotEligible(x))
            \/ ClaimLost(x) /\ Refused(x, Raised(x))

(* _finalize_registry_record; the reaper goes on to purge.                  *)
Done(x) ==
    [closer[x] EXCEPT !.pc = IF x \in Reapers THEN "purge" ELSE "finalized"]

Finalize(x) ==
    /\ closer[x].pc = "finalize"
    /\ \/ \E s \in Readings(x) :
            \/ /\ FinalizeClose(Authority(x), s)
               /\ Answered(x, Done(x))
               /\ Unregistered
            \/ /\ CloseAuthorized(Authority(x), s)
               /\ \/ Generations = {}
                  \/ \E p \in Generations : gens[p].state # "deleted" \/ storage[p]
               /\ Refused(x, [closer[x] EXCEPT !.pc = "incomplete"])
            \/ /\ ClaimNotEligible(x, s) /\ row.lifecycle # "closed"
               /\ Refused(x, NotEligible(x))
       \/ row.lifecycle = "closed" /\ row.closeOp = closer[x].op /\ Refused(x, Done(x))
       \/ row.lifecycle = "closed" /\ row.closeOp # closer[x].op /\ Refused(x, Raised(x))
       \/ ClaimLost(x) /\ Refused(x, Raised(x))

-----------------------------------------------------------------------------
(* reap_expired: list the expired sessions, claim, finalize, purge.         *)

(* Mutant: a session whose close was begun is left to its closer.           *)
ExpiredUnlessClosing(s) ==
    /\ row.lifecycle \in Open
    /\ LeaseLapsed(s) \/ SessionExpired(s)

Expired(s) ==
    /\ row.lifecycle \in Open \cup {"closing"}
    /\ LeaseLapsed(s) \/ (row.lifecycle # "closing" /\ SessionExpired(s))

Sweep(x) ==
    /\ x \in Reapers
    /\ closer[x].pc \in {"idle", "incomplete"}
    /\ \/ /\ Expired(0)
          /\ Refused(x, [closer[x] EXCEPT !.pc = "claim", !.fence = 0, !.todo = {},
                                            !.op = row.closeOp])
       \/ ~Expired(0) /\ Refused(x, [closer[x] EXCEPT !.pc = "purge"])

(* An operation adopted when the session was listed is presented to         *)
(* whatever is registered now: if the listed session was closed, purged and *)
(* registered again in between, its operation begins another close.         *)
ReaperClaim(x) ==
    /\ closer[x].pc = "claim"
    /\ \E s \in Readings(x) :
         \/ /\ row.closeOp \in {NONE, closer[x].op}
            /\ LET op == IF closer[x].op = NONE THEN registrant ELSE closer[x].op
               IN /\ ClaimExpired(op, x, s)
                  /\ Answered(x, [closer[x] EXCEPT !.pc = "refresh", !.op = op,
                                                   !.fence = row'.fence])
                  /\ carried' = IF row.closeOp = NONE /\ closer[x].op # NONE
                                  THEN carried \cup {op} ELSE carried
            /\ UNCHANGED <<registrant, saver>>
         \/ /\ ~Expired(s) \/ row.closeOp \notin {NONE, closer[x].op}
            /\ Refused(x, Raised(x))

ReaperPurge(x) ==
    /\ closer[x].pc = "purge"
    /\ \/ /\ PurgeClosedTombstones
          /\ Answered(x, [closer[x] EXCEPT !.pc = "idle"])
          /\ registrant' = NONE
          /\ UNCHANGED <<carried, saver>>
       \/ /\ ~(row.lifecycle = "closed" /\ SessionExpired(0))
          /\ Refused(x, [closer[x] EXCEPT !.pc = "idle"])

-----------------------------------------------------------------------------
CloserCall(x) ==
    \/ CloseCompleted(x)
    \/ Inspect(x)
    \/ BeginAgain(x)
    \/ StartFinalize(x)
    \/ ListGenerations(x)
    \/ RefreshAround(x, "prepare", "delete")
    \/ DeleteGeneration(x)
    \/ RefreshAround(x, "confirm", "record")
    \/ RecordDeletion(x)
    \/ RefreshAround(x, "settle", "finalize")
    \/ Finalize(x)
    \/ Sweep(x)
    \/ ReaperClaim(x)
    \/ ReaperPurge(x)

HolderStep(o) ==
    /\ \/ LeaseStep(o) /\ UNCHANGED saver
       \/ SaverStep(o)
    /\ registrant' = IF row.lifecycle = "absent" /\ row'.lifecycle # "absent"
                       THEN o ELSE registrant
    /\ UNCHANGED <<closer, carried, faults, due>>

TimePassesClosing ==
    /\ Tick
    /\ \/ due = {} /\ UNCHANGED faults
       \/ due # {} /\ faults < MaxFaults /\ faults' = faults + 1
    /\ due' = {x \in Closers : Busy(x)}
    /\ closer' = [x \in Closers |-> [closer[x] EXCEPT !.age = Min({@ + 1, Skew})]]
    /\ UNCHANGED <<registrant, carried>>

CloseNext ==
    \/ \E o \in LeaseOwners : HolderStep(o)
    \/ \E x \in Closers : CloserCall(x) \/ LiveBegin(x) \/ Retry(x) \/ CallFails(x)
    \/ TimePassesClosing

CloseSpec == CloseInit /\ [][CloseNext]_closeVars

(* Time passes, a closer that is making calls goes on making them (each has *)
(* a time limit), and a reaper keeps sweeping (OperationalSessionReaper     *)
(* serves until it is stopped).  Nothing obliges the lease holder to        *)
(* renew, publish or close.                                                 *)
FairCloseSpec ==
    /\ CloseSpec
    /\ WF_closeVars(TimePassesClosing)
    /\ \A x \in Closers : WF_closeVars(CloserCall(x))

-----------------------------------------------------------------------------
(* A closer never meets CLEANUP_INCOMPLETE: whoever deleted and recorded    *)
(* what before it, whatever the lease holder was writing when the close     *)
(* began and wherever an earlier closer was interrupted, the generations it *)
(* listed are all there are and stay empty until it finalizes.  The one     *)
(* exception is an operation that a delayed reaper carried over to a later  *)
(* registration: a closer of the earlier one can then resume its deletions  *)
(* in a session whose generations it never listed.                          *)
CleanupSuffices ==
    \A x \in Closers : closer[x].pc = "incomplete" => closer[x].op \in carried

(* A bound closer closes no other session than the one its holder           *)
(* registered, though the logical session may have been reaped, purged and  *)
(* registered again while the closer was delayed, as long as no reaper      *)
(* carried the closer's operation over to that later registration.          *)
ClosesOwnSession ==
    \A x \in LiveClosers \ carried :
        (row.lifecycle = "closing" /\ row.owner = x) => registrant = Holder(x)

(* The close protocol uses the registry as module DurableSession describes: *)
(* every call a closer makes is one it was granted the authority for, so    *)
(* everything shown of DurableSession holds of the sessions closed here.    *)
ImplementsDurableSession == Spec

(* Every registered session is eventually closed, emptied and purged: if    *)
(* the holder neither renews nor closes it, or dies in the middle of its    *)
(* close, a reaper takes over.                                              *)
EventuallyGone == (row.lifecycle # "absent") ~> (row.lifecycle = "absent")
=============================================================================
