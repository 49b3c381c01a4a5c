---------------------------- MODULE CallerContext ----------------------------
(***************************************************************************)
(* The end of a call: CallerContext (session.py) with the execution        *)
(* tracker (agents/recovery.py), the turns of the engine as far as they    *)
(* are admitted, cancelled and taken over (agents/engine.py), and the      *)
(* three parties that end a call (voice/pipeline.py):                      *)
(*                                                                         *)
(*   hook      the close event of the voice session runs aclose_session;   *)
(*   shutdown  the job's shutdown joins the lease supervisor, then runs    *)
(*             aclose_session;                                             *)
(*   loss      the lease supervisor latches the loss of the lease, retires *)
(*             the transport and runs aabandon_session.                    *)
(*                                                                         *)
(* Everything but the nodes of the graph runs on one event loop, so an     *)
(* action is what happens between two awaits, or inside one thread lock.   *)
(* A synchronous node or effect runs in a worker thread: cancelling its    *)
(* turn does not stop it.  A worker that has taken a synchronous node from *)
(* its queue enters the tracker a little later; a turn cancelled in        *)
(* between unwinds, and its node comes after it as a stray.                *)
(*                                                                         *)
(* The counters of the tracker and of the takeover leases are the sizes of *)
(* the sets ActiveTurns, ActiveNodes and Takeovers; only whether they are  *)
(* zero is ever used.                                                      *)
(***************************************************************************)
EXTENDS Naturals

CONSTANTS
    Turns,         \* the turns of the call
    Durable        \* whether the session has a durable closer

ASSUME ModeAssumption == Durable \in BOOLEAN

VARIABLES
    turn,          \* where each turn is
    work,          \* the graph node of each turn
    recovery,      \* the deferred last resort of each turn
    admission,     \* NodeExecutionTracker._turn_admission_open
    terminal,      \* ReasoningEngine._terminal_latched
    closeStarted,  \* CallerContext._close_started
    lost,          \* CallerContext._durable_authority_lost
    closed,        \* CallerContext._closed
    call,          \* where each party that ends the call is
    abandons,      \* which of them run aabandon_session
    waiting,       \* callbacks registered for when everything is idle
    held,          \* callbacks registered for when no takeover is active
    local          \* whether the caller's identity, proofs or cart are held

vars == <<turn, work, recovery, admission, terminal, closeStarted, lost, closed,
          call, abandons, waiting, held, local>>

Parties == {"hook", "shutdown", "loss"}

TurnStates ==
    {"new", "rejected", "admitted", "stream", "quiesce", "takeover", "settle", "done"}

(* A turn is inside turn_span.                                              *)
ActiveTurns == {t \in Turns : turn[t] \notin {"new", "rejected", "done"}}
(* A node is inside its span: run by its turn, outliving it, or a stray.    *)
ActiveNodes == {t \in Turns : work[t] \in {"node", "detached", "stray"}}
(* Turns whose node entered its span after they had unwound, and may have   *)
(* left it since.                                                           *)
Strays == {t \in Turns : work[t] \in {"stray", "strayed"}}
(* Holders of cancellation_takeover_lease.                                  *)
Takeovers == {t \in Turns : turn[t] = "takeover" \/ recovery[t] = "running"}

FullyIdle == ActiveTurns = {} /\ ActiveNodes = {}

(* The turn lock of the engine, and the asyncio close lock of the context.  *)
HoldsTurnLock(t) == turn[t] \in {"stream", "quiesce", "takeover", "settle"}
Locked == {"begin", "quiesce", "waitIdle", "takeovers", "waitTakeovers", "inspect",
           "discard", "finalize", "dispose"}
CloseLockFree == \A c \in Parties : call[c] \notin Locked

Init ==
    /\ turn = [t \in Turns |-> "new"]
    /\ work = [t \in Turns |-> "none"]
    /\ recovery = [t \in Turns |-> "none"]
    /\ admission = TRUE
    /\ terminal = FALSE
    /\ closeStarted = FALSE
    /\ lost = FALSE
    /\ closed = FALSE
    /\ call = [c \in Parties |-> "idle"]
    /\ abandons = {}
    /\ waiting = {}
    /\ held = {}
    /\ local = FALSE

flags == <<admission, terminal, closeStarted, lost, closed>>
calls == <<call, abandons>>

-----------------------------------------------------------------------------
(* The tracker.                                                             *)

(* Mutant: the callbacks are looked at when a turn ends, not when a node    *)
(* does.                                                                    *)
RunCallbacksOnTurnEnd(pending) ==
    LET idle == ActiveTurns' = {} /\ ActiveNodes' = {} /\ turn' # turn
    IN /\ waiting' = IF idle THEN {} ELSE waiting
       /\ recovery' = [t \in Turns |-> IF idle /\ pending[t] = "deferred"
                                         THEN "scheduled" ELSE pending[t]]

(* _fully_idle_callbacks_locked, run whenever a turn or a node ends: the    *)
(* closers waiting are woken, the deferred last resorts scheduled.          *)
RunCallbacks(pending) ==
    LET idle == ActiveTurns' = {} /\ ActiveNodes' = {}
    IN /\ waiting' = IF idle THEN {} ELSE waiting
       /\ recovery' = [t \in Turns |-> IF idle /\ pending[t] = "deferred"
                                         THEN "scheduled" ELSE pending[t]]

(* The end of a lease wakes the closers waiting for the last takeover.      *)
RunTakeoverCallbacks == held' = IF Takeovers' = {} THEN {} ELSE held

-----------------------------------------------------------------------------
(* The turns: stream_turn and _stream_admitted_turn.                        *)

(* turn_span.                                                               *)
StartTurn(t) ==
    /\ turn[t] = "new"
    /\ turn' = [turn EXCEPT ![t] = IF admission THEN "admitted" ELSE "rejected"]
    /\ UNCHANGED <<work, recovery, flags, calls, waiting, held, local>>

(* _aenter_last_resort: the automation is over; a pending principal         *)
(* transition, or all the authority if it cannot be inspected, is           *)
(* invalidated.                                                             *)
EnterLastResort ==
    /\ terminal' = TRUE
    /\ local' \in {local, FALSE}

(* Before the turn lock: the close or the terminal latch is noticed, or the *)
(* checkpoint cannot be read.                                               *)
RefuseTurn(t) ==
    /\ turn[t] = "admitted"
    /\ turn' = [turn EXCEPT ![t] = "done"]
    /\ \/ (~admission \/ terminal) /\ UNCHANGED <<terminal, local>>
       \/ EnterLastResort
    /\ UNCHANGED work
    /\ RunCallbacks(recovery)
    /\ UNCHANGED <<admission, closeStarted, lost, closed, calls, held>>

(* The turn lock is granted; admission and the terminal latch are looked at *)
(* again before the graph runs.                                             *)
RunTurn(t) ==
    /\ turn[t] = "admitted"
    /\ \A u \in Turns : ~HoldsTurnLock(u)
    /\ turn' = [turn EXCEPT ![t] = CASE terminal -> "done"
                                     [] ~terminal /\ admission -> "stream"
                                     [] OTHER -> "settle"]
    /\ UNCHANGED work
    /\ RunCallbacks(recovery)
    /\ UNCHANGED <<flags, calls, held, local>>

(* A worker thread (or the loop, for an asynchronous node) picks a node up; *)
(* the span that tells the tracker of it is entered inside the call.  The   *)
(* node changes what the caller holds.                                      *)
PickUpNode(t) ==
    /\ turn[t] = "stream"
    /\ work[t] = "none"
    /\ work' = [work EXCEPT ![t] = "picked"]
    /\ UNCHANGED <<turn, recovery, flags, calls, waiting, held, local>>

EnterNode(t) ==
    /\ work[t] = "picked"
    /\ work' = [work EXCEPT ![t] = IF turn[t] = "stream" THEN "node" ELSE "stray"]
    /\ UNCHANGED <<turn, recovery, flags, calls, waiting, held, local>>

NodeWrites(t) ==
    /\ t \in ActiveNodes
    /\ local' = TRUE
    /\ UNCHANGED <<turn, work, recovery, flags, calls, waiting, held>>

LeaveNode(t) ==
    /\ t \in ActiveNodes
    /\ UNCHANGED turn
    /\ work' = [work EXCEPT ![t] = IF @ = "stray" THEN "strayed" ELSE "none"]
    /\ RunCallbacks(recovery)
    /\ UNCHANGED <<flags, calls, held, local>>

(* The stream ends, or its consumer closes the generator between two nodes  *)
(* (the graph of a turn runs one at a time): the finally block settles a    *)
(* pending principal transition, shielded from cancellation, unless the     *)
(* graph failed into the last resort.                                       *)
EndStream(t) ==
    /\ turn[t] = "stream"
    /\ work[t] = "none"
    /\ \/ /\ turn' = [turn EXCEPT ![t] = IF terminal THEN "done" ELSE "settle"]
          /\ UNCHANGED <<terminal, local>>
       \/ /\ turn' = [turn EXCEPT ![t] = "done"]
          /\ EnterLastResort
    /\ UNCHANGED work
    /\ RunCallbacks(recovery)
    /\ UNCHANGED <<admission, closeStarted, lost, closed, calls, held>>

(* _afinalize_stream_transition: the rotation may fail into the last        *)
(* resort, which invalidates the caller's authority.                        *)
SettleTurn(t) ==
    /\ turn[t] = "settle"
    /\ turn' = [turn EXCEPT ![t] = "done"]
    /\ \/ UNCHANGED <<terminal, local>>
       \/ EnterLastResort
    /\ UNCHANGED work
    /\ RunCallbacks(recovery)
    /\ UNCHANGED <<admission, closeStarted, lost, closed, calls, held>>

(* The turn's task is cancelled.  While the graph runs, an asynchronous     *)
(* node unwinds with it and a synchronous one goes on in its thread         *)
(* (_retain_until_done); outside the graph the turn just ends.              *)
CancelTurn(t) ==
    /\ \/ /\ turn[t] = "stream"
          /\ turn' = [turn EXCEPT ![t] = "quiesce"]
          /\ \E w \in IF work[t] = "node" THEN {"none", "detached"} ELSE {work[t]} :
               work' = [work EXCEPT ![t] = w]
       \/ /\ turn[t] = "admitted" \/ (turn[t] = "stream" /\ work[t] = "none")
          /\ turn' = [turn EXCEPT ![t] = "done"]
          /\ UNCHANGED work
    /\ RunCallbacks(recovery)
    /\ UNCHANGED <<flags, calls, held, local>>

(* _adefer_last_resort_until_idle, when a node is still running at the end  *)
(* of the time limit or the wait itself fails.                              *)
DeferLastResort(t) ==
    /\ turn[t] = "quiesce"
    /\ turn' = [turn EXCEPT ![t] = "done"]
    /\ terminal' = TRUE
    /\ UNCHANGED work
    /\ RunCallbacks([recovery EXCEPT ![t] = "deferred"])
    /\ UNCHANGED <<admission, closeStarted, lost, closed, calls, held, local>>

(* Mutant: the takeover does not wait for the nodes.                        *)
TakeOverAtOnce(t) ==
    /\ turn[t] = "quiesce"
    /\ ~closeStarted
    /\ turn' = [turn EXCEPT ![t] = "takeover"]
    /\ UNCHANGED <<work, recovery, waiting, flags, calls, held, local>>

(* _take_over_cancelled_stream: once no node is running the takeover lease  *)
(* is taken, unless a close has started.                                    *)
TakeOver(t) ==
    /\ turn[t] = "quiesce"
    /\ ActiveNodes = {}
    /\ \/ /\ ~closeStarted
          /\ turn' = [turn EXCEPT ![t] = "takeover"]
          /\ UNCHANGED <<work, recovery, waiting>>
       \/ /\ closeStarted
          /\ turn' = [turn EXCEPT ![t] = "done"]
          /\ UNCHANGED work
          /\ RunCallbacks(recovery)
    /\ UNCHANGED <<flags, calls, held, local>>

(* The takeover seeds the recovery of the next turn or, failing that, takes *)
(* the last resort; then its lease ends, and its turn.                      *)
FinishTakeover(t) ==
    /\ turn[t] = "takeover"
    /\ turn' = [turn EXCEPT ![t] = "done"]
    /\ \/ UNCHANGED <<terminal, local>>
       \/ EnterLastResort
    /\ UNCHANGED work
    /\ RunCallbacks(recovery)
    /\ RunTakeoverCallbacks
    /\ UNCHANGED <<admission, closeStarted, lost, closed, calls>>

(* The task a deferred last resort schedules, under a takeover lease too.   *)
StartRecovery(t) ==
    /\ recovery[t] = "scheduled"
    /\ recovery' = [recovery EXCEPT ![t] = IF closeStarted THEN "none" ELSE "running"]
    /\ UNCHANGED <<turn, work, flags, calls, waiting, held, local>>

FinishRecovery(t) ==
    /\ recovery[t] = "running"
    /\ recovery' = [recovery EXCEPT ![t] = "none"]
    /\ local' \in {local, FALSE}
    /\ UNCHANGED turn
    /\ RunTakeoverCallbacks
    /\ UNCHANGED <<work, flags, calls, waiting>>

-----------------------------------------------------------------------------
(* The parties that end the call.                                           *)

Goes(c, pc) == call' = [call EXCEPT ![c] = pc]
Engine == <<turn, work, recovery, terminal>>

(* stop_turn_admission, then aclose_session's look at the lost authority.   *)
EnterClose(c) ==
    /\ \/ c = "hook" /\ call[c] = "idle"
       \/ c = "shutdown" /\ call[c] = "joined"
    /\ closeStarted' = TRUE
    /\ admission' = FALSE
    /\ abandons' = IF lost THEN abandons \cup {c} ELSE abandons
    /\ Goes(c, "lock")
    /\ UNCHANGED <<Engine, lost, closed, waiting, held, local>>

(* VoiceLoop.aclose stops the supervisor and waits for its task, which may  *)
(* be reporting a loss.                                                     *)
JoinSupervisor ==
    /\ call["shutdown"] = "idle"
    /\ call["loss"] \in {"idle", "done", "raised"}
    /\ call' = [call EXCEPT !["shutdown"] = "joined",
                            !["loss"] = IF @ = "idle" THEN "done" ELSE @]
    /\ UNCHANGED <<Engine, admission, closeStarted, lost, closed, abandons, waiting,
                   held, local>>

(* retire_voice_transport latches the loss before the transport goes down,  *)
(* and abandons the session after.  Only a durable session has a lease.     *)
LatchLoss ==
    /\ Durable
    /\ call["loss"] = "idle"
    /\ lost' = TRUE
    /\ closeStarted' = TRUE
    /\ admission' = FALSE
    /\ abandons' = abandons \cup {"loss"}
    /\ Goes("loss", "retire")
    /\ UNCHANGED <<Engine, closed, waiting, held, local>>

RetireTransport ==
    /\ call["loss"] = "retire"
    /\ Goes("loss", "lock")
    /\ UNCHANGED <<Engine, admission, closeStarted, lost, closed, abandons, waiting,
                   held, local>>

(* aabandon_session called by aclose_session latches the loss as well,      *)
(* which is latched by then.                                                *)
TakeCloseLock(c) ==
    /\ call[c] = "lock"
    /\ CloseLockFree
    /\ Goes(c, CASE closed -> "done"
                 [] ~closed /\ Durable /\ c \notin abandons -> "begin"
                 [] OTHER -> "quiesce")
    /\ UNCHANGED <<Engine, admission, closeStarted, lost, closed, abandons, waiting,
                   held, local>>

BeginDurableClose(c) ==
    /\ call[c] = "begin"
    /\ Goes(c, "quiesce") \/ Goes(c, "dispose")
    /\ UNCHANGED <<Engine, admission, closeStarted, lost, closed, abandons, waiting,
                   held, local>>

(* _await_close_quiescence: defer_until_fully_idle runs the callback at     *)
(* once when nothing is active, or keeps it.                                *)
AwaitFullyIdle(c) ==
    /\ \/ /\ call[c] = "quiesce"
          /\ Goes(c, IF FullyIdle THEN "takeovers" ELSE "waitIdle")
          /\ waiting' = IF FullyIdle THEN waiting ELSE waiting \cup {c}
       \/ /\ call[c] = "waitIdle"
          /\ c \notin waiting
          /\ Goes(c, "takeovers")
          /\ UNCHANGED waiting
    /\ UNCHANGED <<Engine, admission, closeStarted, lost, closed, abandons, held, local>>

(* Mutant: the closer does not wait for takeovers.                          *)
AwaitNoTakeovers(c) ==
    /\ call[c] = "takeovers"
    /\ Goes(c, IF c \in abandons THEN "discard" ELSE "inspect")
    /\ UNCHANGED <<Engine, admission, closeStarted, lost, closed, abandons, waiting,
                   held, local>>

AwaitTakeoversIdle(c) ==
    /\ \/ /\ call[c] = "takeovers" /\ Takeovers # {}
          /\ Goes(c, "waitTakeovers")
          /\ held' = held \cup {c}
       \/ /\ \/ call[c] = "takeovers" /\ Takeovers = {}
             \/ call[c] = "waitTakeovers" /\ c \notin held
          /\ Goes(c, IF c \in abandons THEN "discard" ELSE "inspect")
          /\ UNCHANGED held
    /\ UNCHANGED <<Engine, admission, closeStarted, lost, closed, abandons, waiting,
                   local>>

(* The time limit of the wait.  A durable close disposes of the local       *)
(* authority all the same; an abandonment or an in-memory close does not.   *)
QuiescenceTimeout(c) ==
    /\ call[c] \in {"waitIdle", "waitTakeovers"}
    /\ Goes(c, IF Durable /\ c \notin abandons THEN "dispose" ELSE "raised")
    /\ UNCHANGED <<Engine, admission, closeStarted, lost, closed, abandons, waiting,
                   held, local>>

InspectInterrupt(c) ==
    /\ call[c] = "inspect"
    /\ Goes(c, "discard")
    /\ UNCHANGED <<Engine, admission, closeStarted, lost, closed, abandons, waiting,
                   held, local>>

(* _adiscard_local_authority; an abandonment is complete with it.           *)
DiscardLocal(c) ==
    /\ \/ call[c] = "discard" /\ Goes(c, IF c \in abandons THEN "done" ELSE "finalize")
       \/ call[c] = "dispose" /\ Goes(c, "raised")
    /\ local' = FALSE
    /\ closed' = (closed \/ (call[c] = "discard" /\ c \in abandons))
    /\ UNCHANGED <<Engine, admission, closeStarted, lost, abandons, waiting, held>>

(* finalize_close, or the deletion of the thread of an in-memory session.   *)
CompleteClose(c) ==
    /\ call[c] = "finalize"
    /\ \/ closed' = TRUE /\ Goes(c, "done")
       \/ UNCHANGED closed /\ Goes(c, "raised")
    /\ UNCHANGED <<Engine, admission, closeStarted, lost, abandons, waiting, held, local>>

-----------------------------------------------------------------------------
TurnStep(t) ==
    \/ RunTurn(t)
    \/ EnterNode(t)
    \/ LeaveNode(t)
    \/ EndStream(t)
    \/ SettleTurn(t)
    \/ DeferLastResort(t)
    \/ TakeOver(t)
    \/ FinishTakeover(t)
    \/ StartRecovery(t)
    \/ FinishRecovery(t)

CloseStep(c) ==
    \/ TakeCloseLock(c)
    \/ BeginDurableClose(c)
    \/ AwaitFullyIdle(c)
    \/ AwaitTakeoversIdle(c)
    \/ InspectInterrupt(c)
    \/ DiscardLocal(c)
    \/ CompleteClose(c)

Next ==
    \/ \E t \in Turns :
         \/ StartTurn(t)
         \/ RefuseTurn(t)
         \/ PickUpNode(t)
         \/ NodeWrites(t)
         \/ CancelTurn(t)
         \/ TurnStep(t)
    \/ \E c \in Parties :
         \/ EnterClose(c)
         \/ CloseStep(c)
         \/ QuiescenceTimeout(c)
    \/ JoinSupervisor
    \/ LatchLoss
    \/ RetireTransport

Spec == Init /\ [][Next]_vars

(* Turns and nodes end (models, tools and effects have time limits, and the *)
(* graph a recursion limit, so that a stream does not go on from node to    *)
(* node for ever), the event loop runs every task that can go on.  Nobody   *)
(* has to end the call, and no wait has to be cut short by its time limit.  *)
CallFairness ==
    /\ \A t \in Turns :
         WF_vars(TurnStep(t)) /\ WF_vars(LeaveNode(t)) /\ SF_vars(EndStream(t))
    /\ \A c \in Parties : WF_vars(CloseStep(c))
    /\ WF_vars(RetireTransport)

-----------------------------------------------------------------------------
(* Types; the turn lock and the close lock have at most one holder each.    *)
TypeOK ==
    /\ turn \in [Turns -> TurnStates]
    /\ work \in [Turns -> {"none", "picked", "node", "detached", "stray", "strayed"}]
    /\ recovery \in [Turns -> {"none", "deferred", "scheduled", "running"}]
    /\ admission \in BOOLEAN /\ terminal \in BOOLEAN /\ closeStarted \in BOOLEAN
    /\ lost \in BOOLEAN /\ closed \in BOOLEAN /\ local \in BOOLEAN
    /\ call \in [Parties -> Locked \cup {"idle", "joined", "retire", "lock", "done", "raised"}]
    /\ abandons \subseteq Parties
    /\ waiting \subseteq Parties
    /\ held \subseteq Parties
    /\ \A t, u \in Turns : HoldsTurnLock(t) /\ HoldsTurnLock(u) => t = u
    /\ \A c, d \in Parties : {call[c], call[d]} \subseteq Locked => c = d

Quiescent == closed \/ \E c \in Parties : call[c] \in {"inspect", "discard", "finalize"}

(* What NodeExecutionTracker's comment promises: from the moment a close    *)
(* has seen quiescence, and for ever after it is complete, nothing acts for *)
(* the caller: no turn, no node or effect in a thread, no takeover and no   *)
(* deferred last resort.  The code does not keep it: a worker between its   *)
(* queue and the tracker is not waited for.                                 *)
QuietOnceQuiescent == Quiescent => FullyIdle /\ Takeovers = {}

(* What the code does keep: once a close has seen quiescence no turn, no    *)
(* takeover, no deferred last resort and no node the tracker was told of in *)
(* its turn acts for the caller, whoever else is closing and however their  *)
(* waits timed out; only a stray does, one that was on its way from the     *)
(* queue to the tracker when its turn was cancelled                         *)
(* (_await_close_quiescence, wrap).                                         *)
QuietButForStrays ==
    Quiescent => ActiveTurns = {} /\ ActiveNodes \subseteq Strays /\ Takeovers = {}

(* A closed context holds nothing of the caller, although a close that      *)
(* timed out disposed of it while a node was still running, unless a stray  *)
(* has put something back.                                                  *)
ClosedHoldsNothing == closed /\ Strays = {} => ~local

(* A close that was let through leaves nothing working and nothing held,    *)
(* strays excepted (_await_close_quiescence, _adiscard_local_authority).    *)
ClosesCleanly == QuietButForStrays /\ ClosedHoldsNothing

(* Recovery acts alone: while a takeover or a deferred last resort runs, no *)
(* node of any turn does, not even one whose turn was cancelled long ago,   *)
(* but for a stray (_take_over_cancelled_stream, wait_until_mutable_idle).  *)
RecoveryRunsAlone == Takeovers # {} => ActiveNodes \subseteq Strays

(* Whoever ends the call is answered: once a close is under way a moment    *)
(* comes when nobody is left in one, so that none waits for ever for a      *)
(* wake-up that was lost, or for another that waits for it.                 *)
Answered == \A c \in Parties : call[c] \in {"idle", "joined", "done", "raised"}

CloseReturns == ~Answered ~> Answered
=============================================================================
