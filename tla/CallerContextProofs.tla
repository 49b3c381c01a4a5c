------------------------- MODULE CallerContextProofs -------------------------
(***************************************************************************)
(* Proofs about a voice call. The caller context, for every number of      *)
(* turns, with or without a durable closer, and wherever workers are       *)
(* between their queue and the tracker when a turn is cancelled; then the  *)
(* job that runs the call: the lease it holds and what it reports of its   *)
(* end, for every lease, interval and number of faults.                    *)
(***************************************************************************)
EXTENDS VoiceCall, TLAPS

(* TypeOK in three parts.                                                   *)
Shapes ==
    /\ turn \in [Turns -> TurnStates]
    /\ work \in [Turns -> {"none", "picked", "node", "detached", "stray", "strayed"}]
    /\ recovery \in [Turns -> {"none", "deferred", "scheduled", "running"}]
    /\ call \in [Parties -> Locked \cup {"idle", "joined", "retire", "lock", "done", "raised"}]
    /\ abandons \subseteq Parties
    /\ waiting \subseteq Parties
    /\ held \subseteq Parties

Flags ==
    /\ admission \in BOOLEAN /\ terminal \in BOOLEAN /\ closeStarted \in BOOLEAN
    /\ lost \in BOOLEAN /\ closed \in BOOLEAN /\ local \in BOOLEAN

Exclusive ==
    /\ \A t, u \in Turns : HoldsTurnLock(t) /\ HoldsTurnLock(u) => t = u
    /\ \A c, d \in Parties : {call[c], call[d]} \subseteq Locked => c = d

Inactive == {"new", "rejected", "done"}

(* What a close that has begun, or is over, has stopped.                    *)
CloseStopsAdmission ==
    /\ closeStarted => ~admission
    /\ closed => closeStarted
    /\ \A c \in Parties : call[c] \in Locked \cup {"lock", "retire", "raised"} => closeStarted

(* A party has seen every turn and node end; and every takeover too.        *)
SeenIdle(c) ==
    \/ call[c] \in {"takeovers", "waitTakeovers", "inspect", "discard", "finalize"}
    \/ call[c] = "waitIdle" /\ c \notin waiting

SeenQuiet(c) ==
    \/ call[c] \in {"inspect", "discard", "finalize"}
    \/ call[c] = "waitTakeovers" /\ c \notin held

(* The tracker was not told of a node of this turn, or only afterwards.     *)
Unseen == {"none", "picked", "stray", "strayed"}

AllIdle == \A t \in Turns : turn[t] \in Inactive /\ work[t] \in Unseen
NoTakeover == \A t \in Turns : turn[t] # "takeover" /\ recovery[t] # "running"

IdleStays == \A c \in Parties : closed \/ SeenIdle(c) => AllIdle
QuietStays == \A c \in Parties : closed \/ SeenQuiet(c) => NoTakeover
NothingKept == \A c \in Parties : closed \/ call[c] = "finalize" => ~local \/ Strays # {}

(* A node runs in its turn's stream or has been left behind by it.          *)
NodesTracked ==
    \A t \in Turns : work[t] = "node" => turn[t] = "stream"

(* The holder of a takeover keeps every other turn out of the graph with    *)
(* the turn lock, a deferred last resort with the terminal latch.           *)
TakeoversAlone ==
    \A t, u \in Turns :
        /\ turn[t] = "takeover" => work[u] \in Unseen
        /\ recovery[t] # "none" => terminal
        /\ recovery[t] \in {"scheduled", "running"} =>
             turn[u] \notin {"stream", "quiesce", "takeover"} /\ work[u] \in Unseen

IInv ==
    /\ Shapes
    /\ Flags
    /\ Exclusive
    /\ CloseStopsAdmission
    /\ IdleStays
    /\ QuietStays
    /\ NothingKept
    /\ NodesTracked
    /\ TakeoversAlone

(* The steps of a turn, of a party that closes, and of the supervisor.      *)
TurnMove(t) ==
    \/ StartTurn(t)
    \/ RefuseTurn(t)
    \/ RunTurn(t)
    \/ PickUpNode(t)
    \/ EnterNode(t)
    \/ NodeWrites(t)
    \/ LeaveNode(t)
    \/ EndStream(t)
    \/ SettleTurn(t)
    \/ CancelTurn(t)
    \/ DeferLastResort(t)
    \/ TakeOver(t)
    \/ FinishTakeover(t)
    \/ StartRecovery(t)
    \/ FinishRecovery(t)

CloseMove(c) ==
    \/ EnterClose(c)
    \/ TakeCloseLock(c)
    \/ BeginDurableClose(c)
    \/ AwaitFullyIdle(c)
    \/ AwaitTakeoversIdle(c)
    \/ QuiescenceTimeout(c)
    \/ InspectInterrupt(c)
    \/ DiscardLocal(c)
    \/ CompleteClose(c)

LossMove ==
    \/ JoinSupervisor
    \/ LatchLoss
    \/ RetireTransport

(* The functions and sets keep their ranges.                                *)
LEMMA StepShapes == ASSUME IInv, Next PROVE Shapes'
<1>1. ASSUME NEW t \in Turns, StartTurn(t) PROVE Shapes'
  BY <1>1 DEF IInv, Shapes, TurnStates, Locked, Parties, StartTurn, flags, calls
<1>2. ASSUME NEW t \in Turns, RefuseTurn(t) PROVE Shapes'
  BY <1>2
  DEF IInv, Shapes, TurnStates, Locked, Parties, RefuseTurn, RunCallbacks,
      EnterLastResort, flags, calls
<1>3. ASSUME NEW t \in Turns, RunTurn(t) PROVE Shapes'
  BY <1>3
  DEF IInv, Shapes, TurnStates, Locked, Parties, RunTurn, RunCallbacks,
      HoldsTurnLock, flags, calls
<1>4. ASSUME NEW t \in Turns, PickUpNode(t) PROVE Shapes'
  BY <1>4 DEF IInv, Shapes, TurnStates, Locked, Parties, PickUpNode, flags, calls
<1>5. ASSUME NEW t \in Turns, EnterNode(t) PROVE Shapes'
  BY <1>5 DEF IInv, Shapes, TurnStates, Locked, Parties, EnterNode, flags, calls
<1>6. ASSUME NEW t \in Turns, NodeWrites(t) PROVE Shapes'
  BY <1>6 DEF IInv, Shapes, TurnStates, Locked, Parties, NodeWrites, flags, calls
<1>7. ASSUME NEW t \in Turns, LeaveNode(t) PROVE Shapes'
  BY <1>7
  DEF IInv, Shapes, TurnStates, Locked, Parties, LeaveNode, RunCallbacks, flags,
      calls
<1>8. ASSUME NEW t \in Turns, EndStream(t) PROVE Shapes'
  BY <1>8
  DEF IInv, Shapes, TurnStates, Locked, Parties, EndStream, RunCallbacks,
      EnterLastResort, flags, calls
<1>9. ASSUME NEW t \in Turns, SettleTurn(t) PROVE Shapes'
  BY <1>9
  DEF IInv, Shapes, TurnStates, Locked, Parties, SettleTurn, RunCallbacks,
      EnterLastResort, flags, calls
<1>10. ASSUME NEW t \in Turns, CancelTurn(t) PROVE Shapes'
  <2>1. turn' \in [Turns -> TurnStates]
    BY <1>10 DEF IInv, Shapes, TurnStates, CancelTurn
  <2>2. work' \in [Turns -> {"none", "picked", "node", "detached", "stray", "strayed"}]
    <3>1. CASE UNCHANGED work
      BY <3>1 DEF IInv, Shapes
    <3>2. CASE ~UNCHANGED work
      <4>1. PICK w \in (IF work[t] = "node" THEN {"none", "detached"} ELSE {work[t]}) :
              work' = [work EXCEPT ![t] = w]
        BY <1>10, <3>2, Zenon DEF CancelTurn
      <4>2. w \in {"none", "picked", "node", "detached", "stray", "strayed"}
        BY <4>1 DEF IInv, Shapes
      <4> QED BY <4>1, <4>2 DEF IInv, Shapes
    <3> QED BY <3>1, <3>2
  <2>3. /\ recovery' \in [Turns -> {"none", "deferred", "scheduled", "running"}]
        /\ waiting' \subseteq Parties
    BY <1>10 DEF IInv, Shapes, CancelTurn, RunCallbacks
  <2>4. UNCHANGED <<call, abandons, held>>
    BY <1>10 DEF CancelTurn, calls
  <2> QED BY <2>1, <2>2, <2>3, <2>4 DEF IInv, Shapes
<1>11. ASSUME NEW t \in Turns, DeferLastResort(t) PROVE Shapes'
  BY <1>11
  DEF IInv, Shapes, TurnStates, Locked, Parties, DeferLastResort, RunCallbacks,
      flags, calls
<1>12. ASSUME NEW t \in Turns, TakeOver(t) PROVE Shapes'
  <2>1. turn' \in [Turns -> TurnStates] /\ UNCHANGED work
    BY <1>12 DEF IInv, Shapes, TurnStates, TakeOver
  <2>2. UNCHANGED <<recovery, waiting>> \/ RunCallbacks(recovery)
    BY <1>12 DEF TakeOver
  <2>3. /\ recovery' \in [Turns -> {"none", "deferred", "scheduled", "running"}]
        /\ waiting' \subseteq Parties
    BY <2>2 DEF IInv, Shapes, RunCallbacks
  <2>4. UNCHANGED <<call, abandons, held>>
    BY <1>12 DEF TakeOver, calls
  <2> QED BY <2>1, <2>3, <2>4 DEF IInv, Shapes
<1>13. ASSUME NEW t \in Turns, FinishTakeover(t) PROVE Shapes'
  BY <1>13
  DEF IInv, Shapes, TurnStates, Locked, Parties, FinishTakeover, RunCallbacks,
      EnterLastResort, RunTakeoverCallbacks, flags, calls
<1>14. ASSUME NEW t \in Turns, StartRecovery(t) PROVE Shapes'
  BY <1>14 DEF IInv, Shapes, TurnStates, Locked, Parties, StartRecovery, flags, calls
<1>15. ASSUME NEW t \in Turns, FinishRecovery(t) PROVE Shapes'
  BY <1>15
  DEF IInv, Shapes, TurnStates, Locked, Parties, FinishRecovery,
      RunTakeoverCallbacks, flags, calls
<1>16. ASSUME NEW c \in Parties, CloseMove(c) PROVE Shapes'
  BY <1>16
  DEF IInv, Shapes, TurnStates, Locked, Parties, CloseMove, EnterClose, Goes,
      Engine, flags, calls, TakeCloseLock, CloseLockFree, BeginDurableClose,
      AwaitFullyIdle, AwaitTakeoversIdle, QuiescenceTimeout, InspectInterrupt,
      DiscardLocal, CompleteClose
<1>17. ASSUME JoinSupervisor PROVE Shapes'
  BY <1>17
  DEF IInv, Shapes, TurnStates, Locked, Parties, JoinSupervisor, Goes, Engine,
      flags, calls
<1>18. ASSUME LatchLoss PROVE Shapes'
  BY <1>18
  DEF IInv, Shapes, TurnStates, Locked, Parties, LatchLoss, Goes, Engine, flags,
      calls
<1>19. ASSUME RetireTransport PROVE Shapes'
  BY <1>19
  DEF IInv, Shapes, TurnStates, Locked, Parties, RetireTransport, Goes, Engine,
      flags, calls
<1> QED BY <1>1, <1>2, <1>3, <1>4, <1>5, <1>6, <1>7, <1>8, <1>9, <1>10, <1>11,
       <1>12, <1>13, <1>14, <1>15, <1>16, <1>17, <1>18, <1>19 DEF Next, TurnStep,
       CloseStep, TurnMove, CloseMove, LossMove

(* The flags stay Boolean.                                                  *)
LEMMA StepFlags == ASSUME IInv, Next PROVE Flags'
<1>1. ASSUME NEW t \in Turns, TurnMove(t) PROVE Flags'
  BY <1>1
  DEF IInv, Flags, TurnMove, StartTurn, flags, calls, RefuseTurn, RunCallbacks,
      EnterLastResort, RunTurn, HoldsTurnLock, PickUpNode, EnterNode, NodeWrites,
      LeaveNode, EndStream, SettleTurn, CancelTurn, DeferLastResort, TakeOver,
      FinishTakeover, RunTakeoverCallbacks, StartRecovery, FinishRecovery
<1>2. ASSUME NEW c \in Parties, CloseMove(c) PROVE Flags'
  BY <1>2
  DEF IInv, Flags, CloseMove, EnterClose, Goes, Engine, flags, calls,
      TakeCloseLock, CloseLockFree, BeginDurableClose, AwaitFullyIdle,
      AwaitTakeoversIdle, QuiescenceTimeout, InspectInterrupt, DiscardLocal,
      CompleteClose
<1>3. ASSUME LossMove PROVE Flags'
  BY <1>3
  DEF IInv, Flags, LossMove, JoinSupervisor, Goes, Engine, flags, calls,
      LatchLoss, RetireTransport
<1> QED BY <1>1, <1>2, <1>3 DEF Next, TurnStep, CloseStep, TurnMove, CloseMove, LossMove

(* The two locks keep their single holders.                                 *)
LEMMA StepExclusive == ASSUME IInv, Next PROVE Exclusive'
<1>1. ASSUME NEW t \in Turns, StartTurn(t) PROVE Exclusive'
  BY <1>1
  DEF IInv, Shapes, Exclusive, TurnStates, Locked, Parties, HoldsTurnLock,
      StartTurn, flags, calls
<1>2. ASSUME NEW t \in Turns, RefuseTurn(t) PROVE Exclusive'
  BY <1>2
  DEF IInv, Shapes, Exclusive, TurnStates, Locked, Parties, HoldsTurnLock,
      RefuseTurn, RunCallbacks, EnterLastResort, flags, calls
<1>3. ASSUME NEW t \in Turns, RunTurn(t) PROVE Exclusive'
  BY <1>3
  DEF IInv, Shapes, Exclusive, TurnStates, Locked, Parties, HoldsTurnLock,
      RunTurn, RunCallbacks, flags, calls
<1>4. ASSUME NEW t \in Turns, PickUpNode(t) PROVE Exclusive'
  BY <1>4
  DEF IInv, Shapes, Exclusive, TurnStates, Locked, Parties, HoldsTurnLock,
      PickUpNode, flags, calls
<1>5. ASSUME NEW t \in Turns, EnterNode(t) PROVE Exclusive'
  BY <1>5
  DEF IInv, Shapes, Exclusive, TurnStates, Locked, Parties, HoldsTurnLock,
      EnterNode, flags, calls
<1>6. ASSUME NEW t \in Turns, NodeWrites(t) PROVE Exclusive'
  BY <1>6
  DEF IInv, Shapes, Exclusive, TurnStates, Locked, Parties, HoldsTurnLock,
      NodeWrites, flags, calls
<1>7. ASSUME NEW t \in Turns, LeaveNode(t) PROVE Exclusive'
  BY <1>7
  DEF IInv, Shapes, Exclusive, TurnStates, Locked, Parties, HoldsTurnLock,
      LeaveNode, RunCallbacks, flags, calls
<1>8. ASSUME NEW t \in Turns, EndStream(t) PROVE Exclusive'
  <2>1. PICK x \in {"done", "settle"} : turn' = [turn EXCEPT ![t] = x]
    BY <1>8, Zenon DEF EndStream
  <2>2. turn[t] = "stream" /\ UNCHANGED call
    BY <1>8 DEF EndStream, calls
  <2> QED BY <2>1, <2>2 DEF IInv, Shapes, Exclusive, HoldsTurnLock
<1>9. ASSUME NEW t \in Turns, SettleTurn(t) PROVE Exclusive'
  BY <1>9
  DEF IInv, Shapes, Exclusive, TurnStates, Locked, Parties, HoldsTurnLock,
      SettleTurn, RunCallbacks, EnterLastResort, flags, calls
<1>10. ASSUME NEW t \in Turns, CancelTurn(t) PROVE Exclusive'
  BY <1>10
  DEF IInv, Shapes, Exclusive, TurnStates, Locked, Parties, HoldsTurnLock,
      CancelTurn, RunCallbacks, flags, calls
<1>11. ASSUME NEW t \in Turns, DeferLastResort(t) PROVE Exclusive'
  BY <1>11
  DEF IInv, Shapes, Exclusive, TurnStates, Locked, Parties, HoldsTurnLock,
      DeferLastResort, RunCallbacks, flags, calls
<1>12. ASSUME NEW t \in Turns, TakeOver(t) PROVE Exclusive'
  BY <1>12
  DEF IInv, Shapes, Exclusive, TurnStates, Locked, Parties, HoldsTurnLock,
      TakeOver, RunCallbacks, flags, calls
<1>13. ASSUME NEW t \in Turns, FinishTakeover(t) PROVE Exclusive'
  BY <1>13
  DEF IInv, Shapes, Exclusive, TurnStates, Locked, Parties, HoldsTurnLock,
      FinishTakeover, RunCallbacks, EnterLastResort, RunTakeoverCallbacks, flags,
      calls
<1>14. ASSUME NEW t \in Turns, StartRecovery(t) PROVE Exclusive'
  BY <1>14
  DEF IInv, Shapes, Exclusive, TurnStates, Locked, Parties, HoldsTurnLock,
      StartRecovery, flags, calls
<1>15. ASSUME NEW t \in Turns, FinishRecovery(t) PROVE Exclusive'
  BY <1>15
  DEF IInv, Shapes, Exclusive, TurnStates, Locked, Parties, HoldsTurnLock,
      FinishRecovery, RunTakeoverCallbacks, flags, calls
<1>16. ASSUME NEW c \in Parties, CloseMove(c) PROVE Exclusive'
  BY <1>16
  DEF IInv, Shapes, Exclusive, TurnStates, Locked, Parties, HoldsTurnLock,
      CloseMove, EnterClose, Goes, Engine, flags, calls, TakeCloseLock,
      CloseLockFree, BeginDurableClose, AwaitFullyIdle, AwaitTakeoversIdle,
      QuiescenceTimeout, InspectInterrupt, DiscardLocal, CompleteClose
<1>17. ASSUME LossMove PROVE Exclusive'
  BY <1>17
  DEF IInv, Shapes, Exclusive, TurnStates, Locked, Parties, HoldsTurnLock,
      LossMove, JoinSupervisor, Goes, Engine, flags, calls, LatchLoss,
      RetireTransport
<1> QED BY <1>1, <1>2, <1>3, <1>4, <1>5, <1>6, <1>7, <1>8, <1>9, <1>10, <1>11,
       <1>12, <1>13, <1>14, <1>15, <1>16, <1>17 DEF Next, TurnStep, CloseStep,
       TurnMove, CloseMove, LossMove

(* Only the parties start a close, and they stop admission first.           *)
LEMMA StepCloseStopsAdmission == ASSUME IInv, Next PROVE CloseStopsAdmission'
<1>1. ASSUME NEW t \in Turns, StartTurn(t) PROVE CloseStopsAdmission'
  BY <1>1
  DEF IInv, Shapes, CloseStopsAdmission, Locked, Parties, StartTurn, flags, calls
<1>2. ASSUME NEW t \in Turns, RefuseTurn(t) PROVE CloseStopsAdmission'
  BY <1>2
  DEF IInv, Shapes, CloseStopsAdmission, Locked, Parties, RefuseTurn,
      RunCallbacks, EnterLastResort, flags, calls
<1>3. ASSUME NEW t \in Turns, RunTurn(t) PROVE CloseStopsAdmission'
  BY <1>3
  DEF IInv, Shapes, CloseStopsAdmission, Locked, Parties, RunTurn, RunCallbacks,
      HoldsTurnLock, flags, calls
<1>4. ASSUME NEW t \in Turns, PickUpNode(t) PROVE CloseStopsAdmission'
  BY <1>4
  DEF IInv, Shapes, CloseStopsAdmission, Locked, Parties, PickUpNode, flags, calls
<1>5. ASSUME NEW t \in Turns, EnterNode(t) PROVE CloseStopsAdmission'
  BY <1>5
  DEF IInv, Shapes, CloseStopsAdmission, Locked, Parties, EnterNode, flags, calls
<1>6. ASSUME NEW t \in Turns, NodeWrites(t) PROVE CloseStopsAdmission'
  BY <1>6
  DEF IInv, Shapes, CloseStopsAdmission, Locked, Parties, NodeWrites, flags, calls
<1>7. ASSUME NEW t \in Turns, LeaveNode(t) PROVE CloseStopsAdmission'
  BY <1>7
  DEF IInv, Shapes, CloseStopsAdmission, Locked, Parties, LeaveNode, RunCallbacks,
      flags, calls
<1>8. ASSUME NEW t \in Turns, EndStream(t) PROVE CloseStopsAdmission'
  BY <1>8
  DEF IInv, Shapes, CloseStopsAdmission, Locked, Parties, EndStream, RunCallbacks,
      EnterLastResort, flags, calls
<1>9. ASSUME NEW t \in Turns, SettleTurn(t) PROVE CloseStopsAdmission'
  BY <1>9
  DEF IInv, Shapes, CloseStopsAdmission, Locked, Parties, SettleTurn,
      RunCallbacks, EnterLastResort, flags, calls
<1>10. ASSUME NEW t \in Turns, CancelTurn(t) PROVE CloseStopsAdmission'
  BY <1>10
  DEF IInv, Shapes, CloseStopsAdmission, Locked, Parties, CancelTurn,
      RunCallbacks, flags, calls
<1>11. ASSUME NEW t \in Turns, DeferLastResort(t) PROVE CloseStopsAdmission'
  BY <1>11
  DEF IInv, Shapes, CloseStopsAdmission, Locked, Parties, DeferLastResort,
      RunCallbacks, flags, calls
<1>12. ASSUME NEW t \in Turns, TakeOver(t) PROVE CloseStopsAdmission'
  BY <1>12
  DEF IInv, Shapes, CloseStopsAdmission, Locked, Parties, TakeOver, RunCallbacks,
      flags, calls
<1>13. ASSUME NEW t \in Turns, FinishTakeover(t) PROVE CloseStopsAdmission'
  BY <1>13
  DEF IInv, Shapes, CloseStopsAdmission, Locked, Parties, FinishTakeover,
      RunCallbacks, EnterLastResort, RunTakeoverCallbacks, flags, calls
<1>14. ASSUME NEW t \in Turns, StartRecovery(t) PROVE CloseStopsAdmission'
  BY <1>14
  DEF IInv, Shapes, CloseStopsAdmission, Locked, Parties, StartRecovery, flags,
      calls
<1>15. ASSUME NEW t \in Turns, FinishRecovery(t) PROVE CloseStopsAdmission'
  BY <1>15
  DEF IInv, Shapes, CloseStopsAdmission, Locked, Parties, FinishRecovery,
      RunTakeoverCallbacks, flags, calls
<1>16. ASSUME NEW c \in Parties, CloseMove(c) PROVE CloseStopsAdmission'
  BY <1>16
  DEF IInv, Shapes, CloseStopsAdmission, Locked, Parties, CloseMove, EnterClose,
      Goes, Engine, flags, calls, TakeCloseLock, CloseLockFree, BeginDurableClose,
      AwaitFullyIdle, AwaitTakeoversIdle, QuiescenceTimeout, InspectInterrupt,
      DiscardLocal, CompleteClose
<1>17. ASSUME LossMove PROVE CloseStopsAdmission'
  BY <1>17
  DEF IInv, Shapes, CloseStopsAdmission, Locked, Parties, LossMove,
      JoinSupervisor, Goes, Engine, flags, calls, LatchLoss, RetireTransport
<1> QED BY <1>1, <1>2, <1>3, <1>4, <1>5, <1>6, <1>7, <1>8, <1>9, <1>10, <1>11,
       <1>12, <1>13, <1>14, <1>15, <1>16, <1>17 DEF Next, TurnStep, CloseStep,
       TurnMove, CloseMove, LossMove

(* Without admission nothing becomes active; a wake-up says the truth.      *)
LEMMA StepIdleStays == ASSUME IInv, Next PROVE IdleStays'
<1>1. ASSUME NEW t \in Turns, StartTurn(t) PROVE IdleStays'
  BY <1>1
  DEF IInv, Shapes, Parties, CloseStopsAdmission, Locked, IdleStays, SeenIdle,
      AllIdle, Unseen, Inactive, NodesTracked, ActiveTurns, ActiveNodes, FullyIdle,
      StartTurn, flags, calls
<1>2. ASSUME NEW t \in Turns, RefuseTurn(t) PROVE IdleStays'
  BY <1>2
  DEF IInv, Shapes, Parties, CloseStopsAdmission, Locked, IdleStays, SeenIdle,
      AllIdle, Unseen, Inactive, NodesTracked, ActiveTurns, ActiveNodes, FullyIdle,
      RefuseTurn, RunCallbacks, EnterLastResort, flags, calls
<1>3. ASSUME NEW t \in Turns, RunTurn(t) PROVE IdleStays'
  BY <1>3
  DEF IInv, Shapes, Parties, CloseStopsAdmission, Locked, IdleStays, SeenIdle,
      AllIdle, Unseen, Inactive, NodesTracked, ActiveTurns, ActiveNodes, FullyIdle,
      RunTurn, RunCallbacks, HoldsTurnLock, flags, calls
<1>4. ASSUME NEW t \in Turns, PickUpNode(t) PROVE IdleStays'
  BY <1>4
  DEF IInv, Shapes, Parties, CloseStopsAdmission, Locked, IdleStays, SeenIdle,
      AllIdle, Unseen, Inactive, NodesTracked, ActiveTurns, ActiveNodes, FullyIdle,
      PickUpNode, flags, calls
<1>5. ASSUME NEW t \in Turns, EnterNode(t) PROVE IdleStays'
  BY <1>5
  DEF IInv, Shapes, Parties, CloseStopsAdmission, Locked, IdleStays, SeenIdle,
      AllIdle, Unseen, Inactive, NodesTracked, ActiveTurns, ActiveNodes, FullyIdle,
      EnterNode, flags, calls
<1>6. ASSUME NEW t \in Turns, NodeWrites(t) PROVE IdleStays'
  BY <1>6
  DEF IInv, Shapes, Parties, CloseStopsAdmission, Locked, IdleStays, SeenIdle,
      AllIdle, Unseen, Inactive, NodesTracked, ActiveTurns, ActiveNodes, FullyIdle,
      NodeWrites, flags, calls
<1>7. ASSUME NEW t \in Turns, LeaveNode(t) PROVE IdleStays'
  BY <1>7
  DEF IInv, Shapes, Parties, CloseStopsAdmission, Locked, IdleStays, SeenIdle,
      AllIdle, Unseen, Inactive, NodesTracked, ActiveTurns, ActiveNodes, FullyIdle,
      LeaveNode, RunCallbacks, flags, calls
<1>8. ASSUME NEW t \in Turns, EndStream(t) PROVE IdleStays'
  BY <1>8
  DEF IInv, Shapes, Parties, CloseStopsAdmission, Locked, IdleStays, SeenIdle,
      AllIdle, Unseen, Inactive, NodesTracked, ActiveTurns, ActiveNodes, FullyIdle,
      EndStream, RunCallbacks, EnterLastResort, flags, calls
<1>9. ASSUME NEW t \in Turns, SettleTurn(t) PROVE IdleStays'
  BY <1>9
  DEF IInv, Shapes, Parties, CloseStopsAdmission, Locked, IdleStays, SeenIdle,
      AllIdle, Unseen, Inactive, NodesTracked, ActiveTurns, ActiveNodes, FullyIdle,
      SettleTurn, RunCallbacks, EnterLastResort, flags, calls
<1>10. ASSUME NEW t \in Turns, CancelTurn(t) PROVE IdleStays'
  BY <1>10
  DEF IInv, Shapes, Parties, CloseStopsAdmission, Locked, IdleStays, SeenIdle,
      AllIdle, Unseen, Inactive, NodesTracked, ActiveTurns, ActiveNodes, FullyIdle,
      CancelTurn, RunCallbacks, flags, calls
<1>11. ASSUME NEW t \in Turns, DeferLastResort(t) PROVE IdleStays'
  BY <1>11
  DEF IInv, Shapes, Parties, CloseStopsAdmission, Locked, IdleStays, SeenIdle,
      AllIdle, Unseen, Inactive, NodesTracked, ActiveTurns, ActiveNodes, FullyIdle,
      DeferLastResort, RunCallbacks, flags, calls
<1>12. ASSUME NEW t \in Turns, TakeOver(t) PROVE IdleStays'
  BY <1>12
  DEF IInv, Shapes, Parties, CloseStopsAdmission, Locked, IdleStays, SeenIdle,
      AllIdle, Unseen, Inactive, NodesTracked, ActiveTurns, ActiveNodes, FullyIdle,
      TakeOver, RunCallbacks, flags, calls
<1>13. ASSUME NEW t \in Turns, FinishTakeover(t) PROVE IdleStays'
  BY <1>13
  DEF IInv, Shapes, Parties, CloseStopsAdmission, Locked, IdleStays, SeenIdle,
      AllIdle, Unseen, Inactive, NodesTracked, ActiveTurns, ActiveNodes, FullyIdle,
      FinishTakeover, RunCallbacks, EnterLastResort, RunTakeoverCallbacks, flags,
      calls
<1>14. ASSUME NEW t \in Turns, StartRecovery(t) PROVE IdleStays'
  BY <1>14
  DEF IInv, Shapes, Parties, CloseStopsAdmission, Locked, IdleStays, SeenIdle,
      AllIdle, Unseen, Inactive, NodesTracked, ActiveTurns, ActiveNodes, FullyIdle,
      StartRecovery, flags, calls
<1>15. ASSUME NEW t \in Turns, FinishRecovery(t) PROVE IdleStays'
  BY <1>15
  DEF IInv, Shapes, Parties, CloseStopsAdmission, Locked, IdleStays, SeenIdle,
      AllIdle, Unseen, Inactive, NodesTracked, ActiveTurns, ActiveNodes, FullyIdle,
      FinishRecovery, RunTakeoverCallbacks, flags, calls
<1>16. ASSUME NEW c \in Parties, EnterClose(c) PROVE IdleStays'
  BY <1>16
  DEF IInv, Shapes, Parties, CloseStopsAdmission, Locked, IdleStays, SeenIdle,
      AllIdle, Unseen, Inactive, NodesTracked, ActiveTurns, ActiveNodes, FullyIdle,
      EnterClose, Goes, Engine, flags, calls
<1>17. ASSUME NEW c \in Parties, TakeCloseLock(c) PROVE IdleStays'
  BY <1>17
  DEF IInv, Shapes, Parties, CloseStopsAdmission, Locked, IdleStays, SeenIdle,
      AllIdle, Unseen, Inactive, NodesTracked, ActiveTurns, ActiveNodes, FullyIdle,
      TakeCloseLock, Goes, Engine, CloseLockFree, flags, calls
<1>18. ASSUME NEW c \in Parties, BeginDurableClose(c) PROVE IdleStays'
  BY <1>18
  DEF IInv, Shapes, Parties, CloseStopsAdmission, Locked, IdleStays, SeenIdle,
      AllIdle, Unseen, Inactive, NodesTracked, ActiveTurns, ActiveNodes, FullyIdle,
      BeginDurableClose, Goes, Engine, flags, calls
<1>19. ASSUME NEW c \in Parties, AwaitFullyIdle(c) PROVE IdleStays'
  BY <1>19
  DEF IInv, Shapes, Parties, CloseStopsAdmission, Locked, IdleStays, SeenIdle,
      AllIdle, Unseen, Inactive, NodesTracked, ActiveTurns, ActiveNodes, FullyIdle,
      AwaitFullyIdle, Goes, Engine, flags, calls
<1>20. ASSUME NEW c \in Parties, AwaitTakeoversIdle(c) PROVE IdleStays'
  BY <1>20
  DEF IInv, Shapes, Parties, CloseStopsAdmission, Locked, IdleStays, SeenIdle,
      AllIdle, Unseen, Inactive, NodesTracked, ActiveTurns, ActiveNodes, FullyIdle,
      AwaitTakeoversIdle, Goes, Engine, flags, calls
<1>21. ASSUME NEW c \in Parties, QuiescenceTimeout(c) PROVE IdleStays'
  BY <1>21
  DEF IInv, Shapes, Parties, CloseStopsAdmission, Locked, IdleStays, SeenIdle,
      AllIdle, Unseen, Inactive, NodesTracked, ActiveTurns, ActiveNodes, FullyIdle,
      QuiescenceTimeout, Goes, Engine, flags, calls
<1>22. ASSUME NEW c \in Parties, InspectInterrupt(c) PROVE IdleStays'
  BY <1>22
  DEF IInv, Shapes, Parties, CloseStopsAdmission, Locked, IdleStays, SeenIdle,
      AllIdle, Unseen, Inactive, NodesTracked, ActiveTurns, ActiveNodes, FullyIdle,
      InspectInterrupt, Goes, Engine, flags, calls
<1>23. ASSUME NEW c \in Parties, DiscardLocal(c) PROVE IdleStays'
  <2>1. UNCHANGED <<turn, work, recovery, waiting, held>>
    BY <1>23 DEF DiscardLocal, Engine
  <2>2. CASE call[c] = "discard"
    <3>1. AllIdle
      BY <2>2 DEF IInv, IdleStays, SeenIdle, AllIdle
    <3> QED BY <2>1, <3>1 DEF IdleStays, SeenIdle, AllIdle
  <2>3. CASE call[c] = "dispose"
    <3>1. Goes(c, "raised")
      BY <1>23, <2>3 DEF DiscardLocal
    <3>2. closed' => closed
      BY <1>23, <2>3, Zenon DEF DiscardLocal
    <3>3. call' = [call EXCEPT ![c] = "raised"]
      BY <3>1 DEF Goes
    <3> QED BY <2>1, <3>2, <3>3 DEF IInv, Shapes, IdleStays, SeenIdle, AllIdle
  <2> QED BY <1>23, <2>2, <2>3 DEF DiscardLocal
<1>24. ASSUME NEW c \in Parties, CompleteClose(c) PROVE IdleStays'
  BY <1>24
  DEF IInv, Shapes, Parties, CloseStopsAdmission, Locked, IdleStays, SeenIdle,
      AllIdle, Unseen, Inactive, NodesTracked, ActiveTurns, ActiveNodes, FullyIdle,
      CompleteClose, Goes, Engine, flags, calls
<1>25. ASSUME LossMove PROVE IdleStays'
  BY <1>25
  DEF IInv, Shapes, Parties, CloseStopsAdmission, Locked, IdleStays, SeenIdle,
      AllIdle, Unseen, Inactive, NodesTracked, ActiveTurns, ActiveNodes, FullyIdle,
      LossMove, JoinSupervisor, Goes, Engine, flags, calls, LatchLoss,
      RetireTransport
<1> QED BY <1>1, <1>2, <1>3, <1>4, <1>5, <1>6, <1>7, <1>8, <1>9, <1>10, <1>11,
       <1>12, <1>13, <1>14, <1>15, <1>16, <1>17, <1>18, <1>19, <1>20, <1>21, <1>22,
       <1>23, <1>24, <1>25 DEF Next, TurnStep, CloseStep, TurnMove, CloseMove,
       LossMove

(* A close that has begun keeps takeovers from starting.                    *)
LEMMA StepQuietStays == ASSUME IInv, Next PROVE QuietStays'
<1>1. ASSUME NEW t \in Turns, StartTurn(t) PROVE QuietStays'
  BY <1>1
  DEF IInv, Shapes, Parties, CloseStopsAdmission, Locked, IdleStays, SeenIdle,
      AllIdle, Unseen, Inactive, QuietStays, SeenQuiet, NoTakeover, Takeovers, StartTurn,
      flags, calls
<1>2. ASSUME NEW t \in Turns, RefuseTurn(t) PROVE QuietStays'
  BY <1>2
  DEF IInv, Shapes, Parties, CloseStopsAdmission, Locked, IdleStays, SeenIdle,
      AllIdle, Unseen, Inactive, QuietStays, SeenQuiet, NoTakeover, Takeovers, RefuseTurn,
      RunCallbacks, EnterLastResort, flags, calls
<1>3. ASSUME NEW t \in Turns, RunTurn(t) PROVE QuietStays'
  BY <1>3
  DEF IInv, Shapes, Parties, CloseStopsAdmission, Locked, IdleStays, SeenIdle,
      AllIdle, Unseen, Inactive, QuietStays, SeenQuiet, NoTakeover, Takeovers, RunTurn,
      RunCallbacks, HoldsTurnLock, flags, calls
<1>4. ASSUME NEW t \in Turns, PickUpNode(t) PROVE QuietStays'
  BY <1>4
  DEF IInv, Shapes, Parties, CloseStopsAdmission, Locked, IdleStays, SeenIdle,
      AllIdle, Unseen, Inactive, QuietStays, SeenQuiet, NoTakeover, Takeovers, PickUpNode,
      flags, calls
<1>5. ASSUME NEW t \in Turns, EnterNode(t) PROVE QuietStays'
  BY <1>5
  DEF IInv, Shapes, Parties, CloseStopsAdmission, Locked, IdleStays, SeenIdle,
      AllIdle, Unseen, Inactive, QuietStays, SeenQuiet, NoTakeover, Takeovers, EnterNode,
      flags, calls
<1>6. ASSUME NEW t \in Turns, NodeWrites(t) PROVE QuietStays'
  BY <1>6
  DEF IInv, Shapes, Parties, CloseStopsAdmission, Locked, IdleStays, SeenIdle,
      AllIdle, Unseen, Inactive, QuietStays, SeenQuiet, NoTakeover, Takeovers, NodeWrites,
      flags, calls
<1>7. ASSUME NEW t \in Turns, LeaveNode(t) PROVE QuietStays'
  BY <1>7
  DEF IInv, Shapes, Parties, CloseStopsAdmission, Locked, IdleStays, SeenIdle,
      AllIdle, Unseen, Inactive, QuietStays, SeenQuiet, NoTakeover, Takeovers, LeaveNode,
      RunCallbacks, flags, calls
<1>8. ASSUME NEW t \in Turns, EndStream(t) PROVE QuietStays'
  BY <1>8
  DEF IInv, Shapes, Parties, CloseStopsAdmission, Locked, IdleStays, SeenIdle,
      AllIdle, Unseen, Inactive, QuietStays, SeenQuiet, NoTakeover, Takeovers, EndStream,
      RunCallbacks, EnterLastResort, flags, calls
<1>9. ASSUME NEW t \in Turns, SettleTurn(t) PROVE QuietStays'
  BY <1>9
  DEF IInv, Shapes, Parties, CloseStopsAdmission, Locked, IdleStays, SeenIdle,
      AllIdle, Unseen, Inactive, QuietStays, SeenQuiet, NoTakeover, Takeovers, SettleTurn,
      RunCallbacks, EnterLastResort, flags, calls
<1>10. ASSUME NEW t \in Turns, CancelTurn(t) PROVE QuietStays'
  BY <1>10
  DEF IInv, Shapes, Parties, CloseStopsAdmission, Locked, IdleStays, SeenIdle,
      AllIdle, Unseen, Inactive, QuietStays, SeenQuiet, NoTakeover, Takeovers, CancelTurn,
      RunCallbacks, flags, calls
<1>11. ASSUME NEW t \in Turns, DeferLastResort(t) PROVE QuietStays'
  BY <1>11
  DEF IInv, Shapes, Parties, CloseStopsAdmission, Locked, IdleStays, SeenIdle,
      AllIdle, Unseen, Inactive, QuietStays, SeenQuiet, NoTakeover, Takeovers,
      DeferLastResort, RunCallbacks, flags, calls
<1>12. ASSUME NEW t \in Turns, TakeOver(t) PROVE QuietStays'
  BY <1>12
  DEF IInv, Shapes, Parties, CloseStopsAdmission, Locked, IdleStays, SeenIdle,
      AllIdle, Unseen, Inactive, QuietStays, SeenQuiet, NoTakeover, Takeovers, TakeOver,
      RunCallbacks, flags, calls
<1>13. ASSUME NEW t \in Turns, FinishTakeover(t) PROVE QuietStays'
  BY <1>13
  DEF IInv, Shapes, Parties, CloseStopsAdmission, Locked, IdleStays, SeenIdle,
      AllIdle, Unseen, Inactive, QuietStays, SeenQuiet, NoTakeover, Takeovers,
      FinishTakeover, RunCallbacks, EnterLastResort, RunTakeoverCallbacks, flags,
      calls
<1>14. ASSUME NEW t \in Turns, StartRecovery(t) PROVE QuietStays'
  BY <1>14
  DEF IInv, Shapes, Parties, CloseStopsAdmission, Locked, IdleStays, SeenIdle,
      AllIdle, Unseen, Inactive, QuietStays, SeenQuiet, NoTakeover, Takeovers,
      StartRecovery, flags, calls
<1>15. ASSUME NEW t \in Turns, FinishRecovery(t) PROVE QuietStays'
  BY <1>15
  DEF IInv, Shapes, Parties, CloseStopsAdmission, Locked, IdleStays, SeenIdle,
      AllIdle, Unseen, Inactive, QuietStays, SeenQuiet, NoTakeover, Takeovers,
      FinishRecovery, RunTakeoverCallbacks, flags, calls
<1>16. ASSUME NEW c \in Parties, EnterClose(c) PROVE QuietStays'
  BY <1>16
  DEF IInv, Shapes, Parties, CloseStopsAdmission, Locked, IdleStays, SeenIdle,
      AllIdle, Unseen, Inactive, QuietStays, SeenQuiet, NoTakeover, Takeovers, EnterClose,
      Goes, Engine, flags, calls
<1>17. ASSUME NEW c \in Parties, TakeCloseLock(c) PROVE QuietStays'
  BY <1>17
  DEF IInv, Shapes, Parties, CloseStopsAdmission, Locked, IdleStays, SeenIdle,
      AllIdle, Unseen, Inactive, QuietStays, SeenQuiet, NoTakeover, Takeovers,
      TakeCloseLock, Goes, Engine, CloseLockFree, flags, calls
<1>18. ASSUME NEW c \in Parties, BeginDurableClose(c) PROVE QuietStays'
  BY <1>18
  DEF IInv, Shapes, Parties, CloseStopsAdmission, Locked, IdleStays, SeenIdle,
      AllIdle, Unseen, Inactive, QuietStays, SeenQuiet, NoTakeover, Takeovers,
      BeginDurableClose, Goes, Engine, flags, calls
<1>19. ASSUME NEW c \in Parties, AwaitFullyIdle(c) PROVE QuietStays'
  BY <1>19
  DEF IInv, Shapes, Parties, CloseStopsAdmission, Locked, IdleStays, SeenIdle,
      AllIdle, Unseen, Inactive, QuietStays, SeenQuiet, NoTakeover, Takeovers,
      AwaitFullyIdle, Goes, Engine, flags, calls
<1>20. ASSUME NEW c \in Parties, AwaitTakeoversIdle(c) PROVE QuietStays'
  BY <1>20
  DEF IInv, Shapes, Parties, CloseStopsAdmission, Locked, IdleStays, SeenIdle,
      AllIdle, Unseen, Inactive, QuietStays, SeenQuiet, NoTakeover, Takeovers,
      AwaitTakeoversIdle, Goes, Engine, flags, calls
<1>21. ASSUME NEW c \in Parties, QuiescenceTimeout(c) PROVE QuietStays'
  BY <1>21
  DEF IInv, Shapes, Parties, CloseStopsAdmission, Locked, IdleStays, SeenIdle,
      AllIdle, Unseen, Inactive, QuietStays, SeenQuiet, NoTakeover, Takeovers,
      QuiescenceTimeout, Goes, Engine, flags, calls
<1>22. ASSUME NEW c \in Parties, InspectInterrupt(c) PROVE QuietStays'
  BY <1>22
  DEF IInv, Shapes, Parties, CloseStopsAdmission, Locked, IdleStays, SeenIdle,
      AllIdle, Unseen, Inactive, QuietStays, SeenQuiet, NoTakeover, Takeovers,
      InspectInterrupt, Goes, Engine, flags, calls
<1>23. ASSUME NEW c \in Parties, DiscardLocal(c) PROVE QuietStays'
  <2>1. UNCHANGED <<turn, work, recovery, waiting, held>>
    BY <1>23 DEF DiscardLocal, Engine
  <2>2. CASE call[c] = "discard"
    <3>1. NoTakeover
      BY <2>2 DEF IInv, QuietStays, SeenQuiet, NoTakeover
    <3> QED BY <2>1, <3>1 DEF QuietStays, SeenQuiet, NoTakeover
  <2>3. CASE call[c] = "dispose"
    <3>1. Goes(c, "raised")
      BY <1>23, <2>3 DEF DiscardLocal
    <3>2. closed' => closed
      BY <1>23, <2>3, Zenon DEF DiscardLocal
    <3>3. call' = [call EXCEPT ![c] = "raised"]
      BY <3>1 DEF Goes
    <3> QED BY <2>1, <3>2, <3>3 DEF IInv, Shapes, QuietStays, SeenQuiet, NoTakeover
  <2> QED BY <1>23, <2>2, <2>3 DEF DiscardLocal
<1>24. ASSUME NEW c \in Parties, CompleteClose(c) PROVE QuietStays'
  BY <1>24
  DEF IInv, Shapes, Parties, CloseStopsAdmission, Locked, IdleStays, SeenIdle,
      AllIdle, Unseen, Inactive, QuietStays, SeenQuiet, NoTakeover, Takeovers,
      CompleteClose, Goes, Engine, flags, calls
<1>25. ASSUME LossMove PROVE QuietStays'
  BY <1>25
  DEF IInv, Shapes, Parties, CloseStopsAdmission, Locked, IdleStays, SeenIdle,
      AllIdle, Unseen, Inactive, QuietStays, SeenQuiet, NoTakeover, Takeovers, LossMove,
      JoinSupervisor, Goes, Engine, flags, calls, LatchLoss, RetireTransport
<1> QED BY <1>1, <1>2, <1>3, <1>4, <1>5, <1>6, <1>7, <1>8, <1>9, <1>10, <1>11,
       <1>12, <1>13, <1>14, <1>15, <1>16, <1>17, <1>18, <1>19, <1>20, <1>21, <1>22,
       <1>23, <1>24, <1>25 DEF Next, TurnStep, CloseStep, TurnMove, CloseMove,
       LossMove

(* Only a node writes what the caller holds.                                *)
LEMMA StepNothingKept == ASSUME IInv, Next PROVE NothingKept'
<1>1. ASSUME NEW t \in Turns, TurnMove(t) PROVE NothingKept'
  BY <1>1
  DEF IInv, Shapes, Parties, IdleStays, SeenIdle, AllIdle, Unseen, Inactive, NothingKept, Strays,
      ActiveNodes, TurnMove, StartTurn, flags, calls, RefuseTurn, RunCallbacks,
      EnterLastResort, RunTurn, HoldsTurnLock, PickUpNode, EnterNode, NodeWrites,
      LeaveNode, EndStream, SettleTurn, CancelTurn, DeferLastResort, TakeOver,
      FinishTakeover, RunTakeoverCallbacks, StartRecovery, FinishRecovery
<1>2. ASSUME NEW c \in Parties, CloseMove(c) PROVE NothingKept'
  BY <1>2
  DEF IInv, Shapes, Parties, IdleStays, SeenIdle, AllIdle, Unseen, Inactive, NothingKept, Strays,
      ActiveNodes, CloseMove, EnterClose, Goes, Engine, flags, calls,
      TakeCloseLock, CloseLockFree, BeginDurableClose, AwaitFullyIdle,
      AwaitTakeoversIdle, QuiescenceTimeout, InspectInterrupt, DiscardLocal,
      CompleteClose
<1>3. ASSUME LossMove PROVE NothingKept'
  BY <1>3
  DEF IInv, Shapes, Parties, IdleStays, SeenIdle, AllIdle, Unseen, Inactive, NothingKept, Strays,
      ActiveNodes, LossMove, JoinSupervisor, Goes, Engine, flags, calls,
      LatchLoss, RetireTransport
<1> QED BY <1>1, <1>2, <1>3 DEF Next, TurnStep, CloseStep, TurnMove, CloseMove, LossMove

(* A cancelled turn leaves its node detached.                               *)
LEMMA StepNodesTracked == ASSUME IInv, Next PROVE NodesTracked'
<1>1. ASSUME NEW t \in Turns, TurnMove(t) PROVE NodesTracked'
  BY <1>1
  DEF IInv, Shapes, NodesTracked, ActiveNodes, TurnMove, StartTurn, flags, calls,
      RefuseTurn, RunCallbacks, EnterLastResort, RunTurn, HoldsTurnLock,
      PickUpNode, EnterNode, NodeWrites, LeaveNode, EndStream, SettleTurn,
      CancelTurn, DeferLastResort, TakeOver, FinishTakeover, RunTakeoverCallbacks,
      StartRecovery, FinishRecovery
<1>2. ASSUME NEW c \in Parties, CloseMove(c) PROVE NodesTracked'
  BY <1>2
  DEF IInv, Shapes, NodesTracked, ActiveNodes, CloseMove, EnterClose, Goes,
      Engine, flags, calls, TakeCloseLock, CloseLockFree, BeginDurableClose,
      AwaitFullyIdle, AwaitTakeoversIdle, QuiescenceTimeout, InspectInterrupt,
      DiscardLocal, CompleteClose
<1>3. ASSUME LossMove PROVE NodesTracked'
  BY <1>3
  DEF IInv, Shapes, NodesTracked, ActiveNodes, LossMove, JoinSupervisor, Goes,
      Engine, flags, calls, LatchLoss, RetireTransport
<1> QED BY <1>1, <1>2, <1>3 DEF Next, TurnStep, CloseStep, TurnMove, CloseMove, LossMove

(* The end of a turn: the deferred last resorts may be scheduled, and then  *)
(* nothing is active.                                                       *)
LEMMA CallbacksKeepAlone ==
    ASSUME Shapes, NodesTracked, TakeoversAlone, NEW t \in Turns,
           turn' \in {[turn EXCEPT ![t] = "done"], [turn EXCEPT ![t] = "settle"]},
           UNCHANGED work, terminal => terminal', RunCallbacks(recovery)
    PROVE  TakeoversAlone'
<1>1. \A u \in Turns : /\ turn'[u] \in {turn[u], "done", "settle"}
                       /\ work'[u] = work[u]
  BY DEF Shapes
<1>2. \A u \in Turns : recovery'[u] # "none" => recovery[u] # "none"
  BY DEF RunCallbacks, Shapes
<1>3. \A u \in Turns : \/ recovery'[u] = recovery[u]
                       \/ ActiveTurns' = {} /\ ActiveNodes' = {}
  BY DEF RunCallbacks, Shapes
<1>4. ASSUME ActiveTurns' = {}, ActiveNodes' = {}, NEW u \in Turns
      PROVE  turn'[u] \notin {"stream", "quiesce", "takeover"} /\ work'[u] \in Unseen
  BY <1>1, <1>4 DEF ActiveTurns, ActiveNodes, NodesTracked, Shapes, Unseen
<1> QED BY <1>1, <1>2, <1>3, <1>4 DEF TakeoversAlone, Unseen

(* The turn lock and the terminal latch keep nodes out.                     *)
LEMMA StepTakeoversAlone == ASSUME IInv, Next PROVE TakeoversAlone'
<1>1. ASSUME NEW t \in Turns, StartTurn(t) PROVE TakeoversAlone'
  BY <1>1
  DEF IInv, Shapes, Exclusive, HoldsTurnLock, NodesTracked, TakeoversAlone, Unseen,
      ActiveTurns, ActiveNodes, StartTurn, flags, calls
<1>2. ASSUME NEW t \in Turns, RefuseTurn(t) PROVE TakeoversAlone'
  <2>1. turn' \in {[turn EXCEPT ![t] = "done"], [turn EXCEPT ![t] = "settle"]} /\ UNCHANGED work
    BY <1>2 DEF RefuseTurn
  <2>2. terminal => terminal'
    BY <1>2 DEF RefuseTurn, EnterLastResort
  <2>3. RunCallbacks(recovery)
    BY <1>2 DEF RefuseTurn
  <2> QED BY <2>1, <2>2, <2>3, CallbacksKeepAlone DEF IInv
<1>3. ASSUME NEW t \in Turns, RunTurn(t) PROVE TakeoversAlone'
  BY <1>3
  DEF IInv, Shapes, Exclusive, HoldsTurnLock, NodesTracked, TakeoversAlone, Unseen,
      ActiveTurns, ActiveNodes, RunTurn, RunCallbacks, flags, calls
<1>4. ASSUME NEW t \in Turns, PickUpNode(t) PROVE TakeoversAlone'
  BY <1>4
  DEF IInv, Shapes, Exclusive, HoldsTurnLock, NodesTracked, TakeoversAlone, Unseen,
      ActiveTurns, ActiveNodes, PickUpNode, flags, calls
<1>5. ASSUME NEW t \in Turns, EnterNode(t) PROVE TakeoversAlone'
  BY <1>5
  DEF IInv, Shapes, Exclusive, HoldsTurnLock, NodesTracked, TakeoversAlone, Unseen,
      ActiveTurns, ActiveNodes, EnterNode, flags, calls
<1>6. ASSUME NEW t \in Turns, NodeWrites(t) PROVE TakeoversAlone'
  BY <1>6
  DEF IInv, Shapes, Exclusive, HoldsTurnLock, NodesTracked, TakeoversAlone, Unseen,
      ActiveTurns, ActiveNodes, NodeWrites, flags, calls
<1>7. ASSUME NEW t \in Turns, LeaveNode(t) PROVE TakeoversAlone'
  BY <1>7
  DEF IInv, Shapes, Exclusive, HoldsTurnLock, NodesTracked, TakeoversAlone, Unseen,
      ActiveTurns, ActiveNodes, LeaveNode, RunCallbacks, flags, calls
<1>8. ASSUME NEW t \in Turns, EndStream(t) PROVE TakeoversAlone'
  <2>1. turn' \in {[turn EXCEPT ![t] = "done"], [turn EXCEPT ![t] = "settle"]} /\ UNCHANGED work
    BY <1>8 DEF EndStream
  <2>2. terminal => terminal'
    BY <1>8 DEF EndStream, EnterLastResort
  <2>3. RunCallbacks(recovery)
    BY <1>8 DEF EndStream
  <2> QED BY <2>1, <2>2, <2>3, CallbacksKeepAlone DEF IInv
<1>9. ASSUME NEW t \in Turns, SettleTurn(t) PROVE TakeoversAlone'
  <2>1. turn' \in {[turn EXCEPT ![t] = "done"], [turn EXCEPT ![t] = "settle"]} /\ UNCHANGED work
    BY <1>9 DEF SettleTurn
  <2>2. terminal => terminal'
    BY <1>9 DEF SettleTurn, EnterLastResort
  <2>3. RunCallbacks(recovery)
    BY <1>9 DEF SettleTurn
  <2> QED BY <2>1, <2>2, <2>3, CallbacksKeepAlone DEF IInv
<1>10. ASSUME NEW t \in Turns, CancelTurn(t) PROVE TakeoversAlone'
  BY <1>10
  DEF IInv, Shapes, Exclusive, HoldsTurnLock, NodesTracked, TakeoversAlone, Unseen,
      ActiveTurns, ActiveNodes, CancelTurn, RunCallbacks, flags, calls
<1>11. ASSUME NEW t \in Turns, DeferLastResort(t) PROVE TakeoversAlone'
  BY <1>11
  DEF IInv, Shapes, Exclusive, HoldsTurnLock, NodesTracked, TakeoversAlone, Unseen,
      ActiveTurns, ActiveNodes, DeferLastResort, RunCallbacks, flags, calls
<1>12. ASSUME NEW t \in Turns, TakeOver(t) PROVE TakeoversAlone'
  BY <1>12
  DEF IInv, Shapes, Exclusive, HoldsTurnLock, NodesTracked, TakeoversAlone, Unseen,
      ActiveTurns, ActiveNodes, TakeOver, RunCallbacks, flags, calls
<1>13. ASSUME NEW t \in Turns, FinishTakeover(t) PROVE TakeoversAlone'
  <2>1. turn' \in {[turn EXCEPT ![t] = "done"], [turn EXCEPT ![t] = "settle"]} /\ UNCHANGED work
    BY <1>13 DEF FinishTakeover
  <2>2. terminal => terminal'
    BY <1>13 DEF FinishTakeover, EnterLastResort
  <2>3. RunCallbacks(recovery)
    BY <1>13 DEF FinishTakeover
  <2> QED BY <2>1, <2>2, <2>3, CallbacksKeepAlone DEF IInv
<1>14. ASSUME NEW t \in Turns, StartRecovery(t) PROVE TakeoversAlone'
  BY <1>14
  DEF IInv, Shapes, Exclusive, HoldsTurnLock, NodesTracked, TakeoversAlone, Unseen,
      ActiveTurns, ActiveNodes, StartRecovery, flags, calls
<1>15. ASSUME NEW t \in Turns, FinishRecovery(t) PROVE TakeoversAlone'
  BY <1>15
  DEF IInv, Shapes, Exclusive, HoldsTurnLock, NodesTracked, TakeoversAlone, Unseen,
      ActiveTurns, ActiveNodes, FinishRecovery, RunTakeoverCallbacks, flags, calls
<1>16. ASSUME NEW c \in Parties, CloseMove(c) PROVE TakeoversAlone'
  BY <1>16
  DEF IInv, Shapes, Exclusive, HoldsTurnLock, NodesTracked, TakeoversAlone, Unseen,
      ActiveTurns, ActiveNodes, CloseMove, EnterClose, Goes, Engine, flags, calls,
      TakeCloseLock, CloseLockFree, BeginDurableClose, AwaitFullyIdle,
      AwaitTakeoversIdle, QuiescenceTimeout, InspectInterrupt, DiscardLocal,
      CompleteClose
<1>17. ASSUME LossMove PROVE TakeoversAlone'
  BY <1>17
  DEF IInv, Shapes, Exclusive, HoldsTurnLock, NodesTracked, TakeoversAlone, Unseen,
      ActiveTurns, ActiveNodes, LossMove, JoinSupervisor, Goes, Engine, flags,
      calls, LatchLoss, RetireTransport
<1> QED BY <1>1, <1>2, <1>3, <1>4, <1>5, <1>6, <1>7, <1>8, <1>9, <1>10, <1>11,
       <1>12, <1>13, <1>14, <1>15, <1>16, <1>17 DEF Next, TurnStep, CloseStep,
       TurnMove, CloseMove, LossMove

-----------------------------------------------------------------------------
(* IInv is inductive.                                                       *)
LEMMA InitIInv == Init => IInv
<1> SUFFICES ASSUME Init PROVE IInv
  OBVIOUS
<1>1. Shapes
  BY DEF Init, Shapes, TurnStates, Parties
<1>2. Flags
  BY DEF Init, Flags
<1>3. /\ \A t \in Turns : turn[t] = "new" /\ work[t] = "none" /\ recovery[t] = "none"
      /\ \A c \in Parties : call[c] = "idle"
      /\ closeStarted = FALSE /\ closed = FALSE
  BY DEF Init
<1>4. Exclusive
  BY <1>3 DEF Exclusive, HoldsTurnLock, Locked
<1>5. CloseStopsAdmission
  BY <1>3 DEF CloseStopsAdmission, Locked
<1>6. IdleStays /\ QuietStays /\ NothingKept
  BY <1>3 DEF IdleStays, SeenIdle, QuietStays, SeenQuiet, NothingKept
<1>7. NodesTracked /\ TakeoversAlone
  BY <1>3 DEF NodesTracked, TakeoversAlone, Unseen
<1> QED BY <1>1, <1>2, <1>4, <1>5, <1>6, <1>7 DEF IInv

LEMMA StutterIInv == IInv /\ UNCHANGED vars => IInv'
BY DEF vars, IInv, Shapes, Flags, Exclusive, HoldsTurnLock, CloseStopsAdmission,
       IdleStays, SeenIdle, AllIdle, Unseen, QuietStays, SeenQuiet, NoTakeover,
       NothingKept, Strays, NodesTracked, TakeoversAlone, Unseen

(* The inductive invariant holds of every reachable state.                  *)
THEOREM Invariance == Spec => []IInv
<1>1. IInv /\ [Next]_vars => IInv'
  <2>1. ASSUME IInv, Next PROVE IInv'
    BY <2>1, StepShapes, StepFlags, StepExclusive, StepCloseStopsAdmission,
       StepIdleStays, StepQuietStays, StepNothingKept, StepNodesTracked,
       StepTakeoversAlone
    DEF IInv
  <2> QED BY <2>1, StutterIInv
<1> QED BY <1>1, InitIInv, PTL DEF Spec

(* The state of a call always has its type, one turn at a time holds the    *)
(* engine's turn lock and one party the close lock.                         *)
THEOREM TypeCorrect == Spec => []TypeOK
<1>1. IInv => TypeOK
  BY DEF IInv, TypeOK, Shapes, Flags, Exclusive
<1> QED BY <1>1, Invariance, PTL

LEMMA QuietFromInv == IInv => QuietButForStrays
<1>1. ASSUME IInv, Quiescent
      PROVE  ActiveTurns = {} /\ ActiveNodes \subseteq Strays /\ Takeovers = {}
  <2>1. PICK c \in Parties : closed \/ call[c] \in {"inspect", "discard", "finalize"}
    BY <1>1 DEF Parties, Quiescent
  <2>2. AllIdle /\ NoTakeover
    BY <1>1, <2>1 DEF IInv, IdleStays, SeenIdle, QuietStays, SeenQuiet
  <2> QED BY <2>2 DEF ActiveTurns, ActiveNodes, Strays, Takeovers, AllIdle, Unseen, NoTakeover, Inactive
<1> QED BY <1>1 DEF QuietButForStrays

(* Once a close has seen quiescence, no turn, takeover, deferred last       *)
(* resort or node the tracker was told of in its turn acts for the caller   *)
(* ever again, whoever else is closing; what still may is a stray.          *)
THEOREM CloseIsQuiet == Spec => []QuietButForStrays
BY QuietFromInv, Invariance, PTL

LEMMA EmptyFromInv == IInv => ClosedHoldsNothing
BY DEF IInv, NothingKept, Strays, ClosedHoldsNothing, Parties

(* A closed context holds nothing of its caller but what a stray put back.  *)
THEOREM ClosedIsEmpty == Spec => []ClosedHoldsNothing
BY EmptyFromInv, Invariance, PTL

(* No node but a stray runs beside a takeover or a deferred last resort.    *)
THEOREM RecoveryIsAlone == Spec => []RecoveryRunsAlone
<1>1. IInv => RecoveryRunsAlone
  BY DEF IInv, TakeoversAlone, Unseen, RecoveryRunsAlone, Takeovers, ActiveNodes, Strays
<1> QED BY <1>1, Invariance, PTL
-----------------------------------------------------------------------------
(* The context's side of a call keeps its invariant when the call is seen   *)
(* together with its job.                                                   *)
LEMMA ContextInvariance == VoiceCallSpec => []IInv
<1>1. VoiceCallInit => IInv
  BY InitIInv DEF VoiceCallInit
<1>2. IInv /\ [VoiceCallNext]_voiceCallVars => IInv'
  <2>1. ASSUME IInv, Next PROVE IInv'
    BY <2>1, StepShapes, StepFlags, StepExclusive, StepCloseStopsAdmission,
       StepIdleStays, StepQuietStays, StepNothingKept, StepNodesTracked,
       StepTakeoversAlone
    DEF IInv
  <2> QED BY <2>1, StutterIInv DEF VoiceCallNext, voiceCallVars
<1> QED BY <1>1, <1>2, PTL DEF VoiceCallSpec

(* As CloseIsQuiet and ClosedIsEmpty, for the call with its job: nothing    *)
(* but a stray acts for the caller once a close has seen quiescence, and a  *)
(* closed context holds nothing of the caller's but what a stray put back   *)
(* (_await_close_quiescence, _adiscard_local_authority).                    *)
THEOREM CallClosesCleanly == VoiceCallSpec => []ClosesCleanly
<1>1. IInv => ClosesCleanly
  BY QuietFromInv, EmptyFromInv DEF ClosesCleanly
<1> QED BY <1>1, ContextInvariance, PTL

(* As RecoveryIsAlone, for the call with its job                            *)
(* (cancellation_takeover_lease).                                           *)
THEOREM CallRecoversAlone == VoiceCallSpec => []RecoveryRunsAlone
<1>1. IInv => RecoveryRunsAlone
  BY DEF IInv, TakeoversAlone, Unseen, RecoveryRunsAlone, Takeovers, ActiveNodes, Strays
<1> QED BY <1>1, ContextInvariance, PTL

-----------------------------------------------------------------------------
(* The job's side (VoiceJob).                                              *)

(* A task inside the close of the context.                                  *)
Inside == {"begin", "quiesce", "finalize", "discard"}

(* Nothing is torn down and no renewal runs before the job is registered.   *)
StagesInOrder ==
    /\ stage \in {"received", "qualified"} => \A a \in Tasks : at[a] = "idle"
    /\ stage \in {"received", "qualified"} => ~pool.closed
    /\ sup.pc # "off" => Registered

(* What the database granted, less the time since the request was sent, is  *)
(* never more than what is left of the lease.                               *)
LeaseKnown ==
    row.owner = Worker =>
        /\ sup.pc = "answered" => row.lease >= Remaining
        /\ sup.pc = "sleeping" /\ sup.left > 0 => row.lease >= sup.left + Interval

(* The task inside a close holds the lock of the context.                   *)
HolderKnown == \A a \in Tasks : at[a] \in Inside => ctx.holder = a /\ ~ctx.closed

(* A pool that aclose marked closed has drained, and only then is a release *)
(* reported as clean.                                                       *)
PoolKnown ==
    /\ pool.closed => pool.state = "drained"
    /\ \A a \in Releasers : Leased /\ outcome[a] = "clean" => pool.closed

JobInv ==
    /\ JobTypeOK
    /\ row \in SessionRow
    /\ StagesInOrder
    /\ LeaseKnown
    /\ HolderKnown
    /\ PoolKnown

LEMMA MaxPair ==
    ASSUME NEW x \in Int, NEW y \in Int
    PROVE  Max({x, y}) \in {x, y} /\ Max({x, y}) >= x /\ Max({x, y}) >= y
<1>1. \E m \in {x, y} : \A z \in {x, y} : m >= z
  <2>1. CASE x >= y
    BY <2>1
  <2>2. CASE ~(x >= y)
    BY <2>2
  <2> QED BY <2>1, <2>2
<1> QED BY <1>1 DEF Max

LEMMA MinPair ==
    ASSUME NEW x \in Int, NEW y \in Int
    PROVE  Min({x, y}) \in {x, y} /\ Min({x, y}) <= x /\ Min({x, y}) <= y
<1>1. \E m \in {x, y} : \A z \in {x, y} : m =< z
  <2>1. CASE x <= y
    BY <2>1
  <2>2. CASE ~(x <= y)
    BY <2>2
  <2> QED BY <2>1, <2>2
<1> QED BY <1>1 DEF Min

LEMMA TicksAreInts ==
    /\ Ticks \subseteq Int
    /\ {0, LeaseDuration, Retention, CloseDuration, Tombstone} \subseteq Ticks
    /\ Interval \in Nat /\ MaxRequest \in Nat
BY DurationAssumption, IntervalAssumption DEF Ticks, Horizon

(* A transaction that leaves a lease of the worker as it was, or takes it.  *)
RowStill ==
    /\ row' \in SessionRow
    /\ row'.owner = Worker => row.owner = Worker /\ row'.lease = row.lease

LEMMA SameRow == ASSUME row \in SessionRow, UNCHANGED registryVars PROVE RowStill
BY DEF RowStill, registryVars

LEMMA CloseInPlaceStill ==
    ASSUME row \in SessionRow, NEW op \in CloseOps, CloseInPlace(op)
    PROVE  RowStill
<1>1. row' \in SessionRow
  BY TicksAreInts DEF CloseInPlace, SessionRow
<1>2. row'.owner = NONE
  BY DEF CloseInPlace, SessionRow
<1> QED BY <1>1, <1>2, WorkerAssumption, IdentityAssumption DEF RowStill

LEMMA BeginCloseStill ==
    ASSUME row \in SessionRow, BeginClose(Worker, JobClose, JobClose, 0)
    PROVE  RowStill
<1>1. row.fence + 1 \in 0..MaxFence /\ CloseDuration - 0 \in Ticks
  BY TicksAreInts, BoundAssumption, DurationAssumption
  DEF BeginClose, TakeCloseLease, SessionRow
<1>2. row' \in SessionRow /\ row'.owner = JobClose
  BY <1>1, WorkerAssumption DEF BeginClose, TakeCloseLease, SessionRow
<1> QED BY <1>2, WorkerAssumption, IdentityAssumption DEF RowStill

LEMMA ActivateStill == ASSUME row \in SessionRow, Activate(Worker) PROVE RowStill
BY DEF Activate, SessionRow, RowStill

LEMMA NoRowTyped == NoRow \in SessionRow
BY TicksAreInts, BoundAssumption DEF NoRow, SessionRow, Principals, Revisions

LEMMA PurgeStill == ASSUME PurgeClosedTombstones PROVE RowStill
BY NoRowTyped, WorkerAssumption, IdentityAssumption DEF PurgeClosedTombstones, RowStill, NoRow

LEMMA RegisterTyped == ASSUME RegisterAndAcquire(Worker) PROVE row' \in SessionRow
<1>1. EnvelopeContext(0, 0) \in EnvelopeContexts /\ InitialFence \in 0..MaxFence
  BY BoundAssumption DEF EnvelopeContext, EnvelopeContexts, Principals, Revisions, InitialFence
<1> QED BY <1>1, NoRowTyped, TicksAreInts, WorkerAssumption DEF RegisterAndAcquire, SessionRow

(* A renewal never shortens the lease.                                      *)
LEMMA RenewTyped ==
    ASSUME row \in SessionRow, Renew(Worker)
    PROVE  row' \in SessionRow /\ row'.lease \in Ticks
<1>1. row.lease \in Ticks /\ row.life \in Ticks
  BY DEF SessionRow
<1>2. PICK n : n = Min({row.life, LeaseDuration})
  OBVIOUS
<1>3. n \in Ticks
  BY <1>1, <1>2, MinPair, TicksAreInts
<1>4. PICK m : m = Max({row.lease, n})
  OBVIOUS
<1>5. m \in Ticks
  BY <1>1, <1>3, <1>4, MaxPair, TicksAreInts
<1>6. row' = [row EXCEPT !.lease = m]
  BY <1>2, <1>4 DEF Renew
<1> QED BY <1>5, <1>6 DEF SessionRow

LEMMA CountdownTyped ==
    ASSUME NEW n \in Ticks PROVE Countdown(n) \in Ticks /\ Countdown(n) >= n - 1
<1>1. n - 1 \in Int /\ 0 - Skew \in Int
  BY TicksAreInts, DurationAssumption
<1>2. PICK m : m = Countdown(n)
  OBVIOUS
<1>3. m \in {n - 1, 0 - Skew} /\ m >= n - 1 /\ m >= 0 - Skew
  BY <1>1, <1>2, MaxPair DEF Countdown
<1> QED BY <1>2, <1>3, DurationAssumption DEF Ticks, Horizon

LEMMA TickTyped ==
    ASSUME row \in SessionRow, RegistryTick
    PROVE  row' \in SessionRow /\ row'.owner = row.owner /\ row'.lease >= row.lease - 1
<1>1. PICK m : m = IF row.lifecycle \in Open \cup {"closing"}
                     THEN Countdown(row.lease) ELSE row.lease
  OBVIOUS
<1>2. PICK n : n = IF row.lifecycle # "absent" THEN Countdown(row.life) ELSE row.life
  OBVIOUS
<1>3. m \in Ticks /\ n \in Ticks /\ m >= row.lease - 1
  <2>1. row.lease \in Ticks /\ row.life \in Ticks /\ row.lease \in Int
    BY TicksAreInts DEF SessionRow
  <2>2. Countdown(row.lease) \in Ticks /\ Countdown(row.lease) >= row.lease - 1
    BY <2>1, CountdownTyped
  <2>3. Countdown(row.life) \in Ticks
    BY <2>1, CountdownTyped
  <2> QED BY <1>1, <1>2, <2>1, <2>2, <2>3
<1>4. row' = [row EXCEPT !.lease = m, !.life = n]
  BY <1>1, <1>2 DEF RegistryTick
<1> QED BY <1>3, <1>4 DEF SessionRow

-----------------------------------------------------------------------------
(* The tables under a step of the job: a lease of the worker is granted     *)
(* before the supervisor exists, renewed by the supervisor, and otherwise   *)
(* only runs down or is taken away.                                         *)
LEMMA JobRow ==
    ASSUME JobInv, JobNext
    PROVE  /\ row' \in SessionRow
           /\ \/ RowStill
              \/ stage = "admitted" /\ sup' = sup
              \/ RenewCommits
              \/ Tick
<1>1. row \in SessionRow
  BY DEF JobInv
<1>2. ASSUME UNCHANGED registryVars PROVE RowStill
  BY <1>1, <1>2, SameRow
<1>3. RowStill => row' \in SessionRow
  BY DEF RowStill
<1>4. CASE Startup
  <2>1. CASE Qualify \/ OpenPlatform \/ Admit \/ Supervise \/ StartSession
    BY <1>2, <1>3, <2>1 DEF Qualify, OpenPlatform, Admit, Supervise, StartSession
  <2>2. CASE Acquire
    <3>1. stage = "admitted" /\ sup' = sup
      BY <2>2 DEF Acquire
    <3>2. row' \in SessionRow
      BY <1>1, <2>2, RegisterTyped DEF Acquire, registryVars
    <3> QED BY <3>1, <3>2
  <2>3. CASE BindFails
    BY <1>1, <1>2, <1>3, <2>3, CloseInPlaceStill DEF BindFails
  <2>4. CASE Build
    BY <1>1, <1>2, <1>3, <2>4, ActivateStill DEF Build
  <2> QED BY <1>4, <2>1, <2>2, <2>3, <2>4 DEF Startup
<1>5. CASE Supervisor
  <2>1. CASE RenewCommits
    BY <1>1, <2>1, RenewTyped DEF RenewCommits
  <2>2. CASE RenewFails \/ RenewAnswered \/ Wake
    BY <1>2, <1>3, <2>2 DEF RenewFails, RenewAnswered, Wake
  <2> QED BY <1>5, <2>1, <2>2 DEF Supervisor
<1>6. CASE ReapFires \/ ShutdownFires \/ RoomLeft
  BY <1>2, <1>3, <1>6 DEF ReapFires, ShutdownFires, RoomLeft
<1>7. ASSUME BoundBegin \/ BeginRaises PROVE RowStill
  BY <1>1, <1>2, <1>7, BeginCloseStill DEF BoundBegin, BeginRaises
<1>8. ASSUME BoundFinalize \/ FinalizeRaises PROVE RowStill
  BY <1>1, <1>2, <1>8, CloseInPlaceStill, WorkerAssumption DEF BoundFinalize, FinalizeRaises
<1>9. CASE DirectClose
  BY <1>3, <1>7, <1>8, <1>9 DEF DirectClose
<1>10. ASSUME NEW a \in Tasks, Teardown(a) PROVE RowStill
  <2>1. CASE AskStop(a) \/ Stopped(a) \/ Enter(a) \/ Lock(a) \/ Quiesce(a) \/ Abandon(a)
               \/ Release(a)
    BY <1>2, <2>1 DEF AskStop, Stopped, Enter, Lock, Quiesce, Abandon, Release
  <2>2. CASE Begin(a)
    BY <1>2, <1>7, <2>2 DEF Begin, registryVars
  <2>3. CASE Complete(a)
    BY <1>2, <1>8, <2>3 DEF Complete, registryVars
  <2> QED BY <1>10, <2>1, <2>2, <2>3 DEF Teardown
<1>11. CASE Sweep
  BY <1>1, <1>3, <1>11, CloseInPlaceStill DEF Sweep
<1>12. CASE Purge
  BY <1>3, <1>12, PurgeStill DEF Purge
<1>13. CASE Tick
  BY <1>1, <1>13, TickTyped DEF Tick
<1> QED BY <1>3, <1>4, <1>5, <1>6, <1>9, <1>10, <1>11, <1>12, <1>13 DEF JobNext

(* The supervisor under a step of the job.                                  *)
SupKept ==
    /\ sup'.pc = sup.pc /\ sup'.left = sup.left
    /\ sup'.elapsed = sup.elapsed /\ sup'.granted = sup.granted

LEMMA ReportLossEnds ==
    ASSUME JobTypeOK, ReportLoss PROVE sup'.pc = "done"
BY DEF ReportLoss, JobTypeOK

LEMMA JobSup ==
    ASSUME JobInv, JobNext
    PROVE  \/ SupKept
           \/ sup'.pc \in {"renewing", "done"}
           \/ RenewCommits \/ RenewAnswered \/ Tick
<1>1. JobTypeOK
  BY DEF JobInv
<1>2. ASSUME sup' = sup PROVE SupKept
  BY <1>2 DEF SupKept
<1>3. CASE Startup
  <2>1. CASE Supervise
    BY <1>1, <1>2, <2>1 DEF Supervise, JobTypeOK
  <2> QED BY <1>2, <1>3, <2>1 DEF Startup, Qualify, OpenPlatform, Admit, Acquire, BindFails,
                                  Build, StartSession
<1>4. CASE RenewFails
  BY <1>1, <1>4, ReportLossEnds DEF RenewFails
<1>5. CASE Wake
  BY <1>1, <1>5 DEF Wake, JobTypeOK
<1>6. CASE ReapFires \/ ShutdownFires \/ RoomLeft \/ DirectClose \/ Sweep \/ Purge
  BY <1>2, <1>6 DEF ReapFires, ShutdownFires, RoomLeft, DirectClose, Sweep, Purge, jobVars
<1>7. ASSUME NEW a \in Tasks, Teardown(a) PROVE SupKept
  <2>1. CASE AskStop(a)
    BY <1>1, <2>1 DEF AskStop, SupKept, JobTypeOK
  <2> QED BY <1>2, <1>7, <2>1 DEF Teardown, Stopped, Enter, Lock, Begin, Quiesce, Complete,
                                  Abandon, Release
<1> QED BY <1>3, <1>4, <1>5, <1>6, <1>7 DEF JobNext, Supervisor

LEMMA StepLeaseKnown == ASSUME JobInv, JobNext, StagesInOrder' PROVE LeaseKnown'
<1>1. JobTypeOK /\ row \in SessionRow /\ LeaseKnown /\ row' \in SessionRow
  BY JobRow DEF JobInv
<1>2. /\ sup.elapsed \in Nat /\ sup.granted \in Int /\ sup.left \in Int
      /\ row.lease \in Int /\ row'.lease \in Int /\ Interval \in Int
  <2>1. sup.elapsed \in 0..MaxRequest /\ sup.granted \in Ticks /\ sup.left \in 0..Interval
    BY <1>1 DEF JobTypeOK
  <2>2. row.lease \in Ticks /\ row'.lease \in Ticks
    BY <1>1 DEF SessionRow
  <2>3. Ticks \subseteq Int /\ Interval \in Nat /\ MaxRequest \in Nat
    BY TicksAreInts
  <2>4. sup.elapsed \in Nat /\ sup.left \in Int /\ Interval \in Int
    BY <2>1, <2>3
  <2> QED BY <2>1, <2>2, <2>3, <2>4
<1>3. CASE sup'.pc \in {"renewing", "done"}
  BY <1>3 DEF LeaseKnown
<1>4. CASE RenewCommits
  <2>1. sup'.pc = "answered" /\ sup'.granted = row'.lease /\ sup'.elapsed = sup.elapsed
    BY <1>1, <1>4 DEF RenewCommits, JobTypeOK
  <2> QED BY <1>2, <2>1 DEF LeaseKnown, Remaining
<1>5. CASE RenewAnswered
  <2>1. row' = row /\ sup.pc = "answered"
    BY <1>5 DEF RenewAnswered, registryVars
  <2>2. CASE RenewalDelay <= 0
    <3>1. PICK n : n = RenewalDelay
      OBVIOUS
    <3>2. n \in Int
      <4>1. Remaining \in Int /\ Remaining - Interval \in Int
        BY <1>2 DEF Remaining
      <4>2. n \in {Interval, Remaining - Interval}
        BY <1>2, <3>1, <4>1, MinPair DEF RenewalDelay
      <4> QED BY <1>2, <4>1, <4>2
    <3>3. ~(n > 0)
      BY <2>2, <3>1, <3>2
    <3> QED BY <1>1, <1>3, <1>5, <3>1, <3>3, ReportLossEnds DEF RenewAnswered
  <2>3. CASE ~(RenewalDelay <= 0)
    <3>1. PICK n : n = RenewalDelay
      OBVIOUS
    <3>2. n \in Int /\ n <= Remaining - Interval /\ Remaining \in Int
      <4>1. Remaining \in Int /\ Remaining - Interval \in Int
        BY <1>2 DEF Remaining
      <4> QED BY <1>2, <3>1, <4>1, MinPair DEF RenewalDelay
    <3>3. sup' = [sup EXCEPT !.pc = IF sup.stop THEN "done" ELSE "sleeping",
                             !.left = IF sup.stop THEN 0 ELSE n,
                             !.elapsed = 0, !.granted = 0]
      BY <1>5, <2>3, <3>1 DEF RenewAnswered
    <3>4. sup'.pc # "answered" /\ (sup'.pc = "sleeping" => sup'.left = n)
      BY <1>1, <3>3 DEF JobTypeOK
    <3>5. ASSUME row'.owner = Worker, sup'.pc = "sleeping" PROVE row'.lease >= sup'.left + Interval
      BY <1>1, <1>2, <2>1, <3>2, <3>4, <3>5 DEF LeaseKnown
    <3> QED BY <3>4, <3>5 DEF LeaseKnown
  <2> QED BY <2>2, <2>3
<1>6. CASE Tick
  <2>1. row'.owner = row.owner /\ row'.lease >= row.lease - 1
    BY <1>1, <1>6, TickTyped DEF Tick
  <2>2. PICK n : n = Max({sup.left - 1, 0})
    OBVIOUS
  <2>3. n \in Int /\ (n = sup.left - 1 \/ n = 0)
    <3>1. sup.left - 1 \in Int /\ 0 \in Int
      BY <1>2
    <3>2. n \in {sup.left - 1, 0}
      BY <2>2, <3>1, MaxPair
    <3> QED BY <3>1, <3>2
  <2>4. sup' = [sup EXCEPT
                  !.elapsed = IF sup.pc \in {"renewing", "answered"} THEN sup.elapsed + 1 ELSE sup.elapsed,
                  !.left = n]
    BY <1>6, <2>2 DEF Tick
  <2>5. /\ sup'.pc = sup.pc /\ sup'.granted = sup.granted /\ sup'.left = n
        /\ sup.pc = "answered" => sup'.elapsed = sup.elapsed + 1
    BY <1>1, <2>4 DEF JobTypeOK
  <2>6. ASSUME row'.owner = Worker, sup'.pc = "answered" PROVE row'.lease >= Remaining'
    BY <1>1, <1>2, <2>1, <2>5, <2>6 DEF LeaseKnown, Remaining
  <2>7. ASSUME row'.owner = Worker, sup'.pc = "sleeping", sup'.left > 0
        PROVE  row'.lease >= sup'.left + Interval
    BY <1>1, <1>2, <2>1, <2>3, <2>5, <2>7 DEF LeaseKnown
  <2> QED BY <2>6, <2>7 DEF LeaseKnown
<1>7. CASE RowStill /\ SupKept
  BY <1>1, <1>7 DEF RowStill, SupKept, LeaseKnown, Remaining
<1>8. CASE stage = "admitted" /\ sup' = sup
  <2>1. sup.pc = "off"
    BY <1>8 DEF JobInv, StagesInOrder, Registered
  <2> QED BY <1>8, <2>1 DEF LeaseKnown
<1> QED BY <1>3, <1>4, <1>5, <1>6, <1>7, <1>8, JobRow, JobSup

-----------------------------------------------------------------------------
LEMMA FaultTyped ==
    ASSUME faults \in 0..MaxFaults, Fault \/ NoFault PROVE faults' \in 0..MaxFaults
BY IntervalAssumption DEF Fault, NoFault

(* Every task stays on its steps.                                           *)
LEMMA JobAt ==
    ASSUME JobTypeOK, JobNext
    PROVE  \/ at' = at
           \/ \E a \in Tasks, s \in Steps : at' = [at EXCEPT ![a] = s]
<1>1. ASSUME NEW a \in Tasks, NEW s, s \in Steps, Moves(a, s)
      PROVE  \E b \in Tasks, r \in Steps : at' = [at EXCEPT ![b] = r]
  BY <1>1 DEF Moves
<1>2. ASSUME StartupFails PROVE \E a \in Tasks, s \in Steps : at' = [at EXCEPT ![a] = s]
  <2>1. PICK s : s = IF ~Leased THEN "idle" ELSE IF Registered THEN "stop"
                     ELSE IF stage = "acquired" THEN "direct" ELSE "release"
    OBVIOUS
  <2>2. at' = [at EXCEPT !["cleanup"] = s]
    BY <1>2, <2>1 DEF StartupFails
  <2>3. s \in Steps /\ "cleanup" \in Tasks
    BY <2>1 DEF Steps, Tasks
  <2> QED BY <2>2, <2>3
<1>3. CASE Startup
  <2>1. CASE BindFails
    BY <2>1 DEF BindFails, Tasks, Steps
  <2> QED BY <1>2, <1>3, <2>1 DEF Startup, Qualify, OpenPlatform, Admit, Acquire, Build,
                                  Supervise, StartSession
<1>4. CASE Supervisor
  BY <1>4 DEF Supervisor, RenewCommits, RenewFails, RenewAnswered, ReportLoss, Wake, Tasks, Steps
<1>5. CASE ReapFires \/ ShutdownFires \/ RoomLeft \/ DirectClose
  BY <1>5 DEF ReapFires, ShutdownFires, RoomLeft, DirectClose, Moves, Tasks, Steps
<1>6. ASSUME NEW a \in Tasks, Teardown(a)
      PROVE  at' = at \/ \E s \in Steps : at' = [at EXCEPT ![a] = s]
  <2>1. Onward(a) \in Steps
    BY DEF Onward, Steps
  <2>2. CASE AskStop(a)
    BY <2>2 DEF AskStop
  <2>3. CASE Stopped(a) \/ Enter(a)
    BY <2>3 DEF Stopped, Enter, Moves, Steps
  <2>4. CASE Lock(a)
    BY <2>1, <2>4 DEF Lock, Moves, Steps
  <2>5. CASE Begin(a) \/ Quiesce(a) \/ Complete(a) \/ Abandon(a) \/ Release(a)
    BY <2>1, <2>5 DEF Begin, Quiesce, Complete, Abandon, Release, Moves, Steps
  <2> QED BY <1>6, <2>2, <2>3, <2>4, <2>5 DEF Teardown
<1>7. CASE Sweep \/ Purge \/ Tick
  BY <1>7 DEF Sweep, Purge, Tick, jobVars
<1> QED BY <1>3, <1>4, <1>5, <1>6, <1>7 DEF JobNext

(* The supervisor stays within its intervals and time limits.               *)
LEMMA JobSupTyped == ASSUME JobInv, JobNext PROVE sup' \in
    [pc : {"off", "renewing", "answered", "sleeping", "done"}, stop : BOOLEAN,
     elapsed : 0..MaxRequest, granted : Ticks, left : 0..Interval]
<1> DEFINE S == [pc : {"off", "renewing", "answered", "sleeping", "done"}, stop : BOOLEAN,
                 elapsed : 0..MaxRequest, granted : Ticks, left : 0..Interval]
<1>1. sup \in S /\ row \in SessionRow
  BY DEF JobInv, JobTypeOK
<1>2. 0 \in Ticks /\ 0 \in 0..MaxRequest /\ 0 \in 0..Interval
  BY TicksAreInts
<1>3. ASSUME ReportLoss PROVE sup' \in S
  BY <1>1, <1>2, <1>3 DEF ReportLoss
<1>4. CASE Startup
  BY <1>1, <1>4 DEF Startup, Qualify, OpenPlatform, Admit, Acquire, BindFails, Build,
                    Supervise, StartSession
<1>5. CASE RenewCommits
  <2>1. row'.lease \in Ticks
    BY <1>1, <1>5, RenewTyped DEF RenewCommits
  <2> QED BY <1>1, <1>5, <2>1 DEF RenewCommits
<1>6. CASE RenewFails
  BY <1>3, <1>6 DEF RenewFails
<1>7. CASE RenewAnswered
  <2>1. CASE ReportLoss
    BY <1>3, <2>1
  <2>2. CASE ~ReportLoss
    <3>1. PICK n : n = RenewalDelay
      OBVIOUS
    <3>2. Interval \in Int /\ Remaining - Interval \in Int
      <4>1. sup.elapsed \in 0..MaxRequest /\ sup.granted \in Ticks
        BY <1>1
      <4>2. sup.elapsed \in Int
        BY <4>1, TicksAreInts
      <4>3. sup.granted \in Int
        BY <4>1, TicksAreInts
      <4> QED BY <4>2, <4>3, TicksAreInts DEF Remaining
    <3>3. n \in {Interval, Remaining - Interval} /\ n <= Interval
      BY <3>1, <3>2, MinPair DEF RenewalDelay
    <3>4. n > 0
      BY <1>7, <2>2, <3>1 DEF RenewAnswered
    <3>5. n \in 0..Interval
      BY <3>2, <3>3, <3>4
    <3>6. sup' = [sup EXCEPT !.pc = IF sup.stop THEN "done" ELSE "sleeping",
                             !.left = IF sup.stop THEN 0 ELSE n,
                             !.elapsed = 0, !.granted = 0]
      BY <1>7, <2>2, <3>1 DEF RenewAnswered
    <3> QED BY <1>1, <1>2, <3>5, <3>6
  <2> QED BY <2>1, <2>2
<1>8. CASE Wake
  BY <1>1, <1>2, <1>8 DEF Wake
<1>9. CASE ReapFires \/ ShutdownFires \/ RoomLeft \/ DirectClose \/ Sweep \/ Purge
  BY <1>1, <1>9 DEF ReapFires, ShutdownFires, RoomLeft, DirectClose, Sweep, Purge, jobVars
<1>10. ASSUME NEW a \in Tasks, Teardown(a) PROVE sup' \in S
  <2>1. CASE AskStop(a)
    BY <1>1, <2>1 DEF AskStop
  <2> QED BY <1>1, <1>10, <2>1 DEF Teardown, Stopped, Enter, Lock, Begin, Quiesce, Complete,
                                   Abandon, Release
<1>11. CASE Tick
  <2>1. PICK n : n = Max({sup.left - 1, 0})
    OBVIOUS
  <2>2. PICK m : m = IF sup.pc \in {"renewing", "answered"} THEN sup.elapsed + 1 ELSE sup.elapsed
    OBVIOUS
  <2>3. sup.left \in 0..Interval /\ sup.elapsed \in 0..MaxRequest
    BY <1>1
  <2>4. n \in 0..Interval
    <3>1. sup.left - 1 \in Int /\ 0 \in Int
      BY <2>3, TicksAreInts
    <3>2. n \in {sup.left - 1, 0} /\ n >= 0
      BY <2>1, <3>1, MaxPair
    <3> QED BY <2>3, <3>2, TicksAreInts
  <2>5. m \in 0..MaxRequest
    <3>1. sup.pc \in {"renewing", "answered"} => sup.elapsed < MaxRequest
      BY <1>11 DEF Tick
    <3> QED BY <2>2, <2>3, <3>1, TicksAreInts
  <2>6. sup' = [sup EXCEPT !.elapsed = m, !.left = n]
    BY <1>11, <2>1, <2>2 DEF Tick
  <2> QED BY <1>1, <2>4, <2>5, <2>6
<1> QED BY <1>4, <1>5, <1>6, <1>7, <1>8, <1>9, <1>10, <1>11 DEF JobNext, Supervisor

LEMMA JobCtx ==
    ASSUME JobTypeOK, JobNext
    PROVE  ctx' \in [lost : BOOLEAN, closed : BOOLEAN, holder : Tasks \cup {NONE}]
<1>1. ctx \in [lost : BOOLEAN, closed : BOOLEAN, holder : Tasks \cup {NONE}]
  BY DEF JobTypeOK
<1>2. CASE Startup
  BY <1>1, <1>2 DEF Startup, Qualify, OpenPlatform, Admit, Acquire, BindFails, Build,
                    Supervise, StartSession
<1>3. CASE Supervisor
  BY <1>1, <1>3 DEF Supervisor, RenewCommits, RenewFails, RenewAnswered, ReportLoss, Wake
<1>4. CASE ReapFires \/ ShutdownFires \/ RoomLeft \/ DirectClose \/ Sweep \/ Purge \/ Tick
  BY <1>1, <1>4 DEF ReapFires, ShutdownFires, RoomLeft, DirectClose, Sweep, Purge, Tick, jobVars
<1>5. ASSUME NEW a \in Tasks, Teardown(a)
      PROVE  ctx' \in [lost : BOOLEAN, closed : BOOLEAN, holder : Tasks \cup {NONE}]
  <2>1. CASE AskStop(a) \/ Stopped(a) \/ Enter(a) \/ Release(a)
    BY <1>1, <2>1 DEF AskStop, Stopped, Enter, Release
  <2>2. CASE Lock(a)
    <3>1. PICK b : b = (ctx.lost \/ at[a] = "abandon")
      OBVIOUS
    <3>2. b \in BOOLEAN
      BY <1>1, <3>1
    <3>3. ctx' = [ctx EXCEPT !.lost = b] \/ ctx' = [ctx EXCEPT !.holder = a, !.lost = b]
      BY <2>2, <3>1 DEF Lock
    <3> QED BY <1>1, <3>2, <3>3
  <2>3. CASE Begin(a) \/ Quiesce(a) \/ Complete(a) \/ Abandon(a)
    BY <1>1, <2>3 DEF Begin, Quiesce, Complete, Abandon, Unlocked, Closed
  <2> QED BY <1>5, <2>1, <2>2, <2>3 DEF Teardown
<1> QED BY <1>2, <1>3, <1>4, <1>5 DEF JobNext

LEMMA JobRest ==
    ASSUME JobTypeOK, JobNext
    PROVE  /\ kind' = kind /\ stage' \in Stages
           /\ claim' \in {NONE, "held", "finalized"}
           /\ pool' \in [state : {"unopened", "open", "drained", "stuck"},
                         closed : BOOLEAN, failure : BOOLEAN]
           /\ outcome' \in [Releasers -> {"none", "clean", "raised"}]
           /\ Fault \/ NoFault
<1>1. /\ stage \in Stages /\ claim \in {NONE, "held", "finalized"}
      /\ pool \in [state : {"unopened", "open", "drained", "stuck"},
                   closed : BOOLEAN, failure : BOOLEAN]
      /\ outcome \in [Releasers -> {"none", "clean", "raised"}]
  BY DEF JobTypeOK
<1>2. CASE Startup
  BY <1>1, <1>2 DEF Startup, Qualify, OpenPlatform, Admit, Acquire, BindFails, Build,
                    Supervise, StartSession, StartupFails, NoFault, Stages
<1>3. CASE Supervisor
  BY <1>1, <1>3 DEF Supervisor, RenewCommits, RenewFails, RenewAnswered, Wake, NoFault
<1>4. CASE ReapFires \/ ShutdownFires \/ RoomLeft \/ Sweep \/ Purge \/ Tick
  BY <1>1, <1>4 DEF ReapFires, ShutdownFires, RoomLeft, Sweep, Purge, Tick, jobVars, NoFault
<1>5. CASE DirectClose
  BY <1>1, <1>5 DEF DirectClose, BoundBegin, BeginRaises, BoundFinalize, FinalizeRaises, NoFault
<1>6. ASSUME NEW a \in Tasks, Teardown(a)
      PROVE  /\ kind' = kind /\ stage' \in Stages
             /\ claim' \in {NONE, "held", "finalized"}
             /\ pool' \in [state : {"unopened", "open", "drained", "stuck"},
                           closed : BOOLEAN, failure : BOOLEAN]
             /\ outcome' \in [Releasers -> {"none", "clean", "raised"}]
             /\ Fault \/ NoFault
  <2>1. CASE AskStop(a) \/ Stopped(a) \/ Enter(a) \/ Lock(a) \/ Quiesce(a) \/ Abandon(a)
    BY <1>1, <2>1 DEF AskStop, Stopped, Enter, Lock, Quiesce, Abandon, NoFault
  <2>2. CASE Begin(a)
    BY <1>1, <2>2 DEF Begin, BoundBegin, BeginRaises, NoFault
  <2>3. CASE Complete(a)
    BY <1>1, <2>3 DEF Complete, BoundFinalize, FinalizeRaises, NoFault
  <2>4. CASE Release(a)
    BY <1>1, <2>4 DEF Release, NoFault
  <2> QED BY <1>6, <2>1, <2>2, <2>3, <2>4 DEF Teardown
<1> QED BY <1>2, <1>3, <1>4, <1>5, <1>6 DEF JobNext

LEMMA StepJobTypeOK == ASSUME JobInv, JobNext PROVE JobTypeOK'
<1>1. JobTypeOK
  BY DEF JobInv
<1>2. at' \in [Tasks -> Steps]
  BY <1>1, JobAt DEF JobTypeOK
<1>3. faults' \in 0..MaxFaults
  BY <1>1, JobRest, FaultTyped DEF JobTypeOK
<1> QED BY <1>1, <1>2, <1>3, JobSupTyped, JobCtx, JobRest DEF JobTypeOK

-----------------------------------------------------------------------------
LEMMA StepStagesInOrder == ASSUME JobInv, JobNext PROVE StagesInOrder'
<1>1. JobTypeOK /\ StagesInOrder
  BY DEF JobInv
<1>2. CASE Startup
  <2>1. CASE Qualify \/ OpenPlatform
    BY <1>1, <2>1 DEF Qualify, OpenPlatform, StagesInOrder, Registered, JobTypeOK, Tasks
  <2>2. ASSUME StartupFails PROVE stage' \in {"failed", "aborted"}
                                  /\ (Registered => stage' = "aborted")
    BY <2>2 DEF StartupFails
  <2>3. CASE Admit \/ Acquire \/ Build
    <3>1. /\ stage' \notin {"received", "qualified"} /\ sup' = sup
          /\ stage \in {"opened", "qualified", "admitted", "acquired"}
      BY <2>2, <2>3 DEF Admit, Acquire, Build
    <3> QED BY <1>1, <3>1 DEF StagesInOrder, Registered
  <2>4. CASE BindFails
    BY <1>1, <2>4 DEF BindFails, StagesInOrder, Registered
  <2>5. CASE Supervise
    BY <1>1, <2>5 DEF Supervise, StagesInOrder, Registered
  <2>6. CASE StartSession
    BY <1>1, <2>2, <2>6 DEF StartSession, StagesInOrder, Registered
  <2> QED BY <1>2, <2>1, <2>3, <2>4, <2>5, <2>6 DEF Startup
<1>3. CASE Supervisor
  <2>1. Registered /\ stage' = stage
    <3>1. sup.pc # "off"
      BY <1>3 DEF Supervisor, RenewCommits, RenewFails, RenewAnswered, Wake
    <3> QED BY <1>1, <1>3, <3>1 DEF StagesInOrder, Supervisor, RenewCommits, RenewFails,
                                    RenewAnswered, Wake
  <2> QED BY <2>1 DEF StagesInOrder, Registered
<1>4. CASE ReapFires \/ ShutdownFires
  BY <1>1, <1>4 DEF ReapFires, ShutdownFires, StagesInOrder, Registered
<1>5. CASE RoomLeft \/ DirectClose
  BY <1>1, <1>5 DEF RoomLeft, DirectClose, StagesInOrder, Registered, Tasks
<1>6. ASSUME NEW a \in Tasks, Teardown(a) PROVE StagesInOrder'
  <2>1. at[a] # "idle" /\ stage' = stage
    BY <1>6 DEF Teardown, AskStop, Stopped, Enter, Lock, Begin, Quiesce, Complete, Abandon,
                Release
  <2>2. stage' \notin {"received", "qualified"}
    BY <1>1, <2>1 DEF StagesInOrder
  <2>3. sup'.pc = sup.pc
    <3>1. CASE AskStop(a)
      BY <1>1, <3>1 DEF AskStop, JobTypeOK
    <3> QED BY <1>6, <3>1 DEF Teardown, Stopped, Enter, Lock, Begin, Quiesce, Complete,
                              Abandon, Release
  <2> QED BY <1>1, <2>1, <2>2, <2>3 DEF StagesInOrder, Registered
<1>7. CASE Sweep \/ Purge
  BY <1>1, <1>7 DEF Sweep, Purge, jobVars, StagesInOrder, Registered
<1>8. CASE Tick
  <2>1. sup'.pc = sup.pc
    BY <1>1, <1>8 DEF Tick, JobTypeOK
  <2> QED BY <1>1, <1>8, <2>1 DEF Tick, StagesInOrder, Registered
<1> QED BY <1>2, <1>3, <1>4, <1>5, <1>6, <1>7, <1>8 DEF JobNext

(* A step takes a task out of the close, moves the holder of the lock on    *)
(* inside it, or lets one in that finds the lock free.                      *)
LEMMA StepHolderKnown == ASSUME JobInv, JobNext PROVE HolderKnown'
<1>1. JobTypeOK /\ HolderKnown /\ at \in [Tasks -> Steps]
  BY DEF JobInv, JobTypeOK
<1>2. /\ ctx \in [lost : BOOLEAN, closed : BOOLEAN, holder : Tasks \cup {NONE}]
      /\ {"retire", "reap", "shutdown", "cleanup"} \subseteq Tasks
  BY <1>1 DEF JobTypeOK, Tasks
<1>3. ASSUME at' = at \/ \E a \in Tasks, s \in Steps \ Inside : at' = [at EXCEPT ![a] = s],
             ctx'.holder = ctx.holder, ctx'.closed = ctx.closed
      PROVE  HolderKnown'
  BY <1>1, <1>3 DEF HolderKnown
<1>4. ASSUME NEW s, s \in {"idle", "stop", "enter", "lock", "disconnect", "abandon", "direct",
                           "release", "done"}
      PROVE  s \in Steps \ Inside
  BY <1>4 DEF Steps, Inside
<1>5. ASSUME StartupFails, ctx' = ctx PROVE HolderKnown'
  <2>1. PICK s : s = IF ~Leased THEN "idle" ELSE IF Registered THEN "stop"
                     ELSE IF stage = "acquired" THEN "direct" ELSE "release"
    OBVIOUS
  <2>2. at' = [at EXCEPT !["cleanup"] = s]
    BY <1>5, <2>1 DEF StartupFails
  <2>3. s \in Steps \ Inside
    BY <1>4, <2>1
  <2> QED BY <1>2, <1>3, <1>5, <2>2, <2>3
<1>6. CASE Startup
  <2>1. CASE BindFails
    BY <1>2, <1>3, <1>4, <2>1 DEF BindFails
  <2> QED BY <1>3, <1>5, <1>6, <2>1 DEF Startup, Qualify, OpenPlatform, Admit, Acquire, Build,
                                        Supervise, StartSession
<1>7. CASE Supervisor
  <2>1. ASSUME ReportLoss PROVE HolderKnown'
    <3>1. at' = [at EXCEPT !["retire"] = "disconnect"] /\ ctx' = [ctx EXCEPT !.lost = TRUE]
      BY <2>1 DEF ReportLoss
    <3> QED BY <1>2, <1>3, <1>4, <3>1
  <2> QED BY <1>3, <1>7, <2>1 DEF Supervisor, RenewCommits, RenewFails, RenewAnswered, Wake
<1>8. CASE ReapFires \/ ShutdownFires \/ RoomLeft \/ DirectClose
  BY <1>2, <1>3, <1>4, <1>8 DEF ReapFires, ShutdownFires, RoomLeft, DirectClose, Moves
<1>9. CASE Sweep \/ Purge \/ Tick
  BY <1>3, <1>9 DEF Sweep, Purge, Tick, jobVars
<1>10. ASSUME NEW a \in Tasks, Teardown(a) PROVE HolderKnown'
  <2>1. Onward(a) \in Steps \ Inside
    BY <1>4 DEF Onward
  <2>2. ASSUME at[a] \in Inside, NEW s \in Steps, Moves(a, s),
               \/ s \notin Inside
               \/ ctx' = ctx
        PROVE  HolderKnown'
    <3>1. ctx.holder = a /\ \A b \in Tasks \ {a} : at[b] \notin Inside
      BY <1>1, <2>2 DEF HolderKnown
    <3> QED BY <1>1, <2>2, <3>1 DEF HolderKnown, Moves
  <2>3. {"begin", "quiesce", "finalize", "discard"} \subseteq Inside \cap Steps
    BY DEF Inside, Steps
  <2>4. CASE AskStop(a)
    BY <1>3, <2>4 DEF AskStop
  <2>5. CASE Stopped(a) \/ Enter(a)
    BY <1>3, <1>4, <2>5 DEF Stopped, Enter, Moves
  <2>6. CASE Lock(a)
    <3>1. PICK l : l = (ctx.lost \/ at[a] = "abandon")
      OBVIOUS
    <3>2. CASE /\ Moves(a, Onward(a)) /\ ctx' = [ctx EXCEPT !.lost = l]
      BY <1>2, <1>3, <2>1, <3>2 DEF Moves
    <3>3. CASE /\ ~ctx.closed
               /\ Moves(a, IF at[a] = "abandon" THEN "discard" ELSE "begin")
               /\ ctx' = [ctx EXCEPT !.holder = a, !.lost = l]
      <4>1. ctx.holder = NONE
        BY <2>6 DEF Lock
      <4>2. \A b \in Tasks \ {a} : at'[b] \notin Inside
        BY <1>1, <3>3, <4>1, HolderAssumption DEF HolderKnown, Moves
      <4>3. ctx'.holder = a /\ ~ctx'.closed
        BY <1>2, <3>3
      <4> QED BY <4>2, <4>3 DEF HolderKnown
    <3> QED BY <2>6, <3>1, <3>2, <3>3 DEF Lock
  <2>7. CASE Begin(a) \/ Quiesce(a) \/ Complete(a) \/ Abandon(a)
    BY <2>1, <2>2, <2>3, <2>7 DEF Begin, Quiesce, Complete, Abandon
  <2>8. CASE Release(a)
    BY <1>3, <1>4, <2>8 DEF Release, Moves
  <2> QED BY <1>10, <2>4, <2>5, <2>6, <2>7, <2>8 DEF Teardown
<1> QED BY <1>6, <1>7, <1>8, <1>9, <1>10 DEF JobNext

(* Nothing but a release marks the pool closed, and it stays so.            *)
LEMMA StepPoolKnown == ASSUME JobInv, JobNext PROVE PoolKnown'
<1>1. JobTypeOK /\ PoolKnown /\ StagesInOrder
  BY DEF JobInv
<1>2. /\ pool \in [state : {"unopened", "open", "drained", "stuck"},
                   closed : BOOLEAN, failure : BOOLEAN]
      /\ outcome \in [Releasers -> {"none", "clean", "raised"}]
  BY <1>1 DEF JobTypeOK
<1>3. ASSUME pool' = pool, outcome' = outcome, kind' = kind PROVE PoolKnown'
  BY <1>1, <1>3 DEF PoolKnown, Leased
<1>4. CASE OpenPlatform
  <2>1. ~pool.closed /\ pool'.closed = pool.closed /\ outcome' = outcome /\ kind' = kind
    BY <1>1, <1>2, <1>4 DEF OpenPlatform, StagesInOrder
  <2> QED BY <1>1, <2>1 DEF PoolKnown, Leased
<1>5. CASE Startup
  BY <1>3, <1>4, <1>5 DEF Startup, Qualify, Admit, Acquire, BindFails, Build, Supervise,
                          StartSession
<1>6. CASE Supervisor
  BY <1>3, <1>6 DEF Supervisor, RenewCommits, RenewFails, RenewAnswered, Wake
<1>7. CASE ReapFires \/ ShutdownFires \/ RoomLeft \/ DirectClose \/ Sweep \/ Purge \/ Tick
  BY <1>3, <1>7 DEF ReapFires, ShutdownFires, RoomLeft, DirectClose, Sweep, Purge, Tick, jobVars
<1>8. ASSUME NEW a \in Tasks, Release(a) PROVE PoolKnown'
  <2>1. kind' = kind
    BY <1>8 DEF Release
  <2>2. CASE ~Leased
    BY <1>1, <1>8, <2>1, <2>2 DEF Release, PoolKnown, Leased
  <2>3. CASE Leased /\ pool.closed
    BY <1>1, <1>8, <2>1, <2>3 DEF Release, PoolKnown, Leased
  <2>4. CASE Leased /\ ~pool.closed
    <3>1. \A b \in Releasers : outcome[b] # "clean"
      BY <1>1, <2>4 DEF PoolKnown
    <3>2. CASE /\ pool' = [pool EXCEPT !.state = "drained", !.closed = TRUE]
      BY <1>2, <3>2 DEF PoolKnown
    <3>3. CASE /\ pool' = pool \/ pool' = [pool EXCEPT !.state = "stuck", !.failure = TRUE]
               /\ outcome' = [outcome EXCEPT ![a] = "raised"]
      BY <1>2, <2>4, <3>1, <3>3 DEF PoolKnown
    <3> QED BY <1>8, <2>4, <3>2, <3>3 DEF Release
  <2> QED BY <2>2, <2>3, <2>4
<1>9. ASSUME NEW a \in Tasks, Teardown(a) PROVE PoolKnown'
  BY <1>3, <1>8, <1>9 DEF Teardown, AskStop, Stopped, Enter, Lock, Begin, Quiesce, Complete,
                          Abandon
<1> QED BY <1>5, <1>6, <1>7, <1>9 DEF JobNext

LEMMA InitJobInv == VoiceCallInit => JobInv
<1> SUFFICES ASSUME VoiceCallInit PROVE JobInv
  OBVIOUS
<1>1. JobInit
  BY DEF VoiceCallInit
<1>2. row = NoRow /\ row \in SessionRow /\ row.owner = NONE
  BY <1>1, NoRowTyped DEF JobInit, RegistryInit, NoRow
<1>3. JobTypeOK
  BY <1>1, TicksAreInts, IntervalAssumption DEF JobInit, JobTypeOK, Stages, Steps
<1>4. StagesInOrder /\ LeaseKnown
  BY <1>1, TicksAreInts DEF JobInit, StagesInOrder, LeaseKnown, Registered
<1>5. HolderKnown /\ PoolKnown
  BY <1>1 DEF JobInit, HolderKnown, PoolKnown, Inside
<1> QED BY <1>2, <1>3, <1>4, <1>5 DEF JobInv

LEMMA StutterJobInv == JobInv /\ UNCHANGED voiceVars => JobInv'
BY DEF voiceVars, registryVars, jobVars, JobInv, JobTypeOK, StagesInOrder, Registered,
       LeaseKnown, Remaining, HolderKnown, PoolKnown, Leased

LEMMA JobInvariance == VoiceCallSpec => []JobInv
<1>1. JobInv /\ [VoiceCallNext]_voiceCallVars => JobInv'
  <2>1. ASSUME JobInv, JobNext PROVE JobInv'
    <3>1. StagesInOrder'
      BY <2>1, StepStagesInOrder
    <3> QED BY <2>1, <3>1, StepJobTypeOK, JobRow, StepLeaseKnown, StepHolderKnown, StepPoolKnown
            DEF JobInv
  <2> QED BY <2>1, StutterJobInv DEF VoiceCallNext, voiceCallVars
<1> QED BY <1>1, InitJobInv, PTL DEF VoiceCallSpec

(* The state of a job always has its type: in particular a renewal never    *)
(* outlasts the time limit of a registry call nor sleeps longer than the    *)
(* renewal interval (SessionLeaseSupervisor._run).                          *)
THEOREM JobTypeCorrect == VoiceCallSpec => []JobTypeOK
<1>1. JobInv => JobTypeOK
  BY DEF JobInv
<1> QED BY <1>1, JobInvariance, PTL

(* While the supervisor sleeps, a whole interval of the lease is left for   *)
(* the renewal it will make, for every lease, interval and time limit       *)
(* (session_lease.py, _run).                                                *)
THEOREM SleeperAlwaysHoldsLease == VoiceCallSpec => []SleeperHoldsLease
<1>1. JobInv => SleeperHoldsLease
  BY DEF JobInv, LeaseKnown, SleeperHoldsLease
<1> QED BY <1>1, JobInvariance, PTL

(* Whichever of the four tasks tear a call down together, a context that    *)
(* is called closed is left alone, and a release reported as clean has      *)
(* drained the pool (session.py, aclose_session; platform_runtime.py,       *)
(* aclose).                                                                 *)
THEOREM ReportsAlwaysTrue == VoiceCallSpec => []ReportsAreTrue
<1>1. JobInv => ReportsAreTrue
  BY DEF JobInv, HolderKnown, PoolKnown, Inside, ReportsAreTrue, ClosedContextIsSettled,
         CleanReportIsTrue
<1> QED BY <1>1, JobInvariance, PTL
=============================================================================
