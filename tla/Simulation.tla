----------------------------- MODULE Simulation ------------------------------
(***************************************************************************)
(* The text simulator of the workbench (management/simulation.py,          *)
(* PublishedMerchantSimulator): HTTP requests start, use, reset and close  *)
(* sessions kept in a table, while the application shuts the table down.   *)
(*                                                                         *)
(* Requests are tasks of one event loop and interleave at each await; an   *)
(* action ends at one.  The lock of the table is taken and given back      *)
(* within a step, except where a refused session is closed under it        *)
(* (guard).  A session is one application built over a publication, which  *)
(* stays the same for its life; what a turn does inside is TurnRouting's   *)
(* subject and how a session closes CallerContext's: here a turn answers   *)
(* or raises, and a close succeeds or raises.  status and inspect_state    *)
(* only read, under the session's lock, and are left out.                  *)
(***************************************************************************)
EXTENDS Naturals, FiniteSets

CONSTANTS
    Clients,       \* tasks that serve a request
    Simulations,   \* the keys of the table: a tenant and a simulation id
    TurnIds,       \* request ids of turns
    MaxBuilt,      \* bound on the sessions built (model bound)
    MaxTurns,      \* max_turns of a simulation
    MaxTrouble     \* bound on builds, turns and closes that raise (model bound)

ASSUME SimulationAssumption ==
    /\ MaxBuilt \in Nat /\ MaxTurns \in Nat \ {0} /\ MaxTrouble \in Nat
    /\ Clients \cap {"free", "shutdown"} = {}

VARIABLES
    table,     \* _sessions: the session under each key, 0 for none
    session,   \* the sessions built so far
    client,    \* where each request is, for which key and session
    guard,     \* who keeps the lock of the table across an await
    shutdown,  \* aclose: not begun, or the sessions it still has to close
    trouble

simVars == <<table, session, client, guard, shutdown, trouble>>

Built == 1..MaxBuilt
Unbuilt == [state |-> "unbuilt", lock |-> "free", turns |-> 0, answered |-> {}]
(* Session i of s after its close: nobody reads its turns any more.         *)
Over(s, i, state) == [s EXCEPT ![i] = [Unbuilt EXCEPT !.state = state, !.lock = s[i].lock]]
NoRequest == [at |-> "idle", op |-> "none", key |-> "none", id |-> 0, new |-> 0, turn |-> "none"]

SimulationInit ==
    /\ table = [k \in Simulations |-> 0]
    /\ session = [i \in Built |-> Unbuilt]
    /\ client = [c \in Clients |-> NoRequest]
    /\ guard = "free"
    /\ shutdown = [begun |-> FALSE, left |-> {}]
    /\ trouble = 0

-----------------------------------------------------------------------------
(* A request leaves: every exit gives back the session's lock, if held.     *)
Unlocked(s, c) == [i \in Built |-> IF s[i].lock = c THEN [s[i] EXCEPT !.lock = "free"] ELSE s[i]]
Leave(c, s) ==
    /\ client' = [client EXCEPT ![c] = NoRequest]
    /\ session' = Unlocked(s, c)

Goes(c, at) == client' = [client EXCEPT ![c].at = at]

Raises == trouble < MaxTrouble /\ trouble' = trouble + 1

(* start refuses when the simulator is closed or the key is in use; only    *)
(* then does it load the publication and build the session.                 *)
StartSimulation(c, k) ==
    /\ client[c].at = "idle" /\ guard = "free"
    /\ ~shutdown.begun /\ table[k] = 0
    /\ client' = [client EXCEPT ![c] = [NoRequest EXCEPT !.at = "build", !.op = "start", !.key = k]]
    /\ UNCHANGED <<table, session, guard, shutdown, trouble>>

(* _load_version and _build, also of the replacement in reset.              *)
BuildSession(c) ==
    /\ client[c].at = "build"
    /\ \E i \in Built :
         /\ session[i].state = "unbuilt" /\ \A j \in Built : j < i => session[j].state # "unbuilt"
         /\ session' = [session EXCEPT ![i].state = "open"]
         /\ client' = [client EXCEPT ![c].at = "install", ![c].new = i]
    /\ UNCHANGED <<table, guard, shutdown, trouble>>

BuildRaises(c) ==
    /\ client[c].at = "build" /\ Raises
    /\ Leave(c, session)
    /\ UNCHANGED <<table, guard, shutdown>>

(* Mutant: the second look misses that the simulator was closed meanwhile.  *)
FreeWhileOpen(k) == table[k] = 0

(* The key may have been taken, and the simulator closed, while the session *)
(* was built.                                                               *)
StillFree(k) == ~shutdown.begun /\ table[k] = 0

Install(c) ==
    LET k == client[c].key IN
    /\ client[c].at = "install" /\ guard = "free"
    /\ \/ /\ StillFree(k)
          /\ table' = [table EXCEPT ![k] = client[c].new]
          /\ Leave(c, session) /\ guard' = guard
       \/ /\ ~StillFree(k)
          /\ guard' = c
          /\ client' = [client EXCEPT ![c].at = "undo"]
          /\ session' = [session EXCEPT ![client[c].new].state = "closing"]
          /\ table' = table
    /\ UNCHANGED <<shutdown, trouble>>

(* The refused session is closed inside the lock of the table.              *)
Undo(c) ==
    /\ client[c].at = "undo"
    /\ \/ Leave(c, Over(session, client[c].new, "closed")) /\ trouble' = trouble
       \/ Raises /\ Leave(c, Over(session, client[c].new, "failed"))
    /\ guard' = "free"
    /\ UNCHANGED <<table, shutdown>>

-----------------------------------------------------------------------------
(* _require_open: turn, reset and close find their session in the table and *)
(* then wait for its lock.                                                  *)
RequireOpen(c, k, op, q) ==
    /\ client[c].at = "idle" /\ guard = "free" /\ table[k] # 0
    /\ client' = [client EXCEPT ![c] =
         [NoRequest EXCEPT !.at = "lock", !.op = op, !.key = k, !.id = table[k], !.turn = q]]
    /\ UNCHANGED <<table, session, guard, shutdown, trouble>>

TakeSessionLock(c) ==
    /\ client[c].at = "lock" /\ session[client[c].id].lock = "free"
    /\ session' = [session EXCEPT ![client[c].id].lock = c]
    /\ Goes(c, "check")
    /\ UNCHANGED <<table, guard, shutdown, trouble>>

(* Mutant: the session found before the wait is taken as it is.             *)
StaleIsCurrent(c) == TRUE

(* _require_current: the table still holds this very session.               *)
Current(c) == table[client[c].key] = client[c].id

(* turn answers a known request id from its record and refuses beyond the   *)
(* turn limit.                                                              *)
Check(c) ==
    LET s == session[client[c].id] IN
    /\ client[c].at = "check" /\ guard = "free"
    /\ CASE ~Current(c) -> Leave(c, session)
         [] Current(c) /\ client[c].op = "turn" ->
              IF client[c].turn \in s.answered \/ s.turns >= MaxTurns
                THEN Leave(c, session)
                ELSE Goes(c, "run") /\ UNCHANGED session
         [] OTHER -> Goes(c, "pop") /\ UNCHANGED session
    /\ UNCHANGED <<table, guard, shutdown, trouble>>

(* The turn is recorded under its request id only when it answered.         *)
EndTurn(c) ==
    LET i == client[c].id IN
    /\ client[c].at = "run"
    /\ \/ /\ Leave(c, [session EXCEPT ![i].turns = @ + 1, ![i].answered = @ \cup {client[c].turn}])
          /\ trouble' = trouble
       \/ Raises /\ Leave(c, session)
    /\ UNCHANGED <<table, guard, shutdown>>

(* reset and close take the session out of the table.  The lock of the      *)
(* table is taken anew: if a shutdown came first, the key is gone, and the  *)
(* KeyError ends the request.                                               *)
Pop(c) ==
    /\ client[c].at = "pop" /\ guard = "free"
    /\ \/ /\ table[client[c].key] # 0
          /\ table' = [table EXCEPT ![client[c].key] = 0]
          /\ session' = [session EXCEPT ![client[c].id].state = "closing"]
          /\ Goes(c, "close")
       \/ table[client[c].key] = 0 /\ Leave(c, session) /\ table' = table
    /\ UNCHANGED <<guard, shutdown, trouble>>

CloseSession(c) ==
    LET i == client[c].id
        closed == Over(session, i, "closed") IN
    /\ client[c].at = "close"
    /\ \/ client[c].op = "close" /\ Leave(c, closed) /\ trouble' = trouble
       \/ client[c].op = "reset" /\ Goes(c, "build") /\ session' = closed /\ trouble' = trouble
       \/ Raises /\ Leave(c, Over(session, i, "failed"))
    /\ UNCHANGED <<table, guard, shutdown>>

-----------------------------------------------------------------------------
(* aclose, called when the application stops: the table is emptied at once, *)
(* then each session is closed under its own lock; a failure is kept until  *)
(* the others were closed too.                                              *)
BeginShutdown ==
    /\ ~shutdown.begun /\ guard = "free"
    /\ shutdown' = [begun |-> TRUE, left |-> {table[k] : k \in Simulations} \ {0}]
    /\ table' = [k \in Simulations |-> 0]
    /\ UNCHANGED <<session, client, guard, trouble>>

ShutOne(i) ==
    /\ i \in shutdown.left /\ session[i].lock = "free"
    /\ \A j \in Built : session[j].lock # "shutdown"
    /\ session' = [session EXCEPT ![i].state = "closing", ![i].lock = "shutdown"]
    /\ UNCHANGED <<table, client, guard, shutdown, trouble>>

ShutReturns(i) ==
    /\ i \in shutdown.left /\ session[i].lock = "shutdown"
    /\ \/ session' = Unlocked(Over(session, i, "closed"), "shutdown") /\ trouble' = trouble
       \/ Raises /\ session' = Unlocked(Over(session, i, "failed"), "shutdown")
    /\ shutdown' = [shutdown EXCEPT !.left = @ \ {i}]
    /\ UNCHANGED <<table, client, guard>>

SimulationStep ==
    \/ \E c \in Clients :
         \/ \E k \in Simulations :
              \/ StartSimulation(c, k)
              \/ \E q \in TurnIds : RequireOpen(c, k, "turn", q)
              \/ \E op \in {"reset", "close"} : RequireOpen(c, k, op, "none")
         \/ BuildSession(c) \/ BuildRaises(c) \/ Install(c) \/ Undo(c)
         \/ TakeSessionLock(c) \/ Check(c) \/ EndTurn(c) \/ Pop(c) \/ CloseSession(c)
    \/ BeginShutdown
    \/ \E i \in Built : ShutOne(i) \/ ShutReturns(i)

-----------------------------------------------------------------------------
(* A turn runs alone and in a session nobody has begun to close, although   *)
(* it found the session before it waited for its lock, and resets, closes   *)
(* and the shutdown wait for the same lock (simulation.py, turn).           *)
TurnsRunInLiveSessions ==
    \A c \in Clients : client[c].at = "run" =>
        /\ session[client[c].id].state = "open"
        /\ \A d \in Clients \ {c} : client[d].at = "run" => client[d].id # client[c].id

(* A session that is open is in the table, or in the hands of the request   *)
(* that built it or of the shutdown that will close it: whatever races and  *)
(* raises, none is left running that no request can reach (start, reset,    *)
(* aclose).                                                                 *)
NoSessionOrphaned ==
    \A i \in Built : session[i].state = "open" =>
        \/ \E k \in Simulations : table[k] = i
        \/ \E c \in Clients : client[c].at = "install" /\ client[c].new = i
        \/ i \in shutdown.left

(* A simulator that was shut down stays empty.                              *)
ShutStaysEmpty ==
    shutdown.begun => \A k \in Simulations : table[k] = 0

(* Sessions are owned from their building to their closing: the two parts   *)
(* above hold together.                                                     *)
SessionsAreOwned == NoSessionOrphaned /\ ShutStaysEmpty
=============================================================================
