--------------------------- MODULE WorkbenchProofs ---------------------------
(***************************************************************************)
(* Proofs about the workbench, for any number of requests, simulations,    *)
(* sessions, drafts and publications.                                      *)
(***************************************************************************)
EXTENDS Workbench, FiniteSetTheorems, TLAPS

-----------------------------------------------------------------------------
(* The simulator.                                                           *)

SessionStates == {"unbuilt", "open", "closing", "closed", "failed"}
Places == {"idle", "build", "install", "undo", "lock", "check", "run", "pop", "close"}

SessionRecord == [state : SessionStates, lock : Clients \cup {"free", "shutdown"},
                  turns : Nat, answered : SUBSET (TurnIds \cup {"none"})]
RequestRecord == [at : Places, op : {"none", "start", "turn", "reset", "close"},
                  key : Simulations \cup {"none"}, id : 0..MaxBuilt, new : 0..MaxBuilt,
                  turn : TurnIds \cup {"none"}]

SimulationType ==
    /\ table \in [Simulations -> 0..MaxBuilt]
    /\ session \in [Built -> SessionRecord]
    /\ client \in [Clients -> RequestRecord]
    /\ shutdown \in [begun : BOOLEAN, left : SUBSET Built]

(* A request that passed the wait for its session's lock has that lock, and *)
(* its session and key are real.                                            *)
Inside == {"check", "run", "pop", "close"}

LocksHeld ==
    \A c \in Clients :
        /\ client[c].at # "idle" => client[c].key \in Simulations
        /\ client[c].at \in Inside \cup {"lock"} => client[c].id \in Built
        /\ client[c].at \in Inside => session[client[c].id].lock = c

(* The table has open sessions, each under one key, and none after shutdown. *)
TableSound ==
    /\ \A k \in Simulations : table[k] # 0 => session[table[k]].state = "open"
    /\ \A j, k \in Simulations : table[j] # 0 /\ table[j] = table[k] => j = k

(* A session that was built and not yet installed is its builder's alone.   *)
Building(c) == client[c].at \in {"install", "undo"}

FreshIsPrivate ==
    \A c \in Clients : Building(c) =>
        /\ client[c].new \in Built
        /\ client[c].new \notin shutdown.left
        /\ \A k \in Simulations : table[k] # client[c].new
        /\ \A d \in Clients : client[d].id # client[c].new
        /\ \A d \in Clients \ {c} : Building(d) => client[d].new # client[c].new

(* What state a session is in where a request or the shutdown has it.       *)
StatesFit ==
    /\ \A c \in Clients :
         /\ client[c].at = "install" => session[client[c].new].state = "open"
         /\ client[c].at = "undo" => session[client[c].new].state = "closing"
         /\ client[c].id # 0 => session[client[c].id].state # "unbuilt"
         /\ client[c].at = "run" => session[client[c].id].state = "open"
         /\ client[c].at = "pop" => table[client[c].key] = client[c].id \/ shutdown.begun
         /\ client[c].at = "close" => session[client[c].id].state = "closing"
    /\ \A i \in shutdown.left : shutdown.begun /\ session[i].state # "unbuilt"

SimulationInv ==
    /\ SimulationType /\ LocksHeld /\ TableSound /\ FreshIsPrivate /\ StatesFit
    /\ NoSessionOrphaned /\ ShutStaysEmpty

LEMMA SimulationInitially == SimulationInit => SimulationInv
<1> SUFFICES ASSUME SimulationInit PROVE SimulationInv
  OBVIOUS
<1> USE SimulationAssumption DEF SimulationInit, Unbuilt, NoRequest
<1>1. SimulationType
  BY DEF SimulationType, SessionRecord, RequestRecord, SessionStates, Places
<1>2. LocksHeld /\ TableSound
  BY DEF LocksHeld, TableSound, Inside
<1>3. FreshIsPrivate /\ StatesFit
  BY DEF FreshIsPrivate, StatesFit, Building
<1>4. NoSessionOrphaned /\ ShutStaysEmpty
  BY DEF NoSessionOrphaned, ShutStaysEmpty
<1> QED BY <1>1, <1>2, <1>3, <1>4 DEF SimulationInv

(* Ids and entries that are not zero are sessions.                          *)
LEMMA RealIds ==
    ASSUME SimulationType
    PROVE  /\ 0 \notin Built
           /\ \A k \in Simulations : table[k] # 0 => table[k] \in Built
           /\ \A d \in Clients : client[d].id # 0 => client[d].id \in Built
BY DEF SimulationType, RequestRecord, Built

(* A request that leaves gives back its locks and nothing else changes.     *)
LEMMA Leaving ==
    ASSUME client \in [Clients -> RequestRecord], NEW c \in Clients,
           NEW s \in [Built -> SessionRecord], Leave(c, s)
    PROVE  /\ client' \in [Clients -> RequestRecord]
           /\ session' \in [Built -> SessionRecord]
           /\ client' = [client EXCEPT ![c] = NoRequest]
           /\ NoRequest.at = "idle" /\ NoRequest.id = 0
           /\ \A i \in Built : session'[i].state = s[i].state
           /\ \A i \in Built : s[i].lock # c => session'[i].lock = s[i].lock
<1>1. NoRequest \in RequestRecord /\ NoRequest.at = "idle" /\ NoRequest.id = 0
  BY SimulationAssumption DEF NoRequest, RequestRecord, Places
<1>2. session' = [i \in Built |-> IF s[i].lock = c THEN [s[i] EXCEPT !.lock = "free"] ELSE s[i]]
  BY DEF Leave, Unlocked
<1>3. \A i \in Built : /\ session'[i] \in SessionRecord
                       /\ session'[i].state = s[i].state
                       /\ s[i].lock # c => session'[i].lock = s[i].lock
  BY <1>2 DEF SessionRecord
<1>4. session' \in [Built -> SessionRecord]
  BY <1>2, <1>3
<1> QED BY <1>1, <1>3, <1>4 DEF Leave

(* A session that is over keeps its lock, and the others stay as they are.  *)
LEMMA SessionOver ==
    ASSUME session \in [Built -> SessionRecord], NEW i \in Built, NEW state \in SessionStates
    PROVE  /\ Over(session, i, state) \in [Built -> SessionRecord]
           /\ Over(session, i, state)[i].state = state
           /\ Over(session, i, state)[i].lock = session[i].lock
           /\ \A j \in Built \ {i} : Over(session, i, state)[j] = session[j]
BY DEF Over, Unbuilt, SessionRecord

LEMMA StartMoves ==
    ASSUME SimulationInv, NEW c \in Clients, NEW k \in Simulations, StartSimulation(c, k)
    PROVE  SimulationInv'
<1> DEFINE request == [NoRequest EXCEPT !.at = "build", !.op = "start", !.key = k]
<1>1. NoRequest \in RequestRecord /\ NoRequest.id = 0
  BY SimulationAssumption DEF NoRequest, RequestRecord, Places
<1>2. request \in RequestRecord /\ request.at = "build" /\ request.id = 0 /\ request.key = k
  BY <1>1 DEF RequestRecord, Places
<1>3. client' = [client EXCEPT ![c] = request] /\ UNCHANGED <<table, session, guard, shutdown>>
  BY DEF StartSimulation
<1>4. client[c].at = "idle"
  BY DEF StartSimulation
<1> HIDE DEF request
<1> USE DEF SimulationInv
<1>6. SimulationType'
  BY <1>2, <1>3 DEF SimulationType
<1>7. LocksHeld'
  BY <1>2, <1>3 DEF SimulationType, LocksHeld, Inside
<1>8. TableSound' /\ ShutStaysEmpty'
  BY <1>3 DEF TableSound, ShutStaysEmpty
<1>9. FreshIsPrivate'
  BY <1>2, <1>3, RealIds DEF SimulationType, FreshIsPrivate, Building
<1>10. StatesFit'
  BY <1>2, <1>3 DEF SimulationType, StatesFit
<1>11. NoSessionOrphaned'
  BY <1>3, <1>4 DEF SimulationType, NoSessionOrphaned
<1> QED BY <1>6, <1>7, <1>8, <1>9, <1>10, <1>11

LEMMA FindMoves ==
    ASSUME SimulationInv, NEW c \in Clients, NEW k \in Simulations,
           NEW op \in {"turn", "reset", "close"}, NEW q \in TurnIds \cup {"none"},
           RequireOpen(c, k, op, q)
    PROVE  SimulationInv'
<1> DEFINE i == table[k]
           request == [NoRequest EXCEPT !.at = "lock", !.op = op, !.key = k, !.id = i, !.turn = q]
<1> USE DEF SimulationInv
<1>1. NoRequest \in RequestRecord
  BY SimulationAssumption DEF NoRequest, RequestRecord, Places
<1>2. i \in 0..MaxBuilt /\ i \in Built
  BY DEF SimulationType, RequireOpen, Built
<1>3. client' = [client EXCEPT ![c] = request] /\ UNCHANGED <<table, session, guard, shutdown>>
  BY DEF RequireOpen
<1>4. client[c].at = "idle" /\ session[i].state = "open"
  BY DEF RequireOpen, TableSound
<1>5. \A d \in Clients : Building(d) => client[d].new # i
  BY DEF FreshIsPrivate
<1> HIDE DEF i
<1>6. request \in RequestRecord /\ request.at = "lock" /\ request.id = i /\ request.key = k
  BY <1>1, <1>2 DEF RequestRecord, Places
<1> HIDE DEF request
<1>7. SimulationType'
  BY <1>3, <1>6 DEF SimulationType
<1>8. LocksHeld'
  BY <1>2, <1>3, <1>6 DEF SimulationType, LocksHeld, Inside
<1>9. TableSound' /\ ShutStaysEmpty'
  BY <1>3 DEF TableSound, ShutStaysEmpty
<1>10. FreshIsPrivate'
  BY <1>3, <1>5, <1>6 DEF SimulationType, FreshIsPrivate, Building
<1>11. StatesFit'
  BY <1>3, <1>4, <1>6 DEF SimulationType, StatesFit
<1>12. NoSessionOrphaned'
  BY <1>3, <1>4, <1>6 DEF SimulationType, NoSessionOrphaned
<1> QED BY <1>7, <1>8, <1>9, <1>10, <1>11, <1>12

LEMMA BuildMoves ==
    ASSUME SimulationInv, NEW c \in Clients, BuildSession(c)
    PROVE  SimulationInv'
<1> USE DEF SimulationInv
<1>1. PICK i \in Built :
        /\ session[i].state = "unbuilt"
        /\ session' = [session EXCEPT ![i].state = "open"]
        /\ client' = [client EXCEPT ![c].at = "install", ![c].new = i]
  BY DEF BuildSession
<1>2. client[c].at = "build" /\ UNCHANGED <<table, guard, shutdown, trouble>>
  BY DEF BuildSession
<1>0. i \in 0..MaxBuilt
  BY DEF Built
<1>3. SimulationType'
  <2>1. session' \in [Built -> SessionRecord]
    BY <1>1 DEF SimulationType, SessionRecord, SessionStates
  <2>2. client' \in [Clients -> RequestRecord]
    <3> DEFINE at == [client EXCEPT ![c].at = "install"]
    <3>1. at \in [Clients -> RequestRecord]
      BY DEF SimulationType, RequestRecord, Places
    <3>2. client' = [at EXCEPT ![c].new = i]
      BY <1>1
    <3> HIDE DEF at
    <3> QED BY <1>0, <3>1, <3>2 DEF RequestRecord
  <2> QED BY <1>2, <2>1, <2>2 DEF SimulationType
<1>4. \A j \in Built : /\ session'[j].lock = session[j].lock
                       /\ session'[j].state = IF j = i THEN "open" ELSE session[j].state
  BY <1>1 DEF SimulationType, SessionRecord
<1>5. /\ \A d \in Clients \ {c} : client'[d] = client[d]
      /\ client'[c].at = "install" /\ client'[c].new = i
      /\ client'[c].id = client[c].id /\ client'[c].key = client[c].key
  BY <1>1 DEF SimulationType, RequestRecord
<1>6. /\ \A k \in Simulations : table[k] # i
      /\ i \notin shutdown.left
      /\ \A d \in Clients : client[d].id # i
      /\ \A d \in Clients : Building(d) => client[d].new # i
  BY <1>0, <1>1 DEF TableSound, StatesFit, Building, Built
<1>9. LocksHeld'
  BY <1>2, <1>4, <1>5 DEF LocksHeld, Inside
<1>10. TableSound' /\ ShutStaysEmpty'
  BY <1>2, <1>4, RealIds DEF TableSound, ShutStaysEmpty
<1>11. FreshIsPrivate'
  BY <1>2, <1>5, <1>6 DEF FreshIsPrivate, Building
<1>12. StatesFit'
  BY <1>2, <1>4, <1>5, <1>6, RealIds DEF StatesFit, FreshIsPrivate, Building, LocksHeld, Inside, SimulationType
<1>13. NoSessionOrphaned'
  BY <1>2, <1>4, <1>5 DEF NoSessionOrphaned
<1> QED BY <1>3, <1>9, <1>10, <1>11, <1>12, <1>13

(* A request that leaves early: what it knew is forgotten, its locks freed, *)
(* and no state of a session or entry of the table has changed.             *)
LEMMA LeavingMoves ==
    ASSUME SimulationInv, NEW c \in Clients, NEW s \in [Built -> SessionRecord],
           Leave(c, s), UNCHANGED <<table, shutdown>>, client[c].at # "install",
           \A i \in Built : s[i].state = session[i].state /\ s[i].lock = session[i].lock
    PROVE  SimulationInv'
<1> USE DEF SimulationInv
<1>1. /\ client' \in [Clients -> RequestRecord] /\ session' \in [Built -> SessionRecord]
      /\ client'[c].at = "idle" /\ client'[c].id = 0
      /\ \A d \in Clients \ {c} : client'[d] = client[d]
      /\ \A i \in Built : session'[i].state = session[i].state
      /\ \A i \in Built : session[i].lock # c => session'[i].lock = session[i].lock
  BY Leaving DEF SimulationType
<1> USE <1>1
<1>2. SimulationType'
  BY DEF SimulationType
<1>3. LocksHeld'
  BY DEF LocksHeld, Inside
<1>4. TableSound' /\ ShutStaysEmpty'
  BY RealIds DEF TableSound, ShutStaysEmpty
<1>5. FreshIsPrivate'
  BY RealIds DEF FreshIsPrivate, Building
<1>6. StatesFit'
  BY RealIds DEF StatesFit, FreshIsPrivate, Building, LocksHeld, Inside, SimulationType
<1>7. NoSessionOrphaned'
  BY DEF NoSessionOrphaned
<1> QED BY <1>2, <1>3, <1>4, <1>5, <1>6, <1>7

(* A request that ends one session for good: nobody else has it.            *)
LEMMA ClosingMoves ==
    ASSUME SimulationInv, NEW c \in Clients, NEW i \in Built, NEW state \in {"closed", "failed"},
           Leave(c, Over(session, i, state)), UNCHANGED <<table, shutdown>>,
           client[c].at # "install", session[i].state = "closing",
           \A d \in Clients \ {c} : client[d].at = "close" => client[d].id # i,
           \A d \in Clients \ {c} : client[d].at = "undo" => client[d].new # i
    PROVE  SimulationInv'
<1> USE DEF SimulationInv
<1> DEFINE s == Over(session, i, state)
<1>1. /\ s \in [Built -> SessionRecord]
      /\ \A j \in Built : s[j].state = IF j = i THEN state ELSE session[j].state
      /\ \A j \in Built : s[j].lock = session[j].lock
  <2>1. state \in SessionStates /\ session \in [Built -> SessionRecord]
    BY DEF SimulationType, SessionStates
  <2>2. /\ s \in [Built -> SessionRecord] /\ s[i].state = state /\ s[i].lock = session[i].lock
        /\ \A j \in Built \ {i} : s[j] = session[j]
    BY <2>1, SessionOver
  <2> HIDE DEF s
  <2> QED BY <2>2
<1> HIDE DEF s
<1>2. /\ client' \in [Clients -> RequestRecord] /\ session' \in [Built -> SessionRecord]
      /\ client'[c].at = "idle" /\ client'[c].id = 0
      /\ \A d \in Clients \ {c} : client'[d] = client[d]
      /\ \A j \in Built : session'[j].state = s[j].state
      /\ \A j \in Built : session[j].lock # c => session'[j].lock = session[j].lock
  BY <1>1, Leaving DEF s, SimulationType
<1> USE <1>1, <1>2
<1>3. SimulationType'
  BY DEF SimulationType
<1>4. LocksHeld'
  BY DEF LocksHeld, Inside
<1>5. TableSound' /\ ShutStaysEmpty'
  BY RealIds DEF TableSound, ShutStaysEmpty
<1>6. FreshIsPrivate'
  BY RealIds DEF FreshIsPrivate, Building
<1>7. StatesFit'
  BY RealIds DEF StatesFit, FreshIsPrivate, Building, LocksHeld, Inside, SimulationType
<1>8. NoSessionOrphaned'
  BY DEF NoSessionOrphaned
<1> QED BY <1>3, <1>4, <1>5, <1>6, <1>7, <1>8

LEMMA InstallMoves ==
    ASSUME SimulationInv, NEW c \in Clients, Install(c)
    PROVE  SimulationInv'
<1> USE DEF SimulationInv
<1> DEFINE k == client[c].key
           i == client[c].new
<1>1. client[c].at = "install" /\ UNCHANGED <<shutdown, trouble>>
  BY DEF Install
<1>2. k \in Simulations /\ i \in Built /\ session[i].state = "open"
  BY <1>1 DEF LocksHeld, FreshIsPrivate, Building, StatesFit
<1>3. /\ i \notin shutdown.left
      /\ \A j \in Simulations : table[j] # i
      /\ \A d \in Clients : client[d].id # i
      /\ \A d \in Clients \ {c} : Building(d) => client[d].new # i
  BY <1>1 DEF FreshIsPrivate, Building
<1>4. CASE StillFree(k)
  <2>1. table' = [table EXCEPT ![k] = i] /\ Leave(c, session)
    BY <1>4 DEF Install
  <2>2. ~shutdown.begun /\ table[k] = 0
    BY <1>4 DEF StillFree
  <2>3. /\ client' \in [Clients -> RequestRecord] /\ session' \in [Built -> SessionRecord]
        /\ client'[c].at = "idle" /\ client'[c].id = 0
        /\ \A d \in Clients \ {c} : client'[d] = client[d]
        /\ \A j \in Built : session'[j].state = session[j].state
        /\ \A j \in Built : session[j].lock # c => session'[j].lock = session[j].lock
    BY <2>1, Leaving DEF SimulationType
  <2>4. table' \in [Simulations -> 0..MaxBuilt]
    BY <1>2, <2>1 DEF SimulationType, Built
  <2>5. table'[k] = i /\ \A j \in Simulations \ {k} : table'[j] = table[j]
    BY <1>2, <2>1 DEF SimulationType
  <2> HIDE DEF k, i
  <2> USE <1>1, <1>2, <2>3, <2>5
  <2>6. SimulationType'
    BY <2>4 DEF SimulationType
  <2>7. LocksHeld'
    BY DEF LocksHeld, Inside
  <2>8. TableSound' /\ ShutStaysEmpty'
    BY <1>3, <2>2, RealIds DEF TableSound, ShutStaysEmpty
  <2>9. FreshIsPrivate'
    BY <1>3, RealIds DEF FreshIsPrivate, Building
  <2>10. StatesFit'
    <3>1. \A d \in Clients \ {c} : client[d].at = "pop" => table[client[d].key] = client[d].id
                                                           /\ client[d].id \in Built
                                                           /\ client[d].key \in Simulations
      BY <2>2 DEF StatesFit, LocksHeld, Inside
    <3> QED BY <2>2, <3>1, RealIds DEF StatesFit, FreshIsPrivate, Building, LocksHeld, Inside, SimulationType
  <2>11. NoSessionOrphaned'
    <3> SUFFICES ASSUME NEW j \in Built, session[j].state = "open"
                 PROVE  \/ \E x \in Simulations : table'[x] = j
                        \/ \E d \in Clients : client'[d].at = "install" /\ client'[d].new = j
                        \/ j \in shutdown.left
      BY DEF NoSessionOrphaned
    <3>1. CASE \E x \in Simulations : table[x] = j
      <4>1. PICK x \in Simulations : table[x] = j
        BY <3>1
      <4>2. x # k
        BY <2>2, <4>1, RealIds
      <4> QED BY <4>1, <4>2
    <3>2. CASE \E d \in Clients : client[d].at = "install" /\ client[d].new = j
      BY <3>2 DEF i
    <3> QED BY <3>1, <3>2 DEF NoSessionOrphaned
  <2> QED BY <2>6, <2>7, <2>8, <2>9, <2>10, <2>11
<1>5. CASE ~StillFree(k)
  <2>1. /\ table' = table
        /\ client' = [client EXCEPT ![c].at = "undo"]
        /\ session' = [session EXCEPT ![i].state = "closing"]
    BY <1>5 DEF Install
  <2>2. client' \in [Clients -> RequestRecord]
    BY <2>1 DEF SimulationType, RequestRecord, Places
  <2>3. session' \in [Built -> SessionRecord]
    <3> HIDE DEF i
    <3> QED BY <1>2, <2>1 DEF SimulationType, SessionRecord, SessionStates
  <2>4. /\ client'[c].at = "undo" /\ client'[c].id = client[c].id
        /\ client'[c].key = k /\ client'[c].new = i
        /\ \A d \in Clients \ {c} : client'[d] = client[d]
    BY <2>1 DEF SimulationType, RequestRecord
  <2>5. \A j \in Built : /\ session'[j].lock = session[j].lock
                         /\ session'[j].state = IF j = i THEN "closing" ELSE session[j].state
    BY <1>2, <2>1 DEF SimulationType, SessionRecord
  <2> HIDE DEF k, i
  <2> USE <1>1, <1>2, <2>1, <2>4, <2>5
  <2>6. SimulationType'
    BY <2>2, <2>3 DEF SimulationType
  <2>7. LocksHeld'
    BY DEF LocksHeld, Inside
  <2>8. TableSound' /\ ShutStaysEmpty'
    BY <1>3, RealIds DEF TableSound, ShutStaysEmpty
  <2>9. FreshIsPrivate'
    BY <1>3, RealIds DEF FreshIsPrivate, Building
  <2>10. StatesFit'
    BY <1>3, RealIds DEF StatesFit, FreshIsPrivate, Building, LocksHeld, Inside, SimulationType
  <2>11. NoSessionOrphaned'
    BY DEF NoSessionOrphaned, i
  <2> QED BY <2>6, <2>7, <2>8, <2>9, <2>10, <2>11
<1> QED BY <1>4, <1>5

LEMMA UndoMoves ==
    ASSUME SimulationInv, NEW c \in Clients, Undo(c)
    PROVE  SimulationInv'
<1> DEFINE i == client[c].new
<1>1. client[c].at = "undo" /\ UNCHANGED <<table, shutdown>>
  BY DEF Undo
<1>2. i \in Built /\ session[i].state = "closing"
  BY <1>1 DEF SimulationInv, FreshIsPrivate, Building, StatesFit
<1>3. /\ \A d \in Clients : client[d].id # i
      /\ \A d \in Clients \ {c} : client[d].at = "undo" => client[d].new # i
  BY <1>1 DEF SimulationInv, FreshIsPrivate, Building
<1>4. \E state \in {"closed", "failed"} : Leave(c, Over(session, i, state))
  BY DEF Undo
<1> QED BY <1>1, <1>2, <1>3, <1>4, ClosingMoves

LEMMA LockMoves ==
    ASSUME SimulationInv, NEW c \in Clients, TakeSessionLock(c)
    PROVE  SimulationInv'
<1> USE DEF SimulationInv
<1> DEFINE i == client[c].id
<1>1. /\ client[c].at = "lock" /\ session[i].lock = "free"
      /\ session' = [session EXCEPT ![i].lock = c]
      /\ client' = [client EXCEPT ![c].at = "check"]
      /\ UNCHANGED <<table, guard, shutdown>>
  BY DEF TakeSessionLock, Goes
<1>2. i \in Built
  BY <1>1 DEF LocksHeld
<1>3. client' \in [Clients -> RequestRecord]
  BY <1>1 DEF SimulationType, RequestRecord, Places
<1>4. session' \in [Built -> SessionRecord]
  <2> HIDE DEF i
  <2> QED BY <1>1, <1>2 DEF SimulationType, SessionRecord
<1>5. /\ client'[c].at = "check" /\ client'[c].id = i
      /\ client'[c].key = client[c].key
      /\ \A d \in Clients \ {c} : client'[d] = client[d]
  BY <1>1 DEF SimulationType, RequestRecord
<1>6. \A j \in Built : /\ session'[j].state = session[j].state
                       /\ session'[j].lock = IF j = i THEN c ELSE session[j].lock
  BY <1>1, <1>2 DEF SimulationType, SessionRecord
<1>7. "free" \notin Clients
  BY SimulationAssumption
<1> HIDE DEF i
<1> USE <1>1, <1>2, <1>5, <1>6
<1>8. SimulationType'
  BY <1>3, <1>4 DEF SimulationType
<1>9. LocksHeld'
  BY <1>7 DEF LocksHeld, Inside
<1>10. TableSound' /\ ShutStaysEmpty'
  BY RealIds DEF TableSound, ShutStaysEmpty
<1>11. FreshIsPrivate'
  BY DEF FreshIsPrivate, Building, i
<1>12. StatesFit'
  BY RealIds DEF StatesFit, FreshIsPrivate, Building, LocksHeld, Inside, SimulationType, i
<1>13. NoSessionOrphaned'
  BY DEF NoSessionOrphaned
<1> QED BY <1>8, <1>9, <1>10, <1>11, <1>12, <1>13

(* A request that goes on inside its session, whose lock it has.            *)
LEMMA GoingOnMoves ==
    ASSUME SimulationInv, NEW c \in Clients, NEW at \in {"run", "pop"},
           client[c].at = "check", Current(c), Goes(c, at), UNCHANGED <<table, session, shutdown>>
    PROVE  SimulationInv'
<1> USE DEF SimulationInv
<1>1. client' \in [Clients -> RequestRecord]
  BY DEF Goes, SimulationType, RequestRecord, Places
<1>2. /\ client'[c].at = at /\ client'[c].id = client[c].id
      /\ client'[c].key = client[c].key
      /\ \A d \in Clients \ {c} : client'[d] = client[d]
  BY DEF Goes, SimulationType, RequestRecord
<1>3. /\ client[c].id \in Built /\ client[c].key \in Simulations
      /\ table[client[c].key] = client[c].id
      /\ session[client[c].id].state = "open"
  BY RealIds DEF LocksHeld, Inside, Current, TableSound
<1> USE <1>2
<1>4. SimulationType'
  BY <1>1 DEF SimulationType
<1>5. LocksHeld'
  BY DEF LocksHeld, Inside
<1>6. TableSound' /\ ShutStaysEmpty'
  BY DEF TableSound, ShutStaysEmpty
<1>7. FreshIsPrivate'
  BY DEF FreshIsPrivate, Building
<1>8. StatesFit'
  BY <1>3 DEF StatesFit
<1>9. NoSessionOrphaned'
  BY DEF NoSessionOrphaned
<1> QED BY <1>4, <1>5, <1>6, <1>7, <1>8, <1>9

LEMMA CheckMoves ==
    ASSUME SimulationInv, NEW c \in Clients, Check(c)
    PROVE  SimulationInv'
<1>1. client[c].at = "check" /\ UNCHANGED <<table, shutdown>>
  BY DEF Check
<1>2. session \in [Built -> SessionRecord]
  BY DEF SimulationInv, SimulationType
<1>3. CASE Leave(c, session)
  BY <1>1, <1>2, <1>3, LeavingMoves
<1>4. CASE Current(c) /\ UNCHANGED session /\ \E at \in {"run", "pop"} : Goes(c, at)
  BY <1>1, <1>4, GoingOnMoves
<1> QED BY <1>3, <1>4 DEF Check

LEMMA TurnMoves ==
    ASSUME SimulationInv, NEW c \in Clients, EndTurn(c)
    PROVE  SimulationInv'
<1> USE DEF SimulationInv
<1> DEFINE i == client[c].id
           s == [session EXCEPT ![i].turns = @ + 1, ![i].answered = @ \cup {client[c].turn}]
<1>1. client[c].at = "run" /\ UNCHANGED <<table, shutdown>>
  BY DEF EndTurn
<1>2. session \in [Built -> SessionRecord] /\ client[c].turn \in TurnIds \cup {"none"}
  BY DEF SimulationType, RequestRecord
<1>3. i \in Built
  BY <1>1 DEF LocksHeld, Inside
<1>4. CASE Leave(c, s)
  <2> HIDE DEF i
  <2> DEFINE t == [session EXCEPT ![i].turns = @ + 1]
  <2>1. /\ t \in [Built -> SessionRecord]
        /\ \A j \in Built : t[j].state = session[j].state /\ t[j].lock = session[j].lock
    BY <1>2, <1>3 DEF SessionRecord
  <2>2. s = [t EXCEPT ![i].answered = @ \cup {client[c].turn}]
    OBVIOUS
  <2> HIDE DEF t, s
  <2>3. /\ s \in [Built -> SessionRecord]
        /\ \A j \in Built : s[j].state = session[j].state /\ s[j].lock = session[j].lock
    BY <1>2, <1>3, <2>1, <2>2 DEF SessionRecord
  <2> QED BY <1>1, <1>4, <2>3, LeavingMoves
<1>5. CASE Leave(c, session)
  BY <1>1, <1>2, <1>5, LeavingMoves
<1> QED BY <1>4, <1>5 DEF EndTurn

LEMMA PopMoves ==
    ASSUME SimulationInv, NEW c \in Clients, Pop(c)
    PROVE  SimulationInv'
<1> USE DEF SimulationInv
<1> DEFINE k == client[c].key
           i == client[c].id
<1>1. client[c].at = "pop" /\ UNCHANGED shutdown
  BY DEF Pop
<1>2. k \in Simulations /\ i \in Built /\ session[i].lock = c
  BY <1>1 DEF LocksHeld, Inside
<1>3. session \in [Built -> SessionRecord]
  BY DEF SimulationType
<1>4. CASE table[k] = 0
  <2>1. Leave(c, session) /\ table' = table
    BY <1>4 DEF Pop
  <2> QED BY <1>1, <1>3, <2>1, LeavingMoves
<1>5. CASE table[k] # 0
  <2>1. /\ table' = [table EXCEPT ![k] = 0]
        /\ session' = [session EXCEPT ![i].state = "closing"]
        /\ client' = [client EXCEPT ![c].at = "close"]
    BY <1>5 DEF Pop, Goes
  <2>2. ~shutdown.begun /\ table[k] = i
    BY <1>1, <1>2, <1>5 DEF StatesFit, ShutStaysEmpty
  <2>3. client' \in [Clients -> RequestRecord]
    BY <2>1 DEF SimulationType, RequestRecord, Places
  <2>4. /\ client'[c].at = "close" /\ client'[c].id = i /\ client'[c].key = k
        /\ \A d \in Clients \ {c} : client'[d] = client[d]
    BY <2>1 DEF SimulationType, RequestRecord
  <2>5. session' \in [Built -> SessionRecord]
    <3> HIDE DEF i
    <3> QED BY <1>2, <2>1 DEF SimulationType, SessionRecord, SessionStates
  <2>6. \A j \in Built : /\ session'[j].lock = session[j].lock
                         /\ session'[j].state = IF j = i THEN "closing" ELSE session[j].state
    BY <1>2, <2>1 DEF SimulationType, SessionRecord
  <2>7. table' \in [Simulations -> 0..MaxBuilt]
    <3>1. 0 \in 0..MaxBuilt
      BY SimulationAssumption
    <3> HIDE DEF k
    <3> QED BY <2>1, <3>1 DEF SimulationType
  <2>8. table'[k] = 0 /\ \A j \in Simulations \ {k} : table'[j] = table[j] /\ table[j] # i
    BY <1>2, <1>5, <2>1, <2>2 DEF SimulationType, TableSound
  <2>9. \A d \in Clients \ {c} : client[d].at \in Inside => client[d].id # i
    BY <1>2 DEF LocksHeld
  <2>10. \A d \in Clients \ {c} : client[d].at = "pop" =>
            client[d].key # k /\ table[client[d].key] = client[d].id
    BY <2>2, <2>9 DEF StatesFit, Inside
  <2>11. \A d \in Clients : Building(d) => client[d].new # i
    BY DEF FreshIsPrivate
  <2>e. i \in Built /\ i = client[c].id /\ k = client[c].key
    BY <1>2
  <2> HIDE DEF k, i
  <2> USE <1>1, <2>e, <2>4, <2>6, <2>8
  <2>12. SimulationType'
    BY <2>3, <2>5, <2>7 DEF SimulationType
  <2>13. LocksHeld'
    BY DEF LocksHeld, Inside
  <2>14. TableSound' /\ ShutStaysEmpty'
    BY RealIds DEF TableSound, ShutStaysEmpty
  <2>15. FreshIsPrivate'
    BY RealIds DEF FreshIsPrivate, Building
  <2>16. StatesFit'
    BY <2>9, <2>10, <2>11, RealIds
       DEF StatesFit, FreshIsPrivate, Building, LocksHeld, Inside, SimulationType
  <2>17. NoSessionOrphaned'
    <3> SUFFICES ASSUME NEW j \in Built, j # i, session[j].state = "open"
                 PROVE  \/ \E x \in Simulations : table'[x] = j
                        \/ \E d \in Clients : client'[d].at = "install" /\ client'[d].new = j
                        \/ j \in shutdown.left
      BY DEF NoSessionOrphaned
    <3>1. CASE \E x \in Simulations : table[x] = j
      BY <2>2, <3>1
    <3>2. CASE \E d \in Clients : client[d].at = "install" /\ client[d].new = j
      BY <3>2
    <3> QED BY <3>1, <3>2 DEF NoSessionOrphaned
  <2> QED BY <2>12, <2>13, <2>14, <2>15, <2>16, <2>17
<1> QED BY <1>4, <1>5

LEMMA CloseMoves ==
    ASSUME SimulationInv, NEW c \in Clients, CloseSession(c)
    PROVE  SimulationInv'
<1> USE DEF SimulationInv
<1> DEFINE i == client[c].id
<1>1. client[c].at = "close" /\ UNCHANGED <<table, shutdown>>
  BY DEF CloseSession
<1>2. i \in Built /\ session[i].state = "closing" /\ session[i].lock = c
  BY <1>1 DEF LocksHeld, Inside, StatesFit
<1>3. /\ \A d \in Clients \ {c} : client[d].at \in Inside => client[d].id # i
      /\ \A d \in Clients : Building(d) => client[d].new # i
  BY <1>2 DEF LocksHeld, FreshIsPrivate
<1>4. CASE \E state \in {"closed", "failed"} : Leave(c, Over(session, i, state))
  BY <1>1, <1>2, <1>3, <1>4, ClosingMoves DEF Inside, Building
<1>5. CASE Goes(c, "build") /\ session' = Over(session, i, "closed")
  <2>1. client' \in [Clients -> RequestRecord]
    BY <1>5 DEF Goes, SimulationType, RequestRecord, Places
  <2>2. /\ client'[c].at = "build" /\ client'[c].id = i
        /\ client'[c].key = client[c].key
        /\ \A d \in Clients \ {c} : client'[d] = client[d]
    BY <1>5 DEF Goes, SimulationType, RequestRecord
  <2>3. "closed" \in SessionStates /\ session \in [Built -> SessionRecord]
    BY DEF SimulationType, SessionStates
  <2>4. /\ session' \in [Built -> SessionRecord] /\ session'[i].state = "closed"
        /\ session'[i].lock = session[i].lock
        /\ \A j \in Built \ {i} : session'[j] = session[j]
    BY <1>2, <1>5, <2>3, SessionOver
  <2>e. i = client[c].id
    OBVIOUS
  <2> HIDE DEF i
  <2> USE <1>1, <1>2, <2>2, <2>4, <2>e
  <2>5. SimulationType'
    BY <2>1 DEF SimulationType
  <2>6. LocksHeld'
    BY DEF LocksHeld, Inside
  <2>7. TableSound' /\ ShutStaysEmpty'
    BY RealIds DEF TableSound, ShutStaysEmpty
  <2>8. FreshIsPrivate'
    BY DEF FreshIsPrivate, Building
  <2>9. StatesFit'
    BY <1>3, RealIds DEF StatesFit, FreshIsPrivate, Building, LocksHeld, Inside, SimulationType
  <2>10. NoSessionOrphaned'
    BY DEF NoSessionOrphaned
  <2> QED BY <2>5, <2>6, <2>7, <2>8, <2>9, <2>10
<1> QED BY <1>4, <1>5 DEF CloseSession

LEMMA ShutdownBegins == ASSUME SimulationInv, BeginShutdown PROVE SimulationInv'
<1> USE DEF SimulationInv
<1>1. /\ ~shutdown.begun
      /\ shutdown' = [begun |-> TRUE, left |-> {table[k] : k \in Simulations} \ {0}]
      /\ table' = [k \in Simulations |-> 0]
      /\ UNCHANGED <<session, client>>
  BY DEF BeginShutdown
<1>2. shutdown'.begun /\ shutdown'.left = {table[k] : k \in Simulations} \ {0}
  BY <1>1
<1>3. SimulationType'
  <2>1. table' \in [Simulations -> 0..MaxBuilt]
    BY <1>1, SimulationAssumption
  <2>2. {table[k] : k \in Simulations} \ {0} \in SUBSET Built
    BY RealIds
  <2> QED BY <1>1, <2>1, <2>2 DEF SimulationType
<1>4. LocksHeld' /\ TableSound' /\ ShutStaysEmpty'
  BY <1>1 DEF LocksHeld, TableSound, ShutStaysEmpty
<1>5. FreshIsPrivate'
  BY <1>1, <1>2, RealIds DEF FreshIsPrivate, Building
<1>6. StatesFit'
  BY <1>1, <1>2, RealIds DEF StatesFit, TableSound
<1>7. NoSessionOrphaned'
  BY <1>1, <1>2, RealIds DEF NoSessionOrphaned, StatesFit
<1> QED BY <1>3, <1>4, <1>5, <1>6, <1>7

LEMMA ShutdownCloses ==
    ASSUME SimulationInv, NEW i \in Built, ShutOne(i) \/ ShutReturns(i)
    PROVE  SimulationInv'
<1> USE DEF SimulationInv
<1>0. /\ i \in shutdown.left /\ shutdown.begun /\ \A k \in Simulations : table[k] = 0
      /\ session[i].lock \in {"free", "shutdown"} /\ session[i].state # "unbuilt"
      /\ UNCHANGED <<table, client>>
  BY DEF ShutOne, ShutReturns, ShutStaysEmpty, StatesFit
<1>1. {"free", "shutdown"} \cap Clients = {}
  BY SimulationAssumption
<1>2. \A c \in Clients : client[c].at \in Inside => client[c].id # i
  BY <1>0, <1>1 DEF LocksHeld
<1>3. \A c \in Clients : Building(c) => client[c].new # i
  BY <1>0 DEF FreshIsPrivate
<1> DEFINE Shut ==
      /\ session' \in [Built -> SessionRecord]
      /\ session'[i].state \in {"closing", "closed", "failed"}
      /\ \A j \in Built \ {i} : session'[j].state = session[j].state
      /\ \A j \in Built \ {i} :
           session[j].lock # "shutdown" => session'[j].lock = session[j].lock
<1>4. Shut
  <2>1. CASE ShutOne(i)
    BY <2>1 DEF ShutOne, SimulationType, SessionRecord, SessionStates
  <2>2. ASSUME NEW state \in {"closed", "failed"},
               session' = Unlocked(Over(session, i, state), "shutdown")
        PROVE  Shut
    <3> DEFINE s == Over(session, i, state)
    <3>1. state \in SessionStates /\ session \in [Built -> SessionRecord]
      BY DEF SimulationType, SessionStates
    <3>2. /\ s \in [Built -> SessionRecord] /\ s[i].state = state
          /\ \A j \in Built \ {i} : s[j] = session[j]
      BY <3>1, SessionOver
    <3>3. session' = [j \in Built |-> IF s[j].lock = "shutdown" THEN [s[j] EXCEPT !.lock = "free"]
                                                               ELSE s[j]]
      BY <2>2 DEF Unlocked
    <3> HIDE DEF s
    <3>4. \A j \in Built : session'[j] \in SessionRecord /\ session'[j].state = s[j].state
      BY <3>2, <3>3 DEF SessionRecord
    <3>5. session' \in [Built -> SessionRecord]
      BY <3>3, <3>4
    <3> QED BY <3>2, <3>3, <3>4, <3>5
  <2> QED BY <2>1, <2>2 DEF ShutReturns
<1>5. /\ shutdown' \in [begun : BOOLEAN, left : SUBSET Built] /\ shutdown'.begun
      /\ shutdown'.left \subseteq shutdown.left /\ shutdown.left \subseteq shutdown'.left \cup {i}
  BY <1>0 DEF ShutOne, ShutReturns, SimulationType
<1> USE <1>0, <1>4, <1>5
<1>6. SimulationType'
  BY DEF SimulationType
<1>7. LocksHeld'
  BY <1>1, <1>2 DEF LocksHeld, Inside
<1>8. TableSound' /\ ShutStaysEmpty'
  BY DEF TableSound, ShutStaysEmpty
<1>9. FreshIsPrivate'
  BY DEF FreshIsPrivate, Building
<1>10. StatesFit'
  BY <1>2, <1>3, RealIds DEF StatesFit, FreshIsPrivate, Building, LocksHeld, Inside, SimulationType
<1>11. NoSessionOrphaned'
  BY DEF NoSessionOrphaned
<1> QED BY <1>6, <1>7, <1>8, <1>9, <1>10, <1>11

LEMMA SimulationMoves == ASSUME SimulationInv, SimulationStep PROVE SimulationInv'
<1>1. ASSUME NEW c \in Clients, BuildRaises(c) PROVE SimulationInv'
  <2>1. session \in [Built -> SessionRecord] /\ client[c].at = "build"
    BY <1>1 DEF SimulationInv, SimulationType, BuildRaises
  <2> QED BY <1>1, <2>1, LeavingMoves DEF BuildRaises
<1>2. ASSUME NEW c \in Clients, NEW k \in Simulations,
             \/ \E q \in TurnIds : RequireOpen(c, k, "turn", q)
             \/ \E op \in {"reset", "close"} : RequireOpen(c, k, op, "none")
      PROVE  SimulationInv'
  BY <1>2, FindMoves
<1> QED BY <1>1, <1>2, StartMoves, BuildMoves, InstallMoves, UndoMoves, LockMoves, CheckMoves,
           TurnMoves, PopMoves, CloseMoves, ShutdownBegins, ShutdownCloses DEF SimulationStep

LEMMA SimulationRests == ASSUME SimulationInv, UNCHANGED simVars PROVE SimulationInv'
<1> USE DEF SimulationInv, simVars
<1>1. SimulationType' /\ LocksHeld' /\ TableSound'
  BY DEF SimulationType, LocksHeld, TableSound
<1>2. FreshIsPrivate' /\ StatesFit'
  BY DEF FreshIsPrivate, StatesFit, Building
<1>3. NoSessionOrphaned' /\ ShutStaysEmpty'
  BY DEF NoSessionOrphaned, ShutStaysEmpty
<1> QED BY <1>1, <1>2, <1>3

LEMMA InvariantSimulation == WorkbenchSpec => []SimulationInv
<1>1. WorkbenchInit => SimulationInv
  BY SimulationInitially DEF WorkbenchInit
<1>2. SimulationInv /\ [WorkbenchNext]_workbenchVars => SimulationInv'
  BY SimulationMoves, SimulationRests DEF WorkbenchNext, workbenchVars
<1> QED BY <1>1, <1>2, PTL DEF WorkbenchSpec

(* A turn runs alone and in a session nobody has begun to close: what the   *)
(* request found before its wait is looked up again under the session's     *)
(* lock, and a reset, a close and the shutdown change a session only under  *)
(* that lock (turn, _require_current, aclose).                              *)
THEOREM TurnsAlwaysRunInLiveSessions == WorkbenchSpec => []TurnsRunInLiveSessions
<1>1. SimulationInv => TurnsRunInLiveSessions
  BY DEF SimulationInv, StatesFit, LocksHeld, Inside, TurnsRunInLiveSessions
<1> QED BY <1>1, InvariantSimulation, PTL

(* No session is left running out of reach, however starts, resets, closes  *)
(* and the shutdown race and raise: a built session is its builder's alone  *)
(* until it is installed or closed, and one key has it then (start, reset,  *)
(* aclose).                                                                 *)
THEOREM SessionsAreAlwaysOwned == WorkbenchSpec => []SessionsAreOwned
<1>1. SimulationInv => SessionsAreOwned
  BY DEF SimulationInv, SessionsAreOwned
<1> QED BY <1>1, InvariantSimulation, PTL

-----------------------------------------------------------------------------
(* The configuration.                                                       *)

AuditRecord ==
    [event : DraftEvents \cup ActiveEvents \cup {"draft_validated"}, ref : Nat]
SaveCalls == [op : {"save"}, kind : {"edit", "catalog"}, expected : Nat, content : Content]
DeriveCalls ==
    [op : {"derive"}, expected : Nat,
     dataset : [catalog : Catalogs, families : Families, manifest : Manifests]]
PublishCalls == [op : {"publish"}, request : Requests, base : Nat, preview : Preview]
Calls == {Idle} \cup SaveCalls \cup DeriveCalls \cup PublishCalls

ManagementType ==
    /\ TypeOK
    /\ calls \in [Handlers -> Calls]
    /\ DOMAIN receipts = Requests
    /\ audit \in Seq(AuditRecord)

(* What a call read before its commit is still true of the draft, if that   *)
(* has the revision the call expects; what it means to publish was shown    *)
(* under the running contract schema.                                       *)
CallKnows(call) ==
    /\ call.op = "publish" => call.preview \in shown /\ call.preview.schema = contract
    /\ call.op = "save" =>
         /\ call.expected <= draft.revision
         /\ call.kind = "catalog" /\ call.expected = draft.revision =>
              /\ call.content.families = draft.content.families
              /\ call.content.override = draft.content.override
    /\ call.op = "derive" =>
         /\ call.expected \in 1..draft.revision
         /\ call.expected = draft.revision => call.dataset.families = draft.content.families

CallsKnow == \A h \in Handlers : CallKnows(calls[h])

ManagementInv ==
    ManagementType /\ CallsKnow /\ PublishedWasShown /\ VersionsLinked /\ VersionsLoad
        /\ AuditExplainsState

-----------------------------------------------------------------------------
(* Numbering the records of a log.                                          *)

LEMMA RecordsFinite ==
    ASSUME NEW log \in Seq(AuditRecord), NEW events
    PROVE  /\ IsFiniteSet(Records(log, events))
           /\ Records(log, events) \subseteq 1..Len(log)
<1>1. Records(log, events) \subseteq 1..Len(log)
  BY DEF Records
<1>2. IsFiniteSet(1..Len(log))
  BY FS_Interval
<1> QED BY <1>1, <1>2, FS_Subset

(* A record of another kind does not matter to the numbering; one of this   *)
(* kind has to carry the next number.                                       *)
LEMMA NumbersAppended ==
    ASSUME NEW log \in Seq(AuditRecord), NEW r \in AuditRecord, NEW events, NEW n \in Nat,
           Numbers(log, events, n)
    PROVE  /\ r.event \notin events => Numbers(Append(log, r), events, n)
           /\ r.event \in events /\ r.ref = n + 1 => Numbers(Append(log, r), events, n + 1)
<1> DEFINE found == Records(log, events)
           more == Append(log, r)
           last == Len(log) + 1
<1>1. /\ more \in Seq(AuditRecord) /\ Len(more) = last /\ DOMAIN more = 1..last
      /\ more[last] = r /\ \A i \in 1..Len(log) : more[i] = log[i]
      /\ Len(log) \in Nat /\ DOMAIN log = 1..Len(log)
  OBVIOUS
<1>2. IsFiniteSet(found) /\ found \subseteq 1..Len(log)
  BY RecordsFinite
<1>3. /\ Cardinality(found) = n
      /\ \A i \in found : log[i].ref = Cardinality({j \in found : j <= i})
  BY DEF Numbers
<1> HIDE DEF more
<1>4. ASSUME r.event \notin events PROVE Numbers(more, events, n)
  <2>1. Records(more, events) = found
    BY <1>1, <1>4 DEF Records
  <2> HIDE DEF found
  <2> QED BY <1>1, <1>2, <1>3, <2>1 DEF Numbers
<1>5. ASSUME r.event \in events, r.ref = n + 1 PROVE Numbers(more, events, n + 1)
  <2>1. Records(more, events) = found \cup {last}
    BY <1>1, <1>5 DEF Records
  <2> HIDE DEF found
  <2>2. last \notin found
    BY <1>1, <1>2
  <2>3. Cardinality(found \cup {last}) = n + 1
    BY <1>2, <1>3, <2>2, FS_AddElement
  <2>4. {j \in found \cup {last} : j <= last} = found \cup {last}
    <3>1. \A j \in found \cup {last} : j <= last
      BY <1>1, <1>2
    <3> QED BY <3>1, Zenon
  <2>5. \A i \in found : {j \in found \cup {last} : j <= i} = {j \in found : j <= i}
    BY <1>1, <1>2
  <2>6. \A i \in found \cup {last} : more[i].ref = Cardinality({j \in found \cup {last} : j <= i})
    <3> SUFFICES ASSUME NEW i \in found \cup {last}
                 PROVE  more[i].ref = Cardinality({j \in found \cup {last} : j <= i})
      OBVIOUS
    <3>1. CASE i = last
      BY <1>1, <1>5, <2>3, <2>4, <3>1
    <3>2. CASE i \in found
      <4>1. more[i] = log[i]
        BY <1>1, <1>2, <3>2
      <4> QED BY <1>3, <2>5, <3>2, <4>1, Zenon
    <3> QED BY <3>1, <3>2
  <2> QED BY <2>1, <2>3, <2>6 DEF Numbers
<1> QED BY <1>4, <1>5 DEF more

(* An activation or a retirement that is recorded is the latest one.        *)
LEMMA ActiveAppended ==
    ASSUME NEW log \in Seq(AuditRecord), NEW r \in AuditRecord, NEW number, ActiveIn(log, number)
    PROVE  /\ r.event \notin ActiveEvents => ActiveIn(Append(log, r), number)
           /\ r.event \in ActiveEvents =>
                ActiveIn(Append(log, r), IF r.event = "version_retired" THEN 0 ELSE r.ref)
<1> DEFINE found == Records(log, ActiveEvents)
           more == Append(log, r)
           last == Len(log) + 1
<1>1. /\ DOMAIN more = 1..last /\ more[last] = r /\ \A i \in 1..Len(log) : more[i] = log[i]
      /\ Len(log) \in Nat /\ DOMAIN log = 1..Len(log)
  OBVIOUS
<1>2. found \subseteq 1..Len(log)
  BY RecordsFinite
<1> HIDE DEF more
<1>3. ASSUME r.event \notin ActiveEvents PROVE ActiveIn(more, number)
  <2>1. Records(more, ActiveEvents) = found
    BY <1>1, <1>3 DEF Records
  <2> QED BY <1>1, <1>2, <2>1 DEF ActiveIn
<1>4. ASSUME r.event \in ActiveEvents
      PROVE  ActiveIn(more, IF r.event = "version_retired" THEN 0 ELSE r.ref)
  <2>1. Records(more, ActiveEvents) = found \cup {last}
    BY <1>1, <1>4 DEF Records
  <2>2. \A j \in found \cup {last} : j <= last
    BY <1>1, <1>2
  <2> HIDE DEF found
  <2> QED BY <1>1, <2>1, <2>2 DEF ActiveIn
<1> QED BY <1>3, <1>4 DEF more

-----------------------------------------------------------------------------
LEMMA ManagementInitially == Init => ManagementInv
<1> SUFFICES ASSUME Init PROVE ManagementInv
  OBVIOUS
<1> USE DEF Init
<1>1. ManagementType
  BY DEF ManagementType, TypeOK, NoDraft, Calls
<1>2. CallsKnow
  BY DEF CallsKnow, CallKnows, Idle
<1>3. Range(versions) = {}
  BY DEF Range
<1>4. PublishedWasShown /\ VersionsLoad /\ VersionsLinked
  BY <1>3 DEF PublishedWasShown, VersionsLoad, VersionsLinked
<1>5. \A events : Records(audit, events) = {}
  BY DEF Records
<1>6. \A events : Numbers(audit, events, 0)
  BY <1>5, FS_EmptySet DEF Numbers
<1>7. AuditExplainsState
  BY <1>5, <1>6 DEF AuditExplainsState, ActiveIn, NoDraft
<1> QED BY <1>1, <1>2, <1>4, <1>7 DEF ManagementInv

(* The fields of a call, by what it is about to do.                         *)
LEMMA CallFields ==
    ASSUME NEW call \in Calls
    PROVE  /\ call.op = "save" => call \in SaveCalls
           /\ call.op = "derive" => call \in DeriveCalls
           /\ call.op = "publish" => call \in PublishCalls
BY DEF Calls, SaveCalls, DeriveCalls, PublishCalls, Idle

(* A draft that is there has a revision and a content.                      *)
LEMMA DraftFields ==
    ASSUME TypeOK
    PROVE  /\ draft.revision \in Nat
           /\ draft = NoDraft => draft.revision = 0
           /\ draft # NoDraft \/ draft.revision >= 1 =>
                draft \in Draft /\ draft.revision \in Revisions /\ draft.content \in Content
<1>1. NoDraft.revision = 0
  BY DEF NoDraft
<1>2. draft \in Draft \/ draft = NoDraft
  BY DEF TypeOK
<1>3. CASE draft = NoDraft
  BY <1>1, <1>3
<1>4. CASE draft \in Draft
  BY <1>1, <1>4 DEF Draft, Revisions
<1> QED BY <1>2, <1>3, <1>4

(* A handler reads and decides, and no table changes.                       *)
LEMMA CallsMove ==
    ASSUME ManagementInv, UNCHANGED <<tables, shown, contract, up>>, root' \in Roots,
           calls' \in [Handlers -> Calls], CallsKnow'
    PROVE  ManagementInv'
<1> USE DEF ManagementInv, tables
<1>1. ManagementType'
  BY DEF ManagementType, TypeOK
<1>2. PublishedWasShown' /\ VersionsLinked' /\ VersionsLoad'
  BY DEF PublishedWasShown, VersionsLinked, VersionsLoad, Loads
<1>3. AuditExplainsState'
  BY DEF AuditExplainsState
<1> QED BY <1>1, <1>2, <1>3

LEMMA ProceedMoves ==
    ASSUME ManagementInv, NEW h \in Handlers, NEW call \in Calls, CallKnows(call),
           Proceed(h, call)
    PROVE  ManagementInv'
<1>1. /\ calls' = [calls EXCEPT ![h] = call]
      /\ UNCHANGED <<tables, shown, root, contract, up>>
  BY DEF Proceed
<1>2. calls' \in [Handlers -> Calls] /\ root' \in Roots
  BY <1>1 DEF ManagementInv, ManagementType, TypeOK
<1>3. \A x : CallKnows(x)' <=> CallKnows(x)
  BY <1>1 DEF CallKnows, tables
<1>4. CallsKnow'
  BY <1>1, <1>3 DEF ManagementInv, ManagementType, CallsKnow
<1> QED BY <1>1, <1>2, <1>4, CallsMove

LEMMA IdleFits == Idle \in Calls /\ CallKnows(Idle)
BY DEF Idle, Calls, CallKnows

LEMMA ReturnMoves ==
    ASSUME ManagementInv, NEW h \in Handlers, Return(h),
           UNCHANGED <<tables, shown, root, contract, up>>
    PROVE  ManagementInv'
<1>1. Proceed(h, Idle)
  BY DEF Return, Proceed
<1> QED BY <1>1, IdleFits, ProceedMoves

(* The calls of the draft editors.                                          *)
LEMMA SaveCallFits ==
    ASSUME NEW kind \in {"edit", "catalog"}, NEW e \in Nat, NEW content \in Content
    PROVE  LET call == SaveCall(kind, e, content) IN
           /\ call \in Calls /\ call.op = "save" /\ call.kind = kind
           /\ call.expected = e /\ call.content = content
BY DEF SaveCall, Calls, SaveCalls

LEMMA ImportedFits ==
    ASSUME TypeOK, draft # NoDraft,
           NEW dataset \in [catalog : Catalogs, families : Families, manifest : Manifests]
    PROVE  /\ Imported(draft, dataset) \in Content
           /\ Imported(draft, dataset).families = dataset.families
           /\ Imported(draft, dataset).override = draft.content.override
<1>1. draft.content \in Content
  BY DraftFields
<1> QED BY <1>1 DEF Imported, Content

LEMMA EditorsMove ==
    ASSUME ManagementInv, NEW h \in Handlers,
           \/ \E e \in 0..MaxRevision, content \in Written : WriteDraft(h, e, content)
           \/ SeedDraft(h)
           \/ \E e \in Revisions, fixtures \in Datasets : ImportDataset(h, e, fixtures)
           \/ \E e \in Revisions, catalog \in Catalogs : ImportCatalog(h, e, catalog)
           \/ ImportDerivedDataset(h)
    PROVE  ManagementInv'
<1>0. TypeOK /\ calls[h] \in Calls /\ CallKnows(calls[h])
  BY DEF ManagementInv, ManagementType, CallsKnow
<1>a. draft.revision \in Nat
  BY <1>0, DraftFields
<1>1. ASSUME NEW e \in 0..MaxRevision, NEW content \in Written, WriteDraft(h, e, content)
      PROVE  ManagementInv'
  <2>1. e \in Nat /\ e = draft.revision /\ content \in Content
    BY <1>1, <1>a, ManagementAssumption DEF WriteDraft, Seen, Content, Manifests
  <2>2. CallKnows(SaveCall("edit", e, content))
    BY <2>1, SaveCallFits DEF CallKnows
  <2> QED BY <1>1, <2>1, <2>2, SaveCallFits, ProceedMoves DEF WriteDraft
<1>2. CASE SeedDraft(h)
  <2> DEFINE content == [override |-> SeedOverride, catalog |-> SeedCatalog,
                         families |-> SeedFamilies, manifest |-> "none"]
  <2>1. content \in Content
    BY ManagementAssumption DEF Content, Manifests
  <2>2. Proceed(h, SaveCall("edit", 0, content))
    BY <1>2 DEF SeedDraft
  <2> HIDE DEF content
  <2>3. CallKnows(SaveCall("edit", 0, content))
    BY <1>a, <2>1, SaveCallFits DEF CallKnows
  <2> QED BY <2>1, <2>2, <2>3, SaveCallFits, ProceedMoves
<1>3. ASSUME NEW e \in Revisions, NEW fixtures \in Datasets, ImportDataset(h, e, fixtures)
      PROVE  ManagementInv'
  <2> DEFINE dataset == [catalog |-> fixtures.catalog, families |-> fixtures.families,
                         manifest |-> "supplied"]
             content == Imported(draft, dataset)
  <2>1. dataset \in [catalog : Catalogs, families : Families, manifest : Manifests]
    BY ManagementAssumption DEF Manifests
  <2>2. Proceed(h, SaveCall("edit", e, content)) /\ draft # NoDraft /\ e = draft.revision
    BY <1>3 DEF ImportDataset, DatasetSave
  <2> HIDE DEF dataset
  <2>3. content \in Content
    BY <1>0, <2>1, <2>2, ImportedFits
  <2> HIDE DEF content
  <2>4. CallKnows(SaveCall("edit", e, content))
    BY <1>a, <2>2, <2>3, SaveCallFits DEF CallKnows
  <2> QED BY <1>a, <2>2, <2>3, <2>4, SaveCallFits, ProceedMoves
<1>4. ASSUME NEW e \in Revisions, NEW catalog \in Catalogs, ImportCatalog(h, e, catalog)
      PROVE  ManagementInv'
  <2> DEFINE dataset == [catalog |-> catalog, families |-> draft.content.families,
                         manifest |-> "derived"]
             call == [op |-> "derive", expected |-> e, dataset |-> dataset]
  <2>1. Proceed(h, call) /\ e = draft.revision /\ e >= 1
    BY <1>4 DEF ImportCatalog, Seen
  <2>2. draft.content \in Content
    BY <1>0, <2>1, DraftFields
  <2>3. dataset \in [catalog : Catalogs, families : Families, manifest : Manifests]
    BY <2>2 DEF Content, Manifests
  <2>4. dataset.families = draft.content.families
    OBVIOUS
  <2> HIDE DEF dataset
  <2>5. call \in Calls /\ CallKnows(call)
    BY <1>a, <2>1, <2>3, <2>4 DEF Calls, DeriveCalls, CallKnows
  <2> QED BY <2>1, <2>5, ProceedMoves
<1>5. CASE ImportDerivedDataset(h)
  <2> DEFINE call == calls[h]
             content == Imported(draft, call.dataset)
  <2>0. call.op = "derive"
    BY <1>5 DEF ImportDerivedDataset
  <2>1. CASE Proceed(h, Idle)
    BY <2>1, IdleFits, ProceedMoves
  <2>2. CASE /\ DatasetSave(call.expected, call.dataset)
             /\ Proceed(h, SaveCall("catalog", call.expected, content))
    <3>1. draft # NoDraft /\ draft.revision = call.expected
      BY <2>2 DEF DatasetSave
    <3>2. /\ call.dataset \in [catalog : Catalogs, families : Families, manifest : Manifests]
          /\ call.expected \in Nat
      BY <1>0, <2>0, CallFields DEF DeriveCalls
    <3>3. call.dataset.families = draft.content.families
      BY <1>0, <2>0, <3>1 DEF CallKnows
    <3>4. /\ content \in Content /\ content.families = draft.content.families
          /\ content.override = draft.content.override
      BY <1>0, <3>1, <3>2, <3>3, ImportedFits
    <3> HIDE DEF content
    <3>5. CallKnows(SaveCall("catalog", call.expected, content))
      BY <1>a, <3>1, <3>2, <3>4, SaveCallFits DEF CallKnows
    <3> QED BY <2>2, <3>2, <3>4, <3>5, SaveCallFits, ProceedMoves
  <2> QED BY <1>5, <2>1, <2>2 DEF ImportDerivedDataset
<1> QED BY <1>1, <1>2, <1>3, <1>4, <1>5

(* A record of the log beside a change of the draft, of nothing, or of the  *)
(* versions and the active one.                                             *)
LEMMA SaveMoves ==
    ASSUME ManagementInv, NEW h \in Handlers, SaveDraft(h)
    PROVE  ManagementInv'
<1> USE DEF ManagementInv
<1> DEFINE n == draft.revision
           call == calls[h]
           r == [event |-> IF draft = NoDraft THEN "draft_created" ELSE "draft_updated",
                 ref |-> n + 1]
<1>0. TypeOK /\ calls \in [Handlers -> Calls] /\ call \in Calls /\ audit \in Seq(AuditRecord)
  BY DEF ManagementType
<1>1. /\ draft' = [revision |-> n + 1, content |-> call.content]
      /\ calls' = [calls EXCEPT ![h] = Idle]
      /\ audit' = Append(audit, r)
      /\ UNCHANGED <<versions, active, receipts, validations, shown, root, contract, up>>
      /\ n < MaxRevision /\ call.op = "save"
  BY DEF SaveDraft, Audited, Return
<1>2. n \in Nat /\ MaxRevision \in Nat /\ (draft = NoDraft <=> n = 0)
  BY <1>0, DraftFields, ManagementAssumption DEF Revisions
<1>3. call.content \in Content
  BY <1>0, <1>1, CallFields DEF SaveCalls
<1>4. draft'.revision = n + 1 /\ draft' \in Draft
  BY <1>1, <1>2, <1>3 DEF Draft, Revisions
<1>5. r \in AuditRecord /\ r.ref = n + 1 /\ r.event \in DraftEvents
      /\ (r.event = "draft_created" <=> r.ref = 1)
  BY <1>2 DEF AuditRecord, DraftEvents
<1> HIDE DEF n, r
<1>6. ManagementType'
  <2>1. TypeOK'
    BY <1>0, <1>1, <1>4 DEF TypeOK
  <2>2. calls' \in [Handlers -> Calls]
    BY <1>0, <1>1, IdleFits
  <2>3. audit' \in Seq(AuditRecord)
    BY <1>0, <1>1, <1>5
  <2> QED BY <1>1, <2>1, <2>2, <2>3 DEF ManagementType
<1>7. CallsKnow'
  <2> SUFFICES ASSUME NEW g \in Handlers PROVE CallKnows(calls[g])'
    BY DEF CallsKnow
  <2>1. CASE g = h
    <3>1. calls'[g].op = "idle"
      BY <1>0, <1>1, <2>1 DEF Idle
    <3> QED BY <3>1 DEF CallKnows
  <2>2. CASE g # h
    <3>1. calls'[g] = calls[g] /\ calls[g] \in Calls /\ CallKnows(calls[g])
      BY <1>0, <1>1, <2>2 DEF CallsKnow
    <3>2. calls[g].op \in {"save", "derive"} => calls[g].expected \in Nat
      BY <3>1, CallFields DEF SaveCalls, DeriveCalls
    <3> QED BY <1>1, <1>2, <1>4, <3>1, <3>2 DEF CallKnows, n
  <2> QED BY <2>1, <2>2
<1>8. PublishedWasShown' /\ VersionsLinked' /\ VersionsLoad'
  BY <1>1 DEF PublishedWasShown, VersionsLinked, VersionsLoad, Loads
<1>9. AuditExplainsState'
  <2>1. Numbers(audit', DraftEvents, n + 1)
    BY <1>0, <1>1, <1>2, <1>5, NumbersAppended DEF AuditExplainsState, n
  <2>2. \A i \in Records(audit', DraftEvents) :
          audit'[i].event = "draft_created" <=> audit'[i].ref = 1
    <3> SUFFICES ASSUME NEW i \in Records(audit', DraftEvents)
                 PROVE  audit'[i].event = "draft_created" <=> audit'[i].ref = 1
      OBVIOUS
    <3>1. \/ audit'[i] = r
          \/ i \in Records(audit, DraftEvents) /\ audit'[i] = audit[i]
      <4>1. /\ DOMAIN audit' = 1..(Len(audit) + 1) /\ audit'[Len(audit) + 1] = r
            /\ \A j \in 1..Len(audit) : audit'[j] = audit[j]
            /\ Len(audit) \in Nat /\ DOMAIN audit = 1..Len(audit)
        BY <1>0, <1>1, <1>5
      <4>2. i \in 1..(Len(audit) + 1) /\ audit'[i].event \in DraftEvents
        BY <4>1 DEF Records
      <4>3. i = Len(audit) + 1 \/ i \in 1..Len(audit)
        BY <4>1, <4>2
      <4> QED BY <4>1, <4>2, <4>3 DEF Records
    <3> QED BY <1>5, <3>1 DEF AuditExplainsState
  <2>3. Numbers(audit', VersionEvents, Len(versions))
    <3>1. r.event \notin VersionEvents
      BY <1>5 DEF DraftEvents, VersionEvents
    <3>2. Len(versions) \in Nat
      BY <1>0 DEF TypeOK
    <3> QED BY <1>0, <1>1, <1>5, <3>1, <3>2, NumbersAppended DEF AuditExplainsState
  <2>4. ActiveIn(audit', active)
    <3>1. r.event \notin ActiveEvents
      BY <1>5 DEF DraftEvents, ActiveEvents, VersionEvents
    <3> QED BY <1>0, <1>1, <1>5, <3>1, ActiveAppended DEF AuditExplainsState
  <2> QED BY <1>1, <1>4, <2>1, <2>2, <2>3, <2>4 DEF AuditExplainsState
<1> QED BY <1>6, <1>7, <1>8, <1>9

LEMMA ValidateMoves ==
    ASSUME ManagementInv, NEW q \in Validations, NEW e \in Revisions, ValidateDraft(q, e)
    PROVE  ManagementInv'
<1> USE DEF ManagementInv
<1> DEFINE r == [event |-> "draft_validated", ref |-> e]
<1>0. TypeOK /\ audit \in Seq(AuditRecord) /\ draft.revision \in Nat /\ Len(versions) \in Nat
  BY DraftFields DEF ManagementType, TypeOK
<1>1. /\ audit' = Append(audit, r)
      /\ UNCHANGED <<draft, versions, active, receipts, calls, shown, root, contract, up>>
  BY DEF ValidateDraft, Audited, process
<1>2. r \in AuditRecord /\ r.event = "draft_validated"
  BY DEF AuditRecord, Revisions
<1>3. r.event \notin DraftEvents \cup ActiveEvents \cup VersionEvents
  BY DEF DraftEvents, ActiveEvents, VersionEvents
<1> HIDE DEF r
<1>4. ManagementType'
  BY <1>0, <1>1, <1>2 DEF ManagementType, TypeOK
<1>5. CallsKnow' /\ PublishedWasShown' /\ VersionsLinked' /\ VersionsLoad'
  BY <1>1 DEF CallsKnow, CallKnows, PublishedWasShown, VersionsLinked, VersionsLoad, Loads
<1>6. AuditExplainsState'
  <2>1. /\ Numbers(audit', DraftEvents, draft.revision)
        /\ Numbers(audit', VersionEvents, Len(versions))
        /\ ActiveIn(audit', active)
    BY <1>0, <1>1, <1>2, <1>3, NumbersAppended, ActiveAppended DEF AuditExplainsState
  <2>2. \A i \in Records(audit', DraftEvents) :
          i \in Records(audit, DraftEvents) /\ audit'[i] = audit[i]
    BY <1>0, <1>1, <1>3 DEF Records
  <2> QED BY <1>1, <2>1, <2>2 DEF AuditExplainsState
<1> QED BY <1>4, <1>5, <1>6

LEMMA PreviewFits ==
    ASSUME TypeOK, draft # NoDraft
    PROVE  /\ PreviewOf(draft, root) \in Preview
           /\ PreviewOf(draft, root).schema = contract
           /\ PreviewOf(draft, root).revision = draft.revision
<1>1. draft.revision \in Revisions /\ draft.content \in Content
  BY DraftFields
<1> QED BY <1>1 DEF PreviewOf, Preview, Content, Resolve, Configs, TypeOK

LEMMA PreviewMoves == ASSUME ManagementInv, PreviewDraft PROVE ManagementInv'
<1> USE DEF ManagementInv, tables
<1>1. /\ shown' = shown \cup {PreviewOf(draft, root)} /\ draft # NoDraft
      /\ UNCHANGED <<tables, calls, root, contract, up>>
  BY DEF PreviewDraft
<1>2. ManagementType'
  BY <1>1, PreviewFits DEF ManagementType, TypeOK
<1>3. CallsKnow' /\ PublishedWasShown' /\ VersionsLinked' /\ VersionsLoad'
  BY <1>1 DEF CallsKnow, CallKnows, PublishedWasShown, VersionsLinked, VersionsLoad, Loads
<1>4. AuditExplainsState'
  BY <1>1 DEF AuditExplainsState
<1> QED BY <1>2, <1>3, <1>4

LEMMA RestartMoves ==
    ASSUME ManagementInv, NEW c \in Contracts, Restart(c)
    PROVE  ManagementInv'
<1> USE DEF ManagementInv, tables
<1>1. /\ contract' = c /\ up' = \A v \in Range(versions) : v.payload.schema = c
      /\ calls' = [h \in Handlers |-> Idle]
      /\ UNCHANGED <<tables, shown, root>>
  BY DEF Restart
<1>2. ManagementType'
  BY <1>1, IdleFits DEF ManagementType, TypeOK
<1>3. CallsKnow'
  BY <1>1 DEF CallsKnow, CallKnows, Idle
<1>4. PublishedWasShown' /\ VersionsLinked' /\ VersionsLoad'
  BY <1>1 DEF PublishedWasShown, VersionsLinked, VersionsLoad, Loads
<1>5. AuditExplainsState'
  BY <1>1 DEF AuditExplainsState
<1> QED BY <1>2, <1>3, <1>4, <1>5

(* A publication appends a version with the next number, linked to the one  *)
(* before, whose payload was shown under the running schema.                *)
LEMMA ActivationMoves ==
    ASSUME ManagementInv, NEW q \in Requests, NEW kind, NEW payload \in shown,
           payload.schema = contract, NEW event \in VersionEvents,
           Activated(q, kind, VersionOf(Len(versions) + 1, Len(versions), payload)),
           Audited(event, Len(versions) + 1),
           UNCHANGED <<draft, shown, root, contract, up>>,
           calls' \in [Handlers -> Calls],
           \A g \in Handlers : calls'[g] \in {calls[g], Idle}
    PROVE  ManagementInv'
<1> USE DEF ManagementInv
<1> DEFINE n == Len(versions)
           version == VersionOf(n + 1, n, payload)
           r == [event |-> event, ref |-> n + 1]
<1>0. /\ TypeOK /\ audit \in Seq(AuditRecord) /\ draft.revision \in Nat
      /\ versions \in Seq(Version) /\ n \in Nat /\ DOMAIN versions = 1..n
  BY DraftFields DEF ManagementType, TypeOK
<1>1. /\ versions' = Append(versions, version) /\ active' = version.number
      /\ audit' = Append(audit, r)
      /\ receipts' = [receipts EXCEPT ![q] = [kind |-> kind, number |-> version.number]]
  BY DEF Activated, Audited
<1>2. /\ version \in Version /\ version.number = n + 1 /\ version.previous = n
      /\ version.payload = payload
  BY <1>0 DEF VersionOf, Version, TypeOK
<1>3. r \in AuditRecord /\ r.ref = n + 1 /\ r.event = event
  BY <1>0 DEF AuditRecord, ActiveEvents
<1> HIDE DEF version, r
<1>4. /\ versions' \in Seq(Version) /\ Len(versions') = n + 1 /\ DOMAIN versions' = 1..(n + 1)
      /\ versions'[n + 1] = version /\ \A i \in 1..n : versions'[i] = versions[i]
  BY <1>0, <1>1, <1>2
<1> HIDE DEF n
<1>5. ManagementType'
  <2>1. TypeOK'
    BY <1>0, <1>1, <1>2, <1>4 DEF TypeOK
  <2>2. audit' \in Seq(AuditRecord)
    BY <1>0, <1>1, <1>3
  <2>3. DOMAIN receipts' = Requests
    BY <1>1 DEF ManagementType
  <2> QED BY <2>1, <2>2, <2>3 DEF ManagementType
<1>6. CallsKnow'
  <2> SUFFICES ASSUME NEW g \in Handlers PROVE CallKnows(calls[g])'
    BY DEF CallsKnow
  <2>1. CallKnows(calls[g]) /\ CallKnows(Idle)
    BY IdleFits DEF CallsKnow
  <2> QED BY <2>1 DEF CallKnows
<1>7. \A v \in Range(versions') : v \in Range(versions) \/ v = version
  BY <1>0, <1>4 DEF Range
<1>8. PublishedWasShown' /\ VersionsLoad'
  BY <1>2, <1>7 DEF PublishedWasShown, VersionsLoad, Loads
<1>9. VersionsLinked'
  BY <1>0, <1>1, <1>2, <1>4 DEF VersionsLinked
<1>10. AuditExplainsState'
  <2>1. event \notin DraftEvents /\ event \in ActiveEvents /\ event # "version_retired"
    BY DEF DraftEvents, VersionEvents, ActiveEvents
  <2>2. Numbers(audit', DraftEvents, draft.revision)
    BY <1>0, <1>1, <1>3, <2>1, NumbersAppended DEF AuditExplainsState
  <2>3. Numbers(audit', VersionEvents, n + 1)
    BY <1>0, <1>1, <1>3, <2>1, NumbersAppended DEF AuditExplainsState, n
  <2>4. ActiveIn(audit', n + 1)
    BY <1>0, <1>1, <1>3, <2>1, ActiveAppended DEF AuditExplainsState
  <2>5. \A i \in Records(audit', DraftEvents) :
          i \in Records(audit, DraftEvents) /\ audit'[i] = audit[i]
    BY <1>0, <1>1, <1>3, <2>1 DEF Records
  <2> QED BY <1>1, <1>2, <1>4, <2>2, <2>3, <2>4, <2>5 DEF AuditExplainsState
<1> QED BY <1>5, <1>6, <1>8, <1>9, <1>10

LEMMA LatestIsLength ==
    ASSUME ManagementInv PROVE LatestNumber = Len(versions)
<1>1. versions \in Seq(Version)
  BY DEF ManagementInv, ManagementType, TypeOK
<1> QED BY <1>1 DEF ManagementInv, VersionsLinked, LatestNumber, Last

LEMMA PublicationMoves ==
    ASSUME ManagementInv, NEW h \in Handlers, PublicationStep(h)
    PROVE  ManagementInv'
<1> USE DEF ManagementInv
<1>0. TypeOK /\ calls \in [Handlers -> Calls] /\ calls[h] \in Calls
  BY DEF ManagementType
<1>1. ASSUME NEW q \in Requests, NEW p \in shown, NEW a \in {0, active}, PublishDraft(h, q, p, a)
      PROVE  ManagementInv'
  <2> DEFINE call == [op |-> "publish", request |-> q, base |-> a, preview |-> p]
  <2>1. Proceed(h, call) /\ PreviewOf(draft, root) = p
    BY <1>1 DEF PublishDraft
  <2>2. p \in Preview /\ p.schema = contract /\ a \in Nat
    BY <1>0, <2>1 DEF TypeOK, PreviewOf
  <2>3. call \in Calls /\ CallKnows(call)
    BY <2>2 DEF Calls, PublishCalls, CallKnows
  <2> QED BY <2>1, <2>3, ProceedMoves
<1>2. CASE Publish(h)
  <2> DEFINE q == calls[h].request
             p == calls[h].preview
  <2>1. /\ calls[h].op = "publish" /\ Return(h)
        /\ Activated(q, "publish", VersionOf(Len(versions) + 1, Len(versions), p))
        /\ Audited("version_published", Len(versions) + 1)
        /\ UNCHANGED <<draft, shown, root, contract, up>>
    BY <1>2, LatestIsLength DEF Publish
  <2>2. q \in Requests /\ p \in shown /\ p.schema = contract
    BY <1>0, <2>1, CallFields DEF PublishCalls, CallsKnow, CallKnows
  <2>3. /\ calls' \in [Handlers -> Calls]
        /\ \A g \in Handlers : calls'[g] \in {calls[g], Idle}
    BY <1>0, <2>1, IdleFits DEF Return
  <2>4. "version_published" \in VersionEvents
    BY DEF VersionEvents
  <2> HIDE DEF p, q
  <2> QED BY <2>1, <2>2, <2>3, <2>4, ActivationMoves
<1>3. CASE RefusePublish(h)
  BY <1>3, ReturnMoves DEF RefusePublish
<1> QED BY <1>1, <1>2, <1>3 DEF PublicationStep

LEMMA RollbackMoves ==
    ASSUME ManagementInv, NEW q \in Requests, NEW a, NEW source, Rollback(q, a, source)
    PROVE  ManagementInv'
<1> USE DEF ManagementInv
<1>1. PICK v \in Stored(source) :
        /\ Loads(v)
        /\ Activated(q, "rollback", VersionOf(Len(versions) + 1, active,
                                              [v.payload EXCEPT !.schema = contract]))
        /\ Audited("version_rolled_back", Len(versions) + 1)
  BY LatestIsLength DEF Rollback
<1>2. v \in Version /\ v \in Range(versions)
  BY DEF Stored, ManagementType, TypeOK, Range
<1>3. [v.payload EXCEPT !.schema = contract] = v.payload
  BY <1>1, <1>2 DEF Loads, Version, Preview
<1>4. v.payload \in shown /\ v.payload.schema = contract
  BY <1>1, <1>2 DEF PublishedWasShown, Loads
<1>5. active = Len(versions) /\ UNCHANGED <<draft, calls, shown, root, contract, up>>
  BY DEF Rollback, VersionsLinked, process
<1>6. "version_rolled_back" \in VersionEvents /\ calls' \in [Handlers -> Calls]
  BY <1>5 DEF VersionEvents, ManagementType
<1> QED BY <1>1, <1>3, <1>4, <1>5, <1>6, ActivationMoves

LEMMA RetireMoves ==
    ASSUME ManagementInv, NEW q \in Requests, NEW a, Retire(q, a)
    PROVE  ManagementInv'
<1> USE DEF ManagementInv
<1> DEFINE r == [event |-> "version_retired", ref |-> a]
<1>0. /\ TypeOK /\ audit \in Seq(AuditRecord) /\ draft.revision \in Nat
      /\ Len(versions) \in Nat /\ active \in Nat
  BY DraftFields DEF ManagementType, TypeOK
<1>1. /\ audit' = Append(audit, r) /\ active' = 0 /\ a = active
      /\ receipts' = [receipts EXCEPT ![q] = [kind |-> "retire", number |-> a]]
      /\ UNCHANGED <<draft, versions, calls, shown, root, contract, up>>
  BY DEF Retire, Audited, process
<1>2. r \in AuditRecord /\ r.event = "version_retired"
  BY <1>0, <1>1 DEF AuditRecord, ActiveEvents
<1>3. /\ r.event \in ActiveEvents /\ r.event \notin DraftEvents \cup VersionEvents
  BY DEF DraftEvents, ActiveEvents, VersionEvents
<1> HIDE DEF r
<1>4. ManagementType'
  <2>1. TypeOK'
    BY <1>0, <1>1 DEF TypeOK
  <2>2. audit' \in Seq(AuditRecord)
    BY <1>0, <1>1, <1>2
  <2> QED BY <1>1, <2>1, <2>2 DEF ManagementType
<1>5. CallsKnow' /\ PublishedWasShown' /\ VersionsLinked' /\ VersionsLoad'
  BY <1>1 DEF CallsKnow, CallKnows, PublishedWasShown, VersionsLinked, VersionsLoad, Loads
<1>6. AuditExplainsState'
  <2>1. /\ Numbers(audit', DraftEvents, draft.revision)
        /\ Numbers(audit', VersionEvents, Len(versions))
    BY <1>0, <1>1, <1>2, <1>3, NumbersAppended DEF AuditExplainsState
  <2>2. ActiveIn(audit', 0)
    BY <1>0, <1>1, <1>2, <1>3, ActiveAppended DEF AuditExplainsState
  <2>3. \A i \in Records(audit', DraftEvents) :
          i \in Records(audit, DraftEvents) /\ audit'[i] = audit[i]
    BY <1>0, <1>1, <1>3 DEF Records
  <2> QED BY <1>1, <2>1, <2>2, <2>3 DEF AuditExplainsState
<1> QED BY <1>4, <1>5, <1>6

LEMMA ManagementMoves == ASSUME ManagementInv, Next PROVE ManagementInv'
<1>1. ASSUME NEW h \in Handlers, EditStep(h) PROVE ManagementInv'
  BY <1>1, EditorsMove, SaveMoves, ReturnMoves DEF EditStep, RefuseSave
<1>2. ASSUME NEW tree \in Roots, EditConfigTree(tree) PROVE ManagementInv'
  <2>1. UNCHANGED <<tables, calls, shown, contract, up>> /\ root' \in Roots
    BY <1>2 DEF EditConfigTree
  <2>2. calls' \in [Handlers -> Calls] /\ CallsKnow'
    BY <2>1 DEF ManagementInv, ManagementType, CallsKnow, CallKnows, tables
  <2> QED BY <2>1, <2>2, CallsMove
<1> QED BY <1>1, <1>2, PublicationMoves, ValidateMoves, PreviewMoves, RetireMoves,
           RollbackMoves, RestartMoves DEF Next

LEMMA ManagementRests == ASSUME ManagementInv, UNCHANGED vars PROVE ManagementInv'
<1>1. UNCHANGED <<tables, calls, shown, root, contract, up>>
  BY DEF vars, process
<1>2. calls' \in [Handlers -> Calls] /\ CallsKnow' /\ root' \in Roots
  BY <1>1 DEF ManagementInv, ManagementType, TypeOK, CallsKnow, CallKnows, tables
<1> QED BY <1>1, <1>2, CallsMove

LEMMA InvariantManagement == WorkbenchSpec => []ManagementInv
<1>1. WorkbenchInit => ManagementInv
  BY ManagementInitially DEF WorkbenchInit
<1>2. ManagementInv /\ [WorkbenchNext]_workbenchVars => ManagementInv'
  BY ManagementMoves, ManagementRests DEF WorkbenchNext, workbenchVars
<1> QED BY <1>1, <1>2, PTL DEF WorkbenchSpec

(* The types of the tables and of the process.                              *)
THEOREM ManagementTypeCorrect == WorkbenchSpec => []TypeOK
<1>1. ManagementInv => TypeOK
  BY DEF ManagementInv, ManagementType
<1> QED BY <1>1, InvariantManagement, PTL

(* The versions form one line of which only the newest may be active, the   *)
(* audit log numbers what the tables hold, and a process that runs can load *)
(* every version: whatever publications, rollbacks, retirements, edits and  *)
(* restarts of other builds race (repository.py, publish, rollback, retire, *)
(* _require_current_contract_fingerprint).                                  *)
THEOREM HistoryAlwaysSound == WorkbenchSpec => []HistorySound
<1>1. ManagementInv => HistorySound
  BY DEF ManagementInv, HistorySound
<1> QED BY <1>1, InvariantManagement, PTL

(* Every stored payload is one an operator was shown: a publish call holds  *)
(* a preview that was shown under the running schema, until its commit or   *)
(* the end of the process (publish_draft, rollback).                        *)
THEOREM PublishedWasAlwaysShown == WorkbenchSpec => []PublishedWasShown
<1>1. ManagementInv => PublishedWasShown
  BY DEF ManagementInv
<1> QED BY <1>1, InvariantManagement, PTL

-----------------------------------------------------------------------------
(* A catalog import that reaches its commit replaces the catalog only: the  *)
(* call it saves still has the families and the override of the revision it *)
(* expects, which is the one the commit replaces (import_catalog,           *)
(* import_dataset, save_draft).                                             *)
THEOREM CatalogImportsKeepTheRest == WorkbenchSpec => CatalogImportKeepsTheRest
<1>1. ManagementInv /\ [WorkbenchNext]_workbenchVars =>
        [\A h \in Handlers :
           /\ calls[h].op = "save"
           /\ calls[h].kind = "catalog"
           /\ calls'[h].op = "idle"
           /\ draft' # draft
           => /\ draft.content.families = draft'.content.families
              /\ draft.content.override = draft'.content.override]_vars
  <2> SUFFICES ASSUME ManagementInv, [WorkbenchNext]_workbenchVars, NEW h \in Handlers,
                      calls[h].op = "save", calls[h].kind = "catalog",
                      calls'[h].op = "idle", draft' # draft
               PROVE  /\ draft.content.families = draft'.content.families
                      /\ draft.content.override = draft'.content.override
    OBVIOUS
  <2>1. Next
    BY DEF WorkbenchNext, workbenchVars, vars, tables
  <2>2. PICK g \in Handlers : SaveDraft(g)
    BY <2>1 DEF Next, EditStep, PublicationStep, WriteDraft, SeedDraft, ImportDataset, ImportCatalog,
       ImportDerivedDataset, RefuseSave, PublishDraft, Publish, RefusePublish, ValidateDraft,
       PreviewDraft, Retire, Rollback, EditConfigTree, Restart, Proceed, tables
  <2>3. calls \in [Handlers -> Calls]
    BY DEF ManagementInv, ManagementType
  <2>4. g = h
    BY <2>2, <2>3 DEF SaveDraft, Return
  <2>5. draft.revision = calls[h].expected /\ CallKnows(calls[h])
    BY <2>2, <2>4 DEF SaveDraft, Saves, ManagementInv, CallsKnow
  <2>6. draft'.content = calls[h].content
    BY <2>2, <2>4 DEF SaveDraft
  <2> QED BY <2>5, <2>6 DEF CallKnows
<1> QED BY <1>1, InvariantManagement, PTL DEF WorkbenchSpec, CatalogImportKeepsTheRest

-----------------------------------------------------------------------------
(* The abstract history a state stands for.                                 *)

Line == [i \in DOMAIN versions |-> ContentOf(versions[i].payload)]
Answers == [q \in Requests |-> receipts[q].number]

(* A step that appends a version publishes, in the abstract, and answers    *)
(* its request.                                                             *)
LEMMA ActivationPublishes ==
    ASSUME ManagementInv, NEW q \in Requests, NEW kind, Unanswered(q), NEW payload \in Preview,
           NEW n, NEW previous,  n = Len(versions) + 1,
           Activated(q, kind, VersionOf(n, previous, payload))
    PROVE  History!Publish(q)
<1> DEFINE version == VersionOf(n, previous, payload)
<1>0. /\ versions \in Seq(Version) /\ Len(versions) \in Nat /\ DOMAIN receipts = Requests
      /\ DOMAIN versions = 1..Len(versions)
  BY DEF ManagementInv, ManagementType, TypeOK
<1>1. version.number = n /\ version.payload = payload
  BY DEF VersionOf
<1>2. /\ versions' = Append(versions, version) /\ active' = n
      /\ receipts' = [receipts EXCEPT ![q] = [kind |-> kind, number |-> n]]
  BY <1>1 DEF Activated
<1> HIDE DEF version
<1>3. /\ DOMAIN versions' = 1..n /\ versions'[n] = version
      /\ \A i \in 1..Len(versions) : versions'[i] = versions[i]
  BY <1>0, <1>2
<1>4. Line \in Seq(Contents) /\ Line' \in Seq(Contents)
  <2>1. \A p \in Preview : ContentOf(p) \in Contents
    BY DEF Preview, ContentOf, Contents
  <2>2. \A i \in 1..Len(versions) : versions[i].payload \in Preview
    <3>1. \A i \in 1..Len(versions) : versions[i] \in Version
      BY <1>0
    <3> QED BY <3>1 DEF Version
  <2>3. \A i \in 1..n : versions'[i].payload \in Preview
    BY <1>0, <1>1, <1>3, <2>2
  <2>4. Line \in [1..Len(versions) -> Contents] /\ Line' \in [1..n -> Contents]
    BY <1>0, <1>3, <2>1, <2>2, <2>3 DEF Line
  <2> QED BY <1>0, <2>4
<1>5. Len(Line) = Len(versions) /\ Len(Line') = n
  BY <1>0, <1>3, <1>4 DEF Line
<1>6. \A i \in 1..Len(versions) : Line'[i] = Line[i]
  BY <1>0, <1>3 DEF Line
<1>7. Answers[q] = 0 /\ Answers' = [Answers EXCEPT ![q] = n]
  <2>1. receipts[q].number = 0
    BY DEF Unanswered, NoReceipt
  <2>2. \A x \in Requests : receipts'[x].number = IF x = q THEN n ELSE receipts[x].number
    BY <1>0, <1>2
  <2> QED BY <2>1, <2>2 DEF Answers
<1>8. SubSeq(Line, 1, Len(Line)) = SubSeq(Line', 1, Len(Line))
  BY <1>0, <1>4, <1>5, <1>6
<1>9. Line'[n] \in Contents
  BY <1>0, <1>4, <1>5
<1> QED BY <1>0, <1>2, <1>5, <1>7, <1>8, <1>9 DEF History!Publish, History!IsPrefix, History!Last, Line, Answers

LEMMA RetirementRetires ==
    ASSUME ManagementInv, NEW q \in Requests, NEW a, Retire(q, a)
    PROVE  History!Retire(q)
<1>1. /\ DOMAIN receipts = Requests /\ Unanswered(q) /\ active # 0 /\ a = active /\ active' = 0
      /\ receipts' = [receipts EXCEPT ![q] = [kind |-> "retire", number |-> a]]
      /\ versions' = versions
  BY DEF ManagementInv, ManagementType, Retire
<1>2. receipts[q].number = 0
  BY <1>1 DEF Unanswered, NoReceipt
<1>3. Line' = Line
  BY <1>1 DEF Line
<1>4. Answers[q] = 0 /\ Answers' = [Answers EXCEPT ![q] = active]
  <2>1. \A x \in Requests : receipts'[x].number = IF x = q THEN active ELSE receipts[x].number
    BY <1>1
  <2> QED BY <1>2, <2>1 DEF Answers
<1> QED BY <1>1, <1>3, <1>4 DEF History!Retire, Line, Answers

LEMMA HistorySteps ==
    ManagementInv /\ [WorkbenchNext]_workbenchVars => [History!Next]_(History!historyVars)
<1> SUFFICES ASSUME ManagementInv, [WorkbenchNext]_workbenchVars
             PROVE  History!Next \/ UNCHANGED History!historyVars
  OBVIOUS
<1>1. CASE UNCHANGED <<versions, active, receipts>>
  BY <1>1 DEF History!historyVars
<1>2. CASE \E h \in Handlers : Publish(h)
  <2>1. PICK h \in Handlers : Publish(h)
    BY <1>2
  <2>2. calls[h] \in PublishCalls
    BY <2>1, CallFields DEF Publish, ManagementInv, ManagementType
  <2>3. PICK q \in Requests, p \in Preview : q = calls[h].request /\ p = calls[h].preview
    BY <2>2 DEF PublishCalls
  <2>4. PICK previous : previous = LatestNumber
    OBVIOUS
  <2>a. PICK n : n = Len(versions) + 1
    OBVIOUS
  <2>b. Unanswered(q) /\ Activated(q, "publish", VersionOf(n, previous, p))
    BY <2>1, <2>3, <2>4, <2>a, LatestIsLength DEF Publish, Publishes
  <2>5. History!Publish(q)
    BY <2>a, <2>b, ActivationPublishes
  <2> QED BY <2>5 DEF History!Next
<1>3. CASE \E q \in Requests, a \in DOMAIN versions, source \in DOMAIN versions : Rollback(q, a, source)
  <2>1. PICK q \in Requests, a \in DOMAIN versions, source \in DOMAIN versions : Rollback(q, a, source)
    BY <1>3
  <2>2. PICK v \in Stored(source) :
          Activated(q, "rollback", VersionOf(Len(versions) + 1, active,
                                             [v.payload EXCEPT !.schema = contract]))
    BY <2>1, LatestIsLength DEF Rollback
  <2>3. [v.payload EXCEPT !.schema = contract] \in Preview
    <3>1. v \in Version /\ contract \in Contracts
      BY DEF Stored, Range, ManagementInv, ManagementType, TypeOK
    <3> QED BY <3>1 DEF Version, Preview
  <2>4. History!Publish(q)
    BY <2>1, <2>2, <2>3, ActivationPublishes DEF Rollback
  <2> QED BY <2>4 DEF History!Next
<1>4. CASE \E q \in Requests, a \in DOMAIN versions : Retire(q, a)
  BY <1>4, RetirementRetires DEF History!Next
<1>5. CASE Next /\ ~(\E h \in Handlers : Publish(h))
  BY <1>1, <1>3, <1>4, <1>5 DEF Next, EditStep, PublicationStep, WriteDraft, SeedDraft, ImportDataset,
     ImportCatalog, ImportDerivedDataset, SaveDraft, RefuseSave, PublishDraft, RefusePublish,
     ValidateDraft, PreviewDraft, EditConfigTree, Restart, Proceed, tables
<1> QED BY <1>1, <1>2, <1>5 DEF WorkbenchNext, workbenchVars, vars, tables

(* The repository implements the abstract history: every publication and    *)
(* rollback appends one content and serves it, every retirement withdraws   *)
(* the served one, each request id has one effect, and no other step of any *)
(* handler, restart or edit of the tree changes what callers were promised  *)
(* (the protocol MerchantConfigurationRepository).                          *)
THEOREM RepositoryImplementsHistory == WorkbenchSpec => ImplementsPublicationHistory
<1>1. WorkbenchInit => History!Init
  BY DEF WorkbenchInit, Init, History!Init, NoReceipt
<1> QED BY <1>1, HistorySteps, InvariantManagement, PTL
        DEF WorkbenchSpec, ImplementsPublicationHistory, History!Spec
=============================================================================
