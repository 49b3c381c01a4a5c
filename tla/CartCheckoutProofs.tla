------------------------- MODULE CartCheckoutProofs --------------------------
(***************************************************************************)
(* Proofs about the cart, for any number of products, requests, faults and *)
(* crashes. First that the copies of a session's state follow one another  *)
(* (RInv): the local projection is the row or older, and the checkpoint at *)
(* most one operation behind the row. Then, with what each node knows of   *)
(* its request (CInv), that the caller is told what is so (RecordsAgree)   *)
(* and that the cart changes only by consent (CartChangesAreConsented).    *)
(***************************************************************************)
EXTENDS CartCheckout, TLAPS

(* What the invariants need of the types: the fields of the records and     *)
(* that revisions are numbers.                                              *)
GraphFields == {"node", "key", "origin", "ask", "rev"}
PayloadFields == {"rev", "lines", "receipts", "guest"}

GraphShape(g) == DOMAIN g = GraphFields /\ g.ask \in {1, 2}

Shape ==
    /\ DOMAIN row = PayloadFields /\ row.rev \in Nat
    /\ DOMAIN local = PayloadFields /\ local.rev \in Nat
    /\ GraphShape(graph) /\ graph.rev \in Nat
    /\ GraphShape(saved) /\ saved.rev \in Nat

(* The graph of a living worker knows the revision its projection has, and  *)
(* its checkpoints are not ahead of it.                                     *)
GraphKnowsLocal ==
    /\ worker = "up" => graph.rev = local.rev
    /\ worker # "up" => graph = saved
    /\ saved.rev <= graph.rev

(* The nodes on the way to a publication, and the recoveries that may make  *)
(* one: their turn began with its checkpoint written and nothing was        *)
(* committed since, so the checkpoint has the graph's revision.             *)
OnTheWay ==
    \/ graph.node \in {"guardrail", "mutation_apply", "place", "read"}
    \/ graph.node \in {"seeded", "recover"} /\ graph.origin # "ack"

CheckpointCurrent == worker = "up" /\ OnTheWay => saved.rev = graph.rev

(* The steps of a placement belong to its node, the one of a publication    *)
(* also to its recovery; a worker that is gone runs none.                   *)
StepFits ==
    /\ step \in {"placing", "quiesce"} => graph.node = "place"
    /\ step = "publish" =>
          \/ graph.node = "place"
          \/ graph.node = "recover" /\ graph.origin = "place"
    /\ worker # "up" => step = "none"

RInv == Shape /\ LocalFollowsRow /\ CheckpointGap /\ GraphKnowsLocal /\ CheckpointCurrent
            /\ StepFits

-----------------------------------------------------------------------------
(* The fields of the graph states the actions build.                        *)
LEMMA AtShape ==
    ASSUME NEW node, NEW k, NEW rev
    PROVE  /\ GraphShape(At(node, k, rev))
           /\ At(node, k, rev).node = node
           /\ At(node, k, rev).rev = rev
           /\ At(node, k, rev).origin = "none"
BY DEF At, GraphFields, GraphShape

LEMMA MarkerShape ==
    ASSUME NEW node, NEW origin, NEW k, NEW rev
    PROVE  /\ GraphShape(Marker(node, origin, k, rev))
           /\ Marker(node, origin, k, rev).node = node
           /\ Marker(node, origin, k, rev).rev = rev
           /\ Marker(node, origin, k, rev).origin = origin
BY DEF Marker, At, GraphFields, GraphShape

(* A request changes the fields of a projection, not which there are.       *)
LEMMA MutatedShape ==
    ASSUME NEW p, NEW k, NEW rev, DOMAIN p = PayloadFields
    PROVE  LET q == [Mutated(p, k) EXCEPT !.rev = rev]
           IN  DOMAIN q = PayloadFields /\ q.rev = rev
<1>1. DOMAIN Mutated(p, k) = PayloadFields
  BY DEF Mutated, PayloadFields
<1> QED BY <1>1 DEF PayloadFields

LEMMA InitRInv == Init => RInv
<1> SUFFICES ASSUME Init PROVE RInv
  OBVIOUS
<1>1. /\ DOMAIN row = PayloadFields /\ row.rev = 0
      /\ local = row
      /\ graph = Rest(0) /\ saved = graph /\ worker = "up" /\ step = "none"
  BY DEF Init, PayloadFields
<1>2. GraphShape(graph) /\ graph.rev = 0 /\ graph.node = "idle"
  BY <1>1, AtShape DEF Rest
<1> QED BY <1>1, <1>2 DEF RInv, Shape, LocalFollowsRow, CheckpointGap, GraphKnowsLocal,
         CheckpointCurrent, OnTheWay, StepFits

-----------------------------------------------------------------------------
(* A step that moves only the graph, within the revision it knows: it may   *)
(* come on the way to a publication only from a turn whose checkpoint is    *)
(* written, or from such a way.                                             *)
LEMMA GraphMoves ==
    ASSUME RInv, worker = "up", UNCHANGED <<row, local, saved, worker>>,
           GraphShape(graph'), graph'.rev = graph.rev,
           OnTheWay' => OnTheWay \/ saved = graph,
           StepFits'
    PROVE  RInv'
<1>1. Shape' /\ LocalFollowsRow' /\ CheckpointGap'
  BY DEF RInv, Shape, LocalFollowsRow, CheckpointGap
<1>2. GraphKnowsLocal' /\ CheckpointCurrent'
  BY DEF RInv, GraphKnowsLocal, CheckpointCurrent
<1> QED BY <1>1, <1>2 DEF RInv

(* A step that also writes the checkpoint of the graph it moves to.         *)
LEMMA GraphMovesSaved ==
    ASSUME RInv, worker = "up", UNCHANGED <<row, local, worker>>,
           GraphShape(graph'), graph'.rev = graph.rev, saved' = graph',
           StepFits'
    PROVE  RInv'
<1>1. graph.rev <= row.rev /\ row.rev <= graph.rev + 1
  BY DEF RInv, Shape, LocalFollowsRow, CheckpointGap, GraphKnowsLocal
<1>2. Shape' /\ LocalFollowsRow' /\ CheckpointGap'
  BY <1>1 DEF RInv, Shape, LocalFollowsRow, CheckpointGap
<1>3. GraphKnowsLocal' /\ CheckpointCurrent'
  BY DEF RInv, Shape, GraphKnowsLocal, CheckpointCurrent
<1> QED BY <1>2, <1>3 DEF RInv

(* A step that moves none of the copies.                                    *)
LEMMA NothingMoves ==
    ASSUME RInv, UNCHANGED <<row, local, graph, saved, worker>>, StepFits'
    PROVE  RInv'
<1>1. Shape' /\ LocalFollowsRow' /\ CheckpointGap'
  BY DEF RInv, Shape, LocalFollowsRow, CheckpointGap
<1>2. GraphKnowsLocal' /\ CheckpointCurrent'
  BY DEF RInv, GraphKnowsLocal, CheckpointCurrent, OnTheWay
<1> QED BY <1>1, <1>2 DEF RInv

(* The end of a turn is between turns or at a readback, at the revision it  *)
(* is given.                                                                *)
LEMMA EndTurnShape ==
    ASSUME NEW rev, EndTurn(rev)
    PROVE  /\ GraphShape(graph')
           /\ graph'.rev = rev
           /\ graph'.node \in {"idle", "confirm", "mutation_confirm"}
<1>1. graph' = Rest(rev) \/ graph' = At(ConfirmOf(detour), detour, rev)
  BY DEF EndTurn
<1>2. ConfirmOf(detour) \in {"confirm", "mutation_confirm"}
  BY DEF ConfirmOf
<1> QED BY <1>1, <1>2, AtShape DEF Rest

LEMMA FailMoves ==
    ASSUME RInv, Running, Fail, UNCHANGED <<row, local, saved, worker>>
    PROVE  RInv'
<1>1. worker = "up" /\ step' = "none"
  BY DEF Running, Fail
<1>2. CASE graph.node = "recover"
  <2>1. graph' = At("terminal", 0, graph.rev)
    BY <1>2 DEF Fail
  <2> QED BY <1>1, <2>1, AtShape, GraphMoves DEF OnTheWay, StepFits
<1>3. CASE graph.node # "recover"
  <2>1. graph' = Marker("recover", graph.node, graph.key, graph.rev)
    BY <1>3 DEF Fail
  <2>2. /\ GraphShape(graph') /\ graph'.rev = graph.rev
        /\ graph'.node = "recover" /\ graph'.origin = graph.node
    BY <2>1, MarkerShape
  <2>3. OnTheWay' => OnTheWay
    BY <1>3, <2>2 DEF OnTheWay, Running
  <2> QED BY <1>1, <2>2, <2>3, GraphMoves DEF StepFits
<1> QED BY <1>2, <1>3

LEMMA SeedMoves ==
    ASSUME NEW origin, RInv, worker = "up", Seed(origin), UNCHANGED <<row, local, worker>>
    PROVE  RInv'
<1>1. /\ GraphShape(graph') /\ graph'.rev = graph.rev
      /\ saved' = graph' /\ step' = "none"
  BY MarkerShape DEF Seed
<1> QED BY <1>1, GraphMovesSaved DEF StepFits

-----------------------------------------------------------------------------
(* The caller mints a request between turns.                                *)
LEMMA MintMoves ==
    ASSUME NEW request, NEW node, RInv, Listening, Mint(request, node)
    PROVE  RInv'
<1>1. /\ GraphShape(graph') /\ graph'.rev = graph.rev
      /\ UNCHANGED <<row, local, saved, step, worker>>
  BY AtShape DEF Mint, durable
<1>2. worker = "up" /\ step' = "none" /\ saved = graph
  BY <1>1 DEF Listening
<1> QED BY <1>1, <1>2, GraphMoves DEF StepFits

LEMMA CallerMoves == ASSUME RInv, Caller PROVE RInv'
<1>1. CASE RequestMutation
  BY <1>1, MintMoves DEF RequestMutation
<1>2. CASE RequestPlacement
  BY <1>2, MintMoves DEF RequestPlacement
<1>3. CASE RequestRead
  BY <1>3, MintMoves DEF RequestRead
<1>4. ASSUME NEW r \in Replies, Answer(r) PROVE RInv'
  <2>1. /\ worker = "up" /\ step = "none" /\ saved = graph
        /\ UNCHANGED <<row, local, saved, step, worker>>
    BY <1>4 DEF Answer, Listening, durable
  <2>2. GraphShape(graph)
    BY DEF RInv, Shape
  <2>3. GraphShape(graph') /\ graph'.rev = graph.rev
    <3>1. CASE r = "yes"
      BY <1>4, <3>1, AtShape DEF Answer
    <3>2. CASE r = "unclear" /\ graph.ask = 1
      <4>1. graph' = [graph EXCEPT !.ask = 2]
        BY <1>4, <3>2 DEF Answer
      <4> QED BY <2>2, <4>1 DEF GraphFields, GraphShape
    <3>3. CASE r # "yes" /\ ~(r = "unclear" /\ graph.ask = 1)
      <4>1. graph' = Rest(graph.rev)
        BY <1>4, <2>2, <3>3 DEF Answer, Replies, GraphShape
      <4> QED BY <4>1, AtShape DEF Rest
    <3> QED BY <3>1, <3>2, <3>3
  <2> QED BY <2>1, <2>3, GraphMoves DEF StepFits
<1>5. CASE ResumeSeeded
  <2>1. /\ worker = "up" /\ step = "none" /\ saved = graph
        /\ UNCHANGED <<row, local, saved, step, worker>>
    BY <1>5 DEF ResumeSeeded, Listening, durable
  <2>2. GraphShape(graph') /\ graph'.rev = graph.rev
    BY <1>5, MarkerShape DEF ResumeSeeded
  <2> QED BY <2>1, <2>2, GraphMoves DEF StepFits
<1> QED BY <1>1, <1>2, <1>3, <1>4, <1>5 DEF Caller

-----------------------------------------------------------------------------
(* The nodes.                                                               *)
LEMMA NodesMove ==
    ASSUME RInv, Guardrail \/ StartPlacing \/ PlaceCart \/ PlacingReturns \/ Ack
    PROVE  RInv'
<1>1. CASE Guardrail
  <2>1. /\ worker = "up" /\ graph.node = "guardrail"
        /\ UNCHANGED <<row, local, saved, step, worker>>
    BY <1>1 DEF Guardrail, Running, durable
  <2>2. graph' = Rest(graph.rev) \/ graph' = At("confirm", graph.key, graph.rev)
    BY <1>1 DEF Guardrail
  <2>3. /\ GraphShape(graph') /\ graph'.rev = graph.rev
        /\ graph'.node \in {"idle", "confirm"}
    BY <2>2, AtShape DEF Rest
  <2>4. step' \notin {"publish", "placing", "quiesce"}
    BY <2>1 DEF RInv, StepFits
  <2> QED BY <2>1, <2>3, <2>4, GraphMoves DEF OnTheWay, StepFits
<1>2. CASE StartPlacing
  <2>1. /\ worker = "up" /\ graph.node = "place" /\ step' = "placing"
        /\ UNCHANGED <<row, local, graph, saved, worker>>
    BY <1>2 DEF StartPlacing, Running, durable
  <2>2. StepFits'
    BY <2>1 DEF StepFits
  <2> QED BY <2>1, <2>2, NothingMoves
<1>3. CASE PlaceCart
  BY <1>3, NothingMoves DEF PlaceCart, RInv, StepFits, durable
<1>4. CASE PlacingReturns
  <2>1. UNCHANGED <<row, local, graph, saved, worker>>
    BY <1>4 DEF PlacingReturns, durable
  <2>2. StepFits'
    BY <1>4, <2>1 DEF PlacingReturns, RInv, StepFits
  <2> QED BY <2>1, <2>2, NothingMoves
<1>5. CASE Ack
  <2>1. /\ worker = "up" /\ graph.node = "ack" /\ EndTurn(graph.rev)
        /\ UNCHANGED <<row, local, saved, step, worker>>
    BY <1>5 DEF Ack, Running, durable
  <2>2. step' \notin {"publish", "placing", "quiesce"}
    BY <2>1 DEF RInv, StepFits
  <2> QED BY <2>1, <2>2, EndTurnShape, GraphMoves DEF OnTheWay, StepFits
<1> QED BY <1>1, <1>2, <1>3, <1>4, <1>5

(* A commit happens over the revision of the checkpoint, because the node   *)
(* that publishes is on the way since that checkpoint was written.          *)
LEMMA PublishMoves == ASSUME RInv, Publish PROVE RInv'
<1>1. /\ worker = "up" /\ step' = "unacked"
      /\ UNCHANGED <<local, graph, saved, worker>>
  BY DEF Publish, Publishing, Running
<1>2. CASE UNCHANGED row
  BY <1>1, <1>2, NothingMoves DEF StepFits
<1>3. CASE /\ local.rev = row.rev
           /\ row' = [Mutated(local, graph.key) EXCEPT !.rev = row.rev + 1]
  <2>1. DOMAIN row' = PayloadFields /\ row'.rev = row.rev + 1
    BY <1>3, MutatedShape DEF RInv, Shape
  <2>2. OnTheWay
    BY DEF Publish, Publishing, RInv, StepFits, OnTheWay
  <2>3. saved.rev = row.rev
    BY <1>1, <1>3, <2>2 DEF RInv, CheckpointCurrent, GraphKnowsLocal
  <2>4. Shape' /\ LocalFollowsRow' /\ CheckpointGap'
    BY <1>1, <1>3, <2>1, <2>3 DEF RInv, Shape, LocalFollowsRow, CheckpointGap
  <2>5. GraphKnowsLocal' /\ CheckpointCurrent' /\ StepFits'
    BY <1>1 DEF RInv, GraphKnowsLocal, CheckpointCurrent, OnTheWay, StepFits
  <2> QED BY <2>4, <2>5 DEF RInv
<1> QED BY <1>2, <1>3 DEF Publish, durable

(* What was committed is installed, and the turn or its flow goes on at the *)
(* new revision, off the way to another publication.                        *)
LEMMA AcknowledgeMoves == ASSUME RInv, Acknowledge PROVE RInv'
<1>1. /\ worker = "up" /\ step' = "none" /\ local' = row
      /\ UNCHANGED <<row, saved, worker>>
  BY DEF Acknowledge, Complete, Running, durable
<1>2. EndTurn(row.rev) \/ graph' = At("ack", graph.key, row.rev)
  BY DEF Acknowledge, Complete
<1>3. /\ GraphShape(graph') /\ graph'.rev = row.rev
      /\ graph'.node \in {"idle", "confirm", "mutation_confirm", "ack"}
  BY <1>2, EndTurnShape, AtShape
<1>4. Shape' /\ LocalFollowsRow' /\ CheckpointGap'
  BY <1>1, <1>3 DEF RInv, Shape, LocalFollowsRow, CheckpointGap
<1>5. GraphKnowsLocal' /\ CheckpointCurrent' /\ StepFits'
  BY <1>1, <1>3 DEF RInv, GraphKnowsLocal, CheckpointCurrent, CheckpointGap, OnTheWay, StepFits
<1> QED BY <1>4, <1>5 DEF RInv

(* The recovery node ends the turn at the revision its projection has, or   *)
(* goes on to publish a placement the store has.                            *)
LEMMA RecoverMoves == ASSUME RInv, Recover PROVE RInv'
<1>1. /\ worker = "up" /\ graph.node = "recover" /\ step = "none"
      /\ UNCHANGED <<row, local, saved, worker>>
  BY DEF Recover, Running, durable
<1>2. graph.rev = local.rev
  BY <1>1 DEF RInv, GraphKnowsLocal
<1>3. CASE EndTurn(graph.rev) /\ UNCHANGED step
  BY <1>1, <1>3, EndTurnShape, GraphMoves DEF OnTheWay, StepFits
<1>4. CASE graph.origin = "place" /\ step' = "publish" /\ UNCHANGED graph
  <2>1. StepFits'
    BY <1>1, <1>4 DEF StepFits
  <2> QED BY <1>1, <1>4, <2>1, NothingMoves
<1>5. \/ EndTurn(graph.rev) /\ UNCHANGED step
      \/ graph.origin = "place" /\ step' = "publish" /\ UNCHANGED graph
  BY <1>2 DEF Recover, ReviewCart, ReconcilePlacement, AbortRequest
<1> QED BY <1>3, <1>4, <1>5

LEMMA ProgressMoves == ASSUME RInv, Progress PROVE RInv'
<1>1. CASE StaleRevision
  BY <1>1, FailMoves DEF StaleRevision, Publishing, durable
<1>2. CASE Quiesced
  <2>1. worker = "up" /\ UNCHANGED <<row, local, worker>>
    BY <1>2 DEF Quiesced, durable
  <2>2. CASE thread = 0
    BY <1>2, <2>1, <2>2, SeedMoves DEF Quiesced
  <2>3. CASE thread # 0
    <3>1. graph' = At("terminal", 0, graph.rev) /\ step' = "none" /\ UNCHANGED saved
      BY <1>2, <2>3 DEF Quiesced
    <3> QED BY <2>1, <3>1, AtShape, GraphMoves DEF OnTheWay, StepFits
  <2> QED BY <2>2, <2>3
<1>3. CASE Persist
  <2>1. /\ worker = "up" /\ saved' = graph
        /\ UNCHANGED <<row, local, graph, step, worker>>
    BY <1>3 DEF Persist, durable
  <2>2. GraphShape(graph') /\ StepFits'
    BY <2>1 DEF RInv, Shape, StepFits
  <2> QED BY <2>1, <2>2, GraphMovesSaved
<1> QED BY <1>1, <1>2, <1>3, NodesMove, PublishMoves, AcknowledgeMoves, RecoverMoves DEF Progress

-----------------------------------------------------------------------------
(* Failures and restores.                                                   *)
LEMMA FailureMoves == ASSUME RInv, Failure PROVE RInv'
<1>1. CASE NodeRaises
  BY <1>1, FailMoves DEF NodeRaises, durable
<1>2. CASE CancelTurn
  <2>1. worker = "up" /\ UNCHANGED <<row, local, worker>>
    BY <1>2 DEF CancelTurn, Running, durable
  <2>2. CASE step = "placing"
    <3>1. graph.node = "place"
      BY <2>2 DEF RInv, StepFits
    <3>2. UNCHANGED <<graph, saved>> /\ step' = "quiesce"
      BY <1>2, <2>2, <3>1 DEF CancelTurn
    <3>3. StepFits'
      BY <2>1, <3>1, <3>2 DEF StepFits
    <3> QED BY <2>1, <3>2, <3>3, NothingMoves
  <2>3. CASE step # "placing" /\ graph.node = "recover"
    <3>1. graph' = At("terminal", 0, graph.rev) /\ saved' = graph' /\ step' = "none"
      BY <1>2, <2>3 DEF CancelTurn
    <3> QED BY <2>1, <3>1, AtShape, GraphMovesSaved DEF StepFits
  <2>4. CASE step # "placing" /\ graph.node # "recover"
    BY <1>2, <2>1, <2>4, SeedMoves DEF CancelTurn
  <2> QED BY <2>2, <2>3, <2>4
<1>3. CASE CancelAnswer
  BY <1>3, SeedMoves DEF CancelAnswer, Listening, durable
<1>4. CASE Crash
  <2>1. /\ worker' = "down" /\ graph' = saved /\ step' = "none"
        /\ UNCHANGED <<row, local, saved>>
    BY <1>4 DEF Crash, durable
  <2> QED BY <2>1 DEF RInv, Shape, LocalFollowsRow, CheckpointGap, GraphKnowsLocal,
           CheckpointCurrent, StepFits
<1> QED BY <1>1, <1>2, <1>3, <1>4 DEF Failure

(* A session that is restored has its row, and its graph is at the row's    *)
(* revision with that as its checkpoint.                                    *)
LEMMA RestoredMoves ==
    ASSUME NEW state, RInv, worker = "down", Restored(state), GraphShape(state),
           state.rev = row.rev
    PROVE  RInv'
<1>1. /\ worker' = "up" /\ graph' = state /\ saved' = state /\ local' = row
      /\ UNCHANGED <<row, step>>
  BY DEF Restored, durable
<1>2. step' = "none"
  BY <1>1 DEF RInv, StepFits
<1>3. Shape' /\ LocalFollowsRow' /\ CheckpointGap'
  BY <1>1 DEF RInv, Shape, LocalFollowsRow, CheckpointGap
<1>4. GraphKnowsLocal' /\ CheckpointCurrent' /\ StepFits'
  BY <1>1, <1>2 DEF RInv, Shape, GraphKnowsLocal, CheckpointCurrent, StepFits
<1> QED BY <1>3, <1>4 DEF RInv

LEMMA RestoreMoves == ASSUME RInv, Restore PROVE RInv'
<1>1. CASE RestoreCurrent
  <2> DEFINE state == [saved EXCEPT !.ask = 1]
  <2>1. GraphShape(state) /\ state.rev = row.rev
    BY <1>1 DEF RestoreCurrent, CurrentRestorable, RInv, Shape, GraphShape, GraphFields
  <2>2. worker = "down" /\ Restored(state)
    BY <1>1 DEF RestoreCurrent
  <2> HIDE DEF state
  <2> QED BY <2>1, <2>2, RestoredMoves
<1>2. CASE RestoreAhead
  BY <1>2, MarkerShape, RestoredMoves DEF RestoreAhead
<1>3. CASE RefuseRestore
  BY <1>3 DEF RefuseRestore, RInv, Shape, LocalFollowsRow, CheckpointGap, GraphKnowsLocal,
          CheckpointCurrent, StepFits, durable
<1> QED BY <1>1, <1>2, <1>3 DEF Restore

LEMMA NextRInv == RInv /\ [Next]_vars => RInv'
<1> SUFFICES ASSUME RInv, [Next]_vars PROVE RInv'
  OBVIOUS
<1>1. CASE Next
  BY <1>1, CallerMoves, ProgressMoves, FailureMoves, RestoreMoves DEF Next
<1>2. CASE UNCHANGED vars
  BY <1>2, NothingMoves DEF vars, RInv, StepFits
<1> QED BY <1>1, <1>2

LEMMA InvariantRInv == Spec => []RInv
BY InitRInv, NextRInv, PTL DEF Spec

-----------------------------------------------------------------------------
(* What flows read of the session is the durable row or an older revision   *)
(* of it, never another content at the same revision: through commits whose *)
(* acknowledgement is lost, recoveries that publish again and restores on   *)
(* another worker (_commit and _install).                                   *)
THEOREM ProjectionFollowsRow == Spec => []LocalFollowsRow
<1>1. RInv => LocalFollowsRow
  BY DEF RInv
<1> QED BY <1>1, InvariantRInv, PTL

(* However often nodes fail, turns are cancelled and workers die, the       *)
(* durable checkpoint is the row's or one operation behind it: the gap      *)
(* reconcile_checkpoint_revision can explain. A node commits at most once   *)
(* between two checkpoints, because a turn begins with its checkpoint       *)
(* written and every commit leaves the nodes that publish.                  *)
THEOREM CheckpointIsExplained == Spec => []CheckpointGap
<1>1. RInv => CheckpointGap
  BY DEF RInv
<1> QED BY <1>1, InvariantRInv, PTL

-----------------------------------------------------------------------------
(* What the requests need: their types, as wide as the cart's arithmetic    *)
(* keeps them, and receipts of requests that were made.                     *)
Carts == [Skus -> Nat]
MadeRequest ==
    [op : Mutations, sku : Skus, quantity : Nat]
        \cup [op : {"place"}, lines : Carts, second : BOOLEAN]
        \cup [op : {"read"}]
Words == {"none", "declined", "changed", "placed", "unplaced", "aborted", "review"}

Typed ==
    /\ requests \in Seq(MadeRequest) /\ Len(requests) <= MaxKeys
    /\ row.lines \in Carts /\ local.lines \in Carts
    /\ ops \in [Keys -> Nat] /\ told \in [Keys -> Words]
    /\ step \in {"none", "placing", "quiesce", "publish", "unacked"}
    /\ \A k \in Keys : k \notin DOMAIN requests => ops[k] = 0 /\ told[k] = "none"

(* A graph state works on a request of its node's kind; a recovery on one   *)
(* of the kind of the node it stands for.                                   *)
Base(g) == IF g.node \in {"seeded", "recover"} THEN g.origin ELSE g.node
Mutating == {"mutation_confirm", "mutation_apply", "ack"}
Placing == {"guardrail", "confirm", "place"}

Fits(g) ==
    \/ g.node \in {"idle", "terminal"}
    \/ /\ g.key \in DOMAIN requests
       /\ \/ Base(g) \in Mutating /\ requests[g.key].op \in Mutations
          \/ Base(g) \in Placing /\ requests[g.key].op = "place"
          \/ Base(g) = "read" /\ requests[g.key].op = "read"

(* A placement that may still be published.                                 *)
Checkout(g) == g.node \in Placing \/ (g.node \in {"seeded", "recover"} /\ g.origin = "place")

(* A request on its way was agreed to, in the graph and in its checkpoint.  *)
Agreed(g) ==
    g.node # "idle" /\ Base(g) \in {"mutation_apply", "place"} => g.key \in consent

(* The graph of a living worker: nobody has been told anything of a request *)
(* on its way, a readback is of something not done, and a checkout is of    *)
(* the cart the worker knows.                                               *)
GraphKnown ==
    /\ graph.node \in {"mutation_apply", "place"} => told[graph.key] = "none"
    /\ graph.node = "mutation_confirm" => ops[graph.key] = 0
    /\ graph.node = "read" /\ step = "none" => ops[graph.key] = 0
    /\ graph.node = "ack" => ops[graph.key] # 0
    /\ Checkout(graph) /\ ops[graph.key] = 0 => requests[graph.key].lines = local.lines

(* How far a node is, and what is so then.                                  *)
StepKnown ==
    /\ step = "placing" => thread = graph.key \/ (thread = 0 /\ graph.key \in placed)
    /\ step = "publish" => graph.key \in placed
    /\ step = "unacked" =>
          /\ graph.node \in {"mutation_apply", "read", "place", "recover"}
          /\ graph.node = "recover" => graph.origin = "place"
          /\ ops[graph.key] # 0
          /\ graph.node \in {"place", "recover"} => graph.key \in placed
          /\ graph.node = "read" => row.lines = local.lines

(* The readback that was set aside is of something not done.                *)
DetourKnown ==
    detour # 0 =>
        /\ graph.node \in {"read", "recover"} /\ Base(graph) = "read"
        /\ detour \in DOMAIN requests
        /\ requests[detour].op \in Mutations \cup {"place"}
        /\ requests[detour].op \in Mutations => ops[detour] = 0
        /\ requests[detour].op = "place" /\ ops[detour] = 0 => requests[detour].lines = local.lines

(* A thread belongs to the placement that runs, or outlived the automation. *)
ThreadKnown ==
    thread # 0 =>
        \/ graph.node = "terminal"
        \/ graph.node = "place" /\ graph.key = thread /\ step \in {"placing", "quiesce"}

Alive == worker = "up" => GraphKnown /\ StepKnown /\ DetourKnown /\ ThreadKnown
Gone == worker # "up" => thread = 0 /\ detour = 0

(* A checkpoint of the row's revision says of its request what the row      *)
(* says.                                                                    *)
SavedKnown ==
    /\ saved.node = "mutation_confirm" /\ ops[saved.key] # 0 => ops[saved.key] > saved.rev
    /\ Checkout(saved) /\ ops[saved.key] = 0 /\ saved.rev = row.rev =>
         requests[saved.key].lines = row.lines

(* The receipts explain the cart's and the session's orders.                *)
LedgerKnown ==
    /\ \A k \in Keys : ops[k] <= row.rev
    /\ \A k \in Keys : k \in local.receipts \cup row.receipts => ops[k] # 0
    /\ \A k \in DOMAIN requests : ops[k] # 0 /\ requests[k].op = "place" => k \in row.guest

CInv ==
    /\ RInv /\ Typed
    /\ Fits(graph) /\ Fits(saved) /\ Agreed(graph) /\ Agreed(saved)
    /\ Alive /\ Gone
    /\ SavedKnown /\ LedgerKnown /\ RequestsTold

-----------------------------------------------------------------------------
(* The fields of the graph states the actions build, with their key.        *)
LEMMA AtFields ==
    ASSUME NEW node, NEW k, NEW rev, NEW origin
    PROVE  /\ At(node, k, rev).key = k
           /\ Marker(node, origin, k, rev).key = k
BY DEF At, Marker

LEMMA KeysKnown ==
    ASSUME Typed
    PROVE  /\ DOMAIN requests = 1..Len(requests) /\ Len(requests) \in Nat
           /\ DOMAIN requests \subseteq Keys /\ 0 \notin DOMAIN requests
           /\ \A k \in DOMAIN requests : requests[k] \in MadeRequest
<1>1. requests \in Seq(MadeRequest) /\ Len(requests) <= MaxKeys
  BY DEF Typed
<1>2. DOMAIN requests = 1..Len(requests) /\ Len(requests) \in Nat
  BY <1>1
<1>3. \A k \in DOMAIN requests : requests[k] \in MadeRequest
  BY <1>1
<1> QED BY <1>1, <1>2, <1>3, CartAssumption DEF Keys

(* A request once made keeps what it is; only what the guardrail says of    *)
(* it is filled in.                                                         *)
RequestsKept ==
    /\ DOMAIN requests \subseteq DOMAIN requests'
    /\ \A k \in DOMAIN requests :
          /\ requests'[k].op = requests[k].op
          /\ requests[k].op = "place" => requests'[k].lines = requests[k].lines

(* A step that moves the graph of a living worker, and perhaps its          *)
(* checkpoint with it, over the tables as they are.                         *)
GraphStep ==
    /\ worker = "up" /\ UNCHANGED <<row, ops, local, worker>>
    /\ placed \subseteq placed' /\ consent \subseteq consent'
    /\ saved' = saved \/ saved' = graph'
    /\ RequestsKept

LEMMA KeysKnownNext ==
    ASSUME Typed'
    PROVE  DOMAIN requests' = 1..Len(requests') /\ DOMAIN requests' \subseteq Keys
<1>1. requests' \in Seq(MadeRequest) /\ Len(requests') <= MaxKeys
  BY DEF Typed, MadeRequest, Carts
<1>2. DOMAIN requests' = 1..Len(requests') /\ Len(requests') \in Nat
  BY <1>1
<1> QED BY <1>1, <1>2, CartAssumption DEF Keys

LEMMA GraphLedger == ASSUME CInv, GraphStep, Typed' PROVE LedgerKnown'
<1>1. \A k \in Keys : ops'[k] <= row'.rev /\ (k \in local'.receipts \cup row'.receipts => ops'[k] # 0)
  BY DEF CInv, LedgerKnown, GraphStep
<1>2. ASSUME NEW k \in DOMAIN requests', ops'[k] # 0, requests'[k].op = "place"
      PROVE  k \in row'.guest
  <2>1. k \in Keys /\ ops[k] # 0
    BY <1>2, KeysKnownNext DEF GraphStep
  <2>2. k \in DOMAIN requests
    BY <2>1 DEF CInv, Typed
  <2> QED BY <1>2, <2>1, <2>2 DEF CInv, LedgerKnown, GraphStep, RequestsKept
<1> QED BY <1>1, <1>2 DEF LedgerKnown

LEMMA GraphStepKeeps ==
    ASSUME CInv, GraphStep, RInv', Typed', RequestsTold',
           (Fits(graph))', (Agreed(graph))', GraphKnown', StepKnown', DetourKnown', ThreadKnown'
    PROVE  CInv'
<1>1. Typed /\ RInv
  BY DEF CInv
<1>2. DOMAIN requests \subseteq Keys /\ DOMAIN requests \subseteq DOMAIN requests'
  BY <1>1, KeysKnown DEF GraphStep, RequestsKept
<1>3. CASE saved' = saved
  <2>1. Fits(saved)'
    BY <1>2, <1>3 DEF CInv, Fits, Base, GraphStep, RequestsKept
  <2>2. Agreed(saved)'
    BY <1>3 DEF CInv, Agreed, Base, GraphStep
  <2>3. Checkout(saved) => saved.key \in DOMAIN requests /\ requests[saved.key].op = "place"
    BY DEF CInv, Fits, Base, Checkout, Placing, Mutating
  <2>4. SavedKnown'
    BY <1>3, <2>3 DEF CInv, SavedKnown, Checkout, GraphStep, RequestsKept
  <2> QED BY <2>1, <2>2, <2>4, GraphLedger DEF CInv, Alive, Gone, GraphStep
<1>4. CASE saved' = graph'
  <2>1. Fits(saved)' /\ Agreed(saved)'
    BY <1>4 DEF Fits, Base, Agreed
  <2>2. graph'.rev = row.rev => local.lines = row.lines
    BY DEF RInv, GraphKnowsLocal, LocalFollowsRow, GraphStep
  <2>3. SavedKnown'
    BY <1>4, <2>2 DEF SavedKnown, GraphKnown, Checkout, GraphStep
  <2> QED BY <2>1, <2>3, GraphLedger DEF CInv, Alive, Gone, GraphStep
<1> QED BY <1>3, <1>4 DEF GraphStep

-----------------------------------------------------------------------------
(* What the caller hears, one request at a time.                            *)
LEMMA SaysNothing ==
    ASSUME CInv, Typed', told' = told, UNCHANGED <<row, ops, placed>>, RequestsKept,
           thread' \in {thread, 0}
    PROVE  RequestsTold'
<1>1. \A k \in DOMAIN requests' : k \in Keys /\ k # 0
  BY KeysKnownNext
<1>2. ASSUME NEW k \in DOMAIN requests' PROVE
        /\ told'[k] = "placed" => k \in placed' /\ k \in row'.guest
        /\ told'[k] = "unplaced" => k \notin placed' /\ thread' # k
        /\ told'[k] = "changed" => ops'[k] # 0
        /\ told'[k] = "declined" /\ requests'[k].op \in Mutations => ops'[k] = 0
  <2>1. CASE k \in DOMAIN requests
    BY <1>1, <2>1 DEF CInv, RequestsTold, RequestsKept
  <2>2. CASE k \notin DOMAIN requests
    BY <1>1, <2>2 DEF CInv, Typed
  <2> QED BY <2>1, <2>2
<1> QED BY <1>2 DEF RequestsTold

LEMMA SaysTruly ==
    ASSUME CInv, NEW k \in DOMAIN requests, NEW w \in Words, Tell(k, w),
           UNCHANGED <<row, ops, placed, requests>>, thread' \in {thread, 0},
           w = "placed" => k \in placed /\ k \in row.guest,
           w = "unplaced" => k \notin placed /\ thread' # k,
           w = "changed" => ops[k] # 0,
           w = "declined" /\ requests[k].op \in Mutations => ops[k] = 0
    PROVE  RequestsTold'
<1>1. /\ DOMAIN requests \subseteq Keys /\ 0 \notin DOMAIN requests
      /\ told \in [Keys -> Words]
  BY KeysKnown DEF CInv, Typed
<1>2. told'[k] = w /\ \A j \in DOMAIN requests \ {k} : told'[j] = told[j]
  BY <1>1 DEF Tell
<1>3. ASSUME NEW j \in DOMAIN requests, j # k PROVE
        /\ told'[j] = "placed" => j \in placed' /\ j \in row'.guest
        /\ told'[j] = "unplaced" => j \notin placed' /\ thread' # j
        /\ told'[j] = "changed" => ops'[j] # 0
        /\ told'[j] = "declined" /\ requests'[j].op \in Mutations => ops'[j] = 0
  BY <1>1, <1>2, <1>3 DEF CInv, RequestsTold
<1> QED BY <1>2, <1>3 DEF RequestsTold

(* The types under a step that leaves the tables and the requests alone.    *)
LEMMA StillTyped ==
    ASSUME CInv, UNCHANGED <<row, ops, requests>>, local'.lines \in Carts,
           step' \in {"none", "placing", "quiesce", "publish", "unacked"},
           \/ told' = told
           \/ \E k \in DOMAIN requests, w \in Words : Tell(k, w)
    PROVE  Typed' /\ RequestsKept
<1>1. DOMAIN requests \subseteq Keys /\ Typed
  BY KeysKnown DEF CInv
<1>2. told' \in [Keys -> Words] /\ \A k \in Keys : k \notin DOMAIN requests => told'[k] = told[k]
  BY <1>1 DEF Typed, Tell
<1>3. Typed'
  BY <1>1, <1>2 DEF Typed, MadeRequest, Carts
<1> QED BY <1>3 DEF RequestsKept

-----------------------------------------------------------------------------
(* Where a graph state leads.                                               *)

(* The facts about the graph of a living worker after a step.               *)
GraphFacts == Fits(graph) /\ Agreed(graph) /\ GraphKnown /\ StepKnown /\ DetourKnown /\ ThreadKnown

LEMMA Settles ==
    ASSUME NEW node \in {"idle", "terminal"}, NEW rev, NEW k, graph' = At(node, k, rev),
           step' = "none", detour' = 0, thread' = 0 \/ node = "terminal"
    PROVE  GraphFacts'
<1>1. graph'.node = node
  BY AtShape
<1>2. Fits(graph)' /\ Agreed(graph)'
  BY <1>1 DEF Fits, Agreed, Base
<1>3. GraphKnown'
  BY <1>1 DEF GraphKnown, Checkout, Placing
<1>4. StepKnown' /\ DetourKnown' /\ ThreadKnown'
  BY <1>1 DEF StepKnown, DetourKnown, ThreadKnown
<1> QED BY <1>2, <1>3, <1>4 DEF GraphFacts

(* The end of a turn, in front of the readback that was set aside.          *)
LEMMA TurnEnds ==
    ASSUME CInv, worker = "up", NEW rev, EndTurn(rev), step' = "none", thread' = 0,
           UNCHANGED <<ops, requests, consent>>,
           detour # 0 => local'.lines = local.lines
    PROVE  GraphFacts'
<1>1. CASE detour = 0
  BY <1>1, Settles DEF EndTurn, Rest
<1>2. CASE detour # 0
  <2>1. graph' = At(ConfirmOf(detour), detour, rev) /\ detour' = 0
    BY <1>2 DEF EndTurn
  <2>2. graph'.node = ConfirmOf(detour) /\ graph'.key = detour
    BY <2>1, AtShape, AtFields
  <2>3. /\ detour \in DOMAIN requests
        /\ requests[detour].op \in Mutations \cup {"place"}
        /\ requests[detour].op \in Mutations => ops[detour] = 0
        /\ requests[detour].op = "place" /\ ops[detour] = 0 =>
              requests[detour].lines = local.lines
    BY <1>2 DEF CInv, Alive, DetourKnown
  <2>4. \/ graph'.node = "confirm" /\ requests[detour].op = "place"
        \/ graph'.node = "mutation_confirm" /\ requests[detour].op \in Mutations
    BY <2>2, <2>3 DEF ConfirmOf
  <2>5. Fits(graph)' /\ Agreed(graph)'
    BY <2>2, <2>3, <2>4 DEF Fits, Base, Agreed, Placing, Mutating
  <2>6. GraphKnown'
    BY <1>2, <2>2, <2>3, <2>4 DEF GraphKnown, Checkout, Placing, Mutations
  <2>7. StepKnown' /\ DetourKnown' /\ ThreadKnown'
    BY <2>1 DEF StepKnown, DetourKnown, ThreadKnown
  <2> QED BY <2>5, <2>6, <2>7 DEF GraphFacts
<1> QED BY <1>1, <1>2

(* A marker of recovery stands for the node it replaces.                    *)
LEMMA Marks ==
    ASSUME CInv, worker = "up", NEW node \in {"seeded", "recover"},
           graph.node \notin {"idle", "terminal"},
           graph' = Marker(node, Base(graph), graph.key, graph.rev),
           step' = "none", thread' = 0, detour' = 0 \/ (detour' = detour /\ node = "recover"),
           UNCHANGED <<ops, requests, consent, local>>
    PROVE  GraphFacts'
<1>1. graph'.node = node /\ graph'.origin = Base(graph) /\ graph'.key = graph.key
  BY MarkerShape, AtFields
<1>2. Base(graph)' = Base(graph)
  BY <1>1 DEF Base
<1>3. Fits(graph) /\ Agreed(graph) /\ GraphKnown /\ DetourKnown
  BY DEF CInv, Alive
<1>4. Fits(graph)'
  BY <1>1, <1>2, <1>3 DEF Fits
<1>5. Agreed(graph)'
  BY <1>1, <1>2, <1>3 DEF Agreed
<1>6. GraphKnown'
  <2>1. Checkout(graph)' => Checkout(graph)
    BY <1>1 DEF Checkout, Base, Placing
  <2> QED BY <1>1, <1>3, <2>1 DEF GraphKnown
<1>7. DetourKnown'
  <2>1. ASSUME detour' # 0 PROVE graph'.node \in {"read", "recover"} /\ Base(graph)' = "read"
    BY <1>1, <1>2, <1>3, <2>1 DEF DetourKnown
  <2> QED BY <1>3, <2>1 DEF DetourKnown
<1>8. StepKnown' /\ ThreadKnown'
  BY DEF StepKnown, ThreadKnown
<1> QED BY <1>4, <1>5, <1>6, <1>7, <1>8 DEF GraphFacts

(* A step of this shape keeps the invariant.                                *)
LEMMA GraphFactsKeep ==
    ASSUME CInv, GraphStep, RInv', Typed', RequestsTold', GraphFacts'
    PROVE  CInv'
BY GraphStepKeeps DEF GraphFacts

-----------------------------------------------------------------------------
(* The requests the caller makes.                                           *)
LEMMA MintKeeps ==
    ASSUME CInv, RInv', Listening, graph.node \in {"idle"} \cup Confirms,
           NEW r \in MadeRequest, NEW node, Mint(r, node),
           \/ node = "mutation_confirm" /\ r.op \in Mutations /\ detour' = 0
           \/ node = "guardrail" /\ r.op = "place" /\ r.lines = local.lines /\ detour' = 0
           \/ /\ node = "read" /\ r.op = "read"
              /\ \/ detour' = 0
                 \/ graph.node \in Confirms /\ detour' = graph.key
    PROVE  CInv'
<1> DEFINE n == Len(requests) + 1
<1>1. /\ worker = "up" /\ step = "none" /\ Len(requests) < MaxKeys
      /\ requests' = Append(requests, r) /\ graph' = At(node, n, graph.rev)
      /\ UNCHANGED <<row, ops, local, saved, step, thread, placed, worker, told, consent>>
  BY DEF Listening, Mint, durable
<1>2. /\ requests \in Seq(MadeRequest) /\ DOMAIN requests = 1..Len(requests)
      /\ Len(requests) \in Nat /\ DOMAIN requests \subseteq Keys /\ Typed
  BY KeysKnown DEF CInv, Typed
<1>3. /\ requests' \in Seq(MadeRequest) /\ Len(requests') = n /\ DOMAIN requests' = 1..n
      /\ requests'[n] = r /\ \A k \in DOMAIN requests : requests'[k] = requests[k]
  BY <1>1, <1>2
<1>4. n \in Keys /\ n \in DOMAIN requests' /\ n \notin DOMAIN requests
      /\ DOMAIN requests \subseteq DOMAIN requests'
  BY <1>1, <1>2, <1>3, CartAssumption DEF Keys
<1>5. ops[n] = 0 /\ told[n] = "none"
  BY <1>2, <1>4 DEF Typed
<1>6. graph'.node = node /\ graph'.key = n
  BY <1>1, AtShape, AtFields
<1> HIDE DEF n
<1>7. Typed'
  <2>1. Len(requests') <= MaxKeys
    BY <1>3, <1>4, CartAssumption DEF Keys
  <2>2. \A k \in Keys : k \notin DOMAIN requests' => ops'[k] = 0 /\ told'[k] = "none"
    BY <1>1, <1>2, <1>4 DEF Typed
  <2>3. /\ row'.lines \in Carts /\ local'.lines \in Carts
        /\ ops' \in [Keys -> Nat] /\ told' \in [Keys -> Words]
        /\ step' \in {"none", "placing", "quiesce", "publish", "unacked"}
    BY <1>1, <1>2 DEF Typed
  <2> QED BY <1>3, <2>1, <2>2, <2>3 DEF Typed, MadeRequest, Carts
<1>8. RequestsKept
  BY <1>3, <1>4 DEF RequestsKept
<1>9. RequestsTold'
  BY <1>1, <1>7, <1>8, SaysNothing
<1>10. GraphStep
  BY <1>1, <1>8 DEF GraphStep
<1>11. thread' = 0
  BY <1>1 DEF CInv, Alive, ThreadKnown, Listening, Confirms
<1>12. (Fits(graph))' /\ (Agreed(graph))'
  BY <1>3, <1>4, <1>6 DEF Fits, Agreed, Base, Placing, Mutating
<1>13. GraphKnown'
  BY <1>1, <1>3, <1>5, <1>6 DEF GraphKnown, Checkout, Placing
<1>14. StepKnown' /\ ThreadKnown'
  BY <1>1, <1>11 DEF StepKnown, ThreadKnown
<1>15. DetourKnown'
  <2>1. CASE detour' = 0
    BY <2>1 DEF DetourKnown
  <2>2. CASE /\ node = "read" /\ graph.node \in Confirms /\ detour' = graph.key
    <3>1. /\ graph.key \in DOMAIN requests
          /\ \/ graph.node = "mutation_confirm" /\ requests[graph.key].op \in Mutations
             \/ graph.node = "confirm" /\ requests[graph.key].op = "place"
      BY <2>2 DEF CInv, Fits, Base, Confirms, Mutating, Placing
    <3>2. /\ requests[graph.key].op \in Mutations => ops[graph.key] = 0
          /\ requests[graph.key].op = "place" /\ ops[graph.key] = 0 =>
               requests[graph.key].lines = local.lines
      BY <1>1, <3>1 DEF CInv, Alive, GraphKnown, Checkout, Placing, Mutations
    <3>3. requests'[graph.key] = requests[graph.key] /\ graph.key \in DOMAIN requests'
      BY <1>3, <1>4, <3>1
    <3>4. Base(graph)' = "read"
      BY <1>6, <2>2 DEF Base
    <3> QED BY <1>1, <1>6, <2>2, <3>1, <3>2, <3>3, <3>4 DEF DetourKnown
  <2> QED BY <2>1, <2>2
<1> QED BY <1>7, <1>9, <1>10, <1>12, <1>13, <1>14, <1>15, GraphStepKeeps

LEMMA RequestsKeep ==
    ASSUME CInv, RInv', RequestMutation \/ RequestPlacement \/ RequestRead
    PROVE  CInv'
<1>1. CASE RequestMutation
  <2>1. PICK op \in Mutations, s \in Skus, q \in 0..MaxQuantity :
          Mint([op |-> op, sku |-> s, quantity |-> q], "mutation_confirm")
    BY <1>1 DEF RequestMutation
  <2>2. PICK r : r = [op |-> op, sku |-> s, quantity |-> q]
    OBVIOUS
  <2>3. r \in MadeRequest /\ r.op \in Mutations
    BY <2>2, CartAssumption DEF MadeRequest
  <2>4. Listening /\ detour' = 0 /\ Mint(r, "mutation_confirm") /\ graph.node = "idle"
    <3>1. Listening /\ graph.node = "idle" /\ detour' = detour
      BY <1>1 DEF RequestMutation
    <3> QED BY <2>1, <2>2, <3>1 DEF CInv, Alive, DetourKnown, Listening
  <2> QED BY <2>3, <2>4, MintKeeps
<1>2. CASE RequestPlacement
  <2>1. PICK r : r = [op |-> "place", lines |-> local.lines, second |-> FALSE]
    OBVIOUS
  <2>2. r \in MadeRequest /\ r.op = "place" /\ r.lines = local.lines
    BY <2>1 DEF MadeRequest, CInv, Typed
  <2>3. Listening /\ detour' = 0 /\ Mint(r, "guardrail") /\ graph.node = "idle"
    BY <1>2, <2>1 DEF RequestPlacement, CInv, Alive, DetourKnown, Listening
  <2> QED BY <2>2, <2>3, MintKeeps
<1>3. CASE RequestRead
  <2>1. PICK r : r = [op |-> "read"]
    OBVIOUS
  <2>2. r \in MadeRequest /\ r.op = "read"
    BY <2>1 DEF MadeRequest
  <2>3. Listening /\ Mint(r, "read") /\ graph.node \in {"idle"} \cup Confirms
    BY <1>3, <2>1 DEF RequestRead
  <2>4. detour' = 0 \/ (graph.node \in Confirms /\ detour' = graph.key)
    BY <1>3 DEF RequestRead
  <2> QED BY <2>2, <2>3, <2>4, MintKeeps
<1> QED BY <1>1, <1>2, <1>3

(* The reply to a readback.                                                 *)
LEMMA AnswerKeeps ==
    ASSUME CInv, RInv', NEW reply \in Replies, Answer(reply) PROVE CInv'
<1>1. /\ Listening /\ graph.node \in Confirms
      /\ worker = "up" /\ step = "none"
      /\ UNCHANGED <<row, ops, local, requests, saved, step, detour, thread, placed, worker>>
  BY DEF Answer, Listening, durable
<1>2. /\ graph.key \in DOMAIN requests
      /\ \/ graph.node = "mutation_confirm" /\ requests[graph.key].op \in Mutations
         \/ graph.node = "confirm" /\ requests[graph.key].op = "place"
  BY <1>1 DEF CInv, Fits, Base, Confirms, Mutating, Placing
<1>3. detour' = 0 /\ thread' = 0 /\ GraphKnown
  BY <1>1 DEF CInv, Alive, DetourKnown, ThreadKnown, Confirms
<1>4. graph.key \in Keys /\ local'.lines \in Carts /\ told \in [Keys -> Words]
  BY <1>1, <1>2, KeysKnown DEF CInv, Typed
<1>5. "none" \in Words /\ "declined" \in Words
  BY DEF Words
<1>6. CASE reply = "yes"
  <2>1. PICK node : node = IF graph.node = "confirm" THEN "place" ELSE "mutation_apply"
    OBVIOUS
  <2>2. /\ consent' = consent \cup {graph.key}
        /\ graph' = At(node, graph.key, graph.rev)
        /\ Tell(graph.key, "none")
    BY <1>6, <2>1 DEF Answer
  <2>3. graph'.node = node /\ graph'.key = graph.key
    BY <2>2, AtShape, AtFields
  <2>4. Typed' /\ RequestsKept
    BY <1>1, <1>2, <1>4, <1>5, <2>2, StillTyped
  <2>5. RequestsTold'
    BY <1>1, <1>2, <1>5, <2>2, SaysTruly
  <2>6. GraphStep
    BY <1>1, <2>2, <2>4 DEF GraphStep
  <2>7. (Fits(graph))' /\ (Agreed(graph))'
    BY <1>1, <1>2, <2>1, <2>2, <2>3 DEF Fits, Agreed, Base, Mutating, Placing
  <2>8. told'[graph'.key] = "none"
    BY <1>4, <2>2, <2>3 DEF Tell
  <2>9. GraphKnown'
    BY <1>1, <1>2, <1>3, <2>1, <2>3, <2>8 DEF GraphKnown, Checkout, Placing
  <2>10. StepKnown' /\ DetourKnown' /\ ThreadKnown'
    BY <1>1, <1>3 DEF StepKnown, DetourKnown, ThreadKnown
  <2> QED BY <2>4, <2>5, <2>6, <2>7, <2>9, <2>10, GraphStepKeeps
<1>7. CASE reply = "unclear" /\ graph.ask = 1
  <2>1. graph' = [graph EXCEPT !.ask = 2] /\ told' = told /\ consent' = consent
    BY <1>7 DEF Answer
  <2>2. /\ graph'.node = graph.node /\ graph'.key = graph.key /\ graph'.origin = graph.origin
    BY <2>1 DEF CInv, RInv, Shape, GraphShape, GraphFields
  <2>3. Typed' /\ RequestsKept
    BY <1>1, <1>4, <2>1, StillTyped
  <2>4. RequestsTold' /\ GraphStep
    BY <1>1, <2>1, <2>3, SaysNothing DEF GraphStep
  <2>5. (Fits(graph))' /\ (Agreed(graph))'
    BY <1>1, <2>1, <2>2 DEF CInv, Fits, Agreed, Base
  <2>6. GraphKnown'
    BY <1>1, <1>3, <2>1, <2>2 DEF GraphKnown, Checkout
  <2>7. StepKnown' /\ DetourKnown' /\ ThreadKnown'
    BY <1>1, <1>3 DEF StepKnown, DetourKnown, ThreadKnown
  <2> QED BY <2>3, <2>4, <2>5, <2>6, <2>7, GraphStepKeeps
<1>8. CASE reply \in {"no", "expired"} \/ (reply = "unclear" /\ graph.ask # 1)
  <2>1. /\ graph' = At("idle", 0, graph.rev) /\ Tell(graph.key, "declined") /\ consent' = consent
    BY <1>8 DEF Answer, Rest, CInv, RInv, Shape, GraphShape
  <2>2. Typed' /\ RequestsKept
    BY <1>1, <1>2, <1>4, <1>5, <2>1, StillTyped
  <2>3. requests[graph.key].op \in Mutations => ops[graph.key] = 0
    BY <1>2, <1>3 DEF GraphKnown, Mutations
  <2>4. RequestsTold'
    BY <1>1, <1>2, <1>5, <2>1, <2>3, SaysTruly
  <2>5. GraphStep /\ GraphFacts'
    BY <1>1, <1>3, <2>1, <2>2, Settles DEF GraphStep
  <2> QED BY <2>2, <2>4, <2>5, GraphFactsKeep
<1>9. CASE reply \in {"human", "aside"}
  <2>1. graph' = At("idle", 0, graph.rev) /\ told' = told /\ consent' = consent
    BY <1>9 DEF Answer, Rest
  <2>2. Typed' /\ RequestsKept
    BY <1>1, <1>4, <2>1, StillTyped
  <2>3. RequestsTold' /\ GraphStep /\ GraphFacts'
    BY <1>1, <1>3, <2>1, <2>2, SaysNothing, Settles DEF GraphStep
  <2> QED BY <2>2, <2>3, GraphFactsKeep
<1> QED BY <1>6, <1>7, <1>8, <1>9 DEF Replies

-----------------------------------------------------------------------------
(* The nodes of the flow.                                                   *)

(* A node that is not the placement runs with no thread, and only a read    *)
(* has a readback set aside.                                                *)
LEMMA NodeAlone ==
    ASSUME CInv, worker = "up"
    PROVE  /\ graph.node # "terminal" /\ step \notin {"placing", "quiesce"} => thread = 0
           /\ Base(graph) # "read" => detour = 0
           /\ graph.node \notin {"idle", "terminal"} => graph.key \in DOMAIN requests
           /\ graph.node \notin {"mutation_apply", "read", "place", "recover"} => step = "none"
<1>1. DetourKnown /\ ThreadKnown /\ StepKnown /\ StepFits /\ Fits(graph) /\ Typed
  BY DEF CInv, Alive, RInv
<1>2. graph.node # "terminal" /\ step \notin {"placing", "quiesce"} => thread = 0
  BY <1>1 DEF ThreadKnown
<1>3. Base(graph) # "read" => detour = 0
  BY <1>1 DEF DetourKnown
<1>4. graph.node \notin {"idle", "terminal"} => graph.key \in DOMAIN requests
  BY <1>1 DEF Fits
<1>5. graph.node \notin {"mutation_apply", "read", "place", "recover"} => step = "none"
  BY <1>1 DEF StepKnown, StepFits, Typed
<1> QED BY <1>2, <1>3, <1>4, <1>5

LEMMA GuardrailKeeps == ASSUME CInv, RInv', Guardrail PROVE CInv'
<1>1. /\ worker = "up" /\ graph.node = "guardrail"
      /\ UNCHANGED <<row, ops, local, saved, step, detour, thread, placed, worker, told,
                     consent>>
  BY DEF Guardrail, Running, durable
<1>2. Base(graph) = "guardrail"
  BY <1>1 DEF Base
<1>3. graph.key \in DOMAIN requests /\ step' = "none" /\ thread' = 0 /\ detour' = 0
  BY <1>1, <1>2, NodeAlone
<1>4. requests[graph.key].op = "place"
  BY <1>1, <1>2 DEF CInv, Fits, Mutating, Placing
<1>5. CASE UNCHANGED requests /\ graph' = Rest(graph.rev)
  <2>1. Typed' /\ RequestsKept
    BY <1>1, <1>5, StillTyped DEF CInv, Typed
  <2>2. RequestsTold' /\ GraphStep
    BY <1>1, <1>5, <2>1, SaysNothing DEF GraphStep
  <2>3. GraphFacts'
    BY <1>3, <1>5, Settles DEF Rest
  <2> QED BY <2>1, <2>2, <2>3, GraphFactsKeep
<1>6. CASE /\ graph' = At("confirm", graph.key, graph.rev)
           /\ requests' = [requests EXCEPT ![graph.key].second =
                             Identical(requests[graph.key].lines)]
  <2>1. PICK b \in BOOLEAN : requests' = [requests EXCEPT ![graph.key].second = b]
    BY <1>6 DEF Identical
  <2>2. /\ requests \in Seq(MadeRequest) /\ Len(requests) \in Nat
        /\ DOMAIN requests = 1..Len(requests) /\ Typed
    BY KeysKnown DEF CInv, Typed
  <2>3. requests[graph.key] \in [op : {"place"}, lines : Carts, second : BOOLEAN]
    BY <1>3, <1>4, KeysKnown DEF CInv, MadeRequest, Mutations
  <2>4. PICK r : r = [requests[graph.key] EXCEPT !.second = b]
    OBVIOUS
  <2>5. r \in MadeRequest /\ r.op = "place" /\ r.lines = requests[graph.key].lines
    BY <2>3, <2>4 DEF MadeRequest
  <2>6. requests' = [requests EXCEPT ![graph.key] = r]
    BY <2>1, <2>4
  <2>7. /\ requests' \in Seq(MadeRequest) /\ Len(requests') = Len(requests)
        /\ DOMAIN requests' = DOMAIN requests
    BY <1>3, <2>2, <2>5, <2>6
  <2>8. requests'[graph.key] = r /\ \A k \in DOMAIN requests \ {graph.key} : requests'[k] = requests[k]
    BY <1>3, <2>6
  <2>9. RequestsKept
    BY <1>4, <2>5, <2>7, <2>8 DEF RequestsKept
  <2>10. Typed'
    BY <1>1, <2>2, <2>7 DEF Typed, MadeRequest, Carts
  <2>11. RequestsTold' /\ GraphStep
    BY <1>1, <2>9, <2>10, SaysNothing DEF GraphStep
  <2>12. graph'.node = "confirm" /\ graph'.key = graph.key
    BY <1>6, AtShape, AtFields
  <2>13. (Fits(graph))' /\ (Agreed(graph))'
    BY <1>3, <2>5, <2>7, <2>8, <2>12 DEF Fits, Agreed, Base, Placing
  <2>14. ops[graph.key] = 0 => requests[graph.key].lines = local.lines
    BY <1>1 DEF CInv, Alive, GraphKnown, Checkout, Placing
  <2>15. GraphKnown'
    BY <1>1, <2>5, <2>8, <2>12, <2>14 DEF GraphKnown
  <2>16. StepKnown' /\ DetourKnown' /\ ThreadKnown'
    BY <1>3 DEF StepKnown, DetourKnown, ThreadKnown
  <2> QED BY <2>10, <2>11, <2>13, <2>15, <2>16, GraphStepKeeps
<1> QED BY <1>5, <1>6 DEF Guardrail

(* A step inside a node, over the same graph and requests.                  *)
LEMMA InsideNode ==
    ASSUME CInv, RInv', worker = "up", Typed',
           UNCHANGED <<row, ops, local, requests, graph, worker, told, consent>>,
           placed \subseteq placed', saved' = saved \/ saved' = graph', RequestsTold',
           graph.node = "read" /\ step' = "none" => step = "none",
           StepKnown', ThreadKnown', detour' \in {0, detour}
    PROVE  CInv'
<1>1. Fits(graph) /\ Agreed(graph) /\ GraphKnown /\ DetourKnown
  BY DEF CInv, Alive
<1>2. (Fits(graph))' /\ (Agreed(graph))'
  BY <1>1 DEF Fits, Agreed, Base
<1>3. GraphKnown'
  BY <1>1 DEF GraphKnown, Checkout
<1>4. DetourKnown'
  BY <1>1 DEF DetourKnown, Base
<1>5. GraphStep
  BY DEF GraphStep, RequestsKept
<1> QED BY <1>2, <1>3, <1>4, <1>5, GraphStepKeeps

LEMMA PlacementKeeps ==
    ASSUME CInv, RInv', StartPlacing \/ PlaceCart \/ PlacingReturns
    PROVE  CInv'
<1> USE DEF durable
<1>1. CASE StartPlacing
  <2>1. /\ worker = "up" /\ graph.node = "place" /\ step = "none" /\ step' = "placing"
        /\ thread' = graph.key
        /\ UNCHANGED <<row, ops, local, requests, graph, saved, detour, placed, worker, told,
                       consent>>
    BY <1>1 DEF StartPlacing, Running
  <2>2. Typed' /\ RequestsKept
    BY <2>1, StillTyped DEF CInv, Typed
  <2>3. told[graph.key] = "none" /\ RequestsTold
    BY <2>1 DEF CInv, Alive, GraphKnown
  <2>4. RequestsTold'
    BY <2>1, <2>3 DEF RequestsTold
  <2>5. StepKnown' /\ ThreadKnown'
    BY <2>1 DEF StepKnown, ThreadKnown
  <2> QED BY <2>1, <2>2, <2>4, <2>5, InsideNode
<1>2. CASE PlaceCart
  <2>1. /\ thread # 0 /\ placed' = placed \cup {thread} /\ thread' = 0
        /\ UNCHANGED <<row, ops, local, requests, graph, saved, step, detour, worker, told,
                       consent>>
    BY <1>2 DEF PlaceCart
  <2>2. worker = "up"
    BY <2>1 DEF CInv, Gone
  <2>3. Typed' /\ RequestsKept
    BY <2>1, StillTyped DEF CInv, Typed
  <2>4. RequestsTold'
    BY <2>1, KeysKnown DEF CInv, RequestsTold
  <2>5. StepKnown /\ ThreadKnown
    BY <2>2 DEF CInv, Alive
  <2>6. StepKnown' /\ ThreadKnown'
    BY <2>1, <2>5 DEF StepKnown, ThreadKnown
  <2> QED BY <2>1, <2>2, <2>3, <2>4, <2>6, InsideNode
<1>3. CASE PlacingReturns
  <2>1. /\ worker = "up" /\ step = "placing" /\ step' = "publish" /\ thread = 0
        /\ UNCHANGED <<row, ops, local, requests, graph, saved, detour, thread, placed,
                       worker, told, consent>>
    BY <1>3 DEF PlacingReturns, Running
  <2>2. Typed' /\ RequestsKept
    BY <2>1, StillTyped DEF CInv, Typed
  <2>3. RequestsTold'
    BY <2>1, <2>2, SaysNothing
  <2>4. graph.key \in placed
    <3>1. graph.node = "place"
      BY <2>1 DEF CInv, RInv, StepFits
    <3>2. graph.key # 0
      BY <2>1, <3>1, NodeAlone, KeysKnown DEF CInv
    <3> QED BY <2>1, <3>2 DEF CInv, Alive, StepKnown
  <2>5. StepKnown' /\ ThreadKnown'
    BY <2>1, <2>4 DEF StepKnown, ThreadKnown
  <2> QED BY <2>1, <2>2, <2>3, <2>5, InsideNode
<1> QED BY <1>1, <1>2, <1>3

LEMMA AckKeeps == ASSUME CInv, RInv', Ack PROVE CInv'
<1>1. /\ worker = "up" /\ graph.node = "ack" /\ Tell(graph.key, "changed") /\ EndTurn(graph.rev)
      /\ UNCHANGED <<row, ops, local, requests, saved, step, thread, placed, worker, consent>>
  BY DEF Ack, Running, durable
<1>2. graph.key \in DOMAIN requests /\ step' = "none" /\ thread' = 0
  BY <1>1, NodeAlone
<1>3. ops[graph.key] # 0 /\ "changed" \in Words
  BY <1>1 DEF CInv, Alive, GraphKnown, Words
<1>4. Typed' /\ RequestsKept
  BY <1>1, <1>2, <1>3, StillTyped DEF CInv, Typed
<1>5. RequestsTold'
  BY <1>1, <1>2, <1>3, SaysTruly
<1>6. GraphStep /\ GraphFacts'
  BY <1>1, <1>2, <1>4, TurnEnds DEF GraphStep
<1> QED BY <1>4, <1>5, <1>6, GraphFactsKeep

-----------------------------------------------------------------------------
(* The publication. What a request makes of a projection.                   *)
LEMMA FinalQuantityIsNat ==
    ASSUME NEW r \in MadeRequest, r.op \in Mutations, NEW n \in Nat
    PROVE  r.sku \in Skus /\ FinalQuantity(n, r) \in Nat
<1>1. r \in [op : Mutations, sku : Skus, quantity : Nat]
  BY DEF MadeRequest, Mutations
<1> QED BY <1>1 DEF FinalQuantity, Mutations

LEMMA MutatedFacts ==
    ASSUME NEW p, DOMAIN p = PayloadFields, p.lines \in Carts, NEW k, requests[k] \in MadeRequest,
           NEW q, q = Mutated(p, k)
    PROVE  /\ DOMAIN q = PayloadFields /\ q.lines \in Carts
           /\ q.receipts \subseteq p.receipts \cup {k}
           /\ p.guest \subseteq q.guest
           /\ requests[k].op = "place" => k \in q.guest /\ q.lines = NoLines
           /\ requests[k].op = "read" => q.lines = p.lines
<1>1. DOMAIN q = PayloadFields
  BY DEF Mutated, PayloadFields
<1>3. CASE requests[k].op = "place"
  <2>1. Mutated(p, k) = [p EXCEPT !.lines = NoLines, !.receipts = {}, !.guest = @ \cup {k}]
    BY <1>3 DEF Mutated
  <2>2. NoLines \in Carts
    BY DEF NoLines, Carts
  <2> QED BY <1>1, <1>3, <2>1, <2>2 DEF PayloadFields
<1>4. CASE requests[k].op = "read"
  <2>1. Mutated(p, k) = p
    BY <1>4 DEF Mutated
  <2> QED BY <1>1, <1>4, <2>1
<1>5. CASE requests[k].op \in Mutations
  <2>1. PICK r : r = requests[k]
    OBVIOUS
  <2>2. r.sku \in Skus /\ p.lines[r.sku] \in Nat
    BY <1>5, <2>1, FinalQuantityIsNat DEF Carts
  <2>3. FinalQuantity(p.lines[r.sku], r) \in Nat
    BY <1>5, <2>1, <2>2, FinalQuantityIsNat
  <2>4. PICK lines : lines = [p.lines EXCEPT ![r.sku] = FinalQuantity(p.lines[r.sku], r)]
    OBVIOUS
  <2>5. lines \in Carts
    BY <2>2, <2>3, <2>4 DEF Carts
  <2>6. Mutated(p, k) = [p EXCEPT !.lines = lines, !.receipts = @ \cup {k}]
    BY <1>5, <2>1, <2>4 DEF Mutated, Mutations
  <2> QED BY <1>1, <1>5, <2>5, <2>6 DEF PayloadFields, Mutations
<1>6. requests[k].op \in Mutations \cup {"place", "read"}
  BY DEF MadeRequest
<1> QED BY <1>3, <1>4, <1>5, <1>6

(* A node that publishes.                                                   *)
LEMMA PublishingFacts ==
    ASSUME CInv, Publishing
    PROVE  /\ worker = "up" /\ graph.key \in DOMAIN requests /\ graph.key \in Keys
           /\ thread = 0 /\ requests[graph.key] \in MadeRequest
           /\ \/ graph.node = "mutation_apply" /\ requests[graph.key].op \in Mutations
              \/ graph.node = "read" /\ requests[graph.key].op = "read"
                    /\ ops[graph.key] = 0
              \/ /\ graph.node = "place" \/ (graph.node = "recover" /\ graph.origin = "place")
                 /\ requests[graph.key].op = "place" /\ graph.key \in placed
<1>1. worker = "up" /\ graph.node \notin {"idle", "terminal"} /\ step \notin {"placing", "quiesce"}
  BY DEF Publishing, Running
<1>2. graph.key \in DOMAIN requests /\ thread = 0
  BY <1>1, NodeAlone
<1>3. graph.key \in Keys /\ requests[graph.key] \in MadeRequest
  BY <1>2, KeysKnown DEF CInv
<1>4. CASE step = "publish"
  <2>1. /\ graph.node = "place" \/ (graph.node = "recover" /\ graph.origin = "place")
        /\ graph.key \in placed
    BY <1>1, <1>4 DEF CInv, RInv, StepFits, Alive, StepKnown
  <2>2. requests[graph.key].op = "place"
    BY <1>1, <2>1 DEF CInv, Fits, Base, Mutating, Placing
  <2> QED BY <1>1, <1>2, <1>3, <2>1, <2>2
<1>5. CASE graph.node = "mutation_apply"
  BY <1>1, <1>2, <1>3, <1>5 DEF CInv, Fits, Base, Mutating, Placing
<1>6. CASE graph.node = "read" /\ step = "none"
  <2>1. requests[graph.key].op = "read"
    BY <1>6 DEF CInv, Fits, Base, Mutating, Placing
  <2>2. ops[graph.key] = 0
    BY <1>1, <1>6 DEF CInv, Alive, GraphKnown
  <2> QED BY <1>1, <1>2, <1>3, <1>6, <2>1, <2>2
<1> QED BY <1>4, <1>5, <1>6 DEF Publishing

LEMMA ReplayKeeps ==
    ASSUME CInv, RInv', Publish, ops[graph.key] # 0, UNCHANGED durable
    PROVE  CInv'
<1>1. /\ Publishing /\ step' = "unacked"
      /\ UNCHANGED <<row, ops, local, requests, graph, saved, detour, thread, placed, worker,
                     told, consent>>
  BY DEF Publish, durable
<1>2. Typed' /\ RequestsKept
  BY <1>1, StillTyped DEF CInv, Typed
<1>3. RequestsTold'
  BY <1>1, <1>2, SaysNothing
<1>4. StepKnown' /\ ThreadKnown'
  BY <1>1, PublishingFacts DEF StepKnown, ThreadKnown
<1> QED BY <1>1, <1>2, <1>3, <1>4, PublishingFacts, InsideNode

LEMMA CommitKeeps ==
    ASSUME CInv, RInv', Publish, ops[graph.key] = 0, local.rev = row.rev,
           row' = [Mutated(local, graph.key) EXCEPT !.rev = row.rev + 1],
           ops' = [ops EXCEPT ![graph.key] = row.rev + 1]
    PROVE  CInv'
<1>1. /\ Publishing /\ step' = "unacked"
      /\ UNCHANGED <<local, requests, graph, saved, detour, thread, placed, worker, told,
                     consent>>
  BY DEF Publish
<1>2. PICK k : k = graph.key
  OBVIOUS
<1>3. /\ worker = "up" /\ k \in DOMAIN requests /\ k \in Keys
      /\ thread = 0 /\ requests[k] \in MadeRequest
      /\ \/ graph.node = "mutation_apply" /\ requests[k].op \in Mutations
         \/ graph.node = "read" /\ requests[k].op = "read"
         \/ /\ graph.node = "place" \/ (graph.node = "recover" /\ graph.origin = "place")
            /\ requests[k].op = "place" /\ k \in placed
  BY <1>1, <1>2, PublishingFacts
<1>4. Typed /\ RInv /\ DOMAIN requests \subseteq Keys
  BY KeysKnown DEF CInv
<1>5. local = row /\ DOMAIN local = PayloadFields /\ row.rev \in Nat /\ local.lines \in Carts
  BY <1>3, <1>4 DEF RInv, Shape, LocalFollowsRow, Typed
<1>6. PICK p, q : p = local /\ q = Mutated(p, k)
  OBVIOUS
<1>7. /\ DOMAIN q = PayloadFields /\ q.lines \in Carts
      /\ q.receipts \subseteq p.receipts \cup {k}
      /\ p.guest \subseteq q.guest
      /\ requests[k].op = "place" => k \in q.guest
      /\ requests[k].op = "read" => q.lines = p.lines
  BY <1>3, <1>5, <1>6, MutatedFacts
<1>8. /\ row'.lines \in Carts /\ row'.rev = row.rev + 1
      /\ row'.receipts \subseteq local.receipts \cup {k}
      /\ row.guest \subseteq row'.guest
      /\ requests[k].op = "place" => k \in row'.guest
      /\ requests[k].op = "read" => row'.lines = local.lines
  <2>1. row' = [q EXCEPT !.rev = row.rev + 1]
    BY <1>2, <1>6
  <2> QED BY <1>5, <1>6, <1>7, <2>1 DEF PayloadFields
<1>9. /\ ops' \in [Keys -> Nat] /\ ops'[k] = row.rev + 1
      /\ \A j \in Keys \ {k} : ops'[j] = ops[j]
  BY <1>2, <1>3, <1>4, <1>5 DEF Typed
<1>10. ops'[k] # 0 /\ row'.rev \in Nat /\ row.rev < row'.rev
  BY <1>5, <1>8, <1>9
<1>11. Typed'
  <2>1. \A j \in Keys : j \notin DOMAIN requests' => ops'[j] = 0 /\ told'[j] = "none"
    BY <1>1, <1>3, <1>4, <1>9 DEF Typed
  <2>2. requests' \in Seq(MadeRequest) /\ Len(requests') <= MaxKeys
    BY <1>1, <1>4 DEF Typed
  <2>3. local'.lines \in Carts /\ told' \in [Keys -> Words] /\ step' = "unacked"
    BY <1>1, <1>4 DEF Typed
  <2> QED BY <1>8, <1>9, <2>1, <2>2, <2>3 DEF Typed, MadeRequest, Carts
<1>12. (Fits(graph))' /\ (Fits(saved))' /\ (Agreed(graph))' /\ (Agreed(saved))'
  BY <1>1 DEF CInv, Fits, Agreed, Base
<1>13. GraphKnown'
  <2>1. GraphKnown
    BY <1>3 DEF CInv, Alive
  <2> QED BY <1>1, <1>2, <1>3, <1>10, <2>1 DEF GraphKnown, Checkout
<1>14. StepKnown'
  BY <1>1, <1>2, <1>3, <1>8, <1>10 DEF StepKnown, Mutations
<1>15. DetourKnown'
  <2>1. DetourKnown
    BY <1>3 DEF CInv, Alive
  <2>2. ASSUME detour # 0 PROVE detour # k /\ detour \in Keys
    <3>1. requests[k].op = "read"
      BY <1>3, <2>1, <2>2 DEF DetourKnown, Base
    <3> QED BY <1>4, <2>1, <2>2, <3>1 DEF DetourKnown, Mutations
  <2> QED BY <1>1, <1>9, <2>1, <2>2 DEF DetourKnown, Base
<1>16. ThreadKnown' /\ Gone'
  BY <1>1, <1>3 DEF ThreadKnown, Gone
<1>17. SavedKnown'
  <2>1. saved.rev \in Nat /\ saved.rev <= row.rev
    BY <1>4 DEF RInv, Shape, CheckpointGap
  <2>2. ASSUME saved.node = "mutation_confirm", ops'[saved.key] # 0 PROVE ops'[saved.key] > saved.rev
    <3>1. saved.key \in Keys
      BY <1>4, <2>2 DEF CInv, Fits
    <3>2. CASE saved.key = k
      BY <1>5, <1>9, <2>1, <3>2
    <3>3. CASE saved.key # k
      BY <1>9, <2>2, <3>1, <3>3 DEF CInv, SavedKnown
    <3> QED BY <3>2, <3>3
  <2>3. saved.rev # row'.rev
    BY <1>5, <1>8, <2>1
  <2> QED BY <1>1, <2>2, <2>3 DEF SavedKnown
<1>18. LedgerKnown'
  <2>1. LedgerKnown
    BY DEF CInv
  <2>2. \A j \in Keys : ops'[j] <= row'.rev
    BY <1>4, <1>5, <1>8, <1>9, <2>1 DEF LedgerKnown, Typed
  <2>3. \A j \in Keys : j \in local'.receipts \cup row'.receipts => ops'[j] # 0
    BY <1>1, <1>8, <1>9, <1>10, <2>1 DEF LedgerKnown
  <2>4. \A j \in DOMAIN requests' : ops'[j] # 0 /\ requests'[j].op = "place" => j \in row'.guest
    BY <1>1, <1>4, <1>8, <1>9, <2>1 DEF LedgerKnown
  <2> QED BY <2>2, <2>3, <2>4 DEF LedgerKnown
<1>19. RequestsTold'
  <2>1. requests[k].op \in Mutations => told[k] = "none"
    BY <1>2, <1>3 DEF CInv, Alive, GraphKnown, Mutations
  <2>2. ASSUME NEW j \in DOMAIN requests PROVE
          /\ told'[j] = "placed" => j \in placed' /\ j \in row'.guest
          /\ told'[j] = "unplaced" => j \notin placed' /\ thread' # j
          /\ told'[j] = "changed" => ops'[j] # 0
          /\ told'[j] = "declined" /\ requests'[j].op \in Mutations => ops'[j] = 0
    BY <1>1, <1>4, <1>8, <1>9, <1>10, <2>1 DEF CInv, RequestsTold
  <2> QED BY <1>1, <2>2 DEF RequestsTold
<1> QED BY <1>11, <1>12, <1>13, <1>14, <1>15, <1>16, <1>17, <1>18, <1>19 DEF CInv, Alive

LEMMA PublishKeeps == ASSUME CInv, RInv', Publish PROVE CInv'
<1>1. CASE ops[graph.key] # 0 /\ UNCHANGED durable
  BY <1>1, ReplayKeeps
<1>2. CASE /\ ops[graph.key] = 0 /\ local.rev = row.rev
           /\ row' = [Mutated(local, graph.key) EXCEPT !.rev = row.rev + 1]
           /\ ops' = [ops EXCEPT ![graph.key] = row.rev + 1]
  BY <1>2, CommitKeeps
<1> QED BY <1>1, <1>2 DEF Publish

(* A failing node goes to its recovery, a failing recovery ends.            *)
LEMMA FailKeeps ==
    ASSUME CInv, RInv', Running, Fail, thread' = 0,
           UNCHANGED <<row, ops, local, requests, saved, placed, worker, told, consent>>
    PROVE  CInv'
<1>1. worker = "up" /\ step' = "none" /\ graph.node \notin {"idle", "terminal", "seeded"}
  BY DEF Running, Fail
<1>2. Typed' /\ RequestsKept
  BY <1>1, StillTyped DEF CInv, Typed
<1>3. RequestsTold' /\ GraphStep
  BY <1>1, <1>2, SaysNothing DEF GraphStep
<1>4. CASE graph.node = "recover"
  <2>1. graph' = At("terminal", 0, graph.rev) /\ detour' = 0
    BY <1>4 DEF Fail
  <2> QED BY <1>1, <1>2, <1>3, <2>1, Settles, GraphFactsKeep
<1>5. CASE graph.node # "recover"
  <2>1. graph' = Marker("recover", Base(graph), graph.key, graph.rev) /\ detour' = detour
    BY <1>1, <1>5 DEF Fail, Base
  <2>2. GraphFacts'
    BY <1>1, <2>1, Marks
  <2> QED BY <1>2, <1>3, <2>2, GraphFactsKeep
<1> QED BY <1>4, <1>5

(* The seed of a recovery.                                                  *)
LEMMA SeedKeeps ==
    ASSUME CInv, RInv', worker = "up", graph.node \notin {"idle", "terminal"},
           Seed(Base(graph)), thread' = 0,
           UNCHANGED <<row, ops, local, requests, placed, worker, told, consent>>
    PROVE  CInv'
<1>1. /\ graph' = Marker("seeded", Base(graph), graph.key, graph.rev) /\ saved' = graph'
      /\ step' = "none" /\ detour' = 0
  BY DEF Seed
<1>2. Typed' /\ RequestsKept
  BY <1>1, StillTyped DEF CInv, Typed
<1>3. RequestsTold' /\ GraphStep
  BY <1>1, <1>2, SaysNothing DEF GraphStep
<1>4. GraphFacts'
  BY <1>1, Marks
<1> QED BY <1>2, <1>3, <1>4, GraphFactsKeep

(* What was committed is installed.                                         *)
LEMMA AcknowledgeKeeps == ASSUME CInv, RInv', Acknowledge PROVE CInv'
<1>1. /\ worker = "up" /\ step = "unacked" /\ step' = "none" /\ local' = row
      /\ UNCHANGED <<row, ops, requests, saved, thread, placed, worker, consent>>
  BY DEF Acknowledge, Complete, Running, durable
<1>2. /\ graph.node \in {"mutation_apply", "read", "place", "recover"}
      /\ graph.node = "recover" => graph.origin = "place"
      /\ ops[graph.key] # 0
      /\ graph.node \in {"place", "recover"} => graph.key \in placed
      /\ graph.node = "read" => row.lines = local.lines
  BY <1>1 DEF CInv, Alive, StepKnown
<1>3. graph.key \in DOMAIN requests /\ thread' = 0 /\ (detour # 0 => graph.node = "read")
  BY <1>1, <1>2, NodeAlone DEF Base
<1>4. PICK k : k = graph.key
  OBVIOUS
<1>5. /\ graph.node \in {"place", "recover"} => requests[k].op = "place"
      /\ graph.node = "mutation_apply" => requests[k].op \in Mutations
  BY <1>2, <1>4 DEF CInv, Fits, Base, Mutating, Placing
<1>6. /\ graph.node = "mutation_apply" => graph' = At("ack", k, row.rev) /\ UNCHANGED <<told,
                                                                                        detour>>
      /\ graph.node = "read" => EndTurn(row.rev) /\ UNCHANGED told
      /\ graph.node \in {"place", "recover"} => EndTurn(row.rev) /\ Tell(k, "placed")
  BY <1>4 DEF Acknowledge, Complete
<1>7. "placed" \in Words /\ local'.lines \in Carts /\ k \in DOMAIN requests
  BY <1>1, <1>3, <1>4 DEF Words, CInv, Typed
<1>8. Typed' /\ RequestsKept
  BY <1>1, <1>2, <1>6, <1>7, StillTyped
<1>9. RequestsTold'
  <2>1. CASE graph.node \in {"mutation_apply", "read"}
    BY <1>1, <1>6, <1>8, <2>1, SaysNothing
  <2>2. CASE graph.node \in {"place", "recover"}
    <3>1. k \in placed /\ k \in row.guest
      BY <1>2, <1>4, <1>5, <1>7, <2>2 DEF CInv, LedgerKnown
    <3> QED BY <1>1, <1>6, <1>7, <2>2, <3>1, SaysTruly
  <2> QED BY <1>2, <2>1, <2>2
<1>10. GraphFacts'
  <2>1. CASE graph.node = "mutation_apply"
    <3>1. graph'.node = "ack" /\ graph'.key = k /\ detour' = 0
      BY <1>3, <1>6, <2>1, AtShape, AtFields
    <3>2. (Fits(graph))' /\ (Agreed(graph))'
      BY <1>1, <1>5, <1>7, <2>1, <3>1 DEF Fits, Agreed, Base, Mutating
    <3>3. GraphKnown'
      BY <1>1, <1>2, <1>4, <3>1 DEF GraphKnown, Checkout, Placing
    <3>4. StepKnown' /\ DetourKnown' /\ ThreadKnown'
      BY <1>1, <1>3, <3>1 DEF StepKnown, DetourKnown, ThreadKnown
    <3> QED BY <3>2, <3>3, <3>4 DEF GraphFacts
  <2>2. CASE graph.node # "mutation_apply"
    <3>1. PICK rev : rev = row.rev
      OBVIOUS
    <3>2. EndTurn(rev) /\ (detour # 0 => local'.lines = local.lines)
      BY <1>1, <1>2, <1>3, <1>6, <2>2, <3>1
    <3> QED BY <1>1, <1>3, <3>2, TurnEnds
  <2> QED BY <2>1, <2>2
<1>11. (Fits(saved))' /\ (Agreed(saved))' /\ SavedKnown'
  BY <1>1 DEF CInv, Fits, Agreed, Base, SavedKnown, Checkout
<1>12. LedgerKnown'
  BY <1>1 DEF CInv, LedgerKnown
<1>13. Gone'
  BY <1>1 DEF Gone
<1> QED BY <1>8, <1>9, <1>10, <1>11, <1>12, <1>13 DEF CInv, Alive, GraphFacts

(* The recovery node.                                                       *)
LEMMA RecoverKeeps == ASSUME CInv, RInv', Recover PROVE CInv'
<1>1. /\ worker = "up" /\ graph.node = "recover" /\ step = "none"
      /\ UNCHANGED <<row, ops, local, requests, saved, thread, placed, worker, consent>>
  BY DEF Recover, Running, durable
<1>2. graph.key \in DOMAIN requests /\ thread = 0 /\ graph.rev = local.rev
  BY <1>1, NodeAlone DEF CInv, RInv, GraphKnowsLocal
<1>3. PICK k : k = graph.key
  OBVIOUS
<1>4. k \in DOMAIN requests /\ k \in Keys /\ k # 0 /\ local'.lines \in Carts
  BY <1>1, <1>2, <1>3, KeysKnown DEF CInv, Typed
<1>5. \/ \E w \in Words : /\ EndTurn(graph.rev) /\ Tell(k, w) /\ step' = "none"
                          /\ w \notin {"placed", "declined"}
                          /\ w = "changed" => k \in local.receipts
                          /\ w = "unplaced" => k \notin placed
      \/ /\ graph.origin = "place" /\ k \in placed
         /\ step' = "publish" /\ UNCHANGED <<graph, told, detour>>
  <2>1. CASE ReviewCart
    BY <1>1, <1>2, <1>3, <2>1 DEF ReviewCart, Words
  <2>2. CASE ReconcilePlacement
    BY <1>1, <1>2, <1>3, <2>2 DEF ReconcilePlacement, Words
  <2>3. CASE AbortRequest
    BY <1>1, <1>2, <1>3, <2>3 DEF AbortRequest, Words
  <2> QED BY <2>1, <2>2, <2>3 DEF Recover
<1>6. ASSUME NEW w \in Words, EndTurn(graph.rev), Tell(k, w), step' = "none",
             w \notin {"placed", "declined"},
             w = "changed" => k \in local.receipts, w = "unplaced" => k \notin placed
      PROVE  CInv'
  <2>1. w = "changed" => ops[k] # 0
    BY <1>4, <1>6 DEF CInv, LedgerKnown
  <2>2. Typed' /\ RequestsKept
    BY <1>1, <1>4, <1>6, StillTyped
  <2>3. RequestsTold'
    BY <1>1, <1>2, <1>4, <1>6, <2>1, SaysTruly
  <2>4. PICK rev : rev = graph.rev
    OBVIOUS
  <2>5. EndTurn(rev)
    BY <1>6, <2>4
  <2>6. GraphStep /\ GraphFacts'
    BY <1>1, <1>2, <1>6, <2>2, <2>5, TurnEnds DEF GraphStep
  <2> QED BY <2>2, <2>3, <2>6, GraphFactsKeep
<1>7. CASE /\ graph.origin = "place" /\ k \in placed
           /\ step' = "publish" /\ UNCHANGED <<graph, told, detour>>
  <2>1. Typed' /\ RequestsKept
    BY <1>1, <1>4, <1>7, StillTyped
  <2>2. RequestsTold'
    BY <1>1, <1>7, <2>1, SaysNothing
  <2>3. StepKnown' /\ ThreadKnown'
    BY <1>1, <1>2, <1>3, <1>7 DEF StepKnown, ThreadKnown
  <2> QED BY <1>1, <1>7, <2>1, <2>2, <2>3, InsideNode
<1> QED BY <1>5, <1>6, <1>7

-----------------------------------------------------------------------------
(* The steps of a caller, of the graph, of failures and of a restore.       *)
LEMMA ResumeKeeps == ASSUME CInv, RInv', ResumeSeeded PROVE CInv'
<1>1. /\ worker = "up" /\ step = "none" /\ graph.node = "seeded"
      /\ graph' = Marker("recover", Base(graph), graph.key, graph.rev)
      /\ UNCHANGED <<row, ops, local, requests, saved, step, detour, thread, placed, worker,
                     told, consent>>
  BY DEF ResumeSeeded, Listening, durable, Base
<1>2. thread' = 0
  BY <1>1, NodeAlone
<1>3. Typed' /\ RequestsKept
  BY <1>1, StillTyped DEF CInv, Typed
<1>4. RequestsTold' /\ GraphStep
  BY <1>1, <1>3, SaysNothing DEF GraphStep
<1>5. GraphFacts'
  BY <1>1, <1>2, Marks
<1> QED BY <1>3, <1>4, <1>5, GraphFactsKeep

LEMMA CallerKeeps == ASSUME CInv, RInv', Caller PROVE CInv'
<1>1. CASE \E r \in Replies : Answer(r)
  BY <1>1, AnswerKeeps
<1> QED BY <1>1, RequestsKeep, ResumeKeeps DEF Caller

LEMMA ProgressKeeps == ASSUME CInv, RInv', Progress PROVE CInv'
<1>1. CASE StaleRevision
  <2>1. /\ Running /\ Fail /\ thread' = 0
        /\ UNCHANGED <<row, ops, local, requests, saved, placed, worker, told, consent>>
    BY <1>1, PublishingFacts DEF StaleRevision, Publishing, durable
  <2> QED BY <2>1, FailKeeps
<1>2. CASE Quiesced
  <2>1. /\ worker = "up" /\ step = "quiesce"
        /\ UNCHANGED <<row, ops, local, requests, thread, placed, worker, told, consent>>
    BY <1>2 DEF Quiesced, durable
  <2>2. graph.node = "place" /\ Base(graph) = "place"
    BY <2>1 DEF CInv, RInv, StepFits, Base
  <2>3. CASE thread = 0
    <3>1. Seed(Base(graph)) /\ thread' = 0
      BY <1>2, <2>1, <2>2, <2>3 DEF Quiesced
    <3> QED BY <2>1, <2>2, <3>1, SeedKeeps
  <2>4. CASE thread # 0
    <3>1. graph' = At("terminal", 0, graph.rev) /\ step' = "none" /\ UNCHANGED <<saved, detour>>
      BY <1>2, <2>4 DEF Quiesced
    <3>2. detour' = 0
      BY <2>1, <2>2, <3>1, NodeAlone
    <3>3. Typed' /\ RequestsKept
      BY <2>1, <3>1, StillTyped DEF CInv, Typed
    <3>4. RequestsTold' /\ GraphStep
      BY <2>1, <3>1, <3>3, SaysNothing DEF GraphStep
    <3> QED BY <3>1, <3>2, <3>3, <3>4, Settles, GraphFactsKeep
  <2> QED BY <2>3, <2>4
<1>3. CASE Persist
  <2>1. /\ worker = "up" /\ saved' = graph'
        /\ UNCHANGED <<row, ops, local, requests, graph, step, detour, thread, placed, worker,
                       told, consent>>
    BY <1>3 DEF Persist, durable
  <2>2. Typed' /\ RequestsKept
    BY <2>1, StillTyped DEF CInv, Typed
  <2>3. RequestsTold'
    BY <2>1, <2>2, SaysNothing
  <2>4. StepKnown /\ ThreadKnown
    BY <2>1 DEF CInv, Alive
  <2>5. StepKnown' /\ ThreadKnown'
    BY <2>1, <2>4 DEF StepKnown, ThreadKnown
  <2> QED BY <2>1, <2>2, <2>3, <2>5, InsideNode
<1> QED BY <1>1, <1>2, <1>3, GuardrailKeeps, PlacementKeeps, AckKeeps, PublishKeeps,
           AcknowledgeKeeps, RecoverKeeps DEF Progress

LEMMA FailureKeeps == ASSUME CInv, RInv', Failure PROVE CInv'
<1> USE DEF durable
<1>1. CASE NodeRaises
  BY <1>1, FailKeeps DEF NodeRaises
<1>2. CASE CancelTurn
  <2>1. /\ worker = "up" /\ Running /\ step # "quiesce"
        /\ UNCHANGED <<row, ops, local, requests, thread, placed, worker, told, consent>>
    BY <1>2 DEF CancelTurn, Running
  <2>2. graph.node \notin {"idle", "terminal", "seeded"}
    BY <2>1 DEF Running
  <2>3. CASE step = "placing"
    <3>1. step' = "quiesce" /\ detour' = 0 /\ UNCHANGED <<graph, saved>>
      <4>1. graph.node = "place"
        BY <2>3 DEF CInv, RInv, StepFits
      <4> QED BY <1>2, <2>3, <4>1 DEF CancelTurn
    <3>2. Typed' /\ RequestsKept
      BY <2>1, <3>1, StillTyped DEF CInv, Typed
    <3>3. RequestsTold'
      BY <2>1, <3>1, <3>2, SaysNothing
    <3>4. ThreadKnown
      BY <2>1 DEF CInv, Alive
    <3>5. StepKnown' /\ ThreadKnown'
      BY <2>1, <2>3, <3>1, <3>4 DEF StepKnown, ThreadKnown
    <3> QED BY <2>1, <3>1, <3>2, <3>3, <3>5, InsideNode
  <2>4. CASE step # "placing" /\ graph.node = "recover"
    <3>1. /\ graph' = At("terminal", 0, graph.rev) /\ saved' = graph'
          /\ step' = "none" /\ detour' = 0
      BY <1>2, <2>4 DEF CancelTurn
    <3>2. Typed' /\ RequestsKept
      BY <2>1, <3>1, StillTyped DEF CInv, Typed
    <3>3. RequestsTold' /\ GraphStep
      BY <2>1, <3>1, <3>2, SaysNothing DEF GraphStep
    <3> QED BY <3>1, <3>2, <3>3, Settles, GraphFactsKeep
  <2>5. CASE step # "placing" /\ graph.node # "recover"
    <3>1. thread' = 0
      BY <2>1, <2>2, <2>5, NodeAlone
    <3>2. Base(graph) = graph.node
      BY <2>2, <2>5 DEF Base
    <3>3. Seed(graph.node)
      BY <1>2, <2>5 DEF CancelTurn
    <3>4. Seed(Base(graph))
      BY <3>2, <3>3
    <3> QED BY <2>1, <2>2, <3>1, <3>4, SeedKeeps
  <2> QED BY <2>3, <2>4, <2>5
<1>3. CASE CancelAnswer
  <2>1. /\ worker = "up" /\ step = "none" /\ graph.node \in Confirms /\ Seed(graph.node)
        /\ UNCHANGED <<row, ops, local, requests, thread, placed, worker, told, consent>>
    BY <1>3 DEF CancelAnswer, Listening
  <2>2. Base(graph) = graph.node /\ thread' = 0 /\ graph.node \notin {"idle", "terminal"}
    BY <2>1, NodeAlone DEF Base, Confirms
  <2> QED BY <2>1, <2>2, SeedKeeps
<1>4. CASE Crash
  <2>1. /\ worker' = "down" /\ graph' = saved /\ step' = "none" /\ detour' = 0 /\ thread' = 0
        /\ UNCHANGED <<row, ops, local, requests, saved, placed, told, consent>>
    BY <1>4 DEF Crash
  <2>2. Typed' /\ RequestsKept
    BY <2>1, StillTyped DEF CInv, Typed
  <2>3. RequestsTold'
    BY <2>1, <2>2, SaysNothing
  <2>4. (Fits(graph))' /\ (Fits(saved))' /\ (Agreed(graph))' /\ (Agreed(saved))'
    BY <2>1 DEF CInv, Fits, Agreed, Base
  <2>5. Alive' /\ Gone'
    BY <2>1 DEF Alive, Gone
  <2>6. SavedKnown' /\ LedgerKnown'
    BY <2>1 DEF CInv, SavedKnown, Checkout, LedgerKnown
  <2> QED BY <2>2, <2>3, <2>4, <2>5, <2>6 DEF CInv
<1> QED BY <1>1, <1>2, <1>3, <1>4 DEF Failure

(* A restored session has the row, and its checkpoint says of its request   *)
(* what the row says.                                                       *)
LEMMA RestoreKeeps == ASSUME CInv, RInv', Restore PROVE CInv'
<1> USE DEF durable
<1>1. ASSUME NEW state, worker = "down", Restored(state), (Fits(graph))', (Agreed(graph))',
             GraphKnown', SavedKnown'
      PROVE  CInv'
  <2>1. /\ worker' = "up" /\ graph' = state /\ saved' = state /\ local' = row
        /\ UNCHANGED <<row, ops, requests, step, detour, thread, placed, told, consent>>
    BY <1>1 DEF Restored
  <2>2. step' = "none" /\ detour' = 0 /\ thread' = 0
    BY <1>1, <2>1 DEF CInv, RInv, StepFits, Gone
  <2>3. Typed' /\ RequestsKept
    BY <2>1, <2>2, StillTyped DEF CInv, Typed
  <2>4. RequestsTold'
    BY <2>1, <2>3, SaysNothing
  <2>5. StepKnown' /\ DetourKnown' /\ ThreadKnown'
    BY <2>2 DEF StepKnown, DetourKnown, ThreadKnown
  <2>6. (Fits(saved))' /\ (Agreed(saved))'
    BY <1>1, <2>1 DEF Fits, Agreed, Base
  <2>7. LedgerKnown'
    BY <2>1 DEF CInv, LedgerKnown
  <2> QED BY <1>1, <2>1, <2>3, <2>4, <2>5, <2>6, <2>7 DEF CInv, Alive, Gone
<1>2. CASE RestoreCurrent
  <2>1. PICK state : state = [saved EXCEPT !.ask = 1]
    OBVIOUS
  <2>2. worker = "down" /\ CurrentRestorable /\ Restored(state)
    BY <1>2, <2>1 DEF RestoreCurrent
  <2>3. /\ graph' = state /\ saved' = state /\ local' = row
        /\ UNCHANGED <<row, ops, requests, told, consent, step>>
    BY <2>2 DEF Restored
  <2>4. /\ state.node = saved.node /\ state.key = saved.key /\ state.origin = saved.origin
        /\ state.rev = saved.rev
    BY <2>1 DEF CInv, RInv, Shape, GraphShape, GraphFields
  <2>5. (Fits(graph))' /\ (Agreed(graph))'
    BY <2>3, <2>4 DEF CInv, Fits, Agreed, Base
  <2>6. SavedKnown'
    BY <2>3, <2>4 DEF CInv, SavedKnown, Checkout
  <2>7. saved.node = "mutation_confirm" => ops[saved.key] = 0
    <3>1. ASSUME saved.node = "mutation_confirm", ops[saved.key] # 0 PROVE FALSE
      <4>1. saved.key \in Keys
        BY <3>1, KeysKnown DEF CInv, Fits
      <4>2. ops[saved.key] \in Nat /\ row.rev \in Nat /\ ops[saved.key] <= row.rev
        BY <4>1 DEF CInv, Typed, RInv, Shape, LedgerKnown
      <4>3. ops[saved.key] > row.rev
        BY <2>2, <3>1 DEF CInv, SavedKnown, CurrentRestorable
      <4> QED BY <4>2, <4>3
    <3> QED BY <3>1
  <2>8. Checkout(saved) /\ ops[saved.key] = 0 => requests[saved.key].lines = row.lines
    BY <2>2 DEF CInv, SavedKnown, CurrentRestorable
  <2>9. GraphKnown'
    BY <2>2, <2>3, <2>4, <2>7, <2>8 DEF GraphKnown, CurrentRestorable, Confirms, Checkout
  <2> QED BY <1>1, <2>2, <2>5, <2>6, <2>9
<1>3. CASE RestoreAhead
  <2>1. PICK state : state = Marker("seeded", saved.node, saved.key, row.rev)
    OBVIOUS
  <2>2. worker = "down" /\ AheadRestorable /\ Restored(state)
    BY <1>3, <2>1 DEF RestoreAhead
  <2>3. /\ graph' = state /\ saved' = state /\ local' = row
        /\ UNCHANGED <<row, ops, requests, told, consent>>
    BY <2>2 DEF Restored
  <2>4. state.node = "seeded" /\ state.key = saved.key /\ state.origin = saved.node
    BY <2>1, MarkerShape, AtFields
  <2>5. saved.node \in {"mutation_apply", "place", "read"} /\ ops[saved.key] # 0
    BY <2>2 DEF AheadRestorable, CInv, RInv, Shape
  <2>6. (Fits(graph))' /\ (Agreed(graph))'
    BY <2>3, <2>4, <2>5 DEF CInv, Fits, Agreed, Base
  <2>7. GraphKnown' /\ SavedKnown'
    BY <2>3, <2>4, <2>5 DEF GraphKnown, SavedKnown, Checkout
  <2> QED BY <1>1, <2>2, <2>6, <2>7
<1>4. CASE RefuseRestore
  <2>1. /\ worker = "down" /\ worker' = "refused"
        /\ UNCHANGED <<row, ops, local, requests, graph, saved, step, detour, thread, placed,
                       told, consent>>
    BY <1>4 DEF RefuseRestore
  <2>2. Typed' /\ RequestsKept
    BY <2>1, StillTyped DEF CInv, Typed
  <2>3. RequestsTold'
    BY <2>1, <2>2, SaysNothing
  <2>4. (Fits(graph))' /\ (Fits(saved))' /\ (Agreed(graph))' /\ (Agreed(saved))'
    BY <2>1 DEF CInv, Fits, Agreed, Base
  <2>5. Alive' /\ Gone'
    BY <2>1 DEF CInv, Alive, Gone
  <2>6. SavedKnown' /\ LedgerKnown'
    BY <2>1 DEF CInv, SavedKnown, Checkout, LedgerKnown
  <2> QED BY <2>2, <2>3, <2>4, <2>5, <2>6 DEF CInv
<1> QED BY <1>2, <1>3, <1>4 DEF Restore

LEMMA InitCInv == Init => CInv
<1> SUFFICES ASSUME Init PROVE CInv
  OBVIOUS
<1>1. /\ row.rev = 0 /\ row.lines = NoLines /\ row.receipts = {} /\ local = row
      /\ ops = [k \in Keys |-> 0] /\ told = [k \in Keys |-> "none"] /\ requests = <<>>
      /\ graph = At("idle", 0, 0) /\ saved = graph
      /\ step = "none" /\ detour = 0 /\ thread = 0 /\ worker = "up"
  BY DEF Init, Rest
<1>2. NoLines \in Carts /\ "none" \in Words /\ DOMAIN requests = {}
  BY <1>1 DEF NoLines, Carts, Words
<1>3. graph.node = "idle"
  BY <1>1, AtShape
<1>4. Typed
  BY <1>1, <1>2, CartAssumption DEF Typed
<1>5. Fits(graph) /\ Fits(saved) /\ Agreed(graph) /\ Agreed(saved)
  BY <1>1, <1>3 DEF Fits, Agreed, Base
<1>6. Alive /\ Gone
  BY <1>1, <1>3 DEF Alive, Gone, GraphKnown, StepKnown, DetourKnown, ThreadKnown, Checkout, Placing
<1>7. SavedKnown /\ LedgerKnown /\ RequestsTold
  BY <1>1, <1>2, <1>3 DEF SavedKnown, LedgerKnown, RequestsTold, Checkout, Placing
<1> QED BY <1>4, <1>5, <1>6, <1>7, InitRInv DEF CInv

LEMMA NextCInv == CInv /\ [Next]_vars => CInv'
<1> SUFFICES ASSUME CInv, [Next]_vars PROVE CInv'
  OBVIOUS
<1>1. RInv'
  BY NextRInv DEF CInv
<1>2. CASE Next
  BY <1>1, <1>2, CallerKeeps, ProgressKeeps, FailureKeeps, RestoreKeeps DEF Next
<1>3. CASE UNCHANGED vars
  <2>1. UNCHANGED <<row, ops, local, requests, graph, saved, step, detour, thread, placed,
                    worker, told, consent>>
    BY <1>3 DEF vars
  <2>2. Typed' /\ RequestsTold'
    BY <2>1 DEF CInv, Typed, RequestsTold, MadeRequest, Carts
  <2>3. (Fits(graph))' /\ (Fits(saved))' /\ (Agreed(graph))' /\ (Agreed(saved))'
    BY <2>1 DEF CInv, Fits, Agreed, Base
  <2>4. Alive' /\ Gone'
    BY <2>1 DEF CInv, Alive, Gone, GraphKnown, StepKnown, DetourKnown, ThreadKnown, Checkout, Base
  <2>5. SavedKnown' /\ LedgerKnown'
    BY <2>1 DEF CInv, SavedKnown, Checkout, LedgerKnown
  <2> QED BY <1>1, <2>2, <2>3, <2>4, <2>5 DEF CInv
<1> QED BY <1>2, <1>3

LEMMA InvariantCInv == Spec => []CInv
BY InitCInv, NextCInv, PTL DEF Spec

-----------------------------------------------------------------------------
(* The worker's projection, the checkpoint, the session's row, the order    *)
(* store and what the caller heard agree: the projection is the row or      *)
(* older, the checkpoint at most one operation behind, and what was said of *)
(* a placement or a change is so, through lost acknowledgements, cancelled  *)
(* turns, threads that outlive them, crashes and restores.                  *)
THEOREM RecordsAlwaysAgree == Spec => []RecordsAgree
<1>1. CInv => RecordsAgree
  BY DEF CInv, RInv, RecordsAgree
<1> QED BY <1>1, InvariantCInv, PTL

(* The durable cart changes only by a request the caller said yes to, once, *)
(* and a checkout empties it of the lines that were ordered, an order the   *)
(* store has: _commit compares the revision, so the cart it changes is the  *)
(* one the flow saw.                                                        *)
THEOREM ChangesAreAlwaysConsented == Spec => CartChangesAreConsented
<1> DEFINE Consented ==
      row'.lines # row.lines =>
         \E k \in consent :
            /\ ops[k] = 0
            /\ ops'[k] = row'.rev
            /\ IF requests[k].op = "place"
                 THEN k \in placed /\ row.lines = requests[k].lines /\ row'.lines = NoLines
                 ELSE row'.lines = Mutated(row, k).lines
<1>1. ASSUME CInv, Next, row' # row PROVE Publish
  <2>1. ~Caller
    BY <1>1 DEF Caller, RequestMutation, RequestPlacement, RequestRead, Mint, Answer,
                ResumeSeeded, durable
  <2>2. ~Failure /\ ~Restore
    BY <1>1 DEF Failure, NodeRaises, CancelTurn, CancelAnswer, Crash, Restore, RestoreCurrent,
                RestoreAhead, RefuseRestore, Restored, durable
  <2>3. Progress => Publish
    BY <1>1 DEF Progress, Guardrail, StartPlacing, PlaceCart, PlacingReturns, Ack, StaleRevision,
                Acknowledge, Quiesced, Persist, Recover, durable
  <2> QED BY <1>1, <2>1, <2>2, <2>3 DEF Next
<1>2. ASSUME CInv, Publish, row'.lines # row.lines PROVE Consented
  <2>1. /\ Publishing /\ ops[graph.key] = 0 /\ local.rev = row.rev
        /\ row' = [Mutated(local, graph.key) EXCEPT !.rev = row.rev + 1]
        /\ ops' = [ops EXCEPT ![graph.key] = row.rev + 1]
    BY <1>2 DEF Publish, durable
  <2>2. PICK k : k = graph.key
    OBVIOUS
  <2>3. /\ worker = "up" /\ k \in Keys /\ requests[k] \in MadeRequest
        /\ \/ graph.node = "mutation_apply" /\ requests[k].op \in Mutations
           \/ graph.node = "read" /\ requests[k].op = "read"
           \/ /\ graph.node = "place" \/ (graph.node = "recover" /\ graph.origin = "place")
              /\ requests[k].op = "place" /\ k \in placed
    BY <1>2, <2>1, <2>2, PublishingFacts
  <2>4. local = row /\ DOMAIN local = PayloadFields /\ local.lines \in Carts
    BY <1>2, <2>1, <2>3 DEF CInv, RInv, Shape, LocalFollowsRow, Typed
  <2>5. PICK p, q : p = local /\ q = Mutated(p, k)
    OBVIOUS
  <2>6. /\ DOMAIN q = PayloadFields
        /\ requests[k].op = "place" => q.lines = NoLines
        /\ requests[k].op = "read" => q.lines = p.lines
    BY <2>3, <2>4, <2>5, MutatedFacts
  <2>7. row'.lines = q.lines /\ row'.rev = row.rev + 1 /\ q = Mutated(row, k)
    <3>1. row' = [q EXCEPT !.rev = row.rev + 1]
      BY <2>1, <2>2, <2>5
    <3> QED BY <2>4, <2>5, <2>6, <3>1 DEF PayloadFields
  <2>8. ops'[k] = row'.rev /\ ops[k] = 0
    BY <1>2, <2>1, <2>2, <2>3, <2>7 DEF CInv, Typed
  <2>9. requests[k].op # "read"
    BY <1>2, <2>4, <2>5, <2>6, <2>7
  <2>10. k \in consent
    BY <1>2, <2>2, <2>3, <2>9 DEF CInv, Agreed, Base
  <2>11. requests[k].op = "place" => k \in placed /\ row.lines = requests[k].lines
    <3>1. requests[k].op = "place" => Checkout(graph) /\ k \in placed
      BY <2>3 DEF Checkout, Placing, Mutations
    <3> QED BY <1>2, <2>2, <2>3, <2>4, <2>8, <3>1 DEF CInv, Alive, GraphKnown
  <2> QED BY <2>6, <2>7, <2>8, <2>10, <2>11
<1>3. ASSUME CInv, [Next]_vars PROVE Consented
  <2>1. CASE row' = row
    BY <2>1
  <2>2. CASE row' # row
    <3>1. Publish
      BY <1>1, <1>3, <2>2 DEF vars
    <3> QED BY <1>2, <1>3, <3>1
  <2> QED BY <2>1, <2>2
<1>4. CInv /\ [Next]_vars => [Consented]_vars
  BY <1>3
<1> QED BY <1>4, InvariantCInv, PTL DEF Spec, CartChangesAreConsented
=============================================================================
