---------------------------- MODULE CartCheckout -----------------------------
(***************************************************************************)
(* A caller changes a cart and places it as an order, on workers that      *)
(* fail: the cart flow (agents/cart/flow.py), the coordinator that commits *)
(* every change of session state before it shows locally                   *)
(* (durability/session_state.py), the recovery node (agents/recovery.py),  *)
(* and what the engine does with a cancelled turn and with the checkpoint  *)
(* of a session it restores (agents/engine.py).                            *)
(*                                                                         *)
(* Four copies of the truth move at different moments:                     *)
(*                                                                         *)
(*   row      the session's row: revision, cart, receipts, guest orders;   *)
(*   local    the coordinator's projection of it, which flows read;        *)
(*   graph    the state of the turn graph, with the revision it saw, and   *)
(*            saved, the last checkpoint of it that is durable;            *)
(*   placed   the orders of the store behind OrderPort.                    *)
(*                                                                         *)
(* LangGraph writes a checkpoint while the next node runs: nothing in src/ *)
(* asks it to wait (no durability argument), so saved trails graph inside  *)
(* a turn. The order store is the system of record and outlives a worker.  *)
(*                                                                         *)
(* A request is frozen under its idempotency key when it is minted; the    *)
(* key is its index in requests. Prices are one, so a total is a number of *)
(* units.                                                                  *)
(***************************************************************************)
EXTENDS Naturals, Sequences, Functions

CONSTANTS
    Skus,            \* products
    MaxQuantity,     \* bound on the quantity of a line
    MaxOrderUnits,   \* policy.max_order_value_usd
    MaxKeys,         \* bound on the requests minted
    MaxFaults,       \* bound on failures, cancellations and crashes
    MaxCrashes       \* bound on the crashes among them

ASSUME CartAssumption ==
    /\ Skus # {}
    /\ MaxQuantity \in Nat \ {0}
    /\ MaxOrderUnits \in Nat
    /\ MaxKeys \in Nat
    /\ MaxFaults \in Nat
    /\ MaxCrashes \in Nat

VARIABLES
    row,        \* platform_sessions: revision and payload
    ops,        \* platform_session_operations: the revision each key committed
    local,      \* SessionStateCoordinator: revision and projection
    requests,   \* what was minted, by key
    graph,      \* the state of the turn graph
    saved,      \* its durable checkpoint
    step,       \* how far the running node is
    detour,     \* the readback the engine set aside for a read, or 0
    thread,     \* the key whose place_cart runs in a worker thread, or 0
    placed,     \* OrderStore._placed_by_key
    worker,     \* "up", "down", or "refused" when the session cannot be restored
    told,       \* what the caller was told about each request, last
    consent,    \* the keys the caller said yes to
    faults,     \* failures so far
    crashes     \* crashes so far

vars == <<row, ops, local, requests, graph, saved, step, detour,
          thread, placed, worker, told, consent, faults, crashes>>

durable == <<row, ops>>
budget == <<faults, crashes>>

Keys == 1..MaxKeys
Lines == [Skus -> 0..MaxQuantity]
NoLines == [s \in Skus |-> 0]
Units(lines) == SumFunction(lines)

Mutations == {"add", "remove", "set_quantity"}
Confirms == {"mutation_confirm", "confirm"}
Nodes == {"idle", "mutation_confirm", "mutation_apply", "ack", "guardrail", "confirm",
          "place", "read", "seeded", "recover", "terminal"}

Request ==
    [op : Mutations, sku : Skus, quantity : 0..MaxQuantity]
        \cup [op : {"place"}, lines : Lines, second : BOOLEAN]
        \cup [op : {"read"}]

(* The graph at a node, with the request pending there; a marker of         *)
(* recovery names the node it stands for.                                   *)
At(node, k, rev) == [node |-> node, key |-> k, origin |-> "none", ask |-> 1, rev |-> rev]
Marker(node, origin, k, rev) == [At(node, k, rev) EXCEPT !.origin = origin]
Rest(rev) == At("idle", 0, rev)

ConfirmOf(k) == IF requests[k].op = "place" THEN "confirm" ELSE "mutation_confirm"

Init ==
    /\ row = [rev |-> 0, lines |-> NoLines, receipts |-> {}, guest |-> {}]
    /\ ops = [k \in Keys |-> 0]
    /\ local = row
    /\ requests = <<>>
    /\ graph = Rest(0)
    /\ saved = graph
    /\ step = "none"
    /\ detour = 0
    /\ thread = 0
    /\ placed = {}
    /\ worker = "up"
    /\ told = [k \in Keys |-> "none"]
    /\ consent = {}
    /\ faults = 0
    /\ crashes = 0

(* A turn of the caller is taken between turns, when every checkpoint of    *)
(* the last one was written.                                                *)
Listening == worker = "up" /\ step = "none" /\ saved = graph

(* A node of the graph runs.                                                *)
Running ==
    /\ worker = "up"
    /\ graph.node \in {"mutation_apply", "ack", "guardrail", "place", "read", "recover"}

(* The end of a stream: a readback set aside for a read is read again.      *)
EndTurn(rev) ==
    /\ detour' = 0
    /\ graph' = IF detour = 0 THEN Rest(rev) ELSE At(ConfirmOf(detour), detour, rev)

Tell(k, what) == told' = [told EXCEPT ![k] = what]

-----------------------------------------------------------------------------
(* The caller.                                                              *)

Mint(request, node) ==
    /\ Len(requests) < MaxKeys
    /\ requests' = Append(requests, request)
    /\ graph' = At(node, Len(requests) + 1, graph.rev)
    /\ UNCHANGED <<durable, local, saved, step, thread, placed, worker, told, consent,
                   budget>>

(* capability_entry, _mint_mutation: an item to remove or to set is one of  *)
(* the cart the flow sees.                                                  *)
RequestMutation ==
    /\ Listening
    /\ graph.node = "idle"
    /\ \E op \in Mutations, s \in Skus, n \in 0..MaxQuantity :
          /\ CASE op = "add" -> n > 0 /\ local.lines[s] + n <= MaxQuantity
               [] op = "remove" -> n = 0 /\ local.lines[s] > 0
               [] op = "set_quantity" -> local.lines[s] > 0
          /\ Mint([op |-> op, sku |-> s, quantity |-> n], "mutation_confirm")
    /\ UNCHANGED detour

(* _mint_placement: the lines of the cart are frozen.                       *)
RequestPlacement ==
    /\ Listening
    /\ graph.node = "idle"
    /\ local.lines # NoLines
    /\ Mint([op |-> "place", lines |-> local.lines, second |-> FALSE], "guardrail")
    /\ UNCHANGED detour

(* A read of an order, between requests or while a readback is paused.      *)
RequestRead ==
    /\ Listening
    /\ graph.node \in {"idle"} \cup Confirms
    /\ detour' = IF graph.node = "idle" THEN 0 ELSE graph.key
    /\ Mint([op |-> "read"], "read")

(* The reply to a readback, or a readback whose time ran out or that the    *)
(* caller left for another request.                                         *)
Answer(reply) ==
    /\ Listening
    /\ graph.node \in Confirms
    /\ CASE reply = "yes" ->
              /\ consent' = consent \cup {graph.key}
              /\ graph' = At(IF graph.node = "confirm" THEN "place" ELSE "mutation_apply",
                             graph.key, graph.rev)
              /\ Tell(graph.key, "none")
         [] reply = "unclear" /\ graph.ask = 1 ->
              /\ graph' = [graph EXCEPT !.ask = 2]
              /\ UNCHANGED <<told, consent>>
         [] reply \in {"no", "expired"} \/ (reply = "unclear" /\ graph.ask = 2) ->
              /\ graph' = Rest(graph.rev)
              /\ Tell(graph.key, "declined")
              /\ UNCHANGED consent
         [] reply \in {"human", "aside"} ->
              /\ graph' = Rest(graph.rev)
              /\ UNCHANGED <<told, consent>>
    /\ UNCHANGED <<durable, local, requests, saved, step, detour, thread, placed, worker,
                   budget>>

Replies == {"yes", "no", "unclear", "human", "expired", "aside"}

-----------------------------------------------------------------------------
(* The nodes of the cart flow.                                              *)

(* identical_cart_order: an order this session placed with the same lines.  *)
Identical(lines) ==
    \E j \in local.guest \cap placed : requests[j].lines = lines

Guardrail ==
    /\ Running
    /\ graph.node = "guardrail"
    /\ IF Units(requests[graph.key].lines) > MaxOrderUnits
         THEN graph' = Rest(graph.rev) /\ UNCHANGED requests
         ELSE /\ graph' = At("confirm", graph.key, graph.rev)
              /\ requests' = [requests EXCEPT ![graph.key].second =
                                Identical(requests[graph.key].lines)]
    /\ UNCHANGED <<durable, local, saved, step, detour, thread, placed, worker, told,
                   consent, budget>>

(* place_node hands place_cart to a worker thread ...                       *)
StartPlacing ==
    /\ Running
    /\ graph.node = "place"
    /\ step = "none"
    /\ step' = "placing"
    /\ thread' = graph.key
    /\ UNCHANGED <<durable, local, requests, graph, saved, detour, placed, worker, told,
                   consent, budget>>

(* ... which records the order under its key, once ...                      *)
PlaceCart ==
    /\ thread # 0
    /\ placed' = placed \cup {thread}
    /\ thread' = 0
    /\ UNCHANGED <<durable, local, requests, graph, saved, step, detour, worker, told,
                   consent, budget>>

(* ... and finish_placement goes on when it returns.                        *)
PlacingReturns ==
    /\ Running
    /\ step = "placing"
    /\ thread = 0
    /\ step' = "publish"
    /\ UNCHANGED <<durable, local, requests, graph, saved, detour, thread, placed, worker,
                   told, consent, budget>>

(* ack_node speaks the result of a mutation.                                *)
Ack ==
    /\ Running
    /\ graph.node = "ack"
    /\ Tell(graph.key, "changed")
    /\ EndTurn(graph.rev)
    /\ UNCHANGED <<durable, local, requests, saved, step, thread, placed, worker, consent,
                   budget>>

-----------------------------------------------------------------------------
(* The coordinator: _commit, for the node that runs. An operation whose     *)
(* answer arrived is not committed again: nothing between the answer and    *)
(* the end of the node awaits or raises, so that _local_operations, which   *)
(* would answer it, has no case here.                                       *)

Publishing ==
    /\ Running
    /\ \/ step = "publish"
       \/ graph.node \in {"mutation_apply", "read"} /\ step = "none"

FinalQuantity(n, r) ==
    CASE r.op = "add" -> n + r.quantity
      [] r.op = "remove" -> 0
      [] r.op = "set_quantity" -> r.quantity

(* The projection a request makes of another: apply_confirmed_mutation,     *)
(* complete_placement, record_recent_orders.                                *)
Mutated(p, k) ==
    LET r == requests[k]
    IN CASE r.op = "place" ->
              [p EXCEPT !.lines = NoLines, !.receipts = {}, !.guest = @ \cup {k}]
         [] r.op = "read" -> p
         [] OTHER ->
              [p EXCEPT !.lines = [p.lines EXCEPT ![r.sku] = FinalQuantity(p.lines[r.sku], r)],
                        !.receipts = @ \cup {k}]

(* What a node does with a committed operation: finish_mutation,            *)
(* finish_placement, the end of a read.                                     *)
Complete(rev) ==
    /\ step' = "none"
    /\ CASE graph.node = "mutation_apply" ->
              graph' = At("ack", graph.key, rev) /\ UNCHANGED <<told, detour>>
         [] graph.node = "read" -> EndTurn(rev) /\ UNCHANGED told
         [] OTHER -> EndTurn(rev) /\ Tell(graph.key, "placed")

(* An exception: the node's error handler goes to the recovery node, whose  *)
(* own failure ends the automation.                                         *)
Fail ==
    /\ step' = "none"
    /\ IF graph.node = "recover"
         THEN graph' = At("terminal", 0, graph.rev) /\ detour' = 0
         ELSE /\ graph' = Marker("recover", graph.node, graph.key, graph.rev)
              /\ UNCHANGED detour

(* Mutant: the expected revision is not compared.                           *)
PublishOverAnyRevision ==
    /\ Publishing
    /\ step' = "unacked"
    /\ \/ /\ ops[graph.key] # 0
          /\ UNCHANGED durable
       \/ /\ ops[graph.key] = 0
          /\ row' = [Mutated(local, graph.key) EXCEPT !.rev = row.rev + 1]
          /\ ops' = [ops EXCEPT ![graph.key] = row.rev + 1]
    /\ UNCHANGED <<local, requests, graph, saved, detour, thread, placed, worker, told,
                   consent, budget>>

(* The registry: a receipt is replayed, a publication over the current      *)
(* revision commits.                                                        *)
Publish ==
    /\ Publishing
    /\ step' = "unacked"
    /\ \/ /\ ops[graph.key] # 0
          /\ UNCHANGED durable
       \/ /\ ops[graph.key] = 0
          /\ local.rev = row.rev
          /\ row' = [Mutated(local, graph.key) EXCEPT !.rev = row.rev + 1]
          /\ ops' = [ops EXCEPT ![graph.key] = row.rev + 1]
    /\ UNCHANGED <<local, requests, graph, saved, detour, thread, placed, worker, told,
                   consent, budget>>

(* A publication over an older revision is refused.                         *)
StaleRevision ==
    /\ Publishing
    /\ ops[graph.key] = 0
    /\ local.rev # row.rev
    /\ Fail
    /\ UNCHANGED <<durable, local, requests, saved, thread, placed, worker, told, consent,
                   budget>>

(* _install of what the registry returned.                                  *)
Acknowledge ==
    /\ Running
    /\ step = "unacked"
    /\ local' = row
    /\ Complete(row.rev)
    /\ UNCHANGED <<durable, requests, saved, thread, placed, worker, consent, budget>>

-----------------------------------------------------------------------------
(* Failures.                                                                *)

Fault == faults < MaxFaults /\ faults' = faults + 1 /\ UNCHANGED crashes

(* A node raises: before its effect, after a commit whose acknowledgement   *)
(* is lost, or in place of the thread's effect.                             *)
NodeRaises ==
    /\ Running
    /\ step # "quiesce"
    /\ Fault
    /\ Fail
    /\ thread' = 0
    /\ UNCHANGED <<durable, local, requests, saved, placed, worker, told, consent>>

(* The seed of a cancelled turn's recovery is written before the next turn. *)
Seed(origin) ==
    /\ graph' = Marker("seeded", origin, graph.key, graph.rev)
    /\ saved' = graph'
    /\ step' = "none"
    /\ detour' = 0

(* The stream of a turn is cancelled: _take_over_cancelled_stream waits for *)
(* a thread that outlived its node. A recovery cut short ends the           *)
(* automation.                                                              *)
CancelTurn ==
    /\ Running
    /\ step # "quiesce"
    /\ Fault
    /\ CASE step = "placing" ->
              step' = "quiesce" /\ detour' = 0 /\ UNCHANGED <<graph, saved>>
         [] graph.node = "recover" ->
              /\ graph' = At("terminal", 0, graph.rev)
              /\ saved' = graph'
              /\ step' = "none"
              /\ detour' = 0
         [] OTHER -> Seed(graph.node)
    /\ UNCHANGED <<durable, local, requests, thread, placed, worker, told, consent>>

(* The turn that answered a readback is cancelled inside it.                *)
CancelAnswer ==
    /\ Listening
    /\ graph.node \in Confirms
    /\ Fault
    /\ Seed(graph.node)
    /\ UNCHANGED <<durable, local, requests, thread, placed, worker, told, consent>>

(* Mutant: the takeover does not wait for the thread.                       *)
QuiescedAtOnce ==
    /\ worker = "up"
    /\ step = "quiesce"
    /\ Seed(graph.node)
    /\ UNCHANGED <<durable, local, requests, thread, placed, worker, told, consent, budget>>

(* The thread ended in time, or it did not: then the automation is over,    *)
(* and its last checkpoint waits for the thread.                            *)
Quiesced ==
    /\ worker = "up"
    /\ step = "quiesce"
    /\ IF thread = 0
         THEN Seed(graph.node)
         ELSE /\ graph' = At("terminal", 0, graph.rev)
              /\ step' = "none"
              /\ UNCHANGED <<saved, detour>>
    /\ UNCHANGED <<durable, local, requests, thread, placed, worker, told, consent, budget>>

(* LangGraph writes the checkpoint of the graph's state.                    *)
Persist ==
    /\ worker = "up"
    /\ saved # graph
    /\ graph.node = "terminal" => thread = 0
    /\ saved' = graph
    /\ UNCHANGED <<durable, local, requests, graph, step, detour, thread, placed, worker,
                   told, consent, budget>>

(* The worker dies, with its projection and the turn it ran.                *)
Crash ==
    /\ worker = "up"
    /\ faults < MaxFaults
    /\ crashes < MaxCrashes
    /\ faults' = faults + 1
    /\ crashes' = crashes + 1
    /\ worker' = "down"
    /\ graph' = saved
    /\ step' = "none"
    /\ detour' = 0
    /\ thread' = 0
    /\ UNCHANGED <<durable, local, requests, saved, placed, told, consent>>

-----------------------------------------------------------------------------
(* The recovery node.                                                       *)

(* The turn after a cancelled one runs its recovery.                        *)
ResumeSeeded ==
    /\ Listening
    /\ graph.node = "seeded"
    /\ graph' = Marker("recover", graph.origin, graph.key, graph.rev)
    /\ UNCHANGED <<durable, local, requests, saved, step, detour, thread, placed, worker,
                   told, consent, budget>>

(* CART_REVIEW: the receipt of the local cart, else the cart as it is.      *)
ReviewCart ==
    /\ graph.origin \in {"mutation_confirm", "mutation_apply", "ack"}
    /\ UNCHANGED step
    /\ IF graph.origin # "ack" /\ graph.key \in local.receipts
         THEN EndTurn(local.rev) /\ Tell(graph.key, "changed")
         ELSE EndTurn(graph.rev) /\ Tell(graph.key, "review")

(* Mutant: only a committed placement is reconciled.                        *)
ReconcileOnlyCommitted ==
    /\ graph.origin = "place"
    /\ graph.key \in placed
    /\ step' = "publish"
    /\ UNCHANGED <<graph, told, detour>>

(* RECONCILE_PLACEMENT: the order store decides, and a placement it has is  *)
(* finished again.                                                          *)
ReconcilePlacement ==
    /\ graph.origin = "place"
    /\ IF graph.key \in placed
         THEN step' = "publish" /\ UNCHANGED <<graph, told, detour>>
         ELSE EndTurn(graph.rev) /\ Tell(graph.key, "unplaced") /\ UNCHANGED step

(* ABORT_PLACEMENT_CONFIRMATION and SAFE_ABORT.                             *)
AbortRequest ==
    /\ graph.origin \in {"confirm", "guardrail", "read"}
    /\ EndTurn(graph.rev)
    /\ Tell(graph.key, "aborted")
    /\ UNCHANGED step

Recover ==
    /\ Running
    /\ graph.node = "recover"
    /\ step = "none"
    /\ ReviewCart \/ ReconcilePlacement \/ AbortRequest
    /\ UNCHANGED <<durable, local, requests, saved, thread, placed, worker, consent, budget>>

-----------------------------------------------------------------------------
(* A worker restores the session from its row and its checkpoint.           *)

Restored(state) ==
    /\ worker' = "up"
    /\ graph' = state
    /\ saved' = state
    /\ local' = row
    /\ UNCHANGED <<durable, requests, step, detour, thread, placed, told, consent, budget>>

(* aprepare_current_restore: between turns, or at a readback, which is read *)
(* again.                                                                   *)
CurrentRestorable ==
    /\ saved.rev = row.rev
    /\ saved.node \in Confirms \cup {"idle", "seeded", "terminal"}

RestoreCurrent ==
    /\ worker = "down"
    /\ CurrentRestorable
    /\ Restored([saved EXCEPT !.ask = 1])

(* aprepare_session_ahead_recovery: the one operation the checkpoint has    *)
(* not seen is the one its next node was about to commit.                   *)
AheadRestorable ==
    /\ row.rev = saved.rev + 1
    /\ saved.node \in {"mutation_apply", "place", "read"}
    /\ ops[saved.key] = row.rev

RestoreAhead ==
    /\ worker = "down"
    /\ AheadRestorable
    /\ Restored(Marker("seeded", saved.node, saved.key, row.rev))

(* Every other checkpoint is refused.                                       *)
RefuseRestore ==
    /\ worker = "down"
    /\ ~CurrentRestorable
    /\ ~AheadRestorable
    /\ worker' = "refused"
    /\ UNCHANGED <<durable, local, requests, graph, saved, step, detour, thread, placed,
                   told, consent, budget>>

-----------------------------------------------------------------------------

Caller ==
    RequestMutation \/ RequestPlacement \/ RequestRead \/ (\E r \in Replies : Answer(r))
        \/ ResumeSeeded

Progress ==
    Guardrail \/ StartPlacing \/ PlaceCart \/ PlacingReturns \/ Ack \/ Publish
        \/ StaleRevision \/ Acknowledge \/ Quiesced \/ Persist \/ Recover

Failure == NodeRaises \/ CancelTurn \/ CancelAnswer \/ Crash

Restore == RestoreCurrent \/ RestoreAhead \/ RefuseRestore

Next == Caller \/ Progress \/ Failure \/ Restore

Spec == Init /\ [][Next]_vars
(* A worker that is up goes on with the turn it runs.                       *)
FairSpec == Spec /\ WF_vars(Progress)

-----------------------------------------------------------------------------

Payload == [rev : 0..MaxKeys, lines : Lines, receipts : SUBSET Keys, guest : SUBSET Keys]
GraphState ==
    [node : Nodes, key : 0..MaxKeys, origin : Nodes \cup {"none"}, ask : {1, 2},
     rev : 0..MaxKeys]

(* Types.                                                                   *)
TypeOK ==
    /\ row \in Payload
    /\ ops \in [Keys -> 0..MaxKeys]
    /\ local \in Payload
    /\ requests \in Seq(Request) /\ Len(requests) <= MaxKeys
    /\ graph \in GraphState
    /\ saved \in GraphState
    /\ step \in {"none", "placing", "quiesce", "publish", "unacked"}
    /\ detour \in 0..MaxKeys
    /\ thread \in 0..MaxKeys
    /\ placed \subseteq Keys
    /\ worker \in {"up", "down", "refused"}
    /\ told \in [Keys -> {"none", "declined", "changed", "placed", "unplaced", "aborted",
                          "review"}]
    /\ consent \subseteq Keys
    /\ faults \in 0..MaxFaults
    /\ crashes \in 0..MaxCrashes

(* The projection a flow reads is the row, or older than it: at the same    *)
(* revision a worker never shows another cart than the durable one, whatever *)
(* acknowledgements were lost before (_commit and _install).                *)
LocalFollowsRow ==
    worker = "up" =>
        /\ local.rev <= row.rev
        /\ local.rev = row.rev => local = row

(* The durable checkpoint is never ahead of the row and never more than one *)
(* operation behind it, so that reconcile_checkpoint_revision never finds   *)
(* a revision mismatch or a gap it cannot explain.                          *)
CheckpointGap == saved.rev <= row.rev /\ row.rev <= saved.rev + 1

(* What the caller hears of a request is so: a placement that is done is in *)
(* the order store and in the session, one that did not complete is in      *)
(* neither and no thread can still make it, a mutation reported as applied  *)
(* is committed, and a declined mutation is not.                            *)
RequestsTold ==
    \A k \in DOMAIN requests :
        /\ told[k] = "placed" => k \in placed /\ k \in row.guest
        /\ told[k] = "unplaced" => k \notin placed /\ thread # k
        /\ told[k] = "changed" => ops[k] # 0
        /\ told[k] = "declined" /\ requests[k].op \in Mutations => ops[k] = 0

(* The worker's projection, the checkpoint, the session's row, the order    *)
(* store and what the caller heard agree, at every point where a node may   *)
(* fail or the worker die: the three parts above hold together.             *)
RecordsAgree == LocalFollowsRow /\ CheckpointGap /\ RequestsTold

(* The durable cart changes only by a request the caller said yes to, once, *)
(* and by its effect on the cart that was durable; a checkout empties it of *)
(* exactly the lines that were ordered.                                     *)
CartChangesAreConsented ==
    [][row'.lines # row.lines =>
         \E k \in consent :
            /\ ops[k] = 0
            /\ ops'[k] = row'.rev
            /\ IF requests[k].op = "place"
                 THEN k \in placed /\ row.lines = requests[k].lines /\ row'.lines = NoLines
                 ELSE row'.lines = Mutated(row, k).lines]_vars

(* A yes is answered: the caller hears what became of the request, unless   *)
(* the worker dies, the automation ends or the turn is cancelled, which     *)
(* leaves the answer to the next turn.                                      *)
YesIsAnswered ==
    \A k \in Keys :
        (graph.key = k /\ graph.node \in {"mutation_apply", "place"}) ~>
            (\/ told[k] # "none"
             \/ graph.node \in {"terminal", "seeded"}
             \/ worker # "up")
=============================================================================
