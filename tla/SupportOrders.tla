----------------------------- MODULE SupportOrders -----------------------------
(***************************************************************************)
(* What callers do to orders: refund, return, cancel one or several, or    *)
(* cancel all they have.  The nodes of the three flows                     *)
(* (agents/support/flow.py), the steering of one remedy into another, and  *)
(* the recovery of a node that failed or whose turn was cancelled; in      *)
(* several sessions at once, over one OrderStore.                          *)
(*                                                                         *)
(* at[s] is the node that runs in session s or, in "asked", waits for the  *)
(* caller; with the family of the pending record it names a node of the    *)
(* graph.  Turns of a session take its lock, so one node of it runs at a   *)
(* time; nodes of different sessions interleave, and so do the worker      *)
(* threads of the effects, which go on when their turn is cancelled.       *)
(*                                                                         *)
(* The targets of a batch are voided one per node in the order the caller  *)
(* or the store listed them; here in any order.  current[s] is the target  *)
(* whose outcome is next.                                                  *)
(*                                                                         *)
(* Left out: how a request is understood and how a caller comes to be      *)
(* allowed an order; the codes of the step-up (ProtectedActions has them). *)
(***************************************************************************)
EXTENDS OrderStore, FiniteSetsExt

CONSTANTS
    Sessions,
    Mine,          \* the orders each session may change: placed in it or owned
    Amounts,       \* refunds asked for
    HumanAbove,    \* refund_require_human_above_usd
    Returnless,    \* refund_returnless_under_usd
    BatchMax,      \* cancel_batch_max
    MaxFaults,     \* bound: failed or cancelled nodes
    NoOrder

ASSUME SupportAssumption ==
    /\ Mine \in [Sessions -> SUBSET Orders]
    /\ Amounts \subseteq Nat \ {0}
    /\ HumanAbove \in Nat
    /\ Returnless \in Nat
    /\ BatchMax \in Nat \ {0}
    /\ MaxFaults \in Nat
    /\ NoOrder \notin Orders

VARIABLES
    at,            \* the node that runs or waits, in each session
    pending,       \* pending_refund, pending_return or pending_cancel
    current,       \* the target whose outcome is next
    lapsed,        \* the pending record is older than pending_ttl_seconds
    thread,        \* the effect running in, or answered by, a worker thread
    minted,        \* requests so far
    asked,         \* history: the orders each request was for
    consented,     \* history: the effects a caller said yes to
    told,          \* history: what the caller was told of each intent
    faults

vars == <<store, at, pending, current, lapsed, thread, minted, asked, consented, told, faults>>
flow == <<pending, current, lapsed, told>>
history == <<asked, consented>>

Families == {"refund", "return", "cancel", "scope"}
Destinations == {"original", "new"}

(* BatchCancelOutcome; of refunds and returns, "declined" by a guardrail,   *)
(* "done" and "failed".                                                     *)
Outcomes == {"nothing", "done", "failed", "declined", "already_cancelled", "not_cancellable",
             "has_refunds"}

NoOutcomes == [o \in Orders |-> "nothing"]

Pending(req, family, targets, amount, destination, steered) ==
    [req |-> req, family |-> family, targets |-> targets, amount |-> amount,
     destination |-> destination, steered |-> steered, outcomes |-> NoOutcomes]
NoPending == [req |-> 0, family |-> "none", targets |-> {}, amount |-> 0,
              destination |-> "original", steered |-> FALSE, outcomes |-> NoOutcomes]

NoThread == [state |-> "idle", row |-> Receipt(0, "none", NoOrder, 0)]

(* The targets of a batch that have no outcome yet.                         *)
Remaining(p) == {o \in p.targets : p.outcomes[o] = "nothing"}

(* The order of a refund or a return.                                       *)
Target(p) == CHOOSE o \in p.targets : TRUE

(* The call the effect node makes for an order.                             *)
Row(p, o) == Receipt(p.req, p.family, o, p.amount)

(* refund_required_level: a new instrument needs proof.                     *)
RequiredLevel(p) == IF p.family = "refund" /\ p.destination = "new" THEN 2 ELSE 1

Init ==
    /\ StoreInit
    /\ at = [s \in Sessions |-> "rest"]
    /\ pending = [s \in Sessions |-> NoPending]
    /\ current = [s \in Sessions |-> NoOrder]
    /\ lapsed = [s \in Sessions |-> FALSE]
    /\ thread = [s \in Sessions |-> NoThread]
    /\ minted = 0
    /\ asked = [r \in Requests |-> {}]
    /\ consented = {}
    /\ told = [r \in Requests |-> NoOutcomes]
    /\ faults = 0

-----------------------------------------------------------------------------
(* Steps of a node.                                                         *)

Go(s, node) == at' = [at EXCEPT ![s] = node]

(* The pending record goes, and the caller hears these outcomes.            *)
Clear(s, outcomes) ==
    /\ pending' = [pending EXCEPT ![s] = NoPending]
    /\ current' = [current EXCEPT ![s] = NoOrder]
    /\ lapsed' = [lapsed EXCEPT ![s] = FALSE]
    /\ told' = [told EXCEPT ![pending[s].req] = outcomes]
Unsaid(s) == told[pending[s].req]

(* The same outcome for every order the request was for.                    *)
Every(s, outcome) ==
    [o \in Orders |-> IF o \in asked[pending[s].req] THEN outcome ELSE "nothing"]

End(s, outcomes) == Go(s, "rest") /\ Clear(s, outcomes)
Drop(s) == End(s, Unsaid(s))

(* handover_node and the terminal recoveries.                               *)
Terminal(s, outcomes) == Go(s, "terminal") /\ Clear(s, outcomes)
HandOver(s) == Terminal(s, Unsaid(s))

Stay(s, node) == Go(s, node) /\ UNCHANGED flow

(* One pending record takes the place of another; created_at is now.        *)
Mint(s, record) ==
    /\ pending' = [pending EXCEPT ![s] = record]
    /\ lapsed' = [lapsed EXCEPT ![s] = FALSE]
    /\ UNCHANGED <<current, told>>

Fault == faults < MaxFaults /\ faults' = faults + 1

-----------------------------------------------------------------------------
(* The request.                                                             *)

(* _mint_return: what was captured and is neither paid nor promised.        *)
RefundDue(o) ==
    LET left == Captured[o] - paid[o] - due[o] IN IF left > 0 THEN left ELSE 0

(* capability_entry_node with a complete request for orders the caller may  *)
(* change: its pending record is minted.                                    *)
Ask(s, record) ==
    /\ at[s] = "rest"
    /\ minted < MaxRequests
    /\ minted' = minted + 1
    /\ record.targets \subseteq Mine[s]
    /\ Mint(s, record)
    /\ Go(s, IF record.family = "scope" THEN "resolve" ELSE "guardrail")
    /\ asked' = [asked EXCEPT ![minted + 1] = record.targets]
    /\ UNCHANGED <<store, thread, consented, faults>>

AskRefund(s) ==
    \E o \in Mine[s], amount \in Amounts, destination \in Destinations :
        Ask(s, Pending(minted + 1, "refund", {o}, amount, destination, FALSE))
AskReturn(s) ==
    \E o \in Mine[s] :
        Ask(s, Pending(minted + 1, "return", {o}, RefundDue(o), "original", FALSE))
AskCancel(s) ==
    \E batch \in SUBSET Mine[s] \ {{}} :
        Ask(s, Pending(minted + 1, "cancel", batch, 0, "original", FALSE))
AskCancelAll(s) == Ask(s, Pending(minted + 1, "scope", {}, 0, "original", FALSE))

(* resolve_node: the orders cancellable now, all of them or exactly two,    *)
(* and never more than a batch may have.                                    *)
Resolve(s, both) ==
    LET candidates == {o \in Mine[s] : IsCancellable(o)}
    IN /\ at[s] = "resolve"
       /\ IF \/ candidates = {}
             \/ both /\ Cardinality(candidates) # 2
             \/ Cardinality(candidates) > BatchMax
            THEN Drop(s) /\ UNCHANGED asked
            ELSE /\ Mint(s, Pending(pending[s].req, "cancel", candidates, 0, "original", FALSE))
                 /\ asked' = [asked EXCEPT ![pending[s].req] = candidates]
                 /\ Go(s, "guardrail")
       /\ UNCHANGED <<store, thread, minted, consented, faults>>

-----------------------------------------------------------------------------
(* The guardrails.                                                          *)

(* _return_eligibility.                                                     *)
ReturnEligibility(o) ==
    CASE OrderStatus(o) = "cancelled" -> "order_cancelled"
      [] OrderStatus(o) = "processing" -> "not_shipped"
      [] OrderStatus(o) = "fulfilled" /\ OpenReturn(o) -> "already_open"
      [] OrderStatus(o) = "fulfilled" /\ ~OpenReturn(o) /\ o \in overdue -> "out_of_window"
      [] OTHER -> "eligible"

(* The tiers of guardrail_node, in order: a full refund of an order not yet *)
(* shipped is a cancellation, a large one needs a person, and one of goods  *)
(* already out waits for their return.                                      *)
IsVoid(p, o) ==
    /\ p.destination = "original"
    /\ p.amount >= Captured[o]
    /\ paid[o] = 0
    /\ IsCancellable(o)
NeedsReturn(p, o) == OrderStatus(o) = "fulfilled" /\ p.amount > Returnless

RefundGuardrail(s) ==
    LET p == pending[s]
        o == Target(p)
    IN /\ at[s] = "guardrail"
       /\ p.family = "refund"
       /\ \/ /\ OrderStatus(o) = "cancelled" \/ OpenReturn(o)
             /\ End(s, Every(s, "declined"))
          \/ /\ OrderStatus(o) # "cancelled" /\ ~OpenReturn(o)
             /\ \/ /\ IsVoid(p, o)
                   /\ Mint(s, Pending(p.req, "cancel", {o}, 0, "original", TRUE))
                   /\ Go(s, "guardrail")
                \/ ~IsVoid(p, o) /\ p.amount > HumanAbove /\ End(s, Every(s, "declined"))
                \/ /\ ~IsVoid(p, o) /\ p.amount <= HumanAbove /\ NeedsReturn(p, o)
                   /\ IF ReturnEligibility(o) = "out_of_window"
                        THEN End(s, Every(s, "declined"))
                        ELSE /\ Mint(s, Pending(p.req, "return", {o}, p.amount, "original", TRUE))
                             /\ Go(s, "guardrail")
                \/ /\ ~IsVoid(p, o) /\ p.amount <= HumanAbove /\ ~NeedsReturn(p, o)
                   /\ Stay(s, IF RequiredLevel(p) = 1 THEN "confirm" ELSE "stepup")
       /\ UNCHANGED <<store, thread, minted, history, faults>>

(* return_guardrail_node.                                                   *)
ReturnGuardrail(s) ==
    LET p == pending[s]
        o == Target(p)
        reason == ReturnEligibility(o)
    IN /\ at[s] = "guardrail"
       /\ p.family = "return"
       /\ \/ /\ reason \in {"order_cancelled", "already_open", "out_of_window"}
             /\ End(s, Every(s, "declined"))
          \/ /\ reason = "not_shipped"
             /\ Mint(s, Pending(p.req, "cancel", {o}, 0, "original", TRUE))
             /\ Go(s, "guardrail")
          \/ reason = "eligible" /\ p.amount > HumanAbove /\ End(s, Every(s, "declined"))
          \/ reason = "eligible" /\ p.amount <= HumanAbove /\ Stay(s, "confirm")
       /\ UNCHANGED <<store, thread, minted, history, faults>>

(* _preflight_target.                                                       *)
Preflight(o) ==
    IF OrderStatus(o) = "cancelled" THEN "already_cancelled"
    ELSE IF ~IsCancellable(o) THEN "not_cancellable"
    ELSE IF paid[o] > 0 THEN "has_refunds" ELSE "nothing"

(* The eligible targets stay; of the others the outcome is kept, to be told *)
(* with the rest.                                                           *)
Partition(p) ==
    [p EXCEPT !.targets = {o \in p.targets : Preflight(o) = "nothing"},
              !.outcomes = [o \in Orders |-> IF o \in p.targets THEN Preflight(o) ELSE "nothing"]]

(* cancel_guardrail_node.                                                   *)
CancelGuardrail(s, blocked) ==
    LET p == pending[s]
        split == Partition(p)
    IN /\ at[s] = "guardrail"
       /\ p.family = "cancel"
       /\ \/ blocked /\ HandOver(s)
          \/ ~blocked /\ Cardinality(p.targets) > BatchMax /\ Drop(s)
          \/ /\ ~blocked /\ Cardinality(p.targets) <= BatchMax
             /\ IF split.targets = {} THEN End(s, split.outcomes)
                ELSE /\ pending' = [pending EXCEPT ![s] = split]
                     /\ Go(s, "confirm")
                     /\ UNCHANGED <<current, lapsed, told>>
       /\ UNCHANGED <<store, thread, minted, history, faults>>

(* The step-up of a refund to a new instrument: it is proven or ends with a *)
(* person.                                                                  *)
StepUp(s) ==
    /\ at[s] = "stepup"
    /\ Stay(s, "confirm") \/ HandOver(s)
    /\ UNCHANGED <<store, thread, minted, history, faults>>

-----------------------------------------------------------------------------
(* Consent: confirm_node, return_confirm_node and cancel_confirm_node.      *)

(* What the readback says will be done.                                     *)
ReadBack(p) == {Row(p, o) : o \in p.targets}

(* A record that waited too long is dropped before anything is read out.    *)
Confirm(s) ==
    /\ at[s] = "confirm"
    /\ IF lapsed[s] THEN End(s, Every(s, "failed")) ELSE Stay(s, "asked")
    /\ UNCHANGED <<store, thread, minted, history, faults>>

(* The answer re-enters the node, which looks at the clock first.  A        *)
(* question is answered before the readback is taken up again; another      *)
(* request sets it aside for good.                                          *)
Answer(s, reply) ==
    /\ at[s] = "asked"
    /\ \/ reply \in {"yes", "no", "person"} /\ lapsed[s] /\ End(s, Every(s, "failed"))
          /\ UNCHANGED consented
       \/ /\ reply = "yes" /\ ~lapsed[s]
          /\ Stay(s, "place")
          /\ consented' = consented \cup ReadBack(pending[s])
       \/ reply = "no" /\ ~lapsed[s] /\ End(s, Every(s, "failed")) /\ UNCHANGED consented
       \/ reply = "person" /\ ~lapsed[s] /\ HandOver(s) /\ UNCHANGED consented
       \/ reply = "another" /\ Drop(s) /\ UNCHANGED consented
       \/ reply = "question" /\ Stay(s, "aside") /\ UNCHANGED consented
    /\ UNCHANGED <<store, thread, minted, asked, faults>>

(* Mutant: the restored readback is taken for the answered one.             *)
RereadAsAnswered(s) ==
    /\ at[s] = "aside"
    /\ Stay(s, "place") \/ Drop(s) \/ HandOver(s)
    /\ UNCHANGED <<store, thread, minted, history, faults>>

(* _areread_detoured_readback.                                              *)
Reread(s) ==
    /\ at[s] = "aside"
    /\ Stay(s, "confirm") \/ Drop(s) \/ HandOver(s)
    /\ UNCHANGED <<store, thread, minted, history, faults>>

(* The readback grows older than pending_ttl_seconds.                       *)
Lapse(s) ==
    /\ at[s] \in {"stepup", "confirm", "asked", "aside"}
    /\ ~lapsed[s]
    /\ lapsed' = [lapsed EXCEPT ![s] = TRUE]
    /\ UNCHANGED <<store, at, pending, current, thread, minted, history, told, faults>>

-----------------------------------------------------------------------------
(* The effect nodes: place_node, return_place_node and cancel_void_node.    *)

(* The call is handed to a worker thread, one target at a time; a refund    *)
(* whose proof lapsed goes to a person instead.                             *)
Place(s) ==
    LET p == pending[s]
    IN /\ at[s] = "place"
       /\ \/ \E o \in Remaining(p) :
                /\ Go(s, "effect")
                /\ current' = [current EXCEPT ![s] = o]
                /\ thread' = [thread EXCEPT ![s] = [state |-> "running", row |-> Row(p, o)]]
                /\ UNCHANGED <<pending, lapsed, told>>
          \/ RequiredLevel(p) = 2 /\ HandOver(s) /\ UNCHANGED thread
       /\ UNCHANGED <<store, minted, history, faults>>

(* issue_refund, create_return or cancel_order in its thread, whether or    *)
(* not anybody still waits for it; it may also fail, before or after it     *)
(* committed.                                                               *)
RunEffect(s) ==
    LET row == thread[s].row
        ended(how) == thread' = [thread EXCEPT ![s].state = how]
    IN /\ thread[s].state = "running"
       /\ \/ Commit(row) /\ ended("done") /\ UNCHANGED faults
          \/ Refused(row) /\ ended("refused") /\ UNCHANGED <<ledger, faults>>
          \/ Fault /\ ended("raised") /\ (Commit(row) \/ UNCHANGED ledger)
       /\ UNCHANGED <<overdue, at, pending, current, lapsed, minted, history, told>>

(* The node goes on when the thread answers.                                *)
EffectReturns(s) ==
    /\ at[s] = "effect"
    /\ \/ thread[s].state = "done" /\ Stay(s, "finish")
       \/ /\ thread[s].state = "refused"
          /\ IF pending[s].family = "cancel" THEN Stay(s, "refused")
             ELSE Terminal(s, Every(s, "failed"))
       \/ thread[s].state = "raised" /\ Stay(s, "recover")
    /\ thread' = [thread EXCEPT ![s] = NoThread]
    /\ UNCHANGED <<store, minted, history, faults>>

(* The outcomes once this target has its own.                               *)
With(s, outcome) == [pending[s].outcomes EXCEPT ![current[s]] = outcome]

(* Mutant: the target stays the next one.                                   *)
FinishCancelForgetful(s, outcome) ==
    /\ Go(s, "place")
    /\ UNCHANGED flow

(* finish_cancel: the outcome is kept and the next target taken, or, after  *)
(* the last, all are told.                                                  *)
FinishCancel(s, outcome) ==
    IF Remaining(pending[s]) # {current[s]}
      THEN /\ Go(s, "place")
           /\ pending' = [pending EXCEPT ![s].outcomes = With(s, outcome)]
           /\ current' = [current EXCEPT ![s] = NoOrder]
           /\ UNCHANGED <<lapsed, told>>
      ELSE End(s, With(s, outcome))

(* finish_refund, finish_return and finish_cancel.                          *)
Finish(s) ==
    /\ \/ /\ at[s] = "finish"
          /\ IF pending[s].family = "cancel" THEN FinishCancel(s, "done")
             ELSE End(s, Every(s, "done"))
       \/ at[s] = "refused" /\ FinishCancel(s, "failed")
    /\ UNCHANGED <<store, thread, minted, history, faults>>

-----------------------------------------------------------------------------
(* Failures and recovery.                                                   *)

(* A node raises or its turn is cancelled: before a readback the request is *)
(* dropped (SAFE_ABORT), at it the caller hears it was not done, in an      *)
(* effect node the ledger will be asked.                                    *)
FailNode(s) ==
    /\ Fault
    /\ \/ at[s] \in {"resolve", "guardrail"} /\ Drop(s)
       \/ at[s] = "stepup" /\ (Drop(s) \/ End(s, Every(s, "failed")))
       \/ at[s] \in {"confirm", "asked"} /\ End(s, Every(s, "failed"))
       \/ at[s] \in {"place", "finish", "refused"} /\ Stay(s, "recover")
    /\ UNCHANGED <<store, thread, minted, history>>

(* The turn is cancelled while its effect is in the thread.                 *)
AbandonEffect(s) ==
    /\ at[s] = "effect"
    /\ Fault
    /\ Stay(s, "takeover")
    /\ UNCHANGED <<store, thread, minted, history>>

(* Mutant: the takeover does not wait for the thread.                       *)
TakeOverAtOnce(s) ==
    /\ at[s] = "takeover"
    /\ Stay(s, "recover")
    /\ UNCHANGED <<store, thread, minted, history, faults>>

(* _take_over_cancelled_stream, once the thread ended.                      *)
TakeOver(s) ==
    /\ at[s] = "takeover"
    /\ thread[s].state # "running"
    /\ Stay(s, "recover")
    /\ thread' = [thread EXCEPT ![s] = NoThread]
    /\ UNCHANGED <<store, minted, history, faults>>

(* The same when the wait times out: automation ends, the thread goes on.   *)
TakeOverTimesOut(s) ==
    /\ at[s] = "takeover"
    /\ thread[s].state = "running"
    /\ HandOver(s)
    /\ UNCHANGED <<store, thread, minted, history, faults>>

(* The target a recovery asks the ledger about: targets[len(outcomes)].     *)
Interrupted(s) ==
    IF current[s] = NoOrder THEN Remaining(pending[s]) ELSE {current[s]}

(* finish_cancel with abort_remainder: what was not tried did not complete. *)
Reconciled(s, o, outcome) ==
    [q \in Orders |-> IF q = o THEN outcome
                      ELSE IF q \in Remaining(pending[s]) THEN "failed"
                      ELSE pending[s].outcomes[q]]

(* reconcile_effect: the ledger decides what the caller hears.              *)
ReconcileEffect(s) ==
    /\ at[s] = "recover"
    /\ \E o \in Interrupted(s) :
          End(s, Reconciled(s, o, IF Committed(Row(pending[s], o)) THEN "done" ELSE "failed"))
    /\ UNCHANGED <<store, thread, minted, history, faults>>

(* The recovery itself fails: automation ends.                              *)
RecoveryFails(s) ==
    /\ at[s] = "recover"
    /\ HandOver(s)
    /\ UNCHANGED <<store, thread, minted, history, faults>>

-----------------------------------------------------------------------------
Replies == {"yes", "no", "person", "another", "question"}

AnswerAny(s) == \E reply \in Replies : Answer(s, reply)
GuardrailOfCancel(s) == \E blocked \in BOOLEAN : CancelGuardrail(s, blocked)
ResolveScope(s) == \E both \in BOOLEAN : Resolve(s, both)

Engine(s) ==
    \/ Place(s) \/ EffectReturns(s) \/ Finish(s)
    \/ TakeOver(s) \/ TakeOverTimesOut(s) \/ ReconcileEffect(s)

SessionStep(s) ==
    \/ AskRefund(s) \/ AskReturn(s) \/ AskCancel(s) \/ AskCancelAll(s)
    \/ ResolveScope(s)
    \/ RefundGuardrail(s) \/ ReturnGuardrail(s) \/ GuardrailOfCancel(s)
    \/ StepUp(s)
    \/ Confirm(s) \/ AnswerAny(s) \/ Reread(s) \/ Lapse(s)
    \/ Engine(s)
    \/ RunEffect(s)
    \/ FailNode(s) \/ AbandonEffect(s) \/ RecoveryFails(s)

Time == \E o \in Orders :
    /\ WindowCloses(o)
    /\ UNCHANGED <<at, flow, thread, minted, history, faults>>

Next == (\E s \in Sessions : SessionStep(s)) \/ Time

Spec == Init /\ [][Next]_vars

(* A turn that runs goes on, and a call of the store, which is memory and a *)
(* lock held for one call, ends.                                            *)
FairSpec ==
    /\ Spec
    /\ \A s \in Sessions : WF_vars(Engine(s)) /\ WF_vars(RunEffect(s))

-----------------------------------------------------------------------------
Nodes == {"rest", "resolve", "guardrail", "stepup", "confirm", "asked", "aside", "place",
          "effect", "finish", "refused", "takeover", "recover", "terminal"}
Rows == [req : Requests, family : {"refund", "return", "cancel"}, order : Orders, amount : Nat]
Threads == [state : {"running", "done", "refused", "raised"}, row : Rows]
PendingRecords ==
    [req : Requests, family : Families, targets : SUBSET Orders, amount : Nat,
     destination : Destinations, steered : BOOLEAN, outcomes : [Orders -> Outcomes]]

(* Every variable has its type.                                             *)
TypeOK ==
    /\ receipts \subseteq Rows
    /\ paid \in [Orders -> Nat]
    /\ due \in [Orders -> Nat]
    /\ cancelled \subseteq Orders
    /\ overdue \subseteq Delivered
    /\ at \in [Sessions -> Nodes]
    /\ pending \in [Sessions -> PendingRecords \cup {NoPending}]
    /\ current \in [Sessions -> Orders \cup {NoOrder}]
    /\ lapsed \in [Sessions -> BOOLEAN]
    /\ thread \in [Sessions -> Threads \cup {NoThread}]
    /\ minted \in 0 .. MaxRequests
    /\ asked \in [Requests -> SUBSET Orders]
    /\ consented \subseteq Rows
    /\ told \in [Requests -> [Orders -> Outcomes]]
    /\ faults \in 0 .. MaxFaults

(* An intent takes effect at most once, and every amount paid or promised   *)
(* is that of a recorded intent: whether its node is recovered, its turn    *)
(* cancelled or its thread late (the idempotency keys, reconcile_effect).   *)
PaidOnce ==
    LET total(family, o) ==
            MapThenSumSet(LAMBDA r : r.amount,
                          {r \in receipts : r.family = family /\ r.order = o})
    IN \A o \in Orders : paid[o] = total("refund", o) /\ due[o] = total("return", o)

(* Nothing is done to an order but what a readback named, amount and all,   *)
(* and the caller then said yes to in time; a remedy another was steered    *)
(* into is read back as itself (the confirm nodes, _areread_detoured_       *)
(* readback, the routers).                                                  *)
ConsentNamed ==
    /\ receipts \subseteq consented
    /\ \A s \in Sessions : thread[s].state = "running" => thread[s].row \in consented

(* What a caller was told of an order is true, and stays true: done if and  *)
(* only if its intent is recorded, also by a thread that outlived its turn; *)
(* and the reasons a batch gives for an order it left alone still hold when *)
(* they are told, after the consent and the voids of the others             *)
(* (finish_cancel, reconcile_effect, _preflight_target).                    *)
OutcomesTrue ==
    \A r \in Requests, o \in Orders :
        LET done == \E q \in receipts : q.req = r /\ q.order = o
        IN /\ told[r][o] = "done" => done
           /\ told[r][o] \notin {"done", "nothing"} => ~done
           /\ told[r][o] = "already_cancelled" => o \in cancelled
           /\ told[r][o] = "has_refunds" => paid[o] > 0
           /\ told[r][o] = "not_cancellable" => o \in Shipped

(* A caller hears of every order of a request or of none: no target of a    *)
(* batch is lost when one fails, is refused or is interrupted               *)
(* (cancel_guardrail_node, finish_cancel with abort_remainder).             *)
WholeBatchTold ==
    \A r \in Requests : {o \in Orders : told[r][o] # "nothing"} \in {{}, asked[r]}

(* What a caller hears of a request is true, is whole, and is what the      *)
(* books show: the three parts above hold together.                         *)
TruthTold == OutcomesTrue /\ WholeBatchTold /\ PaidOnce

(* "this node's declines are unreachable for steered pendings": a return    *)
(* that guardrail_node promised is one return_guardrail_node accepts.       *)
SteerKept ==
    \A s \in Sessions :
        at[s] = "guardrail" /\ pending[s].family = "return" /\ pending[s].steered =>
            /\ ReturnEligibility(Target(pending[s])) = "eligible"
            /\ pending[s].amount <= HumanAbove

(* A confirmed request, of however many orders, comes to an end: each void  *)
(* moves the batch on, also past refusals and failures (cancel_void_node,   *)
(* route_after_support_cancel_void).                                        *)
ConfirmedSettles ==
    \A s \in Sessions : at[s] = "place" ~> at[s] \in {"rest", "terminal"}
=============================================================================
