----------------------------- MODULE TurnRouting -----------------------------
(***************************************************************************)
(* How the reasoning engine admits a caller's turns and the frontline      *)
(* graph carries them out: agents/engine.py, agents/routing.py and         *)
(* agents/frontline/graph.py, with the read flow of frontline/read_flow.py.*)
(*                                                                         *)
(* A delivery of a committed turn reads the checkpoint, queues for the     *)
(* turn lock, is routed or resumes the question that waits, and then runs  *)
(* the graph, one node per step.  Deliveries may repeat a message id, may  *)
(* be cancelled at each await, and the process may be restarted on its     *)
(* checkpoint.  The recognizer is a language model: its proposal is any    *)
(* member of Proposals, or none, or a failure.                             *)
(*                                                                         *)
(* A reply is abstracted to what the consent grammars of _consent.py tell  *)
(* apart: "yes", a bare "no", a "no" that says more, anything else.  What  *)
(* an owner does inside its nodes is in CartCheckout, SupportOrders and    *)
(* ProtectedActions; here an owner answers, asks, leaves, needs the        *)
(* caller's identity, or reads back an effect and waits for consent.       *)
(* LangGraph is external: an interrupt keeps its id for as long as its     *)
(* task lives, and input that is not a resume drops the paused task.       *)
(***************************************************************************)
EXTENDS Naturals, Sequences, FiniteSets

CONSTANTS
    Deliveries,   \* how many deliveries of turns arrive, 1..Deliveries
    Registered,   \* the capability ids of the registry
    Proposals,    \* the capability ids the recognizer may propose
    MaxReasks,    \* router_clarification_reask_max, also used for owners
    MaxFaults,    \* bound on failures, cancellations and restarts
    NONE

(* The entry node of each capability (build_frontline_capability_registry). *)
EntryNode ==
    [list_orders |-> "support_capability_entry",
     cancel_orders |-> "support_capability_entry",
     refund_order |-> "support_capability_entry",
     return_order |-> "support_capability_entry",
     change_profile |-> "support_capability_entry",
     view_cart |-> "cart_view_render",
     view_identity_status |-> "identity_status_render",
     verify_identity |-> "identity_capability_entry",
     switch_account |-> "identity_capability_entry",
     modify_cart |-> "cart_capability_entry",
     place_order |-> "cart_capability_entry",
     search_catalog |-> "catalog_entry",
     answer_question |-> "answer_response",
     converse |-> "converse",
     disclose_ai_identity |-> "disclose_ai_identity",
     verify_order_status |-> "order_status_entry",
     read_order_total |-> "order_status_entry",
     abort_current |-> "abort_current",
     request_person |-> "request_person"]

CapabilityIds == DOMAIN EntryNode

ASSUME RegistryAssumption ==
    /\ Registered \subseteq CapabilityIds
    /\ Proposals \subseteq CapabilityIds
    /\ Deliveries \in Nat /\ MaxReasks \in Nat /\ MaxFaults \in Nat

(* _CAPABILITY_DEFINITIONS: what starts an effect, and what must not be     *)
(* started on a misread reply.                                              *)
CommerceEffects == {"modify_cart", "place_order", "cancel_orders", "refund_order",
                    "return_order", "change_profile"}
UnsafeMisroutes == CommerceEffects \cup
    {"read_order_total", "verify_identity", "switch_account", "abort_current",
     "request_person"}

(* The nodes that read an effect back, and the effect each one guards.      *)
ConfirmNode ==
    [modify_cart |-> "cart_mutation_confirm", place_order |-> "cart_confirm",
     cancel_orders |-> "support_cancel_confirm", refund_order |-> "support_confirm",
     return_order |-> "support_return_confirm",
     change_profile |-> "support_profile_confirm"]
EffectNode ==
    [cart_mutation_confirm |-> "cart_mutation_apply", cart_confirm |-> "cart_place",
     support_cancel_confirm |-> "support_cancel_void", support_confirm |-> "support_place",
     support_return_confirm |-> "support_return_place",
     support_profile_confirm |-> "support_profile_place"]

EffectConfirms == DOMAIN EffectNode
EffectNodes == {EffectNode[n] : n \in EffectConfirms}
ConsentNodes == EffectConfirms \cup
    {"order_status_target_confirm", "request_person", "principal_warning"}
RestoreNodes == ConsentNodes \ {"support_profile_confirm", "principal_warning"}

(* The checks between a frozen effect and its readback.                     *)
GuardrailNode ==
    [place_order |-> "cart_guardrail", refund_order |-> "support_guardrail",
     cancel_orders |-> "support_cancel_guardrail",
     return_order |-> "support_return_guardrail",
     change_profile |-> "support_profile_guardrail"]
GuardrailNodes == {GuardrailNode[c] : c \in DOMAIN GuardrailNode}

(* Nodes whose recovery action is TERMINAL, and those without a handler.    *)
TerminalNodes == {"handover", "automation_terminal_response"}
Unhandled == {"identity_apply", "automation_terminal_response"}
Infrastructure == {"recover"}

(* The nodes of the graph that take a step here (node_registry.register).   *)
GraphNodes ==
    {EntryNode[c] : c \in CapabilityIds} \cup ConsentNodes \cup GuardrailNodes
      \cup EffectNodes \cup TerminalNodes \cup Infrastructure
      \cup {"entry", "capability_dispatch", "router_no_action", "catalog_response",
            "order_status_target_propose", "order_status_fulfill",
            "support_capability_render", "identity_assemble", "identity_collect",
            "identity_apply"}

(* What a turn says, and whether the readback had been heard to its end     *)
(* when it was said; it matters, and is chosen, when the turn answers.      *)
Replies == [says : {"yes", "no", "no_more", "other"}, heard : BOOLEAN]

VARIABLES
    thread,      \* generation of the checkpoint thread
    consumed,    \* consumed_turn_ids, in order of admission
    auto,        \* the automation state that clear_automation_state resets
    terminal,    \* automation_terminal
    at,          \* the node that runs next; "rest" when the graph is at END
    asked,       \* the interrupt the node at "at" waits on, or NONE
    bound,       \* a caller is bound to the session (identity_store)
    transition,  \* principal transition that waits for its rotation, or NONE
    engine,      \* "up", "latched" by the last resort, or "refused" at restore
    lock,        \* the delivery that holds the turn lock, or NONE
    detour,      \* the set-aside readback the running delivery re-reads
    dl,          \* what is known of each delivery
    read,        \* history: keys of the effects read back so far
    consent,     \* history: keys a caller agreed to, having been asked
    declined,    \* history: keys a caller declined
    done,        \* history: keys of the effects carried out
    acts,        \* history: how often each message was acted upon
    faults

checkpoint == <<thread, consumed, auto, terminal, at, asked, transition>>
memory == <<engine, lock, detour, dl>>
history == <<read, consent, declined, done, acts>>
vars == <<checkpoint, bound, memory, history, faults>>

Ids == 1..Deliveries

(* clear_automation_state: every field, and nothing else, at its default.   *)
Cleared ==
    [inv |-> NONE, identity |-> FALSE, pending |-> NONE, instruct |-> NONE,
     clar |-> NONE, recovery |-> NONE, handover |-> FALSE]

Keys == Ids \X CommerceEffects

(* PendingRecovery: where the graph stopped, why, and the turn it stopped.  *)
Triggers == {"node_exception", "stream_cancelled", "session_restored", "confirmation_detour"}
Marker(node, trigger, m) == [node |-> node, trigger |-> trigger, message |-> m]

(* None is neither a delivery nor one of the records that a field may hold. *)
ASSUME NoneAssumption ==
    /\ NONE \notin Ids
    /\ \A n \in GraphNodes, t \in Triggers, m \in Ids \cup {NONE} : Marker(n, t, m) # NONE
    /\ \A m \in Ids, c \in CapabilityIds :
          [kind |-> "direct", message |-> m, cap |-> c, owner |-> NONE] # NONE

(* An invocation, and what is known of the order a read is about: nothing,  *)
(* a number that was heard, or one that is sure.                            *)
OrderTargets == {"none", "heard", "sure"}
Invocation(id, cap, target) == [id |-> id, cap |-> cap, target |-> target]

TypeOK ==
    /\ thread \in Nat
    /\ consumed \in Seq(Ids)
    /\ auto.pending \in {NONE} \cup [cap : CommerceEffects, key : Keys]
    /\ auto.inv = NONE \/ auto.inv.target \in OrderTargets
    /\ at \in GraphNodes \cup {"rest"}
    /\ terminal \in BOOLEAN /\ bound \in BOOLEAN
    /\ engine \in {"up", "latched", "refused"}
    /\ lock \in Ids \cup {NONE}
    /\ \A d \in Ids : dl[d].phase \in
          {"new", "queued", "admitted", "stream", "ended", "over"}
    /\ \A s \in {read, consent, declined, done} : s \subseteq Keys
    /\ acts \in [Ids -> Nat]
    /\ faults \in 0..MaxFaults

Init ==
    /\ thread = 0 /\ consumed = <<>> /\ auto = Cleared /\ terminal = FALSE
    /\ at = "rest" /\ asked = NONE /\ transition = NONE /\ bound = FALSE
    /\ engine = "up" /\ lock = NONE /\ detour = NONE
    /\ dl = [d \in Ids |-> [phase |-> "new", message |-> d, thread |-> 0, saw |-> 0,
                            knew |-> {}]]
    /\ read = {} /\ consent = {} /\ declined = {} /\ done = {}
    /\ acts = [m \in Ids |-> 0]
    /\ faults = 0

Fault == faults < MaxFaults /\ faults' = faults + 1 /\ UNCHANGED bound

Phase(d, p) == dl' = [dl EXCEPT ![d].phase = p]

(* merge_consumed_turn_ids: an ordered set.                                 *)
Consume(m) ==
    IF \E i \in DOMAIN consumed : consumed[i] = m THEN consumed ELSE Append(consumed, m)
Consumed(m) == \E i \in DOMAIN consumed : consumed[i] = m
LastConsumed == IF consumed = <<>> THEN NONE ELSE consumed[Len(consumed)]

-----------------------------------------------------------------------------
(* Arrival and the turn lock: _stream_admitted_turn up to its dispatch.     *)

(* Before the lock: the thread and the interrupt the turn may have answered.*)
(* A delivery may repeat an earlier message.                                *)
Arrive(d) ==
    /\ engine = "up" /\ dl[d].phase = "new"
    /\ \A e \in Ids : e < d => dl[e].phase # "new"
    /\ \E m \in {e \in 1..d : dl[e].message = e} :
          dl' = [dl EXCEPT ![d] =
             [phase |-> "queued", message |-> m, thread |-> thread, knew |-> read,
              saw |-> IF asked = NONE THEN 0 ELSE asked.id]]
    /\ UNCHANGED <<checkpoint, engine, lock, detour, history, bound, faults>>

(* asyncio.Lock is fair; a latched engine only repeats its terminal line.   *)
TakeLock(d) ==
    /\ lock = NONE /\ dl[d].phase = "queued"
    /\ \A e \in Ids : dl[e].phase = "queued" => d <= e
    /\ IF engine = "up" THEN Phase(d, "admitted") /\ lock' = d
                        ELSE Phase(d, "over") /\ lock' = lock
    /\ UNCHANGED <<checkpoint, engine, detour, history, bound, faults>>

(* The end of a delivery: the lock is free, its local state gone.           *)
Forgotten(r) == [r EXCEPT !.phase = "over", !.thread = 0, !.saw = 0, !.knew = {}]
Over(d) ==
    /\ dl' = [dl EXCEPT ![d] = Forgotten(@)]
    /\ lock' = NONE /\ detour' = NONE

(* _aenter_last_resort: latched, and terminal unless the checkpoint cannot  *)
(* be written.                                                              *)
LastResort ==
    /\ engine' = "latched"
    /\ transition' = NONE
    /\ \/ /\ auto' = Cleared /\ terminal' = TRUE /\ at' = "rest" /\ asked' = NONE
          /\ UNCHANGED <<thread, consumed>>
       \/ UNCHANGED <<thread, consumed, auto, terminal, at, asked>>

(* _arotate_pending_transition: a fresh thread with the ids consumed so far *)
(* and the arriving one, at rest or with the continuation to run.           *)
RotateThread(d) ==
    LET cont == transition.cont IN
    /\ thread' = thread + 1
    /\ consumed' = Consume(dl[d].message)
    /\ auto' = IF cont = NONE THEN Cleared
               ELSE [Cleared EXCEPT !.inv = Invocation(<<d, thread + 1>>, cont, "none")]
    /\ at' = IF cont = NONE THEN "rest" ELSE "entry"
    /\ asked' = NONE /\ transition' = NONE
    /\ UNCHANGED terminal

(* A rotation before the turn is looked at, or after its stream; one with a *)
(* continuation is run at once in the second case, and a detour is dropped. *)
Rotate(d) ==
    /\ lock = d /\ transition # NONE /\ dl[d].phase \in {"admitted", "ended"}
    /\ ~terminal
    /\ \/ /\ RotateThread(d)
          /\ IF dl[d].phase = "ended" /\ transition.cont # NONE
               THEN Phase(d, "stream") ELSE UNCHANGED dl
          /\ detour' = NONE
          /\ UNCHANGED <<engine, lock, bound, faults>>
       \/ Fault /\ LastResort /\ Over(d)
    /\ UNCHANGED history

-----------------------------------------------------------------------------
(* What a turn that holds the lock finds.                                   *)

(* Mutant: the ledger of consumed turns is not consulted.                   *)
NeverDuplicate(d) == FALSE
Duplicate(d) == Consumed(dl[d].message)

CrossThread(d) == dl[d].thread # thread

Deciding(d) == lock = d /\ dl[d].phase = "admitted" /\ transition = NONE

(* Input is admitted with its message id; the graph starts at its entry.    *)
Submit(d, a) ==
    /\ consumed' = Consume(dl[d].message)
    /\ auto' = a
    /\ at' = "entry" /\ asked' = NONE
    /\ Phase(d, "stream")
    /\ UNCHANGED <<thread, terminal, transition, engine, lock>>

Act(d) == acts' = [acts EXCEPT ![dl[d].message] = @ + 1]

IgnoreDuplicate(d) ==
    /\ Deciding(d) /\ Duplicate(d)
    /\ terminal \/ auto.recovery = NONE
    /\ Over(d)
    /\ UNCHANGED <<checkpoint, engine, history, bound, faults>>

(* A terminal checkpoint and one with a recovery marker run their own way;  *)
(* the turn is consumed by it.                                              *)
RunReserved(d) ==
    /\ Deciding(d)
    /\ \/ terminal /\ ~Duplicate(d)
       \/ ~terminal /\ auto.recovery # NONE
    /\ Submit(d, auto)
    /\ UNCHANGED <<detour, read, consent, declined, done, acts, bound, faults>>

Ordinary(d) ==
    Deciding(d) /\ ~terminal /\ auto.recovery = NONE /\ ~Duplicate(d)

(* Mutant: a reply answers whatever question waits when it gets its turn.   *)
AnswersAnyQuestion(d) == TRUE
(* The waiting question is one the turn could have heard.                   *)
AnswersQuestion(d) == ~CrossThread(d) /\ dl[d].saw = asked.id

(* A question asked after the turn arrived is asked again; the turn is      *)
(* consumed without being read.                                             *)
AskAgain(d) ==
    /\ Ordinary(d) /\ asked # NONE /\ ~AnswersQuestion(d)
    /\ consumed' = Consume(dl[d].message)
    /\ Phase(d, "ended")
    /\ UNCHANGED <<thread, auto, terminal, at, asked, transition, engine, lock,
                   detour, history, bound, faults>>

(* A turn meant for the retired thread that finds the new one at rest.      *)
MissedThread(d) ==
    /\ Ordinary(d) /\ asked = NONE /\ at = "rest" /\ CrossThread(d)
    /\ consumed' = Consume(dl[d].message)
    /\ Over(d)
    /\ UNCHANGED <<thread, auto, terminal, at, asked, transition, engine, history,
                   bound, faults>>

(* _is_pristine_principal_continuation: nothing but the seeded invocation.  *)
Pristine ==
    /\ at = "entry" /\ asked = NONE /\ auto.inv # NONE
    /\ auto = [Cleared EXCEPT !.inv = auto.inv]

RunContinuation(d) ==
    /\ Ordinary(d) /\ Pristine
    /\ Submit(d, auto)
    /\ UNCHANGED <<detour, history, bound, faults>>

-----------------------------------------------------------------------------
(* Routing: the recognizer proposes, the context disposes.                  *)

(* SemanticRouter.route: any proposal, or a closed failure.                 *)
Proposed == {[kind |-> "direct", cap |-> c] : c \in Proposals} \cup
            {[kind |-> k, cap |-> NONE] : k \in {"continue", "clarify", "unavailable"}}

(* resolve_route and materialize_route: what the context cannot execute is  *)
(* clarified or rejected, which the engine treats alike.                    *)
Resolve(p) ==
    IF \/ p.kind = "direct" /\ p.cap \notin Registered
       \/ p.kind = "continue" /\ auto.inv = NONE
    THEN [kind |-> "clarify", cap |-> NONE] ELSE p

(* _no_action_owner: the invocation, or the owner of the last question.     *)
NoActionOwner(d) ==
    IF auto.inv # NONE THEN <<"invocation", auto.inv.id>>
    ELSE IF auto.clar # NONE /\ auto.clar.owner[1] = "router" THEN auto.clar.owner
    ELSE <<"router", d>>

DirectDispatch(d, c) ==
    [auto EXCEPT !.instruct = [kind |-> "direct", message |-> dl[d].message,
                               cap |-> c, owner |-> NONE],
                 !.clar = NONE]

(* _ordinary_turn_payload.                                                  *)
Route(d) ==
    /\ Ordinary(d) /\ asked = NONE /\ at = "rest" /\ ~CrossThread(d)
    /\ \E p \in Proposed :
          LET r == Resolve(p)
              instruct(k, o) == [kind |-> k, message |-> dl[d].message,
                                 cap |-> NONE, owner |-> o] IN
          Submit(d,
             CASE r.kind = "direct" -> DirectDispatch(d, r.cap)
               [] r.kind = "continue" ->
                    [auto EXCEPT !.instruct = instruct("continue", auto.inv.id)]
               [] OTHER ->
                    [auto EXCEPT !.instruct = instruct("none", NoActionOwner(d))])
    /\ Act(d)
    /\ UNCHANGED <<detour, read, consent, declined, done, bound, faults>>

-----------------------------------------------------------------------------
(* A reply to the question that waits: _readback_reply and the resume.      *)

(* classify_consent, classify_cancel_consent and classify_person_consent on *)
(* the four kinds of reply; the person question hears only the bare ones.   *)
Grammar(reply, person) ==
    CASE reply = "yes" -> "yes"
      [] reply = "no" -> "no"
      [] reply = "no_more" -> IF person > 0 THEN "unclear" ELSE "no"
      [] reply = "other" -> "unclear"

PendingCapability ==
    IF auto.pending # NONE THEN auto.pending.cap
    ELSE IF auto.inv # NONE THEN auto.inv.cap ELSE NONE

PendingKeys == IF auto.pending = NONE THEN {} ELSE {auto.pending.key}

Answering(d) == Ordinary(d) /\ asked # NONE /\ AnswersQuestion(d)

(* A no that says more than no.                                             *)
Declines(r) == at \in ConsentNodes /\ asked.person = 0 /\ r.says = "no_more"

(* Only a reply the grammar cannot read, or such a no, goes to the router.  *)
Unread(r) ==
    /\ at \in ConsentNodes
    /\ Grammar(r.says, asked.person) = "unclear" \/ Declines(r)

(* What the paused node makes of a resume: classify_confirmation,           *)
(* classify_person_confirmation; a code sent back to a collect node is an   *)
(* answer whatever it says.                                                 *)
Verdict(r) ==
    IF at \notin ConsentNodes THEN "code"
    ELSE IF asked.person = 0 /\ ~r.heard THEN "unclear"
    ELSE Grammar(r.says, asked.person)

(* Command(resume): the task keeps its interrupt until it has run.          *)
Resume(d, v) ==
    /\ consumed' = Consume(dl[d].message)
    /\ asked' = [asked EXCEPT !.answer = v]
    /\ Phase(d, "stream")
    /\ Act(d)
    /\ UNCHANGED <<thread, auto, terminal, at, transition, engine, lock, detour,
                   read, consent, declined, done, bound, faults>>

(* A readback set aside for another request is re-read after it when the    *)
(* caller did not decline it and the request is a harmless one.             *)
(* Mutant: a declined readback is read again like any other.                *)
RereadDeclined(r, c) ==
    /\ c \notin UnsafeMisroutes /\ at \in RestoreNodes
    /\ PendingCapability # "request_person"
Reread(r, c) ==
    /\ ~Declines(r) /\ c \notin UnsafeMisroutes /\ at \in RestoreNodes
    /\ PendingCapability # "request_person"

(* _readback_set_aside_payload, and the detour that remembers the readback. *)
SetAside(d, r, c) ==
    /\ detour' = IF Reread(r, c) THEN [node |-> at, auto |-> auto] ELSE NONE
    /\ Submit(d, DirectDispatch(d, c))
    /\ declined' = IF Declines(r) THEN declined \cup PendingKeys ELSE declined
    /\ Act(d)
    /\ UNCHANGED <<read, consent, done, bound, faults>>

Keeps(r, c) ==
    \/ c \in {"converse", "abort_current", PendingCapability}
    \/ Declines(r) /\ c \in CommerceEffects

AnswerPlainly(d) ==
    /\ Answering(d)
    /\ \E r \in Replies : ~Unread(r) /\ Resume(d, Verdict(r))

AnswerRouted(d) ==
    /\ Answering(d)
    /\ \E r \in Replies, p \in Proposed :
          LET route == Resolve(p) IN
          /\ Unread(r)
          /\ \/ /\ route.kind = "unavailable"
                /\ Resume(d, IF Declines(r) THEN Verdict(r) ELSE "policy")
             \/ /\ route.kind \in {"continue", "clarify"}
                /\ Resume(d, Verdict(r))
             \/ /\ route.kind = "direct" /\ route.cap = "request_person"
                /\ IF Declines(r) THEN SetAside(d, r, route.cap) ELSE Resume(d, "person")
             \/ /\ route.kind = "direct" /\ route.cap # "request_person"
                /\ IF Keeps(r, route.cap) THEN Resume(d, Verdict(r))
                   ELSE SetAside(d, r, route.cap)

-----------------------------------------------------------------------------
(* The graph.  A node's step commits its update and names the next node.    *)

Running(d, nodes) ==
    lock = d /\ dl[d].phase = "stream" /\ at \in nodes /\ asked = NONE

(* The usual step: new automation state, next node; the rest stays.         *)
Go(a, node) ==
    /\ auto' = a /\ at' = node
    /\ UNCHANGED <<thread, consumed, asked, terminal, transition>>

StreamOn == UNCHANGED <<bound, memory, faults>>

(* entry_node and route_after_entry; without an instruction it raises, and  *)
(* its handler aborts the turn safely.                                      *)
Entry(d) ==
    /\ Running(d, {"entry"})
    /\ LET fresh == [auto EXCEPT !.handover = FALSE] IN
       CASE terminal -> Go(fresh, "automation_terminal_response")
         [] ~terminal /\ auto.recovery # NONE -> Go(fresh, "recover")
         [] ~terminal /\ auto.recovery = NONE /\ auto.instruct # NONE ->
              Go(fresh, IF auto.instruct.kind = "none" THEN "router_no_action"
                        ELSE "capability_dispatch")
         [] ~terminal /\ auto.recovery = NONE /\ auto.instruct = NONE /\ auto.inv # NONE ->
              Go(fresh, "capability_dispatch")
         [] OTHER ->
              Go([fresh EXCEPT !.recovery = Marker("entry", "node_exception", NONE)],
                 "recover")
    /\ StreamOn /\ UNCHANGED history

(* capability_dispatch: a stale envelope is rejected and clears everything. *)
Dispatch(d) ==
    /\ Running(d, {"capability_dispatch"})
    /\ LET i == auto.instruct
           continues == i = NONE \/ i.kind = "continue"
           stale == /\ i # NONE
                    /\ \/ i.message # LastConsumed
                       \/ i.kind = "continue" /\ (auto.inv = NONE \/ auto.inv.id # i.owner)
           owner == IF auto.identity THEN "identity_assemble" ELSE EntryNode[auto.inv.cap] IN
       IF stale THEN Go(Cleared, "rest")
       ELSE IF continues THEN Go([auto EXCEPT !.instruct = NONE], owner)
       ELSE \E t \in IF EntryNode[i.cap] = "order_status_entry" THEN {"none", "sure"}
                     ELSE {"none"} :
               Go([Cleared EXCEPT !.inv = Invocation(<<d, thread>>, i.cap, t)],
                  EntryNode[i.cap])
    /\ StreamOn /\ UNCHANGED <<read, consent, declined, done, acts>>

(* advance_clarification: the first question is free, then MaxReasks more.  *)
Exhausted(owner) ==
    auto.clar # NONE /\ auto.clar.owner = owner /\ auto.clar.reasks >= MaxReasks
Advance(owner) ==
    IF auto.clar = NONE \/ auto.clar.owner # owner
    THEN [owner |-> owner, reasks |-> 0]
    ELSE [auto.clar EXCEPT !.reasks = @ + 1]

(* router_no_action: ask once more or hand over.                            *)
NoAction(d) ==
    /\ Running(d, {"router_no_action"})
    /\ LET owner == auto.instruct.owner
           current == IF auto.inv = NONE THEN owner[1] = "router"
                      ELSE owner = <<"invocation", auto.inv.id>>
           stale == auto.instruct.message # LastConsumed \/ ~current IN
       IF stale THEN Go(Cleared, "rest")
       ELSE IF Exhausted(owner)
         THEN Go([Cleared EXCEPT !.handover = TRUE], "handover")
       ELSE Go([auto EXCEPT !.instruct = NONE, !.clar = Advance(owner)], "rest")
    /\ StreamOn /\ UNCHANGED <<read, consent, declined, done, acts>>

(* A handover ends automation for the session; later turns get one line.    *)
Handover(d) ==
    /\ Running(d, TerminalNodes)
    /\ auto' = Cleared /\ terminal' = TRUE /\ at' = "rest"
    /\ StreamOn /\ UNCHANGED <<thread, consumed, asked, transition, history>>

HandOver(a) == Go([a EXCEPT !.handover = TRUE, !.pending = NONE, !.inv = NONE,
                            !.identity = FALSE], "handover")

Answered == [auto EXCEPT !.inv = NONE]

(* The reads the graph renders from its stores: one answer, the invocation  *)
(* is over.                                                                 *)
CartViewRender(d) ==
    /\ Running(d, {"cart_view_render"})
    /\ Go(Answered, "rest")
    /\ StreamOn /\ UNCHANGED history

IdentityStatusRender(d) ==
    /\ Running(d, {"identity_status_render"})
    /\ Go(Answered, "rest")
    /\ StreamOn /\ UNCHANGED history

(* Small talk, disclosure and a plain abort: everything is cleared.         *)
Converse(d) ==
    /\ Running(d, {"converse", "disclose_ai_identity", "abort_current"})
    /\ Go(Cleared, "rest")
    /\ StreamOn /\ UNCHANGED history

(* catalog_entry: the words are the query, or there are none.               *)
CatalogEntry(d) ==
    /\ Running(d, {"catalog_entry"})
    /\ Go(auto, "catalog_response") \/ Go(Answered, "rest")
    /\ StreamOn /\ UNCHANGED history

CatalogResponse(d) ==
    /\ Running(d, {"catalog_response"})
    /\ Go(Answered, "rest")
    /\ StreamOn /\ UNCHANGED history

AnswerResponse(d) ==
    /\ Running(d, {"answer_response"})
    /\ Go(Answered, "rest")
    /\ StreamOn /\ UNCHANGED history

-----------------------------------------------------------------------------
(* The order reads.  A target is sure when it was stated in so many words,  *)
(* confirmed, or is not a spoken number.                                    *)

Targeted(t) == [auto EXCEPT !.inv.target = t]

OrderStatusEntry(d) ==
    /\ Running(d, {"order_status_entry"})
    /\ Go(auto, IF auto.inv.target = "none" THEN "order_status_target_propose"
                ELSE "order_status_fulfill")
    /\ StreamOn /\ UNCHANGED history

(* Ask for the number and keep the invocation, or take what the model read. *)
OrderStatusTargetPropose(d) ==
    /\ Running(d, {"order_status_target_propose"})
    /\ Go(auto, "rest") \/ Go(Targeted("heard"), "order_status_fulfill")
    /\ StreamOn /\ UNCHANGED history

(* A heard target is confirmed unless the caller's own words state it; an   *)
(* unbound caller may be asked for the contact; otherwise read or refuse.   *)
OrderStatusFulfill(d) ==
    /\ Running(d, {"order_status_fulfill"})
    /\ \/ Go(Answered, "rest")
       \/ /\ auto.inv.target = "heard"
          /\ \/ Go(Targeted("sure"), "order_status_fulfill")
             \/ Go(auto, "order_status_target_confirm")
       \/ /\ auto.inv.target = "sure" /\ ~bound
          /\ auto.inv.cap = "verify_order_status"
          /\ Go(auto, "rest")
    /\ StreamOn /\ UNCHANGED history

-----------------------------------------------------------------------------
(* The owners.                                                              *)

(* A question of the owner's own keeps the invocation, within its budget;   *)
(* a support or identity owner that has used it up hands over.              *)
OwnerAsks(d) ==
    LET owner == <<"invocation", auto.inv.id>> IN
    /\ at = "cart_capability_entry" => auto.inv.cap = "modify_cart"
    /\ IF ~Exhausted(owner) THEN Go([auto EXCEPT !.clar = Advance(owner)], "rest")
       ELSE IF at = "cart_capability_entry" THEN Go(Cleared, "rest")
       ELSE HandOver(auto)

(* A complete request is frozen under a new idempotency key and checked.    *)
Freeze(d, cap) ==
    Go([auto EXCEPT !.inv = NONE, !.clar = NONE,
                    !.pending = [cap |-> cap, key |-> <<d, cap>>]],
       IF cap = "modify_cart" THEN ConfirmNode[cap] ELSE GuardrailNode[cap])

(* cart capability_entry_node: an empty cart has nothing to place or change;*)
(* a change may lack its item or quantity, or the caller leaves.            *)
CartEntry(d) ==
    /\ Running(d, {"cart_capability_entry"})
    /\ \/ Go([Answered EXCEPT !.clar = NONE], "rest")
       \/ OwnerAsks(d)
       \/ Freeze(d, auto.inv.cap)
    /\ StreamOn /\ UNCHANGED history

(* support capability_entry_node: a missing slot is asked for, the caller   *)
(* leaves, no profile or destination hands over, an unbound caller must     *)
(* first be known, or the request is complete.                              *)
SupportEntry(d) ==
    /\ Running(d, {"support_capability_entry"})
    /\ LET cap == auto.inv.cap IN
       \/ /\ ~bound
          /\ \E node \in {"principal_warning", "identity_assemble"} :
                Go([auto EXCEPT !.identity = TRUE, !.clar = NONE], node)
       \/ /\ cap = "list_orders"
          /\ Go(auto, "support_capability_render")
       \/ /\ cap \in CommerceEffects
          /\ \/ OwnerAsks(d)
             \/ Go([Answered EXCEPT !.clar = NONE], "rest")
             \/ HandOver(auto)
             \/ Freeze(d, cap)
    /\ StreamOn /\ UNCHANGED history

SupportRender(d) ==
    /\ Running(d, {"support_capability_render"})
    /\ Go(Answered, "rest")
    /\ StreamOn /\ UNCHANGED history

(* The guardrails, with the risk check and the step-up that ProtectedActions*)
(* models: read the effect back, decline it, hand over, or steer the caller *)
(* to the cancellation or return that applies instead.                      *)
Guardrail(d) ==
    /\ Running(d, GuardrailNodes)
    /\ LET cap == auto.pending.cap IN
       \/ Go(auto, ConfirmNode[cap])
       \/ Go([auto EXCEPT !.pending = NONE], "rest")
       \/ cap \notin {"place_order", "return_order"} /\ HandOver(auto)
       \/ /\ cap \in {"refund_order", "return_order"}
          /\ \E other \in {"cancel_orders", "return_order"} \ {cap} :
                Go([auto EXCEPT !.pending = [cap |-> other, key |-> <<d, other>>]],
                   GuardrailNode[other])
    /\ StreamOn /\ UNCHANGED history

(* identity_capability_entry: warn first when a change of principal would   *)
(* discard the caller's cart or recent orders.                              *)
IdentityEntry(d) ==
    /\ Running(d, {"identity_capability_entry"})
    /\ \E node \in {"principal_warning", "identity_assemble"} :
          /\ node = "principal_warning" => ~bound \/ auto.inv.cap = "switch_account"
          /\ Go([auto EXCEPT !.identity = TRUE], node)
    /\ StreamOn /\ UNCHANGED history

(* identity_assemble to identity_dispatch: ask for the contact, leave, hand *)
(* over, reuse a proof, or send a code and wait for it.                     *)
Assemble(d) ==
    /\ Running(d, {"identity_assemble"})
    /\ \/ OwnerAsks(d)
       \/ Go(Cleared, "rest")
       \/ HandOver(auto)
       \/ bound /\ Go([auto EXCEPT !.clar = NONE], "identity_apply")
       \/ Go([auto EXCEPT !.clar = NONE], "identity_collect")
    /\ StreamOn /\ UNCHANGED history

(* identity_apply: the principal changes and a rotation waits, or the       *)
(* caller is the one already bound and an action continues where it was.    *)
(* The rotated session is bound, so its continuation asks no one again.     *)
Apply(d) ==
    /\ Running(d, {"identity_apply"})
    /\ LET cap == auto.inv.cap
           follows == cap \notin {"verify_identity", "switch_account"}
           over == [auto EXCEPT !.inv = NONE, !.identity = FALSE] IN
       \/ /\ transition' = [cont |-> IF follows THEN cap ELSE NONE]
          /\ bound' = TRUE /\ auto' = over /\ at' = "rest"
          /\ UNCHANGED <<thread, consumed, asked, terminal>>
       \/ /\ bound /\ UNCHANGED bound
          /\ IF follows THEN Go([auto EXCEPT !.identity = FALSE], "capability_dispatch")
                        ELSE Go(over, "rest")
       \/ UNCHANGED bound /\ HandOver(auto)
    /\ UNCHANGED <<memory, faults, history>>

(* A node that interrupts: the readback, the person question, the code.     *)
Ask(d) ==
    /\ Running(d, ConsentNodes \cup {"identity_collect"})
    /\ asked' = [id |-> d, round |-> 1, answer |-> NONE,
                 person |-> IF at = "request_person" THEN 1 ELSE 0]
    /\ read' = read \cup PendingKeys
    /\ Phase(d, "ended")
    /\ UNCHANGED <<thread, consumed, auto, terminal, at, transition, engine, lock,
                   detour, consent, declined, done, acts, bound, faults>>

(* A pending effect older than its time to live is dropped before the reply *)
(* to its readback is looked at.                                            *)
Expire(d) ==
    /\ lock = d /\ dl[d].phase = "stream" /\ at \in EffectConfirms
    /\ auto' = [auto EXCEPT !.pending = NONE] /\ at' = "rest" /\ asked' = NONE
    /\ UNCHANGED <<thread, consumed, terminal, transition, memory, history, bound, faults>>

(* The next question of the same task: the retry, or the person question.   *)
AskOn(d, round, person) ==
    /\ asked' = [asked EXCEPT !.round = round, !.person = person, !.answer = NONE]
    /\ read' = IF person = 0 THEN read \cup PendingKeys ELSE read
    /\ Phase(d, "ended")
    /\ UNCHANGED <<thread, consumed, auto, terminal, at, transition, engine, lock,
                   detour, consent, declined, done, acts, bound, faults>>

Settled(d, a, node) ==
    /\ auto' = a /\ at' = node /\ asked' = NONE
    /\ UNCHANGED <<thread, consumed, terminal, transition, memory, read, done, acts,
                   bound, faults>>

(* Yes: the effect runs, the read goes on, the identity check starts.       *)
Proceed(d) ==
    /\ Settled(d, CASE at = "principal_warning" -> [auto EXCEPT !.identity = TRUE]
                    [] at = "order_status_target_confirm" -> Targeted("sure")
                    [] OTHER -> auto,
               CASE at \in EffectConfirms -> EffectNode[at]
                 [] at = "order_status_target_confirm" -> "order_status_fulfill"
                 [] at = "principal_warning" -> "identity_assemble")
    /\ consent' = IF asked.answer = "yes" /\ PendingKeys \subseteq dl[d].knew
                  THEN consent \cup PendingKeys ELSE consent
    /\ UNCHANGED declined

(* No, or nothing clear: the pending effect or the invocation is dropped.   *)
GiveUp(d, v) ==
    /\ Settled(d, IF at = "request_person" THEN Cleared
                  ELSE [auto EXCEPT !.pending = NONE, !.inv = NONE, !.identity = FALSE],
               "rest")
    /\ declined' = IF v = "no" THEN declined \cup PendingKeys ELSE declined
    /\ UNCHANGED consent

ReachPerson(d) ==
    /\ Settled(d, [auto EXCEPT !.handover = TRUE, !.pending = NONE, !.inv = NONE,
                               !.identity = FALSE], "handover")
    /\ UNCHANGED <<consent, declined>>

(* One retry of the readback itself; the person question has none.          *)
AskOnceMore(d) ==
    IF asked.round = 1 /\ at # "request_person" THEN AskOn(d, 2, 0)
    ELSE GiveUp(d, "unclear")

(* A consent node that was resumed: settle_person_request around one retry. *)
Hear(d) ==
    /\ lock = d /\ dl[d].phase = "stream" /\ asked # NONE /\ at \in ConsentNodes
    /\ LET v == asked.answer IN
       IF asked.person = 0
       THEN CASE v = "yes" -> Proceed(d)
              [] v = "no" -> GiveUp(d, v)
              [] v = "policy" -> ReachPerson(d)
              [] v = "person" -> AskOn(d, asked.round, 1)
              [] v = "unclear" -> AskOnceMore(d)
       ELSE CASE v \in {"yes", "policy", "person"} -> ReachPerson(d)
              [] v = "unclear" /\ asked.person = 1 -> AskOn(d, asked.round, 2)
              [] OTHER -> AskOnceMore(d)

(* identity_collect: the code matches, must be tried again, or exhausts.    *)
HearCode(d) ==
    /\ lock = d /\ dl[d].phase = "stream" /\ asked # NONE /\ at = "identity_collect"
    /\ \/ Settled(d, auto, "identity_apply") /\ UNCHANGED <<consent, declined>>
       \/ Settled(d, auto, "identity_collect") /\ UNCHANGED <<consent, declined>>
       \/ ReachPerson(d)

(* The effect is carried out, or the store refuses it.                      *)
Effect(d) ==
    /\ Running(d, EffectNodes)
    /\ \/ done' = done \cup PendingKeys /\ Go([auto EXCEPT !.pending = NONE], "rest")
       \/ UNCHANGED done /\ HandOver(auto)
       \/ UNCHANGED done /\ Go([auto EXCEPT !.pending = NONE], "rest")
    /\ StreamOn /\ UNCHANGED <<read, consent, declined, acts>>

-----------------------------------------------------------------------------
(* The end of a stream, and the re-read of a readback set aside.            *)

EndStream(d) ==
    /\ Running(d, {"rest"})
    /\ Phase(d, "ended")
    /\ UNCHANGED <<checkpoint, engine, lock, detour, history, bound, faults>>

(* _areread_detoured_readback: when the answer left the graph clean, the    *)
(* saved automation state and its marker are written and run.               *)
RereadReadback(d) ==
    /\ lock = d /\ dl[d].phase = "ended" /\ transition = NONE /\ detour # NONE
    /\ asked = NONE /\ at = "rest" /\ ~terminal /\ ~auto.handover
    /\ auto' = [detour.auto EXCEPT !.recovery =
                   Marker(detour.node, "confirmation_detour", NONE)]
    /\ at' = "entry" /\ detour' = NONE
    /\ Phase(d, "stream")
    /\ UNCHANGED <<thread, consumed, terminal, asked, transition, engine, lock,
                   history, bound, faults>>

Finish(d) ==
    /\ lock = d /\ dl[d].phase = "ended" /\ transition = NONE
    /\ detour = NONE \/ asked # NONE \/ terminal
    /\ Over(d)
    /\ UNCHANGED <<checkpoint, engine, history, bound, faults>>

-----------------------------------------------------------------------------
(* Recovery, cancellation and restart.                                      *)

(* recover: back to a restored or detoured gate, terminal, reconcile the    *)
(* effect, or clear.  A turn admitted after one cancelled in a node that    *)
(* aborts safely goes on at the entry, which has nothing to route.          *)
Recover(d) ==
    /\ Running(d, {"recover"})
    /\ LET r == auto.recovery
           reconciles == r.node \in EffectNodes \cup {"identity_apply"} IN
       CASE r.trigger \in {"session_restored", "confirmation_detour"} ->
              Go([auto EXCEPT !.recovery = NONE], r.node) /\ UNCHANGED done
         [] r.trigger \in {"node_exception", "stream_cancelled"} ->
              \/ /\ r.node \in TerminalNodes \/ reconciles
                 /\ auto' = Cleared /\ terminal' = TRUE /\ at' = "rest"
                 /\ UNCHANGED <<thread, consumed, asked, transition, done>>
              \/ /\ r.node \notin TerminalNodes
                 /\ UNCHANGED done
                 /\ Go(Cleared,
                       IF /\ r.trigger = "stream_cancelled" /\ LastConsumed # r.message
                          /\ r.node \notin EffectNodes \cup EffectConfirms \cup
                                {"identity_apply", "identity_collect", "principal_warning",
                                 "cart_capability_entry"}
                       THEN "entry" ELSE "rest")
    /\ StreamOn /\ UNCHANGED <<read, consent, declined, acts>>

(* build_node_error_handler: the marker and the recovery node; without a    *)
(* handler the last resort; a failure of the recovery itself is terminal.   *)
(* An effect may have been carried out by the time its node fails.          *)
NodeFails(d) ==
    /\ lock = d /\ dl[d].phase = "stream" /\ at # "rest" /\ Fault
    /\ done' \in IF at \in EffectNodes THEN {done, done \cup PendingKeys} ELSE {done}
    /\ \/ /\ at \in Unhandled
          /\ LastResort /\ Over(d)
       \/ /\ at \in Infrastructure
          /\ auto' = Cleared /\ terminal' = TRUE /\ at' = "rest"
          /\ UNCHANGED <<thread, consumed, asked, transition, memory>>
       \/ /\ at \notin Unhandled \cup Infrastructure
          /\ auto' = [auto EXCEPT !.recovery = Marker(at, "node_exception", NONE)]
          /\ at' = "recover" /\ asked' = NONE
          /\ UNCHANGED <<thread, consumed, terminal, transition, memory>>
    /\ UNCHANGED <<read, consent, declined, acts>>

(* A cancellation while the engine routes or rotates leaves no trace in the *)
(* checkpoint: a pending transition stays pending.                          *)
CancelOutside(d) ==
    /\ lock = d /\ dl[d].phase \in {"admitted", "ended"} /\ Fault
    /\ Over(d)
    /\ UNCHANGED <<checkpoint, engine, history>>

(* _take_over_cancelled_stream and _classify_cancelled_checkpoint: rotate,  *)
(* leave what is at rest, mark the node that was running, or give up.       *)
CancelStream(d) ==
    /\ lock = d /\ dl[d].phase = "stream" /\ Fault
    /\ done' \in IF at \in EffectNodes THEN {done, done \cup PendingKeys} ELSE {done}
    /\ Over(d)
    /\ \/ /\ transition # NONE /\ ~terminal
          /\ RotateThread(d) /\ UNCHANGED engine
       \/ /\ transition = NONE
          /\ \/ at = "rest"
             \/ auto.recovery # NONE /\ auto.recovery.trigger = "confirmation_detour"
          /\ UNCHANGED <<checkpoint, engine>>
       \/ /\ transition = NONE /\ auto.recovery = NONE
          /\ at \notin {"rest"} \cup Infrastructure
          /\ LastConsumed = dl[d].message
          /\ auto' = [auto EXCEPT !.recovery =
                         Marker(at, "stream_cancelled", dl[d].message)]
          /\ at' = "entry" /\ asked' = NONE
          /\ UNCHANGED <<thread, consumed, terminal, transition, engine>>
       \/ LastResort
    /\ UNCHANGED <<read, consent, declined, acts>>

(* The process ends and a worker restores the session from its checkpoint:  *)
(* aprepare_current_restore and aprepare_session_ahead_recovery.  A marker  *)
(* and a graph at rest without residuals are kept, a readback is asked      *)
(* again, an effect whose receipt is ahead of the checkpoint is recovered,  *)
(* anything else is refused.                                                *)
Restart ==
    /\ engine # "refused" /\ transition = NONE /\ Fault
    /\ dl' = [d \in Ids |-> IF dl[d].phase = "new" THEN dl[d]
                            ELSE Forgotten(dl[d])]
    /\ lock' = NONE /\ detour' = NONE
    /\ LET quiet == at = "rest" /\ auto.pending = NONE /\ auto.instruct = NONE
                    /\ ~auto.handover
           marked == auto.recovery # NONE
           gate == ~marked /\ asked # NONE /\ at \in RestoreNodes
           mark(t) == [auto EXCEPT !.recovery = Marker(at, t, NONE)] IN
       \/ /\ marked \/ quiet
          /\ engine' = "up" /\ UNCHANGED <<checkpoint, done>>
       \/ /\ gate
          /\ engine' = "up" /\ auto' = mark("session_restored")
          /\ at' = "entry" /\ asked' = NONE
          /\ UNCHANGED <<thread, consumed, terminal, transition, done>>
       \/ /\ ~marked /\ at \in EffectNodes
          /\ engine' = "up" /\ auto' = mark("node_exception")
          /\ at' = "entry" /\ done' = done \cup PendingKeys
          /\ UNCHANGED <<thread, consumed, terminal, asked, transition>>
       \/ /\ ~marked /\ ~quiet /\ ~gate
          /\ engine' = "refused" /\ UNCHANGED <<checkpoint, done>>
    /\ UNCHANGED <<read, consent, declined, acts>>

Step(d) ==
    \/ Entry(d) \/ Dispatch(d) \/ NoAction(d) \/ Handover(d)
    \/ CartViewRender(d) \/ IdentityStatusRender(d) \/ Converse(d)
    \/ CatalogEntry(d) \/ CatalogResponse(d) \/ AnswerResponse(d)
    \/ OrderStatusEntry(d) \/ OrderStatusTargetPropose(d) \/ OrderStatusFulfill(d)
    \/ CartEntry(d) \/ SupportEntry(d) \/ SupportRender(d) \/ Guardrail(d)
    \/ IdentityEntry(d) \/ Assemble(d) \/ Apply(d)
    \/ Ask(d) \/ Expire(d) \/ Hear(d) \/ HearCode(d) \/ Effect(d) \/ Recover(d)

Next ==
    \/ \E d \in Ids :
          \/ Arrive(d) \/ TakeLock(d) \/ Rotate(d)
          \/ IgnoreDuplicate(d) \/ RunReserved(d) \/ AskAgain(d) \/ MissedThread(d)
          \/ RunContinuation(d) \/ Route(d) \/ AnswerPlainly(d) \/ AnswerRouted(d)
          \/ Step(d) \/ EndStream(d) \/ RereadReadback(d) \/ Finish(d)
          \/ NodeFails(d) \/ CancelOutside(d) \/ CancelStream(d)
    \/ Restart

Spec == Init /\ [][Next]_vars

-----------------------------------------------------------------------------
(* Every effect was agreed to with a "yes" that was spoken after its own    *)
(* readback had been heard, by a turn that arrived after that readback was  *)
(* asked: no reply meant for an earlier question, an earlier thread or a    *)
(* conversation before a restart places, cancels or refunds anything.       *)
ConsentFollowsReadback == done \subseteq consent

(* A readback the caller declined is over: whatever else the turn asked     *)
(* for, and whatever is cancelled or restored later, it is neither asked    *)
(* again nor carried out.                                                   *)
DeclineStands ==
    /\ declined \cap done = {}
    /\ asked # NONE /\ asked.answer = NONE /\ asked.person = 0 =>
          PendingKeys \cap declined = {}

(* However often a message is delivered, across cancelled turns, rotated    *)
(* threads and restarts, it is routed or answers a question at most once.   *)
TurnActsOnce == \A m \in Ids : acts[m] <= 1
=============================================================================
