--------------------------- MODULE ProtectedActions ---------------------------
(***************************************************************************)
(* What a caller may do only with proof of who they are: bind or switch an *)
(* account, change an address or the contact codes are sent to, refund to  *)
(* a new instrument; and, beside these, a refund to the original one,      *)
(* which needs consent alone.  The nodes of the three flows, their step-up *)
(* (agents/support/_stepup.py), the stores they write, and what the graph  *)
(* and the engine do when a node fails or its turn is cancelled.           *)
(*                                                                         *)
(* at is the node that runs or, in "collect" and "asked", waits for the    *)
(* caller.  Turns take the engine's lock, so one node runs at a time.      *)
(* What runs beside it is time and the worker thread of a refund, which    *)
(* goes on when its turn is cancelled.  Between two nodes nothing of the   *)
(* session can change but by these two.                                    *)
(*                                                                         *)
(* "terminal" is the end of automation: after a handover to a person, a    *)
(* recovery that could not decide, or the engine's last resort.            *)
(*                                                                         *)
(* Left out: what is said beyond whether the request took effect; how a    *)
(* request is understood and its order chosen; the guardrail's steering of *)
(* a refund into a cancellation or a return; restoring a session in        *)
(* another process.                                                        *)
(***************************************************************************)
EXTENDS Verification

CONSTANTS
    Held,          \* the customers whose codes the caller can read
    Families,      \* the kinds of request the caller makes
    PendingTtl,    \* pending_ttl_seconds, in ticks
    MaxFaults      \* bound: failed or cancelled nodes

AllFamilies == {"identity", "address", "contact", "refund", "original"}

ASSUME CallerAssumption ==
    /\ Held \subseteq Customers
    /\ Families \subseteq AllFamilies
    /\ PendingTtl \in Nat \ {0}
    /\ MaxFaults \in Nat

VARIABLES
    bound,         \* CallerIdentityStore._bound
    transition,    \* CallerContext._pending_transition
    pending,       \* the pending_* field of the reasoning state
    at,            \* the node that runs or waits
    origin,        \* the node a recovery marker names
    thread,        \* the refund running in, or answered by, a worker thread
    effects,       \* the ledgers: profile changes and refunds
    told,          \* history: what the caller was told of each intent
    minted,        \* intents so far
    faults

context == <<bound, transition>>
vars == <<verification, bound, transition, pending, at, origin, thread, effects, told, minted,
          faults>>

Nobody == Customers \cup {NoCustomer}
Profile == {"address", "contact"}
Refund == {"refund", "original"}

PurposeOf(family) ==
    CASE family \in Profile -> "profile" [] family \in Refund -> "refund" [] OTHER -> "identity"

(* refund_required_level, profile_change_required_level and                 *)
(* identity_required_level.                                                 *)
RequiredLevel(family) == IF family = "original" THEN 1 ELSE 2

NoPending == [id |-> 0, family |-> "none", customer |-> NoCustomer, left |-> 0]
NoTransition == [id |-> 0, customer |-> NoCustomer]
NoThread == [state |-> "idle", id |-> 0, family |-> "none", customer |-> NoCustomer, by |-> {}]

Subject == [customer |-> pending.customer, purpose |-> PurposeOf(pending.family)]
Proven == Authorizing(pending.customer)

(* A ledger row, with the account bound when it was written and the proofs  *)
(* that allowed it.                                                         *)
Effect(id, family, customer, by) ==
    [id |-> id, family |-> family, customer |-> customer, owner |-> bound, by |-> by]
Committed(id) == \E e \in effects : e.id = id

Init ==
    /\ VerificationInit
    /\ bound = NoCustomer
    /\ transition = NoTransition
    /\ pending = NoPending
    /\ at = "rest"
    /\ origin = "none"
    /\ thread = NoThread
    /\ effects = {}
    /\ told = [i \in Intents |-> "nothing"]
    /\ minted = 0
    /\ faults = 0

-----------------------------------------------------------------------------
(* Ends of a request.                                                       *)

(* The pending request is dropped and the caller is told nothing of it, or  *)
(* that it was, or was not, done.                                           *)
Drop == at' = "rest" /\ pending' = NoPending /\ UNCHANGED told
Tell(what) ==
    /\ at' = "rest"
    /\ pending' = NoPending
    /\ told' = [told EXCEPT ![pending.id] = what]

(* handover_node and the terminal recoveries: automation ends.              *)
Terminal == at' = "terminal" /\ pending' = NoPending /\ UNCHANGED told
TellAndHandOver(what) ==
    /\ at' = "terminal"
    /\ pending' = NoPending
    /\ told' = [told EXCEPT ![pending.id] = what]

(* Something fails, or the turn is cancelled, at this point.                *)
Fault == faults < MaxFaults /\ faults' = faults + 1

(* A node fails or is cancelled: the graph's error handler or the engine's  *)
(* takeover writes a recovery marker that names the node.                   *)
Mark == at' = "recover" /\ origin' = at /\ UNCHANGED <<pending, told>>

-----------------------------------------------------------------------------
(* A request is understood and its pending record minted: _pending_for,     *)
(* _mint_profile_change and _mint_refund.  A switch may name any account;   *)
(* a change or a refund to a new instrument is for the bound one.           *)
Begin(family, customer) ==
    /\ at = "rest"
    /\ minted < MaxIntents
    /\ minted' = minted + 1
    /\ family = "identity" => customer # NoCustomer
    /\ family \in Profile \cup {"refund"} => customer = bound /\ bound # NoCustomer
    /\ family = "original" => customer = NoCustomer
    /\ pending' = [id |-> minted + 1, family |-> family, customer |-> customer,
                   left |-> PendingTtl]
    /\ at' = IF RequiredLevel(family) = 1 THEN "confirm" ELSE "risk"
    /\ UNCHANGED <<verification, context, origin, thread, effects, told, faults>>

(* risk_check_node and the routers after it: a blocked subject goes to a    *)
(* person; a fresh proof is reused, for identity only if the account is     *)
(* the bound one.                                                           *)
RiskCheck(blocked) ==
    /\ at = "risk"
    /\ IF blocked THEN Terminal
       ELSE LET reuse == Proven # {} /\ (pending.family = "identity" => bound = pending.customer)
            IN /\ at' = IF ~reuse THEN "dispatch"
                        ELSE IF pending.family = "identity" THEN "apply" ELSE "confirm"
               /\ UNCHANGED <<pending, told>>
    /\ UNCHANGED <<verification, context, origin, thread, effects, minted, faults>>

(* dispatch_node; the wait for the provider may be cut short.               *)
Dispatch ==
    /\ at = "dispatch"
    /\ \/ /\ DispatchOtp(pending.id, Subject)
          /\ at' = "collect"
          /\ UNCHANGED <<pending, told, origin, faults>>
       \/ /\ Fault
          /\ ProviderDispatch(pending.id, Subject)
          /\ Mark
          /\ UNCHANGED <<store, earned, misses>>
    /\ UNCHANGED <<context, thread, effects, minted>>

(* collect_node resumed with the caller's answer; again the wait may be cut *)
(* short.                                                                   *)
Collect(code) ==
    /\ at = "collect"
    /\ \/ /\ VerifyOtp(pending.id, code)
          /\ IF VerifyStatus(pending.id, code, proofs') \in {"verified", "mismatched"}
               THEN at' = "route" /\ UNCHANGED <<pending, told>>
               ELSE Terminal
          /\ UNCHANGED <<origin, faults>>
       \/ /\ Fault
          /\ ProviderVerify(pending.id, code)
          /\ Mark
          /\ UNCHANGED store
    /\ UNCHANGED <<context, thread, effects, minted>>

(* route_after_collect: only this challenge opens the way.                  *)
RouteAfterCollect ==
    /\ at = "route"
    /\ at' = IF ~ChallengeSatisfies(pending.id, Subject) THEN "collect"
             ELSE IF pending.family = "identity" THEN "apply" ELSE "confirm"
    /\ UNCHANGED <<verification, context, pending, origin, thread, effects, told, minted, faults>>

-----------------------------------------------------------------------------
(* confirm_node and profile_confirm_node: a request that waited too long is *)
(* cancelled before anything is read out.                                   *)
Confirm ==
    /\ at = "confirm"
    /\ IF pending.left = 0 THEN Tell("failed")
       ELSE at' = "asked" /\ UNCHANGED <<pending, told>>
    /\ UNCHANGED <<verification, context, origin, thread, effects, minted, faults>>

(* The caller's answer re-enters the node, which looks at the clock first.  *)
(* Another request sets the readback aside; a question asked of a refund's  *)
(* readback is answered first.                                              *)
Answer(reply) ==
    /\ at = "asked"
    /\ \/ /\ reply \in {"yes", "no", "person"}
          /\ \/ pending.left = 0 /\ Tell("failed")
             \/ pending.left > 0 /\ reply = "yes" /\ at' = "place" /\ UNCHANGED <<pending, told>>
             \/ pending.left > 0 /\ reply = "no" /\ Tell("failed")
             \/ pending.left > 0 /\ reply = "person" /\ Terminal
       \/ reply = "another" /\ Drop
       \/ /\ reply = "question"
          /\ pending.family \in Refund
          /\ at' = "aside"
          /\ UNCHANGED <<pending, told>>
    /\ UNCHANGED <<verification, context, origin, thread, effects, minted, faults>>

(* _areread_detoured_readback: the readback is restored and its node        *)
(* entered again, or dropped because the question led elsewhere.            *)
Reread ==
    /\ at = "aside"
    /\ \/ at' = "confirm" /\ UNCHANGED <<pending, told>>
       \/ Drop
       \/ Terminal
    /\ UNCHANGED <<verification, context, origin, thread, effects, minted, faults>>

-----------------------------------------------------------------------------
(* Mutant: the confirmation is taken for the authorisation.                 *)
PlaceProfileOnConsent ==
    /\ at = "place"
    /\ pending.family \in Profile
    /\ effects' = effects \cup {Effect(pending.id, pending.family, pending.customer, Proven)}
    /\ at' = "finish"
    /\ UNCHANGED <<verification, context, pending, told, origin, thread, minted, faults>>

(* profile_place_node up to the ledger: proof and binding are looked at     *)
(* again, then the store applies the change or refuses it.                  *)
PlaceProfile ==
    /\ at = "place"
    /\ pending.family \in Profile
    /\ LET allowed == Proven # {} /\ bound = pending.customer
       IN \/ ~allowed /\ Terminal /\ UNCHANGED effects
          \/ /\ allowed
             /\ effects' = effects
                   \cup {Effect(pending.id, pending.family, pending.customer, Proven)}
             /\ at' = "finish"
             /\ UNCHANGED <<pending, told>>
          \/ allowed /\ TellAndHandOver("failed") /\ UNCHANGED effects
    /\ UNCHANGED <<verification, context, origin, thread, minted, faults>>

(* place_node up to run_sync_effect: a proof is looked for again if one is  *)
(* needed, and the refund is given to a worker thread.                      *)
PlaceRefund ==
    /\ at = "place"
    /\ pending.family \in Refund
    /\ IF RequiredLevel(pending.family) > 1 /\ Proven = {}
         THEN Terminal /\ UNCHANGED thread
         ELSE /\ thread' = [state |-> "running", id |-> pending.id, family |-> pending.family,
                            customer |-> pending.customer,
                            by |-> IF RequiredLevel(pending.family) > 1 THEN Proven ELSE {}]
              /\ at' = "effect"
              /\ UNCHANGED <<pending, told>>
    /\ UNCHANGED <<verification, context, origin, effects, minted, faults>>

(* issue_refund in its thread, whether or not anybody still waits for it:   *)
(* it is recorded, refused, or fails before or after it was recorded.       *)
IssueRefund ==
    LET row == Effect(thread.id, thread.family, thread.customer, thread.by)
        ended(how) == thread' = [thread EXCEPT !.state = how]
    IN /\ thread.state = "running"
       /\ \/ ended("done") /\ effects' = effects \cup {row} /\ UNCHANGED faults
          \/ ended("refused") /\ UNCHANGED <<effects, faults>>
          \/ ended("raised") /\ effects' \in {effects, effects \cup {row}} /\ Fault
       /\ UNCHANGED <<verification, context, pending, at, origin, told, minted>>

(* place_node goes on when the thread answers.                              *)
RefundReturns ==
    /\ at = "effect"
    /\ \/ /\ thread.state = "done"
          /\ at' = "finish"
          /\ UNCHANGED <<pending, told, origin>>
       \/ thread.state = "refused" /\ TellAndHandOver("failed") /\ UNCHANGED origin
       \/ thread.state = "raised" /\ Mark
    /\ thread' = NoThread
    /\ UNCHANGED <<verification, context, effects, minted, faults>>

(* finish_refund and finish_profile_change: a contact change ends every     *)
(* proof and challenge of the session.                                      *)
FinishEffect ==
    /\ Tell("done")
    /\ IF pending.family = "contact" THEN RetainOnly({}) ELSE UNCHANGED verification

(* The finish of an effect, whole or cut short after the provider dropped   *)
(* its challenges.                                                          *)
Finish ==
    /\ at = "finish"
    /\ \/ FinishEffect /\ UNCHANGED <<origin, faults>>
       \/ /\ Fault
          /\ pending.family = "contact"
          /\ ProviderRetainOnly({})
          /\ Mark
          /\ UNCHANGED <<store, earned, misses>>
    /\ UNCHANGED <<context, thread, effects, minted>>

-----------------------------------------------------------------------------
(* The exchange of the principal.                                           *)

(* transition_principal: the marker first, then the old binding goes, the   *)
(* verification history shrinks to the new proof, and the new account is    *)
(* bound.  It may be cut short after each of these.                         *)
TransitionPrincipal ==
    /\ transition' = [id |-> pending.id, customer |-> pending.customer]
    /\ \/ /\ bound' = pending.customer
          /\ RetainOnly({pending.id})
          /\ \/ at' = "rotate" /\ pending' = NoPending /\ UNCHANGED <<told, origin, faults>>
             \/ Fault /\ Mark
       \/ /\ Fault /\ Mark
          /\ bound' \in {bound, NoCustomer}
          /\ UNCHANGED verification
       \/ /\ Fault /\ Mark
          /\ bound' = NoCustomer
          /\ ProviderRetainOnly({pending.id})
          /\ UNCHANGED <<store, earned, misses>>

(* apply_node: the account already bound needs nothing; another one needs   *)
(* the proof of this very challenge, still fresh.                           *)
Apply ==
    /\ at = "apply"
    /\ \/ /\ bound = pending.customer
          /\ Drop
          /\ UNCHANGED <<verification, context, origin, faults>>
       \/ /\ bound # pending.customer
          /\ ~ChallengeSatisfies(pending.id, Subject)
          /\ Terminal
          /\ UNCHANGED <<verification, context, origin, faults>>
       \/ /\ bound # pending.customer
          /\ ChallengeSatisfies(pending.id, Subject)
          /\ TransitionPrincipal
    /\ UNCHANGED <<thread, effects, minted>>

(* Mutant: a published marker is taken for a finished exchange.             *)
MarkedIsCoherent == TRUE

(* inspect_principal_transition: the new account is bound and its proof is  *)
(* the one fresh grant.                                                     *)
Coherent == bound = transition.customer /\ Grants = {transition.id}

(* invalidate_principal_transition: nobody is bound and the marker goes,    *)
(* even if the provider cannot be reached to clear the proofs.              *)
Invalidate ==
    /\ bound' = NoCustomer
    /\ transition' = NoTransition
    /\ \/ RetainOnly({}) /\ UNCHANGED faults
       \/ Fault /\ UNCHANGED verification

(* _arotate_pending_transition, after the stream or at the start of the     *)
(* next turn if this one was cancelled meanwhile: the exchange completes    *)
(* on a fresh thread, or it is invalidated and automation ends.             *)
Rotate ==
    /\ at = "rotate"
    /\ \/ /\ Coherent
          /\ transition' = NoTransition
          /\ at' = "rest"
          /\ UNCHANGED <<verification, bound, pending, told, faults>>
       \/ ~Coherent /\ Invalidate /\ Terminal
       \/ /\ Coherent
          /\ Fault
          /\ bound' = NoCustomer
          /\ transition' = NoTransition
          /\ RetainOnly({})
          /\ Terminal
    /\ UNCHANGED <<origin, thread, effects, minted>>

-----------------------------------------------------------------------------
(* Failures and recovery.                                                   *)

(* A node raises, or its turn is cancelled, before it changed anything or   *)
(* after it had.                                                            *)
FailNode ==
    /\ at \in {"risk", "dispatch", "collect", "route", "confirm", "asked", "place", "finish",
               "apply"}
    /\ Fault
    /\ Mark
    /\ UNCHANGED <<verification, context, thread, effects, minted>>

(* The turn is cancelled while its refund is in the thread.                 *)
AbandonRefund ==
    /\ at = "effect"
    /\ Fault
    /\ at' = "takeover"
    /\ UNCHANGED <<verification, context, pending, origin, thread, effects, told, minted>>

(* Mutant: the takeover does not wait for the thread.                       *)
TakeOverAtOnce ==
    /\ at = "takeover"
    /\ at' = "recover"
    /\ origin' = "effect"
    /\ UNCHANGED <<verification, context, pending, thread, effects, told, minted, faults>>

(* _take_over_cancelled_stream, once mutable work has ended.                *)
TakeOver ==
    /\ at = "takeover"
    /\ thread.state # "running"
    /\ at' = "recover"
    /\ origin' = "effect"
    /\ thread' = NoThread
    /\ UNCHANGED <<verification, context, pending, effects, told, minted, faults>>

(* Mutant: the wait for the thread has no end.                              *)
TakeOverWaitsOn ==
    /\ at = "takeover"
    /\ thread.state = "running"
    /\ UNCHANGED vars

(* The same when the wait times out: the last resort is latched.            *)
TakeOverTimesOut ==
    /\ at = "takeover"
    /\ thread.state = "running"
    /\ Terminal
    /\ UNCHANGED <<verification, context, origin, thread, effects, minted, faults>>

(* reconcile_effect: the ledger decides.                                    *)
ReconcileEffect ==
    /\ origin \in {"place", "effect", "finish"}
    /\ IF Committed(pending.id) THEN FinishEffect
       ELSE Tell("failed") /\ UNCHANGED verification
    /\ UNCHANGED <<context, faults>>

(* reconcile_principal_transition, and the takeover's own look at it: an    *)
(* exchange that had not begun is dropped, a whole one goes on, one half    *)
(* done is invalidated.                                                     *)
ReconcilePrincipalTransition ==
    /\ origin = "apply"
    /\ \/ /\ transition = NoTransition
          /\ Drop
          /\ UNCHANGED <<verification, context, faults>>
       \/ /\ transition # NoTransition
          /\ Coherent
          /\ at' = "rotate"
          /\ pending' = NoPending
          /\ UNCHANGED <<verification, context, told, faults>>
       \/ /\ transition # NoTransition
          /\ ~Coherent
          /\ Invalidate
          /\ Terminal

(* SAFE_ABORT and the lines of the aborted verifications and confirmations: *)
(* the request is dropped; of a change or a refund the caller is told that  *)
(* it was not made.                                                         *)
AbortRequest ==
    /\ \/ (origin = "risk" \/ pending.family = "identity") /\ Drop
       \/ origin # "risk" /\ pending.family # "identity" /\ Tell("failed")
    /\ origin \in {"risk", "dispatch", "collect", "route", "confirm", "asked"}
    /\ UNCHANGED <<verification, context, faults>>

(* The recovery node.                                                       *)
Recover ==
    /\ at = "recover"
    /\ AbortRequest \/ ReconcileEffect \/ ReconcilePrincipalTransition
    /\ origin' = "none"
    /\ UNCHANGED <<thread, effects, minted>>

(* The recovery itself fails: automation ends, and with it an exchange.     *)
RecoveryFails ==
    /\ at = "recover"
    /\ Fault
    /\ Terminal
    /\ origin' = "none"
    /\ \/ /\ transition # NoTransition
          /\ bound' = NoCustomer
          /\ transition' = NoTransition
          /\ RetainOnly({})
       \/ transition = NoTransition /\ UNCHANGED <<verification, context>>
    /\ UNCHANGED <<thread, effects, minted>>

(* time.time().                                                             *)
Tick ==
    /\ \/ pending.left > 0
       \/ \E i \in Intents : challenges[i].left > 0 \/ proofs[i].left > 0
    /\ VerificationTick
    /\ pending' = [pending EXCEPT !.left = Less(@)]
    /\ UNCHANGED <<context, at, origin, thread, effects, told, minted, faults>>

Replies == {"yes", "no", "person", "another", "question"}
Codes == Held \cup {NoCustomer}

Next ==
    \/ \E family \in Families, customer \in Nobody : Begin(family, customer)
    \/ \E blocked \in BOOLEAN : RiskCheck(blocked)
    \/ Dispatch
    \/ \E code \in Codes : Collect(code)
    \/ RouteAfterCollect
    \/ Confirm
    \/ \E reply \in Replies : Answer(reply)
    \/ Reread
    \/ PlaceProfile \/ PlaceRefund
    \/ IssueRefund \/ RefundReturns
    \/ Finish
    \/ Apply
    \/ Rotate
    \/ FailNode \/ AbandonRefund
    \/ TakeOver \/ TakeOverTimesOut
    \/ Recover \/ RecoveryFails
    \/ Tick

Spec == Init /\ [][Next]_vars

(* The engine's own steps go on; nothing obliges the caller to answer, the  *)
(* provider to answer or the thread to end, and time need not pass.         *)
FairSpec ==
    /\ Spec
    /\ WF_vars(TakeOver)
    /\ WF_vars(TakeOverTimesOut)
    /\ WF_vars(Recover)

-----------------------------------------------------------------------------
Nodes == {"rest", "risk", "dispatch", "collect", "route", "confirm", "asked", "aside", "place",
          "effect", "finish", "apply", "rotate", "takeover", "recover", "terminal"}

(* Every variable has its type.                                             *)
TypeOK ==
    /\ VerificationTypeOK
    /\ bound \in Nobody
    /\ transition \in [id : Intents, customer : Customers] \cup {NoTransition}
    /\ pending \in [id : Intents, family : AllFamilies, customer : Nobody, left : 0 .. PendingTtl]
                     \cup {NoPending}
    /\ at \in Nodes
    /\ origin \in Nodes \cup {"none"}
    /\ thread \in [state : {"running", "done", "refused", "raised"}, id : Intents,
                    family : Refund, customer : Nobody, by : SUBSET Intents] \cup {NoThread}
    /\ effects \subseteq [id : Intents, family : AllFamilies \ {"identity"}, customer : Nobody,
                          owner : Nobody, by : SUBSET Intents]
    /\ told \in [Intents -> {"nothing", "done", "failed"}]
    /\ minted \in 0 .. MaxIntents
    /\ faults \in 0 .. MaxFaults

(* Whoever is bound, and whoever's account or money a protected effect      *)
(* touched, had a code sent to their own factor read back in this call; the *)
(* effect is on the account bound when it was written, and rests on proofs  *)
(* of that customer alone (apply_node, profile_place_node, place_node).     *)
EffectsAuthorized ==
    /\ bound # NoCustomer => \E i \in Intents : earned[i] = bound
    /\ \A e \in effects :
          RequiredLevel(e.family) = 2 =>
              /\ e.owner = e.customer
              /\ e.by # {}
              /\ \A i \in e.by : earned[i] = e.customer

(* No proof that allowed a contact change, or that was earned before it,    *)
(* allows anything after it: the codes behind them went to the old contact  *)
(* (finish_profile_change, also when a recovery runs it).                   *)
ContactChangeRevokes ==
    \A a, b \in effects : a.family = "contact" /\ a.id < b.id => \A i \in b.by : i > a.id

(* A caller who was told that nothing was changed finds nothing changed,    *)
(* then or later, and one who was told it is done finds it done, however    *)
(* the node ended (recover, reconcile_effect, issue_refund in its thread).  *)
TruthTold ==
    \A i \in Intents :
        /\ told[i] = "failed" => ~Committed(i)
        /\ told[i] = "done" => Committed(i)

(* A challenge answers at most MaxAttempts codes, and is not verified after *)
(* as many misses (OtpProvider.verify), across failures between the         *)
(* provider and the store.                                                  *)
AttemptsBounded ==
    \A i \in Intents :
        /\ misses[i] <= MaxAttempts
        /\ earned[i] # NoCustomer => misses[i] < MaxAttempts

(* Authority is earned and lost as the code says, whatever happens in       *)
(* between: the three parts above hold together.                            *)
AuthorityEarned == EffectsAuthorized /\ ContactChangeRevokes /\ AttemptsBounded

(* An exchange of the principal ends with the new account bound and no      *)
(* fresh proof but its own, or with nobody bound and automation over: no    *)
(* authority of the previous account survives it (transition_principal,     *)
(* inspect_principal_transition, invalidate_principal_transition).          *)
ExchangeIsAllOrNothing ==
    [][transition # NoTransition /\ transition' = NoTransition =>
          \/ /\ at' = "rest"
             /\ bound' = transition.customer
             /\ Grants' = {transition.id}
          \/ at' = "terminal" /\ bound' = NoCustomer]_vars

(* A cancelled turn is settled although the thread it left behind may never *)
(* end (_take_over_cancelled_stream, cancellation_quiescence_timeout).      *)
AbandonedTurnSettles ==
    at \in {"takeover", "recover"} ~> at \in {"rest", "rotate", "terminal"}
=============================================================================
