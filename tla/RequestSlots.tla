---------------------------- MODULE RequestSlots -----------------------------
(***************************************************************************)
(* How a typed request is filled before anything is frozen for consent.    *)
(* The router names a capability and its discriminators, never a value, so *)
(* every slot of the request is proposed by the tool-only model of the     *)
(* capability's owner, over several turns, and stands only if code finds   *)
(* it in the caller's own words (agents/cart/flow.py, agents/support/      *)
(* flow.py, agents/frontline/read_flow.py).  Two slots are exceptions: the *)
(* item of a cart change is any numbered candidate, and its quantity is    *)
(* looked for only where the merchant configured it; the base              *)
(* configuration takes the proposed one as it is.                          *)
(*                                                                         *)
(* What the caller says in a turn is a set of facts <<slot, value>>: the   *)
(* values that the code's readers (caller_stated_order_ids, the amount,    *)
(* destination, profile and contact patterns, standalone_quantity) find in *)
(* it.  An ambiguous mention is no fact.  The models may propose anything. *)
(***************************************************************************)
EXTENDS Naturals, FiniteSets

CONSTANTS Nil, Orders, Items, Customers,
          Owner,         \* the customer an order belongs to, or Nil
          Placed,        \* orders a guest placed earlier in this session
          Profiles,      \* customers with a profile record
          Instruments,   \* customers with a new instrument on file
          Factors,       \* customers with a verification factor
          Quantities, Amounts,
          Destinations,  \* RefundDestination, "original" among them
          SlotReasks,    \* policy.{cart,support}_clarification_reask_max
          MaxFacts, MaxRequests, MaxTurns, MaxDelistings

ASSUME SlotsAssumption ==
    /\ Owner \in [Orders -> Customers \cup {Nil}]
    /\ Placed \subseteq Orders /\ \A o \in Placed : Owner[o] = Nil
    /\ Quantities \subseteq Nat /\ SlotReasks \in Nat /\ "original" \in Destinations
    /\ Nil \notin Orders /\ Nil \notin Items
    /\ \A orders \in SUBSET Orders : orders # Nil

VARIABLES
    quantitySource, \* policy.cart_quantity_source, fixed by the merchant's
                    \* configuration; the base has "conversation"
    turn,      \* turns admitted so far
    requests,  \* requests opened so far
    stage,     \* where the running turn is; "idle" between turns
    inv,       \* ActiveInvocation: the open request, or Nil
    now,       \* what the running turn's text states
    said,      \* what the caller has stated since the request was opened
    shown,     \* candidates numbered before the model was awaited
    attempt,   \* which of the two attempts the model is making
    asks,      \* questions asked of this request (clarification_liveness)
    frozen,    \* the pending effect minted from a complete request, or Nil
    told,      \* the order read answered last, or Nil
    principal, \* the caller's verified customer, or Nil
    mine,      \* guest orders of this session
    granted,   \* orders a matched contact opened for reading
    recent,    \* RecentOrderContext.order_refs
    cart,      \* items in the caller's cart
    shelf,     \* products the catalog resolves now
    progress   \* history: [held, wasted], see Asked

local == <<now, shown, attempt>>
caller == <<principal, mine, granted>>
goods == <<cart, shelf>>
slotVars == <<quantitySource, turn, requests, stage, inv, now, said, shown, attempt, asks,
              frozen, told, principal, mine, granted, recent, cart, shelf, progress>>

-----------------------------------------------------------------------------
(* Requests and their slots *)

CartKinds == {"add", "remove", "set_quantity"}
ActionKinds == {"cancel_orders", "return_order", "refund_order"}
ReadKinds == {"verify_order_status", "read_order_total"}
SupportKinds == ActionKinds \cup {"change_profile", "list_orders"}
Kinds == CartKinds \cup ReadKinds \cup SupportKinds
Slots == {"item", "quantity", "orders", "amount", "destination", "value"}

(* is_slot_complete: what a request of each kind must hold. *)
Needs(kind) ==
    CASE kind = "remove" -> {"item"}
      [] kind \in {"add", "set_quantity"} -> {"item", "quantity"}
      [] kind = "refund_order" -> {"orders", "amount", "destination"}
      [] kind = "change_profile" -> {"value"}
      [] kind = "list_orders" -> {}
      [] OTHER -> {"orders"}
Filled(r) == {s \in Slots : r.slots[s] # Nil}
Complete(r) == Needs(r.kind) \subseteq Filled(r)

(* ActiveInvocation: `opened' is its identity.  The selector is what the    *)
(* router said of the target; `sure' is explicit_target_confirmed and       *)
(* `source' what the turn of explicit_target_turn_id states.                *)
Fresh(kind, selector) ==
    [kind |-> kind, opened |-> requests + 1, selector |-> selector,
     slots |-> [s \in Slots |-> Nil], sure |-> FALSE, source |-> Nil]
With(r, s, v) == [r EXCEPT !.slots[s] = v]

Stated(facts, s) == {f[2] : f \in {g \in facts : g[1] = s}}
Facts(kind) ==
    LET of(s, values) == {<<s, v>> : v \in values} IN
    CASE kind \in CartKinds -> of("quantity", Quantities) \cup of("assent", {"yes"})
      [] kind = "refund_order" ->
           of("orders", Orders) \cup of("amount", Amounts)
             \cup of("destination", Destinations \ {"original"})
      [] kind = "change_profile" -> of("value", {"new"})
      [] kind \in ReadKinds -> of("orders", Orders) \cup of("contact", Customers)
      [] kind = "list_orders" -> {}
      [] OTHER -> of("orders", Orders)
Utterances(kind) == {u \in SUBSET Facts(kind) : Cardinality(u) <= MaxFacts}

(* RecentOrderContext.record focuses the only order it was given. *)
Focus == IF Cardinality(recent) = 1 THEN CHOOSE o \in recent : TRUE ELSE Nil

-----------------------------------------------------------------------------
(* Who may read and who may act *)

OwnedHere(o) == o \in mine \/ (principal # Nil /\ Owner[o] = principal)
ReadAllowed(o) == IF principal = Nil THEN o \in mine \cup granted ELSE OwnedHere(o)
MutationAllowed(o) == OwnedHere(o)

(* _authorize_target over the targets of a request: unbound, the caller     *)
(* verifies first; bound, the combined not-found.                           *)
TargetVerdict(orders) ==
    IF \A o \in orders : MutationAllowed(o) THEN "authorized"
    ELSE IF principal = Nil THEN "identity" ELSE "denied"

-----------------------------------------------------------------------------
NoProgress == [held |-> {}, wasted |-> FALSE, gaveUp |-> FALSE]

SlotsInit ==
    /\ quantitySource \in {"conversation", "this_request"}
    /\ turn = 0 /\ requests = 0 /\ stage = "idle" /\ inv = Nil /\ now = {} /\ said = {}
    /\ shown = {} /\ attempt = 0 /\ asks = 0 /\ frozen = Nil /\ told = Nil
    /\ principal \in Customers \cup {Nil}
    /\ mine \in (IF principal = Nil THEN {{}, Placed} ELSE {{}})
    /\ granted = {} /\ recent = {}
    /\ cart \in (IF principal = Nil
                 THEN {items \in SUBSET Items : Cardinality(items) <= 1} ELSE {{}})
    /\ shelf = Items
    /\ progress = NoProgress

(* The router opens a new request, replacing the one held.  Only a          *)
(* cancellation and the order reads may point at the order in focus; a live *)
(* offer may stand when an item is asked for.                               *)
Selectors(kind) ==
    {"explicit"} \cup (IF kind = "add" THEN {"offer"} ELSE {})
      \cup (IF kind \in ReadKinds \cup {"cancel_orders"} /\ Focus # Nil
            THEN {"focused"} ELSE {})
      \cup (IF kind = "verify_order_status" /\ recent # {} THEN {"recent"} ELSE {})
      \cup (IF kind = "list_orders" THEN {"account"} ELSE {})
Open(kind, selector, u) ==
    /\ stage = "idle" /\ turn < MaxTurns /\ requests < MaxRequests
    /\ inv' = Fresh(kind, selector)
    /\ turn' = turn + 1 /\ requests' = requests + 1 /\ now' = u /\ said' = u
    /\ stage' = "entry" /\ asks' = 0 /\ told' = Nil /\ progress' = NoProgress
    /\ UNCHANGED <<shown, attempt, frozen, caller, recent, goods>>

(* The router continues the request that is held. *)
Continue(u) ==
    /\ stage = "idle" /\ inv # Nil /\ turn < MaxTurns
    /\ turn' = turn + 1 /\ now' = u /\ said' = said \cup u
    /\ stage' = "entry"
    /\ UNCHANGED <<requests, inv, shown, attempt, asks, frozen, told, caller,
                   recent, goods, progress>>

(* The catalog stops carrying a product while a cart request is about:      *)
(* before its owner looks, while the model is awaited or between turns.     *)
Delist(i) ==
    /\ stage \in {"idle", "entry", "cart_model"} /\ inv # Nil /\ inv.kind \in CartKinds
    /\ i \in shelf /\ Cardinality(Items \ shelf) < MaxDelistings
    /\ shelf' = shelf \ {i}
    /\ UNCHANGED <<turn, requests, stage, inv, local, said, asks, frozen, told,
                   caller, recent, cart, progress>>

-----------------------------------------------------------------------------
(* How a turn may end, or wait.  Each of these settles the stage, the       *)
(* request, what the turn held, the question count and the outcome.         *)
Ends == stage' = "idle" /\ now' = {} /\ shown' = {} /\ attempt' = 0

(* The request is gone: an acknowledgement, a hand-over, or the model left. *)
Dropped ==
    /\ Ends /\ inv' = Nil /\ asks' = 0 /\ said' = {} /\ progress' = NoProgress
    /\ UNCHANGED <<frozen, told>>

(* Mutant: the budget counts one question too few. *)
AskedSparingly(r) ==
    LET spent == asks > SlotReasks - 1
        wasted == progress.wasted
                    \/ (asks > 0 /\ Filled(r) \subseteq progress.held) IN
    /\ Ends /\ UNCHANGED <<said, frozen, told>>
    /\ inv' = IF spent THEN Nil ELSE r
    /\ asks' = IF spent THEN 0 ELSE asks + 1
    /\ progress' = [held |-> Filled(r), wasted |-> wasted, gaveUp |-> spent]
(* A clarification: the request is kept with what it holds and the caller   *)
(* is asked, unless this request has had its questions; then it is dropped  *)
(* (Support hands over to a person).  `wasted' records that some answer     *)
(* added nothing to what the request held at the question before.           *)
Asked(r) ==
    LET spent == asks > SlotReasks
        wasted == progress.wasted
                    \/ (asks > 0 /\ Filled(r) \subseteq progress.held) IN
    /\ Ends /\ UNCHANGED <<said, frozen, told>>
    /\ inv' = IF spent THEN Nil ELSE r
    /\ asks' = IF spent THEN 0 ELSE asks + 1
    /\ progress' = [held |-> Filled(r), wasted |-> wasted, gaveUp |-> spent]

(* The items a cart request may mean: the cart's, or the catalog's; fixed, it *)
(* is looked up by itself.                                                    *)
Domain(r) ==
    IF r.kind \notin CartKinds THEN {}
    ELSE IF r.kind # "add" THEN cart
    ELSE IF r.slots["item"] = Nil THEN shelf ELSE {r.slots["item"]} \cap shelf

(* The owner awaits its tool-only model. *)
Awaits(model, r) ==
    /\ stage' = model /\ inv' = r /\ attempt' = 1 /\ shown' = Domain(r)
    /\ UNCHANGED <<now, said, asks, frozen, told, progress>>

(* _mint_*: the effect is frozen for its readback. *)
Minted(r) ==
    /\ stage' = "frozen" /\ inv' = Nil /\ asks' = 0 /\ progress' = NoProgress
    /\ now' = {} /\ shown' = {} /\ attempt' = 0
    /\ frozen' = [kind |-> r.kind, slots |-> r.slots]
    /\ UNCHANGED <<said, told>>

-----------------------------------------------------------------------------
(* Cart *)

(* A complete request resolves its item once more before it is frozen.  An   *)
(* item that is gone is forgotten and asked for; the quantity stays.         *)
CartFreeze(r) ==
    IF r.slots["item"] \in Domain(r) THEN Minted(r)
    ELSE IF r.kind # "add" /\ Domain(r) = {} THEN Dropped
    ELSE Asked(With(r, "item", Nil))

(* A bare number answers the quantity question without a model. *)
Parsed(r, bare) ==
    LET q == CHOOSE q \in Stated(now, "quantity") : TRUE IN
    IF /\ r.kind # "remove" /\ r.slots["item"] # Nil /\ r.slots["quantity"] = Nil
       /\ bare /\ Cardinality(now) = 1 /\ Stated(now, "quantity") # {}
       /\ r.kind = "add" => q > 0
    THEN With(r, "quantity", q) ELSE r

(* A bare assent picks no item unless an offer is live. *)
BareAssent(r) ==
    /\ r.kind = "add" /\ r.slots["item"] = Nil /\ r.selector # "offer"
    /\ now = {<<"assent", "yes">>}

(* capability_entry_node up to the model. *)
FillCart ==
    /\ stage = "entry" /\ inv # Nil /\ inv.kind \in CartKinds
    /\ IF BareAssent(inv) THEN Asked(inv)
       ELSE IF inv.kind # "add" /\ Domain(inv) = {} THEN Dropped
       ELSE IF inv.slots["item"] \notin Domain(inv) \cup {Nil}
       THEN Asked(With(inv, "item", Nil))
       ELSE \E bare \in BOOLEAN : LET r == Parsed(inv, bare) IN
            IF Complete(r) THEN CartFreeze(r)
            ELSE Awaits("cart_model", r)
    /\ UNCHANGED <<turn, requests, caller, recent, goods>>

(* Mutant: the fields that are already fixed are not looked at. *)
ProposalShaped(r, item, quantity) ==
    /\ item # Nil \/ quantity # Nil
    /\ item # Nil => item \in shown
    /\ quantity # Nil => r.kind # "remove"

(* A proposal of the model: a numbered candidate, an amount, or both.  It     *)
(* may fill only what is still missing, and the amount must be one an add     *)
(* or a removal can carry.                                                    *)
ProposalValid(r, item, quantity) ==
    /\ item # Nil \/ quantity # Nil
    /\ item # Nil => r.slots["item"] = Nil /\ item \in shown
    /\ quantity # Nil => r.slots["quantity"] = Nil /\ r.kind # "remove"

(* Under this_request a reader runs beside the model (a removal has no        *)
(* quantity); under conversation none does.                                   *)
Guarded == quantitySource = "this_request"

(* Mutant: an amount the reader could not look for stands. *)
QuantityUnlessRefuted(quantity, reader) ==
    IF ~Guarded \/ ~reader \/ quantity \in Stated(said, "quantity") THEN quantity ELSE Nil
(* read_stated_amounts sees only the caller's lines since the request was     *)
(* opened.  An amount it does not find, or cannot look for, is left open;     *)
(* without it the proposed amount stands.                                     *)
StatedQuantity(quantity, reader) ==
    IF ~Guarded \/ (reader /\ quantity \in Stated(said, "quantity")) THEN quantity ELSE Nil

(* The tool-only model answers: a proposal, a question, leave, or something   *)
(* unusable, which is answered once and then asked about.                     *)
Unusable(r) ==
    IF attempt = 1
    THEN attempt' = 2 /\ UNCHANGED <<stage, inv, now, said, shown, asks, frozen, told, progress>>
    ELSE Asked(r)
ModelAsks(model) ==
    /\ stage = model /\ Asked(inv)
    /\ UNCHANGED <<turn, requests, caller, recent, goods>>
ModelLeaves(model) ==
    /\ stage = model /\ Dropped
    /\ UNCHANGED <<turn, requests, caller, recent, goods>>
Merged(r, item, quantity) ==
    [r EXCEPT !.slots = [s \in Slots |->
        CASE s = "item" /\ item # Nil -> item
          [] s = "quantity" /\ quantity # Nil -> quantity
          [] OTHER -> r.slots[s]]]
CartPropose(item, quantity, reader) ==
    /\ stage = "cart_model"
    /\ LET q == IF quantity = Nil THEN Nil ELSE StatedQuantity(quantity, reader)
           r == Merged(inv, item, q) IN
       IF ~ProposalValid(inv, item, quantity) \/ (inv.kind = "add" /\ q = 0)
       THEN Unusable(inv)
       ELSE IF Complete(r) THEN CartFreeze(r) ELSE Asked(r)
    /\ UNCHANGED <<turn, requests, caller, recent, goods>>

-----------------------------------------------------------------------------
(* Support *)

EnterIdentity(r) ==
    /\ stage' = "identity" /\ inv' = r /\ asks' = 0
    /\ now' = {} /\ shown' = {} /\ attempt' = 0
    /\ UNCHANGED <<said, frozen, told, progress>>

(* The caller must verify first.  Only a target that this turn's words state  *)
(* is carried to the new principal; the order in focus never is.              *)
Crosses(r) ==
    IF Stated(now, "orders") = r.slots["orders"] THEN EnterIdentity(r) ELSE Asked(r)

(* normalize_focused.  The router offers the focused selector only while an   *)
(* order is in focus, and nothing moves the focus before the entry.           *)
Normalized(r) ==
    IF r.kind = "cancel_orders" /\ r.selector = "focused"
    THEN [With(r, "orders", {Focus}) EXCEPT !.selector = "explicit"] ELSE r

(* The targets are not the caller's to act on, or not yet. *)
Blocked(r, focused) ==
    IF TargetVerdict(r.slots["orders"]) = "identity" /\ ~focused THEN Crosses(r) ELSE Asked(r)

(* The instrument a refund goes to, or a person when none is on file.         *)
Instrument(r) ==
    LET o == CHOOSE o \in r.slots["orders"] : TRUE
        payee == IF Owner[o] = Nil THEN principal ELSE Owner[o] IN
    \/ r.slots["destination"] = "original"
    \/ r.slots["destination"] = "new_instrument" /\ payee \in Instruments \cap Factors

(* A complete request: authorized again, then minted. *)
SupportFreeze(r, focused) ==
    IF r.kind = "change_profile"
    THEN IF principal \in Profiles \cap Factors THEN Minted(r)
         ELSE IF principal = Nil THEN EnterIdentity(r) ELSE Dropped
    ELSE IF TargetVerdict(r.slots["orders"]) # "authorized" THEN Blocked(r, focused)
    ELSE IF r.kind = "refund_order" /\ ~Instrument(r) THEN Dropped
    ELSE Minted(r)

(* prepare_incomplete: a refund whose order is known settles that order's     *)
(* authority before it asks for anything else.                                *)
Unprepared(r) ==
    /\ r.kind = "refund_order" /\ r.slots["orders"] # Nil
    /\ TargetVerdict(r.slots["orders"]) # "authorized"

FillSupport ==
    /\ stage = "entry" /\ inv # Nil
    /\ inv.kind \in ActionKinds \cup {"change_profile"}
    /\ LET r == Normalized(inv) focused == r # inv IN
       IF inv.kind = "change_profile" /\ principal # Nil /\ principal \notin Profiles
       THEN Dropped
       ELSE IF Complete(r) THEN SupportFreeze(r, focused)
       ELSE IF Unprepared(r) THEN Blocked(r, focused)
       ELSE Awaits("support_model", r)
    /\ UNCHANGED <<turn, requests, caller, recent, goods>>

(* proposal_tool_for: the one slot that is asked of the model. *)
Missing(r) ==
    IF "orders" \in Needs(r.kind) \ Filled(r) THEN "orders"
    ELSE IF "amount" \in Needs(r.kind) \ Filled(r) THEN "amount"
    ELSE IF r.kind = "refund_order" THEN "destination" ELSE "value"
Offers(slot) ==
    CASE slot = "orders" -> SUBSET Orders \ {{}}
      [] slot = "amount" -> Amounts
      [] slot = "destination" -> Destinations
      [] OTHER -> {"new", "other"}
(* merge_proposal stands only on this turn's words: every order named and no  *)
(* other, one of them for a refund or a return; the amount; the destination,  *)
(* except the original method, which needs no mention; the profile value.     *)
ProposalStated(r, slot, v) ==
    CASE slot = "orders" ->
           /\ v = Stated(now, "orders")
           /\ r.kind # "cancel_orders" => Cardinality(v) = 1
      [] slot = "destination" -> v = "original" \/ v \in Stated(now, slot)
      [] OTHER -> v \in Stated(now, slot)
SupportPropose(v) ==
    /\ stage = "support_model" /\ v \in Offers(Missing(inv))
    /\ LET r == With(inv, Missing(inv), v) IN
       IF ~ProposalStated(inv, Missing(inv), v) THEN Unusable(inv)
       ELSE IF Complete(r) THEN SupportFreeze(r, FALSE)
       ELSE IF Unprepared(r) THEN Blocked(r, FALSE) ELSE Asked(r)
    /\ UNCHANGED <<turn, requests, caller, recent, goods>>
SupportUnexpected ==
    /\ stage \in {"cart_model", "support_model"} /\ Unusable(inv)
    /\ UNCHANGED <<turn, requests, caller, recent, goods>>

(* A list: of the account, which needs a bound caller, or of this session. *)
ListOrders ==
    /\ stage = "entry" /\ inv # Nil /\ inv.kind = "list_orders"
    /\ IF inv.selector = "account" /\ principal = Nil
       THEN EnterIdentity(inv) /\ UNCHANGED recent
       ELSE /\ Dropped
            /\ recent' = IF inv.selector # "account" THEN mine
                         ELSE mine \cup {o \in Orders : Owner[o] = principal}
    /\ UNCHANGED <<turn, requests, caller, goods>>

-----------------------------------------------------------------------------
(* Order reads *)

Targets(r) ==
    CASE r.selector = "focused" -> {Focus}
      [] r.selector = "recent" -> recent
      [] OTHER -> r.slots["orders"]
(* A question of the read flow keeps the request and is not counted. *)
KeepsRequest(r) == Ends /\ inv' = r /\ UNCHANGED <<said, asks, frozen, told, progress>>
Tells(r) ==
    /\ Ends /\ inv' = Nil /\ recent' = Targets(r)
    /\ told' = [kind |-> r.kind, orders |-> Targets(r), explicit |-> r.selector = "explicit"]
    /\ UNCHANGED <<said, asks, frozen, progress>>

(* classify_contact_claims, and try_grant_orders_by_contact: one contact, of  *)
(* the one owner of all these orders, and only for a guest.                   *)
Claims == Stated(now, "contact")
ContactOpens(orders) == principal = Nil /\ \A o \in orders : Owner[o] \in Claims

(* A sure target is answered if the caller may read it.  A guest may earn    *)
(* the reading of a status with a contact.                                   *)
Answers(r) ==
    LET closed == {o \in Targets(r) : ~ReadAllowed(o)} IN
    IF r.kind = "read_order_total"
    THEN /\ UNCHANGED granted
         /\ IF \A o \in Targets(r) : MutationAllowed(o) THEN Tells(r)
            ELSE Dropped /\ UNCHANGED recent
    ELSE IF closed = {} THEN Tells(r) /\ UNCHANGED granted
    ELSE IF principal = Nil /\ Cardinality(Claims) # 1
    THEN KeepsRequest(r) /\ UNCHANGED <<granted, recent>>
    ELSE IF ContactOpens(closed)
    THEN granted' = granted \cup closed /\ Tells(r)
    ELSE Dropped /\ UNCHANGED <<granted, recent>>

(* order_status_fulfill_node: an explicit target is sure when the turn that   *)
(* named it states exactly it; otherwise the caller is asked about it.        *)
Fulfill(r) ==
    IF r.kind = "read_order_total" /\ Cardinality(Targets(r)) > 1
    THEN Dropped /\ UNCHANGED <<granted, recent>>
    ELSE IF r.selector # "explicit" \/ r.sure THEN Answers(r)
    ELSE LET source == IF r.source = Nil THEN Stated(now, "orders") ELSE r.source IN
         IF source = r.slots["orders"]
         THEN Answers([r EXCEPT !.sure = TRUE, !.source = source])
         ELSE /\ stage' = "confirm" /\ inv' = [r EXCEPT !.source = source]
              /\ UNCHANGED <<now, said, shown, attempt, asks, frozen, told, granted, recent, progress>>

(* The entry of a read, with the model's proposal when the target is open.   *)
ReadEntry(proposed) ==
    /\ stage = "entry" /\ inv # Nil /\ inv.kind \in ReadKinds
    /\ IF inv.selector = "explicit" /\ inv.slots["orders"] = Nil
       THEN IF proposed = {} THEN KeepsRequest(inv) /\ UNCHANGED <<granted, recent>>
            ELSE Fulfill(With(inv, "orders", proposed))
       ELSE proposed = {} /\ Fulfill(inv)
    /\ UNCHANGED <<turn, requests, principal, mine, goods>>

(* The caller answers "did you mean that order?" in a turn of its own; a      *)
(* contact is still looked for in the words that named the order.             *)
ReadConfirm(yes) ==
    /\ stage = "confirm" /\ turn < MaxTurns
    /\ turn' = turn + 1
    /\ IF ~yes THEN Dropped ELSE
         /\ stage' = "entry" /\ inv' = [inv EXCEPT !.sure = TRUE]
         /\ said' = said \cup {<<"meant", inv.slots["orders"]>>}
         /\ UNCHANGED <<local, asks, frozen, told, progress>>
    /\ UNCHANGED <<requests, caller, recent, goods>>

-----------------------------------------------------------------------------
(* The identity detour and the readback, which other modules describe *)

(* The caller proves to be c.  The context rotates: what the guest had is     *)
(* cleared, the transcript stays behind and the request is resumed.           *)
Bind(c) ==
    /\ stage = "identity"
    /\ principal' = c /\ mine' = {} /\ granted' = {} /\ recent' = {} /\ cart' = {}
    /\ stage' = "entry"
    /\ UNCHANGED <<turn, requests, inv, local, said, asks, frozen, told, shelf, progress>>
IdentityFails ==
    /\ stage = "identity" /\ Dropped
    /\ UNCHANGED <<turn, requests, caller, recent, goods>>

(* The readback is answered: the effect runs, or nothing happens. *)
Conclude(applied) ==
    /\ stage = "frozen" /\ stage' = "idle" /\ frozen' = Nil /\ said' = {}
    /\ cart' = CASE applied /\ frozen.kind = "add" -> cart \cup {frozen.slots["item"]}
                 [] /\ applied /\ frozen.kind \in {"remove", "set_quantity"}
                    /\ frozen.slots["quantity"] \in {Nil, 0} -> cart \ {frozen.slots["item"]}
                 [] OTHER -> cart
    /\ recent' = IF applied /\ frozen.kind \in ActionKinds THEN frozen.slots["orders"]
                 ELSE recent
    /\ UNCHANGED <<turn, requests, inv, local, asks, told, caller, shelf, progress>>

SlotsNext ==
    /\ UNCHANGED quantitySource
    /\ \/ /\ stage = "idle" /\ turn < MaxTurns
          /\ \/ \E k \in Kinds : \E sel \in Selectors(k), u \in Utterances(k) : Open(k, sel, u)
             \/ inv # Nil /\ \E u \in Utterances(inv.kind) : Continue(u)
       \/ \E i \in Items : Delist(i)
       \/ FillCart \/ FillSupport \/ ListOrders
       \/ \E m \in {"cart_model", "support_model"} : ModelAsks(m) \/ ModelLeaves(m)
       \/ /\ stage = "cart_model"
          /\ \E i \in shown \cup {Nil}, q \in Quantities \cup {Nil} :
               \E reader \in IF q = Nil \/ ~Guarded THEN {TRUE} ELSE BOOLEAN :
                  CartPropose(i, q, reader)
       \/ stage = "support_model" /\ \E v \in Offers(Missing(inv)) : SupportPropose(v)
       \/ SupportUnexpected
       \/ \E p \in SUBSET Orders : ReadEntry(p)
       \/ \E yes \in BOOLEAN : ReadConfirm(yes) \/ Conclude(yes)
       \/ \E c \in Customers : Bind(c)
       \/ IdentityFails

SlotsSpec == SlotsInit /\ [][SlotsNext]_slotVars

-----------------------------------------------------------------------------
(* Properties *)

(* The slots that are looked for in the caller's words, whatever the kind.   *)
SpokenSlots == {"amount", "value"} \cup (IF Guarded THEN {"quantity"} ELSE {})

(* Every value of a frozen effect, and every order read out, comes from the  *)
(* caller: an order, amount, profile value or new destination was stated in  *)
(* a turn of this very request, or the order is the one in focus under this  *)
(* principal, or the caller said yes to it.  So was a quantity under         *)
(* this_request ("an earlier number never carries over"); under conversation *)
(* the model's quantity is not looked for.  What a guest's focus             *)
(* pointed at never becomes a target of the principal verified afterwards    *)
(* (merge_proposal, stated_reference_set, read_stated_amounts,               *)
(* _enter_identity_for_action, order_status_fulfill_node).  The item of a    *)
(* cart change is not looked for in the words, but it is there when it is    *)
(* frozen, although the candidates were numbered before the model's await.   *)
ValuesAreCallers ==
    /\ frozen # Nil =>
         /\ \A s \in SpokenSlots :
              frozen.slots[s] \in Stated(said, s) \cup {Nil}
         /\ frozen.slots["destination"]
              \in Stated(said, "destination") \cup {Nil, "original"}
         /\ frozen.kind \in ActionKinds =>
              frozen.slots["orders"] \subseteq Stated(said, "orders") \cup {Focus}
         /\ frozen.kind \in CartKinds =>
              frozen.slots["item"] \in IF frozen.kind = "add" THEN shelf ELSE cart
    /\ told # Nil /\ told.explicit =>
         \/ told.orders \subseteq Stated(said, "orders")
         \/ told.orders \in Stated(said, "meant")

(* A contact that matched opens the status of an order and nothing else: no  *)
(* total is told and no action frozen unless the order was placed in this    *)
(* session or belongs to the bound customer (order_mutation_allowed,         *)
(* order_total_read_allowed).                                                *)
GrantsOnlyOpenStatus ==
    /\ frozen # Nil /\ frozen.kind \in ActionKinds =>
         \A o \in frozen.slots["orders"] : OwnedHere(o)
    /\ told # Nil /\ told.kind = "read_order_total" =>
         \A o \in told.orders : OwnedHere(o)

(* What is done or read out is what the caller asked for and may have: the   *)
(* two parts above hold together.                                            *)
EffectsAreGrounded == ValuesAreCallers /\ GrantsOnlyOpenStatus

(* A slot that is filled keeps its value for as long as the request lives,   *)
(* across questions, model retries and the identity detour; only an item     *)
(* that is no longer offered is forgotten (the "already fixed" checks).      *)
FixedSlotsStand ==
    [][inv # Nil /\ inv' # Nil /\ inv'.opened = inv.opened =>
         \A s \in Slots : inv.slots[s] # Nil =>
            \/ inv'.slots[s] = inv.slots[s]
            \/ s = "item" /\ inv'.slots[s] = Nil
                 /\ inv.slots[s] \notin (IF inv.kind = "add" THEN shelf ELSE cart)]_slotVars

(* The question budget is never spent on a caller who answers: when a        *)
(* request is given up, some answer had added nothing to it                  *)
(* (advance_clarification with two re-asks, and three slots to fill).        *)
AnsweredQuestionsSuffice == progress.gaveUp => progress.wasted
=============================================================================
