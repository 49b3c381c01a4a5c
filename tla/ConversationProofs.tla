-------------------------- MODULE ConversationProofs --------------------------
(***************************************************************************)
(* Proofs about a conversation, for any number of turns, deliveries,       *)
(* requests, orders, items, customers and failures.                        *)
(***************************************************************************)
EXTENDS Conversation, TLAPS

-----------------------------------------------------------------------------
(* The typed requests.                                                      *)

(* What a slot may hold, and an ActiveInvocation.                           *)
Values ==
    {Nil} \cup Items \cup Quantities \cup Amounts \cup Destinations \cup {"new", "other"}
      \cup SUBSET Orders
Requests ==
    [kind : Kinds, opened : Nat,
     selector : {"explicit", "offer", "focused", "recent", "account"},
     slots : [Slots -> Values], sure : BOOLEAN, source : {Nil} \cup SUBSET Orders]
Stages == {"idle", "entry", "cart_model", "support_model", "confirm", "identity", "frozen"}

SlotsType ==
    /\ turn \in Nat /\ requests \in Nat /\ asks \in Nat
    /\ stage \in Stages
    /\ inv \in Requests \cup {Nil}
    /\ progress \in [held : SUBSET Slots, wasted : BOOLEAN, gaveUp : BOOLEAN]
    /\ mine \subseteq Orders /\ granted \subseteq Orders /\ recent \subseteq Orders
    /\ cart \subseteq Items /\ shelf \subseteq Items /\ shown \subseteq Items

(* The words of this turn are among those of the request.                   *)
WordsKnown ==
    /\ now \subseteq said
    /\ Stated(said, "orders") \subseteq Orders
    /\ Stated(said, "quantity") \subseteq Quantities

SupportModelKinds == ActionKinds \cup {"change_profile"}

(* A request lives, and is never None, in these stages.                     *)
Held == inv # Nil \/ stage \in {"cart_model", "support_model", "confirm", "identity"}

StageKnown ==
    /\ frozen # Nil => stage = "frozen"
    /\ told # Nil => stage = "idle" /\ inv = Nil
    /\ stage = "frozen" => inv = Nil /\ now = {}
    /\ stage = "cart_model" => inv.kind \in CartKinds /\ ~Complete(inv)
    /\ stage = "support_model" =>
          /\ inv.kind \in SupportModelKinds /\ ~Complete(inv) /\ ~Unprepared(inv)
          /\ inv.selector # "focused"
    /\ stage = "confirm" => inv.kind \in ReadKinds /\ inv.slots["orders"] # Nil
    /\ stage = "identity" =>
          /\ inv.selector # "focused"
          /\ inv.kind \in ActionKinds => inv.slots["orders"] \subseteq Stated(said, "orders")

(* Where the values of a request come from, and in which order they come.   *)
RequestKnown(r) ==
    /\ r.opened <= requests
    /\ Filled(r) \subseteq Needs(r.kind)
    /\ \A s \in SpokenSlots : r.slots[s] \in Stated(said, s) \cup {Nil}
    /\ r.slots["destination"] \in Stated(said, "destination") \cup {Nil, "original"}
    /\ r.slots["orders"] # Nil => r.slots["orders"] \subseteq Orders
    /\ r.kind \in ActionKinds /\ r.slots["orders"] # Nil =>
          r.slots["orders"] \subseteq Stated(said, "orders") \cup {Focus}
    /\ r.selector = "focused" => Focus # Nil /\ r.kind \in ReadKinds \cup {"cancel_orders"}
    /\ r.kind \in ReadKinds => r.selector \in {"explicit", "focused", "recent"}
    /\ r.selector = "focused" /\ r.kind = "cancel_orders" => r.slots["orders"] = Nil
    /\ r.slots["amount"] # Nil => r.slots["orders"] # Nil
    /\ r.slots["destination"] # Nil => r.slots["amount"] # Nil
    /\ r.sure => /\ r.slots["orders"] # Nil
                 /\ \/ r.slots["orders"] \subseteq Stated(said, "orders")
                    \/ r.slots["orders"] \in Stated(said, "meant")
    /\ r.source # Nil => r.source \subseteq Stated(said, "orders")

(* What was frozen or told, and still stands.                               *)
FrozenKnown ==
    stage = "frozen" =>
        /\ frozen \in [kind : Kinds, slots : [Slots -> Values]]
        /\ \A s \in SpokenSlots :
              frozen.slots[s] \in Stated(said, s) \cup {Nil}
        /\ frozen.slots["destination"] \in Stated(said, "destination") \cup {Nil, "original"}
        /\ frozen.kind \in ActionKinds =>
              /\ frozen.slots["orders"] \subseteq Stated(said, "orders") \cup {Focus}
              /\ frozen.slots["orders"] \subseteq Orders
              /\ \A o \in frozen.slots["orders"] : OwnedHere(o)
        /\ frozen.kind \in CartKinds =>
              frozen.slots["item"] \in IF frozen.kind = "add" THEN shelf ELSE cart
ToldKnown ==
    told # Nil =>
        /\ told.explicit => \/ told.orders \subseteq Stated(said, "orders")
                            \/ told.orders \in Stated(said, "meant")
        /\ told.kind = "read_order_total" => \A o \in told.orders : OwnedHere(o)

(* While no answer was wasted, the request has grown with every question.   *)
Spending(r, n) ==
    /\ progress.held \ {"item"} \subseteq Filled(r)
    /\ progress.held \subseteq Needs(r.kind)
    /\ n <= 3
    /\ r.kind \in CartKinds =>
          /\ n >= 2 => progress.held # {}
          /\ n = 3 => "quantity" \in progress.held
    /\ r.kind \notin CartKinds =>
          /\ n >= 2 => "orders" \in progress.held
          /\ n = 3 => r.kind = "refund_order" /\ "amount" \in progress.held
BudgetKnown ==
    /\ AnsweredQuestionsSuffice
    /\ Held /\ asks > 0 /\ ~progress.wasted => Spending(inv, asks)

SlotsInv ==
    /\ SlotsType /\ WordsKnown /\ StageKnown
    /\ Held => /\ inv \in Requests /\ RequestKnown(inv)
               /\ inv.kind = "refund_order" => ~Complete(inv)
    /\ FrozenKnown /\ ToldKnown

LEMMA StatedGrows ==
    ASSUME NEW facts, NEW more, facts \subseteq more, NEW s
    PROVE  Stated(facts, s) \subseteq Stated(more, s)
BY DEF Stated

LEMMA StatedUnion ==
    ASSUME NEW facts, NEW more, NEW s
    PROVE  Stated(facts \cup more, s) = Stated(facts, s) \cup Stated(more, s)
BY DEF Stated

LEMMA UtterancesTyped ==
    ASSUME NEW kind \in Kinds, NEW u \in Utterances(kind)
    PROVE  Stated(u, "orders") \subseteq Orders /\ Stated(u, "quantity") \subseteq Quantities
<1>1. ASSUME NEW f \in u
      PROVE  (f[1] = "orders" => f[2] \in Orders) /\ (f[1] = "quantity" => f[2] \in Quantities)
  <2>1. f \in Facts(kind) BY DEF Utterances
  <2> QED BY <2>1 DEF Facts
<1> QED BY <1>1 DEF Stated

LEMMA WithFacts ==
    ASSUME NEW r \in Requests, NEW s \in Slots, NEW v \in Values
    PROVE  /\ With(r, s, v) \in Requests
           /\ With(r, s, v).kind = r.kind /\ With(r, s, v).opened = r.opened
           /\ With(r, s, v).selector = r.selector /\ With(r, s, v).sure = r.sure
           /\ With(r, s, v).source = r.source
           /\ With(r, s, v).slots[s] = v
           /\ \A t \in Slots \ {s} : With(r, s, v).slots[t] = r.slots[t]
BY DEF With, Requests

LEMMA SlotsInitInv == SlotsInit => SlotsInv
<1> SUFFICES ASSUME SlotsInit PROVE SlotsInv OBVIOUS
<1>1. SlotsType
  BY SlotsAssumption DEF SlotsInit, SlotsType, Stages, NoProgress
<1> QED BY <1>1 DEF SlotsInit, SlotsInv, WordsKnown, Stated, StageKnown, FrozenKnown, ToldKnown, Held

-----------------------------------------------------------------------------
(* How a request moves on.                                                  *)

Offered(kind) == IF kind = "add" THEN shelf ELSE cart

(* The request r holds what the open one held, but for an item that is      *)
(* gone, and is known as well.                                              *)
Evolves(r) ==
    /\ r \in Requests /\ r.kind = inv.kind /\ r.opened = inv.opened
    /\ RequestKnown(r)
    /\ \A s \in Slots : inv.slots[s] # Nil =>
          \/ r.slots[s] = inv.slots[s]
          \/ s = "item" /\ r.slots[s] = Nil /\ inv.slots[s] \notin Offered(inv.kind)

(* Only what is incomplete, or not the caller's to act on, is asked about.  *)
Askable(r) ==
    /\ r.kind \in CartKinds \cup SupportModelKinds
    /\ r.kind \in CartKinds \cup {"refund_order", "change_profile"} => ~Complete(r)
Mintable(r) ==
    /\ r.kind \in CartKinds => r.slots["item"] \in Offered(r.kind)
    /\ r.kind \in ActionKinds => /\ r.slots["orders"] # Nil
                                 /\ \A o \in r.slots["orders"] : OwnedHere(o)

Moves(r) ==
    \/ Asked(r) /\ Askable(r)
    \/ Awaits("cart_model", r) /\ r.kind \in CartKinds /\ ~Complete(r)
    \/ /\ Awaits("support_model", r)
       /\ r.kind \in SupportModelKinds /\ ~Complete(r) /\ ~Unprepared(r)
       /\ r.selector # "focused"
    \/ Minted(r) /\ Mintable(r)
    \/ /\ EnterIdentity(r) /\ r.selector # "focused"
       /\ r.kind = "refund_order" => ~Complete(r)
       /\ r.kind \in ActionKinds =>
             r.slots["orders"] # Nil /\ r.slots["orders"] \subseteq Stated(said, "orders")
    \/ /\ r = inv /\ attempt' = 2
       /\ UNCHANGED <<stage, inv, now, said, shown, asks, frozen, told, progress>>

LEMMA InvEvolves ==
    ASSUME inv \in Requests, RequestKnown(inv)
    PROVE  Evolves(inv)
BY DEF Evolves

(* A cart request with another item or quantity.                            *)
CartGrown(r) ==
    /\ r \in Requests /\ r.kind = inv.kind /\ r.opened = inv.opened
    /\ r.selector = inv.selector /\ r.sure = inv.sure /\ r.source = inv.source
    /\ \A s \in Slots \ {"item", "quantity"} : r.slots[s] = inv.slots[s]
    /\ inv.slots["item"] # Nil => r.slots["item"] = inv.slots["item"]
    /\ inv.slots["quantity"] # Nil => r.slots["quantity"] = inv.slots["quantity"]
    /\ Guarded => r.slots["quantity"] \in Stated(said, "quantity") \cup {Nil}
    /\ r.slots["quantity"] # Nil => r.kind # "remove"

LEMMA CartGrownEvolves ==
    ASSUME inv \in Requests, RequestKnown(inv), inv.kind \in CartKinds, NEW r, CartGrown(r)
    PROVE  Evolves(r)
<1>1. RequestKnown(r)
  <2>1. Filled(r) \subseteq Needs(r.kind)
    <3>1. r.kind \in CartKinds BY DEF CartGrown
    <3>2. Needs(r.kind) = IF r.kind = "remove" THEN {"item"} ELSE {"item", "quantity"}
      BY <3>1 DEF Needs, CartKinds
    <3>3. \A s \in Slots \ {"item", "quantity"} : r.slots[s] = Nil
      BY <3>1, <3>2 DEF CartGrown, RequestKnown, Filled
    <3> QED BY <3>2, <3>3 DEF CartGrown, Filled
  <2>2. inv.kind \notin ActionKinds /\ inv.kind # "cancel_orders"
    BY DEF CartKinds, ActionKinds
  <2> QED BY <2>1, <2>2 DEF CartGrown, RequestKnown, Slots, SpokenSlots
<1> QED BY <1>1 DEF CartGrown, Evolves

(* A request whose item is gone forgets it.                                 *)
LEMMA ForgetEvolves ==
    ASSUME inv \in Requests, RequestKnown(inv), inv.kind \in CartKinds, NEW r, CartGrown(r),
           r.slots["item"] # Nil => r.slots["item"] \notin Offered(r.kind)
    PROVE  Evolves(With(r, "item", Nil)) /\ ~Complete(With(r, "item", Nil))
<1>1. PICK q : q = With(r, "item", Nil) OBVIOUS
<1>2. /\ q \in Requests /\ q.kind = r.kind /\ q.opened = r.opened /\ q.selector = r.selector
      /\ q.sure = r.sure /\ q.source = r.source
      /\ q.slots["item"] = Nil /\ \A t \in Slots \ {"item"} : q.slots[t] = r.slots[t]
  BY <1>1, WithFacts DEF CartGrown, Slots, Values
<1>3. Evolves(r) BY CartGrownEvolves
<1>4. RequestKnown(q)
  <2>1. Filled(q) \subseteq Filled(r) BY <1>2 DEF Filled
  <2> QED BY <1>2, <1>3, <2>1 DEF Evolves, RequestKnown, Slots, SpokenSlots
<1>5. ~Complete(q)
  BY <1>2 DEF Complete, Needs, Filled, CartKinds, CartGrown
<1>6. \A s \in Slots : inv.slots[s] # Nil =>
          \/ q.slots[s] = inv.slots[s]
          \/ s = "item" /\ q.slots[s] = Nil /\ inv.slots[s] \notin Offered(inv.kind)
  BY <1>2 DEF CartGrown
<1> QED BY <1>1, <1>2, <1>4, <1>5, <1>6 DEF Evolves, CartGrown

LEMMA CartFreezeMoves ==
    ASSUME inv \in Requests, RequestKnown(inv), inv.kind \in CartKinds, NEW r, CartGrown(r),
           Complete(r), CartFreeze(r)
    PROVE  Dropped \/ \E q : Evolves(q) /\ Moves(q)
<1>1. r.slots["item"] # Nil
  BY DEF Complete, Needs, Filled, CartKinds, CartGrown
<1>2. Domain(r) \subseteq Offered(r.kind)
      /\ (r.slots["item"] \in Offered(r.kind) => r.slots["item"] \in Domain(r))
  BY <1>1 DEF Domain, Offered, CartGrown
<1>3. CASE r.slots["item"] \in Domain(r)
  <2>1. Minted(r) BY <1>3 DEF CartFreeze
  <2>2. Mintable(r) BY <1>2, <1>3 DEF Mintable, CartGrown, CartKinds, ActionKinds
  <2> QED BY <2>1, <2>2, CartGrownEvolves DEF Moves
<1>4. CASE r.slots["item"] \notin Domain(r) /\ Asked(With(r, "item", Nil))
  <2>1. Evolves(With(r, "item", Nil)) /\ ~Complete(With(r, "item", Nil))
    BY <1>2, <1>4, ForgetEvolves
  <2>2. PICK q : q = With(r, "item", Nil) /\ Evolves(q) /\ ~Complete(q) BY <2>1
  <2>3. Askable(q) BY <2>2 DEF Askable, Evolves
  <2> QED BY <1>4, <2>2, <2>3 DEF Moves
<1> QED BY <1>3, <1>4 DEF CartFreeze

LEMMA FillCartMoves ==
    ASSUME SlotsInv, FillCart
    PROVE  Dropped \/ \E q : Evolves(q) /\ Moves(q)
<1>1. /\ inv \in Requests /\ RequestKnown(inv) /\ inv.kind \in CartKinds /\ stage = "entry"
      /\ WordsKnown
  BY DEF SlotsInv, Held, FillCart
<1>2. CartGrown(inv)
  BY <1>1 DEF CartGrown, RequestKnown, Filled, Needs, Slots, CartKinds, SpokenSlots
<1>3. CASE BareAssent(inv) /\ Asked(inv)
  <2>1. ~Complete(inv) BY <1>3 DEF BareAssent, Complete, Needs, Filled
  <2> QED BY <1>1, <1>3, <2>1, InvEvolves DEF Moves, Askable
<1>4. CASE inv.slots["item"] \notin Domain(inv) \cup {Nil} /\ Asked(With(inv, "item", Nil))
  <2>1. inv.slots["item"] \notin Offered(inv.kind)
    BY <1>1, <1>4 DEF Domain, Offered
  <2>2. Evolves(With(inv, "item", Nil)) /\ ~Complete(With(inv, "item", Nil))
    BY <1>1, <1>2, <2>1, ForgetEvolves
  <2>3. PICK q : q = With(inv, "item", Nil) /\ Evolves(q) /\ ~Complete(q) BY <2>2
  <2>4. Askable(q) BY <1>1, <2>3 DEF Askable, Evolves
  <2> QED BY <1>4, <2>3, <2>4 DEF Moves
<1>5. ASSUME NEW bare \in BOOLEAN,
             LET r == Parsed(inv, bare) IN
                IF Complete(r) THEN CartFreeze(r) ELSE Awaits("cart_model", r)
      PROVE  Dropped \/ \E q : Evolves(q) /\ Moves(q)
  <2>1. PICK r : r = Parsed(inv, bare) OBVIOUS
  <2>2. CartGrown(r)
    <3>1. CASE r = inv BY <1>2, <3>1
    <3>2. CASE r # inv
      <4> DEFINE q == CHOOSE q \in Stated(now, "quantity") : TRUE
      <4>1. /\ r = With(inv, "quantity", q) /\ inv.kind # "remove"
            /\ inv.slots["quantity"] = Nil /\ Stated(now, "quantity") # {}
        BY <2>1, <3>2 DEF Parsed
      <4>2. q \in Stated(now, "quantity") BY <4>1
      <4>3. q \in Stated(said, "quantity") /\ q \in Quantities
        BY <1>1, <4>2, StatedGrows DEF WordsKnown
      <4> HIDE DEF q
      <4>4. q \in Values /\ "quantity" \in Slots BY <4>3 DEF Values, Slots
      <4>5. /\ r \in Requests /\ r.kind = inv.kind /\ r.opened = inv.opened
            /\ r.selector = inv.selector /\ r.sure = inv.sure /\ r.source = inv.source
            /\ r.slots["quantity"] = q
            /\ \A t \in Slots \ {"quantity"} : r.slots[t] = inv.slots[t]
        BY <1>1, <4>1, <4>4, WithFacts
      <4> QED BY <4>1, <4>3, <4>5 DEF CartGrown, Slots
    <3> QED BY <3>1, <3>2
  <2>3. CASE Complete(r) /\ CartFreeze(r)
    BY <1>1, <2>2, <2>3, CartFreezeMoves
  <2>4. CASE ~Complete(r) /\ Awaits("cart_model", r)
    BY <1>1, <2>2, <2>4, CartGrownEvolves DEF Moves, CartGrown
  <2> QED BY <1>5, <2>1, <2>3, <2>4
<1> QED BY <1>3, <1>4, <1>5 DEF FillCart

LEMMA CartProposeMoves ==
    ASSUME SlotsInv, NEW item \in shown \cup {Nil}, NEW quantity \in Quantities \cup {Nil},
           NEW reader \in BOOLEAN, CartPropose(item, quantity, reader)
    PROVE  Dropped \/ \E q : Evolves(q) /\ Moves(q)
<1>1. /\ inv \in Requests /\ RequestKnown(inv) /\ inv.kind \in CartKinds /\ ~Complete(inv)
      /\ stage = "cart_model" /\ shown \subseteq Items
  BY DEF SlotsInv, SlotsType, Held, StageKnown, CartPropose
<1>2. ASSUME Unusable(inv)
      PROVE  \E q : Evolves(q) /\ Moves(q)
  BY <1>1, <1>2, InvEvolves DEF Unusable, Moves, Askable
<1>q. PICK q : q = IF quantity = Nil THEN Nil ELSE StatedQuantity(quantity, reader)
  OBVIOUS
<1>r. PICK r : r = Merged(inv, item, q) OBVIOUS
<1>3. ASSUME ProposalValid(inv, item, quantity) PROVE CartGrown(r)
  <2>1. (Guarded => q \in Stated(said, "quantity") \cup {Nil}) /\ q \in Values
    BY <1>q DEF StatedQuantity, Values
  <2>2. q # Nil => inv.slots["quantity"] = Nil /\ inv.kind # "remove"
    BY <1>3, <1>q DEF ProposalValid
  <2>3. item # Nil => inv.slots["item"] = Nil BY <1>3 DEF ProposalValid
  <2>4. item \in Values BY <1>1 DEF Values
  <2>5. inv.slots \in [Slots -> Values] /\ {"item", "quantity"} \subseteq Slots
    BY <1>1 DEF Requests, Slots
  <2> DEFINE f == [s \in Slots |-> CASE s = "item" /\ item # Nil -> item
                                     [] s = "quantity" /\ q # Nil -> q
                                     [] OTHER -> inv.slots[s]]
  <2>6. f \in [Slots -> Values]
    BY <2>1, <2>4, <2>5
  <2>7. /\ f["item"] = IF item = Nil THEN inv.slots["item"] ELSE item
        /\ f["quantity"] = IF q = Nil THEN inv.slots["quantity"] ELSE q
        /\ \A s \in Slots \ {"item", "quantity"} : f[s] = inv.slots[s]
    BY <2>5
  <2>8. r = [inv EXCEPT !.slots = f] BY <1>r DEF Merged
  <2> HIDE DEF f
  <2>10. /\ r \in Requests /\ r.kind = inv.kind /\ r.opened = inv.opened
         /\ r.selector = inv.selector /\ r.sure = inv.sure /\ r.source = inv.source
         /\ r.slots = f
    BY <1>1, <2>6, <2>8 DEF Requests
  <2>11. Guarded => inv.slots["quantity"] \in Stated(said, "quantity") \cup {Nil}
    BY <1>1 DEF RequestKnown, SpokenSlots
  <2>12. inv.kind = "remove" => inv.slots["quantity"] = Nil
    BY <1>1, <2>5 DEF RequestKnown, Filled, Needs
  <2> QED BY <2>1, <2>2, <2>3, <2>7, <2>10, <2>11, <2>12 DEF CartGrown
<1>4. CASE ProposalValid(inv, item, quantity) /\ Complete(r) /\ CartFreeze(r)
  BY <1>1, <1>3, <1>4, CartFreezeMoves
<1>5. CASE ProposalValid(inv, item, quantity) /\ ~Complete(r) /\ Asked(r)
  BY <1>1, <1>3, <1>5, CartGrownEvolves DEF Moves, Askable, CartGrown
<1> QED BY <1>2, <1>4, <1>5, <1>q, <1>r DEF CartPropose

-----------------------------------------------------------------------------
(* Support requests.                                                        *)

(* With one more slot, in the order of proposal_tool_for.                   *)
LEMMA ProposedEvolves ==
    ASSUME inv \in Requests, RequestKnown(inv), inv.kind \in SupportModelKinds, ~Complete(inv),
           WordsKnown, inv.selector # "focused", NEW v \in Offers(Missing(inv)),
           ProposalStated(inv, Missing(inv), v)
    PROVE  Evolves(With(inv, Missing(inv), v))
<1> DEFINE s == Missing(inv)
<1>1. /\ s \in {"orders", "amount", "destination", "value"} /\ s \in Slots
      /\ s \in Needs(inv.kind) /\ inv.slots[s] = Nil
      /\ s \in {"amount", "destination"} => inv.slots["orders"] # Nil
      /\ s = "destination" => inv.slots["amount"] # Nil
  BY DEF Missing, Complete, Needs, Filled, Slots, SupportModelKinds, ActionKinds
<1>2. v \in Values
  BY <1>1 DEF Offers, Values
<1>3. PICK r : r = With(inv, s, v) OBVIOUS
<1>4. /\ r \in Requests /\ r.kind = inv.kind /\ r.opened = inv.opened
      /\ r.selector = inv.selector /\ r.sure = inv.sure /\ r.source = inv.source
      /\ r.slots[s] = v /\ \A t \in Slots \ {s} : r.slots[t] = inv.slots[t]
  BY <1>1, <1>2, <1>3, WithFacts
<1>5. /\ s = "orders" => v = Stated(now, "orders") /\ v \subseteq Orders
      /\ s = "destination" => v = "original" \/ v \in Stated(now, s)
      /\ s \in {"amount", "value"} => v \in Stated(now, s)
  BY <1>1 DEF ProposalStated, Offers
<1> HIDE DEF s
<1>6. Stated(now, s) \subseteq Stated(said, s) BY StatedGrows DEF WordsKnown
<1>7. RequestKnown(r)
  <2>1. Filled(r) \subseteq Needs(r.kind)
    BY <1>1, <1>4 DEF Filled, RequestKnown
  <2>2. \A t \in SpokenSlots : r.slots[t] \in Stated(said, t) \cup {Nil}
    BY <1>1, <1>4, <1>5, <1>6 DEF RequestKnown, Slots, SpokenSlots
  <2>3. r.slots["destination"] \in Stated(said, "destination") \cup {Nil, "original"}
    BY <1>1, <1>4, <1>5, <1>6 DEF RequestKnown, Slots
  <2>4. /\ r.slots["orders"] # Nil => r.slots["orders"] \subseteq Orders
        /\ r.kind \in ActionKinds /\ r.slots["orders"] # Nil =>
              r.slots["orders"] \subseteq Stated(said, "orders") \cup {Focus}
    <3>1. CASE s = "orders" BY <1>4, <1>5, <1>6, <3>1
    <3>2. CASE s # "orders" BY <1>4, <3>2 DEF RequestKnown, Slots
    <3> QED BY <3>1, <3>2
  <2>5. /\ r.slots["amount"] # Nil => r.slots["orders"] # Nil
        /\ r.slots["destination"] # Nil => r.slots["amount"] # Nil
    <3>1. s = "orders" => inv.slots["amount"] = Nil /\ inv.slots["destination"] = Nil
      BY <1>1 DEF RequestKnown
    <3>2. s = "amount" => inv.slots["destination"] = Nil
      BY <1>1 DEF RequestKnown
    <3> QED BY <1>1, <1>4, <3>1, <3>2 DEF RequestKnown, Slots
  <2>6. r.sure => /\ r.slots["orders"] # Nil
                  /\ \/ r.slots["orders"] \subseteq Stated(said, "orders")
                     \/ r.slots["orders"] \in Stated(said, "meant")
    BY <1>1, <1>4 DEF RequestKnown, Slots
  <2> QED BY <1>4, <2>1, <2>2, <2>3, <2>4, <2>5, <2>6 DEF RequestKnown
<1> QED BY <1>1, <1>3, <1>4, <1>7 DEF Evolves, s


(* normalize_focused fixes the order in focus.                              *)
LEMMA NormalizedEvolves ==
    ASSUME inv \in Requests, RequestKnown(inv), inv.kind \in SupportModelKinds,
           recent \subseteq Orders
    PROVE  Evolves(Normalized(inv)) /\ Normalized(inv).selector # "focused"
<1>1. CASE ~(inv.kind = "cancel_orders" /\ inv.selector = "focused")
  <2>1. inv.selector # "focused"
    BY <1>1 DEF RequestKnown, SupportModelKinds, ActionKinds, ReadKinds
  <2> QED BY <1>1, <2>1, InvEvolves DEF Normalized
<1>2. CASE inv.kind = "cancel_orders" /\ inv.selector = "focused"
  <2>1. Focus \in recent BY <1>2 DEF RequestKnown, Focus
  <2>2. {Focus} \in SUBSET Orders /\ {Focus} # Nil BY <2>1, SlotsAssumption
  <2>3. {Focus} \in Values /\ "orders" \in Slots BY <2>2 DEF Values, Slots
  <2>4. PICK q : q = With(inv, "orders", {Focus}) OBVIOUS
  <2>5. /\ q \in Requests /\ q.kind = inv.kind /\ q.opened = inv.opened
        /\ q.sure = inv.sure /\ q.source = inv.source /\ q.slots["orders"] = {Focus}
        /\ \A t \in Slots \ {"orders"} : q.slots[t] = inv.slots[t]
    BY <2>3, <2>4, WithFacts
  <2>6. PICK r : r = Normalized(inv) OBVIOUS
  <2>7. r = [q EXCEPT !.selector = "explicit"] BY <1>2, <2>4, <2>6 DEF Normalized
  <2>8. /\ r \in Requests /\ r.kind = inv.kind /\ r.opened = inv.opened
        /\ r.selector = "explicit"
        /\ r.sure = inv.sure /\ r.source = inv.source /\ r.slots["orders"] = {Focus}
        /\ \A t \in Slots \ {"orders"} : r.slots[t] = inv.slots[t]
    BY <2>5, <2>7 DEF Requests
  <2>9. inv.slots["orders"] = Nil /\ ~inv.sure BY <1>2 DEF RequestKnown
  <2>10. Filled(r) \subseteq Needs(r.kind)
    BY <1>2, <2>8 DEF RequestKnown, Filled, Needs
  <2>11. RequestKnown(r)
    BY <1>2, <2>2, <2>8, <2>9, <2>10 DEF RequestKnown, Slots, SpokenSlots
  <2> QED BY <2>6, <2>8, <2>9, <2>11 DEF Evolves
<1> QED BY <1>1, <1>2

LEMMA BlockedMoves ==
    ASSUME WordsKnown, NEW r, Evolves(r), r.selector # "focused", r.kind \in ActionKinds,
           r.slots["orders"] # Nil, r.kind = "refund_order" => ~Complete(r),
           NEW focused, Blocked(r, focused)
    PROVE  Moves(r)
<1>1. Askable(r) BY DEF Askable, SupportModelKinds, ActionKinds, CartKinds
<1>2. CASE Asked(r) BY <1>1, <1>2 DEF Moves
<1>3. CASE EnterIdentity(r) /\ Stated(now, "orders") = r.slots["orders"]
  <2>1. r.slots["orders"] \subseteq Stated(said, "orders")
    BY <1>3, StatedGrows DEF WordsKnown
  <2> QED BY <1>3, <2>1 DEF Moves
<1> QED BY <1>2, <1>3 DEF Blocked, Crosses

LEMMA SupportFreezeMoves ==
    ASSUME WordsKnown, NEW r, Evolves(r), r.selector # "focused", r.kind \in SupportModelKinds,
           Complete(r), NEW focused, SupportFreeze(r, focused),
           r.kind = "refund_order" => TargetVerdict(r.slots["orders"]) = "authorized"
    PROVE  Dropped \/ Moves(r)
<1>1. CASE r.kind = "change_profile"
  <2>1. Mintable(r) BY <1>1 DEF Mintable, CartKinds, ActionKinds
  <2> QED BY <1>1, <2>1 DEF SupportFreeze, Moves, ActionKinds
<1>2. CASE r.kind # "change_profile"
  <2>1. r.kind \in ActionKinds BY <1>2 DEF SupportModelKinds
  <2>2. r.slots["orders"] # Nil
    BY <2>1 DEF Complete, Needs, Filled, ActionKinds
  <2>3. CASE TargetVerdict(r.slots["orders"]) # "authorized"
    <3>1. Blocked(r, focused) /\ r.kind # "refund_order" BY <1>2, <2>3 DEF SupportFreeze
    <3> QED BY <2>1, <2>2, <3>1, BlockedMoves
  <2>4. CASE TargetVerdict(r.slots["orders"]) = "authorized"
    <3>1. \A o \in r.slots["orders"] : OwnedHere(o)
      BY <2>4 DEF TargetVerdict, MutationAllowed
    <3>2. Mintable(r) BY <2>1, <2>2, <3>1 DEF Mintable, CartKinds, ActionKinds
    <3> QED BY <1>2, <2>4, <3>2 DEF SupportFreeze, Moves
  <2> QED BY <2>3, <2>4
<1> QED BY <1>1, <1>2

LEMMA FillSupportMoves ==
    ASSUME SlotsInv, FillSupport
    PROVE  Dropped \/ \E q : Evolves(q) /\ Moves(q)
<1>1. /\ inv \in Requests /\ RequestKnown(inv) /\ inv.kind \in SupportModelKinds
      /\ WordsKnown /\ recent \subseteq Orders
      /\ inv.kind = "refund_order" => ~Complete(inv)
  BY DEF SlotsInv, SlotsType, Held, FillSupport, SupportModelKinds
<1>2. PICK r : r = Normalized(inv) OBVIOUS
<1>3. Evolves(r) /\ r.selector # "focused" BY <1>1, <1>2, NormalizedEvolves
<1>4. r.kind = inv.kind BY <1>3 DEF Evolves
<1>5. r.kind = "refund_order" => r = inv BY <1>2, <1>4 DEF Normalized
<1>6. CASE Complete(r) /\ SupportFreeze(r, r # inv)
  BY <1>1, <1>3, <1>4, <1>5, <1>6, SupportFreezeMoves
<1>7. CASE Unprepared(r) /\ Blocked(r, r # inv)
  <2>1. r.kind = "refund_order" /\ r.slots["orders"] # Nil BY <1>7 DEF Unprepared
  <2> QED BY <1>1, <1>3, <1>5, <1>7, <2>1, BlockedMoves DEF ActionKinds
<1>8. CASE ~Complete(r) /\ ~Unprepared(r) /\ Awaits("support_model", r)
  BY <1>1, <1>3, <1>4, <1>8 DEF Moves
<1> QED BY <1>2, <1>6, <1>7, <1>8 DEF FillSupport

LEMMA SupportProposeMoves ==
    ASSUME SlotsInv, NEW v \in Offers(Missing(inv)), SupportPropose(v)
    PROVE  Dropped \/ \E q : Evolves(q) /\ Moves(q)
<1>1. /\ inv \in Requests /\ RequestKnown(inv) /\ inv.kind \in SupportModelKinds
      /\ WordsKnown /\ ~Complete(inv) /\ ~Unprepared(inv) /\ inv.selector # "focused"
  BY DEF SlotsInv, Held, StageKnown, SupportPropose
<1>2. CASE Unusable(inv)
  BY <1>1, <1>2, InvEvolves DEF Unusable, Moves, Askable
<1>3. CASE ProposalStated(inv, Missing(inv), v)
  <2>1. PICK r : r = With(inv, Missing(inv), v) OBVIOUS
  <2>2. Evolves(r) BY <1>1, <1>3, <2>1, ProposedEvolves
  <2>3. r.kind = inv.kind BY <2>2 DEF Evolves
  <2>4. r.selector = inv.selector BY <1>1, <2>1 DEF With, Requests
  <2>5. CASE Complete(r) /\ SupportFreeze(r, FALSE)
    <3>1. ASSUME r.kind = "refund_order"
          PROVE  TargetVerdict(r.slots["orders"]) = "authorized"
      <4>1. r.slots["amount"] # Nil /\ r.slots["destination"] # Nil
        BY <2>5, <3>1 DEF Complete, Needs, Filled
      <4>2. \A t \in Slots \ {Missing(inv)} : r.slots[t] = inv.slots[t]
        BY <1>1, <2>1 DEF With, Requests
      <4>3. inv.slots["orders"] # Nil
        <5> SUFFICES ASSUME inv.slots["orders"] = Nil PROVE FALSE OBVIOUS
        <5>1. Missing(inv) = "orders" BY <2>3, <3>1 DEF Missing, Needs, Filled
        <5>2. inv.slots["amount"] = Nil BY <1>1 DEF RequestKnown
        <5> QED BY <4>1, <4>2, <5>1, <5>2 DEF Slots
      <4>4. Missing(inv) # "orders" BY <4>3 DEF Missing, Filled, Slots
      <4>5. r.slots["orders"] = inv.slots["orders"] BY <4>2, <4>4 DEF Slots
      <4> QED BY <1>1, <2>3, <3>1, <4>3, <4>5 DEF Unprepared
    <3> QED BY <1>1, <2>2, <2>3, <2>4, <2>5, <3>1, SupportFreezeMoves
  <2>6. CASE ~Complete(r) /\ Unprepared(r) /\ Blocked(r, FALSE)
    <3>1. r.kind \in ActionKinds /\ r.slots["orders"] # Nil
      BY <2>6 DEF Unprepared, ActionKinds
    <3> QED BY <1>1, <2>2, <2>4, <2>6, <3>1, BlockedMoves
  <2>7. CASE ~Complete(r) /\ Asked(r)
    BY <1>1, <2>2, <2>3, <2>7 DEF Moves, Askable
  <2> QED BY <1>3, <2>1, <2>5, <2>6, <2>7 DEF SupportPropose
<1> QED BY <1>2, <1>3 DEF SupportPropose

(* The model asks, leaves, or sends something unusable.                     *)
LEMMA ModelMoves ==
    ASSUME SlotsInv,
           \/ \E m \in {"cart_model", "support_model"} : ModelAsks(m) \/ ModelLeaves(m)
           \/ SupportUnexpected
    PROVE  Dropped \/ \E q : Evolves(q) /\ Moves(q)
<1>1. CASE Dropped BY <1>1
<1>2. CASE /\ stage \in {"cart_model", "support_model"} /\ (Asked(inv) \/ Unusable(inv))
  <2>1. /\ inv \in Requests /\ RequestKnown(inv) /\ ~Complete(inv)
        /\ inv.kind \in CartKinds \cup SupportModelKinds
    BY <1>2 DEF SlotsInv, Held, StageKnown
  <2> QED BY <1>2, <2>1, InvEvolves DEF Unusable, Moves, Askable
<1> QED BY <1>1, <1>2 DEF ModelAsks, ModelLeaves, SupportUnexpected


-----------------------------------------------------------------------------
(* Order reads.                                                             *)

ReadMoves(r) ==
    \/ Dropped /\ UNCHANGED <<granted, recent>>
    \/ KeepsRequest(r) /\ UNCHANGED <<granted, recent>>
    \/ /\ Tells(r) /\ granted' \subseteq Orders /\ Targets(r) \subseteq Orders
       /\ r.selector = "explicit" => r.sure
       /\ r.kind = "read_order_total" => \A o \in Targets(r) : OwnedHere(o)
    \/ /\ stage' = "confirm" /\ inv' = r /\ r.slots["orders"] # Nil
       /\ UNCHANGED <<now, said, shown, attempt, asks, frozen, told, granted, recent, progress>>

LEMMA TargetsAreOrders ==
    ASSUME NEW r, RequestKnown(r), r.kind \in ReadKinds, recent \subseteq Orders,
           r.selector = "explicit" => r.slots["orders"] # Nil
    PROVE  Targets(r) \subseteq Orders
<1>1. r.selector = "focused" => Focus \in recent BY DEF RequestKnown, Focus
<1> QED BY <1>1 DEF Targets, RequestKnown

LEMMA AnswersMoves ==
    ASSUME NEW r, RequestKnown(r), r.kind \in ReadKinds, recent \subseteq Orders,
           granted \subseteq Orders, r.selector = "explicit" => r.sure, Answers(r)
    PROVE  ReadMoves(r)
<1>1. Targets(r) \subseteq Orders BY TargetsAreOrders DEF RequestKnown
<1>2. CASE r.kind = "read_order_total"
  <2>1. CASE (\A o \in Targets(r) : MutationAllowed(o)) /\ Tells(r) /\ UNCHANGED granted
    BY <1>1, <2>1 DEF ReadMoves, MutationAllowed
  <2>2. CASE Dropped /\ UNCHANGED recent /\ UNCHANGED granted
    BY <2>2 DEF ReadMoves
  <2> QED BY <1>2, <2>1, <2>2 DEF Answers
<1>3. CASE r.kind # "read_order_total"
  <2>1. PICK closed : closed = {o \in Targets(r) : ~ReadAllowed(o)} OBVIOUS
  <2>2. closed \subseteq Orders BY <1>1, <2>1
  <2>3. CASE Tells(r) /\ UNCHANGED granted BY <1>1, <1>3, <2>3 DEF ReadMoves
  <2>4. CASE KeepsRequest(r) /\ UNCHANGED <<granted, recent>> BY <2>4 DEF ReadMoves
  <2>5. CASE granted' = granted \cup closed /\ Tells(r) BY <1>1, <1>3, <2>2, <2>5 DEF ReadMoves
  <2>6. CASE Dropped /\ UNCHANGED <<granted, recent>> BY <2>6 DEF ReadMoves
  <2> QED BY <1>3, <2>1, <2>3, <2>4, <2>5, <2>6 DEF Answers
<1> QED BY <1>2, <1>3

(* The source turn of an explicit target is remembered, and makes it sure   *)
(* when it states exactly that target.                                      *)
LEMMA SourceEvolves ==
    ASSUME NEW r, Evolves(r), r.slots["orders"] # Nil, NEW source \in SUBSET Orders,
           source \subseteq Stated(said, "orders")
    PROVE  /\ Evolves([r EXCEPT !.source = source])
           /\ source = r.slots["orders"] => Evolves([r EXCEPT !.sure = TRUE, !.source = source])
<1>1. r \in Requests BY DEF Evolves
<1>2. PICK q : q = [r EXCEPT !.source = source] OBVIOUS
<1>3. /\ q \in Requests /\ q.kind = r.kind /\ q.opened = r.opened /\ q.selector = r.selector
      /\ q.sure = r.sure /\ q.slots = r.slots /\ q.source = source
  BY <1>1, <1>2 DEF Requests
<1>4. RequestKnown(q) BY <1>3 DEF Evolves, RequestKnown, Filled
<1>5. Evolves(q) BY <1>3, <1>4 DEF Evolves
<1>6. ASSUME source = r.slots["orders"]
      PROVE  Evolves([r EXCEPT !.sure = TRUE, !.source = source])
  <2>1. PICK w : w = [r EXCEPT !.sure = TRUE, !.source = source] OBVIOUS
  <2>2. /\ w \in Requests /\ w.kind = r.kind /\ w.opened = r.opened /\ w.selector = r.selector
        /\ w.sure = TRUE /\ w.slots = r.slots /\ w.source = source
    BY <1>1, <2>1 DEF Requests
  <2>3. RequestKnown(w) BY <1>6, <2>2 DEF Evolves, RequestKnown, Filled
  <2> QED BY <2>1, <2>2, <2>3 DEF Evolves
<1> QED BY <1>2, <1>5, <1>6

LEMMA FulfillMoves ==
    ASSUME NEW r, Evolves(r), r.kind \in ReadKinds, recent \subseteq Orders,
           granted \subseteq Orders, WordsKnown,
           r.selector = "explicit" => r.slots["orders"] # Nil, Fulfill(r)
    PROVE  \E q : Evolves(q) /\ q.kind \in ReadKinds /\ ReadMoves(q)
<1>0. RequestKnown(r) /\ r \in Requests BY DEF Evolves
<1>1. CASE Dropped /\ UNCHANGED <<granted, recent>> BY <1>1 DEF ReadMoves
<1>2. CASE (r.selector # "explicit" \/ r.sure) /\ Answers(r) BY <1>0, <1>2, AnswersMoves
<1>3. CASE r.selector = "explicit"
  <2>1. PICK source : source = IF r.source = Nil THEN Stated(now, "orders") ELSE r.source
    OBVIOUS
  <2>2. Stated(now, "orders") \subseteq Stated(said, "orders") BY StatedGrows DEF WordsKnown
  <2>3. source \subseteq Stated(said, "orders") /\ source \in SUBSET Orders
    BY <1>0, <2>1, <2>2 DEF RequestKnown, WordsKnown
  <2>4. CASE source = r.slots["orders"] /\ Answers([r EXCEPT !.sure = TRUE, !.source = source])
    <3>1. PICK q : q = [r EXCEPT !.sure = TRUE, !.source = source] OBVIOUS
    <3>2. Evolves(q) BY <1>3, <2>3, <2>4, <3>1, SourceEvolves
    <3>3. q.kind = r.kind /\ q.sure BY <1>0, <3>1 DEF Requests
    <3>4. RequestKnown(q) BY <3>2 DEF Evolves
    <3>5. ReadMoves(q) BY <2>4, <3>1, <3>3, <3>4, AnswersMoves
    <3> QED BY <3>2, <3>3, <3>5
  <2>5. CASE /\ stage' = "confirm" /\ inv' = [r EXCEPT !.source = source]
             /\ UNCHANGED <<now, said, shown, attempt>>
             /\ UNCHANGED <<asks, frozen, told, granted, recent, progress>>
    <3>1. PICK q : q = [r EXCEPT !.source = source] OBVIOUS
    <3>2. Evolves(q) BY <1>3, <2>3, <3>1, SourceEvolves
    <3>3. q.kind = r.kind /\ q.slots = r.slots BY <1>0, <3>1 DEF Requests
    <3>4. ReadMoves(q) BY <1>3, <2>5, <3>1, <3>3 DEF ReadMoves
    <3> QED BY <3>2, <3>3, <3>4
  <2> QED BY <1>1, <1>2, <1>3, <2>1, <2>4, <2>5 DEF Fulfill
<1> QED BY <1>1, <1>2, <1>3 DEF Fulfill

LEMMA ReadEntryMoves ==
    ASSUME SlotsInv, NEW proposed \in SUBSET Orders, ReadEntry(proposed)
    PROVE  \E q : Evolves(q) /\ q.kind \in ReadKinds /\ ReadMoves(q)
<1>1. /\ inv \in Requests /\ RequestKnown(inv) /\ inv.kind \in ReadKinds
      /\ WordsKnown /\ recent \subseteq Orders /\ granted \subseteq Orders
  BY DEF SlotsInv, SlotsType, Held, ReadEntry
<1>2. Evolves(inv) BY <1>1, InvEvolves
<1>3. CASE KeepsRequest(inv) /\ UNCHANGED <<granted, recent>> BY <1>1, <1>2, <1>3 DEF ReadMoves
<1>4. CASE (inv.selector = "explicit" => inv.slots["orders"] # Nil) /\ Fulfill(inv)
  BY <1>1, <1>2, <1>4, FulfillMoves
<1>5. CASE inv.slots["orders"] = Nil /\ Fulfill(With(inv, "orders", proposed))
           /\ inv.selector = "explicit"
  <2>1. PICK r : r = With(inv, "orders", proposed) OBVIOUS
  <2>2. proposed \in Values /\ "orders" \in Slots /\ proposed # Nil
    BY SlotsAssumption DEF Values, Slots
  <2>3. /\ r \in Requests /\ r.kind = inv.kind /\ r.opened = inv.opened
        /\ r.selector = inv.selector /\ r.sure = inv.sure /\ r.source = inv.source
        /\ r.slots["orders"] = proposed
        /\ \A t \in Slots \ {"orders"} : r.slots[t] = inv.slots[t]
    BY <1>1, <2>1, <2>2, WithFacts
  <2>4. Filled(r) \subseteq Needs(r.kind)
    BY <1>1, <2>3 DEF RequestKnown, Filled, Needs, ReadKinds
  <2>5. inv.kind \notin ActionKinds /\ ~inv.sure
    BY <1>1, <1>5 DEF RequestKnown, ReadKinds, ActionKinds
  <2>6. RequestKnown(r)
    BY <1>1, <1>5, <2>2, <2>3, <2>4, <2>5 DEF RequestKnown, Slots, SpokenSlots, ActionKinds
  <2>7. Evolves(r) BY <1>5, <2>3, <2>6 DEF Evolves
  <2> QED BY <1>1, <1>5, <2>1, <2>2, <2>3, <2>7, FulfillMoves
<1> QED BY <1>3, <1>4, <1>5 DEF ReadEntry


-----------------------------------------------------------------------------
(* The invariant is kept.                                                   *)

(* The merchant's policy does not change while a session lasts.             *)
LEMMA PolicyStays ==
    ASSUME UNCHANGED quantitySource
    PROVE  SpokenSlots' = SpokenSlots
BY DEF SpokenSlots, Guarded

(* A request stays known while the caller says more and the focus stands.   *)
LEMMA KnownStays ==
    ASSUME UNCHANGED quantitySource, NEW r, r \in Requests, RequestKnown(r),
           inv' = r, said \subseteq said', requests' \in Nat,
           requests \in Nat, requests <= requests', recent' = recent
    PROVE  RequestKnown(inv)'
<1>1. \A s : Stated(said, s) \subseteq Stated(said', s) BY StatedGrows
<1>2. Focus' = Focus BY DEF Focus
<1>3. r.opened \in Nat BY DEF Requests
<1>4. Filled(inv)' = Filled(r) BY DEF Filled
<1>5. \A s : Stated(said, s)' = Stated(said', s) BY DEF Stated
<1>6. SpokenSlots' = SpokenSlots BY PolicyStays
<1> QED BY <1>1, <1>2, <1>3, <1>4, <1>5, <1>6 DEF RequestKnown

(* A request that is kept open needs no more than this.                     *)
LEMMA SlotsInvStep ==
    ASSUME SlotsInv, SlotsType', WordsKnown', StageKnown',
           Held' => inv' \in Requests /\ RequestKnown(inv)'
                    /\ (inv'.kind = "refund_order" => ~Complete(inv)'),
           FrozenKnown', ToldKnown'
    PROVE  SlotsInv'
BY DEF SlotsInv

LEMMA DroppedInv ==
    ASSUME SlotsInv, Dropped, stage \notin {"idle", "frozen"},
           turn' \in Nat, requests' \in Nat, mine' \subseteq Orders, granted' \subseteq Orders,
           recent' \subseteq Orders, cart' \subseteq Items, shelf' \subseteq Items
    PROVE  SlotsInv'
<1>1. frozen' = Nil /\ told' = Nil BY DEF SlotsInv, StageKnown, Dropped
<1>2. SlotsType'
  BY DEF SlotsInv, SlotsType, Dropped, Ends, NoProgress, Stages
<1>3. WordsKnown' BY DEF Dropped, Ends, WordsKnown, Stated
<1> QED BY <1>1, <1>2, <1>3
  DEF SlotsInv, Dropped, Ends, StageKnown, FrozenKnown, ToldKnown, Held

LEMMA MovesInv ==
    ASSUME SlotsInv, stage \in {"entry", "cart_model", "support_model"}, Held,
           NEW r, Evolves(r), Moves(r), UNCHANGED <<turn, requests, caller, recent, goods>>,
           UNCHANGED quantitySource
    PROVE  SlotsInv'
<1>1. /\ frozen = Nil /\ told = Nil
      /\ SlotsType /\ WordsKnown
      /\ r \in Requests /\ RequestKnown(r)
  BY DEF SlotsInv, StageKnown, Evolves
<1>2. Filled(r) \subseteq Slots /\ Domain(r) \subseteq Items
  BY <1>1 DEF Filled, Domain, SlotsType
<1>3. UNCHANGED <<turn, requests, mine, principal, granted, recent, cart, shelf>>
  BY DEF caller, goods
<1>4. said' = said /\ told' = Nil /\ (now' = now \/ now' = {})
  BY <1>1 DEF Moves, Asked, Awaits, Minted, EnterIdentity, Ends
<1>5. WordsKnown' BY <1>1, <1>4 DEF WordsKnown, Stated
<1>6. ToldKnown' BY <1>4 DEF ToldKnown
<1>7. SlotsType' /\ (Held' => inv' = r \/ inv' = Nil)
  <2>1. CASE Asked(r)
    BY <1>1, <1>2, <1>3, <2>1 DEF SlotsType, Asked, Ends, Stages, Held
  <2>2. CASE Awaits("cart_model", r) \/ Awaits("support_model", r)
    BY <1>1, <1>2, <1>3, <2>2 DEF SlotsType, Awaits, Stages, Held
  <2>3. CASE Minted(r)
    BY <1>1, <1>2, <1>3, <2>3 DEF SlotsType, Minted, Stages, Held, NoProgress
  <2>4. CASE EnterIdentity(r)
    BY <1>1, <1>2, <1>3, <2>4 DEF SlotsType, EnterIdentity, Stages, Held
  <2>5. CASE r = inv /\ UNCHANGED <<stage, inv, now, said, shown, asks, frozen, told, progress>>
    BY <1>1, <1>2, <1>3, <2>5 DEF SlotsType
  <2> QED BY <2>1, <2>2, <2>3, <2>4, <2>5 DEF Moves
<1>8. ASSUME inv' = r PROVE RequestKnown(inv)'
  BY <1>1, <1>3, <1>4, <1>8, KnownStays DEF SlotsType
<1>9. ASSUME inv' = r PROVE Complete(inv)' = Complete(r)
  BY <1>9 DEF Complete, Filled
<1>10. ASSUME inv' = r PROVE Unprepared(inv)' = Unprepared(r)
  BY <1>3, <1>10 DEF Unprepared, TargetVerdict, MutationAllowed, OwnedHere
<1>11. \A s : Stated(said, s)' = Stated(said, s) BY <1>4 DEF Stated
<1>12. CASE Asked(r) /\ Askable(r)
  <2>1. stage' = "idle" /\ frozen' = Nil /\ (inv' = Nil \/ inv' = r)
    BY <1>1, <1>12 DEF Asked, Ends
  <2>2. StageKnown' /\ FrozenKnown'
    BY <1>4, <2>1 DEF StageKnown, FrozenKnown
  <2>3. Held' => inv' = r BY <2>1 DEF Held
  <2>4. r.kind = "refund_order" => ~Complete(r) BY <1>12 DEF Askable
  <2> QED BY <1>1, <1>5, <1>6, <1>7, <1>8, <1>9, <2>2, <2>3, <2>4, SlotsInvStep
<1>13. CASE Awaits("cart_model", r) /\ r.kind \in CartKinds /\ ~Complete(r)
  <2>1. stage' = "cart_model" /\ frozen' = Nil /\ inv' = r
    BY <1>1, <1>13 DEF Awaits
  <2>2. StageKnown' /\ FrozenKnown'
    BY <1>4, <1>9, <1>13, <2>1 DEF StageKnown, FrozenKnown
  <2> QED BY <1>1, <1>5, <1>6, <1>7, <1>8, <1>9, <1>13, <2>1, <2>2, SlotsInvStep
<1>14. CASE /\ Awaits("support_model", r)
            /\ r.kind \in SupportModelKinds /\ ~Complete(r) /\ ~Unprepared(r)
            /\ r.selector # "focused"
  <2>1. stage' = "support_model" /\ frozen' = Nil /\ inv' = r
    BY <1>1, <1>14 DEF Awaits
  <2>2. StageKnown' /\ FrozenKnown'
    BY <1>4, <1>9, <1>10, <1>14, <2>1 DEF StageKnown, FrozenKnown
  <2> QED BY <1>1, <1>5, <1>6, <1>7, <1>8, <1>9, <1>14, <2>1, <2>2, SlotsInvStep
<1>15. CASE Minted(r) /\ Mintable(r)
  <2>1. stage' = "frozen" /\ inv' = Nil /\ now' = {} /\ frozen' = [kind |-> r.kind, slots |-> r.slots]
    BY <1>15 DEF Minted
  <2>2. StageKnown' BY <1>4, <2>1 DEF StageKnown
  <2>3. FrozenKnown'
    <3>1. PICK f : f = [kind |-> r.kind, slots |-> r.slots] OBVIOUS
    <3>2. f \in [kind : Kinds, slots : [Slots -> Values]] /\ f.kind = r.kind /\ f.slots = r.slots
      BY <1>1, <3>1 DEF Requests
    <3>3. Focus' = Focus BY <1>3 DEF Focus
    <3>4. \A o : OwnedHere(o)' = OwnedHere(o) BY <1>3 DEF OwnedHere
    <3>5. SpokenSlots' = SpokenSlots BY PolicyStays
    <3> QED BY <1>1, <1>3, <1>11, <1>15, <2>1, <3>1, <3>2, <3>3, <3>4, <3>5
          DEF FrozenKnown, Mintable, Offered, RequestKnown
  <2>4. ~Held' BY <2>1 DEF Held
  <2> QED BY <1>5, <1>6, <1>7, <2>2, <2>3, <2>4, SlotsInvStep
<1>16. CASE /\ EnterIdentity(r) /\ r.selector # "focused"
            /\ r.kind = "refund_order" => ~Complete(r)
            /\ r.kind \in ActionKinds =>
                 r.slots["orders"] # Nil /\ r.slots["orders"] \subseteq Stated(said, "orders")
  <2>1. stage' = "identity" /\ frozen' = Nil /\ inv' = r
    BY <1>1, <1>16 DEF EnterIdentity
  <2>2. StageKnown' /\ FrozenKnown'
    BY <1>4, <1>11, <1>16, <2>1 DEF StageKnown, FrozenKnown
  <2> QED BY <1>1, <1>5, <1>6, <1>7, <1>8, <1>9, <1>16, <2>1, <2>2, SlotsInvStep
<1>17. CASE /\ r = inv /\ attempt' = 2
            /\ UNCHANGED <<stage, inv, now, said, shown, asks, frozen, told, progress>>
  <2>1. StageKnown' /\ FrozenKnown'
    <3>1. /\ Complete(inv)' = Complete(inv) /\ Unprepared(inv)' = Unprepared(inv)
      BY <1>9, <1>10, <1>17
    <3>2. SpokenSlots' = SpokenSlots BY PolicyStays
    <3> QED BY <1>1, <1>3, <1>11, <1>17, <3>1, <3>2 DEF SlotsInv, StageKnown, FrozenKnown
  <2>2. inv.kind = "refund_order" => ~Complete(inv) BY DEF SlotsInv
  <2> QED BY <1>1, <1>5, <1>6, <1>7, <1>8, <1>9, <1>17, <2>1, <2>2, SlotsInvStep
<1> QED BY <1>12, <1>13, <1>14, <1>15, <1>16, <1>17 DEF Moves


Stands(r) ==
    /\ r \in Requests /\ r.kind = inv.kind /\ r.opened = inv.opened
    /\ \A s \in Slots : inv.slots[s] # Nil =>
          \/ r.slots[s] = inv.slots[s]
          \/ s = "item" /\ r.slots[s] = Nil /\ inv.slots[s] \notin Offered(inv.kind)

LEMMA EvolvesStands ==
    ASSUME NEW r, Evolves(r)
    PROVE  Stands(r)
BY DEF Evolves, Stands

(* What a step does to the open request and to its questions.               *)
StepEffect ==
    \/ /\ inv' = Nil /\ ~Held' /\ progress' \in {progress, NoProgress}
    \/ /\ Held' /\ asks' = 0 /\ progress' = NoProgress
       /\ inv # Nil => inv'.opened > inv.opened
    \/ /\ Held /\ asks' \in {0, asks} /\ progress' = progress
       /\ \E r : Stands(r) /\ inv' = r
    \/ /\ Held /\ \E r : Evolves(r) /\ Askable(r) /\ Asked(r)
    \/ /\ UNCHANGED <<inv, asks, progress, stage>>

LEMMA MovesEffect ==
    ASSUME Held, NEW r, Evolves(r), Moves(r)
    PROVE  StepEffect
BY EvolvesStands DEF Moves, StepEffect, Awaits, Minted, EnterIdentity, Held

LEMMA DroppedEffect ==
    ASSUME Dropped
    PROVE  StepEffect
BY DEF Dropped, Ends, StepEffect, Held

LEMMA OpenStep ==
    ASSUME SlotsInv, NEW k \in Kinds, NEW sel \in Selectors(k), NEW u \in Utterances(k),
           Open(k, sel, u), UNCHANGED quantitySource
    PROVE  SlotsInv' /\ StepEffect
<1>1. PICK r : r = Fresh(k, sel) OBVIOUS
<1>2. /\ SlotsType /\ stage = "idle" /\ frozen = Nil
  BY DEF SlotsInv, StageKnown, Open
<1>3. /\ inv' = r /\ turn' = turn + 1 /\ requests' = requests + 1 /\ now' = u /\ said' = u
      /\ stage' = "entry" /\ asks' = 0 /\ told' = Nil /\ progress' = NoProgress
      /\ UNCHANGED <<shown, frozen, principal, mine, granted, recent, cart, shelf>>
  BY <1>1 DEF Open, caller, goods
<1>4. Nil \in Values /\ sel \in {"explicit", "offer", "focused", "recent", "account"}
  BY DEF Values, Selectors
<1>5. /\ r \in Requests /\ r.kind = k /\ r.opened = requests + 1 /\ r.selector = sel
      /\ r.sure = FALSE /\ r.source = Nil /\ \A s \in Slots : r.slots[s] = Nil
  <2>1. requests + 1 \in Nat BY <1>2 DEF SlotsType
  <2>2. PICK f : f = [s \in Slots |-> Nil] OBVIOUS
  <2>3. f \in [Slots -> Values] /\ \A s \in Slots : f[s] = Nil BY <1>4, <2>2
  <2>4. r = [kind |-> k, opened |-> requests + 1, selector |-> sel, slots |-> f,
             sure |-> FALSE, source |-> Nil]
    BY <1>1, <2>2 DEF Fresh
  <2> QED BY <1>4, <2>1, <2>3, <2>4 DEF Requests
<1>6. SlotsType'
  BY <1>2, <1>3, <1>5 DEF SlotsType, Stages, NoProgress
<1>7. WordsKnown'
  <2>1. Stated(said, "orders")' = Stated(u, "orders")
        /\ Stated(said, "quantity")' = Stated(u, "quantity")
    BY <1>3 DEF Stated
  <2> QED BY <1>3, <2>1, UtterancesTyped DEF WordsKnown
<1>8. Filled(r) = {} BY <1>5 DEF Filled
<1>9. RequestKnown(inv)'
  <2>1. Focus' = Focus BY <1>3 DEF Focus
  <2>2. sel = "focused" => Focus # Nil /\ k \in ReadKinds \cup {"cancel_orders"}
    BY DEF Selectors
  <2>3. k \in ReadKinds => sel \in {"explicit", "focused", "recent"}
    BY DEF Selectors, ReadKinds
  <2>4. Filled(inv)' = {} BY <1>3, <1>8 DEF Filled
  <2>5. r.opened <= requests' BY <1>2, <1>3, <1>5 DEF SlotsType
  <2> QED BY <1>3, <1>5, <2>1, <2>2, <2>3, <2>4, <2>5 DEF RequestKnown, Slots, SpokenSlots
<1>10. inv'.kind = "refund_order" => ~Complete(inv)'
  BY <1>3, <1>5, <1>8 DEF Complete, Needs, Filled
<1>11. StageKnown' /\ FrozenKnown' /\ ToldKnown'
  BY <1>2, <1>3 DEF StageKnown, FrozenKnown, ToldKnown
<1>12. SlotsInv' BY <1>3, <1>5, <1>6, <1>7, <1>9, <1>10, <1>11, SlotsInvStep
<1>13. StepEffect
  <2>1. inv # Nil => inv.opened \in Nat /\ inv.opened <= requests
    BY <1>2 DEF SlotsInv, Held, RequestKnown, Requests
  <2>2. inv # Nil => inv'.opened > inv.opened BY <1>2, <1>3, <1>5, <2>1 DEF SlotsType
  <2>3. CASE inv' = Nil BY <1>3, <2>3 DEF StepEffect, Held
  <2>4. CASE inv' # Nil BY <1>3, <2>2, <2>4 DEF StepEffect, Held
  <2> QED BY <2>3, <2>4
<1> QED BY <1>12, <1>13

LEMMA ContinueStep ==
    ASSUME SlotsInv, inv # Nil, NEW u \in Utterances(inv.kind), Continue(u), UNCHANGED quantitySource
    PROVE  SlotsInv' /\ StepEffect
<1>1. /\ SlotsType /\ WordsKnown /\ stage = "idle" /\ frozen = Nil /\ told = Nil /\ Held
      /\ inv \in Requests /\ RequestKnown(inv)
      /\ inv.kind = "refund_order" => ~Complete(inv)
  BY DEF SlotsInv, StageKnown, Continue, Held
<1>2. /\ turn' = turn + 1 /\ now' = u /\ said' = said \cup u /\ stage' = "entry"
      /\ UNCHANGED <<requests, inv, shown, asks, frozen, told, principal, mine, granted, recent,
                     cart, shelf, progress>>
  BY DEF Continue, caller, goods
<1>3. PICK r : r = inv OBVIOUS
<1>4. RequestKnown(inv)'
  <2>1. RequestKnown(r) /\ r \in Requests /\ inv' = r BY <1>1, <1>2, <1>3
  <2> QED BY <1>1, <1>2, <2>1, KnownStays DEF SlotsType
<1>5. SlotsType' BY <1>1, <1>2 DEF SlotsType, Stages
<1>6. WordsKnown'
  <2>1. inv.kind \in Kinds BY <1>1 DEF Requests
  <2>2. Stated(said \cup u, "orders") \subseteq Orders
        /\ Stated(said \cup u, "quantity") \subseteq Quantities
    BY <1>1, <2>1, UtterancesTyped, StatedUnion DEF WordsKnown
  <2> QED BY <1>2, <2>2 DEF WordsKnown, Stated
<1>7. Complete(inv)' = Complete(inv) BY <1>2 DEF Complete, Filled
<1>8. StageKnown' /\ FrozenKnown' /\ ToldKnown'
  BY <1>1, <1>2 DEF StageKnown, FrozenKnown, ToldKnown
<1>9. SlotsInv' BY <1>1, <1>2, <1>4, <1>5, <1>6, <1>7, <1>8, SlotsInvStep
<1>10. StepEffect
  BY <1>1, <1>2, <1>3, InvEvolves, EvolvesStands DEF StepEffect
<1> QED BY <1>9, <1>10

LEMMA DelistStep ==
    ASSUME SlotsInv, NEW i \in Items, Delist(i), UNCHANGED quantitySource
    PROVE  SlotsInv' /\ StepEffect
<1>1. /\ stage \in {"idle", "entry", "cart_model"} /\ shelf' = shelf \ {i}
      /\ UNCHANGED <<turn, requests, stage, inv, now, shown, said, asks, frozen, told,
                     principal, mine, granted, recent, cart, progress>>
  BY DEF Delist, local, caller
<1>2. SlotsType' /\ WordsKnown'
  BY <1>1 DEF SlotsInv, SlotsType, WordsKnown, Stated
<1>3. /\ Complete(inv)' = Complete(inv) /\ RequestKnown(inv)' = RequestKnown(inv)
      /\ Held' = Held
  BY <1>1, PolicyStays DEF Complete, Filled, RequestKnown, Stated, Focus, Held
<1>4. StageKnown' /\ FrozenKnown' /\ ToldKnown'
  BY <1>1, <1>3, PolicyStays DEF SlotsInv, StageKnown, FrozenKnown, ToldKnown, Stated, OwnedHere
<1>5. SlotsInv' BY <1>1, <1>2, <1>3, <1>4 DEF SlotsInv
<1> QED BY <1>1, <1>5 DEF StepEffect

LEMMA MoveStep ==
    ASSUME SlotsInv, Held, stage \in {"entry", "cart_model", "support_model"},
           Dropped \/ \E q : Evolves(q) /\ Moves(q),
           UNCHANGED <<turn, requests, caller, recent, goods>>, UNCHANGED quantitySource
    PROVE  SlotsInv' /\ StepEffect
<1>1. CASE Dropped
  <2>1. SlotsInv'
    BY <1>1, DroppedInv DEF SlotsInv, SlotsType, caller, goods
  <2> QED BY <1>1, <2>1, DroppedEffect
<1>2. ASSUME NEW q, Evolves(q), Moves(q) PROVE SlotsInv' /\ StepEffect
  BY <1>2, MovesInv, MovesEffect
<1> QED BY <1>1, <1>2

LEMMA ListOrdersStep ==
    ASSUME SlotsInv, ListOrders, UNCHANGED quantitySource
    PROVE  SlotsInv' /\ StepEffect
<1>1. /\ stage = "entry" /\ Held /\ inv \in Requests /\ RequestKnown(inv)
      /\ inv.kind = "list_orders"
  BY DEF SlotsInv, ListOrders, Held
<1>2. CASE Dropped /\ recent' \subseteq Orders
  <2>1. SlotsInv'
    BY <1>1, <1>2, DroppedInv DEF SlotsInv, SlotsType, ListOrders, caller, goods
  <2> QED BY <1>2, <2>1, DroppedEffect
<1>3. CASE inv.selector = "account" /\ EnterIdentity(inv) /\ UNCHANGED recent
  <2>1. Evolves(inv) BY <1>1, InvEvolves
  <2>2. Moves(inv) BY <1>1, <1>3 DEF Moves, ActionKinds
  <2> QED BY <1>1, <1>3, <2>1, <2>2, MoveStep DEF ListOrders
<1>4. recent' \subseteq Orders \/ UNCHANGED recent
  BY DEF ListOrders, SlotsInv, SlotsType
<1> QED BY <1>2, <1>3, <1>4 DEF ListOrders, SlotsInv, SlotsType


LEMMA ReadEntryStep ==
    ASSUME SlotsInv, NEW proposed \in SUBSET Orders, ReadEntry(proposed), UNCHANGED quantitySource
    PROVE  SlotsInv' /\ StepEffect
<1>1. PICK r : Evolves(r) /\ r.kind \in ReadKinds /\ ReadMoves(r) BY ReadEntryMoves
<1>2. /\ SlotsType /\ WordsKnown /\ stage = "entry" /\ frozen = Nil /\ told = Nil /\ Held
      /\ UNCHANGED <<turn, requests, principal, mine, cart, shelf>>
  BY DEF SlotsInv, StageKnown, ReadEntry, Held, goods
<1>3. r \in Requests /\ RequestKnown(r) BY <1>1 DEF Evolves
<1>4. r.kind # "refund_order" BY <1>1 DEF ReadKinds
<1>5. CASE Dropped /\ UNCHANGED <<granted, recent>>
  <2>1. SlotsInv' BY <1>2, <1>5, DroppedInv DEF SlotsType
  <2> QED BY <1>5, <2>1, DroppedEffect
<1>6. CASE KeepsRequest(r) /\ UNCHANGED <<granted, recent>>
  <2>1. /\ stage' = "idle" /\ now' = {} /\ shown' = {} /\ inv' = r
        /\ UNCHANGED <<said, asks, frozen, told, progress, granted, recent>>
    BY <1>6 DEF KeepsRequest, Ends
  <2>2. SlotsType' BY <1>2, <1>3, <2>1 DEF SlotsType, Stages
  <2>3. WordsKnown' BY <1>2, <2>1 DEF WordsKnown, Stated
  <2>4. RequestKnown(inv)' BY <1>2, <1>3, <2>1, KnownStays DEF SlotsType
  <2>5. StageKnown' /\ FrozenKnown' /\ ToldKnown'
    BY <1>2, <2>1 DEF StageKnown, FrozenKnown, ToldKnown
  <2>6. SlotsInv' BY <1>3, <1>4, <2>1, <2>2, <2>3, <2>4, <2>5, SlotsInvStep
  <2>7. StepEffect BY <1>1, <1>2, <2>1, EvolvesStands DEF StepEffect
  <2> QED BY <2>6, <2>7
<1>7. CASE /\ Tells(r) /\ granted' \subseteq Orders /\ Targets(r) \subseteq Orders
           /\ r.selector = "explicit" => r.sure
           /\ r.kind = "read_order_total" => \A o \in Targets(r) : OwnedHere(o)
  <2>1. PICK targets : targets = Targets(r) OBVIOUS
  <2>2. /\ stage' = "idle" /\ now' = {} /\ shown' = {} /\ inv' = Nil /\ recent' = targets
        /\ told' = [kind |-> r.kind, orders |-> targets, explicit |-> r.selector = "explicit"]
        /\ UNCHANGED <<said, asks, frozen, progress>>
    BY <1>7, <2>1 DEF Tells, Ends
  <2>3. SlotsType' BY <1>2, <1>7, <2>1, <2>2 DEF SlotsType, Stages
  <2>4. WordsKnown' BY <1>2, <2>2 DEF WordsKnown, Stated
  <2>5. ~Held' BY <2>2 DEF Held
  <2>6. StageKnown' /\ FrozenKnown' BY <1>2, <2>2 DEF StageKnown, FrozenKnown
  <2>7. ToldKnown'
    <3>1. r.selector = "explicit" => targets = r.slots["orders"] BY <2>1 DEF Targets
    <3>2. \A s : Stated(said, s)' = Stated(said, s) BY <2>2 DEF Stated
    <3>3. \A o : OwnedHere(o)' = OwnedHere(o) BY <1>2 DEF OwnedHere
    <3> QED BY <1>3, <1>7, <2>1, <2>2, <3>1, <3>2, <3>3 DEF ToldKnown, RequestKnown
  <2>8. SlotsInv' BY <2>3, <2>4, <2>5, <2>6, <2>7, SlotsInvStep
  <2>9. StepEffect BY <2>2, <2>5 DEF StepEffect
  <2> QED BY <2>8, <2>9
<1>8. CASE /\ stage' = "confirm" /\ inv' = r /\ r.slots["orders"] # Nil
           /\ UNCHANGED <<now, said, shown, attempt, asks, frozen, told, granted, recent, progress>>
  <2>1. SlotsType' BY <1>2, <1>3, <1>8 DEF SlotsType, Stages
  <2>2. WordsKnown' BY <1>2, <1>8 DEF WordsKnown, Stated
  <2>3. RequestKnown(inv)' BY <1>2, <1>3, <1>8, KnownStays DEF SlotsType
  <2>4. StageKnown' /\ FrozenKnown' /\ ToldKnown'
    BY <1>1, <1>2, <1>8 DEF StageKnown, FrozenKnown, ToldKnown
  <2>5. SlotsInv' BY <1>3, <1>4, <1>8, <2>1, <2>2, <2>3, <2>4, SlotsInvStep
  <2>6. StepEffect BY <1>1, <1>2, <1>8, EvolvesStands DEF StepEffect
  <2> QED BY <2>5, <2>6
<1> QED BY <1>1, <1>5, <1>6, <1>7, <1>8 DEF ReadMoves

LEMMA ReadConfirmStep ==
    ASSUME SlotsInv, NEW yes \in BOOLEAN, ReadConfirm(yes), UNCHANGED quantitySource
    PROVE  SlotsInv' /\ StepEffect
<1>1. /\ SlotsType /\ WordsKnown /\ stage = "confirm" /\ frozen = Nil /\ told = Nil /\ Held
      /\ inv \in Requests /\ RequestKnown(inv) /\ inv.kind \in ReadKinds
      /\ inv.slots["orders"] # Nil
      /\ turn' = turn + 1 /\ UNCHANGED <<requests, principal, mine, granted, recent, cart, shelf>>
  BY DEF SlotsInv, StageKnown, ReadConfirm, Held, caller, goods
<1>2. CASE Dropped
  <2>1. SlotsInv' BY <1>1, <1>2, DroppedInv DEF SlotsType
  <2> QED BY <1>2, <2>1, DroppedEffect
<1>3. CASE /\ stage' = "entry" /\ inv' = [inv EXCEPT !.sure = TRUE]
           /\ said' = said \cup {<<"meant", inv.slots["orders"]>>}
           /\ UNCHANGED <<local, asks, frozen, told, progress>>
  <2>1. PICK r : r = [inv EXCEPT !.sure = TRUE] OBVIOUS
  <2>2. /\ r \in Requests /\ r.kind = inv.kind /\ r.opened = inv.opened
        /\ r.selector = inv.selector /\ r.sure = TRUE /\ r.slots = inv.slots
        /\ r.source = inv.source
    BY <1>1, <2>1 DEF Requests
  <2>3. stage' = "entry" /\ inv' = r /\ UNCHANGED <<now, shown, asks, frozen, told, progress>>
    BY <1>3, <2>1 DEF local
  <2>4. PICK fact : fact = <<"meant", inv.slots["orders"]>> OBVIOUS
  <2>5. /\ Stated({fact}, "orders") = {} /\ Stated({fact}, "quantity") = {}
        /\ inv.slots["orders"] \in Stated({fact}, "meant")
    <3>1. fact[1] = "meant" /\ fact[2] = inv.slots["orders"] BY <2>4
    <3> QED BY <3>1 DEF Stated
  <2>6. \A s : Stated(said, s)' = Stated(said, s) \cup Stated({fact}, s)
    <3>1. said' = said \cup {fact} BY <1>3, <2>4
    <3>2. \A s : Stated(said, s)' = Stated(said \cup {fact}, s) BY <3>1 DEF Stated
    <3> QED BY <3>2, StatedUnion
  <2>7. SlotsType' BY <1>1, <2>2, <2>3 DEF SlotsType, Stages
  <2>8. WordsKnown' BY <1>1, <1>3, <2>3, <2>5, <2>6 DEF WordsKnown
  <2>9. RequestKnown(inv)'
    <3>1. Filled(inv)' = Filled(inv) BY <2>2, <2>3 DEF Filled
    <3>2. Focus' = Focus BY <1>1 DEF Focus
    <3>3. SpokenSlots' = SpokenSlots BY PolicyStays
    <3> QED BY <1>1, <2>2, <2>3, <2>5, <2>6, <3>1, <3>2, <3>3 DEF RequestKnown
  <2>10. inv'.kind # "refund_order" BY <1>1, <2>2, <2>3 DEF ReadKinds
  <2>11. StageKnown' /\ FrozenKnown' /\ ToldKnown'
    BY <1>1, <1>3 DEF StageKnown, FrozenKnown, ToldKnown
  <2>12. SlotsInv' BY <2>2, <2>3, <2>7, <2>8, <2>9, <2>10, <2>11, SlotsInvStep
  <2>13. StepEffect
    <3>1. Stands(r) BY <2>2 DEF Stands
    <3> QED BY <1>1, <2>3, <3>1 DEF StepEffect
  <2> QED BY <2>12, <2>13
<1> QED BY <1>2, <1>3 DEF ReadConfirm

LEMMA BindStep ==
    ASSUME SlotsInv, NEW c \in Customers, Bind(c), UNCHANGED quantitySource
    PROVE  SlotsInv' /\ StepEffect
<1>1. /\ SlotsType /\ WordsKnown /\ stage = "identity" /\ frozen = Nil /\ told = Nil /\ Held
      /\ inv \in Requests /\ RequestKnown(inv) /\ inv.selector # "focused"
      /\ inv.kind \in ActionKinds => inv.slots["orders"] \subseteq Stated(said, "orders")
      /\ inv.kind = "refund_order" => ~Complete(inv)
  BY DEF SlotsInv, StageKnown, Bind, Held
<1>2. /\ mine' = {} /\ granted' = {} /\ recent' = {} /\ cart' = {} /\ stage' = "entry"
      /\ UNCHANGED <<turn, requests, inv, now, shown, said, asks, frozen, told, shelf, progress>>
  BY DEF Bind, local
<1>3. SlotsType' /\ WordsKnown'
  BY <1>1, <1>2 DEF SlotsType, WordsKnown, Stated, Stages
<1>4. RequestKnown(inv)'
  <2>1. Filled(inv)' = Filled(inv) /\ \A s : Stated(said, s)' = Stated(said, s)
    BY <1>2 DEF Filled, Stated
  <2>2. SpokenSlots' = SpokenSlots BY PolicyStays
  <2> QED BY <1>1, <1>2, <2>1, <2>2 DEF RequestKnown
<1>5. Complete(inv)' = Complete(inv) BY <1>2 DEF Complete, Filled
<1>6. StageKnown' /\ FrozenKnown' /\ ToldKnown'
  BY <1>1, <1>2 DEF StageKnown, FrozenKnown, ToldKnown
<1>7. SlotsInv' BY <1>1, <1>2, <1>3, <1>4, <1>5, <1>6, SlotsInvStep
<1>8. StepEffect BY <1>1, <1>2, InvEvolves, EvolvesStands DEF StepEffect
<1> QED BY <1>7, <1>8

LEMMA ConcludeStep ==
    ASSUME SlotsInv, NEW applied \in BOOLEAN, Conclude(applied)
    PROVE  SlotsInv' /\ StepEffect
<1>1. /\ SlotsType /\ stage = "frozen" /\ told = Nil /\ inv = Nil /\ now = {} /\ FrozenKnown
  BY DEF SlotsInv, StageKnown, Conclude
<1>2. /\ stage' = "idle" /\ frozen' = Nil /\ said' = {}
      /\ UNCHANGED <<turn, requests, inv, now, shown, asks, told, mine, granted, shelf, progress>>
  BY DEF Conclude, local, caller
<1>3. recent' \subseteq Orders
  BY <1>1 DEF Conclude, FrozenKnown, SlotsType
<1>4. cart' \subseteq Items
  <2>1. frozen.kind = "add" => frozen.slots["item"] \in shelf
    BY <1>1 DEF FrozenKnown, CartKinds
  <2> QED BY <1>1, <2>1 DEF Conclude, SlotsType
<1>5. SlotsType' BY <1>1, <1>2, <1>3, <1>4 DEF SlotsType, Stages
<1>6. WordsKnown' /\ ~Held' BY <1>1, <1>2 DEF WordsKnown, Stated, Held
<1>7. StageKnown' /\ FrozenKnown' /\ ToldKnown'
  BY <1>1, <1>2 DEF StageKnown, FrozenKnown, ToldKnown
<1>8. SlotsInv' BY <1>5, <1>6, <1>7, SlotsInvStep
<1>9. StepEffect BY <1>1, <1>2, <1>6 DEF StepEffect
<1> QED BY <1>8, <1>9

LEMMA SlotsStep ==
    ASSUME SlotsInv, SlotsNext
    PROVE  SlotsInv' /\ StepEffect
<1> UNCHANGED quantitySource BY DEF SlotsNext
<1>1. ASSUME NEW k \in Kinds, NEW sel \in Selectors(k), NEW u \in Utterances(k), Open(k, sel, u)
      PROVE  SlotsInv' /\ StepEffect
  BY <1>1, OpenStep
<1>2. ASSUME inv # Nil, NEW u \in Utterances(inv.kind), Continue(u) PROVE SlotsInv' /\ StepEffect
  BY <1>2, ContinueStep
<1>3. ASSUME NEW i \in Items, Delist(i) PROVE SlotsInv' /\ StepEffect
  BY <1>3, DelistStep
<1>4. CASE FillCart
  BY <1>4, FillCartMoves, MoveStep DEF FillCart, Held
<1>5. CASE FillSupport
  BY <1>5, FillSupportMoves, MoveStep DEF FillSupport, Held
<1>6. CASE ListOrders BY <1>6, ListOrdersStep
<1>7. CASE \/ \E m \in {"cart_model", "support_model"} : ModelAsks(m) \/ ModelLeaves(m)
           \/ SupportUnexpected
  <2>1. /\ stage \in {"cart_model", "support_model"}
        /\ UNCHANGED <<turn, requests, caller, recent, goods>>
    BY <1>7 DEF ModelAsks, ModelLeaves, SupportUnexpected
  <2>2. Dropped \/ \E q : Evolves(q) /\ Moves(q) BY <1>7, ModelMoves
  <2> QED BY <2>1, <2>2, MoveStep DEF Held
<1>8. ASSUME NEW i \in shown \cup {Nil}, NEW q \in Quantities \cup {Nil}, NEW reader \in BOOLEAN,
             CartPropose(i, q, reader)
      PROVE  SlotsInv' /\ StepEffect
  <2>1. stage = "cart_model" /\ UNCHANGED <<turn, requests, caller, recent, goods>>
    BY <1>8 DEF CartPropose
  <2>2. Dropped \/ \E w : Evolves(w) /\ Moves(w) BY <1>8, CartProposeMoves
  <2> QED BY <2>1, <2>2, MoveStep DEF Held
<1>9. ASSUME NEW v \in Offers(Missing(inv)), SupportPropose(v)
      PROVE  SlotsInv' /\ StepEffect
  <2>1. stage = "support_model" /\ UNCHANGED <<turn, requests, caller, recent, goods>>
    BY <1>9 DEF SupportPropose
  <2>2. Dropped \/ \E w : Evolves(w) /\ Moves(w) BY <1>9, SupportProposeMoves
  <2> QED BY <2>1, <2>2, MoveStep DEF Held
<1>10. ASSUME NEW p \in SUBSET Orders, ReadEntry(p) PROVE SlotsInv' /\ StepEffect
  BY <1>10, ReadEntryStep
<1>11. ASSUME NEW yes \in BOOLEAN, ReadConfirm(yes) PROVE SlotsInv' /\ StepEffect
  BY <1>11, ReadConfirmStep
<1>12. ASSUME NEW yes \in BOOLEAN, Conclude(yes) PROVE SlotsInv' /\ StepEffect
  BY <1>12, ConcludeStep
<1>13. ASSUME NEW c \in Customers, Bind(c) PROVE SlotsInv' /\ StepEffect
  BY <1>13, BindStep
<1>14. CASE IdentityFails
  <2>1. SlotsInv'
    BY <1>14, DroppedInv DEF IdentityFails, SlotsInv, SlotsType, caller, goods
  <2> QED BY <1>14, <2>1, DroppedEffect DEF IdentityFails
<1> QED BY <1>1, <1>2, <1>3, <1>4, <1>5, <1>6, <1>7, <1>8, <1>9, <1>10, <1>11, <1>12, <1>13,
           <1>14 DEF SlotsNext


LEMMA EffectStands ==
    ASSUME SlotsInv, StepEffect
    PROVE  inv # Nil /\ inv' # Nil /\ inv'.opened = inv.opened =>
             \A s \in Slots : inv.slots[s] # Nil =>
                \/ inv'.slots[s] = inv.slots[s]
                \/ s = "item" /\ inv'.slots[s] = Nil
                     /\ inv.slots[s] \notin (IF inv.kind = "add" THEN shelf ELSE cart)
<1> SUFFICES ASSUME inv # Nil, inv' # Nil, inv'.opened = inv.opened
             PROVE  \A s \in Slots : inv.slots[s] # Nil =>
                      \/ inv'.slots[s] = inv.slots[s]
                      \/ s = "item" /\ inv'.slots[s] = Nil
                           /\ inv.slots[s] \notin (IF inv.kind = "add" THEN shelf ELSE cart)
  OBVIOUS
<1>1. inv.opened \in Nat BY DEF SlotsInv, Held, Requests
<1>2. CASE inv'.opened > inv.opened BY <1>1, <1>2
<1>3. ASSUME NEW r, Stands(r), inv' = r
      PROVE  \A s \in Slots : inv.slots[s] # Nil =>
                      \/ inv'.slots[s] = inv.slots[s]
                      \/ s = "item" /\ inv'.slots[s] = Nil
                           /\ inv.slots[s] \notin (IF inv.kind = "add" THEN shelf ELSE cart)
  BY <1>3 DEF Stands, Offered
<1>4. ASSUME NEW r, Evolves(r), Asked(r) PROVE Stands(r) /\ inv' = r
  BY <1>4, EvolvesStands DEF Asked
<1>5. CASE UNCHANGED <<inv, asks, progress, stage>> BY <1>5
<1> QED BY <1>2, <1>3, <1>4, <1>5 DEF StepEffect

(* A question of a request that has grown with every answer so far.         *)
LEMMA AskedSpending ==
    ASSUME SlotsInv, BudgetKnown, SlotReasks \in Nat, SlotReasks >= 2, Held,
           NEW r, Evolves(r), Askable(r), Asked(r)
    PROVE  BudgetKnown'
<1>1. /\ asks \in Nat /\ inv \in Requests
      /\ progress \in [held : SUBSET Slots, wasted : BOOLEAN, gaveUp : BOOLEAN]
  BY DEF SlotsInv, SlotsType
<1>2. /\ r \in Requests /\ r.kind = inv.kind /\ Filled(r) \subseteq Needs(r.kind)
      /\ r.slots["amount"] # Nil => r.slots["orders"] # Nil
      /\ r.slots["destination"] # Nil => r.slots["amount"] # Nil
  BY DEF Evolves, RequestKnown
<1> DEFINE w == progress.wasted \/ (asks > 0 /\ Filled(r) \subseteq progress.held)
           spent == asks > SlotReasks
<1>3. /\ inv' = (IF spent THEN Nil ELSE r) /\ asks' = (IF spent THEN 0 ELSE asks + 1)
      /\ progress'.held = Filled(r) /\ progress'.wasted = w /\ progress'.gaveUp = spent
      /\ stage' = "idle"
  BY DEF Asked, Ends
<1>kept. ~spent => inv' = r /\ asks' = asks + 1 /\ ~progress'.gaveUp BY <1>3
<1>4. CASE w
  BY <1>3, <1>4 DEF BudgetKnown, AnsweredQuestionsSuffice
<1>5. CASE ~w /\ asks = 0
  <2>1. ~spent BY <1>1, <1>5
  <2>2. /\ asks' = 1 /\ ~progress'.gaveUp /\ inv' = r BY <1>1, <1>3, <1>5, <2>1
  <2>3. Filled(inv)' = Filled(r) BY <2>2 DEF Filled
  <2>4. Spending(inv, asks)' BY <1>2, <1>3, <2>2, <2>3 DEF Spending
  <2> QED BY <2>2, <2>4 DEF BudgetKnown, AnsweredQuestionsSuffice
<1>6. CASE ~w /\ asks > 0
  <2>1. Spending(inv, asks) /\ ~progress.wasted BY <1>6 DEF BudgetKnown
  <2> HIDE DEF w, spent
  <2>2. PICK held : held = progress.held OBVIOUS
  <2>3. /\ ~(Filled(r) \subseteq held) /\ asks <= 3 /\ held \subseteq Needs(r.kind)
    BY <1>2, <1>6, <2>1, <2>2 DEF Spending, w
  <2>4. \A s \in Slots \ {"item"} : s \in held => r.slots[s] # Nil
    <3>1. held \ {"item"} \subseteq Filled(inv) BY <2>1, <2>2 DEF Spending
    <3> QED BY <3>1 DEF Filled, Evolves
  <2>5. CASE r.kind \in CartKinds
    <3>1. Needs(r.kind) \subseteq {"item", "quantity"} /\ "item" \in Needs(r.kind)
      BY <2>5 DEF Needs, CartKinds
    <3>2. ~Complete(r) BY <2>5 DEF Askable
    <3>3. asks >= 2 => held # {} BY <1>2, <2>1, <2>2, <2>5 DEF Spending
    <3>4. asks = 3 => "quantity" \in held BY <1>2, <2>1, <2>2, <2>5 DEF Spending
    <3>5. asks # 3
      <4> SUFFICES ASSUME asks = 3 PROVE FALSE OBVIOUS
      <4>1. "quantity" \in held /\ r.slots["quantity"] # Nil
        BY <2>4, <3>4 DEF Slots
      <4>2. "item" \notin Filled(r)
        <5>1. "quantity" \in Filled(r) BY <4>1 DEF Filled, Slots
        <5> QED BY <1>2, <3>1, <3>2, <5>1 DEF Complete
      <4> QED BY <1>2, <2>3, <3>1, <4>1, <4>2
    <3>6. Filled(r) # {} BY <2>3
    <3>7. asks = 2 => "quantity" \in Filled(r)
      <4>1. CASE "quantity" \in held BY <2>4, <4>1 DEF Filled, Slots
      <4>2. CASE "quantity" \notin held
        <5>1. asks = 2 => held = {"item"} BY <2>3, <3>1, <3>3, <4>2
        <5> QED BY <1>2, <2>3, <3>1, <5>1
      <4> QED BY <4>1, <4>2
    <3>8. asks \in {1, 2} BY <1>1, <1>6, <2>3, <3>5
    <3>9. ~spent BY <3>8 DEF spent
    <3>10. asks' \in {2, 3} /\ (asks' = 3 => asks = 2) /\ ~progress'.gaveUp /\ inv' = r
           /\ progress'.held = Filled(r)
      BY <1>3, <1>kept, <3>8, <3>9
    <3>11. Filled(inv)' = Filled(r) BY <3>10 DEF Filled
    <3>12. Spending(inv, asks)' BY <1>2, <2>5, <3>6, <3>7, <3>10, <3>11 DEF Spending
    <3> QED BY <3>10, <3>12 DEF BudgetKnown, AnsweredQuestionsSuffice
  <2>6. CASE r.kind \in SupportModelKinds
    <3>1. r.kind \notin CartKinds BY <2>6 DEF CartKinds, SupportModelKinds, ActionKinds
    <3>2. r.kind # "change_profile"
      <4> SUFFICES ASSUME r.kind = "change_profile" PROVE FALSE OBVIOUS
      <4>1. ~Complete(r) /\ Needs(r.kind) = {"value"} BY DEF Askable, Needs
      <4>2. Filled(r) = {} BY <1>2, <4>1 DEF Complete
      <4> QED BY <2>3, <4>2
    <3>3. CASE r.kind # "refund_order"
      <4>1. Needs(r.kind) = {"orders"}
        BY <2>6, <3>2, <3>3 DEF Needs, SupportModelKinds, ActionKinds
      <4>2. "orders" \in Filled(r) /\ "orders" \notin held BY <1>2, <2>3, <4>1
      <4>3. asks = 1 BY <1>1, <1>2, <1>6, <2>1, <2>2, <3>1, <4>2 DEF Spending
      <4>unspent. ~spent BY <4>3 DEF spent
      <4>4. asks' = 2 /\ ~progress'.gaveUp /\ inv' = r /\ progress'.held = Filled(r)
        BY <1>3, <1>kept, <4>3, <4>unspent
      <4>5. Filled(inv)' = Filled(r) BY <4>4 DEF Filled
      <4>6. Spending(inv, asks)' BY <1>2, <3>1, <4>2, <4>4, <4>5 DEF Spending
      <4> QED BY <4>4, <4>6 DEF BudgetKnown, AnsweredQuestionsSuffice
    <3>4. CASE r.kind = "refund_order"
      <4>1. Needs(r.kind) = {"orders", "amount", "destination"} /\ ~Complete(r)
        BY <3>4 DEF Needs, Askable
      <4>2. /\ "amount" \in Filled(r) => "orders" \in Filled(r)
            /\ "destination" \in Filled(r) => "amount" \in Filled(r)
        BY <1>2 DEF Filled, Slots
      <4>3. "destination" \notin Filled(r) BY <4>1, <4>2 DEF Complete
      <4>4. "orders" \in Filled(r) BY <1>2, <2>3, <4>1, <4>2
      <4>5. /\ asks >= 2 => "orders" \in held
            /\ asks = 3 => "amount" \in held
        BY <1>2, <2>1, <2>2, <3>1 DEF Spending
      <4>6. asks # 3
        <5> SUFFICES ASSUME asks = 3 PROVE FALSE OBVIOUS
        <5> QED BY <1>2, <2>3, <4>1, <4>3, <4>5
      <4>7. asks = 2 => "amount" \in Filled(r) BY <1>2, <2>3, <4>1, <4>3, <4>5
      <4>8. asks \in {1, 2} BY <1>1, <1>6, <2>3, <4>6
      <4>9. ~spent BY <4>8 DEF spent
      <4>10. asks' \in {2, 3} /\ (asks' = 3 => asks = 2) /\ ~progress'.gaveUp /\ inv' = r
             /\ progress'.held = Filled(r)
        BY <1>3, <1>kept, <4>8, <4>9
      <4>11. Filled(inv)' = Filled(r) BY <4>10 DEF Filled
      <4>12. Spending(inv, asks)' BY <1>2, <3>1, <3>4, <4>4, <4>7, <4>10, <4>11 DEF Spending
      <4> QED BY <4>10, <4>12 DEF BudgetKnown, AnsweredQuestionsSuffice
    <3> QED BY <3>3, <3>4
  <2> QED BY <2>5, <2>6 DEF Askable
<1> QED BY <1>1, <1>4, <1>5, <1>6

LEMMA EffectBudget ==
    ASSUME SlotsInv, BudgetKnown, SlotReasks \in Nat, SlotReasks >= 2, StepEffect
    PROVE  BudgetKnown'
<1>1. CASE inv' = Nil /\ ~Held' /\ progress' \in {progress, NoProgress}
  BY <1>1 DEF BudgetKnown, AnsweredQuestionsSuffice, NoProgress
<1>2. CASE asks' = 0 /\ progress' = NoProgress
  BY <1>2 DEF BudgetKnown, AnsweredQuestionsSuffice, NoProgress
<1>3. ASSUME Held, asks' \in {0, asks}, progress' = progress, NEW r, Stands(r), inv' = r
      PROVE  BudgetKnown'
  <2>1. CASE asks' = 0
    BY <1>3, <2>1 DEF BudgetKnown, AnsweredQuestionsSuffice
  <2>2. CASE asks' = asks
    <3>1. r.kind = inv.kind BY <1>3 DEF Stands
    <3>2. Filled(inv) \ {"item"} \subseteq Filled(r)
      BY <1>3 DEF Filled, Stands
    <3>3. Filled(inv)' = Filled(r) BY <1>3 DEF Filled
    <3>4. Spending(inv, asks) => Spending(inv, asks)'
      BY <1>3, <2>2, <3>1, <3>2, <3>3 DEF Spending
    <3> QED BY <1>3, <2>2, <3>4 DEF BudgetKnown, AnsweredQuestionsSuffice
  <2> QED BY <1>3, <2>1, <2>2
<1>4. ASSUME Held, NEW r, Evolves(r), Askable(r), Asked(r) PROVE BudgetKnown'
  BY <1>4, AskedSpending
<1>5. CASE UNCHANGED <<inv, asks, progress, stage>>
  <2>1. Filled(inv)' = Filled(inv) BY <1>5 DEF Filled
  <2>2. Spending(inv, asks)' = Spending(inv, asks) BY <1>5, <2>1 DEF Spending
  <2> QED BY <1>5, <2>2 DEF BudgetKnown, AnsweredQuestionsSuffice, Held
<1> QED BY <1>1, <1>2, <1>3, <1>4, <1>5 DEF StepEffect

-----------------------------------------------------------------------------

LEMMA SlotsStutter ==
    ASSUME UNCHANGED slotVars
    PROVE  SlotsInv' = SlotsInv /\ BudgetKnown' = BudgetKnown
<1>1. UNCHANGED <<turn, requests, stage, inv, now, said, shown, asks, frozen, told, principal,
                  mine, granted, recent, cart, shelf, progress, quantitySource>>
  BY DEF slotVars
<1>0. SpokenSlots' = SpokenSlots BY <1>1, PolicyStays
<1>2. /\ Complete(inv)' = Complete(inv) /\ Unprepared(inv)' = Unprepared(inv)
      /\ RequestKnown(inv)' = RequestKnown(inv) /\ Held' = Held
  BY <1>1, <1>0 DEF Complete, Filled, Unprepared, TargetVerdict, MutationAllowed, OwnedHere,
     RequestKnown, Stated, Focus, Held
<1>3. /\ SlotsType' = SlotsType /\ WordsKnown' = WordsKnown
      /\ FrozenKnown' = FrozenKnown /\ ToldKnown' = ToldKnown
  BY <1>1, <1>0 DEF SlotsType, WordsKnown, Stated, FrozenKnown, ToldKnown, OwnedHere, Focus
<1>4. StageKnown' = StageKnown
  BY <1>1, <1>2 DEF StageKnown, Stated
<1>5. BudgetKnown' = BudgetKnown
  BY <1>1 DEF BudgetKnown, AnsweredQuestionsSuffice, Spending, Filled, Held
<1> QED BY <1>1, <1>2, <1>3, <1>4, <1>5 DEF SlotsInv

LEMMA ConversationSlots ==
    ASSUME SlotsInv, [ConversationNext]_conversationVars
    PROVE  SlotsInv' /\ (StepEffect \/ UNCHANGED slotVars)
<1>1. SlotsNext \/ UNCHANGED slotVars
  BY DEF ConversationNext, conversationVars
<1> QED BY <1>1, SlotsStep, SlotsStutter

LEMMA SlotsAlwaysKnown == ConversationSpec => []SlotsInv
<1>1. ConversationInit => SlotsInv BY SlotsInitInv DEF ConversationInit
<1>2. SlotsInv /\ [ConversationNext]_conversationVars => SlotsInv' BY ConversationSlots
<1> QED BY <1>1, <1>2, PTL DEF ConversationSpec

(* Whatever the models propose and however turns, the identity detour and   *)
(* the catalog interleave, a pending effect minted by the Cart or Support   *)
(* flow holds only what the caller stated for that very request (or the     *)
(* order in focus under this principal), and an order is acted on, or its   *)
(* total read out, only for its owner (merge_proposal, _enter_identity_for_ *)
(* action, order_status_fulfill_node, order_mutation_allowed).              *)
THEOREM EffectsAlwaysGrounded == ConversationSpec => []EffectsAreGrounded
<1>1. SlotsInv => EffectsAreGrounded
  <2> SUFFICES ASSUME SlotsInv PROVE EffectsAreGrounded OBVIOUS
  <2>1. frozen # Nil => stage = "frozen" BY DEF SlotsInv, StageKnown
  <2> QED BY <2>1
    DEF SlotsInv, FrozenKnown, ToldKnown, EffectsAreGrounded, ValuesAreCallers, GrantsOnlyOpenStatus
<1> QED BY <1>1, SlotsAlwaysKnown, PTL

(* A slot that is filled keeps its value while the request lives, over any  *)
(* number of questions, retries and detours; only an item the catalog or    *)
(* the cart no longer offers is forgotten ("already fixed" in               *)
(* capability_entry_node and merge_proposal).                               *)
THEOREM FixedSlotsAlwaysStand == ConversationSpec => FixedSlotsStand
<1>1. SlotsInv /\ [ConversationNext]_conversationVars =>
        [inv # Nil /\ inv' # Nil /\ inv'.opened = inv.opened =>
           \A s \in Slots : inv.slots[s] # Nil =>
              \/ inv'.slots[s] = inv.slots[s]
              \/ s = "item" /\ inv'.slots[s] = Nil
                   /\ inv.slots[s] \notin (IF inv.kind = "add" THEN shelf ELSE cart)]_slotVars
  BY ConversationSlots, EffectStands
<1> QED BY <1>1, SlotsAlwaysKnown, PTL DEF ConversationSpec, FixedSlotsStand

(* With the configured two re-asks (or more) advance_clarification never    *)
(* gives up a request whose caller answered every question with something   *)
(* new, whichever capability it is and however many slots it has.           *)
THEOREM AnswersAlwaysSuffice ==
    ASSUME SlotReasks >= 2
    PROVE  ConversationSpec => []AnsweredQuestionsSuffice
<1>1. SlotReasks \in Nat BY SlotsAssumption
<1>2. ConversationInit => BudgetKnown
  BY DEF ConversationInit, SlotsInit, BudgetKnown, AnsweredQuestionsSuffice, NoProgress
<1>3. SlotsInv /\ BudgetKnown /\ [ConversationNext]_conversationVars => BudgetKnown'
  BY <1>1, ConversationSlots, EffectBudget, SlotsStutter
<1>4. BudgetKnown => AnsweredQuestionsSuffice BY DEF BudgetKnown
<1> QED BY <1>2, <1>3, <1>4, SlotsAlwaysKnown, PTL DEF ConversationSpec


-----------------------------------------------------------------------------
(* The turns.                                                               *)

(* The automation state of a checkpoint.                                    *)
InvocationIds == Ids \X Nat
Invocations == [id : InvocationIds, cap : CapabilityIds, target : OrderTargets]
Owners == ({"invocation"} \X InvocationIds) \cup ({"router"} \X Ids)
Pendings == [cap : CommerceEffects, key : Keys]
Instructions ==
    [kind : {"direct"}, message : Ids, cap : CapabilityIds, owner : {NONE}] \cup
    [kind : {"continue"}, message : Ids, cap : {NONE}, owner : InvocationIds] \cup
    [kind : {"none"}, message : Ids, cap : {NONE}, owner : Owners]
Markers == [node : GraphNodes, trigger : Triggers, message : {NONE} \cup Ids]
Autos ==
    [inv : {NONE} \cup Invocations, identity : BOOLEAN, pending : {NONE} \cup Pendings,
     instruct : {NONE} \cup Instructions, clar : {NONE} \cup [owner : Owners, reasks : Nat],
     recovery : {NONE} \cup Markers, handover : BOOLEAN]

(* A marker that leads back to a readback.                                  *)
Restoring(a) ==
    a.recovery # NONE /\ a.recovery.trigger \in {"session_restored", "confirmation_detour"}

(* The nodes that work on an open invocation.                               *)
InvNodes ==
    {"cart_capability_entry", "support_capability_entry", "identity_capability_entry",
     "order_status_entry", "order_status_target_propose", "order_status_fulfill",
     "order_status_target_confirm", "principal_warning", "identity_assemble",
     "identity_collect", "identity_apply"}
TerminalPlaces == {"rest", "entry", "recover", "automation_terminal_response"}

(* What an automation state looks like at each place of the graph.          *)
Fits(a, n, over) ==
    /\ a \in Autos /\ n \in GraphNodes \cup {"rest"}
    /\ over => /\ n \in TerminalPlaces /\ a.inv = NONE /\ a.pending = NONE
               /\ a.instruct = NONE /\ ~Restoring(a)
    /\ a.recovery # NONE => n \in {"entry", "recover"} \/ over
    /\ n = "recover" => a.recovery # NONE
    /\ Restoring(a) =>
          /\ a.recovery.node \in RestoreNodes /\ a.instruct = NONE
          /\ a.recovery.node \in InvNodes => a.inv \in Invocations
    /\ a.instruct # NONE => n \in {"entry", "recover", "capability_dispatch", "router_no_action"}
    /\ n = "capability_dispatch" =>
          IF a.instruct = NONE THEN a.inv \in Invocations ELSE a.instruct.kind # "none"
    /\ n = "router_no_action" => a.instruct # NONE /\ a.instruct.kind = "none"
    /\ n \in InvNodes => a.inv \in Invocations
    /\ n = "cart_capability_entry" => a.inv.cap \in {"modify_cart", "place_order"}
    /\ n \in GuardrailNodes => a.pending \in Pendings /\ a.pending.cap # "modify_cart"

(* A pending effect that no step can reach any more.                        *)
Doomed(a, n) ==
    /\ n \in {"entry", "capability_dispatch", "recover"} /\ ~Restoring(a)
    /\ a.recovery = NONE => a.instruct # NONE /\ a.instruct.kind = "direct"

Working == {"admitted", "stream", "ended"}
Started(d) == dl[d].phase \in Working \cup {"over"}
KeysOf(a) == IF a.pending = NONE THEN {} ELSE {a.pending.key}

(* What a consent node makes of a reply.                                    *)
Verdicts == {"yes", "no", "unclear", "policy", "person"}
Questions ==
    [id : Ids, round : {1, 2}, person : {0, 1, 2},
     answer : {NONE, "code"} \cup Verdicts]

RoutingType ==
    /\ thread \in Nat /\ consumed \in Seq(Ids) /\ terminal \in BOOLEAN /\ bound \in BOOLEAN
    /\ asked \in {NONE} \cup Questions
    /\ transition \in {NONE} \cup [cont : {NONE} \cup CapabilityIds]
    /\ engine \in {"up", "latched", "refused"}
    /\ lock \in Ids \cup {NONE}
    /\ dl \in [Ids -> [phase : {"new", "queued"} \cup Working \cup {"over"}, message : Ids,
                       thread : Nat, saw : {0} \cup Ids, knew : SUBSET Keys]]
    /\ read \subseteq Keys /\ consent \subseteq Keys /\ declined \subseteq Keys /\ done \subseteq Keys
    /\ faults \in 0..MaxFaults

CheckpointKnown ==
    /\ Fits(auto, at, terminal)
    /\ asked # NONE => at \in ConsentNodes \cup {"identity_collect"}
    /\ asked # NONE /\ at = "request_person" => asked.person # 0
    /\ transition # NONE => at = "rest"

LockKnown ==
    /\ \A d \in Ids : dl[d].phase \in Working => lock = d
    /\ \A d \in Ids : dl[d].saw # 0 => Started(dl[d].saw)
    /\ asked # NONE => Started(asked.id)

(* A delivery asks one question, and hears its answer not itself.           *)
QuestionKnown ==
    /\ lock \in Ids /\ (dl[lock].phase = "ended" => asked = NONE) =>
          /\ \A d \in Ids : dl[d].saw # lock
          /\ asked # NONE => asked.id # lock
    /\ asked # NONE => PendingKeys \subseteq read
    /\ \A d \in Ids : asked # NONE /\ dl[d].saw = asked.id => PendingKeys \subseteq dl[d].knew
    /\ \A d \in Ids : dl[d].phase = "stream" /\ asked # NONE =>
          /\ dl[d].saw = asked.id
          /\ at \in ConsentNodes => asked.answer \in Verdicts

KeysKnown ==
    /\ \A k \in PendingKeys : Started(k[1])
    /\ \A d \in Ids : dl[d].phase = "admitted" \/ (dl[d].phase = "stream" /\ asked # NONE) =>
          \A k \in PendingKeys : k[1] # d
    /\ \A k \in declined \cup done : dl[k[1]].phase = "over"
    /\ at \in EffectNodes => \A k \in PendingKeys : dl[k[1]].phase = "over"

EffectKnown ==
    /\ done \subseteq consent /\ declined \cap done = {}
    /\ at \in EffectNodes => PendingKeys \subseteq consent /\ detour = NONE
    /\ PendingKeys \cap declined # {} => Doomed(auto, at)
    /\ PendingKeys \cap done # {} => Doomed(auto, at) \/ at \in EffectNodes

DetourKnown ==
    detour # NONE =>
      /\ lock \in Ids /\ dl[lock].phase \in {"stream", "ended"}
      /\ dl[lock].phase = "stream" => asked = NONE
      /\ detour \in [node : RestoreNodes, auto : Autos]
      /\ detour.auto.recovery = NONE /\ detour.auto.instruct = NONE
      /\ detour.node \in InvNodes => detour.auto.inv \in Invocations
      /\ \A k \in KeysOf(detour.auto) : Started(k[1]) /\ k \notin declined \cup done

ActsKnown ==
    /\ acts \in [Ids -> {0, 1}]
    /\ \A m \in Ids : acts[m] = 1 => Consumed(m)

RoutingInv ==
    /\ RoutingType /\ CheckpointKnown /\ LockKnown /\ QuestionKnown /\ KeysKnown
    /\ EffectKnown /\ DetourKnown /\ ActsKnown

(* The places of the graph, spelled out.                                    *)
LEMMA NodeSets ==
    /\ EffectConfirms = {"cart_mutation_confirm", "cart_confirm", "support_cancel_confirm",
                         "support_confirm", "support_return_confirm", "support_profile_confirm"}
    /\ EffectNodes = {"cart_mutation_apply", "cart_place", "support_cancel_void", "support_place",
                      "support_return_place", "support_profile_place"}
    /\ GuardrailNodes = {"cart_guardrail", "support_guardrail", "support_cancel_guardrail",
                         "support_return_guardrail", "support_profile_guardrail"}
<1>1. EffectConfirms = {"cart_mutation_confirm", "cart_confirm", "support_cancel_confirm",
                         "support_confirm", "support_return_confirm", "support_profile_confirm"}
  BY DEF EffectConfirms, EffectNode
<1>2. EffectNodes = {"cart_mutation_apply", "cart_place", "support_cancel_void", "support_place",
                      "support_return_place", "support_profile_place"}
  <2>1. /\ EffectNode["cart_mutation_confirm"] = "cart_mutation_apply"
        /\ EffectNode["cart_confirm"] = "cart_place"
        /\ EffectNode["support_cancel_confirm"] = "support_cancel_void"
        /\ EffectNode["support_confirm"] = "support_place"
        /\ EffectNode["support_return_confirm"] = "support_return_place"
        /\ EffectNode["support_profile_confirm"] = "support_profile_place"
    BY DEF EffectNode
  <2> QED BY <1>1, <2>1 DEF EffectNodes
<1>3. GuardrailNodes = {"cart_guardrail", "support_guardrail", "support_cancel_guardrail",
                         "support_return_guardrail", "support_profile_guardrail"}
  <2>1. DOMAIN GuardrailNode = {"place_order", "refund_order", "cancel_orders", "return_order",
                                "change_profile"}
    BY DEF GuardrailNode
  <2>2. /\ GuardrailNode["place_order"] = "cart_guardrail"
        /\ GuardrailNode["refund_order"] = "support_guardrail"
        /\ GuardrailNode["cancel_orders"] = "support_cancel_guardrail"
        /\ GuardrailNode["return_order"] = "support_return_guardrail"
        /\ GuardrailNode["change_profile"] = "support_profile_guardrail"
    BY DEF GuardrailNode
  <2> QED BY <2>1, <2>2 DEF GuardrailNodes
<1> QED BY <1>1, <1>2, <1>3

LEMMA ConfirmFacts ==
    /\ \A cap \in CommerceEffects : ConfirmNode[cap] \in EffectConfirms
    /\ \A cap \in CommerceEffects \ {"modify_cart"} : GuardrailNode[cap] \in GuardrailNodes
    /\ \A n \in EffectConfirms : EffectNode[n] \in EffectNodes
BY NodeSets DEF CommerceEffects, ConfirmNode, GuardrailNode, EffectNodes

EntryNodes == {"support_capability_entry", "cart_view_render", "identity_status_render",
               "identity_capability_entry", "cart_capability_entry", "catalog_entry",
               "answer_response", "converse", "disclose_ai_identity", "order_status_entry",
               "abort_current", "request_person"}

LEMMA EntryFacts ==
    /\ \A c \in CapabilityIds : EntryNode[c] \in EntryNodes
    /\ \A c \in CapabilityIds :
          EntryNode[c] = "cart_capability_entry" => c \in {"modify_cart", "place_order"}
    /\ {EntryNode[c] : c \in CapabilityIds} = EntryNodes
<1>1. CapabilityIds = {"list_orders", "cancel_orders", "refund_order", "return_order",
         "change_profile", "view_cart", "view_identity_status", "verify_identity",
         "switch_account", "modify_cart", "place_order", "search_catalog", "answer_question",
         "converse", "disclose_ai_identity", "verify_order_status", "read_order_total",
         "abort_current", "request_person"}
  BY DEF CapabilityIds, EntryNode
<1>2. /\ EntryNode["list_orders"] = "support_capability_entry"
      /\ EntryNode["cancel_orders"] = "support_capability_entry"
      /\ EntryNode["refund_order"] = "support_capability_entry"
      /\ EntryNode["return_order"] = "support_capability_entry"
      /\ EntryNode["change_profile"] = "support_capability_entry"
      /\ EntryNode["view_cart"] = "cart_view_render"
      /\ EntryNode["view_identity_status"] = "identity_status_render"
      /\ EntryNode["verify_identity"] = "identity_capability_entry"
      /\ EntryNode["switch_account"] = "identity_capability_entry"
      /\ EntryNode["modify_cart"] = "cart_capability_entry"
      /\ EntryNode["place_order"] = "cart_capability_entry"
      /\ EntryNode["search_catalog"] = "catalog_entry"
      /\ EntryNode["answer_question"] = "answer_response"
      /\ EntryNode["converse"] = "converse"
      /\ EntryNode["disclose_ai_identity"] = "disclose_ai_identity"
      /\ EntryNode["verify_order_status"] = "order_status_entry"
      /\ EntryNode["read_order_total"] = "order_status_entry"
      /\ EntryNode["abort_current"] = "abort_current"
      /\ EntryNode["request_person"] = "request_person"
  BY DEF EntryNode
<1>3. \A c \in CapabilityIds : EntryNode[c] \in EntryNodes
  BY <1>1, <1>2 DEF EntryNodes
<1>4. \A c \in CapabilityIds :
          EntryNode[c] = "cart_capability_entry" => c \in {"modify_cart", "place_order"}
  BY <1>1, <1>2
<1>5. \A n \in EntryNodes : \E c \in CapabilityIds : EntryNode[c] = n
  BY <1>1, <1>2 DEF EntryNodes
<1> QED BY <1>3, <1>4, <1>5

LEMMA GraphFacts ==
    /\ GraphNodes = EntryNodes \cup ConsentNodes \cup GuardrailNodes
          \cup EffectNodes \cup TerminalNodes \cup Infrastructure
          \cup {"entry", "capability_dispatch", "router_no_action", "catalog_response",
                "order_status_target_propose", "order_status_fulfill",
                "support_capability_render", "identity_assemble", "identity_collect",
                "identity_apply"}
    /\ ConsentNodes = EffectConfirms \cup
          {"order_status_target_confirm", "request_person", "principal_warning"}
    /\ RestoreNodes \subseteq ConsentNodes
    /\ "principal_warning" \notin RestoreNodes
BY EntryFacts DEF GraphNodes, ConsentNodes, RestoreNodes


LEMMA RoutingInitInv == Init => RoutingInv
<1> SUFFICES ASSUME Init PROVE RoutingInv OBVIOUS
<1>1. Cleared \in Autos /\ Cleared.recovery = NONE /\ Cleared.instruct = NONE
      /\ Cleared.pending = NONE
  BY DEF Cleared, Autos
<1>2. RoutingType
  <2>1. dl \in [Ids -> [phase : {"new", "queued"} \cup Working \cup {"over"}, message : Ids,
                        thread : Nat, saw : {0} \cup Ids, knew : SUBSET Keys]]
    BY DEF Init
  <2>2. faults \in 0..MaxFaults BY RegistryAssumption DEF Init
  <2>3. consumed \in Seq(Ids) BY DEF Init
  <2>4. /\ thread \in Nat /\ terminal \in BOOLEAN /\ bound \in BOOLEAN
        /\ asked = NONE /\ transition = NONE /\ engine = "up" /\ lock = NONE
        /\ read = {} /\ consent = {} /\ declined = {} /\ done = {}
    BY DEF Init
  <2> QED BY <2>1, <2>2, <2>3, <2>4 DEF RoutingType
<1>3. CheckpointKnown
  BY <1>1, NodeSets, GraphFacts
  DEF Init, CheckpointKnown, Fits, Restoring, InvNodes
<1>4. PendingKeys = {} /\ "rest" \notin EffectNodes
  BY <1>1, NodeSets DEF Init, PendingKeys
<1>5. LockKnown /\ QuestionKnown /\ KeysKnown
  BY <1>4, NoneAssumption DEF Init, LockKnown, QuestionKnown, KeysKnown, Working
<1>6. EffectKnown /\ DetourKnown /\ ActsKnown
  BY <1>4 DEF Init, EffectKnown, DetourKnown, ActsKnown
<1> QED BY <1>2, <1>3, <1>5, <1>6 DEF RoutingInv

(* A step of the graph that leaves nothing asked: where it leads and what   *)
(* becomes of the pending effect.                                           *)
GraphMove(d, a, n) ==
    /\ lock = d /\ dl[d].phase = "stream"
    /\ auto' = a /\ at' = n /\ asked' = NONE
    /\ Fits(a, n, terminal') /\ n \notin EffectNodes
    /\ \/ a.pending = NONE
       \/ a.pending = auto.pending /\ (Doomed(auto, at) \/ at \in EffectNodes => Doomed(a, n))
       \/ a.pending \in Pendings /\ a.pending.key[1] = d
    /\ done' = done \/ (at \in EffectNodes /\ done' = done \cup PendingKeys)
    /\ terminal' \in BOOLEAN /\ bound' \in BOOLEAN /\ faults' \in 0..MaxFaults
    /\ transition' \in {NONE} \cup [cont : {NONE} \cup CapabilityIds]
    /\ transition' # NONE => n = "rest"
    /\ UNCHANGED <<thread, consumed, engine, lock, detour, dl, read, consent, declined, acts>>

LEMMA PendingTyped ==
    ASSUME RoutingInv
    PROVE  PendingKeys \subseteq Keys /\ PendingKeys = KeysOf(auto)
BY DEF RoutingInv, CheckpointKnown, Fits, Autos, Pendings, PendingKeys, KeysOf

LEMMA GraphMoveInv ==
    ASSUME RoutingInv, NEW d \in Ids, NEW a, NEW n, GraphMove(d, a, n)
    PROVE  RoutingInv'
<1>1. PendingKeys \subseteq Keys /\ PendingKeys = KeysOf(auto) BY PendingTyped
<1>2. PendingKeys' = KeysOf(a) BY DEF GraphMove, PendingKeys, KeysOf
<1>3. a \in Autos BY DEF GraphMove, Fits
<1>4. RoutingType'
  BY <1>1 DEF RoutingInv, RoutingType, GraphMove
<1>5. CheckpointKnown'
  BY DEF GraphMove, CheckpointKnown
<1>6. LockKnown'
  BY DEF RoutingInv, LockKnown, GraphMove, Started
<1>7. QuestionKnown'
  <2>1. \A e \in Ids : dl[e].saw # lock
    BY DEF RoutingInv, QuestionKnown, GraphMove
  <2> QED BY <2>1 DEF GraphMove, QuestionKnown
<1>8. \A k \in KeysOf(a) : k \in Keys /\ k[1] \in Ids /\ Started(k[1])
  <2>1. \A k \in PendingKeys : Started(k[1]) BY DEF RoutingInv, KeysKnown
  <2>2. Started(d) BY DEF GraphMove, Started, Working
  <2>3. KeysOf(a) = {} \/ KeysOf(a) = PendingKeys \/ (\A k \in KeysOf(a) : k[1] = d /\ k \in Keys)
    BY <1>1, <1>3 DEF GraphMove, KeysOf, Autos, Pendings
  <2> QED BY <1>1, <2>1, <2>2, <2>3 DEF Keys
<1>9. \A e \in Ids : dl[e].phase \in Working => e = d
  BY DEF RoutingInv, LockKnown, GraphMove
<1>10. done' \subseteq done \cup PendingKeys /\ (done' # done => at \in EffectNodes)
  BY DEF GraphMove
<1>11. \A k \in declined \cup done' : dl[k[1]].phase = "over"
  BY <1>10 DEF RoutingInv, KeysKnown
<1>12. KeysKnown'
  <2>1. \A k \in PendingKeys' : Started(k[1])' BY <1>2, <1>8 DEF Started, GraphMove
  <2>2. \A e \in Ids : ~(dl'[e].phase = "admitted" \/ (dl'[e].phase = "stream" /\ asked' # NONE))
    BY <1>9 DEF GraphMove, Working
  <2> QED BY <1>11, <2>1, <2>2 DEF KeysKnown, GraphMove
<1>13. (KeysOf(a) \cap declined # {} => Doomed(a, n)) /\ (KeysOf(a) \cap done' # {} => Doomed(a, n))
  <2>1. CASE a.pending = NONE BY <2>1 DEF KeysOf
  <2>2. CASE a.pending = auto.pending /\ (Doomed(auto, at) \/ at \in EffectNodes => Doomed(a, n))
    <3>1. KeysOf(a) = PendingKeys BY <1>1, <2>2 DEF KeysOf
    <3> QED BY <1>10, <2>2, <3>1 DEF RoutingInv, EffectKnown
  <2>3. CASE a.pending \in Pendings /\ a.pending.key[1] = d
    <3>1. \A k \in KeysOf(a) : k[1] = d BY <2>3 DEF KeysOf
    <3> QED BY <1>11, <3>1 DEF GraphMove
  <2> QED BY <2>1, <2>2, <2>3 DEF GraphMove
<1>14. EffectKnown'
  <2>1. done' \subseteq consent /\ declined \cap done' = {}
    <3>1. CASE done' = done BY <3>1 DEF RoutingInv, EffectKnown
    <3>2. CASE at \in EffectNodes /\ done' = done \cup PendingKeys
      <4>1. ~Doomed(auto, at) BY <3>2, NodeSets DEF Doomed
      <4> QED BY <3>2, <4>1 DEF RoutingInv, EffectKnown
    <3> QED BY <3>1, <3>2 DEF GraphMove
  <2>2. Doomed(auto, at)' = Doomed(a, n)
    BY DEF Doomed, Restoring, GraphMove
  <2> QED BY <1>2, <1>13, <2>1, <2>2 DEF EffectKnown, GraphMove
<1>15. DetourKnown'
  <2> SUFFICES ASSUME detour' # NONE PROVE DetourKnown' BY DEF DetourKnown
  <2>1. DetourKnown /\ detour # NONE BY DEF RoutingInv, GraphMove
  <2>2. done' = done
    BY <2>1 DEF RoutingInv, EffectKnown, GraphMove
  <2> QED BY <2>1, <2>2 DEF DetourKnown, GraphMove, Started
<1>16. ActsKnown' BY DEF RoutingInv, ActsKnown, GraphMove, Consumed
<1> QED BY <1>4, <1>5, <1>6, <1>7, <1>12, <1>14, <1>15, <1>16 DEF RoutingInv


(* Away from the places where a turn begins or is recovered, the checkpoint *)
(* holds neither an instruction nor a marker.                               *)
Plain(a) == a \in Autos /\ a.recovery = NONE /\ a.instruct = NONE
Begins == TerminalPlaces \cup {"capability_dispatch", "router_no_action"}

LEMMA PlainPlace ==
    ASSUME RoutingInv, at \notin Begins
    PROVE  Plain(auto) /\ ~terminal /\ transition = NONE
BY DEF RoutingInv, CheckpointKnown, Fits, Begins, TerminalPlaces, Plain

LEMMA PlainFits ==
    ASSUME NEW a, Plain(a), NEW n \in GraphNodes \cup {"rest"},
           n \notin {"recover", "router_no_action"},
           n \in InvNodes \cup {"capability_dispatch"} => a.inv \in Invocations,
           n = "cart_capability_entry" => a.inv.cap \in {"modify_cart", "place_order"},
           n \in GuardrailNodes => a.pending \in Pendings /\ a.pending.cap # "modify_cart"
    PROVE  Fits(a, n, FALSE)
BY DEF Plain, Fits, Restoring

(* A step by Go from such a place.                                          *)
LEMMA GoInv ==
    ASSUME RoutingInv, NEW d \in Ids, lock = d, dl[d].phase = "stream", asked = NONE,
           at \notin Begins \cup EffectNodes, NEW a, NEW n, Go(a, n), Plain(a),
           n \in GraphNodes \cup {"rest"}, n \notin EffectNodes \cup {"recover", "router_no_action"},
           n \in InvNodes \cup {"capability_dispatch"} => a.inv \in Invocations,
           n = "cart_capability_entry" => a.inv.cap \in {"modify_cart", "place_order"},
           n \in GuardrailNodes => a.pending \in Pendings /\ a.pending.cap # "modify_cart",
           \/ a.pending \in {NONE, auto.pending}
           \/ a.pending \in Pendings /\ a.pending.key[1] = d,
           UNCHANGED <<bound, memory, faults>>, UNCHANGED history
    PROVE  RoutingInv'
<1>1. Plain(auto) /\ terminal = FALSE /\ transition = NONE
  BY PlainPlace DEF RoutingInv, RoutingType
<1>2. Fits(a, n, FALSE) BY PlainFits
<1>3. ~Doomed(auto, at) BY DEF Doomed, Begins, TerminalPlaces
<1>4. /\ auto' = a /\ at' = n /\ terminal' = FALSE
      /\ UNCHANGED <<thread, consumed, asked, transition, bound, engine, lock, detour, dl, faults,
                     read, consent, declined, done, acts>>
  BY <1>1 DEF Go, memory, history
<1>5. bound \in BOOLEAN /\ faults \in 0..MaxFaults BY DEF RoutingInv, RoutingType
<1>6. GraphMove(d, a, n)
  BY <1>1, <1>2, <1>3, <1>4, <1>5 DEF GraphMove
<1> QED BY <1>6, GraphMoveInv

(* The automation states that the owners leave.                             *)
LEMMA PlainStates ==
    ASSUME NEW a, Plain(a)
    PROVE  /\ Plain([a EXCEPT !.inv = NONE])
           /\ [a EXCEPT !.inv = NONE].pending = a.pending
           /\ Plain([a EXCEPT !.clar = NONE])
           /\ [a EXCEPT !.clar = NONE].pending = a.pending
           /\ [a EXCEPT !.clar = NONE].inv = a.inv
           /\ Plain([a EXCEPT !.pending = NONE])
           /\ [a EXCEPT !.pending = NONE].pending = NONE
           /\ Plain([a EXCEPT !.identity = TRUE])
           /\ [a EXCEPT !.identity = TRUE].pending = a.pending
           /\ [a EXCEPT !.identity = TRUE].inv = a.inv
           /\ Plain([a EXCEPT !.identity = FALSE])
           /\ [a EXCEPT !.identity = FALSE].pending = a.pending
           /\ [a EXCEPT !.identity = FALSE].inv = a.inv
           /\ Plain([a EXCEPT !.handover = TRUE, !.pending = NONE, !.inv = NONE,
                              !.identity = FALSE])
           /\ [a EXCEPT !.handover = TRUE, !.pending = NONE, !.inv = NONE,
                        !.identity = FALSE].pending = NONE
           /\ Plain([a EXCEPT !.identity = TRUE, !.clar = NONE])
           /\ [a EXCEPT !.identity = TRUE, !.clar = NONE].pending = a.pending
           /\ [a EXCEPT !.identity = TRUE, !.clar = NONE].inv = a.inv
           /\ Plain([a EXCEPT !.inv = NONE, !.identity = FALSE])
           /\ [a EXCEPT !.inv = NONE, !.identity = FALSE].pending = a.pending
           /\ Plain([a EXCEPT !.pending = NONE, !.inv = NONE, !.identity = FALSE])
           /\ [a EXCEPT !.pending = NONE, !.inv = NONE, !.identity = FALSE].pending = NONE
BY DEF Plain, Autos

LEMMA ClearedPlain == Plain(Cleared) /\ Cleared.pending = NONE /\ Cleared.inv = NONE
BY DEF Cleared, Plain, Autos

LEMMA TargetedPlain ==
    ASSUME Plain(auto), auto.inv \in Invocations, NEW t \in OrderTargets
    PROVE  /\ Plain(Targeted(t)) /\ Targeted(t).pending = auto.pending
           /\ Targeted(t).inv \in Invocations
<1>1. PICK i : i = [auto.inv EXCEPT !.target = t] OBVIOUS
<1>2. i \in Invocations BY <1>1 DEF Invocations
<1>3. Targeted(t) = [auto EXCEPT !.inv = i] BY <1>1 DEF Targeted
<1> QED BY <1>2, <1>3 DEF Plain, Autos

LEMMA AdvancePlain ==
    ASSUME Plain(auto), NEW owner \in Owners
    PROVE  /\ Plain([auto EXCEPT !.clar = Advance(owner)])
           /\ [auto EXCEPT !.clar = Advance(owner)].pending = auto.pending
           /\ [auto EXCEPT !.clar = Advance(owner)].inv = auto.inv
<1>1. auto.clar \in {NONE} \cup [owner : Owners, reasks : Nat] BY DEF Plain, Autos
<1>2. Advance(owner) \in [owner : Owners, reasks : Nat] BY <1>1 DEF Advance
<1> HIDE DEF Advance
<1> QED BY <1>2 DEF Plain, Autos

LEMMA FrozenPlain ==
    ASSUME Plain(auto), NEW d \in Ids, NEW cap \in CommerceEffects
    PROVE  LET a == [auto EXCEPT !.inv = NONE, !.clar = NONE,
                                 !.pending = [cap |-> cap, key |-> <<d, cap>>]] IN
           /\ Plain(a) /\ a.pending \in Pendings /\ a.pending.key[1] = d /\ a.pending.cap = cap
<1>1. PICK p : p = [cap |-> cap, key |-> <<d, cap>>] OBVIOUS
<1>2. p \in Pendings /\ p.key[1] = d /\ p.cap = cap BY <1>1 DEF Pendings, Keys
<1> QED BY <1>1, <1>2 DEF Plain, Autos


-----------------------------------------------------------------------------
(* The nodes of the graph.                                                  *)

LEMMA ReadNodesInv ==
    ASSUME RoutingInv, NEW d \in Ids,
           \/ CartViewRender(d) \/ IdentityStatusRender(d) \/ Converse(d) \/ CatalogEntry(d)
           \/ CatalogResponse(d) \/ AnswerResponse(d) \/ SupportRender(d)
    PROVE  RoutingInv'
<1>1. /\ lock = d /\ dl[d].phase = "stream" /\ asked = NONE
      /\ at \in {"cart_view_render", "identity_status_render", "converse", "disclose_ai_identity",
                 "abort_current", "catalog_entry", "catalog_response", "answer_response",
                 "support_capability_render"}
      /\ UNCHANGED <<bound, memory, faults>> /\ UNCHANGED history
      /\ \/ Go(Answered, "rest") \/ Go(Cleared, "rest") \/ Go(auto, "catalog_response")
  BY DEF CartViewRender, IdentityStatusRender, Converse, CatalogEntry, CatalogResponse,
     AnswerResponse, SupportRender, Running, StreamOn
<1>2. at \notin Begins \cup EffectNodes BY <1>1, NodeSets DEF Begins, TerminalPlaces
<1>3. Plain(auto) BY <1>2, PlainPlace
<1>4. Plain(Answered) /\ Answered.pending = auto.pending BY <1>3, PlainStates DEF Answered
<1>5. /\ "rest" \notin InvNodes \cup GuardrailNodes \cup EffectNodes
      /\ "catalog_response" \in GraphNodes
      /\ "catalog_response" \notin InvNodes \cup GuardrailNodes \cup EffectNodes
  BY NodeSets, GraphFacts DEF InvNodes
<1>6. CASE Go(Answered, "rest") BY <1>1, <1>2, <1>4, <1>5, <1>6, GoInv
<1>7. CASE Go(Cleared, "rest") BY <1>1, <1>2, <1>5, <1>7, ClearedPlain, GoInv
<1>8. CASE Go(auto, "catalog_response") BY <1>1, <1>2, <1>3, <1>5, <1>8, GoInv
<1> QED BY <1>1, <1>6, <1>7, <1>8

LEMMA OrderReadsInv ==
    ASSUME RoutingInv, NEW d \in Ids,
           OrderStatusEntry(d) \/ OrderStatusTargetPropose(d) \/ OrderStatusFulfill(d)
    PROVE  RoutingInv'
<1>1. /\ lock = d /\ dl[d].phase = "stream" /\ asked = NONE
      /\ at \in {"order_status_entry", "order_status_target_propose", "order_status_fulfill"}
      /\ UNCHANGED <<bound, memory, faults>> /\ UNCHANGED history
  BY DEF OrderStatusEntry, OrderStatusTargetPropose, OrderStatusFulfill, Running, StreamOn
<1>2. at \notin Begins \cup EffectNodes BY <1>1, NodeSets DEF Begins, TerminalPlaces
<1>3. Plain(auto) BY <1>2, PlainPlace
<1>4. auto.inv \in Invocations
  BY <1>1 DEF RoutingInv, CheckpointKnown, Fits, InvNodes
<1>5. Plain(Answered) /\ Answered.pending = auto.pending BY <1>3, PlainStates DEF Answered
<1>6. /\ {"order_status_target_propose", "order_status_fulfill", "order_status_target_confirm"}
           \subseteq GraphNodes
      /\ {"rest", "order_status_target_propose", "order_status_fulfill",
          "order_status_target_confirm"} \cap (GuardrailNodes \cup EffectNodes) = {}
      /\ "rest" \notin InvNodes
  BY NodeSets, GraphFacts DEF InvNodes
<1>7. CASE Go(Answered, "rest") BY <1>1, <1>2, <1>5, <1>6, <1>7, GoInv
<1>8. ASSUME NEW n \in {"rest", "order_status_target_propose", "order_status_fulfill",
                        "order_status_target_confirm"}, Go(auto, n)
      PROVE  RoutingInv'
  BY <1>1, <1>2, <1>3, <1>4, <1>6, <1>8, GoInv
<1>9. ASSUME NEW t \in {"heard", "sure"}, Go(Targeted(t), "order_status_fulfill")
      PROVE  RoutingInv'
  <2>1. t \in OrderTargets BY DEF OrderTargets
  <2>2. PICK a : a = Targeted(t) OBVIOUS
  <2>3. Plain(a) /\ a.pending = auto.pending /\ a.inv \in Invocations
    BY <1>3, <1>4, <2>1, <2>2, TargetedPlain
  <2> QED BY <1>1, <1>2, <1>6, <1>9, <2>2, <2>3, GoInv
<1> QED BY <1>7, <1>8, <1>9
  DEF OrderStatusEntry, OrderStatusTargetPropose, OrderStatusFulfill

(* The places that an owner's step may lead to.                             *)
OwnerPlaces == {"cart_capability_entry", "support_capability_entry", "identity_capability_entry",
                "identity_assemble"}

LEMMA OwnerFacts ==
    ASSUME RoutingInv, at \in OwnerPlaces
    PROVE  /\ at \notin Begins \cup EffectNodes /\ Plain(auto) /\ auto.inv \in Invocations
           /\ <<"invocation", auto.inv.id>> \in Owners
<1>1. at \notin Begins \cup EffectNodes BY NodeSets DEF OwnerPlaces, Begins, TerminalPlaces
<1>2. Plain(auto) BY <1>1, PlainPlace
<1>3. auto.inv \in Invocations
  BY DEF RoutingInv, CheckpointKnown, Fits, InvNodes, OwnerPlaces
<1>4. auto.inv.id \in InvocationIds BY <1>3 DEF Invocations
<1> QED BY <1>1, <1>2, <1>3, <1>4 DEF Owners

LEMMA HandOverInv ==
    ASSUME RoutingInv, NEW d \in Ids, lock = d, dl[d].phase = "stream", asked = NONE,
           at \notin Begins \cup EffectNodes, HandOver(auto),
           UNCHANGED <<bound, memory, faults>>, UNCHANGED history
    PROVE  RoutingInv'
<1>1. PICK a : a = [auto EXCEPT !.handover = TRUE, !.pending = NONE, !.inv = NONE,
                                !.identity = FALSE]
  OBVIOUS
<1>2. Plain(a) /\ a.pending = NONE BY <1>1, PlainPlace, PlainStates
<1>3. "handover" \in GraphNodes /\ "handover" \notin InvNodes \cup GuardrailNodes \cup EffectNodes
  BY NodeSets, GraphFacts DEF InvNodes, TerminalNodes
<1> QED BY <1>1, <1>2, <1>3, GoInv DEF HandOver

LEMMA OwnerAsksInv ==
    ASSUME RoutingInv, NEW d \in Ids, lock = d, dl[d].phase = "stream", asked = NONE,
           at \in OwnerPlaces, OwnerAsks(d),
           UNCHANGED <<bound, memory, faults>>, UNCHANGED history
    PROVE  RoutingInv'
<1>1. PICK owner : owner = <<"invocation", auto.inv.id>> OBVIOUS
<1>2. /\ at \notin Begins \cup EffectNodes /\ Plain(auto) /\ owner \in Owners
  BY <1>1, OwnerFacts
<1>3. "rest" \notin InvNodes \cup GuardrailNodes \cup EffectNodes BY NodeSets DEF InvNodes
<1>4. CASE Go([auto EXCEPT !.clar = Advance(owner)], "rest")
  <2>1. PICK a : a = [auto EXCEPT !.clar = Advance(owner)] OBVIOUS
  <2>2. Plain(a) /\ a.pending = auto.pending BY <1>2, <2>1, AdvancePlain
  <2> QED BY <1>2, <1>3, <1>4, <2>1, <2>2, GoInv
<1>5. CASE Go(Cleared, "rest") BY <1>2, <1>3, <1>5, ClearedPlain, GoInv
<1>6. CASE HandOver(auto) BY <1>2, <1>6, HandOverInv
<1> QED BY <1>1, <1>4, <1>5, <1>6 DEF OwnerAsks

LEMMA FreezeInv ==
    ASSUME RoutingInv, NEW d \in Ids, lock = d, dl[d].phase = "stream", asked = NONE,
           at \in OwnerPlaces, NEW cap \in CommerceEffects, Freeze(d, cap),
           UNCHANGED <<bound, memory, faults>>, UNCHANGED history
    PROVE  RoutingInv'
<1>1. PICK a : a = [auto EXCEPT !.inv = NONE, !.clar = NONE,
                                !.pending = [cap |-> cap, key |-> <<d, cap>>]]
  OBVIOUS
<1>2. at \notin Begins \cup EffectNodes /\ Plain(auto) BY OwnerFacts
<1>3. Plain(a) /\ a.pending \in Pendings /\ a.pending.key[1] = d /\ a.pending.cap = cap
  BY <1>1, <1>2, FrozenPlain
<1>4. PICK n : n = IF cap = "modify_cart" THEN ConfirmNode[cap] ELSE GuardrailNode[cap] OBVIOUS
<1>5. n \in EffectConfirms \/ (n \in GuardrailNodes /\ cap # "modify_cart")
  BY <1>4, ConfirmFacts
<1>6. /\ n \in GraphNodes
      /\ n \notin EffectNodes \cup InvNodes \cup
           {"recover", "router_no_action", "capability_dispatch"}
      /\ n \in GuardrailNodes => cap # "modify_cart"
  BY <1>5, NodeSets, GraphFacts DEF InvNodes
<1>7. n # "cart_capability_entry" BY <1>6 DEF InvNodes
<1>8. Go(a, n) BY <1>1, <1>4 DEF Freeze
<1> QED BY <1>2, <1>3, <1>6, <1>7, <1>8, GoInv

LEMMA CartEntryInv ==
    ASSUME RoutingInv, NEW d \in Ids, CartEntry(d)
    PROVE  RoutingInv'
<1>1. /\ lock = d /\ dl[d].phase = "stream" /\ asked = NONE /\ at = "cart_capability_entry"
      /\ UNCHANGED <<bound, memory, faults>> /\ UNCHANGED history
  BY DEF CartEntry, Running, StreamOn
<1>2. at \in OwnerPlaces BY <1>1 DEF OwnerPlaces
<1>3. at \notin Begins \cup EffectNodes /\ Plain(auto) BY <1>2, OwnerFacts
<1>4. auto.inv.cap \in CommerceEffects
  BY <1>1 DEF RoutingInv, CheckpointKnown, Fits, CommerceEffects
<1>5. CASE Go([Answered EXCEPT !.clar = NONE], "rest")
  <2>1. "rest" \notin InvNodes \cup GuardrailNodes \cup EffectNodes BY NodeSets DEF InvNodes
  <2>2. PICK a : a = [Answered EXCEPT !.clar = NONE] OBVIOUS
  <2>3. Plain(a) /\ a.pending = auto.pending BY <1>3, <2>2, PlainStates DEF Answered
  <2> QED BY <1>1, <1>3, <1>5, <2>1, <2>2, <2>3, GoInv
<1>6. CASE OwnerAsks(d) BY <1>1, <1>2, <1>6, OwnerAsksInv
<1>7. CASE Freeze(d, auto.inv.cap)
  <2>1. PICK cap : cap = auto.inv.cap OBVIOUS
  <2> QED BY <1>1, <1>2, <1>4, <1>7, <2>1, FreezeInv
<1> QED BY <1>5, <1>6, <1>7 DEF CartEntry

LEMMA SupportEntryInv ==
    ASSUME RoutingInv, NEW d \in Ids, SupportEntry(d)
    PROVE  RoutingInv'
<1>1. /\ lock = d /\ dl[d].phase = "stream" /\ asked = NONE /\ at = "support_capability_entry"
      /\ UNCHANGED <<bound, memory, faults>> /\ UNCHANGED history
  BY DEF SupportEntry, Running, StreamOn
<1>2. at \in OwnerPlaces BY <1>1 DEF OwnerPlaces
<1>3. at \notin Begins \cup EffectNodes /\ Plain(auto) /\ auto.inv \in Invocations
  BY <1>2, OwnerFacts
<1>4. /\ "rest" \notin InvNodes \cup GuardrailNodes \cup EffectNodes
      /\ {"principal_warning", "identity_assemble", "support_capability_render"}
            \subseteq GraphNodes
      /\ {"principal_warning", "identity_assemble", "support_capability_render"}
            \cap (GuardrailNodes \cup EffectNodes) = {}
      /\ "support_capability_render" \notin InvNodes
  BY NodeSets, GraphFacts DEF InvNodes
<1>5. ASSUME NEW node \in {"principal_warning", "identity_assemble"},
             Go([auto EXCEPT !.identity = TRUE, !.clar = NONE], node)
      PROVE  RoutingInv'
  <2>1. PICK a : a = [auto EXCEPT !.identity = TRUE, !.clar = NONE] OBVIOUS
  <2>2. Plain(a) /\ a.pending = auto.pending /\ a.inv = auto.inv BY <1>3, <2>1, PlainStates
  <2> QED BY <1>1, <1>3, <1>4, <1>5, <2>1, <2>2, GoInv
<1>6. CASE Go(auto, "support_capability_render") BY <1>1, <1>3, <1>4, <1>6, GoInv
<1>7. CASE OwnerAsks(d) BY <1>1, <1>2, <1>7, OwnerAsksInv
<1>8. CASE Go([Answered EXCEPT !.clar = NONE], "rest")
  <2>1. PICK a : a = [Answered EXCEPT !.clar = NONE] OBVIOUS
  <2>2. Plain(a) /\ a.pending = auto.pending BY <1>3, <2>1, PlainStates DEF Answered
  <2> QED BY <1>1, <1>3, <1>4, <1>8, <2>1, <2>2, GoInv
<1>9. CASE HandOver(auto) BY <1>1, <1>3, <1>9, HandOverInv
<1>10. CASE auto.inv.cap \in CommerceEffects /\ Freeze(d, auto.inv.cap)
  <2>1. PICK cap : cap = auto.inv.cap OBVIOUS
  <2> QED BY <1>1, <1>2, <1>10, <2>1, FreezeInv
<1> QED BY <1>5, <1>6, <1>7, <1>8, <1>9, <1>10 DEF SupportEntry

LEMMA GuardrailInv ==
    ASSUME RoutingInv, NEW d \in Ids, Guardrail(d)
    PROVE  RoutingInv'
<1>1. /\ lock = d /\ dl[d].phase = "stream" /\ asked = NONE /\ at \in GuardrailNodes
      /\ UNCHANGED <<bound, memory, faults>> /\ UNCHANGED history
  BY DEF Guardrail, Running, StreamOn
<1>2. at \notin Begins \cup EffectNodes BY <1>1, NodeSets DEF Begins, TerminalPlaces
<1>3. Plain(auto) BY <1>2, PlainPlace
<1>4. auto.pending \in Pendings BY <1>1 DEF RoutingInv, CheckpointKnown, Fits
<1>5. PICK cap : cap = auto.pending.cap OBVIOUS
<1>6. cap \in CommerceEffects BY <1>4, <1>5 DEF Pendings
<1>7. CASE Go(auto, ConfirmNode[cap])
  <2>1. PICK n : n = ConfirmNode[cap] OBVIOUS
  <2>2. n \in EffectConfirms BY <1>6, <2>1, ConfirmFacts
  <2>3. /\ n \in GraphNodes
        /\ n \notin EffectNodes \cup InvNodes \cup GuardrailNodes \cup
             {"recover", "router_no_action", "capability_dispatch"}
        /\ n # "cart_capability_entry"
    BY <2>2, NodeSets, GraphFacts DEF InvNodes
  <2> QED BY <1>1, <1>2, <1>3, <1>7, <2>1, <2>3, GoInv
<1>8. CASE Go([auto EXCEPT !.pending = NONE], "rest")
  <2>1. "rest" \notin InvNodes \cup GuardrailNodes \cup EffectNodes BY NodeSets DEF InvNodes
  <2>2. PICK a : a = [auto EXCEPT !.pending = NONE] OBVIOUS
  <2>3. Plain(a) /\ a.pending = NONE BY <1>3, <2>2, PlainStates
  <2> QED BY <1>1, <1>2, <1>8, <2>1, <2>2, <2>3, GoInv
<1>9. CASE HandOver(auto) BY <1>1, <1>2, <1>9, HandOverInv
<1>10. ASSUME NEW other \in {"cancel_orders", "return_order"},
              Go([auto EXCEPT !.pending = [cap |-> other, key |-> <<d, other>>]],
                 GuardrailNode[other])
       PROVE  RoutingInv'
  <2>1. PICK p : p = [cap |-> other, key |-> <<d, other>>] OBVIOUS
  <2>2. p \in Pendings /\ p.key[1] = d /\ p.cap = other
    BY <2>1 DEF Pendings, Keys, CommerceEffects
  <2>3. PICK a : a = [auto EXCEPT !.pending = p] OBVIOUS
  <2>4. Plain(a) /\ a.pending = p BY <1>3, <2>2, <2>3 DEF Plain, Autos
  <2>5. PICK n : n = GuardrailNode[other] OBVIOUS
  <2>6. n \in GuardrailNodes BY <2>5, ConfirmFacts DEF CommerceEffects
  <2>7. /\ n \in GraphNodes
        /\ n \notin EffectNodes \cup InvNodes \cup
             {"recover", "router_no_action", "capability_dispatch"}
        /\ n # "cart_capability_entry"
    BY <2>6, NodeSets, GraphFacts DEF InvNodes
  <2> QED BY <1>1, <1>2, <1>10, <2>1, <2>2, <2>3, <2>4, <2>5, <2>7, GoInv
<1> QED BY <1>5, <1>7, <1>8, <1>9, <1>10 DEF Guardrail

LEMMA IdentityEntryInv ==
    ASSUME RoutingInv, NEW d \in Ids, IdentityEntry(d)
    PROVE  RoutingInv'
<1>1. /\ lock = d /\ dl[d].phase = "stream" /\ asked = NONE /\ at = "identity_capability_entry"
      /\ UNCHANGED <<bound, memory, faults>> /\ UNCHANGED history
  BY DEF IdentityEntry, Running, StreamOn
<1>2. at \in OwnerPlaces BY <1>1 DEF OwnerPlaces
<1>3. at \notin Begins \cup EffectNodes /\ Plain(auto) /\ auto.inv \in Invocations
  BY <1>2, OwnerFacts
<1>4. PICK node \in {"principal_warning", "identity_assemble"} :
         Go([auto EXCEPT !.identity = TRUE], node)
  BY DEF IdentityEntry
<1>5. /\ {"principal_warning", "identity_assemble"} \subseteq GraphNodes
      /\ {"principal_warning", "identity_assemble"} \cap (GuardrailNodes \cup EffectNodes) = {}
  BY NodeSets, GraphFacts
<1>6. PICK a : a = [auto EXCEPT !.identity = TRUE] OBVIOUS
<1>7. Plain(a) /\ a.pending = auto.pending /\ a.inv = auto.inv BY <1>3, <1>6, PlainStates
<1> QED BY <1>1, <1>3, <1>4, <1>5, <1>6, <1>7, GoInv

LEMMA AssembleInv ==
    ASSUME RoutingInv, NEW d \in Ids, Assemble(d)
    PROVE  RoutingInv'
<1>1. /\ lock = d /\ dl[d].phase = "stream" /\ asked = NONE /\ at = "identity_assemble"
      /\ UNCHANGED <<bound, memory, faults>> /\ UNCHANGED history
  BY DEF Assemble, Running, StreamOn
<1>2. at \in OwnerPlaces BY <1>1 DEF OwnerPlaces
<1>3. at \notin Begins \cup EffectNodes /\ Plain(auto) /\ auto.inv \in Invocations
  BY <1>2, OwnerFacts
<1>4. CASE OwnerAsks(d) BY <1>1, <1>2, <1>4, OwnerAsksInv
<1>5. CASE Go(Cleared, "rest")
  <2>1. "rest" \notin InvNodes \cup GuardrailNodes \cup EffectNodes BY NodeSets DEF InvNodes
  <2> QED BY <1>1, <1>3, <1>5, <2>1, ClearedPlain, GoInv
<1>6. CASE HandOver(auto) BY <1>1, <1>3, <1>6, HandOverInv
<1>7. ASSUME NEW node \in {"identity_apply", "identity_collect"},
             Go([auto EXCEPT !.clar = NONE], node)
      PROVE  RoutingInv'
  <2>1. PICK a : a = [auto EXCEPT !.clar = NONE] OBVIOUS
  <2>2. Plain(a) /\ a.pending = auto.pending /\ a.inv = auto.inv BY <1>3, <2>1, PlainStates
  <2>3. node \in GraphNodes /\ node \notin GuardrailNodes \cup EffectNodes
    BY NodeSets, GraphFacts
  <2> QED BY <1>1, <1>3, <1>7, <2>1, <2>2, <2>3, GoInv
<1> QED BY <1>4, <1>5, <1>6, <1>7 DEF Assemble


(* A step by Go from any node.                                              *)
LEMMA GoMove ==
    ASSUME RoutingInv, NEW d \in Ids, lock = d, dl[d].phase = "stream", asked = NONE,
           at # "rest", NEW a, NEW n, Go(a, n), Fits(a, n, terminal), n \notin EffectNodes,
           \/ a.pending = NONE
           \/ a.pending = auto.pending /\ (Doomed(auto, at) \/ at \in EffectNodes => Doomed(a, n)),
           done' = done \/ (at \in EffectNodes /\ done' = done \cup PendingKeys),
           bound' = bound, faults' = faults, UNCHANGED memory,
           UNCHANGED <<read, consent, declined, acts>>
    PROVE  RoutingInv'
<1>1. transition = NONE /\ transition' = NONE
  BY DEF RoutingInv, CheckpointKnown, Go
<1>2. /\ auto' = a /\ at' = n /\ asked' = NONE /\ terminal' = terminal
      /\ UNCHANGED <<thread, consumed, engine, lock, detour, dl, read, consent, declined, acts>>
  BY DEF Go, memory
<1>3. bound' \in BOOLEAN /\ faults' \in 0..MaxFaults /\ terminal' \in BOOLEAN
  BY <1>2 DEF RoutingInv, RoutingType
<1>4. GraphMove(d, a, n) BY <1>1, <1>2, <1>3 DEF GraphMove
<1> QED BY <1>4, GraphMoveInv

(* A failure marker leads to recovery, and dooms what is pending.           *)
LEMMA MarkerFacts ==
    \A node \in GraphNodes, trigger \in Triggers, m \in {NONE} \cup Ids :
       LET r == Marker(node, trigger, m) IN
       r \in Markers /\ r # NONE /\ r.node = node /\ r.trigger = trigger
BY NoneAssumption DEF Markers, Marker

LEMMA MarkedFacts ==
    ASSUME NEW a \in Autos, NEW r \in Markers
    PROVE  /\ [a EXCEPT !.recovery = r] \in Autos
           /\ [a EXCEPT !.recovery = r].recovery = r
           /\ [a EXCEPT !.recovery = r].inv = a.inv
           /\ [a EXCEPT !.recovery = r].pending = a.pending
           /\ [a EXCEPT !.recovery = r].instruct = a.instruct
BY DEF Autos

LEMMA EntryInv ==
    ASSUME RoutingInv, NEW d \in Ids, Entry(d)
    PROVE  RoutingInv'
<1>1. /\ lock = d /\ dl[d].phase = "stream" /\ asked = NONE /\ at = "entry"
      /\ bound' = bound /\ faults' = faults /\ UNCHANGED memory
      /\ UNCHANGED <<read, consent, declined, done, acts>>
  BY DEF Entry, Running, StreamOn, history
<1>2. Fits(auto, "entry", terminal) BY <1>1 DEF RoutingInv, CheckpointKnown
<1>3. PICK fresh : fresh = [auto EXCEPT !.handover = FALSE] OBVIOUS
<1>4. /\ fresh \in Autos /\ fresh.inv = auto.inv /\ fresh.pending = auto.pending
      /\ fresh.instruct = auto.instruct /\ fresh.recovery = auto.recovery
  BY <1>2, <1>3 DEF Fits, Autos
<1>5. Restoring(fresh) = Restoring(auto) BY <1>4 DEF Restoring
<1>6. /\ {"automation_terminal_response", "recover", "router_no_action", "capability_dispatch",
          "entry"} \subseteq GraphNodes
      /\ {"automation_terminal_response", "recover", "router_no_action", "capability_dispatch"}
           \cap (InvNodes \cup GuardrailNodes \cup EffectNodes) = {}
      /\ "entry" \notin EffectNodes
  BY NodeSets, GraphFacts DEF InvNodes, TerminalNodes, Infrastructure
<1>7. CASE terminal /\ Go(fresh, "automation_terminal_response")
  <2>1. Fits(fresh, "automation_terminal_response", terminal)
    BY <1>2, <1>4, <1>5, <1>6, <1>7 DEF Fits, TerminalPlaces
  <2>2. fresh.pending = NONE BY <1>2, <1>4, <1>7 DEF Fits
  <2> QED BY <1>1, <1>6, <1>7, <2>1, <2>2, GoMove
<1>8. CASE ~terminal /\ auto.recovery # NONE /\ Go(fresh, "recover")
  <2>1. Fits(fresh, "recover", terminal)
    BY <1>2, <1>4, <1>5, <1>6, <1>8 DEF Fits
  <2>2. Doomed(auto, at) => Doomed(fresh, "recover") BY <1>4, <1>5, <1>8 DEF Doomed
  <2> QED BY <1>1, <1>4, <1>6, <1>8, <2>1, <2>2, GoMove
<1>9. CASE /\ ~terminal /\ auto.recovery = NONE /\ auto.instruct # NONE
           /\ Go(fresh, IF auto.instruct.kind = "none" THEN "router_no_action"
                        ELSE "capability_dispatch")
  <2>1. PICK n : n = IF auto.instruct.kind = "none" THEN "router_no_action"
                     ELSE "capability_dispatch"
    OBVIOUS
  <2>2. n \in GraphNodes /\ n \notin InvNodes \cup GuardrailNodes \cup EffectNodes
    BY <1>6, <2>1
  <2>3. Fits(fresh, n, terminal)
    BY <1>2, <1>4, <1>5, <1>6, <1>9, <2>1, <2>2 DEF Fits, InvNodes
  <2>4. Doomed(auto, at) => Doomed(fresh, n) BY <1>4, <1>5, <1>9, <2>1 DEF Doomed
  <2> QED BY <1>1, <1>4, <1>6, <1>9, <2>1, <2>2, <2>3, <2>4, GoMove
<1>10. CASE /\ ~terminal /\ auto.recovery = NONE /\ auto.instruct = NONE /\ auto.inv # NONE
            /\ Go(fresh, "capability_dispatch")
  <2>1. auto.inv \in Invocations BY <1>2, <1>10 DEF Fits, Autos
  <2>2. Fits(fresh, "capability_dispatch", terminal)
    BY <1>2, <1>4, <1>5, <1>6, <1>10, <2>1 DEF Fits
  <2>3. ~Doomed(auto, at) BY <1>10 DEF Doomed
  <2> QED BY <1>1, <1>4, <1>6, <1>10, <2>2, <2>3, GoMove
<1>11. CASE /\ ~terminal /\ auto.instruct = NONE
            /\ Go([fresh EXCEPT !.recovery = Marker("entry", "node_exception", NONE)], "recover")
  <2>1. PICK b : b = [fresh EXCEPT !.recovery = Marker("entry", "node_exception", NONE)]
    OBVIOUS
  <2>2. /\ b \in Autos /\ b.recovery # NONE /\ b.recovery.trigger = "node_exception"
        /\ b.inv = auto.inv /\ b.pending = auto.pending /\ b.instruct = auto.instruct
    <3>1. "entry" \in GraphNodes /\ "node_exception" \in Triggers BY <1>6 DEF Triggers
    <3>2. PICK r : r = Marker("entry", "node_exception", NONE) OBVIOUS
    <3>3. b = [fresh EXCEPT !.recovery = r] BY <2>1, <3>2
    <3>4. r \in Markers /\ r # NONE /\ r.trigger = "node_exception"
      BY <3>1, <3>2, MarkerFacts
    <3> QED BY <1>4, <3>3, <3>4, MarkedFacts
  <2>3. Fits(b, "recover", terminal)
    BY <1>6, <1>11, <2>2 DEF Fits, Restoring
  <2>4. Doomed(b, "recover") BY <2>2 DEF Doomed, Restoring
  <2> QED BY <1>1, <1>6, <1>11, <2>1, <2>2, <2>3, <2>4, GoMove
<1>12. \/ terminal /\ Go(fresh, "automation_terminal_response")
       \/ ~terminal /\ auto.recovery # NONE /\ Go(fresh, "recover")
       \/ /\ ~terminal /\ auto.recovery = NONE /\ auto.instruct # NONE
          /\ Go(fresh, IF auto.instruct.kind = "none" THEN "router_no_action"
                       ELSE "capability_dispatch")
       \/ /\ ~terminal /\ auto.recovery = NONE /\ auto.instruct = NONE /\ auto.inv # NONE
          /\ Go(fresh, "capability_dispatch")
       \/ /\ ~terminal /\ auto.instruct = NONE
          /\ Go([fresh EXCEPT !.recovery = Marker("entry", "node_exception", NONE)], "recover")
  BY <1>3 DEF Entry
<1> QED BY <1>7, <1>8, <1>9, <1>10, <1>11, <1>12

LEMMA DispatchInv ==
    ASSUME RoutingInv, NEW d \in Ids, Dispatch(d)
    PROVE  RoutingInv'
<1>1. /\ lock = d /\ dl[d].phase = "stream" /\ asked = NONE /\ at = "capability_dispatch"
      /\ bound' = bound /\ faults' = faults /\ UNCHANGED memory
      /\ UNCHANGED <<read, consent, declined, done, acts>>
  BY DEF Dispatch, Running, StreamOn
<1>2. Fits(auto, "capability_dispatch", terminal) BY <1>1 DEF RoutingInv, CheckpointKnown
<1>3. terminal = FALSE /\ auto.recovery = NONE /\ auto \in Autos
  BY <1>2 DEF RoutingInv, RoutingType, Fits, TerminalPlaces
<1>4. "rest" \notin InvNodes \cup GuardrailNodes \cup EffectNodes BY NodeSets DEF InvNodes
<1>5. PICK i : i = auto.instruct OBVIOUS
<1>6. i \in {NONE} \cup Instructions BY <1>3, <1>5 DEF Autos
<1>7. \A n \in EntryNodes \cup {"identity_assemble"} :
         n \in GraphNodes /\ n \notin GuardrailNodes \cup EffectNodes \cup
            {"recover", "router_no_action", "capability_dispatch"}
  BY NodeSets, GraphFacts DEF EntryNodes
<1>8. CASE Go(Cleared, "rest")
  <2>1. Fits(Cleared, "rest", terminal) BY <1>3, <1>4, ClearedPlain, PlainFits
  <2> QED BY <1>1, <1>4, <1>8, <2>1, ClearedPlain, GoMove
<1>9. CASE /\ i = NONE \/ (i.kind = "continue" /\ auto.inv # NONE)
           /\ Go([auto EXCEPT !.instruct = NONE],
                 IF auto.identity THEN "identity_assemble" ELSE EntryNode[auto.inv.cap])
  <2>1. PICK n : n = IF auto.identity THEN "identity_assemble" ELSE EntryNode[auto.inv.cap]
    OBVIOUS
  <2>2. PICK a : a = [auto EXCEPT !.instruct = NONE] OBVIOUS
  <2>3. Plain(a) /\ a.inv = auto.inv /\ a.pending = auto.pending
    BY <1>3, <2>2 DEF Plain, Autos
  <2>4. auto.inv \in Invocations BY <1>2, <1>3, <1>5, <1>9 DEF Fits, Autos
  <2>5. auto.inv.cap \in CapabilityIds BY <2>4 DEF Invocations
  <2>6. /\ n \in EntryNodes \cup {"identity_assemble"}
        /\ n = "cart_capability_entry" => auto.inv.cap \in {"modify_cart", "place_order"}
    BY <2>1, <2>5, EntryFacts
  <2>7. Fits(a, n, terminal) BY <1>3, <1>7, <2>3, <2>4, <2>6, PlainFits
  <2>8. ~Doomed(auto, at) BY <1>3, <1>5, <1>9 DEF Doomed
  <2> QED BY <1>1, <1>7, <1>9, <2>1, <2>2, <2>3, <2>6, <2>7, <2>8, NodeSets, GoMove
<1>10. ASSUME i # NONE, i.kind # "continue", NEW t \in {"none", "sure"},
              Go([Cleared EXCEPT !.inv = Invocation(<<d, thread>>, i.cap, t)], EntryNode[i.cap])
       PROVE  RoutingInv'
  <2>1. i.cap \in CapabilityIds
    BY <1>2, <1>5, <1>6, <1>10 DEF Fits, Instructions
  <2>2. PICK n : n = EntryNode[i.cap] OBVIOUS
  <2>3. n \in EntryNodes /\ (n = "cart_capability_entry" => i.cap \in {"modify_cart", "place_order"})
    BY <2>1, <2>2, EntryFacts
  <2>4. PICK v : v = Invocation(<<d, thread>>, i.cap, t) OBVIOUS
  <2>5. v \in Invocations /\ v.cap = i.cap
    BY <2>1, <2>4 DEF Invocation, Invocations, InvocationIds, OrderTargets, RoutingInv, RoutingType
  <2>6. PICK a : a = [Cleared EXCEPT !.inv = v] OBVIOUS
  <2>7. Plain(a) /\ a.inv = v /\ a.pending = NONE
    BY <2>5, <2>6, ClearedPlain DEF Plain, Autos
  <2>8. Fits(a, n, terminal) BY <1>3, <1>7, <2>3, <2>5, <2>7, PlainFits
  <2> QED BY <1>1, <1>7, <1>10, <2>2, <2>3, <2>4, <2>6, <2>7, <2>8, GoMove
<1> QED
  <2>1. \/ Go(Cleared, "rest")
        \/ /\ i = NONE \/ (i.kind = "continue" /\ auto.inv # NONE)
           /\ Go([auto EXCEPT !.instruct = NONE],
                 IF auto.identity THEN "identity_assemble" ELSE EntryNode[auto.inv.cap])
        \/ /\ i # NONE /\ i.kind # "continue"
           /\ \E t \in {"none", "sure"} :
                 Go([Cleared EXCEPT !.inv = Invocation(<<d, thread>>, i.cap, t)], EntryNode[i.cap])
    BY <1>5, Zenon DEF Dispatch
  <2> QED BY <1>8, <1>9, <1>10, <2>1

LEMMA NoActionInv ==
    ASSUME RoutingInv, NEW d \in Ids, NoAction(d)
    PROVE  RoutingInv'
<1>1. /\ lock = d /\ dl[d].phase = "stream" /\ asked = NONE /\ at = "router_no_action"
      /\ bound' = bound /\ faults' = faults /\ UNCHANGED memory
      /\ UNCHANGED <<read, consent, declined, done, acts>>
  BY DEF NoAction, Running, StreamOn
<1>2. Fits(auto, "router_no_action", terminal) BY <1>1 DEF RoutingInv, CheckpointKnown
<1>3. terminal = FALSE /\ auto.recovery = NONE /\ auto \in Autos
  BY <1>2 DEF RoutingInv, RoutingType, Fits, TerminalPlaces
<1>4. /\ {"rest", "handover"} \cap (InvNodes \cup GuardrailNodes \cup EffectNodes) = {}
      /\ "handover" \in GraphNodes
  BY NodeSets, GraphFacts DEF InvNodes, TerminalNodes
<1>5. PICK owner : owner = auto.instruct.owner OBVIOUS
<1>6. owner \in Owners
  <2>1. auto.instruct \in Instructions /\ auto.instruct.kind = "none"
    BY <1>2, <1>3 DEF Fits, Autos
  <2> QED BY <1>5, <2>1 DEF Instructions
<1>7. CASE Go(Cleared, "rest")
  <2>1. Fits(Cleared, "rest", terminal) BY <1>3, <1>4, ClearedPlain, PlainFits
  <2> QED BY <1>1, <1>4, <1>7, <2>1, ClearedPlain, GoMove
<1>8. CASE Go([Cleared EXCEPT !.handover = TRUE], "handover")
  <2>1. PICK a : a = [Cleared EXCEPT !.handover = TRUE] OBVIOUS
  <2>2. Plain(a) /\ a.pending = NONE BY <2>1, ClearedPlain DEF Plain, Autos
  <2>3. Fits(a, "handover", terminal) BY <1>3, <1>4, <2>2, PlainFits
  <2> QED BY <1>1, <1>4, <1>8, <2>1, <2>2, <2>3, GoMove
<1>9. CASE Go([auto EXCEPT !.instruct = NONE, !.clar = Advance(owner)], "rest")
  <2>1. PICK c : c = Advance(owner) OBVIOUS
  <2>2. auto.clar \in {NONE} \cup [owner : Owners, reasks : Nat] BY <1>3 DEF Autos
  <2>3. c \in [owner : Owners, reasks : Nat] BY <1>6, <2>1, <2>2 DEF Advance
  <2>4. PICK a : a = [auto EXCEPT !.instruct = NONE, !.clar = c] OBVIOUS
  <2>5. Plain(a) /\ a.pending = auto.pending BY <1>3, <2>3, <2>4 DEF Plain, Autos
  <2>6. Fits(a, "rest", terminal) BY <1>3, <1>4, <2>5, PlainFits
  <2>7. ~Doomed(auto, at) /\ at \notin EffectNodes BY <1>1, NodeSets DEF Doomed
  <2> QED BY <1>1, <1>4, <1>9, <2>1, <2>4, <2>5, <2>6, <2>7, GoMove
<1> QED BY <1>5, <1>7, <1>8, <1>9 DEF NoAction

LEMMA HandoverInv ==
    ASSUME RoutingInv, NEW d \in Ids, Handover(d)
    PROVE  RoutingInv'
<1>1. /\ lock = d /\ dl[d].phase = "stream" /\ asked = NONE /\ at \in TerminalNodes
      /\ auto' = Cleared /\ terminal' = TRUE /\ at' = "rest"
      /\ UNCHANGED <<thread, consumed, asked, transition, bound, engine, lock, detour, dl, faults,
                     read, consent, declined, done, acts>>
  BY DEF Handover, Running, StreamOn, memory, history
<1>2. transition = NONE BY <1>1 DEF RoutingInv, CheckpointKnown, TerminalNodes
<1>3. bound \in BOOLEAN /\ faults \in 0..MaxFaults BY DEF RoutingInv, RoutingType
<1>4. "rest" \notin InvNodes \cup GuardrailNodes \cup EffectNodes BY NodeSets DEF InvNodes
<1>5. Fits(Cleared, "rest", TRUE)
  BY <1>4, ClearedPlain DEF Fits, Plain, Restoring, TerminalPlaces
<1>6. GraphMove(d, Cleared, "rest")
  BY <1>1, <1>2, <1>3, <1>4, <1>5, ClearedPlain DEF GraphMove
<1> QED BY <1>6, GraphMoveInv

LEMMA ApplyInv ==
    ASSUME RoutingInv, NEW d \in Ids, Apply(d)
    PROVE  RoutingInv'
<1>1. /\ lock = d /\ dl[d].phase = "stream" /\ asked = NONE /\ at = "identity_apply"
      /\ UNCHANGED <<engine, lock, detour, dl, faults, read, consent, declined, done, acts>>
      /\ UNCHANGED memory /\ UNCHANGED history
  BY DEF Apply, Running, memory, history
<1>2. at \notin Begins \cup EffectNodes BY <1>1, NodeSets DEF Begins, TerminalPlaces
<1>3. Plain(auto) /\ terminal = FALSE /\ transition = NONE
  BY <1>2, PlainPlace DEF RoutingInv, RoutingType
<1>4. auto.inv \in Invocations BY <1>1 DEF RoutingInv, CheckpointKnown, Fits, InvNodes
<1>5. auto.inv.cap \in CapabilityIds BY <1>4 DEF Invocations
<1>6. /\ "rest" \notin InvNodes \cup GuardrailNodes \cup EffectNodes
      /\ "capability_dispatch" \in GraphNodes
      /\ "capability_dispatch" \notin GuardrailNodes \cup EffectNodes
  BY NodeSets, GraphFacts DEF InvNodes
<1>7. PICK over : over = [auto EXCEPT !.inv = NONE, !.identity = FALSE] OBVIOUS
<1>8. Plain(over) /\ over.pending = auto.pending BY <1>3, <1>7, PlainStates
<1>9. ASSUME NEW c \in {NONE} \cup CapabilityIds, transition' = [cont |-> c],
             bound' = TRUE, auto' = over, at' = "rest",
             UNCHANGED <<thread, consumed, asked, terminal>>
      PROVE  RoutingInv'
  <2>1. Fits(over, "rest", FALSE) BY <1>6, <1>8, PlainFits
  <2>2. ~Doomed(auto, at) BY <1>1 DEF Doomed
  <2>3. faults \in 0..MaxFaults BY DEF RoutingInv, RoutingType
  <2>4. GraphMove(d, over, "rest")
    BY <1>1, <1>2, <1>3, <1>6, <1>8, <1>9, <2>1, <2>2, <2>3 DEF GraphMove
  <2> QED BY <2>4, GraphMoveInv
<1>10. CASE bound' = bound /\ Go([auto EXCEPT !.identity = FALSE], "capability_dispatch")
  <2>1. PICK a : a = [auto EXCEPT !.identity = FALSE] OBVIOUS
  <2>2. Plain(a) /\ a.pending = auto.pending /\ a.inv = auto.inv BY <1>3, <2>1, PlainStates
  <2> QED BY <1>1, <1>2, <1>4, <1>6, <1>10, <2>1, <2>2, GoInv
<1>11. CASE bound' = bound /\ Go(over, "rest")
  BY <1>1, <1>2, <1>6, <1>8, <1>11, GoInv
<1>12. CASE bound' = bound /\ HandOver(auto)
  BY <1>1, <1>2, <1>12, HandOverInv
<1> QED
  <2>1. \/ /\ \E c \in {NONE} \cup CapabilityIds : transition' = [cont |-> c]
           /\ bound' = TRUE /\ auto' = over /\ at' = "rest"
           /\ UNCHANGED <<thread, consumed, asked, terminal>>
        \/ bound' = bound /\ Go([auto EXCEPT !.identity = FALSE], "capability_dispatch")
        \/ bound' = bound /\ Go(over, "rest")
        \/ bound' = bound /\ HandOver(auto)
    BY <1>5, <1>7 DEF Apply
  <2> QED BY <1>9, <1>10, <1>11, <1>12, <2>1

LEMMA EffectInv ==
    ASSUME RoutingInv, NEW d \in Ids, Effect(d)
    PROVE  RoutingInv'
<1>1. /\ lock = d /\ dl[d].phase = "stream" /\ asked = NONE /\ at \in EffectNodes
      /\ bound' = bound /\ faults' = faults /\ UNCHANGED memory
      /\ UNCHANGED <<read, consent, declined, acts>>
      /\ done' = done \/ done' = done \cup PendingKeys
  BY DEF Effect, Running, StreamOn
<1>2. at \notin Begins /\ at # "rest" BY <1>1, NodeSets DEF Begins, TerminalPlaces
<1>3. Plain(auto) /\ terminal = FALSE BY <1>2, PlainPlace DEF RoutingInv, RoutingType
<1>4. /\ {"rest", "handover"} \cap (InvNodes \cup GuardrailNodes \cup EffectNodes) = {}
      /\ "handover" \in GraphNodes
  BY NodeSets, GraphFacts DEF InvNodes, TerminalNodes
<1>5. CASE Go([auto EXCEPT !.pending = NONE], "rest")
  <2>1. PICK a : a = [auto EXCEPT !.pending = NONE] OBVIOUS
  <2>2. Plain(a) /\ a.pending = NONE BY <1>3, <2>1, PlainStates
  <2>3. Fits(a, "rest", terminal) BY <1>3, <1>4, <2>2, PlainFits
  <2> QED BY <1>1, <1>2, <1>4, <1>5, <2>1, <2>2, <2>3, GoMove
<1>6. CASE HandOver(auto)
  <2>1. PICK a : a = [auto EXCEPT !.handover = TRUE, !.pending = NONE, !.inv = NONE,
                                  !.identity = FALSE]
    OBVIOUS
  <2>2. Plain(a) /\ a.pending = NONE BY <1>3, <2>1, PlainStates
  <2>3. Fits(a, "handover", terminal) BY <1>3, <1>4, <2>2, PlainFits
  <2>4. Go(a, "handover") BY <1>6, <2>1 DEF HandOver
  <2> QED BY <1>1, <1>2, <1>4, <2>2, <2>3, <2>4, GoMove
<1> QED BY <1>5, <1>6 DEF Effect

LEMMA RecoverInv ==
    ASSUME RoutingInv, NEW d \in Ids, Recover(d)
    PROVE  RoutingInv'
<1>1. /\ lock = d /\ dl[d].phase = "stream" /\ asked = NONE /\ at = "recover"
      /\ bound' = bound /\ faults' = faults /\ UNCHANGED memory
      /\ UNCHANGED <<read, consent, declined, acts>>
  BY DEF Recover, Running, StreamOn
<1>2. Fits(auto, "recover", terminal) BY <1>1 DEF RoutingInv, CheckpointKnown
<1>3. PICK r : r = auto.recovery OBVIOUS
<1>4. r # NONE /\ r \in Markers /\ auto \in Autos BY <1>2, <1>3 DEF Fits, Autos
<1>5. r.trigger \in Triggers /\ r.node \in GraphNodes BY <1>4 DEF Markers
<1>6. "rest" \notin InvNodes \cup GuardrailNodes \cup EffectNodes
      /\ "entry" \notin InvNodes \cup GuardrailNodes \cup EffectNodes
      /\ "entry" \in GraphNodes
  BY NodeSets, GraphFacts DEF InvNodes
<1>7. CASE /\ r.trigger \in {"session_restored", "confirmation_detour"} /\ done' = done
           /\ Go([auto EXCEPT !.recovery = NONE], r.node)
  <2>1. Restoring(auto) BY <1>3, <1>4, <1>7 DEF Restoring
  <2>2. /\ r.node \in RestoreNodes /\ auto.instruct = NONE /\ terminal = FALSE
        /\ r.node \in InvNodes => auto.inv \in Invocations
    BY <1>2, <1>3, <2>1 DEF Fits, RoutingInv, RoutingType
  <2>3. PICK a : a = [auto EXCEPT !.recovery = NONE] OBVIOUS
  <2>4. Plain(a) /\ a.inv = auto.inv /\ a.pending = auto.pending
    BY <1>4, <2>2, <2>3 DEF Plain, Autos
  <2>5. /\ r.node \notin EffectNodes \cup GuardrailNodes \cup
             {"recover", "router_no_action", "capability_dispatch", "cart_capability_entry"}
    BY <2>2, NodeSets, GraphFacts
  <2>6. Fits(a, r.node, terminal) BY <1>5, <2>2, <2>4, <2>5, PlainFits
  <2>7. ~Doomed(auto, at) /\ at \notin EffectNodes BY <1>1, <2>1, NodeSets DEF Doomed
  <2> QED BY <1>1, <1>7, <2>3, <2>4, <2>5, <2>6, <2>7, GoMove
<1>8. CASE /\ auto' = Cleared /\ terminal' = TRUE /\ at' = "rest"
           /\ UNCHANGED <<thread, consumed, asked, transition, done>>
  <2>1. transition = NONE BY <1>1 DEF RoutingInv, CheckpointKnown
  <2>2. bound \in BOOLEAN /\ faults \in 0..MaxFaults BY DEF RoutingInv, RoutingType
  <2>3. Fits(Cleared, "rest", TRUE)
    BY <1>6, ClearedPlain DEF Fits, Plain, Restoring, TerminalPlaces
  <2>4. GraphMove(d, Cleared, "rest")
    BY <1>1, <1>6, <1>8, <2>1, <2>2, <2>3, ClearedPlain DEF GraphMove, memory
  <2> QED BY <2>4, GraphMoveInv
<1>9. ASSUME NEW n \in {"entry", "rest"}, done' = done, Go(Cleared, n)
      PROVE  RoutingInv'
  <2>1. Fits(Cleared, n, terminal)
    BY <1>6, ClearedPlain DEF Fits, Plain, Restoring, TerminalPlaces
  <2> QED BY <1>1, <1>6, <1>9, <2>1, ClearedPlain, GoMove
<1>10. CASE r.trigger \in {"session_restored", "confirmation_detour"}
  BY <1>3, <1>7, <1>10 DEF Recover
<1>11. CASE r.trigger \in {"node_exception", "stream_cancelled"}
  <2>1. \/ /\ auto' = Cleared /\ terminal' = TRUE /\ at' = "rest"
           /\ UNCHANGED <<thread, consumed, asked, transition, done>>
        \/ done' = done /\ \E n \in {"entry", "rest"} : Go(Cleared, n)
    BY <1>3, <1>11 DEF Recover
  <2> QED BY <1>8, <1>9, <2>1
<1> QED BY <1>5, <1>10, <1>11 DEF Triggers

(* An answer that leaves no effect pending, or the same one.                *)
LEMMA SettledInv ==
    ASSUME RoutingInv, NEW d \in Ids, lock = d, dl[d].phase = "stream",
           at \in ConsentNodes \cup {"identity_collect"}, NEW a, NEW n, Settled(d, a, n),
           UNCHANGED <<consent, declined>>, Plain(a),
           n \in GraphNodes \cup {"rest"}, n \notin EffectNodes \cup GuardrailNodes \cup
             {"recover", "router_no_action", "capability_dispatch", "cart_capability_entry"},
           n \in InvNodes => a.inv \in Invocations,
           a.pending \in {NONE, auto.pending}
    PROVE  RoutingInv'
<1>1. at \notin Begins \cup EffectNodes
  BY NodeSets, GraphFacts DEF Begins, TerminalPlaces
<1>2. terminal = FALSE /\ transition = NONE BY <1>1, PlainPlace DEF RoutingInv, RoutingType
<1>3. Fits(a, n, FALSE) BY PlainFits
<1>4. ~Doomed(auto, at) BY <1>1 DEF Doomed, Begins, TerminalPlaces
<1>5. /\ auto' = a /\ at' = n /\ asked' = NONE /\ terminal' = FALSE
      /\ UNCHANGED <<thread, consumed, transition, engine, lock, detour, dl, read, consent,
                     declined, done, acts, bound, faults>>
  BY <1>2 DEF Settled, memory
<1>6. bound \in BOOLEAN /\ faults \in 0..MaxFaults BY DEF RoutingInv, RoutingType
<1>7. GraphMove(d, a, n) BY <1>1, <1>2, <1>3, <1>4, <1>5, <1>6 DEF GraphMove
<1> QED BY <1>7, GraphMoveInv

LEMMA ExpireInv ==
    ASSUME RoutingInv, NEW d \in Ids, Expire(d)
    PROVE  RoutingInv'
<1>1. /\ lock = d /\ dl[d].phase = "stream" /\ at \in ConsentNodes
      /\ UNCHANGED <<consent, declined>>
      /\ Settled(d, [auto EXCEPT !.pending = NONE], "rest")
  BY GraphFacts DEF Expire, Settled, history
<1>2. at \notin Begins BY <1>1, NodeSets, GraphFacts DEF Begins, TerminalPlaces
<1>3. PICK a : a = [auto EXCEPT !.pending = NONE] OBVIOUS
<1>4. Plain(a) /\ a.pending = NONE BY <1>2, <1>3, PlainPlace, PlainStates
<1>5. "rest" \notin InvNodes \cup GuardrailNodes \cup EffectNodes BY NodeSets DEF InvNodes
<1> QED BY <1>1, <1>3, <1>4, <1>5, SettledInv

LEMMA ReachPersonInv ==
    ASSUME RoutingInv, NEW d \in Ids, lock = d, dl[d].phase = "stream",
           at \in ConsentNodes \cup {"identity_collect"}, ReachPerson(d)
    PROVE  RoutingInv'
<1>1. at \notin Begins BY NodeSets, GraphFacts DEF Begins, TerminalPlaces
<1>2. PICK a : a = [auto EXCEPT !.handover = TRUE, !.pending = NONE, !.inv = NONE,
                                !.identity = FALSE]
  OBVIOUS
<1>3. Plain(a) /\ a.pending = NONE BY <1>1, <1>2, PlainPlace, PlainStates
<1>4. "handover" \in GraphNodes /\ "handover" \notin InvNodes \cup GuardrailNodes \cup EffectNodes
  BY NodeSets, GraphFacts DEF InvNodes, TerminalNodes
<1>5. Settled(d, a, "handover") /\ UNCHANGED <<consent, declined>> BY <1>2 DEF ReachPerson
<1> QED BY <1>3, <1>4, <1>5, SettledInv

LEMMA HearCodeInv ==
    ASSUME RoutingInv, NEW d \in Ids, HearCode(d)
    PROVE  RoutingInv'
<1>1. lock = d /\ dl[d].phase = "stream" /\ at = "identity_collect" BY DEF HearCode
<1>2. at \notin Begins BY <1>1 DEF Begins, TerminalPlaces
<1>3. Plain(auto) /\ auto.inv \in Invocations
  BY <1>1, <1>2, PlainPlace DEF RoutingInv, CheckpointKnown, Fits, InvNodes
<1>4. /\ {"identity_apply", "identity_collect"} \subseteq GraphNodes
      /\ {"identity_apply", "identity_collect"} \cap (GuardrailNodes \cup EffectNodes) = {}
  BY NodeSets, GraphFacts
<1>5. ASSUME NEW n \in {"identity_apply", "identity_collect"}, Settled(d, auto, n),
             UNCHANGED <<consent, declined>>
      PROVE  RoutingInv'
  BY <1>1, <1>3, <1>4, <1>5, SettledInv
<1>6. CASE ReachPerson(d) BY <1>1, <1>6, ReachPersonInv
<1> QED BY <1>5, <1>6 DEF HearCode


-----------------------------------------------------------------------------
(* The ledger of consumed turns.                                            *)

LEMMA ConsumeFacts ==
    ASSUME consumed \in Seq(Ids), NEW m \in Ids, consumed' = Consume(m)
    PROVE  /\ consumed' \in Seq(Ids) /\ Consumed(m)'
           /\ \A x \in Ids : Consumed(x) => Consumed(x)'
<1>1. CASE Consumed(m) BY <1>1 DEF Consume, Consumed
<1>2. CASE ~Consumed(m)
  <2>1. consumed' = Append(consumed, m) BY <1>2 DEF Consume, Consumed
  <2>2. /\ DOMAIN consumed = 1..Len(consumed) /\ Len(consumed) \in Nat
        /\ DOMAIN consumed' = 1..(Len(consumed) + 1) /\ consumed' \in Seq(Ids)
        /\ consumed'[Len(consumed) + 1] = m
        /\ \A i \in DOMAIN consumed : consumed'[i] = consumed[i]
    BY <2>1
  <2>3. Consumed(m)'
    <3>1. Len(consumed) + 1 \in DOMAIN consumed' BY <2>2
    <3> QED BY <2>2, <3>1 DEF Consumed
  <2>4. ASSUME NEW x \in Ids, Consumed(x) PROVE Consumed(x)'
    <3>1. PICK i \in DOMAIN consumed : consumed[i] = x BY <2>4 DEF Consumed
    <3>2. i \in DOMAIN consumed' /\ consumed'[i] = x BY <2>2, <3>1
    <3> QED BY <3>2 DEF Consumed
  <2> QED BY <2>2, <2>3, <2>4
<1> QED BY <1>1, <1>2

LEMMA ActsStep ==
    ASSUME RoutingInv, NEW d \in Ids, consumed' = Consume(dl[d].message),
           acts' = acts \/ (~Consumed(dl[d].message) /\ Act(d))
    PROVE  ActsKnown' /\ consumed' \in Seq(Ids)
<1>1. PICK m : m = dl[d].message OBVIOUS
<1>2. m \in Ids /\ consumed \in Seq(Ids) BY <1>1 DEF RoutingInv, RoutingType
<1>3. /\ consumed' \in Seq(Ids) /\ Consumed(m)'
      /\ \A x \in Ids : Consumed(x) => Consumed(x)'
  BY <1>1, <1>2, ConsumeFacts
<1>4. CASE acts' = acts BY <1>3, <1>4 DEF RoutingInv, ActsKnown
<1>5. CASE ~Consumed(m) /\ acts' = [acts EXCEPT ![m] = @ + 1]
  <2>1. acts \in [Ids -> {0, 1}] /\ acts[m] = 0 BY <1>2, <1>5 DEF RoutingInv, ActsKnown
  <2>2. /\ acts' \in [Ids -> {0, 1}] /\ acts'[m] = 1
        /\ \A x \in Ids : x # m => acts'[x] = acts[x]
    BY <1>2, <1>5, <2>1
  <2>3. \A x \in Ids : acts'[x] = 1 => Consumed(x)'
    BY <1>3, <2>1, <2>2 DEF RoutingInv, ActsKnown
  <2> QED BY <1>3, <2>2, <2>3 DEF ActsKnown
<1> QED BY <1>1, <1>4, <1>5 DEF Act

-----------------------------------------------------------------------------
(* The end of a delivery.                                                   *)

(* No delivery holds the lock any more.                                     *)
Stopped ==
    /\ lock' = NONE /\ detour' = NONE
    /\ dl' \in [Ids -> [phase : {"new", "queued"} \cup Working \cup {"over"}, message : Ids,
                        thread : Nat, saw : {0} \cup Ids, knew : SUBSET Keys]]
    /\ \A e \in Ids :
          /\ dl'[e].phase \notin Working
          /\ dl'[e].saw = 0 \/ (dl'[e].saw = dl[e].saw /\ dl'[e].knew = dl[e].knew)
          /\ Started(e) => dl'[e].phase = "over"

(* What the checkpoint may hold then.                                       *)
Ending(a, n) ==
    /\ Stopped
    /\ auto' = a /\ at' = n /\ Fits(a, n, terminal')
    /\ \/ asked' = asked /\ a = auto /\ n = at
       \/ /\ asked' = NONE /\ n \notin EffectNodes
          /\ \/ a.pending = NONE
             \/ /\ a.pending = auto.pending
                /\ Doomed(auto, at) \/ at \in EffectNodes => Doomed(a, n)
    /\ done' = done \/ (at \in EffectNodes /\ done' = done \cup PendingKeys)
    /\ thread' \in Nat /\ consumed' \in Seq(Ids) /\ ActsKnown'
    /\ terminal' \in BOOLEAN /\ bound' \in BOOLEAN /\ faults' \in 0..MaxFaults
    /\ engine' \in {"up", "latched", "refused"}
    /\ transition' \in {NONE} \cup [cont : {NONE} \cup CapabilityIds]
    /\ transition' # NONE => n = "rest"
    /\ UNCHANGED <<read, consent, declined>>

LEMMA OverStops ==
    ASSUME RoutingInv, NEW d \in Ids, lock = d, Over(d)
    PROVE  Stopped
<1>1. PICK r : r = Forgotten(dl[d]) OBVIOUS
<1>2. dl' = [dl EXCEPT ![d] = r] /\ lock' = NONE /\ detour' = NONE BY <1>1 DEF Over
<1>3. /\ dl[d] \in [phase : {"new", "queued"} \cup Working \cup {"over"}, message : Ids,
                    thread : Nat, saw : {0} \cup Ids, knew : SUBSET Keys]
      /\ dl \in [Ids -> [phase : {"new", "queued"} \cup Working \cup {"over"}, message : Ids,
                    thread : Nat, saw : {0} \cup Ids, knew : SUBSET Keys]]
  BY DEF RoutingInv, RoutingType
<1>4. /\ r.phase = "over" /\ r.saw = 0
      /\ r \in [phase : {"new", "queued"} \cup Working \cup {"over"}, message : Ids,
                thread : Nat, saw : {0} \cup Ids, knew : SUBSET Keys]
  BY <1>1, <1>3 DEF Forgotten
<1>5. /\ dl' \in [Ids -> [phase : {"new", "queued"} \cup Working \cup {"over"}, message : Ids,
                          thread : Nat, saw : {0} \cup Ids, knew : SUBSET Keys]]
      /\ dl'[d] = r /\ \A e \in Ids : e # d => dl'[e] = dl[e]
  BY <1>2, <1>3, <1>4
<1>6. \A e \in Ids : e # d => dl[e].phase \notin Working BY DEF RoutingInv, LockKnown
<1> QED BY <1>2, <1>4, <1>5, <1>6 DEF Stopped, Started, Working

LEMMA EndingInv ==
    ASSUME RoutingInv, NEW a, NEW n, Ending(a, n)
    PROVE  RoutingInv'
<1>1. PendingKeys \subseteq Keys /\ PendingKeys = KeysOf(auto) BY PendingTyped
<1>2. PendingKeys' = KeysOf(a) BY DEF Ending, PendingKeys, KeysOf
<1>3. KeysOf(a) = {} \/ KeysOf(a) = PendingKeys BY <1>1 DEF Ending, KeysOf
<1>5. lock' = NONE /\ detour' = NONE BY DEF Ending, Stopped
<1>6. dl \in [Ids -> [phase : {"new", "queued"} \cup Working \cup {"over"}, message : Ids,
                    thread : Nat, saw : {0} \cup Ids, knew : SUBSET Keys]]
  BY DEF RoutingInv, RoutingType
<1>8. /\ dl' \in [Ids -> [phase : {"new", "queued"} \cup Working \cup {"over"}, message : Ids,
                          thread : Nat, saw : {0} \cup Ids, knew : SUBSET Keys]]
      /\ \A e \in Ids : dl'[e].saw = 0 \/ (dl'[e].saw = dl[e].saw /\ dl'[e].knew = dl[e].knew)
  BY DEF Ending, Stopped
<1>9. \A e \in Ids : dl'[e].phase \notin Working BY DEF Ending, Stopped
<1>10. \A e \in Ids : Started(e) => Started(e)' BY DEF Ending, Stopped, Started
<1>11. \A e \in Ids : dl[e].phase = "over" => dl'[e].phase = "over"
  BY DEF Ending, Stopped, Started
<1>12. done' \subseteq done \cup PendingKeys /\ (done' # done => at \in EffectNodes)
  BY DEF Ending
<1>13. RoutingType'
  <2>1. done' \subseteq Keys BY <1>1, <1>12 DEF RoutingInv, RoutingType
  <2>2. asked' \in {NONE} \cup Questions BY DEF Ending, RoutingInv, RoutingType
  <2>3. read' \subseteq Keys /\ consent' \subseteq Keys /\ declined' \subseteq Keys
    BY DEF Ending, RoutingInv, RoutingType
  <2> QED BY <1>5, <1>8, <2>1, <2>2, <2>3 DEF Ending, RoutingType
<1>14. CheckpointKnown'
  BY DEF RoutingInv, CheckpointKnown, Ending
<1>15. asked' # NONE => asked' = asked /\ asked.id \in Ids /\ PendingKeys' = PendingKeys
  BY <1>1, <1>2 DEF Ending, RoutingInv, RoutingType, Questions
<1>16. LockKnown'
  <2>1. \A e \in Ids : dl'[e].saw # 0 => dl[e].saw = dl'[e].saw /\ dl[e].saw \in Ids
    BY <1>6, <1>8
  <2>2. \A e \in Ids : dl'[e].saw # 0 => Started(dl[e].saw)'
    BY <1>10, <2>1 DEF RoutingInv, LockKnown
  <2>3. asked' # NONE => Started(asked.id)' BY <1>10, <1>15 DEF RoutingInv, LockKnown
  <2> QED BY <1>9, <2>1, <2>2, <2>3 DEF LockKnown, Started
<1>17. QuestionKnown'
  <2>1. lock' \notin Ids BY <1>5, NoneAssumption
  <2>2. asked' # NONE => PendingKeys' \subseteq read'
    BY <1>15 DEF RoutingInv, QuestionKnown, Ending
  <2>3. \A e \in Ids : asked' # NONE /\ dl'[e].saw = asked'.id => PendingKeys' \subseteq dl'[e].knew
    <3>1. 0 \notin Ids BY DEF Ids
    <3> QED BY <1>8, <1>15, <3>1 DEF RoutingInv, QuestionKnown
  <2> QED BY <1>9, <2>1, <2>2, <2>3 DEF QuestionKnown, Working
<1>18. KeysKnown'
  <2>1. \A k \in PendingKeys' : Started(k[1])'
    BY <1>1, <1>2, <1>3, <1>10 DEF RoutingInv, KeysKnown, Keys
  <2>2. \A k \in declined' \cup done' : dl'[k[1]].phase = "over"
    <3>1. \A k \in declined \cup done' : k \in Keys /\ dl[k[1]].phase = "over"
      BY <1>1, <1>12 DEF RoutingInv, KeysKnown, RoutingType
    <3> QED BY <1>11, <3>1 DEF Ending, Keys
  <2>3. at' \in EffectNodes => \A k \in PendingKeys' : dl'[k[1]].phase = "over"
    <3>1. at' \in EffectNodes => at \in EffectNodes /\ PendingKeys' = PendingKeys
      BY <1>1, <1>2 DEF Ending
    <3> QED BY <1>1, <1>11, <3>1 DEF RoutingInv, KeysKnown, Keys
  <2> QED BY <1>9, <2>1, <2>2, <2>3 DEF KeysKnown, Working
<1>19. EffectKnown'
  <2>1. done' \subseteq consent /\ declined \cap done' = {}
    <3>1. CASE done' = done BY <3>1 DEF RoutingInv, EffectKnown
    <3>2. CASE at \in EffectNodes /\ done' = done \cup PendingKeys
      <4>1. ~Doomed(auto, at) BY <3>2, NodeSets DEF Doomed
      <4> QED BY <3>2, <4>1 DEF RoutingInv, EffectKnown
    <3> QED BY <3>1, <3>2 DEF Ending
  <2>2. Doomed(auto, at)' = Doomed(a, n) BY DEF Doomed, Restoring, Ending
  <2>3. CASE asked' = asked /\ a = auto /\ n = at
    <3>1. PendingKeys' = PendingKeys BY <1>1, <1>2, <2>3
    <3> QED BY <1>5, <1>12, <2>1, <2>2, <2>3, <3>1 DEF RoutingInv, EffectKnown, Ending
  <2>4. CASE n \notin EffectNodes /\ a.pending = NONE
    <3>1. PendingKeys' = {} BY <1>2, <2>4 DEF KeysOf
    <3> QED BY <2>1, <2>4, <3>1 DEF EffectKnown, Ending
  <2>5. CASE /\ n \notin EffectNodes /\ a.pending = auto.pending
             /\ Doomed(auto, at) \/ at \in EffectNodes => Doomed(a, n)
    <3>1. PendingKeys' = PendingKeys BY <1>1, <1>2, <2>5 DEF KeysOf
    <3> QED BY <1>12, <2>1, <2>2, <2>5, <3>1 DEF RoutingInv, EffectKnown, Ending
  <2> QED BY <2>3, <2>4, <2>5 DEF Ending
<1>20. DetourKnown' BY <1>5 DEF DetourKnown
<1>21. ActsKnown' BY DEF Ending
<1> QED BY <1>13, <1>14, <1>16, <1>17, <1>18, <1>19, <1>20, <1>21 DEF RoutingInv


LEMMA LeavesInv ==
    ASSUME RoutingInv, NEW d \in Ids,
           IgnoreDuplicate(d) \/ MissedThread(d) \/ Finish(d) \/ CancelOutside(d)
    PROVE  RoutingInv'
<1>1. /\ lock = d /\ dl[d].phase \in Working /\ Over(d)
      /\ UNCHANGED <<thread, auto, terminal, at, asked, transition, engine, bound,
                     read, consent, declined, done, acts>>
      /\ consumed' = consumed \/ consumed' = Consume(dl[d].message)
      /\ faults' = faults \/ (faults < MaxFaults /\ faults' = faults + 1)
  BY DEF IgnoreDuplicate, MissedThread, Finish, CancelOutside, Ordinary, Deciding, Working,
     Fault, checkpoint, history
<1>2. Fits(auto, at, terminal) /\ (transition # NONE => at = "rest")
  BY DEF RoutingInv, CheckpointKnown
<1>3. ActsKnown' /\ consumed' \in Seq(Ids)
  <2>1. CASE consumed' = consumed
    BY <1>1, <2>1 DEF RoutingInv, RoutingType, ActsKnown, Consumed
  <2>2. CASE consumed' = Consume(dl[d].message) BY <1>1, <2>2, ActsStep
  <2> QED BY <1>1, <2>1, <2>2
<1>4. faults' \in 0..MaxFaults BY <1>1, RegistryAssumption DEF RoutingInv, RoutingType
<1>5. /\ thread \in Nat /\ terminal \in BOOLEAN /\ bound \in BOOLEAN
      /\ engine \in {"up", "latched", "refused"}
      /\ transition \in {NONE} \cup [cont : {NONE} \cup CapabilityIds]
  BY DEF RoutingInv, RoutingType
<1>6. Ending(auto, at) BY <1>1, <1>2, <1>3, <1>4, <1>5, OverStops DEF Ending
<1> QED BY <1>6, EndingInv

LEMMA LastResortInv ==
    ASSUME RoutingInv, NEW d \in Ids, lock = d, dl[d].phase \in Working, LastResort, Over(d),
           Fault, done' = done \/ (at \in EffectNodes /\ done' = done \cup PendingKeys),
           UNCHANGED <<read, consent, declined, acts>>
    PROVE  RoutingInv'
<1>1. Fits(auto, at, terminal) BY DEF RoutingInv, CheckpointKnown
<1>2. /\ engine' = "latched" /\ transition' = NONE /\ UNCHANGED <<thread, consumed>>
      /\ bound' = bound /\ faults' = faults + 1 /\ faults < MaxFaults
  BY DEF LastResort, Fault
<1>3. ActsKnown' /\ consumed' \in Seq(Ids)
  BY <1>2 DEF RoutingInv, RoutingType, ActsKnown, Consumed
<1>4. faults' \in 0..MaxFaults BY <1>2, RegistryAssumption DEF RoutingInv, RoutingType
<1>5. thread \in Nat /\ terminal \in BOOLEAN /\ bound \in BOOLEAN BY DEF RoutingInv, RoutingType
<1>6. CASE auto' = Cleared /\ terminal' = TRUE /\ at' = "rest" /\ asked' = NONE
  <2>1. "rest" \notin InvNodes \cup GuardrailNodes \cup EffectNodes BY NodeSets DEF InvNodes
  <2>2. Fits(Cleared, "rest", TRUE)
    BY <2>1, ClearedPlain DEF Fits, Plain, Restoring, TerminalPlaces
  <2>3. Ending(Cleared, "rest")
    BY <1>2, <1>3, <1>4, <1>5, <1>6, <2>1, <2>2, ClearedPlain, OverStops DEF Ending
  <2> QED BY <2>3, EndingInv
<1>7. CASE UNCHANGED <<thread, consumed, auto, terminal, at, asked>>
  <2>1. Ending(auto, at) BY <1>1, <1>2, <1>3, <1>4, <1>5, <1>7, OverStops DEF Ending
  <2> QED BY <2>1, EndingInv
<1> QED BY <1>6, <1>7 DEF LastResort

(* A rotation leaves a fresh checkpoint, with at most a continuation.       *)
LEMMA RotateFacts ==
    ASSUME RoutingInv, NEW d \in Ids, RotateThread(d), transition # NONE, ~terminal,
           UNCHANGED acts
    PROVE  /\ Plain(auto') /\ auto'.pending = NONE /\ at' \in {"rest", "entry"}
           /\ Fits(auto', at', FALSE) /\ at' \notin EffectNodes /\ asked' = NONE
           /\ transition' = NONE /\ terminal' = FALSE
           /\ thread' \in Nat /\ consumed' \in Seq(Ids) /\ ActsKnown'
<1>1. /\ thread' = thread + 1 /\ consumed' = Consume(dl[d].message)
      /\ asked' = NONE /\ transition' = NONE /\ terminal' = terminal
      /\ at' \in {"rest", "entry"}
  BY DEF RotateThread
<1>2. terminal' = FALSE /\ thread' \in Nat BY <1>1 DEF RoutingInv, RoutingType
<1>3. ActsKnown' /\ consumed' \in Seq(Ids) BY <1>1, ActsStep
<1>4. PICK c : c = transition.cont OBVIOUS
<1>5. c \in {NONE} \cup CapabilityIds BY <1>4 DEF RoutingInv, RoutingType
<1>6. PICK v : v = Invocation(<<d, thread + 1>>, c, "none") OBVIOUS
<1>7. auto' = IF c = NONE THEN Cleared ELSE [Cleared EXCEPT !.inv = v]
  BY <1>4, <1>6 DEF RotateThread
<1>8. Plain(auto') /\ auto'.pending = NONE
  <2>1. CASE c = NONE BY <1>7, <2>1, ClearedPlain
  <2>2. CASE c # NONE
    <3>1. v \in Invocations
      BY <1>5, <1>6, <2>2
      DEF Invocation, Invocations, InvocationIds, OrderTargets, RoutingInv, RoutingType
    <3>2. auto' = [Cleared EXCEPT !.inv = v] BY <1>7, <2>2
    <3> QED BY <3>1, <3>2, ClearedPlain DEF Plain, Autos
  <2> QED BY <2>1, <2>2
<1>9. /\ {"rest", "entry"} \cap (InvNodes \cup GuardrailNodes \cup EffectNodes) = {}
      /\ "entry" \in GraphNodes
  BY NodeSets, GraphFacts DEF InvNodes
<1>10. Fits(auto', at', FALSE) BY <1>1, <1>8, <1>9, PlainFits
<1> QED BY <1>1, <1>2, <1>3, <1>8, <1>9, <1>10

LEMMA CancelStreamInv ==
    ASSUME RoutingInv, NEW d \in Ids, CancelStream(d)
    PROVE  RoutingInv'
<1>1. /\ lock = d /\ dl[d].phase = "stream" /\ dl[d].phase \in Working /\ Over(d) /\ Fault
      /\ done' = done \/ (at \in EffectNodes /\ done' = done \cup PendingKeys)
      /\ UNCHANGED <<read, consent, declined, acts>>
      /\ bound' = bound /\ faults' = faults + 1 /\ faults < MaxFaults
  BY DEF CancelStream, Fault, Working
<1>2. faults' \in 0..MaxFaults BY <1>1, RegistryAssumption DEF RoutingInv, RoutingType
<1>3. /\ thread \in Nat /\ terminal \in BOOLEAN /\ bound \in BOOLEAN
      /\ engine \in {"up", "latched", "refused"}
      /\ transition \in {NONE} \cup [cont : {NONE} \cup CapabilityIds]
      /\ dl[d].message \in Ids
  BY DEF RoutingInv, RoutingType
<1>4. Fits(auto, at, terminal) /\ (transition # NONE => at = "rest")
  BY DEF RoutingInv, CheckpointKnown
<1>5. CASE transition # NONE /\ ~terminal /\ RotateThread(d) /\ UNCHANGED engine
  <2>1. /\ auto'.pending = NONE /\ Fits(auto', at', FALSE) /\ at' \notin EffectNodes
        /\ asked' = NONE /\ transition' = NONE /\ terminal' = FALSE
        /\ thread' \in Nat /\ consumed' \in Seq(Ids) /\ ActsKnown'
    BY <1>1, <1>5, RotateFacts
  <2>2. PICK a : a = auto' OBVIOUS
  <2>3. PICK n : n = at' OBVIOUS
  <2>4. Ending(a, n) BY <1>1, <1>2, <1>3, <1>5, <2>1, <2>2, <2>3, OverStops DEF Ending
  <2> QED BY <2>4, EndingInv
<1>6. CASE UNCHANGED <<checkpoint, engine>>
  <2>1. UNCHANGED <<thread, consumed, auto, terminal, at, asked, transition, engine>>
    BY <1>6 DEF checkpoint
  <2>2. ActsKnown' /\ consumed' \in Seq(Ids)
    BY <1>1, <2>1 DEF RoutingInv, RoutingType, ActsKnown, Consumed
  <2>3. Ending(auto, at) BY <1>1, <1>2, <1>3, <1>4, <2>1, <2>2, OverStops DEF Ending
  <2> QED BY <2>3, EndingInv
<1>7. CASE /\ at # "rest" /\ transition = NONE
           /\ auto' = [auto EXCEPT !.recovery = Marker(at, "stream_cancelled", dl[d].message)]
           /\ at' = "entry" /\ asked' = NONE
           /\ UNCHANGED <<thread, consumed, terminal, transition, engine>>
  <2>1. auto \in Autos /\ at \in GraphNodes BY <1>4, <1>7 DEF Fits
  <2>2. PICK r : r = Marker(at, "stream_cancelled", dl[d].message) OBVIOUS
  <2>3. r \in Markers /\ r # NONE /\ r.trigger = "stream_cancelled"
    BY <1>3, <2>1, <2>2, MarkerFacts DEF Triggers
  <2>4. PICK a : a = [auto EXCEPT !.recovery = r] OBVIOUS
  <2>5. /\ a \in Autos /\ a.recovery = r /\ a.inv = auto.inv /\ a.pending = auto.pending
        /\ a.instruct = auto.instruct
    BY <2>1, <2>3, <2>4, MarkedFacts
  <2>6. /\ "entry" \notin InvNodes \cup GuardrailNodes \cup EffectNodes /\ "entry" \in GraphNodes
    BY NodeSets, GraphFacts DEF InvNodes
  <2>7. Fits(a, "entry", terminal)
    BY <1>4, <2>3, <2>5, <2>6 DEF Fits, Restoring, TerminalPlaces, InvNodes
  <2>8. Doomed(a, "entry") BY <2>3, <2>5 DEF Doomed, Restoring
  <2>9. ActsKnown' /\ consumed' \in Seq(Ids)
    BY <1>1, <1>7 DEF RoutingInv, RoutingType, ActsKnown, Consumed
  <2>10. auto' = a BY <1>7, <2>2, <2>4
  <2>11. Ending(a, "entry")
    BY <1>1, <1>2, <1>3, <1>7, <2>5, <2>6, <2>7, <2>8, <2>9, <2>10, OverStops DEF Ending
  <2> QED BY <2>11, EndingInv
<1>8. CASE LastResort BY <1>1, <1>8, LastResortInv
<1> QED BY <1>5, <1>6, <1>7, <1>8 DEF CancelStream

LEMMA NodeFailsInv ==
    ASSUME RoutingInv, NEW d \in Ids, NodeFails(d)
    PROVE  RoutingInv'
<1>1. /\ lock = d /\ dl[d].phase = "stream" /\ dl[d].phase \in Working /\ at # "rest" /\ Fault
      /\ done' = done \/ (at \in EffectNodes /\ done' = done \cup PendingKeys)
      /\ UNCHANGED <<read, consent, declined, acts>>
      /\ bound' = bound /\ faults' = faults + 1 /\ faults < MaxFaults
  BY DEF NodeFails, Fault, Working
<1>2. faults' \in 0..MaxFaults BY <1>1, RegistryAssumption DEF RoutingInv, RoutingType
<1>3. terminal \in BOOLEAN /\ bound \in BOOLEAN BY DEF RoutingInv, RoutingType
<1>4. Fits(auto, at, terminal) /\ transition = NONE BY <1>1 DEF RoutingInv, CheckpointKnown
<1>5. CASE LastResort /\ Over(d) BY <1>1, <1>5, LastResortInv
<1>6. CASE /\ at \in Infrastructure /\ auto' = Cleared /\ terminal' = TRUE /\ at' = "rest"
           /\ UNCHANGED <<thread, consumed, asked, transition, memory>>
  <2>1. asked = NONE
    BY <1>6, NodeSets, GraphFacts DEF Infrastructure, RoutingInv, CheckpointKnown
  <2>2. "rest" \notin InvNodes \cup GuardrailNodes \cup EffectNodes BY NodeSets DEF InvNodes
  <2>3. Fits(Cleared, "rest", TRUE)
    BY <2>2, ClearedPlain DEF Fits, Plain, Restoring, TerminalPlaces
  <2>4. GraphMove(d, Cleared, "rest")
    BY <1>1, <1>2, <1>3, <1>4, <1>6, <2>1, <2>2, <2>3, ClearedPlain DEF GraphMove, memory
  <2> QED BY <2>4, GraphMoveInv
<1>7. CASE /\ auto' = [auto EXCEPT !.recovery = Marker(at, "node_exception", NONE)]
           /\ at' = "recover" /\ asked' = NONE
           /\ UNCHANGED <<thread, consumed, terminal, transition, memory>>
  <2>1. auto \in Autos /\ at \in GraphNodes BY <1>1, <1>4 DEF Fits
  <2>2. PICK r : r = Marker(at, "node_exception", NONE) OBVIOUS
  <2>3. r \in Markers /\ r # NONE /\ r.trigger = "node_exception"
    BY <2>1, <2>2, MarkerFacts DEF Triggers
  <2>4. PICK a : a = [auto EXCEPT !.recovery = r] OBVIOUS
  <2>5. /\ a \in Autos /\ a.recovery = r /\ a.inv = auto.inv /\ a.pending = auto.pending
        /\ a.instruct = auto.instruct
    BY <2>1, <2>3, <2>4, MarkedFacts
  <2>6. /\ "recover" \notin InvNodes \cup GuardrailNodes \cup EffectNodes
        /\ "recover" \in GraphNodes
    BY NodeSets, GraphFacts DEF InvNodes, Infrastructure
  <2>7. Fits(a, "recover", terminal)
    BY <1>4, <2>3, <2>5, <2>6 DEF Fits, Restoring, TerminalPlaces, InvNodes
  <2>8. Doomed(a, "recover") BY <2>3, <2>5 DEF Doomed, Restoring
  <2>9. auto' = a BY <1>7, <2>2, <2>4
  <2>10. GraphMove(d, a, "recover")
    BY <1>1, <1>2, <1>3, <1>4, <1>7, <2>5, <2>6, <2>7, <2>8, <2>9 DEF GraphMove, memory
  <2> QED BY <2>10, GraphMoveInv
<1> QED BY <1>5, <1>6, <1>7 DEF NodeFails


-----------------------------------------------------------------------------
(* The graph is started, or its thread replaced, by the delivery that holds *)
(* the lock.                                                                *)
Turning(d, a, n, p) ==
    /\ lock = d /\ lock' = d /\ p \in Working /\ dl' = [dl EXCEPT ![d].phase = p]
    /\ dl[d].phase = "admitted" \/ (dl[d].phase = "ended" /\ asked = NONE)
    /\ auto' = a /\ at' = n /\ asked' = NONE /\ Fits(a, n, terminal') /\ n \notin EffectNodes
    /\ \/ a.pending = NONE
       \/ /\ a.pending = auto.pending /\ p = "stream" /\ at \notin EffectNodes
          /\ Doomed(auto, at) \/ declined' # declined => Doomed(a, n)
       \/ /\ p = "stream" /\ declined' = declined
          /\ \A k \in KeysOf(a) : Started(k[1]) /\ k \notin declined \cup done
    /\ \/ declined' = declined
       \/ /\ dl[d].phase = "admitted" /\ at \in ConsentNodes
          /\ declined' = declined \cup PendingKeys
    /\ detour' = NONE \/ DetourKnown'
    /\ thread' \in Nat /\ consumed' \in Seq(Ids) /\ ActsKnown' /\ terminal' \in BOOLEAN
    /\ transition' = NONE
    /\ UNCHANGED <<bound, engine, faults, read, consent, done>>

LEMMA TurningInv ==
    ASSUME RoutingInv, NEW d \in Ids, NEW a, NEW n, NEW p, Turning(d, a, n, p)
    PROVE  RoutingInv'
<1>1. PendingKeys \subseteq Keys /\ PendingKeys = KeysOf(auto) BY PendingTyped
<1>2. PendingKeys' = KeysOf(a) BY DEF Turning, PendingKeys, KeysOf
<1>3. a \in Autos BY DEF Turning, Fits
<1>4. KeysOf(a) \subseteq Keys BY <1>3 DEF KeysOf, Autos, Pendings
<1>5. /\ dl \in [Ids -> [phase : {"new", "queued"} \cup Working \cup {"over"}, message : Ids,
                         thread : Nat, saw : {0} \cup Ids, knew : SUBSET Keys]]
  BY DEF RoutingInv, RoutingType
<1>6. /\ dl' \in [Ids -> [phase : {"new", "queued"} \cup Working \cup {"over"}, message : Ids,
                          thread : Nat, saw : {0} \cup Ids, knew : SUBSET Keys]]
      /\ dl'[d].phase = p
      /\ \A e \in Ids : dl'[e].saw = dl[e].saw /\ dl'[e].knew = dl[e].knew
      /\ \A e \in Ids : e # d => dl'[e].phase = dl[e].phase
  BY <1>5 DEF Turning
<1>7. \A e \in Ids : dl[e].phase \in Working => e = d
  BY DEF RoutingInv, LockKnown, Turning
<1>8. \A e \in Ids : Started(e) => Started(e)' BY <1>6 DEF Started, Turning
<1>9. dl[d].phase # "over" BY DEF Turning
<1>10. \A e \in Ids : dl[e].phase = "over" => dl'[e].phase = "over" BY <1>6, <1>9
<1>11. \A k \in declined' : k \in Keys /\ dl[k[1]].phase = "over"
  <2>1. \A k \in declined : k \in Keys /\ dl[k[1]].phase = "over"
    BY DEF RoutingInv, KeysKnown, RoutingType
  <2>2. CASE dl[d].phase = "admitted" /\ declined' = declined \cup PendingKeys
    <3>1. \A k \in PendingKeys : k[1] \in Ids /\ Started(k[1]) /\ k[1] # d
      BY <1>1, <2>2 DEF RoutingInv, KeysKnown, Keys
    <3>2. \A k \in PendingKeys : dl[k[1]].phase = "over" BY <1>7, <3>1 DEF Started
    <3> QED BY <1>1, <2>1, <2>2, <3>2
  <2> QED BY <2>1, <2>2 DEF Turning
<1>12. RoutingType'
  <2>1. declined' \subseteq Keys BY <1>11
  <2> QED BY <1>6, <2>1 DEF RoutingInv, RoutingType, Turning
<1>13. CheckpointKnown' BY DEF CheckpointKnown, Turning
<1>14. LockKnown'
  <2>1. \A e \in Ids : dl'[e].phase \in Working => lock' = e BY <1>6, <1>7 DEF Turning
  <2>2. \A e \in Ids : dl[e].saw # 0 => dl[e].saw \in Ids /\ Started(dl[e].saw)
    BY <1>5 DEF RoutingInv, LockKnown
  <2>3. \A e \in Ids : dl'[e].saw # 0 => Started(dl[e].saw)' BY <1>6, <1>8, <2>2
  <2> QED BY <1>6, <2>1, <2>3 DEF LockKnown, Started, Turning
<1>15. QuestionKnown'
  <2>1. \A e \in Ids : dl[e].saw # lock BY DEF RoutingInv, QuestionKnown, Turning
  <2> QED BY <1>6, <2>1 DEF QuestionKnown, Turning
<1>16. \A k \in KeysOf(a) : k[1] \in Ids /\ Started(k[1])
  <2>1. KeysOf(a) = {} \/ KeysOf(a) = PendingKeys \/ \A k \in KeysOf(a) : Started(k[1])
    BY <1>1 DEF Turning, KeysOf
  <2>2. \A k \in PendingKeys : Started(k[1]) BY DEF RoutingInv, KeysKnown
  <2> QED BY <1>4, <2>1, <2>2 DEF Keys
<1>17. KeysKnown'
  <2>1. \A k \in PendingKeys' : Started(k[1])' BY <1>2, <1>8, <1>16
  <2>2. ASSUME NEW e \in Ids,
               dl'[e].phase = "admitted" \/ (dl'[e].phase = "stream" /\ asked' # NONE)
        PROVE  \A k \in PendingKeys' : k[1] # e
    <3>1. dl'[e].phase = "admitted" /\ e = d BY <1>6, <1>7, <2>2 DEF Turning, Working
    <3>2. a.pending = NONE BY <1>6, <3>1 DEF Turning
    <3> QED BY <1>2, <3>2 DEF KeysOf
  <2>3. \A k \in declined' \cup done' : dl'[k[1]].phase = "over"
    <3>1. \A k \in done' : k \in Keys /\ dl[k[1]].phase = "over"
      BY DEF RoutingInv, KeysKnown, RoutingType, Turning
    <3> QED BY <1>10, <1>11, <3>1 DEF Keys
  <2>4. at' \notin EffectNodes BY DEF Turning
  <2> QED BY <2>1, <2>2, <2>3, <2>4 DEF KeysKnown
<1>18. EffectKnown'
  <2>1. done' \subseteq consent' BY DEF RoutingInv, EffectKnown, Turning
  <2>2. declined' \cap done' = {}
    <3>1. CASE declined' = declined BY <3>1 DEF RoutingInv, EffectKnown, Turning
    <3>2. CASE at \in ConsentNodes /\ declined' = declined \cup PendingKeys
      <4>1. ~Doomed(auto, at) /\ at \notin EffectNodes
        BY <3>2, NodeSets, GraphFacts DEF Doomed
      <4> QED BY <3>2, <4>1 DEF RoutingInv, EffectKnown, Turning
    <3> QED BY <3>1, <3>2 DEF Turning
  <2>3. Doomed(auto, at)' = Doomed(a, n) BY DEF Doomed, Restoring, Turning
  <2>4. KeysOf(a) \cap (declined' \cup done) # {} => Doomed(a, n)
    <3>1. CASE a.pending = NONE BY <3>1 DEF KeysOf
    <3>2. CASE /\ a.pending = auto.pending /\ at \notin EffectNodes
               /\ Doomed(auto, at) \/ declined' # declined => Doomed(a, n)
      <4>1. KeysOf(a) = PendingKeys BY <1>1, <3>2 DEF KeysOf
      <4> QED BY <3>2, <4>1 DEF RoutingInv, EffectKnown
    <3>3. CASE declined' = declined /\ \A k \in KeysOf(a) : k \notin declined \cup done
      BY <3>3
    <3> QED BY <3>1, <3>2, <3>3 DEF Turning
  <2>5. at' \notin EffectNodes /\ done' = done BY DEF Turning
  <2> QED BY <1>2, <2>1, <2>2, <2>3, <2>4, <2>5 DEF EffectKnown
<1>19. DetourKnown' BY DEF DetourKnown, Turning
<1>20. ActsKnown' BY DEF Turning
<1> QED BY <1>12, <1>13, <1>14, <1>15, <1>17, <1>18, <1>19, <1>20 DEF RoutingInv

(* A turn that is admitted holds no detour.                                 *)
LEMMA AdmittedNoDetour ==
    ASSUME RoutingInv, NEW d \in Ids, lock = d, dl[d].phase = "admitted"
    PROVE  detour = NONE
BY DEF RoutingInv, DetourKnown

LEMMA RotateInv ==
    ASSUME RoutingInv, NEW d \in Ids, Rotate(d)
    PROVE  RoutingInv'
<1>1. /\ lock = d /\ transition # NONE /\ dl[d].phase \in {"admitted", "ended"} /\ ~terminal
      /\ UNCHANGED <<read, consent, declined, done, acts>>
  BY DEF Rotate, history
<1>2. asked = NONE
  BY <1>1, NodeSets, GraphFacts DEF RoutingInv, CheckpointKnown
<1>3. CASE /\ RotateThread(d) /\ detour' = NONE
           /\ IF dl[d].phase = "ended" /\ transition.cont # NONE
                THEN Phase(d, "stream") ELSE UNCHANGED dl
           /\ UNCHANGED <<engine, lock, bound, faults>>
  <2>1. /\ auto'.pending = NONE /\ Fits(auto', at', FALSE) /\ at' \notin EffectNodes
        /\ asked' = NONE /\ transition' = NONE /\ terminal' = FALSE
        /\ thread' \in Nat /\ consumed' \in Seq(Ids) /\ ActsKnown'
    BY <1>1, <1>3, RotateFacts
  <2>2. PICK a : a = auto' OBVIOUS
  <2>3. PICK n : n = at' OBVIOUS
  <2>4. PICK p : p = dl[d].phase OBVIOUS
  <2>5. dl' = [dl EXCEPT ![d].phase = "stream"] \/ dl' = [dl EXCEPT ![d].phase = p]
    <3>1. dl \in [Ids -> [phase : {"new", "queued"} \cup Working \cup {"over"}, message : Ids,
                          thread : Nat, saw : {0} \cup Ids, knew : SUBSET Keys]]
      BY DEF RoutingInv, RoutingType
    <3>2. dl = [dl EXCEPT ![d].phase = p] BY <2>4, <3>1
    <3> QED BY <1>3, <3>2 DEF Phase
  <2>6. p \in Working /\ "stream" \in Working BY <1>1, <2>4 DEF Working
  <2>7. Turning(d, a, n, "stream") \/ Turning(d, a, n, p)
    BY <1>1, <1>2, <1>3, <2>1, <2>2, <2>3, <2>4, <2>5, <2>6 DEF Turning
  <2> QED BY <2>7, TurningInv
<1>4. CASE Fault /\ LastResort /\ Over(d)
  <2>1. dl[d].phase \in Working BY <1>1 DEF Working
  <2> QED BY <1>1, <1>4, <2>1, LastResortInv
<1> QED BY <1>3, <1>4 DEF Rotate


(* A turn that is submitted to the graph.                                   *)
LEMMA SubmitInv ==
    ASSUME RoutingInv, NEW d \in Ids, Deciding(d), NEW a, Submit(d, a),
           Fits(a, "entry", terminal), a.pending = auto.pending, at \notin EffectNodes,
           Doomed(auto, at) \/ declined' # declined => Doomed(a, "entry"),
           declined' = declined \/ (at \in ConsentNodes /\ declined' = declined \cup PendingKeys),
           detour' = NONE \/ DetourKnown',
           acts' = acts \/ (~Consumed(dl[d].message) /\ Act(d)),
           UNCHANGED <<bound, faults, read, consent, done>>
    PROVE  RoutingInv'
<1>1. /\ lock = d /\ lock' = d /\ dl[d].phase = "admitted"
      /\ dl' = [dl EXCEPT ![d].phase = "stream"]
      /\ auto' = a /\ at' = "entry" /\ asked' = NONE /\ transition' = NONE
      /\ consumed' = Consume(dl[d].message) /\ UNCHANGED <<thread, terminal, engine>>
  BY DEF Deciding, Submit, Phase
<1>2. ActsKnown' /\ consumed' \in Seq(Ids) BY <1>1, ActsStep
<1>3. thread \in Nat /\ terminal \in BOOLEAN BY DEF RoutingInv, RoutingType
<1>4. "entry" \notin EffectNodes /\ "stream" \in Working BY NodeSets DEF Working
<1>5. Turning(d, a, "entry", "stream")
  BY <1>1, <1>2, <1>3, <1>4 DEF Turning
<1> QED BY <1>5, TurningInv

LEMMA RunInv ==
    ASSUME RoutingInv, NEW d \in Ids, RunReserved(d) \/ RunContinuation(d)
    PROVE  RoutingInv'
<1>1. /\ Deciding(d) /\ Submit(d, auto)
      /\ terminal \/ auto.recovery # NONE \/ at = "entry"
      /\ UNCHANGED <<detour, bound, faults, read, consent, declined, done, acts>>
  BY DEF RunReserved, RunContinuation, Ordinary, Pristine, history
<1>2. Fits(auto, at, terminal) BY DEF RoutingInv, CheckpointKnown
<1>3. /\ "entry" \notin InvNodes \cup GuardrailNodes /\ "entry" \in GraphNodes
      /\ "entry" # "cart_capability_entry"
  BY NodeSets, GraphFacts DEF InvNodes
<1>4. at \in TerminalPlaces BY <1>1, <1>2 DEF Fits, TerminalPlaces
<1>5. at \notin EffectNodes BY <1>4, NodeSets DEF TerminalPlaces
<1>6. Fits(auto, "entry", terminal) BY <1>2, <1>3 DEF Fits, TerminalPlaces
<1>7. Doomed(auto, at) => Doomed(auto, "entry") BY DEF Doomed
<1>8. detour' = NONE BY <1>1, AdmittedNoDetour DEF Deciding
<1> QED BY <1>1, <1>5, <1>6, <1>7, <1>8, SubmitInv

LEMMA InstructedFits ==
    ASSUME Plain(auto), terminal = FALSE, NEW i \in Instructions, NEW a,
           a = [auto EXCEPT !.instruct = i] \/ a = [auto EXCEPT !.instruct = i, !.clar = NONE]
    PROVE  /\ Fits(a, "entry", terminal) /\ a.pending = auto.pending
           /\ i.kind = "direct" /\ i # NONE => Doomed(a, "entry")
<1>1. /\ a \in Autos /\ a.recovery = NONE /\ a.instruct = i /\ a.pending = auto.pending
  BY DEF Plain, Autos
<1>2. "entry" \notin InvNodes \cup GuardrailNodes /\ "entry" \in GraphNodes
  BY NodeSets, GraphFacts DEF InvNodes
<1>3. Fits(a, "entry", terminal) BY <1>1, <1>2 DEF Fits, Restoring, InvNodes
<1> QED BY <1>1, <1>3 DEF Doomed, Restoring

LEMMA DirectFacts ==
    ASSUME RoutingInv, NEW d \in Ids, NEW c \in CapabilityIds, NEW i,
           i = [kind |-> "direct", message |-> dl[d].message, cap |-> c, owner |-> NONE]
    PROVE  i \in Instructions /\ i # NONE /\ i.kind = "direct"
<1>1. dl[d].message \in Ids BY DEF RoutingInv, RoutingType
<1> QED BY <1>1, NoneAssumption DEF Instructions

LEMMA ResolveFacts ==
    ASSUME NEW p \in Proposed
    PROVE  /\ Resolve(p).kind \in {"direct", "continue", "clarify", "unavailable"}
           /\ Resolve(p).kind = "direct" => Resolve(p).cap \in CapabilityIds
           /\ Resolve(p).kind = "continue" => auto.inv # NONE
<1>1. /\ p.kind \in {"direct", "continue", "clarify", "unavailable"}
      /\ p.kind = "direct" => p.cap \in Proposals
  BY DEF Proposed
<1> QED BY <1>1, RegistryAssumption DEF Resolve

LEMMA NoActionOwnerTyped ==
    ASSUME auto \in Autos, NEW d \in Ids
    PROVE  NoActionOwner(d) \in Owners
<1>1. auto.inv # NONE => auto.inv.id \in InvocationIds BY DEF Autos, Invocations
<1>2. auto.clar # NONE => auto.clar.owner \in Owners BY DEF Autos
<1>3. CASE auto.inv # NONE BY <1>1, <1>3 DEF NoActionOwner, Owners
<1>4. CASE auto.inv = NONE /\ auto.clar # NONE /\ auto.clar.owner[1] = "router"
  BY <1>2, <1>4 DEF NoActionOwner
<1>5. CASE auto.inv = NONE /\ ~(auto.clar # NONE /\ auto.clar.owner[1] = "router")
  BY <1>5 DEF NoActionOwner, Owners
<1> QED BY <1>3, <1>4, <1>5

LEMMA RouteInv ==
    ASSUME RoutingInv, NEW d \in Ids, Route(d)
    PROVE  RoutingInv'
<1>1. /\ Deciding(d) /\ ~terminal /\ auto.recovery = NONE /\ ~Consumed(dl[d].message)
      /\ at = "rest" /\ Act(d)
      /\ UNCHANGED <<detour, read, consent, declined, done, bound, faults>>
  BY DEF Route, Ordinary, Duplicate
<1>2. Plain(auto) /\ terminal = FALSE /\ auto \in Autos
  BY <1>1 DEF RoutingInv, RoutingType, CheckpointKnown, Fits, Plain
<1>3. ~Doomed(auto, at) /\ at \notin EffectNodes BY <1>1, NodeSets DEF Doomed
<1>4. detour' = NONE BY <1>1, AdmittedNoDetour DEF Deciding
<1>5. PICK m : m = dl[d].message OBVIOUS
<1>6. m \in Ids BY <1>5 DEF RoutingInv, RoutingType
<1>7. ASSUME NEW i \in Instructions, NEW a, Submit(d, a),
             a = [auto EXCEPT !.instruct = i] \/ a = [auto EXCEPT !.instruct = i, !.clar = NONE]
      PROVE  RoutingInv'
  <2>1. Fits(a, "entry", terminal) /\ a.pending = auto.pending BY <1>2, <1>7, InstructedFits
  <2> QED BY <1>1, <1>3, <1>4, <1>7, <2>1, SubmitInv
<1>8. PICK p \in Proposed :
        \/ Resolve(p).kind = "direct" /\ Submit(d, DirectDispatch(d, Resolve(p).cap))
        \/ /\ Resolve(p).kind = "continue"
           /\ Submit(d, [auto EXCEPT !.instruct = [kind |-> "continue", message |-> dl[d].message,
                                                  cap |-> NONE, owner |-> auto.inv.id]])
        \/ Submit(d, [auto EXCEPT !.instruct = [kind |-> "none", message |-> dl[d].message,
                                                cap |-> NONE, owner |-> NoActionOwner(d)]])
  BY DEF Route
<1>9. PICK r : r = Resolve(p) OBVIOUS
<1>10. /\ r.kind = "direct" => r.cap \in CapabilityIds
       /\ r.kind = "continue" => auto.inv # NONE
  BY <1>9, ResolveFacts
<1>11. CASE r.kind = "direct" /\ Submit(d, DirectDispatch(d, r.cap))
  <2>1. PICK i : i = [kind |-> "direct", message |-> dl[d].message, cap |-> r.cap, owner |-> NONE]
    OBVIOUS
  <2>2. i \in Instructions BY <1>10, <1>11, <2>1, DirectFacts
  <2>3. PICK a : a = [auto EXCEPT !.instruct = i, !.clar = NONE] OBVIOUS
  <2>4. Submit(d, a) BY <1>11, <2>1, <2>3 DEF DirectDispatch
  <2> QED BY <1>7, <2>2, <2>3, <2>4
<1>12. CASE /\ r.kind = "continue"
            /\ Submit(d, [auto EXCEPT !.instruct = [kind |-> "continue", message |-> dl[d].message,
                                                   cap |-> NONE, owner |-> auto.inv.id]])
  <2>1. PICK i : i = [kind |-> "continue", message |-> dl[d].message, cap |-> NONE,
                      owner |-> auto.inv.id]
    OBVIOUS
  <2>2. auto.inv.id \in InvocationIds BY <1>2, <1>10, <1>12 DEF Autos, Invocations
  <2>3. i \in Instructions BY <1>5, <1>6, <2>1, <2>2 DEF Instructions
  <2>4. PICK a : a = [auto EXCEPT !.instruct = i] OBVIOUS
  <2>5. Submit(d, a) BY <1>12, <2>1, <2>4
  <2> QED BY <1>7, <2>3, <2>4, <2>5
<1>13. CASE Submit(d, [auto EXCEPT !.instruct = [kind |-> "none", message |-> dl[d].message,
                                                 cap |-> NONE, owner |-> NoActionOwner(d)]])
  <2>1. PICK o : o = NoActionOwner(d) OBVIOUS
  <2>2. o \in Owners BY <1>2, <2>1, NoActionOwnerTyped
  <2>3. PICK i : i = [kind |-> "none", message |-> dl[d].message, cap |-> NONE, owner |-> o]
    OBVIOUS
  <2>4. i \in Instructions BY <1>5, <1>6, <2>2, <2>3 DEF Instructions
  <2>5. PICK a : a = [auto EXCEPT !.instruct = i] OBVIOUS
  <2>6. Submit(d, a) BY <1>13, <2>1, <2>3, <2>5
  <2> QED BY <1>7, <2>4, <2>5, <2>6
<1> QED BY <1>8, <1>9, <1>11, <1>12, <1>13


(* A readback that is set aside was neither declined nor carried out.       *)
LEMMA SetAsideInv ==
    ASSUME RoutingInv, NEW d \in Ids, Answering(d), NEW r, NEW c \in CapabilityIds,
           SetAside(d, r, c), at \in ConsentNodes
    PROVE  RoutingInv'
<1>1. /\ Deciding(d) /\ lock = d /\ dl[d].phase = "admitted" /\ ~Consumed(dl[d].message)
      /\ Submit(d, DirectDispatch(d, c)) /\ Act(d)
      /\ declined' = IF Declines(r) THEN declined \cup PendingKeys ELSE declined
      /\ UNCHANGED <<read, consent, done, bound, faults>>
  BY DEF SetAside, Answering, Ordinary, Deciding, Duplicate
<1>2. at \notin Begins \cup EffectNodes BY NodeSets, GraphFacts DEF Begins, TerminalPlaces
<1>3. Plain(auto) /\ terminal = FALSE /\ auto \in Autos
  BY <1>2, PlainPlace DEF RoutingInv, RoutingType, Plain
<1>4. ~Doomed(auto, at) BY <1>2 DEF Doomed, Begins, TerminalPlaces
<1>5. PICK i : i = [kind |-> "direct", message |-> dl[d].message, cap |-> c, owner |-> NONE]
  OBVIOUS
<1>6. i \in Instructions /\ i # NONE /\ i.kind = "direct" BY <1>5, DirectFacts
<1>7. PICK a : a = [auto EXCEPT !.instruct = i, !.clar = NONE] OBVIOUS
<1>8. Fits(a, "entry", terminal) /\ a.pending = auto.pending /\ Doomed(a, "entry")
  BY <1>3, <1>6, <1>7, InstructedFits
<1>9. Submit(d, a) BY <1>1, <1>5, <1>7 DEF DirectDispatch
<1>10. CASE ~Reread(r, c)
  <2>1. detour' = NONE BY <1>10 DEF SetAside
  <2> QED BY <1>1, <1>2, <1>8, <1>9, <2>1, SubmitInv
<1>11. CASE Reread(r, c)
  <2>1. declined' = declined /\ at \in RestoreNodes BY <1>1, <1>11 DEF Reread
  <2>2. PICK x : x = [node |-> at, auto |-> auto] OBVIOUS
  <2>3. detour' = x BY <1>11, <2>2 DEF SetAside
  <2>4. /\ x \in [node : RestoreNodes, auto : Autos] /\ x.node = at /\ x.auto = auto
    BY <1>3, <2>1, <2>2
  <2>5. lock' = d /\ asked' = NONE /\ dl' = [dl EXCEPT ![d].phase = "stream"]
    BY <1>1 DEF Submit, Phase
  <2>6. dl \in [Ids -> [phase : {"new", "queued"} \cup Working \cup {"over"}, message : Ids,
                        thread : Nat, saw : {0} \cup Ids, knew : SUBSET Keys]]
    BY DEF RoutingInv, RoutingType
  <2>7. /\ dl'[d].phase = "stream" /\ \A e \in Ids : e # d => dl'[e].phase = dl[e].phase
    BY <2>5, <2>6
  <2>8. \A e \in Ids : Started(e) => Started(e)' BY <2>7 DEF Started, Working
  <2>9. PendingKeys \subseteq Keys /\ PendingKeys = KeysOf(auto) BY PendingTyped
  <2>10. \A k \in PendingKeys : k[1] \in Ids /\ Started(k[1]) /\ k \notin declined \cup done
    <3>1. PendingKeys \cap declined = {} /\ PendingKeys \cap done = {}
      BY <1>2, <1>4 DEF RoutingInv, EffectKnown
    <3> QED BY <2>9, <3>1 DEF RoutingInv, KeysKnown, Keys
  <2>11. auto.inv \in Invocations \/ at \notin InvNodes
    BY DEF RoutingInv, CheckpointKnown, Fits
  <2>12. DetourKnown'
    <3>1. lock' \in Ids /\ dl'[lock'].phase = "stream" BY <2>5, <2>7
    <3>2. x.auto.recovery = NONE /\ x.auto.instruct = NONE BY <1>3, <2>4 DEF Plain
    <3>3. x.node \in InvNodes => x.auto.inv \in Invocations BY <2>4, <2>11
    <3>4. \A k \in KeysOf(x.auto) : Started(k[1])' /\ k \notin declined' \cup done'
      BY <1>1, <2>1, <2>4, <2>8, <2>9, <2>10
    <3>5. \A k \in KeysOf(detour.auto)' : Started(k[1])' /\ k \notin declined' \cup done'
      BY <2>3, <3>4 DEF KeysOf
    <3> QED BY <2>3, <2>4, <2>5, <3>1, <3>2, <3>3, <3>5 DEF DetourKnown
  <2> QED BY <1>1, <1>2, <1>8, <1>9, <2>1, <2>12, SubmitInv
<1> QED BY <1>10, <1>11

LEMMA VerdictTyped ==
    ASSUME NEW r \in Replies, at \in ConsentNodes => asked.person \in {0, 1, 2}
    PROVE  Verdict(r) \in {"yes", "no", "unclear", "code"} /\ (at \in ConsentNodes => Verdict(r) # "code")
<1>1. r.says \in {"yes", "no", "no_more", "other"} BY DEF Replies
<1>2. \A p \in {0, 1, 2} : Grammar(r.says, p) \in {"yes", "no", "unclear"}
  BY <1>1 DEF Grammar
<1> QED BY <1>2 DEF Verdict

LEMMA ResumeInv ==
    ASSUME RoutingInv, NEW d \in Ids, Answering(d),
           NEW v \in {"code"} \cup Verdicts, at \in ConsentNodes => v # "code", Resume(d, v)
    PROVE  RoutingInv'
<1>1. /\ lock = d /\ dl[d].phase = "admitted" /\ ~Consumed(dl[d].message) /\ asked # NONE
      /\ dl[d].saw = asked.id /\ transition = NONE
  BY DEF Answering, Ordinary, Deciding, Duplicate, AnswersQuestion
<1>2. /\ consumed' = Consume(dl[d].message) /\ Act(d)
      /\ asked' = [asked EXCEPT !.answer = v] /\ dl' = [dl EXCEPT ![d].phase = "stream"]
      /\ UNCHANGED <<thread, auto, terminal, at, transition, engine, lock, detour,
                     read, consent, declined, done, bound, faults>>
  BY DEF Resume, Phase
<1>3. ActsKnown' /\ consumed' \in Seq(Ids) BY <1>1, <1>2, ActsStep
<1>4. asked \in Questions BY <1>1 DEF RoutingInv, RoutingType
<1>5. asked' \in Questions /\ asked'.id = asked.id BY <1>2, <1>4 DEF Questions
<1>6. dl \in [Ids -> [phase : {"new", "queued"} \cup Working \cup {"over"}, message : Ids,
                      thread : Nat, saw : {0} \cup Ids, knew : SUBSET Keys]]
  BY DEF RoutingInv, RoutingType
<1>7. /\ dl' \in [Ids -> [phase : {"new", "queued"} \cup Working \cup {"over"}, message : Ids,
                          thread : Nat, saw : {0} \cup Ids, knew : SUBSET Keys]]
      /\ dl'[d].phase = "stream"
      /\ \A e \in Ids : dl'[e].saw = dl[e].saw /\ dl'[e].knew = dl[e].knew
      /\ \A e \in Ids : e # d => dl'[e].phase = dl[e].phase
  BY <1>2, <1>6 DEF Working
<1>8. \A e \in Ids : dl[e].phase \in Working => e = d
  BY <1>1 DEF RoutingInv, LockKnown
<1>9. \A e \in Ids : Started(e) => Started(e)' BY <1>7 DEF Started, Working
<1>10. \A e \in Ids : dl[e].phase = "over" => dl'[e].phase = "over" BY <1>1, <1>7
<1>11. PendingKeys' = PendingKeys /\ PendingKeys \subseteq Keys
  BY <1>2, PendingTyped DEF PendingKeys
<1>12. RoutingType' BY <1>2, <1>3, <1>5, <1>7 DEF RoutingInv, RoutingType
<1>13. CheckpointKnown' BY <1>1, <1>2, <1>4 DEF RoutingInv, CheckpointKnown, Questions
<1>14. LockKnown'
  <2>1. \A e \in Ids : dl'[e].phase \in Working => lock' = e
    BY <1>1, <1>2, <1>7, <1>8
  <2>2. \A e \in Ids : dl[e].saw # 0 => dl[e].saw \in Ids /\ Started(dl[e].saw)
    BY <1>6 DEF RoutingInv, LockKnown
  <2>3. \A e \in Ids : dl'[e].saw # 0 => Started(dl[e].saw)' BY <1>7, <1>9, <2>2
  <2>4. asked' # NONE => Started(asked.id)'
    <3>1. PICK q : q = asked.id OBVIOUS
    <3>2. q \in Ids /\ Started(q) BY <1>1, <1>4, <3>1 DEF RoutingInv, LockKnown, Questions
    <3> QED BY <1>5, <1>9, <3>1, <3>2 DEF Started
  <2> QED BY <1>5, <1>7, <2>1, <2>3, <2>4 DEF LockKnown, Started
<1>15. QuestionKnown'
  <2>1. (\A e \in Ids : dl[e].saw # lock) /\ asked.id # lock
    BY <1>1 DEF RoutingInv, QuestionKnown
  <2>2. PendingKeys \subseteq read /\ \A e \in Ids : dl[e].saw = asked.id => PendingKeys \subseteq dl[e].knew
    BY <1>1 DEF RoutingInv, QuestionKnown
  <2>3. \A e \in Ids : dl'[e].phase = "stream" =>
           dl'[e].saw = asked'.id /\ (at' \in ConsentNodes => asked'.answer \in Verdicts)
    BY <1>1, <1>2, <1>4, <1>5, <1>7, <1>8 DEF Working, Questions
  <2> QED BY <1>2, <1>5, <1>7, <1>11, <2>1, <2>2, <2>3 DEF QuestionKnown
<1>16. KeysKnown'
  <2>1. \A k \in PendingKeys : k[1] \in Ids /\ Started(k[1]) /\ k[1] # d
    BY <1>1, <1>11 DEF RoutingInv, KeysKnown, Keys
  <2>2. \A e \in Ids : dl'[e].phase \in {"admitted", "stream"} => e = d
    BY <1>7, <1>8 DEF Working
  <2>3. \A k \in declined \cup done : k[1] \in Ids /\ dl[k[1]].phase = "over"
    BY DEF RoutingInv, KeysKnown, RoutingType, Keys
  <2>4. at \in EffectNodes => \A k \in PendingKeys : dl[k[1]].phase = "over"
    BY DEF RoutingInv, KeysKnown
  <2> QED BY <1>2, <1>9, <1>10, <1>11, <2>1, <2>2, <2>3, <2>4 DEF KeysKnown
<1>17. EffectKnown'
  <2>1. Doomed(auto, at)' = Doomed(auto, at) BY <1>2 DEF Doomed, Restoring
  <2> QED BY <1>2, <1>11, <2>1 DEF RoutingInv, EffectKnown
<1>18. DetourKnown' BY <1>1, <1>2, AdmittedNoDetour DEF DetourKnown
<1> QED BY <1>3, <1>12, <1>13, <1>14, <1>15, <1>16, <1>17, <1>18 DEF RoutingInv

LEMMA AnswerInv ==
    ASSUME RoutingInv, NEW d \in Ids, AnswerPlainly(d) \/ AnswerRouted(d)
    PROVE  RoutingInv'
<1>1. Answering(d) BY DEF AnswerPlainly, AnswerRouted
<1>2. asked \in Questions BY <1>1 DEF Answering, RoutingInv, RoutingType
<1>3. asked.person \in {0, 1, 2} BY <1>2 DEF Questions
<1>4. CASE AnswerPlainly(d)
  <2>1. PICK r \in Replies : Resume(d, Verdict(r)) BY <1>4 DEF AnswerPlainly
  <2>2. PICK v : v = Verdict(r) OBVIOUS
  <2>3. v \in {"code"} \cup Verdicts /\ (at \in ConsentNodes => v # "code")
    BY <1>3, <2>2, VerdictTyped DEF Verdicts
  <2> QED BY <1>1, <2>1, <2>2, <2>3, ResumeInv
<1>5. CASE AnswerRouted(d)
  <2>1. PICK r \in Replies, p \in Proposed :
           /\ at \in ConsentNodes
           /\ \/ Resume(d, Verdict(r)) \/ Resume(d, "policy") \/ Resume(d, "person")
              \/ Resolve(p).kind = "direct" /\ SetAside(d, r, Resolve(p).cap)
    BY <1>5, Zenon DEF AnswerRouted, Unread
  <2>2. PICK v : v = Verdict(r) OBVIOUS
  <2>3. v \in {"code"} \cup Verdicts /\ (at \in ConsentNodes => v # "code")
    BY <1>3, <2>2, VerdictTyped DEF Verdicts
  <2>4. CASE Resume(d, v) BY <1>1, <2>3, <2>4, ResumeInv
  <2>5. CASE Resume(d, "policy") \/ Resume(d, "person") BY <1>1, <2>5, ResumeInv DEF Verdicts
  <2>6. CASE Resolve(p).kind = "direct" /\ SetAside(d, r, Resolve(p).cap)
    <3>1. PICK c : c = Resolve(p).cap OBVIOUS
    <3>2. c \in CapabilityIds BY <2>6, <3>1, ResolveFacts
    <3> QED BY <1>1, <2>1, <2>6, <3>1, <3>2, SetAsideInv
  <2> QED BY <2>1, <2>2, <2>4, <2>5, <2>6
<1> QED BY <1>4, <1>5

LEMMA RereadReadbackInv ==
    ASSUME RoutingInv, NEW d \in Ids, RereadReadback(d)
    PROVE  RoutingInv'
<1>1. /\ lock = d /\ dl[d].phase = "ended" /\ transition = NONE /\ detour # NONE /\ asked = NONE
      /\ at = "rest" /\ terminal = FALSE
      /\ auto' = [detour.auto EXCEPT !.recovery = Marker(detour.node, "confirmation_detour", NONE)]
      /\ at' = "entry" /\ detour' = NONE /\ dl' = [dl EXCEPT ![d].phase = "stream"]
      /\ UNCHANGED <<thread, consumed, terminal, asked, transition, engine, lock,
                     read, consent, declined, done, acts, bound, faults>>
  BY DEF RereadReadback, Phase, history, RoutingInv, RoutingType
<1>2. /\ detour \in [node : RestoreNodes, auto : Autos]
      /\ detour.auto.recovery = NONE /\ detour.auto.instruct = NONE
      /\ detour.node \in InvNodes => detour.auto.inv \in Invocations
      /\ \A k \in KeysOf(detour.auto) : Started(k[1]) /\ k \notin declined \cup done
  BY <1>1 DEF RoutingInv, DetourKnown
<1>3. PICK x : x = detour.auto OBVIOUS
<1>4. PICK node : node = detour.node OBVIOUS
<1>5. x \in Autos /\ node \in RestoreNodes BY <1>2, <1>3, <1>4
<1>6. node \in GraphNodes BY <1>5, GraphFacts
<1>7. PICK r : r = Marker(node, "confirmation_detour", NONE) OBVIOUS
<1>8. r \in Markers /\ r # NONE /\ r.node = node /\ r.trigger = "confirmation_detour"
  BY <1>6, <1>7, MarkerFacts DEF Triggers
<1>9. PICK a : a = [x EXCEPT !.recovery = r] OBVIOUS
<1>10. /\ a \in Autos /\ a.recovery = r /\ a.inv = x.inv /\ a.pending = x.pending
       /\ a.instruct = x.instruct
  BY <1>5, <1>8, <1>9, MarkedFacts
<1>11. /\ "entry" \notin InvNodes \cup GuardrailNodes \cup EffectNodes /\ "entry" \in GraphNodes
  BY NodeSets, GraphFacts DEF InvNodes
<1>12. Fits(a, "entry", terminal)
  BY <1>1, <1>2, <1>3, <1>4, <1>5, <1>8, <1>10, <1>11 DEF Fits, Restoring, InvNodes
<1>13. \A k \in KeysOf(a) : Started(k[1]) /\ k \notin declined \cup done
  BY <1>2, <1>3, <1>10 DEF KeysOf
<1>14. ActsKnown' /\ consumed' \in Seq(Ids)
  BY <1>1 DEF RoutingInv, RoutingType, ActsKnown, Consumed
<1>15. auto' = a BY <1>1, <1>3, <1>4, <1>7, <1>9
<1>16. thread \in Nat BY DEF RoutingInv, RoutingType
<1>17. Turning(d, a, "entry", "stream")
  BY <1>1, <1>11, <1>12, <1>13, <1>14, <1>15, <1>16 DEF Turning, Working
<1> QED BY <1>17, TurningInv


-----------------------------------------------------------------------------
(* Questions: a stream that ends with one, or without.                      *)
Pausing(d) ==
    /\ lock = d /\ dl[d].phase \in {"admitted", "stream"}
    /\ dl' = [dl EXCEPT ![d].phase = "ended"]
    /\ \/ asked = NONE /\ asked' = NONE
       \/ /\ asked' \in Questions /\ at \in ConsentNodes \cup {"identity_collect"}
          /\ at = "request_person" => asked'.person # 0
          /\ PendingKeys \subseteq read'
          /\ \/ asked # NONE /\ asked'.id = asked.id
             \/ asked = NONE /\ asked'.id = d
    /\ read' = read \/ read' = read \cup PendingKeys
    /\ dl[d].phase = "admitted" => detour = NONE
    /\ consumed' \in Seq(Ids) /\ ActsKnown'
    /\ UNCHANGED <<thread, auto, terminal, at, transition, engine, lock, detour,
                   consent, declined, done, bound, faults>>

LEMMA PausingInv ==
    ASSUME RoutingInv, NEW d \in Ids, Pausing(d)
    PROVE  RoutingInv'
<1>1. PendingKeys \subseteq Keys /\ PendingKeys' = PendingKeys
  BY PendingTyped DEF Pausing, PendingKeys
<1>2. dl \in [Ids -> [phase : {"new", "queued"} \cup Working \cup {"over"}, message : Ids,
                      thread : Nat, saw : {0} \cup Ids, knew : SUBSET Keys]]
  BY DEF RoutingInv, RoutingType
<1>3. /\ dl' \in [Ids -> [phase : {"new", "queued"} \cup Working \cup {"over"}, message : Ids,
                          thread : Nat, saw : {0} \cup Ids, knew : SUBSET Keys]]
      /\ dl'[d].phase = "ended"
      /\ \A e \in Ids : dl'[e].saw = dl[e].saw /\ dl'[e].knew = dl[e].knew
      /\ \A e \in Ids : e # d => dl'[e].phase = dl[e].phase
  BY <1>2 DEF Pausing, Working
<1>4. \A e \in Ids : dl[e].phase \in Working => e = d
  BY DEF RoutingInv, LockKnown, Pausing
<1>5. \A e \in Ids : dl'[e].phase \notin {"admitted", "stream"} BY <1>3, <1>4 DEF Working
<1>6. \A e \in Ids : Started(e) => Started(e)' BY <1>3 DEF Started, Working
<1>7. \A e \in Ids : dl[e].phase = "over" => dl'[e].phase = "over"
  BY <1>3 DEF Pausing, Working
<1>8. RoutingType' BY <1>1, <1>3 DEF RoutingInv, RoutingType, Pausing
<1>9. CheckpointKnown' BY DEF RoutingInv, CheckpointKnown, Pausing
<1>10. asked' # NONE => asked'.id \in Ids /\ Started(asked'.id)
  <2>1. Started(d) BY DEF Pausing, Started, Working
  <2>2. asked # NONE => Started(asked.id) BY DEF RoutingInv, LockKnown
  <2> QED BY <2>1, <2>2 DEF Pausing, Questions
<1>11. LockKnown'
  <2>1. \A e \in Ids : dl'[e].phase \in Working => lock' = e BY <1>3, <1>4 DEF Pausing
  <2>2. \A e \in Ids : dl[e].saw # 0 => dl[e].saw \in Ids /\ Started(dl[e].saw)
    BY <1>2 DEF RoutingInv, LockKnown
  <2>3. \A e \in Ids : dl'[e].saw # 0 => Started(dl[e].saw)' BY <1>3, <1>6, <2>2
  <2>4. asked' # NONE => Started(asked.id)' BY <1>6, <1>10 DEF Started
  <2> QED BY <1>3, <2>1, <2>3, <2>4 DEF LockKnown, Started
<1>12. QuestionKnown'
  <2>1. \A e \in Ids : dl[e].saw # lock BY DEF RoutingInv, QuestionKnown, Pausing
  <2>2. asked' # NONE => PendingKeys' \subseteq read' BY <1>1 DEF Pausing
  <2>3. \A e \in Ids : asked' # NONE /\ dl'[e].saw = asked'.id => PendingKeys' \subseteq dl'[e].knew
    BY <1>1, <1>3, <2>1 DEF RoutingInv, QuestionKnown, Pausing
  <2> QED BY <1>3, <1>5, <2>1, <2>2, <2>3 DEF QuestionKnown, Pausing
<1>13. KeysKnown'
  <2>1. \A k \in PendingKeys : k[1] \in Ids /\ Started(k[1])
    BY <1>1 DEF RoutingInv, KeysKnown, Keys
  <2>2. \A k \in declined \cup done : k[1] \in Ids /\ dl[k[1]].phase = "over"
    BY DEF RoutingInv, KeysKnown, RoutingType, Keys
  <2>3. at \in EffectNodes => \A k \in PendingKeys : dl[k[1]].phase = "over"
    BY DEF RoutingInv, KeysKnown
  <2> QED BY <1>1, <1>5, <1>6, <1>7, <2>1, <2>2, <2>3 DEF KeysKnown, Pausing
<1>14. EffectKnown'
  <2>1. Doomed(auto, at)' = Doomed(auto, at) BY DEF Doomed, Restoring, Pausing
  <2> QED BY <1>1, <2>1 DEF RoutingInv, EffectKnown, Pausing
<1>15. DetourKnown'
  <2> SUFFICES ASSUME detour' # NONE PROVE DetourKnown' BY DEF DetourKnown
  <2>1. DetourKnown /\ detour # NONE /\ detour' = detour BY DEF RoutingInv, Pausing
  <2>2. \A k \in KeysOf(detour.auto) : k[1] \in Ids /\ Started(k[1]) /\ k \notin declined \cup done
    BY <2>1 DEF DetourKnown, KeysOf, Autos, Pendings, Keys
  <2>3. \A k \in KeysOf(detour.auto)' : Started(k[1])' /\ k \notin declined' \cup done'
    BY <1>6, <2>1, <2>2 DEF KeysOf, Pausing
  <2> QED BY <1>3, <2>1, <2>3 DEF DetourKnown, Pausing
<1>16. ActsKnown' BY DEF Pausing
<1> QED BY <1>8, <1>9, <1>11, <1>12, <1>13, <1>14, <1>15, <1>16 DEF RoutingInv

LEMMA AskInv ==
    ASSUME RoutingInv, NEW d \in Ids, Ask(d)
    PROVE  RoutingInv'
<1>1. /\ lock = d /\ dl[d].phase = "stream" /\ asked = NONE
      /\ at \in ConsentNodes \cup {"identity_collect"}
      /\ asked' = [id |-> d, round |-> 1, answer |-> NONE,
                   person |-> IF at = "request_person" THEN 1 ELSE 0]
      /\ read' = read \cup PendingKeys /\ dl' = [dl EXCEPT ![d].phase = "ended"]
      /\ UNCHANGED <<thread, consumed, auto, terminal, at, transition, engine, lock,
                     detour, consent, declined, done, acts, bound, faults>>
  BY DEF Ask, Running, Phase
<1>2. asked' \in Questions /\ asked'.id = d /\ (at = "request_person" => asked'.person # 0)
  BY <1>1 DEF Questions
<1>3. ActsKnown' /\ consumed' \in Seq(Ids)
  BY <1>1 DEF RoutingInv, RoutingType, ActsKnown, Consumed
<1>4. Pausing(d) BY <1>1, <1>2, <1>3 DEF Pausing, Working
<1> QED BY <1>4, PausingInv

LEMMA AskOnInv ==
    ASSUME RoutingInv, NEW d \in Ids, lock = d, dl[d].phase = "stream", asked # NONE,
           at \in ConsentNodes, NEW round \in {1, 2}, NEW person \in {0, 1, 2},
           at = "request_person" => person # 0, AskOn(d, round, person)
    PROVE  RoutingInv'
<1>1. asked \in Questions BY DEF RoutingInv, RoutingType
<1>2. /\ asked' = [asked EXCEPT !.round = round, !.person = person, !.answer = NONE]
      /\ read' = read \/ read' = read \cup PendingKeys
      /\ dl' = [dl EXCEPT ![d].phase = "ended"]
      /\ UNCHANGED <<thread, consumed, auto, terminal, at, transition, engine, lock,
                     detour, consent, declined, done, acts, bound, faults>>
  BY DEF AskOn, Phase
<1>3. asked' \in Questions /\ asked'.id = asked.id /\ asked'.person = person
  BY <1>1, <1>2 DEF Questions
<1>4. PendingKeys \subseteq read' BY <1>2 DEF RoutingInv, QuestionKnown
<1>5. ActsKnown' /\ consumed' \in Seq(Ids)
  BY <1>2 DEF RoutingInv, RoutingType, ActsKnown, Consumed
<1>6. Pausing(d) BY <1>2, <1>3, <1>4, <1>5 DEF Pausing, Working
<1> QED BY <1>6, PausingInv

LEMMA AskAgainInv ==
    ASSUME RoutingInv, NEW d \in Ids, AskAgain(d)
    PROVE  RoutingInv'
<1>1. /\ lock = d /\ dl[d].phase = "admitted" /\ asked # NONE
      /\ consumed' = Consume(dl[d].message) /\ dl' = [dl EXCEPT ![d].phase = "ended"]
      /\ UNCHANGED <<thread, auto, terminal, at, asked, transition, engine, lock, detour,
                     read, consent, declined, done, acts, bound, faults>>
  BY DEF AskAgain, Ordinary, Deciding, Phase, history
<1>2. ActsKnown' /\ consumed' \in Seq(Ids) BY <1>1, ActsStep
<1>3. /\ asked \in Questions /\ at \in ConsentNodes \cup {"identity_collect"}
      /\ at = "request_person" => asked.person # 0
      /\ PendingKeys \subseteq read
  BY <1>1 DEF RoutingInv, RoutingType, CheckpointKnown, QuestionKnown
<1>4. detour = NONE BY <1>1, AdmittedNoDetour
<1>5. Pausing(d) BY <1>1, <1>2, <1>3, <1>4 DEF Pausing, Working
<1> QED BY <1>5, PausingInv

LEMMA EndStreamInv ==
    ASSUME RoutingInv, NEW d \in Ids, EndStream(d)
    PROVE  RoutingInv'
<1>1. /\ lock = d /\ dl[d].phase = "stream" /\ asked = NONE
      /\ dl' = [dl EXCEPT ![d].phase = "ended"]
      /\ UNCHANGED <<thread, consumed, auto, terminal, at, asked, transition, engine, lock, detour,
                     read, consent, declined, done, acts, bound, faults>>
  BY DEF EndStream, Running, Phase, checkpoint, history
<1>2. ActsKnown' /\ consumed' \in Seq(Ids)
  BY <1>1 DEF RoutingInv, RoutingType, ActsKnown, Consumed
<1>3. Pausing(d) BY <1>1, <1>2 DEF Pausing, Working
<1> QED BY <1>3, PausingInv


-----------------------------------------------------------------------------
(* Answers: only the delivery that heard the readback agrees or declines,   *)
(* so the one that froze the effect is over by then.                        *)
LEMMA AnsweredInv ==
    ASSUME RoutingInv, NEW d \in Ids, lock = d, dl[d].phase = "stream", asked # NONE,
           at \in ConsentNodes, NEW a, NEW n, Settled(d, a, n), Fits(a, n, FALSE),
           \/ a.pending = auto.pending /\ consent' = consent \cup PendingKeys /\ declined' = declined
           \/ /\ a.pending = NONE /\ n \notin EffectNodes /\ consent' = consent
              /\ declined' = declined \/ declined' = declined \cup PendingKeys
    PROVE  RoutingInv'
<1>1. /\ auto' = a /\ at' = n /\ asked' = NONE
      /\ UNCHANGED <<thread, consumed, terminal, transition, engine, lock, detour, dl, read, done,
                     acts, bound, faults>>
  BY DEF Settled, memory
<1>2. at \notin Begins \cup EffectNodes BY NodeSets, GraphFacts DEF Begins, TerminalPlaces
<1>3. terminal = FALSE /\ transition = NONE BY <1>2, PlainPlace DEF RoutingInv, RoutingType
<1>4. ~Doomed(auto, at) BY <1>2 DEF Doomed, Begins, TerminalPlaces
<1>5. PendingKeys \subseteq Keys /\ PendingKeys = KeysOf(auto) BY PendingTyped
<1>6. PendingKeys' = KeysOf(a) BY <1>1 DEF PendingKeys, KeysOf
<1>7. PendingKeys' = {} \/ (PendingKeys' = PendingKeys /\ PendingKeys \subseteq consent')
  BY <1>5, <1>6 DEF KeysOf
<1>8. \A k \in PendingKeys : k[1] \in Ids /\ Started(k[1]) /\ dl[k[1]].phase = "over"
  <2>1. \A k \in PendingKeys : k[1] \in Ids /\ Started(k[1]) /\ k[1] # d
    BY <1>5 DEF RoutingInv, KeysKnown, Keys
  <2>2. \A e \in Ids : dl[e].phase \in Working => e = d BY DEF RoutingInv, LockKnown
  <2> QED BY <2>1, <2>2 DEF Started
<1>9. PendingKeys \cap declined = {} /\ PendingKeys \cap done = {}
  BY <1>2, <1>4 DEF RoutingInv, EffectKnown
<1>10. detour = NONE BY DEF RoutingInv, DetourKnown
<1>11. /\ consent \subseteq consent' /\ consent' \subseteq consent \cup PendingKeys
       /\ declined' \subseteq declined \cup PendingKeys
  OBVIOUS
<1>12. RoutingType' BY <1>1, <1>5, <1>11 DEF RoutingInv, RoutingType
<1>13. CheckpointKnown' BY <1>1, <1>3 DEF CheckpointKnown
<1>14. LockKnown' BY <1>1 DEF RoutingInv, LockKnown, Started
<1>15. QuestionKnown'
  <2>1. \A e \in Ids : dl[e].saw # lock BY DEF RoutingInv, QuestionKnown
  <2> QED BY <1>1, <2>1 DEF QuestionKnown
<1>16. KeysKnown'
  <2>1. \A e \in Ids : dl[e].phase # "admitted"
    BY DEF RoutingInv, LockKnown, Working
  <2>2. \A k \in PendingKeys' : Started(k[1])' /\ dl'[k[1]].phase = "over"
    BY <1>1, <1>7, <1>8 DEF Started
  <2>3. \A k \in declined' \cup done' : dl'[k[1]].phase = "over"
    BY <1>1, <1>8, <1>11 DEF RoutingInv, KeysKnown
  <2> QED BY <1>1, <2>1, <2>2, <2>3 DEF KeysKnown
<1>17. EffectKnown'
  <2>1. done' \subseteq consent' /\ declined' \cap done' = {}
    BY <1>1, <1>9, <1>11 DEF RoutingInv, EffectKnown
  <2>2. PendingKeys' \cap declined' = {} /\ PendingKeys' \cap done' = {}
    BY <1>1, <1>6, <1>7, <1>9 DEF KeysOf
  <2>3. at' \in EffectNodes => PendingKeys' \subseteq consent' /\ detour' = NONE
    BY <1>1, <1>7, <1>10
  <2> QED BY <2>1, <2>2, <2>3 DEF EffectKnown
<1>18. DetourKnown' BY <1>1, <1>10 DEF DetourKnown
<1>19. ActsKnown' BY <1>1 DEF RoutingInv, ActsKnown, Consumed
<1> QED BY <1>12, <1>13, <1>14, <1>15, <1>16, <1>17, <1>18, <1>19 DEF RoutingInv

LEMMA ProceedInv ==
    ASSUME RoutingInv, NEW d \in Ids, lock = d, dl[d].phase = "stream", asked # NONE,
           at \in ConsentNodes \ {"request_person"}, asked.answer = "yes", Proceed(d)
    PROVE  RoutingInv'
<1>1. dl[d].saw = asked.id /\ PendingKeys \subseteq dl[d].knew
  BY DEF RoutingInv, QuestionKnown
<1>2. consent' = consent \cup PendingKeys /\ declined' = declined BY <1>1 DEF Proceed
<1>3. at \notin Begins BY NodeSets, GraphFacts DEF Begins, TerminalPlaces
<1>4. Plain(auto) BY <1>3, PlainPlace
<1>5. at \in InvNodes => auto.inv \in Invocations BY DEF RoutingInv, CheckpointKnown, Fits
<1>6. CASE at = "principal_warning"
  <2>1. PICK a : a = [auto EXCEPT !.identity = TRUE] OBVIOUS
  <2>2. Plain(a) /\ a.pending = auto.pending /\ a.inv = auto.inv BY <1>4, <2>1, PlainStates
  <2>3. at \notin EffectConfirms BY <1>6, NodeSets
  <2>4. Settled(d, a, "identity_assemble") BY <1>6, <2>1, <2>3 DEF Proceed
  <2>5. "identity_assemble" \in GraphNodes /\ "identity_assemble" \notin GuardrailNodes
    BY NodeSets, GraphFacts
  <2>6. auto.inv \in Invocations BY <1>5, <1>6 DEF InvNodes
  <2>7. Fits(a, "identity_assemble", FALSE) BY <2>2, <2>5, <2>6, PlainFits
  <2> QED BY <1>2, <2>2, <2>4, <2>7, AnsweredInv
<1>7. CASE at = "order_status_target_confirm"
  <2>1. PICK a : a = Targeted("sure") OBVIOUS
  <2>2. auto.inv \in Invocations BY <1>5, <1>7 DEF InvNodes
  <2>3. Plain(a) /\ a.pending = auto.pending /\ a.inv \in Invocations
    BY <1>4, <2>1, <2>2, TargetedPlain DEF OrderTargets
  <2>4. at \notin EffectConfirms BY <1>7, NodeSets
  <2>5. Settled(d, a, "order_status_fulfill") BY <1>7, <2>1, <2>4 DEF Proceed
  <2>6. "order_status_fulfill" \in GraphNodes /\ "order_status_fulfill" \notin GuardrailNodes
    BY NodeSets, GraphFacts
  <2>7. Fits(a, "order_status_fulfill", FALSE) BY <2>3, <2>6, PlainFits
  <2> QED BY <1>2, <2>3, <2>5, <2>7, AnsweredInv
<1>8. CASE at \in EffectConfirms
  <2>1. PICK n : n = EffectNode[at] OBVIOUS
  <2>2. n \in EffectNodes BY <1>8, <2>1, ConfirmFacts
  <2>3. at \notin {"principal_warning", "order_status_target_confirm"} BY <1>8, NodeSets
  <2>4. Settled(d, auto, n) BY <1>8, <2>1, <2>3 DEF Proceed
  <2>5. /\ n \in GraphNodes /\ n \notin InvNodes \cup GuardrailNodes \cup
           {"recover", "router_no_action", "capability_dispatch", "cart_capability_entry"}
    BY <2>2, NodeSets, GraphFacts DEF InvNodes
  <2>6. Fits(auto, n, FALSE) BY <1>4, <2>5, PlainFits
  <2> QED BY <1>2, <2>4, <2>6, AnsweredInv
<1> QED BY <1>6, <1>7, <1>8, GraphFacts

LEMMA GiveUpInv ==
    ASSUME RoutingInv, NEW d \in Ids, lock = d, dl[d].phase = "stream", asked # NONE,
           at \in ConsentNodes, NEW v, GiveUp(d, v)
    PROVE  RoutingInv'
<1>1. PICK a : a = IF at = "request_person" THEN Cleared
                   ELSE [auto EXCEPT !.pending = NONE, !.inv = NONE, !.identity = FALSE]
  OBVIOUS
<1>2. at \notin Begins BY NodeSets, GraphFacts DEF Begins, TerminalPlaces
<1>3. Plain(auto) BY <1>2, PlainPlace
<1>4. Plain(a) /\ a.pending = NONE BY <1>1, <1>3, PlainStates, ClearedPlain
<1>5. "rest" \notin InvNodes \cup GuardrailNodes \cup EffectNodes BY NodeSets DEF InvNodes
<1>6. Fits(a, "rest", FALSE) BY <1>4, <1>5, PlainFits
<1>7. /\ Settled(d, a, "rest") /\ consent' = consent
      /\ declined' = declined \/ declined' = declined \cup PendingKeys
  BY <1>1 DEF GiveUp
<1> QED BY <1>4, <1>5, <1>6, <1>7, AnsweredInv

LEMMA HearInv ==
    ASSUME RoutingInv, NEW d \in Ids, Hear(d)
    PROVE  RoutingInv'
<1>1. lock = d /\ dl[d].phase = "stream" /\ asked # NONE /\ at \in ConsentNodes BY DEF Hear
<1>2. asked \in Questions BY <1>1 DEF RoutingInv, RoutingType
<1>3. PICK v : v = asked.answer OBVIOUS
<1>4. v \in Verdicts BY <1>1, <1>3 DEF RoutingInv, QuestionKnown
<1>5. asked.round \in {1, 2} /\ asked.person \in {0, 1, 2} BY <1>2 DEF Questions
<1>6. at = "request_person" => asked.person # 0 BY <1>1 DEF RoutingInv, CheckpointKnown
<1>7. CASE AskOnceMore(d)
  <2>1. CASE at # "request_person" /\ AskOn(d, 2, 0) BY <1>1, <2>1, AskOnInv
  <2>2. CASE GiveUp(d, "unclear") BY <1>1, <2>2, GiveUpInv
  <2> QED BY <1>7, <2>1, <2>2 DEF AskOnceMore
<1>8. CASE ReachPerson(d) BY <1>1, <1>8, ReachPersonInv
<1>9. CASE asked.person = 0 /\ v = "yes" /\ Proceed(d)
  BY <1>1, <1>3, <1>6, <1>9, ProceedInv
<1>10. CASE GiveUp(d, v) BY <1>1, <1>10, GiveUpInv
<1>11. ASSUME NEW person \in {1, 2}, AskOn(d, asked.round, person) PROVE RoutingInv'
  <2>1. PICK round : round = asked.round OBVIOUS
  <2> QED BY <1>1, <1>5, <1>11, <2>1, AskOnInv
<1>12. CASE asked.person = 0
  <2>1. \/ (v = "yes" /\ Proceed(d)) \/ GiveUp(d, v) \/ ReachPerson(d)
        \/ AskOn(d, asked.round, 1) \/ AskOnceMore(d)
    BY <1>3, <1>4, <1>12, Zenon DEF Hear, Verdicts
  <2> QED BY <1>7, <1>8, <1>9, <1>10, <1>11, <1>12, <2>1
<1>13. CASE asked.person # 0
  <2>1. ReachPerson(d) \/ AskOn(d, asked.round, 2) \/ AskOnceMore(d)
    BY <1>3, <1>4, <1>13 DEF Hear, Verdicts
  <2> QED BY <1>7, <1>8, <1>11, <2>1
<1> QED BY <1>12, <1>13


-----------------------------------------------------------------------------
(* Arrival, the turn lock and the restart.                                  *)

LEMMA ArriveInv ==
    ASSUME RoutingInv, NEW d \in Ids, Arrive(d)
    PROVE  RoutingInv'
<1>1. PICK m \in {e \in 1..d : dl[e].message = e} :
        dl' = [dl EXCEPT ![d] =
                 [phase |-> "queued", message |-> m, thread |-> thread, knew |-> read,
                  saw |-> IF asked = NONE THEN 0 ELSE asked.id]]
  BY DEF Arrive
<1>2. PICK r : r = [phase |-> "queued", message |-> m, thread |-> thread, knew |-> read,
                    saw |-> IF asked = NONE THEN 0 ELSE asked.id]
  OBVIOUS
<1>3. /\ dl[d].phase = "new"
      /\ UNCHANGED <<thread, consumed, auto, terminal, at, asked, transition, engine, lock, detour,
                     read, consent, declined, done, acts, bound, faults>>
  BY DEF Arrive, checkpoint, history
<1>4. m \in Ids BY RegistryAssumption DEF Ids
<1>5. asked # NONE => asked.id \in Ids /\ Started(asked.id)
  BY DEF RoutingInv, RoutingType, LockKnown, Questions
<1>6. /\ dl \in [Ids -> [phase : {"new", "queued"} \cup Working \cup {"over"}, message : Ids,
                         thread : Nat, saw : {0} \cup Ids, knew : SUBSET Keys]]
      /\ thread \in Nat /\ read \subseteq Keys
  BY DEF RoutingInv, RoutingType
<1>7. /\ r \in [phase : {"new", "queued"} \cup Working \cup {"over"}, message : Ids,
                thread : Nat, saw : {0} \cup Ids, knew : SUBSET Keys]
      /\ r.phase = "queued" /\ r.knew = read
      /\ r.saw = IF asked = NONE THEN 0 ELSE asked.id
  BY <1>2, <1>4, <1>5, <1>6
<1>8. /\ dl' \in [Ids -> [phase : {"new", "queued"} \cup Working \cup {"over"}, message : Ids,
                          thread : Nat, saw : {0} \cup Ids, knew : SUBSET Keys]]
      /\ dl'[d] = r /\ \A e \in Ids : e # d => dl'[e] = dl[e]
  BY <1>1, <1>2, <1>6, <1>7
<1>9. \A e \in Ids : Started(e) => Started(e)' /\ e # d
  BY <1>3, <1>8 DEF Started, Working
<1>10. \A e \in Ids : dl'[e].phase \in Working \cup {"over"} => e # d /\ dl'[e] = dl[e]
  BY <1>7, <1>8 DEF Working
<1>11. \A e \in Ids : dl[e].phase \in Working \cup {"over"} => e # d /\ dl'[e] = dl[e]
  BY <1>3, <1>8 DEF Working
<1>12. PendingKeys' = PendingKeys /\ PendingKeys \subseteq Keys
  BY <1>3, PendingTyped DEF PendingKeys
<1>13. RoutingType' BY <1>3, <1>8 DEF RoutingInv, RoutingType
<1>14. CheckpointKnown' BY <1>3 DEF RoutingInv, CheckpointKnown
<1>15. LockKnown'
  <2>1. \A e \in Ids : dl'[e].phase \in Working => lock' = e
    BY <1>3, <1>10 DEF RoutingInv, LockKnown
  <2>2. \A e \in Ids : dl'[e].saw # 0 => dl'[e].saw \in Ids /\ Started(dl'[e].saw)
    BY <1>5, <1>6, <1>7, <1>8 DEF RoutingInv, LockKnown
  <2>3. \A e \in Ids : dl'[e].saw # 0 => Started(dl[e].saw)' BY <1>9, <2>2 DEF Started
  <2>4. asked' # NONE => Started(asked.id)' BY <1>3, <1>5, <1>9 DEF Started
  <2> QED BY <2>1, <2>3, <2>4 DEF LockKnown, Started
<1>16. QuestionKnown'
  <2>1. ASSUME lock \in Ids, dl'[lock].phase = "ended" => asked = NONE
        PROVE  (\A e \in Ids : dl'[e].saw # lock) /\ (asked # NONE => asked.id # lock)
    <3>1. dl[lock].phase = "ended" => asked = NONE BY <1>11, <2>1 DEF Working
    <3>2. /\ \A e \in Ids : dl[e].saw # lock
          /\ asked # NONE => asked.id # lock
      BY <2>1, <3>1 DEF RoutingInv, QuestionKnown
    <3>3. lock # 0 BY <2>1 DEF Ids
    <3> QED BY <1>7, <1>8, <3>2, <3>3
  <2>2. asked # NONE => PendingKeys \subseteq read BY DEF RoutingInv, QuestionKnown
  <2>3. \A e \in Ids : asked # NONE /\ dl'[e].saw = asked.id => PendingKeys \subseteq dl'[e].knew
    BY <1>7, <1>8, <2>2 DEF RoutingInv, QuestionKnown
  <2>4. \A e \in Ids : dl'[e].phase = "stream" /\ asked # NONE =>
           dl'[e].saw = asked.id /\ (at \in ConsentNodes => asked.answer \in Verdicts)
    BY <1>10 DEF RoutingInv, QuestionKnown, Working
  <2> QED BY <1>3, <1>12, <2>1, <2>2, <2>3, <2>4 DEF QuestionKnown
<1>17. KeysKnown'
  <2>1. \A k \in PendingKeys : k[1] \in Ids /\ Started(k[1]) /\ Started(k[1])'
    BY <1>9, <1>12 DEF RoutingInv, KeysKnown, Keys
  <2>2. \A k \in declined \cup done : k[1] \in Ids /\ dl'[k[1]].phase = "over"
    BY <1>11 DEF RoutingInv, KeysKnown, RoutingType, Keys
  <2>3. at \in EffectNodes => \A k \in PendingKeys : dl'[k[1]].phase = "over"
    BY <1>11, <2>1 DEF RoutingInv, KeysKnown
  <2>4. \A e \in Ids : dl'[e].phase = "admitted" \/ (dl'[e].phase = "stream" /\ asked # NONE) =>
          \A k \in PendingKeys : k[1] # e
    BY <1>10 DEF RoutingInv, KeysKnown, Working
  <2> QED BY <1>3, <1>12, <2>1, <2>2, <2>3, <2>4 DEF KeysKnown
<1>18. EffectKnown'
  <2>1. Doomed(auto, at)' = Doomed(auto, at) BY <1>3 DEF Doomed, Restoring
  <2> QED BY <1>3, <1>12, <2>1 DEF RoutingInv, EffectKnown
<1>19. DetourKnown'
  <2> SUFFICES ASSUME detour' # NONE PROVE DetourKnown' BY DEF DetourKnown
  <2>1. DetourKnown /\ detour # NONE /\ detour' = detour BY <1>3 DEF RoutingInv
  <2>2. lock \in Ids /\ dl'[lock] = dl[lock]
    BY <1>11, <2>1 DEF DetourKnown, Working
  <2>3. \A k \in KeysOf(detour.auto) : k[1] \in Ids /\ Started(k[1]) /\ k \notin declined \cup done
    BY <2>1 DEF DetourKnown, KeysOf, Autos, Pendings, Keys
  <2>4. \A k \in KeysOf(detour.auto)' : Started(k[1])' /\ k \notin declined' \cup done'
    BY <1>3, <1>9, <2>1, <2>3 DEF KeysOf
  <2> QED BY <1>3, <2>1, <2>2, <2>4 DEF DetourKnown
<1>20. ActsKnown' BY <1>3 DEF RoutingInv, ActsKnown, Consumed
<1> QED BY <1>13, <1>14, <1>15, <1>16, <1>17, <1>18, <1>19, <1>20 DEF RoutingInv

LEMMA TakeLockInv ==
    ASSUME RoutingInv, NEW d \in Ids, TakeLock(d)
    PROVE  RoutingInv'
<1>1. /\ lock = NONE /\ dl[d].phase = "queued"
      /\ UNCHANGED <<thread, consumed, auto, terminal, at, asked, transition, engine, detour,
                     read, consent, declined, done, acts, bound, faults>>
  BY DEF TakeLock, checkpoint, history
<1>2. PICK p \in {"admitted", "over"} :
        /\ dl' = [dl EXCEPT ![d].phase = p] /\ lock' \in {d, NONE} /\ (p = "admitted" => lock' = d)
        /\ p = "over" => lock' = NONE
  BY <1>1 DEF TakeLock, Phase
<1>3. dl \in [Ids -> [phase : {"new", "queued"} \cup Working \cup {"over"}, message : Ids,
                      thread : Nat, saw : {0} \cup Ids, knew : SUBSET Keys]]
  BY DEF RoutingInv, RoutingType
<1>4. /\ dl' \in [Ids -> [phase : {"new", "queued"} \cup Working \cup {"over"}, message : Ids,
                          thread : Nat, saw : {0} \cup Ids, knew : SUBSET Keys]]
      /\ dl'[d].phase = p
      /\ \A e \in Ids : dl'[e].saw = dl[e].saw /\ dl'[e].knew = dl[e].knew
      /\ \A e \in Ids : e # d => dl'[e].phase = dl[e].phase
  BY <1>2, <1>3 DEF Working
<1>5. \A e \in Ids : dl[e].phase \notin Working
  BY <1>1, NoneAssumption DEF RoutingInv, LockKnown
<1>6. ~Started(d) BY <1>1 DEF Started, Working
<1>7. \A e \in Ids : Started(e) => Started(e)' /\ e # d
  BY <1>4, <1>6 DEF Started, Working
<1>8. \A e \in Ids : dl[e].phase = "over" => dl'[e].phase = "over" BY <1>1, <1>4
<1>9. \A e \in Ids : dl'[e].phase \in Working => e = d /\ p = "admitted"
  BY <1>4, <1>5 DEF Working
<1>10. PendingKeys' = PendingKeys /\ PendingKeys \subseteq Keys
  BY <1>1, PendingTyped DEF PendingKeys
<1>11. \A e \in Ids : dl[e].saw # 0 => dl[e].saw \in Ids /\ Started(dl[e].saw)
  BY <1>3 DEF RoutingInv, LockKnown
<1>12. asked # NONE => asked.id \in Ids /\ Started(asked.id)
  BY DEF RoutingInv, RoutingType, LockKnown, Questions
<1>13. RoutingType'
  <2>1. lock' \in Ids \cup {NONE} BY <1>2
  <2>2. dl' \in [Ids -> [phase : {"new", "queued"} \cup Working \cup {"over"}, message : Ids,
                         thread : Nat, saw : {0} \cup Ids, knew : SUBSET Keys]]
    BY <1>4
  <2> QED BY <1>1, <2>1, <2>2 DEF RoutingInv, RoutingType
<1>14. CheckpointKnown' BY <1>1 DEF RoutingInv, CheckpointKnown
<1>15. LockKnown'
  <2>1. \A e \in Ids : dl'[e].saw # 0 => Started(dl[e].saw)' BY <1>4, <1>7, <1>11
  <2>2. asked' # NONE => Started(asked.id)' BY <1>1, <1>7, <1>12 DEF Started
  <2> QED BY <1>2, <1>4, <1>9, <2>1, <2>2 DEF LockKnown, Started
<1>16. QuestionKnown'
  <2>1. (\A e \in Ids : dl[e].saw # d) /\ (asked # NONE => asked.id # d)
    <3>1. d # 0 BY DEF Ids
    <3> QED BY <1>6, <1>11, <1>12, <3>1
  <2>2. lock' \in Ids => lock' = d BY <1>2, NoneAssumption
  <2>3. \A e \in Ids : dl'[e].phase # "stream" BY <1>4, <1>9 DEF Working
  <2> QED BY <1>1, <1>4, <1>10, <2>1, <2>2, <2>3 DEF RoutingInv, QuestionKnown
<1>17. KeysKnown'
  <2>1. \A k \in PendingKeys : k[1] \in Ids /\ Started(k[1]) /\ Started(k[1])' /\ k[1] # d
    BY <1>7, <1>10 DEF RoutingInv, KeysKnown, Keys
  <2>2. \A k \in declined \cup done : k[1] \in Ids /\ dl'[k[1]].phase = "over"
    BY <1>8 DEF RoutingInv, KeysKnown, RoutingType, Keys
  <2>3. at \in EffectNodes => \A k \in PendingKeys : dl'[k[1]].phase = "over"
    BY <1>8, <2>1 DEF RoutingInv, KeysKnown
  <2>4. \A e \in Ids : dl'[e].phase \in {"admitted", "stream"} => e = d BY <1>9 DEF Working
  <2> QED BY <1>1, <1>10, <2>1, <2>2, <2>3, <2>4 DEF KeysKnown
<1>18. EffectKnown'
  <2>1. Doomed(auto, at)' = Doomed(auto, at) BY <1>1 DEF Doomed, Restoring
  <2> QED BY <1>1, <1>10, <2>1 DEF RoutingInv, EffectKnown
<1>19. DetourKnown'
  <2>1. detour = NONE BY <1>1, NoneAssumption DEF RoutingInv, DetourKnown
  <2> QED BY <1>1, <2>1 DEF DetourKnown
<1>20. ActsKnown' BY <1>1 DEF RoutingInv, ActsKnown, Consumed
<1> QED BY <1>13, <1>14, <1>15, <1>16, <1>17, <1>18, <1>19, <1>20 DEF RoutingInv

LEMMA RestartStops ==
    ASSUME RoutingInv, Restart
    PROVE  Stopped
<1>1. /\ dl' = [d \in Ids |-> IF dl[d].phase = "new" THEN dl[d] ELSE Forgotten(dl[d])]
      /\ lock' = NONE /\ detour' = NONE
  BY DEF Restart
<1>2. dl \in [Ids -> [phase : {"new", "queued"} \cup Working \cup {"over"}, message : Ids,
                      thread : Nat, saw : {0} \cup Ids, knew : SUBSET Keys]]
  BY DEF RoutingInv, RoutingType
<1>3. ASSUME NEW e \in Ids
      PROVE  /\ dl'[e] \in [phase : {"new", "queued"} \cup Working \cup {"over"}, message : Ids,
                            thread : Nat, saw : {0} \cup Ids, knew : SUBSET Keys]
             /\ dl'[e].phase \notin Working
             /\ dl'[e].saw = 0 \/ (dl'[e].saw = dl[e].saw /\ dl'[e].knew = dl[e].knew)
             /\ Started(e) => dl'[e].phase = "over"
  <2>1. dl[e] \in [phase : {"new", "queued"} \cup Working \cup {"over"}, message : Ids,
                   thread : Nat, saw : {0} \cup Ids, knew : SUBSET Keys]
    BY <1>2
  <2>2. PICK r : r = Forgotten(dl[e]) OBVIOUS
  <2>3. /\ r \in [phase : {"new", "queued"} \cup Working \cup {"over"}, message : Ids,
                  thread : Nat, saw : {0} \cup Ids, knew : SUBSET Keys]
        /\ r.phase = "over" /\ r.saw = 0
    BY <2>1, <2>2 DEF Forgotten
  <2>4. dl'[e] = IF dl[e].phase = "new" THEN dl[e] ELSE r BY <1>1, <2>2
  <2> QED BY <2>1, <2>3, <2>4 DEF Started, Working
<1> QED BY <1>1, <1>3 DEF Stopped

LEMMA RestartInv ==
    ASSUME RoutingInv, Restart
    PROVE  RoutingInv'
<1>1. /\ Stopped /\ transition = NONE /\ UNCHANGED <<read, consent, declined, acts>>
      /\ bound' = bound /\ faults' = faults + 1 /\ faults < MaxFaults
  BY RestartStops DEF Restart, Fault
<1>2. faults' \in 0..MaxFaults BY <1>1, RegistryAssumption DEF RoutingInv, RoutingType
<1>3. thread \in Nat /\ terminal \in BOOLEAN /\ bound \in BOOLEAN BY DEF RoutingInv, RoutingType
<1>4. Fits(auto, at, terminal) BY DEF RoutingInv, CheckpointKnown
<1>5. CASE UNCHANGED <<checkpoint, done>> /\ engine' \in {"up", "refused"}
  <2>1. UNCHANGED <<thread, consumed, auto, terminal, at, asked, transition, done>>
    BY <1>5 DEF checkpoint
  <2>2. ActsKnown' /\ consumed' \in Seq(Ids)
    BY <1>1, <2>1 DEF RoutingInv, RoutingType, ActsKnown, Consumed
  <2>3. Ending(auto, at) BY <1>1, <1>2, <1>3, <1>4, <1>5, <2>1, <2>2 DEF Ending
  <2> QED BY <2>3, EndingInv
<1>6. "entry" \notin InvNodes \cup GuardrailNodes \cup EffectNodes /\ "entry" \in GraphNodes
  BY NodeSets, GraphFacts DEF InvNodes
<1>7. ASSUME at \notin Begins, NEW t \in {"session_restored", "node_exception"},
             t = "session_restored" => at \in RestoreNodes,
             auto' = [auto EXCEPT !.recovery = Marker(at, t, NONE)],
             at' = "entry", asked' = NONE, engine' = "up",
             at \in EffectNodes => t = "node_exception",
             done' = done \/ (at \in EffectNodes /\ done' = done \cup PendingKeys),
             UNCHANGED <<thread, consumed, terminal, transition>>
      PROVE  RoutingInv'
  <2>1. Plain(auto) /\ terminal = FALSE BY <1>7, PlainPlace DEF RoutingInv, RoutingType
  <2>2. auto \in Autos /\ at \in GraphNodes
    BY <1>4, <1>7 DEF Fits, Begins, TerminalPlaces
  <2>3. PICK r : r = Marker(at, t, NONE) OBVIOUS
  <2>4. r \in Markers /\ r # NONE /\ r.node = at /\ r.trigger = t
    BY <2>2, <2>3, MarkerFacts DEF Triggers
  <2>5. PICK a : a = [auto EXCEPT !.recovery = r] OBVIOUS
  <2>6. /\ a \in Autos /\ a.recovery = r /\ a.inv = auto.inv /\ a.pending = auto.pending
        /\ a.instruct = auto.instruct
    BY <2>2, <2>4, <2>5, MarkedFacts
  <2>7. Fits(a, "entry", terminal)
    BY <1>4, <1>6, <1>7, <2>1, <2>4, <2>6 DEF Fits, Restoring, Plain, InvNodes
  <2>8. ~Doomed(auto, at) BY <1>7 DEF Doomed, Begins, TerminalPlaces
  <2>9. at \in EffectNodes => Doomed(a, "entry") BY <1>7, <2>4, <2>6 DEF Doomed, Restoring
  <2>10. ActsKnown' /\ consumed' \in Seq(Ids)
    BY <1>1, <1>7 DEF RoutingInv, RoutingType, ActsKnown, Consumed
  <2>11. auto' = a BY <1>7, <2>3, <2>5
  <2>12. Ending(a, "entry")
    BY <1>1, <1>2, <1>3, <1>6, <1>7, <2>6, <2>7, <2>8, <2>9, <2>10, <2>11 DEF Ending
  <2> QED BY <2>12, EndingInv
<1>8. CASE /\ at \in RestoreNodes /\ engine' = "up"
           /\ auto' = [auto EXCEPT !.recovery = Marker(at, "session_restored", NONE)]
           /\ at' = "entry" /\ asked' = NONE
           /\ UNCHANGED <<thread, consumed, terminal, transition, done>>
  <2>1. at \notin Begins \cup EffectNodes
    BY <1>8, NodeSets, GraphFacts DEF Begins, TerminalPlaces
  <2> QED BY <1>7, <1>8, <2>1
<1>9. CASE /\ at \in EffectNodes /\ engine' = "up"
           /\ auto' = [auto EXCEPT !.recovery = Marker(at, "node_exception", NONE)]
           /\ at' = "entry" /\ done' = done \cup PendingKeys
           /\ UNCHANGED <<thread, consumed, terminal, asked, transition>>
  <2>1. at \notin Begins BY <1>9, NodeSets DEF Begins, TerminalPlaces
  <2>2. asked' = NONE BY <1>9, NodeSets, GraphFacts DEF RoutingInv, CheckpointKnown
  <2> QED BY <1>7, <1>9, <2>1, <2>2
<1> QED BY <1>5, <1>8, <1>9 DEF Restart

LEMMA RoutingStep ==
    ASSUME RoutingInv, Next
    PROVE  RoutingInv'
<1>1. CASE Restart BY <1>1, RestartInv
<1>2. ASSUME NEW d \in Ids, Step(d) PROVE RoutingInv'
  <2>1. CASE Entry(d) \/ Dispatch(d) \/ NoAction(d) \/ Handover(d) \/ Effect(d) \/ Recover(d)
    BY <2>1, EntryInv, DispatchInv, NoActionInv, HandoverInv, EffectInv, RecoverInv
  <2>2. CASE CartViewRender(d) \/ IdentityStatusRender(d) \/ Converse(d) \/ CatalogEntry(d)
             \/ CatalogResponse(d) \/ AnswerResponse(d) \/ SupportRender(d)
    BY <2>2, ReadNodesInv
  <2>3. CASE OrderStatusEntry(d) \/ OrderStatusTargetPropose(d) \/ OrderStatusFulfill(d)
    BY <2>3, OrderReadsInv
  <2>4. CASE CartEntry(d) \/ SupportEntry(d) \/ Guardrail(d) \/ IdentityEntry(d) \/ Assemble(d)
             \/ Apply(d)
    BY <2>4, CartEntryInv, SupportEntryInv, GuardrailInv, IdentityEntryInv, AssembleInv, ApplyInv
  <2>5. CASE Ask(d) \/ Expire(d) \/ Hear(d) \/ HearCode(d)
    BY <2>5, AskInv, ExpireInv, HearInv, HearCodeInv
  <2> QED BY <1>2, <2>1, <2>2, <2>3, <2>4, <2>5 DEF Step
<1>3. ASSUME NEW d \in Ids,
             \/ Arrive(d) \/ TakeLock(d) \/ Rotate(d)
             \/ IgnoreDuplicate(d) \/ RunReserved(d) \/ AskAgain(d) \/ MissedThread(d)
             \/ RunContinuation(d) \/ Route(d) \/ AnswerPlainly(d) \/ AnswerRouted(d)
             \/ EndStream(d) \/ RereadReadback(d) \/ Finish(d)
             \/ NodeFails(d) \/ CancelOutside(d) \/ CancelStream(d)
      PROVE  RoutingInv'
  <2>1. CASE Arrive(d) \/ TakeLock(d) \/ Rotate(d) BY <2>1, ArriveInv, TakeLockInv, RotateInv
  <2>2. CASE IgnoreDuplicate(d) \/ MissedThread(d) \/ Finish(d) \/ CancelOutside(d)
    BY <2>2, LeavesInv
  <2>3. CASE RunReserved(d) \/ RunContinuation(d) \/ Route(d) BY <2>3, RunInv, RouteInv
  <2>4. CASE AnswerPlainly(d) \/ AnswerRouted(d) BY <2>4, AnswerInv
  <2>5. CASE AskAgain(d) \/ EndStream(d) \/ RereadReadback(d)
    BY <2>5, AskAgainInv, EndStreamInv, RereadReadbackInv
  <2>6. CASE NodeFails(d) \/ CancelStream(d) BY <2>6, NodeFailsInv, CancelStreamInv
  <2> QED BY <1>3, <2>1, <2>2, <2>3, <2>4, <2>5, <2>6
<1> QED BY <1>1, <1>2, <1>3 DEF Next

LEMMA RoutingStutter ==
    ASSUME RoutingInv, UNCHANGED vars
    PROVE  RoutingInv'
<1>1. UNCHANGED <<thread, consumed, auto, terminal, at, asked, transition, bound, engine, lock,
                  detour, dl, read, consent, declined, done, acts, faults>>
  BY DEF vars, checkpoint, memory, history
<1>2. RoutingType' /\ CheckpointKnown' BY <1>1 DEF RoutingInv, RoutingType, CheckpointKnown
<1>3. PendingKeys' = PendingKeys /\ Doomed(auto, at)' = Doomed(auto, at)
  BY <1>1 DEF PendingKeys, Doomed, Restoring
<1>4. LockKnown' /\ ActsKnown'
  BY <1>1 DEF RoutingInv, LockKnown, ActsKnown, Started, Consumed
<1>5. QuestionKnown' BY <1>1, <1>3 DEF RoutingInv, QuestionKnown
<1>6. KeysKnown' BY <1>1, <1>3 DEF RoutingInv, KeysKnown, Started
<1>7. EffectKnown' BY <1>1, <1>3 DEF RoutingInv, EffectKnown
<1>8. DetourKnown' BY <1>1 DEF RoutingInv, DetourKnown, KeysOf, Started
<1> QED BY <1>2, <1>4, <1>5, <1>6, <1>7, <1>8 DEF RoutingInv

LEMMA RoutingAlwaysKnown == ConversationSpec => []RoutingInv
<1>1. ConversationInit => RoutingInv BY RoutingInitInv DEF ConversationInit
<1>2. RoutingInv /\ [ConversationNext]_conversationVars => RoutingInv'
  <2> SUFFICES ASSUME RoutingInv, [ConversationNext]_conversationVars PROVE RoutingInv' OBVIOUS
  <2>1. Next \/ UNCHANGED vars BY DEF ConversationNext, conversationVars
  <2> QED BY <2>1, RoutingStep, RoutingStutter
<1> QED BY <1>1, <1>2, PTL DEF ConversationSpec

(* TurnRouting's type invariant, over every conversation: whatever is       *)
(* delivered, cancelled or restored, the checkpoint the engine reads back   *)
(* holds the fields its nodes expect.                                       *)
THEOREM RoutingTypeCorrect == ConversationSpec => []TypeOK
<1>1. RoutingInv => TypeOK
  <2> SUFFICES ASSUME RoutingInv PROVE TypeOK OBVIOUS
  <2>1. /\ thread \in Nat /\ consumed \in Seq(Ids) /\ terminal \in BOOLEAN /\ bound \in BOOLEAN
        /\ engine \in {"up", "latched", "refused"} /\ lock \in Ids \cup {NONE}
        /\ read \subseteq Keys /\ consent \subseteq Keys /\ declined \subseteq Keys
        /\ done \subseteq Keys /\ faults \in 0..MaxFaults
    BY DEF RoutingInv, RoutingType
  <2>2. /\ auto.pending \in {NONE} \cup [cap : CommerceEffects, key : Keys]
        /\ auto.inv = NONE \/ auto.inv.target \in OrderTargets
        /\ at \in GraphNodes \cup {"rest"}
    BY DEF RoutingInv, CheckpointKnown, Fits, Autos, Pendings, Invocations
  <2>3. \A d \in Ids : dl[d].phase \in {"new", "queued", "admitted", "stream", "ended", "over"}
    BY DEF RoutingInv, RoutingType, Working
  <2>4. acts \in [Ids -> Nat] BY DEF RoutingInv, ActsKnown
  <2> QED BY <2>1, <2>2, <2>3, <2>4 DEF TypeOK
<1> QED BY <1>1, RoutingAlwaysKnown, PTL

(* For any number of deliveries, failures, cancellations and restarts: an   *)
(* effect node runs only on the "yes" of a turn that arrived after its own  *)
(* readback was asked.                                                      *)
THEOREM ConsentAlwaysFollows == ConversationSpec => []ConsentFollowsReadback
<1>1. RoutingInv => ConsentFollowsReadback
  BY DEF RoutingInv, EffectKnown, ConsentFollowsReadback
<1> QED BY <1>1, RoutingAlwaysKnown, PTL

(* For any number of deliveries, failures, cancellations and restarts: what *)
(* the caller declined is neither carried out nor read back again, by the   *)
(* set-aside detour, the restored gate or a later turn.                     *)
THEOREM DeclinesAlwaysStand == ConversationSpec => []DeclineStands
<1>1. RoutingInv => DeclineStands
  <2> SUFFICES ASSUME RoutingInv PROVE DeclineStands OBVIOUS
  <2>1. declined \cap done = {} BY DEF RoutingInv, EffectKnown
  <2>2. ASSUME asked # NONE PROVE PendingKeys \cap declined = {}
    <3>1. at \in ConsentNodes \cup {"identity_collect"}
      BY <2>2 DEF RoutingInv, CheckpointKnown
    <3>2. ~Doomed(auto, at) BY <3>1, NodeSets, GraphFacts DEF Doomed
    <3> QED BY <3>2 DEF RoutingInv, EffectKnown
  <2> QED BY <2>1, <2>2 DEF DeclineStands
<1> QED BY <1>1, RoutingAlwaysKnown, PTL

(* For any number of repeated deliveries, rotated threads and restarts: the *)
(* ledger of consumed turns lets a message be routed or answer at most once.*)
THEOREM TurnsAlwaysActOnce == ConversationSpec => []TurnActsOnce
<1>1. RoutingInv => TurnActsOnce
  BY DEF RoutingInv, ActsKnown, TurnActsOnce
<1> QED BY <1>1, RoutingAlwaysKnown, PTL
=============================================================================
