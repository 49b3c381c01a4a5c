-------------------------- MODULE SupportOrdersProofs --------------------------
(***************************************************************************)
(* Theorems about SupportOrders, for any number of sessions, orders,       *)
(* amounts, requests and failures: its type invariant, that the money of   *)
(* an order is bounded by what was captured, that remedies exclude each    *)
(* other, that nothing is done without consent to exactly that, and that   *)
(* what callers are told is true, whole, and what the books add up to.     *)
(***************************************************************************)
EXTENDS SupportOrders, FiniteSetTheorems, WellFoundedInduction, TLAPS

-----------------------------------------------------------------------------
(* The ledgers.                                                             *)

(* What the checks of the store's methods rest on: a refund leaves a paid   *)
(* amount, a promise is made by a return, returns are of shipped orders and *)
(* voids of unshipped ones.                                                 *)
LedgerOK ==
    /\ \A r \in receipts :
          /\ r.family = "refund" => paid[r.order] > 0
          /\ r.family = "return" => r.order \in Shipped
          /\ r.family = "cancel" => r.order \in cancelled
    /\ \A o \in Orders : due[o] > 0 => OpenReturn(o)
    /\ cancelled \cap Shipped = {}

LedgerTypeOK ==
    /\ receipts \subseteq Rows
    /\ paid \in [Orders -> Nat]
    /\ due \in [Orders -> Nat]
    /\ cancelled \subseteq Orders

LedgerInv == LedgerTypeOK /\ LedgerOK /\ MoneyBounded /\ RemediesExclusive

(* A call the flows can make: a refund is of a positive amount.             *)
ProperRow(row) == row \in Rows /\ (row.family = "refund" => row.amount > 0)

LEMMA RecordTypes ==
    ASSUME LedgerTypeOK, NEW row, ProperRow(row), Record(row)
    PROVE  LedgerTypeOK'
<1>1. row.order \in Orders /\ row.amount \in Nat
  BY DEF ProperRow, Rows
<1>2. (receipts \subseteq Rows)'
  BY DEF Record, LedgerTypeOK, ProperRow
<1>3. (paid \in [Orders -> Nat])'
  BY <1>1 DEF Record, LedgerTypeOK
<1>4. (due \in [Orders -> Nat])'
  BY <1>1 DEF Record, LedgerTypeOK
<1>5. (cancelled \subseteq Orders)'
  BY <1>1 DEF Record, LedgerTypeOK
<1> QED
  BY <1>2, <1>3, <1>4, <1>5 DEF LedgerTypeOK

LEMMA RecordRefund ==
    ASSUME LedgerInv, NEW row, ProperRow(row), row.family = "refund",
           RefundAllowed(row), Record(row)
    PROVE  LedgerInv'
<1>1. /\ receipts' = receipts \cup {row}
      /\ paid' = [paid EXCEPT ![row.order] = @ + row.amount]
      /\ due' = due
      /\ cancelled' = cancelled
  BY DEF Record
<1>2. row.order \in Orders /\ row.amount \in Nat /\ row.amount > 0
  BY DEF ProperRow, Rows
<1>3. LedgerTypeOK'
  BY RecordTypes DEF LedgerInv
<1>4. Captured \in [Orders -> Nat]
  BY OrderAssumption
<1>5. row.order \notin cancelled
  BY DEF RefundAllowed, OrderStatus
<1>6. paid[row.order] + due[row.order] + row.amount <= Captured[row.order]
  BY DEF RefundAllowed
<1>7. \A o \in Orders : paid'[o] = IF o = row.order THEN paid[o] + row.amount ELSE paid[o]
  BY <1>1 DEF LedgerInv, LedgerTypeOK
<1>8. MoneyBounded'
  BY <1>1, <1>2, <1>4, <1>5, <1>6, <1>7 DEF LedgerInv, LedgerTypeOK, MoneyBounded
<1>9. LedgerOK'
  <2>1. \A r \in receipts' :
            /\ r.family = "refund" => paid'[r.order] > 0
            /\ r.family = "return" => r.order \in Shipped
            /\ r.family = "cancel" => r.order \in cancelled'
    <3> SUFFICES ASSUME NEW r \in receipts'
                 PROVE /\ r.family = "refund" => paid'[r.order] > 0
                       /\ r.family = "return" => r.order \in Shipped
                       /\ r.family = "cancel" => r.order \in cancelled'
      OBVIOUS
    <3>1. CASE r = row
      BY <3>1, <1>1, <1>2, <1>7 DEF LedgerInv, LedgerTypeOK
    <3>2. CASE r \in receipts
      <4>1. r.order \in Orders
        BY <3>2 DEF LedgerInv, LedgerTypeOK, Rows
      <4>2. paid[r.order] \in Nat /\ paid'[r.order] >= paid[r.order]
        BY <4>1, <1>2, <1>7 DEF LedgerInv, LedgerTypeOK
      <4>3. paid'[r.order] \in Nat
        BY <4>1, <1>3 DEF LedgerTypeOK
      <4> QED
        BY <3>2, <1>1, <4>2, <4>3 DEF LedgerInv, LedgerOK
    <3> QED
      BY <3>1, <3>2, <1>1
  <2>2. \A o \in Orders : due'[o] > 0 => OpenReturn(o)'
    BY <1>1 DEF LedgerInv, LedgerOK, OpenReturn
  <2> QED
    BY <2>1, <2>2, <1>1 DEF LedgerInv, LedgerOK
<1>10. RemediesExclusive'
  <2> SUFFICES ASSUME NEW r \in receipts', NEW q \in receipts', r.order = q.order, r # q
               PROVE  ~(r.family = "return" /\ q.family = "return") /\ r.family # "cancel"
    BY DEF RemediesExclusive
  <2>1. CASE r = row
    BY <2>1
  <2>2. CASE r \in receipts /\ q \in receipts
    BY <2>2 DEF LedgerInv, RemediesExclusive
  <2>3. CASE r \in receipts /\ q = row
    <3>1. r.family # "cancel"
      BY <2>3, <1>5 DEF LedgerInv, LedgerOK
    <3> QED
      BY <3>1, <2>3
  <2> QED
    BY <2>1, <2>2, <2>3, <1>1
<1> QED
  BY <1>3, <1>8, <1>9, <1>10 DEF LedgerInv

LEMMA RecordReturn ==
    ASSUME LedgerInv, NEW row, ProperRow(row), row.family = "return",
           ReturnAllowed(row), Record(row)
    PROVE  LedgerInv'
<1>1. /\ receipts' = receipts \cup {row}
      /\ paid' = paid
      /\ due' = [due EXCEPT ![row.order] = @ + row.amount]
      /\ cancelled' = cancelled
  BY DEF Record
<1>2. row.order \in Orders /\ row.amount \in Nat
  BY DEF ProperRow, Rows
<1>3. LedgerTypeOK'
  BY RecordTypes DEF LedgerInv
<1>4. Captured \in [Orders -> Nat]
  BY OrderAssumption
<1>5. row.order \notin cancelled /\ row.order \in Shipped
  BY DEF ReturnAllowed, OrderStatus
<1>6. due[row.order] = 0
  BY <1>2 DEF ReturnAllowed, LedgerInv, LedgerTypeOK, LedgerOK
<1>7. paid[row.order] + row.amount <= Captured[row.order]
  BY DEF ReturnAllowed
<1>8. \A o \in Orders : due'[o] = IF o = row.order THEN due[o] + row.amount ELSE due[o]
  BY <1>1 DEF LedgerInv, LedgerTypeOK
<1>9. MoneyBounded'
  BY <1>1, <1>2, <1>4, <1>5, <1>6, <1>7, <1>8 DEF LedgerInv, LedgerTypeOK, MoneyBounded
<1>10. LedgerOK'
  <2>1. \A r \in receipts' :
            /\ r.family = "refund" => paid'[r.order] > 0
            /\ r.family = "return" => r.order \in Shipped
            /\ r.family = "cancel" => r.order \in cancelled'
    BY <1>1, <1>5 DEF LedgerInv, LedgerOK
  <2>2. \A o \in Orders : due'[o] > 0 => OpenReturn(o)'
    BY <1>1, <1>8 DEF LedgerInv, LedgerOK, OpenReturn
  <2> QED
    BY <2>1, <2>2, <1>1 DEF LedgerInv, LedgerOK
<1>11. RemediesExclusive'
  <2> SUFFICES ASSUME NEW r \in receipts', NEW q \in receipts', r.order = q.order, r # q
               PROVE  ~(r.family = "return" /\ q.family = "return") /\ r.family # "cancel"
    BY DEF RemediesExclusive
  <2>1. \A p \in receipts : p.order = row.order => p.family # "return" /\ p.family # "cancel"
    BY <1>5 DEF LedgerInv, LedgerOK, ReturnAllowed, OpenReturn
  <2>2. CASE r \in receipts /\ q \in receipts
    BY <2>2 DEF LedgerInv, RemediesExclusive
  <2> QED
    BY <2>1, <2>2, <1>1
<1> QED
  BY <1>3, <1>9, <1>10, <1>11 DEF LedgerInv

LEMMA RecordCancel ==
    ASSUME LedgerInv, NEW row, ProperRow(row), row.family = "cancel",
           CancelAllowed(row), Record(row)
    PROVE  LedgerInv'
<1>1. /\ receipts' = receipts \cup {row}
      /\ paid' = paid
      /\ due' = due
      /\ cancelled' = cancelled \cup {row.order}
  BY DEF Record
<1>2. row.order \in Orders
  BY DEF ProperRow, Rows
<1>3. LedgerTypeOK'
  BY RecordTypes DEF LedgerInv
<1>4. row.order \notin cancelled /\ row.order \notin Shipped /\ paid[row.order] = 0
  BY DEF CancelAllowed, IsCancellable, OrderStatus
<1>5. \A p \in receipts : p.order # row.order
  <2> SUFFICES ASSUME NEW p \in receipts, p.order = row.order PROVE FALSE
    OBVIOUS
  <2>1. p.family \in {"refund", "return", "cancel"}
    BY DEF LedgerInv, LedgerTypeOK, Rows
  <2> QED
    BY <2>1, <1>4 DEF LedgerInv, LedgerOK
<1>6. due[row.order] = 0
  BY <1>2, <1>5 DEF LedgerInv, LedgerTypeOK, LedgerOK, OpenReturn
<1>7. MoneyBounded'
  BY <1>1, <1>2, <1>4, <1>6 DEF LedgerInv, MoneyBounded
<1>8. LedgerOK'
  <2>1. \A r \in receipts' :
            /\ r.family = "refund" => paid'[r.order] > 0
            /\ r.family = "return" => r.order \in Shipped
            /\ r.family = "cancel" => r.order \in cancelled'
    BY <1>1 DEF LedgerInv, LedgerOK
  <2>2. \A o \in Orders : due'[o] > 0 => OpenReturn(o)'
    BY <1>1 DEF LedgerInv, LedgerOK, OpenReturn
  <2>3. cancelled' \cap Shipped = {}
    BY <1>1, <1>4 DEF LedgerInv, LedgerOK
  <2> QED
    BY <2>1, <2>2, <2>3 DEF LedgerOK
<1>9. RemediesExclusive'
  BY <1>1, <1>5 DEF LedgerInv, RemediesExclusive
<1> QED
  BY <1>3, <1>7, <1>8, <1>9 DEF LedgerInv

LEMMA LedgerUnchanged ==
    ASSUME LedgerInv, UNCHANGED ledger
    PROVE  LedgerInv'
<1>1. receipts' = receipts /\ paid' = paid /\ due' = due /\ cancelled' = cancelled
  BY DEF ledger
<1> QED
  BY <1>1 DEF LedgerInv, LedgerTypeOK, LedgerOK, MoneyBounded, RemediesExclusive, OpenReturn

(* Every call of the store keeps the ledgers right: its own checks suffice. *)
LEMMA CommitKeepsLedger ==
    ASSUME LedgerInv, NEW row, ProperRow(row), Commit(row)
    PROVE  LedgerInv'
<1>1. CASE UNCHANGED ledger
  BY <1>1, LedgerUnchanged
<1>2. CASE Allowed(row) /\ Record(row)
  <2>1. row.family \in {"refund", "return", "cancel"}
    BY DEF ProperRow, Rows
  <2>2. CASE row.family = "refund"
    BY <1>2, <2>2, RecordRefund DEF Allowed
  <2>3. CASE row.family = "return"
    BY <1>2, <2>3, RecordReturn DEF Allowed
  <2>4. CASE row.family = "cancel"
    BY <1>2, <2>4, RecordCancel DEF Allowed
  <2> QED
    BY <2>1, <2>2, <2>3, <2>4
<1> QED
  BY <1>1, <1>2 DEF Commit

-----------------------------------------------------------------------------
(* The flows.                                                               *)

(* A refund or a return is of one order, and a request for all orders names *)
(* none yet.                                                                *)
PendingOK(p) ==
    /\ p \in PendingRecords \cup {NoPending}
    /\ p.family \in {"refund", "return"} => \E o \in Orders : p.targets = {o}
    /\ p.family = "refund" => p.amount > 0
    /\ p.family = "scope" => p.targets = {}

FlowTypeOK ==
    /\ pending \in [Sessions -> PendingRecords \cup {NoPending}]
    /\ \A s \in Sessions : PendingOK(pending[s])
    /\ current \in [Sessions -> Orders \cup {NoOrder}]
    /\ lapsed \in [Sessions -> BOOLEAN]
    /\ told \in [Requests -> [Orders -> Outcomes]]

LEMMA NoPendingOK == PendingOK(NoPending)
BY DEF PendingOK, NoPending

LEMMA FlowUnchanged ==
    ASSUME FlowTypeOK, UNCHANGED flow
    PROVE  FlowTypeOK'
BY DEF flow, FlowTypeOK, PendingOK

LEMMA ReplacePending ==
    ASSUME FlowTypeOK, NEW s \in Sessions, NEW p, PendingOK(p),
           pending' = [pending EXCEPT ![s] = p]
    PROVE  /\ pending' \in [Sessions -> PendingRecords \cup {NoPending}]
           /\ \A t \in Sessions : PendingOK(pending'[t])
<1>1. p \in PendingRecords \cup {NoPending}
  BY DEF PendingOK
<1>2. pending' \in [Sessions -> PendingRecords \cup {NoPending}]
  BY <1>1 DEF FlowTypeOK
<1>3. ASSUME NEW t \in Sessions PROVE PendingOK(pending'[t])
  <2>1. pending'[t] = IF t = s THEN p ELSE pending[t]
    BY DEF FlowTypeOK
  <2>2. PendingOK(pending[t])
    BY DEF FlowTypeOK
  <2> QED
    BY <2>1, <2>2
<1> QED
  BY <1>2, <1>3

LEMMA ClearTypes ==
    ASSUME FlowTypeOK, NEW s \in Sessions, NEW outcomes \in [Orders -> Outcomes],
           Clear(s, outcomes)
    PROVE  FlowTypeOK'
<1>1. /\ pending' \in [Sessions -> PendingRecords \cup {NoPending}]
      /\ \A t \in Sessions : PendingOK(pending'[t])
  BY ReplacePending, NoPendingOK DEF Clear
<1>2. current' \in [Sessions -> Orders \cup {NoOrder}]
  BY DEF Clear, FlowTypeOK
<1>3. lapsed' \in [Sessions -> BOOLEAN]
  BY DEF Clear, FlowTypeOK
<1>4. told' \in [Requests -> [Orders -> Outcomes]]
  BY DEF Clear, FlowTypeOK
<1> QED
  BY <1>1, <1>2, <1>3, <1>4 DEF FlowTypeOK, PendingOK

LEMMA DropTypes ==
    ASSUME FlowTypeOK, NEW s \in Sessions, Clear(s, Unsaid(s))
    PROVE  FlowTypeOK'
<1>1. /\ pending' \in [Sessions -> PendingRecords \cup {NoPending}]
      /\ \A t \in Sessions : PendingOK(pending'[t])
  BY ReplacePending, NoPendingOK DEF Clear
<1>2. current' \in [Sessions -> Orders \cup {NoOrder}]
  BY DEF Clear, FlowTypeOK
<1>3. lapsed' \in [Sessions -> BOOLEAN]
  BY DEF Clear, FlowTypeOK
<1>4. told' = told
  BY DEF Clear, Unsaid, FlowTypeOK
<1> QED
  BY <1>1, <1>2, <1>3, <1>4 DEF FlowTypeOK, PendingOK

LEMMA MintTypes ==
    ASSUME FlowTypeOK, NEW s \in Sessions, NEW p, PendingOK(p), Mint(s, p)
    PROVE  FlowTypeOK'
<1>1. /\ pending' \in [Sessions -> PendingRecords \cup {NoPending}]
      /\ \A t \in Sessions : PendingOK(pending'[t])
  BY ReplacePending DEF Mint
<1>2. current' = current /\ told' = told
  BY DEF Mint
<1>3. lapsed' \in [Sessions -> BOOLEAN]
  BY DEF Mint, FlowTypeOK
<1> QED
  BY <1>1, <1>2, <1>3 DEF FlowTypeOK, PendingOK

LEMMA EveryType ==
    ASSUME NEW s, NEW outcome \in Outcomes
    PROVE  Every(s, outcome) \in [Orders -> Outcomes]
BY DEF Every, Outcomes

LEMMA PendingType ==
    ASSUME NEW req \in Requests, NEW family \in Families, NEW targets \in SUBSET Orders,
           NEW amount \in Nat, NEW destination \in Destinations, NEW steered \in BOOLEAN,
           family \in {"refund", "return"} => \E o \in Orders : targets = {o},
           family = "refund" => amount > 0,
           family = "scope" => targets = {}
    PROVE  PendingOK(Pending(req, family, targets, amount, destination, steered))
<1>1. NoOutcomes \in [Orders -> Outcomes]
  BY DEF NoOutcomes, Outcomes
<1> QED
  BY <1>1 DEF PendingOK, Pending, PendingRecords

(* The order of a refund or a return is its one target.                     *)
LEMMA TargetType ==
    ASSUME NEW p, PendingOK(p), p.family \in {"refund", "return"}
    PROVE  /\ Target(p) \in Orders
           /\ p.req \in Requests
           /\ p.amount \in Nat
<1>1. PICK o \in Orders : p.targets = {o}
  BY DEF PendingOK
<1>2. Target(p) = o
  BY <1>1 DEF Target
<1>3. p # NoPending
  BY DEF NoPending
<1>4. p \in PendingRecords
  BY <1>3 DEF PendingOK
<1> QED
  BY <1>2, <1>4 DEF PendingRecords

(* A session between two nodes of a flow has its request pending, and a     *)
(* scope only until it is resolved.                                         *)
HasPending ==
    \A s \in Sessions :
        at[s] \notin {"rest", "terminal"} =>
            /\ pending[s] \in PendingRecords
            /\ pending[s].family = "scope" => at[s] = "resolve"

LEMMA MintedType ==
    ASSUME TypeOK, minted < MaxRequests
    PROVE  minted + 1 \in Requests
BY OrderAssumption DEF TypeOK, Requests

LEMMA AskTypes ==
    ASSUME FlowTypeOK, NEW s \in Sessions, NEW p, PendingOK(p), Ask(s, p)
    PROVE  FlowTypeOK'
BY MintTypes DEF Ask

LEMMA AskStep ==
    ASSUME TypeOK, FlowTypeOK, NEW s \in Sessions,
           AskRefund(s) \/ AskReturn(s) \/ AskCancel(s) \/ AskCancelAll(s)
    PROVE  \E p : /\ PendingOK(p) /\ p.req = minted + 1 /\ p.outcomes = NoOutcomes
                /\ minted < MaxRequests /\ Ask(s, p)
<1>0. Mine[s] \subseteq Orders
  BY SupportAssumption
<1>1. CASE AskRefund(s)
  <2>1. PICK o \in Mine[s], amount \in Amounts, destination \in Destinations :
           Ask(s, Pending(minted + 1, "refund", {o}, amount, destination, FALSE))
    BY <1>1 DEF AskRefund
  <2>2. minted < MaxRequests
    BY <2>1 DEF Ask
  <2>3. amount \in Nat /\ amount > 0
    BY SupportAssumption
  <2>4. PendingOK(Pending(minted + 1, "refund", {o}, amount, destination, FALSE))
    BY <1>0, <2>2, <2>3, MintedType, PendingType DEF Families
  <2>5. /\ Pending(minted + 1, "refund", {o}, amount, destination, FALSE).req = minted + 1
        /\ Pending(minted + 1, "refund", {o}, amount, destination, FALSE).outcomes = NoOutcomes
    BY DEF Pending
  <2> QED
    BY <2>1, <2>2, <2>4, <2>5
<1>2. CASE AskReturn(s)
  <2>1. PICK o \in Mine[s] :
           Ask(s, Pending(minted + 1, "return", {o}, RefundDue(o), "original", FALSE))
    BY <1>2 DEF AskReturn
  <2>2. minted < MaxRequests
    BY <2>1 DEF Ask
  <2>3. RefundDue(o) \in Nat
    BY <1>0, OrderAssumption DEF RefundDue, TypeOK
  <2>4. PendingOK(Pending(minted + 1, "return", {o}, RefundDue(o), "original", FALSE))
    BY <1>0, <2>2, <2>3, MintedType, PendingType DEF Families, Destinations
  <2>5. /\ Pending(minted + 1, "return", {o}, RefundDue(o), "original", FALSE).req = minted + 1
        /\ Pending(minted + 1, "return", {o}, RefundDue(o), "original", FALSE).outcomes = NoOutcomes
    BY DEF Pending
  <2> QED
    BY <2>1, <2>2, <2>4, <2>5
<1>3. CASE AskCancel(s)
  <2>1. PICK batch \in SUBSET Mine[s] \ {{}} :
           Ask(s, Pending(minted + 1, "cancel", batch, 0, "original", FALSE))
    BY <1>3 DEF AskCancel
  <2>2. minted < MaxRequests
    BY <2>1 DEF Ask
  <2>3. batch \in SUBSET Orders
    BY <1>0
  <2>4. PendingOK(Pending(minted + 1, "cancel", batch, 0, "original", FALSE))
    BY <2>2, <2>3, MintedType, PendingType DEF Families, Destinations
  <2>5. /\ Pending(minted + 1, "cancel", batch, 0, "original", FALSE).req = minted + 1
        /\ Pending(minted + 1, "cancel", batch, 0, "original", FALSE).outcomes = NoOutcomes
    BY DEF Pending
  <2> QED
    BY <2>1, <2>2, <2>4, <2>5
<1>4. CASE AskCancelAll(s)
  <2>1. Ask(s, Pending(minted + 1, "scope", {}, 0, "original", FALSE))
    BY <1>4 DEF AskCancelAll
  <2>2. minted < MaxRequests
    BY <2>1 DEF Ask
  <2>4. PendingOK(Pending(minted + 1, "scope", {}, 0, "original", FALSE))
    BY <2>2, MintedType, PendingType DEF Families, Destinations
  <2>5. /\ Pending(minted + 1, "scope", {}, 0, "original", FALSE).req = minted + 1
        /\ Pending(minted + 1, "scope", {}, 0, "original", FALSE).outcomes = NoOutcomes
    BY DEF Pending
  <2> QED
    BY <2>1, <2>2, <2>4, <2>5
<1> QED
  BY <1>1, <1>2, <1>3, <1>4

LEMMA GuardrailTypes ==
    ASSUME TypeOK, FlowTypeOK, HasPending, NEW s \in Sessions,
           ResolveScope(s) \/ RefundGuardrail(s) \/ ReturnGuardrail(s) \/ GuardrailOfCancel(s)
    PROVE  FlowTypeOK'
<1> DEFINE p == pending[s]
<1>0. PendingOK(p)
  BY DEF FlowTypeOK
<1>d. Every(s, "declined") \in [Orders -> Outcomes]
  BY EveryType DEF Outcomes
<1>1. CASE ResolveScope(s)
  <2>1. PICK both \in BOOLEAN : Resolve(s, both)
    BY <1>1 DEF ResolveScope
  <2>2. p.req \in Requests
    BY <2>1 DEF Resolve, HasPending, PendingRecords
  <2> DEFINE candidates == {o \in Mine[s] : IsCancellable(o)}
  <2>3. candidates \in SUBSET Orders
    BY SupportAssumption
  <2>4. PendingOK(Pending(p.req, "cancel", candidates, 0, "original", FALSE))
    BY <2>2, <2>3, PendingType DEF Families, Destinations
  <2>5. \/ Clear(s, Unsaid(s))
        \/ Mint(s, Pending(p.req, "cancel", candidates, 0, "original", FALSE))
    BY <2>1 DEF Resolve, Drop, End
  <2> QED
    BY <2>4, <2>5, DropTypes, MintTypes
<1>2. CASE RefundGuardrail(s)
  <2> DEFINE o == Target(p)
  <2>1. p.family = "refund"
    BY <1>2 DEF RefundGuardrail
  <2>2. o \in Orders /\ p.req \in Requests /\ p.amount \in Nat
    BY <1>0, <2>1, TargetType
  <2>3. PendingOK(Pending(p.req, "cancel", {o}, 0, "original", TRUE))
    BY <2>2, PendingType DEF Families, Destinations
  <2>4. PendingOK(Pending(p.req, "return", {o}, p.amount, "original", TRUE))
    BY <2>2, PendingType DEF Families, Destinations
  <2>5. \/ Clear(s, Every(s, "declined"))
        \/ Mint(s, Pending(p.req, "cancel", {o}, 0, "original", TRUE))
        \/ Mint(s, Pending(p.req, "return", {o}, p.amount, "original", TRUE))
        \/ UNCHANGED flow
    BY <1>2 DEF RefundGuardrail, End, Stay
  <2> QED
    BY <1>d, <2>3, <2>4, <2>5, ClearTypes, MintTypes, FlowUnchanged
<1>3. CASE ReturnGuardrail(s)
  <2> DEFINE o == Target(p)
  <2>1. p.family = "return"
    BY <1>3 DEF ReturnGuardrail
  <2>2. o \in Orders /\ p.req \in Requests /\ p.amount \in Nat
    BY <1>0, <2>1, TargetType
  <2>3. PendingOK(Pending(p.req, "cancel", {o}, 0, "original", TRUE))
    BY <2>2, PendingType DEF Families, Destinations
  <2>5. \/ Clear(s, Every(s, "declined"))
        \/ Mint(s, Pending(p.req, "cancel", {o}, 0, "original", TRUE))
        \/ UNCHANGED flow
    BY <1>3 DEF ReturnGuardrail, End, Stay
  <2> QED
    BY <1>d, <2>3, <2>5, ClearTypes, MintTypes, FlowUnchanged
<1>4. CASE GuardrailOfCancel(s)
  <2>1. PICK blocked \in BOOLEAN : CancelGuardrail(s, blocked)
    BY <1>4 DEF GuardrailOfCancel
  <2>2. p.family = "cancel" /\ p \in PendingRecords
    BY <1>0, <2>1 DEF CancelGuardrail, PendingOK, NoPending
  <2>3. Partition(p).outcomes \in [Orders -> Outcomes]
    BY <2>2 DEF Partition, Preflight, Outcomes, PendingRecords
  <2>4. PendingOK(Partition(p))
    <3>1. Partition(p) \in PendingRecords
      BY <2>2, <2>3 DEF Partition, PendingRecords
    <3>2. Partition(p).family = "cancel"
      BY <2>2 DEF Partition, PendingRecords
    <3> QED
      BY <3>1, <3>2 DEF PendingOK
  <2>5. \/ Clear(s, Unsaid(s))
        \/ Clear(s, Partition(p).outcomes)
        \/ /\ pending' = [pending EXCEPT ![s] = Partition(p)]
           /\ UNCHANGED <<current, lapsed, told>>
    BY <2>1 DEF CancelGuardrail, Drop, HandOver, Terminal, End
  <2>6. CASE /\ pending' = [pending EXCEPT ![s] = Partition(p)]
             /\ UNCHANGED <<current, lapsed, told>>
    <3>1. /\ pending' \in [Sessions -> PendingRecords \cup {NoPending}]
          /\ \A t \in Sessions : PendingOK(pending'[t])
      BY <2>4, <2>6, ReplacePending
    <3> QED
      BY <3>1, <2>6 DEF FlowTypeOK, PendingOK
  <2> QED
    BY <2>3, <2>5, <2>6, ClearTypes, DropTypes
<1> QED
  BY <1>1, <1>2, <1>3, <1>4

LEMMA ConsentTypes ==
    ASSUME FlowTypeOK, NEW s \in Sessions,
           StepUp(s) \/ Confirm(s) \/ AnswerAny(s) \/ Reread(s) \/ Lapse(s)
    PROVE  FlowTypeOK'
<1>f. Every(s, "failed") \in [Orders -> Outcomes]
  BY EveryType DEF Outcomes
<1>1. CASE StepUp(s) \/ Reread(s)
  BY <1>1, FlowUnchanged, DropTypes DEF StepUp, Reread, Stay, Drop, End, HandOver, Terminal
<1>2. CASE Confirm(s)
  BY <1>2, <1>f, FlowUnchanged, ClearTypes DEF Confirm, Stay, End
<1>3. CASE AnswerAny(s)
  <2>1. \/ Clear(s, Every(s, "failed"))
        \/ Clear(s, Unsaid(s))
        \/ UNCHANGED flow
    BY <1>3 DEF AnswerAny, Answer, End, Stay, Drop, HandOver, Terminal
  <2> QED
    BY <2>1, <1>f, FlowUnchanged, ClearTypes, DropTypes
<1>4. CASE Lapse(s)
  <2>1. pending' = pending /\ current' = current /\ told' = told
    BY <1>4 DEF Lapse
  <2>2. lapsed' \in [Sessions -> BOOLEAN]
    BY <1>4 DEF Lapse, FlowTypeOK
  <2> QED
    BY <2>1, <2>2 DEF FlowTypeOK, PendingOK
<1> QED
  BY <1>1, <1>2, <1>3, <1>4

LEMMA EffectTypes ==
    ASSUME FlowTypeOK, HasPending, NEW s \in Sessions,
           Place(s) \/ RunEffect(s) \/ EffectReturns(s) \/ Finish(s)
    PROVE  FlowTypeOK'
<1>0. PendingOK(pending[s])
  BY DEF FlowTypeOK
<1>1. CASE Place(s)
  <2>1. CASE Clear(s, Unsaid(s))
    BY <2>1, DropTypes
  <2>2. CASE \E o \in Remaining(pending[s]) : /\ current' = [current EXCEPT ![s] = o]
                                              /\ UNCHANGED <<pending, lapsed, told>>
    <3>1. PICK o \in Remaining(pending[s]) : current' = [current EXCEPT ![s] = o]
      BY <2>2
    <3>2. o \in Orders
      BY <1>0 DEF Remaining, PendingOK, PendingRecords, NoPending
    <3>3. current' \in [Sessions -> Orders \cup {NoOrder}]
      BY <3>1, <3>2 DEF FlowTypeOK
    <3> QED
      BY <2>2, <3>3 DEF FlowTypeOK, PendingOK
  <2> QED
    BY <1>1, <2>1, <2>2 DEF Place, HandOver, Terminal
<1>2. CASE RunEffect(s)
  BY <1>2, FlowUnchanged DEF RunEffect, flow
<1>3. CASE EffectReturns(s)
  <2>1. Every(s, "failed") \in [Orders -> Outcomes]
    BY EveryType DEF Outcomes
  <2> QED
    BY <1>3, <2>1, FlowUnchanged, ClearTypes DEF EffectReturns, Stay, Terminal
<1>4. CASE Finish(s)
  <2>1. Every(s, "done") \in [Orders -> Outcomes]
    BY EveryType DEF Outcomes
  <2>2. ASSUME NEW outcome \in {"done", "failed"}, FinishCancel(s, outcome)
        PROVE  FlowTypeOK'
    <3>1. pending[s].outcomes \in [Orders -> Outcomes]
      BY <1>0 DEF PendingOK, PendingRecords, NoPending, NoOutcomes, Outcomes
    <3>2. With(s, outcome) \in [Orders -> Outcomes]
      BY <3>1 DEF With, Outcomes
    <3>3. CASE Clear(s, With(s, outcome))
      BY <3>2, <3>3, ClearTypes
    <3>4. CASE /\ pending' = [pending EXCEPT ![s].outcomes = With(s, outcome)]
               /\ current' = [current EXCEPT ![s] = NoOrder]
               /\ UNCHANGED <<lapsed, told>>
      <4> DEFINE p == [pending[s] EXCEPT !.outcomes = With(s, outcome)]
      <4>1. pending[s] \in PendingRecords
        BY <1>4 DEF Finish, HasPending
      <4>2. /\ p \in PendingRecords
            /\ p.family = pending[s].family
            /\ p.targets = pending[s].targets
            /\ p.amount = pending[s].amount
        BY <3>2, <4>1 DEF PendingRecords
      <4>3. PendingOK(p)
        BY <1>0, <4>2 DEF PendingOK
      <4>4. pending' = [pending EXCEPT ![s] = p]
        BY <3>4
      <4>5. /\ pending' \in [Sessions -> PendingRecords \cup {NoPending}]
            /\ \A t \in Sessions : PendingOK(pending'[t])
        BY <4>3, <4>4, ReplacePending
      <4>6. current' \in [Sessions -> Orders \cup {NoOrder}]
        BY <3>4 DEF FlowTypeOK
      <4> QED
        BY <3>4, <4>5, <4>6 DEF FlowTypeOK, PendingOK
    <3> QED
      BY <2>2, <3>3, <3>4 DEF FinishCancel, End
  <2> QED
    BY <1>4, <2>1, <2>2, ClearTypes DEF Finish, End
<1> QED
  BY <1>1, <1>2, <1>3, <1>4

LEMMA FailureTypes ==
    ASSUME FlowTypeOK, HasPending, NEW s \in Sessions,
           \/ FailNode(s) \/ AbandonEffect(s) \/ RecoveryFails(s)
           \/ TakeOver(s) \/ TakeOverTimesOut(s) \/ ReconcileEffect(s)
    PROVE  FlowTypeOK'
<1>f. Every(s, "failed") \in [Orders -> Outcomes]
  BY EveryType DEF Outcomes
<1>1. CASE FailNode(s)
  <2>1. \/ Clear(s, Unsaid(s))
        \/ Clear(s, Every(s, "failed"))
        \/ UNCHANGED flow
    BY <1>1 DEF FailNode, Drop, End, Stay
  <2> QED
    BY <2>1, <1>f, DropTypes, ClearTypes, FlowUnchanged
<1>2. CASE AbandonEffect(s) \/ TakeOver(s)
  BY <1>2, FlowUnchanged DEF AbandonEffect, TakeOver, Stay
<1>3. CASE RecoveryFails(s) \/ TakeOverTimesOut(s)
  BY <1>3, DropTypes DEF RecoveryFails, TakeOverTimesOut, HandOver, Terminal
<1>4. CASE ReconcileEffect(s)
  <2>1. PICK o \in Interrupted(s) :
           Clear(s, Reconciled(s, o, IF Committed(Row(pending[s], o)) THEN "done" ELSE "failed"))
    BY <1>4 DEF ReconcileEffect, End
  <2>2. pending[s].outcomes \in [Orders -> Outcomes]
    BY <1>4 DEF ReconcileEffect, HasPending, PendingRecords
  <2>3. ASSUME NEW outcome \in {"done", "failed"}
        PROVE  Reconciled(s, o, outcome) \in [Orders -> Outcomes]
    BY <2>2 DEF Reconciled, Outcomes
  <2> QED
    BY <2>1, <2>3, ClearTypes
<1> QED
  BY <1>1, <1>2, <1>3, <1>4

-----------------------------------------------------------------------------
(* Where a step leaves its session.                                         *)

Moves(s) ==
    \/ UNCHANGED <<at, pending>>
    \/ \E node \in {"rest", "terminal"} :
          Go(s, node) /\ pending' = [pending EXCEPT ![s] = NoPending]
    \/ \E node \in Nodes, p \in PendingRecords :
          /\ p.family = "scope" => node = "resolve"
          /\ Go(s, node)
          /\ pending' = [pending EXCEPT ![s] = p]

LEMMA MovesKeep ==
    ASSUME at \in [Sessions -> Nodes], FlowTypeOK, HasPending, NEW s \in Sessions, Moves(s)
    PROVE  at' \in [Sessions -> Nodes] /\ HasPending'
<1>1. CASE UNCHANGED <<at, pending>>
  BY <1>1 DEF HasPending
<1>2. CASE \E node \in {"rest", "terminal"} :
              Go(s, node) /\ pending' = [pending EXCEPT ![s] = NoPending]
  <2>1. PICK node \in {"rest", "terminal"} :
              Go(s, node) /\ pending' = [pending EXCEPT ![s] = NoPending]
    BY <1>2
  <2>2. at' = [at EXCEPT ![s] = node]
    BY <2>1 DEF Go
  <2>3. at' \in [Sessions -> Nodes]
    BY <2>2 DEF Nodes
  <2>4. HasPending'
    BY <2>1, <2>2 DEF HasPending, FlowTypeOK
  <2> QED
    BY <2>3, <2>4
<1>3. CASE \E node \in Nodes, p \in PendingRecords :
             /\ p.family = "scope" => node = "resolve"
             /\ Go(s, node)
             /\ pending' = [pending EXCEPT ![s] = p]
  <2>1. PICK node \in Nodes, p \in PendingRecords :
             /\ p.family = "scope" => node = "resolve"
             /\ Go(s, node)
             /\ pending' = [pending EXCEPT ![s] = p]
    BY <1>3
  <2>2. at' = [at EXCEPT ![s] = node]
    BY <2>1 DEF Go
  <2>3. at' \in [Sessions -> Nodes]
    BY <2>2
  <2>4. HasPending'
    BY <2>1, <2>2 DEF HasPending, FlowTypeOK
  <2> QED
    BY <2>3, <2>4
<1> QED
  BY <1>1, <1>2, <1>3 DEF Moves

LEMMA StayMoves ==
    ASSUME FlowTypeOK, HasPending, NEW s \in Sessions, NEW node \in Nodes,
           at[s] \notin {"rest", "terminal", "resolve"}, Go(s, node), pending' = pending
    PROVE  Moves(s)
<1>1. pending[s] \in PendingRecords /\ pending[s].family # "scope"
  BY DEF HasPending
<1>2. pending' = [pending EXCEPT ![s] = pending[s]]
  BY DEF FlowTypeOK
<1> QED
  BY <1>1, <1>2 DEF Moves

LEMMA ClearMoves ==
    ASSUME NEW s, NEW outcomes, End(s, outcomes) \/ Terminal(s, outcomes)
    PROVE  Moves(s)
BY DEF End, Terminal, Clear, Moves

LEMMA ProperPending ==
    ASSUME NEW p, PendingOK(p), p.req \in Requests
    PROVE  p \in PendingRecords
<1>1. p # NoPending
  BY OrderAssumption DEF NoPending, Requests
<1> QED
  BY <1>1 DEF PendingOK

LEMMA MintMoves ==
    ASSUME NEW s, NEW req \in Requests, NEW family \in Families, NEW targets, NEW amount,
           NEW destination, NEW steered, NEW node \in Nodes,
           PendingOK(Pending(req, family, targets, amount, destination, steered)),
           Mint(s, Pending(req, family, targets, amount, destination, steered)),
           family = "scope" => node = "resolve",
           Go(s, node)
    PROVE  Moves(s)
<1> DEFINE p == Pending(req, family, targets, amount, destination, steered)
<1>1. p.req = req /\ p.family = family
  BY DEF Pending
<1>2. p \in PendingRecords
  BY <1>1, ProperPending
<1> QED
  BY <1>1, <1>2 DEF Mint, Moves

LEMMA AskMoves ==
    ASSUME TypeOK, FlowTypeOK, NEW s \in Sessions,
           AskRefund(s) \/ AskReturn(s) \/ AskCancel(s) \/ AskCancelAll(s)
    PROVE  Moves(s)
<1>1. PICK p : PendingOK(p) /\ p.req = minted + 1 /\ minted < MaxRequests /\ Ask(s, p)
  BY AskStep
<1>2. p \in PendingRecords
  BY <1>1, MintedType, ProperPending
<1> DEFINE node == IF p.family = "scope" THEN "resolve" ELSE "guardrail"
<1>3. Go(s, node) /\ pending' = [pending EXCEPT ![s] = p]
  BY <1>1 DEF Ask, Mint
<1>4. node \in Nodes /\ (p.family = "scope" => node = "resolve")
  BY DEF Nodes
<1> QED
  BY <1>2, <1>3, <1>4 DEF Moves

LEMMA GuardrailMoves ==
    ASSUME TypeOK, FlowTypeOK, HasPending, NEW s \in Sessions,
           ResolveScope(s) \/ RefundGuardrail(s) \/ ReturnGuardrail(s) \/ GuardrailOfCancel(s)
    PROVE  Moves(s)
<1> DEFINE p == pending[s]
<1>0. PendingOK(p)
  BY DEF FlowTypeOK
<1>n. {"confirm", "stepup", "guardrail"} \subseteq Nodes
  BY DEF Nodes
<1>f. {"refund", "return", "cancel"} \subseteq Families /\ "original" \in Destinations
  BY DEF Families, Destinations
<1>1. CASE ResolveScope(s)
  <2>1. PICK both \in BOOLEAN : Resolve(s, both)
    BY <1>1 DEF ResolveScope
  <2>2. p.req \in Requests
    BY <2>1 DEF Resolve, HasPending, PendingRecords
  <2> DEFINE candidates == {o \in Mine[s] : IsCancellable(o)}
  <2>3. candidates \in SUBSET Orders
    BY SupportAssumption
  <2>4. PendingOK(Pending(p.req, "cancel", candidates, 0, "original", FALSE))
    BY <2>2, <2>3, <1>f, PendingType
  <2>5. \/ End(s, Unsaid(s))
        \/ /\ Mint(s, Pending(p.req, "cancel", candidates, 0, "original", FALSE))
           /\ Go(s, "guardrail")
    BY <2>1 DEF Resolve, Drop
  <2> QED
    BY <1>n, <1>f, <2>2, <2>4, <2>5, ClearMoves, MintMoves
<1>2. CASE RefundGuardrail(s)
  <2> DEFINE o == Target(p)
  <2>1. p.family = "refund" /\ at[s] = "guardrail"
    BY <1>2 DEF RefundGuardrail
  <2>2. o \in Orders /\ p.req \in Requests /\ p.amount \in Nat
    BY <1>0, <2>1, TargetType
  <2>3. PendingOK(Pending(p.req, "cancel", {o}, 0, "original", TRUE))
    BY <2>2, <1>f, PendingType
  <2>4. PendingOK(Pending(p.req, "return", {o}, p.amount, "original", TRUE))
    BY <2>2, <1>f, PendingType
  <2>5. \/ End(s, Every(s, "declined"))
        \/ Mint(s, Pending(p.req, "cancel", {o}, 0, "original", TRUE)) /\ Go(s, "guardrail")
        \/ Mint(s, Pending(p.req, "return", {o}, p.amount, "original", TRUE)) /\ Go(s, "guardrail")
        \/ (Go(s, "confirm") \/ Go(s, "stepup")) /\ pending' = pending
    BY <1>2 DEF RefundGuardrail, Stay, flow
  <2>6. CASE (Go(s, "confirm") \/ Go(s, "stepup")) /\ pending' = pending
    BY <1>n, <2>1, <2>6, StayMoves
  <2> QED
    BY <1>n, <1>f, <2>2, <2>3, <2>4, <2>5, <2>6, ClearMoves, MintMoves
<1>3. CASE ReturnGuardrail(s)
  <2> DEFINE o == Target(p)
  <2>1. p.family = "return" /\ at[s] = "guardrail"
    BY <1>3 DEF ReturnGuardrail
  <2>2. o \in Orders /\ p.req \in Requests /\ p.amount \in Nat
    BY <1>0, <2>1, TargetType
  <2>3. PendingOK(Pending(p.req, "cancel", {o}, 0, "original", TRUE))
    BY <2>2, <1>f, PendingType
  <2>5. \/ End(s, Every(s, "declined"))
        \/ Mint(s, Pending(p.req, "cancel", {o}, 0, "original", TRUE)) /\ Go(s, "guardrail")
        \/ Go(s, "confirm") /\ pending' = pending
    BY <1>3 DEF ReturnGuardrail, Stay, flow
  <2>6. CASE Go(s, "confirm") /\ pending' = pending
    BY <1>n, <2>1, <2>6, StayMoves
  <2> QED
    BY <1>n, <1>f, <2>2, <2>3, <2>5, <2>6, ClearMoves, MintMoves
<1>4. CASE GuardrailOfCancel(s)
  <2>1. PICK blocked \in BOOLEAN : CancelGuardrail(s, blocked)
    BY <1>4 DEF GuardrailOfCancel
  <2>2. p.family = "cancel" /\ p \in PendingRecords
    BY <1>0, <2>1 DEF CancelGuardrail, PendingOK, NoPending
  <2>3. Partition(p) \in PendingRecords /\ Partition(p).family = "cancel"
    BY <2>2 DEF Partition, Preflight, Outcomes, PendingRecords
  <2>4. \/ End(s, Unsaid(s)) \/ Terminal(s, Unsaid(s))
        \/ End(s, Partition(p).outcomes)
        \/ Go(s, "confirm") /\ pending' = [pending EXCEPT ![s] = Partition(p)]
    BY <2>1 DEF CancelGuardrail, Drop, HandOver
  <2>5. CASE Go(s, "confirm") /\ pending' = [pending EXCEPT ![s] = Partition(p)]
    BY <1>n, <2>3, <2>5 DEF Moves
  <2> QED
    BY <2>4, <2>5, ClearMoves
<1> QED
  BY <1>1, <1>2, <1>3, <1>4

LEMMA OtherMoves ==
    ASSUME TypeOK, FlowTypeOK, HasPending, NEW s \in Sessions,
           \/ StepUp(s) \/ Confirm(s) \/ AnswerAny(s) \/ Reread(s) \/ Lapse(s)
           \/ Engine(s) \/ RunEffect(s)
           \/ FailNode(s) \/ AbandonEffect(s) \/ RecoveryFails(s)
    PROVE  Moves(s)
<1> DEFINE Stays == /\ at[s] \notin {"rest", "terminal", "resolve"}
                    /\ \E node \in Nodes : Go(s, node)
                    /\ pending' = pending
           Ends == \E outcomes : End(s, outcomes) \/ Terminal(s, outcomes)
<1>s. Stays => Moves(s)
  BY StayMoves
<1>e. Ends => Moves(s)
  BY ClearMoves
<1> HIDE DEF Ends
<1>d. Drop(s) \/ HandOver(s) => Ends
  BY DEF Drop, HandOver, Ends
<1>o. ASSUME NEW outcomes, End(s, outcomes) \/ Terminal(s, outcomes)
      PROVE  Ends
  BY <1>o DEF Ends
<1>n. ASSUME NEW node \in Nodes, at[s] \notin {"rest", "terminal", "resolve"}, Stay(s, node)
      PROVE  Stays
  BY <1>n DEF Stay, flow
<1> HIDE DEF Stays
<1>1. CASE StepUp(s) \/ Reread(s)
  <2>1. "confirm" \in Nodes
    BY DEF Nodes
  <2> QED
    BY <1>1, <2>1, <1>s, <1>e, <1>d, <1>n DEF StepUp, Reread
<1>2. CASE Confirm(s)
  <2>1. "asked" \in Nodes
    BY DEF Nodes
  <2> QED
    BY <1>2, <2>1, <1>s, <1>e, <1>o, <1>n DEF Confirm
<1>3. CASE AnswerAny(s)
  <2>1. "place" \in Nodes /\ "aside" \in Nodes
    BY DEF Nodes
  <2>2. PICK reply \in Replies : Answer(s, reply)
    BY <1>3 DEF AnswerAny
  <2> QED
    BY <2>2, <2>1, <1>s, <1>e, <1>d, <1>o, <1>n DEF Answer
<1>4. CASE Lapse(s) \/ RunEffect(s)
  BY <1>4 DEF Lapse, RunEffect, Moves
<1>5. CASE Place(s)
  <2>1. "effect" \in Nodes
    BY DEF Nodes
  <2>2. \/ at[s] = "place" /\ Go(s, "effect") /\ pending' = pending
        \/ HandOver(s)
    BY <1>5 DEF Place
  <2> QED
    BY <2>1, <2>2, StayMoves, <1>e, <1>d
<1>6. CASE EffectReturns(s)
  <2>1. {"finish", "refused", "recover"} \subseteq Nodes
    BY DEF Nodes
  <2> QED
    BY <1>6, <2>1, <1>s, <1>e, <1>o, <1>n DEF EffectReturns
<1>7. CASE Finish(s)
  <2>1. ASSUME NEW outcome \in {"done", "failed"}, FinishCancel(s, outcome)
        PROVE  Moves(s)
    <3>1. CASE Go(s, "place") /\ pending' = [pending EXCEPT ![s].outcomes = With(s, outcome)]
      <4> DEFINE p == [pending[s] EXCEPT !.outcomes = With(s, outcome)]
      <4>1. pending[s] \in PendingRecords /\ pending[s].family # "scope"
        BY <1>7 DEF Finish, HasPending
      <4>2. With(s, outcome) \in [Orders -> Outcomes]
        BY <4>1 DEF With, Outcomes, PendingRecords
      <4>3. p \in PendingRecords /\ p.family # "scope"
        BY <4>1, <4>2 DEF PendingRecords
      <4>4. pending' = [pending EXCEPT ![s] = p]
        BY <3>1
      <4>5. "place" \in Nodes
        BY DEF Nodes
      <4> QED
        BY <3>1, <4>3, <4>4, <4>5 DEF Moves
    <3> QED
      BY <2>1, <3>1, <1>e, <1>o DEF FinishCancel
  <2> QED
    BY <1>7, <2>1, <1>e, <1>o DEF Finish
<1>8. CASE TakeOver(s) \/ AbandonEffect(s)
  <2>1. "recover" \in Nodes /\ "takeover" \in Nodes
    BY DEF Nodes
  <2> QED
    BY <1>8, <2>1, <1>s, <1>n DEF TakeOver, AbandonEffect
<1>9. CASE TakeOverTimesOut(s) \/ RecoveryFails(s)
  BY <1>9, <1>e, <1>d DEF TakeOverTimesOut, RecoveryFails
<1>10. CASE ReconcileEffect(s)
  BY <1>10, <1>e, <1>o DEF ReconcileEffect
<1>11. CASE FailNode(s)
  <2>1. "recover" \in Nodes
    BY DEF Nodes
  <2> QED
    BY <1>11, <2>1, <1>s, <1>e, <1>d, <1>o, <1>n DEF FailNode
<1> QED
  BY <1>1, <1>2, <1>3, <1>4, <1>5, <1>6, <1>7, <1>8, <1>9, <1>10, <1>11 DEF Engine

-----------------------------------------------------------------------------
(* The remaining variables.                                                 *)

RestTypeOK ==
    /\ overdue \subseteq Delivered
    /\ at \in [Sessions -> Nodes]
    /\ thread \in [Sessions -> Threads \cup {NoThread}]
    /\ minted \in 0 .. MaxRequests
    /\ asked \in [Requests -> SUBSET Orders]
    /\ faults \in 0 .. MaxFaults

(* The nodes between a caller's yes and the end of what it was for.         *)
Doing == {"place", "effect", "finish", "refused"}

(* Nothing waits to be done, runs or is recorded but what was consented to. *)
ConsentOK ==
    /\ \A r \in consented : ProperRow(r)
    /\ receipts \subseteq consented
    /\ \A s \in Sessions : thread[s].state = "running" => thread[s].row \in consented
    /\ \A s \in Sessions : at[s] \in Doing => ReadBack(pending[s]) \subseteq consented

IInv == LedgerInv /\ FlowTypeOK /\ RestTypeOK /\ HasPending /\ ConsentOK

LEMMA IInvTypes == IInv => TypeOK
<1> SUFFICES ASSUME IInv PROVE TypeOK
  OBVIOUS
<1>1. consented \subseteq Rows
  BY DEF IInv, ConsentOK, ProperRow
<1> QED
  BY <1>1 DEF IInv, LedgerInv, LedgerTypeOK, FlowTypeOK, RestTypeOK, TypeOK

LEMMA InitIInv == Init => IInv
<1> SUFFICES ASSUME Init PROVE IInv
  OBVIOUS
<1>1. LedgerInv
  BY OrderAssumption
     DEF Init, StoreInit, LedgerInv, LedgerTypeOK, LedgerOK, MoneyBounded, RemediesExclusive
<1>2. FlowTypeOK
  <2>1. told \in [Requests -> [Orders -> Outcomes]]
    BY DEF Init, NoOutcomes, Outcomes
  <2>2. \A s \in Sessions : PendingOK(pending[s])
    BY NoPendingOK DEF Init
  <2> QED
    BY <2>1, <2>2 DEF Init, FlowTypeOK
<1>3. RestTypeOK
  BY OrderAssumption, SupportAssumption DEF Init, StoreInit, RestTypeOK, Nodes
<1>4. HasPending
  BY DEF Init, HasPending
<1>5. ConsentOK
  BY DEF Init, StoreInit, ConsentOK, Doing, NoThread
<1> QED
  BY <1>1, <1>2, <1>3, <1>4, <1>5 DEF IInv

(* Only a running thread changes the ledgers ...                            *)
LEMMA LedgerSteps ==
    ASSUME NEW s \in Sessions, SessionStep(s)
    PROVE  UNCHANGED ledger \/ RunEffect(s)
<1>1. CASE AskRefund(s) \/ AskReturn(s) \/ AskCancel(s) \/ AskCancelAll(s)
  BY <1>1 DEF AskRefund, AskReturn, AskCancel, AskCancelAll, Ask, store, ledger
<1>2. CASE ResolveScope(s)
  BY <1>2 DEF ResolveScope, Resolve, store, ledger
<1>3. CASE RefundGuardrail(s) \/ ReturnGuardrail(s)
  BY <1>3 DEF RefundGuardrail, ReturnGuardrail, store, ledger
<1>4. CASE GuardrailOfCancel(s) \/ StepUp(s) \/ Confirm(s)
  BY <1>4 DEF GuardrailOfCancel, CancelGuardrail, StepUp, Confirm, store, ledger
<1>5. CASE AnswerAny(s) \/ Reread(s) \/ Lapse(s)
  BY <1>5 DEF AnswerAny, Answer, Reread, Lapse, store, ledger
<1>6. CASE Engine(s)
  BY <1>6 DEF Engine, Place, EffectReturns, Finish, TakeOver, TakeOverTimesOut,
              ReconcileEffect, store, ledger
<1>7. CASE FailNode(s) \/ AbandonEffect(s) \/ RecoveryFails(s)
  BY <1>7 DEF FailNode, AbandonEffect, RecoveryFails, store, ledger
<1> QED
  BY <1>1, <1>2, <1>3, <1>4, <1>5, <1>6, <1>7 DEF SessionStep

(* ... by what was consented to.                                            *)
LEMMA StepLedger ==
    ASSUME IInv, NEW s \in Sessions, SessionStep(s)
    PROVE  LedgerInv' /\ receipts' \subseteq consented
<1>1. CASE UNCHANGED ledger
  BY <1>1, LedgerUnchanged DEF IInv, ConsentOK, ledger
<1>2. CASE RunEffect(s)
  <2> DEFINE row == thread[s].row
  <2>1. row \in consented /\ ProperRow(row)
    BY <1>2 DEF RunEffect, IInv, ConsentOK
  <2>2. UNCHANGED ledger \/ Commit(row)
    BY <1>2 DEF RunEffect
  <2>3. CASE Commit(row)
    BY <2>1, <2>3, CommitKeepsLedger DEF IInv, ConsentOK, Commit, Record, ledger
  <2> QED
    BY <1>1, <2>2, <2>3
<1>3. UNCHANGED ledger \/ RunEffect(s)
  BY LedgerSteps
<1> QED
  BY <1>1, <1>2, <1>3

LEMMA StepFlow ==
    ASSUME IInv, NEW s \in Sessions, SessionStep(s)
    PROVE  FlowTypeOK' /\ Moves(s)
<1>1. TypeOK /\ FlowTypeOK /\ HasPending
  BY IInvTypes DEF IInv
<1>2. Moves(s)
  BY <1>1, AskMoves, GuardrailMoves, OtherMoves DEF SessionStep
<1>3. CASE AskRefund(s) \/ AskReturn(s) \/ AskCancel(s) \/ AskCancelAll(s)
  BY <1>1, <1>2, <1>3, AskStep, AskTypes
<1>4. CASE \/ FailNode(s) \/ AbandonEffect(s) \/ RecoveryFails(s)
           \/ StepUp(s) \/ Confirm(s) \/ AnswerAny(s) \/ Reread(s) \/ Lapse(s)
  BY <1>1, <1>2, <1>4, ConsentTypes, FailureTypes
<1>5. CASE Engine(s) \/ RunEffect(s)
  BY <1>1, <1>2, <1>5, EffectTypes, FailureTypes DEF Engine
<1>6. CASE ResolveScope(s) \/ RefundGuardrail(s) \/ ReturnGuardrail(s) \/ GuardrailOfCancel(s)
  BY <1>1, <1>2, <1>6, GuardrailTypes
<1> QED
  BY <1>2, <1>3, <1>4, <1>5, <1>6 DEF SessionStep

LEMMA FaultType ==
    ASSUME faults \in 0 .. MaxFaults, Fault \/ UNCHANGED faults
    PROVE  faults' \in 0 .. MaxFaults
BY SupportAssumption DEF Fault

(* Requests are counted and failures bounded, and a request is for orders.  *)
LEMMA StepCounts ==
    ASSUME IInv, NEW s \in Sessions, SessionStep(s)
    PROVE  /\ overdue' = overdue
           /\ minted' \in 0 .. MaxRequests
           /\ asked' \in [Requests -> SUBSET Orders]
           /\ faults' \in 0 .. MaxFaults
<1>0. /\ minted \in 0 .. MaxRequests
      /\ asked \in [Requests -> SUBSET Orders]
      /\ faults \in 0 .. MaxFaults
      /\ TypeOK /\ FlowTypeOK
  BY IInvTypes DEF IInv, RestTypeOK
<1>m. Mine[s] \subseteq Orders
  BY SupportAssumption
<1>1. CASE AskRefund(s) \/ AskReturn(s) \/ AskCancel(s) \/ AskCancelAll(s)
  <2>1. PICK p : PendingOK(p) /\ p.req = minted + 1 /\ minted < MaxRequests /\ Ask(s, p)
    BY <1>0, <1>1, AskStep
  <2>2. minted' \in 0 .. MaxRequests
    BY <1>0, <2>1, OrderAssumption DEF Ask
  <2>3. asked' \in [Requests -> SUBSET Orders]
    BY <1>0, <1>m, <2>1 DEF Ask
  <2> QED
    BY <1>0, <2>1, <2>2, <2>3 DEF Ask, store
<1>2. CASE ResolveScope(s)
  <2>1. PICK both \in BOOLEAN : Resolve(s, both)
    BY <1>2 DEF ResolveScope
  <2> DEFINE candidates == {o \in Mine[s] : IsCancellable(o)}
  <2>2. candidates \in SUBSET Orders
    BY <1>m
  <2>3. asked' = asked \/ asked' = [asked EXCEPT ![pending[s].req] = candidates]
    BY <2>1 DEF Resolve
  <2>4. asked' \in [Requests -> SUBSET Orders]
    BY <1>0, <2>2, <2>3
  <2> QED
    BY <1>0, <2>1, <2>4 DEF Resolve, store
<1>3. CASE RefundGuardrail(s) \/ ReturnGuardrail(s)
  BY <1>0, <1>3 DEF RefundGuardrail, ReturnGuardrail, store, history
<1>4. CASE GuardrailOfCancel(s) \/ StepUp(s) \/ Confirm(s)
  BY <1>0, <1>4 DEF GuardrailOfCancel, CancelGuardrail, StepUp, Confirm, store, history
<1>5. CASE AnswerAny(s) \/ Reread(s) \/ Lapse(s)
  BY <1>0, <1>5 DEF AnswerAny, Answer, Reread, Lapse, store, history
<1>6. CASE Engine(s)
  BY <1>0, <1>6 DEF Engine, Place, EffectReturns, Finish, TakeOver, TakeOverTimesOut,
                    ReconcileEffect, store, history
<1>7. CASE FailNode(s) \/ AbandonEffect(s) \/ RecoveryFails(s)
  BY <1>0, <1>7, FaultType DEF FailNode, AbandonEffect, RecoveryFails, store, history
<1>8. CASE RunEffect(s)
  BY <1>0, <1>8, FaultType DEF RunEffect, history
<1> QED
  BY <1>1, <1>2, <1>3, <1>4, <1>5, <1>6, <1>7, <1>8 DEF SessionStep

(* What a session that may do something has pending can be done.            *)
LEMMA RowType ==
    ASSUME IInv, NEW s \in Sessions, at[s] \notin {"rest", "terminal", "resolve"},
           NEW o \in pending[s].targets
    PROVE  ProperRow(Row(pending[s], o))
<1>1. pending[s] \in PendingRecords /\ pending[s].family # "scope" /\ PendingOK(pending[s])
  BY DEF IInv, HasPending, FlowTypeOK
<1>2. pending[s].family \in {"refund", "return", "cancel"}
  BY <1>1 DEF PendingRecords, Families
<1>3. Row(pending[s], o) \in Rows
  BY <1>1, <1>2 DEF Row, Receipt, Rows, PendingRecords
<1>4. pending[s].family = "refund" => pending[s].amount > 0
  BY <1>1 DEF PendingOK
<1> QED
  BY <1>3, <1>4 DEF ProperRow, Row, Receipt

(* Consent only grows, by the readback the caller answered.                 *)
LEMMA StepConsented ==
    ASSUME IInv, NEW s \in Sessions, SessionStep(s)
    PROVE  consented \subseteq consented' /\ \A r \in consented' : ProperRow(r)
<1>0. \A r \in consented : ProperRow(r)
  BY DEF IInv, ConsentOK
<1>1. CASE AnswerAny(s)
  <2>1. PICK reply \in Replies : Answer(s, reply)
    BY <1>1 DEF AnswerAny
  <2>2. at[s] = "asked"
    BY <2>1 DEF Answer
  <2>3. consented' = consented \/ consented' = consented \cup ReadBack(pending[s])
    BY <2>1 DEF Answer
  <2>4. \A r \in ReadBack(pending[s]) : ProperRow(r)
    BY <2>2, RowType DEF ReadBack
  <2> QED
    BY <1>0, <2>3, <2>4
<1>2. AnswerAny(s) \/ consented' = consented
  <2>1. CASE AskRefund(s) \/ AskReturn(s) \/ AskCancel(s) \/ AskCancelAll(s)
    BY <2>1 DEF AskRefund, AskReturn, AskCancel, AskCancelAll, Ask
  <2>2. CASE ResolveScope(s)
    BY <2>2 DEF ResolveScope, Resolve
  <2>3. CASE RefundGuardrail(s) \/ ReturnGuardrail(s)
    BY <2>3 DEF RefundGuardrail, ReturnGuardrail, history
  <2>4. CASE GuardrailOfCancel(s) \/ StepUp(s) \/ Confirm(s)
    BY <2>4 DEF GuardrailOfCancel, CancelGuardrail, StepUp, Confirm, history
  <2>5. CASE Reread(s) \/ Lapse(s) \/ RunEffect(s)
    BY <2>5 DEF Reread, Lapse, RunEffect, history
  <2>6. CASE Engine(s)
    BY <2>6 DEF Engine, Place, EffectReturns, Finish, TakeOver, TakeOverTimesOut,
                ReconcileEffect, history
  <2>7. CASE FailNode(s) \/ AbandonEffect(s) \/ RecoveryFails(s)
    BY <2>7 DEF FailNode, AbandonEffect, RecoveryFails, history
  <2> QED
    BY <2>1, <2>2, <2>3, <2>4, <2>5, <2>6, <2>7 DEF SessionStep
<1> QED
  BY <1>0, <1>1, <1>2

(* A thread is given only what was consented to.                            *)
LEMMA StepThread ==
    ASSUME IInv, NEW s \in Sessions, SessionStep(s)
    PROVE  /\ thread' \in [Sessions -> Threads \cup {NoThread}]
           /\ \A t \in Sessions : thread'[t].state = "running" => thread'[t].row \in consented
<1>0. /\ thread \in [Sessions -> Threads \cup {NoThread}]
      /\ \A t \in Sessions : thread[t].state = "running" => thread[t].row \in consented
  BY DEF IInv, RestTypeOK, ConsentOK
<1>r. ASSUME NEW new \in Threads \cup {NoThread},
             new.state = "running" => new.row \in consented,
             thread' = [thread EXCEPT ![s] = new]
      PROVE  /\ thread' \in [Sessions -> Threads \cup {NoThread}]
             /\ \A t \in Sessions : thread'[t].state = "running" => thread'[t].row \in consented
  <2>1. thread' \in [Sessions -> Threads \cup {NoThread}]
    BY <1>0, <1>r
  <2>2. \A t \in Sessions : thread'[t] = IF t = s THEN new ELSE thread[t]
    BY <1>0, <1>r
  <2> QED
    BY <2>1, <2>2, <1>0, <1>r
<1>n. NoThread.state = "idle"
  BY DEF NoThread
<1>1. CASE UNCHANGED thread
  BY <1>0, <1>1
<1>2. CASE Place(s)
  <2>1. CASE \E o \in Remaining(pending[s]) :
               thread' = [thread EXCEPT ![s] = [state |-> "running", row |-> Row(pending[s], o)]]
    <3>1. PICK o \in Remaining(pending[s]) :
               thread' = [thread EXCEPT ![s] = [state |-> "running", row |-> Row(pending[s], o)]]
      BY <2>1
    <3>2. at[s] = "place" /\ o \in pending[s].targets
      BY <1>2 DEF Place, Remaining
    <3>3. Row(pending[s], o) \in consented
      BY <3>2 DEF IInv, ConsentOK, Doing, ReadBack
    <3>4. Row(pending[s], o) \in Rows
      BY <3>2, RowType DEF ProperRow
    <3>5. [state |-> "running", row |-> Row(pending[s], o)] \in Threads
      BY <3>4 DEF Threads
    <3> QED
      BY <3>1, <3>3, <3>5, <1>r
  <2> QED
    BY <1>1, <1>2, <2>1 DEF Place
<1>3. CASE RunEffect(s)
  <2>1. thread[s] \in Threads
    BY <1>0, <1>3, <1>n DEF RunEffect
  <2>2. PICK how \in {"done", "refused", "raised"} : thread' = [thread EXCEPT ![s].state = how]
    BY <1>3 DEF RunEffect
  <2> DEFINE new == [thread[s] EXCEPT !.state = how]
  <2>3. new \in Threads /\ new.state # "running"
    BY <2>1 DEF Threads
  <2>4. thread' = [thread EXCEPT ![s] = new]
    BY <2>2
  <2> QED
    BY <2>3, <2>4, <1>r
<1>4. CASE EffectReturns(s) \/ TakeOver(s)
  <2>1. thread' = [thread EXCEPT ![s] = NoThread]
    BY <1>4 DEF EffectReturns, TakeOver
  <2> QED
    BY <2>1, <1>n, <1>r
<1>5. UNCHANGED thread \/ Place(s) \/ RunEffect(s) \/ EffectReturns(s) \/ TakeOver(s)
  <2>1. CASE AskRefund(s) \/ AskReturn(s) \/ AskCancel(s) \/ AskCancelAll(s)
    BY <2>1 DEF AskRefund, AskReturn, AskCancel, AskCancelAll, Ask
  <2>2. CASE ResolveScope(s)
    BY <2>2 DEF ResolveScope, Resolve
  <2>3. CASE RefundGuardrail(s) \/ ReturnGuardrail(s)
    BY <2>3 DEF RefundGuardrail, ReturnGuardrail
  <2>4. CASE GuardrailOfCancel(s) \/ StepUp(s) \/ Confirm(s)
    BY <2>4 DEF GuardrailOfCancel, CancelGuardrail, StepUp, Confirm
  <2>5. CASE AnswerAny(s) \/ Reread(s) \/ Lapse(s)
    BY <2>5 DEF AnswerAny, Answer, Reread, Lapse
  <2>6. CASE Finish(s) \/ TakeOverTimesOut(s) \/ ReconcileEffect(s)
    BY <2>6 DEF Finish, TakeOverTimesOut, ReconcileEffect
  <2>7. CASE FailNode(s) \/ AbandonEffect(s) \/ RecoveryFails(s)
    BY <2>7 DEF FailNode, AbandonEffect, RecoveryFails
  <2> QED
    BY <2>1, <2>2, <2>3, <2>4, <2>5, <2>6, <2>7 DEF SessionStep, Engine
<1> QED
  BY <1>1, <1>2, <1>3, <1>4, <1>5

(* A session comes to do something by a yes to what it has pending, and     *)
(* what it has pending names the same effects until all is done.            *)
LEMMA StepDoing ==
    ASSUME IInv, NEW s \in Sessions, SessionStep(s)
    PROVE  \A t \in Sessions : at'[t] \in Doing => ReadBack(pending'[t]) \subseteq consented'
<1>0. /\ at \in [Sessions -> Nodes]
      /\ pending \in [Sessions -> PendingRecords \cup {NoPending}]
      /\ \A t \in Sessions : at[t] \in Doing => ReadBack(pending[t]) \subseteq consented
  BY DEF IInv, RestTypeOK, FlowTypeOK, ConsentOK
<1>c. consented \subseteq consented'
  BY StepConsented
<1>m. ASSUME NEW t \in Sessions, t # s
      PROVE  at'[t] = at[t] /\ pending'[t] = pending[t]
  BY <1>0, <1>m, StepFlow DEF Moves, Go
<1> SUFFICES at'[s] \in Doing => ReadBack(pending'[s]) \subseteq consented'
  BY <1>0, <1>c, <1>m
<1>g. ASSUME NEW node, Go(s, node)
      PROVE  at'[s] = node
  BY <1>0, <1>g DEF Go
<1>h. Drop(s) \/ HandOver(s) => at'[s] \notin Doing
  BY <1>g DEF Drop, HandOver, End, Terminal, Doing
<1>e. ASSUME NEW outcomes, End(s, outcomes) \/ Terminal(s, outcomes)
      PROVE  at'[s] \notin Doing
  BY <1>e, <1>g DEF End, Terminal, Doing
<1>d. CASE at[s] \in Doing /\ pending' = pending
  BY <1>0, <1>c, <1>d
<1>1. CASE AskRefund(s) \/ AskReturn(s) \/ AskCancel(s) \/ AskCancelAll(s)
  <2>1. Go(s, "resolve") \/ Go(s, "guardrail")
    BY <1>1 DEF AskRefund, AskReturn, AskCancel, AskCancelAll, Ask
  <2> QED
    BY <2>1, <1>g DEF Doing
<1>2. CASE ResolveScope(s)
  <2>1. Drop(s) \/ Go(s, "guardrail")
    BY <1>2 DEF ResolveScope, Resolve
  <2> QED
    BY <2>1, <1>g, <1>h DEF Doing
<1>3. CASE RefundGuardrail(s) \/ ReturnGuardrail(s)
  <2>1. \/ Go(s, "guardrail") \/ Go(s, "confirm") \/ Go(s, "stepup")
        \/ End(s, Every(s, "declined"))
    BY <1>3 DEF RefundGuardrail, ReturnGuardrail, Stay
  <2> QED
    BY <2>1, <1>g, <1>e DEF Doing
<1>4. CASE GuardrailOfCancel(s)
  <2>1. \/ Drop(s) \/ HandOver(s) \/ Go(s, "confirm")
        \/ End(s, Partition(pending[s]).outcomes)
    BY <1>4 DEF GuardrailOfCancel, CancelGuardrail
  <2> QED
    BY <2>1, <1>g, <1>h, <1>e DEF Doing
<1>5. CASE StepUp(s) \/ Confirm(s) \/ Reread(s)
  <2>1. \/ Drop(s) \/ HandOver(s) \/ Go(s, "confirm") \/ Go(s, "asked")
        \/ End(s, Every(s, "failed"))
    BY <1>5 DEF StepUp, Confirm, Reread, Stay
  <2> QED
    BY <2>1, <1>g, <1>h, <1>e DEF Doing
<1>6. CASE AnswerAny(s)
  <2>1. \/ Drop(s) \/ HandOver(s) \/ Go(s, "aside") \/ End(s, Every(s, "failed"))
        \/ pending' = pending /\ ReadBack(pending[s]) \subseteq consented'
    BY <1>6 DEF AnswerAny, Answer, Stay, flow
  <2> QED
    BY <2>1, <1>g, <1>h, <1>e DEF Doing
<1>7. CASE Lapse(s) \/ RunEffect(s)
  <2>1. at' = at /\ pending' = pending
    BY <1>7 DEF Lapse, RunEffect
  <2> QED
    BY <2>1, <1>0, <1>c
<1>8. CASE Place(s)
  <2>1. at[s] \in Doing /\ (HandOver(s) \/ pending' = pending)
    BY <1>8 DEF Place, Doing
  <2> QED
    BY <2>1, <1>d, <1>h
<1>9. CASE EffectReturns(s)
  <2>1. at[s] \in Doing /\ (Terminal(s, Every(s, "failed")) \/ pending' = pending)
    BY <1>9 DEF EffectReturns, Doing, Stay, flow
  <2> QED
    BY <2>1, <1>d, <1>e
<1>10. CASE Finish(s)
  <2>1. at[s] \in Doing
    BY <1>10 DEF Finish, Doing
  <2>2. ASSUME NEW outcome, FinishCancel(s, outcome)
        PROVE  at'[s] \in Doing => ReadBack(pending'[s]) \subseteq consented'
    <3>1. CASE pending' = [pending EXCEPT ![s].outcomes = With(s, outcome)]
      <4>1. pending[s] \in PendingRecords
        BY <1>10 DEF Finish, IInv, HasPending
      <4>2. pending'[s] = [pending[s] EXCEPT !.outcomes = With(s, outcome)]
        BY <1>0, <3>1
      <4>3. /\ pending'[s].req = pending[s].req
            /\ pending'[s].family = pending[s].family
            /\ pending'[s].targets = pending[s].targets
            /\ pending'[s].amount = pending[s].amount
        BY <4>1, <4>2 DEF PendingRecords
      <4>4. ReadBack(pending'[s]) = ReadBack(pending[s])
        BY <4>3 DEF ReadBack, Row
      <4> QED
        BY <2>1, <4>4, <1>0, <1>c
    <3> QED
      BY <2>2, <3>1, <1>e DEF FinishCancel
  <2> QED
    BY <1>10, <2>2, <1>e DEF Finish
<1>11. CASE TakeOver(s) \/ TakeOverTimesOut(s) \/ AbandonEffect(s) \/ RecoveryFails(s)
  <2>1. HandOver(s) \/ Go(s, "recover") \/ Go(s, "takeover")
    BY <1>11 DEF TakeOver, TakeOverTimesOut, AbandonEffect, RecoveryFails, Stay
  <2> QED
    BY <2>1, <1>g, <1>h DEF Doing
<1>12. CASE ReconcileEffect(s)
  BY <1>12, <1>e DEF ReconcileEffect
<1>13. CASE FailNode(s)
  <2>1. Drop(s) \/ End(s, Every(s, "failed")) \/ Go(s, "recover")
    BY <1>13 DEF FailNode, Stay
  <2> QED
    BY <2>1, <1>g, <1>h, <1>e DEF Doing
<1> QED
  BY <1>1, <1>2, <1>3, <1>4, <1>5, <1>6, <1>7, <1>8, <1>9, <1>10, <1>11, <1>12, <1>13
  DEF SessionStep, Engine

-----------------------------------------------------------------------------
(* The invariant.                                                           *)

LEMMA NextIInv == IInv /\ [Next]_vars => IInv'
<1> SUFFICES ASSUME IInv, [Next]_vars PROVE IInv'
  OBVIOUS
<1>1. ASSUME NEW s \in Sessions, SessionStep(s) PROVE IInv'
  <2>1. LedgerInv' /\ receipts' \subseteq consented
    BY <1>1, StepLedger
  <2>2. FlowTypeOK' /\ Moves(s)
    BY <1>1, StepFlow
  <2>3. at' \in [Sessions -> Nodes] /\ HasPending'
    BY <2>2, MovesKeep DEF IInv, RestTypeOK
  <2>4. /\ overdue' = overdue
        /\ minted' \in 0 .. MaxRequests
        /\ asked' \in [Requests -> SUBSET Orders]
        /\ faults' \in 0 .. MaxFaults
    BY <1>1, StepCounts
  <2>5. consented \subseteq consented' /\ \A r \in consented' : ProperRow(r)
    BY <1>1, StepConsented
  <2>6. /\ thread' \in [Sessions -> Threads \cup {NoThread}]
        /\ \A t \in Sessions : thread'[t].state = "running" => thread'[t].row \in consented
    BY <1>1, StepThread
  <2>7. \A t \in Sessions : at'[t] \in Doing => ReadBack(pending'[t]) \subseteq consented'
    BY <1>1, StepDoing
  <2>8. RestTypeOK'
    BY <2>3, <2>4, <2>6 DEF IInv, RestTypeOK
  <2>9. ConsentOK'
    <3>1. (\A r \in consented : ProperRow(r))'
      BY <2>5 DEF ProperRow, Rows
    <3>2. (\A t \in Sessions : at[t] \in Doing => ReadBack(pending[t]) \subseteq consented)'
      BY <2>7 DEF ReadBack, Row, Receipt
    <3> QED
      BY <2>1, <2>5, <2>6, <3>1, <3>2 DEF ConsentOK
  <2> QED
    BY <2>1, <2>2, <2>3, <2>8, <2>9 DEF IInv
<1>2. CASE Time
  <2>1. /\ overdue' \subseteq Delivered
        /\ UNCHANGED <<ledger, at, flow, thread, minted, history, faults>>
    BY <1>2 DEF Time, WindowCloses, IInv, RestTypeOK
  <2>2. LedgerInv'
    BY <2>1, LedgerUnchanged DEF IInv
  <2>3. FlowTypeOK'
    BY <2>1, FlowUnchanged DEF IInv
  <2>4. RestTypeOK' /\ HasPending'
    BY <2>1 DEF IInv, RestTypeOK, HasPending, flow, history
  <2>5. ConsentOK'
    BY <2>1 DEF IInv, ConsentOK, flow, history, ledger, ReadBack, Row, Receipt, ProperRow
  <2> QED
    BY <2>2, <2>3, <2>4, <2>5 DEF IInv
<1>3. CASE UNCHANGED vars
  <2>1. UNCHANGED <<ledger, overdue, at, flow, thread, minted, history, faults>>
    BY <1>3 DEF vars, store, ledger, flow, history
  <2>2. LedgerInv'
    BY <2>1, LedgerUnchanged DEF IInv
  <2>3. FlowTypeOK'
    BY <2>1, FlowUnchanged DEF IInv
  <2>4. RestTypeOK' /\ HasPending'
    BY <2>1 DEF IInv, RestTypeOK, HasPending, flow, history
  <2>5. ConsentOK'
    BY <2>1 DEF IInv, ConsentOK, flow, history, ledger, ReadBack, Row, Receipt, ProperRow
  <2> QED
    BY <2>2, <2>3, <2>4, <2>5 DEF IInv
<1> QED
  BY <1>1, <1>2, <1>3 DEF Next

LEMMA InvariantIInv == Spec => []IInv
BY InitIInv, NextIInv, PTL DEF Spec

(* The states of the flows and of the ledgers keep their types, through     *)
(* every steering of a remedy into another and every recovery.              *)
THEOREM TypeCorrect == Spec => []TypeOK
BY InvariantIInv, IInvTypes, PTL

(* Whatever number of sessions race over an order, its refunds and promises *)
(* stay within what was captured and a voided order has none: the checks    *)
(* under the store's lock suffice, the guardrails' reads may be stale.      *)
THEOREM MoneyIsBounded == Spec => []MoneyBounded
<1>1. IInv => MoneyBounded
  BY DEF IInv, LedgerInv
<1> QED
  BY <1>1, InvariantIInv, PTL

(* No order is returned twice, voided twice, or voided and anything else.   *)
THEOREM RemediesAreExclusive == Spec => []RemediesExclusive
<1>1. IInv => RemediesExclusive
  BY DEF IInv, LedgerInv
<1> QED
  BY <1>1, InvariantIInv, PTL

(* The ledgers stay coherent, whatever number of sessions race.             *)
THEOREM LedgersAlwaysCoherent == Spec => []LedgersCoherent
<1>1. IInv => LedgersCoherent
  BY DEF IInv, LedgerInv, LedgersCoherent
<1> QED
  BY <1>1, InvariantIInv, PTL

(* Every effect, recorded or running, is one a caller said yes to after a   *)
(* readback of exactly it: through steering, detours, lapses, cancelled     *)
(* turns and threads that outlive them.                                     *)
THEOREM EffectsAreConsented == Spec => []ConsentNamed
<1>1. IInv => ConsentNamed
  BY DEF IInv, ConsentOK, ConsentNamed
<1> QED
  BY <1>1, InvariantIInv, PTL

-----------------------------------------------------------------------------
(* Sums.  MapThenSumSet is a recursive function on the subsets of a set; a  *)
(* proof by induction over it takes the set of the sizes for which the      *)
(* claim holds, where the library's induction would take an operator.       *)

(* The element a sum takes first.                                            *)
Pick(s) == CHOOSE x \in s : TRUE
(* f adds up the amounts of every subset of S.                              *)
Sums(f, S) ==
    f = [s \in SUBSET S |-> IF s = {} THEN 0 ELSE Pick(s).amount + f[s \ {Pick(s)}]]
(* The sum of the amounts, as PaidOnce has it.                              *)
Total(S) == MapThenSumSet(LAMBDA r : r.amount, S)

LEMMA TotalDef ==
    ASSUME NEW S, \E f : Sums(f, S)
    PROVE  \E f : Sums(f, S) /\ Total(S) = f[S]
<1> DEFINE f == CHOOSE f : Sums(f, S)
<1>1. Sums(f, S)
  OBVIOUS
<1>2. Total(S) = f[S]
  BY DEF Total, MapThenSumSet, MapThenFoldSet, Sums, Pick
<1> QED
  BY <1>1, <1>2

LEMMA NatInductionBySet ==
    ASSUME NEW Good \in SUBSET Nat, 0 \in Good, \A n \in Good : n + 1 \in Good
    PROVE  Good = Nat
<1> SUFFICES ASSUME Nat \ Good # {} PROVE FALSE
  OBVIOUS
<1> DEFINE R == OpToRel(<, Nat)
<1>1. IsWellFoundedOn(R, Nat)
  BY NatLessThanWellFounded
<1> HIDE DEF R
<1>2. PICK n \in Nat \ Good : \A m \in Nat \ Good : ~(<<m, n>> \in R)
  BY <1>1, WFMin
<1>3. n \in Nat /\ n # 0 /\ n \notin Good
  OBVIOUS
<1>4. n - 1 \in Nat /\ n - 1 < n /\ (n - 1) + 1 = n
  BY <1>3
<1>5. <<n - 1, n>> \in R
  BY <1>3, <1>4 DEF R, OpToRel
<1>6. n - 1 \in Good
  BY <1>2, <1>4, <1>5
<1> QED
  BY <1>3, <1>4, <1>6

LEMMA PickIn == ASSUME NEW s, s # {} PROVE Pick(s) \in s
BY DEF Pick

LEMMA SizeOf ==
    ASSUME NEW s, IsFiniteSet(s)
    PROVE  /\ Cardinality(s) \in Nat
           /\ s = {} <=> Cardinality(s) = 0
           /\ \A x \in s : IsFiniteSet(s \ {x}) /\ Cardinality(s \ {x}) = Cardinality(s) - 1
BY FS_CardinalityType, FS_EmptySet, FS_RemoveElement

(* A way to add up the amounts of the subsets of a finite set exists.       *)
LEMMA SumsExist ==
    ASSUME NEW S, IsFiniteSet(S)
    PROVE  \E f : Sums(f, S)
<1> DEFINE Small(n) == {s \in SUBSET S : Cardinality(s) <= n}
           Step(f, s) == IF s = {} THEN 0 ELSE Pick(s).amount + f[s \ {Pick(s)}]
           Upto(f, n) == f = [s \in Small(n) |-> Step(f, s)]
           Good == {n \in Nat : \E f : Upto(f, n)}
<1>0. ASSUME NEW s \in SUBSET S
      PROVE  /\ Cardinality(s) \in Nat
             /\ s = {} <=> Cardinality(s) = 0
             /\ s # {} => /\ s \ {Pick(s)} \in SUBSET S
                          /\ Cardinality(s \ {Pick(s)}) = Cardinality(s) - 1
  BY FS_Subset, SizeOf, PickIn
<1>1. 0 \in Good
  <2> DEFINE f == [s \in Small(0) |-> 0]
  <2>1. ASSUME NEW s \in Small(0) PROVE s = {}
    <3>1. s \in SUBSET S /\ Cardinality(s) <= 0
      OBVIOUS
    <3>2. Cardinality(s) \in Nat /\ (s = {} <=> Cardinality(s) = 0)
      BY <1>0, <3>1
    <3> QED
      BY <3>1, <3>2
  <2>2. Upto(f, 0)
    BY <2>1
  <2> QED
    BY <2>2
<1>2. ASSUME NEW n \in Good PROVE n + 1 \in Good
  <2>1. PICK f : Upto(f, n)
    OBVIOUS
  <2> DEFINE g == [s \in Small(n + 1) |-> Step(f, s)]
  <2>2. ASSUME NEW s \in Small(n + 1), s # {}
        PROVE  g[s \ {Pick(s)}] = f[s \ {Pick(s)}]
    <3>1. s \ {Pick(s)} \in Small(n) /\ s \ {Pick(s)} \in Small(n + 1)
      BY <1>0, <2>2
    <3>2. f[s \ {Pick(s)}] = Step(f, s \ {Pick(s)})
      BY <2>1, <3>1
    <3>3. g[s \ {Pick(s)}] = Step(f, s \ {Pick(s)})
      BY <3>1
    <3> QED
      BY <3>2, <3>3
  <2>3. Upto(g, n + 1)
    BY <2>2
  <2>4. n + 1 \in Nat
    OBVIOUS
  <2> HIDE DEF Upto, g
  <2> QED
    BY <2>3, <2>4
<1>3. Good = Nat
  <2> HIDE DEF Good
  <2>1. Good \in SUBSET Nat
    BY DEF Good
  <2> QED
    BY <1>1, <1>2, <2>1, NatInductionBySet
<1>4. Cardinality(S) \in Nat /\ Small(Cardinality(S)) = SUBSET S
  <2>1. ASSUME NEW s \in SUBSET S PROVE Cardinality(s) <= Cardinality(S)
    BY FS_Subset
  <2> QED
    BY <2>1, FS_CardinalityType
<1>5. PICK f : Upto(f, Cardinality(S))
  BY <1>3, <1>4
<1> QED
  BY <1>4, <1>5 DEF Sums

(* What is added up depends on the subset alone and is a natural number,    *)
(* whatever element is added first.                                         *)
LEMMA SumsAgree ==
    ASSUME NEW S, NEW T, NEW f, NEW g, Sums(f, S), Sums(g, T), S \subseteq T,
           IsFiniteSet(S), \A r \in S : r.amount \in Nat
    PROVE  \A s \in SUBSET S : f[s] = g[s] /\ f[s] \in Nat
<1> DEFINE Sized(n) == {s \in SUBSET S : Cardinality(s) = n}
           Good == {n \in Nat : \A s \in Sized(n) : f[s] = g[s] /\ f[s] \in Nat}
<1>0. ASSUME NEW s \in SUBSET S
      PROVE  IsFiniteSet(s) /\ s \in SUBSET T
  BY FS_Subset
<1>1. 0 \in Good
  <2>1. ASSUME NEW s \in Sized(0) PROVE f[s] = g[s] /\ f[s] \in Nat
    <3>1. s = {}
      BY <1>0, SizeOf
    <3> QED
      BY <1>0, <3>1 DEF Sums
  <2> QED
    BY <2>1
<1>2. ASSUME NEW n \in Good PROVE n + 1 \in Good
  <2>1. ASSUME NEW s \in Sized(n + 1) PROVE f[s] = g[s] /\ f[s] \in Nat
    <3> DEFINE x == Pick(s)
    <3>1. s \in SUBSET S /\ s \in SUBSET T /\ IsFiniteSet(s) /\ Cardinality(s) = n + 1 /\ n \in Nat
      BY <1>0
    <3>2. s # {} /\ x \in s
      BY <3>1, SizeOf, PickIn
    <3>3. s \ {x} \in Sized(n)
      <4>1. Cardinality(s \ {x}) = (n + 1) - 1
        BY <3>1, <3>2, SizeOf
      <4>2. (n + 1) - 1 = n
        BY <3>1
      <4> QED
        BY <3>1, <4>1, <4>2
    <3>4. f[s] = x.amount + f[s \ {x}] /\ g[s] = x.amount + g[s \ {x}]
      BY <3>1, <3>2 DEF Sums
    <3>5. f[s \ {x}] = g[s \ {x}] /\ f[s \ {x}] \in Nat
      BY <3>3
    <3>6. x.amount \in Nat
      BY <3>1, <3>2
    <3> HIDE DEF x
    <3> QED
      BY <3>4, <3>5, <3>6
  <2>2. n + 1 \in Nat
    OBVIOUS
  <2> HIDE DEF Sized
  <2> QED
    BY <2>1, <2>2
<1>3. Good = Nat
  <2> HIDE DEF Good
  <2>1. Good \in SUBSET Nat
    BY DEF Good
  <2> QED
    BY <1>1, <1>2, <2>1, NatInductionBySet
<1>4. ASSUME NEW s \in SUBSET S
      PROVE  s \in Sized(Cardinality(s)) /\ Cardinality(s) \in Nat
  BY <1>0, SizeOf
<1> QED
  BY <1>3, <1>4

LEMMA SumsAnyFirst ==
    ASSUME NEW S, NEW f, Sums(f, S), IsFiniteSet(S), \A r \in S : r.amount \in Nat
    PROVE  \A y \in S : f[S] = y.amount + f[S \ {y}]
<1> DEFINE Sized(n) == {s \in SUBSET S : Cardinality(s) = n}
           Fine(s) == \A y \in s : f[s] = y.amount + f[s \ {y}]
           Good == {n \in Nat : \A s \in Sized(n) : Fine(s)}
<1>0. ASSUME NEW s \in SUBSET S
      PROVE  IsFiniteSet(s)
  BY FS_Subset
<1>n. \A s \in SUBSET S : f[s] \in Nat
  BY SumsAgree
<1>1. 0 \in Good
  <2>1. ASSUME NEW s \in Sized(0) PROVE Fine(s)
    <3>1. s = {}
      BY <1>0, SizeOf
    <3> QED
      BY <1>0, <3>1 DEF Sums
  <2> QED
    BY <2>1
<1>2. ASSUME NEW n \in Good PROVE n + 1 \in Good
  <2>1. ASSUME NEW s \in Sized(n + 1) PROVE Fine(s)
    <3>x. PICK x : x = Pick(s)
      OBVIOUS
    <3>1. s \in SUBSET S /\ IsFiniteSet(s) /\ Cardinality(s) = n + 1 /\ n \in Nat
      BY <1>0
    <3>2. s # {} /\ x \in s
      BY <3>1, <3>x, SizeOf, PickIn
    <3>3. ASSUME NEW y \in s
          PROVE  s \ {y} \in Sized(n)
      <4>1. Cardinality(s \ {y}) = (n + 1) - 1
        BY <3>1, SizeOf
      <4>2. (n + 1) - 1 = n
        BY <3>1
      <4> QED
        BY <3>1, <4>1, <4>2
    <3>4. \A y \in s : Fine(s \ {y}) /\ y.amount \in Nat
      BY <3>1, <3>3
    <3>5. f[s] = x.amount + f[s \ {x}]
      BY <3>1, <3>2, <3>x DEF Sums
    <3>7. ASSUME NEW y \in s, y # x
          PROVE  f[s] = y.amount + f[s \ {y}]
      <4>1. f[s \ {x}] = y.amount + f[(s \ {x}) \ {y}]
        BY <3>2, <3>4, <3>7
      <4>2. f[s \ {y}] = x.amount + f[(s \ {y}) \ {x}]
        BY <3>2, <3>4, <3>7
      <4>3. (s \ {x}) \ {y} = (s \ {y}) \ {x}
        OBVIOUS
      <4>4. PICK rest : rest = f[(s \ {y}) \ {x}]
        OBVIOUS
      <4>5. rest \in Nat
        BY <1>n, <3>1, <4>4
      <4>6. x.amount \in Nat /\ y.amount \in Nat
        BY <3>2, <3>4
      <4>7. f[s] = x.amount + (y.amount + rest) /\ f[s \ {y}] = x.amount + rest
        BY <3>5, <4>1, <4>2, <4>3, <4>4
      <4> QED
        BY <4>5, <4>6, <4>7
    <3> QED
      BY <3>5, <3>7
  <2>2. n + 1 \in Nat
    OBVIOUS
  <2> HIDE DEF Sized, Fine
  <2> QED
    BY <2>1, <2>2
<1>3. Good = Nat
  <2> HIDE DEF Good
  <2>1. Good \in SUBSET Nat
    BY DEF Good
  <2> QED
    BY <1>1, <1>2, <2>1, NatInductionBySet
<1>4. S \in Sized(Cardinality(S)) /\ Cardinality(S) \in Nat
  BY SizeOf
<1> QED
  BY <1>3, <1>4

(* The total of a set with one more receipt.                                *)
LEMMA TotalAdds ==
    ASSUME NEW S, IsFiniteSet(S), \A r \in S : r.amount \in Nat,
           NEW row, row.amount \in Nat, row \notin S
    PROVE  Total(S \cup {row}) = Total(S) + row.amount
<1> DEFINE T == S \cup {row}
<1>1. IsFiniteSet(T) /\ (\A r \in T : r.amount \in Nat) /\ T \ {row} = S /\ row \in T
  BY FS_AddElement
<1> HIDE DEF T
<1>2. PICK f : Sums(f, S) /\ Total(S) = f[S]
  BY SumsExist, TotalDef
<1>3. PICK g : Sums(g, T) /\ Total(T) = g[T]
  BY <1>1, SumsExist, TotalDef
<1>4. f[S] = g[S] /\ f[S] \in Nat
  BY <1>1, <1>2, <1>3, SumsAgree
<1>5. g[T] = row.amount + g[T \ {row}]
  BY <1>1, <1>3, SumsAnyFirst
<1>6. Total(T) = row.amount + Total(S) /\ Total(S) \in Nat
  BY <1>1, <1>2, <1>3, <1>4, <1>5
<1> QED
  BY <1>6 DEF T

LEMMA TotalOfNone == Total({}) = 0
<1>1. IsFiniteSet({})
  BY FS_EmptySet
<1>2. PICK f : Sums(f, {}) /\ Total({}) = f[{}]
  BY <1>1, SumsExist, TotalDef
<1> QED
  BY <1>2 DEF Sums

-----------------------------------------------------------------------------
(* The books: what was paid and what was promised is what the receipts say. *)

Entries(family, o) == {r \in receipts : r.family = family /\ r.order = o}

BooksKept ==
    /\ IsFiniteSet(receipts)
    /\ \A o \in Orders :
          /\ paid[o] = Total(Entries("refund", o))
          /\ due[o] = Total(Entries("return", o))

LEMMA BooksTold == BooksKept => PaidOnce
BY DEF BooksKept, PaidOnce, Total, Entries

LEMMA RecordKeepsBooks ==
    ASSUME LedgerTypeOK, BooksKept, NEW row \in Rows, row \notin receipts, Record(row)
    PROVE  BooksKept'
<1>1. receipts' = receipts \cup {row} /\ IsFiniteSet(receipts')
  BY FS_AddElement DEF Record, BooksKept
<1>2. row.order \in Orders /\ row.amount \in Nat /\ row.family \in {"refund", "return", "cancel"}
  BY DEF Rows
<1>3. ASSUME NEW family \in {"refund", "return"}, NEW o \in Orders
      PROVE  (Total(Entries(family, o)))' =
                 IF row.family = family /\ row.order = o THEN Total(Entries(family, o)) + row.amount
                                                        ELSE Total(Entries(family, o))
  <2>1. PICK old : old = Entries(family, o)
    OBVIOUS
  <2>2. PICK new : new = Entries(family, o)'
    OBVIOUS
  <2>3. (Total(Entries(family, o)))' = Total(new)
    BY <2>2 DEF Total, MapThenSumSet, MapThenFoldSet
  <2>4. /\ IsFiniteSet(old)
        /\ row \notin old
        /\ \A r \in old : r.amount \in Nat
    BY <2>1, FS_Subset DEF Entries, BooksKept, LedgerTypeOK, Rows
  <2>5. new = IF row.family = family /\ row.order = o THEN old \cup {row} ELSE old
    BY <1>1, <2>1, <2>2 DEF Entries
  <2> QED
    BY <1>2, <2>1, <2>3, <2>4, <2>5, TotalAdds
<1>4. ASSUME NEW o \in Orders
      PROVE  /\ paid'[o] = IF row.family = "refund" /\ row.order = o
                             THEN paid[o] + row.amount ELSE paid[o]
             /\ due'[o] = IF row.family = "return" /\ row.order = o
                            THEN due[o] + row.amount ELSE due[o]
  BY <1>2 DEF Record, LedgerTypeOK
<1>5. ASSUME NEW o \in Orders
      PROVE  paid'[o] = (Total(Entries("refund", o)))' /\ due'[o] = (Total(Entries("return", o)))'
  BY <1>3, <1>4 DEF BooksKept
<1> QED
  BY <1>1, <1>5 DEF BooksKept

(* A step changes the ledgers only by recording what its thread was given.  *)
LEMMA StepRecords ==
    ASSUME IInv, NEW s \in Sessions, SessionStep(s)
    PROVE  \/ UNCHANGED ledger
           \/ /\ RunEffect(s)
              /\ thread[s].state = "running"
              /\ thread[s].row \in Rows
              /\ Recorded(thread[s].row) = {}
              /\ Record(thread[s].row)
<1>1. CASE RunEffect(s)
  <2>1. thread[s].row \in Rows
    BY <1>1 DEF RunEffect, IInv, ConsentOK, ProperRow
  <2> QED
    BY <1>1, <2>1 DEF RunEffect, Commit
<1>2. UNCHANGED ledger \/ RunEffect(s)
  BY LedgerSteps
<1> QED
  BY <1>1, <1>2

LEMMA NextBooks == IInv /\ BooksKept /\ [Next]_vars => BooksKept'
<1> SUFFICES ASSUME IInv, BooksKept, [Next]_vars PROVE BooksKept'
  OBVIOUS
<1>1. CASE UNCHANGED ledger
  <2>1. receipts' = receipts /\ paid' = paid /\ due' = due
    BY <1>1 DEF ledger
  <2>2. ASSUME NEW family \in {"refund", "return"}, NEW o \in Orders
        PROVE  (Total(Entries(family, o)))' = Total(Entries(family, o))
    <3>1. Entries(family, o)' = Entries(family, o)
      BY <2>1 DEF Entries
    <3> QED
      BY <3>1 DEF Total, MapThenSumSet, MapThenFoldSet
  <2> QED
    BY <2>1, <2>2 DEF BooksKept
<1>2. ASSUME NEW s \in Sessions, SessionStep(s) PROVE BooksKept'
  <2>1. CASE thread[s].row \in Rows /\ Recorded(thread[s].row) = {} /\ Record(thread[s].row)
    <3>1. PICK row \in Rows : row = thread[s].row
      BY <2>1
    <3>2. row \notin receipts
      BY <2>1, <3>1 DEF Recorded
    <3> QED
      BY <2>1, <3>1, <3>2, RecordKeepsBooks DEF IInv, LedgerInv
  <2> QED
    BY <1>1, <1>2, <2>1, StepRecords
<1>3. Time \/ UNCHANGED vars => UNCHANGED ledger
  BY DEF Time, WindowCloses, vars, store, ledger
<1> QED
  BY <1>1, <1>2, <1>3 DEF Next

LEMMA InitBooks == Init => BooksKept
<1> SUFFICES ASSUME Init PROVE BooksKept
  OBVIOUS
<1>1. receipts = {} /\ paid = [o \in Orders |-> 0] /\ due = [o \in Orders |-> 0]
  BY DEF Init, StoreInit
<1>2. ASSUME NEW family, NEW o PROVE Entries(family, o) = {}
  BY <1>1 DEF Entries
<1> QED
  BY <1>1, <1>2, FS_EmptySet, TotalOfNone DEF BooksKept

LEMMA InvariantBooks == Spec => []BooksKept
BY InvariantIInv, InitBooks, NextBooks, PTL DEF Spec

-----------------------------------------------------------------------------
(* What callers are told.                                                   *)

RecordedFor(r, o) == \E q \in receipts : q.req = r /\ q.order = o

(* The parts of OutcomesTrue for one request.                               *)
Truthful(r, outcomes) ==
    \A o \in Orders :
        /\ outcomes[o] = "done" => RecordedFor(r, o)
        /\ outcomes[o] \notin {"done", "nothing"} => ~RecordedFor(r, o)
        /\ outcomes[o] = "already_cancelled" => o \in cancelled
        /\ outcomes[o] = "has_refunds" => paid[o] > 0
        /\ outcomes[o] = "not_cancellable" => o \in Shipped

Heard(outcomes) == {o \in Orders : outcomes[o] # "nothing"}

Honest ==
    \A r \in Requests : Truthful(r, told[r]) /\ Heard(told[r]) \in {{}, asked[r]}

Open(s) == at[s] \notin {"rest", "terminal"}

(* A request has one number, and nothing was said of an open one.           *)
NumbersKnown ==
    /\ \A q \in receipts : q.req <= minted
    /\ \A r \in Requests : r > minted => told[r] = NoOutcomes
    /\ \A s \in Sessions : Open(s) => pending[s].req <= minted /\ told[pending[s].req] = NoOutcomes
    /\ \A s, t \in Sessions : Open(s) /\ Open(t) /\ s # t => pending[s].req # pending[t].req

(* A batch has every order it was asked for, with an outcome or without,    *)
(* and its outcomes are true.                                               *)
BatchKnown(s) ==
    /\ asked[pending[s].req] = pending[s].targets \cup Heard(pending[s].outcomes)
    /\ pending[s].family # "cancel" \/ at[s] \in {"resolve", "guardrail"} =>
          pending[s].outcomes = NoOutcomes
    /\ at[s] \in {"stepup", "confirm", "asked", "aside"} =>
          \A o \in Orders : pending[s].outcomes[o] # "done"
    /\ at[s] = "refused" => pending[s].family = "cancel"
    /\ Truthful(pending[s].req, pending[s].outcomes)

(* The target in hand has no outcome yet.                                   *)
CurrentKnown(s) ==
    /\ at[s] \in {"effect", "finish", "refused", "takeover"} => current[s] \in Remaining(pending[s])
    /\ at[s] = "recover" => current[s] \in Remaining(pending[s]) \cup {NoOrder}
    /\ at[s] \notin {"effect", "finish", "refused", "takeover", "recover"} => current[s] = NoOrder

(* A receipt of an open request is known to it, or is of the target in hand. *)
ReceiptsKnown(s) ==
    /\ \A q \in receipts : q.req = pending[s].req =>
          \/ pending[s].outcomes[q.order] = "done"
          \/ /\ at[s] \in {"effect", "finish", "takeover", "recover"}
             /\ q = Row(pending[s], current[s])
    /\ at[s] = "finish" => Row(pending[s], current[s]) \in receipts

(* A thread works on the target in hand, or on a request of which the       *)
(* caller will hear nothing.                                                *)
ThreadKnown(s) ==
    /\ at[s] \in {"effect", "takeover"} =>
          /\ thread[s] # NoThread => thread[s].row = Row(pending[s], current[s])
          /\ thread[s].state = "done" => thread[s].row \in receipts
          /\ thread[s].state = "refused" => thread[s].row \notin receipts
    /\ at[s] = "terminal" /\ thread[s] # NoThread =>
          /\ thread[s].row.req <= minted
          /\ told[thread[s].row.req] = NoOutcomes
          /\ \A t \in Sessions : Open(t) => pending[t].req # thread[s].row.req
    /\ at[s] \notin {"effect", "takeover", "terminal"} => thread[s] = NoThread

SessionKnown(s) ==
    /\ Open(s) => BatchKnown(s) /\ ReceiptsKnown(s)
    /\ CurrentKnown(s)
    /\ ThreadKnown(s)

TInv == Honest /\ NumbersKnown /\ \A s \in Sessions : SessionKnown(s)

-----------------------------------------------------------------------------
(* What a step of a session does to what is known of it.                    *)

(* A pending record, new or in the place of another.                        *)
Mints(s, p, node) ==
    /\ p \in PendingRecords
    /\ p.outcomes = NoOutcomes
    /\ node \in {"resolve", "guardrail"}
    /\ \/ at[s] = "rest" /\ p.req = minted + 1 /\ minted' = minted + 1
       \/ at[s] \in {"resolve", "guardrail"} /\ p.req = pending[s].req /\ minted' = minted
    /\ Go(s, node)
    /\ pending' = [pending EXCEPT ![s] = p]
    /\ asked' = [asked EXCEPT ![p.req] = p.targets]
    /\ UNCHANGED <<ledger, thread, current, told>>

(* The guardrail of a batch.                                                *)
Splits(s) ==
    /\ at[s] = "guardrail"
    /\ pending[s].family = "cancel"
    /\ Go(s, "confirm")
    /\ pending' = [pending EXCEPT ![s] = Partition(pending[s])]
    /\ UNCHANGED <<ledger, thread, current, told, minted, asked>>

(* From node to node with the same record.                                  *)
Walks(s, node) ==
    /\ \/ /\ at[s] \in {"guardrail", "stepup", "confirm", "asked", "aside"}
          /\ at[s] = "guardrail" => pending[s].family # "cancel"
          /\ node \in {"stepup", "confirm", "asked", "aside"}
       \/ at[s] = "asked" /\ node = "place"
       \/ at[s] \in {"place", "finish", "refused"} /\ node = "recover"
       \/ at[s] = "effect" /\ node = "takeover"
    /\ Go(s, node)
    /\ UNCHANGED <<ledger, pending, thread, current, told, minted, asked>>

(* The call for a target is handed to a thread ...                          *)
Starts(s, o) ==
    /\ at[s] = "place"
    /\ o \in Remaining(pending[s])
    /\ Go(s, "effect")
    /\ current' = [current EXCEPT ![s] = o]
    /\ thread' = [thread EXCEPT ![s] = [state |-> "running", row |-> Row(pending[s], o)]]
    /\ UNCHANGED <<ledger, pending, told, minted, asked>>

(* ... which makes it ...                                                   *)
Runs(s, how) ==
    /\ thread[s].state = "running"
    /\ how \in {"done", "refused", "raised"}
    /\ thread' = [thread EXCEPT ![s].state = how]
    /\ how = "done" => thread[s].row \in receipts'
    /\ how = "refused" => thread[s].row \notin receipts'
    /\ \/ UNCHANGED ledger
       \/ thread[s].row \in Rows /\ Recorded(thread[s].row) = {} /\ Record(thread[s].row)
    /\ UNCHANGED <<at, pending, current, told, minted, asked>>

(* ... and answers, or is given up.                                         *)
Returns(s, node) ==
    /\ \/ at[s] = "effect" /\ thread[s].state = "done" /\ node = "finish"
       \/ /\ at[s] = "effect" /\ thread[s].state = "refused" /\ node = "refused"
          /\ pending[s].family = "cancel"
       \/ at[s] \in {"effect", "takeover"} /\ node = "recover"
    /\ Go(s, node)
    /\ thread' = [thread EXCEPT ![s] = NoThread]
    /\ UNCHANGED <<ledger, pending, current, told, minted, asked>>

(* The next target of a batch.                                              *)
Advances(s, outcome) ==
    /\ \/ at[s] = "finish" /\ outcome = "done"
       \/ at[s] = "refused" /\ outcome = "failed"
    /\ pending[s].family = "cancel"
    /\ Go(s, "place")
    /\ pending' = [pending EXCEPT ![s].outcomes = With(s, outcome)]
    /\ current' = [current EXCEPT ![s] = NoOrder]
    /\ UNCHANGED <<ledger, thread, told, minted, asked>>

(* The request ends, with nothing said or with the truth about all of it.   *)
Ends(s, node, outcomes) ==
    /\ Open(s)
    /\ node \in {"rest", "terminal"}
    /\ outcomes \in [Orders -> Outcomes]
    /\ \/ outcomes = told[pending[s].req]
       \/ Truthful(pending[s].req, outcomes) /\ Heard(outcomes) = asked[pending[s].req]
    /\ Go(s, node)
    /\ Clear(s, outcomes)
    /\ \/ thread' = [thread EXCEPT ![s] = NoThread]
       \/ /\ UNCHANGED thread
          /\ at[s] = "takeover" /\ node = "terminal" /\ outcomes = told[pending[s].req]
    /\ UNCHANGED <<ledger, minted, asked>>

Effect(s) ==
    \/ \E p, node : Mints(s, p, node)
    \/ Splits(s)
    \/ \E node : Walks(s, node)
    \/ \E o : Starts(s, o)
    \/ \E how : Runs(s, how)
    \/ \E node : Returns(s, node)
    \/ \E outcome : Advances(s, outcome)
    \/ \E node, outcomes : Ends(s, node, outcomes)

-----------------------------------------------------------------------------
(* What all of these leave alone.                                           *)

Same(t) ==
    /\ at'[t] = at[t] /\ pending'[t] = pending[t]
    /\ current'[t] = current[t] /\ thread'[t] = thread[t]

Shape(s) ==
    /\ \A t \in Sessions : t # s => Same(t)
    /\ minted' \in {minted, minted + 1}
    /\ Open(s)' =>
          /\ told' = told
          /\ \/ pending'[s].req = minted + 1 /\ minted' = minted + 1 /\ minted' \in Requests
             \/ Open(s) /\ pending'[s].req = pending[s].req
    /\ \A r \in Requests : told'[r] = told[r] \/ (Open(s) /\ r = pending[s].req)
    /\ \A r \in Requests :
          \/ asked'[r] = asked[r]
          \/ r = minted + 1 /\ minted' = minted + 1
          \/ Open(s) /\ r = pending[s].req
    /\ receipts \subseteq receipts'
    /\ \A q \in receipts' : q \in receipts \/ (thread[s].state = "running" /\ q = thread[s].row)
    /\ cancelled \subseteq cancelled'
    /\ \A o \in Orders : paid[o] > 0 => paid'[o] > 0

LEMMA Types ==
    ASSUME IInv
    PROVE  /\ at \in [Sessions -> Nodes]
           /\ pending \in [Sessions -> PendingRecords \cup {NoPending}]
           /\ current \in [Sessions -> Orders \cup {NoOrder}]
           /\ thread \in [Sessions -> Threads \cup {NoThread}]
           /\ told \in [Requests -> [Orders -> Outcomes]]
           /\ asked \in [Requests -> SUBSET Orders]
           /\ minted \in Nat /\ minted <= MaxRequests
           /\ receipts \subseteq Rows
           /\ paid \in [Orders -> Nat]
           /\ \A s \in Sessions : Open(s) =>
                 /\ pending[s] \in PendingRecords
                 /\ pending[s].req \in Requests
                 /\ pending[s].targets \subseteq Orders
                 /\ pending[s].outcomes \in [Orders -> Outcomes]
BY OrderAssumption
DEF IInv, RestTypeOK, FlowTypeOK, HasPending, LedgerInv, LedgerTypeOK, Open, PendingRecords

LEMMA LedgerGrows ==
    ASSUME IInv, NEW row \in Rows, Record(row)
    PROVE  /\ receipts' = receipts \cup {row}
           /\ cancelled \subseteq cancelled'
           /\ \A o \in Orders : paid[o] > 0 => paid'[o] > 0
<1>1. row.order \in Orders /\ row.amount \in Nat
  BY DEF Rows
<1>2. \A o \in Orders : paid'[o] = paid[o] \/ paid'[o] = paid[o] + row.amount
  BY <1>1, Types DEF Record
<1> QED
  BY <1>1, <1>2, Types DEF Record

LEMMA EffectShape ==
    ASSUME IInv, NEW s \in Sessions, Effect(s)
    PROVE  Shape(s)
<1>t. /\ at \in [Sessions -> Nodes]
      /\ pending \in [Sessions -> PendingRecords \cup {NoPending}]
      /\ current \in [Sessions -> Orders \cup {NoOrder}]
      /\ thread \in [Sessions -> Threads \cup {NoThread}]
      /\ told \in [Requests -> [Orders -> Outcomes]]
      /\ asked \in [Requests -> SUBSET Orders]
      /\ minted \in Nat
  BY Types
<1>1. ASSUME NEW p, NEW node, Mints(s, p, node) PROVE Shape(s)
  <2>1. pending'[s] = p
    BY <1>1, <1>t DEF Mints
  <2>2. at[s] \in {"resolve", "guardrail"} => Open(s)
    BY DEF Open
  <2>3. \A t \in Sessions : t # s => Same(t)
    BY <1>1, <1>t DEF Mints, Same, Go
  <2>4. \A r \in Requests : asked'[r] = asked[r] \/ r = p.req
    BY <1>1, <1>t DEF Mints
  <2>5. p.req \in Requests
    BY <1>1 DEF Mints, PendingRecords
  <2> QED
    BY <1>1, <1>t, <2>1, <2>2, <2>3, <2>4, <2>5 DEF Mints, Shape, ledger
<1>2. CASE Splits(s)
  <2>1. at[s] = "guardrail" /\ Open(s)
    BY <1>2 DEF Splits, Open
  <2>2. pending'[s].req = pending[s].req
    BY <1>2, <1>t, <2>1, Types DEF Splits, Partition, PendingRecords
  <2>3. \A t \in Sessions : t # s => Same(t)
    BY <1>2, <1>t DEF Splits, Same, Go
  <2> QED
    BY <1>2, <1>t, <2>1, <2>2, <2>3 DEF Splits, Shape, ledger
<1>3. ASSUME NEW node, Walks(s, node) PROVE Shape(s)
  <2>1. Open(s)
    BY <1>3 DEF Walks, Open
  <2>2. \A t \in Sessions : t # s => Same(t)
    BY <1>3, <1>t DEF Walks, Same, Go
  <2> QED
    BY <1>3, <1>t, <2>1, <2>2 DEF Walks, Shape, ledger
<1>4. ASSUME NEW o, Starts(s, o) PROVE Shape(s)
  <2>1. Open(s)
    BY <1>4 DEF Starts, Open
  <2>2. \A t \in Sessions : t # s => Same(t)
    BY <1>4, <1>t DEF Starts, Same, Go
  <2> QED
    BY <1>4, <1>t, <2>1, <2>2 DEF Starts, Shape, ledger
<1>5. ASSUME NEW how, Runs(s, how) PROVE Shape(s)
  <2>1. \A t \in Sessions : t # s => Same(t)
    BY <1>5, <1>t DEF Runs, Same
  <2>2. Open(s)' = Open(s)
    BY <1>5 DEF Runs, Open
  <2>3. /\ receipts \subseteq receipts'
        /\ \A q \in receipts' : q \in receipts \/ q = thread[s].row
        /\ cancelled \subseteq cancelled'
        /\ \A o \in Orders : paid[o] > 0 => paid'[o] > 0
    <3>1. PICK row : row = thread[s].row
      OBVIOUS
    <3>2. UNCHANGED ledger \/ (row \in Rows /\ Record(row))
      BY <1>5, <3>1 DEF Runs
    <3> QED
      BY <3>1, <3>2, LedgerGrows DEF ledger
  <2> QED
    BY <1>5, <1>t, <2>1, <2>2, <2>3 DEF Runs, Shape
<1>6. ASSUME NEW node, Returns(s, node) PROVE Shape(s)
  <2>1. Open(s)
    BY <1>6 DEF Returns, Open
  <2>2. \A t \in Sessions : t # s => Same(t)
    BY <1>6, <1>t DEF Returns, Same, Go
  <2> QED
    BY <1>6, <1>t, <2>1, <2>2 DEF Returns, Shape, ledger
<1>7. ASSUME NEW outcome, Advances(s, outcome) PROVE Shape(s)
  <2>1. Open(s)
    BY <1>7 DEF Advances, Open
  <2>2. \A t \in Sessions : t # s => Same(t)
    BY <1>7, <1>t DEF Advances, Same, Go
  <2>3. pending'[s].req = pending[s].req
    BY <1>7, <1>t, <2>1, Types DEF Advances, PendingRecords
  <2> QED
    BY <1>7, <1>t, <2>1, <2>2, <2>3 DEF Advances, Shape, ledger
<1>8. ASSUME NEW node, NEW outcomes, Ends(s, node, outcomes) PROVE Shape(s)
  <2>1. Open(s) /\ at'[s] = node /\ ~Open(s)'
    BY <1>8, <1>t DEF Ends, Open, Go
  <2>2. \A t \in Sessions : t # s => Same(t)
    BY <1>8, <1>t DEF Ends, Clear, Same, Go
  <2>3. \A r \in Requests : told'[r] = told[r] \/ r = pending[s].req
    BY <1>8, <1>t DEF Ends, Clear
  <2> QED
    BY <1>8, <1>t, <2>1, <2>2, <2>3 DEF Ends, Shape, ledger
<1> QED
  BY <1>1, <1>2, <1>3, <1>4, <1>5, <1>6, <1>7, <1>8 DEF Effect

(* Of what a thread still does nothing was said.                            *)
LEMMA RunningUnsaid ==
    ASSUME IInv, TInv, NEW s \in Sessions, thread[s].state = "running"
    PROVE  /\ thread[s].row \in Rows
           /\ thread[s].row.req \in Requests
           /\ thread[s].row.req <= minted
           /\ told[thread[s].row.req] = NoOutcomes
           /\ \A t \in Sessions : t # s /\ Open(t) => pending[t].req # thread[s].row.req
           /\ Open(s) => /\ at[s] \in {"effect", "takeover"}
                         /\ thread[s].row = Row(pending[s], current[s])
                         /\ current[s] \in Remaining(pending[s])
<1>1. thread[s] # NoThread
  BY DEF NoThread
<1>2. thread[s].row \in Rows /\ thread[s].row.req \in Requests
  BY <1>1, Types DEF Threads, Rows
<1>3. at[s] \in {"effect", "takeover", "terminal"}
  BY <1>1 DEF TInv, SessionKnown, ThreadKnown
<1>4. CASE at[s] = "terminal"
  BY <1>1, <1>2, <1>4 DEF TInv, SessionKnown, ThreadKnown, Open
<1>5. CASE at[s] \in {"effect", "takeover"}
  <2>1. Open(s)
    BY <1>5 DEF Open
  <2>2. thread[s].row = Row(pending[s], current[s]) /\ current[s] \in Remaining(pending[s])
    BY <1>1, <1>5 DEF TInv, SessionKnown, ThreadKnown, CurrentKnown
  <2>3. thread[s].row.req = pending[s].req
    BY <2>2 DEF Row, Receipt
  <2> QED
    BY <1>2, <1>5, <2>1, <2>2, <2>3 DEF TInv, NumbersKnown
<1> QED
  BY <1>3, <1>4, <1>5

LEMMA NumbersKept ==
    ASSUME IInv, TInv, NEW s \in Sessions, Shape(s)
    PROVE  NumbersKnown'
<1>t. minted \in Nat /\ minted' \in Nat /\ minted <= minted'
  BY Types DEF Shape
<1>r. \A r \in Requests : r \in Nat
  BY OrderAssumption DEF Requests
<1>n. /\ \A q \in receipts : q.req <= minted
      /\ \A r \in Requests : r > minted => told[r] = NoOutcomes
      /\ \A t \in Sessions :
            Open(t) => pending[t].req <= minted /\ told[pending[t].req] = NoOutcomes
      /\ \A t, u \in Sessions : Open(t) /\ Open(u) /\ t # u => pending[t].req # pending[u].req
  BY DEF TInv, NumbersKnown
<1>o. \A t \in Sessions : t # s => (Open(t)' <=> Open(t)) /\ pending'[t] = pending[t]
  BY DEF Shape, Same, Open
<1>p. \A t \in Sessions : Open(t) => pending[t].req \in Requests
  BY Types
<1>1. \A q \in receipts' : q.req <= minted'
  <2> SUFFICES ASSUME NEW q \in receipts' PROVE q.req <= minted'
    OBVIOUS
  <2>1. q.req <= minted /\ q.req \in Requests
    <3>1. CASE q \in receipts
      BY <3>1, <1>n, Types DEF Rows
    <3>2. CASE thread[s].state = "running" /\ q = thread[s].row
      BY <3>2, RunningUnsaid
    <3> QED
      BY <3>1, <3>2 DEF Shape
  <2> QED
    BY <2>1, <1>t, <1>r
<1>2. ASSUME NEW r \in Requests, r > minted' PROVE told'[r] = NoOutcomes
  <2>1. r > minted
    BY <1>2, <1>t, <1>r
  <2>2. ~(Open(s) /\ r = pending[s].req)
    BY <2>1, <1>n, <1>r, <1>t
  <2> QED
    BY <2>1, <2>2, <1>n DEF Shape
<1>3. ASSUME NEW t \in Sessions, Open(t)'
      PROVE  pending'[t].req <= minted' /\ told'[pending'[t].req] = NoOutcomes
  <2>1. CASE t = s
    <3>1. told' = told
      BY <1>3, <2>1 DEF Shape
    <3>2. CASE pending'[s].req = minted + 1 /\ minted' = minted + 1 /\ minted' \in Requests
      BY <2>1, <3>1, <3>2, <1>n, <1>t
    <3>3. CASE Open(s) /\ pending'[s].req = pending[s].req
      BY <2>1, <3>1, <3>3, <1>n, <1>t, <1>p, <1>r
    <3> QED
      BY <1>3, <2>1, <3>2, <3>3 DEF Shape
  <2>2. CASE t # s
    <3>1. Open(t) /\ pending'[t] = pending[t]
      BY <1>3, <2>2, <1>o
    <3>2. ~(Open(s) /\ pending[t].req = pending[s].req)
      BY <2>2, <3>1, <1>n
    <3> QED
      BY <3>1, <3>2, <1>n, <1>p, <1>r, <1>t DEF Shape
  <2> QED
    BY <2>1, <2>2
<1>4. ASSUME NEW t \in Sessions, t # s, Open(t)', Open(s)'
      PROVE  pending'[t].req # pending'[s].req
  <2>1. Open(t) /\ pending'[t] = pending[t]
    BY <1>4, <1>o
  <2>2. pending[t].req <= minted /\ pending[t].req \in Nat
    BY <2>1, <1>n, <1>p, <1>r
  <2> QED
    BY <1>4, <2>1, <2>2, <1>n, <1>t DEF Shape
<1>5. ASSUME NEW t \in Sessions, NEW u \in Sessions, Open(t)', Open(u)', t # u
      PROVE  pending'[t].req # pending'[u].req
  BY <1>5, <1>4, <1>o, <1>n
<1> QED
  BY <1>1, <1>2, <1>3, <1>5 DEF NumbersKnown, NoOutcomes

(* What is true of a request stays true while no receipt is added to it     *)
(* that it does not expect.                                                 *)
LEMMA TruthStays ==
    ASSUME NEW r, NEW outcomes, Truthful(r, outcomes),
           receipts \subseteq receipts',
           \A q \in receipts' : q \in receipts \/ q.req # r \/ outcomes[q.order] = "nothing",
           cancelled \subseteq cancelled',
           \A o \in Orders : paid[o] > 0 => paid'[o] > 0
    PROVE  Truthful(r, outcomes)'
BY DEF Truthful, RecordedFor

(* A step of one session leaves what is known of the others.                *)
LEMMA OthersKnown ==
    ASSUME IInv, TInv, NEW s \in Sessions, Shape(s), NEW t \in Sessions, t # s
    PROVE  SessionKnown(t)'
<1>s. /\ at'[t] = at[t] /\ pending'[t] = pending[t]
      /\ current'[t] = current[t] /\ thread'[t] = thread[t]
  BY DEF Shape, Same
<1>k. SessionKnown(t)
  BY DEF TInv
<1>o. Open(t)' <=> Open(t)
  BY <1>s DEF Open
<1>r. ASSUME NEW q \in receipts', q \notin receipts
      PROVE  /\ thread[s].state = "running" /\ q = thread[s].row
             /\ Open(t) => pending[t].req # q.req
             /\ q \in Rows
  BY <1>r, RunningUnsaid DEF Shape
<1>1. ASSUME Open(t)
      PROVE  BatchKnown(t)' /\ ReceiptsKnown(t)'
  <2>0. BatchKnown(t) /\ ReceiptsKnown(t)
    BY <1>k, <1>1 DEF SessionKnown
  <2>1. /\ pending[t].req \in Requests /\ pending[t].req \in Nat
        /\ pending[t].req <= minted /\ minted \in Nat
    BY <1>1, Types, OrderAssumption DEF TInv, NumbersKnown, Requests
  <2>2. asked'[pending[t].req] = asked[pending[t].req]
    <3>1. ~(Open(s) /\ pending[t].req = pending[s].req)
      BY <1>1 DEF TInv, NumbersKnown
    <3>2. pending[t].req # minted + 1
      BY <2>1
    <3> QED
      BY <2>1, <3>1, <3>2 DEF Shape
  <2>3. PICK r, outcomes : r = pending[t].req /\ outcomes = pending[t].outcomes
    OBVIOUS
  <2>4. Truthful(r, outcomes)'
    <3>1. \A q \in receipts' : q \in receipts \/ q.req # r
      BY <1>1, <1>r, <2>3
    <3> QED
      BY <2>0, <2>3, <3>1, TruthStays DEF BatchKnown, Shape
  <2>5. BatchKnown(t)'
    <3>1. Truthful(pending[t].req, pending[t].outcomes)'
      BY <1>s, <2>3, <2>4 DEF Truthful, RecordedFor
    <3> QED
      BY <1>s, <2>0, <2>2, <3>1 DEF BatchKnown, Heard
  <2>6. ReceiptsKnown(t)'
    <3>1. receipts \subseteq receipts'
      BY DEF Shape
    <3> QED
      BY <1>s, <1>1, <1>r, <2>0, <3>1 DEF ReceiptsKnown, Row, Receipt
  <2> QED
    BY <2>5, <2>6
<1>2. CurrentKnown(t)'
  BY <1>s, <1>k DEF SessionKnown, CurrentKnown, Remaining
<1>3. ThreadKnown(t)'
  <2>0. ThreadKnown(t)
    BY <1>k DEF SessionKnown
  <2>1. ASSUME at[t] \in {"effect", "takeover"}
        PROVE  /\ thread[t] # NoThread => thread[t].row = Row(pending[t], current[t])
               /\ thread[t].state = "done" => thread[t].row \in receipts'
               /\ thread[t].state = "refused" => thread[t].row \notin receipts'
    <3>1. Open(t)
      BY <2>1 DEF Open
    <3>2. thread[t].state = "refused" => thread[t] # NoThread
      BY DEF NoThread
    <3>3. thread[t] # NoThread => thread[t].row.req = pending[t].req
      BY <2>0, <2>1 DEF ThreadKnown, Row, Receipt
    <3> QED
      BY <2>0, <2>1, <1>r, <3>1, <3>2, <3>3 DEF ThreadKnown, Shape
  <2>2. ASSUME at[t] = "terminal", thread[t] # NoThread
        PROVE  /\ thread[t].row.req <= minted'
               /\ told'[thread[t].row.req] = NoOutcomes
               /\ \A u \in Sessions : Open(u)' => pending'[u].req # thread[t].row.req
    <3>0. /\ thread[t].row.req <= minted
          /\ told[thread[t].row.req] = NoOutcomes
          /\ \A u \in Sessions : Open(u) => pending[u].req # thread[t].row.req
      BY <2>0, <2>2 DEF ThreadKnown
    <3>1. thread[t].row.req \in Requests /\ thread[t].row.req \in Nat /\ minted \in Nat
      BY <2>2, Types, OrderAssumption DEF Threads, Rows, Requests
    <3>2. told'[thread[t].row.req] = NoOutcomes
      BY <3>0, <3>1 DEF Shape
    <3>3. ASSUME NEW u \in Sessions, Open(u)'
          PROVE  pending'[u].req # thread[t].row.req
      <4>1. CASE u = s
        BY <3>0, <3>1, <3>3, <4>1 DEF Shape
      <4>2. CASE u # s
        BY <3>0, <3>3, <4>2 DEF Shape, Same, Open
      <4> QED
        BY <4>1, <4>2
    <3>4. thread[t].row.req <= minted'
      BY <3>0, <3>1 DEF Shape
    <3> QED
      BY <3>2, <3>3, <3>4
  <2>3. at[t] \notin {"effect", "takeover", "terminal"} => thread[t] = NoThread
    BY <2>0 DEF ThreadKnown
  <2> QED
    BY <1>s, <2>1, <2>2, <2>3 DEF ThreadKnown, Row, Receipt, NoThread, NoOutcomes
<1> QED
  BY <1>o, <1>1, <1>2, <1>3 DEF SessionKnown

-----------------------------------------------------------------------------
(* What is known of the session that moves.                                 *)

(* Nothing is recorded for a request none of whose orders is done, outside  *)
(* the effect nodes.                                                        *)
LEMMA NothingRecorded ==
    ASSUME IInv, TInv, NEW s \in Sessions, Open(s),
           at[s] \notin {"effect", "finish", "takeover", "recover"},
           \A o \in Orders : pending[s].outcomes[o] # "done"
    PROVE  \A q \in receipts : q.req # pending[s].req
<1>1. \A q \in receipts : q.order \in Orders
  BY Types DEF Rows
<1> QED
  BY <1>1 DEF TInv, SessionKnown, ReceiptsKnown

LEMMA MintsKnown ==
    ASSUME IInv, TInv, NEW s \in Sessions, NEW p, NEW node, Mints(s, p, node)
    PROVE  SessionKnown(s)'
<1>1. at'[s] = node /\ pending'[s] = p /\ node \in {"resolve", "guardrail"}
  BY Types DEF Mints, Go
<1>2. /\ current' = current /\ thread' = thread /\ receipts' = receipts
      /\ cancelled' = cancelled /\ paid' = paid
  BY DEF Mints, ledger
<1>3. p.req \in Requests /\ p.targets \subseteq Orders /\ p.outcomes = NoOutcomes
  BY DEF Mints, PendingRecords
<1>4. asked'[p.req] = p.targets
  BY <1>3, Types DEF Mints
<1>5. current[s] = NoOrder /\ thread[s] = NoThread
  BY DEF TInv, SessionKnown, CurrentKnown, ThreadKnown, Mints
<1>6. Heard(NoOutcomes) = {}
  BY DEF Heard, NoOutcomes
<1>7. \A q \in receipts : q.req # p.req
  <2>1. CASE at[s] = "rest"
    <3>1. p.req = minted + 1 /\ minted \in Nat
      BY <2>1, Types DEF Mints
    <3>2. \A q \in receipts : q.req <= minted /\ q.req \in Nat
      BY Types, OrderAssumption DEF TInv, NumbersKnown, Rows, Requests
    <3> QED
      BY <3>1, <3>2
  <2>2. CASE at[s] \in {"resolve", "guardrail"}
    <3>1. Open(s)
      BY <2>2 DEF Open
    <3>2. p.req = pending[s].req
      BY <2>2 DEF Mints
    <3>3. \A o \in Orders : pending[s].outcomes[o] # "done"
      BY <2>2, <3>1 DEF TInv, SessionKnown, BatchKnown, NoOutcomes
    <3> QED
      BY <2>2, <3>1, <3>2, <3>3, NothingRecorded
  <2> QED
    BY <2>1, <2>2 DEF Mints
<1>8. BatchKnown(s)'
  <2>1. Truthful(p.req, NoOutcomes)'
    BY DEF Truthful, NoOutcomes
  <2> QED
    BY <1>1, <1>3, <1>4, <1>6, <2>1 DEF BatchKnown, Heard, NoOutcomes, Truthful, RecordedFor
<1>9. ReceiptsKnown(s)'
  BY <1>1, <1>2, <1>7 DEF ReceiptsKnown
<1>10. CurrentKnown(s)' /\ ThreadKnown(s)'
  BY <1>1, <1>2, <1>5 DEF CurrentKnown, ThreadKnown, NoThread
<1> QED
  BY <1>8, <1>9, <1>10 DEF SessionKnown

LEMMA PreflightTrue ==
    ASSUME NEW o
    PROVE  /\ Preflight(o) = "already_cancelled" => o \in cancelled
           /\ Preflight(o) = "has_refunds" => paid[o] > 0
           /\ Preflight(o) = "not_cancellable" => o \in Shipped
           /\ Preflight(o) \in {"nothing", "already_cancelled", "not_cancellable", "has_refunds"}
BY DEF Preflight, OrderStatus, IsCancellable

(* Partition sorts the orders of a batch without losing one.                *)
LEMMA PartitionKnown ==
    ASSUME IInv, TInv, NEW s \in Sessions, at[s] = "guardrail", pending[s].family = "cancel",
           NEW p, p = Partition(pending[s])
    PROVE  /\ p.req = pending[s].req /\ p.family = "cancel"
           /\ p.targets \subseteq Orders
           /\ asked[p.req] = p.targets \cup Heard(p.outcomes)
           /\ p.outcomes \in [Orders -> Outcomes]
           /\ \A o \in Orders : p.outcomes[o] # "done"
           /\ \A q \in receipts : q.req # p.req
           /\ Truthful(p.req, p.outcomes)
<1>0. Open(s)
  BY DEF Open
<1>1. /\ pending[s] \in PendingRecords
      /\ pending[s].targets \subseteq Orders
      /\ pending[s].outcomes = NoOutcomes
      /\ asked[pending[s].req] = pending[s].targets \cup Heard(pending[s].outcomes)
  BY <1>0, Types DEF TInv, SessionKnown, BatchKnown
<1>2. asked[pending[s].req] = pending[s].targets
  BY <1>1 DEF Heard, NoOutcomes
<1>3. /\ p.req = pending[s].req /\ p.family = "cancel"
      /\ p.targets = {o \in pending[s].targets : Preflight(o) = "nothing"}
      /\ p.outcomes =
            [o \in Orders |-> IF o \in pending[s].targets THEN Preflight(o) ELSE "nothing"]
  BY <1>1 DEF Partition, PendingRecords
<1>4. \A q \in receipts : q.req # p.req
  BY <1>0, <1>1, <1>3, NothingRecorded DEF NoOutcomes
<1>5. p.targets \cup Heard(p.outcomes) = pending[s].targets
  BY <1>1, <1>3 DEF Heard
<1>6. p.outcomes \in [Orders -> Outcomes] /\ \A o \in Orders : p.outcomes[o] # "done"
  BY <1>3, PreflightTrue DEF Outcomes
<1>7. Truthful(p.req, p.outcomes)
  BY <1>3, <1>4, PreflightTrue DEF Truthful, RecordedFor
<1> QED
  BY <1>1, <1>2, <1>3, <1>4, <1>5, <1>6, <1>7

LEMMA SplitsKnown ==
    ASSUME IInv, TInv, NEW s \in Sessions, Splits(s)
    PROVE  SessionKnown(s)'
<1>0. PICK p : p = Partition(pending[s])
  OBVIOUS
<1>1. at'[s] = "confirm" /\ pending'[s] = p
  BY <1>0, Types DEF Splits, Go
<1>2. /\ current' = current /\ thread' = thread /\ receipts' = receipts
      /\ cancelled' = cancelled /\ paid' = paid /\ asked' = asked
  BY DEF Splits, ledger
<1>3. /\ p.req = pending[s].req /\ p.family = "cancel"
      /\ asked[p.req] = p.targets \cup Heard(p.outcomes)
      /\ \A o \in Orders : p.outcomes[o] # "done"
      /\ \A q \in receipts : q.req # p.req
      /\ Truthful(p.req, p.outcomes)
  BY <1>0, PartitionKnown DEF Splits
<1>4. current[s] = NoOrder /\ thread[s] = NoThread
  BY DEF TInv, SessionKnown, CurrentKnown, ThreadKnown, Splits
<1>5. BatchKnown(s)'
  BY <1>1, <1>2, <1>3 DEF BatchKnown, Heard, Truthful, RecordedFor
<1>6. ReceiptsKnown(s)'
  BY <1>1, <1>2, <1>3 DEF ReceiptsKnown
<1>7. CurrentKnown(s)' /\ ThreadKnown(s)'
  BY <1>1, <1>2, <1>4 DEF CurrentKnown, ThreadKnown, NoThread
<1> QED
  BY <1>5, <1>6, <1>7 DEF SessionKnown

LEMMA WalksKnown ==
    ASSUME IInv, TInv, NEW s \in Sessions, NEW node, Walks(s, node)
    PROVE  SessionKnown(s)'
<1>1. at'[s] = node
  BY Types DEF Walks, Go
<1>2. /\ pending' = pending /\ current' = current /\ thread' = thread /\ receipts' = receipts
      /\ cancelled' = cancelled /\ paid' = paid /\ asked' = asked
  BY DEF Walks, ledger
<1>3. Open(s) /\ SessionKnown(s)
  BY DEF Walks, Open, TInv
<1>4. BatchKnown(s) /\ ReceiptsKnown(s) /\ CurrentKnown(s) /\ ThreadKnown(s)
  BY <1>3 DEF SessionKnown
<1>5. BatchKnown(s)'
  <2>1. Truthful(pending[s].req, pending[s].outcomes)'
    BY <1>2, <1>4 DEF BatchKnown, Truthful, RecordedFor
  <2>2. at[s] = "guardrail" => pending[s].outcomes = NoOutcomes
    BY <1>4 DEF BatchKnown
  <2>3. node \in {"stepup", "confirm", "asked", "aside"} =>
            \A o \in Orders : pending[s].outcomes[o] # "done"
    BY <1>4, <2>2 DEF Walks, BatchKnown, NoOutcomes
  <2>4. node \notin {"resolve", "guardrail", "refused"}
    BY DEF Walks
  <2> QED
    BY <1>1, <1>2, <1>4, <2>1, <2>3, <2>4 DEF BatchKnown, Heard, NoOutcomes
<1>6. ReceiptsKnown(s)'
  <2>1. node # "finish"
    BY DEF Walks
  <2>2. at[s] \in {"effect", "finish", "takeover", "recover"} => node \in {"takeover", "recover"}
    BY DEF Walks
  <2> QED
    BY <1>1, <1>2, <1>4, <2>1, <2>2 DEF ReceiptsKnown, Row, Receipt
<1>7. CurrentKnown(s)'
  <2>1. \/ at[s] \in {"finish", "refused"} /\ node = "recover"
        \/ at[s] = "effect" /\ node = "takeover"
        \/ /\ at[s] \notin {"effect", "finish", "refused", "takeover", "recover"}
           /\ node \notin {"effect", "finish", "refused", "takeover"}
    BY DEF Walks
  <2> QED
    BY <1>1, <1>2, <1>4, <2>1 DEF CurrentKnown, Remaining
<1>8. ThreadKnown(s)'
  <2>1. \/ at[s] = "effect" /\ node = "takeover"
        \/ /\ at[s] \notin {"effect", "takeover", "terminal"}
           /\ node \notin {"effect", "takeover", "terminal"}
    BY DEF Walks
  <2> QED
    BY <1>1, <1>2, <1>4, <2>1 DEF ThreadKnown, NoThread, Row, Receipt
<1> QED
  BY <1>5, <1>6, <1>7, <1>8 DEF SessionKnown

LEMMA StartsKnown ==
    ASSUME IInv, TInv, NEW s \in Sessions, NEW o, Starts(s, o)
    PROVE  SessionKnown(s)'
<1>1. /\ at'[s] = "effect" /\ current'[s] = o
      /\ thread'[s] = [state |-> "running", row |-> Row(pending[s], o)]
  BY Types DEF Starts, Go
<1>2. /\ pending' = pending /\ receipts' = receipts
      /\ cancelled' = cancelled /\ paid' = paid /\ asked' = asked
  BY DEF Starts, ledger
<1>3. Open(s) /\ SessionKnown(s) /\ at[s] = "place" /\ o \in Remaining(pending[s])
  BY DEF Starts, Open, TInv
<1>4. BatchKnown(s) /\ ReceiptsKnown(s)
  BY <1>3 DEF SessionKnown
<1>5. BatchKnown(s)'
  <2>1. Truthful(pending[s].req, pending[s].outcomes)'
    BY <1>2, <1>4 DEF BatchKnown, Truthful, RecordedFor
  <2> QED
    BY <1>1, <1>2, <1>4, <2>1 DEF BatchKnown, Heard, NoOutcomes
<1>6. ReceiptsKnown(s)'
  BY <1>1, <1>2, <1>3, <1>4 DEF ReceiptsKnown
<1>7. CurrentKnown(s)'
  BY <1>1, <1>2, <1>3 DEF CurrentKnown, Remaining
<1>8. ThreadKnown(s)'
  BY <1>1, <1>2 DEF ThreadKnown, Row, Receipt
<1> QED
  BY <1>5, <1>6, <1>7, <1>8 DEF SessionKnown

LEMMA RunsKnown ==
    ASSUME IInv, TInv, NEW s \in Sessions, NEW how, Runs(s, how), Shape(s)
    PROVE  SessionKnown(s)'
<1>0. thread[s].state = "running" /\ thread[s] # NoThread /\ thread[s] \in Threads
  BY Types DEF Runs, NoThread
<1>1. /\ thread'[s].state = how /\ thread'[s].row = thread[s].row
      /\ how \in {"done", "refused", "raised"}
      /\ thread'[s] # NoThread
  BY <1>0, Types DEF Runs, Threads, NoThread
<1>2. /\ at' = at /\ pending' = pending /\ current' = current
      /\ told' = told /\ minted' = minted /\ asked' = asked
  BY DEF Runs
<1>3. SessionKnown(s) /\ (Open(s)' <=> Open(s))
  BY <1>2 DEF TInv, Open
<1>4. \A q \in receipts' : q \in receipts \/ q = thread[s].row
  BY DEF Shape
<1>5. CurrentKnown(s)'
  BY <1>2, <1>3 DEF SessionKnown, CurrentKnown, Remaining
<1>6. CASE Open(s)
  <2>1. /\ at[s] \in {"effect", "takeover"}
        /\ thread[s].row = Row(pending[s], current[s])
        /\ current[s] \in Remaining(pending[s])
    BY <1>0, <1>6, RunningUnsaid
  <2>2. BatchKnown(s) /\ ReceiptsKnown(s)
    BY <1>3, <1>6 DEF SessionKnown
  <2>3. thread[s].row.order = current[s] /\ pending[s].outcomes[current[s]] = "nothing"
    BY <2>1 DEF Row, Receipt, Remaining
  <2>4. PICK r, outcomes : r = pending[s].req /\ outcomes = pending[s].outcomes
    OBVIOUS
  <2>5. Truthful(r, outcomes)'
    <3>1. \A q \in receipts' : q \in receipts \/ q.req # r \/ outcomes[q.order] = "nothing"
      BY <1>4, <2>3, <2>4
    <3> QED
      BY <2>2, <2>4, <3>1, TruthStays DEF BatchKnown, Shape
  <2>6. BatchKnown(s)'
    BY <1>2, <2>1, <2>2, <2>4, <2>5 DEF BatchKnown, Heard, NoOutcomes, Truthful, RecordedFor
  <2>7. ReceiptsKnown(s)'
    BY <1>2, <1>4, <2>1, <2>2 DEF ReceiptsKnown, Row, Receipt
  <2>8. ThreadKnown(s)'
    <3>1. /\ how = "done" => thread[s].row \in receipts'
          /\ how = "refused" => thread[s].row \notin receipts'
      BY DEF Runs
    <3> QED
      BY <1>1, <1>2, <2>1, <3>1 DEF ThreadKnown, Row, Receipt
  <2> QED
    BY <1>5, <2>6, <2>7, <2>8 DEF SessionKnown
<1>7. CASE ~Open(s)
  <2>1. at[s] = "terminal"
    BY <1>0, <1>3, <1>7 DEF Open, SessionKnown, ThreadKnown
  <2>2. ThreadKnown(s)'
    BY <1>0, <1>1, <1>2, <1>3, <2>1 DEF SessionKnown, ThreadKnown, Open, NoOutcomes
  <2> QED
    BY <1>3, <1>5, <1>7, <2>2 DEF SessionKnown
<1> QED
  BY <1>6, <1>7

LEMMA ReturnsKnown ==
    ASSUME IInv, TInv, NEW s \in Sessions, NEW node, Returns(s, node)
    PROVE  SessionKnown(s)'
<1>1. at'[s] = node /\ thread'[s] = NoThread
  BY Types DEF Returns, Go
<1>2. /\ pending' = pending /\ current' = current /\ receipts' = receipts
      /\ cancelled' = cancelled /\ paid' = paid /\ asked' = asked
  BY DEF Returns, ledger
<1>3. /\ Open(s) /\ SessionKnown(s)
      /\ at[s] \in {"effect", "takeover"} /\ node \in {"finish", "refused", "recover"}
  BY DEF Returns, Open, TInv
<1>4. BatchKnown(s) /\ ReceiptsKnown(s) /\ CurrentKnown(s) /\ ThreadKnown(s)
  BY <1>3 DEF SessionKnown
<1>5. BatchKnown(s)'
  <2>1. Truthful(pending[s].req, pending[s].outcomes)'
    BY <1>2, <1>4 DEF BatchKnown, Truthful, RecordedFor
  <2>2. node = "refused" => pending[s].family = "cancel"
    BY DEF Returns
  <2> QED
    BY <1>1, <1>2, <1>3, <1>4, <2>1, <2>2 DEF BatchKnown, Heard, NoOutcomes
<1>6. ReceiptsKnown(s)'
  <2>1. thread[s].state \in {"done", "refused"} => thread[s].row = Row(pending[s], current[s])
    BY <1>3, <1>4 DEF ThreadKnown, NoThread
  <2>2. node = "finish" => Row(pending[s], current[s]) \in receipts
    BY <1>4, <2>1 DEF ThreadKnown, Returns
  <2>3. node = "refused" => Row(pending[s], current[s]) \notin receipts
    BY <1>4, <2>1 DEF ThreadKnown, Returns
  <2> QED
    BY <1>1, <1>2, <1>3, <1>4, <2>2, <2>3 DEF ReceiptsKnown, Row, Receipt
<1>7. CurrentKnown(s)'
  BY <1>1, <1>2, <1>3, <1>4 DEF CurrentKnown, Remaining
<1>8. ThreadKnown(s)'
  BY <1>1, <1>3 DEF ThreadKnown, NoThread
<1> QED
  BY <1>5, <1>6, <1>7, <1>8 DEF SessionKnown

(* The outcome of the target in hand, added to those before it, is true.    *)
LEMMA WithKnown ==
    ASSUME IInv, TInv, NEW s \in Sessions, NEW outcome, NEW outcomes, outcomes = With(s, outcome),
           (at[s] = "finish" /\ outcome = "done") \/ (at[s] = "refused" /\ outcome = "failed")
    PROVE  /\ current[s] \in Orders /\ current[s] \in Remaining(pending[s])
           /\ outcomes \in [Orders -> Outcomes]
           /\ outcomes = [pending[s].outcomes EXCEPT ![current[s]] = outcome]
           /\ Heard(outcomes) = Heard(pending[s].outcomes) \cup {current[s]}
           /\ Truthful(pending[s].req, outcomes)
           /\ \A q \in receipts : q.req = pending[s].req => outcomes[q.order] = "done"
<1>0. Open(s) /\ SessionKnown(s)
  BY DEF Open, TInv
<1>1. BatchKnown(s) /\ ReceiptsKnown(s) /\ CurrentKnown(s)
  BY <1>0 DEF SessionKnown
<1>2. current[s] \in Remaining(pending[s]) /\ current[s] \in Orders
  BY <1>0, <1>1, Types DEF CurrentKnown, Remaining
<1>3. pending[s].outcomes \in [Orders -> Outcomes]
  BY <1>0, Types
<1>4. /\ outcomes = [pending[s].outcomes EXCEPT ![current[s]] = outcome]
      /\ outcomes \in [Orders -> Outcomes]
  BY <1>3 DEF With, Outcomes
<1>5. \A o \in Orders : outcomes[o] = IF o = current[s] THEN outcome ELSE pending[s].outcomes[o]
  BY <1>3, <1>4
<1>6. Heard(outcomes) = Heard(pending[s].outcomes) \cup {current[s]}
  BY <1>2, <1>5 DEF Heard
<1>7. \A q \in receipts : q.order \in Orders
  BY Types DEF Rows
<1>8. ASSUME NEW q \in receipts, q.req = pending[s].req PROVE outcomes[q.order] = "done"
  <2>1. \/ pending[s].outcomes[q.order] = "done"
        \/ at[s] = "finish" /\ q = Row(pending[s], current[s])
    BY <1>1, <1>8 DEF ReceiptsKnown
  <2>2. q = Row(pending[s], current[s]) => q.order = current[s]
    BY DEF Row, Receipt
  <2>3. pending[s].outcomes[current[s]] = "nothing"
    BY <1>2 DEF Remaining
  <2> QED
    BY <1>5, <1>7, <2>1, <2>2, <2>3
<1>9. Truthful(pending[s].req, outcomes)
  <2>1. outcome = "done" => RecordedFor(pending[s].req, current[s])
    BY <1>1 DEF ReceiptsKnown, RecordedFor, Row, Receipt
  <2>2. outcome = "failed" => ~RecordedFor(pending[s].req, current[s])
    BY <1>2, <1>5, <1>8 DEF RecordedFor
  <2>3. Truthful(pending[s].req, pending[s].outcomes)
    BY <1>1 DEF BatchKnown
  <2> QED
    BY <1>5, <2>1, <2>2, <2>3 DEF Truthful
<1> QED
  BY <1>2, <1>4, <1>6, <1>8, <1>9

LEMMA AdvancesKnown ==
    ASSUME IInv, TInv, NEW s \in Sessions, NEW outcome, Advances(s, outcome)
    PROVE  SessionKnown(s)'
<1>0. PICK outcomes : outcomes = With(s, outcome)
  OBVIOUS
<1>1. at'[s] = "place" /\ current'[s] = NoOrder
  BY Types DEF Advances, Go
<1>2. Open(s) /\ at[s] \in {"finish", "refused"} /\ SessionKnown(s) /\ pending[s] \in PendingRecords
  BY Types DEF Advances, Open, TInv
<1>3. pending'[s] = [pending[s] EXCEPT !.outcomes = outcomes]
  BY <1>0, Types DEF Advances
<1>4. /\ pending'[s].req = pending[s].req /\ pending'[s].family = pending[s].family
      /\ pending'[s].targets = pending[s].targets /\ pending'[s].outcomes = outcomes
  BY <1>2, <1>3 DEF PendingRecords
<1>5. /\ thread' = thread /\ receipts' = receipts
      /\ cancelled' = cancelled /\ paid' = paid /\ asked' = asked /\ pending[s].family = "cancel"
  BY DEF Advances, ledger
<1>6. /\ current[s] \in Remaining(pending[s])
      /\ Heard(outcomes) = Heard(pending[s].outcomes) \cup {current[s]}
      /\ Truthful(pending[s].req, outcomes)
      /\ \A q \in receipts : q.req = pending[s].req => outcomes[q.order] = "done"
  BY <1>0, WithKnown DEF Advances
<1>7. BatchKnown(s)'
  <2>1. asked[pending[s].req] = pending[s].targets \cup Heard(outcomes)
    BY <1>2, <1>6 DEF SessionKnown, BatchKnown, Remaining
  <2>2. PICK r : r = pending[s].req
    OBVIOUS
  <2>3. Truthful(r, outcomes)'
    BY <1>5, <1>6, <2>2 DEF Truthful, RecordedFor
  <2> QED
    BY <1>1, <1>4, <1>5, <2>1, <2>2, <2>3 DEF BatchKnown, Heard, Truthful, RecordedFor
<1>8. ReceiptsKnown(s)'
  BY <1>1, <1>4, <1>5, <1>6 DEF ReceiptsKnown
<1>9. CurrentKnown(s)'
  BY <1>1 DEF CurrentKnown
<1>10. ThreadKnown(s)'
  <2>1. thread[s] = NoThread
    BY <1>2 DEF SessionKnown, ThreadKnown
  <2> QED
    BY <1>1, <1>5, <2>1 DEF ThreadKnown, NoThread
<1> QED
  BY <1>7, <1>8, <1>9, <1>10 DEF SessionKnown

LEMMA EndsKnown ==
    ASSUME IInv, TInv, NEW s \in Sessions, NEW node, NEW outcomes, Ends(s, node, outcomes)
    PROVE  SessionKnown(s)'
<1>1. /\ at'[s] = node /\ current'[s] = NoOrder /\ node \in {"rest", "terminal"}
      /\ ~Open(s)' /\ Open(s)
  BY Types DEF Ends, Go, Clear, Open
<1>2. CurrentKnown(s)'
  BY <1>1 DEF CurrentKnown
<1>3. CASE thread' = [thread EXCEPT ![s] = NoThread]
  <2>1. thread'[s] = NoThread
    BY <1>3, Types
  <2>2. ThreadKnown(s)'
    BY <1>1, <2>1 DEF ThreadKnown, NoThread
  <2> QED
    BY <1>1, <1>2, <2>2 DEF SessionKnown
<1>4. CASE /\ thread' = thread /\ at[s] = "takeover" /\ node = "terminal"
           /\ outcomes = told[pending[s].req]
  <2>0. thread[s] # NoThread => thread[s].row = Row(pending[s], current[s])
    BY <1>4 DEF TInv, SessionKnown, ThreadKnown
  <2>1. thread[s] # NoThread => thread[s].row.req = pending[s].req
    BY <2>0 DEF Row, Receipt
  <2>2. told' = told /\ minted' = minted
    BY <1>4, Types DEF Ends, Clear
  <2>3. pending[s].req <= minted /\ told[pending[s].req] = NoOutcomes
    BY <1>1 DEF TInv, NumbersKnown
  <2>4. ASSUME NEW t \in Sessions, Open(t)'
        PROVE  pending'[t].req # pending[s].req
    <3>1. t # s
      BY <1>1, <2>4
    <3>2. Open(t) /\ pending'[t] = pending[t]
      BY <2>4, <3>1, Types DEF Ends, Clear, Go, Open
    <3> QED
      BY <1>1, <3>1, <3>2 DEF TInv, NumbersKnown
  <2>5. ThreadKnown(s)'
    BY <1>1, <1>4, <2>1, <2>2, <2>3, <2>4 DEF ThreadKnown, NoThread, NoOutcomes
  <2> QED
    BY <1>1, <1>2, <2>5 DEF SessionKnown
<1> QED
  BY <1>3, <1>4 DEF Ends

(* What was told stays true, and what is told is.                           *)
LEMMA HonestKept ==
    ASSUME IInv, TInv, NEW s \in Sessions, Effect(s)
    PROVE  Honest'
<1>0. Shape(s)
  BY EffectShape
<1>q. ASSUME NEW q \in receipts', q \notin receipts
      PROVE  told[q.req] = NoOutcomes /\ q.order \in Orders
  BY <1>0, <1>q, RunningUnsaid DEF Shape, Rows
<1>1. ASSUME NEW r \in Requests, told'[r] = told[r]
      PROVE  (Truthful(r, told[r]))' /\ Heard(told'[r]) \in {{}, asked'[r]}
  <2>1. PICK outcomes : outcomes = told[r]
    OBVIOUS
  <2>2. \A q \in receipts' : q \in receipts \/ q.req # r \/ outcomes[q.order] = "nothing"
    BY <1>q, <2>1 DEF NoOutcomes
  <2>3. Truthful(r, outcomes)'
    BY <1>0, <2>1, <2>2, TruthStays DEF TInv, Honest, Shape
  <2>4. (Truthful(r, told[r]))'
    BY <1>1, <2>1, <2>3 DEF Truthful, RecordedFor
  <2>5. Heard(told[r]) \in {{}, asked'[r]}
    <3>1. CASE asked'[r] = asked[r]
      BY <3>1 DEF TInv, Honest
    <3>2. CASE asked'[r] # asked[r]
      <4>1. told[r] = NoOutcomes
        BY <1>0, <3>2, Types DEF Shape, TInv, NumbersKnown
      <4> QED
        BY <4>1 DEF Heard, NoOutcomes
    <3> QED
      BY <3>1, <3>2
  <2> QED
    BY <1>1, <2>4, <2>5
<1>2. ASSUME NEW r \in Requests, told'[r] # told[r]
      PROVE  (Truthful(r, told[r]))' /\ Heard(told'[r]) \in {{}, asked'[r]}
  <2>1. \E node, outcomes : Ends(s, node, outcomes)
    <3>1. ASSUME told' = told PROVE FALSE
      BY <1>2, <3>1
    <3> QED
      BY <3>1 DEF Effect, Mints, Splits, Walks, Starts, Runs, Returns, Advances
  <2>2. PICK node, outcomes : Ends(s, node, outcomes)
    BY <2>1
  <2>3. r = pending[s].req /\ told'[r] = outcomes /\ outcomes # told[r]
    BY <1>2, <2>2, Types DEF Ends, Clear
  <2>4. Truthful(r, outcomes) /\ Heard(outcomes) = asked[r]
    BY <2>2, <2>3 DEF Ends
  <2>5. receipts' = receipts /\ cancelled' = cancelled /\ paid' = paid /\ asked' = asked
    BY <2>2 DEF Ends, ledger
  <2> QED
    BY <2>3, <2>4, <2>5 DEF Truthful, RecordedFor
<1> QED
  BY <1>1, <1>2 DEF Honest, Heard

LEMMA EffectTInv ==
    ASSUME IInv, TInv, NEW s \in Sessions, Effect(s)
    PROVE  TInv'
<1>1. Shape(s)
  BY EffectShape
<1>2. SessionKnown(s)'
  BY <1>1, MintsKnown, SplitsKnown, WalksKnown, StartsKnown, RunsKnown, ReturnsKnown, AdvancesKnown,
     EndsKnown DEF Effect
<1>3. \A t \in Sessions : SessionKnown(t)'
  BY <1>1, <1>2, OthersKnown
<1> QED
  BY <1>1, <1>3, NumbersKept, HonestKept DEF TInv

-----------------------------------------------------------------------------
(* Every action has one of these effects.                                   *)

LEMMA EndEffect ==
    ASSUME IInv, TInv, NEW s \in Sessions, Open(s), NEW outcomes \in [Orders -> Outcomes],
           NEW node \in {"rest", "terminal"}, Go(s, node), Clear(s, outcomes),
           \/ outcomes = told[pending[s].req]
           \/ Truthful(pending[s].req, outcomes) /\ Heard(outcomes) = asked[pending[s].req],
           \/ UNCHANGED thread /\ at[s] \notin {"effect", "takeover"}
           \/ thread' = [thread EXCEPT ![s] = NoThread],
           UNCHANGED <<ledger, minted, asked>>
    PROVE  Effect(s)
<1>1. at[s] \notin {"effect", "takeover"} => thread[s] = NoThread
  BY DEF TInv, SessionKnown, ThreadKnown, Open
<1>2. thread' = [thread EXCEPT ![s] = NoThread]
  BY <1>1, Types
<1>3. Ends(s, node, outcomes)
  BY <1>2 DEF Ends
<1> QED
  BY <1>3 DEF Effect

(* Nothing is said: the request is dropped or goes to a person.             *)
LEMMA UnsaidEffect ==
    ASSUME IInv, TInv, NEW s \in Sessions, Open(s), Drop(s) \/ HandOver(s),
           UNCHANGED thread /\ at[s] \notin {"effect", "takeover"},
           UNCHANGED <<ledger, minted, asked>>
    PROVE  Effect(s)
<1>1. PICK outcomes : outcomes = told[pending[s].req]
  OBVIOUS
<1>2. outcomes \in [Orders -> Outcomes]
  BY <1>1, Types
<1>3. PICK node \in {"rest", "terminal"} : Go(s, node) /\ Clear(s, outcomes)
  BY <1>1 DEF Drop, HandOver, End, Terminal, Unsaid, Clear
<1> QED
  BY <1>1, <1>2, <1>3, EndEffect

(* The same outcome for all is true of a request of which nothing is        *)
(* recorded.                                                                *)
LEMMA EveryTrue ==
    ASSUME IInv, TInv, NEW s \in Sessions, Open(s), NEW outcome \in {"declined", "failed"},
           \A q \in receipts : q.req # pending[s].req,
           NEW outcomes, outcomes = Every(s, outcome)
    PROVE  /\ outcomes \in [Orders -> Outcomes]
           /\ Truthful(pending[s].req, outcomes)
           /\ Heard(outcomes) = asked[pending[s].req]
<1>1. asked[pending[s].req] \subseteq Orders
  BY Types
<1>2. outcomes = [o \in Orders |-> IF o \in asked[pending[s].req] THEN outcome ELSE "nothing"]
  BY DEF Every
<1>3. Truthful(pending[s].req, outcomes)
  BY <1>2 DEF Truthful, RecordedFor
<1> QED
  BY <1>1, <1>2, <1>3 DEF Outcomes, Heard

LEMMA EveryEffect ==
    ASSUME IInv, TInv, NEW s \in Sessions, at[s] \in {"guardrail", "stepup", "confirm", "asked"},
           NEW outcome \in {"declined", "failed"}, End(s, Every(s, outcome)),
           at[s] = "guardrail" => pending[s].family # "cancel",
           UNCHANGED <<ledger, minted, asked, thread>>
    PROVE  Effect(s)
<1>1. Open(s)
  BY DEF Open
<1>2. BatchKnown(s)
  BY <1>1 DEF TInv, SessionKnown
<1>3. \A o \in Orders : pending[s].outcomes[o] # "done"
  BY <1>2 DEF BatchKnown, NoOutcomes
<1>4. \A q \in receipts : q.req # pending[s].req
  BY <1>1, <1>3, NothingRecorded
<1>5. PICK outcomes : outcomes = Every(s, outcome)
  OBVIOUS
<1>6. Go(s, "rest") /\ Clear(s, outcomes)
  BY <1>5 DEF End, Clear
<1>7. /\ outcomes \in [Orders -> Outcomes]
      /\ Truthful(pending[s].req, outcomes)
      /\ Heard(outcomes) = asked[pending[s].req]
  BY <1>1, <1>4, <1>5, EveryTrue
<1> QED
  BY <1>1, <1>6, <1>7, EndEffect

LEMMA AskEffect ==
    ASSUME IInv, TInv, NEW s \in Sessions,
           AskRefund(s) \/ AskReturn(s) \/ AskCancel(s) \/ AskCancelAll(s)
    PROVE  Effect(s)
<1>0. TypeOK /\ FlowTypeOK
  BY IInvTypes DEF IInv
<1>1. PICK p : /\ PendingOK(p) /\ p.req = minted + 1 /\ p.outcomes = NoOutcomes
               /\ minted < MaxRequests /\ Ask(s, p)
  BY <1>0, AskStep
<1>2. p \in PendingRecords
  BY <1>0, <1>1, MintedType, ProperPending
<1>3. PICK node : node = IF p.family = "scope" THEN "resolve" ELSE "guardrail"
  OBVIOUS
<1>4. Go(s, node)
  BY <1>1, <1>3 DEF Ask, Go
<1>5. Mints(s, p, node)
  BY <1>1, <1>2, <1>3, <1>4 DEF Ask, Mint, Mints, store, ledger
<1> QED
  BY <1>5 DEF Effect

(* The one target of a refund or a return is what was asked for.            *)
LEMMA OneAsked ==
    ASSUME IInv, TInv, NEW s \in Sessions, at[s] = "guardrail",
           pending[s].family \in {"refund", "return"}
    PROVE  /\ Target(pending[s]) \in Orders
           /\ asked[pending[s].req] = {Target(pending[s])}
<1>0. Open(s)
  BY DEF Open
<1>1. PICK o \in Orders : pending[s].targets = {o}
  BY DEF IInv, FlowTypeOK, PendingOK
<1>2. Target(pending[s]) = o
  BY <1>1 DEF Target
<1>3. asked[pending[s].req] = {o}
  BY <1>0, <1>1 DEF TInv, SessionKnown, BatchKnown, Heard, NoOutcomes
<1> QED
  BY <1>2, <1>3

(* A record that takes the place of another.                                *)
LEMMA RemintEffect ==
    ASSUME IInv, TInv, NEW s \in Sessions, at[s] \in {"resolve", "guardrail"},
           NEW family \in {"return", "cancel"}, NEW targets \in SUBSET Orders, NEW amount \in Nat,
           NEW steered \in BOOLEAN,
           Mint(s, Pending(pending[s].req, family, targets, amount, "original", steered)),
           Go(s, "guardrail"),
           asked' = [asked EXCEPT ![pending[s].req] = targets],
           UNCHANGED <<ledger, thread, minted>>
    PROVE  Effect(s)
<1>0. PICK p : p = Pending(pending[s].req, family, targets, amount, "original", steered)
  OBVIOUS
<1>1. pending[s].req \in Requests
  BY Types DEF Open
<1>2. /\ p \in PendingRecords /\ p.req = pending[s].req
      /\ p.outcomes = NoOutcomes /\ p.targets = targets
  BY <1>0, <1>1 DEF Pending, PendingRecords, Families, Destinations, NoOutcomes, Outcomes
<1>3. pending' = [pending EXCEPT ![s] = p] /\ UNCHANGED <<current, told>>
  BY <1>0 DEF Mint
<1>4. Mints(s, p, "guardrail")
  BY <1>2, <1>3 DEF Mints, ledger
<1> QED
  BY <1>4 DEF Effect

LEMMA ResolveEffect ==
    ASSUME IInv, TInv, NEW s \in Sessions, ResolveScope(s)
    PROVE  Effect(s)
<1>1. PICK both \in BOOLEAN : Resolve(s, both)
  BY DEF ResolveScope
<1>2. PICK candidates : candidates = {o \in Mine[s] : IsCancellable(o)}
  OBVIOUS
<1>3. candidates \in SUBSET Orders /\ at[s] = "resolve" /\ Open(s)
  BY <1>1, <1>2, SupportAssumption DEF Resolve, Open
<1>4. UNCHANGED <<ledger, thread, minted>>
  BY <1>1 DEF Resolve, store, ledger
<1>5. CASE Drop(s) /\ UNCHANGED asked
  BY <1>3, <1>4, <1>5, UnsaidEffect
<1>6. CASE /\ Mint(s, Pending(pending[s].req, "cancel", candidates, 0, "original", FALSE))
           /\ asked' = [asked EXCEPT ![pending[s].req] = candidates]
           /\ Go(s, "guardrail")
  BY <1>3, <1>4, <1>6, RemintEffect
<1> QED
  BY <1>1, <1>2, <1>5, <1>6 DEF Resolve, Mint, Pending

LEMMA GuardrailEffect ==
    ASSUME IInv, TInv, NEW s \in Sessions, RefundGuardrail(s) \/ ReturnGuardrail(s)
    PROVE  Effect(s)
<1>1. /\ at[s] = "guardrail" /\ Open(s) /\ pending[s].family \in {"refund", "return"}
      /\ UNCHANGED <<ledger, thread, minted, asked>>
  BY DEF RefundGuardrail, ReturnGuardrail, Open, store, ledger, history
<1>2. PICK o : o = Target(pending[s])
  OBVIOUS
<1>3. o \in Orders /\ asked[pending[s].req] = {o} /\ pending[s].amount \in Nat
  BY <1>1, <1>2, OneAsked, Types DEF PendingRecords
<1>4. asked' = [asked EXCEPT ![pending[s].req] = {o}]
  BY <1>1, <1>3, Types
<1>5. CASE End(s, Every(s, "declined"))
  BY <1>1, <1>5, EveryEffect
<1>6. CASE /\ Mint(s, Pending(pending[s].req, "cancel", {o}, 0, "original", TRUE))
           /\ Go(s, "guardrail")
  BY <1>1, <1>3, <1>4, <1>6, RemintEffect
<1>7. CASE /\ Mint(s, Pending(pending[s].req, "return", {o}, pending[s].amount, "original", TRUE))
           /\ Go(s, "guardrail")
  <2>1. PICK amount \in Nat : amount = pending[s].amount
    BY <1>3
  <2>2. Mint(s, Pending(pending[s].req, "return", {o}, amount, "original", TRUE))
    BY <1>7, <2>1 DEF Mint
  <2> QED
    BY <1>1, <1>3, <1>4, <1>7, <2>2, RemintEffect
<1>8. CASE Stay(s, "confirm") \/ Stay(s, "stepup")
  <2>1. Walks(s, "confirm") \/ Walks(s, "stepup")
    BY <1>1, <1>8 DEF Walks, Stay, flow
  <2> QED
    BY <2>1 DEF Effect
<1>9. CASE RefundGuardrail(s)
  <2>1. \/ End(s, Every(s, "declined"))
        \/ /\ Mint(s, Pending(pending[s].req, "cancel", {Target(pending[s])}, 0, "original", TRUE))
           /\ Go(s, "guardrail")
        \/ /\ Mint(s, Pending(pending[s].req, "return", {Target(pending[s])}, pending[s].amount,
                              "original", TRUE))
           /\ Go(s, "guardrail")
        \/ Stay(s, "confirm") \/ Stay(s, "stepup")
    BY <1>9 DEF RefundGuardrail
  <2> QED
    BY <1>2, <1>5, <1>6, <1>7, <1>8, <2>1 DEF Mint
<1>10. CASE ReturnGuardrail(s)
  <2>1. \/ End(s, Every(s, "declined"))
        \/ /\ Mint(s, Pending(pending[s].req, "cancel", {Target(pending[s])}, 0, "original", TRUE))
           /\ Go(s, "guardrail")
        \/ Stay(s, "confirm")
    BY <1>10 DEF ReturnGuardrail
  <2> QED
    BY <1>2, <1>5, <1>6, <1>8, <2>1 DEF Mint
<1> QED
  BY <1>9, <1>10

LEMMA CancelGuardrailEffect ==
    ASSUME IInv, TInv, NEW s \in Sessions, GuardrailOfCancel(s)
    PROVE  Effect(s)
<1>1. PICK blocked \in BOOLEAN : CancelGuardrail(s, blocked)
  BY DEF GuardrailOfCancel
<1>2. /\ at[s] = "guardrail" /\ Open(s) /\ pending[s].family = "cancel"
      /\ UNCHANGED <<ledger, thread, minted, asked>>
  BY <1>1 DEF CancelGuardrail, Open, store, ledger, history
<1>3. PICK p : p = Partition(pending[s])
  OBVIOUS
<1>4. CASE Drop(s) \/ HandOver(s)
  BY <1>2, <1>4, UnsaidEffect
<1>5. CASE Partition(pending[s]).targets = {} /\ End(s, Partition(pending[s]).outcomes)
  <2>1. /\ p.req = pending[s].req /\ p.targets = {}
        /\ asked[p.req] = p.targets \cup Heard(p.outcomes)
        /\ p.outcomes \in [Orders -> Outcomes]
        /\ Truthful(p.req, p.outcomes)
    BY <1>2, <1>3, <1>5, PartitionKnown
  <2>2. PICK outcomes : outcomes = p.outcomes
    OBVIOUS
  <2>3. Go(s, "rest") /\ Clear(s, outcomes)
    BY <1>3, <1>5, <2>2 DEF End, Clear
  <2>4. /\ outcomes \in [Orders -> Outcomes] /\ Truthful(pending[s].req, outcomes)
        /\ Heard(outcomes) = asked[pending[s].req]
    BY <2>1, <2>2
  <2> QED
    BY <1>2, <2>3, <2>4, EndEffect
<1>6. CASE /\ pending' = [pending EXCEPT ![s] = Partition(pending[s])]
           /\ Go(s, "confirm")
           /\ UNCHANGED <<current, lapsed, told>>
  BY <1>2, <1>6 DEF Splits, Effect
<1> QED
  BY <1>1, <1>4, <1>5, <1>6 DEF CancelGuardrail

LEMMA ConsentEffect ==
    ASSUME IInv, TInv, NEW s \in Sessions,
           StepUp(s) \/ Confirm(s) \/ AnswerAny(s) \/ Reread(s) \/ Lapse(s)
    PROVE  Effect(s)
<1>1. at[s] \in {"stepup", "confirm", "asked", "aside"} /\ Open(s)
  BY DEF StepUp, Confirm, AnswerAny, Answer, Reread, Lapse, Open
<1>2. UNCHANGED <<ledger, thread, minted, asked>>
  BY DEF StepUp, Confirm, AnswerAny, Answer, Reread, Lapse, store, ledger, history
<1>3. CASE Drop(s) \/ HandOver(s)
  BY <1>1, <1>2, <1>3, UnsaidEffect
<1>4. CASE at[s] \in {"confirm", "asked"} /\ End(s, Every(s, "failed"))
  BY <1>1, <1>2, <1>4, EveryEffect
<1>5. ASSUME NEW node, \/ node \in {"stepup", "confirm", "asked", "aside"}
                       \/ at[s] = "asked" /\ node = "place",
             Stay(s, node)
      PROVE  Effect(s)
  <2>1. Walks(s, node)
    BY <1>1, <1>2, <1>5 DEF Walks, Stay, flow
  <2> QED
    BY <2>1 DEF Effect
<1>6. CASE Lapse(s)
  <2>1. PICK node : node = at[s]
    OBVIOUS
  <2>2. at' = [at EXCEPT ![s] = node]
    BY <1>6, <2>1, Types DEF Lapse
  <2>3. Walks(s, node)
    BY <1>1, <1>2, <1>6, <2>1, <2>2 DEF Walks, Lapse, Go
  <2> QED
    BY <2>3 DEF Effect
<1>7. CASE StepUp(s) \/ Reread(s)
  <2>1. Stay(s, "confirm") \/ Drop(s) \/ HandOver(s)
    BY <1>7 DEF StepUp, Reread
  <2> QED
    BY <1>3, <1>5, <2>1
<1>8. CASE Confirm(s)
  <2>1. at[s] = "confirm" /\ (End(s, Every(s, "failed")) \/ Stay(s, "asked"))
    BY <1>8 DEF Confirm
  <2> QED
    BY <1>4, <1>5, <2>1
<1>9. CASE AnswerAny(s)
  <2>1. /\ at[s] = "asked"
        /\ \/ End(s, Every(s, "failed")) \/ Stay(s, "place") \/ Stay(s, "aside")
           \/ Drop(s) \/ HandOver(s)
    BY <1>9 DEF AnswerAny, Answer
  <2> QED
    BY <1>3, <1>4, <1>5, <2>1
<1> QED
  BY <1>6, <1>7, <1>8, <1>9

LEMMA PlaceEffect ==
    ASSUME IInv, TInv, NEW s \in Sessions, Place(s)
    PROVE  Effect(s)
<1>1. at[s] = "place" /\ Open(s) /\ UNCHANGED <<ledger, minted, asked>>
  BY DEF Place, Open, store, ledger, history
<1>2. CASE HandOver(s) /\ UNCHANGED thread
  BY <1>1, <1>2, UnsaidEffect
<1>3. CASE \E o \in Remaining(pending[s]) :
             /\ Go(s, "effect")
             /\ current' = [current EXCEPT ![s] = o]
             /\ thread' = [thread EXCEPT ![s] = [state |-> "running", row |-> Row(pending[s], o)]]
             /\ UNCHANGED <<pending, lapsed, told>>
  <2>1. PICK o \in Remaining(pending[s]) :
             /\ Go(s, "effect")
             /\ current' = [current EXCEPT ![s] = o]
             /\ thread' = [thread EXCEPT ![s] = [state |-> "running", row |-> Row(pending[s], o)]]
             /\ UNCHANGED <<pending, lapsed, told>>
    BY <1>3
  <2>2. Starts(s, o)
    BY <1>1, <2>1 DEF Starts
  <2> QED
    BY <2>2 DEF Effect
<1> QED
  BY <1>2, <1>3 DEF Place

LEMMA RunEffectEffect ==
    ASSUME IInv, TInv, NEW s \in Sessions, RunEffect(s)
    PROVE  Effect(s)
<1>1. PICK row : row = thread[s].row
  OBVIOUS
<1>2. /\ thread[s].state = "running"
      /\ UNCHANGED <<at, pending, current, told, minted, asked>>
  BY DEF RunEffect, history
<1>3. row \in Rows
  BY <1>1, <1>2, RunningUnsaid
<1>4. UNCHANGED ledger \/ (Recorded(row) = {} /\ Record(row))
  BY <1>1 DEF RunEffect, Commit
<1>5. Commit(row) => row \in receipts'
  BY DEF Commit, Committed, Record, ledger
<1>6. Refused(row) /\ UNCHANGED ledger => row \notin receipts'
  BY DEF Refused, Committed, ledger
<1>7. PICK how \in {"done", "refused", "raised"} :
         /\ thread' = [thread EXCEPT ![s].state = how]
         /\ how = "done" => row \in receipts'
         /\ how = "refused" => row \notin receipts'
  BY <1>1, <1>5, <1>6 DEF RunEffect
<1>8. Runs(s, how)
  BY <1>1, <1>2, <1>3, <1>4, <1>7 DEF Runs
<1> QED
  BY <1>8 DEF Effect

LEMMA EffectReturnsEffect ==
    ASSUME IInv, TInv, NEW s \in Sessions, EffectReturns(s)
    PROVE  Effect(s)
<1>1. /\ at[s] = "effect" /\ Open(s) /\ thread' = [thread EXCEPT ![s] = NoThread]
      /\ UNCHANGED <<ledger, minted, asked>>
  BY DEF EffectReturns, Open, store, ledger, history
<1>2. ASSUME NEW node, Stay(s, node),
             \/ thread[s].state = "done" /\ node = "finish"
             \/ thread[s].state = "refused" /\ node = "refused" /\ pending[s].family = "cancel"
             \/ node = "recover"
      PROVE  Effect(s)
  <2>1. Returns(s, node)
    BY <1>1, <1>2 DEF Returns, Stay, flow
  <2> QED
    BY <2>1 DEF Effect
<1>3. CASE /\ thread[s].state = "refused" /\ pending[s].family # "cancel"
           /\ Terminal(s, Every(s, "failed"))
  <2>1. BatchKnown(s) /\ ReceiptsKnown(s) /\ ThreadKnown(s) /\ CurrentKnown(s)
    BY <1>1 DEF TInv, SessionKnown
  <2>2. thread[s].row = Row(pending[s], current[s]) /\ thread[s].row \notin receipts
    BY <1>1, <1>3, <2>1 DEF ThreadKnown, NoThread
  <2>3. pending[s].outcomes = NoOutcomes
    BY <1>3, <2>1 DEF BatchKnown
  <2>4. \A q \in receipts : q.order \in Orders
    BY Types DEF Rows
  <2>5. \A q \in receipts : q.req # pending[s].req
    BY <2>1, <2>2, <2>3, <2>4 DEF ReceiptsKnown, NoOutcomes
  <2>6. PICK outcomes : outcomes = Every(s, "failed")
    OBVIOUS
  <2>7. Go(s, "terminal") /\ Clear(s, outcomes)
    BY <1>3, <2>6 DEF Terminal, Clear
  <2>8. /\ outcomes \in [Orders -> Outcomes] /\ Truthful(pending[s].req, outcomes)
        /\ Heard(outcomes) = asked[pending[s].req]
    BY <1>1, <2>5, <2>6, EveryTrue
  <2> QED
    BY <1>1, <2>7, <2>8, EndEffect
<1>4. \/ thread[s].state = "done" /\ Stay(s, "finish")
      \/ thread[s].state = "refused" /\ pending[s].family = "cancel" /\ Stay(s, "refused")
      \/ /\ thread[s].state = "refused" /\ pending[s].family # "cancel"
         /\ Terminal(s, Every(s, "failed"))
      \/ Stay(s, "recover")
  BY DEF EffectReturns
<1> QED
  BY <1>2, <1>3, <1>4

LEMMA FinishCancelEffect ==
    ASSUME IInv, TInv, NEW s \in Sessions, NEW outcome, FinishCancel(s, outcome),
           (at[s] = "finish" /\ outcome = "done") \/ (at[s] = "refused" /\ outcome = "failed"),
           pending[s].family = "cancel",
           UNCHANGED <<ledger, thread, minted, asked>>
    PROVE  Effect(s)
<1>1. CASE Remaining(pending[s]) # {current[s]}
  <2>1. Advances(s, outcome)
    BY <1>1 DEF FinishCancel, Advances
  <2> QED
    BY <2>1 DEF Effect
<1>2. CASE Remaining(pending[s]) = {current[s]}
  <2>0. Open(s) /\ at[s] \notin {"effect", "takeover"}
    BY DEF Open
  <2>1. PICK outcomes : outcomes = With(s, outcome)
    OBVIOUS
  <2>2. Go(s, "rest") /\ Clear(s, outcomes)
    BY <1>2, <2>1 DEF FinishCancel, End, Clear
  <2>3. /\ outcomes \in [Orders -> Outcomes]
        /\ Heard(outcomes) = Heard(pending[s].outcomes) \cup {current[s]}
        /\ Truthful(pending[s].req, outcomes)
    BY <2>1, WithKnown
  <2>4. asked[pending[s].req] = pending[s].targets \cup Heard(pending[s].outcomes)
    BY <2>0 DEF TInv, SessionKnown, BatchKnown
  <2>5. pending[s].targets \subseteq Orders
    BY <2>0, Types
  <2>6. Heard(outcomes) = asked[pending[s].req]
    BY <1>2, <2>3, <2>4, <2>5 DEF Remaining, Heard
  <2> QED
    BY <2>0, <2>2, <2>3, <2>6, EndEffect
<1> QED
  BY <1>1, <1>2

LEMMA FinishEffect ==
    ASSUME IInv, TInv, NEW s \in Sessions, Finish(s)
    PROVE  Effect(s)
<1>1. /\ at[s] \in {"finish", "refused"} /\ Open(s)
      /\ UNCHANGED <<ledger, thread, minted, asked>>
  BY DEF Finish, Open, store, ledger, history
<1>2. BatchKnown(s) /\ ReceiptsKnown(s) /\ CurrentKnown(s)
  BY <1>1 DEF TInv, SessionKnown
<1>3. CASE at[s] = "refused"
  <2>1. FinishCancel(s, "failed") /\ pending[s].family = "cancel"
    BY <1>2, <1>3 DEF Finish, BatchKnown
  <2> QED
    BY <1>1, <1>3, <2>1, FinishCancelEffect
<1>4. CASE at[s] = "finish" /\ pending[s].family = "cancel"
  <2>1. FinishCancel(s, "done")
    BY <1>4 DEF Finish
  <2> QED
    BY <1>1, <1>4, <2>1, FinishCancelEffect
<1>5. CASE at[s] = "finish" /\ pending[s].family # "cancel"
  <2>1. PICK outcomes : outcomes = Every(s, "done")
    OBVIOUS
  <2>2. Go(s, "rest") /\ Clear(s, outcomes)
    BY <1>5, <2>1 DEF Finish, End, Clear
  <2>3. PICK o \in Orders : pending[s].targets = {o}
    BY <1>1, <1>5 DEF IInv, HasPending, FlowTypeOK, PendingOK, PendingRecords, Families, Open
  <2>4. pending[s].outcomes = NoOutcomes
    BY <1>2, <1>5 DEF BatchKnown
  <2>5. asked[pending[s].req] = {o}
    BY <1>2, <2>3, <2>4 DEF BatchKnown, Heard, NoOutcomes
  <2>6. current[s] = o
    BY <1>2, <1>5, <2>3 DEF CurrentKnown, Remaining
  <2>7. RecordedFor(pending[s].req, o)
    BY <1>2, <1>5, <2>6 DEF ReceiptsKnown, RecordedFor, Row, Receipt
  <2>8. outcomes = [x \in Orders |-> IF x = o THEN "done" ELSE "nothing"]
    BY <2>1, <2>5 DEF Every
  <2>9. /\ outcomes \in [Orders -> Outcomes] /\ Truthful(pending[s].req, outcomes)
        /\ Heard(outcomes) = asked[pending[s].req]
    BY <2>5, <2>7, <2>8 DEF Outcomes, Truthful, Heard
  <2> QED
    BY <1>1, <2>2, <2>9, EndEffect
<1> QED
  BY <1>1, <1>3, <1>4, <1>5

LEMMA TakeOverEffect ==
    ASSUME IInv, TInv, NEW s \in Sessions,
           TakeOver(s) \/ TakeOverTimesOut(s) \/ AbandonEffect(s) \/ RecoveryFails(s)
    PROVE  Effect(s)
<1>1. UNCHANGED <<ledger, minted, asked>>
  BY DEF TakeOver, TakeOverTimesOut, AbandonEffect, RecoveryFails, store, ledger, history
<1>2. CASE TakeOver(s)
  <2>1. Returns(s, "recover")
    BY <1>1, <1>2 DEF TakeOver, Returns, Stay, flow
  <2> QED
    BY <2>1 DEF Effect
<1>3. CASE AbandonEffect(s)
  <2>1. Walks(s, "takeover")
    BY <1>1, <1>3 DEF AbandonEffect, Walks, Stay, flow
  <2> QED
    BY <2>1 DEF Effect
<1>4. CASE RecoveryFails(s)
  BY <1>1, <1>4, UnsaidEffect DEF RecoveryFails, Open
<1>5. CASE TakeOverTimesOut(s)
  <2>1. at[s] = "takeover" /\ Open(s) /\ UNCHANGED thread
    BY <1>5 DEF TakeOverTimesOut, Open
  <2>2. PICK outcomes : outcomes = told[pending[s].req]
    OBVIOUS
  <2>3. Go(s, "terminal") /\ Clear(s, outcomes)
    BY <1>5, <2>2 DEF TakeOverTimesOut, HandOver, Terminal, Unsaid, Clear
  <2>4. outcomes \in [Orders -> Outcomes]
    BY <2>1, <2>2, Types
  <2>5. Ends(s, "terminal", outcomes)
    BY <1>1, <2>1, <2>2, <2>3, <2>4 DEF Ends
  <2> QED
    BY <2>5 DEF Effect
<1> QED
  BY <1>2, <1>3, <1>4, <1>5

(* What a recovery tells is what the ledger says of the target in hand, and *)
(* nothing was done of those after it.                                      *)
LEMMA ReconcileEffectEffect ==
    ASSUME IInv, TInv, NEW s \in Sessions, ReconcileEffect(s)
    PROVE  Effect(s)
<1>1. /\ at[s] = "recover" /\ Open(s)
      /\ UNCHANGED <<ledger, thread, minted, asked>>
  BY DEF ReconcileEffect, Open, store, ledger, history
<1>2. PICK o \in Interrupted(s) :
         End(s, Reconciled(s, o, IF Committed(Row(pending[s], o)) THEN "done" ELSE "failed"))
  BY DEF ReconcileEffect
<1>3. PICK outcome : outcome = IF Committed(Row(pending[s], o)) THEN "done" ELSE "failed"
  OBVIOUS
<1>4. PICK outcomes : outcomes = Reconciled(s, o, outcome)
  OBVIOUS
<1>5. Go(s, "rest") /\ Clear(s, outcomes)
  BY <1>2, <1>3, <1>4 DEF End, Clear
<1>6. BatchKnown(s) /\ ReceiptsKnown(s) /\ CurrentKnown(s)
  BY <1>1 DEF TInv, SessionKnown
<1>7. /\ pending[s].targets \subseteq Orders
      /\ pending[s].outcomes \in [Orders -> Outcomes]
  BY <1>1, Types
<1>8. o \in Remaining(pending[s]) /\ (current[s] = NoOrder \/ o = current[s])
  BY <1>1, <1>6 DEF Interrupted, CurrentKnown
<1>9. o \in Orders /\ pending[s].outcomes[o] = "nothing"
  BY <1>7, <1>8 DEF Remaining
<1>10. \A x \in Orders : outcomes[x] = IF x = o THEN outcome
                                       ELSE IF x \in Remaining(pending[s]) THEN "failed"
                                       ELSE pending[s].outcomes[x]
  BY <1>4 DEF Reconciled
<1>11. outcomes \in [Orders -> Outcomes] /\ outcome \in {"done", "failed"}
  BY <1>3, <1>4, <1>7 DEF Reconciled, Outcomes
<1>12. Heard(outcomes) = asked[pending[s].req]
  BY <1>6, <1>7, <1>8, <1>10, <1>11 DEF BatchKnown, Heard, Remaining
<1>13. ASSUME NEW q \in receipts, q.req = pending[s].req
       PROVE  /\ q.order \in Orders
              /\ pending[s].outcomes[q.order] = "done" \/ (q = Row(pending[s], o) /\ q.order = o)
  <2>1. q.order \in Orders
    BY Types DEF Rows
  <2>2. pending[s].outcomes[q.order] = "done" \/ q = Row(pending[s], current[s])
    BY <1>6, <1>13 DEF ReceiptsKnown
  <2>3. q = Row(pending[s], current[s]) => q.order = current[s]
    BY DEF Row, Receipt
  <2> QED
    BY <1>8, <2>1, <2>2, <2>3, SupportAssumption
<1>14. outcome = "done" <=> RecordedFor(pending[s].req, o)
  <2>1. Row(pending[s], o).req = pending[s].req /\ Row(pending[s], o).order = o
    BY DEF Row, Receipt
  <2> QED
    BY <1>3, <1>9, <1>13, <2>1 DEF Committed, RecordedFor
<1>15. ASSUME NEW x \in Remaining(pending[s]), x # o PROVE ~RecordedFor(pending[s].req, x)
  BY <1>13, <1>15 DEF RecordedFor, Remaining
<1>16. Truthful(pending[s].req, outcomes)
  BY <1>6, <1>10, <1>11, <1>14, <1>15 DEF BatchKnown, Truthful
<1> QED
  BY <1>1, <1>5, <1>11, <1>12, <1>16, EndEffect

LEMMA FailNodeEffect ==
    ASSUME IInv, TInv, NEW s \in Sessions, FailNode(s)
    PROVE  Effect(s)
<1>1. UNCHANGED <<ledger, thread, minted, asked>>
  BY DEF FailNode, store, ledger, history
<1>2. CASE at[s] \in {"resolve", "guardrail", "stepup"} /\ Drop(s)
  BY <1>1, <1>2, UnsaidEffect DEF Open
<1>3. CASE at[s] \in {"stepup", "confirm", "asked"} /\ End(s, Every(s, "failed"))
  BY <1>1, <1>3, EveryEffect
<1>4. CASE at[s] \in {"place", "finish", "refused"} /\ Stay(s, "recover")
  <2>1. Walks(s, "recover")
    BY <1>1, <1>4 DEF Walks, Stay, flow
  <2> QED
    BY <2>1 DEF Effect
<1> QED
  BY <1>2, <1>3, <1>4 DEF FailNode

LEMMA StepEffect ==
    ASSUME IInv, TInv, NEW s \in Sessions, SessionStep(s)
    PROVE  Effect(s)
BY AskEffect, ResolveEffect, GuardrailEffect, CancelGuardrailEffect, ConsentEffect, PlaceEffect,
   RunEffectEffect, EffectReturnsEffect, FinishEffect, TakeOverEffect, ReconcileEffectEffect,
   FailNodeEffect DEF SessionStep, Engine

LEMMA InitTInv == Init => TInv
<1> SUFFICES ASSUME Init PROVE TInv
  OBVIOUS
<1>1. Honest
  BY DEF Init, Honest, Truthful, Heard, NoOutcomes
<1>2. NumbersKnown
  BY DEF Init, StoreInit, NumbersKnown, Open
<1>3. \A s \in Sessions : SessionKnown(s)
  BY DEF Init, SessionKnown, Open, CurrentKnown, ThreadKnown
<1> QED
  BY <1>1, <1>2, <1>3 DEF TInv

LEMMA NextTInv == IInv /\ TInv /\ [Next]_vars => TInv'
<1> SUFFICES ASSUME IInv, TInv, [Next]_vars PROVE TInv'
  OBVIOUS
<1>1. ASSUME NEW s \in Sessions, SessionStep(s) PROVE TInv'
  BY <1>1, StepEffect, EffectTInv
<1>2. CASE Time \/ UNCHANGED vars
  <2>1. UNCHANGED <<receipts, paid, cancelled, at, pending, current, thread, minted, asked, told>>
    BY <1>2 DEF Time, WindowCloses, vars, store, ledger, flow, history
  <2>2. Honest'
    BY <2>1 DEF TInv, Honest, Truthful, RecordedFor, Heard
  <2>3. NumbersKnown'
    BY <2>1 DEF TInv, NumbersKnown, Open, NoOutcomes
  <2>4. ASSUME NEW s \in Sessions PROVE SessionKnown(s)'
    <3>1. SessionKnown(s)
      BY DEF TInv
    <3>2. Open(s) => BatchKnown(s)'
      BY <2>1, <3>1 DEF SessionKnown, BatchKnown, Truthful, RecordedFor, Heard, NoOutcomes
    <3>3. Open(s) => ReceiptsKnown(s)'
      BY <2>1, <3>1 DEF SessionKnown, ReceiptsKnown, Row, Receipt
    <3>4. CurrentKnown(s)'
      BY <2>1, <3>1 DEF SessionKnown, CurrentKnown, Remaining
    <3>5. ThreadKnown(s)'
      BY <2>1, <3>1 DEF SessionKnown, ThreadKnown, Open, NoThread, NoOutcomes, Row, Receipt
    <3> QED
      BY <2>1, <3>2, <3>3, <3>4, <3>5 DEF SessionKnown, Open
  <2> QED
    BY <2>2, <2>3, <2>4 DEF TInv
<1> QED
  BY <1>1, <1>2 DEF Next

LEMMA InvariantTInv == Spec => []TInv
BY InvariantIInv, InitTInv, NextTInv, PTL DEF Spec

(* What a caller was told of an order is true and stays true, of all orders *)
(* of a request or of none, and every amount in the books is that of one    *)
(* recorded intent: for any number of sessions, orders, batches and         *)
(* failures, with threads that outlive their turns.                         *)
THEOREM TruthAlwaysTold == Spec => []TruthTold
<1>1. Honest => OutcomesTrue /\ WholeBatchTold
  BY DEF Honest, OutcomesTrue, WholeBatchTold, Truthful, RecordedFor, Heard
<1>2. TInv /\ BooksKept => TruthTold
  BY <1>1, BooksTold DEF TInv, TruthTold
<1> QED
  BY <1>2, InvariantTInv, InvariantBooks, PTL
=============================================================================
