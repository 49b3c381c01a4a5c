------------------------------ MODULE OrderStore ------------------------------
(***************************************************************************)
(* The ledgers of commerce/orders.py that move money: refunds paid,        *)
(* refunds promised on returns, and voided orders.  One store serves every *)
(* session of a tenant.  Its methods hold one lock (_synchronized), so     *)
(* each is one step; what a session read before a step may be stale in it. *)
(*                                                                         *)
(* An intent is a request and an order: the flows mint one idempotency key *)
(* for each.  The orders are those the store knows, from its fixture or    *)
(* placed; their fulfilment never changes in this store, but a void hides  *)
(* it.                                                                     *)
(*                                                                         *)
(* Left out: placing orders, who may see them, and how they are spoken.    *)
(***************************************************************************)
EXTENDS Integers, FiniteSets

CONSTANTS
    Orders,        \* the orders the store knows
    Captured,      \* captured_total of each, in units of money
    Shipped,       \* the orders shipped or delivered; the rest are processing
    Delivered,     \* those with a delivery date, whose return window closes
    MaxRequests    \* bound: requests of all sessions

ASSUME OrderAssumption ==
    /\ Captured \in [Orders -> Nat]
    /\ Delivered \subseteq Shipped
    /\ Shipped \subseteq Orders
    /\ MaxRequests \in Nat

Requests == 1 .. MaxRequests

VARIABLES
    receipts,      \* _refunds_by_key, _returns_by_key and _cancels_by_key
    paid,          \* refunded_so_far of each order
    due,           \* return_refund_due of each order
    cancelled,     \* _cancelled_ids
    overdue        \* delivered orders whose return window has closed

ledger == <<receipts, paid, due, cancelled>>
store == <<receipts, paid, due, cancelled, overdue>>

Receipt(req, family, order, amount) ==
    [req |-> req, family |-> family, order |-> order, amount |-> amount]

StoreInit ==
    /\ receipts = {}
    /\ paid = [o \in Orders |-> 0]
    /\ due = [o \in Orders |-> 0]
    /\ cancelled = {}
    /\ overdue = {}

-----------------------------------------------------------------------------
(* order_status, is_cancellable and return_for_order.                       *)
OrderStatus(o) ==
    IF o \in cancelled THEN "cancelled" ELSE IF o \in Shipped THEN "fulfilled" ELSE "processing"
IsCancellable(o) == OrderStatus(o) = "processing"
OpenReturn(o) == \E r \in receipts : r.family = "return" /\ r.order = o

(* The record kept under the key of an intent.                              *)
Recorded(row) ==
    {r \in receipts : r.family = row.family /\ r.req = row.req /\ r.order = row.order}

(* refund_receipt, return_receipt and cancel_receipt.                       *)
Committed(row) == row \in receipts

(* Mutant: the promises on open returns are not counted.                    *)
RefundAllowedOverPromise(row) ==
    /\ OrderStatus(row.order) # "cancelled"
    /\ paid[row.order] + row.amount <= Captured[row.order]

(* issue_refund's checks.                                                   *)
RefundAllowed(row) ==
    /\ OrderStatus(row.order) # "cancelled"
    /\ paid[row.order] + due[row.order] + row.amount <= Captured[row.order]

(* create_return's checks.                                                  *)
ReturnAllowed(row) ==
    /\ OrderStatus(row.order) = "fulfilled"
    /\ ~OpenReturn(row.order)
    /\ paid[row.order] + row.amount <= Captured[row.order]

(* cancel_order's checks.                                                   *)
CancelAllowed(row) == IsCancellable(row.order) /\ paid[row.order] = 0

Allowed(row) ==
    CASE row.family = "refund" -> RefundAllowed(row)
      [] row.family = "return" -> ReturnAllowed(row)
      [] row.family = "cancel" -> CancelAllowed(row)

(* What issue_refund, create_return and cancel_order write.                 *)
Record(row) ==
    /\ receipts' = receipts \cup {row}
    /\ paid' = IF row.family = "refund" THEN [paid EXCEPT ![row.order] = @ + row.amount] ELSE paid
    /\ due' = IF row.family = "return" THEN [due EXCEPT ![row.order] = @ + row.amount] ELSE due
    /\ cancelled' = IF row.family = "cancel" THEN cancelled \cup {row.order} ELSE cancelled

(* A call that returns a record: the original under a seen key, else a new  *)
(* one.                                                                     *)
Commit(row) ==
    \/ Committed(row) /\ UNCHANGED ledger
    \/ Recorded(row) = {} /\ Allowed(row) /\ Record(row)

(* A call that raises RefundError, ReturnError or CancelError.              *)
Refused(row) == ~Committed(row) /\ (Recorded(row) # {} \/ ~Allowed(row))

(* delivered_at_epoch passes the return window.                             *)
WindowCloses(o) ==
    /\ o \in Delivered \ overdue
    /\ overdue' = overdue \cup {o}
    /\ UNCHANGED ledger

-----------------------------------------------------------------------------
(* The money an order's refunds and promises add up to never exceeds what   *)
(* was captured, and nothing is paid or promised on an order whose charge a *)
(* void reversed: whatever sessions race between their guardrails and these *)
(* calls (issue_refund, create_return, cancel_order).                       *)
MoneyBounded ==
    \A o \in Orders :
        /\ paid[o] + due[o] <= Captured[o]
        /\ o \in cancelled => paid[o] = 0 /\ due[o] = 0

(* An order has at most one return, and none if it was voided; a void is of *)
(* one intent (create_return, cancel_order and the status they both read).  *)
RemediesExclusive ==
    \A r, q \in receipts :
        r.order = q.order /\ r # q =>
            /\ ~(r.family = "return" /\ q.family = "return")
            /\ r.family # "cancel"

(* The ledgers of an order contradict neither its captured amount nor each  *)
(* other: the two parts above hold together.                                *)
LedgersCoherent == MoneyBounded /\ RemediesExclusive
=============================================================================
