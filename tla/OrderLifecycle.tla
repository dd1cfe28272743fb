--------------------------- MODULE OrderLifecycle ---------------------------
(***************************************************************************)
(* What the order side of the backend promises, with no request, webhook,  *)
(* sweep or crash in sight: an order is placed, it leaves pending_payment  *)
(* once and in one step, the units it held leave the held count in that    *)
(* same step, and money is attached to it at most once.                    *)
(*                                                                         *)
(* OrderPayment (checkout, webhook, cancel and sweep as interleaved steps) *)
(* implements this module under the mapping held <- reserved, and Refunds  *)
(* implements its refund moves.                                            *)
(***************************************************************************)
EXTENDS Integers

CONSTANTS
  Orders,      \* orders a checkout may create
  Listings,    \* vendor listings with an inventory row
  Payments,    \* captured or capturable Razorpay payments
  NoPayment,   \* razorpay_payment_id IS NULL
  Qty          \* Qty[o][l]: units of listing l ordered by o (0: no such line)

VARIABLES
  status,      \* orders.status, "none" before the row exists
  paymentId,   \* orders.razorpay_payment_id (captured_paise is written with it)
  held         \* units held for unpaid orders, per listing

lifecycleVars == <<status, paymentId, held>>

Status == {"none", "pending_payment", "confirmed", "cancelled",
           "refund_required", "refund_pending", "refunded"}

(* The status moves a refund can cause; a refund never reopens an order.   *)
RefundMoves == { <<"confirmed", "refund_pending">>,
                 <<"refund_required", "refund_pending">>,
                 <<"refund_pending", "refunded">>,
                 <<"refund_pending", "refund_required">> }

SetStatus(o, s) == status' = [status EXCEPT ![o] = s]

SetPayment(o, p) == paymentId' = [paymentId EXCEPT ![o] = p]

Hold(o) == held' = [l \in Listings |-> held[l] + Qty[o][l]]

Unhold(o) == held' = [l \in Listings |-> held[l] - Qty[o][l]]

LifecycleInit ==
  /\ status = [o \in Orders |-> "none"]
  /\ paymentId = [o \in Orders |-> NoPayment]
  /\ held = [l \in Listings |-> 0]

Place(o) ==
  /\ status[o] = "none"
  /\ SetStatus(o, "pending_payment")
  /\ Hold(o)
  /\ UNCHANGED paymentId

Confirm(o, p) ==
  /\ status[o] = "pending_payment"
  /\ SetStatus(o, "confirmed")
  /\ SetPayment(o, p)
  /\ Unhold(o)

Cancel(o) ==
  /\ status[o] = "pending_payment"
  /\ SetStatus(o, "cancelled")
  /\ Unhold(o)
  /\ UNCHANGED paymentId

(* Captured money that cannot confirm its order is owed back.              *)
OwePending(o, p) ==
  /\ status[o] = "pending_payment"
  /\ SetStatus(o, "refund_required")
  /\ SetPayment(o, p)
  /\ Unhold(o)

OweCancelled(o, p) ==
  /\ status[o] = "cancelled"
  /\ paymentId[o] = NoPayment
  /\ SetStatus(o, "refund_required")
  /\ SetPayment(o, p)
  /\ UNCHANGED held

RefundMove(o, s) ==
  /\ <<status[o], s>> \in RefundMoves
  /\ SetStatus(o, s)
  /\ UNCHANGED <<paymentId, held>>

Close(o) ==
  /\ status[o] = "refunded"
  /\ SetStatus(o, "cancelled")
  /\ UNCHANGED <<paymentId, held>>

LifecycleNext ==
  \E o \in Orders :
    \/ Place(o)
    \/ Cancel(o)
    \/ Close(o)
    \/ \E s \in Status : RefundMove(o, s)
    \/ \E p \in Payments : Confirm(o, p) \/ OwePending(o, p) \/ OweCancelled(o, p)

LifecycleSpec == LifecycleInit /\ [][LifecycleNext]_lifecycleVars
=============================================================================
