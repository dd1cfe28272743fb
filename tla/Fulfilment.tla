----------------------------- MODULE Fulfilment -----------------------------
(***************************************************************************)
(* The vendor groups of one order (orders.service.ts): what vendors and    *)
(* admins do to them, beside the transactions that confirm, cancel, refund *)
(* and close the order and take its groups along.  A vendor's or admin's   *)
(* call reads the group, checks, and saves later without a guard, so       *)
(* anything may come between; it may also die there.                       *)
(*                                                                         *)
(* How payments and refunds come to their decisions is in OrderPayment and *)
(* Refunds; here each is the one transaction that changes order and groups.*)
(* Notifications, sent after the save, are left out.                       *)
(***************************************************************************)
EXTENDS FiniteSets

CONSTANTS
  Groups,          \* rows of order_vendor_group of the order
  Workers,         \* concurrent calls
  NoGroup,
  Order,           \* the order, and a payment of it, for OrderLifecycle
  Payment,
  NoPayment,
  OverrideUnpaid   \* whether admins override groups of an unpaid order

ASSUME FulfilmentAssumption ==
  /\ NoGroup \notin Groups
  /\ NoPayment # Payment
  /\ OverrideUnpaid \in BOOLEAN

VARIABLES
  order,           \* orders.status
  paid,            \* orders.razorpay_payment_id IS NOT NULL
  confirmedOnce,   \* history: the order has been confirmed
  group,           \* order_vendor_group.status
  job              \* what each worker is doing

orderRow == <<order, paid, confirmedOnce>>
vars == <<orderRow, group, job>>

Lifecycle == INSTANCE OrderLifecycle WITH
  Orders <- {Order}, Listings <- {}, Payments <- {Payment}, Qty <- <<>>,
  status <- [o \in {Order} |-> order],
  paymentId <- [o \in {Order} |-> IF paid THEN Payment ELSE NoPayment],
  held <- [l \in {} |-> 0]

GroupStatus == {"pending", "confirmed", "shipped", "delivered", "cancelled"}

(* LOCKED_PARENT_ORDER_STATUSES                                            *)
Locked == {"refunded", "refund_pending", "refund_required", "cancelled"}

(* validNextStatuses                                                       *)
ValidNext == { <<"pending", "confirmed">>, <<"pending", "cancelled">>,
               <<"confirmed", "shipped">>, <<"confirmed", "cancelled">>,
               <<"shipped", "delivered">> }

JobStep == {"idle", "check", "save", "close"}

(* read: the status the call read, target: the one it will save.           *)
Job == [pc : JobStep, group : Groups \cup {NoGroup},
        read : GroupStatus \cup {"none"}, target : GroupStatus]

NoJob == [pc |-> "idle", group |-> NoGroup, read |-> "none", target |-> "cancelled"]

Init ==
  /\ order = "none"
  /\ paid = FALSE
  /\ confirmedOnce = FALSE
  /\ group = [g \in Groups |-> "none"]
  /\ job = [w \in Workers |-> NoJob]

-----------------------------------------------------------------------------
Begin(w, pc, g, s) ==
  job' = [job EXCEPT ![w] = [pc |-> pc, group |-> g, read |-> group[g], target |-> s]]

Finish(w) == job' = [job EXCEPT ![w] = NoJob]

(* groupModel.update({status: to}, {where: {orderId, status: in from}})    *)
MoveGroups(from, to) ==
  group' = [g \in Groups |-> IF group[g] \in from THEN to ELSE group[g]]

-----------------------------------------------------------------------------
(* checkout: the order and its groups in one transaction.                  *)
PlaceOrder ==
  /\ order = "none"
  /\ order' = "pending_payment"
  /\ group' = [g \in Groups |-> "pending"]
  /\ UNCHANGED <<paid, confirmedOnce, job>>

ConfirmOrder ==
  /\ order = "pending_payment"
  /\ order' = "confirmed"
  /\ paid' = TRUE
  /\ confirmedOnce' = TRUE
  /\ MoveGroups({"pending"}, "confirmed")
  /\ UNCHANGED job

\* Mutant: the order is cancelled without its groups.
CancelOrderOnly(s) ==
  /\ order = "pending_payment"
  /\ order' = s
  /\ paid' = (s = "refund_required")
  /\ UNCHANGED <<confirmedOnce, group, job>>

(* releaseAndCancel, checkout's compensation, and the capture that cannot  *)
(* confirm its order.                                                      *)
CancelPending(s) ==
  /\ order = "pending_payment"
  /\ s \in {"cancelled", "refund_required"}
  /\ order' = s
  /\ paid' = (s = "refund_required")
  /\ MoveGroups({"pending"}, "cancelled")
  /\ UNCHANGED <<confirmedOnce, job>>

\* Mutant: a cancelled order that has its payment is owed it again.
MarkAnyCancelled ==
  /\ order = "cancelled"
  /\ order' = "refund_required"
  /\ paid' = TRUE
  /\ UNCHANGED <<confirmedOnce, group, job>>

MarkRefundRequired ==
  /\ order = "cancelled"
  /\ ~paid
  /\ order' = "refund_required"
  /\ paid' = TRUE
  /\ UNCHANGED <<confirmedOnce, group, job>>

RefundMove(s) ==
  /\ <<order, s>> \in Lifecycle!RefundMoves
  /\ order' = s
  /\ UNCHANGED <<paid, confirmedOnce, group, job>>

-----------------------------------------------------------------------------
(* adminCancel of a refunded order: an advisory read, then a transaction   *)
(* that reads the status again under the order's lock.                     *)
CloseCalled(w) ==
  /\ job[w].pc = "idle"
  /\ order = "refunded"
  /\ job' = [job EXCEPT ![w].pc = "close"]
  /\ UNCHANGED <<orderRow, group>>

CloseRefunded(w) ==
  /\ job[w].pc = "close"
  /\ IF order = "refunded"
       THEN order' = "cancelled" /\ MoveGroups(GroupStatus, "cancelled")
       ELSE UNCHANGED <<order, group>>
  /\ Finish(w)
  /\ UNCHANGED <<paid, confirmedOnce>>

-----------------------------------------------------------------------------
\* Mutant: without the lock on refunded and cancelled orders.
VendorUpdateAnyPaid(w, g, s) ==
  /\ job[w].pc = "idle"
  /\ order \notin {"none", "pending_payment"}
  /\ <<group[g], s>> \in ValidNext
  /\ Begin(w, "save", g, s)
  /\ UNCHANGED <<orderRow, group>>

(* updateVendorGroupStatus: group and order in one read.                   *)
VendorUpdate(w, g, s) ==
  /\ job[w].pc = "idle"
  /\ order \notin {"none", "pending_payment"} \cup Locked
  /\ <<group[g], s>> \in ValidNext
  /\ Begin(w, "save", g, s)
  /\ UNCHANGED <<orderRow, group>>

(* adminOverrideVendorGroupStatus: the group, then the order.              *)
AdminOverride(w, g, s) ==
  /\ job[w].pc = "idle"
  /\ order # "none"
  /\ Begin(w, "check", g, s)
  /\ UNCHANGED <<orderRow, group>>

\* Mutant: the override does not look at the order.
OverrideUnchecked(w) ==
  /\ job[w].pc = "check"
  /\ order = "pending_payment" => OverrideUnpaid
  /\ job' = [job EXCEPT ![w].pc = "save"]
  /\ UNCHANGED <<orderRow, group>>

OverrideChecked(w) ==
  /\ job[w].pc = "check"
  /\ order = "pending_payment" => OverrideUnpaid
  /\ IF order \in Locked /\ job[w].target # "cancelled"
       THEN Finish(w)
       ELSE job' = [job EXCEPT ![w].pc = "save"]
  /\ UNCHANGED <<orderRow, group>>

(* group.save(): no guard, and no UPDATE if the status read is the target. *)
SaveGroup(w) ==
  /\ job[w].pc = "save"
  /\ IF job[w].target = job[w].read
       THEN UNCHANGED group
       ELSE group' = [group EXCEPT ![job[w].group] = job[w].target]
  /\ Finish(w)
  /\ UNCHANGED orderRow

Crash(w) ==
  /\ job[w].pc # "idle"
  /\ Finish(w)
  /\ UNCHANGED <<orderRow, group>>

-----------------------------------------------------------------------------
OrderMove ==
  \/ PlaceOrder
  \/ ConfirmOrder
  \/ MarkRefundRequired
  \/ \E s \in {"cancelled", "refund_required"} : CancelPending(s)
  \/ \E s \in Lifecycle!Status : RefundMove(s)

Call(w) ==
  \/ CloseCalled(w)
  \/ \E g \in Groups, s \in GroupStatus : AdminOverride(w, g, s)
  \/ \E g \in Groups, move \in ValidNext : VendorUpdate(w, g, move[2])

Proceed(w) == CloseRefunded(w) \/ OverrideChecked(w) \/ SaveGroup(w)

Next == OrderMove \/ \E w \in Workers : Call(w) \/ Proceed(w) \/ Crash(w)

Spec == Init /\ [][Next]_vars

(* A call that has begun goes on or dies.                                  *)
FairSpec == Spec /\ \A w \in Workers : WF_vars(Proceed(w))

-----------------------------------------------------------------------------
(* Every column keeps its type, and a call that goes on has its group.     *)
TypeOK ==
  /\ order \in Lifecycle!Status
  /\ paid \in BOOLEAN
  /\ confirmedOnce \in BOOLEAN
  /\ group \in [Groups -> GroupStatus \cup {"none"}]
  /\ job \in [Workers -> Job]
  /\ \A w \in Workers : job[w].pc \in {"check", "save"} => job[w].group \in Groups

(* The groups of an order that was never confirmed wait with it and are    *)
(* cancelled with it, calls that passed no check included: cancelPending's *)
(* and confirmOrder's WHERE status = 'pending' miss no group (comments at  *)
(* order-payment.service.ts:217-222 and :449-452).  This supposes that no  *)
(* admin overrides a group of an unpaid order (OverrideUnpaid).            *)
UnpaidGroupsFollow ==
  ~confirmedOnce =>
    \A g \in Groups :
      /\ order = "none" => group[g] = "none"
      /\ order = "pending_payment" => group[g] = "pending"
      /\ order \notin {"none", "pending_payment"} => group[g] = "cancelled"

(* No call that could still move a group of a locked order other than to   *)
(* cancelled.                                                              *)
Settled ==
  /\ order \in Locked
  /\ \A w \in Workers : job[w].pc = "save" => job[w].target = "cancelled"

(* Only calls that checked before the order was locked can ship or revive  *)
(* a group of it; once they are through, the groups of a refunded or       *)
(* cancelled order can only be cancelled, for ever.                        *)
SettledForGood ==
  [][Settled => Settled' /\ \A g \in Groups : group'[g] \in {group[g], "cancelled"}]_vars

(* And they get through: an order that is refunded or cancelled settles.   *)
LockedSettles == (order \in Locked) ~> Settled

(* Confirming, cancelling, refunding and closing, with their groups, keep  *)
(* to the order's lifecycle.                                               *)
ImplementsLifecycle == Lifecycle!LifecycleSpec
=============================================================================
