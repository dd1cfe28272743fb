------------------------- MODULE Fulfilment_proofs --------------------------
(***************************************************************************)
(* Proofs about Fulfilment, for any set of groups and of overlapping       *)
(* calls.  What a call is about to save while its order was never          *)
(* confirmed is the strengthening that UnpaidGroupsFollow needs.           *)
(***************************************************************************)
EXTENDS Fulfilment, TLAPS

(* The status sets, element by element.                                    *)
LEMMA Statuses ==
  /\ Lifecycle!Status = {"none", "pending_payment", "confirmed", "cancelled",
                         "refund_required", "refund_pending", "refunded"}
  /\ Lifecycle!RefundMoves = { <<"confirmed", "refund_pending">>,
                 <<"refund_required", "refund_pending">>,
                 <<"refund_pending", "refunded">>,
                 <<"refund_pending", "refund_required">> }
BY DEF Lifecycle!Status, Lifecycle!RefundMoves

(* A refund moves a confirmed or locked order, and locks it.               *)
LEMMA RefundMoveLocks ==
  ASSUME NEW s, <<order, s>> \in Lifecycle!RefundMoves
  PROVE  s \in Locked /\ order \in Locked \cup {"confirmed"}
BY Statuses DEF Locked

-----------------------------------------------------------------------------
LEMMA BeginTypes ==
  ASSUME job \in [Workers -> Job], group \in [Groups -> GroupStatus \cup {"none"}],
         NEW w \in Workers, NEW pc \in JobStep, NEW g \in Groups, NEW s \in GroupStatus,
         Begin(w, pc, g, s)
  PROVE  /\ job' \in [Workers -> Job]
         /\ job'[w].pc = pc /\ job'[w].group = g /\ job'[w].target = s
         /\ \A v \in Workers \ {w} : job'[v] = job[v]
BY DEF Begin, Job

LEMMA GotoTypes ==
  ASSUME job \in [Workers -> Job], NEW w \in Workers, NEW pc \in JobStep,
         job' = [job EXCEPT ![w].pc = pc]
  PROVE  /\ job' \in [Workers -> Job]
         /\ job'[w].pc = pc
         /\ job'[w].group = job[w].group /\ job'[w].target = job[w].target
         /\ \A v \in Workers \ {w} : job'[v] = job[v]
BY DEF Job

LEMMA FinishTypes ==
  ASSUME job \in [Workers -> Job], NEW w \in Workers, Finish(w)
  PROVE  /\ job' \in [Workers -> Job]
         /\ job'[w].pc = "idle"
         /\ \A v \in Workers \ {w} : job'[v] = job[v]
BY DEF Finish, NoJob, Job, JobStep, GroupStatus

LEMMA MoveGroupsTypes ==
  ASSUME group \in [Groups -> GroupStatus \cup {"none"}], NEW from, NEW to \in GroupStatus,
         MoveGroups(from, to)
  PROVE  /\ group' \in [Groups -> GroupStatus \cup {"none"}]
         /\ \A g \in Groups : group'[g] = IF group[g] \in from THEN to ELSE group[g]
BY DEF MoveGroups

(* The steps of the order's own transactions, which no call takes part in. *)
LEMMA OrderMoveTypes ==
  ASSUME TypeOK, OrderMove
  PROVE  TypeOK'
<1> USE Statuses DEF TypeOK
<1>1. CASE PlaceOrder
  BY <1>1 DEF PlaceOrder, GroupStatus
<1>2. CASE ConfirmOrder
  <2>1. "confirmed" \in GroupStatus  BY DEF GroupStatus
  <2> QED  BY <1>2, <2>1, MoveGroupsTypes DEF ConfirmOrder
<1>3. CASE MarkRefundRequired
  BY <1>3 DEF MarkRefundRequired
<1>4. ASSUME NEW s \in {"cancelled", "refund_required"}, CancelPending(s)
      PROVE  TypeOK'
  <2>1. "cancelled" \in GroupStatus  BY DEF GroupStatus
  <2> QED  BY <1>4, <2>1, MoveGroupsTypes DEF CancelPending
<1>5. ASSUME NEW s \in Lifecycle!Status, RefundMove(s)
      PROVE  TypeOK'
  BY <1>5 DEF RefundMove
<1> QED  BY <1>1, <1>2, <1>3, <1>4, <1>5 DEF OrderMove

LEMMA CallTypes ==
  ASSUME TypeOK, NEW w \in Workers, Call(w)
  PROVE  TypeOK'
<1> USE DEF TypeOK
<1>1. CASE CloseCalled(w)
  <2>1. "close" \in JobStep  BY DEF JobStep
  <2> QED  BY <1>1, <2>1, GotoTypes DEF CloseCalled, orderRow
<1>2. ASSUME NEW g \in Groups, NEW s \in GroupStatus, AdminOverride(w, g, s)
      PROVE  TypeOK'
  <2>1. "check" \in JobStep  BY DEF JobStep
  <2> QED  BY <1>2, <2>1, BeginTypes DEF AdminOverride, orderRow
<1>3. ASSUME NEW g \in Groups, NEW move \in ValidNext, VendorUpdate(w, g, move[2])
      PROVE  TypeOK'
  <2>1. "save" \in JobStep  BY DEF JobStep
  <2>2. move[2] \in GroupStatus  BY DEF ValidNext, GroupStatus
  <2> QED  BY <1>3, <2>1, <2>2, BeginTypes DEF VendorUpdate, orderRow
<1> QED  BY <1>1, <1>2, <1>3 DEF Call

LEMMA ProceedTypes ==
  ASSUME TypeOK, NEW w \in Workers, Proceed(w) \/ Crash(w)
  PROVE  TypeOK'
<1> USE DEF TypeOK
<1>1. CASE CloseRefunded(w)
  <2>1. "cancelled" \in GroupStatus  BY DEF GroupStatus
  <2> QED  BY <1>1, <2>1, MoveGroupsTypes, FinishTypes, Statuses DEF CloseRefunded
<1>2. CASE OverrideChecked(w)
  <2>1. "save" \in JobStep  BY DEF JobStep
  <2> QED  BY <1>2, <2>1, GotoTypes, FinishTypes DEF OverrideChecked, orderRow
<1>3. CASE SaveGroup(w)
  <2>1. job[w].target \in GroupStatus  BY DEF Job
  <2> QED  BY <1>3, <2>1, FinishTypes DEF SaveGroup, orderRow
<1>4. CASE Crash(w)
  BY <1>4, FinishTypes DEF Crash, orderRow
<1> QED  BY <1>1, <1>2, <1>3, <1>4 DEF Proceed

(* Every column and every call keeps its type.                             *)
THEOREM TypeAlwaysOK == Spec => []TypeOK
<1>1. Init => TypeOK
  <2>1. NoJob \in Job /\ NoJob.pc = "idle"
    BY DEF NoJob, Job, JobStep, GroupStatus
  <2>2. ASSUME Init PROVE job \in [Workers -> Job] /\ \A w \in Workers : job[w].pc = "idle"
    BY <2>1, <2>2 DEF Init
  <2>3. ASSUME Init PROVE /\ order \in Lifecycle!Status /\ paid \in BOOLEAN
                          /\ confirmedOnce \in BOOLEAN
                          /\ group \in [Groups -> GroupStatus \cup {"none"}]
    BY <2>3, Statuses DEF Init
  <2> QED  BY <2>2, <2>3 DEF TypeOK
<1>2. TypeOK /\ [Next]_vars => TypeOK'
  <2>1. CASE UNCHANGED vars
    BY <2>1 DEF vars, orderRow, TypeOK
  <2> QED  BY <2>1, OrderMoveTypes, CallTypes, ProceedTypes DEF Next
<1> QED  BY <1>1, <1>2, PTL DEF Spec

-----------------------------------------------------------------------------
(* While the order was never confirmed, no call can be about to move one   *)
(* of its groups unless to cancel it once the order is dead; and nobody    *)
(* calls about an order that does not exist.                               *)
UnpaidCallsFit ==
  ~confirmedOnce =>
    /\ order # "confirmed"
    /\ order = "none" => \A w \in Workers : job[w].pc = "idle"
    /\ \A w \in Workers : job[w].pc = "save" =>
         job[w].target = "cancelled" /\ order \in Locked

FollowInv == TypeOK /\ UnpaidCallsFit /\ UnpaidGroupsFollow

LEMMA OrderMoveFollows ==
  ASSUME FollowInv, OrderMove
  PROVE  UnpaidCallsFit' /\ UnpaidGroupsFollow'
<1> USE DEF FollowInv, UnpaidCallsFit, UnpaidGroupsFollow
<1>1. CASE PlaceOrder
  BY <1>1 DEF PlaceOrder, TypeOK, Locked
<1>2. CASE ConfirmOrder
  BY <1>2 DEF ConfirmOrder
<1>3. CASE MarkRefundRequired
  BY <1>3 DEF MarkRefundRequired, Locked
<1>4. ASSUME NEW s \in {"cancelled", "refund_required"}, CancelPending(s)
      PROVE  UnpaidCallsFit' /\ UnpaidGroupsFollow'
  <2>1. "cancelled" \in GroupStatus  BY DEF GroupStatus
  <2> QED  BY <1>4, <2>1, MoveGroupsTypes DEF CancelPending, Locked, TypeOK
<1>5. ASSUME NEW s \in Lifecycle!Status, RefundMove(s)
      PROVE  UnpaidCallsFit' /\ UnpaidGroupsFollow'
  BY <1>5, RefundMoveLocks DEF RefundMove, Locked
<1> QED  BY <1>1, <1>2, <1>3, <1>4, <1>5 DEF OrderMove

LEMMA CallFollows ==
  ASSUME FollowInv, NEW w \in Workers, Call(w)
  PROVE  UnpaidCallsFit' /\ UnpaidGroupsFollow'
<1> USE DEF FollowInv, UnpaidCallsFit, UnpaidGroupsFollow, TypeOK
<1>1. CASE CloseCalled(w)
  <2>1. "close" \in JobStep  BY DEF JobStep
  <2> QED  BY <1>1, <2>1, GotoTypes DEF CloseCalled, orderRow
<1>2. ASSUME NEW g \in Groups, NEW s \in GroupStatus, AdminOverride(w, g, s)
      PROVE  UnpaidCallsFit' /\ UnpaidGroupsFollow'
  <2>1. "check" \in JobStep  BY DEF JobStep
  <2> QED  BY <1>2, <2>1, BeginTypes DEF AdminOverride, orderRow
<1>3. ASSUME NEW g \in Groups, NEW move \in ValidNext, VendorUpdate(w, g, move[2])
      PROVE  UnpaidCallsFit' /\ UnpaidGroupsFollow'
  <2>1. order = "confirmed"
    BY <1>3, Statuses DEF VendorUpdate, Locked
  <2> QED  BY <1>3, <2>1 DEF VendorUpdate, orderRow
<1> QED  BY <1>1, <1>2, <1>3 DEF Call

LEMMA ProceedFollows ==
  ASSUME FollowInv, ~OverrideUnpaid, NEW w \in Workers, Proceed(w) \/ Crash(w)
  PROVE  UnpaidCallsFit' /\ UnpaidGroupsFollow'
<1> USE DEF FollowInv, UnpaidCallsFit, UnpaidGroupsFollow, TypeOK
<1>1. CASE CloseRefunded(w)
  <2>1. "cancelled" \in GroupStatus  BY DEF GroupStatus
  <2>2. CASE order = "refunded"
    BY <1>1, <2>1, <2>2, MoveGroupsTypes, FinishTypes DEF CloseRefunded, Locked, GroupStatus
  <2>3. CASE order # "refunded"
    BY <1>1, <2>3, FinishTypes DEF CloseRefunded
  <2> QED  BY <2>2, <2>3
<1>2. CASE OverrideChecked(w)
  <2>1. "save" \in JobStep  BY DEF JobStep
  <2>2. CASE order \in Locked /\ job[w].target # "cancelled"
    BY <1>2, <2>2, FinishTypes DEF OverrideChecked, orderRow
  <2>3. CASE ~(order \in Locked /\ job[w].target # "cancelled")
    <3>1. job' = [job EXCEPT ![w].pc = "save"] /\ UNCHANGED <<order, confirmedOnce, group>>
      BY <1>2, <2>3 DEF OverrideChecked, orderRow
    <3>2. order # "pending_payment"  BY <1>2 DEF OverrideChecked
    <3>3. ~confirmedOnce => order # "none"
      BY <1>2 DEF OverrideChecked
    <3>4. ~confirmedOnce => order \in Locked /\ job[w].target = "cancelled"
      BY <2>3, <3>2, <3>3, Statuses DEF Locked
    <3>5. UnpaidCallsFit'
      BY <2>1, <3>1, <3>3, <3>4, GotoTypes
    <3> QED  BY <3>1, <3>5
  <2> QED  BY <2>2, <2>3
<1>3. CASE SaveGroup(w)
  <2>1. CASE ~confirmedOnce
    <3>1. job[w].target = "cancelled" /\ order \in Locked  BY <1>3, <2>1 DEF SaveGroup
    <3>2. \A g \in Groups : group[g] = "cancelled"
      BY <2>1, <3>1 DEF Locked
    <3>3. group' = group
      BY <1>3, <3>1, <3>2 DEF SaveGroup
    <3> QED  BY <1>3, <2>1, <3>3, FinishTypes DEF SaveGroup, orderRow
  <2> QED  BY <1>3, <2>1 DEF SaveGroup, orderRow
<1>4. CASE Crash(w)
  BY <1>4, FinishTypes DEF Crash, orderRow
<1> QED  BY <1>1, <1>2, <1>3, <1>4 DEF Proceed

(* Without overrides of unpaid orders, the groups of an order that was     *)
(* never confirmed wait with it and are cancelled with it.                 *)
THEOREM UnpaidGroupsAlwaysFollow == ~OverrideUnpaid => (Spec => []UnpaidGroupsFollow)
<1> SUFFICES ASSUME ~OverrideUnpaid PROVE Spec => []UnpaidGroupsFollow
  OBVIOUS
<1>1. Init /\ TypeOK => FollowInv
  BY DEF Init, FollowInv, UnpaidCallsFit, UnpaidGroupsFollow, NoJob
<1>2. FollowInv /\ TypeOK' /\ [Next]_vars => FollowInv'
  <2>1. CASE UNCHANGED vars
    BY <2>1 DEF vars, orderRow, FollowInv, UnpaidCallsFit, UnpaidGroupsFollow
  <2> QED  BY <2>1, OrderMoveFollows, CallFollows, ProceedFollows DEF Next, FollowInv
<1>3. FollowInv => UnpaidGroupsFollow
  BY DEF FollowInv
<1> QED  BY <1>1, <1>2, <1>3, TypeAlwaysOK, PTL DEF Spec

-----------------------------------------------------------------------------
(* A locked order stays locked, and while it is locked only calls under    *)
(* way before can move its groups elsewhere than to cancelled.             *)
LEMMA StepSettles ==
  ASSUME TypeOK, Settled, Next
  PROVE  Settled' /\ \A g \in Groups : group'[g] \in {group[g], "cancelled"}
<1> USE DEF TypeOK, Settled
<1>c. "cancelled" \in GroupStatus  BY DEF GroupStatus
<1>1. CASE OrderMove
  <2>1. order \notin {"none", "pending_payment", "confirmed"}  BY DEF Locked
  <2>2. CASE MarkRefundRequired
    BY <2>2 DEF MarkRefundRequired, Locked
  <2>3. ASSUME NEW s \in Lifecycle!Status, RefundMove(s)
        PROVE  Settled' /\ \A g \in Groups : group'[g] \in {group[g], "cancelled"}
    BY <2>3, RefundMoveLocks DEF RefundMove
  <2> QED  BY <1>1, <2>1, <2>2, <2>3 DEF OrderMove, PlaceOrder, ConfirmOrder, CancelPending
<1>2. ASSUME NEW w \in Workers, Call(w)
      PROVE  Settled' /\ \A g \in Groups : group'[g] \in {group[g], "cancelled"}
  <2>1. CASE CloseCalled(w)
    <3>1. "close" \in JobStep  BY DEF JobStep
    <3> QED  BY <2>1, <3>1, GotoTypes DEF CloseCalled, orderRow
  <2>2. ASSUME NEW g \in Groups, NEW s \in GroupStatus, AdminOverride(w, g, s)
        PROVE  Settled' /\ \A h \in Groups : group'[h] \in {group[h], "cancelled"}
    <3>1. "check" \in JobStep  BY DEF JobStep
    <3> QED  BY <2>2, <3>1, BeginTypes DEF AdminOverride, orderRow
  <2>3. ASSUME NEW g \in Groups, NEW move \in ValidNext, VendorUpdate(w, g, move[2])
        PROVE  FALSE
    BY <2>3 DEF VendorUpdate
  <2> QED  BY <1>2, <2>1, <2>2, <2>3 DEF Call
<1>3. ASSUME NEW w \in Workers, Proceed(w) \/ Crash(w)
      PROVE  Settled' /\ \A g \in Groups : group'[g] \in {group[g], "cancelled"}
  <2>1. CASE CloseRefunded(w)
    BY <1>c, <2>1, MoveGroupsTypes, FinishTypes DEF CloseRefunded, Locked
  <2>2. CASE OverrideChecked(w)
    <3>1. "save" \in JobStep  BY DEF JobStep
    <3> QED  BY <2>2, <3>1, GotoTypes, FinishTypes DEF OverrideChecked, orderRow
  <2>3. CASE SaveGroup(w)
    BY <2>3, FinishTypes DEF SaveGroup, orderRow
  <2>4. CASE Crash(w)
    BY <2>4, FinishTypes DEF Crash, orderRow
  <2> QED  BY <1>3, <2>1, <2>2, <2>3, <2>4 DEF Proceed
<1> QED  BY <1>1, <1>2, <1>3 DEF Next

(* Once the calls that were under way are through, the groups of a         *)
(* refunded or cancelled order can only be cancelled, for ever.            *)
THEOREM SettledAlwaysForGood == Spec => SettledForGood
<1>1. TypeOK /\ [Next]_vars =>
        [Settled => Settled' /\ \A g \in Groups : group'[g] \in {group[g], "cancelled"}]_vars
  BY StepSettles
<1> QED  BY <1>1, TypeAlwaysOK, PTL DEF Spec, SettledForGood

-----------------------------------------------------------------------------
(* The calls that can still move a group of a locked order elsewhere than  *)
(* to cancelled.                                                           *)
Early == {w \in Workers : job[w].pc = "save" /\ job[w].target # "cancelled"}

(* A step on a locked order: one such call makes its one move and is       *)
(* through, or groups are at most cancelled.                               *)
EarlyOnly ==
  /\ order' \in Locked
  /\ Early' \subseteq Early
  /\ (\E g \in Groups : group'[g] \notin {group[g], "cancelled"}) =>
       \E w \in Early \ Early' :
         \A g \in Groups : group'[g] = IF g = job[w].group THEN job[w].target ELSE group[g]

LEMMA LockedStep ==
  ASSUME TypeOK, order \in Locked, Next
  PROVE  EarlyOnly
<1> USE DEF TypeOK
<1>c. "cancelled" \in GroupStatus  BY DEF GroupStatus
<1>1. CASE OrderMove
  <2>1. order \notin {"none", "pending_payment", "confirmed"}  BY DEF Locked
  <2>2. CASE MarkRefundRequired
    BY <2>2 DEF MarkRefundRequired, Locked, EarlyOnly, Early
  <2>3. ASSUME NEW s \in Lifecycle!Status, RefundMove(s)
        PROVE  EarlyOnly
    BY <2>3, RefundMoveLocks DEF RefundMove, EarlyOnly, Early
  <2> QED  BY <1>1, <2>1, <2>2, <2>3 DEF OrderMove, PlaceOrder, ConfirmOrder, CancelPending
<1>2. ASSUME NEW w \in Workers, Call(w)
      PROVE  EarlyOnly
  <2>1. CASE CloseCalled(w)
    <3>1. "close" \in JobStep  BY DEF JobStep
    <3>2. Early' \subseteq Early  BY <2>1, <3>1, GotoTypes DEF CloseCalled, Early
    <3> QED  BY <2>1, <3>2 DEF CloseCalled, orderRow, EarlyOnly
  <2>2. ASSUME NEW g \in Groups, NEW s \in GroupStatus, AdminOverride(w, g, s)
        PROVE  EarlyOnly
    <3>1. "check" \in JobStep  BY DEF JobStep
    <3>2. Early' \subseteq Early  BY <2>2, <3>1, BeginTypes DEF AdminOverride, Early
    <3> QED  BY <2>2, <3>2 DEF AdminOverride, orderRow, EarlyOnly
  <2>3. ASSUME NEW g \in Groups, NEW move \in ValidNext, VendorUpdate(w, g, move[2])
        PROVE  FALSE
    BY <2>3 DEF VendorUpdate
  <2> QED  BY <1>2, <2>1, <2>2, <2>3 DEF Call
<1>3. ASSUME NEW w \in Workers, Proceed(w) \/ Crash(w)
      PROVE  EarlyOnly
  <2>1. CASE CloseRefunded(w)
    <3>1. Early' \subseteq Early  BY <2>1, FinishTypes DEF CloseRefunded, Early
    <3>2. order' \in Locked /\ \A g \in Groups : group'[g] \in {group[g], "cancelled"}
      BY <1>c, <2>1, MoveGroupsTypes DEF CloseRefunded, Locked
    <3> QED  BY <3>1, <3>2 DEF EarlyOnly
  <2>2. CASE OverrideChecked(w)
    <3>1. "save" \in JobStep  BY DEF JobStep
    <3>2. Early' \subseteq Early
      <4>1. CASE job[w].target = "cancelled" /\ job' = [job EXCEPT ![w].pc = "save"]
        BY <3>1, <4>1, GotoTypes DEF Early
      <4>2. CASE Finish(w)
        BY <4>2, FinishTypes DEF Early
      <4> QED  BY <2>2, <4>1, <4>2 DEF OverrideChecked
    <3> QED  BY <2>2, <3>2 DEF OverrideChecked, orderRow, EarlyOnly
  <2>3. CASE SaveGroup(w)
    <3>1. Early' \subseteq Early \ {w}  BY <2>3, FinishTypes DEF SaveGroup, Early
    <3>2. order' = order /\ job[w].pc = "save" /\ job[w].group \in Groups
      BY <2>3 DEF SaveGroup, orderRow
    <3>3. CASE group' = group \/ job[w].target = "cancelled"
      BY <2>3, <3>1, <3>2, <3>3 DEF SaveGroup, EarlyOnly
    <3>4. CASE job[w].target # "cancelled"
               /\ group' = [group EXCEPT ![job[w].group] = job[w].target]
      <4>1. w \in Early \ Early'  BY <3>1, <3>2, <3>4 DEF Early
      <4>2. \A g \in Groups : group'[g] = IF g = job[w].group THEN job[w].target ELSE group[g]
        BY <3>2, <3>4
      <4> QED  BY <3>1, <3>2, <4>1, <4>2 DEF EarlyOnly
    <3> QED  BY <2>3, <3>3, <3>4 DEF SaveGroup
  <2>4. CASE Crash(w)
    <3>1. Early' \subseteq Early  BY <2>4, FinishTypes DEF Crash, Early
    <3> QED  BY <2>4, <3>1 DEF Crash, orderRow, EarlyOnly
  <2> QED  BY <1>3, <2>1, <2>2, <2>3, <2>4 DEF Proceed
<1> QED  BY <1>1, <1>2, <1>3 DEF Next

(* A refunded or cancelled order is never unlocked, no new call gets past  *)
(* its lock, and every group shipped, delivered or revived under it uses   *)
(* up one of the calls that had checked before: there are at most as many  *)
(* as there were calls, and overrides of unpaid orders make no difference. *)
THEOREM OnlyEarlyCallsRemain == Spec => [][(order \in Locked) => EarlyOnly]_vars
<1>1. TypeOK /\ [Next]_vars => [(order \in Locked) => EarlyOnly]_vars
  BY LockedStep
<1> QED  BY <1>1, TypeAlwaysOK, PTL DEF Spec

-----------------------------------------------------------------------------
(* A payment is recorded only on an order that has been paid or cancelled. *)
UnpaidPending == order \in {"none", "pending_payment"} => ~paid

LEMMA PendingAlwaysUnpaid == Spec => []UnpaidPending
<1>1. Init => UnpaidPending
  BY DEF Init, UnpaidPending
<1>2. TypeOK /\ UnpaidPending /\ [Next]_vars => UnpaidPending'
  <2>1. ASSUME UnpaidPending, OrderMove PROVE UnpaidPending'
    BY <2>1, RefundMoveLocks DEF UnpaidPending, OrderMove, PlaceOrder, ConfirmOrder,
       CancelPending, MarkRefundRequired, RefundMove, Locked
  <2>2. ASSUME UnpaidPending, NEW w \in Workers, Call(w) \/ Proceed(w) \/ Crash(w)
        PROVE  UnpaidPending'
    BY <2>2 DEF UnpaidPending, Call, Proceed, CloseCalled, CloseRefunded, VendorUpdate,
       AdminOverride, OverrideChecked, SaveGroup, Crash, orderRow
  <2>3. UNCHANGED vars => UNCHANGED UnpaidPending
    BY DEF vars, orderRow, UnpaidPending
  <2> QED  BY <2>1, <2>2, <2>3 DEF Next
<1> QED  BY <1>1, <1>2, TypeAlwaysOK, PTL DEF Spec

(* The order's side alone: its transactions are moves of OrderLifecycle.   *)
LEMMA OrderMoveImplements ==
  ASSUME TypeOK, UnpaidPending, OrderMove
  PROVE  Lifecycle!LifecycleNext
<1>o. Order \in {Order} /\ Payment \in {Payment}  OBVIOUS
<1>1. CASE PlaceOrder
  <2>1. Lifecycle!Place(Order)
    BY <1>1 DEF PlaceOrder, Lifecycle!Place, Lifecycle!SetStatus, Lifecycle!Hold
  <2> QED  BY <1>o, <2>1 DEF Lifecycle!LifecycleNext
<1>2. CASE ConfirmOrder
  <2>1. Lifecycle!Confirm(Order, Payment)
    BY <1>2 DEF ConfirmOrder, Lifecycle!Confirm, Lifecycle!SetStatus, Lifecycle!SetPayment,
                Lifecycle!Unhold
  <2> QED  BY <1>o, <2>1 DEF Lifecycle!LifecycleNext
<1>3. CASE MarkRefundRequired
  <2>1. Lifecycle!OweCancelled(Order, Payment)
    BY <1>3 DEF MarkRefundRequired, Lifecycle!OweCancelled, Lifecycle!SetStatus,
                Lifecycle!SetPayment
  <2> QED  BY <1>o, <2>1 DEF Lifecycle!LifecycleNext
<1>4. CASE CancelPending("cancelled")
  <2>1. CASE ~paid
    <3>1. Lifecycle!Cancel(Order)
      BY <1>4, <2>1 DEF CancelPending, Lifecycle!Cancel, Lifecycle!SetStatus, Lifecycle!Unhold
    <3> QED  BY <1>o, <3>1 DEF Lifecycle!LifecycleNext
  <2> QED  BY <1>4, <2>1 DEF CancelPending, UnpaidPending
<1>5. CASE CancelPending("refund_required")
  <2>1. Lifecycle!OwePending(Order, Payment)
    BY <1>5 DEF CancelPending, Lifecycle!OwePending, Lifecycle!SetStatus,
                Lifecycle!SetPayment, Lifecycle!Unhold
  <2> QED  BY <1>o, <2>1 DEF Lifecycle!LifecycleNext
<1>6. ASSUME NEW s \in Lifecycle!Status, RefundMove(s)
      PROVE  Lifecycle!LifecycleNext
  <2>1. Lifecycle!RefundMove(Order, s)
    BY <1>6 DEF RefundMove, Lifecycle!RefundMove, Lifecycle!SetStatus
  <2> QED  BY <1>o, <2>1 DEF Lifecycle!LifecycleNext
<1> QED  BY <1>1, <1>2, <1>3, <1>4, <1>5, <1>6 DEF OrderMove

LEMMA CallImplements ==
  ASSUME TypeOK, NEW w \in Workers, Call(w) \/ Proceed(w) \/ Crash(w)
  PROVE  Lifecycle!LifecycleNext \/ UNCHANGED orderRow
<1>1. CASE CloseRefunded(w)
  <2>1. CASE order = "refunded"
    <3>1. Lifecycle!Close(Order)
      BY <1>1, <2>1 DEF CloseRefunded, Lifecycle!Close, Lifecycle!SetStatus
    <3> QED  BY <3>1 DEF Lifecycle!LifecycleNext
  <2>2. CASE order # "refunded"
    BY <1>1, <2>2 DEF CloseRefunded, orderRow
  <2> QED  BY <2>1, <2>2
<1> QED  BY <1>1 DEF Call, Proceed, CloseCalled, VendorUpdate, AdminOverride,
                     OverrideChecked, SaveGroup, Crash

(* Confirming, cancelling, refunding and closing an order with its groups  *)
(* are moves of OrderLifecycle, whatever its vendors and admins do.        *)
THEOREM LifecycleImplemented == Spec => ImplementsLifecycle
<1>1. Init => Lifecycle!LifecycleInit
  BY DEF Init, Lifecycle!LifecycleInit
<1>2. TypeOK /\ UnpaidPending /\ [Next]_vars => [Lifecycle!LifecycleNext]_(Lifecycle!lifecycleVars)
  <2>1. UNCHANGED orderRow => UNCHANGED Lifecycle!lifecycleVars
    BY DEF orderRow, Lifecycle!lifecycleVars
  <2>2. UNCHANGED vars => UNCHANGED orderRow
    BY DEF vars
  <2> QED  BY <2>1, <2>2, OrderMoveImplements, CallImplements DEF Next
<1> QED  BY <1>1, <1>2, TypeAlwaysOK, PendingAlwaysUnpaid, PTL DEF Spec, ImplementsLifecycle,
            Lifecycle!LifecycleSpec
=============================================================================
