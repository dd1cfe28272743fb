------------------------- MODULE ProductMedia_proofs ------------------------
(***************************************************************************)
(* Proofs about ProductMedia, for any images, calls and invocations.       *)
(***************************************************************************)
EXTENDS ProductMedia, TLAPS

USE MediaAssumption

LEMMA PositionsAreNat == Positions \subseteq Nat
BY DEF Positions

LEMMA KeyTypes ==
  /\ \A m \in Media : Original(m) \in Key /\ Variants(m) \in Key /\ KeysOf(m) \subseteq Key
  /\ \A m, n \in Media : Original(m) # Variants(n)
  /\ \A m, n \in Media : (Original(m) = Original(n) \/ Variants(m) = Variants(n)) => m = n
  /\ \A k \in Key : k.media \in Media /\ k \in KeysOf(k.media)
  /\ \A m \in Media : Original(m).media = m /\ Variants(m).media = m
  /\ \A m \in Media : \A k \in KeysOf(m) : k.media = m
BY DEF Original, Variants, Key, KeysOf

-----------------------------------------------------------------------------
(* What moving a call, an invocation or the sweep does to its record.      *)
CallTyped ==
  /\ call \in [Workers -> Call]
  /\ \A w \in Workers : call[w].pc # "idle" => call[w].media \in Media

InvocationTyped ==
  /\ invocation \in [Invocations -> Invocation]
  /\ \A i \in Invocations : invocation[i].pc # "idle" => invocation[i].media \in Media

LEMMA GotoTypes ==
  ASSUME CallTyped, NEW w \in Workers, NEW m \in Media,
         NEW pc \in {"verify", "insert", "cleanup", "flip", "copy", "fail"}, Goto(w, pc, m)
  PROVE  /\ CallTyped'
         /\ call'[w].pc = pc /\ call'[w].media = m
         /\ \A v \in Workers : v # w => call'[v] = call[v]
BY DEF CallTyped, Goto, Call

LEMMA FinishTypes ==
  ASSUME CallTyped, NEW w \in Workers, Finish(w)
  PROVE  /\ CallTyped'
         /\ call'[w].pc = "idle"
         /\ \A v \in Workers : v # w => call'[v] = call[v]
BY DEF CallTyped, Finish, Goto, Call

LEMMA InvocationAtTypes ==
  ASSUME InvocationTyped, NEW i \in Invocations, NEW pc \in {"get", "put", "ready", "failed", "count", "retry"},
         invocation[i].pc # "idle", InvocationAt(i, pc)
  PROVE  /\ InvocationTyped'
         /\ invocation'[i].pc = pc /\ invocation'[i].media = invocation[i].media
         /\ \A j \in Invocations : j # i => invocation'[j] = invocation[j]
BY DEF InvocationTyped, InvocationAt, Invocation

LEMMA EndedTypes ==
  ASSUME InvocationTyped, NEW i \in Invocations, Ended(i)
  PROVE  /\ InvocationTyped'
         /\ invocation'[i].pc = "idle"
         /\ \A j \in Invocations : j # i => invocation'[j] = invocation[j]
BY DEF InvocationTyped, Ended, NoInvocation, Invocation

LEMMA TriggerTypes ==
  ASSUME InvocationTyped, NEW m \in Media, Trigger(m)
  PROVE  /\ InvocationTyped'
         /\ \A j \in Invocations : invocation'[j].pc # "get" => invocation'[j] = invocation[j]
<1>1. PICK i \in Invocations :
        invocation' = [invocation EXCEPT ![i] = [pc |-> "get", media |-> m, tries |-> 1]]
  BY DEF Trigger
<1>2. [pc |-> "get", media |-> m, tries |-> 1] \in Invocation
  BY DEF Invocation
<1> QED  BY <1>1, <1>2 DEF InvocationTyped

LEMMA RetryTypes ==
  ASSUME InvocationTyped, NEW i \in Invocations, Retry(i)
  PROVE  /\ InvocationTyped'
         /\ \A j \in Invocations : invocation'[j].pc # "get" => invocation'[j] = invocation[j]
<1>1. /\ invocation[i].pc = "retry" /\ invocation[i].tries < MaxTries
      /\ invocation' = [invocation EXCEPT ![i].pc = "get", ![i].tries = @ + 1]
  BY DEF Retry
<1>2. invocation[i].tries + 1 \in 0..MaxTries /\ invocation[i].media \in Media
  BY <1>1 DEF InvocationTyped, Invocation
<1> QED  BY <1>1, <1>2 DEF InvocationTyped, Invocation

(* The rows' columns.                                                      *)
RowsTyped ==
  /\ status \in [Media -> {"none", "processing", "ready", "failed"}]
  /\ primary \subseteq Media
  /\ order \in [Media -> Nat]
  /\ timedOut \subseteq {m \in Media : status[m] = "processing"}

RowMoves(m, s) ==
  /\ status' = [status EXCEPT ![m] = s]
  /\ timedOut' \subseteq timedOut \ {m}

LEMMA RowMovesTypes ==
  ASSUME RowsTyped, NEW m \in Media, NEW s \in {"none", "processing", "ready", "failed"},
         RowMoves(m, s)
  PROVE  /\ status' \in [Media -> {"none", "processing", "ready", "failed"}]
         /\ timedOut' \subseteq {n \in Media : status'[n] = "processing"}
         /\ status'[m] = s
         /\ \A n \in Media : n # m => status'[n] = status[n]
BY DEF RowsTyped, RowMoves

LEMMA SetStatusTypes ==
  ASSUME RowsTyped, NEW m \in Media, NEW s \in {"none", "processing", "ready", "failed"},
         SetStatus(m, s)
  PROVE  /\ status' \in [Media -> {"none", "processing", "ready", "failed"}]
         /\ timedOut' \subseteq {n \in Media : status'[n] = "processing"}
         /\ status'[m] = s
         /\ \A n \in Media : n # m => status'[n] = status[n]
<1>1. RowMoves(m, s)  BY DEF SetStatus, Touch, RowMoves
<1> QED  BY <1>1, RowMovesTypes

(* Confirming and removing also write the rows whose is_primary changes.   *)
LEMMA WholeRowMoves ==
  ASSUME NEW m \in Media
  PROVE  /\ \A b \in BOOLEAN : InsertRow(m, b) => RowMoves(m, "processing")
         /\ \A w \in Workers : Remove(w, m) => RowMoves(m, "none")
BY DEF InsertRow, Remove, RowMoves, Touch

BucketTyped ==
  /\ objects \subseteq Key
  /\ aged \subseteq objects

LEMMA StoreTypes ==
  ASSUME BucketTyped, NEW k \in Key, Store(k)
  PROVE  BucketTyped'
BY DEF BucketTyped, Store

LEMMA EraseTypes ==
  ASSUME BucketTyped, NEW keys, Erase(keys)
  PROVE  BucketTyped'
BY DEF BucketTyped, Erase

RestTyped ==
  /\ ticket \in [Media -> {"none", "open", "expired"}]
  /\ removed \subseteq Media
  /\ sweep \in [pc : {"idle", "lookup", "delete"}, keys : SUBSET Key]
  /\ faults \in 0..MaxFaults

LEMMA TypeParts == TypeOK <=> RowsTyped /\ BucketTyped /\ CallTyped /\ InvocationTyped /\ RestTyped
BY DEF TypeOK, RowsTyped, BucketTyped, CallTyped, InvocationTyped, RestTyped

LEMMA TypePartsNext ==
  RowsTyped' /\ BucketTyped' /\ CallTyped' /\ InvocationTyped' /\ RestTyped' => TypeOK'
BY DEF TypeOK, RowsTyped, BucketTyped, CallTyped, InvocationTyped, RestTyped

-----------------------------------------------------------------------------
(* Each action keeps the types.                                            *)
LEMMA OutsideTypes ==
  ASSUME TypeOK, NEW m \in Media,
         CreateUpload(m) \/ Upload(m) \/ Expire(m) \/ MakePrimary(m) \/ TimeOut(m) \/ Age(m)
  PROVE  TypeOK'
<1> USE TypeParts
<1>1. CASE CreateUpload(m) \/ Expire(m)
  BY <1>1, TypePartsNext DEF CreateUpload, Expire, RowsTyped, BucketTyped, CallTyped,
     InvocationTyped, RestTyped, rowVars, bucketVars
<1>2. CASE Upload(m)
  <2>1. InvocationTyped'  BY <1>2, TriggerTypes DEF Upload
  <2>2. BucketTyped'  BY <1>2, StoreTypes, KeyTypes DEF Upload
  <2> QED  BY <1>2, <2>1, <2>2, TypePartsNext DEF Upload, RowsTyped, CallTyped, RestTyped, rowVars
<1>3. CASE MakePrimary(m) \/ TimeOut(m)
  BY <1>3, TypePartsNext DEF MakePrimary, TimeOut, Touch, RowsTyped, BucketTyped, CallTyped,
     InvocationTyped, RestTyped, bucketVars, Rows
<1>4. CASE Age(m)
  <2>1. CallTyped'
    <3>1. Idle \in Call  BY DEF Idle, Call
    <3> QED  BY <1>4, <3>1 DEF Age, CallTyped, Idle
  <2>2. BucketTyped'
    BY <1>4 DEF Age, BucketTyped
  <2> QED
    BY <1>4, <2>1, <2>2, TypePartsNext DEF Age, RowsTyped, InvocationTyped, RestTyped, rowVars
<1> QED  BY <1>1, <1>2, <1>3, <1>4

LEMMA ReorderTypes ==
  ASSUME TypeOK, NEW f \in [Media -> Positions], Reorder(f)
  PROVE  TypeOK'
<1> USE TypeParts
<1>1. order' \in [Media -> Nat]
  BY PositionsAreNat DEF Reorder, RowsTyped
<1> QED
  BY <1>1, TypePartsNext DEF Reorder, Touch, RowsTyped, BucketTyped, CallTyped, InvocationTyped,
     RestTyped, bucketVars

LEMMA BeginTypes ==
  ASSUME TypeOK, NEW w \in Workers, NEW m \in Media, Begin(w, m)
  PROVE  TypeOK'
<1> USE TypeParts
<1>1. CASE ConfirmCalled(w, m) \/ ReprocessCalled(w, m)
  <2>1. CallTyped'  BY <1>1, GotoTypes DEF ConfirmCalled, ReprocessCalled
  <2> QED
    BY <1>1, <2>1, TypePartsNext DEF ConfirmCalled, ReprocessCalled, RowsTyped, BucketTyped,
       InvocationTyped, RestTyped, rowVars, bucketVars
<1>2. CASE Remove(w, m)
  <2>1. CallTyped'
    <3>1. UNCHANGED call \/ Goto(w, "cleanup", m)  BY <1>2 DEF Remove
    <3> QED  BY <3>1, GotoTypes DEF CallTyped
  <2>2. RowsTyped'
    <3>1. order' \in [Media -> Nat] /\ RowMoves(m, "none")
      BY <1>2, WholeRowMoves DEF Remove, RowsTyped
    <3>2. primary' \subseteq Media
      BY <1>2 DEF Remove, Promotions, RowsTyped, Rows
    <3> QED  BY <3>1, <3>2, RowMovesTypes DEF RowsTyped
  <2> QED
    BY <1>2, <2>1, <2>2, TypePartsNext DEF Remove, BucketTyped, InvocationTyped, RestTyped, bucketVars
<1> QED  BY <1>1, <1>2 DEF Begin

LEMMA ConfirmTypes ==
  ASSUME TypeOK, NEW w \in Workers,
         ConfirmVerified(w) \/ \E b \in BOOLEAN : ConfirmInserted(w, b)
  PROVE  TypeOK'
<1> USE TypeParts
<1>1. CASE ConfirmVerified(w)
  <2>1. call[w].media \in Media  BY <1>1 DEF ConfirmVerified, CallTyped
  <2>2. CallTyped' /\ BucketTyped'
    BY <1>1, <2>1, GotoTypes, FinishTypes, EraseTypes DEF ConfirmVerified, BucketTyped, bucketVars
  <2> QED
    BY <1>1, <2>2, TypePartsNext DEF ConfirmVerified, RowsTyped, InvocationTyped, RestTyped, rowVars
<1>2. ASSUME NEW b \in BOOLEAN, ConfirmInserted(w, b)
      PROVE  TypeOK'
  <2> DEFINE m == call[w].media
  <2>1. m \in Media  BY <1>2 DEF ConfirmInserted, CallTyped
  <2>2. CallTyped'  BY <1>2, FinishTypes DEF ConfirmInserted
  <2>3. ASSUME InsertRow(m, b)
        PROVE  RowsTyped'
    <3>1. RowMoves(m, "processing")  BY <2>1, <2>3, WholeRowMoves
    <3>2. primary' \subseteq Media  BY <2>1, <2>3 DEF InsertRow, RowsTyped
    <3>3. NextOrder \subseteq Nat  BY DEF NextOrder, RowsTyped, Rows
    <3>4. order' \in [Media -> Nat]  BY <2>1, <2>3, <3>3 DEF InsertRow, RowsTyped
    <3> QED  BY <2>1, <3>1, <3>2, <3>4, RowMovesTypes DEF RowsTyped
  <2>4. RowsTyped'
    <3>1. InsertRow(m, b) \/ UNCHANGED rowVars  BY <1>2 DEF ConfirmInserted
    <3> QED  BY <3>1, <2>3 DEF RowsTyped, rowVars
  <2> QED
    BY <1>2, <2>2, <2>4, TypePartsNext DEF ConfirmInserted, BucketTyped, InvocationTyped,
       RestTyped, bucketVars
<1> QED  BY <1>1, <1>2

LEMMA ProceedTypes ==
  ASSUME TypeOK, NEW w \in Workers, Proceed(w) \/ CallFails(w)
  PROVE  TypeOK'
<1> USE TypeParts
<1> DEFINE m == call[w].media
<1>m. call[w].pc # "idle" => m \in Media  BY DEF CallTyped
<1>1. CASE Cleanup(w)
  BY <1>1, FinishTypes, EraseTypes, TypePartsNext DEF Cleanup, RowsTyped, InvocationTyped,
     RestTyped, rowVars
<1>2. CASE CallFails(w)
  <2>1. faults' \in 0..MaxFaults  BY <1>2 DEF CallFails, RestTyped
  <2> QED
    BY <1>2, <2>1, FinishTypes, TypePartsNext DEF CallFails, RowsTyped, BucketTyped,
       InvocationTyped, RestTyped, rowVars, bucketVars
<1>3. CASE CopyInPlace(w)
  <2>1. CallTyped'  BY <1>3, FinishTypes DEF CopyInPlace
  <2>2. m \in Media  BY <1>3, <1>m DEF CopyInPlace
  <2>3. InvocationTyped' /\ BucketTyped'
    BY <1>3, <2>2, TriggerTypes, StoreTypes, KeyTypes DEF CopyInPlace
  <2> QED  BY <1>3, <2>1, <2>3, TypePartsNext DEF CopyInPlace, RowsTyped, RestTyped, rowVars
<1>4. CASE CopyFailed(w)
  <2>1. m \in Media /\ Goto(w, "fail", m)  BY <1>4, <1>m DEF CopyFailed
  <2>2. CallTyped'  BY <2>1, GotoTypes
  <2>3. faults' \in 0..MaxFaults  BY <1>4 DEF CopyFailed, RestTyped
  <2> QED
    BY <1>4, <2>2, <2>3, TypePartsNext DEF CopyFailed, RowsTyped, BucketTyped, InvocationTyped,
       RestTyped, rowVars, bucketVars
<1>5. CASE Flip(w)
  <2>1. m \in Media /\ Goto(w, "copy", m) /\ UpdateIfThere(m, "processing")
    BY <1>5, <1>m DEF Flip
  <2>2. CallTyped'  BY <2>1, GotoTypes
  <2>3. RowsTyped'
    <3>1. UNCHANGED <<primary, order>>  BY <1>5 DEF Flip
    <3> QED  BY <2>1, <3>1, SetStatusTypes DEF UpdateIfThere, RowsTyped
  <2> QED
    BY <1>5, <2>2, <2>3, TypePartsNext DEF Flip, BucketTyped, InvocationTyped, RestTyped, bucketVars
<1>6. CASE RecordFailure(w)
  <2>1. m \in Media /\ UpdateIfThere(m, "failed")  BY <1>6, <1>m DEF RecordFailure
  <2>2. CallTyped'  BY <1>6, FinishTypes DEF RecordFailure
  <2>3. RowsTyped'
    <3>1. UNCHANGED <<primary, order>>  BY <1>6 DEF RecordFailure
    <3> QED  BY <2>1, <3>1, SetStatusTypes DEF UpdateIfThere, RowsTyped
  <2> QED
    BY <1>6, <2>2, <2>3, TypePartsNext DEF RecordFailure, BucketTyped, InvocationTyped, RestTyped,
       bucketVars
<1> QED  BY <1>1, <1>2, <1>3, <1>4, <1>5, <1>6, ConfirmTypes DEF Proceed

LEMMA LambdaTypes ==
  ASSUME TypeOK, NEW i \in Invocations, Lambda(i) \/ InvocationFails(i)
  PROVE  TypeOK'
<1> USE TypeParts
<1> DEFINE m == invocation[i].media
<1>m. invocation[i].pc # "idle" => m \in Media  BY DEF InvocationTyped
<1>1. CASE Got(i)
  <2>1. InvocationTyped'  BY <1>1, EndedTypes, InvocationAtTypes DEF Got
  <2> QED
    BY <1>1, <2>1, TypePartsNext DEF Got, RowsTyped, BucketTyped, CallTyped, RestTyped, rowVars,
       bucketVars
<1>2. CASE PutVariants(i)
  <2>1. InvocationTyped'  BY <1>2, InvocationAtTypes DEF PutVariants
  <2>2. BucketTyped'  BY <1>2, <1>m, StoreTypes, KeyTypes DEF PutVariants
  <2> QED
    BY <1>2, <2>1, <2>2, TypePartsNext DEF PutVariants, RowsTyped, CallTyped, RestTyped, rowVars
<1>3. CASE ApplyProcessingResult(i)
  <2>1. InvocationTyped'
    BY <1>3, EndedTypes, InvocationAtTypes DEF ApplyProcessingResult
  <2>2. RowsTyped'
    <3>1. /\ SetStatus(m, invocation[i].pc) \/ UNCHANGED <<status, timedOut>>
          /\ UNCHANGED <<primary, order>>
          /\ invocation[i].pc \in {"ready", "failed"}
      BY <1>3 DEF ApplyProcessingResult
    <3> QED  BY <3>1, <1>m, SetStatusTypes DEF RowsTyped
  <2> QED
    BY <1>3, <2>1, <2>2, TypePartsNext DEF ApplyProcessingResult, BucketTyped, CallTyped,
       RestTyped, bucketVars
<1>7. CASE Counted(i)
  <2>1. InvocationTyped'  BY <1>7, EndedTypes, InvocationAtTypes DEF Counted
  <2> QED
    BY <1>7, <2>1, TypePartsNext DEF Counted, RowsTyped, BucketTyped, CallTyped, RestTyped,
       rowVars, bucketVars
<1>4. CASE Retry(i)
  <2>1. InvocationTyped'  BY <1>4, RetryTypes
  <2> QED
    BY <1>4, <2>1, TypePartsNext DEF Retry, RowsTyped, BucketTyped, CallTyped, RestTyped, rowVars,
       bucketVars
<1>5. CASE GiveUp(i)
  <2>1. InvocationTyped'  BY <1>5, EndedTypes DEF GiveUp
  <2> QED
    BY <1>5, <2>1, TypePartsNext DEF GiveUp, RowsTyped, BucketTyped, CallTyped, RestTyped,
       rowVars, bucketVars
<1>6. CASE InvocationFails(i)
  <2>1. InvocationTyped'  BY <1>6, InvocationAtTypes DEF InvocationFails
  <2>2. faults' \in 0..MaxFaults  BY <1>6 DEF InvocationFails, RestTyped
  <2> QED
    BY <1>6, <2>1, <2>2, TypePartsNext DEF InvocationFails, RowsTyped, BucketTyped, CallTyped,
       RestTyped, rowVars, bucketVars
<1> QED  BY <1>1, <1>2, <1>3, <1>4, <1>5, <1>6, <1>7 DEF Lambda

LEMMA SweepTypes ==
  ASSUME TypeOK, Sweep \/ SweepDies
  PROVE  TypeOK'
<1> USE TypeParts
<1>1. sweep' \in [pc : {"idle", "lookup", "delete"}, keys : SUBSET Key]
  BY DEF Sweep, SweepDies, Listed, LookedUp, Swept, SweepGoto, RestTyped, BucketTyped
<1>2. BucketTyped'
  BY EraseTypes DEF Sweep, SweepDies, Listed, LookedUp, Swept, BucketTyped, bucketVars
<1>3. faults' \in 0..MaxFaults
  BY DEF Sweep, SweepDies, Listed, LookedUp, Swept, RestTyped
<1> QED
  BY <1>1, <1>2, <1>3, TypePartsNext DEF Sweep, SweepDies, Listed, LookedUp, Swept, RowsTyped,
     CallTyped, InvocationTyped, RestTyped, rowVars, bucketVars

LEMMA InitTypes == Init => TypeOK
<1> SUFFICES ASSUME Init PROVE TypeOK  OBVIOUS
<1>1. RowsTyped
  BY PositionsAreNat DEF Init, RowsTyped
<1>2. CallTyped
  BY DEF Init, CallTyped, Idle, Call
<1>3. InvocationTyped
  BY DEF Init, InvocationTyped, NoInvocation, Invocation
<1>4. BucketTyped /\ RestTyped
  BY DEF Init, BucketTyped, RestTyped, IdleSweep
<1> QED  BY <1>1, <1>2, <1>3, <1>4, TypeParts

LEMMA NextTypes == ASSUME TypeOK, [Next]_vars PROVE TypeOK'
<1>1. CASE UNCHANGED vars
  BY <1>1 DEF vars, rowVars, bucketVars, TypeOK
<1> QED
  BY <1>1, OutsideTypes, ReorderTypes, BeginTypes, ProceedTypes, LambdaTypes, SweepTypes DEF Next

(* Every column, object and step keeps its type.                           *)
THEOREM TypeAlwaysOK == Spec => []TypeOK
<1>1. TypeOK /\ [Next]_vars => TypeOK'  BY NextTypes
<1> QED  BY <1>1, InitTypes, PTL DEF Spec

-----------------------------------------------------------------------------
(* The product's gallery.  Which steps leave its rows alone?               *)
LEMMA StatusKeepsRows ==
  ASSUME RowsTyped, NEW m \in Media, NEW s \in {"processing", "ready", "failed"}, m \in Rows,
         SetStatus(m, s)
  PROVE  Rows' = Rows
BY SetStatusTypes DEF Rows

(* Every step but the insertion and removal of a row and the writes of     *)
(* primary and order.                                                      *)
Elsewhere ==
  \/ \E m \in Media : CreateUpload(m) \/ Upload(m) \/ Expire(m) \/ TimeOut(m) \/ Age(m)
  \/ \E w \in Workers : \/ \E m \in Media : ConfirmCalled(w, m) \/ ReprocessCalled(w, m)
                        \/ ConfirmVerified(w)
                        \/ Cleanup(w)
                        \/ Flip(w)
                        \/ CopyInPlace(w)
                        \/ CopyFailed(w)
                        \/ RecordFailure(w)
                        \/ CallFails(w)
  \/ \E i \in Invocations : Lambda(i) \/ InvocationFails(i)
  \/ Sweep
  \/ SweepDies

LEMMA Steps ==
  ASSUME Next
  PROVE  \/ Elsewhere
         \/ \E m \in Media : MakePrimary(m)
         \/ \E f \in [Media -> Positions] : Reorder(f)
         \/ \E w \in Workers : \/ \E b \in BOOLEAN : ConfirmInserted(w, b)
                               \/ \E m \in Media : Remove(w, m)
BY DEF Next, Begin, Proceed, Elsewhere

LEMMA ElsewhereKeepsRows ==
  ASSUME TypeOK, Elsewhere
  PROVE  Rows' = Rows /\ UNCHANGED <<primary, order>>
<1>r. RowsTyped /\ CallTyped /\ InvocationTyped  BY TypeParts
<1>1. ASSUME NEW m \in Media,
             CreateUpload(m) \/ Upload(m) \/ Expire(m) \/ TimeOut(m) \/ Age(m)
      PROVE  Rows' = Rows /\ UNCHANGED <<primary, order>>
  BY <1>1 DEF CreateUpload, Upload, Expire, TimeOut, Age, Rows, rowVars
<1>2. ASSUME NEW w \in Workers, Flip(w) \/ RecordFailure(w)
      PROVE  Rows' = Rows /\ UNCHANGED <<primary, order>>
  <2>1. /\ call[w].media \in Media
        /\ \E s \in {"processing", "failed"} : UpdateIfThere(call[w].media, s)
        /\ UNCHANGED <<primary, order>>
    BY <1>r, <1>2 DEF Flip, RecordFailure, CallTyped
  <2> QED  BY <1>r, <2>1, StatusKeepsRows DEF UpdateIfThere, Rows
<1>3. ASSUME NEW w \in Workers,
             \/ \E m \in Media : ConfirmCalled(w, m) \/ ReprocessCalled(w, m)
             \/ ConfirmVerified(w) \/ Cleanup(w) \/ CopyInPlace(w) \/ CopyFailed(w) \/ CallFails(w)
      PROVE  Rows' = Rows /\ UNCHANGED <<primary, order>>
  BY <1>3 DEF ConfirmCalled, ReprocessCalled, ConfirmVerified, Cleanup, CopyInPlace, CopyFailed,
     CallFails, Rows, rowVars
<1>4. ASSUME NEW i \in Invocations, ApplyProcessingResult(i)
      PROVE  Rows' = Rows /\ UNCHANGED <<primary, order>>
  <2> DEFINE m == invocation[i].media
  <2>1. /\ m \in Media
        /\ invocation[i].pc \in {"ready", "failed"}
        /\ \/ m \in Rows /\ SetStatus(m, invocation[i].pc)
           \/ UNCHANGED status
        /\ UNCHANGED <<primary, order>>
    BY <1>r, <1>4 DEF ApplyProcessingResult, InvocationTyped, Rows
  <2> HIDE DEF m
  <2> QED  BY <1>r, <2>1, StatusKeepsRows DEF Rows
<1>5. ASSUME NEW i \in Invocations,
             \/ Got(i) \/ PutVariants(i) \/ Counted(i) \/ Retry(i) \/ GiveUp(i)
             \/ InvocationFails(i)
      PROVE  Rows' = Rows /\ UNCHANGED <<primary, order>>
  BY <1>5 DEF Got, PutVariants, Counted, Retry, GiveUp, InvocationFails, Rows, rowVars
<1>6. CASE Sweep \/ SweepDies
  BY <1>6 DEF Sweep, SweepDies, Listed, LookedUp, Swept, Rows, rowVars
<1> QED  BY <1>1, <1>2, <1>3, <1>4, <1>5, <1>6 DEF Elsewhere, Lambda

LEMMA InsertRowEffect ==
  ASSUME TypeOK, NEW m \in Media, status[m] = "none", NEW b \in BOOLEAN, InsertRow(m, b)
  PROVE  /\ Rows' = Rows \cup {m}
         /\ primary' = {m} \/ (primary' = primary /\ primary # {})
         /\ \A n \in Rows : order'[n] = order[n] /\ order'[m] # order[n]
<1>r. RowsTyped  BY TypeParts
<1>1. Rows' = Rows \cup {m}
  BY <1>r, WholeRowMoves, RowMovesTypes DEF Rows
<1>2. PICK n \in NextOrder : order' = [order EXCEPT ![m] = n]
  BY DEF InsertRow
<1>3. \A o \in Rows : n # order[o]
  BY <1>r, <1>2 DEF NextOrder, RowsTyped, Rows
<1>4. m \notin Rows /\ order'[m] = n
  BY <1>r, <1>2 DEF Rows, RowsTyped
<1>5. \A o \in Rows : order'[o] = order[o]
  BY <1>r, <1>2, <1>4 DEF RowsTyped, Rows
<1>6. primary' = {m} \/ (primary' = primary /\ primary # {})
  BY DEF InsertRow
<1> QED  BY <1>1, <1>3, <1>4, <1>5, <1>6

LEMMA RemoveEffect ==
  ASSUME TypeOK, NEW w \in Workers, NEW m \in Media, Remove(w, m)
  PROVE  /\ Rows' = Rows \ {m}
         /\ primary' \in Promotions(m)
         /\ \A n \in Rows : n # m => order'[n] = order[n]
<1>r. RowsTyped  BY TypeParts
<1>1. /\ RowMoves(m, "none") /\ order' = [order EXCEPT ![m] = 0] /\ primary' \in Promotions(m)
  BY WholeRowMoves DEF Remove
<1>2. Rows' = Rows \ {m}
  BY <1>r, <1>1, RowMovesTypes DEF Rows
<1> QED  BY <1>r, <1>1, <1>2 DEF RowsTyped, Rows

LEMMA GalleryKept ==
  ASSUME TypeOK, OnePrimary, GalleryInOrder, [Next]_vars
  PROVE  OnePrimary' /\ GalleryInOrder'
<1>r. RowsTyped /\ CallTyped  BY TypeParts
<1>1. CASE Elsewhere
  BY <1>1, ElsewhereKeepsRows DEF OnePrimary, GalleryInOrder
<1>2. ASSUME NEW m \in Media, MakePrimary(m)
      PROVE  OnePrimary' /\ GalleryInOrder'
  BY <1>2 DEF MakePrimary, OnePrimary, GalleryInOrder, Rows
<1>3. ASSUME NEW f \in [Media -> Positions], Reorder(f)
      PROVE  OnePrimary' /\ GalleryInOrder'
  BY <1>3 DEF Reorder, OnePrimary, GalleryInOrder, Rows
<1>4. ASSUME NEW w \in Workers, NEW b \in BOOLEAN, ConfirmInserted(w, b)
      PROVE  OnePrimary' /\ GalleryInOrder'
  <2> DEFINE m == call[w].media
  <2>1. m \in Media  BY <1>r, <1>4 DEF ConfirmInserted, CallTyped
  <2>2. (status[m] = "none" /\ InsertRow(m, b)) \/ UNCHANGED rowVars
    BY <1>4 DEF ConfirmInserted
  <2> HIDE DEF m
  <2>3. CASE UNCHANGED rowVars
    BY <2>3 DEF rowVars, OnePrimary, GalleryInOrder, Rows
  <2>4. CASE status[m] = "none" /\ InsertRow(m, b)
    <3>1. OnePrimary'
      BY <2>1, <2>4, InsertRowEffect DEF OnePrimary
    <3>2. GalleryInOrder'
      BY <2>1, <2>4, InsertRowEffect DEF GalleryInOrder
    <3> QED  BY <3>1, <3>2
  <2> QED  BY <2>2, <2>3, <2>4
<1>5. ASSUME NEW w \in Workers, NEW m \in Media, Remove(w, m)
      PROVE  OnePrimary' /\ GalleryInOrder'
  <2>1. GalleryInOrder'  BY <1>5, RemoveEffect DEF GalleryInOrder
  <2>2. OnePrimary'
    BY <1>5, RemoveEffect DEF OnePrimary, Promotions
  <2> QED  BY <2>1, <2>2
<1>6. CASE UNCHANGED vars
  BY <1>6 DEF vars, rowVars, OnePrimary, GalleryInOrder, Rows
<1> QED  BY <1>1, <1>2, <1>3, <1>4, <1>5, <1>6, Steps

LEMMA GalleryInit == Init => OnePrimary /\ GalleryInOrder
<1> SUFFICES ASSUME Init PROVE OnePrimary /\ GalleryInOrder  OBVIOUS
<1>1. Rows = External
  BY DEF Init, Rows
<1> QED  BY <1>1 DEF Init, OnePrimary, GalleryInOrder

(* A product with images has one primary, which is one of them.            *)
THEOREM AlwaysOnePrimary == Spec => []OnePrimary
<1>1. TypeOK /\ OnePrimary /\ GalleryInOrder /\ [Next]_vars
        => (TypeOK /\ OnePrimary /\ GalleryInOrder)'
  BY NextTypes, GalleryKept
<1> QED  BY <1>1, InitTypes, GalleryInit, PTL DEF Spec

(* No two images of a product have the same display order.                 *)
THEOREM GalleryAlwaysInOrder == Spec => []GalleryInOrder
<1>1. TypeOK /\ OnePrimary /\ GalleryInOrder /\ [Next]_vars
        => (TypeOK /\ OnePrimary /\ GalleryInOrder)'
  BY NextTypes, GalleryKept
<1> QED  BY <1>1, InitTypes, GalleryInit, PTL DEF Spec

-----------------------------------------------------------------------------
(* The rows and the bucket.  An image that is gone is one that can never   *)
(* get a row (again): it was removed, or its upload is too old to confirm. *)
Gone(m) ==
  /\ m \notin Rows
  /\ \/ m \in removed
     \/ Original(m) \in aged
     \/ Original(m) \notin objects /\ ticket[m] = "expired"

RemovedForGood == \A m \in removed : m \notin Rows

ConfirmsYoung ==
  \A w \in Workers :
    /\ call[w].pc \in {"verify", "insert"}
         => call[w].media \notin removed /\ Original(call[w].media) \notin aged
    /\ call[w].pc = "insert"
         => Original(call[w].media) \in objects /\ Content[call[w].media] # "invalid"

OthersKnown ==
  \A w \in Workers :
    /\ call[w].pc \in {"flip", "copy", "fail"} => call[w].media \in Rows \cup removed
    /\ call[w].pc = "cleanup" => call[w].media \in removed

AgedExpired == \A k \in aged : ticket[k.media] = "expired"

AgedKnown == \A k \in aged : k.media \in Rows \/ Gone(k.media)

SweepKnown ==
  /\ sweep.pc = "lookup" => \A k \in sweep.keys : k.media \in Rows \/ Gone(k.media)
  /\ sweep.pc = "delete" => \A k \in sweep.keys : Gone(k.media)

RowsValid == \A m \in Rows \ External : Content[m] # "invalid"

ReportsTrue ==
  \A i \in Invocations :
    invocation[i].pc = "ready"
      => Variants(invocation[i].media) \in objects \/ Gone(invocation[i].media)

IInv ==
  /\ TypeOK
  /\ RemovedForGood /\ ConfirmsYoung /\ OthersKnown
  /\ AgedExpired /\ AgedKnown /\ SweepKnown
  /\ RowsValid /\ ReportsTrue
  /\ RowsHaveOriginals /\ ReadyServed

(* Which steps change what.                                                *)
LEMMA BucketSteps ==
  ASSUME Next
  PROVE  \/ UNCHANGED <<objects, aged>>
         \/ \E m \in Media : Upload(m) \/ Age(m)
         \/ \E w \in Workers : ConfirmVerified(w) \/ Cleanup(w) \/ CopyInPlace(w)
         \/ \E i \in Invocations : PutVariants(i)
         \/ Swept
<1>1. CASE Elsewhere
  BY <1>1 DEF Elsewhere, Lambda, Sweep, bucketVars, CreateUpload, Expire, TimeOut, ConfirmCalled,
     ReprocessCalled, Flip, CopyFailed, RecordFailure, CallFails, Got, ApplyProcessingResult,
     Counted, Retry, GiveUp, InvocationFails, Listed, LookedUp, SweepDies
<1>2. CASE ~Elsewhere
  BY <1>2, Steps DEF MakePrimary, Reorder, ConfirmInserted, Remove, bucketVars
<1> QED  BY <1>1, <1>2

LEMMA CallSteps ==
  ASSUME Next
  PROVE  \/ UNCHANGED call
         \/ \E m \in Media : Age(m)
         \/ \E w \in Workers, m \in Media : ConfirmCalled(w, m) \/ ReprocessCalled(w, m) \/ Remove(w, m)
         \/ \E w \in Workers : ConfirmVerified(w) \/ Flip(w) \/ CopyFailed(w) \/ Finish(w)
<1>1. CASE Elsewhere
  BY <1>1 DEF Elsewhere, Lambda, Sweep, CreateUpload, Upload, Expire, TimeOut,
     Cleanup, CopyInPlace, RecordFailure, CallFails, Got, PutVariants, ApplyProcessingResult,
     Counted, Retry, GiveUp, InvocationFails, Listed, LookedUp, Swept, SweepDies
<1>2. CASE ~Elsewhere
  BY <1>2, Steps DEF MakePrimary, Reorder, ConfirmInserted, Remove
<1> QED  BY <1>1, <1>2

LEMMA HistorySteps ==
  ASSUME Next
  PROVE  /\ UNCHANGED ticket \/ \E m \in Media : CreateUpload(m) \/ Expire(m)
         /\ UNCHANGED removed \/ \E w \in Workers, m \in Media : Remove(w, m)
         /\ \/ UNCHANGED sweep
            \/ Listed
            \/ LookedUp
            \/ sweep'.pc = "idle"
<1>1. CASE Elsewhere
  <2>1. UNCHANGED ticket \/ \E m \in Media : CreateUpload(m) \/ Expire(m)
    BY <1>1 DEF Elsewhere, Lambda, Sweep, CreateUpload, Upload, Expire, TimeOut, Age, ConfirmCalled,
       ReprocessCalled, ConfirmVerified, Cleanup, Flip, CopyInPlace, CopyFailed, RecordFailure,
       CallFails, Got, PutVariants, ApplyProcessingResult, Counted, Retry, GiveUp,
       InvocationFails, Listed, LookedUp, Swept, SweepDies
  <2>2. UNCHANGED removed
    BY <1>1 DEF Elsewhere, Lambda, Sweep, CreateUpload, Upload, Expire, TimeOut, Age, ConfirmCalled,
       ReprocessCalled, ConfirmVerified, Cleanup, Flip, CopyInPlace, CopyFailed, RecordFailure,
       CallFails, Got, PutVariants, ApplyProcessingResult, Counted, Retry, GiveUp,
       InvocationFails, Listed, LookedUp, Swept, SweepDies
  <2>3. UNCHANGED sweep \/ Listed \/ LookedUp \/ Swept \/ SweepDies
    BY <1>1 DEF Elsewhere, Lambda, Sweep, CreateUpload, Upload, Expire, TimeOut, Age, ConfirmCalled,
       ReprocessCalled, ConfirmVerified, Cleanup, Flip, CopyInPlace, CopyFailed, RecordFailure,
       CallFails, Got, PutVariants, ApplyProcessingResult, Counted, Retry, GiveUp,
       InvocationFails, Listed, LookedUp, Swept, SweepDies
  <2>4. Swept \/ SweepDies => sweep'.pc = "idle"
    BY DEF Swept, SweepDies, SweepGoto
  <2> QED  BY <2>1, <2>2, <2>3, <2>4
<1>2. CASE ~Elsewhere
  BY <1>2, Steps DEF MakePrimary, Reorder, ConfirmInserted, Remove
<1> QED  BY <1>1, <1>2

LEMMA ReadySteps ==
  ASSUME TypeOK, Next
  PROVE  /\ \A i \in Invocations :
              invocation'[i].pc = "ready"
                => /\ invocation[i].pc # "idle" /\ invocation'[i].media = invocation[i].media
                   /\ invocation[i].pc = "ready" \/ PutVariants(i)
         /\ \A m \in Media :
              status'[m] = "ready"
                => \/ status[m] = "ready"
                   \/ /\ m \in Rows /\ UNCHANGED <<objects, aged>>
                      /\ \E i \in Invocations : invocation[i].pc = "ready" /\ invocation[i].media = m
<1>r. RowsTyped /\ CallTyped /\ InvocationTyped  BY TypeParts
<1> DEFINE P == \A i \in Invocations :
                  invocation'[i].pc = "ready"
                    => /\ invocation[i].pc # "idle" /\ invocation'[i].media = invocation[i].media
                       /\ invocation[i].pc = "ready" \/ PutVariants(i)
           Q == \A m \in Media :
                  status'[m] = "ready"
                    => \/ status[m] = "ready"
                       \/ /\ m \in Rows /\ UNCHANGED <<objects, aged>>
                          /\ \E i \in Invocations : invocation[i].pc = "ready" /\ invocation[i].media = m
<1>1. ASSUME NEW m \in Media, Upload(m)  PROVE P /\ Q
  BY <1>1, <1>r, TriggerTypes DEF Upload, rowVars
<1>2. ASSUME NEW m \in Media, CreateUpload(m) \/ Expire(m) \/ TimeOut(m) \/ Age(m) \/ MakePrimary(m)
      PROVE P /\ Q
  BY <1>2 DEF CreateUpload, Expire, TimeOut, Age, MakePrimary, rowVars
<1>3. ASSUME NEW f \in [Media -> Positions], Reorder(f)  PROVE P /\ Q
  BY <1>3 DEF Reorder
<1>4. ASSUME NEW w \in Workers, CopyInPlace(w)  PROVE P /\ Q
  BY <1>4, <1>r, TriggerTypes DEF CopyInPlace, CallTyped, rowVars
<1>5. ASSUME NEW w \in Workers,
             \/ \E m \in Media : ConfirmCalled(w, m) \/ ReprocessCalled(w, m)
             \/ ConfirmVerified(w) \/ Cleanup(w) \/ CopyFailed(w) \/ CallFails(w)
      PROVE P /\ Q
  BY <1>5 DEF ConfirmCalled, ReprocessCalled, ConfirmVerified, Cleanup, CopyFailed, CallFails, rowVars
<1>6. ASSUME NEW w \in Workers, Flip(w) \/ RecordFailure(w)  PROVE P /\ Q
  <2>1. /\ call[w].media \in Media /\ UNCHANGED invocation
        /\ \/ UNCHANGED status
           \/ \E s \in {"processing", "failed"} : SetStatus(call[w].media, s)
    BY <1>6, <1>r DEF Flip, RecordFailure, UpdateIfThere, CallTyped
  <2> QED  BY <2>1, <1>r, SetStatusTypes
<1>7. ASSUME NEW w \in Workers, NEW b \in BOOLEAN, ConfirmInserted(w, b)  PROVE P /\ Q
  <2>1. /\ call[w].media \in Media /\ UNCHANGED invocation
        /\ UNCHANGED status \/ RowMoves(call[w].media, "processing")
    BY <1>7, <1>r, WholeRowMoves DEF ConfirmInserted, rowVars, CallTyped
  <2> QED  BY <2>1, <1>r, RowMovesTypes
<1>8. ASSUME NEW w \in Workers, NEW m \in Media, Remove(w, m)  PROVE P /\ Q
  <2>1. UNCHANGED invocation /\ RowMoves(m, "none")  BY <1>8, WholeRowMoves DEF Remove
  <2> QED  BY <2>1, <1>r, RowMovesTypes
<1>9. ASSUME NEW i \in Invocations, ApplyProcessingResult(i)  PROVE P /\ Q
  <2> DEFINE m == invocation[i].media
  <2>1. /\ m \in Media
        /\ invocation[i].pc \in {"ready", "failed"}
        /\ \/ m \in Rows /\ SetStatus(m, invocation[i].pc)
           \/ UNCHANGED status
        /\ UNCHANGED <<objects, aged>>
    BY <1>r, <1>9 DEF ApplyProcessingResult, InvocationTyped, Rows, bucketVars
  <2>2. Q
    <3> HIDE DEF m
    <3>1. m = invocation[i].media  BY DEF m
    <3> QED  BY <1>r, <2>1, <3>1, SetStatusTypes
  <2>3. P
    <3>1. Ended(i) \/ InvocationAt(i, "count")
      BY <1>9 DEF ApplyProcessingResult
    <3> QED  BY <3>1, <2>1, <1>r, EndedTypes, InvocationAtTypes
  <2> QED  BY <2>2, <2>3
<1>10. ASSUME NEW i \in Invocations, Retry(i)  PROVE P /\ Q
  BY <1>10, <1>r, RetryTypes DEF Retry, rowVars
<1>11. ASSUME NEW i \in Invocations, Got(i) \/ Counted(i) \/ GiveUp(i) \/ InvocationFails(i)
       PROVE  P /\ Q
  <2>1. /\ UNCHANGED status /\ invocation[i].pc # "idle"
        /\ Ended(i) \/ \E pc \in {"put", "failed", "retry"} : InvocationAt(i, pc)
    BY <1>11 DEF Got, Counted, GiveUp, InvocationFails, rowVars
  <2> QED  BY <2>1, <1>r, EndedTypes, InvocationAtTypes
<1>12. ASSUME NEW i \in Invocations, PutVariants(i)  PROVE P /\ Q
  <2>1. UNCHANGED status /\ invocation[i].pc # "idle" /\ InvocationAt(i, "ready")
    BY <1>12 DEF PutVariants, rowVars
  <2> QED  BY <2>1, <1>12, <1>r, InvocationAtTypes
<1>13. ASSUME Sweep \/ SweepDies  PROVE P /\ Q
  BY <1>13 DEF Sweep, SweepDies, Listed, LookedUp, Swept, rowVars
<1> HIDE DEF P, Q
<1>14. ASSUME NEW w \in Workers, Proceed(w) \/ CallFails(w) \/ \E m \in Media : Begin(w, m)
       PROVE P /\ Q
  BY <1>4, <1>5, <1>6, <1>7, <1>8, <1>14 DEF Begin, Proceed
<1>15. ASSUME NEW i \in Invocations, Lambda(i) \/ InvocationFails(i)  PROVE P /\ Q
  BY <1>9, <1>10, <1>11, <1>12, <1>15 DEF Lambda
<1>16. P /\ Q
  <2>1. ASSUME NEW m \in Media,
               CreateUpload(m) \/ Upload(m) \/ Expire(m) \/ MakePrimary(m) \/ TimeOut(m) \/ Age(m)
        PROVE P /\ Q
    BY <2>1, <1>1, <1>2
  <2>2. ASSUME NEW w \in Workers, Proceed(w) \/ CallFails(w) \/ \E m \in Media : Begin(w, m)
        PROVE P /\ Q
    BY <2>2, <1>14
  <2>3. \/ \E m \in Media : \/ CreateUpload(m)
                          \/ Upload(m)
                          \/ Expire(m)
                          \/ MakePrimary(m)
                          \/ TimeOut(m)
                          \/ Age(m)
        \/ \E f \in [Media -> Positions] : Reorder(f)
        \/ \E w \in Workers : Proceed(w) \/ CallFails(w) \/ \E m \in Media : Begin(w, m)
        \/ \E i \in Invocations : Lambda(i) \/ InvocationFails(i)
        \/ Sweep \/ SweepDies
    BY DEF Next
  <2>4. CASE \E m \in Media : \/ CreateUpload(m)
                            \/ Upload(m)
                            \/ Expire(m)
                            \/ MakePrimary(m)
                            \/ TimeOut(m)
                            \/ Age(m)
    BY <2>1, <2>4
  <2>5. CASE \E f \in [Media -> Positions] : Reorder(f)
    BY <1>3, <2>5
  <2>6. CASE \E w \in Workers : Proceed(w) \/ CallFails(w) \/ \E m \in Media : Begin(w, m)
    BY <2>2, <2>6
  <2>7. CASE \E i \in Invocations : Lambda(i) \/ InvocationFails(i)
    BY <1>15, <2>7
  <2> QED  BY <2>3, <2>4, <2>5, <2>6, <2>7, <1>13
<1> QED  BY <1>16 DEF P, Q

LEMMA RowsSteps ==
  ASSUME TypeOK, Next
  PROVE  \/ Rows' = Rows
         \/ \E w \in Workers :
              /\ call[w].pc = "insert" /\ Rows' = Rows \cup {call[w].media}
              /\ UNCHANGED <<objects, aged, removed>>
         \/ \E w \in Workers, m \in Media :
              /\ Remove(w, m) /\ Rows' = Rows \ {m}
              /\ removed' = removed \cup {m} /\ UNCHANGED <<objects, aged>>
<1>r. RowsTyped /\ CallTyped  BY TypeParts
<1>1. CASE Elsewhere
  BY <1>1, ElsewhereKeepsRows
<1>2. ASSUME NEW m \in Media, MakePrimary(m)  PROVE Rows' = Rows
  BY <1>2 DEF MakePrimary, Rows
<1>3. ASSUME NEW f \in [Media -> Positions], Reorder(f)  PROVE Rows' = Rows
  BY <1>3 DEF Reorder, Rows
<1>4. ASSUME NEW w \in Workers, NEW b \in BOOLEAN, ConfirmInserted(w, b)
      PROVE  \/ Rows' = Rows
             \/ /\ call[w].pc = "insert" /\ Rows' = Rows \cup {call[w].media}
                /\ UNCHANGED <<objects, aged, removed>>
  <2> DEFINE m == call[w].media
  <2>1. m \in Media /\ call[w].pc = "insert" /\ UNCHANGED <<objects, aged, removed>>
    BY <1>r, <1>4 DEF ConfirmInserted, CallTyped, bucketVars
  <2>2. (status[m] = "none" /\ InsertRow(m, b)) \/ UNCHANGED rowVars
    BY <1>4 DEF ConfirmInserted
  <2> HIDE DEF m
  <2>3. Rows' = Rows \cup {m} \/ Rows' = Rows
    <3>1. CASE UNCHANGED rowVars  BY <3>1 DEF rowVars, Rows
    <3>2. CASE status[m] = "none" /\ InsertRow(m, b)  BY <2>1, <3>2, InsertRowEffect
    <3> QED  BY <2>2, <3>1, <3>2
  <2> QED  BY <2>1, <2>3 DEF m
<1>5. ASSUME NEW w \in Workers, NEW m \in Media, Remove(w, m)
      PROVE  /\ Rows' = Rows \ {m}
             /\ removed' = removed \cup {m} /\ UNCHANGED <<objects, aged>>
  <2>1. removed' = removed \cup {m} /\ UNCHANGED <<objects, aged>>
    BY <1>5 DEF Remove, bucketVars
  <2> QED  BY <1>5, <2>1, RemoveEffect
<1> QED  BY <1>1, <1>2, <1>3, <1>4, <1>5, Steps

LEMMA TicketsExpire ==
  ASSUME TypeOK, Next, NEW m \in Media, ticket[m] = "expired"
  PROVE  ticket'[m] = "expired"
<1>1. RestTyped  BY TypeParts
<1>2. ASSUME NEW n \in Media, CreateUpload(n) \/ Expire(n)  PROVE ticket'[m] = "expired"
  BY <1>1, <1>2 DEF CreateUpload, Expire, RestTyped
<1> QED  BY <1>2, HistorySteps

(* Whatever loses its objects is gone, or failed its check.                *)
LEMMA ObjectsKept ==
  ASSUME IInv, Next, NEW m \in Media
  PROVE  /\ Variants(m) \in objects => Variants(m) \in objects' \/ Gone(m)
         /\ Original(m) \in objects /\ Content[m] # "invalid"
              => Original(m) \in objects' \/ Gone(m)
<1>r. CallTyped /\ BucketTyped /\ RestTyped  BY TypeParts DEF IInv
<1>1. ASSUME NEW n \in Media, Upload(n) \/ Age(n)  PROVE objects \subseteq objects'
  BY <1>1 DEF Upload, Age, Store
<1>2. ASSUME NEW w \in Workers, CopyInPlace(w)  PROVE objects \subseteq objects'
  BY <1>2 DEF CopyInPlace, Store
<1>3. ASSUME NEW i \in Invocations, PutVariants(i)  PROVE objects \subseteq objects'
  BY <1>3 DEF PutVariants, Store
<1>4. ASSUME NEW w \in Workers, ConfirmVerified(w)
      PROVE  \/ UNCHANGED objects
             \/ /\ objects' = objects \ {Original(call[w].media)} /\ call[w].media \in Media
                /\ Original(call[w].media) \notin objects \/ Content[call[w].media] = "invalid"
  BY <1>r, <1>4 DEF ConfirmVerified, Erase, bucketVars, CallTyped
<1>5. ASSUME NEW w \in Workers, ConfirmVerified(w)
      PROVE  /\ Variants(m) \in objects => Variants(m) \in objects'
             /\ Original(m) \in objects /\ Content[m] # "invalid" => Original(m) \in objects'
  BY <1>4, <1>5, KeyTypes
<1>6. ASSUME NEW w \in Workers, Cleanup(w)
      PROVE  \/ Gone(m)
             \/ /\ Variants(m) \in objects => Variants(m) \in objects'
                /\ Original(m) \in objects => Original(m) \in objects'
  <2>1. /\ objects' = objects \ KeysOf(call[w].media) /\ call[w].media \in Media
        /\ call[w].media \in removed
    BY <1>r, <1>6 DEF Cleanup, Erase, CallTyped, IInv, OthersKnown
  <2>2. CASE call[w].media = m  BY <2>1, <2>2 DEF IInv, RemovedForGood, Gone
  <2>3. CASE call[w].media # m  BY <2>1, <2>3, KeyTypes
  <2> QED  BY <2>2, <2>3
<1>7. ASSUME Swept
      PROVE  \/ Gone(m)
             \/ /\ Variants(m) \in objects => Variants(m) \in objects'
                /\ Original(m) \in objects => Original(m) \in objects'
  BY <1>7, KeyTypes DEF Swept, Erase, IInv, SweepKnown
<1> QED  BY <1>1, <1>2, <1>3, <1>5, <1>6, <1>7, BucketSteps

(* What is gone stays gone.                                                *)
LEMMA GoneStays ==
  ASSUME IInv, Next, NEW m \in Media, Gone(m)
  PROVE  Gone(m)'
<1>t. TypeOK  BY DEF IInv
<1>r. CallTyped /\ BucketTyped /\ RestTyped  BY <1>t, TypeParts
<1>1. m \notin Rows'
  <2>1. ASSUME NEW w \in Workers, call[w].pc = "insert"  PROVE call[w].media # m
    BY <2>1 DEF IInv, ConfirmsYoung, Gone
  <2> QED  BY <1>t, <2>1, RowsSteps DEF Gone
<1>2. CASE m \in removed
  <2>1. m \in removed'
    BY <1>2, HistorySteps DEF Remove
  <2> QED  BY <1>1, <2>1 DEF Gone
<1>3. CASE m \notin removed
  <2>1. ticket[m] = "expired"
    BY <1>3, KeyTypes DEF Gone, IInv, AgedExpired
  <2>2. ticket'[m] = "expired"  BY <1>t, <2>1, TicketsExpire
  <2> DEFINE Old == Original(m) \in aged' \/ Original(m) \notin objects'
  <2>3. Original(m) \in aged \/ Original(m) \notin objects
    BY <1>3 DEF Gone
  <2>4. ASSUME NEW n \in Media, Upload(n)  PROVE Old
    <3>1. n # m /\ objects' = objects \cup {Original(n)} /\ aged' = aged \ {Original(n)}
      BY <2>1, <2>4 DEF Upload, Store
    <3> QED  BY <2>3, <3>1, KeyTypes
  <2>5. ASSUME NEW n \in Media, Age(n)  PROVE Old
    BY <2>3, <2>5 DEF Age
  <2>6. ASSUME NEW w \in Workers, ConfirmVerified(w) \/ Cleanup(w)  PROVE Old
    <3>1. UNCHANGED <<objects, aged>> \/ \E keys : Erase(keys)
      BY <2>6 DEF ConfirmVerified, Cleanup, bucketVars
    <3> QED  BY <2>3, <3>1 DEF Erase
  <2>7. ASSUME NEW w \in Workers, CopyInPlace(w)  PROVE Old
    <3>1. /\ call[w].media \in Rows \cup removed /\ call[w].media \in Media
          /\ objects' = objects \cup {Original(call[w].media)}
          /\ aged' = aged \ {Original(call[w].media)}
      BY <1>r, <2>7 DEF CopyInPlace, Store, IInv, OthersKnown, CallTyped
    <3>2. call[w].media # m  BY <1>3, <3>1 DEF Gone
    <3> QED  BY <2>3, <3>1, <3>2, KeyTypes
  <2>8. ASSUME NEW i \in Invocations, PutVariants(i)  PROVE Old
    <3>0. InvocationTyped  BY <1>t, TypeParts
    <3>1. /\ invocation[i].media \in Media
          /\ objects' = objects \cup {Variants(invocation[i].media)}
          /\ aged' = aged \ {Variants(invocation[i].media)}
      BY <3>0, <2>8 DEF PutVariants, Store, InvocationTyped
    <3> QED  BY <2>3, <3>1, KeyTypes
  <2>9. ASSUME Swept  PROVE Old
    BY <2>3, <2>9 DEF Swept, Erase
  <2>10. ASSUME UNCHANGED <<objects, aged>>  PROVE Old
    BY <2>3, <2>10
  <2> HIDE DEF Old
  <2>11. Old
    BY <2>4, <2>5, <2>6, <2>7, <2>8, <2>9, <2>10, BucketSteps
  <2> QED  BY <1>1, <2>2, <2>11 DEF Gone, Old
<1> QED  BY <1>2, <1>3

LEMMA RowsStayOrGo ==
  ASSUME TypeOK, Next, NEW m \in Rows
  PROVE  m \in Rows' \/ Gone(m)'
BY RowsSteps DEF Gone

LEMMA RemovedKept ==
  ASSUME IInv, Next
  PROVE  RemovedForGood' /\ \A m \in Rows \cup removed : m \in Rows' \cup removed'
<1>t. TypeOK  BY DEF IInv
<1>r. RestTyped  BY <1>t, TypeParts
<1>1. \A m \in removed : m \notin Rows'
  BY <1>r, GoneStays DEF IInv, RemovedForGood, Gone, RestTyped
<1>2. UNCHANGED removed \/ \E w \in Workers, m \in Media : Remove(w, m)
  BY HistorySteps
<1>3. ASSUME NEW w \in Workers, NEW m \in Media, Remove(w, m)
      PROVE  removed' = removed \cup {m} /\ Rows' = Rows \ {m}
  BY <1>t, <1>3, RemoveEffect DEF Remove
<1>4. RemovedForGood'
  BY <1>1, <1>2, <1>3 DEF RemovedForGood
<1>5. removed \subseteq removed'
  BY <1>2, <1>3
<1>6. \A m \in Rows : m \in Rows' \cup removed'
  BY <1>t, RowsSteps
<1> QED  BY <1>4, <1>5, <1>6

(* What brings a call to the confirm steps.                                *)
LEMMA ConfirmMoves ==
  ASSUME TypeOK, Next, NEW w \in Workers, call'[w].pc \in {"verify", "insert"}
  PROVE  \/ call'[w] = call[w]
         \/ \E m \in Media : ConfirmCalled(w, m)
         \/ ConfirmVerified(w)
<1>r. CallTyped  BY TypeParts
<1>1. ASSUME NEW m \in Media, Age(m)  PROVE call'[w] = call[w]
  <2>1. call'[w] = call[w] \/ call'[w] = Idle
    BY <1>1 DEF Age
  <2> QED  BY <2>1 DEF Idle
<1>2. ASSUME NEW v \in Workers, NEW m \in Media,
             ConfirmCalled(v, m) \/ ReprocessCalled(v, m) \/ Remove(v, m)
      PROVE  call'[w] = call[w] \/ (v = w /\ ConfirmCalled(v, m))
  <2>1. CASE ConfirmCalled(v, m)
    <3>1. Goto(v, "verify", m)  BY <2>1 DEF ConfirmCalled
    <3> QED  BY <1>r, <2>1, <3>1, GotoTypes
  <2>2. CASE ReprocessCalled(v, m)
    <3>1. Goto(v, "flip", m)  BY <2>2 DEF ReprocessCalled
    <3> QED  BY <1>r, <3>1, GotoTypes
  <2>3. CASE Remove(v, m)
    <3>1. UNCHANGED call \/ Goto(v, "cleanup", m)  BY <2>3 DEF Remove
    <3> QED  BY <1>r, <3>1, GotoTypes
  <2> QED  BY <1>2, <2>1, <2>2, <2>3
<1>3. ASSUME NEW v \in Workers, ConfirmVerified(v) \/ Flip(v) \/ CopyFailed(v) \/ Finish(v)
      PROVE  call'[w] = call[w] \/ (v = w /\ ConfirmVerified(v))
  <2>1. CASE ConfirmVerified(v)
    <3>1. Finish(v) \/ (Goto(v, "insert", call[v].media) /\ call[v].media \in Media)
      BY <1>r, <2>1 DEF ConfirmVerified, CallTyped
    <3> QED  BY <1>r, <2>1, <3>1, GotoTypes, FinishTypes
  <2>2. CASE Flip(v) \/ CopyFailed(v)
    <3>1. /\ call[v].media \in Media
          /\ Goto(v, "copy", call[v].media) \/ Goto(v, "fail", call[v].media)
      BY <1>r, <2>2 DEF Flip, CopyFailed, CallTyped
    <3> QED  BY <1>r, <3>1, GotoTypes
  <2>3. CASE Finish(v)
    BY <1>r, <2>3, FinishTypes
  <2> QED  BY <1>3, <2>1, <2>2, <2>3
<1> QED  BY <1>1, <1>2, <1>3, CallSteps

LEMMA ConfirmsKept ==
  ASSUME IInv, Next, ~LateConfirm
  PROVE  ConfirmsYoung'
<1>t. TypeOK  BY DEF IInv
<1>r. CallTyped /\ BucketTyped /\ RestTyped  BY <1>t, TypeParts
<1> DEFINE Confirms(w) == call[w].pc \in {"verify", "insert"}
<1>0. SUFFICES ASSUME NEW w \in Workers, call'[w].pc \in {"verify", "insert"}
               PROVE  /\ call'[w].media \notin removed' /\ Original(call'[w].media) \notin aged'
                      /\ call'[w].pc = "insert"
                           => /\ Original(call'[w].media) \in objects'
                              /\ Content[call'[w].media] # "invalid"
  BY DEF ConfirmsYoung
<1>1. ASSUME NEW v \in Workers, NEW m \in Media, ConfirmCalled(v, m), v = w
      PROVE  /\ call'[w].pc = "verify" /\ call'[w].media = m
             /\ m \notin removed' /\ Original(m) \notin aged'
  BY <1>r, <1>1, GotoTypes DEF ConfirmCalled, bucketVars
<1>2. ASSUME ConfirmVerified(w)
      PROVE  /\ call'[w].pc = "insert" /\ call'[w].media = call[w].media
             /\ Original(call[w].media) \in objects /\ Content[call[w].media] # "invalid"
             /\ call[w].pc = "verify" /\ UNCHANGED <<objects, aged, removed>>
  <2>1. call[w].pc = "verify" /\ call[w].media \in Media
    BY <1>r, <1>2 DEF ConfirmVerified, CallTyped
  <2>2. \/ /\ Original(call[w].media) \in objects /\ Content[call[w].media] # "invalid"
           /\ Goto(w, "insert", call[w].media) /\ UNCHANGED <<objects, aged, removed>>
        \/ Finish(w)
    BY <1>2 DEF ConfirmVerified, bucketVars
  <2> QED  BY <1>r, <1>0, <2>1, <2>2, GotoTypes, FinishTypes
<1>3. \/ call'[w] = call[w]
      \/ \E m \in Media : ConfirmCalled(w, m)
      \/ ConfirmVerified(w)
  BY <1>t, <1>0, ConfirmMoves
<1>4. CASE call'[w] = call[w]
  <2> DEFINE m == call[w].media
  <2>1. /\ m \in Media /\ call[w].pc \in {"verify", "insert"} /\ call'[w].media = m
        /\ m \notin removed /\ Original(m) \notin aged
        /\ call[w].pc = "insert" => Original(m) \in objects /\ Content[m] # "invalid"
    BY <1>r, <1>0, <1>4 DEF IInv, ConfirmsYoung, CallTyped
  <2>2. m \notin removed'
    <3>1. ASSUME NEW v \in Workers, NEW n \in Media, Remove(v, n)
          PROVE  m # n /\ removed' = removed \cup {n}
      BY <2>1, <3>1 DEF Remove, Confirming
    <3> QED  BY <2>1, <3>1, HistorySteps
  <2>3. Original(m) \notin aged'
    <3>1. ASSUME NEW n \in Media, Age(n)  PROVE Original(m) \notin aged'
      <4>1. ~Confirming(w, n)
        <5>1. SUFFICES ASSUME Confirming(w, n) PROVE FALSE  OBVIOUS
        <5>2. call'[w] = Idle  BY <3>1, <5>1 DEF Age
        <5> QED  BY <1>0, <5>2 DEF Idle
      <4>2. m # n  BY <2>1, <4>1 DEF Confirming
      <4>3. aged' \subseteq aged \cup KeysOf(n)  BY <3>1 DEF Age
      <4> QED  BY <2>1, <4>2, <4>3, KeyTypes
    <3>2. ASSUME NEW n \in Media, Upload(n)  PROVE aged' \subseteq aged
      BY <3>2 DEF Upload, Store
    <3>3. ASSUME NEW v \in Workers, ConfirmVerified(v) \/ Cleanup(v) \/ CopyInPlace(v)
          PROVE  aged' \subseteq aged
      BY <3>3 DEF ConfirmVerified, Cleanup, CopyInPlace, Store, Erase, bucketVars
    <3>4. ASSUME NEW i \in Invocations, PutVariants(i)  PROVE aged' \subseteq aged
      BY <3>4 DEF PutVariants, Store
    <3>5. ASSUME Swept  PROVE aged' \subseteq aged
      BY <3>5 DEF Swept, Erase
    <3> QED  BY <2>1, <3>1, <3>2, <3>3, <3>4, <3>5, BucketSteps
  <2>4. call[w].pc = "insert" => Original(m) \in objects'
    BY <2>1, ObjectsKept DEF Gone, IInv, AgedExpired
  <2> QED  BY <1>4, <2>1, <2>2, <2>3, <2>4
<1>5. CASE \E m \in Media : ConfirmCalled(w, m)
  BY <1>1, <1>5
<1>6. CASE ConfirmVerified(w)
  BY <1>r, <1>2, <1>6 DEF IInv, ConfirmsYoung
<1> QED  BY <1>3, <1>4, <1>5, <1>6

LEMMA CallsKnown ==
  ASSUME IInv, Next
  PROVE  OthersKnown'
<1>t. TypeOK  BY DEF IInv
<1>r. CallTyped  BY <1>t, TypeParts
<1>1. SUFFICES ASSUME NEW w \in Workers
               PROVE  /\ call'[w].pc \in {"flip", "copy", "fail"} => call'[w].media \in Rows' \cup removed'
                      /\ call'[w].pc = "cleanup" => call'[w].media \in removed'
  BY DEF OthersKnown
<1> DEFINE Known == /\ call'[w].pc \in {"flip", "copy", "fail"} => call'[w].media \in Rows \cup removed
                    /\ call'[w].pc = "cleanup" => call'[w].media \in removed'
<1>2. removed \subseteq removed'
  BY HistorySteps DEF Remove
<1>3. ASSUME call'[w] = call[w] \/ call'[w].pc \in {"idle", "verify", "insert"}  PROVE Known
  BY <1>2, <1>3 DEF IInv, OthersKnown
<1>4. ASSUME NEW m \in Media, Age(m)  PROVE Known
  <2>1. call'[w] = call[w] \/ call'[w] = Idle  BY <1>4 DEF Age
  <2> QED  BY <1>3, <2>1 DEF Idle
<1>5. ASSUME NEW v \in Workers, NEW m \in Media, ConfirmCalled(v, m)  PROVE Known
  <2>1. Goto(v, "verify", m)  BY <1>5 DEF ConfirmCalled
  <2>2. call'[w] = call[w] \/ call'[w].pc = "verify"  BY <1>r, <2>1, GotoTypes
  <2> QED  BY <1>3, <2>2
<1>6. ASSUME NEW v \in Workers, NEW m \in Media, ReprocessCalled(v, m)  PROVE Known
  <2>0. RowsTyped  BY <1>t, TypeParts
  <2>1. Goto(v, "flip", m) /\ m \in Rows
    BY <2>0, <1>6 DEF ReprocessCalled, Displayed, Rows, RowsTyped
  <2>2. call'[w] = call[w] \/ (call'[w].pc = "flip" /\ call'[w].media = m)
    BY <1>r, <2>1, GotoTypes
  <2> QED  BY <1>3, <2>1, <2>2
<1>7. ASSUME NEW v \in Workers, NEW m \in Media, Remove(v, m)  PROVE Known
  <2>1. m \in removed' /\ (UNCHANGED call \/ Goto(v, "cleanup", m))
    BY <1>7 DEF Remove
  <2>2. call'[w] = call[w] \/ (call'[w].pc = "cleanup" /\ call'[w].media = m)
    BY <1>r, <2>1, GotoTypes
  <2> QED  BY <1>3, <2>1, <2>2
<1>8. ASSUME NEW v \in Workers, ConfirmVerified(v)  PROVE Known
  <2>1. Finish(v) \/ (Goto(v, "insert", call[v].media) /\ call[v].media \in Media)
    BY <1>r, <1>8 DEF ConfirmVerified, CallTyped
  <2>2. call'[w] = call[w] \/ call'[w].pc \in {"idle", "insert"}
    BY <1>r, <2>1, GotoTypes, FinishTypes
  <2> QED  BY <1>3, <2>2
<1>9. ASSUME NEW v \in Workers, Flip(v) \/ CopyFailed(v)  PROVE Known
  <2>1. /\ call[v].media \in Media /\ call[v].media \in Rows \cup removed
        /\ Goto(v, "copy", call[v].media) \/ Goto(v, "fail", call[v].media)
    BY <1>r, <1>9 DEF Flip, CopyFailed, CallTyped, IInv, OthersKnown
  <2>2. \/ call'[w] = call[w]
        \/ call'[w].pc \in {"copy", "fail"} /\ call'[w].media = call[v].media
    BY <1>r, <2>1, GotoTypes
  <2> QED  BY <1>3, <2>1, <2>2
<1>10. ASSUME NEW v \in Workers, Finish(v)  PROVE Known
  <2>1. call'[w] = call[w] \/ call'[w].pc = "idle"  BY <1>r, <1>10, FinishTypes
  <2> QED  BY <1>3, <2>1
<1>11. ASSUME UNCHANGED call  PROVE Known
  BY <1>3, <1>11
<1> HIDE DEF Known
<1>12. Known
  BY <1>4, <1>5, <1>6, <1>7, <1>8, <1>9, <1>10, <1>11, CallSteps
<1> QED  BY <1>12, RemovedKept DEF Known

LEMMA AgedKept ==
  ASSUME IInv, Next
  PROVE  AgedExpired' /\ AgedKnown'
<1>t. TypeOK  BY DEF IInv
<1>r. BucketTyped /\ RestTyped  BY <1>t, TypeParts
<1>1. SUFFICES ASSUME NEW k \in aged'
               PROVE  ticket'[k.media] = "expired" /\ (k.media \in Rows' \/ Gone(k.media)')
  BY DEF AgedExpired, AgedKnown
<1>2. CASE k \in aged
  <2>1. k.media \in Media /\ ticket[k.media] = "expired"
    BY <1>r, <1>2, KeyTypes DEF IInv, AgedExpired, BucketTyped
  <2>2. k.media \in Rows \/ Gone(k.media)
    BY <1>2 DEF IInv, AgedKnown
  <2> QED  BY <1>t, <2>1, <2>2, TicketsExpire, RowsStayOrGo, GoneStays
<1>3. CASE k \notin aged
  <2>1. ASSUME NEW w \in Workers, ConfirmVerified(w) \/ Cleanup(w) \/ CopyInPlace(w)
        PROVE  aged' \subseteq aged
    BY <2>1 DEF ConfirmVerified, Cleanup, CopyInPlace, Store, Erase, bucketVars
  <2>2. PICK m \in Media : Age(m)
    BY <1>3, <2>1, BucketSteps DEF Upload, PutVariants, Swept, Store, Erase
  <2>3. /\ k.media = m /\ ticket[m] = "expired" /\ ticket' = ticket /\ objects' = objects
        /\ aged' = aged \cup (KeysOf(m) \cap objects) /\ removed' = removed
    BY <1>3, <2>2, KeyTypes DEF Age
  <2>4. Rows' = Rows
    BY <1>t, <2>2, ElsewhereKeepsRows DEF Elsewhere
  <2> QED  BY <2>3, <2>4 DEF Gone, KeysOf
<1> QED  BY <1>2, <1>3

LEMMA SweepKept ==
  ASSUME IInv, Next
  PROVE  SweepKnown'
<1>t. TypeOK  BY DEF IInv
<1>r. BucketTyped /\ RestTyped  BY <1>t, TypeParts
<1>1. \A k \in sweep.keys \cup aged : k.media \in Media
  BY <1>r, KeyTypes DEF BucketTyped, RestTyped
<1>2. \A m \in Media : m \in Rows \/ Gone(m) => m \in Rows' \/ Gone(m)'
  BY <1>t, RowsStayOrGo, GoneStays
<1>3. \A m \in Media : Gone(m) => Gone(m)'
  BY GoneStays
<1>4. CASE UNCHANGED sweep
  BY <1>1, <1>2, <1>3, <1>4 DEF IInv, SweepKnown
<1>5. CASE Listed
  <2>1. sweep' = [pc |-> "lookup", keys |-> aged]
    BY <1>5 DEF Listed, SweepGoto
  <2> QED  BY <1>1, <1>2, <2>1 DEF IInv, AgedKnown, SweepKnown
<1>6. CASE LookedUp
  <2>1. /\ sweep.pc = "lookup"
        /\ \/ sweep' = [pc |-> "idle", keys |-> {}]
           \/ sweep' = [pc |-> "delete", keys |-> {k \in sweep.keys : k.media \notin Rows}]
    BY <1>6 DEF LookedUp, SweepGoto
  <2>2. \A k \in sweep.keys : k.media \notin Rows => Gone(k.media)'
    BY <1>1, <1>3, <2>1 DEF IInv, SweepKnown
  <2> QED  BY <2>1, <2>2 DEF SweepKnown
<1>7. CASE sweep'.pc = "idle"
  BY <1>7 DEF SweepKnown
<1> QED  BY <1>4, <1>5, <1>6, <1>7, HistorySteps

LEMMA ImagesKept ==
  ASSUME IInv, Next
  PROVE  RowsValid' /\ ReportsTrue' /\ RowsHaveOriginals' /\ ReadyServed'
<1>t. TypeOK  BY DEF IInv
<1>r. RowsTyped /\ CallTyped /\ InvocationTyped  BY <1>t, TypeParts
<1>1. ASSUME NEW m \in Rows' \ External
      PROVE  Content[m] # "invalid" /\ Original(m) \in objects'
  <2>1. m \in Media  BY <1>1 DEF Rows
  <2>2. CASE m \in Rows
    <3>1. Content[m] # "invalid" /\ Original(m) \in objects /\ ~Gone(m)
      BY <1>1, <2>2 DEF IInv, RowsValid, RowsHaveOriginals, Gone
    <3> QED  BY <2>1, <3>1, ObjectsKept
  <2>3. CASE m \notin Rows
    <3>1. PICK w \in Workers : /\ call[w].pc = "insert" /\ call[w].media = m
                               /\ UNCHANGED objects
      BY <1>1, <1>t, <2>3, RowsSteps
    <3> QED  BY <3>1 DEF IInv, ConfirmsYoung
  <2> QED  BY <2>2, <2>3
<1>2. RowsValid' /\ RowsHaveOriginals'
  BY <1>1 DEF RowsValid, RowsHaveOriginals
<1>3. ASSUME NEW i \in Invocations, NEW m \in Media,
             invocation'[i].pc = "ready", invocation'[i].media = m
      PROVE  Variants(m) \in objects' \/ Gone(m)'
  <2>1. invocation[i].media = m /\ (invocation[i].pc = "ready" \/ PutVariants(i))
    BY <1>t, <1>3, ReadySteps
  <2>2. CASE PutVariants(i)
    BY <2>1, <2>2 DEF PutVariants, Store
  <2>3. CASE invocation[i].pc = "ready"
    <3>1. Variants(m) \in objects \/ Gone(m)  BY <2>1, <2>3 DEF IInv, ReportsTrue
    <3> QED  BY <3>1, ObjectsKept, GoneStays
  <2> QED  BY <2>1, <2>2, <2>3
<1>4. ReportsTrue'
  <2>1. \A i \in Invocations : invocation'[i].pc = "ready" => invocation'[i].media \in Media
    BY <1>t, NextTypes DEF TypeOK
  <2> QED  BY <1>3, <2>1 DEF ReportsTrue, Gone, Rows
<1>5. ASSUME NEW m \in Media \ External, status'[m] = "ready"
      PROVE  Variants(m) \in objects'
  <2>1. m \in Rows' /\ ~Gone(m)'  BY <1>5 DEF Rows, Gone
  <2>2. ~Gone(m)  BY <2>1, GoneStays
  <2>3. CASE status[m] = "ready"
    <3>1. Variants(m) \in objects  BY <2>3 DEF IInv, ReadyServed
    <3> QED  BY <2>2, <3>1, ObjectsKept
  <2>4. CASE status[m] # "ready"
    <3>1. PICK i \in Invocations :
            /\ UNCHANGED objects /\ invocation[i].pc = "ready" /\ invocation[i].media = m
      BY <1>t, <1>5, <2>4, ReadySteps
    <3> QED  BY <2>2, <3>1 DEF IInv, ReportsTrue
  <2> QED  BY <2>3, <2>4
<1>6. ReadyServed'
  BY <1>5 DEF ReadyServed
<1> QED  BY <1>2, <1>4, <1>6

LEMMA BucketInit == Init => IInv
<1> SUFFICES ASSUME Init PROVE IInv  OBVIOUS
<1>1. TypeOK  BY InitTypes
<1>2. Rows = External  BY DEF Init, Rows
<1>3. RemovedForGood /\ AgedExpired /\ AgedKnown /\ SweepKnown
  BY DEF Init, IdleSweep, RemovedForGood, AgedExpired, AgedKnown, SweepKnown
<1>4. ConfirmsYoung /\ OthersKnown
  BY DEF Init, Idle, ConfirmsYoung, OthersKnown
<1>5. ReportsTrue
  BY DEF Init, NoInvocation, ReportsTrue
<1>6. RowsValid /\ RowsHaveOriginals /\ ReadyServed
  BY <1>2 DEF Init, RowsValid, RowsHaveOriginals, ReadyServed
<1> QED  BY <1>1, <1>3, <1>4, <1>5, <1>6 DEF IInv

LEMMA BucketNext == ASSUME ~LateConfirm, IInv, [Next]_vars PROVE IInv'
<1>t. TypeOK  BY DEF IInv
<1>1. TypeOK'  BY <1>t, NextTypes
<1>2. CASE Next
  BY <1>1, <1>2, RemovedKept, ConfirmsKept, CallsKnown, AgedKept, SweepKept, ImagesKept DEF IInv
<1>3. CASE UNCHANGED vars
  <2>1. /\ RemovedForGood' /\ ConfirmsYoung' /\ OthersKnown' /\ AgedExpired'
        /\ RowsValid' /\ RowsHaveOriginals' /\ ReadyServed'
    BY <1>3 DEF IInv, vars, rowVars, bucketVars, RemovedForGood, ConfirmsYoung, OthersKnown,
       AgedExpired, RowsValid, RowsHaveOriginals, ReadyServed, Rows
  <2>2. AgedKnown' /\ SweepKnown' /\ ReportsTrue'
    BY <1>3 DEF IInv, vars, rowVars, bucketVars, AgedKnown, SweepKnown, ReportsTrue, Gone, Rows
  <2> QED  BY <1>1, <2>1, <2>2 DEF IInv
<1> QED  BY <1>2, <1>3

(* Unless an image is confirmed when its upload is already old enough for  *)
(* the sweep, no row ever loses its original (media-sweep.ts:12): not to   *)
(* the sweep, a remove, or the rejection of a second confirm.              *)
THEOREM RowsAlwaysHaveOriginals == ASSUME ~LateConfirm PROVE Spec => []RowsHaveOriginals
<1>1. IInv => RowsHaveOriginals  BY DEF IInv
<1>2. IInv /\ [Next]_vars => IInv'  BY BucketNext
<1> QED  BY <1>1, <1>2, BucketInit, PTL DEF Spec

(* An image shown as ready has its variants, however the Lambda's reports, *)
(* reprocesses, removes and sweeps overlap.                                *)
THEOREM ReadyAlwaysServed == ASSUME ~LateConfirm PROVE Spec => []ReadyServed
<1>1. IInv => ReadyServed  BY DEF IInv
<1>2. IInv /\ [Next]_vars => IInv'  BY BucketNext
<1> QED  BY <1>1, <1>2, BucketInit, PTL DEF Spec

(* A removed image never comes back: not by a report, a reprocess or a     *)
(* confirm that was under way, nor by one that is called again.            *)
THEOREM RemovedStaysRemoved == ASSUME ~LateConfirm PROVE Spec => []RemovedForGood
<1>1. IInv => RemovedForGood  BY DEF IInv
<1>2. IInv /\ [Next]_vars => IInv'  BY BucketNext
<1> QED  BY <1>1, <1>2, BucketInit, PTL DEF Spec

-----------------------------------------------------------------------------
(* What is shown has been checked twice, by the confirm and by the Lambda, *)
(* whenever it was confirmed.                                              *)
Checked ==
  /\ \A w \in Workers : call[w].pc = "insert" => Content[call[w].media] # "invalid"
  /\ RowsValid
  /\ \A i \in Invocations :
       invocation[i].pc \in {"put", "ready"} => Content[invocation[i].media] # "corrupt"
  /\ \A m \in Media \ External : status[m] = "ready" => Content[m] # "corrupt"

OnlyGoodShown == \A m \in Media \ External : status[m] = "ready" => Content[m] = "good"

(* An invocation gets to its variants by an original that can be decoded.  *)
LEMMA PutSteps ==
  ASSUME TypeOK, Next, NEW i \in Invocations, invocation'[i].pc = "put"
  PROVE  \/ invocation'[i] = invocation[i]
         \/ Content[invocation'[i].media] # "corrupt"
<1>r. CallTyped /\ InvocationTyped  BY TypeParts
<1>1. ASSUME NEW m \in Media, Upload(m)  PROVE invocation'[i] = invocation[i]
  BY <1>1, <1>r, TriggerTypes DEF Upload
<1>2. ASSUME NEW w \in Workers, CopyInPlace(w)  PROVE invocation'[i] = invocation[i]
  BY <1>2, <1>r, TriggerTypes DEF CopyInPlace, CallTyped
<1>3. ASSUME NEW j \in Invocations, Retry(j)  PROVE invocation'[i] = invocation[i]
  BY <1>3, <1>r, RetryTypes
<1>4. ASSUME NEW j \in Invocations, Got(j)
      PROVE  invocation'[i] = invocation[i] \/ Content[invocation'[i].media] # "corrupt"
  <2>1. invocation[j].pc # "idle"  BY <1>4 DEF Got
  <2>2. CASE Content[invocation[j].media] # "corrupt" /\ InvocationAt(j, "put")
    BY <1>r, <2>1, <2>2, InvocationAtTypes
  <2>3. CASE Ended(j) \/ InvocationAt(j, "failed")
    BY <1>r, <2>1, <2>3, EndedTypes, InvocationAtTypes
  <2> QED  BY <1>4, <2>2, <2>3 DEF Got
<1>5. ASSUME NEW j \in Invocations,
             \/ PutVariants(j) \/ ApplyProcessingResult(j) \/ Counted(j)
             \/ GiveUp(j) \/ InvocationFails(j)
      PROVE  invocation'[i] = invocation[i]
  <2>1. /\ invocation[j].pc # "idle"
        /\ Ended(j) \/ \E pc \in {"ready", "count", "retry"} : InvocationAt(j, pc)
    BY <1>5 DEF PutVariants, ApplyProcessingResult, Counted, GiveUp, InvocationFails
  <2> QED  BY <1>r, <2>1, EndedTypes, InvocationAtTypes
<1>6. \/ UNCHANGED invocation
      \/ \E m \in Media : Upload(m)
      \/ \E w \in Workers : CopyInPlace(w)
      \/ \E j \in Invocations : Lambda(j) \/ InvocationFails(j)
  <2>1. CASE Elsewhere
    BY <2>1 DEF Elsewhere, Sweep, CreateUpload, Expire, TimeOut, Age, ConfirmCalled, ReprocessCalled,
       ConfirmVerified, Cleanup, Flip, CopyFailed, RecordFailure, CallFails, Listed, LookedUp,
       Swept, SweepDies
  <2>2. CASE ~Elsewhere
    BY <2>2, Steps DEF MakePrimary, Reorder, ConfirmInserted, Remove
  <2> QED  BY <2>1, <2>2
<1> QED  BY <1>1, <1>2, <1>3, <1>4, <1>5, <1>6 DEF Lambda

LEMMA CheckedNext == ASSUME TypeOK, Checked, [Next]_vars PROVE Checked'
<1>1. CASE UNCHANGED vars
  BY <1>1 DEF vars, rowVars, bucketVars, Checked, RowsValid, Rows
<1>2. CASE Next
  <2>r. CallTyped /\ InvocationTyped  BY TypeParts
  <2>1. ASSUME NEW w \in Workers, call'[w].pc = "insert"
        PROVE  Content[call'[w].media] # "invalid"
    <3>1. CASE call'[w] = call[w]
      BY <2>1, <3>1 DEF Checked
    <3>2. ASSUME NEW m \in Media, ConfirmCalled(w, m)  PROVE FALSE
      BY <2>1, <2>r, <3>2, GotoTypes DEF ConfirmCalled
    <3>3. CASE ConfirmVerified(w)
      <4>1. call[w].media \in Media  BY <2>r, <3>3 DEF ConfirmVerified, CallTyped
      <4>2. \/ Content[call[w].media] # "invalid" /\ Goto(w, "insert", call[w].media)
            \/ Finish(w)
        BY <3>3 DEF ConfirmVerified
      <4> QED  BY <2>1, <2>r, <4>1, <4>2, GotoTypes, FinishTypes
    <3> QED  BY <1>2, <2>1, <3>1, <3>2, <3>3, ConfirmMoves
  <2>2. RowsValid'
    <3> SUFFICES ASSUME NEW m \in Rows' \ External PROVE Content[m] # "invalid"
      BY DEF RowsValid
    <3>1. m \in Rows \/ \E w \in Workers : call[w].pc = "insert" /\ call[w].media = m
      BY <1>2, RowsSteps
    <3> QED  BY <3>1 DEF Checked, RowsValid
  <2>3. ASSUME NEW i \in Invocations, invocation'[i].pc \in {"put", "ready"}
        PROVE  Content[invocation'[i].media] # "corrupt"
    <3>1. CASE invocation'[i].pc = "put"
      BY <1>2, <3>1, PutSteps DEF Checked
    <3>2. CASE invocation'[i].pc = "ready"
      <4>1. /\ invocation'[i].media = invocation[i].media
            /\ invocation[i].pc = "ready" \/ PutVariants(i)
        BY <1>2, <3>2, ReadySteps
      <4>2. invocation[i].pc \in {"put", "ready"}  BY <4>1 DEF PutVariants
      <4> QED  BY <4>1, <4>2 DEF Checked
    <3> QED  BY <2>3, <3>1, <3>2
  <2>4. ASSUME NEW m \in Media \ External, status'[m] = "ready"
        PROVE  Content[m] # "corrupt"
    BY <1>2, <2>4, ReadySteps DEF Checked
  <2> QED  BY <2>1, <2>2, <2>3, <2>4 DEF Checked
<1> QED  BY <1>1, <1>2

(* An image shown as ready is what its key says and can be decoded: no     *)
(* order of uploads, confirms, reprocesses, reports and retries gets a bad *)
(* file past the confirm's check and the Lambda's.                         *)
THEOREM OnlyGoodImagesShown == Spec => []OnlyGoodShown
<1>1. Init => Checked
  BY DEF Init, Idle, NoInvocation, Checked, RowsValid, Rows
<1>2. TypeOK /\ Checked => OnlyGoodShown
  <2> SUFFICES ASSUME Checked, NEW m \in Media \ External, status[m] = "ready"
               PROVE  Content[m] = "good"
    BY DEF OnlyGoodShown
  <2>1. m \in Rows  BY DEF Rows
  <2> QED  BY <2>1, MediaAssumption DEF Checked, RowsValid
<1> QED  BY <1>1, <1>2, CheckedNext, TypeAlwaysOK, PTL DEF Spec
=============================================================================
