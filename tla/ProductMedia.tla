---------------------------- MODULE ProductMedia ----------------------------
(***************************************************************************)
(* The images of one product: media.service.ts (presign, confirm, edit,    *)
(* remove, reprocess, the Lambda's callback), the Lambda that makes the    *)
(* variants, and the sweep of objects no row refers to.  The row is in     *)
(* Postgres, its original and variants are in S3, and nothing spans both:  *)
(* every await is a step, and calls, invocations and sweeps die anywhere.  *)
(*                                                                         *)
(* The transactions all begin by locking the product's row (lockProduct),  *)
(* so each is one step.  The three variants of an image are one object     *)
(* here.                                                                   *)
(***************************************************************************)
EXTENDS FiniteSets, Naturals

CONSTANTS
  Media,          \* rows of master_product_media there may be
  External,       \* those that only have a URL, there from the start
  Workers,        \* concurrent admin calls
  Invocations,    \* concurrent Lambda invocations, queued events included
  NoMedia,
  MaxPerProduct,  \* MEDIA_MAX_PER_PRODUCT
  MaxDeletions,   \* the sweep's circuit breaker
  MaxTries,       \* how often S3 invokes the Lambda for one event
  MaxFaults,      \* bound: failures and crashes
  Content,        \* what is uploaded: "good", "corrupt" (only the Lambda finds
                  \* out) or "invalid" (not what its key says)
  LateConfirm     \* whether an image is confirmed after its upload has come to
                  \* the sweep's age, or (by a retried call) after its removal

ASSUME MediaAssumption ==
  /\ NoMedia \notin Media
  /\ External \subseteq Media
  /\ MaxPerProduct \in Nat
  /\ MaxDeletions \in Nat
  /\ MaxTries \in Nat \ {0}
  /\ MaxFaults \in Nat
  /\ Content \in [Media -> {"good", "corrupt", "invalid"}]
  /\ LateConfirm \in BOOLEAN

VARIABLES
  status,      \* master_product_media.processing_status, "none" without a row
  primary,     \* rows with is_primary
  order,       \* display_order
  timedOut,    \* rows in processing for longer than the timeout
  ticket,      \* the presigned POST: "none", "open", "expired"
  removed,     \* history: images whose row has been removed
  objects,     \* keys in the bucket
  aged,        \* those whose last_modified is older than the sweep's minimum age
  call,        \* admin calls
  invocation,  \* the Lambda
  sweep,       \* the sweep of orphans
  faults

rowVars == <<status, primary, order, timedOut>>
bucketVars == <<objects, aged>>
vars == <<rowVars, bucketVars, ticket, removed, call, invocation, sweep, faults>>

Original(m) == [kind |-> "original", media |-> m]

Variants(m) == [kind |-> "variants", media |-> m]

Key == [kind : {"original", "variants"}, media : Media]

KeysOf(m) == {Original(m), Variants(m)}

Rows == {m \in Media : status[m] # "none"}

Positions == 0..(Cardinality(Media) - 1)

Idle == [pc |-> "idle", media |-> NoMedia]

NoInvocation == [pc |-> "idle", media |-> NoMedia, tries |-> 0]

IdleSweep == [pc |-> "idle", keys |-> {}]

Init ==
  /\ status = [m \in Media |-> IF m \in External THEN "ready" ELSE "none"]
  /\ primary \in IF External = {} THEN {{}} ELSE {{m} : m \in External}
  /\ order \in [Media -> Positions]
  /\ \A m \in Media \ External : order[m] = 0
  /\ \A m, n \in External : m # n => order[m] # order[n]
  /\ timedOut = {}
  /\ ticket = [m \in Media |-> "none"]
  /\ removed = {}
  /\ objects = {}
  /\ aged = {}
  /\ call = [w \in Workers |-> Idle]
  /\ invocation = [i \in Invocations |-> NoInvocation]
  /\ sweep = IdleSweep
  /\ faults = 0

-----------------------------------------------------------------------------
Goto(w, pc, m) == call' = [call EXCEPT ![w] = [pc |-> pc, media |-> m]]

Finish(w) == Goto(w, "idle", NoMedia)

InvocationAt(i, pc) == invocation' = [invocation EXCEPT ![i].pc = pc]

Ended(i) == invocation' = [invocation EXCEPT ![i] = NoInvocation]

(* An object is written: its last_modified is now.                         *)
Store(k) ==
  /\ objects' = objects \cup {k}
  /\ aged' = aged \ {k}

Erase(keys) ==
  /\ objects' = objects \ keys
  /\ aged' = aged \ keys

(* A new original makes S3 invoke the Lambda.                              *)
Trigger(m) ==
  \E i \in Invocations :
    /\ invocation[i].pc = "idle"
    /\ invocation' = [invocation EXCEPT ![i] = [pc |-> "get", media |-> m, tries |-> 1]]

(* Any UPDATE of a row sets its updated_at, from which a timeout counts.   *)
Touch(written) == timedOut' = timedOut \ written

SetStatus(m, s) ==
  /\ status' = [status EXCEPT ![m] = s]
  /\ Touch({m})

(* The rows whose is_primary is written.                                   *)
Reprimed == (primary \ primary') \cup (primary' \ primary)

Confirming(w, m) == call[w].pc \in {"verify", "insert"} /\ call[w].media = m

-----------------------------------------------------------------------------
(* createUpload, and the browser's POST, which it may repeat while the     *)
(* ticket is valid.                                                        *)
CreateUpload(m) ==
  /\ m \notin External
  /\ ticket[m] = "none"
  /\ Cardinality(Rows) < MaxPerProduct
  /\ ticket' = [ticket EXCEPT ![m] = "open"]
  /\ UNCHANGED <<rowVars, bucketVars, removed, call, invocation, sweep, faults>>

Upload(m) ==
  /\ ticket[m] = "open"
  /\ Store(Original(m))
  /\ Trigger(m)
  /\ UNCHANGED <<rowVars, ticket, removed, call, sweep, faults>>

Expire(m) ==
  /\ ticket[m] = "open"
  /\ ticket' = [ticket EXCEPT ![m] = "expired"]
  /\ UNCHANGED <<rowVars, bucketVars, removed, call, invocation, sweep, faults>>

-----------------------------------------------------------------------------
(* confirm: the row is looked for, the upload checked, and the row written *)
(* under the product's lock.                                               *)
ConfirmCalled(w, m) ==
  /\ call[w].pc = "idle"
  /\ ticket[m] # "none"
  /\ status[m] = "none"
  /\ LateConfirm \/ (m \notin removed /\ Original(m) \notin aged)
  /\ Goto(w, "verify", m)
  /\ UNCHANGED <<rowVars, bucketVars, ticket, removed, invocation, sweep, faults>>

ConfirmVerified(w) ==
  LET m == call[w].media IN
  /\ call[w].pc = "verify"
  /\ IF Original(m) \in objects /\ Content[m] # "invalid"
       THEN Goto(w, "insert", m) /\ UNCHANGED bucketVars
       ELSE Finish(w) /\ Erase({Original(m)})
  /\ UNCHANGED <<rowVars, ticket, removed, invocation, sweep, faults>>

\* Mutant: the next display order is the number of rows.
CountAsOrder == {Cardinality(Rows)}

NextOrder ==
  IF Rows = {} THEN {0}
  ELSE {order[m] + 1 : m \in {last \in Rows : \A n \in Rows : order[n] <= order[last]}}

InsertRow(m, makePrimary) ==
  /\ status' = [status EXCEPT ![m] = "processing"]
  /\ primary' = IF makePrimary \/ primary = {} THEN {m} ELSE primary
  /\ Touch({m} \cup Reprimed)
  /\ \E n \in NextOrder : order' = [order EXCEPT ![m] = n]

ConfirmInserted(w, makePrimary) ==
  LET m == call[w].media IN
  /\ call[w].pc = "insert"
  /\ IF status[m] = "none" /\ Cardinality(Rows) < MaxPerProduct
       THEN InsertRow(m, makePrimary)
       ELSE UNCHANGED rowVars
  /\ Finish(w)
  /\ UNCHANGED <<bucketVars, ticket, removed, invocation, sweep, faults>>

-----------------------------------------------------------------------------
(* update and reorder                                                      *)
MakePrimary(m) ==
  /\ m \in Rows \ primary
  /\ primary' = {m}
  /\ Touch(Reprimed)
  /\ UNCHANGED <<status, order, bucketVars, ticket, removed, call, invocation,
                 sweep, faults>>

Reorder(f) ==
  /\ \A m \in Rows : f[m] < Cardinality(Rows)
  /\ \A m, n \in Rows : m # n => f[m] # f[n]
  /\ order' = [m \in Media |-> IF m \in Rows THEN f[m] ELSE order[m]]
  /\ Touch(Rows)
  /\ UNCHANGED <<status, primary, bucketVars, ticket, removed, call, invocation,
                 sweep, faults>>

(* remove: the row goes, and the first of the others is primary if it was; *)
(* the objects are deleted after the commit, or left to the sweep.         *)
\* Mutant: nothing takes the place of a removed primary.
NoPromotion(m) == {primary \ {m}}

Promotions(m) ==
  LET rest == Rows \ {m} IN
  IF m \notin primary THEN {primary}
  ELSE IF rest = {} THEN {{}}
  ELSE {{n} : n \in {first \in rest : \A o \in rest : order[first] <= order[o]}}

Remove(w, m) ==
  /\ call[w].pc = "idle"
  /\ m \in Rows
  /\ LateConfirm \/ \A v \in Workers : ~Confirming(v, m)
  /\ status' = [status EXCEPT ![m] = "none"]
  /\ order' = [order EXCEPT ![m] = 0]
  /\ primary' \in Promotions(m)
  /\ Touch({m} \cup Reprimed)
  /\ removed' = removed \cup {m}
  /\ IF m \in External THEN UNCHANGED call ELSE Goto(w, "cleanup", m)
  /\ UNCHANGED <<bucketVars, ticket, invocation, sweep, faults>>

Cleanup(w) ==
  /\ call[w].pc = "cleanup"
  /\ Erase(KeysOf(call[w].media))
  /\ Finish(w)
  /\ UNCHANGED <<rowVars, ticket, removed, invocation, sweep, faults>>

-----------------------------------------------------------------------------
(* toItem: what an admin sees, timeouts included.                          *)
Displayed(m) == IF m \in timedOut THEN "failed" ELSE status[m]

\* Mutant: only a row stored as failed can be reprocessed.
ReprocessStoredFailed(w, m) ==
  /\ call[w].pc = "idle"
  /\ status[m] = "failed"
  /\ Goto(w, "flip", m)
  /\ UNCHANGED <<rowVars, bucketVars, ticket, removed, invocation, sweep, faults>>

(* reprocess: read, set to processing without a guard, copy the original   *)
(* onto itself, and record the failure of that.                            *)
ReprocessCalled(w, m) ==
  /\ call[w].pc = "idle"
  /\ Displayed(m) = "failed"
  /\ Goto(w, "flip", m)
  /\ UNCHANGED <<rowVars, bucketVars, ticket, removed, invocation, sweep, faults>>

UpdateIfThere(m, s) == IF m \in Rows THEN SetStatus(m, s) ELSE UNCHANGED <<status, timedOut>>

Flip(w) ==
  LET m == call[w].media IN
  /\ call[w].pc = "flip"
  /\ UpdateIfThere(m, "processing")
  /\ Goto(w, "copy", m)
  /\ UNCHANGED <<primary, order, bucketVars, ticket, removed, invocation, sweep, faults>>

CopyInPlace(w) ==
  LET m == call[w].media IN
  /\ call[w].pc = "copy"
  /\ Original(m) \in objects
  /\ Store(Original(m))
  /\ Trigger(m)
  /\ Finish(w)
  /\ UNCHANGED <<rowVars, ticket, removed, sweep, faults>>

CopyFailed(w) ==
  LET m == call[w].media IN
  /\ call[w].pc = "copy"
  /\ IF Original(m) \in objects
       THEN faults < MaxFaults /\ faults' = faults + 1
       ELSE UNCHANGED faults
  /\ Goto(w, "fail", m)
  /\ UNCHANGED <<rowVars, bucketVars, ticket, removed, invocation, sweep>>

RecordFailure(w) ==
  /\ call[w].pc = "fail"
  /\ UpdateIfThere(call[w].media, "failed")
  /\ Finish(w)
  /\ UNCHANGED <<primary, order, bucketVars, ticket, removed, invocation, sweep, faults>>

CallFails(w) ==
  /\ call[w].pc # "idle"
  /\ faults < MaxFaults
  /\ faults' = faults + 1
  /\ Finish(w)
  /\ UNCHANGED <<rowVars, bucketVars, ticket, removed, invocation, sweep>>

TimeOut(m) ==
  /\ status[m] = "processing"
  /\ m \notin timedOut
  /\ timedOut' = timedOut \cup {m}
  /\ UNCHANGED <<status, primary, order, bucketVars, ticket, removed, call, invocation,
                 sweep, faults>>

-----------------------------------------------------------------------------
\* Mutant: the variants are not waited for.
GotUnwritten(i) ==
  LET m == invocation[i].media IN
  /\ invocation[i].pc = "get"
  /\ IF Original(m) \in objects
       THEN InvocationAt(i, "ready") ELSE Ended(i)
  /\ UNCHANGED <<rowVars, bucketVars, ticket, removed, call, sweep, faults>>

(* processRecord: an original that is gone is ignored, a bad one reported  *)
(* as failed, a good one's variants are written and reported as ready.     *)
Got(i) ==
  LET m == invocation[i].media IN
  /\ invocation[i].pc = "get"
  /\ \/ Original(m) \notin objects /\ Ended(i)
     \/ Original(m) \in objects /\ Content[m] # "corrupt" /\ InvocationAt(i, "put")
     \/ Original(m) \in objects /\ Content[m] # "good" /\ InvocationAt(i, "failed")
  /\ UNCHANGED <<rowVars, bucketVars, ticket, removed, call, sweep, faults>>

PutVariants(i) ==
  LET m == invocation[i].media IN
  /\ invocation[i].pc = "put"
  /\ Store(Variants(m))
  /\ InvocationAt(i, "ready")
  /\ UNCHANGED <<rowVars, ticket, removed, call, sweep, faults>>

(* applyProcessingResult: only a row in processing is updated,             *)
ApplyProcessingResult(i) ==
  LET m == invocation[i].media IN
  /\ invocation[i].pc \in {"ready", "failed"}
  /\ \/ status[m] = "processing" /\ SetStatus(m, invocation[i].pc) /\ Ended(i)
     \/ /\ status[m] # "processing" /\ InvocationAt(i, "count")
        /\ UNCHANGED <<status, timedOut>>
  /\ UNCHANGED <<primary, order, bucketVars, ticket, removed, call, sweep, faults>>

(* otherwise the rows are counted: none is a 404, on which the Lambda      *)
(* throws and S3 tries again, but one that came meanwhile is left as it is. *)
Counted(i) ==
  /\ invocation[i].pc = "count"
  /\ IF invocation[i].media \in Rows THEN Ended(i) ELSE InvocationAt(i, "retry")
  /\ UNCHANGED <<rowVars, bucketVars, ticket, removed, call, sweep, faults>>

InvocationFails(i) ==
  /\ invocation[i].pc \in {"get", "put", "ready", "failed", "count"}
  /\ faults < MaxFaults
  /\ faults' = faults + 1
  /\ InvocationAt(i, "retry")
  /\ UNCHANGED <<rowVars, bucketVars, ticket, removed, call, sweep>>

Retry(i) ==
  /\ invocation[i].pc = "retry"
  /\ invocation[i].tries < MaxTries
  /\ invocation' = [invocation EXCEPT ![i].pc = "get", ![i].tries = @ + 1]
  /\ UNCHANGED <<rowVars, bucketVars, ticket, removed, call, sweep, faults>>

(* The event is parked in the dead-letter queue.                           *)
GiveUp(i) ==
  /\ invocation[i].pc = "retry"
  /\ invocation[i].tries = MaxTries
  /\ Ended(i)
  /\ UNCHANGED <<rowVars, bucketVars, ticket, removed, call, sweep, faults>>

-----------------------------------------------------------------------------
(* The objects of an upload come to the sweep's minimum age, which is far  *)
(* longer than a ticket is valid or, unless LateConfirm, a confirm takes.  *)
Age(m) ==
  /\ ticket[m] = "expired"
  /\ (KeysOf(m) \cap objects) \ aged # {}
  /\ aged' = aged \cup (KeysOf(m) \cap objects)
  /\ call' = [w \in Workers |-> IF Confirming(w, m) /\ ~LateConfirm THEN Idle ELSE call[w]]
  /\ UNCHANGED <<rowVars, objects, ticket, removed, invocation, sweep, faults>>

(* sweepOrphanMedia: list, look the ids up, delete what has no row unless  *)
(* it is too much.                                                         *)
SweepGoto(pc, keys) == sweep' = [pc |-> pc, keys |-> keys]

\* Mutant: an upload that may be in flight is not skipped.
ListedAll ==
  /\ sweep.pc = "idle"
  /\ SweepGoto("lookup", objects)
  /\ UNCHANGED <<rowVars, bucketVars, ticket, removed, call, invocation, faults>>

\* Mutant: the variants' prefix is left out.
ListedOriginals ==
  /\ sweep.pc = "idle"
  /\ SweepGoto("lookup", {k \in aged : k.kind = "original"})
  /\ UNCHANGED <<rowVars, bucketVars, ticket, removed, call, invocation, faults>>

Listed ==
  /\ sweep.pc = "idle"
  /\ SweepGoto("lookup", aged)
  /\ UNCHANGED <<rowVars, bucketVars, ticket, removed, call, invocation, faults>>

LookedUp ==
  LET orphans == {k \in sweep.keys : k.media \notin Rows} IN
  /\ sweep.pc = "lookup"
  /\ IF Cardinality(orphans) > MaxDeletions
       THEN SweepGoto("idle", {}) ELSE SweepGoto("delete", orphans)
  /\ UNCHANGED <<rowVars, bucketVars, ticket, removed, call, invocation, faults>>

Swept ==
  /\ sweep.pc = "delete"
  /\ Erase(sweep.keys)
  /\ SweepGoto("idle", {})
  /\ UNCHANGED <<rowVars, ticket, removed, call, invocation, faults>>

SweepDies ==
  /\ sweep.pc # "idle"
  /\ faults < MaxFaults
  /\ faults' = faults + 1
  /\ SweepGoto("idle", {})
  /\ UNCHANGED <<rowVars, bucketVars, ticket, removed, call, invocation>>

-----------------------------------------------------------------------------
Begin(w, m) == ConfirmCalled(w, m) \/ Remove(w, m) \/ ReprocessCalled(w, m)

Proceed(w) ==
  \/ ConfirmVerified(w)
  \/ \E b \in BOOLEAN : ConfirmInserted(w, b)
  \/ Cleanup(w)
  \/ Flip(w)
  \/ CopyInPlace(w)
  \/ CopyFailed(w)
  \/ RecordFailure(w)

Lambda(i) ==
  \/ Got(i) \/ PutVariants(i) \/ ApplyProcessingResult(i) \/ Counted(i)
  \/ Retry(i) \/ GiveUp(i)

Sweep == Listed \/ LookedUp \/ Swept

Next ==
  \/ \E m \in Media : \/ CreateUpload(m)
                      \/ Upload(m)
                      \/ Expire(m)
                      \/ MakePrimary(m)
                      \/ TimeOut(m)
                      \/ Age(m)
  \/ \E f \in [Media -> Positions] : Reorder(f)
  \/ \E w \in Workers : Proceed(w) \/ CallFails(w) \/ \E m \in Media : Begin(w, m)
  \/ \E i \in Invocations : Lambda(i) \/ InvocationFails(i)
  \/ Sweep
  \/ SweepDies

Spec == Init /\ [][Next]_vars

(* Calls, invocations and sweeps that have begun go on; the sweep's timer  *)
(* and all other time goes on; and an admin presses Retry when an image    *)
(* keeps showing as failed.                                                *)
Fairness ==
  /\ \A w \in Workers : WF_vars(Proceed(w))
  /\ \A i \in Invocations : WF_vars(Lambda(i))
  /\ \A m \in Media \ External :
       /\ WF_vars(Expire(m) \/ TimeOut(m))
       /\ WF_vars(Age(m))
       /\ SF_vars(\E w \in Workers : ReprocessCalled(w, m))
  /\ WF_vars(Sweep)

FairSpec == Spec /\ Fairness

-----------------------------------------------------------------------------
Call == [pc : {"idle", "verify", "insert", "cleanup", "flip", "copy", "fail"},
         media : Media \cup {NoMedia}]

Invocation == [pc : {"idle", "get", "put", "ready", "failed", "count", "retry"},
               media : Media \cup {NoMedia}, tries : 0..MaxTries]

(* Every column, object and step keeps its type.                           *)
TypeOK ==
  /\ status \in [Media -> {"none", "processing", "ready", "failed"}]
  /\ primary \subseteq Media
  /\ order \in [Media -> Nat]
  /\ timedOut \subseteq {m \in Media : status[m] = "processing"}
  /\ ticket \in [Media -> {"none", "open", "expired"}]
  /\ removed \subseteq Media
  /\ objects \subseteq Key
  /\ aged \subseteq objects
  /\ call \in [Workers -> Call]
  /\ invocation \in [Invocations -> Invocation]
  /\ \A w \in Workers : call[w].pc # "idle" => call[w].media \in Media
  /\ \A i \in Invocations : invocation[i].pc # "idle" => invocation[i].media \in Media
  /\ sweep \in [pc : {"idle", "lookup", "delete"}, keys : SUBSET Key]
  /\ faults \in 0..MaxFaults

(* A product with images has exactly one primary, which is one of them,    *)
(* however confirms, updates and removes overlap (media.service.ts:219:    *)
(* "a product must keep a primary image").                                 *)
OnePrimary ==
  /\ primary \subseteq Rows
  /\ Rows # {} => \E m \in Rows : primary = {m}

(* Its images are shown in one order: no two have the same display order,  *)
(* which remove and the search go by.                                      *)
GalleryInOrder == \A m, n \in Rows : m # n => order[m] # order[n]

(* A row never loses its objects (media-sweep.ts:12: "a media id that      *)
(* exists in the database keeps all of its objects"): neither the sweep    *)
(* nor a remove or a rejected upload deletes the original of an image that *)
(* is there, and one shown as ready has its variants to serve.             *)
RowsHaveOriginals == \A m \in Rows \ External : Original(m) \in objects

ReadyServed == \A m \in Media \ External : status[m] = "ready" => Variants(m) \in objects

(* What no row refers to goes: an abandoned upload, what a failed cleanup  *)
(* left, and variants the Lambda writes after their image was removed.     *)
LeftoversSwept ==
  \A m \in Media \ External :
    m \notin Rows ~> (m \in Rows \/ KeysOf(m) \cap objects = {})

(* An admin who keeps pressing Retry gets every good image ready, however  *)
(* its events were lost, late or overtaken.                                *)
RetriedUntilReady ==
  \A m \in Media \ External :
    (Content[m] = "good" /\ m \in Rows) ~> status[m] \in {"ready", "none"}
=============================================================================
