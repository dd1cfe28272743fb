------------------------------ MODULE Listings ------------------------------
(***************************************************************************)
(* One vendor's listings: the sheets the vendor uploads                    *)
(* (vendor-catalog-import.service.ts over vendor-match-ladder.service.ts), *)
(* the admins' review queue of rows nobody could match, the confirmation   *)
(* of paused listings, and single changes (vendor-listings.service.ts,     *)
(* stock.service.ts).  Only createListing uses a transaction; everything   *)
(* else is one statement after another, and may stop between any two.      *)
(*                                                                         *)
(* An upload hands the ladder no brand, category or stone variety, so of   *)
(* its steps only the map, the identifiers and the fuzzy search remain:    *)
(* what a reference names exactly is Code.  Prices, quantities and grades  *)
(* are left out: a product has one listing, told to be in stock or not.    *)
(***************************************************************************)
EXTENDS FiniteSets, Naturals

CONSTANTS
  Products,
  References,   \* what a sheet's product_code cell may say
  Skus,         \* the vendor's own codes
  Code,         \* the product whose code or GTIN a reference is, or Null
  Lines,        \* the rows of the vendor's sheets
  Reviews,      \* catalog_import_row rows there may be
  Workers,      \* concurrent requests
  Null,
  MaxRows       \* bound on the rows of a sheet

Statuses == {"active", "paused", "out_of_stock"}

(* cell: the status cell, as normalizeListingStatus understands it.        *)
Line == [ref : References, sku : Skus \cup {Null}, stocked : BOOLEAN,
         cell : Statuses \cup {"blank", "unknown"}]

ASSUME ListingsAssumption ==
  /\ Code \in [References -> Products \cup {Null}]
  /\ Lines \subseteq Line
  /\ Null \notin Products \cup Skus \cup References \cup Lines \cup Reviews
  /\ MaxRows \in Nat

VARIABLES
  listing,   \* vendor_listing by product: its status, "none" without a row
  sku,       \* and its vendor_sku
  stocked,   \* products whose listing has an inventory row
  map,       \* vendor_product_map
  review,    \* catalog_import_row: status and raw row
  call,      \* what each request is doing
  told       \* history: listings an answer or a review row says are stocked

rows == <<listing, sku, stocked>>
vars == <<rows, map, review, call, told>>

-----------------------------------------------------------------------------
Keys == Skus \cup References

\* Mutant: what is remembered is what the sheet happened to say.
ReferenceOnly(line) == line.ref

(* vendorSku ?? productRef                                                 *)
KeyOf(line) == IF line.sku = Null THEN line.ref ELSE line.sku

Listed == {p \in Products : listing[p] # "none"}

NoReview == [status |-> "none", line |-> Null]

(* todo: rows left of a sheet; line, product, key: the row in hand; read:  *)
(* the listing's status when it was read; row: whether the listing that    *)
(* was read is still there; review, seen: the review row being linked, and *)
(* its status when it was read; known: history, the rows that were         *)
(* approved when the upload began.                                         *)
Idle == [pc |-> "idle", todo |-> {}, line |-> Null, product |-> Null, key |-> Null,
         read |-> "none", row |-> "none", review |-> Null, seen |-> "none", known |-> {}]

Init ==
  /\ listing = [p \in Products |-> "none"]
  /\ sku = [p \in Products |-> Null]
  /\ stocked = {}
  /\ map = [k \in Keys |-> Null]
  /\ review = [r \in Reviews |-> NoReview]
  /\ call = [w \in Workers |-> Idle]
  /\ told = {}

-----------------------------------------------------------------------------
Set(w, c) == call' = [call EXCEPT ![w] = c]

Goto(w, pc) == call' = [call EXCEPT ![w].pc = pc]

Linking(w) == call[w].review # Null

(* The row is done: an upload takes the next, a link is approved.          *)
LineDone(w) ==
  IF Linking(w)
    THEN Goto(w, "approve")
    ELSE Set(w, [Idle EXCEPT !.pc = "row", !.todo = call[w].todo, !.known = call[w].known])

Holds(w) == call[w].row = "held"

(* UPDATE ... WHERE id: nothing happens if the row has been destroyed.     *)
Save(w, f, value) ==
  IF Holds(w) THEN [f EXCEPT ![call[w].product] = value] ELSE f

-----------------------------------------------------------------------------
(* importFile: rows without a reference or a price are turned down at once *)
(* and are left out.                                                       *)
Upload(w, sheet) ==
  /\ call[w].pc = "idle"
  /\ Cardinality(sheet) \in 1..MaxRows
  /\ Set(w, [Idle EXCEPT !.pc = "row", !.todo = sheet,
               !.known = {review[r].line : r \in {s \in Reviews : review[s].status = "approved"}}])
  /\ UNCHANGED <<rows, map, review, told>>

Uploaded(w) ==
  /\ call[w].pc = "row"
  /\ call[w].todo = {}
  /\ Set(w, Idle)
  /\ UNCHANGED <<rows, map, review, told>>

(* match: the map first, then what the reference names.                    *)
Matched(line) == IF map[KeyOf(line)] # Null THEN map[KeyOf(line)] ELSE Code[line.ref]

Match(w, line) ==
  /\ call[w].pc = "row"
  /\ line \in call[w].todo
  /\ Set(w, [call[w] EXCEPT
               !.pc = IF Matched(line) = Null THEN "stage" ELSE "create",
               !.todo = @ \ {line}, !.line = line, !.key = KeyOf(line),
               !.product = Matched(line)])
  /\ UNCHANGED <<rows, map, review, told>>

(* A row without a confident match waits for an admin.                     *)
Stage(w) ==
  /\ call[w].pc = "stage"
  /\ \E r \in Reviews :
       /\ review[r] = NoReview
       /\ review' = [review EXCEPT ![r] = [status |-> "needs_review", line |-> call[w].line]]
  /\ LineDone(w)
  /\ UNCHANGED <<rows, map, told>>

(* findOrCreate, by vendor and product.  Of the key in hand is kept what   *)
(* the listing that was read does not have.                                *)
FindOrCreate(w) ==
  LET p == call[w].product IN
  /\ call[w].pc = "create"
  /\ IF p \in Listed
       THEN UNCHANGED rows
       ELSE /\ listing' = [listing EXCEPT ![p] = "active"]
            /\ sku' = [sku EXCEPT ![p] = call[w].key]
            /\ UNCHANGED stocked
  /\ Set(w, [call[w] EXCEPT !.pc = IF Linking(w) THEN "status" ELSE "refresh",
               !.key = IF sku'[p] = @ THEN Null ELSE @, !.read = listing'[p], !.row = "held"])
  /\ UNCHANGED <<map, review, told>>

(* Price, MRP and vendor_sku of the listing are the row's; a vendor_sku    *)
(* that was read as such is not written again.                             *)
Refresh(w) ==
  /\ call[w].pc = "refresh"
  /\ sku' = IF call[w].key = Null THEN sku ELSE Save(w, sku, call[w].key)
  /\ Set(w, [call[w] EXCEPT !.pc = "status", !.key = Null])
  /\ UNCHANGED <<listing, stocked, map, review, told>>

(* An unknown status ends an uploaded row as rejected, and is passed over  *)
(* when an admin links it.                                                 *)
SaveStatus(w) ==
  LET cell == call[w].line.cell IN
  /\ call[w].pc = "status"
  /\ listing' = IF cell \in Statuses \ {call[w].read} THEN Save(w, listing, cell) ELSE listing
  /\ IF cell = "unknown" /\ ~Linking(w)
       THEN LineDone(w)
       ELSE Set(w, [call[w] EXCEPT !.pc = "stock", !.read = "none"])
  /\ UNCHANGED <<sku, stocked, map, review, told>>

\* Mutant: the inventory row does not refer to the listing.
ApplyUnchecked(w) ==
  /\ call[w].pc = "stock"
  /\ stocked' = IF call[w].line.stocked THEN stocked \cup {call[w].product} ELSE stocked
  /\ LineDone(w)
  /\ UNCHANGED <<listing, sku, map, review, told>>

(* applyInventory: a blank cell leaves the stock alone; the insert refers  *)
(* to the listing and fails without it.                                    *)
ApplyInventory(w) ==
  /\ call[w].pc = "stock"
  /\ IF call[w].line.stocked
       THEN /\ Holds(w)
            /\ stocked' = stocked \cup {call[w].product}
       ELSE UNCHANGED stocked
  /\ LineDone(w)
  /\ UNCHANGED <<listing, sku, map, review, told>>

InventoryRefused(w) ==
  /\ call[w].pc = "stock"
  /\ call[w].line.stocked /\ ~Holds(w)
  /\ Set(w, Idle)
  /\ UNCHANGED <<rows, map, review, told>>

-----------------------------------------------------------------------------
(* resolveReviewRowAsLink, of a row in whatever status.                    *)
LinkCalled(w, r, p) ==
  /\ call[w].pc = "idle"
  /\ review[r] # NoReview
  /\ Set(w, [Idle EXCEPT !.pc = "teach", !.line = review[r].line, !.product = p,
               !.key = KeyOf(review[r].line), !.review = r, !.seen = review[r].status])
  /\ UNCHANGED <<rows, map, review, told>>

(* The map is taught by a link, and by the confirmation of a listing.      *)
Teach(w) ==
  /\ call[w].pc = "teach"
  /\ map' = [map EXCEPT ![call[w].key] = call[w].product]
  /\ Goto(w, IF Linking(w) THEN "create" ELSE "activate")
  /\ UNCHANGED <<rows, review, told>>

\* Mutant: the row is approved as soon as its listing is there.
ApproveEarly(w) ==
  /\ call[w].pc = "status"
  /\ Linking(w)
  /\ review' = [review EXCEPT ![call[w].review].status = "approved"]
  /\ told' = IF call[w].line.stocked THEN told \cup {call[w].product} ELSE told
  /\ Goto(w, "stock")
  /\ UNCHANGED <<rows, map>>

(* A save writes what differs from what was read.                          *)
Approve(w) ==
  /\ call[w].pc = "approve"
  /\ review' = IF call[w].seen = "approved" THEN review
               ELSE [review EXCEPT ![call[w].review].status = "approved"]
  /\ told' = IF call[w].line.stocked /\ Holds(w) THEN told \cup {call[w].product} ELSE told
  /\ Set(w, Idle)
  /\ UNCHANGED <<rows, map>>

(* resolveReviewRowAsRejected                                              *)
RejectReview(r) ==
  /\ review[r].status \in {"needs_review", "approved"}
  /\ review' = [review EXCEPT ![r].status = "rejected"]
  /\ UNCHANGED <<rows, map, call, told>>

-----------------------------------------------------------------------------
(* confirmPendingListing and, no uploaded row having alternatives,         *)
(* choosePendingListingCandidate: the paused listing is read, the map is   *)
(* taught its vendor_sku, if it has one, and it goes live.                 *)
ConfirmCalled(w, p) ==
  /\ call[w].pc = "idle"
  /\ listing[p] = "paused"
  /\ Set(w, [Idle EXCEPT !.pc = IF sku[p] = Null THEN "activate" ELSE "teach",
               !.product = p, !.key = sku[p], !.row = "held"])
  /\ UNCHANGED <<rows, map, review, told>>

Activate(w) ==
  /\ call[w].pc = "activate"
  /\ listing' = Save(w, listing, "active")
  /\ Set(w, Idle)
  /\ UNCHANGED <<sku, stocked, map, review, told>>

(* rejectPendingListing: the listing goes, and its stock with it.          *)
RejectCalled(w, p) ==
  /\ call[w].pc = "idle"
  /\ listing[p] = "paused"
  /\ Set(w, [Idle EXCEPT !.pc = "destroy", !.product = p, !.row = "held"])
  /\ UNCHANGED <<rows, map, review, told>>

Destroy(w) ==
  LET p == call[w].product IN
  /\ call[w].pc = "destroy"
  /\ IF Holds(w)
       THEN /\ listing' = [listing EXCEPT ![p] = "none"]
            /\ sku' = [sku EXCEPT ![p] = Null]
            /\ stocked' = stocked \ {p}
            /\ told' = told \ {p}
       ELSE UNCHANGED <<rows, told>>
  /\ call' = [v \in Workers |->
                IF v = w THEN Idle
                ELSE IF Holds(w) /\ Holds(v) /\ call[v].product = p
                  THEN [call[v] EXCEPT !.row = "gone"]
                ELSE call[v]]
  /\ UNCHANGED <<map, review>>

(* An error, a reference from an order that forbids the deletion, or the   *)
(* end of the process.                                                     *)
CallFails(w) ==
  /\ call[w].pc # "idle"
  /\ Set(w, Idle)
  /\ UNCHANGED <<rows, map, review, told>>

-----------------------------------------------------------------------------
(* createListing: the listing and its first stock in one transaction; a    *)
(* second listing of a product is a conflict.                              *)
CreateListing(p, s, withStock) ==
  /\ p \notin Listed
  /\ listing' = [listing EXCEPT ![p] = "active"]
  /\ sku' = [sku EXCEPT ![p] = s]
  /\ stocked' = IF withStock THEN stocked \cup {p} ELSE stocked
  /\ told' = IF withStock THEN told \cup {p} ELSE told
  /\ UNCHANGED <<map, review, call>>

SetStatus(p, s) ==
  /\ p \in Listed
  /\ listing' = [listing EXCEPT ![p] = s]
  /\ UNCHANGED <<sku, stocked, map, review, call, told>>

(* setStock and bulkSetStock: all the listings or none.                    *)
SetStock(P) ==
  /\ P \subseteq Listed
  /\ stocked' = stocked \cup P
  /\ UNCHANGED <<listing, sku, map, review, call, told>>

-----------------------------------------------------------------------------
Import(w) ==
  \/ \E sheet \in SUBSET Lines : Upload(w, sheet)
  \/ \E line \in Lines : Match(w, line)
  \/ Uploaded(w) \/ Stage(w) \/ Refresh(w)

Resolve(w) ==
  \/ \E r \in Reviews, p \in Products : LinkCalled(w, r, p)
  \/ Approve(w)

Apply(w) ==
  \/ FindOrCreate(w) \/ SaveStatus(w) \/ ApplyInventory(w) \/ InventoryRefused(w)
  \/ Teach(w)

Confirmation(w) ==
  \/ \E p \in Products : ConfirmCalled(w, p) \/ RejectCalled(w, p)
  \/ Activate(w) \/ Destroy(w)

Next ==
  \/ \E w \in Workers : Import(w) \/ Resolve(w) \/ Apply(w) \/ Confirmation(w) \/ CallFails(w)
  \/ \E r \in Reviews : RejectReview(r)
  \/ \E p \in Products, s \in Skus \cup {Null}, b \in BOOLEAN : CreateListing(p, s, b)
  \/ \E p \in Products, s \in Statuses : SetStatus(p, s)
  \/ \E P \in SUBSET Products \ {{}} : SetStock(P)

Spec == Init /\ [][Next]_vars

-----------------------------------------------------------------------------
Call == [pc : {"idle", "row", "stage", "create", "refresh", "status", "stock", "teach",
               "approve", "activate", "destroy"},
         todo : SUBSET Lines, line : Lines \cup {Null}, product : Products \cup {Null},
         key : Keys \cup {Null}, read : Statuses \cup {"none"},
         row : {"none", "held", "gone"}, review : Reviews \cup {Null},
         seen : {"none", "needs_review", "approved", "rejected"}, known : SUBSET Lines]

(* Every column and every request has its type; a request that holds a     *)
(* listing's row holds one that is there.                                  *)
TypeOK ==
  /\ listing \in [Products -> Statuses \cup {"none"}]
  /\ sku \in [Products -> Keys \cup {Null}]
  /\ stocked \subseteq Listed
  /\ map \in [Keys -> Products \cup {Null}]
  /\ review \in [Reviews -> {NoReview} \cup [status : {"needs_review", "approved", "rejected"},
                                             line : Lines]]
  /\ call \in [Workers -> Call]
  /\ \A w \in Workers : Holds(w) => call[w].product \in Listed
  /\ told \subseteq Products

(* A row is the vendor's same item if it carries the same code of theirs,  *)
(* or, without one, the same reference.                                    *)
SameItem(l1, l2) ==
  IF l1.sku = Null THEN l2.sku = Null /\ l1.ref = l2.ref ELSE l1.sku = l2.sku

(* What an admin has linked is "never re-guessed on a future upload"       *)
(* (vendor-catalog-import.service.ts:48): a sheet uploaded after a review  *)
(* row was approved never puts the same item into the queue again, by      *)
(* whatever words the sheet names it, and wherever a link stopped.         *)
LinkedNotGuessedAgain ==
  \A w \in Workers :
    call[w].pc = "stage" => \A line \in call[w].known : ~SameItem(line, call[w].line)

(* A listing that was created with a quantity, or whose review row is      *)
(* approved with one, has its stock (vendor-listings.service.ts:72: no     *)
(* "orphaned active listing with no stock row"; and                        *)
(* vendor-catalog-import.service.ts:634: no "row that needed human help    *)
(* silently loses its stock").                                             *)
StockedAsTold == told \subseteq stocked
=============================================================================
