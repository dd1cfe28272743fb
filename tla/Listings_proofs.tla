-------------------------- MODULE Listings_proofs --------------------------
(***************************************************************************)
(* What was linked is not queued again, and what was told to be stocked    *)
(* is.  Both rest on what a request in each of its steps may count on: the *)
(* map knows the item of an approved review row, and of a link from the    *)
(* step that teaches it on; nothing ever leaves the map; and only the end  *)
(* of a listing takes its stock, which the requests that hold the listing  *)
(* notice.                                                                 *)
(***************************************************************************)
EXTENDS Listings, TLAPS

USE ListingsAssumption

Taught(line) == map[KeyOf(line)] # Null

Known(r) == review[r].status # "none"

(* What holds of the request whose state is c.                             *)
StepFine(c) ==
  /\ c.pc \in {"create", "refresh", "status", "stock", "teach", "approve", "activate", "destroy"}
       => c.product \in Products
  /\ c.pc \in {"stage", "create", "refresh", "status", "stock", "approve"} => c.line \in Lines
  /\ c.pc = "teach" => c.key \in Keys
  /\ c.pc = "row" => c.row # "held"
  /\ c.row = "held" => c.product \in Listed

LinkFine(c) ==
  c.review # Null =>
    /\ c.pc \in {"teach", "create", "status", "stock", "approve"}
    /\ Known(c.review) /\ c.line = review[c.review].line
    /\ c.pc = "teach" => c.key = KeyOf(c.line)
    /\ c.pc # "teach" => Taught(c.line)

UploadFine(c) ==
  /\ \A l \in c.known : Taught(l)
  /\ c.pc = "stage" => \A l \in c.known : KeyOf(l) # KeyOf(c.line)

StockFine(c) ==
  c.pc = "approve" =>
    /\ c.review # Null
    /\ c.line.stocked /\ c.row = "held" => c.product \in stocked

Fine(c) == StepFine(c) /\ LinkFine(c) /\ UploadFine(c) /\ StockFine(c)

ApprovedTaught == \A r \in Reviews : review[r].status = "approved" => Taught(review[r].line)

Review == {NoReview} \cup [status : {"needs_review", "approved", "rejected"}, line : Lines]

RowsOK ==
  /\ listing \in [Products -> Statuses \cup {"none"}]
  /\ sku \in [Products -> Keys \cup {Null}]
  /\ stocked \subseteq Listed
  /\ map \in [Keys -> Products \cup {Null}]
  /\ review \in [Reviews -> Review]
  /\ told \subseteq stocked
  /\ ApprovedTaught

IInv == RowsOK /\ call \in [Workers -> Call] /\ \A w \in Workers : Fine(call[w])

(* What every step but the destruction of a listing does to the rows.      *)
Grows ==
  /\ Listed \subseteq Listed'
  /\ stocked \subseteq stocked'
  /\ \A k \in Keys : map[k] # Null => map'[k] # Null
  /\ \A r \in Reviews : Known(r) => Known(r)' /\ review'[r].line = review[r].line

-----------------------------------------------------------------------------
LEMMA KeyTyped ==
  ASSUME NEW line \in Lines
  PROVE  KeyOf(line) \in Keys
  BY DEF ListingsAssumption, Line, KeyOf, Keys

LEMMA NullApart == Null \notin Products /\ Null \notin Lines /\ Null \notin Reviews
                   /\ Null \notin Keys
  BY DEF ListingsAssumption, Keys

LEMMA IdleTyped == Idle \in Call
  BY DEF Idle, Call

LEMMA IdleFine == Fine(Idle)
  BY NullApart DEF Idle, Fine, StepFine, LinkFine, UploadFine, StockFine

(* A request that takes no step is as fine as before.                      *)
LEMMA StaysFine ==
  ASSUME NEW c \in Call, Fine(c), Grows
  PROVE  Fine(c)'
  <1>1. StepFine(c)'
    BY DEF Fine, StepFine, Grows
  <1>2. \A line \in Lines : Taught(line) => Taught(line)'
    BY KeyTyped DEF Grows, Taught
  <1>3. LinkFine(c)'
    <2> SUFFICES ASSUME c.review # Null
                 PROVE  /\ c.pc \in {"teach", "create", "status", "stock", "approve"}
                        /\ Known(c.review)' /\ c.line = review'[c.review].line
                        /\ c.pc = "teach" => c.key = KeyOf(c.line)
                        /\ c.pc # "teach" => Taught(c.line)'
      BY DEF LinkFine
    <2>1. c.review \in Reviews
      BY DEF Call
    <2>2. c.pc # "teach" => c.line \in Lines
      BY DEF Fine, LinkFine, StepFine
    <2> QED BY <2>1, <2>2, <1>2 DEF Fine, LinkFine, Grows
  <1>4. UploadFine(c)'
    <2>1. c.known \subseteq Lines
      BY DEF Call
    <2> QED BY <2>1, <1>2 DEF Fine, UploadFine
  <1>5. StockFine(c)'
    BY DEF Fine, StockFine, Grows
  <1> QED BY <1>1, <1>3, <1>4, <1>5 DEF Fine

(* A request's step keeps the invariant if the rows stay correct and the   *)
(* request is as fine after it.                                            *)
LEMMA StepKept ==
  ASSUME IInv, NEW w \in Workers, NEW m \in Call, Set(w, m), Fine(m)', Grows, RowsOK'
  PROVE  IInv'
  <1>1. call' \in [Workers -> Call]
    BY DEF IInv, Set
  <1>2. ASSUME NEW v \in Workers PROVE Fine(call[v])'
    <2>1. CASE v = w
      <3>1. call'[v] = m
        BY <2>1 DEF IInv, Set
      <3> QED BY <3>1 DEF Fine, StepFine, LinkFine, UploadFine, StockFine
    <2>2. CASE v # w
      <3>1. PICK c \in Call : call[v] = c
        BY DEF IInv
      <3>2. call'[v] = c
        BY <2>2, <3>1 DEF IInv, Set
      <3>3. Fine(c)
        BY <3>1 DEF IInv, Fine, StepFine, LinkFine, UploadFine, StockFine
      <3>4. Fine(c)'
        BY <3>3, StaysFine
      <3> QED BY <3>2, <3>4 DEF Fine, StepFine, LinkFine, UploadFine, StockFine
    <2> QED BY <2>1, <2>2
  <1> QED BY <1>1, <1>2 DEF IInv

(* A step that leaves the rows alone.                                      *)
LEMMA RowsLeft ==
  ASSUME IInv, UNCHANGED <<rows, map, review, told>>
  PROVE  Grows /\ RowsOK'
  BY DEF IInv, RowsOK, Grows, rows, Listed, ApprovedTaught, Taught, Known

LEMMA FineLeft ==
  ASSUME NEW c, Fine(c), UNCHANGED <<rows, map, review, told>>
  PROVE  Fine(c)'
  BY DEF Fine, StepFine, LinkFine, UploadFine, StockFine, rows, Listed, Taught, Known

LEMMA NoReviewUnknown ==
  ASSUME RowsOK, NEW r \in Reviews
  PROVE  /\ Known(r) <=> review[r] # NoReview
         /\ Known(r) => review[r].line \in Lines
  BY DEF RowsOK, Review, NoReview, Known

(* Idle is fine whatever the rows.                                         *)
LEMMA Ends ==
  ASSUME IInv, NEW w \in Workers, Set(w, Idle), Grows, RowsOK'
  PROVE  IInv'
  <1>1. Fine(Idle)'
    BY NullApart DEF Idle, Fine, StepFine, LinkFine, UploadFine, StockFine
  <1> QED BY <1>1, IdleTyped, StepKept

(* What is known of a request that is about to take a step.                *)
LEMMA Before ==
  ASSUME IInv, NEW w \in Workers
  PROVE  \E c \in Call : call[w] = c /\ Fine(c)
  <1>1. PICK c \in Call : call[w] = c
    BY DEF IInv
  <1>2. Fine(c)
    BY <1>1 DEF IInv, Fine, StepFine, LinkFine, UploadFine, StockFine
  <1> QED BY <1>1, <1>2

(* A step of a request that leaves the rows alone.                         *)
LEMMA RowsLeftKept ==
  ASSUME IInv, NEW w \in Workers, NEW m \in Call, Set(w, m), Fine(m),
         UNCHANGED <<rows, map, review, told>>
  PROVE  IInv'
  BY RowsLeft, FineLeft, StepKept

-----------------------------------------------------------------------------
(* The steps of an upload.                                                 *)
LEMMA NextRowFine ==
  ASSUME NEW todo \in SUBSET Lines, NEW known \in SUBSET Lines, \A l \in known : Taught(l)
  PROVE  LET m == [Idle EXCEPT !.pc = "row", !.todo = todo, !.known = known]
         IN m \in Call /\ Fine(m)
  BY NullApart DEF Idle, Call, Fine, StepFine, LinkFine, UploadFine, StockFine

LEMMA UploadKept ==
  ASSUME IInv, NEW w \in Workers, NEW sheet \in SUBSET Lines, Upload(w, sheet)
  PROVE  IInv'
  <1> DEFINE known == {review[r].line : r \in {s \in Reviews : review[s].status = "approved"}}
  <1>1. \A l \in known : l \in Lines /\ Taught(l)
    BY NoReviewUnknown DEF IInv, RowsOK, ApprovedTaught, Known
  <1>2. PICK k \in SUBSET Lines : k = known
    BY <1>1
  <1>3. \A l \in k : Taught(l)
    BY <1>1, <1>2
  <1> DEFINE m == [Idle EXCEPT !.pc = "row", !.todo = sheet, !.known = k]
  <1>4. m \in Call /\ Fine(m)
    BY <1>3, NextRowFine
  <1>5. Set(w, m) /\ UNCHANGED <<rows, map, review, told>>
    BY <1>2 DEF Upload
  <1> HIDE DEF m
  <1> QED BY <1>4, <1>5, RowsLeftKept

LEMMA EndsLeft ==
  ASSUME IInv, NEW w \in Workers, Set(w, Idle), UNCHANGED <<rows, map, review, told>>
  PROVE  IInv'
  BY IdleTyped, IdleFine, RowsLeftKept

LEMMA MatchKept ==
  ASSUME IInv, NEW w \in Workers, NEW line \in Lines, Match(w, line)
  PROVE  IInv'
  <1>1. PICK c \in Call : call[w] = c /\ Fine(c)
    BY Before
  <1>2. PICK p : p = Matched(line)
    OBVIOUS
  <1> DEFINE m == [c EXCEPT !.pc = IF p = Null THEN "stage" ELSE "create",
                            !.todo = @ \ {line}, !.line = line, !.key = KeyOf(line),
                            !.product = p]
  <1>3. Set(w, m) /\ UNCHANGED <<rows, map, review, told>> /\ c.pc = "row" /\ line \in c.todo
    BY <1>1, <1>2 DEF Match
  <1>4. KeyOf(line) \in Keys
    BY KeyTyped
  <1>5. line \in Line /\ p \in Products \cup {Null}
    BY <1>2, <1>4 DEF Matched, IInv, RowsOK, ListingsAssumption, Line
  <1>6. p = Null => ~Taught(line)
    BY <1>2 DEF Matched, Taught
  <1>7. m \in Call
    BY <1>4, <1>5 DEF Call
  <1>8. Fine(m)
    <2>1. c.review = Null /\ c.row # "held"
      BY <1>1, <1>3 DEF Fine, LinkFine, StepFine
    <2>2. m.review = Null /\ m.row # "held" /\ m.pc \in {"stage", "create"} /\ m.line = line
          /\ m.product = p /\ m.known = c.known /\ (m.pc = "stage" <=> p = Null)
      BY <2>1 DEF Call
    <2> HIDE DEF m
    <2>3. StepFine(m)
      BY <2>2, <1>5 DEF StepFine
    <2>4. LinkFine(m) /\ StockFine(m)
      BY <2>2 DEF LinkFine, StockFine
    <2>5. UploadFine(m)
      BY <2>2, <1>1, <1>6 DEF Fine, UploadFine, Taught
    <2> QED BY <2>3, <2>4, <2>5 DEF Fine
  <1> HIDE DEF m
  <1> QED BY <1>3, <1>7, <1>8, RowsLeftKept

(* The end of a row: the next of the sheet, or the approval of the link.   *)
LEMMA LineDoneKept ==
  ASSUME IInv, NEW w \in Workers, NEW c \in Call, call[w] = c, Fine(c), LineDone(w),
         c.pc \in {"stage", "status", "stock"}, c.review # Null => c.pc = "stock",
         c.pc = "stock" /\ c.line.stocked /\ c.row = "held" => c.product \in stocked',
         Grows, RowsOK'
  PROVE  IInv'
  <1>1. CASE c.review # Null
    <2> DEFINE m == [c EXCEPT !.pc = "approve"]
    <2>1. Set(w, m)
      BY <1>1 DEF LineDone, Linking, Goto, Set
    <2>2. m \in Call
      BY DEF Call
    <2>3. Fine(m)'
      <3>1. Fine(c)'
        BY StaysFine
      <3>2. m.pc = "approve" /\ m.product = c.product /\ m.line = c.line /\ m.key = c.key
            /\ m.row = c.row /\ m.review = c.review /\ m.known = c.known
        BY DEF Call
      <3> HIDE DEF m
      <3>3. StepFine(m)'
        BY <3>1, <3>2, <1>1 DEF Fine, StepFine
      <3>4. LinkFine(m)'
        BY <3>1, <3>2, <1>1 DEF Fine, LinkFine
      <3>5. UploadFine(m)'
        BY <3>1, <3>2 DEF Fine, UploadFine
      <3>6. StockFine(m)'
        BY <3>2, <1>1 DEF StockFine
      <3> QED BY <3>3, <3>4, <3>5, <3>6 DEF Fine
    <2> HIDE DEF m
    <2> QED BY <2>1, <2>2, <2>3, StepKept
  <1>2. CASE c.review = Null
    <2> DEFINE m == [Idle EXCEPT !.pc = "row", !.todo = c.todo, !.known = c.known]
    <2>1. Set(w, m)
      BY <1>2 DEF LineDone, Linking
    <2>2. m \in Call
      BY NullApart DEF Call, Idle
    <2>3. Fine(m)'
      <3>1. UploadFine(c)'
        BY StaysFine DEF Fine
      <3>2. m.pc = "row" /\ m.row = "none" /\ m.review = Null /\ m.known = c.known
        BY DEF Idle
      <3> HIDE DEF m
      <3> QED BY <3>1, <3>2 DEF Fine, StepFine, LinkFine, UploadFine, StockFine
    <2> HIDE DEF m
    <2> QED BY <2>1, <2>2, <2>3, StepKept
  <1> QED BY <1>1, <1>2

LEMMA StageKept ==
  ASSUME IInv, NEW w \in Workers, Stage(w)
  PROVE  IInv'
  <1>1. PICK c \in Call : call[w] = c /\ Fine(c)
    BY Before
  <1>2. PICK r \in Reviews : /\ review[r] = NoReview
                             /\ review' = [review EXCEPT ![r] = [status |-> "needs_review",
                                                                 line |-> c.line]]
    BY <1>1 DEF Stage
  <1>3. c.pc = "stage" /\ c.line \in Lines /\ c.review = Null /\ LineDone(w)
        /\ UNCHANGED <<rows, map, told>>
    BY <1>1 DEF Stage, Fine, StepFine, LinkFine
  <1>4. Grows
    <2>1. \A s \in Reviews : Known(s) => Known(s)' /\ review'[s].line = review[s].line
      BY <1>2 DEF IInv, RowsOK, Known, NoReview
    <2> QED BY <1>3, <2>1 DEF Grows, rows, Listed
  <1>5. RowsOK'
    <2>1. review' \in [Reviews -> Review]
      BY <1>2, <1>3 DEF IInv, RowsOK, Review
    <2>2. ApprovedTaught'
      BY <1>2, <1>3 DEF IInv, RowsOK, ApprovedTaught, Taught
    <2> QED BY <2>1, <2>2, <1>3 DEF IInv, RowsOK, rows, Listed
  <1> QED BY <1>1, <1>3, <1>4, <1>5, LineDoneKept

-----------------------------------------------------------------------------
(* Steps that write a listing: no listing ends, and the rest stays.        *)
LEMMA ListingGrows ==
  ASSUME IInv, listing' \in [Products -> Statuses \cup {"none"}],
         sku' \in [Products -> Keys \cup {Null}], Listed \subseteq Listed',
         UNCHANGED <<stocked, map, review, told>>
  PROVE  Grows /\ RowsOK'
  BY DEF IInv, RowsOK, Grows, ApprovedTaught, Taught, Known

(* Saving a status keeps the listing there.                                *)
LEMMA SaveKeepsListed ==
  ASSUME IInv, NEW w \in Workers, NEW c \in Call, call[w] = c, Fine(c),
         c.pc \in {"status", "activate"}, NEW s \in Statuses, listing' = Save(w, listing, s)
  PROVE  listing' \in [Products -> Statuses \cup {"none"}] /\ Listed \subseteq Listed'
  <1>1. c.product \in Products
    BY DEF Fine, StepFine
  <1>2. "none" \notin Statuses
    BY DEF Statuses
  <1> QED BY <1>1, <1>2 DEF IInv, RowsOK, Save, Listed

LEMMA FindOrCreateKept ==
  ASSUME IInv, NEW w \in Workers, FindOrCreate(w)
  PROVE  IInv'
  <1>1. PICK c \in Call : call[w] = c /\ Fine(c)
    BY Before
  <1>2. c.pc = "create" /\ c.product \in Products /\ c.line \in Lines /\ c.key \in Keys \cup {Null}
        /\ UNCHANGED <<map, review, told>>
    BY <1>1 DEF FindOrCreate, Fine, StepFine, Call
  <1>3. /\ listing' \in [Products -> Statuses \cup {"none"}]
        /\ sku' \in [Products -> Keys \cup {Null}]
        /\ Listed \subseteq Listed' /\ c.product \in Listed' /\ UNCHANGED stocked
    <2>1. CASE c.product \in Listed
      BY <2>1, <1>1, <1>2 DEF FindOrCreate, IInv, RowsOK, rows, Listed
    <2>2. CASE c.product \notin Listed
      <3>1. listing' = [listing EXCEPT ![c.product] = "active"]
            /\ sku' = [sku EXCEPT ![c.product] = c.key] /\ UNCHANGED stocked
        BY <2>2, <1>1 DEF FindOrCreate
      <3> QED BY <3>1, <1>2 DEF IInv, RowsOK, Listed, Statuses
    <2> QED BY <2>1, <2>2
  <1>4. Grows /\ RowsOK'
    BY <1>2, <1>3, ListingGrows
  <1>5. PICK st \in Statuses \cup {"none"} : st = listing'[c.product]
    BY <1>2, <1>3
  <1>k. PICK k \in Keys \cup {Null} : k = IF sku'[c.product] = c.key THEN Null ELSE c.key
    BY <1>2
  <1> DEFINE next == IF c.review # Null THEN "status" ELSE "refresh"
             m == [c EXCEPT !.pc = next, !.key = k, !.read = st, !.row = "held"]
  <1>6. Set(w, m)
    <2>1. Set(w, [call[w] EXCEPT !.pc = IF Linking(w) THEN "status" ELSE "refresh",
                                 !.key = IF sku'[call[w].product] = call[w].key THEN Null ELSE call[w].key,
                                 !.read = listing'[call[w].product], !.row = "held"])
      BY DEF FindOrCreate
    <2> QED BY <2>1, <1>1, <1>5, <1>k DEF Linking
  <1>7. m \in Call
    <2>1. next \in {"status", "refresh"}
      OBVIOUS
    <2> HIDE DEF next
    <2> QED BY <2>1 DEF Call
  <1>8. Fine(m)'
    <2>1. Fine(c)'
      BY <1>1, <1>4, StaysFine
    <2>2. m.pc = next /\ m.product = c.product
          /\ m.line = c.line /\ m.review = c.review /\ m.known = c.known /\ m.key = k
      BY DEF Call
    <2> HIDE DEF m
    <2>3. StepFine(m)'
      BY <1>2, <1>3, <2>2 DEF StepFine
    <2>4. LinkFine(m)'
      BY <2>1, <2>2, <1>2 DEF Fine, LinkFine
    <2>5. UploadFine(m)' /\ StockFine(m)'
      BY <2>1, <2>2 DEF Fine, UploadFine, StockFine
    <2> QED BY <2>3, <2>4, <2>5 DEF Fine
  <1> HIDE DEF m
  <1> QED BY <1>4, <1>6, <1>7, <1>8, StepKept

LEMMA RefreshKept ==
  ASSUME IInv, NEW w \in Workers, Refresh(w)
  PROVE  IInv'
  <1>1. PICK c \in Call : call[w] = c /\ Fine(c)
    BY Before
  <1>2. c.pc = "refresh" /\ c.product \in Products /\ c.line \in Lines /\ c.key \in Keys \cup {Null}
        /\ c.review = Null /\ UNCHANGED <<listing, stocked, map, review, told>>
    BY <1>1 DEF Refresh, Fine, StepFine, LinkFine, Call
  <1>3. sku' \in [Products -> Keys \cup {Null}]
    BY <1>1, <1>2 DEF Refresh, Save, IInv, RowsOK
  <1>4. Grows /\ RowsOK'
    BY <1>2, <1>3, ListingGrows DEF IInv, RowsOK, Listed
  <1> DEFINE m == [c EXCEPT !.pc = "status", !.key = Null]
  <1>5. Set(w, m) /\ m \in Call
    BY <1>1 DEF Refresh, Call
  <1>6. Fine(m)'
    <2>1. Fine(c)'
      BY <1>1, <1>4, StaysFine
    <2>2. m.pc = "status" /\ m.product = c.product /\ m.row = c.row
          /\ m.line = c.line /\ m.review = c.review /\ m.known = c.known
      BY DEF Call
    <2> HIDE DEF m
    <2> QED BY <2>1, <2>2, <1>2 DEF Fine, StepFine, LinkFine, UploadFine, StockFine
  <1> HIDE DEF m
  <1> QED BY <1>4, <1>5, <1>6, StepKept

LEMMA SaveStatusKept ==
  ASSUME IInv, NEW w \in Workers, SaveStatus(w)
  PROVE  IInv'
  <1>1. PICK c \in Call : call[w] = c /\ Fine(c)
    BY Before
  <1>2. c.pc = "status" /\ c.product \in Products /\ c.line \in Lines
        /\ UNCHANGED <<sku, stocked, map, review, told>>
    BY <1>1 DEF SaveStatus, Fine, StepFine
  <1>3. listing' \in [Products -> Statuses \cup {"none"}] /\ Listed \subseteq Listed'
    <2>1. CASE c.line.cell \in Statuses \ {c.read}
      <3>1. PICK s \in Statuses : s = c.line.cell
        BY <2>1
      <3>2. listing' = Save(w, listing, s)
        BY <2>1, <3>1, <1>1 DEF SaveStatus
      <3> QED BY <3>2, <1>1, <1>2, SaveKeepsListed
    <2>2. CASE c.line.cell \notin Statuses \ {c.read}
      BY <2>2, <1>1 DEF SaveStatus, IInv, RowsOK, Listed
    <2> QED BY <2>1, <2>2
  <1>4. Grows /\ RowsOK'
    BY <1>2, <1>3, ListingGrows DEF IInv, RowsOK
  <1>5. CASE c.line.cell = "unknown" /\ c.review = Null
    <2>1. LineDone(w)
      BY <1>1, <1>5 DEF SaveStatus, Linking
    <2> QED BY <2>1, <1>1, <1>2, <1>4, <1>5, LineDoneKept
  <1>6. CASE ~(c.line.cell = "unknown" /\ c.review = Null)
    <2> DEFINE m == [c EXCEPT !.pc = "stock", !.read = "none"]
    <2>1. Set(w, m) /\ m \in Call
      BY <1>1, <1>6 DEF SaveStatus, Linking, Call
    <2>2. Fine(m)'
      <3>1. Fine(c)'
        BY <1>1, <1>4, StaysFine
      <3>2. m.pc = "stock" /\ m.product = c.product /\ m.row = c.row
            /\ m.line = c.line /\ m.review = c.review /\ m.known = c.known
        BY DEF Call
      <3> HIDE DEF m
      <3> QED BY <3>1, <3>2, <1>2 DEF Fine, StepFine, LinkFine, UploadFine, StockFine
    <2> HIDE DEF m
    <2> QED BY <2>1, <2>2, <1>4, StepKept
  <1> QED BY <1>5, <1>6

LEMMA ApplyInventoryKept ==
  ASSUME IInv, NEW w \in Workers, ApplyInventory(w)
  PROVE  IInv'
  <1>1. PICK c \in Call : call[w] = c /\ Fine(c)
    BY Before
  <1>2. c.pc = "stock" /\ LineDone(w) /\ UNCHANGED <<listing, sku, map, review, told>>
    BY <1>1 DEF ApplyInventory
  <1>3. /\ stocked \subseteq stocked' /\ stocked' \subseteq Listed
        /\ c.line.stocked => c.product \in stocked'
    BY <1>1, <1>2 DEF ApplyInventory, Holds, Fine, StepFine, IInv, RowsOK
  <1>4. Grows /\ RowsOK'
    BY <1>2, <1>3 DEF IInv, RowsOK, Grows, Listed, ApprovedTaught, Taught, Known
  <1> QED BY <1>1, <1>2, <1>3, <1>4, LineDoneKept

-----------------------------------------------------------------------------
(* Links, confirmations and rejections.                                    *)
LEMMA LinkCalledKept ==
  ASSUME IInv, NEW w \in Workers, NEW r \in Reviews, NEW p \in Products, LinkCalled(w, r, p)
  PROVE  IInv'
  <1>1. Known(r) /\ review[r].line \in Lines
    BY NoReviewUnknown DEF LinkCalled, IInv
  <1>2. PICK line \in Lines : line = review[r].line
    BY <1>1
  <1>3. PICK st \in {"needs_review", "approved", "rejected"} : st = review[r].status
    BY <1>1 DEF IInv, RowsOK, Review, Known, NoReview
  <1> DEFINE m == [Idle EXCEPT !.pc = "teach", !.line = line, !.product = p,
                     !.key = KeyOf(line), !.review = r, !.seen = st]
  <1>4. Set(w, m) /\ UNCHANGED <<rows, map, review, told>>
    BY <1>2, <1>3 DEF LinkCalled
  <1>5. KeyOf(line) \in Keys
    BY KeyTyped
  <1>6. m \in Call
    BY <1>5 DEF Idle, Call
  <1>7. m.pc = "teach" /\ m.line = line /\ m.product = p /\ m.key = KeyOf(line) /\ m.review = r
        /\ m.row = "none" /\ m.known = {}
    BY DEF Idle
  <1> HIDE DEF m
  <1>8. Fine(m)
    BY <1>7, <1>5, <1>1, <1>2 DEF Fine, StepFine, LinkFine, UploadFine, StockFine
  <1> QED BY <1>4, <1>6, <1>8, RowsLeftKept

LEMMA TeachKept ==
  ASSUME IInv, NEW w \in Workers, Teach(w)
  PROVE  IInv'
  <1>1. PICK c \in Call : call[w] = c /\ Fine(c)
    BY Before
  <1>2. c.pc = "teach" /\ c.product \in Products /\ c.key \in Keys
        /\ map' = [map EXCEPT ![c.key] = c.product] /\ UNCHANGED <<rows, review, told>>
    BY <1>1 DEF Teach, Fine, StepFine
  <1>3. /\ map' \in [Keys -> Products \cup {Null}] /\ map'[c.key] # Null
        /\ \A k \in Keys : map[k] # Null => map'[k] # Null
    BY <1>2, NullApart DEF IInv, RowsOK
  <1>4. Grows
    BY <1>2, <1>3 DEF Grows, rows, Listed, Known
  <1>5. RowsOK'
    <2>1. ApprovedTaught'
      <3> SUFFICES ASSUME NEW r \in Reviews, review[r].status = "approved"
                   PROVE  map'[KeyOf(review[r].line)] # Null
        BY <1>2 DEF ApprovedTaught, Taught
      <3>1. review[r].line \in Lines
        BY NoReviewUnknown DEF IInv, Known
      <3> QED BY <3>1, KeyTyped, <1>3 DEF IInv, RowsOK, ApprovedTaught, Taught
    <2> QED BY <2>1, <1>2, <1>3 DEF IInv, RowsOK, rows, Listed
  <1> DEFINE m == [c EXCEPT !.pc = IF c.review # Null THEN "create" ELSE "activate"]
  <1>6. Set(w, m) /\ m \in Call
    BY <1>1 DEF Teach, Linking, Goto, Set, Call
  <1>7. Fine(m)'
    <2>1. Fine(c)'
      BY <1>1, <1>4, StaysFine
    <2>2. m.pc = (IF c.review # Null THEN "create" ELSE "activate") /\ m.product = c.product
          /\ m.line = c.line /\ m.review = c.review /\ m.known = c.known /\ m.row = c.row
      BY DEF Call
    <2>3. c.review # Null => c.line \in Lines /\ Taught(c.line)'
      <3> SUFFICES ASSUME c.review # Null
                   PROVE  c.line \in Lines /\ Taught(c.line)'
        OBVIOUS
      <3>1. c.line = review[c.review].line /\ Known(c.review) /\ c.key = KeyOf(c.line)
            /\ c.review \in Reviews
        BY <1>1, <1>2 DEF Fine, LinkFine, Call
      <3> QED BY <3>1, <1>3, NoReviewUnknown DEF IInv, Taught
    <2> HIDE DEF m
    <2>4. StepFine(m)' /\ UploadFine(m)' /\ StockFine(m)'
      BY <2>1, <2>2, <2>3, <1>2 DEF Fine, StepFine, UploadFine, StockFine
    <2>5. LinkFine(m)'
      BY <2>1, <2>2, <2>3, <1>2 DEF Fine, LinkFine
    <2> QED BY <2>4, <2>5 DEF Fine
  <1> HIDE DEF m
  <1> QED BY <1>4, <1>5, <1>6, <1>7, StepKept

(* A review row whose status an admin sets, approving only what is taught, *)
(* and telling of stock only what is stocked.                              *)
LEMMA ReviewSaved ==
  ASSUME IInv, NEW r \in Reviews, Known(r), NEW st \in {"approved", "rejected"},
         review' = [review EXCEPT ![r].status = st],
         st = "approved" => Taught(review[r].line),
         told' \subseteq stocked, UNCHANGED <<rows, map>>
  PROVE  Grows /\ RowsOK'
  <1>1. review[r] \in Review /\ review[r] # NoReview
    BY DEF IInv, RowsOK, Known, NoReview
  <1>2. review'[r] = [status |-> st, line |-> review[r].line]
        /\ \A s \in Reviews : s # r => review'[s] = review[s]
    BY <1>1 DEF IInv, RowsOK, Review
  <1>3. review' \in [Reviews -> Review]
    BY <1>1, <1>2 DEF IInv, RowsOK, Review
  <1>4. ApprovedTaught'
    <2> SUFFICES ASSUME NEW s \in Reviews, review'[s].status = "approved"
                 PROVE  map'[KeyOf(review'[s].line)] # Null
      BY DEF ApprovedTaught, Taught
    <2>1. CASE s = r
      BY <2>1, <1>2 DEF Taught
    <2>2. CASE s # r
      BY <2>2, <1>2 DEF Taught, IInv, RowsOK, ApprovedTaught
    <2> QED BY <2>1, <2>2
  <1>5. Grows
    <2>1. \A s \in Reviews : Known(s) => Known(s)' /\ review'[s].line = review[s].line
      BY <1>2 DEF Known
    <2> QED BY <2>1 DEF Grows, rows, Listed
  <1> QED BY <1>3, <1>4, <1>5 DEF IInv, RowsOK, rows, Listed

LEMMA ApproveKept ==
  ASSUME IInv, NEW w \in Workers, Approve(w)
  PROVE  IInv'
  <1>1. PICK c \in Call : call[w] = c /\ Fine(c)
    BY Before
  <1>2. c.pc = "approve" /\ c.review \in Reviews /\ Known(c.review)
        /\ Taught(review[c.review].line) /\ UNCHANGED <<rows, map>> /\ Set(w, Idle)
    BY <1>1 DEF Approve, Fine, StockFine, LinkFine, Call
  <1>3. told' \subseteq stocked
    BY <1>1, <1>2 DEF Approve, Holds, Fine, StockFine, IInv, RowsOK
  <1>4. Grows /\ RowsOK'
    <2>1. CASE review' = review
      BY <2>1, <1>2, <1>3 DEF IInv, RowsOK, Grows, rows, Listed, ApprovedTaught, Taught, Known
    <2>2. CASE review' = [review EXCEPT ![c.review].status = "approved"]
      BY <2>2, <1>2, <1>3, ReviewSaved
    <2> QED BY <2>1, <2>2, <1>1 DEF Approve
  <1> QED BY <1>2, <1>4, Ends

LEMMA ConfirmationKept ==
  ASSUME IInv, NEW w \in Workers, NEW p \in Products, ConfirmCalled(w, p) \/ RejectCalled(w, p)
  PROVE  IInv'
  <1>1. listing[p] = "paused" /\ UNCHANGED <<rows, map, review, told>>
    BY DEF ConfirmCalled, RejectCalled
  <1>2. p \in Listed
    BY <1>1 DEF Listed
  <1>3. CASE ConfirmCalled(w, p)
    <2>1. PICK k \in Keys \cup {Null} : k = sku[p]
      BY DEF IInv, RowsOK
    <2> DEFINE m == [Idle EXCEPT !.pc = IF k = Null THEN "activate" ELSE "teach",
                       !.product = p, !.key = k, !.row = "held"]
    <2>2. Set(w, m) /\ m \in Call
      BY <1>3, <2>1 DEF ConfirmCalled, Idle, Call
    <2>3. m.pc = (IF k = Null THEN "activate" ELSE "teach") /\ m.product = p /\ m.key = k
          /\ m.row = "held" /\ m.review = Null /\ m.known = {}
      BY DEF Idle
    <2> HIDE DEF m
    <2>4. Fine(m)
      BY <2>3, <1>2 DEF Fine, StepFine, LinkFine, UploadFine, StockFine
    <2> QED BY <2>2, <2>4, <1>1, RowsLeftKept
  <1>4. CASE RejectCalled(w, p)
    <2> DEFINE m == [Idle EXCEPT !.pc = "destroy", !.product = p, !.row = "held"]
    <2>1. Set(w, m) /\ m \in Call
      BY <1>4 DEF RejectCalled, Idle, Call
    <2>2. m.pc = "destroy" /\ m.product = p /\ m.row = "held" /\ m.review = Null /\ m.known = {}
      BY DEF Idle
    <2> HIDE DEF m
    <2>3. Fine(m)
      BY <2>2, <1>2 DEF Fine, StepFine, LinkFine, UploadFine, StockFine
    <2> QED BY <2>1, <2>3, <1>1, RowsLeftKept
  <1> QED BY <1>3, <1>4

LEMMA ActivateKept ==
  ASSUME IInv, NEW w \in Workers, Activate(w)
  PROVE  IInv'
  <1>1. PICK c \in Call : call[w] = c /\ Fine(c)
    BY Before
  <1>2. c.pc = "activate" /\ UNCHANGED <<sku, stocked, map, review, told>> /\ Set(w, Idle)
        /\ listing' = Save(w, listing, "active") /\ "active" \in Statuses
    BY <1>1 DEF Activate, Statuses
  <1>3. listing' \in [Products -> Statuses \cup {"none"}] /\ Listed \subseteq Listed'
    BY <1>1, <1>2, SaveKeepsListed
  <1>4. Grows /\ RowsOK'
    BY <1>2, <1>3, ListingGrows DEF IInv, RowsOK
  <1> QED BY <1>2, <1>4, Ends

(* The listing goes, with its stock; who holds it finds it gone.           *)
LEMMA DestroyKept ==
  ASSUME IInv, NEW w \in Workers, Destroy(w)
  PROVE  IInv'
  <1>1. PICK c \in Call : call[w] = c /\ Fine(c)
    BY Before
  <1>2. c.pc = "destroy" /\ c.product \in Products /\ UNCHANGED <<map, review>>
    BY <1>1 DEF Destroy, Fine, StepFine
  <1>3. CASE c.row # "held"
    <2>1. Set(w, Idle)
      <3>1. call' = [v \in Workers |-> IF v = w THEN Idle ELSE call[v]]
        BY <1>1, <1>3 DEF Destroy, Holds
      <3> QED BY <3>1 DEF IInv, Set
    <2>2. UNCHANGED <<rows, map, review, told>>
      BY <1>1, <1>2, <1>3 DEF Destroy, Holds
    <2> QED BY <2>1, <2>2, EndsLeft
  <1>4. CASE c.row = "held"
    <2>1. /\ listing' = [listing EXCEPT ![c.product] = "none"]
          /\ sku' = [sku EXCEPT ![c.product] = Null]
          /\ stocked' = stocked \ {c.product} /\ told' = told \ {c.product}
      BY <1>1, <1>4 DEF Destroy, Holds
    <2>2. Listed' = Listed \ {c.product}
      BY <2>1, <1>2 DEF IInv, RowsOK, Listed
    <2>3. RowsOK'
      BY <2>1, <2>2, <1>2 DEF IInv, RowsOK, ApprovedTaught, Taught
    <2>4. ASSUME NEW v \in Workers PROVE call'[v] \in Call /\ Fine(call[v])'
      <3>1. CASE v = w
        <4>1. call'[v] = Idle
          BY <3>1 DEF Destroy
        <4> QED BY <4>1, IdleTyped, NullApart
              DEF Idle, Fine, StepFine, LinkFine, UploadFine, StockFine
      <3>2. CASE v # w
        <4>1. PICK d \in Call : call[v] = d /\ Fine(d)
          BY Before
        <4>2. CASE d.row = "held" /\ d.product = c.product
          <5> DEFINE m == [d EXCEPT !.row = "gone"]
          <5>1. call'[v] = m /\ m \in Call
            BY <4>1, <4>2, <3>2, <1>1, <1>4 DEF Destroy, Holds, Call
          <5>2. m.row = "gone" /\ m.pc = d.pc /\ m.product = d.product /\ m.line = d.line
                /\ m.key = d.key /\ m.review = d.review /\ m.known = d.known
            BY DEF Call
          <5> HIDE DEF m
          <5>3. StepFine(m)' /\ StockFine(m)'
            BY <5>2, <4>1 DEF Fine, StepFine, StockFine
          <5>4. LinkFine(m)' /\ UploadFine(m)'
            BY <5>2, <4>1, <1>2 DEF Fine, LinkFine, UploadFine, Taught, Known
          <5> QED BY <5>1, <5>3, <5>4 DEF Fine, StepFine, LinkFine, UploadFine, StockFine
        <4>3. CASE ~(d.row = "held" /\ d.product = c.product)
          <5>1. call'[v] = d
            BY <4>1, <4>3, <3>2, <1>1, <1>4 DEF Destroy, Holds
          <5>2. StepFine(d)' /\ StockFine(d)'
            BY <4>1, <4>3, <2>1, <2>2 DEF Fine, StepFine, StockFine
          <5>3. LinkFine(d)' /\ UploadFine(d)'
            BY <4>1, <1>2 DEF Fine, LinkFine, UploadFine, Taught, Known
          <5> QED BY <5>1, <5>2, <5>3 DEF Fine, StepFine, LinkFine, UploadFine, StockFine
        <4> QED BY <4>2, <4>3
      <3> QED BY <3>1, <3>2
    <2>5. call' \in [Workers -> Call]
      <3>1. /\ call' = [v \in Workers |-> call'[v]]
        BY DEF Destroy
      <3> QED BY <3>1, <2>4
    <2> QED BY <2>3, <2>4, <2>5 DEF IInv
  <1> QED BY <1>3, <1>4

-----------------------------------------------------------------------------
(* Single changes: no request takes a step.                                *)
LEMMA CallsKept ==
  ASSUME IInv, UNCHANGED call, Grows, RowsOK'
  PROVE  IInv'
  <1>1. ASSUME NEW v \in Workers PROVE Fine(call[v])'
    <2>1. PICK c \in Call : call[v] = c /\ Fine(c)
      BY Before
    <2>2. Fine(c)'
      BY <2>1, StaysFine
    <2> QED BY <2>1, <2>2 DEF Fine, StepFine, LinkFine, UploadFine, StockFine
  <1> QED BY <1>1 DEF IInv

LEMMA RejectReviewKept ==
  ASSUME IInv, NEW r \in Reviews, RejectReview(r)
  PROVE  IInv'
  <1>1. Known(r) /\ review' = [review EXCEPT ![r].status = "rejected"]
        /\ UNCHANGED <<rows, map, call, told>>
    BY DEF RejectReview, Known
  <1>2. Grows /\ RowsOK'
    BY <1>1, ReviewSaved DEF IInv, RowsOK
  <1> QED BY <1>1, <1>2, CallsKept

LEMMA CreateListingKept ==
  ASSUME IInv, NEW p \in Products, NEW s \in Skus \cup {Null}, NEW b \in BOOLEAN,
         CreateListing(p, s, b)
  PROVE  IInv'
  <1>1. /\ listing' = [listing EXCEPT ![p] = "active"] /\ sku' = [sku EXCEPT ![p] = s]
        /\ UNCHANGED <<map, review, call>>
    BY DEF CreateListing
  <1>2. /\ listing' \in [Products -> Statuses \cup {"none"}]
        /\ sku' \in [Products -> Keys \cup {Null}]
        /\ Listed' = Listed \cup {p}
    BY <1>1 DEF IInv, RowsOK, Listed, Statuses, Keys
  <1>3. stocked \subseteq stocked' /\ stocked' \subseteq stocked \cup {p} /\ told' \subseteq stocked'
    BY DEF CreateListing, IInv, RowsOK
  <1>4. Grows /\ RowsOK'
    BY <1>1, <1>2, <1>3 DEF IInv, RowsOK, Grows, ApprovedTaught, Taught, Known
  <1> QED BY <1>1, <1>4, CallsKept

LEMMA SetStatusKept ==
  ASSUME IInv, NEW p \in Products, NEW s \in Statuses, SetStatus(p, s)
  PROVE  IInv'
  <1>1. listing' \in [Products -> Statuses \cup {"none"}] /\ Listed \subseteq Listed'
    BY DEF SetStatus, IInv, RowsOK, Listed, Statuses
  <1>2. Grows /\ RowsOK'
    BY <1>1, ListingGrows DEF SetStatus, IInv, RowsOK
  <1> QED BY <1>2, CallsKept DEF SetStatus

LEMMA SetStockKept ==
  ASSUME IInv, NEW P \in SUBSET Products, SetStock(P)
  PROVE  IInv'
  <1>1. Grows /\ RowsOK'
    BY DEF SetStock, IInv, RowsOK, Grows, Listed, ApprovedTaught, Taught, Known
  <1> QED BY <1>1, CallsKept DEF SetStock

-----------------------------------------------------------------------------
LEMMA InitFine ==
  ASSUME Init
  PROVE  IInv
  <1>1. RowsOK
    BY DEF Init, RowsOK, Listed, Review, ApprovedTaught, NoReview
  <1>2. \A w \in Workers : call[w] = Idle
    BY DEF Init
  <1>3. call \in [Workers -> Call]
    BY IdleTyped DEF Init
  <1>4. \A w \in Workers : Fine(call[w])
    BY <1>2, NullApart DEF Idle, Fine, StepFine, LinkFine, UploadFine, StockFine
  <1> QED BY <1>1, <1>3, <1>4 DEF IInv

LEMMA NextKept ==
  ASSUME IInv, [Next]_vars
  PROVE  IInv'
  <1>1. ASSUME NEW w \in Workers, Import(w)
        PROVE  IInv'
    <2>1. Uploaded(w) => IInv'
      BY EndsLeft DEF Uploaded
    <2> QED BY <1>1, <2>1, UploadKept, MatchKept, StageKept, RefreshKept DEF Import
  <1>2. ASSUME NEW w \in Workers, Resolve(w)
        PROVE  IInv'
    BY <1>2, LinkCalledKept, ApproveKept DEF Resolve
  <1>3. ASSUME NEW w \in Workers, Apply(w)
        PROVE  IInv'
    <2>1. InventoryRefused(w) => IInv'
      BY EndsLeft DEF InventoryRefused
    <2> QED BY <1>3, <2>1, FindOrCreateKept, SaveStatusKept, ApplyInventoryKept, TeachKept DEF Apply
  <1>4. ASSUME NEW w \in Workers, Confirmation(w)
        PROVE  IInv'
    BY <1>4, ConfirmationKept, ActivateKept, DestroyKept DEF Confirmation
  <1>5. ASSUME NEW w \in Workers, CallFails(w)
        PROVE  IInv'
    BY <1>5, EndsLeft DEF CallFails
  <1>6. ASSUME NEW p \in Products, NEW s \in Skus \cup {Null}, NEW b \in BOOLEAN,
               CreateListing(p, s, b)
        PROVE  IInv'
    BY <1>6, CreateListingKept
  <1>7. ASSUME NEW P \in SUBSET Products \ {{}}, SetStock(P)
        PROVE  IInv'
    <2>1. P \in SUBSET Products
      OBVIOUS
    <2> QED BY <1>7, <2>1, SetStockKept
  <1>8. CASE UNCHANGED vars
    <2>1. UNCHANGED <<rows, map, review, told>> /\ UNCHANGED call
      BY <1>8 DEF vars
    <2>2. Grows /\ RowsOK'
      BY <2>1, RowsLeft
    <2> QED BY <2>1, <2>2, CallsKept
  <1> QED BY <1>1, <1>2, <1>3, <1>4, <1>5, <1>6, <1>7, <1>8, RejectReviewKept, SetStatusKept
        DEF Next

-----------------------------------------------------------------------------
LEMMA InvCorrect == Spec => []IInv
  <1>1. Init => IInv
    BY InitFine
  <1>2. IInv /\ [Next]_vars => IInv'
    BY NextKept
  <1> QED BY <1>1, <1>2, PTL DEF Spec

(* Every column and every request has its type; a request that holds a     *)
(* listing's row holds one that is there.                                  *)
THEOREM TypeAlwaysOK == Spec => []TypeOK
  <1>1. IInv => TypeOK
    <2> SUFFICES ASSUME IInv PROVE TypeOK
      OBVIOUS
    <2>1. \A w \in Workers : Holds(w) => call[w].product \in Listed
      BY DEF IInv, Fine, StepFine, Holds
    <2>2. told \subseteq Products
      BY DEF IInv, RowsOK, Listed
    <2> QED BY <2>1, <2>2 DEF IInv, RowsOK, Review, TypeOK
  <1> QED BY <1>1, InvCorrect, PTL

(* A sheet uploaded after a review row was approved never puts the same    *)
(* item into the queue again.                                              *)
THEOREM LinkedNeverGuessedAgain == Spec => []LinkedNotGuessedAgain
  <1>1. IInv => LinkedNotGuessedAgain
    <2> SUFFICES ASSUME IInv, NEW w \in Workers, call[w].pc = "stage", NEW l \in call[w].known,
                        SameItem(l, call[w].line)
                 PROVE  FALSE
      BY DEF LinkedNotGuessedAgain
    <2>1. KeyOf(l) # KeyOf(call[w].line)
      BY DEF IInv, Fine, UploadFine
    <2>2. KeyOf(l) = KeyOf(call[w].line)
      BY DEF SameItem, KeyOf
    <2> QED BY <2>1, <2>2
  <1> QED BY <1>1, InvCorrect, PTL

(* A listing that an answer or a review row says is stocked has its stock. *)
THEOREM AlwaysStockedAsTold == Spec => []StockedAsTold
  <1>1. IInv => StockedAsTold
    BY DEF IInv, RowsOK, StockedAsTold
  <1> QED BY <1>1, InvCorrect, PTL

(* Once a review row is approved, what its line is called has a product in *)
(* the vendor's map, and keeps one: no upload, second answer or failure    *)
(* half way through leaves an approved row whose item the next sheet would *)
(* not be matched by.                                                      *)
THEOREM ApprovedAlwaysTaught == Spec => []ApprovedTaught
  <1>1. IInv => ApprovedTaught
    BY DEF IInv, RowsOK
  <1> QED BY <1>1, InvCorrect, PTL
=============================================================================
