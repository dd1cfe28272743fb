----------------------------- MODULE SearchOutbox -----------------------------
(***************************************************************************)
(* How the search index follows the database (search/indexing/ and the     *)
(* migrations that install its triggers).  A transaction that changes what *)
(* search shows also inserts search_outbox rows, by trigger; workers poll  *)
(* the outbox, rebuild the documents the rows are about and mark the rows  *)
(* processed; a row of type 'all' asks for a rebuild of the whole index    *)
(* beside the live one and a swap.  Nothing orders transactions, workers   *)
(* and the search engine but the statements themselves.                    *)
(*                                                                         *)
(* A document is abstracted to the listings it aggregates: a change of a   *)
(* listing's price or stock writes the same row as one of its status.      *)
(* Brand, category and variety changes write rows that resolve to products *)
(* and act as a product's own.  All documents of a call fit one batch.     *)
(***************************************************************************)
EXTENDS FiniteSets, Naturals

CONSTANTS
  Products, Cities, Vendors,
  Listings,       \* vendor_listing rows: pairs of a vendor and a product
  Home,           \* each vendor's first city
  Moves,          \* relocations there may be: pairs of a vendor and a city or Null
  Writers,        \* concurrent transactions
  Workers,        \* processes that run the indexing job
  Null,
  MaxChanges,     \* bound on the transactions of a behaviour
  LateCommits,    \* may a drain read the outbox while an older transaction is open
  MoveRaces,      \* may a relocation overlap a change of the vendor's listings
  RebuildsAlone   \* does no other worker run during a rebuild

ASSUME OutboxAssumption ==
  /\ Listings \subseteq Vendors \X Products
  /\ Home \in [Vendors -> Cities]
  /\ Moves \subseteq Vendors \X (Cities \cup {Null})
  /\ Null \notin Products \cup Cities \cup Workers
  /\ MaxChanges \in Nat
  /\ {LateCommits, MoveRaces, RebuildsAlone} \subseteq BOOLEAN

VARIABLES
  db,         \* the columns the documents are built from
  tx,         \* each writer's open transaction
  changes,    \* transactions begun
  outbox,     \* search_outbox rows with processed_at null
  index,      \* documents of the live index, {} where there is none
  shadow,     \* documents of products_rebuild
  lock,       \* the worker whose session holds the advisory lock
  job         \* what each worker is doing

vars == <<db, tx, changes, outbox, index, shadow, lock, job>>

-----------------------------------------------------------------------------
Pairs == Products \X Cities

Documents == [Pairs -> SUBSET Listings]

NoDocuments == [pair \in Pairs |-> {}]

(* Rows are told apart by their target: a product in a city, a product     *)
(* (city null), a city (product null), or everything (both null, 'all').   *)
Target == [product : Products \cup {Null}, city : Cities \cup {Null}]

(* newer: the workers whose cutoff is before the row's enqueued_at, which  *)
(* is the start of its transaction.                                        *)
Row == [target : Target, newer : SUBSET Workers]

All == [product |-> Null, city |-> Null]

Markers == {row \in outbox : row.target = All}

(* A pair that some vendor of the city has a listing row for.              *)
Listed(pair) == \E l \in Listings : l[2] = pair[1] /\ db.city[l[1]] = pair[2]

(* The pairs a row stands for: resolved when it was written, or every      *)
(* listed pair of the product or the city when it is expanded.             *)
Covers(target, pair) ==
  /\ target.product \in {pair[1], Null}
  /\ target.city \in {pair[2], Null}
  /\ Null \in {target.product, target.city} => Listed(pair)

(* The document of a pair; none unless an approved vendor offers it.       *)
Built(pair) ==
  IF pair[1] \in db.live /\ pair[2] \in db.open
    THEN {l \in db.active : /\ l[2] = pair[1]
                            /\ l[1] \in db.approved
                            /\ db.city[l[1]] = pair[2]}
    ELSE {}

-----------------------------------------------------------------------------
(* The writes of a transaction, by the table and row they touch.           *)
Write == ({"listing"} \X Listings) \cup ({"product"} \X Products) \cup ({"city"} \X Cities)
         \cup ({"approval"} \X Vendors) \cup ({"move"} \X Moves) \cup {<<"rebuild", Null>>}

NoTx == [write |-> Null, targets |-> {}, newer |-> {}]

Tx == [write : Write, targets : SUBSET Target, newer : SUBSET Workers] \cup {NoTx}

OfProduct(p) == [product |-> p, city |-> Null]
OfCity(c) == [product |-> Null, city |-> c]
OfPair(p, c) == [product |-> p, city |-> c]

(* What the triggers queue, resolved while the statement runs.             *)
Targets(write) ==
  LET key == write[2] IN
  CASE write[1] = "listing" -> {OfPair(key[2], db.city[key[1]])}
    [] write[1] = "product" -> {OfProduct(key)}
    [] write[1] = "city" -> {OfCity(key)}
    [] write[1] = "approval" -> {OfPair(l[2], db.city[key]) : l \in {k \in Listings : k[1] = key}}
    [] write[1] = "move" -> {OfCity(c) : c \in {key[2], db.city[key[1]]} \ {Null}}
    [] write[1] = "rebuild" -> {All}

Toggled(S, x) == (S \ {x}) \cup ({x} \ S)

After(write) ==
  LET key == write[2] IN
  CASE write[1] = "listing" -> [db EXCEPT !.active = Toggled(@, key)]
    [] write[1] = "product" -> [db EXCEPT !.live = Toggled(@, key)]
    [] write[1] = "city" -> [db EXCEPT !.open = Toggled(@, key)]
    [] write[1] = "approval" -> [db EXCEPT !.approved = Toggled(@, key)]
    [] write[1] = "move" -> [db EXCEPT !.city[key[1]] = key[2]]
    [] write[1] = "rebuild" -> db

(* The vendor whose city a write changes, or whose city its rows are       *)
(* resolved with.                                                          *)
VendorOf(write) ==
  CASE write[1] \in {"listing", "move"} -> write[2][1]
    [] write[1] = "approval" -> write[2]
    [] write[1] \in {"product", "city", "rebuild"} -> Null

(* Two writes that never overlap: of one row, which the first locks, or,   *)
(* unless MoveRaces, one of them a relocation of the other's vendor.       *)
Conflict(w1, w2) ==
  \/ w1 = w2 /\ w1[1] # "rebuild"
  \/ {w1[1], w2[1]} = {"move"} /\ VendorOf(w1) = VendorOf(w2)
  \/ /\ ~MoveRaces
     /\ "move" \in {w1[1], w2[1]}
     /\ VendorOf(w1) = VendorOf(w2)

-----------------------------------------------------------------------------
DrainStep == {"cutoff", "lock", "expand", "build", "add", "delete", "mark", "unlock"}

RebuildStep == {"cutoff_all", "clear", "list", "fill", "load", "verify", "swap", "consume"}

(* The steps at which a worker still uses the cutoff it took.              *)
CutoffKept == (DrainStep \cup RebuildStep) \ {"cutoff", "unlock", "cutoff_all"}

(* pairs and docs: what the call is about to write, and the documents it   *)
(* has built for those pairs.                                              *)
Job == [pc : {"idle"} \cup DrainStep \cup RebuildStep, pairs : SUBSET Pairs, docs : Documents]

NoJob == [pc |-> "idle", pairs |-> {}, docs |-> NoDocuments]

Init ==
  /\ db = [active |-> Listings, live |-> Products, open |-> Cities,
           approved |-> Vendors, city |-> Home]
  /\ tx = [t \in Writers |-> NoTx]
  /\ changes = 0
  /\ outbox = {}
  /\ index = [pair \in Pairs |-> Built(pair)]
  /\ shadow = NoDocuments
  /\ lock = Null
  /\ job = [w \in Workers |-> NoJob]

-----------------------------------------------------------------------------
CutoffsTaken == {w \in Workers : job[w].pc \in CutoffKept}

Begin(t, write) ==
  /\ tx[t] = NoTx
  /\ changes < MaxChanges
  /\ \A u \in Writers : tx[u] # NoTx => ~Conflict(write, tx[u].write)
  /\ tx' = [tx EXCEPT ![t] = [write |-> write, targets |-> Targets(write),
                              newer |-> CutoffsTaken]]
  /\ changes' = changes + 1
  /\ UNCHANGED <<db, outbox, index, shadow, lock, job>>

Commit(t) ==
  /\ tx[t] # NoTx
  /\ db' = After(tx[t].write)
  /\ outbox' = outbox \cup {[target |-> target, newer |-> tx[t].newer] : target \in tx[t].targets}
  /\ tx' = [tx EXCEPT ![t] = NoTx]
  /\ UNCHANGED <<changes, index, shadow, lock, job>>

Rollback(t) ==
  /\ tx[t] # NoTx
  /\ tx' = [tx EXCEPT ![t] = NoTx]
  /\ UNCHANGED <<db, changes, outbox, index, shadow, lock, job>>

-----------------------------------------------------------------------------
Goto(w, pc) == job' = [job EXCEPT ![w].pc = pc]

(* Rows no longer compared with w's cutoff.                                *)
Without(w, rows) == {[row EXCEPT !.newer = @ \ {w}] : row \in rows}

(* The cutoff of w is used no more.                                        *)
CutoffDropped(w, rows) ==
  /\ outbox' = Without(w, rows)
  /\ tx' = [t \in Writers |-> [tx[t] EXCEPT !.newer = @ \ {w}]]

Older(w) == {row \in outbox : w \notin row.newer}

(* Unless LateCommits, every transaction that began before w's cutoff has  *)
(* ended: nothing in the code sees to it.                                  *)
NoneLate(w) == LateCommits \/ \A t \in Writers : tx[t] # NoTx => w \in tx[t].newer

(* process: a pending 'all' row is a rebuild, and no drain in this tick.   *)
Poll(w) ==
  /\ job[w].pc = "idle"
  /\ RebuildsAlone =>
       \A v \in Workers \ {w} : /\ job[v].pc \notin RebuildStep
                                /\ Markers # {} => job[v].pc = "idle"
  /\ Goto(w, IF Markers # {} THEN "cutoff_all" ELSE "cutoff")
  /\ UNCHANGED <<db, tx, changes, outbox, index, shadow, lock>>

(* The database's NOW(): transactions that begin later are newer.          *)
Cutoff(w) ==
  /\ job[w].pc = "cutoff"
  /\ Goto(w, "lock")
  /\ UNCHANGED <<db, tx, changes, outbox, index, shadow, lock>>

(* pg_try_advisory_lock: the run ends if another session holds it.         *)
TryLock(w) ==
  /\ job[w].pc = "lock"
  /\ IF lock = Null
       THEN /\ lock' = w
            /\ Goto(w, "expand")
            /\ UNCHANGED <<tx, outbox>>
       ELSE /\ job' = [job EXCEPT ![w] = NoJob]
            /\ CutoffDropped(w, outbox)
            /\ UNCHANGED lock
  /\ UNCHANGED <<db, changes, index, shadow>>

(* expand_search_outbox(cutoff).                                           *)
Expand(w) ==
  LET due == {row \in Older(w) : row.target # All}
      pairs == {pair \in Pairs : \E row \in due : Covers(row.target, pair)}
  IN
  /\ job[w].pc = "expand"
  /\ NoneLate(w)
  /\ job' = [job EXCEPT ![w].pc = IF pairs = {} THEN "mark" ELSE "build", ![w].pairs = pairs]
  /\ UNCHANGED <<db, tx, changes, outbox, index, shadow, lock>>

(* build: one query over the state of the moment.                          *)
Build(w) ==
  /\ job[w].pc = "build"
  /\ job' = [job EXCEPT ![w].pc = "add",
               ![w].docs = [pair \in Pairs |-> IF pair \in job[w].pairs THEN Built(pair) ELSE {}]]
  /\ UNCHANGED <<db, tx, changes, outbox, index, shadow, lock>>

(* What a job's next call to the search engine sends.                      *)
Sent(w) == {pair \in job[w].pairs : (job[w].docs[pair] = {}) <=> (job[w].pc = "delete")}

Written(documents, w, pairs) ==
  [pair \in Pairs |-> IF pair \in pairs THEN job[w].docs[pair] ELSE documents[pair]]

AddDocuments(w) ==
  /\ job[w].pc = "add"
  /\ index' = Written(index, w, Sent(w))
  /\ Goto(w, "delete")
  /\ UNCHANGED <<db, tx, changes, outbox, shadow, lock>>

DeleteDocuments(w) ==
  /\ job[w].pc = "delete"
  /\ index' = Written(index, w, Sent(w))
  /\ Goto(w, "mark")
  /\ UNCHANGED <<db, tx, changes, outbox, shadow, lock>>

(* Mutant: every pending row is marked, whatever the cutoff.               *)
MarkEverything(w) ==
  /\ job[w].pc = "mark"
  /\ CutoffDropped(w, Markers)
  /\ job' = [job EXCEPT ![w] = [NoJob EXCEPT !.pc = "unlock"]]
  /\ UNCHANGED <<db, changes, index, shadow, lock>>

(* mark_search_outbox_processed(cutoff).                                   *)
MarkProcessed(w) ==
  /\ job[w].pc = "mark"
  /\ CutoffDropped(w, (outbox \ Older(w)) \cup Markers)
  /\ job' = [job EXCEPT ![w] = [NoJob EXCEPT !.pc = "unlock"]]
  /\ UNCHANGED <<db, changes, index, shadow, lock>>

Unlock(w) ==
  /\ job[w].pc = "unlock"
  /\ lock' = Null
  /\ job' = [job EXCEPT ![w] = NoJob]
  /\ UNCHANGED <<db, tx, changes, outbox, index, shadow>>

-----------------------------------------------------------------------------
(* rebuildNow.                                                             *)
RebuildCutoff(w) ==
  /\ job[w].pc = "cutoff_all"
  /\ Goto(w, "clear")
  /\ UNCHANGED <<db, tx, changes, outbox, index, shadow, lock>>

ClearShadow(w) ==
  /\ job[w].pc = "clear"
  /\ shadow' = NoDocuments
  /\ Goto(w, "list")
  /\ UNCHANGED <<db, tx, changes, outbox, index, lock>>

(* The pairs with an active listing: approval is left to the build.        *)
ListPairs(w) ==
  /\ job[w].pc = "list"
  /\ NoneLate(w)
  /\ job' = [job EXCEPT ![w].pc = "fill",
               ![w].pairs = {pair \in Pairs :
                               /\ pair[1] \in db.live
                               /\ pair[2] \in db.open
                               /\ \E l \in db.active : l[2] = pair[1] /\ db.city[l[1]] = pair[2]}]
  /\ UNCHANGED <<db, tx, changes, outbox, index, shadow, lock>>

Fill(w) ==
  /\ job[w].pc = "fill"
  /\ job' = [job EXCEPT ![w].pc = "load",
               ![w].docs = [pair \in Pairs |-> IF pair \in job[w].pairs THEN Built(pair) ELSE {}]]
  /\ UNCHANGED <<db, tx, changes, outbox, index, shadow, lock>>

Load(w) ==
  /\ job[w].pc = "load"
  /\ shadow' = Written(shadow, w, Sent(w))
  /\ Goto(w, "verify")
  /\ UNCHANGED <<db, tx, changes, outbox, index, lock>>

DocumentCount(documents) == Cardinality({pair \in Pairs : documents[pair] # {}})

(* The shadow must hold as many documents as were pushed.                  *)
Verify(w) ==
  /\ job[w].pc = "verify"
  /\ IF DocumentCount(shadow) = DocumentCount(job[w].docs)
       THEN Goto(w, "swap") /\ UNCHANGED <<tx, outbox>>
       ELSE /\ job' = [job EXCEPT ![w] = NoJob]
            /\ CutoffDropped(w, outbox)
  /\ UNCHANGED <<db, changes, index, shadow, lock>>

SwapIndexes(w) ==
  /\ job[w].pc = "swap"
  /\ index' = shadow
  /\ shadow' = index
  /\ Goto(w, "consume")
  /\ UNCHANGED <<db, tx, changes, outbox, lock>>

ConsumeMarkers(w) ==
  /\ job[w].pc = "consume"
  /\ CutoffDropped(w, outbox \ (Older(w) \cap Markers))
  /\ job' = [job EXCEPT ![w] = NoJob]
  /\ UNCHANGED <<db, changes, index, shadow, lock>>

-----------------------------------------------------------------------------
Work(w) ==
  \/ Poll(w) \/ Cutoff(w) \/ TryLock(w) \/ Expand(w) \/ Build(w)
  \/ AddDocuments(w) \/ DeleteDocuments(w) \/ MarkProcessed(w) \/ Unlock(w)
  \/ RebuildCutoff(w) \/ ClearShadow(w) \/ ListPairs(w) \/ Fill(w) \/ Load(w)
  \/ Verify(w) \/ SwapIndexes(w) \/ ConsumeMarkers(w)

(* A call to the database or the search engine fails, or the process dies: *)
(* a task the engine has queued may still be done, in whole or in part.    *)
TaskDone(w, part) ==
  /\ index' = IF job[w].pc \in {"add", "delete"} THEN Written(index, w, part)
              ELSE IF job[w].pc = "swap" /\ part # {} THEN shadow ELSE index
  /\ shadow' = IF job[w].pc = "load" THEN Written(shadow, w, part)
               ELSE IF job[w].pc = "swap" /\ part # {} THEN index ELSE shadow

(* Mutant: a failed drain keeps the lock.                                  *)
FailsLocked(w, part) ==
  /\ job[w].pc \in DrainStep \ {"cutoff", "lock", "unlock"}
  /\ TaskDone(w, part)
  /\ job' = [job EXCEPT ![w] = NoJob]
  /\ CutoffDropped(w, outbox)
  /\ UNCHANGED <<db, changes, lock>>

(* The finally of drainOnce releases the lock.                             *)
DrainFails(w, part) ==
  /\ job[w].pc \in DrainStep \ {"cutoff", "lock", "unlock"}
  /\ TaskDone(w, part)
  /\ job' = [job EXCEPT ![w] = [NoJob EXCEPT !.pc = "unlock"]]
  /\ CutoffDropped(w, outbox)
  /\ UNCHANGED <<db, changes, lock>>

(* The process dies, and its session's locks with it; outside the lock a   *)
(* failed call ends the run in the same way.                               *)
Stop(w, part) ==
  /\ job[w].pc # "idle"
  /\ TaskDone(w, part)
  /\ lock' = IF lock = w THEN Null ELSE lock
  /\ job' = [job EXCEPT ![w] = NoJob]
  /\ CutoffDropped(w, outbox)
  /\ UNCHANGED <<db, changes>>

Fault(w) == \E part \in SUBSET Sent(w) : DrainFails(w, part) \/ Stop(w, part)

Next ==
  \/ \E t \in Writers, write \in Write : Begin(t, write)
  \/ \E t \in Writers : Commit(t) \/ Rollback(t)
  \/ \E w \in Workers : Work(w)
  \/ \E w \in Workers : Fault(w)

Spec == Init /\ [][Next]_vars

(* Transactions end, and BullMQ runs the job every two seconds.            *)
FairSpec ==
  /\ Spec
  /\ \A t \in Writers : WF_vars(Commit(t) \/ Rollback(t))
  /\ \A w \in Workers : WF_vars(Work(w))

(* Outages end: from some time on no call fails and no process dies.  A    *)
(* step of the work that looks like a fault (a lock that is taken, a count *)
(* that differs) is none: a job may go on ending early for ever.           *)
FaultsEnd == <>[][\A w \in Workers : Fault(w) => Work(w)]_vars

-----------------------------------------------------------------------------
Db == [active : SUBSET Listings, live : SUBSET Products, open : SUBSET Cities,
       approved : SUBSET Vendors, city : [Vendors -> Cities \cup {Null}]]

(* Every column, row, document and call has its type.                      *)
TypeOK ==
  /\ db \in Db
  /\ tx \in [Writers -> Tx]
  /\ changes \in 0..MaxChanges
  /\ outbox \subseteq Row
  /\ index \in Documents
  /\ shadow \in Documents
  /\ lock \in Workers \cup {Null}
  /\ job \in [Workers -> Job]

(* A document that no longer is what the database says has a row in the    *)
(* outbox that will have it written again (outbox.poller.ts: "It is never  *)
(* left stale"), if a vendor of the city lists the product at all: the row *)
(* of a relocation does not reach what the old city no longer lists.       *)
StaleQueued ==
  \A pair \in Pairs :
    Listed(pair) /\ index[pair] # Built(pair) =>
      \E row \in outbox : Covers(row.target, pair)

(* Once the database is left alone and outages end, every listed pair's    *)
(* document comes to be what the database says and stays so.               *)
IndexConverges ==
  FaultsEnd => <>[](\A pair \in Pairs : Listed(pair) => index[pair] = Built(pair))
=============================================================================
