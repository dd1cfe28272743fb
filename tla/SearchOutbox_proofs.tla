------------------------- MODULE SearchOutbox_proofs -------------------------
(***************************************************************************)
(* Proofs about SearchOutbox for any number of products, cities, vendors,  *)
(* transactions and workers: its types, and, where no transaction outlives *)
(* a cutoff, no relocation overlaps a change of its vendor's listings and  *)
(* a rebuild runs alone, that a stale document always has a row.           *)
(*                                                                         *)
(* The invariant follows a worker from the moment it has read the outbox   *)
(* (or listed the pairs of a rebuild): whatever it will not write, or will *)
(* write from documents already out of date, is covered by a row that it   *)
(* will not mark.                                                          *)
(***************************************************************************)
EXTENDS SearchOutbox, TLAPS

USE OutboxAssumption DEF OutboxAssumption

Open(t) == tx[t] # NoTx

(* An open transaction's rows are what its triggers would still resolve.   *)
TargetsCurrent ==
  \A t \in Writers, write \in Write :
    Open(t) /\ tx[t].write = write => tx[t].targets = Targets(write)

Apart ==
  \A t, u \in Writers : \A w1, w2 \in Write :
    t # u /\ Open(t) /\ Open(u) /\ tx[t].write = w1 /\ tx[u].write = w2 => ~Conflict(w1, w2)

Reading == {"build", "add", "delete", "mark", "fill", "load", "verify", "swap", "consume"}

(* Whatever commits after w has read is newer than w's cutoff.             *)
OpenNewer ==
  \A t \in Writers, w \in Workers :
    Open(t) /\ job[w].pc \in Reading => w \in tx[t].newer

Locking == {"expand", "build", "add", "delete", "mark", "unlock"}

OneDrain == \A w \in Workers : job[w].pc \in Locking => lock = w

RebuildAlone ==
  \A w \in Workers :
    job[w].pc \in RebuildStep =>
      Markers # {} /\ \A v \in Workers \ {w} : job[v].pc = "idle"

(* The rows w will leave when it marks, and those newer than its cutoff.   *)
Left(w) == {row \in outbox : w \in row.newer \/ row.target = All}

Newer(w) == {row \in outbox : w \in row.newer}

CoveredBy(rows, pair) == \E row \in rows : Covers(row.target, pair)

DrainFine(w) ==
  \A pair \in Pairs :
    /\ Listed(pair) /\ job[w].pc \in {"build", "add", "delete", "mark"}
       /\ pair \notin job[w].pairs /\ index[pair] # Built(pair) => CoveredBy(Left(w), pair)
    /\ Listed(pair) /\ job[w].pc \in {"add", "delete", "mark"}
       /\ pair \in job[w].pairs /\ job[w].docs[pair] # Built(pair) => CoveredBy(Left(w), pair)
    /\ job[w].pc = "delete" /\ pair \in job[w].pairs /\ job[w].docs[pair] # {}
         => index[pair] = job[w].docs[pair]
    /\ job[w].pc = "mark" /\ pair \in job[w].pairs => index[pair] = job[w].docs[pair]

RebuildFine(w) ==
  /\ \A pair \in Pairs :
       /\ Listed(pair) /\ job[w].pc = "fill" /\ pair \notin job[w].pairs /\ Built(pair) # {}
            => CoveredBy(Newer(w), pair)
       /\ Listed(pair) /\ job[w].pc \in {"load", "verify", "swap", "consume"}
          /\ job[w].docs[pair] # Built(pair) => CoveredBy(Newer(w), pair)
       /\ job[w].pc = "load" /\ pair \notin job[w].pairs => job[w].docs[pair] = {}
  /\ job[w].pc \in {"list", "fill", "load"} => shadow = NoDocuments
  /\ job[w].pc \in {"verify", "swap"} => shadow = job[w].docs
  /\ job[w].pc = "consume" => index = job[w].docs

Fine == \A w \in Workers : DrainFine(w) /\ RebuildFine(w)

IInv ==
  /\ TypeOK /\ TargetsCurrent /\ Apart /\ OpenNewer
  /\ OneDrain /\ RebuildAlone /\ StaleQueued /\ Fine

-----------------------------------------------------------------------------
(* The writes, one kind after the other.                                   *)
LEMMA WriteCases ==
  ASSUME NEW write \in Write
  PROVE  \/ write[1] = "listing" /\ write[2] \in Listings
            /\ write[2][1] \in Vendors /\ write[2][2] \in Products
         \/ write[1] = "product" /\ write[2] \in Products
         \/ write[1] = "city" /\ write[2] \in Cities
         \/ write[1] = "approval" /\ write[2] \in Vendors
         \/ write[1] = "move" /\ write[2] \in Moves
            /\ write[2][1] \in Vendors /\ write[2][2] \in Cities \cup {Null}
         \/ write[1] = "rebuild"
<1>1. CASE write \in {"listing"} \X Listings
  BY <1>1
<1>2. CASE write \in {"product"} \X Products
  BY <1>2
<1>3. CASE write \in {"city"} \X Cities
  BY <1>3
<1>4. CASE write \in {"approval"} \X Vendors
  BY <1>4
<1>5. CASE write \in {"move"} \X Moves
  BY <1>5
<1>6. CASE write = <<"rebuild", Null>>
  BY <1>6
<1> QED  BY <1>1, <1>2, <1>3, <1>4, <1>5, <1>6 DEF Write

LEMMA DbFields ==
  ASSUME db \in Db
  PROVE  /\ db.active \subseteq Listings /\ db.live \subseteq Products
         /\ db.open \subseteq Cities /\ db.approved \subseteq Vendors
         /\ db.city \in [Vendors -> Cities \cup {Null}]
         /\ \A v \in Vendors : db.city[v] \in Cities \cup {Null}
BY DEF Db

LEMMA TargetsTyped ==
  ASSUME db \in Db, NEW write \in Write
  PROVE  Targets(write) \subseteq Target
<1>1. CASE write[1] = "listing"
  <2>1. write[2][1] \in Vendors /\ write[2][2] \in Products
    BY <1>1, WriteCases
  <2>2. Targets(write) = {OfPair(write[2][2], db.city[write[2][1]])}
    BY <1>1 DEF Targets
  <2> QED  BY <2>1, <2>2, DbFields DEF OfPair, Target
<1>2. CASE write[1] = "product"
  <2>1. write[2] \in Products /\ Targets(write) = {OfProduct(write[2])}
    BY <1>2, WriteCases DEF Targets
  <2> QED  BY <2>1 DEF OfProduct, Target
<1>3. CASE write[1] = "city"
  <2>1. write[2] \in Cities /\ Targets(write) = {OfCity(write[2])}
    BY <1>3, WriteCases DEF Targets
  <2> QED  BY <2>1 DEF OfCity, Target
<1>4. CASE write[1] = "approval"
  <2>1. write[2] \in Vendors
    BY <1>4, WriteCases
  <2>2. Targets(write)
          = {OfPair(l[2], db.city[write[2]]) : l \in {k \in Listings : k[1] = write[2]}}
    BY <1>4 DEF Targets
  <2>3. \A l \in Listings : OfPair(l[2], db.city[write[2]]) \in Target
    BY <2>1, DbFields DEF OfPair, Target
  <2> QED  BY <2>2, <2>3
<1>5. CASE write[1] = "move"
  <2>1. write[2][1] \in Vendors /\ write[2][2] \in Cities \cup {Null}
    BY <1>5, WriteCases
  <2>2. Targets(write) = {OfCity(c) : c \in {write[2][2], db.city[write[2][1]]} \ {Null}}
    BY <1>5 DEF Targets
  <2>3. \A c \in {write[2][2], db.city[write[2][1]]} \ {Null} : OfCity(c) \in Target
    BY <2>1, DbFields DEF OfCity, Target
  <2> QED  BY <2>2, <2>3
<1>6. CASE write[1] = "rebuild"
  BY <1>6 DEF Targets, All, Target
<1> QED  BY <1>1, <1>2, <1>3, <1>4, <1>5, <1>6, WriteCases

(* What a write does to each column.                                       *)
LEMMA AfterFields ==
  ASSUME db \in Db, NEW write \in Write
  PROVE  /\ After(write) \in Db
         /\ write[1] # "listing" => After(write).active = db.active
         /\ write[1] = "listing" => After(write).active = Toggled(db.active, write[2])
         /\ write[1] # "product" => After(write).live = db.live
         /\ write[1] = "product" => After(write).live = Toggled(db.live, write[2])
         /\ write[1] # "city" => After(write).open = db.open
         /\ write[1] = "city" => After(write).open = Toggled(db.open, write[2])
         /\ write[1] # "approval" => After(write).approved = db.approved
         /\ write[1] = "approval" => After(write).approved = Toggled(db.approved, write[2])
         /\ write[1] # "move" => After(write).city = db.city
         /\ write[1] = "move" => After(write).city = [db.city EXCEPT ![write[2][1]] = write[2][2]]
<1>1. CASE write[1] = "listing"
  <2>1. After(write) = [db EXCEPT !.active = Toggled(@, write[2])] /\ write[2] \in Listings
    BY <1>1, WriteCases DEF After
  <2> QED  BY <1>1, <2>1 DEF Db, Toggled
<1>2. CASE write[1] = "product"
  <2>1. After(write) = [db EXCEPT !.live = Toggled(@, write[2])] /\ write[2] \in Products
    BY <1>2, WriteCases DEF After
  <2> QED  BY <1>2, <2>1 DEF Db, Toggled
<1>3. CASE write[1] = "city"
  <2>1. After(write) = [db EXCEPT !.open = Toggled(@, write[2])] /\ write[2] \in Cities
    BY <1>3, WriteCases DEF After
  <2> QED  BY <1>3, <2>1 DEF Db, Toggled
<1>4. CASE write[1] = "approval"
  <2>1. After(write) = [db EXCEPT !.approved = Toggled(@, write[2])] /\ write[2] \in Vendors
    BY <1>4, WriteCases DEF After
  <2> QED  BY <1>4, <2>1 DEF Db, Toggled
<1>5. CASE write[1] = "move"
  <2>1. /\ After(write) = [db EXCEPT !.city[write[2][1]] = write[2][2]]
        /\ write[2][1] \in Vendors /\ write[2][2] \in Cities \cup {Null}
    BY <1>5, WriteCases DEF After
  <2> QED  BY <1>5, <2>1 DEF Db
<1>6. CASE write[1] = "rebuild"
  BY <1>6 DEF After
<1> QED  BY <1>1, <1>2, <1>3, <1>4, <1>5, <1>6, WriteCases

-----------------------------------------------------------------------------
(* The ways a worker's job, the rows and the transactions change.          *)
JobPc == {"idle"} \cup DrainStep \cup RebuildStep

LEMMA GotoMoves ==
  ASSUME job \in [Workers -> Job], NEW w \in Workers, NEW pc \in JobPc, Goto(w, pc)
  PROVE  /\ job' \in [Workers -> Job]
         /\ job'[w].pc = pc /\ job'[w].pairs = job[w].pairs /\ job'[w].docs = job[w].docs
         /\ \A v \in Workers : v # w => job'[v] = job[v]
BY DEF Goto, Job, JobPc

LEMMA NoJobTyped ==
  /\ NoJob \in Job /\ NoJob.pc = "idle"
  /\ [NoJob EXCEPT !.pc = "unlock"] \in Job /\ [NoJob EXCEPT !.pc = "unlock"].pc = "unlock"
  /\ NoDocuments \in Documents
BY DEF NoJob, Job, NoDocuments, Documents, DrainStep

LEMMA JobEnds ==
  ASSUME job \in [Workers -> Job], NEW w \in Workers,
         \/ job' = [job EXCEPT ![w] = NoJob]
         \/ job' = [job EXCEPT ![w] = [NoJob EXCEPT !.pc = "unlock"]]
  PROVE  /\ job' \in [Workers -> Job]
         /\ job'[w].pc \in {"idle", "unlock"}
         /\ \A v \in Workers : v # w => job'[v] = job[v]
BY NoJobTyped

TxKept(w) ==
  \A t \in Writers : Open(t)' =>
    /\ Open(t)
    /\ tx'[t].write = tx[t].write /\ tx'[t].targets = tx[t].targets
    /\ \A v \in Workers : v # w /\ v \in tx[t].newer => v \in tx'[t].newer

RowsKept(w, rows) ==
  \A row \in rows : \E r \in outbox' :
    r.target = row.target /\ \A v \in Workers : v # w /\ v \in row.newer => v \in r.newer

LEMMA TxFields ==
  ASSUME TypeOK, NEW t \in Writers
  PROVE  /\ tx[t] \in Tx
         /\ tx[t].newer \subseteq Workers /\ tx[t].targets \subseteq Target
         /\ Open(t) => tx[t].write \in Write
         /\ NoTx.newer = {} /\ NoTx.targets = {}
BY DEF TypeOK, Tx, NoTx, Open

LEMMA Dropped ==
  ASSUME TypeOK, NEW w \in Workers, NEW rows, rows \subseteq outbox, CutoffDropped(w, rows)
  PROVE  /\ outbox' \subseteq Row
         /\ tx' \in [Writers -> Tx]
         /\ TxKept(w)
         /\ RowsKept(w, rows)
         /\ \A r \in outbox' : \E row \in rows : r.target = row.target
<1>1. \A row \in rows : /\ [row EXCEPT !.newer = @ \ {w}] \in Row
                        /\ [row EXCEPT !.newer = @ \ {w}].target = row.target
                        /\ [row EXCEPT !.newer = @ \ {w}].newer = row.newer \ {w}
  BY DEF TypeOK, Row
<1>2. outbox' = {[row EXCEPT !.newer = @ \ {w}] : row \in rows}
  BY DEF CutoffDropped, Without
<1>3. ASSUME NEW t \in Writers
      PROVE  /\ tx'[t] \in Tx
             /\ tx'[t].write = tx[t].write /\ tx'[t].targets = tx[t].targets
             /\ tx'[t].newer = tx[t].newer \ {w}
             /\ tx[t] = NoTx => tx'[t] = NoTx
  <2>1. tx[t] \in Tx /\ tx'[t] = [tx[t] EXCEPT !.newer = @ \ {w}]
    BY DEF TypeOK, CutoffDropped
  <2>2. CASE tx[t] = NoTx
    <3> DEFINE Blank == [write : {Null}, targets : {{}}, newer : {{}}]
    <3>1. NoTx \in Blank /\ \A r \in Blank : r = NoTx
      BY DEF NoTx
    <3>2. {} \ {w} = {}
      OBVIOUS
    <3>3. [NoTx EXCEPT !.newer = @ \ {w}] \in Blank
      BY <3>1, <3>2
    <3>4. tx'[t] = NoTx
      BY <2>1, <2>2, <3>1, <3>3
    <3> QED  BY <2>2, <3>2, <3>4 DEF Tx, NoTx
  <2>3. CASE tx[t] \in [write : Write, targets : SUBSET Target, newer : SUBSET Workers]
    <3>1. tx'[t] \in [write : Write, targets : SUBSET Target, newer : SUBSET Workers]
      BY <2>1, <2>3
    <3>2. tx'[t].write = tx[t].write /\ tx'[t].targets = tx[t].targets
          /\ tx'[t].newer = tx[t].newer \ {w}
      BY <2>1, <2>3
    <3>3. tx[t] = NoTx => tx'[t] = NoTx
      BY <2>2, <2>1 DEF NoTx
    <3> QED  BY <3>1, <3>2, <3>3 DEF Tx
  <2> QED  BY <2>1, <2>2, <2>3 DEF Tx
<1>4. tx' \in [Writers -> Tx]
  BY <1>3 DEF CutoffDropped
<1>5. TxKept(w)
  BY <1>3 DEF TxKept, Open
<1>6. RowsKept(w, rows)
  BY <1>1, <1>2 DEF RowsKept
<1> QED  BY <1>1, <1>2, <1>4, <1>5, <1>6

LEMMA Unchanged ==
  ASSUME NEW w \in Workers, UNCHANGED <<tx, outbox>>
  PROVE  TxKept(w) /\ RowsKept(w, outbox)
BY DEF TxKept, RowsKept, Open

LEMMA WrittenTyped ==
  ASSUME TypeOK, NEW w \in Workers, NEW documents \in Documents, NEW pairs
  PROVE  /\ Written(documents, w, pairs) \in Documents
         /\ \A pair \in Pairs : Written(documents, w, pairs)[pair]
              = IF pair \in pairs THEN job[w].docs[pair] ELSE documents[pair]
BY DEF TypeOK, Written, Documents, Job

LEMMA BuiltTyped ==
  ASSUME db \in Db, NEW pair \in Pairs
  PROVE  Built(pair) \in SUBSET Listings
BY DbFields DEF Built

-----------------------------------------------------------------------------
(* Types, and what a worker's step leaves alone.                           *)
LEMMA DatabaseTypes ==
  ASSUME TypeOK, NEW t \in Writers,
         (\E write \in Write : Begin(t, write)) \/ Commit(t) \/ Rollback(t)
  PROVE  TypeOK'
<1>1. ASSUME NEW write \in Write, Begin(t, write)
      PROVE  TypeOK'
  <2>1. Targets(write) \subseteq Target
    BY TargetsTyped DEF TypeOK
  <2>2. [write |-> write, targets |-> Targets(write), newer |-> CutoffsTaken] \in Tx
    BY <2>1 DEF Tx, CutoffsTaken
  <2>3. tx' \in [Writers -> Tx]
    BY <1>1, <2>2 DEF Begin, TypeOK
  <2>4. changes' \in 0..MaxChanges
    BY <1>1 DEF Begin, TypeOK
  <2> QED  BY <1>1, <2>3, <2>4 DEF Begin, TypeOK
<1>2. CASE Commit(t)
  <2>1. tx[t].write \in Write /\ tx[t].targets \subseteq Target /\ tx[t].newer \subseteq Workers
    BY <1>2, TxFields DEF Commit, Open
  <2>2. db' \in Db
    BY <1>2, <2>1, AfterFields DEF Commit, TypeOK
  <2>3. outbox' \subseteq Row
    BY <1>2, <2>1 DEF Commit, TypeOK, Row
  <2>4. tx' \in [Writers -> Tx]
    BY <1>2 DEF Commit, TypeOK, Tx
  <2> QED  BY <1>2, <2>2, <2>3, <2>4 DEF Commit, TypeOK
<1>3. CASE Rollback(t)
  <2>1. tx' \in [Writers -> Tx]
    BY <1>3 DEF Rollback, TypeOK, Tx
  <2> QED  BY <1>3, <2>1 DEF Rollback, TypeOK
<1> QED  BY <1>1, <1>2, <1>3

Framed(w) ==
  /\ TypeOK'
  /\ db' = db
  /\ \A v \in Workers : v # w => job'[v] = job[v]
  /\ TxKept(w)

(* A step that only moves w's job, and perhaps the lock and the shadow.    *)
Quiet(w) ==
  /\ Framed(w)
  /\ UNCHANGED <<tx, outbox, index>>

LEMMA QuietFrame ==
  ASSUME TypeOK, NEW w \in Workers,
         UNCHANGED <<db, tx, changes, outbox, index>>,
         shadow' \in Documents, lock' \in Workers \cup {Null},
         job' \in [Workers -> Job],
         \A v \in Workers : v # w => job'[v] = job[v]
  PROVE  Quiet(w)
BY Unchanged DEF Quiet, Framed, TypeOK

LEMMA DocsTyped ==
  ASSUME db \in Db, NEW pairs
  PROVE  [pair \in Pairs |-> IF pair \in pairs THEN Built(pair) ELSE {}] \in Documents
BY BuiltTyped DEF Documents

LEMMA JobFields ==
  ASSUME TypeOK, NEW w \in Workers
  PROVE  /\ job[w] \in Job /\ job[w].pc \in JobPc
         /\ job[w].pairs \subseteq Pairs /\ job[w].docs \in Documents
BY DEF TypeOK, Job, JobPc

LEMMA PcKnown ==
  /\ DrainStep \subseteq JobPc /\ RebuildStep \subseteq JobPc /\ "idle" \in JobPc
  /\ {"cutoff", "lock", "expand", "build", "add", "delete", "mark", "unlock"} \subseteq JobPc
  /\ {"cutoff_all", "clear", "list", "fill", "load", "verify", "swap", "consume"} \subseteq JobPc
BY DEF JobPc, DrainStep, RebuildStep

(* The drain's steps that touch nothing but its own job and the lock.      *)
LEMMA QuietDrain ==
  ASSUME TypeOK, NEW w \in Workers,
         Poll(w) \/ Cutoff(w) \/ (TryLock(w) /\ lock = Null) \/ Expand(w) \/ Build(w) \/ Unlock(w)
  PROVE  Quiet(w)
<1> USE PcKnown
<1>0. job \in [Workers -> Job]
  BY DEF TypeOK
<1>1. CASE Poll(w)
  <2>1. \E pc \in JobPc : Goto(w, pc)
    BY <1>1 DEF Poll
  <2> QED  BY <1>0, <1>1, <2>1, GotoMoves, QuietFrame DEF Poll, TypeOK
<1>2. CASE Cutoff(w)
  BY <1>0, <1>2, GotoMoves, QuietFrame DEF Cutoff, TypeOK
<1>3. CASE TryLock(w) /\ lock = Null
  <2>1. Goto(w, "expand") /\ lock' = w /\ UNCHANGED <<tx, outbox, db, changes, index, shadow>>
    BY <1>3 DEF TryLock
  <2> QED  BY <1>0, <2>1, GotoMoves, QuietFrame DEF TypeOK
<1>4. CASE Expand(w)
  <2>1. PICK pc \in JobPc, pairs \in SUBSET Pairs :
          job' = [job EXCEPT ![w].pc = pc, ![w].pairs = pairs]
    BY <1>4 DEF Expand
  <2>2. job' \in [Workers -> Job] /\ \A v \in Workers : v # w => job'[v] = job[v]
    BY <1>0, <2>1 DEF Job, JobPc
  <2> QED  BY <1>4, <2>2, QuietFrame DEF Expand, TypeOK
<1>5. CASE Build(w)
  <2>1. PICK docs \in Documents : job' = [job EXCEPT ![w].pc = "add", ![w].docs = docs]
    BY <1>5, DocsTyped DEF Build, TypeOK
  <2>2. job' \in [Workers -> Job] /\ \A v \in Workers : v # w => job'[v] = job[v]
    BY <1>0, <2>1 DEF Job, JobPc
  <2> QED  BY <1>5, <2>2, QuietFrame DEF Build, TypeOK
<1>6. CASE Unlock(w)
  BY <1>0, <1>6, JobEnds, QuietFrame DEF Unlock, TypeOK
<1> QED  BY <1>1, <1>2, <1>3, <1>4, <1>5, <1>6

LEMMA QuietRebuild ==
  ASSUME TypeOK, NEW w \in Workers,
         \/ RebuildCutoff(w) \/ ClearShadow(w) \/ ListPairs(w) \/ Fill(w) \/ Load(w)
         \/ Verify(w) /\ DocumentCount(shadow) = DocumentCount(job[w].docs)
  PROVE  Quiet(w)
<1> USE PcKnown
<1>0. job \in [Workers -> Job]
  BY DEF TypeOK
<1>1. CASE RebuildCutoff(w)
  BY <1>0, <1>1, GotoMoves, QuietFrame DEF RebuildCutoff, TypeOK
<1>2. CASE ClearShadow(w)
  BY <1>0, <1>2, GotoMoves, QuietFrame, NoJobTyped DEF ClearShadow, TypeOK
<1>3. CASE ListPairs(w)
  <2>1. PICK pairs \in SUBSET Pairs : job' = [job EXCEPT ![w].pc = "fill", ![w].pairs = pairs]
    BY <1>3 DEF ListPairs
  <2>2. job' \in [Workers -> Job] /\ \A v \in Workers : v # w => job'[v] = job[v]
    BY <1>0, <2>1 DEF Job, JobPc
  <2> QED  BY <1>3, <2>2, QuietFrame DEF ListPairs, TypeOK
<1>4. CASE Fill(w)
  <2>1. PICK docs \in Documents : job' = [job EXCEPT ![w].pc = "load", ![w].docs = docs]
    BY <1>4, DocsTyped DEF Fill, TypeOK
  <2>2. job' \in [Workers -> Job] /\ \A v \in Workers : v # w => job'[v] = job[v]
    BY <1>0, <2>1 DEF Job, JobPc
  <2> QED  BY <1>4, <2>2, QuietFrame DEF Fill, TypeOK
<1>5. CASE Load(w)
  <2>1. shadow' \in Documents
    BY <1>5, WrittenTyped DEF Load, TypeOK
  <2> QED  BY <1>0, <1>5, <2>1, GotoMoves, QuietFrame DEF Load, TypeOK
<1>6. CASE Verify(w) /\ DocumentCount(shadow) = DocumentCount(job[w].docs)
  <2>1. Goto(w, "swap") /\ UNCHANGED <<tx, outbox, db, changes, index, shadow, lock>>
    BY <1>6 DEF Verify
  <2> QED  BY <1>0, <2>1, GotoMoves, QuietFrame DEF TypeOK
<1> QED  BY <1>1, <1>2, <1>3, <1>4, <1>5, <1>6

(* A step that writes the index and keeps rows and transactions.           *)
LEMMA IndexFrame ==
  ASSUME TypeOK, NEW w \in Workers,
         AddDocuments(w) \/ DeleteDocuments(w) \/ SwapIndexes(w)
  PROVE  Framed(w) /\ RowsKept(w, outbox)
<1> USE PcKnown
<1>0. job \in [Workers -> Job]
  BY DEF TypeOK
<1>1. \E pc \in JobPc : Goto(w, pc)
  BY DEF AddDocuments, DeleteDocuments, SwapIndexes
<1>2. index' \in Documents /\ shadow' \in Documents
  BY WrittenTyped DEF AddDocuments, DeleteDocuments, SwapIndexes, TypeOK
<1>3. UNCHANGED <<db, tx, changes, outbox, lock>>
  BY DEF AddDocuments, DeleteDocuments, SwapIndexes
<1>4. job' \in [Workers -> Job] /\ \A v \in Workers : v # w => job'[v] = job[v]
  BY <1>0, <1>1, GotoMoves
<1> QED  BY <1>2, <1>3, <1>4, Unchanged DEF Framed, TypeOK

(* The end of a run, with the rows that are left.                          *)
LEMMA EndFrame ==
  ASSUME TypeOK, NEW w \in Workers, NEW rows, rows \subseteq outbox, CutoffDropped(w, rows),
         \/ job' = [job EXCEPT ![w] = NoJob]
         \/ job' = [job EXCEPT ![w] = [NoJob EXCEPT !.pc = "unlock"]],
         UNCHANGED <<db, changes>>, index' \in Documents, shadow' \in Documents,
         lock' \in Workers \cup {Null}
  PROVE  /\ Framed(w) /\ job'[w].pc \in {"idle", "unlock"}
         /\ RowsKept(w, rows) /\ \A r \in outbox' : \E row \in rows : r.target = row.target
<1>1. job \in [Workers -> Job]
  BY DEF TypeOK
<1>2. /\ job' \in [Workers -> Job] /\ job'[w].pc \in {"idle", "unlock"}
      /\ \A v \in Workers : v # w => job'[v] = job[v]
  BY <1>1, JobEnds
<1>3. TypeOK'
  BY <1>2, Dropped DEF TypeOK
<1> QED  BY <1>2, <1>3, Dropped DEF Framed

LEMMA TaskDoneTyped ==
  ASSUME TypeOK, NEW w \in Workers, NEW part, TaskDone(w, part)
  PROVE  index' \in Documents /\ shadow' \in Documents
BY WrittenTyped DEF TaskDone, TypeOK

-----------------------------------------------------------------------------
(* Transactions.                                                           *)
LEMMA ConflictSymmetric ==
  ASSUME NEW w1, NEW w2
  PROVE  Conflict(w1, w2) <=> Conflict(w2, w1)
BY DEF Conflict

(* A commit does not change what another open transaction has resolved.    *)
LEMMA TargetsStable ==
  ASSUME ~MoveRaces, db \in Db, NEW write \in Write, NEW other \in Write,
         ~Conflict(other, write), db' = After(write)
  PROVE  Targets(other)' = Targets(other)
<1>1. CASE write[1] # "move"
  <2>1. db'.city = db.city
    BY <1>1, AfterFields
  <2> QED  BY <2>1 DEF Targets
<1>2. CASE write[1] = "move"
  <2>1. db'.city = [db.city EXCEPT ![write[2][1]] = write[2][2]]
    BY <1>2, AfterFields
  <2>2. \A v \in Vendors : v # write[2][1] => db'.city[v] = db.city[v]
    BY <2>1, DbFields
  <2>3. VendorOf(write) = write[2][1] /\ VendorOf(other) # VendorOf(write)
    BY <1>2 DEF VendorOf, Conflict
  <2>4. CASE other[1] \in {"listing", "move"}
    <3>1. VendorOf(other) = other[2][1] /\ other[2][1] \in Vendors
      BY <2>4, WriteCases DEF VendorOf
    <3>2. db'.city[other[2][1]] = db.city[other[2][1]]
      BY <2>2, <2>3, <3>1
    <3> QED  BY <2>4, <3>2 DEF Targets
  <2>5. CASE other[1] = "approval"
    <3>1. VendorOf(other) = other[2] /\ other[2] \in Vendors
      BY <2>5, WriteCases DEF VendorOf
    <3>2. db'.city[other[2]] = db.city[other[2]]
      BY <2>2, <2>3, <3>1
    <3> QED  BY <2>5, <3>2 DEF Targets
  <2>6. CASE other[1] \in {"product", "city", "rebuild"}
    BY <2>6 DEF Targets
  <2> QED  BY <2>4, <2>5, <2>6, WriteCases
<1> QED  BY <1>1, <1>2

(* What a commit changes for a listed pair, its own rows cover.            *)
LEMMA CommitCovered ==
  ASSUME db \in Db, NEW write \in Write, db' = After(write),
         NEW pair \in Pairs, Listed(pair)'
  PROVE  \/ Listed(pair) /\ Built(pair)' = Built(pair)
         \/ \E target \in Targets(write) : Covers(target, pair)'
<1>0. pair[1] \in Products /\ pair[2] \in Cities
  BY DEF Pairs
<1>1. write[1] # "move" => Listed(pair)
  BY AfterFields DEF Listed
<1>2. CASE write[1] = "listing"
  <2>1. Targets(write) = {OfPair(write[2][2], db.city[write[2][1]])}
    BY <1>2 DEF Targets
  <2>2. CASE write[2][2] = pair[1] /\ db.city[write[2][1]] = pair[2]
    BY <1>0, <2>1, <2>2 DEF Covers, OfPair
  <2>3. CASE ~(write[2][2] = pair[1] /\ db.city[write[2][1]] = pair[2])
    <3>1. \A l : l # write[2] => (l \in db'.active <=> l \in db.active)
      BY <1>2, AfterFields DEF Toggled
    <3>2. Built(pair)' = Built(pair)
      BY <1>2, <2>3, <3>1, AfterFields DEF Built
    <3> QED  BY <1>1, <1>2, <3>2
  <2> QED  BY <2>2, <2>3
<1>3. CASE write[1] = "product"
  <2>1. Targets(write) = {OfProduct(write[2])}
    BY <1>3 DEF Targets
  <2>2. CASE write[2] = pair[1]
    BY <2>1, <2>2 DEF Covers, OfProduct
  <2>3. CASE write[2] # pair[1]
    <3>1. pair[1] \in db'.live <=> pair[1] \in db.live
      BY <1>3, <2>3, AfterFields DEF Toggled
    <3>2. Built(pair)' = Built(pair)
      BY <1>3, <3>1, AfterFields DEF Built
    <3> QED  BY <1>1, <1>3, <3>2
  <2> QED  BY <2>2, <2>3
<1>4. CASE write[1] = "city"
  <2>1. Targets(write) = {OfCity(write[2])}
    BY <1>4 DEF Targets
  <2>2. CASE write[2] = pair[2]
    BY <2>1, <2>2 DEF Covers, OfCity
  <2>3. CASE write[2] # pair[2]
    <3>1. pair[2] \in db'.open <=> pair[2] \in db.open
      BY <1>4, <2>3, AfterFields DEF Toggled
    <3>2. Built(pair)' = Built(pair)
      BY <1>4, <3>1, AfterFields DEF Built
    <3> QED  BY <1>1, <1>4, <3>2
  <2> QED  BY <2>2, <2>3
<1>5. CASE write[1] = "approval"
  <2>1. Targets(write)
          = {OfPair(l[2], db.city[write[2]]) : l \in {k \in Listings : k[1] = write[2]}}
    BY <1>5 DEF Targets
  <2>2. CASE \E l \in Listings : l[1] = write[2] /\ l[2] = pair[1] /\ db.city[l[1]] = pair[2]
    <3>1. OfPair(pair[1], pair[2]) \in Targets(write)
      BY <2>1, <2>2
    <3>2. Covers(OfPair(pair[1], pair[2]), pair)'
      BY <1>0 DEF Covers, OfPair
    <3> QED  BY <3>1, <3>2
  <2>3. CASE ~ \E l \in Listings : l[1] = write[2] /\ l[2] = pair[1] /\ db.city[l[1]] = pair[2]
    <3>1. \A v : v # write[2] => (v \in db'.approved <=> v \in db.approved)
      BY <1>5, AfterFields DEF Toggled
    <3>2. /\ db'.active = db.active /\ db'.live = db.live /\ db'.open = db.open
          /\ db'.city = db.city
      BY <1>5, AfterFields
    <3>3. db.active \subseteq Listings
      BY DbFields
    <3>4. \A l \in db.active :
            l[2] = pair[1] /\ db.city[l[1]] = pair[2]
              => (l[1] \in db'.approved <=> l[1] \in db.approved)
      BY <2>3, <3>1, <3>3
    <3>5. Built(pair)' = Built(pair)
      BY <3>2, <3>4 DEF Built
    <3> QED  BY <1>1, <1>5, <3>5
  <2> QED  BY <2>2, <2>3
<1>6. CASE write[1] = "move"
  <2>1. write[2][1] \in Vendors /\ write[2][2] \in Cities \cup {Null}
    BY <1>6, WriteCases
  <2>2. Targets(write) = {OfCity(c) : c \in {write[2][2], db.city[write[2][1]]} \ {Null}}
    BY <1>6 DEF Targets
  <2>3. CASE pair[2] \in {write[2][2], db.city[write[2][1]]}
    <3>1. OfCity(pair[2]) \in Targets(write)
      BY <1>0, <2>2, <2>3
    <3>2. Covers(OfCity(pair[2]), pair)'
      BY <1>0 DEF Covers, OfCity
    <3> QED  BY <3>1, <3>2
  <2>4. CASE pair[2] \notin {write[2][2], db.city[write[2][1]]}
    <3>1. db'.city = [db.city EXCEPT ![write[2][1]] = write[2][2]]
      BY <1>6, AfterFields
    <3>2. \A v \in Vendors : db'.city[v] = pair[2] <=> db.city[v] = pair[2]
      BY <2>1, <2>4, <3>1, DbFields
    <3>3. \A l \in Listings : l[1] \in Vendors
      OBVIOUS
    <3>4. Listed(pair)
      BY <3>2, <3>3 DEF Listed
    <3>5. /\ db'.active = db.active /\ db'.live = db.live /\ db'.open = db.open
          /\ db'.approved = db.approved /\ db.active \subseteq Listings
      BY <1>6, AfterFields, DbFields
    <3>6. Built(pair)' = Built(pair)
      BY <3>2, <3>3, <3>5 DEF Built
    <3> QED  BY <3>4, <3>6
  <2> QED  BY <2>3, <2>4
<1>7. CASE write[1] = "rebuild"
  <2>1. db' = db
    BY <1>7 DEF After
  <2> QED  BY <1>1, <1>7, <2>1 DEF Built
<1> QED  BY <1>2, <1>3, <1>4, <1>5, <1>6, <1>7, WriteCases

(* What a commit adds reaches every worker that has read, and what it      *)
(* leaves stale was stale before.                                          *)
LEMMA CommitRows ==
  ASSUME IInv, NEW t \in Writers, Commit(t)
  PROVE  /\ outbox \subseteq outbox'
         /\ \A row \in outbox, pair \in Pairs :
              Covers(row.target, pair) /\ Listed(pair)' => Covers(row.target, pair)'
         /\ \A pair \in Pairs : Listed(pair)' =>
              \/ Listed(pair) /\ Built(pair)' = Built(pair)
              \/ \E row \in outbox' :
                   /\ Covers(row.target, pair)'
                   /\ \A w \in Workers : job[w].pc \in Reading => w \in row.newer
<1>1. Open(t) /\ db \in Db /\ tx[t].write \in Write
  BY TxFields DEF IInv, TypeOK, Commit, Open
<1>2. outbox' = outbox \cup {[target |-> target, newer |-> tx[t].newer] : target \in tx[t].targets}
  BY DEF Commit
<1>3. tx[t].targets = Targets(tx[t].write) /\ db' = After(tx[t].write)
  BY <1>1 DEF IInv, TargetsCurrent, Commit
<1>4. \A w \in Workers : job[w].pc \in Reading => w \in tx[t].newer
  BY <1>1 DEF IInv, OpenNewer
<1>5. ASSUME NEW pair \in Pairs, Listed(pair)'
      PROVE  \/ Listed(pair) /\ Built(pair)' = Built(pair)
             \/ \E row \in outbox' :
                  /\ Covers(row.target, pair)'
                  /\ \A w \in Workers : job[w].pc \in Reading => w \in row.newer
  <2>1. CASE Listed(pair) /\ Built(pair)' = Built(pair)
    BY <2>1
  <2>2. CASE \E target \in Targets(tx[t].write) : Covers(target, pair)'
    <3>1. PICK target \in Targets(tx[t].write) : Covers(target, pair)'
      BY <2>2
    <3>2. [target |-> target, newer |-> tx[t].newer] \in outbox'
      BY <1>2, <1>3
    <3> QED  BY <1>4, <3>1, <3>2
  <2> QED  BY <1>1, <1>3, <1>5, <2>1, <2>2, CommitCovered
<1>6. \A row \in outbox, pair \in Pairs :
        Covers(row.target, pair) /\ Listed(pair)' => Covers(row.target, pair)'
  BY DEF Covers
<1> QED  BY <1>2, <1>5, <1>6

LEMMA CommitKeeps ==
  ASSUME IInv, ~MoveRaces, NEW t \in Writers, Commit(t)
  PROVE  IInv'
<1>1. TypeOK'
  BY DatabaseTypes DEF IInv
<1>2. UNCHANGED <<changes, index, shadow, lock, job>> /\ tx' = [tx EXCEPT ![t] = NoTx]
  BY DEF Commit
<1>3. \A u \in Writers : Open(u)' => u # t /\ Open(u) /\ tx'[u] = tx[u]
  BY <1>2 DEF Open, IInv, TypeOK
<1>4. Open(t) /\ db \in Db /\ tx[t].write \in Write /\ db' = After(tx[t].write)
  BY TxFields DEF IInv, TypeOK, Commit, Open
<1>5. TargetsCurrent'
  <2> SUFFICES ASSUME NEW u \in Writers, NEW write \in Write, Open(u)', tx'[u].write = write
               PROVE  tx'[u].targets = Targets(write)'
    BY DEF TargetsCurrent
  <2>1. u # t /\ Open(u) /\ tx'[u] = tx[u]
    BY <1>3
  <2>2. ~Conflict(write, tx[t].write)
    BY <1>4, <2>1 DEF IInv, Apart
  <2>3. Targets(write)' = Targets(write)
    BY <1>4, <2>2, TargetsStable
  <2> QED  BY <2>1, <2>3 DEF IInv, TargetsCurrent
<1>6. Apart' /\ OpenNewer'
  BY <1>2, <1>3 DEF IInv, Apart, OpenNewer
<1>7. OneDrain' /\ RebuildAlone'
  BY <1>2, CommitRows DEF IInv, OneDrain, RebuildAlone, Markers
<1>8. StaleQueued'
  <2> SUFFICES ASSUME NEW pair \in Pairs, Listed(pair)', index'[pair] # Built(pair)'
               PROVE  \E row \in outbox' : Covers(row.target, pair)'
    BY DEF StaleQueued
  <2>1. CASE Listed(pair) /\ Built(pair)' = Built(pair)
    BY <1>2, <2>1, CommitRows DEF IInv, StaleQueued
  <2> QED  BY <2>1, CommitRows
<1>9. ASSUME NEW w \in Workers, NEW pair \in Pairs, Listed(pair)', job[w].pc \in Reading
      PROVE  \/ /\ Listed(pair) /\ Built(pair)' = Built(pair)
                /\ CoveredBy(Left(w), pair) => CoveredBy(Left(w), pair)'
                /\ CoveredBy(Newer(w), pair) => CoveredBy(Newer(w), pair)'
             \/ CoveredBy(Left(w), pair)' /\ CoveredBy(Newer(w), pair)'
  <2>1. CASE Listed(pair) /\ Built(pair)' = Built(pair)
    BY <1>9, <2>1, CommitRows DEF CoveredBy, Left, Newer
  <2>2. CASE \E row \in outbox' : /\ Covers(row.target, pair)'
                                  /\ \A v \in Workers : job[v].pc \in Reading => v \in row.newer
    BY <1>9, <2>2 DEF CoveredBy, Left, Newer
  <2> QED  BY <1>9, <2>1, <2>2, CommitRows
<1>10. ASSUME NEW w \in Workers PROVE DrainFine(w)'
  <2>1. DrainFine(w)
    BY DEF IInv, Fine
  <2>2. ASSUME NEW pair \in Pairs, Listed(pair)',
               job[w].pc \in {"build", "add", "delete", "mark"},
               pair \notin job[w].pairs, index[pair] # Built(pair)'
        PROVE  CoveredBy(Left(w), pair)'
    BY <1>9, <2>1, <2>2 DEF DrainFine, Reading
  <2>3. ASSUME NEW pair \in Pairs, Listed(pair)', job[w].pc \in {"add", "delete", "mark"},
               pair \in job[w].pairs, job[w].docs[pair] # Built(pair)'
        PROVE  CoveredBy(Left(w), pair)'
    BY <1>9, <2>1, <2>3 DEF DrainFine, Reading
  <2> QED  BY <1>2, <2>1, <2>2, <2>3 DEF DrainFine
<1>11. ASSUME NEW w \in Workers PROVE RebuildFine(w)'
  <2>1. RebuildFine(w)
    BY DEF IInv, Fine
  <2>2. ASSUME NEW pair \in Pairs, Listed(pair)', job[w].pc = "fill",
               pair \notin job[w].pairs, Built(pair)' # {}
        PROVE  CoveredBy(Newer(w), pair)'
    BY <1>9, <2>1, <2>2 DEF RebuildFine, Reading
  <2>3. ASSUME NEW pair \in Pairs, Listed(pair)',
               job[w].pc \in {"load", "verify", "swap", "consume"},
               job[w].docs[pair] # Built(pair)'
        PROVE  CoveredBy(Newer(w), pair)'
    BY <1>9, <2>1, <2>3 DEF RebuildFine, Reading
  <2> QED  BY <1>2, <2>1, <2>2, <2>3 DEF RebuildFine
<1> QED  BY <1>1, <1>5, <1>6, <1>7, <1>8, <1>10, <1>11 DEF IInv, Fine

LEMMA TargetsSame ==
  ASSUME db' = db
  PROVE  \A write \in Write : Targets(write)' = Targets(write)
BY DEF Targets

LEMMA BeginKeeps ==
  ASSUME IInv, NEW t \in Writers, NEW write \in Write, Begin(t, write)
  PROVE  IInv'
<1>1. TypeOK'
  BY DatabaseTypes DEF IInv
<1>2. UNCHANGED <<db, outbox, index, shadow, lock, job>>
  BY DEF Begin
<1>3. \A u \in Writers : u # t => tx'[u] = tx[u]
  BY DEF Begin, IInv, TypeOK
<1>4. tx'[t].write = write /\ tx'[t].targets = Targets(write) /\ tx'[t].newer = CutoffsTaken
  BY DEF Begin, IInv, TypeOK
<1>5. TargetsCurrent'
  BY <1>2, <1>3, <1>4, TargetsSame DEF IInv, TargetsCurrent, Open
<1>6. Apart'
  <2>1. \A u \in Writers : Open(u) => ~Conflict(write, tx[u].write)
    BY DEF Begin, Open
  <2> QED  BY <1>3, <1>4, <2>1, ConflictSymmetric DEF IInv, Apart, Open
<1>7. OpenNewer'
  BY <1>2, <1>3, <1>4 DEF IInv, OpenNewer, Open, CutoffsTaken, CutoffKept, DrainStep,
     RebuildStep, Reading
<1>8. OneDrain' /\ RebuildAlone' /\ StaleQueued'
  BY <1>2 DEF IInv, OneDrain, RebuildAlone, Markers, StaleQueued, Covers, Listed, Built
<1>9. \A pair \in Pairs : Listed(pair)' = Listed(pair) /\ Built(pair)' = Built(pair)
  BY <1>2 DEF Listed, Built
<1>10. ASSUME NEW w \in Workers, NEW pair \in Pairs
       PROVE  /\ CoveredBy(Left(w), pair)' = CoveredBy(Left(w), pair)
              /\ CoveredBy(Newer(w), pair)' = CoveredBy(Newer(w), pair)
  BY <1>2 DEF CoveredBy, Left, Newer, Covers, Listed
<1>11. \A w \in Workers : DrainFine(w)' /\ RebuildFine(w)'
  BY <1>2, <1>9, <1>10 DEF IInv, Fine, DrainFine, RebuildFine
<1> QED  BY <1>1, <1>5, <1>6, <1>7, <1>8, <1>11 DEF IInv, Fine

LEMMA RollbackKeeps ==
  ASSUME IInv, NEW t \in Writers, Rollback(t)
  PROVE  IInv'
<1>1. TypeOK'
  BY DatabaseTypes DEF IInv
<1>2. UNCHANGED <<db, outbox, index, shadow, lock, job>>
  BY DEF Rollback
<1>3. \A u \in Writers : Open(u)' => Open(u) /\ tx'[u] = tx[u]
  BY DEF Rollback, Open, IInv, TypeOK
<1>4. TargetsCurrent' /\ Apart' /\ OpenNewer'
  BY <1>2, <1>3, TargetsSame DEF IInv, TargetsCurrent, Apart, OpenNewer
<1>5. OneDrain' /\ RebuildAlone' /\ StaleQueued'
  BY <1>2 DEF IInv, OneDrain, RebuildAlone, Markers, StaleQueued, Covers, Listed, Built
<1>6. \A pair \in Pairs : Listed(pair)' = Listed(pair) /\ Built(pair)' = Built(pair)
  BY <1>2 DEF Listed, Built
<1>7. ASSUME NEW w \in Workers, NEW pair \in Pairs
      PROVE  /\ CoveredBy(Left(w), pair)' = CoveredBy(Left(w), pair)
             /\ CoveredBy(Newer(w), pair)' = CoveredBy(Newer(w), pair)
  BY <1>2 DEF CoveredBy, Left, Newer, Covers, Listed
<1>8. \A w \in Workers : DrainFine(w)' /\ RebuildFine(w)'
  BY <1>2, <1>6, <1>7 DEF IInv, Fine, DrainFine, RebuildFine
<1> QED  BY <1>1, <1>4, <1>5, <1>8 DEF IInv, Fine

-----------------------------------------------------------------------------
(* What a worker's step leaves of the others' part of the invariant.       *)
LEMMA NoOtherRebuild ==
  ASSUME IInv, RebuildsAlone, NEW w \in Workers, Work(w) \/ Fault(w),
         NEW v \in Workers, v # w
  PROVE  job[v].pc \notin RebuildStep
<1>1. CASE Poll(w)
  BY <1>1 DEF Poll
<1>2. CASE job[w].pc # "idle"
  BY <1>2 DEF IInv, RebuildAlone
<1>3. Poll(w) \/ job[w].pc # "idle"
  <2>1. Work(w) => Poll(w) \/ job[w].pc # "idle"
    BY DEF Work, Cutoff, TryLock, Expand, Build, AddDocuments, DeleteDocuments, MarkProcessed,
       Unlock, RebuildCutoff, ClearShadow, ListPairs, Fill, Load, Verify, SwapIndexes,
       ConsumeMarkers
  <2>2. Fault(w) => job[w].pc # "idle"
    BY DEF Fault, DrainFails, Stop, DrainStep
  <2> QED  BY <2>1, <2>2
<1> QED  BY <1>1, <1>2, <1>3

(* While another worker drains, w has neither the lock nor a rebuild.      *)
LEMMA BesideDrain ==
  ASSUME IInv, NEW w \in Workers, Work(w) \/ Fault(w),
         NEW v \in Workers, v # w, job[v].pc \in {"build", "add", "delete", "mark"}
  PROVE  /\ job[w].pc \in {"idle", "cutoff", "lock"}
         /\ index' = index
         /\ UNCHANGED outbox \/ CutoffDropped(w, outbox)
<1>1. job[w].pc \in JobPc
  BY JobFields DEF IInv
<1>2. job[w].pc \notin Locking
  BY DEF IInv, OneDrain, Locking
<1>3. job[w].pc \notin RebuildStep
  BY DEF IInv, RebuildAlone
<1>4. job[w].pc \in {"idle", "cutoff", "lock"}
  BY <1>1, <1>2, <1>3 DEF JobPc, Locking, DrainStep
<1>5. CASE Work(w)
  <2>1. Poll(w) \/ Cutoff(w) \/ TryLock(w)
    BY <1>4, <1>5 DEF Work, Expand, Build, AddDocuments, DeleteDocuments, MarkProcessed,
       Unlock, RebuildCutoff, ClearShadow, ListPairs, Fill, Load, Verify, SwapIndexes,
       ConsumeMarkers
  <2> QED  BY <1>4, <2>1 DEF Poll, Cutoff, TryLock
<1>6. CASE Fault(w)
  BY <1>4, <1>6 DEF Fault, DrainFails, Stop, TaskDone, DrainStep
<1> QED  BY <1>4, <1>5, <1>6

LEMMA CoverKept ==
  ASSUME db' = db, NEW w \in Workers, RowsKept(w, outbox), NEW pair \in Pairs
  PROVE  /\ CoveredBy(outbox, pair) => CoveredBy(outbox, pair)'
         /\ \A v \in Workers : v # w /\ CoveredBy(Left(v), pair) => CoveredBy(Left(v), pair)'
BY DEF CoveredBy, Covers, Listed, Left, RowsKept

LEMMA SameDatabase ==
  ASSUME db' = db
  PROVE  /\ \A pair \in Pairs : Listed(pair)' = Listed(pair) /\ Built(pair)' = Built(pair)
BY DEF Listed, Built

LEMMA OthersFine ==
  ASSUME IInv, RebuildsAlone, NEW w \in Workers, Work(w) \/ Fault(w), Framed(w),
         NEW v \in Workers, v # w
  PROVE  DrainFine(v)' /\ RebuildFine(v)'
<1>1. job'[v] = job[v] /\ db' = db
  BY DEF Framed
<1>2. RebuildFine(v)'
  BY <1>1, NoOtherRebuild DEF RebuildFine, RebuildStep
<1>3. CASE job[v].pc \notin {"build", "add", "delete", "mark"}
  BY <1>1, <1>2, <1>3 DEF DrainFine
<1>4. CASE job[v].pc \in {"build", "add", "delete", "mark"}
  <2>1. index' = index /\ RowsKept(w, outbox)
    BY <1>4, BesideDrain, Dropped DEF RowsKept, IInv
  <2>2. DrainFine(v)
    BY DEF IInv, Fine
  <2>3. DrainFine(v)'
    BY <1>1, <2>1, <2>2, CoverKept, SameDatabase DEF DrainFine
  <2> QED  BY <1>2, <2>3
<1> QED  BY <1>3, <1>4

(* What remains to be shown of a step of w.                                *)
WorkerKept(w) ==
  /\ StaleQueued'
  /\ DrainFine(w)' /\ RebuildFine(w)'
  /\ job'[w].pc \in Reading => \A t \in Writers : Open(t)' => w \in tx'[t].newer
  /\ job'[w].pc \in RebuildStep =>
       Markers' # {} /\ \A v \in Workers \ {w} : job[v].pc = "idle"
  /\ job'[w].pc \in Locking => lock' = w
  /\ lock' = lock \/ lock = Null \/ lock = w

LEMMA WorkerKeeps ==
  ASSUME IInv, RebuildsAlone, NEW w \in Workers, Work(w) \/ Fault(w), Framed(w), WorkerKept(w)
  PROVE  IInv'
<1>0. TypeOK' /\ db' = db /\ \A v \in Workers : v # w => job'[v] = job[v]
  BY DEF Framed
<1>1. TargetsCurrent' /\ Apart'
  BY <1>0, TargetsSame DEF IInv, TargetsCurrent, Apart, Framed, TxKept
<1>2. OpenNewer'
  <2> SUFFICES ASSUME NEW t \in Writers, NEW v \in Workers, Open(t)', job'[v].pc \in Reading
               PROVE  v \in tx'[t].newer
    BY DEF OpenNewer
  <2>1. CASE v = w
    BY <2>1 DEF WorkerKept
  <2>2. CASE v # w
    <3>1. Open(t) /\ v \in tx[t].newer
      BY <1>0, <2>2 DEF IInv, OpenNewer, Framed, TxKept
    <3> QED  BY <2>2, <3>1 DEF Framed, TxKept
  <2> QED  BY <2>1, <2>2
<1>3. OneDrain'
  BY <1>0 DEF IInv, OneDrain, WorkerKept
<1>4. RebuildAlone'
  BY <1>0, NoOtherRebuild DEF RebuildAlone, WorkerKept
<1>5. Fine'
  BY OthersFine DEF Fine, WorkerKept
<1> QED  BY <1>0, <1>1, <1>2, <1>3, <1>4, <1>5 DEF IInv, WorkerKept

-----------------------------------------------------------------------------
(* The steps of the drain.                                                 *)
LEMMA QuietSame ==
  ASSUME IInv, NEW w \in Workers, Quiet(w)
  PROVE  /\ StaleQueued' /\ Markers' = Markers /\ index' = index
         /\ \A t \in Writers : Open(t)' = Open(t) /\ tx'[t] = tx[t]
         /\ \A pair \in Pairs :
              /\ Listed(pair)' = Listed(pair) /\ Built(pair)' = Built(pair)
              /\ CoveredBy(Left(w), pair)' = CoveredBy(Left(w), pair)
              /\ CoveredBy(Newer(w), pair)' = CoveredBy(Newer(w), pair)
<1>1. UNCHANGED <<db, tx, outbox, index>>
  BY DEF Quiet, Framed
<1> QED  BY <1>1 DEF IInv, StaleQueued, Markers, Open, CoveredBy, Left, Newer, Covers, Listed, Built

LEMMA QuietStepsKept ==
  ASSUME IInv, RebuildsAlone, NEW w \in Workers,
         Poll(w) \/ Cutoff(w) \/ (TryLock(w) /\ lock = Null) \/ Unlock(w) \/ RebuildCutoff(w)
  PROVE  Framed(w) /\ WorkerKept(w)
<1>1. Quiet(w)
  BY QuietDrain, QuietRebuild DEF IInv
<1>2. job \in [Workers -> Job]
  BY DEF IInv, TypeOK
<1>3. /\ job'[w].pc \in {"idle", "cutoff", "cutoff_all", "lock", "expand", "clear"}
      /\ job'[w].pc = "expand" => lock' = w
      /\ job'[w].pc \in {"cutoff_all", "clear"} =>
           Markers # {} /\ \A v \in Workers \ {w} : job[v].pc = "idle"
      /\ lock' = lock \/ lock = Null \/ lock = w
  <2>1. CASE Poll(w)
    BY <1>2, <2>1, GotoMoves, PcKnown DEF Poll
  <2>2. CASE Cutoff(w)
    BY <1>2, <2>2, GotoMoves, PcKnown DEF Cutoff
  <2>3. CASE TryLock(w) /\ lock = Null
    BY <1>2, <2>3, GotoMoves, PcKnown DEF TryLock
  <2>4. CASE Unlock(w)
    BY <1>2, <2>4, NoJobTyped DEF Unlock, IInv, OneDrain, Locking
  <2>5. CASE RebuildCutoff(w)
    BY <1>2, <2>5, GotoMoves, PcKnown DEF RebuildCutoff, IInv, RebuildAlone, RebuildStep
  <2> QED  BY <2>1, <2>2, <2>3, <2>4, <2>5
<1>4. DrainFine(w)' /\ RebuildFine(w)'
  BY <1>3 DEF DrainFine, RebuildFine
<1>5. WorkerKept(w)
  BY <1>1, <1>3, <1>4, QuietSame DEF WorkerKept, Reading, RebuildStep, Locking
<1> QED  BY <1>1, <1>5 DEF Quiet

(* Whatever is stale and not expanded is covered by a row w will leave.    *)
LEMMA ExpandKept ==
  ASSUME IInv, ~LateCommits, NEW w \in Workers, Expand(w)
  PROVE  Framed(w) /\ WorkerKept(w)
<1> DEFINE pairs == {pair \in Pairs : \E row \in {r \in Older(w) : r.target # All} :
                                        Covers(row.target, pair)}
<1>1. Quiet(w)
  BY QuietDrain DEF IInv
<1>2. /\ job' = [job EXCEPT ![w].pc = IF pairs = {} THEN "mark" ELSE "build", ![w].pairs = pairs]
      /\ lock' = lock /\ NoneLate(w) /\ job[w].pc = "expand"
  BY DEF Expand
<1>3. ASSUME NEW pair \in Pairs, Listed(pair), pair \notin pairs, index[pair] # Built(pair)
      PROVE  CoveredBy(Left(w), pair)
  <2>1. PICK row \in outbox : Covers(row.target, pair)
    BY <1>3 DEF IInv, StaleQueued
  <2>2. w \in row.newer \/ row.target = All
    BY <1>3, <2>1 DEF Older
  <2> QED  BY <2>1, <2>2 DEF CoveredBy, Left
<1>4. /\ job'[w].pc = IF pairs = {} THEN "mark" ELSE "build"
      /\ job'[w].pairs = pairs /\ job'[w].docs = job[w].docs
  BY <1>2 DEF IInv, TypeOK, Job
<1> HIDE DEF pairs
<1>5. DrainFine(w)' /\ RebuildFine(w)'
  BY <1>1, <1>3, <1>4, QuietSame DEF DrainFine, RebuildFine
<1>6. lock = w /\ \A t \in Writers : Open(t) => w \in tx[t].newer
  BY <1>2 DEF IInv, OneDrain, Locking, NoneLate, Open
<1> QED  BY <1>1, <1>2, <1>4, <1>5, <1>6, QuietSame DEF WorkerKept, Quiet, RebuildStep

LEMMA BuildKept ==
  ASSUME IInv, NEW w \in Workers, Build(w)
  PROVE  Framed(w) /\ WorkerKept(w)
<1> DEFINE docs == [pair \in Pairs |-> IF pair \in job[w].pairs THEN Built(pair) ELSE {}]
<1>1. Quiet(w)
  BY QuietDrain DEF IInv
<1>2. job' = [job EXCEPT ![w].pc = "add", ![w].docs = docs] /\ lock' = lock /\ job[w].pc = "build"
  BY DEF Build
<1>3. \A pair \in Pairs : pair \in job[w].pairs => docs[pair] = Built(pair)
  OBVIOUS
<1>4. job'[w].pc = "add" /\ job'[w].pairs = job[w].pairs /\ job'[w].docs = docs
  BY <1>2 DEF IInv, TypeOK, Job
<1> HIDE DEF docs
<1>5. DrainFine(w)
  BY DEF IInv, Fine
<1>6. DrainFine(w)' /\ RebuildFine(w)'
  BY <1>1, <1>2, <1>3, <1>4, <1>5, QuietSame DEF DrainFine, RebuildFine
<1>7. lock = w /\ \A t \in Writers : Open(t) => w \in tx[t].newer
  BY <1>2 DEF IInv, OneDrain, OpenNewer, Locking, Reading
<1> QED  BY <1>1, <1>2, <1>4, <1>6, <1>7, QuietSame DEF WorkerKept, Quiet, RebuildStep

(* What a drain writes is right or covered, however much of it is written. *)
LEMMA WrittenCovered ==
  ASSUME IInv, NEW w \in Workers, job[w].pc \in {"add", "delete"},
         NEW pairs, pairs \subseteq job[w].pairs, NEW pair \in Pairs, Listed(pair),
         Written(index, w, pairs)[pair] # Built(pair)
  PROVE  CoveredBy(outbox, pair)
<1>1. DrainFine(w) /\ index \in Documents
  BY DEF IInv, Fine, TypeOK
<1>2. CASE pair \in pairs
  <2>1. job[w].docs[pair] # Built(pair)
    BY <1>1, <1>2, WrittenTyped DEF IInv
  <2> QED  BY <1>1, <1>2, <2>1 DEF DrainFine, CoveredBy, Left
<1>3. CASE pair \notin pairs
  <2>1. index[pair] # Built(pair)
    BY <1>1, <1>3, WrittenTyped DEF IInv
  <2> QED  BY <2>1 DEF IInv, StaleQueued, CoveredBy
<1> QED  BY <1>2, <1>3

LEMMA SentPairs ==
  ASSUME IInv, NEW w \in Workers
  PROVE  /\ Sent(w) \subseteq job[w].pairs /\ Sent(w) \subseteq Pairs
         /\ job[w].pc = "delete" =>
              \A pair \in job[w].pairs : pair \in Sent(w) <=> job[w].docs[pair] = {}
         /\ job[w].pc \in {"add", "load"} =>
              \A pair \in job[w].pairs : pair \in Sent(w) <=> job[w].docs[pair] # {}
BY JobFields DEF IInv, Sent

LEMMA WritesKept ==
  ASSUME IInv, NEW w \in Workers, AddDocuments(w) \/ DeleteDocuments(w)
  PROVE  Framed(w) /\ WorkerKept(w)
<1>1. Framed(w) /\ UNCHANGED <<tx, outbox, lock>> /\ db' = db
  BY IndexFrame DEF IInv, AddDocuments, DeleteDocuments
<1>2. index' = Written(index, w, Sent(w)) /\ index \in Documents /\ job[w].docs \in Documents
  BY JobFields DEF AddDocuments, DeleteDocuments, IInv, TypeOK
<1>3. job[w].pc \in {"add", "delete"}
  BY DEF AddDocuments, DeleteDocuments
<1>4. /\ job'[w].pc = IF job[w].pc = "add" THEN "delete" ELSE "mark"
      /\ job'[w].pairs = job[w].pairs /\ job'[w].docs = job[w].docs
  BY GotoMoves, PcKnown DEF AddDocuments, DeleteDocuments, IInv, TypeOK
<1>5. \A pair \in Pairs : index'[pair] = IF pair \in Sent(w) THEN job[w].docs[pair] ELSE index[pair]
  BY <1>2, WrittenTyped DEF IInv
<1>6. StaleQueued'
  BY <1>1, <1>2, <1>3, WrittenCovered, SentPairs, SameDatabase
  DEF StaleQueued, CoveredBy, Covers
<1>7. \A pair \in Pairs : /\ Listed(pair)' = Listed(pair) /\ Built(pair)' = Built(pair)
                          /\ CoveredBy(Left(w), pair)' = CoveredBy(Left(w), pair)
  BY <1>1 DEF Listed, Built, CoveredBy, Left, Covers
<1>8. DrainFine(w)
  BY DEF IInv, Fine
<1>9. DrainFine(w)'
  <2>1. ASSUME NEW pair \in Pairs, pair \notin job[w].pairs
        PROVE  index'[pair] = index[pair]
    BY <1>5, <2>1, SentPairs
  <2>2. ASSUME NEW pair \in Pairs, pair \in job[w].pairs, job[w].pc = "add", job[w].docs[pair] # {}
        PROVE  index'[pair] = job[w].docs[pair]
    BY <1>5, <2>2, SentPairs
  <2>3. ASSUME NEW pair \in Pairs, pair \in job[w].pairs, job[w].pc = "delete"
        PROVE  index'[pair] = job[w].docs[pair]
    BY <1>5, <1>8, <2>3, SentPairs DEF DrainFine
  <2> QED  BY <1>3, <1>4, <1>7, <1>8, <2>1, <2>2, <2>3 DEF DrainFine
<1>10. RebuildFine(w)'
  BY <1>4 DEF RebuildFine
<1>11. lock = w /\ \A t \in Writers : Open(t)' => w \in tx'[t].newer
  BY <1>1, <1>3 DEF IInv, OneDrain, OpenNewer, Locking, Reading, Open
<1> QED  BY <1>1, <1>4, <1>6, <1>9, <1>10, <1>11 DEF WorkerKept, RebuildStep

(* What is left after the mark still covers whatever is stale.             *)
LEMMA MarkKept ==
  ASSUME IInv, NEW w \in Workers, MarkProcessed(w)
  PROVE  Framed(w) /\ WorkerKept(w)
<1> DEFINE rows == (outbox \ Older(w)) \cup Markers
<1>1. /\ CutoffDropped(w, rows) /\ rows \subseteq outbox
      /\ job' = [job EXCEPT ![w] = [NoJob EXCEPT !.pc = "unlock"]]
      /\ UNCHANGED <<db, changes, index, shadow, lock>> /\ job[w].pc = "mark"
  BY DEF MarkProcessed, Markers
<1>2. \A row \in Left(w) : row \in rows
  BY DEF Left, Older, Markers
<1> HIDE DEF rows
<1>3. Framed(w) /\ RowsKept(w, rows)
  BY <1>1, EndFrame DEF IInv, TypeOK
<1>4. StaleQueued'
  <2> SUFFICES ASSUME NEW pair \in Pairs, Listed(pair)', index'[pair] # Built(pair)'
               PROVE  \E row \in outbox' : Covers(row.target, pair)'
    BY DEF StaleQueued
  <2>1. Listed(pair) /\ index[pair] # Built(pair)
    BY <1>1, SameDatabase
  <2>2. DrainFine(w)
    BY DEF IInv, Fine
  <2>3. CoveredBy(Left(w), pair)
    BY <1>1, <2>1, <2>2 DEF DrainFine
  <2>4. PICK row \in rows : Covers(row.target, pair)
    BY <1>2, <2>3 DEF CoveredBy
  <2> QED  BY <1>1, <1>3, <2>4 DEF RowsKept, Covers, Listed
<1>5. job'[w].pc = "unlock"
  BY <1>1, NoJobTyped DEF IInv, TypeOK
<1>6. lock = w
  BY <1>1 DEF IInv, OneDrain, Locking
<1> QED  BY <1>1, <1>3, <1>4, <1>5, <1>6 DEF WorkerKept, DrainFine, RebuildFine, Reading, RebuildStep

-----------------------------------------------------------------------------
(* The steps of a rebuild.                                                 *)
LEMMA RebuildFrame ==
  ASSUME IInv, NEW w \in Workers, job[w].pc \in RebuildStep, Quiet(w), lock' = lock,
         job'[w].pc \in RebuildStep, DrainFine(w)', RebuildFine(w)',
         job'[w].pc \in Reading => \A t \in Writers : Open(t) => w \in tx[t].newer
  PROVE  Framed(w) /\ WorkerKept(w)
<1>1. Markers # {} /\ \A v \in Workers \ {w} : job[v].pc = "idle"
  BY DEF IInv, RebuildAlone
<1> QED  BY <1>1, QuietSame DEF WorkerKept, Quiet, RebuildStep, Locking

LEMMA ClearKept ==
  ASSUME IInv, NEW w \in Workers, ClearShadow(w)
  PROVE  Framed(w) /\ WorkerKept(w)
<1>1. Quiet(w)
  BY QuietRebuild DEF IInv
<1>2. job'[w].pc = "list" /\ job[w].pc = "clear" /\ shadow' = NoDocuments /\ lock' = lock
  BY GotoMoves, PcKnown DEF ClearShadow, IInv, TypeOK
<1>3. DrainFine(w)' /\ RebuildFine(w)'
  BY <1>2 DEF DrainFine, RebuildFine
<1> QED  BY <1>1, <1>2, <1>3, RebuildFrame DEF RebuildStep, Reading

(* A pair that is not listed for the rebuild has no document then.         *)
LEMMA ListKept ==
  ASSUME IInv, ~LateCommits, NEW w \in Workers, ListPairs(w)
  PROVE  Framed(w) /\ WorkerKept(w)
<1> DEFINE pairs == {pair \in Pairs :
                       /\ pair[1] \in db.live
                       /\ pair[2] \in db.open
                       /\ \E l \in db.active : l[2] = pair[1] /\ db.city[l[1]] = pair[2]}
<1>1. Quiet(w)
  BY QuietRebuild DEF IInv
<1>2. /\ job' = [job EXCEPT ![w].pc = "fill", ![w].pairs = pairs]
      /\ lock' = lock /\ shadow' = shadow /\ NoneLate(w) /\ job[w].pc = "list"
  BY DEF ListPairs
<1>3. \A pair \in Pairs : pair \notin pairs => Built(pair) = {}
  BY DEF Built
<1>4. job'[w].pc = "fill" /\ job'[w].pairs = pairs
  BY <1>2 DEF IInv, TypeOK, Job
<1> HIDE DEF pairs
<1>5. shadow = NoDocuments
  BY <1>2 DEF IInv, Fine, RebuildFine
<1>6. DrainFine(w)'
  BY <1>4 DEF DrainFine
<1>7. RebuildFine(w)'
  BY <1>1, <1>2, <1>3, <1>4, <1>5, QuietSame DEF RebuildFine, NoDocuments
<1>8. \A t \in Writers : Open(t) => w \in tx[t].newer
  BY <1>2 DEF NoneLate, Open
<1> QED  BY <1>1, <1>2, <1>4, <1>6, <1>7, <1>8, RebuildFrame DEF RebuildStep

LEMMA ReadingNewer ==
  ASSUME IInv, NEW w \in Workers, job[w].pc \in Reading
  PROVE  \A t \in Writers : Open(t) => w \in tx[t].newer
BY DEF IInv, OpenNewer

LEMMA FillKept ==
  ASSUME IInv, NEW w \in Workers, Fill(w)
  PROVE  Framed(w) /\ WorkerKept(w)
<1> DEFINE docs == [pair \in Pairs |-> IF pair \in job[w].pairs THEN Built(pair) ELSE {}]
<1>1. Quiet(w)
  BY QuietRebuild DEF IInv
<1>2. /\ job' = [job EXCEPT ![w].pc = "load", ![w].docs = docs]
      /\ lock' = lock /\ shadow' = shadow /\ job[w].pc = "fill"
  BY DEF Fill
<1>3. \A pair \in Pairs : docs[pair] = IF pair \in job[w].pairs THEN Built(pair) ELSE {}
  OBVIOUS
<1>4. job'[w].pc = "load" /\ job'[w].pairs = job[w].pairs /\ job'[w].docs = docs
  BY <1>2 DEF IInv, TypeOK, Job
<1> HIDE DEF docs
<1>5. RebuildFine(w)
  BY DEF IInv, Fine
<1>6. DrainFine(w)'
  BY <1>4 DEF DrainFine
<1>7. RebuildFine(w)'
  BY <1>1, <1>2, <1>3, <1>4, <1>5, QuietSame DEF RebuildFine, NoDocuments
<1> QED  BY <1>1, <1>2, <1>4, <1>6, <1>7, ReadingNewer, RebuildFrame DEF RebuildStep, Reading

(* The shadow, empty before, holds what was built.                         *)
LEMMA LoadKept ==
  ASSUME IInv, NEW w \in Workers, Load(w)
  PROVE  Framed(w) /\ WorkerKept(w)
<1>1. Quiet(w)
  BY QuietRebuild DEF IInv
<1>2. shadow' = Written(shadow, w, Sent(w)) /\ lock' = lock /\ job[w].pc = "load"
  BY DEF Load
<1>3. job'[w].pc = "verify" /\ job'[w].pairs = job[w].pairs /\ job'[w].docs = job[w].docs
  BY GotoMoves, PcKnown DEF Load, IInv, TypeOK
<1>4. RebuildFine(w) /\ job[w].docs \in Documents /\ shadow \in Documents
  BY JobFields DEF IInv, Fine, TypeOK
<1>5. \A pair \in Pairs : shadow'[pair] = job[w].docs[pair]
  <2> SUFFICES ASSUME NEW pair \in Pairs PROVE shadow'[pair] = job[w].docs[pair]
    OBVIOUS
  <2>1. shadow'[pair] = IF pair \in Sent(w) THEN job[w].docs[pair] ELSE shadow[pair]
    BY <1>2, <1>4, WrittenTyped DEF IInv
  <2>2. shadow[pair] = {}
    BY <1>2, <1>4 DEF RebuildFine, NoDocuments
  <2>3. pair \notin Sent(w) => job[w].docs[pair] = {}
    BY <1>2, <1>4, SentPairs DEF RebuildFine
  <2> QED  BY <2>1, <2>2, <2>3
<1>6. shadow' = job[w].docs
  BY <1>2, <1>4, <1>5 DEF Written, Documents
<1>7. DrainFine(w)'
  BY <1>3 DEF DrainFine
<1>8. RebuildFine(w)'
  BY <1>1, <1>2, <1>3, <1>4, <1>6, QuietSame DEF RebuildFine
<1> QED  BY <1>1, <1>2, <1>3, <1>7, <1>8, ReadingNewer, RebuildFrame DEF RebuildStep, Reading

LEMMA VerifyKept ==
  ASSUME IInv, NEW w \in Workers, Verify(w), DocumentCount(shadow) = DocumentCount(job[w].docs)
  PROVE  Framed(w) /\ WorkerKept(w)
<1>1. Quiet(w)
  BY QuietRebuild DEF IInv
<1>2. shadow' = shadow /\ lock' = lock /\ job[w].pc = "verify" /\ Goto(w, "swap")
  BY DEF Verify
<1>3. job'[w].pc = "swap" /\ job'[w].pairs = job[w].pairs /\ job'[w].docs = job[w].docs
  BY <1>2, GotoMoves, PcKnown DEF IInv, TypeOK
<1>4. RebuildFine(w)
  BY DEF IInv, Fine
<1>5. DrainFine(w)'
  BY <1>3 DEF DrainFine
<1>6. RebuildFine(w)'
  BY <1>1, <1>2, <1>3, <1>4, QuietSame DEF RebuildFine
<1> QED  BY <1>1, <1>2, <1>3, <1>5, <1>6, ReadingNewer, RebuildFrame DEF RebuildStep, Reading

(* While a row of type 'all' is there, nothing is uncovered.               *)
LEMMA MarkerCovers ==
  ASSUME Markers # {}, NEW pair \in Pairs, Listed(pair)
  PROVE  \E row \in outbox : Covers(row.target, pair)
BY DEF Markers, Covers, All

LEMMA SwapKept ==
  ASSUME IInv, NEW w \in Workers, SwapIndexes(w)
  PROVE  Framed(w) /\ WorkerKept(w)
<1>1. Framed(w) /\ UNCHANGED <<tx, outbox, lock>> /\ db' = db /\ index' = shadow
      /\ job[w].pc = "swap"
  BY IndexFrame DEF IInv, SwapIndexes
<1>2. job'[w].pc = "consume" /\ job'[w].pairs = job[w].pairs /\ job'[w].docs = job[w].docs
  BY GotoMoves, PcKnown DEF SwapIndexes, IInv, TypeOK
<1>3. Markers # {} /\ \A v \in Workers \ {w} : job[v].pc = "idle"
  BY <1>1 DEF IInv, RebuildAlone, RebuildStep
<1>4. StaleQueued'
  BY <1>1, <1>3, MarkerCovers, SameDatabase DEF StaleQueued, Covers
<1>5. RebuildFine(w)
  BY DEF IInv, Fine
<1>6. \A pair \in Pairs : /\ Listed(pair)' = Listed(pair) /\ Built(pair)' = Built(pair)
                          /\ CoveredBy(Newer(w), pair)' = CoveredBy(Newer(w), pair)
  BY <1>1 DEF Listed, Built, CoveredBy, Newer, Covers
<1>7. DrainFine(w)' /\ RebuildFine(w)'
  BY <1>1, <1>2, <1>5, <1>6 DEF DrainFine, RebuildFine
<1>8. \A t \in Writers : Open(t)' => w \in tx'[t].newer
  BY <1>1, ReadingNewer DEF Reading, Open
<1>9. Markers' # {}
  BY <1>1, <1>3 DEF Markers
<1> QED  BY <1>1, <1>2, <1>3, <1>4, <1>7, <1>8, <1>9 DEF WorkerKept, Locking

LEMMA ConsumeKept ==
  ASSUME IInv, NEW w \in Workers, ConsumeMarkers(w)
  PROVE  Framed(w) /\ WorkerKept(w)
<1> DEFINE rows == outbox \ (Older(w) \cap Markers)
<1>1. /\ CutoffDropped(w, rows) /\ rows \subseteq outbox
      /\ job' = [job EXCEPT ![w] = NoJob]
      /\ UNCHANGED <<db, changes, index, shadow, lock>> /\ job[w].pc = "consume"
  BY DEF ConsumeMarkers
<1>2. \A row \in Newer(w) : row \in rows
  BY DEF Newer, Older
<1> HIDE DEF rows
<1>3. Framed(w) /\ RowsKept(w, rows)
  BY <1>1, EndFrame DEF IInv, TypeOK
<1>4. StaleQueued'
  <2> SUFFICES ASSUME NEW pair \in Pairs, Listed(pair)', index'[pair] # Built(pair)'
               PROVE  \E row \in outbox' : Covers(row.target, pair)'
    BY DEF StaleQueued
  <2>1. Listed(pair) /\ index[pair] # Built(pair)
    BY <1>1, SameDatabase
  <2>2. RebuildFine(w)
    BY DEF IInv, Fine
  <2>3. CoveredBy(Newer(w), pair)
    BY <1>1, <2>1, <2>2 DEF RebuildFine
  <2>4. PICK row \in rows : Covers(row.target, pair)
    BY <1>2, <2>3 DEF CoveredBy
  <2> QED  BY <1>1, <1>3, <2>4 DEF RowsKept, Covers, Listed
<1>5. job'[w].pc = "idle"
  BY <1>1, NoJobTyped DEF IInv, TypeOK
<1> QED  BY <1>1, <1>3, <1>4, <1>5
         DEF WorkerKept, DrainFine, RebuildFine, Reading, RebuildStep, Locking

-----------------------------------------------------------------------------
(* Runs that end early, with any part of a task done.                      *)
LEMMA TaskCovered ==
  ASSUME IInv, NEW w \in Workers, NEW part \in SUBSET Sent(w), TaskDone(w, part),
         NEW pair \in Pairs, Listed(pair), index'[pair] # Built(pair)
  PROVE  CoveredBy(outbox, pair)
<1>1. CASE job[w].pc \in {"add", "delete"}
  BY <1>1, WrittenCovered, SentPairs DEF TaskDone
<1>2. CASE job[w].pc = "swap"
  BY <1>2, MarkerCovers DEF CoveredBy, IInv, RebuildAlone, RebuildStep
<1>3. CASE job[w].pc \notin {"add", "delete", "swap"}
  BY <1>3 DEF TaskDone, IInv, StaleQueued, CoveredBy
<1> QED  BY <1>1, <1>2, <1>3

LEMMA EndKept ==
  ASSUME IInv, NEW w \in Workers, CutoffDropped(w, outbox),
         \/ job' = [job EXCEPT ![w] = NoJob]
         \/ job' = [job EXCEPT ![w] = [NoJob EXCEPT !.pc = "unlock"]] /\ lock' = w,
         lock' \in {lock, Null}, lock' = lock \/ lock = w,
         UNCHANGED <<db, changes>>, index' \in Documents, shadow' \in Documents,
         \A pair \in Pairs : Listed(pair) /\ index'[pair] # Built(pair) => CoveredBy(outbox, pair)
  PROVE  Framed(w) /\ WorkerKept(w)
<1>1. Framed(w) /\ job'[w].pc \in {"idle", "unlock"} /\ RowsKept(w, outbox)
  BY EndFrame DEF IInv, TypeOK
<1>2. job'[w].pc = "unlock" => lock' = w
  BY NoJobTyped DEF IInv, TypeOK
<1>3. StaleQueued'
  <2> SUFFICES ASSUME NEW pair \in Pairs, Listed(pair)', index'[pair] # Built(pair)'
               PROVE  \E row \in outbox' : Covers(row.target, pair)'
    BY DEF StaleQueued
  <2>1. CoveredBy(outbox, pair)
    BY SameDatabase
  <2> QED  BY <1>1, <2>1 DEF RowsKept, CoveredBy, Covers, Listed
<1> QED  BY <1>1, <1>2, <1>3 DEF WorkerKept, DrainFine, RebuildFine, Reading, RebuildStep, Locking

LEMMA FaultKept ==
  ASSUME IInv, NEW w \in Workers, Fault(w)
  PROVE  Framed(w) /\ WorkerKept(w)
<1>1. PICK part \in SUBSET Sent(w) : DrainFails(w, part) \/ Stop(w, part)
  BY DEF Fault
<1>2. TaskDone(w, part) /\ CutoffDropped(w, outbox) /\ UNCHANGED <<db, changes>>
  BY <1>1 DEF DrainFails, Stop
<1>3. index' \in Documents /\ shadow' \in Documents
  BY <1>2, TaskDoneTyped DEF IInv
<1>4. \A pair \in Pairs : Listed(pair) /\ index'[pair] # Built(pair) => CoveredBy(outbox, pair)
  BY <1>2, TaskCovered
<1>5. CASE DrainFails(w, part)
  <2>1. lock = w /\ lock' = lock /\ job' = [job EXCEPT ![w] = [NoJob EXCEPT !.pc = "unlock"]]
    BY <1>5 DEF DrainFails, IInv, OneDrain, Locking, DrainStep
  <2> QED  BY <1>2, <1>3, <1>4, <2>1, EndKept
<1>6. CASE Stop(w, part)
  BY <1>2, <1>3, <1>4, <1>6, EndKept DEF Stop
<1> QED  BY <1>1, <1>5, <1>6

LEMMA GivesUpKept ==
  ASSUME IInv, NEW w \in Workers,
         \/ TryLock(w) /\ lock # Null
         \/ Verify(w) /\ DocumentCount(shadow) # DocumentCount(job[w].docs)
  PROVE  Framed(w) /\ WorkerKept(w)
<1>1. /\ CutoffDropped(w, outbox) /\ UNCHANGED <<db, changes, index, shadow, lock>>
      /\ job' = [job EXCEPT ![w] = NoJob]
  BY DEF TryLock, Verify
<1>2. \A pair \in Pairs : Listed(pair) /\ index'[pair] # Built(pair) => CoveredBy(outbox, pair)
  BY <1>1 DEF IInv, StaleQueued, CoveredBy
<1> QED  BY <1>1, <1>2, EndKept DEF IInv, TypeOK

-----------------------------------------------------------------------------
LEMMA WorkKept ==
  ASSUME IInv, ~LateCommits, RebuildsAlone, NEW w \in Workers, Work(w)
  PROVE  Framed(w) /\ WorkerKept(w)
<1>1. CASE Poll(w) \/ Cutoff(w) \/ Unlock(w) \/ RebuildCutoff(w)
  BY <1>1, QuietStepsKept
<1>2. CASE TryLock(w)
  BY <1>2, QuietStepsKept, GivesUpKept
<1>3. CASE Expand(w) \/ Build(w)
  BY <1>3, ExpandKept, BuildKept
<1>4. CASE AddDocuments(w) \/ DeleteDocuments(w) \/ MarkProcessed(w)
  BY <1>4, WritesKept, MarkKept
<1>5. CASE ClearShadow(w) \/ ListPairs(w) \/ Fill(w) \/ Load(w)
  BY <1>5, ClearKept, ListKept, FillKept, LoadKept
<1>6. CASE Verify(w)
  BY <1>6, VerifyKept, GivesUpKept
<1>7. CASE SwapIndexes(w) \/ ConsumeMarkers(w)
  BY <1>7, SwapKept, ConsumeKept
<1> QED  BY <1>1, <1>2, <1>3, <1>4, <1>5, <1>6, <1>7 DEF Work

LEMMA InitTyped == Init => TypeOK
<1> SUFFICES ASSUME Init PROVE TypeOK
  OBVIOUS
<1>1. db \in Db
  BY DEF Init, Db
<1>2. index \in Documents
  BY <1>1, BuiltTyped DEF Init, Documents
<1>3. tx \in [Writers -> Tx]
  BY DEF Init, Tx
<1>4. job \in [Workers -> Job] /\ shadow \in Documents
  BY NoJobTyped DEF Init
<1> QED  BY <1>1, <1>2, <1>3, <1>4 DEF Init, TypeOK

(* Every step of a worker keeps the types, without any assumption.         *)
LEMMA WorkTyped ==
  ASSUME TypeOK, NEW w \in Workers, Work(w) \/ Fault(w)
  PROVE  TypeOK'
<1>1. CASE \/ Poll(w) \/ Cutoff(w) \/ Expand(w) \/ Build(w) \/ Unlock(w) \/ RebuildCutoff(w)
           \/ ClearShadow(w) \/ ListPairs(w) \/ Fill(w) \/ Load(w)
  BY <1>1, QuietDrain, QuietRebuild DEF Quiet, Framed
<1>2. CASE AddDocuments(w) \/ DeleteDocuments(w) \/ SwapIndexes(w)
  BY <1>2, IndexFrame DEF Framed
<1>3. CASE MarkProcessed(w)
  <2>1. (outbox \ Older(w)) \cup Markers \subseteq outbox
    BY DEF Markers
  <2> QED  BY <1>3, <2>1, EndFrame DEF MarkProcessed, Framed, TypeOK
<1>4. CASE ConsumeMarkers(w)
  BY <1>4, EndFrame DEF ConsumeMarkers, Framed, TypeOK
<1>5. CASE TryLock(w)
  <2>1. CASE lock = Null
    BY <1>5, <2>1, QuietDrain DEF Quiet, Framed
  <2>2. CASE lock # Null
    BY <1>5, <2>2, EndFrame DEF TryLock, Framed, TypeOK
  <2> QED  BY <2>1, <2>2
<1>6. CASE Verify(w)
  <2>1. CASE DocumentCount(shadow) = DocumentCount(job[w].docs)
    BY <1>6, <2>1, QuietRebuild DEF Quiet, Framed
  <2>2. CASE DocumentCount(shadow) # DocumentCount(job[w].docs)
    BY <1>6, <2>2, EndFrame DEF Verify, Framed, TypeOK
  <2> QED  BY <2>1, <2>2
<1>7. CASE Fault(w)
  <2>1. PICK part \in SUBSET Sent(w) : DrainFails(w, part) \/ Stop(w, part)
    BY <1>7 DEF Fault
  <2>2. index' \in Documents /\ shadow' \in Documents
    BY <2>1, TaskDoneTyped DEF DrainFails, Stop
  <2> QED  BY <2>1, <2>2, EndFrame DEF DrainFails, Stop, Framed, TypeOK
<1> QED  BY <1>1, <1>2, <1>3, <1>4, <1>5, <1>6, <1>7 DEF Work

(* Every column, row, document and call keeps its type.                    *)
THEOREM TypeAlwaysOK == Spec => []TypeOK
<1>1. TypeOK /\ [Next]_vars => TypeOK'
  <2> SUFFICES ASSUME TypeOK, [Next]_vars PROVE TypeOK'
    OBVIOUS
  <2>1. CASE UNCHANGED vars
    BY <2>1 DEF vars, TypeOK
  <2>2. CASE Next
    BY <2>2, DatabaseTypes, WorkTyped DEF Next
  <2> QED  BY <2>1, <2>2
<1> QED  BY <1>1, InitTyped, PTL DEF Spec

(* A document that is out of date has a row that will have it written      *)
(* again (outbox.poller.ts: "It is never left stale"), if no transaction   *)
(* that began before a drain's cutoff commits after the drain has read, no *)
(* relocation overlaps a change of its vendor's listings, and no other     *)
(* worker runs beside a rebuild.                                           *)
THEOREM StaleAlwaysQueued ==
  ~LateCommits /\ ~MoveRaces /\ RebuildsAlone => (Spec => []StaleQueued)
<1> SUFFICES ASSUME ~LateCommits, ~MoveRaces, RebuildsAlone PROVE Spec => []StaleQueued
  OBVIOUS
<1>1. Init => IInv
  <2> SUFFICES ASSUME Init PROVE IInv
    OBVIOUS
  <2>1. \A t \in Writers : ~Open(t)
    BY DEF Init, Open
  <2>2. \A w \in Workers : job[w].pc = "idle"
    BY NoJobTyped DEF Init
  <2>3. StaleQueued
    BY DEF Init, StaleQueued
  <2>4. Fine
    BY <2>2 DEF Fine, DrainFine, RebuildFine
  <2> QED  BY <2>1, <2>2, <2>3, <2>4, InitTyped DEF IInv, TargetsCurrent, Apart, OpenNewer,
           OneDrain, RebuildAlone, Reading, Locking, RebuildStep
<1>2. IInv /\ [Next]_vars => IInv'
  <2> SUFFICES ASSUME IInv, [Next]_vars PROVE IInv'
    OBVIOUS
  <2>1. ASSUME NEW t \in Writers, NEW write \in Write, Begin(t, write) PROVE IInv'
    BY <2>1, BeginKeeps
  <2>2. ASSUME NEW t \in Writers, Commit(t) \/ Rollback(t) PROVE IInv'
    BY <2>2, CommitKeeps, RollbackKeeps
  <2>3. ASSUME NEW w \in Workers, Work(w) PROVE IInv'
    BY <2>3, WorkKept, WorkerKeeps
  <2>4. ASSUME NEW w \in Workers, Fault(w) PROVE IInv'
    BY <2>4, FaultKept, WorkerKeeps
  <2>5. CASE UNCHANGED vars
    <3>1. UNCHANGED <<db, tx, outbox, index, shadow, lock, job>> /\ TypeOK'
      BY <2>5 DEF vars, IInv, TypeOK
    <3>2. TargetsCurrent' /\ Apart' /\ OpenNewer' /\ OneDrain' /\ RebuildAlone'
      BY <3>1, TargetsSame DEF IInv, TargetsCurrent, Apart, OpenNewer, OneDrain, RebuildAlone,
         Markers, Open
    <3>3. \A pair \in Pairs : Listed(pair)' = Listed(pair) /\ Built(pair)' = Built(pair)
      BY <3>1 DEF Listed, Built
    <3>4. \A w \in Workers, pair \in Pairs :
            /\ CoveredBy(Left(w), pair)' = CoveredBy(Left(w), pair)
            /\ CoveredBy(Newer(w), pair)' = CoveredBy(Newer(w), pair)
      BY <3>1 DEF CoveredBy, Left, Newer, Covers, Listed
    <3>5. StaleQueued'
      BY <3>1 DEF IInv, StaleQueued, Covers, Listed, Built
    <3>6. Fine'
      BY <3>1, <3>3, <3>4 DEF IInv, Fine, DrainFine, RebuildFine
    <3> QED  BY <3>1, <3>2, <3>5, <3>6 DEF IInv
  <2> QED  BY <2>1, <2>2, <2>3, <2>4, <2>5 DEF Next
<1>3. IInv => StaleQueued
  BY DEF IInv
<1> QED  BY <1>1, <1>2, <1>3, PTL DEF Spec
-----------------------------------------------------------------------------
(* The advisory lock, whatever else the workers and the writers do.        *)
Turns == \A w \in Workers : job[w].pc \in Locking <=> lock = w

(* What a worker's step does to the lock: it keeps it, keeps without it,   *)
(* takes it while nobody has it, or gives it back.                         *)
LockMove(w) ==
  \/ job[w].pc \in Locking /\ job'[w].pc \in Locking /\ lock' = lock
  \/ job[w].pc \notin Locking /\ job'[w].pc \notin Locking /\ lock' = lock
  \/ job[w].pc \notin Locking /\ job'[w].pc \in Locking /\ lock = Null /\ lock' = w
  \/ job[w].pc \in Locking /\ job'[w].pc \notin Locking /\ lock' = Null

LEMMA TurnsKept ==
  ASSUME Turns, NEW w \in Workers, LockMove(w),
         \A v \in Workers : v # w => job'[v] = job[v]
  PROVE  Turns'
<1>1. lock \in {Null, w} \/ ~(job[w].pc \in Locking)
  BY DEF Turns
<1> QED  BY <1>1, OutboxAssumption DEF Turns, LockMove

LEMMA WorkMovesLock ==
  ASSUME TypeOK, Turns, NEW w \in Workers, Work(w) \/ Fault(w)
  PROVE  LockMove(w) /\ \A v \in Workers : v # w => job'[v] = job[v]
<1>t. job \in [Workers -> Job]
  BY DEF TypeOK
<1>1. CASE Poll(w) \/ Cutoff(w) \/ RebuildCutoff(w)
  BY <1>1, <1>t, GotoMoves DEF Poll, Cutoff, RebuildCutoff, LockMove, Locking, JobPc, DrainStep,
     RebuildStep
<1>2. CASE \/ AddDocuments(w) \/ DeleteDocuments(w) \/ ClearShadow(w) \/ Load(w) \/ SwapIndexes(w)
  BY <1>2, <1>t, GotoMoves DEF AddDocuments, DeleteDocuments, ClearShadow, Load, SwapIndexes,
     LockMove, Locking, JobPc, DrainStep, RebuildStep
<1>3. CASE Expand(w) \/ Build(w) \/ ListPairs(w) \/ Fill(w)
  BY <1>3, <1>t DEF Expand, Build, ListPairs, Fill, LockMove, Locking, Job
<1>4. CASE TryLock(w)
  <2>1. CASE lock = Null
    BY <1>4, <1>t, <2>1, GotoMoves DEF TryLock, LockMove, Locking, JobPc, DrainStep
  <2>2. CASE lock # Null
    BY <1>4, <1>t, <2>2, NoJobTyped DEF TryLock, LockMove, Locking
  <2> QED  BY <2>1, <2>2
<1>5. CASE MarkProcessed(w) \/ Unlock(w) \/ ConsumeMarkers(w)
  BY <1>5, <1>t, NoJobTyped DEF MarkProcessed, Unlock, ConsumeMarkers, LockMove, Locking
<1>6. CASE Verify(w)
  <2>1. CASE DocumentCount(shadow) = DocumentCount(job[w].docs)
    BY <1>6, <1>t, <2>1, GotoMoves DEF Verify, LockMove, Locking, JobPc, RebuildStep
  <2>2. CASE DocumentCount(shadow) # DocumentCount(job[w].docs)
    BY <1>6, <1>t, <2>2, NoJobTyped DEF Verify, LockMove, Locking
  <2> QED  BY <2>1, <2>2
<1>7. CASE Fault(w)
  <2>1. PICK part \in SUBSET Sent(w) : DrainFails(w, part) \/ Stop(w, part)
    BY <1>7 DEF Fault
  <2>2. CASE DrainFails(w, part)
    BY <1>t, <2>2, NoJobTyped DEF DrainFails, LockMove, Locking, DrainStep
  <2>3. CASE Stop(w, part)
    <3>1. job'[w].pc = "idle" /\ \A v \in Workers : v # w => job'[v] = job[v]
      BY <1>t, <2>3, NoJobTyped DEF Stop
    <3>2. CASE job[w].pc \in Locking
      BY <2>3, <3>1, <3>2 DEF Stop, Turns, LockMove, Locking
    <3>3. CASE job[w].pc \notin Locking
      BY <2>3, <3>1, <3>3 DEF Stop, Turns, LockMove, Locking
    <3> QED  BY <3>1, <3>2, <3>3
  <2> QED  BY <2>1, <2>2, <2>3
<1> QED  BY <1>1, <1>2, <1>3, <1>4, <1>5, <1>6, <1>7 DEF Work

(* Two instances' drains never run side by side, and the lock never        *)
(* outlives its drain: it is held exactly by the worker that is between    *)
(* taking it and giving it back, whatever fails or dies on the way,        *)
(* rebuilds beside it and late commits included.                           *)
THEOREM DrainsTakeTurns == Spec => []Turns
<1>1. Init => Turns
  BY OutboxAssumption, NoJobTyped DEF Init, Turns, Locking
<1>2. TypeOK /\ Turns /\ [Next]_vars => Turns'
  <2> SUFFICES ASSUME TypeOK, Turns, [Next]_vars PROVE Turns'
    OBVIOUS
  <2>1. CASE UNCHANGED <<lock, job>>
    BY <2>1 DEF Turns
  <2>2. ASSUME NEW w \in Workers, Work(w) \/ Fault(w) PROVE Turns'
    BY <2>2, WorkMovesLock, TurnsKept
  <2> QED  BY <2>1, <2>2 DEF Next, vars, Begin, Commit, Rollback
<1> QED  BY <1>1, <1>2, TypeAlwaysOK, PTL DEF Spec
=============================================================================
