--------------------------- MODULE Clients_proofs ---------------------------
(***************************************************************************)
(* One person on several devices or in several tabs: the proofs about      *)
(* Cart and about AdminSession.                                            *)
(***************************************************************************)
EXTENDS Cart, AdminSession, TLAPS

-----------------------------------------------------------------------------
(* Cart.  Three facts make NothingTwice inductive: what a pending addItem  *)
(* has read is not ordered while its row is there; a row's id is new; and  *)
(* what a checkout has read under its lock is not ordered either.          *)
AddReadsUnordered ==
  \A w \in Taps :
    tap[w].pc = "add" /\ StillThere(w)
      => ordered[tap[w].listing] + tap[w].read <= asked[tap[w].listing]

IdsKnown == \A w \in Taps : tap[w].pc # "idle" => tap[w].item <= item[tap[w].listing]

LinesUnordered ==
  \A c \in Checkouts :
    checkout[c].pc = "place"
      => \A l \in Listings : ordered[l] + checkout[c].lines[l] <= asked[l]

CartInv == CartTypeOK /\ NothingTwice /\ AddReadsUnordered /\ IdsKnown /\ LinesUnordered

-----------------------------------------------------------------------------
(* Beginning and ending a call keep every call's type.                     *)
LEMMA BeginTypes ==
  ASSUME CartAssumption, CartTypeOK, NEW w \in Taps, NEW pc \in {"add", "create", "update"},
         NEW l \in Listings, NEW n \in Nat, Begin(w, pc, l, n)
  PROVE  /\ tap' \in [Taps -> Tap]
         /\ \A v \in Taps : tap'[v].pc # "idle" => tap'[v].listing \in Listings
         /\ tap'[w].pc = pc /\ tap'[w].listing = l /\ tap'[w].quantity = n
         /\ tap'[w].read = quantity[l] /\ tap'[w].item = item[l]
         /\ \A v \in Taps : v # w => tap'[v] = tap[v]
  BY DEF CartAssumption, CartTypeOK, Begin, Tap, Quantity

LEMMA FinishTypes ==
  ASSUME CartAssumption, CartTypeOK, NEW w \in Taps, Finish(w)
  PROVE  /\ tap' \in [Taps -> Tap]
         /\ \A v \in Taps : tap'[v].pc # "idle" => tap'[v].listing \in Listings
         /\ tap'[w].pc = "idle"
         /\ \A v \in Taps : v # w => tap'[v] = tap[v]
  BY DEF CartAssumption, CartTypeOK, Finish, Tap, NoTap

(* A call that has begun on a listing finds what it read unordered.        *)
LEMMA BegunUnordered ==
  ASSUME CartAssumption, CartInv, NEW w \in Taps, NEW pc \in {"add", "create", "update"},
         NEW l \in Listings, NEW n \in Nat, Begin(w, pc, l, n),
         UNCHANGED <<quantity, item, asked, ordered, holder, checkout>>
  PROVE  CartInv'
  <1>1. CartTypeOK'
    BY BeginTypes DEF CartInv, CartTypeOK
  <1>2. /\ tap'[w].listing = l /\ tap'[w].read = quantity[l] /\ tap'[w].item = item[l]
        /\ \A v \in Taps : v # w => tap'[v] = tap[v]
    BY BeginTypes DEF CartInv
  <1>3. NothingTwice'
    BY DEF CartInv, NothingTwice
  <1>4. AddReadsUnordered'
    <2> SUFFICES ASSUME NEW v \in Taps, tap'[v].pc = "add", StillThere(v)'
                 PROVE  ordered[tap'[v].listing] + tap'[v].read <= asked[tap'[v].listing]
      BY DEF AddReadsUnordered
    <2>1. CASE v = w
      BY <2>1, <1>2 DEF CartInv, NothingTwice
    <2>2. CASE v # w
      BY <2>2, <1>2 DEF CartInv, AddReadsUnordered, StillThere
    <2> QED BY <2>1, <2>2
  <1>5. IdsKnown'
    <2> SUFFICES ASSUME NEW v \in Taps, tap'[v].pc # "idle"
                 PROVE  tap'[v].item <= item[tap'[v].listing]
      BY DEF IdsKnown
    <2>1. CASE v = w
      BY <2>1, <1>2 DEF CartInv, CartTypeOK, Quantity
    <2>2. CASE v # w
      BY <2>2, <1>2 DEF CartInv, IdsKnown
    <2> QED BY <2>1, <2>2
  <1>6. LinesUnordered'
    BY DEF CartInv, LinesUnordered
  <1> QED BY <1>1, <1>3, <1>4, <1>5, <1>6 DEF CartInv

(* A call that ends, having set a row that is still there to no more than  *)
(* what is asked for and not ordered.                                      *)
LEMMA SavedUnordered ==
  ASSUME CartAssumption, CartInv, NEW w \in Taps, Finish(w), NEW l \in Listings,
         NEW n \in Nat, NEW m \in Nat,
         quantity' = [quantity EXCEPT ![l] = n],
         asked' = [asked EXCEPT ![l] = asked[l] + m],
         ordered[l] + n <= asked[l] + m,
         quantity[l] > 0,
         UNCHANGED <<item, ordered, holder, checkout>>
  PROVE  CartInv'
  <1>1. CartTypeOK'
    <2>1. quantity' \in Quantity /\ asked' \in Quantity
      BY DEF CartInv, CartTypeOK, Quantity
    <2> QED BY <2>1, FinishTypes DEF CartInv, CartTypeOK
  <1>2. /\ tap'[w].pc = "idle"
        /\ \A v \in Taps : v # w => tap'[v] = tap[v]
    BY FinishTypes DEF CartInv
  <1>3. \A k \in Listings : /\ asked[k] \in Nat /\ asked'[k] \in Nat /\ ordered[k] \in Nat
                            /\ quantity[k] \in Nat
                            /\ asked[k] <= asked'[k]
                            /\ k # l => quantity'[k] = quantity[k]
    BY DEF CartInv, CartTypeOK, Quantity
  <1>4. NothingTwice'
    <2> SUFFICES ASSUME NEW k \in Listings
                 PROVE  ordered[k] + quantity'[k] <= asked'[k]
      BY DEF NothingTwice
    <2>1. CASE k = l
      BY <2>1 DEF CartInv, CartTypeOK, Quantity
    <2>2. CASE k # l
      BY <2>2, <1>3 DEF CartInv, NothingTwice
    <2> QED BY <2>1, <2>2
  <1>5. AddReadsUnordered'
    <2> SUFFICES ASSUME NEW v \in Taps, tap'[v].pc = "add", StillThere(v)'
                 PROVE  ordered[tap'[v].listing] + tap'[v].read <= asked'[tap'[v].listing]
      BY DEF AddReadsUnordered
    <2>1. v # w /\ tap'[v] = tap[v] /\ tap[v].listing \in Listings /\ tap[v].read \in Nat
      BY <1>2 DEF CartInv, CartTypeOK, Tap
    <2>2. StillThere(v)
      BY <2>1, <1>3 DEF StillThere
    <2>3. ordered[tap[v].listing] + tap[v].read <= asked[tap[v].listing]
      BY <2>1, <2>2 DEF CartInv, AddReadsUnordered
    <2> QED BY <2>1, <2>3, <1>3
  <1>6. IdsKnown'
    BY <1>2 DEF CartInv, IdsKnown
  <1>7. LinesUnordered'
    <2> SUFFICES ASSUME NEW c \in Checkouts, checkout[c].pc = "place", NEW k \in Listings
                 PROVE  ordered[k] + checkout[c].lines[k] <= asked'[k]
      BY DEF LinesUnordered
    <2>1. checkout[c].lines[k] \in Nat
      BY DEF CartInv, CartTypeOK, Quantity
    <2> QED BY <2>1, <1>3 DEF CartInv, LinesUnordered
  <1> QED BY <1>1, <1>4, <1>5, <1>6, <1>7 DEF CartInv

(* A call that ends and leaves the cart as it is.                          *)
LEMMA FinishedUnordered ==
  ASSUME CartAssumption, CartInv, NEW w \in Taps, Finish(w),
         UNCHANGED <<quantity, item, asked, ordered, holder, checkout>>
  PROVE  CartInv'
  <1>1. CartTypeOK'
    BY FinishTypes DEF CartInv, CartTypeOK
  <1>2. /\ tap'[w].pc = "idle"
        /\ \A v \in Taps : v # w => tap'[v] = tap[v]
    BY FinishTypes DEF CartInv
  <1>3. AddReadsUnordered' /\ IdsKnown'
    BY <1>2 DEF CartInv, AddReadsUnordered, IdsKnown, StillThere
  <1>4. NothingTwice' /\ LinesUnordered'
    BY DEF CartInv, NothingTwice, LinesUnordered
  <1> QED BY <1>1, <1>3, <1>4 DEF CartInv

-----------------------------------------------------------------------------
(* Each step of a call.                                                    *)
LEMMA CallsKeep ==
  ASSUME CartAssumption, CartInv, NEW w \in Taps,
         \/ \E l \in Listings, n \in Quantities : AddCalled(w, l, n) \/ UpdateCalled(w, l, n)
         \/ TapDies(w)
  PROVE  CartInv'
  <1>1. ASSUME NEW l \in Listings, NEW n \in Quantities, AddCalled(w, l, n)
        PROVE  CartInv'
    <2> DEFINE pc == IF quantity[l] = 0 THEN "create" ELSE "add"
    <2>1. Begin(w, pc, l, n) /\ UNCHANGED <<quantity, item, asked, ordered, holder, checkout>>
      BY <1>1 DEF AddCalled, cartRows
    <2>2. pc \in {"add", "create", "update"} /\ n \in Nat
      BY DEF CartAssumption
    <2> HIDE DEF pc
    <2> QED BY <2>1, <2>2, BegunUnordered
  <1>2. ASSUME NEW l \in Listings, NEW n \in Quantities, UpdateCalled(w, l, n)
        PROVE  CartInv'
    <2>1. Begin(w, "update", l, n) /\ UNCHANGED <<quantity, item, asked, ordered, holder, checkout>>
      BY <1>2 DEF UpdateCalled, cartRows
    <2>2. n \in Nat
      BY DEF CartAssumption
    <2> QED BY <2>1, <2>2, BegunUnordered
  <1>3. CASE TapDies(w)
    <2>1. Finish(w) /\ UNCHANGED <<quantity, item, asked, ordered, holder, checkout>>
      BY <1>3 DEF TapDies, cartRows
    <2> QED BY <2>1, FinishedUnordered
  <1> QED BY <1>1, <1>2, <1>3

LEMMA CreatedKeeps ==
  ASSUME CartAssumption, CartInv, NEW w \in Taps, AddCreated(w)
  PROVE  CartInv'
  <1> DEFINE l == tap[w].listing
             n == tap[w].quantity
  <1>1. /\ l \in Listings /\ n \in Nat
        /\ holder = NoCheckout /\ UNCHANGED <<ordered, holder, checkout>>
    BY DEF AddCreated, CartInv, CartTypeOK, Tap
  <1>2. CASE quantity[l] # 0
    <2>1. Begin(w, "add", l, n) /\ UNCHANGED <<quantity, item, asked, ordered, holder, checkout>>
      BY <1>2 DEF AddCreated, cartRows
    <2> HIDE DEF l, n
    <2> QED BY <2>1, <1>1, BegunUnordered
  <1>3. CASE quantity[l] = 0
    <2>1. /\ asked' = [asked EXCEPT ![l] = @ + n]
          /\ quantity' = [quantity EXCEPT ![l] = n]
          /\ item' = [item EXCEPT ![l] = @ + 1]
          /\ Finish(w)
      BY <1>3 DEF AddCreated, Ask
    <2> HIDE DEF l, n
    <2>2. CartTypeOK'
      <3>1. quantity' \in Quantity /\ asked' \in Quantity /\ item' \in Quantity
        BY <2>1, <1>1 DEF CartInv, CartTypeOK, Quantity
      <3> QED BY <3>1, <2>1, <1>1, FinishTypes DEF CartInv, CartTypeOK
    <2>3. /\ tap'[w].pc = "idle"
          /\ \A v \in Taps : v # w => tap'[v] = tap[v]
      BY <2>1, FinishTypes DEF CartInv
    <2>4. \A k \in Listings : /\ asked[k] \in Nat /\ ordered[k] \in Nat /\ item[k] \in Nat
                              /\ quantity[k] \in Nat
                              /\ k # l => /\ quantity'[k] = quantity[k]
                                          /\ asked'[k] = asked[k]
                                          /\ item'[k] = item[k]
          /\ item'[l] = item[l] + 1 /\ asked'[l] = asked[l] + n /\ quantity'[l] = n
      BY <2>1, <1>1 DEF CartInv, CartTypeOK, Quantity
    <2>5. NothingTwice'
      <3> SUFFICES ASSUME NEW k \in Listings
                   PROVE  ordered[k] + quantity'[k] <= asked'[k]
        BY <1>1 DEF NothingTwice
      <3>1. ordered[k] + quantity[k] <= asked[k]
        BY DEF CartInv, NothingTwice
      <3> QED BY <3>1, <2>4, <1>1, <1>3
    <2>6. AddReadsUnordered'
      <3> SUFFICES ASSUME NEW v \in Taps, tap'[v].pc = "add", StillThere(v)'
                   PROVE  ordered[tap'[v].listing] + tap'[v].read <= asked'[tap'[v].listing]
        BY <1>1 DEF AddReadsUnordered
      <3>1. /\ tap'[v] = tap[v] /\ tap[v].pc = "add"
            /\ tap[v].listing \in Listings /\ tap[v].item \in Nat
        BY <2>3 DEF CartInv, CartTypeOK, Tap
      <3>2. tap[v].item <= item[tap[v].listing]
        BY <3>1 DEF CartInv, IdsKnown
      <3>3. tap[v].listing # l
        BY <3>1, <3>2, <2>4 DEF StillThere
      <3>4. StillThere(v)
        BY <3>1, <3>3, <2>4 DEF StillThere
      <3> QED BY <3>1, <3>3, <3>4, <2>4 DEF CartInv, AddReadsUnordered
    <2>7. IdsKnown'
      <3> SUFFICES ASSUME NEW v \in Taps, tap'[v].pc # "idle"
                   PROVE  tap'[v].item <= item'[tap'[v].listing]
        BY DEF IdsKnown
      <3>1. /\ tap'[v] = tap[v] /\ tap[v].listing \in Listings /\ tap[v].item \in Nat
            /\ tap[v].item <= item[tap[v].listing]
        BY <2>3 DEF CartInv, CartTypeOK, Tap, IdsKnown
      <3> QED BY <3>1, <2>4
    <2>8. LinesUnordered'
      <3>1. \A c \in Checkouts : checkout[c].pc # "place"
        BY <1>1 DEF CartInv, CartTypeOK, CartAssumption
      <3> QED BY <3>1, <1>1 DEF LinesUnordered
    <2> QED BY <2>2, <2>5, <2>6, <2>7, <2>8 DEF CartInv
  <1> QED BY <1>2, <1>3

LEMMA SavesKeep ==
  ASSUME CartAssumption, CartInv, NEW w \in Taps, AddSaved(w) \/ UpdateSaved(w)
  PROVE  CartInv'
  <1> DEFINE l == tap[w].listing
             n == tap[w].quantity
             more == IF n > quantity[l] THEN n - quantity[l] ELSE 0
  <1>1. /\ l \in Listings /\ n \in Nat /\ tap[w].read \in Nat
        /\ quantity[l] \in Nat /\ asked[l] \in Nat /\ ordered[l] \in Nat
        /\ ordered[l] + quantity[l] <= asked[l]
    BY DEF AddSaved, UpdateSaved, CartInv, CartTypeOK, Tap, Quantity, NothingTwice
  <1>2. Finish(w) /\ UNCHANGED <<item, ordered, holder, checkout>>
    BY DEF AddSaved, UpdateSaved
  <1>3. CASE ~StillThere(w)
    <2>1. UNCHANGED <<quantity, asked>>
      BY <1>3 DEF AddSaved, UpdateSaved
    <2> QED BY <2>1, <1>2, FinishedUnordered
  <1>4. CASE StillThere(w) /\ AddSaved(w)
    <2>1. /\ quantity' = [quantity EXCEPT ![l] = tap[w].read + n]
          /\ asked' = [asked EXCEPT ![l] = asked[l] + n]
      BY <1>4 DEF AddSaved, Ask
    <2>2. ordered[l] + (tap[w].read + n) <= asked[l] + n /\ tap[w].read + n \in Nat
      BY <1>4, <1>1 DEF CartInv, AddReadsUnordered, AddSaved
    <2>3. quantity[l] > 0
      BY <1>4 DEF StillThere
    <2> HIDE DEF l, n
    <2> QED BY <2>1, <2>2, <2>3, <1>1, <1>2, SavedUnordered
  <1>5. CASE StillThere(w) /\ UpdateSaved(w)
    <2>1. /\ quantity' = [quantity EXCEPT ![l] = n]
          /\ asked' = [asked EXCEPT ![l] = asked[l] + more]
      BY <1>5 DEF UpdateSaved, Ask
    <2>2. ordered[l] + n <= asked[l] + more /\ more \in Nat
      BY <1>1
    <2>3. quantity[l] > 0
      BY <1>5 DEF StillThere
    <2> HIDE DEF l, n, more
    <2> QED BY <2>1, <2>2, <2>3, <1>1, <1>2, SavedUnordered
  <1> QED BY <1>3, <1>4, <1>5

-----------------------------------------------------------------------------
(* Taking a row out of the cart leaves no call that would still save it.   *)
LEMMA RemoveKeeps ==
  ASSUME CartAssumption, CartInv, NEW l \in Listings, RemoveItem(l)
  PROVE  CartInv'
  <1>1. /\ quantity' = [quantity EXCEPT ![l] = 0]
        /\ UNCHANGED <<item, asked, ordered, tap, holder, checkout>>
    BY DEF RemoveItem
  <1>2. CartTypeOK'
    BY <1>1 DEF CartInv, CartTypeOK, Quantity
  <1>3. \A k \in Listings : /\ quantity'[k] <= quantity[k]
                            /\ quantity'[k] \in Nat /\ quantity[k] \in Nat
                            /\ ordered[k] \in Nat /\ asked[k] \in Nat
                            /\ ordered[k] + quantity[k] <= asked[k]
    BY <1>1 DEF CartInv, CartTypeOK, Quantity, NothingTwice
  <1>4. NothingTwice'
    BY <1>1, <1>3 DEF NothingTwice
  <1>5. AddReadsUnordered'
    <2> SUFFICES ASSUME NEW v \in Taps, tap[v].pc = "add", StillThere(v)'
                 PROVE  ordered[tap[v].listing] + tap[v].read <= asked[tap[v].listing]
      BY <1>1 DEF AddReadsUnordered
    <2>1. tap[v].listing \in Listings
      BY DEF CartInv, CartTypeOK
    <2>2. StillThere(v)
      BY <2>1, <1>1, <1>3 DEF StillThere
    <2> QED BY <2>2 DEF CartInv, AddReadsUnordered
  <1>6. IdsKnown' /\ LinesUnordered'
    BY <1>1 DEF CartInv, IdsKnown, LinesUnordered
  <1> QED BY <1>2, <1>4, <1>5, <1>6 DEF CartInv

(* Each step of a checkout.                                                *)
LEMMA CheckoutKeeps ==
  ASSUME CartAssumption, CartInv, NEW c \in Checkouts, CheckoutStep(c)
  PROVE  CartInv'
  <1> USE DEF CartAssumption
  <1>t. CartTypeOK
    BY DEF CartInv
  <1>q. \A l \in Listings : /\ quantity[l] \in Nat /\ ordered[l] \in Nat /\ asked[l] \in Nat
                            /\ checkout[c].lines[l] \in Nat
                            /\ ordered[l] + quantity[l] <= asked[l]
    BY DEF CartInv, CartTypeOK, Quantity, NothingTwice
  <1>1. CASE Submit(c) \/ LockCart(c) \/ RollBack(c)
    <2>1. UNCHANGED <<quantity, item, asked, ordered, tap>>
      BY <1>1 DEF Submit, LockCart, RollBack, cartRows
    <2>2. CartTypeOK'
      <3>1. /\ holder' \in Checkouts \cup {NoCheckout}
            /\ checkout' \in [Checkouts -> [pc : {"idle", "lock", "read", "place"}, lines : Quantity]]
        <4>1. NotSubmitted \in [pc : {"idle", "lock", "read", "place"}, lines : Quantity]
          BY DEF NotSubmitted, NoLines, Quantity
        <4>2. CASE Submit(c) \/ LockCart(c)
          BY <4>2, <1>t DEF Submit, LockCart, CartTypeOK
        <4>3. CASE RollBack(c)
          BY <4>1, <4>3, <1>t DEF RollBack, Unlock, CartTypeOK
        <4> QED BY <1>1, <4>2, <4>3
      <3>2. ASSUME NEW d \in Checkouts
            PROVE  checkout'[d].pc \in {"read", "place"} <=> holder' = d
        BY <1>1, <1>t DEF Submit, LockCart, RollBack, Unlock, CartTypeOK, NotSubmitted
      <3> QED BY <3>1, <3>2, <2>1, <1>t DEF CartTypeOK
    <2>3. NothingTwice' /\ AddReadsUnordered' /\ IdsKnown'
      BY <2>1 DEF CartInv, NothingTwice, AddReadsUnordered, IdsKnown, StillThere
    <2>4. LinesUnordered'
      <3> SUFFICES ASSUME NEW d \in Checkouts, checkout'[d].pc = "place"
                   PROVE  \A l \in Listings : ordered[l] + checkout'[d].lines[l] <= asked[l]
        BY <2>1 DEF LinesUnordered
      <3>1. checkout'[d] = checkout[d]
        BY <1>1, <1>t DEF Submit, LockCart, RollBack, Unlock, CartTypeOK, NotSubmitted
      <3> QED BY <3>1 DEF CartInv, LinesUnordered
    <2> QED BY <2>2, <2>3, <2>4 DEF CartInv
  <1>2. CASE ReadLines(c)
    <2>1. /\ checkout[c].pc = "read"
          /\ checkout' = [checkout EXCEPT ![c] = [pc |-> "place", lines |-> quantity]]
          /\ UNCHANGED <<quantity, item, asked, ordered, tap, holder>>
      BY <1>2 DEF ReadLines, cartRows
    <2>2. CartTypeOK'
      BY <2>1, <1>t DEF CartTypeOK
    <2>3. NothingTwice' /\ AddReadsUnordered' /\ IdsKnown'
      BY <2>1 DEF CartInv, NothingTwice, AddReadsUnordered, IdsKnown, StillThere
    <2>4. LinesUnordered'
      <3> SUFFICES ASSUME NEW d \in Checkouts, checkout'[d].pc = "place", NEW l \in Listings
                   PROVE  ordered[l] + checkout'[d].lines[l] <= asked[l]
        BY <2>1 DEF LinesUnordered
      <3>1. CASE d = c
        BY <3>1, <2>1, <1>t, <1>q DEF CartTypeOK
      <3>2. CASE d # c
        BY <3>2, <2>1, <1>t DEF CartTypeOK, CartInv, LinesUnordered
      <3> QED BY <3>1, <3>2
    <2> QED BY <2>2, <2>3, <2>4 DEF CartInv
  <1>3. CASE PlaceOrder(c)
    <2>1. /\ checkout[c].pc = "place" /\ holder = c
          /\ ordered' = [l \in Listings |-> ordered[l] + checkout[c].lines[l]]
          /\ quantity' = NoLines
          /\ holder' = NoCheckout
          /\ checkout' = [checkout EXCEPT ![c] = NotSubmitted]
          /\ UNCHANGED <<item, asked, tap>>
      BY <1>3, <1>t DEF PlaceOrder, Unlock, CartTypeOK
    <2>2. \A d \in Checkouts : d # c => checkout[d].pc \notin {"read", "place"}
      BY <2>1, <1>t DEF CartTypeOK
    <2>3. CartTypeOK'
      <3>1. ordered' \in Quantity /\ quantity' \in Quantity
        BY <2>1, <1>q DEF Quantity, NoLines
      <3>2. checkout' \in [Checkouts -> [pc : {"idle", "lock", "read", "place"}, lines : Quantity]]
        BY <2>1, <1>t DEF CartTypeOK, NotSubmitted, NoLines, Quantity
      <3>3. ASSUME NEW d \in Checkouts
            PROVE  checkout'[d].pc \in {"read", "place"} <=> holder' = d
        BY <2>1, <2>2, <1>t DEF CartTypeOK, NotSubmitted
      <3> QED BY <3>1, <3>2, <3>3, <2>1, <1>t DEF CartTypeOK
    <2>4. NothingTwice'
      <3> SUFFICES ASSUME NEW l \in Listings
                   PROVE  ordered'[l] + quantity'[l] <= asked[l]
        BY <2>1 DEF NothingTwice
      <3>1. ordered[l] + checkout[c].lines[l] <= asked[l]
        BY <2>1 DEF CartInv, LinesUnordered
      <3>2. ordered'[l] = ordered[l] + checkout[c].lines[l] /\ quantity'[l] = 0
        BY <2>1 DEF NoLines
      <3> QED BY <3>1, <3>2, <1>q
    <2>5. AddReadsUnordered'
      <3> SUFFICES ASSUME NEW v \in Taps, tap[v].pc = "add", StillThere(v)'
                   PROVE  FALSE
        BY <2>1 DEF AddReadsUnordered
      <3> QED BY <2>1, <1>t DEF CartTypeOK, StillThere, NoLines
    <2>6. IdsKnown'
      BY <2>1 DEF CartInv, IdsKnown
    <2>7. LinesUnordered'
      <3>1. \A d \in Checkouts : checkout'[d].pc # "place"
        BY <2>1, <2>2, <1>t DEF CartTypeOK, NotSubmitted
      <3> QED BY <3>1 DEF LinesUnordered
    <2> QED BY <2>3, <2>4, <2>5, <2>6, <2>7 DEF CartInv
  <1> QED BY <1>1, <1>2, <1>3 DEF CheckoutStep

LEMMA CartInitHolds == ASSUME CartAssumption, CartInit PROVE CartInv
  <1>1. CartTypeOK
    <2>1. tap \in [Taps -> Tap] /\ \A w \in Taps : tap[w].pc = "idle"
      BY DEF CartInit, NoTap, Tap
    <2> QED BY <2>1 DEF CartInit, CartTypeOK, NoLines, Quantity, NotSubmitted, CartAssumption
  <1>2. \A w \in Taps : tap[w].pc = "idle"
    BY DEF CartInit, NoTap
  <1>3. NothingTwice /\ AddReadsUnordered /\ IdsKnown /\ LinesUnordered
    BY <1>2 DEF CartInit, NothingTwice, AddReadsUnordered, IdsKnown, LinesUnordered, NoLines, NotSubmitted
  <1> QED BY <1>1, <1>3 DEF CartInv

LEMMA CartNextKeeps == ASSUME CartAssumption, CartInv, [CartNext]_cartVars PROVE CartInv'
  <1>1. ASSUME NEW w \in Taps, TapStep(w) PROVE CartInv'
    BY <1>1, CallsKeep, CreatedKeeps, SavesKeep DEF TapStep
  <1>2. CASE UNCHANGED cartVars
    BY <1>2 DEF cartVars, cartRows, CartInv, CartTypeOK, NothingTwice, AddReadsUnordered, IdsKnown,
                LinesUnordered, StillThere
  <1> QED BY <1>1, <1>2, RemoveKeeps, CheckoutKeeps DEF CartNext

(* The cart, its calls and its checkouts keep their types, and the lock is *)
(* held by the one checkout that has passed it.                            *)
THEOREM CartTypesAlwaysOK == CartSpec => []CartTypeOK
  <1>1. CartAssumption
    BY CartAssumption
  <1>2. CartInit => CartInv
    BY <1>1, CartInitHolds
  <1>3. CartInv /\ [CartNext]_cartVars => CartInv'
    BY <1>1, CartNextKeeps
  <1>4. CartInv => CartTypeOK
    BY DEF CartInv
  <1> QED BY <1>2, <1>3, <1>4, PTL DEF CartSpec

(* However often a checkout is submitted, and whatever is tapped meanwhile,*)
(* nothing the customer asked for is ordered twice.                        *)
THEOREM NeverOrderedTwice == CartSpec => []NothingTwice
  <1>1. CartAssumption
    BY CartAssumption
  <1>2. CartInit => CartInv
    BY <1>1, CartInitHolds
  <1>3. CartInv /\ [CartNext]_cartVars => CartInv'
    BY <1>1, CartNextKeeps
  <1>4. CartInv => NothingTwice
    BY DEF CartInv
  <1> QED BY <1>2, <1>3, <1>4, PTL DEF CartSpec

-----------------------------------------------------------------------------
(* AdminSession.  The lock is held by exactly the tab that has a call at   *)
(* the backend.  Unless something failed, that call is about the pair in   *)
(* localStorage, or about one that a failed load has taken from there, and *)
(* whoever is about to end the session finds localStorage empty: so what a *)
(* refresh brings back replaces the pair it presented, or a dropped one.   *)
(* A tab has a call at the backend exactly while it holds the lock.        *)
LockHeld ==
  \A t \in Tabs :
    /\ flight[t].pc = "posted" <=> lock = t
    /\ serving[t].pc # "none" <=> lock = t
    /\ serving[t].new # 0 => serving[t].pc = "answer"

Ending == (\E q \in Requests : request[q].pc = "ending") \/ (\E t \in Tabs : leaving[t] = "clearing")

(* A tab that is about to clear the tokens finds none.                     *)
EndedOnce == Ending => stored = 0 /\ lock = Nobody

(* A call is about the pair that is stored, or was until a load failed; it *)
(* works until the backend has rotated it; its new pair works at once.     *)
CallsCurrent ==
  \A t \in Tabs : serving[t].pc # "none" =>
    LET token == serving[t].token
        new   == serving[t].new
    IN  /\ stored = token \/ (stored = 0 /\ token \in dropped)
        /\ token \notin revoking
        /\ serving[t].pc # "reuse"
        /\ serving[t].pc \in {"sent", "rotate"} => token \notin revoked
        /\ serving[t].pc = "issue" \/ new # 0 => token \in revoked
        /\ new # 0 => new \notin revoked \cup revoking

(* The stored pair is not being revoked by a log out, and is rotated only  *)
(* by a refresh that holds the lock.                                       *)
StoredWorks ==
  /\ stored \notin revoking
  /\ stored \in revoked => lock # Nobody

SessionKept == EndedOnce /\ CallsCurrent /\ StoredWorks /\ NoneLeftBehind

SessionInv == TypeOK /\ LockHeld /\ (~failed => SessionKept)

-----------------------------------------------------------------------------
(* A flight that lands keeps the types, takes no other tab's flight along, *)
(* and ends the session only when it brings no token.                      *)
LEMMA SettleTypes ==
  ASSUME SessionAssumption, TypeOK, NEW t \in Tabs, NEW access \in Nat, stored' \in Nat,
         Settle(t, access)
  PROVE  /\ flight' \in [Tabs -> Flight]
         /\ request' \in [Requests -> Request]
         /\ leaving' \in [Tabs -> {"no", "await", "queued", "clearing"}]
         /\ flight'[t].pc = "none"
         /\ \A u \in Tabs : u # t => flight'[u] = flight[u]
         /\ \A u \in Tabs : leaving'[u] = "clearing" => leaving[u] = "clearing"
         /\ \A q \in Requests :
              request'[q].pc = "ending" => request[q].pc = "ending" \/ access = 0
  <1>1. /\ flight' \in [Tabs -> Flight]
        /\ flight'[t].pc = "none"
        /\ \A u \in Tabs : u # t => flight'[u] = flight[u]
    BY DEF Settle, TypeOK, NoFlight, Flight
  <1>2. /\ leaving' \in [Tabs -> {"no", "await", "queued", "clearing"}]
        /\ \A u \in Tabs : leaving'[u] = "clearing" => leaving[u] = "clearing"
    BY DEF Settle, TypeOK
  <1>3. /\ request' \in [Requests -> Request]
        /\ \A q \in Requests :
             request'[q].pc = "ending" => request[q].pc = "ending" \/ access = 0
    <2> SUFFICES ASSUME NEW q \in Requests
                 PROVE  /\ request'[q] \in Request
                        /\ request'[q].pc = "ending" => request[q].pc = "ending" \/ access = 0
      BY DEF Settle
    <2>1. request[q] \in Request
      BY DEF TypeOK
    <2> QED BY <2>1 DEF Settle, Request
  <1> QED BY <1>1, <1>2, <1>3

(* A call that is let go of leaves no trace but, perhaps, a revoked token. *)
LEMMA LetGoTypes ==
  ASSUME TypeOK, NEW t \in Tabs, serving[t].pc # "none", LetGo(t)
  PROVE  /\ serving' \in [Tabs -> Call]
         /\ serving'[t] = NoCall
         /\ \A u \in Tabs : u # t => serving'[u] = serving[u]
         /\ failed' = TRUE /\ dropped' = {}
         /\ issued' = issued
         /\ revoked' \subseteq 1..issued
  <1>1. NoCall \in Call
    BY DEF NoCall, Call
  <1>2. /\ serving' \in [Tabs -> Call]
        /\ serving'[t] = NoCall
        /\ \A u \in Tabs : u # t => serving'[u] = serving[u]
    BY <1>1 DEF LetGo, TypeOK
  <1>3. serving[t].token \in 1..issued
    BY DEF TypeOK, Pair
  <1>4. revoked' \subseteq 1..issued
    BY <1>3 DEF LetGo, TypeOK
  <1> QED BY <1>2, <1>4 DEF LetGo, Fails

-----------------------------------------------------------------------------
(* Requests: a tab's flight may be queued, never posted.                   *)
LEMMA RequestsKeep ==
  ASSUME SessionAssumption, SessionInv, NEW q \in Requests,
         Send(q) \/ Done(q) \/ Unauthorized(q) \/ GetMe(q)
  PROVE  SessionInv'
  <1> USE SessionAssumption DEF SessionInv
  <1>1. request[q] \in Request /\ TabOf[q] \in Tabs
    BY DEF TypeOK
  <1>2. /\ request' \in [Requests -> Request]
        /\ \A r \in Requests : request'[r].pc = "ending" => request[r].pc = "ending"
    <2>1. CASE Send(q)
      BY <2>1 DEF Send, Idle, TypeOK, Request, Pair
    <2>2. CASE Done(q)
      BY <2>2 DEF Done, Idle, TypeOK, Request
    <2>3. CASE Unauthorized(q)
      BY <2>3 DEF Unauthorized, TypeOK, Request
    <2>4. CASE GetMe(q)
      BY <2>4 DEF GetMe, TypeOK, Request, Pair
    <2> QED BY <2>1, <2>2, <2>3, <2>4
  <1>3. /\ flight' \in [Tabs -> Flight]
        /\ \A t \in Tabs : flight'[t].pc = "posted" <=> flight[t].pc = "posted"
    <2>1. CASE flight' = flight
      BY <2>1 DEF TypeOK
    <2>2. CASE /\ flight[TabOf[q]].pc = "none"
               /\ flight' = [flight EXCEPT ![TabOf[q]] =
                               [pc |-> "queued", stale |-> request[q].bearer]]
      BY <1>1, <2>2 DEF TypeOK, Flight, Request
    <2> QED BY <2>1, <2>2 DEF Send, Done, Unauthorized, GetMe
  <1>4. UNCHANGED <<stored, lock, leaving, tokens, serving, revoking, history>>
    BY DEF Send, Done, Unauthorized, GetMe
  <1>5. page' \in [Tabs -> {"open", "loading", "asking"}]
    BY DEF Send, Done, Unauthorized, GetMe, TypeOK
  <1>6. TypeOK'
    BY <1>2, <1>3, <1>4, <1>5 DEF TypeOK, tokens, history, Pair
  <1>7. LockHeld'
    BY <1>3, <1>4 DEF LockHeld
  <1>8. ~failed' => SessionKept'
    BY <1>2, <1>4 DEF SessionKept, EndedOnce, Ending, CallsCurrent, StoredWorks, NoneLeftBehind,
                      tokens, history
  <1> QED BY <1>6, <1>7, <1>8

(* A session that ends was over, or something fails.                       *)
LEMMA EndKeeps ==
  ASSUME SessionAssumption, SessionInv, NEW q \in Requests, EndSession(q)
  PROVE  SessionInv'
  <1> USE SessionAssumption DEF SessionInv
  <1>1. request' \in [Requests -> Request]
    BY DEF EndSession, Idle, TypeOK, Request
  <1>2. /\ leaving' \in [Tabs -> {"no", "await", "queued", "clearing"}]
        /\ page' \in [Tabs -> {"open", "loading", "asking"}]
    BY DEF EndSession, TypeOK
  <1>3. stored' = 0 /\ UNCHANGED <<lock, flight, tokens, serving, revoking>>
    BY DEF EndSession
  <1>4. failed' \in BOOLEAN /\ dropped' \subseteq 1..issued
    BY DEF EndSession, Fails, history, TypeOK
  <1>5. TypeOK'
    BY <1>1, <1>2, <1>3, <1>4 DEF TypeOK, tokens, Pair
  <1>6. LockHeld'
    BY <1>3 DEF LockHeld
  <1>7. ASSUME ~failed' PROVE SessionKept'
    <2>1. ~failed /\ request[q].pc = "ending" /\ UNCHANGED history
      BY <1>7 DEF EndSession, Fails, history
    <2>2. SessionKept /\ stored = 0 /\ lock = Nobody
      BY <2>1 DEF SessionKept, EndedOnce, Ending
    <2> QED BY <1>3, <2>1, <2>2
            DEF SessionKept, EndedOnce, CallsCurrent, StoredWorks, NoneLeftBehind, tokens, history
  <1> QED BY <1>5, <1>6, <1>7

(* A failed load drops whatever is stored, of a call under way too.        *)
LEMMA LoadKeeps ==
  ASSUME SessionAssumption, SessionInv, NEW q \in Requests, LoadFailed(q)
  PROVE  SessionInv'
  <1> USE SessionAssumption DEF SessionInv
  <1>1. /\ request' \in [Requests -> Request]
        /\ \A r \in Requests : request'[r].pc = "ending" => request[r].pc = "ending"
        /\ page' \in [Tabs -> {"open", "loading", "asking"}]
    BY DEF LoadFailed, Idle, TypeOK, Request
  <1>2. stored' = 0 /\ UNCHANGED <<lock, flight, leaving, tokens, serving, revoking, failed>>
    BY DEF LoadFailed
  <1>3. dropped' \subseteq 1..issued
    <2>1. stored = 0 \/ stored \in 1..issued
      BY DEF TypeOK, Pair
    <2>2. dropped' = {} \/ dropped' = dropped \cup ({stored} \ {0})
      BY DEF LoadFailed
    <2> QED BY <2>1, <2>2 DEF TypeOK
  <1>4. TypeOK'
    BY <1>1, <1>2, <1>3 DEF TypeOK, tokens, Pair
  <1>5. LockHeld'
    BY <1>2 DEF LockHeld
  <1>6. ASSUME ~failed' PROVE SessionKept'
    <2>1. SessionKept /\ dropped' = dropped \cup ({stored} \ {0})
      BY <1>2, <1>6 DEF LoadFailed
    <2>2. EndedOnce'
      BY <1>1, <1>2, <2>1 DEF SessionKept, EndedOnce, Ending
    <2>3. CallsCurrent'
      <3> SUFFICES ASSUME NEW t \in Tabs, serving[t].pc # "none"
                   PROVE  serving[t].token \in dropped'
        BY <1>2, <2>1 DEF SessionKept, CallsCurrent, tokens
      <3>1. serving[t].token # 0
        BY DEF TypeOK
      <3> QED BY <2>1, <3>1 DEF SessionKept, CallsCurrent
    <2>4. StoredWorks'
      BY <1>2 DEF StoredWorks, TypeOK, tokens
    <2>5. NoneLeftBehind'
      BY <1>2, <1>6, <2>1 DEF SessionKept, NoneLeftBehind, tokens
    <2> QED BY <2>2, <2>3, <2>4, <2>5 DEF SessionKept
  <1> QED BY <1>4, <1>5, <1>6

-----------------------------------------------------------------------------
(* The refresh of a tab.                                                   *)
LEMMA RefreshKeeps ==
  ASSUME SessionAssumption, SessionInv, NEW t \in Tabs, Refresh(t)
  PROVE  SessionInv'
  <1> USE SessionAssumption DEF SessionInv
  <1>1. /\ flight' \in [Tabs -> Flight]
        /\ flight'[t].pc = "posted"
        /\ \A u \in Tabs : u # t => flight'[u] = flight[u]
    BY DEF Refresh, TypeOK, Flight
  <1>2. /\ serving' \in [Tabs -> Call]
        /\ serving'[t] = [pc |-> "sent", token |-> stored, new |-> 0]
        /\ \A u \in Tabs : u # t => serving'[u] = serving[u]
    <2>1. [pc |-> "sent", token |-> stored, new |-> 0] \in Call
      BY DEF TypeOK, Pair, Call
    <2> QED BY <2>1 DEF Refresh, TypeOK
  <1>3. /\ lock = Nobody /\ lock' = t /\ stored # 0
        /\ UNCHANGED <<stored, request, leaving, page, tokens, revoking, history>>
    BY DEF Refresh
  <1>4. TypeOK'
    BY <1>1, <1>2, <1>3 DEF TypeOK, tokens, history, Pair
  <1>5. \A u \in Tabs : serving[u].pc = "none"
    BY <1>3 DEF LockHeld
  <1>6. LockHeld'
    BY <1>1, <1>2, <1>3 DEF LockHeld
  <1>7. ASSUME ~failed' PROVE SessionKept'
    <2>1. SessionKept /\ stored \notin revoked \cup revoking
      BY <1>3, <1>7 DEF SessionKept, StoredWorks, history
    <2>2. \A u \in Tabs : serving'[u].new = serving[u].new
      BY <1>2, <1>3, <1>5 DEF LockHeld
    <2>3. CallsCurrent'
      BY <1>2, <1>3, <1>5, <2>1, <2>2 DEF CallsCurrent, tokens, history
    <2>4. EndedOnce' /\ StoredWorks' /\ NoneLeftBehind'
      BY <1>3, <2>1, <2>2 DEF SessionKept, EndedOnce, Ending, StoredWorks, NoneLeftBehind, tokens, history
    <2> QED BY <2>3, <2>4 DEF SessionKept
  <1> QED BY <1>4, <1>6, <1>7

LEMMA UseStoredKeeps ==
  ASSUME SessionAssumption, SessionInv, NEW t \in Tabs, UseStored(t)
  PROVE  SessionInv'
  <1> USE SessionAssumption DEF SessionInv
  <1>1. /\ lock = Nobody /\ flight[t].pc = "queued"
        /\ Settle(t, stored)
        /\ UNCHANGED <<stored, lock, page, tokens, serving, revoking, history>>
    BY DEF UseStored
  <1>2. stored \in Nat /\ stored' \in Nat
    BY <1>1 DEF TypeOK, Pair
  <1>3. TypeOK'
    BY <1>1, <1>2, SettleTypes DEF TypeOK, tokens, history, Pair
  <1>4. LockHeld'
    BY <1>1, <1>2, SettleTypes DEF LockHeld
  <1>5. ASSUME ~failed' PROVE SessionKept'
    <2>1. SessionKept
      BY <1>1, <1>5 DEF history
    <2>2. EndedOnce'
      BY <1>1, <1>2, <2>1, SettleTypes DEF SessionKept, EndedOnce, Ending
    <2> QED BY <1>1, <2>1, <2>2
            DEF SessionKept, CallsCurrent, StoredWorks, NoneLeftBehind, tokens, history
  <1> QED BY <1>3, <1>4, <1>5

LEMMA RefreshedKeeps ==
  ASSUME SessionAssumption, SessionInv, NEW t \in Tabs, Refreshed(t)
  PROVE  SessionInv'
  <1> USE SessionAssumption DEF SessionInv
  <1> DEFINE new == serving[t].new
  <1>1. /\ lock = t /\ lock' = Nobody
        /\ Settle(t, new)
        /\ stored' = IF new = 0 THEN stored ELSE new
        /\ serving[t].pc = "answer"
        /\ IF new = 0 THEN Fails ELSE UNCHANGED history
        /\ UNCHANGED <<page, tokens, revoking>>
    BY DEF Refreshed, LockHeld
  <1>2. new \in Pair /\ new \in Nat /\ stored' \in Pair /\ stored' \in Nat
    BY <1>1 DEF TypeOK, Pair
  <1>3. /\ serving' \in [Tabs -> Call]
        /\ serving'[t] = NoCall
        /\ \A u \in Tabs : u # t => serving'[u] = serving[u]
    <2>1. NoCall \in Call
      BY DEF NoCall, Call
    <2> QED BY <2>1 DEF Refreshed, TypeOK
  <1>4. \A u \in Tabs : serving'[u].pc = "none" /\ serving'[u].new = 0
    BY <1>1, <1>3 DEF LockHeld, NoCall
  <1>5. TypeOK'
    <2>0. failed' \in BOOLEAN /\ dropped' \subseteq 1..issued
      BY <1>1 DEF Fails, history, TypeOK
    <2>1. \A u \in Tabs : serving'[u].token \in Pair
      BY <1>3 DEF NoCall, TypeOK, Pair
    <2> QED BY <1>1, <1>2, <1>3, <1>4, <2>0, <2>1, SettleTypes DEF TypeOK, tokens, history, Pair
  <1>6. LockHeld'
    BY <1>1, <1>2, <1>4, SettleTypes DEF LockHeld
  <1>8. ASSUME ~failed' PROVE SessionKept'
    <2>1. SessionKept /\ new # 0 /\ stored' = new /\ UNCHANGED history
      BY <1>1, <1>8 DEF Fails, history
    <2>2. /\ stored \in revoked \/ stored = 0
          /\ new \notin revoked \cup revoking
      BY <1>1, <2>1 DEF SessionKept, CallsCurrent
    <2>3. EndedOnce'
      <3>1. ~Ending
        BY <1>1, <2>1 DEF SessionKept, EndedOnce, Ending
      <3> QED BY <1>1, <1>2, <2>1, <3>1, SettleTypes DEF EndedOnce, Ending
    <2>4. CallsCurrent' /\ StoredWorks'
      BY <1>1, <1>4, <2>1, <2>2 DEF CallsCurrent, StoredWorks, tokens, history
    <2>5. NoneLeftBehind'
      <3> SUFFICES ASSUME NEW n \in (1..issued) \ (revoked \cup dropped)
                   PROVE  n = new \/ n \in revoking
        BY <1>1, <2>1 DEF NoneLeftBehind, tokens, history
      <3>1. n = stored \/ n \in revoking \/ \E u \in Tabs : serving[u].new = n
        BY <1>8, <2>1 DEF SessionKept, NoneLeftBehind, history
      <3>2. ASSUME NEW u \in Tabs, serving[u].new = n PROVE u = t
        BY <1>1, <3>2 DEF LockHeld
      <3> QED BY <2>2, <3>1, <3>2
    <2> QED BY <2>3, <2>4, <2>5 DEF SessionKept
  <1> QED BY <1>5, <1>6, <1>8

LEMMA TimedOutKeeps ==
  ASSUME SessionAssumption, SessionInv, NEW t \in Tabs, TimedOut(t)
  PROVE  SessionInv'
  <1> USE SessionAssumption DEF SessionInv
  <1>1. /\ lock = t /\ lock' = Nobody /\ serving[t].pc # "none"
        /\ Settle(t, 0) /\ LetGo(t)
        /\ UNCHANGED <<stored, page, revoking>>
    BY DEF TimedOut, LockHeld
  <1>2. /\ serving' \in [Tabs -> Call]
        /\ serving'[t] = NoCall
        /\ \A u \in Tabs : u # t => serving'[u] = serving[u]
        /\ failed' = TRUE /\ dropped' = {} /\ issued' = issued /\ revoked' \subseteq 1..issued
    BY <1>1, LetGoTypes
  <1>3. \A u \in Tabs : serving'[u].pc = "none" /\ serving'[u].new = 0 /\ serving'[u].token \in Pair
    <2>1. \A u \in Tabs : u # t => serving[u].pc = "none" /\ serving[u].new = 0
      BY <1>1 DEF LockHeld
    <2> QED BY <1>2, <2>1 DEF NoCall, TypeOK, Pair
  <1>4. stored' \in Nat
    BY <1>1 DEF TypeOK, Pair
  <1>5. TypeOK'
    BY <1>1, <1>2, <1>3, <1>4, SettleTypes DEF TypeOK, Pair
  <1>6. LockHeld'
    BY <1>1, <1>2, <1>3, <1>4, SettleTypes DEF LockHeld
  <1> QED BY <1>2, <1>5, <1>6

LEMMA ReloadKeeps ==
  ASSUME SessionAssumption, SessionInv, NEW t \in Tabs, Reload(t)
  PROVE  SessionInv'
  <1> USE SessionAssumption DEF SessionInv
  <1>1. /\ request' \in [Requests -> Request]
        /\ \A q \in Requests : request'[q].pc = "ending" => request[q].pc = "ending"
    <2>1. Idle \in Request /\ Idle.pc = "idle"
      BY DEF Idle, Request
    <2> QED BY <2>1 DEF Reload, TypeOK
  <1>2. /\ flight' \in [Tabs -> Flight]
        /\ flight'[t].pc = "none"
        /\ \A u \in Tabs : u # t => flight'[u] = flight[u]
    BY DEF Reload, NoFlight, Flight, TypeOK
  <1>3. /\ leaving' \in [Tabs -> {"no", "await", "queued", "clearing"}]
        /\ \A u \in Tabs : leaving'[u] = "clearing" => leaving[u] = "clearing"
    BY DEF Reload, TypeOK
  <1>4. /\ UNCHANGED <<stored, revoking>>
        /\ page' \in [Tabs -> {"open", "loading", "asking"}]
    BY DEF Reload, TypeOK
  <1>5. CASE flight[t].pc = "posted"
    <2>1. /\ lock = t /\ lock' = Nobody /\ serving[t].pc # "none" /\ LetGo(t)
      BY <1>5 DEF Reload, LockHeld
    <2>2. /\ serving' \in [Tabs -> Call]
          /\ serving'[t] = NoCall
          /\ \A u \in Tabs : u # t => serving'[u] = serving[u]
          /\ failed' = TRUE /\ dropped' = {} /\ issued' = issued
          /\ revoked' \subseteq 1..issued
      BY <2>1, LetGoTypes
    <2>3. \A u \in Tabs :
            serving'[u].pc = "none" /\ serving'[u].new = 0 /\ serving'[u].token \in Pair
      <3>1. \A u \in Tabs : u # t => serving[u].pc = "none" /\ serving[u].new = 0
        BY <2>1 DEF LockHeld
      <3> QED BY <2>2, <3>1 DEF NoCall, TypeOK, Pair
    <2>4. TypeOK'
      BY <1>1, <1>2, <1>3, <1>4, <2>1, <2>3, <2>2 DEF TypeOK, Pair
    <2>5. LockHeld'
      BY <1>2, <1>3, <1>4, <2>1, <2>3 DEF LockHeld
    <2> QED BY <2>4, <2>5, <2>2
  <1>6. CASE flight[t].pc # "posted"
    <2>1. lock # t /\ UNCHANGED <<lock, tokens, serving, history>>
      BY <1>6 DEF Reload, LockHeld
    <2>2. TypeOK'
      BY <1>1, <1>2, <1>3, <1>4, <2>1 DEF TypeOK, tokens, history, Pair
    <2>3. LockHeld'
      BY <1>2, <1>3, <1>4, <2>1 DEF LockHeld
    <2>4. ~failed' => SessionKept'
      BY <1>1, <1>3, <1>4, <2>1
         DEF SessionKept, EndedOnce, Ending, CallsCurrent, StoredWorks, NoneLeftBehind, tokens, history
    <2> QED BY <2>2, <2>3, <2>4
  <1> QED BY <1>5, <1>6

-----------------------------------------------------------------------------
(* Log out and sign in.                                                    *)
LEMMA LogoutKeeps ==
  ASSUME SessionAssumption, SessionInv, NEW t \in Tabs,
         LogoutClicked(t) \/ NoSession(t) \/ ClearSession(t)
  PROVE  SessionInv'
  <1> USE SessionAssumption DEF SessionInv
  <1>1. /\ leaving' \in [Tabs -> {"no", "await", "queued", "clearing"}]
        /\ page' \in [Tabs -> {"open", "loading", "asking"}]
        /\ \A u \in Tabs : leaving'[u] = "clearing" => leaving[u] = "clearing"
        /\ UNCHANGED <<lock, request, flight, tokens, serving, revoking, history>>
        /\ (stored' = stored \/ (stored' = 0 /\ leaving[t] = "clearing"))
    <2>1. CASE LogoutClicked(t)
      BY <2>1 DEF LogoutClicked, TypeOK
    <2>2. CASE ClearSession(t)
      BY <2>2 DEF ClearSession, TypeOK
    <2>3. CASE NoSession(t)
      BY <2>3 DEF NoSession, TypeOK
    <2> QED BY <2>1, <2>2, <2>3
  <1>2. TypeOK'
    BY <1>1 DEF TypeOK, tokens, history, Pair
  <1>3. LockHeld'
    BY <1>1 DEF LockHeld
  <1>4. ASSUME ~failed' PROVE SessionKept'
    <2>1. SessionKept /\ stored' = stored
      BY <1>1, <1>4 DEF SessionKept, EndedOnce, Ending, history
    <2> QED BY <1>1, <2>1 DEF SessionKept, EndedOnce, Ending, CallsCurrent, StoredWorks,
                              NoneLeftBehind, tokens, history
  <1> QED BY <1>2, <1>3, <1>4

LEMMA TakeKeeps ==
  ASSUME SessionAssumption, SessionInv, NEW t \in Tabs, TakeForLogout(t)
  PROVE  SessionInv'
  <1> USE SessionAssumption DEF SessionInv
  <1>1. /\ leaving' \in [Tabs -> {"no", "await", "queued", "clearing"}]
        /\ lock = Nobody /\ stored' = 0
        /\ revoking' = revoking \cup ({stored} \ {0})
        /\ UNCHANGED <<lock, request, flight, page, tokens, serving, history>>
    BY DEF TakeForLogout, TypeOK
  <1>2. TypeOK'
    BY <1>1 DEF TypeOK, tokens, history, Pair
  <1>3. LockHeld'
    BY <1>1 DEF LockHeld
  <1>4. ASSUME ~failed' PROVE SessionKept'
    <2>1. SessionKept /\ \A u \in Tabs : serving[u].pc = "none"
      BY <1>1, <1>4 DEF LockHeld, history
    <2>2. EndedOnce' /\ CallsCurrent' /\ StoredWorks'
      BY <1>1, <2>1 DEF SessionKept, EndedOnce, Ending, CallsCurrent, StoredWorks, tokens, history, TypeOK
    <2>3. NoneLeftBehind'
      BY <1>1, <2>1, <1>4 DEF SessionKept, NoneLeftBehind, tokens, history
    <2> QED BY <2>2, <2>3 DEF SessionKept
  <1> QED BY <1>2, <1>3, <1>4

LEMMA LoginKeeps ==
  ASSUME SessionAssumption, SessionInv, Login
  PROVE  SessionInv'
  <1> USE SessionAssumption DEF SessionInv
  <1>1. /\ stored = 0 /\ issued' = issued + 1 /\ stored' = issued + 1
        /\ \A q \in Requests : request[q].pc # "ending"
        /\ \A t \in Tabs : flight[t].pc = "none" /\ leaving[t] # "clearing"
        /\ UNCHANGED <<lock, request, flight, leaving, page, revoked, serving, revoking, history>>
    BY DEF Login, GenerateTokenPair, Noticed, NoFlight
  <1>2. \A t \in Tabs : serving[t].pc = "none" /\ serving[t].new = 0
    BY <1>1 DEF LockHeld
  <1>3. TypeOK'
    BY <1>1 DEF TypeOK, history, Pair
  <1>4. LockHeld'
    BY <1>1 DEF LockHeld
  <1>5. ASSUME ~failed' PROVE SessionKept'
    <2>1. SessionKept /\ issued \in Nat /\ revoked \subseteq 1..issued /\ revoking \subseteq 1..issued
      BY <1>1, <1>5 DEF TypeOK, history
    <2>2. EndedOnce' /\ CallsCurrent' /\ StoredWorks'
      BY <1>1, <1>2, <2>1 DEF EndedOnce, Ending, CallsCurrent, StoredWorks
    <2>3. NoneLeftBehind'
      BY <1>1, <1>2, <1>5, <2>1 DEF SessionKept, NoneLeftBehind, history
    <2> QED BY <2>2, <2>3 DEF SessionKept
  <1> QED BY <1>3, <1>4, <1>5

-----------------------------------------------------------------------------
(* The backend.                                                            *)
LEMMA FindKeeps ==
  ASSUME SessionAssumption, SessionInv, NEW t \in Tabs, FindToken(t) \/ RevokeAll(t)
  PROVE  SessionInv'
  <1> USE SessionAssumption DEF SessionInv
  <1>1. /\ serving' \in [Tabs -> Call]
        /\ serving[t].pc # "none" /\ serving'[t].pc # "none"
        /\ serving'[t].token = serving[t].token
        /\ serving'[t].new = 0
        /\ \A u \in Tabs : u # t => serving'[u] = serving[u]
    <2>1. serving[t] \in Call
      BY DEF TypeOK
    <2>2. CASE FindToken(t)
      BY <2>1, <2>2 DEF FindToken, At, TypeOK, Call, LockHeld
    <2>3. CASE RevokeAll(t)
      BY <2>1, <2>3 DEF RevokeAll, Answer, TypeOK, Call
    <2> QED BY <2>2, <2>3
  <1>2. /\ revoked' \subseteq 1..issued
        /\ UNCHANGED <<tabs, issued, revoking, history>>
    BY DEF FindToken, RevokeAll, TypeOK, tokens, history
  <1>3. TypeOK'
    BY <1>1, <1>2 DEF TypeOK, tabs, history, Pair
  <1>4. LockHeld'
    BY <1>1, <1>2 DEF LockHeld, tabs
  <1>5. ASSUME ~failed' PROVE SessionKept'
    <2>1. SessionKept
      BY <1>2, <1>5 DEF history
    <2>2. FindToken(t) /\ revoked' = revoked
      BY <2>1 DEF RevokeAll, SessionKept, CallsCurrent, FindToken, tokens, history
    <2>3. /\ serving[t].pc = "sent" /\ serving[t].new = 0
          /\ serving[t].token \notin revoked
      BY <2>1, <2>2 DEF FindToken, SessionKept, CallsCurrent, LockHeld
    <2>4. serving'[t].pc = "rotate"
      BY <2>2, <2>3 DEF FindToken, At, TypeOK, Call
    <2>5. CallsCurrent'
      BY <1>1, <1>2, <2>1, <2>2, <2>3, <2>4 DEF SessionKept, CallsCurrent, tabs, history
    <2>6. EndedOnce' /\ StoredWorks'
      BY <1>2, <2>1, <2>2 DEF SessionKept, EndedOnce, Ending, StoredWorks, tabs, history
    <2>7. NoneLeftBehind'
      BY <1>1, <1>2, <1>5, <2>1, <2>2, <2>3 DEF SessionKept, NoneLeftBehind, tabs, history
    <2> QED BY <2>5, <2>6, <2>7 DEF SessionKept
  <1> QED BY <1>3, <1>4, <1>5

LEMMA RotateKeeps ==
  ASSUME SessionAssumption, SessionInv, NEW t \in Tabs, Rotate(t)
  PROVE  SessionInv'
  <1> USE SessionAssumption DEF SessionInv
  <1>1. /\ serving[t].pc = "rotate" /\ serving[t].new = 0 /\ lock = t
        /\ serving[t].token \in 1..issued
    BY DEF Rotate, LockHeld, TypeOK, Pair
  <1>2. /\ serving' \in [Tabs -> Call]
        /\ serving'[t].pc = "issue"
        /\ serving'[t].token = serving[t].token
        /\ serving'[t].new = 0
        /\ \A u \in Tabs : u # t => serving'[u] = serving[u]
    <2>1. serving[t] \in Call
      BY DEF TypeOK
    <2> QED BY <1>1, <2>1 DEF Rotate, At, TypeOK, Call
  <1>3. /\ revoked' = revoked \cup {serving[t].token}
        /\ UNCHANGED <<tabs, issued, revoking, history>>
    BY DEF Rotate
  <1>4. TypeOK'
    BY <1>1, <1>2, <1>3 DEF TypeOK, tabs, history, Pair
  <1>5. LockHeld'
    BY <1>1, <1>2, <1>3 DEF LockHeld, tabs
  <1>6. ASSUME ~failed' PROVE SessionKept'
    <2>1. SessionKept
      BY <1>3, <1>6 DEF history
    <2>2. \A u \in Tabs : u # t => serving'[u].pc = "none"
      BY <1>1, <1>2 DEF LockHeld
    <2>3. CallsCurrent'
      BY <1>1, <1>2, <1>3, <2>1, <2>2 DEF SessionKept, CallsCurrent, tabs, history
    <2>4. EndedOnce' /\ StoredWorks'
      BY <1>1, <1>3, <2>1 DEF SessionKept, EndedOnce, Ending, StoredWorks, tabs, history
    <2>5. NoneLeftBehind'
      BY <1>1, <1>2, <1>3, <1>6, <2>1 DEF SessionKept, NoneLeftBehind, tabs, history
    <2> QED BY <2>3, <2>4, <2>5 DEF SessionKept
  <1> QED BY <1>4, <1>5, <1>6

LEMMA IssueKeeps ==
  ASSUME SessionAssumption, SessionInv, NEW t \in Tabs, Issue(t)
  PROVE  SessionInv'
  <1> USE SessionAssumption DEF SessionInv
  <1>1. /\ serving[t].pc = "issue" /\ serving[t].new = 0 /\ lock = t
        /\ issued' = issued + 1
        /\ UNCHANGED <<tabs, revoked, revoking, history>>
    BY DEF Issue, GenerateTokenPair, LockHeld
  <1>2. /\ serving' \in [Tabs -> Call]
        /\ serving'[t] = [pc |-> "answer", token |-> serving[t].token, new |-> issued + 1]
        /\ \A u \in Tabs : u # t => serving'[u] = serving[u]
    <2>1. [pc |-> "answer", token |-> serving[t].token, new |-> issued + 1] \in Call
      BY DEF TypeOK, Call
    <2> QED BY <1>1, <2>1 DEF Issue, Answer, TypeOK
  <1>3. TypeOK'
    BY <1>1, <1>2 DEF TypeOK, tabs, history, Pair
  <1>4. LockHeld'
    BY <1>1, <1>2 DEF LockHeld, tabs
  <1>5. ASSUME ~failed' PROVE SessionKept'
    <2>1. SessionKept /\ issued \in Nat /\ revoked \subseteq 1..issued /\ revoking \subseteq 1..issued
      BY <1>1, <1>5 DEF TypeOK, history
    <2>2. \A u \in Tabs : u # t => serving'[u].pc = "none" /\ serving'[u].new = 0
      BY <1>1, <1>2 DEF LockHeld
    <2>3. CallsCurrent'
      BY <1>1, <1>2, <2>1, <2>2 DEF SessionKept, CallsCurrent, tabs, history
    <2>4. EndedOnce' /\ StoredWorks'
      BY <1>1, <2>1 DEF SessionKept, EndedOnce, Ending, StoredWorks, tabs, history
    <2>5. NoneLeftBehind'
      <3> SUFFICES ASSUME NEW n \in (1..issued + 1) \ (revoked \cup dropped)
                   PROVE  n = stored \/ n \in revoking \/ \E u \in Tabs : serving'[u].new = n
        BY <1>1 DEF NoneLeftBehind, tabs, history
      <3>1. CASE n = issued + 1
        BY <1>2, <3>1
      <3>2. CASE n \in 1..issued
        BY <1>1, <1>2, <1>5, <2>1, <3>2 DEF SessionKept, NoneLeftBehind, history
      <3> QED BY <2>1, <3>1, <3>2
    <2> QED BY <2>3, <2>4, <2>5 DEF SessionKept
  <1> QED BY <1>3, <1>4, <1>5

LEMMA RefuseKeeps ==
  ASSUME SessionAssumption, SessionInv, NEW t \in Tabs, Refuse(t)
  PROVE  SessionInv'
  <1> USE SessionAssumption DEF SessionInv
  <1>1. /\ serving[t].pc \in {"sent", "rotate", "issue"} /\ serving[t].new = 0 /\ lock = t
        /\ UNCHANGED <<tabs, tokens, revoking, history>>
    BY DEF Refuse, LockHeld
  <1>2. /\ serving' \in [Tabs -> Call]
        /\ serving'[t] = [pc |-> "answer", token |-> serving[t].token, new |-> 0]
        /\ \A u \in Tabs : u # t => serving'[u] = serving[u]
    <2>1. [pc |-> "answer", token |-> serving[t].token, new |-> 0] \in Call
      BY DEF TypeOK, Call
    <2> QED BY <1>1, <2>1 DEF Refuse, Answer, TypeOK
  <1>3. TypeOK'
    BY <1>1, <1>2 DEF TypeOK, tabs, tokens, history, Pair
  <1>4. LockHeld'
    BY <1>1, <1>2 DEF LockHeld, tabs
  <1>5. ASSUME ~failed' PROVE SessionKept'
    <2>1. SessionKept
      BY <1>1, <1>5 DEF history
    <2>2. \A u \in Tabs : serving'[u].new = serving[u].new
      BY <1>1, <1>2
    <2>3. CallsCurrent'
      BY <1>1, <1>2, <2>1, <2>2 DEF SessionKept, CallsCurrent, tabs, tokens, history
    <2>4. EndedOnce' /\ StoredWorks' /\ NoneLeftBehind'
      BY <1>1, <2>1, <2>2 DEF SessionKept, EndedOnce, Ending, StoredWorks, NoneLeftBehind, tabs, tokens, history
    <2> QED BY <2>3, <2>4 DEF SessionKept
  <1> QED BY <1>3, <1>4, <1>5

LEMMA RevokeKeeps ==
  ASSUME SessionAssumption, SessionInv, NEW n \in revoking, Revoke(n) \/ RevokeLost(n)
  PROVE  SessionInv'
  <1> USE SessionAssumption DEF SessionInv
  <1>1. /\ revoking' = revoking \ {n}
        /\ revoked' \subseteq revoked \cup {n}
        /\ ~failed' => revoked' = revoked \cup {n} /\ ~failed
        /\ failed' \in BOOLEAN /\ dropped' \subseteq 1..issued
        /\ ~failed' => dropped' = dropped
        /\ UNCHANGED <<tabs, issued, serving>>
    BY DEF Revoke, RevokeLost, Fails, tokens, history, TypeOK
  <1>2. TypeOK'
    BY <1>1 DEF TypeOK, tabs, history, Pair
  <1>3. LockHeld'
    BY <1>1 DEF LockHeld, tabs
  <1>4. ASSUME ~failed' PROVE SessionKept'
    BY <1>1, <1>4 DEF SessionKept, EndedOnce, Ending, CallsCurrent, StoredWorks, NoneLeftBehind, tabs, history
  <1> QED BY <1>2, <1>3, <1>4

-----------------------------------------------------------------------------
LEMMA SessionInitHolds == ASSUME SessionAssumption, Init PROVE SessionInv
  <1>1. TypeOK
    <2>1. Idle \in Request /\ NoFlight \in Flight /\ NoCall \in Call
      BY DEF Idle, Request, NoFlight, Flight, NoCall, Call
    <2>2. /\ request \in [Requests -> Request]
          /\ flight \in [Tabs -> Flight]
          /\ serving \in [Tabs -> Call]
          /\ leaving \in [Tabs -> {"no", "await", "queued", "clearing"}]
      BY <2>1 DEF Init
    <2>3. 0 \in Pair /\ 1 \in Pair
      BY DEF Init, Pair
    <2>4. \A t \in Tabs : serving[t].token = 0 /\ serving[t].new = 0 /\ serving[t].pc = "none"
      BY DEF Init, NoCall
    <2>5. stored \in Pair /\ lock = Nobody /\ issued \in Nat /\ revoked = {} /\ revoking = {}
          /\ failed = FALSE /\ dropped = {}
          /\ page \in [Tabs -> {"open", "loading", "asking"}]
      BY <2>3 DEF Init
    <2> QED BY <2>2, <2>3, <2>4, <2>5 DEF TypeOK
  <1>2. LockHeld
    BY DEF Init, LockHeld, SessionAssumption, NoFlight, NoCall
  <1>3. EndedOnce /\ CallsCurrent /\ StoredWorks /\ NoneLeftBehind
    BY DEF Init, EndedOnce, Ending, CallsCurrent, StoredWorks, NoneLeftBehind, Idle, NoCall
  <1> QED BY <1>1, <1>2, <1>3 DEF SessionInv, SessionKept

LEMMA SessionNextKeeps == ASSUME SessionAssumption, SessionInv, [Next]_vars PROVE SessionInv'
  <1>1. ASSUME NEW q \in Requests, Interceptor(q) \/ Bootstrap(q) PROVE SessionInv'
    BY <1>1, RequestsKeep, EndKeeps, LoadKeeps DEF Interceptor, Bootstrap
  <1>2. ASSUME NEW t \in Tabs, Tab(t) PROVE SessionInv'
    BY <1>2, RefreshKeeps, UseStoredKeeps, RefreshedKeeps, TimedOutKeeps, ReloadKeeps, LogoutKeeps,
       TakeKeeps DEF Tab
  <1>3. ASSUME NEW t \in Tabs, Backend(t) PROVE SessionInv'
    BY <1>3, FindKeeps, RotateKeeps, IssueKeeps, RefuseKeeps DEF Backend
  <1>4. CASE UNCHANGED vars
    BY <1>4 DEF vars, tabs, tokens, history, SessionInv, TypeOK, Pair, LockHeld, SessionKept,
                EndedOnce, Ending, CallsCurrent, StoredWorks, NoneLeftBehind
  <1> QED BY <1>1, <1>2, <1>3, <1>4, LoginKeeps, RevokeKeeps DEF Next

LEMMA SessionInvCorrect == Spec => []SessionInv
  <1>1. SessionAssumption
    BY SessionAssumption
  <1>2. Init => SessionInv
    BY <1>1, SessionInitHolds
  <1>3. SessionInv /\ [Next]_vars => SessionInv'
    BY <1>1, SessionNextKeeps
  <1> QED BY <1>2, <1>3, PTL DEF Spec

(* Every variable of the tabs and the backend keeps its type, and no pair  *)
(* of tokens is known before it is issued.                                 *)
THEOREM SessionTypesAlwaysOK == Spec => []TypeOK
  <1>1. SessionInv => TypeOK
    BY DEF SessionInv
  <1> QED BY <1>1, SessionInvCorrect, PTL

(* Whatever fails, two tabs are never at the backend to refresh at once    *)
(* (tokenRefresh.ts:10: one refresh at a time across tabs).                *)
THEOREM RefreshesTakeTurns ==
  Spec => [](\A t, u \in Tabs : serving[t].pc # "none" /\ serving[u].pc # "none" => t = u)
  <1>1. SessionInv => \A t, u \in Tabs : serving[t].pc # "none" /\ serving[u].pc # "none" => t = u
    BY DEF SessionInv, LockHeld
  <1> QED BY <1>1, SessionInvCorrect, PTL

(* For any tabs and requests: no tab presents a token that has been        *)
(* rotated or revoked, unless something failed.                            *)
THEOREM TokensNeverReused == Spec => []NeverReused
  <1>1. SessionInv => NeverReused
    BY DEF SessionInv, SessionKept, CallsCurrent, NeverReused
  <1> QED BY <1>1, SessionInvCorrect, PTL

(* Unless something failed, a refresh token that still works is the one    *)
(* the tabs share, on its way to them, being revoked, or one that a tab    *)
(* whose load failed has thrown away.                                      *)
THEOREM NoneEverLeftBehind == Spec => []NoneLeftBehind
  <1>1. SessionInv => NoneLeftBehind
    BY DEF SessionInv, SessionKept, NoneLeftBehind
  <1> QED BY <1>1, SessionInvCorrect, PTL

(* Unless something failed, tokens come back after a log out only by a     *)
(* sign-in, and after a failed load at most by the refresh it overtook.    *)
THEOREM LogOutsStay == Spec => StaysLoggedOut
  <1>1. ASSUME SessionAssumption, SessionInv, [Next]_vars, stored = 0, stored' # 0, ~failed,
               \A t \in Tabs : ~RefreshesDropped(t)
        PROVE  Login
    <2>1. ASSUME NEW t \in Tabs PROVE serving[t].pc = "none"
      BY <1>1 DEF SessionInv, SessionKept, CallsCurrent, RefreshesDropped, TypeOK
    <2>2. \A t \in Tabs : ~Refreshed(t)
      BY <2>1 DEF Refreshed
    <2>3. ASSUME NEW q \in Requests, Interceptor(q) \/ Bootstrap(q) PROVE FALSE
      BY <1>1, <2>3 DEF Interceptor, Bootstrap, Send, Done, Unauthorized, EndSession, GetMe, LoadFailed
    <2>4. ASSUME NEW t \in Tabs, Tab(t) PROVE FALSE
      BY <1>1, <2>2, <2>4 DEF Tab, Refresh, UseStored, TimedOut, Reload, NoSession, LogoutClicked,
                              TakeForLogout, ClearSession
    <2>5. ASSUME NEW t \in Tabs, Backend(t) PROVE FALSE
      BY <1>1, <2>5 DEF Backend, FindToken, RevokeAll, Rotate, Issue, Refuse, tabs
    <2>6. ASSUME NEW n \in revoking, Revoke(n) \/ RevokeLost(n) PROVE FALSE
      BY <1>1, <2>6 DEF Revoke, RevokeLost, tabs
    <2>7. ~UNCHANGED vars
      BY <1>1 DEF vars, tabs
    <2> QED BY <1>1, <2>3, <2>4, <2>5, <2>6, <2>7 DEF Next
  <1>2. SessionAssumption
    BY SessionAssumption
  <1> DEFINE Allowed == Login \/ failed \/ \E t \in Tabs : RefreshesDropped(t)
  <1>3. SessionInv /\ [Next]_vars => (stored = 0 /\ stored' # 0 => Allowed)
    BY <1>1, <1>2
  <1>4. SessionInv /\ [Next]_vars => [stored = 0 /\ stored' # 0 => Allowed]_vars
    BY <1>3
  <1> QED BY <1>4, SessionInvCorrect, PTL DEF Spec, StaysLoggedOut
-----------------------------------------------------------------------------
(* Whoever waits, waits for a flight that is under way.                    *)
WaitersServed ==
  /\ \A q \in Requests : request[q].pc = "waiting" => flight[TabOf[q]].pc # "none"
  /\ \A t \in Tabs : leaving[t] = "await" => flight[t].pc # "none"

LEMMA WaitersServedStep ==
  ASSUME SessionAssumption, TypeOK, TypeOK', WaitersServed, [Next]_vars
  PROVE  WaitersServed'
  <1> USE SessionAssumption DEF WaitersServed
  <1>1. ASSUME NEW t \in Tabs, NEW access, Settle(t, access) PROVE WaitersServed'
    <2>1. \A u \in Tabs : u # t => flight'[u] = flight[u] /\ leaving'[u] = leaving[u]
      BY <1>1 DEF Settle, TypeOK
    <2>2. leaving'[t] # "await"
      BY <1>1 DEF Settle, TypeOK
    <2>3. ASSUME NEW q \in Requests, request'[q].pc = "waiting"
          PROVE  TabOf[q] # t /\ request[q].pc = "waiting"
      <3>1. request[q] \in Request
        BY DEF TypeOK
      <3> QED BY <1>1, <2>3, <3>1 DEF Settle, Request
    <2> QED BY <2>1, <2>2, <2>3
  <1>2. ASSUME NEW q \in Requests, Interceptor(q) \/ Bootstrap(q) PROVE WaitersServed'
    <2>1. request[q] \in Request /\ TabOf[q] \in Tabs
      BY DEF TypeOK
    <2>2. CASE Unauthorized(q)
      <3>1. flight'[TabOf[q]].pc # "none"
        BY <2>1, <2>2 DEF Unauthorized, TypeOK
      <3>2. \A u \in Tabs : u # TabOf[q] => flight'[u] = flight[u]
        BY <2>2 DEF Unauthorized, TypeOK
      <3>3. \A r \in Requests : r # q => request'[r] = request[r]
        BY <2>2 DEF Unauthorized, TypeOK
      <3>4. leaving' = leaving
        BY <2>2 DEF Unauthorized
      <3> QED BY <3>1, <3>2, <3>3, <3>4
    <2>3. CASE Send(q) \/ Done(q) \/ EndSession(q) \/ GetMe(q) \/ LoadFailed(q)
      <3>1. /\ \A r \in Requests : request'[r].pc = "waiting" => request[r].pc = "waiting"
            /\ \A u \in Tabs : leaving'[u] = "await" => leaving[u] = "await"
            /\ UNCHANGED flight
        BY <2>3 DEF Send, Done, EndSession, GetMe, LoadFailed, Idle, TypeOK
      <3> QED BY <3>1
    <2> QED BY <1>2, <2>2, <2>3 DEF Interceptor, Bootstrap
  <1>3. ASSUME NEW t \in Tabs, Tab(t) PROVE WaitersServed'
    <2>1. CASE UseStored(t) \/ Refreshed(t) \/ TimedOut(t)
      BY <1>1, <2>1 DEF UseStored, Refreshed, TimedOut
    <2>2. CASE Refresh(t)
      <3>1. \A u \in Tabs : flight'[u].pc = IF u = t THEN "posted" ELSE flight[u].pc
        BY <2>2 DEF Refresh, TypeOK, Flight
      <3> QED BY <2>2, <3>1 DEF Refresh
    <2>3. CASE Reload(t)
      <3>1. /\ \A u \in Tabs : u # t => flight'[u] = flight[u] /\ leaving'[u] = leaving[u]
            /\ leaving'[t] = "no"
        BY <2>3 DEF Reload, TypeOK
      <3>2. \A q \in Requests :
              request'[q].pc = "waiting" => TabOf[q] # t /\ request[q].pc = "waiting"
        BY <2>3 DEF Reload, Idle
      <3> QED BY <3>1, <3>2
    <2>4. CASE LogoutClicked(t)
      <3>1. \A u \in Tabs : leaving'[u] = "await" => leaving[u] = "await" \/ flight[u].pc # "none"
        BY <2>4 DEF LogoutClicked, TypeOK
      <3> QED BY <2>4, <3>1 DEF LogoutClicked
    <2>5. CASE TakeForLogout(t) \/ ClearSession(t)
      <3>1. /\ \A u \in Tabs : leaving'[u] = "await" => leaving[u] = "await"
            /\ UNCHANGED <<request, flight>>
        BY <2>5 DEF TakeForLogout, ClearSession, TypeOK
      <3> QED BY <3>1
    <2>6. CASE NoSession(t)
      BY <2>6 DEF NoSession
    <2> QED BY <1>3, <2>1, <2>2, <2>3, <2>4, <2>5, <2>6 DEF Tab
  <1>4. CASE UNCHANGED <<request, flight, leaving>>
    BY <1>4
  <1>5. ASSUME NEW t \in Tabs, Backend(t) PROVE UNCHANGED <<request, flight, leaving>>
    BY <1>5 DEF Backend, FindToken, RevokeAll, Rotate, Issue, Refuse, tabs
  <1>6. ASSUME Login PROVE UNCHANGED <<request, flight, leaving>>
    BY <1>6 DEF Login
  <1>7. ASSUME NEW n \in revoking, Revoke(n) \/ RevokeLost(n)
        PROVE  UNCHANGED <<request, flight, leaving>>
    BY <1>7 DEF Revoke, RevokeLost, tabs
  <1>8. ASSUME UNCHANGED vars PROVE UNCHANGED <<request, flight, leaving>>
    BY <1>8 DEF vars, tabs
  <1> QED BY <1>2, <1>3, <1>4, <1>5, <1>6, <1>7, <1>8 DEF Next

(* What WaitsEnd rests on, and needs no fairness: a request or a log out   *)
(* that waits has a refresh of its own tab to wait for, and the lock a     *)
(* refresh may be queued for is held by a tab whose own call is out, which *)
(* REFRESH_TIMEOUT_MS ends.  Nobody waits for somebody who is gone.        *)
THEOREM NobodyForgotten ==
  Spec => [](/\ WaitersServed
             /\ lock # Nobody => lock \in Tabs /\ flight[lock].pc = "posted")
  <1>1. Init => WaitersServed
    BY SessionAssumption DEF Init, WaitersServed, Idle
  <1>2. SessionInv /\ SessionInv' /\ WaitersServed /\ [Next]_vars => WaitersServed'
    BY SessionAssumption, WaitersServedStep DEF SessionInv
  <1>3. SessionInv => (lock # Nobody => lock \in Tabs /\ flight[lock].pc = "posted")
    BY DEF SessionInv, TypeOK, LockHeld
  <1> QED BY <1>1, <1>2, <1>3, SessionInvCorrect, PTL DEF Spec
=============================================================================
