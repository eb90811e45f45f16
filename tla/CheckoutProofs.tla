---------------------------- MODULE CheckoutProofs ----------------------------
(***************************************************************************)
(* The properties of Checkout for any numbers of lines, requests, forms    *)
(* and attempts.                                                           *)
(***************************************************************************)
EXTENDS Checkout, TLAPS

-----------------------------------------------------------------------------
(* Types *)

LEMMA InitType == CheckoutInit => CheckoutTypeOK
  BY SMT DEF CheckoutInit, CheckoutTypeOK, Checkouts

LEMMA ChangeType == CheckoutTypeOK /\ Change => CheckoutTypeOK'
  <1>1. ASSUME CheckoutTypeOK, NEW r \in Writers, GetBasket(r) \/ RequestFails(r)
        PROVE  CheckoutTypeOK'
    BY <1>1, SMT DEF GetBasket, RequestFails, LeaveRequest, CheckoutTypeOK, orderVars, historyVars
  <1>2. ASSUME CheckoutTypeOK, NEW r \in Writers, PostBasket(r) PROVE CheckoutTypeOK'
    <2>1. PICK new \in SUBSET (LineIds \ added) :
             /\ stored' = copied[r] \cup new
             /\ added' = added \cup new
             /\ astray' = astray \cup (stored \ copied[r]) \cup (IF Underway THEN new ELSE {})
      BY <1>2 DEF PostBasket
    <2>2. astray' \subseteq LineIds
      BY <1>2, <2>1, SMT DEF CheckoutTypeOK
    <2> QED
      BY <1>2, <2>1, <2>2, SMT DEF PostBasket, LeaveRequest, CheckoutTypeOK, orderVars
  <1>3. ASSUME CheckoutTypeOK, DeleteBasketById PROVE CheckoutTypeOK'
    BY <1>3, SMT DEF DeleteBasketById, CheckoutTypeOK, orderVars
  <1> QED
    BY <1>1, <1>2, <1>3 DEF Change

LEMMA CheckoutType ==
  ASSUME CheckoutTypeOK, NEW f \in Forms, CheckoutAsync(f)
  PROVE  CheckoutTypeOK'
  <1>1. [form |-> f, lines |-> stored] \in Checkouts
    BY DEF CheckoutTypeOK, Checkouts
  <1>2. sent' \subseteq Checkouts /\ attempts' \in Nat /\ repeated' \subseteq LineIds
    BY <1>1, SMT DEF CheckoutAsync, CheckoutTypeOK
  <1> QED
    BY <1>2, SMT DEF CheckoutAsync, CheckoutTypeOK, cartVars, orderVars

LEMMA HandleType == ASSUME CheckoutTypeOK, NEW c \in sent, Handle(c) PROVE CheckoutTypeOK'
  <1>1. c \in Checkouts /\ c.form \in Forms /\ c.lines \subseteq LineIds
    BY DEF CheckoutTypeOK, Checkouts
  <1>2. placed' \in Seq(Checkouts)
    BY <1>1, SMT DEF Handle, CreateOrder, CreateOrderThrows, CreateOrderInvalid, Rollback,
                     IgnoreDuplicate, CheckoutTypeOK, orderVars
  <1>3. astray' \subseteq LineIds /\ sent' \subseteq Checkouts
    BY <1>1, SMT DEF Handle, CreateOrder, CreateOrderThrows, CreateOrderInvalid, Rollback,
                     IgnoreDuplicate, Acknowledged, CheckoutTypeOK, historyVars
  <1> QED
    BY <1>1, <1>2, <1>3, SMT DEF Handle, CreateOrder, CreateOrderThrows, CreateOrderInvalid,
                                 Rollback, IgnoreDuplicate, CheckoutTypeOK, cartVars,
                                 orderVars, historyVars

LEMMA StartedType ==
  ASSUME CheckoutTypeOK, NEW f \in Forms,
         PublishStarted(f) \/ LoseStarted(f) \/ DeleteOrdered(f) \/ DeleteFails(f)
  PROVE  CheckoutTypeOK'
  BY SMT DEF PublishStarted, LoseStarted, DeleteOrdered, DeleteFails, CheckoutTypeOK, cartVars,
             orderVars, historyVars

LEMMA StepType == CheckoutTypeOK /\ [CheckoutNext]_checkoutVars => CheckoutTypeOK'
  <1> SUFFICES ASSUME CheckoutTypeOK, [CheckoutNext]_checkoutVars PROVE CheckoutTypeOK'
    OBVIOUS
  <1>1. CASE UNCHANGED checkoutVars
    BY <1>1 DEF CheckoutTypeOK, checkoutVars, cartVars, orderVars, historyVars
  <1>2. CASE CheckoutNext
    BY <1>2, ChangeType, CheckoutType, HandleType, StartedType DEF CheckoutNext
  <1> QED
    BY <1>1, <1>2

\* Every variable keeps its type: no order has lines that were never put into a basket.
THEOREM TypeCorrect == CheckoutSpec => []CheckoutTypeOK
  BY InitType, StepType, PTL DEF CheckoutSpec

-----------------------------------------------------------------------------
(* Nothing vanishes *)

Safe == Ordered \cup astray

\* Copies hold what was added; what is in the basket when OrderStarted comes, is ordered or
\* was added while the checkout was on its way.
Known   == stored \subseteq added /\ \A r \in Writers : copied[r] \subseteq added
Covered ==
    /\ \A c \in Pending : stored \subseteq c.lines \cup Safe
    /\ unpublished \cup announced # {} => stored \subseteq Safe

VanishInv == Known /\ NothingVanishes /\ Covered

LEMMA AppendOrder ==
  ASSUME CheckoutTypeOK, NEW c \in sent, CreateOrder(c)
  PROVE  /\ Ordered' = Ordered \cup c.lines
         /\ DOMAIN placed' = DOMAIN placed \cup {Len(placed) + 1}
         /\ \A i \in DOMAIN placed : placed'[i] = placed[i]
         /\ placed'[Len(placed) + 1] = c
         /\ Len(placed) + 1 \notin DOMAIN placed
  <1>1. placed \in Seq(Checkouts) /\ c \in Checkouts /\ placed' = Append(placed, c)
    BY DEF CheckoutTypeOK, CreateOrder
  <1>2. /\ DOMAIN placed' = DOMAIN placed \cup {Len(placed) + 1}
        /\ \A i \in DOMAIN placed : placed'[i] = placed[i]
        /\ placed'[Len(placed) + 1] = c
        /\ Len(placed) + 1 \notin DOMAIN placed
    BY <1>1, SMT
  <1>3. Ordered' = Ordered \cup c.lines
    BY <1>2, SMT DEF Ordered
  <1> QED
    BY <1>2, <1>3

LEMMA InitVanish == CheckoutInit => VanishInv
  BY SMT DEF CheckoutInit, VanishInv, Known, NothingVanishes, Covered, Pending

\* What a write takes away or puts in is accounted for.
LEMMA ChangeVanish == ASSUME CheckoutTypeOK, VanishInv, Change PROVE VanishInv'
  <1>1. ASSUME NEW r \in Writers, GetBasket(r) \/ RequestFails(r) PROVE VanishInv'
    <2>1. UNCHANGED <<stored, added, attempts, sent, requestIds, placed, unpublished, announced,
                      astray>>
      BY <1>1 DEF GetBasket, RequestFails, orderVars, historyVars
    <2>2. \A q \in Writers : copied'[q] \in {copied[q], stored, {}}
      BY <1>1, SMT DEF GetBasket, RequestFails, LeaveRequest, CheckoutTypeOK
    <2> QED
      BY <2>1, <2>2, SMT DEF VanishInv, Known, NothingVanishes, Covered, Pending, Safe, Ordered
  <1>2. ASSUME NEW r \in Writers, PostBasket(r) PROVE VanishInv'
    <2>1. PICK new \in SUBSET (LineIds \ added) :
             /\ stored' = copied[r] \cup new
             /\ added' = added \cup new
             /\ astray' = astray \cup (stored \ copied[r]) \cup (IF Underway THEN new ELSE {})
      BY <1>2 DEF PostBasket
    <2>2. UNCHANGED <<attempts, sent, requestIds, placed, unpublished, announced>>
      BY <1>2 DEF PostBasket, orderVars
    <2>3. Ordered' = Ordered /\ Pending' = Pending
      BY <2>2 DEF Ordered, Pending
    <2>4. copied[r] \subseteq stored \cup Ordered \cup astray /\ copied[r] \subseteq added
      BY DEF VanishInv, Known, NothingVanishes
    <2>5. Known'
      <3>1. \A q \in Writers : copied'[q] \in {copied[q], {}}
        BY <1>2, SMT DEF PostBasket, LeaveRequest, CheckoutTypeOK
      <3> QED
        BY <2>1, <3>1, SMT DEF VanishInv, Known
    <2>6. NothingVanishes'
      BY <2>1, <2>3, SMT DEF VanishInv, NothingVanishes
    <2>7. ASSUME Underway PROVE stored' \subseteq stored \cup Ordered' \cup astray'
      BY <2>1, <2>3, <2>4, <2>7, SMT
    <2>8. Covered'
      <3>1. ASSUME NEW c \in Pending PROVE stored' \subseteq c.lines \cup Safe'
        <4>1. Underway /\ stored \subseteq c.lines \cup Ordered \cup astray
          BY DEF Pending, Underway, VanishInv, Covered, Safe
        <4> QED
          BY <2>1, <2>3, <2>7, <4>1, SMT DEF Safe
      <3>2. ASSUME unpublished \cup announced # {} PROVE stored' \subseteq Safe'
        <4>1. Underway /\ stored \subseteq Ordered \cup astray
          BY <3>2 DEF Underway, VanishInv, Covered, Safe
        <4> QED
          BY <2>1, <2>3, <2>7, <4>1, SMT DEF Safe
      <3> QED
        BY <2>2, <2>3, <3>1, <3>2 DEF Covered
    <2> QED
      BY <2>5, <2>6, <2>8 DEF VanishInv
  <1>3. ASSUME DeleteBasketById PROVE VanishInv'
    BY <1>3, SMT DEF DeleteBasketById, VanishInv, Known, NothingVanishes, Covered, Pending, Safe,
                     Ordered, orderVars
  <1> QED
    BY <1>1, <1>2, <1>3 DEF Change

\* A new checkout covers what is in the basket.
LEMMA CheckoutVanish ==
  ASSUME CheckoutTypeOK, VanishInv, NEW f \in Forms, CheckoutAsync(f)
  PROVE  VanishInv'
  <1>1. UNCHANGED <<stored, added, copied, requestIds, placed, unpublished, announced, astray>>
    BY DEF CheckoutAsync, cartVars, orderVars
  <1>2. \A c \in Pending' : c \in Pending \/ c.lines = stored
    BY SMT DEF CheckoutAsync, Pending, orderVars
  <1> QED
    BY <1>1, <1>2, SMT DEF VanishInv, Known, NothingVanishes, Covered, Safe, Ordered

\* OrderStarted is saved with the order or with lines that are astray.
LEMMA HandleVanish == ASSUME CheckoutTypeOK, VanishInv, NEW c \in sent, Handle(c) PROVE VanishInv'
  <1>1. UNCHANGED <<stored, added, copied, announced>>
    BY DEF Handle, CreateOrder, CreateOrderThrows, CreateOrderInvalid, Rollback,
           IgnoreDuplicate, cartVars
  <1>2. Pending' \subseteq Pending
    BY SMT DEF Handle, CreateOrder, CreateOrderThrows, CreateOrderInvalid, Rollback,
               IgnoreDuplicate, Acknowledged, Pending, orderVars
  <1>3. Safe \subseteq Safe'
    BY AppendOrder, SMT DEF Handle, CreateOrder, CreateOrderThrows, CreateOrderInvalid,
                            Rollback, IgnoreDuplicate, Safe, Ordered, orderVars, historyVars
  <1>4. CASE CreateOrder(c) \/ CreateOrderThrows(c)
    <2>1. c \in Pending
      BY <1>4 DEF CreateOrder, CreateOrderThrows, Exists, Pending
    <2>2. c.lines \subseteq Safe'
      BY <1>4, AppendOrder, SMT DEF CreateOrderThrows, Safe
    <2>3. stored \subseteq Safe'
      BY <1>3, <2>1, <2>2, SMT DEF VanishInv, Covered
    <2> QED
      BY <1>1, <1>2, <1>3, <2>3, SMT DEF VanishInv, Known, NothingVanishes, Covered, Safe
  <1>5. CASE CreateOrderInvalid(c) \/ Rollback(c) \/ IgnoreDuplicate(c)
    <2>1. unpublished' = unpublished
      BY <1>5 DEF CreateOrderInvalid, Rollback, IgnoreDuplicate
    <2> QED
      BY <1>1, <1>2, <1>3, <2>1, SMT DEF VanishInv, Known, NothingVanishes, Covered, Safe
  <1> QED
    BY <1>4, <1>5 DEF Handle

\* OrderStarted deletes what is safe.
LEMMA StartedVanish ==
  ASSUME CheckoutTypeOK, VanishInv, NEW f \in Forms,
         PublishStarted(f) \/ LoseStarted(f) \/ DeleteOrdered(f) \/ DeleteFails(f)
  PROVE  VanishInv'
  <1>1. /\ UNCHANGED <<added, copied, attempts, sent, requestIds, placed, astray>>
        /\ unpublished' \cup announced' \subseteq unpublished \cup announced
        /\ stored' \subseteq stored
    BY SMT DEF PublishStarted, LoseStarted, DeleteOrdered, DeleteFails, cartVars,
               orderVars, historyVars
  <1>2. Ordered' = Ordered /\ Pending' = Pending
    BY <1>1 DEF Ordered, Pending
  <1>3. stored \ stored' \subseteq Safe
    <2>1. CASE DeleteOrdered(f)
      BY <2>1 DEF DeleteOrdered, VanishInv, Covered
    <2>2. CASE ~DeleteOrdered(f)
      BY <2>2 DEF PublishStarted, LoseStarted, DeleteFails, cartVars
    <2> QED
      BY <2>1, <2>2
  <1> QED
    BY <1>1, <1>2, <1>3, SMT DEF VanishInv, Known, NothingVanishes, Covered, Safe

LEMMA StepVanish == CheckoutTypeOK /\ VanishInv /\ [CheckoutNext]_checkoutVars => VanishInv'
  <1> SUFFICES ASSUME CheckoutTypeOK, VanishInv, [CheckoutNext]_checkoutVars PROVE VanishInv'
    OBVIOUS
  <1>1. CASE UNCHANGED checkoutVars
    BY <1>1 DEF VanishInv, Known, NothingVanishes, Covered, Pending, Safe, Ordered, checkoutVars,
                cartVars, orderVars, historyVars
  <1>2. CASE CheckoutNext
    BY <1>2, ChangeVanish, CheckoutVanish, HandleVanish, StartedVanish DEF CheckoutNext
  <1> QED
    BY <1>1, <1>2

\* Whatever requests, forms, deliveries and crashes do: what was put into the basket is there
\* or ordered, or one of the named races met it.
THEOREM BasketIsKept == CheckoutSpec => []NothingVanishes
  <1>1. VanishInv => NothingVanishes
    BY DEF VanishInv
  <1> QED
    BY <1>1, InitVanish, StepVanish, TypeCorrect, PTL DEF CheckoutSpec

-----------------------------------------------------------------------------
(* Ordered once *)

\* Request ids have one order each, and OrderStarted only follows a request id.
OneOrderEach ==
    /\ \A i \in DOMAIN placed : placed[i].form \in requestIds
    /\ \A i, j \in DOMAIN placed : i # j => placed[i].form # placed[j].form
    /\ unpublished \cup announced \cup cleared \subseteq requestIds

\* What is checked out was added.
Noted ==
    /\ \A c \in Pending : c.lines \subseteq added
    /\ \A i \in DOMAIN placed : placed[i].lines \subseteq added

\* Two forms that may both become orders share no line but the repeated ones; lines of an
\* order whose basket was deleted are in the basket only if they are repeated.
Apart ==
    /\ \A c, d \in Pending : c.form # d.form => c.lines \cap d.lines \subseteq repeated
    /\ \A c \in Pending, i \in DOMAIN placed : c.lines \cap placed[i].lines \subseteq repeated
    /\ \A i \in DOMAIN placed :
          placed[i].form \in cleared => stored \cap placed[i].lines \subseteq repeated

OnceInv == Known /\ OneOrderEach /\ Noted /\ Apart /\ OrderedOnce

LEMMA InitOnce == CheckoutInit => OnceInv
  BY SMT DEF CheckoutInit, OnceInv, Known, OneOrderEach, Noted, Apart, OrderedOnce, Pending

\* A step that leaves checkouts and orders alone and puts nothing unnoted into the basket.
LEMMA QuietStep ==
  ASSUME CheckoutTypeOK, OnceInv, Known',
         UNCHANGED <<requestIds, placed>>, Pending' \subseteq Pending,
         unpublished' \cup announced' \cup cleared' \subseteq requestIds,
         added \subseteq added', repeated \subseteq repeated',
         cleared' = cleared \/ stored' = {},
         stored' \cap added \subseteq stored \cup repeated'
  PROVE  OnceInv'
  <1>1. OneOrderEach'
    BY SMT DEF OnceInv, OneOrderEach
  <1>2. Noted'
    BY SMT DEF OnceInv, Noted
  <1>3. ASSUME NEW i \in DOMAIN placed, placed[i].form \in cleared'
        PROVE  stored' \cap placed[i].lines \subseteq repeated'
    <2>1. placed[i].lines \subseteq added
      BY DEF OnceInv, Noted
    <2>2. CASE stored' = {}
      BY <2>2
    <2>3. CASE cleared' = cleared
      <3>1. stored \cap placed[i].lines \subseteq repeated
        BY <1>3, <2>3 DEF OnceInv, Apart
      <3> QED
        BY <2>1, <3>1, SMT
    <2> QED
      BY <2>2, <2>3
  <1>4. Apart'
    BY <1>3, SMT DEF OnceInv, Apart
  <1>5. OrderedOnce'
    BY SMT DEF OnceInv, OrderedOnce
  <1> QED
    BY <1>1, <1>2, <1>4, <1>5 DEF OnceInv

\* Only old copies put lines back.
LEMMA ChangeOnce == ASSUME CheckoutTypeOK, OnceInv, Change PROVE OnceInv'
  <1>1. UNCHANGED <<attempts, sent, requestIds, placed, unpublished, announced, cleared>>
    BY DEF Change, GetBasket, PostBasket, RequestFails, DeleteBasketById, orderVars,
           historyVars
  <1>2. Pending' = Pending /\ unpublished' \cup announced' \cup cleared' \subseteq requestIds
    BY <1>1 DEF Pending, OnceInv, OneOrderEach
  <1>3. /\ Known' /\ added \subseteq added' /\ repeated \subseteq repeated'
        /\ stored' \cap added \subseteq stored \cup repeated'
    <2>1. ASSUME NEW r \in Writers, GetBasket(r) \/ RequestFails(r) PROVE <1>3
      <3>1. \A q \in Writers : copied'[q] \in {copied[q], stored, {}}
        BY <2>1, SMT DEF GetBasket, RequestFails, LeaveRequest, CheckoutTypeOK
      <3>2. UNCHANGED <<stored, added, repeated>>
        BY <2>1 DEF GetBasket, RequestFails, historyVars
      <3> QED
        BY <3>1, <3>2, SMT DEF OnceInv, Known
    <2>2. ASSUME NEW r \in Writers, PostBasket(r) PROVE <1>3
      <3>1. PICK new \in SUBSET (LineIds \ added) :
               stored' = copied[r] \cup new /\ added' = added \cup new
        BY <2>2 DEF PostBasket
      <3>2. repeated' = repeated \cup (copied[r] \ stored)
        BY <2>2 DEF PostBasket
      <3>3. \A q \in Writers : copied'[q] \in {copied[q], {}}
        BY <2>2, SMT DEF PostBasket, LeaveRequest, CheckoutTypeOK
      <3> QED
        BY <3>1, <3>2, <3>3, SMT DEF OnceInv, Known
    <2>3. ASSUME DeleteBasketById PROVE <1>3
      BY <2>3, SMT DEF DeleteBasketById, OnceInv, Known
    <2> QED
      BY <2>1, <2>2, <2>3 DEF Change
  <1> QED
    BY <1>1, <1>2, <1>3, QuietStep

\* A checkout shares lines only with forms whose deletion is still to come.
LEMMA CheckoutOnce ==
  ASSUME CheckoutTypeOK, OnceInv, NEW f \in Forms, CheckoutAsync(f)
  PROVE  OnceInv'
  <1> DEFINE new == [form |-> f, lines |-> stored]
  <1>1. UNCHANGED <<stored, added, copied, requestIds, placed, unpublished, announced, cleared>>
    BY DEF CheckoutAsync, cartVars, orderVars
  <1>2. \A c \in Pending' : c \in Pending \/ (c = new /\ f \notin requestIds)
    BY SMT DEF CheckoutAsync, Pending, orderVars
  <1>3. repeated \subseteq repeated' /\ stored \cap Undeleted(f) \subseteq repeated'
    BY DEF CheckoutAsync
  <1>4. Known' /\ OneOrderEach'
    BY <1>1, SMT DEF OnceInv, Known, OneOrderEach
  <1>5. Noted'
    BY <1>1, <1>2, SMT DEF OnceInv, Known, Noted
  <1>6. Apart'
    <2>1. ASSUME NEW c \in Pending, c.form # f PROVE c.lines \cap stored \subseteq repeated'
      <3>1. c.lines \subseteq Undeleted(f)
        BY <2>1 DEF Undeleted, Others
      <3> QED
        BY <1>3, <3>1
    <2>2. ASSUME NEW i \in DOMAIN placed, f \notin requestIds
          PROVE  stored \cap placed[i].lines \subseteq repeated'
      <3>1. placed[i].form # f
        BY <2>2 DEF OnceInv, OneOrderEach
      <3>2. CASE placed[i].form \in cleared
        BY <1>3, <3>2 DEF OnceInv, Apart
      <3>3. CASE placed[i].form \notin cleared
        <4>1. placed[i] \in Others(f)
          BY <3>1, <3>3 DEF Others, Range
        <4>2. placed[i].lines \subseteq Undeleted(f)
          BY <4>1 DEF Undeleted
        <4> QED
          BY <1>3, <4>2
      <3> QED
        BY <3>2, <3>3
    <2> QED
      BY <1>1, <1>2, <1>3, <2>1, <2>2, SMT DEF OnceInv, Apart
  <1>7. OrderedOnce'
    BY <1>1, <1>3, SMT DEF OnceInv, OrderedOnce
  <1> QED
    BY <1>4, <1>5, <1>6, <1>7 DEF OnceInv

\* An order is made of a pending checkout, whose request id is new.
LEMMA HandleOnce == ASSUME CheckoutTypeOK, OnceInv, NEW c \in sent, Handle(c) PROVE OnceInv'
  <1>1. UNCHANGED <<stored, added, copied, announced, cleared, repeated>>
    BY DEF Handle, CreateOrder, CreateOrderThrows, CreateOrderInvalid, Rollback,
           IgnoreDuplicate, cartVars, historyVars
  <1>2. Pending' \subseteq Pending
    BY SMT DEF Handle, CreateOrder, CreateOrderThrows, CreateOrderInvalid, Rollback,
               IgnoreDuplicate, Acknowledged, Pending, orderVars
  <1>3. Known'
    BY <1>1 DEF OnceInv, Known
  <1>4. CASE CreateOrder(c)
    <2>1. c \in Pending /\ c.form \notin requestIds /\ c \notin Pending'
      BY <1>4, SMT DEF CreateOrder, Exists, Pending
    <2>2. requestIds' = requestIds \cup {c.form} /\ unpublished' = unpublished \cup {c.form}
      BY <1>4 DEF CreateOrder
    <2>3. /\ DOMAIN placed' = DOMAIN placed \cup {Len(placed) + 1}
          /\ \A i \in DOMAIN placed : placed'[i] = placed[i]
          /\ placed'[Len(placed) + 1] = c
          /\ Len(placed) + 1 \notin DOMAIN placed
      BY <1>4, AppendOrder
    <2>4. OneOrderEach'
      BY <1>1, <2>1, <2>2, <2>3, SMT DEF OnceInv, OneOrderEach
    <2>5. Noted'
      BY <1>1, <1>2, <2>1, <2>3, SMT DEF OnceInv, Noted
    <2>6. \A d \in Pending' : d.form # c.form
      BY <2>2, SMT DEF Pending
    <2>7. c.form \notin cleared
      BY <2>1 DEF OnceInv, OneOrderEach
    <2>8. Apart'
      BY <1>1, <1>2, <2>1, <2>3, <2>6, <2>7, SMT DEF OnceInv, Apart
    <2>9. OrderedOnce'
      BY <1>1, <2>1, <2>3, SMT DEF OnceInv, Apart, OrderedOnce
    <2> QED
      BY <1>3, <2>4, <2>5, <2>8, <2>9 DEF OnceInv
  <1>5. CASE CreateOrderThrows(c)
    <2>1. /\ requestIds' = requestIds \cup {c.form} /\ unpublished' = unpublished \cup {c.form}
          /\ placed' = placed
      BY <1>5 DEF CreateOrderThrows
    <2> QED
      BY <1>1, <1>2, <1>3, <2>1, SMT DEF OnceInv, OneOrderEach, Noted, Apart, OrderedOnce
  <1>6. CASE CreateOrderInvalid(c)
    <2>1. requestIds' = requestIds \cup {c.form} /\ UNCHANGED <<placed, unpublished>>
      BY <1>6 DEF CreateOrderInvalid
    <2> QED
      BY <1>1, <1>2, <1>3, <2>1, SMT DEF OnceInv, OneOrderEach, Noted, Apart, OrderedOnce
  <1>7. CASE Rollback(c) \/ IgnoreDuplicate(c)
    <2>1. UNCHANGED <<requestIds, placed, unpublished>>
      BY <1>7 DEF Rollback, IgnoreDuplicate, orderVars
    <2>2. unpublished' \cup announced' \cup cleared' \subseteq requestIds
      BY <1>1, <2>1 DEF OnceInv, OneOrderEach
    <2> QED
      BY <1>1, <1>2, <1>3, <2>1, <2>2, QuietStep
  <1> QED
    BY <1>4, <1>5, <1>6, <1>7 DEF Handle

LEMMA StartedOnce ==
  ASSUME CheckoutTypeOK, OnceInv, NEW f \in Forms,
         PublishStarted(f) \/ LoseStarted(f) \/ DeleteOrdered(f) \/ DeleteFails(f)
  PROVE  OnceInv'
  <1>1. UNCHANGED <<added, copied, attempts, sent, requestIds, placed, repeated>>
    BY DEF PublishStarted, LoseStarted, DeleteOrdered, DeleteFails, cartVars,
           orderVars, historyVars
  <1>2. Pending' = Pending
    BY <1>1 DEF Pending
  <1>3. /\ unpublished' \cup announced' \cup cleared' \subseteq requestIds
        /\ stored' = stored \/ stored' = {}
        /\ cleared' = cleared \/ stored' = {}
    BY SMT DEF PublishStarted, LoseStarted, DeleteOrdered, DeleteFails, cartVars, historyVars,
               OnceInv, OneOrderEach
  <1>4. Known'
    BY <1>1, <1>3 DEF OnceInv, Known
  <1>5. stored' \cap added \subseteq stored \cup repeated'
    BY <1>3
  <1> QED
    BY <1>1, <1>2, <1>3, <1>4, <1>5, QuietStep

LEMMA StepOnce == CheckoutTypeOK /\ OnceInv /\ [CheckoutNext]_checkoutVars => OnceInv'
  <1> SUFFICES ASSUME CheckoutTypeOK, OnceInv, [CheckoutNext]_checkoutVars PROVE OnceInv'
    OBVIOUS
  <1>1. CASE UNCHANGED checkoutVars
    BY <1>1 DEF OnceInv, Known, OneOrderEach, Noted, Apart, OrderedOnce, Pending, checkoutVars,
                cartVars, orderVars, historyVars
  <1>2. CASE CheckoutNext
    BY <1>2, ChangeOnce, CheckoutOnce, HandleOnce, StartedOnce DEF CheckoutNext
  <1> QED
    BY <1>1, <1>2

\* However often forms are sent and messages delivered: a line is in two orders only if it
\* was checked out by a second form before its deletion, or put back by an old copy.
THEOREM LinesOrderedOnce == CheckoutSpec => []OrderedOnce
  <1>1. OnceInv => OrderedOnce
    BY DEF OnceInv
  <1> QED
    BY <1>1, InitOnce, StepOnce, TypeCorrect, PTL DEF CheckoutSpec

=============================================================================
