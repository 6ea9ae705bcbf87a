------------------------- MODULE OrderGatewayProofs -------------------------
(***************************************************************************)
(* Theorems about OrderGateway, for every set of venues and every number   *)
(* of calls: what buy_sell does with its two orders, and that the library  *)
(* is up under a transfer unless two threads met inside its counter.       *)
(***************************************************************************)
EXTENDS OrderGateway, FiniteSetTheorems, TLAPS

-----------------------------------------------------------------------------
\* The orders.

Types ==
  /\ pc \in [Requests -> Places]
  /\ order \in [Requests -> Orders]
  /\ verdict \in [Legs -> {"none"} \union Answers]
  /\ reply \in [Legs -> Replies]
  /\ deals \in [Legs -> Seq(Legs)]

\* The places of a leg whose order has not been sent.
Before == {"off", "init", "init_store", "bring_up", "handle"}

\* An order that a venue can read is on the side of its leg; the venue decides
\* during the transfer, once; what is executed is one order; a whole answer
\* tells whether it was.
LegInv(l) ==
  /\ order[l] \in DOMAIN Legible => order[l] = l
  /\ verdict[l] # "none" => pc[l] = "transfer"
  /\ deals[l] \in {<<>>, <<l>>}
  /\ pc[l] \in Before => deals[l] = <<>>
  /\ pc[l] = "transfer" => (verdict[l] = "executed" <=> deals[l] = <<l>>)
  /\ pc[l] \in Before \union {"transfer"} => reply[l] = "empty"
  /\ reply[l] \in Answers => (reply[l] = "executed" <=> deals[l] # <<>>)

OrderInv == Types /\ \A l \in Legs : LegInv(l)

\* The steps that leave the orders alone: control of one request moves, not to
\* or from the transfer of a leg that has sent its order.
LEMMA PassingKeepsOrders ==
  ASSUME OrderInv, NEW r \in Requests, NEW from \in Places, NEW to \in Places,
         Goes(r, from, to), UNCHANGED <<order, verdict, reply, deals>>,
         to \in Before => from \in Before,
         to = "transfer" => from = "handle",
         from = "transfer" => r \notin Legs
  PROVE  OrderInv'
<1>1. pc' = [pc EXCEPT ![r] = to] /\ pc[r] = from
  BY DEF Goes
<1>2. Types'
  BY <1>1 DEF OrderInv, Types
<1>3. ASSUME NEW l \in Legs PROVE LegInv(l)'
  <2>1. LegInv(l) /\ l \in Requests
    BY DEF OrderInv, Requests
  <2>2. CASE r # l
    <3>1. pc'[l] = pc[l]
      BY <1>1, <2>1, <2>2 DEF OrderInv, Types
    <3> QED
      BY <2>1, <3>1 DEF LegInv
  <2>3. CASE r = l
    <3>1. pc'[l] = to /\ pc[l] = from
      BY <1>1, <2>1, <2>3 DEF OrderInv, Types
    <3>2. verdict[l] = "none" /\ from # "transfer"
      BY <2>1, <2>3, <3>1 DEF LegInv
    <3>3. to = "transfer" => deals[l] = <<>> /\ <<>> # <<l>>
      BY <2>1, <3>1 DEF LegInv, Before
    <3>4. to \in Before \union {"transfer"} => reply[l] = "empty"
      BY <2>1, <3>1 DEF LegInv, Before
    <3> QED
      BY <2>1, <3>1, <3>2, <3>3, <3>4 DEF LegInv
  <2> QED
    BY <2>2, <2>3
<1> QED
  BY <1>2, <1>3 DEF OrderInv

LEMMA OrderInvInitially == Init => OrderInv
<1> SUFFICES ASSUME Init PROVE OrderInv
  OBVIOUS
<1>1. Types
  BY DEF Init, Types, Places, Orders, Answers, Replies
<1>2. ASSUME NEW l \in Legs PROVE LegInv(l)
  BY DEF Init, LegInv, Legs, Requests, Before, Answers, Legible
<1> QED
  BY <1>1, <1>2 DEF OrderInv

\* What a class posts is known, and a legible order is on the side of the leg.
LEMMA OrdersOfClasses ==
  ASSUME NEW v \in Venues, NEW r \in Requests
  PROVE  /\ Order(v, r) \in Orders
         /\ r \in Legs /\ Order(v, r) \in DOMAIN Legible => Order(v, r) = r
<1>1. v \in {"binance", "huobipro", "okex"}
  BY VenuesAssumption
<1>2. DOMAIN Legible = {"buy", "sell"}
  BY DEF Legible
<1>3. CASE r = "buy"
  <2>1. v = "binance" => Order(v, r) = "buy"
    BY <1>3 DEF Order
  <2>2. v = "huobipro" => Order(v, r) = "quoted sell"
    BY <1>3 DEF Order
  <2>3. v = "okex" => Order(v, r) = "none"
    BY <1>3 DEF Order
  <2>4. Order(v, r) \in {"buy", "quoted sell", "none"}
    BY <1>1, <2>1, <2>2, <2>3
  <2> QED
    BY <1>2, <1>3, <2>4 DEF Orders
<1>4. CASE r = "sell"
  BY <1>2, <1>4 DEF Order, Orders
<1>5. CASE r \in {"balance", "snapshot"}
  BY <1>5 DEF Order, Orders, Legs
<1> QED
  BY <1>3, <1>4, <1>5 DEF Requests, Legs

LEMMA StartKeepsOrders ==
  ASSUME OrderInv, NEW rs \in SUBSET Requests, Start(rs)
  PROVE  OrderInv'
<1>1. PICK w \in [rs -> Venues] :
        /\ order' = [r \in Requests |->
                       IF r \in rs THEN Order(w[r], r) ELSE order[r]]
        /\ pc' = [r \in Requests |->
                    IF r \notin rs THEN pc[r]
                    ELSE IF Order(w[r], r) = "none" THEN "print" ELSE "init"]
  BY DEF Start
<1>2. \A r \in rs : pc[r] = "off"
  BY DEF Start, Idle
<1>3. UNCHANGED <<verdict, reply, deals>>
  BY DEF Start, netVars
<1>4. \A r \in rs : /\ Order(w[r], r) \in Orders
                    /\ r \in Legs /\ Order(w[r], r) \in DOMAIN Legible
                         => Order(w[r], r) = r
  BY OrdersOfClasses
<1>5. Types'
  BY <1>1, <1>3, <1>4 DEF OrderInv, Types, Places
<1>6. ASSUME NEW l \in Legs PROVE LegInv(l)'
  <2>1. LegInv(l) /\ l \in Requests
    BY DEF OrderInv, Requests
  <2>2. CASE l \notin rs
    <3>1. pc'[l] = pc[l] /\ order'[l] = order[l]
      BY <1>1, <2>1, <2>2
    <3> QED
      BY <1>3, <2>1, <3>1 DEF LegInv
  <2>3. CASE l \in rs
    <3>1. pc[l] = "off" /\ pc'[l] \in {"print", "init"}
          /\ order'[l] = Order(w[l], l)
      BY <1>1, <1>2, <2>1, <2>3
    <3>2. order'[l] \in DOMAIN Legible => order'[l] = l
      BY <1>4, <2>3, <3>1
    <3>3. verdict[l] = "none" /\ deals[l] = <<>> /\ reply[l] = "empty"
      BY <2>1, <3>1 DEF LegInv, Before
    <3> QED
      BY <1>3, <3>1, <3>2, <3>3 DEF LegInv, Answers
  <2> QED
    BY <2>2, <2>3
<1> QED
  BY <1>5, <1>6 DEF OrderInv

LEMMA ReturnKeepsOrders ==
  ASSUME OrderInv, Return PROVE OrderInv'
<1>1. Types'
  <2>1. <<>> \in Seq(Legs)
    OBVIOUS
  <2> QED
    BY <2>1 DEF OrderInv, Types, Return, Places, Orders, Replies
<1>2. ASSUME NEW l \in Legs PROVE LegInv(l)'
  <2>1. LegInv(l) /\ l \in Requests
    BY DEF OrderInv, Requests
  <2>2. /\ pc[l] \in {"off", "done"}
        /\ pc'[l] = "off" /\ order'[l] = "none" /\ verdict'[l] = verdict[l]
        /\ reply'[l] = "empty" /\ deals'[l] = <<>>
    BY <2>1 DEF Return
  <2>3. verdict[l] = "none"
    BY <2>1, <2>2 DEF LegInv
  <2> QED
    BY <2>2, <2>3 DEF LegInv, Legible, Answers
<1> QED
  BY <1>1, <1>2 DEF OrderInv

\* The steps of the network on an order.
LEMMA NetworkKeepsOrders ==
  ASSUME OrderInv, NEW l \in Legs,
         VenueDecides(l) \/ Answered(l) \/ TransferFails(l)
  PROVE  OrderInv'
<1>1. LegInv(l) /\ l \in Requests /\ pc[l] = "transfer"
  BY DEF OrderInv, Requests, VenueDecides, Answered, TransferFails, Goes
<1>2. \/ pc' = pc
      \/ pc' = [pc EXCEPT ![l] = "cleanup"]
  BY DEF VenueDecides, Answered, TransferFails, Goes
<1>3. /\ order' = order
      /\ \A k \in Legs \ {l} : /\ verdict'[k] = verdict[k]
                               /\ reply'[k] = reply[k]
                               /\ deals'[k] = deals[k]
                               /\ pc'[k] = pc[k]
  BY <1>1, <1>2 DEF OrderInv, Types, Requests, VenueDecides, Answered, TransferFails
<1>4. Types' /\ LegInv(l)'
  <2>1. CASE VenueDecides(l)
    <3>1. pc'[l] = "transfer" /\ reply' = reply /\ pc' = pc
      BY <1>1, <2>1 DEF VenueDecides
    <3>2. deals[l] = <<>> /\ reply[l] = "empty" /\ verdict[l] = "none"
      BY <1>1, <2>1 DEF VenueDecides, LegInv
    <3>3. CASE verdict' = [verdict EXCEPT ![l] = "refused"] /\ UNCHANGED deals
      <4>1. Types'
        BY <1>3, <3>1, <3>3 DEF OrderInv, Types, Answers
      <4>2. verdict'[l] = "refused" /\ deals'[l] = <<>> /\ <<>> # <<l>>
        BY <3>2, <3>3 DEF OrderInv, Types
      <4> QED
        BY <1>1, <1>3, <3>1, <3>2, <4>1, <4>2 DEF LegInv, Answers, Before
    <3>4. CASE /\ order[l] \in DOMAIN Legible
               /\ verdict' = [verdict EXCEPT ![l] = "executed"]
               /\ deals' = [deals EXCEPT ![l] = Append(@, Legible[order[l]])]
      <4>1. Legible[order[l]] = l
        BY <1>1, <3>4 DEF LegInv, Legible, Legs
      <4>2. Append(<<>>, l) = <<l>> /\ <<l>> \in Seq(Legs) /\ <<l>> # <<>>
        OBVIOUS
      <4>3. deals' = [deals EXCEPT ![l] = <<l>>]
        BY <3>2, <3>4, <4>1, <4>2
      <4>4. verdict'[l] = "executed" /\ deals'[l] = <<l>>
        BY <3>4, <4>3 DEF OrderInv, Types
      <4>5. Types'
        BY <1>3, <3>1, <3>4, <4>2, <4>3 DEF OrderInv, Types, Answers
      <4> QED
        BY <1>1, <1>3, <3>1, <3>2, <4>2, <4>4, <4>5 DEF LegInv, Answers, Before
    <3> QED
      BY <2>1, <3>3, <3>4 DEF VenueDecides
  <2>2. CASE Answered(l)
    <3>1. /\ pc' = [pc EXCEPT ![l] = "cleanup"] /\ verdict[l] # "none"
          /\ verdict' = [verdict EXCEPT ![l] = "none"] /\ deals' = deals
          /\ reply' = [reply EXCEPT ![l] = verdict[l]]
      BY <2>2 DEF Answered, Goes
    <3>2. verdict[l] \in Answers
      BY <3>1 DEF OrderInv, Types
    <3>3. Types'
      BY <1>3, <3>1, <3>2 DEF OrderInv, Types, Replies, Places
    <3>4. pc'[l] = "cleanup" /\ verdict'[l] = "none" /\ reply'[l] = verdict[l]
      BY <1>1, <3>1 DEF OrderInv, Types
    <3>5. deals[l] = <<l>> <=> deals[l] # <<>>
      <4>1. <<l>> # <<>>
        OBVIOUS
      <4> QED
        BY <1>1, <4>1 DEF LegInv
    <3>6. verdict[l] = "executed" <=> deals[l] # <<>>
      BY <1>1, <3>5 DEF LegInv
    <3> QED
      BY <1>1, <1>3, <3>1, <3>3, <3>4, <3>6 DEF LegInv, Before
  <2>3. CASE TransferFails(l)
    <3>1. /\ pc' = [pc EXCEPT ![l] = "cleanup"] /\ deals' = deals
          /\ verdict' = [verdict EXCEPT ![l] = "none"]
      BY <2>3 DEF TransferFails, Goes
    <3>2. PICK got \in {"empty", "part"} : reply' = [reply EXCEPT ![l] = got]
      BY <2>3 DEF TransferFails
    <3>3. Types'
      BY <1>3, <3>1, <3>2 DEF OrderInv, Types, Replies, Places
    <3>4. pc'[l] = "cleanup" /\ verdict'[l] = "none" /\ reply'[l] = got
      BY <1>1, <3>1, <3>2 DEF OrderInv, Types
    <3> QED
      BY <1>1, <1>3, <3>1, <3>3, <3>4 DEF LegInv, Before, Answers
  <2> QED
    BY <2>1, <2>2, <2>3
<1>5. ASSUME NEW k \in Legs \ {l} PROVE LegInv(k)'
  <2>1. LegInv(k)
    BY DEF OrderInv
  <2> QED
    BY <1>3, <2>1 DEF LegInv
<1> QED
  BY <1>4, <1>5 DEF OrderInv

LEMMA StepKeepsOrders == OrderInv /\ [Next]_vars => OrderInv'
<1> SUFFICES ASSUME OrderInv, [Next]_vars PROVE OrderInv'
  OBVIOUS
<1>1. CASE BuySell \/ GetBalance \/ Snapshot
  <2>1. PICK rs \in SUBSET Requests : Start(rs)
    BY <1>1 DEF BuySell, GetBalance, Snapshot, Requests
  <2> QED
    BY <2>1, StartKeepsOrders
<1>2. CASE Return
  BY <1>2, ReturnKeepsOrders
<1>3. ASSUME NEW r \in Requests, ThreadStep(r) PROVE OrderInv'
  <2> USE <1>3 DEF netVars, Before, Places, Counting
  <2>1. CASE PrintResult(r)
    BY <2>1, PassingKeepsOrders DEF PrintResult
  <2>2. CASE InitLoad(r)
    BY <2>2, PassingKeepsOrders DEF InitLoad
  <2>3. CASE InitStore(r)
    <3>1. CASE seen[r] = 0
      BY <2>3, <3>1, PassingKeepsOrders DEF InitStore
    <3>2. CASE seen[r] # 0
      BY <2>3, <3>2, PassingKeepsOrders DEF InitStore
    <3> QED
      BY <3>1, <3>2
  <2>4. CASE BringUp(r)
    BY <2>4, PassingKeepsOrders DEF BringUp
  <2>5. CASE EasyInit(r)
    <3>1. CASE Goes(r, "handle", "transfer")
      BY <2>5, <3>1, PassingKeepsOrders DEF EasyInit
    <3>2. CASE Goes(r, "handle", "cleanup")
      BY <2>5, <3>2, PassingKeepsOrders DEF EasyInit
    <3> QED
      BY <2>5, <3>1, <3>2 DEF EasyInit
  <2>6. CASE CleanupLoad(r)
    <3>1. CASE users = 0
      BY <2>6, <3>1, PassingKeepsOrders DEF CleanupLoad
    <3>2. CASE users # 0
      BY <2>6, <3>2, PassingKeepsOrders DEF CleanupLoad
    <3> QED
      BY <3>1, <3>2
  <2>7. CASE CleanupStore(r)
    <3>1. CASE seen[r] = 1
      BY <2>7, <3>1, PassingKeepsOrders DEF CleanupStore
    <3>2. CASE seen[r] # 1
      BY <2>7, <3>2, PassingKeepsOrders DEF CleanupStore
    <3> QED
      BY <3>1, <3>2
  <2>8. CASE TakeDown(r)
    BY <2>8, PassingKeepsOrders DEF TakeDown
  <2> QED
    BY <2>1, <2>2, <2>3, <2>4, <2>5, <2>6, <2>7, <2>8 DEF ThreadStep
<1>4. ASSUME NEW r \in Requests, Network(r) PROVE OrderInv'
  <2>1. CASE r \in Legs
    BY <1>4, <2>1, NetworkKeepsOrders DEF Network
  <2>2. CASE r \notin Legs
    <3>1. QueryEnds(r)
      BY <1>4, <2>2 DEF Network
    <3> QED
      BY <2>2, <3>1, PassingKeepsOrders
      DEF QueryEnds, netVars, Before, Places, Counting
  <2> QED
    BY <2>1, <2>2
<1>5. CASE UNCHANGED <<pc, order, verdict, reply, deals>>
  BY <1>5 DEF OrderInv, Types, LegInv
<1>6. ASSUME NEW r \in Requests, Dies(r) PROVE OrderInv'
  BY <1>5, <1>6 DEF Dies, netVars
<1>7. CASE UNCHANGED vars
  BY <1>5, <1>7 DEF vars, netVars
<1> QED
  BY <1>1, <1>2, <1>3, <1>4, <1>6, <1>7 DEF Next

LEMMA OrderInvAlways == Spec => []OrderInv
BY OrderInvInitially, StepKeepsOrders, PTL DEF Spec

\* A leg of buy_sell comes to one deal at most, of its own side, whatever
\* classes it is given: nobody sends an order again, and no order that a venue
\* can read is of the other side.
THEOREM OneOrderPerLegAlways == Spec => []OneOrderPerLeg
<1>1. OrderInv => OneOrderPerLeg
  BY DEF OrderInv, LegInv, OneOrderPerLeg
<1> QED
  BY <1>1, OrderInvAlways, PTL

\* A whole answer that is printed for a leg says whether its order was executed.
THEOREM AnswersAreAlwaysTrue == Spec => []AnswersAreTrue
<1>1. OrderInv => AnswersAreTrue
  BY DEF OrderInv, LegInv, AnswersAreTrue
<1> QED
  BY <1>1, OrderInvAlways, PTL

-----------------------------------------------------------------------------
\* The counter of the library.

Inside == {r \in Requests : pc[r] \in Counted}
Begun == {"handle", "transfer", "cleanup", "cleanup_store"}
Storing == {"init_store", "cleanup_store"}

CurlTypes ==
  /\ pc \in [Requests -> Places]
  /\ users \in Nat /\ seen \in [Requests -> Nat]
  /\ {up, alive, raced} \subseteq BOOLEAN

\* What is true as long as no two threads have met inside the counter: one is
\* there at a time, what it has loaded is still the count, the count is right,
\* and it says whether the library is up.
Alone == \A q, r \in Requests : pc[q] \in Counting /\ pc[r] \in Counting => q = r
Exact == users = Cardinality(Inside)
Fresh == \A r \in Requests : pc[r] \in Storing => seen[r] = users
UpWhenBegun == \A r \in Requests : pc[r] \in Begun => up
NobodyAtTakeDown == \A r \in Requests : pc[r] = "take_down" => users = 0
DownWhenNobody == users = 0 => ~up \/ \E r \in Requests : pc[r] = "take_down"
Quiet ==
  /\ Alone /\ Exact /\ Fresh
  /\ UpWhenBegun /\ NobodyAtTakeDown /\ DownWhenNobody

CurlInv == CurlTypes /\ (raced \/ Quiet) /\ (alive \/ raced)

LEMMA RequestsAreFinite == IsFiniteSet(Requests)
<1>1. Requests = ((({} \union {"buy"}) \union {"sell"}) \union {"balance"})
                 \union {"snapshot"}
  BY DEF Requests, Legs
<1> QED
  BY <1>1, FS_EmptySet, FS_AddElement

\* How the count of those inside changes when one request moves.
LEMMA CountMoves ==
  ASSUME pc \in [Requests -> Places], NEW r \in Requests, NEW to \in Places,
         pc' = [pc EXCEPT ![r] = to]
  PROVE  /\ IsFiniteSet(Inside) /\ Cardinality(Inside) \in Nat
         /\ (Cardinality(Inside) = 0 <=> Inside = {})
         /\ (pc[r] \in Counted <=> to \in Counted) => Inside' = Inside
         /\ pc[r] \notin Counted /\ to \in Counted
              => Cardinality(Inside') = Cardinality(Inside) + 1
         /\ pc[r] \in Counted /\ to \notin Counted
              => Cardinality(Inside') = Cardinality(Inside) - 1
<1>1. IsFiniteSet(Inside)
  <2>1. Inside \in SUBSET Requests
    BY DEF Inside
  <2> QED
    BY <2>1, RequestsAreFinite, FS_Subset
<1>2. Cardinality(Inside) \in Nat /\ (Cardinality(Inside) = 0 <=> Inside = {})
  BY <1>1, FS_CardinalityType, FS_EmptySet
<1>3. ASSUME pc[r] \in Counted <=> to \in Counted PROVE Inside' = Inside
  BY <1>3 DEF Inside
<1>4. ASSUME pc[r] \notin Counted, to \in Counted
      PROVE  Cardinality(Inside') = Cardinality(Inside) + 1
  <2>1. Inside' = Inside \union {r} /\ r \notin Inside
    BY <1>4 DEF Inside
  <2> QED
    BY <1>1, <2>1, FS_AddElement
<1>5. ASSUME pc[r] \in Counted, to \notin Counted
      PROVE  Cardinality(Inside') = Cardinality(Inside) - 1
  <2>1. Inside' = Inside \ {r} /\ r \in Inside
    BY <1>5 DEF Inside
  <2> QED
    BY <1>1, <2>1, FS_RemoveElement
<1> QED
  BY <1>1, <1>2, <1>3, <1>4, <1>5

\* A move that does not race leaves the request alone in the counter, if there.
LEMMA QuietMove ==
  ASSUME CurlTypes, NEW r \in Requests, NEW from \in Places, NEW to \in Places,
         Goes(r, from, to), ~raced'
  PROVE  /\ ~raced
         /\ alive /\ pc[r] = from /\ pc' = [pc EXCEPT ![r] = to]
         /\ pc'[r] = to /\ \A q \in Requests \ {r} : pc'[q] = pc[q]
         /\ \A q \in Requests \ {r} : ~({to, pc[q]} \subseteq Counting)
<1>1. /\ alive /\ pc[r] = from /\ pc' = [pc EXCEPT ![r] = to]
      /\ pc'[r] = to /\ \A q \in Requests \ {r} : pc'[q] = pc[q]
  BY DEF Goes, CurlTypes
<1>2. ~raced /\ \A q \in Requests \ {r} : ~({to, pc[q]} \subseteq Counting)
  BY Zenon DEF Goes
<1> QED
  BY <1>1, <1>2

\* The types are kept by a move that stores natural numbers.
LEMMA MoveKeepsTypes ==
  ASSUME CurlTypes, NEW r \in Requests, NEW from \in Places, NEW to \in Places,
         Goes(r, from, to), users' \in Nat, up' \in BOOLEAN, alive' = alive,
         seen' \in [Requests -> Nat]
  PROVE  CurlTypes'
<1>1. pc' \in [Requests -> Places]
  BY DEF CurlTypes, Goes
<1>2. raced' \in BOOLEAN
  <2>1. raced \in BOOLEAN
    BY DEF CurlTypes
  <2> QED
    BY <2>1, Zenon DEF Goes
<1>3. alive' \in BOOLEAN
  BY DEF CurlTypes
<1> QED
  BY <1>1, <1>2, <1>3 DEF CurlTypes

LEMMA MoveKeepsAlone ==
  ASSUME CurlTypes, Alone, NEW r \in Requests, NEW from \in Places,
         NEW to \in Places, Goes(r, from, to), ~raced'
  PROVE  Alone'
<1>1. /\ pc'[r] = to /\ \A q \in Requests \ {r} : pc'[q] = pc[q]
      /\ \A q \in Requests \ {r} : ~({to, pc[q]} \subseteq Counting)
  BY QuietMove
<1> QED
  BY <1>1 DEF Alone

\* A move that leaves the counter alone and neither enters nor leaves it.
LEMMA PlainMoveKeepsCurl ==
  ASSUME CurlInv, NEW r \in Requests, NEW from \in Places, NEW to \in Places,
         Goes(r, from, to), UNCHANGED <<users, up, seen, alive>>,
         from \notin Counting, to \notin Counting,
         from \in Counted <=> to \in Counted, to \in Begun => from \in Begun
  PROVE  CurlInv'
<1>1. CurlTypes' /\ alive
  BY MoveKeepsTypes DEF CurlInv, CurlTypes, Goes
<1>2. ASSUME ~raced' PROVE Quiet'
  <2>1. /\ ~raced /\ pc[r] = from /\ pc' = [pc EXCEPT ![r] = to]
        /\ pc'[r] = to /\ \A q \in Requests \ {r} : pc'[q] = pc[q]
    BY <1>2, QuietMove DEF CurlInv
  <2>2. Quiet
    BY <2>1 DEF CurlInv
  <2>3. Inside' = Inside
    BY <2>1, CountMoves DEF CurlInv, CurlTypes
  <2>4. Alone'
    BY <1>2, <2>2, MoveKeepsAlone DEF CurlInv, Quiet
  <2>5. Exact'
    BY <2>2, <2>3 DEF Quiet, Exact
  <2>6. Fresh' /\ UpWhenBegun' /\ NobodyAtTakeDown'
    BY <2>1, <2>2
    DEF Quiet, Fresh, UpWhenBegun, NobodyAtTakeDown, Storing, Counting
  <2>7. DownWhenNobody'
    <3> SUFFICES ASSUME users' = 0, up' PROVE \E q \in Requests : pc'[q] = "take_down"
      BY DEF DownWhenNobody
    <3>1. PICK q \in Requests : pc[q] = "take_down"
      BY <2>2 DEF Quiet, DownWhenNobody
    <3>2. q # r
      BY <2>1, <3>1 DEF Counting
    <3> QED
      BY <2>1, <3>1, <3>2
  <2> QED
    BY <2>4, <2>5, <2>6, <2>7 DEF Quiet
<1>3. alive'
  BY <1>1
<1> QED
  BY <1>1, <1>2, <1>3 DEF CurlInv

LEMMA InitLoadKeepsCurl ==
  ASSUME CurlInv, NEW r \in Requests, InitLoad(r) PROVE CurlInv'
<1>1. /\ Goes(r, "init", "init_store") /\ seen' = [seen EXCEPT ![r] = users]
      /\ users' = users /\ up' = up /\ alive' = alive /\ alive
  BY DEF InitLoad, Goes
<1>2. CurlTypes'
  BY <1>1, MoveKeepsTypes DEF CurlInv, CurlTypes, Places, Counting
<1>3. ASSUME ~raced' PROVE Quiet'
  <2>1. /\ ~raced /\ pc[r] = "init" /\ pc' = [pc EXCEPT ![r] = "init_store"]
        /\ pc'[r] = "init_store" /\ \A q \in Requests \ {r} : pc'[q] = pc[q]
        /\ \A q \in Requests \ {r} : pc[q] \notin Counting
    BY <1>1, <1>3, QuietMove DEF CurlInv, Places, Counting
  <2>2. Quiet
    BY <2>1 DEF CurlInv
  <2>3. Inside' = Inside
    BY <2>1, CountMoves DEF CurlInv, CurlTypes, Counted, Places, Counting
  <2>4. Alone'
    BY <1>1, <1>3, <2>2, MoveKeepsAlone DEF CurlInv, Quiet, Places, Counting
  <2>5. Exact' /\ seen'[r] = users
    BY <1>1, <2>2, <2>3 DEF Quiet, Exact, CurlInv, CurlTypes
  <2>6. Fresh' /\ UpWhenBegun' /\ NobodyAtTakeDown'
    BY <1>1, <2>1, <2>2, <2>5
    DEF Quiet, Fresh, UpWhenBegun, NobodyAtTakeDown, Storing, Counting, Begun
  <2>7. DownWhenNobody'
    BY <1>1, <2>1, <2>2 DEF Quiet, DownWhenNobody, Counting
  <2> QED
    BY <2>4, <2>5, <2>6, <2>7 DEF Quiet
<1> QED
  BY <1>1, <1>2, <1>3 DEF CurlInv

LEMMA InitStoreKeepsCurl ==
  ASSUME CurlInv, NEW r \in Requests, InitStore(r) PROVE CurlInv'
<1> DEFINE to == IF seen[r] = 0 THEN "bring_up" ELSE "handle"
<1>1. /\ Goes(r, "init_store", to) /\ users' = seen[r] + 1
      /\ seen' = [seen EXCEPT ![r] = 0]
      /\ up' = up /\ alive' = alive /\ alive
  BY DEF InitStore, Goes
<1>2. to \in Places /\ "init_store" \in Places /\ to \in Counted
  BY DEF Places, Counting, Counted
<1>3. CurlTypes'
  BY <1>1, <1>2, MoveKeepsTypes DEF CurlInv, CurlTypes
<1>4. ASSUME ~raced' PROVE Quiet'
  <2>1. /\ ~raced /\ pc[r] = "init_store" /\ pc' = [pc EXCEPT ![r] = to]
        /\ pc'[r] = to /\ \A q \in Requests \ {r} : pc'[q] = pc[q]
    BY <1>1, <1>2, <1>4, QuietMove DEF CurlInv
  <2>2. Quiet
    BY <2>1 DEF CurlInv
  <2>3. seen[r] = users /\ users \in Nat
    BY <2>1, <2>2 DEF Quiet, Fresh, Storing, CurlInv, CurlTypes
  <2>4. \A q \in Requests \ {r} : pc[q] \notin Counting
    BY <2>1, <2>2 DEF Quiet, Alone, Counting
  <2>5. /\ Cardinality(Inside') = Cardinality(Inside) + 1
        /\ Cardinality(Inside) = 0 <=> Inside = {}
    BY <1>2, <2>1, CountMoves DEF CurlInv, CurlTypes, Counted
  <2>6. Alone'
    BY <1>1, <1>2, <1>4, <2>2, MoveKeepsAlone DEF CurlInv, Quiet
  <2>7. Exact'
    BY <1>1, <2>2, <2>3, <2>5 DEF Quiet, Exact
  <2>8. Fresh' /\ NobodyAtTakeDown' /\ DownWhenNobody'
    BY <1>1, <2>1, <2>3, <2>4
    DEF Fresh, NobodyAtTakeDown, DownWhenNobody, Storing, Counting
  <2>9. UpWhenBegun'
    <3>1. CASE users = 0
      BY <1>1, <2>1, <2>2, <2>3, <3>1 DEF Quiet, UpWhenBegun, Begun
    <3>2. CASE users # 0
      <4>1. PICK q \in Requests : pc[q] \in Counted
        BY <2>2, <2>5, <3>2 DEF Quiet, Exact, Inside
      <4>2. pc[q] \in Begun
        BY <2>1, <2>4, <4>1 DEF Counted, Counting, Begun
      <4>3. up
        BY <2>2, <4>2 DEF Quiet, UpWhenBegun
      <4> QED
        BY <1>1, <4>3 DEF UpWhenBegun
    <3> QED
      BY <3>1, <3>2
  <2> QED
    BY <2>6, <2>7, <2>8, <2>9 DEF Quiet
<1> QED
  BY <1>1, <1>3, <1>4 DEF CurlInv

LEMMA BringUpKeepsCurl ==
  ASSUME CurlInv, NEW r \in Requests, BringUp(r) PROVE CurlInv'
<1>1. /\ Goes(r, "bring_up", "handle") /\ users' = users /\ seen' = seen
      /\ up' = TRUE /\ alive' = alive /\ alive
  BY DEF BringUp, Goes
<1>2. "bring_up" \in Places /\ "handle" \in Places
  BY DEF Places, Counting
<1>3. CurlTypes'
  BY <1>1, <1>2, MoveKeepsTypes DEF CurlInv, CurlTypes
<1>4. ASSUME ~raced' PROVE Quiet'
  <2>1. /\ ~raced /\ pc[r] = "bring_up" /\ pc' = [pc EXCEPT ![r] = "handle"]
        /\ pc'[r] = "handle" /\ \A q \in Requests \ {r} : pc'[q] = pc[q]
    BY <1>1, <1>2, <1>4, QuietMove DEF CurlInv
  <2>2. Quiet
    BY <2>1 DEF CurlInv
  <2>3. \A q \in Requests \ {r} : pc[q] \notin Counting
    BY <2>1, <2>2 DEF Quiet, Alone, Counting
  <2>4. /\ Inside' = Inside /\ (Cardinality(Inside) = 0 <=> Inside = {})
    BY <1>2, <2>1, CountMoves DEF CurlInv, CurlTypes, Counted
  <2>5. r \in Inside
    BY <2>1 DEF Inside, Counted
  <2>6. Exact' /\ users # 0
    BY <1>1, <2>2, <2>4, <2>5 DEF Quiet, Exact
  <2>7. Alone'
    BY <1>1, <1>2, <1>4, <2>2, MoveKeepsAlone DEF CurlInv, Quiet
  <2>8. Fresh' /\ NobodyAtTakeDown' /\ DownWhenNobody' /\ UpWhenBegun'
    BY <1>1, <2>1, <2>3, <2>6
    DEF Fresh, NobodyAtTakeDown, DownWhenNobody, UpWhenBegun, Storing, Counting
  <2> QED
    BY <2>6, <2>7, <2>8 DEF Quiet
<1> QED
  BY <1>1, <1>3, <1>4 DEF CurlInv

LEMMA EasyInitKeepsCurl ==
  ASSUME CurlInv, NEW r \in Requests, EasyInit(r) PROVE CurlInv'
<1>1. PICK to \in {"transfer", "cleanup"} : Goes(r, "handle", to)
  BY DEF EasyInit
<1>2. /\ users' = IF users = 0 THEN 1 ELSE users
      /\ up' = (up \/ users = 0) /\ seen' = seen /\ alive' = alive /\ alive
  BY <1>1 DEF EasyInit, Goes
<1>3. /\ "handle" \in Places \ Counting /\ to \in Places \ Counting
      /\ "handle" \in Counted /\ to \in Counted /\ "handle" \in Begun
  BY DEF Places, Counting, Counted, Begun
<1>4. up' \in BOOLEAN /\ users' \in Nat
  BY <1>2 DEF CurlInv, CurlTypes
<1>5. CurlTypes'
  BY <1>1, <1>2, <1>3, <1>4, MoveKeepsTypes DEF CurlInv, CurlTypes
<1>6. CASE raced'
  BY <1>2, <1>5, <1>6 DEF CurlInv
<1>7. CASE ~raced'
  <2>1. ~raced /\ pc[r] = "handle" /\ pc' = [pc EXCEPT ![r] = to]
    BY <1>1, <1>3, <1>7, QuietMove DEF CurlInv
  <2>2. Quiet
    BY <2>1 DEF CurlInv
  <2>3. Cardinality(Inside) = 0 <=> Inside = {}
    BY <1>3, <2>1, CountMoves DEF CurlInv, CurlTypes
  <2>4. users # 0
    BY <2>1, <2>2, <2>3 DEF Quiet, Exact, Inside, Counted
  <2>5. up
    BY <1>3, <2>1, <2>2 DEF Quiet, UpWhenBegun
  <2>6. up' = up
    <3>1. up = TRUE
      BY <2>5 DEF CurlInv, CurlTypes
    <3> QED
      BY <1>2, <3>1
  <2>7. UNCHANGED <<users, up, seen, alive>>
    BY <1>2, <2>4, <2>6
  <2> QED
    BY <1>1, <1>3, <2>7, PlainMoveKeepsCurl
<1> QED
  BY <1>6, <1>7

LEMMA CleanupLoadKeepsCurl ==
  ASSUME CurlInv, NEW r \in Requests, CleanupLoad(r) PROVE CurlInv'
<1> DEFINE to == IF users = 0 THEN "print" ELSE "cleanup_store"
<1>1. /\ Goes(r, "cleanup", to) /\ seen' = [seen EXCEPT ![r] = users]
      /\ users' = users /\ up' = up /\ alive' = alive /\ alive
  BY DEF CleanupLoad, Goes
<1>2. "cleanup" \in Places /\ to \in Places
  BY DEF Places, Counting
<1>3. CurlTypes'
  BY <1>1, <1>2, MoveKeepsTypes DEF CurlInv, CurlTypes
<1>4. ASSUME ~raced' PROVE Quiet'
  <2>1. /\ ~raced /\ pc[r] = "cleanup" /\ pc' = [pc EXCEPT ![r] = to]
        /\ pc'[r] = to /\ \A q \in Requests \ {r} : pc'[q] = pc[q]
        /\ \A q \in Requests \ {r} : ~({to, pc[q]} \subseteq Counting)
    BY <1>1, <1>2, <1>4, QuietMove DEF CurlInv
  <2>2. Quiet
    BY <2>1 DEF CurlInv
  <2>3. Cardinality(Inside) = 0 <=> Inside = {}
    BY <1>2, <2>1, CountMoves DEF CurlInv, CurlTypes
  <2>4. users # 0
    BY <2>1, <2>2, <2>3 DEF Quiet, Exact, Inside, Counted
  <2>5. to = "cleanup_store" /\ \A q \in Requests \ {r} : pc[q] \notin Counting
    BY <2>1, <2>4 DEF Counting
  <2>6. Inside' = Inside
    BY <1>2, <2>1, <2>5, CountMoves DEF CurlInv, CurlTypes, Counted
  <2>7. Exact' /\ seen'[r] = users
    BY <1>1, <2>2, <2>6 DEF Quiet, Exact, CurlInv, CurlTypes
  <2>8. Alone'
    BY <1>1, <1>2, <1>4, <2>2, MoveKeepsAlone DEF CurlInv, Quiet
  <2>9. Fresh' /\ UpWhenBegun' /\ NobodyAtTakeDown' /\ DownWhenNobody'
    BY <1>1, <2>1, <2>2, <2>4, <2>5, <2>7
    DEF Quiet, Fresh, UpWhenBegun, NobodyAtTakeDown, DownWhenNobody, Storing,
        Counting, Begun
  <2> QED
    BY <2>7, <2>8, <2>9 DEF Quiet
<1> QED
  BY <1>1, <1>3, <1>4 DEF CurlInv

LEMMA CleanupStoreKeepsCurl ==
  ASSUME CurlInv, NEW r \in Requests, CleanupStore(r), seen[r] # 0
  PROVE  CurlInv'
<1> DEFINE to == IF seen[r] = 1 THEN "take_down" ELSE "print"
<1>1. /\ Goes(r, "cleanup_store", to) /\ users' = seen[r] - 1
      /\ seen' = [seen EXCEPT ![r] = 0]
      /\ up' = up /\ alive' = alive /\ alive
  BY DEF CleanupStore, Goes
<1>2. /\ "cleanup_store" \in Places /\ to \in Places
      /\ seen[r] \in Nat \ {0} /\ seen[r] - 1 \in Nat
  BY DEF Places, Counting, CurlInv, CurlTypes
<1>3. CurlTypes'
  BY <1>1, <1>2, MoveKeepsTypes DEF CurlInv, CurlTypes
<1>4. ASSUME ~raced' PROVE Quiet'
  <2>1. /\ ~raced /\ pc[r] = "cleanup_store" /\ pc' = [pc EXCEPT ![r] = to]
        /\ pc'[r] = to /\ \A q \in Requests \ {r} : pc'[q] = pc[q]
    BY <1>1, <1>2, <1>4, QuietMove DEF CurlInv
  <2>2. Quiet
    BY <2>1 DEF CurlInv
  <2>3. seen[r] = users
    BY <2>1, <2>2 DEF Quiet, Fresh, Storing
  <2>4. \A q \in Requests \ {r} : pc[q] \notin Counting
    BY <2>1, <2>2 DEF Quiet, Alone, Counting
  <2>5. Cardinality(Inside') = Cardinality(Inside) - 1
    BY <1>2, <2>1, CountMoves DEF CurlInv, CurlTypes, Counted
  <2>6. Exact'
    BY <1>1, <2>2, <2>3, <2>5 DEF Quiet, Exact
  <2>7. Alone'
    BY <1>1, <1>2, <1>4, <2>2, MoveKeepsAlone DEF CurlInv, Quiet
  <2>8. Fresh' /\ NobodyAtTakeDown'
    BY <1>1, <1>2, <2>1, <2>4 DEF Fresh, NobodyAtTakeDown, Storing, Counting
  <2>9. UpWhenBegun'
    <3>1. \A q \in Requests : pc'[q] \in Begun => pc[q] \in Begun
      BY <2>1 DEF Begun
    <3> QED
      BY <1>1, <2>2, <3>1 DEF Quiet, UpWhenBegun
  <2>10. DownWhenNobody'
    <3> SUFFICES ASSUME users' = 0 PROVE \E q \in Requests : pc'[q] = "take_down"
      BY DEF DownWhenNobody
    <3> QED
      BY <1>1, <1>2, <2>1
  <2> QED
    BY <2>6, <2>7, <2>8, <2>9, <2>10 DEF Quiet
<1> QED
  BY <1>1, <1>3, <1>4 DEF CurlInv

LEMMA TakeDownKeepsCurl ==
  ASSUME CurlInv, NEW r \in Requests, TakeDown(r) PROVE CurlInv'
<1>1. /\ Goes(r, "take_down", "print") /\ users' = users /\ seen' = seen
      /\ up' = FALSE /\ alive' = alive /\ alive
  BY DEF TakeDown, Goes
<1>2. "take_down" \in Places /\ "print" \in Places
  BY DEF Places, Counting
<1>3. CurlTypes'
  BY <1>1, <1>2, MoveKeepsTypes DEF CurlInv, CurlTypes
<1>4. ASSUME ~raced' PROVE Quiet'
  <2>1. /\ ~raced /\ pc[r] = "take_down" /\ pc' = [pc EXCEPT ![r] = "print"]
        /\ pc'[r] = "print" /\ \A q \in Requests \ {r} : pc'[q] = pc[q]
    BY <1>1, <1>2, <1>4, QuietMove DEF CurlInv
  <2>2. Quiet
    BY <2>1 DEF CurlInv
  <2>3. \A q \in Requests \ {r} : pc[q] \notin Counting
    BY <2>1, <2>2 DEF Quiet, Alone, Counting
  <2>4. /\ Inside' = Inside /\ (Cardinality(Inside) = 0 <=> Inside = {})
    BY <1>2, <2>1, CountMoves DEF CurlInv, CurlTypes, Counted
  <2>5. Exact' /\ users = 0 /\ Inside = {}
    BY <1>1, <2>1, <2>2, <2>4 DEF Quiet, Exact, NobodyAtTakeDown
  <2>6. Alone'
    BY <1>1, <1>2, <1>4, <2>2, MoveKeepsAlone DEF CurlInv, Quiet
  <2>7. UpWhenBegun'
    <3> SUFFICES ASSUME NEW q \in Requests, pc'[q] \in Begun PROVE FALSE
      BY DEF UpWhenBegun
    <3>1. pc[q] \in Counted
      BY <2>1 DEF Begun, Counted
    <3> QED
      BY <2>5, <3>1 DEF Inside
  <2>8. NobodyAtTakeDown' /\ DownWhenNobody'
    BY <1>1, <2>5 DEF NobodyAtTakeDown, DownWhenNobody
  <2>9. Fresh'
    BY <2>1, <2>3 DEF Fresh, Storing, Counting
  <2> QED
    BY <2>5, <2>6, <2>7, <2>8, <2>9 DEF Quiet
<1> QED
  BY <1>1, <1>3, <1>4 DEF CurlInv

\* The steps that leave the counter and those inside it alone.
LEMMA OtherStepsKeepCurl ==
  ASSUME CurlInv, UNCHANGED <<users, up, seen, alive, raced>>,
         pc' \in [Requests -> Places],
         \A r \in Requests :
           pc'[r] = pc[r] \/ {pc[r], pc'[r]} \subseteq {"off", "init", "print", "done"}
  PROVE  CurlInv'
<1>1. CurlTypes'
  BY DEF CurlInv, CurlTypes
<1>2. ASSUME NEW r \in Requests, pc[r] # pc'[r]
      PROVE  {pc[r], pc'[r]} \intersect (Counted \union Counting) = {}
  <2>1. {pc[r], pc'[r]} \subseteq {"off", "init", "print", "done"}
    BY <1>2
  <2> QED
    BY <2>1 DEF Counted, Counting
<1>3. \A r \in Requests : pc[r] \in Counted \union Counting => pc'[r] = pc[r]
  BY <1>2
<1>4. \A r \in Requests : pc'[r] \in Counted \union Counting => pc'[r] = pc[r]
  BY <1>2
<1>5. ASSUME Quiet PROVE Quiet'
  <2>1. Inside' = Inside
    BY <1>3, <1>4 DEF Inside
  <2>2. Exact'
    BY <1>5, <2>1 DEF Quiet, Exact
  <2>3. Alone'
    BY <1>4, <1>5 DEF Quiet, Alone
  <2>4. Fresh' /\ UpWhenBegun' /\ NobodyAtTakeDown'
    BY <1>4, <1>5
    DEF Quiet, Fresh, UpWhenBegun, NobodyAtTakeDown, Storing, Begun, Counted, Counting
  <2>5. DownWhenNobody'
    BY <1>3, <1>5 DEF Quiet, DownWhenNobody, Counting
  <2> QED
    BY <2>2, <2>3, <2>4, <2>5 DEF Quiet
<1> QED
  BY <1>1, <1>5 DEF CurlInv

\* However the threads race, what is decremented was not zero.
Loaded == \A r \in Requests : pc[r] = "cleanup_store" => seen[r] # 0

LEMMA StepKeepsCurl == CurlInv /\ Loaded /\ [Next]_vars => CurlInv'
<1> SUFFICES ASSUME CurlInv, Loaded, [Next]_vars PROVE CurlInv'
  OBVIOUS
<1>1. CASE BuySell \/ GetBalance \/ Snapshot
  <2>1. PICK rs \in SUBSET Requests : Start(rs)
    BY <1>1 DEF BuySell, GetBalance, Snapshot, Requests
  <2>2. PICK w :
          pc' = [r \in Requests |->
                   IF r \notin rs THEN pc[r]
                   ELSE IF Order(w[r], r) = "none" THEN "print" ELSE "init"]
    BY <2>1 DEF Start
  <2>3. \A r \in Requests : \/ pc'[r] = pc[r]
                            \/ pc[r] = "off" /\ pc'[r] \in {"print", "init"}
    BY <2>1, <2>2 DEF Start, Idle
  <2>4. pc' \in [Requests -> Places]
    BY <2>2 DEF CurlInv, CurlTypes, Places
  <2> QED
    BY <2>1, <2>3, <2>4, OtherStepsKeepCurl DEF Start, curlVars
<1>2. CASE Return
  <2>1. pc' \in [Requests -> Places]
    BY <1>2 DEF CurlInv, CurlTypes, Places, Return
  <2>2. \A r \in Requests : pc[r] \in {"off", "done"} /\ pc'[r] = "off"
    BY <1>2 DEF Return
  <2> QED
    BY <1>2, <2>1, <2>2, OtherStepsKeepCurl DEF Return, curlVars
<1>3. ASSUME NEW r \in Requests, ThreadStep(r) PROVE CurlInv'
  <2>1. CASE PrintResult(r)
    BY <2>1, PlainMoveKeepsCurl
    DEF PrintResult, curlVars, Places, Counting, Counted, Begun
  <2>2. CASE CleanupStore(r)
    <3>1. seen[r] # 0
      BY <2>2 DEF Loaded, CleanupStore, Goes
    <3> QED
      BY <2>2, <3>1, CleanupStoreKeepsCurl
  <2> QED
    BY <1>3, <2>1, <2>2, InitLoadKeepsCurl, InitStoreKeepsCurl, BringUpKeepsCurl,
       EasyInitKeepsCurl, CleanupLoadKeepsCurl, TakeDownKeepsCurl DEF ThreadStep
<1>4. ASSUME NEW r \in Requests, Network(r) PROVE CurlInv'
  <2>1. CASE VenueDecides(r)
    BY <2>1, OtherStepsKeepCurl DEF VenueDecides, curlVars, CurlInv, CurlTypes
  <2>2. CASE Answered(r) \/ TransferFails(r) \/ QueryEnds(r)
    <3>1. Goes(r, "transfer", "cleanup") /\ UNCHANGED <<users, up, seen, alive>>
      BY <2>2 DEF Answered, TransferFails, QueryEnds, curlVars
    <3> QED
      BY <3>1, PlainMoveKeepsCurl DEF Places, Counting, Counted, Begun
  <2> QED
    BY <1>4, <2>1, <2>2 DEF Network
<1>5. ASSUME NEW r \in Requests, Dies(r) PROVE CurlInv'
  <2>1. /\ pc[r] = "transfer" /\ ~up /\ alive' = FALSE
        /\ UNCHANGED <<pc, users, up, seen, raced>>
    BY <1>5 DEF Dies, curlVars
  <2>2. raced
    BY <2>1 DEF CurlInv, Quiet, UpWhenBegun, Begun
  <2> QED
    BY <2>1, <2>2 DEF CurlInv, CurlTypes
<1>6. CASE UNCHANGED vars
  BY <1>6, OtherStepsKeepCurl DEF vars, curlVars, CurlInv, CurlTypes
<1> QED
  BY <1>1, <1>2, <1>3, <1>4, <1>5, <1>6 DEF Next

LEMMA StepKeepsLoaded == CurlInv /\ Loaded /\ [Next]_vars => Loaded'
<1> SUFFICES ASSUME CurlInv, Loaded, [Next]_vars PROVE Loaded'
  OBVIOUS
<1> USE DEF CurlInv, CurlTypes
<1>1. CASE UNCHANGED seen /\ \A r \in Requests : pc'[r] # pc[r] => pc'[r] # "cleanup_store"
  BY <1>1 DEF Loaded
<1>2. CASE BuySell \/ GetBalance \/ Snapshot
  <2>1. PICK rs \in SUBSET Requests : Start(rs)
    BY <1>2 DEF BuySell, GetBalance, Snapshot, Requests
  <2>2. PICK w :
          pc' = [r \in Requests |->
                   IF r \notin rs THEN pc[r]
                   ELSE IF Order(w[r], r) = "none" THEN "print" ELSE "init"]
    BY <2>1 DEF Start
  <2> QED
    BY <1>1, <2>1, <2>2 DEF Start, curlVars
<1>3. CASE Return
  BY <1>1, <1>3 DEF Return, curlVars
<1>4. ASSUME NEW r \in Requests, CleanupLoad(r) PROVE Loaded'
  <2>1. /\ pc' = [pc EXCEPT ![r] = IF users = 0 THEN "print" ELSE "cleanup_store"]
        /\ seen' = [seen EXCEPT ![r] = users]
    BY <1>4 DEF CleanupLoad, Goes
  <2>2. users = 0 => pc'[r] # "cleanup_store"
    BY <2>1
  <2> QED
    BY <2>1, <2>2 DEF Loaded
<1>5. ASSUME NEW r \in Requests, InitLoad(r) \/ InitStore(r) \/ CleanupStore(r)
      PROVE  Loaded'
  <2>1. PICK to \in {"init_store", "bring_up", "handle", "take_down", "print"},
             n \in Nat : pc' = [pc EXCEPT ![r] = to] /\ seen' = [seen EXCEPT ![r] = n]
    BY <1>5 DEF InitLoad, InitStore, CleanupStore, Goes
  <2> QED
    BY <2>1 DEF Loaded
<1>6. ASSUME NEW r \in Requests,
             BringUp(r) \/ EasyInit(r) \/ TakeDown(r) \/ PrintResult(r) \/ Network(r)
      PROVE  Loaded'
  BY <1>1, <1>6
  DEF BringUp, EasyInit, TakeDown, PrintResult, Network, VenueDecides, Answered,
      TransferFails, QueryEnds, Goes, curlVars
<1>7. ASSUME NEW r \in Requests, Dies(r) PROVE Loaded'
  BY <1>1, <1>7 DEF Dies, curlVars
<1>8. CASE UNCHANGED vars
  BY <1>1, <1>8 DEF vars, curlVars
<1> QED
  BY <1>2, <1>3, <1>4, <1>5, <1>6, <1>7, <1>8 DEF Next, ThreadStep

LEMMA CurlInvInitially == Init => CurlInv /\ Loaded
<1> SUFFICES ASSUME Init PROVE CurlInv /\ Loaded
  OBVIOUS
<1>1. CurlTypes /\ Loaded
  BY DEF Init, CurlTypes, Loaded, Places
<1>2. Inside = {}
  BY DEF Init, Inside, Counted, Counting
<1>3. Exact
  BY <1>2, FS_EmptySet DEF Init, Exact
<1>4. /\ Alone /\ Fresh /\ UpWhenBegun
      /\ NobodyAtTakeDown /\ DownWhenNobody
  BY DEF Init, Alone, Fresh, UpWhenBegun, NobodyAtTakeDown, DownWhenNobody,
         Counting, Storing, Begun
<1>5. alive
  BY DEF Init
<1> QED
  BY <1>1, <1>3, <1>4, <1>5 DEF CurlInv, Quiet

LEMMA CurlInvAlways == Spec => [](CurlInv /\ Loaded)
<1>1. Init => CurlInv /\ Loaded
  BY CurlInvInitially
<1>2. (CurlInv /\ Loaded) /\ [Next]_vars => (CurlInv /\ Loaded)'
  BY StepKeepsCurl, StepKeepsLoaded
<1> QED
  BY <1>1, <1>2, PTL DEF Spec

\* As long as no two threads met inside it, the counter is the number of the
\* requests that rely on the library, and says when it is down.
THEOREM CounterIsAlwaysUsers == Spec => []CounterIsUsers
<1>1. CurlInv => CounterIsUsers
  BY DEF CurlInv, Quiet, Exact, Inside, DownWhenNobody, CounterIsUsers
<1> QED
  BY <1>1, CurlInvAlways, PTL

\* A transfer finds the library up, and the process lives, unless two threads
\* met inside the counter.
THEOREM LibraryIsUpDuringTransfer == Spec => []LibraryUpDuringTransfer
<1>1. CurlInv => LibraryUpDuringTransfer
  BY DEF CurlInv, Quiet, UpWhenBegun, Begun, LibraryUpDuringTransfer
<1> QED
  BY <1>1, CurlInvAlways, PTL

-----------------------------------------------------------------------------
\* The bound of the counter.  A request that has not counted itself yet may
\* store one more than what is there, or than what it has loaded; so what keeps
\* through every race is the bound on the count and the requests still to come.

Uncounted == {"init", "init_store"}
Coming == {r \in Requests : pc[r] \in Uncounted}
Active == {r \in Requests : pc[r] # "off"}

BoundInv ==
  /\ calls \in 0 .. MaxCalls
  /\ Cardinality(Active) <= 2 * calls
  /\ users + Cardinality(Coming) <= 2 * calls
  /\ \A r \in Requests : seen[r] + Cardinality(Coming) <= 2 * calls

LEMMA Counts ==
  ASSUME NEW S, NEW T, T \subseteq Requests, S \subseteq T
  PROVE  /\ IsFiniteSet(T) /\ Cardinality(S) \in Nat /\ Cardinality(T) \in Nat
         /\ Cardinality(S) <= Cardinality(T)
         /\ \A r \in T \ S : Cardinality(S) + 1 <= Cardinality(T)
<1>1. IsFiniteSet(T) /\ IsFiniteSet(S)
  BY RequestsAreFinite, FS_Subset
<1>2. Cardinality(S) \in Nat /\ Cardinality(T) \in Nat /\ Cardinality(S) <= Cardinality(T)
  BY <1>1, FS_CardinalityType, FS_Subset
<1>3. ASSUME NEW r \in T \ S PROVE Cardinality(S) + 1 <= Cardinality(T)
  <2>1. PICK U : U = S \union {r}
    OBVIOUS
  <2>2. IsFiniteSet(U) /\ Cardinality(U) = Cardinality(S) + 1
    BY <1>1, <2>1, FS_AddElement
  <2>3. U \subseteq T
    BY <2>1
  <2> QED
    BY <1>1, <2>2, <2>3, FS_Subset
<1> QED
  BY <1>1, <1>2, <1>3

LEMMA CountsOfRequests ==
  /\ Cardinality(Active) \in Nat /\ Cardinality(Coming) \in Nat
  /\ Cardinality(Coming) <= Cardinality(Active)
<1>1. Coming \subseteq Active /\ Active \subseteq Requests
  BY DEF Coming, Active, Uncounted
<1> QED
  BY <1>1, Counts

\* A move between two places of the same kind.
LEMMA MoveKeepsCounts ==
  ASSUME CurlTypes, NEW r \in Requests, NEW from \in Places, NEW to \in Places,
         Goes(r, from, to), from # "off", to # "off",
         from \in Uncounted <=> to \in Uncounted
  PROVE  Active' = Active /\ Coming' = Coming
<1>1. /\ pc'[r] = to /\ pc[r] = from /\ \A q \in Requests \ {r} : pc'[q] = pc[q]
  BY DEF Goes, CurlTypes
<1> QED
  BY <1>1 DEF Active, Coming

LEMMA InitStoreKeepsBound ==
  ASSUME CurlTypes, BoundInv, NEW r \in Requests, InitStore(r)
  PROVE  BoundInv'
<1>1. /\ users' = seen[r] + 1 /\ seen' = [seen EXCEPT ![r] = 0] /\ calls' = calls
  BY DEF InitStore
<1>2. /\ pc[r] = "init_store" /\ pc'[r] \in {"bring_up", "handle"}
      /\ \A q \in Requests \ {r} : pc'[q] = pc[q]
  BY DEF InitStore, Goes, CurlTypes
<1>3. Active' = Active
  BY <1>2 DEF Active
<1>4. Coming' = Coming \ {r} /\ r \in Coming
  BY <1>2 DEF Coming, Uncounted
<1>5. /\ Cardinality(Coming) \in Nat /\ Cardinality(Coming') \in Nat
      /\ Cardinality(Coming') + 1 <= Cardinality(Coming)
  <2>1. PICK S, T : S = Coming' /\ T = Coming
    OBVIOUS
  <2>2. S \subseteq T /\ T \subseteq Requests /\ r \in T \ S
    BY <1>4, <2>1 DEF Coming
  <2>3. /\ Cardinality(S) \in Nat /\ Cardinality(T) \in Nat
        /\ Cardinality(S) + 1 <= Cardinality(T)
    BY <2>2, Counts
  <2> QED
    BY <2>1, <2>3
<1>6. \A q \in Requests : seen[q] \in Nat /\ seen'[q] \in Nat /\ seen'[q] <= seen[q]
  BY <1>1 DEF CurlTypes
<1>7. calls \in Nat /\ seen[r] + Cardinality(Coming) <= 2 * calls
  BY CallsAssumption DEF BoundInv
<1>8. users' + Cardinality(Coming') <= 2 * calls
  BY <1>1, <1>5, <1>6, <1>7
<1>9. ASSUME NEW q \in Requests PROVE seen'[q] + Cardinality(Coming') <= 2 * calls
  <2>1. seen[q] + Cardinality(Coming) <= 2 * calls
    BY DEF BoundInv
  <2> QED
    BY <1>5, <1>6, <1>7, <2>1
<1> QED
  BY <1>1, <1>3, <1>8, <1>9 DEF BoundInv

LEMMA EasyInitKeepsBound ==
  ASSUME CurlTypes, BoundInv, NEW r \in Requests, EasyInit(r)
  PROVE  BoundInv'
<1>1. PICK to \in {"transfer", "cleanup"} : Goes(r, "handle", to)
  BY DEF EasyInit
<1>2. /\ users' = IF users = 0 THEN 1 ELSE users
      /\ seen' = seen /\ calls' = calls
  BY DEF EasyInit
<1>3. Active' = Active /\ Coming' = Coming
  BY <1>1, MoveKeepsCounts DEF Places, Counting, Uncounted
<1>4. 1 + Cardinality(Coming) <= 2 * calls
  <2>1. r \in Active \ Coming
    BY <1>1 DEF Goes, Active, Coming, Uncounted
  <2>2. Coming \subseteq Active /\ Active \subseteq Requests
    BY DEF Coming, Active, Uncounted
  <2>3. /\ Cardinality(Coming) + 1 <= Cardinality(Active)
        /\ Cardinality(Coming) \in Nat /\ Cardinality(Active) \in Nat
    BY <2>1, <2>2, Counts
  <2>4. Cardinality(Active) <= 2 * calls /\ calls \in Nat
    BY CallsAssumption DEF BoundInv
  <2> QED
    BY <2>3, <2>4
<1> QED
  BY <1>2, <1>3, <1>4 DEF BoundInv

\* The other steps of a request store nothing larger than what there is.
LEMMA OtherMovesKeepBound ==
  ASSUME CurlTypes, BoundInv, NEW r \in Requests, NEW from \in Places,
         NEW to \in Places, Goes(r, from, to), from # "off", to # "off",
         from \in Uncounted <=> to \in Uncounted, calls' = calls,
         users' \in Nat, users' <= users \/ users' <= seen[r],
         seen' = seen \/ (\E n \in {0, users} : seen' = [seen EXCEPT ![r] = n])
  PROVE  BoundInv'
<1>1. Active' = Active /\ Coming' = Coming
  BY MoveKeepsCounts
<1>2. users \in Nat /\ seen[r] \in Nat /\ calls \in Nat /\ Cardinality(Coming) \in Nat
  BY CountsOfRequests, CallsAssumption DEF CurlTypes, BoundInv
<1>3. /\ users + Cardinality(Coming) <= 2 * calls
      /\ seen[r] + Cardinality(Coming) <= 2 * calls
  BY DEF BoundInv
<1>4. users' + Cardinality(Coming) <= 2 * calls
  BY <1>2, <1>3
<1>5. ASSUME NEW q \in Requests PROVE seen'[q] + Cardinality(Coming) <= 2 * calls
  <2>1. seen'[q] \in {seen[q], 0, users}
    BY DEF CurlTypes
  <2>2. seen[q] + Cardinality(Coming) <= 2 * calls
    BY DEF BoundInv
  <2> QED
    BY <1>2, <1>3, <2>1, <2>2
<1> QED
  BY <1>1, <1>4, <1>5 DEF BoundInv

\* A call adds two requests at most.
LEMMA StartKeepsBound ==
  ASSUME CurlTypes, BoundInv, NEW rs \in SUBSET Requests, Start(rs),
         Cardinality(rs) <= 2
  PROVE  BoundInv'
<1>1. PICK w :
        pc' = [r \in Requests |->
                 IF r \notin rs THEN pc[r]
                 ELSE IF Order(w[r], r) = "none" THEN "print" ELSE "init"]
  BY DEF Start
<1>2. /\ \A r \in rs : pc[r] = "off"
      /\ calls < MaxCalls /\ calls' = calls + 1 /\ users' = users /\ seen' = seen
  BY DEF Start, Idle, curlVars
<1>3. calls \in Nat /\ calls' \in 0 .. MaxCalls
  BY <1>2, CallsAssumption DEF BoundInv
<1>4. /\ IsFiniteSet(rs) /\ Cardinality(rs) \in Nat
      /\ IsFiniteSet(Active) /\ IsFiniteSet(Coming)
      /\ Cardinality(Active) \in Nat /\ Cardinality(Coming) \in Nat
      /\ Active \subseteq Requests /\ Coming \subseteq Requests
  BY RequestsAreFinite, FS_Subset, FS_CardinalityType DEF Active, Coming
<1>5. Active' \subseteq Active \union rs /\ Coming' \subseteq Coming \union rs
  BY <1>1 DEF Active, Coming
<1>6. ASSUME NEW S, NEW T, S \subseteq T \union rs, T \subseteq Requests,
             IsFiniteSet(T), Cardinality(T) \in Nat
      PROVE  Cardinality(S) \in Nat /\ Cardinality(S) <= Cardinality(T) + 2
  <2>1. IsFiniteSet(T \union rs) /\ T \union rs \subseteq Requests
    BY <1>4, <1>6, FS_Union
  <2>2. Cardinality(S) \in Nat /\ Cardinality(S) <= Cardinality(T \union rs)
    BY <1>6, <2>1, Counts
  <2>3. Cardinality(T \union rs)
          = Cardinality(T) + Cardinality(rs) - Cardinality(T \intersect rs)
    BY <1>4, <1>6, FS_Union
  <2>4. Cardinality(T \intersect rs) \in Nat
    BY <1>4, <1>6, FS_Subset, FS_CardinalityType
  <2> QED
    BY <1>4, <1>6, <2>2, <2>3, <2>4
<1>7. /\ Cardinality(Active') \in Nat /\ Cardinality(Coming') \in Nat
      /\ Cardinality(Active') <= Cardinality(Active) + 2
      /\ Cardinality(Coming') <= Cardinality(Coming) + 2
  <2>1. PICK a, c : a = Active' /\ c = Coming'
    OBVIOUS
  <2> QED
    BY <1>4, <1>5, <1>6, <2>1
<1>8. Cardinality(Active') <= 2 * calls'
  BY <1>2, <1>3, <1>4, <1>7 DEF BoundInv
<1>9. users' + Cardinality(Coming') <= 2 * calls'
  BY <1>2, <1>3, <1>4, <1>7 DEF BoundInv, CurlTypes
<1>10. ASSUME NEW r \in Requests PROVE seen'[r] + Cardinality(Coming') <= 2 * calls'
  <2>1. seen[r] \in Nat /\ seen[r] + Cardinality(Coming) <= 2 * calls
    BY DEF BoundInv, CurlTypes
  <2> QED
    BY <1>2, <1>3, <1>4, <1>7, <2>1
<1> QED
  BY <1>3, <1>8, <1>9, <1>10 DEF BoundInv

LEMMA StepKeepsBound ==
  CurlInv /\ Loaded /\ BoundInv /\ [Next]_vars => BoundInv'
<1> SUFFICES ASSUME CurlInv, Loaded, BoundInv, [Next]_vars PROVE BoundInv'
  OBVIOUS
<1>1. CurlTypes
  BY DEF CurlInv
<1>2. CASE BuySell \/ GetBalance \/ Snapshot
  <2>1. PICK q \in Requests, r \in Requests : Start({q, r})
    <3>1. /\ Legs = {"buy", "sell"} /\ {"balance"} = {"balance", "balance"}
          /\ {"snapshot"} = {"snapshot", "snapshot"}
      BY DEF Legs
    <3> QED
      BY <1>2, <3>1 DEF BuySell, GetBalance, Snapshot, Requests
  <2>2. Cardinality({q, r}) <= 2
    <3>1. IsFiniteSet({}) /\ Cardinality({}) = 0
      BY FS_EmptySet
    <3>2. IsFiniteSet({q}) /\ Cardinality({q}) = 1
      BY FS_Singleton
    <3>3. {q, r} = {q} \union {r}
      OBVIOUS
    <3>4. Cardinality({q} \union {r}) \in {1, 2}
      BY <3>2, FS_AddElement
    <3> QED
      BY <3>3, <3>4
  <2> QED
    BY <1>1, <2>1, <2>2, StartKeepsBound
<1>3. CASE Return
  <2>1. \A r \in Requests : pc[r] \in {"off", "done"} /\ pc'[r] = "off"
    BY <1>3 DEF Return
  <2>2. /\ Active' \subseteq Active /\ Coming' = Coming
        /\ UNCHANGED <<calls, users, seen>>
    BY <1>3, <2>1 DEF Return, Active, Coming, Uncounted, curlVars
  <2>3. Cardinality(Active') <= Cardinality(Active) /\ Cardinality(Active') \in Nat
    <3>1. PICK S, T : S = Active' /\ T = Active
      OBVIOUS
    <3>2. S \subseteq T /\ T \subseteq Requests
      BY <2>2, <3>1 DEF Active
    <3> QED
      BY <3>1, <3>2, Counts
  <2>4. Cardinality(Active') <= 2 * calls
    BY <2>3, CountsOfRequests, CallsAssumption DEF BoundInv
  <2> QED
    BY <2>2, <2>4 DEF BoundInv
<1>4. ASSUME NEW r \in Requests, ThreadStep(r) PROVE BoundInv'
  <2> USE DEF Places, Counting, Uncounted
  <2>1. users \in Nat /\ seen[r] \in Nat
    BY <1>1 DEF CurlTypes
  <2>2. CASE InitLoad(r)
    <3>1. /\ Goes(r, "init", "init_store") /\ calls' = calls /\ users' = users
          /\ seen' = [seen EXCEPT ![r] = users]
      BY <2>2 DEF InitLoad
    <3>2. /\ {"init", "init_store"} \subseteq Places \ {"off"}
          /\ {"init", "init_store"} \subseteq Uncounted
      OBVIOUS
    <3>3. /\ users' \in Nat /\ users' <= users
          /\ \E n \in {0, users} : seen' = [seen EXCEPT ![r] = n]
      BY <2>1, <3>1
    <3> QED
      BY <1>1, <3>1, <3>2, <3>3, OtherMovesKeepBound
  <2>3. CASE BringUp(r) \/ TakeDown(r) \/ PrintResult(r)
    <3>1. PICK from \in {"bring_up", "take_down", "print"}, to \in {"handle", "print", "done"} :
            Goes(r, from, to)
      BY <2>3 DEF BringUp, TakeDown, PrintResult
    <3>2. UNCHANGED <<calls, users, seen>>
      BY <2>3 DEF BringUp, TakeDown, PrintResult, curlVars
    <3>3. /\ from \in Places /\ to \in Places /\ from # "off" /\ to # "off"
          /\ from \notin Uncounted /\ to \notin Uncounted
      BY <3>1
    <3> QED
      BY <1>1, <2>1, <3>1, <3>2, <3>3, OtherMovesKeepBound
  <2>4. CASE CleanupLoad(r)
    <3>1. PICK to \in {"print", "cleanup_store"} : Goes(r, "cleanup", to)
      BY <2>4 DEF CleanupLoad
    <3>2. /\ users' = users /\ calls' = calls
          /\ \E n \in {0, users} : seen' = [seen EXCEPT ![r] = n]
      BY <2>4 DEF CleanupLoad
    <3>3. /\ to \in Places /\ to # "off" /\ to \notin Uncounted
          /\ "cleanup" \in Places \ Uncounted
      BY <3>1
    <3>4. users' \in Nat /\ users' <= users
      BY <2>1, <3>2
    <3> QED
      BY <1>1, <3>1, <3>2, <3>3, <3>4, OtherMovesKeepBound
  <2>5. CASE CleanupStore(r)
    <3>1. PICK to \in {"print", "take_down"} : Goes(r, "cleanup_store", to)
      BY <2>5 DEF CleanupStore
    <3>2. /\ users' = seen[r] - 1 /\ seen' = [seen EXCEPT ![r] = 0] /\ calls' = calls
      BY <2>5 DEF CleanupStore
    <3>3. seen[r] # 0
      <4>1. pc[r] = "cleanup_store"
        BY <3>1 DEF Goes
      <4> QED
        BY <4>1 DEF Loaded
    <3>4. /\ users' \in Nat /\ users' <= seen[r]
          /\ \E n \in {0, users} : seen' = [seen EXCEPT ![r] = n]
      BY <2>1, <3>2, <3>3
    <3>5. /\ to \in Places /\ to # "off" /\ to \notin Uncounted
          /\ "cleanup_store" \in Places \ Uncounted
      BY <3>1
    <3> QED
      BY <1>1, <3>1, <3>2, <3>4, <3>5, OtherMovesKeepBound
  <2> QED
    BY <1>1, <1>4, <2>2, <2>3, <2>4, <2>5, InitStoreKeepsBound, EasyInitKeepsBound
    DEF ThreadStep
<1>5. ASSUME NEW r \in Requests, Network(r) \/ Dies(r) PROVE BoundInv'
  <2>1. CASE VenueDecides(r) \/ Dies(r)
    BY <2>1 DEF VenueDecides, Dies, curlVars, BoundInv, Active, Coming
  <2>2. CASE Answered(r) \/ TransferFails(r) \/ QueryEnds(r)
    <3>1. Goes(r, "transfer", "cleanup") /\ UNCHANGED <<calls, users, seen>>
      BY <2>2 DEF Answered, TransferFails, QueryEnds, curlVars
    <3>2. users \in Nat
      BY <1>1 DEF CurlTypes
    <3> QED
      BY <1>1, <3>1, <3>2, OtherMovesKeepBound DEF Places, Counting, Uncounted
  <2> QED
    BY <1>5, <2>1, <2>2 DEF Network
<1>6. CASE UNCHANGED vars
  BY <1>6 DEF vars, curlVars, BoundInv, Active, Coming
<1> QED
  BY <1>2, <1>3, <1>4, <1>5, <1>6 DEF Next

\* Every variable of OrderGateway keeps its type; the counter of the library
\* never wraps below zero and stays within twice the number of calls, for any
\* number of them and however the threads race (https_post, https_get).
THEOREM TypeCorrect == Spec => []TypeOK
<1>1. Init => BoundInv
  <2> SUFFICES ASSUME Init PROVE BoundInv
    OBVIOUS
  <2>1. Active = {} /\ Coming = {} /\ calls = 0 /\ users = 0
    BY DEF Init, Active, Coming, Uncounted
  <2>2. \A r \in Requests : seen[r] = 0
    BY DEF Init
  <2> QED
    BY <2>1, <2>2, FS_EmptySet, CallsAssumption DEF BoundInv
<1>2. CurlInv /\ Loaded /\ BoundInv /\ [Next]_vars => BoundInv'
  BY StepKeepsBound
<1>3. OrderInv /\ CurlInv /\ BoundInv => TypeOK
  <2> SUFFICES ASSUME OrderInv, CurlTypes, BoundInv PROVE TypeOK
    BY DEF CurlInv
  <2>1. Cardinality(Coming) \in Nat /\ calls \in Nat /\ calls <= MaxCalls
    BY CountsOfRequests, CallsAssumption DEF BoundInv
  <2>2. users \in 0 .. 2 * MaxCalls
    BY <2>1, CallsAssumption DEF BoundInv, CurlTypes
  <2>3. ASSUME NEW r \in Requests PROVE seen[r] \in 0 .. 2 * MaxCalls
    <3>1. seen[r] \in Nat /\ seen[r] + Cardinality(Coming) <= 2 * calls
      BY DEF BoundInv, CurlTypes
    <3> QED
      BY <2>1, <3>1, CallsAssumption
  <2>4. seen \in [Requests -> 0 .. 2 * MaxCalls]
    BY <2>3 DEF CurlTypes
  <2>5. \A l \in Legs : deals[l] \in Seq(Legs)
    BY DEF OrderInv, Types
  <2>6. calls \in 0 .. MaxCalls
    BY DEF BoundInv
  <2> QED
    BY <2>2, <2>4, <2>5, <2>6 DEF OrderInv, Types, CurlTypes, TypeOK
<1> QED
  BY <1>1, <1>2, <1>3, CurlInvAlways, OrderInvAlways, PTL DEF Spec
=============================================================================
