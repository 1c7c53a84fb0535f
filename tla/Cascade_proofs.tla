--------------------------- MODULE Cascade_proofs ---------------------------
(***************************************************************************)
(* Lemmas about the cascade, for every tick size, fee, width of the        *)
(* quantity, capacity and price, used wherever the cascade runs: an        *)
(* inductive invariant of the handlers, and the handlers as steps of the   *)
(* account.                                                                *)
(***************************************************************************)
EXTENDS Cascade, SequenceTheorems, TLAPS

-----------------------------------------------------------------------------
(* Arithmetic *)

\* A product grows with its factors.
LEMMA ProductMonotone ==
  ASSUME NEW a \in Nat, NEW b \in Nat, NEW c \in Nat, a <= b
  PROVE  a * c <= b * c
OBVIOUS

\* A product of naturals is a natural.
LEMMA ProductNat ==
  ASSUME NEW a \in Nat, NEW b \in Nat
  PROVE  a * b \in Nat
OBVIOUS

\* Division rounds down.
LEMMA QuotientBound ==
  ASSUME NEW a \in Nat, NEW b \in Nat \ {0}
  PROVE  /\ a \div b \in Nat
         /\ (a \div b) * b <= a
OBVIOUS

\* A part of the shares takes a part of their cost.
LEMMA PartOfCost ==
  ASSUME NEW basis \in Nat, NEW qty \in Nat, NEW shares \in Nat \ {0}, qty <= shares
  PROVE  (basis * qty) \div shares \in 0 .. basis
<1> DEFINE sold == (basis * qty) \div shares
<1>1. sold \in Nat /\ sold * shares <= basis * qty
  BY QuotientBound, ProductNat
<1>2. basis * qty <= basis * shares
  OBVIOUS
<1>3. ASSUME sold > basis PROVE FALSE
  <2>1. (basis + 1) * shares <= sold * shares
    BY <1>1, <1>3, ProductMonotone, SMT
  <2>2. (basis + 1) * shares = basis * shares + shares
    OBVIOUS
  <2> QED
    BY <1>1, <1>2, <2>1, <2>2, ProductNat, SMT
<1> QED
  BY <1>1, <1>3, SMT

-----------------------------------------------------------------------------
(* The operators of Trading *)

\* A cast to uint32_t never yields more than it was given.
LEMMA CastsBound ==
  ASSUME NEW x \in Nat, NEW y \in Casts(x)
  PROVE  y \in 0 .. U32 - 1 /\ y <= x
<1>1. U32 \in Nat \ {0}
  BY TradingAssumption
<1>2. x % U32 \in 0 .. U32 - 1
  BY <1>1, SMT
<1> QED
  BY <1>1, <1>2, SMT DEF Casts

\* A LONG signal orders no more than the cash covers at the close.
LEMMA LongQuantitiesCovered ==
  ASSUME NEW c \in Int, NEW n \in Nat, NEW close \in Int, close > 0,
         NEW qty \in LongQuantities(c, n, close)
  PROVE  /\ qty \in 0 .. U32 - 1
         /\ qty > 0 => Worth(qty, close) <= c
<1> DEFINE unit == close * Scale
<1>1. unit \in Nat \ {0} /\ Scale \in Nat \ {0} /\ U32 \in Nat \ {0}
  BY TradingAssumption, SMT
<1>2. Worth(1, close) = unit /\ Worth(n, close) \in Int /\ Worth(qty, close) = qty * unit
  BY <1>1, SMT DEF Worth
<1>3. c + Worth(n, close) - Worth(n, close) = c
  BY <1>2, SMT
<1> HIDE DEF unit
<1>4. CASE ~ (c > unit)
  BY <1>1, <1>2, <1>3, <1>4, SMT DEF LongQuantities
<1>5. CASE c > unit
  <2>1. PICK q \in Casts(c \div unit), a \in Casts(c \div unit) : qty = Lesser(q, a)
    BY <1>1, <1>2, <1>3, <1>5, SMT DEF LongQuantities
  <2>2. c \in Nat /\ c \div unit \in Nat /\ (c \div unit) * unit <= c
    BY <1>1, <1>5, QuotientBound, SMT
  <2>3. qty \in 0 .. U32 - 1 /\ qty <= c \div unit
    BY <1>1, <2>1, <2>2, CastsBound, SMT DEF Lesser
  <2>4. qty * unit <= (c \div unit) * unit
    BY <1>1, <2>2, <2>3, ProductMonotone, SMT
  <2> QED
    BY <1>1, <1>2, <2>2, <2>3, <2>4, ProductNat, SMT
<1> QED
  BY <1>4, <1>5

\* An EXIT signal orders no more than the shares held.
LEMMA ExitQuantitiesHeld ==
  ASSUME NEW n \in Nat, NEW qty \in ExitQuantities(n)
  PROVE  qty \in 0 .. U32 - 1 /\ qty <= n
BY CastsBound, TradingAssumption, SMT DEF ExitQuantities

\* Fill prices and commissions are naturals.
LEMMA PricesAndFees ==
  ASSUME NEW close \in Int, close > 0, NEW d \in Direction, NEW qty \in Quantity
  PROVE  /\ FillPrice(d, close) \in Nat
         /\ Commission(qty) \in Nat
<1>1. Scale \in Nat \ {0} /\ Slip \in Nat /\ Slip <= Scale /\ PerShare \in Nat /\ MinCommission \in Nat
  BY TradingAssumption, SMT
<1>2. close \in Nat /\ Scale + Slip \in Nat /\ Scale - Slip \in Nat
  BY <1>1, SMT
<1>3. qty \in Nat /\ qty * PerShare \in Nat
  BY <1>1, TradingAssumption, ProductNat, SMT DEF Quantity
<1>4. close * (Scale + Slip) \in Nat /\ close * (Scale - Slip) \in Nat
  BY <1>2, ProductNat
<1> QED
  BY <1>1, <1>3, <1>4 DEF FillPrice, Commission, Direction

-----------------------------------------------------------------------------
(* Short sequences *)

\* The queue without an event.
LEMMA NoEvent ==
  /\ <<>> \in Seq(Event)
  /\ Len(<<>>) = 0
OBVIOUS

\* The queue with one event.
LEMMA OneEvent ==
  ASSUME NEW e \in Event
  PROVE  /\ <<e>> \in Seq(Event) /\ Len(<<e>>) = 1 /\ <<e>>[1] = e
         /\ <<e>> # <<>> /\ Head(<<e>>) = e
<1>1. <<e>> \in Seq(Event) /\ Len(<<e>>) = 1 /\ <<e>>[1] = e
  OBVIOUS
<1>2. Len(<<>>) = 0
  OBVIOUS
<1>3. <<e>> # <<>>
  BY <1>1, <1>2, SMT
<1> QED
  BY <1>1, <1>3

\* A nonempty sequence of at most one event is its head and nothing else.
LEMMA ShortQueue ==
  ASSUME NEW s \in Seq(Event), s # <<>>, Len(s) <= 1
  PROVE  /\ Len(s) = 1 /\ Head(s) = s[1] /\ s[1] \in Event
         /\ Tail(s) = <<>>
<1>1. Len(s) \in Nat \ {0}
  BY EmptySeq
<1> DEFINE n == Len(s)
<1>2. n = 1
  <2>1. n \in Nat \ {0} /\ n <= 1
    BY <1>1
  <2> HIDE DEF n
  <2> QED
    BY <2>1, SMT
<1>3. Tail(s) \in Seq(Event) /\ Len(Tail(s)) = 0
  BY <1>2, HeadTailProperties, SMT
<1>4. Tail(s) = <<>>
  BY <1>3, EmptySeq, Zenon
<1>5. Head(s) = s[1] /\ s[1] \in Event
  BY <1>2, SMT
<1> QED
  BY <1>2, <1>4, <1>5

-----------------------------------------------------------------------------
(* The inductive invariant *)

\* What a handler relies on: besides the invariants of Cascade, that a fill in
\* the queue carries the commission of its quantity.
EngineInv ==
    /\ EngineTypeOK
    /\ OneInFlight
    /\ InFlightCovered
    /\ LedgerBalances
    /\ \A i \in 1 .. Len(queue) :
         queue[i].kind = "fill" => queue[i].commission = Commission(queue[i].quantity)

\* Of a queue with one event, the events of each kind are records of that kind.
LEMMA HeadOfQueue ==
  ASSUME EngineInv, queue # <<>>
  PROVE  /\ Len(queue) = 1 /\ Head(queue) = queue[1] /\ Tail(queue) = <<>>
         /\ Head(queue) \in Event
         /\ Head(queue).kind = "market" => Head(queue).close \in Closes
         /\ Head(queue).kind = "signal" => Head(queue).direction \in Direction
         /\ Head(queue).kind \in {"order", "fill"} =>
              Head(queue).direction \in Direction /\ Head(queue).quantity \in Quantity
         /\ Head(queue).kind = "fill" =>
              Head(queue).fill_price \in Nat /\ Head(queue).commission \in Nat
<1>1. queue \in Seq(Event) /\ Len(queue) <= 1
  BY DEF EngineInv, EngineTypeOK, OneInFlight
<1>2. /\ Len(queue) = 1 /\ Head(queue) = queue[1] /\ Tail(queue) = <<>>
      /\ Head(queue) \in Event
  BY <1>1, ShortQueue
<1> QED
  BY <1>2 DEF Event

\* A handler that answers with at most one event leaves that in the queue and
\* does not throw.
LEMMA AnswersFit ==
  ASSUME EngineInv, queue # <<>>, NEW out \in Seq(Event), Len(out) <= 1, Answers(out)
  PROVE  queue' = out /\ thrown' = FALSE
<1>1. Tail(queue) \o out = out
  BY HeadOfQueue, ConcatEmptySeq
<1>2. Len(out) <= Capacity
  BY CascadeAssumption, SMT
<1> QED
  BY <1>1, <1>2 DEF Answers, Enqueue

\* The types of the state after a step that leaves at most one event queued.
LEMMA TypedAfter ==
  ASSUME queue' \in Seq(Event), Len(queue') <= 1, thrown' = FALSE, inPosition' \in BOOLEAN,
         latestClose' \in Closes \cup {0}, cash' \in Int, position' \in Nat,
         costBasis' \in Nat, realized' \in Int, entryFees' \in Nat
  PROVE  EngineTypeOK' /\ OneInFlight'
<1>1. Len(queue') <= Capacity
  <2>1. Len(queue') \in Nat
    BY LenProperties
  <2> QED
    BY <2>1, CascadeAssumption, SMT
<1>2. thrown' \in BOOLEAN /\ ~ thrown'
  OBVIOUS
<1> QED
  BY <1>1, <1>2 DEF EngineTypeOK, OneInFlight

\* What the invariant says of the types of the state before a step.
LEMMA TypedBefore ==
  ASSUME EngineInv
  PROVE  /\ inPosition \in BOOLEAN /\ latestClose \in Closes \cup {0} /\ latestClose \in Int
         /\ cash \in Int /\ position \in Nat /\ costBasis \in Nat
         /\ realized \in Int /\ entryFees \in Nat
BY TradingAssumption DEF EngineInv, EngineTypeOK

\* An empty queue satisfies what the invariant says of queued events.
LEMMA NothingQueued ==
  ASSUME EngineTypeOK', OneInFlight', LedgerBalances', queue' = <<>>
  PROVE  EngineInv'
<1>1. \A i \in 1 .. Len(queue') : FALSE
  BY NoEvent, SMT
<1> QED
  BY <1>1 DEF EngineInv, InFlightCovered

\* The invariant holds when the engine is constructed.
LEMMA InitEngineInv == InitEngine => EngineInv
<1> SUFFICES ASSUME InitEngine PROVE EngineInv
  OBVIOUS
<1>1. queue \in Seq(Event) /\ Len(queue) = 0
  BY NoEvent DEF InitEngine
<1>2. EngineTypeOK /\ OneInFlight
  <2>1. Len(queue) <= 1 /\ Len(queue) <= Capacity
    BY <1>1, CascadeAssumption, SMT
  <2>2. cash \in Int /\ position \in Nat /\ costBasis \in Nat /\ realized \in Int /\ entryFees \in Nat
    BY CascadeAssumption, SMT DEF InitEngine
  <2> QED
    BY <1>1, <2>1, <2>2 DEF InitEngine, EngineTypeOK, OneInFlight
<1>3. LedgerBalances
  BY CascadeAssumption, SMT DEF InitEngine, LedgerBalances
<1> QED
  <2>1. \A i \in 1 .. Len(queue) : FALSE
    BY <1>1, SMT
  <2> QED
    BY <1>2, <1>3, <2>1 DEF EngineInv, InFlightCovered

\* A bar pushed onto the empty queue.
LEMMA PushBarInv ==
  ASSUME EngineInv, queue = <<>>, NEW c \in Closes, Enqueue(queue, <<Market(c)>>),
         UNCHANGED <<inPosition, latestClose, cash, position, costBasis, realized, entryFees>>
  PROVE  EngineInv' /\ queue' = <<Market(c)>> /\ thrown' = FALSE
<1>1. Market(c) \in Event /\ Market(c).kind = "market"
  BY DEF Market, Event
<1>2. queue \o <<Market(c)>> = <<Market(c)>>
  BY <1>1, OneEvent, ConcatEmptySeq
<1>3. Len(<<Market(c)>>) <= Capacity
  BY <1>1, OneEvent, CascadeAssumption, SMT
<1>4. queue' = <<Market(c)>> /\ thrown' = FALSE
  BY <1>2, <1>3 DEF Enqueue
<1>5. EngineTypeOK' /\ OneInFlight'
  <2>1. queue' \in Seq(Event) /\ Len(queue') <= 1
    BY <1>1, <1>4, OneEvent, SMT
  <2> QED
    BY <1>4, <2>1, TypedBefore, TypedAfter, Zenon
<1>6. LedgerBalances'
  BY DEF EngineInv, LedgerBalances
<1>7. \A i \in 1 .. Len(queue') : queue'[i].kind = "market"
  BY <1>1, <1>4, OneEvent, SMT
<1> QED
  BY <1>4, <1>5, <1>6, <1>7 DEF EngineInv, InFlightCovered

\* Handling a bar keeps the invariant.
LEMMA OnMarketInv ==
  ASSUME EngineInv, OnMarket
  PROVE  /\ EngineInv'
         /\ latestClose' \in Closes
         /\ \/ queue' = <<>> /\ inPosition' = inPosition
            \/ /\ queue' # <<>> /\ inPosition' = ~inPosition
               /\ Head(queue') = Signal(IF inPosition THEN "EXIT" ELSE "LONG")
<1>1. PICK signals \in Reactions : inPosition' = InPositionAfter(signals) /\ Answers(signals)
  BY DEF OnMarket
<1>2. queue # <<>> /\ Head(queue).close \in Closes
  BY HeadOfQueue DEF OnMarket, Handles
<1>3. inPosition' \in BOOLEAN
  BY <1>1, TypedBefore, Zenon DEF InPositionAfter
<1>4. signals = <<>> \/ \E d \in Direction : signals = <<Signal(d)>>
  BY <1>1 DEF Reactions, Direction
<1>5. ASSUME NEW d \in Direction
      PROVE  /\ <<Signal(d)>> \in Seq(Event) /\ Len(<<Signal(d)>>) = 1
             /\ <<Signal(d)>>[1].kind = "signal"
             /\ <<Signal(d)>> # <<>> /\ Head(<<Signal(d)>>) = Signal(d)
  <2>1. Signal(d) \in Event /\ Signal(d).kind = "signal"
    BY DEF Signal, Event
  <2> QED
    BY <2>1, OneEvent
<1>6. signals \in Seq(Event) /\ Len(signals) <= 1
  <2>1. CASE signals = <<>>
    BY <2>1, NoEvent, SMT
  <2>2. ASSUME NEW d \in Direction, signals = <<Signal(d)>> PROVE <1>6
    BY <1>5, <2>2, SMT
  <2> QED
    BY <1>4, <2>1, <2>2
<1>7. queue' = signals /\ thrown' = FALSE
  BY <1>1, <1>2, <1>6, AnswersFit
<1>8. EngineTypeOK' /\ OneInFlight'
  BY <1>2, <1>3, <1>6, <1>7, TypedBefore, TypedAfter, Zenon DEF OnMarket
<1>10. \A i \in 1 .. Len(queue') : queue'[i].kind = "signal"
  <2>1. CASE signals = <<>>
    BY <1>7, <2>1, NoEvent, SMT
  <2>2. ASSUME NEW d \in Direction, signals = <<Signal(d)>> PROVE <1>10
    <3>1. \A i \in 1 .. 1 : i = 1
      BY SMT
    <3> QED
      BY <1>5, <1>7, <2>2, <3>1, Zenon
  <2> QED
    BY <1>4, <2>1, <2>2
<1>9. LedgerBalances'
  BY DEF OnMarket, EngineInv, LedgerBalances
<1>11. EngineInv'
  BY <1>8, <1>9, <1>10 DEF EngineInv, InFlightCovered
<1>12. latestClose' \in Closes
  BY <1>2 DEF OnMarket
<1>13. CASE signals = <<>>
  BY <1>1, <1>7, <1>11, <1>12, <1>13 DEF InPositionAfter
<1>14. CASE signals # <<>>
  <2> DEFINE d == IF inPosition THEN "EXIT" ELSE "LONG"
  <2>1. signals = <<Signal(d)>> /\ d \in Direction
    BY <1>1, <1>14 DEF Reactions, Direction
  <2>2. queue' # <<>> /\ Head(queue') = Signal(d)
    BY <1>5, <1>7, <2>1
  <2>3. inPosition' = ~inPosition
    BY <1>1, <1>14 DEF InPositionAfter
  <2> QED
    BY <1>11, <1>12, <2>2, <2>3
<1> QED
  BY <1>13, <1>14

\* Handling a signal keeps the invariant: what is ordered is covered.
LEMMA OnSignalInv ==
  ASSUME EngineInv, OnSignal
  PROVE  /\ EngineInv'
         /\ \E qty \in IF latestClose > 0 THEN OrderQuantities(Head(queue).direction) ELSE {0} :
              IF qty > 0 THEN /\ queue' # <<>> /\ latestClose > 0
                              /\ Head(queue') = Order(Head(queue).direction, qty)
                         ELSE queue' = <<>>
<1> DEFINE d == Head(queue).direction
           out(qty) == IF qty > 0 THEN <<Order(d, qty)>> ELSE <<>>
<1>1. queue # <<>> /\ d \in Direction
  BY HeadOfQueue DEF OnSignal, Handles
<1>2. PICK qty \in IF latestClose > 0 THEN OrderQuantities(d) ELSE {0} : Answers(out(qty))
  BY DEF OnSignal
<1>3. cash \in Int /\ position \in Nat /\ latestClose \in Int
  BY TradingAssumption DEF EngineInv, EngineTypeOK
<1>4. /\ qty \in 0 .. U32 - 1
      /\ qty > 0 => /\ latestClose > 0
                    /\ IF d = "LONG" THEN Worth(qty, latestClose) <= cash ELSE qty <= position
  <2>1. CASE ~ (latestClose > 0)
    BY <1>2, <2>1, TradingAssumption, SMT
  <2>2. CASE latestClose > 0 /\ d = "LONG"
    BY <1>2, <1>3, <2>2, LongQuantitiesCovered DEF OrderQuantities
  <2>3. CASE latestClose > 0 /\ d # "LONG"
    BY <1>2, <1>3, <2>3, ExitQuantitiesHeld DEF OrderQuantities
  <2> QED
    BY <2>1, <2>2, <2>3
<1>5. CASE qty > 0
  <2>1. Order(d, qty) \in Event
    BY <1>1, <1>4, <1>5, TradingAssumption, SMT DEF Order, Event, Quantity
  <2>2. queue' = <<Order(d, qty)>> /\ thrown' = FALSE
    <3>1. Answers(<<Order(d, qty)>>)
      BY <1>2, <1>5
    <3>2. Len(<<Order(d, qty)>>) <= 1 /\ <<Order(d, qty)>> \in Seq(Event)
      BY <2>1, OneEvent, SMT
    <3> QED
      BY <1>1, <3>1, <3>2, AnswersFit, Zenon
  <2>3. EngineTypeOK' /\ OneInFlight'
    <3>1. queue' \in Seq(Event) /\ Len(queue') <= 1
      BY <2>1, <2>2, OneEvent, SMT
    <3> QED
      BY <2>2, <3>1, TypedBefore, TypedAfter, Zenon DEF OnSignal
  <2>4. LedgerBalances'
    BY DEF OnSignal, EngineInv, LedgerBalances
  <2>5. \A i \in 1 .. Len(queue') : queue'[i] = Order(d, qty)
    BY <2>1, <2>2, OneEvent, SMT
  <2>6. Order(d, qty).kind = "order" /\ Order(d, qty).direction = d /\ Order(d, qty).quantity = qty
    BY DEF Order
  <2>7. InFlightCovered'
    <3>1. latestClose' = latestClose /\ cash' = cash /\ position' = position
      BY DEF OnSignal
    <3> QED
      BY <1>4, <1>5, <2>5, <2>6, <3>1 DEF InFlightCovered, Worth
  <2>8. queue' # <<>> /\ Head(queue') = Order(d, qty)
    BY <2>1, <2>2, OneEvent
  <2>9. EngineInv'
    BY <2>3, <2>4, <2>5, <2>6, <2>7 DEF EngineInv
  <2> QED
    BY <1>2, <1>4, <1>5, <2>8, <2>9
<1>6. CASE ~ (qty > 0)
  <2>1. Answers(<<>>)
    BY <1>2, <1>6
  <2>2. queue' = <<>> /\ EngineTypeOK' /\ OneInFlight'
    <3>1. queue' = <<>> /\ thrown' = FALSE
      <4>1. Len(<<>>) <= 1 /\ <<>> \in Seq(Event)
        BY NoEvent, SMT
      <4> QED
        BY <1>1, <2>1, <4>1, AnswersFit, Zenon
    <3>2. queue' \in Seq(Event) /\ Len(queue') <= 1
      BY <3>1, NoEvent, SMT
    <3> QED
      BY <3>1, <3>2, TypedBefore, TypedAfter, Zenon DEF OnSignal
  <2>3. LedgerBalances'
    BY DEF OnSignal, EngineInv, LedgerBalances
  <2>4. EngineInv'
    BY <2>2, <2>3, NothingQueued
  <2> QED
    BY <1>2, <1>6, <2>2, <2>4
<1> QED
  BY <1>5, <1>6

\* Handling an order keeps the invariant: what is filled is what was ordered.
LEMMA OnOrderInv ==
  ASSUME EngineInv, OnOrder
  PROVE  /\ EngineInv'
         /\ queue' # <<>> /\ latestClose > 0
         /\ Head(queue').kind = "fill"
         /\ Head(queue').direction = Head(queue).direction
         /\ Head(queue').quantity = Head(queue).quantity
<1> DEFINE o == Head(queue)
           f == Fill(o.direction, o.quantity, FillPrice(o.direction, latestClose),
                     Commission(o.quantity))
<1>1. queue # <<>> /\ o = queue[1] /\ Len(queue) = 1 /\ o.kind = "order"
      /\ o.direction \in Direction /\ o.quantity \in Quantity
  BY HeadOfQueue DEF OnOrder, Handles
<1>2. /\ latestClose > 0
      /\ IF o.direction = "LONG" THEN Worth(o.quantity, latestClose) <= cash
                                 ELSE o.quantity <= position
  <2>1. 1 \in 1 .. Len(queue)
    BY <1>1, SMT
  <2> QED
    BY <1>1, <2>1 DEF EngineInv, InFlightCovered
<1>3. latestClose \in Int /\ ~ (latestClose <= 0 \/ o.quantity = 0)
  BY <1>1, <1>2, TypedBefore, TradingAssumption, SMT DEF Quantity
<1>4. Answers(<<f>>)
  BY <1>3 DEF OnOrder
<1>5. f \in Event /\ f.kind = "fill" /\ f.direction = o.direction /\ f.quantity = o.quantity
      /\ f.fill_price = FillPrice(o.direction, latestClose)
      /\ f.commission = Commission(o.quantity)
  BY <1>1, <1>2, <1>3, PricesAndFees DEF Fill, Event
<1> HIDE DEF f
<1>6. queue' = <<f>> /\ thrown' = FALSE /\ queue' \in Seq(Event) /\ Len(queue') = 1 /\ queue'[1] = f
  <2>1. <<f>> \in Seq(Event) /\ Len(<<f>>) = 1 /\ <<f>>[1] = f /\ Len(<<f>>) <= 1
    BY <1>5, OneEvent, SMT
  <2> QED
    BY <1>1, <1>4, <2>1, AnswersFit
<1>7. EngineTypeOK' /\ OneInFlight'
  <2>1. Len(queue') <= 1
    BY <1>6, SMT
  <2> QED
    BY <1>6, <2>1, TypedBefore, TypedAfter, Zenon DEF OnOrder
<1>8. latestClose' = latestClose /\ cash' = cash /\ position' = position /\ LedgerBalances'
  BY DEF OnOrder, EngineInv, LedgerBalances
<1>9. \A i \in 1 .. Len(queue') : queue'[i] = f
  BY <1>6, SMT
<1>10. InFlightCovered'
  BY <1>2, <1>5, <1>8, <1>9 DEF InFlightCovered, Worth, FillPrice
<1>11. EngineInv'
  BY <1>5, <1>7, <1>8, <1>9, <1>10 DEF EngineInv, Commission
<1>12. queue' # <<>> /\ Head(queue') = f
  BY <1>5, <1>6, OneEvent
<1> QED
  BY <1>2, <1>5, <1>11, <1>12

-----------------------------------------------------------------------------
(* Fills *)

\* What a fill in the queue says of itself.
LEMMA FillInQueue ==
  ASSUME EngineInv, Handles("fill"), NEW f, f = Head(queue)
  PROVE  /\ f.direction \in Direction /\ f.quantity \in Quantity
         /\ f.fill_price \in Nat /\ f.commission \in Nat
         /\ latestClose > 0
         /\ f.fill_price = FillPrice(f.direction, latestClose)
         /\ f.commission = Commission(f.quantity)
         /\ f.direction = "LONG" => Worth(f.quantity, latestClose) <= cash
         /\ f.direction = "EXIT" => f.quantity <= position
<1>1. queue # <<>> /\ f = queue[1] /\ Len(queue) = 1 /\ f.kind = "fill"
      /\ f.direction \in Direction /\ f.quantity \in Quantity
      /\ f.fill_price \in Nat /\ f.commission \in Nat
  BY HeadOfQueue DEF Handles
<1>2. 1 \in 1 .. Len(queue)
  BY <1>1, SMT
<1>3. /\ latestClose > 0
      /\ f.fill_price = FillPrice(f.direction, latestClose)
      /\ f.commission = Commission(f.quantity)
      /\ IF f.direction = "LONG" THEN Worth(f.quantity, latestClose) <= cash
                                 ELSE f.quantity <= position
  BY <1>1, <1>2 DEF EngineInv, InFlightCovered
<1> QED
  BY <1>1, <1>3

\* A handler that answers nothing leaves the queue empty.
LEMMA AnswersNothing ==
  ASSUME EngineInv, queue # <<>>, Answers(<<>>)
  PROVE  queue' = <<>> /\ thrown' = FALSE /\ queue' \in Seq(Event) /\ Len(queue') <= 1
<1>1. Len(<<>>) <= 1 /\ <<>> \in Seq(Event)
  BY NoEvent, SMT
<1> QED
  BY <1>1, AnswersFit

\* Settling a purchase keeps the invariant and the ledger balanced.
LEMMA OnLongFillInv ==
  ASSUME EngineInv, OnLongFill
  PROVE  EngineInv' /\ queue' = <<>>
<1> DEFINE f == Head(queue)
           paid == f.fill_price * f.quantity
<1>1. Handles("fill") /\ queue # <<>> /\ Answers(<<>>)
  BY DEF OnLongFill, Handles
<1>2. f.quantity \in Nat /\ f.commission \in Nat /\ f.fill_price \in Nat
  BY <1>1, FillInQueue, TradingAssumption, SMT DEF Quantity
<1>3. paid \in Nat
  BY <1>2, ProductNat
<1>4. /\ costBasis' = costBasis + paid /\ position' = position + f.quantity
      /\ cash' = cash - (paid + f.commission) /\ entryFees' = entryFees + f.commission
      /\ UNCHANGED <<inPosition, latestClose, realized>>
  BY DEF OnLongFill
<1> HIDE DEF f, paid
<1>5. cash' \in Int /\ position' \in Nat /\ costBasis' \in Nat /\ entryFees' \in Nat
  BY <1>2, <1>3, <1>4, TypedBefore, SMT
<1>6. EngineTypeOK' /\ OneInFlight' /\ queue' = <<>>
  BY <1>1, <1>4, <1>5, AnswersNothing, TypedBefore, TypedAfter
<1>7. LedgerBalances'
  <2>1. cash + costBasis + entryFees = InitialCash + realized
    BY DEF EngineInv, LedgerBalances
  <2> QED
    BY <1>2, <1>3, <1>4, <2>1, TypedBefore, CascadeAssumption, SMT DEF LedgerBalances
<1> QED
  BY <1>6, <1>7, NothingQueued

\* Settling a sale keeps the invariant and the ledger balanced.
LEMMA OnExitFillInv ==
  ASSUME EngineInv, OnExitFill
  PROVE  EngineInv' /\ queue' = <<>>
<1> DEFINE f == Head(queue)
           received == f.fill_price * f.quantity
           sold == SoldCost(f.quantity)
<1>1. Handles("fill") /\ queue # <<>> /\ Answers(<<>>) /\ f.direction = "EXIT"
  BY DEF OnExitFill, Handles
<1>2. f.quantity \in Nat \ {0} /\ f.commission \in Nat /\ f.fill_price \in Nat
      /\ f.quantity <= position
  BY <1>1, FillInQueue, TradingAssumption, SMT DEF Quantity
<1>3. received \in Nat
  BY <1>2, ProductNat
<1>4. sold \in 0 .. costBasis
  <2>1. position \in Nat \ {0} /\ costBasis \in Nat
    BY <1>2, TypedBefore, SMT
  <2>2. (costBasis * f.quantity) \div position \in 0 .. costBasis
    BY <1>2, <2>1, PartOfCost
  <2> QED
    BY <2>1, <2>2, SMT DEF SoldCost
<1>5. /\ realized' = realized + received - sold - f.commission
      /\ cash' = cash + received - f.commission
      /\ position' = IF position > f.quantity THEN position - f.quantity ELSE 0
      /\ costBasis' = costBasis - sold
      /\ UNCHANGED <<inPosition, latestClose, entryFees>>
  BY DEF OnExitFill
<1> HIDE DEF f, received, sold
<1>6. cash' \in Int /\ position' \in Nat /\ costBasis' \in Nat /\ realized' \in Int
  BY <1>2, <1>3, <1>4, <1>5, TypedBefore, SMT
<1>7. EngineTypeOK' /\ OneInFlight' /\ queue' = <<>>
  BY <1>1, <1>5, <1>6, AnswersNothing, TypedBefore, TypedAfter
<1>8. LedgerBalances'
  <2>1. cash + costBasis + entryFees = InitialCash + realized
    BY DEF EngineInv, LedgerBalances
  <2> QED
    <3>1. /\ cash \in Int /\ costBasis \in Int /\ entryFees \in Int /\ realized \in Int
          /\ sold \in Int /\ received \in Int /\ f.commission \in Int /\ InitialCash \in Int
      BY <1>2, <1>3, <1>4, TypedBefore, CascadeAssumption, SMT
    <3>2. /\ realized' = realized + received - sold - f.commission
          /\ cash' = cash + received - f.commission
          /\ costBasis' = costBasis - sold /\ entryFees' = entryFees
      BY <1>5
    <3> QED
      BY <2>1, <3>1, <3>2, SMT DEF LedgerBalances
<1> QED
  BY <1>7, <1>8, NothingQueued

\* Every handler keeps the invariant.
LEMMA DispatchInv ==
  ASSUME EngineInv, Dispatch
  PROVE  EngineInv'
BY OnMarketInv, OnSignalInv, OnOrderInv, OnLongFillInv, OnExitFillInv DEF Dispatch

\* The invariant depends on the engine's variables only.
LEMMA EngineInvUnchanged ==
  ASSUME EngineInv, UNCHANGED engine
  PROVE  EngineInv'
BY DEF engine, EngineInv, EngineTypeOK, OneInFlight, InFlightCovered, LedgerBalances,
       Worth, FillPrice, Commission

-----------------------------------------------------------------------------
(* The handlers as steps of the account *)

\* Every fill is a purchase the cash covers or a sale of shares that are held.
LEMMA FillsAreTrades ==
  ASSUME EngineInv, OnLongFill \/ OnExitFill
  PROVE  \E q \in Quantity : Books!Buy(q) \/ Books!Sell(q)
<1> DEFINE f == Head(queue)
<1>1. /\ f.quantity \in Quantity /\ latestClose > 0
      /\ f.fill_price = FillPrice(f.direction, latestClose)
      /\ f.commission = Commission(f.quantity)
      /\ f.direction = "LONG" => Worth(f.quantity, latestClose) <= cash
      /\ f.direction = "EXIT" => f.quantity <= position
  BY FillInQueue DEF OnLongFill, OnExitFill
<1>2. CASE OnLongFill
  <2>1. /\ f.direction = "LONG" /\ position' = position + f.quantity
        /\ cash' = cash - (f.fill_price * f.quantity + f.commission)
        /\ latestClose' = latestClose
    BY <1>2 DEF OnLongFill
  <2>2. Books!Buy(f.quantity)
    BY <1>1, <2>1 DEF Books!Buy, Books!Worth, Books!FillPrice, Books!Commission,
                      Worth, FillPrice, Commission
  <2> QED
    BY <1>1, <2>2
<1>3. CASE OnExitFill
  <2>1. /\ f.direction = "EXIT"
        /\ position' = IF position > f.quantity THEN position - f.quantity ELSE 0
        /\ cash' = cash + f.fill_price * f.quantity - f.commission
        /\ latestClose' = latestClose
    BY <1>3 DEF OnExitFill
  <2>2. position' = position - f.quantity
    BY <1>1, <2>1, TypedBefore, TradingAssumption, SMT DEF Quantity
  <2>3. Books!Sell(f.quantity)
    BY <1>1, <2>1, <2>2 DEF Books!Sell, Books!FillPrice, Books!Commission, FillPrice, Commission
  <2> QED
    BY <1>1, <2>3
<1> QED
  BY <1>2, <1>3

\* Every handler is a step of the account or leaves it alone.
LEMMA DispatchRefines ==
  ASSUME EngineInv, Dispatch
  PROVE  [Books!Next]_Books!vars
<1> USE DEF Books!Next, Books!vars
<1>1. CASE OnMarket
  <2>1. latestClose' \in Closes /\ UNCHANGED <<cash, position>>
    BY <1>1, HeadOfQueue DEF OnMarket, Handles
  <2> QED
    BY <2>1 DEF Books!Quote
<1>2. CASE OnSignal \/ OnOrder
  BY <1>2 DEF OnSignal, OnOrder
<1>3. CASE OnLongFill \/ OnExitFill
  <2>1. \E q \in Books!Quantity : Books!Buy(q) \/ Books!Sell(q)
    BY <1>3, FillsAreTrades DEF Quantity, Books!Quantity
  <2> QED
    BY <2>1
<1> QED
  BY <1>1, <1>2, <1>3 DEF Dispatch

-----------------------------------------------------------------------------
(* What a handler may never do *)

\* A fill's price is the close and the slippage.
LEMMA PriceSplit ==
  ASSUME NEW c \in Int, NEW q \in Int
  PROVE  /\ FillPrice("LONG", c) * q = q * (c * Scale) + q * (c * Slip)
         /\ FillPrice("EXIT", c) * q = q * (c * Scale) - q * (c * Slip)
<1>1. Scale \in Int /\ Slip \in Int
  BY TradingAssumption, SMT
<1>2. /\ (c * (Scale + Slip)) * q = q * (c * Scale) + q * (c * Slip)
      /\ (c * (Scale - Slip)) * q = q * (c * Scale) - q * (c * Slip)
  BY <1>1, SMT
<1> QED
  BY <1>2 DEF FillPrice

\* The amounts of a fill, and what they do to the account.
LEMMA FillAmounts ==
  ASSUME EngineInv, OnLongFill \/ OnExitFill, NEW f, f = Head(queue),
         NEW worth, worth = f.quantity * (latestClose * Scale),
         NEW slippage, slippage = f.quantity * (latestClose * Slip)
  PROVE    /\ worth \in Nat /\ slippage \in Nat
           /\ Friction(f) = slippage + f.commission
           /\ f.commission \in Nat
           /\ latestClose' = latestClose
           /\ \/ /\ f.direction = "LONG" /\ worth <= cash
                 /\ cash' = cash - (worth + slippage + f.commission)
                 /\ Worth(position', latestClose) = Worth(position, latestClose) + worth
              \/ /\ f.direction = "EXIT" /\ slippage <= worth
                 /\ cash' = cash + (worth - slippage) - f.commission
                 /\ Worth(position', latestClose) = Worth(position, latestClose) - worth
<1> DEFINE q == f.quantity
           unit == latestClose * Scale
           slip == latestClose * Slip
<1>1. /\ q \in Nat /\ latestClose > 0 /\ latestClose \in Nat
      /\ f.direction \in Direction
      /\ f.fill_price = FillPrice(f.direction, latestClose)
      /\ f.commission \in Nat
      /\ f.direction = "LONG" => Worth(q, latestClose) <= cash
      /\ f.direction = "EXIT" => q <= position
  <2>1. /\ q \in Quantity /\ latestClose > 0
        /\ f.direction \in Direction
        /\ f.fill_price = FillPrice(f.direction, latestClose)
        /\ f.commission \in Nat
        /\ f.direction = "LONG" => Worth(q, latestClose) <= cash
        /\ f.direction = "EXIT" => q <= position
    BY FillInQueue DEF OnLongFill, OnExitFill
  <2>2. q \in Nat
    BY <2>1, TradingAssumption, SMT DEF Quantity
  <2>3. latestClose \in Nat
    BY <2>1, TypedBefore, SMT
  <2> QED
    BY <2>1, <2>2, <2>3
<1>2. /\ unit \in Nat /\ slip \in Nat /\ slip <= unit /\ q * unit \in Nat /\ q * slip \in Nat
      /\ q * slip <= q * unit
  <2>1. Scale \in Nat /\ Slip \in Nat /\ Slip <= Scale
    BY TradingAssumption, SMT
  <2>2. unit \in Nat /\ slip \in Nat
    BY <1>1, <2>1, ProductNat
  <2>3. slip <= unit
    BY <1>1, <2>1, ProductMonotone, SMT
  <2> HIDE DEF unit, slip
  <2>4. q * unit \in Nat /\ q * slip \in Nat
    BY <1>1, <2>2, ProductNat
  <2>5. slip * q <= unit * q
    BY <1>1, <2>2, <2>3, ProductMonotone
  <2> QED
    BY <1>1, <2>2, <2>3, <2>4, <2>5, SMT
<1>3. Worth(q, latestClose) = q * unit /\ Friction(f) = q * slip + f.commission
  BY DEF Worth, Friction
<1>4. latestClose' = latestClose
  BY DEF OnLongFill, OnExitFill
<1>5. /\ FillPrice("LONG", latestClose) * q = q * unit + q * slip
      /\ FillPrice("EXIT", latestClose) * q = q * unit - q * slip
  BY <1>1, PriceSplit, SMT
<1>6. \A n \in Nat : Worth(position + n, latestClose) = Worth(position, latestClose) + n * unit
  BY <1>2, TypedBefore, SMT DEF Worth
<1>7. \A n \in Nat : n <= position =>
        Worth(position - n, latestClose) = Worth(position, latestClose) - n * unit
  BY <1>2, TypedBefore, SMT DEF Worth
<1>8. CASE OnLongFill
  <2>1. /\ f.direction = "LONG" /\ position' = position + q
        /\ cash' = cash - (f.fill_price * q + f.commission)
    BY <1>8 DEF OnLongFill
  <2>2. f.fill_price * q = q * unit + q * slip
    BY <1>1, <1>5, <2>1
  <2> HIDE DEF q, unit, slip
  <2>3. cash' = cash - (q * unit + q * slip + f.commission)
    BY <1>1, <1>2, <2>1, <2>2, TypedBefore, SMT
  <2>4. Worth(position', latestClose) = Worth(position, latestClose) + q * unit
    BY <1>1, <1>6, <2>1
  <2> QED
    BY <1>1, <1>2, <1>3, <1>4, <2>1, <2>3, <2>4 DEF q, unit, slip
<1>9. CASE OnExitFill
  <2>1. /\ f.direction = "EXIT"
        /\ position' = IF position > q THEN position - q ELSE 0
        /\ cash' = cash + f.fill_price * q - f.commission
    BY <1>9 DEF OnExitFill
  <2>2. f.fill_price * q = q * unit - q * slip
    BY <1>1, <1>5, <2>1
  <2> HIDE DEF q, unit, slip
  <2>3. position' = position - q
    BY <1>1, <2>1, TypedBefore, SMT
  <2>4. cash' = cash + (q * unit - q * slip) - f.commission
    BY <1>1, <1>2, <2>1, <2>2, TypedBefore, SMT
  <2>5. Worth(position', latestClose) = Worth(position, latestClose) - q * unit
    BY <1>1, <1>7, <2>1, <2>3
  <2> QED
    BY <1>1, <1>2, <1>3, <1>4, <2>1, <2>4, <2>5 DEF q, unit, slip
<1> QED
  BY <1>8, <1>9

\* What the held shares are worth is an amount.
LEMMA WorthInt ==
  ASSUME EngineInv
  PROVE  Worth(position, latestClose) \in Int
<1>1. Scale \in Int
  BY TradingAssumption, SMT
<1>2. latestClose * Scale \in Int
  BY <1>1, TypedBefore, SMT
<1> QED
  BY <1>2, TypedBefore, SMT DEF Worth

\* No handler overdraws the account by more than the friction of its fill.
LEMMA DispatchOverdraws ==
  ASSUME EngineInv, Dispatch, cash' < cash
  PROVE  /\ Handles("fill")
         /\ IF Head(queue).direction = "LONG"
              THEN cash' >= - Friction(Head(queue))
              ELSE cash' >= cash - Head(queue).commission
<1> DEFINE f == Head(queue)
<1>1. OnLongFill \/ OnExitFill
  <2>1. CASE OnMarket \/ OnSignal \/ OnOrder
    <3>1. cash' = cash
      BY <2>1 DEF OnMarket, OnSignal, OnOrder
    <3> QED
      BY <3>1, TypedBefore, SMT
  <2> QED
    BY <2>1 DEF Dispatch
<1>2. Handles("fill")
  BY <1>1 DEF OnLongFill, OnExitFill
<1> HIDE DEF f
<1> DEFINE worth == f.quantity * (latestClose * Scale)
           slippage == f.quantity * (latestClose * Slip)
<1>3. /\ worth \in Nat /\ slippage \in Nat /\ f.commission \in Nat
      /\ Friction(f) = slippage + f.commission
      /\ \/ /\ f.direction = "LONG" /\ worth <= cash
            /\ cash' = cash - (worth + slippage + f.commission)
         \/ /\ f.direction = "EXIT" /\ slippage <= worth
            /\ cash' = cash + (worth - slippage) - f.commission
  <2>1. f = Head(queue)
    BY DEF f
  <2> QED
    BY <1>1, <2>1, FillAmounts
<1> HIDE DEF worth, slippage
<1>4. CASE f.direction = "LONG"
  <2>1. cash' >= - Friction(f)
    BY <1>3, <1>4, TypedBefore, SMT
  <2> QED
    BY <1>2, <1>4, <2>1 DEF f
<1>5. CASE f.direction # "LONG"
  <2>1. cash' >= cash - f.commission
    BY <1>3, <1>5, TypedBefore, SMT
  <2> QED
    BY <1>2, <1>5, <2>1 DEF f
<1> QED
  BY <1>4, <1>5

\* No handler makes the account worth more while the price stands still.
LEMMA DispatchCreatesNoValue ==
  ASSUME EngineInv, Dispatch, latestClose' = latestClose
  PROVE  Equity' <= Equity
<1>1. cash \in Int /\ Worth(position, latestClose) \in Int
  BY TypedBefore, WorthInt
<1>2. Equity' = cash' + Worth(position', latestClose)
  BY DEF Equity, Worth
<1>3. CASE OnMarket \/ OnSignal \/ OnOrder
  <2>1. cash' = cash /\ position' = position
    BY <1>3 DEF OnMarket, OnSignal, OnOrder
  <2>2. Equity' = Equity
    BY <1>2, <2>1 DEF Equity
  <2> QED
    BY <1>1, <2>2, SMT DEF Equity
<1>4. CASE OnLongFill \/ OnExitFill
  <2> DEFINE f == Head(queue)
             worth == f.quantity * (latestClose * Scale)
             slippage == f.quantity * (latestClose * Slip)
  <2>1. /\ worth \in Nat /\ slippage \in Nat /\ f.commission \in Nat
        /\ \/ /\ cash' = cash - (worth + slippage + f.commission)
              /\ Worth(position', latestClose) = Worth(position, latestClose) + worth
           \/ /\ cash' = cash + (worth - slippage) - f.commission
              /\ Worth(position', latestClose) = Worth(position, latestClose) - worth
    BY <1>4, FillAmounts
  <2> HIDE DEF f, worth, slippage
  <2> QED
    BY <1>1, <1>2, <2>1, SMT DEF Equity
<1> QED
  BY <1>3, <1>4 DEF Dispatch

-----------------------------------------------------------------------------
(* Progress of a bar: every handler moves the chain at least one kind on.  *)

Rank ==
    IF queue = <<>> THEN 4
    ELSE IF Head(queue).kind = "market" THEN 0
    ELSE IF Head(queue).kind = "signal" THEN 1
    ELSE IF Head(queue).kind = "order" THEN 2 ELSE 3

\* Every handler takes the chain of the bar a stage further, or ends it.
LEMMA DispatchAdvances ==
  ASSUME EngineInv, Dispatch
  PROVE  Rank \in 0 .. 3 /\ Rank' \in 1 .. 4 /\ Rank < Rank'
<1>1. CASE OnMarket
  <2>1. Rank = 0
    BY <1>1 DEF OnMarket, Handles, Rank
  <2>2. Rank' = 4 \/ Rank' = 1
    <3>1. \A d : Signal(d).kind = "signal"
      BY DEF Signal
    <3> QED
      BY <1>1, <3>1, OnMarketInv DEF Rank
  <2> QED
    BY <2>1, <2>2, SMT
<1>2. CASE OnSignal
  <2>1. Rank = 1
    BY <1>2 DEF OnSignal, Handles, Rank
  <2>2. Rank' = 4 \/ Rank' = 2
    <3>1. \A d, q : Order(d, q).kind = "order"
      BY DEF Order
    <3>2. queue' = <<>> \/ (queue' # <<>> /\ Head(queue').kind = "order")
      BY <1>2, <3>1, OnSignalInv
    <3> QED
      BY <3>2 DEF Rank
  <2> QED
    BY <2>1, <2>2, SMT
<1>3. CASE OnOrder
  <2>1. Rank = 2
    BY <1>3 DEF OnOrder, Handles, Rank
  <2>2. Rank' = 3
    BY <1>3, OnOrderInv DEF Rank
  <2> QED
    BY <2>1, <2>2, SMT
<1>4. CASE OnLongFill \/ OnExitFill
  <2>1. Rank = 3
    BY <1>4 DEF OnLongFill, OnExitFill, Handles, Rank
  <2>2. Rank' = 4
    BY <1>4, OnLongFillInv, OnExitFillInv DEF Rank
  <2> QED
    BY <2>1, <2>2, SMT
<1> QED
  BY <1>1, <1>2, <1>3, <1>4 DEF Dispatch

-----------------------------------------------------------------------------
(* What the strategy believes and what the portfolio holds, when every     *)
(* close is positive                                                       *)

ClosesPositive == \A c \in Closes : c > 0

\* Out of the position nothing is held; a LONG on its way finds nothing held,
\* and an EXIT on its way sells everything, which fits the quantity.
Belief ==
    /\ position < U32
    /\ (queue = <<>> \/ Head(queue).kind = "market") => (position > 0 => inPosition)
    /\ (queue # <<>> /\ Head(queue).kind # "market") =>
         /\ latestClose > 0
         /\ Head(queue).direction = "LONG" => inPosition /\ position = 0
         /\ Head(queue).direction = "EXIT" =>
              /\ ~inPosition
              /\ Head(queue).kind # "signal" => Head(queue).quantity = position

\* Every handler keeps the agreement of portfolio and strategy on a positive close.
LEMMA DispatchBelief ==
  ASSUME ClosesPositive, EngineInv, Belief, Dispatch
  PROVE  Belief'
<1> DEFINE e == Head(queue)
<1>1. position \in Nat /\ inPosition \in BOOLEAN /\ U32 \in Nat \ {0} /\ latestClose \in Int
      /\ position < U32
  BY TypedBefore, TradingAssumption DEF Belief
<1>2. CASE OnMarket
  <2>1. queue # <<>> /\ e.kind = "market" /\ position' = position
    BY <1>2 DEF OnMarket, Handles
  <2>2. position > 0 => inPosition
    BY <2>1 DEF Belief
  <2>3. latestClose' > 0
    BY <1>2, OnMarketInv DEF ClosesPositive
  <2>4. CASE queue' = <<>> /\ inPosition' = inPosition
    BY <1>1, <2>1, <2>2, <2>4 DEF Belief
  <2>5. CASE /\ queue' # <<>> /\ inPosition' = ~inPosition
             /\ Head(queue') = Signal(IF inPosition THEN "EXIT" ELSE "LONG")
    <3>1. Head(queue').kind = "signal"
          /\ Head(queue').direction = IF inPosition THEN "EXIT" ELSE "LONG"
      BY <2>5 DEF Signal
    <3>2. CASE inPosition
      <4>1. Head(queue').direction = "EXIT" /\ ~inPosition'
        BY <2>5, <3>1, <3>2
      <4> QED
        BY <1>1, <2>1, <2>3, <2>5, <3>1, <4>1 DEF Belief
    <3>3. CASE ~inPosition
      <4>1. Head(queue').direction = "LONG" /\ inPosition'
        BY <2>5, <3>1, <3>3
      <4>2. position' = 0
        BY <1>1, <2>1, <2>2, <3>3, SMT
      <4>3. position' < U32
        BY <1>1, <2>1
      <4> QED
        BY <2>3, <2>5, <3>1, <4>1, <4>2, <4>3 DEF Belief
    <3> QED
      BY <3>2, <3>3
  <2> QED
    BY <1>2, <2>4, <2>5, OnMarketInv
<1>3. CASE OnSignal
  <2>1. /\ queue # <<>> /\ e.kind = "signal" /\ e.direction \in Direction
        /\ position' = position /\ inPosition' = inPosition /\ latestClose' = latestClose
    BY <1>3, HeadOfQueue DEF OnSignal, Handles
  <2>2. /\ latestClose > 0
        /\ e.direction = "LONG" => inPosition /\ position = 0
        /\ e.direction = "EXIT" => ~inPosition
    BY <2>1 DEF Belief
  <2>3. PICK qty \in OrderQuantities(e.direction) :
          IF qty > 0 THEN queue' # <<>> /\ Head(queue') = Order(e.direction, qty)
                     ELSE queue' = <<>>
    BY <1>3, <2>2, OnSignalInv
  <2>4. e.direction = "EXIT" => qty = position
    <3>1. ASSUME e.direction = "EXIT" PROVE qty = position
      <4>1. qty \in ExitQuantities(position)
        BY <2>3, <3>1 DEF OrderQuantities
      <4> QED
        BY <1>1, <4>1, SMT DEF ExitQuantities, Casts
    <3> QED
      BY <3>1
  <2>5. CASE qty > 0
    <3>1. queue' # <<>> /\ Head(queue').kind = "order" /\ Head(queue').quantity = qty
          /\ Head(queue').direction = e.direction
      BY <2>3, <2>5 DEF Order
    <3> QED
      BY <1>1, <2>1, <2>2, <2>4, <3>1 DEF Belief
  <2>6. CASE ~ (qty > 0)
    <3>1. queue' = <<>>
      BY <2>3, <2>6
    <3>2. position' = 0
      <4>1. CASE e.direction = "EXIT"
        BY <1>1, <2>1, <2>4, <2>6, <4>1, SMT
      <4>2. CASE e.direction # "EXIT"
        BY <2>1, <2>2, <4>2 DEF Direction
      <4> QED
        BY <4>1, <4>2
    <3>3. ~ (position' > 0) /\ position' < U32
      BY <1>1, <3>2, SMT
    <3> QED
      BY <3>1, <3>3 DEF Belief
  <2> QED
    BY <2>5, <2>6
<1>4. CASE OnOrder
  <2>1. /\ queue # <<>> /\ e.kind = "order"
        /\ position' = position /\ inPosition' = inPosition /\ latestClose' = latestClose
    BY <1>4 DEF OnOrder, Handles
  <2>2. /\ latestClose > 0
        /\ e.direction = "LONG" => inPosition /\ position = 0
        /\ e.direction = "EXIT" => ~inPosition /\ e.quantity = position
    BY <2>1 DEF Belief
  <2> QED
    BY <1>1, <1>4, <2>1, <2>2, OnOrderInv DEF Belief
<1>5. CASE OnLongFill
  <2>1. e.direction = "LONG" /\ e.kind = "fill" /\ queue # <<>> /\ e.quantity \in Quantity
        /\ position' = position + e.quantity /\ inPosition' = inPosition
    BY <1>5, HeadOfQueue DEF OnLongFill, Handles
  <2>2. inPosition /\ position = 0
    BY <2>1 DEF Belief
  <2>3. position' < U32
    BY <1>1, <2>1, <2>2, SMT DEF Quantity
  <2> QED
    BY <1>5, <2>1, <2>2, <2>3, OnLongFillInv DEF Belief
<1>6. CASE OnExitFill
  <2>1. e.direction = "EXIT" /\ e.kind = "fill" /\ queue # <<>>
        /\ position' = IF position > e.quantity THEN position - e.quantity ELSE 0
    BY <1>6 DEF OnExitFill, Handles
  <2>2. e.quantity = position
    BY <2>1 DEF Belief
  <2>3. ~ (position' > 0) /\ position' < U32
    BY <1>1, <2>1, <2>2, SMT
  <2> QED
    BY <1>6, <2>3, OnExitFillInv DEF Belief
<1> QED
  BY <1>2, <1>3, <1>4, <1>5, <1>6 DEF Dispatch

-----------------------------------------------------------------------------
(* What becomes of a signal, whatever the closes *)

\* What is in flight is what the strategy asked for last; and an EXIT on its
\* way sells all that is held, unless that does not fit the quantity.
Pursuit ==
    (queue # <<>> /\ Head(queue).kind # "market") =>
      /\ Head(queue).direction = IF inPosition THEN "LONG" ELSE "EXIT"
      /\ Head(queue).kind # "signal" /\ ~inPosition =>
           Head(queue).quantity = position \/ position >= U32

\* The action of SignalsTakeEffect.
TakesEffect ==
    (queue # <<>> /\ Head(queue).kind # "market" /\ queue' = <<>>) =>
      IF inPosition
        THEN \/ position' > position
             \/ latestClose <= 0
             \/ cash <= Worth(1, latestClose)
             \/ cash >= Worth(U32, latestClose)
        ELSE \/ position' = 0
             \/ latestClose <= 0
             \/ position >= U32

\* A LONG orders nothing only if the cash buys one share at most, or the
\* quotient does not fit.
LEMMA NothingBought ==
  ASSUME NEW c \in Int, NEW n \in Nat, NEW close \in Int, close > 0,
         NEW qty \in LongQuantities(c, n, close)
  PROVE  qty > 0 \/ c <= Worth(1, close) \/ c >= Worth(U32, close)
<1> DEFINE unit == close * Scale
           x == c \div unit
<1>1. unit \in Nat \ {0} /\ Scale \in Nat \ {0} /\ U32 \in Nat \ {0}
  BY TradingAssumption, SMT
<1>2. Worth(1, close) = unit /\ Worth(n, close) \in Int
  BY <1>1, SMT DEF Worth
<1>3. c + Worth(n, close) - Worth(n, close) = c
  BY <1>2, SMT
<1>4. Worth(U32, close) = U32 * unit
  BY <1>1, SMT DEF Worth
<1> HIDE DEF unit
<1>5. CASE c > unit
  <2> HIDE DEF x
  <2>1. PICK q \in Casts(c \div unit), a \in Casts(c \div unit) : qty = Lesser(q, a)
    BY <1>1, <1>2, <1>3, <1>5, SMT DEF LongQuantities
  <2>2. c \in Nat /\ x \in Nat \ {0} /\ x * unit <= c
    BY <1>1, <1>5, QuotientBound, SMT DEF x
  <2>3. q \in Casts(x) /\ a \in Casts(x)
    BY <2>1 DEF x
  <2>4. qty > 0 \/ x >= U32
    BY <1>1, <2>1, <2>2, <2>3, SMT DEF Casts, Lesser
  <2>5. qty > 0 \/ U32 * unit <= x * unit
    BY <1>1, <2>2, <2>4, ProductMonotone, SMT
  <2>6. U32 * unit \in Nat /\ x * unit \in Nat
    BY <1>1, <2>2, ProductNat
  <2>7. qty > 0 \/ U32 * unit <= c
    BY <2>2, <2>5, <2>6, SMT
  <2> QED
    BY <1>4, <2>2, <2>6, <2>7, SMT
<1>6. CASE ~ (c > unit)
  BY <1>1, <1>2, <1>6, SMT
<1> QED
  BY <1>5, <1>6

\* An EXIT orders all that is held, or more is held than fits.
LEMMA AllSold ==
  ASSUME NEW n \in Nat, NEW qty \in ExitQuantities(n)
  PROVE  qty = n \/ n >= U32
BY TradingAssumption, SMT DEF ExitQuantities, Casts

\* Handling a signal: what it orders is what Pursuit says, and if it orders
\* nothing, there was a reason.
LEMMA OnSignalEffect ==
  ASSUME EngineInv, Pursuit, OnSignal
  PROVE  Pursuit' /\ TakesEffect
<1> DEFINE e == Head(queue)
<1>1. /\ queue # <<>> /\ e.kind = "signal" /\ e.direction = IF inPosition THEN "LONG" ELSE "EXIT"
      /\ UNCHANGED <<position, inPosition, latestClose, cash>>
  BY DEF OnSignal, Handles, Pursuit
<1>2. /\ inPosition \in BOOLEAN /\ latestClose \in Int /\ cash \in Int /\ position \in Nat
      /\ U32 \in Nat \ {0}
  BY TypedBefore, TradingAssumption
<1>3. PICK qty \in IF latestClose > 0 THEN OrderQuantities(e.direction) ELSE {0} :
        IF qty > 0 THEN queue' # <<>> /\ latestClose > 0 /\ Head(queue') = Order(e.direction, qty)
                   ELSE queue' = <<>>
  BY OnSignalInv
<1>4. qty \in Nat
  <2>1. CASE latestClose > 0 /\ e.direction = "LONG"
    BY <1>2, <1>3, <2>1, LongQuantitiesCovered, SMT DEF OrderQuantities
  <2>2. CASE latestClose > 0 /\ e.direction # "LONG"
    BY <1>2, <1>3, <2>2, ExitQuantitiesHeld, SMT DEF OrderQuantities
  <2>3. CASE ~ (latestClose > 0)
    BY <1>3, <2>3
  <2> QED
    BY <2>1, <2>2, <2>3
<1>5. CASE qty > 0
  <2>1. /\ queue' # <<>> /\ Head(queue').kind = "order" /\ Head(queue').quantity = qty
        /\ Head(queue').direction = e.direction /\ latestClose > 0
    BY <1>3, <1>5 DEF Order
  <2>2. ~inPosition => qty = position \/ position >= U32
    <3>1. ASSUME ~inPosition PROVE qty = position \/ position >= U32
      <4>1. qty \in ExitQuantities(position)
        BY <1>1, <1>3, <2>1, <3>1 DEF OrderQuantities
      <4> QED
        BY <1>2, <4>1, AllSold
    <3> QED
      BY <3>1
  <2> QED
    BY <1>1, <2>1, <2>2 DEF Pursuit, TakesEffect
<1>6. CASE ~ (qty > 0)
  <2>1. queue' = <<>> /\ qty = 0
    BY <1>3, <1>4, <1>6, SMT
  <2>2. CASE latestClose > 0 /\ inPosition
    <3>1. qty \in LongQuantities(cash, position, latestClose)
      BY <1>1, <1>3, <2>1, <2>2 DEF OrderQuantities
    <3>2. cash <= Worth(1, latestClose) \/ cash >= Worth(U32, latestClose)
      <4>1. ~ (qty > 0)
        BY <1>6
      <4> QED
        BY <1>2, <2>2, <3>1, <4>1, NothingBought
    <3> QED
      BY <2>1, <2>2, <3>2 DEF Pursuit, TakesEffect
  <2>3. CASE latestClose > 0 /\ ~inPosition
    <3>1. 0 \in ExitQuantities(position)
      BY <1>1, <1>3, <2>1, <2>3 DEF OrderQuantities
    <3>2. 0 = position \/ position >= U32
      BY <1>2, <3>1, AllSold
    <3> QED
      BY <1>1, <2>1, <2>3, <3>2 DEF Pursuit, TakesEffect
  <2>4. CASE ~ (latestClose > 0)
    <3>1. latestClose <= 0
      BY <1>2, <2>4, SMT
    <3> QED
      BY <2>1, <3>1 DEF Pursuit, TakesEffect
  <2> QED
    BY <1>2, <2>2, <2>3, <2>4
<1> QED
  BY <1>5, <1>6

\* Every handler pursues the signal, and the last one has its effect.
LEMMA DispatchTakesEffect ==
  ASSUME EngineInv, Pursuit, Dispatch
  PROVE  Pursuit' /\ TakesEffect
<1> DEFINE e == Head(queue)
<1>1. inPosition \in BOOLEAN /\ position \in Nat /\ U32 \in Nat \ {0}
  BY TypedBefore, TradingAssumption
<1>2. CASE OnMarket
  <2>1. queue # <<>> /\ e.kind = "market"
    BY <1>2 DEF OnMarket, Handles
  <2>2. CASE queue' = <<>>
    BY <2>1, <2>2 DEF Pursuit, TakesEffect
  <2>3. CASE /\ queue' # <<>> /\ inPosition' = ~inPosition
             /\ Head(queue') = Signal(IF inPosition THEN "EXIT" ELSE "LONG")
    <3>1. Head(queue').kind = "signal"
          /\ Head(queue').direction = IF inPosition THEN "EXIT" ELSE "LONG"
      BY <2>3 DEF Signal
    <3>2. (IF inPosition THEN "EXIT" ELSE "LONG") = (IF inPosition' THEN "LONG" ELSE "EXIT")
      <4>1. CASE inPosition
        BY <2>3, <4>1
      <4>2. CASE ~inPosition
        BY <2>3, <4>2
      <4> QED
        BY <4>1, <4>2
    <3> QED
      BY <2>1, <2>3, <3>1, <3>2 DEF Pursuit, TakesEffect
  <2> QED
    BY <1>2, <2>2, <2>3, OnMarketInv
<1>3. CASE OnSignal
  BY <1>3, OnSignalEffect
<1>4. CASE OnOrder
  <2>1. queue # <<>> /\ e.kind = "order" /\ UNCHANGED <<position, inPosition>>
    BY <1>4 DEF OnOrder, Handles
  <2> QED
    BY <1>4, <2>1, OnOrderInv DEF Pursuit, TakesEffect
<1>5. CASE OnLongFill
  <2>1. /\ queue # <<>> /\ e.kind = "fill" /\ e.direction = "LONG" /\ e.quantity \in Quantity
        /\ position' = position + e.quantity
    BY <1>5, HeadOfQueue DEF OnLongFill, Handles
  <2>2. inPosition
    BY <1>1, <2>1 DEF Pursuit
  <2>3. position' > position
    BY <1>1, <2>1, SMT DEF Quantity
  <2> QED
    BY <1>5, <2>2, <2>3, OnLongFillInv DEF Pursuit, TakesEffect
<1>6. CASE OnExitFill
  <2>1. /\ queue # <<>> /\ e.kind = "fill" /\ e.direction = "EXIT"
        /\ position' = IF position > e.quantity THEN position - e.quantity ELSE 0
    BY <1>6 DEF OnExitFill, Handles
  <2>2. ~inPosition /\ (e.quantity = position \/ position >= U32)
    BY <1>1, <2>1 DEF Pursuit
  <2>3. position' = 0 \/ position >= U32
    BY <1>1, <2>1, <2>2, SMT
  <2> QED
    BY <1>6, <2>2, <2>3, OnExitFillInv DEF Pursuit, TakesEffect
<1> QED
  BY <1>2, <1>3, <1>4, <1>5, <1>6 DEF Dispatch

=============================================================================
