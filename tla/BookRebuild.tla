---------------------------- MODULE BookRebuild ----------------------------
(***************************************************************************)
(* A trading day seen through a vendor's feed: an exchange whose orders    *)
(* arrive, match and are canceled, the rows a vendor publishes about them, *)
(* CsmarMapper or TonglianMapper with its SequenceGate, and what is fed by *)
(* the published events: an order book and a TradingPhaseTracker.          *)
(*                                                                         *)
(* The exchange, the vendor and the book are not code of this repository.  *)
(* The exchange has one price, so that every two opposite orders match,    *)
(* and publishes as the README says: Shanghai names an incoming order in   *)
(* the trades it causes and publishes only what then rests of it, Shenzhen *)
(* publishes the order first.                                              *)
(***************************************************************************)
EXTENDS SequenceGate, CnMarkets

CONSTANTS
  MaxOrders,     \* bound on the orders of the day
  Quantities,
  DamagedUpTo,   \* a row may be damaged while at most so many orders have arrived
  RowsAfter      \* so many rows may follow a damaged one before nothing new is begun

Channel == 1

ASSUME DayAssumption ==
  /\ Channel \in PartitionIds
  /\ MaxOrders \in Nat /\ Quantities \subseteq Nat \ {0} /\ DamagedUpTo \in Int
  /\ RowsAfter \in Nat

VARIABLES
  vendor, market,  \* the mapper's class and its context, fixed
  phase,           \* of the exchange
  orders,          \* the orders resting at the exchange
  arrived,         \* how many orders the exchange has had
  incoming,        \* the order that came in last; qty is what is not yet matched of it
  nextSeq,         \* the sequence of the next row
  row,             \* the row published and not delivered yet
  seen,            \* the rows delivered since the exchange was last at rest
  damaged,         \* the row, as it was, that has been delivered damaged, or NoRow
  event,           \* what the mapper made of the last row
  book,            \* the order book
  tracker          \* a TradingPhaseTracker, and its last answer

exchangeVars == <<phase, orders, arrived, incoming, nextSeq>>
mapperVars == <<book, tracker, gateVars>>
dayVars == <<vendor, market, exchangeVars, row, seen, damaged, event, mapperVars>>

Nothing == [what |-> "none"]
NoRow == [table |-> "none"]
Nobody == [id |-> 0, side |-> "none", qty |-> 0, type |-> "none"]
PhaseAfter ==
  [Startup |-> "OpeningCall", OpeningCall |-> "OpeningMatch",
   OpeningMatch |-> "Continuous", Continuous |-> "ClosingCall",
   ClosingCall |-> "ClosingMatch", ClosingMatch |-> "Closed"]
Matching == {"OpeningMatch", "ClosingMatch"}

Opposite(side) == IF side = "Buy" THEN "Sell" ELSE "Buy"
Side(side) == {o \in orders : o.side = side}
IsOldest(o, set) == o \in set /\ \A r \in set : o.id <= r.id
Least(m, n) == IF m < n THEN m ELSE n

\* A set of resting orders with n less of the one named id.
Reduced(set, id, n) ==
  {o \in set : o.id # id}
    \cup {[o EXCEPT !.qty = @ - n] : o \in {r \in set : r.id = id /\ r.qty > n}}

\* Csmar publishes one security of the channel, Tonglian the whole of it.
Step == IF vendor = "csmar" THEN 2 ELSE 1

-----------------------------------------------------------------------------
(* The rows the vendor makes of what happens.                              *)

LocalTime ==
  IF phase \in {"Startup", "OpeningCall", "OpeningMatch"} THEN 18
  ELSE IF phase = "Continuous" THEN 20 ELSE 29
RowTime == IF vendor = "csmar" THEN 48 + LocalTime - Offset
           ELSE 100 * (LocalTime \div 2) + 30 * (LocalTime % 2)

OrderRow(type, code, id, n, price) ==
  [table |-> "order", market |-> market, channel |-> Channel, seq |-> nextSeq,
   time |-> RowTime, price |-> price, qty |-> n, order |-> id, trade |-> 0, bid |-> 0,
   ask |-> 0, type |-> type, code |-> code, flag |-> ""]

\* (The rows of a channel are numbered, and its trades have a number of their own too.)
TradeRow(type, bid, ask, n, price, flag) ==
  [table |-> "trade", market |-> market, channel |-> Channel, seq |-> nextSeq,
   time |-> RowTime, price |-> price, qty |-> n, order |-> 0, trade |-> 100 + nextSeq,
   bid |-> bid, ask |-> ask, type |-> type, code |-> "", flag |-> flag]

SideCode(side) ==
  IF vendor = "csmar" /\ market = "Shenzhen"
    THEN IF side = "Buy" THEN "1" ELSE "2"
    ELSE IF side = "Buy" THEN "B" ELSE "S"
TypeCode(type) ==
  IF market = "Shanghai" THEN "A"
  ELSE IF type = "OwnBest" THEN "U"
  ELSE IF type = "Market" THEN "1"
  ELSE IF vendor = "csmar" THEN "2" ELSE "0"

AddRow(o) == OrderRow(TypeCode(o.type), SideCode(o.side), o.id, o.qty, 1)
StatusRow(code) == OrderRow("S", code, 0, 0, 0)
CancelRow(o) ==
  IF market = "Shanghai" THEN OrderRow("D", SideCode(o.side), o.id, o.qty, 1)
  ELSE TradeRow(IF vendor = "csmar" THEN "4" ELSE "C",
                IF o.side = "Buy" THEN o.id ELSE 0, IF o.side = "Sell" THEN o.id ELSE 0,
                o.qty, 0, "")
FillRow(bid, ask, n, flag) ==
  TradeRow(IF vendor = "csmar" THEN "F" ELSE "0", bid, ask, n, 1, flag)

\* What the vendor may say of a new phase.  Only Shanghai announces its phases, csmar
\* with a code of its own, which Tonglian's rows have decoded already; about the
\* matching of a call there is nothing, or a code nobody knows.
Announcements(new) ==
  IF market = "Shenzhen" THEN {NoRow}
  ELSE IF new \in Matching THEN {NoRow, StatusRow("Unknown")}
  ELSE IF vendor = "tonglian" THEN {StatusRow(new)}
  ELSE {StatusRow(c) : c \in {d \in DOMAIN PhaseOfCode : PhaseOfCode[d] = new}}

\* A step of the exchange publishes one row.
Publish(r) == nextSeq <= MaxSeq /\ row' = r /\ nextSeq' = nextSeq + Step
PublishNothing == UNCHANGED <<row, nextSeq>>

-----------------------------------------------------------------------------
(* The exchange.                                                           *)

\* It goes on when its last row has been delivered or lost.
Goes ==
  /\ row = NoRow
  /\ event' = Nothing
  /\ UNCHANGED <<vendor, market, damaged, mapperVars>>

\* It begins something new at rest, as long as the mapper trusts the feed.
Begins ==
  /\ Goes /\ incoming.qty = 0
  /\ state = "Healthy"
  /\ damaged # NoRow => nextSeq <= damaged.seq + RowsAfter * Step
  /\ seen' = {}

NewOrder(side, n, type) ==
  [id |-> IF market = "Shenzhen" THEN nextSeq ELSE arrived + 1,
   side |-> side, qty |-> n, type |-> type]

EnterCall(side, n) ==
  /\ Begins /\ phase \in {"OpeningCall", "ClosingCall"} /\ arrived < MaxOrders
  /\ orders' = orders \cup {NewOrder(side, n, "Limit")}
  /\ arrived' = arrived + 1 /\ incoming' = Nobody
  /\ Publish(AddRow(NewOrder(side, n, "Limit")))
  /\ UNCHANGED phase

\* In continuous trading an order comes in, is matched with the oldest opposite orders
\* one after the other, and rests if it is not used up.
EnterContinuous(side, n, type) ==
  LET new == NewOrder(side, n, type)
  IN /\ Begins /\ phase = "Continuous" /\ arrived < MaxOrders
     /\ market = "Shanghai" => type = "Limit"
     /\ type = "OwnBest" => Side(side) # {}
     /\ arrived' = arrived + 1 /\ incoming' = new
     /\ \/ market = "Shanghai" /\ UNCHANGED orders /\ PublishNothing
        \/ market = "Shenzhen" /\ orders' = orders \cup {new} /\ Publish(AddRow(new))
     /\ UNCHANGED phase

Deal(buy, sell, n, flag) ==
  /\ orders' = Reduced(Reduced(orders, buy, n), sell, n)
  /\ Publish(FillRow(buy, sell, n, flag))

\* Shanghai's vendors name the active side, and Tonglian may do so for Shenzhen.
Fill(o, flag) ==
  LET n == Least(o.qty, incoming.qty)
  IN /\ Goes /\ incoming.qty > 0 /\ IsOldest(o, Side(Opposite(incoming.side)))
     /\ flag \in IF market = "Shanghai" THEN {SideCode(incoming.side)}
                ELSE IF vendor = "tonglian" THEN {"", SideCode(incoming.side)} ELSE {""}
     /\ IF incoming.side = "Buy" THEN Deal(incoming.id, o.id, n, flag)
                                 ELSE Deal(o.id, incoming.id, n, flag)
     /\ incoming' = [incoming EXCEPT !.qty = @ - n]
     /\ UNCHANGED <<phase, arrived, seen>>

\* Shanghai publishes only now what rests; a market order of Shenzhen does not rest.
Rest ==
  /\ Goes /\ incoming.qty > 0 /\ Side(Opposite(incoming.side)) = {}
  /\ \/ /\ market = "Shanghai"
        /\ orders' = orders \cup {incoming} /\ Publish(AddRow(incoming))
     \/ /\ market = "Shenzhen" /\ incoming.type = "Market"
        /\ orders' = orders \ {incoming} /\ Publish(CancelRow(incoming))
     \/ /\ market = "Shenzhen" /\ incoming.type # "Market"
        /\ UNCHANGED orders /\ PublishNothing
  /\ incoming' = [incoming EXCEPT !.qty = 0]
  /\ UNCHANGED <<phase, arrived, seen>>

CancelOrder(o) ==
  /\ Begins /\ phase \in {"OpeningCall", "Continuous"}
  /\ orders' = orders \ {o}
  /\ incoming' = Nobody
  /\ Publish(CancelRow(o))
  /\ UNCHANGED <<phase, arrived>>

\* A call is matched; the vendor may name an active side in the opening one.
MatchCall(buy, sell, flag) ==
  /\ Begins /\ phase \in Matching
  /\ IsOldest(buy, Side("Buy")) /\ IsOldest(sell, Side("Sell"))
  /\ flag \in IF market = "Shenzhen" THEN {""}
             ELSE IF phase = "OpeningMatch" THEN {"N", "B", "S"} ELSE {"N"}
  /\ incoming' = Nobody
  /\ Deal(buy.id, sell.id, Least(buy.qty, sell.qty), flag)
  /\ UNCHANGED <<phase, arrived>>

NextPhase ==
  /\ Begins /\ phase # "Closed"
  /\ phase \in Matching => Side("Buy") = {} \/ Side("Sell") = {}
  /\ phase' = PhaseAfter[phase]
  /\ incoming' = Nobody
  /\ \E r \in Announcements(PhaseAfter[phase]) :
       IF r = NoRow THEN PublishNothing ELSE Publish(r)
  /\ UNCHANGED <<orders, arrived>>

-----------------------------------------------------------------------------
(* The mapper and its consumers.                                           *)

\* The book applies an order, a cancel, or a trade to whom the trade names.
Applied(e) ==
  IF e.what = "order"
    THEN CASE e.action = "Add" ->
                book \cup {[id |-> e.id, side |-> e.side, qty |-> e.qty, type |-> e.type]}
           [] e.action = "Cancel" -> Reduced(book, e.id, e.qty)
           [] e.action = "Delete" -> {o \in book : o.id # e.id}
  ELSE IF e.what = "trade"
    THEN IF e.resting # 0 THEN Reduced(book, e.resting, e.qty)
         ELSE Reduced(Reduced(book, e.buy, e.qty), e.sell, e.qty)
  ELSE book

SlipPhaseApply(e) ==   \* slip: the new phase is kept only in continuous trading
  IF e.seq > tracker.sequence
    THEN [phase |-> IF tracker.phase = "Continuous" THEN "Continuous" ELSE e.phase,
          sequence |-> e.seq, answer |-> "Applied"]
  ELSE [tracker EXCEPT !.answer = "Regression"]

\* TradingPhaseTracker::apply.
PhaseApply(e) ==
  IF e.phase = "Unknown" \/ e.seq = 0 THEN [tracker EXCEPT !.answer = "Unsupported"]
  ELSE IF e.seq = tracker.sequence THEN [tracker EXCEPT !.answer = "Duplicate"]
  ELSE IF e.seq < tracker.sequence THEN [tracker EXCEPT !.answer = "Regression"]
  ELSE [phase |-> e.phase, sequence |-> e.seq, answer |-> "Applied"]

Outcome(r) == IF vendor = "csmar" THEN CsmarRow(r, market) ELSE TonglianRow(r, market)

\* What the consumers make of what is published: nothing, if the row was not accepted.
Consumed(e) ==
  /\ event' = e
  /\ book' = Applied(e)
  /\ tracker' = IF e.what = "phase" THEN PhaseApply(e) ELSE tracker

SlipMapRow(r) ==   \* slip: the number a trade falls back on is observed as well
  /\ Observe(r.channel, IF vendor = "tonglian" /\ r.seq = 0 THEN r.trade ELSE r.seq)
  /\ Consumed(IF obs'.event = "Accepted" THEN Outcome(r).event ELSE Nothing)

SlipKeepEvent(r) ==   \* slip: what an ignored row finds in the result is not cleared
  /\ Observe(r.channel, r.seq)
  /\ Consumed(IF obs'.event = "Accepted" THEN Outcome(r).event ELSE event)

\* map(): the gate is asked first, whatever the row is; a row it does not accept
\* is Ignored, and only what is publishable reaches the consumers.
MapRow(r) ==
  /\ Observe(r.channel, r.seq)
  /\ Consumed(IF obs'.event = "Accepted" THEN Outcome(r).event ELSE Nothing)

Deliver(r) ==
  /\ row # NoRow /\ row' = NoRow
  /\ MapRow(r)
  /\ seen' = seen \cup {r}
  /\ UNCHANGED <<vendor, market, exchangeVars>>

DeliverNext == Deliver(row) /\ UNCHANGED damaged

\* A row comes again, perhaps behind a younger one.
Redeliver ==
  /\ \E r \in seen : MapRow(r)
  /\ UNCHANGED <<vendor, market, exchangeVars, row, seen, damaged>>

\* A row is lost.  (A file of one security hides that from a monotonic gate.)
Lose ==
  /\ vendor = "tonglian" /\ row # NoRow /\ row' = NoRow
  /\ UNCHANGED <<vendor, market, exchangeVars, seen, damaged, event, mapperVars>>

\* A row with one field missing, or with a value nobody knows.
Spoiled(r) ==
  {[r EXCEPT !.time = 0], [r EXCEPT !.seq = 0], [r EXCEPT !.price = 0],
   [r EXCEPT !.qty = 0], [r EXCEPT !.order = 0], [r EXCEPT !.trade = 0],
   [r EXCEPT !.bid = 0], [r EXCEPT !.ask = 0], [r EXCEPT !.type = "?"],
   [r EXCEPT !.code = "?"], [r EXCEPT !.flag = "?"], [r EXCEPT !.market = "Unknown"]} \ {r}

DeliverDamaged ==
  /\ row # NoRow /\ arrived <= DamagedUpTo /\ damaged = NoRow
  /\ \E r \in Spoiled(row) : Deliver(r)
  /\ damaged' = row

-----------------------------------------------------------------------------
\* A mapper with a baseline at the start of the day.
DayInit ==
  /\ vendor \in {"csmar", "tonglian"} /\ market \in {"Shanghai", "Shenzhen"}
  /\ phase = "Startup" /\ orders = {} /\ arrived = 0 /\ incoming = Nobody
  /\ nextSeq = Step /\ row = NoRow /\ seen = {} /\ damaged = NoRow
  /\ event = Nothing /\ book = {}
  /\ tracker = [phase |-> "Unknown", sequence |-> 0, answer |-> "None"]
  /\ state = "Healthy" /\ partition = Channel /\ feed = <<0>>
  /\ mode = IF vendor = "csmar" THEN "Monotonic" ELSE "Contiguous"
  /\ lastAccepted = 0 /\ lastReceived = 0
  /\ stats = [c \in Counters |-> 0] /\ obs = [event |-> "Invalid", expected |-> 0]
  /\ observed = 0

DayNext ==
  \/ \E side \in {"Buy", "Sell"}, n \in Quantities :
       \/ EnterCall(side, n)
       \/ \E type \in {"Limit", "Market", "OwnBest"} : EnterContinuous(side, n, type)
  \/ \E o \in orders :
       \/ \E flag \in {"", "B", "S"} : Fill(o, flag)
       \/ CancelOrder(o)
  \/ Rest
  \/ \E buy, sell \in orders, flag \in {"", "N", "B", "S"} : MatchCall(buy, sell, flag)
  \/ NextPhase
  \/ DeliverNext
  \/ Redeliver
  \/ Lose
  \/ DeliverDamaged

DaySpec == DayInit /\ [][DayNext]_dayVars

-----------------------------------------------------------------------------
(* Properties.                                                             *)

\* The mapper is trusted and has seen every row of an undamaged feed.
UpToDate == state = "Healthy" /\ damaged = NoRow /\ lastAccepted = nextSeq - Step

\* Then the book is the exchange's, whichever vendor and market, also while an order is
\* being matched: in both calls and in continuous trading every trade reduces exactly
\* the orders that are in the book, and no repeated row is applied again.
BookFollowsExchange == UpToDate => book = orders

\* The tracker behind the mapper is in the phase the exchange announced last, and
\* never has a reason to refuse an update.
PhaseFollowsExchange ==
  /\ tracker.answer \in {"None", "Applied"}
  /\ UpToDate /\ market = "Shanghai" =>
       tracker.phase = CASE phase = "Startup" -> "Unknown"
                         [] phase = "OpeningMatch" -> "OpeningCall"
                         [] phase = "ClosingMatch" -> "ClosingCall"
                         [] OTHER -> phase

\* The active side of a trade in continuous trading is the side of the order that
\* came in, told by the vendor or inferred from the order numbers.
AggressorIsIncoming ==
  event.what = "trade" /\ phase = "Continuous" /\ damaged = NoRow =>
    event.aggressor = incoming.side

\* The number of the last row that was delivered or lost.
Gone == IF row = NoRow THEN nextSeq - Step ELSE row.seq - Step

\* The gate hears only of numbers the vendor gave to rows: a trade row without one is
\* passed over, and the transaction number its event would bear instead never moves the
\* cursor, nor is it remembered as received, where the next recovery would begin.
CursorIsOfChannel ==
  /\ lastAccepted <= Gone /\ lastReceived <= Gone
  /\ state = "Healthy" => lastReceived = lastAccepted

\* Every row that is gone has been accepted, but for a damaged one that came last.
CaughtUp ==
  \/ lastAccepted = Gone
  \/ damaged # NoRow /\ damaged.seq = Gone /\ lastAccepted = Gone - Step

\* The orders a row is about.  (Csmar's rows of Shenzhen's orders name them by their own
\* number.)
Names(r) ==
  {0, r.bid, r.ask,
   IF vendor = "csmar" /\ market = "Shenzhen" THEN r.seq ELSE r.order}
Unhurt(set) == {o \in set : o.id \notin Names(damaged)}

\* Whichever field of a row is missing, the book goes wrong at most about the orders that
\* row is about, while the feed goes on: of all others it stays the exchange's.
DamageIsContained ==
  damaged # NoRow /\ state = "Healthy" /\ row = NoRow /\ CaughtUp =>
    Unhurt(book) = Unhurt(orders)

=============================================================================
