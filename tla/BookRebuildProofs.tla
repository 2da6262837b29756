------------------------- MODULE BookRebuildProofs -------------------------
(***************************************************************************)
(* The trading day, for every number of orders, all quantities and every   *)
(* width of the sequence numbers: what both vendors' mappers make of both  *)
(* markets' rows keeps a book and a tracker in step with the exchange.     *)
(*                                                                         *)
(* The invariant (DayInv) says where the book is between two rows: behind  *)
(* the exchange by exactly the row on its way (StepInv).  It needs to know *)
(* how far the cursor may be behind that row (CursorInv), and that order   *)
(* numbers name one order each and grow (IdsInv), as the inference of the  *)
(* active side does.  After a damaged row the same is so of the orders     *)
(* that row was not about (ContainInv), because what a row becomes names   *)
(* only orders the row is about (IsSound).  The exchange's steps are       *)
(* proved against what the mappers make of their rows, the mapper's        *)
(* against the gate's lemmas.                                              *)
(***************************************************************************)
EXTENDS BookRebuild, SequenceGateProofs

\* What an order and a row may be.
Sides == {"Buy", "Sell"}
Types == {"Limit", "Market", "OwnBest"}
Orders == [id : Nat \ {0}, side : Sides, qty : Nat \ {0}, type : Types]
Texts ==
  {"", "?", "0", "1", "2", "4", "A", "B", "C", "D", "F", "N", "S", "U"}
    \cup {"Shanghai", "Shenzhen", "Unknown", "Closed"}
    \cup DOMAIN PhaseAfter \cup DOMAIN PhaseOfCode
Rows == [table : {"order", "trade"}, market : Texts, channel : {Channel}, seq : Sequences0,
         time : Nat, price : Nat, qty : Nat, order : Nat, trade : Nat, bid : Nat,
         ask : Nat, type : Texts, code : Texts, flag : Texts]

\* The exchange: its phase, its orders, and the order it is matching.
ExchangeType ==
  /\ phase \in DOMAIN PhaseAfter \cup {"Closed"}
  /\ orders \subseteq Orders /\ arrived \in Nat
  /\ incoming = Nobody \/ incoming \in [id : Nat \ {0}, side : Sides, qty : Nat, type : Types]

\* The number the next order gets is above every number there is.
NextId == IF market = "Shenzhen" THEN nextSeq ELSE arrived + 1

\* Order numbers are unique and grow, so that a row's number names one order, and the
\* order that is being matched is the youngest.
IdsInv ==
  /\ \A o, r \in orders : o.id = r.id => o = r
  /\ \A o \in orders : o.id < NextId
  /\ market = "Shanghai" => \A o \in orders : o.type = "Limit"
  /\ incoming.qty > 0 =>
       /\ incoming.id < NextId
       /\ market = "Shanghai" => incoming.type = "Limit"
       /\ market = "Shenzhen" => incoming \in orders
       /\ phase = "Continuous"
       /\ \A o \in orders : o.id < incoming.id \/ (market = "Shenzhen" /\ o = incoming)

DayType ==
  /\ vendor \in {"csmar", "tonglian"} /\ market \in {"Shanghai", "Shenzhen"}
  /\ ExchangeType
  /\ nextSeq \in Nat /\ nextSeq >= Step
  /\ row # NoRow => row \in Rows /\ row.seq = nextSeq - Step /\ row.seq >= Step
  /\ seen \subseteq Rows
  /\ damaged # NoRow => damaged \in Rows
  /\ partition = Channel /\ state \in {"Healthy", "Stale"}
  /\ mode = IF vendor = "csmar" THEN "Monotonic" ELSE "Contiguous"
  /\ tracker.sequence \in Nat

\* The cursor is never ahead of the feed, nor behind what it has accepted, and a file of
\* one security never shows a monotonic gate more missing than the damaged row that came
\* last.  Nothing the mapper publishes is older than what the tracker applied.
CursorInv ==
  /\ tracker.sequence <= lastAccepted
  /\ tracker.answer \in {"None", "Applied"}
  /\ CursorIsOfChannel
  /\ \A r \in seen : r.seq <= Gone
  /\ damaged # NoRow => damaged.seq <= Gone
  /\ state = "Healthy" =>
       /\ vendor = "csmar" => CaughtUp
       /\ \A r \in seen : r.seq <= lastAccepted

\* The phase announced last, and what the mapper will make of the row on its way.
Announced ==
  IF phase = "Startup" THEN "Unknown"
  ELSE IF phase = "OpeningMatch" THEN "OpeningCall"
  ELSE IF phase = "ClosingMatch" THEN "ClosingCall" ELSE phase
Pending == IF row = NoRow THEN Nothing ELSE Outcome(row).event

\* The book and the tracker are one row behind the exchange, and the row on its way
\* makes up for it: whether or not the order that came in is matched to its end.
StepInv ==
  state = "Healthy" /\ damaged = NoRow /\ lastAccepted = Gone =>
    /\ Applied(Pending) = orders
    /\ market = "Shanghai" =>
         Announced = IF Pending.what = "phase" THEN Pending.phase ELSE tracker.phase
    /\ phase = "Continuous" /\ Pending.what = "trade" =>
         Pending.aggressor = incoming.side

\* What a book holds.
Entries(set) == \A o \in set : o = [id |-> o.id, side |-> o.side, qty |-> o.qty, type |-> o.type]

\* After a damaged row the same is so of the orders that row was not about.
ContainInv ==
  /\ Entries(book)
  /\ state = "Healthy" /\ damaged # NoRow /\ CaughtUp =>
       Unhurt(Applied(Pending)) = Unhurt(orders)

DayInv == DayType /\ CursorInv /\ IdsInv /\ StepInv /\ ContainInv /\ AggressorIsIncoming

-----------------------------------------------------------------------------
(* What the market mappers make of a view.                                 *)

\* What is published names only orders whose numbers are in N, and a phase bears the
\* sequence s and is known.
IsSound(e, s, N) ==
  \/ e.what = "none"
  \/ e.what = "phase" /\ e.seq = s /\ e.phase # "Unknown"
  \/ e.what = "trade" /\ e.resting \in N /\ e.buy \in N /\ e.sell \in N
  \/ e.what = "order" /\ e.id \in N /\ e.action \in {"Add", "Cancel", "Delete"}

\* A row that fails publishes nothing.
LEMMA FailureIsSound ==
  ASSUME NEW s, NEW N, NEW status PROVE IsSound(Failed(status).event, s, N)
  BY DEF Failed, IsSound

\* An order event names the order of its view.
LEMMA BookOrderIsSound ==
  ASSUME NEW v, NEW N, v.id \in N, NEW action \in {"Add", "Delete"}, NEW type, NEW status
  PROVE  IsSound(Published(status, BookOrder(v, action, type)).event, v.seq, N)
  BY DEF Published, BookOrder, IsSound

\* So do both markets' order mappers.
LEMMA OrdersAreSound ==
  ASSUME NEW v, NEW N, v.id \in N
  PROVE  IsSound(SseOrder(v).event, v.seq, N) /\ IsSound(SzseOrder(v).event, v.seq, N)
  <1>1. IsSound(SseOrder(v).event, v.seq, N)
    <2>1. CASE v.kind = "TradingPhase" \/ NamesNoOrder(v)
      BY <2>1, FailureIsSound DEF SseOrder
    <2>2. CASE ~(v.kind = "TradingPhase" \/ NamesNoOrder(v))
      BY <2>2, FailureIsSound, BookOrderIsSound DEF SseOrder
    <2>3. QED BY <2>1, <2>2
  <1>2. IsSound(SzseOrder(v).event, v.seq, N)
    BY FailureIsSound, BookOrderIsSound DEF SzseOrder
  <1>3. QED BY <1>1, <1>2

\* A phase is published only if it is known.
LEMMA PhaseIsSound ==
  ASSUME NEW v, NEW N PROVE IsSound(SsePhase(v).event, v.seq, N)
  <1>1. CASE v.kind # "TradingPhase" \/ v.phase = "Unknown"
    BY <1>1, FailureIsSound DEF SsePhase
  <1>2. CASE ~(v.kind # "TradingPhase" \/ v.phase = "Unknown")
    BY <1>2 DEF SsePhase, Published, IsSound
  <1>3. QED BY <1>1, <1>2

\* A cancel names one of the two orders of its view.
LEMMA CancelIsSound ==
  ASSUME NEW v, NEW s, NEW N, NEW status, v.bid \in N, v.ask \in N
  PROVE  IsSound(Cancel(v, status).event, s, N)
  <1> DEFINE id == IF v.ask # 0 THEN v.ask ELSE v.bid
             failed == v.kind # "Cancel" \/ v.qty <= 0 \/ id = 0
             e == [what |-> "order", action |-> "Cancel", id |-> id, side |-> "Unknown",
                   qty |-> v.qty, type |-> "Unknown", seq |-> v.seq]
  <1>1. Cancel(v, status) = IF failed THEN Failed("Invalid") ELSE Published(status, e)
    BY DEF Cancel
  <1>2. e.what = "order" /\ e.id = id /\ e.action = "Cancel" /\ id \in N
    OBVIOUS
  <1> HIDE DEF failed, id, e
  <1>3. Published(status, e).event = e
    BY DEF Published
  <1>4. QED BY <1>1, <1>2, <1>3, FailureIsSound DEF IsSound

\* A trade event names what the mapper gives it.
LEMMA BookTradeIsSound ==
  ASSUME NEW v, NEW s, NEW N, NEW status, NEW resting \in N, NEW buy \in N, NEW sell \in N,
         NEW aggressor
  PROVE  IsSound(Published(status, BookTrade(v, resting, buy, sell, aggressor)).event, s, N)
  BY DEF Published, BookTrade, IsSound

\* Both markets' trade mappers give it orders of the view, or none.
LEMMA TradesAreSound ==
  ASSUME NEW v, NEW s, NEW N, 0 \in N, v.bid \in N, v.ask \in N
  PROVE  IsSound(SseTrade(v).event, s, N) /\ IsSound(SzseTrade(v).event, s, N)
  <1>1. IsSound(SseTrade(v).event, s, N)
    BY FailureIsSound, BookTradeIsSound DEF SseTrade
  <1>2. IsSound(SzseTrade(v).event, s, N)
    BY FailureIsSound, BookTradeIsSound DEF SzseTrade
  <1>3. QED BY <1>1, <1>2

-----------------------------------------------------------------------------
(* What the vendors' mappers make of a row, damaged or not.                *)

\* The fields of the views the vendors' mappers build.
LEMMA OrderViewFields ==
  ASSUME NEW r, NEW id, NEW side, NEW kind, NEW ph
  PROVE  LET v == OrderView(r, id, side, kind, ph)
         IN /\ v.seq = r.seq /\ v.qty = r.qty /\ v.price = r.price
            /\ v.id = id /\ v.side = side /\ v.kind = kind /\ v.phase = ph
  BY DEF OrderView

\* (The provers take a record's fields one definition at a time.)
LEMMA TradeViewFields ==
  ASSUME NEW r, NEW time, NEW trade, NEW kind, NEW aggressor, NEW neutral
  PROVE  LET v == TradeView(r, time, trade, kind, aggressor, neutral)
         IN /\ v.seq = r.seq /\ v.qty = r.qty /\ v.price = r.price
            /\ v.bid = r.bid /\ v.ask = r.ask
            /\ v.time = time /\ v.trade = trade /\ v.kind = kind
            /\ v.aggressor = aggressor /\ v.neutral = neutral
  BY DEF TradeView

\* Whatever is in a row of csmar's tables.
LEMMA CsmarIsSound ==
  ASSUME NEW r, NEW mkt, NEW N, 0 \in N, r.bid \in N, r.ask \in N,
         IF mkt = "Shanghai" THEN r.order \in N ELSE r.seq \in N
  PROVE  IsSound(CsmarRow(r, mkt).event, r.seq, N)
  <1>1. ASSUME r.order \in N PROVE IsSound(CsmarShanghaiOrder(r).event, r.seq, N)
    <2> DEFINE side == BuySell(r.code)
               v == [kind |-> "Cancel", qty |-> r.qty, seq |-> r.seq,
                     bid |-> IF side = "Buy" THEN r.order ELSE 0,
                     ask |-> IF side = "Sell" THEN r.order ELSE 0]
    <2>1. CASE r.type = "S"
      BY <2>1, PhaseIsSound, OrderViewFields DEF CsmarShanghaiOrder
    <2>2. CASE r.type = "D"
      <3>1. v.bid \in N /\ v.ask \in N
        BY <1>1
      <3> HIDE DEF v
      <3>2. CsmarShanghaiOrder(r) = Cancel(v, "MappedDiagnostic")
        BY <2>2 DEF CsmarShanghaiOrder, SseCancel, v
      <3>3. QED BY <3>1, <3>2, CancelIsSound
    <2>3. CASE r.type # "S" /\ r.type # "D"
      BY <1>1, <2>3, OrdersAreSound, OrderViewFields DEF CsmarShanghaiOrder
    <2>4. QED BY <2>1, <2>2, <2>3
  <1>2. IsSound(CsmarShanghaiTrade(r).event, r.seq, N)
    BY TradesAreSound, TradeViewFields, FailureIsSound DEF CsmarShanghaiTrade
  <1>3. ASSUME r.seq \in N PROVE IsSound(CsmarShenzhenOrder(r).event, r.seq, N)
    BY <1>3, OrdersAreSound, OrderViewFields DEF CsmarShenzhenOrder
  <1>4. IsSound(CsmarShenzhenTrade(r).event, r.seq, N)
    <2> DEFINE v == TradeView(r, CsmarTime(r.time), IF r.type = "F" THEN r.seq ELSE 0,
                              IF r.type = "F" THEN "Trade" ELSE "Cancel", "Unknown", FALSE)
    <2>1. v.bid \in N /\ v.ask \in N
      BY DEF TradeView
    <2> HIDE DEF v
    <2>2. \/ CsmarShenzhenTrade(r) = Failed("Invalid")
          \/ CsmarShenzhenTrade(r) = SzseTrade(v)
          \/ CsmarShenzhenTrade(r) = Cancel(v, "Mapped")
      BY DEF CsmarShenzhenTrade, SzseCancel, v
    <2>3. QED BY <2>1, <2>2, TradesAreSound, CancelIsSound, FailureIsSound
  <1>5. QED BY <1>1, <1>2, <1>3, <1>4, FailureIsSound DEF CsmarRow

\* Whatever is in a row of Tonglian's.
LEMMA TonglianIsSound ==
  ASSUME NEW r, NEW mkt, NEW N, 0 \in N, r.bid \in N, r.ask \in N, r.order \in N
  PROVE  IsSound(TonglianRow(r, mkt).event, r.seq, N)
  <1>1. IsSound(TonglianTrade(r, mkt).event, r.seq, N)
    <2> DEFINE kind == IF r.type = "C" THEN "Cancel"
                       ELSE IF r.type \in {"0", ""} THEN "Trade" ELSE "Unknown"
               w == TradeView(r, TonglianTime(r.time), r.trade, kind,
                              BuySell(r.flag), r.flag = "N")
               v == [w EXCEPT !.seq = IF r.seq # 0 THEN r.seq ELSE r.trade]
    <2>1. v.bid \in N /\ v.ask \in N
      BY DEF TradeView
    <2> HIDE DEF v
    <2>2. \/ TonglianTrade(r, mkt) = Failed("Unsupported")
          \/ TonglianTrade(r, mkt) = SseTrade(v)
          \/ TonglianTrade(r, mkt) = SzseTrade(v)
          \/ \E status : TonglianTrade(r, mkt) = Cancel(v, status)
      BY DEF TonglianTrade, SzseCancel, SseCancel, v
    <2>3. QED BY <2>1, <2>2, TradesAreSound, CancelIsSound, FailureIsSound
  <1>2. IsSound(TonglianStatus(r, mkt).event, r.seq, N)
    <2> DEFINE v == OrderView(r, 0, "Unknown", "TradingPhase", r.code)
    <2>1. v.seq = r.seq
      BY DEF OrderView
    <2> HIDE DEF v
    <2>2. TonglianStatus(r, mkt) = Failed("Unsupported") \/ TonglianStatus(r, mkt) = SsePhase(v)
      BY DEF TonglianStatus, v
    <2>3. QED BY <2>1, <2>2, PhaseIsSound, FailureIsSound
  <1>3. IsSound(TonglianOrder(r, mkt).event, r.seq, N)
    <2> DEFINE v == OrderView(r, r.order, BuySell(r.code), TonglianKind(r.type, mkt), "Unknown")
    <2>1. v.seq = r.seq /\ v.id \in N
      BY DEF OrderView
    <2> HIDE DEF v
    <2>2. \/ TonglianOrder(r, mkt) = SseOrder(v)
          \/ TonglianOrder(r, mkt) = SzseOrder(v)
          \/ TonglianOrder(r, mkt) = Failed("Unsupported")
      BY DEF TonglianOrder, v
    <2>3. QED BY <2>1, <2>2, OrdersAreSound, FailureIsSound
  <1>4. QED BY <1>1, <1>2, <1>3 DEF TonglianRow

\* Whatever is in a row, the event names only the orders the row is about.
LEMMA OutcomeIsSound ==
  ASSUME NEW r, market \in {"Shanghai", "Shenzhen"}
  PROVE  IsSound(Outcome(r).event, r.seq, Names(r))
  <1>1. 0 \in Names(r) /\ r.bid \in Names(r) /\ r.ask \in Names(r)
        /\ IF vendor = "csmar" /\ market = "Shenzhen" THEN r.seq \in Names(r)
                                                     ELSE r.order \in Names(r)
    BY DEF Names
  <1>2. QED BY <1>1, CsmarIsSound, TonglianIsSound DEF Outcome

-----------------------------------------------------------------------------
(* What the mapper makes of an undamaged row.                              *)

\* The vendor's time is the exchange's, whichever vendor.
LEMMA TimeOfRow ==
  ASSUME DayType
  PROVE  /\ RowTime \in Nat \ {0}
         /\ CsmarTime(RowTime) = LocalTime \/ vendor # "csmar"
         /\ TonglianTime(RowTime) = LocalTime \/ vendor = "csmar"
         /\ LocalTime < Opening <=> phase \in {"Startup", "OpeningCall", "OpeningMatch"}
  <1>1. LocalTime \in {18, 20, 29}
    BY DEF LocalTime
  <1>2. LocalTime < Opening <=> phase \in {"Startup", "OpeningCall", "OpeningMatch"}
    BY <1>1, SMT DEF LocalTime, Opening
  <1>3. CASE LocalTime = 18
    BY <1>2, <1>3, SMT DEF RowTime, CsmarTime, TonglianTime, Day, Offset
  <1>4. CASE LocalTime = 20
    BY <1>2, <1>4, SMT DEF RowTime, CsmarTime, TonglianTime, Day, Offset
  <1>5. CASE LocalTime = 29
    BY <1>2, <1>5, SMT DEF RowTime, CsmarTime, TonglianTime, Day, Offset
  <1>6. QED BY <1>1, <1>3, <1>4, <1>5

\* The vendors' characters mean what the mappers take them for.
LEMMA Codes ==
  /\ ShenzhenSide("1") = "Buy" /\ ShenzhenSide("2") = "Sell"
  /\ BuySell("B") = "Buy" /\ BuySell("S") = "Sell"
  /\ BuySell("N") = "Unknown" /\ BuySell("") = "Unknown"
  /\ ShenzhenKind("1") = "AddMarket" /\ ShenzhenKind("2") = "AddLimit"
  /\ ShenzhenKind("U") = "AddOwnBest"
  /\ TonglianKind("A", "Shanghai") = "AddLimit"
  /\ TonglianKind("D", "Shanghai") = "Delete"
  /\ TonglianKind("0", "Shenzhen") = "AddLimit"
  /\ TonglianKind("1", "Shenzhen") = "AddMarket"
  /\ TonglianKind("U", "Shenzhen") = "AddOwnBest"
  BY DEF ShenzhenSide, BuySell, ShenzhenKind, TonglianKind

\* The market mappers' answers to views that are whole.
LEMMA SseAdds ==
  ASSUME NEW v, v.kind = "AddLimit", v.id # 0, v.side \in Sides, v.qty \in Nat, v.price \in Nat
  PROVE  SseOrder(v) = Published("MappedDiagnostic", BookOrder(v, "Add", "Limit"))
  <1>1. ~NamesNoOrder(v)
    BY SMT DEF NamesNoOrder, Sides
  <1>2. QED BY <1>1 DEF SseOrder

\* Shanghai's orders are deleted by their number.
LEMMA SseDeletes ==
  ASSUME NEW v, v.kind = "Delete", v.id # 0, v.side \in Sides, v.qty \in Nat, v.price \in Nat
  PROVE  SseOrder(v) = Published("MappedDiagnostic", BookOrder(v, "Delete", "Limit"))
  <1>1. ~NamesNoOrder(v)
    BY SMT DEF NamesNoOrder, Sides
  <1>2. QED BY <1>1 DEF SseOrder

\* Shenzhen's orders are of three types.
LEMMA SzseAdds ==
  ASSUME NEW v, NEW type \in Types,
         v.kind = (IF type = "Limit" THEN "AddLimit"
                   ELSE IF type = "Market" THEN "AddMarket" ELSE "AddOwnBest"),
         v.id # 0, v.side \in Sides, v.qty \in Nat, v.price \in Nat
  PROVE  SzseOrder(v) = Published("Mapped", BookOrder(v, "Add", type))
  <1>1. ~NamesNoOrder(v)
    BY SMT DEF NamesNoOrder, Sides
  <1>2. v.kind \in DOMAIN OrderTypes /\ OrderTypes[v.kind] = type
    BY DEF OrderTypes, Types
  <1>3. QED BY <1>1, <1>2 DEF SzseOrder

\* The canceled order is the one that is named, on either side.
LEMMA Cancels ==
  ASSUME NEW v, NEW status, v.kind = "Cancel", v.qty \in Nat \ {0},
         NEW id \in Nat \ {0}, v.ask = id \/ (v.ask = 0 /\ v.bid = id)
  PROVE  Cancel(v, status) =
           Published(status, [what |-> "order", action |-> "Cancel", id |-> id,
                              side |-> "Unknown", qty |-> v.qty, type |-> "Unknown",
                              seq |-> v.seq])
  <1>1. (IF v.ask # 0 THEN v.ask ELSE v.bid) = id /\ ~(v.qty <= 0) /\ id # 0
    BY SMT
  <1>2. QED BY <1>1 DEF Cancel

\* The event that adds an order to a book.
Added(o) ==
  [what |-> "order", action |-> "Add", id |-> o.id, side |-> o.side, qty |-> o.qty,
   type |-> o.type, seq |-> nextSeq]

\* The row of a new order becomes that order.
LEMMA AddOutcome ==
  ASSUME DayType, NEW o \in Orders,
         market = "Shanghai" => o.type = "Limit", market = "Shenzhen" => o.id = nextSeq
  PROVE  Outcome(AddRow(o)).event = Added(o)
  <1> DEFINE r == AddRow(o)
  <1>1. /\ r.table = "order" /\ r.market = market /\ r.seq = nextSeq /\ r.time = RowTime
        /\ r.price = 1 /\ r.qty = o.qty /\ r.order = o.id
        /\ r.type = TypeCode(o.type) /\ r.code = SideCode(o.side)
    BY DEF AddRow, OrderRow
  <1> HIDE DEF r
  <1>2. /\ o.id \in Nat /\ o.id # 0 /\ o.qty \in Nat /\ 1 \in Nat
        /\ o.side \in Sides /\ o.type \in Types
    BY DEF Orders
  <1>3. RowTime # 0
    BY TimeOfRow
  <1>4. CASE market = "Shanghai"
    <2> DEFINE v == OrderView(r, o.id, o.side, "AddLimit", "Unknown")
    <2>1. /\ v.kind = "AddLimit" /\ v.id = o.id /\ v.side = o.side
          /\ v.qty = o.qty /\ v.price = 1 /\ v.seq = nextSeq
      BY <1>1 DEF OrderView
    <2>2. r.type = "A" /\ r.order = o.id /\ BuySell(r.code) = o.side
      BY <1>1, <1>2, <1>4, Codes DEF TypeCode, SideCode, Sides
    <2> HIDE DEF v
    <2>3. ASSUME vendor = "csmar" PROVE Outcome(r) = SseOrder(v)
      <3>1. Outcome(r) = CsmarShanghaiOrder(r)
        BY <1>1, <1>3, <1>4, <2>3 DEF Outcome, CsmarRow
      <3>2. CsmarShanghaiOrder(r) = SseOrder(v)
        BY <2>2 DEF CsmarShanghaiOrder, v
      <3>3. QED BY <3>1, <3>2
    <2>4. ASSUME vendor # "csmar" PROVE Outcome(r) = SseOrder(v)
      <3>1. Outcome(r) = TonglianOrder(r, market)
        BY <1>1, <2>2, <2>4 DEF Outcome, TonglianRow
      <3>2. TonglianKind(r.type, market) = "AddLimit"
        BY <1>4, <2>2, Codes
      <3>3. TonglianOrder(r, market) = SseOrder(v)
        BY <1>4, <2>2, <3>2 DEF TonglianOrder, v
      <3>4. QED BY <3>1, <3>3
    <2>5. Outcome(r) = SseOrder(v)
      BY <2>3, <2>4
    <2>6. SseOrder(v) = Published("MappedDiagnostic", BookOrder(v, "Add", "Limit"))
      BY <1>2, <2>1, SseAdds
    <2>7. BookOrder(v, "Add", "Limit") = Added(o)
      BY <1>4, <2>1 DEF BookOrder, Added
    <2>8. QED BY <2>5, <2>6, <2>7 DEF Published, r
  <1>5. CASE market = "Shenzhen"
    <2> DEFINE kind == IF o.type = "Limit" THEN "AddLimit"
                       ELSE IF o.type = "Market" THEN "AddMarket" ELSE "AddOwnBest"
               v == OrderView(r, o.id, o.side, kind, "Unknown")
    <2>1. /\ v.kind = kind /\ v.id = o.id /\ v.side = o.side
          /\ v.qty = o.qty /\ v.price = 1 /\ v.seq = nextSeq
      BY <1>1 DEF OrderView
    <2> HIDE DEF v
    <2>3. ASSUME vendor = "csmar" PROVE Outcome(r) = SzseOrder(v)
      <3>1. Outcome(r) = CsmarShenzhenOrder(r)
        BY <1>1, <1>3, <1>5, <2>3 DEF Outcome, CsmarRow
      <3>2. r.seq = o.id /\ ShenzhenSide(r.code) = o.side /\ ShenzhenKind(r.type) = kind
        BY <1>1, <1>2, <1>5, <2>3, Codes DEF TypeCode, SideCode, Sides, Types
      <3>3. CsmarShenzhenOrder(r) = SzseOrder(v)
        BY <3>2 DEF CsmarShenzhenOrder, v
      <3>4. QED BY <3>1, <3>3
    <2>4. ASSUME vendor # "csmar" PROVE Outcome(r) = SzseOrder(v)
      <3>1. r.type # "S" /\ BuySell(r.code) = o.side /\ r.order = o.id
        BY <1>1, <1>2, <1>5, <2>4, Codes DEF TypeCode, SideCode, Sides, Types
      <3>2. Outcome(r) = TonglianOrder(r, market)
        BY <1>1, <3>1, <2>4 DEF Outcome, TonglianRow
      <3>3. TonglianKind(r.type, market) = kind
        BY <1>1, <1>2, <1>5, <2>4, Codes DEF TypeCode, Types
      <3>4. TonglianOrder(r, market) = SzseOrder(v)
        BY <1>5, <3>1, <3>3 DEF TonglianOrder, v
      <3>5. QED BY <3>2, <3>4
    <2>5. Outcome(r) = SzseOrder(v)
      BY <2>3, <2>4
    <2>6. SzseOrder(v) = Published("Mapped", BookOrder(v, "Add", o.type))
      BY <1>2, <2>1, SzseAdds
    <2>7. BookOrder(v, "Add", o.type) = Added(o)
      BY <2>1 DEF BookOrder, Added
    <2>8. QED BY <2>5, <2>6, <2>7 DEF Published, r
  <1>6. QED BY <1>4, <1>5 DEF DayType

\* The row of a canceled order takes that order out, with all that is left of it.
LEMMA CancelOutcome ==
  ASSUME DayType, NEW o \in Orders
  PROVE  LET e == Outcome(CancelRow(o)).event
         IN /\ e.what = "order" /\ e.id = o.id
            /\ e.action = "Delete" \/ (e.action = "Cancel" /\ e.qty = o.qty)
  <1> DEFINE r == CancelRow(o)
             IsCancel(out) == /\ out.event.what = "order" /\ out.event.id = o.id
                              /\ \/ out.event.action = "Delete"
                                 \/ out.event.action = "Cancel" /\ out.event.qty = o.qty
  <1>0. /\ o.id \in Nat \ {0} /\ o.id # 0 /\ o.qty \in Nat \ {0} /\ o.qty \in Nat /\ 1 \in Nat
        /\ o.side \in Sides
    BY DEF Orders
  <1>1. RowTime # 0 /\ nextSeq # 0
    <2>1. nextSeq # 0
      BY SMT DEF DayType, Step
    <2>2. QED BY <2>1, TimeOfRow
  <1>2. ASSUME NEW v, NEW status, v.kind = "Cancel", v.qty = o.qty,
               v.ask = o.id \/ (v.ask = 0 /\ v.bid = o.id)
        PROVE  IsCancel(Cancel(v, status))
    <2>1. Cancel(v, status) =
            Published(status, [what |-> "order", action |-> "Cancel", id |-> o.id,
                               side |-> "Unknown", qty |-> v.qty, type |-> "Unknown",
                               seq |-> v.seq])
      BY <1>0, <1>2, Cancels
    <2>2. QED BY <1>2, <2>1 DEF Published
  <1>3. CASE market = "Shanghai"
    <2>1. /\ r.table = "order" /\ r.market = market /\ r.seq = nextSeq /\ r.time = RowTime
          /\ r.price = 1 /\ r.qty = o.qty /\ r.order = o.id
          /\ r.type = "D" /\ r.code = SideCode(o.side)
      BY <1>3 DEF CancelRow, OrderRow
    <2>2. BuySell(r.code) = o.side
      BY <1>0, <1>3, <2>1, Codes DEF SideCode, Sides
    <2> HIDE DEF r
    <2>3. ASSUME vendor = "csmar" PROVE IsCancel(Outcome(r))
      <3> DEFINE v == [kind |-> "Cancel", qty |-> r.qty, seq |-> r.seq,
                       bid |-> IF o.side = "Buy" THEN r.order ELSE 0,
                       ask |-> IF o.side = "Sell" THEN r.order ELSE 0]
      <3>1. v.kind = "Cancel" /\ v.qty = o.qty /\ (v.ask = o.id \/ (v.ask = 0 /\ v.bid = o.id))
        BY <1>0, <2>1 DEF Sides
      <3> HIDE DEF v
      <3>2. Outcome(r) = CsmarShanghaiOrder(r)
        BY <1>1, <1>3, <2>1, <2>3 DEF Outcome, CsmarRow
      <3>3. CsmarShanghaiOrder(r) = Cancel(v, "MappedDiagnostic")
        BY <2>1, <2>2 DEF CsmarShanghaiOrder, SseCancel, v
      <3> HIDE DEF IsCancel
      <3>4. QED BY <1>2, <3>1, <3>2, <3>3
    <2>4. ASSUME vendor # "csmar" PROVE IsCancel(Outcome(r))
      <3> DEFINE v == OrderView(r, o.id, o.side, "Delete", "Unknown")
      <3>1. /\ v.kind = "Delete" /\ v.id = o.id /\ v.side = o.side
            /\ v.qty = o.qty /\ v.price = 1 /\ v.seq = nextSeq
        BY <2>1 DEF OrderView
      <3> HIDE DEF v
      <3>2. Outcome(r) = TonglianOrder(r, market)
        BY <2>1, <2>4 DEF Outcome, TonglianRow
      <3>3. TonglianKind(r.type, market) = "Delete"
        BY <1>3, <2>1, Codes
      <3>4. TonglianOrder(r, market) = SseOrder(v)
        BY <1>3, <2>1, <2>2, <3>3 DEF TonglianOrder, v
      <3>5. SseOrder(v) = Published("MappedDiagnostic", BookOrder(v, "Delete", "Limit"))
        BY <1>0, <3>1, SseDeletes
      <3>6. QED BY <3>1, <3>2, <3>4, <3>5 DEF Published, BookOrder
    <2>5. IsCancel(Outcome(r))
      BY <2>3, <2>4
    <2>6. QED BY <2>5 DEF r
  <1>4. CASE market = "Shenzhen"
    <2>1. /\ r.table = "trade" /\ r.market = market /\ r.seq = nextSeq /\ r.time = RowTime
          /\ r.qty = o.qty /\ r.price = 0
          /\ r.bid = (IF o.side = "Buy" THEN o.id ELSE 0)
          /\ r.ask = (IF o.side = "Sell" THEN o.id ELSE 0)
          /\ r.type = (IF vendor = "csmar" THEN "4" ELSE "C")
      BY <1>4 DEF CancelRow, TradeRow
    <2>2. (r.ask = o.id \/ (r.ask = 0 /\ r.bid = o.id)) /\ ((r.bid = 0) # (r.ask = 0))
      BY <1>0, <2>1 DEF Sides
    <2>3. ~(r.qty <= 0)
      BY <1>0, <2>1, SMT
    <2> HIDE DEF r
    <2>4. ASSUME vendor = "csmar" PROVE IsCancel(Outcome(r))
      <3> DEFINE v == TradeView(r, CsmarTime(r.time), 0, "Cancel", "Unknown", FALSE)
      <3>1. v.kind = "Cancel" /\ v.qty = o.qty /\ v.ask = r.ask /\ v.bid = r.bid
        BY <2>1 DEF TradeView
      <3> HIDE DEF v
      <3>2. Outcome(r) = CsmarShenzhenTrade(r)
        BY <1>1, <1>4, <2>1, <2>4 DEF Outcome, CsmarRow
      <3>3. r.type = "4" /\ r.seq # 0
        BY <1>1, <2>1, <2>4
      <3>4. CsmarShenzhenTrade(r) = Cancel(v, "Mapped")
        BY <2>2, <2>3, <3>3 DEF CsmarShenzhenTrade, SzseCancel, v
      <3> HIDE DEF IsCancel
      <3>5. QED BY <1>2, <2>2, <3>1, <3>2, <3>4
    <2>5. ASSUME vendor # "csmar" PROVE IsCancel(Outcome(r))
      <3> DEFINE w == TradeView(r, TonglianTime(r.time), r.trade, "Cancel",
                                BuySell(r.flag), r.flag = "N")
                 v == [w EXCEPT !.seq = IF r.seq # 0 THEN r.seq ELSE r.trade]
      <3>1. v.kind = "Cancel" /\ v.qty = o.qty /\ v.ask = r.ask /\ v.bid = r.bid
        BY <2>1 DEF TradeView
      <3> HIDE DEF v
      <3>2. Outcome(r) = TonglianTrade(r, market)
        BY <2>1, <2>5 DEF Outcome, TonglianRow
      <3>3. r.type = "C"
        BY <2>1, <2>5
      <3>4. TonglianTrade(r, market) = Cancel(v, "Mapped")
        BY <1>4, <3>3 DEF TonglianTrade, SzseCancel, v
      <3> HIDE DEF IsCancel
      <3>5. QED BY <1>2, <2>2, <3>1, <3>2, <3>4
    <2>6. IsCancel(Outcome(r))
      BY <2>4, <2>5
    <2>7. QED BY <2>6 DEF r
  <1>5. QED BY <1>3, <1>4 DEF DayType

\* Shanghai's trades name both orders before the opening and in a call, and later
\* the resting one.
LEMMA SseTrades ==
  ASSUME NEW v, v.kind = "Trade", v.trade # 0, v.qty \in Nat \ {0}, v.price \in Nat,
         NEW early \in BOOLEAN, early <=> v.time < Opening,
         early \/ v.neutral \/ v.aggressor # "Unknown"
  PROVE  SseTrade(v).event =
           IF early \/ v.neutral
             THEN BookTrade(v, 0, v.bid, v.ask, IF v.neutral THEN "Unknown" ELSE v.aggressor)
             ELSE BookTrade(v, IF v.aggressor = "Buy" THEN v.ask ELSE v.bid, 0, 0, v.aggressor)
  <1>1. ~NoTrade(v)
    BY SMT DEF NoTrade
  <1>2. CASE early \/ v.neutral
    BY <1>1, <1>2 DEF SseTrade, Published
  <1>3. CASE ~(early \/ v.neutral)
    BY <1>1, <1>3 DEF SseTrade, Published
  <1>4. QED BY <1>2, <1>3

\* Shenzhen's always name both, and the active side is inferred if it is not told.
LEMMA SzseTrades ==
  ASSUME NEW v, v.kind = "Trade", v.trade # 0, v.qty \in Nat \ {0}, v.price \in Nat,
         v.bid # 0, v.ask # 0
  PROVE  SzseTrade(v).event =
           BookTrade(v, 0, v.bid, v.ask,
                     IF v.aggressor = "Unknown" THEN Inferred(v) ELSE v.aggressor)
  <1>1. ~NoTrade(v)
    BY SMT DEF NoTrade
  <1>2. QED BY <1>1 DEF SzseTrade, Published

\* The flag a vendor may give a trade.
IsFlag(flag) ==
  IF market = "Shanghai" THEN flag \in {"B", "S", "N"}
  ELSE flag \in {"", "B", "S"} /\ (vendor = "csmar" => flag = "")

\* Whether both orders of a trade are named to the book.
NamesBoth(flag) ==
  \/ market = "Shenzhen" \/ flag = "N"
  \/ phase \in {"Startup", "OpeningCall", "OpeningMatch"}

\* A trade of n between the two orders, as the book and a strategy want it told.
IsTrade(e, bid, ask, n, flag) ==
  /\ e.what = "trade" /\ e.qty = n
  /\ NamesBoth(flag) => e.resting = 0 /\ e.buy = bid /\ e.sell = ask
  /\ ~NamesBoth(flag) => e.resting = IF flag = "B" THEN ask ELSE bid
  /\ flag # "N" =>
       e.aggressor = IF flag # "" THEN BuySell(flag)
                     ELSE IF bid > ask THEN "Buy" ELSE "Sell"

\* The row of a trade names the orders that are in the book, and the active side.
LEMMA FillOutcome ==
  ASSUME DayType, NEW bid \in Nat \ {0}, NEW ask \in Nat \ {0}, NEW n \in Nat \ {0},
         NEW flag, IsFlag(flag)
  PROVE  IsTrade(Outcome(FillRow(bid, ask, n, flag)).event, bid, ask, n, flag)
  <1> DEFINE r == FillRow(bid, ask, n, flag)
             IsFill(e) == IsTrade(e, bid, ask, n, flag)
             early == phase \in {"Startup", "OpeningCall", "OpeningMatch"}
  <1>0. /\ bid # 0 /\ ask # 0 /\ n \in Nat /\ ~(n <= 0) /\ ~(1 <= 0) /\ 1 > 0
        /\ nextSeq # 0 /\ 100 + nextSeq # 0 /\ 1 \in Nat
    BY SMT DEF DayType, Step
  <1>1. /\ r.table = "trade" /\ r.market = market /\ r.seq = nextSeq /\ r.time = RowTime
        /\ r.price = 1 /\ r.qty = n /\ r.bid = bid /\ r.ask = ask /\ r.flag = flag
        /\ r.trade = 100 + nextSeq /\ r.type = (IF vendor = "csmar" THEN "F" ELSE "0")
    BY DEF FillRow, TradeRow
  <1> HIDE DEF r
  <1>2. /\ RowTime # 0
        /\ vendor = "csmar" => (CsmarTime(r.time) < Opening <=> early)
        /\ vendor # "csmar" => (TonglianTime(r.time) < Opening <=> early)
    BY <1>1, TimeOfRow
  <1>3. ASSUME market = "Shanghai",
               NEW v, v.kind = "Trade", v.trade # 0, v.qty = n, v.price = 1, v.bid = bid,
               v.ask = ask, v.time < Opening <=> early, v.aggressor = BuySell(flag),
               v.neutral = (flag = "N")
        PROVE  IsFill(SseTrade(v).event)
    <2>1. flag \in {"B", "S", "N"} /\ (NamesBoth(flag) <=> early \/ flag = "N")
      BY <1>3 DEF IsFlag, NamesBoth
    <2>2. v.aggressor = (IF flag = "B" THEN "Buy" ELSE IF flag = "S" THEN "Sell" ELSE "Unknown")
      BY <1>3 DEF BuySell
    <2>3. v.aggressor = "Buy" <=> flag = "B"
      BY <2>1, <2>2
    <2>4. v.aggressor # "Unknown" \/ v.neutral
      BY <1>3, <2>1, <2>2
    <2>5. SseTrade(v).event =
            IF early \/ v.neutral
             THEN BookTrade(v, 0, v.bid, v.ask, IF v.neutral THEN "Unknown" ELSE v.aggressor)
             ELSE BookTrade(v, IF v.aggressor = "Buy" THEN v.ask ELSE v.bid, 0, 0, v.aggressor)
      BY <1>0, <1>3, <2>4, SseTrades
    <2>6. CASE NamesBoth(flag)
      <3> DEFINE e == BookTrade(v, 0, v.bid, v.ask,
                                IF v.neutral THEN "Unknown" ELSE v.aggressor)
      <3>1. SseTrade(v).event = e
        BY <2>1, <2>5, <2>6, <1>3
      <3>2. /\ e.what = "trade" /\ e.qty = n /\ e.resting = 0 /\ e.buy = bid /\ e.sell = ask
            /\ e.aggressor = IF v.neutral THEN "Unknown" ELSE v.aggressor
        BY <1>3 DEF BookTrade
      <3> HIDE DEF e
      <3>3. flag # "N" => e.aggressor = IF flag # "" THEN BuySell(flag)
                                        ELSE IF bid > ask THEN "Buy" ELSE "Sell"
        BY <1>3, <2>1, <3>2
      <3>4. QED BY <2>6, <3>1, <3>2, <3>3 DEF IsTrade
    <2>7. CASE ~NamesBoth(flag)
      <3> DEFINE e == BookTrade(v, IF v.aggressor = "Buy" THEN v.ask ELSE v.bid, 0, 0,
                                v.aggressor)
      <3>1. SseTrade(v).event = e
        BY <2>1, <2>5, <2>7, <1>3
      <3>2. /\ e.what = "trade" /\ e.qty = n /\ e.aggressor = BuySell(flag)
            /\ e.resting = IF flag = "B" THEN ask ELSE bid
        BY <1>3, <2>3 DEF BookTrade
      <3> HIDE DEF e
      <3>3. flag # "N" => e.aggressor = IF flag # "" THEN BuySell(flag)
                                        ELSE IF bid > ask THEN "Buy" ELSE "Sell"
        BY <2>1, <3>2
      <3>4. QED BY <2>7, <3>1, <3>2, <3>3 DEF IsTrade
    <2>8. QED BY <2>6, <2>7
  <1>4. ASSUME market = "Shenzhen",
               NEW v, v.kind = "Trade", v.trade # 0, v.qty = n, v.price = 1, v.bid = bid,
               v.ask = ask, v.aggressor = BuySell(flag)
        PROVE  IsFill(SzseTrade(v).event)
    <2>1. flag \in {"", "B", "S"} /\ NamesBoth(flag)
      BY <1>4 DEF IsFlag, NamesBoth
    <2>2. v.aggressor = "Unknown" <=> flag = ""
      BY <1>4, <2>1, Codes
    <2>3. Inferred(v) = IF bid > ask THEN "Buy" ELSE "Sell"
      BY <1>4 DEF Inferred
    <2>4. SzseTrade(v).event =
            BookTrade(v, 0, v.bid, v.ask,
                      IF v.aggressor = "Unknown" THEN Inferred(v) ELSE v.aggressor)
      BY <1>0, <1>4, SzseTrades
    <2> DEFINE e == BookTrade(v, 0, v.bid, v.ask,
                              IF v.aggressor = "Unknown" THEN Inferred(v) ELSE v.aggressor)
    <2>5. /\ e.what = "trade" /\ e.qty = n /\ e.resting = 0 /\ e.buy = bid /\ e.sell = ask
          /\ e.aggressor = IF v.aggressor = "Unknown" THEN Inferred(v) ELSE v.aggressor
      BY <1>4 DEF BookTrade
    <2> HIDE DEF e
    <2>6. SzseTrade(v).event = e
      BY <2>4 DEF e
    <2>7. e.aggressor = IF flag # "" THEN BuySell(flag)
                        ELSE IF bid > ask THEN "Buy" ELSE "Sell"
      BY <1>4, <2>2, <2>3, <2>5
    <2>8. QED BY <2>1, <2>5, <2>6, <2>7 DEF IsTrade
  <1>5. ASSUME vendor = "csmar" PROVE IsFill(Outcome(r).event)
    <2>1. Outcome(r) = IF market = "Shanghai" THEN CsmarShanghaiTrade(r)
                       ELSE CsmarShenzhenTrade(r)
      BY <1>1, <1>2, <1>5 DEF Outcome, CsmarRow, DayType
    <2>2. CASE market = "Shanghai"
      <3> DEFINE v == TradeView(r, CsmarTime(r.time), r.seq, "Trade", BuySell(r.flag),
                                r.flag = "N")
      <3>1. /\ v.kind = "Trade" /\ v.trade = r.seq /\ v.qty = n /\ v.price = 1 /\ v.bid = bid
            /\ v.ask = ask /\ v.time = CsmarTime(r.time) /\ v.aggressor = BuySell(flag)
            /\ v.neutral = (flag = "N")
        BY <1>1 DEF TradeView
      <3> HIDE DEF v
      <3>2. r.flag \in {"B", "S", "N"}
        BY <1>1, <2>2 DEF IsFlag
      <3>3. CsmarShanghaiTrade(r) = SseTrade(v)
        BY <1>0, <1>1, <3>2 DEF CsmarShanghaiTrade, v
      <3> HIDE DEF IsFill
      <3>4. QED BY <1>0, <1>1, <1>2, <1>3, <1>5, <2>1, <2>2, <3>1, <3>3
    <2>3. CASE market = "Shenzhen"
      <3> DEFINE v == TradeView(r, CsmarTime(r.time), r.seq, "Trade", "Unknown", FALSE)
      <3>1. /\ v.kind = "Trade" /\ v.trade = r.seq /\ v.qty = n /\ v.price = 1 /\ v.bid = bid
            /\ v.ask = ask /\ v.aggressor = "Unknown"
        BY <1>1 DEF TradeView
      <3> HIDE DEF v
      <3>2. BuySell(flag) = "Unknown"
        BY <1>5, <2>3, Codes DEF IsFlag
      <3>3. r.type = "F"
        BY <1>1, <1>5
      <3>4. CsmarShenzhenTrade(r) = SzseTrade(v)
        BY <1>0, <1>1, <3>3 DEF CsmarShenzhenTrade, v
      <3> HIDE DEF IsFill
      <3>5. QED BY <1>0, <1>1, <1>4, <2>1, <2>3, <3>1, <3>2, <3>4
    <2>4. QED BY <2>2, <2>3 DEF DayType
  <1>6. ASSUME vendor # "csmar" PROVE IsFill(Outcome(r).event)
    <2> DEFINE w == TradeView(r, TonglianTime(r.time), r.trade, "Trade",
                              BuySell(r.flag), r.flag = "N")
               v == [w EXCEPT !.seq = IF r.seq # 0 THEN r.seq ELSE r.trade]
    <2>1. /\ v.kind = "Trade" /\ v.trade = r.trade /\ v.qty = n /\ v.price = 1 /\ v.bid = bid
          /\ v.ask = ask /\ v.time = TonglianTime(r.time) /\ v.aggressor = BuySell(flag)
          /\ v.neutral = (flag = "N")
      BY <1>1 DEF TradeView
    <2> HIDE DEF v
    <2>2. Outcome(r) = TonglianTrade(r, market)
      BY <1>1, <1>6 DEF Outcome, TonglianRow
    <2>3. r.type = "0"
      BY <1>1, <1>6
    <2>4. TonglianTrade(r, market) = IF market = "Shanghai" THEN SseTrade(v) ELSE SzseTrade(v)
      BY <2>3 DEF TonglianTrade, DayType, v
    <2> HIDE DEF IsFill
    <2>5. CASE market = "Shanghai"
      BY <1>0, <1>1, <1>2, <1>3, <1>6, <2>1, <2>2, <2>4, <2>5
    <2>6. CASE market = "Shenzhen"
      BY <1>0, <1>1, <1>4, <1>6, <2>1, <2>2, <2>4, <2>6
    <2>7. QED BY <2>5, <2>6 DEF DayType
  <1>7. IsFill(Outcome(r).event)
    BY <1>5, <1>6
  <1>8. QED BY <1>7 DEF r

\* What a code of Shanghai says of the phase.
PhaseOf(code) == IF vendor = "csmar" THEN ShanghaiPhase(code) ELSE code

\* The row of a phase announces it, if its code is known.
LEMMA StatusOutcome ==
  ASSUME DayType, market = "Shanghai", NEW code
  PROVE  Outcome(StatusRow(code)).event =
           IF PhaseOf(code) = "Unknown" THEN Nothing
           ELSE [what |-> "phase", phase |-> PhaseOf(code), seq |-> nextSeq]
  <1> DEFINE r == StatusRow(code)
             v == OrderView(r, 0, "Unknown", "TradingPhase", PhaseOf(code))
  <1>1. /\ r.table = "order" /\ r.market = market /\ r.seq = nextSeq /\ r.time = RowTime
        /\ r.type = "S" /\ r.code = code
    BY DEF StatusRow, OrderRow
  <1>2. RowTime # 0
    BY TimeOfRow
  <1> HIDE DEF r
  <1>3. v.kind = "TradingPhase" /\ v.phase = PhaseOf(code) /\ v.seq = nextSeq
    BY <1>1 DEF OrderView
  <1>4. ASSUME vendor = "csmar" PROVE Outcome(r) = SsePhase(v)
    <2>1. Outcome(r) = CsmarShanghaiOrder(r)
      BY <1>1, <1>2, <1>4 DEF Outcome, CsmarRow
    <2>2. QED BY <1>1, <1>4, <2>1 DEF CsmarShanghaiOrder, PhaseOf
  <1>5. ASSUME vendor # "csmar" PROVE Outcome(r) = SsePhase(v)
    <2>1. Outcome(r) = TonglianStatus(r, market)
      BY <1>1, <1>5 DEF Outcome, TonglianRow
    <2>2. QED BY <1>1, <1>5, <2>1 DEF TonglianStatus, PhaseOf
  <1> HIDE DEF v
  <1>6. Outcome(r) = SsePhase(v)
    BY <1>4, <1>5
  <1>7. SsePhase(v) = IF PhaseOf(code) = "Unknown" THEN Failed("Invalid")
                      ELSE Published("Mapped", [what |-> "phase", phase |-> PhaseOf(code),
                                                seq |-> nextSeq])
    BY <1>3 DEF SsePhase
  <1>8. QED BY <1>6, <1>7 DEF Published, Failed, Nothing, r

-----------------------------------------------------------------------------
(* What the book makes of an event.                                        *)

\* A book b after the event e.
BookAfter(b, e) ==
  IF e.what = "order"
    THEN CASE e.action = "Add" ->
                b \cup {[id |-> e.id, side |-> e.side, qty |-> e.qty, type |-> e.type]}
           [] e.action = "Cancel" -> Reduced(b, e.id, e.qty)
           [] e.action = "Delete" -> {o \in b : o.id # e.id}
  ELSE IF e.what = "trade"
    THEN IF e.resting # 0 THEN Reduced(b, e.resting, e.qty)
         ELSE Reduced(Reduced(b, e.buy, e.qty), e.sell, e.qty)
  ELSE b

\* No two orders of a set have the same number.
UniqueIds(set) == \A o, r \in set : o.id = r.id => o = r

\* What is in a reduced set: the orders with other numbers, and what is left.
LEMMA ReducedMembers ==
  ASSUME NEW set \in SUBSET Orders, NEW id, NEW n \in Nat \ {0}, NEW x
  PROVE  x \in Reduced(set, id, n) <=>
           \/ x \in set /\ x.id # id
           \/ \E o \in set : o.id = id /\ o.qty > n /\ x = [o EXCEPT !.qty = @ - n]
  BY DEF Reduced

\* They are orders, with the numbers and sides they had, each number once.
LEMMA ReducedOrders ==
  ASSUME NEW set \in SUBSET Orders, NEW id, NEW n \in Nat \ {0}
  PROVE  /\ Reduced(set, id, n) \in SUBSET Orders
         /\ \A x \in Reduced(set, id, n) : \E o \in set : /\ o.id = x.id /\ o.type = x.type
                                                          /\ o.side = x.side
         /\ UniqueIds(set) => UniqueIds(Reduced(set, id, n))
  <1> DEFINE Left(o) == [o EXCEPT !.qty = @ - n]
  <1>1. ASSUME NEW o \in Orders
        PROVE  /\ Left(o).id = o.id /\ Left(o).side = o.side /\ Left(o).type = o.type
               /\ o.qty > n => Left(o) \in Orders
    BY SMT DEF Orders
  <1>2. \A x : x \in Reduced(set, id, n) <=>
           \/ x \in set /\ x.id # id
           \/ \E o \in set : o.id = id /\ o.qty > n /\ x = Left(o)
    BY ReducedMembers
  <1> HIDE DEF Left
  <1>3. ASSUME NEW x \in Reduced(set, id, n)
        PROVE  /\ x \in Orders
               /\ \E o \in set : /\ o.id = x.id /\ o.type = x.type /\ o.side = x.side
    BY <1>1, <1>2
  <1>4. ASSUME UniqueIds(set), NEW x \in Reduced(set, id, n), NEW y \in Reduced(set, id, n),
               x.id = y.id
        PROVE  x = y
    BY <1>1, <1>2, <1>4 DEF UniqueIds
  <1>5. QED BY <1>3, <1>4 DEF UniqueIds

\* A number nobody has reduces nothing.
LEMMA ReducedNobody ==
  ASSUME NEW set, NEW id, NEW n, \A o \in set : o.id # id
  PROVE  Reduced(set, id, n) = set
  BY DEF Reduced

\* An order reduced by all it has is gone.
LEMMA ReducedToNothing ==
  ASSUME NEW set \in SUBSET Orders, UniqueIds(set), NEW o \in set
  PROVE  /\ Reduced(set, o.id, o.qty) = set \ {o}
         /\ {r \in set : r.id # o.id} = set \ {o}
  <1>1. \A r \in set : r.id = o.id <=> r = o
    BY DEF UniqueIds
  <1>2. o.qty \in Nat \ {0}
    BY DEF Orders
  <1>3. ~(o.qty > o.qty)
    BY <1>2, SMT
  <1>4. \A x : x \in Reduced(set, o.id, o.qty) <=> x \in set \ {o}
    <2> TAKE x
    <2>1. \A r \in set : r.id = o.id => ~(r.qty > o.qty)
      BY <1>1, <1>3
    <2>2. x \in Reduced(set, o.id, o.qty) <=>
            \/ x \in set /\ x.id # o.id
            \/ \E r \in set : r.id = o.id /\ r.qty > o.qty /\ x = [r EXCEPT !.qty = @ - o.qty]
      BY DEF Reduced
    <2>3. x \in Reduced(set, o.id, o.qty) <=> x \in set /\ x.id # o.id
      BY <2>1, <2>2, Zenon
    <2>4. QED BY <1>1, <2>3
  <1>5. QED BY <1>1, <1>4

\* An order that is taken out, whether the event says so or how much of it is left.
LEMMA BookAfterCancel ==
  ASSUME NEW set \in SUBSET Orders, UniqueIds(set), NEW o \in set, NEW e,
         e.what = "order", e.id = o.id,
         e.action = "Delete" \/ (e.action = "Cancel" /\ e.qty = o.qty)
  PROVE  BookAfter(set, e) = set \ {o}
  <1>1. CASE e.action = "Delete"
    <2>1. BookAfter(set, e) = {r \in set : r.id # e.id}
      BY <1>1 DEF BookAfter
    <2>2. QED BY <2>1, ReducedToNothing
  <1>2. CASE e.action = "Cancel" /\ e.qty = o.qty
    <2>1. BookAfter(set, e) = Reduced(set, e.id, e.qty)
      BY <1>2 DEF BookAfter
    <2>2. QED BY <1>2, <2>1, ReducedToNothing
  <1>3. QED BY <1>1, <1>2

\* The event of a new order adds it.
LEMMA BookAfterAdd ==
  ASSUME NEW set, NEW o \in Orders
  PROVE  BookAfter(set, Added(o)) = set \cup {o}
  <1>1. o = [id |-> o.id, side |-> o.side, qty |-> o.qty, type |-> o.type]
    BY DEF Orders
  <1>2. BookAfter(set, Added(o)) =
          set \cup {[id |-> o.id, side |-> o.side, qty |-> o.qty, type |-> o.type]}
    BY DEF BookAfter, Added
  <1>3. QED BY <1>1, <1>2

\* A trade reduces both orders; the one that is not in the book need not be named.
LEMMA BookAfterTrade ==
  ASSUME NEW set \in SUBSET Orders, NEW buy \in Nat \ {0}, NEW sell \in Nat \ {0},
         NEW e, e.what = "trade", e.qty \in Nat \ {0},
         \/ e.resting = 0 /\ e.buy = buy /\ e.sell = sell
         \/ e.resting = sell /\ \A o \in set : o.id # buy
         \/ e.resting = buy /\ \A o \in set : o.id # sell
  PROVE  BookAfter(set, e) = Reduced(Reduced(set, buy, e.qty), sell, e.qty)
  <1>1. CASE e.resting = 0 /\ e.buy = buy /\ e.sell = sell
    BY <1>1 DEF BookAfter
  <1>2. CASE e.resting = sell /\ \A o \in set : o.id # buy
    <2>1. BookAfter(set, e) = Reduced(set, sell, e.qty)
      BY <1>2 DEF BookAfter
    <2>2. QED BY <1>2, <2>1, ReducedNobody
  <1>3. CASE e.resting = buy /\ \A o \in set : o.id # sell
    <2>1. BookAfter(set, e) = Reduced(set, buy, e.qty)
      BY <1>3 DEF BookAfter
    <2>2. \A o \in Reduced(set, buy, e.qty) : o.id # sell
      BY <1>3, ReducedOrders
    <2>3. QED BY <2>1, <2>2, ReducedNobody
  <1>4. QED BY <1>1, <1>2, <1>3

\* A set without the orders that have a number in N.
Without(N, set) == {o \in set : o.id \notin N}

\* The exchange's orders are such as a book holds.
LEMMA OrdersAreEntries == \A set \in SUBSET Orders : Entries(set)
  BY DEF Orders, Entries

\* Reducing and leaving out do not disturb each other.
LEMMA ReducedWithout ==
  ASSUME NEW set, Entries(set), NEW N, NEW id, NEW n
  PROVE  /\ Entries(Reduced(set, id, n))
         /\ Without(N, Reduced(set, id, n)) = Reduced(Without(N, set), id, n)
         /\ id \in N => Without(N, Reduced(set, id, n)) = Without(N, set)
  <1> DEFINE Left(o) == [o EXCEPT !.qty = @ - n]
  <1>1. ASSUME NEW o \in set
        PROVE  /\ Left(o).id = o.id
               /\ Left(o) = [id |-> Left(o).id, side |-> Left(o).side, qty |-> Left(o).qty,
                            type |-> Left(o).type]
    <2> DEFINE left == [id |-> o.id, side |-> o.side, qty |-> o.qty - n, type |-> o.type]
    <2>1. o = [id |-> o.id, side |-> o.side, qty |-> o.qty, type |-> o.type]
      BY DEF Entries
    <2>2. Left(o) = left
      BY <2>1
    <2>3. left.id = o.id /\ left.side = o.side /\ left.qty = o.qty - n /\ left.type = o.type
      OBVIOUS
    <2> HIDE DEF Left, left
    <2>4. QED BY <2>2, <2>3 DEF left
  <1> HIDE DEF Left
  <1>2. \A b, x : x \in Reduced(b, id, n) <=>
           \/ x \in b /\ x.id # id
           \/ \E o \in b : o.id = id /\ o.qty > n /\ x = Left(o)
    BY DEF Reduced, Left
  <1>3. \A x : x \in Without(N, set) <=> x \in set /\ x.id \notin N
    BY DEF Without
  <1>4. Entries(Reduced(set, id, n))
    BY <1>1, <1>2 DEF Entries
  <1>5. \A x : x \in Without(N, Reduced(set, id, n)) <=>
              x \in Reduced(set, id, n) /\ x.id \notin N
    BY DEF Without
  <1>6. ASSUME NEW x
        PROVE  /\ x \in Without(N, Reduced(set, id, n)) <=> x \in Reduced(Without(N, set), id, n)
               /\ id \in N => (x \in Without(N, Reduced(set, id, n)) <=> x \in Without(N, set))
    <2>1. x \in Reduced(set, id, n) <=>
            \/ x \in set /\ x.id # id
            \/ \E o \in set : o.id = id /\ o.qty > n /\ x = Left(o)
      BY <1>2
    <2>2. x \in Reduced(Without(N, set), id, n) <=>
            \/ x \in set /\ x.id \notin N /\ x.id # id
            \/ \E o \in set : o.id \notin N /\ o.id = id /\ o.qty > n /\ x = Left(o)
      BY <1>2, <1>3
    <2>3. \A o \in set : o.id = id /\ x = Left(o) => x.id = id
      BY <1>1
    <2>4. x \in Without(N, Reduced(set, id, n)) <=> x \in Reduced(set, id, n) /\ x.id \notin N
      BY <1>5
    <2>5. x \in Without(N, set) <=> x \in set /\ x.id \notin N
      BY <1>3
    <2>6. QED BY <2>1, <2>2, <2>3, <2>4, <2>5
  <1>7. /\ \A x : x \in Without(N, Reduced(set, id, n)) <=> x \in Reduced(Without(N, set), id, n)
        /\ id \in N =>
             \A x : x \in Without(N, Reduced(set, id, n)) <=> x \in Without(N, set)
    BY <1>6
  <1>8. Without(N, Reduced(set, id, n)) = Reduced(Without(N, set), id, n)
    <2> DEFINE A == Without(N, Reduced(set, id, n))
               B == Reduced(Without(N, set), id, n)
    <2>1. \A x : x \in A <=> x \in B
      BY <1>7
    <2> HIDE DEF A, B
    <2>2. A = B
      BY <2>1
    <2>3. QED BY <2>2 DEF A, B
  <1>9. ASSUME id \in N PROVE Without(N, Reduced(set, id, n)) = Without(N, set)
    <2> DEFINE A == Without(N, Reduced(set, id, n))
               B == Without(N, set)
    <2>1. \A x : x \in A <=> x \in B
      BY <1>7, <1>9
    <2> HIDE DEF A, B
    <2>2. A = B
      BY <2>1
    <2>3. QED BY <2>2 DEF A, B
  <1>10. QED BY <1>4, <1>8, <1>9

\* What an event that is sound makes of a book: entries, of which those it does not name
\* stay as they are, and two books that agree about some go on to agree about them.
LEMMA BookAfterWithout ==
  ASSUME NEW b, Entries(b), NEW e, NEW s, NEW M, NEW N, IsSound(e, s, M)
  PROVE  /\ Entries(BookAfter(b, e))
         /\ M \subseteq N => Without(N, BookAfter(b, e)) = Without(N, b)
         /\ \A c : Entries(c) /\ Without(N, b) = Without(N, c) =>
                  Without(N, BookAfter(b, e)) = Without(N, BookAfter(c, e))
  <1>1. CASE e.what \notin {"order", "trade"}
    BY <1>1 DEF BookAfter
  <1>2. CASE e.what = "order" /\ e.id \in M /\ e.action = "Add"
    <2> DEFINE new == [id |-> e.id, side |-> e.side, qty |-> e.qty, type |-> e.type]
    <2>1. \A c : BookAfter(c, e) = c \cup {new}
      BY <1>2 DEF BookAfter
    <2>2. new.id = e.id /\ new.side = e.side /\ new.qty = e.qty /\ new.type = e.type
      OBVIOUS
    <2>3. new = [id |-> new.id, side |-> new.side, qty |-> new.qty, type |-> new.type]
      BY <2>2
    <2> HIDE DEF new
    <2>4. Entries(BookAfter(b, e))
      BY <2>1, <2>3 DEF Entries
    <2>5. \A c : Without(N, c \cup {new}) =
                  Without(N, c) \cup (IF e.id \in N THEN {} ELSE {new})
      BY <2>2 DEF Without
    <2>6. QED BY <1>2, <2>1, <2>4, <2>5
  <1>3. CASE e.what = "order" /\ e.id \in M /\ e.action = "Cancel"
    <2>1. \A c : BookAfter(c, e) = Reduced(c, e.id, e.qty)
      BY <1>3 DEF BookAfter
    <2>2. QED BY <1>3, <2>1, ReducedWithout
  <1>4. CASE e.what = "order" /\ e.id \in M /\ e.action = "Delete"
    <2>1. \A c : BookAfter(c, e) = {o \in c : o.id # e.id}
      BY <1>4 DEF BookAfter
    <2>2. \A c : Without(N, {o \in c : o.id # e.id}) = {o \in Without(N, c) : o.id # e.id}
      BY DEF Without
    <2>3. e.id \in N => Without(N, {o \in b : o.id # e.id}) = Without(N, b)
      BY DEF Without
    <2>4. Entries(BookAfter(b, e))
      BY <2>1 DEF Entries
    <2>5. QED BY <1>4, <2>1, <2>2, <2>3, <2>4
  <1>5. CASE e.what = "trade" /\ e.resting \in M /\ e.buy \in M /\ e.sell \in M
    <2>1. CASE e.resting # 0
      <3>1. \A c : BookAfter(c, e) = Reduced(c, e.resting, e.qty)
        BY <1>5, <2>1 DEF BookAfter
      <3>2. QED BY <1>5, <3>1, ReducedWithout
    <2>2. CASE e.resting = 0
      <3>1. \A c : BookAfter(c, e) = Reduced(Reduced(c, e.buy, e.qty), e.sell, e.qty)
        BY <1>5, <2>2 DEF BookAfter
      <3>2. ASSUME NEW c, Entries(c)
            PROVE  /\ Entries(BookAfter(c, e))
                   /\ Without(N, BookAfter(c, e)) =
                        Reduced(Reduced(Without(N, c), e.buy, e.qty), e.sell, e.qty)
                   /\ M \subseteq N => Without(N, BookAfter(c, e)) = Without(N, c)
        <4> DEFINE d == Reduced(c, e.buy, e.qty)
        <4>1. /\ Entries(d) /\ Without(N, d) = Reduced(Without(N, c), e.buy, e.qty)
              /\ e.buy \in N => Without(N, d) = Without(N, c)
          BY <3>2, ReducedWithout
        <4> HIDE DEF d
        <4>2. /\ Entries(Reduced(d, e.sell, e.qty))
              /\ Without(N, Reduced(d, e.sell, e.qty)) = Reduced(Without(N, d), e.sell, e.qty)
              /\ e.sell \in N => Without(N, Reduced(d, e.sell, e.qty)) = Without(N, d)
          BY <4>1, ReducedWithout
        <4>3. BookAfter(c, e) = Reduced(d, e.sell, e.qty)
          BY <3>1 DEF d
        <4>4. QED BY <1>5, <4>1, <4>2, <4>3
      <3>3. QED BY <3>2
    <2>3. QED BY <2>1, <2>2
  <1>6. QED BY <1>1, <1>2, <1>3, <1>4, <1>5 DEF IsSound

-----------------------------------------------------------------------------
(* The exchange's steps.                                                   *)

\* Applied is what the book makes of the event, also after a step.
LEMMA AppliedIsAfter ==
  /\ \A e : Applied(e) = BookAfter(book, e)
  /\ Applied(Pending)' = BookAfter(book', Pending')
  /\ \A b : BookAfter(b, Nothing) = b
  BY DEF Applied, BookAfter, Nothing

\* What an exchange that goes on leaves alone.
LEMMA GoesKeeps ==
  ASSUME TypeOK, DayInv, Goes
  PROVE  /\ TypeOK' /\ AggressorIsIncoming' /\ Entries(book)
         /\ vendor' = vendor /\ market' = market /\ damaged' = damaged /\ book' = book
         /\ tracker' = tracker /\ state' = state /\ partition' = partition /\ mode' = mode
         /\ lastAccepted' = lastAccepted /\ lastReceived' = lastReceived
         /\ row = NoRow /\ Gone = nextSeq - Step /\ Step' = Step /\ Step \in {1, 2}
         /\ Pending = Nothing
         /\ state = "Healthy" /\ damaged = NoRow /\ lastAccepted = nextSeq - Step =>
              /\ book = orders
              /\ market = "Shanghai" => Announced = tracker.phase
         /\ state = "Healthy" /\ damaged # NoRow /\ CaughtUp => Unhurt(book) = Unhurt(orders)
  <1>1. /\ UNCHANGED <<vendor, market, damaged, book, tracker>> /\ UNCHANGED gateVars
        /\ row = NoRow /\ event' = Nothing
    BY DEF Goes, mapperVars
  <1>2. UNCHANGED <<state, mode, partition, lastAccepted, lastReceived, stats, obs, feed, observed>>
    BY <1>1 DEF gateVars
  <1>3. TypeOK'
    BY <1>2 DEF TypeOK
  <1>4. AggressorIsIncoming' /\ Entries(book)
    BY <1>1 DEF AggressorIsIncoming, Nothing, DayInv, ContainInv
  <1>5. Step' = Step /\ Step \in {1, 2} /\ Gone = nextSeq - Step /\ Pending = Nothing
    BY <1>1 DEF Step, Gone, Pending
  <1>6. Pending.what # "phase"
    BY <1>5 DEF Nothing
  <1>7. state = "Healthy" /\ damaged = NoRow /\ lastAccepted = nextSeq - Step =>
          /\ book = orders
          /\ market = "Shanghai" => Announced = tracker.phase
    BY <1>5, <1>6, AppliedIsAfter DEF DayInv, StepInv
  <1>8. state = "Healthy" /\ damaged # NoRow /\ CaughtUp => Unhurt(book) = Unhurt(orders)
    BY <1>5, AppliedIsAfter DEF DayInv, ContainInv
  <1>9. QED BY <1>1, <1>2, <1>3, <1>4, <1>5, <1>7, <1>8

\* It goes on without a row: the book and the tracker stay up to date.
LEMMA QuietStep ==
  ASSUME TypeOK, DayInv, Goes, PublishNothing, ExchangeType', IdsInv',
         orders' = orders, seen' = seen \/ seen' = {},
         market = "Shanghai" => Announced' = Announced
  PROVE  TypeOK' /\ DayInv'
  <1>1. row' = NoRow /\ nextSeq' = nextSeq
    BY GoesKeeps DEF PublishNothing
  <1>2. DayType'
    BY <1>1, GoesKeeps DEF DayInv, DayType
  <1>3. Gone' = Gone /\ Pending' = Nothing /\ Pending'.what = "none"
    BY <1>1, GoesKeeps DEF Gone, Pending, Nothing
  <1>4. CursorInv' /\ CaughtUp' = CaughtUp
    BY <1>3, GoesKeeps DEF DayInv, CursorInv, CursorIsOfChannel, CaughtUp
  <1>5. StepInv'
    BY <1>3, GoesKeeps, AppliedIsAfter DEF StepInv
  <1>6. ContainInv'
    BY <1>3, <1>4, GoesKeeps, AppliedIsAfter DEF ContainInv, Unhurt, Names, Entries
  <1>7. QED BY <1>2, <1>4, <1>5, <1>6, GoesKeeps DEF DayInv

\* It goes on and publishes a row: what the mapper will make of the row turns the book
\* and the tracker's phase into the exchange's.
LEMMA PublishStep ==
  ASSUME TypeOK, DayInv, Goes, NEW r \in Rows, r.seq = nextSeq, Publish(r),
         ExchangeType', IdsInv', seen' = seen \/ seen' = {},
         BookAfter(orders, Outcome(r).event) = orders',
         market = "Shanghai" =>
           Announced' = IF Outcome(r).event.what = "phase" THEN Outcome(r).event.phase
                        ELSE Announced,
         phase' = "Continuous" /\ Outcome(r).event.what = "trade" =>
           Outcome(r).event.aggressor = incoming'.side
  PROVE  TypeOK' /\ DayInv'
  <1> DEFINE e == Outcome(r).event
  <1>1. row' = r /\ nextSeq' = nextSeq + Step /\ nextSeq <= MaxSeq
    BY DEF Publish
  <1>2. r # NoRow
    BY DEF Rows, NoRow
  <1>3. nextSeq \in Nat /\ nextSeq >= Step /\ Step \in {1, 2} /\ Step' = Step
    BY GoesKeeps DEF DayInv, DayType
  <1>4. nextSeq' \in Nat /\ nextSeq' >= Step' /\ row'.seq = nextSeq' - Step' /\ row'.seq >= Step'
    BY <1>1, <1>3, SMT
  <1>5. DayType'
    BY <1>1, <1>4, GoesKeeps DEF DayInv, DayType
  <1>6. Gone' = nextSeq - Step /\ Gone' = Gone
    BY <1>1, <1>2, GoesKeeps DEF Gone
  <1>7. CursorInv' /\ CaughtUp' = CaughtUp
    BY <1>6, GoesKeeps DEF DayInv, CursorInv, CursorIsOfChannel, CaughtUp
  <1>8. Pending' = e
    BY <1>1, <1>2, GoesKeeps DEF Pending, Outcome
  <1> HIDE DEF e
  <1>9. StepInv'
    <2> SUFFICES ASSUME state' = "Healthy", damaged' = NoRow, lastAccepted' = Gone'
                 PROVE  /\ Applied(Pending)' = orders'
                        /\ market' = "Shanghai" =>
                             Announced' = IF Pending'.what = "phase" THEN Pending'.phase
                                          ELSE tracker'.phase
                        /\ phase' = "Continuous" /\ Pending'.what = "trade" =>
                             Pending'.aggressor = incoming'.side
      BY DEF StepInv
    <2>1. book = orders /\ (market = "Shanghai" => Announced = tracker.phase)
      BY <1>6, GoesKeeps
    <2>2. Applied(Pending)' = BookAfter(orders, e)
      BY <1>8, <2>1, GoesKeeps, AppliedIsAfter
    <2>3. Applied(Pending)' = orders'
      BY <2>2 DEF e
    <2>4. market' = "Shanghai" =>
            Announced' = IF e.what = "phase" THEN e.phase ELSE tracker'.phase
      BY <2>1, GoesKeeps DEF e
    <2>5. phase' = "Continuous" /\ e.what = "trade" => e.aggressor = incoming'.side
      BY DEF e
    <2>6. QED BY <1>8, <2>3, <2>4, <2>5
  <1>10. ContainInv'
    <2>1. Entries(book')
      BY GoesKeeps DEF Entries
    <2> SUFFICES ASSUME state' = "Healthy", damaged' # NoRow, CaughtUp'
                 PROVE  Unhurt(Applied(Pending))' = Unhurt(orders)'
      BY <2>1 DEF ContainInv, Entries
    <2> DEFINE N == Names(damaged)
    <2>2. Unhurt(book) = Unhurt(orders)
      BY <1>7, GoesKeeps
    <2>3. /\ Unhurt(book) = Without(N, book) /\ Unhurt(orders) = Without(N, orders)
          /\ Unhurt(Applied(Pending))' = Without(N, Applied(Pending)')
          /\ Unhurt(orders)' = Without(N, orders')
      BY GoesKeeps DEF Unhurt, Without, Names
    <2>4. IsSound(e, r.seq, Names(r))
      BY OutcomeIsSound DEF e, DayInv, DayType
    <2>5. Entries(book) /\ Entries(orders)
      BY GoesKeeps, OrdersAreEntries DEF DayInv, DayType, ExchangeType
    <2> HIDE DEF N
    <2>6. Without(N, BookAfter(book, e)) = Without(N, BookAfter(orders, e))
      <3>1. Without(N, book) = Without(N, orders)
        BY <2>2, <2>3
      <3> DEFINE M == Names(r)
      <3>2. IsSound(e, r.seq, M)
        BY <2>4
      <3> HIDE DEF M
      <3>3. \A c : Entries(c) /\ Without(N, book) = Without(N, c) =>
                  Without(N, BookAfter(book, e)) = Without(N, BookAfter(c, e))
        BY ONLY <2>5, <3>2, BookAfterWithout
      <3>4. QED BY <2>5, <3>1, <3>3
    <2>7. Applied(Pending)' = BookAfter(book, e) /\ orders' = BookAfter(orders, e)
      BY <1>8, GoesKeeps, AppliedIsAfter DEF e
    <2>8. QED BY <2>3, <2>6, <2>7
  <1>11. QED BY <1>5, <1>7, <1>9, <1>10, GoesKeeps DEF DayInv

\* The rows are rows.
LEMMA RowFields ==
  ASSUME DayType, nextSeq <= MaxSeq
  PROVE  /\ nextSeq \in Sequences0 /\ RowTime \in Nat /\ 100 + nextSeq \in Nat
         /\ market \in Texts /\ "" \in Texts
  <1>1. nextSeq \in Sequences0 /\ RowTime \in Nat /\ 100 + nextSeq \in Nat
    BY TimeOfRow, GateAssumption, SMT DEF DayType, Sequences0
  <1>2. QED BY <1>1 DEF DayType, Texts

\* A row of the order table, and one of the trade table.
LEMMA OrderRowType ==
  ASSUME DayType, nextSeq <= MaxSeq, NEW type \in Texts, NEW code \in Texts,
         NEW id \in Nat, NEW n \in Nat, NEW price \in Nat
  PROVE  /\ OrderRow(type, code, id, n, price) \in Rows
         /\ OrderRow(type, code, id, n, price).seq = nextSeq
  BY RowFields DEF OrderRow, Rows

\* (Apart, so that each is cited with its own fields.)
LEMMA TradeRowType ==
  ASSUME DayType, nextSeq <= MaxSeq, NEW type \in Texts, NEW flag \in Texts,
         NEW bid \in Nat, NEW ask \in Nat, NEW n \in Nat, NEW price \in Nat
  PROVE  /\ TradeRow(type, bid, ask, n, price, flag) \in Rows
         /\ TradeRow(type, bid, ask, n, price, flag).seq = nextSeq
  BY RowFields DEF TradeRow, Rows

\* The rows about one order.
LEMMA OrderRowTypes ==
  ASSUME DayType, nextSeq <= MaxSeq, NEW o \in Orders
  PROVE  /\ AddRow(o) \in Rows /\ AddRow(o).seq = nextSeq
         /\ CancelRow(o) \in Rows /\ CancelRow(o).seq = nextSeq
  <1>1. TypeCode(o.type) \in Texts /\ SideCode(o.side) \in Texts
    BY DEF TypeCode, SideCode, Texts
  <1>2. o.id \in Nat /\ o.qty \in Nat /\ 1 \in Nat /\ 0 \in Nat
    BY DEF Orders
  <1>3. "D" \in Texts /\ "4" \in Texts /\ "C" \in Texts /\ "" \in Texts
    BY DEF Texts
  <1>4. AddRow(o) \in Rows /\ AddRow(o).seq = nextSeq
    BY <1>1, <1>2, OrderRowType DEF AddRow
  <1>5. CASE market = "Shanghai"
    <2> DEFINE type == "D"
               code == SideCode(o.side)
    <2>1. CancelRow(o) = OrderRow(type, code, o.id, o.qty, 1) /\ type \in Texts /\ code \in Texts
      BY <1>1, <1>3, <1>5 DEF CancelRow
    <2> HIDE DEF type, code
    <2>2. /\ OrderRow(type, code, o.id, o.qty, 1) \in Rows
          /\ OrderRow(type, code, o.id, o.qty, 1).seq = nextSeq
      BY <1>2, <2>1, OrderRowType
    <2>3. QED BY <1>4, <2>1, <2>2
  <1>6. CASE market # "Shanghai"
    <2> DEFINE type == IF vendor = "csmar" THEN "4" ELSE "C"
               bid == IF o.side = "Buy" THEN o.id ELSE 0
               ask == IF o.side = "Sell" THEN o.id ELSE 0
    <2>1. CancelRow(o) = TradeRow(type, bid, ask, o.qty, 0, "")
      BY <1>6 DEF CancelRow
    <2>2. type \in Texts /\ bid \in Nat /\ ask \in Nat
      BY <1>2, <1>3
    <2> HIDE DEF type, bid, ask
    <2>3. /\ TradeRow(type, bid, ask, o.qty, 0, "") \in Rows
          /\ TradeRow(type, bid, ask, o.qty, 0, "").seq = nextSeq
      BY <1>2, <1>3, <2>2, TradeRowType
    <2>4. QED BY <1>4, <2>1, <2>3
  <1>7. QED BY <1>5, <1>6

\* The row of a trade.
LEMMA FillRowType ==
  ASSUME DayType, nextSeq <= MaxSeq, NEW bid \in Nat, NEW ask \in Nat, NEW n \in Nat,
         NEW flag \in Texts
  PROVE  FillRow(bid, ask, n, flag) \in Rows /\ FillRow(bid, ask, n, flag).seq = nextSeq
  <1> DEFINE type == IF vendor = "csmar" THEN "F" ELSE "0"
  <1>1. type \in Texts /\ FillRow(bid, ask, n, flag) = TradeRow(type, bid, ask, n, 1, flag)
    BY DEF FillRow, Texts
  <1> HIDE DEF type
  <1>2. 1 \in Nat
    OBVIOUS
  <1>3. /\ TradeRow(type, bid, ask, n, 1, flag) \in Rows
        /\ TradeRow(type, bid, ask, n, 1, flag).seq = nextSeq
    BY <1>1, <1>2, TradeRowType
  <1>4. QED BY <1>1, <1>3

\* The number of a new order is above all numbers given before.
LEMMA NewOrderIsNew ==
  ASSUME DayType, NEW side \in Sides, NEW n \in Quantities, NEW type \in Types
  PROVE  LET o == NewOrder(side, n, type)
         IN /\ o \in Orders /\ o.id = NextId /\ o.type = type /\ o.side = side
            /\ market = "Shenzhen" => o.id = nextSeq
  <1> DEFINE id == IF market = "Shenzhen" THEN nextSeq ELSE arrived + 1
  <1>1. id \in Nat \ {0} /\ id = NextId
    BY SMT DEF DayType, ExchangeType, NextId, Step
  <1>2. n \in Nat \ {0}
    BY DayAssumption
  <1>3. NewOrder(side, n, type) = [id |-> id, side |-> side, qty |-> n, type |-> type]
    BY DEF NewOrder
  <1> HIDE DEF id
  <1>4. QED BY <1>1, <1>2, <1>3 DEF Orders, NextId

\* A step never takes a number back.
LEMMA NumbersGrow ==
  ASSUME DayType, market' = market, nextSeq' = nextSeq \/ nextSeq' = nextSeq + Step,
         arrived' = arrived \/ arrived' = arrived + 1
  PROVE  NextId \in Nat /\ NextId' \in Nat /\ NextId <= NextId'
  <1>1. Step \in {1, 2}
    BY DEF Step
  <1>2. nextSeq \in Nat /\ nextSeq' \in Nat /\ nextSeq <= nextSeq'
    BY <1>1, SMT DEF DayType
  <1>3. /\ arrived \in Nat /\ arrived' \in Nat /\ arrived + 1 <= arrived' + 1
        /\ arrived + 1 \in Nat /\ arrived' + 1 \in Nat
    BY SMT DEF DayType, ExchangeType
  <1>4. CASE market = "Shenzhen"
    BY <1>2, <1>4 DEF NextId
  <1>5. CASE market # "Shenzhen"
    <2>1. NextId = arrived + 1 /\ NextId' = arrived' + 1
      BY <1>5 DEF NextId
    <2>2. QED BY <1>3, <2>1
  <1>6. QED BY <1>4, <1>5

\* An order that arrives keeps the numbers unique; if it is matched, it is the youngest.
LEMMA ArrivalIds ==
  ASSUME DayType, IdsInv, NEW o \in Orders, o.id = NextId, orders' = orders \cup {o},
         market' = market, NextId' \in Nat, NextId' > NextId,
         market = "Shanghai" => o.type = "Limit",
         incoming' = Nobody \/ (incoming' = o /\ market = "Shenzhen" /\ phase' = "Continuous")
  PROVE  IdsInv'
  <1>1. \A r \in orders : r.id < o.id /\ r.id \in Nat /\ r.id < NextId'
    BY SMT DEF IdsInv, DayType, ExchangeType, Orders
  <1>2. o.id \in Nat /\ ~(o.id < o.id) /\ o.id < NextId'
    BY SMT DEF Orders
  <1>3. \A x, y \in orders' : x.id = y.id => x = y
    BY <1>1, <1>2 DEF IdsInv
  <1>4. /\ \A x \in orders' : x.id < NextId'
        /\ market' = "Shanghai" => \A x \in orders' : x.type = "Limit"
    BY <1>1, <1>2 DEF IdsInv
  <1>5. ASSUME incoming'.qty > 0
        PROVE  /\ incoming'.id < NextId'
               /\ market' = "Shanghai" => incoming'.type = "Limit"
               /\ market' = "Shenzhen" => incoming' \in orders'
               /\ phase' = "Continuous"
               /\ \A x \in orders' : x.id < incoming'.id \/ (market' = "Shenzhen" /\ x = incoming')
    <2>1. incoming' = o /\ market = "Shenzhen" /\ phase' = "Continuous"
      BY <1>5, SMT DEF Nobody
    <2>2. QED BY <1>1, <1>2, <2>1
  <1>6. QED BY <1>3, <1>4, <1>5 DEF IdsInv

\* An order that arrives in a call rests at once.
LEMMA EnterCallStep ==
  ASSUME TypeOK, DayInv, NEW side \in Sides, NEW n \in Quantities, EnterCall(side, n)
  PROVE  TypeOK' /\ DayInv'
  <1> DEFINE o == NewOrder(side, n, "Limit")
  <1>1. /\ Goes /\ seen' = {} /\ orders' = orders \cup {o} /\ arrived' = arrived + 1
        /\ incoming' = Nobody /\ Publish(AddRow(o)) /\ phase' = phase
        /\ nextSeq <= MaxSeq /\ nextSeq' = nextSeq + Step
    BY DEF EnterCall, Begins, Publish
  <1>2. /\ o \in Orders /\ o.id = NextId /\ o.type = "Limit"
        /\ market = "Shenzhen" => o.id = nextSeq
    BY NewOrderIsNew DEF DayInv, Types
  <1> HIDE DEF o
  <1>3. ExchangeType'
    BY <1>1, <1>2 DEF ExchangeType, DayInv, DayType
  <1>4. NextId' \in Nat /\ NextId' > NextId /\ market' = market
    BY <1>1, GoesKeeps, SMT DEF DayInv, DayType, ExchangeType, NextId, Step
  <1>5. IdsInv'
    BY <1>1, <1>2, <1>4, ArrivalIds DEF DayInv
  <1>6. Outcome(AddRow(o)).event = Added(o)
    BY <1>2, AddOutcome DEF DayInv
  <1>7. Added(o).what = "order"
    BY DEF Added
  <1>8. Announced' = Announced
    BY <1>1 DEF Announced
  <1>9. AddRow(o) \in Rows /\ AddRow(o).seq = nextSeq
    BY <1>1, <1>2, OrderRowTypes DEF DayInv
  <1>10. BookAfter(orders, Outcome(AddRow(o)).event) = orders'
    BY <1>1, <1>2, <1>6, BookAfterAdd
  <1> HIDE DEF o
  <1>11. QED BY <1>1, <1>3, <1>5, <1>6, <1>7, <1>8, <1>9, <1>10, PublishStep

\* In continuous trading Shanghai says nothing of it yet, Shenzhen says all.
LEMMA EnterContinuousStep ==
  ASSUME TypeOK, DayInv, NEW side \in Sides, NEW n \in Quantities, NEW type \in Types,
         EnterContinuous(side, n, type)
  PROVE  TypeOK' /\ DayInv'
  <1> DEFINE o == NewOrder(side, n, type)
  <1>1. /\ Goes /\ seen' = {} /\ arrived' = arrived + 1 /\ incoming' = o
        /\ phase' = phase /\ phase = "Continuous" /\ (market = "Shanghai" => type = "Limit")
        /\ \/ market = "Shanghai" /\ orders' = orders /\ PublishNothing
           \/ market = "Shenzhen" /\ orders' = orders \cup {o} /\ Publish(AddRow(o))
    BY DEF EnterContinuous, Begins
  <1>2. /\ o \in Orders /\ o.id = NextId /\ o.type = type
        /\ market = "Shenzhen" => o.id = nextSeq
    BY NewOrderIsNew DEF DayInv
  <1> HIDE DEF o
  <1>3. ExchangeType'
    <2>1. orders' \subseteq Orders /\ arrived' \in Nat /\ phase' \in DOMAIN PhaseAfter \cup {"Closed"}
      BY <1>1, <1>2 DEF ExchangeType, DayInv, DayType
    <2>2. incoming' \in [id : Nat \ {0}, side : Sides, qty : Nat, type : Types]
      BY <1>1, <1>2 DEF Orders
    <2>3. QED BY <2>1, <2>2 DEF ExchangeType
  <1>4. Announced' = Announced
    BY <1>1 DEF Announced
  <1>5. CASE market = "Shanghai"
    <2>1. orders' = orders /\ PublishNothing
      BY <1>1, <1>5
    <2>2. NextId \in Nat /\ NextId' = NextId + 1 /\ market' = market
      BY <1>1, <1>5, GoesKeeps, SMT DEF DayInv, DayType, ExchangeType, NextId
    <2>3. \A x \in orders : x.id < o.id /\ x.id < NextId' /\ x.id \in Nat
      BY <1>2, <2>2, SMT DEF DayInv, IdsInv, DayType, ExchangeType, Orders
    <2>4. o.id < NextId'
      BY <1>2, <2>2, SMT
    <2>5. IdsInv'
      BY <1>1, <1>2, <1>5, <2>1, <2>2, <2>3, <2>4 DEF IdsInv, DayInv
    <2>6. QED BY <1>1, <1>3, <1>4, <2>1, <2>5, QuietStep
  <1>6. CASE market = "Shenzhen"
    <2>1. orders' = orders \cup {o} /\ Publish(AddRow(o)) /\ nextSeq <= MaxSeq
          /\ nextSeq' = nextSeq + Step
      BY <1>1, <1>6 DEF Publish
    <2>2. NextId' \in Nat /\ NextId' > NextId /\ market' = market
      BY <1>1, <2>1, GoesKeeps, SMT DEF DayInv, DayType, ExchangeType, NextId, Step
    <2>3. IdsInv'
      BY <1>1, <1>2, <1>6, <2>1, <2>2, ArrivalIds DEF DayInv
    <2>4. Outcome(AddRow(o)).event = Added(o) /\ Added(o).what = "order"
      BY <1>2, <1>6, AddOutcome DEF DayInv, Added
    <2>5. AddRow(o) \in Rows /\ AddRow(o).seq = nextSeq
      BY <1>2, <2>1, OrderRowTypes DEF DayInv
    <2>6. BookAfter(orders, Outcome(AddRow(o)).event) = orders'
      BY <1>2, <2>1, <2>4, BookAfterAdd
    <2>7. QED BY <1>1, <1>3, <1>4, <2>1, <2>3, <2>4, <2>5, <2>6, PublishStep
  <1>7. QED BY <1>5, <1>6 DEF DayInv, DayType

\* What two reductions leave of the orders.
LEMMA DealLeaves ==
  ASSUME DayType, IdsInv, NEW buy, NEW sell, NEW n \in Nat \ {0},
         orders' = Reduced(Reduced(orders, buy, n), sell, n)
  PROVE  /\ orders' \in SUBSET Orders /\ UniqueIds(orders')
         /\ \A x \in orders' : \E y \in orders : y.id = x.id /\ y.type = x.type
  <1>1. orders \in SUBSET Orders /\ UniqueIds(orders)
    BY DEF DayType, ExchangeType, IdsInv, UniqueIds
  <1> DEFINE once == Reduced(orders, buy, n)
  <1>2. /\ once \in SUBSET Orders /\ UniqueIds(once)
        /\ \A x \in once : \E y \in orders : y.id = x.id /\ y.type = x.type
    BY <1>1, ReducedOrders
  <1> HIDE DEF once
  <1>3. orders' = Reduced(once, sell, n)
    BY DEF once
  <1>4. /\ orders' \in SUBSET Orders /\ UniqueIds(orders')
        /\ \A x \in orders' : \E y \in once : y.id = x.id /\ y.type = x.type
    BY <1>2, <1>3, ReducedOrders
  <1>5. QED BY <1>2, <1>4

\* The order that is matched is an order, and it is the youngest.
LEMMA IncomingIsOrder ==
  ASSUME DayInv, incoming.qty > 0
  PROVE  /\ incoming \in Orders /\ phase = "Continuous"
         /\ market = "Shenzhen" => incoming \in orders
         /\ market = "Shanghai" => incoming.type = "Limit"
         /\ market = "Shanghai" => \A o \in orders : o.id # incoming.id
         /\ \A o \in orders : o.id < incoming.id \/ (market = "Shenzhen" /\ o = incoming)
  <1>1. incoming # Nobody
    BY SMT DEF Nobody
  <1>2. incoming \in [id : Nat \ {0}, side : Sides, qty : Nat, type : Types]
    BY <1>1 DEF DayInv, DayType, ExchangeType
  <1>3. incoming \in Orders
    BY <1>2, SMT DEF Orders
  <1>4. \A o \in orders : o.id \in Nat
    BY DEF DayInv, DayType, ExchangeType, Orders
  <1>5. market = "Shanghai" => \A o \in orders : o.id < incoming.id
    BY DEF DayInv, IdsInv
  <1>6. market = "Shanghai" => \A o \in orders : o.id # incoming.id
    BY <1>2, <1>4, <1>5, SMT
  <1>7. QED BY <1>3, <1>6 DEF DayInv, IdsInv

\* An order is canceled.
LEMMA CancelOrderStep ==
  ASSUME TypeOK, DayInv, NEW o \in orders, CancelOrder(o)
  PROVE  TypeOK' /\ DayInv'
  <1>1. /\ Goes /\ seen' = {} /\ orders' = orders \ {o} /\ incoming' = Nobody
        /\ Publish(CancelRow(o)) /\ phase' = phase /\ arrived' = arrived
        /\ nextSeq <= MaxSeq /\ nextSeq' = nextSeq + Step
    BY DEF CancelOrder, Begins, Publish
  <1>2. o \in Orders /\ orders \in SUBSET Orders /\ UniqueIds(orders)
    BY DEF DayInv, DayType, ExchangeType, IdsInv, UniqueIds
  <1>3. ExchangeType'
    BY <1>1 DEF ExchangeType, DayInv, DayType
  <1>4. Announced' = Announced
    BY <1>1 DEF Announced
  <1>5. market' = market /\ NextId \in Nat /\ NextId' \in Nat /\ NextId <= NextId'
    BY <1>1, GoesKeeps, NumbersGrow DEF DayInv
  <1>6. IdsInv'
    <2>1. \A x \in orders : x.id < NextId' /\ x.id \in Nat
      BY <1>2, <1>5, SMT DEF DayInv, IdsInv, Orders
    <2>2. ~(incoming'.qty > 0)
      BY <1>1, SMT DEF Nobody
    <2>3. QED BY <1>1, <1>5, <2>1, <2>2 DEF DayInv, IdsInv
  <1> DEFINE e == Outcome(CancelRow(o)).event
  <1>7. /\ e.what = "order" /\ e.id = o.id
        /\ e.action = "Delete" \/ (e.action = "Cancel" /\ e.qty = o.qty)
    BY <1>2, CancelOutcome DEF DayInv
  <1>8. CancelRow(o) \in Rows /\ CancelRow(o).seq = nextSeq
    BY <1>1, <1>2, OrderRowTypes DEF DayInv
  <1> HIDE DEF e
  <1>9. BookAfter(orders, e) = orders'
    BY <1>1, <1>2, <1>7, BookAfterCancel
  <1>10. e.what # "phase" /\ e.what # "trade"
    BY <1>7
  <1>11. QED BY <1>1, <1>3, <1>4, <1>6, <1>8, <1>9, <1>10, PublishStep DEF e

\* What is left of an order that finds nobody to trade with rests or is canceled; an
\* order of Shenzhen has been in the book from the start.
LEMMA RestStep ==
  ASSUME TypeOK, DayInv, Rest
  PROVE  TypeOK' /\ DayInv'
  <1>1. /\ Goes /\ incoming.qty > 0 /\ seen' = seen
        /\ incoming' = [incoming EXCEPT !.qty = 0]
        /\ phase' = phase /\ arrived' = arrived
    BY DEF Rest
  <1>2. /\ incoming \in Orders /\ phase = "Continuous"
        /\ market = "Shenzhen" => incoming \in orders
        /\ market = "Shanghai" => incoming.type = "Limit"
        /\ \A o \in orders : o.id < incoming.id \/ (market = "Shenzhen" /\ o = incoming)
    BY <1>1, IncomingIsOrder
  <1>3. orders \in SUBSET Orders /\ UniqueIds(orders)
    BY DEF DayInv, DayType, ExchangeType, IdsInv, UniqueIds
  <1>4. /\ incoming' \in [id : Nat \ {0}, side : Sides, qty : Nat, type : Types]
        /\ ~(incoming'.qty > 0)
    BY <1>1, <1>2, SMT DEF Orders
  <1>5. orders' \in SUBSET Orders => ExchangeType'
    BY <1>1, <1>4 DEF ExchangeType, DayInv, DayType
  <1>6. Announced' = Announced
    BY <1>1 DEF Announced
  <1>7. ASSUME nextSeq' = nextSeq \/ nextSeq' = nextSeq + Step,
               orders' \subseteq orders \cup {incoming}, UniqueIds(orders')
        PROVE  IdsInv'
    <2>1. market' = market /\ NextId \in Nat /\ NextId' \in Nat /\ NextId <= NextId'
      BY <1>1, <1>7, GoesKeeps, NumbersGrow DEF DayInv
    <2>2. \A x \in orders \cup {incoming} : x.id < NextId /\ x.id \in Nat
      BY <1>1, <1>2, <1>3 DEF DayInv, IdsInv, Orders
    <2>3. \A x \in orders' : x.id < NextId'
      BY <1>7, <2>1, <2>2, SMT
    <2>4. market' = "Shanghai" => \A x \in orders' : x.type = "Limit"
      BY <1>2, <1>7, <2>1 DEF DayInv, IdsInv
    <2>5. QED BY <1>4, <1>7, <2>3, <2>4 DEF IdsInv, UniqueIds
  <1>8. CASE /\ market = "Shanghai"
             /\ orders' = orders \cup {incoming} /\ Publish(AddRow(incoming))
    <2>1. nextSeq <= MaxSeq /\ nextSeq' = nextSeq + Step
      BY <1>8 DEF Publish
    <2>2. \A o \in orders : o.id < incoming.id /\ o.id \in Nat /\ incoming.id \in Nat
      BY <1>2, <1>3, <1>8 DEF Orders
    <2>3. \A o \in orders : o.id # incoming.id
      BY <2>2, SMT
    <2>4. UniqueIds(orders')
      BY <1>3, <1>8, <2>3 DEF UniqueIds
    <2>5. IdsInv' /\ ExchangeType'
      BY <1>2, <1>3, <1>5, <1>7, <1>8, <2>1, <2>4
    <2>6. Outcome(AddRow(incoming)).event = Added(incoming) /\ Added(incoming).what = "order"
      BY <1>2, <1>8, AddOutcome DEF DayInv, Added
    <2>7. AddRow(incoming) \in Rows /\ AddRow(incoming).seq = nextSeq
      BY <1>2, <2>1, OrderRowTypes DEF DayInv
    <2>8. BookAfter(orders, Outcome(AddRow(incoming)).event) = orders'
      BY <1>2, <1>8, <2>6, BookAfterAdd
    <2>9. QED BY <1>1, <1>6, <1>8, <2>5, <2>6, <2>7, <2>8, PublishStep
  <1>9. CASE /\ market = "Shenzhen"
             /\ orders' = orders \ {incoming} /\ Publish(CancelRow(incoming))
    <2>1. nextSeq <= MaxSeq /\ nextSeq' = nextSeq + Step
      BY <1>9 DEF Publish
    <2>2. UniqueIds(orders')
      BY <1>3, <1>9 DEF UniqueIds
    <2>3. IdsInv' /\ ExchangeType'
      BY <1>3, <1>5, <1>7, <1>9, <2>1, <2>2
    <2> DEFINE e == Outcome(CancelRow(incoming)).event
    <2>4. /\ e.what = "order" /\ e.id = incoming.id
          /\ e.action = "Delete" \/ (e.action = "Cancel" /\ e.qty = incoming.qty)
      BY <1>2, CancelOutcome DEF DayInv
    <2>5. CancelRow(incoming) \in Rows /\ CancelRow(incoming).seq = nextSeq
      BY <1>2, <2>1, OrderRowTypes DEF DayInv
    <2> HIDE DEF e
    <2>6. BookAfter(orders, e) = orders'
      BY <1>2, <1>3, <1>9, <2>4, BookAfterCancel
    <2>7. e.what # "phase" /\ e.what # "trade"
      BY <2>4
    <2>8. QED BY <1>1, <1>6, <1>9, <2>3, <2>5, <2>6, <2>7, PublishStep DEF e
  <1>10. CASE UNCHANGED orders /\ PublishNothing
    <2>1. nextSeq' = nextSeq /\ orders' = orders
      BY <1>10 DEF PublishNothing
    <2>2. IdsInv' /\ ExchangeType'
      BY <1>3, <1>5, <1>7, <2>1
    <2>3. QED BY <1>1, <1>6, <1>10, <2>1, <2>2, QuietStep
  <1>11. QED BY <1>8, <1>9, <1>10 DEF Rest

\* A trade in continuous trading.  The order that came in is in Shenzhen's book and
\* not in Shanghai's, and the event says so: both orders are reduced, or the resting one.
LEMMA FillStep ==
  ASSUME TypeOK, DayInv, NEW o \in orders, NEW flag, Fill(o, flag)
  PROVE  TypeOK' /\ DayInv'
  <1> DEFINE n == Least(o.qty, incoming.qty)
             buy == IF incoming.side = "Buy" THEN incoming.id ELSE o.id
             sell == IF incoming.side = "Buy" THEN o.id ELSE incoming.id
  <1>1. /\ Goes /\ incoming.qty > 0 /\ o.side = Opposite(incoming.side) /\ seen' = seen
        /\ incoming' = [incoming EXCEPT !.qty = @ - n]
        /\ phase' = phase /\ arrived' = arrived
        /\ flag \in IF market = "Shanghai" THEN {SideCode(incoming.side)}
                    ELSE IF vendor = "tonglian" THEN {"", SideCode(incoming.side)} ELSE {""}
    BY DEF Fill, IsOldest, Side
  <1>2. Deal(buy, sell, n, flag)
    BY DEF Fill
  <1>3. /\ incoming \in Orders /\ phase = "Continuous"
        /\ market = "Shenzhen" => incoming \in orders
        /\ market = "Shanghai" => incoming.type = "Limit"
        /\ market = "Shanghai" => \A x \in orders : x.id # incoming.id
        /\ \A x \in orders : x.id < incoming.id \/ (market = "Shenzhen" /\ x = incoming)
    BY <1>1, IncomingIsOrder
  <1>4. orders \in SUBSET Orders /\ UniqueIds(orders) /\ o \in Orders
    BY DEF DayInv, DayType, ExchangeType, IdsInv, UniqueIds
  <1>5. /\ incoming.id \in Nat \ {0} /\ o.id \in Nat \ {0} /\ incoming.side \in Sides
        /\ o.qty \in Nat \ {0} /\ incoming.qty \in Nat \ {0}
    BY <1>3, <1>4 DEF Orders
  <1>6. n \in Nat \ {0} /\ n <= incoming.qty
    BY <1>5, SMT DEF Least
  <1>7. buy \in Nat \ {0} /\ sell \in Nat \ {0}
    BY <1>5
  <1>8. o.side # incoming.side /\ o # incoming /\ o.id < incoming.id
    BY <1>1, <1>3, <1>5 DEF Opposite, Sides
  <1>9. o.id # incoming.id
    BY <1>5, <1>8, SMT
  <1> HIDE DEF n
  <1>10. /\ incoming' \in [id : Nat \ {0}, side : Sides, qty : Nat, type : Types]
         /\ incoming'.id = incoming.id /\ incoming'.side = incoming.side
         /\ incoming'.type = incoming.type /\ incoming'.qty = incoming.qty - n
    <2>1. incoming.qty - n \in Nat
      BY <1>5, <1>6, SMT
    <2>2. incoming' = [incoming EXCEPT !.qty = incoming.qty - n]
      BY <1>1
    <2>3. QED BY <1>3, <2>1, <2>2 DEF Orders
  <1>11. /\ orders' = Reduced(Reduced(orders, buy, n), sell, n)
         /\ Publish(FillRow(buy, sell, n, flag)) /\ nextSeq <= MaxSeq
         /\ nextSeq' = nextSeq + Step
    BY <1>2 DEF Deal, Publish
  <1>12. /\ orders' \in SUBSET Orders /\ UniqueIds(orders')
         /\ \A x \in orders' : \E y \in orders : y.id = x.id /\ y.type = x.type
    BY <1>6, <1>11, DealLeaves DEF DayInv
  <1>13. ExchangeType'
    BY <1>1, <1>10, <1>12 DEF ExchangeType, DayInv, DayType
  <1>14. market = "Shenzhen" /\ incoming'.qty > 0 => incoming' \in orders'
    <2> SUFFICES ASSUME market = "Shenzhen", incoming'.qty > 0 PROVE incoming' \in orders'
      OBVIOUS
    <2>1. incoming.qty > n /\ incoming \in orders
      BY <1>3, <1>5, <1>6, <1>10, SMT
    <2> DEFINE left == [incoming EXCEPT !.qty = @ - n]
    <2>2. incoming' = left /\ left.id = incoming.id
      BY <1>1, <1>10
    <2>3. CASE incoming.side = "Buy"
      <3>1. incoming' \in Reduced(orders, buy, n)
        BY <1>1, <1>4, <1>6, <2>1, <2>3, ReducedMembers
      <3>2. sell # incoming'.id
        BY <1>9, <1>10, <2>3
      <3>3. Reduced(orders, buy, n) \in SUBSET Orders
        BY <1>4, <1>6, ReducedOrders
      <3>4. QED BY <1>6, <1>11, <3>1, <3>2, <3>3, ReducedMembers
    <2>4. CASE incoming.side # "Buy"
      <3>1. incoming \in Reduced(orders, buy, n)
        BY <1>4, <1>6, <1>9, <2>1, <2>4, ReducedMembers
      <3>2. Reduced(orders, buy, n) \in SUBSET Orders
        BY <1>4, <1>6, ReducedOrders
      <3>3. QED BY <1>1, <1>6, <1>11, <2>1, <2>4, <3>1, <3>2, ReducedMembers
    <2>5. QED BY <2>3, <2>4
  <1>15. IdsInv'
    <2>1. market' = market /\ NextId \in Nat /\ NextId' \in Nat /\ NextId <= NextId'
      BY <1>1, <1>11, GoesKeeps, NumbersGrow DEF DayInv
    <2>2. \A y \in orders : y.id < NextId /\ y.id \in Nat
      BY <1>4 DEF DayInv, IdsInv, Orders
    <2>3. incoming.id < NextId
      BY <1>1 DEF DayInv, IdsInv
    <2>4. \A y \in orders : y.id < NextId'
      BY <2>1, <2>2, SMT
    <2>5. incoming'.id < NextId'
      BY <1>5, <1>10, <2>1, <2>3, SMT
    <2>6. /\ \A x \in orders' : x.id < NextId'
          /\ market' = "Shanghai" => \A x \in orders' : x.type = "Limit"
      BY <1>12, <2>1, <2>4 DEF DayInv, IdsInv
    <2>7. ASSUME incoming'.qty > 0, NEW x \in orders'
          PROVE  x.id < incoming'.id \/ (market' = "Shenzhen" /\ x = incoming')
      <3>1. PICK y \in orders : y.id = x.id
        BY <1>12
      <3>2. CASE y.id < incoming.id
        BY <1>10, <3>1, <3>2
      <3>3. CASE market = "Shenzhen" /\ y = incoming
        BY <1>10, <1>12, <1>14, <2>1, <2>7, <3>1, <3>3 DEF UniqueIds
      <3>4. QED BY <1>3, <3>2, <3>3
    <2>8. QED
      BY <1>1, <1>3, <1>10, <1>12, <1>14, <2>1, <2>5, <2>6, <2>7 DEF IdsInv, UniqueIds
  <1>16. Announced' = Announced
    BY <1>1 DEF Announced
  <1>17. /\ flag \in {"", "B", "S"} /\ IsFlag(flag)
         /\ flag # "" => flag = (IF incoming.side = "Buy" THEN "B" ELSE "S")
         /\ market = "Shanghai" => flag # ""
    BY <1>1 DEF SideCode, IsFlag, DayInv, DayType
  <1> HIDE DEF buy, sell
  <1> DEFINE e == Outcome(FillRow(buy, sell, n, flag)).event
  <1>18. IsTrade(e, buy, sell, n, flag)
    BY <1>6, <1>7, <1>17, FillOutcome DEF DayInv
  <1>19. FillRow(buy, sell, n, flag) \in Rows /\ FillRow(buy, sell, n, flag).seq = nextSeq
    <2>1. flag \in Texts /\ buy \in Nat /\ sell \in Nat /\ n \in Nat
      BY <1>6, <1>7, <1>17 DEF Texts
    <2>2. QED BY <1>11, <2>1, FillRowType DEF DayInv
  <1> HIDE DEF e
  <1>20. e.aggressor = incoming.side
    <2>1. CASE flag # ""
      BY <1>5, <1>17, <1>18, <2>1, Codes DEF Sides, IsTrade
    <2>2. CASE flag = ""
      <3>1. buy > sell <=> incoming.side = "Buy"
        BY <1>5, <1>8, SMT DEF buy, sell
      <3>2. QED BY <1>5, <1>18, <2>2, <3>1 DEF Sides, IsTrade
    <2>3. QED BY <2>1, <2>2
  <1>21. BookAfter(orders, e) = orders'
    <2>0. /\ e.what = "trade" /\ e.qty \in Nat \ {0}
          /\ orders' = Reduced(Reduced(orders, buy, e.qty), sell, e.qty)
      BY <1>6, <1>11, <1>18 DEF IsTrade
    <2>1. CASE NamesBoth(flag)
      <3>1. e.resting = 0 /\ e.buy = buy /\ e.sell = sell
        BY <1>18, <2>1 DEF IsTrade
      <3>2. QED BY <1>4, <1>7, <2>0, <3>1, BookAfterTrade
    <2>2. CASE ~NamesBoth(flag)
      <3>1. market = "Shanghai"
        BY <2>2 DEF NamesBoth, DayInv, DayType
      <3>2. \/ e.resting = sell /\ \A x \in orders : x.id # buy
            \/ e.resting = buy /\ \A x \in orders : x.id # sell
        BY <1>3, <1>17, <1>18, <2>2, <3>1 DEF buy, sell, IsTrade
      <3>3. QED BY <1>4, <1>7, <2>0, <3>2, BookAfterTrade
    <2>3. QED BY <2>1, <2>2
  <1>22. e.what # "phase" /\ incoming'.side = incoming.side
    BY <1>10, <1>18 DEF IsTrade
  <1>23. QED
    BY <1>1, <1>11, <1>13, <1>15, <1>16, <1>19, <1>20, <1>21, <1>22, PublishStep DEF e

\* A trade in a call: both orders rest, and both are reduced in either market.
LEMMA MatchCallStep ==
  ASSUME TypeOK, DayInv, NEW buy \in orders, NEW sell \in orders, NEW flag,
         MatchCall(buy, sell, flag)
  PROVE  TypeOK' /\ DayInv'
  <1> DEFINE n == Least(buy.qty, sell.qty)
  <1>1. /\ Goes /\ phase \in Matching /\ seen' = {} /\ incoming' = Nobody
        /\ phase' = phase /\ arrived' = arrived
        /\ flag \in IF market = "Shenzhen" THEN {""}
                    ELSE IF phase = "OpeningMatch" THEN {"N", "B", "S"} ELSE {"N"}
    BY DEF MatchCall, Begins
  <1>2. Deal(buy.id, sell.id, n, flag)
    BY DEF MatchCall
  <1>3. /\ orders \in SUBSET Orders /\ buy \in Orders /\ sell \in Orders
    BY DEF DayInv, DayType, ExchangeType
  <1>4. /\ buy.id \in Nat \ {0} /\ sell.id \in Nat \ {0}
        /\ buy.qty \in Nat \ {0} /\ sell.qty \in Nat \ {0}
    BY <1>3 DEF Orders
  <1>5. n \in Nat \ {0}
    BY <1>4 DEF Least
  <1> HIDE DEF n
  <1>6. /\ orders' = Reduced(Reduced(orders, buy.id, n), sell.id, n)
        /\ Publish(FillRow(buy.id, sell.id, n, flag)) /\ nextSeq <= MaxSeq
        /\ nextSeq' = nextSeq + Step
    BY <1>2 DEF Deal, Publish
  <1>7. /\ orders' \in SUBSET Orders /\ UniqueIds(orders')
        /\ \A x \in orders' : \E y \in orders : y.id = x.id /\ y.type = x.type
    BY <1>5, <1>6, DealLeaves DEF DayInv
  <1>8. ExchangeType'
    BY <1>1, <1>7 DEF ExchangeType, DayInv, DayType
  <1>9. IdsInv'
    <2>1. market' = market /\ NextId \in Nat /\ NextId' \in Nat /\ NextId <= NextId'
      BY <1>1, <1>6, GoesKeeps, NumbersGrow DEF DayInv
    <2>2. \A y \in orders : y.id < NextId /\ y.id \in Nat
      BY <1>3 DEF DayInv, IdsInv, Orders
    <2>3. \A y \in orders : y.id < NextId'
      BY <2>1, <2>2, SMT
    <2>4. /\ \A x \in orders' : x.id < NextId'
          /\ market' = "Shanghai" => \A x \in orders' : x.type = "Limit"
      BY <1>7, <2>1, <2>3 DEF DayInv, IdsInv
    <2>5. ~(incoming'.qty > 0)
      <3>1. incoming'.qty = 0
        BY <1>1 DEF Nobody
      <3>2. QED BY <3>1, SMT
    <2>6. QED BY <1>7, <2>4, <2>5 DEF IdsInv, UniqueIds
  <1>10. Announced' = Announced /\ phase' # "Continuous"
    BY <1>1 DEF Announced, Matching
  <1>11. IsFlag(flag) /\ NamesBoth(flag) /\ flag \in {"", "N", "B", "S"}
    BY <1>1 DEF IsFlag, NamesBoth, Matching, DayInv, DayType
  <1> DEFINE e == Outcome(FillRow(buy.id, sell.id, n, flag)).event
  <1>12. IsTrade(e, buy.id, sell.id, n, flag)
    BY <1>4, <1>5, <1>11, FillOutcome DEF DayInv
  <1>13. FillRow(buy.id, sell.id, n, flag) \in Rows /\ FillRow(buy.id, sell.id, n, flag).seq = nextSeq
    <2>1. flag \in Texts /\ buy.id \in Nat /\ sell.id \in Nat /\ n \in Nat
      BY <1>4, <1>5, <1>11 DEF Texts
    <2>2. QED BY <1>6, <2>1, FillRowType DEF DayInv
  <1> HIDE DEF e
  <1>14. BookAfter(orders, e) = orders'
    <2>1. /\ e.what = "trade" /\ e.qty \in Nat \ {0}
          /\ orders' = Reduced(Reduced(orders, buy.id, e.qty), sell.id, e.qty)
          /\ e.resting = 0 /\ e.buy = buy.id /\ e.sell = sell.id
      BY <1>5, <1>6, <1>11, <1>12 DEF IsTrade
    <2>2. QED BY <1>3, <1>4, <2>1, BookAfterTrade
  <1>15. e.what # "phase"
    BY <1>12 DEF IsTrade
  <1>16. QED BY <1>1, <1>6, <1>8, <1>9, <1>10, <1>13, <1>14, <1>15, PublishStep DEF e

\* The phases of a day, and what is announced in each.
LEMMA PhaseSteps ==
  ASSUME DayType, phase # "Closed", phase' = PhaseAfter[phase]
  PROVE  /\ phase' \in DOMAIN PhaseAfter \cup {"Closed"} /\ phase' # "Unknown"
         /\ phase' \in Matching => Announced' = Announced
         /\ phase' \notin Matching => Announced' = phase'
  <1>1. phase \in {"Startup", "OpeningCall", "OpeningMatch", "Continuous", "ClosingCall",
                   "ClosingMatch"}
    BY DEF DayType, ExchangeType, PhaseAfter
  <1>2. CASE phase = "Startup"
    <2>1. phase' = "OpeningCall"
      BY <1>2 DEF PhaseAfter
    <2>2. QED BY <2>1, <1>2 DEF PhaseAfter, Announced, Matching
  <1>3. CASE phase = "OpeningCall"
    <2>1. phase' = "OpeningMatch"
      BY <1>3 DEF PhaseAfter
    <2>2. QED BY <2>1, <1>3 DEF PhaseAfter, Announced, Matching
  <1>4. CASE phase = "OpeningMatch"
    <2>1. phase' = "Continuous"
      BY <1>4 DEF PhaseAfter
    <2>2. QED BY <2>1, <1>4 DEF PhaseAfter, Announced, Matching
  <1>5. CASE phase = "Continuous"
    <2>1. phase' = "ClosingCall"
      BY <1>5 DEF PhaseAfter
    <2>2. QED BY <2>1, <1>5 DEF PhaseAfter, Announced, Matching
  <1>6. CASE phase = "ClosingCall"
    <2>1. phase' = "ClosingMatch"
      BY <1>6 DEF PhaseAfter
    <2>2. QED BY <2>1, <1>6 DEF PhaseAfter, Announced, Matching
  <1>7. CASE phase = "ClosingMatch"
    <2>1. phase' = "Closed"
      BY <1>7 DEF PhaseAfter
    <2>2. QED BY <2>1, <1>7 DEF PhaseAfter, Announced, Matching
  <1>8. QED BY <1>1, <1>2, <1>3, <1>4, <1>5, <1>6, <1>7

\* A new phase, announced or not: Shanghai is silent only about the matching of a call,
\* or gives it a code that becomes no event.
LEMMA NextPhaseStep ==
  ASSUME TypeOK, DayInv, NextPhase
  PROVE  TypeOK' /\ DayInv'
  <1>1. /\ Goes /\ phase # "Closed" /\ seen' = {} /\ incoming' = Nobody
        /\ phase' = PhaseAfter[phase] /\ arrived' = arrived /\ orders' = orders
    BY DEF NextPhase, Begins
  <1>2. PICK r \in Announcements(phase') : IF r = NoRow THEN PublishNothing ELSE Publish(r)
    BY <1>1 DEF NextPhase
  <1>3. /\ phase' \in DOMAIN PhaseAfter \cup {"Closed"} /\ phase' # "Unknown"
        /\ phase' \in Matching => Announced' = Announced
        /\ phase' \notin Matching => Announced' = phase'
    BY <1>1, PhaseSteps DEF DayInv
  <1>4. ExchangeType'
    BY <1>1, <1>3 DEF ExchangeType, DayInv, DayType
  <1>5. ASSUME nextSeq' = nextSeq \/ nextSeq' = nextSeq + Step PROVE IdsInv'
    <2>1. market' = market /\ NextId \in Nat /\ NextId' \in Nat /\ NextId <= NextId'
      BY <1>1, <1>5, GoesKeeps, NumbersGrow DEF DayInv
    <2>2. \A y \in orders : y.id < NextId /\ y.id \in Nat
      BY DEF DayInv, IdsInv, DayType, ExchangeType, Orders
    <2>3. \A y \in orders : y.id < NextId'
      BY <2>1, <2>2, SMT
    <2>4. ~(incoming'.qty > 0)
      BY <1>1, SMT DEF Nobody
    <2>5. QED BY <1>1, <2>1, <2>3, <2>4 DEF DayInv, IdsInv
  <1>6. CASE r = NoRow
    <2>1. PublishNothing /\ nextSeq' = nextSeq
      BY <1>2, <1>6 DEF PublishNothing
    <2>2. market = "Shanghai" => phase' \in Matching
      <3>1. ASSUME NEW code PROVE StatusRow(code) # NoRow
        <4>1. StatusRow(code).table = "order" /\ NoRow.table = "none"
          BY DEF StatusRow, OrderRow, NoRow
        <4>2. QED BY <4>1
      <3>2. QED BY <1>2, <1>6, <3>1 DEF Announcements
    <2>3. QED BY <1>1, <1>3, <1>4, <1>5, <2>1, <2>2, QuietStep
  <1>7. CASE r # NoRow
    <2>1. Publish(r) /\ nextSeq <= MaxSeq /\ nextSeq' = nextSeq + Step
      BY <1>2, <1>7 DEF Publish
    <2>2. market = "Shanghai"
      BY <1>2, <1>7 DEF Announcements, DayInv, DayType
    <2>3. PICK code \in Texts : /\ r = StatusRow(code)
                                /\ PhaseOf(code) = IF phase' \in Matching THEN "Unknown" ELSE phase'
      <3>1. CASE phase' \in Matching
        <4>1. r = StatusRow("Unknown")
          BY <1>2, <1>7, <2>2, <3>1 DEF Announcements
        <4>2. PhaseOf("Unknown") = "Unknown" /\ "Unknown" \in Texts
          BY DEF PhaseOf, ShanghaiPhase, PhaseOfCode, Texts
        <4>3. QED BY <3>1, <4>1, <4>2
      <3>2. CASE phase' \notin Matching /\ vendor = "tonglian"
        <4>1. r = StatusRow(phase')
          BY <1>2, <1>7, <2>2, <3>2 DEF Announcements
        <4>2. PhaseOf(phase') = phase' /\ phase' \in Texts
          BY <1>3, <3>2 DEF PhaseOf, Texts
        <4>3. QED BY <3>2, <4>1, <4>2
      <3>3. CASE phase' \notin Matching /\ vendor = "csmar"
        <4>1. PICK c \in DOMAIN PhaseOfCode : r = StatusRow(c) /\ PhaseOfCode[c] = phase'
          BY <1>2, <1>7, <2>2, <3>3 DEF Announcements
        <4>2. PhaseOf(c) = phase' /\ c \in Texts
          BY <3>3, <4>1 DEF PhaseOf, ShanghaiPhase, Texts
        <4>3. QED BY <3>3, <4>1, <4>2
      <3>4. QED BY <3>1, <3>2, <3>3 DEF DayInv, DayType
    <2> DEFINE e == Outcome(r).event
    <2>4. e = IF phase' \in Matching THEN Nothing
              ELSE [what |-> "phase", phase |-> phase', seq |-> nextSeq]
      <3>1. Outcome(StatusRow(code)).event =
              IF PhaseOf(code) = "Unknown" THEN Nothing
              ELSE [what |-> "phase", phase |-> PhaseOf(code), seq |-> nextSeq]
        BY <2>2, StatusOutcome DEF DayInv
      <3>2. QED BY <1>3, <2>3, <3>1
    <2>5. r \in Rows /\ r.seq = nextSeq
      <3>1. "S" \in Texts /\ 0 \in Nat
        BY DEF Texts
      <3>2. OrderRow("S", code, 0, 0, 0) \in Rows /\ OrderRow("S", code, 0, 0, 0).seq = nextSeq
        BY <2>1, <3>1, OrderRowType DEF DayInv
      <3>3. QED BY <2>3, <3>2 DEF StatusRow
    <2> HIDE DEF e
    <2>6. /\ e.what # "trade" /\ e.what # "order"
          /\ e.what = "phase" <=> phase' \notin Matching
          /\ e.what = "phase" => e.phase = phase'
      BY <2>4 DEF Nothing
    <2>7. BookAfter(orders, e) = orders'
      BY <1>1, <2>6 DEF BookAfter
    <2>8. Announced' = IF e.what = "phase" THEN e.phase ELSE Announced
      BY <1>3, <2>6
    <2>9. QED BY <1>1, <1>4, <1>5, <2>1, <2>5, <2>6, <2>7, <2>8, PublishStep DEF e
  <1>8. QED BY <1>6, <1>7

-----------------------------------------------------------------------------
(* The mapper's steps.                                                     *)

\* What a call of observe remembers of the sequence.
LEMMA ObserveReceives ==
  ASSUME NEW p \in PartitionIds, p # 0, NEW s \in Sequences0, Observe(p, s)
  PROVE  /\ lastReceived' \in {lastReceived, s}
         /\ IF s = 0 THEN lastReceived' = lastReceived ELSE lastReceived' = s
  BY DEF Observe, ObserveInvalid, ObserveAwaitingBaseline, ObserveWrongPartition,
         ObserveWhileStale, ObserveAccepted, ObserveDuplicate, ObserveBreak, Received

\* What a row does to the gate and the consumers: it is accepted above the cursor and
\* what it becomes reaches them, or they and the cursor stay as they are.
LEMMA MapRowMoves ==
  ASSUME TypeOK, DayInv, NEW r, r.channel = Channel, r.seq \in Sequences0, r.qty \in Nat,
         MapRow(r)
  PROVE  /\ TypeOK' /\ mode' = mode /\ partition' = Channel /\ state' \in {"Healthy", "Stale"}
         /\ Entries(book') /\ lastReceived' \in {lastReceived, r.seq}
         /\ state' = "Healthy" => lastReceived' = lastAccepted'
         /\ tracker'.sequence \in Nat /\ tracker'.sequence <= lastAccepted'
         /\ tracker'.answer \in {"None", "Applied"}
         /\ \/ /\ state = "Healthy" /\ state' = "Healthy"
               /\ r.seq > lastAccepted /\ (mode = "Contiguous" => r.seq = lastAccepted + 1)
               /\ lastAccepted' = r.seq
               /\ event' = Outcome(r).event /\ book' = Applied(Outcome(r).event)
               /\ tracker'.phase = IF event'.what = "phase" THEN event'.phase ELSE tracker.phase
            \/ /\ lastAccepted' = lastAccepted /\ event' = Nothing /\ book' = book
               /\ tracker' = tracker
               /\ state' = "Healthy" =>
                    state = "Healthy" /\ (r.seq = 0 \/ r.seq = lastAccepted)
  <1>1. Observe(Channel, r.seq) /\ Channel \in PartitionIds /\ Channel # 0
    BY DayAssumption DEF MapRow, Channel
  <1>2. TypeOK'
    BY <1>1, ObserveType
  <1>3. /\ partition = Channel /\ state \in {"Healthy", "Stale"}
        /\ tracker.sequence \in Nat /\ tracker.sequence <= lastAccepted
        /\ tracker.answer \in {"None", "Applied"}
    BY DEF DayInv, DayType, CursorInv
  <1>8. /\ lastReceived' \in {lastReceived, r.seq}
        /\ IF r.seq = 0 THEN lastReceived' = lastReceived ELSE lastReceived' = r.seq
        /\ state = "Healthy" => lastReceived = lastAccepted
    BY <1>1, ObserveReceives DEF DayInv, CursorInv, CursorIsOfChannel
  <1> DEFINE e == IF obs'.event = "Accepted" THEN Outcome(r).event ELSE Nothing
  <1>4. /\ event' = e /\ book' = Applied(e)
        /\ tracker' = IF e.what = "phase" THEN PhaseApply(e) ELSE tracker
    BY DEF MapRow, Consumed
  <1>5. CASE /\ obs'.event = "Accepted" /\ state = "Healthy" /\ state' = "Healthy"
             /\ r.seq # 0 /\ partition' = partition
             /\ Follows(r.seq, lastAccepted) /\ lastAccepted' = r.seq /\ mode' = mode
    <2>1. r.seq > lastAccepted /\ (mode = "Contiguous" => r.seq = lastAccepted + 1)
      BY <1>5, FollowsIsAbove
    <2>2. e = Outcome(r).event /\ IsSound(e, r.seq, Names(r))
      BY <1>5, OutcomeIsSound DEF DayInv, DayType
    <2> HIDE DEF e
    <2>3. Entries(book') /\ lastReceived' = lastAccepted'
      <3>1. Entries(book) /\ book' = BookAfter(book, e)
        BY <1>4, AppliedIsAfter DEF DayInv, ContainInv
      <3>2. QED BY <1>5, <1>8, <2>2, <3>1, BookAfterWithout
    <2>4. CASE e.what = "phase"
      <3>1. e.seq = r.seq /\ e.phase # "Unknown"
        BY <2>2, <2>4 DEF IsSound
      <3>2. e.seq \in Nat /\ e.seq # 0 /\ e.seq # tracker.sequence /\ ~(e.seq < tracker.sequence)
        BY <1>3, <1>5, <2>1, <3>1, GateAssumption, SMT DEF Sequences0, TypeOK
      <3>3. tracker' = [phase |-> e.phase, sequence |-> e.seq, answer |-> "Applied"]
        BY <1>4, <2>4, <3>1, <3>2 DEF PhaseApply
      <3>4. tracker'.sequence = r.seq /\ tracker'.answer = "Applied" /\ tracker'.phase = e.phase
        BY <3>1, <3>3
      <3>5. tracker'.sequence \in Nat /\ tracker'.sequence <= lastAccepted'
        BY <1>5, <3>1, <3>2, <3>4, SMT
      <3>6. QED BY <1>2, <1>3, <1>4, <1>5, <1>8, <2>1, <2>2, <2>3, <2>4, <3>4, <3>5
    <2>5. CASE e.what # "phase"
      <3>1. tracker' = tracker
        BY <1>4, <2>5
      <3>2. tracker.sequence <= lastAccepted'
        BY <1>3, <1>5, <2>1, GateAssumption, SMT DEF Sequences0, TypeOK
      <3>3. QED BY <1>2, <1>3, <1>4, <1>5, <1>8, <2>1, <2>2, <2>3, <2>5, <3>1, <3>2
    <2>6. QED BY <2>4, <2>5
  <1>6. CASE /\ obs'.event # "Accepted" /\ lastAccepted' = lastAccepted
             /\ partition' = partition /\ state' \in {state, "Stale"} /\ mode' = mode
             /\ state # "Healthy" => state' # "Healthy"
             /\ state' = "Healthy" => Channel = 0 \/ r.seq = 0 \/ r.seq = lastAccepted
    <2>1. e = Nothing
      BY <1>6
    <2> HIDE DEF e
    <2>2. event' = Nothing /\ book' = book /\ tracker' = tracker
      BY <1>4, <2>1, AppliedIsAfter DEF Nothing
    <2>3. Entries(book') /\ (state' = "Healthy" => lastReceived' = lastAccepted')
      BY <1>1, <1>6, <1>8, <2>2 DEF DayInv, ContainInv, Entries
    <2>4. QED BY <1>1, <1>2, <1>3, <1>6, <1>8, <2>2, <2>3
  <1>7. QED BY <1>1, <1>5, <1>6, ObserveMoves

\* The exchange is not the mapper's.
LEMMA MapperLeavesExchange ==
  ASSUME DayInv, UNCHANGED <<vendor, market, exchangeVars>>
  PROVE  /\ ExchangeType' /\ IdsInv' /\ Step' = Step /\ Announced' = Announced
         /\ \A r : Names(r)' = Names(r)
         /\ UNCHANGED <<vendor, market, phase, orders, arrived, incoming, nextSeq>>
  <1>1. UNCHANGED <<vendor, market, phase, orders, arrived, incoming, nextSeq>>
    BY DEF exchangeVars
  <1>2. ExchangeType' /\ Step' = Step /\ Announced' = Announced /\ NextId' = NextId
        /\ \A r : Names(r)' = Names(r)
    BY <1>1 DEF DayInv, DayType, ExchangeType, Step, Announced, NextId, Names
  <1>3. IdsInv'
    BY <1>1, <1>2 DEF DayInv, IdsInv
  <1>4. QED BY <1>1, <1>2, <1>3

\* The row on its way arrives: a gate that stays healthy has accepted it, and nothing
\* was missing before it; so the book and the tracker catch up with the exchange.
LEMMA DeliverNextStep ==
  ASSUME TypeOK, DayInv, DeliverNext
  PROVE  TypeOK' /\ DayInv'
  <1>1. /\ row # NoRow /\ row' = NoRow /\ MapRow(row) /\ seen' = seen \cup {row}
        /\ damaged' = damaged /\ UNCHANGED <<vendor, market, exchangeVars>>
    BY DEF DeliverNext, Deliver
  <1>2. /\ row \in Rows /\ row.seq = nextSeq - Step /\ row.seq >= Step
        /\ nextSeq \in Nat /\ nextSeq >= Step /\ seen \in SUBSET Rows
    BY <1>1 DEF DayInv, DayType
  <1>3. row.channel = Channel /\ row.seq \in Sequences0 /\ row.qty \in Nat
    BY <1>2 DEF Rows
  <1>4. /\ TypeOK' /\ mode' = mode /\ partition' = Channel /\ state' \in {"Healthy", "Stale"}
        /\ lastReceived' \in {lastReceived, row.seq}
        /\ Entries(book') /\ (state' = "Healthy" => lastReceived' = lastAccepted')
        /\ tracker'.sequence \in Nat /\ tracker'.sequence <= lastAccepted'
        /\ tracker'.answer \in {"None", "Applied"}
        /\ \/ /\ state = "Healthy" /\ state' = "Healthy"
              /\ row.seq > lastAccepted /\ (mode = "Contiguous" => row.seq = lastAccepted + 1)
              /\ lastAccepted' = row.seq
              /\ event' = Outcome(row).event /\ book' = Applied(Outcome(row).event)
              /\ tracker'.phase = IF event'.what = "phase" THEN event'.phase ELSE tracker.phase
           \/ /\ lastAccepted' = lastAccepted /\ event' = Nothing /\ book' = book
              /\ tracker' = tracker
              /\ state' = "Healthy" =>
                   state = "Healthy" /\ (row.seq = 0 \/ row.seq = lastAccepted)
    BY <1>1, <1>3, MapRowMoves
  <1>5. /\ ExchangeType' /\ IdsInv' /\ Step' = Step /\ Announced' = Announced
        /\ \A r : Names(r)' = Names(r)
        /\ UNCHANGED <<vendor, market, phase, orders, arrived, incoming, nextSeq>>
    BY <1>1, MapperLeavesExchange
  <1>6. DayType'
    BY <1>1, <1>2, <1>4, <1>5 DEF DayInv, DayType
  <1>7. Step \in {1, 2} /\ (vendor = "csmar" => mode = "Monotonic") /\ Gone = row.seq - Step
        /\ (vendor # "csmar" => mode = "Contiguous" /\ Step = 1)
    BY <1>1 DEF Step, DayInv, DayType, Gone
  <1>8. Gone' = row.seq
    BY <1>1, <1>2, <1>5 DEF Gone
  <1>9. /\ lastAccepted \in Nat /\ lastAccepted' \in Nat /\ lastReceived \in Nat
        /\ lastAccepted <= Gone /\ lastReceived <= Gone /\ Gone < row.seq
        /\ \A r \in seen : r.seq \in Nat /\ r.seq <= Gone
        /\ damaged # NoRow => damaged.seq \in Nat /\ damaged.seq <= Gone
    <2>1. /\ lastAccepted <= Gone /\ lastReceived <= Gone /\ \A r \in seen : r.seq <= Gone
          /\ damaged # NoRow => damaged \in Rows /\ damaged.seq <= Gone
      BY DEF DayInv, DayType, CursorInv, CursorIsOfChannel
    <2>2. Sequences0 \subseteq Nat
      BY GateAssumption, SMT DEF Sequences0
    <2>3. Gone < row.seq
      BY <1>2, <1>7, SMT
    <2>4. QED BY <1>2, <1>4, <2>1, <2>2, <2>3 DEF TypeOK, Rows
  <1>10. ASSUME state' = "Healthy"
         PROVE  /\ CaughtUp /\ (damaged = NoRow => lastAccepted = Gone)
                /\ lastAccepted' = row.seq
                /\ event' = Outcome(row).event /\ book' = Applied(Outcome(row).event)
                /\ tracker'.phase = IF event'.what = "phase" THEN event'.phase ELSE tracker.phase
                /\ state = "Healthy"
    <2>1. state = "Healthy" /\ (vendor = "csmar" => CaughtUp)
      BY <1>1, <1>4, <1>10 DEF DayInv, CursorInv
    <2>2. row.seq # 0 /\ row.seq # lastAccepted
      BY <1>2, <1>7, <1>9, SMT
    <2>3. /\ row.seq > lastAccepted /\ (mode = "Contiguous" => row.seq = lastAccepted + 1)
          /\ lastAccepted' = row.seq
          /\ event' = Outcome(row).event /\ book' = Applied(Outcome(row).event)
          /\ tracker'.phase = IF event'.what = "phase" THEN event'.phase ELSE tracker.phase
      BY <1>4, <1>10, <2>2
    <2>4. vendor # "csmar" => lastAccepted = Gone
      BY <1>2, <1>7, <1>9, <2>3, SMT
    <2>5. QED BY <2>1, <2>3, <2>4 DEF CaughtUp
  <1>11. CursorInv' /\ (state' = "Healthy" => CaughtUp')
    <2>1. lastAccepted' <= Gone' /\ lastReceived' <= Gone'
      <3>1. lastAccepted' = lastAccepted \/ lastAccepted' = row.seq
        BY <1>4
      <3>2. QED BY <1>2, <1>4, <1>7, <1>8, <1>9, <3>1, SMT
    <2>2. \A r \in seen' : r.seq <= Gone'
      <3>1. \A r \in seen : r.seq <= row.seq
        BY <1>2, <1>7, <1>9, SMT
      <3>2. row.seq <= row.seq
        BY <1>2, <1>7, SMT
      <3>3. QED BY <1>1, <1>8, <3>1, <3>2
    <2>3. damaged' # NoRow => damaged'.seq <= Gone'
      BY <1>1, <1>2, <1>7, <1>8, <1>9, SMT
    <2>4. ASSUME state' = "Healthy" PROVE lastAccepted' = Gone' /\ CaughtUp'
      BY <1>8, <1>10, <2>4 DEF CaughtUp
    <2>5. QED BY <1>4, <2>1, <2>2, <2>3, <2>4 DEF CursorInv, CursorIsOfChannel
  <1>12. Pending = Outcome(row).event /\ Pending' = Nothing /\ Pending'.what = "none"
    BY <1>1 DEF Pending, Nothing
  <1>13. StepInv'
    <2> SUFFICES ASSUME state' = "Healthy", damaged' = NoRow
                 PROVE  book' = orders' /\ (market = "Shanghai" => Announced' = tracker'.phase)
      BY <1>5, <1>12, AppliedIsAfter DEF StepInv
    <2>1. /\ Applied(Pending) = orders
          /\ market = "Shanghai" =>
               Announced = IF Pending.what = "phase" THEN Pending.phase ELSE tracker.phase
      BY <1>1, <1>10 DEF DayInv, StepInv
    <2>2. QED BY <1>5, <1>10, <1>12, <2>1
  <1>14. AggressorIsIncoming'
    <2> SUFFICES ASSUME event'.what = "trade", phase' = "Continuous", damaged' = NoRow
                 PROVE  event'.aggressor = incoming'.side
      BY DEF AggressorIsIncoming
    <2>1. state' = "Healthy"
      BY <1>4 DEF Nothing
    <2>2. damaged = NoRow
      BY <1>1
    <2>3. event' = Pending /\ lastAccepted = Gone /\ state = "Healthy"
      BY <1>10, <1>12, <2>1, <2>2
    <2>4. QED BY <1>1, <1>5, <2>2, <2>3 DEF DayInv, StepInv
  <1>15. ContainInv'
    <2> SUFFICES ASSUME state' = "Healthy", damaged' # NoRow
                 PROVE  Unhurt(Applied(Pending))' = Unhurt(orders)'
      BY <1>4 DEF ContainInv, Entries
    <2>1. Unhurt(Applied(Pending)) = Unhurt(orders) /\ book' = Applied(Pending)
      BY <1>1, <1>10, <1>12 DEF DayInv, ContainInv
    <2>2. Applied(Pending)' = book'
      BY <1>12, AppliedIsAfter
    <2>3. /\ Unhurt(Applied(Pending))' = Unhurt(Applied(Pending))
          /\ Unhurt(orders)' = Unhurt(orders)
      BY <1>1, <1>5, <2>1, <2>2 DEF Unhurt
    <2>4. QED BY <2>1, <2>3
  <1>16. QED BY <1>4, <1>5, <1>6, <1>11, <1>13, <1>14, <1>15 DEF DayInv

\* A row that comes again is never above the cursor of a gate that is trusted: whatever
\* the mapper answers, nobody is told.
LEMMA RedeliverStep ==
  ASSUME TypeOK, DayInv, Redeliver
  PROVE  TypeOK' /\ DayInv'
  <1>1. PICK r \in seen : MapRow(r)
    BY DEF Redeliver
  <1>2. /\ row' = row /\ seen' = seen /\ damaged' = damaged
        /\ UNCHANGED <<vendor, market, exchangeVars>>
    BY DEF Redeliver
  <1>3. seen \in SUBSET Rows /\ r.channel = Channel /\ r.seq \in Sequences0 /\ r.qty \in Nat
    BY <1>1 DEF DayInv, DayType, Rows
  <1>4. /\ TypeOK' /\ mode' = mode /\ partition' = Channel /\ state' \in {"Healthy", "Stale"}
        /\ lastReceived' \in {lastReceived, r.seq} /\ lastAccepted' \in {lastAccepted, r.seq}
        /\ Entries(book') /\ (state' = "Healthy" => lastReceived' = lastAccepted')
        /\ tracker'.sequence \in Nat /\ tracker'.sequence <= lastAccepted'
        /\ tracker'.answer \in {"None", "Applied"}
        /\ \/ state = "Healthy" /\ r.seq > lastAccepted
           \/ /\ lastAccepted' = lastAccepted /\ event' = Nothing /\ book' = book
              /\ tracker' = tracker
              /\ state' = "Healthy" => state = "Healthy"
    BY <1>1, <1>3, MapRowMoves
  <1>5. /\ ExchangeType' /\ IdsInv' /\ Step' = Step /\ Announced' = Announced
        /\ \A x : Names(x)' = Names(x)
        /\ UNCHANGED <<vendor, market, phase, orders, arrived, incoming, nextSeq>>
    BY <1>2, MapperLeavesExchange
  <1>6. DayType'
    BY <1>2, <1>4, <1>5 DEF DayInv, DayType
  <1>7. lastAccepted \in Nat /\ r.seq \in Nat
    BY <1>3, GateAssumption, SMT DEF TypeOK, Sequences0
  <1>8. ASSUME state' = "Healthy" \/ event' # Nothing
        PROVE  /\ lastAccepted' = lastAccepted /\ event' = Nothing /\ book' = book
               /\ tracker' = tracker /\ state = "Healthy"
    <2>1. state = "Healthy" => r.seq <= lastAccepted
      BY <1>1, <1>2, <1>8 DEF DayInv, CursorInv
    <2>2. ~(state = "Healthy" /\ r.seq > lastAccepted)
      BY <1>7, <2>1, SMT
    <2>3. QED BY <1>4, <1>8, <2>2
  <1>9. Gone' = Gone /\ Pending' = Pending
    BY <1>2, <1>5 DEF Gone, Pending, Outcome
  <1>10. CursorInv' /\ (state' = "Healthy" => CaughtUp' = CaughtUp)
    <2>1. CursorIsOfChannel'
      BY <1>1, <1>4, <1>9 DEF DayInv, CursorInv, CursorIsOfChannel
    <2>2. state' = "Healthy" => CaughtUp' = CaughtUp
      BY <1>2, <1>5, <1>8, <1>9 DEF CaughtUp
    <2>3. QED BY <1>2, <1>4, <1>5, <1>8, <1>9, <2>1, <2>2 DEF DayInv, CursorInv
  <1>11. StepInv'
    <2> SUFFICES ASSUME state' = "Healthy", damaged' = NoRow, lastAccepted' = Gone'
                 PROVE  /\ Applied(Pending)' = orders'
                        /\ market' = "Shanghai" =>
                             Announced' = IF Pending'.what = "phase" THEN Pending'.phase
                                          ELSE tracker'.phase
                        /\ phase' = "Continuous" /\ Pending'.what = "trade" =>
                             Pending'.aggressor = incoming'.side
      BY DEF StepInv
    <2>1. book' = book /\ tracker' = tracker /\ state = "Healthy" /\ lastAccepted = Gone
      BY <1>8, <1>9
    <2>2. Applied(Pending)' = Applied(Pending)
      BY <1>9, <2>1, AppliedIsAfter
    <2>3. QED BY <1>2, <1>5, <1>9, <2>1, <2>2 DEF DayInv, StepInv
  <1>12. AggressorIsIncoming'
    <2>1. CASE event' # Nothing
      <3>1. state' = "Healthy" \/ event' # Nothing
        BY <2>1
      <3>2. QED BY <1>8, <2>1, <3>1
    <2>2. CASE event' = Nothing
      BY <2>2 DEF AggressorIsIncoming, Nothing
    <2>3. QED BY <2>1, <2>2
  <1>13. ContainInv'
    <2> SUFFICES ASSUME state' = "Healthy", damaged' # NoRow, CaughtUp'
                 PROVE  Unhurt(Applied(Pending))' = Unhurt(orders)'
      BY <1>4 DEF ContainInv, Entries
    <2>1. Applied(Pending)' = Applied(Pending)
      BY <1>8, <1>9, AppliedIsAfter
    <2>2. Unhurt(Applied(Pending)) = Unhurt(orders)
      BY <1>2, <1>8, <1>10 DEF DayInv, ContainInv
    <2>3. /\ Unhurt(Applied(Pending))' = Unhurt(Applied(Pending))
          /\ Unhurt(orders)' = Unhurt(orders)
      BY <1>2, <1>5, <2>1 DEF Unhurt
    <2>4. QED BY <2>2, <2>3
  <1>14. QED BY <1>4, <1>5, <1>6, <1>10, <1>11, <1>12, <1>13 DEF DayInv

\* A row that is lost leaves the cursor behind it for good.
LEMMA LoseStep ==
  ASSUME TypeOK, DayInv, Lose
  PROVE  TypeOK' /\ DayInv'
  <1>1. /\ vendor = "tonglian" /\ row # NoRow /\ row' = NoRow
        /\ UNCHANGED <<vendor, market, exchangeVars>>
        /\ seen' = seen /\ damaged' = damaged /\ event' = event
        /\ UNCHANGED <<book, tracker>> /\ UNCHANGED gateVars
    BY DEF Lose, mapperVars
  <1>2. UNCHANGED <<state, mode, partition, lastAccepted, lastReceived, stats, obs, feed, observed>>
    BY <1>1 DEF gateVars
  <1>3. TypeOK'
    BY <1>2 DEF TypeOK
  <1>4. /\ ExchangeType' /\ IdsInv' /\ Step' = Step /\ Announced' = Announced
        /\ UNCHANGED <<vendor, market, phase, orders, arrived, incoming, nextSeq>>
    BY <1>1, MapperLeavesExchange
  <1>5. DayType'
    BY <1>1, <1>2, <1>4 DEF DayInv, DayType
  <1>6. /\ Gone = row.seq - Step /\ Gone' = row.seq /\ row.seq \in Nat /\ Step = 1
        /\ lastAccepted \in Nat /\ lastReceived \in Nat
        /\ \A r \in seen : r.seq \in Nat
        /\ damaged # NoRow => damaged.seq \in Nat
    <2>1. /\ row.seq = nextSeq - Step /\ row.seq \in Sequences0
          /\ \A r \in seen : r.seq \in Sequences0
          /\ damaged # NoRow => damaged.seq \in Sequences0
      BY <1>1 DEF DayInv, DayType, Rows
    <2>4. Sequences0 \subseteq Nat
      BY GateAssumption, SMT DEF Sequences0
    <2>2. Gone = row.seq - Step /\ Gone' = row.seq /\ Step = 1
      BY <1>1, <1>4, <2>1 DEF Gone, Step
    <2>3. QED BY <2>1, <2>2, <2>4 DEF TypeOK
  <1>7. lastAccepted' < Gone' /\ lastAccepted <= Gone /\ lastReceived' <= Gone'
    <2>1. lastAccepted <= Gone /\ lastReceived <= Gone
      BY DEF DayInv, CursorInv, CursorIsOfChannel
    <2>2. QED BY <1>2, <1>6, <2>1, SMT
  <1>8. AggressorIsIncoming'
    BY <1>1, <1>4 DEF DayInv, AggressorIsIncoming
  <1>9. CursorInv'
    <2>1. CursorIsOfChannel'
      <3>1. lastAccepted' <= Gone'
        BY <1>2, <1>6, <1>7, SMT
      <3>2. QED BY <1>2, <1>7, <3>1 DEF DayInv, CursorInv, CursorIsOfChannel
    <2>2. \A r \in seen' : r.seq <= Gone'
      <3>1. \A r \in seen : r.seq <= Gone
        BY DEF DayInv, CursorInv
      <3>2. \A r \in seen : r.seq <= Gone'
        BY <1>6, <3>1, SMT
      <3>3. QED BY <1>1, <3>2
    <2>3. damaged' # NoRow => damaged'.seq <= Gone' /\ damaged'.seq # Gone'
      <3>1. damaged # NoRow => damaged.seq <= Gone
        BY DEF DayInv, CursorInv
      <3>2. QED BY <1>1, <1>6, <3>1, SMT
    <2>4. QED BY <1>1, <1>2, <2>1, <2>2, <2>3 DEF DayInv, CursorInv
  <1>10. ~CaughtUp' /\ lastAccepted' # Gone'
    <2>1. damaged # NoRow => damaged.seq <= Gone
      BY DEF DayInv, CursorInv
    <2>2. damaged' # NoRow => damaged'.seq # Gone'
      BY <1>1, <1>6, <2>1, SMT
    <2>3. lastAccepted' # Gone'
      BY <1>2, <1>6, <1>7, SMT
    <2>4. QED BY <2>2, <2>3 DEF CaughtUp
  <1>11. StepInv' /\ ContainInv'
    BY <1>1, <1>10 DEF StepInv, ContainInv, DayInv, Entries
  <1>12. QED BY <1>3, <1>4, <1>5, <1>8, <1>9, <1>11 DEF DayInv

\* A row with a field missing is a row, about no other orders, and has its number or none.
LEMMA SpoiledIsRow ==
  ASSUME NEW x \in Rows, NEW r \in Spoiled(x)
  PROVE  r \in Rows /\ r.seq \in {x.seq, 0} /\ Names(r) \subseteq Names(x)
  <1>1. "?" \in Texts /\ "Unknown" \in Texts
    BY DEF Texts
  <1>2. 0 \in Sequences0 /\ 0 \in Nat
    BY ZeroType
  <1>3. r \in Rows
    BY <1>1, <1>2 DEF Spoiled, Rows
  <1>4. /\ r.seq \in {x.seq, 0} /\ r.order \in {x.order, 0}
        /\ r.bid \in {x.bid, 0} /\ r.ask \in {x.ask, 0}
    BY DEF Spoiled, Rows
  <1>5. QED BY <1>3, <1>4 DEF Names

\* A damaged row costs the book at most the orders the row is about: what is published
\* names no other, nor would have what the row was before.
LEMMA DeliverDamagedStep ==
  ASSUME TypeOK, DayInv, DeliverDamaged
  PROVE  TypeOK' /\ DayInv'
  <1>1. row # NoRow /\ damaged = NoRow /\ damaged' = row
    BY DEF DeliverDamaged
  <1>2. PICK r \in Spoiled(row) : Deliver(r)
    BY DEF DeliverDamaged
  <1>3. /\ row \in Rows /\ row.seq = nextSeq - Step /\ row.seq >= Step
        /\ nextSeq \in Nat /\ nextSeq >= Step /\ seen \in SUBSET Rows
    BY <1>1 DEF DayInv, DayType
  <1>4. /\ row' = NoRow /\ MapRow(r) /\ seen' = seen \cup {r}
        /\ UNCHANGED <<vendor, market, exchangeVars>>
    BY <1>2 DEF Deliver
  <1>5. /\ r \in Rows /\ r.seq \in {row.seq, 0} /\ Names(r) \subseteq Names(row)
        /\ r.channel = Channel /\ r.seq \in Sequences0 /\ r.qty \in Nat
    BY <1>2, <1>3, SpoiledIsRow DEF Rows
  <1>6. /\ TypeOK' /\ mode' = mode /\ partition' = Channel /\ state' \in {"Healthy", "Stale"}
        /\ lastReceived' \in {lastReceived, r.seq}
        /\ Entries(book') /\ (state' = "Healthy" => lastReceived' = lastAccepted')
        /\ tracker'.sequence \in Nat /\ tracker'.sequence <= lastAccepted'
        /\ tracker'.answer \in {"None", "Applied"}
        /\ \/ /\ state = "Healthy" /\ state' = "Healthy"
              /\ r.seq > lastAccepted /\ (mode = "Contiguous" => r.seq = lastAccepted + 1)
              /\ lastAccepted' = r.seq /\ book' = Applied(Outcome(r).event)
           \/ /\ lastAccepted' = lastAccepted /\ book' = book
              /\ state' = "Healthy" =>
                   state = "Healthy" /\ (r.seq = 0 \/ r.seq = lastAccepted)
    BY <1>4, <1>5, MapRowMoves
  <1>7. /\ ExchangeType' /\ IdsInv' /\ Step' = Step /\ (\A x : Names(x)' = Names(x))
        /\ UNCHANGED <<vendor, market, phase, orders, arrived, incoming, nextSeq>>
    BY <1>4, MapperLeavesExchange
  <1>8. DayType'
    BY <1>1, <1>3, <1>4, <1>5, <1>6, <1>7 DEF DayInv, DayType
  <1>9. /\ Step \in {1, 2} /\ (vendor # "csmar" => mode = "Contiguous" /\ Step = 1)
        /\ Gone = row.seq - Step /\ Gone' = row.seq /\ damaged'.seq = Gone'
    BY <1>1, <1>3, <1>4, <1>7 DEF Step, DayInv, DayType, Gone
  <1>10. /\ lastAccepted \in Nat /\ lastReceived \in Nat /\ row.seq \in Nat /\ r.seq \in Nat
         /\ lastAccepted <= Gone /\ lastReceived <= Gone
         /\ Gone < row.seq /\ row.seq # 0
         /\ \A x \in seen : x.seq \in Nat /\ x.seq <= Gone
    <2>1. lastAccepted <= Gone /\ lastReceived <= Gone /\ \A x \in seen : x.seq <= Gone
      BY DEF DayInv, CursorInv, CursorIsOfChannel
    <2>2. Sequences0 \subseteq Nat
      BY GateAssumption, SMT DEF Sequences0
    <2>3. Gone < row.seq /\ row.seq # 0 /\ row.seq \in Nat
      BY <1>3, <1>9, SMT
    <2>4. QED BY <1>3, <1>5, <2>1, <2>2, <2>3 DEF TypeOK, Rows
  <1>11. ASSUME state' = "Healthy"
         PROVE  /\ state = "Healthy"
                /\ \/ lastAccepted' = Gone' /\ r.seq = row.seq
                   \/ lastAccepted' = lastAccepted /\ r.seq = 0
    <2>1. CASE r.seq > lastAccepted /\ lastAccepted' = r.seq /\ state = "Healthy"
      <3>1. r.seq = row.seq
        BY <1>5, <1>10, <2>1, SMT
      <3>2. QED BY <1>9, <2>1, <3>1
    <2>2. CASE lastAccepted' = lastAccepted /\ state = "Healthy"
               /\ (r.seq = 0 \/ r.seq = lastAccepted)
      <3>1. r.seq = 0
        <4>1. lastAccepted # row.seq
          BY <1>9, <1>10, SMT
        <4>2. QED BY <1>5, <2>2, <4>1
      <3>2. QED BY <2>2, <3>1
    <2>3. QED BY <1>6, <1>11, <2>1, <2>2
  <1>12. ASSUME state' = "Healthy", vendor = "csmar" \/ CaughtUp' PROVE lastAccepted = Gone
    <2>1. state = "Healthy"
      BY <1>11, <1>12
    <2>2. CASE vendor = "csmar"
      BY <1>1, <2>1, <2>2 DEF DayInv, CursorInv, CaughtUp
    <2>3. CASE vendor # "csmar" /\ r.seq = row.seq /\ lastAccepted' = Gone'
      <3>1. r.seq # 0 /\ r.seq # lastAccepted
        BY <1>9, <1>10, <2>3, SMT
      <3>2. r.seq = lastAccepted + 1
        BY <1>6, <1>9, <1>12, <2>3, <3>1
      <3>3. QED BY <1>9, <1>10, <2>3, <3>2, SMT
    <2>4. CASE vendor # "csmar" /\ lastAccepted' = lastAccepted
      <3>1. lastAccepted' = Gone' \/ lastAccepted' = Gone' - Step'
        BY <1>12, <2>4 DEF CaughtUp
      <3>2. QED BY <1>7, <1>9, <1>10, <2>4, <3>1, SMT
    <2>5. QED BY <1>11, <1>12, <2>2, <2>3, <2>4
  <1>13. CursorInv'
    <2>1. lastAccepted' <= Gone' /\ lastReceived' <= Gone'
      <3>1. lastAccepted' = lastAccepted \/ lastAccepted' = r.seq
        BY <1>6
      <3>2. QED BY <1>5, <1>6, <1>9, <1>10, <3>1, SMT
    <2>2. \A x \in seen' : x.seq <= Gone'
      <3>1. \A x \in seen : x.seq <= row.seq
        BY <1>9, <1>10, SMT
      <3>2. r.seq <= row.seq
        BY <1>5, <1>10, SMT
      <3>3. QED BY <1>4, <1>9, <3>1, <3>2
    <2>3. damaged'.seq <= Gone'
      BY <1>9, <1>10, SMT
    <2>4. ASSUME state' = "Healthy", vendor' = "csmar" PROVE CaughtUp'
      <3>1. lastAccepted = Gone
        BY <1>7, <1>12, <2>4
      <3>2. lastAccepted' = Gone' \/ lastAccepted' = Gone' - Step'
        BY <1>7, <1>9, <1>11, <2>4, <3>1
      <3>3. damaged' # NoRow
        BY <1>1
      <3>4. QED BY <1>9, <3>2, <3>3 DEF CaughtUp
    <2>5. ASSUME state' = "Healthy" PROVE \A x \in seen' : x.seq <= lastAccepted'
      <3>1. \A x \in seen : x.seq <= lastAccepted
        BY <1>11, <2>5 DEF DayInv, CursorInv
      <3>2. CASE lastAccepted' = Gone'
        BY <2>2, <3>2
      <3>3. CASE lastAccepted' = lastAccepted /\ r.seq = 0
        <4>1. r.seq <= lastAccepted
          BY <1>10, <3>3, SMT
        <4>2. QED BY <1>4, <3>1, <3>3, <4>1
      <3>4. QED BY <1>11, <2>5, <3>2, <3>3
    <2>6. QED BY <1>6, <2>1, <2>2, <2>3, <2>4, <2>5 DEF CursorInv, CursorIsOfChannel
  <1>14. StepInv' /\ AggressorIsIncoming'
    BY <1>1 DEF StepInv, AggressorIsIncoming
  <1>15. ContainInv'
    <2> SUFFICES ASSUME state' = "Healthy", CaughtUp'
                 PROVE  Unhurt(Applied(Pending))' = Unhurt(orders)'
      BY <1>6 DEF ContainInv, Entries
    <2> DEFINE N == Names(row)
               e == Outcome(row).event
    <2>1. BookAfter(book, e) = orders
      <3>1. Applied(Pending) = orders
        BY <1>1, <1>11, <1>12 DEF DayInv, StepInv
      <3>2. QED BY <1>1, <3>1, AppliedIsAfter DEF Pending
    <2>2. Pending' = Nothing
      BY <1>4 DEF Pending
    <2>3. /\ Unhurt(Applied(Pending))' = Without(N, book')
          /\ Unhurt(orders)' = Without(N, orders)
      BY <1>1, <1>7, <2>2, AppliedIsAfter DEF Unhurt, Without
    <2>4. Entries(book) /\ market \in {"Shanghai", "Shenzhen"}
      BY DEF DayInv, DayType, ContainInv
    <2>5. IsSound(e, row.seq, N)
      BY <2>4, OutcomeIsSound
    <2>6. IsSound(Outcome(r).event, r.seq, Names(r)) /\ Names(r) \subseteq N
      BY <1>5, <2>4, OutcomeIsSound
    <2> HIDE DEF N, e
    <2>7. Without(N, orders) = Without(N, book)
      BY <2>1, <2>4, <2>5, BookAfterWithout
    <2>8. Without(N, book') = Without(N, book)
      <3>1. book' = book \/ book' = BookAfter(book, Outcome(r).event)
        BY <1>6, AppliedIsAfter
      <3>2. QED BY <2>4, <2>6, <3>1, BookAfterWithout
    <2>9. QED BY <2>3, <2>7, <2>8
  <1>16. QED BY <1>6, <1>7, <1>8, <1>13, <1>14, <1>15 DEF DayInv

-----------------------------------------------------------------------------
(* The theorems.                                                           *)

\* The start of the day.
LEMMA DayInitInv == DayInit => TypeOK /\ DayInv
  <1> SUFFICES ASSUME DayInit PROVE TypeOK /\ DayInv
    OBVIOUS
  <1>1. /\ vendor \in {"csmar", "tonglian"} /\ market \in {"Shanghai", "Shenzhen"}
        /\ phase = "Startup" /\ orders = {} /\ arrived = 0 /\ incoming = Nobody
        /\ nextSeq = Step /\ row = NoRow /\ seen = {} /\ damaged = NoRow
        /\ event = Nothing /\ book = {}
        /\ tracker = [phase |-> "Unknown", sequence |-> 0, answer |-> "None"]
        /\ state = "Healthy" /\ partition = Channel /\ feed = <<0>>
        /\ mode = IF vendor = "csmar" THEN "Monotonic" ELSE "Contiguous"
        /\ lastAccepted = 0 /\ lastReceived = 0
        /\ stats = [c \in Counters |-> 0] /\ obs = [event |-> "Invalid", expected |-> 0]
        /\ observed = 0
    BY DEF DayInit
  <1>2. 0 \in Sequences0 /\ 0 \in 0 .. StatsModulus - 1
    BY ZeroType, GateAssumption, SMT
  <1>3. TypeOK
    <2>1. state \in States /\ mode \in Modes /\ partition \in PartitionIds
      BY <1>1, DayAssumption DEF States, Modes
    <2>2. obs \in [event : Events, expected : Sequences0] /\ feed \in Seq(Sequences0)
      BY <1>1, <1>2 DEF Events
    <2>3. stats \in [Counters -> 0 .. StatsModulus - 1]
      BY <1>1, <1>2
    <2>4. QED BY <1>1, <1>2, <2>1, <2>2, <2>3 DEF TypeOK
  <1>4. Step \in {1, 2}
    BY DEF Step
  <1>5. nextSeq \in Nat /\ nextSeq >= Step /\ nextSeq - Step = 0
    BY <1>1, <1>4, SMT
  <1>6. ExchangeType
    BY <1>1 DEF ExchangeType, PhaseAfter
  <1>7. tracker.sequence = 0 /\ tracker.answer = "None" /\ tracker.phase = "Unknown"
    BY <1>1
  <1>8. DayType
    BY <1>1, <1>5, <1>6, <1>7 DEF DayType
  <1>9. AggressorIsIncoming
    BY <1>1 DEF AggressorIsIncoming, Nothing
  <1>10. Gone = 0 /\ Pending = Nothing
    BY <1>1, <1>5 DEF Gone, Pending
  <1>11. CursorInv
    <2>1. CursorIsOfChannel /\ CaughtUp /\ tracker.sequence <= lastAccepted
      BY <1>1, <1>7, <1>10, SMT DEF CursorIsOfChannel, CaughtUp
    <2>2. QED BY <1>1, <1>7, <2>1 DEF CursorInv
  <1>12. ~(incoming.qty > 0)
    BY <1>1, SMT DEF Nobody
  <1>13. IdsInv
    BY <1>1, <1>12 DEF IdsInv
  <1>14. StepInv
    <2>1. Applied(Pending) = orders /\ Announced = "Unknown" /\ Pending.what = "none"
      BY <1>1, <1>10, AppliedIsAfter DEF Announced, Nothing
    <2>2. QED BY <1>7, <2>1 DEF StepInv
  <1>15. ContainInv
    BY <1>1 DEF ContainInv, Entries
  <1>16. QED BY <1>3, <1>8, <1>9, <1>11, <1>13, <1>14, <1>15 DEF DayInv

\* One step of the day, by the actions above.
LEMMA DayStepInv ==
  ASSUME TypeOK, DayInv, [DayNext]_dayVars
  PROVE  TypeOK' /\ DayInv'
  <1>1. CASE UNCHANGED dayVars
    <2>1. UNCHANGED <<vendor, market, phase, orders, arrived, incoming, nextSeq, row, seen,
                      damaged, event, book, tracker, state, mode, partition, lastAccepted,
                      lastReceived, stats, obs, feed, observed>>
      BY <1>1 DEF dayVars, exchangeVars, mapperVars, gateVars
    <2>2. TypeOK'
      BY <2>1 DEF TypeOK
    <2>3. Step' = Step /\ Gone' = Gone /\ NextId' = NextId /\ Announced' = Announced
          /\ Pending' = Pending
      BY <2>1 DEF Step, Gone, NextId, Announced, Pending, Outcome
    <2>4. Applied(Pending)' = Applied(Pending)
      BY <2>1, <2>3, AppliedIsAfter
    <2>5. DayType' /\ IdsInv'
      BY <2>1, <2>3 DEF DayInv, DayType, ExchangeType, IdsInv
    <2>6. CursorInv' /\ StepInv' /\ ContainInv' /\ AggressorIsIncoming'
      BY <2>1, <2>3, <2>4
      DEF DayInv, CursorInv, StepInv, ContainInv, AggressorIsIncoming, CursorIsOfChannel,
          CaughtUp, Unhurt, Names, Entries
    <2>7. QED BY <2>2, <2>5, <2>6 DEF DayInv
  <1>2. ASSUME NEW side \in {"Buy", "Sell"}, NEW n \in Quantities, EnterCall(side, n)
        PROVE  TypeOK' /\ DayInv'
    BY <1>2, EnterCallStep DEF Sides
  <1>3. ASSUME NEW side \in {"Buy", "Sell"}, NEW n \in Quantities,
               NEW type \in {"Limit", "Market", "OwnBest"}, EnterContinuous(side, n, type)
        PROVE  TypeOK' /\ DayInv'
    BY <1>3, EnterContinuousStep DEF Sides, Types
  <1>4. ASSUME NEW o \in orders, NEW flag, Fill(o, flag) PROVE TypeOK' /\ DayInv'
    BY <1>4, FillStep
  <1>5. ASSUME NEW o \in orders, CancelOrder(o) PROVE TypeOK' /\ DayInv'
    BY <1>5, CancelOrderStep
  <1>6. ASSUME NEW buy \in orders, NEW sell \in orders, NEW flag, MatchCall(buy, sell, flag)
        PROVE  TypeOK' /\ DayInv'
    BY <1>6, MatchCallStep
  <1>7. CASE Rest \/ NextPhase
    BY <1>7, RestStep, NextPhaseStep
  <1>8. CASE DeliverNext \/ Redeliver \/ Lose \/ DeliverDamaged
    BY <1>8, DeliverNextStep, RedeliverStep, LoseStep, DeliverDamagedStep
  <1>9. QED BY <1>1, <1>2, <1>3, <1>4, <1>5, <1>6, <1>7, <1>8 DEF DayNext

\* The gate stays typed and the invariant of the day holds.
THEOREM DayHolds == DaySpec => [](TypeOK /\ DayInv)
  <1>1. DayInit => TypeOK /\ DayInv
    BY DayInitInv
  <1>2. TypeOK /\ DayInv /\ [DayNext]_dayVars => TypeOK' /\ DayInv'
    BY DayStepInv
  <1>3. QED BY <1>1, <1>2, PTL DEF DaySpec

\* A mapper that has seen every row has none on its way.
LEMMA UpToDateSays ==
  ASSUME TypeOK, DayInv, UpToDate
  PROVE  book = orders /\ (market = "Shanghai" => tracker.phase = Announced)
  <1>1. state = "Healthy" /\ damaged = NoRow /\ lastAccepted = nextSeq - Step
    BY DEF UpToDate
  <1>2. row = NoRow
    <2> SUFFICES ASSUME row # NoRow PROVE FALSE
      OBVIOUS
    <2>1. lastAccepted <= row.seq - Step /\ row.seq = nextSeq - Step /\ row.seq \in Sequences0
      BY <1>1 DEF DayInv, CursorInv, CursorIsOfChannel, DayType, Gone, Rows
    <2>2. Step \in {1, 2}
      BY DEF Step
    <2>3. QED BY <1>1, <2>1, <2>2, GateAssumption, SMT DEF Sequences0
  <1>3. Gone = nextSeq - Step /\ Pending = Nothing /\ Pending.what = "none"
    BY <1>2 DEF Gone, Pending, Nothing
  <1>4. QED BY <1>1, <1>3, AppliedIsAfter DEF DayInv, StepInv

\* Whichever vendor, market, orders and quantities, and whatever is lost or repeated:
\* the book of a mapper that is trusted and has seen every row is the exchange's.
THEOREM BookFollows == DaySpec => []BookFollowsExchange
  <1>1. TypeOK /\ DayInv => BookFollowsExchange
    BY UpToDateSays DEF BookFollowsExchange
  <1>2. QED BY <1>1, DayHolds, PTL

\* So is the phase its tracker is in, which never refuses an update.
THEOREM PhaseFollows == DaySpec => []PhaseFollowsExchange
  <1>1. ASSUME TypeOK, DayInv PROVE PhaseFollowsExchange
    <2>1. tracker.answer \in {"None", "Applied"}
      BY <1>1 DEF DayInv, CursorInv
    <2>2. UpToDate /\ market = "Shanghai" => tracker.phase = Announced
      BY <1>1, UpToDateSays
    <2>3. QED BY <2>1, <2>2 DEF PhaseFollowsExchange, Announced
  <1>2. QED BY <1>1, DayHolds, PTL

\* The active side of a trade is the incoming order's, told or inferred.
THEOREM AggressorFollows == DaySpec => []AggressorIsIncoming
  <1>1. TypeOK /\ DayInv => AggressorIsIncoming
    BY DEF DayInv
  <1>2. QED BY <1>1, DayHolds, PTL

\* Whatever is missing in a row: the cursor and the sequence received last are numbers of
\* rows that are gone, never a transaction's.
THEOREM CursorOfChannel == DaySpec => []CursorIsOfChannel
  <1>1. TypeOK /\ DayInv => CursorIsOfChannel
    BY DEF DayInv, CursorInv
  <1>2. QED BY <1>1, DayHolds, PTL

\* Whichever field of a row is missing, and however the day goes on: of the orders that
\* row was not about the book of a mapper that is trusted has exactly the exchange's.
THEOREM DamageHolds == DaySpec => []DamageIsContained
  <1>1. ASSUME TypeOK, DayInv PROVE DamageIsContained
    <2> SUFFICES ASSUME damaged # NoRow, state = "Healthy", row = NoRow, CaughtUp
                 PROVE  Unhurt(book) = Unhurt(orders)
      BY DEF DamageIsContained
    <2>1. Pending = Nothing
      BY DEF Pending
    <2>2. QED BY <1>1, <2>1, AppliedIsAfter DEF DayInv, ContainInv
  <1>2. QED BY <1>1, DayHolds, PTL

===============================================================================
