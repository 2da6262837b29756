------------------------------ MODULE CnMarkets ------------------------------
(***************************************************************************)
(* What one row of a Chinese stock feed becomes: the vendor mappers        *)
(* (csmar, tonglian) turn it into a view in the exchange's terms, and the  *)
(* market mappers (sse, szse) turn the view into an order, trade or        *)
(* trading phase event.  Pure operators; BookRebuild runs them.            *)
(*                                                                         *)
(* The clock counts half hours, and prices are only told apart by their    *)
(* sign.  A row is a record with the fields of the vendor's tables:        *)
(*   table  "order" or "trade"        market  the exchange whose row it is *)
(*   time, seq, channel, price, qty   order   the order an order row names *)
(*   trade  Tonglian's transaction id bid, ask  a trade row's orders       *)
(*   type, code, flag  the vendor's characters                             *)
(***************************************************************************)
EXTENDS Integers

Day == 48      \* half hours
Offset == 16   \* UTC+8
Opening == 19  \* 09:30, the 34'200 s of sse/mapper.hpp

Failed(status) == [status |-> status, event |-> [what |-> "none"]]
Published(status, event) == [status |-> status, event |-> event]
Ok(result) == result.status \in {"Mapped", "MappedDiagnostic"}

BuySell(code) ==
  IF code = "B" THEN "Buy" ELSE IF code = "S" THEN "Sell" ELSE "Unknown"

-----------------------------------------------------------------------------
(* The markets.                                                            *)

BookOrder(view, action, type) ==
  [what |-> "order", action |-> action, id |-> view.id, side |-> view.side,
   qty |-> view.qty, type |-> type, seq |-> view.seq]

NamesNoOrder(view) ==
  view.id = 0 \/ view.side = "Unknown" \/ view.qty < 0 \/ view.price < 0

SseOrder(view) ==
  IF view.kind = "TradingPhase" THEN Failed("Ignored")
  ELSE IF NamesNoOrder(view) THEN Failed("Invalid")
  ELSE IF view.kind = "AddLimit"
    THEN Published("MappedDiagnostic", BookOrder(view, "Add", "Limit"))
  ELSE IF view.kind = "Delete"
    THEN Published("MappedDiagnostic", BookOrder(view, "Delete", "Limit"))
  ELSE Failed("Unsupported")

OrderTypes == [AddLimit |-> "Limit", AddMarket |-> "Market", AddOwnBest |-> "OwnBest"]

SzseOrder(view) ==
  IF NamesNoOrder(view) THEN Failed("Invalid")
  ELSE IF view.kind \notin DOMAIN OrderTypes THEN Failed("Unsupported")
  ELSE Published("Mapped", BookOrder(view, "Add", OrderTypes[view.kind]))

SsePhase(view) ==
  IF view.kind # "TradingPhase" \/ view.phase = "Unknown" THEN Failed("Invalid")
  ELSE Published("Mapped",
         [what |-> "phase", phase |-> view.phase, seq |-> view.seq])

\* The canceled order is the one of the two that is named.
Cancel(view, status) ==
  LET id == IF view.ask # 0 THEN view.ask ELSE view.bid
  IN IF view.kind # "Cancel" \/ view.qty <= 0 \/ id = 0 THEN Failed("Invalid")
     ELSE Published(status,
            [what |-> "order", action |-> "Cancel", id |-> id, side |-> "Unknown",
             qty |-> view.qty, type |-> "Unknown", seq |-> view.seq])

SseCancel(view) == Cancel(view, "MappedDiagnostic")
SzseCancel(view) == Cancel(view, "Mapped")

BookTrade(view, resting, buy, sell, aggressor) ==
  [what |-> "trade", resting |-> resting, buy |-> buy, sell |-> sell,
   qty |-> view.qty, aggressor |-> aggressor, seq |-> view.seq]

NoTrade(view) ==
  view.kind # "Trade" \/ view.trade = 0 \/ view.qty <= 0 \/ view.price < 0

SlipSseTrade(view) ==   \* slip: the opening call is taken for continuous trading
  IF NoTrade(view) THEN Failed("Invalid")
  ELSE LET event(resting, buy, sell, aggressor) ==
             Published("MappedDiagnostic", BookTrade(view, resting, buy, sell, aggressor))
       IN CASE view.neutral -> event(0, view.bid, view.ask, "Unknown")
            [] ~view.neutral /\ view.aggressor = "Buy" -> event(view.ask, 0, 0, "Buy")
            [] ~view.neutral /\ view.aggressor = "Sell" -> event(view.bid, 0, 0, "Sell")
            [] OTHER -> Failed("Unsupported")

\* Before the opening, and in a call later on, both orders are in the book; in
\* continuous trading only the resting one is.
SseTrade(view) ==
  IF NoTrade(view) THEN Failed("Invalid")
  ELSE IF view.time < Opening \/ view.neutral
    THEN Published("MappedDiagnostic",
           BookTrade(view, 0, view.bid, view.ask,
                     IF view.neutral THEN "Unknown" ELSE view.aggressor))
  ELSE IF view.aggressor = "Unknown" THEN Failed("Unsupported")
  ELSE Published("MappedDiagnostic",
         BookTrade(view, IF view.aggressor = "Buy" THEN view.ask ELSE view.bid,
                   0, 0, view.aggressor))

\* The side of the later order: order numbers grow with time.
SlipInferred(view) == IF view.bid < view.ask THEN "Buy" ELSE "Sell"
Inferred(view) == IF view.bid > view.ask THEN "Buy" ELSE "Sell"

SzseTrade(view) ==
  IF NoTrade(view) THEN Failed("Invalid")
  ELSE Published("Mapped",
         BookTrade(view, 0, view.bid, view.ask,
           IF view.aggressor = "Unknown" /\ view.bid # 0 /\ view.ask # 0
             THEN Inferred(view) ELSE view.aggressor))

-----------------------------------------------------------------------------
(* Csmar.  Each market's rows are a table of their own, and a mapper takes *)
(* only the rows of its market.                                            *)

\* exchange_time_ns: UTC since the epoch to the exchange's time of day.
CsmarTime(unix) == ((unix % Day) + Offset) % Day

PhaseOfCode ==
  [ADD |-> "Startup", START |-> "Startup", PRETR |-> "Startup",
   OCALL |-> "OpeningCall", OOBB |-> "OpeningCall", OPOBB |-> "OpeningCall",
   TRADE |-> "Continuous", BETW |-> "Break", BREAK |-> "Break",
   SUSP |-> "Suspended", HALT |-> "Suspended", NOTRD |-> "Suspended",
   CCALL |-> "ClosingCall", CLOSE |-> "Closed", ENDTR |-> "EndOfTrading",
   POSTR |-> "AfterHours", VOLA |-> "VolatilityInterruption",
   ICALL |-> "VolatilityInterruption", IOBB |-> "VolatilityInterruption",
   IPOBB |-> "VolatilityInterruption", FCALL |-> "FixedPriceCall"]

ShanghaiPhase(code) ==
  IF code \in DOMAIN PhaseOfCode THEN PhaseOfCode[code] ELSE "Unknown"

OrderView(row, id, side, kind, phase) ==
  [seq |-> row.seq, id |-> id, price |-> row.price, qty |-> row.qty, side |-> side,
   kind |-> kind, phase |-> phase]

CsmarShanghaiOrder(row) ==
  LET side == BuySell(row.code)
  IN IF row.type = "S"
       THEN SsePhase(OrderView(row, 0, "Unknown", "TradingPhase",
                               ShanghaiPhase(row.code)))
     ELSE IF row.type = "D"
       THEN SseCancel([kind |-> "Cancel", qty |-> row.qty, seq |-> row.seq,
                       bid |-> IF side = "Buy" THEN row.order ELSE 0,
                       ask |-> IF side = "Sell" THEN row.order ELSE 0])
     ELSE SseOrder(OrderView(row, row.order, side,
                             IF row.type = "A" THEN "AddLimit" ELSE "Unknown",
                             "Unknown"))

TradeView(row, time, trade, kind, aggressor, neutral) ==
  [time |-> time, seq |-> row.seq, trade |-> trade, kind |-> kind, bid |-> row.bid,
   ask |-> row.ask, price |-> row.price, qty |-> row.qty,
   aggressor |-> aggressor, neutral |-> neutral]

CsmarShanghaiTrade(row) ==
  IF \/ row.seq = 0 \/ row.qty <= 0 \/ row.price <= 0
     \/ row.flag \notin {"B", "S", "N"} \/ (row.bid = 0 /\ row.ask = 0)
    THEN Failed("Invalid")
  ELSE SseTrade(TradeView(row, CsmarTime(row.time), row.seq, "Trade",
                          BuySell(row.flag), row.flag = "N"))

ShenzhenSide(code) ==
  CASE code = "1" -> "Buy" [] code = "2" -> "Sell" [] OTHER -> "Unknown"
ShenzhenKind(type) ==
  CASE type = "1" -> "AddMarket" [] type = "2" -> "AddLimit"
    [] type = "U" -> "AddOwnBest" [] OTHER -> "Unknown"

\* The rows carry no order number: trades refer to the row that was the order.
CsmarShenzhenOrder(row) ==
  SzseOrder(OrderView(row, row.seq, ShenzhenSide(row.code),
                      ShenzhenKind(row.type), "Unknown"))

CsmarShenzhenTrade(row) ==
  LET one == (row.bid = 0) # (row.ask = 0)
      view == TradeView(row, CsmarTime(row.time), IF row.type = "F" THEN row.seq ELSE 0,
                IF row.type = "F" THEN "Trade" ELSE "Cancel", "Unknown", FALSE)
  IN IF row.seq = 0 \/ row.qty <= 0 THEN Failed("Invalid")
     ELSE IF row.type = "F" /\ row.price > 0 /\ row.bid # 0 /\ row.ask # 0
       THEN SzseTrade(view)
     ELSE IF row.type = "4" /\ one THEN SzseCancel(view)
     ELSE Failed("Invalid")

CsmarRow(row, market) ==
  IF market # row.market \/ row.time = 0 THEN Failed("Invalid")
  ELSE IF market = "Shanghai"
    THEN IF row.table = "order" THEN CsmarShanghaiOrder(row) ELSE CsmarShanghaiTrade(row)
    ELSE IF row.table = "order" THEN CsmarShenzhenOrder(row) ELSE CsmarShenzhenTrade(row)

-----------------------------------------------------------------------------
(* Tonglian.  One layout for both markets, told apart by the context.      *)

\* hhmmssmmm_to_ns, of hours and minutes.
TonglianTime(hhmm) == 2 * (hhmm \div 100) + ((hhmm % 100) \div 30)

TonglianKind(type, market) ==
  CASE market = "Shanghai" /\ type = "A" -> "AddLimit"
    [] market = "Shanghai" /\ type = "D" -> "Delete"
    [] market = "Shanghai" /\ type = "S" -> "TradingPhase"
    [] market = "Shenzhen" /\ type = "0" -> "AddLimit"
    [] market = "Shenzhen" /\ type = "1" -> "AddMarket"
    [] market = "Shenzhen" /\ type = "U" -> "AddOwnBest"
    [] OTHER -> "Unknown"

TonglianStatus(row, market) ==
  IF market # "Shanghai" THEN Failed("Unsupported")
  ELSE SsePhase(OrderView(row, 0, "Unknown", "TradingPhase", row.code))

TonglianOrder(row, market) ==
  LET view == OrderView(row, row.order, BuySell(row.code),
                        TonglianKind(row.type, market), "Unknown")
  IN IF market = "Shanghai" THEN SseOrder(view)
     ELSE IF market = "Shenzhen" THEN SzseOrder(view)
     ELSE Failed("Unsupported")

TonglianTrade(row, market) ==
  LET kind == IF row.type = "C" THEN "Cancel"
              ELSE IF row.type \in {"0", ""} THEN "Trade" ELSE "Unknown"
      view == [TradeView(row, TonglianTime(row.time), row.trade, kind,
                         BuySell(row.flag), row.flag = "N")
                 EXCEPT !.seq = IF row.seq # 0 THEN row.seq ELSE row.trade]
  IN IF market = "Shanghai"
       THEN IF kind = "Cancel" THEN SseCancel(view) ELSE SseTrade(view)
     ELSE IF market = "Shenzhen"
       THEN IF kind = "Cancel" THEN SzseCancel(view) ELSE SzseTrade(view)
     ELSE Failed("Unsupported")

TonglianRow(row, market) ==
  IF row.table = "trade" THEN TonglianTrade(row, market)
  ELSE IF row.type = "S" THEN TonglianStatus(row, market)
  ELSE TonglianOrder(row, market)

=============================================================================
