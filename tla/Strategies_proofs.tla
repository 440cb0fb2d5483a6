--------------------------- MODULE Strategies_proofs ---------------------------
(***************************************************************************)
(* Proofs about the strategies: the signals and the exits of SwingTrade, for *)
(* any prices and any configurations; the expiries of SwingExpiry, for any *)
(* calendar; the day of OptionEntry, for any strikes, any number of rows,  *)
(* trades and cycles that are cut off, and any configurations.             *)
(***************************************************************************)
EXTENDS SwingTrade, SwingExpiry, OptionEntry,
        SequenceTheorems, WellFoundedInduction, NaturalsInduction, FiniteSetTheorems, TLAPS

(***************************************************************************)
(* A reason to exit is the first row that holds of a table of eight.       *)
(***************************************************************************)
Least(I) == IF I # {} THEN CHOOSE x \in I : \A y \in I : x <= y ELSE 0

FirstRow(s) == Least({k \in 1..Len(s) : s[k][1]})

IsFirst(i, s) == i \in 1..8 /\ s[i][1] /\ \A j \in 1..8 : j < i => ~s[j][1]

LEMMA FirstRowIsFirst ==
  ASSUME NEW s, Len(s) = 8, s[8][1] = TRUE
  PROVE  IsFirst(FirstRow(s), s)
<1> DEFINE I == {k \in 1..Len(s) : s[k][1]}
<1>1. 8 \in I
  OBVIOUS
<1>2. \E x \in I : \A y \in I : x <= y
  OBVIOUS
<1>3. IsFirst(CHOOSE x \in I : \A y \in I : x <= y, s)
  BY <1>2 DEF IsFirst
<1> QED BY <1>1, <1>3 DEF FirstRow, Least

\* An order that stays has been through the whole table.
LEMMA LastRow ==
  ASSUME NEW s, NEW i, IsFirst(i, s), s[i][2] = "OPEN", \A k \in 1..7 : s[k][2] # "OPEN"
  PROVE  ~s[4][1] /\ ~s[6][1] /\ ~s[7][1]
<1>1. i = 8
  BY DEF IsFirst
<1> QED BY <1>1 DEF IsFirst

Decision(s) == [status |-> s[FirstRow(s)][2], stop |-> s[FirstRow(s)][3]]

BuyTable(o, m, c, t) ==
  LET gap     == Buy!GapStop(o, m, t)
      trailed == Buy!Trailed(o.dir, gap, m)
  IN  << <<Buy!StopHit(o.dir, Buy!Buffered(o.dir, gap, c), m), "EXIT_STOPLOSS", gap>>,
         <<Buy!TargetHit(o, m), "EXIT_TARGET", gap>>,
         <<Buy!NextDayHit(o, trailed, m, t), "EXIT_STOPLOSS", trailed>>,
         <<Buy!HolidayExit(c, t), "EXIT_HOLIDAY", trailed>>,
         <<Buy!RsiExit(o, m, c), "EXIT_RSI_TARGET", trailed>>,
         <<Buy!ExpiryExit(o, c, t), "EXIT_EXPIRY", trailed>>,
         <<Buy!SquareOff(c, t), "EXIT_EOD", trailed>>,
         <<TRUE, "OPEN", trailed>> >>

SellTable(o, m, c, t) ==
  LET gap     == Sell!GapStop(o, m, t)
      trailed == Sell!Trailed(o.dir, gap, m)
  IN  << <<Sell!StopHit(o.dir, Sell!Buffered(o.dir, gap, c), m), "EXIT_STOPLOSS", gap>>,
         <<Sell!TargetHit(o, m), "EXIT_TARGET", gap>>,
         <<Sell!NextDayHit(o, trailed, m, c, t), "EXIT_STOPLOSS", trailed>>,
         <<Sell!HolidayExit(c, t), "EXIT_HOLIDAY", trailed>>,
         <<Sell!RsiExit(o, m, c), "EXIT_RSI_TARGET", trailed>>,
         <<Sell!ExpiryExit(o, c, t), "EXIT_EXPIRY", trailed>>,
         <<Sell!SquareOff(c, t), "EXIT_EOD", trailed>>,
         <<TRUE, "OPEN", trailed>> >>

LEMMA BuyerExits ==
  ASSUME NEW o, NEW m, NEW c, NEW t
  PROVE  /\ Buy!Exit(o, m, c, t).status \in Statuses
         /\ Buy!Exit(o, m, c, t).status = "OPEN" =>
              ~Buy!HolidayExit(c, t) /\ ~Buy!ExpiryExit(o, c, t) /\ ~Buy!SquareOff(c, t)
<1> DEFINE table == BuyTable(o, m, c, t)
           i     == FirstRow(table)
<1>1. Buy!Exit(o, m, c, t) = Decision(table)
  BY DEF Buy!Exit, Buy!SelectInSeq, Buy!Min, BuyTable, Decision, FirstRow, Least
<1>2. Len(table) = 8 /\ table[8][1] = TRUE /\ \A k \in 1..7 : table[k][2] # "OPEN"
  BY DEF BuyTable
<1>3. \A k \in 1..8 : table[k][2] \in Statuses
  BY DEF BuyTable, Statuses
<1>4. /\ Buy!HolidayExit(c, t) => table[4][1]
      /\ Buy!ExpiryExit(o, c, t) => table[6][1]
      /\ Buy!SquareOff(c, t) => table[7][1]
  BY DEF BuyTable
<1> HIDE DEF table
<1>5. IsFirst(i, table)
  BY <1>2, FirstRowIsFirst
<1>6. table[i][2] = "OPEN" => ~table[4][1] /\ ~table[6][1] /\ ~table[7][1]
  BY <1>2, <1>5, LastRow
<1>7. table[i][2] \in Statuses
  BY <1>3, <1>5 DEF IsFirst
<1> QED BY <1>1, <1>4, <1>6, <1>7 DEF Decision

LEMMA SellerExits ==
  ASSUME NEW o, NEW m, NEW c, NEW t
  PROVE  /\ Sell!Exit(o, m, c, t).status \in Statuses
         /\ Sell!Exit(o, m, c, t).status = "OPEN" =>
              ~Sell!HolidayExit(c, t) /\ ~Sell!ExpiryExit(o, c, t) /\ ~Sell!SquareOff(c, t)
<1> DEFINE table == SellTable(o, m, c, t)
           i     == FirstRow(table)
<1>1. Sell!Exit(o, m, c, t) = Decision(table)
  BY DEF Sell!Exit, Sell!SelectInSeq, Sell!Min, SellTable, Decision, FirstRow, Least
<1>2. Len(table) = 8 /\ table[8][1] = TRUE /\ \A k \in 1..7 : table[k][2] # "OPEN"
  BY DEF SellTable
<1>3. \A k \in 1..8 : table[k][2] \in Statuses
  BY DEF SellTable, Statuses
<1>4. /\ Sell!HolidayExit(c, t) => table[4][1]
      /\ Sell!ExpiryExit(o, c, t) => table[6][1]
      /\ Sell!SquareOff(c, t) => table[7][1]
  BY DEF SellTable
<1> HIDE DEF table
<1>5. IsFirst(i, table)
  BY <1>2, FirstRowIsFirst
<1>6. table[i][2] = "OPEN" => ~table[4][1] /\ ~table[6][1] /\ ~table[7][1]
  BY <1>2, <1>5, LastRow
<1>7. table[i][2] \in Statuses
  BY <1>3, <1>5 DEF IsFirst
<1> QED BY <1>1, <1>4, <1>6, <1>7 DEF Decision

--------------------------------------------------------------------------------
(***************************************************************************)
(* The life of a trade.  Before there is an order nothing was evaluated.   *)
(***************************************************************************)
TradeInv ==
  /\ TradeTypeOK
  /\ {"hi", "lo", "prev", "last"} \subseteq DOMAIN mkt
  /\ order # NoTrade => {"status", "stop", "day", "expiry"} \subseteq DOMAIN order
                        /\ order.expiry \in Int
  /\ order = NoTrade => watched = {}
  /\ LeftInTime

\* Two strategies that look a day ahead see the same holidays.
LEMMA SameHolidays ==
  ASSUME NEW d, NEW c
  PROVE  Sell!Holiday(d, c) = Buy!Holiday(d, c)
  BY DEF Sell!Holiday, Buy!Holiday

\* Seven days have one Tuesday.
LEMMA OneTuesday ==
  ASSUME NEW d \in Int
  PROVE  /\ \E x \in d+1 .. d+7 : Tuesday(x)
         /\ \A x, y \in d+1 .. d+7 : Tuesday(x) /\ Tuesday(y) => x = y
<1>1. PICK q \in Int, r \in 0..6 : d = 7 * q + r
  <2>1. d = 7 * (d \div 7) + (d % 7)
    OBVIOUS
  <2> QED BY <2>1
<1>2. \A k \in 0..6 : (7 * q + k) % 7 = k /\ (7 * (q + 1) + k) % 7 = k
  OBVIOUS
<1>3. r = 0 => Tuesday(d + 1)
  BY <1>1, <1>2 DEF Tuesday
<1>4. r > 0 => Tuesday(d + (8 - r))
  BY <1>1, <1>2 DEF Tuesday
<1>5. \A x, y \in d+1 .. d+7 : Tuesday(x) /\ Tuesday(y) => x = y
  BY DEF Tuesday
<1> QED BY <1>1, <1>3, <1>4, <1>5

LEMMA NextTuesdays ==
  ASSUME NEW d \in Int
  PROVE  NextTuesday(d) \in d+1 .. d+7 /\ Tuesday(NextTuesday(d))
<1> DEFINE week == {x \in d+1 .. d+7 : Tuesday(x)}
<1>1. \E x \in week : \A y \in week : x <= y
  BY OneTuesday
<1> QED BY <1>1 DEF NextTuesday, Min

LEMMA WeeklyType ==
  ASSUME NEW d \in Int, NEW after, NEW n
  PROVE  Expiry!Weekly(d, after, n) \in Int
<1>1. Expiry!Weekly(d, after, n) = Weekly(d, after, n)
  BY DEF Expiry!Weekly, Weekly, Expiry!Tuesday, Tuesday, Expiry!NextTuesday, NextTuesday,
         Expiry!Passed, Passed, Expiry!Min, Min
<1>2. \A x \in Int : NextTuesday(x) \in Int
  BY NextTuesdays
<1> QED BY <1>1, <1>2 DEF Weekly

LEMMA TradeInitInv == TradeConstants /\ TradeInit => TradeInv
<1> SUFFICES ASSUME TradeConstants, TradeInit PROVE TradeInv OBVIOUS
<1>1. /\ conf \in Configs /\ today = 0 /\ slot = 0 /\ watched = {} /\ order = NoTrade
      /\ mkt.prev \in Closes /\ mkt.last \in Closes
      /\ {"hi", "lo", "prev", "last"} \subseteq DOMAIN mkt
  BY DEF TradeInit
<1>2. TradeTypeOK
  BY <1>1 DEF TradeTypeOK, TradeConstants
<1>3. LeftInTime
  BY <1>1 DEF LeftInTime
<1> QED BY <1>1, <1>2, <1>3 DEF TradeInv

LEMMA CandleInv == TradeInv /\ Candle => TradeInv'
<1> SUFFICES ASSUME TradeInv, Candle PROVE TradeInv' OBVIOUS
<1>1. PICK l \in Levels, p \in Closes :
        mkt' = [mkt EXCEPT !.hi = l.hi, !.lo = l.lo, !.prev = mkt.last, !.last = p]
  BY DEF Candle
<1>2. UNCHANGED <<conf, today, slot, order, watched>>
  BY DEF Candle
<1>3. DOMAIN mkt' = DOMAIN mkt /\ mkt'.prev = mkt.last /\ mkt'.last = p
  BY <1>1 DEF TradeInv
<1>4. TradeTypeOK'
  BY <1>2, <1>3 DEF TradeInv, TradeTypeOK
<1>5. LeftInTime'
  BY <1>2 DEF TradeInv, LeftInTime, Open
<1> QED BY <1>2, <1>3, <1>4, <1>5 DEF TradeInv

LEMMA TickInv == TradeConstants /\ TradeInv /\ TradeTick => TradeInv'
<1> SUFFICES ASSUME TradeConstants, TradeInv, TradeTick PROVE TradeInv' OBVIOUS
<1>1. UNCHANGED <<conf, mkt, order, watched>>
  BY DEF TradeTick
<1>2. slot' \in 0..3 /\ today' \in 0..LastDay /\ today' >= today
  BY DEF TradeInv, TradeTypeOK, TradeTick, TradeConstants
<1>3. TradeTypeOK'
  BY <1>1, <1>2 DEF TradeInv, TradeTypeOK
<1>4. LeftInTime'
  BY <1>1 DEF TradeInv, LeftInTime, Open
<1> QED BY <1>1, <1>3, <1>4 DEF TradeInv

LEMMA TakeInv ==
  ASSUME NEW S, TradeInv, Take(S)
  PROVE  TradeInv'
<1>1. PICK s \in S, v \in Views : order' = Row(s, v.rsi)
  BY DEF Take
<1>2. order = NoTrade /\ UNCHANGED <<conf, mkt, today, slot, watched>>
  BY DEF Take
<1>3. today \in Int /\ watched = {}
  BY <1>2 DEF TradeInv, TradeTypeOK
<1>4. {"status", "stop", "day", "expiry"} \subseteq DOMAIN order'
  BY <1>1 DEF Row
<1>5. /\ order'.status = "OPEN" /\ order'.day = today
      /\ order'.expiry = Expiry!Weekly(today, slot >= conf.expirySlot, IF conf.expiryExit THEN conf.daysBefore ELSE 0)
  BY <1>1 DEF Row
<1>6. order'.expiry \in Int
  BY <1>3, <1>5, WeeklyType
<1>7. TradeTypeOK'
  BY <1>2, <1>5 DEF TradeInv, TradeTypeOK, Statuses
<1>8. LeftInTime'
  BY <1>2, <1>3 DEF LeftInTime
<1> QED BY <1>2, <1>3, <1>4, <1>6, <1>7, <1>8 DEF TradeInv

\* What an evaluation of either strategy means for an order that stays.
LEMMA WatchedInv ==
  ASSUME TradeConstants, TradeInv, Open, UNCHANGED <<conf, mkt, today, slot>>,
         NEW x, x.status \in Statuses,
         x.status = "OPEN" =>
           ~Buy!HolidayExit(conf, Now) /\ ~Buy!ExpiryExit(order, conf, Now) /\ ~Buy!SquareOff(conf, Now),
         order' = [order EXCEPT !.status = x.status, !.stop = x.stop],
         watched' = IF slot = 3 THEN watched \union {today} ELSE watched
  PROVE  TradeInv'
<1>1. order # NoTrade
  BY DEF Open, NoTrade
<1>2. /\ DOMAIN order' = DOMAIN order /\ order'.status = x.status
      /\ order'.day = order.day /\ order'.expiry = order.expiry
  BY <1>1 DEF TradeInv
<1>3. order' # NoTrade
  <2>1. order'.status # "NONE"
    BY <1>2 DEF Statuses
  <2> QED BY <2>1 DEF NoTrade
<1>4. TradeTypeOK'
  BY <1>1, <1>2 DEF TradeInv, TradeTypeOK
<1>5. LeftInTime'
  <2> SUFFICES ASSUME Open', NEW d \in watched'
               PROVE  /\ conf.carryForward
                      /\ conf.holidayExit => ~Buy!Holiday(d + 1, conf)
                      /\ conf.expiryExit => d < order.expiry - conf.daysBefore
    BY <1>2 DEF LeftInTime
  <2>1. x.status = "OPEN"
    BY <1>2 DEF Open
  <2>2. CASE d \in watched
    BY <2>2 DEF TradeInv, LeftInTime
  <2>3. CASE slot = 3 /\ d = today
    <3>1. Now.slot = 3 /\ Now.day = d
      BY <2>3 DEF Now
    <3>2. d \in Int /\ order.expiry \in Int /\ conf.daysBefore \in Int
      BY <1>1, <2>3 DEF TradeInv, TradeTypeOK, TradeConstants
    <3> QED BY <2>1, <3>1, <3>2 DEF Buy!HolidayExit, Buy!ExpiryExit, Buy!SquareOff
  <2> QED BY <2>2, <2>3
<1> QED BY <1>1, <1>2, <1>3, <1>4, <1>5 DEF TradeInv

LEMMA WatchBuyInv == TradeConstants /\ TradeInv /\ WatchBuy => TradeInv'
<1> SUFFICES ASSUME TradeConstants, TradeInv, WatchBuy PROVE TradeInv' OBVIOUS
<1>1. Open /\ UNCHANGED <<conf, mkt, today, slot>>
  BY DEF WatchBuy, Watch
<1>2. PICK v \in Views :
        /\ order' = [order EXCEPT !.status = Buy!Exit(order, Found(v), conf, Now).status,
                                  !.stop = Buy!Exit(order, Found(v), conf, Now).stop]
        /\ watched' = IF slot = 3 THEN watched \union {today} ELSE watched
  BY DEF WatchBuy, Watch
<1> QED BY <1>1, <1>2, BuyerExits, WatchedInv

LEMMA WatchSellInv == TradeConstants /\ TradeInv /\ WatchSell => TradeInv'
<1> SUFFICES ASSUME TradeConstants, TradeInv, WatchSell PROVE TradeInv' OBVIOUS
<1>1. Open /\ UNCHANGED <<conf, mkt, today, slot>>
  BY DEF WatchSell, Watch
<1>2. PICK v \in Views :
        /\ order' = [order EXCEPT !.status = Sell!Exit(order, Found(v), conf, Now).status,
                                  !.stop = Sell!Exit(order, Found(v), conf, Now).stop]
        /\ watched' = IF slot = 3 THEN watched \union {today} ELSE watched
  BY DEF WatchSell, Watch
<1>3. /\ Sell!HolidayExit(conf, Now) = Buy!HolidayExit(conf, Now)
      /\ Sell!ExpiryExit(order, conf, Now) = Buy!ExpiryExit(order, conf, Now)
      /\ Sell!SquareOff(conf, Now) = Buy!SquareOff(conf, Now)
  BY SameHolidays DEF Sell!HolidayExit, Buy!HolidayExit, Sell!ExpiryExit, Buy!ExpiryExit,
                      Sell!SquareOff, Buy!SquareOff
<1> QED BY <1>1, <1>2, <1>3, SellerExits, WatchedInv

LEMMA TradeNextInv ==
  TradeConstants /\ TradeInv /\ [TradeNext]_tradeVars => TradeInv'
<1> SUFFICES ASSUME TradeConstants, TradeInv, [TradeNext]_tradeVars
             PROVE  TradeInv'
  OBVIOUS
<1>1. CASE UNCHANGED tradeVars
  BY <1>1 DEF tradeVars, TradeInv, TradeTypeOK, LeftInTime, Open
<1>2. CASE TakeBuy \/ TakeSell
  BY <1>2, TakeInv DEF TakeBuy, TakeSell
<1> QED BY <1>1, <1>2, CandleInv, TickInv, WatchBuyInv, WatchSellInv DEF TradeNext

\* Whichever of the two strategies has the trade, whatever the prices do and however
\* the day goes: a position that was looked at late in the day stays over night only
\* when carrying it is allowed, before no holiday that is avoided and in time
\* before its expiry.
THEOREM OverNightAllowed == TradeConstants => (TradeSpec => []LeftInTime)
<1> SUFFICES ASSUME TradeConstants PROVE TradeSpec => []LeftInTime OBVIOUS
<1>1. TradeInv => LeftInTime
  BY DEF TradeInv
<1> QED BY <1>1, TradeInitInv, TradeNextInv, PTL DEF TradeSpec

--------------------------------------------------------------------------------
(***************************************************************************)
(* The calendar.                                                           *)
(***************************************************************************)
\* The month that begins on day f ends the day before g.
IsMonth(f, g) ==
  /\ f \in FirstDays /\ g \in FirstDays /\ f < g /\ g - f \in 28..31
  /\ \A h \in FirstDays : h <= f \/ h >= g

LEMMA MonthOf ==
  ASSUME FirstDays \subseteq Nat, NEW f, NEW g, IsMonth(f, g), NEW d \in f .. g-1
  PROVE  Month(d) = f /\ NextMonth(f) = g
<1>1. f \in Nat /\ g \in Nat /\ FirstDays \subseteq Nat
  BY DEF IsMonth
<1>2. \A x \in FirstDays : x <= d => x <= f
  BY <1>1 DEF IsMonth
<1>3. Month(d) = f
  <2> DEFINE S == {x \in FirstDays : x <= d}
  <2>1. f \in S /\ \A y \in S : f >= y
    BY <1>1, <1>2 DEF IsMonth
  <2>2. \A x \in S : (\A y \in S : x >= y) => x = f
    BY <1>1, <2>1
  <2> QED BY <2>1, <2>2 DEF Month, Max
<1>4. NextMonth(f) = g
  <2> DEFINE S == {x \in FirstDays : x > f}
  <2>1. g \in S /\ \A y \in S : g <= y
    BY <1>1 DEF IsMonth
  <2>2. \A x \in S : (\A y \in S : x <= y) => x = g
    BY <1>1, <2>1
  <2> QED BY <2>1, <2>2 DEF NextMonth, Min
<1> QED BY <1>3, <1>4

LEMMA LastTuesdayOf ==
  ASSUME FirstDays \subseteq Nat, NEW f, NEW g, IsMonth(f, g)
  PROVE  LastTuesday(f) \in g-7 .. g-1 /\ LastTuesday(f) >= f /\ Tuesday(LastTuesday(f))
<1>1. f \in Nat /\ g \in Nat /\ g - f >= 28
  BY DEF IsMonth
<1>2. NextMonth(f) = g
  BY <1>1, MonthOf
<1> DEFINE S == {x \in f .. g-1 : Tuesday(x)}
<1> DEFINE d == g - 8
<1>0. d \in Int /\ g = d + 8
  BY <1>1
<1> HIDE DEF d
<1>3. PICK u \in g-7 .. g-1 : Tuesday(u)
  <2>1. \E x \in d+1 .. d+7 : Tuesday(x)
    BY <1>0, OneTuesday
  <2> QED BY <1>0, <2>1
<1>4. u \in S /\ \A y \in S : u >= y
  <2> SUFFICES ASSUME NEW y \in S, y > u PROVE FALSE
    BY <1>1, <1>3
  <2>1. y \in d+1 .. d+7 /\ u \in d+1 .. d+7 /\ y # u
    BY <1>0, <1>1, <1>3
  <2>2. y = u
    BY <1>0, <1>3, <2>1, OneTuesday
  <2> QED BY <2>1, <2>2
<1>5. \A x \in S : (\A y \in S : x >= y) => x = u
  BY <1>1, <1>4
<1>6. LastTuesday(f) = u
  BY <1>2, <1>4, <1>5 DEF LastTuesday, Max
<1> QED BY <1>1, <1>3, <1>6

\* The month of a day, and the two that follow it.
LEMMA ThreeMonths ==
  ASSUME ExpiryConstants, NEW d \in 0..CalendarDays
  PROVE  \E f, g, h, k : /\ IsMonth(f, g) /\ IsMonth(g, h) /\ IsMonth(h, k)
                         /\ d \in f .. g-1
<1>1. FirstDays \subseteq Nat /\ CalendarDays \in Nat
  BY DEF ExpiryConstants
<1>2. \A x \in 0 .. CalendarDays + 62 : \E f, g : IsMonth(f, g) /\ x \in f .. g-1
  <2> TAKE x \in 0 .. CalendarDays + 62
  <2>1. PICK f \in FirstDays, g \in FirstDays :
          /\ f <= x /\ x < g /\ g - f \in 28..31
          /\ \A h \in FirstDays : h <= f \/ h >= g
    BY DEF ExpiryConstants
  <2>2. IsMonth(f, g) /\ x \in f .. g-1
    BY <1>1, <2>1 DEF IsMonth
  <2> QED BY <2>2
<1>3. \A f, g, a, b : IsMonth(f, g) /\ IsMonth(a, b) /\ g \in a .. b-1 => a = g
  BY <1>1 DEF IsMonth
<1>4. PICK f, g : IsMonth(f, g) /\ d \in f .. g-1
  BY <1>1, <1>2
<1>5. f \in Nat /\ g \in Nat /\ g <= d + 31
  BY <1>1, <1>4 DEF IsMonth
<1>6. PICK h : IsMonth(g, h)
  <2>1. g \in 0 .. CalendarDays + 62
    BY <1>1, <1>5
  <2> QED BY <1>2, <1>3, <1>4, <2>1
<1>7. h \in Nat /\ h <= g + 31
  BY <1>1, <1>5, <1>6 DEF IsMonth
<1>8. PICK k : IsMonth(h, k)
  <2>1. h \in 0 .. CalendarDays + 62
    BY <1>1, <1>5, <1>7
  <2> QED BY <1>2, <1>3, <1>6, <2>1
<1> QED BY <1>4, <1>6, <1>8

\* An expiry is ahead of day d, at time `after`, when it is bought n days before it.
Ahead(e, d, after, n) ==
  /\ Tuesday(e) /\ e >= d /\ (after => e > d)
  /\ e > d => ~Passed(d, after, e, n)

LEMMA WeeklyAhead ==
  ASSUME NEW d \in Nat, NEW after \in BOOLEAN, NEW n \in Waits
  PROVE  Ahead(Weekly(d, after, n), d, after, n)
<1> DEFINE base == IF Tuesday(d) /\ ~after THEN d ELSE NextTuesday(d)
<1>1. /\ NextTuesday(d) \in d+1 .. d+7 /\ Tuesday(NextTuesday(d))
  BY NextTuesdays
<1>2. base \in d .. d+7 /\ Tuesday(base) /\ (after => base > d)
  BY <1>1
<1>3. NextTuesday(base) \in base+1 .. base+7 /\ Tuesday(NextTuesday(base))
  BY <1>2, NextTuesdays
<1>4. NextTuesday(base) = base + 7
  BY <1>2, <1>3 DEF Tuesday
<1> HIDE DEF base
<1>5. CASE Passed(d, after, base, n)
  <2>1. Weekly(d, after, n) = base + 7
    BY <1>4, <1>5 DEF Weekly, base
  <2>2. d < base
    BY <1>5 DEF Passed
  <2>3. ~Passed(d, after, base + 7, n)
    BY <1>2, <2>2 DEF Passed, Waits
  <2> QED BY <1>2, <1>3, <1>4, <2>1, <2>2, <2>3 DEF Ahead
<1>6. CASE ~Passed(d, after, base, n)
  <2>1. Weekly(d, after, n) = base
    BY <1>6 DEF Weekly, base
  <2> QED BY <1>2, <1>6, <2>1 DEF Ahead
<1> QED BY <1>5, <1>6

LEMMA MonthlyAhead ==
  ASSUME ExpiryConstants, NEW d \in 0..CalendarDays, NEW after \in BOOLEAN, NEW n \in Waits
  PROVE  Ahead(Monthly(d, after, n), d, after, n)
<1> DEFINE following(x) == LastTuesday(NextMonth(Month(x)))
           own   == LastTuesday(Month(d))
           base  == IF own < d THEN following(d) ELSE own
           later == IF Passed(d, after, base, n) THEN following(base) ELSE base
<1>1. FirstDays \subseteq Nat /\ d \in Nat
  BY DEF ExpiryConstants
<1>2. PICK f, g, h, k : IsMonth(f, g) /\ IsMonth(g, h) /\ IsMonth(h, k) /\ d \in f .. g-1
  BY ThreeMonths
<1>3. /\ {f, g, h, k} \subseteq Nat
      /\ h - g >= 28 /\ k - h >= 28
  BY <1>1, <1>2 DEF IsMonth
<1>4. /\ LastTuesday(f) \in g-7 .. g-1 /\ Tuesday(LastTuesday(f)) /\ LastTuesday(f) >= f
      /\ LastTuesday(g) \in h-7 .. h-1 /\ Tuesday(LastTuesday(g)) /\ LastTuesday(g) >= g
      /\ LastTuesday(h) \in k-7 .. k-1 /\ Tuesday(LastTuesday(h)) /\ LastTuesday(h) >= h
  BY <1>1, <1>2, LastTuesdayOf
<1>5. own = LastTuesday(f) /\ following(d) = LastTuesday(g)
  <2>1. Month(d) = f /\ NextMonth(f) = g
    BY <1>1, <1>2, MonthOf
  <2> QED BY <2>1
<1>6. \/ base = LastTuesday(f) /\ following(base) = LastTuesday(g)
      \/ base = LastTuesday(g) /\ following(base) = LastTuesday(h)
  <2>1. CASE own < d
    <3>1. LastTuesday(g) \in g .. h-1
      BY <1>3, <1>4
    <3>2. Month(LastTuesday(g)) = g /\ NextMonth(g) = h
      BY <1>1, <1>2, <3>1, MonthOf
    <3> QED BY <1>5, <2>1, <3>2
  <2>2. CASE ~(own < d)
    <3>1. LastTuesday(f) \in f .. g-1
      BY <1>3, <1>4
    <3>2. Month(LastTuesday(f)) = f /\ NextMonth(f) = g
      BY <1>1, <1>2, <3>1, MonthOf
    <3> QED BY <1>5, <2>2, <3>2
  <2> QED BY <2>1, <2>2
<1>7. /\ {base, following(base), following(d)} \subseteq Nat
      /\ Tuesday(base) /\ Tuesday(following(base)) /\ Tuesday(following(d))
      /\ base >= d /\ following(base) >= base + 8
      /\ base = d => following(d) >= d + 8
  <2>1. {LastTuesday(f), LastTuesday(g), LastTuesday(h)} \subseteq Nat
    BY <1>3, <1>4
  <2>2. LastTuesday(g) >= LastTuesday(f) + 8 /\ LastTuesday(h) >= LastTuesday(g) + 8
    BY <1>3, <1>4
  <2>3. base >= d
    BY <1>2, <1>3, <1>4, <1>5
  <2>4. base = d => following(d) = following(base)
    OBVIOUS
  <2> HIDE DEF base, following
  <2> QED BY <1>4, <1>5, <1>6, <2>1, <2>2, <2>3, <2>4
<1>8. Monthly(d, after, n) = IF later = d /\ after THEN following(later) ELSE later
  BY DEF Monthly
<1> HIDE DEF base, following
<1>9. CASE Passed(d, after, base, n)
  <2>1. later = following(base) /\ d < base
    BY <1>9 DEF Passed
  <2>2. Monthly(d, after, n) = following(base)
    BY <1>1, <1>7, <1>8, <2>1
  <2>3. ~Passed(d, after, following(base), n)
    BY <1>1, <1>7, <2>1 DEF Passed, Waits
  <2> QED BY <1>1, <1>7, <2>1, <2>2, <2>3 DEF Ahead
<1>10. CASE ~Passed(d, after, base, n) /\ base = d /\ after
  <2>1. Monthly(d, after, n) = following(d)
    BY <1>8, <1>10
  <2>2. ~Passed(d, after, following(d), n)
    BY <1>1, <1>7, <1>10 DEF Passed, Waits
  <2>3. Tuesday(following(d)) /\ following(d) >= d /\ following(d) > d
    BY <1>1, <1>7, <1>10
  <2> QED BY <2>1, <2>2, <2>3 DEF Ahead
<1>11. CASE ~Passed(d, after, base, n) /\ ~(base = d /\ after)
  <2>1. Monthly(d, after, n) = base
    BY <1>8, <1>11
  <2> QED BY <1>1, <1>7, <1>11, <2>1 DEF Ahead
<1> QED BY <1>9, <1>10, <1>11

\* For any calendar, on any day and at any time of it: the option bought has its expiry
\* ahead, by more than the days before which it would have to be left.
THEOREM ExpiriesAhead == ExpiryConstants => (ExpirySpec => BoughtAhead)
<1> SUFFICES ASSUME ExpiryConstants PROVE ExpirySpec => BoughtAhead OBVIOUS
<1> DEFINE Inv == date \in 0..CalendarDays /\ late \in BOOLEAN
<1>1. CalendarDays \in Nat
  BY DEF ExpiryConstants
<1>2. ExpiryInit => Inv
  <2>1. ExpiryInit => date \in 0..CalendarDays
    BY <1>1 DEF ExpiryInit
  <2>2. ExpiryInit => late \in BOOLEAN
    BY DEF ExpiryInit
  <2> QED BY <2>1, <2>2
<1>3. Inv /\ [ExpiryTick]_<<date, late>> => Inv'
  <2> SUFFICES ASSUME Inv, [ExpiryTick]_<<date, late>> PROVE Inv' OBVIOUS
  <2>1. late' \in BOOLEAN
    BY DEF ExpiryTick
  <2>2. date' = date \/ (date < CalendarDays /\ date' = date + 1)
    BY Zenon DEF ExpiryTick
  <2>3. date' \in 0..CalendarDays
    BY <1>1, <2>2
  <2> QED BY <2>1, <2>3
<1>4. \A d \in 0..CalendarDays, after \in BOOLEAN : ExpiryAhead(d, after)
  <2> SUFFICES ASSUME NEW d \in 0..CalendarDays, NEW after \in BOOLEAN, NEW n \in Waits
               PROVE  /\ Ahead(Weekly(d, after, n), d, after, n)
                      /\ Ahead(Monthly(d, after, n), d, after, n)
    BY DEF ExpiryAhead, Ahead, Expiries
  <2>1. d \in Nat
    BY <1>1
  <2> QED BY <2>1, WeeklyAhead, MonthlyAhead
<1>5. Inv => ExpiryAhead(date, late)
  BY <1>4
<1>6. Inv' => \A d \in {date'}, after \in {late'} : ExpiryAhead(d, after)
  BY <1>4
<1> HIDE DEF Inv
<1>7. ExpirySpec => []Inv
  BY <1>2, <1>3, PTL DEF ExpirySpec
<1>8. ExpirySpec => ExpiryAhead(date, late)
  BY <1>7, <1>5, PTL
<1>9. ExpirySpec => [][~UNCHANGED <<date, late>> =>
                         \A d \in {date'}, after \in {late'} : ExpiryAhead(d, after)]_<<date, late>>
  BY <1>7, <1>6, PTL
<1> QED BY <1>8, <1>9 DEF BoughtAhead

--------------------------------------------------------------------------------
(***************************************************************************)
(* The twins.                                                              *)
(***************************************************************************)
Smaller == {p \in Nat \X Nat : p[1] < p[2]}

LEMMA LeastIs ==
  ASSUME NEW I, I \subseteq Nat, I # {}
  PROVE  Least(I) \in I
<1>1. IsWellFoundedOn(Smaller, Nat)
  BY NatLessThanWellFounded DEF OpToRel, Smaller
<1>2. PICK x \in I : \A y \in I : ~(<<y, x>> \in Smaller)
  BY <1>1, WFMin
<1>3. \A y \in I : x <= y
  <2> TAKE y \in I
  <2>1. <<y, x>> \notin Smaller
    BY <1>2
  <2>2. x \in Nat /\ y \in Nat
    OBVIOUS
  <2>3. ~(y < x)
    BY <2>1, <2>2 DEF Smaller
  <2> QED BY <2>2, <2>3
<1> QED BY <1>3 DEF Least

LEMMA MirroredLevelIs ==
  ASSUME NEW v \in SmartLevels
  PROVE  LET w == MirroredLevel(v)
         IN  /\ w.complete = v.complete /\ w.active = v.active /\ w.strict = v.strict
             /\ w.entry = v.entry /\ w.bullish = v.bullish /\ w.bearish = v.bearish
             /\ w.buys = Exchanged(v.sells) /\ w.sells = Exchanged(v.buys)
             /\ w.initial = Exchanged(v.initial) /\ w.remaining = Exchanged(v.remaining)
             /\ w \in SmartLevels
  BY DEF MirroredLevel, SmartLevels, Exchanged

LEMMA MirroredIs ==
  ASSUME TradeConstants, NEW c \in Configs
  PROVE  LET e == Mirrored(c)
             L == c.lookups
         IN  /\ \A f \in ConfigFields \ {"lots", "lookups"} : e[f] = c[f]
             /\ e.lots = Exchanged(c.lots)
             /\ e.lookups = [i \in DOMAIN L |-> [j \in DOMAIN L[i] |-> MirroredLevel(L[i][j])]]
  BY DEF TradeConstants, ConfigFields, Mirrored

\* The smart level of the mirror image is the mirror image of the smart level.
LEMMA LevelTwins ==
  ASSUME TradeConstants, NEW c \in Configs
  PROVE  \/ Buy!Level(c) = NoLevel /\ Sell!Level(Mirrored(c)) = NoLevel
         \/ /\ Buy!Level(c) \in SmartLevels
            /\ Sell!Level(Mirrored(c)) = MirroredLevel(Buy!Level(c))
<1> DEFINE L == c.lookups
           K == Mirrored(c).lookups
           used(x) == {k \in 1..Len(x) : x[k] # <<>>}
           good(x) == {k \in 1..Len(x) : x[k].complete /\ x[k].active}
           i == Least(used(L))
           j == Least(good(L[i]))
           p == Least(used(K))
           q == Least(good(K[p]))
<1>1. Buy!Level(c) = IF i = 0 \/ j = 0 THEN NoLevel ELSE L[i][j]
  BY DEF Buy!Level, Buy!SelectInSeq, Buy!Min, Least
<1>2. Sell!Level(Mirrored(c)) = IF p = 0 \/ q = 0 THEN NoLevel ELSE K[p][q]
  BY DEF Sell!Level, Sell!SelectInSeq, Sell!Min, Least
<1>3. L \in Seq(Seq(SmartLevels))
  BY DEF TradeConstants
<1>4. K = [k \in DOMAIN L |-> [l \in DOMAIN L[k] |-> MirroredLevel(L[k][l])]]
  BY MirroredIs
<1>5. \A x \in Seq(SmartLevels) : \A z :
        z = [l \in DOMAIN x |-> MirroredLevel(x[l])]
          => z \in Seq(SmartLevels) /\ Len(z) = Len(x) /\ good(z) = good(x)
  <2> SUFFICES ASSUME NEW x \in Seq(SmartLevels)
               PROVE  LET y == [l \in DOMAIN x |-> MirroredLevel(x[l])]
                      IN  y \in Seq(SmartLevels) /\ Len(y) = Len(x) /\ good(y) = good(x)
    OBVIOUS
  <2> DEFINE y == [l \in DOMAIN x |-> MirroredLevel(x[l])]
  <2>1. DOMAIN x = 1..Len(x) /\ \A l \in DOMAIN x : x[l] \in SmartLevels
    OBVIOUS
  <2>2. \A l \in DOMAIN x : /\ y[l] \in SmartLevels
                            /\ y[l].complete = x[l].complete /\ y[l].active = x[l].active
    BY <2>1, MirroredLevelIs
  <2>3. y \in [1..Len(x) -> SmartLevels]
    BY <2>1, <2>2
  <2>4. y \in Seq(SmartLevels) /\ Len(y) = Len(x)
    BY <2>3
  <2>5. good(y) = good(x)
    BY <2>1, <2>2, <2>4
  <2> QED BY <2>4, <2>5
<1>6. /\ \A k \in DOMAIN L : L[k] \in Seq(SmartLevels)
      /\ DOMAIN L = 1..Len(L)
  BY <1>3
<1> HIDE DEF L, K, used, good
<1>7. \A k \in DOMAIN L : K[k] \in Seq(SmartLevels) /\ Len(K[k]) = Len(L[k]) /\ good(K[k]) = good(L[k])
  <2> TAKE k \in DOMAIN L
  <2>1. K[k] = [l \in DOMAIN L[k] |-> MirroredLevel(L[k][l])] /\ L[k] \in Seq(SmartLevels)
    BY <1>4, <1>6
  <2> QED BY <1>5, <2>1
<1>8. used(K) = used(L)
  <2>1. K \in [1..Len(L) -> Seq(SmartLevels)]
    BY <1>4, <1>6, <1>7
  <2>2. Len(K) = Len(L)
    BY <1>3, <2>1
  <2>3. \A k \in DOMAIN L : K[k] = <<>> <=> L[k] = <<>>
    BY <1>6, <1>7, EmptySeq
  <2> QED BY <1>6, <2>2, <2>3 DEF used
<1>9. p = i
  BY <1>8
<1>10. CASE used(L) = {}
  <2>1. i = 0 /\ p = 0
    BY <1>9, <1>10 DEF Least
  <2> QED BY <1>1, <1>2, <2>1
<1>11. CASE used(L) # {}
  <2>1. i \in DOMAIN L /\ i # 0
    <3>1. used(L) \subseteq DOMAIN L /\ used(L) \subseteq Nat /\ 0 \notin used(L)
      BY <1>6 DEF used
    <3>2. i \in used(L)
      BY <1>11, <3>1, LeastIs
    <3> QED BY <3>1, <3>2
  <2>2. q = j
    BY <1>7, <1>9, <2>1
  <2>3. CASE good(L[i]) = {}
    <3>1. j = 0
      BY <2>3 DEF Least
    <3> QED BY <1>1, <1>2, <2>2, <3>1
  <2>4. CASE good(L[i]) # {}
    <3>1. L[i] \in Seq(SmartLevels)
      BY <1>6, <2>1
    <3>2. good(L[i]) \subseteq DOMAIN L[i] /\ good(L[i]) \subseteq Nat /\ 0 \notin good(L[i])
      BY <3>1 DEF good
    <3>3. j \in good(L[i])
      BY <2>4, <3>2, LeastIs
    <3>4. j \in DOMAIN L[i] /\ j # 0 /\ L[i][j] \in SmartLevels
      BY <3>1, <3>2, <3>3
    <3>5. K[i][j] = MirroredLevel(L[i][j])
      BY <1>4, <2>1, <3>4
    <3> QED BY <1>1, <1>2, <1>9, <2>1, <2>2, <3>4, <3>5
  <2> QED BY <2>3, <2>4
<1> QED BY <1>10, <1>11

\* What the one strategy does with calls, the other does with puts.
LEMMA OptionsExchanged ==
  ASSUME NEW d \in Buy!Directions
  PROVE  /\ \A f : Exchanged(f)[Sell!Option[d]] = f[Buy!Option[d]]
         /\ \A price, ref : Sell!Regime(price, ref, Sell!Option[d], "SELL")
                              = Buy!Regime(price, ref, Buy!Option[d], "BUY")
<1>1. CASE d = "UP"
  <2>1. Buy!Option[d] = "CE" /\ Sell!Option[d] = "PE"
    BY <1>1 DEF Buy!Option, Sell!Option
  <2>2. \A f : Exchanged(f)[Sell!Option[d]] = f[Buy!Option[d]]
    BY <2>1 DEF Exchanged
  <2>3. Sell!Rising("SELL", "PE") = Buy!Rising("BUY", "CE")
    BY DEF Sell!Rising, Buy!Rising
  <2> QED BY <2>1, <2>2, <2>3 DEF Sell!Regime, Buy!Regime
<1>2. CASE d = "DOWN"
  <2>1. Buy!Option[d] = "PE" /\ Sell!Option[d] = "CE"
    BY <1>2 DEF Buy!Option, Sell!Option
  <2>2. \A f : Exchanged(f)[Sell!Option[d]] = f[Buy!Option[d]]
    BY <2>1 DEF Exchanged
  <2>3. Sell!Rising("SELL", "CE") = Buy!Rising("BUY", "PE")
    BY DEF Sell!Rising, Buy!Rising
  <2> QED BY <2>1, <2>2, <2>3 DEF Sell!Regime, Buy!Regime
<1> QED BY <1>1, <1>2 DEF Buy!Directions

LEMMA DecisionTwins ==
  ASSUME TradeConstants, NEW c \in Configs, NEW m, NEW re \in BOOLEAN, NEW d \in Buy!Directions
  PROVE  /\ Sell!Taken(d, m, Mirrored(c), re) <=> Buy!Taken(d, m, c, re)
         /\ Sell!Lots(d, m, Mirrored(c), re) = Buy!Lots(d, m, c, re)
         /\ Sell!Target(d, m, Mirrored(c)) = Buy!Target(d, m, c)
         /\ Sell!Stop(d, m) = Buy!Stop(d, m)
<1> DEFINE e == Mirrored(c)
           v == Buy!Level(c)
           w == Sell!Level(e)
<1>1. /\ e.buffer = c.buffer /\ e.smart = c.smart /\ e.ref = c.ref /\ e.sideways = c.sideways
      /\ e.percent = c.percent /\ e.target = c.target /\ e.fixed = c.fixed
      /\ e.multiplier = c.multiplier /\ e.sidewaysMultiplier = c.sidewaysMultiplier
      /\ e.lots = Exchanged(c.lots)
  BY MirroredIs DEF ConfigFields
<1>2. \/ v = NoLevel /\ w = NoLevel
      \/ v \in SmartLevels /\ w = MirroredLevel(v)
  BY LevelTwins
<1> HIDE DEF e, v, w
<1>3. v \in SmartLevels =>
        /\ w.strict = v.strict /\ w.entry = v.entry /\ w.bullish = v.bullish /\ w.bearish = v.bearish
        /\ w.sells = Exchanged(v.buys)
        /\ w.initial = Exchanged(v.initial) /\ w.remaining = Exchanged(v.remaining)
        /\ w # NoLevel /\ v # NoLevel
  <2>1. v \in SmartLevels => w = MirroredLevel(v)
    BY <1>2 DEF TradeConstants
  <2> QED BY <2>1, MirroredLevelIs DEF TradeConstants
<1>4. Sell!SmartOn(e) <=> Buy!SmartOn(c)
  BY <1>1, <1>2, <1>3 DEF Sell!SmartOn, Buy!SmartOn, v, w
<1>5. Buy!SmartOn(c) => v \in SmartLevels
  BY <1>2 DEF Buy!SmartOn, v
<1>6. Buy!SmartOn(c) => (Sell!SmartValid(d, m, e, re) <=> Buy!SmartValid(d, m, c, re))
  <2> SUFFICES ASSUME Buy!SmartOn(c)
               PROVE  Sell!SmartValid(d, m, e, re) <=> Buy!SmartValid(d, m, c, re)
    OBVIOUS
  <2>1. w.sells[Sell!Option[d]] = v.buys[Buy!Option[d]]
    BY <1>3, <1>5, OptionsExchanged
  <2>2. w.remaining[Sell!Option[d]] = v.remaining[Buy!Option[d]]
    BY <1>3, <1>5, OptionsExchanged
  <2> QED BY <1>3, <1>5, <2>1, <2>2 DEF Sell!SmartValid, Buy!SmartValid, v, w
<1>7. Sell!BaseLots(d, e, re) = Buy!BaseLots(d, c, re)
  <2>1. e.lots[Sell!Option[d]] = c.lots[Buy!Option[d]]
    BY <1>1, OptionsExchanged
  <2>2. Buy!SmartOn(c) =>
          /\ w.initial[Sell!Option[d]] = v.initial[Buy!Option[d]]
          /\ w.remaining[Sell!Option[d]] = v.remaining[Buy!Option[d]]
    BY <1>3, <1>5, OptionsExchanged
  <2> QED BY <1>4, <2>1, <2>2 DEF Sell!BaseLots, Buy!BaseLots, v, w
<1>8. Sell!Sideways(d, m, e) <=> Buy!Sideways(d, m, c)
  BY <1>1, OptionsExchanged DEF Sell!Sideways, Buy!Sideways
<1>9. Sell!Lots(d, m, e, re) = Buy!Lots(d, m, c, re)
  BY <1>1, <1>7, <1>8 DEF Sell!Lots, Buy!Lots, Sell!RoundedQuotient, Buy!RoundedQuotient
<1>10. Sell!Points(d, m, e) = Buy!Points(d, m, c)
  BY <1>1, <1>8 DEF Sell!Points, Buy!Points
<1>11. Sell!Target(d, m, e) = Buy!Target(d, m, c)
  BY <1>1, <1>10 DEF Sell!Target, Buy!Target
<1>12. Sell!TargetAhead(d, m, e) <=> Buy!TargetAhead(d, m, c)
  BY <1>10, <1>11 DEF Sell!TargetAhead, Buy!TargetAhead
<1>13. Sell!Breaks(d, m, e) <=> Buy!Breaks(d, m, c)
  BY <1>1 DEF Sell!Breaks, Buy!Breaks
<1>14. Sell!SidewaysTaken(d, m, e, re) <=> Buy!SidewaysTaken(d, m, c, re)
  BY <1>1, <1>9 DEF Sell!SidewaysTaken, Buy!SidewaysTaken
<1>15. Sell!Taken(d, m, e, re) <=> Buy!Taken(d, m, c, re)
  BY <1>4, <1>6, <1>8, <1>10, <1>12, <1>13, <1>14 DEF Sell!Taken, Buy!Taken
<1>16. Sell!Stop(d, m) = Buy!Stop(d, m)
  BY DEF Sell!Stop, Buy!Stop
<1> QED BY <1>9, <1>11, <1>15, <1>16 DEF e

LEMMA SignalsAreTwins ==
  ASSUME TradeConstants, NEW c \in Configs, NEW m, NEW re \in BOOLEAN
  PROVE  Sell!Signals(m, Mirrored(c), re)
           = {[s EXCEPT !.option = Sell!Option[s.dir]] : s \in Buy!Signals(m, c, re)}
<1> DEFINE bought(d) == [dir |-> d, option |-> Buy!Option[d], lots |-> Buy!Lots(d, m, c, re),
                         entry |-> m.last, stop |-> Buy!Stop(d, m), target |-> Buy!Target(d, m, c)]
           sold(d) == [dir |-> d, option |-> Sell!Option[d], lots |-> Sell!Lots(d, m, Mirrored(c), re),
                       entry |-> m.last, stop |-> Sell!Stop(d, m), target |-> Sell!Target(d, m, Mirrored(c))]
           dirs == {x \in Buy!Directions : Buy!Taken(x, m, c, re)}
<1>1. Sell!Signals(m, Mirrored(c), re) = {sold(d) : d \in dirs}
  <2>1. Sell!Directions = Buy!Directions
    BY DEF Sell!Directions, Buy!Directions
  <2>2. dirs = {x \in Sell!Directions : Sell!Taken(x, m, Mirrored(c), re)}
    BY <2>1, DecisionTwins
  <2> QED BY <2>2 DEF Sell!Signals
<1>2. Buy!Signals(m, c, re) = {bought(d) : d \in dirs}
  BY DEF Buy!Signals
<1>3. \A d \in dirs : sold(d) = [bought(d) EXCEPT !.option = Sell!Option[d]] /\ bought(d).dir = d
  BY DecisionTwins
<1> HIDE DEF bought, sold, dirs
<1> QED BY <1>1, <1>2, <1>3

LEMMA ExitsAreTwins ==
  ASSUME NEW o, NEW m, NEW c, NEW t, c.carryForward, m.first # NoPrice
  PROVE  Buy!Exit(o, m, c, t) = Sell!Exit(o, m, c, t)
<1> DEFINE gap     == Buy!GapStop(o, m, t)
           trailed == Buy!Trailed(o.dir, gap, m)
<1>1. Buy!Exit(o, m, c, t) = Decision(BuyTable(o, m, c, t))
  BY DEF Buy!Exit, Buy!SelectInSeq, Buy!Min, BuyTable, Decision, FirstRow, Least
<1>2. Sell!Exit(o, m, c, t) = Decision(SellTable(o, m, c, t))
  BY DEF Sell!Exit, Sell!SelectInSeq, Sell!Min, SellTable, Decision, FirstRow, Least
<1>3. Sell!NextDay(o, t) <=> Buy!NextDay(o, t)
  BY DEF Sell!NextDay, Buy!NextDay
<1>4. Sell!GapStop(o, m, t) = gap
  BY <1>3 DEF Sell!GapStop, Buy!GapStop
<1>5. \A g : Sell!Trailed(o.dir, g, m) = Buy!Trailed(o.dir, g, m)
  BY DEF Sell!Trailed, Buy!Trailed, Sell!Max, Buy!Max, Sell!Min, Buy!Min
<1>6. \A g : /\ Sell!Buffered(o.dir, g, c) = Buy!Buffered(o.dir, g, c)
             /\ Sell!StopHit(o.dir, g, m) = Buy!StopHit(o.dir, g, m)
  BY DEF Sell!Buffered, Buy!Buffered, Sell!StopHit, Buy!StopHit
<1>7. \A g : Sell!NextDayHit(o, g, m, c, t) = Buy!NextDayHit(o, g, m, t)
  BY <1>3, <1>6 DEF Sell!NextDayHit, Buy!NextDayHit
<1>8. /\ Sell!TargetHit(o, m) = Buy!TargetHit(o, m)
      /\ Sell!RsiExit(o, m, c) = Buy!RsiExit(o, m, c)
  BY DEF Sell!TargetHit, Buy!TargetHit, Sell!RsiExit, Buy!RsiExit
<1>9. /\ Sell!HolidayExit(c, t) = Buy!HolidayExit(c, t)
      /\ Sell!ExpiryExit(o, c, t) = Buy!ExpiryExit(o, c, t)
      /\ Sell!SquareOff(c, t) = Buy!SquareOff(c, t)
  BY SameHolidays DEF Sell!HolidayExit, Buy!HolidayExit, Sell!ExpiryExit, Buy!ExpiryExit,
                      Sell!SquareOff, Buy!SquareOff
<1>10. Sell!Trailed(o.dir, gap, m) = trailed
  BY <1>5
<1>11. SellTable(o, m, c, t) = BuyTable(o, m, c, t)
  BY <1>4, <1>6, <1>7, <1>8, <1>9, <1>10 DEF SellTable, BuyTable
<1> QED BY <1>1, <1>2, <1>11

\* For every market and every configuration, whatever its smart levels: the seller takes
\* the signals the buyer takes, with the options exchanged, and leaves an order when the
\* buyer would leave it.
THEOREM TwinsAgree == TradeConstants => (TradeSpec => []SwingTwins)
<1> SUFFICES ASSUME TradeConstants PROVE TradeSpec => []SwingTwins OBVIOUS
<1>1. TradeInv => SignalTwins
  BY SignalsAreTwins DEF TradeInv, TradeTypeOK, SignalTwins
<1>2. TradeInv => ExitTwins
  <2> SUFFICES ASSUME conf.carryForward, NEW v \in Views, v.first # NoPrice
               PROVE  Buy!Exit(order, Found(v), conf, Now) = Sell!Exit(order, Found(v), conf, Now)
    BY DEF ExitTwins
  <2>1. Found(v).first = v.first
    BY DEF TradeConstants, Found
  <2> QED BY <2>1, ExitsAreTwins
<1>3. TradeInv => SwingTwins
  BY <1>1, <1>2 DEF SwingTwins
<1> QED BY <1>3, TradeInitInv, TradeNextInv, PTL DEF TradeSpec

--------------------------------------------------------------------------------
(***************************************************************************)
(* OptionEntry: types.                                                     *)
(***************************************************************************)
MaybeRows == Rows \union {NoOrder}

RowTypes ==
  [kind : {"none", "main", "hedge"}, of : MaybeRows, strike : Strikes \union {NoStrike},
   status : {"none", "AWAITING", "EXITING", "ENTRY_FAILED", "FAILED", "EXITED", "CLOSED", "EXIT_CLOSED"},
   answer : {"none", "taken", "failed", "unclear"}]

RunTypes ==
  [pc : {"idle", "strikes", "hedge", "unhedged", "main", "link", "unwind", "return"},
   left : SUBSET Strikes, strike : Strikes \union {NoStrike}, hedge : MaybeRows, main : MaybeRows]

Types ==
  /\ mode \in Modes /\ row \in [Rows -> RowTypes] /\ run \in RunTypes /\ held \subseteq Rows

Used(o) == row[o].kind # "none"

(***************************************************************************)
(* The strikes.  A cycle begins with the memory of every strike that has a row,  *)
(* and while a strike is still to be evaluated it is remembered: it is only*)
(* forgotten as it is evaluated.  A strike that is entered has no row yet. *)
(***************************************************************************)
StrikeInv ==
  /\ \A s \in Strikes, o \in Rows : s \in run.left /\ row[o].strike = s => s \in last
  /\ run.strike \notin run.left
  /\ run.pc \in {"hedge", "unhedged", "main"} =>
       run.strike \in Strikes /\ \A o \in Rows : row[o].strike # run.strike
  /\ \A o, p \in Rows : row[o].strike = row[p].strike /\ row[o].strike # NoStrike => o = p

(***************************************************************************)
(* Rows are used in their order, so that the seller's order comes right after   *)
(* its hedge.                                                              *)
(***************************************************************************)
NumberedInv ==
  /\ \A p, q \in Rows : p < q /\ Used(q) => Used(p)
  /\ \A o \in held : o \in Rows /\ Used(o) /\ row[o].answer = "taken"

\* What the cycle has in hand, in which the monitors have no part.
CycleInv ==
  /\ run.pc \in {"hedge", "unhedged", "link", "unwind"} => mode.sell
  /\ run.pc \in {"idle", "strikes", "hedge"} => run.hedge = NoOrder
  /\ run.pc \in {"idle", "strikes", "hedge", "unhedged", "main"} => run.main = NoOrder
  /\ run.hedge # NoOrder => row[run.hedge].kind = "hedge"
  /\ run.main # NoOrder => row[run.main].kind = "main"
  /\ mode.sell /\ run.pc \in {"unhedged", "main", "link", "unwind"} => run.hedge # NoOrder
  /\ mode.sell /\ run.pc \in {"unhedged", "main", "link"} => row[run.hedge].of = NoOrder
  /\ run.pc = "unhedged" => run.hedge \notin held
  /\ mode.sell /\ run.pc \in {"main", "link"} => run.hedge \in held \/ row[run.hedge].answer = "unclear"
  /\ mode.sell /\ run.pc = "main" => \A q \in Rows : q > run.hedge => ~Used(q)
  /\ run.pc = "link" => run.main # NoOrder /\ run.main = run.hedge + 1 /\ row[run.main].status = "AWAITING"
  /\ run.pc = "unwind" => run.hedge + 1 \notin held \ Unplaced
  /\ run.pc = "return" /\ run.hedge # NoOrder =>
       \/ run.hedge \notin held \ (Unlinked \union Unexited)
       \/ run.main # NoOrder /\ row[run.hedge].of = run.main /\ row[run.main].status \in {"AWAITING", "EXITING"}

\* A hedge is linked to the order right after it, if at all, and an order that is sold has one,
\* but for what was cut off and for the calls that failed.
LinkedInv ==
  \A x \in Rows :
    /\ row[x].of # NoOrder =>
         row[x].kind = "hedge" /\ row[x].of = x + 1 /\ x + 1 \in Rows /\ row[x + 1].kind = "main"
    /\ row[x].kind = "hedge" => mode.sell
    /\ row[x].status = "EXITING" => x \notin held \ Unexited
    /\ mode.sell /\ row[x].kind = "main" /\ x \notin cut \union Unplaced =>
         /\ x - 1 \in Rows /\ row[x - 1].kind = "hedge"
         /\ row[x - 1].of = x \/ (run.pc = "link" /\ run.main = x) \/ x - 1 \in Unlinked

HedgeInv == NumberedInv /\ CycleInv /\ LinkedInv /\ OptionHedging

OptionInv == Types /\ StrikeInv /\ HedgeInv

\* What is let go of stays let go of.
Grown ==
  cut \subseteq cut' /\ Unplaced \subseteq Unplaced' /\ Unlinked \subseteq Unlinked' /\ Unexited \subseteq Unexited'

LEMMA FaultsGrow == ASSUME cut \subseteq cut', faults \subseteq faults' PROVE Grown
  BY DEF Grown, Unplaced, Unlinked, Unexited

LEMMA FaultIs ==
  ASSUME NEW what, NEW o \in Rows, Fault(what, o)
  PROVE  /\ faults \subseteq faults'
         /\ what = "placing" => o \in Unplaced'
         /\ what = "link" => o \in Unlinked'
         /\ what = "exit" => o \in Unexited'
  BY DEF Fault, Unplaced, Unlinked, Unexited

LEMMA OptionInitInv == OptionConstants /\ OptionInit => OptionInv
<1> SUFFICES ASSUME OptionConstants, OptionInit PROVE OptionInv OBVIOUS
<1>1. Types
  BY DEF OptionConstants, OptionInit, Types, RowTypes, RunTypes, MaybeRows, NoRow, Idle
<1>2. StrikeInv
  BY DEF OptionConstants, OptionInit, StrikeInv, NoRow, Idle
<1>3. HedgeInv
  BY DEF OptionConstants, OptionInit, HedgeInv, NumberedInv, Used, CycleInv, LinkedInv, OptionHedging, OptionsHedged,
         OptionHedgesEnd, NoRow, Idle, Rows
<1> QED BY <1>1, <1>2, <1>3 DEF OptionInv

--------------------------------------------------------------------------------
\* Steps of a cycle that has nothing in hand, before and after.
LEMMA EmptyHands ==
  ASSUME OptionInv, UNCHANGED <<mode, row, held>>, run' \in RunTypes, Grown,
         run.hedge = NoOrder, run.main = NoOrder, run'.hedge = NoOrder, run'.main = NoOrder,
         run'.pc \in {"idle", "strikes"} \/ (run'.pc = "hedge" /\ mode.sell) \/ (run'.pc = "main" /\ ~mode.sell)
  PROVE  Types' /\ HedgeInv'
<1>1. Types'
  BY DEF OptionInv, Types
<1>2. NumberedInv' /\ CycleInv'
  BY DEF OptionInv, HedgeInv, NumberedInv, Used, CycleInv
<1>3. LinkedInv'
  <2>1. run.pc # "link"
    BY DEF OptionInv, HedgeInv, CycleInv
  <2> QED BY <2>1 DEF OptionInv, HedgeInv, LinkedInv, Grown
<1>4. OptionHedging'
  BY DEF OptionInv, HedgeInv, OptionHedging, OptionsHedged, OptionHedgesEnd, OfCycle, Grown
<1> QED BY <1>1, <1>2, <1>3, <1>4 DEF HedgeInv

LEMMA IdleType == Idle \in RunTypes
  BY DEF Idle, RunTypes, MaybeRows

\* The cycle takes the strikes that have rows from the table.
LEMMA CycleStep == ASSUME OptionConstants, OptionInv, Cycle PROVE OptionInv'
<1>1. /\ run.pc = "idle" /\ run.hedge = NoOrder /\ run.main = NoOrder /\ run \in RunTypes
      /\ UNCHANGED <<mode, row, held>> /\ Grown
  BY FaultsGrow DEF Cycle, At, OptionInv, Types, HedgeInv, CycleInv
<1>2. /\ run' = [Idle EXCEPT !.pc = "strikes", !.left = Strikes \ Synced]
      /\ run'.pc = "strikes" /\ run'.left = Strikes \ Synced /\ run'.strike = NoStrike
      /\ run'.hedge = NoOrder /\ run'.main = NoOrder /\ run' \in RunTypes
  BY IdleType DEF Cycle, Idle, RunTypes
<1>3. Types' /\ HedgeInv'
  BY <1>1, <1>2, EmptyHands
<1>4. \A s \in Strikes, o \in Rows : row[o].strike = s => s \in last'
  BY DEF Cycle, Latest, RowsOf
<1>5. StrikeInv'
  BY <1>1, <1>2, <1>4 DEF OptionConstants, OptionInv, StrikeInv
<1> QED BY <1>3, <1>5 DEF OptionInv

LEMMA SignalStep == ASSUME OptionConstants, OptionInv, NEW s \in run.left, Skip(s) \/ Enter(s) PROVE OptionInv'
<1>1. /\ run.pc = "strikes" /\ run.hedge = NoOrder /\ run.main = NoOrder /\ run \in RunTypes
      /\ s \in Strikes /\ UNCHANGED <<mode, row, held>> /\ Grown
  BY FaultsGrow DEF Skip, Enter, At, OptionInv, Types, HedgeInv, CycleInv, RunTypes
<1>2. CASE Skip(s)
  <2>1. /\ run'.pc = "strikes" /\ run'.left = run.left \ {s} /\ run'.strike = run.strike
        /\ run'.hedge = NoOrder /\ run'.main = NoOrder /\ run' \in RunTypes
    BY <1>1, <1>2 DEF Skip, RunTypes
  <2>2. last' = last \/ last' = last \ {s}
    BY <1>2 DEF Skip
  <2>3. StrikeInv'
    BY <1>1, <2>1, <2>2 DEF OptionInv, StrikeInv
  <2> QED BY <1>1, <2>1, <2>3, EmptyHands DEF OptionInv
<1>3. CASE Enter(s)
  <2>1. /\ run'.pc = IF mode.sell THEN "hedge" ELSE "main"
        /\ run'.left = run.left \ {s} /\ run'.strike = s
        /\ run'.hedge = NoOrder /\ run'.main = NoOrder /\ run' \in RunTypes
    BY <1>1, <1>3 DEF Enter, RunTypes
  <2>2. s \notin last /\ last' = last \union {s}
    BY <1>3 DEF Enter, MayEnter
  <2>3. \A o \in Rows : row[o].strike # s
    BY <1>1, <2>2 DEF OptionInv, StrikeInv
  <2>4. StrikeInv'
    BY <1>1, <2>1, <2>2, <2>3 DEF OptionInv, StrikeInv
  <2> QED BY <1>1, <2>1, <2>4, EmptyHands DEF OptionInv
<1> QED BY <1>2, <1>3

\* The strikes when no row is added: what is left to be evaluated is what was.
LEMMA StrikesKept ==
  ASSUME OptionConstants, OptionInv, last' = last \/ run'.left = {},
         \A o \in Rows : row'[o].strike = row[o].strike,
         \/ run'.left = {} /\ run'.strike = NoStrike /\ run'.pc \in {"idle", "strikes"}
         \/ run'.left = run.left /\ run'.strike = NoStrike /\ run'.pc \in {"idle", "strikes"}
         \/ run'.left = run.left /\ run'.strike = run.strike /\ run'.pc \in {run.pc, "unwind", "return"}
  PROVE  StrikeInv'
<1>1. NoStrike \notin run.left
  BY DEF OptionConstants, OptionInv, Types, RunTypes
<1> QED BY <1>1 DEF OptionInv, StrikeInv

LEMMA NothingStep == ASSUME OptionConstants, OptionInv, NothingLeft \/ NoOrderPlaced PROVE OptionInv'
<1>1. /\ run.hedge = NoOrder /\ run.main = NoOrder /\ run \in RunTypes
      /\ UNCHANGED <<mode, row, held, last>> /\ Grown
  BY FaultsGrow DEF NothingLeft, NoOrderPlaced, At, OptionInv, Types, HedgeInv, CycleInv
<1>2. /\ run'.pc \in {"idle", "strikes"} /\ run'.left \in {{}, run.left} /\ run'.strike = NoStrike
      /\ run'.hedge = NoOrder /\ run'.main = NoOrder /\ run' \in RunTypes
  <2>1. CASE NothingLeft
    BY <2>1, IdleType DEF NothingLeft, Idle
  <2>2. CASE NoOrderPlaced
    BY <1>1, <2>2, IdleType DEF NoOrderPlaced, NextStrike, Idle, RunTypes
  <2> QED BY <2>1, <2>2
<1>3. StrikeInv'
  BY <1>1, <1>2, StrikesKept
<1> QED BY <1>1, <1>2, <1>3, EmptyHands DEF OptionInv

--------------------------------------------------------------------------------
\* Rows are taken in their order: the next one is the first that is not used.
LEMMA FreshIsNext ==
  ASSUME OptionConstants, Types, NumberedInv, Unused # {}
  PROVE  /\ \A q \in Rows : q < Fresh => Used(q)
         /\ \A q \in Rows : q >= Fresh => ~Used(q)
         /\ Fresh \in Rows /\ Fresh # NoOrder
<1>1. mode.rows \in Rows /\ Unused \subseteq Nat /\ Unused \subseteq Rows
  BY DEF OptionConstants, Types, Unused, Rows
<1>2. PICK m \in Unused : \A u \in Unused : <<u, m>> \notin OpToRel(<, Nat)
  BY <1>1, WFMin, NatLessThanWellFounded, Zenon
<1>3. \A u \in Unused : ~(u < m)
  BY <1>1, <1>2, Zenon DEF OpToRel
<1>4. \A u \in Unused : m <= u
  BY <1>1, <1>3
<1>5. Fresh \in Unused /\ \A u \in Unused : Fresh <= u
  BY <1>4 DEF Fresh
<1>6. Fresh \in Rows /\ Fresh # NoOrder /\ ~Used(Fresh) /\ Fresh <= mode.rows
  BY <1>1, <1>5 DEF Unused, Used, Rows, OptionConstants
<1>7. \A q \in Rows : q < Fresh => Used(q)
  BY <1>1, <1>5, <1>6 DEF Unused, Used, Rows
<1>8. \A q \in Rows : q >= Fresh => ~Used(q)
  BY <1>6 DEF NumberedInv, Rows
<1> QED BY <1>6, <1>7, <1>8

LEMMA PlaceRows ==
  ASSUME OptionConstants, OptionInv, NEW kind \in {"main", "hedge"}, NEW strike \in Strikes \union {NoStrike},
         NEW answer \in Answers, Place(kind, strike, answer)
  PROVE  /\ \A q \in Rows : q < Fresh => Used(q)
         /\ \A q \in Rows : q >= Fresh => ~Used(q)
         /\ Fresh \in Rows /\ Fresh # NoOrder /\ Fresh \notin held
         /\ row' \in [Rows -> RowTypes]
         /\ row'[Fresh] = [kind |-> kind, of |-> NoOrder, strike |-> strike, status |-> "AWAITING",
                           answer |-> answer]
         /\ \A o \in Rows \ {Fresh} : row'[o] = row[o]
         /\ held' = IF answer = "taken" THEN held \union {Fresh} ELSE held
         /\ \A x \in Rows : row[x].of # Fresh
<1>1. Types /\ NumberedInv /\ Unused # {}
  BY DEF OptionInv, HedgeInv, Place
<1>2. /\ \A q \in Rows : q < Fresh => Used(q)
      /\ \A q \in Rows : q >= Fresh => ~Used(q)
      /\ Fresh \in Rows /\ Fresh # NoOrder
  BY <1>1, FreshIsNext
<1>3. ~Used(Fresh) /\ Fresh \notin held
  BY <1>1, <1>2 DEF NumberedInv, Rows
<1>4. [kind |-> kind, of |-> NoOrder, strike |-> strike, status |-> "AWAITING", answer |-> answer] \in RowTypes
  BY DEF RowTypes, MaybeRows, Answers
<1>5. /\ row' \in [Rows -> RowTypes]
      /\ row'[Fresh] = [kind |-> kind, of |-> NoOrder, strike |-> strike, status |-> "AWAITING", answer |-> answer]
      /\ \A o \in Rows \ {Fresh} : row'[o] = row[o]
      /\ held' = IF answer = "taken" THEN held \union {Fresh} ELSE held
  BY <1>1, <1>2, <1>4 DEF Place, Types
<1>6. \A x \in Rows : row[x].of # Fresh
  BY <1>2, <1>3 DEF OptionInv, HedgeInv, LinkedInv, Used, Rows
<1> QED BY <1>2, <1>3, <1>5, <1>6

LEMMA PlaceHedgeStep == ASSUME OptionConstants, OptionInv, PlaceHedge PROVE OptionInv'
<1>1. PICK answer \in Answers :
        /\ Place("hedge", NoStrike, answer)
        /\ run' = [run EXCEPT !.hedge = Fresh, !.pc = IF answer = "failed" THEN "unhedged" ELSE "main"]
  BY DEF PlaceHedge
<1>2. /\ run.pc = "hedge" /\ run.hedge = NoOrder /\ run.main = NoOrder /\ run \in RunTypes /\ mode.sell
      /\ UNCHANGED <<mode, last, cut>> /\ Grown
  BY FaultsGrow DEF PlaceHedge, At, OptionInv, Types, HedgeInv, CycleInv
<1>3. /\ \A q \in Rows : q < Fresh => Used(q)
      /\ \A q \in Rows : q >= Fresh => ~Used(q)
      /\ Fresh \in Rows /\ Fresh # NoOrder /\ Fresh \notin held /\ row' \in [Rows -> RowTypes]
      /\ row'[Fresh] = [kind |-> "hedge", of |-> NoOrder, strike |-> NoStrike, status |-> "AWAITING",
                        answer |-> answer]
      /\ \A o \in Rows \ {Fresh} : row'[o] = row[o]
      /\ held' = IF answer = "taken" THEN held \union {Fresh} ELSE held
      /\ \A x \in Rows : row[x].of # Fresh
  BY <1>1, PlaceRows
<1>4. /\ run'.hedge = Fresh /\ run'.main = NoOrder /\ run'.left = run.left /\ run'.strike = run.strike
      /\ run'.pc = IF answer = "failed" THEN "unhedged" ELSE "main"
      /\ run' \in RunTypes
  BY <1>1, <1>2, <1>3 DEF RunTypes, MaybeRows
<1>5. /\ row'[Fresh].kind = "hedge" /\ row'[Fresh].of = NoOrder /\ row'[Fresh].status = "AWAITING"
      /\ row'[Fresh].answer = answer /\ row'[Fresh].strike = NoStrike
  BY <1>3
<1>6. Types'
  BY <1>2, <1>3, <1>4 DEF OptionInv, Types
<1>7. StrikeInv'
  BY <1>2, <1>3, <1>4, <1>5 DEF OptionInv, StrikeInv, OptionConstants
<1>8. NumberedInv'
  BY <1>2, <1>3, <1>5 DEF OptionInv, HedgeInv, NumberedInv, Used, Rows
<1>9. CycleInv'
  <2>1. \A q \in Rows : q > Fresh => ~Used(q)'
    BY <1>3 DEF Used, Rows
  <2> QED BY <1>2, <1>3, <1>4, <1>5, <2>1 DEF CycleInv, Answers
<1>10. LinkedInv'
  <2> SUFFICES ASSUME NEW x \in Rows
               PROVE  /\ row'[x].of # NoOrder => row'[x].kind = "hedge" /\ row'[x].of = x + 1 /\ x + 1 \in Rows
                                                  /\ row'[x + 1].kind = "main"
                      /\ row'[x].kind = "hedge" => mode.sell
                      /\ row'[x].status = "EXITING" => x \notin held' \ Unexited
                      /\ row'[x].kind = "main" /\ x \notin cut \union Unplaced =>
                           /\ x - 1 \in Rows /\ row'[x - 1].kind = "hedge"
                           /\ row'[x - 1].of = x \/ x - 1 \in Unlinked
    BY <1>2 DEF LinkedInv, Grown
  <2>1. CASE x = Fresh
    BY <1>2, <1>3, <1>5, <2>1
  <2>2. CASE x # Fresh
    <3>1. row'[x] = row[x]
      BY <1>3, <2>2
    <3>2. row[x].of # NoOrder => x + 1 # Fresh
      BY <1>3 DEF OptionInv, HedgeInv, LinkedInv
    <3>3. row[x].kind = "main" => x - 1 # Fresh
      BY <1>3 DEF Used, Rows
    <3> QED BY <1>2, <1>3, <2>2, <3>1, <3>2, <3>3 DEF OptionInv, HedgeInv, LinkedInv
  <2> QED BY <2>1, <2>2
<1>11. OptionsHedged'
  <2> SUFFICES ASSUME NEW o \in held' \ (cut \union Unplaced \union Unexited), row'[o].kind = "main"
               PROVE  o - 1 \in held' \union Unlinked \/ row'[o - 1].answer = "unclear"
    BY <1>2 DEF OptionsHedged, Grown
  <2>1. o # Fresh /\ o \in held \ (cut \union Unplaced \union Unexited) /\ o \in Rows
    BY <1>3, <1>5 DEF OptionInv, HedgeInv, NumberedInv
  <2>2. row'[o] = row[o] /\ Used(o)
    BY <1>3, <2>1 DEF Used
  <2>3. o - 1 \in Rows /\ o - 1 # Fresh
    BY <1>2, <1>3, <2>1, <2>2 DEF OptionInv, HedgeInv, LinkedInv, Rows
  <2> QED BY <1>2, <1>3, <2>1, <2>2, <2>3 DEF OptionInv, HedgeInv, OptionHedging, OptionsHedged
<1>12. OptionHedgesEnd'
  <2> SUFFICES ASSUME NEW h \in held', row'[h].kind = "hedge", h # Fresh,
                      h \notin cut \union Unplaced \union Unlinked \union Unexited
               PROVE  row'[h].of # NoOrder /\ row'[row'[h].of].status \in {"AWAITING", "EXITING"}
    BY <1>2, <1>3, <1>4 DEF OptionHedgesEnd, OfCycle, Grown
  <2>1. h \in held /\ h \in Rows /\ row'[h] = row[h] /\ h # NoOrder
    BY <1>3 DEF OptionInv, HedgeInv, NumberedInv, OptionConstants, Rows
  <2>2. row[h].of # NoOrder /\ row[row[h].of].status \in {"AWAITING", "EXITING"} /\ row[h].of \in Rows
    BY <1>2, <2>1 DEF OptionInv, HedgeInv, OptionHedging, OptionHedgesEnd, OfCycle, LinkedInv
  <2> QED BY <1>3, <2>1, <2>2
<1> QED BY <1>6, <1>7, <1>8, <1>9, <1>10, <1>11, <1>12 DEF OptionInv, HedgeInv, OptionHedging

LEMMA MainStep == ASSUME OptionConstants, OptionInv, BuyMain \/ SellMain PROVE OptionInv'
<1>1. PICK answer \in Answers : Place("main", run.strike, answer)
  BY DEF BuyMain, SellMain
<1>2. /\ run.pc = "main" /\ run.main = NoOrder /\ run \in RunTypes /\ run.strike \in Strikes
      /\ UNCHANGED <<mode, last, cut>> /\ Grown
  BY FaultsGrow DEF BuyMain, SellMain, At, OptionInv, Types, HedgeInv, CycleInv, StrikeInv
<1>3. /\ \A q \in Rows : q < Fresh => Used(q)
      /\ \A q \in Rows : q >= Fresh => ~Used(q)
      /\ Fresh \in Rows /\ Fresh # NoOrder /\ Fresh \notin held /\ row' \in [Rows -> RowTypes]
      /\ row'[Fresh] = [kind |-> "main", of |-> NoOrder, strike |-> run.strike, status |-> "AWAITING",
                        answer |-> answer]
      /\ \A o \in Rows \ {Fresh} : row'[o] = row[o]
      /\ held' = IF answer = "taken" THEN held \union {Fresh} ELSE held
      /\ \A x \in Rows : row[x].of # Fresh
  BY <1>1, <1>2, PlaceRows
<1>4. /\ run'.hedge = run.hedge /\ run'.main = Fresh /\ run'.left = run.left /\ run'.strike = run.strike
      /\ run'.pc = IF mode.sell THEN "link" ELSE "return"
      /\ run' \in RunTypes
  <2>1. \A pc \in {"link", "return"} : run' = [run EXCEPT !.main = Fresh, !.pc = pc] =>
          /\ run'.hedge = run.hedge /\ run'.main = Fresh /\ run'.left = run.left /\ run'.strike = run.strike
          /\ run'.pc = pc /\ run' \in RunTypes
    BY <1>2, <1>3 DEF RunTypes, MaybeRows
  <2>2. CASE BuyMain
    BY <2>1, <2>2 DEF BuyMain
  <2>3. CASE SellMain
    BY <2>1, <2>3 DEF SellMain
  <2> QED BY <2>2, <2>3
<1>5. /\ row'[Fresh].kind = "main" /\ row'[Fresh].of = NoOrder /\ row'[Fresh].status = "AWAITING"
      /\ row'[Fresh].strike = run.strike /\ row'[Fresh].answer = answer
  BY <1>3
<1>6. Types'
  BY <1>2, <1>3, <1>4 DEF OptionInv, Types
<1>7. StrikeInv'
  <2>1. \A s \in Strikes, o \in Rows : s \in run.left /\ row'[o].strike = s => s \in last
    BY <1>3, <1>5 DEF OptionInv, StrikeInv
  <2>2. \A o, p \in Rows : row'[o].strike = row'[p].strike /\ row'[o].strike # NoStrike => o = p
    BY <1>2, <1>3, <1>5 DEF OptionInv, StrikeInv
  <2> QED BY <1>2, <1>4, <2>1, <2>2 DEF OptionInv, StrikeInv
<1>8. NumberedInv'
  BY <1>2, <1>3, <1>5 DEF OptionInv, HedgeInv, NumberedInv, Used, Rows
<1>9. mode.sell => /\ run.hedge \in Rows /\ Fresh = run.hedge + 1 /\ row'[run.hedge] = row[run.hedge]
                   /\ row[run.hedge].kind = "hedge" /\ row[run.hedge].of = NoOrder /\ run.hedge # NoOrder
                   /\ (run.hedge \in held \/ row[run.hedge].answer = "unclear")
  <2> SUFFICES ASSUME mode.sell
               PROVE  /\ run.hedge \in Rows /\ Fresh = run.hedge + 1 /\ row'[run.hedge] = row[run.hedge]
                      /\ row[run.hedge].kind = "hedge" /\ row[run.hedge].of = NoOrder /\ run.hedge # NoOrder
                      /\ (run.hedge \in held \/ row[run.hedge].answer = "unclear")
    OBVIOUS
  <2>1. /\ run.hedge # NoOrder /\ row[run.hedge].kind = "hedge" /\ row[run.hedge].of = NoOrder
        /\ (run.hedge \in held \/ row[run.hedge].answer = "unclear")
        /\ \A q \in Rows : q > run.hedge => ~Used(q)
    BY <1>2 DEF OptionInv, HedgeInv, CycleInv
  <2>2. run.hedge \in Rows
    BY <1>2, <2>1 DEF RunTypes, MaybeRows
  <2>3. run.hedge < Fresh
    BY <1>3, <2>1, <2>2 DEF Used, Rows
  <2>4. run.hedge + 1 \in Rows /\ ~Used(run.hedge + 1)
    BY <1>3, <2>1, <2>2, <2>3 DEF Rows, OptionConstants
  <2>5. Fresh = run.hedge + 1
    BY <1>3, <2>2, <2>3, <2>4 DEF Rows
  <2> QED BY <1>3, <2>1, <2>2, <2>3, <2>5
<1>10. ~mode.sell => run.hedge = NoOrder
  BY <1>2 DEF OptionInv, HedgeInv, CycleInv, LinkedInv, RunTypes, MaybeRows
<1>11. CycleInv'
  BY <1>2, <1>3, <1>4, <1>5, <1>9, <1>10 DEF OptionInv, HedgeInv, CycleInv
<1>12. LinkedInv'
  <2> SUFFICES ASSUME NEW x \in Rows
               PROVE  /\ row'[x].of # NoOrder => row'[x].kind = "hedge" /\ row'[x].of = x + 1 /\ x + 1 \in Rows
                                                  /\ row'[x + 1].kind = "main"
                      /\ row'[x].kind = "hedge" => mode.sell
                      /\ row'[x].status = "EXITING" => x \notin held' \ Unexited
                      /\ mode.sell /\ row'[x].kind = "main" /\ x \notin cut \union Unplaced =>
                           /\ x - 1 \in Rows /\ row'[x - 1].kind = "hedge"
                           /\ row'[x - 1].of = x \/ (run'.pc = "link" /\ run'.main = x) \/ x - 1 \in Unlinked
    BY <1>2 DEF LinkedInv, Grown
  <2>1. CASE x = Fresh
    BY <1>3, <1>4, <1>5, <1>9, <2>1 DEF Rows
  <2>2. CASE x # Fresh
    <3>1. row'[x] = row[x]
      BY <1>3, <2>2
    <3>2. row[x].of # NoOrder => x + 1 # Fresh
      BY <1>3 DEF OptionInv, HedgeInv, LinkedInv
    <3>3. row[x].kind = "main" => x - 1 # Fresh
      BY <1>3 DEF Used, Rows
    <3> QED BY <1>2, <1>3, <2>2, <3>1, <3>2, <3>3 DEF OptionInv, HedgeInv, LinkedInv
  <2> QED BY <2>1, <2>2
<1>13. OptionsHedged'
  <2> SUFFICES ASSUME mode.sell, NEW o \in held' \ (cut \union Unplaced \union Unexited), row'[o].kind = "main"
               PROVE  o - 1 \in held' \union Unlinked \/ row'[o - 1].answer = "unclear"
    BY <1>2 DEF OptionsHedged, Grown
  <2>1. CASE o = Fresh
    BY <1>3, <1>9, <2>1 DEF Rows
  <2>2. CASE o # Fresh
    <3>1. o \in held \ (cut \union Unplaced \union Unexited) /\ o \in Rows /\ row'[o] = row[o] /\ Used(o)
      BY <1>3, <2>2 DEF OptionInv, HedgeInv, NumberedInv
    <3>2. o - 1 \in Rows /\ o - 1 # Fresh
      BY <1>2, <1>3, <3>1 DEF OptionInv, HedgeInv, LinkedInv, Rows
    <3> QED BY <1>2, <1>3, <3>1, <3>2 DEF OptionInv, HedgeInv, OptionHedging, OptionsHedged
  <2> QED BY <2>1, <2>2
<1>14. OptionHedgesEnd'
  <2> SUFFICES ASSUME NEW h \in held', row'[h].kind = "hedge", h \notin OfCycle',
                      h \notin cut \union Unplaced \union Unlinked \union Unexited
               PROVE  row'[h].of # NoOrder /\ row'[row'[h].of].status \in {"AWAITING", "EXITING"}
    BY <1>2 DEF OptionHedgesEnd, Grown
  <2>1. h \in held /\ h \in Rows /\ row'[h] = row[h] /\ h # Fresh
    BY <1>3, <1>5 DEF OptionInv, HedgeInv, NumberedInv
  <2>2. h \notin OfCycle
    BY <1>2, <1>4 DEF OfCycle
  <2>3. row[h].of # NoOrder /\ row[row[h].of].status \in {"AWAITING", "EXITING"} /\ row[h].of \in Rows
    BY <1>2, <2>1, <2>2 DEF OptionInv, HedgeInv, OptionHedging, OptionHedgesEnd, LinkedInv
  <2> QED BY <1>3, <2>1, <2>3
<1> QED BY <1>6, <1>7, <1>8, <1>11, <1>12, <1>13, <1>14 DEF OptionInv, HedgeInv, OptionHedging

LEMMA GiveUpStep ==
  ASSUME OptionConstants, OptionInv, run.pc \in {"unhedged", "unwind"}, Grown, UNCHANGED <<mode, last>>,
         NextStrike, held' = held \ {run.hedge},
         row' = row \/ SetStatus(run.hedge, "CLOSED")
  PROVE  OptionInv'
<1>1. /\ run \in RunTypes /\ row \in [Rows -> RowTypes] /\ held \subseteq Rows /\ mode.sell
      /\ run.hedge \in Rows /\ run.hedge # NoOrder /\ row[run.hedge].kind = "hedge"
  BY DEF OptionInv, Types, RunTypes, MaybeRows, HedgeInv, CycleInv
<1>2. /\ row' \in [Rows -> RowTypes]
      /\ \A o \in Rows :
           /\ row'[o].kind = row[o].kind /\ row'[o].of = row[o].of /\ row'[o].answer = row[o].answer
           /\ row'[o].strike = row[o].strike
           /\ o # run.hedge => row'[o].status = row[o].status
           /\ row'[o].status \in {row[o].status, "CLOSED"}
  BY <1>1 DEF SetStatus, RowTypes
<1>3. /\ run'.hedge = NoOrder /\ run'.main = NoOrder /\ run'.pc = "strikes" /\ run'.left = run.left
      /\ run'.strike = NoStrike /\ run' \in RunTypes
  BY <1>1, IdleType DEF NextStrike, Idle, RunTypes
<1>4. Types' /\ StrikeInv'
  <2>1. Types'
    BY <1>1, <1>2, <1>3 DEF OptionInv, Types
  <2>2. StrikeInv'
    BY <1>2, <1>3, StrikesKept
  <2> QED BY <2>1, <2>2
<1>5. NumberedInv'
  BY <1>1, <1>2 DEF OptionInv, HedgeInv, NumberedInv, Used
<1>6. CycleInv'
  BY <1>3 DEF CycleInv
<1>7. LinkedInv'
  BY <1>1, <1>2, <1>3 DEF OptionInv, HedgeInv, LinkedInv, Grown
<1>8. OptionsHedged'
  <2> SUFFICES ASSUME NEW o \in held' \ (cut \union Unplaced \union Unexited), row'[o].kind = "main"
               PROVE  o - 1 \in held' \union Unlinked \/ row'[o - 1].answer = "unclear"
    BY DEF OptionsHedged, Grown
  <2>1. o \in held \ (cut \union Unplaced \union Unexited) /\ o \in Rows /\ row[o].kind = "main"
    BY <1>1, <1>2
  <2>2. /\ o - 1 \in Rows /\ (o - 1 \in held \union Unlinked \/ row[o - 1].answer = "unclear")
        /\ row[o - 1].of = o \/ o - 1 \in Unlinked
    BY <1>1, <2>1 DEF OptionInv, HedgeInv, LinkedInv, OptionHedging, OptionsHedged
  <2>3. CASE o - 1 = run.hedge
    <3>1. o = run.hedge + 1
      BY <1>1, <2>1, <2>3 DEF Rows
    <3>2. run.pc # "unwind"
      BY <2>1, <3>1 DEF OptionInv, HedgeInv, CycleInv
    <3>3. row[run.hedge].of = NoOrder
      BY <1>1, <3>2 DEF OptionInv, HedgeInv, CycleInv
    <3>4. o # NoOrder
      BY <2>1 DEF OptionConstants, Rows
    <3> QED BY <2>2, <2>3, <3>3, <3>4
  <2>4. CASE o - 1 # run.hedge
    BY <1>2, <2>2, <2>4
  <2> QED BY <2>3, <2>4
<1>9. OptionHedgesEnd'
  <2> SUFFICES ASSUME NEW h \in held', row'[h].kind = "hedge",
                      h \notin cut \union Unplaced \union Unlinked \union Unexited
               PROVE  row'[h].of # NoOrder /\ row'[row'[h].of].status \in {"AWAITING", "EXITING"}
    BY DEF OptionHedgesEnd, Grown
  <2>1. h \in held /\ h \in Rows /\ row[h].kind = "hedge" /\ h # run.hedge
    BY <1>1, <1>2
  <2>2. h \notin OfCycle
    BY <2>1 DEF OfCycle, OptionInv, HedgeInv, CycleInv
  <2>3. /\ row[h].of # NoOrder /\ row[row[h].of].status \in {"AWAITING", "EXITING"} /\ row[h].of \in Rows
        /\ row[row[h].of].kind = "main"
    BY <2>1, <2>2 DEF OptionInv, HedgeInv, OptionHedging, OptionHedgesEnd, LinkedInv
  <2> QED BY <1>1, <1>2, <2>1, <2>3
<1> QED BY <1>4, <1>5, <1>6, <1>7, <1>8, <1>9 DEF OptionInv, HedgeInv, OptionHedging

\* What was never held is marked, or not even that; what was held is exited, and the status is not written.
LEMMA UnhedgedStep ==
  ASSUME OptionConstants, OptionInv, Unhedged \/ UnhedgedFails \/ UnwindUnwritten
  PROVE  OptionInv'
<1>1. run.pc \in {"unhedged", "unwind"} /\ NextStrike /\ UNCHANGED <<mode, last, cut>>
  BY DEF Unhedged, UnhedgedFails, UnwindUnwritten, At
<1>2. run.hedge \in Rows
  BY <1>1 DEF OptionInv, Types, RunTypes, MaybeRows, HedgeInv, CycleInv
<1>3. faults \subseteq faults'
  BY <1>2, FaultIs DEF Unhedged, UnhedgedFails, UnwindUnwritten
<1>4. Grown
  BY <1>1, <1>3, FaultsGrow
<1>5. held' = held \ {run.hedge}
  <2>1. run.pc = "unhedged" => run.hedge \notin held
    BY DEF OptionInv, HedgeInv, CycleInv
  <2> QED BY <2>1 DEF Unhedged, UnhedgedFails, UnwindUnwritten, At
<1>6. row' = row \/ SetStatus(run.hedge, "CLOSED")
  BY DEF Unhedged, UnhedgedFails, UnwindUnwritten
<1> QED BY <1>1, <1>4, <1>5, <1>6, GiveUpStep

\* An order whose place_order raised is of no cycle; the seller's next step is to unwind its hedge.
LEMMA LostStep ==
  ASSUME OptionConstants, OptionInv, BuyRaises \/ HedgeRaises \/ SellRaises
  PROVE  OptionInv'
<1>1. PICK kind \in {"main", "hedge"}, strike \in {run.strike, NoStrike} :
        /\ PlaceRaises(kind, strike)
        /\ \/ kind = "main" /\ strike = run.strike /\ run.pc = "main"
           \/ kind = "hedge" /\ strike = NoStrike
        /\ kind = "hedge" => mode.sell
  BY DEF BuyRaises, HedgeRaises, SellRaises, At
<1>2. /\ run.pc \in {"main", "hedge"} /\ run.main = NoOrder /\ run \in RunTypes /\ run.strike \in Strikes
      /\ UNCHANGED <<mode, last, cut>>
  BY DEF BuyRaises, HedgeRaises, SellRaises, At, OptionInv, Types, HedgeInv, CycleInv, StrikeInv
<1>3. PICK answer \in Answers : Place(kind, strike, answer)
  BY <1>1 DEF PlaceRaises
<1>4. /\ \A q \in Rows : q < Fresh => Used(q)
      /\ \A q \in Rows : q >= Fresh => ~Used(q)
      /\ Fresh \in Rows /\ Fresh # NoOrder /\ Fresh \notin held /\ row' \in [Rows -> RowTypes]
      /\ row'[Fresh] = [kind |-> kind, of |-> NoOrder, strike |-> strike, status |-> "AWAITING",
                        answer |-> answer]
      /\ \A o \in Rows \ {Fresh} : row'[o] = row[o]
      /\ held' = IF answer = "taken" THEN held \union {Fresh} ELSE held
      /\ \A x \in Rows : row[x].of # Fresh
  BY <1>2, <1>3, PlaceRows
<1>5. Fresh \in Unplaced' /\ Grown
  <2>1. Fault("placing", Fresh)
    BY <1>1 DEF PlaceRaises
  <2> QED BY <1>2, <1>4, <2>1, FaultIs, FaultsGrow
<1>6. /\ run' \in RunTypes /\ run'.left = run.left /\ run'.main = NoOrder
      /\ \/ run'.pc = "strikes" /\ run'.hedge = NoOrder /\ run'.strike = NoStrike
         \/ run'.pc = "unwind" /\ run.pc = "main" /\ mode.sell /\ run'.hedge = run.hedge /\ run'.strike = run.strike
  <2>1. CASE BuyRaises \/ HedgeRaises
    <3>1. run' = [Idle EXCEPT !.pc = "strikes", !.left = run.left]
      BY <2>1 DEF BuyRaises, HedgeRaises, NextStrike
    <3>2. run' \in RunTypes
      BY <1>2, <3>1, IdleType DEF RunTypes
    <3> QED BY <3>1, <3>2 DEF Idle
  <2>2. CASE SellRaises
    BY <1>2, <2>2 DEF SellRaises, Go, At, RunTypes
  <2> QED BY <2>1, <2>2
<1>7. /\ row'[Fresh].kind = kind /\ row'[Fresh].of = NoOrder /\ row'[Fresh].status = "AWAITING"
      /\ row'[Fresh].strike = strike /\ row'[Fresh].answer = answer
  BY <1>4
<1>8. Types'
  BY <1>2, <1>4, <1>6 DEF OptionInv, Types
<1>9. StrikeInv'
  <2>1. \A s \in Strikes, o \in Rows : s \in run.left /\ row'[o].strike = s => s \in last
    BY <1>1, <1>4, <1>7 DEF OptionInv, StrikeInv, OptionConstants
  <2>2. \A o, p \in Rows : row'[o].strike = row'[p].strike /\ row'[o].strike # NoStrike => o = p
    BY <1>1, <1>2, <1>4, <1>7 DEF OptionInv, StrikeInv
  <2>3. NoStrike \notin run.left
    BY <1>2 DEF RunTypes, OptionConstants
  <2> QED BY <1>2, <1>6, <2>1, <2>2, <2>3 DEF OptionInv, StrikeInv
<1>10. NumberedInv'
  BY <1>1, <1>2, <1>4, <1>7 DEF OptionInv, HedgeInv, NumberedInv, Used, Rows
<1>11. CycleInv'
  <2>1. CASE run'.pc = "strikes"
    BY <1>6, <2>1 DEF CycleInv
  <2>2. CASE run'.pc = "unwind"
    <3>1. /\ run.hedge # NoOrder /\ run.hedge \in Rows /\ row[run.hedge].kind = "hedge"
          /\ \A q \in Rows : q > run.hedge => ~Used(q)
      BY <1>2, <1>6, <2>2 DEF OptionInv, HedgeInv, CycleInv, RunTypes, MaybeRows
    <3>2. run.hedge # Fresh
      BY <1>4, <3>1 DEF Used, Rows
    <3>3. run.hedge + 1 \notin held
      BY <3>1 DEF OptionInv, HedgeInv, NumberedInv, Rows
    <3> QED BY <1>2, <1>4, <1>5, <1>6, <2>2, <3>1, <3>2, <3>3 DEF CycleInv
  <2> QED BY <1>6, <2>1, <2>2
<1>12. LinkedInv'
  <2> SUFFICES ASSUME NEW x \in Rows
               PROVE  /\ row'[x].of # NoOrder => row'[x].kind = "hedge" /\ row'[x].of = x + 1 /\ x + 1 \in Rows
                                                  /\ row'[x + 1].kind = "main"
                      /\ row'[x].kind = "hedge" => mode.sell
                      /\ row'[x].status = "EXITING" => x \notin held' \ Unexited
                      /\ mode.sell /\ row'[x].kind = "main" /\ x \notin cut \union Unplaced' =>
                           /\ x - 1 \in Rows /\ row'[x - 1].kind = "hedge"
                           /\ row'[x - 1].of = x \/ x - 1 \in Unlinked
    BY <1>2, <1>5 DEF LinkedInv, Grown
  <2>1. CASE x = Fresh
    BY <1>1, <1>4, <1>5, <1>7, <2>1
  <2>2. CASE x # Fresh
    <3>1. row'[x] = row[x]
      BY <1>4, <2>2
    <3>2. row[x].of # NoOrder => x + 1 # Fresh
      BY <1>4 DEF OptionInv, HedgeInv, LinkedInv
    <3>3. row[x].kind = "main" => x - 1 # Fresh
      BY <1>4 DEF Used, Rows
    <3>4. Unplaced \subseteq Unplaced'
      BY <1>5 DEF Grown
    <3> QED BY <1>2, <1>4, <2>2, <3>1, <3>2, <3>3, <3>4 DEF OptionInv, HedgeInv, LinkedInv
  <2> QED BY <2>1, <2>2
<1>13. OptionsHedged'
  <2> SUFFICES ASSUME mode.sell, NEW o \in held' \ (cut \union Unplaced' \union Unexited), row'[o].kind = "main"
               PROVE  o - 1 \in held' \union Unlinked \/ row'[o - 1].answer = "unclear"
    BY <1>2, <1>5 DEF OptionsHedged, Grown
  <2>1. o # Fresh /\ o \in held \ (cut \union Unplaced \union Unexited) /\ o \in Rows
    BY <1>4, <1>5 DEF OptionInv, HedgeInv, NumberedInv, Grown
  <2>2. row'[o] = row[o] /\ Used(o)
    BY <1>4, <2>1 DEF Used
  <2>3. o - 1 \in Rows /\ o - 1 # Fresh
    BY <1>2, <1>4, <2>1, <2>2 DEF OptionInv, HedgeInv, LinkedInv, Rows
  <2> QED BY <1>2, <1>4, <2>1, <2>2, <2>3 DEF OptionInv, HedgeInv, OptionHedging, OptionsHedged
<1>14. OptionHedgesEnd'
  <2> SUFFICES ASSUME NEW h \in held', row'[h].kind = "hedge", h \notin OfCycle',
                      h \notin cut \union Unplaced' \union Unlinked \union Unexited
               PROVE  row'[h].of # NoOrder /\ row'[row'[h].of].status \in {"AWAITING", "EXITING"}
    BY <1>2, <1>5 DEF OptionHedgesEnd, Grown
  <2>1. h \in held /\ h \in Rows /\ row'[h] = row[h] /\ h # Fresh /\ h \notin Unplaced
    BY <1>4, <1>5 DEF OptionInv, HedgeInv, NumberedInv, Grown
  <2>2. h \notin OfCycle
    <3>1. CASE run'.pc = "unwind"
      BY <1>2, <1>6, <3>1 DEF OfCycle
    <3>2. CASE run'.pc = "strikes" /\ ~mode.sell
      BY <2>1, <3>2 DEF OptionInv, HedgeInv, LinkedInv
    <3>3. CASE run'.pc = "strikes" /\ mode.sell
      <4>1. run.pc = "hedge"
        BY <3>3, <1>2 DEF BuyRaises, HedgeRaises, SellRaises, At, Go, RunTypes
      <4> QED BY <4>1, <1>2 DEF OfCycle, OptionInv, HedgeInv, CycleInv
    <3> QED BY <1>6, <3>1, <3>2, <3>3
  <2>3. row[h].of # NoOrder /\ row[row[h].of].status \in {"AWAITING", "EXITING"} /\ row[h].of \in Rows
    BY <1>2, <2>1, <2>2 DEF OptionInv, HedgeInv, OptionHedging, OptionHedgesEnd, LinkedInv
  <2> QED BY <1>4, <2>1, <2>3
<1> QED BY <1>8, <1>9, <1>10, <1>11, <1>12, <1>13, <1>14 DEF OptionInv, HedgeInv, OptionHedging

\* Without a main order the hedge is alone.
LEMMA NoMainStep == ASSUME OptionConstants, OptionInv, NoMain PROVE OptionInv'
<1>1. /\ run.pc = "main" /\ mode.sell /\ run \in RunTypes /\ UNCHANGED <<mode, row, held, last, cut>>
      /\ Grown
  BY FaultsGrow DEF NoMain, At, OptionInv, Types
<1>2. /\ run'.hedge = run.hedge /\ run'.main = run.main /\ run'.pc = "unwind"
      /\ run'.left = run.left /\ run'.strike = run.strike /\ run' \in RunTypes
  BY <1>1 DEF NoMain, Go, RunTypes
<1>3. run.hedge \in Rows /\ run.hedge # NoOrder /\ run.main = NoOrder
      /\ \A q \in Rows : q > run.hedge => ~Used(q)
  BY <1>1 DEF OptionInv, HedgeInv, CycleInv, RunTypes, MaybeRows
<1>4. run.hedge + 1 \notin held
  BY <1>3 DEF OptionInv, HedgeInv, NumberedInv, Rows
<1>5. Types' /\ StrikeInv'
  BY <1>1, <1>2, StrikesKept DEF OptionInv, Types
<1>6. NumberedInv' /\ LinkedInv'
  BY <1>1, <1>2 DEF OptionInv, HedgeInv, NumberedInv, Used, LinkedInv, Grown
<1>7. CycleInv'
  BY <1>1, <1>2, <1>3, <1>4 DEF OptionInv, HedgeInv, CycleInv
<1>8. OptionHedging'
  BY <1>1, <1>2 DEF OptionInv, HedgeInv, OptionHedging, OptionsHedged, OptionHedgesEnd, OfCycle, Grown
<1> QED BY <1>5, <1>6, <1>7, <1>8 DEF OptionInv, HedgeInv

\* The order is linked to the hedge before it; one that all brokers refused is held by none.
LEMMA LinkStep == ASSUME OptionConstants, OptionInv, Link \/ LinkFails \/ RefusalUnwritten PROVE OptionInv'
<1>1. /\ run.pc = "link" /\ run \in RunTypes /\ row \in [Rows -> RowTypes] /\ mode.sell
      /\ run.hedge \in Rows /\ run.main \in Rows /\ run.main = run.hedge + 1
      /\ UNCHANGED <<mode, held, last, cut>>
  BY DEF Link, LinkFails, RefusalUnwritten, At, OptionInv, Types, RunTypes, MaybeRows, HedgeInv, CycleInv
<1>2. /\ row[run.hedge].kind = "hedge" /\ row[run.hedge].of = NoOrder
      /\ row[run.main].kind = "main" /\ row[run.main].status = "AWAITING"
      /\ (run.hedge \in held \/ row[run.hedge].answer = "unclear")
      /\ run.hedge # run.main /\ run.hedge # NoOrder /\ run.main # NoOrder
  BY <1>1 DEF OptionInv, HedgeInv, CycleInv, OptionConstants, Rows
<1>3. /\ Linked \in [Rows -> RowTypes]
      /\ \A r \in Rows :
           /\ Linked[r].kind = row[r].kind /\ Linked[r].answer = row[r].answer /\ Linked[r].strike = row[r].strike
           /\ Linked[r].of = IF r = run.hedge THEN run.main ELSE row[r].of
           /\ Linked[r].status = row[r].status
  BY <1>1 DEF Linked, RowTypes, MaybeRows
<1>4. \A t \in [Rows -> RowTypes] :
        /\ Written(t) \in [Rows -> RowTypes]
        /\ \A r \in Rows :
             /\ Written(t)[r].kind = t[r].kind /\ Written(t)[r].answer = t[r].answer
             /\ Written(t)[r].strike = t[r].strike /\ Written(t)[r].of = t[r].of
             /\ Written(t)[r].status \in {t[r].status, "ENTRY_FAILED"}
             /\ ~Refused \/ r # run.main => Written(t)[r].status = t[r].status
  BY <1>1 DEF Written, RowTypes
<1>5. /\ row' \in [Rows -> RowTypes]
      /\ \A r \in Rows :
           /\ row'[r].kind = row[r].kind /\ row'[r].answer = row[r].answer /\ row'[r].strike = row[r].strike
           /\ row'[r].of = row[r].of \/ (r = run.hedge /\ row'[r].of = run.main)
           /\ row'[r].status \in {row[r].status, "ENTRY_FAILED"}
           /\ ~Refused \/ r # run.main => row'[r].status = row[r].status
  <2>1. CASE row' = Written(Linked)
    BY <1>3, <1>4, <2>1
  <2>2. CASE row' = Written(row)
    BY <1>1, <1>4, <2>2
  <2>3. CASE row' = Linked
    BY <1>3, <2>3
  <2> QED BY <2>1, <2>2, <2>3 DEF Link, LinkFails, RefusalUnwritten
<1>6. Grown /\ (row'[run.hedge].of = run.main \/ run.hedge \in Unlinked')
  <2>1. CASE Link
    BY <1>1, <1>3, <1>4, <2>1, FaultsGrow DEF Link
  <2>2. CASE LinkFails
    BY <1>1, <2>2, FaultIs, FaultsGrow DEF LinkFails
  <2>3. CASE RefusalUnwritten
    BY <1>1, <1>3, <2>3, FaultIs, FaultsGrow DEF RefusalUnwritten
  <2> QED BY <2>1, <2>2, <2>3
<1>7. /\ run'.hedge = run.hedge /\ run'.main = run.main /\ run'.pc = IF Refused THEN "unwind" ELSE "return"
      /\ run'.left = run.left /\ run'.strike = run.strike /\ run' \in RunTypes
  BY <1>1 DEF Link, LinkFails, RefusalUnwritten, AfterMain, Go, RunTypes
<1>8. Refused => run.main \notin held
  BY DEF Refused, OptionInv, HedgeInv, NumberedInv
<1>9. Types' /\ StrikeInv'
  <2>1. Types'
    BY <1>1, <1>5, <1>7 DEF OptionInv, Types
  <2>2. StrikeInv'
    BY <1>1, <1>5, <1>7, StrikesKept
  <2> QED BY <2>1, <2>2
<1>10. NumberedInv'
  BY <1>1, <1>5 DEF OptionInv, HedgeInv, NumberedInv, Used
<1>11. CycleInv'
  BY <1>1, <1>2, <1>5, <1>6, <1>7, <1>8 DEF CycleInv
<1>12. LinkedInv'
  BY <1>1, <1>2, <1>5, <1>6, <1>7 DEF OptionInv, HedgeInv, LinkedInv, Grown, Rows
<1>13. OptionsHedged'
  <2> SUFFICES ASSUME NEW o \in held \ (cut \union Unplaced \union Unexited), row'[o].kind = "main"
               PROVE  o - 1 \in held \union Unlinked \/ row'[o - 1].answer = "unclear"
    BY <1>1, <1>6 DEF OptionsHedged, Grown
  <2>1. o \in Rows /\ row[o].kind = "main"
    BY <1>5 DEF OptionInv, HedgeInv, NumberedInv
  <2>2. o - 1 \in Rows /\ (o - 1 \in held \union Unlinked \/ row[o - 1].answer = "unclear")
    BY <1>1, <2>1 DEF OptionInv, HedgeInv, LinkedInv, OptionHedging, OptionsHedged
  <2> QED BY <1>5, <2>2
<1>14. OptionHedgesEnd'
  <2> SUFFICES ASSUME NEW h \in held, row'[h].kind = "hedge", h \notin OfCycle,
                      h \notin cut \union Unplaced \union Unlinked \union Unexited
               PROVE  row'[h].of # NoOrder /\ row'[row'[h].of].status \in {"AWAITING", "EXITING"}
    BY <1>1, <1>6, <1>7 DEF OptionHedgesEnd, OfCycle, Grown
  <2>1. h \in Rows /\ row[h].kind = "hedge" /\ row'[h].of = row[h].of /\ h # run.hedge
    BY <1>2, <1>5 DEF OptionInv, HedgeInv, NumberedInv, OfCycle
  <2>2. /\ row[h].of # NoOrder /\ row[row[h].of].status \in {"AWAITING", "EXITING"}
        /\ row[h].of = h + 1 /\ row[h].of \in Rows
    BY <2>1 DEF OptionInv, HedgeInv, OptionHedging, OptionHedgesEnd, LinkedInv
  <2>3. row[h].of # run.main
    BY <1>1, <2>1, <2>2 DEF Rows
  <2> QED BY <1>5, <2>1, <2>2, <2>3
<1> QED BY <1>9, <1>10, <1>11, <1>12, <1>13, <1>14 DEF OptionInv, HedgeInv, OptionHedging

\* The hedge of an order that all brokers refused is exited.
LEMMA UnwindStep == ASSUME OptionConstants, OptionInv, Unwind \/ UnwindFails PROVE OptionInv'
<1>1. /\ run.pc = "unwind" /\ run \in RunTypes /\ row \in [Rows -> RowTypes] /\ mode.sell
      /\ run.hedge \in Rows /\ run.hedge # NoOrder /\ held \subseteq Rows /\ row[run.hedge].kind = "hedge"
      /\ run.hedge + 1 \notin held \ Unplaced
      /\ UNCHANGED <<mode, last, cut>>
  BY DEF Unwind, UnwindFails, At, OptionInv, Types, RunTypes, MaybeRows, HedgeInv, CycleInv
<1>2. /\ held' \subseteq held /\ \A o \in held : o # run.hedge => o \in held'
      /\ Grown /\ (run.hedge \notin held' \/ run.hedge \in Unexited')
      /\ row' = row \/ SetStatus(run.hedge, "EXITING")
  <2>1. CASE Unwind
    BY <1>1, <2>1, FaultsGrow DEF Unwind
  <2>2. CASE UnwindFails
    BY <1>1, <2>2, FaultIs, FaultsGrow DEF UnwindFails
  <2> QED BY <2>1, <2>2
<1>3. /\ row' \in [Rows -> RowTypes]
      /\ \A o \in Rows :
           /\ row'[o].kind = row[o].kind /\ row'[o].of = row[o].of /\ row'[o].answer = row[o].answer
           /\ row'[o].strike = row[o].strike
           /\ o # run.hedge => row'[o].status = row[o].status
  BY <1>1, <1>2 DEF SetStatus, RowTypes
<1>4. /\ run'.hedge = run.hedge /\ run'.main = run.main /\ run'.pc = "return"
      /\ run'.left = run.left /\ run'.strike = run.strike /\ run' \in RunTypes
  BY <1>1 DEF Unwind, UnwindFails, Go, RunTypes
<1>5. Types' /\ StrikeInv'
  <2>1. Types'
    BY <1>1, <1>2, <1>3, <1>4 DEF OptionInv, Types
  <2>2. StrikeInv'
    BY <1>1, <1>3, <1>4, StrikesKept
  <2> QED BY <2>1, <2>2
<1>6. NumberedInv'
  BY <1>1, <1>2, <1>3 DEF OptionInv, HedgeInv, NumberedInv, Used
<1>7. CycleInv'
  <2>1. run.main # NoOrder => row[run.main].kind = "main" /\ run.main \in Rows
    BY <1>1 DEF OptionInv, HedgeInv, CycleInv, RunTypes, MaybeRows
  <2> QED BY <1>1, <1>2, <1>3, <1>4, <2>1 DEF CycleInv
<1>8. LinkedInv'
  BY <1>1, <1>2, <1>3, <1>4 DEF OptionInv, HedgeInv, LinkedInv, Grown
<1>9. OptionsHedged'
  <2> SUFFICES ASSUME NEW o \in held' \ (cut \union Unplaced \union Unexited), row'[o].kind = "main"
               PROVE  o - 1 \in held' \union Unlinked \/ row'[o - 1].answer = "unclear"
    BY <1>1, <1>2 DEF OptionsHedged, Grown
  <2>1. o \in held \ (cut \union Unplaced \union Unexited) /\ o \in Rows /\ row[o].kind = "main"
    BY <1>1, <1>2, <1>3
  <2>2. o - 1 \in Rows /\ (o - 1 \in held \union Unlinked \/ row[o - 1].answer = "unclear")
    BY <1>1, <2>1 DEF OptionInv, HedgeInv, LinkedInv, OptionHedging, OptionsHedged
  <2>3. o - 1 # run.hedge
    BY <1>1, <2>1 DEF Rows
  <2> QED BY <1>2, <1>3, <2>2, <2>3
<1>10. OptionHedgesEnd'
  <2> SUFFICES ASSUME NEW h \in held', row'[h].kind = "hedge", h \notin OfCycle,
                      h \notin cut \union Unplaced \union Unlinked \union Unexited'
               PROVE  row'[h].of # NoOrder /\ row'[row'[h].of].status \in {"AWAITING", "EXITING"}
    BY <1>1, <1>2, <1>4 DEF OptionHedgesEnd, OfCycle, Grown
  <2>1. h \in held /\ h \in Rows /\ row[h].kind = "hedge" /\ row'[h].of = row[h].of /\ h \notin Unexited
    BY <1>1, <1>2, <1>3 DEF Grown
  <2>2. /\ row[h].of # NoOrder /\ row[row[h].of].status \in {"AWAITING", "EXITING"} /\ row[h].of \in Rows
        /\ row[row[h].of].kind = "main"
    BY <1>1, <2>1 DEF OptionInv, HedgeInv, OptionHedging, OptionHedgesEnd, LinkedInv
  <2> QED BY <1>1, <1>3, <2>1, <2>2
<1> QED BY <1>5, <1>6, <1>7, <1>8, <1>9, <1>10 DEF OptionInv, HedgeInv, OptionHedging

LEMMA LeavingStep == ASSUME OptionConstants, OptionInv, Return \/ CutOff PROVE OptionInv'
<1>1. /\ UNCHANGED <<mode, row, held>> /\ run' = Idle /\ Grown
      /\ OfCycle \subseteq cut' \/ run.pc = "return"
  BY FaultsGrow DEF Return, CutOff, At
<1>2. /\ run' \in RunTypes /\ run'.pc = "idle" /\ run'.hedge = NoOrder /\ run'.main = NoOrder
      /\ run'.left = {} /\ run'.strike = NoStrike
  BY <1>1, IdleType DEF Idle
<1>3. Types' /\ StrikeInv'
  BY <1>1, <1>2, StrikesKept DEF OptionInv, Types
<1>4. NumberedInv' /\ CycleInv'
  BY <1>1, <1>2 DEF OptionInv, HedgeInv, NumberedInv, Used, CycleInv
<1>5. LinkedInv'
  <2>1. run.pc = "link" => run.main \in cut'
    BY <1>1 DEF OfCycle, OptionInv, HedgeInv, CycleInv
  <2> QED BY <1>1, <1>2, <2>1 DEF OptionInv, HedgeInv, LinkedInv, Grown
<1>6. OptionsHedged'
  BY <1>1 DEF OptionInv, HedgeInv, OptionHedging, OptionsHedged, Grown
<1>7. OptionHedgesEnd'
  <2> SUFFICES ASSUME NEW h \in held, row[h].kind = "hedge",
                      h \notin cut' \union Unplaced \union Unlinked \union Unexited
               PROVE  row[h].of # NoOrder /\ row[row[h].of].status \in {"AWAITING", "EXITING"}
    BY <1>1 DEF OptionHedgesEnd, Grown
  <2>1. CASE h \notin OfCycle
    BY <1>1, <2>1 DEF OptionInv, HedgeInv, OptionHedging, OptionHedgesEnd, Grown
  <2>2. CASE h \in OfCycle
    <3>1. run.pc = "return" /\ h # NoOrder /\ h = run.hedge
      BY <1>1, <2>2 DEF OfCycle, OptionInv, HedgeInv, CycleInv
    <3> QED BY <3>1 DEF OptionInv, HedgeInv, CycleInv
  <2> QED BY <2>1, <2>2
<1> QED BY <1>3, <1>4, <1>5, <1>6, <1>7 DEF OptionInv, HedgeInv, OptionHedging

--------------------------------------------------------------------------------
\* A monitor leaves alone what the cycle has in hand, and what it ends it ends with its hedges.
LEMMA MonitorExitStep ==
  ASSUME OptionConstants, OptionInv, NEW o \in Rows, MonitorExit(o) \/ MonitorExitFails(o) PROVE OptionInv'
<1>1. /\ o \notin OfCycle /\ o \in held /\ row[o].of = NoOrder /\ row[o].status = "AWAITING"
      /\ SetStatus(o, "EXITING") /\ UNCHANGED <<mode, last, run, cut>>
      /\ row \in [Rows -> RowTypes] /\ run \in RunTypes
  BY DEF MonitorExit, MonitorExitFails, Watched, OptionInv, Types
<1>12. /\ held' \subseteq held /\ \A x \in held : x # o => x \in held'
      /\ (o \notin held' \/ o \in Unexited') /\ Grown
  <2>1. CASE MonitorExit(o)
    BY <1>1, <2>1, FaultsGrow DEF MonitorExit
  <2>2. CASE MonitorExitFails(o)
    BY <1>1, <2>2, FaultIs, FaultsGrow DEF MonitorExitFails
  <2> QED BY <2>1, <2>2
<1>2. /\ row' \in [Rows -> RowTypes]
      /\ \A r \in Rows :
           /\ row'[r].kind = row[r].kind /\ row'[r].of = row[r].of /\ row'[r].answer = row[r].answer
           /\ row'[r].strike = row[r].strike
           /\ row'[r].status = IF r = o THEN "EXITING" ELSE row[r].status
  BY <1>1 DEF SetStatus, RowTypes
<1>3. o # run.hedge /\ o # run.main
  BY <1>1 DEF OfCycle, OptionConstants, Rows
<1>4. (run.hedge # NoOrder => run.hedge \in Rows) /\ (run.main # NoOrder => run.main \in Rows)
  BY <1>1 DEF RunTypes, MaybeRows
<1>5. Types'
  BY <1>1, <1>12, <1>2 DEF OptionInv, Types
<1>6. StrikeInv'
  BY <1>1, <1>2 DEF OptionInv, StrikeInv
<1>7. NumberedInv'
  BY <1>1, <1>12, <1>2 DEF OptionInv, HedgeInv, NumberedInv, Used
<1>8. CycleInv'
  <2>1. mode.sell /\ run.pc \in {"main", "link"} => run.hedge # NoOrder
    BY DEF OptionInv, HedgeInv, CycleInv
  <2> QED BY <1>1, <1>12, <1>2, <1>3, <1>4, <2>1 DEF OptionInv, HedgeInv, CycleInv, NumberedInv, Used, Grown
<1>9. LinkedInv'
  BY <1>1, <1>12, <1>2 DEF OptionInv, HedgeInv, LinkedInv, Grown
<1>10. OptionsHedged'
  <2> SUFFICES ASSUME mode.sell, NEW x \in held' \ (cut \union Unplaced \union Unexited), row'[x].kind = "main"
               PROVE  x - 1 \in held' \union Unlinked \/ row'[x - 1].answer = "unclear"
    BY <1>1, <1>12 DEF OptionsHedged, Grown
  <2>1. x \in held \ (cut \union Unplaced \union Unexited) /\ x \in Rows /\ row[x].kind = "main"
    BY <1>1, <1>12, <1>2 DEF OptionInv, HedgeInv, NumberedInv
  <2>2. /\ x - 1 \in Rows /\ (x - 1 \in held \union Unlinked \/ row[x - 1].answer = "unclear")
        /\ (row[x - 1].of = x \/ (run.pc = "link" /\ run.main = x) \/ x - 1 \in Unlinked)
    BY <1>1, <2>1 DEF OptionInv, HedgeInv, LinkedInv, OptionHedging, OptionsHedged
  <2>3. CASE row[x - 1].of = x
    BY <1>1, <1>12, <1>2, <2>1, <2>2, <2>3 DEF OptionConstants, Rows
  <2>4. CASE run.pc = "link" /\ run.main = x
    <3>1. run.main = run.hedge + 1 /\ run.hedge \in Rows
      BY <1>4, <2>1, <2>4 DEF OptionInv, HedgeInv, CycleInv
    <3>2. x - 1 # o
      BY <1>3, <2>4, <3>1 DEF Rows
    <3> QED BY <1>1, <1>12, <1>2, <2>2, <3>2
  <2>5. CASE x - 1 \in Unlinked
    BY <2>5
  <2> QED BY <2>2, <2>3, <2>4, <2>5
<1>11. OptionHedgesEnd'
  <2> SUFFICES ASSUME NEW h \in held', row'[h].kind = "hedge", h \notin OfCycle,
                      h \notin cut \union Unplaced \union Unlinked \union Unexited
               PROVE  row'[h].of # NoOrder /\ row'[row'[h].of].status \in {"AWAITING", "EXITING"}
    BY <1>1, <1>12 DEF OptionHedgesEnd, OfCycle, Grown
  <2>1. h \in held /\ h \in Rows /\ row[h].kind = "hedge" /\ row'[h].of = row[h].of
    BY <1>1, <1>12, <1>2 DEF OptionInv, HedgeInv, NumberedInv
  <2>2. row[h].of # NoOrder /\ row[row[h].of].status \in {"AWAITING", "EXITING"} /\ row[h].of \in Rows
    BY <2>1 DEF OptionInv, HedgeInv, OptionHedging, OptionHedgesEnd, LinkedInv
  <2> QED BY <1>2, <2>1, <2>2
<1> QED BY <1>5, <1>6, <1>7, <1>8, <1>9, <1>10, <1>11 DEF OptionInv, HedgeInv, OptionHedging

LEMMA ClosingStep ==
  ASSUME OptionConstants, OptionInv, NEW o \in Rows, o \notin OfCycle, o \notin held \ Unexited,
         NEW s \in {"FAILED", "EXITED", "EXIT_CLOSED"}, Closing(o, s), UNCHANGED <<mode, last, run, cut>>
  PROVE  OptionInv'
<1>1. row \in [Rows -> RowTypes] /\ run \in RunTypes /\ held \subseteq Rows
  BY DEF OptionInv, Types
<1>2. /\ row' \in [Rows -> RowTypes]
      /\ \A r \in Rows :
           /\ row'[r].kind = row[r].kind /\ row'[r].of = row[r].of /\ row'[r].answer = row[r].answer
           /\ row'[r].strike = row[r].strike
           /\ row'[r].status = IF r = o THEN s ELSE IF row[r].of = o THEN row'[r].status ELSE row[r].status
           /\ row'[r].status = "EXITING" => row[r].status = "EXITING"
  <2>1. CASE SetStatus(o, s)
    BY <1>1, <2>1 DEF SetStatus, RowTypes
  <2>2. CASE row' = Ended(o, s)
    BY <1>1, <2>2 DEF Ended, Hedges, RowTypes
  <2> QED BY <2>1, <2>2 DEF Closing
<1>3. /\ \A h \in held : row[h].of # o => h \in held'
      /\ \A h \in held' : row[h].of = o => h \in Unexited'
      /\ held' \subseteq held /\ Grown
  <2>1. CASE held' = held \ Hedges(o) /\ UNCHANGED faults
    BY <1>1, <2>1, FaultsGrow DEF Hedges
  <2>2. CASE held' = held /\ \E h \in Hedges(o) : Fault("exit", h)
    <3>1. PICK h \in Hedges(o) : Fault("exit", h)
      BY <2>2
    <3>2. h \in Rows /\ row[h].of = o /\ o # NoOrder
      BY <3>1 DEF Hedges, OptionConstants, Rows
    <3>3. \A x \in Rows : row[x].of = o => x = h
      BY <3>2 DEF OptionInv, HedgeInv, LinkedInv, Rows
    <3>4. h \in Unexited' /\ Grown
      BY <3>1, <3>2, FaultIs, FaultsGrow
    <3> QED BY <1>1, <2>2, <3>3, <3>4
  <2> QED BY <2>1, <2>2 DEF Closing
<1>4. o # run.hedge /\ o # run.main /\ o # NoOrder
  BY DEF OfCycle, OptionConstants, Rows
<1>5. (run.hedge # NoOrder => run.hedge \in Rows) /\ (run.main # NoOrder => run.main \in Rows)
  BY <1>1 DEF RunTypes, MaybeRows
<1>6. Types'
  BY <1>2, <1>3 DEF OptionInv, Types
<1>7. StrikeInv'
  BY <1>2 DEF OptionInv, StrikeInv
<1>8. NumberedInv'
  BY <1>1, <1>2, <1>3 DEF OptionInv, HedgeInv, NumberedInv, Used
<1>9. CycleInv'
  <2>1. run.main # NoOrder => row[run.main].of # o /\ row'[run.main].status = row[run.main].status
    <3> SUFFICES ASSUME run.main # NoOrder PROVE row[run.main].of # o /\ row'[run.main].status = row[run.main].status
      OBVIOUS
    <3>1. run.main \in Rows /\ row[run.main].kind = "main"
      BY <1>5 DEF OptionInv, HedgeInv, CycleInv
    <3>2. row[run.main].of = NoOrder
      BY <3>1 DEF OptionInv, HedgeInv, LinkedInv
    <3> QED BY <1>2, <1>4, <3>1, <3>2
  <2>2. mode.sell /\ run.pc \in {"unhedged", "main", "link"} => row[run.hedge].of # o
    BY <1>4 DEF OptionInv, HedgeInv, CycleInv
  <2> QED BY <1>2, <1>3, <1>4, <1>5, <2>1, <2>2 DEF OptionInv, HedgeInv, CycleInv, NumberedInv, Used, Grown
<1>10. LinkedInv'
  BY <1>2, <1>3 DEF OptionInv, HedgeInv, LinkedInv, Grown
<1>11. OptionsHedged'
  <2> SUFFICES ASSUME mode.sell, NEW x \in held' \ (cut \union Unplaced \union Unexited), row'[x].kind = "main"
               PROVE  x - 1 \in held' \union Unlinked \/ row'[x - 1].answer = "unclear"
    BY <1>3 DEF OptionsHedged, Grown
  <2>1. x \in held \ (cut \union Unplaced \union Unexited) /\ x \in Rows /\ row[x].kind = "main" /\ x # o
    BY <1>1, <1>2, <1>3
  <2>2. /\ x - 1 \in Rows /\ (x - 1 \in held \union Unlinked \/ row[x - 1].answer = "unclear")
        /\ (row[x - 1].of = x \/ (run.pc = "link" /\ run.main = x) \/ x - 1 \in Unlinked)
    BY <2>1 DEF OptionInv, HedgeInv, LinkedInv, OptionHedging, OptionsHedged
  <2>3. row[x - 1].of # o \/ x - 1 \in Unlinked
    <3>1. CASE row[x - 1].of = x
      BY <2>1, <3>1
    <3>2. CASE run.pc = "link" /\ run.main = x
      <4>1. run.main = run.hedge + 1 /\ run.hedge \in Rows /\ row[run.hedge].of = NoOrder
        BY <1>5, <2>1, <3>2 DEF OptionInv, HedgeInv, CycleInv
      <4> QED BY <1>4, <3>2, <4>1 DEF Rows
    <3> QED BY <2>2, <3>1, <3>2
  <2> QED BY <1>2, <1>3, <2>2, <2>3
<1>12. OptionHedgesEnd'
  <2> SUFFICES ASSUME NEW h \in held', row'[h].kind = "hedge", h \notin OfCycle,
                      h \notin cut \union Unplaced \union Unlinked \union Unexited'
               PROVE  row'[h].of # NoOrder /\ row'[row'[h].of].status \in {"AWAITING", "EXITING"}
    BY <1>3 DEF OptionHedgesEnd, OfCycle, Grown
  <2>1. h \in held /\ h \in Rows /\ row[h].kind = "hedge" /\ row'[h].of = row[h].of /\ row[h].of # o
        /\ h \notin Unexited
    BY <1>1, <1>2, <1>3 DEF Grown
  <2>2. /\ row[h].of # NoOrder /\ row[row[h].of].status \in {"AWAITING", "EXITING"} /\ row[h].of \in Rows
        /\ row[row[h].of].kind = "main"
    BY <2>1 DEF OptionInv, HedgeInv, OptionHedging, OptionHedgesEnd, LinkedInv
  <2>3. row[row[h].of].of # o
    BY <1>4, <2>2 DEF OptionInv, HedgeInv, LinkedInv
  <2> QED BY <1>2, <2>1, <2>2, <2>3
<1> QED BY <1>6, <1>7, <1>8, <1>9, <1>10, <1>11, <1>12 DEF OptionInv, HedgeInv, OptionHedging

LEMMA MonitorStep ==
  ASSUME OptionConstants, OptionInv, NEW o \in Rows,
         MonitorExit(o) \/ MonitorExitFails(o) \/ MonitorDead(o) \/ MonitorComplete(o)
  PROVE  OptionInv'
<1>1. CASE MonitorExit(o) \/ MonitorExitFails(o)
  BY <1>1, MonitorExitStep
<1>2. CASE MonitorDead(o)
  BY <1>2, ClosingStep DEF MonitorDead, Watched
<1>3. CASE MonitorComplete(o)
  <2>1. o \notin held \ Unexited
    BY <1>3 DEF MonitorComplete, OptionInv, HedgeInv, LinkedInv
  <2> QED BY <1>3, <2>1, ClosingStep DEF MonitorComplete, Watched
<1> QED BY <1>1, <1>2, <1>3

LEMMA OptionNextInv == OptionConstants /\ OptionInv /\ [OptionNext]_optionVars => OptionInv'
<1> SUFFICES ASSUME OptionConstants, OptionInv, [OptionNext]_optionVars PROVE OptionInv' OBVIOUS
<1>1. CASE NextCandle \/ UNCHANGED optionVars
  BY <1>1 DEF NextCandle, optionVars, OptionInv, Types, StrikeInv, HedgeInv, NumberedInv, Used, CycleInv, LinkedInv,
              OptionHedging, OptionsHedged, OptionHedgesEnd, OfCycle, Unplaced, Unlinked, Unexited
<1>2. CASE BuyCycle \/ SellCycle \/ BuySignal \/ SellSignal \/ NothingLeft \/ NoOrderPlaced
  BY <1>2, CycleStep, SignalStep, NothingStep DEF BuyCycle, SellCycle, BuySignal, SellSignal
<1>3. CASE BuyMain \/ PlaceHedge \/ SellMain \/ BuyRaises \/ HedgeRaises \/ SellRaises \/ NoMain
  BY <1>3, MainStep, PlaceHedgeStep, LostStep, NoMainStep
<1>6. CASE Unhedged \/ UnhedgedFails \/ Link \/ LinkFails \/ RefusalUnwritten \/ Unwind \/ UnwindFails \/ UnwindUnwritten
  BY <1>6, UnhedgedStep, LinkStep, UnwindStep
<1>4. CASE Return \/ CutOff
  BY <1>4, LeavingStep
<1>5. ASSUME NEW o \in Rows, MonitorExit(o) \/ MonitorExitFails(o) \/ MonitorDead(o) \/ MonitorComplete(o)
      PROVE  OptionInv'
  BY <1>5, MonitorStep
<1> QED BY <1>1, <1>2, <1>3, <1>4, <1>5, <1>6 DEF OptionNext

LEMMA OptionAlways == OptionConstants => (OptionSpec => []OptionInv)
<1> SUFFICES ASSUME OptionConstants PROVE OptionSpec => []OptionInv OBVIOUS
<1> QED BY OptionInitInv, OptionNextInv, PTL DEF OptionSpec

\* No strike has two open orders: the memory of the strategy may be lost with its instance, but the
\* table restores it before a strike is evaluated.
THEOREM StrikesHaveOneOrder == OptionConstants => (OptionSpec => []OneOpenPerStrike)
<1> SUFFICES ASSUME OptionConstants PROVE OptionSpec => []OneOpenPerStrike OBVIOUS
<1>1. OptionInv => OneOpenPerStrike
  <2> SUFFICES ASSUME OptionInv, NEW s \in Strikes
               PROVE  Cardinality({o \in RowsOf(s) : row[o].status = "AWAITING"}) <= 1
    BY DEF OneOpenPerStrike
  <2> DEFINE open == {o \in RowsOf(s) : row[o].status = "AWAITING"}
  <2>1. CASE open = {}
    BY <2>1, FS_EmptySet
  <2>2. CASE open # {}
    <3>1. PICK o \in Rows : row[o].strike = s /\ row[o].status = "AWAITING"
      BY <2>2 DEF RowsOf
    <3>2. open = {o}
      BY <3>1 DEF RowsOf, OptionInv, StrikeInv, OptionConstants
    <3>3. Cardinality({o}) = 1
      BY FS_Singleton
    <3> QED BY <3>2, <3>3
  <2> QED BY <2>1, <2>2
<1> QED BY <1>1, OptionAlways, PTL

\* Whatever the seller holds, it holds the hedge placed just before, and no hedge outlives its
\* order, whatever the brokers answer and whatever calls fail; but for cycles that were cut off, hedges
\* with unclear answers, and calls that failed at placing, linking or exiting these very orders.
THEOREM OptionsAreHedged == OptionConstants => (OptionSpec => []OptionHedging)
<1>1. OptionInv => OptionHedging
  BY DEF OptionInv, HedgeInv
<1> QED BY <1>1, OptionAlways, PTL

================================================================================
