------------------------------ MODULE MCTradingDay -----------------------------
(***************************************************************************)
(* Small instances of how orders come to be and what that stands on, side by   *)
(* side; `part` says which of them a behaviour is of, and never changes, and    *)
(* the others stay where they begin:                                        *)
(*   swing    a day of either swing strategy (SwingEntry);                  *)
(*   trade    one position of an option strategy, from the prices of its       *)
(*            entry to its exit (OptionTrade);                             *)
(*   strikes  three configurations, two of which share an entry of             *)
(*            StrikeCache though their first candles differ;                *)
(*   calls    three calls to two brokers, of which one places again, by two     *)
(*            BrokerManagers (BrokerCalls);                                *)
(*   place    one order in up to two slices at two brokers (PlaceOrder);        *)
(*   exits    exit-all with an order, its hedge and an order of another         *)
(*            strategy (ExitAll).                                          *)
(***************************************************************************)
EXTENDS SwingEntry, OptionTrade, StrikeCache, BrokerCalls, PlaceOrder, ExitAll, TLC

CONSTANTS main, hedge, other    \* the orders of the part exits

VARIABLE part

--------------------------------------------------------------------------------
\* A seller has two rows for every entry; the buyer can confirm its entries or not.
SwingModes ==
  {[sell |-> TRUE, atomic |-> FALSE, smart |-> FALSE, rows |-> 2],
   [sell |-> TRUE, atomic |-> TRUE, smart |-> TRUE, rows |-> 4],
   [sell |-> FALSE, atomic |-> TRUE, smart |-> TRUE, rows |-> 2],
   [sell |-> FALSE, atomic |-> FALSE, smart |-> TRUE, rows |-> 3]}

\* The stop is five ticks away, the target two; a trailing stop has its own further away.
Small(t) == [threshold |-> t, small |-> 0, large |-> 1]
TradeSettings ==
  {[side |-> d, trailing |-> t, entry |-> Small(3), stop |-> Small(3), target |-> Small(3),
    multiplier |-> 2, sideways |-> 1] : d \in {"BUY", "SELL"}, t \in BOOLEAN}
EntryCandle == {[high |-> 31, low |-> 29, atr |-> 2]}
SomePrices  == {20, 28, 29, 30, 32, 33, 34, 35, 36, 56}

ThreeConfigs == {"a", "b", "c"}
SharedKey    == [i \in ThreeConfigs |-> IF i = "b" THEN "second" ELSE "first"]
LateCandle   == [i \in ThreeConfigs |-> IF i = "c" THEN 2 ELSE 1]

BothBrokers == {"angel", "zerodha"}
ThreeCalls  == {"order", "again", "quote"}
KindOfCall  == "order" :> "place" @@ "again" :> "place" @@ "quote" :> "fetch"
TargetOf    == "order" :> "zerodha" @@ "again" :> "angel" @@ "quote" :> "zerodha"
TwoManagers == {"first", "second"}
MadeBy      == "order" :> "first" @@ "again" :> "first" @@ "quote" :> "second"

ThreeOrders  == {main, hedge, other}
Hedged       == main :> NoParent @@ hedge :> main @@ other :> NoParent
Owners       == main :> "sell" @@ hedge :> "sell" @@ other :> "buy"
LossOrNothing == {-2, 0}

ASSUME /\ EntryConstants /\ OptionTradeConstants /\ CacheConstants /\ CallConstants
       /\ PlaceConstants /\ ExitAllConstants

--------------------------------------------------------------------------------
vars == <<part, entryVars, optionTradeVars, strikeVars, callVars, placeVars, exitAllVars>>

\* Where the parts that are not looked at are.
NoSwing  == EntryInit /\ mode = [sell |-> TRUE, atomic |-> FALSE, smart |-> FALSE, rows |-> 2]
NoTrade  ==
  /\ TradeInit
  /\ setting = [side |-> "BUY", trailing |-> TRUE, entry |-> Small(3), stop |-> Small(3), target |-> Small(3),
                multiplier |-> 2, sideways |-> 1]
  /\ price = 30
  /\ position = BuyOrder([high |-> 31, low |-> 29, atr |-> 2], setting, 2)

MCInit ==
  /\ part \in {"swing", "trade", "strikes", "calls", "place", "exits"}
  /\ IF part = "swing" THEN EntryInit ELSE NoSwing
  /\ IF part = "trade" THEN TradeInit ELSE NoTrade
  /\ StrikeInit /\ CallInit /\ ExitAllInit
  /\ PlaceInit
  /\ part # "place" => order = [slices |-> 1, margin |-> FALSE]

\* A step of a part, and the others at rest.
InSwing(A) == part = "swing" /\ A /\ UNCHANGED <<part, optionTradeVars, strikeVars, callVars, placeVars, exitAllVars>>
InTrade(A) == part = "trade" /\ A /\ UNCHANGED <<part, entryVars, strikeVars, callVars, placeVars, exitAllVars>>
InStrikes(A) == part = "strikes" /\ A /\ UNCHANGED <<part, entryVars, optionTradeVars, callVars, placeVars, exitAllVars>>
InCalls(A) == part = "calls" /\ A /\ UNCHANGED <<part, entryVars, optionTradeVars, strikeVars, placeVars, exitAllVars>>
InPlace(A) == part = "place" /\ A /\ UNCHANGED <<part, entryVars, optionTradeVars, strikeVars, callVars, exitAllVars>>
InExits(A) == part = "exits" /\ A /\ UNCHANGED <<part, entryVars, optionTradeVars, strikeVars, callVars, placeVars>>

\* The steps are spelled out, so that each of them is seen to happen.
SwingNext ==
  \/ InSwing(BuyCycle)
  \/ InSwing(SellCycle)
  \/ InSwing(Evaluate)
  \/ InSwing(BuyLook)
  \/ InSwing(SellLook)
  \/ InSwing(NoOrderPlaced)
  \/ InSwing(PlaceHedge)
  \/ InSwing(HedgeRaises)
  \/ InSwing(Unhedged)
  \/ InSwing(UnhedgedFails)
  \/ InSwing(BuyMain)
  \/ InSwing(BuyRaises)
  \/ InSwing(SellMain)
  \/ InSwing(NoMain)
  \/ InSwing(SellRaises)
  \/ InSwing(Unbuilt)
  \/ InSwing(Link)
  \/ InSwing(LinkFails)
  \/ InSwing(FailureUnwritten)
  \/ InSwing(Unwind)
  \/ InSwing(UnwindFails)
  \/ InSwing(UnwindUnwritten)
  \/ InSwing(NotReturned)
  \/ InSwing(BuyPlaced)
  \/ InSwing(SellPlaced)
  \/ InSwing(Confirmed)
  \/ InSwing(AttemptUnwritten)
  \/ InSwing(BuyUnconfirmed)
  \/ InSwing(SellUnconfirmed)
  \/ InSwing(UnconfirmedStays)
  \/ InSwing(Mark)
  \/ InSwing(Return)
  \/ InSwing(CutOff)
  \/ InSwing(Reload)
  \/ \E o \in Rows :
       \/ InSwing(MonitorExit(o))
       \/ InSwing(MonitorExitFails(o))
       \/ InSwing(MonitorDead(o))
       \/ InSwing(MonitorComplete(o))

PositionNext ==
  \/ InTrade(PriceReads)
  \/ InTrade(PriceStores)
  \/ InTrade(PriceQuoted)
  \/ InTrade(PriceDecides)
  \/ InTrade(SignalBegins)
  \/ InTrade(SignalStores)
  \/ InTrade(SignalTrails)
  \/ InTrade(SignalEnds)
  \/ InTrade(PriceMoves)

StrikesNext ==
  \/ \E i \in ThreeConfigs :
       \/ InStrikes(BeginSetup(i))
       \/ InStrikes(Hit(i))
       \/ InStrikes(Miss(i))
       \/ InStrikes(Identify(i))
       \/ InStrikes(NoneFound(i))
       \/ InStrikes(LockTimeout(i))
       \/ InStrikes(Stop(i))
  \/ InStrikes(Crash)
  \/ InStrikes(Unlock)
  \/ InStrikes(Tick)
  \/ InStrikes(NextDay)

CallsNext ==
  \/ InCalls(Refill)
  \/ \E c \in ThreeCalls :
       \/ InCalls(EnsureLimiter(c))
       \/ InCalls(BeginCall(c))
       \/ InCalls(Pay(c))
       \/ InCalls(Succeeds(c))
       \/ InCalls(CallAnswerLost(c))
       \/ InCalls(PlacedAgain(c))
       \/ InCalls(Raises(c))
       \/ InCalls(TryAgain(c))

PlacingNext ==
  \/ InPlace(InsertOrder)
  \/ InPlace(NoOrderRow)
  \/ InPlace(NoBrokersRead)
  \/ \E b \in place.todo :
       \/ InPlace(Skip(b))
       \/ InPlace(NoMargin(b))
       \/ InPlace(Takes(b))
       \/ InPlace(Refuses(b))
       \/ InPlace(AnswerLost(b))
       \/ InPlace(Insert(b))
       \/ InPlace(InsertFails(b))
  \/ InPlace(Lookup)
  \/ InPlace(LookupFails)
  \/ InPlace(Fanned)
  \/ InPlace(NextSlice)
  \/ InPlace(Commit)
  \/ InPlace(CommitRaises)
  \/ InPlace(Cut)

ExitsNext ==
  \/ InExits(ApiExitAll)
  \/ InExits(CheckRisk)
  \/ \E c \in {"poll", "api"} :
       \/ InExits(Finish(c))
       \/ \E o \in ThreeOrders :
            \/ InExits(Exit(c, o))
            \/ InExits(ExitRaises(c, o))
  \/ \E o \in ThreeOrders :
       \/ InExits(PlaceLegs(o))
       \/ InExits(RecordLegs(o))
       \/ InExits(MonitorFills(o))
       \/ InExits(MonitorExits(o))
  \* The RiskManager sees no price: they move when the call is over.
  \/ \E b \in {"zerodha"} : called = MaxCalls /\ exits["api"].pc = "idle" /\ InExits(PricesMove(b))

MCNext == SwingNext \/ PositionNext \/ StrikesNext \/ CallsNext \/ PlacingNext \/ ExitsNext

MCSpec == MCInit /\ [][MCNext]_vars

================================================================================
