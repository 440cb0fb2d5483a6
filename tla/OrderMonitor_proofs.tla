-------------------------- MODULE OrderMonitor_proofs -------------------------
(***************************************************************************)
(* Proofs about OrderMonitor, for any orders, hedges and any interleaving  *)
(* of their monitors.                                                      *)
(***************************************************************************)
EXTENDS OrderMonitor, StatusMapping_proofs

--------------------------------------------------------------------------------
(***************************************************************************)
(* Types.                                                                  *)
(***************************************************************************)
LEMMA StatusTypes ==
  /\ \A n \in Names : Plain(n) \in Statuses /\ Pend(n) \in Statuses
  /\ \A s \in Statuses : Final(s) \in Statuses /\ s[1] \in Names
  /\ Bases \subseteq Names
  /\ {"AWAITING_ENTRY", "OPEN", "CLOSED", "CANCELLED", "REJECTED", "FAILED",
      "EXIT_EOD", "EXIT_STOPLOSS", "EXIT_MAX_LOSS", "EXIT_MANUAL"} \subseteq Names
  BY DEF Names, Bases, Statuses, Plain, Pend, Final

LEMMA LookupType ==
  ASSUME TypeOK, NEW o \in Orders
  PROVE  Lookup(o) \in Statuses
  BY DEF TypeOK, DbType, SharedType, Lookup

LEMMA LiveType ==
  ASSUME OrderMonitorConstants, TypeOK, NEW o \in Orders
  PROVE  Live(o) \in ExecStatuses
<1>1. CASE listed[o] = "ABSENT"
  BY <1>1, RenormalisedType DEF OrderMonitorConstants, TypeOK, PriceType, Live
<1>2. CASE listed[o] # "ABSENT"
  BY <1>2, SyncedType DEF OrderMonitorConstants, TypeOK, MarketType, Live
<1> QED BY <1>1, <1>2

\* What the status of a logical order is derived as.
LEMMA MainStatusType ==
  ASSUME NEW S
  PROVE  MainStatus(S) \in {"OPEN", "AWAITING_ENTRY", "CANCELLED", "REJECTED", "FAILED", "NONE"}
  BY DEF MainStatus

LEMMA DerivedType ==
  ASSUME TypeOK, NEW o \in Orders, Derived(o) # Plain("NONE"), row[o] \in Statuses
  PROVE  Derived(o) \in Statuses
  BY MainStatusType, StatusTypes DEF Derived

LEMMA UnwindType ==
  ASSUME OrderMonitorConstants, TypeOK, NEW T \in SUBSET Orders, NEW C, NEW live \in BOOLEAN,
         Unwind(T, C, live)
  PROVE  /\ held' \in [Orders -> BOOLEAN]
         /\ truth' \in [Orders -> Truths]
         /\ entry' \in [Orders -> ExecStatuses]
         /\ exitRow' \in [Orders -> ExecStatuses \cup {"none"}]
<1>1. PICK S \in SUBSET T :
        LET st        == [x \in T |-> IF live /\ x \in S THEN View(Kind, truth[x])
                                                         ELSE entry[x]]
            cancelled == {x \in S : /\ st[x] \in {"AWAITING_ENTRY", "PENDING", "TRIGGER_PENDING"}
                                    /\ truth[x] \in Cancellable}
        IN  /\ held' = [x \in Orders |-> IF x \in S /\ st[x] = "FILLED" THEN FALSE ELSE held[x]]
            /\ truth' = [x \in Orders |-> IF x \in cancelled THEN "CANCELLED" ELSE truth[x]]
            /\ entry' = [x \in Orders |-> IF x \in cancelled THEN "CANCELLED"
                                          ELSE IF x \in T THEN st[x] ELSE entry[x]]
            /\ exitRow' = [x \in Orders |->
                 IF x \notin T THEN exitRow[x]
                 ELSE IF exitRow[x] = "none"
                        THEN IF st[x] = "FILLED" /\ x \in C THEN "PENDING" ELSE "none"
                 ELSE IF live /\ x \in S THEN st[x] ELSE exitRow[x]]
  BY DEF Unwind
<1> DEFINE st == [x \in T |-> IF live /\ x \in S THEN View(Kind, truth[x]) ELSE entry[x]]
<1>2. \A x \in T : st[x] \in ExecStatuses
  BY ViewType DEF OrderMonitorConstants, TypeOK, MarketType, DbType
<1> HIDE DEF st
<1>3. {"CANCELLED", "PENDING"} \subseteq ExecStatuses /\ "CANCELLED" \in Truths
  BY DEF ExecStatuses, Truths
<1> QED BY <1>1, <1>2, <1>3 DEF TypeOK, MarketType, DbType, st

LEMMA KeptSubset ==
  ASSUME NEW T, NEW C \in Kept(T)
  PROVE  C \subseteq T
  BY DEF Kept

LEMMA CloseType ==
  ASSUME OrderMonitorConstants, TypeOK, NEW o \in Orders, NEW C, NEW live \in BOOLEAN,
         NEW own \in Statuses, Close(o, C, live, own)
  PROVE  /\ held' \in [Orders -> BOOLEAN]
         /\ truth' \in [Orders -> Truths]
         /\ entry' \in [Orders -> ExecStatuses]
         /\ exitRow' \in [Orders -> ExecStatuses \cup {"none"}]
         /\ status' \in [Orders -> Statuses]
         /\ asked' \in SUBSET Orders
<1>1. {o} \cup LiveChildren(o) \in SUBSET Orders
  BY DEF LiveChildren
<1>2. PICK D : /\ Unwind({o} \cup LiveChildren(o), C, live)
               /\ status' = [x \in Orders |-> IF x \in D THEN Plain("CLOSED")
                                              ELSE IF x = o THEN own ELSE status[x]]
               /\ asked' = asked \cup {o} \cup LiveChildren(o)
  BY DEF Close
<1>3. Plain("CLOSED") \in Statuses
  BY StatusTypes
<1>4. status' \in [Orders -> Statuses]
  BY <1>2, <1>3 DEF TypeOK, DbType
<1>5. asked' \in SUBSET Orders
  BY <1>1, <1>2 DEF TypeOK, DbType
<1>6. PICK T \in SUBSET Orders : T = {o} \cup LiveChildren(o)
  BY <1>1
<1>7. Unwind(T, C, live)
  BY <1>2, <1>6
<1> QED BY <1>4, <1>5, <1>7, UnwindType

LEMMA ExitOrderType ==
  ASSUME OrderMonitorConstants, TypeOK, NEW o \in Orders, NEW live \in BOOLEAN,
         NEW own \in Statuses, ExitOrder(o, live, own)
  PROVE  /\ held' \in [Orders -> BOOLEAN]
         /\ truth' \in [Orders -> Truths]
         /\ entry' \in [Orders -> ExecStatuses]
         /\ exitRow' \in [Orders -> ExecStatuses \cup {"none"}]
         /\ status' \in [Orders -> Statuses]
         /\ asked' \in SUBSET Orders
<1>1. PICK C : Close(o, C, live, own)
  BY DEF ExitOrder
<1> QED BY <1>1, CloseType

LEMMA ExitRaisesType ==
  ASSUME OrderMonitorConstants, TypeOK, NEW o \in Orders, NEW live \in BOOLEAN,
         ExitRaises(o, live)
  PROVE  /\ held' \in [Orders -> BOOLEAN]
         /\ truth' \in [Orders -> Truths]
         /\ entry' \in [Orders -> ExecStatuses]
         /\ exitRow' \in [Orders -> ExecStatuses \cup {"none"}]
         /\ status' \in [Orders -> Statuses]
         /\ asked' \in SUBSET Orders
<1>1. status[o] \in Statuses
  BY DEF TypeOK, DbType
<1>2. CASE UNCHANGED <<truth, held, dbVars, asked>>
  BY <1>2 DEF TypeOK, MarketType, DbType, dbVars
<1>3. ASSUME NEW C, Close(o, C, live, status[o])
      PROVE  /\ held' \in [Orders -> BOOLEAN]
             /\ truth' \in [Orders -> Truths]
             /\ entry' \in [Orders -> ExecStatuses]
             /\ exitRow' \in [Orders -> ExecStatuses \cup {"none"}]
             /\ status' \in [Orders -> Statuses]
             /\ asked' \in SUBSET Orders
  BY <1>1, <1>3, CloseType
<1> QED BY <1>2, <1>3 DEF ExitRaises

LEMMA ExitChildrenType ==
  ASSUME OrderMonitorConstants, TypeOK, NEW o \in Orders, ExitChildOrders(o)
  PROVE  /\ held' \in [Orders -> BOOLEAN]
         /\ truth' \in [Orders -> Truths]
         /\ entry' \in [Orders -> ExecStatuses]
         /\ exitRow' \in [Orders -> ExecStatuses \cup {"none"}]
         /\ status' \in [Orders -> Statuses]
         /\ asked' \in SUBSET Orders
<1>1. CASE UNCHANGED <<truth, held, dbVars, asked>>
  BY <1>1 DEF TypeOK, MarketType, DbType, dbVars
<1>2. ASSUME NEW C, NEW D,
             Unwind(LiveChildren(o), C, TRUE),
             status' = [x \in Orders |-> IF x \in D THEN Plain("CLOSED") ELSE status[x]],
             asked' = asked \cup LiveChildren(o)
      PROVE  /\ held' \in [Orders -> BOOLEAN]
             /\ truth' \in [Orders -> Truths]
             /\ entry' \in [Orders -> ExecStatuses]
             /\ exitRow' \in [Orders -> ExecStatuses \cup {"none"}]
             /\ status' \in [Orders -> Statuses]
             /\ asked' \in SUBSET Orders
  <2>1. LiveChildren(o) \in SUBSET Orders
    BY DEF LiveChildren
  <2>2. Plain("CLOSED") \in Statuses
    BY StatusTypes
  <2>3. status' \in [Orders -> Statuses] /\ asked' \in SUBSET Orders
    BY <1>2, <2>1, <2>2 DEF TypeOK, DbType
  <2> QED BY <1>2, <2>1, <2>3, UnwindType
<1> QED BY <1>1, <1>2 DEF ExitChildOrders

LEMMA TypeInit == OrderMonitorConstants /\ Init => TypeOK
<1> SUFFICES ASSUME OrderMonitorConstants, NEW R \in SUBSET Orders, Placed(R)
             PROVE TypeOK
  BY DEF Init
<1>1. MarketType
  BY DEF Placed, MarketType, Times, Truths
<1>2. DbType
  BY StatusTypes DEF Placed, DbType, ExecStatuses
<1>3. SharedType
  BY DEF Placed, SharedType
<1>4. PriceType
  BY DEF Placed, PriceType, PriceLabels, ExecStatuses, Quotes
<1>5. SignalType
  BY DEF Placed, SignalType, SignalLabels
<1> QED BY <1>1, <1>2, <1>3, <1>4, <1>5 DEF TypeOK

\* A step of the price loop: to a label other than "complete".
LEMMA PriceMoves ==
  ASSUME PriceType, NEW o \in Orders, NEW label \in PriceLabels \ {"complete"},
         PriceAt(o, label),
         row' \in [Orders -> Statuses \cup {NoRow}],
         \A x \in Orders : x # o => row'[x] = row[x],
         last' \in [Orders -> Statuses \cup {NoRow}],
         seen' \in [Orders -> ExecStatuses],
         lastEntry' \in [Orders -> ExecStatuses],
         quote' \in [Orders -> Quotes]
  PROVE  PriceType'
  BY DEF PriceType, PriceAt

\* The same when nothing else of the loop changes.
LEMMA PriceMovesOnly ==
  ASSUME PriceType, NEW o \in Orders, NEW label \in PriceLabels \ {"complete"},
         PriceAt(o, label), UNCHANGED loopVars
  PROVE  PriceType'
  BY DEF PriceType, PriceAt, loopVars

LEMMA CacheTypes ==
  ASSUME SharedType, NEW o \in Orders
  PROVE  /\ ClearCache(o) /\ running' = running => SharedType'
         /\ ClearCache(o) /\ Stop(o) => SharedType'
         /\ Stop(o) /\ UNCHANGED <<cached, isHedge>> => SharedType'
         /\ \A s \in Statuses : FillCache(o, s) /\ running' = running => SharedType'
  BY DEF SharedType, ClearCache, FillCache, Stop, Hedge

LEMMA Labels ==
  /\ {"top", "rows", "load", "clock", "square_off", "mark_eod", "cancel",
      "mark_cancelled", "sync", "decide", "orphans", "refresh", "quote", "exit_price",
      "mark_price", "risk", "exit_loss", "mark_loss", "gone"} \subseteq PriceLabels \ {"complete"}
  BY DEF PriceLabels

LEMMA TypePriceHead ==
  ASSUME OrderMonitorConstants, TypeOK, NEW o \in Orders,
         \/ QuickCheck(o) \/ Complete(o) \/ CompleteRows(o) \/ Load(o) \/ CheckClock(o)
  PROVE  TypeOK'
<1> USE DEF marketVars, dbVars, signalVars, sharedVars, loopVars
<1>1. CASE QuickCheck(o)
  <2>1. PriceType'
    <3>1. price' \in [Orders -> PriceLabels] /\ row' \in [Orders -> Statuses \cup {NoRow}]
      BY <1>1 DEF TypeOK, DbType, PriceType, QuickCheck, PriceAt, PriceLabels
    <3>2. \A x \in Orders : price'[x] = "complete" => row'[x] \in Statuses
      BY <1>1 DEF TypeOK, DbType, PriceType, QuickCheck, PriceAt
    <3> QED BY <1>1, <3>1, <3>2 DEF TypeOK, PriceType, QuickCheck
  <2>2. SharedType'
    BY <1>1 DEF TypeOK, SharedType, QuickCheck, Hedge
  <2>3. MarketType' /\ DbType' /\ SignalType'
    BY <1>1 DEF TypeOK, MarketType, DbType, SignalType, QuickCheck
  <2> QED BY <2>1, <2>2, <2>3 DEF TypeOK
<1>2. CASE Complete(o)
  <2>1. Final(row[o]) \in Statuses
    BY <1>2, StatusTypes DEF Complete, TypeOK, PriceType
  <2>2. DbType'
    BY <1>2, <2>1 DEF TypeOK, DbType, Complete
  <2>3. PriceType'
    BY <1>2, Labels, PriceMovesOnly DEF TypeOK, Complete
  <2>4. SharedType'
    BY <1>2, CacheTypes DEF TypeOK, Complete
  <2>5. MarketType' /\ SignalType'
    BY <1>2 DEF TypeOK, MarketType, SignalType, Complete
  <2> QED BY <2>2, <2>3, <2>4, <2>5 DEF TypeOK
<1>3. CASE CompleteRows(o)
  <2>1. DbType'
    BY <1>3 DEF TypeOK, DbType, CompleteRows, ExecStatuses
  <2>2. PriceType'
    BY <1>3, Labels, PriceMovesOnly DEF TypeOK, CompleteRows
  <2>3. SharedType'
    BY <1>3, CacheTypes DEF TypeOK, CompleteRows
  <2>4. MarketType' /\ SignalType'
    BY <1>3 DEF TypeOK, MarketType, SignalType, CompleteRows
  <2> QED BY <2>1, <2>2, <2>3, <2>4 DEF TypeOK
<1>4. CASE Load(o)
  <2>0. Standardized(Kind, entry[o]) \in ExecStatuses /\ Lookup(o) \in Statuses
    BY StandardizedType, LookupType DEF TypeOK, DbType
  <2>1. PriceType'
    <3>1. row' \in [Orders -> Statuses \cup {NoRow}] /\ last' \in [Orders -> Statuses \cup {NoRow}]
      BY <1>4, <2>0 DEF TypeOK, PriceType, Load
    <3>2. /\ seen' \in [Orders -> ExecStatuses]
          /\ lastEntry' \in [Orders -> ExecStatuses]
          /\ quote' \in [Orders -> Quotes]
      BY <1>4, <2>0 DEF TypeOK, PriceType, Load
    <3>3. \A x \in Orders : x # o => row'[x] = row[x]
      BY <1>4 DEF TypeOK, PriceType, Load
    <3>4. PICK label \in PriceLabels \ {"complete"} : PriceAt(o, label)
      BY <1>4, Labels DEF Load
    <3> QED BY <3>1, <3>2, <3>3, <3>4, PriceMoves DEF TypeOK
  <2>2. SharedType'
    BY <1>4, <2>0, CacheTypes DEF TypeOK, SharedType, Load
  <2>3. MarketType' /\ DbType' /\ SignalType'
    BY <1>4 DEF TypeOK, MarketType, DbType, SignalType, Load
  <2> QED BY <2>1, <2>2, <2>3 DEF TypeOK
<1>5. CASE CheckClock(o)
  <2>1. PriceType'
    BY <1>5, Labels, PriceMovesOnly DEF TypeOK, CheckClock
  <2>2. SharedType'
    BY <1>5 DEF TypeOK, SharedType, Stop, CheckClock
  <2>3. MarketType' /\ DbType' /\ SignalType'
    BY <1>5 DEF TypeOK, MarketType, DbType, SignalType, CheckClock
  <2> QED BY <2>1, <2>2, <2>3 DEF TypeOK
<1> QED BY <1>1, <1>2, <1>3, <1>4, <1>5

\* The steps of the price loop that exit the order and change nothing else but
\* where the loop is and whether it runs.
LEMMA TypePriceExit ==
  ASSUME OrderMonitorConstants, TypeOK, NEW o \in Orders,
         NEW label \in PriceLabels \ {"complete"}, PriceAt(o, label),
         \/ ExitOrder(o, FALSE, status[o]) \/ ExitChildOrders(o) \/ ExitRaises(o, FALSE)
         \/ UNCHANGED <<truth, held, dbVars, asked>>,
         \/ UNCHANGED running \/ Stop(o),
         UNCHANGED <<clock, listed, cached, isHedge, loopVars, signalVars>>
  PROVE  TypeOK'
<1> USE DEF dbVars, signalVars, loopVars
<1>1. status[o] \in Statuses
  BY DEF TypeOK, DbType
<1>2. /\ held' \in [Orders -> BOOLEAN]
      /\ truth' \in [Orders -> Truths]
      /\ entry' \in [Orders -> ExecStatuses]
      /\ exitRow' \in [Orders -> ExecStatuses \cup {"none"}]
      /\ status' \in [Orders -> Statuses]
      /\ asked' \in SUBSET Orders
  <2>1. CASE ExitOrder(o, FALSE, status[o])
    BY <1>1, <2>1, ExitOrderType
  <2>2. CASE ExitChildOrders(o)
    BY <2>2, ExitChildrenType
  <2>3. CASE UNCHANGED <<truth, held, dbVars, asked>>
    BY <2>3 DEF TypeOK, MarketType, DbType
  <2>4. CASE ExitRaises(o, FALSE)
    BY <2>4, ExitRaisesType
  <2> QED BY <2>1, <2>2, <2>3, <2>4
<1>3. MarketType' /\ DbType'
  BY <1>2 DEF TypeOK, MarketType, DbType
<1>4. PriceType'
  BY PriceMovesOnly DEF TypeOK
<1>5. SharedType'
  BY DEF TypeOK, SharedType, Stop
<1>6. SignalType'
  BY DEF TypeOK, SignalType
<1> QED BY <1>3, <1>4, <1>5, <1>6 DEF TypeOK

LEMMA TypePriceExits ==
  ASSUME OrderMonitorConstants, TypeOK, NEW o \in Orders,
         \/ SquareOff(o) \/ CancelAwaiting(o) \/ CloseOrphans(o) \/ ExitOnPrice(o)
         \/ ExitOnLoss(o)
  PROVE  TypeOK'
<1> USE DEF sharedVars, loopVars
<1>1. CASE SquareOff(o)
  BY <1>1, Labels, TypePriceExit DEF SquareOff, AfterSquareOff
<1>2. CASE CancelAwaiting(o)
  BY <1>2, Labels, TypePriceExit DEF CancelAwaiting
<1>3. CASE CloseOrphans(o)
  BY <1>3, Labels, TypePriceExit DEF CloseOrphans
<1>4. CASE ExitOnPrice(o)
  BY <1>4, Labels, TypePriceExit DEF ExitOnPrice
<1>5. CASE ExitOnLoss(o)
  BY <1>5, Labels, TypePriceExit DEF ExitOnLoss
<1> QED BY <1>1, <1>2, <1>3, <1>4, <1>5

\* The steps of the price loop that give the order a status.
LEMMA TypePriceMarks ==
  ASSUME OrderMonitorConstants, TypeOK, NEW o \in Orders,
         MarkEod(o) \/ MarkCancelled(o) \/ MarkPrice(o) \/ MarkLoss(o)
  PROVE  TypeOK'
<1> USE DEF marketVars, sharedVars, signalVars, loopVars
<1>1. UNCHANGED status \/ \E s \in Statuses : status' = [status EXCEPT ![o] = s]
  BY StatusTypes DEF MarkEod, MarkCancelled, MarkPrice, MarkLoss
<1>2. UNCHANGED <<marketVars, entry, exitRow, asked, signalVars>>
  BY DEF MarkEod, MarkCancelled, MarkPrice, MarkLoss
<1>3. DbType'
  BY <1>1, <1>2 DEF TypeOK, DbType
<1>4. MarketType' /\ SignalType'
  BY <1>2 DEF TypeOK, MarketType, SignalType
<1>5. PICK label \in PriceLabels \ {"complete"} : PriceAt(o, label)
  BY Labels DEF MarkEod, MarkCancelled, MarkPrice, MarkLoss, AfterSquareOff
<1>6. UNCHANGED loopVars
  BY DEF MarkEod, MarkCancelled, MarkPrice, MarkLoss
<1>7. PriceType'
  BY <1>5, <1>6, PriceMovesOnly DEF TypeOK
<1>8. SharedType'
  BY CacheTypes DEF TypeOK, SharedType, MarkEod, MarkCancelled, MarkPrice, MarkLoss
<1> QED BY <1>3, <1>4, <1>7, <1>8 DEF TypeOK

LEMMA TypePriceRest ==
  ASSUME OrderMonitorConstants, TypeOK, NEW o \in Orders,
         SyncEntry(o) \/ Decide(o) \/ Refresh(o) \/ GetQuote(o) \/ CheckLoss(o)
  PROVE  TypeOK'
<1> USE DEF marketVars, dbVars, signalVars, sharedVars, loopVars
<1>1. CASE SyncEntry(o)
  <2>1. DbType'
    BY <1>1, LiveType DEF TypeOK, DbType, SyncEntry
  <2>2. PriceType'
    <3>1. seen' \in [Orders -> ExecStatuses] /\ lastEntry' \in [Orders -> ExecStatuses]
      BY <1>1, LiveType DEF TypeOK, PriceType, SyncEntry
    <3>2. /\ price' \in [Orders -> PriceLabels]
          /\ \A x \in Orders : price'[x] = "complete" => price[x] = "complete"
      BY <1>1, Labels DEF TypeOK, PriceType, SyncEntry, PriceAt
    <3> QED BY <1>1, <3>1, <3>2 DEF TypeOK, PriceType, SyncEntry
  <2>3. MarketType' /\ SharedType' /\ SignalType'
    BY <1>1 DEF TypeOK, MarketType, SharedType, SignalType, SyncEntry
  <2> QED BY <2>1, <2>2, <2>3 DEF TypeOK
<1>2. CASE Decide(o)
  <2>1. Derived(o) # Plain("NONE") => Derived(o) \in Statuses
    <3>1. ASSUME row[o] = NoRow
          PROVE  Derived(o) = Plain("NONE")
      <4>1. NoRow[1] = "NONE" /\ NoRow = Plain("NONE")
        BY DEF NoRow, Plain
      <4>2. Preserved(row[o])
        BY <3>1, <4>1 DEF Preserved
      <4> QED BY <3>1, <4>1, <4>2 DEF Derived
    <3> QED BY <3>1, DerivedType DEF TypeOK, PriceType
  <2>2. status' \in [Orders -> Statuses] /\ last' \in [Orders -> Statuses \cup {NoRow}]
    <3>1. CASE Derived(o) \in {Plain("NONE"), last[o]}
      BY <1>2, <3>1 DEF TypeOK, DbType, PriceType, Decide
    <3>2. CASE Derived(o) \notin {Plain("NONE"), last[o]}
      BY <1>2, <2>1, <3>2 DEF TypeOK, DbType, PriceType, Decide
    <3> QED BY <3>1, <3>2
  <2>3. DbType'
    BY <1>2, <2>2 DEF TypeOK, DbType, Decide
  <2>4. PriceType'
    <3>1. PICK label \in PriceLabels \ {"complete"} : PriceAt(o, label)
      BY <1>2, Labels DEF Decide
    <3>2. seen' \in [Orders -> ExecStatuses]
      BY <1>2 DEF TypeOK, PriceType, Decide, ExecStatuses
    <3> QED BY <1>2, <2>2, <3>1, <3>2, PriceMoves DEF TypeOK, PriceType, Decide
  <2>5. SharedType'
    BY <1>2 DEF TypeOK, SharedType, ClearCache, Decide
  <2>6. MarketType' /\ SignalType'
    BY <1>2 DEF TypeOK, MarketType, SignalType, Decide
  <2> QED BY <2>3, <2>4, <2>5, <2>6 DEF TypeOK
<1>3. CASE Refresh(o)
  <2>1. status[o] \in Statuses
    BY DEF TypeOK, DbType
  <2>2. PriceType'
    <3>1. PICK label \in PriceLabels \ {"complete"} : PriceAt(o, label)
      BY <1>3, Labels DEF Refresh
    <3> QED BY <1>3, <2>1, <3>1, PriceMoves DEF TypeOK, PriceType, Refresh
  <2>3. SharedType'
    BY <1>3, <2>1, CacheTypes DEF TypeOK, Refresh
  <2>4. MarketType' /\ DbType' /\ SignalType'
    BY <1>3 DEF TypeOK, MarketType, DbType, SignalType, Refresh
  <2> QED BY <2>2, <2>3, <2>4 DEF TypeOK
<1>4. CASE GetQuote(o)
  <2>1. PriceType'
    <3>1. PICK label \in PriceLabels \ {"complete"} : PriceAt(o, label)
      BY <1>4, Labels DEF GetQuote
    <3>2. quote' \in [Orders -> Quotes]
      BY <1>4 DEF TypeOK, PriceType, GetQuote, OrderMonitorConstants
    <3> QED BY <1>4, <3>1, <3>2, PriceMoves DEF TypeOK, PriceType, GetQuote
  <2>2. SharedType'
    BY <1>4, CacheTypes DEF TypeOK, SharedType, GetQuote
  <2>3. MarketType' /\ DbType' /\ SignalType'
    BY <1>4 DEF TypeOK, MarketType, DbType, SignalType, GetQuote
  <2> QED BY <2>1, <2>2, <2>3 DEF TypeOK
<1>5. CASE CheckLoss(o)
  <2>1. PriceType'
    <3>1. PICK label \in PriceLabels \ {"complete"} : PriceAt(o, label)
      BY <1>5, Labels DEF CheckLoss
    <3>2. quote' \in [Orders -> Quotes]
      BY <1>5 DEF TypeOK, PriceType, CheckLoss, Quotes
    <3> QED BY <1>5, <3>1, <3>2, PriceMoves DEF TypeOK, PriceType, CheckLoss
  <2>2. MarketType' /\ DbType' /\ SharedType' /\ SignalType'
    BY <1>5 DEF TypeOK, MarketType, DbType, SharedType, SignalType, CheckLoss
  <2> QED BY <2>1, <2>2 DEF TypeOK
<1> QED BY <1>1, <1>2, <1>3, <1>4, <1>5

\* A step of the signal loop to a label other than "mark".
LEMMA SignalMoves ==
  ASSUME SignalType, NEW o \in Orders, NEW label \in SignalLabels \ {"mark"},
         SignalAt(o, label),
         \/ UNCHANGED verdict
         \/ \E s \in Statuses \cup {NoRow} : verdict' = [verdict EXCEPT ![o] = s]
  PROVE  SignalType'
  BY DEF SignalType, SignalAt

LEMMA SLabels ==
  {"top", "evaluate", "exit", "reread", "again", "gone"} \subseteq SignalLabels \ {"mark"}
  BY DEF SignalLabels

LEMMA TypeSignal ==
  ASSUME OrderMonitorConstants, TypeOK, NEW o \in Orders, SignalStep(o)
  PROVE  TypeOK'
<1> USE DEF marketVars, dbVars, priceVars, sharedVars, loopVars
<1>0. status[o] \in Statuses /\ Lookup(o) \in Statuses
  BY LookupType DEF TypeOK, DbType
<1>1. CASE SignalRead(o)
  <2>1. SignalType'
    BY <1>1, SLabels, SignalMoves DEF TypeOK, SignalRead
  <2>2. SharedType'
    BY <1>0, <1>1, CacheTypes DEF TypeOK, SharedType, SignalRead
  <2>3. MarketType' /\ DbType' /\ PriceType'
    BY <1>1 DEF TypeOK, MarketType, DbType, PriceType, SignalRead
  <2> QED BY <2>1, <2>2, <2>3 DEF TypeOK
<1>2. CASE Evaluate(o)
  <2>1. SignalType'
    BY <1>2, SLabels, SignalMoves DEF TypeOK, Evaluate
  <2>2. SharedType'
    BY <1>2, CacheTypes DEF TypeOK, SharedType, Evaluate
  <2>3. DbType'
    BY <1>2, StatusTypes DEF TypeOK, DbType, Evaluate, OrderMonitorConstants
  <2>4. MarketType' /\ PriceType'
    BY <1>2 DEF TypeOK, MarketType, PriceType, Evaluate
  <2> QED BY <2>1, <2>2, <2>3, <2>4 DEF TypeOK
<1>3. CASE SignalExit(o)
  <2>1. SignalType'
    BY <1>3, SLabels, SignalMoves DEF TypeOK, SignalExit
  <2>2. /\ held' \in [Orders -> BOOLEAN]
        /\ truth' \in [Orders -> Truths]
        /\ DbType'
    <3>1. CASE ExitOrder(o, TRUE, status[o])
      BY <1>0, <3>1, ExitOrderType DEF DbType
    <3>2. CASE ExitRaises(o, TRUE)
      BY <3>2, ExitRaisesType DEF DbType
    <3> QED BY <1>3, <3>1, <3>2 DEF SignalExit
  <2>3. MarketType' /\ SharedType' /\ PriceType'
    BY <1>3, <2>2 DEF TypeOK, MarketType, SharedType, PriceType, SignalExit
  <2> QED BY <2>1, <2>2, <2>3 DEF TypeOK
<1>4. CASE Reread(o)
  <2>1. SignalType'
    <3>1. signal' \in [Orders -> SignalLabels] /\ verdict' \in [Orders -> Statuses \cup {NoRow}]
      BY <1>0, <1>4 DEF TypeOK, SignalType, Reread, SignalAt, SignalLabels
    <3>2. \A x \in Orders : signal'[x] = "mark" => verdict'[x] \in Statuses
      BY <1>0, <1>4 DEF TypeOK, SignalType, Reread, SignalAt
    <3> QED BY <3>1, <3>2 DEF SignalType
  <2>2. SharedType'
    BY <1>0, <1>4, CacheTypes DEF TypeOK, Reread
  <2>3. MarketType' /\ DbType' /\ PriceType'
    BY <1>4 DEF TypeOK, MarketType, DbType, PriceType, Reread
  <2> QED BY <2>1, <2>2, <2>3 DEF TypeOK
<1>5. CASE MarkVerdict(o)
  <2>1. SignalType'
    BY <1>5, SLabels, SignalMoves DEF TypeOK, MarkVerdict
  <2>2. Pend(verdict[o][1]) \in Statuses
    <3>1. verdict[o] \in Statuses
      BY <1>5 DEF TypeOK, SignalType, MarkVerdict
    <3> QED BY <3>1, StatusTypes
  <2>3. DbType'
    BY <1>5, <2>2 DEF TypeOK, DbType, MarkVerdict
  <2>4. MarketType' /\ SharedType' /\ PriceType'
    BY <1>5 DEF TypeOK, MarketType, SharedType, PriceType, MarkVerdict
  <2> QED BY <2>1, <2>3, <2>4 DEF TypeOK
<1>6. CASE ExitAgain(o)
  <2>1. SignalType'
    BY <1>6, SLabels, SignalMoves DEF TypeOK, ExitAgain
  <2>2. /\ held' \in [Orders -> BOOLEAN]
        /\ truth' \in [Orders -> Truths]
        /\ DbType'
    <3>1. CASE ExitOrder(o, FALSE, status[o])
      BY <1>0, <3>1, ExitOrderType DEF DbType
    <3>2. CASE ExitRaises(o, FALSE)
      BY <3>2, ExitRaisesType DEF DbType
    <3> QED BY <1>6, <3>1, <3>2 DEF ExitAgain
  <2>3. SharedType'
    BY <1>6, CacheTypes DEF TypeOK, ExitAgain
  <2>4. MarketType' /\ PriceType'
    BY <1>6, <2>2 DEF TypeOK, MarketType, PriceType, ExitAgain
  <2> QED BY <2>1, <2>2, <2>3, <2>4 DEF TypeOK
<1> QED BY <1>1, <1>2, <1>3, <1>4, <1>5, <1>6 DEF SignalStep

LEMMA TypeEnvironment ==
  ASSUME OrderMonitorConstants, TypeOK, Market \/ Restart
  PROVE  TypeOK'
<1> USE DEF marketVars, dbVars, priceVars, sharedVars, signalVars, loopVars
<1>1. CASE Tick
  BY <1>1 DEF TypeOK, MarketType, DbType, SharedType, PriceType, SignalType, Tick, Times
<1>2. ASSUME NEW o \in Orders, Settle(o)
      PROVE  TypeOK'
  <2>1. MarketType'
    BY <1>2 DEF TypeOK, MarketType, Settle, Truths
  <2>2. DbType' /\ SharedType' /\ PriceType' /\ SignalType'
    BY <1>2 DEF TypeOK, DbType, SharedType, PriceType, SignalType, Settle
  <2> QED BY <2>1, <2>2 DEF TypeOK
<1>3. ASSUME NEW o \in Orders, Poll(o)
      PROVE  TypeOK'
  BY <1>3 DEF TypeOK, MarketType, DbType, SharedType, PriceType, SignalType, Poll
<1>4. ASSUME NEW o \in Orders, ManualExit(o)
      PROVE  TypeOK'
  <2>1. Pend("EXIT_MANUAL") \in Statuses
    BY StatusTypes
  <2>2. MarketType' /\ DbType'
    BY <1>4, <2>1, ExitOrderType DEF TypeOK, MarketType, DbType, ManualExit
  <2>3. SharedType' /\ PriceType' /\ SignalType'
    BY <1>4 DEF TypeOK, SharedType, PriceType, SignalType, ManualExit
  <2> QED BY <2>2, <2>3 DEF TypeOK
<1>5. CASE Restart
  <2>1. MarketType' /\ DbType'
    BY <1>5 DEF TypeOK, MarketType, DbType, Restart
  <2>2. SharedType'
    BY <1>5 DEF SharedType, Restart, FreshMonitors, Reopened
  <2>3. PriceType'
    BY <1>5 DEF PriceType, Restart, FreshMonitors, PriceLabels, Quotes, ExecStatuses
  <2>4. SignalType'
    BY <1>5 DEF SignalType, Restart, FreshMonitors, SignalLabels
  <2> QED BY <2>1, <2>2, <2>3, <2>4 DEF TypeOK
<1> QED BY <1>1, <1>2, <1>3, <1>4, <1>5 DEF Market

LEMMA TypeStep ==
  ASSUME OrderMonitorConstants, TypeOK, [Next]_monitorVars
  PROVE  TypeOK'
<1>1. ASSUME NEW o \in Orders, PriceStep(o)
      PROVE  TypeOK'
  BY <1>1, TypePriceHead, TypePriceExits, TypePriceMarks, TypePriceRest DEF PriceStep
<1>2. CASE UNCHANGED monitorVars
  BY <1>2 DEF monitorVars, marketVars, dbVars, priceVars, loopVars, sharedVars, signalVars,
              TypeOK, MarketType, DbType, SharedType, PriceType, SignalType
<1> QED BY <1>1, <1>2, TypeSignal, TypeEnvironment DEF Next

\* Type correctness: whatever the two loops, the API and the market do, every
\* variable of the monitors has its type (order_monitor.py:203-2380).
THEOREM TypeCorrect == OrderMonitorConstants => (Spec => []TypeOK)
<1> SUFFICES ASSUME OrderMonitorConstants PROVE Spec => []TypeOK
  OBVIOUS
<1>1. OrderMonitorConstants /\ Init => TypeOK
  BY TypeInit
<1>2. OrderMonitorConstants /\ TypeOK /\ [Next]_monitorVars => TypeOK'
  BY TypeStep
<1> QED BY <1>1, <1>2, PTL DEF Spec

--------------------------------------------------------------------------------
(***************************************************************************)
(* Hedges and the clock.                                                   *)
(***************************************************************************)
HedgeIInv == TypeOK /\ HedgeInv /\ HedgeIgnoresClock

LEMMA HedgeInit == OrderMonitorConstants /\ Init => HedgeIInv
<1> SUFFICES ASSUME OrderMonitorConstants, NEW R \in SUBSET Orders, Placed(R)
             PROVE HedgeIInv
  BY DEF Init
<1>1. HedgeInv /\ HedgeIgnoresClock
  BY DEF Placed, HedgeInv, HedgeIgnoresClock
<1> QED BY <1>1, TypeInit DEF HedgeIInv, Init

\* Most steps of the price loop keep away from the labels the invariant is about.
LEMMA HedgeMoves ==
  ASSUME HedgeIInv, NEW o \in Orders, UNCHANGED signal,
         NEW label \in {"top", "complete", "rows", "load", "sync", "decide", "orphans",
                        "refresh", "quote", "exit_price", "mark_price", "risk",
                        "exit_loss", "mark_loss", "gone"},
         PriceAt(o, label),
         \A x \in Orders : x # o => isHedge'[x] = isHedge[x]
  PROVE  HedgeInv' /\ HedgeIgnoresClock'
<1>1. \A x \in Orders : x # o => price'[x] = price[x]
  BY DEF PriceAt, HedgeIInv, TypeOK, PriceType
<1>2. price'[o] = label
  BY DEF PriceAt, HedgeIInv, TypeOK, PriceType
<1>3. HedgeInv'
  BY <1>1, <1>2 DEF HedgeIInv, HedgeInv, Hedge
<1>4. HedgeIgnoresClock'
  BY <1>1, <1>2 DEF HedgeIInv, HedgeIgnoresClock, Hedge
<1> QED BY <1>3, <1>4

LEMMA HedgePrice ==
  ASSUME HedgeIInv, NEW o \in Orders, PriceStep(o)
  PROVE  HedgeInv' /\ HedgeIgnoresClock'
<1> USE DEF signalVars, sharedVars, loopVars
<1>0. UNCHANGED signal
  BY DEF PriceStep, QuickCheck, Complete, CompleteRows, Load, CheckClock, SquareOff,
         MarkEod, CancelAwaiting, MarkCancelled, SyncEntry, Decide, CloseOrphans, Refresh,
         GetQuote, ExitOnPrice, MarkPrice, CheckLoss, ExitOnLoss, MarkLoss
<1>00. isHedge \in [Orders -> BOOLEAN] /\ price \in [Orders -> PriceLabels]
  BY DEF HedgeIInv, TypeOK, SharedType, PriceType
<1>1. CASE QuickCheck(o)
  BY <1>0, <1>00, <1>1, HedgeMoves DEF QuickCheck
<1>2. CASE Complete(o)
  BY <1>0, <1>00, <1>2, HedgeMoves DEF Complete, ClearCache
<1>3. CASE CompleteRows(o)
  BY <1>0, <1>3, HedgeMoves DEF CompleteRows
<1>4. CASE Load(o)
  <2>1. CASE UNCHANGED isHedge /\ \E label \in {"top", "gone"} : PriceAt(o, label)
    BY <1>0, <1>00, <2>1, HedgeMoves
  <2>2. CASE /\ isHedge' = [isHedge EXCEPT ![o] = Hedge(o)]
             /\ price' = [price EXCEPT ![o] = "clock"]
    <3>1. HedgeInv'
      BY <1>0, <1>00, <2>2 DEF HedgeIInv, HedgeInv, Hedge
    <3>2. HedgeIgnoresClock'
      BY <1>00, <2>2 DEF HedgeIInv, HedgeIgnoresClock, Hedge
    <3> QED BY <3>1, <3>2
  <2> QED BY <1>4, <2>1, <2>2 DEF Load, FillCache, PriceAt
<1>5. CASE CheckClock(o)
  <2>1. isHedge[o] = Hedge(o) /\ UNCHANGED isHedge
    BY <1>5 DEF CheckClock, HedgeIInv, HedgeInv
  <2>2. PICK label : PriceAt(o, label) /\ label # "clock"
                     /\ (label \in {"square_off", "cancel"} => ~Hedge(o))
                     /\ label \notin {"mark_eod", "mark_cancelled"}
    BY <1>5, <2>1 DEF CheckClock, SquareOffDue, StopDue, CancelDue
  <2>3. HedgeInv'
    BY <1>0, <1>00, <2>1, <2>2 DEF HedgeIInv, HedgeInv, Hedge, PriceAt
  <2>4. HedgeIgnoresClock'
    BY <1>00, <2>2 DEF HedgeIInv, HedgeIgnoresClock, Hedge, PriceAt
  <2> QED BY <2>3, <2>4
<1>6. CASE SquareOff(o) \/ MarkEod(o) \/ CancelAwaiting(o) \/ MarkCancelled(o)
  <2>1. ~Hedge(o)
    BY <1>6 DEF SquareOff, MarkEod, CancelAwaiting, MarkCancelled, HedgeIInv, HedgeIgnoresClock
  <2>2. \A x \in Orders : x # o => isHedge'[x] = isHedge[x]
    BY <1>00, <1>6 DEF SquareOff, MarkEod, CancelAwaiting, MarkCancelled, ClearCache
  <2>3. PICK label \in {"mark_eod", "cancel", "sync", "top", "mark_cancelled", "gone"} :
          PriceAt(o, label)
    BY <1>6 DEF SquareOff, MarkEod, CancelAwaiting, MarkCancelled, AfterSquareOff
  <2>4. HedgeInv'
    BY <1>0, <1>00, <2>1, <2>2, <2>3 DEF HedgeIInv, HedgeInv, Hedge, PriceAt
  <2>5. HedgeIgnoresClock'
    BY <1>00, <2>1, <2>3 DEF HedgeIInv, HedgeIgnoresClock, Hedge, PriceAt
  <2> QED BY <2>4, <2>5
<1>8. CASE SyncEntry(o) \/ CloseOrphans(o) \/ ExitOnPrice(o) \/ MarkPrice(o) \/ CheckLoss(o)
           \/ ExitOnLoss(o)
  <2>1. UNCHANGED isHedge
    BY <1>8 DEF SyncEntry, CloseOrphans, ExitOnPrice, MarkPrice, CheckLoss, ExitOnLoss
  <2>2. PICK label \in {"decide", "gone", "mark_price", "risk", "exit_loss", "top", "mark_loss"} :
          PriceAt(o, label)
    BY <1>8 DEF SyncEntry, CloseOrphans, ExitOnPrice, MarkPrice, CheckLoss, ExitOnLoss
  <2> QED BY <1>0, <2>1, <2>2, HedgeMoves
<1>9. CASE Decide(o) \/ Refresh(o) \/ GetQuote(o) \/ MarkLoss(o)
  <2>1. \A x \in Orders : x # o => isHedge'[x] = isHedge[x]
    BY <1>00, <1>9 DEF Decide, Refresh, GetQuote, MarkLoss, ClearCache, FillCache
  <2>2. PICK label \in {"refresh", "orphans", "quote", "top", "exit_price", "risk", "gone"} :
          PriceAt(o, label)
    BY <1>9 DEF Decide, Refresh, GetQuote, MarkLoss
  <2> QED BY <1>0, <2>1, <2>2, HedgeMoves
<1> QED BY <1>1, <1>2, <1>3, <1>4, <1>5, <1>6, <1>8, <1>9 DEF PriceStep

LEMMA HedgeSignal ==
  ASSUME HedgeIInv, NEW o \in Orders, SignalStep(o)
  PROVE  HedgeInv' /\ HedgeIgnoresClock'
<1> USE DEF priceVars, sharedVars, loopVars
<1>1. UNCHANGED price
  BY DEF SignalStep, SignalRead, Evaluate, SignalExit, Reread, MarkVerdict, ExitAgain
<1>2. ~Hedge(o)
  BY DEF SignalStep, SignalRead, Evaluate, SignalExit, Reread, MarkVerdict, ExitAgain,
         HedgeIInv, HedgeInv
<1>3. \A x \in Orders : x # o => signal'[x] = signal[x]
  BY DEF SignalStep, SignalRead, Evaluate, SignalExit, Reread, MarkVerdict, ExitAgain,
         SignalAt, HedgeIInv, TypeOK, SignalType
<1>4. UNCHANGED isHedge \/ isHedge' = [isHedge EXCEPT ![o] = FALSE]
  BY <1>2 DEF SignalStep, SignalRead, Evaluate, SignalExit, Reread, MarkVerdict, ExitAgain,
              ClearCache, FillCache, Hedge
<1>5. isHedge \in [Orders -> BOOLEAN]
  BY DEF HedgeIInv, TypeOK, SharedType
<1>6. HedgeInv'
  BY <1>1, <1>2, <1>3, <1>4, <1>5 DEF HedgeIInv, HedgeInv, Hedge
<1>7. HedgeIgnoresClock'
  BY <1>1 DEF HedgeIInv, HedgeIgnoresClock, Hedge
<1> QED BY <1>6, <1>7

LEMMA HedgeStep ==
  ASSUME OrderMonitorConstants, HedgeIInv, [Next]_monitorVars
  PROVE  HedgeIInv'
<1>1. Restart => HedgeInv' /\ HedgeIgnoresClock'
  BY DEF Restart, FreshMonitors, HedgeInv, HedgeIgnoresClock, Hedge
<1>2. Market \/ UNCHANGED monitorVars => UNCHANGED <<price, signal, isHedge>>
  BY
  DEF Market, Tick, Settle, Poll, ManualExit, monitorVars, sharedVars, priceVars, loopVars, signalVars
<1>3. UNCHANGED <<price, signal, isHedge>> => HedgeInv' /\ HedgeIgnoresClock'
  BY DEF HedgeIInv, HedgeInv, HedgeIgnoresClock, Hedge
<1>4. HedgeInv' /\ HedgeIgnoresClock'
  BY <1>1, <1>2, <1>3, HedgePrice, HedgeSignal DEF Next
<1> QED BY <1>4, TypeStep DEF HedgeIInv

\* Square-off and the 15:25 rule spare the hedges although is_hedge, which they
\* consult, is cleared whenever the order's cache is: the loop has just read the
\* row, and the signal loop, which could clear it again, does not run for hedges
\* (order_monitor.py:329).
THEOREM HedgesSpared == OrderMonitorConstants => (Spec => []HedgeIgnoresClock)
<1> SUFFICES ASSUME OrderMonitorConstants PROVE Spec => []HedgeIgnoresClock
  OBVIOUS
<1>1. OrderMonitorConstants /\ Init => HedgeIInv
  BY HedgeInit
<1>2. OrderMonitorConstants /\ HedgeIInv /\ [Next]_monitorVars => HedgeIInv'
  BY HedgeStep
<1>3. HedgeIInv => HedgeIgnoresClock
  BY DEF HedgeIInv
<1> QED BY <1>1, <1>2, <1>3, PTL DEF Spec

--------------------------------------------------------------------------------
(***************************************************************************)
(* Pending exits are requested exits.                                      *)
(***************************************************************************)
ExitIInv == TypeOK /\ ExitInv /\ PendingAfterExit

LEMMA ExitInit == OrderMonitorConstants /\ Init => ExitIInv
<1> SUFFICES ASSUME OrderMonitorConstants, NEW R \in SUBSET Orders, Placed(R)
             PROVE ExitIInv
  BY DEF Init
<1>1. ExitInv /\ PendingAfterExit
  BY DEF Placed, ExitInv, PendingAfterExit, IsPending, Plain
<1> QED BY <1>1, TypeInit DEF ExitIInv, Init

\* The names of the exit statuses are not CLOSED, a plain status is not pending.
LEMMA Pendings ==
  /\ \A b \in Bases : b # "CLOSED"
  /\ \A n : Plain(n)[1] = n /\ Pend(n)[1] = n /\ ~IsPending(Plain(n)) /\ IsPending(Pend(n))
  /\ \A m, n : Pend(m) # Plain(n)
  /\ \A m, n : Plain(m) = Plain(n) => m = n
  /\ \A s : ~IsPending(Final(s)) /\ Final(s)[1] = s[1]
  BY DEF Bases, Plain, Pend, Final, IsPending

\* What the invariant says of the statuses: of the order o it may depend on o.
StatusFits(o, s, A) ==
  /\ IsPending(s) => s[1] # "CLOSED" /\ o \in A
  /\ s = Plain("CLOSED") => o \in A

\* exit_order asks for the exit of the order and of its children before it sets
\* any status.
LEMMA CloseFits ==
  ASSUME ExitIInv, NEW o \in Orders, NEW C \in SUBSET ({o} \cup LiveChildren(o)), NEW live,
         NEW own, Close(o, C, live, own), IsPending(own) => own[1] # "CLOSED",
         own = Plain("CLOSED") => own = status[o]
  PROVE  /\ \A x \in Orders : StatusFits(x, status'[x], asked')
         /\ asked \cup {o} \subseteq asked'
<1>1. PICK D \in Kept(C \ {o}) :
        /\ status' = [x \in Orders |-> IF x \in D THEN Plain("CLOSED")
                                      ELSE IF x = o THEN own ELSE status[x]]
        /\ asked' = asked \cup {o} \cup LiveChildren(o)
  BY DEF Close
<1>2. ASSUME NEW x \in Orders
      PROVE  StatusFits(x, status'[x], asked')
  <2>1. D \subseteq LiveChildren(o)
    BY KeptSubset
  <2>2. CASE x \in D
    BY <1>1, <2>1, <2>2, Pendings DEF StatusFits
  <2>3. CASE x \notin D /\ x = o
    BY <1>1, <2>3 DEF StatusFits
  <2>4. CASE x \notin D /\ x # o
    BY <1>1, <2>4 DEF StatusFits, ExitIInv, ExitInv, PendingAfterExit
  <2> QED BY <2>2, <2>3, <2>4
<1> QED BY <1>1, <1>2

LEMMA ExitOrderFits ==
  ASSUME ExitIInv, NEW o \in Orders, NEW live, NEW own,
         ExitOrder(o, live, own), IsPending(own) => own[1] # "CLOSED",
         own = Plain("CLOSED") => own = status[o]
  PROVE  /\ \A x \in Orders : StatusFits(x, status'[x], asked')
         /\ asked \cup {o} \subseteq asked'
<1>1. PICK C \in Kept(LiveChildren(o)) : Close(o, {o} \cup C, live, own)
  BY DEF ExitOrder
<1>2. {o} \cup C \in SUBSET ({o} \cup LiveChildren(o))
  BY KeptSubset
<1> QED BY <1>1, <1>2, CloseFits

LEMMA SameStatusFits ==
  ASSUME ExitIInv, UNCHANGED <<status, asked>>
  PROVE  \A x \in Orders : StatusFits(x, status'[x], asked')
  BY DEF StatusFits, ExitIInv, ExitInv, PendingAfterExit

LEMMA ExitRaisesFits ==
  ASSUME ExitIInv, NEW o \in Orders, NEW live, ExitRaises(o, live)
  PROVE  /\ \A x \in Orders : StatusFits(x, status'[x], asked')
         /\ asked \subseteq asked'
<1>1. CASE UNCHANGED <<truth, held, dbVars, asked>>
  BY <1>1, SameStatusFits DEF dbVars
<1>2. ASSUME NEW C \in SUBSET LiveChildren(o), Close(o, C, live, status[o])
      PROVE  /\ \A x \in Orders : StatusFits(x, status'[x], asked')
             /\ asked \subseteq asked'
  BY <1>2, CloseFits DEF ExitIInv, ExitInv
<1> QED BY <1>1, <1>2 DEF ExitRaises

LEMMA ExitChildrenFits ==
  ASSUME ExitIInv, NEW o \in Orders, ExitChildOrders(o)
  PROVE  /\ \A x \in Orders : StatusFits(x, status'[x], asked')
         /\ asked \subseteq asked'
<1>1. CASE UNCHANGED <<truth, held, dbVars, asked>>
  BY <1>1, SameStatusFits DEF dbVars
<1>2. ASSUME NEW C \in Kept(LiveChildren(o)), NEW D \in Kept(C), NEW x \in Orders,
             status' = [y \in Orders |-> IF y \in D THEN Plain("CLOSED") ELSE status[y]],
             asked' = asked \cup LiveChildren(o)
      PROVE  StatusFits(x, status'[x], asked')
  <2>1. D \subseteq LiveChildren(o)
    BY KeptSubset
  <2>2. CASE x \in D
    BY <1>2, <2>1, <2>2, Pendings DEF StatusFits
  <2>3. CASE x \notin D
    BY <1>2, <2>3 DEF StatusFits, ExitIInv, ExitInv, PendingAfterExit
  <2> QED BY <2>2, <2>3
<1> QED BY <1>1, <1>2 DEF ExitChildOrders

\* A step that gives the order o, and no other, a status that fits.
LEMMA OneStatusFits ==
  ASSUME ExitIInv, NEW o \in Orders, NEW s, status' = [status EXCEPT ![o] = s],
         UNCHANGED asked, StatusFits(o, s, asked)
  PROVE  \A x \in Orders : StatusFits(x, status'[x], asked')
  BY DEF StatusFits, ExitIInv, TypeOK, DbType, ExitInv, PendingAfterExit

LEMMA DerivedFits ==
  ASSUME ExitIInv, NEW o \in Orders, Derived(o) # row[o]
  PROVE  StatusFits(o, Derived(o), asked)
<1>1. Derived(o) = Plain(MainStatus({seen[o]}))
  BY DEF Derived
<1>2. MainStatus({seen[o]}) # "CLOSED"
  BY MainStatusType
<1> QED BY <1>1, <1>2, Pendings DEF StatusFits

\* What the price loop has in hand, after a step of the loop of o to label.
LEMMA PriceHands ==
  ASSUME ExitIInv, NEW o \in Orders, NEW label, PriceAt(o, label), UNCHANGED signalVars,
         \A x \in Orders : x # o => row'[x] = row[x],
         asked \subseteq asked',
         label \in {"mark_eod", "mark_price", "mark_loss"} => o \in asked',
         label = "complete" => row'[o][1] # "CLOSED",
         \A x \in Orders : StatusFits(x, status'[x], asked')
  PROVE  ExitInv' /\ PendingAfterExit'
<1>1. price' = [price EXCEPT ![o] = label] /\ price \in [Orders -> PriceLabels]
  BY DEF PriceAt, ExitIInv, TypeOK, PriceType
<1>2. \A x \in Orders : x # o => price'[x] = price[x]
  BY <1>1
<1>3. price'[o] = label
  BY <1>1
<1>4. PendingAfterExit'
  BY DEF StatusFits, PendingAfterExit
<1>5. \A x \in Orders : IsPending(status'[x]) => status'[x][1] # "CLOSED"
  BY DEF StatusFits
<1>6. \A x \in Orders : price'[x] \in {"mark_eod", "mark_price", "mark_loss"} => x \in asked'
  BY <1>2, <1>3 DEF ExitIInv, ExitInv
<1>7. \A x \in Orders : price'[x] = "complete" => row'[x][1] # "CLOSED"
  BY <1>2, <1>3 DEF ExitIInv, ExitInv
<1>8. \A x \in Orders : /\ signal'[x] \in {"reread", "mark"} => x \in asked'
                        /\ signal'[x] = "mark" => verdict'[x][1] # "CLOSED"
  BY DEF ExitIInv, ExitInv, signalVars
<1>9. ExitInv'
  BY <1>5, <1>6, <1>7, <1>8 DEF ExitInv, IsPending
<1> QED BY <1>4, <1>9

LEMMA ExitPrice ==
  ASSUME ExitIInv, NEW o \in Orders, PriceStep(o)
  PROVE  ExitInv' /\ PendingAfterExit'
<1> USE DEF dbVars, sharedVars, loopVars
<1>0. UNCHANGED signalVars
  BY DEF PriceStep, QuickCheck, Complete, CompleteRows, Load, CheckClock, SquareOff,
         MarkEod, CancelAwaiting, MarkCancelled, SyncEntry, Decide, CloseOrphans, Refresh,
         GetQuote, ExitOnPrice, MarkPrice, CheckLoss, ExitOnLoss, MarkLoss
<1>00. row \in [Orders -> Statuses \cup {NoRow}]
  BY DEF ExitIInv, TypeOK, PriceType
<1>1. CASE QuickCheck(o)
  <2>1. PICK label \in {"gone", "complete", "load"} :
          PriceAt(o, label) /\ (label = "complete" => row'[o] = status[o] /\ IsPending(status[o]))
    BY <1>00, <1>1 DEF QuickCheck
  <2>2. label = "complete" => row'[o][1] # "CLOSED"
    BY <2>1 DEF ExitIInv, ExitInv
  <2>3. \A x \in Orders : x # o => row'[x] = row[x]
    BY <1>00, <1>1 DEF QuickCheck
  <2>4. UNCHANGED <<status, asked>>
    BY <1>1 DEF QuickCheck
  <2> QED BY <1>0, <2>1, <2>2, <2>3, <2>4, SameStatusFits, PriceHands
<1>2. CASE Complete(o)
  <2>1. row[o][1] # "CLOSED"
    BY <1>2 DEF Complete, ExitIInv, ExitInv
  <2>2. StatusFits(o, Final(row[o]), asked)
    BY <2>1, Pendings DEF StatusFits
  <2>3. UNCHANGED <<row, asked>> /\ (status' = [status EXCEPT ![o] = Final(row[o])] \/ UNCHANGED status)
    BY <1>2 DEF Complete
  <2>4. \A x \in Orders : StatusFits(x, status'[x], asked')
    BY <2>2, <2>3, OneStatusFits, SameStatusFits
  <2>5. PriceAt(o, "rows") \/ PriceAt(o, "top")
    BY <1>2 DEF Complete
  <2> QED BY <1>0, <2>3, <2>4, <2>5, PriceHands
<1>3. CASE CompleteRows(o) \/ CheckClock(o) \/ SyncEntry(o) \/ GetQuote(o) \/ CheckLoss(o)
  <2>1. UNCHANGED <<status, asked, row>>
    BY <1>3 DEF CompleteRows, CheckClock, SyncEntry, GetQuote, CheckLoss
  <2>2. PICK label \in {"top", "square_off", "gone", "cancel", "sync", "decide", "exit_price",
                        "risk", "exit_loss"} : PriceAt(o, label)
    BY <1>3 DEF CompleteRows, CheckClock, SyncEntry, GetQuote, CheckLoss
  <2> QED BY <1>0, <2>1, <2>2, SameStatusFits, PriceHands
<1>4. CASE Load(o) \/ Refresh(o)
  <2>1. UNCHANGED <<status, asked>> /\ \A x \in Orders : x # o => row'[x] = row[x]
    BY <1>00, <1>4 DEF Load, Refresh
  <2>2. PICK label \in {"clock", "quote", "top", "gone"} : PriceAt(o, label)
    BY <1>4 DEF Load, Refresh
  <2> QED BY <1>0, <2>1, <2>2, SameStatusFits, PriceHands
<1>5. CASE SquareOff(o) \/ CancelAwaiting(o) \/ ExitOnPrice(o) \/ ExitOnLoss(o)
  <2>1. UNCHANGED row
    BY <1>5 DEF SquareOff, CancelAwaiting, ExitOnPrice, ExitOnLoss
  <2>2. CASE ExitOrder(o, FALSE, status[o])
    <3>1. /\ \A x \in Orders : StatusFits(x, status'[x], asked')
          /\ asked \cup {o} \subseteq asked'
      BY <2>2, ExitOrderFits DEF ExitIInv, ExitInv
    <3>2. PICK label \in {"mark_eod", "cancel", "sync", "mark_cancelled", "gone",
                          "mark_price", "risk", "mark_loss", "top"} : PriceAt(o, label)
      BY <1>5 DEF SquareOff, CancelAwaiting, ExitOnPrice, ExitOnLoss, AfterSquareOff
    <3> QED BY <1>0, <2>1, <3>1, <3>2, PriceHands
  <2>3. CASE ~ExitOrder(o, FALSE, status[o])
    <3>1. (\A x \in Orders : StatusFits(x, status'[x], asked')) /\ asked \subseteq asked'
      BY <1>5, <2>3, ExitRaisesFits, SameStatusFits
      DEF SquareOff, CancelAwaiting, ExitOnPrice, ExitOnLoss
    <3>2. PICK label \in {"cancel", "sync", "gone", "risk", "top"} : PriceAt(o, label)
      BY <1>5, <2>3 DEF SquareOff, CancelAwaiting, ExitOnPrice, ExitOnLoss, AfterSquareOff
    <3> QED BY <1>0, <2>1, <3>1, <3>2, PriceHands
  <2> QED BY <2>2, <2>3
<1>6. CASE MarkEod(o) \/ MarkPrice(o) \/ MarkLoss(o)
  <2>1. o \in asked
    BY <1>6 DEF MarkEod, MarkPrice, MarkLoss, ExitIInv, ExitInv
  <2>2. UNCHANGED status \/ \E b \in Bases : status' = [status EXCEPT ![o] = Pend(b)]
    BY <1>6 DEF MarkEod, MarkPrice, MarkLoss, Bases
  <2>3. UNCHANGED <<row, asked>>
    BY <1>6 DEF MarkEod, MarkPrice, MarkLoss
  <2>4. PICK label \in {"top", "cancel", "sync", "risk"} : PriceAt(o, label)
    BY <1>6 DEF MarkEod, MarkPrice, MarkLoss, AfterSquareOff
  <2>5. \A b \in Bases : StatusFits(o, Pend(b), asked)
    BY <2>1, Pendings DEF StatusFits
  <2>6. \A x \in Orders : StatusFits(x, status'[x], asked')
    BY <2>2, <2>3, <2>5, OneStatusFits, SameStatusFits
  <2> QED BY <1>0, <2>3, <2>4, <2>6, PriceHands
<1>7. CASE MarkCancelled(o)
  <2>1. StatusFits(o, Plain("CANCELLED"), asked)
    BY Pendings DEF StatusFits
  <2>2. UNCHANGED status \/ status' = [status EXCEPT ![o] = Plain("CANCELLED")]
    BY <1>7 DEF MarkCancelled
  <2>3. UNCHANGED <<row, asked>> /\ PriceAt(o, "gone")
    BY <1>7 DEF MarkCancelled
  <2>4. \A x \in Orders : StatusFits(x, status'[x], asked')
    BY <2>1, <2>2, <2>3, OneStatusFits, SameStatusFits
  <2> QED BY <1>0, <2>3, <2>4, PriceHands
<1>8. CASE Decide(o)
  <2>1. UNCHANGED <<row, asked>>
    BY <1>8 DEF Decide
  <2>2. UNCHANGED status \/ (Derived(o) # row[o] /\ status' = [status EXCEPT ![o] = Derived(o)])
    BY <1>8 DEF Decide
  <2>3. \A x \in Orders : StatusFits(x, status'[x], asked')
    BY <2>1, <2>2, DerivedFits, OneStatusFits, SameStatusFits
  <2>4. PICK label \in {"refresh", "orphans", "gone"} : PriceAt(o, label)
    BY <1>8 DEF Decide
  <2> QED BY <1>0, <2>1, <2>3, <2>4, PriceHands
<1>9. CASE CloseOrphans(o)
  <2>1. UNCHANGED row /\ PriceAt(o, "gone")
    BY <1>9 DEF CloseOrphans
  <2>2. (\A x \in Orders : StatusFits(x, status'[x], asked')) /\ asked \subseteq asked'
    BY <1>9, ExitChildrenFits, SameStatusFits DEF CloseOrphans
  <2> QED BY <1>0, <2>1, <2>2, PriceHands
<1> QED BY <1>1, <1>2, <1>3, <1>4, <1>5, <1>6, <1>7, <1>8, <1>9 DEF PriceStep

\* What the signal loop has in hand, after a step of the loop of o to label.
LEMMA SignalHands ==
  ASSUME ExitIInv, NEW o \in Orders, NEW label, SignalAt(o, label), UNCHANGED priceVars,
         \A x \in Orders : x # o => verdict'[x] = verdict[x],
         asked \subseteq asked',
         label \in {"reread", "mark"} => o \in asked',
         label = "mark" => verdict'[o][1] # "CLOSED",
         \A x \in Orders : StatusFits(x, status'[x], asked')
  PROVE  ExitInv' /\ PendingAfterExit'
<1>1. signal' = [signal EXCEPT ![o] = label] /\ signal \in [Orders -> SignalLabels]
  BY DEF SignalAt, ExitIInv, TypeOK, SignalType
<1>2. \A x \in Orders : x # o => signal'[x] = signal[x]
  BY <1>1
<1>3. signal'[o] = label
  BY <1>1
<1>4. PendingAfterExit'
  BY DEF StatusFits, PendingAfterExit
<1>5. \A x \in Orders : IsPending(status'[x]) => status'[x][1] # "CLOSED"
  BY DEF StatusFits
<1>6. \A x \in Orders : signal'[x] \in {"reread", "mark"} => x \in asked'
  BY <1>2, <1>3 DEF ExitIInv, ExitInv
<1>7. \A x \in Orders : signal'[x] = "mark" => verdict'[x][1] # "CLOSED"
  BY <1>2, <1>3 DEF ExitIInv, ExitInv
<1>8. \A x \in Orders : /\ price'[x] \in {"mark_eod", "mark_price", "mark_loss"} => x \in asked'
                        /\ price'[x] = "complete" => row'[x][1] # "CLOSED"
  BY DEF ExitIInv, ExitInv, priceVars, loopVars
<1>9. ExitInv'
  BY <1>5, <1>6, <1>7, <1>8 DEF ExitInv, IsPending
<1> QED BY <1>4, <1>9

LEMMA ExitSignal ==
  ASSUME OrderMonitorConstants, ExitIInv, NEW o \in Orders, SignalStep(o)
  PROVE  ExitInv' /\ PendingAfterExit'
<1> USE DEF dbVars, loopVars
<1>0. UNCHANGED priceVars
  BY DEF SignalStep, SignalRead, Evaluate, SignalExit, Reread, MarkVerdict, ExitAgain
<1>00. verdict \in [Orders -> Statuses \cup {NoRow}]
  BY DEF ExitIInv, TypeOK, SignalType
<1>1. CASE SignalRead(o)
  BY <1>0, <1>1, SameStatusFits, SignalHands DEF SignalRead
<1>2. CASE Evaluate(o)
  <2>1. UNCHANGED status \/ \E v \in Bases : status' = [status EXCEPT ![o] = Plain(v)]
    BY <1>2 DEF Evaluate, OrderMonitorConstants
  <2>2. \A v \in Bases : StatusFits(o, Plain(v), asked)
    BY Pendings DEF StatusFits
  <2>3. \A x \in Orders : StatusFits(x, status'[x], asked')
    BY <1>2, <2>1, <2>2, OneStatusFits, SameStatusFits DEF Evaluate
  <2>4. SignalAt(o, "top") \/ SignalAt(o, "exit")
    BY <1>2 DEF Evaluate
  <2> QED BY <1>0, <1>2, <2>3, <2>4, SignalHands DEF Evaluate
<1>3. CASE SignalExit(o)
  <2>1. UNCHANGED verdict
    BY <1>3 DEF SignalExit
  <2>2. CASE ExitOrder(o, TRUE, status[o]) /\ SignalAt(o, "reread")
    <3>1. /\ \A x \in Orders : StatusFits(x, status'[x], asked')
          /\ asked \cup {o} \subseteq asked'
      BY <2>2, ExitOrderFits DEF ExitIInv, ExitInv
    <3> QED BY <1>0, <2>1, <2>2, <3>1, SignalHands
  <2>3. CASE ExitRaises(o, TRUE) /\ SignalAt(o, "again")
    BY <1>0, <2>1, <2>3, ExitRaisesFits, SignalHands
  <2> QED BY <1>3, <2>2, <2>3 DEF SignalExit
<1>4. CASE Reread(o)
  <2>1. o \in asked /\ UNCHANGED <<status, asked>>
    BY <1>4 DEF Reread, ExitIInv, ExitInv
  <2>2. PICK label \in {"mark", "again"} :
          /\ SignalAt(o, label)
          /\ label = "mark" => status[o][1] # "CLOSED" /\ verdict' = [verdict EXCEPT ![o] = status[o]]
    BY <1>4, Pendings DEF Reread, Skipped
  <2>3. \A x \in Orders : x # o => verdict'[x] = verdict[x]
    BY <1>00, <1>4 DEF Reread
  <2> QED BY <1>0, <1>00, <2>1, <2>2, <2>3, SameStatusFits, SignalHands
<1>5. CASE MarkVerdict(o)
  <2>1. o \in asked /\ verdict[o][1] # "CLOSED"
    BY <1>5 DEF MarkVerdict, ExitIInv, ExitInv
  <2>2. StatusFits(o, Pend(verdict[o][1]), asked)
    BY <2>1, Pendings DEF StatusFits
  <2>3. UNCHANGED asked /\ (UNCHANGED status \/ status' = [status EXCEPT ![o] = Pend(verdict[o][1])])
    BY <1>5 DEF MarkVerdict
  <2>4. \A x \in Orders : StatusFits(x, status'[x], asked')
    BY <2>2, <2>3, OneStatusFits, SameStatusFits
  <2>5. \A x \in Orders : x # o => verdict'[x] = verdict[x]
    BY <1>00, <1>5 DEF MarkVerdict
  <2>6. PICK label \in {"top", "again"} : SignalAt(o, label)
    BY <1>5 DEF MarkVerdict
  <2> QED BY <1>0, <2>3, <2>4, <2>5, <2>6, SignalHands
<1>6. CASE ExitAgain(o)
  <2>1. SignalAt(o, "gone") /\ \A x \in Orders : x # o => verdict'[x] = verdict[x]
    BY <1>00, <1>6 DEF ExitAgain
  <2>2. CASE ExitOrder(o, FALSE, status[o])
    <3>1. /\ \A x \in Orders : StatusFits(x, status'[x], asked')
          /\ asked \cup {o} \subseteq asked'
      BY <2>2, ExitOrderFits DEF ExitIInv, ExitInv
    <3> QED BY <1>0, <2>1, <3>1, SignalHands
  <2>3. CASE ExitRaises(o, FALSE)
    BY <1>0, <2>1, <2>3, ExitRaisesFits, SignalHands
  <2> QED BY <1>6, <2>2, <2>3 DEF ExitAgain
<1> QED BY <1>1, <1>2, <1>3, <1>4, <1>5, <1>6 DEF SignalStep

LEMMA ExitEnvironment ==
  ASSUME ExitIInv, Market \/ Restart
  PROVE  ExitInv' /\ PendingAfterExit'
<1> USE DEF dbVars, loopVars
<1>1. CASE Tick \/ \E o \in Orders : Settle(o) \/ Poll(o)
  BY <1>1
  DEF Tick, Settle, Poll, priceVars, loopVars, signalVars, ExitIInv, ExitInv, PendingAfterExit
<1>2. ASSUME NEW o \in Orders, ManualExit(o)
      PROVE  ExitInv' /\ PendingAfterExit'
  <2>1. Pend("EXIT_MANUAL")[1] # "CLOSED"
    BY Pendings DEF Bases
  <2>2. /\ \A x \in Orders : StatusFits(x, status'[x], asked')
        /\ asked \subseteq asked'
    BY <1>2, <2>1, Pendings, ExitOrderFits DEF ManualExit
  <2>3. UNCHANGED <<price, row, signal, verdict>>
    BY <1>2 DEF ManualExit, priceVars, loopVars, signalVars
  <2> QED BY <2>2, <2>3 DEF StatusFits, ExitIInv, ExitInv, PendingAfterExit, IsPending
<1>3. CASE Restart
  BY <1>3 DEF Restart, FreshMonitors, ExitIInv, ExitInv, PendingAfterExit
<1> QED BY <1>1, <1>2, <1>3 DEF Market

LEMMA ExitStep ==
  ASSUME OrderMonitorConstants, ExitIInv, [Next]_monitorVars
  PROVE  ExitIInv'
<1>1. UNCHANGED monitorVars => ExitInv' /\ PendingAfterExit'
  BY DEF monitorVars, dbVars, priceVars, loopVars, signalVars, ExitIInv, ExitInv, PendingAfterExit
<1>2. ExitInv' /\ PendingAfterExit'
  BY <1>1, ExitPrice, ExitSignal, ExitEnvironment DEF Next
<1> QED BY <1>2, TypeStep DEF ExitIInv

\* In every interleaving of the two loops, the API, the parent's exit, faults and
\* restarts, an order is only said to be exiting, or closed with its parent, once
\* exit_order has been carried out for it (order_monitor.py:336-367, 1086-1140,
\* 2301-2345).
THEOREM ExitRequestedFirst == OrderMonitorConstants => (Spec => []PendingAfterExit)
<1> SUFFICES ASSUME OrderMonitorConstants PROVE Spec => []PendingAfterExit
  OBVIOUS
<1>1. OrderMonitorConstants /\ Init => ExitIInv
  BY ExitInit
<1>2. OrderMonitorConstants /\ ExitIInv /\ [Next]_monitorVars => ExitIInv'
  BY ExitStep
<1>3. ExitIInv => PendingAfterExit
  BY DEF ExitIInv
<1> QED BY <1>1, <1>2, <1>3, PTL DEF Spec

--------------------------------------------------------------------------------
(***************************************************************************)
(* No order is abandoned.  Each rule that breaks it has a switch: exits by *)
(* signal and through the API, delivery orders, which stop at 15:30 with   *)
(* their position open, a failing database, and the loss limit followed by *)
(* a restart, which does not know EXIT_MAX_LOSS_PENDING.                   *)
(***************************************************************************)
Undisturbed ==
  /\ ~DbFails /\ ~Manual /\ ~Delivery
  /\ Verdicts = {}
  /\ Restarts => Prices \cap {"loss", "both"} = {}

\* The exits that the monitors give an order, and a restart picks up again.
Reopenable ==
  IF Restarts THEN {"EXIT_STOPLOSS", "EXIT_REVERSAL", "EXIT_EOD", "EXIT_MANUAL"} ELSE Bases

\* A row, perhaps an old one, that says no more than is true of the order.
Honest(s, o) ==
  /\ IsPending(s) => s[1] \in Bases
  /\ Finished(s) => Finished(status[o])

\* What the two loops of the order have in hand: a loop only stops when the order
\* is finished, and works on a row that is honest.
WatchRuns(o) ==
  /\ running[o] \/ Finished(status[o])
  /\ ~running[o] => price[o] \in {"top", "gone"}
  /\ IsPending(status[o]) => status[o][1] \in Reopenable
  /\ signal[o] = "gone"

WatchRow(o) ==
  /\ price[o] = "complete" => row[o][1] \in Bases
  /\ price[o] \in {"clock", "sync", "decide"} => Honest(row[o], o)
  /\ price[o] \in {"rows", "orphans"} => Finished(status[o])

WatchCache(o) ==
  /\ cached[o] # NoRow => Honest(cached[o], o)
  /\ price[o] \in {"quote", "exit_price", "mark_price", "risk", "exit_loss", "mark_loss"}
       => cached[o] \in {NoRow, Plain("OPEN")}

WatchLoss(o) ==
  Restarts => price[o] \notin {"exit_loss", "mark_loss"} /\ quote[o] \notin {"loss", "both"}

Watched(o) == WatchRuns(o) /\ WatchRow(o) /\ WatchCache(o) /\ WatchLoss(o)

WatchIInv == TypeOK /\ \A o \in Orders : Watched(o)

LEMMA ExitNames ==
  /\ {"EXIT_STOPLOSS", "EXIT_MAX_LOSS", "EXIT_EOD"} \subseteq Bases
  /\ {"EXIT_STOPLOSS", "EXIT_EOD"} \subseteq Reopenable
  /\ ~Restarts => Reopenable = Bases
  /\ Reopenable \subseteq Bases
  /\ \A b \in Bases : b \notin {"OPEN", "AWAITING_ENTRY"} \cup DeadStatuses
  /\ \A d \in DeadStatuses : d \notin {"OPEN", "AWAITING_ENTRY"}
  BY DEF Bases, Reopenable, DeadStatuses

LEMMA FinishedNames ==
  /\ Finished(Plain("CLOSED")) /\ Finished(Plain("CANCELLED"))
  /\ ~Finished(Plain("OPEN"))
  /\ \A n : n \notin {"OPEN", "AWAITING_ENTRY"} => Finished(Plain(n))
  /\ \A s : s[1] \in Bases => Finished(Final(s))
  /\ \A n : ~Finished(Pend(n))
  BY Pendings, ExitNames DEF Finished

LEMMA PairOf ==
  ASSUME NEW N, NEW E, NEW s \in N \X E
  PROVE  s = <<s[1], s[2]>> /\ s[2] \in E
  OBVIOUS

\* A status without the suffix is its name.
LEMMA StatusIsName ==
  ASSUME NEW s \in Statuses
  PROVE  /\ ~IsPending(s) => s = Plain(s[1])
         /\ IsPending(s) => s = Pend(s[1])
<1>1. s = <<s[1], s[2]>> /\ s[2] \in {"", "_PENDING"}
  BY PairOf, Zenon DEF Statuses
<1>2. CASE s[2] = ""
  BY <1>1, <1>2, Zenon DEF Plain, IsPending
<1>3. CASE s[2] = "_PENDING"
  BY <1>1, <1>3, Zenon DEF Pend, IsPending
<1> QED BY <1>1, <1>2, <1>3, Zenon

LEMMA WatchInit == OrderMonitorConstants /\ Undisturbed /\ Init => WatchIInv
<1> SUFFICES ASSUME Undisturbed, NEW R \in SUBSET Orders, Placed(R), TypeOK, NEW o \in Orders
             PROVE Watched(o)
  BY TypeInit DEF Init, WatchIInv
<1>1. status[o] = Plain(IF o \in R THEN "REJECTED" ELSE "AWAITING_ENTRY")
  BY DEF Placed
<1>2. (running[o] <=> o \notin R) /\ price[o] = (IF o \in R THEN "gone" ELSE "top")
  BY DEF Placed
<1>3. cached[o] = NoRow /\ quote[o] = "none"
  BY DEF Placed
<1>4. signal[o] = "gone"
  <2>1. Verdicts = {}
    BY DEF Undisturbed
  <2> QED BY <2>1 DEF Placed
<1>5. ~IsPending(status[o]) /\ (o \in R => Finished(status[o]))
  BY <1>1, Pendings, FinishedNames
<1>6. WatchRuns(o)
  BY <1>2, <1>4, <1>5 DEF WatchRuns
<1>7. WatchRow(o) /\ WatchCache(o) /\ WatchLoss(o)
  BY <1>2, <1>3 DEF WatchRow, WatchCache, WatchLoss
<1> QED BY <1>6, <1>7 DEF Watched

\* The order of another monitor: a parent's exit may close it.
LEMMA OthersWatched ==
  ASSUME NEW x \in Orders, Watched(x), status'[x] \in {status[x], Plain("CLOSED")},
         running'[x] = running[x], price'[x] = price[x], row'[x] = row[x],
         cached'[x] = cached[x], quote'[x] = quote[x], signal'[x] = signal[x]
  PROVE  Watched(x)'
  BY Pendings, FinishedNames
  DEF Watched, WatchRuns, WatchRow, WatchCache, WatchLoss, Honest, Finished, IsPending

\* exit_order closes children and leaves the order alone.
LEMMA CloseWrites ==
  ASSUME NEW o \in Orders, NEW live, NEW own, TypeOK,
         ExitOrder(o, live, own)
  PROVE  /\ status'[o] = own
         /\ \A x \in Orders : x # o => status'[x] \in {status[x], Plain("CLOSED")}
<1>1. PICK D : /\ o \notin D
               /\ status' = [x \in Orders |-> IF x \in D THEN Plain("CLOSED")
                                              ELSE IF x = o THEN own ELSE status[x]]
  <2>1. PICK C : Close(o, C, live, own)
    BY DEF ExitOrder
  <2>2. PICK D \in Kept(C \ {o}) :
          status' = [x \in Orders |-> IF x \in D THEN Plain("CLOSED")
                                      ELSE IF x = o THEN own ELSE status[x]]
    BY <2>1 DEF Close
  <2> QED BY <2>2, KeptSubset
<1> QED BY <1>1

LEMMA ChildrenWrites ==
  ASSUME NEW o \in Orders, TypeOK, ExitChildOrders(o)
  PROVE  \A x \in Orders : status'[x] \in {status[x], Plain("CLOSED")}
<1>1. CASE UNCHANGED <<truth, held, dbVars, asked>>
  BY <1>1 DEF dbVars
<1>2. ASSUME NEW D, status' = [x \in Orders |-> IF x \in D THEN Plain("CLOSED") ELSE status[x]]
      PROVE  \A x \in Orders : status'[x] \in {status[x], Plain("CLOSED")}
  BY <1>2
<1> QED BY <1>1, <1>2 DEF ExitChildOrders

LEMMA WatchHead ==
  ASSUME OrderMonitorConstants, Undisturbed, TypeOK, NEW o \in Orders, Watched(o),
         \/ QuickCheck(o) \/ Complete(o) \/ CompleteRows(o) \/ Load(o) \/ CheckClock(o)
  PROVE  Watched(o)'
<1>0. /\ price \in [Orders -> PriceLabels] /\ status \in [Orders -> Statuses]
      /\ running \in [Orders -> BOOLEAN] /\ row \in [Orders -> Statuses \cup {NoRow}]
      /\ cached \in [Orders -> Statuses \cup {NoRow}] /\ quote \in [Orders -> Quotes]
  BY DEF TypeOK, DbType, SharedType, PriceType
<1> USE DEF dbVars, sharedVars, loopVars, signalVars
<1>1. CASE QuickCheck(o)
  <2>1. /\ UNCHANGED <<status, running, cached, quote, signal>>
        /\ \/ ~running[o] /\ price'[o] = "gone" /\ row'[o] = row[o]
           \/ running[o] /\ IsPending(status[o]) /\ price'[o] = "complete" /\ row'[o] = status[o]
           \/ running[o] /\ price'[o] = "load"
    BY <1>0, <1>1 DEF QuickCheck, PriceAt, Undisturbed
  <2> QED BY <2>1, ExitNames
          DEF Watched, WatchRuns, WatchRow, WatchCache, WatchLoss, Honest, Finished, IsPending
<1>2. CASE Complete(o)
  <2>1. /\ UNCHANGED <<running, row, quote, signal>>
        /\ status'[o] = Final(row[o]) /\ price'[o] = "rows" /\ cached'[o] = NoRow
        /\ row[o][1] \in Bases /\ running[o]
    BY <1>0, <1>2 DEF Complete, PriceAt, ClearCache, Undisturbed, Watched, WatchRow, WatchRuns
  <2>2. Finished(status'[o]) /\ ~IsPending(status'[o])
    BY <2>1, FinishedNames, Pendings
  <2> QED BY <2>1, <2>2
          DEF Watched, WatchRuns, WatchRow, WatchCache, WatchLoss, Honest, Finished, IsPending
<1>3. CASE CompleteRows(o)
  <2>1. /\ UNCHANGED <<status, row, quote, cached, signal>>
        /\ running'[o] = FALSE /\ price'[o] = "top" /\ Finished(status[o])
    BY <1>0, <1>3 DEF CompleteRows, PriceAt, Stop, Watched, WatchRow
  <2> QED BY <2>1
          DEF Watched, WatchRuns, WatchRow, WatchCache, WatchLoss, Honest, Finished, IsPending
<1>4. CASE Load(o)
  <2>1. /\ UNCHANGED <<status, running, quote, signal>> /\ running[o]
        /\ row'[o] = Lookup(o) /\ cached'[o] = Lookup(o) /\ price'[o] = "clock"
    BY <1>0, <1>4 DEF Load, PriceAt, FillCache, Undisturbed, Watched, WatchRuns
  <2>2. Honest(Lookup(o), o)
    BY <1>0, ExitNames DEF Lookup, Honest, Watched, WatchRuns, WatchCache
  <2> QED BY <2>1, <2>2
          DEF Watched, WatchRuns, WatchRow, WatchCache, WatchLoss, Honest, Finished, IsPending
<1>5. CASE CheckClock(o)
  <2>1. /\ UNCHANGED <<status, running, row, cached, quote, signal>> /\ running[o]
        /\ price'[o] \in {"square_off", "cancel", "sync"} /\ price[o] = "clock"
    BY <1>0, <1>5 DEF CheckClock, PriceAt, Undisturbed, StopDue, Watched, WatchRuns
  <2> QED BY <2>1
          DEF Watched, WatchRuns, WatchRow, WatchCache, WatchLoss, Honest, Finished, IsPending
<1> QED BY <1>1, <1>2, <1>3, <1>4, <1>5

LEMMA WatchExits ==
  ASSUME OrderMonitorConstants, Undisturbed, TypeOK, NEW o \in Orders, Watched(o),
         \/ SquareOff(o) \/ CancelAwaiting(o) \/ ExitOnPrice(o) \/ ExitOnLoss(o)
         \/ CloseOrphans(o)
  PROVE  /\ Watched(o)'
         /\ \A x \in Orders : x # o => status'[x] \in {status[x], Plain("CLOSED")}
<1>0. /\ price \in [Orders -> PriceLabels] /\ running \in [Orders -> BOOLEAN]
  BY DEF TypeOK, SharedType, PriceType
<1> USE DEF sharedVars, loopVars, signalVars
<1>1. CASE SquareOff(o) \/ CancelAwaiting(o) \/ ExitOnPrice(o) \/ ExitOnLoss(o)
  <2>1. /\ ExitOrder(o, FALSE, status[o])
        /\ UNCHANGED <<running, row, cached, quote, signal>>
        /\ \/ price[o] = "square_off" /\ price'[o] = "mark_eod"
           \/ price[o] = "cancel" /\ price'[o] = "mark_cancelled"
           \/ price[o] = "exit_price" /\ price'[o] = "mark_price"
           \/ price[o] = "exit_loss" /\ price'[o] = "mark_loss"
    BY <1>0, <1>1
    DEF SquareOff, CancelAwaiting, ExitOnPrice, ExitOnLoss, PriceAt, ExitRaises, Undisturbed
  <2>2. /\ status'[o] = status[o]
        /\ \A x \in Orders : x # o => status'[x] \in {status[x], Plain("CLOSED")}
    BY <2>1, CloseWrites
  <2>3. Watched(o)'
    BY <2>1, <2>2
    DEF Watched, WatchRuns, WatchRow, WatchCache, WatchLoss, Honest, Finished, IsPending
  <2> QED BY <2>2, <2>3
<1>2. CASE CloseOrphans(o)
  <2>1. /\ UNCHANGED <<row, cached, quote, signal>> /\ running'[o] = FALSE /\ price'[o] = "gone"
        /\ price[o] = "orphans"
    BY <1>0, <1>2 DEF CloseOrphans, PriceAt, Stop
  <2>2. \A x \in Orders : status'[x] \in {status[x], Plain("CLOSED")}
    BY <1>2, ChildrenWrites DEF CloseOrphans, dbVars
  <2>3. Finished(status[o])
    BY <2>1 DEF Watched, WatchRow
  <2>4. Finished(status'[o]) /\ ~IsPending(status'[o])
    BY <2>2, <2>3, FinishedNames DEF Finished
  <2>5. Watched(o)'
    BY <2>1, <2>4
    DEF Watched, WatchRuns, WatchRow, WatchCache, WatchLoss, Honest, Finished, IsPending
  <2> QED BY <2>2, <2>5
<1> QED BY <1>1, <1>2

LEMMA WatchMarks ==
  ASSUME OrderMonitorConstants, Undisturbed, TypeOK, NEW o \in Orders, Watched(o),
         \/ MarkEod(o) \/ MarkCancelled(o) \/ MarkPrice(o) \/ MarkLoss(o)
  PROVE  Watched(o)'
<1>0. /\ price \in [Orders -> PriceLabels] /\ status \in [Orders -> Statuses]
      /\ running \in [Orders -> BOOLEAN] /\ cached \in [Orders -> Statuses \cup {NoRow}]
  BY DEF TypeOK, DbType, SharedType, PriceType
<1> USE DEF sharedVars, loopVars, signalVars
<1>1. CASE MarkEod(o)
  <2>1. /\ UNCHANGED <<running, row, quote, signal>> /\ running[o]
        /\ status'[o] = Pend("EXIT_EOD") /\ price'[o] = "top" /\ cached'[o] = NoRow
    BY <1>0, <1>1 DEF MarkEod, PriceAt, ClearCache, Undisturbed, Watched, WatchRuns
  <2> QED BY <2>1, ExitNames, Pendings
          DEF Watched, WatchRuns, WatchRow, WatchCache, WatchLoss, Honest, Finished, IsPending
<1>2. CASE MarkCancelled(o)
  <2>1. /\ UNCHANGED <<row, quote, signal>>
        /\ status'[o] = Plain("CANCELLED") /\ price'[o] = "gone" /\ cached'[o] = NoRow
        /\ running'[o] = FALSE
    BY <1>0, <1>2 DEF MarkCancelled, PriceAt, ClearCache, Stop, Undisturbed
  <2>2. Finished(status'[o]) /\ ~IsPending(status'[o])
    BY <2>1, FinishedNames, Pendings
  <2> QED BY <2>1, <2>2
          DEF Watched, WatchRuns, WatchRow, WatchCache, WatchLoss, Honest, Finished, IsPending
<1>3. CASE MarkPrice(o)
  <2>1. /\ UNCHANGED <<running, row, quote, signal, cached>> /\ running[o]
        /\ status'[o] = Pend("EXIT_STOPLOSS") /\ price'[o] = "risk" /\ price[o] = "mark_price"
    BY <1>0, <1>3 DEF MarkPrice, PriceAt, Undisturbed, Watched, WatchRuns
  <2>2. cached[o] # NoRow => ~IsPending(cached[o]) /\ ~Finished(cached[o])
    BY <2>1, Pendings, FinishedNames DEF Watched, WatchCache
  <2> QED BY <2>1, <2>2, ExitNames, Pendings
          DEF Watched, WatchRuns, WatchRow, WatchCache, WatchLoss, Honest, Finished, IsPending
<1>4. CASE MarkLoss(o)
  <2>1. /\ UNCHANGED <<running, row, quote, signal>> /\ running[o] /\ ~Restarts
        /\ status'[o] = Pend("EXIT_MAX_LOSS") /\ price'[o] = "top" /\ cached'[o] = NoRow
    BY <1>0, <1>4 DEF MarkLoss, PriceAt, ClearCache, Undisturbed, Watched, WatchRuns, WatchLoss
  <2> QED BY <2>1, ExitNames, Pendings
          DEF Watched, WatchRuns, WatchRow, WatchCache, WatchLoss, Honest, Finished, IsPending
<1> QED BY <1>1, <1>2, <1>3, <1>4

LEMMA WatchRest ==
  ASSUME OrderMonitorConstants, Undisturbed, TypeOK, NEW o \in Orders, Watched(o),
         \/ SyncEntry(o) \/ Decide(o) \/ Refresh(o) \/ GetQuote(o) \/ CheckLoss(o)
  PROVE  Watched(o)'
<1>0. /\ price \in [Orders -> PriceLabels] /\ status \in [Orders -> Statuses]
      /\ running \in [Orders -> BOOLEAN] /\ row \in [Orders -> Statuses \cup {NoRow}]
      /\ cached \in [Orders -> Statuses \cup {NoRow}] /\ quote \in [Orders -> Quotes]
  BY DEF TypeOK, DbType, SharedType, PriceType
<1> USE DEF dbVars, sharedVars, loopVars, signalVars
<1>1. CASE SyncEntry(o)
  <2>1. /\ UNCHANGED <<status, running, row, cached, quote, signal>> /\ running[o]
        /\ price[o] = "sync" /\ price'[o] = "decide"
    BY <1>0, <1>1 DEF SyncEntry, PriceAt, Watched, WatchRuns
  <2> QED BY <2>1
          DEF Watched, WatchRuns, WatchRow, WatchCache, WatchLoss, Honest, Finished, IsPending
<1>2. CASE Decide(o)
  <2>0. /\ UNCHANGED <<running, row, quote, signal>> /\ running[o]
        /\ Honest(row[o], o)
    BY <1>0, <1>2 DEF Decide, Watched, WatchRuns, WatchRow
  <2>1. CASE UNCHANGED <<status, cached>> /\ price'[o] = "refresh"
    BY <2>0, <2>1
    DEF Watched, WatchRuns, WatchRow, WatchCache, WatchLoss, Honest, Finished, IsPending
  <2>2. CASE /\ UNCHANGED <<status, cached>> /\ Derived(o) = row[o]
             /\ Derived(o)[1] \in DeadStatuses /\ price'[o] = "orphans"
    <3>1. Finished(status[o])
      BY <2>0, <2>2, ExitNames DEF Honest, Finished
    <3> QED BY <2>0, <2>2, <3>1
            DEF Watched, WatchRuns, WatchRow, WatchCache, WatchLoss, Honest, Finished, IsPending
  <2>3. CASE /\ status'[o] = Derived(o) /\ cached'[o] = NoRow /\ Derived(o) # row[o]
             /\ price'[o] = IF Derived(o)[1] \in DeadStatuses THEN "orphans" ELSE "refresh"
    <3>1. status'[o] = Plain(MainStatus({seen[o]}))
      BY <2>3 DEF Derived
    <3>2. ~IsPending(status'[o])
      BY <3>1, Pendings
    <3>3. price'[o] = "orphans" => Finished(status'[o])
      BY <2>3, <3>1, <3>2, ExitNames DEF Finished
    <3> QED BY <2>0, <2>3, <3>2, <3>3
            DEF Watched, WatchRuns, WatchRow, WatchCache, WatchLoss, Honest, Finished, IsPending
  <2> QED BY <1>0, <1>2, <2>1, <2>2, <2>3 DEF Decide, PriceAt, ClearCache, Undisturbed
<1>3. CASE Refresh(o)
  <2>1. /\ UNCHANGED <<status, running, quote, signal>> /\ running[o]
        /\ row'[o] = status[o] /\ cached'[o] = status[o]
        /\ price'[o] = IF status[o] = Plain("OPEN") THEN "quote" ELSE "top"
    BY <1>0, <1>3 DEF Refresh, PriceAt, FillCache, Undisturbed, Watched, WatchRuns
  <2> QED BY <2>1, ExitNames
          DEF Watched, WatchRuns, WatchRow, WatchCache, WatchLoss, Honest, Finished, IsPending
<1>4. CASE GetQuote(o)
  <2>1. PICK q \in Prices :
        /\ UNCHANGED <<status, running, row, signal>> /\ running[o]
        /\ quote'[o] = q /\ price[o] = "quote" /\ price'[o] \in {"exit_price", "risk"}
        /\ cached'[o] = NoRow \/ cached'[o] = cached[o]
    BY <1>0, <1>4 DEF GetQuote, PriceAt, ClearCache, Watched, WatchRuns
  <2>2. Restarts => q \notin {"loss", "both"}
    BY DEF Undisturbed
  <2> QED BY <2>1, <2>2
          DEF Watched, WatchRuns, WatchRow, WatchCache, WatchLoss, Honest, Finished, IsPending
<1>5. CASE CheckLoss(o)
  <2>1. /\ UNCHANGED <<status, running, row, cached, signal>> /\ running[o]
        /\ quote'[o] = "none" /\ price[o] = "risk"
        /\ \/ price'[o] = "top"
           \/ price'[o] = "exit_loss" /\ quote[o] \in {"loss", "both"}
    BY <1>0, <1>5 DEF CheckLoss, PriceAt, Watched, WatchRuns
  <2> QED BY <2>1
          DEF Watched, WatchRuns, WatchRow, WatchCache, WatchLoss, Honest, Finished, IsPending
<1> QED BY <1>1, <1>2, <1>3, <1>4, <1>5

\* A step of the price loop of o leaves the loops of the other orders alone.
LEMMA OthersAside ==
  ASSUME TypeOK, NEW o \in Orders, PriceStep(o), NEW x \in Orders, x # o
  PROVE  /\ signal'[x] = signal[x] /\ price'[x] = price[x] /\ running'[x] = running[x]
         /\ row'[x] = row[x] /\ quote'[x] = quote[x] /\ cached'[x] = cached[x]
<1>0. /\ price \in [Orders -> PriceLabels] /\ running \in [Orders -> BOOLEAN]
      /\ row \in [Orders -> Statuses \cup {NoRow}] /\ quote \in [Orders -> Quotes]
      /\ cached \in [Orders -> Statuses \cup {NoRow}]
  BY DEF TypeOK, SharedType, PriceType
<1> USE DEF dbVars, sharedVars, loopVars, signalVars
<1>1. signal'[x] = signal[x]
  BY DEF PriceStep, QuickCheck, Complete, CompleteRows, Load, CheckClock, SquareOff,
         MarkEod, CancelAwaiting, MarkCancelled, SyncEntry, Decide, CloseOrphans, Refresh,
         GetQuote, ExitOnPrice, MarkPrice, CheckLoss, ExitOnLoss, MarkLoss
<1>2. price'[x] = price[x] /\ running'[x] = running[x]
  BY <1>0
  DEF PriceStep, QuickCheck, Complete, CompleteRows, Load, CheckClock, SquareOff,
      MarkEod, CancelAwaiting, MarkCancelled, SyncEntry, Decide, CloseOrphans, Refresh,
      GetQuote, ExitOnPrice, MarkPrice, CheckLoss, ExitOnLoss, MarkLoss, PriceAt, Stop,
      AfterSquareOff
<1>3. row'[x] = row[x] /\ quote'[x] = quote[x]
  BY <1>0
  DEF PriceStep, QuickCheck, Complete, CompleteRows, Load, CheckClock, SquareOff,
      MarkEod, CancelAwaiting, MarkCancelled, SyncEntry, Decide, CloseOrphans, Refresh,
      GetQuote, ExitOnPrice, MarkPrice, CheckLoss, ExitOnLoss, MarkLoss
<1>4. cached'[x] = cached[x]
  BY <1>0
  DEF PriceStep, QuickCheck, Complete, CompleteRows, Load, CheckClock, SquareOff,
      MarkEod, CancelAwaiting, MarkCancelled, SyncEntry, Decide, CloseOrphans, Refresh,
      GetQuote, ExitOnPrice, MarkPrice, CheckLoss, ExitOnLoss, MarkLoss, ClearCache, FillCache
<1> QED BY <1>1, <1>2, <1>3, <1>4

\* A step of the monitor of o: the others only lose their children to it.
LEMMA WatchPrice ==
  ASSUME OrderMonitorConstants, Undisturbed, WatchIInv, NEW o \in Orders, PriceStep(o)
  PROVE  \A x \in Orders : Watched(x)'
<1>0. /\ price \in [Orders -> PriceLabels] /\ status \in [Orders -> Statuses]
      /\ running \in [Orders -> BOOLEAN] /\ row \in [Orders -> Statuses \cup {NoRow}]
      /\ cached \in [Orders -> Statuses \cup {NoRow}] /\ quote \in [Orders -> Quotes]
  BY DEF WatchIInv, TypeOK, DbType, SharedType, PriceType
<1>1. TypeOK /\ Watched(o)
  BY DEF WatchIInv
<1>2. Watched(o)'
  BY <1>1, WatchHead, WatchExits, WatchMarks, WatchRest DEF PriceStep
<1> USE DEF dbVars, sharedVars, loopVars, signalVars
<1>3. ASSUME NEW x \in Orders, x # o
      PROVE  Watched(x)'
  <2>1. /\ signal'[x] = signal[x] /\ price'[x] = price[x] /\ running'[x] = running[x]
        /\ row'[x] = row[x] /\ quote'[x] = quote[x] /\ cached'[x] = cached[x]
    BY <1>1, <1>3, OthersAside
  <2>2. status'[x] \in {status[x], Plain("CLOSED")}
    <3>1. CASE \/ SquareOff(o) \/ CancelAwaiting(o) \/ ExitOnPrice(o) \/ ExitOnLoss(o)
               \/ CloseOrphans(o)
      BY <1>1, <1>3, <3>1, WatchExits
    <3>2. CASE ~\/ SquareOff(o) \/ CancelAwaiting(o) \/ ExitOnPrice(o) \/ ExitOnLoss(o)
                \/ CloseOrphans(o)
      BY <1>0, <1>3, <3>2
      DEF PriceStep, QuickCheck, Complete, CompleteRows, Load, CheckClock,
          MarkEod, MarkCancelled, SyncEntry, Decide, Refresh, GetQuote, MarkPrice,
          CheckLoss, MarkLoss
    <3> QED BY <3>1, <3>2
  <2> QED BY <2>1, <2>2, OthersWatched DEF WatchIInv
<1> QED BY <1>2, <1>3

LEMMA WatchEnvironment ==
  ASSUME OrderMonitorConstants, Undisturbed, WatchIInv, Market \/ Restart
  PROVE  \A x \in Orders : Watched(x)'
<1>1. CASE Market
  <2>1. UNCHANGED <<status, running, price, row, cached, quote, signal>>
    BY <1>1 DEF Market, Tick, Settle, Poll, ManualExit, Undisturbed, dbVars, sharedVars,
                priceVars, loopVars, signalVars
  <2> QED BY <2>1
          DEF WatchIInv, Watched, WatchRuns, WatchRow, WatchCache, WatchLoss, Honest, Finished, IsPending
<1>2. ASSUME Restart, NEW x \in Orders
      PROVE  Watched(x)'
  <2>1. UNCHANGED status /\ Restarts
    BY <1>2 DEF Restart, dbVars
  <2>2. (running'[x] <=> Reopened(status[x])) /\ price'[x] = (IF Reopened(status[x]) THEN "top" ELSE "gone")
    BY <1>2 DEF Restart, FreshMonitors
  <2>3. cached'[x] = NoRow /\ quote'[x] = "none"
    BY <1>2 DEF Restart, FreshMonitors
  <2>4. signal'[x] = "gone"
    <3>1. Verdicts = {}
      BY DEF Undisturbed
    <3> QED BY <1>2, <3>1 DEF Restart, FreshMonitors
  <2>5. ASSUME ~Finished(status[x]) PROVE Reopened(status[x])
    <3>1. CASE IsPending(status[x])
      <4>1. status[x] = Pend(status[x][1])
        BY <3>1, StatusIsName DEF WatchIInv, TypeOK, DbType
      <4>2. status[x][1] \in {"EXIT_STOPLOSS", "EXIT_REVERSAL", "EXIT_EOD", "EXIT_MANUAL"}
        BY <2>1, <3>1 DEF WatchIInv, Watched, WatchRuns, Reopenable
      <4> QED BY <4>1, <4>2 DEF Reopened
    <3>2. CASE ~IsPending(status[x])
      <4>1. status[x] = Plain(status[x][1])
        BY <3>2, StatusIsName DEF WatchIInv, TypeOK, DbType
      <4> QED BY <2>5, <3>2, <4>1 DEF Finished, Reopened
    <3> QED BY <3>1, <3>2
  <2>6. IsPending(status[x]) => status[x][1] \in Reopenable
    BY DEF WatchIInv, Watched, WatchRuns
  <2>7. WatchRuns(x)'
    BY <2>1, <2>2, <2>4, <2>5, <2>6 DEF WatchRuns, Finished, IsPending
  <2>8. WatchRow(x)' /\ WatchCache(x)' /\ WatchLoss(x)'
    BY <2>2, <2>3 DEF WatchRow, WatchCache, WatchLoss
  <2> QED BY <2>7, <2>8 DEF Watched
<1> QED BY <1>1, <1>2

LEMMA WatchStep ==
  ASSUME OrderMonitorConstants, Undisturbed, WatchIInv, [Next]_monitorVars
  PROVE  WatchIInv'
<1>1. UNCHANGED monitorVars => \A x \in Orders : Watched(x)'
  BY DEF monitorVars, dbVars, sharedVars, priceVars, loopVars, signalVars, WatchIInv, Watched,
         WatchRuns, WatchRow, WatchCache, WatchLoss, Honest, Finished, IsPending
<1>2. ASSUME NEW o \in Orders, SignalStep(o)
      PROVE  FALSE
  BY <1>2 DEF SignalStep, SignalRead, Evaluate, SignalExit, Reread, MarkVerdict, ExitAgain,
              WatchIInv, Watched, WatchRuns
<1>3. \A x \in Orders : Watched(x)'
  BY <1>1, <1>2, WatchPrice, WatchEnvironment DEF Next
<1> QED BY <1>3, TypeStep DEF WatchIInv

LEMMA WatchGoal == WatchIInv => NoneAbandoned
  BY DEF WatchIInv, Watched, WatchRuns, NoneAbandoned

\* Intraday orders whose exits come from the price, the loss limit and the clock
\* are followed until they are finished, whatever the brokers do, wherever the
\* process is restarted: a loop only ends over a finished order, and a restart
\* gives every other order a monitor (order_monitor.py:1822, db.py:2358).
THEOREM OrdersFollowed == OrderMonitorConstants /\ Undisturbed => (Spec => []NoneAbandoned)
<1> SUFFICES ASSUME OrderMonitorConstants /\ Undisturbed PROVE Spec => []NoneAbandoned
  OBVIOUS
<1>1. Init => WatchIInv
  BY WatchInit
<1>2. WatchIInv /\ [Next]_monitorVars => WatchIInv'
  BY WatchStep
<1> QED BY <1>1, <1>2, WatchGoal, PTL DEF Spec

--------------------------------------------------------------------------------
(***************************************************************************)
(* The EXIT rows of an exited order are completed before its loop ends.  A *)
(* restart between the two writes of the completion would leave them.      *)
(***************************************************************************)
Uninterrupted == Undisturbed /\ ~Restarts

\* The exit is complete, by the status of the order.
Ended(s) == s[1] \in Bases /\ ~IsPending(s)

\* The status comes first, then the rows, and then the loop is told to stop; no row
\* that the loop works on says so before.
Completed(o) ==
  /\ price[o] = "gone" => ~running[o]
  /\ Ended(status[o]) => price[o] = "rows" \/ (~running[o] /\ exitRow[o] # "PENDING")
  /\ cached[o] # NoRow => ~Ended(cached[o])
  /\ price[o] \in {"clock", "sync", "decide"} => ~Ended(row[o])

RowsIInv == WatchIInv /\ \A o \in Orders : Completed(o)

LEMMA EndedNames ==
  /\ \A n : ~Ended(Pend(n))
  /\ \A n : n \notin Bases => ~Ended(Plain(n))
  /\ \A n \in {"CLOSED", "CANCELLED", "REJECTED", "FAILED", "OPEN", "AWAITING_ENTRY", "NONE"} :
       n \notin Bases
  BY Pendings DEF Ended, Plain, Bases

\* What another monitor may do to an order is to close it, EXIT row and all.
Elsewhere(x) ==
  \/ status'[x] = Plain("CLOSED")
  \/ status'[x] = status[x] /\ exitRow'[x] = exitRow[x]

LEMMA OthersCompleted ==
  ASSUME NEW x \in Orders, Completed(x), Elsewhere(x),
         running'[x] = running[x], price'[x] = price[x], row'[x] = row[x],
         cached'[x] = cached[x]
  PROVE  Completed(x)'
<1>1. ~Ended(Plain("CLOSED"))
  BY EndedNames
<1> QED BY <1>1 DEF Completed, Elsewhere, Ended, IsPending

\* exit_order closes each child it asks to exit.
LEMMA CloseElsewhere ==
  ASSUME Undisturbed, NEW o \in Orders, NEW live, NEW own, TypeOK, ExitOrder(o, live, own)
  PROVE  \A x \in Orders : x # o => Elsewhere(x)
<1>0. status \in [Orders -> Statuses] /\ exitRow \in [Orders -> ExecStatuses \cup {"none"}]
  BY DEF TypeOK, DbType
<1>1. PICK C \in Kept(LiveChildren(o)) : Close(o, {o} \cup C, live, own)
  BY DEF ExitOrder
<1>2. C = LiveChildren(o)
  BY <1>1 DEF Kept, Undisturbed
<1>3. PICK D \in Kept(({o} \cup C) \ {o}) :
        /\ Unwind({o} \cup LiveChildren(o), {o} \cup C, live)
        /\ status' = [x \in Orders |-> IF x \in D THEN Plain("CLOSED")
                                       ELSE IF x = o THEN own ELSE status[x]]
  BY <1>1 DEF Close
<1>4. D = ({o} \cup C) \ {o}
  BY <1>3 DEF Kept, Undisturbed
<1>5. ASSUME NEW x \in Orders, x \notin {o} \cup LiveChildren(o)
      PROVE  exitRow'[x] = exitRow[x]
  BY <1>3, <1>5 DEF Unwind
<1> QED BY <1>2, <1>3, <1>4, <1>5 DEF Elsewhere

LEMMA ChildrenElsewhere ==
  ASSUME Undisturbed, NEW o \in Orders, TypeOK, ExitChildOrders(o)
  PROVE  \A x \in Orders : Elsewhere(x)
<1>1. PICK C \in Kept(LiveChildren(o)) : \E D \in Kept(C) :
        /\ Unwind(LiveChildren(o), C, TRUE)
        /\ status' = [x \in Orders |-> IF x \in D THEN Plain("CLOSED") ELSE status[x]]
  BY DEF ExitChildOrders, Undisturbed
<1>2. /\ Unwind(LiveChildren(o), C, TRUE)
      /\ status' = [x \in Orders |-> IF x \in LiveChildren(o) THEN Plain("CLOSED") ELSE status[x]]
  BY <1>1 DEF Kept, Undisturbed
<1>3. ASSUME NEW x \in Orders, x \notin LiveChildren(o)
      PROVE  exitRow'[x] = exitRow[x]
  BY <1>2, <1>3 DEF Unwind
<1> QED BY <1>2, <1>3 DEF Elsewhere

LEMMA CompletedHead ==
  ASSUME OrderMonitorConstants, Uninterrupted, WatchIInv, NEW o \in Orders, Completed(o),
         \/ QuickCheck(o) \/ Complete(o) \/ CompleteRows(o) \/ Load(o) \/ CheckClock(o)
  PROVE  Completed(o)'
<1>0. /\ price \in [Orders -> PriceLabels] /\ status \in [Orders -> Statuses]
      /\ running \in [Orders -> BOOLEAN] /\ row \in [Orders -> Statuses \cup {NoRow}]
      /\ cached \in [Orders -> Statuses \cup {NoRow}]
      /\ exitRow \in [Orders -> ExecStatuses \cup {"none"}]
  BY DEF WatchIInv, TypeOK, DbType, SharedType, PriceType
<1>a. ~running[o] => price[o] \in {"top", "gone"}
  BY DEF WatchIInv, Watched, WatchRuns
<1>b. ~DbFails /\ ~Delivery
  BY DEF Uninterrupted, Undisturbed
<1> USE DEF dbVars, sharedVars, loopVars, signalVars
<1>1. CASE QuickCheck(o)
  <2>1. /\ UNCHANGED <<status, exitRow, running, cached>> /\ price[o] = "top"
        /\ \/ ~running[o] /\ price'[o] = "gone"
           \/ running[o] /\ price'[o] \in {"complete", "load"}
    BY <1>0, <1>1, <1>b DEF QuickCheck, PriceAt
  <2> QED BY <2>1 DEF Completed, Ended, IsPending
<1>2. CASE Complete(o)
  <2>1. UNCHANGED <<running, exitRow>> /\ price'[o] = "rows" /\ cached'[o] = NoRow
    BY <1>0, <1>2, <1>b DEF Complete, PriceAt, ClearCache
  <2> QED BY <2>1 DEF Completed
<1>3. CASE CompleteRows(o)
  <2>1. UNCHANGED <<status, cached>> /\ running'[o] = FALSE /\ price'[o] = "top"
    BY <1>0, <1>3 DEF CompleteRows, PriceAt, Stop
  <2>2. exitRow'[o] # "PENDING"
    BY <1>0, <1>3, <1>b DEF CompleteRows
  <2> QED BY <2>1, <2>2 DEF Completed, Ended, IsPending
<1>4. CASE Load(o)
  <2>1. /\ UNCHANGED <<status, exitRow, running>> /\ price[o] = "load"
        /\ row'[o] = Lookup(o) /\ cached'[o] = Lookup(o) /\ price'[o] = "clock"
    BY <1>0, <1>4, <1>b DEF Load, PriceAt, FillCache
  <2>2. ~Ended(Lookup(o)) /\ ~Ended(status[o])
    BY <2>1, <1>a DEF Lookup, Completed
  <2> QED BY <2>1, <2>2, <1>a DEF Completed, Ended, IsPending
<1>5. CASE CheckClock(o)
  <2>1. /\ UNCHANGED <<status, exitRow, running, row, cached>>
        /\ price'[o] \in {"square_off", "cancel", "sync"} /\ price[o] = "clock"
    BY <1>0, <1>5, <1>b DEF CheckClock, PriceAt, StopDue
  <2> QED BY <2>1, <1>a DEF Completed, Ended, IsPending
<1> QED BY <1>1, <1>2, <1>3, <1>4, <1>5

LEMMA CompletedExits ==
  ASSUME OrderMonitorConstants, Uninterrupted, WatchIInv, NEW o \in Orders, Completed(o),
         \/ SquareOff(o) \/ CancelAwaiting(o) \/ ExitOnPrice(o) \/ ExitOnLoss(o)
         \/ CloseOrphans(o)
  PROVE  /\ Completed(o)'
         /\ \A x \in Orders : x # o => Elsewhere(x)
<1>0. /\ price \in [Orders -> PriceLabels] /\ running \in [Orders -> BOOLEAN]
      /\ TypeOK /\ status \in [Orders -> Statuses]
  BY DEF WatchIInv, TypeOK, DbType, SharedType, PriceType
<1>a. ~running[o] => price[o] \in {"top", "gone"}
  BY DEF WatchIInv, Watched, WatchRuns
<1>b. Undisturbed /\ ~DbFails
  BY DEF Uninterrupted, Undisturbed
<1> USE DEF sharedVars, loopVars, signalVars
<1>1. CASE SquareOff(o) \/ CancelAwaiting(o) \/ ExitOnPrice(o) \/ ExitOnLoss(o)
  <2>1. /\ ExitOrder(o, FALSE, status[o])
        /\ UNCHANGED <<running, row, cached>>
        /\ price[o] \in {"square_off", "cancel", "exit_price", "exit_loss"}
        /\ price'[o] \in {"mark_eod", "mark_cancelled", "mark_price", "mark_loss"}
    BY <1>0, <1>1, <1>b
    DEF SquareOff, CancelAwaiting, ExitOnPrice, ExitOnLoss, PriceAt, ExitRaises
  <2>2. status'[o] = status[o]
    BY <1>0, <2>1, CloseWrites
  <2>3. \A x \in Orders : x # o => Elsewhere(x)
    BY <1>0, <1>b, <2>1, CloseElsewhere
  <2>4. ~Ended(status[o])
    BY <2>1, <1>a DEF Completed
  <2>5. Completed(o)'
    BY <2>1, <2>2, <2>4 DEF Completed, Ended, IsPending
  <2> QED BY <2>3, <2>5
<1>2. CASE CloseOrphans(o)
  <2>1. /\ UNCHANGED <<row, cached>> /\ running'[o] = FALSE /\ price'[o] = "gone"
        /\ price[o] = "orphans"
    BY <1>0, <1>2 DEF CloseOrphans, PriceAt, Stop
  <2>2. \A x \in Orders : Elsewhere(x)
    <3>1. CASE UNCHANGED <<truth, held, dbVars, asked>>
      BY <3>1 DEF dbVars, Elsewhere
    <3>2. CASE ExitChildOrders(o)
      BY <1>0, <1>b, <3>2, ChildrenElsewhere
    <3> QED BY <1>2, <3>1, <3>2 DEF CloseOrphans
  <2>3. ~Ended(status[o])
    BY <2>1, <1>a DEF Completed
  <2>4. ~Ended(status'[o])
    BY <2>2, <2>3, EndedNames DEF Elsewhere
  <2>5. Completed(o)'
    BY <2>1, <2>4 DEF Completed, Ended, IsPending
  <2> QED BY <2>2, <2>5
<1> QED BY <1>1, <1>2

LEMMA CompletedMarks ==
  ASSUME OrderMonitorConstants, Uninterrupted, WatchIInv, NEW o \in Orders, Completed(o),
         \/ MarkEod(o) \/ MarkCancelled(o) \/ MarkPrice(o) \/ MarkLoss(o)
  PROVE  Completed(o)'
<1>0. /\ price \in [Orders -> PriceLabels] /\ status \in [Orders -> Statuses]
      /\ running \in [Orders -> BOOLEAN] /\ cached \in [Orders -> Statuses \cup {NoRow}]
  BY DEF WatchIInv, TypeOK, DbType, SharedType, PriceType
<1>b. ~DbFails
  BY DEF Uninterrupted, Undisturbed
<1> USE DEF sharedVars, loopVars, signalVars
<1>1. ~Ended(status'[o])
  <2>1. \/ \E b \in {"EXIT_EOD", "EXIT_STOPLOSS", "EXIT_MAX_LOSS"} : status'[o] = Pend(b)
        \/ status'[o] = Plain("CANCELLED")
    BY <1>0, <1>b DEF MarkEod, MarkCancelled, MarkPrice, MarkLoss
  <2> QED BY <2>1, EndedNames
<1>2. UNCHANGED row /\ price'[o] \in {"top", "gone", "risk"}
  BY <1>0, <1>b DEF MarkEod, MarkCancelled, MarkPrice, MarkLoss, PriceAt
<1>3. price'[o] = "gone" => ~running'[o]
  BY <1>0, <1>b DEF MarkEod, MarkCancelled, MarkPrice, MarkLoss, PriceAt, Stop
<1>4. cached'[o] = NoRow \/ cached'[o] = cached[o]
  BY <1>0, <1>b DEF MarkEod, MarkCancelled, MarkPrice, MarkLoss, ClearCache
<1> QED BY <1>1, <1>2, <1>3, <1>4 DEF Completed, Ended, IsPending

LEMMA CompletedRest ==
  ASSUME OrderMonitorConstants, Uninterrupted, WatchIInv, NEW o \in Orders, Completed(o),
         \/ SyncEntry(o) \/ Decide(o) \/ Refresh(o) \/ GetQuote(o) \/ CheckLoss(o)
  PROVE  Completed(o)'
<1>0. /\ price \in [Orders -> PriceLabels] /\ status \in [Orders -> Statuses]
      /\ running \in [Orders -> BOOLEAN] /\ row \in [Orders -> Statuses \cup {NoRow}]
      /\ cached \in [Orders -> Statuses \cup {NoRow}]
  BY DEF WatchIInv, TypeOK, DbType, SharedType, PriceType
<1>b. ~DbFails
  BY DEF Uninterrupted, Undisturbed
<1> USE DEF dbVars, sharedVars, loopVars, signalVars
<1>1. /\ price[o] \in {"sync", "decide", "refresh", "quote", "risk"}
      /\ price'[o] # "gone" /\ UNCHANGED <<running, exitRow>>
  BY <1>0, <1>b
  DEF SyncEntry, Decide, Refresh, GetQuote, CheckLoss, PriceAt
<1>2. ~Ended(status[o])
  <2>1. ~running[o] => price[o] \in {"top", "gone"}
    BY DEF WatchIInv, Watched, WatchRuns
  <2> QED BY <1>1, <2>1 DEF Completed
<1>3. ~Ended(status'[o])
  <2>1. CASE Decide(o) /\ status'[o] # status[o]
    <3>1. status'[o] = Derived(o) /\ Derived(o) # row[o]
      BY <1>0, <1>b, <2>1 DEF Decide
    <3>2. status'[o] = Plain(MainStatus({seen[o]}))
      BY <3>1 DEF Derived
    <3>3. PICK n \in {"OPEN", "AWAITING_ENTRY", "CANCELLED", "REJECTED", "FAILED", "NONE"} :
            status'[o] = Plain(n)
      BY <3>2, MainStatusType
    <3> QED BY <3>3, EndedNames
  <2>2. CASE status'[o] = status[o]
    BY <1>2, <2>2 DEF Ended, IsPending
  <2> QED BY <2>1, <2>2 DEF SyncEntry, Refresh, GetQuote, CheckLoss
<1>4. /\ cached'[o] \in {NoRow, cached[o], status[o]}
      /\ price'[o] \in {"clock", "sync", "decide"} => price[o] = "sync" /\ row'[o] = row[o]
  BY <1>0, <1>b
  DEF SyncEntry, Decide, Refresh, GetQuote, CheckLoss, PriceAt, ClearCache, FillCache
<1> QED BY <1>1, <1>2, <1>3, <1>4 DEF Completed, Ended, IsPending

LEMMA CompletedPrice ==
  ASSUME OrderMonitorConstants, Uninterrupted, RowsIInv, NEW o \in Orders, PriceStep(o)
  PROVE  \A x \in Orders : Completed(x)'
<1>0. /\ WatchIInv /\ TypeOK /\ \A x \in Orders : Completed(x)
      /\ status \in [Orders -> Statuses] /\ exitRow \in [Orders -> ExecStatuses \cup {"none"}]
  BY DEF RowsIInv, WatchIInv, TypeOK, DbType
<1>1. Completed(o)'
  BY <1>0, CompletedHead, CompletedExits, CompletedMarks, CompletedRest DEF PriceStep
<1>2. ASSUME NEW x \in Orders, x # o
      PROVE  Completed(x)'
  <2>1. /\ running'[x] = running[x] /\ price'[x] = price[x] /\ row'[x] = row[x]
        /\ cached'[x] = cached[x]
    BY <1>0, <1>2, OthersAside
  <2>2. Elsewhere(x)
    <3>1. CASE \/ SquareOff(o) \/ CancelAwaiting(o) \/ ExitOnPrice(o) \/ ExitOnLoss(o)
               \/ CloseOrphans(o)
      BY <1>0, <1>2, <3>1, CompletedExits
    <3>2. CASE ~\/ SquareOff(o) \/ CancelAwaiting(o) \/ ExitOnPrice(o) \/ ExitOnLoss(o)
                \/ CloseOrphans(o)
      BY <1>0, <1>2, <3>2
      DEF PriceStep, QuickCheck, Complete, CompleteRows, Load, CheckClock,
          MarkEod, MarkCancelled, SyncEntry, Decide, Refresh, GetQuote, MarkPrice,
          CheckLoss, MarkLoss, Elsewhere, dbVars
    <3> QED BY <3>1, <3>2
  <2> QED BY <1>0, <2>1, <2>2, OthersCompleted
<1> QED BY <1>1, <1>2

LEMMA RowsInit == OrderMonitorConstants /\ Uninterrupted /\ Init => RowsIInv
<1> SUFFICES ASSUME OrderMonitorConstants, Uninterrupted, NEW R \in SUBSET Orders, Placed(R),
                    WatchIInv, NEW o \in Orders
             PROVE  Completed(o)
  BY WatchInit DEF Init, RowsIInv, Uninterrupted
<1>1. /\ running[o] <=> o \notin R
      /\ price[o] = (IF o \in R THEN "gone" ELSE "top") /\ cached[o] = NoRow
  BY DEF Placed
<1>2. status[o] = Plain(IF o \in R THEN "REJECTED" ELSE "AWAITING_ENTRY")
  BY DEF Placed
<1>3. ~Ended(status[o])
  BY <1>2, EndedNames
<1> QED BY <1>1, <1>3 DEF Completed

LEMMA RowsStep ==
  ASSUME OrderMonitorConstants, Uninterrupted, RowsIInv, [Next]_monitorVars
  PROVE  RowsIInv'
<1>1. WatchIInv'
  BY WatchStep DEF RowsIInv, Uninterrupted
<1>2. CASE UNCHANGED monitorVars \/ Market
  <2>1. UNCHANGED <<status, exitRow, running, price, row, cached>>
    BY <1>2 DEF Market, Tick, Settle, Poll, ManualExit, Uninterrupted, Undisturbed, monitorVars,
                dbVars, sharedVars, priceVars, loopVars
  <2> QED BY <1>1, <2>1 DEF RowsIInv, Completed, Ended, IsPending
<1>3. ASSUME NEW o \in Orders, SignalStep(o)
      PROVE  FALSE
  BY <1>3 DEF SignalStep, SignalRead, Evaluate, SignalExit, Reread, MarkVerdict, ExitAgain,
              RowsIInv, WatchIInv, Watched, WatchRuns
<1>4. ~Restart
  BY DEF Restart, Uninterrupted
<1>5. ASSUME NEW o \in Orders, PriceStep(o)
      PROVE  \A x \in Orders : Completed(x)'
  BY <1>5, CompletedPrice
<1> QED BY <1>1, <1>2, <1>3, <1>4, <1>5 DEF Next, RowsIInv

LEMMA RowsGoal == RowsIInv => RowsCompleted
<1> SUFFICES ASSUME RowsIInv, NEW o \in Orders, price[o] = "gone", status[o][1] \in Bases
             PROVE  exitRow[o] # "PENDING"
  BY DEF RowsCompleted
<1>1. ~running[o] /\ Completed(o)
  BY DEF RowsIInv, Completed
<1>2. Finished(status[o])
  BY <1>1 DEF RowsIInv, WatchIInv, Watched, WatchRuns
<1> QED BY <1>1, <1>2 DEF Completed, Ended, Finished

\* As long as the process is not restarted, the loop of an exited order leaves no
\* EXIT row pending, for any intraday orders and hedges and whatever the brokers do
\* (order_monitor.py:1587).
THEOREM RowsGetCompleted == OrderMonitorConstants /\ Uninterrupted => (Spec => []RowsCompleted)
<1> SUFFICES ASSUME OrderMonitorConstants /\ Uninterrupted PROVE Spec => []RowsCompleted
  OBVIOUS
<1>1. Init => RowsIInv
  BY RowsInit
<1>2. RowsIInv /\ [Next]_monitorVars => RowsIInv'
  BY RowsStep
<1> QED BY <1>1, <1>2, RowsGoal, PTL DEF Spec

--------------------------------------------------------------------------------
(***************************************************************************)
(* Exits close positions: of delivery orders at Fyers, when neither the    *)
(* broker nor the database fails and no strategy asks for an exit.  (At    *)
(* the other brokers a resting order is not recognised as one; square-off  *)
(* goes by an entry row that may be behind the exchange.)                  *)
(***************************************************************************)
Obliging ==
  /\ Kind = "fyers"
  /\ Delivery /\ ~BrokerFails /\ ~DbFails
  /\ Verdicts = {}

\* No position is open, and none can be opened any more.
Flat(o) == ~held[o] /\ truth[o] \notin Cancellable

\* The ENTRY row says, for good, that the entry order was executed.
Entered(o) == entry[o] = "FILLED" /\ truth[o] = "FILLED" /\ listed[o] \in {"ABSENT", "FILLED"}

\* The statuses Fyers gives.
FyersRows == {"PENDING", "FILLED", "CANCELLED", "REJECTED"}

\* Where the loop has found the order open and looks at the market.
Exiting == {"quote", "exit_price", "mark_price", "risk", "exit_loss", "mark_loss"}

\* Neither square-off nor a signal asks for an exit.
HoldLoops(o) ==
  /\ price[o] \notin {"square_off", "mark_eod"}
  /\ signal[o] = "gone"

\* What is known of the entry order is true of it, and not newer than the row.
HoldEntry(o) ==
  /\ held[o] => truth[o] = "FILLED"
  /\ listed[o] = "FILLED" => truth[o] = "FILLED"
  /\ entry[o] \in FyersRows
  /\ entry[o] = "FILLED" => truth[o] = "FILLED"
  /\ lastEntry[o] \in FyersRows \cup {"UNKNOWN"}
  /\ seen[o] \in FyersRows \cup {"UNKNOWN"}
  /\ "FILLED" \in {lastEntry[o], seen[o]} => entry[o] = "FILLED"
  /\ price[o] \in {"clock", "sync", "decide"} => seen[o] # "UNKNOWN"
  /\ price[o] = "decide" /\ seen[o] = "FILLED" => Entered(o)

\* An open order was entered, and a loop that is about to exit it knows that.
HoldOpen(o) ==
  /\ status[o] = Plain("OPEN") =>
       Entered(o) /\ (price[o] \in {"clock", "sync", "decide"} => seen[o] = "FILLED")
  /\ price[o] \in Exiting => Entered(o)

\* An exit status is only given, and completed, over a position that is closed.
HoldExit(o) ==
  /\ IsPending(status[o]) => status[o][1] \in Bases
  /\ status[o][1] \in Bases => Flat(o)
  /\ price[o] \in {"mark_price", "mark_loss", "complete"} => Flat(o)
  /\ price[o] = "complete" => row[o][1] \in Bases

HoldsTrue(o) == HoldLoops(o) /\ HoldEntry(o) /\ HoldOpen(o) /\ HoldExit(o)

HoldIInv == TypeOK /\ \A o \in Orders : HoldsTrue(o)

LEMMA FyersFacts ==
  /\ \A t \in Truths : /\ View("fyers", t) \in FyersRows /\ Synced("fyers", t) \in FyersRows
                       /\ View("fyers", t) = "FILLED" <=> t = "FILLED"
                       /\ Synced("fyers", t) = "FILLED" <=> t = "FILLED"
                       /\ t \in Cancellable => View("fyers", t) = "PENDING"
  /\ \A s : Renormalised("fyers", s) = s
  /\ \A s \in FyersRows : Standardized("fyers", s) = s
  BY FyersView DEF Synced, Renormalised, Standardized, FyersRows, Truths, Cancellable, DoneTruths

LEMMA MainFacts ==
  /\ \A s \in FyersRows : MainStatus({s}) = "OPEN" => s = "FILLED"
  /\ \A s : MainStatus({s}) \notin Bases
<1>1. \A s \in FyersRows : MainStatus({s}) = "OPEN" => s = "FILLED"
  <2> SUFFICES ASSUME NEW s \in FyersRows, s # "FILLED" PROVE MainStatus({s}) # "OPEN"
    OBVIOUS
  <2>1. {s} \cap {"FILLED", "PARTIALLY_FILLED", "OPEN"} = {}
    BY DEF FyersRows
  <2> QED BY <2>1 DEF MainStatus
<1>2. \A s : MainStatus({s}) \notin Bases
  BY MainStatusType DEF Bases
<1> QED BY <1>1, <1>2

\* What an exit, or any step but those of the loop of x, does to the order x: a
\* position is only closed, an entry order only cancelled, a row only brought up
\* to date.
Fades(x) ==
  /\ held'[x] => held[x]
  /\ \/ truth'[x] = truth[x]
     \/ truth[x] \in Cancellable /\ truth'[x] = "CANCELLED"
  /\ entry'[x] \in FyersRows
  /\ entry'[x] = "FILLED" => truth'[x] = "FILLED"
  /\ entry[x] = "FILLED" => entry'[x] = "FILLED"

StatusHolds(x) ==
  /\ IsPending(status'[x]) => status'[x][1] \in Bases
  /\ status'[x][1] \in Bases => Flat(x)'

LEMMA CancellableFacts ==
  /\ "FILLED" \notin Cancellable /\ "CANCELLED" \notin Cancellable /\ "RESTING" \in Cancellable
  BY DEF Cancellable, DoneTruths, Truths

LEMMA FlatFades ==
  ASSUME NEW x, Fades(x), Flat(x)
  PROVE  Flat(x)'
  BY CancellableFacts DEF Fades, Flat

LEMMA StillFades ==
  ASSUME NEW x, HoldEntry(x), held'[x] = held[x], truth'[x] = truth[x], entry'[x] = entry[x]
  PROVE  Fades(x)
  BY DEF Fades, HoldEntry

LEMMA UnwindHolds ==
  ASSUME Obliging, HoldIInv, NEW T \in SUBSET Orders, NEW C, NEW live \in BOOLEAN,
         Unwind(T, C, live)
  PROVE  /\ \A x \in Orders : Fades(x)
         /\ \A x \in T : live \/ entry[x] = "FILLED" => Flat(x)'
<1> DEFINE st == [x \in T |-> IF live THEN View(Kind, truth[x]) ELSE entry[x]]
           cancelled == {x \in T : /\ st[x] \in {"AWAITING_ENTRY", "PENDING", "TRIGGER_PENDING"}
                                   /\ truth[x] \in Cancellable}
<1>1. /\ held' = [x \in Orders |-> IF x \in T /\ st[x] = "FILLED" THEN FALSE ELSE held[x]]
      /\ truth' = [x \in Orders |-> IF x \in cancelled THEN "CANCELLED" ELSE truth[x]]
      /\ entry' = [x \in Orders |-> IF x \in cancelled THEN "CANCELLED"
                                    ELSE IF x \in T THEN st[x] ELSE entry[x]]
  <2> DEFINE said(S) == [x \in T |-> IF live /\ x \in S THEN View(Kind, truth[x]) ELSE entry[x]]
             gone(S) == {x \in S : /\ said(S)[x] \in {"AWAITING_ENTRY", "PENDING", "TRIGGER_PENDING"}
                                   /\ truth[x] \in Cancellable}
  <2>1. \E S \in {T} :
          /\ held' = [x \in Orders |-> IF x \in S /\ said(S)[x] = "FILLED" THEN FALSE ELSE held[x]]
          /\ truth' = [x \in Orders |-> IF x \in gone(S) THEN "CANCELLED" ELSE truth[x]]
          /\ entry' = [x \in Orders |-> IF x \in gone(S) THEN "CANCELLED"
                                        ELSE IF x \in T THEN said(S)[x] ELSE entry[x]]
    BY DEF Unwind, Obliging
  <2>2. said(T) = st
    OBVIOUS
  <2>3. gone(T) = cancelled
    BY <2>2
  <2> HIDE DEF st, cancelled, said, gone
  <2> QED BY <2>1, <2>2, <2>3
<1>2. \A x \in T : /\ st[x] \in FyersRows
                   /\ st[x] = "FILLED" => truth[x] = "FILLED"
                   /\ entry[x] = "FILLED" => st[x] = "FILLED"
                   /\ live /\ truth[x] \in Cancellable => st[x] = "PENDING"
                   /\ live /\ truth[x] = "FILLED" => st[x] = "FILLED"
  <2> TAKE x \in T
  <2>1. truth[x] \in Truths /\ Kind = "fyers" /\ HoldEntry(x)
    BY DEF Obliging, HoldIInv, HoldsTrue, TypeOK, MarketType
  <2>2. CASE live
    BY <2>1, <2>2, FyersFacts DEF HoldEntry
  <2>3. CASE ~live
    BY <2>1, <2>3 DEF HoldEntry
  <2> QED BY <2>2, <2>3
<1>3. \A x \in Orders : /\ x \in cancelled => truth[x] \in Cancellable
                        /\ x \in cancelled => x \in T
                        /\ x \in T /\ st[x] = "PENDING" /\ truth[x] \in Cancellable => x \in cancelled
  OBVIOUS
<1> HIDE DEF st, cancelled
<1>4. ASSUME NEW x \in Orders
      PROVE  Fades(x)
  <2>0. HoldEntry(x)
    BY DEF HoldIInv, HoldsTrue
  <2>1. held'[x] => held[x]
    BY <1>1
  <2>2. CASE x \in cancelled
    BY <1>1, <1>3, <2>0, <2>1, <2>2, CancellableFacts DEF Fades, HoldEntry, FyersRows
  <2>3. CASE x \notin cancelled /\ x \in T
    BY <1>1, <1>2, <2>1, <2>3 DEF Fades
  <2>4. CASE x \notin cancelled /\ x \notin T
    BY <1>1, <2>0, <2>1, <2>4 DEF Fades, HoldEntry
  <2> QED BY <2>2, <2>3, <2>4
<1>5. ASSUME NEW x \in T, live \/ entry[x] = "FILLED"
      PROVE  Flat(x)'
  <2>0. HoldEntry(x)
    BY DEF HoldIInv, HoldsTrue
  <2>1. CASE truth[x] = "FILLED"
    <3>1. st[x] = "FILLED" /\ x \notin cancelled
      BY <1>2, <1>3, <1>5, <2>1, CancellableFacts
    <3> QED BY <1>1, <2>1, <3>1, CancellableFacts DEF Flat
  <2>2. CASE truth[x] # "FILLED"
    <3>1. ~held[x] /\ live
      BY <1>5, <2>0, <2>2 DEF HoldEntry
    <3>2. truth[x] \in Cancellable => x \in cancelled
      BY <1>2, <1>3, <3>1
    <3> QED BY <1>1, <3>1, <3>2, CancellableFacts DEF Flat
  <2> QED BY <2>1, <2>2
<1> QED BY <1>4, <1>5

\* An order whose loop does not move.
LEMMA HoldKept ==
  ASSUME NEW x \in Orders, HoldsTrue(x), Fades(x), StatusHolds(x),
         status'[x] = Plain("OPEN") => status[x] = Plain("OPEN"),
         listed'[x] = listed[x], price'[x] = price[x], row'[x] = row[x],
         seen'[x] = seen[x], lastEntry'[x] = lastEntry[x], signal'[x] = signal[x]
  PROVE  HoldsTrue(x)'
<1>1. Entered(x) => Entered(x)'
  BY CancellableFacts DEF Entered, Fades
<1>2. HoldLoops(x)' /\ HoldOpen(x)'
  BY <1>1 DEF HoldsTrue, HoldLoops, HoldOpen
<1>3. HoldEntry(x)'
  BY <1>1, CancellableFacts DEF HoldsTrue, HoldEntry, Fades
<1>4. HoldExit(x)'
  BY FlatFades DEF HoldsTrue, HoldExit, StatusHolds, IsPending
<1> QED BY <1>2, <1>3, <1>4 DEF HoldsTrue

\* An order whose loop moves, to a place where it has no fresh row in hand.
LEMMA HoldMoves ==
  ASSUME NEW o \in Orders, HoldsTrue(o), Fades(o), StatusHolds(o),
         status'[o] = Plain("OPEN") => Entered(o),
         listed'[o] = listed[o], seen'[o] \in {seen[o], "UNKNOWN"},
         lastEntry'[o] = lastEntry[o], signal'[o] = signal[o],
         price'[o] \notin {"square_off", "mark_eod", "clock", "sync", "decide"},
         price'[o] \in Exiting => Entered(o),
         price'[o] \in {"mark_price", "mark_loss", "complete"} => Flat(o)',
         price'[o] = "complete" => row'[o][1] \in Bases
  PROVE  HoldsTrue(o)'
<1>1. Entered(o) => Entered(o)'
  BY CancellableFacts DEF Entered, Fades
<1>2. HoldLoops(o)' /\ HoldOpen(o)'
  BY <1>1 DEF HoldsTrue, HoldLoops, HoldOpen
<1>3. HoldEntry(o)'
  BY CancellableFacts DEF HoldsTrue, HoldEntry, Fades
<1>4. HoldExit(o)'
  BY DEF HoldExit, StatusHolds, IsPending
<1> QED BY <1>2, <1>3, <1>4 DEF HoldsTrue

LEMMA StatusKept ==
  ASSUME NEW x, HoldsTrue(x), Fades(x), status'[x] \in {status[x], Plain("CLOSED")}
  PROVE  /\ StatusHolds(x)
         /\ status'[x] = Plain("OPEN") => status[x] = Plain("OPEN")
<1>1. CASE status'[x] = status[x]
  BY <1>1, FlatFades DEF StatusHolds, HoldsTrue, HoldExit, IsPending
<1>2. CASE status'[x] = Plain("CLOSED")
  BY <1>2, Pendings DEF StatusHolds, IsPending
<1> QED BY <1>1, <1>2

\* exit_order: what it leaves of every order, and of its own.
LEMMA ExitHolds ==
  ASSUME Obliging, HoldIInv, NEW o \in Orders, NEW live \in BOOLEAN, NEW own,
         ExitOrder(o, live, own)
  PROVE  /\ \A x \in Orders : Fades(x)
         /\ live \/ entry[o] = "FILLED" => Flat(o)'
<1>1. PICK C : Close(o, C, live, own)
  BY DEF ExitOrder
<1>2. Unwind({o} \cup LiveChildren(o), C, live)
  BY <1>1 DEF Close
<1>3. PICK T \in SUBSET Orders : T = {o} \cup LiveChildren(o)
  BY DEF LiveChildren
<1>4. Unwind(T, C, live) /\ o \in T
  BY <1>2, <1>3
<1> QED BY <1>4, UnwindHolds

LEMMA ChildrenHold ==
  ASSUME Obliging, HoldIInv, NEW o \in Orders, ExitChildOrders(o)
  PROVE  \A x \in Orders : Fades(x)
<1>1. PICK C : Unwind(LiveChildren(o), C, TRUE)
  BY DEF ExitChildOrders, Obliging
<1>2. LiveChildren(o) \in SUBSET Orders
  BY DEF LiveChildren
<1> QED BY <1>1, <1>2, UnwindHolds

LEMMA HoldInit == OrderMonitorConstants /\ Obliging /\ Init => HoldIInv
<1> SUFFICES ASSUME Obliging, NEW R \in SUBSET Orders, Placed(R), TypeOK, NEW o \in Orders
             PROVE HoldsTrue(o)
  BY TypeInit DEF Init, HoldIInv
<1>1. status[o] = Plain(IF o \in R THEN "REJECTED" ELSE "AWAITING_ENTRY")
  BY DEF Placed
<1>2. /\ price[o] = (IF o \in R THEN "gone" ELSE "top")
      /\ truth[o] = (IF o \in R THEN "REJECTED" ELSE "RESTING")
      /\ listed[o] = (IF o \in R THEN "REJECTED" ELSE "ABSENT")
      /\ entry[o] = (IF o \in R THEN "REJECTED" ELSE "PENDING")
  BY DEF Placed
<1>3. lastEntry[o] = "UNKNOWN" /\ seen[o] = "UNKNOWN" /\ ~held[o]
  BY DEF Placed
<1>4. signal[o] = "gone"
  <2>1. Verdicts = {}
    BY DEF Obliging
  <2> QED BY <2>1 DEF Placed
<1>5. ~IsPending(status[o]) /\ status[o][1] \notin Bases /\ status[o] # Plain("OPEN")
  BY <1>1, Pendings DEF Bases
<1>6. HoldLoops(o) /\ HoldOpen(o) /\ HoldExit(o)
  BY <1>2, <1>4, <1>5 DEF HoldLoops, HoldOpen, HoldExit, Exiting
<1>7. HoldEntry(o)
  BY <1>2, <1>3 DEF HoldEntry, FyersRows
<1> QED BY <1>6, <1>7 DEF HoldsTrue

\* The types a step of the loops needs.
LEMMA HoldTypes ==
  ASSUME HoldIInv
  PROVE  /\ price \in [Orders -> PriceLabels] /\ status \in [Orders -> Statuses]
         /\ row \in [Orders -> Statuses \cup {NoRow}]
         /\ seen \in [Orders -> ExecStatuses] /\ lastEntry \in [Orders -> ExecStatuses]
         /\ entry \in [Orders -> ExecStatuses] /\ held \in [Orders -> BOOLEAN]
         /\ truth \in [Orders -> Truths] /\ listed \in [Orders -> Truths \cup {"ABSENT"}]
  BY DEF HoldIInv, TypeOK, MarketType, DbType, PriceType

LEMMA HoldHead ==
  ASSUME OrderMonitorConstants, Obliging, HoldIInv, NEW o \in Orders,
         \/ QuickCheck(o) \/ Complete(o) \/ CompleteRows(o) \/ Load(o) \/ CheckClock(o)
  PROVE  HoldsTrue(o)'
<1>0. HoldsTrue(o)
  BY DEF HoldIInv
<1> USE HoldTypes DEF marketVars, dbVars, sharedVars, loopVars, signalVars
<1>00. (UNCHANGED <<held, truth, entry>> => Fades(o))
  BY <1>0, StillFades DEF HoldsTrue
<1>1. CASE QuickCheck(o)
  <2>1. /\ UNCHANGED <<held, truth, entry, listed, status, seen, lastEntry, signal>>
        /\ \/ price'[o] \in {"gone", "load"}
           \/ IsPending(status[o]) /\ price'[o] = "complete" /\ row'[o] = status[o]
    BY <1>1 DEF QuickCheck, PriceAt
  <2>2. price'[o] = "complete" => row'[o][1] \in Bases /\ Flat(o)
    BY <1>0, <2>1 DEF HoldsTrue, HoldExit
  <2>3. Fades(o) /\ StatusHolds(o) /\ (status'[o] = Plain("OPEN") => Entered(o))
    BY <1>0, <1>00, <2>1, StatusKept DEF HoldsTrue, HoldOpen
  <2> QED BY <1>0, <2>1, <2>2, <2>3, FlatFades, HoldMoves DEF Exiting
<1>2. CASE Complete(o)
  <2>1. /\ UNCHANGED <<held, truth, entry, listed, seen, lastEntry, signal>>
        /\ status'[o] = Final(row[o]) /\ price'[o] = "rows" /\ price[o] = "complete"
    BY <1>2 DEF Complete, PriceAt, Obliging
  <2>2. row[o][1] \in Bases /\ Flat(o) /\ Fades(o)
    BY <1>0, <1>00, <2>1 DEF HoldsTrue, HoldExit
  <2>3. StatusHolds(o) /\ status'[o] # Plain("OPEN")
    BY <2>1, <2>2, FlatFades, Pendings, ExitNames DEF StatusHolds, IsPending
  <2> QED BY <1>0, <2>1, <2>2, <2>3, HoldMoves DEF Exiting
<1>3. CASE CompleteRows(o)
  <2>1. /\ UNCHANGED <<held, truth, entry, listed, status, seen, lastEntry, signal>>
        /\ price'[o] = "top"
    BY <1>3 DEF CompleteRows, PriceAt
  <2>3. Fades(o) /\ StatusHolds(o) /\ (status'[o] = Plain("OPEN") => Entered(o))
    BY <1>0, <1>00, <2>1, StatusKept DEF HoldsTrue, HoldOpen
  <2> QED BY <1>0, <2>1, <2>3, HoldMoves DEF Exiting
<1>4. CASE Load(o)
  <2>1. /\ UNCHANGED <<held, truth, entry, listed, status, signal>>
        /\ price'[o] = "clock"
        /\ seen'[o] = Standardized(Kind, entry[o])
        /\ lastEntry'[o] \in {lastEntry[o], Standardized(Kind, entry[o])}
    BY <1>4 DEF Load, PriceAt, Obliging
  <2>2. Standardized(Kind, entry[o]) = entry[o]
    BY <1>0, FyersFacts DEF HoldsTrue, HoldEntry, Obliging
  <2>3. HoldEntry(o)'
    BY <1>0, <2>1, <2>2 DEF HoldsTrue, HoldEntry, FyersRows
  <2>4. HoldLoops(o)' /\ HoldOpen(o)'
    BY <1>0, <2>1, <2>2 DEF HoldsTrue, HoldLoops, HoldOpen, Entered, Exiting
  <2>5. HoldExit(o)'
    BY <1>0, <2>1 DEF HoldsTrue, HoldExit, IsPending, Flat
  <2> QED BY <2>3, <2>4, <2>5 DEF HoldsTrue
<1>5. CASE CheckClock(o)
  <2>1. /\ UNCHANGED <<held, truth, entry, listed, status, row, seen, lastEntry, signal>>
        /\ price[o] = "clock" /\ price'[o] \in {"gone", "cancel", "sync"}
    BY <1>5 DEF CheckClock, PriceAt, SquareOffDue, Obliging
  <2>2. HoldEntry(o)' /\ HoldLoops(o)'
    BY <1>0, <2>1 DEF HoldsTrue, HoldEntry, HoldLoops
  <2>3. HoldOpen(o)' /\ HoldExit(o)'
    BY <1>0, <2>1 DEF HoldsTrue, HoldOpen, HoldExit, Entered, Exiting, IsPending, Flat
  <2> QED BY <2>2, <2>3 DEF HoldsTrue
<1> QED BY <1>1, <1>2, <1>3, <1>4, <1>5

LEMMA HoldExits ==
  ASSUME OrderMonitorConstants, Obliging, HoldIInv, NEW o \in Orders,
         \/ CancelAwaiting(o) \/ ExitOnPrice(o) \/ ExitOnLoss(o) \/ CloseOrphans(o)
  PROVE  /\ HoldsTrue(o)'
         /\ \A x \in Orders : Fades(x) /\ status'[x] \in {status[x], Plain("CLOSED")}
<1>0. HoldsTrue(o) /\ TypeOK
  BY DEF HoldIInv
<1> USE HoldTypes DEF dbVars, sharedVars, loopVars, signalVars
<1>1. CASE CancelAwaiting(o) \/ ExitOnPrice(o) \/ ExitOnLoss(o)
  <2>1. /\ ExitOrder(o, FALSE, status[o])
        /\ UNCHANGED <<listed, row, seen, lastEntry, signal>>
        /\ \/ price'[o] = "mark_cancelled"
           \/ price[o] = "exit_price" /\ price'[o] = "mark_price"
           \/ price[o] = "exit_loss" /\ price'[o] = "mark_loss"
    BY <1>1 DEF CancelAwaiting, ExitOnPrice, ExitOnLoss, PriceAt, ExitRaises, Obliging
  <2>2. /\ \A x \in Orders : Fades(x)
        /\ entry[o] = "FILLED" => Flat(o)'
    BY <2>1, ExitHolds
  <2>3. \A x \in Orders : status'[x] \in {status[x], Plain("CLOSED")}
    BY <1>0, <2>1, CloseWrites
  <2>4. StatusHolds(o) /\ (status'[o] = Plain("OPEN") => Entered(o))
    BY <1>0, <2>2, <2>3, StatusKept DEF HoldsTrue, HoldOpen
  <2>5. price'[o] \in Exiting => Entered(o)
    BY <1>0, <2>1 DEF HoldsTrue, HoldOpen, Exiting
  <2>6. price'[o] \in {"mark_price", "mark_loss"} => Flat(o)'
    BY <2>1, <2>2, <2>5 DEF Exiting, Entered
  <2>7. HoldsTrue(o)'
    BY <1>0, <2>1, <2>2, <2>4, <2>5, <2>6, HoldMoves
  <2> QED BY <2>2, <2>3, <2>7
<1>2. CASE CloseOrphans(o)
  <2>1. UNCHANGED <<listed, row, seen, lastEntry, signal>> /\ price'[o] = "gone"
    BY <1>2 DEF CloseOrphans, PriceAt
  <2>2. UNCHANGED <<truth, held, dbVars, asked>> => \A x \in Orders : Fades(x)
    BY StillFades DEF HoldIInv, HoldsTrue
  <2>3. \A x \in Orders : Fades(x) /\ status'[x] \in {status[x], Plain("CLOSED")}
    BY <1>0, <1>2, <2>2, ChildrenHold, ChildrenWrites DEF CloseOrphans
  <2>4. StatusHolds(o) /\ (status'[o] = Plain("OPEN") => Entered(o))
    BY <1>0, <2>3, StatusKept DEF HoldsTrue, HoldOpen
  <2>5. HoldsTrue(o)'
    BY <1>0, <2>1, <2>3, <2>4, HoldMoves DEF Exiting
  <2> QED BY <2>3, <2>5
<1> QED BY <1>1, <1>2

LEMMA HoldMarks ==
  ASSUME OrderMonitorConstants, Obliging, HoldIInv, NEW o \in Orders,
         \/ SquareOff(o) \/ MarkEod(o) \/ MarkCancelled(o) \/ MarkPrice(o) \/ MarkLoss(o)
  PROVE  HoldsTrue(o)'
<1>0. HoldsTrue(o)
  BY DEF HoldIInv
<1> USE HoldTypes DEF marketVars, dbVars, sharedVars, loopVars, signalVars
<1>00. (UNCHANGED <<held, truth, entry>> => Fades(o))
  BY <1>0, StillFades DEF HoldsTrue
<1>1. CASE SquareOff(o) \/ MarkEod(o)
  BY <1>0, <1>1 DEF SquareOff, MarkEod, HoldsTrue, HoldLoops
<1>2. CASE MarkCancelled(o)
  <2>1. /\ UNCHANGED <<held, truth, entry, listed, row, seen, lastEntry, signal>>
        /\ status'[o] = Plain("CANCELLED") /\ price'[o] = "gone"
    BY <1>2 DEF MarkCancelled, PriceAt, Obliging
  <2>2. StatusHolds(o) /\ status'[o] # Plain("OPEN")
    BY <2>1, Pendings, ExitNames DEF StatusHolds, IsPending, DeadStatuses
  <2> QED BY <1>0, <1>00, <2>1, <2>2, HoldMoves DEF Exiting
<1>3. CASE MarkPrice(o) \/ MarkLoss(o)
  <2>1. /\ UNCHANGED <<held, truth, entry, listed, row, seen, lastEntry, signal>>
        /\ status'[o] \in {Pend("EXIT_STOPLOSS"), Pend("EXIT_MAX_LOSS")}
        /\ price[o] \in {"mark_price", "mark_loss"} /\ price'[o] \in {"risk", "top"}
    BY <1>3 DEF MarkPrice, MarkLoss, PriceAt, Obliging
  <2>2. Flat(o) /\ Entered(o) /\ Fades(o)
    BY <1>0, <1>00, <2>1 DEF HoldsTrue, HoldExit, HoldOpen, Exiting
  <2>3. StatusHolds(o) /\ status'[o] # Plain("OPEN")
    BY <2>1, <2>2, FlatFades, Pendings, ExitNames DEF StatusHolds, IsPending
  <2> QED BY <1>0, <2>1, <2>2, <2>3, HoldMoves
<1> QED BY <1>1, <1>2, <1>3

LEMMA HoldRest ==
  ASSUME OrderMonitorConstants, Obliging, HoldIInv, NEW o \in Orders,
         \/ SyncEntry(o) \/ Decide(o) \/ Refresh(o) \/ GetQuote(o) \/ CheckLoss(o)
  PROVE  HoldsTrue(o)'
<1>0. HoldsTrue(o)
  BY DEF HoldIInv
<1> USE HoldTypes DEF marketVars, dbVars, sharedVars, loopVars, signalVars
<1>00. (UNCHANGED <<held, truth, entry>> => Fades(o))
  BY <1>0, StillFades DEF HoldsTrue
<1>1. CASE SyncEntry(o)
  <2>1. /\ UNCHANGED <<held, truth, listed, status, row, signal>>
        /\ price[o] = "sync" /\ price'[o] = "decide"
        /\ seen'[o] = Live(o) /\ lastEntry'[o] = Live(o)
        /\ entry'[o] = IF Live(o) # lastEntry[o] THEN Live(o) ELSE entry[o]
    BY <1>1 DEF SyncEntry, PriceAt, Obliging
  <2>2. /\ Live(o) \in FyersRows
        /\ Live(o) = "FILLED" => truth[o] = "FILLED" /\ listed[o] \in {"ABSENT", "FILLED"}
        /\ listed[o] = "FILLED" => Live(o) = "FILLED"
        /\ listed[o] = "ABSENT" => Live(o) = seen[o]
    <3>1. CASE listed[o] = "ABSENT"
      <4>1. Live(o) = seen[o]
        BY <3>1, FyersFacts DEF Live, Obliging
      <4> QED BY <1>0, <2>1, <3>1, <4>1 DEF HoldsTrue, HoldEntry
    <3>2. CASE listed[o] # "ABSENT"
      <4>1. Live(o) = Synced("fyers", listed[o]) /\ listed[o] \in Truths
        BY <3>2 DEF Live, Obliging
      <4> QED BY <1>0, <3>2, <4>1, FyersFacts DEF HoldsTrue, HoldEntry
    <3> QED BY <3>1, <3>2
  <2>3. Live(o) = "FILLED" => entry'[o] = "FILLED"
    BY <1>0, <2>1 DEF HoldsTrue, HoldEntry
  <2>4. entry'[o] \in FyersRows /\ (entry'[o] = "FILLED" => truth[o] = "FILLED")
    BY <1>0, <2>1, <2>2 DEF HoldsTrue, HoldEntry
  <2>5. HoldEntry(o)'
    BY <1>0, <2>1, <2>2, <2>3, <2>4 DEF HoldsTrue, HoldEntry, FyersRows, Entered
  <2>6. status[o] = Plain("OPEN") => Live(o) = "FILLED"
    BY <1>0, <2>1, <2>2 DEF HoldsTrue, HoldOpen, Entered
  <2>7. HoldLoops(o)' /\ HoldOpen(o)'
    BY <1>0, <2>1, <2>2, <2>3, <2>6 DEF HoldsTrue, HoldLoops, HoldOpen, Entered, Exiting
  <2>8. HoldExit(o)'
    BY <1>0, <2>1 DEF HoldsTrue, HoldExit, IsPending, Flat
  <2> QED BY <2>5, <2>7, <2>8 DEF HoldsTrue
<1>2. CASE Decide(o)
  <2>1. /\ UNCHANGED <<held, truth, entry, listed, row, lastEntry, signal>>
        /\ price[o] = "decide" /\ price'[o] \in {"refresh", "orphans"}
        /\ seen'[o] = "UNKNOWN"
        /\ \/ status'[o] = status[o]
           \/ status'[o] = Derived(o) /\ Derived(o) # row[o]
    BY <1>2 DEF Decide, PriceAt, Obliging
  <2>2. Fades(o)
    BY <1>00, <2>1
  <2>3. CASE status'[o] = status[o]
    <3>1. StatusHolds(o) /\ (status'[o] = Plain("OPEN") => Entered(o))
      BY <1>0, <2>2, <2>3, StatusKept DEF HoldsTrue, HoldOpen
    <3> QED BY <1>0, <2>1, <2>2, <3>1, HoldMoves DEF Exiting
  <2>4. CASE status'[o] = Derived(o) /\ Derived(o) # row[o]
    <3>1. status'[o] = Plain(MainStatus({seen[o]}))
      BY <2>4 DEF Derived
    <3>2. StatusHolds(o)
      <4>1. PICK m : status'[o] = Plain(m) /\ m \notin Bases
        BY <3>1, MainFacts
      <4>2. ~IsPending(Plain(m)) /\ Plain(m)[1] = m
        BY Pendings
      <4> QED BY <4>1, <4>2 DEF StatusHolds, IsPending
    <3>3. status'[o] = Plain("OPEN") => Entered(o)
      <4>1. seen[o] \in FyersRows /\ (seen[o] = "FILLED" => Entered(o))
        BY <1>0, <2>1 DEF HoldsTrue, HoldEntry
      <4>2. MainStatus({seen[o]}) = "OPEN" => seen[o] = "FILLED"
        BY <4>1, MainFacts
      <4>3. status'[o] = Plain("OPEN") => MainStatus({seen[o]}) = "OPEN"
        BY <3>1, Pendings
      <4> QED BY <4>1, <4>2, <4>3
    <3> QED BY <1>0, <2>1, <2>2, <3>2, <3>3, HoldMoves DEF Exiting
  <2> QED BY <2>1, <2>3, <2>4
<1>3. CASE Refresh(o)
  <2>1. /\ UNCHANGED <<held, truth, entry, listed, status, seen, lastEntry, signal>>
        /\ price'[o] = IF status[o] = Plain("OPEN") THEN "quote" ELSE "top"
    BY <1>3 DEF Refresh, PriceAt, Obliging
  <2>2. Fades(o) /\ StatusHolds(o) /\ (status[o] = Plain("OPEN") => Entered(o))
    BY <1>0, <1>00, <2>1, StatusKept DEF HoldsTrue, HoldOpen
  <2> QED BY <1>0, <2>1, <2>2, HoldMoves DEF Exiting
<1>4. CASE GetQuote(o) \/ CheckLoss(o)
  <2>1. /\ UNCHANGED <<held, truth, entry, listed, status, seen, lastEntry, signal>>
        /\ price[o] \in {"quote", "risk"} /\ price'[o] \in {"exit_price", "risk", "exit_loss", "top"}
    BY <1>4 DEF GetQuote, CheckLoss, PriceAt
  <2>2. Fades(o) /\ StatusHolds(o) /\ (status'[o] = Plain("OPEN") => Entered(o))
    BY <1>0, <1>00, <2>1, StatusKept DEF HoldsTrue, HoldOpen
  <2>3. Entered(o)
    BY <1>0, <2>1 DEF HoldsTrue, HoldOpen, Exiting
  <2> QED BY <1>0, <2>1, <2>2, <2>3, HoldMoves
<1> QED BY <1>1, <1>2, <1>3, <1>4

LEMMA HoldPrice ==
  ASSUME OrderMonitorConstants, Obliging, HoldIInv, NEW o \in Orders, PriceStep(o)
  PROVE  \A x \in Orders : HoldsTrue(x)'
<1>1. HoldsTrue(o)'
  BY HoldHead, HoldExits, HoldMarks, HoldRest DEF PriceStep
<1> USE HoldTypes DEF marketVars, dbVars, sharedVars, loopVars, signalVars
<1>2. ASSUME NEW x \in Orders, x # o
      PROVE  HoldsTrue(x)'
  <2>1. signal'[x] = signal[x] /\ listed'[x] = listed[x]
    BY DEF PriceStep, QuickCheck, Complete, CompleteRows, Load, CheckClock, SquareOff,
           MarkEod, CancelAwaiting, MarkCancelled, SyncEntry, Decide, CloseOrphans, Refresh,
           GetQuote, ExitOnPrice, MarkPrice, CheckLoss, ExitOnLoss, MarkLoss
  <2>2. price'[x] = price[x]
    BY <1>2
    DEF PriceStep, QuickCheck, Complete, CompleteRows, Load, CheckClock, SquareOff,
        MarkEod, CancelAwaiting, MarkCancelled, SyncEntry, Decide, CloseOrphans, Refresh,
        GetQuote, ExitOnPrice, MarkPrice, CheckLoss, ExitOnLoss, MarkLoss, PriceAt,
        AfterSquareOff
  <2>3. row'[x] = row[x] /\ seen'[x] = seen[x] /\ lastEntry'[x] = lastEntry[x]
    BY <1>2
    DEF PriceStep, QuickCheck, Complete, CompleteRows, Load, CheckClock, SquareOff,
        MarkEod, CancelAwaiting, MarkCancelled, SyncEntry, Decide, CloseOrphans, Refresh,
        GetQuote, ExitOnPrice, MarkPrice, CheckLoss, ExitOnLoss, MarkLoss
  <2>4. HoldsTrue(x) /\ ~SquareOff(o)
    BY DEF HoldIInv, HoldsTrue, HoldLoops, SquareOff
  <2>5. Fades(x) /\ status'[x] \in {status[x], Plain("CLOSED")}
    <3>1. CASE CancelAwaiting(o) \/ ExitOnPrice(o) \/ ExitOnLoss(o) \/ CloseOrphans(o)
      BY <3>1, HoldExits
    <3>2. CASE ~(CancelAwaiting(o) \/ ExitOnPrice(o) \/ ExitOnLoss(o) \/ CloseOrphans(o))
      <4>1. /\ status'[x] = status[x] /\ held'[x] = held[x] /\ truth'[x] = truth[x]
            /\ entry'[x] = entry[x]
        BY <1>2, <2>4, <3>2
        DEF PriceStep, QuickCheck, Complete, CompleteRows, Load, CheckClock,
            MarkEod, MarkCancelled, SyncEntry, Decide, Refresh, GetQuote, MarkPrice,
            CheckLoss, MarkLoss
      <4> QED BY <2>4, <4>1, StillFades DEF HoldsTrue
    <3> QED BY <3>1, <3>2
  <2> QED BY <2>1, <2>2, <2>3, <2>4, <2>5, StatusKept, HoldKept
<1> QED BY <1>1, <1>2

LEMMA HoldEnvironment ==
  ASSUME OrderMonitorConstants, Obliging, HoldIInv, Market \/ Restart
  PROVE  \A x \in Orders : HoldsTrue(x)'
<1> USE HoldTypes DEF marketVars, dbVars, sharedVars, priceVars, loopVars, signalVars
<1> SUFFICES ASSUME NEW x \in Orders PROVE HoldsTrue(x)'
  OBVIOUS
<1>0. HoldsTrue(x)
  BY DEF HoldIInv
<1>1. ASSUME NEW o \in Orders, Settle(o) PROVE HoldsTrue(x)'
  <2>1. UNCHANGED <<listed, status, entry, price, row, seen, lastEntry, signal>>
    BY <1>1 DEF Settle
  <2>2. CASE x # o
    <3>1. truth'[x] = truth[x] /\ held'[x] = held[x]
      BY <1>1, <2>2 DEF Settle
    <3> QED BY <1>0, <2>1, <3>1, StillFades, StatusKept, HoldKept DEF HoldsTrue
  <2>3. CASE x = o
    <3>1. truth[x] = "RESTING" /\ (held'[x] => truth'[x] = "FILLED" \/ held[x])
      BY <1>1, <2>3 DEF Settle
    <3>2. ~Entered(x) /\ ~Flat(x) /\ entry[x] # "FILLED" /\ ~held[x] /\ listed[x] # "FILLED"
      BY <1>0, <3>1, CancellableFacts DEF HoldsTrue, HoldEntry, Entered, Flat
    <3>3. HoldEntry(x)'
      BY <1>0, <2>1, <3>1, <3>2 DEF HoldsTrue, HoldEntry
    <3>4. HoldLoops(x)' /\ HoldOpen(x)' /\ HoldExit(x)'
      BY <1>0, <2>1, <3>2 DEF HoldsTrue, HoldLoops, HoldOpen, HoldExit, IsPending
    <3> QED BY <3>3, <3>4 DEF HoldsTrue
  <2> QED BY <2>2, <2>3
<1>2. ASSUME NEW o \in Orders, Poll(o) PROVE HoldsTrue(x)'
  <2>1. /\ UNCHANGED <<truth, held, status, entry, price, row, seen, lastEntry, signal>>
        /\ listed'[x] \in {listed[x], truth[x]}
    BY <1>2 DEF Poll
  <2>2. Entered(x) => Entered(x)'
    BY <2>1 DEF Entered
  <2>3. HoldEntry(x)'
    BY <1>0, <2>1, <2>2 DEF HoldsTrue, HoldEntry
  <2>4. HoldLoops(x)' /\ HoldOpen(x)' /\ HoldExit(x)'
    BY <1>0, <2>1, <2>2 DEF HoldsTrue, HoldLoops, HoldOpen, HoldExit, IsPending, Flat
  <2> QED BY <2>3, <2>4 DEF HoldsTrue
<1>3. ASSUME NEW o \in Orders, ManualExit(o) PROVE HoldsTrue(x)'
  <2>1. /\ ExitOrder(o, TRUE, Pend("EXIT_MANUAL"))
        /\ UNCHANGED <<listed, price, row, seen, lastEntry, signal>>
    BY <1>3 DEF ManualExit
  <2>2. Fades(x) /\ Flat(o)'
    BY <2>1, ExitHolds
  <2>3. /\ status'[o] = Pend("EXIT_MANUAL")
        /\ x # o => status'[x] \in {status[x], Plain("CLOSED")}
    BY <2>1, CloseWrites DEF HoldIInv
  <2>4. StatusHolds(x) /\ (status'[x] = Plain("OPEN") => status[x] = Plain("OPEN"))
    <3>1. CASE x = o
      BY <2>2, <2>3, <3>1, Pendings DEF StatusHolds, IsPending, Bases
    <3>2. CASE x # o
      BY <1>0, <2>2, <2>3, <3>2, StatusKept
    <3> QED BY <3>1, <3>2
  <2> QED BY <1>0, <2>1, <2>2, <2>4, HoldKept
<1>4. CASE Tick
  BY <1>0, <1>4, StillFades, StatusKept, HoldKept DEF Tick, HoldsTrue
<1>5. CASE Restart
  <2>1. UNCHANGED <<truth, listed, held, status, entry>>
    BY <1>5 DEF Restart
  <2>2. /\ price'[x] \in {"top", "gone"} /\ seen'[x] = "UNKNOWN" /\ lastEntry'[x] = "UNKNOWN"
    BY <1>5 DEF Restart, FreshMonitors
  <2>3. signal'[x] = "gone"
    <3>1. Verdicts = {}
      BY DEF Obliging
    <3> QED BY <1>5, <3>1 DEF Restart, FreshMonitors
  <2>4. HoldEntry(x)'
    BY <1>0, <2>1, <2>2 DEF HoldsTrue, HoldEntry
  <2>5. HoldLoops(x)' /\ HoldOpen(x)' /\ HoldExit(x)'
    BY <1>0, <2>1, <2>2, <2>3
    DEF HoldsTrue, HoldLoops, HoldOpen, HoldExit, IsPending, Flat, Entered, Exiting
  <2> QED BY <2>4, <2>5 DEF HoldsTrue
<1> QED BY <1>1, <1>2, <1>3, <1>4, <1>5 DEF Market

LEMMA HoldStep ==
  ASSUME OrderMonitorConstants, Obliging, HoldIInv, [Next]_monitorVars
  PROVE  HoldIInv'
<1>1. ASSUME UNCHANGED monitorVars, NEW x \in Orders
      PROVE  HoldsTrue(x)'
  <2>1. HoldsTrue(x)
    BY DEF HoldIInv
  <2> QED BY <1>1, <2>1, StillFades, StatusKept, HoldKept
          DEF HoldsTrue, monitorVars, marketVars, dbVars, priceVars, loopVars, signalVars
<1>2. ASSUME NEW o \in Orders, SignalStep(o)
      PROVE  FALSE
  BY <1>2 DEF SignalStep, SignalRead, Evaluate, SignalExit, Reread, MarkVerdict, ExitAgain,
              HoldIInv, HoldsTrue, HoldLoops
<1>3. \A x \in Orders : HoldsTrue(x)'
  BY <1>1, <1>2, HoldPrice, HoldEnvironment DEF Next
<1> QED BY <1>3, TypeStep DEF HoldIInv

LEMMA HoldGoal == HoldIInv => ExitedHoldsNothing
  BY DEF HoldIInv, HoldsTrue, HoldExit, Flat, ExitedHoldsNothing

\* With a broker and a database that do as they are asked, an exit status is
\* only given to, and left on, an order whose position is closed and whose entry
\* order can no longer be executed: in every interleaving of the price loops, the
\* API, the parent's exit and restarts (order_manager.py:1763).
THEOREM ExitsClosePositions == OrderMonitorConstants /\ Obliging => (Spec => []ExitedHoldsNothing)
<1> SUFFICES ASSUME OrderMonitorConstants /\ Obliging PROVE Spec => []ExitedHoldsNothing
  OBVIOUS
<1>1. Init => HoldIInv
  BY HoldInit
<1>2. HoldIInv /\ [Next]_monitorVars => HoldIInv'
  BY HoldStep
<1> QED BY <1>1, <1>2, HoldGoal, PTL DEF Spec

================================================================================
