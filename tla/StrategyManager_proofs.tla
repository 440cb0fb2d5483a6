------------------------ MODULE StrategyManager_proofs ------------------------
(***************************************************************************)
(* Proofs about StrategyManager, for any symbols, orders and bounds.       *)
(***************************************************************************)
EXTENDS StrategyManager, SequenceTheorems, FiniteSetTheorems, TLAPS

(***************************************************************************)
(* The inductive invariant.  The loop only handles symbols the query       *)
(* returned, and makes instances for symbols without a runner.  A runner   *)
(* only has orders of its own symbol in hand; the order it is about to     *)
(* place has a strike that no open order has, and one it is placing has    *)
(* its row, so that whatever reaches a broker has one, too.                *)
(***************************************************************************)
LoopInv ==
  /\ \A s \in todo : rows[s] \in Versions
  /\ making # NoSymbol => rows[making] \in Versions /\ running[making] = None

HandInv ==
  \A s \in Symbols :
    /\ step[s] \in Placing => SymbolOf[hand[s]] = s
    /\ step[s] = "signal" =>
         /\ status[hand[s]] = "none"
         /\ \A p \in Orders : status[p] = "open" => StrikeOf[p] # StrikeOf[hand[s]]
    /\ step[s] \in Placing \ {"signal"} => status[hand[s]] # "none"

SentHasRow == \A o \in sent : status[o] # "none"

OneOpen == \A o, p \in Orders :
             status[o] = "open" /\ status[p] = "open" /\ StrikeOf[o] = StrikeOf[p] => o = p

RunnerInv == RunnersKnown /\ HandInv /\ SentHasRow /\ OneOpen

IInv == TypeOK /\ LoopInv /\ RunnerInv

--------------------------------------------------------------------------------
LEMMA NoneIsNone == None \notin Instances
  BY DEF None, Instances, Versions

LEMMA InstanceType ==
  ASSUME NEW v \in Versions, NEW p \in {"symbol", "order"}
  PROVE  <<v, p>> \in Instances /\ <<v, p>> # None
  BY DEF None, Instances, Versions

\* What cancelling runners does to the parts of the invariant.
LEMMA CancelledKeeps ==
  ASSUME IInv, NEW S, S \subseteq Symbols, Cancelled(S)
  PROVE  /\ running' \in [Symbols -> Instances \cup {None}]
         /\ cache' \in [Symbols -> Instances \cup {None}]
         /\ step' \in [Symbols -> {"none", "setup", "idle", "signal", "placing",
                                   "answered", "placed"}]
         /\ hand' \in [Symbols -> Orders \cup {NoOrder}]
         /\ sent' \in SUBSET Orders
         /\ \A s \in Symbols : (hand[s] # NoOrder <=> step[s] \in Placing)'
         /\ RunnerInv'
<1>1. /\ running' \in [Symbols -> Instances \cup {None}]
      /\ cache' \in [Symbols -> Instances \cup {None}]
      /\ step' \in [Symbols -> {"none", "setup", "idle", "signal", "placing",
                                "answered", "placed"}]
      /\ hand' \in [Symbols -> Orders \cup {NoOrder}]
  BY DEF IInv, TypeOK, Cancelled
<1>2. \A s \in Symbols : (hand[s] # NoOrder <=> step[s] \in Placing)'
  BY DEF IInv, TypeOK, Cancelled, Placing
<1>3. PICK through \in SUBSET {hand[s] : s \in {t \in S : step[t] = "placing"}} :
        sent' = sent \cup through
  BY DEF Cancelled
<1>4. \A o \in through : o \in Orders /\ status[o] # "none"
  BY <1>3 DEF IInv, TypeOK, RunnerInv, HandInv, Placing
<1>5. sent' \in SUBSET Orders /\ SentHasRow'
  BY <1>3, <1>4 DEF IInv, TypeOK, RunnerInv, SentHasRow, Cancelled
<1>6. RunnersKnown'
  BY DEF IInv, TypeOK, RunnerInv, RunnersKnown, Live, Cancelled
<1>7. HandInv'
  BY DEF IInv, TypeOK, RunnerInv, HandInv, Cancelled, Placing
<1>8. OneOpen'
  BY DEF IInv, RunnerInv, OneOpen, Cancelled
<1> QED BY <1>1, <1>2, <1>5, <1>6, <1>7, <1>8 DEF RunnerInv

\* A step that leaves the runners and the orders alone keeps what is known of them.
LEMMA RunnersAlone ==
  ASSUME RunnerInv, UNCHANGED <<running, runnerVars, orderVars>>
  PROVE  RunnerInv'
  BY DEF RunnerInv, RunnersKnown, Live, HandInv, SentHasRow, OneOpen, runnerVars, orderVars

LEMMA SleepLoop ==
  ASSUME Sleep
  PROVE  LoopInv'
  BY DEF Sleep, LoopInv

LEMMA OpenOrdersType == OpenOrders \subseteq Orders
  BY DEF OpenOrders

--------------------------------------------------------------------------------
\* A call fails at most as often as the bound allows.
LEMMA TroublesType ==
  ASSUME TypeOK, Fine \/ Fail
  PROVE  troubles' \in 0..MaxTroubles
<1>1. MaxTroubles \in Nat /\ troubles \in 0..MaxTroubles
  BY StrategyManagerConstants DEF TypeOK
<1>2. troubles' = troubles \/ (troubles < MaxTroubles /\ troubles' = troubles + 1)
  BY DEF Fine, Fail
<1> QED BY <1>1, <1>2

--------------------------------------------------------------------------------
LEMMA InitInv == Init => IInv
<1> SUFFICES ASSUME Init PROVE IInv OBVIOUS
<1> USE StrategyManagerConstants
<1>1. TypeOK
  <2>1. queue \in Seq(Orders \X BOOLEAN)
    BY EmptySeq DEF Init
  <2>2. /\ stamp \in [Symbols -> Versions] /\ rows \in [Symbols -> 0..MaxVersion]
        /\ timestamps \in [Symbols -> 0..MaxVersion] /\ found \in 0..MaxVersion
        /\ troubles \in 0..MaxTroubles
    BY DEF Init, Versions
  <2>3. /\ hand \in [Symbols -> Orders \cup {NoOrder}]
        /\ \A s \in Symbols : hand[s] # NoOrder <=> step[s] \in Placing
    BY DEF Init, Placing
  <2> QED BY <2>1, <2>2, <2>3 DEF Init, TypeOK
<1>2. LoopInv
  BY DEF Init, LoopInv
<1>3. RunnersKnown /\ HandInv
  BY DEF Init, RunnersKnown, HandInv, Placing
<1>4. SentHasRow /\ OneOpen
  BY DEF Init, SentHasRow, OneOpen
<1> QED BY <1>1, <1>2, <1>3, <1>4 DEF IInv, RunnerInv

--------------------------------------------------------------------------------
(***************************************************************************)
(* The poll loop.                                                          *)
(***************************************************************************)
LEMMA StartupStep == IInv /\ Startup => IInv'
<1> SUFFICES ASSUME IInv, Startup PROVE IInv' OBVIOUS
<1> USE StrategyManagerConstants
<1>1. queue' \in Seq(Orders \X BOOLEAN) /\ cache' \in [Symbols -> Instances \cup {None}]
  <2>1. CASE UNCHANGED <<queue, cache>>
    BY <2>1 DEF IInv, TypeOK
  <2>2. CASE ~UNCHANGED <<queue, cache>>
    <3>1. PICK made \in BOOLEAN :
            /\ queue' \in {q \in [1..Cardinality(OpenOrders) -> OpenOrders \X {made}] :
                             {q[i][1] : i \in DOMAIN q} = OpenOrders}
            /\ cache' = [s \in Symbols |->
                           IF made /\ \E o \in OpenOrders : SymbolOf[o] = s
                             THEN <<stamp[s], "order">> ELSE None]
      BY <2>2 DEF Startup
    <3>2. queue' \in [1..Cardinality(OpenOrders) -> Orders \X BOOLEAN]
      BY <3>1, OpenOrdersType
    <3>3. \A s \in Symbols : <<stamp[s], "order">> \in Instances
      BY InstanceType DEF IInv, TypeOK
    <3>4. cache' \in [Symbols -> Instances \cup {None}]
      BY <3>1, <3>3
    <3>5. Cardinality(OpenOrders) \in Nat
      BY OpenOrdersType, FS_Subset, FS_CardinalityType
    <3> QED BY <3>2, <3>4, <3>5, SeqDef
  <2> QED BY <2>1, <2>2
<1>2. troubles' \in 0..MaxTroubles
  BY TroublesType DEF IInv, Startup
<1>3. TypeOK'
  BY <1>1, <1>2 DEF IInv, TypeOK, Startup, clockVars, dbVars, runnerVars, orderVars
<1>4. LoopInv'
  BY DEF IInv, LoopInv, Startup
<1>5. RunnerInv'
  BY RunnersAlone DEF IInv, Startup
<1> QED BY <1>3, <1>4, <1>5 DEF IInv

LEMMA TopStep == IInv /\ Top => IInv'
<1> SUFFICES ASSUME IInv, Top PROVE IInv' OBVIOUS
<1>1. CASE open
  <2>1. TypeOK' /\ LoopInv'
    BY <1>1 DEF IInv, TypeOK, LoopInv, Top, clockVars, dbVars, runnerVars, orderVars, queueVars
  <2>2. RunnerInv'
    BY <1>1, RunnersAlone DEF IInv, Top
  <2> QED BY <2>1, <2>2 DEF IInv
<1>2. CASE ~open
  <2>1. Cancelled(Live) /\ Live \subseteq Symbols
    BY <1>2 DEF Top, Live
  <2>2. TypeOK'
    BY <1>2, <2>1, CancelledKeeps
    DEF IInv, TypeOK, Top, clockVars, dbVars, queueVars, Cancelled
  <2>3. making' = NoSymbol /\ UNCHANGED <<todo, rows>>
    BY <1>2 DEF IInv, TypeOK, Top
  <2>4. LoopInv'
    BY <2>3 DEF IInv, LoopInv
  <2> QED BY <2>1, <2>2, <2>4, CancelledKeeps DEF IInv
<1> QED BY <1>1, <1>2

\* The parts of TypeOK that an iteration coming to its end changes.
LEMMA SleepType ==
  ASSUME Sleep
  PROVE  /\ pc' = "top" /\ now' = {} /\ todo' = {} /\ making' = NoSymbol
         /\ rows' \in [Symbols -> 0..MaxVersion]
  BY StrategyManagerConstants DEF Sleep

LEMMA QueryStep == IInv /\ Query => IInv'
<1> SUFFICES ASSUME IInv, Query PROVE IInv' OBVIOUS
<1> USE StrategyManagerConstants
<1>1. troubles' \in 0..MaxTroubles
  BY TroublesType DEF IInv, Query
<1>2. CASE Sleep /\ UNCHANGED <<running, cache, runnerVars, orderVars>>
  <2>1. TypeOK'
    BY <1>1, <1>2, SleepType
    DEF IInv, TypeOK, Query, clockVars, dbVars, runnerVars, orderVars, queueVars
  <2> QED BY <1>2, <2>1, SleepLoop, RunnersAlone DEF IInv
<1>3. CASE ~(Sleep /\ UNCHANGED <<running, cache, runnerVars, orderVars>>)
  <2>1. /\ rows' = [s \in Symbols |-> IF s \in active THEN stamp[s] ELSE 0]
        /\ todo' = active
        /\ Cancelled(Live \ active)
        /\ pc' = "symbols"
        /\ UNCHANGED <<now, making>>
        /\ pc = "query"
    BY <1>3 DEF Query
  <2>2. /\ rows' \in [Symbols -> 0..MaxVersion]
        /\ \A s \in todo' : rows'[s] \in Versions
        /\ making' = NoSymbol
    BY <2>1 DEF IInv, TypeOK, Versions
  <2>3. LoopInv'
    BY <2>2 DEF LoopInv
  <2>4. (Live \ active) \subseteq Symbols
    BY DEF Live
  <2>5. UNCHANGED <<open, window, active, stamp, now, timestamps, queue, taken, found,
                    monitored, status>>
    BY <2>1 DEF Query, Cancelled, clockVars, dbVars, queueVars
  <2>6. TypeOK'
    BY <1>1, <2>1, <2>2, <2>4, <2>5, CancelledKeeps DEF IInv, TypeOK
  <2> QED BY <2>1, <2>3, <2>4, <2>6, CancelledKeeps DEF IInv
<1> QED BY <1>2, <1>3

\* A runner that is started has nothing in hand.
LEMMA LaunchKeeps ==
  ASSUME IInv, NEW s \in Symbols, NEW inst \in Instances, Launch(s, inst),
         step[s] = "none", UNCHANGED <<hand, orderVars>>
  PROVE  /\ running' \in [Symbols -> Instances \cup {None}]
         /\ step' \in [Symbols -> {"none", "setup", "idle", "signal", "placing",
                                   "answered", "placed"}]
         /\ \A t \in Symbols : (hand[t] # NoOrder <=> step[t] \in Placing)'
         /\ RunnerInv'
<1>1. /\ running' \in [Symbols -> Instances \cup {None}]
      /\ step' \in [Symbols -> {"none", "setup", "idle", "signal", "placing",
                                "answered", "placed"}]
  BY DEF IInv, TypeOK, Launch
<1>2. \A t \in Symbols : (hand[t] # NoOrder <=> step[t] \in Placing)'
  BY DEF IInv, TypeOK, Launch, Placing
<1>3. RunnersKnown'
  BY NoneIsNone DEF IInv, TypeOK, RunnerInv, RunnersKnown, Live, Launch
<1>4. HandInv'
  BY DEF IInv, TypeOK, RunnerInv, HandInv, Launch, Placing, orderVars
<1>5. SentHasRow' /\ OneOpen'
  BY DEF IInv, RunnerInv, SentHasRow, OneOpen, orderVars
<1> QED BY <1>1, <1>2, <1>3, <1>4, <1>5 DEF RunnerInv

LEMMA SymbolStep == \A s \in Symbols : IInv /\ Symbol(s) => IInv'
<1> SUFFICES ASSUME IInv, NEW s \in Symbols, Symbol(s) PROVE IInv' OBVIOUS
<1>1. /\ timestamps' \in [Symbols -> 0..MaxVersion]
      /\ todo' \in SUBSET Symbols /\ todo' \subseteq todo
      /\ pc = "symbols" /\ making = NoSymbol /\ rows[s] \in Versions
      /\ UNCHANGED <<open, window, active, stamp, now, rows, queue, taken, found,
                     monitored, troubles, status>>
  BY DEF IInv, TypeOK, LoopInv, Symbol, Versions, clockVars, dbVars, queueVars, orderVars,
         Cancelled
<1>2. CASE /\ Starts(s) /\ ~Stops(s) /\ Usable(s, "symbol")
           /\ Launch(s, cache[s])
           /\ UNCHANGED <<pc, making, cache, hand, orderVars>>
  <2>1. cache[s] \in Instances
    BY <1>2 DEF IInv, TypeOK, Usable
  <2>2. step[s] = "none"
    BY <1>2 DEF IInv, RunnerInv, RunnersKnown, Starts, Stops
  <2>3. TypeOK'
    BY <1>1, <1>2, <2>1, <2>2, LaunchKeeps DEF IInv, TypeOK, orderVars
  <2>4. LoopInv'
    BY <1>1, <1>2 DEF IInv, LoopInv
  <2> QED BY <1>2, <2>1, <2>2, <2>3, <2>4, LaunchKeeps DEF IInv
<1>3. CASE /\ Starts(s) /\ (Stops(s) \/ ~Usable(s, "symbol"))
           /\ Cancelled({s})
           /\ pc' = "make"
           /\ making' = s
  <2>1. s # NoSymbol
    BY StrategyManagerConstants
  <2>2. TypeOK'
    BY <1>1, <1>3, <2>1, CancelledKeeps DEF IInv, TypeOK
  <2>3. running'[s] = None
    BY <1>3 DEF Cancelled
  <2>4. LoopInv'
    BY <1>1, <1>3, <2>3 DEF IInv, LoopInv
  <2> QED BY <1>3, <2>2, <2>4, CancelledKeeps DEF IInv
<1>4. CASE /\ ~Starts(s) /\ Stops(s)
           /\ Cancelled({s})
           /\ UNCHANGED <<pc, making>>
  <2>1. TypeOK'
    BY <1>1, <1>4, CancelledKeeps DEF IInv, TypeOK
  <2>2. LoopInv'
    BY <1>1, <1>4 DEF IInv, LoopInv
  <2> QED BY <1>4, <2>1, <2>2, CancelledKeeps DEF IInv
<1>5. CASE UNCHANGED <<pc, making, running, cache, runnerVars, orderVars>>
  <2>1. TypeOK'
    BY <1>1, <1>5 DEF IInv, TypeOK, runnerVars, orderVars
  <2>2. LoopInv'
    BY <1>1, <1>5 DEF IInv, LoopInv
  <2> QED BY <1>5, <2>1, <2>2, RunnersAlone DEF IInv
<1> QED BY <1>2, <1>3, <1>4, <1>5 DEF Symbol

LEMMA EndIterationStep == IInv /\ EndIteration => IInv'
<1> SUFFICES ASSUME IInv, EndIteration PROVE IInv' OBVIOUS
<1>1. TypeOK'
  BY SleepType
  DEF IInv, TypeOK, EndIteration, clockVars, dbVars, runnerVars, orderVars, queueVars
<1> QED BY <1>1, SleepLoop, RunnersAlone DEF IInv, EndIteration

LEMMA MakeStep == IInv /\ Make => IInv'
<1> SUFFICES ASSUME IInv, Make PROVE IInv' OBVIOUS
<1>1. troubles' \in 0..MaxTroubles
  BY TroublesType DEF IInv, Make
<1>2. making \in Symbols /\ rows[making] \in Versions /\ running[making] = None
  <2>1. pc = "make"
    BY DEF Make
  <2>2. making # NoSymbol /\ making \in Symbols
    BY <2>1 DEF IInv, TypeOK
  <2> QED BY <2>2 DEF IInv, LoopInv
<1>3. UNCHANGED <<open, window, active, stamp, timestamps, queue, taken, found,
                  monitored, hand, orderVars>>
  BY DEF Make, clockVars, dbVars, queueVars
<1>4. step[making] = "none"
  BY <1>2 DEF IInv, RunnerInv, RunnersKnown, Live
<1>5. CASE /\ cache' = [cache EXCEPT ![making] = <<rows[making], "symbol">>]
           /\ Launch(making, <<rows[making], "symbol">>)
           /\ pc' = "symbols" /\ making' = NoSymbol
           /\ UNCHANGED <<now, rows, todo>>
  <2>1. <<rows[making], "symbol">> \in Instances
    BY <1>2, InstanceType
  <2>2. cache' \in [Symbols -> Instances \cup {None}]
    BY <1>2, <1>5, <2>1 DEF IInv, TypeOK
  <2>3. TypeOK'
    BY <1>1, <1>2, <1>3, <1>4, <1>5, <2>1, <2>2, LaunchKeeps DEF IInv, TypeOK, orderVars
  <2>4. LoopInv'
    BY <1>5 DEF IInv, LoopInv
  <2> QED BY <1>2, <1>3, <1>4, <1>5, <2>1, <2>3, <2>4, LaunchKeeps DEF IInv
<1>6. CASE /\ \/ pc' = "symbols" /\ making' = NoSymbol /\ UNCHANGED <<now, rows, todo>>
              \/ Sleep
           /\ UNCHANGED <<cache, running, step>>
  <2>1. TypeOK'
    BY <1>1, <1>3, <1>6, SleepType DEF IInv, TypeOK, orderVars
  <2>2. LoopInv'
    BY <1>6, SleepLoop DEF IInv, LoopInv
  <2> QED BY <1>3, <1>6, <2>1, <2>2, RunnersAlone DEF IInv, runnerVars
<1> QED BY <1>5, <1>6 DEF Make

--------------------------------------------------------------------------------
(***************************************************************************)
(* The runners.                                                            *)
(***************************************************************************)
\* What no step of a runner touches.
LEMMA RunnerFrame ==
  ASSUME IInv, NEW s \in Symbols, RunnerStep(s),
         troubles' \in 0..MaxTroubles, queue' \in Seq(Orders \X BOOLEAN),
         UNCHANGED <<taken, found, monitored>>,
         step' \in [Symbols -> {"none", "setup", "idle", "signal", "placing", "answered",
                                "placed"}],
         hand' \in [Symbols -> Orders \cup {NoOrder}],
         \A t \in Symbols : (hand[t] # NoOrder <=> step[t] \in Placing)',
         status' \in [Orders -> {"none", "open", "exiting", "over"}], sent' \in SUBSET Orders
  PROVE  TypeOK' /\ LoopInv'
<1>1. UNCHANGED <<open, window, active, stamp, pc, now, rows, todo, making, running, cache,
                  timestamps>>
  BY DEF RunnerStep, clockVars, dbVars, loopVars
<1>2. TypeOK'
  BY <1>1 DEF IInv, TypeOK
<1>3. LoopInv'
  BY <1>1 DEF IInv, LoopInv
<1> QED BY <1>2, <1>3

\* What a step of the runner of s must leave as it is for the other runners.
LEMMA OnlyOwn ==
  ASSUME IInv, NEW s \in Symbols, NEW label, step' = [step EXCEPT ![s] = label],
         \/ label \notin Placing /\ hand' = [hand EXCEPT ![s] = NoOrder]
         \/ label \in Placing /\ hand' = [hand EXCEPT ![s] = hand'[s]]
            /\ hand'[s] \in Orders,
         label \in {"idle", "signal", "placing", "answered", "placed"}
  PROVE  /\ step' \in [Symbols -> {"none", "setup", "idle", "signal", "placing", "answered",
                                   "placed"}]
         /\ hand' \in [Symbols -> Orders \cup {NoOrder}]
         /\ \A t \in Symbols : (hand[t] # NoOrder <=> step[t] \in Placing)'
<1> USE StrategyManagerConstants
<1>1. step' \in [Symbols -> {"none", "setup", "idle", "signal", "placing", "answered",
                              "placed"}]
  BY DEF IInv, TypeOK
<1>2. hand' \in [Symbols -> Orders \cup {NoOrder}]
  BY DEF IInv, TypeOK
<1>3. \A t \in Symbols \ {s} : step'[t] = step[t] /\ hand'[t] = hand[t]
  BY DEF IInv, TypeOK
<1>4. step'[s] = label /\ (hand'[s] # NoOrder <=> label \in Placing)
  BY DEF IInv, TypeOK
<1>5. \A t \in Symbols : (hand[t] # NoOrder <=> step[t] \in Placing)
  BY DEF IInv, TypeOK
<1>6. \A t \in Symbols : (hand'[t] # NoOrder <=> step'[t] \in Placing)
  BY <1>3, <1>4, <1>5
<1> QED BY <1>1, <1>2, <1>6

LEMMA SetupStep == \A s \in Symbols : IInv /\ RunnerStep(s) /\ Setup(s) => IInv'
<1> SUFFICES ASSUME IInv, NEW s \in Symbols, RunnerStep(s), Setup(s) PROVE IInv' OBVIOUS
<1>1. /\ step' = [step EXCEPT ![s] = "idle"] /\ step[s] = "setup"
      /\ UNCHANGED <<hand, status, sent>>
  BY DEF Setup, Goes, orderVars
<1>2. UNCHANGED <<queue, taken, found, monitored, troubles, running>>
  BY <1>1 DEF RunnerStep, Record, Enqueue, queueVars
<1>3. TypeOK' /\ LoopInv'
  <2>1. hand' = [hand EXCEPT ![s] = NoOrder]
    BY <1>1 DEF IInv, TypeOK, Placing
  <2> QED BY <1>1, <1>2, <2>1, OnlyOwn, RunnerFrame DEF IInv, TypeOK, Placing
<1>4. RunnerInv'
  BY <1>1, <1>2
  DEF IInv, TypeOK, RunnerInv, RunnersKnown, Live, HandInv, SentHasRow, OneOpen, Placing
<1> QED BY <1>3, <1>4 DEF IInv

LEMMA CycleStep == \A s \in Symbols : IInv /\ RunnerStep(s) /\ Cycle(s) => IInv'
<1> SUFFICES ASSUME IInv, NEW s \in Symbols, RunnerStep(s), Cycle(s) PROVE IInv' OBVIOUS
<1>1. PICK o \in Orders :
        /\ SymbolOf[o] = s /\ status[o] = "none"
        /\ \A p \in Positions : StrikeOf[p] # StrikeOf[o]
        /\ hand' = [hand EXCEPT ![s] = o]
  BY DEF Cycle
<1>2. /\ step' = [step EXCEPT ![s] = "signal"] /\ step[s] = "idle"
      /\ UNCHANGED <<status, sent>>
  BY DEF Cycle, Goes, orderVars
<1>3. UNCHANGED <<queue, taken, found, monitored, troubles, running>>
  BY <1>2 DEF RunnerStep, Record, Enqueue, queueVars
<1>4. TypeOK' /\ LoopInv'
  <2>1. hand'[s] = o
    BY <1>1 DEF IInv, TypeOK
  <2> QED BY <1>1, <1>2, <1>3, <2>1, OnlyOwn, RunnerFrame DEF IInv, TypeOK, Placing
<1>5. RunnersKnown' /\ SentHasRow' /\ OneOpen'
  BY <1>2, <1>3 DEF IInv, TypeOK, RunnerInv, RunnersKnown, Live, SentHasRow, OneOpen
<1>6. HandInv'
  BY <1>1, <1>2 DEF IInv, TypeOK, RunnerInv, HandInv, Positions, Placing
<1> QED BY <1>4, <1>5, <1>6 DEF IInv, RunnerInv

\* The row of an order opens a strike that was free.
LEMMA PlaceRowStep == \A s \in Symbols : IInv /\ RunnerStep(s) /\ PlaceRow(s) => IInv'
<1> SUFFICES ASSUME IInv, NEW s \in Symbols, RunnerStep(s), PlaceRow(s) PROVE IInv' OBVIOUS
<1>1. step[s] = "signal" /\ UNCHANGED <<sent, queue, taken, found, monitored, troubles, running>>
  BY DEF PlaceRow, RunnerStep, Record, Enqueue, queueVars
<1>2. hand[s] \in Orders /\ SymbolOf[hand[s]] = s
  BY <1>1 DEF IInv, TypeOK, RunnerInv, HandInv, Placing
<1>3. CASE /\ status' = [status EXCEPT ![hand[s]] = "open"]
           /\ Goes(s, "placing")
           /\ UNCHANGED hand
  <2>1. hand' = [hand EXCEPT ![s] = hand'[s]] /\ hand'[s] \in Orders
    BY <1>2, <1>3 DEF IInv, TypeOK
  <2>2. status' \in [Orders -> {"none", "open", "exiting", "over"}]
    BY <1>2, <1>3 DEF IInv, TypeOK
  <2>3. step' = [step EXCEPT ![s] = "placing"]
    BY <1>3 DEF Goes
  <2>4. TypeOK' /\ LoopInv'
    BY <1>1, <2>1, <2>2, <2>3, OnlyOwn, RunnerFrame DEF IInv, TypeOK, Placing
  <2>5. RunnersKnown' /\ SentHasRow'
    BY <1>1, <1>2, <1>3, <2>3
    DEF IInv, TypeOK, RunnerInv, RunnersKnown, Live, SentHasRow
  <2>6. OneOpen'
    BY <1>1, <1>2, <1>3 DEF IInv, TypeOK, RunnerInv, HandInv, OneOpen
  <2>7. HandInv'
    <3> SUFFICES ASSUME NEW t \in Symbols
                 PROVE  (/\ step[t] \in Placing => SymbolOf[hand[t]] = t
                         /\ step[t] = "signal" =>
                              /\ status[hand[t]] = "none"
                              /\ \A p \in Orders : status[p] = "open" => StrikeOf[p] # StrikeOf[hand[t]]
                         /\ step[t] \in Placing \ {"signal"} => status[hand[t]] # "none")'
      BY DEF HandInv
    <3>1. CASE t = s
      BY <1>2, <1>3, <2>3, <3>1 DEF IInv, TypeOK, Placing
    <3>2. CASE t # s /\ step[t] \in Placing
      <4>1. step'[t] = step[t] /\ hand'[t] = hand[t] /\ hand[t] \in Orders /\ SymbolOf[hand[t]] = t
        BY <1>3, <2>3, <3>2 DEF IInv, TypeOK, RunnerInv, HandInv
      <4>2. StrikeOf[hand[s]] # StrikeOf[hand[t]] /\ hand[s] # hand[t]
        BY <1>2, <3>2, <4>1, StrategyManagerConstants
      <4>3. \A p \in Orders : p # hand[s] => status'[p] = status[p]
        BY <1>3 DEF IInv, TypeOK
      <4> QED BY <3>2, <4>1, <4>2, <4>3 DEF IInv, RunnerInv, HandInv
    <3>3. CASE t # s /\ step[t] \notin Placing
      BY <2>3, <3>3 DEF IInv, TypeOK, Placing
    <3> QED BY <3>1, <3>2, <3>3
  <2> QED BY <2>4, <2>5, <2>6, <2>7 DEF IInv, RunnerInv
<1>4. CASE /\ Goes(s, "idle")
           /\ hand' = [hand EXCEPT ![s] = NoOrder]
           /\ UNCHANGED status
  <2>1. step' = [step EXCEPT ![s] = "idle"]
    BY <1>4 DEF Goes
  <2>2. TypeOK' /\ LoopInv'
    BY <1>1, <1>4, <2>1, OnlyOwn, RunnerFrame DEF IInv, TypeOK, Placing
  <2>3. RunnerInv'
    BY <1>1, <1>4, <2>1
    DEF IInv, TypeOK, RunnerInv, RunnersKnown, Live, HandInv, SentHasRow, OneOpen, Placing
  <2> QED BY <2>2, <2>3 DEF IInv
<1> QED BY <1>3, <1>4 DEF PlaceRow

LEMMA CallBrokerStep == \A s \in Symbols : IInv /\ RunnerStep(s) /\ CallBroker(s) => IInv'
<1> SUFFICES ASSUME IInv, NEW s \in Symbols, RunnerStep(s), CallBroker(s) PROVE IInv' OBVIOUS
<1>1. /\ step[s] = "placing" /\ step' = [step EXCEPT ![s] = "answered"]
      /\ sent' \in {sent, sent \cup {hand[s]}}
      /\ UNCHANGED <<hand, status, queue, taken, found, monitored, troubles, running>>
  BY DEF CallBroker, Goes, RunnerStep, Record, Enqueue, queueVars
<1>2. hand[s] \in Orders /\ status[hand[s]] # "none"
  BY <1>1 DEF IInv, TypeOK, RunnerInv, HandInv, Placing
<1>3. hand' = [hand EXCEPT ![s] = hand'[s]] /\ hand'[s] \in Orders
  BY <1>1, <1>2 DEF IInv, TypeOK
<1>4. TypeOK' /\ LoopInv'
  <2>1. sent' \in SUBSET Orders
    BY <1>1, <1>2 DEF IInv, TypeOK
  <2>2. /\ troubles' \in 0..MaxTroubles /\ queue' \in Seq(Orders \X BOOLEAN)
        /\ status' \in [Orders -> {"none", "open", "exiting", "over"}]
    BY <1>1 DEF IInv, TypeOK
  <2>3. "answered" \in Placing
    BY DEF Placing
  <2> QED BY <1>1, <1>3, <2>1, <2>2, <2>3, OnlyOwn, RunnerFrame
<1>5. RunnerInv'
  BY <1>1, <1>2
  DEF IInv, TypeOK, RunnerInv, RunnersKnown, Live, HandInv, SentHasRow, OneOpen, Placing
<1> QED BY <1>4, <1>5 DEF IInv

LEMMA RecordStep == \A s \in Symbols : IInv /\ RunnerStep(s) /\ Record(s) => IInv'
<1> SUFFICES ASSUME IInv, NEW s \in Symbols, RunnerStep(s), Record(s) PROVE IInv' OBVIOUS
<1>1. step[s] = "answered" /\ UNCHANGED <<status, sent>>
  BY DEF Record, orderVars
<1>2. troubles' \in 0..MaxTroubles
  BY TroublesType DEF IInv, Record
<1>3. UNCHANGED <<queue, taken, found, monitored, running>>
  BY <1>1 DEF RunnerStep, Setup, Cycle, PlaceRow, CallBroker, Enqueue, queueVars
<1>4. CASE step' = [step EXCEPT ![s] = "placed"] /\ UNCHANGED hand
  <2>1. hand' = [hand EXCEPT ![s] = hand'[s]] /\ hand'[s] \in Orders
    BY <1>1, <1>4 DEF IInv, TypeOK, Placing
  <2>2. TypeOK' /\ LoopInv'
    BY <1>1, <1>4, <1>2, <1>3, <2>1, OnlyOwn, RunnerFrame DEF IInv, TypeOK, Placing
  <2>3. RunnerInv'
    BY <1>1, <1>4, <1>3
    DEF IInv, TypeOK, RunnerInv, RunnersKnown, Live, HandInv, SentHasRow, OneOpen, Placing
  <2> QED BY <2>2, <2>3 DEF IInv
<1>5. CASE step' = [step EXCEPT ![s] = "idle"] /\ hand' = [hand EXCEPT ![s] = NoOrder]
  <2>1. TypeOK' /\ LoopInv'
    BY <1>1, <1>5, <1>2, <1>3, OnlyOwn, RunnerFrame DEF IInv, TypeOK, Placing
  <2>2. RunnerInv'
    BY <1>1, <1>5, <1>3
    DEF IInv, TypeOK, RunnerInv, RunnersKnown, Live, HandInv, SentHasRow, OneOpen, Placing
  <2> QED BY <2>1, <2>2 DEF IInv
<1> QED BY <1>4, <1>5 DEF Record, Goes

LEMMA EnqueueStep == \A s \in Symbols : IInv /\ RunnerStep(s) /\ Enqueue(s) => IInv'
<1> SUFFICES ASSUME IInv, NEW s \in Symbols, RunnerStep(s), Enqueue(s) PROVE IInv' OBVIOUS
<1>1. /\ step[s] = "placed" /\ step' = [step EXCEPT ![s] = "idle"]
      /\ hand' = [hand EXCEPT ![s] = NoOrder]
      /\ queue' = Append(queue, <<hand[s], TRUE>>)
      /\ UNCHANGED <<status, sent, taken, found, monitored, troubles, running>>
  BY DEF Enqueue, Goes, RunnerStep, Setup, Cycle, PlaceRow, CallBroker, Record, orderVars
<1>2. <<hand[s], TRUE>> \in Orders \X BOOLEAN
  BY <1>1 DEF IInv, TypeOK, Placing
<1>3. queue' \in Seq(Orders \X BOOLEAN)
  BY <1>1, <1>2, AppendProperties DEF IInv, TypeOK
<1>4. TypeOK' /\ LoopInv'
  BY <1>1, <1>3, OnlyOwn, RunnerFrame DEF IInv, TypeOK, Placing
<1>5. RunnerInv'
  BY <1>1
  DEF IInv, TypeOK, RunnerInv, RunnersKnown, Live, HandInv, SentHasRow, OneOpen, Placing
<1> QED BY <1>4, <1>5 DEF IInv

--------------------------------------------------------------------------------
(***************************************************************************)
(* The loop that starts the monitors, and the environment.                 *)
(***************************************************************************)
\* What the loop of the monitors does not touch.
LEMMA MonitorFrame ==
  ASSUME IInv, MonitorLoopStep,
         troubles' \in 0..MaxTroubles, queue' \in Seq(Orders \X BOOLEAN),
         taken' \in Orders \cup {NoOrder}, found' \in 0..MaxVersion,
         monitored' \in SUBSET Orders, cache' \in [Symbols -> Instances \cup {None}]
  PROVE  IInv'
<1>1. UNCHANGED <<open, window, active, stamp, pc, now, rows, todo, making, running,
                  timestamps, step, hand, status, sent>>
  BY DEF MonitorLoopStep, clockVars, dbVars, loopVars, runnerVars, orderVars
<1>2. TypeOK'
  BY <1>1 DEF IInv, TypeOK
<1>3. LoopInv'
  BY <1>1 DEF IInv, LoopInv
<1>4. RunnerInv'
  BY <1>1, RunnersAlone DEF IInv, runnerVars, orderVars
<1> QED BY <1>2, <1>3, <1>4 DEF IInv

LEMMA TakeStep == IInv /\ MonitorLoopStep /\ Take => IInv'
<1> SUFFICES ASSUME IInv, MonitorLoopStep, Take PROVE IInv' OBVIOUS
<1>1. taken = NoOrder /\ queue # <<>> /\ queue' = Tail(queue) /\ found' = found
  BY DEF Take
<1>2. queue' \in Seq(Orders \X BOOLEAN) /\ Head(queue) \in Orders \X BOOLEAN
  BY <1>1, HeadTailProperties DEF IInv, TypeOK
<1>3. UNCHANGED <<cache, troubles>>
  BY <1>1 DEF MonitorLoopStep, Lookup, LookedUp
<1>4. /\ taken' \in Orders \cup {NoOrder} /\ found' \in 0..MaxVersion
      /\ monitored' \in SUBSET Orders
  BY <1>1, <1>2 DEF IInv, TypeOK, Take
<1>5. troubles' \in 0..MaxTroubles /\ cache' \in [Symbols -> Instances \cup {None}]
  BY <1>3 DEF IInv, TypeOK
<1> QED BY <1>2, <1>4, <1>5, MonitorFrame

LEMMA LookupStep == IInv /\ MonitorLoopStep /\ Lookup => IInv'
<1> SUFFICES ASSUME IInv, MonitorLoopStep, Lookup PROVE IInv' OBVIOUS
<1> USE StrategyManagerConstants
<1>1. taken \in Orders /\ SymbolOf[taken] \in Symbols /\ UNCHANGED queue
  BY DEF IInv, TypeOK, Lookup, Monitor
<1>2. /\ taken' \in Orders \cup {NoOrder} /\ monitored' \in SUBSET Orders
      /\ found' \in 0..MaxVersion /\ cache' \in [Symbols -> Instances \cup {None}]
  <2>1. taken' \in Orders \cup {NoOrder} /\ monitored' \in SUBSET Orders
    BY <1>1 DEF IInv, TypeOK, Lookup, Monitor
  <2>2. stamp[SymbolOf[taken]] \in 0..MaxVersion /\ 0 \in 0..MaxVersion
    BY <1>1 DEF IInv, TypeOK, Versions
  <2>3. found' \in {0, stamp[SymbolOf[taken]]}
    BY DEF Lookup, Monitor
  <2>4. UNCHANGED cache \/ cache' = [cache EXCEPT ![SymbolOf[taken]] = None]
    BY DEF Lookup
  <2>5. cache' \in [Symbols -> Instances \cup {None}]
    BY <1>1, <2>4 DEF IInv, TypeOK
  <2> QED BY <2>1, <2>2, <2>3, <2>5
<1>3. troubles' \in 0..MaxTroubles /\ queue' \in Seq(Orders \X BOOLEAN)
  BY <1>1, TroublesType DEF IInv, TypeOK, Lookup
<1> QED BY <1>2, <1>3, MonitorFrame

LEMMA LookedUpStep == IInv /\ MonitorLoopStep /\ LookedUp => IInv'
<1> SUFFICES ASSUME IInv, MonitorLoopStep, LookedUp PROVE IInv' OBVIOUS
<1>1. /\ taken \in Orders /\ SymbolOf[taken] \in Symbols /\ UNCHANGED queue
      /\ found \in Versions
  BY StrategyManagerConstants DEF IInv, TypeOK, LookedUp, Monitor, Versions
<1>2. <<found, "order">> \in Instances
  BY <1>1, InstanceType
<1>3. /\ taken' \in Orders \cup {NoOrder} /\ found' \in 0..MaxVersion
      /\ monitored' \in SUBSET Orders /\ cache' \in [Symbols -> Instances \cup {None}]
  <2>1. taken' = NoOrder /\ found' = 0 /\ monitored' = monitored \cup {taken}
    BY DEF LookedUp, Monitor
  <2>2. monitored \in SUBSET Orders /\ 0 \in 0..MaxVersion
    BY StrategyManagerConstants DEF IInv, TypeOK
  <2>3. /\ taken' \in Orders \cup {NoOrder} /\ found' \in 0..MaxVersion
        /\ monitored' \in SUBSET Orders
    BY <1>1, <2>1, <2>2
  <2>4. UNCHANGED cache \/ cache' = [cache EXCEPT ![SymbolOf[taken]] = <<found, "order">>]
    BY DEF LookedUp
  <2>5. cache' \in [Symbols -> Instances \cup {None}]
    BY <1>1, <1>2, <2>4 DEF IInv, TypeOK
  <2> QED BY <2>3, <2>5
<1>4. troubles' \in 0..MaxTroubles /\ queue' \in Seq(Orders \X BOOLEAN)
  BY <1>1, TroublesType DEF IInv, TypeOK, LookedUp
<1> QED BY <1>3, <1>4, MonitorFrame

LEMMA ClockStep == IInv /\ Clock => IInv'
<1> SUFFICES ASSUME IInv, Clock PROVE IInv' OBVIOUS
<1>1. TypeOK'
  BY StrategyManagerConstants
  DEF IInv, TypeOK, Clock, dbVars, loopVars, runnerVars, queueVars, orderVars
<1>2. LoopInv'
  BY DEF IInv, LoopInv, Clock, loopVars
<1> QED BY <1>1, <1>2, RunnersAlone DEF IInv, Clock

LEMMA EditStep == \A s \in Symbols : IInv /\ Edit(s) => IInv'
<1> SUFFICES ASSUME IInv, NEW s \in Symbols, Edit(s) PROVE IInv' OBVIOUS
<1>1. stamp' \in [Symbols -> Versions] /\ active' \in SUBSET Symbols
  BY StrategyManagerConstants DEF IInv, TypeOK, Edit, Versions
<1>2. TypeOK'
  BY <1>1 DEF IInv, TypeOK, Edit, clockVars, loopVars, runnerVars, queueVars, orderVars
<1>3. LoopInv'
  BY DEF IInv, LoopInv, Edit, loopVars
<1> QED BY <1>2, <1>3, RunnersAlone DEF IInv, Edit

\* A strike whose order is over is free, and no other changes.
LEMMA FinishStep == \A o \in Orders : IInv /\ Finish(o) => IInv'
<1> SUFFICES ASSUME IInv, NEW o \in Orders, Finish(o) PROVE IInv' OBVIOUS
<1>1. /\ status[o] \in {"open", "exiting"}
      /\ \E new \in {"exiting", "over"} : status' = [status EXCEPT ![o] = new]
      /\ UNCHANGED <<open, window, active, stamp, pc, now, rows, todo, making, running,
                     cache, timestamps, step, hand, queue, taken, found, monitored,
                     troubles>>
      /\ sent' \in {sent, sent \ {o}}
  BY DEF Finish, clockVars, dbVars, loopVars, runnerVars, queueVars
<1>2. TypeOK'
  BY <1>1 DEF IInv, TypeOK
<1>3. LoopInv'
  BY <1>1 DEF IInv, LoopInv
<1>4. RunnerInv'
  BY <1>1
  DEF IInv, TypeOK, RunnerInv, RunnersKnown, Live, HandInv, SentHasRow, OneOpen, Placing
<1> QED BY <1>2, <1>3, <1>4 DEF IInv

LEMMA RestartStep == IInv /\ Restart => IInv'
<1> SUFFICES ASSUME IInv, Restart PROVE IInv' OBVIOUS
<1> USE StrategyManagerConstants
<1>1. PICK through \in SUBSET {hand[s] : s \in {t \in Symbols : step[t] = "placing"}} :
        sent' = sent \cup through
  BY DEF Restart
<1>2. \A o \in through : o \in Orders /\ status[o] # "none"
  BY <1>1 DEF IInv, TypeOK, RunnerInv, HandInv, Placing
<1>3. sent' \in SUBSET Orders /\ SentHasRow'
  BY <1>1, <1>2 DEF IInv, TypeOK, RunnerInv, SentHasRow, Restart
<1>4. queue' \in Seq(Orders \X BOOLEAN) /\ troubles' \in 0..MaxTroubles
  BY EmptySeq DEF IInv, TypeOK, Restart, Fail
<1>5. \A s \in Symbols : (hand[s] # NoOrder <=> step[s] \in Placing)'
  BY DEF Restart, Placing
<1>6. TypeOK'
  BY <1>3, <1>4, <1>5 DEF IInv, TypeOK, Restart, clockVars, dbVars
<1>7. LoopInv'
  BY DEF LoopInv, Restart
<1>8. RunnersKnown' /\ HandInv' /\ OneOpen'
  BY DEF IInv, RunnerInv, RunnersKnown, HandInv, OneOpen, Restart, Placing
<1> QED BY <1>3, <1>6, <1>7, <1>8 DEF IInv, RunnerInv

LEMMA StutterStep == IInv /\ UNCHANGED managerVars => IInv'
<1> SUFFICES ASSUME IInv, UNCHANGED managerVars PROVE IInv' OBVIOUS
<1>1. UNCHANGED <<open, window, active, stamp, pc, now, rows, todo, making, running,
                  cache, timestamps, step, hand, queue, taken, found, monitored, status, sent,
                  troubles>>
  BY DEF managerVars, clockVars, dbVars, loopVars, runnerVars, queueVars, orderVars
<1>2. TypeOK'
  BY <1>1 DEF IInv, TypeOK
<1>3. LoopInv'
  BY <1>1 DEF IInv, LoopInv
<1> QED BY <1>1, <1>2, <1>3, RunnersAlone DEF IInv, runnerVars, orderVars

--------------------------------------------------------------------------------
LEMMA NextInv == IInv /\ [Next]_managerVars => IInv'
<1> SUFFICES ASSUME IInv, [Next]_managerVars PROVE IInv' OBVIOUS
<1>1. CASE PollStep
  BY <1>1, StartupStep, TopStep, QueryStep, SymbolStep, MakeStep, EndIterationStep DEF PollStep
<1>2. ASSUME NEW s \in Symbols, RunnerStep(s) PROVE IInv'
  BY <1>2, SetupStep, CycleStep, PlaceRowStep, CallBrokerStep, RecordStep, EnqueueStep
  DEF RunnerStep
<1>3. CASE MonitorLoopStep
  BY <1>3, TakeStep, LookupStep, LookedUpStep DEF MonitorLoopStep
<1>4. CASE Clock \/ (\E s \in Symbols : Edit(s)) \/ (\E o \in Orders : Finish(o)) \/ Restart
  BY <1>4, ClockStep, EditStep, FinishStep, RestartStep
<1>5. CASE UNCHANGED managerVars
  BY <1>5, StutterStep
<1> QED BY <1>1, <1>2, <1>3, <1>4, <1>5 DEF Next

\* The invariant holds in every state of every behaviour of the manager.
THEOREM ManagerInv == Spec => []IInv
<1> QED BY InitInv, NextInv, PTL DEF Spec

\* The variables of run_poll_loop and of the tasks it starts keep their types,
\* whatever is edited, fails or is restarted.
THEOREM ManagerTypes == Spec => []TypeOK
<1>1. IInv => TypeOK
  BY DEF IInv
<1> QED BY <1>1, ManagerInv, PTL

\* Every runner there is can be cancelled through running_tasks.
THEOREM ManagerKnowsRunners == Spec => []RunnersKnown
<1>1. IInv => RunnersKnown
  BY DEF IInv, RunnerInv
<1> QED BY <1>1, ManagerInv, PTL

\* However many runners are cancelled while they place orders, however often the
\* process is restarted: no strike has two orders out.
THEOREM OneOrderPerStrike == Spec => []OneOpenOrder
<1>1. IInv => OneOpenOrder
  <2> SUFFICES ASSUME IInv,
                      NEW o \in Positions \cup {q \in sent : status[q] = "none"},
                      NEW p \in Positions \cup {q \in sent : status[q] = "none"},
                      StrikeOf[o] = StrikeOf[p]
               PROVE  o = p
    BY DEF OneOpenOrder
  <2>1. \A q \in Positions \cup {r \in sent : status[r] = "none"} :
           q \in Orders /\ status[q] = "open"
    BY DEF IInv, RunnerInv, SentHasRow, Positions
  <2> QED BY <2>1 DEF IInv, RunnerInv, OneOpen
<1> QED BY <1>1, ManagerInv, PTL

--------------------------------------------------------------------------------
(***************************************************************************)
(* The configurations.  An instance that was made for its symbol is in the *)
(* cache only while its runner runs, so that a runner that is started from *)
(* the cache has one that was made for an order; what the loop has seen of *)
(* a symbol is not newer than what the query returned, nor that than the   *)
(* database.                                                               *)
(***************************************************************************)
ConfigInv ==
  /\ RunsSeenConfig
  /\ \A s \in Symbols : cache[s][2] = "symbol" => s \in Live
  /\ \A s \in Symbols : timestamps[s] <= stamp[s]
  /\ \A s \in todo : timestamps[s] <= rows[s] /\ rows[s] <= stamp[s]
  /\ making # NoSymbol => timestamps[making] = rows[making]

\* What an iteration has come to is settled: a runner for each symbol of the query that
\* is in its window, but for the one at hand, unless something failed; and no other.
SettleInv ==
  pc \in {"symbols", "make"} =>
    /\ making # NoSymbol => making \in now /\ making \notin todo
    /\ \A s \in Symbols \ todo :
         /\ s \in Live => s \in now /\ rows[s] # 0
         /\ troubles = 0 /\ s # making /\ s \in now /\ rows[s] # 0 => s \in Live

ConfigsInv == ConfigInv /\ SettleInv

LEMMA ConfigsInitInv == Init => ConfigsInv
<1> SUFFICES ASSUME Init PROVE ConfigsInv OBVIOUS
<1>1. \A s \in Symbols : running[s] = None /\ cache[s] = None /\ timestamps[s] = 0 /\ stamp[s] = 1
  BY DEF Init
<1>2. None[2] # "symbol"
  BY DEF None
<1>3. ConfigInv
  BY <1>1, <1>2 DEF Init, ConfigInv, RunsSeenConfig
<1>4. SettleInv
  BY DEF Init, SettleInv
<1> QED BY <1>3, <1>4 DEF ConfigsInv

\* What the configurations are numbers of.
LEMMA ConfigNumbers ==
  ASSUME TypeOK
  PROVE  \A s \in Symbols : stamp[s] \in Nat /\ stamp[s] > 0 /\ timestamps[s] \in Nat /\ rows[s] \in Nat
  BY StrategyManagerConstants DEF TypeOK, Versions

\* Steps of the others: they leave the loop and the runners alone, and put nothing into
\* the cache but instances for orders.
LEMMA LoopAlone ==
  ASSUME IInv, ConfigsInv, UNCHANGED <<pc, now, rows, todo, making, running, timestamps>>,
         \A s \in Symbols : cache'[s][2] = "symbol" => cache'[s] = cache[s],
         stamp' \in [Symbols -> Versions], \A s \in Symbols : stamp[s] <= stamp'[s],
         troubles' = 0 => troubles = 0
  PROVE  ConfigsInv'
<1>1. \A s \in Symbols : stamp[s] \in Nat /\ timestamps[s] \in Nat /\ rows[s] \in Nat /\ stamp'[s] \in Nat
  BY ConfigNumbers, StrategyManagerConstants DEF IInv, Versions
<1>2. todo \subseteq Symbols /\ Live' = Live
  BY DEF IInv, TypeOK, Live
<1>3. ConfigInv'
  BY <1>1, <1>2 DEF ConfigsInv, ConfigInv, RunsSeenConfig
<1>4. SettleInv'
  BY <1>2 DEF ConfigsInv, SettleInv
<1> QED BY <1>3, <1>4 DEF ConfigsInv

\* Calls only add to the troubles there were.
LEMMA TroublesGrow ==
  ASSUME IInv, Fine \/ Fail, troubles' = 0
  PROVE  troubles = 0 /\ Fine
<1>1. troubles \in Nat
  BY StrategyManagerConstants DEF IInv, TypeOK
<1> QED BY <1>1 DEF Fine, Fail

LEMMA OthersConfigs ==
  ASSUME IInv, ConfigsInv,
         (\E s \in Symbols : RunnerStep(s)) \/ MonitorLoopStep \/ Clock \/ (\E s \in Symbols : Edit(s))
           \/ (\E o \in Orders : Finish(o)) \/ UNCHANGED managerVars
  PROVE  ConfigsInv'
<1>1. \A s \in Symbols : stamp[s] \in Nat
  BY ConfigNumbers DEF IInv
<1>2. stamp \in [Symbols -> Versions]
  BY DEF IInv, TypeOK
<1>3. CASE \E s \in Symbols : RunnerStep(s)
  <2>1. UNCHANGED <<pc, now, rows, todo, making, running, timestamps, cache, stamp>>
    BY <1>3 DEF RunnerStep, loopVars, dbVars
  <2>2. Fine \/ Fail
    BY <1>3 DEF RunnerStep, Record, Fine
  <2> QED BY <1>1, <1>2, <2>1, <2>2, TroublesGrow, LoopAlone
<1>4. CASE MonitorLoopStep
  <2>1. UNCHANGED <<pc, now, rows, todo, making, running, timestamps, stamp>>
    BY <1>4 DEF MonitorLoopStep, loopVars, dbVars
  <2>2. Fine \/ Fail
    BY <1>4 DEF MonitorLoopStep, Lookup, LookedUp, Fine
  <2>3. \/ UNCHANGED cache
        \/ cache' = [cache EXCEPT ![SymbolOf[taken]] = None]
        \/ cache' = [cache EXCEPT ![SymbolOf[taken]] = <<found, "order">>]
    BY <1>4 DEF MonitorLoopStep, Lookup, LookedUp
  <2>4. \A s \in Symbols : cache'[s] \in {cache[s], None, <<found, "order">>}
    BY <2>3 DEF IInv, TypeOK
  <2>5. \A s \in Symbols : cache'[s][2] = "symbol" => cache'[s] = cache[s]
    BY <2>4 DEF None
  <2> QED BY <1>1, <1>2, <2>1, <2>2, <2>5, TroublesGrow, LoopAlone
<1>5. CASE Clock \/ (\E o \in Orders : Finish(o)) \/ UNCHANGED managerVars
  <2>1. UNCHANGED <<pc, now, rows, todo, making, running, timestamps, cache, stamp, troubles>>
    BY <1>5 DEF Clock, Finish, loopVars, dbVars, managerVars
  <2> QED BY <1>1, <1>2, <2>1, LoopAlone
<1>6. ASSUME NEW s \in Symbols, Edit(s) PROVE ConfigsInv'
  <2>1. UNCHANGED <<pc, now, rows, todo, making, running, timestamps, cache, troubles>>
    BY <1>6 DEF Edit, loopVars
  <2>2. stamp' = [stamp EXCEPT ![s] = stamp[s] + 1] /\ stamp[s] < MaxVersion
    BY <1>6 DEF Edit
  <2>3. stamp' \in [Symbols -> Versions] /\ \A t \in Symbols : stamp[t] <= stamp'[t]
    BY <1>1, <1>2, <2>2, StrategyManagerConstants DEF Versions
  <2> QED BY <2>1, <2>3, LoopAlone
<1> QED BY <1>3, <1>4, <1>5, <1>6

\* Between two iterations the runners are as they were, or fewer.
LEMMA BetweenIterations ==
  ASSUME IInv, ConfigsInv, pc' \notin {"symbols", "make"}, UNCHANGED stamp,
         \/ todo' = {} /\ making' = NoSymbol
         \/ UNCHANGED <<rows, todo, making, timestamps>>,
         \A s \in Symbols :
           \/ /\ running'[s] = running[s] /\ timestamps'[s] = timestamps[s]
              /\ cache'[s][2] = "symbol" => cache'[s] = cache[s]
           \/ /\ running'[s] = None /\ cache'[s][2] # "symbol"
              /\ timestamps'[s] = timestamps[s] \/ timestamps'[s] = 0
  PROVE  ConfigsInv'
<1>1. \A s \in Symbols : stamp[s] \in Nat /\ timestamps[s] \in Nat
  BY ConfigNumbers DEF IInv
<1>2. None[2] # "symbol"
  BY DEF None
<1>3. RunsSeenConfig'
  BY <1>2 DEF ConfigsInv, ConfigInv, RunsSeenConfig
<1>4. \A s \in Symbols : cache'[s][2] = "symbol" => s \in Live'
  BY DEF ConfigsInv, ConfigInv, Live
<1>5. \A s \in Symbols : timestamps'[s] <= stamp[s]
  BY <1>1 DEF ConfigsInv, ConfigInv
<1>6. /\ \A s \in todo' : timestamps'[s] <= rows'[s] /\ rows'[s] <= stamp'[s]
      /\ making' # NoSymbol => timestamps'[making'] = rows'[making']
  BY DEF ConfigsInv, ConfigInv
<1>7. ConfigInv'
  BY <1>3, <1>4, <1>5, <1>6 DEF ConfigInv
<1> QED BY <1>7 DEF ConfigsInv, SettleInv

LEMMA CancelledRunners ==
  ASSUME NEW S, Cancelled(S)
  PROVE  \A s \in Symbols :
           IF s \in S THEN running'[s] = None /\ cache'[s] = None
           ELSE running'[s] = running[s] /\ cache'[s] = cache[s]
  BY DEF Cancelled

LEMMA QuietConfigs ==
  ASSUME IInv, ConfigsInv, Startup \/ Top \/ EndIteration \/ Restart
  PROVE  ConfigsInv'
<1>1. None[2] # "symbol"
  BY DEF None
<1>2. CASE Startup
  <2>1. pc' = "top" /\ UNCHANGED <<rows, todo, making, running, timestamps, stamp>>
    BY <1>2 DEF Startup, dbVars
  <2>2. \A s \in Symbols : cache'[s] \in {cache[s], None, <<stamp[s], "order">>}
    BY <1>2 DEF Startup
  <2>3. \A s \in Symbols : cache'[s][2] = "symbol" => cache'[s] = cache[s]
    BY <1>1, <2>2
  <2> QED BY <2>1, <2>3, BetweenIterations
<1>3. CASE Top
  <2>1. pc' \in {"top", "query"} /\ UNCHANGED <<rows, todo, making, timestamps, stamp>>
    BY <1>3 DEF Top, dbVars
  <2>2. UNCHANGED <<running, cache>> \/ Cancelled(Live)
    BY <1>3 DEF Top
  <2>3. \A s \in Symbols : \/ running'[s] = running[s] /\ cache'[s] = cache[s]
                           \/ running'[s] = None /\ cache'[s] = None
    BY <2>2, CancelledRunners
  <2> QED BY <1>1, <2>1, <2>3, BetweenIterations
<1>4. CASE EndIteration
  BY <1>4, BetweenIterations DEF EndIteration, Sleep, dbVars
<1>5. CASE Restart
  BY <1>1, <1>5, BetweenIterations DEF Restart, dbVars
<1> QED BY <1>2, <1>3, <1>4, <1>5

LEMMA QueryConfigs == ASSUME IInv, ConfigsInv, Query PROVE ConfigsInv'
<1>1. CASE Sleep /\ UNCHANGED <<running, cache>>
  <2>1. UNCHANGED <<timestamps, stamp>>
    BY DEF Query, dbVars
  <2> QED BY <1>1, <2>1, BetweenIterations DEF Sleep
<1>2. CASE ~(Sleep /\ UNCHANGED <<running, cache>>)
  <2>1. /\ rows' = [s \in Symbols |-> IF s \in active THEN stamp[s] ELSE 0]
        /\ todo' = active /\ Cancelled(Live \ active)
        /\ UNCHANGED <<making, timestamps, stamp>> /\ pc = "query"
    BY <1>2 DEF Query, dbVars
  <2>2. active \subseteq Symbols /\ making = NoSymbol
    BY <2>1 DEF IInv, TypeOK
  <2>3. \A s \in Symbols : stamp[s] \in Nat /\ timestamps[s] \in Nat
    BY ConfigNumbers DEF IInv
  <2>4. None[2] # "symbol"
    BY DEF None
  <2>5. \A s \in Symbols :
          \/ s \in Live \ active /\ running'[s] = None /\ cache'[s] = None
          \/ s \notin Live \ active /\ running'[s] = running[s] /\ cache'[s] = cache[s]
    BY <2>1, CancelledRunners
  <2>6. RunsSeenConfig'
    BY <2>1, <2>4, <2>5 DEF ConfigsInv, ConfigInv, RunsSeenConfig
  <2>7. \A s \in Symbols : cache'[s][2] = "symbol" => s \in Live'
    BY <2>4, <2>5 DEF ConfigsInv, ConfigInv, Live
  <2>8. ConfigInv'
    BY <2>1, <2>2, <2>3, <2>6, <2>7 DEF ConfigsInv, ConfigInv
  <2>9. \A s \in Symbols \ active : s \notin Live' /\ rows'[s] = 0
    BY <2>1, <2>5 DEF Live
  <2> QED BY <2>1, <2>2, <2>8, <2>9 DEF ConfigsInv, SettleInv
<1> QED BY <1>1, <1>2

\* A runner of an old configuration is not kept, and none is started that has an
\* instance made for its symbol.
LEMMA SymbolConfigs == ASSUME IInv, ConfigsInv, NEW s \in Symbols, Symbol(s) PROVE ConfigsInv'
<1>1. /\ pc = "symbols" /\ s \in todo /\ todo' = todo \ {s}
      /\ timestamps' = [timestamps EXCEPT ![s] = rows[s]]
      /\ UNCHANGED <<stamp, now, rows, troubles>>
  BY DEF Symbol, dbVars
<1>2. /\ making = NoSymbol /\ todo \subseteq Symbols /\ rows[s] # 0
      /\ timestamps'[s] = rows[s]
      /\ \A t \in Symbols : t # s => timestamps'[t] = timestamps[t]
  BY <1>1 DEF IInv, TypeOK, LoopInv, Versions
<1>3. None[2] # "symbol"
  BY DEF None
<1>4. \A t \in Symbols : stamp[t] \in Nat /\ timestamps[t] \in Nat /\ rows[t] \in Nat
  BY ConfigNumbers DEF IInv
<1>5. timestamps[s] <= rows[s] /\ rows[s] <= stamp[s]
  BY <1>1 DEF ConfigsInv, ConfigInv
<1>6. /\ \/ pc' = "symbols" /\ making' = NoSymbol
         \/ pc' = "make" /\ making' = s /\ s \in now /\ running'[s] = None
      /\ \A t \in Symbols : t # s => running'[t] = running[t] /\ cache'[t] = cache[t]
      /\ \/ s \in now /\ s \notin Live /\ running'[s] = cache[s] /\ cache'[s] = cache[s]
            /\ cache[s] # None
         \/ running'[s] = None /\ cache'[s] = None /\ (making' = s \/ s \notin now)
         \/ /\ UNCHANGED <<running, cache>>
            /\ s \in Live <=> s \in now
            /\ s \in Live => ~Changed(s)
  <2>1. CASE Starts(s) /\ ~Stops(s) /\ Usable(s, "symbol") /\ Launch(s, cache[s])
             /\ UNCHANGED <<pc, making, cache>>
    BY <1>1, <1>2, <2>1 DEF Starts, Stops, Launch, Usable, IInv, TypeOK
  <2>2. CASE Starts(s) /\ Cancelled({s}) /\ pc' = "make" /\ making' = s
    BY <2>2, CancelledRunners DEF Starts
  <2>3. CASE ~Starts(s) /\ Stops(s) /\ Cancelled({s}) /\ UNCHANGED <<pc, making>>
    BY <1>1, <1>2, <2>3, CancelledRunners DEF Starts, Stops
  <2>4. CASE ~Starts(s) /\ ~Stops(s) /\ UNCHANGED <<pc, making, running, cache>>
    BY <1>1, <1>2, <2>4 DEF Starts, Stops
  <2> QED BY <2>1, <2>2, <2>3, <2>4 DEF Symbol
<1>7. running[s][2] = "symbol" /\ s \in Live /\ ~Changed(s) => rows[s] = timestamps[s]
  <2>1. running[s][2] = "symbol" => running[s] \in Instances
    BY <1>3 DEF IInv, TypeOK
  <2>2. running[s][2] = "symbol" => running[s][1] > 0 /\ running[s][1] = timestamps[s]
    BY <2>1 DEF Instances, Versions, ConfigsInv, ConfigInv, RunsSeenConfig
  <2> QED BY <1>4, <1>5, <2>2 DEF Changed
<1>8. running[s][2] = "symbol" => s \in Live
  BY <1>3 DEF Live
<1>9. cache[s][2] = "symbol" => s \in Live
  BY DEF ConfigsInv, ConfigInv
<1>10. RunsSeenConfig'
  <2>1. running'[s][2] = "symbol" => running'[s][1] = rows[s]
    BY <1>3, <1>6, <1>7, <1>8, <1>9 DEF ConfigsInv, ConfigInv, RunsSeenConfig
  <2> QED BY <1>2, <1>6, <2>1 DEF ConfigsInv, ConfigInv, RunsSeenConfig
<1>11. \A t \in Symbols : cache'[t][2] = "symbol" => t \in Live'
  BY <1>3, <1>6, <1>9 DEF ConfigsInv, ConfigInv, Live
<1>12. ConfigInv'
  BY <1>1, <1>2, <1>4, <1>5, <1>6, <1>10, <1>11 DEF ConfigsInv, ConfigInv
<1>13. \A t \in Symbols \ todo' : t # s =>
         /\ t \in Live' => t \in now /\ rows[t] # 0
         /\ troubles = 0 /\ t \in now /\ rows[t] # 0 => t \in Live'
  BY <1>1, <1>2, <1>6, StrategyManagerConstants DEF ConfigsInv, SettleInv, Live
<1>14. /\ s \in Live' => s \in now
       /\ s # making' /\ s \in now => s \in Live'
  BY <1>6 DEF Live
<1> QED BY <1>1, <1>2, <1>6, <1>12, <1>13, <1>14 DEF ConfigsInv, SettleInv

LEMMA MakeConfigs == ASSUME IInv, ConfigsInv, Make PROVE ConfigsInv'
<1> DEFINE inst == <<rows[making], "symbol">>
<1>1. pc = "make" /\ making \in Symbols /\ UNCHANGED <<stamp, timestamps>>
  BY DEF Make, IInv, TypeOK, dbVars
<1>2. /\ making \in now /\ making \notin todo /\ timestamps[making] = rows[making]
      /\ rows[making] \in Versions /\ running[making] = None
  BY <1>1, StrategyManagerConstants DEF IInv, TypeOK, LoopInv, ConfigsInv, ConfigInv, SettleInv
<1>3. \A t \in Symbols : stamp[t] \in Nat /\ timestamps[t] \in Nat /\ rows[t] \in Nat
  BY ConfigNumbers DEF IInv
<1>4. CASE Sleep /\ UNCHANGED <<cache, running>>
  BY <1>1, <1>4, BetweenIterations DEF Sleep
<1>5. CASE Fail /\ pc' = "symbols" /\ making' = NoSymbol
           /\ UNCHANGED <<now, rows, todo, cache, running>>
  <2>1. ConfigInv'
    BY <1>1, <1>5 DEF ConfigsInv, ConfigInv, RunsSeenConfig, Live
  <2>2. troubles' # 0
    BY <1>5, TroublesGrow DEF IInv, Fail, Fine
  <2>3. Live' = Live
    BY <1>5 DEF Live
  <2> QED BY <1>1, <1>5, <2>1, <2>2, <2>3 DEF ConfigsInv, SettleInv
<1>6. CASE /\ cache' = [cache EXCEPT ![making] = inst]
           /\ running' = [running EXCEPT ![making] = inst]
           /\ pc' = "symbols" /\ making' = NoSymbol
           /\ UNCHANGED <<now, rows, todo, troubles>>
  <2>1. /\ cache'[making] = inst /\ running'[making] = inst
        /\ \A t \in Symbols : t # making => cache'[t] = cache[t] /\ running'[t] = running[t]
    BY <1>1, <1>6 DEF IInv, TypeOK
  <2>2. inst # None /\ inst[1] = rows[making] /\ rows[making] # 0
    BY <1>2, StrategyManagerConstants DEF Versions, None
  <2>3. RunsSeenConfig'
    BY <1>1, <1>2, <2>1, <2>2 DEF ConfigsInv, ConfigInv, RunsSeenConfig
  <2>4. Live' = Live \cup {making}
    BY <1>1, <2>1, <2>2 DEF Live
  <2>5. \A t \in Symbols : cache'[t][2] = "symbol" => t \in Live'
    BY <2>1, <2>4 DEF ConfigsInv, ConfigInv
  <2>6. ConfigInv'
    BY <1>1, <1>6, <2>3, <2>5 DEF ConfigsInv, ConfigInv
  <2> QED BY <1>1, <1>2, <1>6, <2>2, <2>4, <2>6 DEF ConfigsInv, SettleInv
<1> QED BY <1>4, <1>5, <1>6 DEF Make, Launch, Fine

LEMMA ConfigsNextInv == IInv /\ ConfigsInv /\ [Next]_managerVars => ConfigsInv'
<1> SUFFICES ASSUME IInv, ConfigsInv, [Next]_managerVars PROVE ConfigsInv' OBVIOUS
<1>1. CASE PollStep
  BY <1>1, QuietConfigs, QueryConfigs, SymbolConfigs, MakeConfigs DEF PollStep
<1>2. CASE Restart
  BY <1>2, QuietConfigs
<1> QED BY <1>1, <1>2, OthersConfigs DEF Next

THEOREM ManagerConfigs == Spec => []ConfigsInv
<1> QED BY ManagerInv, ConfigsInitInv, ConfigsNextInv, PTL DEF Spec

\* However the API edits configurations while the loop goes round, and whatever the
\* monitor loop puts into the cache it shares: a runner works with the configuration
\* the loop has seen last.
THEOREM RunnersSeeConfig == Spec => []RunsSeenConfig
<1>1. ConfigsInv => RunsSeenConfig
  BY DEF ConfigsInv, ConfigInv
<1> QED BY <1>1, ManagerConfigs, PTL

\* An iteration that comes to its end has settled every symbol the query returned:
\* what changed while it made instances is left to the next one.
THEOREM IterationsSettle == Spec => IterationSettles
<1> DEFINE due == {s \in now : rows[s] # 0}
<1>1. IInv /\ ConfigsInv /\ [Next]_managerVars
        => (pc = "symbols" /\ pc' = "top"
              => Live' \subseteq due /\ (troubles = 0 => Live' = due))
  <2> SUFFICES ASSUME IInv, ConfigsInv, [Next]_managerVars, pc = "symbols", pc' = "top"
               PROVE  Live' \subseteq due /\ (troubles = 0 => Live' = due)
    OBVIOUS
  <2>1. todo = {} /\ UNCHANGED running
    <3>1. CASE PollStep
      BY <3>1 DEF PollStep, Startup, Top, Query, Symbol, Make, EndIteration
    <3>2. CASE UNCHANGED pc
      BY <3>2
    <3> QED BY <3>1, <3>2
        DEF Next, RunnerStep, MonitorLoopStep, Clock, Edit, Finish, Restart, loopVars, managerVars
  <2>2. making = NoSymbol /\ now \subseteq Symbols /\ Live' = Live
    BY <2>1 DEF IInv, TypeOK, Live
  <2>3. \A s \in Symbols : /\ s \in Live => s \in now /\ rows[s] # 0
                           /\ troubles = 0 /\ s \in now /\ rows[s] # 0 => s \in Live
    BY <2>1, <2>2, StrategyManagerConstants DEF ConfigsInv, SettleInv
  <2> QED BY <2>2, <2>3 DEF Live
<1>2. IInv /\ ConfigsInv /\ [Next]_managerVars
        => [pc = "symbols" /\ pc' = "top"
              => LET d == {s \in now : rows[s] # 0}
                 IN  Live' \subseteq d /\ (troubles = 0 => Live' = d)]_managerVars
  BY <1>1
<1> QED BY <1>2, ManagerInv, ManagerConfigs, PTL DEF Spec, IterationSettles

================================================================================
