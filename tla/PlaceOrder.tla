------------------------------- MODULE PlaceOrder ------------------------------
(***************************************************************************)
(* One call of OrderManager.place_order, or of split_and_place_order when the  *)
(* quantity is more than the exchange takes at once: the row of the order, for   *)
(* each slice the brokers one after the other (BrokerManager.place_order), and  *)
(* the rows of the executions, which are committed together at the end.        *)
(*                                                                         *)
(* Two database sessions are open for long: that of the executions, and one of   *)
(* BrokerManager for the brokers' ids.  A statement that fails leaves its        *)
(* session of no use: what follows in it fails too, and a commit keeps nothing.  *)
(***************************************************************************)
EXTENDS Naturals

CONSTANTS TradingBrokers,    \* those enabled for trading
          MaxSlices,
          MaxTroubles        \* bound: statements that fail

PlaceConstants == TradingBrokers # {} /\ MaxSlices \in Nat \ {0} /\ MaxTroubles \in Nat

VARIABLES order,      \* the slices to place, and whether check_margin is set
          place,      \* where the call is, in which slice, and the brokers to come
          reply,      \* broker_responses, of this slice
          market,     \* what brokers have taken: pairs of broker and slice
          mute,       \* those of them whose answer was lost
          session,    \* which of the two sessions still work
          pending,    \* the executions in the session
          executions, \* the table broker_executions
          troubles    \* the statements that have failed

placeVars == <<order, place, reply, market, mute, session, pending, executions, troubles>>

Slices == 1..MaxSlices

PlaceAt(pc) == place.pc = pc
Ends(pc) == place' = [place EXCEPT !.pc = pc, !.todo = {}]
EachBroker(pc) == place' = [place EXCEPT !.pc = pc, !.todo = TradingBrokers]

Trouble == troubles < MaxTroubles /\ troubles' = troubles + 1

\* What is in the session of the executions is gone with it.
Raised ==
  /\ Ends("raised")
  /\ pending' = {}

--------------------------------------------------------------------------------
\* The row of the order has a session and a commit of its own.
InsertOrder ==
  /\ PlaceAt("new")
  /\ EachBroker("brokers")
  /\ UNCHANGED <<order, reply, market, mute, session, pending, executions, troubles>>

\* No row: it returns None, or raises.
NoOrderRow ==
  /\ PlaceAt("new")
  /\ Ends("raised")
  /\ UNCHANGED <<order, reply, market, mute, session, pending, executions, troubles>>

\* The brokers to ask are read from the database at each slice.
NoBrokersRead ==
  /\ PlaceAt("brokers") /\ place.todo = TradingBrokers
  /\ Trouble /\ Raised
  /\ UNCHANGED <<order, reply, market, mute, session, executions>>

\* The next broker has answered, or is passed over.
Replied(b, said) ==
  /\ PlaceAt("brokers")
  /\ reply' = [reply EXCEPT ![b] = said]

Past(b) == place' = [place EXCEPT !.todo = place.todo \ {b}]

\* It is not logged in, does not know the symbol, or raises at every attempt, with
\* nothing sent.
Skip(b) ==
  /\ Replied(b, "False") /\ Past(b)
  /\ UNCHANGED <<order, market, mute, session, pending, executions, troubles>>

\* The margin does not suffice, or cannot be had.
NoMargin(b) ==
  /\ order.margin
  /\ Replied(b, "FAILED") /\ Past(b)
  /\ UNCHANGED <<order, market, mute, session, pending, executions, troubles>>

AskedOf(b) == place' = [place EXCEPT !.pc = "lookup", !.todo = place.todo \ {b}, !.asked = {b}]
Taken(b) == market' = market \union {<<b, place.slice>>}

Takes(b) ==
  /\ Replied(b, "AWAITING_ENTRY") /\ Taken(b) /\ AskedOf(b)
  /\ UNCHANGED <<order, mute, session, pending, executions, troubles>>

Refuses(b) ==
  /\ Replied(b, "FAILED") /\ AskedOf(b)
  /\ UNCHANGED <<order, market, mute, session, pending, executions, troubles>>

\* It takes the order and its answer is lost, which the wrapper says is a failure.
AnswerLost(b) ==
  /\ Replied(b, "FAILED") /\ Taken(b) /\ AskedOf(b)
  /\ mute' = mute \union {<<b, place.slice>>}
  /\ UNCHANGED <<order, session, pending, executions, troubles>>

\* get_broker_by_name, for the id of the broker that was asked.
Lookup ==
  /\ PlaceAt("lookup") /\ session.manager
  /\ place' = [place EXCEPT !.pc = "brokers", !.asked = {}]
  /\ UNCHANGED <<order, reply, market, mute, session, pending, executions, troubles>>

\* A mutant: the broker whose id is missing is a failure like any other.
LookupFailed ==
  /\ PlaceAt("lookup")
  /\ IF session.manager THEN Trouble ELSE UNCHANGED troubles
  /\ session' = [session EXCEPT !.manager = FALSE]
  /\ reply' = [b \in TradingBrokers |-> IF b \in place.asked THEN "FAILED" ELSE reply[b]]
  /\ place' = [place EXCEPT !.pc = "brokers", !.asked = {}]
  /\ UNCHANGED <<order, market, mute, pending, executions>>

\* It fails, and the answer of the broker is forgotten.
LookupFails ==
  /\ PlaceAt("lookup")
  /\ IF session.manager THEN Trouble ELSE UNCHANGED troubles
  /\ session' = [session EXCEPT !.manager = FALSE]
  /\ reply' = [b \in TradingBrokers |-> IF b \in place.asked THEN "False" ELSE reply[b]]
  /\ place' = [place EXCEPT !.pc = "brokers", !.asked = {}]
  /\ UNCHANGED <<order, market, mute, pending, executions>>

Fanned ==
  /\ PlaceAt("brokers") /\ place.todo = {}
  /\ EachBroker("record")
  /\ session' = [session EXCEPT !.manager = TRUE]
  /\ UNCHANGED <<order, reply, market, mute, pending, executions, troubles>>

--------------------------------------------------------------------------------
\* _insert_broker_execution: an answer without an order id gets no row.
Insert(b) ==
  /\ PlaceAt("record")
  /\ pending' = IF reply[b] # "False" /\ session.executions
                THEN pending \union {[broker |-> b, slice |-> place.slice, status |-> reply[b]]} ELSE pending
  /\ place' = [place EXCEPT !.todo = place.todo \ {b}]
  /\ UNCHANGED <<order, reply, market, mute, session, executions, troubles>>

\* The failure is not passed on, so the other brokers come next.
InsertFails(b) ==
  /\ PlaceAt("record") /\ reply[b] # "False" /\ session.executions
  /\ Trouble
  /\ session' = [session EXCEPT !.executions = FALSE]
  /\ pending' = {}
  /\ place' = [place EXCEPT !.todo = place.todo \ {b}]
  /\ UNCHANGED <<order, reply, market, mute, executions>>

NextSlice ==
  /\ PlaceAt("record") /\ place.todo = {} /\ place.slice < order.slices
  /\ place' = [place EXCEPT !.pc = "brokers", !.slice = place.slice + 1, !.todo = TradingBrokers]
  /\ UNCHANGED <<order, reply, market, mute, session, pending, executions, troubles>>

Commit ==
  /\ PlaceAt("record") /\ place.todo = {} /\ place.slice = order.slices
  /\ executions' = executions \union pending
  /\ pending' = {}
  /\ Ends("returned")
  /\ UNCHANGED <<order, reply, market, mute, session, troubles>>

\* It fails, or cannot be done in what is left of the session.
CommitRaises ==
  /\ PlaceAt("record") /\ place.todo = {} /\ place.slice = order.slices
  /\ IF session.executions THEN Trouble ELSE UNCHANGED troubles
  /\ Raised
  /\ UNCHANGED <<order, reply, market, mute, session, executions>>

\* The runner is cancelled, or the process gone; a call to a broker may get through.
Cut ==
  /\ place.pc \notin {"returned", "raised", "cut"}
  /\ \E sent \in {{}} \union {{<<b, place.slice>>} : b \in {c \in place.todo : PlaceAt("brokers")}} :
       market' = market \union sent /\ mute' = mute \union sent
  /\ Ends("cut")
  /\ pending' = {}
  /\ UNCHANGED <<order, reply, session, executions, troubles>>

--------------------------------------------------------------------------------
PlaceInit ==
  /\ order \in [slices : Slices, margin : BOOLEAN]
  /\ place = [pc |-> "new", slice |-> 1, todo |-> TradingBrokers, asked |-> {}]
  /\ reply = [b \in TradingBrokers |-> "none"]
  /\ market = {} /\ mute = {} /\ pending = {} /\ executions = {}
  /\ session = [manager |-> TRUE, executions |-> TRUE]
  /\ troubles = 0

PlaceNext ==
  \/ InsertOrder \/ NoOrderRow \/ NoBrokersRead
  \/ \E b \in place.todo :
       \/ Skip(b) \/ NoMargin(b) \/ Insert(b) \/ InsertFails(b)
       \/ Takes(b) \/ Refuses(b) \/ AnswerLost(b)
  \/ Lookup \/ LookupFails \/ Fanned
  \/ NextSlice \/ Commit \/ CommitRaises \/ Cut

PlaceSpec == PlaceInit /\ [][PlaceNext]_placeVars

--------------------------------------------------------------------------------
\* What the strategies look at: every broker says that it failed.  An order in
\* slices comes back without broker_responses, and "False" is no word for failure.
AllFailed == PlaceAt("returned") /\ order.slices = 1 /\ \A b \in TradingBrokers : reply[b] = "FAILED"

\* An order that is given up because all brokers failed is not in the market, unless
\* an answer was lost on its way: the seller's hedge is cleaned up, and its order
\* never placed, on the strength of this.
GivenUpIsOut == AllFailed => market \subseteq mute

\* When the call returns there is an execution for every order a broker took and
\* answered for, whatever the other brokers and slices did; but for statements that
\* failed.  What has no execution is never closed.
TakenIsRecorded ==
  PlaceAt("returned") /\ troubles = 0 =>
    \A m \in market \ mute :
      [broker |-> m[1], slice |-> m[2], status |-> "AWAITING_ENTRY"] \in executions

\* Both at once: what is given up is out of the market, whatever became of the call; and
\* what a call that returned has placed is recorded, if none of its statements failed
\* (order_manager.py:218).  Calls that raise or are cut off may leave orders unrecorded.
PlacedIsAccounted == GivenUpIsOut /\ TakenIsRecorded

================================================================================
