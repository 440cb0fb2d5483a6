------------------------------- MODULE ExitOrder -------------------------------
(***************************************************************************)
(* OrderManager.exit_order: closing a logical order at every broker that   *)
(* holds a part of it.                                                     *)
(*                                                                         *)
(* A logical order has one ENTRY row per broker in broker_executions (a    *)
(* "leg" here).  exit_order reads the rows of the order, exits its child   *)
(* (hedge) orders, then goes through the rows one at a time, awaiting the  *)
(* broker at every step.  It takes no lock: the price monitor, the signal  *)
(* monitor and the API may each have a call on the same order, and their   *)
(* steps interleave at every await.  An activation of exit_order is a      *)
(* frame <<c, o>>: caller c working on order o; the recursive call on a    *)
(* child h runs in frame <<c, h>>.                                         *)
(*                                                                         *)
(* The broker and the exchange are the environment.  A position is kept    *)
(* per book (a symbol at a broker), in signed lots: buying raises it.      *)
(***************************************************************************)
EXTENDS StatusMapping

CONSTANTS
  Callers,      \* coroutines and requests that may call exit_order
  Orders,       \* logical orders (rows of the orders table)
  Legs,         \* ENTRY rows of broker_executions
  Books,        \* a symbol at a broker: where a position is held
  OrderOf,      \* the order a leg belongs to (parent_order_id of the row)
  KindOf,       \* the broker a leg was placed with
  BookOf,       \* the book a leg trades in
  ParentOf,     \* orders.parent_order_id
  NoOrder,      \* parent of an order that is not a hedge
  BuyOrders,    \* orders whose side is BUY; the others are SELL
  Prompt,       \* the exchange executes a market order before anyone looks
  Crashes,      \* the process may be restarted
  MaxCalls      \* bound: calls of exit_order made from outside

\* What the theorems assume of the constants; every instance that is checked
\* satisfies it.
ExitOrderConstants ==
  /\ OrderOf \in [Legs -> Orders]
  /\ KindOf \in [Legs -> Kinds]
  /\ BookOf \in [Legs -> Books]
  /\ ParentOf \in [Orders -> Orders \cup {NoOrder}]
  /\ NoOrder \notin Orders
  /\ BuyOrders \subseteq Orders
  /\ Prompt \in BOOLEAN /\ Crashes \in BOOLEAN
  /\ MaxCalls \in Nat

\* What some of the properties assume besides: calls come one after the other, a
\* book is the position of one leg, a hedge has no hedge of its own, and the
\* legs are not at Angel, which alone reports partial fills.
OneAtATime     == \A c, d \in Callers : c = d
OwnBooks       == \A l, m \in Legs : BookOf[l] = BookOf[m] => l = m
HedgesHaveNone == \A h \in Orders : ParentOf[h] # NoOrder => ParentOf[ParentOf[h]] = NoOrder
NoneAtAngel    == \A l \in Legs : KindOf[l] # "angel"

VARIABLES
  \* the exchange
  truth,      \* [Legs -> Truths]: state of the entry order
  listed,     \* [Legs -> Truths]: the same, as the order cache last saw it
  book,       \* [Books -> Int]: net position
  flight,     \* [Books -> Seq(Int)]: market exit orders not yet executed
  sent,       \* books for which a broker has accepted an exit order
  \* the database
  status,     \* [Orders -> OrderStatuses]: orders.status
  entry,      \* [Legs -> ExecStatuses]: status of the ENTRY row
  exitRows,   \* [Legs -> Seq(ExecStatuses)]: statuses of the committed EXIT rows
  \* the frames of exit_order
  pc, opt, todo, kids, kid, seen, cur, qty, fresh,
  asked,      \* orders an exit has been requested for
  calls,
  \* what has gone wrong
  spoiled,    \* frames whose session has a failed statement: it commits nothing
  skipped,    \* [Frames -> SUBSET Orders]: hedges whose exit failed; logged only
  lost        \* legs whose EXIT row was lost: a failed statement, a restart

dbVars    == <<status, entry, exitRows>>
worldVars == <<truth, listed, book, flight, sent>>
localVars == <<opt, todo, kids, kid, seen, qty, fresh>>
failVars  == <<spoiled, skipped, lost>>
exitVars  == <<worldVars, dbVars, pc, cur, localVars, asked, calls, failVars>>

Frames == Callers \X Orders

\* A row of broker_executions as a call sees it: leg, index (0 is the ENTRY
\* row, i > 0 the i-th EXIT row) and status.
Row == Legs \X Nat \X ExecStatuses

\* The local variables of a frame that has nothing to remember.
NoRow   == <<>>
NoOpt   == [live |-> FALSE, manual |-> FALSE]
Unknown == [l \in Legs |-> "UNKNOWN"]

LegsOf(o)     == {l \in Legs : OrderOf[l] = o}
ChildrenOf(o) == {h \in Orders : ParentOf[h] = o}

\* What the leg's position is worth in lots once the entry has traded.
Lots(l, n) == IF OrderOf[l] \in BuyOrders THEN n ELSE -n

Abs(n) == IF n < 0 THEN -n ELSE n

CurLeg(f)   == cur[f][1]
CurIndex(f) == cur[f][2]
CurState(f) == cur[f][3]
CurBook(f)  == BookOf[CurLeg(f)]

--------------------------------------------------------------------------------
(***************************************************************************)
(* Starting a call.  Used by this module's environment and by the monitors *)
(* that EXTEND it: the frame is set up, nothing has been awaited yet.      *)
(***************************************************************************)
Start(f, live, manual) ==
  /\ pc[f] = "idle"
  /\ pc' = [pc EXCEPT ![f] = "read"]
  /\ opt' = [opt EXCEPT ![f] = [live |-> live, manual |-> manual]]
  /\ asked' = asked \cup {f[2]}
  /\ UNCHANGED <<cur, todo, kids, kid, seen, qty, fresh>>

\* Labels at which a frame works on the row in `cur`.
RowLabels == {"position", "place", "close", "cancel", "mark", "insert"}

\* On to the next label; a frame that has done with a row forgets it.
Goto(f, label) ==
  /\ pc[f] # label
  /\ pc' = [pc EXCEPT ![f] = label]
  /\ cur' = [cur EXCEPT ![f] = IF label \in RowLabels THEN @ ELSE NoRow]

\* The frame of the parent's call, which awaits this one.
Awaited(f) == \E o \in Orders : pc[<<f[1], o>>] = "await" /\ kid[<<f[1], o>>] = f[2]

\* An exception leaves the frame, and its session is closed without a commit.  The
\* call on the parent catches it; any other goes to the caller.
Raise(f) ==
  /\ fresh' = [fresh EXCEPT ![f] = {}]
  /\ lost' = lost \cup fresh[f]
  /\ spoiled' = spoiled \ {f}
  /\ skipped' = [skipped EXCEPT ![f] = {}]
  /\ seen' = [seen EXCEPT ![f] = Unknown]
  /\ opt' = [opt EXCEPT ![f] = NoOpt]
  /\ Goto(f, IF Awaited(f) THEN "raised" ELSE "idle")

\* The broker_executions rows of the order; an order without rows is left alone.
RowsOf(o) ==
  {<<l, 0, entry[l]>> : l \in LegsOf(o)} \cup
  UNION {{<<l, i, exitRows[l][i]>> : i \in DOMAIN exitRows[l]} : l \in LegsOf(o)}

ReadRows(f) ==
  /\ pc[f] = "read"
  /\ todo' = [todo EXCEPT ![f] = RowsOf(f[2])]
  /\ IF RowsOf(f[2]) = {}
       THEN Goto(f, "idle") /\ opt' = [opt EXCEPT ![f] = NoOpt]
       ELSE /\ Goto(f, IF opt[f].live THEN "fetch" ELSE "children")
            /\ UNCHANGED opt
  /\ UNCHANGED <<worldVars, dbVars, kids, kid, seen, qty, fresh, asked, calls, failVars>>

\* The statement fails, or the order is not there.
RowsUnread(f) ==
  /\ pc[f] = "read"
  /\ Raise(f)
  /\ UNCHANGED <<worldVars, dbVars, todo, kids, kid, qty, asked, calls>>

\* check_live_status: the order books of all brokers, fetched once per call.  A
\* broker that fails contributes an empty list: its legs stay unknown.
FetchLive(f) ==
  /\ pc[f] = "fetch"
  /\ \E S \in SUBSET LegsOf(f[2]) :
       seen' = [seen EXCEPT ![f] =
                  [l \in Legs |-> IF l \in S THEN View(KindOf[l], truth[l])
                                             ELSE "UNKNOWN"]]
  /\ Goto(f, "children")
  /\ UNCHANGED <<worldVars, dbVars, opt, todo, kids, kid, qty, fresh, asked, calls, failVars>>

\* exit_child_orders reads the children and skips the finished ones.
ReadChildren(f) ==
  /\ pc[f] = "children"
  /\ kids' = [kids EXCEPT ![f] =
       {h \in ChildrenOf(f[2]) :
          status[h] \notin {"FILLED", "CANCELLED", "REJECTED", "FAILED"}}]
  /\ Goto(f, "loop")
  /\ UNCHANGED <<worldVars, dbVars, opt, todo, kid, seen, qty, fresh, asked, calls, failVars>>

\* The statement fails, and the order is exited without its hedges.
ChildrenUnread(f) ==
  /\ pc[f] = "children"
  /\ skipped' = [skipped EXCEPT ![f] = ChildrenOf(f[2])]
  /\ Goto(f, "loop")
  /\ UNCHANGED <<worldVars, dbVars, opt, todo, kids, kid, seen, qty, fresh, asked, calls, spoiled, lost>>

\* ... and calls exit_order on each of the others, with its own arguments.
CallChild(f) ==
  /\ pc[f] = "loop"
  /\ \E h \in kids[f] :
       /\ pc[<<f[1], h>>] = "idle"
       /\ kid' = [kid EXCEPT ![f] = h]
       /\ kids' = [kids EXCEPT ![f] = @ \ {h}]
       /\ opt' = [opt EXCEPT ![<<f[1], h>>] = opt[f]]
       /\ asked' = asked \cup {h}
       /\ pc' = [pc EXCEPT ![f] = "await", ![<<f[1], h>>] = "read"]
  /\ UNCHANGED <<worldVars, dbVars, cur, todo, seen, qty, fresh, calls, failVars>>

\* Whatever became of the child at its brokers, its row is set to CLOSED.
ChildDone(f) ==
  /\ pc[f] = "await"
  /\ pc[<<f[1], kid[f]>>] = "idle"
  /\ status' = [status EXCEPT ![kid[f]] = "CLOSED"]
  /\ kid' = [kid EXCEPT ![f] = NoOrder]
  /\ Goto(f, "loop")
  /\ UNCHANGED <<worldVars, entry, exitRows, opt, todo, kids, seen, qty, fresh, asked, calls, failVars>>

\* The exit of the child raised, or its status could not be written: that is logged,
\* and the next one is taken.
ChildFailed(f) ==
  /\ pc[f] = "await"
  /\ pc[<<f[1], kid[f]>>] \in {"idle", "raised"}
  /\ skipped' = [skipped EXCEPT ![f] = @ \cup {kid[f]}]
  /\ kid' = [kid EXCEPT ![f] = NoOrder]
  /\ pc' = [pc EXCEPT ![f] = "loop", ![<<f[1], kid[f]>>] = "idle"]
  /\ UNCHANGED <<worldVars, dbVars, opt, todo, kids, cur, seen, qty, fresh, asked, calls, spoiled, lost>>

--------------------------------------------------------------------------------
(***************************************************************************)
(* The loop over the rows.                                                 *)
(***************************************************************************)
\* Variant: an order in the book is closed as if it had been filled.
DecisionOnOpen(l, st) ==
  IF st \in {"FILLED", "PARTIALLY_FILLED", "OPEN"}
    THEN IF KindOf[l] = "fyers" THEN "close" ELSE "position"
  ELSE IF st \in {"AWAITING_ENTRY", "PENDING", "TRIGGER_PENDING"} THEN "cancel"
  ELSE "loop"

\* Where a row with this status is taken to.
Decision(l, st) ==
  IF st \in {"FILLED", "PARTIALLY_FILLED"}
    THEN IF KindOf[l] = "fyers" THEN "close" ELSE "position"
  ELSE IF st \in {"AWAITING_ENTRY", "PENDING", "TRIGGER_PENDING"} THEN "cancel"
  ELSE "loop"

\* Variant: the rows are worked on before the children are done with.
TakeRowEarly(f) ==
  /\ pc[f] = "loop"
  /\ \E r \in todo[f] :
       /\ todo' = [todo EXCEPT ![f] = @ \ {r}]
       /\ pc' = [pc EXCEPT ![f] = Decision(r[1], r[3])]
       /\ cur' = [cur EXCEPT ![f] = IF Decision(r[1], r[3]) = "loop" THEN NoRow ELSE r]
  /\ UNCHANGED <<worldVars, dbVars, opt, kids, kid, seen, qty, fresh, asked, calls, failVars>>

\* Take a row; with check_live_status its status is first brought up to date
\* from the entry order at the broker, whose id the EXIT rows carry as well.  When
\* that cannot be written the call goes on with the live status all the same.
TakeRow(f) ==
  /\ pc[f] = "loop"
  /\ kids[f] = {}
  /\ \E r \in todo[f] :
       LET l  == r[1]
           st == IF seen[f][l] = "UNKNOWN" THEN r[3] ELSE seen[f][l]
       IN  /\ todo' = [todo EXCEPT ![f] = @ \ {r}]
           /\ pc' = [pc EXCEPT ![f] = Decision(l, st)]
           /\ cur' = [cur EXCEPT ![f] = IF Decision(l, st) = "loop"
                                         THEN NoRow ELSE <<l, r[2], st>>]
           /\ \/ /\ entry' = IF r[2] = 0 /\ st # r[3]
                               THEN [entry EXCEPT ![l] = st] ELSE entry
                 /\ exitRows' = IF r[2] # 0 /\ st # r[3]
                                  THEN [exitRows EXCEPT ![l][r[2]] = st] ELSE exitRows
              \/ UNCHANGED <<entry, exitRows>>
  /\ UNCHANGED <<worldVars, status, opt, kids, kid, seen, qty, fresh, asked, calls, failVars>>

\* After the broker's exit call: a partly filled order is cancelled next, and
\* then, as for a filled one, the EXIT row is inserted.
AfterExit(f) == IF CurState(f) = "PARTIALLY_FILLED" THEN "cancel" ELSE "insert"

\* Zerodha and Angel: exit_order of the broker reads the net position first.
\* A failed or an empty answer ends it with {"status": False}.
ReadPosition(f) ==
  /\ pc[f] = "position"
  /\ \E n \in {0, Abs(book[CurBook(f)])} :
       /\ qty' = [qty EXCEPT ![f] = n]
       /\ Goto(f, IF n = 0 THEN AfterExit(f) ELSE "place")
  /\ UNCHANGED <<worldVars, dbVars, opt, todo, kids, kid, seen, fresh, asked, calls, failVars>>

\* Variant: the side of the order instead of the opposite one.
ExitSideSame(f) == IF f[2] \in BuyOrders THEN 1 ELSE -1

\* ... and places a market order of that size.  Its side is the opposite of the
\* side exit_order was given; for a partly filled row none is given, and the
\* broker takes BUY.
ExitSide(f) ==
  IF CurState(f) = "FILLED" /\ f[2] \in BuyOrders THEN -1 ELSE 1

Execute(b, n) == book' = [book EXCEPT ![b] = @ + n]

PlaceExit(f) ==
  /\ pc[f] = "place"
  /\ LET b == CurBook(f)
         n == ExitSide(f) * qty[f]
     IN  \/ /\ sent' = sent \cup {b}
            /\ IF Prompt THEN Execute(b, n) /\ UNCHANGED flight
                         ELSE /\ flight' = [flight EXCEPT ![b] = Append(@, n)]
                              /\ UNCHANGED book
         \/ UNCHANGED <<book, flight, sent>>            \* rejected
  /\ qty' = [qty EXCEPT ![f] = 0]
  /\ Goto(f, AfterExit(f))
  /\ UNCHANGED <<truth, listed, dbVars, opt, todo, kids, kid, seen, fresh, asked, calls, failVars>>

\* Variant: an order of the position's size, placed again when the answer is lost.
ClosePositionAgain(f) ==
  /\ pc[f] = "close"
  /\ \E k \in {1, 2} : Execute(CurBook(f), -k * book[CurBook(f)])
  /\ sent' = sent \cup {CurBook(f)}
  /\ Goto(f, AfterExit(f))
  /\ UNCHANGED <<truth, listed, flight, dbVars, localVars, asked, calls, failVars>>

\* Fyers: exit_positions names the position and the broker flattens it.
ClosePosition(f) ==
  /\ pc[f] = "close"
  /\ \/ /\ book[CurBook(f)] # 0
        /\ Execute(CurBook(f), -book[CurBook(f)])
        /\ sent' = sent \cup {CurBook(f)}
     \/ UNCHANGED <<book, sent>>                        \* refused
  /\ Goto(f, AfterExit(f))
  /\ UNCHANGED <<truth, listed, flight, dbVars, localVars, asked, calls, failVars>>

\* BrokerManager has no such broker, or cannot read its name, and raises.  For a filled
\* row the error is caught around the call; for a partly filled one it skips the row.
BrokerMissing(f) ==
  /\ pc[f] \in {"position", "close"}
  /\ Goto(f, IF CurState(f) = "FILLED" THEN "insert" ELSE "loop")
  /\ UNCHANGED <<worldVars, dbVars, localVars, asked, calls, failVars>>

\* cancel_order at the broker: done and acknowledged, done but the answer is
\* lost, or refused.  Only an acknowledged cancel of an unfilled row is written.
Cancel(f) ==
  /\ pc[f] = "cancel"
  /\ LET l     == CurLeg(f)
         after == IF CurState(f) = "PARTIALLY_FILLED" THEN "insert" ELSE "loop"
     IN  \/ /\ truth[l] \in Cancellable
            /\ truth' = [truth EXCEPT ![l] = "CANCELLED"]
            /\ \/ Goto(f, IF after = "insert" THEN after ELSE "mark")
               \/ Goto(f, after)
         \/ UNCHANGED truth /\ Goto(f, after)
  /\ UNCHANGED <<listed, book, flight, sent, dbVars, localVars, asked, calls, failVars>>

\* The call raises (the rate limit, say): the row is skipped, and one that was partly
\* filled gets no EXIT row for what has been sent.
CancelRaises(f) ==
  /\ pc[f] = "cancel"
  /\ lost' = IF CurState(f) = "PARTIALLY_FILLED" THEN lost \cup {CurLeg(f)} ELSE lost
  /\ Goto(f, "loop")
  /\ UNCHANGED <<worldVars, dbVars, localVars, asked, calls, spoiled, skipped>>

MarkFails(f) ==
  /\ pc[f] = "mark"
  /\ Goto(f, "loop")
  /\ UNCHANGED <<worldVars, dbVars, localVars, asked, calls, failVars>>

MarkCancelled(f) ==
  /\ pc[f] = "mark"
  /\ IF CurIndex(f) = 0
       THEN /\ entry' = [entry EXCEPT ![CurLeg(f)] = "CANCELLED"]
            /\ UNCHANGED exitRows
       ELSE /\ exitRows' = [exitRows EXCEPT ![CurLeg(f)][CurIndex(f)] = "CANCELLED"]
            /\ UNCHANGED entry
  /\ Goto(f, "loop")
  /\ UNCHANGED <<worldVars, status, localVars, asked, calls, failVars>>

\* _insert_exit_broker_execution: nothing is inserted when the leg already has
\* an EXIT row this session can see.  The row is not committed yet.
InsertExit(f) ==
  /\ pc[f] = "insert"
  /\ f \notin spoiled
  /\ fresh' = [fresh EXCEPT ![f] =
                 IF exitRows[CurLeg(f)] = <<>> THEN @ \cup {CurLeg(f)} ELSE @]
  /\ Goto(f, "loop")
  /\ UNCHANGED <<worldVars, dbVars, opt, todo, kids, kid, seen, qty, asked, calls, failVars>>

\* A statement of the session fails, and with it all that come after it and the commit:
\* the rows inserted before are lost as well.  The error is swallowed.
InsertFails(f) ==
  /\ pc[f] = "insert"
  /\ fresh' = [fresh EXCEPT ![f] = {}]
  /\ lost' = lost \cup fresh[f] \cup {CurLeg(f)}
  /\ spoiled' = spoiled \cup {f}
  /\ Goto(f, "loop")
  /\ UNCHANGED <<worldVars, dbVars, opt, todo, kids, kid, seen, qty, asked, calls, skipped>>

\* Only an exit whose reason is 'manual' changes the status of the order.
EndLoop(f) ==
  /\ pc[f] = "loop"
  /\ kids[f] = {} /\ todo[f] = {}
  /\ status' = IF opt[f].manual
                 THEN [status EXCEPT ![f[2]] = "EXIT_MANUAL_PENDING"] ELSE status
  /\ Goto(f, "commit")
  /\ UNCHANGED <<worldVars, entry, exitRows, localVars, asked, calls, failVars>>

StatusUnwritten(f) ==
  /\ pc[f] = "loop"
  /\ kids[f] = {} /\ todo[f] = {} /\ opt[f].manual
  /\ Raise(f)
  /\ UNCHANGED <<worldVars, dbVars, todo, kids, kid, qty, asked, calls>>

\* Variant: the session is closed without a commit.
CommitForgotten(f) ==
  /\ pc[f] = "commit"
  /\ fresh' = [fresh EXCEPT ![f] = {}]
  /\ seen' = [seen EXCEPT ![f] = Unknown]
  /\ opt' = [opt EXCEPT ![f] = NoOpt]
  /\ spoiled' = spoiled \ {f}
  /\ skipped' = [skipped EXCEPT ![f] = {}]
  /\ Goto(f, "idle")
  /\ UNCHANGED <<worldVars, dbVars, todo, kids, kid, qty, asked, calls, lost>>

WithFresh(f) ==
  [l \in Legs |-> IF l \in fresh[f] THEN Append(exitRows[l], "PENDING") ELSE exitRows[l]]

\* A session with a failed statement has nothing in `fresh`.
Commit(f) ==
  /\ pc[f] = "commit"
  /\ exitRows' = WithFresh(f)
  /\ fresh' = [fresh EXCEPT ![f] = {}]
  /\ seen' = [seen EXCEPT ![f] = Unknown]
  /\ opt' = [opt EXCEPT ![f] = NoOpt]
  /\ spoiled' = spoiled \ {f}
  /\ skipped' = [skipped EXCEPT ![f] = {}]
  /\ Goto(f, "idle")
  /\ UNCHANGED <<worldVars, status, entry, todo, kids, kid, qty, asked, calls, lost>>

\* It raises, with the rows of all brokers committed or not.
CommitRaises(f) ==
  /\ pc[f] = "commit"
  /\ exitRows' \in {exitRows, WithFresh(f)}
  /\ Raise(f)
  /\ UNCHANGED <<worldVars, status, entry, todo, kids, kid, qty, asked, calls>>

ExitStep(f) ==
  \/ ReadRows(f) \/ RowsUnread(f) \/ FetchLive(f)
  \/ ReadChildren(f) \/ ChildrenUnread(f) \/ CallChild(f) \/ ChildDone(f) \/ ChildFailed(f)
  \/ TakeRow(f)
  \/ ReadPosition(f) \/ PlaceExit(f) \/ ClosePosition(f) \/ BrokerMissing(f)
  \/ Cancel(f) \/ CancelRaises(f) \/ MarkCancelled(f) \/ MarkFails(f)
  \/ InsertExit(f) \/ InsertFails(f)
  \/ EndLoop(f) \/ StatusUnwritten(f) \/ Commit(f) \/ CommitRaises(f)

--------------------------------------------------------------------------------
(***************************************************************************)
(* The environment: callers, brokers, the exchange, the order monitor's    *)
(* write of the status it finds in the order cache, and restarts.          *)
(***************************************************************************)
\* A caller is one coroutine: it has one call of its own at a time.
Free(c) == \A o \in Orders : pc[<<c, o>>] = "idle"

Call(c, o, live, manual) ==
  /\ calls < MaxCalls
  /\ Free(c)
  /\ Start(<<c, o>>, live, manual)
  /\ calls' = calls + 1
  /\ UNCHANGED <<worldVars, dbVars, failVars>>

Trigger(l) ==
  /\ truth[l] = "TRIGGER"
  /\ truth' = [truth EXCEPT ![l] = "RESTING"]
  /\ UNCHANGED <<listed, book, flight, sent, dbVars, pc, cur, localVars, asked, calls, failVars>>

\* An entry order is for two lots and may be executed in two parts.
Fill(l) ==
  /\ \/ truth[l] = "RESTING" /\ truth' = [truth EXCEPT ![l] = "PARTIAL"]
     \/ truth[l] = "PARTIAL" /\ truth' = [truth EXCEPT ![l] = "FILLED"]
  /\ Execute(BookOf[l], Lots(l, 1))
  /\ UNCHANGED <<listed, flight, sent, dbVars, pc, cur, localVars, asked, calls, failVars>>

Reject(l) ==
  /\ truth[l] \in {"TRIGGER", "RESTING"}
  /\ truth' = [truth EXCEPT ![l] = "REJECTED"]
  /\ UNCHANGED <<listed, book, flight, sent, dbVars, pc, cur, localVars, asked, calls, failVars>>

\* The exchange or the user cancels the entry order (end of session, say).
BrokerCancel(l) ==
  /\ truth[l] \in Cancellable
  /\ truth' = [truth EXCEPT ![l] = "CANCELLED"]
  /\ UNCHANGED <<listed, book, flight, sent, dbVars, pc, cur, localVars, asked, calls, failVars>>

\* A market exit order is executed.
ExecuteExit(b) ==
  /\ flight[b] # <<>>
  /\ Execute(b, Head(flight[b]))
  /\ flight' = [flight EXCEPT ![b] = Tail(@)]
  /\ UNCHANGED <<truth, listed, sent, dbVars, pc, cur, localVars, asked, calls, failVars>>

\* OrderCache polls the order book of the broker.
Poll(l) ==
  /\ listed[l] # truth[l]
  /\ listed' = [listed EXCEPT ![l] = truth[l]]
  /\ UNCHANGED <<truth, book, flight, sent, dbVars, pc, cur, localVars, asked, calls, failVars>>

\* _price_order_monitor: the ENTRY row is brought up to date from the cache.
SyncEntry(l) ==
  /\ entry[l] # Synced(KindOf[l], listed[l])
  /\ entry' = [entry EXCEPT ![l] = Synced(KindOf[l], listed[l])]
  /\ UNCHANGED <<worldVars, status, exitRows, pc, cur, localVars, asked, calls, failVars>>

ClearedFrames ==
  /\ pc'    = [f \in Frames |-> "idle"]
  /\ fresh' = [f \in Frames |-> {}]
  /\ todo'  = [f \in Frames |-> {}]
  /\ kids'  = [f \in Frames |-> {}]
  /\ opt'   = [f \in Frames |-> NoOpt]
  /\ kid'   = [f \in Frames |-> NoOrder]
  /\ seen'  = [f \in Frames |-> Unknown]
  /\ cur'   = [f \in Frames |-> NoRow]
  /\ qty'   = [f \in Frames |-> 0]
  /\ spoiled' = {}
  /\ skipped' = [f \in Frames |-> {}]

\* The call has the EXIT row of this leg in its session, or is about to insert it.
Pending(f, l) ==
  \/ l \in fresh[f]
  \/ /\ pc[f] \in RowLabels
     /\ CurLeg(f) = l
     /\ \/ pc[f] = "insert"
        \/ pc[f] = "cancel" /\ CurState(f) = "PARTIALLY_FILLED"

\* The process is restarted: the calls under way are gone, and with them the
\* rows inserted in their sessions.
Crash ==
  /\ Crashes
  /\ \E f \in Frames : pc[f] # "idle"
  /\ ClearedFrames
  /\ lost' = lost \cup {l \in Legs : \E f \in Frames : Pending(f, l)}
  /\ UNCHANGED <<worldVars, dbVars, asked, calls>>

Init ==
  /\ truth \in [Legs -> {"TRIGGER", "RESTING"}]
  /\ listed = truth
  /\ book = [b \in Books |-> 0]
  /\ flight = [b \in Books |-> <<>>]
  /\ sent = {}
  /\ status = [o \in Orders |-> "AWAITING_ENTRY"]
  /\ entry = [l \in Legs |-> "PENDING"]
  /\ exitRows = [l \in Legs |-> <<>>]
  /\ pc = [f \in Frames |-> "idle"]
  /\ opt = [f \in Frames |-> NoOpt]
  /\ todo = [f \in Frames |-> {}]
  /\ kids = [f \in Frames |-> {}]
  /\ kid = [f \in Frames |-> NoOrder]
  /\ seen = [f \in Frames |-> Unknown]
  /\ cur = [f \in Frames |-> NoRow]
  /\ qty = [f \in Frames |-> 0]
  /\ fresh = [f \in Frames |-> {}]
  /\ asked = {}
  /\ calls = 0
  /\ spoiled = {}
  /\ skipped = [f \in Frames |-> {}]
  /\ lost = {}

World ==
  \/ \E l \in Legs : \/ Trigger(l) \/ Fill(l) \/ Reject(l) \/ BrokerCancel(l)
                     \/ Poll(l) \/ SyncEntry(l)
  \/ \E b \in Books : ExecuteExit(b)

Next ==
  \/ \E c \in Callers, o \in Orders, live, manual \in BOOLEAN :
       Call(c, o, live, manual)
  \/ \E f \in Frames : ExitStep(f)
  \/ World
  \/ Crash

Spec == Init /\ [][Next]_exitVars

--------------------------------------------------------------------------------
(***************************************************************************)
(* Properties.                                                             *)
(***************************************************************************)
Labels == {"idle", "read", "fetch", "children", "await", "loop", "position",
           "place", "close", "cancel", "mark", "insert", "commit", "raised"}

\* Every variable has its type, and a frame that works on a row has one.
TypeOK ==
  /\ truth \in [Legs -> Truths]
  /\ listed \in [Legs -> Truths]
  /\ book \in [Books -> Int]
  /\ flight \in [Books -> Seq(Int)]
  /\ sent \in SUBSET Books
  /\ status \in [Orders -> OrderStatuses]
  /\ entry \in [Legs -> ExecStatuses]
  /\ exitRows \in [Legs -> Seq(ExecStatuses)]
  /\ pc \in [Frames -> Labels]
  /\ opt \in [Frames -> [live : BOOLEAN, manual : BOOLEAN]]
  /\ todo \in [Frames -> SUBSET Row]
  /\ kids \in [Frames -> SUBSET Orders]
  /\ kid \in [Frames -> Orders \cup {NoOrder}]
  /\ seen \in [Frames -> [Legs -> ExecStatuses]]
  /\ cur \in [Frames -> Row \cup {NoRow}]
  /\ \A f \in Frames : pc[f] \in RowLabels => cur[f] \in Row
  /\ qty \in [Frames -> Nat]
  /\ fresh \in [Frames -> SUBSET Legs]
  /\ asked \in SUBSET Orders
  /\ calls \in Nat
  /\ spoiled \in SUBSET Frames
  /\ skipped \in [Frames -> SUBSET (Orders \cup {NoOrder})]
  /\ lost \in SUBSET Legs

\* No call, monitor write or restart, in any interleaving, leaves an ENTRY row
\* saying that an order is filled, cancelled or rejected when the exchange says
\* otherwise: in exit_order a cancel is written only when it was acknowledged.
EntryTruthful ==
  \A l \in DOMAIN entry : entry[l] \in DoneTruths => truth[l] = entry[l]

\* The same holds of everything a call or the order cache remembers, and of the
\* EXIT rows, which carry the id of the entry order: old news, but true news.
\* Together with EntryTruthful this is inductive.
RowTruthful(r) == r[3] \in DoneTruths => truth[r[1]] = r[3]

ListedTruthful == \A l \in Legs : listed[l] \in DoneTruths => truth[l] = listed[l]

SeenTruthful ==
  \A f \in Frames, l \in Legs : seen[f][l] \in DoneTruths => truth[l] = seen[f][l]

RowsTruthful ==
  \A f \in Frames : /\ \A r \in todo[f] : RowTruthful(r)
                    /\ pc[f] \in RowLabels => RowTruthful(cur[f])

ExitRowsTruthful ==
  \A l \in Legs : \A i \in DOMAIN exitRows[l] :
    exitRows[l][i] \in DoneTruths => truth[l] = exitRows[l][i]

CancelAcknowledged ==
  \A f \in Frames : pc[f] = "mark" => truth[CurLeg(f)] = "CANCELLED"

TruthInv ==
  /\ TypeOK
  /\ EntryTruthful /\ ListedTruthful /\ SeenTruthful
  /\ RowsTruthful /\ ExitRowsTruthful /\ CancelAcknowledged

\* A position a broker was asked to close has a trace: the leg has a committed EXIT
\* row, or some call is going to commit one (order_manager.py:1828); unless a
\* statement has failed since, or the process was restarted (:1933, :1944).
SentIsRecorded ==
  \A b \in sent : \E l \in Legs :
    /\ BookOf[l] = b
    /\ exitRows[l] # <<>> \/ l \in lost \/ \E f \in Frames : Pending(f, l)

\* A leg never gets a second EXIT row (order_manager.py:718).
OneExitRow == \A l \in Legs : Len(exitRows[l]) <= 1

\* Closing never turns a position into the opposite one.
InSideOf(o, n) == IF o \in BuyOrders THEN n >= 0 ELSE n <= 0

ExitNeverReverses ==
  \A l \in Legs : InSideOf(OrderOf[l], book[BookOf[l]])

\* A step that makes a position larger is an execution of an entry order, never
\* the market order of an exit (zerodha.py:626, "opposite of original").
NothingAdded ==
  \A b \in Books : Abs(book'[b]) > Abs(book[b]) =>
    \E l \in Legs : BookOf[l] = b /\ truth'[l] # truth[l]

ExitNeverAdds == [][NothingAdded]_exitVars

\* The hedges go first: when a call closes or cancels a leg of an order, each
\* child of the order that was not finished has been through its own exit, or has
\* been given up because that failed, which only the log says (:1525).
HedgesFirst ==
  \A f \in Frames : pc[f] \in RowLabels =>
    \A h \in ChildrenOf(f[2]) :
      \/ status[h] \in {"CLOSED", "FILLED", "CANCELLED", "REJECTED", "FAILED"}
      \/ h \in skipped[f]

(***************************************************************************)
(* One caller at a time, brokers that state the side of what they close    *)
(* and an exchange that executes at once: then the calls keep the contract *)
(* of ExitContract.                                                        *)
(***************************************************************************)
Contract == INSTANCE ExitContract
  WITH OwnersOf <- [b \in Books |-> {OrderOf[l] : l \in {m \in Legs : BookOf[m] = b}}],
       held     <- book,
       wanted   <- asked

\* Every step of the calls and of their environment is a step of the contract.
ContractSpec == Contract!Spec

================================================================================
