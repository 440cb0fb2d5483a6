--------------------------- MODULE ExitOrder_proofs ---------------------------
(***************************************************************************)
(* Proofs about ExitOrder, for any callers, orders, legs, brokers and any  *)
(* number of concurrent calls.                                             *)
(***************************************************************************)
EXTENDS ExitOrder, StatusMapping_proofs, SequenceTheorems

--------------------------------------------------------------------------------
(***************************************************************************)
(* Types.                                                                  *)
(***************************************************************************)
LEMMA RowsOfType ==
  ASSUME TypeOK, NEW o \in Orders
  PROVE  RowsOf(o) \subseteq Row
<1>1. \A l \in LegsOf(o) : <<l, 0, entry[l]>> \in Row
  BY DEF TypeOK, LegsOf, Row
<1>2. \A l \in LegsOf(o) : \A i \in DOMAIN exitRows[l] : <<l, i, exitRows[l][i]>> \in Row
  BY DEF TypeOK, LegsOf, Row
<1> QED BY <1>1, <1>2 DEF RowsOf

\* Replacing an element of a sequence leaves a sequence.
LEMMA ReplaceType ==
  ASSUME NEW S, NEW s \in Seq(S), NEW i \in Nat, NEW x \in S
  PROVE  [s EXCEPT ![i] = x] \in Seq(S)
<1>1. /\ Len(s) \in Nat
      /\ s \in [1 .. Len(s) -> S]
  BY LenProperties
<1>2. [s EXCEPT ![i] = x] \in [1 .. Len(s) -> S]
  BY <1>1
<1> QED BY <1>1, <1>2, SeqDef

LEMMA RowParts ==
  ASSUME NEW r \in Row
  PROVE  r[1] \in Legs /\ r[2] \in Nat /\ r[3] \in ExecStatuses
  BY DEF Row

LEMMA GotoType ==
  ASSUME TypeOK, NEW f \in Frames, NEW label \in Labels, Goto(f, label),
         label \in RowLabels => pc[f] \in RowLabels
  PROVE  /\ pc' \in [Frames -> Labels]
         /\ cur' \in [Frames -> Row \cup {NoRow}]
         /\ \A g \in Frames : pc'[g] \in RowLabels => cur'[g] \in Row
  BY DEF TypeOK, Goto

LEMMA UnknownType == Unknown \in [Legs -> ExecStatuses]
  BY DEF Unknown, ExecStatuses

LEMMA NoOptType == NoOpt \in [live : BOOLEAN, manual : BOOLEAN]
  BY DEF NoOpt

LEMMA TypeInit == Init => TypeOK
<1> SUFFICES ASSUME Init PROVE TypeOK OBVIOUS
<1>1. Unknown \in [Legs -> ExecStatuses]
  BY DEF Unknown, ExecStatuses
<1>2. NoOpt \in [live : BOOLEAN, manual : BOOLEAN]
  BY NoOptType
<1>3. /\ truth \in [Legs -> Truths] /\ listed \in [Legs -> Truths]
      /\ entry \in [Legs -> ExecStatuses] /\ status \in [Orders -> OrderStatuses]
  BY DEF Init, Truths, ExecStatuses, OrderStatuses
<1>4. /\ flight \in [Books -> Seq(Int)] /\ exitRows \in [Legs -> Seq(ExecStatuses)]
  BY EmptySeq DEF Init
<1>5. \A f \in Frames : pc[f] = "idle"
  BY DEF Init
<1> QED BY <1>1, <1>2, <1>3, <1>4, <1>5 DEF Init, TypeOK, Labels, RowLabels

\* An exception leaves the frame that it leaves, and the others as they are.
LEMMA RaiseFrame ==
  ASSUME TypeOK, NEW f \in Frames, Raise(f)
  PROVE  /\ pc'[f] \in {"idle", "raised"}
         /\ \A g \in Frames : g # f => /\ pc'[g] = pc[g] /\ cur'[g] = cur[g]
                                      /\ fresh'[g] = fresh[g] /\ seen'[g] = seen[g]
                                      /\ opt'[g] = opt[g] /\ skipped'[g] = skipped[g]
         /\ fresh'[f] = {} /\ seen'[f] = Unknown /\ opt'[f] = NoOpt /\ skipped'[f] = {}
         /\ lost' = lost \cup fresh[f]
<1>1. PICK label \in {"idle", "raised"} : Goto(f, label)
  BY DEF Raise
<1>2. /\ pc'[f] = label
      /\ \A g \in Frames : g # f => pc'[g] = pc[g] /\ cur'[g] = cur[g]
  BY <1>1 DEF TypeOK, Goto
<1> QED BY <1>2 DEF Raise, TypeOK

LEMMA RaiseType ==
  ASSUME TypeOK, NEW f \in Frames, Raise(f)
  PROVE  /\ pc' \in [Frames -> Labels]
         /\ cur' \in [Frames -> Row \cup {NoRow}]
         /\ \A g \in Frames : pc'[g] \in RowLabels => cur'[g] \in Row
         /\ fresh' \in [Frames -> SUBSET Legs]
         /\ seen' \in [Frames -> [Legs -> ExecStatuses]]
         /\ opt' \in [Frames -> [live : BOOLEAN, manual : BOOLEAN]]
         /\ skipped' \in [Frames -> SUBSET (Orders \cup {NoOrder})]
         /\ spoiled' \in SUBSET Frames /\ lost' \in SUBSET Legs
<1>1. \E label \in {"idle", "raised"} : Goto(f, label)
  BY DEF Raise
<1>2. /\ pc' \in [Frames -> Labels]
      /\ cur' \in [Frames -> Row \cup {NoRow}]
      /\ \A g \in Frames : pc'[g] \in RowLabels => cur'[g] \in Row
  BY <1>1, GotoType DEF Labels, RowLabels
<1> QED BY <1>2, UnknownType, NoOptType DEF Raise, TypeOK

LEMMA TypeCalls ==
  ASSUME ExitOrderConstants, TypeOK, NEW f \in Frames,
         \/ ReadRows(f) \/ RowsUnread(f) \/ FetchLive(f)
         \/ ReadChildren(f) \/ ChildrenUnread(f) \/ CallChild(f)
         \/ ChildDone(f) \/ ChildFailed(f)
  PROVE  TypeOK'
<1> USE DEF dbVars, worldVars, failVars
<1>1. CASE ReadRows(f)
  <2>1. f[2] \in Orders BY DEF Frames
  <2>2. todo' \in [Frames -> SUBSET Row]
    <3>1. RowsOf(f[2]) \in SUBSET Row BY <2>1, RowsOfType
    <3>2. todo' = [todo EXCEPT ![f] = RowsOf(f[2])] BY <1>1 DEF ReadRows
    <3> QED BY <3>1, <3>2 DEF TypeOK
  <2>3. opt' \in [Frames -> [live : BOOLEAN, manual : BOOLEAN]]
    <3>1. opt' = opt \/ opt' = [opt EXCEPT ![f] = NoOpt]
      BY <1>1 DEF ReadRows
    <3> QED BY <3>1, NoOptType DEF TypeOK
  <2>4. \E label \in {"idle", "fetch", "children"} : Goto(f, label)
    BY <1>1 DEF ReadRows
  <2>5. /\ pc' \in [Frames -> Labels]
        /\ cur' \in [Frames -> Row \cup {NoRow}]
        /\ \A g \in Frames : pc'[g] \in RowLabels => cur'[g] \in Row
    BY <2>4, GotoType DEF Labels, RowLabels
  <2> QED BY <1>1, <2>2, <2>3, <2>5 DEF TypeOK, ReadRows
<1>2. CASE FetchLive(f)
  <2>1. seen' \in [Frames -> [Legs -> ExecStatuses]]
    <3>1. PICK S \in SUBSET LegsOf(f[2]) :
            seen' = [seen EXCEPT ![f] =
                       [l \in Legs |-> IF l \in S THEN View(KindOf[l], truth[l])
                                                  ELSE "UNKNOWN"]]
      BY <1>2 DEF FetchLive
    <3>2. \A l \in Legs : View(KindOf[l], truth[l]) \in ExecStatuses
      BY ViewType DEF TypeOK, ExitOrderConstants
    <3>3. "UNKNOWN" \in ExecStatuses BY DEF ExecStatuses
    <3> QED BY <3>1, <3>2, <3>3 DEF TypeOK
  <2>2. /\ pc' \in [Frames -> Labels]
        /\ cur' \in [Frames -> Row \cup {NoRow}]
        /\ \A g \in Frames : pc'[g] \in RowLabels => cur'[g] \in Row
    BY <1>2, GotoType DEF FetchLive, Labels, RowLabels
  <2> QED BY <1>2, <2>1, <2>2 DEF TypeOK, FetchLive
<1>3. CASE ReadChildren(f)
  <2>1. /\ pc' \in [Frames -> Labels]
        /\ cur' \in [Frames -> Row \cup {NoRow}]
        /\ \A g \in Frames : pc'[g] \in RowLabels => cur'[g] \in Row
    BY <1>3, GotoType DEF ReadChildren, Labels, RowLabels
  <2>2. kids' \in [Frames -> SUBSET Orders]
    BY <1>3 DEF TypeOK, ReadChildren, ChildrenOf
  <2> QED BY <1>3, <2>1, <2>2 DEF TypeOK, ReadChildren
<1>4. CASE CallChild(f)
  <2>1. PICK h \in kids[f] :
          /\ kid' = [kid EXCEPT ![f] = h]
          /\ kids' = [kids EXCEPT ![f] = @ \ {h}]
          /\ opt' = [opt EXCEPT ![<<f[1], h>>] = opt[f]]
          /\ asked' = asked \cup {h}
          /\ pc' = [pc EXCEPT ![f] = "await", ![<<f[1], h>>] = "read"]
    BY <1>4 DEF CallChild
  <2>2. h \in Orders /\ <<f[1], h>> \in Frames
    BY <2>1 DEF TypeOK, Frames
  <2>3. pc' \in [Frames -> Labels]
    BY <2>1 DEF TypeOK, Labels
  <2>4. \A g \in Frames : pc'[g] \in RowLabels => cur[g] \in Row
    BY <2>1 DEF TypeOK, RowLabels
  <2>5. /\ kid' \in [Frames -> Orders \cup {NoOrder}]
        /\ kids' \in [Frames -> SUBSET Orders]
        /\ asked' \in SUBSET Orders
    BY <2>1, <2>2 DEF TypeOK
  <2>6. opt' \in [Frames -> [live : BOOLEAN, manual : BOOLEAN]]
    BY <2>1 DEF TypeOK
  <2> QED BY <1>4, <2>3, <2>4, <2>5, <2>6 DEF TypeOK, CallChild
<1>5. CASE ChildDone(f)
  <2>1. /\ pc' \in [Frames -> Labels]
        /\ cur' \in [Frames -> Row \cup {NoRow}]
        /\ \A g \in Frames : pc'[g] \in RowLabels => cur'[g] \in Row
    BY <1>5, GotoType DEF ChildDone, Labels, RowLabels
  <2>2. status' \in [Orders -> OrderStatuses]
    BY <1>5 DEF TypeOK, ChildDone, OrderStatuses
  <2> QED BY <1>5, <2>1, <2>2 DEF TypeOK, ChildDone
<1>6. CASE RowsUnread(f)
  BY <1>6, RaiseType DEF TypeOK, RowsUnread
<1>7. CASE ChildrenUnread(f)
  <2>1. /\ pc' \in [Frames -> Labels]
        /\ cur' \in [Frames -> Row \cup {NoRow}]
        /\ \A g \in Frames : pc'[g] \in RowLabels => cur'[g] \in Row
    BY <1>7, GotoType DEF ChildrenUnread, Labels, RowLabels
  <2>2. skipped' \in [Frames -> SUBSET (Orders \cup {NoOrder})]
    BY <1>7 DEF TypeOK, ChildrenUnread, ChildrenOf
  <2> QED BY <1>7, <2>1, <2>2 DEF TypeOK, ChildrenUnread
<1>8. CASE ChildFailed(f)
  <2> DEFINE g == <<f[1], kid[f]>>
  <2>1. /\ pc' = [pc EXCEPT ![f] = "loop", ![g] = "idle"]
        /\ kid' = [kid EXCEPT ![f] = NoOrder]
        /\ skipped' = [skipped EXCEPT ![f] = @ \cup {kid[f]}]
    BY <1>8 DEF ChildFailed
  <2>2. pc' \in [Frames -> Labels]
    BY <2>1 DEF TypeOK, Labels
  <2>3. \A h \in Frames : pc'[h] \in RowLabels => cur[h] \in Row
    BY <2>1 DEF TypeOK, RowLabels
  <2>4. skipped' \in [Frames -> SUBSET (Orders \cup {NoOrder})]
    BY <2>1 DEF TypeOK
  <2> QED BY <1>8, <2>1, <2>2, <2>3, <2>4 DEF TypeOK, ChildFailed
<1> QED BY <1>1, <1>2, <1>3, <1>4, <1>5, <1>6, <1>7, <1>8

LEMMA TypeRows ==
  ASSUME ExitOrderConstants, TypeOK, NEW f \in Frames, TakeRow(f)
  PROVE  TypeOK'
<1>1. PICK r \in todo[f] :
        LET l  == r[1]
            st == IF seen[f][l] = "UNKNOWN" THEN r[3] ELSE seen[f][l]
        IN  /\ todo' = [todo EXCEPT ![f] = @ \ {r}]
            /\ pc' = [pc EXCEPT ![f] = Decision(l, st)]
            /\ cur' = [cur EXCEPT ![f] = IF Decision(l, st) = "loop"
                                          THEN NoRow ELSE <<l, r[2], st>>]
            /\ \/ /\ entry' = IF r[2] = 0 /\ st # r[3]
                                THEN [entry EXCEPT ![l] = st] ELSE entry
                  /\ exitRows' = IF r[2] # 0 /\ st # r[3]
                                   THEN [exitRows EXCEPT ![l][r[2]] = st] ELSE exitRows
               \/ UNCHANGED <<entry, exitRows>>
  BY DEF TakeRow
<1> DEFINE l  == r[1]
           st == IF seen[f][l] = "UNKNOWN" THEN r[3] ELSE seen[f][l]
<1>2. l \in Legs /\ r[2] \in Nat /\ st \in ExecStatuses
  BY RowParts DEF TypeOK
<1>3. Decision(l, st) \in Labels
  BY DEF Decision, Labels
<1>4. todo' \in [Frames -> SUBSET Row]
  BY <1>1 DEF TypeOK
<1>5. <<l, r[2], st>> \in Row
  BY <1>2 DEF Row
<1>6. /\ pc' = [pc EXCEPT ![f] = Decision(l, st)]
      /\ cur' = [cur EXCEPT ![f] = IF Decision(l, st) = "loop"
                                    THEN NoRow ELSE <<l, r[2], st>>]
  BY <1>1
<1> HIDE DEF l, st
<1>7. /\ pc' \in [Frames -> Labels]
      /\ cur' \in [Frames -> Row \cup {NoRow}]
      /\ \A g \in Frames : pc'[g] \in RowLabels => cur'[g] \in Row
  BY <1>3, <1>5, <1>6 DEF TypeOK, RowLabels
<1>8. entry' \in [Legs -> ExecStatuses]
  BY <1>1, <1>2 DEF TypeOK, l, st
<1>9. exitRows' \in [Legs -> Seq(ExecStatuses)]
  <2>1. [exitRows[l] EXCEPT ![r[2]] = st] \in Seq(ExecStatuses)
    BY <1>2, ReplaceType DEF TypeOK
  <2>2. \/ exitRows' = exitRows
        \/ exitRows' = [exitRows EXCEPT ![l] = [exitRows[l] EXCEPT ![r[2]] = st]]
    BY <1>1, <1>2 DEF TypeOK, l, st
  <2> QED BY <2>1, <2>2, <1>2 DEF TypeOK
<1> QED BY <1>4, <1>7, <1>8, <1>9 DEF TypeOK, TakeRow, worldVars, failVars

LEMMA TypeBrokers ==
  ASSUME ExitOrderConstants, TypeOK, NEW f \in Frames,
         \/ ReadPosition(f) \/ PlaceExit(f) \/ ClosePosition(f) \/ BrokerMissing(f)
         \/ Cancel(f) \/ CancelRaises(f)
  PROVE  TypeOK'
<1> USE DEF dbVars, worldVars, localVars, failVars
<1> DEFINE FrameType == /\ pc' \in [Frames -> Labels]
                        /\ cur' \in [Frames -> Row \cup {NoRow}]
                        /\ \A g \in Frames : pc'[g] \in RowLabels => cur'[g] \in Row
<1>1. \A label \in RowLabels \cup {"loop"} :
        pc[f] \in RowLabels /\ Goto(f, label) => FrameType
  BY GotoType DEF Labels, RowLabels
<1>2. AfterExit(f) \in RowLabels
  BY DEF AfterExit, RowLabels
<1>3. pc[f] \in RowLabels => CurLeg(f) \in Legs /\ CurBook(f) \in Books
                              /\ CurIndex(f) \in Nat
  BY RowParts DEF TypeOK, CurLeg, CurBook, CurIndex, ExitOrderConstants
<1> HIDE DEF FrameType
<1>4. CASE ReadPosition(f)
  <2>1. FrameType
    <3>1. pc[f] \in RowLabels /\ \E label \in RowLabels : Goto(f, label)
      BY <1>4, <1>2 DEF ReadPosition, RowLabels
    <3> QED BY <3>1, <1>1
  <2>2. CurBook(f) \in Books /\ book[CurBook(f)] \in Int
    BY <1>4, <1>3 DEF ReadPosition, RowLabels, TypeOK
  <2>3. PICK n \in {0, Abs(book[CurBook(f)])} : qty' = [qty EXCEPT ![f] = n]
    BY <1>4 DEF ReadPosition
  <2>4. n \in Nat
    BY <2>2, <2>3 DEF Abs
  <2> QED BY <1>4, <2>1, <2>3, <2>4 DEF TypeOK, ReadPosition, FrameType
<1>5. CASE PlaceExit(f)
  <2>1. FrameType
    <3>1. pc[f] \in RowLabels /\ \E label \in RowLabels : Goto(f, label)
      BY <1>5, <1>2 DEF PlaceExit, RowLabels
    <3> QED BY <3>1, <1>1
  <2>2. CurBook(f) \in Books
    BY <1>5, <1>3 DEF PlaceExit, RowLabels
  <2> DEFINE b == CurBook(f)
             n == ExitSide(f) * qty[f]
  <2>3. n \in Int
    BY DEF TypeOK, ExitSide
  <2>4. qty' \in [Frames -> Nat]
    BY <1>5 DEF TypeOK, PlaceExit
  <2>5. /\ \/ sent' = sent \cup {b}
           \/ sent' = sent
        /\ \/ book' = [book EXCEPT ![b] = @ + n]
           \/ book' = book
        /\ \/ flight' = [flight EXCEPT ![b] = Append(@, n)]
           \/ flight' = flight
    BY <1>5 DEF PlaceExit, Execute
  <2>6. b \in Books /\ Append(flight[b], n) \in Seq(Int)
    BY <2>2, <2>3, AppendProperties DEF TypeOK
  <2> HIDE DEF b, n
  <2>7. sent' \in SUBSET Books /\ book' \in [Books -> Int] /\ flight' \in [Books -> Seq(Int)]
    <3>1. sent' \in SUBSET Books BY <2>5, <2>6 DEF TypeOK
    <3>2. book' \in [Books -> Int] BY <2>3, <2>5, <2>6 DEF TypeOK
    <3>3. flight' \in [Books -> Seq(Int)] BY <2>5, <2>6 DEF TypeOK
    <3> QED BY <3>1, <3>2, <3>3
  <2> QED BY <1>5, <2>1, <2>4, <2>7 DEF TypeOK, PlaceExit, FrameType
<1>6. CASE ClosePosition(f)
  <2>1. FrameType
    <3>1. pc[f] \in RowLabels /\ \E label \in RowLabels : Goto(f, label)
      BY <1>6, <1>2 DEF ClosePosition, RowLabels
    <3> QED BY <3>1, <1>1
  <2>2. CurBook(f) \in Books
    BY <1>6, <1>3 DEF ClosePosition, RowLabels
  <2>3. book' \in [Books -> Int] /\ sent' \in SUBSET Books
    BY <1>6, <2>2 DEF TypeOK, ClosePosition, Execute
  <2> QED BY <1>6, <2>1, <2>3 DEF TypeOK, ClosePosition, FrameType
<1>7. CASE BrokerMissing(f)
  <2>1. FrameType
    <3>1. pc[f] \in RowLabels /\ \E label \in RowLabels \cup {"loop"} : Goto(f, label)
      BY <1>7 DEF BrokerMissing, RowLabels
    <3> QED BY <3>1, <1>1
  <2> QED BY <1>7, <2>1 DEF TypeOK, BrokerMissing, FrameType
<1>8. CASE Cancel(f)
  <2>1. FrameType
    <3>1. pc[f] \in RowLabels /\ \E label \in RowLabels \cup {"loop"} : Goto(f, label)
      BY <1>8 DEF Cancel, RowLabels
    <3> QED BY <3>1, <1>1
  <2>2. truth' \in [Legs -> Truths]
    <3>1. truth' = truth \/ truth' = [truth EXCEPT ![CurLeg(f)] = "CANCELLED"]
      BY <1>8 DEF Cancel
    <3> QED BY <3>1 DEF TypeOK, Truths
  <2> QED BY <1>8, <2>1, <2>2 DEF TypeOK, Cancel, FrameType
<1>9. CASE CancelRaises(f)
  <2>1. FrameType /\ CurLeg(f) \in Legs
    <3>1. pc[f] \in RowLabels /\ Goto(f, "loop")
      BY <1>9 DEF CancelRaises, RowLabels
    <3> QED BY <3>1, <1>1, <1>3
  <2> QED BY <1>9, <2>1 DEF TypeOK, CancelRaises, FrameType
<1> QED BY <1>4, <1>5, <1>6, <1>7, <1>8, <1>9

LEMMA WithFreshType ==
  ASSUME TypeOK, NEW f \in Frames
  PROVE  WithFresh(f) \in [Legs -> Seq(ExecStatuses)]
<1>1. \A l \in Legs : Append(exitRows[l], "PENDING") \in Seq(ExecStatuses)
  BY AppendProperties DEF TypeOK, ExecStatuses
<1> QED BY <1>1 DEF TypeOK, WithFresh

LEMMA TypeRecords ==
  ASSUME ExitOrderConstants, TypeOK, NEW f \in Frames,
         \/ MarkCancelled(f) \/ MarkFails(f) \/ InsertExit(f) \/ InsertFails(f)
         \/ EndLoop(f) \/ StatusUnwritten(f) \/ Commit(f) \/ CommitRaises(f)
  PROVE  TypeOK'
<1> USE DEF dbVars, worldVars, localVars, failVars
<1>1. pc[f] \in RowLabels => CurLeg(f) \in Legs /\ CurIndex(f) \in Nat
  BY RowParts DEF TypeOK, CurLeg, CurIndex
<1>2. CASE MarkCancelled(f)
  <2>1. /\ pc' \in [Frames -> Labels]
        /\ cur' \in [Frames -> Row \cup {NoRow}]
        /\ \A g \in Frames : pc'[g] \in RowLabels => cur'[g] \in Row
    BY <1>2, GotoType DEF MarkCancelled, Labels, RowLabels
  <2>2. CurLeg(f) \in Legs /\ CurIndex(f) \in Nat /\ "CANCELLED" \in ExecStatuses
    BY <1>1, <1>2 DEF MarkCancelled, RowLabels, ExecStatuses
  <2>3. [exitRows[CurLeg(f)] EXCEPT ![CurIndex(f)] = "CANCELLED"] \in Seq(ExecStatuses)
    BY <2>2, ReplaceType DEF TypeOK
  <2>4. entry' \in [Legs -> ExecStatuses] /\ exitRows' \in [Legs -> Seq(ExecStatuses)]
    <3> DEFINE l == CurLeg(f)
               i == CurIndex(f)
    <3>1. \/ entry' = [entry EXCEPT ![l] = "CANCELLED"] /\ exitRows' = exitRows
          \/ exitRows' = [exitRows EXCEPT ![l][i] = "CANCELLED"] /\ entry' = entry
      BY <1>2 DEF MarkCancelled
    <3>2. l \in Legs /\ [exitRows[l] EXCEPT ![i] = "CANCELLED"] \in Seq(ExecStatuses)
      BY <2>2, <2>3
    <3> HIDE DEF l, i
    <3>3. [exitRows EXCEPT ![l][i] = "CANCELLED"] \in [Legs -> Seq(ExecStatuses)]
      BY <3>2 DEF TypeOK
    <3>4. [entry EXCEPT ![l] = "CANCELLED"] \in [Legs -> ExecStatuses]
      BY <2>2, <3>2 DEF TypeOK
    <3>5. entry \in [Legs -> ExecStatuses] /\ exitRows \in [Legs -> Seq(ExecStatuses)]
      BY DEF TypeOK
    <3> QED BY <3>1, <3>3, <3>4, <3>5
  <2> QED BY <1>2, <2>1, <2>4 DEF TypeOK, MarkCancelled
<1>3. CASE InsertExit(f)
  <2>1. /\ pc' \in [Frames -> Labels]
        /\ cur' \in [Frames -> Row \cup {NoRow}]
        /\ \A g \in Frames : pc'[g] \in RowLabels => cur'[g] \in Row
    BY <1>3, GotoType DEF InsertExit, Labels, RowLabels
  <2>2. fresh' \in [Frames -> SUBSET Legs]
    BY <1>1, <1>3 DEF TypeOK, InsertExit, RowLabels
  <2> QED BY <1>3, <2>1, <2>2 DEF TypeOK, InsertExit
<1>4. CASE EndLoop(f)
  <2>1. /\ pc' \in [Frames -> Labels]
        /\ cur' \in [Frames -> Row \cup {NoRow}]
        /\ \A g \in Frames : pc'[g] \in RowLabels => cur'[g] \in Row
    BY <1>4, GotoType DEF EndLoop, Labels, RowLabels
  <2>2. status' \in [Orders -> OrderStatuses]
    BY <1>4 DEF TypeOK, EndLoop, OrderStatuses, Frames
  <2> QED BY <1>4, <2>1, <2>2 DEF TypeOK, EndLoop
<1>5. CASE Commit(f)
  <2>1. /\ pc' \in [Frames -> Labels]
        /\ cur' \in [Frames -> Row \cup {NoRow}]
        /\ \A g \in Frames : pc'[g] \in RowLabels => cur'[g] \in Row
    BY <1>5, GotoType DEF Commit, Labels, RowLabels
  <2>3. seen' \in [Frames -> [Legs -> ExecStatuses]]
    BY <1>5, UnknownType DEF TypeOK, Commit
  <2>4. opt' \in [Frames -> [live : BOOLEAN, manual : BOOLEAN]]
    BY <1>5, NoOptType DEF TypeOK, Commit
  <2>6. exitRows' \in [Legs -> Seq(ExecStatuses)]
    BY <1>5, WithFreshType DEF Commit
  <2>7. /\ fresh' \in [Frames -> SUBSET Legs]
        /\ spoiled' \in SUBSET Frames /\ skipped' \in [Frames -> SUBSET (Orders \cup {NoOrder})]
    BY <1>5 DEF TypeOK, Commit
  <2> QED BY <1>5, <2>1, <2>3, <2>4, <2>6, <2>7 DEF TypeOK, Commit
<1>6. CASE MarkFails(f)
  <2>1. /\ pc' \in [Frames -> Labels]
        /\ cur' \in [Frames -> Row \cup {NoRow}]
        /\ \A g \in Frames : pc'[g] \in RowLabels => cur'[g] \in Row
    BY <1>6, GotoType DEF MarkFails, Labels, RowLabels
  <2> QED BY <1>6, <2>1 DEF TypeOK, MarkFails
<1>7. CASE InsertFails(f)
  <2>1. /\ pc' \in [Frames -> Labels]
        /\ cur' \in [Frames -> Row \cup {NoRow}]
        /\ \A g \in Frames : pc'[g] \in RowLabels => cur'[g] \in Row
    BY <1>7, GotoType DEF InsertFails, Labels, RowLabels
  <2>2. /\ fresh' \in [Frames -> SUBSET Legs]
        /\ spoiled' \in SUBSET Frames /\ lost' \in SUBSET Legs
    BY <1>1, <1>7 DEF TypeOK, InsertFails, RowLabels
  <2> QED BY <1>7, <2>1, <2>2 DEF TypeOK, InsertFails
<1>8. CASE StatusUnwritten(f)
  BY <1>8, RaiseType DEF TypeOK, StatusUnwritten
<1>9. CASE CommitRaises(f)
  <2>1. exitRows' \in [Legs -> Seq(ExecStatuses)]
    BY <1>9, WithFreshType DEF TypeOK, CommitRaises
  <2> QED BY <1>9, <2>1, RaiseType DEF TypeOK, CommitRaises
<1> QED BY <1>2, <1>3, <1>4, <1>5, <1>6, <1>7, <1>8, <1>9

LEMMA TypeWorld ==
  ASSUME ExitOrderConstants, TypeOK, World
  PROVE  TypeOK'
<1> USE DEF dbVars, localVars, failVars
<1>1. ASSUME NEW l \in Legs, Trigger(l) \/ Reject(l) \/ BrokerCancel(l)
      PROVE  TypeOK'
  <2>1. truth' \in [Legs -> Truths]
    BY <1>1 DEF TypeOK, Trigger, Reject, BrokerCancel, Truths
  <2> QED BY <1>1, <2>1 DEF TypeOK, Trigger, Reject, BrokerCancel
<1>2. ASSUME NEW l \in Legs, Fill(l)
      PROVE  TypeOK'
  <2>1. truth' \in [Legs -> Truths]
    BY <1>2 DEF TypeOK, Fill, Truths
  <2>2. BookOf[l] \in Books /\ Lots(l, 1) \in Int
    BY DEF ExitOrderConstants, Lots
  <2>3. book' \in [Books -> Int]
    BY <1>2, <2>2 DEF TypeOK, Fill, Execute
  <2> QED BY <1>2, <2>1, <2>3 DEF TypeOK, Fill
<1>3. ASSUME NEW l \in Legs, Poll(l)
      PROVE  TypeOK'
  BY <1>3 DEF TypeOK, Poll
<1>4. ASSUME NEW l \in Legs, SyncEntry(l)
      PROVE  TypeOK'
  <2>1. Synced(KindOf[l], listed[l]) \in ExecStatuses
    BY SyncedType DEF TypeOK, ExitOrderConstants
  <2>2. entry' \in [Legs -> ExecStatuses]
    BY <1>4, <2>1 DEF TypeOK, SyncEntry
  <2> QED BY <1>4, <2>2 DEF TypeOK, SyncEntry, worldVars
<1>5. ASSUME NEW b \in Books, ExecuteExit(b)
      PROVE  TypeOK'
  <2>1. Head(flight[b]) \in Int /\ Tail(flight[b]) \in Seq(Int)
    BY <1>5, HeadTailProperties DEF TypeOK, ExecuteExit
  <2>2. book' \in [Books -> Int] /\ flight' \in [Books -> Seq(Int)]
    BY <1>5, <2>1 DEF TypeOK, ExecuteExit, Execute
  <2> QED BY <1>5, <2>2 DEF TypeOK, ExecuteExit
<1> QED BY <1>1, <1>2, <1>3, <1>4, <1>5 DEF World

LEMMA TypeControl ==
  ASSUME ExitOrderConstants, TypeOK,
         \/ \E c \in Callers, o \in Orders, live, manual \in BOOLEAN :
              Call(c, o, live, manual)
         \/ Crash
  PROVE  TypeOK'
<1> USE DEF dbVars, worldVars, failVars
<1>1. ASSUME NEW c \in Callers, NEW o \in Orders,
             NEW live \in BOOLEAN, NEW manual \in BOOLEAN, Call(c, o, live, manual)
      PROVE  TypeOK'
  <2>1. <<c, o>> \in Frames /\ <<c, o>>[2] = o
    BY DEF Frames
  <2>2. /\ pc' = [pc EXCEPT ![<<c, o>>] = "read"]
        /\ opt' = [opt EXCEPT ![<<c, o>>] = [live |-> live, manual |-> manual]]
        /\ asked' = asked \cup {o}
        /\ calls' = calls + 1
    BY <1>1, <2>1 DEF Call, Start
  <2>3. opt' \in [Frames -> [live : BOOLEAN, manual : BOOLEAN]]
    BY <2>2 DEF TypeOK
  <2>4. /\ pc' \in [Frames -> Labels]
        /\ \A g \in Frames : pc'[g] \in RowLabels => cur[g] \in Row
    BY <2>2 DEF TypeOK, Labels, RowLabels
  <2>5. asked' \in SUBSET Orders /\ calls' \in Nat
    BY <2>2 DEF TypeOK
  <2> QED BY <1>1, <2>3, <2>4, <2>5 DEF TypeOK, Call, Start
<1>2. CASE Crash
  <2>1. Unknown \in [Legs -> ExecStatuses]
    BY DEF Unknown, ExecStatuses
  <2>2. /\ seen' \in [Frames -> [Legs -> ExecStatuses]]
        /\ opt' \in [Frames -> [live : BOOLEAN, manual : BOOLEAN]]
    BY <1>2, <2>1, NoOptType DEF Crash, ClearedFrames
  <2>3. /\ pc' \in [Frames -> Labels]
        /\ cur' \in [Frames -> Row \cup {NoRow}]
        /\ \A g \in Frames : pc'[g] \in RowLabels => cur'[g] \in Row
    BY <1>2 DEF Crash, ClearedFrames, Labels, RowLabels
  <2> QED BY <1>2, <2>2, <2>3 DEF TypeOK, Crash, ClearedFrames
<1> QED BY <1>1, <1>2

LEMMA TypeNext ==
  ASSUME ExitOrderConstants, TypeOK, [Next]_exitVars
  PROVE  TypeOK'
<1>1. ASSUME NEW f \in Frames, ExitStep(f) PROVE TypeOK'
  BY <1>1, TypeCalls, TypeRows, TypeBrokers, TypeRecords DEF ExitStep
<1>2. CASE UNCHANGED exitVars
  BY <1>2 DEF TypeOK, exitVars, worldVars, dbVars, localVars, failVars
<1> QED BY <1>1, <1>2, TypeWorld, TypeControl DEF Next

\* Every variable keeps its type (TypeOK), whatever the interleaving of calls,
\* monitor writes, exchange events and restarts.
THEOREM TypeCorrect == ExitOrderConstants => (Spec => []TypeOK)
<1> SUFFICES ASSUME ExitOrderConstants PROVE Spec => []TypeOK
  OBVIOUS
<1>1. Init => TypeOK
  BY TypeInit
<1>2. TypeOK /\ [Next]_exitVars => TypeOK'
  BY TypeNext
<1> QED BY <1>1, <1>2, PTL DEF Spec

--------------------------------------------------------------------------------
(***************************************************************************)
(* What is recorded of a finished order is what it is.  The facts of       *)
(* TruthInv are implications from a recorded status to a truth; they are   *)
(* kept by every step that records nothing, because the state of a         *)
(* finished order no longer changes (DoneStays).                           *)
(***************************************************************************)
LEMMA DoneStays ==
  ASSUME ExitOrderConstants, TypeOK, [Next]_exitVars, NEW l \in Legs,
         truth[l] \in DoneTruths
  PROVE  truth'[l] = truth[l]
<1> USE DEF worldVars
<1>1. ASSUME NEW f \in Frames, Cancel(f) PROVE truth'[l] = truth[l]
  BY <1>1 DEF TypeOK, Cancel, Cancellable
<1>2. ASSUME NEW f \in Frames, ExitStep(f), ~Cancel(f) PROVE truth' = truth
  BY <1>2 DEF ExitStep, ReadRows, RowsUnread, FetchLive, ReadChildren, ChildrenUnread,
              CallChild, ChildDone, ChildFailed, TakeRow, ReadPosition, PlaceExit,
              ClosePosition, BrokerMissing, CancelRaises, MarkCancelled, MarkFails,
              InsertExit, InsertFails, EndLoop, StatusUnwritten, Commit, CommitRaises
<1>3. ASSUME NEW m \in Legs, Trigger(m) \/ Fill(m) \/ Reject(m) \/ BrokerCancel(m)
      PROVE  truth'[l] = truth[l]
  BY <1>3 DEF TypeOK, Trigger, Fill, Reject, BrokerCancel, Cancellable, DoneTruths
<1>4. ASSUME NEW m \in Legs, Poll(m) \/ SyncEntry(m)
      PROVE  truth' = truth
  BY <1>4 DEF Poll, SyncEntry
<1>5. ASSUME NEW b \in Books, ExecuteExit(b)
      PROVE  truth' = truth
  BY <1>5 DEF ExecuteExit
<1>6. CASE World
  BY <1>6, <1>3, <1>4, <1>5 DEF World
<1>7. CASE \E c \in Callers, o \in Orders, live, manual \in BOOLEAN :
             Call(c, o, live, manual)
  BY <1>7 DEF Call
<1>8. CASE Crash
  BY <1>8 DEF Crash
<1>9. CASE UNCHANGED exitVars
  BY <1>9 DEF exitVars
<1> QED BY <1>1, <1>2, <1>6, <1>7, <1>8, <1>9 DEF Next

\* Statuses that say nothing of a finished order.
LEMMA NotDone ==
  /\ "UNKNOWN" \notin DoneTruths
  /\ "PENDING" \notin DoneTruths
  BY DEF DoneTruths

LEMMA TruthInit == Init => TruthInv
<1> SUFFICES ASSUME Init PROVE TruthInv
  OBVIOUS
<1>1. \A l \in Legs : entry[l] = "PENDING" /\ listed[l] = truth[l] /\ exitRows[l] = <<>>
  BY DEF Init
<1>2. \A f \in Frames : /\ pc[f] = "idle"
                        /\ todo[f] = {}
                        /\ \A l \in Legs : seen[f][l] = "UNKNOWN"
  BY DEF Init, Unknown
<1>3. EntryTruthful /\ ListedTruthful /\ SeenTruthful
  <2>1. DOMAIN entry = Legs
    BY DEF Init
  <2> QED BY <2>1, <1>1, <1>2, NotDone DEF EntryTruthful, ListedTruthful, SeenTruthful
<1>4. RowsTruthful /\ CancelAcknowledged
  BY <1>2 DEF RowsTruthful, CancelAcknowledged, RowLabels
<1>5. ExitRowsTruthful
  BY <1>1, EmptySeq DEF ExitRowsTruthful
<1> QED BY <1>3, <1>4, <1>5, TypeInit DEF TruthInv

\* A step that leaves a record alone leaves it true.
LEMMA EntryKept ==
  ASSUME TruthInv, ExitOrderConstants, [Next]_exitVars, entry' = entry
  PROVE  EntryTruthful'
  BY DoneStays DEF TruthInv, TypeOK, EntryTruthful

LEMMA ListedKept ==
  ASSUME TruthInv, ExitOrderConstants, [Next]_exitVars, listed' = listed
  PROVE  ListedTruthful'
  BY DoneStays DEF TruthInv, TypeOK, ListedTruthful

LEMMA SeenKept ==
  ASSUME TruthInv, ExitOrderConstants, [Next]_exitVars, seen' = seen
  PROVE  SeenTruthful'
  BY DoneStays DEF TruthInv, TypeOK, SeenTruthful

LEMMA ExitRowsKept ==
  ASSUME TruthInv, ExitOrderConstants, [Next]_exitVars, exitRows' = exitRows
  PROVE  ExitRowsTruthful'
  BY DoneStays DEF TruthInv, TypeOK, ExitRowsTruthful

LEMMA RowKept ==
  ASSUME TruthInv, ExitOrderConstants, [Next]_exitVars, NEW r \in Row, RowTruthful(r)
  PROVE  RowTruthful(r)'
  BY DoneStays, RowParts DEF TruthInv, TypeOK, RowTruthful

LEMMA RowsKept ==
  ASSUME TruthInv, ExitOrderConstants, [Next]_exitVars,
         \A g \in Frames : /\ todo'[g] \subseteq todo[g]
                           /\ pc'[g] \in RowLabels => /\ pc[g] \in RowLabels
                                                      /\ cur'[g] = cur[g]
  PROVE  RowsTruthful'
<1> SUFFICES ASSUME NEW g \in Frames
             PROVE  /\ \A r \in todo'[g] : RowTruthful(r)'
                    /\ pc'[g] \in RowLabels => RowTruthful(cur[g])'
  BY DEF RowsTruthful, RowTruthful
<1>1. \A r \in todo[g] : r \in Row /\ RowTruthful(r)
  BY DEF TruthInv, TypeOK, RowsTruthful
<1>2. pc[g] \in RowLabels => cur[g] \in Row /\ RowTruthful(cur[g])
  BY DEF TruthInv, TypeOK, RowsTruthful
<1> QED BY <1>1, <1>2, RowKept

LEMMA CancelKept ==
  ASSUME TruthInv, ExitOrderConstants, [Next]_exitVars,
         \A g \in Frames : pc'[g] = "mark" => pc[g] = "mark" /\ cur'[g] = cur[g]
  PROVE  CancelAcknowledged'
<1> SUFFICES ASSUME NEW g \in Frames, pc'[g] = "mark"
             PROVE  truth'[CurLeg(g)'] = "CANCELLED"
  BY DEF CancelAcknowledged
<1>1. pc[g] = "mark" /\ CurLeg(g)' = CurLeg(g)
  BY DEF CurLeg
<1>2. CurLeg(g) \in Legs
  BY <1>1, RowParts DEF TruthInv, TypeOK, RowLabels, CurLeg
<1>3. truth[CurLeg(g)] = "CANCELLED"
  BY <1>1 DEF TruthInv, CancelAcknowledged
<1> QED BY <1>1, <1>2, <1>3, DoneStays DEF TruthInv, DoneTruths

\* Where a frame goes, the others stay.
LEMMA GotoFrame ==
  ASSUME TypeOK, NEW f \in Frames, NEW label, Goto(f, label)
  PROVE  /\ pc'[f] = label
         /\ label \in RowLabels => cur'[f] = cur[f]
         /\ \A g \in Frames : g # f => pc'[g] = pc[g] /\ cur'[g] = cur[g]
  BY DEF TypeOK, Goto

\* The steps of a call that record nothing.
LEMMA TruthQuiet ==
  ASSUME TruthInv, ExitOrderConstants, [Next]_exitVars, NEW f \in Frames,
         \/ ReadChildren(f) \/ ChildrenUnread(f) \/ CallChild(f) \/ ChildDone(f)
         \/ ChildFailed(f) \/ CancelRaises(f) \/ MarkFails(f) \/ InsertFails(f)
         \/ ReadPosition(f) \/ PlaceExit(f) \/ ClosePosition(f) \/ BrokerMissing(f)
         \/ InsertExit(f) \/ EndLoop(f)
  PROVE  /\ EntryTruthful' /\ ListedTruthful' /\ SeenTruthful'
         /\ RowsTruthful' /\ ExitRowsTruthful' /\ CancelAcknowledged'
<1> USE DEF worldVars, dbVars, localVars
<1>1. /\ entry' = entry /\ listed' = listed /\ seen' = seen
      /\ exitRows' = exitRows /\ todo' = todo
  BY DEF ReadChildren, ChildrenUnread, CallChild, ChildDone, ChildFailed, CancelRaises,
         MarkFails, InsertFails, ReadPosition, PlaceExit, ClosePosition, BrokerMissing,
         InsertExit, EndLoop
<1>2. \A g \in Frames : /\ pc'[g] \in RowLabels => /\ pc[g] \in RowLabels
                                                    /\ cur'[g] = cur[g]
                        /\ pc'[g] = "mark" => pc[g] = "mark"
  <2> SUFFICES ASSUME NEW g \in Frames
               PROVE  /\ pc'[g] \in RowLabels => /\ pc[g] \in RowLabels
                                                  /\ cur'[g] = cur[g]
                      /\ pc'[g] = "mark" => pc[g] = "mark"
    OBVIOUS
  <2>0. TypeOK BY DEF TruthInv
  <2>1. CASE \/ ReadChildren(f) \/ ChildrenUnread(f) \/ ChildDone(f) \/ CancelRaises(f)
             \/ MarkFails(f) \/ InsertFails(f) \/ EndLoop(f) \/ InsertExit(f)
    <3>1. \E label \in {"loop", "commit"} : Goto(f, label)
      BY <2>1 DEF ReadChildren, ChildrenUnread, ChildDone, CancelRaises, MarkFails,
                  InsertFails, EndLoop, InsertExit
    <3> QED BY <2>0, <3>1, GotoFrame DEF RowLabels
  <2>2. CASE CallChild(f)
    <3>1. PICK h \in kids[f] : /\ pc' = [pc EXCEPT ![f] = "await", ![<<f[1], h>>] = "read"]
                               /\ cur' = cur
      BY <2>2 DEF CallChild
    <3>2. pc'[g] \in {pc[g], "await", "read"}
      BY <2>0, <3>1 DEF TypeOK
    <3> QED BY <3>1, <3>2 DEF RowLabels
  <2>3. CASE ReadPosition(f) \/ PlaceExit(f) \/ ClosePosition(f) \/ BrokerMissing(f)
    <3>1. pc[f] \in RowLabels
      BY <2>3 DEF ReadPosition, PlaceExit, ClosePosition, BrokerMissing, RowLabels
    <3>2. \E label \in {"loop", "place", "cancel", "insert"} : Goto(f, label)
      BY <2>3 DEF ReadPosition, PlaceExit, ClosePosition, BrokerMissing, AfterExit
    <3> QED BY <2>0, <3>1, <3>2, GotoFrame DEF RowLabels
  <2>4. CASE ChildFailed(f)
    <3>1. /\ pc' = [pc EXCEPT ![f] = "loop", ![<<f[1], kid[f]>>] = "idle"]
          /\ cur' = cur
      BY <2>4 DEF ChildFailed
    <3>2. pc'[g] \in {pc[g], "loop", "idle"}
      BY <2>0, <3>1 DEF TypeOK
    <3> QED BY <3>1, <3>2 DEF RowLabels
  <2> QED BY <2>1, <2>2, <2>3, <2>4
<1>3. \A g \in Frames : pc'[g] = "mark" => pc[g] = "mark" /\ cur'[g] = cur[g]
  BY <1>2 DEF RowLabels
<1> QED BY <1>1, <1>2, <1>3, EntryKept, ListedKept, SeenKept, ExitRowsKept, RowsKept,
           CancelKept

\* What is read from the database, and from the brokers.
LEMMA TruthReads ==
  ASSUME TruthInv, ExitOrderConstants, [Next]_exitVars, NEW f \in Frames,
         ReadRows(f) \/ FetchLive(f)
  PROVE  /\ EntryTruthful' /\ ListedTruthful' /\ SeenTruthful'
         /\ RowsTruthful' /\ ExitRowsTruthful' /\ CancelAcknowledged'
<1> USE DEF worldVars, dbVars
<1>0. TypeOK BY DEF TruthInv
<1>1. entry' = entry /\ listed' = listed /\ exitRows' = exitRows /\ truth' = truth
  BY DEF ReadRows, FetchLive
<1>2. \A g \in Frames : pc'[g] \in RowLabels => pc[g] \in RowLabels /\ cur'[g] = cur[g]
  <2>1. \E label \in {"idle", "fetch", "children"} : Goto(f, label)
    BY DEF ReadRows, FetchLive
  <2> QED BY <1>0, <2>1, GotoFrame DEF RowLabels
<1>3. \A g \in Frames : pc'[g] = "mark" => pc[g] = "mark" /\ cur'[g] = cur[g]
  <2>1. \E label \in {"idle", "fetch", "children"} : Goto(f, label)
    BY DEF ReadRows, FetchLive
  <2> QED BY <1>0, <2>1, GotoFrame DEF RowLabels
<1>4. SeenTruthful'
  <2>1. CASE ReadRows(f)
    BY <2>1, SeenKept DEF ReadRows
  <2>2. CASE FetchLive(f)
    <3>1. PICK S \in SUBSET LegsOf(f[2]) :
            seen' = [seen EXCEPT ![f] =
                       [l \in Legs |-> IF l \in S THEN View(KindOf[l], truth[l])
                                                  ELSE "UNKNOWN"]]
      BY <2>2 DEF FetchLive
    <3>2. \A l \in Legs : View(KindOf[l], truth[l]) \in DoneTruths
                            => truth[l] = View(KindOf[l], truth[l])
      BY <1>0, ViewDone DEF TypeOK, ExitOrderConstants
    <3>3. \A g \in Frames, l \in Legs :
            seen'[g][l] \in {seen[g][l], View(KindOf[l], truth[l]), "UNKNOWN"}
      BY <1>0, <3>1 DEF TypeOK
    <3> QED BY <1>1, <3>2, <3>3, NotDone DEF TruthInv, SeenTruthful
  <2> QED BY <2>1, <2>2
<1>5. RowsTruthful'
  <2>1. CASE ReadRows(f)
    <3>1. \A r \in RowsOf(f[2]) : RowTruthful(r)
      BY <1>0 DEF RowsOf, RowTruthful, TypeOK, TruthInv, EntryTruthful, ExitRowsTruthful, LegsOf
    <3>2. \A g \in Frames : todo'[g] \in {todo[g], RowsOf(f[2])}
      BY <1>0, <2>1 DEF ReadRows, TypeOK
    <3>3. \A g \in Frames : \A r \in todo'[g] : RowTruthful(r)
      BY <3>1, <3>2 DEF TruthInv, RowsTruthful
    <3> QED BY <1>1, <1>2, <3>3 DEF TruthInv, RowsTruthful, RowTruthful
  <2>2. CASE FetchLive(f)
    BY <1>2, <2>2, RowsKept DEF FetchLive
  <2> QED BY <2>1, <2>2
<1> QED BY <1>1, <1>3, <1>4, <1>5, EntryKept, ListedKept, ExitRowsKept, CancelKept

\* A row is taken: its status in hand, and in the database, is one of those read.
LEMMA TruthTakeRow ==
  ASSUME TruthInv, ExitOrderConstants, [Next]_exitVars, NEW f \in Frames, TakeRow(f)
  PROVE  /\ EntryTruthful' /\ ListedTruthful' /\ SeenTruthful'
         /\ RowsTruthful' /\ ExitRowsTruthful' /\ CancelAcknowledged'
<1>0. TypeOK BY DEF TruthInv
<1>1. PICK r \in todo[f] :
        LET l  == r[1]
            st == IF seen[f][l] = "UNKNOWN" THEN r[3] ELSE seen[f][l]
        IN  /\ todo' = [todo EXCEPT ![f] = @ \ {r}]
            /\ pc' = [pc EXCEPT ![f] = Decision(l, st)]
            /\ cur' = [cur EXCEPT ![f] = IF Decision(l, st) = "loop"
                                          THEN NoRow ELSE <<l, r[2], st>>]
            /\ \/ /\ entry' = IF r[2] = 0 /\ st # r[3]
                                THEN [entry EXCEPT ![l] = st] ELSE entry
                  /\ exitRows' = IF r[2] # 0 /\ st # r[3]
                                   THEN [exitRows EXCEPT ![l][r[2]] = st] ELSE exitRows
               \/ UNCHANGED <<entry, exitRows>>
  BY DEF TakeRow
<1> DEFINE l  == r[1]
           st == IF seen[f][l] = "UNKNOWN" THEN r[3] ELSE seen[f][l]
<1>2. l \in Legs /\ r[2] \in Nat /\ st \in ExecStatuses
  BY <1>0, RowParts DEF TypeOK
<1>3. st \in DoneTruths => truth[l] = st
  BY <1>2 DEF TruthInv, SeenTruthful, RowsTruthful, RowTruthful
<1>4. /\ todo' = [todo EXCEPT ![f] = @ \ {r}]
      /\ pc' = [pc EXCEPT ![f] = Decision(l, st)]
      /\ cur' = [cur EXCEPT ![f] = IF Decision(l, st) = "loop"
                                    THEN NoRow ELSE <<l, r[2], st>>]
  BY <1>1
<1>11. /\ \/ entry' = [entry EXCEPT ![l] = st]
          \/ entry' = entry
       /\ \/ exitRows' = [exitRows EXCEPT ![l][r[2]] = st]
          \/ exitRows' = exitRows
  BY <1>1
<1>5. truth' = truth /\ listed' = listed /\ seen' = seen
  BY DEF TakeRow, worldVars
<1>6. Decision(l, st) \in {"close", "position", "cancel", "loop"}
  BY DEF Decision
<1> HIDE DEF l, st
<1>7. EntryTruthful'
  BY <1>0, <1>2, <1>3, <1>11, <1>5 DEF TypeOK, TruthInv, EntryTruthful
<1>8. ExitRowsTruthful'
  <2>1. CASE exitRows' = [exitRows EXCEPT ![l][r[2]] = st]
    <3> SUFFICES ASSUME NEW m \in Legs, NEW i \in DOMAIN exitRows'[m],
                        exitRows'[m][i] \in DoneTruths
                 PROVE  truth[m] = exitRows'[m][i]
      BY <1>5 DEF ExitRowsTruthful
    <3>1. exitRows'[m] = IF m = l THEN [exitRows[l] EXCEPT ![r[2]] = st] ELSE exitRows[m]
      BY <1>0, <1>2, <2>1 DEF TypeOK
    <3>2. i \in DOMAIN exitRows[m]
      BY <3>1
    <3>3. \/ m = l /\ exitRows'[m][i] = st
          \/ exitRows'[m][i] = exitRows[m][i]
      BY <3>1, <3>2
    <3> QED BY <3>2, <3>3, <1>3 DEF TruthInv, ExitRowsTruthful
  <2> QED BY <2>1, <1>11, ExitRowsKept
<1>9. RowsTruthful'
  <2> SUFFICES ASSUME NEW g \in Frames
               PROVE  /\ \A q \in todo'[g] : RowTruthful(q)
                      /\ pc'[g] \in RowLabels => RowTruthful(cur'[g])
    BY <1>5 DEF RowsTruthful, RowTruthful
  <2>1. todo'[g] \subseteq todo[g]
    BY <1>0, <1>4 DEF TypeOK
  <2>2. CASE g = f
    <3>1. pc'[g] \in RowLabels => cur'[g] = <<l, r[2], st>>
      BY <1>0, <1>4, <2>2 DEF TypeOK, RowLabels
    <3>2. RowTruthful(<<l, r[2], st>>)
      BY <1>3 DEF RowTruthful
    <3> QED BY <2>1, <3>1, <3>2 DEF TruthInv, RowsTruthful
  <2>3. CASE g # f
    <3>1. pc'[g] = pc[g] /\ cur'[g] = cur[g]
      BY <1>0, <1>4, <2>3 DEF TypeOK
    <3> QED BY <2>1, <3>1 DEF TruthInv, RowsTruthful
  <2> QED BY <2>2, <2>3
<1>10. \A g \in Frames : pc'[g] = "mark" => pc[g] = "mark" /\ cur'[g] = cur[g]
  BY <1>0, <1>4, <1>6 DEF TypeOK
<1> QED BY <1>5, <1>7, <1>8, <1>9, <1>10, ListedKept, SeenKept, CancelKept

\* A row is marked only after the broker has acknowledged the cancellation.
LEMMA TruthCancel ==
  ASSUME TruthInv, ExitOrderConstants, [Next]_exitVars, NEW f \in Frames, Cancel(f)
  PROVE  /\ EntryTruthful' /\ ListedTruthful' /\ SeenTruthful'
         /\ RowsTruthful' /\ ExitRowsTruthful' /\ CancelAcknowledged'
<1>0. TypeOK BY DEF TruthInv
<1>1. /\ entry' = entry /\ listed' = listed /\ exitRows' = exitRows
      /\ seen' = seen /\ todo' = todo
  BY DEF Cancel, dbVars, localVars
<1>2. /\ pc[f] = "cancel" /\ CurLeg(f) \in Legs
  BY <1>0, RowParts DEF Cancel, TypeOK, RowLabels, CurLeg
<1>3. \/ /\ truth' = [truth EXCEPT ![CurLeg(f)] = "CANCELLED"]
         /\ \E label \in {"mark", "insert", "loop"} : Goto(f, label)
      \/ \E label \in {"insert", "loop"} : Goto(f, label)
  BY DEF Cancel
<1>4. PICK label \in {"mark", "insert", "loop"} :
        /\ Goto(f, label)
        /\ label = "mark" => truth' = [truth EXCEPT ![CurLeg(f)] = "CANCELLED"]
  BY <1>3
<1>5. /\ pc'[f] = label
      /\ label \in RowLabels => cur'[f] = cur[f]
      /\ \A g \in Frames : g # f => pc'[g] = pc[g] /\ cur'[g] = cur[g]
  BY <1>0, <1>4, GotoFrame
<1>6. RowsTruthful'
  <2>1. \A g \in Frames : pc'[g] \in RowLabels => pc[g] \in RowLabels /\ cur'[g] = cur[g]
    BY <1>2, <1>5 DEF RowLabels
  <2> QED BY <1>1, <2>1, RowsKept
<1>7. CancelAcknowledged'
  <2> SUFFICES ASSUME NEW g \in Frames, pc'[g] = "mark"
               PROVE  truth'[CurLeg(g)'] = "CANCELLED"
    BY DEF CancelAcknowledged
  <2>1. CurLeg(g)' = CurLeg(g) /\ CurLeg(g) \in Legs
    BY <1>0, <1>2, <1>5, RowParts DEF CurLeg, RowLabels, TypeOK
  <2>2. CASE g = f
    BY <1>0, <1>2, <1>4, <1>5, <2>1, <2>2 DEF TypeOK
  <2>3. CASE g # f
    <3>1. truth[CurLeg(g)] = "CANCELLED"
      BY <1>5, <2>3 DEF TruthInv, CancelAcknowledged
    <3> QED BY <1>0, <2>1, <3>1, DoneStays DEF DoneTruths
  <2> QED BY <2>2, <2>3
<1> QED BY <1>1, <1>6, <1>7, EntryKept, ListedKept, SeenKept, ExitRowsKept

LEMMA TruthMark ==
  ASSUME TruthInv, ExitOrderConstants, [Next]_exitVars, NEW f \in Frames,
         MarkCancelled(f)
  PROVE  /\ EntryTruthful' /\ ListedTruthful' /\ SeenTruthful'
         /\ RowsTruthful' /\ ExitRowsTruthful' /\ CancelAcknowledged'
<1>0. TypeOK BY DEF TruthInv
<1> DEFINE l == CurLeg(f)
           k == CurIndex(f)
<1>1. truth' = truth /\ listed' = listed /\ seen' = seen /\ todo' = todo
  BY DEF MarkCancelled, worldVars, localVars
<1>2. l \in Legs /\ k \in Nat /\ truth[l] = "CANCELLED"
  BY <1>0, RowParts DEF MarkCancelled, TypeOK, RowLabels, CurLeg, CurIndex,
                        TruthInv, CancelAcknowledged
<1>3. \/ entry' = [entry EXCEPT ![l] = "CANCELLED"] /\ exitRows' = exitRows
      \/ exitRows' = [exitRows EXCEPT ![l][k] = "CANCELLED"] /\ entry' = entry
  BY DEF MarkCancelled
<1>4. \A g \in Frames : pc'[g] \in RowLabels => pc[g] \in RowLabels /\ cur'[g] = cur[g]
  BY <1>0, GotoFrame DEF MarkCancelled, RowLabels
<1>5. \A g \in Frames : pc'[g] = "mark" => pc[g] = "mark" /\ cur'[g] = cur[g]
  BY <1>0, GotoFrame DEF MarkCancelled
<1> HIDE DEF l, k
<1>6. EntryTruthful'
  BY <1>0, <1>1, <1>2, <1>3 DEF TypeOK, TruthInv, EntryTruthful
<1>7. ExitRowsTruthful'
  <2>1. CASE exitRows' = [exitRows EXCEPT ![l][k] = "CANCELLED"]
    <3> SUFFICES ASSUME NEW m \in Legs, NEW i \in DOMAIN exitRows'[m],
                        exitRows'[m][i] \in DoneTruths
                 PROVE  truth[m] = exitRows'[m][i]
      BY <1>1 DEF ExitRowsTruthful
    <3>1. exitRows'[m] = IF m = l THEN [exitRows[l] EXCEPT ![k] = "CANCELLED"]
                                  ELSE exitRows[m]
      BY <1>0, <1>2, <2>1 DEF TypeOK
    <3>2. i \in DOMAIN exitRows[m]
      BY <3>1
    <3>3. \/ m = l /\ exitRows'[m][i] = "CANCELLED"
          \/ exitRows'[m][i] = exitRows[m][i]
      BY <3>1, <3>2
    <3> QED BY <3>2, <3>3, <1>2 DEF TruthInv, ExitRowsTruthful
  <2> QED BY <2>1, <1>3, ExitRowsKept
<1> QED BY <1>1, <1>4, <1>5, <1>6, <1>7, ListedKept, SeenKept, RowsKept, CancelKept

\* A call that ends, well or badly.
LEMMA TruthCommit ==
  ASSUME TruthInv, ExitOrderConstants, [Next]_exitVars, NEW f \in Frames,
         Commit(f) \/ CommitRaises(f) \/ RowsUnread(f) \/ StatusUnwritten(f)
  PROVE  /\ EntryTruthful' /\ ListedTruthful' /\ SeenTruthful'
         /\ RowsTruthful' /\ ExitRowsTruthful' /\ CancelAcknowledged'
<1>0. TypeOK BY DEF TruthInv
<1>1. /\ truth' = truth /\ listed' = listed /\ entry' = entry /\ todo' = todo
      /\ seen' = [seen EXCEPT ![f] = Unknown]
      /\ \E label \in {"idle", "raised"} : Goto(f, label)
  BY DEF Commit, CommitRaises, RowsUnread, StatusUnwritten, Raise, worldVars, dbVars
<1>2. \A g \in Frames : /\ pc'[g] \in RowLabels => pc[g] \in RowLabels /\ cur'[g] = cur[g]
                        /\ pc'[g] = "mark" => pc[g] = "mark" /\ cur'[g] = cur[g]
  BY <1>0, <1>1, GotoFrame DEF RowLabels
<1>3. SeenTruthful'
  <2>1. \A g \in Frames, l \in Legs : seen'[g][l] \in {seen[g][l], "UNKNOWN"}
    BY <1>0, <1>1 DEF TypeOK, Unknown
  <2> QED BY <1>1, <2>1, NotDone DEF TruthInv, SeenTruthful
<1>4. ExitRowsTruthful'
  <2> SUFFICES ASSUME NEW l \in Legs, NEW i \in DOMAIN exitRows'[l],
                      exitRows'[l][i] \in DoneTruths
               PROVE  truth[l] = exitRows'[l][i]
    BY <1>1 DEF ExitRowsTruthful
  <2>1. exitRows'[l] \in {exitRows[l], Append(exitRows[l], "PENDING")}
    BY DEF Commit, CommitRaises, RowsUnread, StatusUnwritten, WithFresh, dbVars
  <2>2. exitRows[l] \in Seq(ExecStatuses) /\ "PENDING" \in ExecStatuses
    BY <1>0 DEF TypeOK, ExecStatuses
  <2>3. i \in DOMAIN exitRows[l] /\ exitRows'[l][i] = exitRows[l][i]
    <3>1. CASE exitRows'[l] = exitRows[l]
      BY <3>1
    <3>2. CASE exitRows'[l] = Append(exitRows[l], "PENDING")
      <4>1. /\ Len(Append(exitRows[l], "PENDING")) = Len(exitRows[l]) + 1
            /\ \A j \in 1 .. Len(exitRows[l]) :
                 Append(exitRows[l], "PENDING")[j] = exitRows[l][j]
            /\ Append(exitRows[l], "PENDING")[Len(exitRows[l]) + 1] = "PENDING"
            /\ Append(exitRows[l], "PENDING") \in Seq(ExecStatuses)
        BY <2>2, AppendProperties
      <4>2. i \in 1 .. Len(exitRows[l]) + 1 /\ Len(exitRows[l]) \in Nat
        BY <2>2, <3>2, <4>1, LenProperties
      <4>3. i # Len(exitRows[l]) + 1
        BY <3>2, <4>1, NotDone
      <4> QED BY <2>2, <3>2, <4>1, <4>2, <4>3, LenProperties
    <3> QED BY <2>1, <3>1, <3>2
  <2> QED BY <2>3 DEF TruthInv, ExitRowsTruthful
<1> QED BY <1>1, <1>2, <1>3, <1>4, EntryKept, ListedKept, RowsKept, CancelKept

LEMMA TruthWorld ==
  ASSUME TruthInv, ExitOrderConstants, [Next]_exitVars, World
  PROVE  /\ EntryTruthful' /\ ListedTruthful' /\ SeenTruthful'
         /\ RowsTruthful' /\ ExitRowsTruthful' /\ CancelAcknowledged'
<1> USE DEF dbVars, localVars, worldVars
<1>0. TypeOK BY DEF TruthInv
<1>1. /\ seen' = seen /\ exitRows' = exitRows /\ todo' = todo /\ pc' = pc /\ cur' = cur
  BY DEF World, Trigger, Fill, Reject, BrokerCancel, Poll, SyncEntry, ExecuteExit
<1>2. EntryTruthful'
  <2>1. ASSUME NEW l \in Legs, SyncEntry(l) PROVE EntryTruthful'
    <3>1. entry' = [entry EXCEPT ![l] = Synced(KindOf[l], listed[l])] /\ truth' = truth
      BY <2>1 DEF SyncEntry
    <3>2. Synced(KindOf[l], listed[l]) \in DoneTruths
            => truth[l] = Synced(KindOf[l], listed[l])
      BY <1>0, SyncedDone DEF TypeOK, ExitOrderConstants, TruthInv, ListedTruthful
    <3> QED BY <1>0, <3>1, <3>2 DEF TypeOK, TruthInv, EntryTruthful
  <2>2. CASE entry' = entry
    BY <2>2, EntryKept
  <2> QED BY <2>1, <2>2 DEF World, Trigger, Fill, Reject, BrokerCancel, Poll, ExecuteExit
<1>3. ListedTruthful'
  <2>1. ASSUME NEW l \in Legs, Poll(l) PROVE ListedTruthful'
    BY <1>0, <2>1 DEF Poll, TypeOK, TruthInv, ListedTruthful
  <2>2. CASE listed' = listed
    BY <2>2, ListedKept
  <2> QED BY <2>1, <2>2 DEF World, Trigger, Fill, Reject, BrokerCancel, SyncEntry,
                            ExecuteExit
<1> QED BY <1>1, <1>2, <1>3, SeenKept, ExitRowsKept, RowsKept, CancelKept

LEMMA TruthControl ==
  ASSUME TruthInv, ExitOrderConstants, [Next]_exitVars,
         \/ \E c \in Callers, o \in Orders, live, manual \in BOOLEAN :
              Call(c, o, live, manual)
         \/ Crash
  PROVE  /\ EntryTruthful' /\ ListedTruthful' /\ SeenTruthful'
         /\ RowsTruthful' /\ ExitRowsTruthful' /\ CancelAcknowledged'
<1> USE DEF dbVars, worldVars
<1>0. TypeOK BY DEF TruthInv
<1>1. entry' = entry /\ listed' = listed /\ exitRows' = exitRows /\ truth' = truth
  BY DEF Call, Crash
<1>2. ASSUME NEW c \in Callers, NEW o \in Orders,
             NEW live \in BOOLEAN, NEW manual \in BOOLEAN, Call(c, o, live, manual)
      PROVE  SeenTruthful' /\ RowsTruthful' /\ CancelAcknowledged'
  <2>1. seen' = seen /\ todo' = todo /\ cur' = cur
        /\ pc' = [pc EXCEPT ![<<c, o>>] = "read"]
    BY <1>2 DEF Call, Start
  <2>2. \A g \in Frames : pc'[g] \in {pc[g], "read"}
    BY <1>0, <2>1 DEF TypeOK
  <2> QED BY <2>1, <2>2, SeenKept, RowsKept, CancelKept DEF RowLabels
<1>3. CASE Crash
  <2>1. \A g \in Frames : /\ pc'[g] = "idle" /\ todo'[g] = {}
                          /\ \A l \in Legs : seen'[g][l] = "UNKNOWN"
    BY <1>3 DEF Crash, ClearedFrames, Unknown
  <2>2. SeenTruthful'
    BY <2>1, NotDone DEF SeenTruthful
  <2>3. RowsTruthful'
    BY <2>1 DEF RowsTruthful, RowLabels
  <2>4. CancelAcknowledged'
    BY <2>1 DEF CancelAcknowledged
  <2> QED BY <1>1, <2>2, <2>3, <2>4, EntryKept, ListedKept, ExitRowsKept
<1> QED BY <1>1, <1>2, <1>3, EntryKept, ListedKept, ExitRowsKept

LEMMA TruthNext ==
  ASSUME ExitOrderConstants, TypeOK, TruthInv, [Next]_exitVars
  PROVE  TruthInv'
<1>0. TypeOK'
  BY TypeNext
<1>1. ASSUME NEW f \in Frames, ExitStep(f) PROVE TruthInv'
  BY <1>0, <1>1, TruthQuiet, TruthReads, TruthTakeRow, TruthCancel, TruthMark, TruthCommit
     DEF ExitStep, TruthInv
<1>2. CASE UNCHANGED exitVars
  BY <1>0, <1>2, EntryKept, ListedKept, SeenKept, ExitRowsKept, RowsKept, CancelKept
     DEF TruthInv, exitVars, worldVars, dbVars, localVars
<1> QED BY <1>0, <1>1, <1>2, TruthWorld, TruthControl DEF Next, TruthInv

\* What the database, the order cache and the calls under way record of a
\* finished entry order is what the order is (TruthInv), in every interleaving.
THEOREM Truthful == ExitOrderConstants => (Spec => []TruthInv)
<1> SUFFICES ASSUME ExitOrderConstants PROVE Spec => []TruthInv
  OBVIOUS
<1>1. Init => TruthInv
  BY TruthInit
<1>2. TypeOK /\ TruthInv /\ [Next]_exitVars => TruthInv'
  BY TruthNext
<1> QED BY <1>1, <1>2, TypeCorrect, PTL DEF Spec

\* In particular an ENTRY row never claims an end its order has not come to.
COROLLARY EntriesTruthful == ExitOrderConstants => (Spec => []EntryTruthful)
<1> SUFFICES ASSUME ExitOrderConstants PROVE Spec => []EntryTruthful
  OBVIOUS
<1>1. TruthInv => EntryTruthful
  BY DEF TruthInv
<1> QED BY <1>1, Truthful, PTL

--------------------------------------------------------------------------------
(***************************************************************************)
(* A step of one call and the other calls.                                 *)
(***************************************************************************)
\* A call leaves what the others remember alone, but that it may start one.
LEMMA OthersStay ==
  ASSUME TypeOK, NEW g \in Frames, ExitStep(g), NEW f \in Frames, f # g
  PROVE  /\ cur'[f] = cur[f] /\ todo'[f] = todo[f] /\ fresh'[f] = fresh[f]
         /\ kids'[f] = kids[f] /\ kid'[f] = kid[f] /\ qty'[f] = qty[f]
         /\ \/ pc'[f] = pc[f]
            \/ CallChild(g) /\ pc[f] = "idle" /\ pc'[f] = "read"
            \/ /\ ChildFailed(g) /\ f = <<g[1], kid[g]>> /\ pc'[f] = "idle"
               /\ pc[f] \in {"idle", "raised"}
<1> USE DEF localVars
<1>1. CASE CallChild(g)
  <2>1. PICK h \in kids[g] : /\ pc[<<g[1], h>>] = "idle"
                             /\ pc' = [pc EXCEPT ![g] = "await", ![<<g[1], h>>] = "read"]
                             /\ kid' = [kid EXCEPT ![g] = h]
                             /\ kids' = [kids EXCEPT ![g] = @ \ {h}]
    BY <1>1 DEF CallChild
  <2>2. pc'[f] = IF f = <<g[1], h>> THEN "read" ELSE pc[f]
    BY <2>1 DEF TypeOK
  <2>3. kids'[f] = kids[f] /\ kid'[f] = kid[f]
    BY <2>1 DEF TypeOK
  <2> QED BY <1>1, <2>1, <2>2, <2>3 DEF CallChild
<1>2. CASE TakeRow(g)
  BY <1>2 DEF TakeRow, TypeOK
<1>3. CASE ReadRows(g) \/ FetchLive(g) \/ ReadChildren(g) \/ ChildrenUnread(g) \/ ChildDone(g)
  <2>1. pc'[f] = pc[f] /\ cur'[f] = cur[f]
    BY <1>3, GotoFrame DEF ReadRows, FetchLive, ReadChildren, ChildrenUnread, ChildDone
  <2>2. /\ todo'[f] = todo[f] /\ fresh'[f] = fresh[f]
        /\ kids'[f] = kids[f] /\ kid'[f] = kid[f] /\ qty'[f] = qty[f]
    BY <1>3 DEF ReadRows, FetchLive, ReadChildren, ChildrenUnread, ChildDone, TypeOK
  <2> QED BY <2>1, <2>2
<1>4. CASE ReadPosition(g) \/ PlaceExit(g) \/ ClosePosition(g) \/ BrokerMissing(g)
  <2>1. pc'[f] = pc[f] /\ cur'[f] = cur[f]
    BY <1>4, GotoFrame DEF ReadPosition, PlaceExit, ClosePosition, BrokerMissing
  <2>2. /\ todo'[f] = todo[f] /\ fresh'[f] = fresh[f]
        /\ kids'[f] = kids[f] /\ kid'[f] = kid[f] /\ qty'[f] = qty[f]
    BY <1>4 DEF ReadPosition, PlaceExit, ClosePosition, BrokerMissing, TypeOK
  <2> QED BY <2>1, <2>2
<1>5. CASE \/ Cancel(g) \/ CancelRaises(g) \/ MarkCancelled(g) \/ MarkFails(g)
           \/ InsertExit(g) \/ InsertFails(g) \/ EndLoop(g) \/ Commit(g)
  <2>1. \E label : Goto(g, label)
    BY <1>5 DEF Cancel, CancelRaises, MarkCancelled, MarkFails, InsertExit, InsertFails,
                EndLoop, Commit
  <2>2. pc'[f] = pc[f] /\ cur'[f] = cur[f]
    BY <2>1, GotoFrame
  <2>3. /\ todo'[f] = todo[f] /\ fresh'[f] = fresh[f]
        /\ kids'[f] = kids[f] /\ kid'[f] = kid[f] /\ qty'[f] = qty[f]
    BY <1>5 DEF Cancel, CancelRaises, MarkCancelled, MarkFails, InsertExit, InsertFails,
                EndLoop, Commit, TypeOK
  <2> QED BY <2>2, <2>3
<1>6. CASE RowsUnread(g) \/ StatusUnwritten(g) \/ CommitRaises(g)
  <2>1. Raise(g) /\ UNCHANGED <<todo, kids, kid, qty>>
    BY <1>6 DEF RowsUnread, StatusUnwritten, CommitRaises
  <2> QED BY <2>1, RaiseFrame
<1>7. CASE ChildFailed(g)
  <2>1. /\ pc' = [pc EXCEPT ![g] = "loop", ![<<g[1], kid[g]>>] = "idle"]
        /\ pc[<<g[1], kid[g]>>] \in {"idle", "raised"}
        /\ kid' = [kid EXCEPT ![g] = NoOrder]
        /\ cur' = cur /\ todo' = todo /\ fresh' = fresh /\ kids' = kids /\ qty' = qty
    BY <1>7 DEF ChildFailed
  <2>2. pc'[f] = IF f = <<g[1], kid[g]>> THEN "idle" ELSE pc[f]
    BY <2>1 DEF TypeOK
  <2> QED BY <1>7, <2>1, <2>2 DEF TypeOK
<1> QED BY <1>1, <1>2, <1>3, <1>4, <1>5, <1>6, <1>7 DEF ExitStep

\* The rest of the program leaves what the calls remember alone, but that it
\* starts calls.
LEMMA OutsideStays ==
  ASSUME TypeOK,
         \/ \E c \in Callers, o \in Orders, live, manual \in BOOLEAN : Call(c, o, live, manual)
         \/ World
         \/ UNCHANGED exitVars
  PROVE  /\ cur' = cur /\ todo' = todo /\ fresh' = fresh /\ kids' = kids /\ kid' = kid /\ qty' = qty
         /\ \A f \in Frames : \/ pc'[f] = pc[f]
                              \/ pc[f] = "idle" /\ pc'[f] = "read"
<1> USE DEF localVars
<1>1. ASSUME NEW c \in Callers, NEW o \in Orders,
             NEW live \in BOOLEAN, NEW manual \in BOOLEAN, Call(c, o, live, manual)
      PROVE  /\ cur' = cur /\ todo' = todo /\ fresh' = fresh /\ kids' = kids /\ kid' = kid /\ qty' = qty
             /\ \A f \in Frames : \/ pc'[f] = pc[f]
                                  \/ pc[f] = "idle" /\ pc'[f] = "read"
  BY <1>1 DEF Call, Start, TypeOK
<1>2. CASE World
  BY <1>2 DEF World, Trigger, Fill, Reject, BrokerCancel, Poll, SyncEntry, ExecuteExit
<1>3. CASE UNCHANGED exitVars
  BY <1>3 DEF exitVars
<1> QED BY <1>1, <1>2, <1>3

\* Replacing an element does not change the length.
LEMMA ReplaceLen ==
  ASSUME NEW S, NEW s \in Seq(S), NEW i \in Nat, NEW x \in S
  PROVE  Len([s EXCEPT ![i] = x]) = Len(s)
<1>1. /\ Len(s) \in Nat
      /\ DOMAIN s = 1 .. Len(s)
  BY LenProperties
<1>2. [s EXCEPT ![i] = x] \in Seq(S)
  BY ReplaceType
<1>3. DOMAIN [s EXCEPT ![i] = x] = 1 .. Len([s EXCEPT ![i] = x])
      /\ Len([s EXCEPT ![i] = x]) \in Nat
  BY <1>2, LenProperties
<1>4. DOMAIN [s EXCEPT ![i] = x] = 1 .. Len(s)
  BY <1>1
<1> QED BY <1>1, <1>3, <1>4

\* The EXIT rows of a leg are only ever added to, one at a time, by the commit of
\* a call that has inserted one.
LEMMA RowsAdded ==
  ASSUME ExitOrderConstants, TypeOK, [Next]_exitVars, NEW l \in Legs
  PROVE  \/ Len(exitRows'[l]) = Len(exitRows[l])
         \/ \E f \in Frames : /\ Commit(f) \/ CommitRaises(f)
                              /\ l \in fresh[f]
                              /\ Len(exitRows'[l]) = Len(exitRows[l]) + 1
<1> DEFINE Same  == Len(exitRows'[l]) = Len(exitRows[l])
           Added == \E f \in Frames : /\ Commit(f) \/ CommitRaises(f)
                                      /\ l \in fresh[f]
                                      /\ Len(exitRows'[l]) = Len(exitRows[l]) + 1
<1>0. exitRows[l] \in Seq(ExecStatuses)
  BY DEF TypeOK
<1>1. ASSUME NEW f \in Frames, Commit(f) \/ CommitRaises(f) PROVE Same \/ Added
  <2>1. CASE l \in fresh[f]
    <3>1. exitRows'[l] \in {exitRows[l], Append(exitRows[l], "PENDING")}
      BY <1>1, <2>1 DEF Commit, CommitRaises, WithFresh
    <3>2. Len(Append(exitRows[l], "PENDING")) = Len(exitRows[l]) + 1
      BY <1>0, AppendProperties DEF ExecStatuses
    <3> QED BY <1>1, <2>1, <3>1, <3>2
  <2>2. CASE l \notin fresh[f]
    BY <1>1, <2>2 DEF Commit, CommitRaises, WithFresh
  <2> QED BY <2>1, <2>2
<1>2. ASSUME NEW m \in Legs, NEW i \in Nat, NEW st \in ExecStatuses,
             exitRows' = [exitRows EXCEPT ![m][i] = st]
      PROVE  Same
  <2>1. exitRows'[l] = IF m = l THEN [exitRows[l] EXCEPT ![i] = st] ELSE exitRows[l]
    BY <1>2 DEF TypeOK
  <2> QED BY <1>0, <2>1, ReplaceLen
<1>3. ASSUME NEW f \in Frames, TakeRow(f) PROVE Same
  <2>1. PICK r \in todo[f] :
          LET st == IF seen[f][r[1]] = "UNKNOWN" THEN r[3] ELSE seen[f][r[1]]
          IN  \/ exitRows' = [exitRows EXCEPT ![r[1]][r[2]] = st]
              \/ exitRows' = exitRows
    BY <1>3 DEF TakeRow
  <2>2. r[1] \in Legs /\ r[2] \in Nat /\ r[3] \in ExecStatuses /\ seen[f][r[1]] \in ExecStatuses
    BY RowParts DEF TypeOK
  <2> QED BY <1>2, <2>1, <2>2
<1>4. ASSUME NEW f \in Frames, MarkCancelled(f) PROVE Same
  <2>1. CurLeg(f) \in Legs /\ CurIndex(f) \in Nat /\ "CANCELLED" \in ExecStatuses
    BY <1>4, RowParts DEF MarkCancelled, TypeOK, CurLeg, CurIndex, RowLabels, ExecStatuses
  <2>2. \/ exitRows' = exitRows
        \/ exitRows' = [exitRows EXCEPT ![CurLeg(f)][CurIndex(f)] = "CANCELLED"]
    BY <1>4 DEF MarkCancelled
  <2> QED BY <1>2, <2>1, <2>2
<1>5. ASSUME NEW f \in Frames, ExitStep(f) PROVE Same \/ Added
  <2>1. CASE TakeRow(f) \/ MarkCancelled(f) \/ Commit(f) \/ CommitRaises(f)
    BY <2>1, <1>1, <1>3, <1>4
  <2>2. CASE ~ (TakeRow(f) \/ MarkCancelled(f) \/ Commit(f) \/ CommitRaises(f))
    BY <1>5, <2>2 DEF ExitStep, ReadRows, RowsUnread, FetchLive, ReadChildren,
       ChildrenUnread, CallChild, ChildDone, ChildFailed, ReadPosition, PlaceExit,
       ClosePosition, BrokerMissing, Cancel, CancelRaises, InsertExit, InsertFails,
       EndLoop, StatusUnwritten, dbVars, MarkFails, CommitRaises, Raise
  <2> QED BY <2>1, <2>2
<1>6. ASSUME NEW c \in Callers, NEW o \in Orders,
             NEW live \in BOOLEAN, NEW manual \in BOOLEAN, Call(c, o, live, manual)
      PROVE  Same
  BY <1>6 DEF Call, dbVars
<1>7. CASE World
  BY <1>7 DEF World, Trigger, Fill, Reject, BrokerCancel, Poll, SyncEntry, ExecuteExit, dbVars
<1>8. CASE Crash \/ UNCHANGED exitVars
  BY <1>8 DEF Crash, exitVars, dbVars
<1> QED BY <1>5, <1>6, <1>7, <1>8 DEF Next

\* A call that holds a leg in its session, or is about to, goes on holding it
\* until it has committed the row.
LEMMA PendingStays ==
  ASSUME ExitOrderConstants, TypeOK, NEW f \in Frames, NEW l \in Legs, Pending(f, l),
         NEW g \in Frames, ExitStep(g)
  PROVE  Pending(f, l)' \/ exitRows'[l] # <<>> \/ l \in lost'
<1>1. CASE f # g
  <2>1. /\ cur'[f] = cur[f] /\ fresh'[f] = fresh[f]
        /\ pc'[f] = pc[f] \/ pc[f] \in {"idle", "raised"}
    BY <1>1, OthersStay
  <2> QED BY <2>1 DEF Pending, CurLeg, CurState, RowLabels
<1>2. CASE f = g /\ Commit(g)
  <2>1. l \in fresh[f]
    BY <1>2 DEF Pending, Commit
  <2>2. exitRows'[l] = Append(exitRows[l], "PENDING") /\ exitRows[l] \in Seq(ExecStatuses)
    BY <1>2, <2>1 DEF Commit, WithFresh, TypeOK
  <2>3. Len(exitRows'[l]) = Len(exitRows[l]) + 1 /\ Len(exitRows[l]) \in Nat
    BY <2>2, AppendProperties, LenProperties DEF ExecStatuses
  <2> QED BY <2>3, EmptySeq
<1>3. CASE f = g /\ InsertExit(g)
  <2>1. /\ exitRows' = exitRows
        /\ fresh' = [fresh EXCEPT ![f] =
                       IF exitRows[CurLeg(f)] = <<>> THEN @ \cup {CurLeg(f)} ELSE @]
        /\ pc[f] = "insert"
    BY <1>3 DEF InsertExit, dbVars
  <2>2. l \in fresh[f] \/ CurLeg(f) = l
    BY DEF Pending
  <2>3. l \in fresh'[f] \/ exitRows[l] # <<>>
    BY <2>1, <2>2 DEF TypeOK
  <2> QED BY <2>1, <2>3 DEF Pending
<1>4. CASE f = g /\ Cancel(g)
  <2>1. fresh' = fresh /\ pc[f] = "cancel"
    BY <1>4 DEF Cancel, localVars
  <2>2. CASE l \in fresh[f]
    BY <2>1, <2>2 DEF Pending
  <2>3. CASE CurLeg(f) = l /\ CurState(f) = "PARTIALLY_FILLED"
    <3>1. Goto(f, "insert")
      BY <1>4, <2>3 DEF Cancel
    <3>2. pc'[f] = "insert" /\ cur'[f] = cur[f]
      BY <3>1, GotoFrame DEF RowLabels
    <3> QED BY <2>3, <3>2 DEF Pending, CurLeg, RowLabels
  <2> QED BY <2>1, <2>2, <2>3 DEF Pending
<1>5. CASE f = g /\ (RowsUnread(g) \/ StatusUnwritten(g) \/ CommitRaises(g))
  <2>1. Raise(f) /\ pc[f] \notin RowLabels
    BY <1>5 DEF RowsUnread, StatusUnwritten, CommitRaises, RowLabels
  <2> QED BY <2>1 DEF Raise, Pending
<1>6. CASE f = g /\ InsertFails(g)
  <2>1. l \in fresh[f] \/ CurLeg(f) = l
    BY DEF Pending
  <2> QED BY <1>6, <2>1 DEF InsertFails
<1>7. CASE f = g /\ CancelRaises(g)
  <2>1. fresh' = fresh /\ pc[f] = "cancel"
    BY <1>7 DEF CancelRaises, localVars
  <2> QED BY <1>7, <2>1 DEF CancelRaises, Pending
<1>8. CASE f = g /\ ~ (\/ Commit(g) \/ InsertExit(g) \/ Cancel(g) \/ RowsUnread(g)
                       \/ StatusUnwritten(g) \/ CommitRaises(g) \/ InsertFails(g)
                       \/ CancelRaises(g))
  <2>1. pc[f] \notin {"insert", "cancel"} /\ fresh' = fresh
    BY <1>8 DEF ExitStep, ReadRows, FetchLive, ReadChildren, ChildrenUnread, CallChild,
       ChildDone, ChildFailed, TakeRow, ReadPosition, PlaceExit, ClosePosition,
       BrokerMissing, MarkCancelled, MarkFails, EndLoop, localVars
  <2> QED BY <2>1 DEF Pending
<1> QED BY <1>1, <1>2, <1>3, <1>4, <1>5, <1>6, <1>7, <1>8

\* The step that has an order accepted by a broker leaves the call about to insert
\* the row.
LEMMA SentIsPending ==
  ASSUME ExitOrderConstants, TypeOK, NEW g \in Frames, ExitStep(g), NEW b, b \in sent', b \notin sent
  PROVE  \E l \in Legs : BookOf[l] = b /\ Pending(g, l)'
<1>1. PlaceExit(g) \/ ClosePosition(g)
  BY DEF ExitStep, ReadRows, RowsUnread, FetchLive, ReadChildren, ChildrenUnread,
     CallChild, ChildDone, ChildFailed, TakeRow, ReadPosition, BrokerMissing, Cancel,
     CancelRaises, MarkCancelled, MarkFails, InsertExit, InsertFails, EndLoop,
     StatusUnwritten, Commit, CommitRaises, worldVars, Raise
<1>2. b = CurBook(g) /\ pc[g] \in RowLabels /\ Goto(g, AfterExit(g))
  BY <1>1 DEF PlaceExit, ClosePosition, RowLabels
<1>3. CurLeg(g) \in Legs /\ BookOf[CurLeg(g)] = b
  BY <1>2, RowParts DEF TypeOK, CurLeg, CurBook
<1>4. AfterExit(g) \in RowLabels /\ pc'[g] = AfterExit(g) /\ cur'[g] = cur[g]
  BY <1>2, GotoFrame DEF AfterExit, RowLabels
<1> QED BY <1>3, <1>4 DEF Pending, AfterExit, CurLeg, CurState

LEMMA SentInit == Init => SentIsRecorded
  BY DEF Init, SentIsRecorded

\* What has been lost stays lost.
LEMMA LostStays ==
  ASSUME [Next]_exitVars
  PROVE  lost \subseteq lost'
<1> USE DEF failVars
<1>1. ASSUME NEW f \in Frames, ExitStep(f) PROVE lost \subseteq lost'
  BY <1>1 DEF ExitStep, ReadRows, RowsUnread, FetchLive, ReadChildren, ChildrenUnread,
     CallChild, ChildDone, ChildFailed, TakeRow, ReadPosition, PlaceExit, ClosePosition,
     BrokerMissing, Cancel, CancelRaises, MarkCancelled, MarkFails, InsertExit, InsertFails,
     EndLoop, StatusUnwritten, Commit, CommitRaises, Raise
<1>2. ASSUME NEW c \in Callers, NEW o \in Orders,
             NEW live \in BOOLEAN, NEW manual \in BOOLEAN, Call(c, o, live, manual)
      PROVE  lost \subseteq lost'
  BY <1>2 DEF Call
<1>3. CASE World
  BY <1>3 DEF World, Trigger, Fill, Reject, BrokerCancel, Poll, SyncEntry, ExecuteExit
<1> QED BY <1>1, <1>2, <1>3 DEF Next, Crash, exitVars

LEMMA SentNext ==
  ASSUME ExitOrderConstants, TypeOK, SentIsRecorded, [Next]_exitVars
  PROVE  SentIsRecorded'
<1> DEFINE Traced(l) == exitRows[l] # <<>> \/ l \in lost \/ \E f \in Frames : Pending(f, l)
<1> SUFFICES ASSUME NEW b \in sent'
             PROVE  \E l \in Legs : BookOf[l] = b /\ Traced(l)'
  BY DEF SentIsRecorded
<1>1. \A l \in Legs : exitRows[l] # <<>> => exitRows'[l] # <<>>
  <2> SUFFICES ASSUME NEW l \in Legs, exitRows[l] # <<>> PROVE exitRows'[l] # <<>>
    OBVIOUS
  <2>1. exitRows[l] \in Seq(ExecStatuses) /\ exitRows'[l] \in Seq(ExecStatuses)
    BY TypeNext DEF TypeOK
  <2>2. Len(exitRows[l]) \in Nat /\ Len(exitRows[l]) # 0
    BY <2>1, LenProperties, EmptySeq
  <2>3. Len(exitRows'[l]) # 0
    BY <2>2, RowsAdded
  <2> QED BY <2>1, <2>3, EmptySeq
<1>2. lost \subseteq lost'
  BY LostStays
<1>3. ASSUME b \in sent
      PROVE  \E l \in Legs : BookOf[l] = b /\ Traced(l)
  BY <1>3 DEF SentIsRecorded
<1>4. ASSUME NEW g \in Frames, ExitStep(g)
      PROVE  \E l \in Legs : BookOf[l] = b /\ Traced(l)'
  <2>1. CASE b \in sent
    BY <1>1, <1>2, <1>3, <1>4, <2>1, PendingStays
  <2>2. CASE b \notin sent
    BY <1>4, <2>2, SentIsPending
  <2> QED BY <2>1, <2>2
<1>5. CASE \/ \E c \in Callers, o \in Orders, live, manual \in BOOLEAN :
                Call(c, o, live, manual)
           \/ World
           \/ UNCHANGED exitVars
  <2>1. b \in sent
    BY <1>5 DEF Call, World, Trigger, Fill, Reject, BrokerCancel, Poll, SyncEntry,
       ExecuteExit, exitVars, worldVars
  <2>2. \A f \in Frames, l \in Legs : Pending(f, l) => Pending(f, l)'
    BY <1>5, OutsideStays DEF Pending, CurLeg, CurState, RowLabels
  <2> QED BY <1>1, <1>2, <1>3, <2>1, <2>2
<1>6. CASE Crash
  <2>1. b \in sent /\ \A l \in Legs : (\E f \in Frames : Pending(f, l)) => l \in lost'
    BY <1>6 DEF Crash, worldVars
  <2> QED BY <1>1, <1>2, <1>3, <2>1
<1> QED BY <1>4, <1>5, <1>6 DEF Next

\* Every position a broker was asked to close leaves a trace: an EXIT row in the
\* database or in the session of a call, or a failed statement, a failed commit or a
\* restart that has cost it its row.  For any calls, in any interleaving
\* (order_manager.py:1828, 1933, 1944).
THEOREM SentRecorded == ExitOrderConstants => (Spec => []SentIsRecorded)
<1> SUFFICES ASSUME ExitOrderConstants PROVE Spec => []SentIsRecorded
  OBVIOUS
<1>1. TypeOK /\ SentIsRecorded /\ [Next]_exitVars => SentIsRecorded'
  BY SentNext
<1> QED BY <1>1, SentInit, TypeCorrect, PTL DEF Spec

--------------------------------------------------------------------------------
(***************************************************************************)
(* What a call works on belongs to its order.                              *)
(***************************************************************************)
OwnedBy(f) ==
  /\ \A r \in todo[f] : OrderOf[r[1]] = f[2]
  /\ pc[f] \in RowLabels => OrderOf[CurLeg(f)] = f[2]
  /\ \A l \in fresh[f] : OrderOf[l] = f[2]
  /\ pc[f] # "idle" => f[2] \in asked

Owned == \A f \in Frames : OwnedBy(f)

LEMMA AskedStays ==
  ASSUME [Next]_exitVars
  PROVE  asked \subseteq asked'
<1>1. ASSUME NEW f \in Frames, ExitStep(f) PROVE asked \subseteq asked'
  BY <1>1 DEF ExitStep, ReadRows, RowsUnread, FetchLive, ReadChildren, ChildrenUnread,
     CallChild, ChildDone, ChildFailed, TakeRow, ReadPosition, PlaceExit, ClosePosition,
     BrokerMissing, Cancel, CancelRaises, MarkCancelled, MarkFails, InsertExit,
     InsertFails, EndLoop, StatusUnwritten, Commit, CommitRaises, Raise
<1>2. ASSUME NEW c \in Callers, NEW o \in Orders,
             NEW live \in BOOLEAN, NEW manual \in BOOLEAN, Call(c, o, live, manual)
      PROVE  asked \subseteq asked'
  BY <1>2 DEF Call, Start
<1>3. CASE World
  BY <1>3 DEF World, Trigger, Fill, Reject, BrokerCancel, Poll, SyncEntry, ExecuteExit
<1> QED BY <1>1, <1>2, <1>3 DEF Next, Crash, exitVars

LEMMA OwnedStep ==
  ASSUME ExitOrderConstants, TypeOK, Owned, NEW f \in Frames, ExitStep(f)
  PROVE  OwnedBy(f)'
<1> USE DEF localVars
<1>0. /\ \A r \in todo[f] : OrderOf[r[1]] = f[2]
      /\ pc[f] \in RowLabels => OrderOf[CurLeg(f)] = f[2]
      /\ \A l \in fresh[f] : OrderOf[l] = f[2]
      /\ pc[f] # "idle" => f[2] \in asked
  BY DEF Owned, OwnedBy
<1>1. pc'[f] # "idle" => f[2] \in asked'
  <2>1. pc[f] # "idle"
    BY DEF ExitStep, ReadRows, RowsUnread, FetchLive, ReadChildren, ChildrenUnread,
       CallChild, ChildDone, ChildFailed, TakeRow, ReadPosition, PlaceExit, ClosePosition,
       BrokerMissing, Cancel, CancelRaises, MarkCancelled, MarkFails, InsertExit,
       InsertFails, EndLoop, StatusUnwritten, Commit, CommitRaises, Raise
  <2> QED BY <1>0, <2>1, AskedStays DEF Next
<1>2. CASE ReadRows(f)
  <2>1. todo'[f] = RowsOf(f[2]) /\ fresh' = fresh
    BY <1>2 DEF ReadRows, TypeOK
  <2>2. \A r \in todo'[f] : OrderOf[r[1]] = f[2]
    BY <2>1 DEF RowsOf, LegsOf
  <2>3. pc'[f] \notin RowLabels
    BY <1>2, GotoFrame DEF ReadRows, RowLabels
  <2> QED BY <1>0, <1>1, <2>1, <2>2, <2>3 DEF OwnedBy
<1>3. CASE FetchLive(f) \/ ReadChildren(f) \/ ChildrenUnread(f) \/ ChildDone(f) \/ EndLoop(f)
  <2>1. todo' = todo /\ fresh' = fresh
    BY <1>3 DEF FetchLive, ReadChildren, ChildrenUnread, ChildDone, EndLoop
  <2>2. pc'[f] \notin RowLabels
    BY <1>3, GotoFrame DEF FetchLive, ReadChildren, ChildrenUnread, ChildDone, EndLoop, RowLabels
  <2> QED BY <1>0, <1>1, <2>1, <2>2 DEF OwnedBy
<1>4. CASE CallChild(f)
  <2>1. todo' = todo /\ fresh' = fresh
    BY <1>4 DEF CallChild
  <2>2. pc'[f] \in {"await", "read"}
    BY <1>4 DEF CallChild, TypeOK
  <2> QED BY <1>0, <1>1, <2>1, <2>2 DEF OwnedBy, RowLabels
<1>5. CASE TakeRow(f)
  <2>1. PICK r \in todo[f] :
          /\ todo' = [todo EXCEPT ![f] = @ \ {r}]
          /\ LET st == IF seen[f][r[1]] = "UNKNOWN" THEN r[3] ELSE seen[f][r[1]]
             IN  /\ pc' = [pc EXCEPT ![f] = Decision(r[1], st)]
                 /\ cur' = [cur EXCEPT ![f] = IF Decision(r[1], st) = "loop"
                                               THEN NoRow ELSE <<r[1], r[2], st>>]
    BY <1>5 DEF TakeRow
  <2>2. fresh' = fresh /\ todo'[f] \subseteq todo[f]
    BY <1>5, <2>1 DEF TakeRow, TypeOK
  <2>3. pc'[f] \in RowLabels => cur'[f][1] = r[1]
    BY <2>1 DEF TypeOK, RowLabels
  <2> QED BY <1>0, <1>1, <2>2, <2>3 DEF OwnedBy, CurLeg
<1>6. CASE \/ ReadPosition(f) \/ PlaceExit(f) \/ ClosePosition(f) \/ BrokerMissing(f)
           \/ Cancel(f) \/ CancelRaises(f) \/ MarkCancelled(f) \/ MarkFails(f)
  <2>1. todo' = todo /\ fresh' = fresh
    BY <1>6 DEF ReadPosition, PlaceExit, ClosePosition, BrokerMissing, Cancel, CancelRaises,
       MarkCancelled, MarkFails
  <2>2. pc[f] \in RowLabels /\ \E label : Goto(f, label)
    BY <1>6 DEF ReadPosition, PlaceExit, ClosePosition, BrokerMissing, Cancel, CancelRaises,
       MarkCancelled, MarkFails, RowLabels
  <2>3. pc'[f] \in RowLabels => cur'[f] = cur[f]
    BY <2>2, GotoFrame
  <2> QED BY <1>0, <1>1, <2>1, <2>2, <2>3 DEF OwnedBy, CurLeg
<1>7. CASE InsertExit(f) \/ InsertFails(f)
  <2>1. todo' = todo /\ fresh'[f] \subseteq fresh[f] \cup {CurLeg(f)} /\ pc[f] \in RowLabels
    BY <1>7 DEF InsertExit, InsertFails, TypeOK, RowLabels
  <2>2. pc'[f] \notin RowLabels
    BY <1>7, GotoFrame DEF InsertExit, InsertFails, RowLabels
  <2> QED BY <1>0, <1>1, <2>1, <2>2 DEF OwnedBy
<1>8. CASE Commit(f)
  <2>1. todo' = todo /\ fresh'[f] = {}
    BY <1>8 DEF Commit, TypeOK
  <2>2. pc'[f] \notin RowLabels
    BY <1>8, GotoFrame DEF Commit, RowLabels
  <2> QED BY <1>0, <1>1, <2>1, <2>2 DEF OwnedBy
<1>9. CASE RowsUnread(f) \/ StatusUnwritten(f) \/ CommitRaises(f)
  <2>1. Raise(f) /\ todo' = todo
    BY <1>9 DEF RowsUnread, StatusUnwritten, CommitRaises
  <2>2. fresh'[f] = {} /\ pc'[f] \notin RowLabels
    BY <2>1, RaiseFrame DEF RowLabels
  <2> QED BY <1>0, <1>1, <2>1, <2>2 DEF OwnedBy
<1>10. CASE ChildFailed(f)
  <2>1. todo' = todo /\ fresh' = fresh /\ pc'[f] \in {"loop", "idle"}
    BY <1>10 DEF ChildFailed, TypeOK
  <2> QED BY <1>0, <1>1, <2>1 DEF OwnedBy, RowLabels
<1> QED BY <1>2, <1>3, <1>4, <1>5, <1>6, <1>7, <1>8, <1>9, <1>10 DEF ExitStep

LEMMA OwnedNext ==
  ASSUME ExitOrderConstants, TypeOK, Owned, [Next]_exitVars
  PROVE  Owned'
<1>0. \A f \in Frames : OwnedBy(f)
  BY DEF Owned
<1>1. ASSUME NEW f \in Frames, ExitStep(f), NEW g \in Frames PROVE OwnedBy(g)'
  <2>1. CASE f = g
    BY <1>1, <2>1, OwnedStep
  <2>2. CASE f # g
    <3>1. /\ cur'[g] = cur[g] /\ todo'[g] = todo[g] /\ fresh'[g] = fresh[g]
          /\ \/ pc'[g] = pc[g]
             \/ CallChild(f) /\ pc[g] = "idle" /\ pc'[g] = "read"
             \/ pc'[g] = "idle"
      BY <1>1, <2>2, OthersStay
    <3>2. pc'[g] # "idle" => g[2] \in asked'
      <4>1. CASE pc'[g] = pc[g]
        BY <1>0, <4>1, AskedStays DEF OwnedBy
      <4>2. CASE CallChild(f) /\ pc[g] = "idle" /\ pc'[g] = "read"
        <5>1. PICK h \in kids[f] : /\ asked' = asked \cup {h}
                                   /\ pc' = [pc EXCEPT ![f] = "await", ![<<f[1], h>>] = "read"]
          BY <4>2 DEF CallChild
        <5>2. g = <<f[1], h>>
          BY <2>2, <4>2, <5>1 DEF TypeOK
        <5> QED BY <5>1, <5>2
      <4> QED BY <3>1, <4>1, <4>2
    <3> QED BY <1>0, <3>1, <3>2 DEF OwnedBy, CurLeg, RowLabels
  <2> QED BY <2>1, <2>2
<1>2. CASE World \/ UNCHANGED exitVars
  <2>1. cur' = cur /\ todo' = todo /\ fresh' = fresh /\ pc' = pc
    BY <1>2 DEF World, Trigger, Fill, Reject, BrokerCancel, Poll, SyncEntry, ExecuteExit,
       exitVars, localVars
  <2> QED BY <1>0, <2>1, AskedStays DEF Owned, OwnedBy, CurLeg
<1>3. ASSUME NEW c \in Callers, NEW o \in Orders,
             NEW live \in BOOLEAN, NEW manual \in BOOLEAN, Call(c, o, live, manual)
      PROVE  Owned'
  <2>1. /\ cur' = cur /\ todo' = todo /\ fresh' = fresh /\ asked' = asked \cup {o}
        /\ pc' = [pc EXCEPT ![<<c, o>>] = "read"]
    BY <1>3 DEF Call, Start
  <2>2. \A f \in Frames : pc'[f] = IF f = <<c, o>> THEN "read" ELSE pc[f]
    BY <2>1 DEF TypeOK
  <2> QED BY <1>0, <2>1, <2>2 DEF Owned, OwnedBy, CurLeg, RowLabels
<1>4. CASE Crash
  BY <1>4 DEF Crash, ClearedFrames, Owned, OwnedBy, RowLabels
<1> QED BY <1>1, <1>2, <1>3, <1>4 DEF Next, Owned

LEMMA OwnedInit == Init => Owned
  BY DEF Init, Owned, OwnedBy, RowLabels

--------------------------------------------------------------------------------
(***************************************************************************)
(* One call at a time: a leg is in the session of one call, and only when  *)
(* it has no EXIT row.                                                     *)
(***************************************************************************)
FreshHasNone == \A f \in Frames : \A l \in fresh[f] : Len(exitRows[l]) = 0

RowInv == Owned /\ FreshHasNone /\ OneExitRow

LEMMA OneFrame ==
  ASSUME OneAtATime, NEW f \in Frames, NEW g \in Frames, f[2] = g[2]
  PROVE  f = g
  BY DEF OneAtATime, Frames

LEMMA RowNext ==
  ASSUME ExitOrderConstants, OneAtATime, TypeOK, RowInv, [Next]_exitVars
  PROVE  RowInv'
<1>1. Owned'
  BY OwnedNext DEF RowInv
<1>2. \A l \in Legs : exitRows[l] \in Seq(ExecStatuses) /\ Len(exitRows[l]) \in Nat
  BY LenProperties DEF TypeOK
<1>3. ASSUME NEW f \in Frames, NEW l \in Legs, Commit(f) \/ CommitRaises(f), l \in fresh[f]
      PROVE  \A g \in Frames : l \notin fresh'[g]
  <2> SUFFICES ASSUME NEW g \in Frames PROVE l \notin fresh'[g]
    OBVIOUS
  <2>1. CASE g = f
    BY <1>3, <2>1 DEF Commit, CommitRaises, Raise, TypeOK
  <2>2. CASE g # f
    <3>1. g[2] # f[2]
      BY <2>2, OneFrame
    <3>2. l \notin fresh[g]
      BY <1>3, <3>1 DEF RowInv, Owned, OwnedBy
    <3> QED BY <1>3, <2>2, <3>2 DEF Commit, CommitRaises, Raise, TypeOK
  <2> QED BY <2>1, <2>2
<1>4. ASSUME NEW f \in Frames, NEW l \in fresh'[f] PROVE l \in Legs /\ Len(exitRows'[l]) = 0
  <2>0. l \in Legs
    BY <1>4, TypeNext DEF TypeOK
  <2>1. Len(exitRows[l]) = 0
    <3>1. CASE l \in fresh[f]
      BY <3>1 DEF RowInv, FreshHasNone
    <3>2. CASE l \notin fresh[f]
      <4>1. PICK g \in Frames : ExitStep(g) /\ g = f
        <5>1. ASSUME NEW g \in Frames, ExitStep(g) PROVE g = f
          BY <1>4, <3>2, <5>1, OthersStay
        <5>2. ~ Crash
          BY <1>4 DEF Crash, ClearedFrames
        <5> QED BY <1>4, <3>2, <5>1, <5>2, OutsideStays DEF Next
      <4>2. InsertExit(f)
        BY <1>4, <3>2, <4>1 DEF ExitStep, ReadRows, RowsUnread, FetchLive, ReadChildren,
           ChildrenUnread, CallChild, ChildDone, ChildFailed, TakeRow, ReadPosition,
           PlaceExit, ClosePosition, BrokerMissing, Cancel, CancelRaises, MarkCancelled,
           MarkFails, EndLoop, StatusUnwritten, Commit, CommitRaises, localVars, TypeOK,
           InsertFails, Raise
      <4>3. exitRows[l] = <<>>
        BY <1>4, <3>2, <4>2 DEF InsertExit, TypeOK
      <4> QED BY <4>3, EmptySeq
    <3> QED BY <3>1, <3>2
  <2>2. ~ \E g \in Frames : (Commit(g) \/ CommitRaises(g)) /\ l \in fresh[g]
    BY <1>3, <1>4, <2>0
  <2> QED BY <2>0, <2>1, <2>2, RowsAdded
<1>5. FreshHasNone'
  BY <1>4 DEF FreshHasNone
<1>6. OneExitRow'
  <2> SUFFICES ASSUME NEW l \in Legs PROVE Len(exitRows'[l]) <= 1
    BY DEF OneExitRow
  <2>1. CASE Len(exitRows'[l]) = Len(exitRows[l])
    BY <2>1 DEF RowInv, OneExitRow
  <2>2. ASSUME NEW f \in Frames, Commit(f) \/ CommitRaises(f), l \in fresh[f],
               Len(exitRows'[l]) = Len(exitRows[l]) + 1
        PROVE  Len(exitRows'[l]) <= 1
    BY <2>2 DEF RowInv, FreshHasNone
  <2> QED BY <2>1, <2>2, RowsAdded
<1> QED BY <1>1, <1>5, <1>6 DEF RowInv

LEMMA RowInit == ExitOrderConstants /\ Init => RowInv
<1> SUFFICES ASSUME ExitOrderConstants, Init PROVE RowInv
  OBVIOUS
<1>1. \A l \in Legs : Len(exitRows[l]) = 0
  BY EmptySeq DEF Init
<1> QED BY <1>1, OwnedInit DEF Init, RowInv, FreshHasNone, OneExitRow

\* Calls that come one after the other never give a leg a second EXIT row,
\* restarts included (order_manager.py:718).
THEOREM ExitRowsUnique == ExitOrderConstants /\ OneAtATime => (Spec => []OneExitRow)
<1> SUFFICES ASSUME ExitOrderConstants, OneAtATime PROVE Spec => []OneExitRow
  OBVIOUS
<1>1. Init => RowInv
  BY RowInit
<1>2. TypeOK /\ RowInv /\ [Next]_exitVars => RowInv'
  BY RowNext
<1>3. RowInv => OneExitRow
  BY DEF RowInv
<1> QED BY <1>1, <1>2, <1>3, TypeCorrect, PTL DEF Spec

--------------------------------------------------------------------------------
(***************************************************************************)
(* One call at a time, books of one leg and an exchange that executes at   *)
(* once: an exit never asks for more than the position.  The size is read  *)
(* before the order is placed; in between only the entry order can trade,  *)
(* and only away from zero, and not at all when the row says FILLED.       *)
(***************************************************************************)
ExitFits(f) ==
  pc[f] = "place" =>
    /\ qty[f] > 0
    /\ qty[f] <= Abs(book[CurBook(f)])
    /\ CurState(f) = "FILLED" => qty[f] = Abs(book[CurBook(f)])

SideInv ==
  /\ \A b \in Books : flight[b] = <<>>
  /\ ExitNeverReverses
  /\ \A f \in Frames : ExitFits(f)

LEMMA CurTypes ==
  ASSUME ExitOrderConstants, TypeOK, NEW f \in Frames, pc[f] \in RowLabels
  PROVE  /\ CurLeg(f) \in Legs /\ CurBook(f) \in Books
         /\ CurState(f) \in ExecStatuses /\ CurBook(f) = BookOf[CurLeg(f)]
  BY RowParts DEF TypeOK, ExitOrderConstants, CurLeg, CurState, CurBook

\* Two calls at work on rows work on different books.
LEMMA BooksApart ==
  ASSUME ExitOrderConstants, OneAtATime, OwnBooks, TypeOK, Owned,
         NEW f \in Frames, pc[f] \in RowLabels,
         NEW g \in Frames, pc[g] \in RowLabels, f # g
  PROVE  CurBook(f) # CurBook(g)
<1>1. CurLeg(f) # CurLeg(g)
  BY OneFrame DEF Owned, OwnedBy
<1> QED BY <1>1, CurTypes DEF OwnBooks

\* The only way to the placing of an order is through the reading of the position.
LEMMA EnterPlace ==
  ASSUME ExitOrderConstants, TypeOK, NEW f \in Frames, ExitStep(f), pc'[f] = "place"
  PROVE  /\ ReadPosition(f) /\ book' = book /\ cur'[f] = cur[f] /\ pc[f] = "position"
         /\ qty'[f] = Abs(book[CurBook(f)]) /\ qty'[f] # 0
<1>1. CASE TakeRow(f)
  BY <1>1 DEF TakeRow, TypeOK, Decision
<1>2. CASE CallChild(f)
  BY <1>2 DEF CallChild, TypeOK
<1>3. CASE ReadPosition(f)
  <2>1. PICK n \in {0, Abs(book[CurBook(f)])} :
          /\ qty' = [qty EXCEPT ![f] = n]
          /\ Goto(f, IF n = 0 THEN AfterExit(f) ELSE "place")
    BY <1>3 DEF ReadPosition
  <2>2. pc'[f] = IF n = 0 THEN AfterExit(f) ELSE "place"
    BY <2>1, GotoFrame
  <2>3. n # 0
    BY <2>2 DEF AfterExit
  <2>4. cur'[f] = cur[f]
    BY <2>1, <2>3, GotoFrame DEF RowLabels
  <2>5. qty'[f] = n
    BY <2>1 DEF TypeOK
  <2> QED BY <1>3, <2>1, <2>3, <2>4, <2>5 DEF ReadPosition, worldVars
<1>4. CASE \/ ReadRows(f) \/ FetchLive(f) \/ ReadChildren(f) \/ ChildrenUnread(f)
           \/ ChildDone(f) \/ PlaceExit(f) \/ ClosePosition(f) \/ BrokerMissing(f)
           \/ Cancel(f) \/ CancelRaises(f) \/ MarkCancelled(f) \/ MarkFails(f)
           \/ InsertExit(f) \/ InsertFails(f) \/ EndLoop(f) \/ Commit(f)
  <2>1. \E label \in Labels \ {"place"} : Goto(f, label)
    BY <1>4 DEF ReadRows, FetchLive, ReadChildren, ChildrenUnread, ChildDone, PlaceExit,
       ClosePosition, BrokerMissing, Cancel, CancelRaises, MarkCancelled, MarkFails,
       InsertExit, InsertFails, EndLoop, Commit, AfterExit, Labels
  <2> QED BY <2>1, GotoFrame
<1>5. CASE RowsUnread(f) \/ StatusUnwritten(f) \/ CommitRaises(f)
  BY <1>5, RaiseFrame DEF RowsUnread, StatusUnwritten, CommitRaises
<1>6. CASE ChildFailed(f)
  BY <1>6 DEF ChildFailed, TypeOK
<1> QED BY <1>1, <1>2, <1>3, <1>4, <1>5, <1>6 DEF ExitStep

\* A step that leaves the position alone keeps every exit within it.
LEMMA FitsKept ==
  ASSUME ExitOrderConstants, TypeOK, [Next]_exitVars, SideInv, NEW f \in Frames,
         pc'[f] = "place",
         pc[f] = "place" => book'[CurBook(f)] = book[CurBook(f)]
  PROVE  ExitFits(f)'
<1> USE DEF SideInv
<1>0. pc[f] \in RowLabels => CurBook(f) \in Books /\ book[CurBook(f)] \in Int
  BY CurTypes DEF TypeOK
<1>1. CASE pc[f] = "place" /\ qty'[f] = qty[f] /\ cur'[f] = cur[f]
  BY <1>1 DEF ExitFits, CurBook, CurState, CurLeg
<1>2. CASE ExitStep(f)
  <2>1. /\ book' = book /\ cur'[f] = cur[f] /\ pc[f] = "position"
        /\ qty'[f] = Abs(book[CurBook(f)]) /\ qty'[f] # 0
    BY <1>2, EnterPlace
  <2>2. Abs(book[CurBook(f)]) > 0 /\ Abs(book[CurBook(f)]) <= Abs(book[CurBook(f)])
    BY <1>0, <2>1 DEF Abs, RowLabels
  <2>3. book'[CurBook(f)'] = book[CurBook(f)]
    BY <2>1 DEF CurBook, CurLeg
  <2>4. Abs(book'[CurBook(f)']) = Abs(book[CurBook(f)])
    BY <2>3
  <2> QED BY <2>1, <2>2, <2>4 DEF ExitFits
<1>3. ASSUME NEW g \in Frames, ExitStep(g), f # g PROVE ExitFits(f)'
  BY <1>1, <1>3, OthersStay
<1>4. CASE \/ \E c \in Callers, o \in Orders, live, manual \in BOOLEAN :
                Call(c, o, live, manual)
           \/ World
           \/ UNCHANGED exitVars
  BY <1>1, <1>4, OutsideStays
<1>5. ~ Crash
  BY DEF Crash, ClearedFrames
<1> QED BY <1>2, <1>3, <1>4, <1>5 DEF Next

\* What the steps that touch a position make of it.
LEMMA PlaceMoves ==
  ASSUME ExitOrderConstants, TypeOK, Prompt, SideInv, OwnBooks, Owned,
         NEW f \in Frames, PlaceExit(f)
  PROVE  /\ flight' = flight /\ truth' = truth
         /\ \/ book' = book
            \/ \E n \in Int : /\ book' = [book EXCEPT ![CurBook(f)] = n]
                              /\ InSideOf(OrderOf[CurLeg(f)], n)
                              /\ CurState(f) = "FILLED" => n = 0 /\ book[CurBook(f)] # 0
<1>1. pc[f] = "place" /\ ExitFits(f) /\ pc[f] \in RowLabels
  BY DEF PlaceExit, SideInv, RowLabels
<1>2. CurLeg(f) \in Legs /\ CurBook(f) \in Books /\ OrderOf[CurLeg(f)] = f[2]
      /\ CurBook(f) = BookOf[CurLeg(f)]
  BY <1>1, CurTypes DEF Owned, OwnedBy
<1>3. InSideOf(f[2], book[CurBook(f)]) /\ book[CurBook(f)] \in Int /\ qty[f] \in Int
  BY <1>2 DEF SideInv, ExitNeverReverses, TypeOK
<1>4. flight' = flight /\ truth' = truth
  BY DEF PlaceExit
<1>5. \/ book' = book
      \/ book' = [book EXCEPT ![CurBook(f)] = @ + ExitSide(f) * qty[f]]
  BY DEF PlaceExit, Execute
<1>6. \/ ExitSide(f) * qty[f] = qty[f] /\ ~ (CurState(f) = "FILLED" /\ f[2] \in BuyOrders)
      \/ ExitSide(f) * qty[f] = -qty[f] /\ CurState(f) = "FILLED" /\ f[2] \in BuyOrders
  BY <1>3 DEF ExitSide
<1>7. /\ qty[f] > 0 /\ qty[f] <= Abs(book[CurBook(f)])
      /\ CurState(f) = "FILLED" => qty[f] = Abs(book[CurBook(f)])
  BY <1>1 DEF ExitFits
<1> DEFINE n == book[CurBook(f)] + ExitSide(f) * qty[f]
<1>8. n \in Int /\ InSideOf(OrderOf[CurLeg(f)], n)
  <2>1. CASE f[2] \in BuyOrders
    BY <1>2, <1>3, <1>6, <1>7, <2>1 DEF InSideOf, Abs
  <2>2. CASE f[2] \notin BuyOrders
    BY <1>2, <1>3, <1>6, <1>7, <2>2 DEF InSideOf, Abs
  <2> QED BY <2>1, <2>2
<1>9. CurState(f) = "FILLED" => n = 0 /\ book[CurBook(f)] # 0
  <2>1. CASE f[2] \in BuyOrders
    BY <1>3, <1>6, <1>7, <2>1 DEF InSideOf, Abs
  <2>2. CASE f[2] \notin BuyOrders
    BY <1>3, <1>6, <1>7, <2>2 DEF InSideOf, Abs
  <2> QED BY <2>1, <2>2
<1> HIDE DEF n
<1>10. book' = book \/ book' = [book EXCEPT ![CurBook(f)] = n]
  BY <1>5 DEF n
<1> QED BY <1>4, <1>8, <1>9, <1>10

LEMMA CloseMoves ==
  ASSUME ExitOrderConstants, TypeOK, NEW f \in Frames, ClosePosition(f)
  PROVE  /\ flight' = flight /\ truth' = truth
         /\ \/ book' = book
            \/ /\ book' = [book EXCEPT ![CurBook(f)] = 0]
               /\ book[CurBook(f)] # 0
<1>1. CurBook(f) \in Books /\ book[CurBook(f)] \in Int
  BY CurTypes DEF ClosePosition, RowLabels, TypeOK
<1>2. book[CurBook(f)] + (-book[CurBook(f)]) = 0
  BY <1>1
<1> QED BY <1>2 DEF ClosePosition, Execute

LEMMA FillMoves ==
  ASSUME ExitOrderConstants, TypeOK, SideInv, NEW l \in Legs, Fill(l)
  PROVE  /\ flight' = flight /\ truth'[l] # truth[l]
         /\ truth[l] # "FILLED"
         /\ \E n \in Int : /\ book' = [book EXCEPT ![BookOf[l]] = n]
                           /\ n = book[BookOf[l]] + Lots(l, 1)
                           /\ InSideOf(OrderOf[l], n)
                           /\ Abs(n) >= Abs(book[BookOf[l]])
<1>1. BookOf[l] \in Books /\ book[BookOf[l]] \in Int /\ InSideOf(OrderOf[l], book[BookOf[l]])
  BY DEF ExitOrderConstants, TypeOK, SideInv, ExitNeverReverses
<1>2. /\ flight' = flight /\ truth'[l] # truth[l] /\ truth[l] # "FILLED"
      /\ book' = [book EXCEPT ![BookOf[l]] = @ + Lots(l, 1)]
  BY DEF Fill, Execute, TypeOK
<1> DEFINE n == book[BookOf[l]] + Lots(l, 1)
<1>3. n \in Int /\ InSideOf(OrderOf[l], n) /\ Abs(n) >= Abs(book[BookOf[l]])
  BY <1>1 DEF Lots, InSideOf, Abs
<1>4. book' = [book EXCEPT ![BookOf[l]] = n]
  BY <1>2
<1> QED BY <1>2, <1>3, <1>4

\* A step touches one position: that of an entry order that trades, or that of the
\* row a call is at.
LEMMA WhoMoves ==
  ASSUME ExitOrderConstants, TypeOK, SideInv, [Next]_exitVars
  PROVE  \/ book' = book /\ flight' = flight
         \/ \E l \in Legs : Fill(l)
         \/ \E f \in Frames : PlaceExit(f) \/ ClosePosition(f)
<1>1. ASSUME NEW f \in Frames, ExitStep(f)
      PROVE  \/ book' = book /\ flight' = flight
             \/ PlaceExit(f) \/ ClosePosition(f)
  BY <1>1 DEF ExitStep, ReadRows, RowsUnread, FetchLive, ReadChildren, ChildrenUnread,
     CallChild, ChildDone, ChildFailed, TakeRow, ReadPosition, BrokerMissing, Cancel,
     CancelRaises, MarkCancelled, MarkFails, InsertExit, InsertFails, EndLoop,
     StatusUnwritten, Commit, CommitRaises, worldVars, Raise
<1>2. CASE World
  BY <1>2 DEF World, Trigger, Fill, Reject, BrokerCancel, Poll, SyncEntry, ExecuteExit,
     worldVars, SideInv
<1>3. ASSUME NEW c \in Callers, NEW o \in Orders,
             NEW live \in BOOLEAN, NEW manual \in BOOLEAN, Call(c, o, live, manual)
      PROVE  book' = book /\ flight' = flight
  BY <1>3 DEF Call, worldVars
<1>4. CASE Crash \/ UNCHANGED exitVars
  BY <1>4 DEF Crash, exitVars, worldVars
<1> QED BY <1>1, <1>2, <1>3, <1>4 DEF Next

LEMMA SideNext ==
  ASSUME ExitOrderConstants, OneAtATime, OwnBooks, Prompt, TypeOK, TruthInv, Owned, SideInv,
         [Next]_exitVars
  PROVE  SideInv'
<1>1. CASE book' = book /\ flight' = flight
  <2>1. \A f \in Frames : ExitFits(f)'
    <3> SUFFICES ASSUME NEW f \in Frames, pc'[f] = "place" PROVE ExitFits(f)'
      BY DEF ExitFits
    <3> QED BY <1>1, FitsKept
  <2> QED BY <1>1, <2>1 DEF SideInv, ExitNeverReverses
<1>2. ASSUME NEW l \in Legs, Fill(l) PROVE SideInv'
  <2>1. PICK n \in Int : /\ book' = [book EXCEPT ![BookOf[l]] = n]
                         /\ InSideOf(OrderOf[l], n)
                         /\ Abs(n) >= Abs(book[BookOf[l]])
    BY <1>2, FillMoves
  <2>2. flight' = flight /\ truth[l] # "FILLED"
    BY <1>2, FillMoves
  <2>3. ExitNeverReverses'
    BY <2>1 DEF SideInv, ExitNeverReverses, OwnBooks, TypeOK, ExitOrderConstants
  <2>4. ASSUME NEW f \in Frames, pc'[f] = "place" PROVE ExitFits(f)'
    <3>1. /\ pc' = pc /\ cur' = cur /\ qty' = qty
      BY <1>2 DEF Fill, localVars
    <3>2. pc[f] = "place" /\ pc[f] \in RowLabels
      BY <2>4, <3>1 DEF RowLabels
    <3>3. CASE CurBook(f) # BookOf[l]
      <4>1. book'[CurBook(f)] = book[CurBook(f)]
        BY <2>1, <3>2, <3>3, CurTypes DEF TypeOK
      <4> QED BY <2>4, <4>1, FitsKept
    <3>4. CASE CurBook(f) = BookOf[l]
      <4>1. CurLeg(f) = l
        BY <3>2, <3>4, CurTypes DEF OwnBooks
      <4>2. CurState(f) # "FILLED"
        BY <2>2, <3>2, <4>1 DEF TruthInv, RowsTruthful, RowTruthful, DoneTruths, CurLeg, CurState
      <4>3. book'[CurBook(f)] = n /\ book[CurBook(f)] \in Int
        BY <2>1, <3>2, <3>4, CurTypes DEF TypeOK
      <4>4. qty[f] > 0 /\ qty[f] <= Abs(book[CurBook(f)]) /\ qty[f] \in Int
        BY <3>2 DEF SideInv, ExitFits, TypeOK
      <4>5. qty[f] <= Abs(n)
        BY <2>1, <3>4, <4>3, <4>4 DEF Abs
      <4>6. /\ qty'[f] = qty[f] /\ CurBook(f)' = CurBook(f)
            /\ CurState(f)' = CurState(f)
        BY <3>1 DEF CurBook, CurLeg, CurState
      <4>7. Abs(book[CurBook(f)])' = Abs(n)
        BY <4>3, <4>6 DEF Abs
      <4> QED BY <4>2, <4>4, <4>5, <4>6, <4>7 DEF ExitFits
    <3> QED BY <3>3, <3>4
  <2> QED BY <2>2, <2>3, <2>4 DEF SideInv, ExitFits
<1>3. ASSUME NEW f \in Frames, PlaceExit(f) \/ ClosePosition(f), ~ (book' = book)
      PROVE  SideInv'
  <2>1. pc[f] \in RowLabels /\ ExitStep(f)
    BY <1>3 DEF PlaceExit, ClosePosition, RowLabels, ExitStep
  <2>2. CurLeg(f) \in Legs /\ CurBook(f) \in Books /\ CurBook(f) = BookOf[CurLeg(f)]
    BY <2>1, CurTypes
  <2>3. PICK n \in Int : /\ book' = [book EXCEPT ![CurBook(f)] = n]
                         /\ InSideOf(OrderOf[CurLeg(f)], n)
    <3>1. CASE PlaceExit(f)
      BY <1>3, <3>1, PlaceMoves
    <3>2. CASE ClosePosition(f)
      BY <1>3, <3>2, CloseMoves DEF InSideOf
    <3> QED BY <1>3, <3>1, <3>2
  <2>4. flight' = flight
    BY <1>3, PlaceMoves, CloseMoves
  <2>5. ExitNeverReverses'
    BY <2>2, <2>3 DEF SideInv, ExitNeverReverses, OwnBooks, TypeOK, ExitOrderConstants
  <2>6. ASSUME NEW g \in Frames, pc'[g] = "place" PROVE ExitFits(g)'
    <3>1. CASE pc[g] = "place"
      <4>1. g # f
        <5>1. ~ ReadPosition(f)
          BY <1>3 DEF PlaceExit, ClosePosition, ReadPosition
        <5> QED BY <2>1, <2>6, <5>1, EnterPlace
      <4>2. pc[g] \in RowLabels
        BY <3>1 DEF RowLabels
      <4>3. CurBook(g) # CurBook(f) /\ CurBook(g) \in Books
        BY <2>1, <4>1, <4>2, BooksApart, CurTypes
      <4>4. book'[CurBook(g)] = book[CurBook(g)]
        BY <2>3, <4>3 DEF TypeOK
      <4> QED BY <2>6, <4>4, FitsKept
    <3>2. CASE pc[g] # "place"
      BY <2>6, <3>2, FitsKept
    <3> QED BY <3>1, <3>2
  <2> QED BY <2>4, <2>5, <2>6 DEF SideInv, ExitFits
<1>4. ASSUME NEW f \in Frames, PlaceExit(f) \/ ClosePosition(f) PROVE flight' = flight
  BY <1>4, PlaceMoves, CloseMoves
<1> QED BY <1>1, <1>2, <1>3, <1>4, WhoMoves

LEMMA SideInit == ExitOrderConstants /\ Init => SideInv
<1> SUFFICES ASSUME ExitOrderConstants, Init PROVE SideInv
  OBVIOUS
<1>1. \A l \in Legs : book[BookOf[l]] = 0
  BY DEF Init, ExitOrderConstants
<1>2. ExitNeverReverses
  BY <1>1 DEF ExitNeverReverses, InSideOf
<1> QED BY <1>2 DEF SideInv, ExitFits, Init

\* Calls that come one after the other never close more than is held, at any
\* broker and at any moment of the entry, when an order that is placed is executed
\* before the position is read again (zerodha.py:614).
THEOREM NeverReverses ==
  ExitOrderConstants /\ OneAtATime /\ OwnBooks /\ Prompt => (Spec => []ExitNeverReverses)
<1> SUFFICES ASSUME ExitOrderConstants, OneAtATime, OwnBooks, Prompt
             PROVE  Spec => []ExitNeverReverses
  OBVIOUS
<1>1. Init => Owned /\ SideInv
  BY OwnedInit, SideInit
<1>2. TypeOK /\ TruthInv /\ Owned /\ SideInv /\ [Next]_exitVars => Owned' /\ SideInv'
  BY OwnedNext, SideNext
<1>3. SideInv => ExitNeverReverses
  BY DEF SideInv
<1> QED BY <1>1, <1>2, <1>3, TypeCorrect, Truthful, PTL DEF Spec

--------------------------------------------------------------------------------
(***************************************************************************)
(* Without a leg at Angel no row ever says PARTIALLY_FILLED: what a call   *)
(* closes it takes for FILLED, and it tells the broker the side.           *)
(***************************************************************************)
Whole(st) == st # "PARTIALLY_FILLED"

WholeBy(f) ==
  /\ \A l \in Legs : Whole(seen[f][l])
  /\ \A r \in todo[f] : Whole(r[3])
  /\ pc[f] \in {"position", "place", "close"} => CurState(f) = "FILLED"

WholeRows ==
  \A l \in Legs : /\ Whole(entry[l])
                  /\ \A i \in DOMAIN exitRows[l] : Whole(exitRows[l][i])

WholeInv == WholeRows /\ \A f \in Frames : WholeBy(f)

LEMMA ViewWhole ==
  ASSUME NEW kind \in Kinds, kind # "angel", NEW t \in Truths
  PROVE  Whole(View(kind, t)) /\ Whole(Synced(kind, t))
<1>1. Whole(View(kind, t))
  BY FyersView, ZerodhaView DEF Kinds, Truths, DoneTruths, Whole
<1> QED BY <1>1 DEF Synced, Renormalised

LEMMA WholeInit == Init => WholeInv
<1> SUFFICES ASSUME Init PROVE WholeInv
  OBVIOUS
<1>1. \A l \in Legs : entry[l] = "PENDING" /\ exitRows[l] = <<>>
  BY DEF Init
<1>2. WholeRows
  BY <1>1 DEF WholeRows, Whole
<1>3. \A f \in Frames : pc[f] = "idle" /\ todo[f] = {} /\ seen[f] = Unknown
  BY DEF Init
<1> QED BY <1>2, <1>3 DEF WholeInv, WholeBy, Whole, Unknown

\* A status that is written to the rows of a leg.
LEMMA WholeWrite ==
  ASSUME TypeOK, WholeInv, NEW l \in Legs, NEW i, NEW st, Whole(st),
         entry' = entry \/ entry' = [entry EXCEPT ![l] = st],
         exitRows' = exitRows \/ exitRows' = [exitRows EXCEPT ![l][i] = st]
  PROVE  WholeRows'
<1> SUFFICES ASSUME NEW m \in Legs
             PROVE  /\ Whole(entry'[m])
                    /\ \A j \in DOMAIN exitRows'[m] : Whole(exitRows'[m][j])
  BY DEF WholeRows
<1>1. Whole(entry[m]) /\ \A j \in DOMAIN exitRows[m] : Whole(exitRows[m][j])
  BY DEF WholeInv, WholeRows
<1>2. Whole(entry'[m])
  BY <1>1 DEF TypeOK
<1>3. exitRows'[m] = exitRows[m] \/ exitRows'[m] = [exitRows[m] EXCEPT ![i] = st]
  <2>1. exitRows \in [Legs -> Seq(ExecStatuses)]
    BY DEF TypeOK
  <2> QED BY <2>1
<1>4. ASSUME NEW j \in DOMAIN exitRows'[m] PROVE Whole(exitRows'[m][j])
  <2>1. CASE exitRows'[m] = exitRows[m]
    BY <1>1, <1>4, <2>1
  <2>2. CASE exitRows'[m] = [exitRows[m] EXCEPT ![i] = st]
    <3>1. DOMAIN exitRows'[m] = DOMAIN exitRows[m]
      BY <2>2
    <3>2. exitRows'[m][j] = IF j = i THEN st ELSE exitRows[m][j]
      BY <1>4, <2>2, <3>1
    <3> QED BY <1>1, <1>4, <3>1, <3>2
  <2> QED BY <1>3, <2>1, <2>2
<1> QED BY <1>2, <1>4

\* The statuses in the database.
LEMMA WholeRowsNext ==
  ASSUME ExitOrderConstants, NoneAtAngel, TypeOK, WholeInv, [Next]_exitVars
  PROVE  WholeRows'
<1>1. ASSUME NEW f \in Frames, TakeRow(f) PROVE WholeRows'
  <2>1. PICK r \in todo[f] :
          LET st == IF seen[f][r[1]] = "UNKNOWN" THEN r[3] ELSE seen[f][r[1]]
          IN  /\ entry' = entry \/ entry' = [entry EXCEPT ![r[1]] = st]
              /\ exitRows' = exitRows \/ exitRows' = [exitRows EXCEPT ![r[1]][r[2]] = st]
    BY <1>1 DEF TakeRow
  <2> DEFINE st == IF seen[f][r[1]] = "UNKNOWN" THEN r[3] ELSE seen[f][r[1]]
  <2>2. r[1] \in Legs
    BY RowParts DEF TypeOK
  <2>3. Whole(st)
    BY <2>2 DEF WholeInv, WholeBy
  <2>4. /\ entry' = entry \/ entry' = [entry EXCEPT ![r[1]] = st]
        /\ exitRows' = exitRows \/ exitRows' = [exitRows EXCEPT ![r[1]][r[2]] = st]
    BY <2>1
  <2> HIDE DEF st
  <2> QED BY <2>2, <2>3, <2>4, WholeWrite
<1>2. ASSUME NEW f \in Frames, MarkCancelled(f) PROVE WholeRows'
  <2>1. /\ entry' = entry \/ entry' = [entry EXCEPT ![CurLeg(f)] = "CANCELLED"]
        /\ \/ exitRows' = exitRows
           \/ exitRows' = [exitRows EXCEPT ![CurLeg(f)][CurIndex(f)] = "CANCELLED"]
    BY <1>2 DEF MarkCancelled
  <2>2. CurLeg(f) \in Legs /\ Whole("CANCELLED")
    BY <1>2, CurTypes DEF MarkCancelled, RowLabels, Whole
  <2> QED BY <2>1, <2>2, WholeWrite
<1>3. ASSUME NEW f \in Frames, Commit(f) \/ CommitRaises(f) PROVE WholeRows'
  <2> SUFFICES ASSUME NEW l \in Legs, NEW i \in DOMAIN exitRows'[l]
               PROVE  Whole(exitRows'[l][i])
    BY <1>3 DEF Commit, CommitRaises, WholeInv, WholeRows
  <2>1. exitRows'[l] \in {exitRows[l], Append(exitRows[l], "PENDING")}
    BY <1>3 DEF Commit, CommitRaises, WithFresh
  <2>2. exitRows[l] \in Seq(ExecStatuses) /\ "PENDING" \in ExecStatuses
    BY DEF TypeOK, ExecStatuses
  <2>3. CASE exitRows'[l] = exitRows[l]
    BY <2>3 DEF WholeInv, WholeRows
  <2>4. CASE exitRows'[l] = Append(exitRows[l], "PENDING")
    <3>1. /\ Len(Append(exitRows[l], "PENDING")) = Len(exitRows[l]) + 1
          /\ \A j \in 1 .. Len(exitRows[l]) :
               Append(exitRows[l], "PENDING")[j] = exitRows[l][j]
          /\ Append(exitRows[l], "PENDING")[Len(exitRows[l]) + 1] = "PENDING"
          /\ Append(exitRows[l], "PENDING") \in Seq(ExecStatuses)
      BY <2>2, AppendProperties
    <3>2. i \in 1 .. Len(exitRows[l]) + 1 /\ Len(exitRows[l]) \in Nat
          /\ DOMAIN exitRows[l] = 1 .. Len(exitRows[l])
      BY <2>2, <2>4, <3>1, LenProperties
    <3>3. CASE i = Len(exitRows[l]) + 1
      BY <2>4, <3>1, <3>3 DEF Whole
    <3>4. CASE i \in DOMAIN exitRows[l]
      BY <2>4, <3>1, <3>2, <3>4 DEF WholeInv, WholeRows
    <3> QED BY <3>2, <3>3, <3>4
  <2> QED BY <2>1, <2>3, <2>4
<1>4. ASSUME NEW f \in Frames, ExitStep(f) PROVE WholeRows'
  <2>1. CASE ~ (TakeRow(f) \/ MarkCancelled(f) \/ Commit(f) \/ CommitRaises(f))
    BY <1>4, <2>1 DEF ExitStep, ReadRows, RowsUnread, FetchLive, ReadChildren,
       ChildrenUnread, CallChild, ChildDone, ChildFailed, ReadPosition, PlaceExit,
       ClosePosition, BrokerMissing, Cancel, CancelRaises, InsertExit, InsertFails,
       EndLoop, StatusUnwritten, dbVars, WholeInv, WholeRows, MarkFails, CommitRaises,
       Raise
  <2> QED BY <1>1, <1>2, <1>3, <2>1
<1>5. ASSUME NEW l \in Legs, SyncEntry(l) PROVE WholeRows'
  <2>1. KindOf[l] \in Kinds /\ KindOf[l] # "angel" /\ listed[l] \in Truths
    BY DEF ExitOrderConstants, NoneAtAngel, TypeOK
  <2>2. Whole(Synced(KindOf[l], listed[l]))
    BY <2>1, ViewWhole
  <2> QED BY <1>5, <2>2 DEF SyncEntry, WholeInv, WholeRows, TypeOK
<1>6. CASE World
  BY <1>5, <1>6 DEF World, Trigger, Fill, Reject, BrokerCancel, Poll, ExecuteExit, dbVars,
     WholeInv, WholeRows
<1>7. ASSUME NEW c \in Callers, NEW o \in Orders,
             NEW live \in BOOLEAN, NEW manual \in BOOLEAN, Call(c, o, live, manual)
      PROVE  WholeRows'
  BY <1>7 DEF Call, dbVars, WholeInv, WholeRows
<1> QED BY <1>4, <1>6, <1>7 DEF Next, Crash, exitVars, dbVars, WholeInv, WholeRows

\* What a call has read.
LEMMA SeenOthers ==
  ASSUME TypeOK, NEW g \in Frames, ExitStep(g), NEW f \in Frames, f # g
  PROVE  seen'[f] = seen[f]
  BY DEF ExitStep, ReadRows, RowsUnread, FetchLive, ReadChildren, ChildrenUnread,
     CallChild, ChildDone, ChildFailed, TakeRow, ReadPosition, PlaceExit, ClosePosition,
     BrokerMissing, Cancel, CancelRaises, MarkCancelled, MarkFails, InsertExit,
     InsertFails, EndLoop, StatusUnwritten, Commit, CommitRaises, localVars, TypeOK, Raise

LEMMA WholeStep ==
  ASSUME ExitOrderConstants, NoneAtAngel, TypeOK, WholeInv, NEW f \in Frames, ExitStep(f)
  PROVE  WholeBy(f)'
<1> USE DEF localVars
<1> DEFINE Closing == {"position", "place", "close"}
<1>0. WholeBy(f)
  BY DEF WholeInv
<1>1. CASE ReadRows(f)
  <2>1. todo'[f] = RowsOf(f[2]) /\ seen' = seen
    BY <1>1 DEF ReadRows, TypeOK
  <2>2. \A r \in todo'[f] : Whole(r[3])
    BY <2>1 DEF RowsOf, LegsOf, WholeInv, WholeRows
  <2>3. pc'[f] \notin Closing
    BY <1>1, GotoFrame DEF ReadRows
  <2> QED BY <1>0, <2>1, <2>2, <2>3 DEF WholeBy
<1>2. CASE FetchLive(f)
  <2>1. PICK S \in SUBSET LegsOf(f[2]) :
          seen' = [seen EXCEPT ![f] =
                    [l \in Legs |-> IF l \in S THEN View(KindOf[l], truth[l]) ELSE "UNKNOWN"]]
    BY <1>2 DEF FetchLive
  <2>2. \A l \in Legs : seen'[f][l] \in {View(KindOf[l], truth[l]), "UNKNOWN"}
    BY <2>1 DEF TypeOK
  <2>3. \A l \in Legs : Whole(View(KindOf[l], truth[l])) /\ Whole("UNKNOWN")
    BY ViewWhole DEF ExitOrderConstants, NoneAtAngel, TypeOK, Whole
  <2>4. todo' = todo /\ pc'[f] \notin Closing
    BY <1>2, GotoFrame DEF FetchLive
  <2> QED BY <1>0, <2>2, <2>3, <2>4 DEF WholeBy
<1>3. CASE TakeRow(f)
  <2>1. PICK r \in todo[f] :
          /\ todo' = [todo EXCEPT ![f] = @ \ {r}]
          /\ LET st == IF seen[f][r[1]] = "UNKNOWN" THEN r[3] ELSE seen[f][r[1]]
             IN  /\ pc' = [pc EXCEPT ![f] = Decision(r[1], st)]
                 /\ cur' = [cur EXCEPT ![f] = IF Decision(r[1], st) = "loop"
                                               THEN NoRow ELSE <<r[1], r[2], st>>]
    BY <1>3 DEF TakeRow
  <2> DEFINE st == IF seen[f][r[1]] = "UNKNOWN" THEN r[3] ELSE seen[f][r[1]]
  <2>2. seen' = seen /\ todo'[f] \subseteq todo[f]
    BY <1>3, <2>1 DEF TakeRow, TypeOK
  <2>3. r[1] \in Legs /\ Whole(st)
    BY <1>0, RowParts DEF TypeOK, WholeBy
  <2>4. /\ pc'[f] = Decision(r[1], st)
        /\ Decision(r[1], st) # "loop" => cur'[f] = <<r[1], r[2], st>>
    BY <2>1 DEF TypeOK
  <2> HIDE DEF st
  <2>5. pc'[f] \in Closing => st = "FILLED" /\ cur'[f][3] = st
    BY <2>3, <2>4 DEF Decision, Whole
  <2> QED BY <1>0, <2>2, <2>5 DEF WholeBy, CurState
<1>4. CASE ReadPosition(f)
  <2>1. todo' = todo /\ seen' = seen /\ pc[f] \in Closing
        /\ \E label \in {"place", "cancel", "insert"} : Goto(f, label)
    BY <1>4 DEF ReadPosition, AfterExit
  <2>2. cur'[f] = cur[f]
    BY <2>1, GotoFrame DEF RowLabels
  <2> QED BY <1>0, <2>1, <2>2 DEF WholeBy, CurState
<1>5. CASE \/ ReadChildren(f) \/ ChildrenUnread(f) \/ ChildDone(f) \/ PlaceExit(f)
           \/ ClosePosition(f) \/ BrokerMissing(f) \/ Cancel(f) \/ CancelRaises(f)
           \/ MarkCancelled(f) \/ MarkFails(f) \/ InsertExit(f) \/ InsertFails(f) \/ EndLoop(f)
  <2>1. todo' = todo /\ seen' = seen
    BY <1>5 DEF ReadChildren, ChildrenUnread, ChildDone, PlaceExit, ClosePosition,
       BrokerMissing, Cancel, CancelRaises, MarkCancelled, MarkFails, InsertExit, InsertFails,
       EndLoop
  <2>2. \E label \in Labels \ Closing : Goto(f, label)
    BY <1>5 DEF ReadChildren, ChildrenUnread, ChildDone, PlaceExit, ClosePosition,
       BrokerMissing, Cancel, CancelRaises, MarkCancelled, MarkFails, InsertExit, InsertFails,
       EndLoop, AfterExit, Labels
  <2>3. pc'[f] \notin Closing
    BY <2>2, GotoFrame
  <2> QED BY <1>0, <2>1, <2>3 DEF WholeBy
<1>6. CASE CallChild(f)
  <2>1. todo' = todo /\ seen' = seen
    BY <1>6 DEF CallChild
  <2>2. pc'[f] \in {"await", "read"}
    BY <1>6 DEF CallChild, TypeOK
  <2> QED BY <1>0, <2>1, <2>2 DEF WholeBy
<1>7. CASE Commit(f) \/ CommitRaises(f) \/ RowsUnread(f) \/ StatusUnwritten(f)
  <2>1. todo' = todo /\ seen'[f] = Unknown
    BY <1>7 DEF Commit, CommitRaises, RowsUnread, StatusUnwritten, Raise, TypeOK
  <2>2. pc'[f] \notin Closing
    BY <1>7, GotoFrame, RaiseFrame DEF Commit, CommitRaises, RowsUnread, StatusUnwritten
  <2> QED BY <1>0, <2>1, <2>2 DEF WholeBy, Unknown, Whole
<1>8. CASE ChildFailed(f)
  <2>1. todo' = todo /\ seen' = seen
    BY <1>8 DEF ChildFailed
  <2>2. pc'[f] \in {"loop", "idle"}
    BY <1>8 DEF ChildFailed, TypeOK
  <2> QED BY <1>0, <2>1, <2>2 DEF WholeBy
<1> QED BY <1>1, <1>2, <1>3, <1>4, <1>5, <1>6, <1>7, <1>8 DEF ExitStep

LEMMA WholeNext ==
  ASSUME ExitOrderConstants, NoneAtAngel, TypeOK, WholeInv, [Next]_exitVars
  PROVE  WholeInv'
<1>1. ASSUME NEW f \in Frames, ExitStep(f), NEW g \in Frames PROVE WholeBy(g)'
  <2>1. CASE f = g
    BY <1>1, <2>1, WholeStep
  <2>2. CASE f # g
    <3>1. /\ cur'[g] = cur[g] /\ todo'[g] = todo[g] /\ seen'[g] = seen[g]
          /\ pc'[g] \in {pc[g], "read", "idle"}
      BY <1>1, <2>2, OthersStay, SeenOthers
    <3> QED BY <3>1 DEF WholeInv, WholeBy, CurState
  <2> QED BY <2>1, <2>2
<1>2. CASE \/ \E c \in Callers, o \in Orders, live, manual \in BOOLEAN :
                Call(c, o, live, manual)
           \/ World
           \/ UNCHANGED exitVars
  <2>1. cur' = cur /\ todo' = todo /\ \A f \in Frames : pc'[f] \in {pc[f], "read"}
    BY <1>2, OutsideStays
  <2>2. seen' = seen
    BY <1>2 DEF Call, Start, World, Trigger, Fill, Reject, BrokerCancel, Poll, SyncEntry,
       ExecuteExit, exitVars, localVars
  <2>3. \A f \in Frames : WholeBy(f)'
    BY <2>1, <2>2 DEF WholeInv, WholeBy, CurState
  <2> QED BY <2>3, WholeRowsNext DEF WholeInv
<1>3. CASE Crash
  <2>1. \A f \in Frames : pc'[f] = "idle" /\ todo'[f] = {} /\ seen'[f] = Unknown
    BY <1>3 DEF Crash, ClearedFrames
  <2>2. \A f \in Frames : WholeBy(f)'
    BY <2>1 DEF WholeBy, Unknown, Whole
  <2> QED BY <2>2, WholeRowsNext DEF WholeInv
<1> QED BY <1>1, <1>2, <1>3, WholeRowsNext DEF Next, WholeInv

--------------------------------------------------------------------------------
(***************************************************************************)
(* The promises about the positions.                                       *)
(***************************************************************************)
CallsApart == ExitOrderConstants /\ OneAtATime /\ OwnBooks /\ Prompt /\ NoneAtAngel

PositionInv == TypeOK /\ TruthInv /\ Owned /\ SideInv /\ WholeInv

LEMMA PositionInit == CallsApart /\ Init => PositionInv
  BY TypeInit, TruthInit, OwnedInit, SideInit, WholeInit DEF CallsApart, PositionInv

LEMMA PositionNext ==
  ASSUME CallsApart, PositionInv, [Next]_exitVars
  PROVE  PositionInv'
<1> USE DEF CallsApart, PositionInv
<1>1. TypeOK' /\ TruthInv'
  BY TypeNext, TruthNext
<1>2. Owned'
  BY OwnedNext
<1>3. SideInv'
  BY SideNext
<1>4. WholeInv'
  BY WholeNext
<1> QED BY <1>1, <1>2, <1>3, <1>4

\* A call that works on a row closes the whole position, at a step of its own.
LEMMA ClosesAll ==
  ASSUME CallsApart, PositionInv, NEW f \in Frames, PlaceExit(f) \/ ClosePosition(f)
  PROVE  \/ book' = book
         \/ /\ CurBook(f) \in Books /\ book[CurBook(f)] # 0
            /\ book' = [book EXCEPT ![CurBook(f)] = 0]
<1>1. pc[f] \in {"place", "close"} /\ pc[f] \in RowLabels
  BY DEF PlaceExit, ClosePosition, RowLabels
<1>2. CurBook(f) \in Books /\ CurState(f) = "FILLED"
  BY <1>1, CurTypes DEF CallsApart, PositionInv, WholeInv, WholeBy
<1>3. CASE PlaceExit(f)
  BY <1>2, <1>3, PlaceMoves DEF CallsApart, PositionInv
<1>4. CASE ClosePosition(f)
  BY <1>2, <1>4, CloseMoves DEF CallsApart, PositionInv
<1> QED BY <1>3, <1>4

LEMMA AddsNothing ==
  ASSUME CallsApart, PositionInv, [Next]_exitVars
  PROVE  NothingAdded
<1> SUFFICES ASSUME NEW b \in Books, Abs(book'[b]) > Abs(book[b])
             PROVE  \E l \in Legs : BookOf[l] = b /\ truth'[l] # truth[l]
  BY DEF NothingAdded
<1>1. book[b] \in Int /\ Abs(book[b]) >= 0
  BY DEF PositionInv, TypeOK, Abs
<1>2. ~ (book' = book)
  BY <1>1 DEF Abs
<1>3. ASSUME NEW f \in Frames, PlaceExit(f) \/ ClosePosition(f) PROVE FALSE
  <2>1. book'[b] = book[b] \/ book'[b] = 0
    BY <1>2, <1>3, ClosesAll DEF PositionInv, TypeOK
  <2> QED BY <1>1, <2>1 DEF Abs
<1>4. PICK l \in Legs : Fill(l)
  BY <1>2, <1>3, WhoMoves DEF CallsApart, PositionInv
<1>5. PICK n \in Int : book' = [book EXCEPT ![BookOf[l]] = n]
  BY <1>4, FillMoves DEF CallsApart, PositionInv
<1>6. BookOf[l] = b
  <2>1. book'[b] # book[b]
    BY <1>1 DEF Abs
  <2> QED BY <1>5, <2>1 DEF PositionInv, TypeOK
<1>7. truth'[l] # truth[l]
  BY <1>4, FillMoves DEF CallsApart, PositionInv
<1> QED BY <1>6, <1>7

\* Every step of the calls and of their environment is one of the contract's, or
\* leaves the positions and the requests alone.
LEMMA KeepsContract ==
  ASSUME CallsApart, PositionInv, [Next]_exitVars
  PROVE  [Contract!Next]_<<book, asked>>
<1> DEFINE Owners == [b \in Books |-> {OrderOf[l] : l \in {m \in Legs : BookOf[m] = b}}]
<1>0. \A l \in Legs : BookOf[l] \in Books /\ OrderOf[l] \in Owners[BookOf[l]]
  BY DEF CallsApart, ExitOrderConstants
<1>1. ASSUME NEW f \in Frames, PlaceExit(f) \/ ClosePosition(f)
      PROVE  [Contract!Next]_<<book, asked>>
  <2>1. asked' = asked
    BY <1>1 DEF PlaceExit, ClosePosition
  <2>2. CASE book' = book
    BY <2>1, <2>2
  <2>3. CASE ~ (book' = book)
    <3>1. /\ CurBook(f) \in Books /\ book[CurBook(f)] # 0
          /\ book' = [book EXCEPT ![CurBook(f)] = 0]
      BY <1>1, <2>3, ClosesAll
    <3>2. pc[f] \in RowLabels /\ pc[f] # "idle"
      BY <1>1 DEF PlaceExit, ClosePosition, RowLabels
    <3>3. CurLeg(f) \in Legs /\ CurBook(f) = BookOf[CurLeg(f)]
      BY <3>2, CurTypes DEF CallsApart, PositionInv
    <3>4. OrderOf[CurLeg(f)] = f[2] /\ f[2] \in asked
      BY <3>2 DEF PositionInv, Owned, OwnedBy
    <3>5. f[2] \in Owners[CurBook(f)] \cap asked
      BY <1>0, <3>3, <3>4
    <3>6. Contract!Close(CurBook(f))
      BY <2>1, <3>1, <3>5 DEF Contract!Close
    <3> QED BY <3>1, <3>6 DEF Contract!Next
  <2> QED BY <2>2, <2>3
<1>2. ASSUME NEW l \in Legs, Fill(l) PROVE [Contract!Next]_<<book, asked>>
  <2>1. asked' = asked
    BY <1>2 DEF Fill
  <2>2. book' = [book EXCEPT ![BookOf[l]] = book[BookOf[l]] + Lots(l, 1)]
    BY <1>2 DEF Fill, Execute
  <2>3. book' = [book EXCEPT ![BookOf[l]] =
                   IF OrderOf[l] \in BuyOrders THEN book[BookOf[l]] + 1
                                               ELSE book[BookOf[l]] - 1]
    <3>1. book[BookOf[l]] \in Int
      BY <1>0 DEF PositionInv, TypeOK
    <3>2. CASE OrderOf[l] \in BuyOrders
      BY <2>2, <3>2 DEF Lots
    <3>3. CASE OrderOf[l] \notin BuyOrders
      <4>1. book[BookOf[l]] + Lots(l, 1) = book[BookOf[l]] - 1
        BY <3>1, <3>3 DEF Lots
      <4> QED BY <2>2, <3>3, <4>1
    <3> QED BY <3>2, <3>3
  <2>4. Contract!Build(BookOf[l])
    BY <1>0, <2>1, <2>3 DEF Contract!Build
  <2> QED BY <1>0, <2>4 DEF Contract!Next
<1>3. CASE book' = book
  <2>1. CASE asked' = asked
    BY <1>3, <2>1
  <2>2. ASSUME NEW o \in Orders, asked' = asked \cup {o}
        PROVE  [Contract!Next]_<<book, asked>>
    BY <1>3, <2>2 DEF Contract!Next, Contract!Request
  <2>3. ASSUME NEW f \in Frames, ExitStep(f)
        PROVE  asked' = asked \/ \E o \in Orders : asked' = asked \cup {o}
    <3>1. CASE CallChild(f)
      BY <3>1 DEF CallChild, PositionInv, TypeOK
    <3>2. CASE ~ CallChild(f)
      BY <2>3, <3>2 DEF ExitStep, ReadRows, RowsUnread, FetchLive, ReadChildren,
         ChildrenUnread, ChildDone, ChildFailed, TakeRow, ReadPosition, PlaceExit,
         ClosePosition, BrokerMissing, Cancel, CancelRaises, MarkCancelled, MarkFails,
         InsertExit, InsertFails, EndLoop, StatusUnwritten, Commit, CommitRaises, Raise
    <3> QED BY <3>1, <3>2
  <2>4. CASE World
    BY <2>1, <2>4 DEF World, Trigger, Fill, Reject, BrokerCancel, Poll, SyncEntry, ExecuteExit
  <2>5. ASSUME NEW c \in Callers, NEW o \in Orders,
               NEW live \in BOOLEAN, NEW manual \in BOOLEAN, Call(c, o, live, manual)
        PROVE  asked' = asked \cup {o}
    BY <2>5 DEF Call, Start
  <2>6. CASE Crash \/ UNCHANGED exitVars
    BY <2>1, <2>6 DEF Crash, exitVars
  <2> QED BY <2>1, <2>2, <2>3, <2>4, <2>5, <2>6 DEF Next
<1> QED BY <1>1, <1>2, <1>3, WhoMoves DEF CallsApart, PositionInv

LEMMA ContractInit == ExitOrderConstants /\ Init => Contract!Init
  BY DEF Init, Contract!Init

\* Calls that come one after the other never make a position larger, and keep the
\* contract: a position that is built up by the entry order of its owner is touched
\* again only after an exit was requested, and then goes to zero in one step.  For
\* any orders, hedges, legs, brokers but Angel, restarts and broker errors.
THEOREM NeverAdds == CallsApart => (Spec => ExitNeverAdds)
<1> SUFFICES ASSUME CallsApart PROVE Spec => ExitNeverAdds
  OBVIOUS
<1>1. Init => PositionInv
  BY PositionInit
<1>2. PositionInv /\ [Next]_exitVars => PositionInv' /\ [NothingAdded]_exitVars
  BY PositionNext, AddsNothing
<1> QED BY <1>1, <1>2, PTL DEF Spec, ExitNeverAdds

THEOREM ImplementsContract == CallsApart => (Spec => ContractSpec)
<1> SUFFICES ASSUME CallsApart PROVE Spec => ContractSpec
  OBVIOUS
<1>1. Init => PositionInv /\ Contract!Init
  BY PositionInit, ContractInit DEF CallsApart
<1>2. PositionInv /\ [Next]_exitVars => PositionInv' /\ [Contract!Next]_<<book, asked>>
  BY PositionNext, KeepsContract
<1> QED BY <1>1, <1>2, PTL DEF Spec, ContractSpec, Contract!Spec

--------------------------------------------------------------------------------
(***************************************************************************)
(* The hedges go first.  A call that waits for the exit of a hedge is the  *)
(* only one of the order, so nobody gives the order a new status while it  *)
(* waits, and the hedges it has been through stay finished; those whose    *)
(* exit failed are in `skipped`.                                           *)
(***************************************************************************)
Finished == {"CLOSED", "FILLED", "CANCELLED", "REJECTED", "FAILED"}

\* A call at work, with a hedge at work, is waiting for that hedge.
Nested(f) ==
  \A h \in ChildrenOf(f[2]) :
    pc[f] # "idle" /\ pc[<<f[1], h>>] # "idle" => pc[f] = "await" /\ kid[f] = h

\* Past the reading of the hedges, each is still to be exited, awaited, finished or
\* given up.
HedgesSeen(f) ==
  /\ pc[f] \in {"loop", "await"} \cup RowLabels =>
       \A h \in ChildrenOf(f[2]) : \/ h \in kids[f]
                                   \/ pc[f] = "await" /\ h = kid[f]
                                   \/ status[h] \in Finished \/ h \in skipped[f]
  /\ pc[f] \in RowLabels => kids[f] = {}
  /\ kids[f] \subseteq ChildrenOf(f[2])

HedgeInv == \A f \in Frames : Nested(f) /\ HedgesSeen(f)

\* A hedge has no hedges, and is the hedge of one order.
LEMMA ChildFacts ==
  ASSUME ExitOrderConstants, HedgesHaveNone, NEW o \in Orders, NEW h \in ChildrenOf(o)
  PROVE  /\ h \in Orders /\ h # o /\ ChildrenOf(h) = {}
         /\ \A p \in Orders : h \in ChildrenOf(p) => p = o
<1>1. h \in Orders /\ ParentOf[h] = o /\ ParentOf[h] # NoOrder
  BY DEF ChildrenOf, ExitOrderConstants
<1>2. ParentOf[o] = NoOrder
  BY <1>1 DEF HedgesHaveNone
<1>3. ChildrenOf(h) = {}
  BY <1>1, <1>2 DEF ChildrenOf, HedgesHaveNone, ExitOrderConstants
<1> QED BY <1>1, <1>2, <1>3 DEF ChildrenOf

\* Who gives an order a status: the call that waited for its exit, or its own.
LEMMA StatusWriters ==
  ASSUME TypeOK, NEW f \in Frames, ExitStep(f)
  PROVE  \/ status' = status
         \/ ChildDone(f) /\ status' = [status EXCEPT ![kid[f]] = "CLOSED"]
         \/ EndLoop(f) /\ status' = [status EXCEPT ![f[2]] = "EXIT_MANUAL_PENDING"]
  BY DEF ExitStep, ReadRows, RowsUnread, FetchLive, ReadChildren, ChildrenUnread,
     CallChild, ChildDone, ChildFailed, TakeRow, ReadPosition, PlaceExit, ClosePosition,
     BrokerMissing, Cancel, CancelRaises, MarkCancelled, MarkFails, InsertExit,
     InsertFails, EndLoop, StatusUnwritten, Commit, CommitRaises, dbVars, Raise

LEMMA PairFrames ==
  ASSUME NEW c \in Callers, NEW o \in Orders
  PROVE  <<c, o>> \in Frames /\ <<c, o>>[1] = c /\ <<c, o>>[2] = o
  BY DEF Frames

LEMMA FrameParts ==
  ASSUME NEW f \in Frames
  PROVE  f[1] \in Callers /\ f[2] \in Orders /\ f = <<f[1], f[2]>>
  BY DEF Frames

LEMMA NestedNext ==
  ASSUME ExitOrderConstants, OneAtATime, HedgesHaveNone, TypeOK, HedgeInv,
         NEW f \in Frames, ExitStep(f), NEW g \in Frames
  PROVE  Nested(g)'
<1> SUFFICES ASSUME NEW h \in ChildrenOf(g[2]),
                    pc'[g] # "idle", pc'[<<g[1], h>>] # "idle"
             PROVE  pc'[g] = "await" /\ kid'[g] = h
  BY DEF Nested, ChildrenOf
<1> DEFINE k == <<g[1], h>>
<1>0. /\ h \in Orders /\ h # g[2] /\ ChildrenOf(h) = {}
      /\ k \in Frames /\ k # g /\ k[2] = h /\ k[1] = g[1]
  BY FrameParts, ChildFacts, PairFrames
<1>1. pc[g] # "idle" /\ pc[k] # "idle" => pc[g] = "await" /\ kid[g] = h
  BY DEF HedgeInv, Nested
<1>2. pc[f] # "idle" /\ f[1] = g[1]
  BY DEF ExitStep, ReadRows, RowsUnread, FetchLive, ReadChildren, ChildrenUnread,
     CallChild, ChildDone, ChildFailed, TakeRow, ReadPosition, PlaceExit, ClosePosition,
     BrokerMissing, Cancel, CancelRaises, MarkCancelled, MarkFails, InsertExit,
     InsertFails, EndLoop, StatusUnwritten, Commit, CommitRaises, OneAtATime, Frames,
     Raise
<1>3. CASE CallChild(f)
  <2>1. PICK m \in kids[f] : /\ pc[<<f[1], m>>] = "idle"
                             /\ kid' = [kid EXCEPT ![f] = m]
                             /\ pc' = [pc EXCEPT ![f] = "await", ![<<f[1], m>>] = "read"]
    BY <1>3 DEF CallChild
  <2>2. m \in ChildrenOf(f[2]) /\ f[2] \in Orders /\ f[1] \in Callers
    BY FrameParts DEF HedgeInv, HedgesSeen
  <2>3. /\ m \in Orders /\ m # f[2] /\ ChildrenOf(m) = {}
        /\ \A p \in Orders : m \in ChildrenOf(p) => p = f[2]
    BY <2>2, ChildFacts
  <2>4. <<f[1], m>> \in Frames /\ <<f[1], m>> # f /\ <<f[1], m>>[2] = m
    BY <2>2, <2>3, PairFrames
  <2>5. \A x \in Frames : pc'[x] = IF x = <<f[1], m>> THEN "read"
                                   ELSE IF x = f THEN "await" ELSE pc[x]
    BY <2>1, <2>4 DEF TypeOK
  <2>6. pc[f] = "loop"
    BY <1>3 DEF CallChild
  <2>7. CASE g = f
    <3>1. pc[k] = "idle"
      BY <1>1, <2>6, <2>7
    <3>2. k = <<f[1], m>>
      BY <1>0, <2>5, <2>7, <3>1
    <3>3. h = m
      BY <1>0, <2>4, <3>2
    <3> QED BY <2>1, <2>4, <2>5, <2>7, <3>3 DEF TypeOK
  <2>8. CASE g # f
    <3>1. g # <<f[1], m>>
      BY <1>0, <2>3, <2>4
    <3>2. pc'[g] = pc[g] /\ kid'[g] = kid[g] /\ pc[g] # "idle"
      BY <2>1, <2>5, <2>8, <3>1 DEF TypeOK
    <3>3. k # <<f[1], m>>
      <4> SUFFICES ASSUME k = <<f[1], m>> PROVE FALSE
        OBVIOUS
      <4>1. h = m
        BY <1>0, <2>4
      <4>2. g[2] = f[2]
        BY <2>3, <4>1, FrameParts
      <4> QED BY <2>8, <4>2, OneFrame
    <3>4. pc[k] # "idle"
      BY <1>0, <1>2, <2>5, <3>3
    <3> QED BY <1>1, <3>2, <3>4
  <2> QED BY <2>7, <2>8
<1>4. CASE ~ CallChild(f) /\ f = g
  <2>1. pc[k] # "idle"
    BY <1>0, <1>4, OthersStay
  <2>2. pc[g] = "await" /\ kid[g] = h
    BY <1>1, <1>2, <1>4, <2>1
  <2>5. ~ ChildFailed(f)
    BY <1>0, <1>4, <2>2 DEF ChildFailed, TypeOK
  <2>3. ChildDone(f)
    BY <1>4, <2>2, <2>5 DEF ExitStep, ReadRows, RowsUnread, FetchLive, ReadChildren,
       ChildrenUnread, TakeRow, ReadPosition, PlaceExit, ClosePosition, BrokerMissing, Cancel,
       CancelRaises, MarkCancelled, MarkFails, InsertExit, InsertFails, EndLoop,
       StatusUnwritten, Commit, CommitRaises
  <2>4. pc[k] = "idle"
    BY <1>4, <2>2, <2>3 DEF ChildDone
  <2> QED BY <2>1, <2>4
<1>5. CASE ~ CallChild(f) /\ f # g
  <2>1. pc'[g] = pc[g] /\ kid'[g] = kid[g]
    <3>1. kid'[g] = kid[g] /\ (pc'[g] = pc[g] \/ pc'[g] = "idle")
      BY <1>5, OthersStay
    <3> QED BY <3>1
  <2>2. pc[k] # "idle"
    <3>1. CASE k = f
      BY <1>2, <3>1
    <3>2. CASE k # f
      BY <1>0, <1>5, <3>2, OthersStay
    <3> QED BY <3>1, <3>2
  <2> QED BY <1>1, <2>1, <2>2
<1> QED BY <1>3, <1>4, <1>5

LEMMA SkippedOthers ==
  ASSUME TypeOK, NEW g \in Frames, ExitStep(g), NEW f \in Frames, f # g
  PROVE  skipped'[f] = skipped[f]
  BY DEF ExitStep, ReadRows, RowsUnread, FetchLive, ReadChildren, ChildrenUnread, CallChild,
     ChildDone, ChildFailed, TakeRow, ReadPosition, PlaceExit, ClosePosition, BrokerMissing,
     Cancel, CancelRaises, MarkCancelled, MarkFails, InsertExit, InsertFails, EndLoop,
     StatusUnwritten, Commit, CommitRaises, Raise, failVars, TypeOK

LEMMA SeenNext ==
  ASSUME ExitOrderConstants, OneAtATime, HedgesHaveNone, TypeOK, HedgeInv,
         NEW f \in Frames, ExitStep(f), NEW g \in Frames
  PROVE  HedgesSeen(g)'
<1>0. HedgesSeen(g) /\ g[2] \in Orders /\ g[1] \in Callers
  BY FrameParts DEF HedgeInv
<1>1. pc[f] # "idle" /\ f[1] = g[1]
  BY DEF ExitStep, ReadRows, RowsUnread, FetchLive, ReadChildren, ChildrenUnread,
     CallChild, ChildDone, ChildFailed, TakeRow, ReadPosition, PlaceExit, ClosePosition,
     BrokerMissing, Cancel, CancelRaises, MarkCancelled, MarkFails, InsertExit,
     InsertFails, EndLoop, StatusUnwritten, Commit, CommitRaises, OneAtATime, Frames,
     Raise
<1>2. ASSUME NEW h \in ChildrenOf(g[2]), status[h] \in Finished,
             pc[g] \in {"loop", "await"} \cup RowLabels,
             f = g => ~ EndLoop(f)
      PROVE  \/ status'[h] \in Finished
             \/ f # g /\ pc[g] = "await" /\ h = kid[g]
  <2>1. h \in Orders
    BY DEF ChildrenOf
  <2>2. CASE ChildDone(f) /\ status' = [status EXCEPT ![kid[f]] = "CLOSED"]
    BY <1>2, <2>1, <2>2 DEF TypeOK, Finished
  <2>3. CASE EndLoop(f) /\ status' = [status EXCEPT ![f[2]] = "EXIT_MANUAL_PENDING"]
    <3>1. f # g
      BY <1>2, <2>3
    <3>2. CASE f[2] # h
      BY <1>2, <2>1, <2>3, <3>2 DEF TypeOK
    <3>3. CASE f[2] = h
      <4>1. f = <<g[1], h>>
        BY <1>1, <3>3, FrameParts
      <4>2. pc[g] # "idle"
        BY <1>2 DEF RowLabels
      <4> QED BY <1>1, <3>1, <4>1, <4>2 DEF HedgeInv, Nested
    <3> QED BY <3>2, <3>3
  <2> QED BY <1>2, <2>2, <2>3, StatusWriters
<1> DEFINE Past == {"loop", "await"} \cup RowLabels
<1>3. CASE f # g
  <2>1. /\ kids'[g] = kids[g] /\ kid'[g] = kid[g]
        /\ pc'[g] \in {pc[g], "read", "idle"} /\ skipped'[g] = skipped[g]
    BY <1>3, OthersStay, SkippedOthers
  <2>2. ASSUME pc'[g] \in Past, NEW h \in ChildrenOf(g[2])
        PROVE  \/ h \in kids'[g]
               \/ pc'[g] = "await" /\ h = kid'[g]
               \/ status'[h] \in Finished \/ h \in skipped'[g]
    <3>1. pc'[g] = pc[g]
      BY <2>1, <2>2 DEF RowLabels
    <3> QED BY <1>0, <1>2, <1>3, <2>1, <2>2, <3>1 DEF HedgesSeen
  <2>3. pc'[g] \in RowLabels => kids'[g] = {}
    BY <1>0, <2>1 DEF HedgesSeen, RowLabels
  <2> QED BY <1>0, <2>1, <2>2, <2>3 DEF HedgesSeen, ChildrenOf
<1>4. CASE f = g /\ (ReadRows(f) \/ FetchLive(f) \/ EndLoop(f) \/ Commit(f))
  <2>1. kids' = kids /\ pc'[f] \notin Past
    BY <1>4, GotoFrame DEF ReadRows, FetchLive, EndLoop, Commit, localVars, RowLabels
  <2> QED BY <1>0, <1>4, <2>1 DEF HedgesSeen, ChildrenOf
<1>10. CASE f = g /\ (RowsUnread(f) \/ StatusUnwritten(f) \/ CommitRaises(f))
  <2>1. kids' = kids /\ pc'[f] \notin Past
    BY <1>10, RaiseFrame DEF RowsUnread, StatusUnwritten, CommitRaises, RowLabels
  <2> QED BY <1>0, <1>10, <2>1 DEF HedgesSeen, ChildrenOf
<1>11. CASE f = g /\ ChildrenUnread(f)
  <2>1. kids' = kids /\ skipped'[f] = ChildrenOf(f[2]) /\ pc'[f] = "loop"
    BY <1>11, GotoFrame DEF ChildrenUnread, TypeOK
  <2> QED BY <1>0, <1>11, <2>1 DEF HedgesSeen, ChildrenOf, RowLabels
<1>12. CASE f = g /\ ChildFailed(f)
  <2>1. /\ kids' = kids /\ pc[f] = "await" /\ pc'[f] \in {"loop", "idle"} /\ status' = status
        /\ skipped'[f] = skipped[f] \cup {kid[f]}
    BY <1>12 DEF ChildFailed, TypeOK, dbVars
  <2>2. \A h \in ChildrenOf(f[2]) :
          h \in kids[f] \/ h = kid[f] \/ status[h] \in Finished \/ h \in skipped[f]
    BY <1>0, <1>12, <2>1 DEF HedgesSeen
  <2> QED BY <1>0, <1>12, <2>1, <2>2 DEF HedgesSeen, ChildrenOf, RowLabels
<1>5. CASE f = g /\ ReadChildren(f)
  <2>1. /\ kids'[f] = {h \in ChildrenOf(f[2]) :
                         status[h] \notin {"FILLED", "CANCELLED", "REJECTED", "FAILED"}}
        /\ status' = status
    BY <1>5 DEF ReadChildren, TypeOK, dbVars
  <2>2. pc'[f] = "loop"
    BY <1>5, GotoFrame DEF ReadChildren
  <2> QED BY <1>5, <2>1, <2>2 DEF HedgesSeen, ChildrenOf, Finished, RowLabels
<1>6. CASE f = g /\ CallChild(f)
  <2>1. PICK m \in kids[f] : /\ kid' = [kid EXCEPT ![f] = m]
                             /\ kids' = [kids EXCEPT ![f] = @ \ {m}]
                             /\ pc' = [pc EXCEPT ![f] = "await", ![<<f[1], m>>] = "read"]
    BY <1>6 DEF CallChild
  <2>2. kid'[f] = m /\ kids'[f] = kids[f] \ {m} /\ status' = status /\ pc[f] = "loop"
    BY <1>6, <2>1 DEF TypeOK, CallChild, dbVars
  <2>6. skipped' = skipped
    BY <1>6 DEF CallChild, failVars
  <2>3. pc'[f] \in {"await", "read"}
    BY <2>1 DEF TypeOK
  <2>4. \A h \in ChildrenOf(f[2]) :
          h \in kids[f] \/ status[h] \in Finished \/ h \in skipped[f]
    BY <1>0, <1>6, <2>2 DEF HedgesSeen
  <2>5. \A h \in ChildrenOf(f[2]) :
          h \in kids'[f] \/ h = kid'[f] \/ status'[h] \in Finished \/ h \in skipped'[f]
    BY <2>2, <2>4, <2>6
  <2> QED BY <1>0, <1>6, <2>2, <2>3, <2>5 DEF HedgesSeen, ChildrenOf, RowLabels
<1>7. CASE f = g /\ ChildDone(f)
  <2>1. /\ kids' = kids /\ pc[f] = "await" /\ pc'[f] = "loop"
        /\ status' = [status EXCEPT ![kid[f]] = "CLOSED"]
    BY <1>7, GotoFrame DEF ChildDone
  <2>2. \A h \in ChildrenOf(f[2]) :
          h \in kids[f] \/ h = kid[f] \/ status[h] \in Finished \/ h \in skipped[f]
    BY <1>0, <1>7, <2>1 DEF HedgesSeen
  <2>4. skipped' = skipped
    BY <1>7 DEF ChildDone, failVars
  <2>3. \A h \in ChildrenOf(f[2]) :
          h \in kids[f] \/ status'[h] \in Finished \/ h \in skipped'[f]
    BY <2>1, <2>2, <2>4 DEF TypeOK, ChildrenOf, Finished
  <2> QED BY <1>0, <1>7, <2>1, <2>3 DEF HedgesSeen, ChildrenOf, RowLabels
<1>8. CASE f = g /\ TakeRow(f)
  <2>1. /\ kids' = kids /\ kids[f] = {} /\ status' = status /\ pc[f] = "loop"
        /\ skipped' = skipped
    BY <1>8 DEF TakeRow, failVars
  <2>2. pc'[f] # "await"
    BY <1>8 DEF TakeRow, TypeOK, Decision
  <2> QED BY <1>0, <1>8, <2>1, <2>2 DEF HedgesSeen, ChildrenOf
<1>9. CASE /\ f = g
           /\ \/ ReadPosition(f) \/ PlaceExit(f) \/ ClosePosition(f) \/ BrokerMissing(f)
              \/ Cancel(f) \/ CancelRaises(f) \/ MarkCancelled(f) \/ MarkFails(f)
              \/ InsertExit(f) \/ InsertFails(f)
  <2>1. /\ kids' = kids /\ status' = status /\ pc[f] \in RowLabels
        /\ skipped' = skipped
    BY <1>9 DEF ReadPosition, PlaceExit, ClosePosition, BrokerMissing, Cancel, CancelRaises,
       MarkCancelled, MarkFails, InsertExit, InsertFails, dbVars, localVars, failVars, RowLabels
  <2>2. \E label \in RowLabels \cup {"loop"} : Goto(f, label)
    BY <1>9 DEF ReadPosition, PlaceExit, ClosePosition, BrokerMissing, Cancel, CancelRaises,
       MarkCancelled, MarkFails, InsertExit, InsertFails, AfterExit, RowLabels
  <2>3. pc'[f] # "await" /\ pc[f] # "await"
    BY <2>1, <2>2, GotoFrame DEF RowLabels
  <2> QED BY <1>0, <1>9, <2>1, <2>3 DEF HedgesSeen, ChildrenOf
<1> QED BY <1>3, <1>4, <1>5, <1>6, <1>7, <1>8, <1>9, <1>10, <1>11, <1>12 DEF ExitStep

LEMMA HedgeNext ==
  ASSUME ExitOrderConstants, OneAtATime, HedgesHaveNone, TypeOK, HedgeInv, [Next]_exitVars
  PROVE  HedgeInv'
<1>1. ASSUME NEW f \in Frames, ExitStep(f) PROVE HedgeInv'
  BY <1>1, NestedNext, SeenNext DEF HedgeInv
<1>2. ASSUME NEW c \in Callers, NEW o \in Orders,
             NEW live \in BOOLEAN, NEW manual \in BOOLEAN, Call(c, o, live, manual)
      PROVE  HedgeInv'
  <2>1. /\ pc' = [pc EXCEPT ![<<c, o>>] = "read"] /\ kids' = kids /\ kid' = kid
        /\ status' = status /\ skipped' = skipped /\ \A p \in Orders : pc[<<c, p>>] = "idle"
    BY <1>2 DEF Call, Start, Free, dbVars, failVars
  <2>2. \A f \in Frames : pc[f] = "idle" /\ pc'[f] = IF f = <<c, o>> THEN "read" ELSE "idle"
    <3> SUFFICES ASSUME NEW f \in Frames
                 PROVE  pc[f] = "idle" /\ pc'[f] = IF f = <<c, o>> THEN "read" ELSE "idle"
      OBVIOUS
    <3>1. f = <<c, f[2]>> /\ f[2] \in Orders
      BY FrameParts DEF OneAtATime
    <3>2. pc[f] = "idle"
      BY <2>1, <3>1
    <3> QED BY <2>1, <3>2 DEF TypeOK
  <2>3. ASSUME NEW f \in Frames PROVE Nested(f)'
    <3> SUFFICES ASSUME NEW h \in ChildrenOf(f[2]),
                        pc'[f] # "idle", pc'[<<f[1], h>>] # "idle"
                 PROVE  FALSE
      BY DEF Nested, ChildrenOf
    <3>1. h # f[2] /\ <<f[1], h>> \in Frames /\ <<f[1], h>>[2] = h
      BY FrameParts, ChildFacts, PairFrames DEF ChildrenOf
    <3> QED BY <2>2, <3>1
  <2>4. ASSUME NEW f \in Frames PROVE HedgesSeen(f)'
    BY <2>1, <2>2 DEF HedgeInv, HedgesSeen, ChildrenOf, RowLabels
  <2> QED BY <2>3, <2>4 DEF HedgeInv
<1>3. CASE World \/ UNCHANGED exitVars
  <2>1. pc' = pc /\ kids' = kids /\ kid' = kid /\ status' = status /\ skipped' = skipped
    BY <1>3 DEF World, Trigger, Fill, Reject, BrokerCancel, Poll, SyncEntry, ExecuteExit,
       exitVars, dbVars, localVars, failVars
  <2> QED BY <2>1 DEF HedgeInv, Nested, HedgesSeen, ChildrenOf
<1>4. CASE Crash
  <2>1. \A f \in Frames : pc'[f] = "idle" /\ kids'[f] = {}
    BY <1>4 DEF Crash, ClearedFrames
  <2> QED BY <2>1 DEF HedgeInv, Nested, HedgesSeen, ChildrenOf, RowLabels
<1> QED BY <1>1, <1>2, <1>3, <1>4 DEF Next

LEMMA HedgeInit == Init => HedgeInv
<1> SUFFICES ASSUME Init PROVE HedgeInv
  OBVIOUS
<1>1. \A f \in Frames : pc[f] = "idle" /\ kids[f] = {}
  BY DEF Init
<1> QED BY <1>1 DEF HedgeInv, Nested, HedgesSeen, RowLabels

LEMMA HedgesBefore == HedgeInv => HedgesFirst
  BY DEF HedgeInv, HedgesSeen, HedgesFirst, Finished, RowLabels

\* Calls that come one after the other never work on a leg of an order while a hedge
\* of it is unfinished, unless the exit of that hedge, or the reading of the hedges,
\* has failed in this very call: restarts, brokers that fail, statements that fail and
\* the statuses that are written when a call ends included (order_manager.py:1735, 1525).
THEOREM HedgesGoFirst ==
  ExitOrderConstants /\ OneAtATime /\ HedgesHaveNone => (Spec => []HedgesFirst)
<1> SUFFICES ASSUME ExitOrderConstants, OneAtATime, HedgesHaveNone
             PROVE  Spec => []HedgesFirst
  OBVIOUS
<1>1. Init => HedgeInv
  BY HedgeInit
<1>2. TypeOK /\ HedgeInv /\ [Next]_exitVars => HedgeInv'
  BY HedgeNext
<1>3. HedgeInv => HedgesFirst
  BY HedgesBefore
<1> QED BY <1>1, <1>2, <1>3, TypeCorrect, PTL DEF Spec

================================================================================
