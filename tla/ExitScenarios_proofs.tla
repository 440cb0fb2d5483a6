-------------------------- MODULE ExitScenarios_proofs --------------------------
(***************************************************************************)
(* The theorems of ExitOrder_proofs for the scenarios that TLC checks.     *)
(***************************************************************************)
EXTENDS ExitScenarios, ExitOrder_proofs

LEMMA PairInit == MCInit /\ InTurn => Init
  BY DEF MCInit, InTurn

LEMMA PairNext ==
  ASSUME [MCNext]_vars
  PROVE  (InTurn' <=> InTurn) /\ (InTurn => [Next]_exitVars)
  BY DEF MCNext, InTurn, vars

\* The hedges of an order go first, in every behaviour of the scenarios, those whose
\* exit fails in the call excepted.
THEOREM PairHedges ==
  ExitOrderConstants /\ OneAtATime /\ HedgesHaveNone => (MCSpec => []PairHedgesFirst)
<1> SUFFICES ASSUME ExitOrderConstants, OneAtATime, HedgesHaveNone
             PROVE  MCSpec => []PairHedgesFirst
  OBVIOUS
<1> DEFINE Inv == InTurn => TypeOK /\ HedgeInv
<1>1. MCInit => Inv
  BY PairInit, TypeInit, HedgeInit
<1>2. Inv /\ [MCNext]_vars => Inv'
  BY PairNext, TypeNext, HedgeNext
<1>3. Inv => PairHedgesFirst
  BY HedgesBefore DEF PairHedgesFirst
<1> HIDE DEF Inv
<1> QED BY <1>1, <1>2, <1>3, PTL DEF MCSpec

\* No second EXIT row and no trade beyond zero, in every behaviour of the scenarios:
\* however many calls there are and wherever the process is restarted.
THEOREM PairExits ==
  ExitOrderConstants /\ OneAtATime /\ OwnBooks /\ Prompt => (MCSpec => []PairExitsOnce)
<1> SUFFICES ASSUME ExitOrderConstants, OneAtATime, OwnBooks, Prompt
             PROVE  MCSpec => []PairExitsOnce
  OBVIOUS
<1> DEFINE Inv == InTurn => TypeOK /\ TruthInv /\ RowInv /\ Owned /\ SideInv
<1>1. MCInit => Inv
  BY PairInit, TypeInit, TruthInit, RowInit, OwnedInit, SideInit
<1>2. Inv /\ [MCNext]_vars => Inv'
  BY PairNext, TypeNext, TruthNext, RowNext, OwnedNext, SideNext
<1>3. Inv => PairExitsOnce
  BY DEF PairExitsOnce, RowInv, SideInv
<1> HIDE DEF Inv
<1> QED BY <1>1, <1>2, <1>3, PTL DEF MCSpec

LEMMA PairPosition ==
  ASSUME CallsApart
  PROVE  /\ MCInit => (InTurn => PositionInv)
         /\ (InTurn => PositionInv) /\ [MCNext]_vars
              => (InTurn => PositionInv)'
<1>1. MCInit => (InTurn => PositionInv)
  BY PairInit, PositionInit
<1>2. (InTurn => PositionInv) /\ [MCNext]_vars => (InTurn => PositionInv)'
  BY PairNext, PositionNext
<1> QED BY <1>1, <1>2

\* No exit makes a position larger, in every behaviour of the scenarios.
THEOREM PairAddsNothing == CallsApart => (MCSpec => PairNeverAdds)
<1> SUFFICES ASSUME CallsApart PROVE MCSpec => PairNeverAdds
  OBVIOUS
<1> DEFINE Inv  == InTurn => PositionInv
           Step == InTurn => NothingAdded
<1>1. MCInit => Inv
  BY PairPosition
<1>2. Inv /\ [MCNext]_vars => Inv' /\ [Step]_vars
  <2> SUFFICES ASSUME Inv, [MCNext]_vars PROVE Inv' /\ Step
    OBVIOUS
  <2>1. Inv'
    BY PairPosition
  <2>2. Step
    BY PairNext, AddsNothing
  <2> QED BY <2>1, <2>2
<1> HIDE DEF Inv
<1> QED BY <1>1, <1>2, PTL DEF MCSpec, PairNeverAdds

\* The calls of the scenarios keep the contract of ExitContract.
THEOREM PairKeepsContract == CallsApart => (MCSpec => PairContract)
<1> SUFFICES ASSUME CallsApart PROVE MCSpec => PairContract
  OBVIOUS
<1> DEFINE Inv   == InTurn => PositionInv
           Start0 == InTurn => Contract!Init
           Step  == InTurn => [Contract!Next]_<<book, asked>>
<1>1. MCInit => Inv /\ Start0
  BY PairPosition, PairInit, ContractInit DEF CallsApart
<1>2. Inv /\ [MCNext]_vars => Inv' /\ [Step]_vars
  <2> SUFFICES ASSUME Inv, [MCNext]_vars PROVE Inv' /\ Step
    OBVIOUS
  <2>1. Inv'
    BY PairPosition
  <2>2. Step
    BY PairNext, KeepsContract
  <2> QED BY <2>1, <2>2
<1> HIDE DEF Inv
<1> QED BY <1>1, <1>2, PTL DEF MCSpec, PairContract

--------------------------------------------------------------------------------
(***************************************************************************)
(* The scenario "race" has constants of its own.                           *)
(***************************************************************************)
LEMMA RaceConstants ==
  ASSUME NoOrder # main
  PROVE  Race!ExitOrderConstants
  BY DEF Race!ExitOrderConstants, Race!Kinds

LEMMA RaceVars == UNCHANGED exitVars => UNCHANGED Race!exitVars
  BY DEF exitVars, Race!exitVars, worldVars, Race!worldVars, dbVars, Race!dbVars,
         localVars, Race!localVars, failVars, Race!failVars

\* Every exit order sent to a broker leaves a trace, however the calls come, fail and
\* interleave and wherever the process is restarted (order_manager.py:1944).
THEOREM TracesLeft == ExitOrderConstants /\ NoOrder # main => (MCSpec => []ExitsLeaveTraces)
<1> SUFFICES ASSUME ExitOrderConstants, NoOrder # main PROVE MCSpec => []ExitsLeaveTraces
  OBVIOUS
<1> DEFINE Turn == InTurn => TypeOK /\ SentIsRecorded
           Two  == scenario = "race" => Race!TypeOK /\ Race!SentIsRecorded
<1>1. MCInit => Turn
  BY PairInit, TypeInit, SentInit
<1>2. MCInit => Two
  BY RaceConstants, Race!TypeInit, Race!SentInit DEF MCInit, InTurn
<1>3. Turn /\ [MCNext]_vars => Turn'
  BY PairNext, TypeNext, SentNext
<1>4. Two /\ [MCNext]_vars => Two'
  <2> SUFFICES ASSUME Two, [MCNext]_vars, scenario' = "race"
               PROVE  Race!TypeOK' /\ Race!SentIsRecorded'
    OBVIOUS
  <2>1. scenario = "race" /\ [Race!Next]_(Race!exitVars)
    BY RaceVars DEF MCNext, InTurn, vars
  <2> QED BY <2>1, RaceConstants, Race!TypeNext, Race!SentNext
<1>5. Turn /\ Two => ExitsLeaveTraces
  BY DEF ExitsLeaveTraces
<1> HIDE DEF Turn, Two
<1> QED BY <1>1, <1>2, <1>3, <1>4, <1>5, PTL DEF MCSpec

================================================================================
