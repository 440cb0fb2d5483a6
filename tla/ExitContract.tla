----------------------------- MODULE ExitContract -----------------------------
(***************************************************************************)
(* What closing logical orders promises about the positions at the         *)
(* brokers, however it goes about it: a position is built up, lot by lot,  *)
(* on the side of the order that owns the book; it is touched again only   *)
(* after an exit of that order has been requested, and then it goes to     *)
(* zero in one step, never part of the way and never beyond.               *)
(***************************************************************************)
EXTENDS Integers

CONSTANTS Orders, Books,
          OwnersOf,    \* [Books -> SUBSET Orders]: whose position it is
          BuyOrders

VARIABLES held,        \* [Books -> Int]: net position in lots
          wanted       \* orders an exit has been requested for

TypeOK == /\ held \in [Books -> Int]
          /\ wanted \in SUBSET Orders

Init == /\ held = [b \in Books |-> 0]
        /\ wanted = {}

Request(o) == /\ wanted' = wanted \cup {o}
              /\ UNCHANGED held

Build(b) == /\ \E o \in OwnersOf[b] :
                 held' = [held EXCEPT ![b] = IF o \in BuyOrders THEN @ + 1 ELSE @ - 1]
            /\ UNCHANGED wanted

Close(b) == /\ OwnersOf[b] \cap wanted # {}
            /\ held[b] # 0
            /\ held' = [held EXCEPT ![b] = 0]
            /\ UNCHANGED wanted

Next == \/ \E o \in Orders : Request(o)
        \/ \E b \in Books : Build(b) \/ Close(b)

Spec == Init /\ [][Next]_<<held, wanted>>

================================================================================
