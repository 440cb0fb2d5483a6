------------------------- MODULE StatusMapping_proofs -------------------------
(***************************************************************************)
(* What the two normalisations may and may not make of the state of an     *)
(* order at its broker.                                                    *)
(***************************************************************************)
EXTENDS StatusMapping, TLAPS

\* Fyers: a finished order is reported as what it is, any other as PENDING.
LEMMA FyersView ==
  ASSUME NEW t \in Truths
  PROVE  /\ t \in DoneTruths => View("fyers", t) = t
         /\ t \notin DoneTruths => View("fyers", t) = "PENDING"
  BY DEF Truths, DoneTruths, View, Normalised, Raw, FYERS_STATUS_MAP

\* Zerodha: an order in the book, untouched or partly executed, is OPEN.
LEMMA ZerodhaView ==
  /\ View("zerodha", "CANCELLED") = "CANCELLED"
  /\ View("zerodha", "REJECTED") = "REJECTED"
  /\ View("zerodha", "FILLED") = "FILLED"
  /\ View("zerodha", "PARTIAL") = "OPEN"
  /\ View("zerodha", "RESTING") = "OPEN"
  /\ View("zerodha", "TRIGGER") = "TRIGGER_PENDING"
  BY DEF View, Normalised, Raw, ZERODHA_STATUS_MAP

\* Angel: a filled order is OPEN and never FILLED.
LEMMA AngelView ==
  /\ View("angel", "CANCELLED") = "CANCELLED"
  /\ View("angel", "REJECTED") = "REJECTED"
  /\ View("angel", "FILLED") = "OPEN"
  /\ View("angel", "PARTIAL") = "PARTIALLY_FILLED"
  /\ View("angel", "RESTING") = "AWAITING_ENTRY"
  /\ View("angel", "TRIGGER") = "AWAITING_ENTRY"
  BY DEF View, Normalised, Raw, ANGEL_STATUS_MAP

\* Angel's table applied once more makes a filled order one that awaits entry.
LEMMA AngelSynced ==
  /\ Synced("angel", "CANCELLED") = "CANCELLED"
  /\ Synced("angel", "REJECTED") = "REJECTED"
  /\ Synced("angel", "PARTIAL") = "PARTIALLY_FILLED"
  /\ Synced("angel", "FILLED") = "AWAITING_ENTRY"
  /\ Synced("angel", "RESTING") = "AWAITING_ENTRY"
  /\ Synced("angel", "TRIGGER") = "AWAITING_ENTRY"
<1>1. \A t \in Truths : Synced("angel", t) = ANGEL_STATUS_MAP(Lower(View("angel", t)))
  BY DEF Synced, Renormalised
<1>2. DOMAIN LowerCase = {"OPEN", "CANCELLED", "REJECTED", "FAILED", "FILLED"}
  BY DEF LowerCase
<1>3. /\ Lower("CANCELLED") = "cancelled" /\ Lower("REJECTED") = "rejected"
      /\ Lower("OPEN") = "open"
      /\ Lower("PARTIALLY_FILLED") = "PARTIALLY_FILLED"
      /\ Lower("AWAITING_ENTRY") = "AWAITING_ENTRY"
  BY <1>2 DEF Lower, LowerCase
<1> QED BY <1>1, <1>3, AngelView DEF Truths, ANGEL_STATUS_MAP

\* What is reported is one of the statuses of an execution.
LEMMA ViewType ==
  ASSUME NEW kind \in Kinds, NEW t \in Truths
  PROVE  View(kind, t) \in ExecStatuses
  BY FyersView, ZerodhaView, AngelView DEF Kinds, Truths, DoneTruths, ExecStatuses

LEMMA SyncedType ==
  ASSUME NEW kind \in Kinds, NEW t \in Truths
  PROVE  Synced(kind, t) \in ExecStatuses
<1>1. CASE kind = "angel"
  BY <1>1, AngelSynced DEF Truths, ExecStatuses
<1>2. CASE kind # "angel"
  BY <1>2, ViewType DEF Synced, Renormalised
<1> QED BY <1>1, <1>2

\* A normalised status of FILLED, CANCELLED or REJECTED is what the order is
\* (OrderManager.get_all_broker_order_details).
THEOREM ViewDone ==
  ASSUME NEW kind \in Kinds, NEW t \in Truths, View(kind, t) \in DoneTruths
  PROVE  t = View(kind, t)
  BY FyersView, ZerodhaView, AngelView DEF Kinds, Truths, DoneTruths

\* The second normalisation keeps that: a status of FILLED, CANCELLED or
\* REJECTED that the price monitor writes is what the order is.
THEOREM SyncedDone ==
  ASSUME NEW kind \in Kinds, NEW t \in Truths, Synced(kind, t) \in DoneTruths
  PROVE  t = Synced(kind, t)
<1>1. CASE kind = "angel"
  BY <1>1, AngelSynced DEF Truths, DoneTruths
<1>2. CASE kind # "angel"
  BY <1>2, ViewDone DEF Synced, Renormalised
<1> QED BY <1>1, <1>2

\* A status that is normalised, or standardised, once more is a status.
LEMMA RenormalisedType ==
  ASSUME NEW kind \in Kinds, NEW s \in ExecStatuses
  PROVE  Renormalised(kind, s) \in ExecStatuses
<1>1. DOMAIN LowerCase = {"OPEN", "CANCELLED", "REJECTED", "FAILED", "FILLED"}
  BY DEF LowerCase
<1>2. /\ Lower("OPEN") = "open" /\ Lower("CANCELLED") = "cancelled"
      /\ Lower("REJECTED") = "rejected" /\ Lower("FAILED") = "failed"
      /\ Lower("FILLED") = "filled"
  BY <1>1 DEF Lower, LowerCase
<1>3. s \notin DOMAIN LowerCase => Lower(s) = s
  BY DEF Lower
<1>4. CASE s \in DOMAIN LowerCase
  BY <1>1, <1>2, <1>4 DEF Renormalised, ANGEL_STATUS_MAP, ExecStatuses
<1>5. CASE s \notin DOMAIN LowerCase
  BY <1>1, <1>3, <1>5 DEF Renormalised, ANGEL_STATUS_MAP, ExecStatuses
<1> QED BY <1>4, <1>5

LEMMA StandardizedType ==
  ASSUME NEW kind, NEW s \in ExecStatuses
  PROVE  Standardized(kind, s) \in ExecStatuses
  BY DEF Standardized, ExecStatuses

================================================================================
