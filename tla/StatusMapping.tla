----------------------------- MODULE StatusMapping -----------------------------
(***************************************************************************)
(* How the state of an order at a broker reaches the database: the raw     *)
(* status a broker reports, the tables OrderManager normalises it with,    *)
(* the second table OrderMonitor applies to what it reads from the order   *)
(* cache, and the status of the logical order derived from all of them.    *)
(*                                                                         *)
(* Everything here is a constant-level operator; the modules that hold     *)
(* state EXTEND it.                                                        *)
(***************************************************************************)
EXTENDS Integers, Sequences, FiniteSets

\* The brokers the normalisation tables know.
Kinds == {"fyers", "zerodha", "angel"}

\* What an entry order really is at the exchange: a stop order that has not
\* been triggered, a limit order in the book, partly executed, and so on.
Truths == {"TRIGGER", "RESTING", "PARTIAL", "FILLED", "CANCELLED", "REJECTED"}

\* Nothing changes such an order any more.
DoneTruths == {"FILLED", "CANCELLED", "REJECTED"}

\* The broker accepts a cancel request for such an order.
Cancellable == Truths \ DoneTruths

\* The raw status in each broker's order book.  Fyers and Zerodha have no raw
\* status for a partial fill.
Raw ==
  [fyers   |-> [TRIGGER   |-> "6", RESTING   |-> "6",
                PARTIAL   |-> "6", FILLED    |-> "2",
                CANCELLED |-> "1", REJECTED  |-> "5"],
   zerodha |-> [TRIGGER   |-> "TRIGGER PENDING", RESTING   |-> "OPEN",
                PARTIAL   |-> "OPEN",            FILLED    |-> "COMPLETE",
                CANCELLED |-> "CANCELLED",       REJECTED  |-> "REJECTED"],
   angel   |-> [TRIGGER   |-> "trigger pending",  RESTING   |-> "open",
                PARTIAL   |-> "partially filled", FILLED    |-> "complete",
                CANCELLED |-> "cancelled",        REJECTED  |-> "rejected"]]

(***************************************************************************)
(* OrderManager's tables.  A raw status a table does not know is passed    *)
(* through unchanged.                                                      *)
(***************************************************************************)
FYERS_STATUS_MAP(raw) ==
  IF raw = "1" THEN "CANCELLED"
  ELSE IF raw = "2" THEN "FILLED"
  ELSE IF raw \in {"3", "4", "6"} THEN "PENDING"
  ELSE IF raw = "5" THEN "REJECTED"
  ELSE raw

ZERODHA_STATUS_MAP(raw) ==
  IF raw \in {"PUT ORDER REQ RECEIVED", "AMO REQ RECEIVED"} THEN "AWAITING_ENTRY"
  ELSE IF raw \in {"VALIDATION PENDING", "OPEN PENDING", "MODIFY PENDING",
                   "MODIFY VALIDATION PENDING", "CANCEL PENDING"} THEN "PENDING"
  ELSE IF raw = "TRIGGER PENDING" THEN "TRIGGER_PENDING"
  ELSE IF raw = "COMPLETE" THEN "FILLED"
  ELSE raw

\* Variant: a partly filled order counts as filled.
ANGEL_PARTIAL_AS_FILLED(raw) ==
  IF raw \in {"open", "trigger pending", "modify pending"} THEN "AWAITING_ENTRY"
  ELSE IF raw = "partially filled" THEN "FILLED"
  ELSE IF raw = "cancelled" THEN "CANCELLED"
  ELSE IF raw = "rejected" THEN "REJECTED"
  ELSE raw

\* The second definition of the name in order_manager.py; it replaces the one
\* at lines 64-74, which maps "complete" to FILLED.
ANGEL_STATUS_MAP(raw) ==
  IF raw \in {"open", "trigger pending", "modify pending"} THEN "AWAITING_ENTRY"
  ELSE IF raw \in {"completed", "complete"} THEN "OPEN"
  ELSE IF raw \in {"cancelled", "expired"} THEN "CANCELLED"
  ELSE IF raw = "rejected" THEN "REJECTED"
  ELSE IF raw = "failed" THEN "FAILED"
  ELSE IF raw = "partially filled" THEN "PARTIALLY_FILLED"
  ELSE IF raw = "filled" THEN "FILLED"
  ELSE raw

\* get_all_broker_order_details: the status of an order in the normalised list.
Normalised(kind, raw) ==
  IF kind = "fyers" THEN FYERS_STATUS_MAP(raw)
  ELSE IF kind = "zerodha" THEN ZERODHA_STATUS_MAP(raw)
  ELSE ANGEL_STATUS_MAP(raw)

\* The values of broker_executions.status.  (UNKNOWN: the broker said nothing.)
ExecStatuses ==
  {"AWAITING_ENTRY", "PENDING", "TRIGGER_PENDING", "OPEN", "PARTIALLY_FILLED",
   "FILLED", "CANCELLED", "REJECTED", "FAILED", "CLOSED", "UNKNOWN"}

\* The values of orders.status this development tells apart.
OrderStatuses ==
  {"AWAITING_ENTRY", "OPEN", "CLOSED", "FILLED", "CANCELLED", "REJECTED", "FAILED",
   "EXIT_MANUAL_PENDING"}

\* The status the program is given for an order in state `truth`.
View(kind, truth) == Normalised(kind, Raw[kind][truth])

\* status.lower() for the statuses that change meaning when Angel's table,
\* whose keys are lower case, is applied to an already normalised status.
LowerCase == [OPEN |-> "open", CANCELLED |-> "cancelled", REJECTED |-> "rejected",
              FAILED |-> "failed", FILLED |-> "filled"]

Lower(status) == IF status \in DOMAIN LowerCase THEN LowerCase[status] ELSE status

\* What _price_order_monitor makes of a status it finds in the order cache:
\* for Angel the table is applied a second time.
Renormalised(kind, status) ==
  IF kind = "angel" THEN ANGEL_STATUS_MAP(Lower(status)) ELSE status

\* The status the price monitor writes to the ENTRY row of an order.
Synced(kind, truth) == Renormalised(kind, View(kind, truth))

\* standardize_order_status: the status of an execution in the aggregate that
\* the price monitor reads.  For Fyers and Zerodha what it does not know is
\* PENDING; a partial execution is only known of Fyers.
Standardized(kind, status) ==
  IF \/ kind = "angel"
     \/ status \in {"FILLED", "REJECTED", "CANCELLED"}
     \/ kind = "fyers" /\ status = "PARTIALLY_FILLED"
  THEN status ELSE "PENDING"

(***************************************************************************)
(* The status of the logical order, from the statuses of its entry orders: *)
(* the decision of _price_order_monitor when no exit is under way.         *)
(* "NONE": no rule applies and the order keeps its status.                 *)
(***************************************************************************)
MainStatus(statuses) ==
  IF statuses \cap {"FILLED", "PARTIALLY_FILLED", "OPEN"} # {} THEN "OPEN"
  ELSE IF statuses = {"PENDING"}   THEN "AWAITING_ENTRY"
  ELSE IF statuses = {"CANCELLED"} THEN "CANCELLED"
  ELSE IF statuses = {"REJECTED"}  THEN "REJECTED"
  ELSE IF statuses = {"FAILED"}    THEN "FAILED"
  ELSE IF statuses = {"REJECTED", "FAILED"} THEN "CANCELLED"
  ELSE "NONE"

\* Statuses the rules above end a logical order with.
DeadStatuses == {"CANCELLED", "REJECTED", "FAILED"}

================================================================================
