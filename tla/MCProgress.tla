------------------------------- MODULE MCProgress ------------------------------
(***************************************************************************)
(* What must come to an end, in small instances side by side; `part` says      *)
(* which of them a behaviour is of, and never changes:                       *)
(*   cache     two readers of the OrderCache;                               *)
(*   sessions  the broker monitor, the trading process and requests to log in   *)
(*             anew, with one broker (BrokerSessions);                       *)
(*   order     an order at Fyers whose hedge was rejected, with a broker that   *)
(*             may fail and prices that exit it, until it is over             *)
(*             (OrderMonitor).                                             *)
(***************************************************************************)
EXTENDS OrderCache, OrderMonitor, TLC

CONSTANTS main, hedge,
          Polls, MaxCrashes

VARIABLES part,
          connected, proc, crashes     \* of the part sessions

Processes == {"monitor", "trading", "request"}
Scheduled == {"monitor"}
OnRequest == {"request"}

Sessions == INSTANCE BrokerSessions WITH status <- connected

OrderAndHedge == {main, hedge}
HedgeOfMain   == main :> NoOrder @@ hedge :> main

ASSUME /\ OrderCacheConstants /\ Sessions!SessionConstants
       /\ OrderMonitorConstants

--------------------------------------------------------------------------------
sessionVars == <<connected, proc, crashes>>

vars == <<part, cacheVars, sessionVars, monitorVars>>

\* A part that is not looked at is at rest, and nothing is due in it: the cache is not
\* started, there is no process, and no order has a monitor.
AtRest ==
  /\ connected = "CONNECTED" /\ crashes = 0
  /\ proc = [p \in Processes |-> [Sessions!Gone EXCEPT !.pc = "not there"]]

MCInit ==
  /\ part \in {"cache", "sessions", "order"}
  /\ OrderCacheInit
  /\ IF part = "sessions" THEN Sessions!SessionInit ELSE AtRest
  /\ Placed(IF part = "order" THEN {hedge} ELSE OrderAndHedge)

\* A step of a part, and the others at rest.
InCache(A)    == part = "cache" /\ A /\ UNCHANGED <<part, sessionVars, monitorVars>>
InSessions(A) == part = "sessions" /\ A /\ UNCHANGED <<part, cacheVars, monitorVars>>
InOrder(A)    == part = "order" /\ A /\ UNCHANGED <<part, cacheVars, sessionVars>>

\* The steps are spelled out, so that each of them is seen to happen.
CacheNext ==
  \/ InCache(Start)
  \/ InCache(Lock)
  \/ InCache(Fetch)
  \/ InCache(FetchEmpty)
  \/ InCache(Store)
  \/ InCache(Fails)
  \/ InCache(Sleep)
  \/ InCache(Trade)
  \/ \E r \in Readers :
       \/ InCache(BeginRead(r))
       \/ InCache(Look(r))
       \/ InCache(ReturnRead(r))

SessionsNext ==
  \E p \in Processes :
       \/ InSessions(Sessions!Setup(p))
       \/ InSessions(Sessions!Look(p))
       \/ InSessions(Sessions!GiveUp(p))
       \/ InSessions(Sessions!LookAtToken(p))
       \/ InSessions(Sessions!Begin(p))
       \/ InSessions(Sessions!ReadRow(p))
       \/ InSessions(Sessions!Reuse(p))
       \/ InSessions(Sessions!StoreToken(p))
       \/ InSessions(Sessions!NotLoggedIn(p))
       \/ InSessions(Sessions!Finish(p))
       \/ InSessions(Sessions!Reauthenticate(p))
       \/ InSessions(Sessions!Crash(p))

MCNext == CacheNext \/ SessionsNext \/ InOrder(Next)

MCSpec ==
  /\ MCInit /\ [][MCNext]_vars
  /\ OrderCacheFairness /\ Sessions!SessionFairness
  /\ \A o \in OrderAndHedge : WF_monitorVars(PriceStep(o)) /\ WF_monitorVars(SignalStep(o))

--------------------------------------------------------------------------------
\* No authentication is left unfinished for ever, and every setup ends, whoever crashes and
\* writes over what (BrokerSessions!AuthenticationSettles, SetupEnds; broker_manager.py:207).
SessionsSettle == Sessions!AuthenticationSettles /\ Sessions!SetupEnds

================================================================================
