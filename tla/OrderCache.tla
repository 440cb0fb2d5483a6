------------------------------- MODULE OrderCache ------------------------------
(***************************************************************************)
(* The cache of the brokers' orders that the monitors read: per broker a task *)
(* that refreshes it under a lock, and an event that is set and cleared when  *)
(* a refresh is over (order_cache.py).  Brokers are independent of each other; *)
(* this is one of them.                                                     *)
(***************************************************************************)
EXTENDS Integers

CONSTANTS Readers,     \* calls of get_orders under way
          MaxVersion   \* bound: how often the orders at the broker change

OrderCacheConstants == MaxVersion \in Nat

VARIABLES orders,     \* the orders at the broker, by version
          started,    \* the broker has its lock, its event and its task
          refresh,    \* where the task is; the answer it has
          locked,     \* the lock
          latest,     \* _cache: a version; -1 before the first refresh
          reader      \* where each call is, what it may expect, what it returns

cacheVars == <<orders, started, refresh, locked, latest, reader>>

Quiet == [pc |-> "idle", since |-> 0, answer |-> 0]

--------------------------------------------------------------------------------
\* start: a lock and an event are made once, and a task.  That it is called again
\* when the market opens changes nothing.
Start ==
  /\ ~started
  /\ started' = TRUE
  /\ refresh' = [refresh EXCEPT !.pc = "top"]
  /\ UNCHANGED <<orders, locked, latest, reader>>

\* The refreshing task takes the lock and asks the broker.
Lock ==
  /\ refresh.pc = "top" /\ ~locked
  /\ locked' = TRUE
  /\ refresh' = [refresh EXCEPT !.pc = "fetch"]
  /\ UNCHANGED <<orders, started, latest, reader>>

Fetch ==
  /\ refresh.pc = "fetch"
  /\ refresh' = [pc |-> "store", got |-> orders]
  /\ UNCHANGED <<orders, started, locked, latest, reader>>

\* A broker that is down has no orders: the exception is caught where the brokers
\* are asked, and the list is empty.
FetchEmpty ==
  /\ refresh.pc = "fetch"
  /\ refresh' = [pc |-> "store", got |-> -1]
  /\ UNCHANGED <<orders, started, locked, latest, reader>>

\* The waiting readers: event.set() makes each of them go on when its turn comes,
\* and event.clear() does not take that back.
Woken(excuse) ==
  [r \in Readers |-> [reader[r] EXCEPT !.pc = IF @ = "wait" THEN "look" ELSE @,
                                       !.since = IF excuse THEN 0 ELSE @]]

Release ==
  /\ locked' = FALSE
  /\ refresh' = [refresh EXCEPT !.pc = "sleep"]

\* A mutant: nobody is woken when the brokers could not be asked.
FailsQuietly ==
  /\ refresh.pc = "fetch"
  /\ locked' = FALSE
  /\ refresh' = [refresh EXCEPT !.pc = "sleep"]
  /\ reader' = [r \in Readers |-> [reader[r] EXCEPT !.since = 0]]
  /\ UNCHANGED <<orders, started, latest>>

Store ==
  /\ refresh.pc = "store"
  /\ latest' = refresh.got
  /\ Release /\ reader' = Woken(FALSE)
  /\ UNCHANGED <<orders, started>>

\* An exception leaves the cache as it is.
Fails ==
  /\ refresh.pc = "fetch"
  /\ Release /\ reader' = Woken(TRUE)
  /\ UNCHANGED <<orders, started, latest>>

\* After refresh_interval the task goes on; readers that were woken have had their
\* turn long before.
Sleep ==
  /\ refresh.pc = "sleep"
  /\ \A r \in Readers : reader[r].pc # "look"
  /\ refresh' = [refresh EXCEPT !.pc = "top"]
  /\ UNCHANGED <<orders, started, locked, latest, reader>>

--------------------------------------------------------------------------------
\* While a refresh has yet to fetch, what it will fetch can be expected.
\* get_orders raises before the cache is started; the order is not found.
BeginRead(r) ==
  /\ reader[r].pc = "idle" /\ started
  /\ reader' = [reader EXCEPT ![r] = [pc |-> "look", since |-> IF refresh.pc = "fetch" THEN orders ELSE 0, answer |-> 0]]
  /\ UNCHANGED <<orders, started, refresh, locked, latest>>

\* A mutant: the old list will do.
LookAnyway(r) ==
  /\ reader[r].pc = "look"
  /\ reader' = [reader EXCEPT ![r].pc = "done", ![r].answer = latest]
  /\ UNCHANGED <<orders, started, refresh, locked, latest>>

\* It waits while there is an update, however often.
Look(r) ==
  /\ reader[r].pc = "look"
  /\ reader' = IF locked THEN [reader EXCEPT ![r].pc = "wait"]
               ELSE [reader EXCEPT ![r].pc = "done", ![r].answer = latest]
  /\ UNCHANGED <<orders, started, refresh, locked, latest>>

\* The monitor takes its answer, and comes back.
ReturnRead(r) ==
  /\ reader[r].pc = "done"
  /\ reader' = [reader EXCEPT ![r] = Quiet]
  /\ UNCHANGED <<orders, started, refresh, locked, latest>>

\* Orders change at the broker.
Trade ==
  /\ orders < MaxVersion
  /\ orders' = orders + 1
  /\ UNCHANGED <<started, refresh, locked, latest, reader>>

--------------------------------------------------------------------------------
OrderCacheInit ==
  /\ orders = 0 /\ started = FALSE /\ locked = FALSE /\ latest = -1
  /\ refresh = [pc |-> "none", got |-> -1]
  /\ reader = [r \in Readers |-> Quiet]

OrderCacheNext ==
  \/ Start \/ Lock \/ Fetch \/ FetchEmpty \/ Store \/ Fails \/ Sleep \/ Trade
  \/ \E r \in Readers : BeginRead(r) \/ Look(r) \/ ReturnRead(r)

\* The task goes on; a reader that can go on does.
OrderCacheFairness ==
  /\ WF_cacheVars(Lock \/ Sleep)
  /\ WF_cacheVars(Fetch \/ FetchEmpty \/ Fails)
  /\ WF_cacheVars(Store)
  /\ \A r \in Readers : WF_cacheVars(Look(r))

OrderCacheSpec == OrderCacheInit /\ [][OrderCacheNext]_cacheVars /\ OrderCacheFairness

--------------------------------------------------------------------------------
\* A call that came while the orders were being fetched returns what was fetched, or
\* what was fetched later, unless fetching failed.  A monitor that did not wait would
\* act on a status from before.
FreshAfterWait ==
  \A r \in Readers : reader[r].pc = "done" => reader[r].answer >= reader[r].since \/ reader[r].answer = -1

\* No call waits for ever, although the event is cleared as soon as it is set.
ReadersReturn == \A r \in Readers : reader[r].pc = "wait" ~> reader[r].pc = "done"

================================================================================
