------------------------------ MODULE BrokerCalls ------------------------------
(***************************************************************************)
(* A call to a broker as BrokerManager makes it: paced by the token bucket of  *)
(* the broker, and repeated with growing delays when it raises               *)
(* (rate_limiter.py, async_retry.py, broker_manager.py and place_order of the  *)
(* brokers' wrappers).  Calls run at the same time, and those of one kind      *)
(* share one RetryConfig, which each of them changes before it begins.  Each   *)
(* BrokerManager of the process configures the limiter once, and drops the    *)
(* buckets that were there for full ones.                                   *)
(*                                                                         *)
(* A tick is the time a bucket needs for one token.                          *)
(***************************************************************************)
EXTENDS Integers, FiniteSets

CONSTANTS CalledBrokers,
          Calls,        \* the calls under way
          Kind,         \* "place", "exit" or "fetch"
          Target,       \* the broker each is for
          Managers,     \* the BrokerManagers of the process
          ManagerOf,    \* the one each is made by
          Burst,        \* tokens of a full bucket
          LastTime,     \* bound: the time
          MaxAttempts,
          Resubmits     \* brokers whose wrapper places an order again after an empty answer

CallConstants ==
  /\ Kind \in [Calls -> {"place", "exit", "fetch"}]
  /\ Target \in [Calls -> CalledBrokers]
  /\ "none" \notin Managers /\ ManagerOf \in [Calls -> Managers]
  /\ Burst \in Nat /\ LastTime \in Nat /\ MaxAttempts \in Nat \ {0}
  /\ Resubmits \subseteq CalledBrokers

VARIABLES now,      \* the time
          tokens,   \* per bucket: of a broker, since a manager came
          newest,   \* the manager that configured the limiter last
          came,     \* those that have
          config,   \* rate_limit_broker of each shared RetryConfig
          call,     \* where each call is
          taken,    \* the orders the broker has from each call
          made      \* the attempts: when, and from which bucket

callVars == <<now, tokens, newest, came, config, call, taken, made>>

Times == 0..LastTime

\* get_retry_config: orders are placed, exited and cancelled with one object, what is
\* fetched with another.
ConfigOf(c) == IF Kind[c] = "fetch" THEN "default" ELSE "order_critical"

CallAt(c, pc) == call[c].pc = pc
CallGoes(c, pc) == call' = [call EXCEPT ![c].pc = pc]

--------------------------------------------------------------------------------
\* _ensure_rate_limiter: the first time, the limiters of all brokers are dropped, and the
\* next that are asked for are full.
Ensured(m) ==
  IF m \in came THEN UNCHANGED <<newest, came>>
  ELSE newest' = m /\ came' = came \union {m}

\* Exits and fetches read the database before they go on; place_order does not.
EnsureLimiter(c) ==
  /\ CallAt(c, "new") /\ Kind[c] # "place"
  /\ Ensured(ManagerOf[c])
  /\ CallGoes(c, "ensured")
  /\ UNCHANGED <<now, tokens, config, taken, made>>

\* The shared object is changed, and get_limiter finds the bucket.
BeginCall(c) ==
  /\ \/ CallAt(c, "new") /\ Kind[c] = "place" /\ Ensured(ManagerOf[c])
     \/ CallAt(c, "ensured") /\ UNCHANGED <<newest, came>>
  /\ config' = [config EXCEPT ![ConfigOf(c)] = Target[c]]
  /\ call' = [call EXCEPT ![c] = [pc |-> "pay", bucket |-> Target[c], since |-> newest', attempts |-> 0, delay |-> 1,
                                  wake |-> now]]
  /\ UNCHANGED <<now, tokens, taken, made>>

Bucket(c) == <<call[c].bucket, call[c].since>>

\* acquire_with_wait: without a token the call sleeps until there should be one, and
\* looks again, at the same bucket though it has been dropped.
Pay(c) ==
  /\ CallAt(c, "pay") /\ tokens[Bucket(c)] >= 1
  /\ tokens' = [tokens EXCEPT ![Bucket(c)] = @ - 1]
  /\ made' = made \union {[call |-> c, attempt |-> call[c].attempts, at |-> now, bucket |-> call[c].bucket,
                           since |-> call[c].since]}
  /\ CallGoes(c, "called")
  /\ UNCHANGED <<now, newest, came, config, taken>>

\* _refill.
RefillUncapped ==
  /\ now < LastTime
  /\ now' = now + 1
  /\ tokens' = [k \in CalledBrokers \X Managers |-> tokens[k] + 1]
  /\ UNCHANGED <<newest, came, config, call, taken, made>>

Refill ==
  /\ now < LastTime
  /\ now' = now + 1
  /\ tokens' = [k \in CalledBrokers \X Managers |-> IF tokens[k] < Burst THEN tokens[k] + 1 ELSE Burst]
  /\ UNCHANGED <<newest, came, config, call, taken, made>>

--------------------------------------------------------------------------------
Answered(c, orders) ==
  /\ taken' = [taken EXCEPT ![c] = @ + orders]
  /\ CallGoes(c, "done")
  /\ UNCHANGED <<now, tokens, newest, came, config, made>>

\* What the broker was asked to do is done; or was refused.
Succeeds(c) ==
  /\ CallAt(c, "called")
  /\ \E orders \in (IF Kind[c] = "place" THEN {0, 1} ELSE {0}) : Answered(c, orders)

\* The order is taken, and the answer lost: the wrapper catches the exception and says
\* FAILED; or the id of the broker cannot be read.  The call is not repeated.
CallAnswerLost(c) ==
  /\ CallAt(c, "called") /\ Kind[c] = "place"
  /\ Answered(c, 1)

\* An empty answer is taken for an invalid token: after a login the order is placed
\* again, whatever became of the first.
PlacedAgain(c) ==
  /\ CallAt(c, "called") /\ Kind[c] = "place" /\ Target[c] \in Resubmits
  /\ \E first, second \in {0, 1} : Answered(c, first + second)

\* The next attempt reads the shared object again, and asks for the bucket again.
Repeat(c) ==
  /\ LET tried == call[c].attempts + 1 IN
     call' = [call EXCEPT ![c] =
       IF tried = MaxAttempts THEN [call[c] EXCEPT !.pc = "raised", !.attempts = tried]
       ELSE [call[c] EXCEPT !.pc = "delayed", !.attempts = tried,
                            !.wake = now + call[c].delay, !.delay = 2 * call[c].delay]]
  /\ UNCHANGED <<now, tokens, newest, came, config, made>>

\* A mutant: the wrapper lets the exception pass.
RaisesAfter(c) ==
  /\ CallAt(c, "called")
  /\ \E orders \in {0, 1} : taken' = [taken EXCEPT ![c] = @ + orders]
  /\ Repeat(c)

\* It raises, with nothing done: for orders that is before anything was sent.
Raises(c) ==
  /\ CallAt(c, "called")
  /\ Repeat(c)
  /\ UNCHANGED taken

TryAgain(c) ==
  /\ CallAt(c, "delayed") /\ now >= call[c].wake
  /\ call' = [call EXCEPT ![c].pc = "pay", ![c].bucket = config[ConfigOf(c)], ![c].since = newest]
  /\ UNCHANGED <<now, tokens, newest, came, config, taken, made>>

--------------------------------------------------------------------------------
CallInit ==
  /\ now = 0
  /\ tokens = [k \in CalledBrokers \X Managers |-> Burst]
  /\ newest = "none" /\ came = {}
  /\ config = [k \in {"default", "order_critical"} |-> "none"]
  /\ call = [c \in Calls |-> [pc |-> "new", bucket |-> "none", since |-> "none", attempts |-> 0, delay |-> 1, wake |-> 0]]
  /\ taken = [c \in Calls |-> 0]
  /\ made = {}

CallNext ==
  \/ Refill
  \/ \E c \in Calls :
       \/ EnsureLimiter(c) \/ BeginCall(c) \/ Pay(c)
       \/ Succeeds(c) \/ CallAnswerLost(c) \/ PlacedAgain(c) \/ Raises(c) \/ TryAgain(c)

CallSpec == CallInit /\ [][CallNext]_callVars

--------------------------------------------------------------------------------
Charged(b, from, to) == {m \in made : Target[m.call] = b /\ m.bucket = b /\ m.at \in from..to}

Buckets(attempts) == {m.since : m \in attempts}

\* In any stretch of time a broker gets no more calls than the buckets they were charged
\* to held and were given, retries included; but for the retries of calls that another
\* call has charged to another broker.  A broker has one bucket, and another for each
\* BrokerManager that comes to use the limiter (broker_manager.py:106).
BrokersPaced ==
  \A b \in CalledBrokers : \A from, to \in Times : from <= to =>
    LET charged == Charged(b, from, to) IN
    Cardinality(charged) <= Cardinality(Buckets(charged)) * (Burst + (to - from))

\* An order is placed once, however its call is repeated, unless the wrapper itself
\* places it again.
OrdersPlacedOnce ==
  \A c \in Calls : Kind[c] = "place" /\ Target[c] \notin Resubmits => taken[c] <= 1

================================================================================
