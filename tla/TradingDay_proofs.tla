--------------------------- MODULE TradingDay_proofs ---------------------------
(***************************************************************************)
(* Proofs about what a trading day consists of: BrokerCalls, OrderCache,   *)
(* StrikeCache, ExitAll, PlaceOrder, OptionTrade and SwingEntry, one after the  *)
(* other, for any brokers, calls, slices, configurations, orders, prices,  *)
(* readers, rows and trades.                                               *)
(***************************************************************************)
EXTENDS BrokerCalls, PlaceOrder, StrikeCache, ExitAll, OptionTrade, OrderCache, SwingEntry,
        WellFoundedInduction, NaturalsInduction, FiniteSetTheorems, TLAPS

--------------------------------------------------------------------------------
(***************************************************************************)
(* BrokerCalls.                                                            *)
(***************************************************************************)
Pcs == {"new", "ensured", "pay", "called", "delayed", "done", "raised"}

Entries == [pc : Pcs, bucket : CalledBrokers \union {"none"}, since : Managers \union {"none"}, attempts : Nat,
            delay : Nat, wake : Nat]

CallTypeOK ==
  /\ now \in Nat
  /\ tokens \in [CalledBrokers \X Managers -> Int]
  /\ newest \in Managers \union {"none"} /\ came \subseteq Managers
  /\ config \in [{"default", "order_critical"} -> CalledBrokers \union {"none"}]
  /\ call \in [Calls -> Entries]
  /\ taken \in [Calls -> Nat]

\* Whoever calls has a BrokerManager that came, and pays for a bucket of one.
CameInv ==
  /\ came # {} => newest \in Managers
  /\ \A c \in Calls : /\ call[c].pc = "ensured" => ManagerOf[c] \in came
                      /\ call[c].pc \in {"pay", "called", "delayed"} => ManagerOf[c] \in came /\ call[c].since \in Managers

\* Attempts are finitely many, and not in the future.
MadeInv == IsFiniteSet(made) /\ \A m \in made : m.at \in 0..now /\ m.since \in Managers

(***************************************************************************)
(* The inductive invariants.  The calls of any stretch that ends now that were *)
(* charged to one bucket, with the tokens that are left in it, are no more than  *)
(* the bucket held and was given; those of earlier stretches stay what they were.*)
(* A call that has not ended has placed nothing.                            *)
(***************************************************************************)
ChargedTo(b, w, from, to) == {m \in Charged(b, from, to) : m.since = w}
Calls_(b, w, from, to) == Cardinality(ChargedTo(b, w, from, to))

PaceInv ==
  \A b \in CalledBrokers, w \in Managers :
    /\ tokens[<<b, w>>] \in 0..Burst
    /\ \A from \in 0..now : Calls_(b, w, from, now) + tokens[<<b, w>>] <= Burst + (now - from)
    /\ \A from, to \in 0..now : from <= to => Calls_(b, w, from, to) <= Burst + (to - from)

OnceInv ==
  \A c \in Calls :
    /\ call[c].pc # "done" => taken[c] = 0
    /\ Kind[c] = "place" /\ Target[c] \notin Resubmits => taken[c] <= 1

--------------------------------------------------------------------------------
LEMMA CallTypeInit == CallConstants /\ CallInit => CallTypeOK /\ MadeInv
<1> SUFFICES ASSUME CallConstants, CallInit PROVE CallTypeOK /\ MadeInv OBVIOUS
<1>1. MadeInv
  BY FS_EmptySet DEF CallInit, MadeInv
<1>2. call \in [Calls -> Entries]
  BY DEF CallInit, Entries, Pcs
<1> QED BY <1>1, <1>2 DEF CallInit, CallTypeOK, CallConstants

\* A call whose entry changes.
LEMMA CallTypeOne ==
  ASSUME CallTypeOK, NEW c \in Calls, NEW e \in Entries, call' = [call EXCEPT ![c] = e],
         now' = now, tokens' \in [CalledBrokers \X Managers -> Int], taken' \in [Calls -> Nat],
         newest' \in Managers \union {"none"}, came' \subseteq Managers,
         config' \in [{"default", "order_critical"} -> CalledBrokers \union {"none"}]
  PROVE  CallTypeOK'
  BY DEF CallTypeOK

LEMMA EnsuredTypes ==
  ASSUME CallConstants, CallTypeOK, NEW c \in Calls, Ensured(ManagerOf[c])
  PROVE  /\ newest' \in Managers \union {"none"} /\ came \subseteq came' /\ came' \subseteq Managers
         /\ ManagerOf[c] \in came' /\ newest' \in {newest, ManagerOf[c]}
         /\ (came # {} => newest \in Managers) => newest' \in Managers
  BY DEF Ensured, CallConstants, CallTypeOK

LEMMA CallTypeNext == CallConstants /\ CallTypeOK /\ [CallNext]_callVars => CallTypeOK'
<1> SUFFICES ASSUME CallConstants, CallTypeOK, [CallNext]_callVars PROVE CallTypeOK' OBVIOUS
<1>1. CASE Refill
  <2>1. Burst \in Nat /\ now' = now + 1 /\ UNCHANGED <<newest, came, config, call, taken>>
    BY <1>1 DEF Refill, CallConstants
  <2>2. tokens' \in [CalledBrokers \X Managers -> Int]
    BY <1>1, <2>1 DEF Refill, CallTypeOK
  <2> QED BY <2>1, <2>2 DEF CallTypeOK
<1>2. ASSUME NEW c \in Calls, BeginCall(c) PROVE CallTypeOK'
  <2> DEFINE e == [pc |-> "pay", bucket |-> Target[c], since |-> newest', attempts |-> 0, delay |-> 1, wake |-> now]
  <2>1. Target[c] \in CalledBrokers
    BY DEF CallConstants
  <2>2. newest' \in Managers \union {"none"} /\ came' \subseteq Managers
    BY <1>2, EnsuredTypes DEF BeginCall, CallTypeOK
  <2>3. e \in Entries
    BY <2>1, <2>2 DEF Entries, Pcs, CallTypeOK
  <2>4. config' \in [{"default", "order_critical"} -> CalledBrokers \union {"none"}]
    BY <1>2, <2>1 DEF BeginCall, ConfigOf, CallTypeOK
  <2>5. call' = [call EXCEPT ![c] = e] /\ UNCHANGED <<now, tokens, taken>>
    BY <1>2 DEF BeginCall
  <2> QED BY <2>2, <2>3, <2>4, <2>5, CallTypeOne DEF CallTypeOK
<1>3. ASSUME NEW c \in Calls, NEW pc \in Pcs, CallGoes(c, pc), now' = now, config' = config,
             tokens' \in [CalledBrokers \X Managers -> Int], taken' \in [Calls -> Nat],
             newest' \in Managers \union {"none"}, came' \subseteq Managers
      PROVE  CallTypeOK'
  <2>1. call' \in [Calls -> Entries]
    BY <1>3 DEF CallGoes, CallTypeOK, Entries
  <2> QED BY <1>3, <2>1 DEF CallTypeOK
<1>4. ASSUME NEW c \in Calls, Pay(c) PROVE CallTypeOK'
  <2>1. tokens' \in [CalledBrokers \X Managers -> Int]
    <3>1. tokens \in [CalledBrokers \X Managers -> Int]
      BY DEF CallTypeOK
    <3>2. tokens' = [tokens EXCEPT ![Bucket(c)] = tokens[Bucket(c)] - 1]
      BY <1>4 DEF Pay
    <3>3. \A k \in CalledBrokers \X Managers : tokens'[k] \in Int
      BY <3>1, <3>2
    <3> QED BY <3>1, <3>2, <3>3
  <2>2. "called" \in Pcs
    BY DEF Pcs
  <2>3. /\ CallGoes(c, "called") /\ now' = now /\ config' = config /\ taken' \in [Calls -> Nat]
        /\ newest' \in Managers \union {"none"} /\ came' \subseteq Managers
    BY <1>4 DEF Pay, CallTypeOK
  <2> QED BY <1>3, <2>1, <2>2, <2>3
<1>5. ASSUME NEW c \in Calls, NEW n \in Nat, Answered(c, n) PROVE CallTypeOK'
  <2>1. taken' \in [Calls -> Nat]
    BY <1>5 DEF Answered, CallTypeOK
  <2>2. "done" \in Pcs
    BY DEF Pcs
  <2>3. /\ CallGoes(c, "done") /\ now' = now /\ config' = config /\ tokens' \in [CalledBrokers \X Managers -> Int]
        /\ newest' \in Managers \union {"none"} /\ came' \subseteq Managers
    BY <1>5 DEF Answered, CallTypeOK
  <2> QED BY <1>3, <2>1, <2>2, <2>3
<1>6. ASSUME NEW c \in Calls, Succeeds(c) \/ CallAnswerLost(c) \/ PlacedAgain(c) PROVE CallTypeOK'
  BY <1>5, <1>6 DEF Succeeds, CallAnswerLost, PlacedAgain
<1>7. ASSUME NEW c \in Calls, Raises(c) PROVE CallTypeOK'
  <2>1. call[c] \in Entries /\ now \in Nat
    BY DEF CallTypeOK
  <2>2. \A n \in Nat : [call[c] EXCEPT !.pc = "raised", !.attempts = n] \in Entries
    BY <2>1 DEF Entries, Pcs
  <2>3. \A n, w, d \in Nat :
          [call[c] EXCEPT !.pc = "delayed", !.attempts = n, !.wake = w, !.delay = d] \in Entries
    BY <2>1 DEF Entries, Pcs
  <2>4. call[c].attempts + 1 \in Nat /\ now + call[c].delay \in Nat /\ 2 * call[c].delay \in Nat
    BY <2>1 DEF Entries
  <2>5. MaxAttempts \in Nat
    BY DEF CallConstants
  <2>6. UNCHANGED <<now, tokens, newest, came, config, taken>>
    BY <1>7 DEF Raises, Repeat
  <2>7. \E e \in Entries : call' = [call EXCEPT ![c] = e]
    <3>1. CASE call[c].attempts + 1 = MaxAttempts
      BY <1>7, <2>2, <2>5, <3>1 DEF Raises, Repeat
    <3>2. CASE call[c].attempts + 1 # MaxAttempts
      <4> DEFINE e == [call[c] EXCEPT !.pc = "delayed", !.attempts = call[c].attempts + 1,
                                      !.wake = now + call[c].delay, !.delay = 2 * call[c].delay]
      <4>1. call' = [call EXCEPT ![c] =
              IF call[c].attempts + 1 = MaxAttempts
              THEN [call[c] EXCEPT !.pc = "raised", !.attempts = call[c].attempts + 1] ELSE e]
        BY <1>7, Zenon DEF Raises, Repeat
      <4>2. e \in Entries
        BY <2>3, <2>4
      <4> HIDE DEF e
      <4> QED BY <3>2, <4>1, <4>2
    <3> QED BY <3>1, <3>2
  <2> QED BY <2>6, <2>7, CallTypeOne DEF CallTypeOK
<1>8. ASSUME NEW c \in Calls, TryAgain(c) PROVE CallTypeOK'
  <2>1. call[c] \in Entries /\ config[ConfigOf(c)] \in CalledBrokers \union {"none"} /\ newest \in Managers \union {"none"}
    BY DEF CallTypeOK, ConfigOf
  <2>2. [call[c] EXCEPT !.pc = "pay", !.bucket = config[ConfigOf(c)], !.since = newest] \in Entries
    BY <2>1 DEF Entries, Pcs
  <2>3. call' = [call EXCEPT ![c] = [call[c] EXCEPT !.pc = "pay", !.bucket = config[ConfigOf(c)], !.since = newest]]
    BY <1>8 DEF TryAgain, CallTypeOK
  <2>4. UNCHANGED <<now, tokens, newest, came, config, taken>>
    BY <1>8 DEF TryAgain
  <2> QED BY <2>2, <2>3, <2>4, CallTypeOne DEF CallTypeOK
<1>9. CASE UNCHANGED callVars
  BY <1>9 DEF callVars, CallTypeOK
<1>10. ASSUME NEW c \in Calls, EnsureLimiter(c) PROVE CallTypeOK'
  <2>1. newest' \in Managers \union {"none"} /\ came' \subseteq Managers
    BY <1>10, EnsuredTypes DEF EnsureLimiter
  <2>2. "ensured" \in Pcs
    BY DEF Pcs
  <2>3. CallGoes(c, "ensured") /\ UNCHANGED <<now, tokens, config, taken>>
    BY <1>10 DEF EnsureLimiter
  <2> QED BY <1>3, <2>1, <2>2, <2>3 DEF CallTypeOK
<1> QED BY <1>1, <1>2, <1>4, <1>6, <1>7, <1>8, <1>9, <1>10 DEF CallNext

LEMMA CameNext == CallConstants /\ CallTypeOK /\ CameInv /\ [CallNext]_callVars => CameInv'
<1> SUFFICES ASSUME CallConstants, CallTypeOK, CameInv, [CallNext]_callVars PROVE CameInv' OBVIOUS
<1> USE DEF CallTypeOK, CameInv
<1>1. ASSUME NEW c \in Calls, EnsureLimiter(c) PROVE CameInv'
  BY <1>1, EnsuredTypes DEF EnsureLimiter, CallGoes
<1>2. ASSUME NEW c \in Calls, BeginCall(c) PROVE CameInv'
  <2>1. came \subseteq came' /\ newest' \in Managers /\ ManagerOf[c] \in came'
    <3>1. CASE CallAt(c, "new") /\ Kind[c] = "place" /\ Ensured(ManagerOf[c])
      BY <3>1, EnsuredTypes
    <3>2. CASE CallAt(c, "ensured") /\ UNCHANGED <<newest, came>>
      BY <3>2 DEF CallAt
    <3> QED BY <1>2, <3>1, <3>2 DEF BeginCall
  <2>2. /\ call'[c].since = newest' /\ call'[c].pc = "pay"
        /\ \A d \in Calls : d # c => call'[d] = call[d]
    BY <1>2 DEF BeginCall
  <2> QED BY <2>1, <2>2
<1>3. ASSUME NEW c \in Calls,
             Pay(c) \/ Succeeds(c) \/ CallAnswerLost(c) \/ PlacedAgain(c) \/ Raises(c) \/ TryAgain(c)
      PROVE  CameInv'
  <2>1. /\ UNCHANGED <<newest, came>> /\ call[c].pc \in {"pay", "called", "delayed"}
        /\ \A d \in Calls : d # c => call'[d] = call[d]
    BY <1>3 DEF Pay, Succeeds, CallAnswerLost, PlacedAgain, Answered, Raises, Repeat, TryAgain, CallAt, CallGoes
  <2>2. call'[c].since \in {call[c].since, newest}
    <3>1. CASE Pay(c) \/ Succeeds(c) \/ CallAnswerLost(c) \/ PlacedAgain(c)
      BY <3>1 DEF Pay, Succeeds, CallAnswerLost, PlacedAgain, Answered, CallGoes, Entries
    <3>2. CASE Raises(c)
      <4>1. \/ call'[c] = [call[c] EXCEPT !.pc = "raised", !.attempts = call[c].attempts + 1]
            \/ call'[c] = [call[c] EXCEPT !.pc = "delayed", !.attempts = call[c].attempts + 1,
                                          !.wake = now + call[c].delay, !.delay = 2 * call[c].delay]
        BY <3>2 DEF Raises, Repeat
      <4> QED BY <4>1 DEF Entries
    <3>3. CASE TryAgain(c)
      <4>1. call'[c] = [call[c] EXCEPT !.pc = "pay", !.bucket = config[ConfigOf(c)], !.since = newest]
        BY <3>3 DEF TryAgain
      <4> QED BY <4>1 DEF Entries
    <3> QED BY <1>3, <3>1, <3>2, <3>3
  <2>3. call'[c].pc # "ensured"
    <3>1. CASE Pay(c) \/ Succeeds(c) \/ CallAnswerLost(c) \/ PlacedAgain(c)
      BY <3>1 DEF Pay, Succeeds, CallAnswerLost, PlacedAgain, Answered, CallGoes, Entries
    <3>2. CASE Raises(c)
      <4>1. \/ call'[c] = [call[c] EXCEPT !.pc = "raised", !.attempts = call[c].attempts + 1]
            \/ call'[c] = [call[c] EXCEPT !.pc = "delayed", !.attempts = call[c].attempts + 1,
                                          !.wake = now + call[c].delay, !.delay = 2 * call[c].delay]
        BY <3>2 DEF Raises, Repeat
      <4> QED BY <4>1 DEF Entries
    <3>3. CASE TryAgain(c)
      <4>1. call'[c] = [call[c] EXCEPT !.pc = "pay", !.bucket = config[ConfigOf(c)], !.since = newest]
        BY <3>3 DEF TryAgain
      <4> QED BY <4>1 DEF Entries
    <3> QED BY <1>3, <3>1, <3>2, <3>3
  <2> QED BY <2>1, <2>2, <2>3
<1>4. CASE Refill \/ UNCHANGED callVars
  BY <1>4 DEF Refill, callVars
<1> QED BY <1>1, <1>2, <1>3, <1>4 DEF CallNext

LEMMA MadeNext == CallTypeOK /\ CameInv /\ MadeInv /\ [CallNext]_callVars => MadeInv'
<1> SUFFICES ASSUME CallTypeOK, CameInv, MadeInv, [CallNext]_callVars PROVE MadeInv' OBVIOUS
<1>1. CASE UNCHANGED <<now, made>>
  BY <1>1 DEF MadeInv
<1>2. CASE Refill
  BY <1>2 DEF Refill, MadeInv, CallTypeOK
<1>3. ASSUME NEW c \in Calls, Pay(c) PROVE MadeInv'
  <2> DEFINE m == [call |-> c, attempt |-> call[c].attempts, at |-> now, bucket |-> call[c].bucket,
                   since |-> call[c].since]
  <2>1. made' = made \union {m} /\ m.at = now /\ now' = now /\ m.since \in Managers
    BY <1>3 DEF Pay, CallAt, CameInv
  <2>2. IsFiniteSet(made')
    BY <2>1, FS_AddElement DEF MadeInv
  <2> QED BY <2>1, <2>2 DEF MadeInv, CallTypeOK
<1>4. ASSUME NEW c \in Calls,
             \/ EnsureLimiter(c) \/ BeginCall(c) \/ Succeeds(c) \/ CallAnswerLost(c) \/ PlacedAgain(c)
             \/ Raises(c) \/ TryAgain(c)
      PROVE  UNCHANGED <<now, made>>
  BY <1>4 DEF EnsureLimiter, BeginCall, Succeeds, CallAnswerLost, PlacedAgain, Answered, Raises, Repeat, TryAgain
<1> QED BY <1>1, <1>2, <1>3, <1>4 DEF CallNext, callVars

--------------------------------------------------------------------------------
LEMMA OnceInit == CallInit => OnceInv
  BY DEF CallInit, OnceInv

LEMMA OnceNext == CallConstants /\ CallTypeOK /\ OnceInv /\ [CallNext]_callVars => OnceInv'
<1> SUFFICES ASSUME CallConstants, CallTypeOK, OnceInv, [CallNext]_callVars PROVE OnceInv' OBVIOUS
<1> USE DEF CallTypeOK, OnceInv
<1>1. ASSUME NEW c \in Calls, Succeeds(c) \/ CallAnswerLost(c) \/ PlacedAgain(c) PROVE OnceInv'
  <2>1. PICK n \in Nat : Answered(c, n) /\ (Target[c] \notin Resubmits => n <= 1)
    BY <1>1 DEF Succeeds, CallAnswerLost, PlacedAgain
  <2>2. call[c].pc = "called" /\ taken[c] = 0
    BY <1>1 DEF Succeeds, CallAnswerLost, PlacedAgain, CallAt
  <2> QED BY <2>1, <2>2 DEF Answered, CallGoes
<1>2. ASSUME NEW c \in Calls, EnsureLimiter(c) \/ BeginCall(c) \/ Pay(c) \/ Raises(c) \/ TryAgain(c) PROVE OnceInv'
  <2>1. taken' = taken /\ call[c].pc # "done"
    BY <1>2 DEF EnsureLimiter, BeginCall, Pay, Raises, TryAgain, CallAt
  <2>2. \A d \in Calls : d # c => call'[d] = call[d]
    BY <1>2 DEF EnsureLimiter, BeginCall, Pay, Raises, TryAgain, Repeat, CallGoes
  <2> QED BY <2>1, <2>2
<1>3. CASE Refill \/ UNCHANGED callVars
  BY <1>3 DEF Refill, callVars
<1> QED BY <1>1, <1>2, <1>3 DEF CallNext

--------------------------------------------------------------------------------
\* Charged attempts are finitely many.
LEMMA ChargedFinite ==
  ASSUME MadeInv, NEW b, NEW w, NEW from, NEW to
  PROVE  IsFiniteSet(ChargedTo(b, w, from, to)) /\ Calls_(b, w, from, to) \in Nat
<1>1. IsFiniteSet(ChargedTo(b, w, from, to))
  BY FS_Subset DEF Charged, ChargedTo, MadeInv
<1> QED BY <1>1, FS_CardinalityType DEF Calls_

LEMMA PaceInit == CallConstants /\ CallInit => PaceInv
<1> SUFFICES ASSUME CallConstants, CallInit PROVE PaceInv OBVIOUS
<1>1. \A b, w, from, to : Calls_(b, w, from, to) = 0
  BY FS_EmptySet DEF CallInit, Charged, ChargedTo, Calls_
<1> QED BY <1>1 DEF CallInit, CallConstants, PaceInv

\* One more token, or a full bucket; and the stretch is one tick longer.
LEMMA PaceTick == ASSUME CallConstants, CallTypeOK, MadeInv, PaceInv, Refill PROVE PaceInv'
<1> SUFFICES ASSUME NEW b \in CalledBrokers, NEW w \in Managers
             PROVE  /\ tokens'[<<b, w>>] \in 0..Burst
                    /\ \A from \in 0..now' : Calls_(b, w, from, now)' + tokens'[<<b, w>>] <= Burst + (now' - from)
                    /\ \A from, to \in 0..now' : from <= to => Calls_(b, w, from, to)' <= Burst + (to - from)
  BY DEF PaceInv
<1>1. now \in Nat /\ now' = now + 1 /\ Burst \in Nat /\ tokens[<<b, w>>] \in 0..Burst
  BY DEF Refill, CallTypeOK, CallConstants, PaceInv, Times
<1>2. tokens'[<<b, w>>] \in 0..Burst /\ tokens'[<<b, w>>] <= tokens[<<b, w>>] + 1
  BY <1>1 DEF Refill, CallTypeOK
<1>3. \A from, to \in 0..now : Calls_(b, w, from, to)' = Calls_(b, w, from, to)
  BY DEF Refill, Charged, ChargedTo, Calls_
<1>4. \A from \in 0..now : Calls_(b, w, from, now)' = Calls_(b, w, from, now)
  <2> SUFFICES ASSUME NEW from \in 0..now PROVE ChargedTo(b, w, from, now)' = ChargedTo(b, w, from, now)
    BY DEF Calls_
  <2> QED BY <1>1 DEF Refill, Charged, ChargedTo, MadeInv
<1>5. Calls_(b, w, now, now)' = 0
  <2>1. ChargedTo(b, w, now, now)' = {}
    BY <1>1 DEF Refill, Charged, ChargedTo, MadeInv
  <2> QED BY <2>1, FS_EmptySet DEF Calls_
<1>6. \A from \in 0..now : Calls_(b, w, from, now) \in Nat
  BY ChargedFinite
<1>7. ASSUME NEW from \in 0..now'
      PROVE  Calls_(b, w, from, now)' + tokens'[<<b, w>>] <= Burst + (now' - from)
  <2>1. CASE from = now'
    BY <1>1, <1>2, <1>5, <2>1
  <2>2. CASE from \in 0..now
    <3>1. Calls_(b, w, from, now) + tokens[<<b, w>>] <= Burst + (now - from)
      BY <2>2 DEF PaceInv
    <3> QED BY <1>1, <1>2, <1>4, <1>6, <2>2, <3>1
  <2> QED BY <1>1, <2>1, <2>2
<1>8. ASSUME NEW from \in 0..now', NEW to \in 0..now', from <= to
      PROVE  Calls_(b, w, from, to)' <= Burst + (to - from)
  <2>1. CASE to = now'
    <3>1. Calls_(b, w, from, now)' \in Nat
      BY <1>1, <1>4, <1>5, <1>6
    <3>2. Calls_(b, w, from, to)' = Calls_(b, w, from, now)'
      BY <2>1 DEF Calls_, Charged, ChargedTo
    <3>3. Calls_(b, w, from, now)' + tokens'[<<b, w>>] <= Burst + (now' - from)
      BY <1>7
    <3> QED BY <1>1, <1>2, <2>1, <3>1, <3>2, <3>3
  <2>2. CASE to \in 0..now
    BY <1>1, <1>3, <1>8, <2>2 DEF PaceInv
  <2> QED BY <1>1, <2>1, <2>2
<1> QED BY <1>2, <1>7, <1>8

\* One token less, and one attempt more in the stretches that reach to now.
LEMMA PacePay ==
  ASSUME CallConstants, CallTypeOK, MadeInv, PaceInv, NEW c \in Calls, Pay(c)
  PROVE  PaceInv'
<1> SUFFICES ASSUME NEW b \in CalledBrokers, NEW w \in Managers
             PROVE  /\ tokens'[<<b, w>>] \in 0..Burst
                    /\ \A from \in 0..now' : Calls_(b, w, from, now)' + tokens'[<<b, w>>] <= Burst + (now' - from)
                    /\ \A from, to \in 0..now' : from <= to => Calls_(b, w, from, to)' <= Burst + (to - from)
  BY DEF PaceInv
<1> DEFINE bucket == Bucket(c)
           m == [call |-> c, attempt |-> call[c].attempts, at |-> now, bucket |-> call[c].bucket, since |-> call[c].since]
<1>1. /\ now \in Nat /\ now' = now /\ Burst \in Nat /\ tokens[<<b, w>>] \in 0..Burst
      /\ tokens' = [tokens EXCEPT ![bucket] = @ - 1] /\ made' = made \union {m}
  BY DEF Pay, CallTypeOK, CallConstants, PaceInv, Times
<1>2. tokens'[<<b, w>>] = IF <<b, w>> = bucket THEN tokens[<<b, w>>] - 1 ELSE tokens[<<b, w>>]
  BY <1>1 DEF CallTypeOK
<1>3. tokens'[<<b, w>>] \in 0..Burst
  <2>1. <<b, w>> = bucket => tokens[<<b, w>>] >= 1
    BY DEF Pay
  <2> QED BY <1>1, <1>2, <2>1
<1>4. \A from, to : Calls_(b, w, from, to) \in Nat
  BY ChargedFinite
<1>5. ASSUME NEW from \in 0..now, NEW to \in 0..now
      PROVE  Calls_(b, w, from, to)' = Calls_(b, w, from, to) \/ (<<b, w>> = bucket /\ to = now /\ Calls_(b, w, from, to)' = Calls_(b, w, from, to) + 1)
  <2>1. CASE ChargedTo(b, w, from, to)' = ChargedTo(b, w, from, to)
    BY <2>1 DEF Calls_
  <2>2. CASE ChargedTo(b, w, from, to)' # ChargedTo(b, w, from, to)
    <3>1. ChargedTo(b, w, from, to)' = ChargedTo(b, w, from, to) \union {m} /\ m \notin ChargedTo(b, w, from, to)
      BY <1>1, <2>2 DEF Charged, ChargedTo
    <3>2. m \in ChargedTo(b, w, from, to)'
      BY <3>1
    <3>3. <<b, w>> = bucket /\ now \in from..to
      BY <3>2 DEF Charged, ChargedTo, Bucket
    <3>4. to = now
      BY <1>1, <3>3
    <3>5. Calls_(b, w, from, to)' = Calls_(b, w, from, to) + 1
      BY <3>1, ChargedFinite, FS_AddElement DEF Calls_
    <3> QED BY <3>3, <3>4, <3>5
  <2> QED BY <2>1, <2>2
<1>6. ASSUME NEW from \in 0..now
      PROVE  Calls_(b, w, from, now)' + tokens'[<<b, w>>] <= Burst + (now - from)
  <2>1. Calls_(b, w, from, now) + tokens[<<b, w>>] <= Burst + (now - from)
    BY DEF PaceInv
  <2> QED BY <1>1, <1>2, <1>4, <1>5, <2>1
<1>7. ASSUME NEW from \in 0..now, NEW to \in 0..now, from <= to
      PROVE  Calls_(b, w, from, to)' <= Burst + (to - from)
  <2>1. CASE to = now
    <3>1. Calls_(b, w, from, now)' \in Nat
      BY <1>1, <1>4, <1>5
    <3> QED BY <1>1, <1>3, <1>6, <2>1, <3>1
  <2>2. CASE to # now
    BY <1>5, <1>7, <2>2 DEF PaceInv
  <2> QED BY <2>1, <2>2
<1> QED BY <1>1, <1>3, <1>6, <1>7

LEMMA PaceNext == CallConstants /\ CallTypeOK /\ MadeInv /\ PaceInv /\ [CallNext]_callVars => PaceInv'
<1> SUFFICES ASSUME CallConstants, CallTypeOK, MadeInv, PaceInv, [CallNext]_callVars PROVE PaceInv' OBVIOUS
<1>1. CASE UNCHANGED <<now, tokens, made>>
  BY <1>1 DEF PaceInv, Calls_, Charged, ChargedTo
<1>2. CASE Refill
  BY <1>2, PaceTick
<1>3. ASSUME NEW c \in Calls, Pay(c) PROVE PaceInv'
  BY <1>3, PacePay
<1>4. ASSUME NEW c \in Calls,
             \/ EnsureLimiter(c) \/ BeginCall(c) \/ Succeeds(c) \/ CallAnswerLost(c) \/ PlacedAgain(c)
             \/ Raises(c) \/ TryAgain(c)
      PROVE  UNCHANGED <<now, tokens, made>>
  BY <1>4 DEF EnsureLimiter, BeginCall, Succeeds, CallAnswerLost, PlacedAgain, Answered, Raises, Repeat, TryAgain
<1> QED BY <1>1, <1>2, <1>3, <1>4 DEF CallNext, callVars

--------------------------------------------------------------------------------
\* An order is placed once, however its call is repeated and whatever answers are
\* lost, unless the wrapper itself places it again.
THEOREM NothingPlacedTwice == CallConstants => (CallSpec => []OrdersPlacedOnce)
<1> SUFFICES ASSUME CallConstants PROVE CallSpec => []OrdersPlacedOnce OBVIOUS
<1>1. OnceInv => OrdersPlacedOnce
  BY DEF OnceInv, OrdersPlacedOnce
<1> QED BY <1>1, CallTypeInit, CallTypeNext, OnceInit, OnceNext, PTL DEF CallSpec

\* The elements of a set that is not large can be numbered.
LEMMA Numbering ==
  ASSUME NEW S, IsFiniteSet(S), NEW n \in Nat, Cardinality(S) <= n
  PROVE  \E g \in [S -> 1..n] : \A x, y \in S : g[x] = g[y] => x = y
<1>1. PICK f \in [1..Cardinality(S) -> S] : \A x \in S : \E i \in 1..Cardinality(S) : f[i] = x
  BY FS_CardinalityType DEF ExistsBijection, Bijection, Surjection
<1> DEFINE g == [x \in S |-> CHOOSE i \in 1..Cardinality(S) : f[i] = x]
<1>2. Cardinality(S) \in Nat
  BY FS_CardinalityType
<1>3. \A x \in S : g[x] \in 1..Cardinality(S) /\ f[g[x]] = x
  BY <1>1
<1>4. g \in [S -> 1..n]
  BY <1>2, <1>3
<1>5. \A x, y \in S : g[x] = g[y] => x = y
  BY <1>3
<1> HIDE DEF g
<1> QED BY <1>4, <1>5

\* A set of so many parts none of which is large.
LEMMA Parts ==
  ASSUME NEW S, NEW W, IsFiniteSet(S), IsFiniteSet(W), NEW part \in [S -> W], NEW n \in Nat,
         \A w \in W : Cardinality({x \in S : part[x] = w}) <= n
  PROVE  Cardinality(S) <= Cardinality(W) * n
<1> DEFINE Of(w) == {x \in S : part[x] = w}
           Good(w, g) == g \in [Of(w) -> 1..n] /\ \A x, y \in Of(w) : g[x] = g[y] => x = y
           number(w) == CHOOSE g : Good(w, g)
<1>1. \A w \in W : Good(w, number(w))
  <2> SUFFICES ASSUME NEW w \in W PROVE \E g : Good(w, g)
    OBVIOUS
  <2>1. IsFiniteSet(Of(w)) /\ Cardinality(Of(w)) <= n
    BY FS_Subset
  <2>2. \E g \in [Of(w) -> 1..n] : \A x, y \in Of(w) : g[x] = g[y] => x = y
    <3> HIDE DEF Of
    <3> QED BY <2>1, Numbering
  <2> QED BY <2>2
<1> DEFINE f == [x \in S |-> <<part[x], number(part[x])[x]>>]
<1>2. \A x \in S : number(part[x])[x] \in 1..n
  BY <1>1
<1>3. f \in [S -> W \X (1..n)]
  <2> HIDE DEF number
  <2> QED BY <1>2
<1>4. ASSUME NEW x \in S, NEW y \in S, f[x] = f[y] PROVE x = y
  <2>1. part[x] = part[y] /\ number(part[x])[x] = number(part[x])[y]
    <3>1. f[x] = <<part[x], number(part[x])[x]>> /\ f[y] = <<part[y], number(part[y])[y]>>
      OBVIOUS
    <3>2. \A a, b, c, d : <<a, b>> = <<c, d>> => a = c /\ b = d
      OBVIOUS
    <3>3. <<part[x], number(part[x])[x]>> = <<part[y], number(part[y])[y]>>
      BY ONLY <1>4, <3>1
    <3>4. part[x] = part[y] /\ number(part[x])[x] = number(part[y])[y]
      BY ONLY <3>2, <3>3
    <3> QED BY ONLY <3>4
  <2>2. part[x] \in W /\ x \in Of(part[x]) /\ y \in Of(part[x])
    BY <2>1
  <2> HIDE DEF number, Of
  <2> QED BY <1>1, <2>1, <2>2
<1> HIDE DEF f
<1>5. f \in Injection(S, W \X (1..n))
  BY <1>3, <1>4 DEF Injection, IsInjective
<1>6. IsFiniteSet(1..n) /\ Cardinality(1..n) = n
  BY FS_Interval
<1>7. IsFiniteSet(W \X (1..n)) /\ Cardinality(W \X (1..n)) = Cardinality(W) * n
  BY <1>6, FS_Product
<1> QED BY <1>5, <1>7, FS_Injection

\* In any stretch of time a broker gets no more calls than the buckets they were charged to
\* held and were given, for any number of brokers, managers and calls, any bucket and any
\* number of attempts; but for the retries of calls that another call has charged to
\* another broker.  Each BrokerManager that comes to use the limiter brings another bucket,
\* and no more than one (broker_manager.py:106).
THEOREM BucketsHold == CallConstants => (CallSpec => []BrokersPaced)
<1> SUFFICES ASSUME CallConstants PROVE CallSpec => []BrokersPaced OBVIOUS
<1>1. CallTypeOK /\ MadeInv /\ PaceInv => BrokersPaced
  <2> SUFFICES ASSUME CallTypeOK, MadeInv, PaceInv, NEW b \in CalledBrokers, NEW from \in Times, NEW to \in Times, from <= to
               PROVE  Cardinality(Charged(b, from, to)) <= Cardinality(Buckets(Charged(b, from, to))) * (Burst + (to - from))
    BY DEF BrokersPaced
  <2>0. from \in Nat /\ to \in Nat /\ now \in Nat /\ Burst \in Nat
    BY DEF CallConstants, CallTypeOK, Times
  <2>1. ASSUME NEW w \in Managers PROVE Calls_(b, w, from, to) <= Burst + (to - from)
    <3>0. \A i, j \in 0..now : i <= j => Calls_(b, w, i, j) <= Burst + (j - i)
      BY DEF PaceInv
    <3>1. CASE to <= now
      <4>1. from \in 0..now /\ to \in 0..now
        BY <2>0, <3>1
      <4> QED BY <3>0, <4>1
    <3>2. CASE to > now /\ from <= now
      <4>1. ChargedTo(b, w, from, to) = ChargedTo(b, w, from, now)
        BY <2>0, <3>2 DEF Charged, ChargedTo, MadeInv
      <4>2. Calls_(b, w, from, now) <= Burst + (now - from)
        <5>1. from \in 0..now /\ now \in 0..now /\ from <= now
          BY <2>0, <3>2
        <5> QED BY <3>0, <5>1
      <4>3. Calls_(b, w, from, now) \in Nat
        BY ChargedFinite
      <4> QED BY <2>0, <3>2, <4>1, <4>2, <4>3 DEF Calls_
    <3>3. CASE from > now
      <4>1. ChargedTo(b, w, from, to) = {}
        BY <2>0, <3>3 DEF Charged, ChargedTo, MadeInv
      <4> QED BY <2>0, <4>1, FS_EmptySet DEF Calls_
    <3> QED BY <2>0, <3>1, <3>2, <3>3
  <2> DEFINE S == Charged(b, from, to)
             W == Buckets(S)
             part == [m \in S |-> m.since]
  <2>2. IsFiniteSet(S) /\ S \subseteq made
    BY FS_Subset DEF Charged, MadeInv
  <2>4. part \in Surjection(S, W)
    BY DEF Surjection, Buckets
  <2>5. IsFiniteSet(W)
    BY <2>2, <2>4, FS_Surjection
  <2>6. ASSUME NEW w \in W PROVE Cardinality({m \in S : part[m] = w}) <= Burst + (to - from)
    <3>1. w \in Managers
      BY <2>2 DEF Buckets, MadeInv
    <3>2. {m \in S : part[m] = w} = ChargedTo(b, w, from, to)
      BY DEF ChargedTo
    <3> QED BY <2>1, <3>1, <3>2 DEF Calls_
  <2>7. Burst + (to - from) \in Nat /\ part \in [S -> W]
    BY <2>0 DEF Buckets
  <2> QED BY <2>2, <2>5, <2>6, <2>7, Parts
<1>2. CallInit => CameInv
  BY DEF CallInit, CameInv
<1> QED BY <1>1, <1>2, CallTypeInit, CallTypeNext, CameNext, MadeNext, PaceInit, PaceNext, PTL DEF CallSpec

--------------------------------------------------------------------------------
(***************************************************************************)
(* OrderCache.                                                             *)
(***************************************************************************)
Versions == Nat \union {-1}

ReaderTypes ==
  [Readers -> [pc : {"idle", "look", "wait", "done"}, since : Nat, answer : Versions]]

CacheTypeOK ==
  /\ orders \in Nat
  /\ refresh \in [pc : {"none", "top", "fetch", "store", "sleep"}, got : Versions]
  /\ locked \in BOOLEAN
  /\ latest \in Versions
  /\ reader \in ReaderTypes

\* What a version is worth to a reader: it is the one expected or a later one, or a
\* list that is known to be empty.
Serves(version, r) == version >= reader[r].since \/ version = -1

(***************************************************************************)
(* The inductive invariant.  While the task has the lock it has yet to fetch, *)
(* or has fetched what every reader under way may expect; without it, that is  *)
(* in the cache.  Nobody expects what does not exist yet.                  *)
(***************************************************************************)
LockInv ==
  /\ locked <=> refresh.pc \in {"fetch", "store"}
  /\ ~started => refresh.pc = "none"

ServedInv ==
  \A r \in Readers :
    /\ reader[r].since <= orders
    /\ reader[r].pc \in {"look", "wait"} =>
         /\ refresh.pc = "store" => Serves(refresh.got, r)
         /\ refresh.pc \notin {"fetch", "store"} => Serves(latest, r)
    /\ reader[r].pc = "done" => Serves(reader[r].answer, r)

CacheInv == CacheTypeOK /\ LockInv /\ ServedInv

--------------------------------------------------------------------------------
LEMMA CacheInit == OrderCacheInit => CacheInv
<1> SUFFICES ASSUME OrderCacheInit PROVE CacheInv OBVIOUS
<1>1. CacheTypeOK /\ LockInv
  BY DEF OrderCacheInit, CacheTypeOK, LockInv, Versions, ReaderTypes, Quiet
<1>2. \A r \in Readers : reader[r].since = 0 /\ reader[r].pc = "idle"
  BY DEF OrderCacheInit, Quiet
<1> QED BY <1>1, <1>2 DEF OrderCacheInit, CacheInv, ServedInv

\* The steps of the refreshing task.
LEMMA RefreshKeeps ==
  ASSUME CacheInv, Start \/ Lock \/ Fetch \/ FetchEmpty \/ Store \/ Fails \/ Sleep
  PROVE  CacheInv'
<1> USE DEF CacheInv, CacheTypeOK, LockInv, ServedInv, Serves, Versions, ReaderTypes
<1>1. CASE Start
  BY <1>1 DEF Start
<1>2. CASE Lock
  BY <1>2 DEF Lock
<1>3. CASE Fetch
  BY <1>3 DEF Fetch
<1>4. CASE FetchEmpty
  BY <1>4 DEF FetchEmpty
<1>5. CASE Store
  <2>1. reader' \in ReaderTypes
    BY <1>5 DEF Store, Woken
  <2>2. \A r \in Readers : /\ reader'[r].since = reader[r].since
                           /\ reader'[r].answer = reader[r].answer
                           /\ reader'[r].pc = IF reader[r].pc = "wait" THEN "look" ELSE reader[r].pc
    BY <1>5 DEF Store, Woken
  <2> QED BY <1>5, <2>1, <2>2 DEF Store, Release
<1>6. CASE Fails
  <2>1. reader' \in ReaderTypes
    BY <1>6 DEF Fails, Woken
  <2>2. \A r \in Readers : /\ reader'[r].since = 0
                           /\ reader'[r].answer = reader[r].answer
                           /\ reader'[r].pc = IF reader[r].pc = "wait" THEN "look" ELSE reader[r].pc
    BY <1>6 DEF Fails, Woken
  <2>3. refresh' = [refresh EXCEPT !.pc = "sleep"] /\ UNCHANGED <<orders, latest, started>> /\ locked' = FALSE
    BY <1>6 DEF Fails, Release
  <2>4. CacheTypeOK' /\ LockInv'
    <3>1. started /\ refresh'.pc = "sleep"
      BY <1>6, <2>3 DEF Fails
    <3>2. refresh' \in [pc : {"none", "top", "fetch", "store", "sleep"}, got : Versions]
      BY <2>3
    <3>3. LockInv'
      BY <2>3, <3>1
    <3> QED BY <2>1, <2>3, <3>2, <3>3
  <2>5. \A r \in Readers, v \in Versions : Serves(v, r)'
    BY <2>2 DEF Serves, Versions
  <2>6. ServedInv'
    BY <2>1, <2>2, <2>3, <2>4, <2>5
  <2> QED BY <2>4, <2>6
<1>7. CASE Sleep
  BY <1>7 DEF Sleep
<1> QED BY <1>1, <1>2, <1>3, <1>4, <1>5, <1>6, <1>7

\* The steps of a reader, and of the broker.
LEMMA ReaderKeeps ==
  ASSUME CacheInv, NEW r \in Readers, BeginRead(r) \/ Look(r) \/ ReturnRead(r)
  PROVE  CacheInv'
<1> USE DEF CacheInv, CacheTypeOK, LockInv, ServedInv, Serves, Versions, ReaderTypes
<1>1. CASE BeginRead(r)
  BY <1>1 DEF BeginRead
<1>2. CASE Look(r)
  BY <1>2 DEF Look
<1>3. CASE ReturnRead(r)
  BY <1>3 DEF ReturnRead, Quiet
<1> QED BY <1>1, <1>2, <1>3

LEMMA TradeKeeps == CacheInv /\ Trade => CacheInv'
  BY DEF Trade, CacheInv, CacheTypeOK, LockInv, ServedInv, Serves, Versions, ReaderTypes

LEMMA CacheNext == CacheInv /\ [OrderCacheNext]_cacheVars => CacheInv'
<1> SUFFICES ASSUME CacheInv, [OrderCacheNext]_cacheVars PROVE CacheInv' OBVIOUS
<1>1. CASE UNCHANGED cacheVars
  BY <1>1 DEF cacheVars, CacheInv, CacheTypeOK, LockInv, ServedInv, Serves
<1>2. CASE OrderCacheNext
  BY <1>2, RefreshKeeps, ReaderKeeps, TradeKeeps DEF OrderCacheNext
<1> QED BY <1>1, <1>2

--------------------------------------------------------------------------------
\* A call that comes while the orders are fetched returns what is fetched then or
\* later, unless fetching fails, for any number of monitors that read.
THEOREM ReadersFresh == OrderCacheSpec => []FreshAfterWait
<1>1. CacheInv => FreshAfterWait
  BY DEF CacheInv, ServedInv, Serves, FreshAfterWait
<1> QED BY <1>1, CacheInit, CacheNext, PTL DEF OrderCacheSpec

--------------------------------------------------------------------------------
(***************************************************************************)
(* StrikeCache.  The strikes a setup has in hand, and the file, are whatever    *)
(* others make of them; what counts is that a setup only takes an entry that    *)
(* is of today, for its key, and no older than its own first candle, and only    *)
(* makes one after that candle.                                            *)
(***************************************************************************)
StrikeEntries == [key : {KeyOf[i] : i \in Configs}, day : Int, made : Int]
SetupTypes    == [pc : {"away", "wait", "fetch", "ready"}, copy : SUBSET StrikeEntries,
                  strikes : StrikeEntries \union {NoStrikes}]

StrikeTypes ==
  /\ day \in Int /\ tick \in Int
  /\ file \subseteq StrikeEntries
  /\ setup \in [Configs -> SetupTypes]

FetchInv == \A i \in Configs : setup[i].pc = "fetch" => tick >= CompleteAt[i]

StrikeInv == StrikeTypes /\ FetchInv /\ StrikesOfToday

LEMMA AwayType == Away \in SetupTypes /\ [Away EXCEPT !.pc = "wait"] \in SetupTypes
  BY DEF Away, SetupTypes

LEMMA StrikeInitInv == StrikeInit => StrikeInv
<1> SUFFICES ASSUME StrikeInit PROVE StrikeInv OBVIOUS
<1>1. StrikeTypes
  BY AwayType DEF StrikeInit, StrikeTypes
<1>2. \A i \in Configs : setup[i].pc = "away" /\ setup[i].strikes = NoStrikes
  BY DEF StrikeInit, Away
<1> QED BY <1>1, <1>2 DEF StrikeInv, FetchInv, StrikesOfToday

\* The setup of one configuration changes.
LEMMA OneSetup ==
  ASSUME StrikeInv, NEW i \in Configs, NEW s \in SetupTypes, setup' = [setup EXCEPT ![i] = s],
         UNCHANGED <<day, tick>>, file' \subseteq StrikeEntries,
         s.pc = "fetch" => tick >= CompleteAt[i],
         s.strikes # NoStrikes =>
           s.strikes.key = KeyOf[i] /\ s.strikes.day = day /\ s.strikes.made >= CompleteAt[i]
  PROVE  StrikeInv'
<1>1. setup' \in [Configs -> SetupTypes] /\ \A j \in Configs : setup'[j] = IF j = i THEN s ELSE setup[j]
  BY DEF StrikeInv, StrikeTypes
<1> QED BY <1>1 DEF StrikeInv, StrikeTypes, FetchInv, StrikesOfToday

\* What it gets from the file, and puts there.
LEMMA CleanedTypes == ASSUME StrikeInv, NEW i \in Configs PROVE Cleaned(i, file) \subseteq StrikeEntries
  BY DEF StrikeInv, StrikeTypes, Cleaned, Recent

LEMMA SetupKeeps ==
  ASSUME StrikeInv, NEW i \in Configs, BeginSetup(i) \/ SetupStep(i) \/ LockTimeout(i) \/ Stop(i)
  PROVE  StrikeInv'
<1>1. setup[i] \in SetupTypes /\ tick \in Int /\ day \in Int /\ file \subseteq StrikeEntries
  BY DEF StrikeInv, StrikeTypes
<1>2. setup[i].strikes # NoStrikes =>
        setup[i].strikes.key = KeyOf[i] /\ setup[i].strikes.day = day /\ setup[i].strikes.made >= CompleteAt[i]
  BY DEF StrikeInv, StrikesOfToday
<1>3. Cleaned(i, file) \subseteq StrikeEntries
  BY CleanedTypes
<1>4. CASE BeginSetup(i)
  <2> DEFINE s == [setup[i] EXCEPT !.pc = "wait"]
  <2>1. s \in SetupTypes /\ s.pc = "wait" /\ s.strikes = setup[i].strikes
    BY <1>1 DEF SetupTypes
  <2>2. setup' = [setup EXCEPT ![i] = s] /\ UNCHANGED <<day, tick, file>>
    BY <1>4 DEF BeginSetup
  <2> QED BY <1>1, <1>2, <2>1, <2>2, OneSetup
<1>5. CASE Hit(i)
  <2>1. PICK e \in EntryOf(i, Cleaned(i, file)) :
          setup' = [setup EXCEPT ![i] = [pc |-> "ready", copy |-> {}, strikes |-> e]]
    BY <1>5 DEF Hit
  <2>2. e.key = KeyOf[i] /\ e.day = day /\ e.made >= CompleteAt[i] /\ e \in StrikeEntries
    BY <1>3 DEF EntryOf, Cleaned
  <2> DEFINE s == [pc |-> "ready", copy |-> {}, strikes |-> e]
  <2>3. s \in SetupTypes
    BY <2>2 DEF SetupTypes
  <2>4. UNCHANGED <<day, tick>> /\ file' \subseteq StrikeEntries
    BY <1>3, <1>5 DEF Hit
  <2> QED BY <2>1, <2>2, <2>3, <2>4, OneSetup
<1>6. CASE Miss(i)
  <2> DEFINE s == [pc |-> "fetch", copy |-> Cleaned(i, file), strikes |-> setup[i].strikes]
  <2>1. s \in SetupTypes
    BY <1>1, <1>3 DEF SetupTypes
  <2>2. setup' = [setup EXCEPT ![i] = s]
    <3> DEFINE fetching == [setup EXCEPT ![i].pc = "fetch"]
    <3>1. setup' = [fetching EXCEPT ![i].copy = Cleaned(i, file)]
      BY <1>6 DEF Miss
    <3>2. fetching \in [Configs -> SetupTypes] /\ fetching[i].strikes = setup[i].strikes
          /\ fetching[i].pc = "fetch" /\ \A j \in Configs \ {i} : fetching[j] = setup[j]
      BY <1>1 DEF StrikeInv, StrikeTypes, SetupTypes
    <3> HIDE DEF fetching
    <3>3. [fetching[i] EXCEPT !.copy = Cleaned(i, file)] = s
      BY <3>2 DEF SetupTypes
    <3> QED BY <3>1, <3>2, <3>3 DEF StrikeInv, StrikeTypes
  <2>3. UNCHANGED <<day, tick, file>> /\ tick >= CompleteAt[i]
    BY <1>6 DEF Miss
  <2> QED BY <1>1, <1>2, <2>1, <2>2, <2>3, OneSetup
<1>7. CASE Identify(i)
  <2> DEFINE e == [key |-> KeyOf[i], day |-> day, made |-> tick]
  <2> DEFINE s == [pc |-> "ready", copy |-> {}, strikes |-> e]
  <2>1. e \in StrikeEntries
    BY <1>1 DEF StrikeEntries
  <2>2. s \in SetupTypes
    BY <2>1 DEF SetupTypes
  <2>3. tick >= CompleteAt[i]
    BY <1>7 DEF Identify, StrikeInv, FetchInv
  <2>4. setup' = [setup EXCEPT ![i] = s] /\ UNCHANGED <<day, tick>>
    BY <1>7 DEF Identify
  <2>5. file' \subseteq StrikeEntries
    BY <1>1, <1>7, <2>1 DEF Identify, SetupTypes
  <2> QED BY <2>2, <2>3, <2>4, <2>5, OneSetup
<1>8. CASE NoneFound(i)
  <2>1. [pc |-> "ready", copy |-> {}, strikes |-> NoStrikes] \in SetupTypes
    BY DEF SetupTypes
  <2> QED BY <1>1, <1>8, <2>1, OneSetup DEF NoneFound
<1>9. CASE LockTimeout(i)
  BY <1>1, <1>9, AwayType, OneSetup DEF LockTimeout, Away
<1>10. CASE Stop(i)
  BY <1>1, <1>10, AwayType, OneSetup DEF Stop, Away
<1> QED BY <1>4, <1>5, <1>6, <1>7, <1>8, <1>9, <1>10 DEF SetupStep

\* All runners are stopped.
LEMMA AllAway ==
  ASSUME StrikeInv, setup' = [i \in Configs |-> Away], day' \in Int, tick' \in Int,
         file' \subseteq StrikeEntries
  PROVE  StrikeInv'
<1>1. \A i \in Configs : setup'[i].pc = "away" /\ setup'[i].strikes = NoStrikes
  BY DEF Away
<1>2. StrikeTypes'
  BY AwayType DEF StrikeTypes
<1> QED BY <1>1, <1>2 DEF StrikeInv, FetchInv, StrikesOfToday

LEMMA StrikeNextInv == CacheConstants /\ StrikeInv /\ [StrikeNext]_strikeVars => StrikeInv'
<1> SUFFICES ASSUME CacheConstants, StrikeInv, [StrikeNext]_strikeVars PROVE StrikeInv' OBVIOUS
<1> USE DEF StrikeInv, StrikeTypes
<1>1. CASE UNCHANGED strikeVars
  BY <1>1 DEF strikeVars, FetchInv, StrikesOfToday
<1>2. ASSUME NEW i \in Configs, BeginSetup(i) \/ SetupStep(i) \/ LockTimeout(i) \/ Stop(i)
      PROVE  StrikeInv'
  BY <1>2, SetupKeeps
<1>3. CASE Crash
  BY <1>3, AllAway DEF Crash
<1>4. CASE NextDay
  BY <1>4, AllAway DEF NextDay
<1>5. CASE Unlock
  BY <1>5 DEF Unlock, FetchInv, StrikesOfToday
<1>6. CASE Tick
  <2>1. \A i \in Configs : CompleteAt[i] \in Int
    BY DEF CacheConstants
  <2> QED BY <1>6, <2>1 DEF Tick, FetchInv, StrikesOfToday
<1> QED BY <1>1, <1>2, <1>3, <1>4, <1>5, <1>6 DEF StrikeNext

\* Every configuration works with strikes that were found today, for its own key, and
\* not before its own first candle, whatever setups overwrite each other's entries, and
\* wherever one crashes with the lock (option_buy.py:257).
THEOREM StrikesFound == CacheConstants => (StrikeSpec => []StrikesOfToday)
<1> SUFFICES ASSUME CacheConstants PROVE StrikeSpec => []StrikesOfToday OBVIOUS
<1>1. StrikeInv => StrikesOfToday
  BY DEF StrikeInv
<1> QED BY <1>1, StrikeInitInv, StrikeNextInv, PTL DEF StrikeSpec

--------------------------------------------------------------------------------
(***************************************************************************)
(* ExitAll.  Nothing is live of an order that has not been placed, and the *)
(* legs that a call has found are still live only if it has their order to do   *)
(* yet, or failed at it.                                                   *)
(***************************************************************************)
LegTypes ==
  /\ status \in [Orders -> Statuses]
  /\ leg \in [Orders -> [Brokers -> Legs]]
  /\ DOMAIN exits = Callers
  /\ \A c \in Callers : exits[c].at \subseteq Brokers /\ exits[c].found \subseteq Orders \X Brokers

UnplacedInv == \A o \in Orders : status[o] = "none" => \A b \in Brokers : leg[o][b] = "none"

FoundInv ==
  \A c \in Callers : \A l \in exits[c].found :
    /\ l[1] \in Orders /\ l[2] \in exits[c].at
    /\ leg[l[1]][l[2]] \in {"live", "asked"}
    /\ l[1] \in exits[c].todo \union exits[c].raised \/ l \in exits[c].missed \/ leg[l[1]][l[2]] # "live"

ExitAllInv == LegTypes /\ UnplacedInv /\ FoundInv

LEMMA ExitAllInitInv == ExitAllInit => ExitAllInv
  BY DEF ExitAllInit, ExitAllInv, LegTypes, UnplacedInv, FoundInv, NoCall, Legs, Statuses

\* Legs and statuses move on, and whatever was live is live or asked to end.
Moves ==
  /\ status' \in [Orders -> Statuses] /\ leg' \in [Orders -> [Brokers -> Legs]]
  /\ \A o \in Orders : status'[o] = "none" => status[o] = "none"
  /\ \A o \in Orders, b \in Brokers :
       /\ leg'[o][b] = "none" <=> leg[o][b] = "none"
       /\ leg[o][b] \in {"live", "asked"} => leg'[o][b] \in {leg[o][b], "asked"}

LEMMA MovesKeep == ASSUME ExitAllInv, Moves, exits' = exits PROVE ExitAllInv'
<1> USE DEF ExitAllInv
<1>1. LegTypes'
  BY DEF LegTypes, Moves
<1>2. UnplacedInv'
  BY DEF UnplacedInv, Moves, LegTypes
<1>3. FoundInv'
  <2> SUFFICES ASSUME NEW c \in Callers, NEW l \in exits[c].found
               PROVE  /\ leg'[l[1]][l[2]] \in {"live", "asked"}
                      /\ l[1] \in exits[c].todo \union exits[c].raised \/ l \in exits[c].missed \/ leg'[l[1]][l[2]] # "live"
    BY DEF FoundInv
  <2>1. l[1] \in Orders /\ l[2] \in Brokers
    BY DEF FoundInv, LegTypes
  <2>2. leg'[l[1]][l[2]] \in {leg[l[1]][l[2]], "asked"}
    BY <2>1 DEF FoundInv, Moves
  <2> QED BY <2>2 DEF FoundInv
<1> QED BY <1>1, <1>2, <1>3

\* What exit_order does to an order and its hedges, whatever it misses.
LEMMA ExitedMoves ==
  ASSUME LegTypes, UnplacedInv, NEW o \in Orders, NEW at \in SUBSET Brokers, NEW missed,
         NEW s \in Statuses, s = "none" => status[o] = "none", OrderExited(o, at, missed, s)
  PROVE  /\ Moves
         /\ \A b \in at : <<o, b>> \notin missed => leg'[o][b] # "live"
<1> DEFINE asked == Tried(o, at) \ missed
<1>1. \A p \in Orders, b \in Brokers : leg[p][b] \in Legs
  BY DEF LegTypes
<1>2. leg' = [p \in Orders |-> [b \in Brokers |-> IF <<p, b>> \in asked THEN "asked" ELSE leg[p][b]]]
  BY DEF OrderExited, Asked
<1>3. \A p \in Orders, b \in Brokers : <<p, b>> \in asked => leg[p][b] = "live"
  BY DEF Tried
<1>4. \A b \in at : leg[o][b] = "live" /\ <<o, b>> \notin missed => <<o, b>> \in asked
  BY DEF Tried, HasExecutions
<1> HIDE DEF asked
<1>5. leg' \in [Orders -> [Brokers -> Legs]]
  BY <1>1, <1>2 DEF Legs
<1>6. \A p \in Orders, b \in Brokers : leg'[p][b] = IF <<p, b>> \in asked THEN "asked" ELSE leg[p][b]
  BY <1>2
<1>7. \A p \in Orders, b \in Brokers :
        /\ leg'[p][b] = "none" <=> leg[p][b] = "none"
        /\ leg[p][b] \in {"live", "asked"} => leg'[p][b] \in {leg[p][b], "asked"}
  BY <1>3, <1>6
<1>8. PICK children \in SUBSET Children(o) : StatusWritten(o, children, s)
  BY DEF OrderExited
<1>9. status' \in [Orders -> Statuses] /\ \A p \in Orders : status'[p] = "none" => status[p] = "none"
  BY <1>8 DEF StatusWritten, LegTypes, Statuses, Children
<1>10. \A b \in at : <<o, b>> \notin missed => leg'[o][b] # "live"
  BY <1>4, <1>6
<1> QED BY <1>5, <1>7, <1>9, <1>10 DEF Moves

\* One call goes on with the next order.
LEMMA NextOrderKeeps ==
  ASSUME ExitAllInv, Moves, NEW c \in Callers, NEW o \in Orders, NEW e,
         exits' = [exits EXCEPT ![c] = e],
         e.at = exits[c].at, e.found = exits[c].found, e.todo = exits[c].todo \ {o},
         exits[c].raised \subseteq e.raised, exits[c].missed \subseteq e.missed,
         o \in e.raised \/ \A b \in exits[c].at : <<o, b>> \in e.missed \/ leg'[o][b] # "live"
  PROVE  ExitAllInv'
<1> USE DEF ExitAllInv
<1>1. DOMAIN exits' = Callers /\ exits'[c] = e /\ \A d \in Callers \ {c} : exits'[d] = exits[d]
  BY DEF LegTypes
<1>2. LegTypes'
  BY <1>1 DEF LegTypes, Moves
<1>3. UnplacedInv'
  BY DEF UnplacedInv, Moves, LegTypes
<1>4. FoundInv'
  <2> SUFFICES ASSUME NEW d \in Callers, NEW l \in exits'[d].found
               PROVE  /\ l[1] \in Orders /\ l[2] \in exits'[d].at
                      /\ leg'[l[1]][l[2]] \in {"live", "asked"}
                      /\ l[1] \in exits'[d].todo \union exits'[d].raised \/ l \in exits'[d].missed \/ leg'[l[1]][l[2]] # "live"
    BY DEF FoundInv
  <2>1. l \in exits[d].found /\ exits'[d].at = exits[d].at
    BY <1>1
  <2>2. l[1] \in Orders /\ l[2] \in exits[d].at /\ l[2] \in Brokers
    BY <2>1 DEF FoundInv, LegTypes
  <2>3. leg'[l[1]][l[2]] \in {leg[l[1]][l[2]], "asked"} /\ leg[l[1]][l[2]] \in {"live", "asked"}
    BY <2>1, <2>2 DEF FoundInv, Moves
  <2>4. l[1] \in exits[d].todo \union exits[d].raised \/ l \in exits[d].missed \/ leg[l[1]][l[2]] # "live"
    BY <2>1 DEF FoundInv
  <2>5. l[1] \in exits'[d].todo \union exits'[d].raised \/ l \in exits'[d].missed \/ leg'[l[1]][l[2]] # "live"
    <3>1. CASE d # c
      BY <1>1, <2>3, <2>4, <3>1
    <3>2. CASE d = c /\ l[1] # o
      BY <1>1, <2>3, <2>4, <3>2
    <3>3. CASE d = c /\ l[1] = o
      <4>1. l = <<o, l[2]>>
        <5>1. l \in Orders \X Brokers
          BY <2>1 DEF LegTypes
        <5> QED BY <3>3, <5>1
      <4> QED BY <1>1, <2>2, <3>3, <4>1
    <3> QED BY <3>1, <3>2, <3>3
  <2> QED BY <2>1, <2>2, <2>3, <2>5
<1> QED BY <1>2, <1>3, <1>4

LEMMA StandStill == ASSUME LegTypes, UNCHANGED <<status, leg>> PROVE Moves
<1>1. \A o \in Orders, b \in Brokers : leg[o][b] \in Legs
  BY DEF LegTypes
<1> QED BY <1>1 DEF LegTypes, Moves

LEMMA ExitKeeps ==
  ASSUME ExitAllInv, NEW c \in Callers, NEW o \in Orders, Exit(c, o) \/ ExitRaises(c, o)
  PROVE  ExitAllInv'
<1>1. /\ LegTypes /\ UnplacedInv /\ exits[c].at \subseteq Brokers /\ DOMAIN exits = Callers
      /\ status[o] \in Statuses
  BY DEF ExitAllInv, LegTypes
<1>2. CASE Exit(c, o)
  <2>1. PICK missed \in SUBSET Tried(o, exits[c].at) :
          /\ OrderExited(o, exits[c].at, missed, status[o])
          /\ exits' = [exits EXCEPT ![c] = [exits[c] EXCEPT !.todo = exits[c].todo \ {o},
                                            !.missed = exits[c].missed \union {l \in missed : l[1] = o}]]
    BY <1>2 DEF Exit
  <2>2. Moves /\ \A b \in exits[c].at : <<o, b>> \notin missed => leg'[o][b] # "live"
    BY <1>1, <2>1, ExitedMoves
  <2> DEFINE e == [exits[c] EXCEPT !.todo = exits[c].todo \ {o}, !.missed = exits[c].missed \union {l \in missed : l[1] = o}]
  <2>3. /\ e.at = exits[c].at /\ e.found = exits[c].found /\ e.todo = exits[c].todo \ {o}
        /\ e.raised = exits[c].raised /\ e.missed = exits[c].missed \union {l \in missed : l[1] = o}
    BY DEF ExitAllInv, LegTypes
  <2>4. \A b \in exits[c].at : <<o, b>> \in e.missed \/ leg'[o][b] # "live"
    BY <2>2, <2>3
  <2>5. exits' = [exits EXCEPT ![c] = e]
    BY <2>1
  <2> HIDE DEF e
  <2> QED BY <2>2, <2>3, <2>4, <2>5, NextOrderKeeps
<1>3. CASE ExitRaises(c, o)
  <2>1. PICK missed \in SUBSET Tried(o, exits[c].at) : OrderExited(o, exits[c].at, missed, status[o])
    BY <1>3 DEF ExitRaises
  <2>2. Moves
    BY <1>1, <2>1, ExitedMoves
  <2> DEFINE e == [exits[c] EXCEPT !.todo = exits[c].todo \ {o}, !.raised = exits[c].raised \union {o}]
  <2>3. /\ e.at = exits[c].at /\ e.found = exits[c].found /\ e.todo = exits[c].todo \ {o}
        /\ e.raised = exits[c].raised \union {o} /\ e.missed = exits[c].missed
    BY DEF ExitAllInv, LegTypes
  <2>4. exits' = [exits EXCEPT ![c] = e]
    BY <1>3 DEF ExitRaises
  <2> HIDE DEF e
  <2> QED BY <2>2, <2>3, <2>4, NextOrderKeeps
<1> QED BY <1>2, <1>3

\* A call begins, with what is live; or it is over.
LEMMA CallKeeps ==
  ASSUME ExitAllInv, NEW c \in Callers, NEW strategies, NEW at \in SUBSET Brokers, UNCHANGED <<status, leg>>,
         Called(c, strategies, at) \/ exits' = [exits EXCEPT ![c] = NoCall]
  PROVE  ExitAllInv'
<1>1. DOMAIN exits = Callers /\ OpenOf(strategies) \subseteq Orders
  BY DEF ExitAllInv, LegTypes, OpenOf
<1>2. PICK e : /\ exits' = [exits EXCEPT ![c] = e]
               /\ e.at \subseteq Brokers /\ e.found \subseteq Orders \X Brokers
               /\ \A l \in e.found : /\ l[1] \in Orders /\ l[2] \in e.at
                                     /\ l[1] \in e.todo /\ leg[l[1]][l[2]] = "live"
  <2>1. CASE exits' = [exits EXCEPT ![c] = NoCall]
    <3>1. NoCall.at \subseteq Brokers /\ NoCall.found = {}
      BY DEF NoCall
    <3> QED BY <2>1, <3>1
  <2>2. CASE Called(c, strategies, at)
    <3> DEFINE open == OpenOf(strategies)
    <3> DEFINE e == [pc |-> "exiting", todo |-> open, at |-> at, raised |-> {}, missed |-> {},
                     found |-> {l \in open \X at : leg[l[1]][l[2]] = "live"}]
    <3>1. exits' = [exits EXCEPT ![c] = e]
      BY <2>2 DEF Called
    <3>2. \A l \in e.found : /\ l[1] \in Orders /\ l[2] \in at
                             /\ l[1] \in open /\ leg[l[1]][l[2]] = "live"
      BY <1>1
    <3>3. e.found \subseteq Orders \X Brokers
      BY <1>1
    <3> QED BY <3>1, <3>2, <3>3
  <2> QED BY <2>1, <2>2
<1>3. DOMAIN exits' = Callers /\ exits'[c] = e /\ \A d \in Callers \ {c} : exits'[d] = exits[d]
  BY <1>1, <1>2
<1>4. LegTypes' /\ UnplacedInv'
  BY <1>2, <1>3 DEF ExitAllInv, LegTypes, UnplacedInv
<1>5. FoundInv'
  <2> SUFFICES ASSUME NEW d \in Callers, NEW l \in exits'[d].found
               PROVE  /\ l[1] \in Orders /\ l[2] \in exits'[d].at
                      /\ leg[l[1]][l[2]] \in {"live", "asked"}
                      /\ l[1] \in exits'[d].todo \union exits'[d].raised \/ l \in exits'[d].missed \/ leg[l[1]][l[2]] # "live"
    BY DEF FoundInv
  <2>1. CASE d = c
    BY <1>2, <1>3, <2>1
  <2>2. CASE d # c
    BY <1>3, <2>2 DEF ExitAllInv, FoundInv
  <2> QED BY <2>1, <2>2
<1> QED BY <1>4, <1>5 DEF ExitAllInv

\* place_order, before and after the rows of the executions.
LEMMA PlaceKeeps ==
  ASSUME ExitAllInv, NEW o \in Orders, PlaceLegs(o) \/ RecordLegs(o)
  PROVE  ExitAllInv'
<1>1. CASE PlaceLegs(o)
  <2>1. /\ status' = [status EXCEPT ![o] = "AWAITING_ENTRY"]
        /\ leg' = [leg EXCEPT ![o] = [b \in Brokers |-> "sent"]]
        /\ exits' = exits
        /\ \A b \in Brokers : leg[o][b] = "none"
    BY <1>1 DEF PlaceLegs, ExitAllInv, UnplacedInv
  <2>2. LegTypes'
    BY <2>1 DEF ExitAllInv, LegTypes, Legs, Statuses
  <2>3. UnplacedInv'
    BY <2>1 DEF ExitAllInv, LegTypes, UnplacedInv
  <2>4. \A p \in Orders, b \in Brokers : leg[p][b] \in {"live", "asked"} => leg'[p][b] = leg[p][b]
    BY <2>1 DEF ExitAllInv, LegTypes
  <2>5. FoundInv'
    <3> SUFFICES ASSUME NEW d \in Callers, NEW l \in exits[d].found
                 PROVE  leg'[l[1]][l[2]] = leg[l[1]][l[2]]
      BY <2>1 DEF ExitAllInv, FoundInv
    <3> QED BY <2>4 DEF ExitAllInv, FoundInv, LegTypes
  <2> QED BY <2>2, <2>3, <2>5 DEF ExitAllInv
<1>2. CASE RecordLegs(o)
  <2>1. /\ leg' = [leg EXCEPT ![o] = [b \in Brokers |-> IF leg[o][b] = "sent" THEN "live" ELSE leg[o][b]]]
        /\ UNCHANGED <<status, exits>>
    BY <1>2 DEF RecordLegs
  <2>2. \A p \in Orders, b \in Brokers : leg[p][b] \in Legs
    BY DEF ExitAllInv, LegTypes
  <2>3. \A p \in Orders, b \in Brokers :
          leg'[p][b] = IF p = o /\ leg[p][b] = "sent" THEN "live" ELSE leg[p][b]
    BY <2>1 DEF ExitAllInv, LegTypes
  <2>4. leg' \in [Orders -> [Brokers -> Legs]]
    BY <2>1, <2>2 DEF ExitAllInv, LegTypes, Legs
  <2>5. Moves
    BY <2>1, <2>2, <2>3, <2>4 DEF ExitAllInv, LegTypes, Moves, Legs
  <2> QED BY <2>1, <2>5, MovesKeep
<1> QED BY <1>1, <1>2

LEMMA MonitorsKeep ==
  ASSUME ExitAllInv, NEW o \in Orders, MonitorFills(o) \/ MonitorExits(o)
  PROVE  ExitAllInv'
<1>1. LegTypes /\ \A p \in Orders, b \in Brokers : leg[p][b] \in Legs
  BY DEF ExitAllInv, LegTypes
<1>2. CASE MonitorFills(o)
  BY <1>1, <1>2, MovesKeep DEF MonitorFills, Moves, LegTypes, Statuses
<1>3. CASE MonitorExits(o)
  <2>1. Moves
    <3>1. PICK missed \in SUBSET Tried(o, Brokers) : OrderExited(o, Brokers, missed, "EXIT_PENDING")
      BY <1>3 DEF MonitorExits
    <3>2. UnplacedInv /\ "EXIT_PENDING" \in Statuses
      BY DEF ExitAllInv, Statuses
    <3> QED BY <1>1, <3>1, <3>2, ExitedMoves
  <2> QED BY <1>3, <2>1, MovesKeep DEF MonitorExits
<1> QED BY <1>2, <1>3

LEMMA ExitAllNextInv == ExitAllInv /\ [ExitAllNext]_exitAllVars => ExitAllInv'
<1> SUFFICES ASSUME ExitAllInv, [ExitAllNext]_exitAllVars PROVE ExitAllInv' OBVIOUS
<1>1. LegTypes
  BY DEF ExitAllInv
<1>2. CASE UNCHANGED exitAllVars
  BY <1>1, <1>2, StandStill, MovesKeep DEF exitAllVars
<1>3. ASSUME NEW c \in Callers, Finish(c) PROVE ExitAllInv'
  BY <1>3, CallKeeps DEF Finish
<1>4. ASSUME NEW c \in Callers, NEW o \in Orders, Exit(c, o) \/ ExitRaises(c, o) PROVE ExitAllInv'
  BY <1>4, ExitKeeps
<1>5. CASE ApiExitAll
  BY <1>5, CallKeeps DEF ApiExitAll, Callers
<1>6. CASE CheckRisk
  <2>1. CASE exits' = exits
    BY <1>1, <1>6, <2>1, StandStill, MovesKeep DEF CheckRisk
  <2>2. ASSUME NEW b \in Brokers, EmergencyStop(b) PROVE ExitAllInv'
    BY <1>6, <2>2, CallKeeps DEF CheckRisk, EmergencyStop, Callers
  <2> QED BY <1>6, <2>1, <2>2 DEF CheckRisk
<1>7. ASSUME NEW o \in Orders, PlaceLegs(o) \/ RecordLegs(o) \/ MonitorFills(o) \/ MonitorExits(o)
      PROVE  ExitAllInv'
  BY <1>7, PlaceKeeps, MonitorsKeep
<1>8. ASSUME NEW b \in Brokers, PricesMove(b) PROVE ExitAllInv'
  BY <1>1, <1>8, StandStill, MovesKeep DEF PricesMove
<1> QED BY <1>2, <1>3, <1>4, <1>5, <1>6, <1>7, <1>8 DEF ExitAllNext

\* Exit-all leaves no leg live that it found, but where the exit of its own order raised
\* or failed to end it, for any orders, hedges and brokers, and whoever else is at them:
\* the exit of one order comes to nothing, and the others are taken all the same
\* (order_manager.py:859).
THEOREM AllAreAsked == ExitAllSpec => []AllAsked
<1>1. ExitAllInv => AllAsked
  <2> SUFFICES ASSUME ExitAllInv, NEW c \in Callers, Done(c), NEW l \in exits[c].found
               PROVE  l[1] \in exits[c].raised \/ l \in exits[c].missed \/ leg[l[1]][l[2]] # "live"
    BY DEF AllAsked
  <2>1. l[1] \in exits[c].todo \union exits[c].raised \/ l \in exits[c].missed \/ leg[l[1]][l[2]] # "live"
    BY DEF ExitAllInv, FoundInv
  <2> QED BY <2>1 DEF Done
<1> QED BY <1>1, ExitAllInitInv, ExitAllNextInv, PTL DEF ExitAllSpec

--------------------------------------------------------------------------------
(***************************************************************************)
(* PlaceOrder.  What a broker has taken and answered for in the slice under way  *)
(* is in `reply`, unless its id was not found; until the commit it is in the     *)
(* session, unless a statement failed.                                     *)
(***************************************************************************)
PlacePcs == {"new", "brokers", "lookup", "record", "returned", "raised", "cut"}

PlaceTypes ==
  /\ order \in [slices : Nat, margin : BOOLEAN]
  /\ place \in [pc : PlacePcs, slice : Nat \ {0}, todo : SUBSET TradingBrokers, asked : SUBSET TradingBrokers]
  /\ reply \in [TradingBrokers -> {"none", "False", "FAILED", "AWAITING_ENTRY"}]
  /\ session \in [manager : BOOLEAN, executions : BOOLEAN]
  /\ troubles \in Nat
  /\ market \subseteq TradingBrokers \X Nat

Took(b, k)        == <<b, k>> \in market /\ <<b, k>> \notin mute
ExecutionOf(b, k) == [broker |-> b, slice |-> k, status |-> "AWAITING_ENTRY"]

\* A broker takes a slice once, and none before its turn.
TurnInv ==
  /\ place.slice <= order.slices
  /\ \A b \in TradingBrokers, k \in Nat : <<b, k>> \in market => k \in 1..place.slice
  /\ place.pc \in {"new", "brokers", "lookup"} => \A b \in place.todo : <<b, place.slice>> \notin market

AnsweredInv ==
  place.pc \in {"brokers", "lookup", "record", "returned"} =>
    \A b \in TradingBrokers : Took(b, place.slice) => reply[b] \in {"AWAITING_ENTRY", "False"}

RecordedInv ==
  troubles = 0 =>
    /\ session.manager /\ session.executions
    /\ place.pc = "returned" =>
         \A b \in TradingBrokers, k \in Nat : Took(b, k) => ExecutionOf(b, k) \in executions
    /\ place.pc \in {"brokers", "lookup", "record"} =>
         \A b \in TradingBrokers, k \in Nat : Took(b, k) =>
           /\ k < place.slice => ExecutionOf(b, k) \in pending
           /\ k = place.slice => reply[b] = "AWAITING_ENTRY"
           /\ k = place.slice /\ place.pc = "record" /\ b \notin place.todo => ExecutionOf(b, k) \in pending

NewInv == place.pc = "new" => market = {}

AccountInv == PlaceTypes /\ TurnInv /\ AnsweredInv /\ RecordedInv /\ NewInv

LEMMA AccountInitInv == PlaceConstants /\ PlaceInit => AccountInv
  BY DEF PlaceConstants, PlaceInit, AccountInv, PlaceTypes, TurnInv, AnsweredInv, RecordedInv, NewInv,
         PlacePcs, Slices, Took

LEMMA BeginsKeeps == ASSUME AccountInv, InsertOrder \/ NoOrderRow PROVE AccountInv'
<1> USE DEF AccountInv, PlaceTypes, TurnInv, AnsweredInv, RecordedInv, NewInv, PlacePcs, Took
<1>1. CASE InsertOrder
  BY <1>1 DEF InsertOrder, EachBroker, PlaceAt
<1>2. CASE NoOrderRow
  BY <1>2 DEF NoOrderRow, Ends, PlaceAt
<1> QED BY <1>1, <1>2

\* A broker answers.
LEMMA RepliesKeep ==
  ASSUME AccountInv, NEW b \in place.todo,
         Skip(b) \/ NoMargin(b) \/ Takes(b) \/ Refuses(b) \/ AnswerLost(b)
  PROVE  AccountInv'
<1> USE DEF AccountInv, PlaceTypes, TurnInv, AnsweredInv, RecordedInv, NewInv, PlacePcs, Took
<1>1. CASE Skip(b)
  BY <1>1 DEF Skip, Replied, Past, PlaceAt
<1>2. CASE NoMargin(b)
  BY <1>2 DEF NoMargin, Replied, Past, PlaceAt
<1>3. CASE Takes(b)
  <2>1. /\ place.pc = "brokers" /\ place'.pc = "lookup" /\ place'.slice = place.slice /\ place'.todo = place.todo \ {b}
        /\ reply' = [reply EXCEPT ![b] = "AWAITING_ENTRY"]
        /\ market' = market \union {<<b, place.slice>>}
        /\ UNCHANGED <<order, mute, session, pending, executions, troubles>>
    BY <1>3 DEF Takes, Replied, Taken, AskedOf, PlaceAt
  <2>2. PlaceTypes'
    <3>1. <<b, place.slice>> \in TradingBrokers \X Nat
      OBVIOUS
    <3> QED BY <1>3, <2>1, <3>1 DEF Takes, Replied, Taken, AskedOf, PlaceAt
  <2>3. TurnInv'
    BY <2>1, <2>2
  <2>4. AnsweredInv'
    BY <2>1, <2>2
  <2>5. RecordedInv'
    BY <2>1, <2>2
  <2>6. NewInv'
    BY <2>1, <2>2
  <2> QED BY <2>2, <2>3, <2>4, <2>5, <2>6
<1>4. CASE Refuses(b)
  <2>1. /\ place.pc = "brokers" /\ place'.pc = "lookup" /\ place'.slice = place.slice /\ place'.todo = place.todo \ {b}
        /\ reply' = [reply EXCEPT ![b] = "FAILED"]
        /\ UNCHANGED <<order, market, mute, session, pending, executions, troubles>>
    BY <1>4 DEF Refuses, Replied, AskedOf, PlaceAt
  <2>2. PlaceTypes'
    BY <1>4, <2>1 DEF Refuses, Replied, AskedOf, PlaceAt
  <2>3. TurnInv'
    BY <2>1, <2>2
  <2>4. AnsweredInv'
    BY <2>1, <2>2
  <2>5. RecordedInv'
    BY <2>1, <2>2
  <2>6. NewInv'
    BY <2>1, <2>2
  <2> QED BY <2>2, <2>3, <2>4, <2>5, <2>6
<1>5. CASE AnswerLost(b)
  <2>1. /\ place.pc = "brokers" /\ place'.pc = "lookup" /\ place'.slice = place.slice /\ place'.todo = place.todo \ {b}
        /\ reply' = [reply EXCEPT ![b] = "FAILED"]
        /\ market' = market \union {<<b, place.slice>>} /\ mute' = mute \union {<<b, place.slice>>}
        /\ UNCHANGED <<order, session, pending, executions, troubles>>
    BY <1>5 DEF AnswerLost, Replied, Taken, AskedOf, PlaceAt
  <2>2. PlaceTypes'
    <3>1. <<b, place.slice>> \in TradingBrokers \X Nat
      OBVIOUS
    <3> QED BY <1>5, <2>1, <3>1 DEF AnswerLost, Replied, Taken, AskedOf, PlaceAt
  <2>3. TurnInv'
    BY <2>1, <2>2
  <2>4. AnsweredInv'
    BY <2>1, <2>2
  <2>5. RecordedInv'
    BY <2>1, <2>2
  <2>6. NewInv'
    BY <2>1, <2>2
  <2> QED BY <2>2, <2>3, <2>4, <2>5, <2>6
<1> QED BY <1>1, <1>2, <1>3, <1>4, <1>5

LEMMA LookupKeeps == ASSUME AccountInv, Lookup \/ LookupFails \/ Fanned PROVE AccountInv'
<1> USE DEF AccountInv, PlaceTypes, TurnInv, AnsweredInv, RecordedInv, NewInv, PlacePcs, Took
<1>1. CASE Lookup
  BY <1>1 DEF Lookup, PlaceAt
<1>2. CASE LookupFails
  <2>1. /\ place.pc = "lookup" /\ place'.pc = "brokers" /\ place'.slice = place.slice /\ place'.todo = place.todo
        /\ troubles' \in Nat /\ troubles' # 0 /\ session' \in [manager : BOOLEAN, executions : BOOLEAN]
        /\ \A b \in TradingBrokers : reply'[b] \in {"False", reply[b]}
        /\ UNCHANGED <<order, market, mute, pending, executions>>
    <3>1. troubles' \in Nat /\ troubles' # 0
      <4>1. CASE session.manager
        BY <1>2, <4>1 DEF LookupFails, Trouble
      <4>2. CASE ~session.manager
        <5>1. troubles # 0
          BY <4>2, Zenon DEF RecordedInv
        <5> QED BY <1>2, <4>2, <5>1 DEF LookupFails, Trouble
      <4> QED BY <4>1, <4>2
    <3>2. session' \in [manager : BOOLEAN, executions : BOOLEAN]
      BY <1>2 DEF LookupFails
    <3> QED BY <1>2, <3>1, <3>2 DEF LookupFails, PlaceAt
  <2>2. PlaceTypes'
    BY <1>2, <2>1 DEF LookupFails, PlaceAt, Trouble
  <2>3. TurnInv'
    BY <2>1, <2>2
  <2>4. AnsweredInv'
    BY <2>1, <2>2
  <2>5. RecordedInv'
    BY <2>1, <2>2
  <2>6. NewInv'
    BY <2>1, <2>2
  <2> QED BY <2>2, <2>3, <2>4, <2>5, <2>6
<1>3. CASE Fanned
  BY <1>3 DEF Fanned, EachBroker, PlaceAt
<1> QED BY <1>1, <1>2, <1>3

\* The executions, and the next slice.
LEMMA InsertKeeps == ASSUME AccountInv, NEW b \in place.todo, Insert(b) \/ InsertFails(b) PROVE AccountInv'
<1> USE DEF AccountInv, PlaceTypes, TurnInv, AnsweredInv, RecordedInv, NewInv, PlacePcs, Took
<1>1. CASE Insert(b)
  BY <1>1 DEF Insert, PlaceAt, ExecutionOf
<1>2. CASE InsertFails(b)
  <2>1. /\ place.pc = "record" /\ place'.pc = "record" /\ place'.slice = place.slice /\ place'.todo = place.todo \ {b}
        /\ troubles' \in Nat /\ troubles' # 0 /\ session' \in [manager : BOOLEAN, executions : BOOLEAN]
        /\ UNCHANGED <<order, market, mute, reply, executions>>
    <3>1. session' \in [manager : BOOLEAN, executions : BOOLEAN]
      BY <1>2 DEF InsertFails
    <3> QED BY <1>2, <3>1 DEF InsertFails, PlaceAt, Trouble
  <2>2. PlaceTypes'
    BY <1>2, <2>1 DEF InsertFails, PlaceAt, Trouble
  <2>3. TurnInv'
    BY <2>1, <2>2
  <2>4. AnsweredInv'
    BY <2>1, <2>2
  <2>5. RecordedInv'
    BY <2>1, <2>2
  <2>6. NewInv'
    BY <2>1, <2>2
  <2> QED BY <2>2, <2>3, <2>4, <2>5, <2>6
<1> QED BY <1>1, <1>2

LEMMA SliceKeeps == ASSUME AccountInv, NextSlice \/ Commit PROVE AccountInv'
<1> USE DEF AccountInv, PlaceTypes, TurnInv, AnsweredInv, RecordedInv, NewInv, PlacePcs, Took
<1>1. CASE NextSlice
  <2>1. /\ place.pc = "record" /\ place'.pc = "brokers" /\ place'.slice = place.slice + 1 /\ place.slice < order.slices
        /\ place.todo = {} /\ UNCHANGED <<order, market, mute, reply, session, pending, executions, troubles>>
    BY <1>1 DEF NextSlice, PlaceAt
  <2>2. PlaceTypes'
    <3>1. place.slice + 1 \in Nat \ {0}
      OBVIOUS
    <3>2. place' \in [pc : PlacePcs, slice : Nat \ {0}, todo : SUBSET TradingBrokers, asked : SUBSET TradingBrokers]
      BY <1>1, <3>1 DEF NextSlice
    <3> QED BY <2>1, <3>2
  <2>3. TurnInv'
    BY <2>1, <2>2
  <2>4. AnsweredInv'
    BY <2>1, <2>2
  <2>5. RecordedInv'
    BY <2>1, <2>2
  <2>6. NewInv'
    BY <2>1, <2>2
  <2> QED BY <2>2, <2>3, <2>4, <2>5, <2>6
<1>2. CASE Commit
  <2>1. /\ place.pc = "record" /\ place'.pc = "returned" /\ place'.slice = place.slice /\ place.slice = order.slices
        /\ place.todo = {} /\ executions' = executions \union pending
        /\ UNCHANGED <<order, market, mute, reply, session, troubles>>
    BY <1>2 DEF Commit, Ends, PlaceAt
  <2>2. PlaceTypes'
    BY <1>2, <2>1 DEF Commit, Ends, PlaceAt
  <2>3. TurnInv'
    BY <2>1, <2>2
  <2>4. AnsweredInv'
    BY <2>1, <2>2
  <2>5. RecordedInv'
    BY <2>1, <2>2
  <2>6. NewInv'
    BY <2>1, <2>2
  <2> QED BY <2>2, <2>3, <2>4, <2>5, <2>6
<1> QED BY <1>1, <1>2

\* The call ends with nothing committed.
LEMMA EndsKeeps == ASSUME AccountInv, NoBrokersRead \/ CommitRaises \/ Cut PROVE AccountInv'
<1> USE DEF AccountInv, PlaceTypes, TurnInv, AnsweredInv, RecordedInv, NewInv, PlacePcs, Took
<1>1. CASE NoBrokersRead
  <2>1. /\ place'.pc = "raised" /\ place'.slice = place.slice
        /\ troubles' \in Nat /\ troubles' # 0
        /\ UNCHANGED <<order, market, mute, reply, session, executions>>
    BY <1>1 DEF NoBrokersRead, Raised, Ends, Trouble, PlaceAt
  <2>2. PlaceTypes'
    BY <1>1, <2>1 DEF NoBrokersRead, Raised, Ends, Trouble, PlaceAt
  <2>3. TurnInv'
    BY <2>1, <2>2
  <2>4. AnsweredInv'
    BY <2>1, <2>2
  <2>5. RecordedInv'
    BY <2>1, <2>2
  <2>6. NewInv'
    BY <2>1, <2>2
  <2> QED BY <2>2, <2>3, <2>4, <2>5, <2>6
<1>2. CASE CommitRaises
  <2>1. /\ place'.pc = "raised" /\ place'.slice = place.slice
        /\ troubles' \in Nat /\ troubles' # 0
        /\ UNCHANGED <<order, market, mute, reply, session, executions>>
    <3>1. CASE session.executions
      BY <1>2, <3>1 DEF CommitRaises, Raised, Ends, Trouble, PlaceAt
    <3>2. CASE ~session.executions
      <4>1. troubles # 0
        BY <3>2, Zenon DEF RecordedInv
      <4> QED BY <1>2, <3>2, <4>1 DEF CommitRaises, Raised, Ends, Trouble, PlaceAt
    <3> QED BY <3>1, <3>2
  <2>2. PlaceTypes'
    BY <1>2, <2>1 DEF CommitRaises, Raised, Ends, Trouble, PlaceAt
  <2>3. TurnInv'
    BY <2>1, <2>2
  <2>4. AnsweredInv'
    BY <2>1, <2>2
  <2>5. RecordedInv'
    BY <2>1, <2>2
  <2>6. NewInv'
    BY <2>1, <2>2
  <2> QED BY <2>2, <2>3, <2>4, <2>5, <2>6
<1>3. CASE Cut
  <2>1. /\ place'.pc = "cut" /\ place'.slice = place.slice
        /\ market' \subseteq market \union {<<b, place.slice>> : b \in place.todo}
        /\ UNCHANGED <<order, reply, session, executions, troubles>>
    BY <1>3 DEF Cut, Ends, PlaceAt
  <2>2. PlaceTypes'
    <3>1. \A b \in place.todo : <<b, place.slice>> \in TradingBrokers \X Nat
      OBVIOUS
    <3>2. market' \subseteq TradingBrokers \X Nat
      BY <2>1, <3>1
    <3> QED BY <1>3, <2>1, <3>2 DEF Cut, Ends, PlaceAt
  <2>3. TurnInv'
    BY <2>1, <2>2
  <2>4. AnsweredInv'
    BY <2>1, <2>2
  <2>5. RecordedInv'
    BY <2>1, <2>2
  <2>6. NewInv'
    BY <2>1, <2>2
  <2> QED BY <2>2, <2>3, <2>4, <2>5, <2>6
<1> QED BY <1>1, <1>2, <1>3

LEMMA AccountNextInv == AccountInv /\ [PlaceNext]_placeVars => AccountInv'
<1> SUFFICES ASSUME AccountInv, [PlaceNext]_placeVars PROVE AccountInv' OBVIOUS
<1>1. CASE UNCHANGED placeVars
  BY <1>1 DEF placeVars, AccountInv, PlaceTypes, TurnInv, AnsweredInv, RecordedInv, NewInv, Took
<1>2. CASE PlaceNext
  BY <1>2, BeginsKeeps, RepliesKeep, LookupKeeps, InsertKeeps, SliceKeeps, EndsKeeps DEF PlaceNext
<1> QED BY <1>1, <1>2

\* Whatever calls, statements and slices fail or are cut off, an order that is given up
\* because all brokers failed is not in the market, but for answers that were lost; and
\* without a failed statement every order a broker took has its execution
\* (order_manager.py:218).
THEOREM PlacedAccounted == PlaceConstants => (PlaceSpec => []PlacedIsAccounted)
<1> SUFFICES ASSUME PlaceConstants PROVE PlaceSpec => []PlacedIsAccounted OBVIOUS
<1>1. AccountInv => GivenUpIsOut
  <2> SUFFICES ASSUME AccountInv, AllFailed, NEW m \in market PROVE m \in mute
    BY DEF GivenUpIsOut
  <2>1. PICK b \in TradingBrokers, k \in Nat : m = <<b, k>>
    BY DEF AccountInv, PlaceTypes
  <2>2. reply[b] = "FAILED" /\ place.pc = "returned" /\ order.slices = 1
    BY DEF AllFailed, PlaceAt
  <2>3. k = place.slice /\ k = 1
    BY <2>1, <2>2 DEF AccountInv, TurnInv, PlaceTypes
  <2> QED BY <2>1, <2>2, <2>3 DEF AccountInv, AnsweredInv, Took
<1>2. AccountInv => TakenIsRecorded
  <2> SUFFICES ASSUME AccountInv, place.pc = "returned", troubles = 0, NEW m \in market \ mute
               PROVE  [broker |-> m[1], slice |-> m[2], status |-> "AWAITING_ENTRY"] \in executions
    BY DEF TakenIsRecorded, PlaceAt
  <2>1. PICK b \in TradingBrokers, k \in Nat : m = <<b, k>>
    BY DEF AccountInv, PlaceTypes
  <2> QED BY <2>1 DEF AccountInv, RecordedInv, Took, ExecutionOf
<1> QED BY <1>1, <1>2, AccountInitInv, AccountNextInv, PTL DEF PlaceSpec, PlacedIsAccounted

--------------------------------------------------------------------------------
(***************************************************************************)
(* OptionTrade.  The row a coroutine has in hand may be old: its target is that *)
(* of the position, its stop one that the position has had.  The row a signal    *)
(* trails by is not old, because the price coroutine has read it since the last   *)
(* signal, and before the next.                                            *)
(***************************************************************************)
PriceRows ==
  [stop : Int, orig : Int, at : Int, target : Int,
   status : {"OPEN", "EXIT_REVERSAL", "EXIT_TARGET_PENDING", "EXIT_STOPLOSS_PENDING"}]

TradeTypes ==
  /\ setting.side \in {"BUY", "SELL"} /\ setting.trailing \in BOOLEAN
  /\ price \in Int
  /\ position \in PriceRows
  /\ cache \in PriceRows \union {NoPosition}
  /\ look \in [pc : {"idle", "read", "quote", "decide"}, row : PriceRows \union {NoPosition}, quote : Int]
  /\ look.pc # "idle" => look.row \in PriceRows
  /\ signal \in [pc : {"idle", "read", "candles", "reversal"}, row : PriceRows \union {NoPosition}]
  /\ signal.pc # "idle" => signal.row \in PriceRows
  /\ passes \in {"none", "begun", "done"}

\* A row has the stop of the position.
Fresh_(r) == r.stop = position.stop

LookInv ==
  look.pc # "idle" => look.row.target = position.target /\ Beyond(position.stop, look.row.stop)

FreshInv ==
  /\ signal.pc # "idle" => passes = "done"
  /\ signal.pc \in {"read", "candles"} => Fresh_(signal.row)
  /\ signal.pc = "idle" /\ passes = "done" => cache = NoPosition \/ Fresh_(cache)
  /\ passes = "begun" => look.pc = "read"
  /\ look.pc = "read" /\ passes # "none" /\ signal.pc # "reversal" => Fresh_(look.row)

TradeInv == TradeTypes /\ LookInv /\ FreshInv /\ ExitsAreDue

LEMMA Products == \A x, y \in Int : x * y \in Int
  OBVIOUS

\* The prices of an entry are whole numbers of ticks.
LEMMA BufferIsInt == ASSUME NEW r \in Int, NEW b \in Buffers PROVE DynamicBuffer(r, b) \in Int
  BY DEF DynamicBuffer, Buffers

LEMMA OrderIsRow ==
  ASSUME OptionTradeConstants, NEW c \in Candles, NEW s \in Settings, NEW m \in {s.multiplier, s.sideways}
  PROVE  BuyOrder(c, s, m) \in PriceRows /\ SellOrder(c, s, m) \in PriceRows
<1>1. /\ c.high \in Int /\ c.low \in Int /\ c.atr \in Int /\ m \in Int /\ s.multiplier \in Int
      /\ s.entry \in Buffers /\ s.stop \in Buffers /\ s.target \in Buffers
  BY DEF OptionTradeConstants
<1>2. c.high - c.low \in Int /\ c.atr * m \in Int /\ 5 * c.atr * s.multiplier \in Int
  <2>1. c.high - c.low \in Int /\ 5 * c.atr \in Int
    BY <1>1
  <2> QED BY <1>1, <2>1, Products
<1>3. /\ DynamicBuffer(c.high - c.low, s.entry) \in Int /\ DynamicBuffer(c.high - c.low, s.stop) \in Int
      /\ DynamicBuffer(c.atr, s.target) \in Int
  BY <1>1, <1>2, BufferIsInt
<1> DEFINE far == 5 * c.atr * s.multiplier
<1>4. far \in Int
  BY <1>2
<1>5. BuyOrder(c, s, m) \in PriceRows
  <2> DEFINE t == BuyTrade(c, s, m)
  <2>1. t.stop \in Int /\ t.target \in Int
    BY <1>1, <1>2, <1>3 DEF BuyTrade
  <2>2. BuyOrder(c, s, m) = [stop |-> t.stop, orig |-> t.target, status |-> "OPEN", at |-> 0,
                             target |-> IF s.trailing THEN t.target + far ELSE t.target]
    BY DEF BuyOrder
  <2> HIDE DEF t, far
  <2> QED BY <1>4, <2>1, <2>2 DEF PriceRows
<1>6. SellOrder(c, s, m) \in PriceRows
  <2> DEFINE t == SellTrade(c, s, m)
  <2>1. t.stop \in Int /\ t.target \in Int
    BY <1>1, <1>2, <1>3 DEF SellTrade
  <2>2. SellOrder(c, s, m) = [stop |-> t.stop, orig |-> t.target, status |-> "OPEN", at |-> 0,
                              target |-> IF s.trailing THEN t.target - far ELSE t.target]
    BY DEF SellOrder
  <2> HIDE DEF t, far
  <2> QED BY <1>4, <2>1, <2>2 DEF PriceRows
<1> QED BY <1>5, <1>6

LEMMA TradeInitInv == OptionTradeConstants /\ TradeInit => TradeInv
<1> SUFFICES ASSUME OptionTradeConstants, TradeInit PROVE TradeInv OBVIOUS
<1>1. position \in PriceRows /\ position.status = "OPEN"
  <2>1. PICK c \in Candles, m \in {setting.multiplier, setting.sideways} :
          position = IF setting.side = "BUY" THEN BuyOrder(c, setting, m) ELSE SellOrder(c, setting, m)
    BY DEF TradeInit
  <2>2. position \in PriceRows
    BY <2>1, OrderIsRow DEF TradeInit
  <2>3. position.status = "OPEN"
    BY <2>1 DEF BuyOrder, SellOrder
  <2> QED BY <2>2, <2>3
<1>2. TradeTypes
  BY <1>1 DEF TradeInit, TradeTypes, OptionTradeConstants
<1> QED BY <1>1, <1>2 DEF TradeInit, TradeInv, LookInv, FreshInv, ExitsAreDue

--------------------------------------------------------------------------------
LEMMA PriceKeeps ==
  ASSUME TradeInv, PriceReads \/ PriceStores \/ PriceQuoted \/ PriceDecides
  PROVE  TradeInv' /\ position'.stop = position.stop
<1> USE DEF TradeInv, TradeTypes, PriceRows
<1>1. CASE PriceReads
  <2>1. TradeTypes'
    BY <1>1 DEF PriceReads
  <2>2. LookInv' /\ FreshInv' /\ ExitsAreDue'
    BY <1>1, <2>1 DEF PriceReads, LookInv, FreshInv, Fresh_, ExitsAreDue, Beyond
  <2> QED BY <1>1, <2>1, <2>2 DEF PriceReads
<1>2. CASE PriceStores
  <2>1. TradeTypes'
    BY <1>2 DEF PriceStores
  <2>2. LookInv' /\ FreshInv' /\ ExitsAreDue'
    BY <1>2, <2>1 DEF PriceStores, LookInv, FreshInv, Fresh_, ExitsAreDue, Beyond
  <2> QED BY <1>2, <2>1, <2>2 DEF PriceStores
<1>3. CASE PriceQuoted
  <2>1. TradeTypes'
    <3>1. /\ look'.pc = "decide" /\ look'.row = look.row /\ look'.quote = price /\ look.pc = "quote"
          /\ look' = [pc |-> look'.pc, row |-> look'.row, quote |-> look'.quote]
          /\ UNCHANGED <<setting, price, position, cache, signal, passes>>
      BY <1>3 DEF PriceQuoted
    <3> QED BY <3>1
  <2>2. LookInv' /\ FreshInv' /\ ExitsAreDue'
    BY <1>3, <2>1 DEF PriceQuoted, LookInv, FreshInv, Fresh_, ExitsAreDue, Beyond
  <2> QED BY <1>3, <2>1, <2>2 DEF PriceQuoted
<1>4. CASE PriceDecides
  <2> DEFINE s == IF look.row.status = "OPEN" THEN Decided(look.row, look.quote) ELSE "OPEN"
  <2>1. /\ position' = IF s = "OPEN" THEN position ELSE [position EXCEPT !.status = s, !.at = look.quote]
        /\ look' = [look EXCEPT !.pc = "idle"] /\ look.pc = "decide"
        /\ UNCHANGED <<setting, price, cache, signal, passes>>
    BY <1>4 DEF PriceDecides
  <2>2. /\ s \in {"OPEN", "EXIT_TARGET_PENDING", "EXIT_STOPLOSS_PENDING"}
        /\ s = "EXIT_TARGET_PENDING" => Beyond(look.quote, look.row.target)
        /\ s = "EXIT_STOPLOSS_PENDING" => Beyond(look.row.stop, look.quote)
    BY DEF Decided, AtTarget, AtStop, Beyond
  <2> HIDE DEF s
  <2>3. /\ position' \in PriceRows /\ position'.stop = position.stop /\ position'.target = position.target
        /\ s = "OPEN" => position' = position
        /\ s # "OPEN" => position'.status = s /\ position'.at = look.quote
    BY <2>1, <2>2
  <2>4. TradeTypes'
    BY <2>1, <2>3
  <2>5. LookInv' /\ FreshInv'
    BY <2>1, <2>3 DEF LookInv, FreshInv, Fresh_
  <2>6. ExitsAreDue'
    BY <2>1, <2>2, <2>3 DEF LookInv, ExitsAreDue, Beyond
  <2> QED BY <2>3, <2>4, <2>5, <2>6
<1> QED BY <1>1, <1>2, <1>3, <1>4

LEMMA SignalKeeps ==
  ASSUME TradeInv, SignalBegins \/ SignalStores \/ SignalEnds
  PROVE  TradeInv' /\ position'.stop = position.stop
<1> USE DEF TradeInv, TradeTypes, PriceRows
<1>1. CASE SignalBegins
  <2>1. TradeTypes'
    BY <1>1 DEF SignalBegins
  <2>2. LookInv' /\ FreshInv' /\ ExitsAreDue'
    BY <1>1, <2>1 DEF SignalBegins, LookInv, FreshInv, Fresh_, ExitsAreDue, Beyond
  <2> QED BY <1>1, <2>1, <2>2 DEF SignalBegins
<1>2. CASE SignalStores
  <2>1. TradeTypes'
    BY <1>2 DEF SignalStores
  <2>2. LookInv' /\ FreshInv' /\ ExitsAreDue'
    BY <1>2, <2>1 DEF SignalStores, LookInv, FreshInv, Fresh_, ExitsAreDue, Beyond
  <2> QED BY <1>2, <2>1, <2>2 DEF SignalStores
<1>3. CASE SignalEnds
  <2>1. /\ position' \in PriceRows /\ position'.stop = position.stop /\ position'.target = position.target
        /\ position' = position \/ position'.status = "EXIT_REVERSAL"
    BY <1>3 DEF SignalEnds
  <2>2. TradeTypes'
    BY <1>3, <2>1 DEF SignalEnds
  <2>3. LookInv' /\ FreshInv' /\ ExitsAreDue'
    BY <1>3, <2>1, <2>2 DEF SignalEnds, LookInv, FreshInv, Fresh_, ExitsAreDue, Beyond
  <2> QED BY <2>1, <2>2, <2>3
<1> QED BY <1>1, <1>2, <1>3

LEMMA TrailsKeeps ==
  ASSUME OptionTradeConstants, TradeInv, SignalTrails
  PROVE  TradeInv' /\ Beyond(position'.stop, position.stop)
<1> USE DEF TradeInv, TradeTypes, PriceRows
<1>1. PICK new \in Int :
        position' = IF Trails(signal.row, price, new) THEN [position EXCEPT !.stop = new] ELSE position
  BY DEF SignalTrails, OptionTradeConstants
<1>2. /\ signal.pc = "candles" /\ signal' = [signal EXCEPT !.pc = "reversal"]
      /\ UNCHANGED <<setting, price, cache, look, passes>>
  BY DEF SignalTrails
<1>3. Beyond(position'.stop, position.stop)
  BY <1>1, <1>2 DEF Trails, BuyTrails, SellTrails, Beyond, FreshInv, Fresh_
<1>4. /\ position' \in PriceRows /\ position'.target = position.target
      /\ position'.status = position.status /\ position'.at = position.at
  BY <1>1
<1>5. TradeTypes'
  BY <1>2, <1>4
<1>6. LookInv' /\ ExitsAreDue'
  BY <1>2, <1>3, <1>4 DEF LookInv, ExitsAreDue, Beyond
<1>7. FreshInv'
  BY <1>2 DEF FreshInv
<1> QED BY <1>3, <1>5, <1>6, <1>7

LEMMA TradeNextInv ==
  OptionTradeConstants /\ TradeInv /\ [TradeNext]_optionTradeVars =>
    TradeInv' /\ Beyond(position'.stop, position.stop)
<1> SUFFICES ASSUME OptionTradeConstants, TradeInv, [TradeNext]_optionTradeVars
             PROVE  TradeInv' /\ Beyond(position'.stop, position.stop)
  OBVIOUS
<1>1. position'.stop = position.stop => Beyond(position'.stop, position.stop)
  BY DEF Beyond, TradeInv, TradeTypes, PriceRows
<1>2. CASE UNCHANGED optionTradeVars
  <2>1. TradeInv'
    BY <1>2 DEF optionTradeVars, TradeInv, TradeTypes, LookInv, FreshInv, Fresh_, ExitsAreDue, Beyond
  <2> QED BY <1>1, <1>2, <2>1 DEF optionTradeVars
<1>3. CASE PriceMoves
  <2>1. price' \in Int /\ UNCHANGED <<setting, position, cache, look, signal, passes>>
    BY <1>3 DEF PriceMoves, OptionTradeConstants
  <2>2. TradeInv'
    BY <2>1 DEF TradeInv, TradeTypes, LookInv, FreshInv, Fresh_, ExitsAreDue, Beyond
  <2> QED BY <1>1, <2>1, <2>2
<1>4. CASE TradeNext
  BY <1>1, <1>3, <1>4, PriceKeeps, SignalKeeps, TrailsKeeps DEF TradeNext
<1> QED BY <1>2, <1>4

\* An exit at the target or the stop is due by the position as it is, however old the row
\* is that the price coroutine decided by, for any prices, candles and buffers
\* (order_monitor.py:983).
THEOREM PriceExitsDue == OptionTradeConstants => (TradeSpec => []ExitsAreDue)
<1> SUFFICES ASSUME OptionTradeConstants PROVE TradeSpec => []ExitsAreDue OBVIOUS
<1>1. TradeInv => ExitsAreDue
  BY DEF TradeInv
<1> QED BY <1>1, TradeInitInv, TradeNextInv, PTL DEF TradeSpec

\* The stop of an option position never gives way, whatever rows the two coroutines have
\* in hand (option_buy.py:829).
THEOREM StopOnlyTightens == OptionTradeConstants => (TradeSpec => OptionStopTightens)
<1> SUFFICES ASSUME OptionTradeConstants PROVE TradeSpec => OptionStopTightens OBVIOUS
<1>1. TradeInv /\ [TradeNext]_optionTradeVars => [Beyond(position'.stop, position.stop)]_optionTradeVars
  BY TradeNextInv
<1> QED BY <1>1, TradeInitInv, TradeNextInv, PTL DEF TradeSpec, OptionStopTightens

--------------------------------------------------------------------------------
(***************************************************************************)
(* SwingEntry: types.                                                      *)
(***************************************************************************)
MaybeRows == Rows \union {NoOrder}

RowTypes ==
  [kind : {"none", "main", "hedge"}, of : MaybeRows, after : MaybeRows,
   status : {"none", "AWAITING", "EXITING", "ATOMIC_PENDING", "ATOMIC_FAILED", "FAILED", "EXITED",
             "CLOSED", "EXIT_CLOSED"},
   answer : {"none", "taken", "failed", "unclear"}]

RunTypes ==
  [pc : {"idle", "signal", "look", "hedge", "unhedged", "main", "link", "unwind", "unbuilt", "placed",
         "confirm", "mark", "return"},
   left : SUBSET Rows, parent : MaybeRows, hedge : MaybeRows, main : MaybeRows]

EntryTypes ==
  /\ mode \in Modes
  /\ row \in [Rows -> RowTypes]
  /\ run \in RunTypes

(***************************************************************************)
(* The inductive invariant.  A cycle that may still end without an order has   *)
(* none in hand that is live; one that is about to enter for the first time*)
(* has seen that nothing is open.                                          *)
(***************************************************************************)
HandInv ==
  /\ run.pc \in {"idle", "signal", "look", "hedge"} => run.hedge = NoOrder
  /\ run.pc \in {"idle", "signal", "look", "hedge", "unhedged", "main", "unbuilt"} => run.main = NoOrder
  /\ run.pc = "unwind" => run.main \notin {o \in Rows \ Unmarked : row[o].status \in Live}
  /\ run.pc = "unbuilt" => run.hedge = NoOrder \/ run.hedge \in Unreturned
  /\ ~mode.sell => run.hedge = NoOrder /\ run.pc # "hedge"

FirstEntry(o) == Open(o) /\ row[o].kind = "main" /\ row[o].after = NoOrder

FirstInv ==
  /\ run.pc \in {"signal", "hedge", "unhedged", "main"} /\ run.parent = NoOrder =>
       \A o \in Rows : ~FirstEntry(o)
  /\ \A o, p \in Rows : FirstEntry(o) /\ FirstEntry(p) => o = p

\* What nobody may watch.
Lost == cut \union Unplaced \union Unmarked \union Unreturned

WatchedInv == \A o \in Rows : row[o].status \in Live => o \in watched \union OfCycle \union Lost

EntryInv == EntryTypes /\ HandInv /\ FirstInv /\ WatchedInv

\* What is let go of stays let go of.
Grown ==
  /\ cut \subseteq cut' /\ Unplaced \subseteq Unplaced' /\ Unmarked \subseteq Unmarked' /\ Unexited \subseteq Unexited'
  /\ Unlinked \subseteq Unlinked' /\ Unreturned \subseteq Unreturned' /\ Unrecorded \subseteq Unrecorded'
  /\ Lost \subseteq Lost'

LEMMA FaultsGrow == ASSUME cut \subseteq cut', faults \subseteq faults' PROVE Grown
  BY DEF Grown, Lost, Unplaced, Unmarked, Unexited, Unlinked, Unreturned, Unrecorded

LEMMA FaultIs ==
  ASSUME NEW what, NEW o \in Rows, Fault(what, o)
  PROVE  /\ faults \subseteq faults'
         /\ what = "placing" => o \in Unplaced' /\ o \in Lost'
         /\ what = "status" => o \in Unmarked' /\ o \in Lost'
         /\ what = "exit" => o \in Unexited'
         /\ what = "link" => o \in Unlinked'
         /\ what = "return" => o \in Unreturned' /\ o \in Lost'
         /\ what = "attempt" => o \in Unrecorded'
  BY DEF Fault, Lost, Unplaced, Unmarked, Unexited, Unlinked, Unreturned, Unrecorded

--------------------------------------------------------------------------------
LEMMA FreshIsUnused ==
  ASSUME EntryConstants, EntryTypes, Unused # {}
  PROVE  Fresh \in Unused /\ Fresh \in Rows /\ Fresh # NoOrder
<1>1. mode.rows \in Nat /\ Unused \subseteq Nat /\ Unused \subseteq Rows
  BY DEF EntryConstants, EntryTypes, Unused, Rows
<1>2. PICK m \in Unused : \A u \in Unused : <<u, m>> \notin OpToRel(<, Nat)
  BY <1>1, WFMin, NatLessThanWellFounded, Zenon
<1>3. \A u \in Unused : ~(u < m)
  BY <1>1, <1>2, Zenon DEF OpToRel
<1>4. \A u \in Unused : m <= u
  BY <1>1, <1>3
<1>5. Fresh \in Unused
  BY <1>4 DEF Fresh
<1> QED BY <1>1, <1>5 DEF EntryConstants, Rows

LEMMA EntryInitInv == EntryConstants /\ EntryInit => EntryInv
  BY DEF EntryConstants, EntryInit, EntryInv, EntryTypes, RowTypes, RunTypes, MaybeRows, HandInv, FirstInv,
         FirstEntry, Open, WatchedInv, NoRow, Idle, Live

--------------------------------------------------------------------------------
\* Steps that leave the rows and the monitors alone.
LEMMA RunMoves ==
  ASSUME EntryInv, UNCHANGED <<mode, row, watched>>, run' \in RunTypes, HandInv', Grown,
         OfCycle \subseteq OfCycle' \union Lost',
         run'.pc \in {"signal", "hedge", "unhedged", "main"} /\ run'.parent = NoOrder =>
           \A o \in Rows : ~FirstEntry(o)
  PROVE  EntryInv'
<1>1. EntryTypes'
  BY DEF EntryInv, EntryTypes
<1>2. FirstInv'
  BY DEF EntryInv, FirstInv, FirstEntry, Open
<1>3. WatchedInv'
  BY DEF EntryInv, WatchedInv, Grown
<1> QED BY <1>1, <1>2, <1>3 DEF EntryInv

LEMMA CycleStep == ASSUME EntryInv, Cycle PROVE EntryInv'
<1>1. run.pc = "idle" /\ run.hedge = NoOrder /\ run.main = NoOrder /\ run \in RunTypes /\ Grown
  BY FaultsGrow DEF Cycle, At, EntryInv, HandInv, EntryTypes
<1>2. CASE Positions = {} /\ Go("signal")
  <2>1. run' \in RunTypes /\ run'.hedge = NoOrder /\ run'.main = NoOrder /\ run'.pc = "signal"
    BY <1>1, <1>2 DEF Go, RunTypes
  <2>2. \A o \in Rows : ~FirstEntry(o)
    BY <1>2 DEF Positions, FirstEntry
  <2> QED BY <1>1, <2>1, <2>2, RunMoves DEF Cycle, HandInv, OfCycle
<1>3. CASE Positions # {} /\ run' = [run EXCEPT !.pc = "look", !.left = Positions]
  <2>1. run' \in RunTypes /\ run'.hedge = NoOrder /\ run'.main = NoOrder /\ run'.pc = "look"
    BY <1>1, <1>3 DEF Positions, RunTypes
  <2> QED BY <1>1, <2>1, RunMoves DEF Cycle, HandInv, OfCycle
<1> QED BY <1>2, <1>3 DEF Cycle

LEMMA IdleType == Idle \in RunTypes
  BY DEF Idle, RunTypes, MaybeRows

LEMMA EvaluateStep == ASSUME EntryInv, Evaluate PROVE EntryInv'
<1>1. run.pc = "signal" /\ run.hedge = NoOrder /\ run.main = NoOrder /\ run \in RunTypes /\ Grown
  BY FaultsGrow DEF Evaluate, At, EntryInv, HandInv, EntryTypes
<1>2. CASE Go(Order)
  <2>1. /\ run' \in RunTypes /\ run'.hedge = NoOrder /\ run'.main = NoOrder
        /\ run'.pc \in {"hedge", "main"} /\ run'.parent = run.parent /\ (~mode.sell => run'.pc = "main")
    BY <1>1, <1>2 DEF Go, Order, RunTypes
  <2>2. run.parent = NoOrder => \A o \in Rows : ~FirstEntry(o)
    BY <1>1 DEF EntryInv, FirstInv
  <2> QED BY <1>1, <2>1, <2>2, RunMoves DEF Evaluate, HandInv, OfCycle
<1>3. CASE run' = Idle
  BY <1>1, <1>3, IdleType, RunMoves DEF Evaluate, HandInv, OfCycle, Idle
<1> QED BY <1>2, <1>3 DEF Evaluate

LEMMA LookStep ==
  ASSUME EntryConstants, EntryInv, LookedAtAll \/ \E p \in run.left : Touch(p) \/ Pass(p) \/ Again(p)
  PROVE  EntryInv'
<1>1. run.pc = "look" /\ run.hedge = NoOrder /\ run.main = NoOrder /\ run \in RunTypes
  BY DEF LookedAtAll, Touch, Pass, Again, Looked, At, EntryInv, HandInv, EntryTypes
<1>2. UNCHANGED <<mode, row, watched>> /\ Grown
  BY FaultsGrow DEF LookedAtAll, Touch, Pass, Again
<1>3. CASE LookedAtAll
  BY <1>1, <1>2, <1>3, IdleType, RunMoves DEF LookedAtAll, HandInv, OfCycle, Idle
<1>4. ASSUME NEW p \in run.left, Touch(p) \/ Pass(p) PROVE EntryInv'
  <2>1. run' = [run EXCEPT !.left = run.left \ {p}]
    BY <1>4 DEF Touch, Pass
  <2>2. run' \in RunTypes /\ run'.hedge = NoOrder /\ run'.main = NoOrder /\ run'.pc = "look"
    BY <1>1, <2>1 DEF RunTypes
  <2> QED BY <1>1, <1>2, <2>2, RunMoves DEF HandInv, OfCycle
<1>5. ASSUME NEW p \in run.left, Again(p) PROVE EntryInv'
  <2>1. run' = [run EXCEPT !.pc = Order, !.left = run.left \ {p}, !.parent = p]
    BY <1>5 DEF Again
  <2>2. p \in Rows /\ p # NoOrder
    BY <1>1 DEF RunTypes, EntryConstants, Rows
  <2>3. /\ run' \in RunTypes /\ run'.hedge = NoOrder /\ run'.main = NoOrder
        /\ run'.pc \in {"hedge", "main"} /\ run'.parent = p /\ (~mode.sell => run'.pc = "main")
    BY <1>1, <2>1, <2>2 DEF RunTypes, Order, MaybeRows
  <2> QED BY <1>1, <1>2, <2>2, <2>3, RunMoves DEF HandInv, OfCycle
<1> QED BY <1>3, <1>4, <1>5

\* The cycle goes on, or is over, with what it has.
LEMMA GoesOnStep ==
  ASSUME EntryConstants, EntryInv,
         Placed \/ Confirmed \/ AttemptUnwritten \/ BuyUnconfirmed \/ SellUnconfirmed \/ UnconfirmedStays
  PROVE  EntryInv'
<1>1. run \in RunTypes /\ run.pc \in {"placed", "confirm"}
  BY DEF Placed, Confirmed, AttemptUnwritten, BuyUnconfirmed, SellUnconfirmed, UnconfirmedStays, At, EntryInv, EntryTypes
<1>2. PICK pc \in {"return", "confirm", "mark"} : run' = [run EXCEPT !.pc = pc]
  BY DEF Placed, Confirmed, AttemptUnwritten, BuyUnconfirmed, SellUnconfirmed, UnconfirmedStays, Go
<1>3. /\ run' \in RunTypes /\ run'.hedge = run.hedge /\ run'.main = run.main
      /\ run'.pc \in {"return", "confirm", "mark"}
  BY <1>1, <1>2 DEF RunTypes
<1>4. UNCHANGED <<mode, row, watched>> /\ cut' = cut /\ faults \subseteq faults'
  BY DEF Placed, Confirmed, AttemptUnwritten, BuyUnconfirmed, SellUnconfirmed, UnconfirmedStays, Fault
<1>5. HandInv'
  BY <1>3, <1>4 DEF EntryInv, HandInv
<1> QED BY <1>3, <1>4, <1>5, FaultsGrow, RunMoves DEF OfCycle

\* A cycle that is given up lets go of what it has in hand.
LEMMA GivenUpRun ==
  ASSUME run \in RunTypes, GivenUp
  PROVE  run' \in RunTypes /\ run'.hedge = NoOrder /\ run'.main = NoOrder /\ run'.pc \in {"idle", "look"}
  BY IdleType DEF GivenUp, Idle, RunTypes

LEMMA CutOffStep == ASSUME EntryInv, CutOff PROVE EntryInv'
<1>1. run \in RunTypes /\ cut' = cut \union OfCycle /\ faults' = faults /\ UNCHANGED <<mode, row, watched>>
  BY DEF CutOff, EntryInv, EntryTypes
<1>2. run' \in RunTypes /\ run'.hedge = NoOrder /\ run'.main = NoOrder /\ run'.pc \in {"idle", "look"}
  <2>1. CASE run' = Idle
    BY <2>1, IdleType DEF Idle
  <2>2. CASE GivenUp
    BY <1>1, <2>2, GivenUpRun
  <2> QED BY <2>1, <2>2 DEF CutOff
<1>3. Grown /\ OfCycle \subseteq Lost'
  BY <1>1, FaultsGrow DEF Lost
<1> QED BY <1>1, <1>2, <1>3, RunMoves DEF HandInv

LEMMA NoOrderStep == ASSUME EntryInv, NoOrderPlaced PROVE EntryInv'
<1>1. run.hedge = NoOrder /\ run.main = NoOrder /\ run \in RunTypes /\ UNCHANGED <<mode, row, watched>> /\ Grown
  BY FaultsGrow DEF NoOrderPlaced, At, Order, EntryInv, HandInv, EntryTypes
<1>2. run' \in RunTypes /\ run'.hedge = NoOrder /\ run'.main = NoOrder /\ run'.pc \in {"idle", "look"}
  BY <1>1, GivenUpRun DEF NoOrderPlaced
<1> QED BY <1>1, <1>2, RunMoves DEF HandInv, OfCycle

\* The main order has no row: the hedge stays in hand.
LEMMA NoMainStep == ASSUME EntryConstants, EntryInv, NoMain \/ Unbuilt PROVE EntryInv'
<1>1. /\ run.pc = "main" /\ run.main = NoOrder /\ run \in RunTypes /\ run.hedge \in MaybeRows
      /\ UNCHANGED <<mode, row, watched, cut>>
  BY DEF NoMain, Unbuilt, At, EntryInv, HandInv, EntryTypes, RunTypes
<1>2. /\ run' \in RunTypes /\ run'.hedge = run.hedge /\ run'.main = NoOrder /\ run'.pc \in {"unwind", "unbuilt"}
  BY <1>1 DEF NoMain, Unbuilt, Go, RunTypes
<1>3. Grown
  BY <1>1, FaultsGrow DEF NoMain, Unbuilt, Fault
<1>4. run'.pc = "unbuilt" => run.hedge = NoOrder \/ run.hedge \in Unreturned'
  <2>1. CASE NoMain
    BY <1>1, <2>1 DEF NoMain, Go, RunTypes
  <2>2. CASE Unbuilt
    BY <1>1, <2>2, FaultIs DEF Unbuilt, MaybeRows
  <2> QED BY <2>1, <2>2
<1>5. HandInv'
  BY <1>1, <1>2, <1>4 DEF EntryInv, HandInv, EntryConstants, Rows
<1> QED BY <1>1, <1>2, <1>3, <1>5, RunMoves DEF OfCycle

LEMMA ReturnStep == ASSUME EntryInv, Return PROVE EntryInv'
<1>1. EntryTypes' /\ HandInv'
  BY IdleType DEF EntryInv, EntryTypes, Return, HandInv, Idle
<1>2. FirstInv'
  BY DEF EntryInv, FirstInv, FirstEntry, Open, Return, Idle
<1>3. Grown
  BY FaultsGrow DEF Return
<1>4. WatchedInv'
  BY <1>3 DEF EntryInv, WatchedInv, Return, Grown
<1> QED BY <1>1, <1>2, <1>4 DEF EntryInv

--------------------------------------------------------------------------------
\* An order is placed, and taken in hand.
LEMMA PlacedRow ==
  ASSUME EntryConstants, EntryTypes, NEW kind \in {"main", "hedge"}, NEW after \in MaybeRows,
         NEW answer \in Answers, Place(kind, after, answer)
  PROVE  /\ Fresh \in Rows /\ Fresh # NoOrder
         /\ row' \in [Rows -> RowTypes]
         /\ row'[Fresh].kind = kind /\ row'[Fresh].after = after
         /\ \A o \in Rows \ {Fresh} : row'[o] = row[o]
<1>1. Fresh \in Rows /\ Fresh # NoOrder
  BY FreshIsUnused DEF Place
<1>2. [kind |-> kind, of |-> NoOrder, after |-> after, status |-> "AWAITING", answer |-> answer] \in RowTypes
  BY DEF RowTypes, MaybeRows, Answers
<1> QED BY <1>1, <1>2 DEF Place, EntryTypes

LEMMA PlaceHedgeStep == ASSUME EntryConstants, EntryInv, PlaceHedge PROVE EntryInv'
<1>1. PICK answer \in Answers :
        /\ Place("hedge", NoOrder, answer)
        /\ run' = [run EXCEPT !.hedge = Fresh, !.pc = IF answer = "failed" THEN "unhedged" ELSE "main"]
  BY DEF PlaceHedge
<1>2. run.pc = "hedge" /\ run.hedge = NoOrder /\ run.main = NoOrder /\ run \in RunTypes /\ EntryTypes
  BY DEF PlaceHedge, At, EntryInv, HandInv, EntryTypes
<1>3. /\ Fresh \in Rows /\ Fresh # NoOrder /\ row' \in [Rows -> RowTypes]
      /\ row'[Fresh].kind = "hedge" /\ \A o \in Rows \ {Fresh} : row'[o] = row[o]
  BY <1>1, <1>2, PlacedRow DEF MaybeRows
<1>4. /\ run' \in RunTypes /\ run'.hedge = Fresh /\ run'.main = NoOrder /\ run'.parent = run.parent
      /\ run'.pc \in {"unhedged", "main"}
  BY <1>1, <1>2, <1>3 DEF RunTypes, MaybeRows
<1>5. EntryTypes' /\ HandInv'
  BY <1>2, <1>3, <1>4 DEF PlaceHedge, EntryInv, EntryTypes, HandInv
<1>6. \A o \in Rows : FirstEntry(o)' => FirstEntry(o)
  BY <1>3 DEF FirstEntry, Open
<1>7. FirstInv'
  BY <1>2, <1>4, <1>6 DEF EntryInv, FirstInv
<1>8. WatchedInv'
  <2>1. Grown
    BY FaultsGrow DEF PlaceHedge
  <2> QED BY <1>2, <1>3, <1>4, <2>1 DEF PlaceHedge, EntryInv, WatchedInv, OfCycle, Grown
<1> QED BY <1>5, <1>7, <1>8 DEF EntryInv

LEMMA MainStep == ASSUME EntryConstants, EntryInv, BuyMain \/ SellMain PROVE EntryInv'
<1>1. PICK answer \in Answers : Place("main", run.parent, answer)
  BY DEF BuyMain, SellMain
<1>2. run.pc = "main" /\ run.main = NoOrder /\ run \in RunTypes /\ EntryTypes /\ run.parent \in MaybeRows
  BY DEF BuyMain, SellMain, At, EntryInv, HandInv, EntryTypes, RunTypes
<1>3. /\ Fresh \in Rows /\ Fresh # NoOrder /\ row' \in [Rows -> RowTypes]
      /\ row'[Fresh].after = run.parent /\ \A o \in Rows \ {Fresh} : row'[o] = row[o]
  BY <1>1, <1>2, PlacedRow
<1>4. /\ run' \in RunTypes /\ run'.hedge = run.hedge /\ run'.main = Fresh
      /\ run'.pc \in {"placed", "link"}
  BY <1>2, <1>3 DEF BuyMain, SellMain, RunTypes, MaybeRows
<1>5. UNCHANGED <<mode, watched>> /\ Grown
  BY FaultsGrow DEF BuyMain, SellMain
<1>6. EntryTypes' /\ HandInv'
  BY <1>3, <1>4, <1>5 DEF EntryInv, EntryTypes, HandInv
<1>7. FirstInv'
  <2>1. CASE run.parent = NoOrder
    <3>1. \A o \in Rows : FirstEntry(o)' => o = Fresh
      BY <1>2, <1>3, <2>1 DEF EntryInv, FirstInv, FirstEntry, Open
    <3> QED BY <1>4, <3>1 DEF FirstInv
  <2>2. CASE run.parent # NoOrder
    <3>1. \A o \in Rows : FirstEntry(o)' => FirstEntry(o)
      BY <1>3, <2>2 DEF FirstEntry, Open
    <3> QED BY <1>4, <3>1 DEF EntryInv, FirstInv
  <2> QED BY <2>1, <2>2
<1>8. WatchedInv'
  BY <1>2, <1>3, <1>4, <1>5 DEF EntryInv, WatchedInv, OfCycle, Grown
<1> QED BY <1>6, <1>7, <1>8 DEF EntryInv

\* An order whose place_order raised is in nobody's hands; the seller still has its hedge.
LEMMA RaisesStep == ASSUME EntryConstants, EntryInv, HedgeRaises \/ BuyRaises \/ SellRaises PROVE EntryInv'
<1>1. PICK kind \in {"main", "hedge"}, after \in MaybeRows :
        /\ PlaceRaises(kind, after)
        /\ kind = "main" => run.pc = "main" /\ after = run.parent
  BY DEF HedgeRaises, BuyRaises, SellRaises, At, EntryInv, EntryTypes, RunTypes, MaybeRows
<1>2. run.pc \in {"hedge", "main"} /\ run.main = NoOrder /\ run \in RunTypes /\ EntryTypes
      /\ UNCHANGED <<mode, watched, cut>>
  BY DEF HedgeRaises, BuyRaises, SellRaises, At, EntryInv, HandInv, EntryTypes
<1>3. PICK answer \in Answers : Place(kind, after, answer)
  BY <1>1 DEF PlaceRaises
<1>4. /\ Fresh \in Rows /\ Fresh # NoOrder /\ row' \in [Rows -> RowTypes]
      /\ row'[Fresh].kind = kind /\ row'[Fresh].after = after /\ \A o \in Rows \ {Fresh} : row'[o] = row[o]
  BY <1>2, <1>3, PlacedRow
<1>5. Fresh \in Lost' /\ Grown
  BY <1>1, <1>2, <1>4, FaultIs, FaultsGrow DEF PlaceRaises
<1>6. /\ run' \in RunTypes /\ run'.main = NoOrder
      /\ \/ run'.pc \in {"idle", "look"} /\ run'.hedge = NoOrder
         \/ run'.pc = "unwind" /\ run'.hedge = run.hedge
  <2>1. CASE HedgeRaises \/ BuyRaises
    BY <1>2, <2>1, GivenUpRun DEF HedgeRaises, BuyRaises
  <2>2. CASE SellRaises
    BY <1>2, <2>2 DEF SellRaises, Go, RunTypes
  <2> QED BY <2>1, <2>2
<1>7. OfCycle \subseteq OfCycle'
  <2>1. CASE HedgeRaises
    BY <1>2, <2>1 DEF HedgeRaises, At, EntryInv, HandInv, OfCycle
  <2>2. CASE BuyRaises
    BY <1>2, <2>2 DEF BuyRaises, EntryInv, HandInv, OfCycle
  <2>3. CASE SellRaises
    BY <1>2, <2>3 DEF SellRaises, Go, RunTypes, OfCycle
  <2> QED BY <2>1, <2>2, <2>3
<1>8. EntryTypes' /\ HandInv'
  BY <1>2, <1>4, <1>6 DEF EntryInv, EntryTypes, HandInv, EntryConstants, Rows
<1>9. FirstInv'
  <2>1. CASE kind = "main" /\ after = NoOrder
    <3>1. \A o \in Rows : FirstEntry(o)' => o = Fresh
      BY <1>1, <1>4, <2>1 DEF EntryInv, FirstInv, FirstEntry, Open
    <3> QED BY <1>6, <3>1 DEF FirstInv
  <2>2. CASE ~(kind = "main" /\ after = NoOrder)
    <3>1. \A o \in Rows : FirstEntry(o)' => FirstEntry(o)
      BY <1>4, <2>2 DEF FirstEntry, Open
    <3> QED BY <1>6, <3>1 DEF EntryInv, FirstInv
  <2> QED BY <2>1, <2>2
<1>10. WatchedInv'
  BY <1>2, <1>4, <1>5, <1>7 DEF EntryInv, WatchedInv, Grown
<1> QED BY <1>8, <1>9, <1>10 DEF EntryInv

--------------------------------------------------------------------------------
\* Steps that change what rows say of the status and of hedges, and open none.
RowsMove ==
  /\ row' \in [Rows -> RowTypes]
  /\ \A o \in Rows : /\ row'[o].kind = row[o].kind /\ row'[o].after = row[o].after
                     /\ row'[o].status = "AWAITING" => row[o].status = "AWAITING"

LEMMA RowsMoveFirst ==
  ASSUME EntryInv, RowsMove,
         run'.pc \in {"signal", "hedge", "unhedged", "main"} /\ run'.parent = NoOrder =>
           run.pc \in {"signal", "hedge", "unhedged", "main"} /\ run.parent = NoOrder
  PROVE  FirstInv'
<1>1. \A o \in Rows : FirstEntry(o)' => FirstEntry(o)
  BY DEF RowsMove, FirstEntry, Open
<1> QED BY <1>1 DEF EntryInv, FirstInv

\* One row gets another status.
LEMMA OneStatus ==
  ASSUME EntryTypes, NEW o \in MaybeRows,
         NEW s \in {"EXITING", "ATOMIC_PENDING", "ATOMIC_FAILED", "FAILED", "EXITED", "CLOSED", "EXIT_CLOSED"},
         row' = [row EXCEPT ![o].status = s]
  PROVE  RowsMove /\ \A r \in Rows : row'[r].status = IF r = o THEN s ELSE row[r].status
  BY DEF EntryTypes, RowTypes, RowsMove

LEMMA UnhedgedStep == ASSUME EntryConstants, EntryInv, Unhedged \/ UnhedgedFails PROVE EntryInv'
<1>1. /\ run.pc = "unhedged" /\ run.main = NoOrder /\ run \in RunTypes /\ EntryTypes /\ run.hedge \in MaybeRows
      /\ UNCHANGED <<mode, watched, cut>>
  BY DEF Unhedged, UnhedgedFails, At, EntryInv, HandInv, EntryTypes, RunTypes
<1>2. /\ RowsMove /\ Grown /\ \A r \in Rows : r # run.hedge => row'[r].status = row[r].status
      /\ run.hedge \in Rows => run.hedge \in Lost' \/ row'[run.hedge].status = "CLOSED"
  <2>1. CASE Unhedged
    <3>1. RowsMove /\ \A r \in Rows : row'[r].status = IF r = run.hedge THEN "CLOSED" ELSE row[r].status
      BY <1>1, <2>1, OneStatus DEF Unhedged, SetStatus
    <3> QED BY <1>1, <2>1, <3>1, FaultsGrow DEF Unhedged
  <2>2. CASE UnhedgedFails
    <3>1. RowsMove /\ row' = row
      BY <1>1, <2>2 DEF UnhedgedFails, RowsMove, EntryTypes
    <3>2. faults \subseteq faults' /\ (run.hedge \in Rows => run.hedge \in Lost')
      BY <2>2, FaultIs DEF UnhedgedFails, Fault
    <3> QED BY <1>1, <3>1, <3>2, FaultsGrow
  <2> QED BY <2>1, <2>2
<1>3. run' \in RunTypes /\ run'.hedge = NoOrder /\ run'.main = NoOrder /\ run'.pc \in {"idle", "look"}
  BY <1>1, GivenUpRun DEF Unhedged, UnhedgedFails
<1>4. EntryTypes' /\ HandInv'
  BY <1>1, <1>2, <1>3 DEF EntryInv, EntryTypes, HandInv, RowsMove
<1>5. FirstInv'
  BY <1>2, <1>3, RowsMoveFirst
<1>6. WatchedInv'
  BY <1>1, <1>2 DEF EntryInv, WatchedInv, OfCycle, Live, Grown
<1> QED BY <1>4, <1>5, <1>6 DEF EntryInv

\* The order is linked to its hedge and marked if all brokers say it failed, as far as the
\* statements succeed.
LEMMA LinkRows ==
  ASSUME EntryConstants, EntryTypes, row' \in {Linked, Written(row), Written(Linked)},
         run.hedge \in MaybeRows, run.main \in MaybeRows
  PROVE  /\ row' \in [Rows -> RowTypes]
         /\ \A r \in Rows :
              /\ row'[r].kind = row[r].kind /\ row'[r].after = row[r].after /\ row'[r].answer = row[r].answer
              /\ row'[r].of = row[r].of \/ (r = run.hedge /\ row'[r].of = run.main)
              /\ row'[r].status = IF row' # Linked /\ Failed /\ r = run.main THEN "FAILED" ELSE row[r].status
         /\ run.hedge \in Rows /\ row' # Written(row) => row'[run.hedge].of = run.main
<1>1. /\ Linked \in [Rows -> RowTypes]
      /\ \A r \in Rows : /\ Linked[r].kind = row[r].kind /\ Linked[r].after = row[r].after
                         /\ Linked[r].answer = row[r].answer /\ Linked[r].status = row[r].status
                         /\ Linked[r].of = IF r = run.hedge THEN run.main ELSE row[r].of
  BY DEF Linked, EntryTypes, RowTypes
<1>2. ASSUME NEW f \in [Rows -> RowTypes]
      PROVE  /\ Written(f) \in [Rows -> RowTypes]
             /\ \A r \in Rows : /\ Written(f)[r].kind = f[r].kind /\ Written(f)[r].after = f[r].after
                                /\ Written(f)[r].answer = f[r].answer /\ Written(f)[r].of = f[r].of
                                /\ Written(f)[r].status = IF Failed /\ r = run.main THEN "FAILED" ELSE f[r].status
  <2>1. CASE Failed
    <3>1. Written(f) = [r \in Rows |-> IF r = run.main THEN [f[r] EXCEPT !.status = "FAILED"] ELSE f[r]]
      BY <2>1 DEF Written
    <3>2. \A r \in Rows : [f[r] EXCEPT !.status = "FAILED"] \in RowTypes
      BY DEF RowTypes
    <3>3. Written(f) \in [Rows -> RowTypes]
      BY <3>1, <3>2
    <3> QED BY <2>1, <3>1, <3>3 DEF RowTypes
  <2>2. CASE ~Failed
    BY <2>2 DEF Written
  <2> QED BY <2>1, <2>2
<1>3. row \in [Rows -> RowTypes]
  BY DEF EntryTypes
<1>4. CASE row' = Linked
  BY <1>1, <1>3, <1>4
<1>5. CASE row' = Written(row) /\ row' # Linked
  BY <1>2, <1>3, <1>5
<1>6. CASE row' = Written(Linked) /\ row' # Linked
  BY <1>1, <1>2, <1>6
<1> QED BY <1>4, <1>5, <1>6

LEMMA LinkStep == ASSUME EntryConstants, EntryInv, Link \/ LinkFails \/ FailureUnwritten PROVE EntryInv'
<1>1. /\ run.pc = "link" /\ run \in RunTypes /\ EntryTypes /\ run.hedge \in MaybeRows /\ run.main \in MaybeRows
      /\ UNCHANGED <<mode, watched, cut>>
  BY DEF Link, LinkFails, FailureUnwritten, At, EntryInv, EntryTypes, RunTypes
<1>2. row' \in {Linked, Written(row), Written(Linked)}
  BY DEF Link, LinkFails, FailureUnwritten
<1>3. /\ row' \in [Rows -> RowTypes]
      /\ \A r \in Rows : /\ row'[r].kind = row[r].kind /\ row'[r].after = row[r].after
                         /\ row'[r].status = IF row' # Linked /\ Failed /\ r = run.main THEN "FAILED" ELSE row[r].status
  BY <1>1, <1>2, LinkRows
<1>4. /\ run' \in RunTypes /\ run'.hedge = run.hedge /\ run'.main = run.main
      /\ run'.pc = IF Failed THEN "unwind" ELSE "placed"
  BY <1>1 DEF Link, LinkFails, FailureUnwritten, AfterMain, Go, RunTypes
<1>5. Grown
  BY <1>1, FaultsGrow DEF Link, LinkFails, FailureUnwritten, Fault
<1>6. run'.pc = "unwind" => run.main \notin Rows \ Unmarked' \/ row'[run.main].status = "FAILED"
  <2> SUFFICES ASSUME Failed, run.main \in Rows, row'[run.main].status # "FAILED" PROVE run.main \in Unmarked'
    BY <1>4
  <2>1. row' = Linked
    BY <1>3
  <2>2. CASE FailureUnwritten
    BY <2>2, FaultIs DEF FailureUnwritten
  <2>3. CASE Link \/ LinkFails
    <3>1. \E f \in [Rows -> RowTypes] : row' = [f EXCEPT ![run.main].status = "FAILED"]
      <4>1. Linked \in [Rows -> RowTypes] /\ row \in [Rows -> RowTypes]
        BY <1>1 DEF Linked, EntryTypes, RowTypes
      <4> QED BY <2>3, <4>1 DEF Link, LinkFails, Written
    <3> QED BY <3>1 DEF RowTypes
  <2> QED BY <2>2, <2>3
<1>7. EntryTypes' /\ HandInv'
  BY <1>1, <1>3, <1>4, <1>6 DEF EntryInv, EntryTypes, HandInv, Live
<1>8. FirstInv'
  BY <1>3, <1>4, RowsMoveFirst DEF RowsMove
<1>9. WatchedInv'
  BY <1>1, <1>3, <1>4, <1>5 DEF EntryInv, WatchedInv, OfCycle, Live, Grown
<1> QED BY <1>7, <1>8, <1>9 DEF EntryInv

\* The hedge alone is in hand from here on, or nothing.
LEMMA UnwindStep ==
  ASSUME EntryConstants, EntryInv, Unwind \/ UnwindFails \/ UnwindUnwritten \/ NotReturned PROVE EntryInv'
<1>1. /\ run.pc \in {"unwind", "unbuilt"} /\ run \in RunTypes /\ EntryTypes /\ run.hedge \in MaybeRows
      /\ run.main \notin {o \in Rows \ Unmarked : row[o].status \in Live}
      /\ UNCHANGED <<mode, watched, cut>>
  BY DEF Unwind, UnwindFails, UnwindUnwritten, NotReturned, At, EntryInv, HandInv, EntryTypes, RunTypes, EntryConstants,
         Rows
<1>2. RowsMove /\ \A r \in Rows : r # run.hedge => row'[r].status = row[r].status
  <2>1. CASE row' = row
    BY <1>1, <2>1 DEF RowsMove, EntryTypes
  <2>2. CASE SetStatus(run.hedge, "EXITING")
    <3>1. row' = [row EXCEPT ![run.hedge].status = "EXITING"]
      BY <2>2 DEF SetStatus
    <3>2. RowsMove /\ \A r \in Rows : row'[r].status = IF r = run.hedge THEN "EXITING" ELSE row[r].status
      BY <1>1, <3>1, OneStatus
    <3> QED BY <3>2
  <2>3. row' = row \/ SetStatus(run.hedge, "EXITING")
    BY DEF Unwind, UnwindFails, UnwindUnwritten, NotReturned
  <2> QED BY <2>1, <2>2, <2>3
<1>3. Grown
  BY <1>1, FaultsGrow DEF Unwind, UnwindFails, UnwindUnwritten, NotReturned, Fault
<1>4. /\ run' \in RunTypes /\ run'.main = NoOrder
      /\ \/ run'.pc = "placed" /\ run'.hedge = run.hedge
         \/ run'.pc \in {"idle", "look"} /\ run'.hedge = NoOrder /\ (run.hedge \in Rows => run.hedge \in Lost')
  <2>1. CASE Unwind \/ UnwindFails
    BY <1>1, <2>1 DEF Unwind, UnwindFails, RunTypes, MaybeRows
  <2>2. CASE UnwindUnwritten
    <3>1. run.hedge \in Rows => run.hedge \in Lost'
      BY <2>2, FaultIs DEF UnwindUnwritten
    <3> QED BY <1>1, <2>2, <3>1, GivenUpRun DEF UnwindUnwritten
  <2>3. CASE NotReturned
    <3>1. run.hedge \in Rows => run.hedge \in Lost
      BY <2>3 DEF NotReturned, At, EntryInv, HandInv, Lost, EntryConstants, Rows
    <3> QED BY <1>1, <1>3, <2>3, <3>1, GivenUpRun DEF NotReturned, Grown
  <2> QED BY <2>1, <2>2, <2>3
<1>5. EntryTypes' /\ HandInv'
  BY <1>1, <1>2, <1>4 DEF EntryInv, EntryTypes, HandInv, RowsMove
<1>6. FirstInv'
  BY <1>2, <1>4, RowsMoveFirst
<1>7. WatchedInv'
  <2> SUFFICES ASSUME NEW o \in Rows, row'[o].status \in Live PROVE o \in watched' \union OfCycle' \union Lost'
    BY DEF WatchedInv
  <2>1. CASE o = run.hedge
    BY <1>4, <2>1 DEF OfCycle, EntryConstants, Rows
  <2>2. CASE o # run.hedge
    <3>1. row[o].status \in Live /\ (o # run.main \/ o \in Unmarked)
      BY <1>1, <1>2, <2>2
    <3>2. o \in watched \union OfCycle \union Lost
      BY <3>1 DEF EntryInv, WatchedInv
    <3>3. CASE o \in Unmarked
      BY <1>3, <3>3 DEF Grown, Lost
    <3> QED BY <1>1, <1>3, <2>2, <3>1, <3>2, <3>3 DEF OfCycle, Grown
  <2> QED BY <2>1, <2>2
<1> QED BY <1>5, <1>6, <1>7 DEF EntryInv

LEMMA MarkStep == ASSUME EntryConstants, EntryInv, Mark PROVE EntryInv'
<1>1. run.pc = "mark" /\ run \in RunTypes /\ EntryTypes /\ run.main \in MaybeRows
  BY DEF Mark, At, EntryInv, EntryTypes, RunTypes
<1>2. /\ RowsMove
      /\ \A r \in Rows : row'[r].status =
           IF run.main # NoOrder /\ r = run.main THEN "ATOMIC_PENDING" ELSE row[r].status
  <2>1. CASE run.main = NoOrder
    BY <1>1, <2>1 DEF Mark, RowsMove, EntryTypes
  <2>2. CASE run.main # NoOrder
    <3>1. row' = [row EXCEPT ![run.main].status = "ATOMIC_PENDING"]
      BY <2>2 DEF Mark
    <3>2. RowsMove /\ \A r \in Rows : row'[r].status = IF r = run.main THEN "ATOMIC_PENDING" ELSE row[r].status
      BY <1>1, <3>1, OneStatus
    <3> QED BY <2>2, <3>2
  <2> QED BY <2>1, <2>2
<1>3. run' \in RunTypes /\ run'.hedge = run.hedge /\ run'.main = run.main /\ run'.pc = "return"
  BY <1>1 DEF Mark, Go, RunTypes
<1>4. EntryTypes' /\ HandInv'
  BY <1>2, <1>3 DEF Mark, EntryInv, EntryTypes, HandInv, RowsMove
<1>5. FirstInv'
  BY <1>2, <1>3, RowsMoveFirst
<1>6. WatchedInv'
  <2>1. Grown
    BY FaultsGrow DEF Mark
  <2> QED BY <1>2, <1>3, <2>1 DEF Mark, EntryInv, WatchedInv, OfCycle, Grown
<1> QED BY <1>4, <1>5, <1>6 DEF EntryInv

--------------------------------------------------------------------------------
\* A monitor follows its order until it is finished, and what it finishes is not live.
LEMMA ClosingStep ==
  ASSUME EntryInv, NEW o \in Rows, NEW s \in {"FAILED", "EXITED", "EXIT_CLOSED", "ATOMIC_FAILED"},
         Closing(o, s), UNCHANGED <<mode, run, cut>>
  PROVE  EntryInv'
<1>1. EntryTypes /\ o \in MaybeRows
  BY DEF EntryInv, MaybeRows
<1>2. /\ RowsMove /\ row'[o].status = s
      /\ \A r \in Rows : \/ row'[r].status = row[r].status /\ (r \in watched => r \in watched' \/ r = o)
                         \/ row'[r].status \in {"CLOSED", s}
  <2>1. CASE row' = Ended(o, s) /\ watched' = watched \ ({o} \union Hedges(o))
    <3>1. row \in [Rows -> RowTypes]
      BY <1>1 DEF EntryTypes
    <3>2. row' \in [Rows -> RowTypes]
      BY <2>1, <3>1 DEF Ended, RowTypes
    <3>3. \A r \in Rows : /\ row'[r].kind = row[r].kind /\ row'[r].after = row[r].after
                          /\ row'[r].status = IF r = o THEN s ELSE IF r \in Hedges(o) THEN "CLOSED" ELSE row[r].status
      BY <2>1, <3>1 DEF Ended, RowTypes
    <3> QED BY <2>1, <3>2, <3>3 DEF RowsMove
  <2>2. CASE SetStatus(o, s) /\ watched' = watched \ {o}
    <3>1. row' = [row EXCEPT ![o].status = s]
      BY <2>2 DEF SetStatus
    <3>2. s \in {"EXITING", "ATOMIC_PENDING", "ATOMIC_FAILED", "FAILED", "EXITED", "CLOSED", "EXIT_CLOSED"}
      OBVIOUS
    <3>3. RowsMove /\ \A r \in Rows : row'[r].status = IF r = o THEN s ELSE row[r].status
      BY <1>1, <3>1, <3>2, OneStatus, Zenon
    <3> QED BY <2>2, <3>3
  <2> QED BY <2>1, <2>2 DEF Closing
<1>3. Grown
  BY FaultsGrow DEF Closing, Fault
<1>4. EntryTypes' /\ HandInv'
  BY <1>2, <1>3 DEF EntryInv, EntryTypes, HandInv, RowsMove, Live, Grown
<1>5. FirstInv'
  BY <1>2, RowsMoveFirst
<1>6. WatchedInv'
  BY <1>2, <1>3 DEF EntryInv, WatchedInv, OfCycle, Live, Grown
<1> QED BY <1>4, <1>5, <1>6 DEF EntryInv

LEMMA MonitorStep ==
  ASSUME EntryInv, NEW o \in Rows,
         MonitorExit(o) \/ MonitorExitFails(o) \/ MonitorDead(o) \/ MonitorComplete(o)
  PROVE  EntryInv'
<1>1. CASE MonitorExit(o) \/ MonitorExitFails(o)
  <2>1. EntryTypes /\ o \in MaybeRows /\ o \in watched /\ row[o].status = "AWAITING"
    BY <1>1 DEF EntryInv, MaybeRows, MonitorExit, MonitorExitFails
  <2>2. RowsMove /\ \A r \in Rows : row'[r].status = IF r = o THEN "EXITING" ELSE row[r].status
    BY <1>1, <2>1, OneStatus DEF MonitorExit, MonitorExitFails, SetStatus
  <2>3. UNCHANGED <<mode, watched, run>> /\ Grown
    BY <1>1, FaultsGrow DEF MonitorExit, MonitorExitFails, Fault
  <2>4. EntryTypes' /\ HandInv'
    BY <2>1, <2>2, <2>3 DEF EntryInv, EntryTypes, HandInv, RowsMove, Live, Grown
  <2>5. FirstInv'
    BY <2>2, <2>3, RowsMoveFirst
  <2>6. WatchedInv'
    BY <2>1, <2>2, <2>3 DEF EntryInv, WatchedInv, OfCycle, Grown
  <2> QED BY <2>4, <2>5, <2>6 DEF EntryInv
<1>2. CASE MonitorDead(o)
  BY <1>2, ClosingStep DEF MonitorDead
<1>3. CASE MonitorComplete(o)
  BY <1>3, ClosingStep DEF MonitorComplete
<1> QED BY <1>1, <1>2, <1>3

LEMMA ReloadStep == ASSUME EntryInv, Reload PROVE EntryInv'
<1>1. EntryTypes' /\ HandInv'
  BY IdleType DEF EntryInv, EntryTypes, Reload, HandInv, Idle
<1>2. FirstInv'
  BY DEF EntryInv, FirstInv, FirstEntry, Open, Reload, Idle
<1>3. WatchedInv'
  BY DEF WatchedInv, Reload
<1> QED BY <1>1, <1>2, <1>3 DEF EntryInv

--------------------------------------------------------------------------------
LEMMA EntryNextInv == EntryConstants /\ EntryInv /\ [EntryNext]_entryVars => EntryInv'
<1> SUFFICES ASSUME EntryConstants, EntryInv, [EntryNext]_entryVars PROVE EntryInv' OBVIOUS
<1>1. CASE BuyCycle \/ SellCycle \/ Evaluate \/ BuyLook \/ SellLook
  BY <1>1, CycleStep, EvaluateStep, LookStep DEF BuyCycle, SellCycle, BuyLook, SellLook
<1>2. CASE NoOrderPlaced \/ PlaceHedge \/ HedgeRaises \/ Unhedged \/ UnhedgedFails
  BY <1>2, NoOrderStep, PlaceHedgeStep, RaisesStep, UnhedgedStep
<1>7. CASE BuyMain \/ BuyRaises \/ SellMain \/ NoMain \/ SellRaises \/ Unbuilt
  BY <1>7, MainStep, RaisesStep, NoMainStep
<1>8. CASE \/ Link \/ LinkFails \/ FailureUnwritten
           \/ Unwind \/ UnwindFails \/ UnwindUnwritten \/ NotReturned
  BY <1>8, LinkStep, UnwindStep
<1>3. CASE \/ BuyPlaced \/ SellPlaced \/ Confirmed \/ AttemptUnwritten
           \/ BuyUnconfirmed \/ SellUnconfirmed \/ UnconfirmedStays
  BY <1>3, GoesOnStep DEF BuyPlaced, SellPlaced
<1>4. CASE Mark \/ Return \/ CutOff \/ Reload
  BY <1>4, MarkStep, ReturnStep, CutOffStep, ReloadStep
<1>5. ASSUME NEW o \in Rows, MonitorExit(o) \/ MonitorExitFails(o) \/ MonitorDead(o) \/ MonitorComplete(o)
      PROVE  EntryInv'
  BY <1>5, MonitorStep
<1>6. CASE UNCHANGED entryVars
  BY <1>6 DEF entryVars, EntryInv, EntryTypes, HandInv, FirstInv, FirstEntry, Open, WatchedInv, Lost, OfCycle,
              Unplaced, Unmarked, Unreturned
<1> QED BY <1>1, <1>2, <1>3, <1>4, <1>5, <1>6, <1>7, <1>8 DEF EntryNext

LEMMA EntryAlways == EntryConstants => (EntrySpec => []EntryInv)
<1> SUFFICES ASSUME EntryConstants PROVE EntrySpec => []EntryInv OBVIOUS
<1> QED BY EntryInitInv, EntryNextInv, PTL DEF EntrySpec

\* An order that is not finished has a monitor or is in the hands of its cycle, however
\* orders and hedges fail, are unwound, not confirmed or re-entered, the process restarted,
\* and calls fail; unless its cycle was cut off, or the failed call was the one that
\* placed this order, wrote its status or returned it.
THEOREM EntriesWatched == EntryConstants => (EntrySpec => []NothingUnwatched)
<1>1. EntryInv => NothingUnwatched
  BY DEF EntryInv, WatchedInv, Lost, NothingUnwatched
<1> QED BY <1>1, EntryAlways, PTL

\* There is one first entry at a time, wherever cycles are cut off.
THEOREM OneFirstEntry == EntryConstants => (EntrySpec => []OneEntry)
<1>1. EntryInv => OneEntry
  <2> SUFFICES ASSUME EntryInv PROVE Cardinality({o \in Rows : FirstEntry(o)}) <= 1
    BY DEF OneEntry, FirstEntry
  <2>1. CASE {o \in Rows : FirstEntry(o)} = {}
    BY <2>1, FS_EmptySet
  <2>2. CASE {o \in Rows : FirstEntry(o)} # {}
    <3>1. PICK p \in Rows : FirstEntry(p)
      BY <2>2
    <3>2. {o \in Rows : FirstEntry(o)} = {p}
      BY <3>1 DEF EntryInv, FirstInv
    <3> QED BY <3>2, FS_Singleton
  <2> QED BY <2>1, <2>2
<1> QED BY <1>1, EntryAlways, PTL

--------------------------------------------------------------------------------
(***************************************************************************)
(* The hedges.  Rows are used in their order, so that the seller's order comes *)
(* right after its hedge; a hedge is linked to the order after it, if at all;   *)
(* and what a cycle has in hand is not watched yet, so that no monitor ends it.  *)
(***************************************************************************)
Used(o) == row[o].kind # "none"

NumberedInv ==
  /\ \A p, q \in Rows : p < q /\ Used(q) => Used(p)
  /\ \A o \in Rows : row[o].status # "none" => Used(o)
  /\ \A o \in held \union watched : o \in Rows /\ Used(o)
  /\ \A o \in held : row[o].answer = "taken"

\* In the hands of the cycle: the hedge before its order is placed, the two before they
\* are linked, and the two on their way to the monitors.
CycleInv ==
  /\ run.pc \in {"hedge", "unhedged", "link", "unwind", "unbuilt"} => mode.sell
  /\ run.hedge # NoOrder => row[run.hedge].kind = "hedge" /\ run.hedge \notin watched
  /\ run.main # NoOrder => row[run.main].kind = "main" /\ run.main \notin watched
  /\ mode.sell /\ run.pc \in {"unhedged", "main", "link", "unwind", "unbuilt"} => run.hedge # NoOrder
  /\ mode.sell /\ run.pc \in {"unhedged", "main", "link"} => row[run.hedge].of = NoOrder
  /\ run.pc = "unhedged" => run.hedge \notin held
  /\ mode.sell /\ run.pc \in {"main", "link"} => run.hedge \in held \/ row[run.hedge].answer = "unclear"
  /\ mode.sell /\ run.pc = "main" => \A q \in Rows : q > run.hedge => ~Used(q)
  /\ run.pc = "link" => run.main # NoOrder /\ run.main = run.hedge + 1 /\ row[run.main].status = "AWAITING"
  /\ run.pc \in {"unwind", "unbuilt"} => run.hedge + 1 \notin held \ Unplaced
  /\ run.pc \in {"placed", "confirm", "mark", "return"} /\ run.hedge # NoOrder =>
       \/ run.hedge \notin held \ (Unlinked \union Unexited)
       \/ run.main # NoOrder /\ row[run.hedge].of = run.main /\ row[run.main].status \in Live

\* A hedge is linked to the order right after it, if at all, and an order that is sold has
\* one, but for what was cut off and for the calls that failed.
LinkedInv ==
  \A x \in Rows :
    /\ row[x].of # NoOrder =>
         row[x].kind = "hedge" /\ row[x].of = x + 1 /\ x + 1 \in Rows /\ row[x + 1].kind = "main"
    /\ row[x].kind = "hedge" => mode.sell
    /\ mode.sell /\ row[x].kind = "main" /\ x \notin cut \union Unplaced =>
         /\ x - 1 \in Rows /\ row[x - 1].kind = "hedge"
         /\ row[x - 1].of = x \/ (run.pc = "link" /\ run.main = x) \/ x - 1 \in Unlinked

\* The orders of which the two properties speak.
Sold == {o \in held \ (cut \union Unplaced \union Unexited) :
           row[o].kind = "main" /\ row[o].status \in {"AWAITING", "EXITING"}}
Left == {h \in held \ (cut \union Unplaced \union Unlinked \union Unexited \union Unreturned) :
           row[h].kind = "hedge" /\ h # run.hedge}

Hedged(o) == o - 1 \in held \union Unlinked \/ row[o - 1].answer = "unclear"
Tied(h)   == row[h].of # NoOrder /\ row[row[h].of].status \in Live

SoldInv == mode.sell => \A o \in Sold : Hedged(o)
LeftInv == \A h \in Left : Tied(h)

HedgeInv == NumberedInv /\ CycleInv /\ LinkedInv /\ SoldInv /\ LeftInv

LEMMA HedgeInitInv == EntryConstants /\ EntryInit => HedgeInv
  BY DEF EntryConstants, EntryInit, HedgeInv, NumberedInv, Used, CycleInv, LinkedInv, SoldInv, Sold, LeftInv, Left,
         NoRow, Idle, Rows

\* What the invariant says of such an order, and of such a hedge.
LEMMA SoldHas ==
  ASSUME EntryConstants, HedgeInv, mode.sell, NEW o \in Sold
  PROVE  /\ o \in held /\ o \in Rows /\ o \notin Unexited /\ o # NoOrder /\ row[o].kind = "main" /\ Used(o)
         /\ o - 1 \in Rows /\ row[o - 1].kind = "hedge"
         /\ row[o - 1].of = o \/ (run.pc = "link" /\ run.main = o) \/ o - 1 \in Unlinked
         /\ o - 1 \in held \union Unlinked \/ row[o - 1].answer = "unclear"
  BY DEF HedgeInv, NumberedInv, LinkedInv, SoldInv, Sold, Hedged, Used, EntryConstants, Rows

LEMMA LeftHas ==
  ASSUME EntryConstants, HedgeInv, NEW h \in Left
  PROVE  /\ h \in held /\ h \in Rows /\ h # NoOrder /\ row[h].kind = "hedge"
         /\ row[h].of # NoOrder /\ row[h].of = h + 1 /\ row[h].of \in Rows /\ row[row[h].of].kind = "main"
         /\ row[row[h].of].status \in Live
  BY DEF HedgeInv, NumberedInv, LinkedInv, LeftInv, Left, Tied, EntryConstants, Rows

\* Steps that neither sell nor let go of a hedge.
LEMMA SoldKept ==
  ASSUME EntryConstants, HedgeInv, Grown, mode' = mode, mode.sell => Sold' \subseteq Sold,
         \A o \in Sold' : o \in Sold =>
           /\ o - 1 \in held => o - 1 \in held' \union Unlinked'
           /\ o - 1 \in Rows => row'[o - 1].answer = row[o - 1].answer
  PROVE  SoldInv'
<1> SUFFICES ASSUME mode.sell, NEW o \in Sold' PROVE Hedged(o)'
  BY DEF SoldInv
<1>1. o \in Sold
  OBVIOUS
<1>2. o - 1 \in Rows /\ (o - 1 \in held \union Unlinked \/ row[o - 1].answer = "unclear")
  BY <1>1, SoldHas
<1> QED BY <1>1, <1>2 DEF Hedged, Grown

LEMMA LeftKept ==
  ASSUME EntryConstants, HedgeInv, Left' \subseteq Left,
         \A h \in Left' : h \in Left =>
           row'[h].of = row[h].of /\ (row[row[h].of].status \in Live => row'[row[h].of].status \in Live)
  PROVE  LeftInv'
<1> SUFFICES ASSUME NEW h \in Left' PROVE Tied(h)'
  BY DEF LeftInv
<1>1. h \in Left
  OBVIOUS
<1> QED BY <1>1, LeftHas DEF Tied

\* A cycle that has nothing in hand, before and after.
LEMMA EmptyHands ==
  ASSUME EntryConstants, EntryInv, HedgeInv, UNCHANGED <<mode, row, held, watched>>, Grown,
         run.hedge = NoOrder, run.main = NoOrder, run'.hedge = NoOrder, run'.main = NoOrder,
         run'.pc \in {"idle", "look", "signal"} \/ (run'.pc = "hedge" /\ mode.sell) \/ (run'.pc = "main" /\ ~mode.sell)
  PROVE  HedgeInv'
<1>1. NumberedInv' /\ CycleInv'
  BY DEF HedgeInv, NumberedInv, Used, CycleInv
<1>2. LinkedInv'
  <2>1. run.pc # "link"
    BY DEF HedgeInv, CycleInv
  <2> QED BY <2>1 DEF HedgeInv, LinkedInv, Grown
<1>3. SoldInv'
  BY SoldKept DEF Sold, Grown
<1>4. LeftInv'
  BY LeftKept DEF Left, Grown
<1> QED BY <1>1, <1>2, <1>3, <1>4 DEF HedgeInv

LEMMA EarlyHedges ==
  ASSUME EntryConstants, EntryInv, HedgeInv,
         \/ Cycle \/ Evaluate \/ NoOrderPlaced \/ LookedAtAll
         \/ \E p \in run.left : Touch(p) \/ Pass(p) \/ Again(p)
  PROVE  HedgeInv'
<1>1. /\ UNCHANGED <<mode, row, held, watched>> /\ Grown
      /\ run \in RunTypes /\ run.hedge = NoOrder /\ run.main = NoOrder
      /\ run.pc \in {"idle", "look", "signal", "hedge", "main"}
  <2>1. UNCHANGED <<mode, row, held, watched, cut, faults>>
    BY DEF Cycle, Evaluate, NoOrderPlaced, LookedAtAll, Touch, Pass, Again
  <2>2. run.pc \in {"idle", "look", "signal", "hedge", "main"} /\ (run.pc = "main" => run.hedge = NoOrder)
    BY DEF Cycle, Evaluate, NoOrderPlaced, LookedAtAll, Touch, Pass, Again, Looked, At, Order
  <2>3. Grown
    BY <2>1, FaultsGrow
  <2> QED BY <2>1, <2>2, <2>3 DEF EntryInv, EntryTypes, HandInv
<1>2. CASE run' = Idle
  BY <1>1, <1>2, EmptyHands DEF Idle
<1>4. CASE run.pc # "main" /\ \E l : run' = [run EXCEPT !.left = l]
  <2>1. run'.pc = run.pc /\ run'.hedge = run.hedge /\ run'.main = run.main
    BY <1>1, <1>4 DEF RunTypes
  <2> QED BY <1>1, <1>4, <2>1, EmptyHands DEF EntryInv, HandInv
<1>5. CASE \E pc \in {"look", "signal", Order} : \E l, p : run' = [run EXCEPT !.pc = pc, !.left = l, !.parent = p]
  <2>1. run'.pc \in {"look", "signal", Order} /\ run'.hedge = run.hedge /\ run'.main = run.main
    BY <1>1, <1>5 DEF RunTypes
  <2> QED BY <1>1, <2>1, EmptyHands DEF Order
<1>6. CASE \E pc \in {"look", "signal", Order} : run' = [run EXCEPT !.pc = pc]
  <2>1. run'.pc \in {"look", "signal", Order} /\ run'.hedge = run.hedge /\ run'.main = run.main
    BY <1>1, <1>6 DEF RunTypes
  <2> QED BY <1>1, <2>1, EmptyHands DEF Order
<1>7. CASE Cycle
  <2>1. CASE Go("signal")
    BY <1>6, <2>1 DEF Go
  <2>2. CASE run' = [run EXCEPT !.pc = "look", !.left = Positions]
    <3>1. run'.pc = "look" /\ run'.hedge = run.hedge /\ run'.main = run.main
      BY <1>1, <2>2 DEF RunTypes
    <3> QED BY <1>1, <3>1, EmptyHands
  <2> QED BY <1>7, <2>1, <2>2 DEF Cycle
<1>8. CASE Evaluate
  BY <1>8, <1>2, <1>6 DEF Evaluate, Go
<1>9. CASE NoOrderPlaced
  <2>1. run'.hedge = NoOrder /\ run'.main = NoOrder /\ run'.pc \in {"idle", "look"}
    BY <1>1, <1>9, GivenUpRun DEF NoOrderPlaced
  <2> QED BY <1>1, <2>1, EmptyHands
<1>10. CASE LookedAtAll
  BY <1>10, <1>2 DEF LookedAtAll
<1>11. ASSUME NEW p \in run.left, Touch(p) \/ Pass(p) PROVE HedgeInv'
  BY <1>11, <1>4 DEF Touch, Pass, Looked, At
<1>12. ASSUME NEW p \in run.left, Again(p) PROVE HedgeInv'
  BY <1>12, <1>5 DEF Again
<1> QED BY <1>7, <1>8, <1>9, <1>10, <1>11, <1>12

\* A cycle on its way to the hand-over: its order may be exited and marked, and is live as long as it was.
LEMMA LateHands ==
  ASSUME EntryConstants, EntryInv, EntryInv', HedgeInv, UNCHANGED <<mode, watched>>, Grown,
         run.pc \in {"placed", "confirm", "mark"}, run'.pc \in {"confirm", "mark", "return"},
         run'.hedge = run.hedge, run'.main = run.main,
         held' \subseteq held, \A o \in held \ held' : o = run.main,
         \A o \in Rows : /\ row'[o].kind = row[o].kind /\ row'[o].of = row[o].of /\ row'[o].answer = row[o].answer
                         /\ \/ row'[o].status = row[o].status
                            \/ o = run.main /\ row'[o].status = "ATOMIC_PENDING"
  PROVE  HedgeInv'
<1>1. run.main \in MaybeRows /\ run.hedge \in MaybeRows
  BY DEF EntryInv, EntryTypes, RunTypes
<1>2. NumberedInv'
  <2>1. \A o \in Rows : o = run.main => Used(o)
    BY DEF HedgeInv, CycleInv, Used, EntryConstants, Rows
  <2> QED BY <2>1 DEF HedgeInv, NumberedInv, Used
<1>3. CycleInv'
  BY <1>1 DEF HedgeInv, CycleInv, Live, MaybeRows, Grown
<1>4. LinkedInv'
  BY DEF HedgeInv, LinkedInv, Grown
<1>5. \A o \in held : o \in Rows
  BY DEF HedgeInv, NumberedInv
<1>6. SoldInv'
  <2>1. Sold' \subseteq Sold
    BY <1>5 DEF Sold, Grown
  <2>2. ASSUME mode.sell, NEW o \in Sold PROVE o - 1 # run.main
    BY <2>2, SoldHas DEF HedgeInv, CycleInv, EntryConstants, Rows
  <2>3. \A o \in Sold' : o \in Sold => (o - 1 \in Rows => row'[o - 1].answer = row[o - 1].answer)
    OBVIOUS
  <2> SUFFICES ASSUME mode.sell PROVE SoldInv'
    BY DEF SoldInv
  <2> QED BY <2>1, <2>2, <2>3, SoldKept
<1>7. LeftInv'
  <2>1. Left' \subseteq Left
    BY <1>5 DEF Left, Grown
  <2>2. \A h \in Left : h \in Rows /\ row[h].of \in Rows
    BY LeftHas
  <2> QED BY <2>1, <2>2, LeftKept DEF Live
<1> QED BY <1>2, <1>3, <1>4, <1>6, <1>7 DEF HedgeInv

LEMMA LateHedges ==
  ASSUME EntryConstants, EntryInv, EntryInv', HedgeInv,
         \/ Placed \/ Confirmed \/ AttemptUnwritten \/ BuyUnconfirmed \/ SellUnconfirmed \/ UnconfirmedStays
         \/ Mark
  PROVE  HedgeInv'
<1>1. run \in RunTypes /\ row \in [Rows -> RowTypes] /\ run.main \in MaybeRows
  BY DEF EntryInv, EntryTypes, RunTypes
<1>2. PICK pc \in {"confirm", "mark", "return"} : run' = [run EXCEPT !.pc = pc]
  BY DEF Placed, Confirmed, AttemptUnwritten, BuyUnconfirmed, SellUnconfirmed, UnconfirmedStays, Mark, Go
<1>3. /\ run.pc \in {"placed", "confirm", "mark"} /\ run'.pc \in {"confirm", "mark", "return"}
      /\ run'.hedge = run.hedge /\ run'.main = run.main
  <2>1. run.pc \in {"placed", "confirm", "mark"}
    BY DEF Placed, Confirmed, AttemptUnwritten, BuyUnconfirmed, SellUnconfirmed, UnconfirmedStays, Mark, At
  <2> QED BY <1>1, <1>2, <2>1 DEF RunTypes
<1>4. held' \subseteq held /\ \A o \in held \ held' : o = run.main
  BY DEF Placed, Confirmed, AttemptUnwritten, BuyUnconfirmed, SellUnconfirmed, UnconfirmedStays, Mark
<1>5. UNCHANGED <<mode, watched>> /\ Grown
  <2>1. UNCHANGED <<mode, watched, cut>> /\ faults \subseteq faults'
    BY DEF Placed, Confirmed, AttemptUnwritten, BuyUnconfirmed, SellUnconfirmed, UnconfirmedStays, Mark, Fault
  <2> QED BY <2>1, FaultsGrow
<1>6. \A o \in Rows : /\ row'[o].kind = row[o].kind /\ row'[o].of = row[o].of /\ row'[o].answer = row[o].answer
                      /\ \/ row'[o].status = row[o].status
                         \/ o = run.main /\ row'[o].status = "ATOMIC_PENDING"
  <2>1. CASE row' = row
    BY <2>1
  <2>2. CASE row' = [row EXCEPT ![run.main].status = "ATOMIC_PENDING"]
    BY <1>1, <2>2 DEF RowTypes
  <2>3. row' = row \/ row' = [row EXCEPT ![run.main].status = "ATOMIC_PENDING"]
    BY DEF Placed, Confirmed, AttemptUnwritten, BuyUnconfirmed, SellUnconfirmed, UnconfirmedStays, Mark
  <2> QED BY <2>1, <2>2, <2>3
<1> QED BY <1>3, <1>4, <1>5, <1>6, LateHands

--------------------------------------------------------------------------------
\* Rows are taken in their order: the next one is the first that is not used.
LEMMA FreshIsNext ==
  ASSUME EntryConstants, EntryTypes, NumberedInv, Unused # {}
  PROVE  /\ \A q \in Rows : q < Fresh => Used(q)
         /\ \A q \in Rows : q >= Fresh => ~Used(q)
         /\ Fresh \in Rows /\ Fresh # NoOrder
<1>1. mode.rows \in Rows /\ Unused \subseteq Nat /\ Unused \subseteq Rows
  BY DEF EntryConstants, EntryTypes, Unused, Rows
<1>2. PICK m \in Unused : \A u \in Unused : <<u, m>> \notin OpToRel(<, Nat)
  BY <1>1, WFMin, NatLessThanWellFounded, Zenon
<1>3. \A u \in Unused : ~(u < m)
  BY <1>1, <1>2, Zenon DEF OpToRel
<1>4. \A u \in Unused : m <= u
  BY <1>1, <1>3
<1>5. Fresh \in Unused /\ \A u \in Unused : Fresh <= u
  BY <1>4 DEF Fresh
<1>6. Fresh \in Rows /\ Fresh # NoOrder /\ ~Used(Fresh) /\ Fresh <= mode.rows
  BY <1>1, <1>5 DEF Unused, Used, Rows, EntryConstants
<1>7. \A q \in Rows : q < Fresh => Used(q)
  BY <1>1, <1>5, <1>6 DEF Unused, Used, Rows
<1>8. \A q \in Rows : q >= Fresh => ~Used(q)
  BY <1>6 DEF NumberedInv, Rows
<1> QED BY <1>6, <1>7, <1>8

LEMMA PlaceRows ==
  ASSUME EntryConstants, EntryInv, HedgeInv, NEW kind \in {"main", "hedge"}, NEW after \in MaybeRows,
         NEW answer \in Answers, Place(kind, after, answer)
  PROVE  /\ \A q \in Rows : q < Fresh => Used(q)
         /\ \A q \in Rows : q >= Fresh => ~Used(q)
         /\ Fresh \in Rows /\ Fresh # NoOrder /\ Fresh \notin held \union watched
         /\ row'[Fresh] = [kind |-> kind, of |-> NoOrder, after |-> after, status |-> "AWAITING", answer |-> answer]
         /\ \A o \in Rows \ {Fresh} : row'[o] = row[o]
         /\ held' = IF answer = "taken" THEN held \union {Fresh} ELSE held
         /\ \A x \in Rows : row[x].of # Fresh
<1>1. EntryTypes /\ NumberedInv /\ Unused # {}
  BY DEF EntryInv, HedgeInv, Place
<1>2. /\ \A q \in Rows : q < Fresh => Used(q)
      /\ \A q \in Rows : q >= Fresh => ~Used(q)
      /\ Fresh \in Rows /\ Fresh # NoOrder
  BY <1>1, FreshIsNext
<1>3. ~Used(Fresh) /\ Fresh \notin held \union watched
  BY <1>1, <1>2 DEF NumberedInv, Rows
<1>4. /\ row'[Fresh] = [kind |-> kind, of |-> NoOrder, after |-> after, status |-> "AWAITING", answer |-> answer]
      /\ \A o \in Rows \ {Fresh} : row'[o] = row[o]
      /\ held' = IF answer = "taken" THEN held \union {Fresh} ELSE held
  BY <1>1, <1>2 DEF Place, EntryTypes
<1>5. \A x \in Rows : row[x].of # Fresh
  <2> SUFFICES ASSUME NEW x \in Rows, row[x].of = Fresh PROVE FALSE
    OBVIOUS
  <2>1. row[x].of = x + 1 /\ row[x + 1].kind = "main"
    BY <1>2 DEF HedgeInv, LinkedInv
  <2>2. row[Fresh].kind = "main"
    BY <2>1
  <2> QED BY ONLY <1>3, <2>2 DEF Used
<1> QED BY <1>2, <1>3, <1>4, <1>5

\* The new row is in hand, an order right after its hedge; or its place_order raised.
LEMMA PlacedHedges ==
  ASSUME EntryConstants, EntryInv, HedgeInv, UNCHANGED <<mode, watched>>, Grown,
         NEW kind \in {"main", "hedge"}, NEW after \in MaybeRows, NEW answer \in Answers,
         Place(kind, after, answer), run.pc # "link",
         run'.hedge = run.hedge \/ run.hedge = NoOrder,
         kind = "hedge" => mode.sell /\ (Fresh \in Unplaced' \/ run'.hedge = Fresh),
         kind = "main" /\ mode.sell =>
           \/ Fresh \in Unplaced'
           \/ /\ run'.pc = "link" /\ run'.main = Fresh /\ Fresh - 1 \in Rows /\ row[Fresh - 1].kind = "hedge"
              /\ Fresh - 1 \in held \/ row[Fresh - 1].answer = "unclear"
  PROVE  NumberedInv' /\ LinkedInv' /\ SoldInv' /\ LeftInv'
<1>1. /\ \A q \in Rows : q < Fresh => Used(q)
      /\ \A q \in Rows : q >= Fresh => ~Used(q)
      /\ Fresh \in Rows /\ Fresh # NoOrder /\ Fresh \notin held \union watched
      /\ row'[Fresh] = [kind |-> kind, of |-> NoOrder, after |-> after, status |-> "AWAITING", answer |-> answer]
      /\ \A o \in Rows \ {Fresh} : row'[o] = row[o]
      /\ held' = IF answer = "taken" THEN held \union {Fresh} ELSE held
      /\ \A x \in Rows : row[x].of # Fresh
  BY PlaceRows
<1>2. /\ row'[Fresh].kind = kind /\ row'[Fresh].of = NoOrder /\ row'[Fresh].status = "AWAITING"
      /\ row'[Fresh].answer = answer
  BY <1>1
<1>3. NumberedInv'
  BY <1>1, <1>2 DEF HedgeInv, NumberedInv, Used, Rows
<1>4. LinkedInv'
  <2> SUFFICES ASSUME NEW x \in Rows
               PROVE  /\ row'[x].of # NoOrder => row'[x].kind = "hedge" /\ row'[x].of = x + 1 /\ x + 1 \in Rows
                                                  /\ row'[x + 1].kind = "main"
                      /\ row'[x].kind = "hedge" => mode.sell
                      /\ mode.sell /\ row'[x].kind = "main" /\ x \notin cut' \union Unplaced' =>
                           /\ x - 1 \in Rows /\ row'[x - 1].kind = "hedge"
                           /\ row'[x - 1].of = x \/ (run'.pc = "link" /\ run'.main = x) \/ x - 1 \in Unlinked'
    BY DEF LinkedInv
  <2>1. CASE x = Fresh
    <3>1. Fresh - 1 # Fresh
      BY <1>1 DEF Rows
    <3> QED BY <1>1, <1>2, <2>1, <3>1
  <2>2. CASE x # Fresh
    <3>1. row'[x] = row[x]
      BY <1>1, <2>2
    <3>2. row[x].of # NoOrder => x + 1 # Fresh
      BY <1>1 DEF HedgeInv, LinkedInv
    <3>3. row[x].kind = "main" => x - 1 # Fresh
      BY <1>1 DEF Used, Rows
    <3>4. mode.sell /\ row[x].kind = "main" /\ x \notin cut' \union Unplaced' =>
            x - 1 \in Rows /\ row[x - 1].kind = "hedge" /\ (row[x - 1].of = x \/ x - 1 \in Unlinked')
      BY DEF HedgeInv, LinkedInv, Grown
    <3> QED BY <1>1, <2>2, <3>1, <3>2, <3>3, <3>4 DEF HedgeInv, LinkedInv
  <2> QED BY <2>1, <2>2
<1>5. SoldInv'
  <2> SUFFICES ASSUME mode.sell, NEW o \in Sold' PROVE Hedged(o)'
    BY DEF SoldInv
  <2>1. CASE o = Fresh
    <3>1. kind = "main" /\ Fresh \notin Unplaced'
      BY <1>2, <2>1 DEF Sold
    <3>2. Fresh - 1 \in Rows /\ Fresh - 1 # Fresh /\ (Fresh - 1 \in held \/ row[Fresh - 1].answer = "unclear")
      BY <1>1, <3>1 DEF Rows
    <3> QED BY <1>1, <2>1, <3>2 DEF Hedged
  <2>2. CASE o # Fresh
    <3>1. o \in Sold
      BY <1>1, <1>3, <2>2 DEF Sold, Grown, NumberedInv
    <3>2. o - 1 \in Rows /\ Used(o) /\ o \in Rows /\ (o - 1 \in held \union Unlinked \/ row[o - 1].answer = "unclear")
      BY <3>1, SoldHas
    <3>3. o - 1 # Fresh
      BY <1>1, <3>2 DEF Rows
    <3> QED BY <1>1, <3>2, <3>3 DEF Hedged, Grown
  <2> QED BY <2>1, <2>2
<1>6. LeftInv'
  <2> SUFFICES ASSUME NEW h \in Left' PROVE Tied(h)'
    BY DEF LeftInv
  <2>1. h # Fresh /\ h # NoOrder
    BY <1>2, <1>3 DEF Left, NumberedInv, EntryConstants, Rows
  <2>2. h \in Left
    BY <1>1, <1>3, <2>1 DEF Left, Grown, NumberedInv
  <2>3. h \in Rows /\ row[h].of # NoOrder /\ row[row[h].of].status \in Live /\ row[h].of \in Rows /\ row[h].of # Fresh
    BY <1>1, <2>2, LeftHas
  <2> QED BY <1>1, <2>1, <2>3 DEF Tied
<1> QED BY <1>3, <1>4, <1>5, <1>6

LEMMA PlaceHedgeHedges == ASSUME EntryConstants, EntryInv, EntryInv', HedgeInv, PlaceHedge PROVE HedgeInv'
<1>1. PICK answer \in Answers :
        /\ Place("hedge", NoOrder, answer)
        /\ run' = [run EXCEPT !.hedge = Fresh, !.pc = IF answer = "failed" THEN "unhedged" ELSE "main"]
  BY DEF PlaceHedge
<1>2. /\ run.pc = "hedge" /\ run.hedge = NoOrder /\ run.main = NoOrder /\ run \in RunTypes /\ mode.sell
      /\ UNCHANGED <<mode, watched>> /\ Grown
  BY FaultsGrow DEF PlaceHedge, At, EntryInv, HandInv, EntryTypes, HedgeInv, CycleInv
<1>3. /\ \A q \in Rows : q >= Fresh => ~Used(q)
      /\ Fresh \in Rows /\ Fresh # NoOrder /\ Fresh \notin held \union watched
      /\ row'[Fresh] = [kind |-> "hedge", of |-> NoOrder, after |-> NoOrder, status |-> "AWAITING", answer |-> answer]
      /\ \A o \in Rows \ {Fresh} : row'[o] = row[o]
      /\ held' = IF answer = "taken" THEN held \union {Fresh} ELSE held
  BY <1>1, PlaceRows DEF MaybeRows
<1>4. /\ run'.hedge = Fresh /\ run'.main = NoOrder
      /\ run'.pc = IF answer = "failed" THEN "unhedged" ELSE "main"
  BY <1>1, <1>2 DEF RunTypes
<1>5. /\ row'[Fresh].kind = "hedge" /\ row'[Fresh].of = NoOrder /\ row'[Fresh].answer = answer
  BY <1>3
<1>6. NumberedInv' /\ LinkedInv' /\ SoldInv' /\ LeftInv'
  BY <1>1, <1>2, <1>4, PlacedHedges DEF MaybeRows
<1>7. CycleInv'
  <2>1. \A q \in Rows : q > Fresh => ~Used(q)'
    BY <1>3 DEF Used, Rows
  <2> QED BY <1>2, <1>3, <1>4, <1>5, <2>1 DEF CycleInv, Answers
<1> QED BY <1>6, <1>7 DEF HedgeInv

\* Before the order is placed its hedge is the last row, and the order becomes the next one.
LEMMA NextAfterHedge ==
  ASSUME EntryConstants, EntryInv, HedgeInv, mode.sell, run.pc = "main"
  PROVE  /\ run.hedge \in Rows /\ run.hedge # NoOrder /\ row[run.hedge].kind = "hedge" /\ Used(run.hedge)
         /\ row[run.hedge].of = NoOrder /\ (run.hedge \in held \/ row[run.hedge].answer = "unclear")
         /\ run.hedge + 1 \notin held
         /\ Unused # {} => Fresh = run.hedge + 1
<1>1. /\ run.hedge # NoOrder /\ row[run.hedge].kind = "hedge" /\ row[run.hedge].of = NoOrder
      /\ (run.hedge \in held \/ row[run.hedge].answer = "unclear")
      /\ \A q \in Rows : q > run.hedge => ~Used(q)
  BY DEF HedgeInv, CycleInv
<1>2. run.hedge \in Rows /\ Used(run.hedge)
  BY <1>1 DEF EntryInv, EntryTypes, RunTypes, MaybeRows, Used
<1>3. run.hedge + 1 \notin held
  BY <1>1, <1>2 DEF HedgeInv, NumberedInv, Rows
<1>4. ASSUME Unused # {} PROVE Fresh = run.hedge + 1
  <2>1. /\ \A q \in Rows : q < Fresh => Used(q)
        /\ \A q \in Rows : q >= Fresh => ~Used(q)
        /\ Fresh \in Rows
    BY <1>4, FreshIsNext DEF EntryInv, HedgeInv
  <2>2. run.hedge < Fresh
    BY <1>2, <2>1 DEF Rows
  <2>3. run.hedge + 1 \in Rows /\ ~Used(run.hedge + 1)
    BY <1>1, <1>2, <2>1, <2>2 DEF Rows, EntryConstants
  <2> QED BY <1>2, <2>1, <2>2, <2>3 DEF Rows
<1> QED BY <1>1, <1>2, <1>3, <1>4

LEMMA SoldRowHedges ==
  ASSUME EntryConstants, EntryInv, EntryInv', HedgeInv, BuyMain \/ SellMain
  PROVE  HedgeInv'
<1>1. PICK answer \in Answers : Place("main", run.parent, answer)
  BY DEF BuyMain, SellMain
<1>2. /\ run.pc = "main" /\ run.main = NoOrder /\ run \in RunTypes /\ run.parent \in MaybeRows
      /\ UNCHANGED <<mode, watched>> /\ Grown
  BY FaultsGrow DEF BuyMain, SellMain, At, EntryInv, HandInv, EntryTypes, RunTypes
<1>3. /\ Fresh \in Rows /\ Fresh # NoOrder /\ Fresh \notin held \union watched
      /\ row'[Fresh] = [kind |-> "main", of |-> NoOrder, after |-> run.parent, status |-> "AWAITING",
                        answer |-> answer]
      /\ \A o \in Rows \ {Fresh} : row'[o] = row[o]
      /\ held' = IF answer = "taken" THEN held \union {Fresh} ELSE held
  BY <1>1, <1>2, PlaceRows
<1>4. run'.hedge = run.hedge /\ run'.main = Fresh /\ run'.pc = IF mode.sell THEN "link" ELSE "placed"
  BY <1>2 DEF BuyMain, SellMain, RunTypes
<1>5. row'[Fresh].kind = "main" /\ row'[Fresh].status = "AWAITING"
  BY <1>3
<1>6. mode.sell => /\ run.hedge \in Rows /\ Fresh = run.hedge + 1 /\ run.hedge # Fresh
                   /\ row[run.hedge].kind = "hedge" /\ row[run.hedge].of = NoOrder /\ run.hedge # NoOrder
                   /\ (run.hedge \in held \/ row[run.hedge].answer = "unclear")
  <2>1. Unused # {}
    BY <1>1 DEF Place
  <2> QED BY <1>2, <1>3, <2>1, NextAfterHedge DEF Rows
<1>7. ~mode.sell => run.hedge = NoOrder
  BY DEF EntryInv, HandInv
<1>8. NumberedInv' /\ LinkedInv' /\ SoldInv' /\ LeftInv'
  <2>1. mode.sell => Fresh - 1 = run.hedge
    BY <1>6 DEF Rows
  <2> QED BY <1>1, <1>2, <1>4, <1>6, <2>1, PlacedHedges
<1>9. CycleInv'
  <2>1. run.hedge # NoOrder => run.hedge \in Rows /\ row'[run.hedge] = row[run.hedge] /\ run.hedge \notin watched
    BY <1>3, <1>6, <1>7 DEF HedgeInv, CycleInv
  <2> QED BY <1>2, <1>3, <1>4, <1>5, <1>6, <1>7, <2>1 DEF CycleInv
<1> QED BY <1>8, <1>9 DEF HedgeInv

\* What was lost by place_order is not sold in the sense of the properties; the seller's next step is
\* to unwind the hedge.
LEMMA RaisesHedges ==
  ASSUME EntryConstants, EntryInv, EntryInv', HedgeInv, HedgeRaises \/ BuyRaises \/ SellRaises
  PROVE  HedgeInv'
<1>1. PICK kind \in {"main", "hedge"}, after \in MaybeRows :
        /\ PlaceRaises(kind, after)
        /\ kind = "hedge" => run.pc = "hedge"
  BY DEF HedgeRaises, BuyRaises, SellRaises, At, EntryInv, EntryTypes, RunTypes, MaybeRows
<1>2. PICK answer \in Answers : Place(kind, after, answer)
  BY <1>1 DEF PlaceRaises
<1>3. /\ run.pc \in {"hedge", "main"} /\ run \in RunTypes /\ UNCHANGED <<mode, watched, cut>>
      /\ (run.pc = "hedge" => mode.sell /\ run.hedge = NoOrder) /\ (~mode.sell => run.hedge = NoOrder)
  BY DEF HedgeRaises, BuyRaises, SellRaises, At, EntryInv, HandInv, EntryTypes, HedgeInv, CycleInv
<1>4. /\ Fresh \in Rows /\ Fresh # NoOrder /\ Fresh \notin held \union watched
      /\ \A q \in Rows : q >= Fresh => ~Used(q)
      /\ \A o \in Rows \ {Fresh} : row'[o] = row[o]
      /\ held' = IF answer = "taken" THEN held \union {Fresh} ELSE held
  BY <1>2, PlaceRows
<1>5. Fresh \in Unplaced' /\ Grown
  BY <1>1, <1>3, <1>4, FaultIs, FaultsGrow DEF PlaceRaises
<1>6. /\ run'.main = NoOrder
      /\ \/ run'.pc \in {"idle", "look"} /\ run'.hedge = NoOrder /\ run.hedge = NoOrder
         \/ run'.pc = "unwind" /\ run'.hedge = run.hedge /\ mode.sell /\ run.pc = "main"
  <2>1. CASE HedgeRaises
    BY <1>3, <2>1, GivenUpRun DEF HedgeRaises, At
  <2>2. CASE BuyRaises
    BY <1>3, <2>2, GivenUpRun DEF BuyRaises
  <2>3. CASE SellRaises
    BY <1>3, <2>3 DEF SellRaises, At, Go, RunTypes, EntryInv, HandInv
  <2> QED BY <2>1, <2>2, <2>3
<1>7. NumberedInv' /\ LinkedInv' /\ SoldInv' /\ LeftInv'
  BY <1>1, <1>2, <1>3, <1>5, <1>6, PlacedHedges
<1>8. CycleInv'
  <2>1. CASE run'.pc \in {"idle", "look"}
    BY <1>6, <2>1 DEF CycleInv
  <2>2. CASE run'.pc = "unwind"
    <3>1. mode.sell /\ run.pc = "main" /\ run'.hedge = run.hedge /\ run'.main = NoOrder
      BY <1>6, <2>2
    <3>2. /\ run.hedge \in Rows /\ row[run.hedge].kind = "hedge" /\ Used(run.hedge) /\ run.hedge + 1 \notin held
          /\ run.hedge # NoOrder /\ run.hedge \notin watched
      BY <3>1, NextAfterHedge DEF HedgeInv, CycleInv
    <3>3. run.hedge # Fresh
      <4>1. ~Used(Fresh)
        BY <1>4 DEF Rows
      <4> QED BY <3>2, <4>1
    <3>4. run.hedge + 1 \in held' => run.hedge + 1 = Fresh
      BY <1>4, <3>2
    <3>5. run.hedge + 1 \notin held' \ Unplaced'
      BY <1>5, <3>4
    <3> QED BY <1>3, <1>4, <2>2, <3>1, <3>2, <3>3, <3>5 DEF CycleInv
  <2> QED BY <1>6, <2>1, <2>2
<1> QED BY <1>7, <1>8 DEF HedgeInv

\* Without a main order the hedge is alone.
LEMMA NoMainHedges == ASSUME EntryConstants, EntryInv, EntryInv', HedgeInv, NoMain \/ Unbuilt PROVE HedgeInv'
<1>1. run.pc = "main" /\ mode.sell /\ run \in RunTypes /\ UNCHANGED <<mode, row, held, watched, cut>>
  BY DEF NoMain, Unbuilt, At, EntryInv, EntryTypes
<1>2. run'.hedge = run.hedge /\ run'.main = run.main /\ run'.pc \in {"unwind", "unbuilt"} /\ run.main = NoOrder
  BY <1>1 DEF NoMain, Unbuilt, Go, RunTypes, EntryInv, HandInv
<1>3. Grown
  BY <1>1, FaultsGrow DEF NoMain, Unbuilt, Fault
<1>4. run.hedge # NoOrder /\ run.hedge + 1 \notin held
  BY <1>1, NextAfterHedge
<1>5. NumberedInv' /\ LinkedInv'
  BY <1>1, <1>2, <1>3 DEF HedgeInv, NumberedInv, Used, LinkedInv, Grown
<1>6. CycleInv'
  BY <1>1, <1>2, <1>4 DEF HedgeInv, CycleInv
<1>7. SoldInv'
  BY <1>1, <1>3, SoldKept DEF Sold, Grown
<1>8. LeftInv'
  BY <1>1, <1>2, <1>3, LeftKept DEF Left, Grown
<1> QED BY <1>5, <1>6, <1>7, <1>8 DEF HedgeInv

\* The order is linked to the hedge before it, and is given up when all brokers refused it.
LEMMA LinkHedges ==
  ASSUME EntryConstants, EntryInv, EntryInv', HedgeInv, Link \/ LinkFails \/ FailureUnwritten PROVE HedgeInv'
<1>1. /\ run.pc = "link" /\ run \in RunTypes /\ EntryTypes /\ mode.sell
      /\ run.hedge \in Rows /\ run.main \in Rows /\ run.main = run.hedge + 1
      /\ UNCHANGED <<mode, held, watched, cut>>
  BY DEF Link, LinkFails, FailureUnwritten, At, EntryInv, EntryTypes, RunTypes, MaybeRows, HedgeInv, CycleInv
<1>2. /\ row[run.hedge].kind = "hedge" /\ row[run.hedge].of = NoOrder /\ run.hedge \notin watched
      /\ row[run.main].kind = "main" /\ row[run.main].status = "AWAITING" /\ run.main \notin watched
      /\ run.hedge # run.main /\ run.hedge # NoOrder /\ run.main # NoOrder
  BY <1>1 DEF HedgeInv, CycleInv, EntryConstants, Rows
<1>3. /\ \A r \in Rows :
           /\ row'[r].kind = row[r].kind /\ row'[r].answer = row[r].answer
           /\ row'[r].of = row[r].of \/ (r = run.hedge /\ row'[r].of = run.main)
           /\ row'[r].status = IF row' # Linked /\ Failed /\ r = run.main THEN "FAILED" ELSE row[r].status
      /\ row' # Written(row) => row'[run.hedge].of = run.main
  <2>1. row' \in {Linked, Written(row), Written(Linked)} /\ run.hedge \in MaybeRows /\ run.main \in MaybeRows
    BY <1>1 DEF Link, LinkFails, FailureUnwritten, MaybeRows
  <2> QED BY <1>1, <2>1, LinkRows
<1>4. run'.hedge = run.hedge /\ run'.main = run.main /\ run'.pc = IF Failed THEN "unwind" ELSE "placed"
  BY <1>1 DEF Link, LinkFails, FailureUnwritten, AfterMain, Go, RunTypes
<1>5. Grown /\ (run.hedge \in Unlinked' \/ row'[run.hedge].of = run.main)
  <2>1. CASE LinkFails
    BY <1>1, <2>1, FaultIs, FaultsGrow DEF LinkFails
  <2>2. CASE Link \/ FailureUnwritten
    <3>1. Grown
      BY <1>1, <2>2, FaultsGrow DEF Link, FailureUnwritten, Fault
    <3>2. \A r \in Rows : Linked[r].of = IF r = run.hedge THEN run.main ELSE row[r].of
      BY <1>1 DEF Linked, EntryTypes
    <3>3. Written(Linked)[run.hedge].of = run.main
      <4>1. Linked \in [Rows -> RowTypes]
        BY <1>1 DEF Linked, EntryTypes, RowTypes, MaybeRows
      <4> QED BY <1>1, <3>2, <4>1 DEF Written, RowTypes
    <3> QED BY <1>1, <2>2, <3>1, <3>2, <3>3 DEF Link, FailureUnwritten
  <2> QED BY <2>1, <2>2
<1>6. Failed => run.main \notin held
  BY <1>1 DEF Failed, HedgeInv, NumberedInv
<1>7. NumberedInv'
  BY <1>1, <1>2, <1>3 DEF HedgeInv, NumberedInv, Used
<1>8. CycleInv'
  <2>1. ~Failed => row'[run.main].status = "AWAITING"
    BY <1>1, <1>2, <1>3
  <2>2. row'[run.hedge].kind = "hedge" /\ row'[run.main].kind = "main"
    BY <1>1, <1>2, <1>3
  <2> QED BY <1>1, <1>2, <1>4, <1>5, <1>6, <2>1, <2>2 DEF CycleInv, Live
<1>9. LinkedInv'
  <2> SUFFICES ASSUME NEW x \in Rows
               PROVE  /\ row'[x].of # NoOrder => row'[x].kind = "hedge" /\ row'[x].of = x + 1 /\ x + 1 \in Rows
                                                  /\ row'[x + 1].kind = "main"
                      /\ row'[x].kind = "hedge" => mode.sell
                      /\ row'[x].kind = "main" /\ x \notin cut' \union Unplaced' =>
                           /\ x - 1 \in Rows /\ row'[x - 1].kind = "hedge"
                           /\ row'[x - 1].of = x \/ x - 1 \in Unlinked'
    BY <1>1 DEF LinkedInv
  <2>1. row'[x].of # NoOrder => row'[x].kind = "hedge" /\ row'[x].of = x + 1 /\ x + 1 \in Rows
                                /\ row'[x + 1].kind = "main"
    BY <1>1, <1>2, <1>3 DEF HedgeInv, LinkedInv
  <2>2. row'[x].kind = "main" /\ x \notin cut' \union Unplaced' =>
           /\ x - 1 \in Rows /\ row'[x - 1].kind = "hedge" /\ (row'[x - 1].of = x \/ x - 1 \in Unlinked')
    <3> SUFFICES ASSUME row[x].kind = "main", x \notin cut' \union Unplaced'
                 PROVE  x - 1 \in Rows /\ row[x - 1].kind = "hedge" /\ (row'[x - 1].of = x \/ x - 1 \in Unlinked')
      BY <1>3
    <3>1. /\ x - 1 \in Rows /\ row[x - 1].kind = "hedge"
          /\ row[x - 1].of = x \/ run.main = x \/ x - 1 \in Unlinked
      BY <1>1, <1>5 DEF HedgeInv, LinkedInv, Grown
    <3>2. run.main = x => x - 1 = run.hedge
      BY <1>1 DEF Rows
    <3>3. row[x - 1].of = x => row'[x - 1].of = x
      BY <1>2, <1>3, <3>1 DEF EntryConstants, Rows
    <3> QED BY <1>5, <3>1, <3>2, <3>3 DEF Grown
  <2> QED BY <1>3, <2>1, <2>2 DEF HedgeInv, LinkedInv
<1>10. SoldInv'
  <2>1. Sold' \subseteq Sold
    BY <1>1, <1>3, <1>5 DEF Sold, Grown, HedgeInv, NumberedInv
  <2> QED BY <1>1, <1>3, <1>5, <2>1, SoldKept
<1>11. LeftInv'
  <2>1. Left' \subseteq Left
    BY <1>1, <1>3, <1>4, <1>5 DEF Left, Grown, HedgeInv, NumberedInv
  <2>2. ASSUME NEW h \in Left
        PROVE  row'[h].of = row[h].of /\ row'[row[h].of].status = row[row[h].of].status
    <3>1. h \in Rows /\ h # run.hedge /\ row[h].of = h + 1 /\ row[h].of \in Rows
      BY LeftHas DEF Left
    <3>2. row[h].of # run.main
      BY <1>1, <3>1 DEF Rows
    <3> QED BY <1>3, <3>1, <3>2
  <2> QED BY <2>1, <2>2, LeftKept
<1> QED BY <1>7, <1>8, <1>9, <1>10, <1>11 DEF HedgeInv

\* The hedge is let go of, or returned alone: it is exited, or the call that should have done so failed.
LEMMA LetGo ==
  ASSUME EntryConstants, EntryInv, HedgeInv, run.pc \in {"unhedged", "unwind", "unbuilt"},
         UNCHANGED <<mode, watched>>, Grown,
         held' = held \/ held' = held \ {run.hedge},
         row' = row \/ row' = [row EXCEPT ![run.hedge].status = "CLOSED"]
                    \/ row' = [row EXCEPT ![run.hedge].status = "EXITING"],
         run'.main = NoOrder,
         \/ /\ run'.pc = "placed" /\ run'.hedge = run.hedge
            /\ run.hedge \notin held' \ Unexited'
         \/ /\ run'.pc \in {"idle", "look"} /\ run'.hedge = NoOrder
            /\ run.hedge \notin held' \ Unreturned'
  PROVE  HedgeInv'
<1>1. /\ run \in RunTypes /\ row \in [Rows -> RowTypes] /\ mode.sell
      /\ run.hedge \in Rows /\ run.hedge # NoOrder /\ row[run.hedge].kind = "hedge" /\ run.hedge \notin watched
  BY DEF EntryInv, EntryTypes, RunTypes, MaybeRows, HedgeInv, CycleInv
<1>2. \A o \in Rows : /\ row'[o].kind = row[o].kind /\ row'[o].of = row[o].of /\ row'[o].answer = row[o].answer
                      /\ o # run.hedge => row'[o].status = row[o].status
  BY <1>1 DEF RowTypes
<1>3. \A o \in held : o \in Rows
  BY DEF HedgeInv, NumberedInv
<1>4. NumberedInv'
  BY <1>1, <1>2 DEF HedgeInv, NumberedInv, Used
<1>5. CycleInv'
  BY <1>1, <1>2 DEF CycleInv
<1>6. LinkedInv'
  <2>1. run.pc # "link"
    OBVIOUS
  <2> QED BY <1>2, <2>1 DEF HedgeInv, LinkedInv, Grown
<1>7. SoldInv'
  <2>1. Sold' \subseteq Sold
    BY <1>1, <1>2, <1>3 DEF Sold, Grown
  <2>2. ASSUME NEW o \in Sold, o - 1 \in held PROVE o - 1 \in held'
    <3>1. o \in held /\ o \in Rows /\ o \notin Unplaced
      BY <1>1, <2>2, SoldHas DEF Sold
    <3>2. o - 1 = run.hedge => o = run.hedge + 1
      BY <1>1, <3>1 DEF Rows
    <3>3. o - 1 # run.hedge \/ held' = held
      <4>1. CASE run.pc = "unhedged"
        BY <2>2, <4>1 DEF HedgeInv, CycleInv
      <4>2. CASE run.pc \in {"unwind", "unbuilt"}
        BY <3>1, <3>2, <4>2 DEF HedgeInv, CycleInv
      <4> QED BY <4>1, <4>2
    <3> QED BY <2>2, <3>3
  <2> QED BY <1>2, <2>1, <2>2, SoldKept
<1>8. LeftInv'
  <2>1. ASSUME NEW h \in Left' PROVE h \in Left
    <3>1. h \in held' /\ h \notin Unreturned' /\ h \notin Unexited' /\ h # run'.hedge
      BY DEF Left
    <3>2. h # run.hedge
      BY <3>1
    <3> QED BY <1>2, <1>3, <3>1, <3>2 DEF Left, Grown
  <2>2. ASSUME NEW h \in Left
        PROVE  row'[h].of = row[h].of /\ row'[row[h].of].status = row[row[h].of].status
    <3>1. h \in Rows /\ row[h].of \in Rows /\ row[row[h].of].kind = "main"
      BY LeftHas
    <3> QED BY <1>1, <1>2, <3>1
  <2> QED BY <2>1, <2>2, LeftKept
<1> QED BY <1>4, <1>5, <1>6, <1>7, <1>8 DEF HedgeInv

LEMMA LetGoHedges ==
  ASSUME EntryConstants, EntryInv, HedgeInv,
         Unhedged \/ UnhedgedFails \/ Unwind \/ UnwindFails \/ UnwindUnwritten \/ NotReturned
  PROVE  HedgeInv'
<1>1. /\ run.pc \in {"unhedged", "unwind", "unbuilt"} /\ run \in RunTypes /\ run.hedge \in Rows
      /\ UNCHANGED <<mode, watched, cut>>
  BY DEF Unhedged, UnhedgedFails, Unwind, UnwindFails, UnwindUnwritten, NotReturned, At, EntryInv, EntryTypes, RunTypes,
         MaybeRows, HedgeInv, CycleInv
<1>2. Grown
  <2>1. faults \subseteq faults'
    BY DEF Unhedged, UnhedgedFails, Unwind, UnwindFails, UnwindUnwritten, NotReturned, Fault
  <2> QED BY <1>1, <2>1, FaultsGrow
<1>3. /\ held' = held \/ held' = held \ {run.hedge}
      /\ \/ row' = row
         \/ row' = [row EXCEPT ![run.hedge].status = "CLOSED"]
         \/ row' = [row EXCEPT ![run.hedge].status = "EXITING"]
  BY DEF Unhedged, UnhedgedFails, Unwind, UnwindFails, UnwindUnwritten, NotReturned, SetStatus
<1>4. CASE Unwind \/ UnwindFails
  <2>1. run'.pc = "placed" /\ run'.hedge = run.hedge /\ run'.main = NoOrder
    BY <1>1, <1>4 DEF Unwind, UnwindFails, RunTypes
  <2>2. run.hedge \notin held' \ Unexited'
    BY <1>1, <1>4, FaultIs DEF Unwind, UnwindFails
  <2> QED BY <1>1, <1>2, <1>3, <2>1, <2>2, LetGo
<1>5. CASE Unhedged \/ UnhedgedFails \/ UnwindUnwritten \/ NotReturned
  <2>1. run'.pc \in {"idle", "look"} /\ run'.hedge = NoOrder /\ run'.main = NoOrder
    BY <1>1, <1>5, GivenUpRun DEF Unhedged, UnhedgedFails, UnwindUnwritten, NotReturned
  <2>2. run.hedge \notin held' \ Unreturned'
    <3>1. CASE Unhedged \/ UnhedgedFails
      BY <3>1 DEF Unhedged, UnhedgedFails, At, HedgeInv, CycleInv
    <3>2. CASE UnwindUnwritten
      BY <3>2 DEF UnwindUnwritten
    <3>3. CASE NotReturned
      BY <1>1, <1>2, <3>3 DEF NotReturned, At, EntryInv, HandInv, EntryConstants, Rows, Grown
    <3> QED BY <1>5, <3>1, <3>2, <3>3
  <2> QED BY <1>1, <1>2, <1>3, <2>1, <2>2, LetGo
<1> QED BY <1>4, <1>5

\* What a cycle had in hand is watched, or was cut off.
LEMMA LeavesHands ==
  ASSUME EntryConstants, EntryInv, HedgeInv, UNCHANGED <<mode, row, held>>, Grown,
         run'.pc \in {"idle", "look"}, run'.hedge = NoOrder, run'.main = NoOrder,
         \A o \in watched' : o \in Rows /\ Used(o),
         Return \/ OfCycle \subseteq cut'
  PROVE  HedgeInv'
<1>1. NumberedInv' /\ CycleInv'
  BY DEF HedgeInv, NumberedInv, Used, CycleInv
<1>2. LinkedInv'
  <2>1. run.pc = "link" => run.main \in cut'
    BY DEF Return, At, OfCycle, HedgeInv, CycleInv
  <2> QED BY <2>1 DEF HedgeInv, LinkedInv, Grown
<1>3. SoldInv'
  BY SoldKept DEF Sold, Grown
<1>4. LeftInv'
  <2> SUFFICES ASSUME NEW h \in Left' PROVE row[h].of # NoOrder /\ row[row[h].of].status \in Live
    BY DEF LeftInv, Tied
  <2>1. CASE h # run.hedge
    <3>1. h \in Left
      BY <2>1 DEF Left, Grown
    <3> QED BY <3>1, LeftHas
  <2>2. CASE h = run.hedge
    <3>1. h # NoOrder /\ h \notin cut' /\ h \in held \ (Unlinked \union Unexited)
      BY <1>1 DEF Left, Grown, EntryConstants, NumberedInv, Rows
    <3>2. Return
      BY <2>2, <3>1 DEF OfCycle
    <3> QED BY <2>2, <3>1, <3>2 DEF Return, At, HedgeInv, CycleInv
  <2> QED BY <2>1, <2>2
<1> QED BY <1>1, <1>2, <1>3, <1>4 DEF HedgeInv

LEMMA LeavingHedges ==
  ASSUME EntryConstants, EntryInv, HedgeInv, Return \/ CutOff \/ Reload
  PROVE  HedgeInv'
<1>1. \A o \in OfCycle : o \in Rows /\ Used(o)
  BY DEF OfCycle, EntryInv, EntryTypes, RunTypes, MaybeRows, HedgeInv, CycleInv, Used
<1>2. run'.pc \in {"idle", "look"} /\ run'.hedge = NoOrder /\ run'.main = NoOrder
  <2>1. CASE run' = Idle
    BY <2>1 DEF Idle
  <2>2. CASE GivenUp
    BY <2>2, GivenUpRun DEF EntryInv, EntryTypes
  <2> QED BY <2>1, <2>2 DEF Return, CutOff, Reload
<1>3. UNCHANGED <<mode, row, held>> /\ Grown
  <2>1. UNCHANGED <<mode, row, held, faults>> /\ cut \subseteq cut'
    BY DEF Return, CutOff, Reload
  <2> QED BY <2>1, FaultsGrow
<1>4. CASE Return
  BY <1>1, <1>2, <1>3, <1>4, LeavesHands DEF Return, HedgeInv, NumberedInv
<1>5. CASE CutOff
  BY <1>2, <1>3, <1>5, LeavesHands DEF CutOff, HedgeInv, NumberedInv
<1>6. CASE Reload
  <2>1. \A o \in Rows : row[o].status \in Live => Used(o)
    BY DEF HedgeInv, NumberedInv, Live
  <2> QED BY <1>2, <1>3, <1>6, <2>1, LeavesHands DEF Reload
<1> QED BY <1>4, <1>5, <1>6

--------------------------------------------------------------------------------
\* A monitor leaves alone what the cycle has in hand, and what it ends it ends with its hedges.
LEMMA MonitorExitHedges ==
  ASSUME EntryConstants, EntryInv, HedgeInv, NEW o \in Rows, MonitorExit(o) \/ MonitorExitFails(o)
  PROVE  HedgeInv'
<1>1. /\ o \in watched /\ row[o].of = NoOrder /\ row[o].status = "AWAITING" /\ UNCHANGED <<mode, watched, run>>
      /\ row \in [Rows -> RowTypes] /\ run \in RunTypes
  BY DEF MonitorExit, MonitorExitFails, EntryInv, EntryTypes
<1>2. /\ held' \subseteq held /\ \A x \in held : x # o => x \in held'
      /\ (o \notin held' \/ o \in Unexited') /\ Grown
  <2>1. CASE MonitorExit(o)
    BY <2>1, FaultsGrow DEF MonitorExit
  <2>2. CASE MonitorExitFails(o)
    BY <2>2, FaultIs, FaultsGrow DEF MonitorExitFails
  <2> QED BY <2>1, <2>2
<1>3. \A r \in Rows : /\ row'[r].kind = row[r].kind /\ row'[r].of = row[r].of /\ row'[r].answer = row[r].answer
                      /\ row'[r].status = IF r = o THEN "EXITING" ELSE row[r].status
  BY <1>1 DEF MonitorExit, MonitorExitFails, SetStatus, RowTypes
<1>4. o # run.hedge /\ o # run.main
  BY <1>1 DEF HedgeInv, CycleInv, EntryConstants, Rows
<1>5. (run.hedge # NoOrder => run.hedge \in Rows) /\ (run.main # NoOrder => run.main \in Rows)
  BY <1>1 DEF RunTypes, MaybeRows
<1>6. NumberedInv'
  BY <1>1, <1>2, <1>3 DEF HedgeInv, NumberedInv, Used
<1>7. CycleInv'
  <2>1. mode.sell /\ run.pc \in {"main", "link"} => run.hedge # NoOrder
    BY DEF HedgeInv, CycleInv
  <2> QED BY <1>1, <1>2, <1>3, <1>4, <1>5, <2>1 DEF HedgeInv, CycleInv, NumberedInv, Used, Live, Grown
<1>8. LinkedInv'
  <2> SUFFICES ASSUME NEW x \in Rows
               PROVE  /\ row[x].of # NoOrder => row[x].kind = "hedge" /\ row[x].of = x + 1 /\ x + 1 \in Rows
                                                /\ row'[x + 1].kind = "main"
                      /\ row[x].kind = "hedge" => mode.sell
                      /\ mode.sell /\ row[x].kind = "main" /\ x \notin cut' \union Unplaced' =>
                           /\ x - 1 \in Rows /\ row'[x - 1].kind = "hedge"
                           /\ row'[x - 1].of = x \/ (run.pc = "link" /\ run.main = x) \/ x - 1 \in Unlinked'
    BY <1>1, <1>3 DEF LinkedInv
  <2>1. /\ row[x].of # NoOrder => row[x].kind = "hedge" /\ row[x].of = x + 1 /\ x + 1 \in Rows
                                  /\ row[x + 1].kind = "main"
        /\ row[x].kind = "hedge" => mode.sell
        /\ mode.sell /\ row[x].kind = "main" /\ x \notin cut \union Unplaced =>
             /\ x - 1 \in Rows /\ row[x - 1].kind = "hedge"
             /\ row[x - 1].of = x \/ (run.pc = "link" /\ run.main = x) \/ x - 1 \in Unlinked
    BY DEF HedgeInv, LinkedInv
  <2> QED BY <1>2, <1>3, <2>1 DEF Grown
<1>9. \A x \in held : x \in Rows
  BY DEF HedgeInv, NumberedInv
<1>10. SoldInv'
  <2>1. Sold' \subseteq Sold
    BY <1>2, <1>3, <1>9 DEF Sold, Grown
  <2>2. ASSUME mode.sell, NEW x \in Sold', o = x - 1 PROVE o \in Unlinked
    <3>1. x \in Rows /\ x # NoOrder /\ (row[x - 1].of = x \/ (run.pc = "link" /\ run.main = x) \/ x - 1 \in Unlinked)
      BY <2>1, <2>2, SoldHas
    <3>2. run.pc = "link" /\ run.main = x => x - 1 = run.hedge
      <4>1. run.pc = "link" => run.main = run.hedge + 1 /\ run.hedge # NoOrder
        BY <2>2 DEF HedgeInv, CycleInv
      <4> QED BY <1>5, <3>1, <4>1 DEF Rows
    <3> QED BY <1>1, <1>4, <2>2, <3>1, <3>2
  <2>3. \A x \in held : x = o \/ x \in held'
    BY <1>2
  <2> SUFFICES ASSUME mode.sell PROVE SoldInv'
    BY <1>1 DEF SoldInv
  <2> QED BY <1>1, <1>2, <1>3, <2>1, <2>2, <2>3, SoldKept DEF Grown
<1>11. LeftInv'
  <2>1. Left' \subseteq Left
    BY <1>1, <1>2, <1>3, <1>9 DEF Left, Grown
  <2>2. \A h \in Left : h \in Rows /\ row[h].of \in Rows
    BY LeftHas
  <2> QED BY <1>3, <2>1, <2>2, LeftKept DEF Live
<1> QED BY <1>6, <1>7, <1>8, <1>10, <1>11 DEF HedgeInv

LEMMA ClosingHedges ==
  ASSUME EntryConstants, EntryInv, HedgeInv, NEW o \in watched,
         NEW s \in {"FAILED", "EXITED", "EXIT_CLOSED", "ATOMIC_FAILED"}, Closing(o, s), UNCHANGED <<mode, run, cut>>
  PROVE  HedgeInv'
<1>1. o \in Rows /\ row \in [Rows -> RowTypes] /\ run \in RunTypes
  BY DEF HedgeInv, NumberedInv, EntryInv, EntryTypes
<1>2. \A r \in Rows : /\ row'[r].kind = row[r].kind /\ row'[r].of = row[r].of /\ row'[r].answer = row[r].answer
                      /\ r = o => row'[r].status = s
                      /\ r # o /\ row[r].of # o => row'[r].status = row[r].status
                      /\ row'[r].status \in {row[r].status, s, "CLOSED"}
  <2>1. CASE row' = Ended(o, s)
    BY <1>1, <2>1 DEF Ended, Hedges, RowTypes
  <2>2. CASE SetStatus(o, s)
    BY <1>1, <2>2 DEF SetStatus, RowTypes
  <2> QED BY <2>1, <2>2 DEF Closing
<1>3. /\ \A h \in held : row[h].of # o => h \in held'
      /\ \A h \in held' : row[h].of = o => h \in Unexited'
      /\ held' \subseteq held /\ watched' \subseteq watched /\ Grown
  <2>1. CASE held' = held \ Hedges(o) /\ UNCHANGED <<faults, cuts>> /\ watched' = watched \ ({o} \union Hedges(o))
    <3>1. \A h \in held : h \in Rows
      BY DEF HedgeInv, NumberedInv
    <3> QED BY <2>1, <3>1, FaultsGrow DEF Hedges
  <2>2. CASE held' = held /\ watched' \subseteq watched /\ \E h \in Hedges(o) : Fault("exit", h)
    <3>1. PICK h \in Hedges(o) : Fault("exit", h)
      BY <2>2
    <3>2. h \in Rows /\ row[h].of = o /\ o # NoOrder
      BY <1>1, <3>1 DEF Hedges, EntryConstants, Rows
    <3>3. \A x \in Rows : row[x].of = o => x = h
      BY <3>2 DEF HedgeInv, LinkedInv, Rows
    <3>4. h \in Unexited' /\ Grown
      BY <3>1, <3>2, FaultIs, FaultsGrow
    <3>5. \A x \in held : x \in Rows
      BY DEF HedgeInv, NumberedInv
    <3> QED BY <2>2, <3>3, <3>4, <3>5
  <2> QED BY <2>1, <2>2 DEF Closing
<1>4. o # run.hedge /\ o # run.main /\ o # NoOrder
  BY <1>1 DEF HedgeInv, CycleInv, EntryConstants, Rows
<1>5. (run.hedge # NoOrder => run.hedge \in Rows) /\ (run.main # NoOrder => run.main \in Rows)
  BY <1>1 DEF RunTypes, MaybeRows
<1>6. \A r \in Rows : row[r].of = o => Used(r)
  BY <1>4 DEF HedgeInv, LinkedInv, Used
<1>7. NumberedInv'
  <2>1. \A r \in Rows : row'[r].status # "none" => Used(r)
    BY <1>1, <1>2, <1>6 DEF HedgeInv, NumberedInv
  <2> QED BY <1>1, <1>2, <1>3, <2>1 DEF HedgeInv, NumberedInv, Used
<1>8. CycleInv'
  <2>1. run.main # NoOrder => row[run.main].of # o /\ row'[run.main].status = row[run.main].status
    <3> SUFFICES ASSUME run.main # NoOrder
                 PROVE  row[run.main].of # o /\ row'[run.main].status = row[run.main].status
      OBVIOUS
    <3>1. run.main \in Rows /\ row[run.main].kind = "main"
      BY <1>5 DEF HedgeInv, CycleInv
    <3>2. row[run.main].of = NoOrder
      BY <3>1 DEF HedgeInv, LinkedInv
    <3> QED BY <1>2, <1>4, <3>1, <3>2
  <2>2. mode.sell /\ run.pc \in {"unhedged", "main", "link"} => row[run.hedge].of # o
    BY <1>4 DEF HedgeInv, CycleInv
  <2> QED BY <1>2, <1>3, <1>4, <1>5, <2>1, <2>2 DEF HedgeInv, CycleInv, NumberedInv, Used, Grown
<1>9. LinkedInv'
  <2> SUFFICES ASSUME NEW x \in Rows
               PROVE  /\ row[x].of # NoOrder => row[x].kind = "hedge" /\ row[x].of = x + 1 /\ x + 1 \in Rows
                                                /\ row'[x + 1].kind = "main"
                      /\ row[x].kind = "hedge" => mode.sell
                      /\ mode.sell /\ row[x].kind = "main" /\ x \notin cut' \union Unplaced' =>
                           /\ x - 1 \in Rows /\ row'[x - 1].kind = "hedge"
                           /\ row'[x - 1].of = x \/ (run.pc = "link" /\ run.main = x) \/ x - 1 \in Unlinked'
    BY <1>2 DEF LinkedInv
  <2>1. /\ row[x].of # NoOrder => row[x].kind = "hedge" /\ row[x].of = x + 1 /\ x + 1 \in Rows
                                  /\ row[x + 1].kind = "main"
        /\ row[x].kind = "hedge" => mode.sell
        /\ mode.sell /\ row[x].kind = "main" /\ x \notin cut \union Unplaced =>
             /\ x - 1 \in Rows /\ row[x - 1].kind = "hedge"
             /\ row[x - 1].of = x \/ (run.pc = "link" /\ run.main = x) \/ x - 1 \in Unlinked
    BY DEF HedgeInv, LinkedInv
  <2> QED BY <1>2, <1>3, <2>1 DEF Grown
<1>10. \A x \in held : x \in Rows
  BY DEF HedgeInv, NumberedInv
<1>11. SoldInv'
  <2>1. ASSUME NEW x \in Sold' PROVE x \in Sold /\ x # o
    <3>1. x \in held /\ x \in Rows /\ row'[x].kind = "main" /\ row'[x].status \in {"AWAITING", "EXITING"}
      BY <1>3, <1>10 DEF Sold
    <3>2. x # o /\ row[x].status = row'[x].status
      BY <1>2, <3>1
    <3> QED BY <1>2, <1>3, <3>1, <3>2 DEF Sold, Grown
  <2>2. ASSUME mode.sell, NEW x \in Sold, x # o, x - 1 \in held PROVE x - 1 \in held' \union Unlinked'
    <3>1. x \in Rows /\ (row[x - 1].of = x \/ (run.pc = "link" /\ run.main = x) \/ x - 1 \in Unlinked)
      BY <2>2, SoldHas
    <3>2. run.pc = "link" /\ run.main = x => row[x - 1].of # o
      <4>1. run.pc = "link" => run.main = run.hedge + 1 /\ run.hedge # NoOrder /\ row[run.hedge].of = NoOrder
        BY <2>2 DEF HedgeInv, CycleInv
      <4>2. run.pc = "link" /\ run.main = x => x - 1 = run.hedge
        BY <1>5, <3>1, <4>1 DEF Rows
      <4> QED BY <1>4, <4>1, <4>2
    <3> QED BY <1>3, <2>2, <3>1, <3>2 DEF Grown
  <2> SUFFICES ASSUME mode.sell PROVE SoldInv'
    BY DEF SoldInv
  <2> QED BY <1>2, <1>3, <2>1, <2>2, SoldKept
<1>12. LeftInv'
  <2>1. ASSUME NEW h \in Left' PROVE h \in Left /\ row[h].of # o
    <3>1. h \in held /\ h \in Rows /\ h \notin Unexited'
      BY <1>3, <1>10 DEF Left
    <3> QED BY <1>2, <1>3, <3>1 DEF Left, Grown
  <2>2. ASSUME NEW h \in Left, row[h].of # o
        PROVE  row'[h].of = row[h].of /\ row'[row[h].of].status = row[row[h].of].status
    <3>1. h \in Rows /\ row[h].of \in Rows /\ row[row[h].of].kind = "main"
      BY LeftHas
    <3>2. row[row[h].of].of # o
      BY <1>4, <3>1 DEF HedgeInv, LinkedInv
    <3> QED BY <1>2, <2>2, <3>1, <3>2
  <2> QED BY <2>1, <2>2, LeftKept
<1> QED BY <1>7, <1>8, <1>9, <1>11, <1>12 DEF HedgeInv

LEMMA MonitorHedges ==
  ASSUME EntryConstants, EntryInv, HedgeInv, NEW o \in Rows,
         MonitorExit(o) \/ MonitorExitFails(o) \/ MonitorDead(o) \/ MonitorComplete(o)
  PROVE  HedgeInv'
<1>1. CASE MonitorExit(o) \/ MonitorExitFails(o)
  BY <1>1, MonitorExitHedges
<1>2. CASE MonitorDead(o)
  BY <1>2, ClosingHedges DEF MonitorDead
<1>3. CASE MonitorComplete(o)
  BY <1>3, ClosingHedges DEF MonitorComplete
<1> QED BY <1>1, <1>2, <1>3

LEMMA HedgeNextInv == EntryConstants /\ EntryInv /\ EntryInv' /\ HedgeInv /\ [EntryNext]_entryVars => HedgeInv'
<1> SUFFICES ASSUME EntryConstants, EntryInv, EntryInv', HedgeInv, [EntryNext]_entryVars PROVE HedgeInv' OBVIOUS
<1>1. CASE BuyCycle \/ SellCycle \/ Evaluate \/ BuyLook \/ SellLook \/ NoOrderPlaced
  BY <1>1, EarlyHedges DEF BuyCycle, SellCycle, BuyLook, SellLook
<1>2. CASE PlaceHedge \/ HedgeRaises \/ BuyMain \/ BuyRaises \/ SellMain \/ NoMain \/ SellRaises \/ Unbuilt
  BY <1>2, PlaceHedgeHedges, SoldRowHedges, RaisesHedges, NoMainHedges
<1>3. CASE \/ Link \/ LinkFails \/ FailureUnwritten
           \/ Unhedged \/ UnhedgedFails \/ Unwind \/ UnwindFails \/ UnwindUnwritten \/ NotReturned
  BY <1>3, LinkHedges, LetGoHedges
<1>4. CASE \/ BuyPlaced \/ SellPlaced \/ Confirmed \/ AttemptUnwritten \/ BuyUnconfirmed \/ SellUnconfirmed
           \/ UnconfirmedStays \/ Mark
  BY <1>4, LateHedges DEF BuyPlaced, SellPlaced
<1>5. CASE Return \/ CutOff \/ Reload
  BY <1>5, LeavingHedges
<1>6. ASSUME NEW o \in Rows, MonitorExit(o) \/ MonitorExitFails(o) \/ MonitorDead(o) \/ MonitorComplete(o)
      PROVE  HedgeInv'
  BY <1>6, MonitorHedges
<1>7. CASE UNCHANGED entryVars
  BY <1>7 DEF entryVars, HedgeInv, NumberedInv, Used, CycleInv, LinkedInv, SoldInv, Sold, Hedged, LeftInv, Left, Tied,
              Unplaced, Unlinked, Unexited, Unreturned
<1> QED BY <1>1, <1>2, <1>3, <1>4, <1>5, <1>6, <1>7 DEF EntryNext

LEMMA HedgeAlways == EntryConstants => (EntrySpec => []HedgeInv)
<1> SUFFICES ASSUME EntryConstants PROVE EntrySpec => []HedgeInv OBVIOUS
<1>1. EntryInit => HedgeInv
  BY HedgeInitInv
<1>2. EntryInv /\ EntryInv' /\ HedgeInv /\ [EntryNext]_entryVars => HedgeInv'
  BY HedgeNextInv
<1> QED BY <1>1, <1>2, EntryAlways, PTL DEF EntrySpec

\* No hedge is left behind by its cycle: it is linked to an order that is still live, and
\* whose end will end it, however entries fail, are unwound, not confirmed or exited; but
\* for cycles that were cut off, and for hedges of which a call failed that placed, linked,
\* exited or returned this very hedge.
THEOREM HedgesAreEnded == EntryConstants => (EntrySpec => []HedgesEnd)
<1>1. HedgeInv => HedgesEnd
  BY DEF HedgeInv, HedgesEnd, LeftInv, Left, Tied
<1> QED BY <1>1, HedgeAlways, PTL

\* Whatever the seller holds, it holds the hedge that was placed just before, if the answers to
\* the hedge were clear and the cycle was not cut off; but for an order whose own place_order
\* or exit failed, and for hedges that could not be linked.
THEOREM SoldIsHedged == EntryConstants => (EntrySpec => []SoldAreHedged)
<1>1. HedgeInv => SoldAreHedged
  BY DEF HedgeInv, SoldAreHedged, SoldInv, Sold, Hedged
<1> QED BY <1>1, HedgeAlways, PTL

--------------------------------------------------------------------------------
(***************************************************************************)
(* The re-entries.  While a cycle is at a re-entry its parent has been touched; *)
(* the re-entry is recorded before it leaves the hands of the cycle, or is not   *)
(* open, or the record has failed.  Without a record, and with none that     *)
(* failed, the re-entry is the one in hand.                                 *)
(***************************************************************************)
Strays   == cut \union Unplaced \union Unmarked
Re(o, p) == o \notin Strays /\ Open(o) /\ row[o].kind = "main" /\ row[o].after = p

Tracks == [Rows -> {"new", "touched", "attempted"}]

Settled ==
  run.parent # NoOrder =>
    \/ run.pc # "return" /\ track[run.parent] = "touched"
    \/ /\ run.pc = "return"
       /\ track[run.parent] = "attempted" \/ run.parent \in Unrecorded \/ run.main = NoOrder \/ ~Open(run.main)

ReInv ==
  /\ track \in Tracks
  /\ Settled
  /\ \A o \in Rows : \A p \in Rows \ Unrecorded :
       Re(o, p) /\ track[p] # "attempted" => o = run.main /\ p = run.parent
  /\ \A o, q \in Rows : \A p \in Rows \ Unrecorded : Re(o, p) /\ Re(q, p) => o = q

LEMMA ReInitInv == EntryConstants /\ EntryInit => ReInv
<1> SUFFICES ASSUME EntryConstants, EntryInit PROVE ReInv OBVIOUS
<1>1. track \in Tracks /\ run.parent = NoOrder
  BY DEF EntryInit, NewTracks, Tracks, Idle
<1>2. \A o, p \in Rows : ~Re(o, p)
  BY DEF EntryInit, Re, Open, NoRow
<1> QED BY <1>1, <1>2 DEF ReInv, Settled

\* Steps that open no row, and do not let go of one that is open.
LEMMA NothingOpened ==
  ASSUME EntryConstants, EntryInv, ReInv, Grown, track' \in Tracks, Settled',
         \A o, p \in Rows : Re(o, p)' => Re(o, p),
         \A p \in Rows : track[p] = "attempted" => track'[p] = "attempted",
         \A o \in Rows : \A p \in Rows \ Unrecorded' :
           Re(o, p)' /\ o = run.main /\ p = run.parent /\ track'[p] # "attempted" => o = run'.main /\ p = run'.parent
  PROVE  ReInv'
<1>1. \A o \in Rows : \A p \in Rows \ Unrecorded' : Re(o, p)' /\ track'[p] # "attempted" => o = run'.main /\ p = run'.parent
  BY DEF ReInv, Grown
<1>2. \A o, q \in Rows : \A p \in Rows \ Unrecorded' : Re(o, p)' /\ Re(q, p)' => o = q
  BY DEF ReInv, Grown
<1> QED BY <1>1, <1>2 DEF ReInv

\* The cycle moves on, and the tracking is as it was.
LEMMA UntrackedRe ==
  ASSUME EntryConstants, EntryInv, ReInv, Grown, track' = track,
         \A o, p \in Rows : Re(o, p)' => Re(o, p),
         \/ run'.main = run.main /\ run'.parent = run.parent /\ run'.pc # "return" /\ run.pc # "return"
         \/ /\ run'.parent = NoOrder \/ (run'.pc # "return" /\ track[run'.parent] = "touched")
            /\ run.main = NoOrder \/ run.main \in Strays' \/ ~Open(run.main)
         \/ run'.parent = NoOrder /\ (run.pc = "return" \/ run.parent = NoOrder)
         \/ UNCHANGED run /\ (run.main # NoOrder => (Open(run.main)' => Open(run.main)))
  PROVE  ReInv'
<1>1. ASSUME NEW o \in Rows, NEW p \in Rows \ Unrecorded', Re(o, p)', o = run.main, p = run.parent, track[p] # "attempted"
      PROVE  o = run'.main /\ p = run'.parent
  <2>1. run.main # NoOrder /\ run.parent # NoOrder /\ run.main \notin Strays' /\ Open(run.main)
    BY <1>1 DEF Re, EntryConstants, Rows, Open
  <2>2. run.pc # "return"
    BY <1>1, <2>1 DEF ReInv, Settled, Grown
  <2> QED BY <1>1, <2>1, <2>2
<1>2. Settled'
  BY DEF ReInv, Settled, Open, Grown
<1>3. track' \in Tracks
  BY DEF ReInv
<1> QED BY <1>1, <1>2, <1>3, NothingOpened

LEMMA GivenUpParent == ASSUME GivenUp PROVE run'.parent = NoOrder
  BY DEF GivenUp, Idle

\* As long as there is no order there is no re-entry in hand.
LEMMA EarlyRe ==
  ASSUME EntryConstants, EntryInv, ReInv,
         \/ Cycle \/ Evaluate \/ NoOrderPlaced \/ Unhedged \/ UnhedgedFails \/ LookedAtAll \/ NoMain \/ Unbuilt
         \/ NotReturned
         \/ \E p \in run.left : Pass(p) \/ Again(p)
  PROVE  ReInv'
<1>1. /\ UNCHANGED <<track, cut>> /\ run \in RunTypes /\ row \in [Rows -> RowTypes]
      /\ run.pc \in {"idle", "signal", "look", "hedge", "unhedged", "main", "unbuilt"} /\ run.main = NoOrder
  <2>1. /\ UNCHANGED <<track, cut>>
        /\ run.pc \in {"idle", "signal", "look", "hedge", "unhedged", "main", "unbuilt"}
    BY DEF Cycle, Evaluate, NoOrderPlaced, Unhedged, UnhedgedFails, LookedAtAll, NoMain, Unbuilt, NotReturned,
           Pass, Again, Looked, At, Order
  <2> QED BY <2>1 DEF EntryInv, EntryTypes, HandInv
<1>2. faults \subseteq faults'
  BY DEF Cycle, Evaluate, NoOrderPlaced, Unhedged, UnhedgedFails, LookedAtAll, NoMain, Unbuilt, NotReturned,
         Pass, Again, Fault
<1>3. Grown
  BY <1>1, <1>2, FaultsGrow
<1>4. \A o, p \in Rows : Re(o, p)' => Re(o, p)
  <2>1. CASE UNCHANGED row
    BY <1>1, <1>3, <2>1 DEF Re, Open, Strays, Grown
  <2>2. ASSUME NEW s \in {"CLOSED", "EXITING"}, SetStatus(run.hedge, s)
        PROVE  \A o, p \in Rows : Re(o, p)' => Re(o, p)
    <3>1. run.hedge \in MaybeRows /\ row' = [row EXCEPT ![run.hedge].status = s]
      BY <1>1, <2>2 DEF SetStatus, RunTypes
    <3>2. RowsMove
      BY <3>1, OneStatus DEF EntryInv
    <3> QED BY <1>1, <1>3, <3>2 DEF RowsMove, Re, Open, Strays, Grown
  <2>3. UNCHANGED row \/ \E s \in {"CLOSED", "EXITING"} : SetStatus(run.hedge, s)
    BY DEF Cycle, Evaluate, NoOrderPlaced, Unhedged, UnhedgedFails, LookedAtAll, NoMain, Unbuilt, NotReturned,
           Pass, Again
  <2> QED BY <2>1, <2>2, <2>3
<1>5. run.parent = NoOrder \/ track[run.parent] = "touched"
  BY <1>1 DEF ReInv, Settled
<1>6. run'.parent = NoOrder \/ (run'.pc # "return" /\ track[run'.parent] = "touched")
  <2>1. CASE run' = Idle \/ GivenUp
    BY <2>1, GivenUpParent DEF Idle
  <2>2. CASE \E l : run' = [run EXCEPT !.left = l]
    BY <1>1, <1>5, <2>2 DEF RunTypes
  <2>3. CASE \E pc \in {"signal", "unwind", "unbuilt", Order} : run' = [run EXCEPT !.pc = pc]
    BY <1>1, <1>5, <2>3 DEF RunTypes, Order
  <2>4. CASE \E l : run' = [run EXCEPT !.pc = "look", !.left = l]
    BY <1>1, <1>5, <2>4 DEF RunTypes
  <2>5. CASE \E l, p : run' = [run EXCEPT !.pc = Order, !.left = l, !.parent = p] /\ track[p] = "touched"
    BY <1>1, <2>5 DEF RunTypes, Order
  <2>6. CASE Cycle
    BY <2>3, <2>4, <2>6 DEF Cycle, Go
  <2>7. CASE Evaluate \/ LookedAtAll \/ NoMain \/ Unbuilt
    BY <2>1, <2>3, <2>7 DEF Evaluate, LookedAtAll, NoMain, Unbuilt, Go
  <2>8. CASE NoOrderPlaced \/ Unhedged \/ UnhedgedFails \/ NotReturned
    BY <2>1, <2>8 DEF NoOrderPlaced, Unhedged, UnhedgedFails, NotReturned
  <2>9. ASSUME NEW p \in run.left, Pass(p) \/ Again(p) PROVE run'.parent = NoOrder \/ (run'.pc # "return" /\ track[run'.parent] = "touched")
    <3>1. CASE Pass(p)
      BY <2>2, <3>1 DEF Pass
    <3>2. CASE Again(p)
      BY <2>5, <3>2 DEF Again
    <3> QED BY <2>9, <3>1, <3>2
  <2> QED BY <2>6, <2>7, <2>8, <2>9
<1> QED BY <1>1, <1>3, <1>4, <1>6, UntrackedRe

\* What the tracking says of a parent that was touched stays.
LEMMA TouchRe == ASSUME EntryConstants, EntryInv, ReInv, NEW p \in Rows, Touch(p) PROVE ReInv'
<1>1. /\ UNCHANGED <<row, cut, faults>> /\ run \in RunTypes /\ run.pc = "look" /\ run.main = NoOrder
      /\ track[p] = "new" /\ track \in Tracks
  BY DEF Touch, Looked, At, EntryInv, EntryTypes, HandInv, ReInv
<1>2. Grown
  BY <1>1, FaultsGrow
<1>3. run'.pc = "look" /\ run'.parent = run.parent
  BY <1>1 DEF Touch, RunTypes
<1>4. PICK w \in {"new", "touched"} : track' = [track EXCEPT ![p] = w]
  BY <1>1 DEF Touch, Touched, Tracks
<1>5. track' \in Tracks /\ \A q \in Rows : q # p => track'[q] = track[q]
  BY <1>1, <1>4 DEF Tracks
<1>6. run.parent # NoOrder => track'[run.parent] = "touched"
  <2>1. run.parent # NoOrder => run.parent \in Rows /\ track[run.parent] = "touched"
    BY <1>1 DEF ReInv, Settled, RunTypes, MaybeRows
  <2> QED BY <1>1, <1>5, <2>1
<1>7. \A o, q \in Rows : Re(o, q)' => Re(o, q)
  BY <1>1, <1>2 DEF Re, Open, Strays, Grown
<1>8. \A o \in Rows : o # run.main
  BY <1>1 DEF EntryConstants, Rows
<1>9. \A q \in Rows : track[q] = "attempted" => track'[q] = "attempted"
  BY <1>1, <1>5
<1>10. Settled'
  BY <1>3, <1>6 DEF Settled
<1> QED BY <1>2, <1>5, <1>7, <1>8, <1>9, <1>10, NothingOpened

LEMMA PlaceHedgeRe == ASSUME EntryConstants, EntryInv, ReInv, PlaceHedge PROVE ReInv'
<1>1. PICK answer \in Answers :
        /\ Place("hedge", NoOrder, answer)
        /\ run' = [run EXCEPT !.hedge = Fresh, !.pc = IF answer = "failed" THEN "unhedged" ELSE "main"]
  BY DEF PlaceHedge
<1>2. run.pc = "hedge" /\ run \in RunTypes /\ EntryTypes /\ UNCHANGED <<track, cut, faults>> /\ Grown
  BY FaultsGrow DEF PlaceHedge, At, EntryInv, EntryTypes
<1>3. row'[Fresh].kind = "hedge" /\ \A o \in Rows \ {Fresh} : row'[o] = row[o]
  BY <1>1, <1>2, PlacedRow DEF MaybeRows
<1>4. run'.main = run.main /\ run'.parent = run.parent /\ run'.pc \in {"unhedged", "main"}
  BY <1>1, <1>2 DEF RunTypes
<1>5. \A o, p \in Rows : Re(o, p)' => Re(o, p)
  BY <1>2, <1>3 DEF Re, Open, Strays, Grown
<1> QED BY <1>2, <1>4, <1>5, UntrackedRe

\* An order that place_order loses is none of the cycle.
LEMMA RaisesRe ==
  ASSUME EntryConstants, EntryInv, ReInv, HedgeRaises \/ BuyRaises \/ SellRaises PROVE ReInv'
<1>1. PICK kind \in {"main", "hedge"}, after \in MaybeRows, answer \in Answers :
        Place(kind, after, answer) /\ Fault("placing", Fresh)
  BY DEF HedgeRaises, BuyRaises, SellRaises, PlaceRaises, EntryInv, EntryTypes, RunTypes, MaybeRows
<1>2. /\ run.pc \in {"hedge", "main"} /\ run.main = NoOrder /\ run \in RunTypes /\ EntryTypes
      /\ UNCHANGED <<track, cut>>
  BY DEF HedgeRaises, BuyRaises, SellRaises, At, EntryInv, HandInv, EntryTypes
<1>3. Fresh \in Rows /\ \A o \in Rows \ {Fresh} : row'[o] = row[o]
  BY <1>1, <1>2, PlacedRow
<1>4. faults \subseteq faults' /\ Fresh \in Unplaced'
  BY <1>1, <1>3, FaultIs
<1>5. Grown
  BY <1>2, <1>4, FaultsGrow
<1>6. \A o, p \in Rows : Re(o, p)' => Re(o, p)
  BY <1>3, <1>4, <1>5 DEF Re, Open, Strays, Grown
<1>7. run'.parent = NoOrder \/ (run'.parent = run.parent /\ run'.pc = "unwind")
  BY <1>2, GivenUpParent DEF HedgeRaises, BuyRaises, SellRaises, Go, RunTypes
<1>8. run.parent = NoOrder \/ track[run.parent] = "touched"
  BY <1>2 DEF ReInv, Settled
<1> QED BY <1>2, <1>5, <1>6, <1>7, <1>8, UntrackedRe

\* The re-entry of the parent at hand: its parent has been touched, so that nothing came after it.
LEMMA MainRe == ASSUME EntryConstants, EntryInv, ReInv, BuyMain \/ SellMain PROVE ReInv'
<1>1. PICK answer \in Answers : Place("main", run.parent, answer)
  BY DEF BuyMain, SellMain
<1>2. /\ run.pc = "main" /\ run.main = NoOrder /\ run \in RunTypes /\ EntryTypes /\ run.parent \in MaybeRows
      /\ UNCHANGED <<track, cut, faults>> /\ Grown
  BY FaultsGrow DEF BuyMain, SellMain, At, EntryInv, HandInv, EntryTypes, RunTypes
<1>3. /\ Fresh \in Rows /\ row'[Fresh].after = run.parent
      /\ \A o \in Rows \ {Fresh} : row'[o] = row[o]
  BY <1>1, <1>2, PlacedRow
<1>4. run'.main = Fresh /\ run'.parent = run.parent /\ run'.pc \in {"placed", "link"}
  BY <1>2, <1>3 DEF BuyMain, SellMain, RunTypes
<1>5. run.parent # NoOrder => track[run.parent] = "touched"
  BY <1>2 DEF ReInv, Settled
<1>6. \A o, p \in Rows : Re(o, p)' => Re(o, p) \/ (o = Fresh /\ p = run.parent)
  BY <1>2, <1>3 DEF Re, Open, Strays, Grown
<1>7. \A o \in Rows : \A p \in Rows \ Unrecorded' : Re(o, p) => track[p] = "attempted"
  BY <1>2 DEF ReInv, Grown, EntryConstants, Rows
<1>8. \A o \in Rows : \A p \in Rows \ Unrecorded' : Re(o, p)' /\ track[p] # "attempted" => o = Fresh /\ p = run.parent
  BY <1>6, <1>7
<1>9. \A o, q \in Rows : \A p \in Rows \ Unrecorded' : Re(o, p)' /\ Re(q, p)' => o = q
  <2> SUFFICES ASSUME NEW o \in Rows, NEW q \in Rows, NEW p \in Rows \ Unrecorded', Re(o, p)', Re(q, p)' PROVE o = q
    OBVIOUS
  <2>1. p = run.parent => track[p] = "touched"
    BY <1>5 DEF EntryConstants, Rows
  <2>2. p = run.parent => ~Re(o, p) /\ ~Re(q, p)
    BY <1>7, <2>1
  <2> QED BY <1>2, <1>6, <2>2 DEF ReInv, Grown
<1>10. Settled'
  BY <1>2, <1>4, <1>5 DEF Settled
<1> QED BY <1>2, <1>4, <1>8, <1>9, <1>10 DEF ReInv

LEMMA LinkRe == ASSUME EntryConstants, EntryInv, ReInv, Link \/ LinkFails \/ FailureUnwritten PROVE ReInv'
<1>1. /\ run.pc = "link" /\ run \in RunTypes /\ EntryTypes
      /\ run.hedge \in MaybeRows /\ run.main \in MaybeRows /\ UNCHANGED <<track, cut>>
  BY DEF Link, LinkFails, FailureUnwritten, At, EntryInv, EntryTypes, RunTypes
<1>2. run'.main = run.main /\ run'.parent = run.parent /\ run'.pc \in {"unwind", "placed"}
  BY <1>1 DEF Link, LinkFails, FailureUnwritten, AfterMain, Go, RunTypes
<1>3. faults \subseteq faults'
  BY DEF Link, LinkFails, FailureUnwritten, Fault
<1>4. Grown
  BY <1>1, <1>3, FaultsGrow
<1>5. row' \in {Linked, Written(row), Written(Linked)}
  BY DEF Link, LinkFails, FailureUnwritten
<1>6. \A r \in Rows : /\ row'[r].kind = row[r].kind /\ row'[r].after = row[r].after
                      /\ row'[r].status = "AWAITING" => row[r].status = "AWAITING"
  BY <1>1, <1>5, LinkRows
<1>7. \A o, p \in Rows : Re(o, p)' => Re(o, p)
  BY <1>4, <1>6 DEF Re, Open, Strays, Grown
<1> QED BY <1>1, <1>2, <1>4, <1>7, UntrackedRe

\* The order that is unwound has failed, or was to be marked so.
LEMMA UnwindRe ==
  ASSUME EntryConstants, EntryInv, ReInv, Unwind \/ UnwindFails \/ UnwindUnwritten PROVE ReInv'
<1>1. /\ run.pc = "unwind" /\ run \in RunTypes /\ EntryTypes /\ run.hedge \in MaybeRows /\ run.main \in MaybeRows
      /\ run.main \notin {o \in Rows \ Unmarked : row[o].status \in Live} /\ UNCHANGED <<track, cut>>
  BY DEF Unwind, UnwindFails, UnwindUnwritten, At, EntryInv, HandInv, EntryTypes, RunTypes
<1>2. faults \subseteq faults'
  BY DEF Unwind, UnwindFails, UnwindUnwritten, Fault
<1>3. Grown
  BY <1>1, <1>2, FaultsGrow
<1>4. RowsMove
  <2>1. CASE row' = row
    BY <1>1, <2>1 DEF RowsMove, EntryTypes
  <2>2. CASE SetStatus(run.hedge, "EXITING")
    BY <1>1, <2>2, OneStatus DEF SetStatus
  <2> QED BY <2>1, <2>2 DEF Unwind, UnwindFails, UnwindUnwritten
<1>5. \A o, p \in Rows : Re(o, p)' => Re(o, p)
  BY <1>3, <1>4 DEF RowsMove, Re, Open, Strays, Grown
<1>6. run'.parent = NoOrder \/ (run'.parent = run.parent /\ run'.pc = "placed")
  BY <1>1, GivenUpParent DEF Unwind, UnwindFails, UnwindUnwritten, RunTypes
<1>7. run.parent = NoOrder \/ track[run.parent] = "touched"
  BY <1>1 DEF ReInv, Settled
<1>8. run.main = NoOrder \/ run.main \in Strays' \/ ~Open(run.main)
  BY <1>1, <1>3 DEF Open, Live, MaybeRows, Strays, Grown
<1> QED BY <1>1, <1>3, <1>5, <1>6, <1>7, <1>8, UntrackedRe

\* A re-entry is confirmed before it is returned.
LEMMA PlacedRe == ASSUME EntryConstants, EntryInv, ReInv, Placed PROVE ReInv'
<1>1. /\ run.pc = "placed" /\ run \in RunTypes /\ UNCHANGED <<row, cut, track, faults>> /\ Grown
      /\ run'.main = run.main /\ run'.parent = run.parent
  BY FaultsGrow DEF Placed, At, Go, EntryInv, EntryTypes, RunTypes
<1>2. \A o, p \in Rows : Re(o, p)' => Re(o, p)
  BY <1>1 DEF Re, Open, Strays, Grown
<1>3. run.parent # NoOrder => run'.pc = "confirm"
  BY <1>1 DEF Placed, Go, Refused, ReEntry, RunTypes
<1> QED BY <1>1, <1>2, <1>3, UntrackedRe

\* The attempt is recorded with the parent, whatever it was that was entered, or fails to be.
LEMMA ConfirmedRe == ASSUME EntryConstants, EntryInv, ReInv, Confirmed \/ AttemptUnwritten PROVE ReInv'
<1>1. /\ run.pc = "confirm" /\ run \in RunTypes /\ run.main \in MaybeRows /\ UNCHANGED <<row, cut>>
      /\ run'.main = run.main /\ run'.parent = run.parent /\ run'.pc = "return" /\ track \in Tracks
  BY DEF Confirmed, AttemptUnwritten, At, Go, EntryInv, EntryTypes, RunTypes, ReInv
<1>2. faults \subseteq faults'
  BY DEF Confirmed, AttemptUnwritten, Fault
<1>3. Grown
  BY <1>1, <1>2, FaultsGrow
<1>4. \A o, p \in Rows : Re(o, p)' => Re(o, p)
  BY <1>1, <1>3 DEF Re, Open, Strays, Grown
<1>5. CASE run.parent = NoOrder
  <2>1. track' = track
    BY <1>5 DEF Confirmed, AttemptUnwritten, ReEntry
  <2> QED BY <1>1, <1>3, <1>4, <1>5, <2>1, UntrackedRe
<1>6. CASE run.parent # NoOrder
  <2>1. run.parent \in Rows /\ track[run.parent] = "touched"
    BY <1>1, <1>6 DEF ReInv, Settled, RunTypes, MaybeRows
  <2>2. CASE Confirmed
    <3>1. track' = [track EXCEPT ![run.parent] = "attempted"]
      BY <1>6, <2>2 DEF Confirmed, ReEntry, Attempted
    <3>2. /\ track' \in Tracks /\ track'[run.parent] = "attempted"
          /\ \A p \in Rows : track[p] = "attempted" => track'[p] = "attempted"
      BY <1>1, <2>1, <3>1 DEF Tracks
    <3>3. Settled'
      BY <1>1, <3>2 DEF Settled
    <3> QED BY <1>1, <1>3, <1>4, <3>2, <3>3, NothingOpened
  <2>3. CASE AttemptUnwritten
    <3>1. track' = track /\ run.parent \in Unrecorded'
      BY <2>1, <2>3, FaultIs DEF AttemptUnwritten
    <3>2. Settled'
      BY <1>1, <3>1 DEF Settled
    <3> QED BY <1>1, <1>3, <1>4, <3>1, <3>2, NothingOpened
  <2> QED BY <2>2, <2>3
<1> QED BY <1>5, <1>6

\* What is not confirmed is marked, and is not open any more.
LEMMA UnconfirmedRe ==
  ASSUME EntryConstants, EntryInv, ReInv, BuyUnconfirmed \/ SellUnconfirmed \/ UnconfirmedStays \/ Mark
  PROVE  ReInv'
<1>1. /\ run \in RunTypes /\ EntryTypes /\ run.main \in MaybeRows /\ UNCHANGED <<track, cut>>
      /\ run.pc \in {"confirm", "mark"} /\ run'.main = run.main /\ run'.parent = run.parent
  BY DEF BuyUnconfirmed, SellUnconfirmed, UnconfirmedStays, Mark, At, Go, EntryInv, EntryTypes, RunTypes
<1>2. faults \subseteq faults'
  BY DEF BuyUnconfirmed, SellUnconfirmed, UnconfirmedStays, Mark, Fault
<1>3. Grown
  BY <1>1, <1>2, FaultsGrow
<1>4. CASE BuyUnconfirmed \/ SellUnconfirmed \/ UnconfirmedStays
  <2>1. run'.pc = "mark" /\ UNCHANGED row
    BY <1>1, <1>4 DEF BuyUnconfirmed, SellUnconfirmed, UnconfirmedStays, Go, RunTypes
  <2>2. \A o, p \in Rows : Re(o, p)' => Re(o, p)
    BY <1>3, <2>1 DEF Re, Open, Strays, Grown
  <2> QED BY <1>1, <1>3, <2>1, <2>2, UntrackedRe
<1>5. CASE Mark
  <2>1. RowsMove /\ run'.pc = "return" /\ (run.main # NoOrder => ~Open(run.main)')
    <3>1. CASE run.main = NoOrder
      BY <1>1, <1>5, <3>1 DEF Mark, Go, RowsMove, EntryTypes, RunTypes
    <3>2. CASE run.main # NoOrder
      <4>1. row' = [row EXCEPT ![run.main].status = "ATOMIC_PENDING"] /\ run'.pc = "return"
        BY <1>1, <1>5, <3>2 DEF Mark, Go, RunTypes
      <4>2. RowsMove /\ \A r \in Rows : row'[r].status = IF r = run.main THEN "ATOMIC_PENDING" ELSE row[r].status
        BY <1>1, <4>1, OneStatus
      <4> QED BY <1>1, <3>2, <4>1, <4>2 DEF Open, MaybeRows
    <3> QED BY <3>1, <3>2
  <2>2. \A o, p \in Rows : Re(o, p)' => Re(o, p)
    BY <1>3, <2>1 DEF RowsMove, Re, Open, Strays, Grown
  <2>3. Settled' /\ track' \in Tracks
    BY <1>1, <2>1 DEF Settled, Open, ReInv
  <2> QED BY <1>1, <1>3, <2>1, <2>2, <2>3, NothingOpened
<1> QED BY <1>4, <1>5

LEMMA LeavingRe == ASSUME EntryConstants, EntryInv, ReInv, Return \/ CutOff \/ Reload PROVE ReInv'
<1>1. UNCHANGED <<track, row, faults>> /\ run'.parent = NoOrder /\ cut \subseteq cut'
  BY GivenUpParent DEF Return, CutOff, Reload, Idle
<1>2. Grown
  BY <1>1, FaultsGrow
<1>3. \A o, p \in Rows : Re(o, p)' => Re(o, p)
  BY <1>1, <1>2 DEF Re, Open, Strays, Grown
<1>4. run.pc = "return" \/ run.main = NoOrder \/ run.main \in Strays'
  BY DEF Return, CutOff, Reload, At, OfCycle, Strays
<1> QED BY <1>1, <1>2, <1>3, <1>4, UntrackedRe

LEMMA MonitorRe ==
  ASSUME EntryConstants, EntryInv, ReInv, NEW o \in Rows,
         MonitorExit(o) \/ MonitorExitFails(o) \/ MonitorDead(o) \/ MonitorComplete(o)
  PROVE  ReInv'
<1>1. UNCHANGED <<run, track, cut>> /\ EntryTypes /\ run \in RunTypes
  BY DEF MonitorExit, MonitorExitFails, MonitorDead, MonitorComplete, EntryInv, EntryTypes
<1>2. /\ faults \subseteq faults'
      /\ \A r \in Rows : /\ row'[r].kind = row[r].kind /\ row'[r].after = row[r].after
                         /\ row'[r].status = "AWAITING" => row[r].status = "AWAITING"
  <2>1. CASE MonitorExit(o) \/ MonitorExitFails(o)
    <3>1. RowsMove
      BY <1>1, <2>1, OneStatus DEF MonitorExit, MonitorExitFails, SetStatus, MaybeRows
    <3> QED BY <2>1, <3>1 DEF RowsMove, MonitorExit, MonitorExitFails, Fault
  <2>2. ASSUME NEW s \in {"FAILED", "EXITED", "EXIT_CLOSED", "ATOMIC_FAILED"}, Closing(o, s)
        PROVE  /\ faults \subseteq faults'
               /\ \A r \in Rows : /\ row'[r].kind = row[r].kind /\ row'[r].after = row[r].after
                                  /\ row'[r].status = "AWAITING" => row[r].status = "AWAITING"
    <3>1. faults \subseteq faults'
      BY <2>2 DEF Closing, Fault
    <3>2. CASE row' = Ended(o, s)
      BY <1>1, <3>1, <3>2 DEF Ended, EntryTypes, RowTypes
    <3>3. CASE SetStatus(o, s)
      BY <1>1, <3>1, <3>3 DEF SetStatus, EntryTypes, RowTypes
    <3> QED BY <2>2, <3>2, <3>3 DEF Closing
  <2> QED BY <2>1, <2>2 DEF MonitorDead, MonitorComplete
<1>3. Grown
  BY <1>1, <1>2, FaultsGrow
<1>4. \A q, p \in Rows : Re(q, p)' => Re(q, p)
  BY <1>2, <1>3 DEF Re, Open, Strays, Grown
<1>5. run.main # NoOrder => (Open(run.main)' => Open(run.main))
  BY <1>1, <1>2 DEF Open, RunTypes, MaybeRows
<1> QED BY <1>1, <1>3, <1>4, <1>5, UntrackedRe

LEMMA ReNextInv == EntryConstants /\ EntryInv /\ ReInv /\ [EntryNext]_entryVars => ReInv'
<1> SUFFICES ASSUME EntryConstants, EntryInv, ReInv, [EntryNext]_entryVars PROVE ReInv' OBVIOUS
<1>1. CASE \/ BuyCycle \/ SellCycle \/ Evaluate \/ NoOrderPlaced \/ Unhedged \/ UnhedgedFails \/ NoMain \/ Unbuilt
           \/ NotReturned
  BY <1>1, EarlyRe DEF BuyCycle, SellCycle
<1>2. CASE BuyLook \/ SellLook
  <2>1. run.left \subseteq Rows
    BY DEF EntryInv, EntryTypes, RunTypes
  <2> QED BY <1>2, <2>1, EarlyRe, TouchRe DEF BuyLook, SellLook
<1>3. CASE PlaceHedge \/ BuyMain \/ SellMain \/ HedgeRaises \/ BuyRaises \/ SellRaises
  BY <1>3, PlaceHedgeRe, MainRe, RaisesRe
<1>4. CASE Link \/ LinkFails \/ FailureUnwritten \/ Unwind \/ UnwindFails \/ UnwindUnwritten
  BY <1>4, LinkRe, UnwindRe
<1>5. CASE \/ BuyPlaced \/ SellPlaced \/ Confirmed \/ AttemptUnwritten \/ BuyUnconfirmed \/ SellUnconfirmed
           \/ UnconfirmedStays \/ Mark
  BY <1>5, PlacedRe, ConfirmedRe, UnconfirmedRe DEF BuyPlaced, SellPlaced
<1>6. CASE Return \/ CutOff \/ Reload
  BY <1>6, LeavingRe
<1>7. ASSUME NEW o \in Rows, MonitorExit(o) \/ MonitorExitFails(o) \/ MonitorDead(o) \/ MonitorComplete(o)
      PROVE  ReInv'
  BY <1>7, MonitorRe
<1>8. CASE UNCHANGED entryVars
  <2>1. UNCHANGED <<row, run, track, cut, faults>>
    BY <1>8 DEF entryVars
  <2>2. Grown
    BY <2>1, FaultsGrow
  <2>3. \A o, p \in Rows : Re(o, p)' => Re(o, p)
    BY <2>1, <2>2 DEF Re, Open, Strays, Grown
  <2> QED BY <2>1, <2>2, <2>3, UntrackedRe DEF Open
<1> QED BY <1>1, <1>2, <1>3, <1>4, <1>5, <1>6, <1>7, <1>8 DEF EntryNext

\* A position is re-entered once at a time, wherever cycles are cut off, the process is restarted
\* or calls fail: a re-entry is recorded before it is watched, unless it is one of a cycle that
\* was cut off or of a place_order that raised, its failure was not written, or the
\* record itself failed (swing_highlow_buy.py:1226).
THEOREM OnceReEntered == EntryConstants => (EntrySpec => []OneReEntry)
<1> SUFFICES ASSUME EntryConstants PROVE EntrySpec => []OneReEntry OBVIOUS
<1>1. EntryInit => ReInv
  BY ReInitInv
<1>2. EntryInv /\ ReInv /\ [EntryNext]_entryVars => ReInv'
  BY ReNextInv
<1>3. ReInv => OneReEntry
  <2> SUFFICES ASSUME ReInv, NEW p \in Rows \ Unrecorded PROVE Cardinality({o \in Rows : Re(o, p)}) <= 1
    <3>1. \A p_1 \in Rows : {o \in Rows \ (cut \union Unplaced \union Unmarked) :
                               Open(o) /\ row[o].kind = "main" /\ row[o].after = p_1}
                              = {o \in Rows : Re(o, p_1)}
      BY DEF Re, Strays
    <3> QED BY <3>1 DEF OneReEntry
  <2>1. CASE {o \in Rows : Re(o, p)} = {}
    BY <2>1, FS_EmptySet
  <2>2. CASE {o \in Rows : Re(o, p)} # {}
    <3>1. PICK o \in Rows : Re(o, p)
      BY <2>2
    <3>2. {q \in Rows : Re(q, p)} = {o}
      BY <3>1 DEF ReInv
    <3> QED BY <3>2, FS_Singleton
  <2> QED BY <2>1, <2>2
<1> QED BY <1>1, <1>2, <1>3, EntryAlways, PTL DEF EntrySpec

================================================================================
