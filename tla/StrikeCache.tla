------------------------------ MODULE StrikeCache ------------------------------
(***************************************************************************)
(* setup() of the two option strategies, and the file it shares with all    *)
(* the others: identified_strikes.json, read and written under a lock file,  *)
(* but not locked in between (option_buy.py, option_sell.py).  The symbols   *)
(* have first candles of their own; the key of an entry does not tell them    *)
(* apart.  Runners are started and stopped, setups fail, days go by, and the  *)
(* process may crash in the middle of a write.                              *)
(***************************************************************************)
EXTENDS Integers, FiniteSets

CONSTANTS Configs,     \* strategy symbols
          KeyOf,       \* symbol, interval, max_strikes and max_premium of each
          CompleteAt,  \* when the first candle of each is complete
          LastTick,    \* bound: the length of a day
          LastDay,     \* bound: days
          MaxCrashes,  \* bound: crashes of the process
          NoStrikes

CacheConstants ==
  /\ DOMAIN KeyOf = Configs
  /\ CompleteAt \in [Configs -> 0..LastTick]
  /\ {LastTick, LastDay, MaxCrashes} \subseteq Nat

VARIABLES day, tick,   \* the time
          file,        \* the entries of the file
          stale,       \* the lock file of a process that is gone
          setup,       \* per configuration: where setup is, its copy and its strikes
          crashes

strikeVars == <<day, tick, file, stale, setup, crashes>>

Away == [pc |-> "away", copy |-> {}, strikes |-> NoStrikes]

\* cleanup_old_strike_cache.
Recent(entries) == {e \in entries : day - e.day <= 10}

\* A mutant: entries made before the candle are kept.
WithoutCleanup(i, entries) == Recent(entries)

\* cleanup_pre_candle_cache: whatever was made today before the first candle of this
\* configuration was complete is dropped, be it of another one.
Cleaned(i, entries) == {e \in Recent(entries) : e.day = day => e.made >= CompleteAt[i]}

EntryOf(i, entries) == {e \in entries : e.key = KeyOf[i] /\ e.day = day}

--------------------------------------------------------------------------------
\* A runner is started: it waits for the first candle.
BeginSetup(i) ==
  /\ setup[i].pc = "away"
  /\ setup' = [setup EXCEPT ![i].pc = "wait"]
  /\ UNCHANGED <<day, tick, file, stale, crashes>>

\* load_identified_strikes_cache, and, when the entry is there, saving what was
\* loaded.  Nothing else runs between the two.
Hit(i) ==
  /\ setup[i].pc = "wait" /\ tick >= CompleteAt[i] /\ ~stale
  /\ \E e \in EntryOf(i, Cleaned(i, file)) :
       setup' = [setup EXCEPT ![i] = [pc |-> "ready", copy |-> {}, strikes |-> e]]
  /\ file' = Cleaned(i, file)
  /\ UNCHANGED <<day, tick, stale, crashes>>

\* There is no entry: the option chain and its history are fetched, with the copy in
\* hand.
Miss(i) ==
  /\ setup[i].pc = "wait" /\ tick >= CompleteAt[i] /\ ~stale
  /\ EntryOf(i, Cleaned(i, file)) = {}
  /\ setup' = [setup EXCEPT ![i].pc = "fetch", ![i].copy = Cleaned(i, file)]
  /\ UNCHANGED <<day, tick, file, stale, crashes>>

\* The copy goes back into the file with the new entry, over what others have
\* written meanwhile.
Identify(i) ==
  /\ setup[i].pc = "fetch" /\ ~stale
  /\ LET e == [key |-> KeyOf[i], day |-> day, made |-> tick] IN
     /\ file' = {o \in setup[i].copy : o.key # e.key \/ o.day # day} \union {e}
     /\ setup' = [setup EXCEPT ![i] = [pc |-> "ready", copy |-> {}, strikes |-> e]]
  /\ UNCHANGED <<day, tick, stale, crashes>>

\* Without strikes nothing is saved.  _setup_failed is set, but the runner has gone
\* on: a setup that raises nothing is not repeated.
NoneFound(i) ==
  /\ setup[i].pc = "fetch"
  /\ setup' = [setup EXCEPT ![i] = [pc |-> "ready", copy |-> {}, strikes |-> NoStrikes]]
  /\ UNCHANGED <<day, tick, file, stale, crashes>>

\* It raises: the lock was not released for 30 s.  The runner
\* tries again.
LockTimeout(i) ==
  /\ setup[i].pc \in {"wait", "fetch"} /\ stale /\ tick >= CompleteAt[i]
  /\ setup' = [setup EXCEPT ![i] = [Away EXCEPT !.pc = "wait"]]
  /\ UNCHANGED <<day, tick, file, stale, crashes>>

\* A runner is stopped, and its instance forgotten.
Stop(i) ==
  /\ setup[i].pc # "away"
  /\ setup' = [setup EXCEPT ![i] = Away]
  /\ UNCHANGED <<day, tick, file, stale, crashes>>

\* The process is gone: perhaps while it had the lock, perhaps in the middle of
\* writing.  What cannot be parsed is read as an empty file.
Crash ==
  /\ crashes < MaxCrashes
  /\ crashes' = crashes + 1
  /\ stale' \in {stale, TRUE}
  /\ file' \in IF stale' /\ ~stale THEN {file, {}} ELSE {file}
  /\ setup' = [i \in Configs |-> Away]
  /\ UNCHANGED <<day, tick>>

\* Somebody removes the lock.
Unlock ==
  /\ stale
  /\ stale' = FALSE
  /\ UNCHANGED <<day, tick, file, setup, crashes>>

Tick ==
  /\ tick < LastTick
  /\ tick' = tick + 1
  /\ UNCHANGED <<day, file, stale, setup, crashes>>

\* Runners are stopped when the market closes.
NextDay ==
  /\ tick = LastTick /\ day < LastDay
  /\ day' = day + 1 /\ tick' = 0
  /\ setup' = [i \in Configs |-> Away]
  /\ UNCHANGED <<file, stale, crashes>>

SetupStep(i) == Hit(i) \/ Miss(i) \/ Identify(i) \/ NoneFound(i)

StrikeInit ==
  /\ day = 1 /\ tick = 0 /\ file = {} /\ stale = FALSE /\ crashes = 0
  /\ setup = [i \in Configs |-> Away]

StrikeNext ==
  \/ \E i \in Configs : BeginSetup(i) \/ SetupStep(i) \/ LockTimeout(i) \/ Stop(i)
  \/ Crash \/ Unlock \/ Tick \/ NextDay

StrikeSpec == StrikeInit /\ [][StrikeNext]_strikeVars

--------------------------------------------------------------------------------
\* The strikes of a configuration were found today, for its key, and when its own
\* first candle was complete, whoever found them (option_buy.py:257).
StrikesOfToday ==
  \A i \in Configs : setup[i].strikes # NoStrikes =>
    /\ setup[i].strikes.key = KeyOf[i] /\ setup[i].strikes.day = day
    /\ setup[i].strikes.made >= CompleteAt[i]

================================================================================
