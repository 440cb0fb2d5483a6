----------------------------- MODULE BrokerSessions ----------------------------
(***************************************************************************)
(* How a broker is logged in: setup and reauthenticate_broker of the          *)
(* BrokerManagers (broker_manager.py), each in a process or a task of its own;  *)
(* what they share is the row in broker_credentials, with the status of the    *)
(* broker and its token.  Brokers are independent; this is one.  Each reading   *)
(* and each writing of the row is a step.  Whether a token is still good is left *)
(* open wherever the code asks.                                             *)
(*                                                                         *)
(* The broker monitor sets its brokers up when it starts and at fixed times of   *)
(* the day, and logs in anew whatever is there; the trading process does so when  *)
(* it starts, the API when a request first needs a broker, if ever; and the      *)
(* BrokerManager of the route that logs a broker in anew is never set up.       *)
(***************************************************************************)
EXTENDS Integers

CONSTANTS Processes,
          Scheduled,   \* of them, those that set up again and again: the broker monitor
          OnRequest,   \* those that only log in anew, when the API is asked to
          Polls,       \* max_wait / poll_interval
          MaxCrashes   \* bound: crashes

SessionConstants ==
  /\ Scheduled \subseteq Processes /\ OnRequest \subseteq Processes \ Scheduled
  /\ Polls \in Nat /\ MaxCrashes \in Nat

VARIABLES status,    \* of the row
          proc,      \* per process: where it is
          crashes

sessionVars == <<status, proc, crashes>>

\* How long it has waited; whether a token is not to be used again; whether it writes the
\* status when the login is over; the status in the row it has in hand.
Gone == [pc |-> "start", waited |-> 0, force |-> FALSE, tells |-> FALSE, read |-> "none"]

At(p, pc) == proc[p].pc = pc
Goes(p, next) == proc' = [proc EXCEPT ![p] = next]
Up(p) == Goes(p, [Gone EXCEPT !.pc = "up"])

--------------------------------------------------------------------------------
(***************************************************************************)
(* setup.                                                                  *)
(***************************************************************************)
Setup(p) ==
  /\ p \notin OnRequest
  /\ At(p, "start") \/ (p \in Scheduled /\ At(p, "up"))
  /\ Goes(p, [Gone EXCEPT !.pc = "look", !.force = p \in Scheduled])
  /\ UNCHANGED <<status, crashes>>

\* While somebody else is at it, it waits, and gives up after a while.
Look(p) ==
  /\ At(p, "look")
  /\ \/ status = "AUTHENTICATING" /\ proc[p].waited < Polls /\ Goes(p, [proc[p] EXCEPT !.waited = @ + 1])
     \/ status = "AUTHENTICATING" /\ proc[p].waited = Polls /\ Goes(p, [proc[p] EXCEPT !.pc = "give up"])
     \/ status = "CONNECTED" /\ Goes(p, [proc[p] EXCEPT !.pc = "token"])
     \/ status \in {"DISCONNECTED", "ERROR"} /\ Goes(p, [proc[p] EXCEPT !.pc = "begin"])
  /\ UNCHANGED <<status, crashes>>

\* A mutant: it leaves the status to whoever seems to be at it.
GiveUpQuietly(p) ==
  /\ At(p, "give up")
  /\ Up(p)
  /\ UNCHANGED <<status, crashes>>

\* Whatever the status has become since it looked.
GiveUp(p) ==
  /\ At(p, "give up")
  /\ status' = "ERROR"
  /\ Up(p)
  /\ UNCHANGED crashes

\* is_token_stale.  A broker that is CONNECTED with a good token is logged in without a
\* word about its status.
LookAtToken(p) ==
  /\ At(p, "token")
  /\ \/ Goes(p, [proc[p] EXCEPT !.pc = "begin", !.force = TRUE])
     \/ ~proc[p].force /\ Goes(p, [proc[p] EXCEPT !.pc = "login"])
  /\ UNCHANGED <<status, crashes>>

Begin(p) ==
  /\ At(p, "begin")
  /\ status' = "AUTHENTICATING"
  /\ Goes(p, [proc[p] EXCEPT !.pc = "login", !.tells = TRUE])
  /\ UNCHANGED crashes

--------------------------------------------------------------------------------
(***************************************************************************)
(* login of the wrappers: the row is read, a token got, and the row written, all *)
(* of it.                                                                  *)
(***************************************************************************)
LoginOver(p, result) == IF proc[p].tells THEN Goes(p, [Gone EXCEPT !.pc = result]) ELSE Up(p)

ReadRow(p) ==
  /\ At(p, "login")
  /\ Goes(p, [proc[p] EXCEPT !.pc = "logging in", !.read = status])
  /\ UNCHANGED <<status, crashes>>

\* Zerodha and Fyers, unless forced, use the token in the row again, if can_reuse_token lets
\* them, which has a time of day of its own.
Reuse(p) ==
  /\ At(p, "logging in") /\ ~proc[p].force
  /\ LoginOver(p, "connected")
  /\ UNCHANGED <<status, crashes>>

\* A new token: for Angel always.  With it the status is written that had been read.
StoreToken(p) ==
  /\ At(p, "logging in")
  /\ status' = proc[p].read
  /\ LoginOver(p, "connected")
  /\ UNCHANGED crashes

NotLoggedIn(p) ==
  /\ At(p, "login") \/ At(p, "logging in")
  /\ LoginOver(p, "failed")
  /\ UNCHANGED <<status, crashes>>

Finish(p) ==
  /\ At(p, "connected") \/ At(p, "failed")
  /\ status' = IF At(p, "connected") THEN "CONNECTED" ELSE "ERROR"
  /\ Up(p)
  /\ UNCHANGED crashes

--------------------------------------------------------------------------------
\* The route writes the status, and reauthenticate_broker, a task of its own that does
\* not look at it, once more.
Reauthenticate(p) ==
  /\ p \in OnRequest
  /\ At(p, "start") \/ At(p, "up")
  /\ status' = "AUTHENTICATING"
  /\ Goes(p, [Gone EXCEPT !.pc = "begin", !.force = TRUE])
  /\ UNCHANGED crashes

\* A process is gone, or what it was doing has raised.
Crash(p) ==
  /\ crashes < MaxCrashes
  /\ crashes' = crashes + 1
  /\ Goes(p, Gone)
  /\ UNCHANGED status

\* The steps of what has begun.
GoesOn(p) ==
  \/ Look(p) \/ GiveUp(p) \/ LookAtToken(p) \/ Begin(p)
  \/ ReadRow(p) \/ Reuse(p) \/ StoreToken(p) \/ NotLoggedIn(p) \/ Finish(p)

SessionInit ==
  /\ status \in {"DISCONNECTED", "ERROR", "CONNECTED"}
  /\ proc = [p \in Processes |-> Gone]
  /\ crashes = 0

SessionNext ==
  \E p \in Processes : GoesOn(p) \/ Setup(p) \/ Reauthenticate(p) \/ Crash(p)

\* What has begun goes on.  The broker monitor is started again when it is gone, and sets
\* up at its times for ever; nothing else is sure to come.
SessionFairness ==
  /\ \A p \in Processes : WF_sessionVars(GoesOn(p))
  /\ \A p \in Scheduled : WF_sessionVars(Setup(p))

SessionSpec == SessionInit /\ [][SessionNext]_sessionVars /\ SessionFairness

--------------------------------------------------------------------------------
\* No broker remains in the middle of an authentication, though the process that began
\* it may be gone, or a login has written over the status of another
\* (broker_manager.py:211, broker_utils.py:1543).
AuthenticationSettles == status = "AUTHENTICATING" ~> status # "AUTHENTICATING"

\* Every setup comes to an end, whoever else is at it, unless its process is gone.
SetupEnds == \A p \in Processes : At(p, "look") ~> At(p, "up") \/ At(p, "start")

================================================================================
