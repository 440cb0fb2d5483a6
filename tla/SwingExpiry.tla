------------------------------ MODULE SwingExpiry ------------------------------
(***************************************************************************)
(* get_atm_strike_symbol of src/common/swing_utils.py: which expiry an      *)
(* option bought at some moment gets.  Days are numbered, day 0 is a        *)
(* Monday; late says that expiry_exit_time has passed.                     *)
(***************************************************************************)
EXTENDS Integers, FiniteSetsExt

CONSTANTS FirstDays,     \* the first days of the months
          CalendarDays   \* bound: the clock stops there

\* Months have 28 to 31 days; those of the two months after the bound are known, too.
ExpiryConstants ==
  /\ FirstDays \subseteq Nat /\ CalendarDays \in Nat
  /\ \A d \in 0 .. CalendarDays + 62 : \E f, g \in FirstDays :
       /\ f <= d /\ d < g /\ g - f \in 28..31
       /\ \A h \in FirstDays : h <= f \/ h >= g

VARIABLES date,     \* the day
          late      \* expiry_exit_time has passed

Tuesday(d)     == d % 7 = 1
NextTuesday(d) == Min({x \in d+1 .. d+7 : Tuesday(x)})

Month(d)       == Max({f \in FirstDays : f <= d})
NextMonth(f)   == Min({g \in FirstDays : g > f})
LastTuesday(f) == Max({x \in f .. NextMonth(f) - 1 : Tuesday(x)})

--------------------------------------------------------------------------------
\* days_before_expiry days before the expiry the next one is taken, from
\* expiry_exit_time on; on the day of the expiry this is not asked.
Passed(d, after, expiry, daysBefore) ==
  /\ daysBefore > 0 /\ d < expiry
  /\ d > expiry - daysBefore \/ (d = expiry - daysBefore /\ after)

\* A mutant: the time is not looked at on the day of the expiry.
WeeklyAnyTime(d, after, daysBefore) ==
  LET base == IF Tuesday(d) THEN d ELSE NextTuesday(d)
  IN  IF Passed(d, after, base, daysBefore) THEN NextTuesday(base) ELSE base

\* Underlyings whose name starts with a letter of NIFTY: weekly_symbols is a
\* string, of which the code compares each character.
Weekly(d, after, daysBefore) ==
  LET base == IF Tuesday(d) /\ ~after THEN d ELSE NextTuesday(d)
  IN  IF Passed(d, after, base, daysBefore) THEN NextTuesday(base) ELSE base

\* All others, BANKNIFTY among them.
Monthly(d, after, daysBefore) ==
  LET following(f) == LastTuesday(NextMonth(Month(f)))
      own   == LastTuesday(Month(d))
      base  == IF own < d THEN following(d) ELSE own
      later == IF Passed(d, after, base, daysBefore) THEN following(base) ELSE base
  IN  IF later = d /\ after THEN following(later) ELSE later

Expiries(d, after, daysBefore) == {Weekly(d, after, daysBefore), Monthly(d, after, daysBefore)}

--------------------------------------------------------------------------------
ExpiryInit == date = 0 /\ late = FALSE

\* Time passes: the exit time comes, then the next day.
ExpiryTick ==
  /\ date < CalendarDays
  /\ late' = ~late
  /\ date' = IF late THEN date + 1 ELSE date

ExpirySpec == ExpiryInit /\ [][ExpiryTick]_<<date, late>>

--------------------------------------------------------------------------------
Waits == 0..6    \* the values of days_before_expiry

ExpiryAhead(d, after) ==
  \A n \in Waits : \A e \in Expiries(d, after, n) :
    /\ Tuesday(e) /\ e >= d /\ (after => e > d)
    /\ e > d => ~Passed(d, after, e, n)

\* No option that has expired, or expires within the day when the time for its
\* exit has come, is ever bought as time passes; and none before its effective
\* expiry but on the day it expires (swing_utils.py:548).
BoughtAhead ==
  /\ ExpiryAhead(date, late)
  /\ [][~UNCHANGED <<date, late>> =>
          \A d \in {date'}, after \in {late'} : ExpiryAhead(d, after)]_<<date, late>>

================================================================================
