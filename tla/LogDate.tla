------------------------------- MODULE LogDate -------------------------------
(***************************************************************************)
(* The date in front of a log line (class LogDateImpl, src/src/log.cpp).   *)
(* Each thread keeps the text of its last call and rewrites the digits that*)
(* have changed.  The date and the first text come from localtime, the     *)
(* digits that are rewritten from the count of microseconds, that is UTC.  *)
(***************************************************************************)
EXTENDS Naturals

CONSTANTS
    UsOneMin,   \* kUSOneMin
    MinOneHour, \* 60
    MinOneDay,  \* kMinOneDay
    Zones,      \* offsets of the local time, in microseconds
    Times       \* what gettimeofday_us may answer, in any order

ASSUME UnitsAssumption ==
    UsOneMin \in Nat /\ UsOneMin > 1 /\ MinOneHour \in Nat \ {0} /\ MinOneDay \in Nat \ {0}

\* The clock is past the first day of 1970.
ASSUME TimesAssumption ==
    Zones \subseteq Nat /\ Times \subseteq Nat /\ \A us \in Times : us \div UsOneMin >= MinOneDay

VARIABLES
    date,    \* time_day_, time_min_ and formatted_
    zone,    \* the local time zone
    now      \* history: the time of the last call

dateVars == <<date, zone, now>>

\* The digits of a time.  Seconds and their fraction are one number: they are
\* always rewritten together.
Text(us) ==
    LET min == us \div UsOneMin
    IN [day |-> min \div MinOneDay, hour |-> (min % MinOneDay) \div MinOneHour,
        min |-> (min % MinOneDay) % MinOneHour, us |-> us % UsOneMin]

\* format_to_string
FormatToString(timestamp) ==
    [text |-> Text(timestamp + zone),
     min |-> (timestamp \div UsOneMin) % MinOneDay,
     day |-> (timestamp \div UsOneMin) \div MinOneDay]

DateInit ==
    /\ zone \in Zones /\ now \in Times
    /\ date = FormatToString(now)

\* The hour and the minute of the text, where the minute is another one
RewriteMinOnly(text, min) == [text EXCEPT !.min = min % MinOneHour]
RewriteMin(text, min) == [text EXCEPT !.min = min % MinOneHour, !.hour = min \div MinOneHour]

\* update_date: on another day it is the number of minutes, not the time, that
\* is formatted.
UpdateDate(us) ==
    LET timestamp == us \div UsOneMin
        min == timestamp % MinOneDay
        seconds == [date.text EXCEPT !.us = us % UsOneMin]
    IN
    /\ now' = us /\ zone' = zone
    /\ date' = IF timestamp \div MinOneDay # date.day THEN FormatToString(timestamp)
               ELSE [date EXCEPT !.text = IF min # date.min THEN RewriteMin(seconds, min)
                                          ELSE seconds,
                                 !.min = min]

DateNext == \E us \in Times : UpdateDate(us)

DateSpec == DateInit /\ [][DateNext]_dateVars

-----------------------------------------------------------------------------
(* Properties *)

\* Until the first midnight that a thread sees, and where the local time is
\* UTC, the text is the time of the call, also when the clock is set back.
\* Otherwise it is wrong: see the README.
DateTold ==
    zone = 0 /\ date.day = Text(now).day => date.text = Text(now)
=============================================================================
