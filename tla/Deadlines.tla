-------------------------------- MODULE Deadlines --------------------------------
(***************************************************************************)
(* The deadlines of a year (fiscal-rules: calendar.ts, deadline.ts and     *)
(* deadlines.ts) over the days of the Gregorian calendar, numbered from    *)
(* the first of March of year 0, a Wednesday.                              *)
(***************************************************************************)
EXTENDS Integers, FiniteSets, Rounding

\* Date.UTC, with months counted from March so that the leap day is the last of the year.
utcDate(y, m, d) ==
  LET year  == IF m <= 2 THEN y - 1 ELSE y
      month == (m + 9) % 12
  IN 365 * year + year \div 4 - year \div 100 + year \div 400 + (153 * month + 2) \div 5 + d - 1

Sunday     == 0
Saturday   == 6
getUTCDay(n) == (n + 3) % 7
getUTCFullYear(n) == LET near == n \div 366 IN
                     CHOOSE y \in near..(near + 10) : utcDate(y, 1, 1) <= n /\ n < utcDate(y + 1, 1, 1)

easterSundayUncorrected(y) ==   \* mutant: without the correction of the two long lunar months
  LET a == y % 19  b == y \div 100  c == y % 100  d == b \div 4  e == b % 4
      g == (b - (b + 8) \div 25 + 1) \div 3
      h == (19 * a + b - d - g + 15) % 30
      l == (32 + 2 * e + 2 * (c \div 4) - h - (c % 4)) % 7
      n == h + l + 114
  IN utcDate(y, n \div 31, (n % 31) + 1)

\* Meeus, Jones and Butcher.
easterSunday(y) ==
  LET a == y % 19  b == y \div 100  c == y % 100  d == b \div 4  e == b % 4
      g == (b - (b + 8) \div 25 + 1) \div 3
      h == (19 * a + b - d - g + 15) % 30
      l == (32 + 2 * e + 2 * (c \div 4) - h - (c % 4)) % 7
      m == (a + 11 * h + 22 * l) \div 451
      n == h + l - 7 * m + 114
  IN utcDate(y, n \div 31, (n % 31) + 1)

\* The fourth of October is a holiday from 2026.
fixedHolidays(y) ==
  {<<1, 1>>, <<1, 6>>, <<4, 25>>, <<5, 1>>, <<6, 2>>, <<8, 15>>, <<11, 1>>, <<12, 8>>, <<12, 25>>, <<12, 26>>}
    \cup (IF y >= 2026 THEN {<<10, 4>>} ELSE {})

italianPublicHolidays(y) ==
  {utcDate(y, f[1], f[2]) : f \in fixedHolidays(y)} \cup {easterSunday(y), easterSunday(y) + 1}

isBusinessDay(n) == getUTCDay(n) \notin {Saturday, Sunday} /\ n \notin italianPublicHolidays(getUTCFullYear(n))

nextBusinessDay(n) == CHOOSE b \in n..(n + 10) : isBusinessDay(b) /\ \A o \in n..(b - 1) : ~ isBusinessDay(o)

\* deadline: the nominal date and the day to pay by.
deadline(kind, nominal, quarter) ==
  [kind |-> kind, nominal |-> nominal, date |-> nextBusinessDay(nominal), quarter |-> quarter]

-----------------------------------------------------------------------------
(* buildDeadlines, for a year whose rule set has the dates of the 2026 one *)

firstDate(y, extended) == IF extended THEN utcDate(y, 7, 20) ELSE utcDate(y, 6, 30)
secondDate(y)          == utcDate(y, 11, 30)

TaxDeadlines(y, extended) ==
  {deadline("TAX_BALANCE", firstDate(y, extended), 0), deadline("TAX_FIRST_ADVANCE", firstDate(y, extended), 0),
   deadline("TAX_SECOND_ADVANCE", secondDate(y), 0), deadline("TAX_RETURN", utcDate(y, 11, 2), 0)}

InpsDeadlines(y, extended, scheme) ==
  (IF scheme = "PROFESSIONAL_FUND" THEN {}
   ELSE {deadline("INPS_BALANCE", firstDate(y, extended), 0), deadline("INPS_FIRST_ADVANCE", firstDate(y, extended), 0),
         deadline("INPS_SECOND_ADVANCE", secondDate(y), 0)})
  \cup (IF scheme \notin DOMAIN selfEmployed.rates THEN {}
        ELSE {deadline("INPS_FIXED_INSTALLMENT", utcDate(y, 5, 18), 1), deadline("INPS_FIXED_INSTALLMENT", utcDate(y, 8, 20), 2),
              deadline("INPS_FIXED_INSTALLMENT", utcDate(y, 11, 16), 3), deadline("INPS_FIXED_INSTALLMENT", utcDate(y + 1, 2, 16), 4)})

stampDate(y, q) == CASE q = 1 -> utcDate(y, 5, 31) [] q = 2 -> utcDate(y, 9, 30)
                     [] q = 3 -> utcDate(y, 11, 30) [] q = 4 -> utcDate(y + 1, 2, 28)

listBChangesBy(y, q) == CASE q = 1 -> utcDate(y, 4, 30) [] q = 2 -> utcDate(y, 9, 10)
                          [] q = 3 -> utcDate(y, 10, 31) [] q = 4 -> utcDate(y + 1, 1, 31)

\* The stamp duty of the four quarters is not always known.
Unknown == <<>>

\* Small amounts wait for the second or the third quarter.
stampNominal(y, q, amounts) ==
  LET threshold == rules.stampDeferral IN
  CASE amounts = Unknown -> stampDate(y, q)
    [] amounts # Unknown /\ q \in {1, 2} /\ amounts[1] + amounts[2] <= threshold -> stampDate(y, 3)
    [] amounts # Unknown /\ q = 1 /\ amounts[1] + amounts[2] > threshold /\ amounts[1] <= threshold -> stampDate(y, 2)
    [] OTHER -> stampDate(y, q)

\* The change of list B is not moved to the next business day.
StampDeadlines(y, amounts) ==
  {deadline("STAMP_DUTY", stampNominal(y, q, amounts), q) : q \in 1..4}
  \cup {[kind |-> "STAMP_DUTY_LIST_B", nominal |-> listBChangesBy(y, q), date |-> listBChangesBy(y, q), quarter |-> q] :
          q \in {k \in 1..4 : amounts = Unknown \/ amounts[k] > 0}}

\* The lists of services to EU customers, by the 25th of the month after the quarter.
IntrastatDeadlines(y) ==
  {deadline("INTRASTAT", IF q = 4 THEN utcDate(y + 1, 1, 25) ELSE utcDate(y, 3 * q + 1, 25), q) : q \in 1..4}

buildDeadlines(y, opts) ==
  TaxDeadlines(y, opts.extended) \cup InpsDeadlines(y, opts.extended, opts.scheme) \cup StampDeadlines(y, opts.amounts)
    \cup (IF opts.intrastat THEN IntrastatDeadlines(y) ELSE {})

-----------------------------------------------------------------------------
(* What the calendar promises *)

\* Easter by the golden number and the epact (Knuth, after Clavius), a computation with no step in common with the code's.
EasterByEpact(y) ==
  LET golden  == (y % 19) + 1
      century == y \div 100 + 1
      leaps   == (3 * century) \div 4 - 12
      moon    == (8 * century + 5) \div 25 - 5
      cycle   == (11 * golden + 20 + moon - leaps) % 30
      epact   == IF cycle = 24 \/ (cycle = 25 /\ golden > 11) THEN cycle + 1 ELSE cycle
      march   == IF 44 - epact < 21 THEN 74 - epact ELSE 44 - epact
      full    == utcDate(y, 3, 1) + march - 1
  IN CHOOSE n \in (full + 1)..(full + 7) : getUTCDay(n) = Sunday

WorkingDay(n) ==
  LET y == getUTCFullYear(n) IN
  /\ getUTCDay(n) \notin {Saturday, Sunday}
  /\ \A f \in fixedHolidays(y) : n # utcDate(y, f[1], f[2])
  /\ n # EasterByEpact(y) + 1

\* The stamp duty of the first quarters waits past the date of quarter q exactly when all that waits is within the threshold.
WaitsWithinThreshold(y, amounts) ==
  /\ (stampNominal(y, 1, amounts) > stampDate(y, 1)) <=> (amounts[1] <= rules.stampDeferral)
  /\ (\A q \in 1..2 : stampNominal(y, q, amounts) > stampDate(y, 2)) <=> (amounts[1] + amounts[2] <= rules.stampDeferral)
  /\ \A q \in 1..4 : stampNominal(y, q, amounts) >= stampDate(y, q)

\* Every payment, return or list is due on a working day, the first one from its nominal date (for instance the lists of
\* the first quarter when Easter is the 25th of April), and no stamp duty above the threshold waits for a later quarter.
DeadlinesRightFor(y, opts) ==
  /\ \A d \in buildDeadlines(y, opts) :
       d.kind # "STAMP_DUTY_LIST_B" =>
         d.date >= d.nominal /\ WorkingDay(d.date) /\ \A n \in d.nominal..(d.date - 1) : ~ WorkingDay(n)
  /\ opts.amounts # Unknown => WaitsWithinThreshold(y, opts.amounts)
================================================================================
