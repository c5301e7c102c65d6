----------------------------- MODULE ExchangeRates -----------------------------
(***************************************************************************)
(* Reference exchange rates, downloaded once a day and kept:               *)
(* apps/api/src/exchange-rates/exchange-rates.service.ts.                  *)
(*                                                                         *)
(* rate looks for the quotation of a day, and of the days before it when   *)
(* there is none; ensureDay downloads a day nobody has remembered yet, and *)
(* remembers it together with its rates.  The Bank publishes the rates of  *)
(* a day during that day, or never (a holiday).                            *)
(***************************************************************************)
EXTENDS Integers, FiniteSets

CONSTANTS
  LastDay,        \* bound of this model: days are 1..LastDay
  MaxLookback,    \* MAX_LOOKBACK_DAYS
  Currencies,
  Askers          \* concurrent requests

ASSUME RatesAssumption == LastDay \in Nat \ {0} /\ MaxLookback \in Nat

VARIABLES
  today,       \* the day in Italy
  published,   \* at the Bank: currencies with a rate of each day
  rates,       \* the ExchangeRate rows: currencies of each day
  remembered,  \* the ExchangeRateDay rows
  asker        \* requests in progress, with what they read

rateVars == <<today, published, rates, remembered, asker>>

Days      == 1..LastDay
IdleAsker == [pc |-> "idle"]

RatesTypeOK ==
  /\ today \in Days
  /\ published \in [Days -> SUBSET Currencies]
  /\ rates \in [Days -> SUBSET Currencies]
  /\ remembered \in SUBSET Days
  /\ asker \in [Askers -> {IdleAsker}
       \cup [pc : {"look", "read"}, currency : Currencies, date : Days, back : 0..MaxLookback, today : Days]
       \cup [pc : {"store"}, currency : Currencies, date : Days, back : 0..MaxLookback, today : Days, body : SUBSET Currencies]
       \cup [pc : {"answer"}, currency : Currencies, date : Days, back : 0..MaxLookback, today : Days]]

RatesInit ==
  /\ today = 1
  /\ published = [d \in Days |-> {}]
  /\ rates = [d \in Days |-> {}]
  /\ remembered = {}
  /\ asker = [a \in Askers |-> IdleAsker]

DayOf(q)     == q.date - q.back
EndAsker(a)  == asker' = [asker EXCEPT ![a] = IdleAsker]

\* External: the rates of today come out together, or the day ends without any.
Publish ==
  /\ published[today] = {}
  /\ \E some \in SUBSET Currencies \ {{}} : published' = [published EXCEPT ![today] = some]
  /\ UNCHANGED <<today, rates, remembered, asker>>

NextDay ==
  /\ today < LastDay
  /\ today' = today + 1
  /\ UNCHANGED <<published, rates, remembered, asker>>

\* A rate of a day that is not in the future; today is read once.
Ask(a) ==
  /\ asker[a] = IdleAsker
  /\ \E c \in Currencies, d \in 1..today :
       asker' = [asker EXCEPT ![a] = [pc |-> "look", currency |-> c, date |-> d, back |-> 0, today |-> today]]
  /\ UNCHANGED <<today, published, rates, remembered>>

\* A day already remembered is not downloaded again.
Known(a) ==
  /\ asker[a].pc = "look"
  /\ DayOf(asker[a]) \in remembered
  /\ asker' = [asker EXCEPT ![a].pc = "read"]
  /\ UNCHANGED <<today, published, rates, remembered>>

EmptyFuture(q, body) == body = {} /\ DayOf(q) > q.today   \* mutant: an empty answer for today counts
\* Today's rates may be published later: an empty answer is not remembered.
NotYetPublished(q, body) == body = {} /\ DayOf(q) >= q.today

Fetch(a) ==
  LET q == asker[a]
      body == published[DayOf(q)] IN
  /\ q.pc = "look"
  /\ DayOf(q) \notin remembered
  /\ asker' = [asker EXCEPT ![a] =
       IF NotYetPublished(q, body)
       THEN [q EXCEPT !.pc = "read"]
       ELSE [pc |-> "store", currency |-> q.currency, date |-> q.date, back |-> q.back, today |-> q.today, body |-> body]]
  /\ UNCHANGED <<today, published, rates, remembered>>

\* The rates and the day in one transaction; the day is unique, so a second download of it fails with its request.
Store(a) ==
  LET q == asker[a]
      d == DayOf(q) IN
  /\ q.pc = "store"
  /\ IF d \in remembered
     THEN EndAsker(a) /\ UNCHANGED <<rates, remembered>>
     ELSE /\ rates' = [rates EXCEPT ![d] = @ \cup q.body]
          /\ remembered' = remembered \cup {d}
          /\ asker' = [asker EXCEPT ![a] = [pc |-> "read", currency |-> q.currency, date |-> q.date, back |-> q.back, today |-> q.today]]
  /\ UNCHANGED <<today, published>>

\* The rate of the day answers the request; without one the day before is looked at, up to MAX_LOOKBACK_DAYS.
Read(a) ==
  LET q == asker[a] IN
  /\ q.pc = "read"
  /\ \/ q.currency \in rates[DayOf(q)] /\ asker' = [asker EXCEPT ![a].pc = "answer"]
     \/ /\ q.currency \notin rates[DayOf(q)]
        /\ q.back < MaxLookback /\ DayOf(q) > 1
        /\ asker' = [asker EXCEPT ![a].pc = "look", ![a].back = q.back + 1]
     \/ /\ q.currency \notin rates[DayOf(q)]
        /\ q.back = MaxLookback \/ DayOf(q) = 1   \* day 1 is the bound of this model
        /\ EndAsker(a)
  /\ UNCHANGED <<today, published, rates, remembered>>

\* Answered, or the Bank or the database failed.
AskerEnds(a) ==
  /\ asker[a] # IdleAsker
  /\ EndAsker(a)
  /\ UNCHANGED <<today, published, rates, remembered>>

RatesNext ==
  \/ Publish \/ NextDay
  \/ \E a \in Askers : Ask(a) \/ Known(a) \/ Fetch(a) \/ Store(a) \/ Read(a) \/ AskerEnds(a)

RatesSpec == RatesInit /\ [][RatesNext]_rateVars

-----------------------------------------------------------------------------
\* An invoice or a collection in a foreign currency uses the last quotation before its date: when a rate is given, no
\* day in between, already over when the request came, had a rate of that currency.  It fails for good as soon as a
\* day is remembered before its rates are out, whoever downloads it and however long the download takes (rate).
NearestQuotation ==
  \A a \in Askers :
    asker[a].pc = "answer" =>
      \A d \in DayOf(asker[a]) + 1..asker[a].date : d < asker[a].today => asker[a].currency \notin published[d]
================================================================================
