-------------------------------- MODULE DeskProofs --------------------------------
(***************************************************************************)
(* The rate an invoice gets, the payments of stamp duty and contributions  *)
(* and what is collected on a document, for any days, forms, amounts and   *)
(* requests; the totals of an invoice, the forms of a plan, the credits    *)
(* they take, the figures of a year and the revenue of its documents, for  *)
(* any amounts; the imports of the instance.                               *)
(***************************************************************************)
EXTENDS MCDesk, UploadsProofs

\* What the Bank says of a day does not change any more: it is published, or the day is over.
Final(d) == published[d] # {} \/ d < today

\* Nothing is published of days to come; a day remembered is settled, with the rates the Bank has.
CalendarOK == \A d \in Days : d > today => published[d] = {}
RememberedOK == \A d \in remembered : Final(d) /\ rates[d] = published[d]

\* No day looked at so far, and over when the request came, had a rate of the currency.
Skipped(q) == \A d \in DayOf(q) + 1..q.date : d < q.today => q.currency \notin published[d]

\* A request looks at days up to its date, which was not in the future when it came; what it is about to store is settled;
\* it reads a day that is remembered, or that was not over when it came.
RequestOK(q) ==
  q # IdleAsker =>
    /\ q.date <= q.today /\ q.today <= today /\ q.back < q.date
    /\ Skipped(q)
    /\ q.pc = "store" => Final(DayOf(q)) /\ q.body = published[DayOf(q)]
    /\ q.pc = "read" => DayOf(q) \in remembered \/ DayOf(q) = q.today

\* Rates come from the Bank, never from a day that has none.
RatesOK == \A d \in Days : rates[d] \subseteq published[d]

RatesInv == RatesTypeOK /\ CalendarOK /\ RatesOK /\ RememberedOK /\ \A a \in Askers : RequestOK(asker[a])

AskerState ==
  {IdleAsker}
    \cup [pc : {"look", "read"}, currency : Currencies, date : Days, back : 0..MaxLookback, today : Days]
    \cup [pc : {"store"}, currency : Currencies, date : Days, back : 0..MaxLookback, today : Days, body : SUBSET Currencies]
    \cup [pc : {"answer"}, currency : Currencies, date : Days, back : 0..MaxLookback, today : Days]

\* A request moves and the world stays.
LEMMA AskerMoves ==
  ASSUME RatesInv, NEW a \in Askers, NEW q \in AskerState, RequestOK(q), asker' = [asker EXCEPT ![a] = q],
         UNCHANGED <<today, published, rates, remembered>>
  PROVE  RatesInv'
<1>1. asker' \in [Askers -> AskerState]
  BY DEF RatesInv, RatesTypeOK, AskerState
<1>2. RatesTypeOK'
  BY <1>1 DEF RatesInv, RatesTypeOK, AskerState
<1>3. (CalendarOK /\ RatesOK /\ RememberedOK)'
  BY DEF RatesInv, CalendarOK, RatesOK, RememberedOK, Final
<1>4. ASSUME NEW b \in Askers PROVE RequestOK(asker[b])'
  <2>1. RequestOK(asker'[b])
    BY DEF RatesInv, RatesTypeOK
  <2> QED
    BY <2>1 DEF RequestOK, Skipped, Final
<1> QED
  BY <1>2, <1>3, <1>4 DEF RatesInv

\* The Bank or the calendar moves, and the requests stay.
LEMMA SettledStays ==
  ASSUME RatesInv, Publish \/ NextDay
  PROVE  /\ published' \in [Days -> SUBSET Currencies] /\ today' \in Days /\ today <= today' /\ CalendarOK'
         /\ \A d \in Days : Final(d) => Final(d)' /\ published'[d] = published[d]
         /\ \A d \in Days : d < today => published'[d] = published[d]
         /\ \A d \in Days : published[d] \subseteq published'[d]
<1>1. CASE Publish
  BY <1>1, RatesAssumption DEF Publish, RatesInv, RatesTypeOK, CalendarOK, Final, Days
<1>2. CASE NextDay
  BY <1>2, RatesAssumption DEF NextDay, RatesInv, RatesTypeOK, CalendarOK, Final, Days
<1> QED
  BY <1>1, <1>2

LEMMA WorldMoves ==
  ASSUME RatesInv, Publish \/ NextDay
  PROVE  RatesInv'
<1>1. UNCHANGED <<rates, remembered, asker>>
  BY DEF Publish, NextDay
<1>2. RatesTypeOK' /\ CalendarOK' /\ RatesOK' /\ RememberedOK'
  BY <1>1, SettledStays DEF RatesInv, RatesTypeOK, RatesOK, RememberedOK
<1>3. ASSUME NEW a \in Askers PROVE RequestOK(asker[a])'
  <2> DEFINE q == asker[a]
  <2>1. CASE q = IdleAsker
    BY <1>1, <2>1 DEF RequestOK
  <2>2. CASE q # IdleAsker
    <3>1. q \in AskerState \ {IdleAsker} /\ RequestOK(q)
      BY <2>2 DEF RatesInv, RatesTypeOK, AskerState
    <3>2. q.date \in Days /\ q.today \in Days /\ q.back \in Nat /\ DayOf(q) \in Days /\ today \in Days /\ today' \in Days
      BY <2>2, <3>1, SettledStays, RatesAssumption DEF AskerState, RequestOK, DayOf, Days, RatesInv, RatesTypeOK
    <3>3. Skipped(q)'
      <4>1. ASSUME NEW d \in DayOf(q) + 1..q.date, d < q.today PROVE q.currency \notin published'[d]
        <5>1. d \in Days /\ d < today
          BY <2>2, <3>1, <3>2, <4>1, RatesAssumption DEF Days, RequestOK
        <5>2. published'[d] = published[d]
          BY <5>1, SettledStays
        <5> QED
          BY <2>2, <3>1, <4>1, <5>2 DEF RequestOK, Skipped
      <4> QED
        BY <1>1, <4>1 DEF Skipped, DayOf
    <3>4. q.pc = "store" => Final(DayOf(q))' /\ q.body = published'[DayOf(q)]
      <4>1. ASSUME q.pc = "store" PROVE Final(DayOf(q)) /\ q.body = published[DayOf(q)]
        BY <2>2, <3>1, <4>1 DEF RequestOK
      <4>2. Final(DayOf(q)) => Final(DayOf(q))' /\ published'[DayOf(q)] = published[DayOf(q)]
        BY <1>1, <3>2, SettledStays DEF Final, DayOf
      <4> QED
        BY <4>1, <4>2
    <3>5. today <= today'
      BY SettledStays
    <3> QED
      BY <1>1, <2>2, <3>1, <3>2, <3>3, <3>4, <3>5, RatesAssumption DEF RequestOK, DayOf, Days
  <2> QED
    BY <2>1, <2>2
<1> QED
  BY <1>2, <1>3 DEF RatesInv

-----------------------------------------------------------------------------
(***************************************************************************)
(* The steps of a request.                                                 *)
(***************************************************************************)
LEMMA StateOf ==
  ASSUME RatesInv, NEW a \in Askers
  PROVE  /\ asker[a] \in AskerState /\ RequestOK(asker[a]) /\ RequestOK(IdleAsker) /\ IdleAsker \in AskerState
         /\ asker[a] # IdleAsker => /\ asker[a].currency \in Currencies /\ asker[a].date \in Days /\ asker[a].today \in Days
                                   /\ asker[a].back \in 0..MaxLookback /\ DayOf(asker[a]) \in Days
                                   /\ DayOf(asker[a]) <= asker[a].date
<1>1. asker[a] \in AskerState /\ RequestOK(asker[a])
  BY DEF RatesInv, RatesTypeOK, AskerState
<1>2. IdleAsker \in AskerState /\ RequestOK(IdleAsker)
  BY DEF AskerState, RequestOK
<1>3. ASSUME asker[a] # IdleAsker
      PROVE  /\ asker[a].currency \in Currencies /\ asker[a].date \in Days /\ asker[a].today \in Days
             /\ asker[a].back \in 0..MaxLookback
  BY <1>1, <1>3 DEF AskerState
<1>4. ASSUME asker[a] # IdleAsker
      PROVE  DayOf(asker[a]) \in Days /\ DayOf(asker[a]) <= asker[a].date
  BY <1>1, <1>3, <1>4, RatesAssumption DEF RequestOK, DayOf, Days
<1> QED
  BY <1>1, <1>2, <1>3, <1>4

LEMMA AskStep ==
  ASSUME RatesInv, NEW a \in Askers, Ask(a)
  PROVE  RatesInv'
<1>1. PICK c \in Currencies, d \in 1..today :
        asker' = [asker EXCEPT ![a] = [pc |-> "look", currency |-> c, date |-> d, back |-> 0, today |-> today]]
  BY DEF Ask
<1> DEFINE q == [pc |-> "look", currency |-> c, date |-> d, back |-> 0, today |-> today]
<1>2. today \in Days /\ d \in Days /\ d <= today /\ 0 < d
  BY RatesAssumption DEF RatesInv, RatesTypeOK, Days
<1>3. q \in AskerState
  BY <1>2, RatesAssumption DEF AskerState
<1>4. RequestOK(q)
  BY <1>2, RatesAssumption DEF RequestOK, Skipped, DayOf, Days
<1> QED
  BY <1>1, <1>3, <1>4, AskerMoves DEF Ask

LEMMA KnownStep ==
  ASSUME RatesInv, NEW a \in Askers, Known(a)
  PROVE  RatesInv'
<1> DEFINE q == [asker[a] EXCEPT !.pc = "read"]
<1>1. asker[a] # IdleAsker /\ asker[a].pc = "look" /\ DayOf(asker[a]) \in remembered
  BY DEF Known, IdleAsker
<1>2. q \in AskerState /\ q.date = asker[a].date /\ q.back = asker[a].back /\ q.today = asker[a].today
      /\ q.currency = asker[a].currency /\ q.pc = "read" /\ q # IdleAsker
  BY <1>1, StateOf DEF AskerState, IdleAsker
<1>3. RequestOK(q)
  BY <1>1, <1>2, StateOf DEF RequestOK, Skipped, DayOf
<1>4. asker' = [asker EXCEPT ![a] = q]
  BY DEF Known
<1> QED
  BY <1>2, <1>3, <1>4, AskerMoves DEF Known

LEMMA FetchStep ==
  ASSUME RatesInv, NEW a \in Askers, Fetch(a)
  PROVE  RatesInv'
<1> DEFINE p == asker[a]
           body == published[DayOf(p)]
<1>1. p # IdleAsker /\ p.pc = "look"
  BY DEF Fetch, IdleAsker
<1>2. CASE NotYetPublished(p, body)
  <2> DEFINE q == [p EXCEPT !.pc = "read"]
  <2>1. q \in AskerState /\ q.date = p.date /\ q.back = p.back /\ q.today = p.today
        /\ q.currency = p.currency /\ q.pc = "read" /\ q # IdleAsker
    BY <1>1, StateOf DEF AskerState, IdleAsker
  <2>2. p.date <= p.today /\ DayOf(p) = p.today
    BY <1>1, <1>2, StateOf, RatesAssumption DEF RequestOK, NotYetPublished, Days
  <2>3. RequestOK(q)
    BY <1>1, <2>1, <2>2, StateOf DEF RequestOK, Skipped, DayOf
  <2>4. asker' = [asker EXCEPT ![a] = q]
    BY <1>2 DEF Fetch
  <2> QED
    BY <2>1, <2>3, <2>4, AskerMoves DEF Fetch
<1>3. CASE ~ NotYetPublished(p, body)
  <2> DEFINE q == [pc |-> "store", currency |-> p.currency, date |-> p.date, back |-> p.back, today |-> p.today, body |-> body]
  <2>1. body \in SUBSET Currencies
    BY <1>1, StateOf DEF RatesInv, RatesTypeOK
  <2>2. q \in AskerState /\ q # IdleAsker
    BY <1>1, <2>1, StateOf DEF AskerState, IdleAsker
  <2>3. body # {} \/ DayOf(p) < today
    BY <1>1, <1>3, StateOf, RatesAssumption DEF NotYetPublished, RequestOK, Days, RatesInv, RatesTypeOK
  <2>4. RequestOK(q)
    BY <1>1, <2>2, <2>3, StateOf DEF RequestOK, Skipped, DayOf, Final
  <2>5. asker' = [asker EXCEPT ![a] = q]
    BY <1>3 DEF Fetch
  <2> QED
    BY <2>2, <2>4, <2>5, AskerMoves DEF Fetch
<1> QED
  BY <1>2, <1>3

LEMMA StoreStep ==
  ASSUME RatesInv, NEW a \in Askers, Store(a)
  PROVE  RatesInv'
<1> DEFINE p == asker[a]
           d == DayOf(p)
<1>1. p # IdleAsker /\ p.pc = "store" /\ d \in Days /\ UNCHANGED <<today, published>>
  BY StateOf DEF Store, IdleAsker
<1>2. CASE d \in remembered
  BY <1>1, <1>2, StateOf, AskerMoves DEF Store, EndAsker
<1>3. CASE d \notin remembered
  <2> DEFINE q == [pc |-> "read", currency |-> p.currency, date |-> p.date, back |-> p.back, today |-> p.today]
  <2>1. /\ rates' = [rates EXCEPT ![d] = @ \cup p.body] /\ remembered' = remembered \cup {d}
        /\ asker' = [asker EXCEPT ![a] = q]
    BY <1>3 DEF Store
  <2>2. q \in AskerState
    BY <1>1, StateOf DEF AskerState
  <2>3. Final(d) /\ p.body = published[d] /\ p.body \in SUBSET Currencies
    BY <1>1, StateOf DEF RequestOK, AskerState
  <2>4. rates' \in [Days -> SUBSET Currencies] /\ remembered' \in SUBSET Days /\ asker' \in [Askers -> AskerState]
    BY <1>1, <2>1, <2>2, <2>3 DEF RatesInv, RatesTypeOK, AskerState
  <2>5. RatesTypeOK' /\ CalendarOK'
    BY <1>1, <2>4 DEF RatesInv, RatesTypeOK, CalendarOK, AskerState
  <2>6. rates[d] \subseteq published[d]
    BY <1>1 DEF RatesInv, RatesOK
  <2>7. RememberedOK' /\ RatesOK'
    BY <1>1, <1>3, <2>1, <2>3, <2>6 DEF RatesInv, RatesOK, RememberedOK, Final, RatesTypeOK
  <2>8. ASSUME NEW b \in Askers PROVE RequestOK(asker[b])'
    <3>1. b = a => asker'[b] = q
      BY <2>1 DEF RatesInv, RatesTypeOK
    <3>2. b # a => asker'[b] = asker[b]
      BY <2>1 DEF RatesInv, RatesTypeOK
    <3>3. b # a => RequestOK(asker[b])'
      BY <1>1, <2>1, <3>2, StateOf DEF RequestOK, Skipped, Final, DayOf
    <3>4. b = a => RequestOK(asker[b])'
      BY <1>1, <2>1, <3>1, StateOf DEF RequestOK, Skipped, Final, DayOf
    <3> QED
      BY <3>3, <3>4
  <2> QED
    BY <2>5, <2>7, <2>8 DEF RatesInv
<1> QED
  BY <1>2, <1>3

LEMMA ReadStep ==
  ASSUME RatesInv, NEW a \in Askers, Read(a)
  PROVE  RatesInv'
<1> DEFINE p == asker[a]
<1>1. p # IdleAsker /\ p.pc = "read" /\ p \in AskerState /\ RequestOK(p)
  BY StateOf DEF Read, IdleAsker
<1>2. CASE asker' = [asker EXCEPT ![a].pc = "answer"]
  <2> DEFINE q == [p EXCEPT !.pc = "answer"]
  <2>1. q \in AskerState /\ q.date = p.date /\ q.back = p.back /\ q.today = p.today
        /\ q.currency = p.currency /\ q.pc = "answer" /\ q # IdleAsker
    BY <1>1 DEF AskerState, IdleAsker
  <2>2. RequestOK(q)
    BY <1>1, <2>1 DEF RequestOK, Skipped, DayOf
  <2>3. asker' = [asker EXCEPT ![a] = q]
    BY <1>2
  <2> QED
    BY <2>1, <2>2, <2>3, AskerMoves DEF Read
<1>3. CASE /\ p.currency \notin rates[DayOf(p)] /\ p.back < MaxLookback /\ DayOf(p) > 1
           /\ asker' = [asker EXCEPT ![a].pc = "look", ![a].back = p.back + 1]
  <2> DEFINE q == [p EXCEPT !.pc = "look", !.back = p.back + 1]
  <2>1. p.back + 1 \in 0..MaxLookback
    BY <1>1, <1>3, StateOf, RatesAssumption
  <2>2. q \in AskerState /\ q.date = p.date /\ q.back = p.back + 1 /\ q.today = p.today
        /\ q.currency = p.currency /\ q.pc = "look" /\ q # IdleAsker
    BY <1>1, <2>1 DEF AskerState, IdleAsker
  <2>3. DayOf(q) + 1 = DayOf(p) /\ q.back < q.date
    BY <1>1, <1>3, <2>2, StateOf, RatesAssumption DEF DayOf, Days
  <2>4. DayOf(p) < p.today => p.currency \notin published[DayOf(p)]
    BY <1>1, <1>3, StateOf, RatesAssumption DEF RequestOK, RatesInv, RememberedOK, Days
  <2>5. Skipped(q)
    <3>1. ASSUME NEW e \in DayOf(p)..p.date, e < p.today PROVE p.currency \notin published[e]
      <4>1. CASE e = DayOf(p)
        BY <2>4, <3>1, <4>1
      <4>2. CASE e # DayOf(p)
        <5>1. e \in DayOf(p) + 1..p.date
          BY <1>1, <4>2, StateOf, RatesAssumption DEF Days
        <5> QED
          BY <1>1, <3>1, <5>1 DEF RequestOK, Skipped
      <4> QED
        BY <4>1, <4>2
    <3> HIDE DEF q
    <3> QED
      BY <2>2, <2>3, <3>1 DEF Skipped
  <2>6. RequestOK(q)
    BY <1>1, <2>2, <2>3, <2>5 DEF RequestOK
  <2>7. asker' = [asker EXCEPT ![a] = q]
    BY <1>3
  <2> QED
    BY <2>2, <2>6, <2>7, AskerMoves DEF Read
<1>4. CASE EndAsker(a)
  BY <1>4, StateOf, AskerMoves DEF Read, EndAsker
<1> QED
  BY <1>2, <1>3, <1>4 DEF Read

LEMMA EndStep ==
  ASSUME RatesInv, NEW a \in Askers, AskerEnds(a)
  PROVE  RatesInv'
  BY StateOf, AskerMoves DEF AskerEnds, EndAsker

-----------------------------------------------------------------------------
LEMMA RatesStart == RatesInit => RatesInv
  BY RatesAssumption DEF RatesInit, RatesInv, RatesTypeOK, CalendarOK, RatesOK, RememberedOK, RequestOK, Days, IdleAsker

LEMMA RatesStep == RatesInv /\ [RatesNext]_rateVars => RatesInv'
<1> SUFFICES ASSUME RatesInv, [RatesNext]_rateVars PROVE RatesInv'
  OBVIOUS
<1>1. CASE Publish \/ NextDay
  BY <1>1, WorldMoves
<1>2. ASSUME NEW a \in Askers, Ask(a) \/ Known(a) \/ Fetch(a) \/ Store(a) \/ Read(a) \/ AskerEnds(a) PROVE RatesInv'
  BY <1>2, AskStep, KnownStep, FetchStep, StoreStep, ReadStep, EndStep
<1>3. CASE UNCHANGED rateVars
  BY <1>3 DEF rateVars, RatesInv, RatesTypeOK, CalendarOK, RatesOK, RememberedOK, RequestOK, Skipped, Final
<1> QED
  BY <1>1, <1>2, <1>3 DEF RatesNext

\* A rate given for a date is the last quotation before it, for any number of days, currencies and requests, whenever the
\* Bank publishes and however long a download takes (exchange-rates.service.ts, rate and ensureDay).
THEOREM QuotationNearest == RatesSpec => []NearestQuotation
<1>1. RatesInv => NearestQuotation
  <2>1. SUFFICES ASSUME RatesInv, NEW a \in Askers, asker[a].pc = "answer",
                        NEW d \in DayOf(asker[a]) + 1..asker[a].date, d < asker[a].today
                 PROVE  asker[a].currency \notin published[d]
    BY DEF NearestQuotation
  <2>2. asker[a] # IdleAsker
    BY <2>1 DEF IdleAsker
  <2> QED
    BY <2>1, <2>2, StateOf DEF RequestOK, Skipped
<1> QED
  BY <1>1, RatesStart, RatesStep, PTL DEF RatesSpec

-----------------------------------------------------------------------------
(***************************************************************************)
(* Stamp duty and contributions: a quarter or an installment is paid once. *)
(* Nothing is assumed of OnePayer and AskedStatuses: each theorem names    *)
(* the requests whose overlap, and the row whose cancellation, defeat it.  *)
(***************************************************************************)
FormRow   == [of : {"quarter", "installment", "by_hand"}, n : 0..4, status : {"PLANNED", "PAID", "CANCELLED"}]
PeriodRow == [f24 : Fid \cup {NoForm}, paidOn : BOOLEAN]
PayerState ==
  {IdlePayer}
    \cup [pc : {"createF24", "mark"}, quarter : Quarters]
    \cup [pc : {"fixed"}, next : Installments]
    \cup [pc : {"update"}, id : Fid, status : AskedStatuses]
    \cup [pc : {"remove"}, id : Fid]

\* Two requests that pay one quarter under way together, one of them with a form.
TwoPayers ==
  \E p, o \in Payers : /\ p # o /\ payer[p].pc = "createF24" /\ payer[o].pc \in {"createF24", "mark"}
                       /\ payer[p].quarter = payer[o].quarter
\* A cancelled form of a quarter about to be planned or paid again.
Revived ==
  \E p \in Payers : /\ payer[p].pc = "update" /\ payer[p].status # "CANCELLED"
                    /\ form[payer[p].id].of = "quarter" /\ form[payer[p].id].status = "CANCELLED"
\* Two creations of the fixed installments under way together.
TwoCreations == \E p, o \in Payers : p # o /\ payer[p].pc = "fixed" /\ payer[o].pc = "fixed"
InstallmentCancelled == \E f \in Fid : form[f].of = "installment" /\ form[f].status = "CANCELLED"

\* A form that pays its quarter is the one linked to it, and then nothing was paid on the portal.
Pays(f, q) == form[f].of = "quarter" /\ form[f].n = q /\ form[f].status # "CANCELLED"
LinkedOK ==
  /\ \A f \in Fid : form[f].of = "quarter" /\ form[f].status # "CANCELLED" => form[f].n \in Quarters /\ period[form[f].n].f24 = f
  /\ \A f \in Fid, q \in Quarters : period[q].paidOn => ~ Pays(f, q)
\* What a request that pays a quarter may still rely on when it writes.
PayerOK(x) ==
  /\ x.pc \in {"createF24", "mark"} => \A f \in Fid : ~ Pays(f, x.quarter)
  /\ x.pc = "createF24" => ~ period[x.quarter].paidOn
QuarterInv == FormsTypeOK /\ LinkedOK /\ \A p \in Payers : PayerOK(payer[p])

InstallmentsApart == \A f, g \in Fid : form[f].of = "installment" /\ form[g].of = "installment" /\ form[f].n = form[g].n => f = g
\* A creation goes on where no installment was made yet.
CreationOK(x) == x.pc = "fixed" => \A f \in Fid : form[f].of = "installment" => form[f].n < x.next
FixedInv == FormsTypeOK /\ InstallmentsApart /\ \A p \in Payers : CreationOK(payer[p])

LEMMA FormsTyped ==
  FormsTypeOK <=> /\ form \in [Fid -> FormRow \cup {NoRow, DeletedRow}]
                  /\ period \in [Quarters -> PeriodRow]
                  /\ payer \in [Payers -> PayerState]
  BY DEF FormsTypeOK, FormRow, PeriodRow, PayerState

LEMMA FormsTypedNext ==
  ASSUME form' \in [Fid -> FormRow \cup {NoRow, DeletedRow}], period' \in [Quarters -> PeriodRow], payer' \in [Payers -> PayerState]
  PROVE  FormsTypeOK'
  BY DEF FormsTypeOK, FormRow, PeriodRow, PayerState

LEMMA PayerTypes ==
  ASSUME FormsTypeOK, NEW p \in Payers
  PROVE  /\ payer[p].pc \in {"createF24", "mark"} => payer[p].quarter \in Quarters
         /\ payer[p].pc = "fixed" => payer[p].next \in Installments
         /\ payer[p].pc = "update" => payer[p].id \in Fid /\ payer[p].status \in AskedStatuses
         /\ payer[p].pc = "remove" => payer[p].id \in Fid
  BY FormsTyped DEF PayerState, IdlePayer

LEMMA EmptyRows ==
  /\ NoRow.of = "none" /\ NoRow.status = "none" /\ DeletedRow.of = "deleted" /\ DeletedRow.status = "none"
  /\ IdlePayer.pc = "idle" /\ IdlePayer \in PayerState
  BY DEF NoRow, DeletedRow, IdlePayer, PayerState

LEMMA FormIds == \A f \in Fid : f # NoForm
  BY FormsAssumption DEF NoForm, Fid

LEMMA FormTypes ==
  ASSUME FormsTypeOK, NEW f \in Fid
  PROVE  /\ Saved(f) => form[f] \in FormRow
         /\ ~ Saved(f) => form[f].of \in {"none", "deleted"}
<1>1. form[f] \in FormRow \cup {NoRow, DeletedRow}
  BY FormsTyped
<1> QED
  BY <1>1, EmptyRows DEF Saved

LEMMA FormsStart == FormsInit => QuarterInv /\ FixedInv
<1> SUFFICES ASSUME FormsInit PROVE QuarterInv /\ FixedInv
  OBVIOUS
<1>1. FormsTypeOK
  BY FormsTyped DEF FormsInit, PeriodRow, PayerState
<1>2. (\A f \in Fid : form[f].of = "none") /\ (\A p \in Payers : payer[p].pc = "idle") /\ \A q \in Quarters : ~ period[q].paidOn
  BY EmptyRows DEF FormsInit
<1> QED
  BY <1>1, <1>2 DEF QuarterInv, FixedInv, LinkedOK, Pays, InstallmentsApart, PayerOK, CreationOK

\* What a step does to one request: nothing, it ends, it goes on to the next installment, or it begins on what it read.
PayerMoves(p) ==
  \/ payer'[p] = payer[p]
  \/ payer'[p].pc = "idle"
  \/ FixedWrite(p) /\ payer[p].next < 4 /\ payer'[p].pc = "fixed" /\ payer'[p].next = payer[p].next + 1
  \/ /\ UNCHANGED <<form, period>>
     /\ \/ payer'[p].pc \in {"update", "remove"}
        \/ /\ payer'[p].pc \in {"createF24", "mark"} /\ payer'[p].quarter \in Quarters /\ Shown(payer'[p].quarter) = NoForm
           /\ payer'[p].pc = "createF24" => ~ period[payer'[p].quarter].paidOn
        \/ payer'[p].pc = "fixed" /\ ~ Existing

LEMMA PayerEnding ==
  ASSUME FormsTypeOK, NEW p \in Payers, EndPayer(p)
  PROVE  /\ payer' \in [Payers -> PayerState] /\ payer'[p].pc = "idle"
         /\ \A o \in Payers \ {p} : payer'[o] = payer[o]
         /\ \A o \in Payers : PayerMoves(o)
<1>1. payer' \in [Payers -> PayerState] /\ payer'[p] = IdlePayer /\ \A o \in Payers \ {p} : payer'[o] = payer[o]
  BY FormsTyped, EmptyRows DEF EndPayer
<1> QED
  BY <1>1, EmptyRows DEF PayerMoves

\* Steps that only move requests.
PayerReads ==
  \E p \in Payers : \/ \E q \in Quarters : CreateF24Read(p, q) \/ MarkRead(p, q)
                    \/ \E f \in Fid : UpdateStatusRead(p, f) \/ FormRemoveRead(p, f)
                    \/ FixedRead(p) \/ PayerEnds(p)

LEMMA ReadingMoves ==
  ASSUME FormsTypeOK, PayerReads
  PROVE  UNCHANGED <<form, period>> /\ payer' \in [Payers -> PayerState] /\ \A o \in Payers : PayerMoves(o)
<1>1. UNCHANGED <<form, period>>
  BY DEF PayerReads, CreateF24Read, MarkRead, UpdateStatusRead, FormRemoveRead, FixedRead, PayerEnds
<1>2. ASSUME NEW p \in Payers, NEW v \in PayerState, payer' = [payer EXCEPT ![p] = v],
             \/ v.pc \in {"update", "remove"}
             \/ /\ v.pc \in {"createF24", "mark"} /\ v.quarter \in Quarters /\ Shown(v.quarter) = NoForm
                /\ v.pc = "createF24" => ~ period[v.quarter].paidOn
             \/ v.pc = "fixed" /\ ~ Existing
      PROVE  payer' \in [Payers -> PayerState] /\ \A o \in Payers : PayerMoves(o)
  <2>1. payer' \in [Payers -> PayerState] /\ payer'[p] = v /\ \A o \in Payers \ {p} : payer'[o] = payer[o]
    BY <1>2, FormsTyped
  <2> QED
    BY <1>1, <1>2, <2>1 DEF PayerMoves
<1>3. ASSUME NEW p \in Payers, NEW q \in Quarters, CreateF24Read(p, q) \/ MarkRead(p, q)
      PROVE  payer' \in [Payers -> PayerState] /\ \A o \in Payers : PayerMoves(o)
  <2>1. \A pc \in {"createF24", "mark"} : /\ [pc |-> pc, quarter |-> q] \in PayerState
                                          /\ [pc |-> pc, quarter |-> q].pc = pc /\ [pc |-> pc, quarter |-> q].quarter = q
    BY DEF PayerState
  <2>2. CASE CreateF24Read(p, q)
    BY <1>2, <2>1, <2>2 DEF CreateF24Read
  <2>3. CASE MarkRead(p, q)
    BY <1>2, <2>1, <2>3 DEF MarkRead
  <2> QED
    BY <1>3, <2>2, <2>3
<1>4. ASSUME NEW p \in Payers, NEW f \in Fid, UpdateStatusRead(p, f) \/ FormRemoveRead(p, f)
      PROVE  payer' \in [Payers -> PayerState] /\ \A o \in Payers : PayerMoves(o)
  <2>1. /\ [pc |-> "remove", id |-> f] \in PayerState
        /\ \A st \in AskedStatuses : [pc |-> "update", id |-> f, status |-> st] \in PayerState
    BY DEF PayerState
  <2>2. PICK v \in PayerState : v.pc \in {"update", "remove"} /\ payer' = [payer EXCEPT ![p] = v]
    BY <1>4, <2>1 DEF UpdateStatusRead, FormRemoveRead
  <2> QED
    BY <1>2, <2>2
<1>5. ASSUME NEW p \in Payers, FixedRead(p) PROVE payer' \in [Payers -> PayerState] /\ \A o \in Payers : PayerMoves(o)
  <2>1. [pc |-> "fixed", next |-> 1] \in PayerState
    BY DEF PayerState, Installments
  <2> QED
    BY <1>2, <1>5, <2>1 DEF FixedRead
<1>6. ASSUME NEW p \in Payers, PayerEnds(p) PROVE payer' \in [Payers -> PayerState] /\ \A o \in Payers : PayerMoves(o)
  BY <1>6, PayerEnding DEF PayerEnds
<1> QED
  BY <1>1, <1>3, <1>4, <1>5, <1>6 DEF PayerReads

\* A new row, of an id never used.
LEMMA NewForm ==
  ASSUME FormsTypeOK, NEW f \in Fid, NextForm(f), NEW kind \in {"quarter", "installment", "by_hand"}, NEW i \in 0..4,
         form' = Planned(f, kind, i)
  PROVE  /\ form' \in [Fid -> FormRow \cup {NoRow, DeletedRow}]
         /\ form'[f].of = kind /\ form'[f].n = i /\ form'[f].status = "PLANNED" /\ \A g \in Fid \ {f} : form'[g] = form[g]
<1>1. [of |-> kind, n |-> i, status |-> "PLANNED"] \in FormRow
  BY DEF FormRow
<1>2. form' = [form EXCEPT ![f] = [of |-> kind, n |-> i, status |-> "PLANNED"]] /\ form \in [Fid -> FormRow \cup {NoRow, DeletedRow}]
  BY FormsTyped DEF Planned
<1>3. form'[f] = [of |-> kind, n |-> i, status |-> "PLANNED"] /\ \A g \in Fid \ {f} : form'[g] = form[g]
  BY <1>2
<1>4. form' \in [Fid -> FormRow \cup {NoRow, DeletedRow}]
  BY <1>1, <1>2, <1>3
<1> QED
  BY <1>3, <1>4

LEMMA ByHandMoves ==
  ASSUME FormsTypeOK, CreateByHand
  PROVE  /\ form' \in [Fid -> FormRow \cup {NoRow, DeletedRow}] /\ UNCHANGED <<period, payer>>
         /\ \A g \in Fid : form'[g] = form[g] \/ form'[g].of = "by_hand"
<1>1. PICK f \in Fid : NextForm(f) /\ form' = Planned(f, "by_hand", 0) /\ UNCHANGED <<period, payer>>
  BY DEF CreateByHand
<1> QED
  BY <1>1, NewForm

LEMMA CreationMoves ==
  ASSUME FormsTypeOK, NEW p \in Payers, FixedWrite(p)
  PROVE  /\ form' \in [Fid -> FormRow \cup {NoRow, DeletedRow}] /\ payer' \in [Payers -> PayerState] /\ UNCHANGED period
         /\ payer[p].pc = "fixed" /\ payer[p].next \in Installments
         /\ \E f \in Fid : /\ form'[f].of = "installment" /\ form'[f].n = payer[p].next
                           /\ \A g \in Fid \ {f} : form'[g] = form[g]
         /\ \A o \in Payers : PayerMoves(o)
         /\ payer'[p].pc = "fixed" => payer'[p].next = payer[p].next + 1
         /\ \A o \in Payers \ {p} : payer'[o] = payer[o]
<1> DEFINE i == payer[p].next
<1>1. PICK f \in Fid : NextForm(f) /\ form' = Planned(f, "installment", i)
  BY DEF FixedWrite
<1>2. /\ payer[p].pc = "fixed" /\ i \in Installments /\ i \in 0..4 /\ period' = period
      /\ payer' = IF i < 4 THEN [payer EXCEPT ![p].next = i + 1] ELSE [payer EXCEPT ![p] = IdlePayer]
  BY PayerTypes DEF FixedWrite, Installments, EndPayer
<1>3. payer[p] \in [pc : {"fixed"}, next : Installments] /\ payer \in [Payers -> PayerState]
  BY <1>2, FormsTyped, EmptyRows DEF PayerState
<1> HIDE DEF i
<1>4. payer'[p] = (IF i < 4 THEN [pc |-> "fixed", next |-> i + 1] ELSE IdlePayer) /\ \A o \in Payers \ {p} : payer'[o] = payer[o]
  BY <1>2, <1>3
<1>5. payer'[p] \in PayerState
  BY <1>2, <1>4 DEF PayerState, Installments
<1>6. payer' \in [Payers -> PayerState]
  BY <1>2, <1>3, <1>4, <1>5
<1>7. \A o \in Payers : PayerMoves(o)
  BY <1>4, EmptyRows DEF PayerMoves, i
<1>8. payer'[p].pc = "fixed" => payer'[p].next = i + 1
  BY <1>4, EmptyRows
<1>9. /\ form' \in [Fid -> FormRow \cup {NoRow, DeletedRow}] /\ form'[f].of = "installment" /\ form'[f].n = i
      /\ \A g \in Fid \ {f} : form'[g] = form[g]
  BY <1>1, <1>2, NewForm
<1> QED
  BY <1>2, <1>4, <1>6, <1>7, <1>8, <1>9 DEF i

LEMMA PayQuarterMoves ==
  ASSUME FormsTypeOK, NEW p \in Payers, CreateF24Write(p)
  PROVE  /\ form' \in [Fid -> FormRow \cup {NoRow, DeletedRow}] /\ period' \in [Quarters -> PeriodRow]
         /\ payer[p].pc = "createF24" /\ payer[p].quarter \in Quarters /\ EndPayer(p)
         /\ \E f \in Fid : /\ form'[f].of = "quarter" /\ form'[f].n = payer[p].quarter
                           /\ \A g \in Fid \ {f} : form'[g] = form[g]
                           /\ period'[payer[p].quarter].f24 = f
         /\ \A r \in Quarters : period'[r].paidOn = period[r].paidOn /\ (r # payer[p].quarter => period'[r] = period[r])
<1> DEFINE q == payer[p].quarter
<1>1. PICK f \in Fid : NextForm(f) /\ form' = Planned(f, "quarter", q) /\ period' = [period EXCEPT ![q].f24 = f]
  BY DEF CreateF24Write
<1>2. payer[p].pc = "createF24" /\ q \in Quarters /\ q \in 0..4 /\ EndPayer(p)
  BY PayerTypes, FormsAssumption DEF CreateF24Write
<1> HIDE DEF q
<1>3. /\ form' \in [Fid -> FormRow \cup {NoRow, DeletedRow}] /\ form'[f].of = "quarter" /\ form'[f].n = q
      /\ \A g \in Fid \ {f} : form'[g] = form[g]
  BY <1>1, <1>2, NewForm
<1>4. /\ period' \in [Quarters -> PeriodRow] /\ period'[q].f24 = f /\ period'[q].paidOn = period[q].paidOn
      /\ \A r \in Quarters \ {q} : period'[r] = period[r]
  BY <1>1, <1>2, FormsTyped DEF PeriodRow
<1> QED
  BY <1>2, <1>3, <1>4 DEF q

LEMMA PortalMoves ==
  ASSUME FormsTypeOK, (\E p \in Payers : MarkWrite(p)) \/ \E q \in Quarters : Unmark(q)
  PROVE  /\ UNCHANGED form /\ period' \in [Quarters -> PeriodRow] /\ payer' \in [Payers -> PayerState]
         /\ \A r \in Quarters : period'[r].f24 = period[r].f24
         /\ \A r \in Quarters : period'[r].paidOn =>
              period[r].paidOn \/ \E p \in Payers : payer[p].pc = "mark" /\ payer[p].quarter = r /\ payer'[p].pc = "idle"
         /\ \A o \in Payers : PayerMoves(o) /\ (payer'[o] = payer[o] \/ payer'[o].pc = "idle")
<1>1. ASSUME NEW p \in Payers, MarkWrite(p)
      PROVE  /\ period' = [period EXCEPT ![payer[p].quarter].paidOn = TRUE] /\ payer[p].pc = "mark" /\ payer[p].quarter \in Quarters
             /\ UNCHANGED form /\ EndPayer(p)
  BY <1>1, PayerTypes DEF MarkWrite
<1>2. ASSUME NEW q \in Quarters, Unmark(q)
      PROVE  period' = [period EXCEPT ![q].paidOn = FALSE] /\ UNCHANGED <<form, payer>>
  BY <1>2 DEF Unmark
<1>3. \A q \in Quarters, b \in BOOLEAN : period' = [period EXCEPT ![q].paidOn = b] =>
        /\ period' \in [Quarters -> PeriodRow] /\ period'[q].paidOn = b /\ \A r \in Quarters : period'[r].f24 = period[r].f24
        /\ \A r \in Quarters \ {q} : period'[r].paidOn = period[r].paidOn
  BY FormsTyped DEF PeriodRow
<1>4. CASE \E q \in Quarters : Unmark(q)
  <2>1. PICK q \in Quarters : period' = [period EXCEPT ![q].paidOn = FALSE] /\ UNCHANGED <<form, payer>>
    BY <1>2, <1>4
  <2> QED
    BY <1>3, <2>1, FormsTyped DEF PayerMoves
<1>5. ASSUME NEW p \in Payers, MarkWrite(p)
      PROVE  /\ UNCHANGED form /\ period' \in [Quarters -> PeriodRow] /\ payer' \in [Payers -> PayerState]
             /\ \A r \in Quarters : period'[r].f24 = period[r].f24
             /\ \A r \in Quarters : period'[r].paidOn =>
                  period[r].paidOn \/ \E s \in Payers : payer[s].pc = "mark" /\ payer[s].quarter = r /\ payer'[s].pc = "idle"
             /\ \A o \in Payers : PayerMoves(o) /\ (payer'[o] = payer[o] \/ payer'[o].pc = "idle")
  <2>1. /\ period' = [period EXCEPT ![payer[p].quarter].paidOn = TRUE] /\ payer[p].pc = "mark" /\ payer[p].quarter \in Quarters
        /\ UNCHANGED form /\ EndPayer(p)
    BY <1>1, <1>5
  <2>2. /\ payer' \in [Payers -> PayerState] /\ payer'[p].pc = "idle" /\ \A o \in Payers : PayerMoves(o)
        /\ \A o \in Payers \ {p} : payer'[o] = payer[o]
    BY <2>1, PayerEnding
  <2> QED
    BY <1>3, <2>1, <2>2
<1> QED
  BY <1>4, <1>5

LEMMA StatusMoves ==
  ASSUME FormsTypeOK, NEW p \in Payers, UpdateStatusWrite(p)
  PROVE  /\ form' \in [Fid -> FormRow \cup {NoRow, DeletedRow}] /\ UNCHANGED period /\ EndPayer(p)
         /\ \A g \in Fid : form'[g].of = form[g].of /\ form'[g].n = form[g].n
         /\ \A g \in Fid : form'[g] = form[g] \/ (g = payer[p].id /\ form'[g].status = payer[p].status)
         /\ payer[p].pc = "update"
<1> DEFINE f  == payer[p].id
           st == payer[p].status
<1>1. /\ f \in Fid /\ st \in {"PLANNED", "PAID", "CANCELLED"} /\ EndPayer(p) /\ period' = period /\ payer[p].pc = "update"
      /\ form' = IF Saved(f) THEN [form EXCEPT ![f].status = st] ELSE form
  BY PayerTypes, FormsAssumption DEF UpdateStatusWrite
<1> HIDE DEF f, st
<1>2. CASE Saved(f)
  <2>1. form[f] \in FormRow
    BY <1>1, <1>2, FormTypes
  <2>2. form' = [form EXCEPT ![f].status = st] /\ form \in [Fid -> FormRow \cup {NoRow, DeletedRow}]
    BY <1>1, <1>2, FormsTyped
  <2>3. [form[f] EXCEPT !.status = st] \in FormRow
    BY <1>1, <2>1 DEF FormRow
  <2>4. form'[f].of = form[f].of /\ form'[f].n = form[f].n /\ form'[f].status = st
    BY <1>1, <2>1, <2>2 DEF FormRow
  <2>5. form' \in [Fid -> FormRow \cup {NoRow, DeletedRow}] /\ \A g \in Fid \ {f} : form'[g] = form[g]
    BY <1>1, <2>2, <2>3
  <2> QED
    BY <1>1, <2>4, <2>5 DEF f, st
<1>3. CASE ~ Saved(f)
  BY <1>1, <1>3, FormsTyped
<1> QED
  BY <1>2, <1>3

LEMMA RemovalMoves ==
  ASSUME FormsTypeOK, NEW p \in Payers, FormRemoveWrite(p)
  PROVE  /\ form' \in [Fid -> FormRow \cup {NoRow, DeletedRow}] /\ period' \in [Quarters -> PeriodRow] /\ EndPayer(p)
         /\ \A g \in Fid : form'[g].of \in {"none", "deleted"} \/ (g # payer[p].id /\ form'[g] = form[g])
         /\ \A q \in Quarters : /\ period'[q].paidOn = period[q].paidOn
                                /\ period[q].f24 # payer[p].id => period'[q].f24 = period[q].f24
<1> DEFINE f == payer[p].id
<1>1. /\ f \in Fid /\ EndPayer(p)
      /\ form' = IF Saved(f) THEN [form EXCEPT ![f] = DeletedRow] ELSE form
      /\ period' = [q \in Quarters |-> IF period[q].f24 = f THEN [period[q] EXCEPT !.f24 = NoForm] ELSE period[q]]
  BY PayerTypes DEF FormRemoveWrite
<1> HIDE DEF f
<1>2. form' \in [Fid -> FormRow \cup {NoRow, DeletedRow}] /\ \A g \in Fid : form'[g].of \in {"none", "deleted"} \/ (g # f /\ form'[g] = form[g])
  <2>1. CASE Saved(f)
    <3>1. form \in [Fid -> FormRow \cup {NoRow, DeletedRow}] /\ form' = [form EXCEPT ![f] = DeletedRow]
      BY <1>1, <2>1, FormsTyped
    <3> QED
      BY <1>1, <3>1, EmptyRows
  <2>2. CASE ~ Saved(f)
    <3>1. form' = form /\ form[f].of \in {"none", "deleted"}
      BY <1>1, <2>2, FormTypes
    <3> QED
      BY <3>1, FormsTyped
  <2> QED
    BY <2>1, <2>2
<1>3. /\ period' \in [Quarters -> PeriodRow]
      /\ \A q \in Quarters : period'[q].paidOn = period[q].paidOn /\ (period[q].f24 # f => period'[q].f24 = period[q].f24)
  BY <1>1, FormsTyped DEF PeriodRow
<1> QED
  BY <1>1, <1>2, <1>3 DEF f

LEMMA FormsParts ==
  ASSUME [FormsNext]_formVars
  PROVE  \/ UNCHANGED formVars
         \/ PayerReads
         \/ CreateByHand
         \/ (\E p \in Payers : MarkWrite(p)) \/ \E q \in Quarters : Unmark(q)
         \/ \E p \in Payers : CreateF24Write(p) \/ FixedWrite(p) \/ UpdateStatusWrite(p) \/ FormRemoveWrite(p)
  BY DEF FormsNext, PayerReads

\* The types need no assumption, nor what a step does to the requests.
LEMMA FormsStep ==
  ASSUME FormsTypeOK, [FormsNext]_formVars
  PROVE  FormsTypeOK' /\ \A o \in Payers : PayerMoves(o)
<1>1. FormsTypeOK /\ form \in [Fid -> FormRow \cup {NoRow, DeletedRow}] /\ period \in [Quarters -> PeriodRow] /\ payer \in [Payers -> PayerState]
  BY FormsTyped
<1>2. CASE UNCHANGED formVars
  <2>1. UNCHANGED <<form, period, payer>>
    BY <1>2 DEF formVars
  <2> QED
    BY <1>1, <2>1, FormsTypedNext DEF PayerMoves
<1>3. CASE PayerReads
  BY <1>1, <1>3, ReadingMoves, FormsTypedNext
<1>4. CASE CreateByHand
  BY <1>1, <1>4, ByHandMoves, FormsTypedNext DEF PayerMoves
<1>5. CASE (\E p \in Payers : MarkWrite(p)) \/ \E q \in Quarters : Unmark(q)
  BY <1>1, <1>5, PortalMoves, FormsTypedNext
<1>6. ASSUME NEW p \in Payers, FixedWrite(p) PROVE FormsTypeOK' /\ \A o \in Payers : PayerMoves(o)
  BY <1>1, <1>6, CreationMoves, FormsTypedNext
<1>7. ASSUME NEW p \in Payers, CreateF24Write(p) \/ UpdateStatusWrite(p) \/ FormRemoveWrite(p)
      PROVE  FormsTypeOK' /\ \A o \in Payers : PayerMoves(o)
  <2>1. /\ form' \in [Fid -> FormRow \cup {NoRow, DeletedRow}] /\ period' \in [Quarters -> PeriodRow] /\ EndPayer(p)
    BY <1>1, <1>7, PayQuarterMoves, StatusMoves, RemovalMoves
  <2> QED
    BY <1>1, <2>1, PayerEnding, FormsTypedNext
<1> QED
  BY <1>2, <1>3, <1>4, <1>5, <1>6, <1>7, FormsParts

\* A step that makes no form of a quarter and pays none on the portal.
LEMMA QuarterKept ==
  ASSUME QuarterInv, FormsTypeOK', \A o \in Payers : PayerMoves(o),
         \A f \in Fid, q \in Quarters : Pays(f, q)' => Pays(f, q),
         \A f \in Fid : form'[f].of = "quarter" /\ form'[f].status # "CANCELLED" =>
            /\ form[f].of = "quarter" /\ form[f].status # "CANCELLED" /\ form'[f].n = form[f].n
            /\ period'[form[f].n].f24 = period[form[f].n].f24,
         \A q \in Quarters : period'[q].paidOn => period[q].paidOn
  PROVE  QuarterInv'
<1>1. FormsTypeOK /\ LinkedOK /\ \A o \in Payers : PayerOK(payer[o])
  BY DEF QuarterInv
<1>2. LinkedOK'
  BY <1>1 DEF LinkedOK
<1>3. ASSUME NEW o \in Payers PROVE PayerOK(payer[o])'
  <2> DEFINE x == payer'[o]
  <2>1. PayerMoves(o) /\ PayerOK(payer[o]) /\ (payer[o].pc \in {"createF24", "mark"} => payer[o].quarter \in Quarters)
    BY <1>1, PayerTypes
  <2>2. CASE x = payer[o]
    BY <2>1, <2>2 DEF PayerOK
  <2>3. CASE x.pc \in {"idle", "fixed", "update", "remove"}
    BY <2>3 DEF PayerOK
  <2>4. CASE /\ UNCHANGED <<form, period>>
             /\ x.pc \in {"createF24", "mark"} /\ x.quarter \in Quarters /\ Shown(x.quarter) = NoForm
             /\ x.pc = "createF24" => ~ period[x.quarter].paidOn
    <3>1. \A f \in Fid : ~ Pays(f, x.quarter)
      BY <1>1, <2>4, FormIds DEF Shown, Pays, LinkedOK
    <3>2. \A f \in Fid : ~ (form'[f].of = "quarter" /\ form'[f].n = x.quarter /\ form'[f].status # "CANCELLED")
      BY <2>4, <3>1 DEF Pays
    <3>3. x.pc = "createF24" => ~ period'[x.quarter].paidOn
      BY <2>4
    <3> QED
      BY <3>2, <3>3 DEF PayerOK, Pays
  <2> QED
    BY <2>1, <2>2, <2>3, <2>4 DEF PayerMoves
<1> QED
  BY <1>2, <1>3 DEF QuarterInv

LEMMA QuarterPaid ==
  ASSUME QuarterInv, ~ TwoPayers, NEW p \in Payers, CreateF24Write(p)
  PROVE  QuarterInv'
<1> DEFINE q == payer[p].quarter
<1>1. FormsTypeOK /\ LinkedOK /\ FormsTypeOK' /\ \A o \in Payers : PayerOK(payer[o])
  BY FormsStep DEF QuarterInv, FormsNext
<1>2. /\ payer[p].pc = "createF24" /\ q \in Quarters /\ EndPayer(p)
      /\ \A r \in Quarters : period'[r].paidOn = period[r].paidOn /\ (r # q => period'[r] = period[r])
      /\ ~ period[q].paidOn /\ \A g \in Fid : ~ Pays(g, q)
  BY <1>1, PayQuarterMoves DEF PayerOK
<1>3. PICK f \in Fid : /\ form'[f].of = "quarter" /\ form'[f].n = q /\ \A g \in Fid \ {f} : form'[g] = form[g]
                       /\ period'[q].f24 = f
  BY <1>1, PayQuarterMoves
<1>4. \A o \in Payers : o # p /\ payer[o].pc \in {"createF24", "mark"} => payer[o].quarter # q
  BY <1>2 DEF TwoPayers
<1>5. payer'[p].pc = "idle" /\ \A o \in Payers \ {p} : payer'[o] = payer[o]
  BY <1>1, <1>2, PayerEnding
<1>6. \A o \in Payers : payer[o].pc \in {"createF24", "mark"} => payer[o].quarter \in Quarters
  BY <1>1, PayerTypes
<1> HIDE DEF q
<1>7. \A g \in Fid, r \in Quarters : Pays(g, r)' => Pays(g, r) \/ (g = f /\ r = q)
  BY <1>3 DEF Pays
<1>8. LinkedOK'
  <2>1. ASSUME NEW g \in Fid, form'[g].of = "quarter", form'[g].status # "CANCELLED"
        PROVE  form'[g].n \in Quarters /\ period'[form'[g].n].f24 = g
    <3>1. CASE g = f
      BY <1>2, <1>3, <3>1
    <3>2. CASE g # f
      <4>1. form'[g] = form[g]
        BY <1>3, <3>2
      <4>2. form[g].n \in Quarters /\ period[form[g].n].f24 = g /\ form[g].n # q
        BY <1>1, <1>2, <2>1, <4>1 DEF LinkedOK, Pays
      <4> QED
        BY <1>2, <4>1, <4>2
    <3> QED
      BY <3>1, <3>2
  <2>2. \A g \in Fid, r \in Quarters : period'[r].paidOn => ~ Pays(g, r)'
    BY <1>1, <1>2, <1>7 DEF LinkedOK
  <2> QED
    BY <2>1, <2>2 DEF LinkedOK
<1>9. ASSUME NEW o \in Payers PROVE PayerOK(payer[o])'
  <2>1. CASE o = p
    BY <1>5, <2>1 DEF PayerOK
  <2>2. CASE o # p
    <3>1. payer'[o] = payer[o] /\ PayerOK(payer[o])
      BY <1>1, <1>5, <2>2
    <3> QED
      BY <1>2, <1>4, <1>6, <1>7, <2>2, <3>1 DEF PayerOK
  <2> QED
    BY <2>1, <2>2
<1> QED
  BY <1>1, <1>8, <1>9 DEF QuarterInv

LEMMA QuarterPortal ==
  ASSUME QuarterInv, ~ TwoPayers, (\E p \in Payers : MarkWrite(p)) \/ \E q \in Quarters : Unmark(q)
  PROVE  QuarterInv'
<1>1. /\ FormsTypeOK /\ LinkedOK /\ FormsTypeOK' /\ \A o \in Payers : PayerOK(payer[o])
  BY FormsStep DEF QuarterInv, FormsNext
<1>2. /\ UNCHANGED form /\ \A r \in Quarters : period'[r].f24 = period[r].f24
      /\ \A r \in Quarters : period'[r].paidOn =>
           period[r].paidOn \/ \E p \in Payers : payer[p].pc = "mark" /\ payer[p].quarter = r /\ payer'[p].pc = "idle"
      /\ \A o \in Payers : payer'[o] = payer[o] \/ payer'[o].pc = "idle"
  BY <1>1, PortalMoves
<1>3. \A f \in Fid, r \in Quarters : Pays(f, r)' = Pays(f, r)
  BY <1>2 DEF Pays
<1>4. LinkedOK'
  <2>1. ASSUME NEW f \in Fid, NEW r \in Quarters, period'[r].paidOn PROVE ~ Pays(f, r)'
    BY <1>1, <1>2, <1>3, <2>1 DEF LinkedOK, PayerOK
  <2>2. \A f \in Fid : form'[f].of = "quarter" /\ form'[f].status # "CANCELLED" => form'[f].n \in Quarters /\ period'[form'[f].n].f24 = f
    BY <1>1, <1>2 DEF LinkedOK
  <2> QED
    BY <2>1, <2>2 DEF LinkedOK
<1>5. ASSUME NEW o \in Payers PROVE PayerOK(payer[o])'
  <2>1. PayerOK(payer[o]) /\ (payer[o].pc \in {"createF24", "mark"} => payer[o].quarter \in Quarters)
    BY <1>1, PayerTypes
  <2>2. CASE payer'[o] = payer[o] /\ payer[o].pc \in {"createF24", "mark"}
    <3>1. \A f \in Fid : ~ Pays(f, payer[o].quarter)'
      BY <1>2, <2>1, <2>2 DEF PayerOK, Pays
    <3>2. ASSUME payer[o].pc = "createF24" PROVE ~ period'[payer[o].quarter].paidOn
      <4>1. ~ period[payer[o].quarter].paidOn
        BY <2>1, <3>2 DEF PayerOK
      <4>2. ASSUME NEW p \in Payers, payer[p].pc = "mark", payer[p].quarter = payer[o].quarter, payer'[p].pc = "idle" PROVE FALSE
        BY <2>2, <3>2, <4>2 DEF TwoPayers
      <4> QED
        BY <1>2, <2>1, <2>2, <4>1, <4>2
    <3>3. payer'[o] = payer[o]
      BY <2>2
    <3> QED
      BY <3>1, <3>2, <3>3 DEF PayerOK, Pays
  <2>3. CASE payer'[o].pc = "idle" \/ payer'[o].pc \notin {"createF24", "mark"}
    BY <2>3 DEF PayerOK
  <2> QED
    BY <1>2, <2>2, <2>3
<1> QED
  BY <1>1, <1>4, <1>5 DEF QuarterInv

LEMMA QuarterStep == QuarterInv /\ ~ TwoPayers /\ ~ Revived /\ [FormsNext]_formVars => QuarterInv'
<1> SUFFICES ASSUME QuarterInv, ~ TwoPayers, ~ Revived, [FormsNext]_formVars PROVE QuarterInv'
  OBVIOUS
<1>1. FormsTypeOK /\ LinkedOK /\ FormsTypeOK' /\ \A o \in Payers : PayerMoves(o)
  BY FormsStep DEF QuarterInv
<1>2. ASSUME UNCHANGED period, \A f \in Fid : form'[f] = form[f] \/ form'[f].of \in {"by_hand", "installment"} PROVE QuarterInv'
  <2>1. \A f \in Fid, q \in Quarters : Pays(f, q)' => Pays(f, q)
    BY <1>2 DEF Pays
  <2> QED
    BY <1>1, <1>2, <2>1, QuarterKept
<1>3. CASE UNCHANGED <<form, period>>
  BY <1>2, <1>3
<1>4. UNCHANGED formVars \/ PayerReads => UNCHANGED <<form, period>>
  BY <1>1, ReadingMoves DEF formVars
<1>5. CASE CreateByHand
  BY <1>1, <1>2, <1>5, ByHandMoves
<1>6. ASSUME NEW p \in Payers, FixedWrite(p) PROVE QuarterInv'
  <2>1. UNCHANGED period /\ \E f \in Fid : form'[f].of = "installment" /\ \A g \in Fid \ {f} : form'[g] = form[g]
    BY <1>1, <1>6, CreationMoves
  <2> QED
    BY <1>2, <2>1
<1>7. ASSUME NEW p \in Payers, UpdateStatusWrite(p) PROVE QuarterInv'
  <2>1. /\ UNCHANGED period /\ payer[p].pc = "update"
        /\ \A g \in Fid : form'[g].of = form[g].of /\ form'[g].n = form[g].n
        /\ \A g \in Fid : form'[g] = form[g] \/ (g = payer[p].id /\ form'[g].status = payer[p].status)
    BY <1>1, <1>7, StatusMoves
  <2>2. \A g \in Fid : form'[g].of = "quarter" /\ form'[g].status # "CANCELLED" => form[g].status # "CANCELLED"
    BY <2>1 DEF Revived
  <2>3. \A f \in Fid, q \in Quarters : Pays(f, q)' => Pays(f, q)
    BY <2>1, <2>2 DEF Pays
  <2> QED
    BY <1>1, <2>1, <2>2, <2>3, QuarterKept
<1>8. ASSUME NEW p \in Payers, FormRemoveWrite(p) PROVE QuarterInv'
  <2>1. /\ \A g \in Fid : form'[g].of \in {"none", "deleted"} \/ (g # payer[p].id /\ form'[g] = form[g])
        /\ \A q \in Quarters : /\ period'[q].paidOn = period[q].paidOn
                               /\ period[q].f24 # payer[p].id => period'[q].f24 = period[q].f24
    BY <1>1, <1>8, RemovalMoves
  <2>2. \A f \in Fid, q \in Quarters : Pays(f, q)' => Pays(f, q)
    BY <2>1 DEF Pays
  <2>3. \A f \in Fid : form'[f].of = "quarter" /\ form'[f].status # "CANCELLED" =>
            /\ form[f].of = "quarter" /\ form[f].status # "CANCELLED" /\ form'[f].n = form[f].n
            /\ period'[form[f].n].f24 = period[form[f].n].f24
    BY <1>1, <2>1 DEF LinkedOK
  <2> QED
    BY <1>1, <2>1, <2>2, <2>3, QuarterKept
<1> QED
  BY <1>3, <1>4, <1>5, <1>6, <1>7, <1>8, QuarterPaid, QuarterPortal, FormsParts

\* A quarter is paid once, by one form or on the portal, for any quarters, requests and statuses asked, until two requests
\* pay one quarter at once or a cancelled form of a quarter is planned or paid again (createF24, markPaidOnPortal).
THEOREM QuarterOnce == FormsSpec => []QuarterPaidOnce \/ <>TwoPayers \/ <>Revived
<1>1. QuarterInv => QuarterPaidOnce
  <2> SUFFICES ASSUME QuarterInv, NEW q \in Quarters
               PROVE  LET paid == {f \in Fid : form[f].of = "quarter" /\ form[f].n = q /\ form[f].status = "PAID"}
                      IN  Cardinality(paid) <= 1 /\ (period[q].paidOn => paid = {})
    BY DEF QuarterPaidOnce
  <2> DEFINE paid == {f \in Fid : form[f].of = "quarter" /\ form[f].n = q /\ form[f].status = "PAID"}
  <2>1. paid \subseteq {period[q].f24} /\ \A f \in paid : Pays(f, q)
    BY DEF QuarterInv, LinkedOK, Pays
  <2>2. IsFiniteSet({period[q].f24}) /\ Cardinality({period[q].f24}) = 1
    BY FS_Singleton
  <2>3. Cardinality(paid) <= 1
    BY <2>1, <2>2, FS_Subset
  <2>4. period[q].paidOn => paid = {}
    BY <2>1 DEF QuarterInv, LinkedOK
  <2> QED
    BY <2>3, <2>4
<1> QED
  BY <1>1, FormsStart, QuarterStep, PTL DEF FormsSpec

LEMMA FixedStep == FixedInv /\ ~ TwoCreations /\ ~ InstallmentCancelled /\ [FormsNext]_formVars => FixedInv'
<1> SUFFICES ASSUME FixedInv, ~ TwoCreations, ~ InstallmentCancelled, [FormsNext]_formVars PROVE FixedInv'
  OBVIOUS
<1>1. /\ FormsTypeOK /\ InstallmentsApart /\ FormsTypeOK'
      /\ \A o \in Payers : CreationOK(payer[o]) /\ PayerMoves(o)
  BY FormsStep DEF FixedInv
<1>2. ASSUME \A f \in Fid : form'[f].of = "installment" => form[f].of = "installment" /\ form'[f].n = form[f].n,
             \A p \in Payers : ~ FixedWrite(p)
      PROVE  FixedInv'
  <2>1. InstallmentsApart'
    BY <1>1, <1>2 DEF InstallmentsApart
  <2>2. ASSUME NEW o \in Payers PROVE CreationOK(payer[o])'
    <3>1. CreationOK(payer[o]) /\ PayerMoves(o)
      BY <1>1
    <3>2. CASE payer'[o] = payer[o]
      BY <1>2, <3>1, <3>2 DEF CreationOK
    <3>3. CASE payer'[o].pc # "fixed"
      BY <3>3 DEF CreationOK
    <3>4. CASE UNCHANGED <<form, period>> /\ ~ Existing
      <4>1. \A f \in Fid : form'[f].of # "installment"
        BY <3>4 DEF Existing, FixedRows, InstallmentCancelled
      <4> QED
        BY <4>1 DEF CreationOK
    <3> QED
      BY <1>2, <3>1, <3>2, <3>3, <3>4 DEF PayerMoves
  <2> QED
    BY <1>1, <2>1, <2>2 DEF FixedInv
<1>3. ASSUME NEW p \in Payers, FixedWrite(p) PROVE FixedInv'
  <2> DEFINE i == payer[p].next
  <2>1. payer[p].pc = "fixed" /\ i \in Installments /\ PayerMoves(p)
    BY <1>1, <1>3, CreationMoves
  <2>2. PICK f \in Fid : form'[f].of = "installment" /\ form'[f].n = i /\ \A g \in Fid \ {f} : form'[g] = form[g]
    BY <1>1, <1>3, CreationMoves
  <2>3. \A g \in Fid : form[g].of = "installment" => form[g].n \in Nat /\ form[g].n < i
    <3>1. ASSUME NEW g \in Fid, form[g].of = "installment" PROVE form[g].n \in Nat
      <4>1. form[g] \in FormRow
        BY <1>1, <3>1, FormTypes
      <4> QED
        BY <4>1 DEF FormRow
    <3> QED
      BY <1>1, <2>1, <3>1 DEF CreationOK
  <2>4. InstallmentsApart'
    BY <1>1, <2>1, <2>2, <2>3 DEF InstallmentsApart, Installments
  <2>5. \A o \in Payers \ {p} : payer'[o] = payer[o] /\ payer[o].pc # "fixed"
    BY <1>1, <1>3, <2>1, CreationMoves DEF TwoCreations
  <2>6. CreationOK(payer[p])'
    <3>1. payer'[p].pc = "fixed" => payer'[p].next = i + 1
      BY <1>1, <1>3, CreationMoves
    <3>2. \A g \in Fid : form'[g].of = "installment" => form'[g].n < i + 1
      BY <2>1, <2>2, <2>3 DEF Installments
    <3> QED
      BY <3>1, <3>2 DEF CreationOK
  <2>7. ASSUME NEW o \in Payers PROVE CreationOK(payer[o])'
    <3>1. CASE o = p
      BY <2>6, <3>1
    <3>2. CASE o # p
      BY <2>5, <3>2 DEF CreationOK
    <3> QED
      BY <3>1, <3>2
  <2> QED
    BY <1>1, <2>4, <2>7 DEF FixedInv
<1>4. \A f \in Fid : form'[f] = form[f] => (form'[f].of = "installment" => form[f].of = "installment" /\ form'[f].n = form[f].n)
  OBVIOUS
<1>5. CASE UNCHANGED form
  BY <1>2, <1>3, <1>5
<1>6. UNCHANGED formVars \/ PayerReads \/ (\E p \in Payers : MarkWrite(p)) \/ (\E q \in Quarters : Unmark(q)) => UNCHANGED form
  BY <1>1, ReadingMoves, PortalMoves DEF formVars
<1>7. CASE CreateByHand
  BY <1>1, <1>2, <1>3, <1>7, ByHandMoves
<1>8. ASSUME NEW p \in Payers, CreateF24Write(p) PROVE FixedInv'
  <2>1. \E f \in Fid : form'[f].of = "quarter" /\ \A g \in Fid \ {f} : form'[g] = form[g]
    BY <1>1, <1>8, PayQuarterMoves
  <2> QED
    BY <1>2, <1>3, <2>1
<1>9. ASSUME NEW p \in Payers, UpdateStatusWrite(p) PROVE FixedInv'
  BY <1>1, <1>2, <1>3, <1>9, StatusMoves
<1>10. ASSUME NEW p \in Payers, FormRemoveWrite(p) PROVE FixedInv'
  BY <1>1, <1>2, <1>3, <1>10, RemovalMoves
<1> QED
  BY <1>3, <1>5, <1>6, <1>7, <1>8, <1>9, <1>10, FormsParts

\* An installment of the fixed contributions has one form at most, even if a creation stopped half way and was asked for
\* again (createFixedInstallments), until two creations are under way at once or an installment is cancelled.
THEOREM EachInstallmentOnce == FormsSpec => []InstallmentsOnce \/ <>TwoCreations \/ <>InstallmentCancelled
<1>1. FixedInv => InstallmentsOnce
  BY DEF FixedInv, InstallmentsApart, InstallmentsOnce
<1> QED
  BY <1>1, FormsStart, FixedStep, PTL DEF FormsSpec

-----------------------------------------------------------------------------
(***************************************************************************)
(* Collections: what is collected on a document stays within its total.    *)
(***************************************************************************)
PaymentRow == [of : Documents, amount : Amounts]
ClerkState ==
  {IdleClerk}
    \cup [pc : {"create"}, of : Documents, amount : Amounts, total : Totals]
    \cup [pc : {"summed"}, of : Documents, amount : Amounts, total : Totals, recorded : Int]
    \cup [pc : {"remove"}, id : Pid]

PaymentsOf(rows, d) == {p \in Pid : rows[p].of = d}
TotalOf(rows, d)    == SumFunctionOnSet([p \in Pid |-> rows[p].amount], PaymentsOf(rows, d))

\* Only a document that SDI rejected is a draft.
DraftsCorrected == \A d \in Documents : document[d].status = "DRAFT" => d \in history.corrected
\* While no money went back on a document, none of its collections is of the other sign.
NoneBack == \A p \in Pid : payment[p].of \in Documents \ history.givenBack => Sign(payment[p].of) * payment[p].amount >= 0
\* A clerk knows the total while the document is not corrected; what it summed while it holds the lock can only have
\* been removed, which makes less of it where no money went back.
ClerkOK(c, q) ==
  /\ q.pc \in {"create", "summed"} /\ q.of \notin history.corrected => q.total = document[q.of].total
  /\ q.pc = "summed" =>
       /\ collecting[q.of] = c
       /\ q.of \notin history.removed => q.recorded = SumOf(q.of)
       /\ q.of \notin history.givenBack => Sign(q.of) * SumOf(q.of) <= Sign(q.of) * q.recorded

CollectionsInv ==
  /\ CollectionsTypeOK /\ DraftsCorrected /\ NoneBack /\ CollectedWithinTotal
  /\ \A c \in Clerks : ClerkOK(c, clerk[c])

LEMMA PidFinite == Pid \in SUBSET Nat /\ IsFiniteSet(Pid) /\ \A S \in SUBSET Pid : IsFiniteSet(S)
<1>1. 1 \in Int /\ MaxPayments \in Int /\ Pid = 1..MaxPayments /\ Pid \subseteq Nat
  BY CollectionsAssumption DEF Pid
<1>2. IsFiniteSet(Pid)
  BY <1>1, FS_Interval
<1> QED
  BY <1>1, <1>2, FS_Subset

LEMMA CollectionsTyped ==
  CollectionsTypeOK <=>
    /\ document \in [Documents -> [type : {"TD01", "TD04"}, status : {"ISSUED", "DRAFT"}, total : Totals]]
    /\ payment \in [Pid -> PaymentRow \cup {NoPayment, Removed}]
    /\ clerk \in [Clerks -> ClerkState]
    /\ collecting \in [Documents -> Clerks \cup {NoClerk}]
    /\ history \in [corrected : SUBSET Documents, givenBack : SUBSET Documents, removed : SUBSET Documents]
  BY DEF CollectionsTypeOK, PaymentRow, ClerkState

LEMMA RowTypes ==
  ASSUME NEW rows \in [Pid -> PaymentRow \cup {NoPayment, Removed}], NEW p \in Pid
  PROVE  rows[p].amount \in Int /\ (rows[p].of \in Documents => rows[p] \in PaymentRow)
<1>1. NoPayment.of \notin Documents /\ Removed.of \notin Documents /\ NoPayment.amount \in Int /\ Removed.amount \in Int
  BY CollectionsAssumption DEF NoPayment, Removed
<1>2. \A r \in PaymentRow : r.amount \in Int
  BY CollectionsAssumption DEF PaymentRow
<1> QED
  BY <1>1, <1>2

LEMMA ClerkTypes ==
  ASSUME CollectionsTypeOK, NEW c \in Clerks
  PROVE  /\ clerk[c].pc \in {"create", "summed"} => clerk[c].of \in Documents /\ clerk[c].amount \in Amounts /\ clerk[c].total \in Totals
         /\ clerk[c].pc = "summed" => clerk[c].recorded \in Int
         /\ clerk[c].pc = "remove" => clerk[c].id \in Pid
  BY CollectionsTyped DEF ClerkState, IdleClerk

LEMMA TotalTypes ==
  ASSUME CollectionsTypeOK, NEW d \in Documents
  PROVE  document[d].total \in Nat
  BY CollectionsTyped, CollectionsAssumption

LEMMA SumTotal ==
  ASSUME NEW rows, NEW d
  PROVE  SumFunction([p \in {q \in Pid : rows[q].of = d} |-> rows[p].amount]) = TotalOf(rows, d)
<1> DEFINE f == [p \in PaymentsOf(rows, d) |-> rows[p].amount]
<1>1. SumFunction(f) = SumFunctionOnSet(f, PaymentsOf(rows, d))
  BY DEF SumFunction
<1>2. IsFiniteSet(PaymentsOf(rows, d)) /\ \A p \in PaymentsOf(rows, d) : f[p] = [q \in Pid |-> rows[q].amount][p]
  BY PidFinite DEF PaymentsOf
<1>3. SumFunctionOnSet(f, PaymentsOf(rows, d)) = TotalOf(rows, d)
  BY <1>2, SumSame DEF TotalOf
<1> QED
  BY <1>1, <1>3 DEF PaymentsOf

\* What SumOf adds up, before and after a step.
LEMMA SumOfIs == \A d : SumOf(d) = TotalOf(payment, d) /\ SumOf(d)' = TotalOf(payment', d)
  BY SumTotal DEF SumOf

LEMMA TotalInt ==
  ASSUME NEW rows \in [Pid -> PaymentRow \cup {NoPayment, Removed}], NEW d
  PROVE  TotalOf(rows, d) \in Int
<1>1. IsFiniteSet(PaymentsOf(rows, d)) /\ \A p \in PaymentsOf(rows, d) : [q \in Pid |-> rows[q].amount][p] \in Int
  BY PidFinite, RowTypes DEF PaymentsOf
<1> QED
  BY <1>1, SumIn DEF TotalOf

\* A row that changes, seen from a document whose row it is and one whose row it is not.
LEMMA TotalOther ==
  ASSUME NEW rows, NEW p \in Pid, NEW r, NEW d, rows[p].of # d, r.of # d, rows = [x \in Pid |-> rows[x]]
  PROVE  TotalOf([rows EXCEPT ![p] = r], d) = TotalOf(rows, d)
<1> DEFINE after == [rows EXCEPT ![p] = r]
<1>1. PaymentsOf(after, d) = PaymentsOf(rows, d) /\ p \notin PaymentsOf(rows, d)
  BY DEF PaymentsOf
<1>2. \A x \in PaymentsOf(rows, d) : [q \in Pid |-> after[q].amount][x] = [q \in Pid |-> rows[q].amount][x]
  BY <1>1 DEF PaymentsOf
<1>3. IsFiniteSet(PaymentsOf(rows, d))
  BY PidFinite DEF PaymentsOf
<1> DEFINE S == PaymentsOf(rows, d)
           f == [q \in Pid |-> rows[q].amount]
           g == [q \in Pid |-> after[q].amount]
<1>4. SumFunctionOnSet(g, S) = SumFunctionOnSet(f, S)
  <2> HIDE DEF f, g, S
  <2>1. \A x \in S : g[x] = f[x]
    BY <1>2 DEF f, g, S
  <2> QED BY <1>3, <2>1, SumSame DEF S
<1> QED
  BY <1>1, <1>4 DEF TotalOf

LEMMA TotalInsert ==
  ASSUME NEW rows \in [Pid -> PaymentRow \cup {NoPayment, Removed}], NEW p \in Pid, NEW d, rows[p].of # d, NEW r, r.of = d, r.amount \in Int
  PROVE  TotalOf([rows EXCEPT ![p] = r], d) = TotalOf(rows, d) + r.amount
<1> DEFINE after == [rows EXCEPT ![p] = r]
           S     == PaymentsOf(rows, d)
           f     == [q \in Pid |-> rows[q].amount]
           g     == [q \in Pid |-> after[q].amount]
<1>1. PaymentsOf(after, d) = S \cup {p} /\ p \notin S
  BY DEF PaymentsOf
<1>2. IsFiniteSet(S) /\ \A x \in S : f[x] = g[x] /\ f[x] \in Int
  BY PidFinite, RowTypes, <1>1 DEF PaymentsOf
<1>3. g[p] = r.amount
  OBVIOUS
<1>4. SumFunctionOnSet(g, S) = SumFunctionOnSet(f, S) /\ SumFunctionOnSet(f, S) \in Int
  <2> HIDE DEF f, g, S
  <2> QED BY <1>2, SumSame, SumIn
<1>5. SumFunctionOnSet(g, S \cup {p}) = g[p] + SumFunctionOnSet(g, S)
  <2> HIDE DEF f, g, S
  <2> QED BY <1>1, <1>2, <1>3, SumAdd
<1>6. TotalOf(after, d) = SumFunctionOnSet(g, S \cup {p}) /\ TotalOf(rows, d) = SumFunctionOnSet(f, S)
  BY <1>1 DEF TotalOf
<1> HIDE DEF after, f, g, S
<1>7. TotalOf(after, d) = TotalOf(rows, d) + r.amount
  BY <1>3, <1>4, <1>5, <1>6
<1> QED
  BY <1>7 DEF after

LEMMA TotalRemove ==
  ASSUME NEW rows \in [Pid -> PaymentRow \cup {NoPayment, Removed}], NEW p \in Pid, NEW d, rows[p].of = d, NEW r, r.of # d
  PROVE  TotalOf([rows EXCEPT ![p] = r], d) = TotalOf(rows, d) - rows[p].amount
<1> DEFINE after == [rows EXCEPT ![p] = r]
           S     == PaymentsOf(rows, d)
           f     == [q \in Pid |-> rows[q].amount]
           g     == [q \in Pid |-> after[q].amount]
<1>1. PaymentsOf(after, d) = S \ {p} /\ p \in S
  BY DEF PaymentsOf
<1>2. IsFiniteSet(S) /\ IsFiniteSet(S \ {p}) /\ (\A x \in S : f[x] \in Int) /\ \A x \in S \ {p} : f[x] = g[x]
  BY PidFinite, RowTypes, <1>1 DEF PaymentsOf
<1>3. f[p] = rows[p].amount
  OBVIOUS
<1>4. SumFunctionOnSet(g, S \ {p}) = SumFunctionOnSet(f, S \ {p}) /\ SumFunctionOnSet(f, S \ {p}) \in Int
  <2> HIDE DEF f, g, S
  <2> QED BY <1>2, SumSame, SumIn
<1>5. SumFunctionOnSet(f, S) = f[p] + SumFunctionOnSet(f, S \ {p})
  <2> HIDE DEF f, g, S
  <2> QED BY <1>1, <1>2, SumRemove
<1>6. TotalOf(after, d) = SumFunctionOnSet(g, S \ {p}) /\ TotalOf(rows, d) = SumFunctionOnSet(f, S) /\ f[p] \in Int
  BY <1>1, <1>2 DEF TotalOf
<1> HIDE DEF after, f, g, S
<1>7. TotalOf(after, d) = TotalOf(rows, d) - rows[p].amount
  BY <1>3, <1>4, <1>5, <1>6
<1> QED
  BY <1>7 DEF after

\* Collections of one sign add up to that sign.
LEMMA TotalSign ==
  ASSUME NEW rows \in [Pid -> PaymentRow \cup {NoPayment, Removed}], NEW d, NEW s \in {1, -1},
         \A p \in PaymentsOf(rows, d) : s * rows[p].amount >= 0
  PROVE  s * TotalOf(rows, d) >= 0
<1> DEFINE K == {n \in Int : s * n >= 0}
           f == [q \in Pid |-> rows[q].amount]
<1>1. 0 \in K /\ \A a, b \in K : a + b \in K
  <2>1. CASE s = 1
    BY <2>1
  <2>2. CASE s = -1
    BY <2>2
  <2> QED BY <2>1, <2>2
<1>2. IsFiniteSet(PaymentsOf(rows, d)) /\ \A x \in PaymentsOf(rows, d) : f[x] \in K
  BY PidFinite, RowTypes DEF PaymentsOf
<1>3. SumFunctionOnSet(f, PaymentsOf(rows, d)) \in K
  <2> HIDE DEF f, K
  <2> QED BY <1>1, <1>2, SumWithin
<1> QED
  BY <1>3 DEF TotalOf

LEMMA Signs ==
  /\ \A d : Sign(d) \in {1, -1}
  /\ \A s \in {1, -1} : \A x, y \in Int : s * x \in Int /\ s * (x + y) = s * x + s * y /\ s * (x - y) = s * x - s * y
<1>1. \A d : Sign(d) \in {1, -1}
  BY DEF Sign
<1>2. ASSUME NEW s \in {1, -1}, NEW x \in Int, NEW y \in Int
      PROVE  s * x \in Int /\ s * (x + y) = s * x + s * y /\ s * (x - y) = s * x - s * y
  <2>1. CASE s = 1
    BY <2>1
  <2>2. CASE s = -1
    BY <2>2
  <2> QED BY <2>1, <2>2
<1> QED
  BY <1>1, <1>2

\* A request that begins, sums or ends, with the lock it takes or gives up, moves no row.
LEMMA ClerkMoves ==
  ASSUME CollectionsInv, UNCHANGED <<document, payment, history>>, NEW c \in Clerks, NEW v \in ClerkState,
         clerk' = [clerk EXCEPT ![c] = v], collecting' \in [Documents -> Clerks \cup {NoClerk}],
         \A o \in Clerks \ {c}, d \in Documents : collecting[d] = o => collecting'[d] = o,
         v.pc \in {"create", "summed"} => v.total = document[v.of].total \/ v.of \in history.corrected,
         v.pc = "summed" => v.of \in Documents /\ collecting'[v.of] = c /\ v.recorded = SumOf(v.of)
  PROVE  CollectionsInv'
<1>1. clerk' \in [Clerks -> ClerkState] /\ clerk'[c] = v /\ \A o \in Clerks \ {c} : clerk'[o] = clerk[o]
  BY CollectionsTyped DEF CollectionsInv
<1>2. CollectionsTypeOK'
  BY <1>1, CollectionsTyped DEF CollectionsInv, CollectionsTypeOK, ClerkState, PaymentRow
<1>3. \A d : SumOf(d)' = SumOf(d) /\ Sign(d)' = Sign(d) /\ Collected(d)' = Collected(d) /\ SumOf(d) \in Int
  BY SumOfIs, TotalInt, CollectionsTyped DEF Sign, Collected, CollectionsInv
<1>4. DraftsCorrected' /\ NoneBack' /\ CollectedWithinTotal'
  BY <1>3 DEF CollectionsInv, DraftsCorrected, NoneBack, CollectedWithinTotal
<1>5. ClerkOK(c, clerk[c])'
  <2>1. v.pc = "summed" => Sign(v.of) * SumOf(v.of) <= Sign(v.of) * v.recorded
    BY <1>3, Signs
  <2> QED BY <1>1, <1>3, <2>1 DEF ClerkOK
<1>6. ASSUME NEW o \in Clerks \ {c} PROVE ClerkOK(o, clerk[o])'
  <2>1. ClerkOK(o, clerk[o]) /\ clerk'[o] = clerk[o] /\ (clerk[o].pc = "summed" => clerk[o].of \in Documents)
    BY <1>1, ClerkTypes DEF CollectionsInv
  <2> QED BY <1>3, <2>1 DEF ClerkOK
<1> QED
  BY <1>2, <1>4, <1>5, <1>6 DEF CollectionsInv

LEMMA ClerkSteps ==
  ASSUME CollectionsInv, NEW c \in Clerks,
         \/ \E d \in Documents : CreateRead(c, d)
         \/ \E p \in Pid : RemoveRead(c, p)
         \/ CreateSum(c) \/ CreateEnd(c)
  PROVE  CollectionsInv'
<1>0. collecting \in [Documents -> Clerks \cup {NoClerk}] /\ document \in [Documents -> [type : {"TD01", "TD04"}, status : {"ISSUED", "DRAFT"}, total : Totals]]
  BY CollectionsTyped DEF CollectionsInv
<1>1. ASSUME NEW d \in Documents, CreateRead(c, d) PROVE CollectionsInv'
  <2>1. PICK a \in Amounts : clerk' = [clerk EXCEPT ![c] = [pc |-> "create", of |-> d, amount |-> a, total |-> document[d].total]]
    BY <1>1 DEF CreateRead
  <2> DEFINE v == [pc |-> "create", of |-> d, amount |-> a, total |-> document[d].total]
  <2>2. v \in ClerkState /\ v.pc = "create" /\ v.total = document[v.of].total
    BY <1>0 DEF ClerkState
  <2>3. clerk' = [clerk EXCEPT ![c] = v] /\ UNCHANGED <<document, payment, collecting, history>>
    BY <1>1, <2>1 DEF CreateRead
  <2> HIDE DEF v
  <2> QED BY <1>0, <2>2, <2>3, ClerkMoves
<1>2. ASSUME NEW p \in Pid, RemoveRead(c, p) PROVE CollectionsInv'
  <2> DEFINE v == [pc |-> "remove", id |-> p]
  <2>1. v \in ClerkState /\ v.pc = "remove"
    BY DEF ClerkState
  <2>2. clerk' = [clerk EXCEPT ![c] = v] /\ UNCHANGED <<document, payment, collecting, history>>
    BY <1>2 DEF RemoveRead
  <2> HIDE DEF v
  <2> QED BY <1>0, <2>1, <2>2, ClerkMoves
<1>3. CASE CreateSum(c)
  <2> DEFINE q == clerk[c]
             v == [pc |-> "summed", of |-> q.of, amount |-> q.amount, total |-> q.total, recorded |-> SumOf(q.of)]
  <2>1. q.pc = "create" /\ q.of \in Documents /\ q.amount \in Amounts /\ q.total \in Totals
    BY <1>3, ClerkTypes DEF CreateSum, CollectionsInv
  <2>2. q.of \notin history.corrected => q.total = document[q.of].total
    BY <2>1 DEF CollectionsInv, ClerkOK
  <2>3. SumOf(q.of) \in Int
    BY SumOfIs, TotalInt, CollectionsTyped DEF CollectionsInv
  <2>4. v \in ClerkState
    BY <2>1, <2>3 DEF ClerkState
  <2>5. v.pc = "summed" /\ v.of = q.of /\ v.total = q.total /\ v.recorded = SumOf(v.of)
    OBVIOUS
  <2>6. /\ clerk' = [clerk EXCEPT ![c] = v] /\ collecting' = [collecting EXCEPT ![q.of] = c] /\ collecting[q.of] = NoClerk
        /\ UNCHANGED <<document, payment, history>>
    BY <1>3 DEF CreateSum
  <2> HIDE DEF v, q
  <2>7. collecting' \in [Documents -> Clerks \cup {NoClerk}] /\ collecting'[q.of] = c
    BY <1>0, <2>1, <2>6
  <2>8. \A o \in Clerks \ {c}, d \in Documents : collecting[d] = o => collecting'[d] = o
    BY <1>0, <2>1, <2>6, CollectionsAssumption
  <2> QED BY <2>1, <2>2, <2>4, <2>5, <2>6, <2>7, <2>8, ClerkMoves
<1>4. CASE CreateEnd(c)
  <2>1. IdleClerk \in ClerkState /\ IdleClerk.pc = "idle"
    BY DEF ClerkState, IdleClerk
  <2>2. /\ clerk' = [clerk EXCEPT ![c] = IdleClerk] /\ UNCHANGED <<document, payment, history>>
        /\ collecting' = [d \in Documents |-> IF collecting[d] = c THEN NoClerk ELSE collecting[d]]
    BY <1>4 DEF CreateEnd, EndClerk, Unlock
  <2>3. /\ collecting' \in [Documents -> Clerks \cup {NoClerk}]
        /\ \A o \in Clerks \ {c}, d \in Documents : collecting[d] = o => collecting'[d] = o
    BY <1>0, <2>2
  <2> QED BY <2>1, <2>2, <2>3, ClerkMoves
<1> QED
  BY <1>1, <1>2, <1>3, <1>4

\* A document that was reopened is known as corrected from then on.
LEMMA DocumentSteps ==
  ASSUME CollectionsInv, \E d \in Documents : Reopened(d) \/ IssuedAgain(d)
  PROVE  CollectionsInv'
<1>1. PICK d \in Documents : Reopened(d) \/ IssuedAgain(d)
  OBVIOUS
<1> DEFINE DocRow == [type : {"TD01", "TD04"}, status : {"ISSUED", "DRAFT"}, total : Totals]
           Hist   == [corrected : SUBSET Documents, givenBack : SUBSET Documents, removed : SUBSET Documents]
<1>2. document \in [Documents -> DocRow] /\ history \in Hist
  BY CollectionsTyped DEF CollectionsInv
<1>3. /\ document' \in [Documents -> DocRow] /\ \A e \in Documents \ {d} : document'[e] = document[e]
      /\ \A e \in Documents : document'[e].type = document[e].type
  BY <1>1, <1>2 DEF Reopened, IssuedAgain
<1>4. /\ history' \in Hist /\ d \in history'.corrected /\ history.corrected \subseteq history'.corrected
      /\ history'.givenBack = history.givenBack /\ history'.removed = history.removed
  BY <1>1, <1>2 DEF Reopened, IssuedAgain, CollectionsInv, DraftsCorrected
<1>5. UNCHANGED <<payment, clerk, collecting>>
  BY <1>1 DEF Reopened, IssuedAgain
<1>6. CollectionsTypeOK'
  BY <1>3, <1>4, <1>5, CollectionsTyped DEF CollectionsInv, CollectionsTypeOK
<1> HIDE DEF DocRow, Hist
<1>7. (\A e : SumOf(e)' = SumOf(e)) /\ \A e \in Documents : Sign(e)' = Sign(e) /\ Collected(e)' = Collected(e)
  BY <1>3, <1>5, SumOfIs DEF Sign, Collected
<1>8. DraftsCorrected'
  BY <1>3, <1>4 DEF CollectionsInv, DraftsCorrected
<1>9. NoneBack'
  BY <1>4, <1>5, <1>7 DEF CollectionsInv, NoneBack
<1>10. CollectedWithinTotal'
  <2> SUFFICES ASSUME NEW e \in Documents, e \notin history'.corrected, e \notin history.removed \/ e \notin history.givenBack
               PROVE  Collected(e)' \in 0..document'[e].total
    BY <1>4 DEF CollectedWithinTotal
  <2>1. e # d /\ e \notin history.corrected
    BY <1>4
  <2> QED BY <1>3, <1>7, <2>1 DEF CollectionsInv, CollectedWithinTotal
<1>11. ASSUME NEW c \in Clerks PROVE ClerkOK(c, clerk[c])'
  <2>1. clerk'[c] = clerk[c] /\ ClerkOK(c, clerk[c]) /\ (clerk[c].pc \in {"create", "summed"} => clerk[c].of \in Documents)
    BY <1>5, ClerkTypes DEF CollectionsInv
  <2>2. clerk[c].of \notin history'.corrected => clerk[c].of # d /\ clerk[c].of \notin history.corrected
    BY <1>4
  <2> QED BY <1>3, <1>4, <1>5, <1>7, <2>1, <2>2 DEF ClerkOK
<1> QED
  BY <1>6, <1>8, <1>9, <1>10, <1>11 DEF CollectionsInv

LEMMA InsertStep ==
  ASSUME CollectionsInv, NEW c \in Clerks, CreateInsert(c)
  PROVE  CollectionsInv'
<1>0. clerk[c].pc = "summed" /\ clerk[c].of \in Documents /\ clerk[c].amount \in Amounts /\ clerk[c].total \in Totals /\ clerk[c].recorded \in Int
  BY ClerkTypes DEF CreateInsert, CollectionsInv
<1> PICK d \in Documents : d = clerk[c].of
  BY <1>0
<1> PICK a \in Amounts : a = clerk[c].amount
  BY <1>0
<1> PICK t \in Totals : t = clerk[c].total
  BY <1>0
<1> PICK n \in Int : n = clerk[c].recorded
  BY <1>0
<1> PICK s \in {1, -1} : s = Sign(d)
  BY Signs
<1> DEFINE row == [of |-> d, amount |-> a]
<1>1. PICK p \in Pid : payment[p] = NoPayment /\ payment' = [payment EXCEPT ![p] = row]
  BY DEF CreateInsert
<1>2. a \in Int /\ t \in Nat /\ s * n + s * a \in 0..t
  BY CollectionsAssumption DEF CreateInsert, checkCollectable
<1>3. /\ collecting[d] = c /\ (d \notin history.corrected => t = document[d].total)
      /\ (d \notin history.removed => n = SumOf(d))
      /\ (d \notin history.givenBack => s * SumOf(d) <= s * n)
  BY <1>0 DEF CollectionsInv, ClerkOK
<1>4. /\ history' = IF s * a < 0 THEN [history EXCEPT !.givenBack = @ \cup {d}] ELSE history
      /\ clerk' = [clerk EXCEPT ![c] = IdleClerk] /\ document' = document
      /\ collecting' = [e \in Documents |-> IF collecting[e] = c THEN NoClerk ELSE collecting[e]]
  BY DEF CreateInsert, EndClerk, Unlock
<1>5. row \in PaymentRow /\ row.of = d /\ row.amount = a
  BY DEF PaymentRow
<1> HIDE DEF row
<1> DEFINE Rows == PaymentRow \cup {NoPayment, Removed}
           Hist == [corrected : SUBSET Documents, givenBack : SUBSET Documents, removed : SUBSET Documents]
<1>6. payment \in [Pid -> Rows] /\ payment' \in [Pid -> Rows] /\ payment[p].of \notin Documents
  <2>1. NoPayment.of \notin Documents
    BY CollectionsAssumption DEF NoPayment
  <2> QED BY <1>1, <1>5, <2>1, CollectionsTyped DEF CollectionsInv
<1>7. /\ history' \in Hist /\ history'.corrected = history.corrected /\ history'.removed = history.removed
      /\ history'.givenBack = IF s * a < 0 THEN history.givenBack \cup {d} ELSE history.givenBack
  <2>1. history \in Hist
    BY CollectionsTyped DEF CollectionsInv
  <2> QED BY <1>2, <1>4, <2>1
<1>8. clerk' \in [Clerks -> ClerkState] /\ clerk'[c] = IdleClerk /\ \A o \in Clerks \ {c} : clerk'[o] = clerk[o]
  BY <1>4, CollectionsTyped DEF CollectionsInv, ClerkState
<1>9. collecting' \in [Documents -> Clerks \cup {NoClerk}]
  BY <1>4, CollectionsTyped DEF CollectionsInv
<1>10. CollectionsTypeOK'
  BY <1>4, <1>6, <1>7, <1>8, <1>9, CollectionsTyped DEF CollectionsInv, CollectionsTypeOK, PaymentRow, ClerkState
<1> HIDE DEF Rows, Hist
<1>11. SumOf(d)' = SumOf(d) + a /\ SumOf(d) \in Int
  <2>1. payment[p].of # d /\ payment \in [Pid -> PaymentRow \cup {NoPayment, Removed}] /\ row.of = d /\ row.amount \in Int
    BY <1>2, <1>5, <1>6 DEF Rows
  <2>2. TotalOf([payment EXCEPT ![p] = row], d) = TotalOf(payment, d) + row.amount
    <3> PICK r \in PaymentRow : r = row
      BY <1>5
    <3>1. r.of = d /\ r.amount \in Int
      BY <2>1
    <3>2. TotalOf([payment EXCEPT ![p] = r], d) = TotalOf(payment, d) + r.amount
      BY <2>1, <3>1, TotalInsert, ZenonT(120)
    <3> QED BY <3>2
  <2>3. TotalOf(payment, d) \in Int
    BY <2>1, TotalInt
  <2>4. TotalOf(payment', d) = TotalOf(payment, d) + a /\ TotalOf(payment, d) \in Int
    BY <1>1, <1>5, <2>2, <2>3
  <2> QED BY <2>4, SumOfIs
<1>12. \A e \in Documents \ {d} : SumOf(e)' = SumOf(e)
  <2> SUFFICES ASSUME NEW e \in Documents \ {d} PROVE SumOf(e)' = SumOf(e)
    OBVIOUS
  <2>1. payment[p].of # e /\ row.of # e /\ payment = [x \in Pid |-> payment[x]]
    BY <1>5, <1>6
  <2>2. TotalOf([payment EXCEPT ![p] = row], e) = TotalOf(payment, e)
    BY <2>1, TotalOther
  <2> QED BY <1>1, <2>2, SumOfIs
<1>13. \A e : Sign(e)' = Sign(e)
  BY <1>4 DEF Sign
<1>14. s \in {1, -1} /\ s * a \in Int /\ s * n \in Int /\ s * SumOf(d) \in Int /\ s * (SumOf(d) + a) = s * SumOf(d) + s * a
  BY <1>2, <1>11, Signs
<1>15. DraftsCorrected'
  BY <1>4, <1>7 DEF CollectionsInv, DraftsCorrected
<1>16. NoneBack'
  <2> SUFFICES ASSUME NEW x \in Pid, payment'[x].of \in Documents, payment'[x].of \notin history'.givenBack
               PROVE  Sign(payment'[x].of) * payment'[x].amount >= 0
    BY <1>13 DEF NoneBack
  <2>1. CASE x = p
    <3>1. payment'[x] = row
      BY <1>1, <1>6, <2>1 DEF Rows
    <3> QED BY <1>5, <1>7, <1>14, <3>1
  <2>2. CASE x # p
    <3>1. payment'[x] = payment[x]
      BY <1>1, <1>6, <2>2
    <3> QED BY <1>7, <3>1 DEF CollectionsInv, NoneBack
  <2> QED BY <2>1, <2>2
<1>17. CollectedWithinTotal'
  <2> SUFFICES ASSUME NEW e \in Documents, e \notin history.corrected, e \notin history.removed \/ e \notin history'.givenBack
               PROVE  Sign(e) * SumOf(e)' \in 0..document[e].total
    BY <1>4, <1>7, <1>13 DEF CollectedWithinTotal, Collected
  <2>1. e \notin history.removed \/ e \notin history.givenBack
    BY <1>7
  <2>2. Sign(e) * SumOf(e) \in 0..document[e].total
    BY <2>1 DEF CollectionsInv, CollectedWithinTotal, Collected
  <2>3. CASE e # d
    BY <1>12, <2>2, <2>3
  <2>4. CASE e = d /\ d \notin history.removed
    <3>1. s * SumOf(d)' = s * n + s * a /\ t = document[d].total
      BY <1>3, <1>11, <1>14, <2>4
    <3> QED BY <1>2, <2>4, <3>1
  <2>5. CASE e = d /\ d \notin history'.givenBack
    <3>1. s * a >= 0 /\ d \notin history.givenBack
      BY <1>2, <1>7, <1>14, <2>5
    <3>2. s * SumOf(d)' = s * SumOf(d) + s * a /\ s * SumOf(d) <= s * n /\ t = document[d].total /\ s * SumOf(d) \in 0..t
      BY <1>3, <1>11, <1>14, <2>2, <2>5, <3>1
    <3>3. s * SumOf(d)' \in 0..t
      BY <1>2, <1>14, <3>1, <3>2
    <3> QED BY <2>5, <3>2, <3>3
  <2> QED BY <2>3, <2>4, <2>5
<1>18. ASSUME NEW o \in Clerks PROVE ClerkOK(o, clerk[o])'
  <2>1. CASE o = c
    BY <1>8, <2>1 DEF ClerkOK, IdleClerk
  <2>2. CASE o # c
    <3>1. clerk'[o] = clerk[o] /\ ClerkOK(o, clerk[o]) /\ (clerk[o].pc = "summed" => clerk[o].of \in Documents)
      BY <1>8, <2>2, ClerkTypes DEF CollectionsInv
    <3>2. clerk[o].pc = "summed" => collecting[clerk[o].of] = o /\ clerk[o].of # d
      BY <1>3, <2>2, <3>1 DEF ClerkOK
    <3>3. clerk[o].pc = "summed" => collecting'[clerk[o].of] = o /\ SumOf(clerk[o].of)' = SumOf(clerk[o].of)
      BY <1>4, <1>12, <2>2, <3>1, <3>2
    <3>4. clerk[o].of \notin history'.givenBack => clerk[o].of \notin history.givenBack
      BY <1>7
    <3> QED BY <1>4, <1>7, <1>13, <3>1, <3>3, <3>4 DEF ClerkOK
  <2> QED BY <2>1, <2>2
<1> QED
  BY <1>10, <1>15, <1>16, <1>17, <1>18 DEF CollectionsInv

LEMMA RemovalStep ==
  ASSUME CollectionsInv, NEW c \in Clerks, RemoveWrite(c)
  PROVE  CollectionsInv'
<1> PICK p \in Pid : clerk[c].pc = "remove" /\ p = clerk[c].id
  BY ClerkTypes DEF CollectionsInv, RemoveWrite
<1>1. clerk' = [clerk EXCEPT ![c] = IdleClerk] /\ UNCHANGED <<document, collecting>>
  BY DEF RemoveWrite, EndClerk
<1>2. IF Recorded(p) THEN /\ payment' = [payment EXCEPT ![p] = Removed]
                          /\ history' = [history EXCEPT !.removed = @ \cup {payment[p].of}]
                     ELSE UNCHANGED <<payment, history>>
  BY DEF RemoveWrite
<1>3. IdleClerk \in ClerkState /\ IdleClerk.pc = "idle" /\ collecting \in [Documents -> Clerks \cup {NoClerk}]
  BY CollectionsTyped DEF ClerkState, IdleClerk, CollectionsInv
<1>4. CASE ~ Recorded(p)
  BY <1>1, <1>2, <1>3, <1>4, ClerkMoves
<1>5. CASE Recorded(p)
  <2> PICK d \in Documents : d = payment[p].of
    BY <1>5 DEF Recorded
  <2> PICK s \in {1, -1} : s = Sign(d)
    BY Signs
  <2> DEFINE Rows == PaymentRow \cup {NoPayment, Removed}
             Hist == [corrected : SUBSET Documents, givenBack : SUBSET Documents, removed : SUBSET Documents]
  <2>1. payment \in [Pid -> Rows] /\ history \in Hist
    BY CollectionsTyped DEF CollectionsInv
  <2> PICK a \in Int : a = payment[p].amount
    BY <2>1, RowTypes
  <2>2. payment' = [payment EXCEPT ![p] = Removed] /\ history' = [history EXCEPT !.removed = @ \cup {d}]
    BY <1>2, <1>5
  <2>3. payment' \in [Pid -> Rows] /\ \A x \in Pid : payment'[x].of \in Documents => payment'[x] = payment[x]
    <3>1. Removed.of \notin Documents
      BY CollectionsAssumption DEF Removed
    <3> QED BY <1>1, <2>1, <2>2, <3>1
  <2>4. /\ history' \in Hist /\ history'.corrected = history.corrected /\ history'.givenBack = history.givenBack
        /\ history'.removed = history.removed \cup {d}
    BY <2>1, <2>2
  <2>5. clerk' \in [Clerks -> ClerkState] /\ clerk'[c] = IdleClerk /\ \A o \in Clerks \ {c} : clerk'[o] = clerk[o]
    BY <1>1, CollectionsTyped DEF CollectionsInv, ClerkState
  <2>6. CollectionsTypeOK'
    BY <1>1, <2>3, <2>4, <2>5, CollectionsTyped DEF CollectionsInv, CollectionsTypeOK, PaymentRow, ClerkState
  <2> HIDE DEF Hist
  <2>8. SumOf(d)' = SumOf(d) - a /\ SumOf(d) \in Int
    <3>1. Removed.of # d
      BY <2>1, CollectionsAssumption DEF Removed
    <3>2. TotalOf(payment', d) = TotalOf(payment, d) - a /\ TotalOf(payment, d) \in Int
      BY <1>1, <2>1, <2>2, <3>1, TotalRemove, TotalInt
    <3> QED BY <3>2, SumOfIs
  <2>9. \A e \in Documents \ {d} : SumOf(e)' = SumOf(e)
    <3> SUFFICES ASSUME NEW e \in Documents \ {d} PROVE SumOf(e)' = SumOf(e)
      OBVIOUS
    <3>1. Removed.of # e
      BY CollectionsAssumption DEF Removed
    <3>2. payment[p].of # e /\ payment = [x \in Pid |-> payment[x]]
      BY <2>1
    <3>3. TotalOf([payment EXCEPT ![p] = Removed], e) = TotalOf(payment, e)
      BY <3>1, <3>2, TotalOther
    <3> QED BY <2>2, <3>3, SumOfIs
  <2>10. \A e : Sign(e)' = Sign(e)
    BY <1>1 DEF Sign
  <2>11. s \in {1, -1} /\ s * a \in Int /\ s * SumOf(d) \in Int /\ s * (SumOf(d) - a) = s * SumOf(d) - s * a
    BY <2>8, Signs
  <2>12. d \notin history.givenBack => s * a >= 0
    BY <1>1, <2>1 DEF CollectionsInv, NoneBack
  <2>13. DraftsCorrected' /\ NoneBack'
    BY <1>1, <2>3, <2>4, <2>10 DEF CollectionsInv, DraftsCorrected, NoneBack
  <2>14. CollectedWithinTotal'
    <3> SUFFICES ASSUME NEW e \in Documents, e \notin history.corrected, e \notin history'.removed \/ e \notin history.givenBack
                 PROVE  Sign(e) * SumOf(e)' \in 0..document[e].total
      BY <1>1, <2>4, <2>10 DEF CollectedWithinTotal, Collected
    <3>1. Sign(e) * SumOf(e) \in 0..document[e].total
      BY <2>4 DEF CollectionsInv, CollectedWithinTotal, Collected
    <3>2. CASE e # d
      BY <2>9, <3>1, <3>2
    <3>3. CASE e = d
      <4>1. d \notin history.givenBack
        BY <2>4, <3>3
      <4>2. \A x \in PaymentsOf(payment', d) : s * payment'[x].amount >= 0
        BY <2>1, <2>3, <4>1 DEF PaymentsOf, CollectionsInv, NoneBack
      <4>3. s * TotalOf(payment', d) >= 0
        BY <2>3, <2>11, <4>2, TotalSign
      <4>4. s * SumOf(d)' >= 0 /\ s * SumOf(d)' = s * SumOf(d) - s * a /\ s * a >= 0
        BY <2>8, <2>11, <2>12, <4>1, <4>3, SumOfIs
      <4> HIDE <4>3
      <4>5. document[e].total \in Int
        BY TotalTypes DEF CollectionsInv
      <4> QED BY <2>11, <3>1, <3>3, <4>4, <4>5
    <3> QED BY <3>2, <3>3
  <2>15. ASSUME NEW o \in Clerks PROVE ClerkOK(o, clerk[o])'
    <3>1. CASE o = c
      BY <2>5, <3>1 DEF ClerkOK, IdleClerk
    <3>2. CASE o # c
      <4> PICK q \in ClerkState : q = clerk[o]
        BY CollectionsTyped DEF CollectionsInv
      <4>1. clerk'[o] = q /\ ClerkOK(o, q) /\ (q.pc = "summed" => q.of \in Documents)
        BY <2>5, <3>2, ClerkTypes DEF CollectionsInv
      <4>2. CASE q.of = d
        <5>1. q.pc = "summed" /\ d \notin history.givenBack => s * SumOf(d)' <= s * q.recorded
          <6> SUFFICES ASSUME q.pc = "summed", d \notin history.givenBack PROVE s * SumOf(d)' <= s * q.recorded
            OBVIOUS
          <6>1. s * SumOf(d) <= s * q.recorded /\ q.recorded \in Int
            BY <3>2, <4>1, <4>2, ClerkTypes DEF ClerkOK, CollectionsInv
          <6>2. s * q.recorded \in Int
            BY <2>11, <6>1, Signs
          <6> QED BY <2>8, <2>11, <2>12, <6>1, <6>2
        <5> QED BY <1>1, <2>4, <2>10, <4>1, <4>2, <5>1 DEF ClerkOK
      <4>3. CASE q.of # d
        <5>1. q.pc = "summed" => SumOf(q.of)' = SumOf(q.of)
          BY <2>9, <4>1, <4>3
        <5> QED BY <1>1, <2>4, <2>10, <4>1, <4>3, <5>1 DEF ClerkOK
      <4> QED BY <4>2, <4>3
    <3> QED BY <3>1, <3>2
  <2> QED BY <2>6, <2>13, <2>14, <2>15 DEF CollectionsInv
<1> QED
  BY <1>4, <1>5

LEMMA CollectionsStart == CollectionsInit => CollectionsInv
<1> SUFFICES ASSUME CollectionsInit PROVE CollectionsInv
  OBVIOUS
<1>1. CollectionsTypeOK
  BY CollectionsTyped DEF CollectionsInit, ClerkState
<1>2. NoPayment.of \notin Documents /\ IdleClerk.pc = "idle"
  BY CollectionsAssumption DEF NoPayment, IdleClerk
<1>3. DraftsCorrected /\ NoneBack /\ \A c \in Clerks : ClerkOK(c, clerk[c])
  BY <1>2 DEF CollectionsInit, DraftsCorrected, NoneBack, ClerkOK
<1>4. CollectedWithinTotal
  <2> SUFFICES ASSUME NEW d \in Documents PROVE Collected(d) \in 0..document[d].total
    BY DEF CollectedWithinTotal
  <2>1. PaymentsOf(payment, d) = {}
    BY <1>2 DEF PaymentsOf, CollectionsInit
  <2>2. SumOf(d) = 0
    BY <2>1, SumOfIs, SumEmpty DEF TotalOf
  <2>3. document[d].total \in Nat
    BY <1>1, CollectionsTyped, CollectionsAssumption
  <2>4. Sign(d) * 0 = 0
    BY DEF Sign
  <2> QED BY <2>2, <2>3, <2>4 DEF Collected
<1> QED
  BY <1>1, <1>3, <1>4 DEF CollectionsInv

LEMMA CollectionsStep ==
  ASSUME CollectionsInv, [CollectionsNext]_collectionVars
  PROVE  CollectionsInv'
<1>1. CASE UNCHANGED collectionVars
  BY <1>1 DEF collectionVars, CollectionsInv, CollectionsTypeOK, DraftsCorrected, NoneBack, CollectedWithinTotal, Collected, ClerkOK, Sign, SumOf
<1>2. ASSUME NEW c \in Clerks,
             \/ \E d \in Documents : CreateRead(c, d)
             \/ \E p \in Pid : RemoveRead(c, p)
             \/ CreateSum(c) \/ CreateEnd(c)
      PROVE  CollectionsInv'
  BY <1>2, ClerkSteps
<1>3. ASSUME NEW c \in Clerks, CreateInsert(c) \/ RemoveWrite(c) PROVE CollectionsInv'
  BY <1>3, InsertStep, RemovalStep
<1>4. CASE \E d \in Documents : Reopened(d) \/ IssuedAgain(d)
  BY <1>4, DocumentSteps
<1> QED
  BY <1>1, <1>2, <1>3, <1>4 DEF CollectionsNext

\* A document is not collected beyond its total, nor a credit note refunded beyond its own, however the requests overlap
\* (create, remove), for any documents, totals, amounts and number of requests.
THEOREM WithinTotal == CollectionsSpec => []CollectedWithinTotal
<1>1. CollectionsInv => CollectedWithinTotal
  BY DEF CollectionsInv
<1> QED
  BY <1>1, CollectionsStart, CollectionsStep, PTL DEF CollectionsSpec

-----------------------------------------------------------------------------
(* The parts together *)
AnyPart == {"collections", "forms", "rates", "rules"}
DeskInv == CollectionsInv /\ FormsTypeOK /\ RatesInv /\ tie \in {0, 1} /\ part \in AnyPart

LEMMA DeskStep ==
  ASSUME DeskInv, [DeskNext]_deskVars
  PROVE  DeskInv'
<1>1. part' = part /\ (tie' = tie \/ AskRules)
  BY DEF DeskNext, deskVars, ruleVars
<1>2. tie' \in {0, 1}
  BY <1>1 DEF DeskInv, AskRules
<1>3. [CollectionsNext]_collectionVars /\ [FormsNext]_formVars /\ [RatesNext]_rateVars
  BY DEF DeskNext, deskVars
<1> QED
  <2>1. CollectionsInv' /\ FormsTypeOK'
    BY <1>3, CollectionsStep, FormsStep DEF DeskInv
  <2>2. RatesInv'
    BY <1>3, RatesStep DEF DeskInv
  <2> QED BY <1>1, <1>2, <2>1, <2>2 DEF DeskInv

\* Whatever part moves, its rows and requests are well typed: every id a request read and every sum it decides on.
THEOREM DeskTypes == DeskSpec => []DeskTypeOK
<1>1. DeskInit => DeskInv
  <2>1. DeskInit => tie \in {0, 1} /\ part \in AnyPart
    BY DEF DeskInit, RulesInit, AnyPart
  <2> QED BY <2>1, CollectionsStart, FormsStart, RatesStart DEF DeskInit, DeskInv, QuarterInv
<1>2. DeskInv => DeskTypeOK
  <2>1. DeskInv => CollectionsTypeOK /\ FormsTypeOK /\ RatesTypeOK /\ tie \in {0, 1} /\ part \in AnyPart
    BY DEF DeskInv, CollectionsInv, RatesInv
  <2> QED BY <2>1 DEF DeskTypeOK, AnyPart
<1> QED
  BY <1>1, <1>2, DeskStep, PTL DEF DeskSpec

-----------------------------------------------------------------------------
(***************************************************************************)
(* The amounts of an invoice, for any lines, terms and rate of a fund.     *)
(***************************************************************************)
LEMMA AddUpIs == \A a : AddUp(a) = SumFunctionOnSet(a, DOMAIN a)
  BY DEF AddUp, MapThenSumSet, SumFunctionOnSet, FoldFunctionOnSet

\* Rounding to whole cents keeps the sign.
LEMMA RoundTypes ==
  ASSUME tie \in {0, 1}, NEW n \in Int
  PROVE  Round(n, 100) \in Int /\ (n >= 0 => Round(n, 100) >= 0) /\ (n = 0 => Round(n, 100) = 0)
BY DEF Round

LEMMA RoundProducts ==
  ASSUME tie \in {0, 1}, NEW a \in Nat, NEW b \in Nat
  PROVE  Round(a * b, 100) \in Nat /\ (b = 0 => Round(a * b, 100) = 0)
<1>1. a * b \in Int /\ a * b >= 0 /\ (b = 0 => a * b = 0)
  OBVIOUS
<1> PICK m \in Int : m = a * b
  BY <1>1
<1>2. Round(m, 100) \in Int /\ (m >= 0 => Round(m, 100) >= 0) /\ (m = 0 => Round(m, 100) = 0)
  BY RoundTypes
<1>3. m >= 0 /\ (b = 0 => m = 0)
  BY <1>1
<1>4. Round(m, 100) \in Nat /\ (b = 0 => Round(m, 100) = 0)
  BY <1>2, <1>3
<1> QED
  BY <1>4

\* The installments add up to the total and differ by less than a cent for each of them.
LEMMA InstallmentsAddUp ==
  ASSUME NEW total \in Int, NEW terms \in Nat
  PROVE  LET s == paymentSchedule(total, terms)  n == AtLeast(1, terms)
         IN  /\ AddUp(s) = total /\ n \in Nat \ {0} /\ DOMAIN s = 1..n /\ Len(s) = n
             /\ \A k \in DOMAIN s : s[k] - s[1] \in 0..(n - 1)
<1> DEFINE n == AtLeast(1, terms)
           each == total \div n
           s == [k \in 1..n |-> IF k = n THEN total - each * (n - 1) ELSE each]
<1>1. n \in Nat \ {0}
  BY DEF AtLeast
<1>2. paymentSchedule(total, terms) = s
  BY DEF paymentSchedule
<1> HIDE DEF n
<1>3. each \in Int /\ each * n <= total /\ total <= each * n + n - 1 /\ each * (n - 1) \in Int /\ each * (n - 1) = each * n - each
  <2>1. each \in Int /\ n * each <= total /\ total < n * each + n
    BY <1>1
  <2> HIDE DEF each
  <2>2. \A e \in Int, m \in Nat \ {0} : e * (m - 1) = e * m - e /\ e * m = m * e /\ e * m \in Int
    OBVIOUS
  <2> QED BY <1>1, <2>1, <2>2
<1> HIDE DEF each
<1>4. \A k \in 1..(n - 1) : s[k] = each
  BY <1>1
<1>5. s[n] = total - each * (n - 1)
  BY <1>1
<1>6. DOMAIN s = 1..n
  OBVIOUS
<1>7. Len(s) = n
  <2>1. s \in [1..n -> Int]
    BY <1>1, <1>3
  <2> HIDE DEF s
  <2>2. s \in Seq(Int)
    BY <1>1, <2>1, SeqDef
  <2> QED BY <1>1, <1>6, <2>2, LenProperties
<1>8. \A k \in 1..n : s[k] - s[1] \in 0..(n - 1)
  BY <1>1, <1>3
<1> HIDE DEF s
<1>9. SumFunctionOnSet(s, 1..n) = total
  BY <1>1, <1>3, <1>4, <1>5, SumShares
<1>10. AddUp(s) = total
  BY <1>6, <1>9, AddUpIs
<1> QED
  BY <1>1, <1>2, <1>6, <1>7, <1>8, <1>10 DEF n

LEMMA RowIs ==
  ASSUME NEW d
  PROVE  LET row       == prepare(d)
             surcharge == IF d.surcharge THEN Round(row.taxableAmount * rules.inpsSurcharge, 100) ELSE 0
             fund      == Round(row.taxableAmount * professionalFundOf(d), 100)
             charged   == row.taxableAmount + row.inpsSurcharge + row.professionalFund
         IN  /\ row.lines = [k \in DOMAIN d.lines |-> Round(d.lines[k].quantity * d.lines[k].price, 100)]
             /\ row.taxableAmount = AddUp(row.lines) /\ row.inpsSurcharge = surcharge /\ row.professionalFund = fund
             /\ (IF row.virtualStamp THEN row.stampAmount ELSE 0) = row.stampAmount /\ row.stampAmount = (IF charged > rules.stampThreshold THEN rules.stampAmount ELSE 0)
             /\ row.total = charged + row.stampAmount /\ row.vatNature = customerTreatment(d.kind, d.septies).nature
<1> DEFINE lines   == [k \in DOMAIN d.lines |-> Round(d.lines[k].quantity * d.lines[k].price, 100)]
           sum     == AddUp(lines)
           extra   == IF d.surcharge THEN Round(sum * rules.inpsSurcharge, 100) ELSE 0
           fund    == Round(sum * professionalFundOf(d), 100)
           charged == sum + extra + fund
           stamp   == IF charged > rules.stampThreshold THEN rules.stampAmount ELSE 0
           nature  == customerTreatment(d.kind, d.septies).nature
<1>2. prepare(d) = [lines |-> lines, taxableAmount |-> sum, inpsSurcharge |-> extra, professionalFund |-> fund,
                    virtualStamp |-> charged > rules.stampThreshold, stampAmount |-> stamp, total |-> charged + stamp, vatNature |-> nature]
  BY DEF prepare
<1> HIDE DEF lines, sum, extra, fund, stamp, nature
<1>3. /\ prepare(d).lines = lines /\ prepare(d).taxableAmount = sum /\ prepare(d).inpsSurcharge = extra /\ prepare(d).professionalFund = fund
      /\ prepare(d).vatNature = nature
  BY <1>2
<1>4. prepare(d).virtualStamp = (charged > rules.stampThreshold) /\ prepare(d).stampAmount = stamp /\ prepare(d).total = charged + stamp
  <2> HIDE DEF charged
  <2> QED BY <1>2
<1>8. (IF prepare(d).virtualStamp THEN prepare(d).stampAmount ELSE 0) = prepare(d).stampAmount
  <2>1. CASE charged > rules.stampThreshold
    BY <1>4, <2>1
  <2>2. CASE ~ (charged > rules.stampThreshold)
    BY <1>4, <2>2 DEF stamp
  <2> QED BY <2>1, <2>2
<1>5. charged = prepare(d).taxableAmount + prepare(d).inpsSurcharge + prepare(d).professionalFund
  BY <1>3
<1>6. stamp = IF charged > rules.stampThreshold THEN rules.stampAmount ELSE 0
  BY DEF stamp
<1> HIDE DEF charged
<1>7. /\ lines = [k \in DOMAIN d.lines |-> Round(d.lines[k].quantity * d.lines[k].price, 100)]
      /\ sum = AddUp(lines) /\ nature = customerTreatment(d.kind, d.septies).nature
      /\ extra = (IF d.surcharge THEN Round(sum * rules.inpsSurcharge, 100) ELSE 0) /\ fund = Round(sum * professionalFundOf(d), 100)
  BY DEF lines, sum, extra, fund, nature
<1> QED
  BY <1>3, <1>4, <1>5, <1>6, <1>7, <1>8, Zenon

\* The lines of an invoice add up to whole cents.
LEMMA LinesAddUp ==
  ASSUME tie \in {0, 1}, NEW d, d.lines \in Seq([quantity : Nat, price : Int])
  PROVE  /\ AddUp(prepare(d).lines) \in Int
         /\ (\A k \in DOMAIN d.lines : d.lines[k].price >= 0) => AddUp(prepare(d).lines) >= 0
<1> DEFINE s == [k \in DOMAIN d.lines |-> Round(d.lines[k].quantity * d.lines[k].price, 100)]
<1>1. prepare(d).lines = s
  BY RowIs
<1>2. IsFiniteSet(DOMAIN d.lines) /\ \A k \in DOMAIN d.lines : d.lines[k].quantity \in Nat /\ d.lines[k].price \in Int
  <2>1. Len(d.lines) \in Nat /\ DOMAIN d.lines = 1..Len(d.lines) /\ d.lines \in [1..Len(d.lines) -> [quantity : Nat, price : Int]]
    BY LenProperties
  <2>2. 1 \in Int /\ Len(d.lines) \in Int
    BY <2>1
  <2>3. IsFiniteSet(DOMAIN d.lines)
    BY <2>1, <2>2, FS_Interval
  <2> QED BY <2>1, <2>3
<1>3. \A k \in DOMAIN s : s[k] \in Int
  <2>1. SUFFICES ASSUME NEW k \in DOMAIN d.lines PROVE Round(d.lines[k].quantity * d.lines[k].price, 100) \in Int
    OBVIOUS
  <2>2. d.lines[k].quantity * d.lines[k].price \in Int
    BY <1>2
  <2> QED BY <2>2, RoundTypes
<1>4. ASSUME \A k \in DOMAIN d.lines : d.lines[k].price >= 0 PROVE \A k \in DOMAIN s : s[k] \in Nat
  <2>1. SUFFICES ASSUME NEW k \in DOMAIN d.lines PROVE Round(d.lines[k].quantity * d.lines[k].price, 100) \in Nat
    OBVIOUS
  <2>2. d.lines[k].quantity \in Nat /\ d.lines[k].price \in Nat
    BY <1>2, <1>4
  <2> QED BY <2>2, RoundProducts
<1>5. DOMAIN s = DOMAIN d.lines
  OBVIOUS
<1> HIDE DEF s
<1>6. AddUp(s) = SumFunctionOnSet(s, DOMAIN s)
  BY AddUpIs
<1>7. SumFunctionOnSet(s, DOMAIN s) \in Int
  BY <1>2, <1>3, <1>5, SumIn
<1>8. ASSUME \A k \in DOMAIN d.lines : d.lines[k].price >= 0 PROVE SumFunctionOnSet(s, DOMAIN s) \in Nat
  BY <1>2, <1>4, <1>5, <1>8, SumIn
<1> QED
  BY <1>1, <1>6, <1>7, <1>8

LEMMA Natures ==
  ASSUME NEW kind, NEW septies
  PROVE  LET t == customerTreatment(kind, septies)
         IN  /\ t.nature \in {"N2.1", "N2.2"} /\ (t.reverseCharge => t.nature = "N2.1")
             /\ (t.nature = "N2.1" => t.legalReference # "L. 190/2014")
BY DEF customerTreatment

\* The totals of the document are those of the row, the installments add up to them, the stamp duty is there when it is
\* due, and the annotations fit: for any lines, discounts included, as long as they come to no less than nothing
\* (invoices.service.ts, prepare and toFatturaPa; builder.ts, computeTotals).
THEOREM TotalsAgree ==
  ASSUME tie \in {0, 1}, NEW q,
         q.terms \in Nat, q.draft.lines \in Seq([quantity : Nat, price : Int]), q.draft.fundRate \in Nat, q.draft.surcharge \in BOOLEAN,
         prepare(q.draft).taxableAmount >= 0
  PROVE  InvoiceAddsUpFor(q)
<1> DEFINE d      == q.draft
           row    == prepare(d)
           xml    == toFatturaPa(row, q.kind, d.septies, q.terms)
           totals == computeTotals(xml)
           t      == customerTreatment(q.kind, d.septies)
           L      == row.taxableAmount
           S      == row.inpsSurcharge
           F      == row.professionalFund
<1>1. SUFFICES ASSUME ~ refusesSurcharge(d)
               PROVE  /\ totals.documentTotal = row.total
                      /\ totals.taxable = L + S + F
                      /\ S = 0 \/ F = 0
                      /\ (xml.stampDuty > 0) <=> (totals.taxable > rules.stampThreshold)
                      /\ AddUp(xml.installments) = totals.documentTotal
                      /\ \A k \in DOMAIN xml.installments : xml.installments[k] - xml.installments[1] \in 0..(Len(xml.installments) - 1)
                      /\ (xml.condition = "TP01") <=> (Len(xml.installments) > 1)
                      /\ (xml.legalReference = "L. 190/2014") <=> (xml.vatNature = "N2.2")
                      /\ q.kind = d.kind => (xml.invcont => xml.vatNature = "N2.1")
  BY DEF InvoiceAddsUpFor
<1>0. rules.inpsSurcharge = 4 /\ rules.stampThreshold = 7747 /\ rules.stampAmount = 200
  BY DEF rules
<1>2. L \in Int /\ L >= 0 /\ L = AddUp(row.lines)
  <2>1. L = AddUp(row.lines)
    BY RowIs
  <2>2. AddUp(row.lines) \in Int
    BY LinesAddUp
  <2>3. L >= 0
    OBVIOUS
  <2> QED BY ONLY <2>1, <2>2, <2>3
<1> PICK l \in Nat : l = L
  BY <1>2
<1>3. S \in Nat /\ F \in Nat /\ (S = 0 \/ F = 0)
  <2>1. professionalFundOf(d) \in Nat
    BY DEF professionalFundOf, None
  <2> PICK p \in Nat : p = professionalFundOf(d)
    BY <2>1
  <2> DEFINE extra == Round(l * 4, 100)
             fund  == Round(l * p, 100)
  <2>3. S = (IF d.surcharge THEN extra ELSE 0) /\ F = fund
    <3> HIDE DEF row
    <3>1. S = (IF d.surcharge THEN Round(L * rules.inpsSurcharge, 100) ELSE 0) /\ F = Round(L * professionalFundOf(d), 100)
      BY RowIs DEF row
    <3> QED BY <1>0, <3>1
  <2>4. d.surcharge => p = 0
    BY <1>1 DEF refusesSurcharge, professionalFundOf, None
  <2>5. extra \in Nat /\ fund \in Nat /\ (p = 0 => fund = 0)
    BY RoundProducts
  <2> HIDE DEF extra, fund
  <2> QED BY <2>3, <2>4, <2>5
<1> PICK s \in Nat : s = S
  BY <1>3
<1> PICK f \in Nat : f = F
  BY <1>3
<1> DEFINE charged == l + s + f
           stamp   == IF charged > 7747 THEN 200 ELSE 0
<1>4. row.stampAmount = stamp /\ row.total = charged + stamp /\ (IF row.virtualStamp THEN row.stampAmount ELSE 0) = row.stampAmount
  <2> HIDE DEF row
  <2>1. /\ row.stampAmount = (IF L + S + F > rules.stampThreshold THEN rules.stampAmount ELSE 0)
        /\ row.total = L + S + F + row.stampAmount /\ (IF row.virtualStamp THEN row.stampAmount ELSE 0) = row.stampAmount
    BY RowIs DEF row
  <2>2. S = s /\ F = f /\ L = l
    OBVIOUS
  <2> QED BY <1>0, <2>1, <2>2
<1>19. row.vatNature = customerTreatment(d.kind, d.septies).nature
  BY RowIs
<1>5. /\ xml.lines = row.lines /\ xml.fund = (IF S > 0 THEN S ELSE AtLeast(0, F))
      /\ xml.installments = paymentSchedule(row.total, q.terms) /\ xml.condition = (IF q.terms > 1 THEN "TP01" ELSE "TP02")
  BY DEF toFatturaPa
<1>7. xml.stampDuty = (IF row.virtualStamp THEN row.stampAmount ELSE 0)
  BY DEF toFatturaPa, None
<1>17. xml.vatNature = row.vatNature /\ xml.invcont = t.reverseCharge
  BY DEF toFatturaPa
<1>18. xml.legalReference = (IF row.vatNature # "N2.1" THEN "L. 190/2014" ELSE IF t.nature = "N2.1" THEN t.legalReference ELSE "7-ter")
  BY DEF toFatturaPa
<1>6. totals.taxable = AddUp(xml.lines) + xml.fund /\ totals.documentTotal = AddUp(xml.lines) + xml.fund + xml.stampDuty
  BY DEF computeTotals
<1> HIDE DEF row, xml, totals
<1>8. xml.fund = s + f
  <2>1. xml.fund = IF s > 0 THEN s ELSE AtLeast(0, f)
    BY <1>5
  <2>2. AtLeast(0, f) = f
    BY DEF AtLeast
  <2> QED BY <1>3, <2>1, <2>2
<1> DEFINE whole == charged + stamp
<1>9. xml.stampDuty = stamp /\ row.total = whole /\ AddUp(xml.lines) = l
  BY <1>2, <1>4, <1>5, <1>7
<1>10. totals.taxable = charged /\ totals.documentTotal = whole
  BY <1>6, <1>8, <1>9
<1>11. (stamp > 0) <=> (charged > 7747)
  OBVIOUS
<1>12. whole \in Int /\ charged = L + S + F
  OBVIOUS
<1> HIDE DEF charged, stamp, whole
<1> DEFINE n == AtLeast(1, q.terms)
<1>13. /\ AddUp(xml.installments) = whole /\ n \in Nat \ {0} /\ Len(xml.installments) = n
       /\ \A k \in DOMAIN xml.installments : xml.installments[k] - xml.installments[1] \in 0..(n - 1)
  <2>1. xml.installments = paymentSchedule(whole, q.terms)
    BY <1>5, <1>9
  <2> HIDE DEF n
  <2> QED BY <1>12, <2>1, InstallmentsAddUp DEF n
<1>14. (xml.condition = "TP01") <=> (Len(xml.installments) > 1)
  <2>1. n > 1 <=> q.terms > 1
    BY DEF AtLeast
  <2> QED BY <1>5, <1>13, <2>1
<1>15. /\ (xml.legalReference = "L. 190/2014") <=> (xml.vatNature = "N2.2")
       /\ q.kind = d.kind => (xml.invcont => xml.vatNature = "N2.1")
  <2>1. t.nature \in {"N2.1", "N2.2"} /\ (t.reverseCharge => t.nature = "N2.1") /\ (t.nature = "N2.1" => t.legalReference # "L. 190/2014")
    BY Natures
  <2>2. xml.vatNature \in {"N2.1", "N2.2"}
    BY <1>17, <1>19, Natures
  <2>3. q.kind = d.kind => xml.vatNature = t.nature
    BY <1>17, <1>19
  <2> HIDE DEF t
  <2>4. CASE xml.vatNature = "N2.2"
    BY <1>17, <1>18, <2>1, <2>3, <2>4
  <2>5. CASE xml.vatNature = "N2.1" /\ t.nature = "N2.1"
    <3>1. row.vatNature = "N2.1"
      BY <1>17, <2>5
    <3>2. xml.legalReference = t.legalReference
      BY <1>18, <2>5, <3>1
    <3>3. t.legalReference # "L. 190/2014"
      BY <2>1, <2>5
    <3>4. xml.vatNature # "N2.2"
      BY <2>5
    <3> QED BY <2>5, <3>2, <3>3, <3>4
  <2>6. CASE xml.vatNature = "N2.1" /\ t.nature = "N2.2"
    BY <1>17, <1>18, <2>1, <2>3, <2>6
  <2> QED BY <2>1, <2>2, <2>4, <2>5, <2>6
<1> HIDE DEF n
<1>16. xml.stampDuty > 0 <=> totals.taxable > rules.stampThreshold
  BY <1>0, <1>9, <1>10, <1>11
<1> QED
  BY <1>3, <1>9, <1>10, <1>12, <1>13, <1>14, <1>15, <1>16

-----------------------------------------------------------------------------
(* The questions of the instance *)

Topics == {"deadlines", "schedule", "year", "revenue", "limit", "invoice", "upload"}

\* What is asked of a topic is of that topic, and is asked once.
LEMMA CasesApart ==
  ASSUME NEW t, t.topic \in Topics, NEW x \in Cases(t)
  PROVE  x.topic = t.topic /\ "from" \notin DOMAIN x
<1>1. CASE t.topic = "deadlines"
  <2>1. x \in DeadlineCases
    BY <1>1 DEF Cases
  <2> DEFINE Most == [extended : BOOLEAN, scheme : {"PROFESSIONAL_FUND", "INPS_TRADERS"}, amounts : {Unknown}, intrastat : {TRUE}]
             Some == [extended : {FALSE}, scheme : {"INPS_SEPARATE"}, intrastat : {FALSE}, amounts : AroundDeferral]
  <2>2. DeadlineCases = [topic : {"deadlines"}, year : FirstYear..LastYear, opts : Most] \cup [topic : {"deadlines"}, year : {2026}, opts : Some]
    BY DEF DeadlineCases
  <2> HIDE DEF Most, Some
  <2> QED BY <1>1, <2>1, <2>2
<1>2. CASE t.topic = "schedule"
  <2>1. x \in ScheduleCases(t.from)
    BY <1>2 DEF Cases
  <2> QED BY <1>2, <2>1 DEF ScheduleCases
<1>3. CASE t.topic = "year"
  <2>1. x \in YearCases(t.from)
    BY <1>3 DEF Cases
  <2> QED BY <1>3, <2>1 DEF YearCases
<1>4. CASE t.topic = "revenue"
  <2>1. x \in RevenueCases
    BY <1>4 DEF Cases
  <2> QED BY <1>4, <2>1 DEF RevenueCases
<1>5. CASE t.topic = "limit"
  <2>1. x \in LimitCases
    BY <1>5 DEF Cases
  <2> QED BY <1>5, <2>1 DEF LimitCases
<1>6. CASE t.topic = "invoice"
  <2>1. x \in InvoiceCases
    BY <1>6 DEF Cases
  <2> QED BY <1>6, <2>1 DEF InvoiceCases
<1>7. CASE t.topic = "upload"
  <2>1. x \in UploadCases
    BY <1>7 DEF Cases
  <2> QED BY <1>7, <2>1 DEF UploadCases
<1> QED
  BY <1>1, <1>2, <1>3, <1>4, <1>5, <1>6, <1>7 DEF Topics

AskedInv ==
  /\ tie \in {0, 1}
  /\ "from" \in DOMAIN asked => asked.topic \in Topics /\ DOMAIN asked = {"topic", "from"} /\ asked.from \in DOMAIN startOptions
  /\ asked.topic = "invoice" /\ "from" \notin DOMAIN asked => asked \in InvoiceCases
  /\ asked.topic = "upload" /\ "from" \notin DOMAIN asked => asked \in UploadCases
  /\ asked.topic = "year" /\ "from" \notin DOMAIN asked => \E start \in DOMAIN startOptions : asked \in YearCases(start)
  /\ asked.topic = "schedule" /\ "from" \notin DOMAIN asked => \E start \in DOMAIN startOptions : asked \in ScheduleCases(start)
  /\ asked.topic = "revenue" /\ "from" \notin DOMAIN asked => asked \in RevenueCases
  /\ asked.topic = "limit" /\ "from" \notin DOMAIN asked => asked \in LimitCases

LEMMA AskedStart == DeskInit => AskedInv
<1> SUFFICES ASSUME DeskInit PROVE AskedInv
  OBVIOUS
<1>1. CASE asked = Quiet /\ tie = 1
  BY <1>1 DEF AskedInv, Quiet
<1>2. CASE RulesInit
  BY <1>2 DEF RulesInit, AskedInv, Topics, startOptions
<1> QED
  BY <1>1, <1>2 DEF DeskInit

LEMMA AskedStep == AskedInv /\ [DeskNext]_deskVars => AskedInv'
<1> SUFFICES ASSUME AskedInv, [DeskNext]_deskVars PROVE AskedInv'
  OBVIOUS
<1>1. CASE UNCHANGED ruleVars
  BY <1>1 DEF AskedInv, ruleVars
<1>2. CASE AskRules
  <2>1. asked' \in Cases(asked) /\ asked.topic \in Topics /\ asked.from \in DOMAIN startOptions /\ tie' = tie
    BY <1>2 DEF AskRules, AskedInv
  <2>2. asked'.topic = asked.topic /\ "from" \notin DOMAIN asked'
    BY <2>1, CasesApart
  <2>3. (asked.topic = "invoice" => asked' \in InvoiceCases) /\ (asked.topic = "upload" => asked' \in UploadCases)
        /\ (asked.topic = "year" => asked' \in YearCases(asked.from))
        /\ (asked.topic = "schedule" => asked' \in ScheduleCases(asked.from))
        /\ (asked.topic = "revenue" => asked' \in RevenueCases) /\ (asked.topic = "limit" => asked' \in LimitCases)
    BY <2>1 DEF Cases
  <2> QED BY <2>1, <2>2, <2>3 DEF AskedInv
<1> QED
  BY <1>1, <1>2 DEF DeskNext, deskVars

\* The invoices of the cases come to no less than nothing, the one with a discount too.
LEMMA CasesCharge ==
  ASSUME tie \in {0, 1}, NEW q \in InvoiceCases
  PROVE  /\ q.terms \in Nat /\ q.draft.lines \in Seq([quantity : Nat, price : Int]) /\ q.draft.fundRate \in Nat /\ q.draft.surcharge \in BOOLEAN
         /\ prepare(q.draft).taxableAmount >= 0
<1> DEFINE Line     == [quantity : Nat, price : Int]
           Plain    == {<<[quantity |-> 100, price |-> p]>> : p \in {1, 7540, 7747, 7748, 100000}}
           two      == <<[quantity |-> 150, price |-> 3333], [quantity |-> 100, price |-> 2747]>>
           discount == <<[quantity |-> 100, price |-> 107748], [quantity |-> 100, price |-> -100000]>>
<1>1. q.terms \in Nat /\ q.draft.fundRate \in Nat /\ q.draft.surcharge \in BOOLEAN /\ q.draft.lines \in Plain \cup {two, discount}
  BY DEF InvoiceCases, None
<1>2. \A lines \in Plain : lines \in Seq(Line) /\ \A k \in DOMAIN lines : lines[k].price >= 0
  <2> SUFFICES ASSUME NEW lines \in Plain PROVE lines \in Seq(Line) /\ \A k \in DOMAIN lines : lines[k].price >= 0
    OBVIOUS
  <2> PICK p \in {1, 7540, 7747, 7748, 100000} : lines = <<[quantity |-> 100, price |-> p]>>
    OBVIOUS
  <2> PICK x \in Line : x = [quantity |-> 100, price |-> p]
    OBVIOUS
  <2>1. x.price >= 0 /\ lines = <<x>>
    OBVIOUS
  <2> QED BY <2>1
<1>3. two \in Seq(Line) /\ \A k \in DOMAIN two : two[k].price >= 0
  OBVIOUS
<1>4. discount \in Seq(Line) /\ discount \in [1..2 -> Line] /\ discount[1] = [quantity |-> 100, price |-> 107748] /\ discount[2] = [quantity |-> 100, price |-> -100000]
  OBVIOUS
<1> HIDE DEF Plain, two, discount
<1>5. CASE q.draft.lines # discount
  <2>1. q.draft.lines \in Seq(Line) /\ \A k \in DOMAIN q.draft.lines : q.draft.lines[k].price >= 0
    BY <1>1, <1>2, <1>3, <1>5
  <2> QED BY <1>1, <2>1, LinesAddUp, RowIs
<1>6. CASE q.draft.lines = discount
  <2> DEFINE s == [k \in DOMAIN discount |-> Round(discount[k].quantity * discount[k].price, 100)]
  <2>1. prepare(q.draft).taxableAmount = AddUp(s)
    BY <1>6, RowIs
  <2>2. DOMAIN discount = 1..2
    BY <1>4
  <2>3. DOMAIN s = {1} \cup {2} /\ s[1] = Round(100 * 107748, 100) /\ s[2] = Round(100 * (-100000), 100)
    BY <1>4, <2>2
  <2>4. Round(100 * 107748, 100) = 107748 /\ Round(100 * (-100000), 100) = -100000
    BY DEF Round
  <2> HIDE DEF s
  <2>5. SumFunctionOnSet(s, {1}) = s[1] + SumFunctionOnSet(s, {})
    <3>1. 1 \notin {} /\ {} \cup {1} = {1} /\ \A y \in {} \cup {1} : s[y] \in Int
      BY <2>3, <2>4
    <3> QED BY <3>1, SumAdd, FS_EmptySet
  <2>6. SumFunctionOnSet(s, {1} \cup {2}) = s[2] + SumFunctionOnSet(s, {1})
    <3>1. 2 \notin {1} /\ \A y \in {1} \cup {2} : s[y] \in Int
      BY <2>3, <2>4
    <3>2. IsFiniteSet({1})
      BY FS_Singleton
    <3> QED BY <3>1, <3>2, SumAdd
  <2>7. SumFunctionOnSet(s, {}) = 0
    BY SumEmpty
  <2>8. AddUp(s) = 7748
    BY <2>3, <2>4, <2>5, <2>6, <2>7, AddUpIs
  <2> QED BY <1>1, <1>4, <1>6, <2>1, <2>8
<1> QED
  BY <1>5, <1>6

\* What the theorem above says of any invoice holds of those the rules are asked about.
THEOREM InvoicesAlways == DeskSpec => []InvoiceAddsUp
<1>1. AskedInv => InvoiceAddsUp
  <2> SUFFICES ASSUME AskedInv, asked.topic = "invoice", "draft" \in DOMAIN asked PROVE InvoiceAddsUpFor(asked)
    BY DEF InvoiceAddsUp
  <2>1. CASE "from" \notin DOMAIN asked
    <3>1. tie \in {0, 1} /\ asked \in InvoiceCases
      BY <2>1 DEF AskedInv
    <3> QED BY <3>1, CasesCharge, TotalsAgree
  <2> QED BY <2>1 DEF AskedInv
<1> QED
  BY <1>1, AskedStart, AskedStep, PTL DEF DeskSpec

-----------------------------------------------------------------------------
(* The uploads of the instance *)

\* The databases of the instance.
LEMMA StoresAreStores == \A db \in Stores \cup {[invoices |-> {}, outcome |-> <<>>, recorded |-> {}]} : IsStore(db)
BY DEF Stores, IsStore

Named(x) == {<<x>>, <<x, "1">>, <<x, "2">>}
SizedNames == Named("x") \cup Named("y") \cup Named("z")
SizedEntries == {Entry(m, b, s) : m \in SizedNames, b \in BOOLEAN, s \in Sizes}

\* Files with different names share no name of an entry.
LEMMA NamedApart ==
  \A x, y \in {"x", "y", "z"} : x # y => Named(x) \cap Named(y) = {}
BY DEF Named

\* What an entry of the instance is.
LEMMA EntryIs ==
  \A m, b, s : /\ Entry(m, b, s).name = m /\ Entry(m, b, s).size = s /\ Entry(m, b, s).doc.kind = "SDI_METADATA" /\ Entry(m, b, s).xml = b
BY DEF Entry

\* A file of one of the names: its entries have names of its own, apart from each other.
FileOf(f, x) ==
  /\ f \in UploadedFiles(SizedEntries, SizedNames) /\ f.name = <<x>>
  /\ NamesOf(f.entries) \subseteq Named(x) /\ NamesApart(f.entries) /\ (f.form = "xml" => Len(f.entries) = 1)

\* An archive of the instance.
LEMMA ArchiveIs ==
  ASSUME NEW x \in {"x", "y", "z"}, NEW f \in Archives(x)
  PROVE  FileOf(f, x)
<1> DEFINE one(k) == {Entry(<<x, k>>, TRUE, s) : s \in Sizes} \cup {Entry(<<x, k>>, FALSE, 1)}
<1>1. ASSUME NEW k \in {"1", "2"}, NEW e \in one(k) PROVE e \in SizedEntries /\ e.name = <<x, k>>
  <2>1. PICK b \in BOOLEAN, s \in Sizes : e = Entry(<<x, k>>, b, s)
    BY DEF Sizes
  <2>2. <<x, k>> \in SizedNames
    BY DEF SizedNames, Named
  <2>3. e.name = <<x, k>>
    BY <2>1, EntryIs
  <2> HIDE DEF one
  <2> QED BY <2>1, <2>2, <2>3 DEF SizedEntries
<1>2. f \in [name : {<<x>>}, form : {"zip"}, readable : BOOLEAN, entries : {<<>>} \cup {<<e>> : e \in one("1")} \cup one("1") \X one("2")]
  BY DEF Archives
<1> HIDE DEF one
<1>3. f.entries \in {<<>>} \cup {<<e>> : e \in one("1")} \cup one("1") \X one("2")
  BY <1>2
<1>4. f.entries \in Seq(SizedEntries) /\ NamesOf(f.entries) \subseteq Named(x) /\ NamesApart(f.entries)
  <2>1. CASE f.entries = <<>>
    BY <2>1 DEF NamesOf, ItemsOf, NamesApart
  <2>2. CASE f.entries \in {<<e>> : e \in one("1")}
    <3>1. PICK e \in one("1") : f.entries = <<e>>
      BY <2>2
    <3>2. e \in SizedEntries /\ e.name \in Named(x)
      BY <1>1 DEF Named
    <3>3. DOMAIN <<e>> = {1} /\ <<e>>[1] = e /\ <<e>> \in Seq(SizedEntries)
      BY <3>2
    <3> QED BY <3>1, <3>2, <3>3 DEF NamesOf, ItemsOf, NamesApart
  <2>3. CASE f.entries \in one("1") \X one("2")
    <3>1. PICK d \in one("1"), e \in one("2") : f.entries = <<d, e>>
      BY <2>3
    <3>2. d \in SizedEntries /\ e \in SizedEntries /\ d.name \in Named(x) /\ e.name \in Named(x) /\ d.name # e.name
      BY <1>1 DEF Named
    <3>3. DOMAIN <<d, e>> = {1, 2} /\ <<d, e>>[1] = d /\ <<d, e>>[2] = e /\ <<d, e>> \in Seq(SizedEntries)
      BY <3>2
    <3> QED BY <3>1, <3>2, <3>3 DEF NamesOf, ItemsOf, NamesApart
  <2> QED BY <1>3, <2>1, <2>2, <2>3
<1>5. <<x>> \in SizedNames
  BY DEF SizedNames, Named
<1>6. f.form = "zip" /\ f.name = <<x>> /\ f \in UploadedFiles(SizedEntries, SizedNames)
  <2>1. f = [name |-> f.name, form |-> f.form, readable |-> f.readable, entries |-> f.entries] /\ f.form = "zip" /\ f.name = <<x>> /\ f.readable \in BOOLEAN
    BY <1>2
  <2> QED BY <1>4, <1>5, <2>1 DEF UploadedFiles
<1> QED
  BY <1>4, <1>6 DEF FileOf

\* A loose file of the instance.
LEMMA LooseIs ==
  ASSUME NEW x \in {"x", "y", "z"}, NEW f \in Loose(x)
  PROVE  FileOf(f, x)
<1> DEFINE one == {<<Entry(<<x>>, TRUE, s)>> : s \in Sizes}
<1>1. f \in [name : {<<x>>}, form : {"xml", "other"}, readable : {TRUE}, entries : one]
  BY DEF Loose
<1>2. PICK s \in Sizes : f.entries = <<Entry(<<x>>, TRUE, s)>>
  BY <1>1
<1> DEFINE e == Entry(<<x>>, TRUE, s)
<1>3. e \in SizedEntries /\ e.name \in Named(x) /\ <<x>> \in SizedNames
  <2>1. <<x>> \in SizedNames /\ <<x>> \in Named(x)
    BY DEF SizedNames, Named
  <2>3. e.name = <<x>>
    BY EntryIs
  <2>2. PICK b \in BOOLEAN : e = Entry(<<x>>, b, s)
    OBVIOUS
  <2> HIDE DEF e
  <2>4. e \in SizedEntries
    BY <2>1, <2>2 DEF SizedEntries
  <2> QED BY <2>1, <2>3, <2>4
<1> HIDE DEF e, one
<1>4. f.entries = <<e>>
  BY <1>2 DEF e
<1>5. DOMAIN <<e>> = {1} /\ <<e>>[1] = e /\ <<e>> \in Seq(SizedEntries) /\ Len(<<e>>) = 1
  BY <1>3
<1>6. f = [name |-> f.name, form |-> f.form, readable |-> f.readable, entries |-> f.entries] /\ f.form \in {"xml", "other"} /\ f.name = <<x>> /\ f.readable = TRUE
  BY <1>1
<1>7. f \in UploadedFiles(SizedEntries, SizedNames)
  BY <1>3, <1>4, <1>5, <1>6 DEF UploadedFiles
<1>8. NamesOf(f.entries) \subseteq Named(x) /\ NamesApart(f.entries)
  BY <1>3, <1>4, <1>5 DEF NamesOf, ItemsOf, NamesApart
<1> QED
  BY <1>4, <1>5, <1>6, <1>7, <1>8 DEF FileOf

\* Names tell apart what is in the uploads of any sizes.
LEMMA SizedOK ==
  ASSUME NEW files \in SizedUploads
  PROVE  FilesOK(files, SizedEntries, SizedNames) /\ OutcomesKnown(SizedEntries)
<1>1. PICK f \in Archives("z") \cup Loose("z"), g \in Archives("y"), h \in Loose("z") \cup Loose("x") : files = <<f, g, h>>
  BY DEF SizedUploads
<1>2. FileOf(f, "z") /\ FileOf(g, "y") /\ \E x \in {"x", "z"} : FileOf(h, x)
  BY ArchiveIs, LooseIs
<1>3. PICK x \in {"x", "z"} : FileOf(h, x)
  BY <1>2
<1>4. files \in Seq(UploadedFiles(SizedEntries, SizedNames)) /\ DOMAIN files = 1..3 /\ files[1] = f /\ files[2] = g /\ files[3] = h
  BY <1>1, <1>2, <1>3 DEF FileOf
<1>5. \A k \in DOMAIN files : \E y \in {"x", "y", "z"} : FileOf(files[k], y)
  <2>1. \A k \in 1..3 : k = 1 \/ k = 2 \/ k = 3
    OBVIOUS
  <2> QED BY <1>2, <1>3, <1>4, <2>1
<1>6. \A u, v : \A y, z \in {"x", "y", "z"} : FileOf(u, y) /\ FileOf(v, z) /\ u.name # v.name => NamesOf(u.entries) \cap NamesOf(v.entries) = {}
  BY NamedApart DEF FileOf
<1>7. \A k \in DOMAIN files : NamesApart(files[k].entries) /\ (files[k].form = "xml" => Len(files[k].entries) = 1)
  BY <1>5 DEF FileOf
<1>8. \A i, j \in DOMAIN files : files[i].name # files[j].name => NamesOf(files[i].entries) \cap NamesOf(files[j].entries) = {}
  BY <1>5, <1>6
<1>9. Sized(SizedEntries, SizedNames) /\ OutcomesKnown(SizedEntries)
  BY EntryIs DEF Sized, SizedEntries, Sizes, OutcomesKnown, TellsOutcome
<1> QED
  BY <1>4, <1>7, <1>8, <1>9 DEF FilesOK

MixedEntries == Documented("1", Invoices) \cup Documented("2", Invoices) \cup Documented("3", Invoices \cup Receipts) \cup Documented("4", Receipts)
MixedNames   == {<<"z">>, <<"z", "1">>, <<"z", "2">>, <<"z", "3">>, <<"z", "4">>}

\* A receipt of the instance tells an outcome.
LEMMA DocumentsTell == \A d \in Invoices \cup Receipts : TellsOutcome(d)
<1>1. \A d \in Invoices : d.kind = "INVOICE"
  BY DEF Invoices
<1>2. \A d \in Receipts : d.type \in {"RC", "NS"}
  BY DEF Receipts
<1> QED BY <1>1, <1>2 DEF TellsOutcome

\* An entry with a document of the instance.
LEMMA DocumentedIs ==
  ASSUME NEW k, NEW docs \in SUBSET (Invoices \cup Receipts), NEW e \in Documented(k, docs)
  PROVE  e.name = <<"z", k>> /\ e.size = 1 /\ TellsOutcome(e.doc)
<1>1. e.name = <<"z", k>> /\ e.size = 1 /\ e.doc \in docs
  BY DEF Documented
<1> QED BY <1>1, DocumentsTell

\* Names tell apart what is in the uploads of invoices and receipts.
LEMMA MixedOK ==
  ASSUME NEW files \in MixedUploads
  PROVE  FilesOK(files, MixedEntries, MixedNames) /\ OutcomesKnown(MixedEntries)
<1> DEFINE several == Documented("1", Invoices) \X Documented("2", Invoices) \X Documented("3", Invoices \cup Receipts) \X Documented("4", Receipts)
<1>0. PICK f \in [name : {<<"z">>}, form : {"zip"}, readable : {TRUE}, entries : several] : files = <<f>>
  BY DEF MixedUploads
<1>1. PICK a \in Documented("1", Invoices), b \in Documented("2", Invoices), c \in Documented("3", Invoices \cup Receipts), d \in Documented("4", Receipts) :
        f.entries = <<a, b, c, d>>
  BY <1>0
<1>2. a.name = <<"z", "1">> /\ b.name = <<"z", "2">> /\ c.name = <<"z", "3">> /\ d.name = <<"z", "4">>
  BY DocumentedIs
<1>3. {a, b, c, d} \subseteq MixedEntries
  BY DEF MixedEntries
<1>4. \A e \in MixedEntries : e.name \in MixedNames /\ e.size = 1 /\ TellsOutcome(e.doc)
  <2>1. \A e \in Documented("1", Invoices) : e.name = <<"z", "1">> /\ e.size = 1 /\ TellsOutcome(e.doc)
    BY DocumentedIs
  <2>2. \A e \in Documented("2", Invoices) : e.name = <<"z", "2">> /\ e.size = 1 /\ TellsOutcome(e.doc)
    BY DocumentedIs
  <2>3. \A e \in Documented("3", Invoices \cup Receipts) : e.name = <<"z", "3">> /\ e.size = 1 /\ TellsOutcome(e.doc)
    BY DocumentedIs
  <2>4. \A e \in Documented("4", Receipts) : e.name = <<"z", "4">> /\ e.size = 1 /\ TellsOutcome(e.doc)
    BY DocumentedIs
  <2> QED BY <2>1, <2>2, <2>3, <2>4 DEF MixedEntries, MixedNames
<1>5. Sized(MixedEntries, MixedNames) /\ OutcomesKnown(MixedEntries)
  BY <1>4 DEF Sized, OutcomesKnown
<1> DEFINE entries == <<a, b, c, d>>
<1>6. entries \in Seq(MixedEntries) /\ DOMAIN entries = 1..4 /\ entries[1] = a /\ entries[2] = b /\ entries[3] = c /\ entries[4] = d
  BY <1>3
<1>7. NamesApart(entries)
  <2>1. \A i \in 1..4 : i = 1 \/ i = 2 \/ i = 3 \/ i = 4
    OBVIOUS
  <2>2. a.name # b.name /\ a.name # c.name /\ a.name # d.name /\ b.name # c.name /\ b.name # d.name /\ c.name # d.name
    BY <1>2
  <2> HIDE DEF entries
  <2> QED BY <1>6, <2>1, <2>2 DEF NamesApart
<1>9. f.entries = entries /\ f.form = "zip"
  BY <1>0, <1>1
<1> HIDE DEF entries, several
<1>8. f \in UploadedFiles(MixedEntries, MixedNames)
  <2>1. f = [name |-> f.name, form |-> f.form, readable |-> f.readable, entries |-> f.entries] /\ f.name = <<"z">> /\ f.readable = TRUE
    BY <1>0
  <2> QED BY <1>6, <1>9, <2>1 DEF UploadedFiles, MixedNames
<1>11. DOMAIN files = {1} /\ files[1] = f /\ files \in Seq(UploadedFiles(MixedEntries, MixedNames))
  BY <1>0, <1>8
<1> QED
  BY <1>5, <1>7, <1>9, <1>11 DEF FilesOK

\* What the preview shows of the uploads asked about is what the import does with them.
LEMMA UploadCasesKept ==
  ASSUME NEW q \in UploadCases
  PROVE  ImportAsShownFor(q)
<1> DEFINE nothing == [invoices |-> {}, outcome |-> <<>>, recorded |-> {}]
<1>1. IsStore(q.db) /\ q.files \in MixedUploads \cup SizedUploads
  <2>1. q.db \in Stores \cup {nothing} /\ q.files \in MixedUploads \cup SizedUploads
    <3> HIDE DEF nothing
    <3> QED BY DEF UploadCases, nothing
  <2> QED BY <2>1, StoresAreStores
<1> QED
  BY <1>1, SizedOK, MixedOK, PreviewKept

\* What PreviewKept says of any upload holds of those the rules are asked about.
THEOREM UploadsAlways == DeskSpec => []ImportAsShown
<1>1. AskedInv => ImportAsShown
  <2> SUFFICES ASSUME AskedInv, asked.topic = "upload", "files" \in DOMAIN asked PROVE ImportAsShownFor(asked)
    BY DEF ImportAsShown
  <2>1. CASE "from" \notin DOMAIN asked
    BY <2>1, UploadCasesKept DEF AskedInv
  <2> QED BY <2>1 DEF AskedInv
<1> QED
  BY <1>1, AskedStart, AskedStep, PTL DEF DeskSpec

-----------------------------------------------------------------------------
(* The forms of a plan pay its debts (PaymentSchedule) *)

\* A rounded quotient is within half of the exact one, whichever way a tie goes.
LEMMA RoundBetween ==
  ASSUME tie \in {0, 1}, NEW a \in Int, NEW n \in Nat \ {0}
  PROVE  LET r == Round(a, n) IN r \in Int /\ 2 * (n * r) <= 2 * a + n - (1 - tie) /\ 2 * a + n - (1 - tie) < 2 * (n * r) + 2 * n
<1> DEFINE t == 2 * a + n - (1 - tie)
           m == 2 * n
<1>1. t \in Int /\ m \in Nat \ {0}
  OBVIOUS
<1>2. Round(a, n) = t \div m
  BY DEF Round
<1> HIDE DEF t, m
<1>3. t \div m \in Int /\ m * (t \div m) <= t /\ t < m * (t \div m) + m
  BY <1>1
<1>4. \A r \in Int : m * r = 2 * (n * r)
  BY DEF m
<1> QED
  BY <1>2, <1>3, <1>4 DEF t, m

\* A surcharge of fewer cents may not be spread over n installments without one that pays less than its part of the debt.
SpreadsOver(surcharge, n) == surcharge = 0 \/ surcharge >= (n - 1) * (n - 2)

\* The part of a debt with its surcharge is no less than that of the debt, and more by little more than a part of the surcharge.
LEMMA SharesGrow ==
  ASSUME tie \in {0, 1}, NEW a \in Nat, NEW s \in Nat, NEW n \in Nat \ {0}
  PROVE  LET e == Round(a + s, n) - Round(a, n)
         IN  /\ Round(a, n) \in Int /\ Round(a + s, n) \in Int /\ e >= 0 /\ (n - 1) * e - s <= n - 1
             /\ SpreadsOver(s, n) => (n - 1) * e <= s
<1>1. /\ Round(a, n) \in Int /\ 2 * (n * Round(a, n)) <= 2 * a + n - (1 - tie) /\ 2 * a + n - (1 - tie) < 2 * (n * Round(a, n)) + 2 * n
      /\ Round(a + s, n) \in Int /\ 2 * (n * Round(a + s, n)) <= 2 * (a + s) + n - (1 - tie)
      /\ 2 * (a + s) + n - (1 - tie) < 2 * (n * Round(a + s, n)) + 2 * n
  BY RoundBetween
<1> PICK x \in Int : x = Round(a, n)
  BY <1>1
<1> PICK y \in Int : y = Round(a + s, n)
  BY <1>1
<1> DEFINE e == y - x
<1>2. e \in Int /\ n * y = n * x + n * e /\ n * e \in Int /\ n * x \in Int
  OBVIOUS
<1>3. n * e < s + n /\ n * e > -n
  BY <1>1, <1>2
<1>4. e >= 0
  <2>1. SUFFICES ASSUME e <= -1 PROVE FALSE
    BY <1>2
  <2>2. n * e <= n * (-1)
    BY <1>2, <2>1
  <2> QED BY <1>2, <1>3, <2>2
<1>5. (n - 1) * e = n * e - e
  BY <1>2
<1>6. ASSUME SpreadsOver(s, n) PROVE (n - 1) * e <= s
  <2>1. CASE e >= n - 1
    BY <1>2, <1>3, <1>5, <2>1
  <2>2. CASE e = 0
    BY <1>5, <2>2
  <2>3. CASE e <= n - 2 /\ e >= 1
    <3>1. n * e >= n * 1
      BY <1>2, <2>3
    <3>2. s # 0
      BY <1>2, <1>3, <3>1
    <3>3. s >= (n - 1) * (n - 2)
      BY <1>6, <3>2 DEF SpreadsOver
    <3>4. (n - 1) * e <= (n - 1) * (n - 2)
      BY <1>2, <2>3
    <3> QED BY <1>2, <1>5, <3>3, <3>4
  <2> QED BY <1>2, <1>4, <2>1, <2>2, <2>3
<1>7. (n - 1) * e - s <= n - 1
  <2>1. CASE e = 0
    BY <1>5, <2>1
  <2>2. CASE e >= 1
    BY <1>2, <1>3, <1>5, <2>2
  <2> QED BY <1>2, <1>4, <2>1, <2>2
<1> QED
  BY <1>2, <1>4, <1>6, <1>7

\* The surcharge of a first date is an amount.
LEMMA SurchargeTypes ==
  ASSUME tie \in {0, 1}, NEW a \in Nat, NEW start \in DOMAIN startOptions
  PROVE  Surcharge(a, start) \in Nat
<1>1. startOptions[start].surcharge \in {0, 40, 80}
  BY DEF startOptions
<1>2. PICK p \in {0, 40, 80} : p = startOptions[start].surcharge
  BY <1>1
<1>3. a * p \in Nat
  OBVIOUS
<1>4. PICK m \in Nat : m = a * p
  BY <1>3
<1>5. Round(m, 10000) \in Nat
  BY DEF Round
<1> QED
  BY <1>2, <1>4, <1>5 DEF Surcharge

\* What the i-th installment counts for a debt: its part of it, or its part of the debt with the surcharge if that is less.
CountsAs(d, a, start, n, i) ==
  IF d[1] = "INPS" THEN principal(a, n, i) ELSE AtMost(principal(a, n, i), principal(a + Surcharge(a, start), n, i))

\* The cents that the installments together count too few.
Missing(d, a, start, n) ==
  IF d[1] = "INPS" THEN 0
  ELSE AtLeast(0, (n - 1) * (Round(a + Surcharge(a, start), n) - Round(a, n)) - Surcharge(a, start))

\* All installments but the last count the same; what they miss of the debt is less than a cent for each of the others.
Shares(d, a, start, n) ==
  /\ Missing(d, a, start, n) \in 0..(n - 1)
  /\ d[1] = "INPS" \/ SpreadsOver(Surcharge(a, start), n) => Missing(d, a, start, n) = 0
  /\ \A i \in 1..n : /\ principal(a, n, i) \in Int /\ principal(a + Surcharge(a, start), n, i) \in Int
                     /\ CountsAs(d, a, start, n, i) \in Int
  /\ Round(a, n) \in Int /\ \A i \in 1..(n - 1) : CountsAs(d, a, start, n, i) = Round(a, n)
  /\ CountsAs(d, a, start, n, n) = (a - Missing(d, a, start, n)) - Round(a, n) * (n - 1)

\* What the installments count for a debt: the same part each but the last, which takes what is left.
LEMMA SharesCount ==
  ASSUME tie \in {0, 1}, NEW d, NEW a \in Nat, NEW start \in DOMAIN startOptions, NEW n \in Nat \ {0}
  PROVE  Shares(d, a, start, n)
<1>1. PICK s \in Nat : s = Surcharge(a, start)
  BY SurchargeTypes
<1>2. LET e == Round(a + s, n) - Round(a, n)
      IN  /\ Round(a, n) \in Int /\ Round(a + s, n) \in Int /\ e >= 0 /\ (n - 1) * e - s <= n - 1
          /\ SpreadsOver(s, n) => (n - 1) * e <= s
  BY SharesGrow
<1>3. PICK x \in Int : x = Round(a, n)
  BY <1>2
<1>4. PICK y \in Int : y = Round(a + s, n)
  BY <1>2
<1>5. y - x >= 0 /\ (n - 1) * (y - x) - s <= n - 1 /\ (SpreadsOver(s, n) => (n - 1) * (y - x) <= s)
  BY <1>2, <1>3, <1>4
<1>6. PICK m \in Int : m = (n - 1) * (y - x)
  OBVIOUS
<1>7. (n - 1) * x \in Int /\ (n - 1) * y = (n - 1) * x + m /\ x * (n - 1) = (n - 1) * x
  BY <1>6
<1>8. Missing(d, a, start, n) = IF d[1] = "INPS" THEN 0 ELSE AtLeast(0, m - s)
  BY <1>1, <1>3, <1>4, <1>6 DEF Missing
<1>9. \A i \in 1..n : /\ principal(a, n, i) = (IF i = n THEN a - (n - 1) * x ELSE x)
                      /\ principal(a + s, n, i) = (IF i = n THEN (a + s) - (n - 1) * y ELSE y)
  BY <1>3, <1>4 DEF principal
<1>10. \A i \in 1..n : CountsAs(d, a, start, n, i) = IF d[1] = "INPS" THEN principal(a, n, i) ELSE AtMost(principal(a, n, i), principal(a + s, n, i))
  BY <1>1 DEF CountsAs
<1>11. Missing(d, a, start, n) \in 0..(n - 1) /\ (d[1] = "INPS" \/ SpreadsOver(s, n) => Missing(d, a, start, n) = 0)
  BY <1>5, <1>6, <1>8 DEF AtLeast
<1>12. \A i \in 1..n : principal(a, n, i) \in Int /\ principal(a + s, n, i) \in Int
  BY <1>7, <1>9
<1>13. \A i \in 1..n : CountsAs(d, a, start, n, i) \in Int
  BY <1>10, <1>12 DEF AtMost
<1>14. \A i \in 1..(n - 1) : CountsAs(d, a, start, n, i) = x
  <2> SUFFICES ASSUME NEW i \in 1..(n - 1) PROVE CountsAs(d, a, start, n, i) = x
    OBVIOUS
  <2>1. i \in 1..n /\ i # n
    OBVIOUS
  <2>2. principal(a, n, i) = x /\ principal(a + s, n, i) = y
    BY <1>9, <2>1
  <2> QED BY <1>5, <1>10, <2>1, <2>2 DEF AtMost
<1>15. CountsAs(d, a, start, n, n) = (a - Missing(d, a, start, n)) - x * (n - 1)
  <2>1. n \in 1..n
    OBVIOUS
  <2>2. principal(a, n, n) = a - (n - 1) * x /\ principal(a + s, n, n) = (a + s) - ((n - 1) * x + m)
    BY <1>7, <1>9, <2>1
  <2>3. CountsAs(d, a, start, n, n) = IF d[1] = "INPS" THEN principal(a, n, n) ELSE AtMost(principal(a, n, n), principal(a + s, n, n))
    BY <1>10, <2>1
  <2>4. PICK k \in Int : k = (n - 1) * x
    BY <1>7
  <2>5. CASE d[1] = "INPS"
    BY <1>7, <1>8, <2>2, <2>3, <2>4, <2>5
  <2>6. CASE d[1] # "INPS"
    <3>1. CountsAs(d, a, start, n, n) = AtMost(a - k, (a + s) - (k + m)) /\ Missing(d, a, start, n) = AtLeast(0, m - s)
      BY <1>8, <2>2, <2>3, <2>4, <2>6
    <3> QED BY <1>7, <2>4, <3>1 DEF AtMost, AtLeast
  <2> QED BY <2>5, <2>6
<1> QED
  BY <1>1, <1>3, <1>11, <1>12, <1>13, <1>14, <1>15 DEF Shares

Part(amount, start, n, i) == buildInstallmentPlan(amount, startOptions[start].date, n)[i]

RowsFor(d, amount, start, n, i) ==
  DebtRows(d, Part(amount + Surcharge(amount, start), start, n, i),
           Part(amount + Surcharge(amount, start), start, n, i).principal - Part(amount, start, n, i).principal)

\* The rows of an installment are those of each debt.
LEMMA RowsAre ==
  ASSUME NEW scheme, NEW amounts, NEW start, NEW n, NEW i
  PROVE  InstallmentRows(scheme, amounts, start, n, i) =
           UNION {RowsFor(d, amounts[d[1]][d[2]], start, n, i) : d \in Components(scheme, amounts)}
BY DEF InstallmentRows, RowsFor, Part

\* One row of an installment pays the debt, the other is of interest.
PaidByRow(rows, d, counted) ==
  \E row \in rows : /\ row.section = d[1] /\ row.role = d[2] /\ row.debit - row.surcharge = counted
                    /\ \A x \in rows : x = row \/ x.role = "INTEREST"

\* One row of a debt pays it; the other is interest.
LEMMA RowOfDebt ==
  ASSUME tie \in {0, 1}, NEW d, NEW a \in Nat, NEW start \in DOMAIN startOptions, NEW n \in Nat \ {0}, NEW i \in 1..n
  PROVE  PaidByRow(RowsFor(d, a, start, n, i), d, CountsAs(d, a, start, n, i))
<1> DEFINE s      == Surcharge(a, start)
           with   == Part(a + s, start, n, i)
           plain  == Part(a, start, n, i)
           share  == with.principal - plain.principal
           moved  == IF surchargeWithInterest(d[1]) THEN share ELSE 0
           inside == IF ~ surchargeWithInterest(d[1]) /\ share > 0 THEN share ELSE 0
           row    == line(d, with.principal - moved, inside)
           other  == [section |-> d[1], role |-> "INTEREST", of |-> d[2], debit |-> with.interest + moved, surcharge |-> 0]
<1>2. with.principal = principal(a + s, n, i) /\ plain.principal = principal(a, n, i)
  <2> HIDE DEF s
  <2> QED BY DEF Part, buildInstallmentPlan
<1>3. PICK w \in Int : w = with.principal
  BY <1>2, SharesCount DEF Shares
<1>4. PICK p \in Int : p = plain.principal
  BY <1>2, SharesCount DEF Shares
<1>5. CountsAs(d, a, start, n, i) = IF d[1] = "INPS" THEN p ELSE AtMost(p, w)
  BY <1>2, <1>3, <1>4 DEF CountsAs
<1>6. RowsFor(d, a, start, n, i) = {row} \cup (IF with.interest > 0 \/ moved > 0 THEN {other} ELSE {})
  BY DEF RowsFor, DebtRows
<1>7. row.section = d[1] /\ row.role = d[2] /\ row.debit = with.principal - moved /\ row.surcharge = inside
  BY DEF line
<1>8. other.section = d[1] /\ other.role = "INTEREST"
  OBVIOUS
<1>9. surchargeWithInterest(d[1]) <=> d[1] = "INPS"
  BY DEF surchargeWithInterest
<1>10. (with.principal - moved) - inside = CountsAs(d, a, start, n, i)
  <2>1. share = w - p
    BY <1>3, <1>4
  <2> HIDE DEF share, with, plain
  <2>2. CASE d[1] = "INPS"
    <3>1. moved = w - p /\ inside = 0
      BY <1>9, <2>1, <2>2
    <3> QED BY <1>3, <1>5, <2>2, <3>1
  <2>3. CASE d[1] # "INPS"
    <3>1. moved = 0 /\ inside = IF w - p > 0 THEN w - p ELSE 0
      BY <1>9, <2>1, <2>3
    <3> QED BY <1>3, <1>5, <2>3, <3>1 DEF AtMost
  <2> QED BY <2>2, <2>3
<1> HIDE DEF row, other, with, plain, moved, inside, share
<1>11. row.debit - row.surcharge = CountsAs(d, a, start, n, i)
  BY <1>7, <1>10
<1> QED
  BY <1>6, <1>7, <1>8, <1>11 DEF PaidByRow

\* A form without a row of a debt pays nothing of it.
LEMMA PaidByNone ==
  ASSUME NEW f24, NEW d, \A x \in f24.lines : ~ (x.section = d[1] /\ x.role = d[2])
  PROVE  PaidBy(f24, d) = 0
<1> DEFINE f == [l \in {x \in f24.lines : x.section = d[1] /\ x.role = d[2]} |-> l.debit - l.surcharge]
<1>1. DOMAIN f = {}
  OBVIOUS
<1>2. PaidBy(f24, d) = SumFunctionOnSet(f, DOMAIN f)
  BY DEF PaidBy, SumFunction
<1> QED
  BY <1>1, <1>2, SumEmpty

\* A form with one row of a debt pays what that row says, without the surcharge.
LEMMA PaidByOne ==
  ASSUME NEW f24, NEW d, NEW row \in f24.lines, row.section = d[1], row.role = d[2], row.debit - row.surcharge \in Int,
         \A x \in f24.lines : x.section = d[1] /\ x.role = d[2] => x = row
  PROVE  PaidBy(f24, d) = row.debit - row.surcharge
<1> DEFINE f == [l \in {x \in f24.lines : x.section = d[1] /\ x.role = d[2]} |-> l.debit - l.surcharge]
<1>1. DOMAIN f = {row} /\ f[row] = row.debit - row.surcharge
  OBVIOUS
<1>2. PaidBy(f24, d) = SumFunctionOnSet(f, DOMAIN f)
  BY DEF PaidBy, SumFunction
<1>3. IsFiniteSet({row})
  BY FS_Singleton
<1> HIDE DEF f
<1>4. SumFunctionOnSet(f, {row}) = f[row]
  BY <1>1, <1>3, SumOne
<1> QED
  BY <1>1, <1>2, <1>4

\* The debts of a plan are amounts.
DebtsTyped(amounts) == \A s \in Sections, r \in Roles : amounts[s][r] \in Nat

\* The debts of a plan are amounts above zero of the sections of its scheme.
LEMMA DebtsAre ==
  ASSUME NEW scheme, NEW amounts, DebtsTyped(amounts)
  PROVE  /\ sections(scheme) \subseteq Sections
         /\ \A e \in Components(scheme, amounts) : /\ e = <<e[1], e[2]>> /\ e[1] \in sections(scheme) /\ e[2] \in Splittable /\ e[2] # "INTEREST"
                                                   /\ amounts[e[1]][e[2]] \in Nat /\ amounts[e[1]][e[2]] > 0
         /\ \A s \in sections(scheme), r \in Splittable : amounts[s][r] > 0 => <<s, r>> \in Components(scheme, amounts)
<1>1. sections(scheme) \subseteq Sections /\ "INTEREST" \notin Splittable /\ Splittable \subseteq Roles
  BY DEF sections, Sections, Splittable, Roles
<1>2. ASSUME NEW e \in Components(scheme, amounts)
      PROVE  e = <<e[1], e[2]>> /\ e[1] \in sections(scheme) /\ e[2] \in Splittable /\ amounts[e[1]][e[2]] > 0
  BY <1>2 DEF Components
<1>3. \A s \in sections(scheme), r \in Splittable : amounts[s][r] > 0 => <<s, r>> \in Components(scheme, amounts)
  BY DEF Components
<1> QED
  BY <1>1, <1>2, <1>3 DEF DebtsTyped

\* What the i-th installment counts for a debt.
LEMMA InstallmentPays ==
  ASSUME tie \in {0, 1}, NEW scheme, NEW amounts, NEW start \in DOMAIN startOptions, NEW n \in Nat \ {0}, NEW i \in 1..n,
         DebtsTyped(amounts), NEW d \in Sections \X Roles, NEW f24, f24.lines = InstallmentRows(scheme, amounts, start, n, i)
  PROVE  PaidBy(f24, d) = IF d \in Components(scheme, amounts) THEN CountsAs(d, amounts[d[1]][d[2]], start, n, i) ELSE 0
<1> DEFINE C       == Components(scheme, amounts)
           a(e)    == amounts[e[1]][e[2]]
           Rows(e) == RowsFor(e, a(e), start, n, i)
<1>1. f24.lines = UNION {Rows(e) : e \in C}
  BY RowsAre
<1>2. \A e \in C : e = <<e[1], e[2]>> /\ e[2] \in Splittable /\ a(e) \in Nat
  BY DebtsAre
<1>3. ASSUME NEW e \in C
      PROVE  \E row \in Rows(e) : /\ row.section = e[1] /\ row.role = e[2] /\ row.debit - row.surcharge = CountsAs(e, a(e), start, n, i)
                                  /\ \A x \in Rows(e) : x = row \/ x.role = "INTEREST"
  BY <1>2, <1>3, RowOfDebt DEF PaidByRow
<1>4. d = <<d[1], d[2]>> /\ d[2] # "INTEREST"
  BY DEF Roles, Splittable
<1> HIDE DEF C, Rows
<1>5. ASSUME NEW x \in f24.lines, x.section = d[1], x.role = d[2]
      PROVE  d \in C /\ x \in Rows(d)
  <2>1. PICK e \in C : x \in Rows(e)
    BY <1>1, <1>5
  <2>2. x.section = e[1] /\ x.role = e[2]
    BY <1>3, <1>4, <1>5, <2>1
  <2>3. e = d
    BY <1>2, <1>4, <1>5, <2>2
  <2> QED BY <2>1, <2>3
<1>6. CASE d \notin C
  <2>1. PaidBy(f24, d) = 0
    BY <1>5, <1>6, PaidByNone
  <2> QED BY <1>6, <2>1 DEF C
<1>7. CASE d \in C
  <2>1. PICK row \in Rows(d) : /\ row.section = d[1] /\ row.role = d[2] /\ row.debit - row.surcharge = CountsAs(d, a(d), start, n, i)
                               /\ \A x \in Rows(d) : x = row \/ x.role = "INTEREST"
    BY <1>3, <1>7
  <2>2. row \in f24.lines
    BY <1>1, <1>7
  <2>3. \A x \in f24.lines : x.section = d[1] /\ x.role = d[2] => x = row
    BY <1>4, <1>5, <2>1
  <2>4. CountsAs(d, a(d), start, n, i) \in Int
    BY <1>2, <1>7, SharesCount DEF Shares
  <2>6. row.section = d[1] /\ row.role = d[2] /\ row.debit - row.surcharge \in Int
    BY <2>1, <2>4
  <2>5. PaidBy(f24, d) = row.debit - row.surcharge
    BY ONLY <2>2, <2>3, <2>6, PaidByOne
  <2> QED BY <1>7, <2>1, <2>5 DEF C
<1> QED
  BY <1>6, <1>7

\* What two sequences of forms pay of a debt.
LEMMA PaidForConcat ==
  ASSUME NEW S, NEW A \in Seq(S), NEW B \in Seq(S), NEW d, \A f24 \in S : PaidBy(f24, d) \in Int
  PROVE  PaidFor(A \o B, d) = PaidFor(A, d) + PaidFor(B, d)
<1> DEFINE f == [k \in DOMAIN (A \o B) |-> PaidBy((A \o B)[k], d)]
           g == [k \in DOMAIN A |-> PaidBy(A[k], d)]
           h == [k \in DOMAIN B |-> PaidBy(B[k], d)]
           m == Len(A)
           n == Len(B)
<1>1. /\ A \o B \in Seq(S) /\ Len(A \o B) = m + n /\ m \in Nat /\ n \in Nat /\ DOMAIN A = 1..m /\ DOMAIN B = 1..n /\ DOMAIN (A \o B) = 1..(m + n)
      /\ \A i \in 1..(m + n) : (A \o B)[i] = IF i <= m THEN A[i] ELSE B[i - m]
      /\ (\A i \in 1..m : A[i] \in S) /\ \A i \in 1..n : B[i] \in S
  BY ConcatProperties, LenProperties, ElementOfSeq
<1> DEFINE C == A \o B
<1> HIDE DEF C, m, n
<1>2. /\ PaidFor(C, d) = SumFunctionOnSet(f, 1..(m + n))
      /\ PaidFor(A, d) = SumFunctionOnSet(g, 1..m) /\ PaidFor(B, d) = SumFunctionOnSet(h, 1..n)
  BY <1>1 DEF PaidFor, SumFunction, C
<1>3. \A k \in 1..m : f[k] = g[k] /\ g[k] \in Int
  <2> SUFFICES ASSUME NEW k \in 1..m PROVE f[k] = g[k] /\ g[k] \in Int
    OBVIOUS
  <2>1. k \in 1..(m + n) /\ k <= m
    BY <1>1
  <2>2. (A \o B)[k] = A[k]
    BY <1>1, <2>1
  <2> QED BY <1>1, <2>1, <2>2
<1>4. \A k \in 1..n : f[m + k] = h[k] /\ h[k] \in Int
  <2> SUFFICES ASSUME NEW k \in 1..n PROVE f[m + k] = h[k] /\ h[k] \in Int
    OBVIOUS
  <2>1. m + k \in 1..(m + n) /\ ~ (m + k <= m) /\ (m + k) - m = k
    BY <1>1
  <2>2. (A \o B)[m + k] = B[k]
    BY <1>1, <2>1
  <2> QED BY <1>1, <2>1, <2>2
<1> HIDE DEF f, g, h
<1>5. m \in Nat /\ n \in Nat
  BY <1>1
<1>6. SumFunctionOnSet(f, 1..(m + n)) = SumFunctionOnSet(g, 1..m) + SumFunctionOnSet(h, 1..n)
  <2>1. Joins(f, g, m, h, n)
    BY <1>3, <1>4 DEF Joins
  <2> QED BY <1>5, <2>1, SumConcat
<1> QED
  BY <1>2, <1>6 DEF C

\* What no form and a single form pay.
LEMMA PaidForShort ==
  ASSUME NEW d
  PROVE  /\ PaidFor(<<>>, d) = 0
         /\ \A f24 : PaidBy(f24, d) \in Int => PaidFor(<<f24>>, d) = PaidBy(f24, d)
<1>1. PaidFor(<<>>, d) = 0
  <2> DEFINE f == [k \in DOMAIN <<>> |-> PaidBy(<<>>[k], d)]
  <2>1. DOMAIN f = {}
    OBVIOUS
  <2>2. PaidFor(<<>>, d) = SumFunctionOnSet(f, DOMAIN f)
    BY DEF PaidFor, SumFunction
  <2> QED BY <2>1, <2>2, SumEmpty
<1>2. ASSUME NEW f24, PaidBy(f24, d) \in Int PROVE PaidFor(<<f24>>, d) = PaidBy(f24, d)
  <2> DEFINE f == [k \in DOMAIN <<f24>> |-> PaidBy(<<f24>>[k], d)]
  <2>1. DOMAIN f = {1} /\ f[1] = PaidBy(f24, d)
    OBVIOUS
  <2>2. PaidFor(<<f24>>, d) = SumFunctionOnSet(f, DOMAIN f)
    BY DEF PaidFor, SumFunction
  <2>3. IsFiniteSet({1})
    BY FS_Singleton
  <2> HIDE DEF f
  <2>4. SumFunctionOnSet(f, {1}) = f[1]
    BY <1>2, <2>1, <2>3, SumOne
  <2> QED BY <2>1, <2>2, <2>4
<1> QED
  BY <1>1, <1>2

\* What a split debt counts.
PaidOff(d, amounts, start, n) == amounts[d[1]][d[2]] - Missing(d, amounts[d[1]][d[2]], start, n)

\* The installments of a plan pay each debt, but for the cents that they count too few.
LEMMA InstallmentsPay ==
  ASSUME tie \in {0, 1}, NEW scheme, NEW amounts, NEW start \in DOMAIN startOptions, NEW n \in Nat \ {0},
         DebtsTyped(amounts), NEW d \in Sections \X Roles,
         NEW forms, DOMAIN forms = 1..n, \A i \in 1..n : forms[i].lines = InstallmentRows(scheme, amounts, start, n, i)
  PROVE  /\ PaidFor(forms, d) = IF d \in Components(scheme, amounts) THEN PaidOff(d, amounts, start, n) ELSE 0
         /\ \A i \in 1..n : PaidBy(forms[i], d) \in Int
<1> DEFINE f == [i \in DOMAIN forms |-> PaidBy(forms[i], d)]
           a == amounts[d[1]][d[2]]
<1>1. PaidFor(forms, d) = SumFunctionOnSet(f, 1..n) /\ DOMAIN f = 1..n
  BY DEF PaidFor, SumFunction
<1>2. \A i \in 1..n : f[i] = IF d \in Components(scheme, amounts) THEN CountsAs(d, a, start, n, i) ELSE 0
  BY InstallmentPays
<1>3. \A i \in 1..n : f[i] = PaidBy(forms[i], d)
  OBVIOUS
<1> HIDE DEF f
<1>4. CASE d \notin Components(scheme, amounts)
  <2>1. IsFiniteSet(1..n) /\ \A i \in 1..n : f[i] = 0
    <3>1. IsFiniteSet(1..n)
      BY FS_Interval
    <3> QED BY <1>2, <1>4, <3>1
  <2>2. SumFunctionOnSet(f, 1..n) = 0 * Cardinality(1..n) /\ Cardinality(1..n) \in Nat
    BY <2>1, SumEqual, FS_CardinalityType
  <2> QED BY <1>1, <1>3, <1>4, <2>1, <2>2
<1>5. CASE d \in Components(scheme, amounts)
  <2>1. PICK b \in Nat : b = a
    BY <1>5, DebtsAre
  <2>2. PICK r \in Int : r = Round(b, n)
    BY SharesCount DEF Shares
  <2>3. PICK m \in 0..(n - 1) : m = Missing(d, b, start, n)
    BY SharesCount DEF Shares
  <2>4. /\ \A i \in 1..n : CountsAs(d, b, start, n, i) \in Int
        /\ \A i \in 1..(n - 1) : CountsAs(d, b, start, n, i) = r
        /\ CountsAs(d, b, start, n, n) = (b - m) - r * (n - 1)
    <3>1. Shares(d, b, start, n)
      BY SharesCount
    <3> QED BY <2>2, <2>3, <3>1 DEF Shares
  <2>5. \A i \in 1..n : f[i] = CountsAs(d, b, start, n, i)
    BY <1>2, <1>5, <2>1
  <2>6. (\A k \in 1..(n - 1) : f[k] = r) /\ f[n] = (b - m) - r * (n - 1)
    BY <2>4, <2>5
  <2>7. SumFunctionOnSet(f, 1..n) = b - m
    <3>1. b - m \in Int
      OBVIOUS
    <3> QED BY <2>6, <3>1, SumShares
  <2> QED BY <1>1, <1>3, <1>5, <2>1, <2>3, <2>4, <2>5, <2>7 DEF PaidOff
<1> QED
  BY <1>4, <1>5

\* The installments and the form of the second advance pay each debt, but for those cents.
LEMMA SchedulePays ==
  ASSUME tie \in {0, 1}, NEW scheme, NEW amounts, NEW start \in DOMAIN startOptions, NEW n \in Nat \ {0},
         DebtsTyped(amounts), NEW d \in Sections \X Roles
  PROVE  LET forms == buildPaymentSchedule(scheme, amounts, start, n)
         IN  /\ PaidFor(forms, d) = IF d \in Components(scheme, amounts) THEN PaidOff(d, amounts, start, n)
                                    ELSE IF d[1] \in sections(scheme) THEN amounts[d[1]][d[2]] ELSE 0
             /\ \E S : forms \in Seq(S) /\ \A f24 \in S : PaidBy(f24, d) \in Int
<1> DEFINE a       == amounts[d[1]][d[2]]
           C       == Components(scheme, amounts)
           dates   == maxInstallmentDates(startOptions[start].date)
           second  == {<<s, "SECOND_ADVANCE">> : s \in {t \in sections(scheme) : amounts[t]["SECOND_ADVANCE"] > 0}}
           all     == [i \in 1..n |-> f24Form(IF n = 1 THEN "BALANCE" ELSE "INSTALLMENT", dates[i], InstallmentRows(scheme, amounts, start, n, i))]
           last    == f24Form("SECOND_ADVANCE", secondAdvanceDate, {line(e, amounts[e[1]][e[2]], 0) : e \in second})
           A       == IF C = {} THEN <<>> ELSE all
           B       == IF second = {} THEN <<>> ELSE <<last>>
           S       == {all[i] : i \in 1..n} \cup {last}
<1>1. buildPaymentSchedule(scheme, amounts, start, n) = A \o B
  BY DEF buildPaymentSchedule
<1>2. a \in Nat /\ d = <<d[1], d[2]>> /\ d[1] \in Sections /\ d[2] \in Roles
  BY DEF DebtsTyped
<1>3. (\A i \in 1..n : all[i].lines = InstallmentRows(scheme, amounts, start, n, i)) /\ DOMAIN all = 1..n
  BY DEF f24Form
<1>4. PaidFor(all, d) = (IF d \in C THEN PaidOff(d, amounts, start, n) ELSE 0) /\ \A i \in 1..n : PaidBy(all[i], d) \in Int
  <2>1. DOMAIN all = 1..n
    BY <1>3
  <2>2. \A i \in 1..n : all[i].lines = InstallmentRows(scheme, amounts, start, n, i)
    BY <1>3
  <2> HIDE DEF all
  <2>3. /\ PaidFor(all, d) = IF d \in Components(scheme, amounts) THEN PaidOff(d, amounts, start, n) ELSE 0
        /\ \A i \in 1..n : PaidBy(all[i], d) \in Int
    BY <2>1, <2>2, InstallmentsPay, ZenonT(60)
  <2> QED BY <2>3
<1>5. PaidBy(last, d) = IF d \in second THEN a ELSE 0
  <2>1. last.lines = {line(e, amounts[e[1]][e[2]], 0) : e \in second}
    BY DEF f24Form
  <2>2. \A e \in second : e = <<e[1], e[2]>>
    OBVIOUS
  <2>3. \A e : /\ line(e, amounts[e[1]][e[2]], 0).section = e[1] /\ line(e, amounts[e[1]][e[2]], 0).role = e[2]
               /\ line(e, amounts[e[1]][e[2]], 0).debit = amounts[e[1]][e[2]] /\ line(e, amounts[e[1]][e[2]], 0).surcharge = 0
    BY DEF line
  <2> HIDE DEF last, second
  <2>4. ASSUME NEW x \in last.lines, x.section = d[1], x.role = d[2]
        PROVE  d \in second /\ x = line(d, amounts[d[1]][d[2]], 0)
    <3>1. PICK e \in second : x = line(e, amounts[e[1]][e[2]], 0)
      BY <2>1
    <3>2. x.section = e[1] /\ x.role = e[2]
      BY <2>3, <3>1
    <3>3. e = d
      BY <1>2, <2>2, <2>4, <3>2
    <3> QED BY <3>1, <3>3
  <2>5. CASE d \notin second
    <3>1. \A x \in last.lines : ~ (x.section = d[1] /\ x.role = d[2])
      BY <2>4, <2>5
    <3> QED BY <2>5, <3>1, PaidByNone
  <2>6. CASE d \in second
    <3> DEFINE row == line(d, amounts[d[1]][d[2]], 0)
    <3>1. row \in last.lines /\ row.section = d[1] /\ row.role = d[2] /\ row.debit = a /\ row.surcharge = 0
      BY <2>1, <2>3, <2>6
    <3>2. \A x \in last.lines : x.section = d[1] /\ x.role = d[2] => x = row
      BY <2>4
    <3>3. PICK m \in Nat : m = a
      BY <1>2
    <3> HIDE DEF row
    <3>4. row.debit - row.surcharge = a /\ row.debit - row.surcharge \in Int
      BY <3>1, <3>3
    <3>5. PaidBy(last, d) = row.debit - row.surcharge
      <4> HIDE DEF last
      <4> QED BY ONLY <3>1, <3>2, <3>4, PaidByOne
    <3> QED BY <2>6, <3>4, <3>5
  <2> QED BY <2>5, <2>6
<1>6. A \in Seq(S) /\ B \in Seq(S)
  <2>1. all \in [1..n -> S] /\ last \in S
    OBVIOUS
  <2> HIDE DEF all, last, S
  <2> QED BY <2>1
<1>7. \A f24 \in S : PaidBy(f24, d) \in Int
  <2> HIDE DEF all, last
  <2> QED BY <1>2, <1>4, <1>5
<1>8. PaidFor(A, d) = IF d \in C THEN PaidOff(d, amounts, start, n) ELSE 0
  <2> HIDE DEF all, C
  <2>1. CASE C = {}
    BY <2>1, PaidForShort
  <2>2. CASE C # {}
    BY <1>4, <2>2
  <2> QED BY <2>1, <2>2
<1>9. PaidFor(B, d) = IF d \in second THEN a ELSE 0
  <2> HIDE DEF last, second
  <2>1. CASE second = {}
    BY <2>1, PaidForShort
  <2>2. CASE second # {}
    <3>1. PaidBy(last, d) \in Int
      BY <1>2, <1>5
    <3>2. PaidFor(<<last>>, d) = PaidBy(last, d)
      BY <3>1, PaidForShort
    <3> QED BY <1>5, <2>2, <3>2
  <2> QED BY <2>1, <2>2
<1>10. /\ d \in C <=> d[1] \in sections(scheme) /\ d[2] \in Splittable /\ a > 0
       /\ d \in second <=> d[1] \in sections(scheme) /\ d[2] = "SECOND_ADVANCE" /\ a > 0
       /\ d[2] \in Splittable <=> d[2] # "SECOND_ADVANCE"
  <2>1. d \in C <=> d[1] \in sections(scheme) /\ d[2] \in Splittable /\ a > 0
    BY <1>2 DEF Components
  <2>2. d \in second <=> d[1] \in sections(scheme) /\ d[2] = "SECOND_ADVANCE" /\ a > 0
    BY <1>2
  <2>3. d[2] \in Splittable <=> d[2] # "SECOND_ADVANCE"
    BY <1>2 DEF Splittable, Roles
  <2> QED BY <2>1, <2>2, <2>3
<1> HIDE DEF A, B, S, C, second
<1>11. PaidFor(A \o B, d) = PaidFor(A, d) + PaidFor(B, d) /\ A \o B \in Seq(S)
  <2>1. A \in Seq(S)
    BY <1>6
  <2>2. B \in Seq(S)
    BY <1>6
  <2>3. PaidFor(A \o B, d) = PaidFor(A, d) + PaidFor(B, d)
    BY <1>7, <2>1, <2>2, PaidForConcat
  <2> QED BY <2>1, <2>2, <2>3, ConcatProperties
<1>12. PaidFor(A \o B, d) = IF d \in C THEN PaidOff(d, amounts, start, n) ELSE IF d[1] \in sections(scheme) THEN a ELSE 0
  <2>1. PICK m \in Nat : m = a
    BY <1>2
  <2>2. PICK t \in Int : t = PaidOff(d, amounts, start, n)
    <3>1. PICK x \in 0..(n - 1) : x = Missing(d, m, start, n)
      BY SharesCount DEF Shares
    <3> QED BY <2>1, <3>1 DEF PaidOff
  <2> QED BY <1>8, <1>9, <1>10, <1>11, <2>1, <2>2
<1> QED
  BY <1>1, <1>7, <1>11, <1>12 DEF C

\* What is taken of an amount is a part of it; what is taken of all of them is what there is, up to their sum.
LEMMA TakenIs ==
  ASSUME NEW s, NEW a \in Nat, NEW k \in Nat, \A j \in 1..(k + 1) : s[j] \in Nat
  PROVE  /\ Taken(s, a, k + 1) \in 0..s[k + 1]
         /\ AtMost(a, SumFunctionOnSet(s, 1..(k + 1))) = AtMost(a, SumFunctionOnSet(s, 1..k)) + Taken(s, a, k + 1)
<1>1. SumFunctionOnSet(s, 1..k) \in Nat
  <2>1. IsFiniteSet(1..k)
    BY FS_Interval
  <2>2. \A j \in 1..k : s[j] \in Nat
    OBVIOUS
  <2> QED BY <2>1, <2>2, SumIn
<1>2. SumFunctionOnSet(s, 1..(k + 1)) = SumFunctionOnSet(s, 1..k) + s[k + 1]
  <2>1. \A j \in 1..(k + 1) : s[j] \in Int
    OBVIOUS
  <2> QED BY <2>1, SumNext
<1>3. Taken(s, a, k + 1) = AtMost(s[k + 1], AtLeast(0, a - SumFunctionOnSet(s, 1..k)))
  <2>1. (k + 1) - 1 = k
    OBVIOUS
  <2>2. Taken(s, a, k + 1) = AtMost(s[k + 1], AtLeast(0, a - SumFunctionOnSet(s, 1..((k + 1) - 1))))
    BY DEF Taken, MapThenSumSet, SumFunctionOnSet, FoldFunctionOnSet
  <2> QED BY <2>1, <2>2
<1>4. PICK b \in Nat : b = SumFunctionOnSet(s, 1..k)
  BY <1>1
<1>5. PICK c \in Nat : c = s[k + 1]
  OBVIOUS
<1>6. AtMost(c, AtLeast(0, a - b)) \in 0..c /\ AtMost(a, b + c) = AtMost(a, b) + AtMost(c, AtLeast(0, a - b))
  BY DEF AtMost, AtLeast
<1> QED
  BY <1>2, <1>3, <1>4, <1>5, <1>6

\* What is taken of the amounts one after the other adds up to the amount, or to all of them.
LEMMA TakenSum ==
  ASSUME NEW s, NEW a \in Nat, NEW n \in Nat, \A k \in 1..n : s[k] \in Nat, NEW f, \A k \in 1..n : f[k] = Taken(s, a, k)
  PROVE  /\ \A k \in 1..n : f[k] \in 0..s[k]
         /\ SumFunctionOnSet(f, 1..n) = AtMost(a, SumFunctionOnSet(s, 1..n))
<1>1. ASSUME NEW k \in Nat, k + 1 <= n
      PROVE  /\ f[k + 1] \in 0..s[k + 1]
             /\ AtMost(a, SumFunctionOnSet(s, 1..(k + 1))) = AtMost(a, SumFunctionOnSet(s, 1..k)) + f[k + 1]
  <2>1. \A j \in 1..(k + 1) : s[j] \in Nat
    BY <1>1
  <2>2. f[k + 1] = Taken(s, a, k + 1)
    BY <1>1
  <2> QED BY <2>1, <2>2, TakenIs
<1>2. \A k \in 1..n : f[k] \in 0..s[k]
  <2> SUFFICES ASSUME NEW k \in 1..n PROVE f[k] \in 0..s[k]
    OBVIOUS
  <2>1. PICK m \in Nat : k = m + 1
    <3>1. k - 1 \in Nat /\ k = (k - 1) + 1
      OBVIOUS
    <3> QED BY <3>1
  <2>2. m + 1 <= n
    BY <2>1
  <2> QED BY <1>1, <2>1, <2>2
<1> DEFINE T == {k \in Nat : k <= n => SumFunctionOnSet(f, 1..k) = AtMost(a, SumFunctionOnSet(s, 1..k))}
<1>3. 0 \in T
  <2>1. 1..0 = {}
    OBVIOUS
  <2>2. SumFunctionOnSet(f, 1..0) = 0 /\ SumFunctionOnSet(s, 1..0) = 0
    BY <2>1, SumEmpty
  <2> QED BY <2>2 DEF AtMost
<1>4. ASSUME NEW k \in Nat, k \in T PROVE k + 1 \in T
  <2>1. SUFFICES ASSUME k + 1 <= n PROVE SumFunctionOnSet(f, 1..(k + 1)) = AtMost(a, SumFunctionOnSet(s, 1..(k + 1)))
    OBVIOUS
  <2>2. \A j \in 1..(k + 1) : f[j] \in Int
    <3> SUFFICES ASSUME NEW j \in 1..(k + 1) PROVE f[j] \in Int
      OBVIOUS
    <3>1. j \in 1..n
      BY <2>1
    <3> QED BY <1>2, <3>1
  <2>3. SumFunctionOnSet(f, 1..(k + 1)) = SumFunctionOnSet(f, 1..k) + f[k + 1]
    BY <2>2, SumNext
  <2>4. SumFunctionOnSet(f, 1..k) = AtMost(a, SumFunctionOnSet(s, 1..k))
    BY <1>4, <2>1
  <2> QED BY <1>1, <2>1, <2>3, <2>4
<1>5. \A k \in Nat : k \in T
  <2> HIDE DEF T
  <2> QED BY <1>3, <1>4, NumbersFrom0
<1> QED
  BY <1>2, <1>5

\* Two pairs put together.
LEMMA ConcatTwo ==
  ASSUME NEW S, NEW p \in Seq(S), NEW q \in Seq(S), Len(p) = 2, Len(q) = 2
  PROVE  DOMAIN (p \o q) = 1..4 /\ (p \o q)[1] = p[1] /\ (p \o q)[2] = p[2] /\ (p \o q)[3] = q[1] /\ (p \o q)[4] = q[2]
<1>1. p \o q \in Seq(S) /\ Len(p \o q) = 4 /\ \A i \in 1..4 : (p \o q)[i] = IF i <= 2 THEN p[i] ELSE q[i - 2]
  BY ConcatProperties
<1>2. DOMAIN (p \o q) = 1..4
  BY <1>1, LenProperties
<1> QED
  BY <1>1, <1>2

\* The debts that credits may cover are the balances and first advances, each once.
Lists(debts, scheme, n) ==
  /\ DOMAIN debts = 1..n
  /\ \A k \in 1..n : debts[k] \in sections(scheme) \X Splittable
  /\ \A j, k \in 1..n : debts[j] = debts[k] => j = k
  /\ \A e \in sections(scheme) \X Splittable : \E k \in 1..n : debts[k] = e

\* A compensation looks at each debt of the scheme once.
LEMMA DebtsOrdered ==
  ASSUME NEW scheme, NEW order
  PROVE  \E n \in Nat : Lists(DebtsInOrder(scheme, order), scheme, n)
<1> DEFINE P(s)      == <<<<s, "BALANCE">>, <<s, "FIRST_ADVANCE">>>>
           T         == Sections \X Splittable
           ok(debts) == \E n \in Nat : Lists(debts, scheme, n)
<1>1. P("TREASURY") \in Seq(T) /\ P("INPS") \in Seq(T) /\ <<>> \in Seq(T)
  BY DEF Sections, Splittable
<1>2. CASE sections(scheme) = {"TREASURY"}
  <2>1. DebtsInOrder(scheme, order) = P("TREASURY")
    <3>1. P("TREASURY") \o <<>> = P("TREASURY") /\ <<>> \o P("TREASURY") = P("TREASURY")
      BY <1>1, ConcatEmptySeq
    <3> HIDE DEF P
    <3>2. DebtsInOrder(scheme, order) \in {P("TREASURY") \o <<>>, <<>> \o P("TREASURY")}
      BY <1>2 DEF DebtsInOrder, P
    <3> QED BY <3>1, <3>2
  <2>2. ok(P("TREASURY"))
    <3>1. DOMAIN P("TREASURY") = 1..2 /\ P("TREASURY")[1] = <<"TREASURY", "BALANCE">> /\ P("TREASURY")[2] = <<"TREASURY", "FIRST_ADVANCE">>
      OBVIOUS
    <3> HIDE DEF P
    <3>2. \A k \in 1..2 : k = 1 \/ k = 2
      OBVIOUS
    <3>3. \A e \in sections(scheme) \X Splittable : e = <<"TREASURY", "BALANCE">> \/ e = <<"TREASURY", "FIRST_ADVANCE">>
      BY <1>2 DEF Splittable
    <3>4. \A k \in 1..2 : P("TREASURY")[k] \in sections(scheme) \X Splittable
      BY <1>2, <3>1, <3>2 DEF Splittable
    <3>5. <<"TREASURY", "BALANCE">> # <<"TREASURY", "FIRST_ADVANCE">> /\ 2 \in Nat /\ 1 \in 1..2 /\ 2 \in 1..2
      OBVIOUS
    <3>6. \A j, k \in 1..2 : P("TREASURY")[j] = P("TREASURY")[k] => j = k
      BY <3>1, <3>2, <3>5
    <3>7. \A e \in sections(scheme) \X Splittable : \E k \in 1..2 : P("TREASURY")[k] = e
      BY <3>1, <3>3, <3>5
    <3> QED BY <3>1, <3>4, <3>5, <3>6, <3>7 DEF Lists
  <2> QED BY <2>1, <2>2
<1>3. CASE sections(scheme) = {"TREASURY", "INPS"}
  <2>1. DebtsInOrder(scheme, order) \in {P("TREASURY") \o P("INPS"), P("INPS") \o P("TREASURY")}
    BY <1>3 DEF DebtsInOrder
  <2>2. ASSUME NEW s \in Sections, NEW t \in Sections, s # t PROVE ok(P(s) \o P(t))
    <3> DEFINE x == P(s) \o P(t)
    <3>1. P(s) \in Seq(T) /\ P(t) \in Seq(T) /\ Len(P(s)) = 2 /\ Len(P(t)) = 2
      BY <1>1 DEF Sections
    <3>2. DOMAIN x = 1..4 /\ x[1] = P(s)[1] /\ x[2] = P(s)[2] /\ x[3] = P(t)[1] /\ x[4] = P(t)[2]
      <4> HIDE DEF P, T
      <4> QED BY <3>1, ConcatTwo
    <3>3. DOMAIN x = 1..4
      BY <3>2
    <3>4. x[1] = <<s, "BALANCE">> /\ x[2] = <<s, "FIRST_ADVANCE">> /\ x[3] = <<t, "BALANCE">> /\ x[4] = <<t, "FIRST_ADVANCE">>
      BY <3>2
    <3> HIDE DEF x
    <3>5. \A k \in 1..4 : k = 1 \/ k = 2 \/ k = 3 \/ k = 4
      OBVIOUS
    <3>6. sections(scheme) = {s, t}
      BY <1>3, <2>2 DEF Sections
    <3>7. \A k \in 1..4 : x[k] \in sections(scheme) \X Splittable
      BY <3>4, <3>5, <3>6 DEF Splittable
    <3>8. /\ <<s, "BALANCE">> # <<s, "FIRST_ADVANCE">> /\ <<s, "BALANCE">> # <<t, "BALANCE">> /\ <<s, "BALANCE">> # <<t, "FIRST_ADVANCE">>
          /\ <<s, "FIRST_ADVANCE">> # <<t, "BALANCE">> /\ <<s, "FIRST_ADVANCE">> # <<t, "FIRST_ADVANCE">> /\ <<t, "BALANCE">> # <<t, "FIRST_ADVANCE">>
      BY <2>2
    <3>9. \A j, k \in 1..4 : x[j] = x[k] => j = k
      BY <3>4, <3>5, <3>8
    <3>10. \A e \in sections(scheme) \X Splittable : e = x[1] \/ e = x[2] \/ e = x[3] \/ e = x[4]
      BY <3>4, <3>6 DEF Splittable
    <3>11. 4 \in Nat /\ 1 \in 1..4 /\ 2 \in 1..4 /\ 3 \in 1..4 /\ 4 \in 1..4
      OBVIOUS
    <3>12. \A e \in sections(scheme) \X Splittable : \E k \in 1..4 : x[k] = e
      BY <3>10, <3>11
    <3> QED BY <3>3, <3>7, <3>9, <3>11, <3>12 DEF Lists, x
  <2>3. "TREASURY" \in Sections /\ "INPS" \in Sections /\ "TREASURY" # "INPS"
    BY DEF Sections
  <2>4. ok(DebtsInOrder(scheme, order))
    <3> HIDE DEF ok, P
    <3> QED BY <2>1, <2>2, <2>3
  <2> QED BY <2>4
<1> QED
  BY <1>2, <1>3 DEF sections

\* When less is taken of an amount than it is, nothing is taken of a later one.
LEMMA TakenInOrder ==
  ASSUME NEW s, NEW a \in Nat, NEW n \in Nat, \A i \in 1..n : s[i] \in Nat, NEW j \in 1..n, NEW k \in 1..n, j < k, Taken(s, a, j) < s[j]
  PROVE  Taken(s, a, k) = 0
<1> DEFINE J == 1..(j - 1)
           K == 1..(k - 1)
<1>1. J \cup {j} \subseteq K /\ j \notin J /\ K \subseteq 1..n
  OBVIOUS
<1>2. IsFiniteSet(J) /\ IsFiniteSet(K) /\ IsFiniteSet(J \cup {j}) /\ IsFiniteSet(K \ (J \cup {j}))
  <2>1. j - 1 \in Int /\ k - 1 \in Int
    OBVIOUS
  <2>3. \A m \in Int : IsFiniteSet(1..m)
    BY FS_Interval
  <2>2. IsFiniteSet(J) /\ IsFiniteSet(K)
    BY <2>1, <2>3
  <2> HIDE DEF J, K
  <2> QED BY <1>1, <2>2, FS_Subset
<1>3. \A i \in K : s[i] \in Nat /\ s[i] \in Int
  BY <1>1
<1>4. /\ Taken(s, a, j) = AtMost(s[j], AtLeast(0, a - SumFunctionOnSet(s, J)))
      /\ Taken(s, a, k) = AtMost(s[k], AtLeast(0, a - SumFunctionOnSet(s, K)))
  BY DEF Taken, MapThenSumSet, SumFunctionOnSet, FoldFunctionOnSet
<1> HIDE DEF J, K
<1>5. SumFunctionOnSet(s, J) + s[j] <= SumFunctionOnSet(s, K) /\ SumFunctionOnSet(s, J) \in Nat /\ SumFunctionOnSet(s, K) \in Nat
  <2> DEFINE A == J \cup {j}
             B == K \ A
  <2>1. A \cup B = K /\ A \cap B = {} /\ IsFiniteSet(A) /\ IsFiniteSet(B)
    BY <1>1, <1>2
  <2>2. (\A i \in A \cup B : s[i] \in Int) /\ (\A i \in B : s[i] \in Nat) /\ (\A i \in J : s[i] \in Nat) /\ \A i \in A : s[i] \in Int
    BY <1>1, <1>3
  <2>3. SumFunctionOnSet(s, A) = s[j] + SumFunctionOnSet(s, J)
    BY <1>1, <1>2, <2>2, SumAdd
  <2> HIDE DEF A, B
  <2>4. SumFunctionOnSet(s, K) = SumFunctionOnSet(s, A) + SumFunctionOnSet(s, B)
    BY <2>1, <2>2, SumUnion
  <2>5. SumFunctionOnSet(s, B) \in Nat /\ SumFunctionOnSet(s, J) \in Nat /\ SumFunctionOnSet(s, K) \in Nat
    BY <1>2, <1>3, <2>1, <2>2, SumIn
  <2>6. s[j] \in Nat
    OBVIOUS
  <2> QED BY <2>3, <2>4, <2>5, <2>6
<1>6. PICK x \in Nat, y \in Nat, u \in Nat, v \in Nat : x = SumFunctionOnSet(s, J) /\ y = SumFunctionOnSet(s, K) /\ u = s[j] /\ v = s[k]
  BY <1>5
<1>7. x + u <= y /\ AtMost(u, AtLeast(0, a - x)) < u
  BY <1>4, <1>5, <1>6
<1>8. AtMost(v, AtLeast(0, a - y)) = 0
  BY <1>7 DEF AtMost, AtLeast
<1> QED
  BY <1>4, <1>6, <1>8

\* Finitely many rows; those that pay debts pay amounts.
LinesSound(lines) == IsFiniteSet(lines) /\ \A l \in lines : l.role \in Roles => l.debit - l.surcharge \in Int

\* While something of a debt is left, the debts after it are not touched.
InOrder(c, due, debts) ==
  \A j, k \in DOMAIN debts : j < k /\ c.due[debts[j][1]][debts[j][2]] > 0 => c.due[debts[k][1]][debts[k][2]] = due[debts[k][1]][debts[k][2]]

\* What a compensation promises: each debt goes down by what its form pays of it, no credit is used beyond its amount, all
\* together are used for what the rows of the form come to, and nothing of a balance or of a first advance is left while
\* credits are.
Covers(c, scheme, due, credits, order) ==
  /\ LinesSound(c.lines) /\ \A l \in c.lines : l.debit \in Nat /\ l.debit > 0 /\ l.surcharge = 0
  /\ \A d \in Sections \X Roles :
       /\ c.due[d[1]][d[2]] \in 0..due[d[1]][d[2]]
       /\ \A f24 : f24.lines = c.lines => PaidBy(f24, d) = due[d[1]][d[2]] - c.due[d[1]][d[2]]
  /\ DOMAIN c.usages = DOMAIN credits
  /\ \A k \in DOMAIN credits : c.usages[k] \in 0..credits[k]
  /\ SumFunction(c.usages) = SumFunction([l \in c.lines |-> l.debit])
  /\ SumFunction(c.usages) = SumFunction([d \in sections(scheme) \X Roles |-> due[d[1]][d[2]] - c.due[d[1]][d[2]]])
  /\ (\E d \in sections(scheme) \X Splittable : c.due[d[1]][d[2]] > 0) => SumFunction(c.usages) = SumFunction(credits)
  /\ InOrder(c, due, DebtsInOrder(scheme, order))
  /\ \A s \in Sections : c.due[s]["SECOND_ADVANCE"] = due[s]["SECOND_ADVANCE"]

\* A compensation keeps its promise for any debts and credits, whichever section comes first (f24-schedule.ts, buildCompensation).
THEOREM CreditsCover ==
  ASSUME NEW scheme, NEW due, \A s \in Sections, r \in Roles : due[s][r] \in Nat, NEW credits \in Seq(Nat), NEW order
  PROVE  Covers(Compensation(scheme, due, credits, order), scheme, due, credits, order)
<1> DEFINE debts     == DebtsInOrder(scheme, order)
           of        == [k \in DOMAIN debts |-> due[debts[k][1]][debts[k][2]]]
           available == SumFunctionOnSet(credits, DOMAIN credits)
           taken      == [k \in DOMAIN debts |-> Taken(of, available, k)]
           covered   == SumFunctionOnSet(taken, DOMAIN debts)
           paid(d)   == SumFunction([k \in DOMAIN debts |-> IF debts[k] = d THEN taken[k] ELSE 0])
           usages    == [k \in DOMAIN credits |-> Taken(credits, covered, k)]
           lines     == {line(debts[k], taken[k], 0) : k \in {j \in DOMAIN debts : taken[j] > 0}}
           left      == [s \in Sections |-> [r \in Roles |-> due[s][r] - paid(<<s, r>>)]]
           c         == Compensation(scheme, due, credits, order)
<1>1. c.lines = lines /\ c.usages = usages /\ c.due = left
  BY DEF Compensation, Covered, MapThenSumSet, SumFunctionOnSet, FoldFunctionOnSet
<1>0. \E n \in Nat : Lists(debts, scheme, n)
  BY DebtsOrdered
<1> HIDE DEF debts
<1> PICK n \in Nat : Lists(debts, scheme, n)
  BY <1>0
<1>2. /\ DOMAIN debts = 1..n /\ (\A k \in 1..n : debts[k] \in sections(scheme) \X Splittable)
      /\ \A j, k \in 1..n : debts[j] = debts[k] => j = k
      /\ \A e \in sections(scheme) \X Splittable : \E k \in 1..n : debts[k] = e
  BY DEF Lists
<1>3. sections(scheme) \subseteq Sections /\ Splittable \subseteq Roles
  BY DEF sections, Sections, Splittable, Roles
<1>28. \A k \in 1..n : debts[k] \in Sections \X Roles
  <2>1. sections(scheme) \X Splittable \subseteq Sections \X Roles
    BY ONLY <1>3
  <2> QED BY ONLY <1>2, <2>1
<1>4. \A k \in 1..n : of[k] \in Nat /\ of[k] = due[debts[k][1]][debts[k][2]]
  BY <1>2, <1>3
<1>5. DOMAIN credits = 1..Len(credits) /\ Len(credits) \in Nat /\ \A k \in 1..Len(credits) : credits[k] \in Nat
  BY LenProperties, ElementOfSeq
<1>6. IsFiniteSet(1..n) /\ IsFiniteSet(1..Len(credits))
  BY <1>5, FS_Interval
<1>7. available \in Nat
  BY <1>5, <1>6, SumIn
<1> HIDE DEF of, available
<1>8. (\A k \in 1..n : taken[k] \in 0..of[k]) /\ covered = AtMost(available, SumFunctionOnSet(of, 1..n))
  <2>1. \A k \in 1..n : taken[k] = Taken(of, available, k)
    BY <1>2
  <2> HIDE DEF taken
  <2>2. (\A k \in 1..n : taken[k] \in 0..of[k]) /\ SumFunctionOnSet(taken, 1..n) = AtMost(available, SumFunctionOnSet(of, 1..n))
    <3>1. \A k \in 1..n : of[k] \in Nat
      BY <1>4
    <3> QED BY <1>7, <2>1, <3>1, TakenSum, ZenonT(60)
  <2> QED BY <1>2, <2>2
<1>9. SumFunctionOnSet(of, 1..n) \in Nat
  BY <1>4, <1>6, SumIn
<1>10. covered \in Nat /\ AtMost(covered, available) = covered
  <2> HIDE DEF covered
  <2>1. PICK o \in Nat : o = SumFunctionOnSet(of, 1..n)
    BY <1>9
  <2> QED BY <1>7, <1>8, <2>1 DEF AtMost
<1>11. (\A k \in 1..Len(credits) : usages[k] \in 0..credits[k]) /\ SumFunctionOnSet(usages, 1..Len(credits)) = covered
  <2>1. \A k \in 1..Len(credits) : usages[k] = Taken(credits, covered, k)
    BY <1>5
  <2>2. available = SumFunctionOnSet(credits, 1..Len(credits))
    BY <1>5 DEF available
  <2> HIDE DEF usages, covered
  <2>3. /\ \A k \in 1..Len(credits) : usages[k] \in 0..credits[k]
        /\ SumFunctionOnSet(usages, 1..Len(credits)) = AtMost(covered, SumFunctionOnSet(credits, 1..Len(credits)))
    <3>1. Len(credits) \in Nat
      BY <1>5
    <3>2. \A k \in 1..Len(credits) : credits[k] \in Nat
      BY <1>5
    <3>3. covered \in Nat
      BY <1>10
    <3> QED BY <2>1, <3>1, <3>2, <3>3, TakenSum, ZenonT(60)
  <2> QED BY <1>10, <2>2, <2>3
<1> HIDE DEF taken, covered, usages
<1>23. ASSUME NEW j \in 1..n, NEW k \in 1..n, j < k, taken[j] < of[j] PROVE taken[k] = 0
  <2>1. Taken(of, available, j) < of[j] /\ \A i \in 1..n : of[i] \in Nat
    BY <1>2, <1>4, <1>23 DEF taken
  <2>2. Taken(of, available, k) = 0
    BY <1>7, <1>23, <2>1, TakenInOrder, ZenonT(60)
  <2> QED BY <1>2, <2>2 DEF taken
<1>12. ASSUME NEW k \in 1..n PROVE paid(debts[k]) = taken[k] /\ taken[k] \in Nat /\ taken[k] <= of[k]
  <2> DEFINE f == [j \in DOMAIN debts |-> IF debts[j] = debts[k] THEN taken[j] ELSE 0]
  <2>1. taken[k] \in Nat /\ taken[k] <= of[k]
    BY <1>4, <1>8
  <2>2. paid(debts[k]) = SumFunctionOnSet(f, 1..n)
    BY <1>2 DEF SumFunction
  <2>3. f[k] = taken[k] /\ \A j \in (1..n) \ {k} : f[j] = 0
    BY <1>2
  <2> HIDE DEF f
  <2>4. f[k] \in Int
    BY <2>1, <2>3
  <2>5. SumFunctionOnSet(f, 1..n) = f[k]
    BY <1>6, <2>3, <2>4, SumOne
  <2> QED BY <2>1, <2>2, <2>3, <2>5
<1>13. ASSUME NEW d, \A k \in 1..n : debts[k] # d PROVE paid(d) = 0
  <2> DEFINE f == [j \in DOMAIN debts |-> IF debts[j] = d THEN taken[j] ELSE 0]
  <2>1. paid(d) = SumFunctionOnSet(f, 1..n)
    BY <1>2 DEF SumFunction
  <2>2. \A j \in 1..n : f[j] = 0
    BY <1>2, <1>13
  <2> HIDE DEF f
  <2>3. SumFunctionOnSet(f, 1..n) = 0 * Cardinality(1..n) /\ Cardinality(1..n) \in Nat
    BY <1>6, <2>2, SumEqual, FS_CardinalityType
  <2> QED BY <2>1, <2>3
<1> HIDE DEF paid
<1>14. \A d \in Sections \X Roles : left[d[1]][d[2]] = due[d[1]][d[2]] - paid(d) /\ due[d[1]][d[2]] \in Nat
  <2> SUFFICES ASSUME NEW s \in Sections, NEW r \in Roles PROVE left[s][r] = due[s][r] - paid(<<s, r>>) /\ due[s][r] \in Nat
    OBVIOUS
  <2> QED OBVIOUS
<1> HIDE DEF left
<1>15. ASSUME NEW d \in Sections \X Roles, NEW f24, f24.lines = lines
       PROVE  PaidBy(f24, d) = paid(d) /\ paid(d) \in 0..due[d[1]][d[2]]
  <2>1. \A x \in f24.lines : \E k \in 1..n : taken[k] > 0 /\ x = line(debts[k], taken[k], 0) /\ x.section = debts[k][1] /\ x.role = debts[k][2]
    BY <1>2, <1>15 DEF line
  <2>2. d = <<d[1], d[2]>> /\ \A k \in 1..n : debts[k] = <<debts[k][1], debts[k][2]>>
    BY <1>2
  <2>3. CASE \A k \in 1..n : debts[k] # d
    <3>1. \A x \in f24.lines : ~ (x.section = d[1] /\ x.role = d[2])
      BY <2>1, <2>2, <2>3
    <3>2. PaidBy(f24, d) = 0
      BY <3>1, PaidByNone
    <3> QED BY <1>13, <1>14, <2>3, <3>2
  <2>4. ASSUME NEW k \in 1..n, debts[k] = d PROVE PaidBy(f24, d) = paid(d) /\ paid(d) \in 0..due[d[1]][d[2]]
    <3>1. paid(d) = taken[k] /\ taken[k] \in Nat /\ taken[k] <= of[k] /\ of[k] = due[d[1]][d[2]]
      BY <1>4, <1>12, <2>4
    <3>2. paid(d) \in 0..due[d[1]][d[2]]
      BY <1>14, <3>1
    <3>3. CASE taken[k] = 0
      <4>1. \A x \in f24.lines : ~ (x.section = d[1] /\ x.role = d[2])
        <5> SUFFICES ASSUME NEW x \in f24.lines, x.section = d[1], x.role = d[2] PROVE FALSE
          OBVIOUS
        <5>1. PICK j \in 1..n : taken[j] > 0 /\ x.section = debts[j][1] /\ x.role = debts[j][2]
          BY <2>1
        <5>2. debts[j] = d
          BY <2>2, <5>1
        <5>3. j = k
          BY <1>2, <2>4, <5>2
        <5> QED BY <3>3, <5>1, <5>3
      <4> QED BY <3>1, <3>2, <3>3, <4>1, PaidByNone
    <3>4. CASE taken[k] > 0
      <4> DEFINE row == line(debts[k], taken[k], 0)
      <4>1. row \in f24.lines
        BY <1>2, <1>15, <3>4
      <4>2. row.section = d[1] /\ row.role = d[2] /\ row.debit = taken[k] /\ row.surcharge = 0
        BY <2>4 DEF line
      <4>3. \A x \in f24.lines : x.section = d[1] /\ x.role = d[2] => x = row
        <5> SUFFICES ASSUME NEW x \in f24.lines, x.section = d[1], x.role = d[2] PROVE x = row
          OBVIOUS
        <5>1. PICK j \in 1..n : x = line(debts[j], taken[j], 0) /\ x.section = debts[j][1] /\ x.role = debts[j][2]
          BY <2>1
        <5>2. debts[j] = d
          BY <2>2, <5>1
        <5>3. j = k
          BY <1>2, <2>4, <5>2
        <5> QED BY <5>1, <5>3
      <4> HIDE DEF row
      <4>4. row.debit - row.surcharge = taken[k] /\ row.debit - row.surcharge \in Int
        BY <3>1, <4>2
      <4> QED BY <3>1, <3>2, <4>1, <4>2, <4>3, <4>4, PaidByOne
    <3> QED BY <3>1, <3>3, <3>4
  <2> QED BY <2>3, <2>4
<1>16. ASSUME NEW d \in Sections \X Roles
       PROVE  /\ left[d[1]][d[2]] \in 0..due[d[1]][d[2]]
              /\ \A f24 : f24.lines = lines => PaidBy(f24, d) = due[d[1]][d[2]] - left[d[1]][d[2]]
  <2>1. [lines |-> lines].lines = lines
    OBVIOUS
  <2>2. paid(d) \in 0..due[d[1]][d[2]]
    BY <1>15, <2>1
  <2>3. PICK m \in Nat : m = due[d[1]][d[2]]
    BY <1>14
  <2>4. PICK p \in 0..m : p = paid(d)
    BY <2>2, <2>3
  <2>5. left[d[1]][d[2]] = m - p
    BY <1>14, <2>3, <2>4
  <2>6. m - p \in 0..m /\ m - (m - p) = p
    BY ONLY m \in Nat, p \in 0..m
  <2> HIDE DEF left
  <2>7. left[d[1]][d[2]] \in 0..due[d[1]][d[2]] /\ due[d[1]][d[2]] - left[d[1]][d[2]] = paid(d)
    BY ONLY <2>3, <2>4, <2>5, <2>6
  <2> QED BY <1>15, <2>7
<1>17. ASSUME NEW d \in sections(scheme) \X Splittable, left[d[1]][d[2]] > 0 PROVE covered = available
  <2>1. PICK k \in 1..n : debts[k] = d
    BY <1>2
  <2>2. d \in Sections \X Roles
    BY <1>3
  <2>3. taken[k] < of[k]
    <3>1. left[d[1]][d[2]] = of[k] - taken[k] /\ of[k] \in Nat /\ taken[k] \in Nat
      BY <1>4, <1>12, <1>14, <2>1, <2>2
    <3> QED BY <1>17, <3>1
  <2>4. covered < SumFunctionOnSet(of, 1..n)
    <3>1. ASSUME NEW j \in 1..n PROVE taken[j] \in Int /\ of[j] \in Int /\ taken[j] <= of[j]
      <4>1. taken[j] \in Nat /\ taken[j] <= of[j]
        BY <1>12
      <4>2. of[j] \in Nat
        BY <1>4
      <4> QED BY <4>1, <4>2
    <3>2. SumFunctionOnSet(taken, 1..n) < SumFunctionOnSet(of, 1..n)
      <4>1. NeverAbove(taken, of, 1..n)
        BY <3>1 DEF NeverAbove
      <4> QED BY <1>6, <2>3, <4>1, SumLess
    <3> QED BY <1>2, <3>2 DEF covered
  <2>5. PICK o \in Nat : o = SumFunctionOnSet(of, 1..n)
    BY <1>9
  <2> QED BY <1>7, <1>8, <2>4, <2>5 DEF AtMost
<1>18. DOMAIN usages = DOMAIN credits
  BY DEF usages
<1>19. SumFunction(usages) = covered /\ SumFunction(credits) = available
  BY <1>5, <1>11, <1>18 DEF SumFunction, available
<1>20. SumFunction([l \in lines |-> l.debit]) = covered
  <2> DEFINE g == [l \in lines |-> l.debit]
             h == [k \in 1..n |-> line(debts[k], taken[k], 0)]
  <2>1. lines = {h[k] : k \in {j \in 1..n : taken[j] > 0}}
    <3>1. DOMAIN debts = 1..n /\ \A k \in 1..n : h[k] = line(debts[k], taken[k], 0)
      BY <1>2
    <3> HIDE DEF h
    <3> QED BY <3>1
  <2>2. \A k \in 1..n : h[k].section = debts[k][1] /\ h[k].role = debts[k][2] /\ h[k].debit = taken[k]
    BY DEF line
  <2>3. \A k \in 1..n : debts[k] = <<debts[k][1], debts[k][2]>> /\ taken[k] \in Nat
    BY <1>2, <1>12
  <2>4. SumFunction(g) = SumFunctionOnSet(g, lines)
    BY DEF SumFunction
  <2>5. \A l \in lines : g[l] = l.debit
    OBVIOUS
  <2> HIDE DEF g, h, lines
  <2>6. \A j, k \in 1..n : h[j] = h[k] => j = k
    <3> SUFFICES ASSUME NEW j \in 1..n, NEW k \in 1..n, h[j] = h[k] PROVE j = k
      OBVIOUS
    <3>1. debts[j][1] = debts[k][1] /\ debts[j][2] = debts[k][2]
      BY <2>2
    <3>2. debts[j] = debts[k]
      BY <2>3, <3>1
    <3> QED BY <1>2, <3>2
  <2>7. \A k \in 1..n : taken[k] \in Nat /\ (taken[k] > 0 => g[h[k]] = taken[k])
    BY <2>1, <2>2, <2>3, <2>5
  <2>8. SumFunctionOnSet(g, {h[k] : k \in {j \in 1..n : taken[j] > 0}}) = SumFunctionOnSet(taken, 1..n)
    <3>1. Renames(g, h, taken, 1..n)
      BY <2>6, <2>7 DEF Renames
    <3> QED BY <1>6, <3>1, SumRenamed
  <2> QED BY <1>2, <2>1, <2>4, <2>8 DEF covered, g
<1>21. LinesSound(lines) /\ \A l \in lines : l.debit \in Nat /\ l.debit > 0 /\ l.surcharge = 0
  <2> DEFINE h == [k \in 1..n |-> line(debts[k], taken[k], 0)]
             J == {j \in 1..n : taken[j] > 0}
  <2>1. lines = {h[k] : k \in J}
    <3>1. DOMAIN debts = 1..n /\ \A k \in 1..n : h[k] = line(debts[k], taken[k], 0)
      BY <1>2
    <3> HIDE DEF h
    <3> QED BY <3>1
  <2>2. \A k \in 1..n : h[k].debit = taken[k] /\ h[k].surcharge = 0 /\ taken[k] \in Nat
    BY <1>12 DEF line
  <2>3. J \subseteq 1..n /\ IsFiniteSet(J) /\ \A k \in J : taken[k] > 0
    BY <1>6, FS_Subset
  <2> HIDE DEF h, lines, J
  <2>4. IsFiniteSet({h[k] : k \in J})
    BY <2>3, ImageFinite
  <2>5. \A l \in lines : l.debit - l.surcharge \in Int /\ l.debit \in Nat /\ l.debit > 0 /\ l.surcharge = 0
    BY <2>1, <2>2, <2>3
  <2> QED BY <2>1, <2>4, <2>5 DEF LinesSound
<1>24. SumFunction([d \in sections(scheme) \X Roles |-> due[d[1]][d[2]] - left[d[1]][d[2]]]) = covered
  <2> DEFINE D == sections(scheme) \X Roles
             F == [d \in D |-> due[d[1]][d[2]] - left[d[1]][d[2]]]
             W == {debts[k] : k \in {j \in 1..n : taken[j] > 0}}
  <2>1. IsFiniteSet(D)
    <3>1. IsFiniteSet(Sections) /\ IsFiniteSet(Roles)
      <4>1. Sections = ({} \cup {"TREASURY"}) \cup {"INPS"} /\ Roles = (({} \cup {"BALANCE"}) \cup {"FIRST_ADVANCE"}) \cup {"SECOND_ADVANCE"}
        BY DEF Sections, Roles, Splittable
      <4> QED BY <4>1, FS_EmptySet, FS_AddElement
    <3>2. IsFiniteSet(sections(scheme))
      BY <1>3, <3>1, FS_Subset
    <3> QED BY <3>1, <3>2, FS_Product
  <2>2. W \subseteq D
    BY <1>2, <1>3
  <2>3. \A d \in D : F[d] = paid(d)
    <3> SUFFICES ASSUME NEW d \in D PROVE F[d] = paid(d)
      OBVIOUS
    <3>1. d \in Sections \X Roles
      BY <1>3
    <3>2. [lines |-> lines].lines = lines
      OBVIOUS
    <3>3. paid(d) \in 0..due[d[1]][d[2]]
      BY <1>15, <3>1, <3>2
    <3>4. left[d[1]][d[2]] = due[d[1]][d[2]] - paid(d) /\ due[d[1]][d[2]] \in Nat
      BY <1>14, <3>1
    <3>5. PICK m \in Nat : m = due[d[1]][d[2]]
      BY <3>4
    <3>6. PICK p \in 0..m : p = paid(d)
      BY <3>3, <3>5
    <3> QED BY <3>4, <3>5, <3>6
  <2>4. \A k \in 1..n : taken[k] \in Nat /\ paid(debts[k]) = taken[k] /\ debts[k] \in D
    BY <1>2, <1>3, <1>12
  <2>5. \A d \in D \ W : F[d] = 0
    <3> SUFFICES ASSUME NEW d \in D \ W PROVE F[d] = 0
      OBVIOUS
    <3>1. CASE \A k \in 1..n : debts[k] # d
      BY <1>13, <2>3, <3>1
    <3>2. ASSUME NEW k \in 1..n, debts[k] = d PROVE F[d] = 0
      <4>1. ~ taken[k] > 0
        BY <3>2
      <4> HIDE DEF F
      <4> QED BY <2>3, <2>4, <3>2, <4>1
    <3> QED BY <3>1, <3>2
  <2>6. SumFunction(F) = SumFunctionOnSet(F, D)
    BY DEF SumFunction
  <2>7. Renames(F, debts, taken, 1..n)
    <3> HIDE DEF F, D
    <3> QED BY <1>2, <2>3, <2>4 DEF Renames
  <2>8. \A d \in W : F[d] \in Int
    <3> HIDE DEF F, D
    <3> QED BY <2>2, <2>3, <2>4
  <2> HIDE DEF F, D
  <2>9. SumFunctionOnSet(F, W) = SumFunctionOnSet(taken, 1..n)
    BY ONLY <1>6, <2>7, SumRenamed DEF W
  <2> HIDE DEF W
  <2>10. SumFunctionOnSet(F, D) = SumFunctionOnSet(F, W)
    <3>1. \A d \in W : F[d] = F[d] /\ F[d] \in Int
      BY <2>8
    <3> QED BY ONLY <2>1, <2>2, <2>5, <3>1, SumPart
  <2> QED BY <1>2, <2>6, <2>9, <2>10 DEF F, D, covered
<1>25. InOrder([due |-> left], due, debts)
  <2> SUFFICES ASSUME NEW j \in 1..n, NEW k \in 1..n, j < k, left[debts[j][1]][debts[j][2]] > 0
               PROVE  left[debts[k][1]][debts[k][2]] = due[debts[k][1]][debts[k][2]]
    BY <1>2 DEF InOrder
  <2>1. ASSUME NEW i \in 1..n
        PROVE  left[debts[i][1]][debts[i][2]] = of[i] - taken[i] /\ of[i] = due[debts[i][1]][debts[i][2]] /\ of[i] \in Nat /\ taken[i] \in Nat
    <3>1. debts[i] \in Sections \X Roles
      BY ONLY <1>28, i \in 1..n
    <3>2. left[debts[i][1]][debts[i][2]] = due[debts[i][1]][debts[i][2]] - paid(debts[i])
      BY <1>14, <3>1
    <3> HIDE DEF left
    <3> QED BY <1>4, <1>12, <3>2
  <2> HIDE DEF left
  <2>2. PICK a \in Nat, b \in Nat : a = of[j] /\ b = taken[j]
    BY ONLY <2>1, j \in 1..n
  <2>3. a - b > 0
    BY ONLY <2>1, <2>2, j \in 1..n, left[debts[j][1]][debts[j][2]] > 0
  <2>4. taken[j] < of[j]
    BY ONLY <2>2, <2>3
  <2>5. taken[k] = 0
    BY <1>23, <2>4
  <2>6. PICK m \in Nat : m = of[k]
    BY ONLY <2>1, k \in 1..n
  <2>7. m - 0 = m
    OBVIOUS
  <2> QED BY ONLY <2>1, <2>5, <2>6, <2>7, k \in 1..n
<1>26. InOrder(c, due, debts)
  BY <1>1, <1>25 DEF InOrder
<1>27. ASSUME NEW s \in Sections PROVE left[s]["SECOND_ADVANCE"] = due[s]["SECOND_ADVANCE"]
  <2> DEFINE d == <<s, "SECOND_ADVANCE">>
  <2>1. d \in Sections \X Roles /\ d[1] = s /\ d[2] = "SECOND_ADVANCE" /\ d[2] \notin Splittable
    BY DEF Roles, Splittable
  <2>2. \A k \in 1..n : debts[k] # d
    BY <1>2, <2>1
  <2> HIDE DEF d
  <2>3. paid(d) = 0
    BY <1>13, <2>2
  <2>4. left[d[1]][d[2]] = due[d[1]][d[2]] - 0 /\ due[d[1]][d[2]] \in Nat
    BY <1>14, <2>1, <2>3
  <2> QED BY <2>1, <2>4
<1> HIDE DEF lines, c
<1>22. c.lines = lines
  BY <1>1 DEF c
<1> QED
  BY <1>1, <1>5, <1>11, <1>16, <1>17, <1>18, <1>19, <1>20, <1>21, <1>22, <1>24, <1>26, <1>27 DEF c, Covers, debts

\* The forms of a plan pay every debt to the cent, without surcharge and interest, whatever part of it credits cover and in
\* however many installments the rest is paid (f24.service.ts, compute; f24-schedule.ts), as long as the surcharge of a debt
\* of the Treasury section can be spread over them.  With fewer cents the last installment is less than its part of the debt,
\* which the rows do not record: they add up to less than the debt, by less than a cent for each of the other installments.
THEOREM DebtsPaid ==
  ASSUME tie \in {0, 1}, NEW q, q.start \in DOMAIN startOptions, q.n \in Nat \ {0},
         \A s \in Sections, r \in Roles : q.due[s][r] \in Nat, q.credits \in Seq(Nat),
         NEW d \in Sections \X Roles, d[1] \in sections(q.scheme) \/ q.due[d[1]][d[2]] = 0
  PROVE  LET owed == q.due[d[1]][d[2]]
             left == Compensation(q.scheme, q.due, q.credits, q.order).due[d[1]][d[2]]
         IN  /\ PaidFor(compute(q), d) \in owed - (q.n - 1)..owed
             /\ d[1] = "INPS" \/ d[2] = "SECOND_ADVANCE" \/ SpreadsOver(Surcharge(left, q.start), q.n) => PaidFor(compute(q), d) = owed
<1> DEFINE c     == Compensation(q.scheme, q.due, q.credits, q.order)
           front == f24Form("COMPENSATION", startOptions[q.start].date, c.lines)
           A     == IF c.lines = {} THEN <<>> ELSE <<front>>
           B     == buildPaymentSchedule(q.scheme, c.due, q.start, q.n)
<1>1. compute(q) = A \o B
  BY DEF compute
<1>2. /\ \A e \in Sections \X Roles : c.due[e[1]][e[2]] \in 0..q.due[e[1]][e[2]]
      /\ \A e \in Sections \X Roles : \A f24 : f24.lines = c.lines => PaidBy(f24, e) = q.due[e[1]][e[2]] - c.due[e[1]][e[2]]
  <2>1. Covers(c, q.scheme, q.due, q.credits, q.order)
    BY CreditsCover
  <2> QED BY <2>1 DEF Covers
<1> HIDE DEF c
<1>3. d \in Sections \X Roles /\ d[1] \in Sections /\ d[2] \in Roles
  OBVIOUS
<1>4. PICK m \in Nat : m = q.due[d[1]][d[2]]
  BY <1>3
<1>5. PICK l \in 0..m : l = c.due[d[1]][d[2]]
  BY <1>2, <1>3, <1>4
<1>6. DebtsTyped(c.due)
  <2>1. ASSUME NEW s \in Sections, NEW r \in Roles PROVE c.due[s][r] \in Nat
    <3>1. <<s, r>> \in Sections \X Roles /\ <<s, r>>[1] = s /\ <<s, r>>[2] = r /\ q.due[s][r] \in Nat
      OBVIOUS
    <3>2. c.due[s][r] \in 0..q.due[s][r]
      BY <1>2, <3>1
    <3> QED BY <3>1, <3>2
  <2> QED BY <2>1 DEF DebtsTyped, c
<1>7. /\ PaidFor(B, d) = IF d \in Components(q.scheme, c.due) THEN PaidOff(d, c.due, q.start, q.n) ELSE l
      /\ \E S : B \in Seq(S) /\ \A f24 \in S : PaidBy(f24, d) \in Int
  <2>1. /\ PaidFor(B, d) = IF d \in Components(q.scheme, c.due) THEN PaidOff(d, c.due, q.start, q.n)
                           ELSE IF d[1] \in sections(q.scheme) THEN c.due[d[1]][d[2]] ELSE 0
        /\ \E S : B \in Seq(S) /\ \A f24 \in S : PaidBy(f24, d) \in Int
    BY <1>3, <1>6, SchedulePays
  <2>2. d[1] \notin sections(q.scheme) => l = 0
    BY <1>4, <1>5
  <2> QED BY <1>5, <2>1, <2>2
<1>13. PICK p \in l - (q.n - 1)..l :
         /\ p = PaidFor(B, d)
         /\ d[1] = "INPS" \/ d[2] = "SECOND_ADVANCE" \/ SpreadsOver(Surcharge(l, q.start), q.n) => p = l
  <2>1. CASE d \notin Components(q.scheme, c.due)
    <3>1. l \in l - (q.n - 1)..l
      OBVIOUS
    <3> QED BY <1>7, <2>1, <3>1
  <2>2. CASE d \in Components(q.scheme, c.due)
    <3>1. d[2] # "SECOND_ADVANCE"
      BY <2>2 DEF Components, Splittable
    <3>2. PaidFor(B, d) = l - Missing(d, l, q.start, q.n)
      BY <1>5, <1>7, <2>2 DEF PaidOff
    <3>6. Shares(d, l, q.start, q.n)
      <4>1. l \in Nat /\ q.start \in DOMAIN startOptions /\ q.n \in Nat \ {0}
        OBVIOUS
      <4> QED BY ONLY <4>1, tie \in {0, 1}, SharesCount
    <3>3. PICK x \in 0..(q.n - 1) : x = Missing(d, l, q.start, q.n)
      BY <3>6 DEF Shares
    <3>4. d[1] = "INPS" \/ SpreadsOver(Surcharge(l, q.start), q.n) => x = 0
      BY <3>3, <3>6 DEF Shares
    <3>5. l - x \in l - (q.n - 1)..l /\ (x = 0 => l - x = l)
      OBVIOUS
    <3> QED BY <3>1, <3>2, <3>3, <3>4, <3>5
  <2> QED BY <2>1, <2>2
<1>8. PaidBy(front, d) = m - l
  <2>1. front.lines = c.lines
    BY DEF f24Form
  <2> HIDE DEF front
  <2> QED BY <1>2, <1>3, <1>4, <1>5, <2>1
<1>9. PaidFor(A, d) = m - l
  <2>1. CASE c.lines = {}
    <3>1. PaidBy(front, d) = 0
      BY <2>1, PaidByNone DEF f24Form
    <3> QED BY <1>8, <2>1, <3>1, PaidForShort
  <2>2. CASE c.lines # {}
    <3>1. m - l \in Int
      BY <1>4, <1>5
    <3> HIDE DEF front
    <3> QED BY <1>8, <2>2, <3>1, PaidForShort
  <2> QED BY <2>1, <2>2
<1>10. PICK S : B \in Seq(S) /\ \A f24 \in S : PaidBy(f24, d) \in Int
  BY <1>7
<1> DEFINE T == S \cup {front}
<1> HIDE DEF front, B
<1>11. A \in Seq(T) /\ B \in Seq(T) /\ \A f24 \in T : PaidBy(f24, d) \in Int
  <2>1. A \in Seq(T)
    <3>1. <<>> \in Seq(T) /\ <<front>> \in Seq(T)
      OBVIOUS
    <3> QED BY <3>1
  <2>2. B \in Seq(T)
    BY <1>10, SeqMonotonic
  <2>3. m - l \in Int
    BY <1>4, <1>5
  <2> QED BY <1>8, <1>10, <2>1, <2>2, <2>3
<1> HIDE DEF A, T
<1>12. PaidFor(A \o B, d) = PaidFor(A, d) + PaidFor(B, d)
  <2>1. A \in Seq(T)
    BY <1>11
  <2>2. B \in Seq(T)
    BY <1>11
  <2>3. \A f24 \in T : PaidBy(f24, d) \in Int
    BY <1>11
  <2> QED BY <2>1, <2>2, <2>3, PaidForConcat
<1>14. PaidFor(compute(q), d) = (m - l) + p
  BY <1>1, <1>9, <1>12, <1>13
<1>15. PaidFor(compute(q), d) \in m - (q.n - 1)..m /\ (p = l => PaidFor(compute(q), d) = m)
  BY <1>14
<1> QED
  BY <1>4, <1>5, <1>13, <1>15 DEF c

-----------------------------------------------------------------------------
(* The limit on credits used in compensation (CompensationLimits) *)

\* Credits used one after the other in forms that pay debts.
Used(uses, lines) ==
  /\ \E n \in Nat : DOMAIN uses = 1..n
  /\ \A k \in DOMAIN uses : uses[k].amount \in Nat
  /\ IsFiniteSet(lines) /\ \A l \in lines : l.debit \in Nat

\* A use counts for the limit as far as it goes beyond the debts of its own tax.
LEMMA HorizontalIs ==
  ASSUME NEW uses, NEW lines, Used(uses, lines), NEW k \in DOMAIN uses
  PROVE  /\ Horizontal(uses, lines, k) \in 0..uses[k].amount
         /\ \A code : SameTax(code, lines) \in Nat
<1>1. PICK n \in Nat : DOMAIN uses = 1..n
  BY DEF Used
<1>2. \A i \in 1..n : uses[i].amount \in Nat
  BY <1>1 DEF Used
<1>3. ASSUME NEW code PROVE SameTax(code, lines) \in Nat
  <2> DEFINE g == [l \in lines |-> IF CodeOf(l) \in VERTICAL_COMPENSATION(code) THEN l.debit ELSE 0]
  <2>1. SameTax(code, lines) = SumFunctionOnSet(g, lines)
    BY DEF SameTax, SumFunction
  <2>2. \A l \in lines : g[l] \in Nat
    BY DEF Used
  <2> HIDE DEF g
  <2> QED BY <2>1, <2>2, SumIn DEF Used
<1>4. Horizontal(uses, lines, k) \in 0..uses[k].amount
  <2> DEFINE b == [j \in 1..(k - 1) |-> IF uses[j].of.code = uses[k].of.code THEN uses[j].amount ELSE 0]
  <2>1. SumFunction(b) \in Nat
    <3>1. DOMAIN b = 1..(k - 1) /\ \A j \in 1..(k - 1) : b[j] \in Nat
      BY <1>1, <1>2
    <3>2. k - 1 \in Int
      BY <1>1
    <3>3. IsFiniteSet(1..(k - 1))
      BY <3>2, FS_Interval
    <3> HIDE DEF b
    <3> QED BY <3>1, <3>3, SumIn DEF SumFunction
  <2>2. PICK c \in Nat, s \in Nat, m \in Nat : c = SumFunction(b) /\ s = SameTax(uses[k].of.code, lines) /\ m = uses[k].amount
    BY <1>1, <1>2, <1>3, <2>1
  <2>3. Horizontal(uses, lines, k) = IF uses[k].of.code = "PXX" THEN 0 ELSE m - AtMost(AtLeast(0, s - c), m)
    BY <2>2 DEF Horizontal
  <2> QED BY <2>2, <2>3 DEF AtMost, AtLeast
<1> QED
  BY <1>3, <1>4

\* What of the credits of a tax counts for the limit is what they pay beyond its own debts, in whatever order they are used
\* (tax-credits.service.ts, horizontalUses).
LEMMA LimitSplit ==
  ASSUME NEW uses, NEW lines, Used(uses, lines)
  PROVE  SplitRight(uses, lines)
<1> SUFFICES ASSUME NEW k \in DOMAIN uses, uses[k].of.code # "PXX"
             PROVE  LET code   == uses[k].of.code
                        same   == {j \in DOMAIN uses : uses[j].of.code = code}
                        used   == SumFunction([j \in same |-> uses[j].amount])
                        counts == SumFunction([j \in same |-> Horizontal(uses, lines, j)])
                    IN used - counts = AtMost(used, SameTax(code, lines))
  BY DEF SplitRight
<1>1. PICK n \in Nat : DOMAIN uses = 1..n
  BY DEF Used
<1>2. \A j \in 1..n : uses[j].amount \in Nat
  BY <1>1 DEF Used
<1> DEFINE code == uses[k].of.code
           same == {j \in DOMAIN uses : uses[j].of.code = code}
           u    == [j \in same |-> uses[j].amount]
           h    == [j \in same |-> Horizontal(uses, lines, j)]
           S    == SameTax(code, lines)
           f    == [j \in 1..n |-> IF uses[j].of.code = code THEN uses[j].amount ELSE 0]
           t    == [j \in 1..n |-> Taken(f, S, j)]
<1>3. S \in Nat
  BY HorizontalIs
<1>4. same \subseteq 1..n /\ IsFiniteSet(1..n) /\ IsFiniteSet(same)
  <2>1. same \subseteq 1..n
    BY <1>1
  <2> QED BY <2>1, FS_Interval, FS_Subset
<1>5. /\ \A j \in 1..n : f[j] \in Nat
      /\ \A j \in same : f[j] = uses[j].amount /\ u[j] = uses[j].amount /\ uses[j].amount \in Nat
      /\ \A j \in (1..n) \ same : f[j] = 0
  BY <1>1, <1>2
<1>6. \A j \in 1..n : t[j] = Taken(f, S, j)
  OBVIOUS
<1> HIDE DEF S, t
<1>7. (\A j \in 1..n : t[j] \in 0..f[j]) /\ SumFunctionOnSet(t, 1..n) = AtMost(S, SumFunctionOnSet(f, 1..n))
  <2>1. \A j \in 1..n : f[j] \in Nat
    BY <1>5
  <2> HIDE DEF f
  <2> QED BY <1>3, <1>6, <2>1, TakenSum, ZenonT(60)
<1>8. ASSUME NEW j \in same PROVE h[j] = f[j] - t[j] /\ t[j] \in Int /\ f[j] \in Int
  <2> DEFINE b == [i \in 1..(j - 1) |-> IF uses[i].of.code = uses[j].of.code THEN uses[i].amount ELSE 0]
  <2>0. j \in 1..n /\ uses[j].of.code = code
    BY <1>4
  <2>1. \A i \in 1..(j - 1) : b[i] = f[i] /\ f[i] \in Nat
    BY <1>2, <2>0
  <2>2. DOMAIN b = 1..(j - 1) /\ IsFiniteSet(1..(j - 1))
    <3>1. j - 1 \in Int
      BY <2>0
    <3> QED BY <3>1, FS_Interval
  <2>3. SumFunction(b) = SumFunctionOnSet(f, 1..(j - 1)) /\ SumFunctionOnSet(f, 1..(j - 1)) \in Nat
    <3> HIDE DEF b, f
    <3> DEFINE R == 1..(j - 1)
    <3>1. IsFiniteSet(R) /\ (\A i \in R : b[i] = f[i]) /\ (\A i \in R : f[i] \in Nat) /\ SumFunction(b) = SumFunctionOnSet(b, R)
      BY <2>1, <2>2 DEF SumFunction
    <3> HIDE DEF R
    <3>2. SumFunctionOnSet(b, R) = SumFunctionOnSet(f, R)
      BY ONLY <3>1, SumSame
    <3>3. SumFunctionOnSet(f, R) \in Nat
      BY ONLY <3>1, SumIn
    <3> QED BY <3>1, <3>2, <3>3 DEF R
  <2>4. PICK c \in Nat, s \in Nat, m \in Nat : c = SumFunctionOnSet(f, 1..(j - 1)) /\ s = S /\ m = uses[j].amount
    BY <1>2, <1>3, <2>0, <2>3
  <2>5. h[j] = m - AtMost(AtLeast(0, s - c), m)
    BY <2>0, <2>3, <2>4 DEF Horizontal, S
  <2>6. t[j] = AtMost(m, AtLeast(0, s - c))
    <3>1. f[j] = m
      BY <1>5, <2>4
    <3>2. t[j] = AtMost(f[j], AtLeast(0, S - SumFunctionOnSet(f, 1..(j - 1))))
      <4> HIDE DEF f
      <4> QED BY <1>6, <2>0 DEF Taken, MapThenSumSet, SumFunctionOnSet, FoldFunctionOnSet
    <3> QED BY <2>4, <3>1, <3>2
  <2>7. f[j] = m
    BY <1>5, <2>4
  <2> HIDE DEF h, f
  <2> QED BY <2>4, <2>5, <2>6, <2>7 DEF AtMost, AtLeast
<1>9. \A j \in (1..n) \ same : t[j] = 0
  <2> SUFFICES ASSUME NEW j \in (1..n) \ same PROVE t[j] = 0
    OBVIOUS
  <2>1. t[j] \in 0..f[j] /\ f[j] = 0
    BY <1>5, <1>7
  <2> QED BY <2>1
<1>10. DOMAIN u = same /\ DOMAIN h = same
  OBVIOUS
<1> HIDE DEF u, h, f, same
<1>11. SumFunction(u) = SumFunctionOnSet(f, same)
  <2>1. SumFunction(u) = SumFunctionOnSet(u, same) /\ IsFiniteSet(same) /\ \A j \in same : u[j] = f[j]
    BY <1>4, <1>5, <1>10 DEF SumFunction
  <2> QED BY ONLY <2>1, SumSame
<1>12. /\ SumFunctionOnSet(f, 1..n) = SumFunctionOnSet(f, same) /\ SumFunctionOnSet(f, same) \in Nat /\ SumFunctionOnSet(t, 1..n) \in Int
       /\ SumFunctionOnSet(h, same) = SumFunctionOnSet(f, same) - SumFunctionOnSet(t, 1..n)
  <2>1. Beyond(f, t, h, 1..n, same)
    BY <1>4, <1>5, <1>8, <1>9 DEF Beyond
  <2> QED BY ONLY <2>1, SumBeyond
<1>13. SumFunction(h) = SumFunctionOnSet(h, same)
  BY <1>10 DEF SumFunction
<1>14. SumFunction(u) - SumFunction(h) = AtMost(SumFunction(u), S)
  <2>1. PICK x \in Nat, y \in Int, z \in Nat : x = SumFunctionOnSet(f, same) /\ y = SumFunctionOnSet(t, 1..n) /\ z = S
    BY <1>3, <1>12
  <2>2. y = AtMost(z, x) /\ SumFunction(u) = x /\ SumFunction(h) = x - y
    BY <1>7, <1>11, <1>12, <1>13, <2>1
  <2> QED BY <2>1, <2>2 DEF AtMost
<1> QED
  BY <1>14 DEF u, h, S, same

\* A plan whose credits are used in compensation.
Compensates(p) == (\A s \in Sections, r \in Roles : p.due[s][r] \in Nat) /\ p.credits \in Seq(Nat)

\* What a compensation uses of its credits.
LEMMA UsesAre ==
  ASSUME NEW p, Compensates(p)
  PROVE  Used(Uses(p, CoveredBy(p)), CoveredBy(p).lines)
<1> DEFINE c == CoveredBy(p)
           u == Uses(p, c)
<1>1. Covers(c, p.scheme, p.due, p.credits, p.order)
  BY CreditsCover DEF Compensates, CoveredBy
<1> HIDE DEF c
<1>2. DOMAIN u = 1..Len(p.credits) /\ Len(p.credits) \in Nat /\ \A k \in DOMAIN u : u[k].amount = c.usages[k] /\ k \in DOMAIN p.credits
  BY DEF Uses, Compensates
<1>3. \A k \in DOMAIN p.credits : c.usages[k] \in 0..p.credits[k] /\ p.credits[k] \in Nat
  BY <1>1 DEF Covers, Compensates
<1>4. \A k \in DOMAIN u : u[k].amount \in Nat
  <2> SUFFICES ASSUME NEW k \in DOMAIN u PROVE u[k].amount \in Nat
    OBVIOUS
  <2>1. PICK m \in Nat : m = p.credits[k]
    BY <1>2, <1>3
  <2>2. PICK v \in 0..m : v = c.usages[k]
    BY <1>2, <1>3, <2>1
  <2> QED BY <1>2, <2>2
<1>5. IsFiniteSet(c.lines) /\ \A l \in c.lines : l.debit \in Nat
  BY <1>1 DEF Covers, LinesSound
<1> HIDE DEF u
<1> QED
  BY <1>2, <1>4, <1>5 DEF Used, u, c

\* A use beyond the limit for other taxes is told, since of the earlier forms every use counts whole.
LEMMA LimitSeen ==
  ASSUME NEW uses, NEW lines, Used(uses, lines), NEW usesBefore, NEW linesBefore, Used(usesBefore, linesBefore)
  PROVE  LimitTold(uses, lines, usesBefore, linesBefore)
<1> SUFFICES ASSUME NEW of, HorizontalOf(uses, lines, of) > 0,
                    HorizontalOf(uses, lines, of) + HorizontalOf(usesBefore, linesBefore, of) > COMPENSATION_LIMIT
             PROVE  of \in AboveLimit(uses, lines, <<usesBefore>>)
  BY DEF LimitTold
<1>1. HorizontalOf(usesBefore, linesBefore, of) <= UsedOf(usesBefore, of) /\ HorizontalOf(usesBefore, linesBefore, of) \in Int
      /\ UsedOf(usesBefore, of) \in Int
  <2> DEFINE D == DOMAIN usesBefore
             h == [k \in D |-> IF usesBefore[k].of = of THEN Horizontal(usesBefore, linesBefore, k) ELSE 0]
             u == [k \in D |-> IF usesBefore[k].of = of THEN usesBefore[k].amount ELSE 0]
  <2>1. IsFiniteSet(D)
    BY FS_Interval DEF Used
  <2>2. ASSUME NEW k \in D PROVE h[k] \in Int /\ u[k] \in Int /\ h[k] <= u[k]
    <3>1. PICK m \in Nat : m = usesBefore[k].amount
      BY DEF Used
    <3>2. PICK v \in 0..m : v = Horizontal(usesBefore, linesBefore, k)
      BY <3>1, HorizontalIs
    <3> QED BY <3>1, <3>2
  <2>3. HorizontalOf(usesBefore, linesBefore, of) = SumFunctionOnSet(h, D) /\ UsedOf(usesBefore, of) = SumFunctionOnSet(u, D)
    BY DEF HorizontalOf, UsedOf, SumFunction
  <2> HIDE DEF h, u, D
  <2>4. SumFunctionOnSet(h, D) <= SumFunctionOnSet(u, D)
    BY ONLY <2>1, <2>2, SumAtMost
  <2>5. SumFunctionOnSet(h, D) \in Int /\ SumFunctionOnSet(u, D) \in Int
    <3>1. (\A k \in D : h[k] \in Int) /\ \A k \in D : u[k] \in Int
      BY <2>2
    <3> QED BY <2>1, <3>1, SumIn
  <2> QED BY <2>3, <2>4, <2>5
<1>2. \E k \in DOMAIN uses : uses[k].of = of /\ Horizontal(uses, lines, k) > 0
  <2> SUFFICES ASSUME \A k \in DOMAIN uses : uses[k].of = of => ~ Horizontal(uses, lines, k) > 0 PROVE FALSE
    OBVIOUS
  <2> DEFINE D == DOMAIN uses
             h == [k \in D |-> IF uses[k].of = of THEN Horizontal(uses, lines, k) ELSE 0]
  <2>1. IsFiniteSet(D)
    BY FS_Interval DEF Used
  <2>2. ASSUME NEW k \in D PROVE h[k] = 0
    <3>1. PICK m \in Nat : m = uses[k].amount
      BY DEF Used
    <3>2. PICK v \in 0..m : v = Horizontal(uses, lines, k)
      BY <3>1, HorizontalIs
    <3> QED BY <3>2
  <2>3. HorizontalOf(uses, lines, of) = SumFunctionOnSet(h, D)
    BY DEF HorizontalOf, SumFunction
  <2> HIDE DEF h, D
  <2>4. SumFunctionOnSet(h, D) = 0 * Cardinality(D) /\ Cardinality(D) \in Nat
    BY <2>1, <2>2, SumEqual, FS_CardinalityType
  <2>5. HorizontalOf(uses, lines, of) = 0
    BY <2>3, <2>4
  <2> QED BY <2>5
<1>3. SumFunction([e \in DOMAIN <<usesBefore>> |-> UsedOf(<<usesBefore>>[e], of)]) = UsedOf(usesBefore, of)
  <2> DEFINE f == [e \in DOMAIN <<usesBefore>> |-> UsedOf(<<usesBefore>>[e], of)]
  <2>1. DOMAIN f = {1} /\ f[1] = UsedOf(usesBefore, of)
    OBVIOUS
  <2>2. IsFiniteSet({1})
    BY FS_Singleton
  <2> HIDE DEF f
  <2>3. SumFunctionOnSet(f, {1}) = f[1]
    BY <1>1, <2>1, <2>2, SumOne
  <2>4. SumFunction(f) = UsedOf(usesBefore, of)
    BY <2>1, <2>3 DEF SumFunction
  <2> QED BY <2>4 DEF f
<1>4. HorizontalOf(uses, lines, of) \in Int
  <2> DEFINE D == DOMAIN uses
             h == [k \in D |-> IF uses[k].of = of THEN Horizontal(uses, lines, k) ELSE 0]
  <2>1. IsFiniteSet(D)
    BY FS_Interval DEF Used
  <2>2. ASSUME NEW k \in D PROVE h[k] \in Int
    <3>1. PICK m \in Nat : m = uses[k].amount
      BY DEF Used
    <3>2. PICK v \in 0..m : v = Horizontal(uses, lines, k)
      BY <3>1, HorizontalIs
    <3> QED BY <3>2
  <2>3. HorizontalOf(uses, lines, of) = SumFunctionOnSet(h, D)
    BY DEF HorizontalOf, SumFunction
  <2> HIDE DEF h, D
  <2>4. SumFunctionOnSet(h, D) \in Int
    BY <2>1, <2>2, SumIn
  <2> QED BY <2>3, <2>4
<1>5. HorizontalOf(uses, lines, of) + UsedOf(usesBefore, of) > COMPENSATION_LIMIT
  BY <1>1, <1>4 DEF COMPENSATION_LIMIT
<1> QED
  BY <1>2, <1>3, <1>5 DEF AboveLimit

\* For any two plans in sequence, any debts, credits and codes: of each tax what does not count for the limit is what the form
\* pays of it, and who uses more than the limit for other taxes is told (compensation-limits.ts, tax-credits.service.ts).
THEOREM LimitsKept ==
  ASSUME NEW q, Compensates(q.before), Compensates(q.plan)
  PROVE  LimitsKeptFor(q)
<1>1. Used(Uses(q.plan, CoveredBy(q.plan)), CoveredBy(q.plan).lines)
  BY UsesAre
<1>2. Used(Uses(q.before, CoveredBy(q.before)), CoveredBy(q.before).lines)
  BY UsesAre
<1> QED
  BY <1>1, <1>2, LimitSplit, LimitSeen DEF LimitsKeptFor

-----------------------------------------------------------------------------
(* What the forms of a year carry to the next (TaxComputation) *)

FormsSound(forms) == IsFiniteSet(DOMAIN forms) /\ \A f \in DOMAIN forms : LinesSound(forms[f].lines)

CarriedBy(f24, section, roles) == SumFunction([l \in {x \in f24.lines : x.section = section /\ x.role \in roles} |-> Carried(l)])
CarriedFor(forms, section, roles) == SumFunction([f \in DOMAIN forms |-> CarriedBy(forms[f], section, roles)])

\* What the form of the next year starts from, section by section.
LEMMA CarriedIs ==
  ASSUME NEW forms
  PROVE  paidFromF24(forms) = [taxAdvancesPaid   |-> CarriedFor(forms, "TREASURY", {"FIRST_ADVANCE", "SECOND_ADVANCE"}),
                               inpsAdvancesPaid  |-> CarriedFor(forms, "INPS", {"FIRST_ADVANCE", "SECOND_ADVANCE"}),
                               contributionsPaid |-> CarriedFor(forms, "INPS", Roles)]
BY DEF paidFromF24, CarriedFor, CarriedBy

\* Nothing is carried of no roles; what is carried of one more is what is paid of that debt.
LEMMA CarriedMore ==
  ASSUME NEW f24, LinesSound(f24.lines), NEW section, NEW R \in SUBSET Roles, NEW r \in Roles, r \notin R
  PROVE  /\ CarriedBy(f24, section, R) \in Int /\ PaidBy(f24, <<section, r>>) \in Int
         /\ CarriedBy(f24, section, R \cup {r}) = CarriedBy(f24, section, R) + PaidBy(f24, <<section, r>>)
         /\ CarriedBy(f24, section, {}) = 0
<1> DEFINE Rows(S) == {x \in f24.lines : x.section = section /\ x.role \in S}
           f(S)    == [l \in Rows(S) |-> Carried(l)]
           d       == <<section, r>>
           g       == [l \in {x \in f24.lines : x.section = d[1] /\ x.role = d[2]} |-> l.debit - l.surcharge]
<1>1. \A S : CarriedBy(f24, section, S) = SumFunctionOnSet(f(S), Rows(S))
  BY DEF CarriedBy, SumFunction
<1>2. PaidBy(f24, d) = SumFunctionOnSet(g, Rows({r}))
  <2>1. DOMAIN g = Rows({r})
    OBVIOUS
  <2>2. PaidBy(f24, d) = SumFunctionOnSet(g, DOMAIN g)
    BY DEF PaidBy, SumFunction
  <2> QED BY <2>1, <2>2
<1> DEFINE h == f(R \cup {r})
<1>3. /\ \A l \in Rows(R \cup {r}) : h[l] = Carried(l) /\ Carried(l) \in Int
      /\ \A l \in Rows(R) : f(R)[l] = Carried(l)
      /\ \A l \in Rows({r}) : g[l] = Carried(l)
  BY DEF Carried, LinesSound
<1>4. /\ Rows(R \cup {r}) = Rows(R) \cup Rows({r}) /\ Rows(R) \cap Rows({r}) = {} /\ Rows({}) = {}
      /\ IsFiniteSet(Rows(R)) /\ IsFiniteSet(Rows({r}))
  <2>1. IsFiniteSet(f24.lines)
    BY DEF LinesSound
  <2>2. Rows(R) \subseteq f24.lines /\ Rows({r}) \subseteq f24.lines
    OBVIOUS
  <2>3. IsFiniteSet(Rows(R)) /\ IsFiniteSet(Rows({r}))
    <3> HIDE DEF Rows
    <3> QED BY <2>1, <2>2, FS_Subset
  <2> QED BY <2>3
<1> HIDE DEF g, Rows
<1>5. SumFunctionOnSet(h, Rows(R) \cup Rows({r})) = SumFunctionOnSet(h, Rows(R)) + SumFunctionOnSet(h, Rows({r}))
  <2>1. \A l \in Rows(R) \cup Rows({r}) : h[l] \in Int
    BY <1>3, <1>4
  <2>2. IsFiniteSet(Rows(R)) /\ IsFiniteSet(Rows({r})) /\ Rows(R) \cap Rows({r}) = {}
    BY <1>4
  <2> DEFINE X == Rows(R)
             Y == Rows({r})
  <2> HIDE DEF h, X, Y
  <2>3. IsFiniteSet(X) /\ IsFiniteSet(Y) /\ X \cap Y = {} /\ \A l \in X \cup Y : h[l] \in Int
    BY <2>1, <2>2 DEF X, Y
  <2>4. SumFunctionOnSet(h, X \cup Y) = SumFunctionOnSet(h, X) + SumFunctionOnSet(h, Y)
    BY <2>3, SumUnion
  <2> QED BY <2>4 DEF X, Y
<1>6. SumFunctionOnSet(h, Rows(R)) = SumFunctionOnSet(f(R), Rows(R))
  <2>1. \A l \in Rows(R) : h[l] = f(R)[l]
    BY <1>3, <1>4
  <2> HIDE DEF h, f
  <2> QED BY <1>4, <2>1, SumSame
<1>7. SumFunctionOnSet(h, Rows({r})) = SumFunctionOnSet(g, Rows({r}))
  <2>1. \A l \in Rows({r}) : h[l] = g[l]
    BY <1>3, <1>4
  <2> HIDE DEF h, f
  <2> QED BY <1>4, <2>1, SumSame
<1>8. SumFunctionOnSet(f(R), Rows(R)) \in Int /\ SumFunctionOnSet(g, Rows({r})) \in Int
  <2>1. \A l \in Rows(R) : f(R)[l] \in Int
    BY <1>3, <1>4
  <2>2. \A l \in Rows({r}) : g[l] \in Int
    BY <1>3, <1>4
  <2> HIDE DEF h, f
  <2> QED BY <1>4, <2>1, <2>2, SumIn
<1>9. CarriedBy(f24, section, {}) = 0
  <2>1. CarriedBy(f24, section, {}) = SumFunctionOnSet(f({}), {})
    BY <1>1, <1>4
  <2> HIDE DEF f
  <2> QED BY <2>1, SumEmpty
<1>10. CarriedBy(f24, section, R \cup {r}) = SumFunctionOnSet(h, Rows(R) \cup Rows({r}))
  BY <1>1, <1>4
<1>11. CarriedBy(f24, section, R) = SumFunctionOnSet(f(R), Rows(R))
  BY <1>1
<1> HIDE DEF h, f
<1> QED
  BY <1>2, <1>5, <1>6, <1>7, <1>8, <1>9, <1>10, <1>11 DEF d

\* The same over all the forms.
LEMMA CarriedForMore ==
  ASSUME NEW forms, FormsSound(forms), NEW section, NEW R \in SUBSET Roles, NEW r \in Roles, r \notin R
  PROVE  /\ CarriedFor(forms, section, R \cup {r}) = CarriedFor(forms, section, R) + PaidFor(forms, <<section, r>>)
         /\ CarriedFor(forms, section, {}) = 0
<1> DEFINE S == DOMAIN forms
           h == [f \in DOMAIN forms |-> CarriedBy(forms[f], section, R \cup {r})]
           f == [k \in DOMAIN forms |-> CarriedBy(forms[k], section, R)]
           g == [k \in DOMAIN forms |-> PaidBy(forms[k], <<section, r>>)]
           z == [k \in DOMAIN forms |-> CarriedBy(forms[k], section, {})]
<1>1. /\ CarriedFor(forms, section, R \cup {r}) = SumFunctionOnSet(h, S)
      /\ CarriedFor(forms, section, R) = SumFunctionOnSet(f, S) /\ CarriedFor(forms, section, {}) = SumFunctionOnSet(z, S)
      /\ PaidFor(forms, <<section, r>>) = SumFunctionOnSet(g, S)
  BY DEF CarriedFor, PaidFor, SumFunction
<1>2. \A k \in S : f[k] \in Int /\ g[k] \in Int /\ h[k] = f[k] + g[k] /\ z[k] = 0
  <2> SUFFICES ASSUME NEW k \in S PROVE f[k] \in Int /\ g[k] \in Int /\ h[k] = f[k] + g[k] /\ z[k] = 0
    OBVIOUS
  <2>1. LinesSound(forms[k].lines)
    BY DEF FormsSound
  <2>2. /\ CarriedBy(forms[k], section, R) \in Int /\ PaidBy(forms[k], <<section, r>>) \in Int
        /\ CarriedBy(forms[k], section, R \cup {r}) = CarriedBy(forms[k], section, R) + PaidBy(forms[k], <<section, r>>)
        /\ CarriedBy(forms[k], section, {}) = 0
    BY <2>1, CarriedMore
  <2> QED BY <2>2
<1>3. IsFiniteSet(S)
  BY DEF FormsSound
<1> HIDE DEF f, g, h, z, S
<1>4. SumFunctionOnSet(h, S) = SumFunctionOnSet(f, S) + SumFunctionOnSet(g, S)
  BY <1>2, <1>3, SumPlus
<1>5. SumFunctionOnSet(z, S) = 0
  <2>1. SumFunctionOnSet(z, S) = 0 * Cardinality(S) /\ Cardinality(S) \in Nat
    BY <1>2, <1>3, SumEqual, FS_CardinalityType
  <2> QED BY <2>1
<1> QED
  BY <1>1, <1>4, <1>5

\* What the forms carry to the next year is what they pay of the debts.
LEMMA CarriedPaid ==
  ASSUME NEW forms, FormsSound(forms), \A d \in Sections \X Roles : PaidFor(forms, d) \in Int
  PROVE  LET paid(s, r) == PaidFor(forms, <<s, r>>)
         IN  /\ paidFromF24(forms).taxAdvancesPaid = paid("TREASURY", "FIRST_ADVANCE") + paid("TREASURY", "SECOND_ADVANCE")
             /\ paidFromF24(forms).inpsAdvancesPaid = paid("INPS", "FIRST_ADVANCE") + paid("INPS", "SECOND_ADVANCE")
             /\ paidFromF24(forms).contributionsPaid = paid("INPS", "BALANCE") + paid("INPS", "FIRST_ADVANCE") + paid("INPS", "SECOND_ADVANCE")
<1>0. Roles = {"BALANCE", "FIRST_ADVANCE", "SECOND_ADVANCE"} /\ Sections = {"TREASURY", "INPS"}
  BY DEF Roles, Splittable, Sections
<1>1. ASSUME NEW s \in Sections
      PROVE  CarriedFor(forms, s, {"FIRST_ADVANCE", "SECOND_ADVANCE"}) = PaidFor(forms, <<s, "FIRST_ADVANCE">>) + PaidFor(forms, <<s, "SECOND_ADVANCE">>)
  <2>1. CarriedFor(forms, s, {} \cup {"FIRST_ADVANCE"}) = CarriedFor(forms, s, {}) + PaidFor(forms, <<s, "FIRST_ADVANCE">>) /\ CarriedFor(forms, s, {}) = 0
    <3>1. {} \in SUBSET Roles /\ "FIRST_ADVANCE" \in Roles /\ "FIRST_ADVANCE" \notin {}
      BY <1>0
    <3> QED BY <3>1, CarriedForMore
  <2>2. CarriedFor(forms, s, {"FIRST_ADVANCE"} \cup {"SECOND_ADVANCE"}) = CarriedFor(forms, s, {"FIRST_ADVANCE"}) + PaidFor(forms, <<s, "SECOND_ADVANCE">>)
    <3>1. {"FIRST_ADVANCE"} \in SUBSET Roles /\ "SECOND_ADVANCE" \in Roles /\ "SECOND_ADVANCE" \notin {"FIRST_ADVANCE"}
      BY <1>0
    <3> QED BY <3>1, CarriedForMore
  <2>3. {} \cup {"FIRST_ADVANCE"} = {"FIRST_ADVANCE"} /\ {"FIRST_ADVANCE"} \cup {"SECOND_ADVANCE"} = {"FIRST_ADVANCE", "SECOND_ADVANCE"}
    OBVIOUS
  <2>4. PaidFor(forms, <<s, "FIRST_ADVANCE">>) \in Int
    BY <1>0
  <2> QED BY <2>1, <2>2, <2>3, <2>4
<1>2. CarriedFor(forms, "INPS", Roles) = CarriedFor(forms, "INPS", {"FIRST_ADVANCE", "SECOND_ADVANCE"}) + PaidFor(forms, <<"INPS", "BALANCE">>)
  <2>1. {"FIRST_ADVANCE", "SECOND_ADVANCE"} \in SUBSET Roles /\ "BALANCE" \in Roles /\ "BALANCE" \notin {"FIRST_ADVANCE", "SECOND_ADVANCE"}
    BY <1>0
  <2>2. CarriedFor(forms, "INPS", {"FIRST_ADVANCE", "SECOND_ADVANCE"} \cup {"BALANCE"}) = CarriedFor(forms, "INPS", {"FIRST_ADVANCE", "SECOND_ADVANCE"}) + PaidFor(forms, <<"INPS", "BALANCE">>)
    BY <2>1, CarriedForMore
  <2>3. {"FIRST_ADVANCE", "SECOND_ADVANCE"} \cup {"BALANCE"} = Roles
    BY <1>0
  <2> QED BY <2>2, <2>3
<1>3. \A s \in Sections, r \in Roles : PaidFor(forms, <<s, r>>) \in Int
  OBVIOUS
<1>4. /\ PaidFor(forms, <<"INPS", "BALANCE">>) \in Int /\ PaidFor(forms, <<"INPS", "FIRST_ADVANCE">>) \in Int /\ PaidFor(forms, <<"INPS", "SECOND_ADVANCE">>) \in Int
  BY <1>0, <1>3
<1>5. /\ CarriedFor(forms, "TREASURY", {"FIRST_ADVANCE", "SECOND_ADVANCE"}) = PaidFor(forms, <<"TREASURY", "FIRST_ADVANCE">>) + PaidFor(forms, <<"TREASURY", "SECOND_ADVANCE">>)
      /\ CarriedFor(forms, "INPS", {"FIRST_ADVANCE", "SECOND_ADVANCE"}) = PaidFor(forms, <<"INPS", "FIRST_ADVANCE">>) + PaidFor(forms, <<"INPS", "SECOND_ADVANCE">>)
  BY <1>0, <1>1
<1> QED
  BY <1>2, <1>4, <1>5, CarriedIs

\* The rows of a debt in one installment: the interest is not a debt's.
LEMMA RowsSound ==
  ASSUME tie \in {0, 1}, NEW d, NEW a \in Nat, NEW start \in DOMAIN startOptions, NEW n \in Nat \ {0}, NEW i \in 1..n
  PROVE  LinesSound(RowsFor(d, a, start, n, i))
<1>0. PaidByRow(RowsFor(d, a, start, n, i), d, CountsAs(d, a, start, n, i))
  BY RowOfDebt
<1>1. PICK row \in RowsFor(d, a, start, n, i) :
        /\ row.debit - row.surcharge = CountsAs(d, a, start, n, i)
        /\ \A x \in RowsFor(d, a, start, n, i) : x = row \/ x.role = "INTEREST"
  BY <1>0 DEF PaidByRow
<1>2. CountsAs(d, a, start, n, i) \in Int
  BY SharesCount DEF Shares
<1>3. "INTEREST" \notin Roles
  BY DEF Roles, Splittable
<1>4. \E x, y : RowsFor(d, a, start, n, i) \subseteq {x, y}
  BY DEF RowsFor, DebtRows
<1>5. IsFiniteSet(RowsFor(d, a, start, n, i))
  <2>1. PICK x, y : RowsFor(d, a, start, n, i) \subseteq {x} \cup {y}
    BY <1>4
  <2>2. IsFiniteSet({x} \cup {y})
    BY FS_Singleton, FS_Union
  <2> QED BY <2>1, <2>2, FS_Subset
<1> QED
  BY <1>1, <1>2, <1>3, <1>5 DEF LinesSound

\* The rows of an installment are sound.
LEMMA InstallmentSound ==
  ASSUME tie \in {0, 1}, NEW scheme, NEW amounts, NEW start \in DOMAIN startOptions, NEW n \in Nat \ {0}, NEW i \in 1..n,
         DebtsTyped(amounts)
  PROVE  LinesSound(InstallmentRows(scheme, amounts, start, n, i))
<1> DEFINE C       == Components(scheme, amounts)
           Rows(e) == RowsFor(e, amounts[e[1]][e[2]], start, n, i)
           r       == [e \in C |-> Rows(e)]
           T       == {r[e] : e \in C}
<1>1. InstallmentRows(scheme, amounts, start, n, i) = UNION T
  BY RowsAre
<1>2. \A e \in C : LinesSound(r[e])
  <2> SUFFICES ASSUME NEW e \in C PROVE LinesSound(Rows(e))
    OBVIOUS
  <2>1. amounts[e[1]][e[2]] \in Nat
    BY DebtsAre
  <2> QED BY <2>1, RowsSound
<1>3. IsFiniteSet(C)
  <2>1. C \subseteq sections(scheme) \X Splittable
    BY DEF Components
  <2>2. IsFiniteSet(sections(scheme)) /\ IsFiniteSet(Splittable)
    <3>1. sections(scheme) \subseteq {"TREASURY"} \cup {"INPS"} /\ Splittable = {"BALANCE"} \cup {"FIRST_ADVANCE"}
      BY DEF sections, Splittable
    <3>2. \A x, y : IsFiniteSet({x} \cup {y})
      BY FS_Singleton, FS_Union
    <3> QED BY <3>1, <3>2, FS_Subset
  <2>3. IsFiniteSet(sections(scheme) \X Splittable)
    BY <2>2, FS_Product
  <2> QED BY <2>1, <2>3, FS_Subset
<1> HIDE DEF C, r
<1>4. IsFiniteSet(T)
  BY <1>3, ImageFinite
<1>5. IsFiniteSet(UNION T)
  <2>1. \A S \in T : IsFiniteSet(S)
    BY <1>2 DEF LinesSound
  <2> QED BY <1>4, <2>1, FS_UNION
<1>6. \A l \in UNION T : l.role \in Roles => l.debit - l.surcharge \in Int
  BY <1>2 DEF LinesSound
<1> QED
  BY <1>1, <1>5, <1>6 DEF LinesSound

\* The forms of a schedule have sound rows.
LEMMA ScheduleSound ==
  ASSUME tie \in {0, 1}, NEW scheme, NEW amounts, NEW start \in DOMAIN startOptions, NEW n \in Nat \ {0}, DebtsTyped(amounts)
  PROVE  \E S : buildPaymentSchedule(scheme, amounts, start, n) \in Seq(S) /\ \A f24 \in S : LinesSound(f24.lines)
<1> DEFINE dates   == maxInstallmentDates(startOptions[start].date)
           second  == {<<s, "SECOND_ADVANCE">> : s \in {t \in sections(scheme) : amounts[t]["SECOND_ADVANCE"] > 0}}
           all     == [i \in 1..n |-> f24Form(IF n = 1 THEN "BALANCE" ELSE "INSTALLMENT", dates[i], InstallmentRows(scheme, amounts, start, n, i))]
           last    == f24Form("SECOND_ADVANCE", secondAdvanceDate, {line(e, amounts[e[1]][e[2]], 0) : e \in second})
           A       == IF Components(scheme, amounts) = {} THEN <<>> ELSE all
           B       == IF second = {} THEN <<>> ELSE <<last>>
           S       == {all[i] : i \in 1..n} \cup {last}
<1>1. buildPaymentSchedule(scheme, amounts, start, n) = A \o B
  BY DEF buildPaymentSchedule
<1>2. A \in Seq(S) /\ B \in Seq(S)
  <2>1. all \in [1..n -> S] /\ last \in S
    OBVIOUS
  <2> HIDE DEF all, last, S
  <2> QED BY <2>1
<1>3. \A i \in 1..n : LinesSound(all[i].lines)
  BY InstallmentSound DEF f24Form
<1>4. LinesSound(last.lines)
  <2> DEFINE r == [e \in second |-> line(e, amounts[e[1]][e[2]], 0)]
  <2>1. last.lines = {r[e] : e \in second}
    BY DEF f24Form
  <2>2. second \subseteq {<<"TREASURY", "SECOND_ADVANCE">>} \cup {<<"INPS", "SECOND_ADVANCE">>}
    BY DEF sections
  <2>3. IsFiniteSet({<<"TREASURY", "SECOND_ADVANCE">>} \cup {<<"INPS", "SECOND_ADVANCE">>})
    BY FS_Singleton, FS_Union
  <2>4. \A e \in second : r[e].debit - r[e].surcharge \in Int
    <3> SUFFICES ASSUME NEW e \in second PROVE r[e].debit - r[e].surcharge \in Int
      OBVIOUS
    <3>1. e[1] \in Sections /\ e[2] \in Roles
      BY DEF sections, Sections, Roles
    <3>2. amounts[e[1]][e[2]] \in Nat
      BY <3>1 DEF DebtsTyped
    <3>3. r[e].debit = amounts[e[1]][e[2]] /\ r[e].surcharge = 0
      BY DEF line
    <3> QED BY <3>2, <3>3
  <2> HIDE DEF second, r
  <2>5. IsFiniteSet({r[e] : e \in second})
    <3>1. IsFiniteSet(second)
      BY <2>2, <2>3, FS_Subset
    <3> QED BY <3>1, ImageFinite
  <2> HIDE DEF last
  <2> QED BY <2>1, <2>4, <2>5 DEF LinesSound
<1> HIDE DEF A, B, all, last
<1>5. A \o B \in Seq(S)
  BY <1>2, ConcatProperties
<1> QED
  BY <1>1, <1>3, <1>4, <1>5

\* The forms of a plan have sound rows.
LEMMA ComputeSound ==
  ASSUME tie \in {0, 1}, NEW q, q.start \in DOMAIN startOptions, q.n \in Nat \ {0},
         \A s \in Sections, r \in Roles : q.due[s][r] \in Nat, q.credits \in Seq(Nat)
  PROVE  FormsSound(compute(q))
<1> DEFINE c     == Compensation(q.scheme, q.due, q.credits, q.order)
           front == f24Form("COMPENSATION", startOptions[q.start].date, c.lines)
           A     == IF c.lines = {} THEN <<>> ELSE <<front>>
           B     == buildPaymentSchedule(q.scheme, c.due, q.start, q.n)
<1>1. compute(q) = A \o B
  BY DEF compute
<1>2. Covers(c, q.scheme, q.due, q.credits, q.order)
  BY CreditsCover
<1> HIDE DEF c
<1>3. LinesSound(front.lines)
  BY <1>2 DEF Covers, f24Form
<1>4. DebtsTyped(c.due)
  <2> SUFFICES ASSUME NEW s \in Sections, NEW r \in Roles PROVE c.due[s][r] \in Nat
    BY DEF DebtsTyped
  <2>1. <<s, r>> \in Sections \X Roles /\ <<s, r>>[1] = s /\ <<s, r>>[2] = r /\ q.due[s][r] \in Nat
    OBVIOUS
  <2>2. c.due[s][r] \in 0..q.due[s][r]
    BY <1>2, <2>1 DEF Covers
  <2> QED BY <2>1, <2>2
<1>5. PICK S : B \in Seq(S) /\ \A f24 \in S : LinesSound(f24.lines)
  BY <1>4, ScheduleSound
<1> DEFINE T == S \cup {front}
<1> HIDE DEF front, B
<1>6. A \in Seq(T) /\ B \in Seq(T) /\ \A f24 \in T : LinesSound(f24.lines)
  <2>1. A \in Seq(T)
    <3>1. <<>> \in Seq(T) /\ <<front>> \in Seq(T)
      OBVIOUS
    <3> QED BY <3>1
  <2>2. B \in Seq(T)
    BY <1>5, SeqMonotonic
  <2> QED BY <1>3, <1>5, <2>1, <2>2
<1> HIDE DEF A, T
<1>7. A \o B \in Seq(T)
  BY <1>6, ConcatProperties
<1> DEFINE forms == A \o B
<1> HIDE DEF forms
<1>8. DOMAIN forms = 1..Len(forms) /\ Len(forms) \in Nat /\ \A k \in DOMAIN forms : forms[k] \in T
  <2>1. forms \in Seq(T)
    BY <1>7 DEF forms
  <2> QED BY <2>1, ElementOfSeq, LenProperties
<1>9. IsFiniteSet(DOMAIN forms)
  <2>1. IsFiniteSet(1..Len(forms))
    BY <1>8, FS_Interval
  <2> QED BY <1>8, <2>1
<1> QED
  BY <1>1, <1>6, <1>8, <1>9 DEF FormsSound, forms

-----------------------------------------------------------------------------
(* The figures of a year *)

\* Any year that collects no less than nothing.
Years ==
  [scheme : Schemes, revenue : Nat, coefficient : Nat, age : Int, eligible : BOOLEAN, contributionsPaid : Nat, taxCredits : Nat,
   taxAdvancesPaid : Int, inpsAdvancesPaid : Int, isaSubject : BOOLEAN, inpsReducedRate : BOOLEAN, flatRateReduction : BOOLEAN,
   seniorityBefore1996 : BOOLEAN]

\* Rounding to the euro moves an amount by at most half of one.
LEMMA EuroTypes ==
  /\ \A n \in Nat : roundEuro(n, 100) \in Nat
  /\ \A n \in Int : roundEuro(n, 100) \in Int /\ 100 * roundEuro(n, 100) - n \in -50..50
BY DEF roundEuro

\* A rounded part of an amount is an amount, no larger than it.
LEMMA RoundNat ==
  ASSUME tie \in {0, 1}, NEW a \in Nat, NEW n \in Nat \ {0}
  PROVE  Round(a, n) \in Nat /\ (n >= 2 => Round(a, n) <= a)
<1>1. LET r == Round(a, n) IN r \in Int /\ 2 * (n * r) <= 2 * a + n - (1 - tie) /\ 2 * a + n - (1 - tie) < 2 * (n * r) + 2 * n
  BY RoundBetween
<1>2. PICK r \in Int : r = Round(a, n)
  BY <1>1
<1>3. 2 * (n * r) <= 2 * a + n /\ 2 * a + n - 1 < 2 * (n * r) + 2 * n
  BY <1>1, <1>2
<1>4. r >= 0
  <2>1. SUFFICES ASSUME r <= -1 PROVE FALSE
    OBVIOUS
  <2>2. n * r <= -n
    BY <2>1
  <2> QED BY <1>3, <2>2
<1>5. ASSUME n >= 2 PROVE r <= a
  <2>1. CASE r <= 1
    <3>1. CASE a >= 1
      BY <2>1, <3>1
    <3>2. CASE a = 0
      <4>1. 2 * (n * r) <= n
        BY <1>3, <3>2
      <4>2. r # 1
        BY <4>1
      <4> QED BY <2>1, <3>2, <4>2
    <3> QED BY <3>1, <3>2
  <2>2. CASE r >= 2
    <3>1. n * r - n = n * (r - 1) /\ n * (r - 1) >= 2 * (r - 1)
      BY <1>5, <2>2
    <3>2. n * r \in Int
      OBVIOUS
    <3>3. 2 * (n * r) - n = n * r + (n * r - n) /\ n * r >= 2 * r
      BY <1>5, <2>2, <3>2
    <3>4. 2 * (n * r) - n <= 2 * a
      BY <1>3, <3>2
    <3>5. 2 * (n * r) - n >= 2 * r + 2 * (r - 1)
      BY <3>1, <3>2, <3>3
    <3> QED BY <2>2, <3>2, <3>4, <3>5
  <2> QED BY <2>1, <2>2
<1> QED
  BY <1>2, <1>4, <1>5

\* The tax of a year.
LEMMA TaxTypes ==
  ASSUME NEW i \in Years
  PROVE  LET t == computeSubstituteTax(i)
         IN  /\ t.grossIncome \in Nat /\ t.contributionsDeducted \in Nat /\ t.substituteTax \in Nat /\ t.taxNetOfCredits \in Nat
             /\ t.taxNetOfCredits = t.substituteTax - AtMost(roundEuro(i.taxCredits, 100), t.substituteTax)
<1> DEFINE collected == roundEuro(i.revenue, 100)
           gross     == roundEuro(collected * i.coefficient, 100)
           deducted  == AtMost(roundEuro(i.contributionsPaid, 100), gross)
           rate      == IF reducedRateApplies(i) THEN rules.reducedRate ELSE rules.standardRate
           tax       == roundEuro((gross - deducted) * rate, 100)
           credit    == roundEuro(i.taxCredits, 100)
<1>0. i.revenue \in Nat /\ i.coefficient \in Nat /\ i.contributionsPaid \in Nat /\ i.taxCredits \in Nat
  BY DEF Years
<1>1. collected \in Nat /\ credit \in Nat /\ roundEuro(i.contributionsPaid, 100) \in Nat
  BY <1>0, EuroTypes
<1>2. PICK c \in Nat : c = collected
  BY <1>1
<1>3. c * i.coefficient \in Nat
  BY <1>0
<1>4. gross \in Nat
  BY <1>2, <1>3, EuroTypes
<1>5. deducted \in Nat /\ gross - deducted \in Nat
  <2> HIDE DEF gross
  <2> QED BY <1>1, <1>4 DEF AtMost
<1>6. rate \in Nat
  BY DEF rules
<1>7. tax \in Nat
  <2>1. PICK b \in Nat : b = gross - deducted
    BY <1>5
  <2>2. PICK r \in Nat : r = rate
    BY <1>6
  <2>3. b * r \in Nat
    OBVIOUS
  <2> QED BY <2>1, <2>2, <2>3, EuroTypes
<1>8. /\ computeSubstituteTax(i).grossIncome = gross /\ computeSubstituteTax(i).contributionsDeducted = deducted
      /\ computeSubstituteTax(i).substituteTax = tax /\ computeSubstituteTax(i).taxNetOfCredits = AtLeast(0, tax - credit)
  BY DEF computeSubstituteTax
<1> HIDE DEF gross, deducted, rate, tax, credit, collected
<1>9. AtLeast(0, tax - credit) \in Nat /\ AtLeast(0, tax - credit) = tax - AtMost(credit, tax)
  BY <1>1, <1>7 DEF AtLeast, AtMost
<1> QED
  BY <1>4, <1>5, <1>7, <1>8, <1>9 DEF credit

\* The two installments of an advance make it up.
Split(advance) == advance.first \in Nat /\ advance.second \in Nat /\ advance.first + advance.second = advance.total

\* An advance splits.
LEMMA SplitInTwo == \A t \in Nat : \A f \in 0..t : Split(Advance(t, f))
BY DEF Split, Advance

\* The tax advance is in whole euros.
LEMMA TaxAdvance ==
  ASSUME tie \in {0, 1}, NEW net \in Nat, NEW isa \in BOOLEAN
  PROVE  LET advance == substituteTaxAdvance(net, isa) IN Split(advance) /\ \E e \in Nat : advance.total = 100 * e
<1> DEFINE total == 100 * net
           rate  == IF isa THEN rules.isaFirstInstallment ELSE rules.firstInstallment
           first == Round(total * rate, 100)
<1>1. PICK r \in {40, 50} : r = rate
  BY DEF rules
<1>2. first = net * r
  <2>1. PICK m \in Nat : m = net * r
    OBVIOUS
  <2>2. total * rate = 100 * m
    BY <1>1, <2>1
  <2>3. Round(100 * m, 100) = m
    BY DEF Round
  <2> QED BY <2>1, <2>2, <2>3
<1>3. first \in 0..total /\ total \in Nat
  BY <1>2
<1>4. substituteTaxAdvance(net, isa) \in {NO_ADVANCE, Advance(total, 0), Advance(total, first)}
  BY DEF substituteTaxAdvance
<1> HIDE DEF first, rate
<1>5. Split(NO_ADVANCE) /\ Split(Advance(total, 0)) /\ Split(Advance(total, first))
  BY <1>3, SplitInTwo DEF NO_ADVANCE
<1>6. NO_ADVANCE.total = 100 * 0 /\ Advance(total, 0).total = 100 * net /\ Advance(total, first).total = 100 * net
  BY DEF NO_ADVANCE, Advance
<1> QED
  BY <1>4, <1>5, <1>6

\* A scheme of artisans or traders.
LEMMA SchemeIs ==
  ASSUME NEW i \in Years
  PROVE  /\ contributionScheme(i) \in {"none", "separate", "selfEmployed"}
         /\ contributionScheme(i) = "none" <=> i.scheme = "PROFESSIONAL_FUND"
         /\ contributionScheme(i) = "selfEmployed" => i.scheme \in {"INPS_ARTISANS", "INPS_TRADERS"}
<1>1. i.scheme \in Schemes
  BY DEF Years
<1>2. DOMAIN selfEmployed.rates = {"INPS_ARTISANS", "INPS_TRADERS"}
  BY DEF selfEmployed
<1> QED
  BY <1>1, <1>2 DEF contributionScheme, Schemes

\* What an artisan or a trader owes above the floor is an amount.
LEMMA ExcessTypes ==
  ASSUME NEW gross \in Nat, NEW i \in Years, i.scheme \in {"INPS_ARTISANS", "INPS_TRADERS"}
  PROVE  excess(gross, i) \in Nat
<1> DEFINE capped  == AtMost(gross, IF i.seniorityBefore1996 THEN selfEmployed.ceilingWithSeniority ELSE selfEmployed.ceiling)
           taxable == AtLeast(0, capped - selfEmployed.incomeFloor)
           first   == AtLeast(0, AtMost(capped, selfEmployed.higherRateThreshold) - selfEmployed.incomeFloor)
           rate    == selfEmployed.rates[i.scheme]
<1>1. capped \in Nat
  BY DEF selfEmployed, AtMost
<1>2. selfEmployed.incomeFloor = 18808 /\ selfEmployed.higherRateThreshold = 56224
  BY DEF selfEmployed
<1>3. rate.base \in Nat /\ rate.higher \in Nat
  BY DEF selfEmployed
<1>4. reduction(i) \in {20, 13}
  BY DEF reduction, selfEmployed
<1> HIDE DEF capped, rate
<1>5. taxable \in Nat /\ first \in Nat /\ taxable - first \in Nat
  BY <1>1, <1>2 DEF AtMost, AtLeast
<1>6. excess(gross, i) = (first * rate.base + (taxable - first) * rate.higher) * reduction(i)
  BY DEF excess, capped, rate
<1> HIDE DEF taxable, first
<1>7. PICK a \in Nat, b \in Nat, c \in Nat, d \in Nat, r \in Nat : a = first /\ b = taxable - first /\ c = rate.base /\ d = rate.higher /\ r = reduction(i)
  BY <1>3, <1>4, <1>5
<1>8. (a * c + b * d) * r \in Nat
  <2>1. PICK x \in Nat, y \in Nat : x = a * c /\ y = b * d
    OBVIOUS
  <2>2. (x + y) * r \in Nat
    OBVIOUS
  <2> QED BY <2>1, <2>2
<1> QED
  BY <1>6, <1>7, <1>8

\* What is computed of the contributions, and the two halves of their advance.
LEMMA ContributionTypes ==
  ASSUME tie \in {0, 1}, NEW gross \in Nat, NEW i \in Years
  PROVE  computeContribution(gross, i) \in Nat /\ Split(contributionAdvance(gross, i))
<1>1. PICK base \in Nat : base = AtMost(gross, rules.inpsCeiling)
  BY DEF AtMost, rules
<1>2. PICK rate \in Nat : rate = inpsRate(i)
  BY DEF inpsRate, rules
<1>3. PICK product \in Nat : product = base * rate
  OBVIOUS
<1>4. \A t \in Nat : Round(t, 2) \in 0..t
  BY RoundNat
<1>5. computeSeparateSchemeContribution(gross, i) \in Nat
  BY <1>1, <1>2, <1>3, RoundNat DEF computeSeparateSchemeContribution
<1>6. Split(inpsAdvance(gross, i))
  <2>1. PICK c \in Nat : c = Round(product, 100)
    BY RoundNat
  <2>2. PICK t \in Nat : t = Round(c * rules.inpsAdvance, 100)
    <3>1. c * rules.inpsAdvance \in Nat
      BY DEF rules
    <3> QED BY <3>1, RoundNat
  <2>3. inpsAdvance(gross, i) = Advance(t, Round(t, 2))
    BY <1>1, <1>2, <1>3, <2>1, <2>2 DEF inpsAdvance
  <2> QED BY <1>4, <2>3, SplitInTwo
<1>7. Split(NO_ADVANCE)
  BY SplitInTwo DEF NO_ADVANCE
<1>8. ASSUME contributionScheme(i) = "selfEmployed"
      PROVE  selfEmployedExcessContribution(gross, i) \in Nat /\ Split(selfEmployedAdvance(gross, i))
  <2>1. PICK e \in Nat : e = excess(gross, i)
    BY <1>8, SchemeIs, ExcessTypes
  <2>2. Round(e, 50000) \in Nat
    BY RoundNat
  <2>3. PICK t \in Nat : t = Round(e, 500)
    BY RoundNat
  <2>4. selfEmployedAdvance(gross, i) \in {NO_ADVANCE, Advance(t, Round(t, 2))}
    BY <2>1, <2>3 DEF selfEmployedAdvance
  <2>5. Split(Advance(t, Round(t, 2)))
    BY <1>4, SplitInTwo
  <2> QED BY <1>7, <2>1, <2>2, <2>4, <2>5 DEF selfEmployedExcessContribution
<1>9. CASE contributionScheme(i) = "none"
  BY <1>7, <1>9 DEF computeContribution, contributionAdvance
<1>10. CASE contributionScheme(i) = "separate"
  BY <1>5, <1>6, <1>10 DEF computeContribution, contributionAdvance
<1>11. CASE contributionScheme(i) = "selfEmployed"
  BY <1>8, <1>11 DEF computeContribution, contributionAdvance
<1> QED
  BY <1>9, <1>10, <1>11, SchemeIs

\* What a year comes to.
LEMMA SummaryTypes ==
  ASSUME tie \in {0, 1}, NEW i \in Years
  PROVE  LET s == summary(i)
         IN  /\ s.result.taxNetOfCredits \in Nat
             /\ s.taxBalance = s.result.taxNetOfCredits - roundEuro(i.taxAdvancesPaid, 100) /\ s.taxBalance \in Int /\ s.inpsBalance \in Int
             /\ s.inpsContribution \in Nat
             /\ s.inpsBalance = IF contributionScheme(i) = "none" THEN 0 ELSE 100 * s.inpsContribution - i.inpsAdvancesPaid
             /\ Split(s.tax) /\ (\E e \in Nat : s.tax.total = 100 * e)
             /\ Split(s.inps) /\ (contributionScheme(i) = "none" => s.inps = NO_ADVANCE)
<1> DEFINE t == computeSubstituteTax(i)
           c == computeContribution(t.grossIncome, i)
           s == summary(i)
<1>1. /\ s.result = t /\ s.inpsContribution = c /\ s.taxBalance = t.taxNetOfCredits - roundEuro(i.taxAdvancesPaid, 100)
      /\ s.inpsBalance = (IF contributionScheme(i) = "none" THEN 0 ELSE 100 * c - i.inpsAdvancesPaid)
      /\ s.tax = substituteTaxAdvance(t.taxNetOfCredits, i.isaSubject) /\ s.inps = contributionAdvance(t.grossIncome, i)
  BY DEF summary
<1>2. t.grossIncome \in Nat /\ t.taxNetOfCredits \in Nat
  BY TaxTypes
<1> HIDE DEF t, s
<1>3. c \in Nat /\ Split(s.inps)
  BY <1>1, <1>2, ContributionTypes
<1>4. i.inpsAdvancesPaid \in Int /\ i.taxAdvancesPaid \in Int /\ i.isaSubject \in BOOLEAN
  BY DEF Years
<1>5. roundEuro(i.taxAdvancesPaid, 100) \in Int
  BY <1>4, EuroTypes
<1>6. Split(s.tax) /\ \E e \in Nat : s.tax.total = 100 * e
  BY <1>1, <1>2, <1>4, TaxAdvance
<1>7. contributionScheme(i) = "none" => s.inps = NO_ADVANCE
  BY <1>1 DEF contributionAdvance
<1> HIDE DEF c
<1>8. s.taxBalance \in Int /\ s.inpsBalance \in Int
  BY <1>1, <1>2, <1>3, <1>4, <1>5
<1> QED
  BY <1>1, <1>2, <1>3, <1>6, <1>7, <1>8 DEF s

\* The debts of a year: its balances, if it owes any, and the installments of the advances.
LEMMA DueIs ==
  ASSUME tie \in {0, 1}, NEW i \in Years
  PROVE  LET due == dueOf(i)  s == summary(i)
         IN  /\ \A x \in Sections, r \in Roles : due[x][r] \in Nat
             /\ due["TREASURY"]["BALANCE"] = 100 * AtLeast(0, s.taxBalance) /\ due["INPS"]["BALANCE"] = AtLeast(0, s.inpsBalance)
             /\ due["TREASURY"]["FIRST_ADVANCE"] = s.tax.first /\ due["TREASURY"]["SECOND_ADVANCE"] = s.tax.second
             /\ due["INPS"]["FIRST_ADVANCE"] = s.inps.first /\ due["INPS"]["SECOND_ADVANCE"] = s.inps.second
<1> DEFINE s == summary(i)
<1>1. /\ s.taxBalance \in Int /\ s.inpsBalance \in Int /\ s.tax.first \in Nat /\ s.tax.second \in Nat /\ s.inps.first \in Nat /\ s.inps.second \in Nat
  BY SummaryTypes DEF Split
<1>2. 100 * AtLeast(0, s.taxBalance) \in Nat /\ AtLeast(0, s.inpsBalance) \in Nat
  <2> HIDE DEF s
  <2> QED BY <1>1 DEF AtLeast
<1>3. /\ dueOf(i)["TREASURY"] = [BALANCE |-> 100 * AtLeast(0, s.taxBalance), FIRST_ADVANCE |-> s.tax.first, SECOND_ADVANCE |-> s.tax.second]
      /\ dueOf(i)["INPS"] = [BALANCE |-> AtLeast(0, s.inpsBalance), FIRST_ADVANCE |-> s.inps.first, SECOND_ADVANCE |-> s.inps.second]
  BY DEF dueOf
<1> HIDE DEF s
<1> QED
  BY <1>1, <1>2, <1>3 DEF s, Sections, Roles, Splittable

\* The plans asked for: any year, with any credit of the year before, paid from any of the first dates in at most 51 installments.
PlannedYear(q) ==
  q.year \in Years /\ q.next \in Nat /\ q.credit \in Nat /\ q.start \in DOMAIN startOptions /\ q.n \in 1..51

\* A plan of a year is one that DebtsPaid is about, and a year without a section owes nothing there.
LEMMA PlanIs ==
  ASSUME tie \in {0, 1}, NEW q, PlannedYear(q)
  PROVE  LET plan == PlanOf(q)
         IN  /\ plan.start \in DOMAIN startOptions /\ plan.n \in Nat \ {0} /\ plan.n = q.n /\ plan.due = dueOf(q.year)
             /\ (\A s \in Sections, r \in Roles : plan.due[s][r] \in Nat) /\ plan.credits \in Seq(Nat)
             /\ \A d \in Sections \X Roles : d[1] \in sections(plan.scheme) \/ plan.due[d[1]][d[2]] = 0
<1> DEFINE plan == PlanOf(q)
<1>1. /\ plan.scheme = q.year.scheme /\ plan.due = dueOf(q.year) /\ plan.start = q.start /\ plan.n = q.n
      /\ plan.credits = IF q.credit = 0 THEN <<>> ELSE <<q.credit>>
  BY DEF PlanOf
<1>2. q.year \in Years /\ q.credit \in Nat /\ q.start \in DOMAIN startOptions /\ q.n \in Nat \ {0}
  BY DEF PlannedYear
<1>3. \A s \in Sections, r \in Roles : dueOf(q.year)[s][r] \in Nat
  BY <1>2, DueIs
<1>4. plan.credits \in Seq(Nat)
  <2> HIDE DEF plan
  <2> QED BY <1>1, <1>2
<1>5. ASSUME NEW d \in Sections \X Roles, d[1] \notin sections(plan.scheme) PROVE dueOf(q.year)[d[1]][d[2]] = 0
  <2>1. d[1] = "INPS" /\ q.year.scheme = "PROFESSIONAL_FUND"
    BY <1>1, <1>5 DEF sections, Sections
  <2>2. contributionScheme(q.year) = "none"
    BY <1>2, <2>1, SchemeIs
  <2>3. summary(q.year).inps = NO_ADVANCE /\ summary(q.year).inpsBalance = 0
    BY <1>2, <2>2, SummaryTypes
  <2>4. NO_ADVANCE.first = 0 /\ NO_ADVANCE.second = 0 /\ AtLeast(0, 0) = 0
    BY DEF NO_ADVANCE, Advance, AtLeast
  <2>5. d[2] \in {"BALANCE", "FIRST_ADVANCE", "SECOND_ADVANCE"}
    BY DEF Roles, Splittable
  <2> QED BY <1>2, <2>1, <2>3, <2>4, <2>5, DueIs
<1> HIDE DEF plan
<1> QED
  BY <1>1, <1>2, <1>3, <1>4, <1>5 DEF plan

\* The forms of a year pay its debts: the contributions and the second advance to the cent, the others but for less than a cent
\* for each installment.
LEMMA YearPaid ==
  ASSUME tie \in {0, 1}, NEW q, PlannedYear(q)
  PROVE  LET due == dueOf(q.year)  paid(s, r) == PaidFor(compute(PlanOf(q)), <<s, r>>)
         IN  /\ FormsSound(compute(PlanOf(q)))
             /\ \A s \in Sections, r \in Roles : paid(s, r) \in due[s][r] - 50..due[s][r]
             /\ \A s \in Sections, r \in Roles : s = "INPS" \/ r = "SECOND_ADVANCE" => paid(s, r) = due[s][r]
<1> DEFINE plan == PlanOf(q)
<1>1. /\ plan.start \in DOMAIN startOptions /\ plan.n \in Nat \ {0} /\ plan.n = q.n /\ plan.due = dueOf(q.year)
      /\ (\A s \in Sections, r \in Roles : plan.due[s][r] \in Nat) /\ plan.credits \in Seq(Nat)
      /\ \A d \in Sections \X Roles : d[1] \in sections(plan.scheme) \/ plan.due[d[1]][d[2]] = 0
  BY PlanIs
<1>2. plan.n \in 1..51
  BY <1>1 DEF PlannedYear
<1> HIDE DEF plan
<1>3. FormsSound(compute(plan))
  BY <1>1, ComputeSound
<1>4. ASSUME NEW s \in Sections, NEW r \in Roles
      PROVE  /\ PaidFor(compute(plan), <<s, r>>) \in plan.due[s][r] - 50..plan.due[s][r]
             /\ s = "INPS" \/ r = "SECOND_ADVANCE" => PaidFor(compute(plan), <<s, r>>) = plan.due[s][r]
  <2> DEFINE d == <<s, r>>
  <2>1. d \in Sections \X Roles /\ d[1] = s /\ d[2] = r
    OBVIOUS
  <2> HIDE DEF d
  <2>2. d[1] \in sections(plan.scheme) \/ plan.due[d[1]][d[2]] = 0
    BY <1>1, <2>1
  <2>3. /\ PaidFor(compute(plan), d) \in plan.due[d[1]][d[2]] - (plan.n - 1)..plan.due[d[1]][d[2]]
        /\ d[1] = "INPS" \/ d[2] = "SECOND_ADVANCE" => PaidFor(compute(plan), d) = plan.due[d[1]][d[2]]
    BY <1>1, <2>1, <2>2, DebtsPaid
  <2>4. PICK owed \in Nat : owed = plan.due[d[1]][d[2]]
    BY <1>1, <2>1
  <2> QED BY <1>2, <2>1, <2>3, <2>4 DEF d
<1> QED
  BY <1>1, <1>3, <1>4 DEF plan

\* The year that follows one, with another revenue and what was paid.
Following(y, r, c, t, a) == [y EXCEPT !.revenue = r, !.contributionsPaid = c, !.taxAdvancesPaid = t, !.inpsAdvancesPaid = a]

\* The year that follows is one, and counts the advances it was given.
LEMMA FollowingYear ==
  ASSUME NEW y \in Years, NEW r \in Nat, NEW c \in Nat, NEW t \in Int, NEW a \in Int
  PROVE  Following(y, r, c, t, a) \in Years /\ Following(y, r, c, t, a).taxAdvancesPaid = t
BY DEF Years, Following

\* What the forms of any year pay is what the next year counts: its advances, the tax in euros, and the contributions.
THEOREM YearsClose ==
  ASSUME tie \in {0, 1}, NEW q, PlannedYear(q)
  PROVE  YearClosesFor(q)
<1> DEFINE s     == summary(q.year)
           forms == compute(PlanOf(q))
           paid  == paidFromF24(forms)
           next  == Following(q.year, q.next, paid.contributionsPaid, paid.taxAdvancesPaid, paid.inpsAdvancesPaid)
           p(x, r) == PaidFor(forms, <<x, r>>)
           due   == dueOf(q.year)
<1>1. q.year \in Years /\ q.next \in Nat
  BY DEF PlannedYear
<1>2. /\ FormsSound(forms)
      /\ \A x \in Sections, r \in Roles : p(x, r) \in due[x][r] - 50..due[x][r]
      /\ \A x \in Sections, r \in Roles : x = "INPS" \/ r = "SECOND_ADVANCE" => p(x, r) = due[x][r]
  BY YearPaid
<1>3. /\ \A x \in Sections, r \in Roles : due[x][r] \in Nat
      /\ due["INPS"]["BALANCE"] = AtLeast(0, s.inpsBalance)
      /\ due["TREASURY"]["FIRST_ADVANCE"] = s.tax.first /\ due["TREASURY"]["SECOND_ADVANCE"] = s.tax.second
      /\ due["INPS"]["FIRST_ADVANCE"] = s.inps.first /\ due["INPS"]["SECOND_ADVANCE"] = s.inps.second
  BY <1>1, DueIs
<1>4. Split(s.tax) /\ Split(s.inps) /\ (\E e \in Nat : s.tax.total = 100 * e) /\ s.inpsBalance \in Int
  BY <1>1, SummaryTypes
<1>5. Roles = {"BALANCE", "FIRST_ADVANCE", "SECOND_ADVANCE"} /\ Sections = {"TREASURY", "INPS"}
  BY DEF Roles, Splittable, Sections
<1> HIDE DEF forms, s, due
<1>6. /\ p("TREASURY", "FIRST_ADVANCE") \in s.tax.first - 50..s.tax.first /\ p("TREASURY", "SECOND_ADVANCE") = s.tax.second
      /\ p("INPS", "BALANCE") = AtLeast(0, s.inpsBalance) /\ p("INPS", "FIRST_ADVANCE") = s.inps.first
      /\ p("INPS", "SECOND_ADVANCE") = s.inps.second
  BY <1>2, <1>3, <1>5
<1>7. \A d \in Sections \X Roles : PaidFor(forms, d) \in Int
  <2> SUFFICES ASSUME NEW d \in Sections \X Roles PROVE PaidFor(forms, d) \in Int
    OBVIOUS
  <2>1. d = <<d[1], d[2]>> /\ d[1] \in Sections /\ d[2] \in Roles
    OBVIOUS
  <2>2. PICK owed \in Nat : owed = due[d[1]][d[2]]
    BY <1>3, <2>1
  <2>3. p(d[1], d[2]) \in owed - 50..owed
    BY <1>2, <2>1, <2>2
  <2> QED BY <2>1, <2>3
<1>8. /\ paid.taxAdvancesPaid = p("TREASURY", "FIRST_ADVANCE") + p("TREASURY", "SECOND_ADVANCE")
      /\ paid.inpsAdvancesPaid = p("INPS", "FIRST_ADVANCE") + p("INPS", "SECOND_ADVANCE")
      /\ paid.contributionsPaid = p("INPS", "BALANCE") + p("INPS", "FIRST_ADVANCE") + p("INPS", "SECOND_ADVANCE")
  BY <1>2, <1>7, CarriedPaid
<1> HIDE DEF paid, p
<1>9. paid.inpsAdvancesPaid = s.inps.total /\ paid.inpsAdvancesPaid \in Nat
  BY <1>4, <1>6, <1>8 DEF Split
<1>10. paid.contributionsPaid = AtLeast(0, s.inpsBalance) + s.inps.total /\ paid.contributionsPaid \in Nat
  <2>1. PICK b \in Nat : b = AtLeast(0, s.inpsBalance)
    BY <1>4 DEF AtLeast
  <2> QED BY <1>4, <1>6, <1>8, <2>1 DEF Split
<1>11. PICK e \in Nat : s.tax.total = 100 * e
  BY <1>4
<1>12. PICK m \in 0..50 : paid.taxAdvancesPaid = 100 * e - m
  <2>1. PICK f \in Nat, g \in Nat : f = s.tax.first /\ g = s.tax.second /\ f + g = 100 * e
    BY <1>4, <1>11 DEF Split
  <2>2. PICK h \in f - 50..f : h = p("TREASURY", "FIRST_ADVANCE")
    BY <1>6, <2>1
  <2>3. f - h \in 0..50 /\ h + g = 100 * e - (f - h)
    BY <2>1
  <2> QED BY <1>6, <1>8, <2>1, <2>2, <2>3
<1>13. 100 * roundEuro(paid.taxAdvancesPaid, 100) = s.tax.total /\ roundEuro(paid.taxAdvancesPaid, 100) = e
  <2>1. roundEuro(100 * e - m, 100) = e
    BY DEF roundEuro
  <2> QED BY <1>11, <1>12, <2>1
<1>14. next \in Years /\ next.taxAdvancesPaid = paid.taxAdvancesPaid
  <2>1. paid.taxAdvancesPaid \in Int
    BY <1>12
  <2> QED BY <1>1, <1>9, <1>10, <2>1, FollowingYear
<1> DEFINE of == summary(next)
<1>15. of.result.taxNetOfCredits \in Nat /\ of.taxBalance = of.result.taxNetOfCredits - roundEuro(paid.taxAdvancesPaid, 100)
  <2>1. of.result.taxNetOfCredits \in Nat /\ of.taxBalance = of.result.taxNetOfCredits - roundEuro(next.taxAdvancesPaid, 100)
    BY <1>14, SummaryTypes
  <2> QED BY <1>14, <2>1
<1> HIDE DEF next
<1>16. s.tax.total + 100 * of.taxBalance = 100 * of.result.taxNetOfCredits
  BY <1>11, <1>13, <1>15
<1>17. Closes(q, s, paid)
  BY <1>9, <1>10, <1>13, <1>16 DEF Closes, next, Following
<1> QED
  BY <1>17 DEF YearClosesFor, s, paid, forms

\* A taxpayer who paid the fixed installments as computed owes nothing.
LEMMA FixedBalance ==
  ASSUME tie \in {0, 1}, NEW i \in Years, i.scheme \in {"INPS_ARTISANS", "INPS_TRADERS"}
  PROVE  LET fixed == selfEmployedFixedContribution(i)
         IN  fixedReturnBalance(i, MapThenSumSet(LAMBDA k : fixed.installments[k], DOMAIN fixed.installments)) = 0
<1> DEFINE ivs   == Round(selfEmployed.incomeFloor * selfEmployed.rates[i.scheme].base * reduction(i), 500)
           total == ivs + selfEmployed.maternity
           each  == total \div selfEmployed.installments
           f     == [k \in 1..selfEmployed.installments |-> IF k = selfEmployed.installments THEN total - each * (k - 1) ELSE each]
           fixed == selfEmployedFixedContribution(i)
<1>1. selfEmployed.installments = 4 /\ selfEmployed.maternity = 744
  BY DEF selfEmployed
<1>2. ivs \in Nat
  <2>1. selfEmployed.incomeFloor \in Nat /\ selfEmployed.rates[i.scheme].base \in Nat
    BY DEF selfEmployed
  <2>2. reduction(i) \in Nat
    BY DEF reduction, selfEmployed
  <2>3. selfEmployed.incomeFloor * selfEmployed.rates[i.scheme].base * reduction(i) \in Nat
    <3>1. PICK a \in Nat, b \in Nat, c \in Nat : a = selfEmployed.incomeFloor /\ b = selfEmployed.rates[i.scheme].base /\ c = reduction(i)
      BY <2>1, <2>2
    <3>2. PICK d \in Nat : d = a * b
      OBVIOUS
    <3>3. d * c \in Nat
      OBVIOUS
    <3> QED BY <3>1, <3>2, <3>3
  <2> QED BY <2>3, RoundNat
<1>3. fixed.ivs = ivs /\ fixed.maternity = selfEmployed.maternity /\ fixed.installments = f
  BY DEF selfEmployedFixedContribution
<1> HIDE DEF ivs, fixed
<1>4. PICK t \in Int : t = total
  BY <1>1, <1>2
<1>5. PICK e \in Int : e = each
  BY <1>1, <1>4
<1>6. DOMAIN f = 1..4 /\ (\A k \in 1..(4 - 1) : f[k] = e) /\ f[4] = t - e * (4 - 1)
  BY <1>1, <1>4, <1>5
<1> HIDE DEF f, total, each
<1>7. SumFunctionOnSet(f, 1..4) = t
  <2>1. 4 \in Nat \ {0}
    OBVIOUS
  <2> QED BY <1>6, <2>1, SumShares
<1>8. MapThenSumSet(LAMBDA k : fixed.installments[k], DOMAIN fixed.installments) = SumFunctionOnSet(f, 1..4)
  <2>1. MapThenSumSet(LAMBDA k : fixed.installments[k], DOMAIN fixed.installments) = SumFunctionOnSet(fixed.installments, DOMAIN fixed.installments)
    BY DEF MapThenSumSet, SumFunctionOnSet, FoldFunctionOnSet
  <2>2. SumFunctionOnSet(fixed.installments, DOMAIN fixed.installments) = SumFunctionOnSet(f, 1..4)
    BY <1>3, <1>6
  <2> QED BY <2>1, <2>2
<1>9. fixed.ivs + fixed.maternity = t
  BY <1>3, <1>4 DEF total
<1>10. \A paid : fixedReturnBalance(i, paid) = BalanceOf(fixed.ivs + fixed.maternity, paid)
  BY DEF fixedReturnBalance, fixed
<1>11. BalanceOf(t, t) = 0
  BY DEF BalanceOf, roundEuro
<1> QED
  BY <1>7, <1>8, <1>9, <1>10, <1>11 DEF fixed

\* The return of any year says what its plan pays, to the euro, and that of a year whose fixed installments were paid asks for none.
THEOREM YearsAgree ==
  ASSUME tie \in {0, 1}, NEW q, PlannedYear(q)
  PROVE  ReturnAgreesFor(q)
<1> DEFINE i     == q.year
           s     == summary(i)
           t     == computeSubstituteTax(i)
           plan  == PlanOf(q)
           used  == MapThenSumSet(LAMBDA k : Compensation(plan.scheme, plan.due, plan.credits, plan.order).usages[k], DOMAIN plan.credits)
           lm    == lmReturnRows(i, [amount |-> q.credit, used |-> used])
           rr    == contributionReturnRows(s.inpsContribution, i.inpsAdvancesPaid)
           fixed == selfEmployedFixedContribution(i)
           paid  == PaidFor(compute(plan), <<"TREASURY", "BALANCE">>)
<1>1. i \in Years /\ q.credit \in Nat
  BY DEF PlannedYear
<1>2. ReturnAgreesFor(q) = Agrees(q, s, plan, used, lm, rr, fixed)
  BY DEF ReturnAgreesFor
<1>3. /\ s.result = t /\ t.taxNetOfCredits \in Nat /\ t.taxNetOfCredits = t.substituteTax - AtMost(roundEuro(i.taxCredits, 100), t.substituteTax)
      /\ s.taxBalance = t.taxNetOfCredits - roundEuro(i.taxAdvancesPaid, 100) /\ s.taxBalance \in Int /\ s.inpsContribution \in Nat
      /\ s.inpsBalance = IF contributionScheme(i) = "none" THEN 0 ELSE 100 * s.inpsContribution - i.inpsAdvancesPaid
  <2>1. s.result = t
    BY DEF summary
  <2> HIDE DEF s, t
  <2> QED BY <1>1, <2>1, SummaryTypes, TaxTypes DEF s, t
<1>4. paid \in 100 * AtLeast(0, s.taxBalance) - 50..100 * AtLeast(0, s.taxBalance)
  <2>1. dueOf(i)["TREASURY"]["BALANCE"] = 100 * AtLeast(0, s.taxBalance)
    BY <1>1, DueIs
  <2>2. "TREASURY" \in Sections /\ "BALANCE" \in Roles
    BY DEF Sections, Roles, Splittable
  <2>3. paid \in dueOf(i)["TREASURY"]["BALANCE"] - 50..dueOf(i)["TREASURY"]["BALANCE"]
    BY <2>2, YearPaid
  <2> QED BY <2>1, <2>3
<1>5. /\ lm.balance = (t.substituteTax - AtMost(roundEuro(i.taxCredits, 100), t.substituteTax)) - roundEuro(q.credit, 100) + roundEuro(used, 100) - roundEuro(i.taxAdvancesPaid, 100)
      /\ lm.LM43 = roundEuro(q.credit, 100) /\ lm.LM44 = roundEuro(used, 100)
  BY DEF lmReturnRows
<1>6. rr.balance = roundEuro(100 * s.inpsContribution - i.inpsAdvancesPaid, 100)
  BY DEF contributionReturnRows, BalanceOf
<1>7. contributionScheme(i) = "selfEmployed" => fixedReturnBalance(i, MapThenSumSet(LAMBDA k : fixed.installments[k], DOMAIN fixed.installments)) = 0
  BY <1>1, SchemeIs, FixedBalance
<1>8. used \in Nat
  <2>1. plan.credits \in Seq(Nat) /\ \A x \in Sections, r \in Roles : plan.due[x][r] \in Nat
    BY PlanIs
  <2> DEFINE c == Compensation(plan.scheme, plan.due, plan.credits, plan.order)
  <2>2. Covers(c, plan.scheme, plan.due, plan.credits, plan.order)
    BY <2>1, CreditsCover
  <2> HIDE DEF c, plan
  <2>3. DOMAIN c.usages = DOMAIN plan.credits /\ \A k \in DOMAIN plan.credits : c.usages[k] \in 0..plan.credits[k]
    BY <2>2 DEF Covers
  <2>4. IsFiniteSet(DOMAIN plan.credits)
    <3>1. PICK m \in Nat : DOMAIN plan.credits = 1..m
      BY <2>1, LenProperties
    <3>2. IsFiniteSet(1..m)
      BY FS_Interval
    <3> QED BY <3>1, <3>2
  <2>5. \A k \in DOMAIN plan.credits : c.usages[k] \in Nat
    <3>1. \A k \in DOMAIN plan.credits : plan.credits[k] \in Nat
      BY <2>1
    <3> QED BY <2>3, <3>1
  <2>6. SumFunctionOnSet(c.usages, DOMAIN plan.credits) \in Nat
    BY <2>4, <2>5, SumIn
  <2>7. used = SumFunctionOnSet(c.usages, DOMAIN plan.credits)
    BY DEF c, MapThenSumSet, SumFunctionOnSet, FoldFunctionOnSet
  <2> QED BY <2>6, <2>7
<1> HIDE DEF s, t, plan, used, lm, rr, fixed, paid
<1>9. PICK a \in Int, b \in Nat, c \in Nat, n \in Nat, v \in Int :
        /\ a = roundEuro(i.taxAdvancesPaid, 100) /\ b = roundEuro(q.credit, 100) /\ c = roundEuro(used, 100)
        /\ n = t.taxNetOfCredits /\ v = i.inpsAdvancesPaid
  <2>1. i.taxAdvancesPaid \in Int /\ i.inpsAdvancesPaid \in Int
    BY <1>1 DEF Years
  <2> QED BY <1>1, <1>3, <1>8, <2>1, EuroTypes
<1>10. lm.balance = n - b + c - a /\ lm.LM43 = b /\ lm.LM44 = c /\ s.taxBalance = n - a
  BY <1>3, <1>5, <1>9
<1>11. used = q.credit => AtLeast(0, lm.balance) = roundEuro(paid, 100)
  <2>1. SUFFICES ASSUME used = q.credit PROVE AtLeast(0, lm.balance) = roundEuro(paid, 100)
    OBVIOUS
  <2>2. b = c
    BY <1>9, <2>1
  <2>3. PICK e \in Nat : e = AtLeast(0, s.taxBalance)
    BY <1>3 DEF AtLeast
  <2>4. PICK m \in 0..50 : paid = 100 * e - m
    <3>1. PICK p \in 100 * e - 50..100 * e : p = paid
      BY <1>4, <2>3
    <3>2. 100 * e - p \in 0..50 /\ p = 100 * e - (100 * e - p)
      OBVIOUS
    <3> QED BY <3>1, <3>2
  <2>5. roundEuro(100 * e - m, 100) = e
    BY DEF roundEuro
  <2>6. lm.balance = s.taxBalance
    BY <1>10, <2>2
  <2> QED BY <2>3, <2>4, <2>5, <2>6
<1>12. contributionScheme(i) # "none" => 100 * rr.balance - s.inpsBalance \in -50..50
  <2>1. SUFFICES ASSUME contributionScheme(i) # "none" PROVE 100 * rr.balance - s.inpsBalance \in -50..50
    OBVIOUS
  <2>2. PICK g \in Int : g = 100 * s.inpsContribution - v
    BY <1>3
  <2>3. s.inpsBalance = g /\ rr.balance = roundEuro(g, 100)
    BY <1>3, <1>6, <1>9, <2>1, <2>2
  <2> QED BY <2>3, EuroTypes
<1>13. lm.balance + lm.LM43 - lm.LM44 = s.taxBalance
  BY <1>10
<1>14. Agrees(q, s, plan, used, lm, rr, fixed)
  BY <1>7, <1>11, <1>12, <1>13 DEF Agrees, paid
<1> QED
  BY <1>2, <1>14

\* The years the rules are asked about are such years.
LEMMA YearCasesPlanned ==
  ASSUME NEW start \in DOMAIN startOptions, NEW q \in YearCases(start)
  PROVE  PlannedYear(q)
<1>1. q.year \in YearInputs /\ q.next = 5000000 /\ q.credit \in {0, 40000} /\ q.start = start /\ q.n \in {1, 4}
  BY DEF YearCases
<1> DEFINE R1 == {0, 40050, 100050, 883200, 4501234, 9000000}
           R2 == {4501234}
           C1 == {78}
           C2 == {40, 86}
           A1 == {4, 5}
           A2 == {2}
           P1 == {0, 350049}
           P2 == {0, 4000000}
           X1 == {0}
           X2 == {0, 12350}
           T1 == {93750}
           I2 == {0, 150}
           Yes == {TRUE}
           No  == {FALSE}
           One   == [scheme : Schemes, revenue : R1, coefficient : C1, age : A1, eligible : Yes,
                     contributionsPaid : P1, taxCredits : X1, taxAdvancesPaid : T1, inpsAdvancesPaid : T1,
                     isaSubject : No, inpsReducedRate : BOOLEAN, flatRateReduction : Yes, seniorityBefore1996 : No]
           Other == [scheme : Schemes, revenue : R2, coefficient : C2, age : A2, eligible : BOOLEAN,
                     contributionsPaid : P2, taxCredits : X2, taxAdvancesPaid : X1, inpsAdvancesPaid : I2,
                     isaSubject : BOOLEAN, inpsReducedRate : No, flatRateReduction : BOOLEAN, seniorityBefore1996 : Yes]
<1>2. YearInputs = One \cup Other
  BY DEF YearInputs
<1>3. One \subseteq Years /\ Other \subseteq Years
  <2>1. R1 \subseteq Nat /\ R2 \subseteq Nat /\ C1 \subseteq Nat /\ C2 \subseteq Nat
    OBVIOUS
  <2>2. P1 \subseteq Nat /\ P2 \subseteq Nat /\ X1 \subseteq Nat /\ X2 \subseteq Nat
    OBVIOUS
  <2>3. A1 \subseteq Int /\ A2 \subseteq Int /\ T1 \subseteq Int /\ X1 \subseteq Int /\ I2 \subseteq Int
    OBVIOUS
  <2>4. Yes \subseteq BOOLEAN /\ No \subseteq BOOLEAN /\ BOOLEAN \subseteq BOOLEAN
    OBVIOUS
  <2> HIDE DEF R1, R2, C1, C2, A1, A2, P1, P2, X1, X2, T1, I2, Yes, No, One, Other
  <2>5. One \subseteq Years
    BY <2>1, <2>2, <2>3, <2>4 DEF One, Years
  <2>6. Other \subseteq Years
    BY <2>1, <2>2, <2>3, <2>4 DEF Other, Years
  <2> QED BY <2>5, <2>6
<1> HIDE DEF One, Other
<1>4. q.year \in Years
  BY <1>1, <1>2, <1>3
<1> QED
  BY <1>1, <1>4 DEF PlannedYear

\* What YearsClose says of any year holds of those the rules are asked about.
THEOREM YearsAlways == DeskSpec => []YearCloses
<1>1. AskedInv => YearCloses
  <2> SUFFICES ASSUME AskedInv, asked.topic = "year", "year" \in DOMAIN asked PROVE YearClosesFor(asked)
    BY DEF YearCloses
  <2>1. CASE "from" \notin DOMAIN asked
    <3>1. tie \in {0, 1} /\ \E start \in DOMAIN startOptions : asked \in YearCases(start)
      BY <2>1 DEF AskedInv
    <3>2. PlannedYear(asked)
      BY <3>1, YearCasesPlanned
    <3> QED BY <3>1, <3>2, YearsClose
  <2> QED BY <2>1 DEF AskedInv
<1> QED
  BY <1>1, AskedStart, AskedStep, PTL DEF DeskSpec

-----------------------------------------------------------------------------
(* The revenue of a year *)

\* Any documents: totals above nothing, of which a fund has a share, collected in any instalments of the years about this one.
Collection == [year : {-1, 0, 1}, amount : Int]
Document(d) ==
  /\ {"total", "fund", "collected"} \subseteq DOMAIN d
  /\ d.total \in Nat \ {0} /\ d.fund \in 0..d.total /\ d.rate \in Nat /\ d.collected \in Seq(Collection)
Dossier(docs) == IsFiniteSet(DOMAIN docs) /\ \A i \in DOMAIN docs : Document(docs[i])

\* What is revenue comes in whole cents where no fund takes a share, and its rounding is then exact.
Figures(docs) == IF HasFund(docs) THEN Int ELSE {26 * m : m \in Int}
Half(docs)    == IF HasFund(docs) THEN 13 ELSE 0

\* Figures add up to figures.
LEMMA FiguresAdd ==
  ASSUME NEW docs
  PROVE  /\ Figures(docs) \subseteq Int /\ 0 \in Figures(docs)
         /\ \A a, b \in Figures(docs) : a + b \in Figures(docs) /\ a - b \in Figures(docs)
         /\ \A a \in Int : 26 * a \in Figures(docs)
<1> DEFINE K == {26 * m : m \in Int}
<1>1. K \subseteq Int /\ 0 \in K /\ \A a \in Int : 26 * a \in K
  <2>1. 0 = 26 * 0
    OBVIOUS
  <2> QED BY <2>1
<1>2. ASSUME NEW a \in K, NEW b \in K PROVE a + b \in K /\ a - b \in K
  <2>1. PICK m \in Int, n \in Int : a = 26 * m /\ b = 26 * n
    OBVIOUS
  <2>2. a + b = 26 * (m + n) /\ a - b = 26 * (m - n) /\ m + n \in Int /\ m - n \in Int
    BY <2>1
  <2> QED BY <2>2
<1> HIDE DEF K
<1>3. CASE HasFund(docs)
  <2>1. Figures(docs) = Int
    BY <1>3 DEF Figures
  <2> QED BY <2>1
<1>4. CASE ~ HasFund(docs)
  <2>1. Figures(docs) = K
    BY <1>4 DEF Figures, K
  <2> QED BY <1>1, <1>2, <2>1
<1> QED
  BY <1>3, <1>4

\* Two figures add up to one: FiguresAdd, of the two.
LEMMA FiguresPlus ==
  ASSUME NEW docs, NEW x \in Figures(docs), NEW y \in Figures(docs)
  PROVE  x + y \in Figures(docs) /\ x - y \in Figures(docs) /\ x \in Int /\ y \in Int
BY FiguresAdd

\* A figure in cents is within half a cent, and exact without a fund.
LEMMA CentsNear ==
  ASSUME tie \in {0, 1}, NEW docs, NEW x \in Figures(docs)
  PROVE  Cents(x) \in Int /\ 26 * Cents(x) - x \in -Half(docs)..Half(docs)
<1>1. CASE HasFund(docs)
  BY <1>1 DEF Figures, Half, Cents, Round, Parts
<1>2. CASE ~ HasFund(docs)
  <2>1. PICK m \in Int : x = 26 * m
    BY <1>2 DEF Figures
  <2>2. Cents(x) = m
    BY <2>1 DEF Cents, Round, Parts
  <2> QED BY <1>2, <2>1, <2>2 DEF Half
<1> QED
  BY <1>1, <1>2

\* The share of revenue of a document, in parts of a cent.
Weight(d) == IF d.fund = 0 THEN Parts ELSE ((d.total - d.fund) * Parts) \div d.total

LEMMA ShareIs ==
  ASSUME NEW d, Document(d)
  PROVE  Weight(d) \in 0..26 /\ (d.fund = 0 => Weight(d) = 26) /\ \A a \in Int : revenueShare(a, d) = a * Weight(d)
<1>1. PICK t \in Nat \ {0}, f \in Nat : t = d.total /\ f = d.fund /\ f <= t
  BY DEF Document
<1>2. \A a : revenueShare(a, d) = a * Weight(d)
  BY DEF revenueShare, Weight
<1>3. ((t - f) * 26) \div t \in 0..26
  <2>1. PICK x \in Nat : x = (t - f) * 26 /\ x <= 26 * t
    BY <1>1
  <2>2. PICK q \in Int : q = x \div t /\ t * q <= x /\ x < t * q + t
    BY <1>1, <2>1
  <2>3. q >= 0
    <3>1. ASSUME q <= -1 PROVE FALSE
      <4>1. t * q <= t * (-1)
        BY <1>1, <2>2, <3>1
      <4> QED BY <1>1, <2>1, <2>2, <4>1
    <3> QED BY <3>1, <2>2
  <2>4. q <= 26
    <3>1. ASSUME q >= 27 PROVE FALSE
      <4>1. t * q >= t * 27
        BY <1>1, <2>2, <3>1
      <4> QED BY <1>1, <2>1, <2>2, <4>1
    <3> QED BY <3>1, <2>2
  <2> QED BY <2>1, <2>2, <2>3, <2>4
<1> QED
  BY <1>1, <1>2, <1>3 DEF Weight, Parts

\* A share of an amount is a figure.
LEMMA ShareIn ==
  ASSUME NEW docs, Dossier(docs), NEW i \in DOMAIN docs, NEW a \in Int
  PROVE  revenueShare(a, docs[i]) \in Figures(docs)
<1>1. Weight(docs[i]) \in 0..26 /\ revenueShare(a, docs[i]) = a * Weight(docs[i]) /\ (docs[i].fund = 0 => Weight(docs[i]) = 26)
  BY ShareIs DEF Dossier
<1>2. CASE HasFund(docs)
  <2>1. PICK w \in Int : w = Weight(docs[i])
    BY <1>1
  <2> QED BY <1>1, <1>2, <2>1 DEF Figures
<1>3. CASE ~ HasFund(docs)
  <2>1. revenueShare(a, docs[i]) = 26 * a
    BY <1>1, <1>3 DEF HasFund
  <2> QED BY <2>1, FiguresAdd
<1> QED
  BY <1>2, <1>3

\* What is counted of the k-th collection.
Counting(d, Y) == [k \in DOMAIN d.collected |-> IF d.collected[k].year \in Y THEN revenueShare(d.collected[k].amount, d) ELSE 0]

LEMMA CollectionsAre ==
  ASSUME NEW d, Document(d)
  PROVE  /\ DOMAIN d.collected = 1..Len(d.collected) /\ Len(d.collected) \in Nat /\ IsFiniteSet(DOMAIN d.collected)
         /\ \A k \in DOMAIN d.collected : d.collected[k].year \in {-1, 0, 1} /\ d.collected[k].amount \in Int
         /\ \A Y : CollectedIn(d, Y) = SumFunctionOnSet(Counting(d, Y), DOMAIN d.collected)
<1>1. d.collected \in Seq(Collection)
  BY DEF Document
<1>2. PICK n \in Nat : n = Len(d.collected)
  BY <1>1, LenProperties
<1>3. DOMAIN d.collected = 1..n /\ \A k \in 1..n : d.collected[k] \in Collection
  BY <1>1, <1>2, ElementOfSeq, LenProperties
<1>4. IsFiniteSet(1..n)
  BY FS_Interval
<1>5. \A Y : CollectedIn(d, Y) = SumFunctionOnSet(Counting(d, Y), DOMAIN d.collected)
  BY DEF CollectedIn, Counting, SumFunction
<1> QED
  BY <1>2, <1>3, <1>4, <1>5 DEF Collection

\* What is collected of a document in some years is a figure, none where nothing is collected.
LEMMA CollectedIs ==
  ASSUME NEW docs, Dossier(docs), NEW i \in DOMAIN docs, NEW Y
  PROVE  /\ CollectedIn(docs[i], Y) \in Figures(docs)
         /\ (\A k \in DOMAIN docs[i].collected : docs[i].collected[k].year \notin Y) => CollectedIn(docs[i], Y) = 0
<1> DEFINE d == docs[i]
           f == Counting(d, Y)
<1>1. Document(d)
  BY DEF Dossier
<1>2. /\ IsFiniteSet(DOMAIN d.collected) /\ CollectedIn(d, Y) = SumFunctionOnSet(f, DOMAIN d.collected)
      /\ \A k \in DOMAIN d.collected : d.collected[k].amount \in Int
  BY <1>1, CollectionsAre
<1>3. \A k \in DOMAIN d.collected : f[k] \in Figures(docs)
  BY <1>2, ShareIn, FiguresAdd DEF Counting
<1>4. SumFunctionOnSet(f, DOMAIN d.collected) \in Figures(docs)
  <2> HIDE DEF f, d
  <2> QED BY <1>2, <1>3, FiguresAdd, SumWithin
<1>5. ASSUME \A k \in DOMAIN d.collected : d.collected[k].year \notin Y PROVE CollectedIn(d, Y) = 0
  <2>1. \A k \in DOMAIN d.collected : f[k] = 0
    BY <1>5 DEF Counting
  <2>2. SumFunctionOnSet(f, DOMAIN d.collected) = 0 * Cardinality(DOMAIN d.collected) /\ Cardinality(DOMAIN d.collected) \in Nat
    <3> HIDE DEF f, d
    <3> QED BY <1>2, <2>1, SumEqual, FS_CardinalityType
  <2> QED BY <1>2, <2>2
<1> QED
  BY <1>2, <1>4, <1>5

\* The amount of an entry after one more collection.
Collect(d, amount, p) == IF p.year = 0 THEN Cents(amount * Parts + revenueShare(p.amount, d)) ELSE amount

CollectedOneByOne(h, d) ==
  /\ h \in [0..Len(d.collected) -> Int] /\ h[0] = 0 /\ h[Len(d.collected)] = CollectedEntry(d)
  /\ \A k \in 0..(Len(d.collected) - 1) : h[k + 1] = Collect(d, h[k], d.collected[k + 1])

\* The entry of an invoice of another year is added up collection by collection (return-guide.service.ts, guide).
LEMMA EntrySums ==
  ASSUME tie \in {0, 1}, NEW d, Document(d)
  PROVE  \E h : CollectedOneByOne(h, d)
<1> PICK n, s : n \in Nat /\ n = Len(d.collected) /\ s = d.collected
  BY CollectionsAre
<1>1. DOMAIN s = 1..n /\ \A k \in 1..n : s[k].amount \in Int
  BY CollectionsAre
<1> DEFINE A == Int
           T == [p \in A \X (1..n) |-> Collect(d, p[1], s[p[2]])]
<1>2. T \in [A \X (1..n) -> A] /\ \A a \in A, k \in 1..n : T[<<a, k>>] = Collect(d, a, s[k])
  <2>1. ASSUME NEW a \in Int, NEW k \in 1..n PROVE Collect(d, a, s[k]) \in Int
    <3>0. PICK m \in Int : m = s[k].amount
      BY <1>1
    <3>1. PICK w \in 0..26 : revenueShare(s[k].amount, d) = m * w
      BY <3>0, ShareIs
    <3>2. a * Parts + m * w \in Int
      BY DEF Parts
    <3>3. PICK x \in Int : x = a * Parts + m * w
      BY <3>2
    <3>4. Cents(x) \in Int
      BY <3>3 DEF Cents, Round, Parts
    <3> QED BY <3>1, <3>3, <3>4 DEF Collect
  <2> QED BY <2>1
<1>3. 0 \in A
  OBVIOUS
<1> HIDE DEF T, A
<1>4. PICK c : /\ CollectedEntry(d) = c[1..n]
               /\ c = [t \in SUBSET (1..n) |-> IF t = {} THEN 0 ELSE Collect(d, c[t \ {Max(t)}], s[Max(t)])]
  <2> DEFINE Is(it) == it = [t \in SUBSET DOMAIN s |-> IF t = {} THEN 0 ELSE Collect(d, it[t \ {Max(t)}], s[Max(t)])]
             it0    == CHOOSE it : Is(it)
  <2>1. \E it : Is(it)
    <3>1. PICK it : Takes(it, 0, T, A, n)
      BY <1>2, <1>3, StepsExist
    <3>2. ASSUME NEW t \in SUBSET (1..n), t # {} PROVE it[t] = Collect(d, it[t \ {Max(t)}], s[Max(t)])
      BY <1>2, <3>1, <3>2 DEF Takes
    <3> DEFINE g == [t \in SUBSET (1..n) |-> IF t = {} THEN 0 ELSE Collect(d, it[t \ {Max(t)}], s[Max(t)])]
    <3>3. it = [t \in SUBSET (1..n) |-> it[t]] /\ it[{}] = 0
      BY <3>1 DEF Takes
    <3>4. (\A t \in SUBSET (1..n) : it[t] = g[t]) /\ g = [t \in SUBSET (1..n) |-> g[t]]
      BY <3>2, <3>3
    <3>5. it = g
      <4> HIDE DEF g
      <4> QED BY <3>3, <3>4
    <3>6. DOMAIN s = 1..n
      BY <1>1
    <3> QED BY <3>5, <3>6
  <2>2. CollectedEntry(d) = it0[1..n]
    BY <1>1 DEF CollectedEntry, Collect, FoldLeft, MapThenFoldSet
  <2>3. Is(it0)
    <3> HIDE DEF Is
    <3> QED BY <2>1
  <2> HIDE DEF it0
  <2> QED BY <1>1, <2>2, <2>3
<1>5. c[{}] = 0 /\ \A t \in SUBSET (1..n) : t # {} => c[t] = Collect(d, c[t \ {Max(t)}], s[Max(t)])
  BY <1>1, <1>4
<1>6. \A t \in SUBSET (1..n) : t # {} => Max(t) \in 1..n
  BY LargestOfSome
<1>7. PICK h : Climbs(h, c, 0, T, A, n)
  <2>1. Follows(c, 0, T, A, n)
    BY <1>2, <1>5, <1>6 DEF Follows
  <2> QED BY <1>2, <1>3, <2>1, Upwards
<1>8. ASSUME NEW k \in 0..(n - 1) PROVE h[k + 1] = Collect(d, h[k], s[k + 1])
  <2>1. k + 1 \in 1..n /\ h[k] \in A
    BY <1>7 DEF Climbs
  <2> QED BY <1>2, <1>7, <2>1 DEF Climbs
<1> QED
  BY <1>4, <1>7, <1>8 DEF A, Climbs, CollectedOneByOne

\* It is within half a cent of what is collected for each of the collections, and exact without a fund.
LEMMA EntryNear ==
  ASSUME tie \in {0, 1}, NEW docs, Dossier(docs), NEW i \in DOMAIN docs
  PROVE  LET e == Half(docs) * Len(docs[i].collected)
         IN  CollectedEntry(docs[i]) \in Int /\ 26 * CollectedEntry(docs[i]) - CollectedIn(docs[i], {0}) \in -e..e
<1> DEFINE d == docs[i]
           f == Counting(d, {0})
<1>1. Document(d)
  BY DEF Dossier
<1> PICK n \in Nat : n = Len(d.collected)
  BY <1>1, CollectionsAre
<1>2. /\ DOMAIN d.collected = 1..n /\ CollectedIn(d, {0}) = SumFunctionOnSet(f, 1..n)
      /\ \A k \in 1..n : d.collected[k].amount \in Int
  BY <1>1, CollectionsAre
<1>3. \A k \in 1..n : f[k] \in Figures(docs)
  BY <1>2, ShareIn, FiguresAdd DEF Counting
<1>4. PICK h : CollectedOneByOne(h, d)
  BY <1>1, EntrySums
<1>5. h \in [0..n -> Int] /\ h[0] = 0 /\ h[n] = CollectedEntry(d)
      /\ \A k \in 0..(n - 1) : h[k + 1] = Collect(d, h[k], d.collected[k + 1])
  BY <1>4 DEF CollectedOneByOne
<1>6. PICK b \in {0, 13} : b = Half(docs)
  BY DEF Half
<1> DEFINE N == {k \in 0..n : 26 * h[k] - SumFunctionOnSet(f, 1..k) \in -(b * k)..(b * k)}
<1>7. 0 \in N
  <2>1. 1..0 = {} /\ SumFunctionOnSet(f, {}) = 0
    BY SumEmpty
  <2> QED BY <1>5, <1>6, <2>1
<1>8. ASSUME NEW k \in 0..(n - 1), k \in N PROVE k + 1 \in N
  <2>1. k + 1 \in 1..n /\ h[k] \in Int /\ h[k + 1] = Collect(d, h[k], d.collected[k + 1])
    <3> HIDE DEF d, f
    <3> QED BY <1>5
  <2>2. SumFunctionOnSet(f, 1..(k + 1)) = SumFunctionOnSet(f, 1..k) + f[k + 1] /\ SumFunctionOnSet(f, 1..k) \in Int
    <3>1. \A j \in 1..(k + 1) : f[j] \in Int
      BY <1>3, <2>1, FiguresAdd
    <3> HIDE DEF f
    <3> QED BY <3>1, SumNext
  <2>3. 26 * h[k + 1] - (26 * h[k] + f[k + 1]) \in -b..b /\ h[k + 1] \in Int /\ f[k + 1] \in Int
    <3>1. CASE d.collected[k + 1].year = 0
      <4>1. f[k + 1] = revenueShare(d.collected[k + 1].amount, d) /\ f[k + 1] \in Figures(docs)
        BY <1>2, <1>3, <2>1, <3>1 DEF Counting
      <4>2. h[k] * Parts + f[k + 1] \in Figures(docs) /\ h[k] * Parts = 26 * h[k]
        BY <2>1, <4>1, FiguresAdd DEF Parts
      <4>3. h[k + 1] = Cents(h[k] * Parts + f[k + 1])
        BY <2>1, <3>1, <4>1 DEF Collect
      <4> HIDE DEF f
      <4> QED BY <1>6, <4>1, <4>2, <4>3, CentsNear, FiguresAdd
    <3>2. CASE d.collected[k + 1].year # 0
      <4>1. f[k + 1] = 0 /\ h[k + 1] = h[k]
        BY <1>2, <2>1, <3>2 DEF Counting, Collect
      <4> HIDE DEF f
      <4> QED BY <1>6, <2>1, <4>1
    <3> QED BY <3>1, <3>2
  <2>4. PICK u \in Int, v \in Int, x \in Int, y \in Int :
          u = SumFunctionOnSet(f, 1..k) /\ v = f[k + 1] /\ x = h[k] /\ y = h[k + 1] /\ 26 * y - (26 * x + v) \in -b..b
    BY <2>1, <2>2, <2>3
  <2>5. PICK p \in Int : p = b * k /\ b * (k + 1) = p + b /\ 26 * x - u \in -p..p
    <3>1. b * k \in Int /\ b * (k + 1) = b * k + b
      OBVIOUS
    <3>2. 26 * x - u \in -(b * k)..(b * k)
      BY <1>8, <2>4
    <3> QED BY <3>1, <3>2
  <2>6. 26 * y - (u + v) \in -(p + b)..(p + b)
    <3>1. b \in Int
      OBVIOUS
    <3>2. -b <= 26 * y - (26 * x + v) /\ 26 * y - (26 * x + v) <= b /\ -p <= 26 * x - u /\ 26 * x - u <= p
      BY ONLY <2>4, <2>5, <3>1
    <3> DEFINE e == 26 * y - (26 * x + v)
               g == 26 * x - u
    <3>3. e \in Int /\ g \in Int /\ 26 * y - (u + v) = e + g
      OBVIOUS
    <3>4. -b <= e /\ e <= b /\ -p <= g /\ g <= p
      BY <3>2
    <3> HIDE DEF e, g
    <3>5. -(p + b) <= e + g /\ e + g <= p + b
      BY <3>1, <3>3, <3>4
    <3> QED BY <3>1, <3>3, <3>5
  <2>7. k + 1 \in 0..n /\ 26 * h[k + 1] - SumFunctionOnSet(f, 1..(k + 1)) = 26 * y - (u + v)
    <3>1. SumFunctionOnSet(f, 1..(k + 1)) = u + v /\ h[k + 1] = y
      BY <2>2, <2>4
    <3> QED BY <2>1, <3>1
  <2> QED
    <3> HIDE DEF f
    <3> QED BY <2>5, <2>6, <2>7
<1>9. n \in N
  <2>1. \A k \in 0..n : k \in N
    <3> HIDE DEF N
    <3> QED BY <1>7, <1>8, UpwardsTo
  <2>2. n \in 0..n
    OBVIOUS
  <2> QED BY <2>1, <2>2
<1>10. CollectedEntry(d) \in Int
  BY <1>5
<1> QED
  BY <1>2, <1>5, <1>6, <1>9, <1>10

\* What a document asks for is a figure.
LEMMA IssuedIs ==
  ASSUME NEW docs, Dossier(docs), NEW i \in DOMAIN docs
  PROVE  IssuedRevenue(docs[i]) \in Figures(docs)
<1> DEFINE d == docs[i]
<1>1. d.total * d.rate \in Int
  BY DEF Dossier, Document
<1>2. revenueShare(d.total * d.rate, d) \in Figures(docs)
  BY <1>1, ShareIn
<1>3. PICK x \in Int : x = revenueShare(d.total * d.rate, d)
  BY <1>2, FiguresAdd
<1>4. 0 - x \in Figures(docs)
  BY <1>2, <1>3, FiguresAdd
<1>5. IssuedRevenue(d) \in {1 * x, (-1) * x}
  BY <1>3 DEF IssuedRevenue
<1>6. 1 * x = x /\ (-1) * x = 0 - x
  OBVIOUS
<1> QED
  BY <1>2, <1>3, <1>4, <1>5, <1>6

\* The lists of a guide, document by document: what is still to be collected of those of the year, and the entries of the others.
Listed(docs, I, C, M, E) ==
  /\ I = [i \in DOMAIN docs |-> IssuedRevenue(docs[i])] /\ C = [i \in DOMAIN docs |-> CollectedIn(docs[i], {0})]
  /\ M = [i \in DOMAIN docs |-> Cents(IssuedRevenue(docs[i]) - CollectedIn(docs[i], {0}))]
  /\ E = [i \in DOMAIN docs |-> CollectedEntry(docs[i])]

\* The sums of a guide.
LEMMA GuideIs ==
  ASSUME tie \in {0, 1}, NEW docs, Dossier(docs), NEW I, NEW C, NEW M, NEW E, Listed(docs, I, C, M, E)
  PROVE  LET g == guide(docs) IN
         /\ g.issuedInYear = Cents(SumFunctionOnSet(I, OfYear(docs))) /\ g.collectedInYear = Cents(SumFunctionOnSet(C, DOMAIN docs))
         /\ SumFunction(g.notCollectedInYear) = SumFunctionOnSet(M, OfYear(docs))
         /\ SumFunction(g.collectedFromOtherYears) = SumFunctionOnSet(E, Others(docs))
         /\ \A i \in DOMAIN docs : M[i] \in Int
<1> DEFINE O == OfYear(docs)
           T == Others(docs)
           N == {j \in O : Cents(IssuedRevenue(docs[j]) - CollectedIn(docs[j], {0})) # 0}
           I0 == [i \in O |-> IssuedRevenue(docs[i])]
           M0 == [i \in N |-> Cents(IssuedRevenue(docs[i]) - CollectedIn(docs[i], {0}))]
           E0 == [i \in T |-> CollectedEntry(docs[i])]
<1>1. IsFiniteSet(DOMAIN docs) /\ O \subseteq DOMAIN docs /\ T \subseteq DOMAIN docs /\ IsFiniteSet(O) /\ IsFiniteSet(T)
  <2>1. O \subseteq DOMAIN docs /\ T \subseteq DOMAIN docs
    BY DEF OfYear, Others
  <2> QED BY <2>1, FS_Subset DEF Dossier
<1>2. /\ guide(docs).issuedInYear = Cents(SumFunctionOnSet(I0, O))
      /\ guide(docs).collectedInYear = Cents(SumFunctionOnSet(C, DOMAIN docs))
      /\ SumFunction(guide(docs).notCollectedInYear) = SumFunctionOnSet(M0, N)
      /\ SumFunction(guide(docs).collectedFromOtherYears) = SumFunctionOnSet(E0, T)
  BY DEF guide, collectedRevenue, SumFunction, Listed
<1>3. \A i \in DOMAIN docs : M[i] \in Int
  <2> SUFFICES ASSUME NEW i \in DOMAIN docs PROVE M[i] \in Int
    OBVIOUS
  <2>1. IssuedRevenue(docs[i]) \in Figures(docs) /\ CollectedIn(docs[i], {0}) \in Figures(docs)
    BY IssuedIs, CollectedIs
  <2> QED BY <2>1, FiguresAdd, CentsNear DEF Listed
<1>4. SumFunctionOnSet(I0, O) = SumFunctionOnSet(I, O)
  <2>1. \A i \in O : I0[i] = I[i]
    BY <1>1 DEF Listed
  <2> HIDE DEF I0, O
  <2> QED BY <1>1, <2>1, SumSame
<1>5. SumFunctionOnSet(E0, T) = SumFunctionOnSet(E, T)
  <2>1. \A i \in T : E0[i] = E[i]
    BY <1>1 DEF Listed
  <2> HIDE DEF E0, T
  <2> QED BY <1>1, <2>1, SumSame
<1>6. SumFunctionOnSet(M, O) = SumFunctionOnSet(M0, N)
  <2>1. N \subseteq O /\ (\A i \in N : M[i] = M0[i]) /\ \A i \in O \ N : M[i] = 0
    BY <1>1 DEF Listed
  <2>2. \A i \in N : M0[i] \in Int
    BY <1>1, <1>3, <2>1
  <2> HIDE DEF M0, N, O
  <2> QED BY <1>1, <2>1, <2>2, SumPart
<1> QED
  BY <1>2, <1>3, <1>4, <1>5, <1>6

\* What of the collections of the year is of its documents and of those of other years.
LEMMA CollectionsSplit ==
  ASSUME NEW docs, Dossier(docs), NEW C, C = [i \in DOMAIN docs |-> CollectedIn(docs[i], {0})],
         \A i \in DOMAIN docs : docs[i].year = 0 /\ CollectedIn(docs[i], {0}) # 0 => isIssued(docs[i])
  PROVE  SumFunctionOnSet(C, DOMAIN docs) = SumFunctionOnSet(C, OfYear(docs)) + SumFunctionOnSet(C, Others(docs))
<1> DEFINE O == OfYear(docs)
           T == Others(docs)
<1>1. O \cup T \subseteq DOMAIN docs /\ O \cap T = {} /\ IsFiniteSet(DOMAIN docs) /\ IsFiniteSet(O) /\ IsFiniteSet(T)
  <2>1. O \subseteq DOMAIN docs /\ T \subseteq DOMAIN docs /\ O \cap T = {}
    BY DEF OfYear, Others
  <2> QED BY <2>1, FS_Subset DEF Dossier
<1>2. \A i \in DOMAIN docs : C[i] \in Int
  BY CollectedIs, FiguresAdd
<1>3. ASSUME NEW i \in DOMAIN docs \ (O \cup T) PROVE C[i] = 0
  <2>1. CASE docs[i].year = 0
    BY <1>3, <2>1 DEF OfYear
  <2>2. CASE docs[i].year # 0
    <3>1. \A k \in DOMAIN docs[i].collected : docs[i].collected[k].year \notin {0}
      BY <1>3, <2>2 DEF Others
    <3> QED BY <3>1, CollectedIs
  <2> QED BY <2>1, <2>2
<1> HIDE DEF O, T
<1>4. SumFunctionOnSet(C, DOMAIN docs) = SumFunctionOnSet(C, O \cup T)
  <2>1. \A i \in O \cup T : C[i] = C[i] /\ C[i] \in Int
    BY <1>1, <1>2
  <2> QED BY ONLY <1>1, <1>3, <2>1, SumPart
<1>5. SumFunctionOnSet(C, O \cup T) = SumFunctionOnSet(C, O) + SumFunctionOnSet(C, T)
  <2>1. \A i \in O \cup T : C[i] \in Int
    BY <1>1, <1>2
  <2> QED BY ONLY <1>1, <2>1, SumUnion
<1> QED
  BY <1>4, <1>5 DEF O, T

\* The lists of the guide explain the difference between the revenue by issue date and the collected one, for any documents.
THEOREM GuideExplains ==
  ASSUME tie \in {0, 1}, NEW docs, Dossier(docs)
  PROVE  Explained(docs, guide(docs))
<1> DEFINE O == OfYear(docs)
           T == Others(docs)
<1>1. O \subseteq DOMAIN docs /\ T \subseteq DOMAIN docs /\ IsFiniteSet(O) /\ IsFiniteSet(T) /\ IsFiniteSet(DOMAIN docs)
  <2>1. O \subseteq DOMAIN docs /\ T \subseteq DOMAIN docs
    BY DEF OfYear, Others
  <2> QED BY <2>1, FS_Subset DEF Dossier
<1>2. PICK I, C, M, E : Listed(docs, I, C, M, E)
  BY DEF Listed
<1>3. PICK h \in {0, 13} : h = Half(docs) /\ (h = 13 <=> HasFund(docs))
  BY DEF Half
<1> DEFINE L  == [i \in T |-> Len(docs[i].collected)]
           J  == [i \in DOMAIN docs |-> I[i] - C[i]]
           M6 == [i \in DOMAIN docs |-> M[i] * 26]
           E6 == [i \in DOMAIN docs |-> E[i] * 26]
           H  == [i \in DOMAIN docs |-> h]
           LH == [i \in T |-> Len(docs[i].collected) * h]
           SI == SumFunctionOnSet(I, O)
           CO == SumFunctionOnSet(C, O)
           CT == SumFunctionOnSet(C, T)
           CD == SumFunctionOnSet(C, DOMAIN docs)
           SM == SumFunctionOnSet(M, O)
           SE == SumFunctionOnSet(E, T)
           SL == SumFunctionOnSet(L, T)
           SH == SumFunctionOnSet(H, O)
           n  == Cardinality(O)
<1>4. \A i \in DOMAIN docs : I[i] \in Figures(docs) /\ C[i] \in Figures(docs) /\ I[i] \in Int /\ C[i] \in Int
  BY <1>2, IssuedIs, CollectedIs, FiguresAdd DEF Listed
<1>5. \A i \in DOMAIN docs : M[i] \in Int /\ M6[i] - J[i] \in -h..h
  <2> SUFFICES ASSUME NEW i \in DOMAIN docs PROVE M[i] \in Int /\ M6[i] - J[i] \in -h..h
    OBVIOUS
  <2>1. PICK x \in Figures(docs) : x = I[i] - C[i] /\ x \in Int
    BY <1>4, FiguresAdd
  <2>2. M[i] = Cents(x) /\ J[i] = x /\ M6[i] = M[i] * 26
    BY <1>2, <2>1 DEF Listed
  <2>3. Cents(x) \in Int /\ 26 * Cents(x) - x \in -h..h
    BY <1>3, <2>1, CentsNear
  <2> HIDE DEF J, M6
  <2> QED BY <2>1, <2>2, <2>3
<1>6. \A i \in T : /\ E[i] \in Int /\ L[i] \in Nat /\ LH[i] = L[i] * h /\ E6[i] - C[i] \in -LH[i]..LH[i] /\ LH[i] \in Nat
  <2> SUFFICES ASSUME NEW i \in T PROVE E[i] \in Int /\ L[i] \in Nat /\ LH[i] = L[i] * h /\ E6[i] - C[i] \in -LH[i]..LH[i] /\ LH[i] \in Nat
    OBVIOUS
  <2>1. Len(docs[i].collected) \in Nat
    BY <1>1, CollectionsAre DEF Dossier
  <2>2. PICK l \in Nat : l = Len(docs[i].collected)
    BY <2>1
  <2>3. L[i] = l /\ LH[i] = l * h /\ E6[i] = E[i] * 26 /\ h * l = l * h /\ l * h \in Nat
    BY <1>1, <2>2
  <2>4. CollectedEntry(docs[i]) \in Int /\ 26 * CollectedEntry(docs[i]) - CollectedIn(docs[i], {0}) \in -(h * l)..(h * l)
    BY <1>1, <1>3, <2>2, EntryNear
  <2>5. E[i] = CollectedEntry(docs[i]) /\ C[i] = CollectedIn(docs[i], {0})
    BY <1>1, <1>2 DEF Listed
  <2> HIDE DEF L, LH, E6
  <2> QED BY <2>2, <2>3, <2>4, <2>5
<1>7. SI \in Figures(docs) /\ CD \in Figures(docs) /\ CO \in Int /\ CT \in Int /\ SM \in Int /\ SE \in Int /\ SL \in Nat /\ n \in Nat
  <2>1. SI \in Figures(docs) /\ CD \in Figures(docs)
    BY <1>1, <1>4, FiguresAdd, SumWithin
  <2>2. CO \in Int /\ CT \in Int /\ SM \in Int
    BY <1>1, <1>4, <1>5, SumIn
  <2>3. (\A i \in T : E[i] \in Int) /\ \A i \in T : L[i] \in Nat
    BY <1>6
  <2> HIDE DEF L
  <2> QED BY <1>1, <2>1, <2>2, <2>3, SumIn, FS_CardinalityType
<1>8. 26 * SM - (SI - CO) \in -(h * n)..(h * n)
  <2>1. SumFunctionOnSet(M6, O) = SM * 26
    <3>1. \A i \in O : M[i] \in Int /\ M6[i] = M[i] * 26
      BY <1>1, <1>5
    <3> HIDE DEF M6, O
    <3> QED BY <1>1, <3>1, SumTimes
  <2>2. SumFunctionOnSet(J, O) = SI - CO
    <3>1. \A i \in O : I[i] \in Int /\ C[i] \in Int /\ J[i] = I[i] - C[i]
      BY <1>1, <1>4
    <3> HIDE DEF J, O
    <3> QED BY <1>1, <3>1, SumMinus
  <2>3. SumFunctionOnSet(H, O) = h * n
    <3>1. \A i \in O : H[i] = h
      BY <1>1
    <3> HIDE DEF H, O
    <3> QED BY <1>1, <3>1, SumEqual
  <2>4. SumFunctionOnSet(M6, O) - SumFunctionOnSet(J, O) \in -SumFunctionOnSet(H, O)..SumFunctionOnSet(H, O)
    <3>1. \A i \in O : M6[i] \in Int /\ J[i] \in Int /\ H[i] \in Nat /\ M6[i] - J[i] \in -H[i]..H[i]
      BY <1>1, <1>4, <1>5
    <3> HIDE DEF M6, J, H, O
    <3> QED BY <1>1, <3>1, SumNear
  <2> HIDE DEF M6, J, H, SM, SI, CO, n
  <2> QED BY <1>7, <2>1, <2>2, <2>3, <2>4
<1>9. 26 * SE - CT \in -(SL * h)..(SL * h)
  <2>1. SumFunctionOnSet(E6, T) = SE * 26
    <3>1. \A i \in T : E[i] \in Int /\ E6[i] = E[i] * 26
      BY <1>1, <1>6
    <3> HIDE DEF E6, T
    <3> QED BY <1>1, <3>1, SumTimes
  <2>2. SumFunctionOnSet(LH, T) = SL * h
    <3>1. \A i \in T : L[i] \in Int /\ LH[i] = L[i] * h
      BY <1>6
    <3> HIDE DEF L, LH, T
    <3> QED BY <1>1, <3>1, SumTimes
  <2>3. SumFunctionOnSet(E6, T) - CT \in -SumFunctionOnSet(LH, T)..SumFunctionOnSet(LH, T)
    <3>1. \A i \in T : E6[i] \in Int /\ C[i] \in Int /\ LH[i] \in Nat /\ E6[i] - C[i] \in -LH[i]..LH[i]
      <4>1. \A i \in T : E[i] \in Int /\ E6[i] = E[i] * 26 /\ C[i] \in Int
        BY <1>1, <1>4, <1>6
      <4> HIDE DEF E6, LH, L, T
      <4>2. \A i \in T : E6[i] \in Int
        BY ONLY <4>1
      <4> QED BY ONLY <1>6, <4>1, <4>2
    <3> HIDE DEF E6, LH, T
    <3> QED BY <1>1, <3>1, SumNear
  <2> HIDE DEF E6, LH, SE, CT, SL
  <2> QED BY <1>7, <2>1, <2>2, <2>3
<1>10. Cents(SI) \in Int /\ 26 * Cents(SI) - SI \in -h..h /\ Cents(CD) \in Int /\ 26 * Cents(CD) - CD \in -h..h /\ SI \in Int /\ CD \in Int
  BY <1>3, <1>7, CentsNear, FiguresAdd
<1> DEFINE g == guide(docs)
           difference == g.issuedInYear - SumFunction(g.notCollectedInYear) + SumFunction(g.collectedFromOtherYears) - g.collectedInYear
<1>11. difference = Cents(SI) - SM + SE - Cents(CD)
  BY <1>2, GuideIs
<1>12. Explained(docs, g) <=>
         ((\A i \in DOMAIN docs : docs[i].year = 0 /\ CollectedIn(docs[i], {0}) # 0 => isIssued(docs[i]))
          => 2 * difference \in (IF HasFund(docs) THEN -(2 + n + SL)..(2 + n + SL) ELSE {0}))
  BY DEF Explained, SumFunction
<1>13. ASSUME \A i \in DOMAIN docs : docs[i].year = 0 /\ CollectedIn(docs[i], {0}) # 0 => isIssued(docs[i])
       PROVE  2 * difference \in (IF HasFund(docs) THEN -(2 + n + SL)..(2 + n + SL) ELSE {0})
  <2>1. CD = CO + CT
    BY <1>2, <1>13, CollectionsSplit DEF Listed
  <2>2. PICK a \in Int, b \in Int, l \in Nat, m \in Nat : a = Cents(SI) /\ b = Cents(CD) /\ l = SL /\ m = n
    BY <1>7, <1>10
  <2> HIDE DEF SI, CD, CO, CT, SM, SE, SL, n, difference, g
  <2>3. CASE h = 0
    <3>1. 26 * SM = SI - CO /\ 26 * SE = CT /\ 26 * a = SI /\ 26 * b = CD
      BY <1>7, <1>8, <1>9, <1>10, <2>2, <2>3
    <3>2. a - SM + SE - b = 0
      BY <1>7, <1>10, <2>1, <2>2, <3>1
    <3> QED BY <1>3, <1>11, <2>2, <2>3, <3>2
  <2>4. CASE h = 13
    <3>1. 26 * SM - (SI - CO) \in -(13 * m)..(13 * m) /\ 26 * SE - CT \in -(13 * l)..(13 * l) /\ 26 * a - SI \in -13..13 /\ 26 * b - CD \in -13..13
      BY <1>7, <1>8, <1>9, <1>10, <2>2, <2>4
    <3>2. 2 * (a - SM + SE - b) \in -(2 + m + l)..(2 + m + l)
      BY <1>7, <1>10, <2>1, <3>1
    <3> QED BY <1>3, <1>11, <2>2, <2>4, <3>2
  <2> QED BY <2>3, <2>4
<1> QED
  BY <1>12, <1>13

-----------------------------------------------------------------------------
(* What is left of a document *)

SignOf(d)     == IF d.type = "TD04" THEN -1 ELSE 1
Received(d) == SumFunctionOnSet([k \in DOMAIN d.collected |-> d.collected[k].amount], DOMAIN d.collected)
Left(d)     == d.total * d.rate - SignOf(d) * Received(d)
Remains(d)  == SignOf(d) * AtLeast(0, Left(d))
Open(d)     == AtLeast(0, revenueShare(d.total * d.rate, d) - CollectedIn(d, {-1, 0, 1}))

\* What is received, and the revenue it is.
LEMMA ReceivedIs ==
  ASSUME NEW d, Document(d)
  PROVE  /\ Received(d) \in Int /\ Left(d) \in Int /\ Remains(d) \in Int /\ d.total * d.rate \in Nat
         /\ CollectedIn(d, {-1, 0, 1}) = Received(d) * Weight(d)
<1> DEFINE f == [k \in DOMAIN d.collected |-> d.collected[k].amount]
           g == Counting(d, {-1, 0, 1})
           D == DOMAIN d.collected
<1>1. /\ IsFiniteSet(D) /\ CollectedIn(d, {-1, 0, 1}) = SumFunctionOnSet(g, D)
      /\ \A k \in D : d.collected[k].year \in {-1, 0, 1} /\ d.collected[k].amount \in Int
  BY CollectionsAre
<1>2. PICK w \in Int : w = Weight(d) /\ \A a \in Int : revenueShare(a, d) = a * w
  <2>1. Weight(d) \in 0..26 /\ \A a \in Int : revenueShare(a, d) = a * Weight(d)
    BY ShareIs
  <2> QED BY <2>1
<1>3. \A k \in D : f[k] \in Int /\ g[k] = f[k] * w
  BY <1>1, <1>2 DEF Counting
<1>4. SumFunctionOnSet(g, D) = SumFunctionOnSet(f, D) * w /\ SumFunctionOnSet(f, D) \in Int
  <2> HIDE DEF f, g, D
  <2> QED BY <1>1, <1>3, SumTimes, SumIn
<1>5. PICK r \in Int : r = Received(d)
  BY <1>4 DEF Received
<1>6. d.total * d.rate \in Nat
  <2>1. PICK t \in Nat, e \in Nat : t = d.total /\ e = d.rate
    BY DEF Document
  <2> QED BY <2>1
<1>7. Left(d) \in Int
  <2>1. (-1) * r \in Int /\ 1 * r \in Int
    OBVIOUS
  <2> QED BY <1>5, <1>6, <2>1 DEF Left, SignOf
<1>8. Remains(d) \in Int
  BY <1>7 DEF Remains, SignOf, AtLeast
<1> QED
  BY <1>1, <1>2, <1>4, <1>5, <1>6, <1>7, <1>8 DEF Received

\* A settled document has one more collection, of the year.
LEMMA SettledIs ==
  ASSUME NEW d, Document(d)
  PROVE  CollectedIn(Settled(d), {0}) = CollectedIn(d, {0}) + revenueShare(Remains(d), d)
<1> DEFINE e == [year |-> 0, amount |-> Remains(d)]
           s == [d EXCEPT !.collected = Append(@, e)]
           f == Counting(d, {0})
           g == Counting(s, {0})
<1> PICK n \in Nat : n = Len(d.collected)
  BY CollectionsAre
<1>1. /\ DOMAIN d.collected = 1..n /\ CollectedIn(d, {0}) = SumFunctionOnSet(f, 1..n)
      /\ \A k \in 1..n : d.collected[k].amount \in Int
  BY CollectionsAre
<1>2. Settled(d) = s
  BY DEF Settled, Remains, Left, SignOf, Received, SumFunction
<1>3. s.collected = Append(d.collected, e) /\ s.total = d.total /\ s.fund = d.fund
  BY DEF Document
<1>4. DOMAIN s.collected = 1..(n + 1) /\ s.collected[n + 1] = e /\ \A k \in 1..n : s.collected[k] = d.collected[k]
  <2>1. d.collected \in Seq(Collection) /\ e \in [year : {-1, 0, 1}, amount : Int]
    BY ReceivedIs DEF Document
  <2> HIDE DEF e, s
  <2> QED BY <1>1, <1>3, <2>1, AppendProperties, LenProperties DEF Collection
<1>5. \A a : revenueShare(a, s) = revenueShare(a, d)
  BY <1>3 DEF revenueShare
<1>6. /\ \A k \in 1..n : g[k] = f[k] /\ f[k] \in Int
      /\ g[n + 1] = revenueShare(Remains(d), d) /\ g[n + 1] \in Int
  <2>1. \A a \in Int : revenueShare(a, d) \in Int
    <3>1. PICK w \in 0..26 : \A a \in Int : revenueShare(a, d) = a * w
      BY ShareIs
    <3> QED BY <3>1
  <2>2. \A k \in 1..n : g[k] = f[k] /\ f[k] \in Int
    <3> HIDE DEF s
    <3> SUFFICES ASSUME NEW k \in 1..n PROVE g[k] = f[k] /\ f[k] \in Int
      OBVIOUS
    <3>1. PICK a \in Int : a = d.collected[k].amount
      BY <1>1
    <3>2. revenueShare(a, s) = revenueShare(a, d) /\ revenueShare(a, d) \in Int
      BY <1>5, <2>1, <3>1
    <3>3. k \in DOMAIN s.collected /\ s.collected[k] = d.collected[k] /\ k \in DOMAIN d.collected
      BY <1>1, <1>4
    <3> QED BY <3>1, <3>2, <3>3 DEF Counting
  <2>3. g[n + 1] = revenueShare(Remains(d), d)
    <3>1. n + 1 \in DOMAIN s.collected /\ s.collected[n + 1].year = 0 /\ s.collected[n + 1].amount = Remains(d)
      BY <1>4
    <3> HIDE DEF s
    <3> QED BY <1>5, <3>1 DEF Counting
  <2> QED BY <2>1, <2>2, <2>3, ReceivedIs
<1> HIDE DEF s, e, f, g
<1>7. CollectedIn(s, {0}) = SumFunctionOnSet(g, 1..(n + 1))
  BY <1>4 DEF CollectedIn, Counting, SumFunction, g
<1>8. SumFunctionOnSet(g, 1..(n + 1)) = SumFunctionOnSet(g, 1..n) + g[n + 1]
  <2>1. \A k \in 1..(n + 1) : g[k] \in Int
    BY <1>6
  <2> QED BY <2>1, SumNext
<1>9. SumFunctionOnSet(g, 1..n) = SumFunctionOnSet(f, 1..n)
  <2>1. IsFiniteSet(1..n)
    BY FS_Interval
  <2> QED BY <1>6, <2>1, SumSame
<1> QED
  BY <1>1, <1>2, <1>6, <1>7, <1>8, <1>9

\* What it brings is what was open, or is given back.
LEMMA RemainsIs ==
  ASSUME NEW d, Document(d)
  PROVE  /\ Open(d) \in Nat /\ revenueShare(Remains(d), d) \in Int /\ revenueShare(d.total * d.rate, d) \in Nat
         /\ d.type = "TD04" => revenueShare(Remains(d), d) <= 0
         /\ d.type # "TD04" => revenueShare(Remains(d), d) = Open(d)
         /\ d.type # "TD04" /\ d.collected = <<>> => revenueShare(Remains(d), d) = revenueShare(d.total * d.rate, d)
<1>1. PICK w \in Nat : w = Weight(d) /\ \A a \in Int : revenueShare(a, d) = a * w
  <2>1. Weight(d) \in 0..26 /\ \A a \in Int : revenueShare(a, d) = a * Weight(d)
    BY ShareIs
  <2> QED BY <2>1
<1>2. PICK r \in Int, m \in Nat : r = Received(d) /\ m = d.total * d.rate /\ CollectedIn(d, {-1, 0, 1}) = r * w
  BY <1>1, ReceivedIs
<1>3. revenueShare(m, d) = m * w /\ m * w \in Nat
  BY <1>1
<1>4. Open(d) = AtLeast(0, m * w - r * w) /\ m * w - r * w = (m - r) * w /\ (m - r) * w \in Int
  BY <1>2, <1>3 DEF Open
<1>5. PICK l \in Int : l = Left(d)
  BY ReceivedIs
<1>6. PICK p \in Nat : p = AtLeast(0, l) /\ (l >= 0 => p = l) /\ (l < 0 => p = 0)
  BY DEF AtLeast
<1>7. p * w \in Nat /\ (-1) * p \in Int /\ ((-1) * p) * w = -(p * w) /\ 1 * p = p
  OBVIOUS
<1>8. CASE d.type = "TD04"
  <2>1. Remains(d) = (-1) * p
    BY <1>5, <1>6, <1>8 DEF Remains, SignOf
  <2>2. revenueShare(Remains(d), d) = -(p * w)
    BY <1>1, <1>7, <2>1
  <2>3. Open(d) \in Nat
    BY <1>4 DEF AtLeast
  <2> QED BY <1>2, <1>3, <1>7, <1>8, <2>2, <2>3
<1>9. CASE d.type # "TD04"
  <2>1. Remains(d) = p /\ l = m - r
    <3>1. 1 * r = r
      OBVIOUS
    <3>2. SignOf(d) = 1
      BY <1>9 DEF SignOf
    <3> QED BY <1>2, <1>5, <1>6, <1>7, <3>1, <3>2 DEF Remains, Left
  <2>2. revenueShare(Remains(d), d) = p * w
    BY <1>1, <2>1
  <2>3. Open(d) = p * w
    <3>1. CASE l >= 0
      BY <1>4, <1>6, <1>7, <2>1, <3>1 DEF AtLeast
    <3>2. CASE l < 0
      <4>1. l * w <= 0 /\ l * w \in Int /\ p * w = 0
        BY <1>6, <3>2
      <4> QED BY <1>4, <2>1, <4>1 DEF AtLeast
    <3> QED BY <3>1, <3>2
  <2>4. ASSUME d.collected = <<>> PROVE p = m
    <3>1. Received(d) = 0
      <4>1. DOMAIN d.collected = {}
        BY <2>4
      <4> QED BY <4>1, SumEmpty DEF Received
    <3> QED BY <1>2, <1>6, <2>1, <3>1
  <2> QED BY <1>2, <1>3, <1>7, <1>9, <2>2, <2>3, <2>4
<1> QED
  BY <1>8, <1>9

\* The projection of a warning, from what is collected, open and asked for (thresholds, thresholdOutlook).
Waiting(docs)      == {i \in DOMAIN docs : docs[i].status \notin NEVER_ISSUED /\ docs[i].type # "TD04"}
OpenSum(docs)      == SumFunctionOnSet([i \in Waiting(docs) |-> Open(docs[i])], Waiting(docs))
AskedFor(d)        == IF d.type = "TD04" THEN 0 ELSE revenueShare(d.total * d.rate, d)
CollectedNow(docs) == SumFunctionOnSet([i \in DOMAIN docs |-> CollectedIn(docs[i], {0})], DOMAIN docs)

LEMMA ProjectionIs ==
  ASSUME NEW docs, NEW k
  PROVE  /\ thresholds(docs, k).projected = Cents(CollectedNow(docs)) + Cents(OpenSum(docs)) + Cents(AskedFor(docs[k]))
         /\ thresholds(docs, k).projectedOverExit <=> thresholds(docs, k).projected > immediateExitThreshold
         /\ collectedRevenue(docs) = Cents(CollectedNow(docs))
BY DEF thresholds, thresholdOutlook, collectedRevenue, CollectedNow, OpenSum, AskedFor, Waiting, Open, SumFunction

\* The documents once some of them are settled.
After(docs, S) == [i \in DOMAIN docs |-> IF i \in S THEN Settled(docs[i]) ELSE docs[i]]

\* What is then collected is no more than what was collected, open and asked for.
LEMMA SettledWithin ==
  ASSUME NEW docs, Dossier(docs), NEW k \in DOMAIN docs, docs[k].status \in NEVER_ISSUED, docs[k].collected = <<>>,
         NEW S \in SUBSET ({k} \cup {i \in DOMAIN docs : docs[i].status \notin NEVER_ISSUED})
  PROVE  /\ CollectedNow(After(docs, S)) \in Figures(docs) /\ CollectedNow(docs) \in Figures(docs)
         /\ OpenSum(docs) \in Figures(docs) /\ AskedFor(docs[k]) \in Figures(docs)
         /\ CollectedNow(After(docs, S)) <= CollectedNow(docs) + OpenSum(docs) + AskedFor(docs[k])
<1> DEFINE D == DOMAIN docs
           W == Waiting(docs)
           a == AskedFor(docs[k])
           C == [i \in D |-> CollectedIn(docs[i], {0})]
           A == [i \in D |-> CollectedIn(After(docs, S)[i], {0})]
           O == [i \in W |-> Open(docs[i])]
           X == [i \in D |-> IF i \in W THEN Open(docs[i]) ELSE 0]
           Y == [i \in D |-> IF i = k THEN a ELSE 0]
           Z == [i \in D |-> X[i] + Y[i]]
           B == [i \in D |-> C[i] + Z[i]]
<1>1. IsFiniteSet(D) /\ W \subseteq D /\ IsFiniteSet(W) /\ \A i \in D : Document(docs[i])
  <2>1. W \subseteq D
    BY DEF Waiting
  <2> QED BY <2>1, FS_Subset DEF Dossier
<1>2. \A i \in D : Open(docs[i]) \in Nat /\ Open(docs[i]) \in Figures(docs)
  <2> SUFFICES ASSUME NEW i \in D PROVE Open(docs[i]) \in Nat /\ Open(docs[i]) \in Figures(docs)
    OBVIOUS
  <2> DEFINE x == revenueShare(docs[i].total * docs[i].rate, docs[i])
             y == CollectedIn(docs[i], {-1, 0, 1})
  <2>1. docs[i].total * docs[i].rate \in Int /\ Open(docs[i]) \in Nat
    BY <1>1, ReceivedIs, RemainsIs
  <2>2. x \in Figures(docs) /\ y \in Figures(docs)
    BY <2>1, ShareIn, CollectedIs
  <2>3. x - y \in Figures(docs) /\ 0 \in Figures(docs)
    BY <2>2, FiguresAdd
  <2>4. Open(docs[i]) \in {0, x - y}
    BY DEF Open, AtLeast
  <2> QED BY <2>1, <2>3, <2>4
<1>3. a \in Nat /\ a \in Figures(docs)
  <2>1. docs[k].total * docs[k].rate \in Int /\ revenueShare(docs[k].total * docs[k].rate, docs[k]) \in Nat
    BY <1>1, ReceivedIs, RemainsIs
  <2>2. revenueShare(docs[k].total * docs[k].rate, docs[k]) \in Figures(docs)
    BY <2>1, ShareIn
  <2> QED BY <2>1, <2>2, FiguresAdd DEF AskedFor
<1>4. \A i \in D : C[i] \in Figures(docs) /\ C[i] \in Int
  BY CollectedIs, FiguresAdd
<1>5. \A i \in D : A[i] \in Figures(docs) /\ A[i] \in Int /\ A[i] <= B[i] /\ B[i] \in Int /\ Z[i] \in Int /\ X[i] \in Int /\ Y[i] \in Int
  <2> SUFFICES ASSUME NEW i \in D
               PROVE  A[i] \in Figures(docs) /\ A[i] \in Int /\ A[i] <= B[i] /\ B[i] \in Int /\ Z[i] \in Int /\ X[i] \in Int /\ Y[i] \in Int
    OBVIOUS
  <2>1. PICK c \in Int, x \in Nat, y \in Nat : c = C[i] /\ x = X[i] /\ y = Y[i]
    <3>1. X[i] \in Nat /\ Y[i] \in Nat
      BY <1>2, <1>3
    <3> HIDE DEF X, Y, C
    <3> QED BY <1>4, <3>1
  <2>2. B[i] = c + (x + y) /\ Z[i] = x + y
    BY <2>1
  <2>3. CASE i \notin S
    <3>1. A[i] = C[i]
      BY <2>3 DEF After
    <3> HIDE DEF A, B, C, X, Y, Z
    <3> QED BY <1>4, <2>1, <2>2, <3>1
  <2>4. CASE i \in S
    <3> DEFINE r == revenueShare(Remains(docs[i]), docs[i])
    <3>1. A[i] = C[i] + r
      BY <1>1, <2>4, SettledIs DEF After
    <3>2. r \in Figures(docs) /\ r \in Int
      BY <1>1, ReceivedIs, ShareIn, FiguresAdd
    <3>3. r <= x + y
      <4>1. CASE docs[i].type = "TD04"
        <5>1. r <= 0
          BY <1>1, <4>1, RemainsIs
        <5> HIDE DEF r
        <5> QED BY <2>1, <3>2, <5>1
      <4>2. CASE docs[i].type # "TD04" /\ i = k
        <5>1. r = a /\ Y[i] = a
          BY <1>1, <4>2, RemainsIs DEF AskedFor
        <5> HIDE DEF r, X, Y
        <5> QED BY <2>1, <5>1
      <4>3. CASE docs[i].type # "TD04" /\ i # k
        <5>1. i \in W
          BY <2>4, <4>3 DEF Waiting
        <5>2. r = Open(docs[i]) /\ X[i] = Open(docs[i])
          BY <1>1, <4>3, <5>1, RemainsIs
        <5> HIDE DEF r, X, Y
        <5> QED BY <2>1, <5>2
      <4> QED BY <4>1, <4>2, <4>3
    <3>4. C[i] \in Figures(docs) /\ C[i] = c /\ X[i] = x /\ Y[i] = y
      BY ONLY <1>4, <2>1, i \in D
    <3> HIDE DEF A, B, C, X, Y, Z, r, D
    <3>5. A[i] \in Figures(docs)
      BY ONLY <3>1, <3>2, <3>4, FiguresPlus
    <3>6. PICK z \in Int : z = r /\ z <= x + y
      BY ONLY <3>2, <3>3
    <3>7. A[i] = c + z /\ c + z \in Int /\ c + z <= c + (x + y) /\ c + (x + y) \in Int /\ x + y \in Int
      BY ONLY <3>1, <3>4, <3>6, c \in Int, x \in Nat, y \in Nat
    <3> QED BY ONLY <2>2, <3>4, <3>5, <3>7, x \in Nat, y \in Nat
  <2> QED BY <2>3, <2>4
<1>6. SumFunctionOnSet(A, D) <= SumFunctionOnSet(B, D)
  <2> HIDE DEF A, B, C, X, Y, Z, D
  <2> QED BY <1>1, <1>5, SumAtMost
<1>7. SumFunctionOnSet(B, D) = SumFunctionOnSet(C, D) + (SumFunctionOnSet(X, D) + SumFunctionOnSet(Y, D))
  <2>1. (\A i \in D : B[i] = C[i] + Z[i]) /\ (\A i \in D : Z[i] = X[i] + Y[i])
    OBVIOUS
  <2> HIDE DEF A, B, C, X, Y, Z, D
  <2>2. SumFunctionOnSet(B, D) = SumFunctionOnSet(C, D) + SumFunctionOnSet(Z, D)
    BY <1>1, <1>4, <1>5, <2>1, SumPlus
  <2>3. SumFunctionOnSet(Z, D) = SumFunctionOnSet(X, D) + SumFunctionOnSet(Y, D)
    BY <1>1, <1>5, <2>1, SumPlus
  <2> QED BY <2>2, <2>3
<1>8. SumFunctionOnSet(X, D) = SumFunctionOnSet(O, W)
  <2>1. (\A i \in W : X[i] = O[i] /\ O[i] \in Int) /\ \A i \in D \ W : X[i] = 0
    BY <1>1, <1>2
  <2> HIDE DEF X, O, W, D
  <2> QED BY <1>1, <2>1, SumPart
<1>9. SumFunctionOnSet(Y, D) = a
  <2>1. Y[k] = a /\ k \in D /\ a \in Int /\ \A i \in D \ {k} : Y[i] = 0
    BY <1>3
  <2> HIDE DEF Y, D, a
  <2> QED BY <1>1, <2>1, SumOne
<1>10. SumFunctionOnSet(A, D) \in Figures(docs) /\ SumFunctionOnSet(C, D) \in Figures(docs) /\ SumFunctionOnSet(O, W) \in Figures(docs)
  <2>1. \A i \in W : O[i] \in Figures(docs)
    BY <1>1, <1>2
  <2> HIDE DEF A, C, O, W, D
  <2> QED BY <1>1, <1>4, <1>5, <2>1, FiguresAdd, SumWithin
<1>11. CollectedNow(After(docs, S)) = SumFunctionOnSet(A, D) /\ CollectedNow(docs) = SumFunctionOnSet(C, D) /\ OpenSum(docs) = SumFunctionOnSet(O, W)
  <2>1. DOMAIN After(docs, S) = D
    BY DEF After
  <2> QED BY <2>1 DEF CollectedNow, OpenSum
<1> HIDE DEF A, B, C, O, X, Y, Z, a, D, W
<1>12. SumFunctionOnSet(A, D) <= SumFunctionOnSet(C, D) + SumFunctionOnSet(O, W) + a
  <2>1. PICK u \in Int, v \in Int, w \in Int, z \in Int :
          u = SumFunctionOnSet(A, D) /\ v = SumFunctionOnSet(C, D) /\ w = SumFunctionOnSet(O, W) /\ z = a
    BY <1>3, <1>10, FiguresAdd
  <2> QED BY <1>6, <1>7, <1>8, <1>9, <2>1
<1> QED
  BY <1>3, <1>10, <1>11, <1>12 DEF a

\* Who issues a draft without being told of the exit threshold does not pass it, whatever is then collected or given back of
\* the documents counted: for any documents, and any draft, of which nothing is collected yet.
THEOREM ProjectionHolds ==
  ASSUME tie \in {0, 1}, NEW docs, Dossier(docs), NEW k \in DOMAIN docs, docs[k].status \in NEVER_ISSUED, docs[k].collected = <<>>
  PROVE  Warned(docs, k, thresholds(docs, k))
<1> DEFINE told    == thresholds(docs, k)
           counted == {k} \cup {i \in DOMAIN docs : docs[i].status \notin NEVER_ISSUED}
<1>1. SUFFICES ASSUME NEW S \in SUBSET counted
               PROVE  /\ collectedRevenue(After(docs, S)) <= told.projected + (IF HasFund(docs) THEN 2 ELSE 0)
                      /\ ~ told.projectedOverExit /\ ~ HasFund(docs) => ~ exceedsExitThreshold(After(docs, S))
  BY DEF Warned, After
<1> DEFINE A == CollectedNow(After(docs, S))
           C == CollectedNow(docs)
           O == OpenSum(docs)
           a == AskedFor(docs[k])
<1>2. A \in Figures(docs) /\ C \in Figures(docs) /\ O \in Figures(docs) /\ a \in Figures(docs) /\ A <= C + O + a
  BY SettledWithin
<1>3. /\ told.projected = Cents(C) + Cents(O) + Cents(a) /\ (told.projectedOverExit <=> told.projected > immediateExitThreshold)
      /\ collectedRevenue(After(docs, S)) = Cents(A)
  BY ProjectionIs
<1>4. PICK h \in {0, 13} : h = Half(docs) /\ (h = 13 <=> HasFund(docs))
  BY DEF Half
<1> HIDE DEF A, C, O, a
<1>5. /\ Cents(A) \in Int /\ 26 * Cents(A) - A \in -h..h /\ Cents(C) \in Int /\ 26 * Cents(C) - C \in -h..h
      /\ Cents(O) \in Int /\ 26 * Cents(O) - O \in -h..h /\ Cents(a) \in Int /\ 26 * Cents(a) - a \in -h..h
  BY <1>2, <1>4, CentsNear
<1>6. A \in Int /\ C \in Int /\ O \in Int /\ a \in Int
  BY <1>2, FiguresAdd
<1>7. Cents(A) <= Cents(C) + Cents(O) + Cents(a) + (IF HasFund(docs) THEN 2 ELSE 0)
  <2>0. PICK p \in Int, q \in Int, r \in Int, t \in Int : p = Cents(A) /\ q = Cents(C) /\ r = Cents(O) /\ t = Cents(a)
    BY <1>5
  <2>1. PICK A0 \in Int, C0 \in Int, O0 \in Int, a0 \in Int : A0 = A /\ C0 = C /\ O0 = O /\ a0 = a /\ A0 <= C0 + O0 + a0
    BY <1>2, <1>6
  <2>2. 26 * p - A0 \in -h..h /\ 26 * q - C0 \in -h..h /\ 26 * r - O0 \in -h..h /\ 26 * t - a0 \in -h..h
    BY <1>5, <2>0, <2>1
  <2>3. CASE h = 0
    <3>1. p <= q + r + t
      BY <2>1, <2>2, <2>3
    <3> QED BY <1>4, <2>0, <2>3, <3>1
  <2>4. CASE h = 13
    <3>1. 26 * p <= A0 + 13 /\ C0 <= 26 * q + 13 /\ O0 <= 26 * r + 13 /\ a0 <= 26 * t + 13
      BY <2>2, <2>4
    <3>2. p <= q + r + t + 2
      BY <2>1, <3>1
    <3> QED BY <1>4, <2>0, <2>4, <3>2
  <2> QED BY <2>3, <2>4
<1> HIDE DEF told
<1>8. told.projected \in Int /\ Cents(A) <= told.projected + (IF HasFund(docs) THEN 2 ELSE 0)
  <2>1. PICK p \in Int, q \in Int, r \in Int, t \in Int : p = Cents(A) /\ q = Cents(C) /\ r = Cents(O) /\ t = Cents(a)
    BY ONLY <1>5
  <2>2. told.projected = q + r + t /\ p <= q + r + t + (IF HasFund(docs) THEN 2 ELSE 0)
    BY ONLY <1>3, <1>7, <2>1
  <2>3. q + r + t \in Int
    BY ONLY q \in Int, r \in Int, t \in Int
  <2> QED BY ONLY <2>1, <2>2, <2>3
<1>9. ASSUME ~ told.projectedOverExit, ~ HasFund(docs) PROVE ~ exceedsExitThreshold(After(docs, S))
  <2>1. PICK p \in Int, u \in Int : p = Cents(A) /\ u = told.projected
    BY ONLY <1>5, <1>8
  <2>2. p <= u + 0 /\ ~ (u > 10000000)
    BY ONLY <1>3, <1>8, <1>9, <2>1 DEF immediateExitThreshold
  <2>3. ~ (p > 10000000)
    BY ONLY <2>2, p \in Int, u \in Int
  <2> QED BY ONLY <1>3, <2>1, <2>3 DEF exceedsExitThreshold, immediateExitThreshold
<1> QED
  BY ONLY <1>3, <1>8, <1>9

\* The sequences of collections of the cases.
LEMMA CollectionSequences ==
  ASSUME NEW m \in Int, NEW p \in Int, NEW b \in Int
  PROVE  {<<>>, <<[year |-> 0, amount |-> m]>>, <<[year |-> -1, amount |-> p], [year |-> 0, amount |-> p], [year |-> 0, amount |-> p]>>,
          <<[year |-> 0, amount |-> p], [year |-> 1, amount |-> p]>>, <<[year |-> 0, amount |-> b]>>} \subseteq Seq(Collection)
<1>1. \A y \in {-1, 0, 1}, a \in Int : [year |-> y, amount |-> a] \in Collection
  BY DEF Collection
<1>2. \A x, y, z \in Collection : <<x, y, z>> \in Seq(Collection) /\ <<x, y>> \in Seq(Collection) /\ <<x>> \in Seq(Collection)
  OBVIOUS
<1>3. <<>> \in Seq(Collection)
  OBVIOUS
<1> QED
  BY <1>1, <1>2, <1>3

\* A document of the cases with its collections.
LEMMA WithCollectionsIs ==
  ASSUME NEW d, Document(d), NEW x \in WithCollections(d)
  PROVE  Document(x)
<1> DEFINE sign == IF d.type = "TD04" THEN -1 ELSE 1
           third == sign * ((d.total * d.rate) \div 3)
           m    == sign * d.total * d.rate
           b    == sign * (d.total * d.rate + 100 * (d.rate - 1))
           cs   == {<<>>, <<[year |-> 0, amount |-> m]>>, <<[year |-> -1, amount |-> third], [year |-> 0, amount |-> third], [year |-> 0, amount |-> third]>>,
                    <<[year |-> 0, amount |-> third], [year |-> 1, amount |-> third]>>, <<[year |-> 0, amount |-> b]>>}
<1>1. third \in Int /\ m \in Int /\ b \in Int
  <2>1. PICK t \in Nat, r \in Nat, s \in Int : t = d.total /\ r = d.rate /\ s = sign
    BY DEF Document
  <2>2. t * r \in Int /\ s * t * r \in Int
    BY <2>1
  <2>3. PICK u \in Int : u = t * r
    BY <2>2
  <2>4. u \div 3 \in Int /\ u + 100 * (r - 1) \in Int
    BY <2>1, <2>3
  <2>5. PICK v \in Int, w \in Int : v = u \div 3 /\ w = u + 100 * (r - 1)
    BY <2>4
  <2>6. s * v \in Int /\ s * w \in Int
    BY <2>1, <2>5
  <2> HIDE DEF sign
  <2> QED BY <2>1, <2>2, <2>3, <2>5, <2>6
<1>2. PICK c \in cs : x = [d EXCEPT !.collected = c]
  BY DEF WithCollections
<1>3. c \in Seq(Collection)
  <2> HIDE DEF m, third, b
  <2> QED BY <1>1, CollectionSequences
<1> HIDE DEF cs, m, third, b
<1>4. {"total", "fund", "collected"} \subseteq DOMAIN x /\ x.total = d.total /\ x.fund = d.fund /\ x.rate = d.rate /\ x.collected = c
  BY <1>2 DEF Document
<1> QED
  BY <1>3, <1>4 DEF Document

LEMMA WrittenIs ==
  ASSUME NEW y, NEW r \in Nat, NEW s, NEW a \in Asked
  PROVE  LET d == Written(y, r, s, a) IN Document(d) /\ d.status = s.status /\ d.collected = <<>>
<1>1. a.total \in Nat \ {0} /\ a.fund \in 0..a.total
  BY DEF Asked
<1>2. <<>> \in Seq(Collection)
  OBVIOUS
<1> QED
  BY <1>1, <1>2 DEF Document, Written

\* The documents of the cases.
LEMMA DocumentsOfAre ==
  ASSUME NEW years, NEW statuses, NEW exchange \in SUBSET Nat, NEW x \in DocumentsOf(years, statuses, exchange)
  PROVE  Document(x)
<1>1. PICK y \in years, r \in exchange, s \in statuses, a \in Asked : x \in WithCollections(Written(y, r, s, a))
  BY DEF DocumentsOf
<1> QED
  BY <1>1, WrittenIs, WithCollectionsIs

\* The documents the rules are asked about are such documents.
LEMMA RevenueCasesAre ==
  ASSUME NEW q \in RevenueCases
  PROVE  Dossier(q.docs) /\ q.draft \in DOMAIN q.docs /\ q.docs[q.draft].status \in NEVER_ISSUED /\ q.docs[q.draft].collected = <<>>
<1> DEFINE X == DocumentsOf({-1, 0, 1}, Stages, {1, 2})
           Y == DocumentsOf({-1, 0}, {Stage("DELIVERED", "TD01", FALSE)}, {1})
<1>1. q.draft = 3 /\ q.docs \in X \X Y \X Drafts
  BY DEF RevenueCases
<1>2. (\A x \in X : Document(x)) /\ (\A y \in Y : Document(y)) /\ \A z \in Drafts : Document(z) /\ z.status = "DRAFT" /\ z.collected = <<>>
  <2>1. {1, 2} \in SUBSET Nat /\ {1} \in SUBSET Nat
    OBVIOUS
  <2>2. \A z \in Drafts : Document(z) /\ z.status = "DRAFT" /\ z.collected = <<>>
    BY WrittenIs DEF Drafts, Stage
  <2> QED BY <2>1, <2>2, DocumentsOfAre
<1> HIDE DEF X, Y
<1>3. PICK x \in X, y \in Y, z \in Drafts : q.docs = <<x, y, z>>
  BY <1>1
<1>4. DOMAIN q.docs = 1..3 /\ q.docs[1] = x /\ q.docs[2] = y /\ q.docs[3] = z
  BY <1>3
<1>5. \A n \in Int : IsFiniteSet(1..n)
  BY FS_Interval
<1>6. \A i \in 1..3 : Document(q.docs[i])
  BY <1>2, <1>4
<1>7. Dossier(q.docs)
  <2>1. IsFiniteSet(DOMAIN q.docs)
    <3> PICK m \in Int : m = 3
      OBVIOUS
    <3>1. DOMAIN q.docs = 1..m /\ IsFiniteSet(1..m)
      BY <1>4, <1>5
    <3> QED BY <3>1
  <2> QED BY <1>4, <1>6, <2>1 DEF Dossier
<1>8. q.draft = 3 /\ 3 \in 1..3 /\ z.status \in NEVER_ISSUED /\ z.collected = <<>>
  BY <1>1, <1>2 DEF NEVER_ISSUED
<1> QED
  BY <1>4, <1>7, <1>8

\* What YearsAgree says of any year, and GuideExplains and ProjectionHolds of any documents, holds of those the rules are asked about.
THEOREM ReturnsAlways == DeskSpec => []ReturnAgrees
<1>1. AskedInv => ReturnAgrees
  <2> SUFFICES ASSUME AskedInv PROVE ReturnAgrees
    OBVIOUS
  <2>1. ASSUME asked.topic = "year", "year" \in DOMAIN asked PROVE ReturnAgreesFor(asked)
    <3>1. "from" \notin DOMAIN asked
      BY <2>1 DEF AskedInv
    <3>2. tie \in {0, 1} /\ \E start \in DOMAIN startOptions : asked \in YearCases(start)
      BY <2>1, <3>1 DEF AskedInv
    <3> QED BY <3>2, YearCasesPlanned, YearsAgree
  <2>2. ASSUME asked.topic = "revenue", "docs" \in DOMAIN asked PROVE RevenueExplainedFor(asked)
    <3>1. "from" \notin DOMAIN asked
      BY <2>2 DEF AskedInv
    <3>2. tie \in {0, 1} /\ asked \in RevenueCases
      BY <2>2, <3>1 DEF AskedInv
    <3> QED BY <3>2, RevenueCasesAre, GuideExplains, ProjectionHolds DEF RevenueExplainedFor
  <2> QED BY <2>1, <2>2 DEF ReturnAgrees
<1> QED
  BY <1>1, AskedStart, AskedStep, PTL DEF DeskSpec

-----------------------------------------------------------------------------
(* What a plan asks for (PaymentSchedule) *)

\* What is left of a debt can be split: each installment pays some of it, and the surcharge can be spread over them.
Ample(a, start, n) == a = 0 \/ (2 * a > n * (n - 1) /\ SpreadsOver(Surcharge(a, start), n))

\* Each installment of such a debt pays some of it.
LEMMA InstallmentsPositive ==
  ASSUME tie \in {0, 1}, NEW a \in Nat, NEW n \in Nat \ {0}, 2 * a > n * (n - 1)
  PROVE  \A i \in 1..n : principal(a, n, i) \in Int /\ principal(a, n, i) > 0
<1>1. PICK r \in Int : r = Round(a, n)
  BY RoundBetween
<1>2. 2 * (n * r) <= 2 * a + n - (1 - tie) /\ 2 * a + n - (1 - tie) < 2 * (n * r) + 2 * n
  BY <1>1, RoundBetween
<1>3. r > 0
  <2>1. SUFFICES ASSUME r <= 0 PROVE FALSE
    OBVIOUS
  <2>2. n * r <= 0 /\ n * r \in Int
    BY <2>1
  <2>3. 2 * a <= n
    BY <1>2, <2>2
  <2>4. CASE n = 1
    BY <2>3, <2>4
  <2>5. CASE n >= 2
    <3>1. n * (n - 1) >= n * 1
      BY <2>5
    <3> QED BY <2>3, <3>1
  <2> QED BY <2>4, <2>5
<1>4. a - (n - 1) * r > 0 /\ (n - 1) * r \in Int
  <2>1. (n - 1) * (2 * (n * r)) <= (n - 1) * (2 * a + n)
    <3>1. PICK x \in Int, y \in Int : x = 2 * (n * r) /\ y = 2 * a + n
      OBVIOUS
    <3>2. x <= y
      BY <1>2, <3>1
    <3>3. (n - 1) * x <= (n - 1) * y
      BY <3>2
    <3> QED BY <3>1, <3>3
  <2>2. (n - 1) * (2 * (n * r)) = (2 * n) * ((n - 1) * r) /\ (n - 1) * (2 * a + n) = 2 * (n * a) - 2 * a + n * (n - 1)
    OBVIOUS
  <2>3. PICK k \in Int : k = (n - 1) * r
    OBVIOUS
  <2>4. (2 * n) * k < (2 * n) * a
    <3>1. (2 * n) * a = 2 * (n * a)
      OBVIOUS
    <3>2. PICK u \in Int, v \in Int, w \in Int : u = n * a /\ v = n * (n - 1) /\ w = (2 * n) * k
      OBVIOUS
    <3>3. w <= 2 * u - 2 * a + v /\ 2 * a > v
      BY <2>1, <2>2, <2>3, <3>2
    <3> QED BY <3>1, <3>2, <3>3
  <2>5. k < a
    BY <2>4
  <2> QED BY <2>3, <2>5
<1> QED
  BY <1>1, <1>3, <1>4 DEF principal

\* The interest of an installment is an amount.
LEMMA InterestIs ==
  ASSUME tie \in {0, 1}, NEW start \in DOMAIN startOptions, NEW n \in Nat \ {0}, NEW a, NEW i \in 1..n,
         principal(a, n, i) \in Nat
  PROVE  Part(a, start, n, i).interest \in Nat
<1> DEFINE first == startOptions[start].date
           pct   == IF i = 1 THEN 0 ELSE secondInstallmentInterestPct(first) + rules.increment * (i - 2)
<1>1. first \in {630, 720, 730, 820}
  BY DEF startOptions
<1>2. secondInstallmentInterestPct(first) \in Nat
  <2>1. PICK t \in {630, 720, 730, 820} : t = first
    BY <1>1
  <2>2. commercialDays(t, secondNominalDueDate(t)) \in {16, 26}
    <3>1. CASE t = 630
      BY <3>1 DEF commercialDays, secondNominalDueDate, rules, AtMost
    <3>2. CASE t = 720
      BY <3>2 DEF commercialDays, secondNominalDueDate, rules, AtMost
    <3>3. CASE t = 730
      BY <3>3 DEF commercialDays, secondNominalDueDate, rules, AtMost
    <3>4. CASE t = 820
      BY <3>4 DEF commercialDays, secondNominalDueDate, rules, AtMost
    <3> QED BY <3>1, <3>2, <3>3, <3>4
  <2>3. PICK m \in {16, 26} : m = commercialDays(t, secondNominalDueDate(t))
    BY <2>2
  <2>4. rules.annualInterest = 400
    BY DEF rules
  <2>5. Round(400 * m, 360) \in Nat
    BY <2>3 DEF Round
  <2> QED BY <2>1, <2>3, <2>4, <2>5 DEF secondInstallmentInterestPct
<1>3. PICK s \in Nat : s = secondInstallmentInterestPct(first)
  BY <1>2
<1>4. pct \in Nat
  <2>1. rules.increment = 33
    BY DEF rules
  <2> QED BY <1>3, <2>1
<1>5. Part(a, start, n, i).interest = Round(principal(a, n, i) * pct, 10000)
  BY DEF Part, buildInstallmentPlan
<1> HIDE DEF pct
<1>6. PICK p \in Nat, x \in Nat : p = pct /\ x = principal(a, n, i)
  BY <1>4
<1>7. PICK m \in Nat : m = x * p
  OBVIOUS
<1>8. Round(m, 10000) \in Nat
  BY DEF Round
<1> QED
  BY <1>5, <1>6, <1>7, <1>8

\* The rows of a debt pay what they do not say is surcharge, and come to a total.
RowsCome(R, d, total) ==
  /\ IsFiniteSet(R)
  /\ \A l \in R : /\ l.debit \in Nat /\ l.debit > 0 /\ l.surcharge \in 0..l.debit
                  /\ l.section = d[1] /\ (l.role = d[2] \/ (l.role = "INTEREST" /\ l.of = d[2]))
  /\ total \in Nat /\ \A f : (\A l \in R : f[l] = l.debit) => SumFunctionOnSet(f, R) = total

\* What an installment asks for a debt: its part of the debt with the surcharge, and the interest of it.
InstallmentOf(a, start, n, i) ==
  principal(a + Surcharge(a, start), n, i) + Part(a + Surcharge(a, start), start, n, i).interest

\* The surcharge never makes the part of a debt smaller.
LEMMA SharesPositive ==
  ASSUME tie \in {0, 1}, NEW a \in Nat, a > 0, NEW start \in DOMAIN startOptions, NEW n \in Nat \ {0}, Ample(a, start, n), NEW i \in 1..n
  PROVE  LET w == principal(a + Surcharge(a, start), n, i)
             p == principal(a, n, i)
         IN  p \in Nat /\ p > 0 /\ w \in Nat /\ w >= p
<1>1. PICK s \in Nat : s = Surcharge(a, start)
  BY SurchargeTypes
<1>2. 2 * a > n * (n - 1) /\ SpreadsOver(s, n)
  BY <1>1 DEF Ample
<1>3. principal(a, n, i) \in Int /\ principal(a, n, i) > 0
  BY <1>2, InstallmentsPositive
<1>4. PICK x \in Int, y \in Int : x = Round(a, n) /\ y = Round(a + s, n) /\ y - x >= 0 /\ (n - 1) * (y - x) <= s
  BY <1>2, SharesGrow
<1>5. principal(a + s, n, i) \in Int /\ principal(a + s, n, i) >= principal(a, n, i)
  <2>1. CASE i # n
    BY <1>4, <2>1 DEF principal
  <2>2. CASE i = n
    <3>1. PICK k \in Int : k = (n - 1) * x
      OBVIOUS
    <3>2. PICK m \in Int : m = (n - 1) * (y - x)
      OBVIOUS
    <3>3. (n - 1) * y = k + m
      BY <3>1, <3>2
    <3>4. principal(a, n, i) = a - k /\ principal(a + s, n, i) = (a + s) - (k + m)
      BY <1>4, <2>2, <3>1, <3>3 DEF principal
    <3> QED BY <1>4, <3>2, <3>4
  <2> QED BY <2>1, <2>2
<1> QED
  BY <1>1, <1>3, <1>5

\* The rows of an installment of a debt that can be split.
LEMMA RowsOfDebtCome ==
  ASSUME tie \in {0, 1}, NEW d, d[2] # "INTEREST", NEW a \in Nat, a > 0, NEW start \in DOMAIN startOptions, NEW n \in Nat \ {0},
         Ample(a, start, n), NEW i \in 1..n
  PROVE  /\ RowsCome(RowsFor(d, a, start, n, i), d, InstallmentOf(a, start, n, i))
         /\ Part(a + Surcharge(a, start), start, n, i).interest \in Nat
<1> DEFINE s      == Surcharge(a, start)
           with   == Part(a + s, start, n, i)
           plain  == Part(a, start, n, i)
           share  == with.principal - plain.principal
           moved  == IF surchargeWithInterest(d[1]) THEN share ELSE 0
           inside == IF ~ surchargeWithInterest(d[1]) /\ share > 0 THEN share ELSE 0
           row    == line(d, with.principal - moved, inside)
           other  == [section |-> d[1], role |-> "INTEREST", of |-> d[2], debit |-> with.interest + moved, surcharge |-> 0]
           R      == RowsFor(d, a, start, n, i)
<1>1. with.principal = principal(a + s, n, i) /\ plain.principal = principal(a, n, i)
  <2> HIDE DEF s
  <2> QED BY DEF Part, buildInstallmentPlan
<1>2. PICK p \in Nat, w \in Nat : p = plain.principal /\ w = with.principal /\ p > 0 /\ w >= p
  BY <1>1, SharesPositive
<1>3. PICK t \in Nat : t = with.interest
  <2> HIDE DEF s
  <2>1. principal(a + s, n, i) \in Nat
    BY <1>1, <1>2
  <2> QED BY <2>1, InterestIs
<1>4. R = {row} \cup (IF with.interest > 0 \/ moved > 0 THEN {other} ELSE {})
  BY DEF RowsFor, DebtRows
<1>5. row.section = d[1] /\ row.role = d[2] /\ row.debit = with.principal - moved /\ row.surcharge = inside
  BY DEF line
<1>6. other.section = d[1] /\ other.role = "INTEREST" /\ other.of = d[2] /\ other.debit = with.interest + moved /\ other.surcharge = 0
  OBVIOUS
<1>7. share = w - p
  BY <1>2
<1> HIDE DEF row, other, with, plain, share
<1>8. PICK m \in Nat, b \in Nat : m = moved /\ b = inside /\ m <= w - p /\ b <= w - p /\ (m = 0 \/ b = 0)
  BY <1>2, <1>7
<1> HIDE DEF moved, inside, R
<1>9. InstallmentOf(a, start, n, i) = w + t
  BY <1>1, <1>2, <1>3 DEF InstallmentOf, with
<1>10. /\ row.debit = w - m /\ row.debit \in Nat /\ row.debit > 0 /\ row.surcharge \in 0..row.debit
       /\ other.debit = t + m /\ other.debit \in Nat /\ row # other
  BY <1>2, <1>3, <1>5, <1>6, <1>8
<1>11. R = IF t > 0 \/ m > 0 THEN {row, other} ELSE {row}
  BY <1>3, <1>4, <1>8
<1>12. IsFiniteSet({row}) /\ IsFiniteSet({other}) /\ {row} \cap {other} = {} /\ {row, other} = {row} \cup {other}
  BY <1>10, FS_Singleton
<1>13. ASSUME NEW f, \A l \in R : f[l] = l.debit PROVE SumFunctionOnSet(f, R) = w + t
  <2>1. f[row] = row.debit /\ f[row] \in Int
    BY <1>10, <1>11, <1>13
  <2>2. SumFunctionOnSet(f, {row}) = w - m
    <3>1. SumFunctionOnSet(f, {row}) = f[row]
      BY <1>12, <2>1, SumOne
    <3> QED BY <1>10, <2>1, <3>1
  <2>3. CASE ~ (t > 0 \/ m > 0)
    BY <1>2, <1>3, <1>8, <1>11, <2>2, <2>3
  <2>4. CASE t > 0 \/ m > 0
    <3>1. f[other] = other.debit /\ f[other] \in Int
      BY <1>10, <1>11, <1>13, <2>4
    <3>2. SumFunctionOnSet(f, {other}) = t + m
      <4>1. SumFunctionOnSet(f, {other}) = f[other]
        BY <1>12, <3>1, SumOne
      <4> QED BY <1>10, <3>1, <4>1
    <3>3. SumFunctionOnSet(f, {row} \cup {other}) = SumFunctionOnSet(f, {row}) + SumFunctionOnSet(f, {other})
      <4>1. \A x \in {row} \cup {other} : f[x] \in Int
        BY <2>1, <3>1
      <4> QED BY <1>12, <4>1, SumUnion
    <3>4. R = {row} \cup {other}
      BY <1>11, <1>12, <2>4
    <3>5. SumFunctionOnSet(f, R) = SumFunctionOnSet(f, {row}) + SumFunctionOnSet(f, {other})
      BY <3>3, <3>4
    <3>6. (w - m) + (t + m) = w + t
      OBVIOUS
    <3> QED BY <2>2, <3>2, <3>5, <3>6
  <2> QED BY <2>3, <2>4
<1>14. IsFiniteSet(R)
  <2>1. IsFiniteSet({row} \cup {other})
    BY <1>12, FS_Union
  <2>2. R = {row} \/ R = {row} \cup {other}
    BY <1>11, <1>12
  <2> QED BY <1>12, <2>1, <2>2
<1>15. \A l \in R : /\ l.debit \in Nat /\ l.debit > 0 /\ l.surcharge \in 0..l.debit
                    /\ l.section = d[1] /\ (l.role = d[2] \/ (l.role = "INTEREST" /\ l.of = d[2]))
  <2>1. t > 0 \/ m > 0 => other.debit > 0 /\ other.surcharge \in 0..other.debit
    BY <1>6, <1>10
  <2>2. \A l \in R : l = row \/ (l = other /\ (t > 0 \/ m > 0))
    BY <1>11
  <2> SUFFICES ASSUME NEW l \in R
               PROVE  /\ l.debit \in Nat /\ l.debit > 0 /\ l.surcharge \in 0..l.debit
                      /\ l.section = d[1] /\ (l.role = d[2] \/ (l.role = "INTEREST" /\ l.of = d[2]))
    OBVIOUS
  <2>3. CASE l = row
    BY <1>5, <1>10, <2>3
  <2>4. CASE l = other /\ (t > 0 \/ m > 0)
    BY <1>6, <1>10, <2>1, <2>4
  <2> QED BY <2>2, <2>3, <2>4
<1>16. w + t \in Nat
  OBVIOUS
<1> QED
  BY <1>3, <1>9, <1>13, <1>14, <1>15, <1>16 DEF RowsCome, R, with

\* The rows of a form pay more than nothing, what they do not say is surcharge is not negative, and they come to a total.
FormComes(lines, total) ==
  /\ IsFiniteSet(lines) /\ \A l \in lines : l.debit > 0 /\ l.surcharge \in 0..l.debit
  /\ SumFunction([l \in lines |-> l.debit]) = total /\ total \in Nat

\* Every debt that is split can be.
AmpleDebts(scheme, amounts, start, n) ==
  \A d \in Components(scheme, amounts) : Ample(amounts[d[1]][d[2]], start, n)

\* The debts of a plan are finitely many.
LEMMA DebtsFinite ==
  ASSUME NEW scheme
  PROVE  IsFiniteSet(sections(scheme) \X Roles) /\ \A amounts : IsFiniteSet(Components(scheme, amounts))
<1>1. IsFiniteSet(Sections) /\ IsFiniteSet(Roles)
  <2>1. Sections = ({} \cup {"TREASURY"}) \cup {"INPS"} /\ Roles = (({} \cup {"BALANCE"}) \cup {"FIRST_ADVANCE"}) \cup {"SECOND_ADVANCE"}
    BY DEF Sections, Roles, Splittable
  <2> QED BY <2>1, FS_EmptySet, FS_AddElement
<1>2. sections(scheme) \subseteq Sections
  BY DEF sections, Sections
<1>3. IsFiniteSet(sections(scheme) \X Roles)
  BY <1>1, <1>2, FS_Subset, FS_Product
<1>4. \A amounts : Components(scheme, amounts) \subseteq sections(scheme) \X Roles
  BY DEF Components, Roles
<1> QED
  BY <1>3, <1>4, FS_Subset

\* An installment of a plan asks for that of each of its debts.
LEMMA InstallmentComes ==
  ASSUME tie \in {0, 1}, NEW scheme, NEW amounts, NEW start \in DOMAIN startOptions, NEW n \in Nat \ {0}, NEW i \in 1..n,
         DebtsTyped(amounts), AmpleDebts(scheme, amounts, start, n),
         NEW g, \A d \in Components(scheme, amounts) : g[d] = InstallmentOf(amounts[d[1]][d[2]], start, n, i)
  PROVE  /\ FormComes(InstallmentRows(scheme, amounts, start, n, i), SumFunctionOnSet(g, Components(scheme, amounts)))
         /\ \A d \in Components(scheme, amounts) : g[d] \in Nat
<1> DEFINE C     == Components(scheme, amounts)
           a(e)  == amounts[e[1]][e[2]]
           R     == [e \in C |-> RowsFor(e, a(e), start, n, i)]
           lines == InstallmentRows(scheme, amounts, start, n, i)
           f     == [l \in lines |-> l.debit]
<1>1. \A e \in C : e = <<e[1], e[2]>> /\ e[2] # "INTEREST" /\ a(e) \in Nat /\ a(e) > 0 /\ Ample(a(e), start, n)
  BY DebtsAre DEF AmpleDebts
<1>2. lines = UNION {R[e] : e \in C}
  <2>1. lines = UNION {RowsFor(e, a(e), start, n, i) : e \in C}
    BY RowsAre
  <2>2. \A e \in C : R[e] = RowsFor(e, a(e), start, n, i)
    OBVIOUS
  <2> HIDE DEF R, C, lines
  <2> QED BY <2>1, <2>2
<1>3. ASSUME NEW e \in C PROVE RowsCome(R[e], e, g[e])
  <2>1. RowsCome(RowsFor(e, a(e), start, n, i), e, InstallmentOf(a(e), start, n, i))
    BY <1>1, RowsOfDebtCome
  <2> QED BY <2>1
<1>4. \A l \in lines : f[l] = l.debit
  OBVIOUS
<1>5. SumFunction(f) = SumFunctionOnSet(f, lines)
  BY DEF SumFunction
<1>6. IsFiniteSet(C)
  BY DebtsFinite
<1> HIDE DEF C, R, lines, f
<1>7. /\ \A e \in C : g[e] \in Nat /\ IsFiniteSet(R[e])
      /\ \A e \in C : \A l \in R[e] : /\ l.debit \in Nat /\ l.debit > 0 /\ l.surcharge \in 0..l.debit
                                      /\ l.section = e[1] /\ (l.role = e[2] \/ (l.role = "INTEREST" /\ l.of = e[2]))
  BY <1>3 DEF RowsCome
<1>8. \A l \in lines : l.debit \in Nat /\ l.debit > 0 /\ l.surcharge \in 0..l.debit
  BY <1>2, <1>7
<1>9. ASSUME NEW d \in C, NEW e \in C, d # e PROVE R[d] \cap R[e] = {}
  <2> SUFFICES ASSUME NEW l \in R[d], l \in R[e] PROVE FALSE
    OBVIOUS
  <2>1. l.section = d[1] /\ (l.role = d[2] \/ (l.role = "INTEREST" /\ l.of = d[2]))
    BY <1>7
  <2>2. l.section = e[1] /\ (l.role = e[2] \/ (l.role = "INTEREST" /\ l.of = e[2]))
    BY <1>7
  <2>3. d[2] # "INTEREST" /\ e[2] # "INTEREST" /\ d = <<d[1], d[2]>> /\ e = <<e[1], e[2]>>
    BY <1>1
  <2>4. d[1] = e[1] /\ d[2] = e[2]
    BY <2>1, <2>2, <2>3
  <2> QED BY <1>9, <2>3, <2>4
<1>10. Groups(f, R, C)
  <2>1. ASSUME NEW e \in C, NEW l \in R[e] PROVE f[l] \in Int
    <3>1. l \in lines
      BY <1>2
    <3> QED BY <1>4, <1>8, <3>1
  <2> QED BY <1>6, <1>7, <1>9, <2>1 DEF Groups
<1>11. \A e \in C : g[e] = SumFunctionOnSet(f, R[e])
  <2> SUFFICES ASSUME NEW e \in C PROVE g[e] = SumFunctionOnSet(f, R[e])
    OBVIOUS
  <2>1. \A l \in R[e] : f[l] = l.debit
    BY <1>2, <1>4
  <2> QED BY <1>3, <2>1 DEF RowsCome
<1>12. SumFunctionOnSet(f, lines) = SumFunctionOnSet(g, C) /\ IsFiniteSet(lines)
  <2>1. SumFunctionOnSet(f, UNION {R[x] : x \in C}) = SumFunctionOnSet(g, C) /\ IsFiniteSet(UNION {R[x] : x \in C})
    BY ONLY <1>10, <1>11, SumGroups
  <2> QED BY <1>2, <2>1
<1>13. SumFunctionOnSet(g, C) \in Nat
  BY <1>6, <1>7, SumIn
<1> QED
  BY <1>5, <1>7, <1>8, <1>12, <1>13 DEF FormComes, f, lines, C

\* What is paid beyond a debt that is split.
AddedTo(a, start, n) ==
  Surcharge(a, start)
    + SumFunction([i \in 1..n |-> buildInstallmentPlan(a + Surcharge(a, start), startOptions[start].date, n)[i].interest])

\* The installments of a debt ask for it, its surcharge and their interest.
LEMMA DebtComes ==
  ASSUME tie \in {0, 1}, NEW a \in Nat, a > 0, NEW start \in DOMAIN startOptions, NEW n \in Nat \ {0}, Ample(a, start, n),
         NEW f, \A i \in 1..n : f[i] = InstallmentOf(a, start, n, i)
  PROVE  SumFunctionOnSet(f, 1..n) = a + AddedTo(a, start, n) /\ AddedTo(a, start, n) \in Nat
<1>1. PICK s \in Nat : s = Surcharge(a, start)
  BY SurchargeTypes
<1> DEFINE p == [i \in 1..n |-> principal(a + s, n, i)]
           t == [i \in 1..n |-> Part(a + s, start, n, i).interest]
<1>2. \A i \in 1..n : p[i] \in Nat /\ t[i] \in Nat /\ f[i] = p[i] + t[i]
  <2> SUFFICES ASSUME NEW i \in 1..n PROVE p[i] \in Nat /\ t[i] \in Nat /\ f[i] = p[i] + t[i]
    OBVIOUS
  <2>1. principal(a + s, n, i) \in Nat
    BY <1>1, SharesPositive
  <2>2. Part(a + s, start, n, i).interest \in Nat
    BY <2>1, InterestIs
  <2> QED BY <1>1, <2>1, <2>2 DEF InstallmentOf
<1>3. PICK r \in Int : r = Round(a + s, n)
  <2>1. a + s \in Int
    BY <1>1
  <2> HIDE DEF p, t
  <2> QED BY <2>1, RoundBetween
<1>4. SumFunctionOnSet(p, 1..n) = a + s
  <2>1. \A i \in 1..(n - 1) : p[i] = r
    BY <1>3 DEF principal
  <2>2. p[n] = (a + s) - r * (n - 1)
    <3>1. p[n] = (a + s) - (n - 1) * r /\ (n - 1) * r = r * (n - 1)
      BY <1>3 DEF principal
    <3> QED BY <3>1
  <2> HIDE DEF p
  <2> QED BY <2>1, <2>2, SumShares
<1>5. SumFunction([i \in 1..n |-> buildInstallmentPlan(a + Surcharge(a, start), startOptions[start].date, n)[i].interest])
        = SumFunctionOnSet(t, 1..n)
  BY <1>1 DEF SumFunction, Part
<1> HIDE DEF p, t
<1>6. IsFiniteSet(1..n)
  BY FS_Interval
<1>7. SumFunctionOnSet(f, 1..n) = SumFunctionOnSet(p, 1..n) + SumFunctionOnSet(t, 1..n)
  <2>1. \A i \in 1..n : p[i] \in Int /\ t[i] \in Int /\ f[i] = p[i] + t[i]
    BY <1>2
  <2> QED BY <1>6, <2>1, SumPlus
<1>8. SumFunctionOnSet(t, 1..n) \in Nat
  <2>1. \A i \in 1..n : t[i] \in Nat
    BY <1>2
  <2> QED BY <1>6, <2>1, SumIn
<1> QED
  BY <1>1, <1>4, <1>5, <1>7, <1>8 DEF AddedTo

\* What a form asks for.
DebitOf(f24) == SumFunction([l \in f24.lines |-> l.debit])

\* Forms of installments, what they ask for, and the debts with what is added to them.
Splits(scheme, amounts, start, n, forms, v, w) ==
  /\ \A i \in 1..n : forms[i].lines = InstallmentRows(scheme, amounts, start, n, i) /\ v[i] = DebitOf(forms[i])
  /\ \A d \in Components(scheme, amounts) : w[d] = amounts[d[1]][d[2]] + AddedTo(amounts[d[1]][d[2]], start, n)

\* The installments of a plan ask for the debts that are split, and what is added to them.
LEMMA SplitComes ==
  ASSUME tie \in {0, 1}, NEW scheme, NEW amounts, NEW start \in DOMAIN startOptions, NEW n \in Nat \ {0},
         DebtsTyped(amounts), AmpleDebts(scheme, amounts, start, n),
         NEW forms, NEW v, NEW w, Splits(scheme, amounts, start, n, forms, v, w)
  PROVE  /\ SumFunctionOnSet(v, 1..n) = SumFunctionOnSet(w, Components(scheme, amounts))
         /\ \A i \in 1..n : FormComes(forms[i].lines, v[i])
<1> DEFINE C    == Components(scheme, amounts)
           a(d) == amounts[d[1]][d[2]]
           m    == [i \in 1..n |-> [d \in C |-> InstallmentOf(a(d), start, n, i)]]
<1>1. IsFiniteSet(C) /\ \A d \in C : a(d) \in Nat /\ a(d) > 0 /\ Ample(a(d), start, n)
  BY DebtsFinite, DebtsAre DEF AmpleDebts
<1>2. \A i \in 1..n, d \in C : m[i][d] = InstallmentOf(a(d), start, n, i)
  OBVIOUS
<1>3. /\ \A d \in C : w[d] = a(d) + AddedTo(a(d), start, n)
      /\ \A i \in 1..n : forms[i].lines = InstallmentRows(scheme, amounts, start, n, i) /\ v[i] = DebitOf(forms[i])
  BY DEF Splits
<1> DEFINE column(d) == [i \in 1..n |-> m[i][d]]
<1>4. \A d \in C, i \in 1..n : column(d)[i] = InstallmentOf(a(d), start, n, i)
  BY <1>2
<1> HIDE DEF m, C
<1>5. ASSUME NEW i \in 1..n
      PROVE  FormComes(forms[i].lines, v[i]) /\ v[i] = SumFunctionOnSet(m[i], C) /\ \A d \in C : m[i][d] \in Nat
  <2>1. \A d \in Components(scheme, amounts) : m[i][d] = InstallmentOf(amounts[d[1]][d[2]], start, n, i)
    BY <1>2 DEF C
  <2>2. /\ FormComes(InstallmentRows(scheme, amounts, start, n, i), SumFunctionOnSet(m[i], Components(scheme, amounts)))
        /\ \A d \in Components(scheme, amounts) : m[i][d] \in Nat
    BY <2>1, InstallmentComes
  <2>3. FormComes(forms[i].lines, SumFunctionOnSet(m[i], C)) /\ \A d \in C : m[i][d] \in Nat
    BY <1>3, <2>2 DEF C
  <2>4. v[i] = SumFunctionOnSet(m[i], C)
    BY <1>3, <2>3 DEF FormComes, DebitOf
  <2> QED BY <2>3, <2>4
<1>6. \A d \in C : w[d] = SumFunctionOnSet(column(d), 1..n)
  <2> SUFFICES ASSUME NEW d \in C PROVE w[d] = SumFunctionOnSet(column(d), 1..n)
    OBVIOUS
  <2>1. \A i \in 1..n : column(d)[i] = InstallmentOf(a(d), start, n, i)
    BY <1>4
  <2> HIDE DEF column
  <2>2. SumFunctionOnSet(column(d), 1..n) = a(d) + AddedTo(a(d), start, n)
    BY <1>1, <2>1, DebtComes
  <2> QED BY <1>3, <2>2
<1>7. Table(m, n, C, v, w)
  <2>1. \A i \in 1..n, d \in C : m[i][d] \in Int
    <3>1. \A i \in 1..n, d \in C : m[i][d] \in Nat
      BY <1>5
    <3> QED BY <3>1
  <2> QED BY <1>1, <1>5, <1>6, <2>1 DEF Table
<1>8. SumFunctionOnSet(v, 1..n) = SumFunctionOnSet(w, C)
  BY ONLY <1>7, n \in Nat, SumSwap
<1> QED
  BY <1>5, <1>8 DEF C

\* The form of the second advances asks for them.
LEMMA SecondComes ==
  ASSUME NEW amounts, NEW second, IsFiniteSet(second),
         \A e \in second : e = <<e[1], e[2]>> /\ amounts[e[1]][e[2]] \in Nat /\ amounts[e[1]][e[2]] > 0,
         NEW w, \A e \in second : w[e] = amounts[e[1]][e[2]]
  PROVE  FormComes({line(e, amounts[e[1]][e[2]], 0) : e \in second}, SumFunctionOnSet(w, second))
<1> DEFINE h     == [e \in second |-> line(e, amounts[e[1]][e[2]], 0)]
           lines == {h[e] : e \in second}
           g     == [l \in lines |-> l.debit]
<1>1. \A e \in second : h[e].section = e[1] /\ h[e].role = e[2] /\ h[e].debit = w[e] /\ h[e].surcharge = 0 /\ w[e] \in Nat /\ w[e] > 0
  BY DEF line
<1>2. lines = {line(e, amounts[e[1]][e[2]], 0) : e \in second}
  OBVIOUS
<1>3. (\A l \in lines : g[l] = l.debit) /\ SumFunction(g) = SumFunctionOnSet(g, lines) /\ \A e \in second : h[e] \in lines
  BY DEF SumFunction
<1> HIDE DEF h, g
<1>4. Renames(g, h, w, second)
  <2>1. \A x, y \in second : h[x] = h[y] => x = y
    <3> SUFFICES ASSUME NEW x \in second, NEW y \in second, h[x] = h[y] PROVE x = y
      OBVIOUS
    <3>1. x[1] = y[1] /\ x[2] = y[2]
      BY <1>1
    <3> QED BY <3>1
  <2>2. \A x \in second : w[x] \in Nat /\ g[h[x]] = w[x]
    BY <1>1, <1>3
  <2> QED BY <2>1, <2>2 DEF Renames
<1>5. SumFunctionOnSet(g, {h[x] : x \in {y \in second : w[y] > 0}}) = SumFunctionOnSet(w, second)
  BY <1>4, SumRenamed
<1>6. {h[x] : x \in {y \in second : w[y] > 0}} = lines
  BY <1>1
<1>7. SumFunctionOnSet(w, second) \in Nat
  <2>1. \A e \in second : w[e] \in Nat
    BY <1>1
  <2> QED BY <2>1, SumIn
<1>8. IsFiniteSet(lines)
  BY ImageFinite
<1>9. \A l \in lines : l.debit > 0 /\ l.surcharge \in 0..l.debit
  <2> SUFFICES ASSUME NEW e \in second PROVE h[e].debit > 0 /\ h[e].surcharge \in 0..h[e].debit
    OBVIOUS
  <2> QED BY <1>1
<1>10. SumFunction(g) = SumFunctionOnSet(w, second)
  BY <1>3, <1>5, <1>6
<1>11. FormComes(lines, SumFunctionOnSet(w, second))
  BY <1>7, <1>8, <1>9, <1>10 DEF FormComes, g
<1> HIDE DEF lines
<1> QED
  BY <1>2, <1>11

\* The values of the members of a sequence, added up.
SumAlong(V, p) == SumFunction([k \in DOMAIN p |-> V[p[k]]])

\* The sum along two sequences, one after the other.
LEMMA SumAlongConcat ==
  ASSUME NEW S, NEW A \in Seq(S), NEW B \in Seq(S), NEW V, \A x \in S : V[x] \in Int
  PROVE  SumAlong(V, A \o B) = SumAlong(V, A) + SumAlong(V, B) /\ SumAlong(V, A) \in Int /\ SumAlong(V, B) \in Int
<1> DEFINE f == [k \in DOMAIN (A \o B) |-> V[(A \o B)[k]]]
           g == [k \in DOMAIN A |-> V[A[k]]]
           h == [k \in DOMAIN B |-> V[B[k]]]
           m == Len(A)
           n == Len(B)
<1>1. /\ A \o B \in Seq(S) /\ Len(A \o B) = m + n /\ m \in Nat /\ n \in Nat /\ DOMAIN A = 1..m /\ DOMAIN B = 1..n /\ DOMAIN (A \o B) = 1..(m + n)
      /\ \A i \in 1..(m + n) : (A \o B)[i] = IF i <= m THEN A[i] ELSE B[i - m]
      /\ (\A i \in 1..m : A[i] \in S) /\ \A i \in 1..n : B[i] \in S
  BY ConcatProperties, LenProperties, ElementOfSeq
<1> DEFINE C == A \o B
<1> HIDE DEF C, m, n
<1>2. /\ SumAlong(V, C) = SumFunctionOnSet(f, 1..(m + n))
      /\ SumAlong(V, A) = SumFunctionOnSet(g, 1..m) /\ SumAlong(V, B) = SumFunctionOnSet(h, 1..n)
  BY <1>1 DEF SumAlong, SumFunction, C
<1>3. \A k \in 1..m : f[k] = g[k] /\ g[k] \in Int
  <2> SUFFICES ASSUME NEW k \in 1..m PROVE f[k] = g[k] /\ g[k] \in Int
    OBVIOUS
  <2>1. k \in 1..(m + n) /\ k <= m
    BY <1>1
  <2>2. (A \o B)[k] = A[k]
    BY <1>1, <2>1
  <2> QED BY <1>1, <2>1, <2>2
<1>4. \A k \in 1..n : f[m + k] = h[k] /\ h[k] \in Int
  <2> SUFFICES ASSUME NEW k \in 1..n PROVE f[m + k] = h[k] /\ h[k] \in Int
    OBVIOUS
  <2>1. m + k \in 1..(m + n) /\ ~ (m + k <= m) /\ (m + k) - m = k
    BY <1>1
  <2>2. (A \o B)[m + k] = B[k]
    BY <1>1, <2>1
  <2> QED BY <1>1, <2>1, <2>2
<1> HIDE DEF f, g, h
<1>5. m \in Nat /\ n \in Nat
  BY <1>1
<1>6. SumFunctionOnSet(f, 1..(m + n)) = SumFunctionOnSet(g, 1..m) + SumFunctionOnSet(h, 1..n)
  <2>1. Joins(f, g, m, h, n)
    BY <1>3, <1>4 DEF Joins
  <2> QED BY <1>5, <2>1, SumConcat
<1>7. SumFunctionOnSet(g, 1..m) \in Int /\ SumFunctionOnSet(h, 1..n) \in Int
  <2>1. (\A k \in 1..m : g[k] \in Int) /\ (\A k \in 1..n : h[k] \in Int) /\ IsFiniteSet(1..m) /\ IsFiniteSet(1..n)
    BY <1>3, <1>4, <1>5, FS_Interval
  <2> QED BY <2>1, SumIn
<1> QED
  BY <1>2, <1>6, <1>7 DEF C

\* The sum along no member and along one.
LEMMA SumAlongShort ==
  ASSUME NEW V
  PROVE  /\ SumAlong(V, <<>>) = 0
         /\ \A x : V[x] \in Int => SumAlong(V, <<x>>) = V[x]
<1>1. SumAlong(V, <<>>) = 0
  <2> DEFINE f == [k \in DOMAIN <<>> |-> V[<<>>[k]]]
  <2>1. DOMAIN f = {}
    OBVIOUS
  <2>2. SumAlong(V, <<>>) = SumFunctionOnSet(f, DOMAIN f)
    BY DEF SumAlong, SumFunction
  <2> QED BY <2>1, <2>2, SumEmpty
<1>2. ASSUME NEW x, V[x] \in Int PROVE SumAlong(V, <<x>>) = V[x]
  <2> DEFINE f == [k \in DOMAIN <<x>> |-> V[<<x>>[k]]]
  <2>1. DOMAIN f = {1} /\ f[1] = V[x]
    OBVIOUS
  <2>2. SumAlong(V, <<x>>) = SumFunctionOnSet(f, DOMAIN f)
    BY DEF SumAlong, SumFunction
  <2>3. IsFiniteSet({1})
    BY FS_Singleton
  <2> HIDE DEF f
  <2>4. SumFunctionOnSet(f, {1}) = f[1]
    BY <1>2, <2>1, <2>3, SumOne
  <2> QED BY <2>1, <2>2, <2>4
<1> QED
  BY <1>1, <1>2

\* m dates follow each other from the first on, none of them in the days of August that are moved or after the last one.
Calendar(first, dates, m) ==
  /\ m \in 5..7 /\ m \in Nat \ {0} /\ first \in 100 * (13 - m)..100 * (13 - m) + 30
  /\ DOMAIN dates = 1..m /\ dates[1] = first
  /\ \A i \in 1..m : dates[i] \in Nat /\ dates[i] <= 1216 /\ dates[i] \notin 801..819
  /\ \A i, j \in 1..m : i <= j => dates[i] <= dates[j]

\* The dates of the installments do.
LEMMA DatesFollow ==
  ASSUME NEW start \in DOMAIN startOptions
  PROVE  Calendar(startOptions[start].date, maxInstallmentDates(startOptions[start].date), MaxInstallments(start))
<1> DEFINE first      == startOptions[start].date
           dates      == maxInstallmentDates(first)
           nominal(k) == applyAugustDeferral(100 * (first \div 100 + k) + rules.installmentDay)
           later      == {k \in 1..(rules.end.month - first \div 100) : \A j \in 1..k : nominal(j) <= 100 * rules.end.month + rules.end.day}
           m          == MaxInstallments(start)
<1>1. first \in {630, 720, 730, 820}
  BY DEF startOptions
<1>2. rules.end.month = 12 /\ rules.end.day = 16 /\ rules.installmentDay = 16
  BY DEF rules
<1>3. dates = [k \in 1..(Cardinality(later) + 1) |-> IF k = 1 THEN first ELSE nominal(k - 1)]
  BY DEF maxInstallmentDates
<1> HIDE DEF first
<1>4. PICK M \in {6, 7, 8} : M = first \div 100 /\ first >= 100 * M + 20 /\ first <= 100 * M + 30
  BY <1>1
<1>5. \A k \in 1..(12 - M) : nominal(k) = IF M + k = 8 THEN 820 ELSE 100 * (M + k) + 16
  <2> SUFFICES ASSUME NEW k \in 1..(12 - M) PROVE nominal(k) = IF M + k = 8 THEN 820 ELSE 100 * (M + k) + 16
    OBVIOUS
  <2>1. nominal(k) = IF 100 * (M + k) + 16 \in 801..820 THEN 820 ELSE 100 * (M + k) + 16
    BY <1>2, <1>4 DEF applyAugustDeferral
  <2> QED BY <2>1
<1> HIDE DEF nominal
<1>6. later = 1..(12 - M)
  <2>1. later = {k \in 1..(12 - M) : \A j \in 1..k : nominal(j) <= 1216}
    BY <1>2, <1>4
  <2>2. \A k \in 1..(12 - M) : nominal(k) <= 1216
    BY <1>5
  <2> HIDE DEF later
  <2> QED BY <2>1, <2>2
<1> HIDE DEF later
<1>7. Cardinality(later) = 12 - M
  BY <1>6, FS_Interval
<1>8. dates = [k \in 1..(13 - M) |-> IF k = 1 THEN first ELSE nominal(k - 1)]
  <2>1. (12 - M) + 1 = 13 - M
    OBVIOUS
  <2> QED BY <1>3, <1>7, <2>1
<1> HIDE DEF dates
<1>9. DOMAIN dates = 1..(13 - M) /\ m = 13 - M
  <2>1. DOMAIN dates = 1..(13 - M) /\ 13 - M \in Nat
    BY <1>8
  <2>2. Len(dates) = 13 - M
    BY <1>8, <2>1
  <2> QED BY <2>1, <2>2 DEF MaxInstallments, dates, first
<1>10. \A i \in 1..(13 - M) : dates[i] = IF i = 1 THEN first ELSE IF M + (i - 1) = 8 THEN 820 ELSE 100 * (M + (i - 1)) + 16
  <2> SUFFICES ASSUME NEW i \in 1..(13 - M)
               PROVE  dates[i] = IF i = 1 THEN first ELSE IF M + (i - 1) = 8 THEN 820 ELSE 100 * (M + (i - 1)) + 16
    OBVIOUS
  <2>1. i # 1 => i - 1 \in 1..(12 - M)
    OBVIOUS
  <2>2. dates[i] = IF i = 1 THEN first ELSE nominal(i - 1)
    BY <1>8
  <2> QED BY <1>5, <2>1, <2>2
<1>11. first \in {630, 720, 730, 820} /\ 1 \in 1..(13 - M)
  BY <1>1
<1>12. \A i \in 1..(13 - M) : dates[i] \in Nat /\ dates[i] <= 1216 /\ dates[i] \notin 801..819
  BY <1>4, <1>10, <1>11
<1>13. \A i, j \in 1..(13 - M) : i <= j => dates[i] <= dates[j]
  BY <1>4, <1>10, <1>11
<1>14. m \in 5..7 /\ m \in Nat \ {0} /\ first \in 100 * (13 - m)..100 * (13 - m) + 30
  <2>1. m = 13 - M /\ first \in Nat
    BY <1>9, <1>11
  <2> QED BY <1>4, <2>1
<1> HIDE DEF m
<1>15. m = 13 - M /\ dates[1] = first
  BY <1>4, <1>9, <1>10, <1>11
<1>16. Calendar(first, dates, m)
  BY <1>9, <1>12, <1>13, <1>14, <1>15 DEF Calendar
<1> QED
  BY <1>16 DEF dates, first, m

\* A plan that can be asked for: debts, credits and no more installments than there are dates.
PlanAsked(q) ==
  /\ q.start \in DOMAIN startOptions /\ q.n \in 1..MaxInstallments(q.start)
  /\ DebtsTyped(q.due) /\ q.credits \in Seq(Nat)

\* What the credits leave of each debt can be split.
AmplyLeft(q) ==
  \A d \in sections(q.scheme) \X Splittable : Ample(Compensation(q.scheme, q.due, q.credits, q.order).due[d[1]][d[2]], q.start, q.n)

\* A form's rows pay more than nothing, at a date that is not moved.
FormSound(f24) ==
  FormComes(f24.lines, DebitOf(f24)) /\ f24.date \in Nat /\ f24.date <= 1216 /\ f24.date \notin 801..819

\* The members of three sequences, one after the other, and how many they are.
ThreeOf(S, A, X, Z, a, x, z) ==
  A \in Seq(S) /\ X \in Seq(S) /\ Z \in Seq(S) /\ a = Len(A) /\ x = Len(X) /\ z = Len(Z)
JoinOf(S, W, A, X, Z, a, x, z) ==
  /\ W \in Seq(S) /\ DOMAIN W = 1..(a + x + z)
  /\ \A k \in 1..(a + x + z) : W[k] = IF k <= a THEN A[k] ELSE IF k <= a + x THEN X[k - a] ELSE Z[k - (a + x)]

LEMMA ConcatThree ==
  ASSUME NEW S, NEW A, NEW X, NEW Z, NEW a \in Nat, NEW x \in Nat, NEW z \in Nat, ThreeOf(S, A, X, Z, a, x, z)
  PROVE  JoinOf(S, A \o (X \o Z), A, X, Z, a, x, z)
<1> DEFINE Y == X \o Z
           W == A \o Y
<1>0. A \in Seq(S) /\ X \in Seq(S) /\ Z \in Seq(S) /\ a = Len(A) /\ x = Len(X) /\ z = Len(Z)
  BY DEF ThreeOf
<1>6. A \in Seq(S) /\ X \in Seq(S) /\ Z \in Seq(S)
  BY <1>0
<1>1. Y \in Seq(S) /\ Len(Y) = x + z /\ \A k \in 1..(x + z) : Y[k] = IF k <= x THEN X[k] ELSE Z[k - x]
  BY <1>0, ConcatProperties
<1> HIDE DEF Y
<1>2. W \in Seq(S) /\ Len(W) = a + (x + z) /\ \A k \in 1..(a + (x + z)) : W[k] = IF k <= a THEN A[k] ELSE Y[k - a]
  <2>1. /\ A \o Y \in Seq(S) /\ Len(A \o Y) = Len(A) + Len(Y)
        /\ \A k \in 1..(Len(A) + Len(Y)) : (A \o Y)[k] = IF k <= Len(A) THEN A[k] ELSE Y[k - Len(A)]
    BY <1>6, <1>1, ConcatProperties
  <2>2. Len(A) + Len(Y) = a + (x + z) /\ Len(A) = a
    BY <1>0, <1>1
  <2> QED BY <2>1, <2>2
<1>3. DOMAIN W = 1..Len(W)
  BY <1>2, LenProperties
<1> HIDE DEF W
<1>4. a + (x + z) = a + x + z
  OBVIOUS
<1>5. ASSUME NEW k \in 1..(a + x + z)
      PROVE  W[k] = IF k <= a THEN A[k] ELSE IF k <= a + x THEN X[k - a] ELSE Z[k - (a + x)]
  <2>1. CASE k <= a
    BY <1>2, <1>4, <2>1
  <2>2. CASE ~ (k <= a)
    <3>1. k - a \in 1..(x + z) /\ (k <= a + x <=> k - a <= x) /\ (k - a) - x = k - (a + x)
      BY <1>4, <2>2
    <3>2. W[k] = Y[k - a]
      BY <1>2, <1>4, <2>2
    <3> QED BY <1>1, <2>2, <3>1, <3>2
  <2> QED BY <2>1, <2>2
<1>7. JoinOf(S, W, A, X, Z, a, x, z)
  BY <1>2, <1>3, <1>4, <1>5 DEF JoinOf
<1> QED
  BY <1>7 DEF W, Y

\* The forms of a plan with what the credits left: one for the compensation if it has rows, one for each date if there is
\* something to split, one for the second advances if there are any.
FirstForm(q, c) == f24Form("COMPENSATION", startOptions[q.start].date, c.lines)
SplitForms(q, c) == [i \in 1..q.n |-> f24Form(IF q.n = 1 THEN "BALANCE" ELSE "INSTALLMENT", maxInstallmentDates(startOptions[q.start].date)[i],
                                         InstallmentRows(q.scheme, c.due, q.start, q.n, i))]
Second(q, c) == {<<s, "SECOND_ADVANCE">> : s \in {t \in sections(q.scheme) : c.due[t]["SECOND_ADVANCE"] > 0}}
LastForm(q, c) == f24Form("SECOND_ADVANCE", secondAdvanceDate, {line(d, c.due[d[1]][d[2]], 0) : d \in Second(q, c)})

Comp(q) == Compensation(q.scheme, q.due, q.credits, q.order)

LEMMA FormsAre ==
  ASSUME NEW q, NEW c, c = Comp(q)
  PROVE  compute(q) = (IF c.lines = {} THEN <<>> ELSE <<FirstForm(q, c)>>)
                        \o ((IF Components(q.scheme, c.due) = {} THEN <<>> ELSE SplitForms(q, c))
                              \o (IF Second(q, c) = {} THEN <<>> ELSE <<LastForm(q, c)>>))
BY DEF compute, buildPaymentSchedule, FirstForm, SplitForms, Second, LastForm, Comp

\* What the credits leave of the debts of a plan.
LEMMA LeftTyped ==
  ASSUME NEW q, PlanAsked(q), NEW c, c = Comp(q)
  PROVE  Covers(c, q.scheme, q.due, q.credits, q.order) /\ DebtsTyped(c.due)
<1>1. \A s \in Sections, r \in Roles : q.due[s][r] \in Nat
  BY DEF PlanAsked, DebtsTyped
<1>2. Covers(c, q.scheme, q.due, q.credits, q.order)
  BY <1>1, CreditsCover DEF PlanAsked, Comp
<1>3. ASSUME NEW s \in Sections, NEW r \in Roles PROVE c.due[s][r] \in Nat
  <2>1. <<s, r>> \in Sections \X Roles /\ <<s, r>>[1] = s /\ <<s, r>>[2] = r
    OBVIOUS
  <2>2. c.due[s][r] \in 0..q.due[s][r]
    BY <1>2, <2>1 DEF Covers
  <2> QED BY <1>1, <2>2
<1> QED
  BY <1>2, <1>3 DEF DebtsTyped

\* What the forms of the dates ask for, and that of the second advances.
SplitTotal(q, c) ==
  SumFunction([d \in Components(q.scheme, c.due) |-> c.due[d[1]][d[2]] + AddedTo(c.due[d[1]][d[2]], q.start, q.n)])
SecondTotal(q, c) == SumFunction([d \in Second(q, c) |-> c.due[d[1]][d[2]]])

SplitAsks(q, c) == \A v : (\A i \in 1..q.n : v[i] = DebitOf(SplitForms(q, c)[i])) => SumFunctionOnSet(v, 1..q.n) = SplitTotal(q, c)

\* Every form of a plan is sound, and what they ask for.
LEMMA PlanSound ==
  ASSUME tie \in {0, 1}, NEW q, PlanAsked(q), AmplyLeft(q), NEW c, c = Comp(q)
  PROVE  /\ FormSound(FirstForm(q, c)) /\ \A i \in 1..q.n : FormSound(SplitForms(q, c)[i])
         /\ FormSound(LastForm(q, c)) /\ IsFiniteSet(Second(q, c))
         /\ DebitOf(FirstForm(q, c)) = SumFunction(c.usages)
         /\ SplitAsks(q, c)
         /\ DebitOf(LastForm(q, c)) = SecondTotal(q, c)
<1> DEFINE first == startOptions[q.start].date
           dates == maxInstallmentDates(first)
           w     == [d \in Components(q.scheme, c.due) |-> c.due[d[1]][d[2]] + AddedTo(c.due[d[1]][d[2]], q.start, q.n)]
           u     == [d \in Second(q, c) |-> c.due[d[1]][d[2]]]
<1>1. Covers(c, q.scheme, q.due, q.credits, q.order) /\ DebtsTyped(c.due)
  BY LeftTyped
<1>2. q.start \in DOMAIN startOptions /\ q.n \in 1..MaxInstallments(q.start)
  BY DEF PlanAsked
<1>3. PICK m \in Nat \ {0} : /\ m = MaxInstallments(q.start) /\ dates[1] = first
                             /\ \A i \in 1..m : dates[i] \in Nat /\ dates[i] <= 1216 /\ dates[i] \notin 801..819
  <2>1. Calendar(first, dates, MaxInstallments(q.start))
    BY <1>2, DatesFollow
  <2> HIDE DEF dates, first
  <2>2. PICK k : k = MaxInstallments(q.start)
    OBVIOUS
  <2>3. k \in Nat \ {0} /\ dates[1] = first /\ \A i \in 1..k : dates[i] \in Nat /\ dates[i] <= 1216 /\ dates[i] \notin 801..819
    BY <2>1, <2>2 DEF Calendar
  <2> QED BY <2>2, <2>3
<1>4. q.n \in Nat \ {0} /\ q.n \in 1..m /\ 1 \in 1..m
  BY <1>2, <1>3
<1> HIDE DEF dates, first
<1>5. FormComes(c.lines, SumFunction(c.usages))
  <2>1. IsFiniteSet(c.lines) /\ (\A l \in c.lines : l.debit \in Nat /\ l.debit > 0 /\ l.surcharge = 0)
        /\ SumFunction(c.usages) = SumFunction([l \in c.lines |-> l.debit])
    BY <1>1 DEF Covers, LinesSound
  <2> DEFINE g == [l \in c.lines |-> l.debit]
  <2>2. SumFunction(g) = SumFunctionOnSet(g, c.lines) /\ \A l \in c.lines : g[l] \in Nat
    BY <2>1 DEF SumFunction
  <2> HIDE DEF g
  <2>3. SumFunction(g) \in Nat
    BY <2>1, <2>2, SumIn
  <2>4. \A l \in c.lines : l.debit > 0 /\ l.surcharge \in 0..l.debit
    BY <2>1
  <2> QED BY <2>1, <2>3, <2>4 DEF FormComes, g
<1>6. FirstForm(q, c).lines = c.lines /\ FirstForm(q, c).date = first
  BY DEF FirstForm, f24Form, first
<1>7. DebitOf(FirstForm(q, c)) = SumFunction(c.usages) /\ FormSound(FirstForm(q, c))
  <2>1. DebitOf(FirstForm(q, c)) = SumFunction(c.usages)
    BY <1>5, <1>6 DEF DebitOf, FormComes
  <2> QED BY <1>3, <1>4, <1>5, <1>6, <2>1 DEF FormSound
<1>8. \A i \in 1..q.n : SplitForms(q, c)[i].lines = InstallmentRows(q.scheme, c.due, q.start, q.n, i) /\ SplitForms(q, c)[i].date = dates[i]
  BY DEF SplitForms, f24Form, dates, first
<1>9. AmpleDebts(q.scheme, c.due, q.start, q.n)
  BY DEF AmplyLeft, AmpleDebts, Comp, Components
<1>10. \A d \in Components(q.scheme, c.due) : w[d] = c.due[d[1]][d[2]] + AddedTo(c.due[d[1]][d[2]], q.start, q.n)
  OBVIOUS
<1> HIDE DEF w
<1>11. ASSUME NEW v, \A i \in 1..q.n : v[i] = DebitOf(SplitForms(q, c)[i])
       PROVE  /\ SumFunctionOnSet(v, 1..q.n) = SumFunctionOnSet(w, Components(q.scheme, c.due))
              /\ \A i \in 1..q.n : FormComes(SplitForms(q, c)[i].lines, v[i])
  <2>1. \A i \in 1..q.n : SplitForms(q, c)[i].lines = InstallmentRows(q.scheme, c.due, q.start, q.n, i)
    BY <1>8
  <2>2. Splits(q.scheme, c.due, q.start, q.n, SplitForms(q, c), v, w)
    BY <1>10, <1>11, <2>1 DEF Splits
  <2> QED BY <1>1, <1>2, <1>4, <1>9, <1>11, <2>2, SplitComes
<1>12. \A i \in 1..q.n : FormSound(SplitForms(q, c)[i])
  <2> SUFFICES ASSUME NEW i \in 1..q.n PROVE FormSound(SplitForms(q, c)[i])
    OBVIOUS
  <2> DEFINE v == [j \in 1..q.n |-> DebitOf(SplitForms(q, c)[j])]
  <2>1. \A j \in 1..q.n : v[j] = DebitOf(SplitForms(q, c)[j])
    OBVIOUS
  <2> HIDE DEF v
  <2>2. FormComes(SplitForms(q, c)[i].lines, v[i])
    BY <1>11, <2>1
  <2>3. i \in 1..m
    BY <1>4
  <2> QED BY <1>3, <1>8, <2>1, <2>2, <2>3 DEF FormSound
<1>13. IsFiniteSet(Second(q, c)) /\ \A e \in Second(q, c) : e = <<e[1], e[2]>> /\ c.due[e[1]][e[2]] \in Nat /\ c.due[e[1]][e[2]] > 0
  <2>1. Second(q, c) \subseteq sections(q.scheme) \X Roles
    BY DEF Second, Roles
  <2>2. sections(q.scheme) \subseteq Sections /\ "SECOND_ADVANCE" \in Roles
    BY DEF sections, Sections, Roles
  <2>3. IsFiniteSet(Second(q, c))
    BY <2>1, DebtsFinite, FS_Subset
  <2>4. ASSUME NEW e \in Second(q, c) PROVE e = <<e[1], e[2]>> /\ c.due[e[1]][e[2]] \in Nat /\ c.due[e[1]][e[2]] > 0
    <3>1. PICK s \in sections(q.scheme) : e = <<s, "SECOND_ADVANCE">> /\ c.due[s]["SECOND_ADVANCE"] > 0
      BY DEF Second
    <3>2. c.due[s]["SECOND_ADVANCE"] \in Nat
      BY <1>1, <2>2 DEF DebtsTyped
    <3> QED BY <3>1, <3>2
  <2> QED BY <2>3, <2>4
<1>14. \A e \in Second(q, c) : u[e] = c.due[e[1]][e[2]]
  OBVIOUS
<1> HIDE DEF u
<1>15. FormComes({line(e, c.due[e[1]][e[2]], 0) : e \in Second(q, c)}, SumFunctionOnSet(u, Second(q, c)))
  BY <1>13, <1>14, SecondComes
<1>16. LastForm(q, c).lines = {line(e, c.due[e[1]][e[2]], 0) : e \in Second(q, c)} /\ LastForm(q, c).date = 1130
  BY DEF LastForm, f24Form, secondAdvanceDate
<1>17. FormComes(LastForm(q, c).lines, SumFunctionOnSet(u, Second(q, c)))
  BY <1>15, <1>16
<1>18. DebitOf(LastForm(q, c)) = SumFunctionOnSet(u, Second(q, c))
  BY <1>17 DEF FormComes, DebitOf
<1>19. FormSound(LastForm(q, c))
  BY <1>16, <1>17, <1>18 DEF FormSound
<1>20. SumFunctionOnSet(w, Components(q.scheme, c.due)) = SplitTotal(q, c) /\ SumFunctionOnSet(u, Second(q, c)) = SecondTotal(q, c)
  BY DEF w, u, SplitTotal, SecondTotal, SumFunction
<1>21. SplitAsks(q, c)
  BY <1>11, <1>20 DEF SplitAsks
<1>22. DebitOf(LastForm(q, c)) = SecondTotal(q, c) /\ IsFiniteSet(Second(q, c))
  BY <1>13, <1>18, <1>20
<1> QED
  BY <1>7, <1>12, <1>19, <1>21, <1>22

\* The debts of a plan, and what is paid beyond them.
Owed(q)     == SumFunction([d \in sections(q.scheme) \X Roles |-> q.due[d[1]][d[2]]])
Extra(q, c) == SumFunction([d \in Components(q.scheme, c.due) |-> AddedTo(c.due[d[1]][d[2]], q.start, q.n)])

\* What the credits pay, what is split and the second advances are the debts and what is added to them.
LEMMA PlanAddsUp ==
  ASSUME tie \in {0, 1}, NEW q, PlanAsked(q), AmplyLeft(q), NEW c, c = Comp(q)
  PROVE  /\ SumFunction(c.usages) + (SplitTotal(q, c) + SecondTotal(q, c)) = Owed(q) + Extra(q, c)
         /\ SplitTotal(q, c) \in Nat /\ SecondTotal(q, c) \in Nat /\ SumFunction(c.usages) \in Nat
<1> DEFINE D     == sections(q.scheme) \X Roles
           C     == Components(q.scheme, c.due)
           T     == Second(q, c)
           due   == [d \in D |-> q.due[d[1]][d[2]]]
           left  == [d \in D |-> c.due[d[1]][d[2]]]
           paid  == [d \in D |-> q.due[d[1]][d[2]] - c.due[d[1]][d[2]]]
           onC   == [d \in C |-> c.due[d[1]][d[2]] + AddedTo(c.due[d[1]][d[2]], q.start, q.n)]
           added == [d \in C |-> AddedTo(c.due[d[1]][d[2]], q.start, q.n)]
           onT   == [d \in T |-> c.due[d[1]][d[2]]]
<1>1. Covers(c, q.scheme, q.due, q.credits, q.order) /\ DebtsTyped(c.due) /\ DebtsTyped(q.due)
  BY LeftTyped DEF PlanAsked
<1>2. q.start \in DOMAIN startOptions /\ q.n \in Nat \ {0}
  <2>1. q.start \in DOMAIN startOptions /\ q.n \in 1..MaxInstallments(q.start)
    BY DEF PlanAsked
  <2>2. PICK m \in Nat : m = MaxInstallments(q.start)
    BY <2>1, DatesFollow DEF Calendar
  <2> QED BY <2>1, <2>2
<1>3. IsFiniteSet(D) /\ IsFiniteSet(C) /\ C \subseteq D /\ T \subseteq D /\ IsFiniteSet(T) /\ C \cap T = {}
  <2>1. C \subseteq D /\ T \subseteq D /\ C \cap T = {}
    BY DEF Components, Second, Roles, Splittable
  <2> QED BY <2>1, DebtsFinite, FS_Subset
<1>4. sections(q.scheme) \subseteq Sections
  BY DEF sections, Sections
<1>5. ASSUME NEW d \in D
      PROVE  /\ due[d] \in Nat /\ left[d] \in Nat /\ paid[d] = due[d] - left[d]
             /\ d \in C => left[d] > 0 /\ left[d] = c.due[d[1]][d[2]]
             /\ d \notin C \cup T => left[d] = 0
  <2>1. d = <<d[1], d[2]>> /\ d[1] \in sections(q.scheme) /\ d[1] \in Sections /\ d[2] \in Roles
    BY <1>4
  <2>2. due[d] = q.due[d[1]][d[2]] /\ left[d] = c.due[d[1]][d[2]] /\ paid[d] = due[d] - left[d]
    OBVIOUS
  <2>3. due[d] \in Nat /\ left[d] \in Nat
    BY <1>1, <2>1, <2>2 DEF DebtsTyped
  <2>4. d \in C <=> d[2] \in Splittable /\ left[d] > 0
    BY <2>1, <2>2 DEF Components
  <2>5. d \in T <=> d[2] = "SECOND_ADVANCE" /\ left[d] > 0
    BY <2>1, <2>2 DEF Second
  <2>6. d[2] \in Splittable \/ d[2] = "SECOND_ADVANCE"
    BY <2>1 DEF Roles
  <2> QED BY <2>2, <2>3, <2>4, <2>5, <2>6
<1>6. \A d \in C : onC[d] = left[d] + added[d] /\ added[d] \in Nat
  <2> SUFFICES ASSUME NEW d \in C PROVE onC[d] = left[d] + added[d] /\ added[d] \in Nat
    OBVIOUS
  <2>1. d \in D /\ left[d] = c.due[d[1]][d[2]] /\ left[d] \in Nat /\ left[d] > 0
    BY <1>3, <1>5
  <2>2. Ample(left[d], q.start, q.n)
    BY <2>1 DEF AmplyLeft, Comp, Components
  <2>3. onC[d] = c.due[d[1]][d[2]] + AddedTo(c.due[d[1]][d[2]], q.start, q.n) /\ added[d] = AddedTo(c.due[d[1]][d[2]], q.start, q.n)
    OBVIOUS
  <2>4. PICK a \in Nat : a = left[d] /\ a > 0
    BY <2>1
  <2> DEFINE f == [i \in 1..q.n |-> InstallmentOf(a, q.start, q.n, i)]
  <2>5. \A i \in 1..q.n : f[i] = InstallmentOf(a, q.start, q.n, i)
    OBVIOUS
  <2> HIDE DEF f, onC, left, added
  <2>6. AddedTo(a, q.start, q.n) \in Nat
    <3>1. a \in Nat /\ a > 0 /\ Ample(a, q.start, q.n)
      BY <2>2, <2>4
    <3> QED BY <1>2, <2>5, <3>1, DebtComes
  <2>7. onC[d] = left[d] + AddedTo(left[d], q.start, q.n) /\ added[d] = AddedTo(left[d], q.start, q.n)
    BY ONLY <2>1, <2>3, Zenon
  <2> QED BY ONLY <2>4, <2>6, <2>7
<1>7. \A d \in T : onT[d] = left[d]
  BY <1>3
<1>8. /\ SplitTotal(q, c) = SumFunctionOnSet(onC, C) /\ SecondTotal(q, c) = SumFunctionOnSet(onT, T)
      /\ Owed(q) = SumFunctionOnSet(due, D) /\ Extra(q, c) = SumFunctionOnSet(added, C)
      /\ SumFunction(paid) = SumFunctionOnSet(paid, D)
  BY DEF SplitTotal, SecondTotal, Owed, Extra, SumFunction
<1>9. SumFunction(c.usages) = SumFunction(paid)
  BY <1>1 DEF Covers
<1> HIDE DEF D, C, T, due, left, paid, onC, added, onT
<1>10. SumFunctionOnSet(paid, D) = SumFunctionOnSet(due, D) - SumFunctionOnSet(left, D)
  <2>1. \A d \in D : due[d] \in Int /\ left[d] \in Int /\ paid[d] = due[d] - left[d]
    BY <1>5
  <2> QED BY <1>3, <2>1, SumMinus
<1>11. SumFunctionOnSet(left, D) = SumFunctionOnSet(left, C \cup T)
  <2>1. (\A d \in C \cup T : left[d] = left[d] /\ left[d] \in Int) /\ \A d \in D \ (C \cup T) : left[d] = 0
    BY <1>3, <1>5
  <2>2. C \cup T \subseteq D
    BY <1>3
  <2> QED BY <1>3, <2>1, <2>2, SumPart
<1>12. SumFunctionOnSet(left, C \cup T) = SumFunctionOnSet(left, C) + SumFunctionOnSet(left, T)
  <2>1. \A d \in C \cup T : left[d] \in Int
    BY <1>3, <1>5
  <2> QED BY <1>3, <2>1, SumUnion
<1>13. SumFunctionOnSet(onC, C) = SumFunctionOnSet(left, C) + SumFunctionOnSet(added, C)
  <2>1. \A d \in C : left[d] \in Int /\ added[d] \in Int /\ onC[d] = left[d] + added[d]
    BY <1>3, <1>5, <1>6
  <2> QED BY <1>3, <2>1, SumPlus
<1>14. SumFunctionOnSet(onT, T) = SumFunctionOnSet(left, T)
  BY <1>3, <1>7, SumSame
<1>15. /\ SumFunctionOnSet(left, C) \in Nat /\ SumFunctionOnSet(left, T) \in Nat /\ SumFunctionOnSet(added, C) \in Nat
       /\ SumFunctionOnSet(due, D) \in Nat /\ SumFunctionOnSet(left, D) \in Nat
  <2>1. /\ (\A d \in C : left[d] \in Nat /\ added[d] \in Nat) /\ (\A d \in T : left[d] \in Nat)
        /\ \A d \in D : due[d] \in Nat /\ left[d] \in Nat
    BY <1>3, <1>5, <1>6
  <2> QED BY <1>3, <2>1, SumIn
<1>16. SumFunction(c.usages) \in Nat
  <2>1. FormSound(FirstForm(q, c)) /\ DebitOf(FirstForm(q, c)) = SumFunction(c.usages)
    BY PlanSound
  <2> QED BY <2>1 DEF FormSound, FormComes
<1>17. PICK x \in Nat, y \in Nat, z \in Nat, t \in Nat : /\ x = SumFunctionOnSet(left, C) /\ y = SumFunctionOnSet(left, T)
                                                         /\ z = SumFunctionOnSet(added, C) /\ t = SumFunctionOnSet(due, D)
  BY <1>15
<1>18. SumFunction(c.usages) = t - (x + y) /\ SplitTotal(q, c) = x + z /\ SecondTotal(q, c) = y /\ Owed(q) = t /\ Extra(q, c) = z
  BY <1>8, <1>9, <1>10, <1>11, <1>12, <1>13, <1>14, <1>17
<1>19. t - (x + y) + ((x + z) + y) = t + z
  OBVIOUS
<1> QED
  BY <1>16, <1>18, <1>19

\* What a sequence of forms asks for.
DebitsOf(forms) == SumFunction([f \in DOMAIN forms |-> SumFunction([l \in forms[f].lines |-> l.debit])])

\* The forms of a plan are sound and in the order of their dates, and ask for the debts and what is added to them.
InDateOrder(forms) ==
  \A f, g \in DOMAIN forms : f < g /\ "SECOND_ADVANCE" \notin {forms[f].kind, forms[g].kind} => forms[f].date <= forms[g].date

LEMMA PlanComes ==
  ASSUME tie \in {0, 1}, NEW q, PlanAsked(q), AmplyLeft(q), NEW c, c = Comp(q)
  PROVE  /\ DebitsOf(compute(q)) = Owed(q) + Extra(q, c) /\ InDateOrder(compute(q))
         /\ \A f \in DOMAIN compute(q) : FormSound(compute(q)[f])
<1> DEFINE first == FirstForm(q, c)
           last  == LastForm(q, c)
           all   == SplitForms(q, c)
           C     == Components(q.scheme, c.due)
           A     == IF c.lines = {} THEN <<>> ELSE <<first>>
           X     == IF C = {} THEN <<>> ELSE all
           Z     == IF Second(q, c) = {} THEN <<>> ELSE <<last>>
           S     == {first, last} \cup {all[i] : i \in 1..q.n}
           V     == [x \in S |-> DebitOf(x)]
           forms == compute(q)
<1>1. forms = A \o (X \o Z)
  BY FormsAre
<1>2. q.start \in DOMAIN startOptions /\ q.n \in 1..MaxInstallments(q.start)
  BY DEF PlanAsked
<1>3. PICK m \in Nat : m = MaxInstallments(q.start)
  BY <1>2, DatesFollow DEF Calendar
<1>4. PICK n \in Nat \ {0} : n = q.n /\ n <= m
  BY <1>2, <1>3
<1>5. /\ FormSound(first) /\ (\A i \in 1..n : FormSound(all[i])) /\ FormSound(last)
      /\ DebitOf(first) = SumFunction(c.usages) /\ SplitAsks(q, c) /\ DebitOf(last) = SecondTotal(q, c)
  BY <1>4, PlanSound
<1>6. \A i \in 1..n : all[i].date = maxInstallmentDates(startOptions[q.start].date)[i] /\ all[i].kind # "SECOND_ADVANCE"
  BY <1>4 DEF SplitForms, f24Form
<1>7. first.date = startOptions[q.start].date /\ first.lines = c.lines /\ last.kind = "SECOND_ADVANCE"
      /\ last.lines = {line(d, c.due[d[1]][d[2]], 0) : d \in Second(q, c)}
  BY DEF FirstForm, LastForm, f24Form
<1>8. DOMAIN all = 1..n
  BY <1>4 DEF SplitForms
<1> HIDE DEF first, last, all, C
<1>9. \A x \in S : V[x] = DebitOf(x) /\ FormSound(x) /\ V[x] \in Int
  <2>1. \A x \in S : V[x] = DebitOf(x)
    OBVIOUS
  <2>2. \A x \in S : FormSound(x)
    BY <1>4, <1>5
  <2> HIDE DEF V, S
  <2>3. ASSUME NEW x \in S PROVE DebitOf(x) \in Nat
    BY <2>2, <2>3 DEF FormSound, FormComes, DebitOf
  <2> QED BY <2>1, <2>2, <2>3
<1>10. first \in S /\ last \in S /\ \A i \in 1..n : all[i] \in S
  BY <1>4
<1>11. A \in Seq(S) /\ X \in Seq(S) /\ Z \in Seq(S)
  <2>1. all \in [1..n -> S]
    <3>1. all = [i \in 1..n |-> all[i]]
      BY <1>4 DEF all, SplitForms
    <3> HIDE DEF S
    <3> QED BY <1>10, <3>1
  <2> HIDE DEF S
  <2>2. <<first>> \in Seq(S) /\ <<last>> \in Seq(S) /\ <<>> \in Seq(S) /\ all \in Seq(S)
    BY <1>10, <2>1
  <2> QED BY <2>2
<1> HIDE DEF S, V
<1>12. SumAlong(V, A) = SumFunction(c.usages)
  <2>1. CASE c.lines # {}
    <3>1. SumAlong(V, <<first>>) = V[first]
      BY <1>9, <1>10, SumAlongShort
    <3> QED BY <1>5, <1>9, <1>10, <2>1, <3>1
  <2>2. CASE c.lines = {}
    <3>1. DebitOf(first) = 0
      <4> DEFINE g == [l \in first.lines |-> l.debit]
      <4>1. DOMAIN g = {} /\ DebitOf(first) = SumFunctionOnSet(g, DOMAIN g)
        BY <1>7, <2>2 DEF DebitOf, SumFunction
      <4> QED BY <4>1, SumEmpty
    <3> QED BY <1>5, <2>2, <3>1, SumAlongShort
  <2> QED BY <2>1, <2>2
<1>13. SumAlong(V, X) = SplitTotal(q, c)
  <2>1. CASE C # {}
    <3> DEFINE v == [k \in DOMAIN all |-> V[all[k]]]
    <3>1. \A i \in 1..q.n : v[i] = DebitOf(all[i])
      BY <1>4, <1>8, <1>9, <1>10
    <3>2. DOMAIN v = 1..q.n
      BY <1>4, <1>8
    <3>3. SumAlong(V, all) = SumFunctionOnSet(v, 1..q.n)
      BY <3>2 DEF SumAlong, SumFunction
    <3> HIDE DEF v
    <3>4. SumFunctionOnSet(v, 1..q.n) = SplitTotal(q, c)
      BY <1>5, <3>1 DEF SplitAsks, all
    <3> QED BY <2>1, <3>3, <3>4
  <2>2. CASE C = {}
    <3>1. SplitTotal(q, c) = 0
      <4> DEFINE g == [d \in C |-> c.due[d[1]][d[2]] + AddedTo(c.due[d[1]][d[2]], q.start, q.n)]
      <4>1. DOMAIN g = {} /\ SplitTotal(q, c) = SumFunctionOnSet(g, DOMAIN g)
        BY <2>2 DEF SplitTotal, SumFunction, C
      <4> QED BY <4>1, SumEmpty
    <3> QED BY <2>2, <3>1, SumAlongShort
  <2> QED BY <2>1, <2>2
<1>14. SumAlong(V, Z) = SecondTotal(q, c)
  <2>1. CASE Second(q, c) # {}
    <3>1. SumAlong(V, <<last>>) = V[last]
      BY <1>9, <1>10, SumAlongShort
    <3> QED BY <1>5, <1>9, <1>10, <2>1, <3>1
  <2>2. CASE Second(q, c) = {}
    <3>1. SecondTotal(q, c) = 0
      <4> DEFINE g == [d \in Second(q, c) |-> c.due[d[1]][d[2]]]
      <4>1. DOMAIN g = {} /\ SecondTotal(q, c) = SumFunctionOnSet(g, DOMAIN g)
        BY <2>2 DEF SecondTotal, SumFunction
      <4> QED BY <4>1, SumEmpty
    <3> QED BY <2>2, <3>1, SumAlongShort
  <2> QED BY <2>1, <2>2
<1>15. PICK a \in {0, 1}, x \in Nat, z \in {0, 1} : /\ a = Len(A) /\ x = Len(X) /\ z = Len(Z) /\ (x = 0 \/ x = n)
                                                   /\ (a = 1 => A[1] = first) /\ (x > 0 => X = all) /\ (z = 1 => Z[1] = last)
  <2>1. Len(A) \in {0, 1} /\ (Len(A) = 1 => A[1] = first)
    OBVIOUS
  <2>2. Len(Z) \in {0, 1} /\ (Len(Z) = 1 => Z[1] = last)
    OBVIOUS
  <2>3. Len(all) = n
    <3>1. all = [i \in 1..n |-> all[i]]
      BY <1>4 DEF all, SplitForms
    <3> QED BY <3>1
  <2>4. Len(X) \in Nat /\ (Len(X) = 0 \/ Len(X) = n) /\ (Len(X) > 0 => X = all)
    BY <2>3
  <2> QED BY <2>1, <2>2, <2>4
<1> HIDE DEF A, X, Z, forms
<1>16. /\ forms \in Seq(S) /\ DOMAIN forms = 1..(a + x + z)
       /\ \A k \in 1..(a + x + z) : forms[k] = IF k <= a THEN A[k] ELSE IF k <= a + x THEN X[k - a] ELSE Z[k - (a + x)]
  <2>1. a \in Nat /\ x \in Nat /\ z \in Nat /\ a = Len(A) /\ x = Len(X) /\ z = Len(Z)
    BY <1>15
  <2>2. ThreeOf(S, A, X, Z, a, x, z)
    BY <1>11, <2>1 DEF ThreeOf
  <2>3. JoinOf(S, A \o (X \o Z), A, X, Z, a, x, z)
    BY ONLY <2>1, <2>2, ConcatThree
  <2>4. JoinOf(S, forms, A, X, Z, a, x, z)
    BY <1>1, <2>3
  <2> QED BY <2>4 DEF JoinOf
<1>17. \A k \in 1..(a + x + z) : /\ k <= a => forms[k] = first /\ k = 1
                                 /\ ~ (k <= a) /\ k <= a + x => forms[k] = all[k - a] /\ k - a \in 1..n /\ k - a \in 1..x
                                 /\ ~ (k <= a + x) => forms[k] = last
  <2> SUFFICES ASSUME NEW k \in 1..(a + x + z)
               PROVE  /\ k <= a => forms[k] = first /\ k = 1
                      /\ ~ (k <= a) /\ k <= a + x => forms[k] = all[k - a] /\ k - a \in 1..n /\ k - a \in 1..x
                      /\ ~ (k <= a + x) => forms[k] = last
    OBVIOUS
  <2>1. CASE k <= a
    <3>1. k = 1 /\ a = 1 /\ k <= a + x
      BY <1>15, <2>1
    <3> QED BY <1>15, <1>16, <2>1, <3>1
  <2>2. CASE ~ (k <= a) /\ k <= a + x
    <3>1. k - a \in 1..x /\ x > 0 /\ k - a \in 1..n
      BY <1>15, <2>2
    <3> QED BY <1>15, <1>16, <2>2, <3>1
  <2>3. CASE ~ (k <= a + x)
    <3>0. k \in Int /\ k <= a + x + z /\ a \in Nat /\ x \in Nat /\ z \in {0, 1} /\ ~ (k <= a + x)
      BY <2>3
    <3>1. k - (a + x) = 1 /\ z = 1 /\ ~ (k <= a)
      BY ONLY <3>0
    <3> QED BY <1>15, <1>16, <2>3, <3>1
  <2> QED BY <2>1, <2>2, <2>3
<1>18. \A f \in DOMAIN forms : FormSound(forms[f]) /\ forms[f] \in S
  BY <1>5, <1>10, <1>16, <1>17
<1>19. InDateOrder(forms)
  <2>1. /\ \A i \in 1..n : first.date <= all[i].date
        /\ \A i, j \in 1..n : i <= j => all[i].date <= all[j].date
    <3> DEFINE dates == maxInstallmentDates(startOptions[q.start].date)
               start == startOptions[q.start].date
    <3>0. Calendar(start, dates, m)
      BY <1>2, <1>3, DatesFollow
    <3>5. start = startOptions[q.start].date
      OBVIOUS
    <3>3. \A i \in 1..n : all[i].date = dates[i]
      BY <1>6
    <3> HIDE DEF dates, start
    <3>1. /\ dates[1] = startOptions[q.start].date
          /\ \A i, j \in 1..m : i <= j => dates[i] <= dates[j]
      BY <3>0, <3>5 DEF Calendar
    <3>2. \A i \in 1..n : i \in 1..m /\ 1 \in 1..m /\ 1 <= i
      BY <1>4
    <3>4. first.date = dates[1]
      BY <1>7, <3>1
    <3> QED BY <3>1, <3>2, <3>3, <3>4
  <2> SUFFICES ASSUME NEW f \in 1..(a + x + z), NEW g \in 1..(a + x + z), f < g, forms[f].kind # "SECOND_ADVANCE", forms[g].kind # "SECOND_ADVANCE"
               PROVE  forms[f].date <= forms[g].date
    BY <1>16 DEF InDateOrder
  <2>2. g <= a + x /\ f <= a + x
    BY <1>7, <1>15, <1>17
  <2>3. ~ (g <= a)
    BY <1>15, <1>17
  <2>4. forms[g] = all[g - a] /\ g - a \in 1..n
    BY <1>17, <2>2, <2>3
  <2>5. CASE f <= a
    BY <1>17, <2>1, <2>4, <2>5
  <2>6. CASE ~ (f <= a)
    <3>1. forms[f] = all[f - a] /\ f - a \in 1..n /\ f - a <= g - a
      BY <1>15, <1>17, <2>2, <2>6
    <3> QED BY <2>1, <2>4, <3>1
  <2> QED BY <2>5, <2>6
<1>20. DebitsOf(forms) = SumAlong(V, forms)
  <2>1. \A k \in DOMAIN forms : V[forms[k]] = SumFunction([l \in forms[k].lines |-> l.debit])
    BY <1>9, <1>18 DEF DebitOf
  <2>2. [k \in DOMAIN forms |-> V[forms[k]]] = [k \in DOMAIN forms |-> SumFunction([l \in forms[k].lines |-> l.debit])]
    BY <2>1
  <2> QED BY <2>2 DEF DebitsOf, SumAlong
<1>21. DebitsOf(forms) = SumFunction(c.usages) + (SplitTotal(q, c) + SecondTotal(q, c))
  <2>1. X \o Z \in Seq(S)
    BY <1>11, ConcatProperties
  <2>2. \A y \in S : V[y] \in Int
    BY <1>9
  <2>3. SumAlong(V, X \o Z) = SumAlong(V, X) + SumAlong(V, Z)
    BY <1>11, <2>2, SumAlongConcat
  <2> DEFINE Y == X \o Z
  <2>5. Y \in Seq(S) /\ A \in Seq(S)
    BY <1>11, <2>1
  <2> HIDE DEF Y
  <2>4. SumAlong(V, A \o Y) = SumAlong(V, A) + SumAlong(V, Y)
    BY ONLY <2>2, <2>5, SumAlongConcat
  <2> QED BY <1>1, <1>12, <1>13, <1>14, <1>20, <2>3, <2>4 DEF Y
<1> QED
  BY <1>18, <1>19, <1>21, PlanAddsUp DEF forms

\* A plan keeps its promise whenever what the credits leave of each debt is nothing or can be split into its
\* installments: the forms pay every debt to the cent, ask for the debts, their surcharge and their interest and for
\* nothing else, in rows that pay something, in the order of their dates (f24-schedule.ts, f24-schedule-builder.ts).
THEOREM ScheduleKept ==
  ASSUME tie \in {0, 1}, NEW q, PlanAsked(q), AmplyLeft(q)
  PROVE  ScheduleExactFor(q)
<1> DEFINE c     == Comp(q)
           forms == compute(q)
           D     == sections(q.scheme) \X Roles
           left  == [d \in D |-> c.due[d[1]][d[2]]]
           split == Components(q.scheme, c.due)
<1>1. Covers(c, q.scheme, q.due, q.credits, q.order) /\ DebtsTyped(c.due)
  BY LeftTyped
<1>2. /\ DebitsOf(forms) = Owed(q) + Extra(q, c) /\ InDateOrder(forms)
      /\ \A f \in DOMAIN forms : FormSound(forms[f])
  BY PlanComes
<1>3. q.start \in DOMAIN startOptions /\ q.n \in Nat \ {0} /\ (\A s \in Sections, r \in Roles : q.due[s][r] \in Nat) /\ q.credits \in Seq(Nat)
  BY DatesFollow DEF PlanAsked, DebtsTyped, Calendar
<1>4. \A d \in D : PaidFor(forms, d) = q.due[d[1]][d[2]]
  <2> SUFFICES ASSUME NEW d \in D PROVE PaidFor(forms, d) = q.due[d[1]][d[2]]
    OBVIOUS
  <2>1. d \in Sections \X Roles /\ d[1] \in sections(q.scheme) /\ d[2] \in Roles
    BY DEF sections, Sections
  <2>2. d[2] = "SECOND_ADVANCE" \/ SpreadsOver(Surcharge(c.due[d[1]][d[2]], q.start), q.n)
    <3>1. CASE d[2] = "SECOND_ADVANCE"
      BY <3>1
    <3>2. CASE d[2] # "SECOND_ADVANCE"
      <4>1. d \in sections(q.scheme) \X Splittable
        BY <2>1, <3>2 DEF Roles, Splittable
      <4>2. Ample(c.due[d[1]][d[2]], q.start, q.n)
        BY <4>1 DEF AmplyLeft, Comp
      <4>3. c.due[d[1]][d[2]] = 0 => Surcharge(c.due[d[1]][d[2]], q.start) = 0
        <5>1. \A s \in Int : 0 * s = 0
          OBVIOUS
        <5>2. startOptions[q.start].surcharge \in Int
          BY <1>3 DEF startOptions
        <5>3. Round(0, 10000) = 0
          BY DEF Round
        <5> QED BY <5>1, <5>2, <5>3 DEF Surcharge
      <4> QED BY <4>2, <4>3 DEF Ample, SpreadsOver
    <3> QED BY <3>1, <3>2
  <2> QED BY <1>3, <2>1, <2>2, DebtsPaid DEF Comp
<1>5. \A k \in DOMAIN q.credits : c.usages[k] \in 0..q.credits[k]
  BY <1>1 DEF Covers
<1>6. /\ SumFunction(c.usages) = SumFunction([l \in c.lines |-> l.debit])
      /\ split # {} => SumFunction(c.usages) = SumFunction(q.credits)
  BY <1>1 DEF Covers, Components
<1>7. /\ \A f \in DOMAIN forms : \A l \in forms[f].lines : l.debit > 0 /\ l.surcharge \in 0..l.debit
      /\ \A f \in DOMAIN forms : forms[f].date <= 1216 /\ forms[f].date \notin 801..819
  <2> SUFFICES ASSUME NEW f \in DOMAIN forms
               PROVE  /\ \A l \in forms[f].lines : l.debit > 0 /\ l.surcharge \in 0..l.debit
                      /\ forms[f].date <= 1216 /\ forms[f].date \notin 801..819
    OBVIOUS
  <2> DEFINE F == forms[f]
  <2>1. FormSound(F)
    BY <1>2
  <2> HIDE DEF F
  <2>2. (\A l \in F.lines : l.debit > 0 /\ l.surcharge \in 0..l.debit) /\ F.date <= 1216 /\ F.date \notin 801..819
    BY <2>1 DEF FormSound, FormComes
  <2> QED BY <2>2 DEF F
<1>8. /\ SumFunction([f \in DOMAIN forms |-> SumFunction([l \in forms[f].lines |-> l.debit])])
           = SumFunction([d \in D |-> q.due[d[1]][d[2]]])
               + SumFunction([d \in split |-> Surcharge(c.due[d[1]][d[2]], q.start)
                   + SumFunction([i \in 1..q.n |-> buildInstallmentPlan(c.due[d[1]][d[2]] + Surcharge(c.due[d[1]][d[2]], q.start),
                                                                        startOptions[q.start].date, q.n)[i].interest])])
      /\ \A f, g \in DOMAIN forms : f < g /\ "SECOND_ADVANCE" \notin {forms[f].kind, forms[g].kind} => forms[f].date <= forms[g].date
  BY <1>2 DEF DebitsOf, Owed, Extra, AddedTo, InDateOrder
<1>9. split = {d \in sections(q.scheme) \X Splittable : c.due[d[1]][d[2]] > 0}
  BY DEF Components
<1> HIDE DEF c, forms, split
<1>10. Exact(q, forms, c)
  BY <1>4, <1>5, <1>6, <1>7, <1>8, <1>9, ZenonT(60) DEF Exact
<1> QED
  BY <1>10 DEF ScheduleExactFor, c, forms, Comp

-----------------------------------------------------------------------------
(* The plans of the instance *)

\* The sum over one element, over two and over three.
LEMMA SumSingle ==
  ASSUME NEW f, NEW a, f[a] \in Int
  PROVE  SumFunctionOnSet(f, {a}) = f[a]
<1>1. IsFiniteSet({a}) /\ a \in {a} /\ \A x \in {a} \ {a} : f[x] = 0
  BY FS_Singleton
<1> QED
  BY <1>1, SumOne

LEMMA SumTwo ==
  ASSUME NEW f, NEW a, NEW b, a # b, f[a] \in Int, f[b] \in Int
  PROVE  SumFunctionOnSet(f, {a, b}) = f[a] + f[b]
<1>1. SumFunctionOnSet(f, {a} \cup {b}) = f[b] + SumFunctionOnSet(f, {a}) /\ {a} \cup {b} = {a, b}
  <2>1. IsFiniteSet({a}) /\ b \notin {a} /\ \A y \in {a} \cup {b} : f[y] \in Int
    BY FS_Singleton
  <2> QED BY <2>1, SumAdd
<1>2. SumFunctionOnSet(f, {a}) = f[a]
  BY SumSingle
<1>3. PICK x \in Int, y \in Int : x = f[a] /\ y = f[b]
  OBVIOUS
<1>4. y + x = x + y
  OBVIOUS
<1> QED
  BY <1>1, <1>2, <1>3, <1>4

LEMMA SumThree ==
  ASSUME NEW f, NEW a, NEW b, NEW c, a # b, a # c, b # c, f[a] \in Int, f[b] \in Int, f[c] \in Int
  PROVE  SumFunctionOnSet(f, {a, b, c}) = f[a] + f[b] + f[c] /\ IsFiniteSet({a, b, c})
<1>1. IsFiniteSet({a}) /\ IsFiniteSet({a, b}) /\ IsFiniteSet({a, b, c})
  <2>1. {a} = {} \cup {a} /\ {a, b} = {a} \cup {b} /\ {a, b, c} = {a, b} \cup {c}
    OBVIOUS
  <2> QED BY ONLY <2>1, FS_EmptySet, FS_AddElement
<1>2. SumFunctionOnSet(f, {a}) = f[a]
  BY SumSingle
<1>3. SumFunctionOnSet(f, {a} \cup {b}) = f[b] + SumFunctionOnSet(f, {a})
  BY <1>1, SumAdd
<1>4. SumFunctionOnSet(f, {a, b} \cup {c}) = f[c] + SumFunctionOnSet(f, {a, b})
  BY <1>1, SumAdd
<1>5. {a} \cup {b} = {a, b} /\ {a, b} \cup {c} = {a, b, c}
  OBVIOUS
<1>6. PICK x \in Int, y \in Int, z \in Int : x = f[a] /\ y = f[b] /\ z = f[c]
  OBVIOUS
<1>7. SumFunctionOnSet(f, {a}) = x /\ SumFunctionOnSet(f, {a, b}) = y + x /\ SumFunctionOnSet(f, {a, b, c}) = z + (y + x)
  BY <1>2, <1>3, <1>4, <1>5, <1>6
<1>8. z + (y + x) = x + y + z
  OBVIOUS
<1> QED
  BY <1>1, <1>6, <1>7, <1>8

\* What the credits cover of the debts of a section.
CoveredOf(c, due, s) ==
  (due[s]["BALANCE"] - c.due[s]["BALANCE"]) + (due[s]["FIRST_ADVANCE"] - c.due[s]["FIRST_ADVANCE"])

\* The credits are used for the balances and the first advances of the sections.
LEMMA UsedFor ==
  ASSUME NEW c, NEW scheme, NEW due, NEW credits, NEW order, DebtsTyped(due), Covers(c, scheme, due, credits, order)
  PROVE  /\ sections(scheme) = {"TREASURY"} => SumFunction(c.usages) = CoveredOf(c, due, "TREASURY")
         /\ sections(scheme) = {"TREASURY", "INPS"} => SumFunction(c.usages) = CoveredOf(c, due, "TREASURY") + CoveredOf(c, due, "INPS")
<1> DEFINE D == sections(scheme) \X Roles
           g == [d \in D |-> due[d[1]][d[2]] - c.due[d[1]][d[2]]]
           R(s) == {<<s, "BALANCE">>, <<s, "FIRST_ADVANCE">>, <<s, "SECOND_ADVANCE">>}
<1>1. SumFunction(c.usages) = SumFunctionOnSet(g, D)
  BY DEF Covers, SumFunction
<1>2. \A s \in Sections, r \in Roles : due[s][r] \in Int /\ c.due[s][r] \in Int
  <2> SUFFICES ASSUME NEW s \in Sections, NEW r \in Roles PROVE due[s][r] \in Int /\ c.due[s][r] \in Int
    OBVIOUS
  <2>1. <<s, r>> \in Sections \X Roles /\ <<s, r>>[1] = s /\ <<s, r>>[2] = r
    OBVIOUS
  <2>2. c.due[s][r] \in 0..due[s][r]
    BY <2>1 DEF Covers
  <2>3. due[s][r] \in Nat
    BY DEF DebtsTyped
  <2> QED BY <2>2, <2>3
<1>3. ASSUME NEW s \in sections(scheme)
      PROVE  SumFunctionOnSet(g, R(s)) = CoveredOf(c, due, s) /\ IsFiniteSet(R(s)) /\ CoveredOf(c, due, s) \in Int
  <2>1. s \in Sections
    BY DEF sections, Sections
  <2>2. \A r \in Roles : <<s, r>> \in D /\ g[<<s, r>>] = due[s][r] - c.due[s][r]
    OBVIOUS
  <2>3. c.due[s]["SECOND_ADVANCE"] = due[s]["SECOND_ADVANCE"]
    BY <2>1 DEF Covers
  <2> HIDE DEF g, D
  <2>4. /\ g[<<s, "BALANCE">>] = due[s]["BALANCE"] - c.due[s]["BALANCE"] /\ g[<<s, "BALANCE">>] \in Int
        /\ g[<<s, "FIRST_ADVANCE">>] = due[s]["FIRST_ADVANCE"] - c.due[s]["FIRST_ADVANCE"] /\ g[<<s, "FIRST_ADVANCE">>] \in Int
        /\ g[<<s, "SECOND_ADVANCE">>] = 0
    <3>1. "BALANCE" \in Roles /\ "FIRST_ADVANCE" \in Roles /\ "SECOND_ADVANCE" \in Roles
      BY DEF Roles, Splittable
    <3>2. \A r \in Roles : g[<<s, r>>] = due[s][r] - c.due[s][r] /\ due[s][r] \in Int /\ c.due[s][r] \in Int
      BY <1>2, <2>1, <2>2
    <3> QED BY <2>3, <3>1, <3>2
  <2>5. <<s, "BALANCE">> # <<s, "FIRST_ADVANCE">> /\ <<s, "BALANCE">> # <<s, "SECOND_ADVANCE">> /\ <<s, "FIRST_ADVANCE">> # <<s, "SECOND_ADVANCE">>
    OBVIOUS
  <2>6. /\ SumFunctionOnSet(g, R(s)) = g[<<s, "BALANCE">>] + g[<<s, "FIRST_ADVANCE">>] + g[<<s, "SECOND_ADVANCE">>]
        /\ IsFiniteSet(R(s))
    <3>1. g[<<s, "BALANCE">>] \in Int /\ g[<<s, "FIRST_ADVANCE">>] \in Int /\ g[<<s, "SECOND_ADVANCE">>] \in Int
      BY <2>4
    <3> QED BY <2>5, <3>1, SumThree
  <2> QED BY <2>4, <2>6 DEF CoveredOf
<1>4. CASE sections(scheme) = {"TREASURY"}
  <2>1. D = R("TREASURY")
    <3>1. \A d \in D : d \in R("TREASURY")
      BY <1>4 DEF Roles, Splittable
    <3>2. R("TREASURY") \subseteq D
      BY <1>4 DEF Roles, Splittable
    <3> QED BY <3>1, <3>2
  <2> HIDE DEF g, D, R
  <2> QED BY <1>1, <1>3, <1>4, <2>1
<1>5. CASE sections(scheme) = {"TREASURY", "INPS"}
  <2>1. D = R("TREASURY") \cup R("INPS") /\ R("TREASURY") \cap R("INPS") = {}
    <3>1. \A d \in D : d \in R("TREASURY") \/ d \in R("INPS")
      BY <1>5 DEF Roles, Splittable
    <3>2. R("TREASURY") \subseteq D /\ R("INPS") \subseteq D
      BY <1>5 DEF Roles, Splittable
    <3>3. \A x \in R("TREASURY"), y \in R("INPS") : x[1] # y[1]
      OBVIOUS
    <3> HIDE DEF R, D
    <3> QED BY <3>1, <3>2, <3>3
  <2>2. \A d \in R("TREASURY") \cup R("INPS") : g[d] \in Int
    <3>1. \A d \in D : d[1] \in Sections /\ d[2] \in Roles
      BY DEF sections, Sections
    <3>2. \A d \in D : g[d] = due[d[1]][d[2]] - c.due[d[1]][d[2]]
      OBVIOUS
    <3> HIDE DEF g, D, R
    <3> QED BY <1>2, <2>1, <3>1, <3>2
  <2> HIDE DEF g, D, R
  <2>3. SumFunctionOnSet(g, R("TREASURY") \cup R("INPS")) = SumFunctionOnSet(g, R("TREASURY")) + SumFunctionOnSet(g, R("INPS"))
    BY <1>3, <1>5, <2>1, <2>2, SumUnion
  <2> QED BY <1>1, <1>3, <1>5, <2>1, <2>3
<1> QED
  BY <1>4, <1>5

\* The debts that credits may cover, in the order they are covered.
LEMMA OrderIs ==
  ASSUME NEW scheme, NEW order
  PROVE  LET debts == DebtsInOrder(scheme, order)
             other == IF order = "TAX_FIRST" THEN "INPS" ELSE "TREASURY"
             one   == IF order = "TAX_FIRST" THEN "TREASURY" ELSE "INPS"
         IN  /\ sections(scheme) = {"TREASURY"} =>
                  DOMAIN debts = 1..2 /\ debts[1] = <<"TREASURY", "BALANCE">> /\ debts[2] = <<"TREASURY", "FIRST_ADVANCE">>
             /\ sections(scheme) = {"TREASURY", "INPS"} =>
                  /\ DOMAIN debts = 1..4 /\ debts[1] = <<one, "BALANCE">> /\ debts[2] = <<one, "FIRST_ADVANCE">>
                  /\ debts[3] = <<other, "BALANCE">> /\ debts[4] = <<other, "FIRST_ADVANCE">>
<1> DEFINE P(s) == <<<<s, "BALANCE">>, <<s, "FIRST_ADVANCE">>>>
           T    == Sections \X Splittable
<1>1. P("TREASURY") \in Seq(T) /\ P("INPS") \in Seq(T) /\ <<>> \in Seq(T) /\ Len(P("TREASURY")) = 2 /\ Len(P("INPS")) = 2
  BY DEF Sections, Splittable
<1>2. \A s : P(s)[1] = <<s, "BALANCE">> /\ P(s)[2] = <<s, "FIRST_ADVANCE">> /\ DOMAIN P(s) = 1..2
  OBVIOUS
<1>3. CASE sections(scheme) = {"TREASURY"}
  <2>1. DebtsInOrder(scheme, order) = P("TREASURY")
    <3>1. P("TREASURY") \o <<>> = P("TREASURY") /\ <<>> \o P("TREASURY") = P("TREASURY")
      BY <1>1, ConcatEmptySeq
    <3> HIDE DEF P
    <3>2. DebtsInOrder(scheme, order) \in {P("TREASURY") \o <<>>, <<>> \o P("TREASURY")}
      BY <1>3 DEF DebtsInOrder, P
    <3> QED BY <3>1, <3>2
  <2> HIDE DEF P
  <2> QED BY <1>2, <1>3, <2>1
<1>4. CASE sections(scheme) = {"TREASURY", "INPS"} /\ order = "TAX_FIRST"
  <2>1. DebtsInOrder(scheme, order) = P("TREASURY") \o P("INPS")
    BY <1>4 DEF DebtsInOrder
  <2> HIDE DEF P, T
  <2>2. LET x == P("TREASURY") \o P("INPS")
        IN  DOMAIN x = 1..4 /\ x[1] = P("TREASURY")[1] /\ x[2] = P("TREASURY")[2] /\ x[3] = P("INPS")[1] /\ x[4] = P("INPS")[2]
    BY <1>1, ConcatTwo
  <2> QED BY <1>2, <1>4, <2>1, <2>2
<1>5. CASE sections(scheme) = {"TREASURY", "INPS"} /\ order # "TAX_FIRST"
  <2>1. DebtsInOrder(scheme, order) = P("INPS") \o P("TREASURY")
    BY <1>5 DEF DebtsInOrder
  <2> HIDE DEF P, T
  <2>2. LET x == P("INPS") \o P("TREASURY")
        IN  DOMAIN x = 1..4 /\ x[1] = P("INPS")[1] /\ x[2] = P("INPS")[2] /\ x[3] = P("TREASURY")[1] /\ x[4] = P("TREASURY")[2]
    BY <1>1, ConcatTwo
  <2> QED BY <1>2, <1>5, <2>1, <2>2
<1>6. {"TREASURY", "INPS"} # {"TREASURY"}
  OBVIOUS
<1> QED
  BY <1>3, <1>4, <1>5, <1>6

\* What the credits k leave, x and y, of two debts, b and f, covered in this order; and of four.
TwoInOrder(b, f, k, x, y) ==
  x \in 0..b /\ y \in 0..f /\ (x > 0 => y = f) /\ (x > 0 \/ y > 0 => (b - x) + (f - y) = k)
FourInOrder(b, f, c, g, k, x, y, z, w) ==
  /\ x \in 0..b /\ y \in 0..f /\ z \in 0..c /\ w \in 0..g
  /\ (x > 0 => y = f /\ z = c /\ w = g) /\ (y > 0 => z = c /\ w = g) /\ (z > 0 => w = g)
  /\ x > 0 \/ y > 0 \/ z > 0 \/ w > 0 => (b - x) + (f - y) + ((c - z) + (g - w)) = k

\* The debts of the cases, of the tax and of the contributions.
TaxAndInps(b, f, c, g) ==
  \/ b \in {0, 31200} /\ f \in {0, 100001} /\ c \in {0, 5033} /\ g \in {0, 33333}
  \/ b \in {0, 5033} /\ f \in {0, 33333} /\ c \in {0, 31200} /\ g \in {0, 100001}

\* What is left is nothing, or an amount that can be split.
Large(x) == x = 0 \/ x >= 5033

\* Two debts, the first of which is covered first.
LEMMA TwoLeft ==
  ASSUME NEW b \in {0, 31200}, NEW f \in {0, 100001}, NEW k \in {0, 40000, 312345}, NEW x, NEW y, TwoInOrder(b, f, k, x, y)
  PROVE  Large(x) /\ Large(y)
<1> USE DEF TwoInOrder, Large
<1>1. b \in Int /\ f \in Int /\ k \in Int /\ x \in Int /\ y \in Int /\ 0 <= x /\ x <= b /\ 0 <= y /\ y <= f
  OBVIOUS
<1>2. (b = 0 \/ b = 31200) /\ (f = 0 \/ f = 100001) /\ (k = 0 \/ k = 40000 \/ k = 312345)
  OBVIOUS
<1> QED
  BY <1>1, <1>2

\* Four debts, of the two sections.
LEMMA FourLeft ==
  ASSUME NEW b \in Nat, NEW f \in Nat, NEW c \in Nat, NEW g \in Nat, NEW k \in {0, 40000, 312345}, TaxAndInps(b, f, c, g),
         NEW x, NEW y, NEW z, NEW w, FourInOrder(b, f, c, g, k, x, y, z, w)
  PROVE  Large(x) /\ Large(y) /\ Large(z) /\ Large(w)
<1> USE DEF FourInOrder, TaxAndInps, Large
<1>1. /\ b \in Int /\ f \in Int /\ c \in Int /\ g \in Int /\ k \in Int /\ x \in Int /\ y \in Int /\ z \in Int /\ w \in Int
      /\ 0 <= x /\ x <= b /\ 0 <= y /\ y <= f /\ 0 <= z /\ z <= c /\ 0 <= w /\ w <= g
  OBVIOUS
<1>2. k = 0 \/ k = 40000 \/ k = 312345
  OBVIOUS
<1>3. CASE b \in {0, 31200} /\ f \in {0, 100001} /\ c \in {0, 5033} /\ g \in {0, 33333}
  <2>1. (b = 0 \/ b = 31200) /\ (f = 0 \/ f = 100001) /\ (c = 0 \/ c = 5033) /\ (g = 0 \/ g = 33333)
    BY <1>3
  <2> QED BY <1>1, <1>2, <2>1
<1>4. CASE b \in {0, 5033} /\ f \in {0, 33333} /\ c \in {0, 31200} /\ g \in {0, 100001}
  <2>1. (b = 0 \/ b = 5033) /\ (f = 0 \/ f = 33333) /\ (c = 0 \/ c = 31200) /\ (g = 0 \/ g = 100001)
    BY <1>4
  <2> QED BY <1>1, <1>2, <2>1
<1> QED
  BY <1>3, <1>4

\* An amount of at least 50.33 euros can be split into the installments of any plan.
LEMMA LargeIsAmple ==
  ASSUME tie \in {0, 1}, NEW start \in DOMAIN startOptions, NEW n \in 1..MaxInstallments(start), NEW a \in Nat, Large(a)
  PROVE  Ample(a, start, n)
<1>1. CASE a = 0
  BY <1>1 DEF Ample
<1>2. CASE a >= 5033
  <2>1. PICK m \in Nat, first \in Nat, r \in Nat : /\ m = MaxInstallments(start) /\ first = startOptions[start].date /\ r = startOptions[start].surcharge
                                                   /\ m \in 5..7 /\ first \in 100 * (13 - m)..100 * (13 - m) + 30
    <3>1. startOptions[start].date \in Nat /\ startOptions[start].surcharge \in Nat
      BY DEF startOptions
    <3>2. PICK m \in Nat, first \in Nat : m = MaxInstallments(start) /\ first = startOptions[start].date
      BY <3>1, DatesFollow DEF Calendar
    <3>3. \E dates : Calendar(first, dates, m)
      BY <3>2, DatesFollow
    <3>4. m \in 5..7 /\ first \in 100 * (13 - m)..100 * (13 - m) + 30
      BY <3>3 DEF Calendar
    <3> QED BY <3>1, <3>2, <3>4
  <2>2. (first \in {630, 720, 730} /\ r = 0) \/ (first = 730 /\ r = 40) \/ (first = 820 /\ r = 80)
    BY <2>1 DEF startOptions
  <2>3. (m = 7 /\ r = 0) \/ (m = 6 /\ r \in {0, 40}) \/ (m = 5 /\ r = 80)
    BY <2>1, <2>2
  <2>4. n \in Nat /\ 1 <= n /\ n <= m /\ n <= 7
    BY <2>1, <2>3
  <2>5. n = 1 \/ n = 2 \/ n = 3 \/ n = 4 \/ n = 5 \/ n = 6 \/ n = 7
    BY <2>4
  <2>6. n * (n - 1) <= 42 /\ (n <= 6 => (n - 1) * (n - 2) <= 20) /\ (n <= 5 => (n - 1) * (n - 2) <= 12)
    BY <2>5
  <2>7. SpreadsOver(Surcharge(a, start), n)
    <3>1. Surcharge(a, start) = Round(a * r, 10000)
      BY <2>1 DEF Surcharge
    <3>2. CASE r = 0
      <4>1. a * 0 = 0 /\ Round(0, 10000) = 0
        BY DEF Round
      <4> QED BY <3>1, <3>2, <4>1 DEF SpreadsOver
    <3>3. CASE r = 40 \/ r = 80
      <4>1. PICK s \in Int : s = Round(a * r, 10000) /\ 2 * (a * r) + 10000 - (1 - tie) < 2 * (10000 * s) + 20000
        <5>1. PICK p \in Int : p = a * r
          OBVIOUS
        <5>2. PICK t \in Nat \ {0} : t = 10000
          OBVIOUS
        <5>3. Round(p, t) \in Int /\ 2 * p + t - (1 - tie) < 2 * (t * Round(p, t)) + 2 * t
          BY RoundBetween
        <5>4. PICK q \in Int : q = Round(p, t)
          BY <5>3
        <5>5. t * q = 10000 * q
          BY <5>2
        <5> QED BY <5>1, <5>2, <5>3, <5>4, <5>5
      <4>2. (r = 40 => s >= 20) /\ (r = 80 => s >= 40)
        <5>1. r = 40 => a * r = 40 * a
          OBVIOUS
        <5>2. r = 80 => a * r = 80 * a
          OBVIOUS
        <5> QED BY <1>2, <4>1, <5>1, <5>2
      <4>3. PICK u \in Int : u = (n - 1) * (n - 2)
        OBVIOUS
      <4>4. s >= u
        BY <2>3, <2>4, <2>6, <3>3, <4>2, <4>3
      <4> QED BY <3>1, <4>1, <4>3, <4>4 DEF SpreadsOver
    <3> QED BY <2>3, <3>2, <3>3
  <2> QED BY <1>2, <2>6, <2>7 DEF Ample
<1> QED
  BY <1>1, <1>2 DEF Large

\* What the debts of a plan and the credits of the cases are.
LEMMA CasesAsk ==
  ASSUME NEW start \in DOMAIN startOptions, NEW q \in ScheduleCases(start)
  PROVE  /\ PlanAsked(q) /\ q.start = start
         /\ q.scheme \in {"INPS_SEPARATE", "PROFESSIONAL_FUND"}
         /\ q.due["TREASURY"]["BALANCE"] \in {0, 31200} /\ q.due["TREASURY"]["FIRST_ADVANCE"] \in {0, 100001}
         /\ q.due["INPS"]["BALANCE"] \in {0, 5033} /\ q.due["INPS"]["FIRST_ADVANCE"] \in {0, 33333}
         /\ SumFunction(q.credits) \in {0, 40000, 312345}
<1> DEFINE schemes == {"INPS_SEPARATE", "PROFESSIONAL_FUND"}
           orders  == {"TAX_FIRST", "INPS_FIRST"}
           credits == {<<>>, <<40000>>, <<12345, 300000>>}
           topics  == {"schedule"}
           starts  == {start}
           counts  == 1..MaxInstallments(start)
           dues    == Dues
<1>1. ScheduleCases(start) = [topic : topics, scheme : schemes, start : starts, n : counts, order : orders, credits : credits, due : dues]
  BY DEF ScheduleCases
<1> HIDE DEF schemes, orders, credits, topics, starts, counts, dues
<1>2. q.scheme \in schemes /\ q.start \in starts /\ q.n \in counts /\ q.credits \in credits /\ q.due \in dues
  BY <1>1
<1> USE DEF schemes, starts, counts, credits, dues
<1>3. PICK t \in {0, 31200}, a \in {0, 100001}, c \in {0, 5033}, f \in {0, 33333} :
        q.due = [TREASURY |-> [BALANCE |-> t, FIRST_ADVANCE |-> a, SECOND_ADVANCE |-> a],
                 INPS     |-> [BALANCE |-> c, FIRST_ADVANCE |-> f, SECOND_ADVANCE |-> f]]
  BY <1>2 DEF Dues
<1>4. /\ q.due["TREASURY"]["BALANCE"] = t /\ q.due["TREASURY"]["FIRST_ADVANCE"] = a /\ q.due["TREASURY"]["SECOND_ADVANCE"] = a
      /\ q.due["INPS"]["BALANCE"] = c /\ q.due["INPS"]["FIRST_ADVANCE"] = f /\ q.due["INPS"]["SECOND_ADVANCE"] = f
  BY <1>3
<1>5. DebtsTyped(q.due)
  <2>1. t \in Nat /\ a \in Nat /\ c \in Nat /\ f \in Nat
    OBVIOUS
  <2> QED BY <1>4, <2>1 DEF DebtsTyped, Sections, Roles, Splittable
<1>6. q.credits \in Seq(Nat) /\ SumFunction(q.credits) \in {0, 40000, 312345}
  <2>0. PICK v : v = q.credits
    OBVIOUS
  <2>1. CASE v = <<>>
    <3>1. DOMAIN v = {} /\ v \in Seq(Nat)
      BY <2>1
    <3> QED BY <2>0, <3>1, SumEmpty DEF SumFunction
  <2>2. CASE v = <<40000>>
    <3>1. v \in Seq(Nat) /\ DOMAIN v = {1} /\ v[1] = 40000
      BY <2>2
    <3>2. SumFunctionOnSet(v, {1}) = 40000
      BY <3>1, SumSingle
    <3> QED BY <2>0, <3>1, <3>2 DEF SumFunction
  <2>3. CASE v = <<12345, 300000>>
    <3>1. DOMAIN v = {1, 2} /\ v[1] = 12345 /\ v[2] = 300000
      BY <2>3
    <3>2. v \in Seq(Nat)
      BY <2>3
    <3>3. SumFunctionOnSet(v, {1, 2}) = 312345
      <4>1. PICK i, j : i = 1 /\ j = 2
        OBVIOUS
      <4>2. v[i] \in Int /\ v[j] \in Int /\ i # j /\ v[i] = 12345 /\ v[j] = 300000
        BY <3>1, <4>1
      <4>3. SumFunctionOnSet(v, {i, j}) = v[i] + v[j]
        BY ONLY <4>2, SumTwo, SMTT(30)
      <4>4. SumFunctionOnSet(v, {i, j}) = 312345
        BY ONLY <4>2, <4>3
      <4> QED BY ONLY <4>1, <4>4
    <3>4. SumFunction(v) = SumFunctionOnSet(v, {1, 2})
      BY <3>1 DEF SumFunction
    <3> QED BY ONLY <2>0, <3>2, <3>3, <3>4
  <2> QED BY <1>2, <2>0, <2>1, <2>2, <2>3
<1> QED
  BY <1>2, <1>4, <1>5, <1>6 DEF PlanAsked

\* What the credits leave of the debts of the cases is nothing or can be split.
LEMMA CasesLeave ==
  ASSUME tie \in {0, 1}, NEW start \in DOMAIN startOptions, NEW q \in ScheduleCases(start)
  PROVE  AmplyLeft(q)
<1> DEFINE c == Comp(q)
<1>1. /\ PlanAsked(q) /\ q.start = start
      /\ q.scheme \in {"INPS_SEPARATE", "PROFESSIONAL_FUND"}
      /\ q.due["TREASURY"]["BALANCE"] \in {0, 31200} /\ q.due["TREASURY"]["FIRST_ADVANCE"] \in {0, 100001}
      /\ q.due["INPS"]["BALANCE"] \in {0, 5033} /\ q.due["INPS"]["FIRST_ADVANCE"] \in {0, 33333}
      /\ SumFunction(q.credits) \in {0, 40000, 312345}
  BY CasesAsk
<1>2. Covers(c, q.scheme, q.due, q.credits, q.order) /\ DebtsTyped(c.due) /\ DebtsTyped(q.due)
  BY <1>1, LeftTyped DEF PlanAsked
<1> HIDE DEF c
<1>3. \A s \in Sections, r \in Splittable : c.due[s][r] \in 0..q.due[s][r] /\ c.due[s][r] \in Nat
  <2> SUFFICES ASSUME NEW s \in Sections, NEW r \in Splittable PROVE c.due[s][r] \in 0..q.due[s][r] /\ c.due[s][r] \in Nat
    OBVIOUS
  <2>1. <<s, r>> \in Sections \X Roles /\ <<s, r>>[1] = s /\ <<s, r>>[2] = r /\ r \in Roles
    BY DEF Roles
  <2> QED BY <1>2, <2>1 DEF Covers, DebtsTyped
<1>4. \A s \in sections(q.scheme), r \in Splittable : c.due[s][r] > 0 => SumFunction(c.usages) = SumFunction(q.credits)
  <2> SUFFICES ASSUME NEW s \in sections(q.scheme), NEW r \in Splittable, c.due[s][r] > 0 PROVE SumFunction(c.usages) = SumFunction(q.credits)
    OBVIOUS
  <2>1. <<s, r>> \in sections(q.scheme) \X Splittable /\ <<s, r>>[1] = s /\ <<s, r>>[2] = r
    OBVIOUS
  <2> QED BY <1>2, <2>1 DEF Covers
<1>5. sections(q.scheme) = {"TREASURY"} \/ sections(q.scheme) = {"TREASURY", "INPS"}
  BY DEF sections
<1>6. InOrder(c, q.due, DebtsInOrder(q.scheme, q.order))
  BY <1>2 DEF Covers
<1>7. \A s \in sections(q.scheme), r \in Splittable : Large(c.due[s][r])
  <2> DEFINE debts == DebtsInOrder(q.scheme, q.order)
  <2>1. "TREASURY" \in Sections /\ "INPS" \in Sections /\ "BALANCE" \in Splittable /\ "FIRST_ADVANCE" \in Splittable
        /\ \A r \in Splittable : r = "BALANCE" \/ r = "FIRST_ADVANCE"
    BY DEF Sections, Splittable
  <2>2. CASE sections(q.scheme) = {"TREASURY"}
    <3>1. DOMAIN debts = 1..2 /\ debts[1] = <<"TREASURY", "BALANCE">> /\ debts[2] = <<"TREASURY", "FIRST_ADVANCE">>
      BY <2>2, OrderIs
    <3> HIDE DEF debts
    <3>2. c.due["TREASURY"]["BALANCE"] > 0 => c.due["TREASURY"]["FIRST_ADVANCE"] = q.due["TREASURY"]["FIRST_ADVANCE"]
      <4>1. 1 \in DOMAIN debts /\ 2 \in DOMAIN debts /\ 1 < 2
        BY <3>1
      <4>2. InOrder(c, q.due, debts)
        BY <1>6 DEF debts
      <4> QED BY <3>1, <4>1, <4>2 DEF InOrder
    <3>3. SumFunction(c.usages) = CoveredOf(c, q.due, "TREASURY")
      BY <1>2, <2>2, UsedFor
    <3>4. Large(c.due["TREASURY"]["BALANCE"]) /\ Large(c.due["TREASURY"]["FIRST_ADVANCE"])
      <4>1. PICK b \in {0, 31200}, f \in {0, 100001}, k \in {0, 40000, 312345} :
              b = q.due["TREASURY"]["BALANCE"] /\ f = q.due["TREASURY"]["FIRST_ADVANCE"] /\ k = SumFunction(q.credits)
        BY <1>1
      <4>2. PICK x \in 0..b, y \in 0..f : x = c.due["TREASURY"]["BALANCE"] /\ y = c.due["TREASURY"]["FIRST_ADVANCE"]
        BY <1>3, <2>1, <4>1
      <4>3. (x > 0 => y = f) /\ (x > 0 \/ y > 0 => (b - x) + (f - y) = k)
        BY <1>4, <2>1, <2>2, <3>2, <3>3, <4>1, <4>2 DEF CoveredOf
      <4>4. TwoInOrder(b, f, k, x, y)
        BY <4>2, <4>3 DEF TwoInOrder
      <4>5. Large(x) /\ Large(y)
        BY <4>1, <4>4, TwoLeft
      <4> QED BY <4>2, <4>5
    <3> QED BY <2>1, <2>2, <3>4
  <2>3. CASE sections(q.scheme) = {"TREASURY", "INPS"}
    <3> DEFINE one   == IF q.order = "TAX_FIRST" THEN "TREASURY" ELSE "INPS"
               other == IF q.order = "TAX_FIRST" THEN "INPS" ELSE "TREASURY"
    <3>1. /\ DOMAIN debts = 1..4 /\ debts[1] = <<one, "BALANCE">> /\ debts[2] = <<one, "FIRST_ADVANCE">>
          /\ debts[3] = <<other, "BALANCE">> /\ debts[4] = <<other, "FIRST_ADVANCE">>
      BY <2>3, OrderIs
    <3>2. {one, other} = {"TREASURY", "INPS"} /\ one \in Sections /\ other \in Sections
      BY <2>1
    <3>3. SumFunction(c.usages) = CoveredOf(c, q.due, one) + CoveredOf(c, q.due, other)
      <4>1. SumFunction(c.usages) = CoveredOf(c, q.due, "TREASURY") + CoveredOf(c, q.due, "INPS")
        BY <1>2, <2>3, UsedFor
      <4>2. CoveredOf(c, q.due, "TREASURY") \in Int /\ CoveredOf(c, q.due, "INPS") \in Int
        <5>1. \A s \in Sections, r \in Splittable : q.due[s][r] \in Int /\ c.due[s][r] \in Int
          BY <1>2, <1>3 DEF DebtsTyped, Roles
        <5> QED BY <2>1, <5>1 DEF CoveredOf
      <4> QED BY <4>1, <4>2
    <3>4. PICK b \in Nat, f \in Nat, z \in Nat, g \in Nat, k \in {0, 40000, 312345} :
            /\ b = q.due[one]["BALANCE"] /\ f = q.due[one]["FIRST_ADVANCE"] /\ z = q.due[other]["BALANCE"] /\ g = q.due[other]["FIRST_ADVANCE"]
            /\ k = SumFunction(q.credits)
            /\ TaxAndInps(b, f, z, g)
      BY <1>1 DEF TaxAndInps
    <3> HIDE DEF one, other, debts
    <3>5. PICK x \in 0..b, y \in 0..f, v \in 0..z, w \in 0..g : /\ x = c.due[one]["BALANCE"] /\ y = c.due[one]["FIRST_ADVANCE"]
                                                               /\ v = c.due[other]["BALANCE"] /\ w = c.due[other]["FIRST_ADVANCE"]
      <4>1. c.due[one]["BALANCE"] \in 0..b /\ c.due[one]["FIRST_ADVANCE"] \in 0..f
        BY <1>3, <2>1, <3>2, <3>4
      <4>2. c.due[other]["BALANCE"] \in 0..z /\ c.due[other]["FIRST_ADVANCE"] \in 0..g
        BY <1>3, <2>1, <3>2, <3>4
      <4> QED BY <4>1, <4>2
    <3>6. (x > 0 => y = f /\ v = z /\ w = g) /\ (y > 0 => v = z /\ w = g) /\ (v > 0 => w = g)
      <4>1. InOrder(c, q.due, debts)
        BY <1>6 DEF debts
      <4> DEFINE L(j) == c.due[debts[j][1]][debts[j][2]]
                 O(j) == q.due[debts[j][1]][debts[j][2]]
      <4>2. \A j, i \in 1..4 : j < i /\ L(j) > 0 => L(i) = O(i)
        <5>1. \A j, i \in DOMAIN debts : j < i /\ L(j) > 0 => L(i) = O(i)
          BY ONLY <4>1 DEF InOrder
        <5>2. DOMAIN debts = 1..4
          BY <3>1
        <5> HIDE DEF L, O
        <5> QED BY ONLY <5>1, <5>2
      <4>3. L(1) = x /\ L(2) = y /\ L(3) = v /\ L(4) = w /\ O(2) = f /\ O(3) = z /\ O(4) = g
        BY <3>1, <3>4, <3>5
      <4> HIDE DEF L, O
      <4>4. 1 \in 1..4 /\ 2 \in 1..4 /\ 3 \in 1..4 /\ 4 \in 1..4 /\ 1 < 2 /\ 1 < 3 /\ 1 < 4 /\ 2 < 3 /\ 2 < 4 /\ 3 < 4
        OBVIOUS
      <4> QED BY <4>2, <4>3, <4>4
    <3>7. x > 0 \/ y > 0 \/ v > 0 \/ w > 0 => (b - x) + (f - y) + ((z - v) + (g - w)) = k
      <4>1. SumFunction(c.usages) = (b - x) + (f - y) + ((z - v) + (g - w))
        BY <3>3, <3>4, <3>5 DEF CoveredOf
      <4>2. one \in sections(q.scheme) /\ other \in sections(q.scheme)
        BY <2>3, <3>2
      <4>3. x > 0 \/ y > 0 \/ v > 0 \/ w > 0 => SumFunction(c.usages) = SumFunction(q.credits)
        BY <1>4, <2>1, <3>5, <4>2
      <4> QED BY <3>4, <4>1, <4>3
    <3>8. Large(x) /\ Large(y) /\ Large(v) /\ Large(w)
      <4>1. FourInOrder(b, f, z, g, k, x, y, v, w)
        BY <3>5, <3>6, <3>7 DEF FourInOrder
      <4>2. b \in Nat /\ f \in Nat /\ z \in Nat /\ g \in Nat /\ k \in {0, 40000, 312345} /\ TaxAndInps(b, f, z, g)
        BY <3>4
      <4> QED BY ONLY <4>1, <4>2, FourLeft
    <3>9. \A s \in sections(q.scheme) : s = one \/ s = other
      BY <2>3, <3>2
    <3> QED BY <2>1, <3>5, <3>8, <3>9
  <2> QED BY <1>5, <2>2, <2>3
<1>8. ASSUME NEW d \in sections(q.scheme) \X Splittable PROVE Ample(c.due[d[1]][d[2]], q.start, q.n)
  <2>1. d[1] \in sections(q.scheme) /\ d[1] \in Sections /\ d[2] \in Splittable
    BY DEF sections, Sections
  <2>2. PICK a \in Nat : a = c.due[d[1]][d[2]] /\ Large(a)
    BY <1>3, <1>7, <2>1
  <2>3. q.n \in 1..MaxInstallments(start)
    BY <1>1 DEF PlanAsked
  <2> QED BY <1>1, <2>2, <2>3, LargeIsAmple
<1> QED
  BY <1>8 DEF AmplyLeft, c, Comp

\* The plans of the cases, and the credits of two plans one after the other.
LEMMA LimitCasesCompensate ==
  ASSUME NEW q \in LimitCases
  PROVE  Compensates(q.before) /\ Compensates(q.plan)
<1> DEFINE dues  == {[TREASURY |-> [BALANCE |-> b, FIRST_ADVANCE |-> 100000, SECOND_ADVANCE |-> 0],
                      INPS     |-> [BALANCE |-> 400000, FIRST_ADVANCE |-> 200000, SECOND_ADVANCE |-> 0]] : b \in {0, 300000}}
           amounts == {<<300000, 150000>>, <<200000, 450000>>}
           code(x, y) == [code |-> x, year |-> y]
           codes == {<<code("1792", 1), code("1792", 2)>>, <<code("1792", 1), code("1792", 1)>>, <<code("PXX", 1), code("1792", 1)>>,
                     <<code("3801", 1), code("1792", 1)>>, <<code("4001", 1), code("4001", 1)>>}
           schemes == {"INPS_SEPARATE"}
           orders  == {"TAX_FIRST", "INPS_FIRST"}
           topics  == {"limit"}
           plans   == [scheme : schemes, due : dues, order : orders, credits : amounts, of : codes]
<1>1. LimitCases = [topic : topics, before : plans, plan : plans]
  BY DEF LimitCases
<1> HIDE DEF dues, amounts, codes, schemes, orders, topics
<1>2. \A p \in plans : p.due \in dues /\ p.credits \in amounts
  OBVIOUS
<1> HIDE DEF plans
<1>3. q.before \in plans /\ q.plan \in plans
  BY <1>1
<1>4. ASSUME NEW p, p.due \in dues, p.credits \in amounts PROVE Compensates(p)
  <2>1. PICK b \in {0, 300000} : p.due = [TREASURY |-> [BALANCE |-> b, FIRST_ADVANCE |-> 100000, SECOND_ADVANCE |-> 0],
                                          INPS     |-> [BALANCE |-> 400000, FIRST_ADVANCE |-> 200000, SECOND_ADVANCE |-> 0]]
    BY <1>4 DEF dues
  <2>2. \A s \in Sections, r \in Roles : p.due[s][r] \in Nat
    BY <2>1 DEF Sections, Roles, Splittable
  <2>3. p.credits \in Seq(Nat)
    <3> DEFINE A == <<300000, 150000>>
               B == <<200000, 450000>>
    <3>1. p.credits \in {A, B}
      BY <1>4 DEF amounts
    <3>2. A \in Seq(Nat) /\ B \in Seq(Nat)
      OBVIOUS
    <3> HIDE DEF A, B
    <3> QED BY <3>1, <3>2
  <2> QED BY <2>2, <2>3 DEF Compensates
<1> QED
  BY <1>2, <1>3, <1>4

\* The forms of every plan that is asked for pay the debts and nothing else, and a plan that takes credits beyond the yearly
\* limit says so (f24-schedule.ts, f24-schedule-builder.ts, compensation-limits.ts).
THEOREM ScheduleAlways == DeskSpec => []ScheduleExact
<1>1. AskedInv => ScheduleExact
  <2> SUFFICES ASSUME AskedInv PROVE ScheduleExact
    OBVIOUS
  <2>1. ASSUME asked.topic = "schedule", "due" \in DOMAIN asked PROVE ScheduleExactFor(asked)
    <3>1. "from" \notin DOMAIN asked
      BY <2>1 DEF AskedInv
    <3>2. tie \in {0, 1} /\ \E start \in DOMAIN startOptions : asked \in ScheduleCases(start)
      BY <2>1, <3>1 DEF AskedInv
    <3> QED BY <3>2, CasesAsk, CasesLeave, ScheduleKept
  <2>2. ASSUME asked.topic = "limit", "plan" \in DOMAIN asked PROVE LimitsKeptFor(asked)
    <3>1. "from" \notin DOMAIN asked
      BY <2>2 DEF AskedInv
    <3>2. asked \in LimitCases
      BY <2>2, <3>1 DEF AskedInv
    <3> QED BY <3>2, LimitCasesCompensate, LimitsKept
  <2> QED BY <2>1, <2>2 DEF ScheduleExact
<1> QED
  BY <1>1, AskedStart, AskedStep, PTL DEF DeskSpec
================================================================================
