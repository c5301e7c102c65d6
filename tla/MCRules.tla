--------------------------------- MODULE MCRules ---------------------------------
(* Questions to the fiscal rules, to the revenue and the credits of a year, to the   *)
(* totals of an invoice and to an upload: a                                         *)
(* topic is chosen first, then a case of it.                                        *)
EXTENDS Deadlines, TaxComputation, CompensationLimits, Revenue, InvoiceTotals, Uploads, TLC

VARIABLE asked   \* the question

ruleVars == <<asked, tie>>

Quiet  == [topic |-> "none"]   \* no question is asked

-----------------------------------------------------------------------------
(* The cases *)

FirstYear == 2024
LastYear  == 2099

\* The stamp duty of the quarters, about the threshold of its deferral.
AroundDeferral == {<<a, b, 0, 200>> : a, b \in {0, 200, 250000, 300000, 500000, 500200}}

\* Every year of the century with the dates of all schemes, and one year with the stamp duty.
DeadlineCases ==
  [topic : {"deadlines"}, year : FirstYear..LastYear,
   opts : [extended : BOOLEAN, scheme : {"PROFESSIONAL_FUND", "INPS_TRADERS"}, amounts : {Unknown}, intrastat : {TRUE}]]
  \cup
  [topic : {"deadlines"}, year : {2026},
   opts : [extended : {FALSE}, scheme : {"INPS_SEPARATE"}, intrastat : {FALSE}, amounts : AroundDeferral]]

MaxInstallments(start) == Len(maxInstallmentDates(startOptions[start].date))

\* No debt, one of few installments' worth, and some that do not divide; the advances of a section are equal.
Dues == {[TREASURY |-> [BALANCE |-> t, FIRST_ADVANCE |-> a, SECOND_ADVANCE |-> a],
          INPS     |-> [BALANCE |-> c, FIRST_ADVANCE |-> f, SECOND_ADVANCE |-> f]] :
           t \in {0, 31200}, a \in {0, 100001}, c \in {0, 5033}, f \in {0, 33333}}

ScheduleCases(start) ==
  [topic : {"schedule"}, scheme : {"INPS_SEPARATE", "PROFESSIONAL_FUND"}, start : {start}, n : 1..MaxInstallments(start),
   order : {"TAX_FIRST", "INPS_FIRST"}, credits : {<<>>, <<40000>>, <<12345, 300000>>}, due : Dues]

\* Revenues without tax, with a tax too small for an advance, with a single one and with two; in each scheme its ceilings and bands.
YearInputs ==
  [scheme : Schemes, revenue : {0, 40050, 100050, 883200, 4501234, 9000000}, coefficient : {78}, age : {4, 5}, eligible : {TRUE},
   contributionsPaid : {0, 350049}, taxCredits : {0}, taxAdvancesPaid : {93750}, inpsAdvancesPaid : {93750},
   isaSubject : {FALSE}, inpsReducedRate : BOOLEAN, flatRateReduction : {TRUE}, seniorityBefore1996 : {FALSE}]
  \cup
  [scheme : Schemes, revenue : {4501234}, coefficient : {40, 86}, age : {2}, eligible : BOOLEAN,
   contributionsPaid : {0, 4000000}, taxCredits : {0, 12350}, taxAdvancesPaid : {0}, inpsAdvancesPaid : {0, 150},
   isaSubject : BOOLEAN, inpsReducedRate : {FALSE}, flatRateReduction : BOOLEAN, seniorityBefore1996 : {TRUE}]

YearCases(start) ==
  [topic : {"year"}, year : YearInputs, next : {5000000}, credit : {0, 40000}, order : {"INPS_FIRST"}, start : {start}, n : {1, 4}]

InvoiceCases ==
  [topic : {"invoice"}, kind : Kinds, terms : {0, 1, 3},
   draft : [lines : {<<[quantity |-> 100, price |-> p]>> : p \in {1, 7540, 7747, 7748, 100000}}
                    \cup {<<[quantity |-> 150, price |-> 3333], [quantity |-> 100, price |-> 2747]>>,
                          <<[quantity |-> 100, price |-> 107748], [quantity |-> 100, price |-> -100000]>>},
            scheme : Schemes, surcharge : BOOLEAN, charged : {TRUE}, fundRate : {None, 2, 4},
            kind : {"IT_PA", "EU", "NON_EU_B2C"}, septies : BOOLEAN]]

\* Archives and loose files of all sizes, the third with the name of the first or not; only their sizes matter.
Entry(name, xml, size) == [name |-> name, base |-> "f", xml |-> xml, size |-> size, doc |-> [kind |-> "SDI_METADATA"]]
Sizes == {1, 2, 3}
Archives(name) ==
  LET one(k) == {Entry(<<name, k>>, TRUE, s) : s \in Sizes} \cup {Entry(<<name, k>>, FALSE, 1)}
  IN [name : {<<name>>}, form : {"zip"}, readable : BOOLEAN, entries : {<<>>} \cup {<<e>> : e \in one("1")} \cup one("1") \X one("2")]
Loose(name) == [name : {<<name>>}, form : {"xml", "other"}, readable : {TRUE}, entries : {<<Entry(<<name>>, TRUE, s)>> : s \in Sizes}]
SizedUploads == {<<f, g, h>> : f \in Archives("z") \cup Loose("z"), g \in Archives("y"), h \in Loose("z") \cup Loose("x")}

\* One archive with up to three invoices and up to two receipts, whose numbers, progressives and file names clash or not.
Invoices == [kind : {"INVOICE"}, valid : {TRUE}, number : {"1"}, sequence : {1}] \cup [kind : {"INVOICE"}, valid : {TRUE}, number : {"FE1"}, sequence : {1}]
            \cup [kind : {"INVOICE"}, valid : BOOLEAN, number : {"2"}, sequence : {2}]
Receipts == [kind : {"SDI_RECEIPT"}, valid : {TRUE}, file : {"f", "g"}, type : {"RC", "NS"}]
            \cup [kind : {"SDI_RECEIPT"}, valid : {FALSE}, file : {"f"}, type : {"RC"}]
Documented(k, docs) == [name : {<<"z", k>>}, base : {"f", "g"}, xml : {TRUE}, size : {1}, doc : docs]
MixedUploads ==
  LET entries == Documented("1", Invoices) \X Documented("2", Invoices) \X Documented("3", Invoices \cup Receipts) \X Documented("4", Receipts)
  IN {<<f>> : f \in [name : {<<"z">>}, form : {"zip"}, readable : {TRUE}, entries : entries]}

\* Nothing stored, an invoice never sent, sent under this name or before under another, or with its outcome.
Stores ==
  LET row(f) == [number |-> "1", sequence |-> 1, file |-> f]  rc == [kind |-> "SDI_RECEIPT", valid |-> TRUE, file |-> "f", type |-> "RC"] IN
  [invoices : {{row("f")}, {row("g")}}, outcome : {<<>>, "f" :> "none", "f" :> "NS"}, recorded : {{}}]
  \cup {[invoices |-> {}, outcome |-> <<>>, recorded |-> {}], [invoices |-> {row("f")}, outcome |-> "f" :> "RC", recorded |-> {rc}]}

\* Documents of three years with a fund's share, of a few cents or of half the exit threshold, collected in one
\* or several years, those in another currency at a better rate too.
Stage(status, type, imported) == [status |-> status, type |-> type, imported |-> imported]
Written(y, r, s, a) == [year |-> y, rate |-> r, status |-> s.status, type |-> s.type, imported |-> s.imported,
                        total |-> a.total, fund |-> a.fund, collected |-> <<>>]
WithCollections(d) ==
  LET sign == IF d.type = "TD04" THEN -1 ELSE 1
      part == sign * ((d.total * d.rate) \div 3)
  IN {[d EXCEPT !.collected = c] : c \in {<<>>, <<[year |-> 0, amount |-> sign * d.total * d.rate]>>,
       <<[year |-> -1, amount |-> part], [year |-> 0, amount |-> part], [year |-> 0, amount |-> part]>>,
       <<[year |-> 0, amount |-> part], [year |-> 1, amount |-> part]>>,
       <<[year |-> 0, amount |-> sign * (d.total * d.rate + 100 * (d.rate - 1))]>>}}
Asked == {[total |-> 4160000, fund |-> 160000], [total |-> 333, fund |-> 0], [total |-> 5000000, fund |-> 0]}
Stages == {Stage("DELIVERED", "TD01", FALSE), Stage("SENT", "TD01", FALSE), Stage("REJECTED", "TD01", FALSE),
            Stage("ISSUED", "TD01", TRUE), Stage("NOT_DELIVERED", "TD04", FALSE)}
DocumentsOf(years, statuses, rates) ==
  UNION {WithCollections(Written(y, r, s, a)) : y \in years, r \in rates, s \in statuses, a \in Asked}
Drafts == {Written(0, 1, Stage("DRAFT", "TD01", FALSE), a) : a \in Asked}

RevenueCases ==
  [topic : {"revenue"}, draft : {3},
   docs : DocumentsOf({-1, 0, 1}, Stages, {1, 2}) \X DocumentsOf({-1, 0}, {Stage("DELIVERED", "TD01", FALSE)}, {1}) \X Drafts]

\* Two plans one after the other, with credits of the tax they pay and of others, of one year and of two.
LimitCases ==
  LET code(c, y) == [code |-> c, year |-> y]
      dues == {[TREASURY |-> [BALANCE |-> b, FIRST_ADVANCE |-> 100000, SECOND_ADVANCE |-> 0],
                INPS     |-> [BALANCE |-> 400000, FIRST_ADVANCE |-> 200000, SECOND_ADVANCE |-> 0]] : b \in {0, 300000}}
      plans == [scheme : {"INPS_SEPARATE"}, due : dues, order : {"TAX_FIRST", "INPS_FIRST"},
                credits : {<<300000, 150000>>, <<200000, 450000>>},
                of : {<<code("1792", 1), code("1792", 2)>>, <<code("1792", 1), code("1792", 1)>>, <<code("PXX", 1), code("1792", 1)>>,
                      <<code("3801", 1), code("1792", 1)>>, <<code("4001", 1), code("4001", 1)>>}]
  IN [topic : {"limit"}, before : plans, plan : plans]

UploadCases ==
  [topic : {"upload"}, files : MixedUploads, db : Stores]
  \cup [topic : {"upload"}, files : SizedUploads, db : {[invoices |-> {}, outcome |-> <<>>, recorded |-> {}]}]

Cases(t) == CASE t.topic = "deadlines" -> DeadlineCases
              [] t.topic = "schedule"  -> ScheduleCases(t.from)
              [] t.topic = "year"      -> YearCases(t.from)
              [] t.topic = "revenue"   -> RevenueCases
              [] t.topic = "limit"     -> LimitCases
              [] t.topic = "invoice"   -> InvoiceCases
              [] t.topic = "upload"    -> UploadCases

-----------------------------------------------------------------------------
RulesInit ==
  /\ tie \in {0, 1}
  /\ asked \in [topic : {"deadlines", "revenue", "limit", "invoice", "upload"}, from : {"ORDINARY"}] \cup [topic : {"schedule", "year"}, from : DOMAIN startOptions]

AskRules ==
  /\ "from" \in DOMAIN asked
  /\ asked' \in Cases(asked)
  /\ UNCHANGED tie

\* The deadlines of every year fall on the right day.
DeadlinesRight == asked.topic = "deadlines" /\ "year" \in DOMAIN asked => DeadlinesRightFor(asked.year, asked.opts)

\* The F24 forms of a plan pay what is due, to the cent, and a plan that takes credits beyond the yearly limit says so.
ScheduleExact ==
  /\ asked.topic = "schedule" /\ "due" \in DOMAIN asked => ScheduleExactFor(asked)
  /\ asked.topic = "limit" /\ "plan" \in DOMAIN asked => LimitsKeptFor(asked)

\* What the forms of a year pay is what the next year counts.
YearCloses == asked.topic = "year" /\ "year" \in DOMAIN asked => YearClosesFor(asked)

\* The return of a year asks for what its plan pays, and its guide explains the revenue it is computed from.
ReturnAgrees ==
  /\ asked.topic = "year" /\ "year" \in DOMAIN asked => ReturnAgreesFor(asked)
  /\ asked.topic = "revenue" /\ "docs" \in DOMAIN asked => RevenueExplainedFor(asked)

\* What the preview of an upload shows as new is what the import stores.
ImportAsShown == asked.topic = "upload" /\ "files" \in DOMAIN asked => ImportAsShownFor(asked)

\* The totals of an issued invoice agree with each other.
InvoiceAddsUp == asked.topic = "invoice" /\ "draft" \in DOMAIN asked => InvoiceAddsUpFor(asked)
================================================================================
