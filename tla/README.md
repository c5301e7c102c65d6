# OpenTax-IT: TLA+ models and proofs

OpenTax-IT keeps the books of an Italian flat-rate taxpayer: invoices numbered
and written as FatturaPA files, sent to SDI (the exchange system of the tax
authority) by certified mail (PEC), receipts read back, collections, taxes, F24
payment forms. The API is a NestJS application over PostgreSQL (Prisma) with a
directory of stored files; the web interface is a client of the API.

This directory models the parts of the API where order and failure matter and the
fiscal rules behind its amounts and dates, model-checks them with TLC, and proves
with TLAPS that the amounts of an invoice add up, that the forms of a plan pay its
debts and nothing else, that the years and their returns agree with what was paid, that an
import does what its preview shows, and the safety properties of the parts that have a
state: issuing and sending invoices, reading receipts, collections, stamp duty and contribution forms, tax
credits with the plans and returns that use them, admins and sessions, rule sets,
exchange rates. Paths below are under `src/`; `api/` stands for `src/apps/api/src/`.

## Inventory

| Component | Source | State | Operations | What makes it correct |
| --- | --- | --- | --- | --- |
| SDI transmissions | `api/sdi/services/sdi-transmissions.service.ts`, `api/invoices/services/invoice-status.service.ts` | invoice status and file name, `SdiTransmission` rows | `send`: check, claim, SMTP, failure or success | a file reaches SDI once; an invoice shown as sent is waiting for something; an issued invoice is final |
| SDI receipts | `api/sdi/services/sdi-receipts.service.ts`, `transmission-transitions.ts` | transmission status, `SdiNotification` rows, SDI's address | match, decide the transition, record in one transaction, learn the address | outcomes are genuine, arrive, and are not overridden |
| Upload of receipts | `api/sdi/services/sdi-receipts-import.service.ts` | the same rows | decide new, duplicate or conflict; find or make the transmission; record | agrees with the sync |
| Receipts sync and scheduler | `api/sdi/services/sdi-receipts-sync.service.ts`, `sdi-receipts.scheduler.ts`, `pec-imap.service.ts` | mailbox cursor, sync lock | poll, take the lock, read message after message, save the cursor | no receipt is skipped; a stuck lock is taken over |
| Invoices | `api/invoices/services/invoices.service.ts`, `invoice-correction.ts`, `api/storage` | invoice rows, XML files, advisory lock | create, update, remove, issue, reopenForCorrection, createReplacement | numbers without gaps or repeats; the file says what the row says; a file name is used once |
| Import of invoices, document uploads | `api/imports`, `api/common/import`, `api/invoices/services/invoices-import.service.ts` | invoice rows; the memory of one upload | extract archives, preview, import the selected documents one by one | the import does what the preview shows; does not clash with issue |
| Payments | `api/payments` | `Payment` rows | create (locked per invoice), remove | no more is collected than the total |
| Tax credits, returns, F24 plans | `api/tax-credits`, `api/taxes`, `api/f24` | credits and their uses, filed returns, plans with their forms | create, delete, mark filed, mark paid | a credit is not spent twice nor vanishes under a form that uses it; a paid form is not deleted |
| Stamp duty, contribution forms | `api/f24/services/stamp-duty.service.ts`, `contribution-f24.service.ts` | quarters, forms outside plans | pay a quarter by form or on the portal, create the fixed installments, remove, mark paid | a quarter or an installment is paid once |
| Fiscal rule sets | `api/fiscal-rules` | rule set rows | seed, activate | a year with an active set keeps one; versions differ |
| Fiscal algorithms | `packages/fiscal-rules` | none | tax and contributions, advances, installments, compensation, deadlines, rows of the return | sums of parts equal the whole; dates are business days; the year's payments are what the next year counts |
| FatturaPA and SDI messages | `packages/fatturapa` | none | build and parse XML | next file progressive is above every used one; totals agree with the row |
| Users, sessions, guards | `api/auth`, `api/users`, `api/common/*.guard.ts`, `api/cli/create-admin.ts` | users, memberships, sessions | log in and out, select a tenant, manage users, create or promote an admin | an admin stays; a new password closes sessions |
| Exchange rates | `api/exchange-rates` | rates, days remembered | look for the quotation of a day or of the days before | a day is not remembered before its rates are out |
| Tenants, customers, sources, audit log, PDF | `api/tenants`, `api/customers`, ... | rows of their own | single-row operations, layout | |
| Web interface | `apps/web` | none of its own | requests | |

They interact through the database: `send` and the receipts both change an
invoice through `InvoiceStatusService`, which matches the row by id and by its
current file name; issue, import and sending share the file names; F24 plans,
credits and returns share the credits.

What is hard: every database call is a step of its own unless it is inside a
`$transaction`, so two tabs, the scheduler, a button and an upload interleave;
the SMTP call and the file write are no part of any transaction; an SMTP error
may come after the message has left; receipts come late, twice, and for files an
invoice no longer has; the API may stop anywhere. `PROJECT.json` lists each such
place with its line and the properties that cover it.

## Modules

| Module | Models |
| --- | --- |
| `InvoiceLifecycle` | what the API promises about the status and the file of an invoice: an abstract specification |
| `SdiTransmissions` | sending and receipts, with the PEC provider and SDI as environment |
| `SdiTransmissionsProofs` | its theorems: types, deliveries, outcomes, and that it implements `InvoiceLifecycle` |
| `MCSdi` | instances for TLC |
| `ReceiptsSync` | the sync with the PEC mailbox: cursor, rescan, lock, failures |
| `ReceiptsSyncProofs` | its theorems |
| `MCSync` | instances for TLC |
| `InvoiceIssuing` | drafts, issue, correction, replacement and import, over rows, lock and files |
| `IssuingProofs` | its theorems |
| `MCIssuing` | instances for TLC |
| `TaxPlans` | tax credits, the F24 plans that use them, the filed returns that register and carry them |
| `TaxPlansProofs` | its theorems |
| `MCPlans` | instances for TLC |
| `Collections` | payments on a document |
| `Forms` | stamp duty quarters, contribution forms |
| `ExchangeRates` | quotations, downloaded and remembered day by day |
| `Rounding` | rounding to cents and euros; the values of the 2026 rule set |
| `Deadlines` | the calendar and the deadlines of a year |
| `PaymentSchedule` | installments, compensation with credits, the F24 forms of a plan |
| `TaxComputation` | tax, contributions, advances of a year, what the next year counts, rows of the return |
| `Revenue` | the revenue of a year, how the return guide explains it, the projection shown before an issue |
| `CompensationLimits` | the yearly limit on credits used in compensation |
| `InvoiceTotals` | the amounts of an invoice as stored and as issued |
| `Uploads` | archives, preview and import of uploaded documents |
| `UploadsProofs` | its theorem: the preview keeps its word |
| `MCRules`, `MCDesk` | instances for TLC of the ten modules above |
| `DeskProofs` | the theorems of `Collections`, `Forms`, `ExchangeRates`, `InvoiceTotals`, `PaymentSchedule`, `CompensationLimits`, `TaxComputation` and `Revenue`, and of the cases of `MCRules` |
| `RuleSets` | the versions of the fiscal rules of a year |
| `Accounts` | users, sessions, memberships, the command create-admin |
| `MCPlatform` | instances for TLC |
| `PlatformProofs` | the theorems of `RuleSets` and `Accounts` |
| `Numbers` | facts about numbers, finite sets and sums, on which the proofs rest |

### InvoiceLifecycle

An invoice is a status and a file; `used` are the files ever given. A draft takes a
file never used (`Issue`), an import one that no invoice has; `Send` and `Reopen`
keep it; SDI decides once (`Decide`); only a rejection is corrected (`Correct`), and
leaves the file. `SdiTransmissions` and `InvoiceIssuing` each implement it
(`ImplementsLifecycle == Lifecycle!Spec`) by the same mapping: the status and the
file of the row, and for `used` the names in rows and transmissions. It says what
neither detailed module says by itself: that no request, sync or upload, however
stale, ever moves an invoice along a way that is not there, for instance from one
outcome to another, or a draft to an outcome.

### SdiTransmissions

`invoice` and `transmission` are the rows (status, file name; the channel and
whether `sentAt` is set). Transmissions are numbered by `createdAt`, files by
their progressive. `recorded` is the set of notifications, whose unique key is
the transmission and the receipt. `request` holds what a send request has read
and where it is: `SendCheck`, then `SendClaim` (or `SendConflict`), `Smtp`,
`SendFailed` or `SendLeft` and `SendStamp`; `SendStop` is a stop of the API or an
error of the database after any of them. `reader` holds the same for a sync
(`SyncRead`) or an upload (`UploadMatch`, `UploadFind`); both go on with `Record`,
one transaction that decides on the row *as it was read*, or with
`RecordDuplicate` when the unique key stops it. `message` and `verdict` are the
world outside: what became of each message, and the receipts SDI gave. SDI
rejects a file name it has already judged.

Left out, and why. Matching a receipt by subject is a fallback for receipts
without the original Message-ID. Re-reading a recorded receipt changes nothing,
by the unique key. `CANCELLED` is assigned nowhere in the code, so the guard for
it is dropped. Missing XML, invoices to the public administration and the size
limit are rejected before any write. `SendCheck` merges the read of the invoice
and the count of messages already sent. A sync reads in the order of the mailbox
(`InOrder`): a delivery or a bounce comes after its acceptance. With two syncs
this order would hold for each of them, not for both, so the runs use one sync
and one upload, which interleave in the same way.

### ReceiptsSync

`cursor` and `lock` are the `PecMailboxState` row, `inbox` and `validity` the
mailbox at the provider. A sync is `Claim` (the conditional update), `ReadState`
(cursor and date to search from), `Open`, `List` (search and sizes), then `Apply`
and `Save` for each message, `Finish`, `Release`; `Fail` goes to the `finally`
block from anywhere, `Stop` leaves the lock. `Save` merges the conditional update of
the cursor with the heartbeat after it. Nothing says who holds the lock, so
`Release` and the heartbeat write it whoever does. `Expire` is the passing of
`STALE_LOCK_MS`. An old session of a renumbered inbox can only fail; its last write
of the cursor may still come.

A message is the transmission it decides, or another message; what it does to the
rows is in `SdiTransmissions`. Dates are positions in the inbox; the day before the
oldest transmission only adds messages that were read before. Messages above the
size limit are no receipts. Changing the mailbox in the settings is not modelled:
the cursor is kept then, which is safe only if the new inbox has another UIDVALIDITY.

`SlowSyncs` names the syncs that may stall until their lock is taken over.
`SmtpAmbiguous` is as in `SdiTransmissions`. `SlowLogins = FALSE` says that no
receipt comes for a transmission made after a sync looked at the transmissions and
before it opens the inbox: `PEC_TIMEOUTS` bound a login by a minute or so, and SDI
answers after minutes to days. Without it, a first sync could step over that receipt.

### InvoiceIssuing

A request reads an invoice (`seen`), decides, and writes later; `Read` and `Write`
actions are apart. `issue` is five steps: the checks (`IssueRead`); the lock, the
status read again, number and progressive (`IssueNumber`, the reads under the lock
merged); the update of the row, not yet visible but locking the row and its unique
keys (`IssueUpdate`); the file (`IssueWrite`, `IssueWriteFails`); the commit. A
stop rolls back and leaves the file. `IssueTimeout` is the timeout of Prisma's
interactive transaction while the file is being written; `LateWrite` is the write
that goes on. `disk` holds the files, `received` what SDI was sent.

Two constants name assumptions. `ConcurrentEdits = FALSE`: requests of different
kinds on the *same* invoice do not overlap (two equal ones, a double click, do).
`issuing_edits` lifts it and shows what then breaks. `SlowWrites = FALSE`: a write
that outlasts its transaction ends before the next issue; if it did not, it would
replace the file recorded by that issue. SDI's answer does not
arrive while a request on the invoice is in progress: it comes by mail, and a
request lasts seconds. Import is one step, since its check and its transaction are
decided by the unique indexes. Ids are not used again.

### TaxPlans

`credit`, `plan` and `filed` are the `TaxCredit`, `InstallmentPlan` and `TaxReturn`
rows; the uses of the credits (`TaxCreditUsage`) are kept with the plan whose form
has the credit row, and go with it or with the credit. `request` holds what a
request has read: `PlanRead` is the check for a plan of the year and the computation
of the uses (`buildCompensation`, oldest credit first), `PlanSave` the one statement
that saves them; `FileRead` the check and the guide, `FileWrite` the transaction that
saves the return, registers its credits and closes those of the year before. Each
`Read` and `Write` pair of `deletePlan`, `unmark`, `update` and `remove` is a check and
a write by id. `create` and `updateStatus` decide nothing on what they read.

Of the figures of a return, LM43 and LM44 are kept, and the credits it gives; what a
year owes or overpaid is an input. Amounts are small integers, so rounding to euros
is not modelled. The forms of a plan are one: some form is paid, or none. The scheme,
the office and the rule set are checks before any write. A plan may use no credit,
and one entered by hand may not be usable yet.

`Overlaps` names the operations of which two may be under way at once; in the code it is
all of them, since no read here is protected from another request's write. Four pairs do
harm, which `MCPlans` takes out of `SafeOverlaps` for the run `plans`: two plans (the
same credit is used twice), a plan and the edit of a credit (it may use more than the
credit is worth now), a return and what changes the credits it carries (its LM43 is wrong),
a return that is filed and one taken back. All other pairs are in: deletion, payment, taking a
return back or removing a credit beside a plan, two returns filed at once, and so on. Some
of those break what the documents promise of a *row*, and leave the amounts right: see
"Races that no run shows". `AnyReturn = FALSE` says that a return is not taken back once
the next has carried its credits; `plans_refile` lifts it.

### Collections, Forms, ExchangeRates

The three share no state, nor does any with the invoices' own modules, which give
`Collections` only the correction and the new issue of a document. Each has one
action per read and one per write of a request.

`Collections`: `CreateRead` is the document, `CreateSum` the sum under the advisory
lock, `CreateInsert` the check and the row; `RemoveRead` and `RemoveWrite` take no
lock. `history` remembers from outside what the property must excuse: a removal after
money went back (`payments.service.ts:90` checks nothing), and a correction that makes
a document smaller.

`Forms`: a quarter of stamp duty is linked to a form or marked as paid on the portal,
and `Shown` is what `list` says of it; the fixed installments are created one by one,
any of them may fail, and `Existing` is why the next request is refused.
`OnePayer = TRUE` says that the requests that create a payment come one at a time;
nothing in the code sees to it ("Races that no run shows"). Removal and status changes overlap with them and with each other.

`ExchangeRates`: `Ask`, then for each day back `Known`, or `Fetch` and `Store`, then
`Read`. The Bank publishes the currencies of a day during that day; a day that is over
is a holiday for those it lacks. Before today an empty day is remembered, today it is
not (`NotYetPublished`).

### RuleSets, Accounts

`RuleSets` has the transaction of `activate` as PostgreSQL runs it at its default
level: the update that supersedes finds rows (`SupersedeFind`), waits for those
another transaction has written and takes those that still qualify (`Supersede`);
`ActivateWrite` is the update by id and the commit. `Deploy` restarts the API with a
new content.

`Accounts` has the guards' reading of session and user at the start of each request
and what the handler writes later. `create-admin` works beside the API, in steps it may
stop between (`Promote`, `CloseSessions`, `Claim`). A password is a number;
`overtaken`, `kept` and `unfinished` mark the sessions that outlive a change of password
for a reason the code gives. `OneManager = TRUE`: requests that change users come one at a
time, since two admins who demote each other at once leave none (`AdminAlways`, below, says
that this is the only way; no document of the repository promises that an admin is left).

### Rounding, Deadlines, PaymentSchedule, TaxComputation, Revenue, CompensationLimits, InvoiceTotals

Pure functions, one operator per function of the source and under its name, over
whole cents and euros. The code computes in floating point, where half a cent may fall
on either side: `tie` lets all halves go up or all go down. The values of the rule set
are in one record. Reference definitions are beside them: Easter by the epact instead
of Gauss's steps, working days by search, sums over forms and rows.

`PaymentSchedule` has the forms of a plan: surcharge, installments with their
commercial days and the August deferral, compensation; `TaxComputation` the year
before it (`summary`), the year after it (`paidFromF24`) and the return beside it.
Rows of the return that copy an input are left out. `InvoiceTotals` has the same
invoice three times: the row (`prepare`), the document (`toFatturaPa`) and the totals
of the XML (`computeTotals`).

`Revenue` has three years, the one asked about and those around it; a fund contribution
is 4%, so that a share of a cent is a whole number of 26ths. The guide promises "proposed
− not collected + collected from other years = collected in the year"
(`return-guide.service.spec.ts`). This holds when every document of the year with
collections counts as issued, which `Explained` assumes: what is collected on a document
whose outcome has not come, or that SDI rejects later, is in the collected revenue
(`payments.service.ts:97`) and in neither list (`return-guide.service.ts:45`). `Warned` is the
comment that the projection errs on the high side: who is not warned does not pass the
threshold, whichever documents are then paid.

`CompensationLimits` follows the forms of two plans. A plan whose use for other taxes
passes the limit is always told (`LimitTold`). The converse is not stated: of the earlier
forms `earlierUses` (`tax-credits.service.ts:66`) counts every use whole, so the warning may
come early, although `f24.service.ts:133` says "horizontal use only, earlier forms included".

### Uploads

An upload is a sequence of files: archives with entries, loose XML files, others.
`extractXmlEntries` folds over them with the budget of the whole upload. `preview`
runs the checks of the import against the database as it is plus a memory of the
upload; `importFiles` runs them against the database as it grows. Each is a fold over all
entries, which passes over the documents of another kind, of another handler
(`sort`, `document-import.service.ts:52`). An invoice is its number, progressive and
file name, a receipt its file and type; either may be unreadable or refused by a check on
its contents (`valid`). `Selections` are the
sets of rows the web interface lets one tick.

## Runs

| Run | Instance | Shows |
| --- | --- | --- |
| `sdi_send` | 1 invoice, 2 senders, 1 sync, 1 upload, 2 transmissions, 2 files | `NoDuplicateDelivery`, `IssuedOnce`, `DeliveryDecided` and the refinement of `InvoiceLifecycle` hold when an SMTP error means the message did not leave |
| `sdi_smtp` | 1 invoice and 1 imported, 1 sender, 1 sync, 1 upload, 2 transmissions, 3 files | `OutcomeGenuine` and `SentIsAwaited` hold even when it does not |
| `sdi_override` | as `sdi_send` | violated: an outcome is overridden |
| `sdi_reopen` | as `sdi_send`, ambiguous SMTP | violated: an invoice is reopened whose file did reach SDI |
| `sync_read` | 2 syncs of which one may stall, 1 transmission, 2 messages, 2 UIDVALIDITY values, fairness | `NoReceiptSkipped` and `ReceiptsRead` hold |
| `sync_failed_send` | 1 sync, ambiguous SMTP | violated: the receipt of a failed send is skipped for ever |
| `issuing` | 3 invoices, 2 requests, 2 series, 2 numbers, 3 files | all properties of `InvoiceIssuing`, with the refinement of `InvoiceLifecycle` |
| `issuing_edits` | `ConcurrentEdits` | violated: what an issued invoice says changes |
| `plans` | 2 requests, all overlaps but the four named under TaxPlans, 2 tax years, 2 credits at a time | `NotOverspent` and `CarriedOnce` hold |
| `plans_refile` | 1 request, `AnyReturn` | violated: a carried credit is deleted |
| `desk` | 1 document with 3 payments; 2 payers, 1 quarter, 5 forms; 3 days, 2 currencies, 2 requests; the cases of `MCRules`; one part per behaviour | the properties of `Collections`, `Forms`, `ExchangeRates` and of the modules of functions and `Uploads` |
| `platform` | 2 users, 2 sessions, 2 requests, 1 tenant; 2 requests, 2 contents, 4 versions; one part per behaviour | the properties of `Accounts` and `RuleSets` |

Bounds. Two transmissions and two files are a first send, and a retry or a
correction with its second send; that is where two messages of a file, or two
files of an invoice, meet. Two requests, one sync and one upload give every pair
of actors. Every race in this code is between two of them, since each reads once
and writes once. Three invoices and three files are two draws from a series and
one between them from an import or another series.
One transmission and two messages are a receipt before or after another message, and
two UIDVALIDITY values one renumbering, at any moment of two syncs; the theorem
`NothingSkipped` covers the rest.
Two tax years are a return and the next, which carries its credits; two credits at a
time are a registered one with its successor, or with one entered by hand; rows that
go leave their ids, so a return can be filed and taken back again and again.
In `desk` three payments are a collection, a refund and one more; five forms are the four
installments and one beside them, or payments and cancellations of one quarter in
sequence, where a quarter does not touch another; three days are a holiday between two
days with rates, looked for from the last. The cases of the functions are the boundaries
of the code: all years from 2024 to 2099 and amounts on both sides of the threshold of
the stamp duty; every start and number of installments with debts that do not divide; revenues
with no advance, one and two, at every ceiling; lines at the threshold of the stamp, with a discount too;
a document of each year and stage beside one that is issued, and a draft; two plans in
sequence with credits of the tax they pay and of others. The
limits of an upload are scaled down to 4 files and 6 bytes, 2 in one file, so that uploads
of three files reach and pass each; four documents in one archive are a clash of
numbers, of progressives or of names, and receipts of stored and uploaded invoices.
In `platform` two users are an admin and another, or two admins; four versions are two
activations after a first.
`MaxTransmissions`, `MaxFiles`, `MaxCredits`, `MaxMail`, `MaxValidity`, `MaxSequence`,
`MaxPayments`, `MaxForms`, `LastDay`, `MaxPasswords` and `MaxVersions` are guards of the
models alone.
Deadlock is not checked: an invoice with its outcome needs nothing more, and the
bounds end every behaviour.

Fairness (`FairSpec`). The provider and SDI answer what reached them. A sync is
started again and again by `@Interval` while some PEC transmission awaits an
outcome, so reading is weakly fair under that condition (`ScheduledRead`) and not
otherwise: a press of the button is not assumed. A sync may be stopped half way,
but not every time: recording is strongly fair. Requests and uploads are not
assumed to go on. In `ReceiptsSync` the scheduler starts a sync while something is
awaited, a lock grows old, a sync that runs goes on or fails, and each of its steps
is strongly fair, since attempts are repeated for ever and do not all fail at the
same place.

### What the violations show

* `sdi_override`: `record` (`sdi-receipts.service.ts:124`) updates by id with a
  transition decided from the row read before its transaction. A sync that has
  read the acceptance, then an upload that records the rejection, then the sync:
  the transmission is `ACCEPTED_BY_PEC` and awaits an outcome again, while the
  invoice keeps its own. `transmission-statuses.ts:7` says nothing overrides it.
* `sdi_reopen`: after an SMTP error on a message that had left, the invoice is
  sent again; the first message is delivered, the second fails, and the invoice
  is reopened (`sdi-transmissions.service.ts:85`) as if its file had never reached
  SDI.
* `sync_failed_send`: on the first sync, or after a new UIDVALIDITY, `rescanFrom`
  (`sdi-receipts-sync.service.ts:96`) finds nothing awaited when the only transmission
  is in `ERROR`, so nothing is searched and the cursor goes to the newest message.
  The acceptance and the outcome before it are never read; the user guide
  (`docs/guida/pec-e-sdi.md:37`) says such a send puts itself right.
* `issuing_edits`: `update` (`invoices.service.ts:211`) checks the status and then
  writes by id alone.
* `plans_refile`: `unmark` (`return-filing.service.ts:99`) does not ask whether the
  next return has absorbed the credits it deletes, as the deletion of a credit does
  (`tax-credits.service.ts:78`). Filing the first return again registers the credit
  anew, and it can be used although the next return has carried it.

### Races that no run shows

Read-and-write races of two requests that the code does not exclude. The passing runs leave them
out, or say nothing of the row they break. For the first four the theorem in brackets
covers every overlap and names the race as the way, or one of the ways, `P` fails; each was
tried with the constant given, and TLC finds the property violated.

* A correction beside a replacement (`ReplacedForGood`, `ConcurrentEdits = TRUE`):
  `reopenForCorrection` (`invoices.service.ts:276`) asks for a replacement when it reads the
  invoice, and then looks at the status alone; `createReplacement` (`:310`) creates the draft
  by the id of an invoice it read as rejected. Both go through, although "the rejected
  invoice stays rejected, never issued" (`:283`).
* Two payments of one quarter (`QuarterOnce`, `OnePayer = FALSE`): `createF24` and
  `markPaidOnPortal` (`stamp-duty.service.ts:63`, `:106`) each check that the other has not
  been done, and write different columns of one row.
* Two plans (`NeverOverspent`, `Overlaps = {{"createPlan"}}`): `createPlan` (`f24.service.ts:190`)
  saves uses computed from what was left of the credits; the unique key stops a second plan
  of the same year only. `TODO.md:56` knows of it.
* Two admins who take each other's role away (`AdminAlways`, `OneManager = FALSE`).
* A payment beside `deletePlan` (`f24.service.ts:264`), which deletes by id a plan whose forms
  it has read before: the paid form goes too.
* Two `markFiled` of one return (`return-filing.service.ts:42`): the upsert takes the other's
  return for its own, and the credits are created again.
* A plan beside `unmark` (`return-filing.service.ts:99`), which looks at the uses before the
  transaction that deletes the credits: a credit in use goes.

A property about the last three would fail where these requests overlap, and restate
one check where they do not.

## Proofs

Some theorems have the form `Spec => []P \/ <>R`: `P` holds of every behaviour in which
`R`, the overlap of two named requests, does not happen at any moment. The code excludes no
such overlap and neither does the theorem: everything else may overlap, fail and stop, with
no assumption on the constants but their types. As nothing obliges a system without fairness to
go on, a behaviour can be cut short before its first `R`, so what is proved is that `P`
is not violated before `R` has happened. What `R` then does
is under "Races that no run shows", unless a run shows it.

`SdiTransmissionsProofs` proves for every set of invoices, senders, syncs and
uploads and every bound:

* `TypeCorrect`: `Spec => []TypeOK`, whatever SMTP reports. Types alone are not
  inductive: writing a row of the invoice of a transmission needs the transmission
  to have one. `BaseInv` adds that made transmissions have an invoice and a file
  (`RowsOK`), that file names in use are within bounds (`FilesOK`), that requests
  past the claim and readers past the match hold a made transmission
  (`RequestsOK`, `ReadersOK`).
* `DeliveredOnce`: `Spec => []NoDuplicateDelivery`, assuming
  `SmtpAmbiguous = FALSE`; `sdi_reopen` shows the assumption is needed for what
  follows from it. A transmission is *open* while its message has left, or may
  still leave, and has not failed for certain. The invariant `IInv` adds to
  `BaseInv` that two open transmissions never share a file (`OneOpen`) and that
  an `ISSUED` invoice has no open transmission of its file (`IssuedClosed`). Only a
  claim opens a transmission (`OpenStep`), and it needs an `ISSUED` invoice
  (`ClaimEffect`), so `IssuedClosed` gives `OneOpen`. An invoice becomes `ISSUED` by
  an issue, with a name above every used one; by a failed send, which closes its
  transmission (`FailureCloses`); or by the first failure receipt of the provider,
  whose message is lost (`ReportCloses`). Together these are `IssuedStep`, and a
  closed transmission never opens again.

From there it goes on:

* `OutcomesGenuine` and `SentAwaited`: `Spec => []OutcomeGenuine` and
  `Spec => []SentIsAwaited`, whatever SMTP reports. The invariant (`GenuineInv`) says
  where the receipts in flight come from: what a reader holds was given by SDI to the
  file of the transmission it found (`HeldOK`), and an outcome on a row belongs to the
  row's file, which has a transmission (`DecidedOK`); a draft has no file (`BlankOK`).
  A stale reader does no harm because `setSdiOutcome` matches the row by id *and* file.
* `IssuedAtMostOnce`: `Spec => []IssuedOnce`, assuming `SmtpAmbiguous = FALSE`. `LifeInv`
  adds to `IInv` and `GenuineInv` that a file has one verdict at most (`OneVerdict`),
  since two open transmissions never share one (`OneOpen`) and what was sent with another
  tool is never sent from here (`ChannelOK`, `VerdictsOK`); and that a file SDI has not
  rejected is still that of its invoice (`CurrentOK`), since only a rejection is corrected.
* `LifecycleKept`: `Spec => ImplementsLifecycle`, under the same assumption. The rows move
  in few ways (`InvoiceMoves`: an issue, a correction, a claim, a reopening, a
  judgement), each of which is a step of `InvoiceLifecycle` (`MoveIsMove`); a judgement is
  `Decide` the first time and a stutter after, by `OneVerdict`. A corrected file stays in
  `used`, being that of a transmission (`UsedKept`).

`ReceiptsSyncProofs` proves for all syncs and bounds:

* `SyncTypeCorrect`: `Spec => []TypeOK`. The position to resume from is the saved UID
  minus that of the start of the inbox, so the invariant (`BaseInv`) needs every
  cursor, saved or held by a sync, to stand for a position in the inbox (`PositionsOK`).
* `NothingSkipped`: `Spec => []NoReceiptSkipped`, assuming `SmtpAmbiguous = FALSE` and
  `SlowLogins = FALSE`; `sync_failed_send` shows the first is needed. `IInv` says of
  every position that is or may be saved that all receipts up to it have been applied
  (`Read`): that of the cursor, those held by syncs that are about to open or are
  reading the inbox, and, for a rescan that starts past the end because nothing was
  awaited, the newest message at the opening (`SyncRead`). Messages keep their order and
  decided transmissions stay decided (`Grows`), so what is read stays read, whoever
  writes the cursor and when; this is why the unconditional save and the lock
  without an owner do no harm. `RescanRead` is the heart of it: a receipt comes after
  its transmission was made (`MailOK`), so none that is awaited lies before the date
  to search from.
* `LockKept`: `Spec => []LockSet`, assuming `SlowSyncs = {}`: a sync whose lock was
  taken over releases it when it ends (`sdi-receipts-sync.service.ts:74`), although
  another runs. It costs no receipt, as `NothingSkipped` has no such assumption.

`IssuingProofs` proves every property of the run `issuing`, for any invoices, series,
texts, requests and bounds. Six of its theorems are under the two assumptions of that run
(`ConcurrentEdits = FALSE`, `SlowWrites = FALSE`); `IssuingTypes`, `ReplacedForGood` and
`DraftsChange` are under neither:

* `FilesMatchRows`, `NamesUsedOnce`, `NumbersUsedOnce`, `NumbersWithoutGaps`:
  `XmlMatchesRow`, `OneDocumentPerName`, `NumbersOnce` and `NoGaps` always hold.
  The invariant (`IssuingInv`) has two parts. `DataInv` is about rows, files and SDI: no two
  rows share a file or a number of a series (`UniqueOK`), what was sent belongs to a
  numbered invoice, which is why removing a draft takes no transmission with it
  (`SentOK`), and what SDI got is the document of the row for as long as the row has that
  file (`ReceivedOK`). The rest is what a request may rely on between its read and its
  write: one issue at most is past the lock (`SingleOK`); the name it will use is no row's
  but an import's and was never sent; once its row is updated nobody else takes its
  number; the numbers below are given, or skipped by an import (`IssueOK`); the invoice
  of an edit, a removal, a correction or a replacement is still in a status that
  allows it (`EditOK`), since the others on it are of the same kind (`KindsOK`).
  `RowFits` says once when a row may take the place of another, `OthersStay` when the
  other requests do not notice; each action then shows its row to fit.
* `NumbersKept`: `Spec => NumberKept`, from the eight ways a row moves (`RowMoves`,
  `EveryStepMoves`).
* `LifecycleImplemented`: `Spec => ImplementsLifecycle`. Each move is a step of
  `InvoiceLifecycle` or none (`MoveOfOne`); a corrected file stays used because it was
  sent (`UsedMoves`).
* `IssuingTypes`: `Spec => []TypeOK`, whatever overlaps and however late a write comes; the
  invariant (`TypesInv`) adds that an issued row has its contents and its file
  (`RowsTyped`), and that the row an issue has written is still there (`IssuesTyped`).
* `ReplacedForGood`: `Spec => []ReplacedStaysRejected \/ <>CorrectedAndReplaced`. Of a
  rejected invoice with requests under way, a correction still finds no replacement, and
  a replacement finds it still rejected (`RejectedOK`, in `LinksInv`): two corrections or
  two replacements do each other no harm, and nothing else begins on a rejected
  invoice. Only the two kinds under way together break it.
* `DraftsChange`: `Spec => OnlyDraftsChange \/ <>ChangedWhileIssued`. An edit or a removal
  finds a draft when it writes, or nothing (`DraftOK`, in `DraftsInv`), as long as no issue
  commits while it is under way: `ChangedWhileIssued` is the moment before that commit,
  and `issuing_edits` shows what comes after it.

`TaxPlansProofs` proves every property of the run `plans`, for any requests, years, amounts
and number of credits, and any `Overlaps` and `AnyReturn`:

* `PlansTypes`: `Spec => []TypeOK`. The invariant (`RowsInv`) adds that no form uses a credit
  that is not there (`UsesExist`): the uses of a deleted credit go with it.
* `NeverOverspent`: `Spec => []NotOverspent \/ <>SharedCredit \/ <>EditedInUse`: two plans
  under way that count on the same credit, or the edit of a credit that a plan under way
  counts on. `MoneyInv` says that the uses computed for a plan still fit in what is
  left of each credit when they are saved (`Covered`): whatever else happens meanwhile
  only gives credit back, or deletes the credit, and then the plan is refused. The uses fit when
  they are computed since no form takes more than its credits have left (`SumAtMost`).
* `CreditsCarriedOnce`: `Spec => []CarriedOnce \/ <>EditedInUse \/ <>CarriedBeside \/
  <>WithdrawnCarried`: the edit above; a return filed from credits that another request is about to
  edit, use or take out; a return taken back whose credits the next has absorbed
  (`plans_refile`). `CarriedInv` says that what a return shows as carried (LM43 less
  LM44) is covered by what is left of the credits it absorbed (`ShownRight`), and what a
  return under way has read by what is left of those it will absorb (`ReadRight`): the one
  set becomes the other in its transaction. The requests under way leave absorbed
  credits alone (`Keeps`), and the deletion of a plan adds to what is left.

`DeskProofs`:

* `WithinTotal`: `CollectionsSpec => []CollectedWithinTotal`, for any documents, clerks
  and amounts of either sign. The lock makes the sum of a clerk the sum at the insertion, but
  for removals, which take no lock. `ClerkOK` says what is left of it: until something is
  removed the sum is exact, and while no money went back it is at least what is there
  now, counted with the sign of the document (`NoneBack`: no collection is of the other sign).
* `QuarterOnce`: `FormsSpec => []QuarterPaidOnce \/ <>TwoPayers \/ <>Revived`, for any
  `OnePayer` and `AskedStatuses`. A quarter and its form know each other, and then
  nothing was paid on the portal (`LinkedOK`); a request that pays a quarter may still
  rely on what it read of it (`PayerOK`). `TwoPayers` are two requests that pay one
  quarter, one of them with a form; two marks on the portal are one
  payment. `Revived` is a cancelled form of a quarter about to be planned or paid again: it
  had made place for a second one. The API accepts `CANCELLED`, but no page of the web
  interface sends it.
* `EachInstallmentOnce`: `FormsSpec => []InstallmentsOnce \/ <>TwoCreations \/
  <>InstallmentCancelled`. No two forms are of one installment (`InstallmentsApart`),
  since the request that creates them found none and goes upwards (`CreationOK`).
* `QuotationNearest`: `RatesSpec => []NearestQuotation`. A day is *settled* when it is
  published or over; a remembered day is settled and holds what the Bank says
  (`RememberedOK`), and the days a request went past have no rate of its currency
  (`Skipped`).
* `DeskTypes`: `DeskSpec => []DeskTypeOK`, from the three parts together (`DeskInv`).
* `TotalsAgree`: what is stored of an invoice and what is written in its file agree
  (`InvoiceAddsUpFor`) for any lines, discounts included, any number of installments, and
  any professional fund or INPS surcharge. The row rounds line by line in
  cents, the file starts again from the lines; the last installment takes what the equal ones
  leave. The hypothesis is that the lines come to no less than nothing: below zero the row keeps
  a negative fund that the file leaves out (`api/invoices/services/invoices.service.ts:684`).
  `InvoicesAlways`: `DeskSpec => []InvoiceAddsUp`; `AskedInv` says what is asked, and
  `CasesCharge` that the lines asked about come to no less than nothing.
* `UploadsAlways`: `DeskSpec => []ImportAsShown`, from `PreviewKept` below and `AskedInv`;
  `SizedOK` and `MixedOK` say that the uploads asked about are ones it speaks of.
* `DebtsPaid`: what the rows of a plan pay of a debt, without surcharge and interest, is
  never more than the debt and less by at most n - 1 cents for n installments, for any
  amounts, credits, order of the sections and start. It is the debt to the cent for
  contributions, whose rows carry no surcharge; for a second advance; and for a tax whose
  surcharge is zero or at least (n - 1)(n - 2) cents (`SpreadsOver`): see *Small debts*
  below. The form of the compensation pays what the credits cover (`CreditsCover`), the
  installments what is left (`InstallmentsPay`), the last form the second advance;
  `PaidForConcat` puts them together.
* `CreditsCover`: no credit is used beyond its amount, all together are used for what the
  rows of the compensation come to, which is what the debts go down by; no balance or
  first advance is left while credits are; the debts go down in the order chosen, each
  before the next is touched; second advances are left alone (`Covers`).
* `ScheduleKept`: all of `ScheduleExactFor`, for any debts, credits, order, start and
  number of installments, if what the credits leave of each debt is nothing or can be
  split (`AmplyLeft`). `Ample` says what that means: with n installments, more than n(n -
  1)/2 cents, so that the last installment, which absorbs the rounding of the others,
  still pays something (`InstallmentsPositive`); and a surcharge that spreads over them,
  so that no row has a negative one (`SharesPositive`). Then the rows of each installment
  are sound and come to their part of each debt with its surcharge and the interest
  (`RowsOfDebtCome`, `FormComes`); added up by installments first and by debts afterwards
  (`SumSwap`) they are the debts that are split and what is added to them (`DebtComes`,
  `SplitComes`), and with the compensation and the second advances what is owed and what
  is added (`PlanAddsUp`, `PlanComes`). The dates follow each other because the only one
  that is moved, to 20 August, stays before the next (`DatesFollow`).
* `LimitsKept`: all of `LimitsKeptFor`, for any two plans, debts, credits and codes. A use
  counts as far as it goes beyond the debts of its own tax that the uses before it left,
  so over the form the uses count for what they exceed those debts by, in whatever order
  (`HorizontalIs`, `LimitSplit`, `SumBeyond`); the warning counts the earlier plan whole,
  hence never less than it should (`LimitSeen`).
* `ScheduleAlways`: `DeskSpec => []ScheduleExact`, from the two and `AskedInv`. That the
  plans asked about leave enough to be split is an argument on the order (`CasesLeave`):
  of the debts at most one is paid in part, and what is left of it is what the debts up to
  it exceed the credits by.
* `YearsClose`: what the forms of a year pay is what the next year counts
  (`YearClosesFor`), for any revenue, scheme, credit and start and up to 51 installments;
  the calendar has room for seven. The contributions and their advances are exact; of the
  advances of the tax some cents may be missing (`DebtsPaid`), less than 50 of them, so
  that rounding to euros gives back the amount, which is one of whole euros.
  `YearsAlways`: `DeskSpec => []YearCloses`.
* `YearsAgree`: the return of any such year agrees with its plan (`ReturnAgreesFor`): the
  balances are rounded once more, to the euro, and nothing is lost twice; the fixed
  installments of artisans and traders add up, the last of them taking what the equal ones
  leave.
* `GuideExplains`: the three lists of the return guide explain the difference between the
  revenue by issue date and the collected one (`Explained`), for any documents. Amounts
  are counted in parts of a cent: without a fund they are whole cents (`Figures`) and
  nothing is rounded, with one each figure is at most half a cent away (`CentsNear`), and
  an entry of another year half a cent for each of its collections (`EntryNear`); over the
  documents the errors add up (`SumNear`).
* `ProjectionHolds`: who issues a draft without being told of the exit threshold does not
  pass it (`Warned`), for any documents and whichever of those counted are then settled.
  Settling a document brings what the projection counts as open, or gives something back
  (`RemainsIs`), so the revenue then is at most what was collected, open and asked for
  (`SettledWithin`).
* `ReturnsAlways`: `DeskSpec => []ReturnAgrees`, from the last three and `AskedInv`.

`UploadsProofs` proves `PreviewKept`: `ImportAsShownFor(q)` for every database and every
upload, whatever it holds, if names tell its entries apart (`FilesOK`). They do: of two files with one
name the second is ignored (`archive-reader.ts:50`), a name of an uploaded file has no
path, and the reader of archives returns an object, with one value for a path. The
model computes with folds; each fold is first shown to be a run that takes one element
after the other (`StepsExist`, `Upwards`: the fold takes the largest index of a set of
indices away, so the run is the fold over 1..k), then an invariant of the run is proved step
by step:

* reading (`ExtractedAll`): the entries read have distinct names, as many as counted and no
  larger than counted while no limit is exceeded; every file so far has its name ignored or
  its entries read or ignored (`Took`, `ExtractedOn`).
* invoices (`InvoiceForeseen`): every row the import has stored was there before or is
  remembered by the preview with its number, progressive and file name (`Foreseen`).
  Hence an invoice shown as new, whose number, progressive and name the preview
  did not remember, passes the check of the import, whichever of the others were left out.
* receipts (`ReceiptExpected`): what the import has recorded and the outcomes it has given
  are among those the preview remembers (`Expected`). The invoice that a receipt
  requires is imported before, because the invoices run first and the interface selects
  it with the receipt.

`PlatformProofs` proves for any users, tenants, sessions, requests, contents and versions:

* `SessionsAlways`: `AccountsSpec => []SessionsCurrent`. The types need that an open
  session is of a user that exists (`SessionsOK`; together `AccountsInv`): removing a user
  closes its sessions in the same step (the rows cascade), and a login under way
  finds no user to make a session for.
* `AdminAlways`: `AccountsSpec => AdminStays \/ <>TwoTakeAway`, for any `OneManager`. The
  check that another admin is left comes before the write, so what is inductive is
  that the answer still holds when the write comes (`SparedOK`): while a request that
  demotes or removes a user is under way, somebody else is an admin. It is lost only to
  another such request for a different user (`TwoTakeAway`), two admins who demote
  each other. A promotion by `create-admin`, a stale session, a demotion asked twice do no harm.
* `VersionsAlways`: `RuleSetsSpec => []VersionsDiffer`. Versions are numbered one after
  the other (`Numbered`), so the unique index lets in, of two seeds that read the same
  last version, one; and what a seed is about to write differs from the version
  before its own (`SeedOK`).
* `ActiveAlways`: `RuleSetsSpec => ActiveStays`, with no assumption on how
  many activate at once: a transaction that supersedes a row activates another.
* `PlatformTypes`: `PlatformSpec => []PlatformTypeOK`, from the two invariants together.

`Numbers` has the facts these rest on. A bounded set of numbers has a largest one, which
`Max` returns (`MaxOf`): numbers of invoices, files, versions and credits. What a sum
over a finite set becomes when an element comes or goes (`SumAdd`, `SumRemove`: it does not
depend on the order), when no value grows (`SumAtMost`), and for a difference of
functions (`SumMinus`): collections and the uses of credits; what equal
numbers come to (`SumEqual`), and shares of which the last takes the rest (`SumShares`): the
installments of an invoice and of a debt; sums of one sequence after another (`SumConcat`),
of the same numbers under other names (`SumRenamed`), of sums of functions (`SumPlus`, `SumTimes`)
and of unions of sets (`SumUnion`, `SumPart`); sums of errors that are each small (`SumNear`);
what a function has beyond another (`SumBeyond`); a table added up by rows or by columns
(`SumSwap`), and numbers added up by groups (`SumGroups`). The
inductions, over numbers and over finite subsets, are stated with sets in place of
predicates (`NumbersFrom0`, `SubsetsFromEmpty`) and come from the well-foundedness of <
in the library.

Assumptions on the constants: `SdiAssumption`, `IssuingAssumption`, `SyncAssumption`,
`PlansAssumption`, `CollectionsAssumption`, `FormsAssumption`, `RatesAssumption`,
`AccountsAssumption`, `RuleSetsAssumption` and `UploadsAssumption`, which the runs evaluate. Model-checked
only: liveness (`DeliveryDecided`, `ReceiptsRead`), out of reach of the prover, as is
anything with `ENABLED`; and `DeadlinesRight`, on the calendar: Easter and the chains of holidays are
chains of divisions that the prover does not follow, and the run asks for every year from
2024 to 2099. Every other property of a passing run is stated by a theorem.

*Small debts.* `ScheduleExact` does not hold of every amount, and the attempt to prove it
says where it stops. The installments of a debt with its surcharge and those of the debt alone
are rounded apart, and their difference is the surcharge written in the row
(`packages/fiscal-rules/src/f24-schedule.ts:207`); each can round the other way, and the last
absorbs it all. When the last difference is below zero the row records no surcharge (`:210`),
so the rows without their surcharges come to some cents less than the debt: a balance of
47 euros, deferred in six installments, counts as 46.99 paid. `SharesGrow` shows that it
cannot happen from (n - 1)(n - 2) cents of surcharge on, which is 48.75 euros of debt at most, and
`DebtsPaid` that no more than a cent for each installment but the last is missing. Likewise a
debt of a few cents has installments of nothing, hence rows that pay nothing (`Ample`). What
the rows come to with their surcharges is right, and the return rounds to whole euros what they count as paid.

## Plan

1. A theorem on the calendar: that a deferral ends, and on a working day, in any year.
2. The composition of `InvoiceIssuing` and `SdiTransmissions` over the same rows, which
   now meet only in `InvoiceLifecycle`.
3. Matching a receipt by subject, for receipts without the original Message-ID.
4. The last figures of the tax year: the revenue of each activity, the contributions
   entered by hand.

## Not modelled

* Matching receipts by subject, and the PEC settings with their test message: the first
  is a fallback no receipt of the certified mail needs, the second writes one row of
  credentials.
* Profiles, customers, sources, the audit log: operations on single rows, whose
  concurrent updates are last writer wins. Nothing in the repository says that a tenant
  has one default account at most, so that two are no violation.
* Building and parsing XML, PDF and telematic files, pages and forms of the web
  interface, seeds and scripts: layout, texts and transfer objects without a state of
  their own. They are more than half of the lines of the repository, and what they print
  is what the modelled parts computed. The totals of the XML, the file names and the
  selection of an import are modelled, because other parts decide on them.
* Rate limits, hashes and expiry of sessions; upload sizes set by controllers.

`PROJECT.json` gives the reason for each component.
