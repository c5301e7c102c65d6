-------------------------------- MODULE Uploads --------------------------------
(***************************************************************************)
(* Uploads of invoices and SDI receipts, loose or in ZIP archives: what is *)
(* extracted (common/import/archive-reader.ts), which handler takes it     *)
(* (imports/services/document-import.service.ts), what the preview shows   *)
(* and what the import then does (invoices-import.service.ts and           *)
(* sdi-receipts-import.service.ts).                                        *)
(*                                                                         *)
(* Preview and import run the same checks, the import against the database *)
(* as it grows, the preview against what it remembers of the upload.       *)
(* An entry is its name, its base name, whether it is an XML file, its     *)
(* size and the document it is.                                            *)
(***************************************************************************)
EXTENDS Integers, Sequences, SequencesExt, Functions

CONSTANTS
  MAX_ARCHIVE_ENTRIES,           \* files in one upload, archives included
  MAX_ARCHIVE_EXTRACTED_BYTES,   \* extracted in one upload
  MAX_INVOICE_FILE_BYTES         \* of one file

ASSUME UploadsAssumption == {MAX_ARCHIVE_ENTRIES, MAX_ARCHIVE_EXTRACTED_BYTES, MAX_INVOICE_FILE_BYTES} \subseteq Nat

-----------------------------------------------------------------------------
(* archive-reader.ts.  An uploaded file is an archive with its entries, a loose XML file with itself as entry, or neither. *)

NothingUsed == [entries |-> 0, bytes |-> 0, exceeded |-> FALSE]

\* One file counted against the limits of the whole upload; past the limit on files no bytes are counted.
take(budget, size) ==
  LET n == budget.entries + 1
      bytes == IF n > MAX_ARCHIVE_ENTRIES THEN budget.bytes ELSE budget.bytes + size
  IN [entries |-> n, bytes |-> bytes,
      exceeded |-> budget.exceeded \/ n > MAX_ARCHIVE_ENTRIES \/ bytes > MAX_ARCHIVE_EXTRACTED_BYTES]

\* The entries of an archive, up to the one that exceeds a limit.
ReadEntry(acc, e) ==
  IF acc.budget.exceeded THEN acc
  ELSE IF ~ e.xml \/ e.size > MAX_INVOICE_FILE_BYTES THEN [acc EXCEPT !.ignored = @ \cup {e.name}]
  ELSE LET budget == take(acc.budget, e.size)
       IN [acc EXCEPT !.budget = budget, !.entries = IF budget.exceeded THEN @ ELSE Append(@, e)]

\* An archive that cannot be read, exceeds a limit or is empty is ignored as a whole.
readZip(acc, f) ==
  LET read == FoldLeft(ReadEntry, acc, f.entries)
  IN IF ~ f.readable \/ read.budget.exceeded \/ f.entries = <<>>
     THEN [read EXCEPT !.entries = acc.entries, !.ignored = @ \cup {f.name}]
     ELSE read

\* A loose file counts first, then it may be too large by itself.
readXml(acc, f) ==
  LET e == f.entries[1]
      budget == take(acc.budget, e.size)
      fits == ~ budget.exceeded /\ e.size <= MAX_INVOICE_FILE_BYTES
  IN [acc EXCEPT !.budget = budget,
                 !.entries = IF fits THEN Append(@, e) ELSE @,
                 !.ignored = IF fits THEN @ ELSE @ \cup {f.name}]

Extract(acc, f) ==
  IF f.name \in acc.names \/ acc.budget.exceeded \/ f.form = "other"
  THEN [acc EXCEPT !.names = @ \cup {f.name}, !.ignored = @ \cup {f.name}]
  ELSE LET named == [acc EXCEPT !.names = @ \cup {f.name}]
       IN IF f.form = "zip" THEN readZip(named, f) ELSE readXml(named, f)

extractXmlEntries(files) ==
  FoldLeft(Extract, [entries |-> <<>>, ignored |-> {}, names |-> {}, budget |-> NothingUsed], files)

-----------------------------------------------------------------------------
(* Invoices.  The database: rows with number, progressive and file, the last outcome of each file, recorded receipts. *)

check(db, e) ==
  IF ~ e.doc.valid THEN "ERROR"
  ELSE IF \E i \in db.invoices : i.number = e.doc.number THEN "DUPLICATE"
  ELSE IF \E i \in db.invoices : i.sequence = e.doc.sequence \/ i.file = e.base THEN "ERROR"
  ELSE "NEW"

PreviewStatusWithoutNames(memory, e, found) ==   \* mutant: file names of the upload are not remembered
  IF found # "NEW" THEN found
  ELSE IF e.doc.number \in memory.numbers THEN "DUPLICATE"
  ELSE IF e.doc.sequence \in memory.sequences THEN "ERROR" ELSE "NEW"
\* What the documents before it in the upload would have stored.
PreviewStatus(memory, e, found) ==
  IF found # "NEW" THEN found
  ELSE IF e.doc.number \in memory.numbers THEN "DUPLICATE"
  ELSE IF e.doc.sequence \in memory.sequences \/ e.base \in memory.files THEN "ERROR" ELSE "NEW"

Row(e, status, requires) == [name |-> e.name, status |-> status, requires |-> requires]
NothingShown == [rows |-> {}, numbers |-> {}, sequences |-> {}, files |-> {}, upcoming |-> {}]

\* A document that fails the checks against the database is not remembered.
PreviewInvoice(db, memory, e) ==
  LET found  == check(db, e)
      status == PreviewStatus(memory, e, found)
      seen(known, x) == IF found = "ERROR" THEN known ELSE known \cup {x}
      new(known, x)  == IF status = "NEW" THEN known \cup {x} ELSE known
  IN IF e.doc.kind # "INVOICE" THEN memory
     ELSE [rows      |-> memory.rows \cup {Row(e, status, {})},
           numbers   |-> seen(memory.numbers, e.doc.number),
           sequences |-> seen(memory.sequences, e.doc.sequence),
           files     |-> new(memory.files, e.base),
           upcoming  |-> new(memory.upcoming, [file |-> e.base, entry |-> e.name])]

previewInvoices(db, entries) == FoldLeft(LAMBDA memory, e : PreviewInvoice(db, memory, e), NothingShown, entries)

\* Each one in a transaction; an error is the result of that document alone.
ImportInvoice(selected, acc, e) ==
  IF e.doc.kind # "INVOICE" \/ e.name \notin selected \/ check(acc.db, e) # "NEW" THEN acc
  ELSE [db       |-> [acc.db EXCEPT !.invoices = @ \cup {[number |-> e.doc.number, sequence |-> e.doc.sequence, file |-> e.base]}],
        imported |-> acc.imported \cup {e.name}]

importInvoices(db, entries, selected) ==
  FoldLeft(LAMBDA acc, e : ImportInvoice(selected, acc, e), [db |-> db, imported |-> {}], entries)

-----------------------------------------------------------------------------
(* Receipts: sdi-receipts-import.service.ts and receipt-import-decision.ts.  A receipt is its own key. *)

Sent(db, f)   == f \in DOMAIN db.outcome   \* some transmission has the file
Stored(db, f) == f \in {i.file : i \in db.invoices} \/ Sent(db, f)
NoMemory      == [keys |-> {}, outcomes |-> <<>>]

\* The outcome of a file: the one a receipt earlier in the upload gave, or else that of its last transmission.
knownOutcome(db, memory, f) ==
  IF f \in DOMAIN memory.outcomes THEN memory.outcomes[f] ELSE IF Sent(db, f) THEN db.outcome[f] ELSE "none"

decideReceipt(type, alreadyRecorded, known) ==
  CASE alreadyRecorded -> "DUPLICATE"
    [] ~ alreadyRecorded /\ known = "none" -> "NEW"
    [] ~ alreadyRecorded /\ known # "none" -> IF known = type THEN "DUPLICATE" ELSE "ERROR"

match(db, memory, d) == decideReceipt(d.type, d \in memory.keys \cup db.recorded, knownOutcome(db, memory, d.file))

\* The file takes the outcome of the receipt.
Taking(outcomes, d) == [f \in {d.file} \cup DOMAIN outcomes |-> IF f = d.file THEN d.type ELSE outcomes[f]]

Remember(memory, d, status) ==
  [keys     |-> memory.keys \cup {d},
   outcomes |-> IF status = "NEW" THEN Taking(memory.outcomes, d) ELSE memory.outcomes]

\* A receipt that cannot be read, or that no invoice stored or shown as new has the file of, is an error and not remembered.
PreviewReceipt(db, upcoming, acc, e) ==
  LET d        == e.doc
      carriers == {u.entry : u \in {v \in upcoming : v.file = d.file}}
      status   == match(db, acc.memory, d)
  IN IF d.kind # "SDI_RECEIPT" THEN acc
     ELSE IF ~ d.valid \/ (~ Stored(db, d.file) /\ carriers = {}) THEN [acc EXCEPT !.rows = @ \cup {Row(e, "ERROR", {})}]
     ELSE [memory |-> Remember(acc.memory, d, status),
           rows   |-> acc.rows \cup {Row(e, status, IF Stored(db, d.file) THEN {} ELSE carriers)}]

previewReceipts(db, entries, upcoming) ==
  FoldLeft(LAMBDA acc, e : PreviewReceipt(db, upcoming, acc, e), [rows |-> {}, memory |-> NoMemory], entries)

\* A new receipt goes to the last transmission of the file, made if there is none, which takes its outcome.
ImportReceipt(selected, acc, e) ==
  LET d      == e.doc
      status == match(acc.db, acc.memory, d)
  IN IF d.kind # "SDI_RECEIPT" \/ e.name \notin selected \/ ~ d.valid \/ ~ Stored(acc.db, d.file) THEN acc
     ELSE IF status # "NEW" THEN [acc EXCEPT !.memory = Remember(@, d, status)]
     ELSE [memory   |-> Remember(acc.memory, d, status),
           db       |-> [acc.db EXCEPT !.outcome = Taking(@, d), !.recorded = @ \cup {d}],
           imported |-> acc.imported \cup {e.name}]

importReceipts(db, entries, selected) ==
  FoldLeft(LAMBDA acc, e : ImportReceipt(selected, acc, e), [db |-> db, memory |-> NoMemory, imported |-> {}], entries)

-----------------------------------------------------------------------------
(* document-import.service.ts: each handler takes the documents of its kind, the invoices before the receipts that refer to them *)

preview(db, files) ==
  LET upload   == extractXmlEntries(files)
      invoices == previewInvoices(db, upload.entries)
      others   == {e \in ToSet(upload.entries) : e.doc.kind \notin {"INVOICE", "SDI_RECEIPT"}}
      ignored  == upload.ignored \cup {e.name : e \in others}
  IN invoices.rows \cup previewReceipts(db, upload.entries, invoices.upcoming).rows
       \cup {[name |-> n, status |-> "IGNORED", requires |-> {}] : n \in ignored}

\* The names of the documents imported.
importFiles(db, files, selected) ==
  LET entries  == extractXmlEntries(files).entries
      invoices == importInvoices(db, entries, selected)
  IN invoices.imported \cup importReceipts(invoices.db, entries, selected).imported

-----------------------------------------------------------------------------
\* The web interface lets the user select rows shown as new, with those they require.
Selections(rows) ==
  LET new == {r \in rows : r.status = "NEW"}
  IN {{r.name : r \in s} : s \in {t \in SUBSET new : \A r \in t : r.requires \subseteq {o.name : o \in t}}}

\* The preview keeps its word: whichever of the rows shown as new are selected, all of them are imported and nothing else,
\* also when the files of an upload clash with each other or with what is stored.  Nothing uploaded vanishes: every file,
\* and every entry of an archive that is read, has a row; and many archives together do not get past the limits of one
\* upload (preview, importFiles, extractXmlEntries).
ImportAsShownFor(q) ==
  LET rows    == preview(q.db, q.files)
      read    == extractXmlEntries(q.files).entries
      named   == {r.name : r \in rows}
  IN /\ \A s \in Selections(rows) : importFiles(q.db, q.files, s) = s
     /\ \A f \in ToSet(q.files) : f.name \in named \/ \A e \in ToSet(f.entries) : e.name \in named
     /\ Len(read) <= MAX_ARCHIVE_ENTRIES
     /\ SumFunctionOnSet([k \in DOMAIN read |-> read[k].size], DOMAIN read) <= MAX_ARCHIVE_EXTRACTED_BYTES
================================================================================
