------------------------------- MODULE MCIssuing -------------------------------
(* Instances of InvoiceIssuing for TLC. *)
EXTENDS InvoiceIssuing, TLC

\* Ids, requests and texts of a kind are interchangeable.
Interchangeable == Permutations(Invoices) \cup Permutations(Requests) \cup Permutations(Texts)
================================================================================
