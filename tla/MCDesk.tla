--------------------------------- MODULE MCDesk ---------------------------------
(* Collections, F24 forms, exchange rates and questions to the fiscal rules,  *)
(* which share no state: in each behaviour one of them is chosen and moves,   *)
(* the others rest.                                                           *)
EXTENDS Collections, Forms, ExchangeRates, MCRules, TLC

VARIABLE part

deskVars == <<part, collectionVars, formVars, rateVars, ruleVars>>

BothSigns == {1, 2, -1, -2}
\* Requests are interchangeable, the same two in every part.
Interchangeable == Permutations(Clerks)

DeskInit ==
  /\ part \in {"collections", "forms", "rates", "rules"}
  /\ CollectionsInit /\ FormsInit /\ RatesInit
  /\ part # "collections" => \A d \in Documents : document[d].type = "TD01" /\ document[d].total = 1
  /\ IF part = "rules" THEN RulesInit ELSE asked = Quiet /\ tie = 1

DeskNext ==
  \/ part = "collections" /\ CollectionsNext /\ UNCHANGED <<part, formVars, rateVars, ruleVars>>
  \/ part = "forms"       /\ FormsNext       /\ UNCHANGED <<part, collectionVars, rateVars, ruleVars>>
  \/ part = "rates"       /\ RatesNext       /\ UNCHANGED <<part, collectionVars, formVars, ruleVars>>
  \/ part = "rules"       /\ AskRules        /\ UNCHANGED <<part, collectionVars, formVars, rateVars>>

DeskSpec == DeskInit /\ [][DeskNext]_deskVars

\* The rows and requests of the part that moves are well typed: every id a request read and every sum it decides on.
DeskTypeOK ==
  CASE part = "collections" -> CollectionsTypeOK
    [] part = "forms"       -> FormsTypeOK
    [] part = "rates"       -> RatesTypeOK
    [] part = "rules"       -> tie \in {0, 1}
================================================================================
