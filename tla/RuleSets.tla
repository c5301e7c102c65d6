-------------------------------- MODULE RuleSets --------------------------------
(***************************************************************************)
(* The versioned fiscal rules of one year:                                 *)
(* apps/api/src/fiscal-rules/fiscal-rules.service.ts.                      *)
(*                                                                         *)
(* A release of the application carries the content of a set; seedBundled  *)
(* stores it as a new draft version, activate supersedes the active set    *)
(* and puts the target in its place.  Requests overlap, and a transaction  *)
(* runs at the default level of PostgreSQL: each statement sees what was   *)
(* committed before it started, waits for the rows another transaction has *)
(* written and then looks at their new values.                             *)
(***************************************************************************)
EXTENDS Integers, Sequences, FiniteSetsExt

CONSTANTS
  Contents,      \* contents of a set, as canonical and contentHash compare them
  Activators,    \* concurrent requests
  MaxVersions    \* bound of this model: rows ever stored

ASSUME RuleSetsAssumption == MaxVersions \in Nat

VARIABLES
  bundled,   \* content in the running release
  sets,      \* the FiscalRuleSet rows, in the order they were created
  admin      \* requests in progress, with what they read

ruleSetVars == <<bundled, sets, admin>>

Statuses  == {"DRAFT", "ACTIVE", "SUPERSEDED"}   \* PROPOSED is never written
IdleAdmin == [pc |-> "idle"]
RowIds    == 1..MaxVersions

RuleSetsTypeOK ==
  /\ bundled \in Contents
  /\ Len(sets) <= MaxVersions
  /\ \A i \in DOMAIN sets : sets[i] \in [version : RowIds, status : Statuses, content : Contents]
  /\ admin \in [Activators -> {IdleAdmin}
       \cup [pc : {"seed"}, version : 1..MaxVersions + 1, content : Contents]
       \cup [pc : {"activate"}, target : RowIds]
       \cup [pc : {"supersede"}, target : RowIds, seen : SUBSET RowIds]
       \cup [pc : {"superseded"}, target : RowIds, changed : SUBSET RowIds]]

RuleSetsInit ==
  /\ bundled \in Contents
  /\ sets = <<>>
  /\ admin = [a \in Activators |-> IdleAdmin]

EndAdmin(a)     == admin' = [admin EXCEPT ![a] = IdleAdmin]
WithStatus(st)  == {i \in DOMAIN sets : sets[i].status = st}
LastVersionNext == Max({0} \cup {sets[i].version : i \in DOMAIN sets}) + 1   \* mutant
LastVersion     == Max({0} \cup {sets[i].version : i \in DOMAIN sets})
\* Rows an open transaction has written: nobody else may write them until it ends.
LockedBy(a)     == IF admin[a].pc = "superseded" THEN admin[a].changed ELSE {}
Free(a, rows)   == \A b \in Activators \ {a} : LockedBy(b) \cap rows = {}

\* A new release is deployed, with another content.
Deploy ==
  /\ bundled' \in Contents \ {bundled}
  /\ admin' = [a \in Activators |-> IdleAdmin]
  /\ UNCHANGED sets

\* The newest version is read and compared with the bundled content.
SeedRead(a) ==
  /\ admin[a] = IdleAdmin
  /\ ~ \E i \in DOMAIN sets : sets[i].version = LastVersion /\ sets[i].content = bundled
  /\ admin' = [admin EXCEPT ![a] = [pc |-> "seed", version |-> LastVersion + 1, content |-> bundled]]
  /\ UNCHANGED <<bundled, sets>>

VersionTakenNever(v) == FALSE   \* mutant: no unique index
\* The unique index on year and version.
VersionTaken(v) == \E i \in DOMAIN sets : sets[i].version = v

SeedWrite(a) ==
  /\ admin[a].pc = "seed"
  /\ \/ /\ ~ VersionTaken(admin[a].version)
        /\ Len(sets) < MaxVersions
        /\ sets' = Append(sets, [version |-> admin[a].version, status |-> "DRAFT", content |-> admin[a].content])
     \/ VersionTaken(admin[a].version) /\ UNCHANGED sets   \* the request fails
  /\ EndAdmin(a)
  /\ UNCHANGED bundled

ActivateRead(a, i) ==
  /\ admin[a] = IdleAdmin
  /\ sets[i].status = "DRAFT"
  /\ admin' = [admin EXCEPT ![a] = [pc |-> "activate", target |-> i]]
  /\ UNCHANGED <<bundled, sets>>

\* The statement that supersedes finds the active sets...
SupersedeFind(a) ==
  LET q == admin[a] IN
  /\ q.pc = "activate"
  /\ admin' = [admin EXCEPT ![a] = [pc |-> "supersede", target |-> q.target, seen |-> WithStatus("ACTIVE")]]
  /\ UNCHANGED <<bundled, sets>>

SupersedeAtOnce(a) ==   \* mutant: outside the transaction
  LET q == admin[a] IN
  /\ q.pc = "supersede"
  /\ Free(a, q.seen)
  /\ sets' = [i \in DOMAIN sets |-> IF i \in q.seen THEN [sets[i] EXCEPT !.status = "SUPERSEDED"] ELSE sets[i]]
  /\ admin' = [admin EXCEPT ![a] = [pc |-> "superseded", target |-> q.target, changed |-> {}]]
  /\ UNCHANGED bundled

\* ...and, when their rows are free, changes those that still are; nobody sees it before the commit.
Supersede(a) ==
  LET q == admin[a] IN
  /\ q.pc = "supersede"
  /\ Free(a, q.seen)
  /\ admin' = [admin EXCEPT ![a] =
       [pc |-> "superseded", target |-> q.target, changed |-> q.seen \cap WithStatus("ACTIVE")]]
  /\ UNCHANGED <<bundled, sets>>

\* The target is updated by its id, whatever its status by now, and the transaction commits.
ActivateWrite(a) ==
  LET q == admin[a] IN
  /\ q.pc = "superseded"
  /\ Free(a, {q.target})
  /\ sets' = [i \in DOMAIN sets |->
       CASE i = q.target     -> [sets[i] EXCEPT !.status = "ACTIVE"]
         [] i # q.target /\ i \in q.changed -> [sets[i] EXCEPT !.status = "SUPERSEDED"]
         [] OTHER            -> sets[i]]
  /\ EndAdmin(a)
  /\ UNCHANGED bundled

\* A failed statement or a stop: nothing is written.
ActivateFails(a) ==
  /\ admin[a].pc \in {"activate", "supersede", "superseded"}
  /\ EndAdmin(a)
  /\ UNCHANGED <<bundled, sets>>

RuleSetsNext ==
  \/ Deploy
  \/ \E a \in Activators :
       \/ SeedRead(a) \/ SeedWrite(a)
       \/ \E i \in DOMAIN sets : ActivateRead(a, i)
       \/ SupersedeFind(a) \/ Supersede(a) \/ ActivateWrite(a) \/ ActivateFails(a)

RuleSetsSpec == RuleSetsInit /\ [][RuleSetsNext]_ruleSetVars

-----------------------------------------------------------------------------
\* getActive finds a set.
HasActive == WithStatus("ACTIVE") # {}

\* Once a year has a set in force it has one at any moment, whatever activations overlap, fail or stop half way: every
\* amount of that year is computed from it (getActive, activate).
ActiveStays == [][HasActive => HasActive']_ruleSetVars

\* seedBundled is idempotent and never stores the same content twice in a row, however many requests run at once and
\* releases follow: a version is there once, and differs from the one before.
VersionsDiffer ==
  \A i, j \in DOMAIN sets :
    /\ sets[i].version = sets[j].version => i = j
    /\ sets[j].version = sets[i].version + 1 => sets[i].content # sets[j].content
================================================================================
