------------------------------- MODULE MCPlatform -------------------------------
(* What the platform admins manage, accounts and fiscal rule sets, which     *)
(* share no state: in each behaviour one of them is chosen and moves.        *)
EXTENDS Accounts, RuleSets, TLC

VARIABLE part

platformVars == <<part, accountVars, ruleSetVars>>

\* Requests, sessions and users are interchangeable; the two parts have the same requests.
Interchangeable == Permutations(Callers) \cup Permutations(SessionIds) \cup Permutations(Users)

PlatformInit ==
  /\ part \in {"accounts", "rule sets"}
  /\ AccountsInit /\ RuleSetsInit
  /\ part # "accounts"  => tenants = {}
  /\ part # "rule sets" => bundled = CHOOSE c \in Contents : TRUE

PlatformNext ==
  \/ part = "accounts"  /\ AccountsNext /\ UNCHANGED <<part, ruleSetVars>>
  \/ part = "rule sets" /\ RuleSetsNext /\ UNCHANGED <<part, accountVars>>

PlatformSpec == PlatformInit /\ [][PlatformNext]_platformVars

\* The rows and requests of the part that moves are well typed: every session has a user and a tenant that exist, every
\* version its place.
PlatformTypeOK ==
  /\ part = "accounts"  => AccountsTypeOK
  /\ part = "rule sets" => RuleSetsTypeOK
================================================================================
