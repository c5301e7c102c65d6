------------------------------ MODULE TaxPlansProofs ------------------------------
(***************************************************************************)
(* Credits are spent once: nothing uses more of a credit than it is worth, *)
(* and a return's figures stay right, for any credits, years, amounts,     *)
(* requests and whatever of them overlap, as long as none of a few races   *)
(* happens, which the theorems name: the code excludes none of them.       *)
(***************************************************************************)
EXTENDS MCPlans, Numbers

-----------------------------------------------------------------------------
(* What a sum over the plans and over credits becomes when a row changes *)

UsedIn(plans, c) == SumFunctionOnSet([y \in Years |-> plans[y].uses[c]], Years)
PlanRows         == [Years -> Plan \cup {NoPlan}]

\* What is left of a credit, an absorbed one included: negative for no credit at all.
LeftOf(credits, plans) == [c \in CreditIds |-> credits[c].amount - UsedIn(plans, c)]

LEMMA UsedIs == \A c : Used(c) = UsedIn(plan, c) /\ Used(c)' = UsedIn(plan', c)
<1>1. \A c : Used(c) = UsedIn(plan, c)
  BY DEF Used, UsedIn, SumFunction
<1>2. \A c : Used(c)' = UsedIn(plan', c)
  BY DEF Used, UsedIn, SumFunction
<1> QED
  BY <1>1, <1>2

LEMMA PlanTypes ==
  ASSUME NEW p \in Plan \cup {NoPlan}
  PROVE  /\ p.uses \in Uses /\ p.paid \in BOOLEAN /\ (p # NoPlan => p \in Plan /\ p.id \in RowIds) /\ (p = NoPlan => p.id = 0 /\ p.uses = NoUses /\ ~ p.paid)
         /\ 0 \notin RowIds
<1>1. NoPlan.uses \in Uses /\ NoPlan.paid = FALSE /\ NoPlan.id = 0 /\ NoPlan.uses = NoUses
  BY DEF NoPlan, NoUses, Uses
<1>2. \A q \in Plan : q.uses \in Uses /\ q.paid \in BOOLEAN /\ q.id \in RowIds
  BY DEF Plan
<1>3. 0 \notin RowIds
  <2>1. Cardinality(Requests) \in Nat
    BY PlansAssumption, FS_CardinalityType
  <2> QED BY <2>1 DEF RowIds
<1> QED
  BY <1>1, <1>2, <1>3

LEMMA UsedNat ==
  ASSUME NEW plans \in PlanRows, NEW c \in CreditIds
  PROVE  UsedIn(plans, c) \in Nat
<1> DEFINE f == [y \in Years |-> plans[y].uses[c]]
<1>1. \A y \in Years : f[y] \in Nat
  BY PlanTypes DEF PlanRows, Uses
<1> HIDE DEF f
<1>2. SumFunctionOnSet(f, Years) \in Nat
  BY <1>1, PlansAssumption, SumIn
<1> QED
  BY <1>2 DEF UsedIn, f

\* Only what the rows use counts.
LEMMA UsedSame ==
  ASSUME NEW plans, NEW after, NEW c \in CreditIds, \A y \in Years : after[y].uses[c] = plans[y].uses[c]
  PROVE  UsedIn(after, c) = UsedIn(plans, c)
<1> DEFINE f == [y \in Years |-> plans[y].uses[c]]
           g == [y \in Years |-> after[y].uses[c]]
<1>1. \A y \in Years : g[y] = f[y]
  OBVIOUS
<1> HIDE DEF f, g
<1>2. SumFunctionOnSet(g, Years) = SumFunctionOnSet(f, Years)
  BY <1>1, PlansAssumption, SumSame
<1> QED
  BY <1>2 DEF UsedIn, f, g

\* A plan takes the place of another of its year.
LEMMA UsedChange ==
  ASSUME NEW plans \in PlanRows, NEW after \in PlanRows, NEW c \in CreditIds, NEW y \in Years,
         \A x \in Years \ {y} : after[x].uses[c] = plans[x].uses[c]
  PROVE  UsedIn(after, c) = UsedIn(plans, c) - plans[y].uses[c] + after[y].uses[c]
<1> DEFINE f == [x \in Years |-> plans[x].uses[c]]
           g == [x \in Years |-> after[x].uses[c]]
<1>1. \A x \in Years : f[x] \in Int /\ g[x] \in Int
  BY PlanTypes DEF PlanRows, Uses
<1>2. f[y] = plans[y].uses[c] /\ g[y] = after[y].uses[c] /\ \A x \in Years \ {y} : g[x] = f[x]
  OBVIOUS
<1> HIDE DEF f, g
<1>3. SumFunctionOnSet(f, Years) = f[y] + SumFunctionOnSet(f, Years \ {y}) /\ SumFunctionOnSet(g, Years) = g[y] + SumFunctionOnSet(g, Years \ {y})
  <2>1. ASSUME NEW h, \A x \in Years : h[x] \in Int PROVE SumFunctionOnSet(h, Years) = h[y] + SumFunctionOnSet(h, Years \ {y})
    <3>1. \A x \in Years : SumFunctionOnSet(h, Years) = h[x] + SumFunctionOnSet(h, Years \ {x})
      BY <2>1, PlansAssumption, SumRemove
    <3> QED BY <3>1
  <2> QED BY <1>1, <2>1
<1>4. IsFiniteSet(Years \ {y})
  BY PlansAssumption, FS_RemoveElement
<1>5. SumFunctionOnSet(g, Years \ {y}) = SumFunctionOnSet(f, Years \ {y}) /\ SumFunctionOnSet(f, Years \ {y}) \in Int
  BY <1>1, <1>2, <1>4, SumSame, SumIn
<1>6. UsedIn(after, c) = SumFunctionOnSet(g, Years) /\ UsedIn(plans, c) = SumFunctionOnSet(f, Years)
  BY DEF UsedIn, f, g
<1> QED
  BY <1>1, <1>2, <1>3, <1>5, <1>6

\* A credit that no plan uses.
LEMMA UsedNone ==
  ASSUME NEW plans, NEW c \in CreditIds, \A y \in Years : plans[y].uses[c] = 0
  PROVE  UsedIn(plans, c) = 0
<1> DEFINE f == [y \in Years |-> plans[y].uses[c]]
           K == {0}
<1>1. (\A y \in Years : f[y] \in K) /\ 0 \in K /\ \A a, b \in K : a + b \in K
  OBVIOUS
<1> HIDE DEF f, K
<1>2. SumFunctionOnSet(f, Years) \in K
  BY <1>1, PlansAssumption, SumWithin
<1> QED
  BY <1>2 DEF UsedIn, f, K

LEMMA Forgotten ==
  ASSUME plan \in PlanRows, NEW gone, plan' = Forget(gone)
  PROVE  /\ plan' \in PlanRows
         /\ \A y \in Years : plan'[y].id = plan[y].id /\ plan'[y].paid = plan[y].paid
         /\ \A c \in CreditIds : Used(c)' = IF c \in gone THEN 0 ELSE Used(c)
<1>1. \A y \in Years : plan'[y] = [plan[y] EXCEPT !.uses = [c \in CreditIds |-> IF c \in gone THEN 0 ELSE @[c]]]
  BY DEF Forget
<1>2. plan' = [y \in Years |-> plan'[y]]
  BY DEF Forget
<1>3. ASSUME NEW y \in Years
      PROVE  /\ plan'[y] \in Plan \cup {NoPlan} /\ plan'[y].id = plan[y].id /\ plan'[y].paid = plan[y].paid
             /\ \A c \in CreditIds : plan'[y].uses[c] = IF c \in gone THEN 0 ELSE plan[y].uses[c]
  <2> DEFINE u == [c \in CreditIds |-> IF c \in gone THEN 0 ELSE plan[y].uses[c]]
  <2>1. plan[y] \in Plan \cup {NoPlan} /\ plan'[y] = [plan[y] EXCEPT !.uses = u]
    BY <1>1 DEF PlanRows
  <2>2. plan[y].uses \in [CreditIds -> Nat]
    BY <2>1, PlanTypes DEF Uses
  <2>3. u \in Uses /\ \A c \in CreditIds : u[c] = IF c \in gone THEN 0 ELSE plan[y].uses[c]
    BY <2>2 DEF Uses
  <2> HIDE DEF u
  <2>4. CASE plan[y] \in Plan
    BY <2>1, <2>3, <2>4 DEF Plan
  <2>5. CASE plan[y] = NoPlan
    <3>1. plan[y].uses = NoUses
      BY <2>5 DEF NoPlan
    <3>2. u = NoUses
      BY <2>3, <3>1 DEF NoUses, Uses
    <3>3. [NoPlan EXCEPT !.uses = NoUses] = NoPlan
      <4>1. \A a, b, c : [[id |-> a, uses |-> b, paid |-> c] EXCEPT !.uses = b] = [id |-> a, uses |-> b, paid |-> c]
        OBVIOUS
      <4> QED BY <4>1, Zenon DEF NoPlan
    <3>4. plan'[y] = NoPlan
      BY <2>1, <2>5, <3>2, <3>3
    <3> QED BY <2>3, <2>5, <3>2, <3>4 DEF NoPlan
  <2> QED BY <2>1, <2>4, <2>5
<1>4. ASSUME NEW c \in CreditIds PROVE UsedIn(plan', c) = IF c \in gone THEN 0 ELSE UsedIn(plan, c)
  <2>1. CASE c \in gone
    BY <1>3, <2>1, UsedNone
  <2>2. CASE c \notin gone
    BY <1>3, <2>2, UsedSame
  <2> QED BY <2>1, <2>2
<1> QED
  BY <1>2, <1>3, <1>4, UsedIs DEF PlanRows

-----------------------------------------------------------------------------
(* Types *)

LEMMA Typed ==
  TypeOK <=> /\ credit \in [CreditIds -> Credit \cup {NoCredit}]
             /\ plan \in PlanRows
             /\ filed \in [Years -> Return \cup {NoReturn}]
             /\ request \in [Requests -> Request]
  BY DEF TypeOK, PlanRows

LEMMA CreditTypes ==
  ASSUME NEW x \in Credit \cup {NoCredit}
  PROVE  /\ x.amount \in Nat /\ (x.amount > 0 <=> x \in Credit) /\ (x.by # None => x \in Credit)
         /\ x \in Credit => x.by \in Years \cup {None} /\ x.ret \in Years \cup {None} /\ x.code \in Codes /\ x.year \in CreditYears
         /\ x \notin Credit => x = NoCredit /\ x.amount = 0 /\ x.by = None
<1>1. NoCredit.amount = 0 /\ NoCredit.by = None
  BY DEF NoCredit
<1>2. \A q \in Credit : q.amount \in Nat /\ q.amount > 0 /\ q.by \in Years \cup {None} /\ q.ret \in Years \cup {None} /\ q.code \in Codes /\ q.year \in CreditYears
  BY DEF Credit
<1> QED
  BY <1>1, <1>2

LEMMA YearTypes == \A y \in Years : y \in Nat /\ y # None
  BY PlansAssumption DEF None

LEMMA ReturnTypes ==
  ASSUME NEW x \in Return \cup {NoReturn}
  PROVE  /\ x # NoReturn => x \in Return /\ x.id \in RowIds /\ x.previous \in Nat /\ x.previousUsed \in Nat
         /\ x = NoReturn => x.id = 0 /\ x.id \notin RowIds
         /\ NoReturn \notin Return
<1>1. NoReturn.id = 0 /\ 0 \notin RowIds
  <2>1. Cardinality(Requests) \in Nat
    BY PlansAssumption, FS_CardinalityType
  <2> QED BY <2>1 DEF RowIds, NoReturn
<1>2. \A q \in Return : q.id \in RowIds /\ q.previous \in Nat /\ q.previousUsed \in Nat
  BY DEF Return
<1> QED
  BY <1>1, <1>2

LEMMA RequestTypes ==
  ASSUME NEW q \in Request
  PROVE  /\ q.op \in {"createPlan", "deletePlan", "unmark", "markFiled"} => q.year \in Years
         /\ q.op = "createPlan" => q.uses \in Uses
         /\ q.op \in {"deletePlan", "unmark"} => q.id \in RowIds
         /\ q.op \in {"update", "remove"} => q.credit \in CreditIds
         /\ q.op = "markFiled" => q.previous \in Nat /\ q.previousUsed \in Nat /\ q.credits \in [Codes -> Nat]
         /\ q.op \in {"idle", "createPlan", "deletePlan", "unmark", "update", "remove", "markFiled"}
         /\ q = Idle <=> q.op = "idle"
  BY DEF Request, Idle

\* A row gets an id that no request has read.
LEMMA Fresh ==
  ASSUME NEW r \in Requests, NEW y, NEW op, request[r].op # op
  PROVE  /\ FreshId(y, op) \in RowIds
         /\ \A o \in Requests : request[o].op = op /\ request[o].year = y => request[o].id # FreshId(y, op)
<1> DEFINE Free(id) == \A o \in Requests : request[o].op = op /\ request[o].year = y => request[o].id # id
           T        == Requests \ {r}
           n        == Cardinality(Requests)
           f        == [id \in RowIds |-> CHOOSE o \in T : request[o].id = id]
<1>1. \E id \in RowIds : Free(id)
  <2> SUFFICES ASSUME \A id \in RowIds : ~ Free(id) PROVE FALSE
    OBVIOUS
  <2>1. IsFiniteSet(T) /\ n \in Nat /\ Cardinality(T) = n - 1
    BY PlansAssumption, FS_RemoveElement, FS_CardinalityType
  <2>2. RowIds = 1..n /\ IsFiniteSet(RowIds) /\ Cardinality(RowIds) = n
    <3>1. 1 \in Int /\ n \in Int /\ RowIds = 1..n
      BY <2>1 DEF RowIds
    <3>2. IsFiniteSet(1..n) /\ Cardinality(1..n) = IF 1 > n THEN 0 ELSE n - 1 + 1
      BY <3>1, FS_Interval
    <3> QED BY <2>1, <3>1, <3>2
  <2>3. \A id \in RowIds : \E o \in T : request[o].id = id
    OBVIOUS
  <2>4. \A id \in RowIds : f[id] \in T /\ request[f[id]].id = id
    BY <2>3
  <2>5. f \in [RowIds -> T]
    BY <2>4
  <2> HIDE DEF f, T, n
  <2>6. \E a, b \in RowIds : a # b /\ f[a] = f[b]
    BY <2>1, <2>2, <2>5, FS_PigeonHole
  <2> QED BY <2>4, <2>6
<1>2. FreshId(y, op) = CHOOSE id \in RowIds : Free(id)
  BY DEF FreshId
<1> QED
  BY <1>1, <1>2

LEMMA LastCredit ==
  ASSUME TypeOK
  PROVE  /\ lastCredit \in 0..MaxCredits
         /\ \A c \in CreditIds : c > lastCredit =>
              /\ ~ Exists(c)
              /\ \A r \in Requests : /\ request[r].op \in {"update", "remove"} => request[r].credit # c
                                     /\ request[r].op = "createPlan" => request[r].uses[c] = 0
<1> DEFINE Read(q) == IF q.op \in {"update", "remove"} THEN {q.credit}
                      ELSE IF q.op = "createPlan" THEN {c \in CreditIds : q.uses[c] > 0} ELSE {}
           S == {0} \cup {c \in CreditIds : Exists(c)} \cup UNION {Read(request[r]) : r \in Requests}
<1>1. lastCredit = Max(S)
  BY DEF lastCredit
<1>2. \A r \in Requests : Read(request[r]) \subseteq CreditIds
  BY Typed, RequestTypes
<1>3. S \subseteq 0..MaxCredits /\ 0 \in S /\ MaxCredits \in Nat
  BY <1>2, PlansAssumption DEF CreditIds
<1>4. Max(S) \in S /\ \A x \in S : x <= Max(S)
  <2> HIDE DEF S
  <2> QED BY <1>3, MaxOf
<1>5. ASSUME NEW c \in CreditIds, c > lastCredit PROVE c \notin S
  <2> HIDE DEF S
  <2>1. c \in Nat
    BY PlansAssumption DEF CreditIds
  <2>2. lastCredit \in 0..MaxCredits
    BY <1>1, <1>3, <1>4
  <2>3. c \in S => c <= lastCredit
    BY <1>1, <1>4
  <2> QED BY <1>3, <1>5, <2>1, <2>2, <2>3
<1>6. ASSUME NEW c \in CreditIds, c \notin S, NEW r \in Requests
      PROVE  /\ request[r].op \in {"update", "remove"} => request[r].credit # c
             /\ request[r].op = "createPlan" => request[r].uses[c] = 0
  <2>1. c \notin Read(request[r])
    BY <1>6
  <2>2. request[r].op = "createPlan" => request[r].uses[c] \in Nat
    BY Typed, RequestTypes DEF Uses
  <2> QED BY <1>6, <2>1, <2>2
<1>7. \A c \in CreditIds : c \notin S => ~ Exists(c)
  OBVIOUS
<1> HIDE DEF S
<1> QED
  BY <1>1, <1>3, <1>4, <1>5, <1>6, <1>7

LEMMA ExistsIs ==
  ASSUME TypeOK, NEW c \in CreditIds
  PROVE  Exists(c) <=> credit[c] \in Credit
  BY Typed, CreditTypes DEF Exists

\* The larger and the smaller of two numbers.
LEMMA TwoNumbers ==
  ASSUME NEW a \in Int, NEW b \in Int
  PROVE  /\ Max({a, b}) \in {a, b} /\ Max({a, b}) >= a /\ Max({a, b}) >= b
         /\ Min({a, b}) \in {a, b} /\ Min({a, b}) <= a /\ Min({a, b}) <= b
<1>1. \E x \in {a, b} : \A y \in {a, b} : x >= y
  OBVIOUS
<1>2. \E x \in {a, b} : \A y \in {a, b} : x <= y
  OBVIOUS
<1> QED
  BY <1>1, <1>2 DEF Max, Min

LEMMA CreditsFinite == \A S \in SUBSET CreditIds : IsFiniteSet(S)
<1>1. 1 \in Int /\ MaxCredits \in Int /\ CreditIds = 1..MaxCredits
  BY PlansAssumption DEF CreditIds
<1>2. IsFiniteSet(CreditIds)
  BY <1>1, FS_Interval
<1> QED
  BY <1>2, FS_Subset

LEMMA RemainingIs ==
  ASSUME TypeOK, NEW c \in CreditIds
  PROVE  /\ Used(c) \in Nat /\ credit[c].amount \in Nat /\ Remaining(c) \in Int
         /\ Remaining(c) > 0 => credit[c].by = None /\ Remaining(c) = credit[c].amount - Used(c)
<1>1. Used(c) \in Nat
  BY Typed, UsedIs, UsedNat
<1>2. credit[c].amount \in Nat
  BY Typed, CreditTypes
<1> QED
  BY <1>1, <1>2 DEF Remaining

LEMMA Compensation ==
  ASSUME TypeOK, NEW S \in SUBSET available, NEW due \in Dues
  PROVE  /\ buildCompensation(S, due) \in Uses
         /\ \A c \in CreditIds : /\ Used(c) + buildCompensation(S, due)[c] <= credit[c].amount \/ buildCompensation(S, due)[c] = 0
                                 /\ buildCompensation(S, due)[c] > 0 => credit[c].by = None
<1> DEFINE total(T) == SumFunction([c \in T |-> Remaining(c)])
           part(c)  == Max({0, Min({Remaining(c), due - total(Earlier(S, c))})})
<1>1. S \subseteq CreditIds /\ due \in Int
  BY PlansAssumption DEF available
<1>2. ASSUME NEW T \in SUBSET CreditIds PROVE total(T) \in Int
  <2> DEFINE f == [c \in T |-> Remaining(c)]
  <2>1. (\A c \in T : f[c] \in Int) /\ total(T) = SumFunctionOnSet(f, T)
    BY RemainingIs DEF SumFunction
  <2> HIDE DEF f, total
  <2> QED BY <2>1, CreditsFinite, SumIn
<1>3. \A c \in CreditIds : buildCompensation(S, due)[c] = IF c \in S THEN part(c) ELSE 0
  BY DEF buildCompensation
<1>4. buildCompensation(S, due) = [c \in CreditIds |-> buildCompensation(S, due)[c]]
  BY DEF buildCompensation
<1> HIDE DEF total
<1>5. ASSUME NEW c \in S
      PROVE  part(c) \in Nat /\ credit[c].by = None /\ Used(c) + part(c) <= credit[c].amount
  <2>1. c \in CreditIds /\ Remaining(c) > 0 /\ Remaining(c) \in Int
    BY <1>1, RemainingIs DEF available
  <2>2. Earlier(S, c) \in SUBSET CreditIds
    BY <1>1 DEF Earlier
  <2>3. due - total(Earlier(S, c)) \in Int
    BY <1>1, <1>2, <2>2
  <2> DEFINE t == due - total(Earlier(S, c))
             m == Min({Remaining(c), t})
  <2> HIDE DEF t
  <2>4. m \in Int /\ m <= Remaining(c)
    BY <2>1, <2>3, TwoNumbers DEF t
  <2> HIDE DEF m
  <2>5. Max({0, m}) \in {0, m} /\ Max({0, m}) >= 0
    BY <2>4, TwoNumbers
  <2>6. Max({0, m}) \in Nat /\ Max({0, m}) <= Remaining(c)
    BY <2>1, <2>4, <2>5
  <2>7. part(c) = Max({0, m})
    BY DEF t, m
  <2> QED BY <2>1, <2>6, <2>7, RemainingIs
<1> HIDE DEF part
<1>6. \A c \in CreditIds : buildCompensation(S, due)[c] \in Nat
  BY <1>3, <1>5
<1>7. buildCompensation(S, due) \in Uses
  BY <1>4, <1>6 DEF Uses
<1> QED
  BY <1>3, <1>5, <1>7

LEMMA EntryTypes ==
  ASSUME NEW ret \in Years \cup {None}, NEW e \in Entry(ret)
  PROVE  e \in Credit /\ e.by = None /\ e.ret = ret
  BY PlansAssumption DEF Entry, Credit, CreditYears

\* What is left of some credits, in all.
Over(credits, plans, S) == SumFunctionOnSet(LeftOf(credits, plans), S)

LEMMA LeftInt ==
  ASSUME NEW credits \in [CreditIds -> Credit \cup {NoCredit}], NEW plans \in PlanRows
  PROVE  /\ \A c \in CreditIds : /\ LeftOf(credits, plans)[c] = credits[c].amount - UsedIn(plans, c)
                                 /\ LeftOf(credits, plans)[c] \in Int
         /\ \A S \in SUBSET CreditIds : Over(credits, plans, S) \in Int
<1>1. ASSUME NEW c \in CreditIds
      PROVE  /\ LeftOf(credits, plans)[c] = credits[c].amount - UsedIn(plans, c)
             /\ LeftOf(credits, plans)[c] \in Int
  <2>1. credits[c].amount \in Nat /\ UsedIn(plans, c) \in Nat
    BY CreditTypes, UsedNat
  <2> QED BY <2>1 DEF LeftOf
<1>2. \A S \in SUBSET CreditIds : Over(credits, plans, S) \in Int
  <2> DEFINE f == LeftOf(credits, plans)
  <2>1. \A c \in CreditIds : f[c] \in Int
    BY <1>1
  <2> HIDE DEF f
  <2>2. \A S \in SUBSET CreditIds : SumFunctionOnSet(f, S) \in Int
    BY <2>1, CreditsFinite, SumIn
  <2> QED BY <2>2 DEF Over, f
<1> QED
  BY <1>1, <1>2

\* Credits of the same amounts that are used no more than before cover what they did.
LEMMA OverKept ==
  ASSUME NEW credits \in [CreditIds -> Credit \cup {NoCredit}], NEW plans \in PlanRows,
         NEW after \in [CreditIds -> Credit \cup {NoCredit}], NEW later \in PlanRows, NEW S \in SUBSET CreditIds,
         \A c \in S : after[c].amount = credits[c].amount /\ UsedIn(later, c) <= UsedIn(plans, c)
  PROVE  Over(credits, plans, S) <= Over(after, later, S)
<1> DEFINE f == LeftOf(credits, plans)
           g == LeftOf(after, later)
<1>1. ASSUME NEW c \in S PROVE f[c] \in Int /\ g[c] \in Int /\ f[c] <= g[c]
  <2>1. c \in CreditIds /\ UsedIn(later, c) \in Nat /\ UsedIn(plans, c) \in Nat /\ credits[c].amount \in Nat
    BY UsedNat, CreditTypes
  <2>2. f[c] = credits[c].amount - UsedIn(plans, c) /\ g[c] = after[c].amount - UsedIn(later, c)
    BY <2>1, LeftInt
  <2> QED BY <1>1, <2>1, <2>2
<1> HIDE DEF f, g
<1>2. SumFunctionOnSet(f, S) <= SumFunctionOnSet(g, S)
  BY <1>1, CreditsFinite, SumAtMost
<1> QED
  BY <1>2 DEF Over, f, g

\* The sums of the specification are those of what is left.
LEMMA OverIs ==
  ASSUME TypeOK, NEW S \in SUBSET CreditIds
  PROVE  /\ SumFunction([c \in S |-> credit[c].amount - Used(c)]) = Over(credit, plan, S)
         /\ SumFunction([c \in S |-> credit[c].amount]) - SumFunction([c \in S |-> Used(c)]) = Over(credit, plan, S)
<1> DEFINE f == [c \in S |-> credit[c].amount]
           g == [c \in S |-> Used(c)]
           h == [c \in S |-> credit[c].amount - Used(c)]
           l == LeftOf(credit, plan)
<1>1. SumFunction(f) = SumFunctionOnSet(f, S) /\ SumFunction(g) = SumFunctionOnSet(g, S) /\ SumFunction(h) = SumFunctionOnSet(h, S)
  BY DEF SumFunction
<1>2. ASSUME NEW c \in S
      PROVE  f[c] \in Int /\ g[c] \in Int /\ h[c] = f[c] - g[c] /\ l[c] = h[c]
  <2>1. c \in CreditIds /\ credit[c].amount \in Nat /\ Used(c) \in Nat
    BY RemainingIs
  <2>2. l[c] = credit[c].amount - Used(c)
    BY <2>1, Typed, LeftInt, UsedIs
  <2> QED BY <2>1, <2>2
<1> HIDE DEF f, g, h, l
<1>3. SumFunctionOnSet(h, S) = SumFunctionOnSet(f, S) - SumFunctionOnSet(g, S)
  BY <1>2, CreditsFinite, SumMinus
<1>4. SumFunctionOnSet(l, S) = SumFunctionOnSet(h, S)
  BY <1>2, CreditsFinite, SumSame
<1> QED
  BY <1>1, <1>3, <1>4 DEF Over, f, g, h, l

\* What a return would carry: the amounts and the uses of the credits of the year before.
LEMMA PreviousIs ==
  ASSUME TypeOK, NEW y \in Years
  PROVE  /\ SumFunction([c \in previousCredits(y) |-> credit[c].amount]) \in Nat
         /\ SumFunction([c \in previousCredits(y) |-> Used(c)]) \in Nat
<1> DEFINE P == previousCredits(y)
           f == [c \in P |-> credit[c].amount]
           g == [c \in P |-> Used(c)]
<1>1. P \in SUBSET CreditIds
  BY DEF previousCredits
<1>2. (\A c \in P : f[c] \in Nat /\ g[c] \in Nat) /\ SumFunction(f) = SumFunctionOnSet(f, P) /\ SumFunction(g) = SumFunctionOnSet(g, P)
  BY <1>1, RemainingIs DEF SumFunction
<1> HIDE DEF f, g, P
<1>3. SumFunctionOnSet(f, P) \in Nat /\ SumFunctionOnSet(g, P) \in Nat
  BY <1>1, <1>2, CreditsFinite, SumIn
<1>4. SumFunction(f) \in Nat /\ SumFunction(g) \in Nat
  BY <1>2, <1>3
<1> QED
  BY <1>4 DEF f, g, P

-----------------------------------------------------------------------------
(* What a request reads *)

\* What a request has just read is so.
Accurate(q) ==
  /\ q.op \in {"update", "remove"} => Used(q.credit) = 0 /\ credit[q.credit].by = None
  /\ q.op = "createPlan" => \A c \in CreditIds : q.uses[c] > 0 => credit[c].by = None /\ Used(c) + q.uses[c] <= credit[c].amount
  /\ q.op = "markFiled" => q.previous - q.previousUsed <= Over(credit, plan, previousCredits(q.year))

LEMMA NotNegative == \A n \in Int : Max({0, n}) \in Nat
<1> SUFFICES ASSUME NEW n \in Int PROVE Max({0, n}) \in Nat
  OBVIOUS
<1>1. Max({0, n}) \in {0, n} /\ Max({0, n}) >= 0
  BY TwoNumbers
<1> QED
  BY <1>1

LEMMA RegistryReads ==
  ASSUME NEW r \in Requests, NEW c \in CreditIds, UpdateRead(r, c) \/ RemoveRead(r, c)
  PROVE  \E q \in Request : Begin(r, q) /\ Accurate(q)
<1> DEFINE q(op) == [op |-> op, credit |-> c]
<1>1. PICK op \in {"update", "remove"} : Begin(r, q(op)) /\ unused(c)
  BY DEF UpdateRead, RemoveRead
<1>2. q(op) \in Request /\ q(op).op \in {"update", "remove"} /\ q(op).credit = c
  BY DEF Request
<1> HIDE DEF q
<1>3. Accurate(q(op))
  BY <1>1, <1>2 DEF Accurate, unused
<1> QED
  BY <1>1, <1>2, <1>3

LEMMA PlanReads ==
  ASSUME TypeOK, NEW r \in Requests, NEW y \in Years, PlanRead(r, y) \/ DeletePlanRead(r, y)
  PROVE  \E q \in Request : Begin(r, q) /\ Accurate(q)
<1>1. CASE PlanRead(r, y)
  <2>1. PICK due \in Dues, S \in SUBSET available : Begin(r, [op |-> "createPlan", year |-> y, uses |-> buildCompensation(S, due)])
    BY <1>1 DEF PlanRead
  <2> DEFINE u == buildCompensation(S, due)
             q == [op |-> "createPlan", year |-> y, uses |-> u]
  <2>2. u \in Uses /\ \A c \in CreditIds : (Used(c) + u[c] <= credit[c].amount \/ u[c] = 0) /\ (u[c] > 0 => credit[c].by = None)
    BY Compensation
  <2> HIDE DEF u
  <2>3. q \in Request /\ q.op = "createPlan" /\ q.uses = u
    BY <2>2 DEF Request
  <2>4. Begin(r, q)
    BY <2>1 DEF u
  <2> HIDE DEF q
  <2>5. Accurate(q)
    BY <2>2, <2>3 DEF Accurate
  <2> QED BY <2>3, <2>4, <2>5
<1>2. CASE DeletePlanRead(r, y)
  <2> DEFINE q == [op |-> "deletePlan", year |-> y, id |-> plan[y].id]
  <2>1. plan[y] # NoPlan /\ Begin(r, q)
    BY <1>2 DEF DeletePlanRead
  <2>2. plan[y].id \in RowIds
    BY <2>1, Typed, PlanTypes DEF PlanRows
  <2>3. q \in Request /\ q.op = "deletePlan"
    BY <2>2 DEF Request
  <2> HIDE DEF q
  <2>4. Accurate(q)
    BY <2>3 DEF Accurate
  <2> QED BY <2>1, <2>3, <2>4
<1> QED
  BY <1>1, <1>2

LEMMA ReturnReads ==
  ASSUME TypeOK, NEW r \in Requests, NEW y \in Years, FileRead(r, y) \/ UnmarkRead(r, y)
  PROVE  \E q \in Request : Begin(r, q) /\ Accurate(q)
<1>1. CASE FileRead(r, y)
  <2> DEFINE previous     == SumFunction([c \in previousCredits(y) |-> credit[c].amount])
             previousUsed == SumFunction([c \in previousCredits(y) |-> Used(c)])
             q(m)         == [op |-> "markFiled", year |-> y, previous |-> previous, previousUsed |-> previousUsed, credits |-> m]
             given(e, i)  == [k \in Codes |-> IF k = "INPS" THEN i ELSE Max({0, e + previous - previousUsed})]
  <2>1. previous \in Nat /\ previousUsed \in Nat
    BY PreviousIs
  <2>2. previous - previousUsed = Over(credit, plan, previousCredits(y))
    <3>1. previousCredits(y) \in SUBSET CreditIds
      BY DEF previousCredits
    <3> QED BY <3>1, OverIs
  <2> HIDE DEF previous, previousUsed
  <2>3. PICK excess \in Excesses, inps \in InpsExcesses : Begin(r, q(given(excess, inps)))
    BY <1>1 DEF FileRead, previous, previousUsed
  <2>4. excess + previous - previousUsed \in Int /\ inps \in Nat
    BY <2>1, PlansAssumption
  <2>5. Max({0, excess + previous - previousUsed}) \in Nat
    BY <2>4, NotNegative
  <2>6. given(excess, inps) \in [Codes -> Nat]
    BY <2>4, <2>5
  <2> HIDE DEF given
  <2>7. PICK m : m = given(excess, inps)
    OBVIOUS
  <2>8. /\ q(m) \in Request /\ q(m).op = "markFiled" /\ q(m).year = y
        /\ q(m).previous = previous /\ q(m).previousUsed = previousUsed
    BY <2>1, <2>6, <2>7 DEF Request
  <2>9. Begin(r, q(m))
    BY <2>3, <2>7
  <2> HIDE DEF q
  <2>10. q(m).previous - q(m).previousUsed <= Over(credit, plan, previousCredits(q(m).year))
    BY <2>1, <2>2, <2>8
  <2>11. Accurate(q(m))
    BY <2>8, <2>10 DEF Accurate
  <2> QED BY <2>8, <2>9, <2>11
<1>2. CASE UnmarkRead(r, y)
  <2> DEFINE q == [op |-> "unmark", year |-> y, id |-> filed[y].id]
  <2>1. Filed(y) /\ Begin(r, q)
    BY <1>2 DEF UnmarkRead
  <2>2. filed[y].id \in RowIds
    BY <2>1, Typed, ReturnTypes DEF Filed
  <2>3. q \in Request /\ q.op = "unmark"
    BY <2>2 DEF Request
  <2> HIDE DEF q
  <2>4. Accurate(q)
    BY <2>3 DEF Accurate
  <2> QED BY <2>1, <2>3, <2>4
<1> QED
  BY <1>1, <1>2

-----------------------------------------------------------------------------
(* What a step does to the rows *)

\* No form uses a credit that is not in the registry.
UsesExist == \A c \in CreditIds : Used(c) > 0 => Exists(c)
RowsInv   == TypeOK /\ UsesExist

LEMMA NotThere ==
  ASSUME RowsInv, NEW c \in CreditIds, ~ Exists(c)
  PROVE  Used(c) = 0 /\ credit[c].amount = 0 /\ credit[c].by = None
<1>1. Used(c) \in Nat /\ credit[c].amount \in Nat
  BY RemainingIs DEF RowsInv
<1>2. credit[c].by = None
  BY Typed, CreditTypes DEF RowsInv, Exists
<1> QED
  BY <1>1, <1>2 DEF RowsInv, UsesExist, Exists

LEMMA Begins ==
  ASSUME RowsInv, NEW r \in Requests, NEW q \in Request, Begin(r, q)
  PROVE  /\ RowsInv' /\ UNCHANGED <<credit, plan, filed>>
         /\ request'[r] = q /\ \A o \in Requests \ {r} : request'[o] = request[o]
<1>1. UNCHANGED <<credit, plan, filed>> /\ request' = [request EXCEPT ![r] = q]
  BY DEF Begin
<1>2. /\ request' \in [Requests -> Request] /\ request'[r] = q
      /\ \A o \in Requests \ {r} : request'[o] = request[o]
  BY <1>1, Typed DEF RowsInv
<1>3. TypeOK' /\ UsesExist'
  BY <1>1, <1>2, UsedIs, Typed DEF RowsInv, UsesExist, Exists, TypeOK, PlanRows
<1> QED
  BY <1>1, <1>2, <1>3 DEF RowsInv

LEMMA Ends ==
  ASSUME TypeOK, NEW r \in Requests, End(r)
  PROVE  /\ request' \in [Requests -> Request] /\ request'[r] = Idle
         /\ \A o \in Requests \ {r} : request'[o] = request[o]
  BY Typed DEF End, Request

\* The rows after a write are well typed, and its uses those of credits that are there.
LEMMA RowsAre ==
  ASSUME credit' \in [CreditIds -> Credit \cup {NoCredit}], plan' \in PlanRows, filed' \in [Years -> Return \cup {NoReturn}],
         request' \in [Requests -> Request], \A c \in CreditIds : Used(c)' > 0 => credit'[c] \in Credit
  PROVE  RowsInv'
<1>1. TypeOK'
  BY DEF TypeOK, PlanRows
<1>2. \A c \in CreditIds : credit'[c] \in Credit => credit'[c].amount > 0
  BY CreditTypes
<1>3. UsesExist'
  BY <1>2 DEF UsesExist, Exists
<1> QED
  BY <1>1, <1>3 DEF RowsInv

LEMMA CreateRows ==
  ASSUME RowsInv, NEW r \in Requests, create(r)
  PROVE  /\ RowsInv' /\ UNCHANGED <<plan, filed, request>> /\ \A c \in CreditIds : Used(c)' = Used(c)
         /\ \E n \in CreditIds : /\ n > lastCredit /\ ~ Exists(n) /\ Used(n) = 0
                                 /\ credit'[n] \in Credit /\ credit'[n].by = None
                                 /\ \A c \in CreditIds \ {n} : credit'[c] = credit[c]
<1>1. PICK e \in Entry(None) : credit' = [credit EXCEPT ![lastCredit + 1] = e]
  BY DEF create
<1>2. PICK n \in CreditIds : n = lastCredit + 1
  <2>1. lastCredit \in 0..MaxCredits /\ lastCredit < MaxCredits /\ MaxCredits \in Nat
    BY LastCredit, PlansAssumption DEF RowsInv, create
  <2> QED BY <2>1 DEF CreditIds
<1>3. n > lastCredit /\ ~ Exists(n) /\ Used(n) = 0
  <2>1. lastCredit \in 0..MaxCredits
    BY LastCredit DEF RowsInv
  <2>2. n > lastCredit
    BY <1>2, <2>1, PlansAssumption
  <2>3. ~ Exists(n)
    BY <2>2, LastCredit DEF RowsInv
  <2> QED BY <2>2, <2>3, NotThere
<1>4. e \in Credit /\ e.by = None
  BY EntryTypes
<1>5. /\ credit' \in [CreditIds -> Credit \cup {NoCredit}] /\ credit'[n] = e /\ \A c \in CreditIds \ {n} : credit'[c] = credit[c]
      /\ UNCHANGED <<plan, filed, request>>
  BY <1>1, <1>2, <1>4, Typed DEF RowsInv, create
<1>6. \A c : Used(c)' = Used(c)
  BY <1>5, UsedIs
<1>7. \A c \in CreditIds : Used(c)' > 0 => credit'[c] \in Credit
  BY <1>3, <1>5, <1>6, ExistsIs DEF RowsInv, UsesExist
<1>8. RowsInv'
  BY <1>5, <1>7, RowsAre, Typed DEF RowsInv
<1> QED
  BY <1>3, <1>4, <1>5, <1>6, <1>8

LEMMA UpdateRows ==
  ASSUME RowsInv, NEW r \in Requests, UpdateWrite(r)
  PROVE  /\ RowsInv' /\ UNCHANGED <<plan, filed>> /\ End(r) /\ request[r].op = "update" /\ request[r].credit \in CreditIds
         /\ \A d \in CreditIds : Used(d)' = Used(d) /\ credit'[d].by = credit[d].by
         /\ \A d \in CreditIds \ {request[r].credit} : credit'[d] = credit[d]
<1> PICK c \in CreditIds : c = request[r].credit
  BY Typed, RequestTypes DEF RowsInv, UpdateWrite
<1>1. request[r].op = "update" /\ End(r) /\ UNCHANGED <<plan, filed>>
  BY DEF UpdateWrite
<1>2. credit \in [CreditIds -> Credit \cup {NoCredit}]
  BY Typed DEF RowsInv
<1>3. /\ credit' \in [CreditIds -> Credit \cup {NoCredit}] /\ credit'[c].by = credit[c].by
      /\ credit[c] \in Credit => credit'[c] \in Credit
      /\ \A d \in CreditIds \ {c} : credit'[d] = credit[d]
  <2>1. CASE Exists(c)
    <3>1. PICK e \in Entry(credit[c].ret) : credit' = [credit EXCEPT ![c] = [e EXCEPT !.by = credit[c].by]]
      BY <2>1 DEF UpdateWrite
    <3>2. credit[c].ret \in Years \cup {None} /\ credit[c].by \in Years \cup {None}
      BY <1>2, <2>1, CreditTypes DEF Exists
    <3>3. [e EXCEPT !.by = credit[c].by] \in Credit /\ [e EXCEPT !.by = credit[c].by].by = credit[c].by
      BY <3>2, EntryTypes DEF Credit
    <3> QED BY <1>2, <3>1, <3>3
  <2>2. CASE ~ Exists(c)
    <3>1. credit' = credit
      BY <2>2 DEF UpdateWrite
    <3> QED BY <1>2, <3>1
  <2> QED BY <2>1, <2>2
<1>4. \A d : Used(d)' = Used(d)
  BY <1>1, UsedIs
<1>5. \A d \in CreditIds : Used(d)' > 0 => credit'[d] \in Credit
  BY <1>3, <1>4, ExistsIs DEF RowsInv, UsesExist
<1>6. RowsInv'
  BY <1>1, <1>3, <1>5, Ends, RowsAre, Typed DEF RowsInv
<1> QED
  BY <1>1, <1>3, <1>4, <1>6

LEMMA RemoveRows ==
  ASSUME RowsInv, NEW r \in Requests, RemoveWrite(r)
  PROVE  /\ RowsInv' /\ filed' = filed /\ End(r) /\ request[r].op = "remove" /\ request[r].credit \in CreditIds
         /\ credit'[request[r].credit] = NoCredit
         /\ \A d \in CreditIds : Used(d)' = IF d = request[r].credit THEN 0 ELSE Used(d)
         /\ \A d \in CreditIds \ {request[r].credit} : credit'[d] = credit[d]
<1> PICK c \in CreditIds : c = request[r].credit
  BY Typed, RequestTypes DEF RowsInv, RemoveWrite
<1>1. request[r].op = "remove" /\ End(r) /\ filed' = filed /\ credit' = [credit EXCEPT ![c] = NoCredit] /\ plan' = Forget({c})
  BY DEF RemoveWrite
<1>2. /\ credit' \in [CreditIds -> Credit \cup {NoCredit}] /\ credit'[c] = NoCredit
      /\ \A d \in CreditIds \ {c} : credit'[d] = credit[d]
  BY <1>1, Typed DEF RowsInv
<1>3. plan' \in PlanRows /\ \A d \in CreditIds : Used(d)' = IF d = c THEN 0 ELSE Used(d)
  <2>1. \A d \in CreditIds : Used(d)' = IF d \in {c} THEN 0 ELSE Used(d)
    BY <1>1, Typed, Forgotten DEF RowsInv
  <2> QED BY <1>1, <2>1, Typed, Forgotten DEF RowsInv
<1>4. \A d \in CreditIds : Used(d)' > 0 => credit'[d] \in Credit
  BY <1>2, <1>3, ExistsIs DEF RowsInv, UsesExist
<1>5. RowsInv'
  BY <1>1, <1>2, <1>3, <1>4, Ends, RowsAre, Typed DEF RowsInv
<1> QED
  BY <1>1, <1>2, <1>3, <1>5

\* A plan is saved with its uses, all of credits that are there, or refused.
LEMMA SaveRows ==
  ASSUME RowsInv, NEW r \in Requests, PlanSave(r)
  PROVE  /\ RowsInv' /\ UNCHANGED <<credit, filed>> /\ End(r) /\ request[r].op = "createPlan"
         /\ \A c \in CreditIds : \/ Used(c)' = Used(c)
                                 \/ request[r].uses[c] > 0 /\ Exists(c) /\ Used(c)' = Used(c) + request[r].uses[c]
<1> PICK q \in Request : q = request[r]
  BY Typed DEF RowsInv
<1>1. q.op = "createPlan" /\ End(r) /\ UNCHANGED <<credit, filed>> /\ q.year \in Years /\ q.uses \in Uses
  BY RequestTypes DEF PlanSave
<1>2. /\ plan' \in PlanRows
      /\ \A c \in CreditIds : Used(c)' = Used(c) \/ (q.uses[c] > 0 /\ Exists(c) /\ Used(c)' = Used(c) + q.uses[c])
  <2>1. CASE ~ (plan[q.year] = NoPlan /\ \A c \in CreditIds : q.uses[c] > 0 => Exists(c))
    <3>1. plan' = plan
      BY <2>1 DEF PlanSave
    <3> QED BY <3>1, UsedIs, Typed DEF RowsInv
  <2>2. CASE plan[q.year] = NoPlan /\ \A c \in CreditIds : q.uses[c] > 0 => Exists(c)
    <3> DEFINE id  == FreshId(q.year, "deletePlan")
               row == [id |-> id, uses |-> q.uses, paid |-> FALSE]
    <3>1. plan' = [plan EXCEPT ![q.year] = row]
      BY <2>2 DEF PlanSave
    <3>2. id \in RowIds
      BY <1>1, Fresh
    <3> HIDE DEF id
    <3>3. row \in Plan /\ row.uses = q.uses
      BY <1>1, <3>2 DEF Plan
    <3> HIDE DEF row
    <3>4. plan \in PlanRows /\ plan' \in PlanRows /\ plan'[q.year] = row /\ \A y \in Years \ {q.year} : plan'[y] = plan[y]
      BY <1>1, <3>1, <3>3, Typed DEF RowsInv, PlanRows
    <3>5. ASSUME NEW c \in CreditIds PROVE Used(c)' = Used(c) + q.uses[c] /\ Used(c) \in Nat /\ q.uses[c] \in Nat
      <4>1. UsedIn(plan', c) = UsedIn(plan, c) - plan[q.year].uses[c] + plan'[q.year].uses[c]
        BY <1>1, <3>4, UsedChange
      <4>2. plan[q.year].uses[c] = 0 /\ plan'[q.year].uses[c] = q.uses[c]
        BY <2>2, <3>3, <3>4 DEF NoPlan, NoUses
      <4>3. UsedIn(plan, c) \in Nat /\ q.uses[c] \in Nat
        BY <1>1, <3>4, UsedNat DEF Uses
      <4> QED BY <4>1, <4>2, <4>3, UsedIs
    <3>6. ASSUME NEW c \in CreditIds
          PROVE  Used(c)' = Used(c) \/ (q.uses[c] > 0 /\ Exists(c) /\ Used(c)' = Used(c) + q.uses[c])
      BY <2>2, <3>5
    <3> QED BY <3>4, <3>6
  <2> QED BY <2>1, <2>2
<1>3. \A c \in CreditIds : Used(c)' > 0 => credit'[c] \in Credit
  BY <1>1, <1>2, ExistsIs DEF RowsInv, UsesExist
<1>4. RowsInv'
  BY <1>1, <1>2, <1>3, Ends, RowsAre, Typed DEF RowsInv
<1> QED
  BY <1>1, <1>2, <1>4

LEMMA StatusRows ==
  ASSUME RowsInv, NEW r \in Requests, NEW y \in Years, updateStatus(r, y)
  PROVE  RowsInv' /\ UNCHANGED <<credit, filed, request>> /\ \A c \in CreditIds : Used(c)' = Used(c)
<1>1. plan' = [plan EXCEPT ![y].paid = ~@] /\ UNCHANGED <<credit, filed, request>> /\ plan[y] # NoPlan
  BY DEF updateStatus
<1>2. plan[y] \in Plan /\ plan \in PlanRows
  BY <1>1, Typed, PlanTypes DEF RowsInv, PlanRows
<1>3. plan' \in PlanRows /\ \A x \in Years : plan'[x].uses = plan[x].uses
  BY <1>1, <1>2 DEF PlanRows, Plan
<1>4. \A c \in CreditIds : Used(c)' = Used(c)
  BY <1>3, UsedIs, UsedSame
<1>5. \A c \in CreditIds : Used(c)' > 0 => credit'[c] \in Credit
  BY <1>1, <1>4, ExistsIs DEF RowsInv, UsesExist
<1>6. RowsInv'
  BY <1>1, <1>3, <1>5, RowsAre, Typed DEF RowsInv
<1> QED
  BY <1>1, <1>4, <1>6

\* The deletion of a plan takes uses away.
LEMMA DeleteRows ==
  ASSUME RowsInv, NEW r \in Requests, DeletePlanWrite(r)
  PROVE  RowsInv' /\ UNCHANGED <<credit, filed>> /\ End(r) /\ \A c \in CreditIds : Used(c)' <= Used(c)
<1> PICK q \in Request : q = request[r]
  BY Typed DEF RowsInv
<1>1. /\ q.op = "deletePlan" /\ q.year \in Years /\ End(r) /\ UNCHANGED <<credit, filed>>
      /\ plan' = IF plan[q.year].id = q.id THEN [plan EXCEPT ![q.year] = NoPlan] ELSE plan
  BY RequestTypes DEF DeletePlanWrite
<1>2. plan \in PlanRows /\ plan' \in PlanRows /\ \A y \in Years : plan'[y] \in {plan[y], NoPlan} /\ (y # q.year => plan'[y] = plan[y])
  BY <1>1, Typed DEF RowsInv, PlanRows
<1>3. ASSUME NEW c \in CreditIds PROVE Used(c)' <= Used(c) /\ Used(c) \in Nat /\ Used(c)' \in Nat
  <2> PICK y \in Years : y = q.year
    BY <1>1
  <2>1. UsedIn(plan', c) = UsedIn(plan, c) - plan[y].uses[c] + plan'[y].uses[c]
    <3>1. \A x \in Years \ {y} : plan'[x].uses[c] = plan[x].uses[c]
      BY <1>2
    <3> QED BY <1>2, <3>1, UsedChange
  <2>2. plan'[y].uses[c] <= plan[y].uses[c] /\ plan'[y].uses[c] \in Nat /\ plan[y].uses[c] \in Nat
    <3>1. plan[y].uses[c] \in Nat
      BY <1>2, PlanTypes DEF PlanRows, Uses
    <3>2. NoPlan.uses[c] = 0
      BY DEF NoPlan, NoUses
    <3> QED BY <1>2, <3>1, <3>2
  <2>3. UsedIn(plan, c) \in Nat /\ UsedIn(plan', c) \in Nat
    BY <1>2, UsedNat
  <2> QED BY <2>1, <2>2, <2>3, UsedIs
<1>4. \A c \in CreditIds : Used(c)' > 0 => credit'[c] \in Credit
  BY <1>1, <1>3, ExistsIs DEF RowsInv, UsesExist
<1>5. RowsInv'
  BY <1>1, <1>2, <1>4, Ends, RowsAre, Typed DEF RowsInv
<1> QED
  BY <1>1, <1>3, <1>5

\* Filing a return: the credits of the year before close, the ones it gives are new, the others stay.
LEMMA FileRows ==
  ASSUME RowsInv, NEW r \in Requests, FileWrite(r), NEW q \in Request, q = request[r]
  PROVE  /\ RowsInv' /\ q.op = "markFiled" /\ q.year \in Years /\ UNCHANGED plan /\ End(r) /\ \A c \in CreditIds : Used(c)' = Used(c)
         /\ filed'[q.year] \in Return /\ filed'[q.year].previous = q.previous /\ filed'[q.year].previousUsed = q.previousUsed
         /\ \A y \in Years \ {q.year} : filed'[y] = filed[y]
         /\ \A c \in CreditIds :
              \/ /\ c \in previousCredits(q.year) /\ credit[c].by = None
                 /\ credit[c] \in Credit /\ credit'[c] = [credit[c] EXCEPT !.by = q.year]
              \/ /\ ~ Exists(c) /\ c > lastCredit
                 /\ credit'[c] \in Credit /\ credit'[c].by = None
              \/ ~ (c \in previousCredits(q.year) /\ credit[c].by = None) /\ credit'[c] = credit[c]
<1> DEFINE given  == Given(q.credits)
           id(k)  == lastCredit + Cardinality({j \in given : j = k \/ j = "SUBSTITUTE"})
           new(k) == [code |-> k, year |-> q.year, amount |-> q.credits[k], ret |-> q.year, by |-> None]
           closed == {c \in previousCredits(q.year) : credit[c].by = None}
           rid    == IF Filed(q.year) THEN filed[q.year].id ELSE FreshId(q.year, "unmark")
           row    == [id |-> rid, previous |-> q.previous, previousUsed |-> q.previousUsed]
<1>1. q.op = "markFiled" /\ UNCHANGED plan /\ End(r)
  BY DEF FileWrite
<1>2. q.year \in Years /\ q.previous \in Nat /\ q.previousUsed \in Nat /\ q.credits \in [Codes -> Nat]
  BY <1>1, RequestTypes
<1>3. row \in Return
  <2>1. FreshId(q.year, "unmark") \in RowIds
    BY <1>1, Fresh
  <2>2. Filed(q.year) => filed[q.year].id \in RowIds
    BY <1>2, Typed, ReturnTypes DEF Filed, RowsInv
  <2>3. rid \in RowIds
    BY <2>1, <2>2
  <2> HIDE DEF rid
  <2> QED BY <1>2, <2>3 DEF Return
<1>4. filed' = [filed EXCEPT ![q.year] = row]
  BY DEF FileWrite
<1>5. /\ filed' \in [Years -> Return \cup {NoReturn}] /\ filed'[q.year] \in Return
      /\ filed'[q.year].previous = q.previous /\ filed'[q.year].previousUsed = q.previousUsed
      /\ \A y \in Years \ {q.year} : filed'[y] = filed[y]
  <2>1. row.previous = q.previous /\ row.previousUsed = q.previousUsed
    OBVIOUS
  <2> HIDE DEF row
  <2> QED BY <1>2, <1>3, <1>4, <2>1, Typed DEF RowsInv
<1>6. credit' = [c \in CreditIds |->
                   IF c \in closed THEN [credit[c] EXCEPT !.by = q.year]
                   ELSE IF \E k \in given : c = id(k) THEN new(CHOOSE k \in given : c = id(k))
                   ELSE credit[c]]
  BY DEF FileWrite
<1>7. \A k \in given : new(k) \in Credit /\ new(k).by = None
  BY <1>2 DEF Given, Credit, CreditYears
<1>8. ASSUME NEW k \in given PROVE id(k) > lastCredit /\ id(k) \in Int
  <2> DEFINE S == {j \in given : j = k \/ j = "SUBSTITUTE"}
  <2>1. S \subseteq {k, "SUBSTITUTE"} /\ k \in S
    OBVIOUS
  <2>2. IsFiniteSet({k, "SUBSTITUTE"})
    <3>1. IsFiniteSet({k}) /\ {k, "SUBSTITUTE"} = {k} \cup {"SUBSTITUTE"}
      BY FS_Singleton
    <3> QED BY <3>1, FS_AddElement
  <2> HIDE DEF S
  <2>3. IsFiniteSet(S) /\ S # {}
    BY <2>1, <2>2, FS_Subset
  <2>4. Cardinality(S) \in Nat /\ Cardinality(S) # 0
    BY <2>3, FS_CardinalityType, FS_EmptySet
  <2>5. lastCredit \in Nat
    BY LastCredit, PlansAssumption DEF RowsInv
  <2> QED BY <2>4, <2>5 DEF S
<1> HIDE DEF given, id, new
<1>9. ASSUME NEW c \in CreditIds
      PROVE  \/ /\ c \in closed /\ credit[c] \in Credit /\ credit'[c] = [credit[c] EXCEPT !.by = q.year]
             \/ /\ ~ Exists(c) /\ c > lastCredit
                /\ credit'[c] \in Credit /\ credit'[c].by = None
             \/ c \notin closed /\ credit'[c] = credit[c]
  <2>1. CASE c \in closed
    <3>1. credit[c] \in Credit
      BY <2>1, ExistsIs DEF previousCredits, RowsInv
    <3> QED BY <1>6, <2>1, <3>1
  <2>2. CASE c \notin closed /\ \E k \in given : c = id(k)
    <3>1. PICK k \in given : k = CHOOSE j \in given : c = id(j)
      BY <2>2
    <3>2. credit'[c] = new(k)
      BY <1>6, <2>2, <3>1
    <3>3. c > lastCredit
      BY <1>8, <2>2
    <3> QED BY <1>7, <3>2, <3>3, LastCredit DEF RowsInv
  <2>3. CASE c \notin closed /\ ~ \E k \in given : c = id(k)
    BY <1>6, <2>3
  <2> QED BY <2>1, <2>2, <2>3
<1> HIDE DEF rid, row
<1>10. \A c \in CreditIds : credit'[c] \in Credit \cup {NoCredit} /\ (credit[c] \in Credit => credit'[c] \in Credit)
  <2> SUFFICES ASSUME NEW c \in CreditIds PROVE credit'[c] \in Credit \cup {NoCredit} /\ (credit[c] \in Credit => credit'[c] \in Credit)
    OBVIOUS
  <2>1. CASE credit[c] \in Credit /\ credit'[c] = [credit[c] EXCEPT !.by = q.year]
    BY <1>2, <2>1 DEF Credit
  <2> QED BY <1>9, <2>1, Typed DEF RowsInv
<1>11. credit' \in [CreditIds -> Credit \cup {NoCredit}]
  <2>1. credit' = [c \in CreditIds |-> credit'[c]]
    BY <1>6
  <2> QED BY <1>10, <2>1
<1>12. \A c \in CreditIds : Used(c)' = Used(c)
  BY <1>1, UsedIs
<1>13. \A c \in CreditIds : Used(c)' > 0 => credit'[c] \in Credit
  BY <1>10, <1>12, ExistsIs DEF RowsInv, UsesExist
<1>14. RowsInv'
  BY <1>1, <1>5, <1>11, <1>13, Ends, RowsAre, Typed DEF RowsInv
<1> QED
  BY <1>1, <1>2, <1>5, <1>9, <1>12, <1>14

\* Taking a return back: its credits are gone and the plans forget them, the credits it absorbed open again.
LEMMA UnmarkRows ==
  ASSUME RowsInv, NEW r \in Requests, UnmarkWrite(r), NEW y \in Years, y = request[r].year
  PROVE  /\ RowsInv' /\ End(r) /\ request[r].op = "unmark"
         /\ \/ UNCHANGED <<credit, plan, filed>>
            \/ /\ filed[y].id = request[r].id /\ ~ Filed(y)' /\ \A x \in Years \ {y} : filed'[x] = filed[x]
               /\ \A c \in CreditIds : Used(c)' = IF c \in Registered(y) THEN 0 ELSE Used(c)
               /\ \A c \in CreditIds :
                    \/ c \in Registered(y) /\ credit'[c] = NoCredit
                    \/ c \notin Registered(y) /\ credit[c].by = y /\ credit[c] \in Credit /\ credit'[c] = [credit[c] EXCEPT !.by = None]
                    \/ c \notin Registered(y) /\ credit[c].by # y /\ credit'[c] = credit[c]
<1>1. End(r) /\ request[r].op = "unmark"
  BY DEF UnmarkWrite
<1>2. CASE filed[y].id # request[r].id
  <2>1. UNCHANGED <<credit, plan, filed>>
    BY <1>2 DEF UnmarkWrite
  <2>2. \A c \in CreditIds : Used(c)' > 0 => credit'[c] \in Credit
    BY <2>1, UsedIs, ExistsIs DEF RowsInv, UsesExist
  <2>3. RowsInv'
    BY <1>1, <2>1, <2>2, Ends, RowsAre, Typed DEF RowsInv
  <2> QED BY <1>1, <2>1, <2>3
<1>3. CASE filed[y].id = request[r].id
  <2>1. /\ plan' = Forget(Registered(y)) /\ filed' = [filed EXCEPT ![y] = NoReturn]
        /\ credit' = [c \in CreditIds |-> IF c \in Registered(y) THEN NoCredit
                                          ELSE IF credit[c].by = y THEN [credit[c] EXCEPT !.by = None]
                                          ELSE credit[c]]
    BY <1>3 DEF UnmarkWrite
  <2>2. \A c \in CreditIds : credit[c].by = y => credit[c] \in Credit
    BY Typed, CreditTypes, YearTypes DEF RowsInv
  <2>3. \A c \in CreditIds :
          \/ c \in Registered(y) /\ credit'[c] = NoCredit
          \/ c \notin Registered(y) /\ credit[c].by = y /\ credit[c] \in Credit /\ credit'[c] = [credit[c] EXCEPT !.by = None]
          \/ c \notin Registered(y) /\ credit[c].by # y /\ credit'[c] = credit[c]
    BY <2>1, <2>2
  <2>4. plan' \in PlanRows /\ \A c \in CreditIds : Used(c)' = IF c \in Registered(y) THEN 0 ELSE Used(c)
    BY <2>1, Forgotten, Typed DEF RowsInv
  <2>5. \A c \in CreditIds : credit'[c] \in Credit \cup {NoCredit} /\ (c \notin Registered(y) => credit'[c] = credit[c] \/ credit'[c] \in Credit)
    <3> SUFFICES ASSUME NEW c \in CreditIds
                 PROVE  credit'[c] \in Credit \cup {NoCredit} /\ (c \notin Registered(y) => credit'[c] = credit[c] \/ credit'[c] \in Credit)
      OBVIOUS
    <3>1. CASE credit[c] \in Credit /\ credit'[c] = [credit[c] EXCEPT !.by = None]
      BY <3>1 DEF Credit
    <3> QED BY <2>3, <3>1, Typed DEF RowsInv
  <2>6. credit' \in [CreditIds -> Credit \cup {NoCredit}]
    <3>1. credit' = [c \in CreditIds |-> credit'[c]]
      BY <2>1
    <3> QED BY <2>5, <3>1
  <2>7. filed' \in [Years -> Return \cup {NoReturn}] /\ ~ Filed(y)' /\ \A x \in Years \ {y} : filed'[x] = filed[x]
    BY <2>1, Typed DEF RowsInv, Filed
  <2>8. \A c \in CreditIds : Used(c)' > 0 => credit'[c] \in Credit
    BY <2>4, <2>5, ExistsIs DEF RowsInv, UsesExist
  <2>9. RowsInv'
    BY <1>1, <2>4, <2>6, <2>7, <2>8, Ends, RowsAre, Typed DEF RowsInv
  <2> QED BY <1>1, <1>3, <2>3, <2>4, <2>7, <2>9
<1> QED
  BY <1>2, <1>3

\* A step is one of these.
LEMMA StepIs ==
  ASSUME TypeOK, [Next]_vars
  PROVE  \/ UNCHANGED vars
         \/ \E r \in Requests : \E q \in Request : Begin(r, q) /\ Accurate(q)
         \/ \E r \in Requests : create(r) \/ UpdateWrite(r) \/ RemoveWrite(r) \/ PlanSave(r) \/ DeletePlanWrite(r) \/ FileWrite(r) \/ UnmarkWrite(r)
         \/ \E r \in Requests, y \in Years : updateStatus(r, y)
<1>1. ASSUME NEW r \in Requests, NEW c \in CreditIds, UpdateRead(r, c) \/ RemoveRead(r, c)
      PROVE  \E q \in Request : Begin(r, q) /\ Accurate(q)
  BY <1>1, RegistryReads
<1>2. ASSUME NEW r \in Requests, NEW y \in Years, PlanRead(r, y) \/ DeletePlanRead(r, y) \/ FileRead(r, y) \/ UnmarkRead(r, y)
      PROVE  \E q \in Request : Begin(r, q) /\ Accurate(q)
  BY <1>2, PlanReads, ReturnReads
<1> QED
  BY <1>1, <1>2 DEF Next

LEMMA RowsStart == Init => RowsInv
<1> SUFFICES ASSUME Init PROVE RowsInv
  OBVIOUS
<1>1. Idle \in Request
  BY DEF Request, Idle
<1>2. TypeOK
  BY <1>1, Typed DEF Init, PlanRows
<1>3. \A c \in CreditIds : UsedIn(plan, c) = 0
  <2> SUFFICES ASSUME NEW c \in CreditIds PROVE UsedIn(plan, c) = 0
    OBVIOUS
  <2>1. \A y \in Years : plan[y].uses[c] = 0
    BY DEF Init, NoPlan, NoUses
  <2> QED BY <2>1, UsedNone
<1> QED
  BY <1>2, <1>3, UsedIs DEF RowsInv, UsesExist

LEMMA RowsStep ==
  ASSUME RowsInv, [Next]_vars
  PROVE  RowsInv'
<1>1. CASE UNCHANGED vars
  BY <1>1, UsedIs DEF RowsInv, UsesExist, Exists, TypeOK, vars
<1>2. ASSUME NEW r \in Requests, NEW q \in Request, Begin(r, q) PROVE RowsInv'
  BY <1>2, Begins
<1>3. ASSUME NEW r \in Requests,
             create(r) \/ UpdateWrite(r) \/ RemoveWrite(r) \/ PlanSave(r) \/ DeletePlanWrite(r)
      PROVE  RowsInv'
  BY <1>3, CreateRows, UpdateRows, RemoveRows, SaveRows, DeleteRows
<1>4. ASSUME NEW r \in Requests, NEW y \in Years, updateStatus(r, y) PROVE RowsInv'
  BY <1>4, StatusRows
<1>5. ASSUME NEW r \in Requests, FileWrite(r) \/ UnmarkWrite(r) PROVE RowsInv'
  <2> PICK q \in Request : q = request[r]
    BY Typed DEF RowsInv
  <2>1. UnmarkWrite(r) => q.year \in Years
    BY RequestTypes DEF UnmarkWrite
  <2> QED BY <1>5, <2>1, FileRows, UnmarkRows
<1> QED
  BY <1>1, <1>2, <1>3, <1>4, <1>5, StepIs DEF RowsInv

\* Credits, plans, returns and requests are well typed, whatever overlaps: a request holds the id of a row that existed and
\* amounts that are never negative.
THEOREM PlansTypes == Spec => []TypeOK
<1>1. RowsInv => TypeOK
  BY DEF RowsInv
<1> QED
  BY <1>1, RowsStart, RowsStep, PTL DEF Spec

-----------------------------------------------------------------------------
(* The uses of a credit *)

\* Two plans are being made that offset the same credit.
SharedCredit ==
  \E r, o \in Requests : /\ r # o /\ request[r].op = "createPlan" /\ request[o].op = "createPlan"
                         /\ \E c \in CreditIds : request[r].uses[c] > 0 /\ request[o].uses[c] > 0

\* A credit is being edited that a plan is about to use.
EditedInUse ==
  \E r, o \in Requests : request[r].op = "createPlan" /\ request[o].op = "update" /\ request[r].uses[request[o].credit] > 0

\* What a request is about to write still fits.
Covered(q) ==
  /\ q.op = "createPlan" => \A c \in CreditIds : q.uses[c] > 0 /\ Exists(c) => Used(c) + q.uses[c] <= credit[c].amount
  /\ q.op = "update" => Used(q.credit) = 0

MoneyInv == RowsInv /\ NotOverspent /\ \A r \in Requests : Covered(request[r])

\* The uses of a credit may only shrink; or a request has had it for itself.
Calm(c)  == Used(c)' <= Used(c) /\ (Exists(c)' => Exists(c) /\ credit'[c].amount = credit[c].amount)
Aside(c) ==
  /\ Used(c)' <= credit'[c].amount
  /\ \A o \in Requests : /\ request'[o].op = "createPlan" => request'[o].uses[c] = 0
                         /\ request'[o].op = "update" /\ request'[o].credit = c => Used(c)' = 0

LEMMA MoneyKept ==
  ASSUME MoneyInv, RowsInv', \A o \in Requests : request'[o] \in {request[o], Idle}, \A c \in CreditIds : Calm(c) \/ Aside(c)
  PROVE  MoneyInv'
<1>1. ASSUME NEW c \in CreditIds
      PROVE  /\ Used(c) \in Nat /\ Used(c)' \in Nat /\ credit[c].amount \in Nat /\ credit'[c].amount \in Nat
             /\ Used(c) <= credit[c].amount /\ (~ Exists(c)' => Used(c)' = 0)
  <2>1. Used(c) \in Nat /\ credit[c].amount \in Nat
    BY RemainingIs DEF MoneyInv, RowsInv
  <2>2. credit' \in [CreditIds -> Credit \cup {NoCredit}] /\ plan' \in PlanRows
    BY DEF RowsInv, TypeOK, PlanRows
  <2>3. Used(c)' \in Nat /\ credit'[c].amount \in Nat
    BY <2>2, UsedIs, UsedNat, CreditTypes
  <2> QED BY <2>1, <2>3 DEF MoneyInv, NotOverspent, RowsInv, UsesExist
<1>2. NotOverspent'
  <2> SUFFICES ASSUME NEW c \in CreditIds PROVE Used(c)' <= credit'[c].amount
    BY DEF NotOverspent
  <2> QED BY <1>1 DEF Calm, Aside
<1>3. ASSUME NEW o \in Requests PROVE Covered(request[o])'
  <2>1. CASE request'[o] = Idle
    BY <2>1 DEF Covered, Idle
  <2>2. CASE request'[o] = request[o]
    <3> PICK q \in Request : q = request[o]
      BY Typed DEF MoneyInv, RowsInv
    <3>1. Covered(q)
      BY DEF MoneyInv
    <3>2. ASSUME q.op = "createPlan", NEW c \in CreditIds, q.uses[c] > 0, Exists(c)'
          PROVE  Used(c)' + q.uses[c] <= credit'[c].amount
      <4>1. q.uses[c] \in Nat
        BY <3>2, RequestTypes DEF Uses
      <4>2. Calm(c)
        BY <2>2, <3>2, <4>1 DEF Aside
      <4> QED BY <1>1, <3>1, <3>2, <4>1, <4>2 DEF Calm, Covered
    <3>3. ASSUME q.op = "update" PROVE Used(q.credit)' = 0
      <4>1. q.credit \in CreditIds /\ Used(q.credit) = 0
        BY <3>1, <3>3, RequestTypes DEF Covered
      <4> QED BY <1>1, <2>2, <3>3, <4>1 DEF Calm, Aside
    <3> QED BY <2>2, <3>2, <3>3 DEF Covered
  <2> QED BY <2>1, <2>2
<1> QED
  BY <1>2, <1>3 DEF MoneyInv

LEMMA MoneyBegins ==
  ASSUME MoneyInv, NEW r \in Requests, NEW q \in Request, Begin(r, q), Accurate(q)
  PROVE  MoneyInv'
<1>1. /\ RowsInv' /\ UNCHANGED <<credit, plan, filed>>
      /\ request'[r] = q /\ \A o \in Requests \ {r} : request'[o] = request[o]
  BY Begins DEF MoneyInv
<1>2. \A c : Used(c)' = Used(c) /\ (Exists(c)' = Exists(c))
  BY <1>1, UsedIs DEF Exists
<1>3. Covered(q)
  BY DEF Accurate, Covered
<1>4. ASSUME NEW o \in Requests PROVE Covered(request[o])'
  <2> PICK x : x = request'[o]
    OBVIOUS
  <2>1. Covered(x)
    BY <1>1, <1>3 DEF MoneyInv
  <2> QED BY <1>1, <1>2, <2>1 DEF Covered
<1>5. NotOverspent'
  BY <1>1, <1>2 DEF MoneyInv, NotOverspent
<1> QED
  BY <1>1, <1>4, <1>5 DEF MoneyInv

\* A credit that comes into the registry is one that no request has read.
LEMMA MoneyNew ==
  ASSUME MoneyInv, RowsInv', NEW c \in CreditIds, ~ Exists(c), c > lastCredit, Used(c)' = Used(c),
         \A o \in Requests : request'[o] \in {request[o], Idle}
  PROVE  Aside(c)
<1>1. Used(c)' = 0
  BY NotThere DEF MoneyInv
<1>2. credit'[c].amount \in Nat
  <2>1. credit' \in [CreditIds -> Credit \cup {NoCredit}]
    BY DEF RowsInv, TypeOK
  <2> QED BY <2>1, CreditTypes
<1>3. \A o \in Requests : request'[o].op = "createPlan" => request'[o].uses[c] = 0
  BY LastCredit DEF MoneyInv, RowsInv, Idle
<1> QED
  BY <1>1, <1>2, <1>3 DEF Aside

LEMMA MoneyWrites ==
  ASSUME MoneyInv, ~ SharedCredit, ~ EditedInUse, NEW r \in Requests,
         create(r) \/ UpdateWrite(r) \/ RemoveWrite(r) \/ PlanSave(r) \/ DeletePlanWrite(r) \/ FileWrite(r) \/ UnmarkWrite(r)
  PROVE  MoneyInv'
<1> PICK q \in Request : q = request[r]
  BY Typed DEF MoneyInv, RowsInv
<1>0. RowsInv /\ \A c \in CreditIds : Used(c) \in Nat /\ credit[c].amount \in Nat /\ NoCredit.amount = 0
  BY RemainingIs DEF MoneyInv, RowsInv, NoCredit
<1>1. End(r) => /\ request'[r] = Idle /\ \A o \in Requests : request'[o] \in {request[o], Idle}
                /\ \A o \in Requests \ {r} : request'[o] = request[o]
  BY <1>0, Ends DEF RowsInv
<1>2. CASE create(r)
  <2>1. PICK n \in CreditIds : n > lastCredit /\ ~ Exists(n) /\ \A c \in CreditIds \ {n} : credit'[c] = credit[c]
    BY <1>0, <1>2, CreateRows
  <2>2. RowsInv' /\ UNCHANGED request /\ \A c \in CreditIds : Used(c)' = Used(c)
    BY <1>0, <1>2, CreateRows
  <2>3. Aside(n)
    BY <2>1, <2>2, MoneyNew
  <2>4. \A c \in CreditIds \ {n} : Calm(c)
    BY <1>0, <2>1, <2>2 DEF Calm, Exists
  <2> QED BY <2>2, <2>3, <2>4, MoneyKept
<1>3. CASE UpdateWrite(r)
  <2>1. /\ RowsInv' /\ End(r) /\ q.op = "update" /\ q.credit \in CreditIds
        /\ \A d \in CreditIds : Used(d)' = Used(d)
        /\ \A d \in CreditIds \ {q.credit} : credit'[d] = credit[d]
    BY <1>0, <1>3, UpdateRows
  <2>2. Used(q.credit)' = 0
    BY <2>1 DEF MoneyInv, Covered
  <2>3. credit'[q.credit].amount \in Nat
    <3>1. credit' \in [CreditIds -> Credit \cup {NoCredit}]
      BY <2>1 DEF RowsInv, TypeOK
    <3> QED BY <2>1, <3>1, CreditTypes
  <2>4. \A o \in Requests : request'[o].op = "createPlan" => request'[o].uses[q.credit] = 0
    <3> SUFFICES ASSUME NEW o \in Requests, request'[o].op = "createPlan" PROVE request'[o].uses[q.credit] = 0
      OBVIOUS
    <3>1. request'[o] = request[o] /\ request[o] \in Request
      BY <1>0, <1>1, <2>1, Typed DEF Idle, RowsInv
    <3>2. request[o].uses[q.credit] \in Nat /\ ~ request[o].uses[q.credit] > 0
      BY <2>1, <3>1, RequestTypes DEF Uses, EditedInUse
    <3> QED BY <3>1, <3>2
  <2>5. Aside(q.credit)
    BY <2>2, <2>3, <2>4 DEF Aside
  <2>6. \A d \in CreditIds \ {q.credit} : Calm(d)
    BY <1>0, <2>1 DEF Calm, Exists
  <2> QED BY <1>1, <2>1, <2>5, <2>6, MoneyKept
<1>4. CASE RemoveWrite(r)
  <2>1. /\ RowsInv' /\ End(r) /\ credit'[q.credit] = NoCredit
        /\ \A d \in CreditIds : Used(d)' = IF d = q.credit THEN 0 ELSE Used(d)
        /\ \A d \in CreditIds \ {q.credit} : credit'[d] = credit[d]
    BY <1>0, <1>4, RemoveRows
  <2>2. \A d \in CreditIds : Calm(d)
    BY <1>0, <2>1 DEF Calm, Exists
  <2> QED BY <1>1, <2>1, <2>2, MoneyKept
<1>5. CASE PlanSave(r)
  <2>1. /\ RowsInv' /\ UNCHANGED <<credit, filed>> /\ End(r) /\ q.op = "createPlan"
        /\ \A c \in CreditIds : Used(c)' = Used(c) \/ (q.uses[c] > 0 /\ Exists(c) /\ Used(c)' = Used(c) + q.uses[c])
    BY <1>0, <1>5, SaveRows
  <2>2. ASSUME NEW c \in CreditIds, q.uses[c] > 0, Exists(c), Used(c)' = Used(c) + q.uses[c] PROVE Aside(c)
    <3>1. Used(c)' <= credit'[c].amount
      BY <2>1, <2>2 DEF MoneyInv, Covered
    <3>2. ASSUME NEW o \in Requests, request'[o].op \in {"createPlan", "update"}
          PROVE  request'[o] = request[o] /\ o # r /\ request[o] \in Request
      BY <1>0, <1>1, <2>1, <3>2, Typed DEF Idle, RowsInv
    <3>3. ASSUME NEW o \in Requests, request'[o].op = "createPlan" PROVE request'[o].uses[c] = 0
      <4>1. request[o].uses[c] \in Nat /\ ~ request[o].uses[c] > 0
        BY <2>1, <2>2, <3>2, <3>3, RequestTypes DEF Uses, SharedCredit
      <4> QED BY <3>2, <3>3, <4>1
    <3>4. ASSUME NEW o \in Requests, request'[o].op = "update" PROVE request'[o].credit # c
      BY <2>1, <2>2, <3>2, <3>4 DEF EditedInUse
    <3> QED BY <3>1, <3>3, <3>4 DEF Aside
  <2>3. \A c \in CreditIds : Used(c)' = Used(c) => Calm(c)
    BY <1>0, <2>1 DEF Calm, Exists
  <2> QED BY <1>1, <2>1, <2>2, <2>3, MoneyKept
<1>6. CASE DeletePlanWrite(r)
  <2>1. RowsInv' /\ UNCHANGED <<credit, filed>> /\ End(r) /\ \A c \in CreditIds : Used(c)' <= Used(c)
    BY <1>0, <1>6, DeleteRows
  <2>2. \A c \in CreditIds : Calm(c)
    BY <2>1 DEF Calm, Exists
  <2> QED BY <1>1, <2>1, <2>2, MoneyKept
<1>7. CASE FileWrite(r)
  <2>1. RowsInv' /\ End(r) /\ \A c \in CreditIds : Used(c)' = Used(c)
    BY <1>0, <1>7, FileRows
  <2>2. ASSUME NEW c \in CreditIds PROVE Calm(c) \/ Aside(c)
    <3>1. CASE credit[c] \in Credit /\ credit'[c] = [credit[c] EXCEPT !.by = q.year]
      <4>1. credit'[c].amount = credit[c].amount
        BY <3>1 DEF Credit
      <4> QED BY <1>0, <2>1, <4>1 DEF Calm, Exists
    <3>2. CASE ~ Exists(c) /\ c > lastCredit
      BY <1>1, <2>1, <3>2, MoneyNew
    <3>3. CASE credit'[c] = credit[c]
      BY <1>0, <2>1, <3>3 DEF Calm, Exists
    <3> QED BY <1>0, <1>7, <3>1, <3>2, <3>3, FileRows
  <2> QED BY <1>1, <2>1, <2>2, MoneyKept
<1>8. CASE UnmarkWrite(r)
  <2> PICK y \in Years : y = q.year
    BY <1>8, RequestTypes DEF UnmarkWrite
  <2>1. RowsInv' /\ End(r)
    BY <1>0, <1>8, UnmarkRows
  <2>2. ASSUME NEW c \in CreditIds PROVE Calm(c)
    <3>1. CASE UNCHANGED <<credit, plan, filed>>
      BY <1>0, <3>1, UsedIs DEF Calm, Exists
    <3>2. ASSUME Used(c)' = (IF c \in Registered(y) THEN 0 ELSE Used(c)),
                 \/ credit'[c] = NoCredit
                 \/ credit[c] \in Credit /\ credit'[c] = [credit[c] EXCEPT !.by = None]
                 \/ credit'[c] = credit[c]
          PROVE  Calm(c)
      <4>1. credit[c] \in Credit /\ credit'[c] = [credit[c] EXCEPT !.by = None] => credit'[c].amount = credit[c].amount
        BY DEF Credit
      <4>2. Used(c)' <= Used(c)
        BY <1>0, <3>2
      <4> QED BY <1>0, <3>2, <4>1, <4>2 DEF Calm, Exists
    <3> QED BY <1>0, <1>8, <3>1, <3>2, UnmarkRows
  <2> QED BY <1>1, <2>1, <2>2, MoneyKept
<1> QED
  BY <1>2, <1>3, <1>4, <1>5, <1>6, <1>7, <1>8

LEMMA MoneyStep ==
  ASSUME MoneyInv, ~ SharedCredit, ~ EditedInUse, [Next]_vars
  PROVE  MoneyInv'
<1>1. CASE UNCHANGED vars
  <2>1. RowsInv' /\ UNCHANGED <<credit, plan, filed, request>>
    BY <1>1, RowsStep DEF MoneyInv, vars
  <2>2. \A c \in CreditIds : Calm(c)
    BY <2>1, UsedIs, RemainingIs DEF Calm, Exists, MoneyInv, RowsInv
  <2> QED BY <2>1, <2>2, MoneyKept
<1>2. ASSUME NEW r \in Requests, NEW y \in Years, updateStatus(r, y) PROVE MoneyInv'
  <2>1. RowsInv' /\ UNCHANGED <<credit, filed, request>> /\ \A c \in CreditIds : Used(c)' = Used(c)
    BY <1>2, StatusRows DEF MoneyInv
  <2>2. \A c \in CreditIds : Calm(c)
    BY <2>1, RemainingIs DEF Calm, Exists, MoneyInv, RowsInv
  <2> QED BY <2>1, <2>2, MoneyKept
<1> QED
  BY <1>1, <1>2, MoneyBegins, MoneyWrites, StepIs DEF MoneyInv, RowsInv

\* The forms of all plans never use more of a credit than it is worth (tax-credits.service.ts, f24.service.ts), whatever
\* overlaps, unless two plans are made at once out of the same credit, or a credit is edited that a plan is about to use:
\* nothing else overspends a credit, be it the deletion of plans, the filing of returns or their being taken back.
THEOREM NeverOverspent == Spec => []NotOverspent \/ <>SharedCredit \/ <>EditedInUse
<1>1. Init => MoneyInv
  <2> SUFFICES ASSUME Init PROVE MoneyInv
    OBVIOUS
  <2>1. RowsInv /\ \A r \in Requests : request[r].op = "idle"
    BY RowsStart DEF Init, Idle
  <2>2. \A c \in CreditIds : ~ Exists(c)
    BY DEF Init, Exists, NoCredit
  <2>3. NotOverspent
    BY <2>1, <2>2, NotThere DEF NotOverspent
  <2> QED BY <2>1, <2>3 DEF MoneyInv, Covered
<1>2. MoneyInv /\ ~ SharedCredit /\ ~ EditedInUse /\ [Next]_vars => MoneyInv'
  BY MoneyStep
<1>3. MoneyInv => NotOverspent
  BY DEF MoneyInv
<1> QED
  BY <1>1, <1>2, <1>3, PTL DEF Spec

-----------------------------------------------------------------------------
(* What a return has carried *)

\* The credits that a request is about to edit, use or take out of the registry.
Claimed(q) ==
  IF q.op \in {"update", "remove"} THEN {q.credit}
  ELSE IF q.op = "createPlan" THEN {c \in CreditIds : q.uses[c] > 0}
  ELSE IF q.op = "unmark" /\ filed[q.year].id = q.id THEN Registered(q.year)
  ELSE {}

\* A return is being filed from credits that another request is about to edit, use or take out.
CarriedBeside ==
  \E r, o \in Requests : request[r].op = "markFiled" /\ Claimed(request[o]) \cap previousCredits(request[r].year) # {}

\* A return is being taken back whose credits the next one has absorbed.
WithdrawnCarried ==
  \E r \in Requests : /\ request[r].op = "unmark" /\ filed[request[r].year].id = request[r].id
                      /\ \E c \in Registered(request[r].year) : credit[c].by # None

\* What absorbed a credit is the filed return of the year after it.
AbsorbedOK ==
  \A c \in CreditIds : credit[c].by # None => Filed(credit[c].by) /\ credit[c].code = "SUBSTITUTE" /\ credit[c].year = credit[c].by - 1

Absorbed(credits, y) == {c \in CreditIds : credits[c].by = y}

\* The figures a return shows, or is about to, are still covered: by the credits it absorbed, or by those it will absorb.
ShownRight(y) == Filed(y) => filed[y].previous - filed[y].previousUsed <= Over(credit, plan, Absorbed(credit, y))
ReadRight(q)  == q.op = "markFiled" => q.previous - q.previousUsed <= Over(credit, plan, previousCredits(q.year))

\* Nothing absorbs the credits that a request is about to edit, use or remove.
Keeps(q) ==
  /\ q.op # "unmark" => \A c \in Claimed(q) : credit[c].by = None
  /\ q.op = "update" => Used(q.credit) = 0

CarriedInv ==
  /\ RowsInv /\ AbsorbedOK
  /\ \A y \in Years : ShownRight(y)
  /\ \A r \in Requests : Keeps(request[r]) /\ ReadRight(request[r])

LEMMA CarriedOnceIs == CarriedInv => CarriedOnce
<1> SUFFICES ASSUME CarriedInv, NEW y \in Years, Filed(y)
             PROVE  filed[y].previous - filed[y].previousUsed
                      <= SumFunction([c \in Absorbed(credit, y) |-> credit[c].amount - Used(c)])
  BY DEF CarriedOnce, Absorbed
<1>1. Absorbed(credit, y) \in SUBSET CreditIds
  BY DEF Absorbed
<1>2. SumFunction([c \in Absorbed(credit, y) |-> credit[c].amount - Used(c)]) = Over(credit, plan, Absorbed(credit, y))
  BY <1>1, OverIs DEF CarriedInv, RowsInv
<1> QED
  BY <1>2 DEF CarriedInv, ShownRight

\* A return that keeps its row and its credits, with no more uses of them, shows what it did.
LEMMA ShownKept ==
  ASSUME TypeOK, TypeOK', NEW y \in Years, ShownRight(y), filed'[y] = filed[y],
         \A c \in CreditIds : /\ credit[c].by = y <=> credit'[c].by = y
                              /\ credit[c].by = y => credit'[c].amount = credit[c].amount /\ Used(c)' <= Used(c)
  PROVE  ShownRight(y)'
<1> DEFINE S == Absorbed(credit, y)
<1>1. S \in SUBSET CreditIds /\ Absorbed(credit', y) = S
  BY DEF Absorbed
<1>2. \A c \in S : credit'[c].amount = credit[c].amount /\ UsedIn(plan', c) <= UsedIn(plan, c)
  BY UsedIs DEF Absorbed
<1> HIDE DEF S
<1>3. /\ credit \in [CreditIds -> Credit \cup {NoCredit}] /\ credit' \in [CreditIds -> Credit \cup {NoCredit}]
      /\ plan \in PlanRows /\ plan' \in PlanRows /\ filed \in [Years -> Return \cup {NoReturn}]
  BY DEF TypeOK, PlanRows
<1>4. Over(credit, plan, S) <= Over(credit', plan', S)
  BY <1>1, <1>2, <1>3, OverKept
<1>5. Over(credit, plan, S) \in Int /\ Over(credit', plan', S) \in Int
  BY <1>1, <1>3, LeftInt
<1> SUFFICES ASSUME filed'[y] # NoReturn
             PROVE  filed'[y].previous - filed'[y].previousUsed <= Over(credit', plan', S)
  BY <1>1 DEF ShownRight, Filed
<1>6. filed[y].previous \in Nat /\ filed[y].previousUsed \in Nat
  BY <1>3, ReturnTypes
<1>7. filed[y].previous - filed[y].previousUsed <= Over(credit, plan, S)
  BY DEF ShownRight, Filed, S
<1> QED
  BY <1>4, <1>5, <1>6, <1>7

\* What is left of more credits is no less, when the others are worth what their uses are.
LEMMA OverMore ==
  ASSUME NEW credits \in [CreditIds -> Credit \cup {NoCredit}], NEW plans \in PlanRows,
         NEW S \in SUBSET CreditIds, NEW T \in SUBSET CreditIds, S \subseteq T,
         \A c \in T \ S : UsedIn(plans, c) <= credits[c].amount
  PROVE  Over(credits, plans, S) <= Over(credits, plans, T)
<1> DEFINE l == LeftOf(credits, plans)
           R == T \ S
<1>1. \A c \in CreditIds : l[c] \in Int
  BY LeftInt
<1>2. \A c \in R : l[c] \in Nat
  <2> SUFFICES ASSUME NEW c \in R PROVE l[c] \in Nat
    OBVIOUS
  <2>1. credits[c].amount \in Nat /\ UsedIn(plans, c) \in Nat
    BY CreditTypes, UsedNat
  <2>2. l[c] = credits[c].amount - UsedIn(plans, c)
    BY LeftInt
  <2> QED BY <2>1, <2>2
<1>3. R \in SUBSET CreditIds /\ S \cap R = {} /\ S \cup R = T
  OBVIOUS
<1> HIDE DEF l, R
<1>4. IsFiniteSet(S) /\ IsFiniteSet(R) /\ \A c \in S \cup R : l[c] \in Int
  BY <1>1, <1>3, CreditsFinite
<1>5. SumFunctionOnSet(l, T) = SumFunctionOnSet(l, S) + SumFunctionOnSet(l, R)
  <2>1. SumFunctionOnSet(l, S \cup R) = SumFunctionOnSet(l, S) + SumFunctionOnSet(l, R)
    BY <1>3, <1>4, SumUnion
  <2> QED BY <1>3, <2>1
<1>6. SumFunctionOnSet(l, R) \in Nat /\ SumFunctionOnSet(l, S) \in Int
  BY <1>2, <1>4, SumIn
<1>7. SumFunctionOnSet(l, S) <= SumFunctionOnSet(l, T)
  BY <1>5, <1>6
<1> QED
  BY <1>7 DEF Over, l

\* A credit of the year before that a return is filed from stays one, of the same amount and used no more; one that comes to
\* them is worth what its uses are.
Steady(c, y) ==
  /\ c \in previousCredits(y) => c \in previousCredits(y)' /\ credit'[c].amount = credit[c].amount /\ Used(c)' <= Used(c)
  /\ c \notin previousCredits(y) /\ c \in previousCredits(y)' => Used(c)' <= credit'[c].amount

LEMMA ReadKept ==
  ASSUME TypeOK, TypeOK', NEW x \in Request, ReadRight(x), x.op = "markFiled" => \A c \in CreditIds : Steady(c, x.year)
  PROVE  x.op = "markFiled" => x.previous - x.previousUsed <= Over(credit', plan', previousCredits(x.year)')
<1> SUFFICES ASSUME x.op = "markFiled"
             PROVE  x.previous - x.previousUsed <= Over(credit', plan', previousCredits(x.year)')
  OBVIOUS
<1> DEFINE S == previousCredits(x.year)
           T == previousCredits(x.year)'
<1>1. S \in SUBSET CreditIds /\ T \in SUBSET CreditIds /\ S \subseteq T
  BY DEF previousCredits, Steady
<1>2. \A c \in S : credit'[c].amount = credit[c].amount /\ UsedIn(plan', c) <= UsedIn(plan, c)
  BY <1>1, UsedIs DEF Steady
<1>3. \A c \in T \ S : UsedIn(plan', c) <= credit'[c].amount
  BY <1>1, UsedIs DEF Steady
<1>4. x.previous - x.previousUsed <= Over(credit, plan, S) /\ x.previous \in Nat /\ x.previousUsed \in Nat
  BY RequestTypes DEF ReadRight
<1> HIDE DEF S, T
<1>5. /\ credit \in [CreditIds -> Credit \cup {NoCredit}] /\ credit' \in [CreditIds -> Credit \cup {NoCredit}]
      /\ plan \in PlanRows /\ plan' \in PlanRows
  BY DEF TypeOK, PlanRows
<1>6. Over(credit, plan, S) <= Over(credit', plan', S)
  BY <1>1, <1>2, <1>5, OverKept
<1>7. Over(credit', plan', S) <= Over(credit', plan', T)
  BY <1>1, <1>3, <1>5, OverMore
<1>8. Over(credit, plan, S) \in Int /\ Over(credit', plan', S) \in Int /\ Over(credit', plan', T) \in Int
  BY <1>1, <1>5, LeftInt
<1>9. x.previous - x.previousUsed <= Over(credit', plan', T)
  BY <1>4, <1>6, <1>7, <1>8
<1> QED
  BY <1>9 DEF T

\* Nothing absorbs what a request claims, and uses only go.
LEMMA KeepsKept ==
  ASSUME TypeOK, NEW x \in Request, Keeps(x),
         x.op # "unmark" => \A c \in Claimed(x) : credit[c].by = None => credit'[c].by = None,
         x.op = "update" => Used(x.credit)' = 0
  PROVE  Keeps(x)'
<1>1. x.op # "unmark" => Claimed(x)' = Claimed(x)
  BY DEF Claimed
<1> QED
  BY <1>1 DEF Keeps

\* The requests that go on rely on what stays.
LEMMA RequestsKept ==
  ASSUME CarriedInv, RowsInv', \A o \in Requests : request'[o] \in {request[o], Idle},
         \A o \in Requests : request'[o] = request[o] /\ request[o].op \in {"update", "remove", "createPlan"}
           => \A c \in Claimed(request[o]) : credit[c].by = None => credit'[c].by = None,
         \A o \in Requests, x \in Request : x = request[o] /\ x = request'[o] /\ x.op = "update" => Used(x.credit)' = 0,
         \A o \in Requests, x \in Request : x = request[o] /\ x = request'[o] /\ x.op = "markFiled" => \A c \in CreditIds : Steady(c, x.year)
  PROVE  \A o \in Requests : Keeps(request[o])' /\ ReadRight(request[o])'
<1> SUFFICES ASSUME NEW o \in Requests PROVE Keeps(request[o])' /\ ReadRight(request[o])'
  OBVIOUS
<1>1. CASE request'[o] = Idle
  BY <1>1 DEF Keeps, ReadRight, Claimed, Idle
<1>2. CASE request'[o] = request[o]
  <2> PICK x \in Request : x = request[o]
    BY Typed DEF CarriedInv, RowsInv
  <2>1. Keeps(x) /\ ReadRight(x) /\ TypeOK /\ TypeOK'
    BY DEF CarriedInv, RowsInv
  <2>2. x.op # "unmark" => \A c \in Claimed(x) : credit[c].by = None => credit'[c].by = None
    <3>1. x.op \notin {"update", "remove", "createPlan", "unmark"} => Claimed(x) = {}
      BY DEF Claimed
    <3> QED BY <1>2, <3>1
  <2>3. Keeps(x)'
    BY <1>2, <2>1, <2>2, KeepsKept
  <2>4. x.op = "markFiled" => x.previous - x.previousUsed <= Over(credit', plan', previousCredits(x.year)')
    BY <1>2, <2>1, ReadKept
  <2>5. x = request'[o]
    BY <1>2
  <2> QED BY <2>3, <2>4, <2>5 DEF Keeps, Claimed, ReadRight
<1> QED
  BY <1>1, <1>2

LEMMA CarriedBegins ==
  ASSUME CarriedInv, NEW r \in Requests, NEW q \in Request, Begin(r, q), Accurate(q)
  PROVE  CarriedInv'
<1>1. /\ RowsInv' /\ UNCHANGED <<credit, plan, filed>>
      /\ request'[r] = q /\ \A o \in Requests \ {r} : request'[o] = request[o]
  BY Begins DEF CarriedInv
<1>2. /\ \A c : Used(c)' = Used(c) /\ (Exists(c)' = Exists(c))
      /\ \A y : previousCredits(y)' = previousCredits(y) /\ Registered(y)' = Registered(y)
  BY <1>1, UsedIs DEF Exists, previousCredits, Registered
<1>3. Keeps(q) /\ ReadRight(q)
  <2>1. q.op \in {"markFiled", "deletePlan", "idle"} => Claimed(q) = {}
    BY DEF Claimed
  <2>2. q.op = "createPlan" => Claimed(q) = {c \in CreditIds : q.uses[c] > 0}
    BY DEF Claimed
  <2>3. q.op \in {"update", "remove"} => Claimed(q) = {q.credit}
    BY DEF Claimed
  <2>4. q.op \in {"idle", "createPlan", "deletePlan", "unmark", "update", "remove", "markFiled"}
    BY RequestTypes
  <2> QED BY <2>1, <2>2, <2>3, <2>4 DEF Accurate, Keeps, ReadRight
<1>4. \A o \in Requests : Keeps(request'[o]) /\ ReadRight(request'[o])
  BY <1>1, <1>3 DEF CarriedInv
<1>5. ASSUME NEW o \in Requests PROVE Keeps(request[o])' /\ ReadRight(request[o])'
  <2> PICK x : x = request'[o]
    OBVIOUS
  <2>1. Keeps(x) /\ ReadRight(x)
    BY <1>4
  <2>2. Keeps(x)'
    BY <1>1, <1>2, <2>1 DEF Keeps, Claimed
  <2>3. ReadRight(x)'
    BY <1>1, <1>2, <2>1 DEF ReadRight
  <2> QED BY <2>2, <2>3 DEF Keeps, ReadRight, Claimed
<1>6. AbsorbedOK' /\ \A y \in Years : ShownRight(y)'
  BY <1>1 DEF CarriedInv, AbsorbedOK, ShownRight, Filed
<1> QED
  BY <1>1, <1>5, <1>6 DEF CarriedInv

\* The rows a step leaves alone are as right as they were.
Same(c) == credit'[c] = credit[c] /\ Used(c)' <= Used(c)

LEMMA SameIs ==
  ASSUME NEW c \in CreditIds, Same(c)
  PROVE  \A y : Steady(c, y)
  BY DEF Same, Steady, previousCredits, Exists

\* A return is filed from nothing that another request claims.
LEMMA NotCarried ==
  ASSUME ~ CarriedBeside, NEW r \in Requests, NEW c \in Claimed(request[r]),
         NEW o \in Requests, NEW x, x = request[o], x.op = "markFiled"
  PROVE  c \notin previousCredits(x.year)
  BY DEF CarriedBeside

LEMMA ClaimedIn ==
  ASSUME TypeOK, NEW o \in Requests
  PROVE  Claimed(request[o]) \subseteq CreditIds
  BY Typed, RequestTypes DEF Claimed, Registered

LEMMA CarriedCreate ==
  ASSUME CarriedInv, NEW r \in Requests, create(r)
  PROVE  CarriedInv'
<1>1. /\ RowsInv /\ RowsInv' /\ TypeOK /\ TypeOK' /\ UNCHANGED <<plan, filed, request>>
      /\ \A c \in CreditIds : Used(c)' = Used(c) /\ Used(c) \in Nat
  BY CreateRows, RemainingIs DEF CarriedInv, RowsInv
<1>2. PICK n \in CreditIds : /\ ~ Exists(n) /\ Used(n) = 0 /\ credit'[n] \in Credit /\ credit'[n].by = None
                             /\ \A c \in CreditIds \ {n} : credit'[c] = credit[c]
  BY CreateRows DEF CarriedInv
<1>3. credit[n].by = None /\ credit'[n].amount \in Nat
  BY <1>1, <1>2, NotThere, CreditTypes
<1>4. AbsorbedOK'
  BY <1>1, <1>2 DEF CarriedInv, AbsorbedOK, Filed
<1>5. ASSUME NEW y \in Years PROVE ShownRight(y)'
  <2>1. \A c \in CreditIds : /\ credit[c].by = y <=> credit'[c].by = y
                             /\ credit[c].by = y => credit'[c].amount = credit[c].amount /\ Used(c)' <= Used(c)
    BY <1>1, <1>2, <1>3, YearTypes
  <2> QED BY <1>1, <2>1, ShownKept DEF CarriedInv
<1>6. \A c \in CreditIds : \A y : Steady(c, y)
  <2>1. \A c \in CreditIds \ {n} : Same(c)
    BY <1>1, <1>2 DEF Same
  <2>2. \A y : n \notin previousCredits(y) /\ Used(n)' <= credit'[n].amount
    BY <1>1, <1>2, <1>3 DEF previousCredits
  <2> QED BY <2>1, <2>2, SameIs DEF Steady
<1>7. \A o \in Requests : Keeps(request[o])' /\ ReadRight(request[o])'
  <2>1. ASSUME NEW o \in Requests, NEW x \in Request, x = request[o], x.op = "update" PROVE Used(x.credit)' = 0
    <3>1. x.credit \in CreditIds /\ Used(x.credit) = 0
      BY <2>1, RequestTypes DEF CarriedInv, Keeps
    <3> QED BY <1>1, <3>1
  <2>2. \A c : credit[c].by = None /\ c \in CreditIds => credit'[c].by = None
    BY <1>2
  <2> QED BY <1>1, <1>6, <2>1, <2>2, ClaimedIn, RequestsKept
<1> QED
  BY <1>1, <1>4, <1>5, <1>7 DEF CarriedInv

LEMMA CarriedUpdate ==
  ASSUME CarriedInv, ~ CarriedBeside, NEW r \in Requests, UpdateWrite(r)
  PROVE  CarriedInv'
<1> PICK c \in CreditIds : c = request[r].credit
  BY UpdateRows DEF CarriedInv
<1>1. /\ RowsInv /\ RowsInv' /\ TypeOK /\ TypeOK' /\ UNCHANGED <<plan, filed>> /\ End(r) /\ request[r].op = "update"
      /\ \A d \in CreditIds : Used(d)' = Used(d) /\ Used(d) \in Nat /\ credit'[d].by = credit[d].by
      /\ \A d \in CreditIds \ {c} : credit'[d] = credit[d]
  BY UpdateRows, RemainingIs DEF CarriedInv, RowsInv
<1>2. /\ request'[r] = Idle /\ \A o \in Requests : request'[o] \in {request[o], Idle}
      /\ \A o \in Requests \ {r} : request'[o] = request[o]
  BY <1>1, Ends
<1>3. Claimed(request[r]) = {c} /\ credit[c].by = None /\ Used(c)' = 0
  BY <1>1 DEF CarriedInv, Keeps, Claimed
<1>4. AbsorbedOK'
  BY <1>1, <1>3 DEF CarriedInv, AbsorbedOK, Filed
<1>5. ASSUME NEW y \in Years PROVE ShownRight(y)'
  <2>1. \A d \in CreditIds : /\ credit[d].by = y <=> credit'[d].by = y
                             /\ credit[d].by = y => credit'[d].amount = credit[d].amount /\ Used(d)' <= Used(d)
    BY <1>1, <1>3, YearTypes
  <2> QED BY <1>1, <2>1, ShownKept DEF CarriedInv
<1>6. ASSUME NEW o \in Requests, NEW x \in Request, x = request[o], x.op = "markFiled", NEW d \in CreditIds PROVE Steady(d, x.year)
  <2>1. CASE d # c
    <3>1. Same(d)
      BY <1>1, <2>1 DEF Same
    <3> QED BY <3>1, SameIs
  <2>2. CASE d = c
    <3>1. c \notin previousCredits(x.year)
      BY <1>3, <1>6, NotCarried
    <3>2. credit'[c].amount \in Nat
      BY <1>1, Typed, CreditTypes DEF TypeOK
    <3> QED BY <1>3, <2>2, <3>1, <3>2 DEF Steady
  <2> QED BY <2>1, <2>2
<1>7. \A o \in Requests : Keeps(request[o])' /\ ReadRight(request[o])'
  <2>1. ASSUME NEW o \in Requests, NEW x \in Request, x = request[o], x.op = "update" PROVE Used(x.credit)' = 0
    <3>1. x.credit \in CreditIds /\ Used(x.credit) = 0
      BY <2>1, RequestTypes DEF CarriedInv, Keeps
    <3> QED BY <1>1, <3>1
  <2>2. \A o \in Requests : \A d \in Claimed(request[o]) : credit[d].by = None => credit'[d].by = None
    BY <1>1, ClaimedIn
  <2> QED BY <1>1, <1>2, <1>6, <2>1, <2>2, RequestsKept
<1> QED
  BY <1>1, <1>4, <1>5, <1>7 DEF CarriedInv

LEMMA CarriedRemove ==
  ASSUME CarriedInv, ~ CarriedBeside, NEW r \in Requests, RemoveWrite(r)
  PROVE  CarriedInv'
<1> PICK c \in CreditIds : c = request[r].credit
  BY RemoveRows DEF CarriedInv
<1>1. /\ RowsInv /\ RowsInv' /\ TypeOK /\ TypeOK' /\ filed' = filed /\ End(r) /\ request[r].op = "remove" /\ credit'[c] = NoCredit
      /\ \A d \in CreditIds : Used(d)' = IF d = c THEN 0 ELSE Used(d)
      /\ \A d \in CreditIds \ {c} : credit'[d] = credit[d]
  BY RemoveRows DEF CarriedInv, RowsInv
<1>2. /\ request'[r] = Idle /\ \A o \in Requests : request'[o] \in {request[o], Idle}
      /\ \A o \in Requests \ {r} : request'[o] = request[o]
  BY <1>1, Ends
<1>3. Claimed(request[r]) = {c} /\ credit[c].by = None /\ credit'[c].by = None /\ credit'[c].amount = 0
  BY <1>1 DEF CarriedInv, Keeps, Claimed, NoCredit
<1>4. \A d \in CreditIds : Used(d)' <= Used(d) /\ Used(d) \in Nat
  BY <1>1, RemainingIs
<1>5. AbsorbedOK'
  BY <1>1, <1>3 DEF CarriedInv, AbsorbedOK, Filed
<1>6. ASSUME NEW y \in Years PROVE ShownRight(y)'
  <2>1. \A d \in CreditIds : /\ credit[d].by = y <=> credit'[d].by = y
                             /\ credit[d].by = y => credit'[d].amount = credit[d].amount /\ Used(d)' <= Used(d)
    BY <1>1, <1>3, <1>4, YearTypes
  <2> QED BY <1>1, <2>1, ShownKept DEF CarriedInv
<1>7. ASSUME NEW o \in Requests, NEW x \in Request, x = request[o], x.op = "markFiled", NEW d \in CreditIds PROVE Steady(d, x.year)
  <2>1. CASE d # c
    <3>1. Same(d)
      BY <1>1, <1>4, <2>1 DEF Same
    <3> QED BY <3>1, SameIs
  <2>2. CASE d = c
    <3>1. c \notin previousCredits(x.year)
      BY <1>3, <1>7, NotCarried
    <3> QED BY <1>1, <1>3, <2>2, <3>1 DEF Steady
  <2> QED BY <2>1, <2>2
<1>8. \A o \in Requests : Keeps(request[o])' /\ ReadRight(request[o])'
  <2>1. ASSUME NEW o \in Requests, NEW x \in Request, x = request[o], x.op = "update" PROVE Used(x.credit)' = 0
    <3>1. x.credit \in CreditIds /\ Used(x.credit) = 0
      BY <2>1, RequestTypes DEF CarriedInv, Keeps
    <3> QED BY <1>1, <3>1
  <2>2. \A o \in Requests : \A d \in Claimed(request[o]) : credit[d].by = None => credit'[d].by = None
    BY <1>1, <1>3, ClaimedIn
  <2> QED BY <1>1, <1>2, <1>7, <2>1, <2>2, RequestsKept
<1> QED
  BY <1>1, <1>5, <1>6, <1>8 DEF CarriedInv

\* A new plan uses no credit that is absorbed, or that a return is being filed from.
LEMMA CarriedPlan ==
  ASSUME CarriedInv, ~ EditedInUse, ~ CarriedBeside, NEW r \in Requests, PlanSave(r)
  PROVE  CarriedInv'
<1> DEFINE u == request[r].uses
<1>1. /\ RowsInv /\ RowsInv' /\ TypeOK /\ TypeOK' /\ UNCHANGED <<credit, filed>> /\ End(r) /\ request[r].op = "createPlan"
      /\ \A c \in CreditIds : Used(c)' = Used(c) \/ u[c] > 0
      /\ \A c \in CreditIds : Used(c) \in Nat
  BY SaveRows, RemainingIs DEF CarriedInv, RowsInv
<1>2. /\ request'[r] = Idle /\ \A o \in Requests : request'[o] \in {request[o], Idle}
      /\ \A o \in Requests \ {r} : request'[o] = request[o]
  BY <1>1, Ends
<1>3. Claimed(request[r]) = {c \in CreditIds : u[c] > 0} /\ \A c \in CreditIds : u[c] > 0 => credit[c].by = None
  BY <1>1 DEF CarriedInv, Keeps, Claimed
<1>4. AbsorbedOK'
  BY <1>1 DEF CarriedInv, AbsorbedOK, Filed
<1>5. ASSUME NEW y \in Years PROVE ShownRight(y)'
  <2>1. \A c \in CreditIds : /\ credit[c].by = y <=> credit'[c].by = y
                             /\ credit[c].by = y => credit'[c].amount = credit[c].amount /\ Used(c)' <= Used(c)
    BY <1>1, <1>3, YearTypes
  <2> QED BY <1>1, <2>1, ShownKept DEF CarriedInv
<1>6. ASSUME NEW o \in Requests, NEW x \in Request, x = request[o], x.op = "markFiled", NEW c \in CreditIds PROVE Steady(c, x.year)
  <2>1. CASE Used(c)' = Used(c)
    <3>1. Same(c)
      BY <1>1, <2>1 DEF Same
    <3> QED BY <3>1, SameIs
  <2>2. CASE u[c] > 0
    <3>1. c \notin previousCredits(x.year)
      BY <1>3, <1>6, <2>2, NotCarried
    <3>2. c \notin previousCredits(x.year)'
      BY <1>1, <3>1 DEF previousCredits, Exists
    <3> QED BY <3>1, <3>2 DEF Steady
  <2> QED BY <1>1, <2>1, <2>2
<1>7. \A o \in Requests : Keeps(request[o])' /\ ReadRight(request[o])'
  <2>1. ASSUME NEW o \in Requests, NEW x \in Request, x = request[o], x.op = "update" PROVE Used(x.credit)' = 0
    <3>1. x.credit \in CreditIds /\ Used(x.credit) = 0
      BY <2>1, RequestTypes DEF CarriedInv, Keeps
    <3>2. ~ u[x.credit] > 0
      BY <1>1, <2>1 DEF EditedInUse
    <3> QED BY <1>1, <3>1, <3>2
  <2> QED BY <1>1, <1>2, <1>6, <2>1, RequestsKept
<1> QED
  BY <1>1, <1>4, <1>5, <1>7 DEF CarriedInv

\* The deletion of a plan takes uses away, a payment leaves them.
LEMMA CarriedDelete ==
  ASSUME CarriedInv, NEW r \in Requests,
         (DeletePlanWrite(r) /\ End(r)) \/ (UNCHANGED request /\ \E y \in Years : updateStatus(r, y))
  PROVE  CarriedInv'
<1>1. /\ RowsInv /\ RowsInv' /\ TypeOK /\ TypeOK' /\ UNCHANGED <<credit, filed>>
      /\ \A c \in CreditIds : Used(c)' <= Used(c) /\ Used(c) \in Nat
  BY DeleteRows, StatusRows, RemainingIs DEF CarriedInv, RowsInv
<1>2. \A o \in Requests : request'[o] \in {request[o], Idle}
  BY <1>1, Ends
<1>3. AbsorbedOK'
  BY <1>1 DEF CarriedInv, AbsorbedOK, Filed
<1>4. ASSUME NEW y \in Years PROVE ShownRight(y)'
  BY <1>1, <1>4, ShownKept DEF CarriedInv
<1>5. ASSUME NEW o \in Requests, NEW x \in Request, x = request[o], x.op = "update" PROVE Used(x.credit)' = 0
  <2>1. x.credit \in CreditIds /\ Used(x.credit) = 0
    BY <1>5, RequestTypes DEF CarriedInv, Keeps
  <2>2. Used(x.credit)' \in Nat
    <3>1. plan' \in PlanRows
      BY <1>1 DEF TypeOK, PlanRows
    <3> QED BY <2>1, <3>1, UsedIs, UsedNat
  <2> QED BY <1>1, <2>1, <2>2
<1>6. \A c \in CreditIds : Same(c)
  BY <1>1 DEF Same
<1>7. \A o \in Requests : Keeps(request[o])' /\ ReadRight(request[o])'
  BY <1>1, <1>2, <1>5, <1>6, SameIs, RequestsKept
<1> QED
  BY <1>1, <1>3, <1>4, <1>7 DEF CarriedInv

\* A return that is filed absorbs exactly the credits its figures came from, also when the return was filed before.
LEMMA CarriedFile ==
  ASSUME CarriedInv, ~ CarriedBeside, NEW r \in Requests, FileWrite(r)
  PROVE  CarriedInv'
<1> PICK q \in Request : q = request[r]
  BY Typed DEF CarriedInv, RowsInv
<1>1. /\ RowsInv /\ RowsInv' /\ TypeOK /\ TypeOK' /\ q.op = "markFiled" /\ q.year \in Years /\ UNCHANGED plan /\ End(r)
      /\ filed'[q.year] \in Return /\ filed'[q.year].previous = q.previous /\ filed'[q.year].previousUsed = q.previousUsed
      /\ \A y \in Years \ {q.year} : filed'[y] = filed[y]
      /\ \A c \in CreditIds : Used(c)' = Used(c)
  BY FileRows DEF CarriedInv, RowsInv
<1>2. /\ request'[r] = Idle /\ \A o \in Requests : request'[o] \in {request[o], Idle}
      /\ \A o \in Requests \ {r} : request'[o] = request[o]
  BY <1>1, Ends
<1>3. ASSUME NEW c \in CreditIds
      PROVE  \/ /\ c \in previousCredits(q.year) /\ credit[c].by = None /\ credit'[c].by = q.year
                /\ credit'[c].code = credit[c].code /\ credit'[c].year = credit[c].year /\ credit'[c].amount = credit[c].amount
             \/ ~ Exists(c) /\ credit[c].by = None /\ credit'[c] \in Credit /\ credit'[c].by = None
             \/ (c \notin previousCredits(q.year) \/ credit[c].by # None) /\ credit'[c] = credit[c]
  <2>1. CASE c \in previousCredits(q.year) /\ credit[c].by = None /\ credit[c] \in Credit /\ credit'[c] = [credit[c] EXCEPT !.by = q.year]
    BY <2>1 DEF Credit
  <2>2. CASE ~ Exists(c) /\ credit'[c] \in Credit /\ credit'[c].by = None
    BY <1>1, <2>2, NotThere
  <2> QED BY <1>1, <2>1, <2>2, FileRows
<1>4. ASSUME NEW c \in CreditIds
      PROVE  Used(c)' <= Used(c) /\ Used(c) \in Nat /\ (~ Exists(c) => Used(c) = 0 /\ credit[c].amount = 0)
  BY <1>1, RemainingIs, NotThere
<1>5. Filed(q.year)'
  <2>1. filed'[q.year] # NoReturn
    BY <1>1, ReturnTypes, Zenon
  <2> QED BY <2>1 DEF Filed
\* Only the return of the year can have absorbed those credits.
<1>6. \A c \in CreditIds : /\ credit[c].by = q.year => c \in previousCredits(q.year)
                           /\ c \in previousCredits(q.year) => credit[c].by \in {None, q.year}
  <2> SUFFICES ASSUME NEW c \in CreditIds, credit[c].by # None
               PROVE  /\ credit[c].by = q.year => c \in previousCredits(q.year)
                      /\ c \in previousCredits(q.year) => credit[c].by = q.year
    BY <1>1, YearTypes
  <2>1. credit[c].code = "SUBSTITUTE" /\ credit[c].year = credit[c].by - 1
    BY DEF CarriedInv, AbsorbedOK
  <2>2. credit[c].by \in Nat /\ q.year \in Nat /\ Exists(c)
    BY <1>1, Typed, CreditTypes, YearTypes, ExistsIs
  <2> QED BY <2>1, <2>2 DEF previousCredits
<1>7. AbsorbedOK'
  <2> SUFFICES ASSUME NEW c \in CreditIds, credit'[c].by # None
               PROVE  filed'[credit'[c].by] # NoReturn /\ credit'[c].code = "SUBSTITUTE" /\ credit'[c].year = credit'[c].by - 1
    BY DEF AbsorbedOK, Filed
  <2>1. CASE credit'[c] = credit[c]
    <3>1. Filed(credit[c].by) /\ credit[c].code = "SUBSTITUTE" /\ credit[c].year = credit[c].by - 1
      BY <2>1 DEF CarriedInv, AbsorbedOK
    <3>2. credit[c].by \in Years
      BY <1>1, <2>1, Typed, CreditTypes
    <3> QED BY <1>1, <1>5, <2>1, <3>1, <3>2 DEF Filed
  <2>2. CASE c \in previousCredits(q.year) /\ credit'[c].by = q.year /\ credit'[c].code = credit[c].code /\ credit'[c].year = credit[c].year
    BY <1>5, <2>2 DEF previousCredits, Filed
  <2> QED BY <1>3, <2>1, <2>2
<1>8. ASSUME NEW y \in Years, y # q.year PROVE ShownRight(y)'
  <2>1. \A c \in CreditIds : /\ credit[c].by = y <=> credit'[c].by = y
                             /\ credit[c].by = y => credit'[c].amount = credit[c].amount /\ Used(c)' <= Used(c)
    BY <1>3, <1>4, <1>8, YearTypes
  <2> QED BY <1>1, <1>8, <2>1, ShownKept DEF CarriedInv
<1>9. ASSUME NEW y \in Years, y = q.year PROVE ShownRight(y)'
  <2> DEFINE S == previousCredits(q.year)
  <2>1. S \in SUBSET CreditIds
    BY DEF previousCredits
  <2>2. Absorbed(credit', y) = S
    BY <1>1, <1>3, <1>6, <1>9, <2>1, YearTypes DEF Absorbed, previousCredits
  <2>3. q.previous - q.previousUsed <= Over(credit, plan, S)
    BY <1>1 DEF CarriedInv, ReadRight
  <2>4. \A c \in S : credit'[c].amount = credit[c].amount /\ UsedIn(plan, c) <= UsedIn(plan, c)
    <3>1. plan \in PlanRows /\ \A c \in S : Exists(c)
      BY <1>1, Typed DEF previousCredits
    <3> QED BY <1>3, <2>1, <3>1, UsedNat
  <2> HIDE DEF S
  <2>5. credit \in [CreditIds -> Credit \cup {NoCredit}] /\ credit' \in [CreditIds -> Credit \cup {NoCredit}] /\ plan \in PlanRows
    BY <1>1 DEF TypeOK, PlanRows
  <2>6. Over(credit, plan, S) <= Over(credit', plan, S)
    BY <2>1, <2>4, <2>5, OverKept
  <2>7. Over(credit, plan, S) \in Int /\ Over(credit', plan, S) \in Int /\ q.previous \in Nat /\ q.previousUsed \in Nat
    BY <1>1, <2>1, <2>5, LeftInt, RequestTypes
  <2>8. q.previous - q.previousUsed <= Over(credit', plan, S)
    BY <2>3, <2>6, <2>7
  <2> QED BY <1>1, <1>9, <2>2, <2>8 DEF ShownRight
<1>10. ASSUME NEW o \in Requests, NEW x \in Request, x = request[o], x.op = "markFiled", NEW c \in CreditIds PROVE Steady(c, x.year)
  <2>1. CASE credit'[c] = credit[c]
    <3>1. Same(c)
      BY <1>4, <2>1 DEF Same
    <3> QED BY <3>1, SameIs
  <2>2. CASE ~ Exists(c) /\ credit'[c] \in Credit
    <3>1. c \notin previousCredits(x.year) /\ Used(c)' = 0 /\ credit'[c].amount \in Nat
      BY <1>1, <1>4, <2>2, CreditTypes DEF previousCredits
    <3> QED BY <3>1 DEF Steady
  <2>3. CASE credit'[c].code = credit[c].code /\ credit'[c].year = credit[c].year /\ credit'[c].amount = credit[c].amount
    BY <1>4, <2>3 DEF Steady, previousCredits, Exists
  <2> QED BY <1>3, <2>1, <2>2, <2>3
<1>11. \A o \in Requests : Keeps(request[o])' /\ ReadRight(request[o])'
  <2>1. ASSUME NEW o \in Requests, NEW x \in Request, x = request[o], x.op = "update" PROVE Used(x.credit)' = 0
    <3>1. x.credit \in CreditIds /\ Used(x.credit) = 0
      BY <2>1, RequestTypes DEF CarriedInv, Keeps
    <3> QED BY <1>1, <3>1
  <2>2. ASSUME NEW o \in Requests, NEW c \in Claimed(request[o]), credit[c].by = None PROVE credit'[c].by = None
    <3>1. c \in CreditIds /\ c \notin previousCredits(q.year)
      BY <1>1, <2>2, ClaimedIn, NotCarried
    <3> QED BY <1>3, <2>2, <3>1
  <2> QED BY <1>1, <1>2, <1>10, <2>1, <2>2, RequestsKept
<1> QED
  BY <1>1, <1>7, <1>8, <1>9, <1>11 DEF CarriedInv

\* A return is taken back whose credits no other has absorbed, and none is being filed from.
LEMMA CarriedUnmark ==
  ASSUME CarriedInv, ~ CarriedBeside, ~ WithdrawnCarried, NEW r \in Requests, UnmarkWrite(r)
  PROVE  CarriedInv'
<1> PICK y \in Years : y = request[r].year
  BY Typed, RequestTypes DEF CarriedInv, RowsInv, UnmarkWrite
<1>1. RowsInv /\ RowsInv' /\ TypeOK /\ TypeOK' /\ End(r) /\ request[r].op = "unmark"
  BY UnmarkRows DEF CarriedInv, RowsInv
<1>2. /\ request'[r] = Idle /\ \A o \in Requests : request'[o] \in {request[o], Idle}
      /\ \A o \in Requests \ {r} : request'[o] = request[o]
  BY <1>1, Ends
<1>3. CASE UNCHANGED <<credit, plan, filed>>
  <2>1. \A x \in Years : ShownRight(x)'
    BY <1>3 DEF CarriedInv, ShownRight, Filed, AbsorbedOK
  <2>2. AbsorbedOK'
    BY <1>3 DEF CarriedInv, Filed, AbsorbedOK
  <2>3. \A c \in CreditIds : Same(c) /\ Used(c)' = Used(c)
    BY <1>1, <1>3, UsedIs, RemainingIs DEF Same
  <2>4. ASSUME NEW o \in Requests, NEW x \in Request, x = request[o], x.op = "update" PROVE Used(x.credit)' = 0
    <3>1. x.credit \in CreditIds /\ Used(x.credit) = 0
      BY <2>4, RequestTypes DEF CarriedInv, Keeps
    <3> QED BY <2>3, <3>1
  <2>5. \A o \in Requests : Keeps(request[o])' /\ ReadRight(request[o])'
    BY <1>1, <1>2, <1>3, <2>3, <2>4, SameIs, RequestsKept
  <2> QED BY <1>1, <2>1, <2>2, <2>5 DEF CarriedInv
<1>4. ASSUME filed[y].id = request[r].id, ~ Filed(y)', \A x \in Years \ {y} : filed'[x] = filed[x],
             \A c \in CreditIds : Used(c)' = (IF c \in Registered(y) THEN 0 ELSE Used(c)),
             \A c \in CreditIds :
               \/ c \in Registered(y) /\ credit'[c] = NoCredit
               \/ c \notin Registered(y) /\ credit[c].by = y /\ credit[c] \in Credit /\ credit'[c] = [credit[c] EXCEPT !.by = None]
               \/ c \notin Registered(y) /\ credit[c].by # y /\ credit'[c] = credit[c]
      PROVE  CarriedInv'
  <2>1. \A c \in CreditIds : Used(c)' <= Used(c) /\ Used(c) \in Nat
    BY <1>1, <1>4, RemainingIs
  <2>2. Claimed(request[r]) = Registered(y) /\ \A c \in Registered(y) : credit[c].by = None
    BY <1>1, <1>4 DEF Claimed, WithdrawnCarried
  <2>3. ASSUME NEW c \in CreditIds
        PROVE  \/ c \in Registered(y) /\ credit[c].by = None /\ credit'[c].by = None /\ credit'[c].amount = 0
               \/ /\ c \notin Registered(y) /\ credit[c].by = y /\ credit'[c].by = None
                  /\ credit'[c].code = credit[c].code /\ credit'[c].year = credit[c].year /\ credit'[c].amount = credit[c].amount
               \/ c \notin Registered(y) /\ credit[c].by # y /\ credit'[c] = credit[c]
    <3>1. CASE c \in Registered(y) /\ credit'[c] = NoCredit
      BY <2>2, <3>1 DEF NoCredit
    <3>2. CASE c \notin Registered(y) /\ credit[c].by = y /\ credit[c] \in Credit /\ credit'[c] = [credit[c] EXCEPT !.by = None]
      BY <3>2 DEF Credit
    <3> QED BY <1>4, <3>1, <3>2
  <2>4. AbsorbedOK'
    <3> SUFFICES ASSUME NEW c \in CreditIds, credit'[c].by # None
                 PROVE  filed'[credit'[c].by] # NoReturn /\ credit'[c].code = "SUBSTITUTE" /\ credit'[c].year = credit'[c].by - 1
      BY DEF AbsorbedOK, Filed
    <3>1. credit'[c] = credit[c] /\ credit[c].by # y
      BY <2>3
    <3>2. Filed(credit[c].by) /\ credit[c].code = "SUBSTITUTE" /\ credit[c].year = credit[c].by - 1
      BY <3>1 DEF CarriedInv, AbsorbedOK
    <3>3. credit[c].by \in Years
      BY <1>1, <3>1, Typed, CreditTypes
    <3> QED BY <1>4, <3>1, <3>2, <3>3 DEF Filed
  <2>5. ASSUME NEW x \in Years PROVE ShownRight(x)'
    <3>1. CASE x = y
      BY <1>4, <3>1 DEF ShownRight, Filed
    <3>2. CASE x # y
      <4>1. \A c \in CreditIds : /\ credit[c].by = x <=> credit'[c].by = x
                                 /\ credit[c].by = x => credit'[c].amount = credit[c].amount /\ Used(c)' <= Used(c)
        BY <2>1, <2>3, <3>2, YearTypes
      <4> QED BY <1>1, <1>4, <3>2, <4>1, ShownKept DEF CarriedInv
    <3> QED BY <3>1, <3>2
  <2>6. ASSUME NEW o \in Requests, NEW x \in Request, x = request[o], x.op = "markFiled", NEW c \in CreditIds PROVE Steady(c, x.year)
    <3>1. CASE c \in Registered(y) /\ credit'[c].amount = 0
      <4>1. c \notin previousCredits(x.year)
        BY <2>2, <2>6, <3>1, NotCarried
      <4> QED BY <3>1, <4>1 DEF Steady, previousCredits, Exists
    <3>2. CASE credit'[c].code = credit[c].code /\ credit'[c].year = credit[c].year /\ credit'[c].amount = credit[c].amount
      BY <2>1, <3>2 DEF Steady, previousCredits, Exists
    <3>3. CASE credit'[c] = credit[c]
      <4>1. Same(c)
        BY <2>1, <3>3 DEF Same
      <4> QED BY <4>1, SameIs
    <3> QED BY <2>3, <3>1, <3>2, <3>3
  <2>7. \A o \in Requests : Keeps(request[o])' /\ ReadRight(request[o])'
    <3>1. ASSUME NEW o \in Requests, NEW x \in Request, x = request[o], x.op = "update" PROVE Used(x.credit)' = 0
      <4>1. x.credit \in CreditIds /\ Used(x.credit) = 0
        BY <3>1, RequestTypes DEF CarriedInv, Keeps
      <4> QED BY <1>4, <4>1
    <3>2. \A o \in Requests : \A c \in Claimed(request[o]) : credit[c].by = None => credit'[c].by = None
      BY <1>1, <2>3, ClaimedIn
    <3> QED BY <1>1, <1>2, <2>6, <3>1, <3>2, RequestsKept
  <2> QED BY <1>1, <2>4, <2>5, <2>7 DEF CarriedInv
<1> QED
  BY <1>1, <1>3, <1>4, UnmarkRows

LEMMA CarriedStep ==
  ASSUME CarriedInv, ~ EditedInUse, ~ CarriedBeside, ~ WithdrawnCarried, [Next]_vars
  PROVE  CarriedInv'
<1>1. CASE UNCHANGED vars
  <2>1. UNCHANGED <<credit, plan, filed, request>>
    BY <1>1 DEF vars
  <2>2. RowsInv' /\ AbsorbedOK' /\ \A y \in Years : ShownRight(y)'
    BY <1>1, <2>1, RowsStep DEF CarriedInv, AbsorbedOK, ShownRight, Filed
  <2>3. \A r \in Requests : Keeps(request[r])' /\ ReadRight(request[r])'
    BY <2>1, UsedIs DEF CarriedInv, Keeps, Claimed, Registered, ReadRight, previousCredits, Exists
  <2> QED BY <2>2, <2>3 DEF CarriedInv
<1>2. ASSUME NEW r \in Requests,
             create(r) \/ UpdateWrite(r) \/ RemoveWrite(r) \/ PlanSave(r) \/ DeletePlanWrite(r) \/ FileWrite(r) \/ UnmarkWrite(r)
      PROVE  CarriedInv'
  <2>1. DeletePlanWrite(r) => End(r)
    BY DEF DeletePlanWrite
  <2> QED BY <1>2, <2>1, CarriedCreate, CarriedUpdate, CarriedRemove, CarriedPlan, CarriedDelete, CarriedFile, CarriedUnmark
<1>3. ASSUME NEW r \in Requests, NEW y \in Years, updateStatus(r, y) PROVE CarriedInv'
  <2>1. UNCHANGED request
    BY <1>3 DEF updateStatus
  <2> QED BY <1>3, <2>1, CarriedDelete
<1> QED
  BY <1>1, <1>2, <1>3, CarriedBegins, StepIs DEF CarriedInv, RowsInv

LEMMA CarriedStart == Init => CarriedInv
<1> SUFFICES ASSUME Init PROVE CarriedInv
  OBVIOUS
<1>1. /\ \A y \in Years : ~ Filed(y)
      /\ \A r \in Requests : request[r].op = "idle"
      /\ \A c \in CreditIds : credit[c].by = None
  BY DEF Init, Filed, Idle, NoCredit
<1> QED
  BY <1>1, RowsStart DEF CarriedInv, ShownRight, ReadRight, Keeps, Claimed, AbsorbedOK

\* What a return has carried from the year before is in the registry and no form has used it since
\* (tax-credits.service.ts, return-filing.service.ts), whatever overlaps, unless one of three things happens, which the code
\* does not exclude: a credit is edited that a plan is about to use, a return is filed from credits that another request is
\* about to edit, use or take out, or a return is taken back whose credits the next one has absorbed.
THEOREM CreditsCarriedOnce == Spec => []CarriedOnce \/ <>EditedInUse \/ <>CarriedBeside \/ <>WithdrawnCarried
<1>1. CarriedInv /\ ~ EditedInUse /\ ~ CarriedBeside /\ ~ WithdrawnCarried /\ [Next]_vars => CarriedInv'
  BY CarriedStep
<1> QED
  BY <1>1, CarriedStart, CarriedOnceIs, PTL DEF Spec
================================================================================
