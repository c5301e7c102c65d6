----------------------------- MODULE UploadsProofs -----------------------------
(***************************************************************************)
(* The preview of an upload keeps its word, for every upload: any number   *)
(* of files and entries, any documents, any database (PreviewKept).        *)
(*                                                                         *)
(* The model reads an upload by folds (FoldLeft).  Each fold is shown to   *)
(* be a run that takes one element after the other (Climbs, ...OneByOne);  *)
(* then an invariant of the run is proved step by step.                    *)
(***************************************************************************)
EXTENDS Uploads, Numbers, SequenceTheorems

\* One step after the other, over the members of a set of numbers from the smallest on: there is a function that takes them.
Takes(it, b, T, A, n) ==
  /\ it = [s \in SUBSET (1..n) |-> it[s]] /\ it[{}] = b
  /\ \A s \in SUBSET (1..n) : s # {} => /\ Max(s) \in 1..n /\ it[s \ {Max(s)}] \in A
                                        /\ it[s] = T[<<it[s \ {Max(s)}], Max(s)>>]

\* Taking the steps of any function from the smallest number on is well defined, set of numbers by set of numbers.
LEMMA StepsExist ==
  ASSUME NEW n \in Nat, NEW A, NEW b \in A, NEW T \in [A \X (1..n) -> A]
  PROVE  \E it : Takes(it, b, T, A, n)
<1> DEFINE S == 1..n
           Next(g)    == [s \in SUBSET S |-> IF s = {} THEN b ELSE T[<<g[s \ {Max(s)}], Max(s)>>]]
           Good(g, k) == \A s \in SUBSET S : Cardinality(s) <= k => g[s] = Next(g)[s]
           N          == {k \in Nat : \E h \in [SUBSET S -> A] : Good(h, k)}
<1>0. IsFiniteSet(S)
  BY FS_Interval
<1>1. \A s \in SUBSET S : IsFiniteSet(s) /\ Cardinality(s) \in Nat
  BY <1>0, FS_Subset, FS_CardinalityType
<1>2. \A s \in SUBSET S : s # {} => Max(s) \in s /\ s \ {Max(s)} \in SUBSET S
  <2>1. S \subseteq 0..n
    OBVIOUS
  <2> QED BY <2>1, MaxOf
<1>3. \A g \in [SUBSET S -> A] : Next(g) \in [SUBSET S -> A]
  <2>1. SUFFICES ASSUME NEW g \in [SUBSET S -> A], NEW s \in SUBSET S, s # {} PROVE T[<<g[s \ {Max(s)}], Max(s)>>] \in A
    OBVIOUS
  <2>2. Max(s) \in S /\ s \ {Max(s)} \in SUBSET S
    BY <1>2, <2>1
  <2> QED BY <2>2
<1>4. 0 \in N
  <2> DEFINE zero == [s \in SUBSET S |-> b]
  <2>1. \A s \in SUBSET S : Cardinality(s) <= 0 => s = {}
    BY <1>1, FS_EmptySet
  <2>2. Good(zero, 0) /\ zero \in [SUBSET S -> A]
    BY <2>1
  <2> QED BY <2>2
<1>5. ASSUME NEW k \in Nat, k \in N PROVE k + 1 \in N
  <2>1. PICK g \in [SUBSET S -> A] : Good(g, k)
    BY <1>5
  <2> DEFINE h == Next(g)
  <2>2. Good(h, k + 1)
    <3>1. SUFFICES ASSUME NEW s \in SUBSET S, Cardinality(s) <= k + 1, s # {} PROVE h[s] = Next(h)[s]
      OBVIOUS
    <3>2. Cardinality(s \ {Max(s)}) <= k
      BY <1>1, <1>2, <3>1, FS_RemoveElement
    <3>3. g[s \ {Max(s)}] = h[s \ {Max(s)}]
      BY <1>2, <2>1, <3>1, <3>2
    <3> QED BY <3>1, <3>3
  <2>3. h \in [SUBSET S -> A]
    BY <1>3
  <2> QED
    <3> HIDE DEF h, Good
    <3> QED BY <2>2, <2>3
<1>6. Cardinality(S) \in N
  <2>1. \A k \in Nat : k \in N
    <3> HIDE DEF N
    <3> QED BY <1>4, <1>5, NumbersFrom0
  <2> QED BY <1>1, <2>1
<1>7. PICK g \in [SUBSET S -> A] : Good(g, Cardinality(S))
  BY <1>6
<1>8. \A s \in SUBSET S : g[s] = Next(g)[s]
  BY <1>0, <1>1, <1>7, FS_Subset
<1>9. g = [s \in SUBSET S |-> g[s]] /\ g[{}] = b
  BY <1>8
<1>10. ASSUME NEW s \in SUBSET S, s # {}
       PROVE  Max(s) \in S /\ g[s \ {Max(s)}] \in A /\ g[s] = T[<<g[s \ {Max(s)}], Max(s)>>]
  <2>1. Max(s) \in S /\ s \ {Max(s)} \in SUBSET S
    BY <1>2, <1>10
  <2> QED BY <1>8, <1>10, <2>1
<1> QED
  <2> HIDE DEF S
  <2> QED BY <1>9, <1>10 DEF S, Takes

\* The largest of the numbers up to k + 1 is k + 1; without it they are the numbers up to k.
LEMMA UpTo ==
  ASSUME NEW n \in Nat, NEW k \in 0..(n - 1)
  PROVE  1..(k + 1) \in SUBSET (1..n) /\ 1..(k + 1) # {} /\ Max(1..(k + 1)) = k + 1 /\ (1..(k + 1)) \ {Max(1..(k + 1))} = 1..k
<1>1. Max(1..(k + 1)) \in 1..(k + 1) /\ \A x \in 1..(k + 1) : x <= Max(1..(k + 1))
  <2>1. 1..(k + 1) \subseteq 0..(k + 1) /\ 1..(k + 1) # {} /\ k + 1 \in Nat
    OBVIOUS
  <2> HIDE DEF Max
  <2> QED BY <2>1, MaxOf
<1>2. Max(1..(k + 1)) = k + 1
  BY <1>1
<1> QED
  BY <1>2

\* Step after step up to n.
LEMMA UpwardsTo ==
  ASSUME NEW n \in Nat, NEW T, 0 \in T, \A k \in 0..(n - 1) : k \in T => k + 1 \in T
  PROVE  \A k \in 0..n : k \in T
<1> DEFINE U == {k \in Nat : k <= n => k \in T}
<1>1. 0 \in U
  OBVIOUS
<1>2. ASSUME NEW k \in Nat, k \in U PROVE k + 1 \in U
  BY <1>2
<1>3. \A k \in Nat : k \in U
  <2> HIDE DEF U
  <2> QED BY <1>1, <1>2, NumbersFrom0
<1> QED
  BY <1>3

\* The largest member of a set of numbers up to n is one of them.
LEMMA LargestOfSome ==
  ASSUME NEW n \in Nat, NEW t \in SUBSET (1..n), t # {}
  PROVE  Max(t) \in 1..n
<1>1. t \subseteq 0..n
  OBVIOUS
<1> HIDE DEF Max
<1> QED BY <1>1, MaxOf

\* What follows such steps where they lead to what is in the set.
Follows(c, b, T, A, n) ==
  /\ c[{}] = b
  /\ \A s \in SUBSET (1..n) : s # {} /\ c[s \ {Max(s)}] \in A => c[s] = T[<<c[s \ {Max(s)}], Max(s)>>]

Climbs(h, c, b, T, A, n) ==
  h \in [0..n -> A] /\ h[0] = b /\ h[n] = c[1..n] /\ \A k \in 0..(n - 1) : h[k + 1] = T[<<h[k], k + 1>>]

\* The steps over the first members, one after the other.
LEMMA Upwards ==
  ASSUME NEW n \in Nat, NEW A, NEW b \in A, NEW T \in [A \X (1..n) -> A], NEW c, Follows(c, b, T, A, n)
  PROVE  \E h : Climbs(h, c, b, T, A, n)
<1> DEFINE K == {k \in 0..n : c[1..k] \in A}
<1>1. ASSUME NEW k \in 0..(n - 1), c[1..k] \in A PROVE c[1..(k + 1)] = T[<<c[1..k], k + 1>>]
  <2>1. 1..(k + 1) \in SUBSET (1..n) /\ 1..(k + 1) # {} /\ Max(1..(k + 1)) = k + 1 /\ (1..(k + 1)) \ {Max(1..(k + 1))} = 1..k
    BY UpTo
  <2> QED BY <1>1, <2>1 DEF Follows
<1>2. c[1..0] = b
  <2>1. 1..0 = {}
    OBVIOUS
  <2> QED BY <2>1 DEF Follows
<1>3. 0 \in K
  BY <1>2
<1>4. ASSUME NEW k \in 0..(n - 1), k \in K PROVE k + 1 \in K
  <2>1. c[1..k] \in A /\ k + 1 \in 1..n /\ k + 1 \in 0..n
    BY <1>4
  <2>2. T[<<c[1..k], k + 1>>] \in A
    BY <2>1
  <2> QED BY <1>1, <2>1, <2>2
<1>5. \A k \in 0..n : c[1..k] \in A
  <2> HIDE DEF K
  <2>1. \A k \in 0..n : k \in K
    BY <1>3, <1>4, UpwardsTo
  <2> QED BY <2>1 DEF K
<1> DEFINE h == [k \in 0..n |-> c[1..k]]
<1>6. Climbs(h, c, b, T, A, n)
  BY <1>1, <1>2, <1>5 DEF Climbs
<1> QED
  BY <1>6

-----------------------------------------------------------------------------
(* What is extracted *)

SizeOf(s) == SumFunctionOnSet([k \in DOMAIN s |-> s[k].size], DOMAIN s)

\* One entry more adds its size (take).
LEMMA SizeOfAppend ==
  ASSUME NEW E, \A e \in E : e.size \in Nat, NEW s \in Seq(E), NEW e \in E
  PROVE  SizeOf(s) \in Nat /\ SizeOf(Append(s, e)) = SizeOf(s) + e.size
<1> PICK n \in Nat : n = Len(s)
  BY LenProperties
<1>1. DOMAIN s = 1..n /\ \A k \in 1..n : s[k] \in E
  BY ElementOfSeq, LenProperties
<1>2. DOMAIN Append(s, e) = 1..(n + 1) /\ Append(s, e)[n + 1] = e /\ \A k \in 1..n : Append(s, e)[k] = s[k]
  BY AppendProperties, <1>1
<1> DEFINE f == [k \in 1..n |-> s[k].size]
           g == [k \in 1..(n + 1) |-> Append(s, e)[k].size]
<1>3. (\A k \in 1..n : f[k] \in Nat /\ g[k] = f[k]) /\ g[n + 1] = e.size /\ e.size \in Nat
  BY <1>1, <1>2
<1>4. SizeOf(s) = SumFunctionOnSet(f, 1..n) /\ SizeOf(Append(s, e)) = SumFunctionOnSet(g, 1..(n + 1))
  BY <1>1, <1>2 DEF SizeOf
<1> HIDE DEF f, g
<1>5. IsFiniteSet(1..n)
  BY FS_Interval
<1>6. SumFunctionOnSet(f, 1..n) \in Nat /\ SumFunctionOnSet(f, 1..n) = SumFunctionOnSet(g, 1..n)
  BY <1>3, <1>5, SumIn, SumSame
<1>7. \A k \in 1..(n + 1) : g[k] \in Int
  <2> SUFFICES ASSUME NEW k \in 1..(n + 1) PROVE g[k] \in Int
    OBVIOUS
  <2>1. k \in 1..n \/ k = n + 1
    OBVIOUS
  <2> QED BY <1>3, <2>1
<1>8. SumFunctionOnSet(g, 1..(n + 1)) = SumFunctionOnSet(g, 1..n) + g[n + 1]
  BY <1>7, SumNext
<1> QED
  BY <1>3, <1>4, <1>6, <1>8

Budgets        == [entries : Nat, bytes : Nat, exceeded : BOOLEAN]
Extracts(E, N) == [entries : Seq(E), ignored : SUBSET N, names : SUBSET N, budget : Budgets]
Sized(E, N)    == \A e \in E : e.size \in Nat /\ e.name \in N

\* What is extracted is within the limits, and what is counted is not less.
Counted(acc) ==
  /\ Len(acc.entries) <= MAX_ARCHIVE_ENTRIES /\ SizeOf(acc.entries) <= MAX_ARCHIVE_EXTRACTED_BYTES
  /\ ~ acc.budget.exceeded =>
       /\ Len(acc.entries) <= acc.budget.entries /\ acc.budget.entries <= MAX_ARCHIVE_ENTRIES
       /\ SizeOf(acc.entries) <= acc.budget.bytes /\ acc.budget.bytes <= MAX_ARCHIVE_EXTRACTED_BYTES

\* No two entries have the same name.
NamesApart(s) == \A i, j \in DOMAIN s : s[i].name = s[j].name => i = j

ItemsOf(s) == {s[i] : i \in DOMAIN s}
NamesOf(s) == {e.name : e \in ItemsOf(s)}

\* What one file adds to the budget of an upload, and what it leaves (take).
LEMMA TakeTypes ==
  ASSUME NEW b \in Budgets, NEW size \in Nat
  PROVE  /\ take(b, size) \in Budgets
         /\ b.entries <= take(b, size).entries /\ b.bytes <= take(b, size).bytes
         /\ b.exceeded => take(b, size).exceeded
         /\ ~ take(b, size).exceeded =>
              /\ take(b, size).entries = b.entries + 1 /\ take(b, size).bytes = b.bytes + size
              /\ take(b, size).entries <= MAX_ARCHIVE_ENTRIES /\ take(b, size).bytes <= MAX_ARCHIVE_EXTRACTED_BYTES
<1> PICK m \in Nat, x \in Nat : m = MAX_ARCHIVE_ENTRIES /\ x = MAX_ARCHIVE_EXTRACTED_BYTES
  BY UploadsAssumption
<1>1. b = [entries |-> b.entries, bytes |-> b.bytes, exceeded |-> b.exceeded] /\ b.entries \in Nat /\ b.bytes \in Nat /\ b.exceeded \in BOOLEAN
  BY DEF Budgets
<1> DEFINE n == b.entries + 1
           y == IF n > m THEN b.bytes ELSE b.bytes + size
           over == b.exceeded \/ n > m \/ y > x
<1>2. take(b, size) = [entries |-> n, bytes |-> y, exceeded |-> over]
  BY DEF take
<1>3. n \in Nat /\ y \in Nat /\ b.bytes <= y /\ b.entries <= n
  BY <1>1
<1>4. over \in BOOLEAN
  BY <1>1, <1>3
<1>5. ~ over => n <= m /\ y <= x /\ y = b.bytes + size
  BY <1>1, <1>3
<1>6. b.exceeded => over
  OBVIOUS
<1> QED
  <2> HIDE DEF n, y, over
  <2>1. n = b.entries + 1
    BY DEF n
  <2> QED BY <1>2, <1>3, <1>4, <1>5, <1>6, <2>1 DEF Budgets

\* Reading an entry of an archive keeps the types.
LEMMA ReadTypes ==
  ASSUME NEW E, NEW N, Sized(E, N), NEW acc \in Extracts(E, N), NEW e \in E
  PROVE  ReadEntry(acc, e) \in Extracts(E, N)
<1>1. e.size \in Nat /\ e.name \in N /\ acc.budget \in Budgets
  BY DEF Sized, Extracts
<1>2. take(acc.budget, e.size) \in Budgets
  BY <1>1, TakeTypes
<1>3. Append(acc.entries, e) \in Seq(E)
  BY AppendProperties DEF Extracts
<1> QED
  BY <1>1, <1>2, <1>3 DEF ReadEntry, Extracts

ReadOneByOne(h, acc, s, A) ==
  /\ h \in [0..Len(s) -> A] /\ h[0] = acc /\ h[Len(s)] = FoldLeft(ReadEntry, acc, s)
  /\ \A k \in 0..(Len(s) - 1) : h[k + 1] = ReadEntry(h[k], s[k + 1])

\* An archive is read entry by entry (readZip).
LEMMA EntrySteps ==
  ASSUME NEW E, NEW N, Sized(E, N), NEW acc \in Extracts(E, N), NEW s \in Seq(E)
  PROVE  \E h : ReadOneByOne(h, acc, s, Extracts(E, N))
<1> PICK n \in Nat : n = Len(s)
  BY LenProperties
<1>1. DOMAIN s = 1..n /\ \A k \in 1..n : s[k] \in E
  BY ElementOfSeq, LenProperties
<1> DEFINE A == Extracts(E, N)
           T == [p \in A \X (1..n) |-> ReadEntry(p[1], s[p[2]])]
<1>2. T \in [A \X (1..n) -> A] /\ \A a \in A, k \in 1..n : T[<<a, k>>] = ReadEntry(a, s[k])
  <2> HIDE DEF A
  <2>1. \A a \in A, k \in 1..n : ReadEntry(a, s[k]) \in A
    BY <1>1, ReadTypes DEF A
  <2> QED BY <2>1
<1>3. acc \in A
  BY DEF A
<1> HIDE DEF T, A
<1>4. PICK c : /\ FoldLeft(ReadEntry, acc, s) = c[1..n]
               /\ c = [t \in SUBSET (1..n) |-> IF t = {} THEN acc ELSE ReadEntry(c[t \ {Max(t)}], s[Max(t)])]
  <2> DEFINE Is(it) == it = [t \in SUBSET DOMAIN s |-> IF t = {} THEN acc ELSE ReadEntry(it[t \ {Max(t)}], s[Max(t)])]
             it0    == CHOOSE it : Is(it)
  <2>1. \E it : Is(it)
    <3>1. PICK it : Takes(it, acc, T, A, n)
      BY <1>2, <1>3, StepsExist
    <3>2. ASSUME NEW t \in SUBSET (1..n), t # {} PROVE it[t] = ReadEntry(it[t \ {Max(t)}], s[Max(t)])
      BY <1>2, <3>1, <3>2 DEF Takes
    <3> DEFINE g == [t \in SUBSET (1..n) |-> IF t = {} THEN acc ELSE ReadEntry(it[t \ {Max(t)}], s[Max(t)])]
    <3>3. it = [t \in SUBSET (1..n) |-> it[t]] /\ it[{}] = acc
      BY <3>1 DEF Takes
    <3>4. (\A t \in SUBSET (1..n) : it[t] = g[t]) /\ g = [t \in SUBSET (1..n) |-> g[t]]
      BY <3>2, <3>3
    <3>5. it = g
      <4> HIDE DEF g
      <4> QED BY <3>3, <3>4
    <3>6. DOMAIN s = 1..n
      BY <1>1
    <3> QED BY <3>5, <3>6
  <2>2. FoldLeft(ReadEntry, acc, s) = it0[1..n]
    BY <1>1 DEF FoldLeft, MapThenFoldSet
  <2>3. Is(it0)
    <3> HIDE DEF Is
    <3> QED BY <2>1
  <2> HIDE DEF it0
  <2> QED BY <1>1, <2>2, <2>3
<1>5. c[{}] = acc /\ \A t \in SUBSET (1..n) : t # {} => c[t] = ReadEntry(c[t \ {Max(t)}], s[Max(t)])
  BY <1>1, <1>4
<1>6. \A t \in SUBSET (1..n) : t # {} => Max(t) \in 1..n
  BY LargestOfSome
<1>7. PICK h : Climbs(h, c, acc, T, A, n)
  <2>1. Follows(c, acc, T, A, n)
    BY <1>2, <1>5, <1>6 DEF Follows
  <2> QED BY <1>2, <1>3, <2>1, Upwards
<1>8. ASSUME NEW k \in 0..(n - 1) PROVE h[k + 1] = ReadEntry(h[k], s[k + 1])
  <2>1. k + 1 \in 1..n /\ h[k] \in A
    BY <1>7 DEF Climbs
  <2> QED BY <1>2, <1>7, <2>1 DEF Climbs
<1> QED
  BY <1>4, <1>7, <1>8 DEF A, Climbs, ReadOneByOne

\* Appending keeps what was there.
LEMMA Appended ==
  ASSUME NEW E, NEW s \in Seq(E), NEW e \in E
  PROVE  /\ Append(s, e) \in Seq(E) /\ Len(Append(s, e)) = Len(s) + 1 /\ Len(s) \in Nat
         /\ ItemsOf(Append(s, e)) = ItemsOf(s) \cup {e} /\ NamesOf(Append(s, e)) = NamesOf(s) \cup {e.name}
         /\ NamesApart(s) /\ e.name \notin NamesOf(s) => NamesApart(Append(s, e))
<1> PICK n \in Nat : n = Len(s)
  BY LenProperties
<1>1. DOMAIN s = 1..n
  BY LenProperties
<1>2. Append(s, e) \in Seq(E) /\ Len(Append(s, e)) = n + 1 /\ DOMAIN Append(s, e) = 1..(n + 1)
      /\ Append(s, e)[n + 1] = e /\ \A k \in 1..n : Append(s, e)[k] = s[k]
  BY AppendProperties, LenProperties, <1>1
<1>3. 1..(n + 1) = (1..n) \cup {n + 1} /\ n + 1 \notin 1..n
  OBVIOUS
<1>4. ItemsOf(Append(s, e)) = ItemsOf(s) \cup {e}
  BY <1>1, <1>2, <1>3 DEF ItemsOf
<1>5. NamesOf(Append(s, e)) = NamesOf(s) \cup {e.name}
  BY <1>4 DEF NamesOf
<1>6. ASSUME NamesApart(s), e.name \notin NamesOf(s) PROVE NamesApart(Append(s, e))
  <2>1. \A k \in 1..n : s[k].name # e.name
    BY <1>1, <1>6 DEF NamesOf, ItemsOf
  <2> QED BY <1>1, <1>2, <1>3, <1>6, <2>1 DEF NamesApart
<1> QED
  BY <1>2, <1>4, <1>5, <1>6

\* What reading entries of an archive keeps: the entries are those before and some of these, each at most once; and one that is
\* looked at before a limit is exceeded is read or ignored.
ReadOn(acc, s, k, now) ==
  /\ now.names = acc.names /\ acc.ignored \subseteq now.ignored
  /\ ItemsOf(acc.entries) \subseteq ItemsOf(now.entries) /\ ItemsOf(now.entries) \subseteq ItemsOf(acc.entries) \cup {s[j] : j \in 1..k}
  /\ NamesApart(now.entries) /\ Counted(now)
  /\ acc.budget.entries <= now.budget.entries /\ acc.budget.bytes <= now.budget.bytes
  /\ now.budget.exceeded \/ \A j \in 1..k : s[j].name \in now.ignored \cup NamesOf(now.entries)

\* An entry that is taken is counted: the number and the bytes read stay the ones of the budget.
LEMMA CountOne ==
  ASSUME NEW E, NEW N, Sized(E, N), NEW acc \in Extracts(E, N), NEW e \in E, Counted(acc), ~ acc.budget.exceeded,
         NEW budget, budget = take(acc.budget, e.size), ~ budget.exceeded
  PROVE  Counted([acc EXCEPT !.budget = budget, !.entries = Append(@, e)])
<1> PICK m \in Nat, x \in Nat : m = MAX_ARCHIVE_ENTRIES /\ x = MAX_ARCHIVE_EXTRACTED_BYTES
  BY UploadsAssumption
<1> DEFINE new == [acc EXCEPT !.budget = budget, !.entries = Append(@, e)]
<1>1. e.size \in Nat /\ acc.budget \in Budgets /\ acc.entries \in Seq(E) /\ \A y \in E : y.size \in Nat
  BY DEF Sized, Extracts
<1>2. /\ budget \in Budgets /\ budget.entries = acc.budget.entries + 1 /\ budget.bytes = acc.budget.bytes + e.size
      /\ budget.entries <= m /\ budget.bytes <= x
  BY <1>1, TakeTypes
<1>3. new.budget = budget /\ new.entries = Append(acc.entries, e)
  BY DEF Extracts
<1>4. Len(new.entries) = Len(acc.entries) + 1 /\ Len(acc.entries) \in Nat /\ SizeOf(acc.entries) \in Nat
      /\ SizeOf(new.entries) = SizeOf(acc.entries) + e.size
  BY <1>1, <1>3, Appended, SizeOfAppend
<1>5. Len(acc.entries) <= acc.budget.entries /\ SizeOf(acc.entries) <= acc.budget.bytes
  BY DEF Counted
<1>6. acc.budget.entries \in Nat /\ acc.budget.bytes \in Nat
  BY <1>1 DEF Budgets
<1> HIDE DEF new
<1>7. Len(new.entries) <= budget.entries /\ SizeOf(new.entries) <= budget.bytes /\ Len(new.entries) <= m /\ SizeOf(new.entries) <= x
  <2>1. PICK l \in Nat, z \in Nat, b \in Nat, y \in Nat, w \in Nat :
          l = Len(acc.entries) /\ z = SizeOf(acc.entries) /\ b = acc.budget.entries /\ y = acc.budget.bytes /\ w = e.size
    BY ONLY <1>1, <1>4, <1>6
  <2>2. l <= b /\ z <= y /\ b + 1 <= m /\ y + w <= x
    BY ONLY <1>2, <1>5, <2>1
  <2>3. l + 1 <= b + 1 /\ z + w <= y + w /\ l + 1 <= m /\ z + w <= x
    BY ONLY <2>2, l \in Nat, z \in Nat, b \in Nat, y \in Nat, w \in Nat, m \in Nat, x \in Nat
  <2> QED BY ONLY <1>2, <1>4, <2>1, <2>3
<1>9. Counted(new)
  BY <1>2, <1>3, <1>7 DEF Counted
<1> QED
  BY <1>9 DEF new

\* One more entry is taken, ignored by name, or exceeds a limit (the loop of readZip).
LEMMA ReadKeeps ==
  ASSUME NEW E, NEW N, Sized(E, N), NEW acc \in Extracts(E, N), NEW now \in Extracts(E, N), NEW s \in Seq(E), NamesApart(s),
         NamesOf(s) \cap NamesOf(acc.entries) = {}, NEW k \in 0..(Len(s) - 1), ReadOn(acc, s, k, now)
  PROVE  ReadOn(acc, s, k + 1, ReadEntry(now, s[k + 1]))
<1> DEFINE e == s[k + 1]
           next == ReadEntry(now, e)
<1> SUFFICES ReadOn(acc, s, k + 1, next)
  OBVIOUS
<1>1. DOMAIN s = 1..Len(s) /\ Len(s) \in Nat /\ k + 1 \in 1..Len(s) /\ k \in Nat
  BY LenProperties
<1>2. e \in E
  BY <1>1, ElementOfSeq
<1>3. e.size \in Nat /\ e.name \in N /\ now.budget \in Budgets /\ now.entries \in Seq(E)
      /\ acc.budget \in Budgets /\ now.ignored \in SUBSET N
  BY <1>2 DEF Sized, Extracts
<1>4. 1..(k + 1) = (1..k) \cup {k + 1} /\ \A j \in 1..k : j \in 1..Len(s) /\ j # k + 1
  BY <1>1
<1>5. CASE now.budget.exceeded
  <2>1. next = now
    BY <1>5 DEF ReadEntry
  <2> QED BY <1>4, <1>5, <2>1 DEF ReadOn
<1>6. CASE ~ now.budget.exceeded /\ (~ e.xml \/ e.size > MAX_INVOICE_FILE_BYTES)
  <2>1. next = [now EXCEPT !.ignored = @ \cup {e.name}]
    BY <1>6 DEF ReadEntry
  <2>2. next.names = now.names /\ next.entries = now.entries /\ next.budget = now.budget /\ next.ignored = now.ignored \cup {e.name}
    BY <2>1 DEF Extracts
  <2>3. Counted(next)
    BY <2>2 DEF ReadOn, Counted
  <2> HIDE DEF next
  <2>4. \A j \in 1..(k + 1) : s[j].name \in next.ignored \cup NamesOf(next.entries)
    BY <1>4, <1>6, <2>2 DEF ReadOn
  <2>5. ItemsOf(acc.entries) \subseteq ItemsOf(next.entries) /\ ItemsOf(next.entries) \subseteq ItemsOf(acc.entries) \cup {s[j] : j \in 1..(k + 1)}
    BY <1>4, <2>2 DEF ReadOn
  <2>6. next.names = acc.names /\ acc.ignored \subseteq next.ignored /\ NamesApart(next.entries)
        /\ acc.budget.entries <= next.budget.entries /\ acc.budget.bytes <= next.budget.bytes
    BY <2>2 DEF ReadOn
  <2> QED BY <2>3, <2>4, <2>5, <2>6 DEF ReadOn
<1>7. CASE ~ now.budget.exceeded /\ ~ (~ e.xml \/ e.size > MAX_INVOICE_FILE_BYTES)
  <2> DEFINE b == take(now.budget, e.size)
  <2>1. next = [now EXCEPT !.budget = b, !.entries = IF b.exceeded THEN @ ELSE Append(@, e)]
    BY <1>7 DEF ReadEntry
  <2>2. b \in Budgets /\ now.budget.entries <= b.entries /\ now.budget.bytes <= b.bytes
    BY <1>3, TakeTypes
  <2>3. acc.budget.entries <= b.entries /\ acc.budget.bytes <= b.bytes
    BY <1>3, <2>2 DEF ReadOn, Budgets
  <2> HIDE DEF b
  <2>4. CASE b.exceeded
    <3>1. next.names = now.names /\ next.entries = now.entries /\ next.budget = b /\ next.ignored = now.ignored
      BY <2>1, <2>4 DEF Extracts
    <3>2. Counted(next)
      BY <3>1, <2>4 DEF ReadOn, Counted
    <3> HIDE DEF next
    <3>3. ItemsOf(acc.entries) \subseteq ItemsOf(next.entries) /\ ItemsOf(next.entries) \subseteq ItemsOf(acc.entries) \cup {s[j] : j \in 1..(k + 1)}
      BY <1>4, <3>1 DEF ReadOn
    <3>4. next.names = acc.names /\ acc.ignored \subseteq next.ignored /\ NamesApart(next.entries)
      BY <3>1 DEF ReadOn
    <3> QED BY <2>3, <2>4, <3>1, <3>2, <3>3, <3>4 DEF ReadOn
  <2>5. CASE ~ b.exceeded
    <3>1. next.names = now.names /\ next.entries = Append(now.entries, e) /\ next.budget = b /\ next.ignored = now.ignored
      BY <2>1, <2>5 DEF Extracts
    <3>2. next = [now EXCEPT !.budget = b, !.entries = Append(@, e)]
      BY <2>1, <2>5
    <3>3. Counted(next)
      <4>1. Counted(now) /\ b = take(now.budget, e.size)
        BY DEF ReadOn, b
      <4>2. Counted([now EXCEPT !.budget = b, !.entries = Append(@, e)])
        BY <1>2, <1>7, <2>5, <4>1, CountOne
      <4> QED BY <3>2, <4>2
    <3>4. e.name \notin NamesOf(now.entries)
      <4>1. e.name \in NamesOf(s)
        BY <1>1 DEF NamesOf, ItemsOf
      <4>2. \A j \in 1..k : s[j].name # e.name
        BY <1>1, <1>4 DEF NamesApart
      <4>3. \A x \in ItemsOf(acc.entries) : x.name # e.name
        BY <4>1 DEF NamesOf
      <4> QED BY <4>2, <4>3 DEF ReadOn, NamesOf
    <3>5. ItemsOf(next.entries) = ItemsOf(now.entries) \cup {e} /\ NamesOf(next.entries) = NamesOf(now.entries) \cup {e.name}
          /\ NamesApart(next.entries)
      BY <1>2, <1>3, <3>1, <3>4, Appended DEF ReadOn
    <3>6. ItemsOf(acc.entries) \subseteq ItemsOf(next.entries) /\ ItemsOf(next.entries) \subseteq ItemsOf(acc.entries) \cup {s[j] : j \in 1..(k + 1)}
      BY <1>4, <3>5 DEF ReadOn
    <3>7. \A j \in 1..(k + 1) : s[j].name \in next.ignored \cup NamesOf(next.entries)
      BY <1>4, <1>7, <3>1, <3>5 DEF ReadOn
    <3> HIDE DEF next
    <3>8. next.names = acc.names /\ acc.ignored \subseteq next.ignored
      BY <3>1 DEF ReadOn
    <3> QED BY <2>3, <3>1, <3>3, <3>5, <3>6, <3>7, <3>8 DEF ReadOn
  <2> QED BY <2>4, <2>5
<1> QED
  BY <1>5, <1>6, <1>7

\* What reading a whole archive leaves (the loop of readZip).
LEMMA ReadAll ==
  ASSUME NEW E, NEW N, Sized(E, N), NEW acc \in Extracts(E, N), NEW s \in Seq(E), NamesApart(s), NamesApart(acc.entries),
         NamesOf(s) \cap NamesOf(acc.entries) = {}, Counted(acc)
  PROVE  FoldLeft(ReadEntry, acc, s) \in Extracts(E, N) /\ ReadOn(acc, s, Len(s), FoldLeft(ReadEntry, acc, s))
<1> PICK n \in Nat : n = Len(s)
  BY LenProperties
<1>a. PICK h : ReadOneByOne(h, acc, s, Extracts(E, N))
  BY EntrySteps
<1>1. /\ h \in [0..n -> Extracts(E, N)] /\ h[0] = acc /\ h[n] = FoldLeft(ReadEntry, acc, s)
      /\ \A k \in 0..(n - 1) : h[k + 1] = ReadEntry(h[k], s[k + 1])
  BY <1>a DEF ReadOneByOne
<1> DEFINE K == {k \in 0..n : ReadOn(acc, s, k, h[k])}
<1>2. 0 \in K
  <2>1. acc.budget \in Budgets
    BY DEF Extracts
  <2>2. acc.budget.entries <= acc.budget.entries /\ acc.budget.bytes <= acc.budget.bytes
    BY <2>1 DEF Budgets
  <2>3. 1..0 = {}
    OBVIOUS
  <2> QED BY <1>1, <2>2, <2>3 DEF ReadOn
<1>3. ASSUME NEW k \in 0..(n - 1), k \in K PROVE k + 1 \in K
  <2>1. ReadOn(acc, s, k, h[k]) /\ h[k] \in Extracts(E, N)
    BY <1>1, <1>3
  <2>2. ReadOn(acc, s, k + 1, ReadEntry(h[k], s[k + 1]))
    BY <2>1, ReadKeeps
  <2> QED BY <1>1, <2>2
<1>4. \A k \in 0..n : k \in K
  <2> HIDE DEF K
  <2> QED BY <1>2, <1>3, UpwardsTo
<1> QED
  BY <1>1, <1>4

-----------------------------------------------------------------------------
NothingExtracted == [entries |-> <<>>, ignored |-> {}, names |-> {}, budget |-> NothingUsed]

\* The files an upload can have: names tell apart the entries of an archive, and those of files with different names.
UploadedFiles(E, N) == [name : N, form : {"zip", "xml", "other"}, readable : BOOLEAN, entries : Seq(E)]
FilesOK(files, E, N) ==
  /\ Sized(E, N) /\ files \in Seq(UploadedFiles(E, N))
  /\ \A i \in DOMAIN files : NamesApart(files[i].entries) /\ (files[i].form = "xml" => Len(files[i].entries) = 1)
  /\ \A i, j \in DOMAIN files : files[i].name # files[j].name => NamesOf(files[i].entries) \cap NamesOf(files[j].entries) = {}

\* Reading an archive keeps the types.
LEMMA ZipTypes ==
  ASSUME NEW E, NEW N, Sized(E, N), NEW acc \in Extracts(E, N), NEW s \in Seq(E)
  PROVE  FoldLeft(ReadEntry, acc, s) \in Extracts(E, N)
<1>1. PICK h : ReadOneByOne(h, acc, s, Extracts(E, N))
  BY EntrySteps
<1>2. Len(s) \in 0..Len(s)
  BY LenProperties
<1> QED
  BY <1>1, <1>2 DEF ReadOneByOne

\* Remembering the name of a file keeps the types.
LEMMA NamedTypes ==
  ASSUME NEW E, NEW N, NEW acc \in Extracts(E, N), NEW n \in N
  PROVE  [acc EXCEPT !.names = @ \cup {n}] \in Extracts(E, N)
BY DEF Extracts

\* Reading a file keeps the types (extractXmlEntries).
LEMMA ExtractTypes ==
  ASSUME NEW E, NEW N, NEW f, Sized(E, N), NEW acc \in Extracts(E, N), f \in UploadedFiles(E, N), f.form = "xml" => Len(f.entries) = 1
  PROVE  Extract(acc, f) \in Extracts(E, N)
<1> DEFINE named == [acc EXCEPT !.names = @ \cup {f.name}]
<1>1. named \in Extracts(E, N) /\ f.name \in N /\ f.entries \in Seq(E)
  BY NamedTypes DEF UploadedFiles
<1>2. CASE f.name \in acc.names \/ acc.budget.exceeded \/ f.form = "other"
  BY <1>1, <1>2 DEF Extract, Extracts
<1>3. readZip(named, f) \in Extracts(E, N)
  <2> HIDE DEF named
  <2>1. FoldLeft(ReadEntry, named, f.entries) \in Extracts(E, N)
    BY <1>1, ZipTypes
  <2> DEFINE read == FoldLeft(ReadEntry, named, f.entries)
  <2>2. [read EXCEPT !.entries = named.entries, !.ignored = @ \cup {f.name}] \in Extracts(E, N)
    <3>1. read \in Extracts(E, N)
      BY <2>1
    <3> HIDE DEF read
    <3> QED BY <1>1, <3>1 DEF Extracts
  <2> QED BY <2>1, <2>2 DEF readZip
<1>4. f.form = "xml" => readXml(named, f) \in Extracts(E, N)
  <2> HIDE DEF named
  <2> SUFFICES ASSUME f.form = "xml" PROVE readXml(named, f) \in Extracts(E, N)
    OBVIOUS
  <2>1. f.entries[1] \in E
    BY <1>1, ElementOfSeq
  <2>2. take(named.budget, f.entries[1].size) \in Budgets
    BY <1>1, <2>1, TakeTypes DEF Sized, Extracts
  <2>3. Append(named.entries, f.entries[1]) \in Seq(E)
    BY <1>1, <2>1, Appended DEF Extracts
  <2> QED BY <1>1, <2>2, <2>3 DEF readXml, Extracts
<1>5. f.form \in {"zip", "xml", "other"}
  BY DEF UploadedFiles
<1> QED
  BY <1>2, <1>3, <1>4, <1>5 DEF Extract

\* Nothing is read of no files.
LEMMA ExtractedNone ==
  ASSUME NEW E, NEW N
  PROVE  /\ NothingExtracted \in Extracts(E, N) /\ Counted(NothingExtracted) /\ NamesApart(NothingExtracted.entries)
         /\ ItemsOf(NothingExtracted.entries) = {}
<1>1. NothingExtracted.entries = <<>> /\ NothingExtracted.budget = NothingUsed
  BY DEF NothingExtracted
<1>2. Len(<<>>) = 0 /\ DOMAIN <<>> = {} /\ <<>> \in Seq(E)
  BY LenProperties, EmptySeq
<1>3. SizeOf(<<>>) = 0
  BY <1>2, SumEmpty DEF SizeOf
<1>4. MAX_ARCHIVE_ENTRIES \in Nat /\ MAX_ARCHIVE_EXTRACTED_BYTES \in Nat
  BY UploadsAssumption
<1>5. Counted(NothingExtracted)
  BY <1>1, <1>2, <1>3, <1>4 DEF Counted, NothingUsed
<1>6. NothingExtracted \in Extracts(E, N)
  BY <1>2 DEF NothingExtracted, Extracts, NothingUsed, Budgets
<1> QED
  BY <1>1, <1>2, <1>5, <1>6 DEF NamesApart, ItemsOf

ExtractedOneByOne(h, files, A) ==
  /\ h \in [0..Len(files) -> A] /\ h[0] = NothingExtracted /\ h[Len(files)] = extractXmlEntries(files)
  /\ \A k \in 0..(Len(files) - 1) : h[k + 1] = Extract(h[k], files[k + 1])

\* An upload is read file by file (extractXmlEntries).
LEMMA ExtractSteps ==
  ASSUME NEW E, NEW N, NEW files, FilesOK(files, E, N)
  PROVE  \E h : ExtractedOneByOne(h, files, Extracts(E, N))
<1> PICK n \in Nat : n = Len(files)
  BY LenProperties DEF FilesOK
<1>1. DOMAIN files = 1..n /\ \A k \in 1..n : files[k] \in UploadedFiles(E, N)
  BY ElementOfSeq, LenProperties DEF FilesOK
<1> DEFINE A == Extracts(E, N)
           T == [p \in A \X (1..n) |-> Extract(p[1], files[p[2]])]
<1>2. T \in [A \X (1..n) -> A] /\ \A a \in A, k \in 1..n : T[<<a, k>>] = Extract(a, files[k])
  <2> HIDE DEF A
  <2>1. \A a \in A, k \in 1..n : Extract(a, files[k]) \in A
    BY <1>1, ExtractTypes DEF A, FilesOK
  <2> QED BY <2>1
<1>3. NothingExtracted \in A
  BY ExtractedNone DEF A
<1> HIDE DEF T, A
<1>4. PICK c : /\ extractXmlEntries(files) = c[1..n]
               /\ c = [t \in SUBSET (1..n) |-> IF t = {} THEN NothingExtracted ELSE Extract(c[t \ {Max(t)}], files[Max(t)])]
  <2> DEFINE Is(it) == it = [t \in SUBSET DOMAIN files |-> IF t = {} THEN NothingExtracted ELSE Extract(it[t \ {Max(t)}], files[Max(t)])]
             it0    == CHOOSE it : Is(it)
  <2>1. \E it : Is(it)
    <3>1. PICK it : Takes(it, NothingExtracted, T, A, n)
      BY <1>2, <1>3, StepsExist
    <3>2. ASSUME NEW t \in SUBSET (1..n), t # {} PROVE it[t] = Extract(it[t \ {Max(t)}], files[Max(t)])
      BY <1>2, <3>1, <3>2 DEF Takes
    <3> DEFINE g == [t \in SUBSET (1..n) |-> IF t = {} THEN NothingExtracted ELSE Extract(it[t \ {Max(t)}], files[Max(t)])]
    <3>3. it = [t \in SUBSET (1..n) |-> it[t]] /\ it[{}] = NothingExtracted
      BY <3>1 DEF Takes
    <3>4. (\A t \in SUBSET (1..n) : it[t] = g[t]) /\ g = [t \in SUBSET (1..n) |-> g[t]]
      BY <3>2, <3>3
    <3>5. it = g
      <4> HIDE DEF g
      <4> QED BY <3>3, <3>4
    <3>6. DOMAIN files = 1..n
      BY <1>1
    <3> QED BY <3>5, <3>6
  <2>2. extractXmlEntries(files) = it0[1..n]
    BY <1>1 DEF extractXmlEntries, NothingExtracted, FoldLeft, MapThenFoldSet
  <2>3. Is(it0)
    <3> HIDE DEF Is
    <3> QED BY <2>1
  <2> HIDE DEF it0
  <2> QED BY <1>1, <2>2, <2>3
<1>5. c[{}] = NothingExtracted /\ \A t \in SUBSET (1..n) : t # {} => c[t] = Extract(c[t \ {Max(t)}], files[Max(t)])
  BY <1>1, <1>4
<1>6. \A t \in SUBSET (1..n) : t # {} => Max(t) \in 1..n
  BY LargestOfSome
<1>7. PICK h : Climbs(h, c, NothingExtracted, T, A, n)
  <2>1. Follows(c, NothingExtracted, T, A, n)
    BY <1>2, <1>5, <1>6 DEF Follows
  <2> QED BY <1>2, <1>3, <2>1, Upwards
<1>8. ASSUME NEW k \in 0..(n - 1) PROVE h[k + 1] = Extract(h[k], files[k + 1])
  <2>1. k + 1 \in 1..n /\ h[k] \in A
    BY <1>7 DEF Climbs
  <2> QED BY <1>2, <1>7, <2>1 DEF Climbs
<1> QED
  BY <1>4, <1>7, <1>8 DEF A, Climbs, ExtractedOneByOne

\* What taking a file keeps of what is extracted so far: it adds entries of the file, and loses no entry or name.
Took(acc, f, next) ==
  /\ next.names = acc.names \cup {f.name} /\ acc.ignored \subseteq next.ignored
  /\ ItemsOf(acc.entries) \subseteq ItemsOf(next.entries) /\ ItemsOf(next.entries) \subseteq ItemsOf(acc.entries) \cup ItemsOf(f.entries)
  /\ NamesApart(next.entries) /\ Counted(next)
  /\ f.name \in next.ignored \/ NamesOf(f.entries) \subseteq next.ignored \cup NamesOf(next.entries)

\* An archive is taken with its entries or ignored by name, within the limits (readZip).
LEMMA ZipTook ==
  ASSUME NEW E, NEW N, Sized(E, N), NEW acc \in Extracts(E, N), NEW f, f \in UploadedFiles(E, N), NamesApart(f.entries), NamesApart(acc.entries),
         NamesOf(f.entries) \cap NamesOf(acc.entries) = {}, Counted(acc), ~ acc.budget.exceeded, f.name \in acc.names
  PROVE  Took(acc, f, readZip(acc, f))
<1> DEFINE s == f.entries
           read == FoldLeft(ReadEntry, acc, s)
<1>1. s \in Seq(E) /\ f.name \in N
  BY DEF UploadedFiles
<1>2. read \in Extracts(E, N) /\ ReadOn(acc, s, Len(s), read)
  BY <1>1, ReadAll
<1>3. {s[j] : j \in 1..Len(s)} = ItemsOf(s) /\ (s = <<>> => ItemsOf(s) = {})
  BY <1>1, LenProperties DEF ItemsOf
<1> HIDE DEF read
<1>4. CASE ~ f.readable \/ read.budget.exceeded \/ s = <<>>
  <2> DEFINE next == [read EXCEPT !.entries = acc.entries, !.ignored = @ \cup {f.name}]
  <2>1. readZip(acc, f) = next
    BY <1>4 DEF readZip, read
  <2>2. next.names = read.names /\ next.entries = acc.entries /\ next.ignored = read.ignored \cup {f.name} /\ next.budget = read.budget
    BY <1>2 DEF Extracts
  <2>3. Counted(next)
    <3> PICK m \in Nat, x \in Nat : m = MAX_ARCHIVE_ENTRIES /\ x = MAX_ARCHIVE_EXTRACTED_BYTES
      BY UploadsAssumption
    <3>1. acc.budget \in Budgets /\ read.budget \in Budgets /\ acc.entries \in Seq(E) /\ \A y \in E : y.size \in Nat
      BY <1>2 DEF Extracts, Sized
    <3>2. Len(acc.entries) \in Nat /\ acc.budget.entries \in Nat /\ read.budget.entries \in Nat /\ acc.budget.bytes \in Nat /\ read.budget.bytes \in Nat
      BY <3>1, LenProperties DEF Budgets
    <3>3. SizeOf(acc.entries) \in Nat
      <4>1. CASE E = {}
        <5>1. DOMAIN acc.entries = {}
          BY <3>1, <4>1, LenProperties, ElementOfSeq
        <5> QED BY <5>1, SumEmpty DEF SizeOf
      <4>2. CASE \E e \in E : TRUE
        BY <3>1, <4>2, SizeOfAppend
      <4> QED BY <4>1, <4>2
    <3>4. /\ Len(acc.entries) <= acc.budget.entries /\ acc.budget.entries <= read.budget.entries
          /\ SizeOf(acc.entries) <= acc.budget.bytes /\ acc.budget.bytes <= read.budget.bytes
      BY <1>2 DEF Counted, ReadOn
    <3>5. Len(acc.entries) <= read.budget.entries /\ SizeOf(acc.entries) <= read.budget.bytes
      BY <3>2, <3>3, <3>4
    <3>6. ~ read.budget.exceeded => read.budget.entries <= m /\ read.budget.bytes <= x
      BY <1>2 DEF Counted, ReadOn
    <3> HIDE DEF next
    <3> QED BY <2>2, <3>5, <3>6 DEF Counted
  <2> HIDE DEF next
  <2> QED BY <1>2, <2>1, <2>2, <2>3 DEF Took, ReadOn
<1>5. CASE ~ (~ f.readable \/ read.budget.exceeded \/ s = <<>>)
  <2>1. readZip(acc, f) = read
    BY <1>5 DEF readZip, read
  <2>2. NamesOf(s) \subseteq read.ignored \cup NamesOf(read.entries)
    BY <1>2, <1>3, <1>5 DEF ReadOn, NamesOf
  <2> QED BY <1>2, <1>3, <2>1, <2>2 DEF Took, ReadOn
<1> QED
  BY <1>4, <1>5

\* A loose file is taken or ignored by name, within the limits (readXml).
LEMMA XmlTook ==
  ASSUME NEW E, NEW N, Sized(E, N), NEW acc \in Extracts(E, N), NEW f, f \in UploadedFiles(E, N), Len(f.entries) = 1, NamesApart(acc.entries),
         NamesOf(f.entries) \cap NamesOf(acc.entries) = {}, Counted(acc), ~ acc.budget.exceeded, f.name \in acc.names
  PROVE  Took(acc, f, readXml(acc, f))
<1> DEFINE e == f.entries[1]
           b == take(acc.budget, e.size)
           fits == ~ b.exceeded /\ e.size <= MAX_INVOICE_FILE_BYTES
           next == readXml(acc, f)
<1> SUFFICES Took(acc, f, next)
  OBVIOUS
<1>1. f.entries \in Seq(E) /\ e \in E /\ DOMAIN f.entries = {1}
  BY LenProperties, ElementOfSeq DEF UploadedFiles
<1>2. ItemsOf(f.entries) = {e} /\ NamesOf(f.entries) = {e.name}
  BY <1>1 DEF ItemsOf, NamesOf
<1>3. acc.entries \in Seq(E) /\ acc.budget \in Budgets /\ e.size \in Nat
  BY <1>1 DEF Extracts, Sized
<1>4. b \in Budgets /\ acc.budget.entries <= b.entries /\ acc.budget.bytes <= b.bytes
      /\ (~ b.exceeded => b.entries <= MAX_ARCHIVE_ENTRIES /\ b.bytes <= MAX_ARCHIVE_EXTRACTED_BYTES)
  BY <1>3, TakeTypes
<1>5. CASE fits
  <2>1. next = [acc EXCEPT !.budget = b, !.entries = Append(@, e)]
    BY <1>5 DEF readXml, Extracts
  <2>2. next.names = acc.names /\ next.entries = Append(acc.entries, e) /\ next.ignored = acc.ignored
    BY <2>1 DEF Extracts
  <2>3. Counted(next)
    <3>1. ~ b.exceeded
      BY <1>5
    <3> HIDE DEF b
    <3>2. b = take(acc.budget, e.size)
      BY DEF b
    <3>3. Counted([acc EXCEPT !.budget = b, !.entries = Append(@, e)])
      BY <1>1, <3>1, <3>2, CountOne
    <3> QED BY <2>1, <3>3
  <2>4. ItemsOf(next.entries) = ItemsOf(acc.entries) \cup {e} /\ NamesOf(next.entries) = NamesOf(acc.entries) \cup {e.name}
        /\ NamesApart(next.entries)
    BY <1>1, <1>2, <1>3, <2>2, Appended
  <2> HIDE DEF next
  <2> QED BY <1>2, <2>2, <2>3, <2>4 DEF Took
<1>6. CASE ~ fits
  <2>1. next = [acc EXCEPT !.budget = b, !.ignored = @ \cup {f.name}]
    BY <1>6 DEF readXml, Extracts
  <2>2. next.names = acc.names /\ next.entries = acc.entries /\ next.ignored = acc.ignored \cup {f.name} /\ next.budget = b
    BY <2>1 DEF Extracts
  <2>3. Counted(next)
    <3>1. Len(acc.entries) \in Nat /\ acc.budget.entries \in Nat /\ acc.budget.bytes \in Nat /\ b.entries \in Nat /\ b.bytes \in Nat
      BY <1>3, <1>4, LenProperties DEF Budgets
    <3>2. SizeOf(acc.entries) \in Nat
      BY <1>1, <1>3, SizeOfAppend DEF Sized
    <3>3. Len(acc.entries) <= b.entries /\ SizeOf(acc.entries) <= b.bytes
      <4>1. Len(acc.entries) <= acc.budget.entries /\ SizeOf(acc.entries) <= acc.budget.bytes
        BY DEF Counted
      <4> HIDE DEF b
      <4> QED BY <1>4, <3>1, <3>2, <4>1
    <3> HIDE DEF next, b
    <3> QED BY <1>4, <2>2, <3>3 DEF Counted
  <2> HIDE DEF next
  <2> QED BY <1>2, <2>2, <2>3 DEF Took
<1> QED
  BY <1>5, <1>6

\* Any file is taken or ignored, within the limits (extractXmlEntries).
LEMMA FileTook ==
  ASSUME NEW E, NEW N, Sized(E, N), NEW acc \in Extracts(E, N), NEW f, f \in UploadedFiles(E, N), NamesApart(f.entries),
         f.form = "xml" => Len(f.entries) = 1, NamesApart(acc.entries), Counted(acc),
         f.name \notin acc.names => NamesOf(f.entries) \cap NamesOf(acc.entries) = {}
  PROVE  Took(acc, f, Extract(acc, f))
<1> DEFINE named == [acc EXCEPT !.names = @ \cup {f.name}]
<1>1. named \in Extracts(E, N)
  BY NamedTypes DEF UploadedFiles
<1>2. named.names = acc.names \cup {f.name} /\ named.entries = acc.entries /\ named.ignored = acc.ignored /\ named.budget = acc.budget
  BY DEF Extracts
<1>3. CASE f.name \in acc.names \/ acc.budget.exceeded \/ f.form = "other"
  <2> DEFINE next == Extract(acc, f)
  <2>1. next = [acc EXCEPT !.names = @ \cup {f.name}, !.ignored = @ \cup {f.name}]
    BY <1>3 DEF Extract
  <2>2. next.names = acc.names \cup {f.name} /\ next.entries = acc.entries /\ next.ignored = acc.ignored \cup {f.name}
        /\ next.budget = acc.budget
    BY <2>1 DEF Extracts
  <2> SUFFICES Took(acc, f, next)
    OBVIOUS
  <2> HIDE DEF next
  <2> QED BY <2>2 DEF Took, Counted
<1>4. CASE ~ (f.name \in acc.names \/ acc.budget.exceeded \/ f.form = "other")
  <2>1. Extract(acc, f) = IF f.form = "zip" THEN readZip(named, f) ELSE readXml(named, f)
    BY <1>4 DEF Extract
  <2>2. f.form \in {"zip", "xml"}
    BY <1>4 DEF UploadedFiles
  <2>3. Counted(named)
    BY <1>2 DEF Counted
  <2> HIDE DEF named
  <2>4. Took(named, f, Extract(acc, f))
    <3>1. CASE f.form = "zip"
      <4>1. Took(named, f, readZip(named, f))
        BY <1>1, <1>2, <1>4, <2>3, ZipTook
      <4> QED BY <2>1, <3>1, <4>1
    <3>2. CASE f.form = "xml"
      <4>1. Took(named, f, readXml(named, f))
        BY <1>1, <1>2, <1>4, <2>3, <3>2, XmlTook
      <4> QED BY <2>1, <3>2, <4>1
    <3> QED BY <2>2, <3>1, <3>2
  <2> QED BY <1>2, <2>4 DEF Took
<1> QED
  BY <1>3, <1>4

ExtractedOn(files, k, now) ==
  /\ now.names = {files[j].name : j \in 1..k}
  /\ ItemsOf(now.entries) \subseteq UNION {ItemsOf(files[j].entries) : j \in 1..k}
  /\ NamesApart(now.entries) /\ Counted(now)
  /\ \A j \in 1..k : files[j].name \in now.ignored \/ NamesOf(files[j].entries) \subseteq now.ignored \cup NamesOf(now.entries)

\* The entries read of an upload have distinct names, keep within the limits, and nothing vanishes (extractXmlEntries).
LEMMA ExtractedAll ==
  ASSUME NEW E, NEW N, NEW files, FilesOK(files, E, N)
  PROVE  extractXmlEntries(files) \in Extracts(E, N) /\ ExtractedOn(files, Len(files), extractXmlEntries(files))
<1> PICK n \in Nat : n = Len(files)
  BY LenProperties DEF FilesOK
<1>1. DOMAIN files = 1..n /\ \A k \in 1..n : files[k] \in UploadedFiles(E, N)
  BY ElementOfSeq, LenProperties DEF FilesOK
<1>2. PICK h : ExtractedOneByOne(h, files, Extracts(E, N))
  BY ExtractSteps
<1>3. /\ h \in [0..n -> Extracts(E, N)] /\ h[0] = NothingExtracted /\ h[n] = extractXmlEntries(files)
      /\ \A k \in 0..(n - 1) : h[k + 1] = Extract(h[k], files[k + 1])
  BY <1>2 DEF ExtractedOneByOne
<1> DEFINE K == {k \in 0..n : ExtractedOn(files, k, h[k])}
<1>4. 0 \in K
  <2>1. 1..0 = {}
    OBVIOUS
  <2>2. NothingExtracted.names = {}
    BY DEF NothingExtracted
  <2> QED BY <1>3, <2>1, <2>2, ExtractedNone DEF ExtractedOn
<1>5. ASSUME NEW k \in 0..(n - 1), k \in K PROVE k + 1 \in K
  <2> DEFINE acc == h[k]
             f == files[k + 1]
             next == h[k + 1]
  <2>1. ExtractedOn(files, k, acc) /\ acc \in Extracts(E, N) /\ k + 1 \in 1..n
    BY <1>3, <1>5
  <2>2. 1..(k + 1) = (1..k) \cup {k + 1} /\ \A j \in 1..k : j \in 1..n
    OBVIOUS
  <2>3. f.name \notin acc.names => NamesOf(f.entries) \cap NamesOf(acc.entries) = {}
    <3> SUFFICES ASSUME f.name \notin acc.names, NEW x \in ItemsOf(f.entries), NEW y \in ItemsOf(acc.entries) PROVE x.name # y.name
      BY DEF NamesOf
    <3>1. PICK j \in 1..k : y \in ItemsOf(files[j].entries)
      BY <2>1 DEF ExtractedOn
    <3>2. files[j].name # f.name
      BY <2>1 DEF ExtractedOn
    <3>3. NamesOf(files[j].entries) \cap NamesOf(files[k + 1].entries) = {}
      BY <1>1, <2>1, <2>2, <3>2 DEF FilesOK
    <3> QED BY <3>1, <3>3 DEF NamesOf
  <2>4. Took(acc, f, next)
    <3>1. f \in UploadedFiles(E, N) /\ NamesApart(f.entries) /\ (f.form = "xml" => Len(f.entries) = 1) /\ Sized(E, N)
      BY <1>1, <2>1 DEF FilesOK
    <3>2. NamesApart(acc.entries) /\ Counted(acc)
      BY <2>1 DEF ExtractedOn
    <3>3. Took(acc, f, Extract(acc, f))
      <4> HIDE DEF acc, f
      <4> QED BY <2>1, <2>3, <3>1, <3>2, FileTook
    <3> QED BY <1>3, <3>3
  <2>5. ExtractedOn(files, k + 1, next)
    <3> SUFFICES ASSUME NEW nw, nw = next PROVE ExtractedOn(files, k + 1, nw)
      OBVIOUS
    <3> HIDE DEF next
    <3>1. nw.names = {files[j].name : j \in 1..(k + 1)}
      BY <2>1, <2>2, <2>4 DEF ExtractedOn, Took
    <3>2. ItemsOf(nw.entries) \subseteq UNION {ItemsOf(files[j].entries) : j \in 1..(k + 1)}
      BY <2>1, <2>2, <2>4 DEF ExtractedOn, Took
    <3>3. NamesApart(nw.entries) /\ Counted(nw)
      BY <2>4 DEF Took
    <3>4. NamesOf(acc.entries) \subseteq NamesOf(nw.entries)
      BY <2>4 DEF Took, NamesOf
    <3>5. \A j \in 1..(k + 1) : files[j].name \in nw.ignored \/ NamesOf(files[j].entries) \subseteq nw.ignored \cup NamesOf(nw.entries)
      BY <2>1, <2>2, <2>4, <3>4 DEF ExtractedOn, Took
    <3> QED BY <3>1, <3>2, <3>3, <3>5 DEF ExtractedOn
  <2> QED BY <2>5
<1>6. \A k \in 0..n : k \in K
  <2> HIDE DEF K
  <2> QED BY <1>4, <1>5, UpwardsTo
<1> QED
  BY <1>3, <1>6

-----------------------------------------------------------------------------
(* What the preview shows and what the import then does *)

Outcomes  == {"NEW", "DUPLICATE", "ERROR"}
RowsOf(E) == [name : {e.name : e \in E}, status : Outcomes, requires : SUBSET {e.name : e \in E}]
IsStore(db) == db = [invoices |-> db.invoices, outcome |-> db.outcome, recorded |-> db.recorded]
Partial(F, V) == UNION {[S -> V] : S \in SUBSET F}

ShownOf(E) ==
  [rows : SUBSET RowsOf(E), numbers : SUBSET {e.doc.number : e \in E}, sequences : SUBSET {e.doc.sequence : e \in E},
   files : SUBSET {e.base : e \in E}, upcoming : SUBSET [file : {e.base : e \in E}, entry : {e.name : e \in E}]]

\* Previewing an invoice keeps the types.
LEMMA PreviewTypes ==
  ASSUME NEW db, NEW E, NEW memory \in ShownOf(E), NEW e \in E
  PROVE  PreviewInvoice(db, memory, e) \in ShownOf(E)
<1> DEFINE status == PreviewStatus(memory, e, check(db, e))
<1>1. check(db, e) \in Outcomes
  BY DEF check, Outcomes
<1>2. status \in Outcomes
  BY <1>1 DEF PreviewStatus, Outcomes
<1>3. Row(e, status, {}) \in RowsOf(E)
  <2> HIDE DEF status
  <2> QED BY <1>2 DEF Row, RowsOf
<1> QED
  <2> HIDE DEF status
  <2> QED BY <1>3 DEF PreviewInvoice, ShownOf, status

\* The database as invoices are imported.
StoreOf(db, E) ==
  [invoices : SUBSET (db.invoices \cup [number : {e.doc.number : e \in E}, sequence : {e.doc.sequence : e \in E}, file : {e.base : e \in E}]),
   outcome : {db.outcome}, recorded : {db.recorded}]
ImportedOf(db, E) == [db : StoreOf(db, E), imported : SUBSET {e.name : e \in E}]

\* Importing an invoice keeps the types.
LEMMA ImportTypes ==
  ASSUME NEW db, NEW E, NEW selected, IsStore(db)
  PROVE  /\ [db |-> db, imported |-> {}] \in ImportedOf(db, E)
         /\ \A acc \in ImportedOf(db, E), e \in E : ImportInvoice(selected, acc, e) \in ImportedOf(db, E)
<1>1. db \in StoreOf(db, E)
  <2>1. [invoices |-> db.invoices, outcome |-> db.outcome, recorded |-> db.recorded] \in StoreOf(db, E)
    BY DEF StoreOf
  <2> QED BY <2>1 DEF IsStore
<1>2. ASSUME NEW acc \in ImportedOf(db, E), NEW e \in E PROVE ImportInvoice(selected, acc, e) \in ImportedOf(db, E)
  <2> DEFINE x == [number |-> e.doc.number, sequence |-> e.doc.sequence, file |-> e.base]
             grown == [acc.db EXCEPT !.invoices = @ \cup {x}]
  <2>1. acc.db \in StoreOf(db, E) /\ acc.imported \in SUBSET {y.name : y \in E}
    BY DEF ImportedOf
  <2>2. grown \in StoreOf(db, E)
    <3>1. x \in [number : {y.doc.number : y \in E}, sequence : {y.doc.sequence : y \in E}, file : {y.base : y \in E}]
      OBVIOUS
    <3> HIDE DEF x
    <3> QED BY <2>1, <3>1 DEF StoreOf
  <2>3. [db |-> grown, imported |-> acc.imported \cup {e.name}] \in ImportedOf(db, E)
    <3> HIDE DEF grown
    <3> QED BY <2>1, <2>2 DEF ImportedOf
  <2> QED BY <2>3 DEF ImportInvoice
<1> QED
  BY <1>1, <1>2 DEF ImportedOf

\* What is remembered of receipts.
MemoryOf(E) == [keys : SUBSET {e.doc : e \in E}, outcomes : Partial({e.doc.file : e \in E}, {e.doc.type : e \in E})]

\* One value more in a partial function.
LEMMA Mapped ==
  ASSUME NEW F, NEW V, NEW m \in Partial(F, V), NEW d, d.file \in F, d.type \in V
  PROVE  Taking(m, d) \in Partial(F, V)
<1>1. PICK S \in SUBSET F : m \in [S -> V]
  BY DEF Partial
<1>2. Taking(m, d) = [x \in {d.file} \cup S |-> IF x = d.file THEN d.type ELSE m[x]]
  BY <1>1 DEF Taking
<1>3. Taking(m, d) \in [{d.file} \cup S -> V] /\ {d.file} \cup S \in SUBSET F
  BY <1>1, <1>2
<1> QED
  BY <1>3 DEF Partial

\* At first no receipt is remembered.
LEMMA NothingRemembered ==
  ASSUME NEW E
  PROVE  NoMemory \in MemoryOf(E) /\ DOMAIN NoMemory.outcomes = {}
<1>1. <<>> \in [{} -> {e.doc.type : e \in E}] /\ DOMAIN <<>> = {}
  OBVIOUS
<1>2. <<>> \in Partial({e.doc.file : e \in E}, {e.doc.type : e \in E})
  BY <1>1 DEF Partial
<1> QED
  BY <1>1, <1>2 DEF NoMemory, MemoryOf

\* Remembering a receipt keeps the types.
LEMMA RememberTypes ==
  ASSUME NEW E, NEW memory \in MemoryOf(E), NEW e \in E, NEW status
  PROVE  Remember(memory, e.doc, status) \in MemoryOf(E)
<1>1. Taking(memory.outcomes, e.doc) \in Partial({y.doc.file : y \in E}, {y.doc.type : y \in E})
  <2> DEFINE F == {y.doc.file : y \in E}
             V == {y.doc.type : y \in E}
  <2>1. memory.outcomes \in Partial(F, V) /\ e.doc.file \in F /\ e.doc.type \in V
    BY DEF MemoryOf
  <2> HIDE DEF F, V
  <2>2. Taking(memory.outcomes, e.doc) \in Partial(F, V)
    BY <2>1, Mapped
  <2> QED BY <2>2 DEF F, V
<1> HIDE DEF Remember
<1>2. memory.keys \cup {e.doc} \in SUBSET {y.doc : y \in E}
  BY DEF MemoryOf
<1> QED
  BY <1>1, <1>2 DEF Remember, MemoryOf

\* A receipt is new, a duplicate or an error (match).
LEMMA MatchTypes ==
  ASSUME NEW db, NEW memory, NEW d
  PROVE  match(db, memory, d) \in Outcomes
BY DEF match, decideReceipt, Outcomes

NamesShown(upcoming) == {u.entry : u \in upcoming}
ReceiptRows(upcoming, E) == [name : {e.name : e \in E}, status : Outcomes, requires : SUBSET NamesShown(upcoming)]
ReceiptsShownOf(upcoming, E) == [rows : SUBSET ReceiptRows(upcoming, E), memory : MemoryOf(E)]

\* Previewing a receipt keeps the types.
LEMMA ReceiptPreviewTypes ==
  ASSUME NEW db, NEW E, NEW upcoming, NEW acc \in ReceiptsShownOf(upcoming, E), NEW e \in E
  PROVE  PreviewReceipt(db, upcoming, acc, e) \in ReceiptsShownOf(upcoming, E)
<1> DEFINE d == e.doc
           carriers == {u.entry : u \in {v \in upcoming : v.file = d.file}}
           status == match(db, acc.memory, d)
           row == Row(e, status, IF Stored(db, d.file) THEN {} ELSE carriers)
           memory == Remember(acc.memory, d, status)
<1>1. acc.memory \in MemoryOf(E) /\ acc.rows \subseteq ReceiptRows(upcoming, E)
  BY DEF ReceiptsShownOf
<1>2. status \in Outcomes
  BY MatchTypes
<1>3. row \in ReceiptRows(upcoming, E) /\ Row(e, "ERROR", {}) \in ReceiptRows(upcoming, E)
  <2>1. carriers \subseteq NamesShown(upcoming)
    BY DEF NamesShown
  <2> HIDE DEF status, carriers
  <2> QED BY <1>2, <2>1 DEF Row, ReceiptRows, Outcomes
<1>4. memory \in MemoryOf(E)
  BY <1>1, RememberTypes
<1>5. [memory |-> memory, rows |-> acc.rows \cup {row}] \in ReceiptsShownOf(upcoming, E)
  <2> HIDE DEF memory, row
  <2> QED BY <1>1, <1>3, <1>4 DEF ReceiptsShownOf
<1>6. [acc EXCEPT !.rows = @ \cup {Row(e, "ERROR", {})}] \in ReceiptsShownOf(upcoming, E)
  BY <1>3 DEF ReceiptsShownOf
<1> QED
  BY <1>5, <1>6 DEF PreviewReceipt

\* The database as receipts are imported.
ReceiptStoreOf(db, E) ==
  [invoices : {db.invoices}, recorded : SUBSET (db.recorded \cup {e.doc : e \in E}),
   outcome : {db.outcome} \cup Partial(DOMAIN db.outcome \cup {e.doc.file : e \in E}, {db.outcome[f] : f \in DOMAIN db.outcome} \cup {e.doc.type : e \in E})]
ReceiptsImportedOf(db, E) == [db : ReceiptStoreOf(db, E), memory : MemoryOf(E), imported : SUBSET {e.name : e \in E}]

\* Importing a receipt keeps the types.
LEMMA ReceiptImportTypes ==
  ASSUME NEW db, NEW E, NEW selected, IsStore(db)
  PROVE  /\ [db |-> db, memory |-> NoMemory, imported |-> {}] \in ReceiptsImportedOf(db, E)
         /\ \A acc \in ReceiptsImportedOf(db, E), e \in E : ImportReceipt(selected, acc, e) \in ReceiptsImportedOf(db, E)
<1>1. db \in ReceiptStoreOf(db, E)
  <2>1. [invoices |-> db.invoices, outcome |-> db.outcome, recorded |-> db.recorded] \in ReceiptStoreOf(db, E)
    BY DEF ReceiptStoreOf
  <2> QED BY <2>1 DEF IsStore
<1>2. ASSUME NEW acc \in ReceiptsImportedOf(db, E), NEW e \in E PROVE ImportReceipt(selected, acc, e) \in ReceiptsImportedOf(db, E)
  <2> DEFINE d == e.doc
             status == match(acc.db, acc.memory, d)
             memory == Remember(acc.memory, d, status)
             outcome == Taking(acc.db.outcome, d)
             F == DOMAIN db.outcome \cup {y.doc.file : y \in E}
             V == {db.outcome[f] : f \in DOMAIN db.outcome} \cup {y.doc.type : y \in E}
             grown == [acc.db EXCEPT !.outcome = Taking(@, d), !.recorded = @ \cup {d}]
  <2>1. acc.db \in ReceiptStoreOf(db, E) /\ acc.memory \in MemoryOf(E) /\ acc.imported \in SUBSET {y.name : y \in E}
    BY DEF ReceiptsImportedOf
  <2>2. memory \in MemoryOf(E)
    BY <2>1, RememberTypes
  <2>3. outcome \in Partial(F, V)
    <3>1. d.file \in F /\ d.type \in V
      OBVIOUS
    <3>2. acc.db.outcome \in {db.outcome} \cup Partial(F, V)
      BY <2>1 DEF ReceiptStoreOf
    <3>3. CASE acc.db.outcome \in Partial(F, V)
      <4> HIDE DEF F, V
      <4> QED BY <3>1, <3>3, Mapped
    <3>4. CASE acc.db.outcome = db.outcome
      <4>1. outcome = [x \in {d.file} \cup DOMAIN db.outcome |-> IF x = d.file THEN d.type ELSE db.outcome[x]]
        BY <3>4 DEF Taking
      <4>2. {d.file} \cup DOMAIN db.outcome \in SUBSET F
        OBVIOUS
      <4>3. \A x \in {d.file} \cup DOMAIN db.outcome : (IF x = d.file THEN d.type ELSE db.outcome[x]) \in V
        OBVIOUS
      <4> HIDE DEF outcome, F, V
      <4>4. outcome \in [{d.file} \cup DOMAIN db.outcome -> V]
        BY <4>1, <4>3
      <4> QED BY <4>2, <4>4 DEF Partial
    <3> QED BY <3>2, <3>3, <3>4
  <2>4. grown \in ReceiptStoreOf(db, E)
    <3>0. acc.db = [invoices |-> acc.db.invoices, recorded |-> acc.db.recorded, outcome |-> acc.db.outcome]
      BY <2>1 DEF ReceiptStoreOf
    <3>1. grown.invoices = acc.db.invoices /\ grown.outcome = outcome /\ grown.recorded = acc.db.recorded \cup {d}
          /\ grown = [invoices |-> grown.invoices, outcome |-> grown.outcome, recorded |-> grown.recorded]
      <4>1. grown = [[invoices |-> acc.db.invoices, recorded |-> acc.db.recorded, outcome |-> acc.db.outcome]
                       EXCEPT !.outcome = outcome, !.recorded = acc.db.recorded \cup {d}]
        BY <3>0
      <4> HIDE DEF grown, outcome, d
      <4> QED BY <4>1
    <3>2. acc.db.invoices = db.invoices /\ acc.db.recorded \subseteq db.recorded \cup {y.doc : y \in E}
      BY <2>1 DEF ReceiptStoreOf
    <3>3. grown.recorded \subseteq db.recorded \cup {y.doc : y \in E}
      BY <3>1, <3>2
    <3> HIDE DEF grown, outcome, F, V
    <3>4. [invoices |-> grown.invoices, outcome |-> grown.outcome, recorded |-> grown.recorded] \in ReceiptStoreOf(db, E)
      BY <2>3, <3>1, <3>2, <3>3 DEF ReceiptStoreOf, F, V
    <3> QED BY <3>1, <3>4
  <2>5. [memory |-> memory, db |-> grown, imported |-> acc.imported \cup {e.name}] \in ReceiptsImportedOf(db, E)
    <3> HIDE DEF grown, memory
    <3> QED BY <2>1, <2>2, <2>4 DEF ReceiptsImportedOf
  <2>6. [acc EXCEPT !.memory = memory] \in ReceiptsImportedOf(db, E)
    <3> HIDE DEF memory
    <3> QED BY <2>2 DEF ReceiptsImportedOf
  <2> HIDE DEF grown
  <2>7. ImportReceipt(selected, acc, e) \in {acc, [acc EXCEPT !.memory = memory], [memory |-> memory, db |-> grown, imported |-> acc.imported \cup {e.name}]}
    BY DEF ImportReceipt, grown
  <2> QED BY <2>5, <2>6, <2>7
<1> QED
  BY <1>1, <1>2, NothingRemembered DEF ReceiptsImportedOf

PreviewedOneByOne(h, db, entries, A) ==
  /\ h \in [0..Len(entries) -> A] /\ h[0] = NothingShown /\ h[Len(entries)] = previewInvoices(db, entries)
  /\ \A k \in 0..(Len(entries) - 1) : h[k + 1] = PreviewInvoice(db, h[k], entries[k + 1])

\* Invoices are previewed one by one (invoices-import.service.ts preview).
LEMMA PreviewSteps ==
  ASSUME NEW db, NEW E, NEW entries \in Seq(E)
  PROVE  \E h : PreviewedOneByOne(h, db, entries, ShownOf(E))
<1> PICK n \in Nat : n = Len(entries)
  BY LenProperties
<1>1. DOMAIN entries = 1..n /\ \A k \in 1..n : entries[k] \in E
  BY ElementOfSeq, LenProperties
<1> DEFINE A == ShownOf(E)
           T == [p \in A \X (1..n) |-> PreviewInvoice(db, p[1], entries[p[2]])]
<1>2. T \in [A \X (1..n) -> A] /\ \A a \in A, k \in 1..n : T[<<a, k>>] = PreviewInvoice(db, a, entries[k])
  <2> HIDE DEF A
  <2>1. \A a \in A, k \in 1..n : PreviewInvoice(db, a, entries[k]) \in A
    BY <1>1, PreviewTypes DEF A
  <2> QED BY <2>1
<1>3. NothingShown \in A
  BY DEF A, ShownOf, NothingShown
<1> HIDE DEF T, A
<1>4. PICK c : /\ previewInvoices(db, entries) = c[1..n]
               /\ c = [t \in SUBSET (1..n) |-> IF t = {} THEN NothingShown ELSE PreviewInvoice(db, c[t \ {Max(t)}], entries[Max(t)])]
  <2> DEFINE Is(it) == it = [t \in SUBSET DOMAIN entries |-> IF t = {} THEN NothingShown ELSE PreviewInvoice(db, it[t \ {Max(t)}], entries[Max(t)])]
             it0    == CHOOSE it : Is(it)
  <2>1. \E it : Is(it)
    <3>1. PICK it : Takes(it, NothingShown, T, A, n)
      BY <1>2, <1>3, StepsExist
    <3>2. ASSUME NEW t \in SUBSET (1..n), t # {} PROVE it[t] = PreviewInvoice(db, it[t \ {Max(t)}], entries[Max(t)])
      BY <1>2, <3>1, <3>2 DEF Takes
    <3> DEFINE g == [t \in SUBSET (1..n) |-> IF t = {} THEN NothingShown ELSE PreviewInvoice(db, it[t \ {Max(t)}], entries[Max(t)])]
    <3>3. it = [t \in SUBSET (1..n) |-> it[t]] /\ it[{}] = NothingShown
      BY <3>1 DEF Takes
    <3>4. (\A t \in SUBSET (1..n) : it[t] = g[t]) /\ g = [t \in SUBSET (1..n) |-> g[t]]
      BY <3>2, <3>3
    <3>5. it = g
      <4> HIDE DEF g
      <4> QED BY <3>3, <3>4
    <3>6. DOMAIN entries = 1..n
      BY <1>1
    <3> QED BY <3>5, <3>6
  <2>2. previewInvoices(db, entries) = it0[1..n]
    BY <1>1 DEF previewInvoices, FoldLeft, MapThenFoldSet
  <2>3. Is(it0)
    <3> HIDE DEF Is
    <3> QED BY <2>1
  <2> HIDE DEF it0
  <2> QED BY <1>1, <2>2, <2>3
<1>5. c[{}] = NothingShown /\ \A t \in SUBSET (1..n) : t # {} => c[t] = PreviewInvoice(db, c[t \ {Max(t)}], entries[Max(t)])
  BY <1>1, <1>4
<1>6. \A t \in SUBSET (1..n) : t # {} => Max(t) \in 1..n
  BY LargestOfSome
<1>7. PICK h : Climbs(h, c, NothingShown, T, A, n)
  <2>1. Follows(c, NothingShown, T, A, n)
    BY <1>2, <1>5, <1>6 DEF Follows
  <2> QED BY <1>2, <1>3, <2>1, Upwards
<1>8. ASSUME NEW k \in 0..(n - 1) PROVE h[k + 1] = PreviewInvoice(db, h[k], entries[k + 1])
  <2>1. k + 1 \in 1..n /\ h[k] \in A
    BY <1>7 DEF Climbs
  <2> QED BY <1>2, <1>7, <2>1 DEF Climbs
<1> QED
  BY <1>4, <1>7, <1>8 DEF A, Climbs, PreviewedOneByOne

ImportedOneByOne(h, db, entries, selected, A) ==
  /\ h \in [0..Len(entries) -> A] /\ h[0] = [db |-> db, imported |-> {}] /\ h[Len(entries)] = importInvoices(db, entries, selected)
  /\ \A k \in 0..(Len(entries) - 1) : h[k + 1] = ImportInvoice(selected, h[k], entries[k + 1])

\* Invoices are imported one by one (invoices-import.service.ts import).
LEMMA ImportSteps ==
  ASSUME NEW db, NEW E, NEW entries \in Seq(E), NEW selected, IsStore(db)
  PROVE  \E h : ImportedOneByOne(h, db, entries, selected, ImportedOf(db, E))
<1> PICK n \in Nat : n = Len(entries)
  BY LenProperties
<1>1. DOMAIN entries = 1..n /\ \A k \in 1..n : entries[k] \in E
  BY ElementOfSeq, LenProperties
<1> DEFINE A == ImportedOf(db, E)
           T == [p \in A \X (1..n) |-> ImportInvoice(selected, p[1], entries[p[2]])]
<1>2. T \in [A \X (1..n) -> A] /\ \A a \in A, k \in 1..n : T[<<a, k>>] = ImportInvoice(selected, a, entries[k])
  <2> HIDE DEF A
  <2>1. \A a \in A, k \in 1..n : ImportInvoice(selected, a, entries[k]) \in A
    BY <1>1, ImportTypes DEF A
  <2> QED BY <2>1
<1>3. [db |-> db, imported |-> {}] \in A
  BY ImportTypes DEF A
<1> HIDE DEF T, A
<1>4. PICK c : /\ importInvoices(db, entries, selected) = c[1..n]
               /\ c = [t \in SUBSET (1..n) |-> IF t = {} THEN [db |-> db, imported |-> {}] ELSE ImportInvoice(selected, c[t \ {Max(t)}], entries[Max(t)])]
  <2> DEFINE Is(it) == it = [t \in SUBSET DOMAIN entries |-> IF t = {} THEN [db |-> db, imported |-> {}] ELSE ImportInvoice(selected, it[t \ {Max(t)}], entries[Max(t)])]
             it0    == CHOOSE it : Is(it)
  <2>1. \E it : Is(it)
    <3>1. PICK it : Takes(it, [db |-> db, imported |-> {}], T, A, n)
      BY <1>2, <1>3, StepsExist
    <3>2. ASSUME NEW t \in SUBSET (1..n), t # {} PROVE it[t] = ImportInvoice(selected, it[t \ {Max(t)}], entries[Max(t)])
      BY <1>2, <3>1, <3>2 DEF Takes
    <3> DEFINE g == [t \in SUBSET (1..n) |-> IF t = {} THEN [db |-> db, imported |-> {}] ELSE ImportInvoice(selected, it[t \ {Max(t)}], entries[Max(t)])]
    <3>3. it = [t \in SUBSET (1..n) |-> it[t]] /\ it[{}] = [db |-> db, imported |-> {}]
      BY <3>1 DEF Takes
    <3>4. (\A t \in SUBSET (1..n) : it[t] = g[t]) /\ g = [t \in SUBSET (1..n) |-> g[t]]
      BY <3>2, <3>3
    <3>5. it = g
      <4> HIDE DEF g
      <4> QED BY <3>3, <3>4
    <3>6. DOMAIN entries = 1..n
      BY <1>1
    <3> QED BY <3>5, <3>6
  <2>2. importInvoices(db, entries, selected) = it0[1..n]
    BY <1>1 DEF importInvoices, FoldLeft, MapThenFoldSet
  <2>3. Is(it0)
    <3> HIDE DEF Is
    <3> QED BY <2>1
  <2> HIDE DEF it0
  <2> QED BY <1>1, <2>2, <2>3
<1>5. c[{}] = [db |-> db, imported |-> {}] /\ \A t \in SUBSET (1..n) : t # {} => c[t] = ImportInvoice(selected, c[t \ {Max(t)}], entries[Max(t)])
  BY <1>1, <1>4
<1>6. \A t \in SUBSET (1..n) : t # {} => Max(t) \in 1..n
  BY LargestOfSome
<1>7. PICK h : Climbs(h, c, [db |-> db, imported |-> {}], T, A, n)
  <2>1. Follows(c, [db |-> db, imported |-> {}], T, A, n)
    BY <1>2, <1>5, <1>6 DEF Follows
  <2> QED BY <1>2, <1>3, <2>1, Upwards
<1>8. ASSUME NEW k \in 0..(n - 1) PROVE h[k + 1] = ImportInvoice(selected, h[k], entries[k + 1])
  <2>1. k + 1 \in 1..n /\ h[k] \in A
    BY <1>7 DEF Climbs
  <2> QED BY <1>2, <1>7, <2>1 DEF Climbs
<1> QED
  BY <1>4, <1>7, <1>8 DEF A, Climbs, ImportedOneByOne

ReceiptsPreviewedOneByOne(h, db, entries, upcoming, A) ==
  /\ h \in [0..Len(entries) -> A] /\ h[0] = [rows |-> {}, memory |-> NoMemory] /\ h[Len(entries)] = previewReceipts(db, entries, upcoming)
  /\ \A k \in 0..(Len(entries) - 1) : h[k + 1] = PreviewReceipt(db, upcoming, h[k], entries[k + 1])

\* Receipts are previewed one by one (sdi-receipts-import.service.ts preview).
LEMMA ReceiptPreviewSteps ==
  ASSUME NEW db, NEW E, NEW entries \in Seq(E), NEW upcoming
  PROVE  \E h : ReceiptsPreviewedOneByOne(h, db, entries, upcoming, ReceiptsShownOf(upcoming, E))
<1> PICK n \in Nat : n = Len(entries)
  BY LenProperties
<1>1. DOMAIN entries = 1..n /\ \A k \in 1..n : entries[k] \in E
  BY ElementOfSeq, LenProperties
<1> DEFINE A == ReceiptsShownOf(upcoming, E)
           T == [p \in A \X (1..n) |-> PreviewReceipt(db, upcoming, p[1], entries[p[2]])]
<1>2. T \in [A \X (1..n) -> A] /\ \A a \in A, k \in 1..n : T[<<a, k>>] = PreviewReceipt(db, upcoming, a, entries[k])
  <2> HIDE DEF A
  <2>1. \A a \in A, k \in 1..n : PreviewReceipt(db, upcoming, a, entries[k]) \in A
    BY <1>1, ReceiptPreviewTypes DEF A
  <2> QED BY <2>1
<1>3. [rows |-> {}, memory |-> NoMemory] \in A
  BY NothingRemembered DEF A, ReceiptsShownOf
<1> HIDE DEF T, A
<1>4. PICK c : /\ previewReceipts(db, entries, upcoming) = c[1..n]
               /\ c = [t \in SUBSET (1..n) |-> IF t = {} THEN [rows |-> {}, memory |-> NoMemory] ELSE PreviewReceipt(db, upcoming, c[t \ {Max(t)}], entries[Max(t)])]
  <2> DEFINE Is(it) == it = [t \in SUBSET DOMAIN entries |-> IF t = {} THEN [rows |-> {}, memory |-> NoMemory] ELSE PreviewReceipt(db, upcoming, it[t \ {Max(t)}], entries[Max(t)])]
             it0    == CHOOSE it : Is(it)
  <2>1. \E it : Is(it)
    <3>1. PICK it : Takes(it, [rows |-> {}, memory |-> NoMemory], T, A, n)
      BY <1>2, <1>3, StepsExist
    <3>2. ASSUME NEW t \in SUBSET (1..n), t # {} PROVE it[t] = PreviewReceipt(db, upcoming, it[t \ {Max(t)}], entries[Max(t)])
      BY <1>2, <3>1, <3>2 DEF Takes
    <3> DEFINE g == [t \in SUBSET (1..n) |-> IF t = {} THEN [rows |-> {}, memory |-> NoMemory] ELSE PreviewReceipt(db, upcoming, it[t \ {Max(t)}], entries[Max(t)])]
    <3>3. it = [t \in SUBSET (1..n) |-> it[t]] /\ it[{}] = [rows |-> {}, memory |-> NoMemory]
      BY <3>1 DEF Takes
    <3>4. (\A t \in SUBSET (1..n) : it[t] = g[t]) /\ g = [t \in SUBSET (1..n) |-> g[t]]
      BY <3>2, <3>3
    <3>5. it = g
      <4> HIDE DEF g
      <4> QED BY <3>3, <3>4
    <3>6. DOMAIN entries = 1..n
      BY <1>1
    <3> QED BY <3>5, <3>6
  <2>2. previewReceipts(db, entries, upcoming) = it0[1..n]
    BY <1>1 DEF previewReceipts, FoldLeft, MapThenFoldSet
  <2>3. Is(it0)
    <3> HIDE DEF Is
    <3> QED BY <2>1
  <2> HIDE DEF it0
  <2> QED BY <1>1, <2>2, <2>3
<1>5. c[{}] = [rows |-> {}, memory |-> NoMemory] /\ \A t \in SUBSET (1..n) : t # {} => c[t] = PreviewReceipt(db, upcoming, c[t \ {Max(t)}], entries[Max(t)])
  BY <1>1, <1>4
<1>6. \A t \in SUBSET (1..n) : t # {} => Max(t) \in 1..n
  BY LargestOfSome
<1>7. PICK h : Climbs(h, c, [rows |-> {}, memory |-> NoMemory], T, A, n)
  <2>1. Follows(c, [rows |-> {}, memory |-> NoMemory], T, A, n)
    BY <1>2, <1>5, <1>6 DEF Follows
  <2> QED BY <1>2, <1>3, <2>1, Upwards
<1>8. ASSUME NEW k \in 0..(n - 1) PROVE h[k + 1] = PreviewReceipt(db, upcoming, h[k], entries[k + 1])
  <2>1. k + 1 \in 1..n /\ h[k] \in A
    BY <1>7 DEF Climbs
  <2> QED BY <1>2, <1>7, <2>1 DEF Climbs
<1> QED
  BY <1>4, <1>7, <1>8 DEF A, Climbs, ReceiptsPreviewedOneByOne

ReceiptsImportedOneByOne(h, db, entries, selected, A) ==
  /\ h \in [0..Len(entries) -> A] /\ h[0] = [db |-> db, memory |-> NoMemory, imported |-> {}] /\ h[Len(entries)] = importReceipts(db, entries, selected)
  /\ \A k \in 0..(Len(entries) - 1) : h[k + 1] = ImportReceipt(selected, h[k], entries[k + 1])

\* Receipts are imported one by one (sdi-receipts-import.service.ts import).
LEMMA ReceiptImportSteps ==
  ASSUME NEW db, NEW E, NEW entries \in Seq(E), NEW selected, IsStore(db)
  PROVE  \E h : ReceiptsImportedOneByOne(h, db, entries, selected, ReceiptsImportedOf(db, E))
<1> PICK n \in Nat : n = Len(entries)
  BY LenProperties
<1>1. DOMAIN entries = 1..n /\ \A k \in 1..n : entries[k] \in E
  BY ElementOfSeq, LenProperties
<1> DEFINE A == ReceiptsImportedOf(db, E)
           T == [p \in A \X (1..n) |-> ImportReceipt(selected, p[1], entries[p[2]])]
<1>2. T \in [A \X (1..n) -> A] /\ \A a \in A, k \in 1..n : T[<<a, k>>] = ImportReceipt(selected, a, entries[k])
  <2> HIDE DEF A
  <2>1. \A a \in A, k \in 1..n : ImportReceipt(selected, a, entries[k]) \in A
    BY <1>1, ReceiptImportTypes DEF A
  <2> QED BY <2>1
<1>3. [db |-> db, memory |-> NoMemory, imported |-> {}] \in A
  BY ReceiptImportTypes DEF A
<1> HIDE DEF T, A
<1>4. PICK c : /\ importReceipts(db, entries, selected) = c[1..n]
               /\ c = [t \in SUBSET (1..n) |-> IF t = {} THEN [db |-> db, memory |-> NoMemory, imported |-> {}] ELSE ImportReceipt(selected, c[t \ {Max(t)}], entries[Max(t)])]
  <2> DEFINE Is(it) == it = [t \in SUBSET DOMAIN entries |-> IF t = {} THEN [db |-> db, memory |-> NoMemory, imported |-> {}] ELSE ImportReceipt(selected, it[t \ {Max(t)}], entries[Max(t)])]
             it0    == CHOOSE it : Is(it)
  <2>1. \E it : Is(it)
    <3>1. PICK it : Takes(it, [db |-> db, memory |-> NoMemory, imported |-> {}], T, A, n)
      BY <1>2, <1>3, StepsExist
    <3>2. ASSUME NEW t \in SUBSET (1..n), t # {} PROVE it[t] = ImportReceipt(selected, it[t \ {Max(t)}], entries[Max(t)])
      BY <1>2, <3>1, <3>2 DEF Takes
    <3> DEFINE g == [t \in SUBSET (1..n) |-> IF t = {} THEN [db |-> db, memory |-> NoMemory, imported |-> {}] ELSE ImportReceipt(selected, it[t \ {Max(t)}], entries[Max(t)])]
    <3>3. it = [t \in SUBSET (1..n) |-> it[t]] /\ it[{}] = [db |-> db, memory |-> NoMemory, imported |-> {}]
      BY <3>1 DEF Takes
    <3>4. (\A t \in SUBSET (1..n) : it[t] = g[t]) /\ g = [t \in SUBSET (1..n) |-> g[t]]
      BY <3>2, <3>3
    <3>5. it = g
      <4> HIDE DEF g
      <4> QED BY <3>3, <3>4
    <3>6. DOMAIN entries = 1..n
      BY <1>1
    <3> QED BY <3>5, <3>6
  <2>2. importReceipts(db, entries, selected) = it0[1..n]
    BY <1>1 DEF importReceipts, FoldLeft, MapThenFoldSet
  <2>3. Is(it0)
    <3> HIDE DEF Is
    <3> QED BY <2>1
  <2> HIDE DEF it0
  <2> QED BY <1>1, <2>2, <2>3
<1>5. c[{}] = [db |-> db, memory |-> NoMemory, imported |-> {}] /\ \A t \in SUBSET (1..n) : t # {} => c[t] = ImportReceipt(selected, c[t \ {Max(t)}], entries[Max(t)])
  BY <1>1, <1>4
<1>6. \A t \in SUBSET (1..n) : t # {} => Max(t) \in 1..n
  BY LargestOfSome
<1>7. PICK h : Climbs(h, c, [db |-> db, memory |-> NoMemory, imported |-> {}], T, A, n)
  <2>1. Follows(c, [db |-> db, memory |-> NoMemory, imported |-> {}], T, A, n)
    BY <1>2, <1>5, <1>6 DEF Follows
  <2> QED BY <1>2, <1>3, <2>1, Upwards
<1>8. ASSUME NEW k \in 0..(n - 1) PROVE h[k + 1] = ImportReceipt(selected, h[k], entries[k + 1])
  <2>1. k + 1 \in 1..n /\ h[k] \in A
    BY <1>7 DEF Climbs
  <2> QED BY <1>2, <1>7, <2>1 DEF Climbs
<1> QED
  BY <1>4, <1>7, <1>8 DEF A, Climbs, ReceiptsImportedOneByOne

\* What the invoices imported so far have in common with what the preview remembers.
Foreseen(db, selected, shown, now) ==
  /\ IsStore(now.db) /\ now.db.outcome = db.outcome /\ now.db.recorded = db.recorded /\ db.invoices \subseteq now.db.invoices
  /\ \A x \in now.db.invoices : x \in db.invoices \/ (x.number \in shown.numbers /\ x.sequence \in shown.sequences /\ x.file \in shown.files)
  /\ \A u \in shown.upcoming : u.entry \in selected => \E x \in now.db.invoices : x.file = u.file

InvoiceKind == "INVOICE"
ReceiptKind == "SDI_RECEIPT"
IsChosen(kind, selected, e) == e.doc.kind = kind /\ e.name \in selected

\* The import of an invoice shown as new succeeds, and stores nothing that the preview does not remember.
LEMMA InvoiceForeseen ==
  ASSUME NEW db, NEW selected, NEW shown, NEW now, NEW e, Foreseen(db, selected, shown, now),
         IsChosen(InvoiceKind, selected, e) => PreviewStatus(shown, e, check(db, e)) = "NEW"
  PROVE  /\ Foreseen(db, selected, PreviewInvoice(db, shown, e), ImportInvoice(selected, now, e))
         /\ ImportInvoice(selected, now, e).imported
              = IF IsChosen(InvoiceKind, selected, e) THEN now.imported \cup {e.name} ELSE now.imported
<1> DEFINE found  == check(db, e)
           status == PreviewStatus(shown, e, found)
           after  == PreviewInvoice(db, shown, e)
           next   == ImportInvoice(selected, now, e)
<1> SUFFICES /\ Foreseen(db, selected, after, next)
             /\ next.imported = IF IsChosen(InvoiceKind, selected, e) THEN now.imported \cup {e.name} ELSE now.imported
  OBVIOUS
<1>1. CASE e.doc.kind # "INVOICE"
  <2>1. after = shown /\ next = now
    BY <1>1 DEF PreviewInvoice, ImportInvoice
  <2> HIDE DEF after, next
  <2> QED BY <1>1, <2>1 DEF IsChosen, InvoiceKind, ReceiptKind
<1>2. ASSUME e.doc.kind = "INVOICE"
      PROVE  /\ shown.numbers \subseteq after.numbers /\ shown.sequences \subseteq after.sequences /\ shown.files \subseteq after.files
             /\ shown.upcoming \subseteq after.upcoming
             /\ \A u \in after.upcoming : u \in shown.upcoming \/ (u = [file |-> e.base, entry |-> e.name] /\ status = "NEW")
             /\ status = "NEW" => found = "NEW" /\ e.doc.number \in after.numbers /\ e.doc.sequence \in after.sequences /\ e.base \in after.files
  <2>1. status = "NEW" => found = "NEW"
    BY DEF PreviewStatus
  <2> HIDE DEF found, status
  <2>2. after = [rows      |-> shown.rows \cup {Row(e, status, {})},
                 numbers   |-> IF found = "ERROR" THEN shown.numbers ELSE shown.numbers \cup {e.doc.number},
                 sequences |-> IF found = "ERROR" THEN shown.sequences ELSE shown.sequences \cup {e.doc.sequence},
                 files     |-> IF status = "NEW" THEN shown.files \cup {e.base} ELSE shown.files,
                 upcoming  |-> IF status = "NEW" THEN shown.upcoming \cup {[file |-> e.base, entry |-> e.name]} ELSE shown.upcoming]
    BY <1>2 DEF PreviewInvoice, found, status
  <2> HIDE DEF after
  <2>3. /\ after.numbers = (IF found = "ERROR" THEN shown.numbers ELSE shown.numbers \cup {e.doc.number})
        /\ after.sequences = (IF found = "ERROR" THEN shown.sequences ELSE shown.sequences \cup {e.doc.sequence})
        /\ after.files = (IF status = "NEW" THEN shown.files \cup {e.base} ELSE shown.files)
        /\ after.upcoming = (IF status = "NEW" THEN shown.upcoming \cup {[file |-> e.base, entry |-> e.name]} ELSE shown.upcoming)
    BY <2>2
  <2>4. shown.numbers \subseteq after.numbers /\ shown.sequences \subseteq after.sequences /\ shown.files \subseteq after.files
        /\ shown.upcoming \subseteq after.upcoming
    BY <2>3
  <2>5. \A u \in after.upcoming : u \in shown.upcoming \/ (u = [file |-> e.base, entry |-> e.name] /\ status = "NEW")
    BY <2>3
  <2>6. ASSUME status = "NEW" PROVE found = "NEW" /\ e.doc.number \in after.numbers /\ e.doc.sequence \in after.sequences /\ e.base \in after.files
    <3>1. found = "NEW" /\ found # "ERROR"
      BY <2>1, <2>6
    <3>2. after.numbers = shown.numbers \cup {e.doc.number} /\ after.sequences = shown.sequences \cup {e.doc.sequence} /\ after.files = shown.files \cup {e.base}
      BY <2>3, <2>6, <3>1
    <3> QED BY <3>1, <3>2
  <2> QED BY <2>4, <2>5, <2>6
<1>3. CASE e.doc.kind = "INVOICE" /\ e.name \notin selected
  <2>1. next = now
    BY <1>3 DEF ImportInvoice
  <2>2. \A u \in after.upcoming : u.entry \in selected => u \in shown.upcoming
    BY <1>2, <1>3
  <2> HIDE DEF after, next, status, found
  <2> QED BY <1>2, <1>3, <2>1, <2>2 DEF Foreseen, IsChosen, InvoiceKind, ReceiptKind
<1>4. CASE IsChosen(InvoiceKind, selected, e)
  <2> DEFINE x == [number |-> e.doc.number, sequence |-> e.doc.sequence, file |-> e.base]
  <2>1. status = "NEW" /\ found = "NEW"
    BY <1>2, <1>4 DEF IsChosen, InvoiceKind, ReceiptKind
  <2>2. e.doc.number \notin shown.numbers /\ e.doc.sequence \notin shown.sequences /\ e.base \notin shown.files
    BY <2>1 DEF PreviewStatus
  <2>3. /\ e.doc.valid /\ \A i \in db.invoices : i.number # e.doc.number /\ i.sequence # e.doc.sequence /\ i.file # e.base
    BY <2>1 DEF check
  <2>4. \A i \in now.db.invoices : i.number # e.doc.number /\ i.sequence # e.doc.sequence /\ i.file # e.base
    BY <2>2, <2>3 DEF Foreseen
  <2>5. check(now.db, e) = "NEW"
    BY <2>3, <2>4 DEF check
  <2>6. next = [db |-> [now.db EXCEPT !.invoices = @ \cup {x}], imported |-> now.imported \cup {e.name}]
    BY <1>4, <2>5 DEF ImportInvoice, IsChosen, InvoiceKind, ReceiptKind
  <2>7. now.db = [invoices |-> now.db.invoices, outcome |-> now.db.outcome, recorded |-> now.db.recorded]
    BY DEF Foreseen, IsStore
  <2>8. next.db = [[invoices |-> now.db.invoices, outcome |-> now.db.outcome, recorded |-> now.db.recorded] EXCEPT !.invoices = @ \cup {x}]
        /\ next.imported = now.imported \cup {e.name}
    <3> HIDE DEF next, x
    <3> QED BY <2>6, <2>7
  <2> HIDE DEF next
  <2>9. next.db = [invoices |-> now.db.invoices \cup {x}, outcome |-> now.db.outcome, recorded |-> now.db.recorded]
    <3> HIDE DEF x
    <3> QED BY <2>8
  <2>10. x.number = e.doc.number /\ x.sequence = e.doc.sequence /\ x.file = e.base
    OBVIOUS
  <2> HIDE DEF x, after, status, found
  <2>11. IsStore(next.db) /\ next.db.outcome = db.outcome /\ next.db.recorded = db.recorded /\ db.invoices \subseteq next.db.invoices
    BY <2>9 DEF IsStore, Foreseen
  <2>12. ASSUME NEW y \in next.db.invoices
         PROVE  y \in db.invoices \/ (y.number \in after.numbers /\ y.sequence \in after.sequences /\ y.file \in after.files)
    BY <1>2, <1>4, <2>1, <2>9, <2>10 DEF Foreseen, IsChosen, InvoiceKind, ReceiptKind
  <2>13. ASSUME NEW u \in after.upcoming, u.entry \in selected PROVE \E y \in next.db.invoices : y.file = u.file
    <3>1. CASE u \in shown.upcoming
      BY <2>9, <2>13, <3>1 DEF Foreseen
    <3>2. CASE u = [file |-> e.base, entry |-> e.name]
      BY <2>9, <2>10, <3>2
    <3> QED BY <1>2, <1>4, <3>1, <3>2 DEF IsChosen, InvoiceKind, ReceiptKind
  <2>14. Foreseen(db, selected, after, next)
    BY <2>11, <2>12, <2>13 DEF Foreseen
  <2> QED BY <1>4, <2>8, <2>14
<1> QED
  BY <1>1, <1>3, <1>4 DEF IsChosen, InvoiceKind, ReceiptKind

\* What the receipts recorded so far have in common with what the preview remembers; the invoices are those stored.
Expected(db, stored, memory, now) ==
  /\ IsStore(now.db) /\ now.db.invoices = stored.invoices /\ DOMAIN db.outcome \subseteq DOMAIN now.db.outcome
  /\ now.memory.keys \subseteq memory.keys /\ now.db.recorded \subseteq db.recorded \cup memory.keys
  /\ DOMAIN now.memory.outcomes \subseteq DOMAIN memory.outcomes
  /\ \A f \in DOMAIN memory.outcomes : memory.outcomes[f] # "none"
  /\ \A f \in DOMAIN now.db.outcome : f \in DOMAIN memory.outcomes \/ (f \in DOMAIN db.outcome /\ now.db.outcome[f] = db.outcome[f])

\* The receipt is shown as new, and there is an invoice or a transmission with its file.
ShownAsNew(db, stored, upcoming, memory, d) ==
  /\ d.valid /\ match(db, memory, d) = "NEW" /\ Stored(stored, d.file)
  /\ Stored(db, d.file) \/ \E u \in upcoming : u.file = d.file

\* A receipt tells an outcome.
TellsOutcome(d) == d.kind = "SDI_RECEIPT" => d.type # "none"
IsShown(shown)  == shown = [rows |-> shown.rows, memory |-> shown.memory]
IsProgress(now) == now = [db |-> now.db, memory |-> now.memory, imported |-> now.imported]

Adds(kind, selected, e, before, after) == after = IF IsChosen(kind, selected, e) THEN before \cup {e.name} ELSE before

\* The file of a receipt takes its outcome, the other files keep theirs.
LEMMA TakingOne ==
  ASSUME NEW m, NEW d
  PROVE  DOMAIN Taking(m, d) = {d.file} \cup DOMAIN m /\ Taking(m, d)[d.file] = d.type
         /\ \A f \in DOMAIN m : f # d.file => Taking(m, d)[f] = m[f]
BY DEF Taking

\* The import of a receipt shown as new succeeds, and records nothing that the preview does not remember.
LEMMA ReceiptExpected ==
  ASSUME NEW db, NEW stored, stored.outcome = db.outcome, NEW upcoming, NEW selected, NEW shown, NEW now, NEW e, TellsOutcome(e.doc),
         IsShown(shown), IsProgress(now), Expected(db, stored, shown.memory, now),
         IsChosen(ReceiptKind, selected, e) => ShownAsNew(db, stored, upcoming, shown.memory, e.doc)
  PROVE  /\ Expected(db, stored, PreviewReceipt(db, upcoming, shown, e).memory, ImportReceipt(selected, now, e))
         /\ Adds(ReceiptKind, selected, e, now.imported, ImportReceipt(selected, now, e).imported)
<1> DEFINE d     == e.doc
           after == PreviewReceipt(db, upcoming, shown, e)
           next  == ImportReceipt(selected, now, e)
           status == match(db, shown.memory, d)
           memory == Remember(shown.memory, d, status)
<1> SUFFICES /\ Expected(db, stored, after.memory, next)
             /\ next.imported = IF IsChosen(ReceiptKind, selected, e) THEN now.imported \cup {e.name} ELSE now.imported
  BY DEF Adds
<1>1. after.memory = shown.memory \/ (d.kind = "SDI_RECEIPT" /\ after.memory = memory)
  <2>1. after = shown \/ after = [shown EXCEPT !.rows = @ \cup {Row(e, "ERROR", {})}] \/ (d.kind = "SDI_RECEIPT" /\ after.memory = memory)
    BY DEF PreviewReceipt
  <2> HIDE DEF after, memory
  <2>2. [shown EXCEPT !.rows = @ \cup {Row(e, "ERROR", {})}].memory = shown.memory
    <3>1. [[rows |-> shown.rows, memory |-> shown.memory] EXCEPT !.rows = @ \cup {Row(e, "ERROR", {})}].memory = shown.memory
      OBVIOUS
    <3> QED BY <3>1 DEF IsShown
  <2> QED BY <2>1, <2>2
<1>2. ASSUME d.kind = "SDI_RECEIPT"
      PROVE
      /\ shown.memory.keys \subseteq memory.keys /\ DOMAIN shown.memory.outcomes \subseteq DOMAIN memory.outcomes
      /\ \A f \in DOMAIN memory.outcomes : memory.outcomes[f] # "none"
      /\ d \in memory.keys /\ (status = "NEW" => d.file \in DOMAIN memory.outcomes)
  <2> HIDE DEF status
  <2>1. \A f \in DOMAIN shown.memory.outcomes : shown.memory.outcomes[f] # "none"
    BY DEF Expected
  <2>2. memory.keys = shown.memory.keys \cup {d}
        /\ memory.outcomes = IF status = "NEW" THEN Taking(shown.memory.outcomes, d) ELSE shown.memory.outcomes
    BY DEF Remember
  <2> HIDE DEF memory
  <2>3. /\ DOMAIN Taking(shown.memory.outcomes, d) = {d.file} \cup DOMAIN shown.memory.outcomes
        /\ Taking(shown.memory.outcomes, d)[d.file] = d.type
        /\ \A f \in DOMAIN shown.memory.outcomes : f # d.file => Taking(shown.memory.outcomes, d)[f] = shown.memory.outcomes[f]
    BY DEF Taking
  <2> QED BY <1>2, <2>1, <2>2, <2>3 DEF TellsOutcome
<1>3. CASE ~ IsChosen(ReceiptKind, selected, e)
  <2>1. next = now
    BY <1>3 DEF ImportReceipt, IsChosen, InvoiceKind, ReceiptKind
  <2>2. shown.memory.keys \subseteq after.memory.keys /\ DOMAIN shown.memory.outcomes \subseteq DOMAIN after.memory.outcomes
        /\ \A f \in DOMAIN after.memory.outcomes : after.memory.outcomes[f] # "none"
    <3> HIDE DEF memory, after
    <3> QED BY <1>1, <1>2 DEF Expected
  <2> HIDE DEF after, next, memory
  <2> QED BY <1>3, <2>1, <2>2 DEF Expected
<1>4. CASE IsChosen(ReceiptKind, selected, e)
  <2>1. d.valid /\ status = "NEW" /\ Stored(stored, d.file) /\ (Stored(db, d.file) \/ \E u \in upcoming : u.file = d.file)
    BY <1>4 DEF ShownAsNew
  <2>2. after.memory = memory
    <3> DEFINE carriers == {u.entry : u \in {v \in upcoming : v.file = d.file}}
    <3>1. ~ (~ d.valid \/ (~ Stored(db, d.file) /\ carriers = {}))
      BY <2>1
    <3>2. d.kind = "SDI_RECEIPT"
      BY <1>4 DEF IsChosen, InvoiceKind, ReceiptKind
    <3> QED BY <3>1, <3>2 DEF PreviewReceipt
  <2>3. d \notin shown.memory.keys /\ d \notin db.recorded /\ knownOutcome(db, shown.memory, d.file) = "none"
    BY <2>1 DEF match, decideReceipt
  <2>4. d.file \notin DOMAIN shown.memory.outcomes /\ (d.file \in DOMAIN db.outcome => db.outcome[d.file] = "none")
    BY <2>3 DEF knownOutcome, Expected, Sent
  <2>5. d \notin now.memory.keys \cup now.db.recorded
    BY <2>3 DEF Expected
  <2>6. knownOutcome(now.db, now.memory, d.file) = "none"
    BY <2>4 DEF knownOutcome, Expected, Sent
  <2>7. match(now.db, now.memory, d) = "NEW"
    BY <2>5, <2>6 DEF match, decideReceipt
  <2>8. Stored(now.db, d.file)
    BY <2>1 DEF Stored, Sent, Expected
  <2> DEFINE grown == [now.db EXCEPT !.outcome = Taking(@, d), !.recorded = @ \cup {d}]
  <2>9. next = [memory |-> Remember(now.memory, d, "NEW"), db |-> grown, imported |-> now.imported \cup {e.name}]
    BY <1>4, <2>1, <2>7, <2>8 DEF ImportReceipt, IsChosen, InvoiceKind, ReceiptKind
  <2>10. now.db = [invoices |-> now.db.invoices, outcome |-> now.db.outcome, recorded |-> now.db.recorded]
    BY DEF Expected, IsStore
  <2>11. grown = [invoices |-> now.db.invoices, outcome |-> Taking(now.db.outcome, d), recorded |-> now.db.recorded \cup {d}]
    <3>1. grown = [[invoices |-> now.db.invoices, outcome |-> now.db.outcome, recorded |-> now.db.recorded]
                     EXCEPT !.outcome = Taking(@, d), !.recorded = @ \cup {d}]
      BY <2>10
    <3> HIDE DEF grown, d
    <3> QED BY <3>1
  <2> HIDE DEF grown
  <2>12. next.memory.keys = now.memory.keys \cup {d} /\ next.memory.outcomes = Taking(now.memory.outcomes, d)
         /\ next.db = grown /\ next.imported = now.imported \cup {e.name}
    <3> HIDE DEF next
    <3> QED BY <2>9 DEF Remember
  <2>13. memory.keys = shown.memory.keys \cup {d} /\ memory.outcomes = Taking(shown.memory.outcomes, d)
    BY <2>1 DEF Remember
  <2>0. \A f \in DOMAIN memory.outcomes : memory.outcomes[f] # "none"
    BY <1>2, <1>4 DEF IsChosen, ReceiptKind
  <2> HIDE DEF after, next, memory, status
  <2>14. IsStore(next.db) /\ next.db.invoices = stored.invoices /\ next.db.recorded = now.db.recorded \cup {d}
         /\ next.db.outcome = Taking(now.db.outcome, d)
    BY <2>11, <2>12 DEF IsStore, Expected
  <2> HIDE DEF d
  <2>a. DOMAIN next.db.outcome = {d.file} \cup DOMAIN now.db.outcome
        /\ \A f \in DOMAIN now.db.outcome : f # d.file => next.db.outcome[f] = now.db.outcome[f]
    <3>1. DOMAIN Taking(now.db.outcome, d) = {d.file} \cup DOMAIN now.db.outcome
          /\ \A f \in DOMAIN now.db.outcome : f # d.file => Taking(now.db.outcome, d)[f] = now.db.outcome[f]
      BY TakingOne
    <3> QED BY <2>14, <3>1
  <2>b. DOMAIN next.memory.outcomes = {d.file} \cup DOMAIN now.memory.outcomes
    BY <2>12, TakingOne
  <2>c. DOMAIN memory.outcomes = {d.file} \cup DOMAIN shown.memory.outcomes
    BY <2>13, TakingOne
  <2>15. DOMAIN db.outcome \subseteq DOMAIN next.db.outcome /\ DOMAIN next.memory.outcomes \subseteq DOMAIN memory.outcomes
    BY <2>a, <2>b, <2>c DEF Expected
  <2>16. ASSUME NEW f \in DOMAIN next.db.outcome
         PROVE  f \in DOMAIN memory.outcomes \/ (f \in DOMAIN db.outcome /\ next.db.outcome[f] = db.outcome[f])
    BY <2>16, <2>a, <2>c DEF Expected
  <2>17. next.memory.keys \subseteq memory.keys /\ next.db.recorded \subseteq db.recorded \cup memory.keys
    BY <2>12, <2>13, <2>14 DEF Expected
  <2>18. Expected(db, stored, memory, next)
    BY <2>0, <2>14, <2>15, <2>16, <2>17 DEF Expected
  <2> QED BY <1>4, <2>2, <2>12, <2>18
<1> QED
  BY <1>3, <1>4

-----------------------------------------------------------------------------
(* Upload after upload: the rows shown, and what is imported of them *)

InvoiceRow(db, h, entries, i, r) ==
  entries[i].doc.kind = "INVOICE" /\ r = Row(entries[i], PreviewStatus(h[i - 1], entries[i], check(db, entries[i])), {})

\* The rows of the invoices are those of the entries, each with its status.
LEMMA InvoiceRows ==
  ASSUME NEW db, NEW E, NEW entries \in Seq(E), NEW A, NEW h, PreviewedOneByOne(h, db, entries, A)
  PROVE  /\ \A r \in previewInvoices(db, entries).rows : \E i \in 1..Len(entries) : InvoiceRow(db, h, entries, i, r)
         /\ \A i \in 1..Len(entries) : entries[i].doc.kind = "INVOICE" =>
              \E r \in previewInvoices(db, entries).rows : r.name = entries[i].name
<1> PICK n \in Nat : n = Len(entries)
  BY LenProperties
<1>1. h[0] = NothingShown /\ h[n] = previewInvoices(db, entries)
      /\ \A k \in 0..(n - 1) : h[k + 1] = PreviewInvoice(db, h[k], entries[k + 1])
  BY DEF PreviewedOneByOne
<1> DEFINE Good(k) == /\ \A r \in h[k].rows : \E i \in 1..k : InvoiceRow(db, h, entries, i, r)
                      /\ \A i \in 1..k : entries[i].doc.kind = "INVOICE" => \E r \in h[k].rows : r.name = entries[i].name
           K == {k \in 0..n : Good(k)}
<1>2. 0 \in K
  <2>1. 1..0 = {} /\ h[0].rows = {}
    BY <1>1 DEF NothingShown
  <2> QED BY <2>1
<1>3. ASSUME NEW k \in 0..(n - 1), k \in K PROVE k + 1 \in K
  <2>1. Good(k) /\ 1..(k + 1) = (1..k) \cup {k + 1} /\ (k + 1) - 1 = k
    BY <1>3
  <2> DEFINE e == entries[k + 1]
             r0 == Row(e, PreviewStatus(h[k], e, check(db, e)), {})
  <2>2. h[k + 1].rows = (IF e.doc.kind = "INVOICE" THEN h[k].rows \cup {r0} ELSE h[k].rows)
    <3>1. h[k + 1] = PreviewInvoice(db, h[k], e)
      BY <1>1
    <3>2. e.doc.kind # "INVOICE" => PreviewInvoice(db, h[k], e) = h[k]
      BY DEF PreviewInvoice
    <3>3. e.doc.kind = "INVOICE" => PreviewInvoice(db, h[k], e).rows = h[k].rows \cup {r0}
      BY DEF PreviewInvoice
    <3> HIDE DEF r0
    <3> QED BY <3>1, <3>2, <3>3
  <2>3. r0.name = e.name
    BY DEF Row
  <2>4. e.doc.kind = "INVOICE" => InvoiceRow(db, h, entries, k + 1, r0)
    BY <2>1 DEF InvoiceRow
  <2> HIDE DEF r0
  <2>5. Good(k + 1)
    BY <2>1, <2>2, <2>3, <2>4
  <2> QED
    <3> HIDE DEF Good
    <3> QED BY <2>5
<1>4. \A k \in 0..n : k \in K
  <2> HIDE DEF K
  <2> QED BY <1>2, <1>3, UpwardsTo
<1> QED
  BY <1>1, <1>4

Carriers(upcoming, f) == {u.entry : u \in {v \in upcoming : v.file = f}}

ReceiptRow(db, upcoming, h, entries, i, r) ==
  LET d == entries[i].doc
  IN /\ d.kind = "SDI_RECEIPT"
     /\ IF ~ d.valid \/ (~ Stored(db, d.file) /\ Carriers(upcoming, d.file) = {}) THEN r = Row(entries[i], "ERROR", {})
        ELSE r = Row(entries[i], match(db, h[i - 1].memory, d), IF Stored(db, d.file) THEN {} ELSE Carriers(upcoming, d.file))

\* Every document of a kind has a row.
AllShown(kind, entries, rows) ==
  \A i \in 1..Len(entries) : entries[i].doc.kind = kind => \E r \in rows : r.name = entries[i].name

\* The rows of the receipts are those of the entries, each with its status.
LEMMA ReceiptRowsShown ==
  ASSUME NEW db, NEW E, NEW entries \in Seq(E), NEW upcoming, NEW h, ReceiptsPreviewedOneByOne(h, db, entries, upcoming, ReceiptsShownOf(upcoming, E))
  PROVE  /\ \A r \in previewReceipts(db, entries, upcoming).rows : \E i \in 1..Len(entries) : ReceiptRow(db, upcoming, h, entries, i, r)
         /\ AllShown("SDI_RECEIPT", entries, previewReceipts(db, entries, upcoming).rows)
<1> PICK n \in Nat : n = Len(entries)
  BY LenProperties
<1>1. h[0] = [rows |-> {}, memory |-> NoMemory] /\ h[n] = previewReceipts(db, entries, upcoming)
      /\ (\A k \in 0..(n - 1) : h[k + 1] = PreviewReceipt(db, upcoming, h[k], entries[k + 1]))
      /\ \A k \in 0..n : h[k] \in ReceiptsShownOf(upcoming, E)
  BY DEF ReceiptsPreviewedOneByOne
<1> DEFINE Good(k) == /\ \A r \in h[k].rows : \E i \in 1..k : ReceiptRow(db, upcoming, h, entries, i, r)
                      /\ \A i \in 1..k : entries[i].doc.kind = "SDI_RECEIPT" => \E r \in h[k].rows : r.name = entries[i].name
           K == {k \in 0..n : Good(k)}
<1>2. 0 \in K
  <2>1. 1..0 = {} /\ h[0].rows = {}
    BY <1>1
  <2> QED BY <2>1
<1>3. ASSUME NEW k \in 0..(n - 1), k \in K PROVE k + 1 \in K
  <2>1. Good(k) /\ 1..(k + 1) = (1..k) \cup {k + 1} /\ (k + 1) - 1 = k
    BY <1>3
  <2> DEFINE e == entries[k + 1]
             d == e.doc
             wrong == ~ d.valid \/ (~ Stored(db, d.file) /\ Carriers(upcoming, d.file) = {})
             r0 == IF wrong THEN Row(e, "ERROR", {})
                   ELSE Row(e, match(db, h[k].memory, d), IF Stored(db, d.file) THEN {} ELSE Carriers(upcoming, d.file))
  <2>2. h[k + 1].rows = (IF d.kind = "SDI_RECEIPT" THEN h[k].rows \cup {r0} ELSE h[k].rows)
    <3>1. h[k + 1] = PreviewReceipt(db, upcoming, h[k], e)
      BY <1>1
    <3>2. d.kind # "SDI_RECEIPT" => PreviewReceipt(db, upcoming, h[k], e) = h[k]
      BY DEF PreviewReceipt
    <3>3. d.kind = "SDI_RECEIPT" /\ wrong => PreviewReceipt(db, upcoming, h[k], e) = [h[k] EXCEPT !.rows = @ \cup {r0}]
      BY DEF PreviewReceipt, Carriers
    <3>4. d.kind = "SDI_RECEIPT" /\ ~ wrong => PreviewReceipt(db, upcoming, h[k], e).rows = h[k].rows \cup {r0}
      BY DEF PreviewReceipt, Carriers
    <3>5. h[k] \in ReceiptsShownOf(upcoming, E)
      BY <1>1
    <3> HIDE DEF r0, wrong
    <3>6. [h[k] EXCEPT !.rows = @ \cup {r0}].rows = h[k].rows \cup {r0}
      BY <3>5 DEF ReceiptsShownOf
    <3> QED BY <3>1, <3>2, <3>3, <3>4, <3>6
  <2>3. r0.name = e.name
    BY DEF Row
  <2>4. d.kind = "SDI_RECEIPT" => ReceiptRow(db, upcoming, h, entries, k + 1, r0)
    BY <2>1 DEF ReceiptRow
  <2> HIDE DEF r0
  <2>5. Good(k + 1)
    BY <2>1, <2>2, <2>3, <2>4
  <2> QED
    <3> HIDE DEF Good
    <3> QED BY <2>5
<1>4. \A k \in 0..n : k \in K
  <2> HIDE DEF K
  <2> QED BY <1>2, <1>3, UpwardsTo
<1> QED
  BY <1>1, <1>4 DEF AllShown

ChosenUpTo(kind, selected, entries, k) == {entries[i].name : i \in {j \in 1..k : IsChosen(kind, selected, entries[j])}}

\* The names chosen up to the next entry.
LEMMA ChosenNext ==
  ASSUME NEW kind, NEW selected, NEW entries, NEW k \in Nat
  PROVE  /\ ChosenUpTo(kind, selected, entries, 0) = {}
         /\ ChosenUpTo(kind, selected, entries, k + 1)
              = IF IsChosen(kind, selected, entries[k + 1]) THEN ChosenUpTo(kind, selected, entries, k) \cup {entries[k + 1].name}
                ELSE ChosenUpTo(kind, selected, entries, k)
<1>1. 1..0 = {} /\ 1..(k + 1) = (1..k) \cup {k + 1}
  OBVIOUS
<1> QED
  BY <1>1 DEF ChosenUpTo

OutcomesKnown(E) == \A e \in E : TellsOutcome(e.doc)

\* A sequence of so many entries, and no more said of it.
IsUpload(entries, n, E) == entries \in Seq(E) /\ n = Len(entries)

\* What is chosen was shown as new.
InvoicesShownAsNew(db, selected, h, entries) ==
  \A i \in 1..Len(entries) : IsChosen(InvoiceKind, selected, entries[i]) => PreviewStatus(h[i - 1], entries[i], check(db, entries[i])) = "NEW"
ReceiptsShownAsNew(db, stored, upcoming, selected, h, entries) ==
  \A i \in 1..Len(entries) :
    IsChosen(ReceiptKind, selected, entries[i]) => ShownAsNew(db, stored, upcoming, h[i - 1].memory, entries[i].doc)

\* Of the invoices exactly the ones chosen are imported.
LEMMA InvoicesImported ==
  ASSUME NEW db, IsStore(db), NEW E, NEW entries, NEW n \in Nat, IsUpload(entries, n, E), NEW selected, NEW A, NEW h, PreviewedOneByOne(h, db, entries, A),
         InvoicesShownAsNew(db, selected, h, entries)
  PROVE  /\ Foreseen(db, selected, previewInvoices(db, entries), importInvoices(db, entries, selected))
         /\ importInvoices(db, entries, selected).imported = ChosenUpTo(InvoiceKind, selected, entries, n)
<1>1. h[0] = NothingShown /\ h[n] = previewInvoices(db, entries)
      /\ \A k \in 0..(n - 1) : h[k + 1] = PreviewInvoice(db, h[k], entries[k + 1])
  BY DEF PreviewedOneByOne, IsUpload
<1>a. PICK g : ImportedOneByOne(g, db, entries, selected, ImportedOf(db, E))
  BY ImportSteps DEF IsUpload
<1>2. g[0] = [db |-> db, imported |-> {}] /\ g[n] = importInvoices(db, entries, selected)
      /\ \A k \in 0..(n - 1) : g[k + 1] = ImportInvoice(selected, g[k], entries[k + 1])
  BY <1>a DEF ImportedOneByOne, IsUpload
<1> DEFINE Good(k) == Foreseen(db, selected, h[k], g[k]) /\ g[k].imported = ChosenUpTo(InvoiceKind, selected, entries, k)
           K == {k \in 0..n : Good(k)}
<1>3. 0 \in K
  <2>1. g[0].db = db /\ g[0].imported = {}
    BY <1>2
  <2>2. h[0].upcoming = {}
    BY <1>1 DEF NothingShown
  <2>3. Foreseen(db, selected, h[0], g[0])
    BY <2>1, <2>2 DEF Foreseen
  <2>4. ChosenUpTo(InvoiceKind, selected, entries, 0) = {}
    BY ChosenNext
  <2> QED BY <2>1, <2>3, <2>4
<1>4. ASSUME NEW k \in 0..(n - 1), k \in K PROVE k + 1 \in K
  <2>1. Good(k) /\ k + 1 \in 1..n /\ (k + 1) - 1 = k /\ k \in Nat
    BY <1>4
  <2> DEFINE e == entries[k + 1]
  <2>2. IsChosen(InvoiceKind, selected, e) => PreviewStatus(h[k], e, check(db, e)) = "NEW"
    BY <2>1 DEF InvoicesShownAsNew, IsUpload
  <2> HIDE DEF e
  <2>3. /\ Foreseen(db, selected, PreviewInvoice(db, h[k], e), ImportInvoice(selected, g[k], e))
        /\ ImportInvoice(selected, g[k], e).imported
             = IF IsChosen(InvoiceKind, selected, e) THEN g[k].imported \cup {e.name} ELSE g[k].imported
    <3>1. Foreseen(db, selected, h[k], g[k])
      BY <2>1
    <3> HIDE DEF Good
    <3> QED BY <2>2, <3>1, InvoiceForeseen
  <2>a. ChosenUpTo(InvoiceKind, selected, entries, k + 1)
           = IF IsChosen(InvoiceKind, selected, e) THEN ChosenUpTo(InvoiceKind, selected, entries, k) \cup {e.name}
             ELSE ChosenUpTo(InvoiceKind, selected, entries, k)
    BY <2>1, ChosenNext DEF e
  <2>4. Good(k + 1)
    BY <1>1, <1>2, <2>1, <2>3, <2>a DEF e
  <2> QED
    <3> HIDE DEF Good
    <3> QED BY <2>4
<1>5. \A k \in 0..n : k \in K
  <2> HIDE DEF K
  <2> QED BY <1>3, <1>4, UpwardsTo
<1> QED
  BY <1>1, <1>2, <1>5

\* Of the receipts exactly the ones chosen are imported, when the invoices they require are.
LEMMA ReceiptsImported ==
  ASSUME NEW db, NEW stored, IsStore(db), IsStore(stored), stored.outcome = db.outcome, stored.recorded = db.recorded,
         NEW E, NEW entries, NEW n \in Nat, IsUpload(entries, n, E), OutcomesKnown(E), NEW upcoming, NEW selected,
         NEW h, ReceiptsPreviewedOneByOne(h, db, entries, upcoming, ReceiptsShownOf(upcoming, E)),
         ReceiptsShownAsNew(db, stored, upcoming, selected, h, entries)
  PROVE  importReceipts(stored, entries, selected).imported = ChosenUpTo(ReceiptKind, selected, entries, n)
<1>0. \A i \in 1..n : entries[i] \in E
  BY ElementOfSeq, LenProperties DEF IsUpload
<1>1. h[0] = [rows |-> {}, memory |-> NoMemory] /\ h[n] = previewReceipts(db, entries, upcoming)
      /\ (\A k \in 0..(n - 1) : h[k + 1] = PreviewReceipt(db, upcoming, h[k], entries[k + 1]))
      /\ \A k \in 0..n : h[k] \in ReceiptsShownOf(upcoming, E)
  BY DEF ReceiptsPreviewedOneByOne, IsUpload
<1>a. PICK g : ReceiptsImportedOneByOne(g, stored, entries, selected, ReceiptsImportedOf(stored, E))
  BY ReceiptImportSteps DEF IsUpload
<1>2. g[0] = [db |-> stored, memory |-> NoMemory, imported |-> {}] /\ g[n] = importReceipts(stored, entries, selected)
      /\ (\A k \in 0..(n - 1) : g[k + 1] = ImportReceipt(selected, g[k], entries[k + 1]))
      /\ \A k \in 0..n : g[k] \in ReceiptsImportedOf(stored, E)
  BY <1>a DEF ReceiptsImportedOneByOne, IsUpload
<1> DEFINE Good(k) == Expected(db, stored, h[k].memory, g[k]) /\ g[k].imported = ChosenUpTo(ReceiptKind, selected, entries, k)
           K == {k \in 0..n : Good(k)}
<1>3. 0 \in K
  <2>1. g[0].db = stored /\ g[0].memory = NoMemory /\ g[0].imported = {} /\ h[0].memory = NoMemory
    BY <1>1, <1>2
  <2>2. DOMAIN NoMemory.outcomes = {} /\ NoMemory.keys = {}
    BY NothingRemembered DEF NoMemory
  <2>3. Expected(db, stored, h[0].memory, g[0])
    BY <2>1, <2>2 DEF Expected
  <2>4. ChosenUpTo(ReceiptKind, selected, entries, 0) = {}
    BY ChosenNext
  <2> QED BY <2>1, <2>3, <2>4
<1>4. ASSUME NEW k \in 0..(n - 1), k \in K PROVE k + 1 \in K
  <2>1. Good(k) /\ k + 1 \in 1..n /\ (k + 1) - 1 = k /\ k \in Nat
    BY <1>4
  <2> DEFINE e == entries[k + 1]
  <2>2. IsChosen(ReceiptKind, selected, e) => ShownAsNew(db, stored, upcoming, h[k].memory, e.doc)
    BY <2>1 DEF ReceiptsShownAsNew, IsUpload
  <2>3. TellsOutcome(e.doc)
    BY <1>0, <2>1 DEF OutcomesKnown
  <2>4. IsShown(h[k])
    BY <1>1 DEF ReceiptsShownOf, IsShown
  <2>5. IsProgress(g[k])
    BY <1>2 DEF ReceiptsImportedOf, IsProgress
  <2> HIDE DEF e
  <2>6. /\ Expected(db, stored, PreviewReceipt(db, upcoming, h[k], e).memory, ImportReceipt(selected, g[k], e))
        /\ ImportReceipt(selected, g[k], e).imported
             = IF IsChosen(ReceiptKind, selected, e) THEN g[k].imported \cup {e.name} ELSE g[k].imported
    <3>1. PICK shown, now : shown = h[k] /\ now = g[k]
      OBVIOUS
    <3>2. Expected(db, stored, shown.memory, now) /\ IsShown(shown) /\ IsProgress(now) /\ TellsOutcome(e.doc)
          /\ (IsChosen(ReceiptKind, selected, e) => ShownAsNew(db, stored, upcoming, shown.memory, e.doc))
      BY <2>1, <2>2, <2>3, <2>4, <2>5, <3>1
    <3>3. /\ Expected(db, stored, PreviewReceipt(db, upcoming, shown, e).memory, ImportReceipt(selected, now, e))
          /\ Adds(ReceiptKind, selected, e, now.imported, ImportReceipt(selected, now, e).imported)
      BY ONLY stored.outcome = db.outcome, <3>2, ReceiptExpected
    <3> HIDE DEF K, Good
    <3> QED BY <3>1, <3>3 DEF Adds
  <2>a. ChosenUpTo(ReceiptKind, selected, entries, k + 1)
           = IF IsChosen(ReceiptKind, selected, e) THEN ChosenUpTo(ReceiptKind, selected, entries, k) \cup {e.name}
             ELSE ChosenUpTo(ReceiptKind, selected, entries, k)
    BY <2>1, ChosenNext DEF e
  <2>7. Good(k + 1)
    BY <1>1, <1>2, <2>1, <2>6, <2>a DEF e
  <2> QED
    <3> HIDE DEF Good
    <3> QED BY <2>7
<1>5. \A k \in 0..n : k \in K
  <2> HIDE DEF K
  <2> QED BY <1>3, <1>4, UpwardsTo
<1> QED
  BY <1>2, <1>5

NewReceipt(db, upcoming, memory, d, requires) ==
  /\ d.valid /\ match(db, memory, d) = "NEW"
  /\ Stored(db, d.file) \/ (requires = Carriers(upcoming, d.file) /\ requires # {})

\* What is selected of the rows shown as new is imported, and nothing else.
LEMMA ChosenImported ==
  ASSUME NEW db, IsStore(db), NEW E, OutcomesKnown(E), NEW entries, NEW n \in Nat, IsUpload(entries, n, E), NamesApart(entries), NEW t, NEW s,
         s = {r.name : r \in t}, \A r \in t : r.status = "NEW" /\ r.requires \subseteq s,
         t \subseteq previewInvoices(db, entries).rows \cup previewReceipts(db, entries, previewInvoices(db, entries).upcoming).rows
  PROVE  importInvoices(db, entries, s).imported \cup importReceipts(importInvoices(db, entries, s).db, entries, s).imported = s
<1> DEFINE upcoming == previewInvoices(db, entries).upcoming
           stored == importInvoices(db, entries, s).db
<1>1. \A i, j \in 1..n : entries[i].name = entries[j].name => i = j
  BY LenProperties DEF IsUpload, NamesApart
<1>2. PICK h : PreviewedOneByOne(h, db, entries, ShownOf(E))
  BY PreviewSteps DEF IsUpload
<1>3. PICK g : ReceiptsPreviewedOneByOne(g, db, entries, upcoming, ReceiptsShownOf(upcoming, E))
  BY ReceiptPreviewSteps DEF IsUpload
<1>4. \A r \in previewInvoices(db, entries).rows : \E i \in 1..n : InvoiceRow(db, h, entries, i, r)
  BY <1>2, InvoiceRows DEF IsUpload
<1>5. \A r \in previewReceipts(db, entries, upcoming).rows : \E i \in 1..n : ReceiptRow(db, upcoming, g, entries, i, r)
  <2> HIDE DEF upcoming
  <2> QED BY <1>3, ReceiptRowsShown DEF IsUpload
<1>6. ASSUME NEW r \in t PROVE \E i \in 1..n : InvoiceRow(db, h, entries, i, r) \/ ReceiptRow(db, upcoming, g, entries, i, r)
  BY <1>4, <1>5
<1>7. \A r : \A i \in 1..n : InvoiceRow(db, h, entries, i, r) =>
        r.name = entries[i].name /\ entries[i].doc.kind = "INVOICE" /\ r.status = PreviewStatus(h[i - 1], entries[i], check(db, entries[i]))
  BY DEF InvoiceRow, Row
<1>8. ASSUME NEW i \in 1..n, NEW r, ReceiptRow(db, upcoming, g, entries, i, r)
      PROVE  /\ r.name = entries[i].name /\ entries[i].doc.kind = "SDI_RECEIPT"
             /\ r.status = "NEW" => NewReceipt(db, upcoming, g[i - 1].memory, entries[i].doc, r.requires)
  <2> DEFINE d == entries[i].doc
             wrong == ~ d.valid \/ (~ Stored(db, d.file) /\ Carriers(upcoming, d.file) = {})
             status == match(db, g[i - 1].memory, d)
  <2>1. CASE wrong
    <3>1. r = Row(entries[i], "ERROR", {}) /\ d.kind = "SDI_RECEIPT"
      BY <1>8, <2>1 DEF ReceiptRow
    <3>2. r.name = entries[i].name /\ r.status = "ERROR"
      BY <3>1 DEF Row
    <3> QED BY <3>1, <3>2
  <2>2. CASE ~ wrong
    <3> DEFINE requires == IF Stored(db, d.file) THEN {} ELSE Carriers(upcoming, d.file)
    <3>1. r = Row(entries[i], status, requires) /\ d.kind = "SDI_RECEIPT"
      BY <1>8, <2>2 DEF ReceiptRow
    <3>2. r.name = entries[i].name /\ r.status = status /\ r.requires = requires
      <4> HIDE DEF status, requires
      <4> QED BY <3>1 DEF Row
    <3>3. status = "NEW" => NewReceipt(db, upcoming, g[i - 1].memory, d, r.requires)
      BY <2>2, <3>2 DEF NewReceipt
    <3> HIDE DEF status
    <3> QED BY <3>1, <3>2, <3>3
  <2> QED BY <2>1, <2>2
<1>9. ASSUME NEW i \in 1..n, entries[i].name \in s
      PROVE  \E r \in t : InvoiceRow(db, h, entries, i, r) \/ ReceiptRow(db, upcoming, g, entries, i, r)
  <2>1. PICK r \in t : r.name = entries[i].name
    BY <1>9
  <2>2. PICK j \in 1..n : InvoiceRow(db, h, entries, j, r) \/ ReceiptRow(db, upcoming, g, entries, j, r)
    BY <1>6
  <2>3. r.name = entries[j].name
    BY <1>7, <1>8, <2>2
  <2> QED BY <1>1, <2>1, <2>2, <2>3
<1>10. InvoicesShownAsNew(db, s, h, entries)
  <2>1. SUFFICES ASSUME NEW i \in 1..n, IsChosen(InvoiceKind, s, entries[i])
                 PROVE  PreviewStatus(h[i - 1], entries[i], check(db, entries[i])) = "NEW"
    BY DEF InvoicesShownAsNew, IsUpload
  <2>2. entries[i].doc.kind = "INVOICE" /\ entries[i].name \in s
    BY <2>1 DEF IsChosen, InvoiceKind
  <2>3. PICK r \in t : InvoiceRow(db, h, entries, i, r)
    BY <1>8, <1>9, <2>2
  <2> QED BY <1>7, <2>3
<1>11. /\ Foreseen(db, s, previewInvoices(db, entries), importInvoices(db, entries, s))
       /\ importInvoices(db, entries, s).imported = ChosenUpTo(InvoiceKind, s, entries, n)
  BY <1>2, <1>10, InvoicesImported
<1>12. IsStore(stored) /\ stored.outcome = db.outcome /\ stored.recorded = db.recorded
       /\ (\A f : Stored(db, f) => Stored(stored, f))
       /\ \A u \in upcoming : u.entry \in s => Stored(stored, u.file)
  BY <1>11 DEF Foreseen, Stored, Sent
<1>13. ReceiptsShownAsNew(db, stored, upcoming, s, g, entries)
  <2> HIDE DEF stored, upcoming
  <2>1. SUFFICES ASSUME NEW i \in 1..n, IsChosen(ReceiptKind, s, entries[i])
                 PROVE  ShownAsNew(db, stored, upcoming, g[i - 1].memory, entries[i].doc)
    BY DEF ReceiptsShownAsNew, IsUpload
  <2> DEFINE d == entries[i].doc
  <2>2. d.kind = "SDI_RECEIPT" /\ entries[i].name \in s
    BY <2>1 DEF IsChosen, ReceiptKind
  <2>3. PICK r \in t : ReceiptRow(db, upcoming, g, entries, i, r)
    BY <1>7, <1>9, <2>2
  <2>4. r.status = "NEW" /\ r.requires \subseteq s
    OBVIOUS
  <2>5. NewReceipt(db, upcoming, g[i - 1].memory, d, r.requires)
    BY <1>8, <2>3, <2>4
  <2>8. ASSUME ~ Stored(db, d.file) PROVE \E u \in upcoming : u.file = d.file /\ u.entry \in s
    BY <2>4, <2>5, <2>8 DEF NewReceipt, Carriers
  <2>9. Stored(stored, d.file)
    BY <1>12, <2>8
  <2> QED BY <2>5, <2>8, <2>9 DEF ShownAsNew, NewReceipt
<1>14. importReceipts(stored, entries, s).imported = ChosenUpTo(ReceiptKind, s, entries, n)
  <2> HIDE DEF stored, upcoming
  <2> QED BY <1>3, <1>12, <1>13, ReceiptsImported
<1>15. ChosenUpTo(InvoiceKind, s, entries, n) \cup ChosenUpTo(ReceiptKind, s, entries, n) = s
  <2>1. ASSUME NEW x \in s PROVE x \in ChosenUpTo(InvoiceKind, s, entries, n) \cup ChosenUpTo(ReceiptKind, s, entries, n)
    <3>1. PICK r \in t : x = r.name
      OBVIOUS
    <3>2. PICK i \in 1..n : InvoiceRow(db, h, entries, i, r) \/ ReceiptRow(db, upcoming, g, entries, i, r)
      BY <1>6
    <3>3. x = entries[i].name /\ entries[i].doc.kind \in {"INVOICE", "SDI_RECEIPT"}
      BY <1>7, <1>8, <3>1, <3>2
    <3> QED BY <3>3 DEF ChosenUpTo, IsChosen, InvoiceKind, ReceiptKind
  <2>2. ChosenUpTo(InvoiceKind, s, entries, n) \cup ChosenUpTo(ReceiptKind, s, entries, n) \subseteq s
    BY DEF ChosenUpTo, IsChosen
  <2> QED BY <2>1, <2>2
<1> QED
  BY <1>11, <1>14, <1>15

\* What the preview shows as new is what the import stores, whichever rows are selected; nothing uploaded vanishes and many
\* archives together stay within the limits: for any database and any upload whose files, and the entries of each, names tell
\* apart (preview, importFiles, extractXmlEntries).
THEOREM PreviewKept ==
  ASSUME NEW q, IsStore(q.db), NEW E, NEW N, FilesOK(q.files, E, N), OutcomesKnown(E)
  PROVE  ImportAsShownFor(q)
<1> DEFINE upload   == extractXmlEntries(q.files)
           entries  == upload.entries
           invoices == previewInvoices(q.db, entries)
           receipts == previewReceipts(q.db, entries, invoices.upcoming)
           others   == {e \in ToSet(entries) : e.doc.kind \notin {"INVOICE", "SDI_RECEIPT"}}
           ignored  == upload.ignored \cup {e.name : e \in others}
           rows     == preview(q.db, q.files)
           named    == {r.name : r \in rows}
<1>1. upload \in Extracts(E, N) /\ ExtractedOn(q.files, Len(q.files), upload)
  BY ExtractedAll
<1> HIDE DEF upload
<1>2. entries \in Seq(E) /\ NamesApart(entries) /\ Counted(upload)
  BY <1>1 DEF Extracts, ExtractedOn
<1> HIDE DEF entries
<1>3. PICK n \in Nat : IsUpload(entries, n, E)
  BY <1>2, LenProperties DEF IsUpload
<1>4. rows = invoices.rows \cup receipts.rows \cup {[name |-> x, status |-> "IGNORED", requires |-> {}] : x \in ignored}
  BY DEF preview, upload, entries
<1> HIDE DEF rows, invoices, receipts, others
<1>5. ASSUME NEW s \in Selections(rows) PROVE importFiles(q.db, q.files, s) = s
  <2> DEFINE new == {r \in rows : r.status = "NEW"}
  <2>1. PICK t \in SUBSET new : s = {r.name : r \in t} /\ \A r \in t : r.requires \subseteq s
    BY DEF Selections
  <2>2. t \subseteq invoices.rows \cup receipts.rows /\ \A r \in t : r.status = "NEW" /\ r.requires \subseteq s
    <3>1. \A x \in {[name |-> y, status |-> "IGNORED", requires |-> {}] : y \in ignored} : x.status # "NEW"
      <4> HIDE DEF ignored
      <4> QED OBVIOUS
    <3> HIDE DEF ignored
    <3> QED BY <1>4, <2>1, <3>1
  <2>3. importInvoices(q.db, entries, s).imported \cup importReceipts(importInvoices(q.db, entries, s).db, entries, s).imported = s
    BY <1>2, <1>3, <2>1, <2>2, ChosenImported DEF invoices, receipts
  <2> QED BY <2>3 DEF importFiles, entries, upload
<1>6. \A x \in ignored : x \in named
  <2>1. \A x \in ignored : [name |-> x, status |-> "IGNORED", requires |-> {}] \in rows
    BY <1>4
  <2> HIDE DEF ignored
  <2>2. \A x : [name |-> x, status |-> "IGNORED", requires |-> {}].name = x
    OBVIOUS
  <2> QED BY <2>1, <2>2
<1>7. ASSUME NEW i \in 1..n PROVE entries[i].name \in named
  <2> DEFINE e == entries[i]
  <2>0. \A r \in invoices.rows \cup receipts.rows : r.name \in named
    BY <1>4
  <2>1. CASE e.doc.kind = "INVOICE"
    <3>1. PICK h : PreviewedOneByOne(h, q.db, entries, ShownOf(E))
      BY <1>3, PreviewSteps DEF IsUpload
    <3>2. \E r \in invoices.rows : r.name = e.name
      BY <1>3, <2>1, <3>1, InvoiceRows DEF IsUpload, invoices
    <3> QED BY <2>0, <3>2
  <2>2. CASE e.doc.kind = "SDI_RECEIPT"
    <3>1. PICK h : ReceiptsPreviewedOneByOne(h, q.db, entries, invoices.upcoming, ReceiptsShownOf(invoices.upcoming, E))
      BY <1>3, ReceiptPreviewSteps DEF IsUpload
    <3>2. AllShown("SDI_RECEIPT", entries, receipts.rows)
      <4> DEFINE upcoming == invoices.upcoming
      <4> HIDE DEF upcoming
      <4>1. ReceiptsPreviewedOneByOne(h, q.db, entries, upcoming, ReceiptsShownOf(upcoming, E)) /\ entries \in Seq(E)
        BY <1>3, <3>1 DEF IsUpload, upcoming
      <4>2. AllShown("SDI_RECEIPT", entries, previewReceipts(q.db, entries, upcoming).rows)
        BY <4>1, ReceiptRowsShown
      <4> QED BY <4>2 DEF upcoming, receipts
    <3>3. \E r \in receipts.rows : r.name = e.name
      BY <1>3, <2>2, <3>2 DEF AllShown, IsUpload
    <3> QED BY <2>0, <3>3
  <2>3. CASE e.doc.kind \notin {"INVOICE", "SDI_RECEIPT"}
    <3>1. e \in others
      BY <1>3, <2>3, LenProperties DEF others, ToSet, IsUpload
    <3> QED BY <1>6, <3>1
  <2> QED BY <2>1, <2>2, <2>3
<1>8. ASSUME NEW f \in ToSet(q.files) PROVE f.name \in named \/ \A e \in ToSet(f.entries) : e.name \in named
  <2>1. PICK j \in 1..Len(q.files) : f = q.files[j]
    BY LenProperties DEF ToSet, FilesOK
  <2>2. f.name \in upload.ignored \/ NamesOf(f.entries) \subseteq upload.ignored \cup NamesOf(entries)
    BY <1>1, <2>1 DEF ExtractedOn, entries
  <2>3. \A x \in NamesOf(entries) : x \in named
    BY <1>3, <1>7, LenProperties DEF NamesOf, ItemsOf, IsUpload
  <2>4. \A e \in ToSet(f.entries) : e.name \in NamesOf(f.entries)
    BY DEF ToSet, NamesOf, ItemsOf
  <2>5. upload.ignored \subseteq named
    BY <1>6
  <2> HIDE DEF named, ignored
  <2> QED BY <2>2, <2>3, <2>4, <2>5
<1>9. Len(entries) <= MAX_ARCHIVE_ENTRIES /\ SumFunctionOnSet([k \in DOMAIN entries |-> entries[k].size], DOMAIN entries) <= MAX_ARCHIVE_EXTRACTED_BYTES
  BY <1>2 DEF Counted, SizeOf, entries
<1> QED
  BY <1>5, <1>8, <1>9 DEF ImportAsShownFor, rows, entries, upload
================================================================================
