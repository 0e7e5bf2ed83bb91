---------------------------- MODULE Parts_proofs -----------------------------
(***************************************************************************)
(* Proofs about the small parts: the pulse counter, what the Modbus and    *)
(* the ADC driver make of their configurations, whatever the files hold,   *)
(* and the names of controls in the cloud, whatever their bytes.           *)
(***************************************************************************)
EXTENDS GpioCounter, Parts, SequenceTheorems, WellFoundedInduction, TLAPS

Seqs == INSTANCE SequencesExt

-----------------------------------------------------------------------------
(***************************************************************************)
(* Induction, and sequences put one behind the other.                      *)
(***************************************************************************)

\* The naturals are well-founded, in sets.
LEMMA LeastNumber ==
  ASSUME NEW S \in SUBSET Nat, S # {}
  PROVE  \E x \in S : \A y \in S : x <= y
<1>1. PICK x \in S : \A y \in S : <<y, x>> \notin OpToRel(<, Nat)
  BY NatLessThanWellFounded, WFMin
<1>2. \A y \in S : ~(y < x)
  BY <1>1 DEF OpToRel
<1>3. QED
  BY <1>2

\* Of numbers that are not too large there is a greatest.
LEMMA GreatestNumber ==
  ASSUME NEW n \in Nat, NEW S \in SUBSET (1..n), S # {}
  PROVE  \E k \in S : \A j \in S : j <= k
<1> DEFINE Above == {m \in Nat : \A j \in S : j <= m}
<1>1. n \in Above
  OBVIOUS
<1>2. PICK m \in Above : \A k \in Above : m <= k
  BY <1>1, LeastNumber
<1>3. m # 0
  <2>1. PICK j \in S : j \in 1..n
    OBVIOUS
  <2>2. j <= m
    BY <1>2
  <2>3. QED
    BY <2>1, <2>2
<1>4. m \in S
  <2>1. SUFFICES ASSUME m \notin S PROVE FALSE
    OBVIOUS
  <2>2. m - 1 \in Nat /\ \A j \in S : j <= m - 1
    BY <1>3, <2>1
  <2>3. m <= m - 1
    BY <1>2, <2>2
  <2>4. QED
    BY <2>3
<1>5. QED
  BY <1>4

LEMMA InductionUpTo ==
  ASSUME NEW n \in Nat, NEW S \in SUBSET Nat, 0 \in S, \A k \in S : k < n => k + 1 \in S
  PROVE  \A k \in 0..n : k \in S
<1> DEFINE Rest == {k \in Nat : k <= n /\ k \notin S}
<1>1. SUFFICES ASSUME Rest # {} PROVE FALSE
  OBVIOUS
<1>2. PICK k \in Rest : \A j \in Rest : k <= j
  BY <1>1, LeastNumber
<1>3. k # 0 /\ k \in Nat /\ k <= n
  BY <1>2
<1>4. k - 1 \in Nat /\ k - 1 <= n /\ ~(k <= k - 1)
  BY <1>3
<1>5. k - 1 \in S
  BY <1>2, <1>4
<1>6. QED
  BY <1>2, <1>3, <1>5

\* A text that stands in another, from the place behind at.
Stands(s, str, at) == \A i \in 1..Len(s) : str[at + i] = s[i]

\* FlattenSeq puts sequences one behind the other.
IsFlat(f, ss) ==
  f = [i \in 1..Len(ss) |-> IF i = 1 THEN ss[i] ELSE f[i - 1] \o ss[i]]
FlatTo(ss, m) ==
  \E f : /\ f = [i \in 1..m |-> f[i]]
         /\ \A i \in 1..m : f[i] = IF i = 1 THEN ss[i] ELSE f[i - 1] \o ss[i]

LEMMA FlatExists ==
  ASSUME NEW S, NEW ss \in Seq(Seq(S))
  PROVE  \E f : IsFlat(f, ss)
<1> DEFINE n == Len(ss)
           T == {m \in Nat : m <= n => FlatTo(ss, m)}
<1>1. n \in Nat
  BY LenProperties
<1> HIDE DEF n
<1>2. T \in SUBSET Nat /\ 0 \in T
  <2>1. FlatTo(ss, 0)
    <3>1. PICK f : f = [i \in 1..0 |-> i]
      OBVIOUS
    <3>2. f = [i \in 1..0 |-> f[i]] /\ \A i \in 1..0 : FALSE
      BY <3>1
    <3>3. QED
      BY <3>2, Zenon DEF FlatTo
  <2>2. QED
    BY <2>1
<1>3. ASSUME NEW m \in T, m < n PROVE m + 1 \in T
  <2>1. m \in Nat /\ FlatTo(ss, m)
    BY <1>1, <1>3
  <2>2. PICK f : /\ f = [i \in 1..m |-> f[i]]
                 /\ \A i \in 1..m : f[i] = IF i = 1 THEN ss[i] ELSE f[i - 1] \o ss[i]
    BY <2>1 DEF FlatTo
  <2>3. PICK x : x = IF m = 0 THEN ss[m + 1] ELSE f[m] \o ss[m + 1]
    OBVIOUS
  <2>4. PICK g : g = [i \in 1..m + 1 |-> IF i = m + 1 THEN x ELSE f[i]]
    OBVIOUS
  <2>5. g = [i \in 1..m + 1 |-> g[i]]
    BY <2>4
  <2>6. g[m + 1] = x /\ \A i \in 1..m : g[i] = f[i]
    BY <2>1, <2>4
  <2>7. ASSUME NEW i \in 1..m + 1
        PROVE  g[i] = IF i = 1 THEN ss[i] ELSE g[i - 1] \o ss[i]
    <3>1. CASE i \in 1..m
      <4>1. i # 1 => g[i - 1] = f[i - 1]
        BY <2>1, <2>6, <3>1
      <4>2. g[i] = f[i]
        BY <2>6, <3>1
      <4>3. QED
        BY <2>2, <3>1, <4>1, <4>2, Zenon
    <3>2. CASE i = m + 1
      <4>1. i = 1 <=> m = 0
        BY <2>1, <3>2
      <4>2. m # 0 => g[i - 1] = f[m]
        BY <2>1, <2>6, <3>2
      <4>3. QED
        BY <2>3, <2>6, <3>2, <4>1, <4>2, Zenon
    <3>3. QED
      BY <2>1, <3>1, <3>2
  <2>8. FlatTo(ss, m + 1)
    BY <2>5, <2>7, Zenon DEF FlatTo
  <2>9. QED
    BY <2>1, <2>8
<1>4. n \in T
  <2>1. n \in 0..n
    BY <1>1
  <2> HIDE DEF T
  <2>2. QED
    BY <1>1, <1>2, <1>3, <2>1, InductionUpTo, Zenon
<1>5. PICK f : /\ f = [i \in 1..n |-> f[i]]
               /\ \A i \in 1..n : f[i] = IF i = 1 THEN ss[i] ELSE f[i - 1] \o ss[i]
  BY <1>1, <1>4 DEF FlatTo
<1>6. [i \in 1..n |-> f[i]] = [i \in 1..n |-> IF i = 1 THEN ss[i] ELSE f[i - 1] \o ss[i]]
  BY <1>5, Zenon
<1>7. QED
  BY <1>5, <1>6, Zenon DEF IsFlat, n

\* off[k]: how long the first k sequences are.
LaidOut(e, ss, off) ==
  /\ off[0] = 0 /\ off[Len(ss)] = Len(e)
  /\ \A k \in 0..Len(ss) : off[k] \in Nat /\ off[k] <= Len(e)
  /\ \A k \in 1..Len(ss) : off[k] = off[k - 1] + Len(ss[k]) /\ Stands(ss[k], e, off[k - 1])

\* The first texts stand at the beginning of what is put together.
Begins(F, m) ==
  \A k \in 1..m : Len(F[k]) <= Len(F[m]) /\ Stands(F[k], F[m], 0)

LEMMA Longer ==
  ASSUME NEW S, NEW F, NEW m \in Nat, NEW x \in Seq(S), NEW y \in Seq(S),
         m # 0 => F[m] = x /\ Begins(F, m), F[m + 1] = x \o y, m = 0 => x = <<>>,
         \A k \in 1..m : Len(F[k]) \in Nat
  PROVE  F[m + 1] \in Seq(S) /\ Begins(F, m + 1)
<1>1. PICK a \in Nat, b \in Nat : a = Len(x) /\ b = Len(y)
  BY LenProperties
<1>2. PICK z : z = x \o y
  OBVIOUS
<1>3. z \in Seq(S) /\ Len(z) = a + b /\ \A i \in 1..a : z[i] = x[i]
  <2>1. /\ x \o y \in Seq(S) /\ Len(x \o y) = Len(x) + Len(y)
        /\ \A i \in 1..Len(x) + Len(y) :
             (x \o y)[i] = IF i <= Len(x) THEN x[i] ELSE y[i - Len(x)]
    BY ConcatProperties
  <2>2. z \in Seq(S) /\ Len(z) = a + b
        /\ \A i \in 1..a + b : z[i] = IF i <= a THEN x[i] ELSE y[i - a]
    BY <1>1, <1>2, <2>1, Zenon
  <2>3. \A i \in 1..a : i \in 1..a + b /\ i <= a
    OBVIOUS
  <2>4. QED
    BY <2>2, <2>3, Zenon
<1>4. ASSUME NEW k \in 1..m + 1 PROVE Len(F[k]) <= Len(z) /\ Stands(F[k], z, 0)
  <2>1. CASE k = m + 1
    <3>1. F[k] = z
      BY <1>2, <2>1, Zenon
    <3>2. \A i \in 1..Len(z) : 0 + i = i
      BY <1>3
    <3>3. Stands(z, z, 0)
      BY <3>2, Zenon DEF Stands
    <3>4. Len(z) <= Len(z)
      BY <1>3
    <3>5. QED
      BY <3>1, <3>3, <3>4, Zenon
  <2>2. CASE k # m + 1
    <3>1. k \in 1..m /\ m # 0
      BY <2>2
    <3>2. F[m] = x /\ Begins(F, m)
      BY <3>1, Zenon
    <3>3. Len(F[k]) <= Len(x) /\ Stands(F[k], x, 0)
      BY <3>1, <3>2, Zenon DEF Begins
    <3>4. PICK c \in Nat : c = Len(F[k])
      BY <3>1
    <3>5. c <= a /\ c <= a + b
      BY <1>1, <3>3, <3>4
    <3>6. \A i \in 1..c : 0 + i \in 1..a
      BY <3>5
    <3>7. \A i \in 1..c : z[0 + i] = x[0 + i] /\ x[0 + i] = F[k][i]
      BY <1>3, <3>3, <3>4, <3>6, Zenon DEF Stands
    <3>8. Stands(F[k], z, 0)
      BY <3>4, <3>7, Zenon DEF Stands
    <3>9. Len(F[k]) <= Len(z)
      BY <1>3, <3>4, <3>5, Zenon
    <3>10. QED
      BY <3>8, <3>9
  <2>3. QED
    BY <2>1, <2>2
<1>5. F[m + 1] = z
  BY <1>2, Zenon
<1>6. QED
  BY <1>3, <1>4, <1>5, Zenon DEF Begins

LEMMA FlatLaid ==
  ASSUME NEW S, NEW ss \in Seq(Seq(S))
  PROVE  /\ Seqs!FlattenSeq(ss) \in Seq(S)
         /\ \E off : LaidOut(Seqs!FlattenSeq(ss), ss, off)
<1>1. PICK n \in Nat : n = Len(ss)
  BY LenProperties
<1>2. \A i \in 1..n : ss[i] \in Seq(S)
  <2>1. \A i \in 1..Len(ss) : ss[i] \in Seq(S)
    BY ElementOfSeq, Zenon
  <2>2. QED
    BY <1>1, <2>1, Zenon
<1>3. CASE n = 0
  <2>1. ss = <<>> /\ ss \in Seq(S)
    BY <1>1, <1>3, EmptySeq, Zenon
  <2>2. Seqs!FlattenSeq(ss) = ss
    BY <1>1, <1>3, <2>1 DEF Seqs!FlattenSeq
  <2>3. PICK off : off = [k \in {0} |-> 0]
    OBVIOUS
  <2>4. LaidOut(ss, ss, off)
    BY <1>1, <1>3, <2>3 DEF LaidOut
  <2>5. QED
    BY <2>1, <2>2, <2>4, Zenon
<1>4. CASE n # 0
  <2> DEFINE F == CHOOSE g : IsFlat(g, ss)
  <2>1. IsFlat(F, ss)
    BY FlatExists
  <2>2. Seqs!FlattenSeq(ss) = F[n]
    BY <1>1, <1>4 DEF Seqs!FlattenSeq, IsFlat
  <2> HIDE DEF F
  <2>3. \A i \in 1..n : F[i] = IF i = 1 THEN ss[i] ELSE F[i - 1] \o ss[i]
    BY <1>1, <2>1 DEF IsFlat
  <2> DEFINE Fine(m) == \A k \in 1..m : F[k] \in Seq(S)
             T == {m \in Nat : m <= n => Fine(m) /\ Begins(F, m)}
  <2>4. T \in SUBSET Nat /\ 0 \in T
    BY DEF Begins
  <2>5. ASSUME NEW m \in T, m < n PROVE m + 1 \in T
    <3>1. m \in Nat /\ m + 1 \in 1..n /\ ss[m + 1] \in Seq(S) /\ Fine(m) /\ Begins(F, m)
      BY <1>2, <2>5
    <3>2. PICK x : x = IF m = 0 THEN <<>> ELSE F[m]
      OBVIOUS
    <3>3. x \in Seq(S)
      <4>1. m # 0 => m \in 1..m
        BY <3>1
      <4>2. QED
        BY <3>1, <3>2, <4>1, EmptySeq, Zenon
    <3>4. F[m + 1] = x \o ss[m + 1]
      <4>1. m + 1 = 1 <=> m = 0
        BY <3>1
      <4>2. m + 1 - 1 = m
        BY <3>1
      <4>3. m = 0 => F[m + 1] = ss[m + 1]
        BY <2>3, <3>1, <4>1, Zenon
      <4>4. m # 0 => F[m + 1] = F[m] \o ss[m + 1]
        <5>1. PICK j \in 1..n : j = m + 1 /\ j - 1 = m
          BY <3>1
        <5>2. j # 1 => F[j] = F[j - 1] \o ss[j]
          BY <2>3, Zenon
        <5>3. QED
          BY <4>1, <5>1, <5>2, Zenon
      <4>5. <<>> \o ss[m + 1] = ss[m + 1]
        BY <3>1, ConcatEmptySeq
      <4>6. QED
        BY <3>2, <4>3, <4>4, <4>5, Zenon
    <3>5. \A k \in 1..m : Len(F[k]) \in Nat
      BY <3>1, LenProperties, Zenon
    <3>6. (m # 0 => F[m] = x /\ Begins(F, m)) /\ (m = 0 => x = <<>>)
      BY <3>1, <3>2, Zenon
    <3> HIDE DEF Fine
    <3>7. F[m + 1] \in Seq(S) /\ Begins(F, m + 1)
      BY <3>1, <3>3, <3>4, <3>5, <3>6, Longer
    <3> USE DEF Fine
    <3>8. Fine(m + 1)
      <4>1. \A k \in 1..m + 1 : k \in 1..m \/ k = m + 1
        BY <3>1
      <4>2. QED
        BY <3>1, <3>7, <4>1, Zenon
    <3>9. QED
      BY <3>1, <3>7, <3>8
  <2>6. n \in T
    <3>1. n \in 0..n
      OBVIOUS
    <3> HIDE DEF T
    <3>2. QED
      BY <2>4, <2>5, <3>1, InductionUpTo, Zenon
  <2>7. Begins(F, n) /\ \A k \in 1..n : F[k] \in Seq(S)
    BY <2>6
  <2>8. PICK len : len = [k \in 1..n |-> Len(F[k])]
    OBVIOUS
  <2>9. PICK off : off = [k \in 0..n |-> IF k = 0 THEN 0 ELSE len[k]]
    OBVIOUS
  <2>10. \A k \in 1..n : len[k] = Len(F[k]) /\ len[k] \in Nat /\ len[k] <= Len(F[n])
    <3>1. \A k \in 1..n : len[k] = Len(F[k])
      BY <2>8
    <3>2. QED
      BY <2>7, <3>1, LenProperties, Zenon DEF Begins
  <2>11. off[0] = 0 /\ off[n] = Len(F[n]) /\ \A k \in 1..n : off[k] = len[k]
    <3>1. n \in 1..n
      BY <1>4
    <3>2. off[0] = 0 /\ \A k \in 1..n : off[k] = len[k]
      BY <2>9
    <3>3. QED
      BY <2>10, <3>1, <3>2, Zenon
  <2>12. \A k \in 0..n : off[k] \in Nat /\ off[k] <= Len(F[n])
    <3>1. n \in 1..n
      BY <1>4
    <3>2. 0 \in Nat /\ 0 <= Len(F[n])
      BY <2>10, <3>1
    <3>3. \A k \in 0..n : k = 0 \/ k \in 1..n
      OBVIOUS
    <3>4. QED
      BY <2>10, <2>11, <3>2, <3>3, Zenon
  <2>13. ASSUME NEW k \in 1..n
         PROVE  off[k] = off[k - 1] + Len(ss[k]) /\ Stands(ss[k], F[n], off[k - 1])
    <3>1. PICK x : x = IF k = 1 THEN <<>> ELSE F[k - 1]
      OBVIOUS
    <3>2. k # 1 => k - 1 \in 1..n
      OBVIOUS
    <3>3. x \in Seq(S)
      BY <2>7, <3>1, <3>2, EmptySeq, Zenon
    <3>4. off[k - 1] = Len(x)
      <4>1. k = 1 => k - 1 = 0
        OBVIOUS
      <4>2. CASE k = 1
        BY <2>11, <3>1, <4>1, <4>2, EmptySeq, Zenon
      <4>3. CASE k # 1
        BY <2>10, <2>11, <3>1, <3>2, <4>3, Zenon
      <4>4. QED
        BY <4>2, <4>3
    <3>5. F[k] = x \o ss[k]
      <4>1. <<>> \o ss[k] = ss[k]
        BY <1>2, ConcatEmptySeq
      <4>2. QED
        BY <2>3, <3>1, <4>1, Zenon
    <3>6. PICK a \in Nat, b \in Nat : a = Len(x) /\ b = Len(ss[k])
      BY <1>2, <3>3, LenProperties
    <3>7. Len(F[k]) = a + b /\ \A i \in 1..b : F[k][a + i] = ss[k][i]
      <4>1. PICK z : z = F[k]
        OBVIOUS
      <4>2. /\ Len(x \o ss[k]) = Len(x) + Len(ss[k])
            /\ \A i \in 1..Len(x) + Len(ss[k]) :
                 (x \o ss[k])[i] = IF i <= Len(x) THEN x[i] ELSE ss[k][i - Len(x)]
        BY <1>2, <3>3, ConcatProperties
      <4>3. Len(z) = a + b /\ \A i \in 1..a + b : z[i] = IF i <= a THEN x[i] ELSE ss[k][i - a]
        BY <3>5, <3>6, <4>1, <4>2, Zenon
      <4>4. \A i \in 1..b : a + i \in 1..a + b /\ ~(a + i <= a) /\ (a + i) - a = i
        OBVIOUS
      <4>5. QED
        BY <4>1, <4>3, <4>4, Zenon
    <3>8. Stands(F[k], F[n], 0)
      BY <2>7, Zenon DEF Begins
    <3>9. \A i \in 1..b : F[n][a + i] = ss[k][i]
      <4>1. \A i \in 1..b : a + i \in 1..a + b /\ 0 + (a + i) = a + i
        OBVIOUS
      <4>2. QED
        BY <3>7, <3>8, <4>1, Zenon DEF Stands
    <3>10. QED
      BY <2>10, <2>11, <3>4, <3>6, <3>7, <3>9, Zenon DEF Stands
  <2>14. n \in 1..n
    BY <1>4
  <2>15. LaidOut(F[n], ss, off)
    BY <1>1, <2>11, <2>12, <2>13, Zenon DEF LaidOut
  <2>16. QED
    BY <2>2, <2>7, <2>14, <2>15, Zenon
<1>5. QED
  BY <1>3, <1>4

-----------------------------------------------------------------------------
(***************************************************************************)
(* A counter (GpioCounter): its types, and that one which is not inverted  *)
(* counts no more than the changes of its line and the reads that failed.  *)
(***************************************************************************)

(***************************************************************************)
(* There is credit when a change of the line or a failed read is not yet   *)
(* counted.  The counter may only be about to count when there is credit,  *)
(* or when GetInterval is going to refuse (the last count is recent), or   *)
(* when the first publication still counts nothing.                        *)
(***************************************************************************)
Idle == 1 - Active
Credit == counts < edges + failures

Counted == counts <= edges + failures
UnseenPulse == level = Active /\ cached # Active => Credit
PendingInterrupt ==
  event => Credit \/ age \in Recent \/ (firstTime /\ mpc = "wait")
TakenInterrupt ==
  mpc = "interrupt" => Credit \/ age \in Recent \/ firstTime
ChangeSeen ==
  mpc = "scan" => /\ level = Active => Credit
                  /\ cached = Idle => Credit

CounterInv == Counted /\ UnseenPulse /\ PendingInterrupt /\ TakenInterrupt /\ ChangeSeen

\* Type correctness holds of every counter: GpioCounter!TypeOK.
THEOREM CounterTypeCorrect == Spec => []TypeOK
<1>1. Init => TypeOK
  <2> SUFFICES ASSUME Init PROVE TypeOK
    OBVIOUS
  <2>1. /\ firstTime \in BOOLEAN /\ loopFirst \in BOOLEAN
        /\ owed \in BOOLEAN /\ dropped \in BOOLEAN
    BY Zenon DEF Init
  <2>2. edge \in {"rising", "falling"}
    BY CounterAssumption DEF Init
  <2>3. edges \in Nat /\ impulses \in Nat /\ failures \in Nat
    BY DEF Init
  <2> QED
    BY <2>1, <2>2, <2>3 DEF Init, TypeOK, Failed, Recent
<1>2. TypeOK /\ [Next]_vars => TypeOK'
  <2> SUFFICES ASSUME TypeOK, [Next]_vars PROVE TypeOK'
    OBVIOUS
  <2> USE DEF TypeOK, Failed, Recent, counterVars, lineVars, loopVars, historyVars
  <2>1. CASE LevelChanges
    <3>1. event' \in BOOLEAN
      BY <2>1, Zenon DEF LevelChanges
    <3>2. owed' \in BOOLEAN /\ dropped' \in BOOLEAN
      BY <2>1, Zenon DEF LevelChanges
    <3>3. edges' \in Nat /\ impulses' \in Nat /\ failures' \in Nat
      BY <2>1 DEF LevelChanges
    <3>4. level' \in {0, 1} /\ gap' \in {"short", "long"}
      BY <2>1 DEF LevelChanges
    <3>5. UNCHANGED <<edge, cached, counts, age, firstTime, loopFirst, elapsed, mpc>>
      BY <2>1 DEF LevelChanges
    <3> QED
      BY <3>1, <3>2, <3>3, <3>4, <3>5
  <2>2. CASE GapGrows
    BY <2>2 DEF GapGrows
  <2>3. CASE ClockRuns
    BY <2>3 DEF ClockRuns
  <2>4. CASE InterruptAges
    BY <2>4 DEF InterruptAges
  <2>5. CASE TakeInterrupt
    BY <2>5, ZenonT(40) DEF TakeInterrupt
  <2>6. CASE DropInterrupt
    BY <2>6 DEF DropInterrupt
  <2>7. CASE BeginScan
    BY <2>7 DEF BeginScan
  <2>8. CASE CompareEqual
    BY <2>8 DEF CompareEqual, EndIteration
  <2>9. CASE CompareDiffers
    BY <2>9 DEF CompareDiffers
  <2>10. CASE CompareFails
    BY <2>10 DEF CompareFails, EndIteration
  <2>11. CASE PublishFirst
    BY <2>11, ZenonT(40) DEF PublishFirst, EndIteration
  <2>12. CASE Publish
    <3>1. cached' \in {Failed, 0, 1}
      BY <2>12 DEF Publish
    <3>2. /\ counts' \in Nat /\ age' \in {"never", "settled"} \cup Recent
          /\ age' = "never" <=> counts' = 0
      BY <2>12 DEF Publish, GetInterval
    <3>3. owed' \in BOOLEAN
      BY <2>12, Zenon DEF Publish
    <3>4. elapsed' \in {"none", "some", "due"} /\ mpc' = "wait"
      BY <2>12 DEF Publish, EndIteration
    <3>5. UNCHANGED <<level, event, gap, edge, firstTime, loopFirst, edges, impulses,
                      dropped>>
      BY <2>12 DEF Publish
    <3>6. failures' \in Nat
      BY <2>12 DEF Publish
    <3> QED
      BY <3>1, <3>2, <3>3, <3>4, <3>5, <3>6
  <2>13. CASE UNCHANGED vars
    BY <2>13 DEF vars
  <2> QED
    BY <2>1, <2>2, <2>3, <2>4, <2>5, <2>6, <2>7, <2>8, <2>9, <2>10, <2>11, <2>12,
       <2>13 DEF Next
<1> QED
  BY <1>1, <1>2, PTL DEF Spec

\* No change is counted twice: GpioCounter!CountsAreEdges, for a counter that is
\* not inverted, with any bounces, failures and bounds.
THEOREM NoEdgeCountedTwice ==
  ASSUME ~Inverted
  PROVE  Spec => []CountsAreEdges
<1>1. Init => CounterInv
  BY DEF Init, CounterInv, Counted, UnseenPulse, PendingInterrupt, TakenInterrupt,
         ChangeSeen, Credit, Active, Failed
<1>2. TypeOK /\ CounterInv /\ [Next]_vars => CounterInv'
  <2> SUFFICES ASSUME TypeOK, CounterInv, [Next]_vars PROVE CounterInv'
    OBVIOUS
  <2> USE ~Inverted
      DEF TypeOK, CounterInv, Counted, UnseenPulse, PendingInterrupt, TakenInterrupt,
          ChangeSeen, Credit, Idle, Active, Failed, Recent, counterVars, lineVars,
          loopVars, historyVars
  <2>1. CASE LevelChanges
    BY <2>1 DEF LevelChanges, Raises
  <2>2. CASE GapGrows
    BY <2>2 DEF GapGrows
  <2>3. CASE ClockRuns
    BY <2>3 DEF ClockRuns
  <2>4. CASE InterruptAges
    BY <2>4 DEF InterruptAges
  <2>5. CASE TakeInterrupt
    BY <2>5 DEF TakeInterrupt
  <2>6. CASE DropInterrupt
    BY <2>6 DEF DropInterrupt
  <2>7. CASE BeginScan
    BY <2>7 DEF BeginScan
  <2>8. CASE CompareEqual
    BY <2>8 DEF CompareEqual, EndIteration
  <2>9. CASE CompareDiffers
    BY <2>9 DEF CompareDiffers
  <2>10. CASE CompareFails
    BY <2>10 DEF CompareFails, EndIteration
  <2>11. CASE PublishFirst
    BY <2>11 DEF PublishFirst, EndIteration
  <2>12. CASE Publish
    \* The front check: a scan that sees the idle level counts only if the cached
    \* level is idle too, and then ChangeSeen gives the credit.
    BY <2>12 DEF Publish, EndIteration, GetInterval, WrongFront
  <2>13. CASE UNCHANGED vars
    BY <2>13 DEF vars
  <2> QED
    BY <2>1, <2>2, <2>3, <2>4, <2>5, <2>6, <2>7, <2>8, <2>9, <2>10, <2>11, <2>12,
       <2>13 DEF Next
<1>3. CounterInv => CountsAreEdges
  BY DEF CounterInv, Counted, CountsAreEdges
<1> QED
  BY <1>1, <1>2, <1>3, CounterTypeCorrect, PTL DEF Spec

-----------------------------------------------------------------------------
(***************************************************************************)
(* Nothing but a dropped interrupt makes the counter miss a pulse.  An     *)
(* owed pulse whose interrupt was not dropped has its interrupt pending or *)
(* just taken; either publication of an interrupt pays it.                 *)
(***************************************************************************)
OwedHasInterrupt ==
  level = Active /\ owed /\ ~dropped => event \/ mpc = "interrupt"

\* Every pulse that the counter was given the time to read was looked at, unless its
\* interrupt was ignored: GpioCounter!OnlyDroppedAreLost.
THEOREM LossesAreDrops == Spec => []OnlyDroppedAreLost
<1>1. CASE Inverted
  <2>1. TypeOK => OnlyDroppedAreLost
    BY <1>1 DEF OnlyDroppedAreLost
  <2> QED
    BY <2>1, CounterTypeCorrect, PTL
<1>2. CASE ~Inverted
  <2>1. Init => OwedHasInterrupt
    BY DEF Init, OwedHasInterrupt
  <2>2. TypeOK /\ OwedHasInterrupt /\ [Next]_vars => OwedHasInterrupt'
    <3> SUFFICES ASSUME TypeOK, OwedHasInterrupt, [Next]_vars PROVE OwedHasInterrupt'
      OBVIOUS
    <3> USE <1>2
        DEF TypeOK, OwedHasInterrupt, Active, Failed, counterVars, lineVars, loopVars,
            historyVars
    <3>1. CASE LevelChanges
      \* The front to the active level raises an interrupt.
      <4>1. level' = Active => event'
        <5>1. level' = Active => Raises
          BY <3>1 DEF LevelChanges, Raises
        <5>2. Raises => event'
          BY <3>1, Zenon DEF LevelChanges
        <5> QED
          BY <5>1, <5>2, Zenon
      <4>2. edge' = edge
        BY <3>1 DEF LevelChanges
      <4> QED
        BY <4>1, <4>2
    <3>2. CASE GapGrows \/ ClockRuns \/ InterruptAges
      BY <3>2 DEF GapGrows, ClockRuns, InterruptAges
    <3>3. CASE TakeInterrupt
      BY <3>3 DEF TakeInterrupt
    <3>4. CASE DropInterrupt \/ BeginScan
      BY <3>4 DEF DropInterrupt, BeginScan
    <3>5. CASE CompareEqual \/ CompareDiffers \/ CompareFails
      BY <3>5 DEF CompareEqual, CompareDiffers, CompareFails, EndIteration
    <3>6. CASE PublishFirst
      BY <3>6 DEF PublishFirst, EndIteration
    <3>7. CASE Publish
      \* At the active level GpioPublish sees no wrong front.
      <4>1. level = Active => owed' = FALSE
        BY <3>7 DEF Publish, WrongFront
      <4> QED
        BY <3>7, <4>1 DEF Publish, EndIteration
    <3>8. CASE UNCHANGED vars
      BY <3>8 DEF vars
    <3> QED
      BY <3>1, <3>2, <3>3, <3>4, <3>5, <3>6, <3>7, <3>8 DEF Next
  <2>3. OwedHasInterrupt => OnlyDroppedAreLost
    BY DEF OwedHasInterrupt, OnlyDroppedAreLost
  <2> QED
    BY <2>1, <2>2, <2>3, CounterTypeCorrect, PTL DEF Spec
<1> QED
  BY <1>1, <1>2

-----------------------------------------------------------------------------
(***************************************************************************)
(* The conversions of a register (ModbusFormat).                           *)
(***************************************************************************)

\* Every integer is read back as the value of the format congruent to it.
LEMMA HandlerReadsBack ==
  ASSUME NEW f \in Handler!Formats, NEW v \in Int
  PROVE  Handler!ReadsBackCongruent(f, v)
<1> USE DEF Handler!ReadsBackCongruent, Handler!ReadBack, Handler!ConvertMasterValue,
            Handler!ConvertSlaveValue, Handler!AsSigned, Handler!FormatRange, Handler!Modulus
<1>1. CASE f = "U16"
  BY <1>1
<1>2. CASE f = "S16"
  BY <1>2
<1>3. CASE f = "U8"
  BY <1>3
<1>4. CASE f = "S8"
  BY <1>4
<1>5. QED
  BY <1>1, <1>2, <1>3, <1>4 DEF Handler!Formats

\* A register reads back the value congruent to what was written in every behaviour of
\* its handler and a slave, whatever integers are written, whatever the slave puts into
\* its register in between.
THEOREM HandlerIsCongruent == Handler!Spec => []Congruent
<1> DEFINE Inv == format \in Handler!Formats /\ number \in Int /\ word \in Handler!Word
<1>1. Handler!Init => Inv
  BY WrittenAssumption DEF Handler!Init, Handler!Formats, Handler!Word
<1>2. Inv /\ [Handler!Next]_Handler!vars => Inv'
  <2> SUFFICES ASSUME Inv, [Handler!Next]_Handler!vars PROVE Inv'
    OBVIOUS
  <2>1. CASE Handler!Write
    BY <2>1 DEF Handler!Write, Handler!ConvertMasterValue, Handler!Word
  <2>2. CASE Handler!Read
    BY <2>2 DEF Handler!Read, Handler!ConvertSlaveValue, Handler!AsSigned, Handler!Formats,
       Handler!Word
  <2>3. CASE Handler!SlaveChange
    BY <2>3 DEF Handler!SlaveChange
  <2>4. CASE UNCHANGED Handler!vars
    BY <2>4 DEF Handler!vars
  <2>5. QED
    BY <2>1, <2>2, <2>3, <2>4 DEF Handler!Next
<1>3. Inv => Congruent
  BY HandlerReadsBack DEF Congruent, Handler!Congruent
<1>4. QED
  BY <1>1, <1>2, <1>3, PTL DEF Handler!Spec

-----------------------------------------------------------------------------
(***************************************************************************)
(* The configuration (ModbusConfig): whatever the files hold, what the     *)
(* parser makes of a channel is true of each of its registers.             *)
(***************************************************************************)

\* A channel that is not refused has registers of one kind.
LEMMA ChannelAsAnnounced ==
  ASSUME NEW slave, NEW data, NEW order,
         Config!IsArray(Config!Get(data, "consists_of", <<>>)),
         Config!LoadChannel(slave, data, order) # Refused
  PROVE  Config!AsAnnounced(Config!LoadChannel(slave, data, order), order)
<1> DEFINE parts == IF Config!Has(data, "consists_of") THEN data.consists_of ELSE <<data>>
           registers == [i \in DOMAIN parts |-> Config!LoadRegister(slave, parts[i])]
           type == Config!Get(data, "type", Config!DefaultType(registers[1]))
           flag == type # "wo-switch"
           polled == [i \in DOMAIN registers |-> [registers[i] EXCEPT !.poll = flag]]
<1>1. /\ ~(\/ registers = <<>> \/ Refused \in Config!Range(registers)
           \/ ~Config!Uniform(registers)
           \/ Config!Has(data, "on_value") /\ Len(registers) # 1)
  BY DEF Config!LoadChannel
<1>2. /\ Config!LoadChannel(slave, data, order).readonly = Config!IsReadOnly(registers[1])
      /\ Config!LoadChannel(slave, data, order).order = order
      /\ Config!LoadChannel(slave, data, order).registers = polled
      /\ ~Config!Has(data, "on_value") =>
           Config!LoadChannel(slave, data, order).on_value = -1
  BY DEF Config!LoadChannel
<1>3. DOMAIN parts = 1..Len(parts) /\ Len(parts) \in Nat
  <2>1. CASE Config!Has(data, "consists_of")
    <3>1. parts \in Seq(Config!Range(parts))
      BY <2>1 DEF Config!IsArray, Config!Get
    <3>2. QED
      BY <3>1, LenProperties
  <2>2. CASE ~Config!Has(data, "consists_of")
    BY <2>2
  <2>3. QED
    BY <2>1, <2>2
<1> HIDE DEF parts
<1>4. DOMAIN registers = DOMAIN parts /\ Len(registers) = Len(parts)
  BY <1>3
<1>5. ASSUME NEW i \in DOMAIN registers
      PROVE  /\ registers[i] = [slave |-> registers[i].slave, type |-> registers[i].type,
                                address |-> registers[i].address, format |-> registers[i].format,
                                poll |-> registers[i].poll, readonly |-> registers[i].readonly]
  <2>1. registers[i] # Refused
    BY <1>1 DEF Config!Range
  <2>2. QED
    BY <2>1 DEF Config!LoadRegister
<1> HIDE DEF flag
<1>6. ASSUME NEW i \in DOMAIN registers
      PROVE  /\ polled[i].poll = flag
             /\ Config!IsReadOnly(polled[i]) = Config!IsReadOnly(registers[i])
  <2> HIDE DEF registers
  <2>1. polled[i] = [registers[i] EXCEPT !.poll = flag]
    OBVIOUS
  <2>2. PICK r : r = registers[i]
    OBVIOUS
  <2>3. r = [slave |-> r.slave, type |-> r.type, address |-> r.address, format |-> r.format,
             poll |-> r.poll, readonly |-> r.readonly]
    BY <1>5, <2>2, Zenon
  <2>4. PICK u : u = [r EXCEPT !.poll = flag]
    OBVIOUS
  <2>5. u.poll = flag /\ u.type = r.type /\ u.readonly = r.readonly
    BY <2>3, <2>4
  <2>6. Config!IsReadOnly(u) = Config!IsReadOnly(r)
    BY <2>5 DEF Config!IsReadOnly
  <2>7. QED
    BY <2>1, <2>2, <2>4, <2>5, <2>6, Zenon
<1>7. \A i \in DOMAIN registers : Config!IsReadOnly(registers[i]) = Config!IsReadOnly(registers[1])
  BY <1>1 DEF Config!Uniform
<1> HIDE DEF registers
<1>8. DOMAIN polled = DOMAIN registers
  OBVIOUS
<1> HIDE DEF polled
<1>9. PICK channel : channel = Config!LoadChannel(slave, data, order)
  OBVIOUS
<1>10. ASSUME NEW i \in DOMAIN polled
       PROVE  /\ channel.readonly = Config!IsReadOnly(polled[i])
              /\ polled[i].poll = polled[1].poll
              /\ channel.on_value >= 0 => i = 1
              /\ channel.order = order
  <2>1. 1 \in DOMAIN registers /\ i \in DOMAIN registers
    BY <1>3, <1>4, <1>8
  <2>2. channel.readonly = Config!IsReadOnly(polled[i]) /\ channel.order = order
    BY <1>2, <1>6, <1>7, <1>9, <2>1, Zenon
  <2>3. polled[i].poll = polled[1].poll
    BY <1>6, <2>1, Zenon
  <2>4. CASE Config!Has(data, "on_value")
    BY <1>1, <1>3, <1>4, <2>1, <2>2, <2>3, <2>4
  <2>5. CASE ~Config!Has(data, "on_value")
    <3>1. channel.on_value = -1
      BY <1>2, <1>9, <2>5, Zenon
    <3>2. ~(channel.on_value >= 0)
      BY <3>1
    <3>3. QED
      BY <2>2, <2>3, <3>2, Zenon
  <2>6. QED
    BY <2>4, <2>5
<1>11. channel.registers = polled
  BY <1>2, <1>9, Zenon
<1>12. Config!AsAnnounced(channel, order)
  BY <1>10, <1>11, Zenon DEF Config!AsAnnounced
<1>13. QED
  BY <1>9, <1>12, Zenon

\* A sequence of whatever, and the arrays of the files.
LEMMA ArrayOf ==
  ASSUME NEW s
  PROVE  /\ Config!IsArray(s) => Len(s) \in Nat /\ DOMAIN s = 1..Len(s)
         /\ \A n \in Nat : s = [i \in 1..n |-> s[i]] => Config!IsArray(s) /\ Len(s) = n
<1>1. ASSUME Config!IsArray(s) PROVE Len(s) \in Nat /\ DOMAIN s = 1..Len(s)
  BY <1>1, LenProperties DEF Config!IsArray
<1>2. ASSUME NEW n \in Nat, s = [i \in 1..n |-> s[i]] PROVE Config!IsArray(s) /\ Len(s) = n
  <2>1. s \in [1..n -> Config!Range(s)]
    BY <1>2 DEF Config!Range
  <2>2. QED
    BY <2>1 DEF Config!IsArray
<1>3. QED
  BY <1>1, <1>2

\* The device has all its fields, and channels that are what they announce.
Announced(unit) ==
  /\ unit = [id |-> unit.id, slave |-> unit.slave, setup |-> unit.setup,
             channels |-> unit.channels]
  /\ Config!IsArray(unit.channels)
  /\ \A c \in DOMAIN unit.channels : Config!AsAnnounced(unit.channels[c], c)

LEMMA VectorsAnnounced ==
  ASSUME NEW unit, Announced(unit), NEW data, Config!DeviceArrays(data),
         Config!LoadDeviceVectors(unit, data) # Refused
  PROVE  Announced(Config!LoadDeviceVectors(unit, data))
<1> DEFINE setup == Config!Get(data, "setup", <<>>)
           items == [i \in DOMAIN setup |-> Config!LoadSetupItem(setup[i])]
           have == Len(unit.channels)
           channels == Config!Get(data, "channels", <<>>)
           loaded == [i \in DOMAIN channels |->
                        Config!LoadChannel(unit.slave, channels[i], have + i)]
<1>1. /\ Refused \notin Config!Range(loaded)
      /\ Config!LoadDeviceVectors(unit, data)
           = [unit EXCEPT !.setup = @ \o items, !.channels = @ \o loaded]
  BY DEF Config!LoadDeviceVectors
<1>2. PICK r : r = Config!LoadDeviceVectors(unit, data)
  OBVIOUS
<1>3. /\ r = [id |-> r.id, slave |-> r.slave, setup |-> r.setup, channels |-> r.channels]
      /\ r.channels = unit.channels \o loaded
  <2> HIDE DEF items, loaded
  <2>1. r = [unit EXCEPT !.setup = @ \o items, !.channels = @ \o loaded]
    BY <1>1, <1>2, Zenon
  <2>2. unit = [id |-> unit.id, slave |-> unit.slave, setup |-> unit.setup,
                channels |-> unit.channels]
    BY Zenon DEF Announced
  <2>3. QED
    BY <2>1, <2>2
<1>4. have \in Nat /\ DOMAIN unit.channels = 1..have
  BY ArrayOf DEF Announced
<1>5. Len(channels) \in Nat /\ DOMAIN channels = 1..Len(channels)
  BY ArrayOf DEF Config!DeviceArrays
<1>6. ASSUME NEW i \in DOMAIN channels PROVE Config!AsAnnounced(loaded[i], have + i)
  <2>1. loaded[i] = Config!LoadChannel(unit.slave, channels[i], have + i)
    OBVIOUS
  <2>2. loaded[i] # Refused
    BY <1>1 DEF Config!Range
  <2>3. Config!IsArray(Config!Get(channels[i], "consists_of", <<>>))
    BY DEF Config!DeviceArrays
  <2> HIDE DEF loaded, channels, have
  <2>4. QED
    BY <2>1, <2>2, <2>3, ChannelAsAnnounced, Zenon
<1>7. PICK n \in Nat : n = Len(channels)
  BY <1>5
<1>8. loaded = [i \in 1..n |-> loaded[i]] /\ DOMAIN loaded = 1..n
  BY <1>5, <1>7
<1>9. Config!IsArray(loaded) /\ Len(loaded) = n
  BY <1>8, ArrayOf, Zenon
<1> HIDE DEF loaded, channels
<1>10. PICK a : a = unit.channels
  OBVIOUS
<1>11. /\ a \in Seq(Config!Range(a) \cup Config!Range(loaded))
       /\ loaded \in Seq(Config!Range(a) \cup Config!Range(loaded))
  <2>1. a \in Seq(Config!Range(a)) /\ loaded \in Seq(Config!Range(loaded))
    BY <1>9, <1>10 DEF Announced, Config!IsArray
  <2>2. QED
    BY <2>1, SeqMonotonic
<1>12. PICK b : b = a \o loaded
  OBVIOUS
<1>13. /\ a \o loaded \in Seq(Config!Range(a) \cup Config!Range(loaded))
       /\ Len(a \o loaded) = Len(a) + Len(loaded)
       /\ \A k \in 1..Len(a) + Len(loaded) :
            (a \o loaded)[k] = IF k <= Len(a) THEN a[k] ELSE loaded[k - Len(a)]
  BY <1>11, ConcatProperties
<1>14. /\ b \in Seq(Config!Range(a) \cup Config!Range(loaded)) /\ Len(b) = have + n
       /\ \A k \in 1..have + n : b[k] = IF k <= have THEN a[k] ELSE loaded[k - have]
  BY <1>9, <1>10, <1>12, <1>13, Zenon
<1> HIDE DEF have
<1>15. DOMAIN b = 1..have + n
  BY <1>14, LenProperties
<1>16. Config!IsArray(b)
  <2>1. have + n \in Nat
    BY <1>4
  <2>2. b = [k \in 1..have + n |-> b[k]]
    BY <1>14, LenProperties
  <2>3. QED
    BY <2>1, <2>2, ArrayOf, Zenon
<1>17. ASSUME NEW k \in DOMAIN b PROVE Config!AsAnnounced(b[k], k)
  <2>1. CASE k <= have
    <3>1. k \in DOMAIN a /\ b[k] = a[k]
      BY <1>4, <1>10, <1>14, <1>15, <2>1
    <3>2. QED
      BY <1>10, <3>1, Zenon DEF Announced
  <2>2. CASE ~(k <= have)
    <3>1. k - have \in DOMAIN channels /\ b[k] = loaded[k - have] /\ have + (k - have) = k
      BY <1>4, <1>5, <1>7, <1>14, <1>15, <2>2
    <3>2. Config!AsAnnounced(loaded[k - have], have + (k - have))
      BY <1>6, <3>1, Zenon
    <3>3. QED
      BY <3>1, <3>2, Zenon
  <2>3. QED
    BY <2>1, <2>2
<1>18. r.channels = b
  BY <1>3, <1>10, <1>12, Zenon
<1>19. Announced(r)
  BY <1>3, <1>16, <1>17, <1>18, Zenon DEF Announced
<1>20. QED
  BY <1>2, <1>19, Zenon

LEMMA BothAnnounced ==
  ASSUME NEW unit, Announced(unit), NEW template, Config!DeviceArrays(template),
         NEW data, Config!DeviceArrays(data), Config!LoadBoth(unit, template, data) # Refused
  PROVE  Announced(Config!LoadBoth(unit, template, data))
<1>1. PICK first : first = Config!LoadDeviceVectors(unit, template)
  OBVIOUS
<1>2. first # Refused /\ Config!LoadBoth(unit, template, data)
                           = Config!LoadDeviceVectors(first, data)
  BY <1>1 DEF Config!LoadBoth
<1>3. Announced(first)
  BY <1>1, <1>2, VectorsAnnounced, Zenon
<1>4. QED
  BY <1>2, <1>3, VectorsAnnounced, Zenon

\* The template of a type has arrays where there should be arrays, and its identifier is
\* a sequence.
LEMMA TemplateArrays ==
  ASSUME Config!FilesAreJson, NEW templates, templates = Config!ParseTemplates(Files),
         templates # Refused, NEW type \in DOMAIN templates
  PROVE  /\ Config!DeviceArrays(templates[type])
         /\ Config!IsArray(Config!Get(templates[type], "id", <<>>))
<1> DEFINE typed == {i \in DOMAIN Files : Files[i].kind = "object"
                                            /\ Config!Has(Files[i], "device_type")}
           of(t) == {i \in typed : Files[i].device_type = t}
<1>1. templates = [t \in {Files[i].device_type : i \in typed} |->
                     Files[CHOOSE i \in of(t) : \A j \in of(t) : j <= i].device]
  BY DEF Config!ParseTemplates
<1>2. PICK i \in typed : Files[i].device_type = type
  BY <1>1
<1>3. Len(Files) \in Nat /\ DOMAIN Files = 1..Len(Files)
  BY ArrayOf DEF Config!FilesAreJson
<1>4. \E k \in of(type) : \A j \in of(type) : j <= k
  <2>1. of(type) \in SUBSET (1..Len(Files)) /\ of(type) # {}
    BY <1>2, <1>3
  <2> HIDE DEF of
  <2>2. QED
    BY <1>3, <2>1, GreatestNumber
<1>5. PICK k : k = CHOOSE n \in of(type) : \A j \in of(type) : j <= n
  OBVIOUS
<1>6. k \in of(type)
  BY <1>4, <1>5, Zenon
<1>7. templates[type] = Files[k].device
  BY <1>1, <1>5
<1>8. QED
  BY <1>6, <1>7 DEF Config!FilesAreJson

\* A device that is taken is what it announces.
LEMMA DeviceLoaded ==
  ASSUME Config!FilesAreJson, NEW templates, templates = Config!ParseTemplates(Files),
         templates # Refused, NEW data, Config!DeviceArrays(data), NEW id,
         Config!LoadDevice(data, id, templates) # Refused
  PROVE  \/ Config!LoadDevice(data, id, templates) = <<>>
         \/ \E x : Announced(x) /\ Config!LoadDevice(data, id, templates) = <<x>>
<1> DEFINE slave == Config!GetInt(data, "slave_id")
           known == Config!Has(data, "device_type") /\ Config!Has(templates, data.device_type)
           template == IF known THEN templates[data.device_type] ELSE [none |-> TRUE]
           bare == [id |-> Config!DeviceId(data, id, template, slave), slave |-> slave,
                    setup |-> <<>>, channels |-> <<>>]
<1>1. CASE Config!LoadDevice(data, id, templates) = <<>>
  BY <1>1
<1>2. CASE Config!LoadDevice(data, id, templates) # <<>>
  <2>1. PICK x : x = Config!LoadBoth(bare, template, data)
    OBVIOUS
  <2>2. x # Refused /\ Config!LoadDevice(data, id, templates) = <<x>>
    BY <1>2, <2>1 DEF Config!LoadDevice
  <2>3. Announced(bare)
    <3>1. PICK b : b = bare
      OBVIOUS
    <3>2. b = [id |-> b.id, slave |-> b.slave, setup |-> b.setup, channels |-> b.channels]
          /\ b.channels = <<>>
      BY <3>1
    <3>3. Config!IsArray(<<>>) /\ DOMAIN <<>> = {}
      BY DEF Config!IsArray
    <3>4. Announced(b)
      BY <3>2, <3>3 DEF Announced
    <3>5. QED
      BY <3>1, <3>4, Zenon
  <2>4. Config!DeviceArrays(template)
    <3>1. CASE known
      <4>1. data.device_type \in DOMAIN templates
        BY <3>1 DEF Config!Has
      <4>2. PICK type \in DOMAIN templates : type = data.device_type
        BY <4>1
      <4>3. template = templates[type]
        BY <3>1, <4>2
      <4> HIDE DEF template, known
      <4>4. QED
        BY <4>2, <4>3, TemplateArrays, Zenon
    <3>2. CASE ~known
      <4>1. template = [none |-> TRUE]
        BY <3>2
      <4>2. Config!Get([none |-> TRUE], "channels", <<>>) = <<>>
        BY DEF Config!Get, Config!Has
      <4>3. Config!IsArray(<<>>) /\ DOMAIN <<>> = {}
        BY DEF Config!IsArray
      <4>4. QED
        BY <4>1, <4>2, <4>3 DEF Config!DeviceArrays
    <3>3. QED
      BY <3>1, <3>2
  <2> HIDE DEF bare, template
  <2>5. Announced(x)
    BY <2>1, <2>2, <2>3, <2>4, BothAnnounced, Zenon
  <2>6. QED
    BY <2>2, <2>5, Zenon
<1>3. QED
  BY <1>1, <1>2

\* The devices of a port, each of them announced.
Sound(port) ==
  \A d \in DOMAIN port.devices : Announced(port.devices[d])

\* What is put together from sequences of elements with something in common has
\* only such elements.
LEMMA FlattenOnly ==
  ASSUME NEW P, NEW n \in Nat, NEW ss, ss = [i \in 1..n |-> ss[i]],
         \A i \in 1..n : ss[i] = <<>> \/ \E x \in P : ss[i] = <<x>>
  PROVE  \A k \in DOMAIN Config!FlattenSeq(ss) : Config!FlattenSeq(ss)[k] \in P
<1>1. ASSUME NEW i \in 1..n PROVE ss[i] \in Seq(P)
  <2>1. CASE ss[i] = <<>>
    BY <2>1, EmptySeq, Zenon
  <2>2. ASSUME NEW x \in P, ss[i] = <<x>> PROVE ss[i] \in Seq(P)
    <3>1. <<x>> \in Seq(P)
      OBVIOUS
    <3>2. QED
      BY <2>2, <3>1, Zenon
  <2>3. QED
    BY <2>1, <2>2, Zenon
<1>2. ss \in Seq(Seq(P))
  BY <1>1
<1>3. PICK f : f = Config!FlattenSeq(ss)
  OBVIOUS
<1>4. f \in Seq(P)
  <2>1. Config!FlattenSeq(ss) = Seqs!FlattenSeq(ss)
    BY DEF Config!FlattenSeq, Seqs!FlattenSeq
  <2>2. QED
    BY <1>2, <1>3, <2>1, FlatLaid, Zenon
<1>5. \A k \in DOMAIN f : f[k] \in P
  BY <1>4, ElementOfSeq, LenProperties
<1>6. QED
  BY <1>3, <1>5, Zenon

LEMMA PortLoaded ==
  ASSUME Config!FilesAreJson, NEW templates, templates = Config!ParseTemplates(Files),
         templates # Refused, NEW data, Config!PortArrays(data), NEW index,
         Config!LoadPort(data, index, templates) # Refused
  PROVE  \/ Config!LoadPort(data, index, templates) = <<>>
         \/ \E x : Sound(x) /\ Config!LoadPort(data, index, templates) = <<x>>
<1> DEFINE sources == Config!Get(data, "devices", <<>>)
           devices == [i \in DOMAIN sources |->
             Config!LoadDevice(sources[i], <<"wb-modbus", index, i - 1>>, templates)]
           data_bits == IF Config!Has(data, "data_bits") THEN Config!GetInt(data, "data_bits")
                        ELSE IF Config!Has(data, "parity") THEN Config!CharCode[data.parity]
                        ELSE 8
           port == [parity |-> "N", data_bits |-> data_bits,
                    devices |-> Config!FlattenSeq(devices)]
<1>1. CASE Config!LoadPort(data, index, templates) = <<>>
  BY <1>1
<1>2. CASE Config!LoadPort(data, index, templates) # <<>>
  <2>1. Refused \notin Config!Range(devices) /\ Config!LoadPort(data, index, templates) = <<port>>
    BY <1>2 DEF Config!LoadPort
  <2>2. PICK n \in Nat : DOMAIN sources = 1..n
    BY ArrayOf DEF Config!PortArrays
  <2>3. devices = [i \in 1..n |-> devices[i]]
    BY <2>2
  <2> DEFINE P == {x \in UNION {Config!Range(devices[i]) : i \in 1..n} : Announced(x)}
  <2>4. ASSUME NEW i \in 1..n PROVE devices[i] = <<>> \/ \E x \in P : devices[i] = <<x>>
    <3>1. devices[i] = Config!LoadDevice(sources[i], <<"wb-modbus", index, i - 1>>, templates)
      BY <2>2
    <3>2. devices[i] # Refused
      BY <2>1, <2>2 DEF Config!Range
    <3>3. Config!DeviceArrays(sources[i])
      BY <2>2 DEF Config!PortArrays
    <3> HIDE DEF sources, devices
    <3>4. \/ devices[i] = <<>>
          \/ \E x : Announced(x) /\ devices[i] = <<x>>
      <4> DEFINE d == devices[i]
      <4> HIDE DEF d
      <4>1. d = Config!LoadDevice(sources[i], <<"wb-modbus", index, i - 1>>, templates)
        BY <3>1, Zenon DEF d
      <4>2. d # Refused
        BY <3>2, Zenon DEF d
      <4>3. d = <<>> \/ \E x : Announced(x) /\ d = <<x>>
        BY <3>3, <4>1, <4>2, DeviceLoaded, ZenonT(40)
      <4>4. QED
        BY <4>3, Zenon DEF d
    <3>5. ASSUME NEW x, Announced(x), devices[i] = <<x>> PROVE x \in P
      <4>1. x \in Config!Range(<<x>>)
        BY DEF Config!Range
      <4>2. QED
        BY <3>5, <4>1
    <3>6. QED
      BY <3>4, <3>5, Zenon
  <2> HIDE DEF devices
  <2>5. \A k \in DOMAIN Config!FlattenSeq(devices) : Config!FlattenSeq(devices)[k] \in P
    <3> HIDE DEF P
    <3>1. QED
      BY <2>3, <2>4, FlattenOnly, Zenon
  <2>6. \A k \in DOMAIN Config!FlattenSeq(devices) : Announced(Config!FlattenSeq(devices)[k])
    BY <2>5
  <2>7. Sound(port)
    <3>1. port.devices = Config!FlattenSeq(devices)
      OBVIOUS
    <3> HIDE DEF port
    <3>2. QED
      BY <2>6, <3>1, Zenon DEF Sound
  <2> HIDE DEF port
  <2>8. QED
    BY <2>1, <2>7, Zenon
<1>3. QED
  BY <1>1, <1>2

LEMMA ConfigLoaded ==
  ASSUME Config!FilesAreJson, NEW given \in Roots,
         Config!LoadConfig(given, Config!ParseTemplates(Files)) # Refused
  PROVE  LET loaded == Config!LoadConfig(given, Config!ParseTemplates(Files)) IN
           \A p \in DOMAIN loaded : Sound(loaded[p])
<1>1. PICK templates : templates = Config!ParseTemplates(Files)
  OBVIOUS
<1> DEFINE ps == [i \in DOMAIN given.ports |->
                    Config!LoadPort(given.ports[i], i - 1, templates)]
<1>2. /\ templates # Refused /\ Config!Has(given, "ports") /\ Refused \notin Config!Range(ps)
      /\ Config!LoadConfig(given, templates) = Config!FlattenSeq(ps)
  BY <1>1 DEF Config!LoadConfig
<1>3. PICK n \in Nat : DOMAIN given.ports = 1..n
  BY <1>2, ArrayOf DEF Config!FilesAreJson
<1>4. ps = [i \in 1..n |-> ps[i]]
  BY <1>3
<1> DEFINE P == {x \in UNION {Config!Range(ps[i]) : i \in 1..n} : Sound(x)}
<1>5. ASSUME NEW i \in 1..n PROVE ps[i] = <<>> \/ \E x \in P : ps[i] = <<x>>
  <2>1. ps[i] = Config!LoadPort(given.ports[i], i - 1, templates)
    BY <1>3
  <2>2. ps[i] # Refused
    BY <1>2, <1>3 DEF Config!Range
  <2>3. Config!PortArrays(given.ports[i])
    BY <1>2, <1>3 DEF Config!FilesAreJson
  <2> HIDE DEF ps
  <2>4. \/ ps[i] = <<>>
        \/ \E x : Sound(x) /\ ps[i] = <<x>>
    BY <1>1, <1>2, <2>1, <2>2, <2>3, PortLoaded
  <2>5. ASSUME NEW x, Sound(x), ps[i] = <<x>> PROVE x \in P
    <3>1. x \in Config!Range(<<x>>)
      BY DEF Config!Range
    <3>2. QED
      BY <2>5, <3>1
  <2>6. QED
    BY <2>4, <2>5, Zenon
<1> HIDE DEF ps
<1>6. \A k \in DOMAIN Config!FlattenSeq(ps) : Config!FlattenSeq(ps)[k] \in P
  <2> HIDE DEF P
  <2>1. QED
    BY <1>4, <1>5, FlattenOnly, Zenon
<1>7. \A k \in DOMAIN Config!FlattenSeq(ps) : Sound(Config!FlattenSeq(ps)[k])
  BY <1>6
<1>8. QED
  BY <1>1, <1>2, <1>7, Zenon

\* Whatever the files hold, as long as the arrays in them are arrays: what a
\* channel announces holds for each of its registers.
THEOREM ChannelsUniform == Config!Spec => []ChannelsAreUniform
<1> DEFINE SoundPorts == Config!Loaded => \A p \in DOMAIN ports : Sound(ports[p])
           Inv == root \in Roots /\ SoundPorts
<1>1. Config!Init => Inv
  BY DEF Config!Init, Config!Loaded
<1>2. Inv /\ [Config!Next]_Config!cvars => Inv'
  <2>1. ASSUME Inv, Config!Load PROVE Inv'
    <3>1. ports' = Config!LoadConfig(root, Config!ParseTemplates(Files)) /\ root' = root
      BY <2>1 DEF Config!Load
    <3>2. ASSUME ports' # Refused PROVE \A p \in DOMAIN ports' : Sound(ports'[p])
      BY <2>1, <3>1, <3>2, ConfigLoaded, FilesAssumption, Zenon
    <3>3. QED
      BY <2>1, <3>1, <3>2 DEF Config!Loaded
  <2>2. ASSUME Inv, UNCHANGED Config!cvars PROVE Inv'
    BY <2>2 DEF Config!cvars, Config!Loaded
  <2>3. QED
    BY <2>1, <2>2 DEF Config!Next
<1>3. Inv => ChannelsAreUniform
  BY DEF ChannelsAreUniform, Config!ChannelsAreUniform, Sound, Announced
<1>4. QED
  BY <1>1, <1>2, <1>3, PTL DEF Config!Spec

\* Each element of what is put together of sequences of at most one is such a
\* sequence's, and no other element is the same one's: off tells which.
OneEach(f, ss, n, off) ==
  \A j \in DOMAIN f : \E k \in 1..n : ss[k] = <<f[j]>> /\ off[k] = j

LEMMA FlattenChooses ==
  ASSUME NEW P, NEW n \in Nat, NEW ss, ss = [i \in 1..n |-> ss[i]],
         \A i \in 1..n : ss[i] = <<>> \/ \E x \in P : ss[i] = <<x>>
  PROVE  /\ Config!FlattenSeq(ss) \in Seq(P)
         /\ \E off : OneEach(Config!FlattenSeq(ss), ss, n, off)
<1>1. ASSUME NEW i \in 1..n
      PROVE  ss[i] \in Seq(P) /\ (Len(ss[i]) = 0 \/ \E x \in P : ss[i] = <<x>> /\ Len(ss[i]) = 1)
  <2>1. CASE ss[i] = <<>>
    <3>1. Len(<<>>) = 0
      OBVIOUS
    <3>2. QED
      BY <2>1, <3>1, EmptySeq, Zenon
  <2>2. ASSUME NEW x \in P, ss[i] = <<x>>
        PROVE  ss[i] \in Seq(P) /\ (Len(ss[i]) = 0 \/ \E y \in P : ss[i] = <<y>> /\ Len(ss[i]) = 1)
    <3>1. <<x>> \in Seq(P) /\ Len(<<x>>) = 1
      OBVIOUS
    <3>2. QED
      BY <2>2, <3>1, Zenon
  <2>3. QED
    BY <2>1, <2>2, Zenon
<1>2. ss \in Seq(Seq(P)) /\ Len(ss) = n
  <2>1. ss \in [1..n -> Seq(P)]
    BY <1>1
  <2>2. QED
    BY <2>1
<1>3. PICK f : f = Config!FlattenSeq(ss)
  OBVIOUS
<1>4. f \in Seq(P) /\ \E off : LaidOut(f, ss, off)
  <2>1. Config!FlattenSeq(ss) = Seqs!FlattenSeq(ss)
    BY DEF Config!FlattenSeq, Seqs!FlattenSeq
  <2>2. QED
    BY <1>2, <1>3, <2>1, FlatLaid, Zenon
<1>5. PICK off : LaidOut(f, ss, off)
  BY <1>4, Zenon
<1>6. PICK m \in Nat : m = Len(f) /\ DOMAIN f = 1..m
  BY <1>4, LenProperties
<1>7. /\ off[0] = 0 /\ off[n] = m
      /\ \A k \in 0..n : off[k] \in Nat
      /\ \A k \in 1..n : off[k] = off[k - 1] + Len(ss[k]) /\ Stands(ss[k], f, off[k - 1])
  BY <1>2, <1>5, <1>6, Zenon DEF LaidOut
<1>8. ASSUME NEW j \in 1..m PROVE \E k \in 1..n : ss[k] = <<f[j]>> /\ off[k] = j
  <2> DEFINE K == {k \in Nat : k <= n /\ j <= off[k]}
  <2>1. n \in K
    BY <1>7
  <2>2. PICK k \in K : \A l \in K : k <= l
    BY <2>1, LeastNumber
  <2>3. k # 0
    BY <1>7, <2>2
  <2>4. PICK l \in Nat : l = k - 1 /\ l \in 0..n /\ k \in 1..n /\ ~(k <= l)
    BY <2>2, <2>3
  <2>5. off[l] \in Nat /\ ~(j <= off[l])
    BY <1>7, <2>2, <2>4
  <2>6. off[k] = off[l] + Len(ss[k]) /\ j <= off[k] /\ Stands(ss[k], f, off[l])
    BY <1>7, <2>2, <2>4
  <2>7. Len(ss[k]) # 0
    BY <2>5, <2>6
  <2>8. PICK x \in P : ss[k] = <<x>> /\ Len(ss[k]) = 1
    BY <1>1, <2>4, <2>7, Zenon
  <2>9. off[k] = j /\ off[l] + 1 = j
    <3>1. off[k] = off[l] + 1
      BY <2>6, <2>8, Zenon
    <3>2. PICK a \in Nat : a = off[l] /\ ~(j <= a)
      BY <2>5
    <3>3. j <= a + 1
      BY <2>6, <3>1, <3>2, Zenon
    <3>4. a + 1 = j
      BY <3>2, <3>3
    <3>5. QED
      BY <3>1, <3>2, <3>4, Zenon
  <2>10. f[off[l] + 1] = x
    <3>1. 1 \in 1..1 /\ <<x>>[1] = x
      OBVIOUS
    <3>2. 1 \in 1..Len(ss[k]) /\ ss[k][1] = x
      BY <2>8, <3>1, Zenon
    <3>3. QED
      BY <2>6, <3>2, Zenon DEF Stands
  <2>11. QED
    BY <2>4, <2>8, <2>9, <2>10, Zenon
<1>9. OneEach(f, ss, n, off)
  BY <1>6, <1>8, Zenon DEF OneEach
<1>10. QED
  BY <1>3, <1>4, <1>9, Zenon

\* The identifier a device at a place is to have.
Template(data) ==
  IF Config!Has(data, "device_type") /\ Config!Has(Config!Templates, data.device_type)
    THEN Config!Templates[data.device_type] ELSE [none |-> TRUE]
IdOf(data, default) ==
  Config!DeviceId(data, default, Template(data), Config!GetInt(data, "slave_id"))

\* Channels and setup items leave the identifier alone.
HasId(d, id) ==
  \E slave, setup, channels :
    d = [id |-> id, slave |-> slave, setup |-> setup, channels |-> channels]

LEMMA VectorsKeepId ==
  ASSUME NEW d, NEW id, HasId(d, id), NEW data, Config!LoadDeviceVectors(d, data) # Refused
  PROVE  HasId(Config!LoadDeviceVectors(d, data), id)
<1> DEFINE sources == Config!Get(data, "setup", <<>>)
           items == [i \in DOMAIN sources |-> Config!LoadSetupItem(sources[i])]
           have == Len(d.channels)
           more == Config!Get(data, "channels", <<>>)
           loaded == [i \in DOMAIN more |-> Config!LoadChannel(d.slave, more[i], have + i)]
<1>1. Config!LoadDeviceVectors(d, data) = [d EXCEPT !.setup = @ \o items, !.channels = @ \o loaded]
  BY DEF Config!LoadDeviceVectors
<1> HIDE DEF items, loaded
<1>2. PICK slave, setup, channels :
        d = [id |-> id, slave |-> slave, setup |-> setup, channels |-> channels]
  BY DEF HasId
<1>3. PICK a, b : a = d.setup \o items /\ b = d.channels \o loaded
  OBVIOUS
<1>4. PICK r : r = [d EXCEPT !.setup = a, !.channels = b]
  OBVIOUS
<1>5. r = [id |-> id, slave |-> slave, setup |-> a, channels |-> b]
  BY <1>2, <1>4
<1>6. r = Config!LoadDeviceVectors(d, data)
  BY <1>1, <1>3, <1>4, Zenon
<1>7. HasId(r, id)
  BY <1>5, Zenon DEF HasId
<1>8. QED
  BY <1>6, <1>7, Zenon

LEMMA LoadedId ==
  ASSUME NEW data, NEW default, NEW x,
         Config!LoadDevice(data, default, Config!Templates) = <<x>>, Refused # <<x>>
  PROVE  x.id = IdOf(data, default) /\ Config!Enabled(data)
<1> DEFINE bare == [id |-> IdOf(data, default), slave |-> Config!GetInt(data, "slave_id"),
                    setup |-> <<>>, channels |-> <<>>]
<1>1. PICK y : y = Config!LoadBoth(bare, Template(data), data)
  OBVIOUS
<1>2. Config!Enabled(data) /\ y # Refused /\ <<x>> = <<y>>
  BY <1>1 DEF Config!LoadDevice, Template, IdOf
<1>3. PICK first : first = Config!LoadDeviceVectors(bare, Template(data))
  OBVIOUS
<1>4. first # Refused /\ y = Config!LoadDeviceVectors(first, data)
  BY <1>1, <1>2, <1>3 DEF Config!LoadBoth
<1>5. HasId(first, IdOf(data, default))
  <2>1. HasId(bare, IdOf(data, default))
    BY Zenon DEF HasId
  <2> HIDE DEF bare
  <2>2. QED
    BY <1>3, <1>4, <2>1, VectorsKeepId, Zenon
<1>6. HasId(y, IdOf(data, default))
  BY <1>2, <1>4, <1>5, VectorsKeepId, Zenon
<1>7. x = y
  BY <1>2
<1>8. x.id = IdOf(data, default)
  BY <1>6, <1>7 DEF HasId
<1>9. QED
  BY <1>2, <1>8, Zenon

\* Devices that are apart have identifiers of their own.
DefaultId(place) == <<"wb-modbus", place[1] - 1, place[2] - 1>>
PlaceId(place) == IdOf(Config!Source(place), DefaultId(place))

\* Where an identifier comes from.
LEMMA IdComesFrom ==
  ASSUME Config!KindsApart, NEW x \in Config!Places
  PROVE  LET d == Config!Source(x) IN
           IF Config!Has(d, "id") THEN PlaceId(x) = d.id
           ELSE IF Config!HasTemplate(d)
             THEN PlaceId(x) = Append(Config!Templates[d.device_type].id,
                                      Config!GetInt(d, "slave_id"))
           ELSE PlaceId(x) = DefaultId(x)
<1>1. PICK d : d = Config!Source(x)
  OBVIOUS
<1>2. CASE Config!Has(d, "id")
  <2>1. d.id \in Config!Given
    BY <1>1, <1>2 DEF Config!Given
  <2>2. DefaultId(x) \in Config!MadeOfPlace
    BY DEF Config!MadeOfPlace, DefaultId
  <2>3. d.id # DefaultId(x)
    BY <2>1, <2>2 DEF Config!KindsApart
  <2>4. PlaceId(x) = d.id
    BY <1>1, <1>2, <2>3, Zenon DEF PlaceId, IdOf, Config!DeviceId, Config!Get
  <2>5. QED
    BY <1>1, <1>2, <2>4, Zenon
<1>3. CASE ~Config!Has(d, "id") /\ Config!HasTemplate(d)
  <2>1. Template(d) = Config!Templates[d.device_type] /\ Config!Has(Template(d), "id")
    BY <1>3, Zenon DEF Template, Config!HasTemplate
  <2>2. PlaceId(x) = Append(Config!Templates[d.device_type].id, Config!GetInt(d, "slave_id"))
    BY <1>1, <1>3, <2>1, Zenon DEF PlaceId, IdOf, Config!DeviceId, Config!Get
  <2>3. QED
    BY <1>1, <1>3, <2>2, Zenon
<1>4. CASE ~Config!Has(d, "id") /\ ~Config!HasTemplate(d)
  <2>1. ~Config!Has([none |-> TRUE], "id")
    BY DEF Config!Has
  <2>2. ~Config!Has(Template(d), "id")
    BY <1>4, <2>1, Zenon DEF Template, Config!HasTemplate
  <2>3. PlaceId(x) = DefaultId(x)
    BY <1>1, <1>4, <2>2, Zenon DEF PlaceId, IdOf, Config!DeviceId, Config!Get
  <2>4. QED
    BY <1>1, <1>4, <2>3, Zenon
<1>5. QED
  BY <1>2, <1>3, <1>4, Zenon

\* Made identifiers tell what they are made of.
LEMMA AppendTells ==
  ASSUME NEW S, NEW T, NEW a \in Seq(S), NEW b \in Seq(T), NEW n, NEW m,
         Append(a, n) = Append(b, m)
  PROVE  a = b /\ n = m
OBVIOUS

\* A place is a pair of numbers.
LEMMA PlacesType ==
  ASSUME Config!FilesAreJson, root \in Roots, Config!Has(root, "ports"), NEW x \in Config!Places
  PROVE  \E p \in Nat, i \in Nat :
           /\ x = <<p, i>> /\ p \in DOMAIN root.ports /\ Config!Enabled(root.ports[p])
           /\ i \in DOMAIN Config!Get(root.ports[p], "devices", <<>>)
<1>1. PICK p \in DOMAIN root.ports :
        Config!Enabled(root.ports[p])
          /\ x \in {p} \X DOMAIN Config!Get(root.ports[p], "devices", <<>>)
  BY DEF Config!Places
<1>2. PICK i \in DOMAIN Config!Get(root.ports[p], "devices", <<>>) : x = <<p, i>>
  BY <1>1
<1>3. Config!IsArray(root.ports) /\ Config!PortArrays(root.ports[p])
  BY <1>1 DEF Config!FilesAreJson
<1>4. Config!IsArray(Config!Get(root.ports[p], "devices", <<>>))
  BY <1>3 DEF Config!PortArrays
<1>5. DOMAIN root.ports \subseteq Nat /\ DOMAIN Config!Get(root.ports[p], "devices", <<>>) \subseteq Nat
  <2>1. ASSUME NEW s, Config!IsArray(s) PROVE DOMAIN s \subseteq Nat
    BY <2>1, ArrayOf
  <2>2. QED
    BY <1>3, <1>4, <2>1, Zenon
<1>6. QED
  BY <1>1, <1>2, <1>5, Zenon

LEMMA TemplateId ==
  ASSUME Config!FilesAreJson, Config!Templates # Refused, NEW d, Config!HasTemplate(d)
  PROVE  Config!IsArray(Config!Templates[d.device_type].id)
<1>1. PICK type \in DOMAIN Config!Templates : type = d.device_type
  BY DEF Config!HasTemplate, Config!Has
<1>2. PICK templates : templates = Config!Templates /\ templates = Config!ParseTemplates(Files)
  BY DEF Config!Templates
<1>3. Config!IsArray(Config!Get(templates[type], "id", <<>>))
  BY <1>1, <1>2, TemplateArrays, Zenon
<1>4. Config!Has(templates[type], "id")
  BY <1>1, <1>2, Zenon DEF Config!HasTemplate
<1>5. QED
  BY <1>1, <1>2, <1>3, <1>4, Zenon DEF Config!Get

\* Devices at different places have different identifiers.
LEMMA PlacesApart ==
  ASSUME Config!FilesAreJson, Config!Templates # Refused, Config!KindsApart,
         \A v, w \in Config!Places : v # w => ~Config!Clash(Config!Source(v), Config!Source(w)),
         root \in Roots, Config!Has(root, "ports"),
         NEW x \in Config!Places, NEW y \in Config!Places, PlaceId(x) = PlaceId(y)
  PROVE  x = y
<1> DEFINE Named(z) == Config!Has(Config!Source(z), "id")
           Typed(z) == ~Named(z) /\ Config!HasTemplate(Config!Source(z))
           Bare(z) == ~Named(z) /\ ~Config!HasTemplate(Config!Source(z))
           Made(z) == Append(Config!Templates[Config!Source(z).device_type].id,
                             Config!GetInt(Config!Source(z), "slave_id"))
<1>1. ASSUME NEW z \in Config!Places
      PROVE  /\ Named(z) => PlaceId(z) = Config!Source(z).id /\ PlaceId(z) \in Config!Given
             /\ Typed(z) => PlaceId(z) = Made(z) /\ PlaceId(z) \in Config!MadeOfTemplate
             /\ Bare(z) => PlaceId(z) = DefaultId(z) /\ PlaceId(z) \in Config!MadeOfPlace
  <2>1. Named(z) => Config!Source(z).id \in Config!Given
    BY DEF Config!Given
  <2>2. Typed(z) => Made(z) \in Config!MadeOfTemplate
    BY DEF Config!MadeOfTemplate
  <2>3. DefaultId(z) \in Config!MadeOfPlace
    BY DEF Config!MadeOfPlace, DefaultId
  <2>4. QED
    BY <2>1, <2>2, <2>3, IdComesFrom, Zenon
<1>2. Named(x) \/ Typed(x) \/ Bare(x)
  OBVIOUS
<1>3. (Named(x) <=> Named(y)) /\ (Typed(x) <=> Typed(y)) /\ (Bare(x) <=> Bare(y))
  <2>1. ASSUME NEW i
        PROVE  /\ ~(i \in Config!Given /\ i \in Config!MadeOfTemplate)
               /\ ~(i \in Config!Given /\ i \in Config!MadeOfPlace)
               /\ ~(i \in Config!MadeOfPlace /\ i \in Config!MadeOfTemplate)
    BY DEF Config!KindsApart
  <2> HIDE DEF Made
  <2>2. QED
    BY <1>1, <2>1, Zenon
<1>4. CASE Named(x)
  <2>1. Config!Clash(Config!Source(x), Config!Source(y))
    BY <1>1, <1>3, <1>4, Zenon DEF Config!Clash
  <2>2. QED
    BY <2>1
<1>5. CASE Typed(x)
  <2>1. Made(x) = Made(y)
    BY <1>1, <1>3, <1>5, Zenon
  <2>2. PICK a, b, n, m : /\ a = Config!Templates[Config!Source(x).device_type].id
                          /\ b = Config!Templates[Config!Source(y).device_type].id
                          /\ n = Config!GetInt(Config!Source(x), "slave_id")
                          /\ m = Config!GetInt(Config!Source(y), "slave_id")
    OBVIOUS
  <2>3. Config!IsArray(a) /\ Config!IsArray(b)
    BY <1>3, <1>5, <2>2, TemplateId, Zenon
  <2>4. a \in Seq(Config!Range(a)) /\ b \in Seq(Config!Range(b)) /\ Append(a, n) = Append(b, m)
    BY <2>1, <2>2, <2>3, Zenon DEF Config!IsArray
  <2>5. a = b /\ n = m
    <3>1. PICK S, T : S = Config!Range(a) /\ T = Config!Range(b)
      OBVIOUS
    <3>2. a \in Seq(S) /\ b \in Seq(T)
      BY <2>4, <3>1, Zenon
    <3>3. QED
      BY <2>4, <3>2, AppendTells, SMT
  <2>6. PICK t, u : t = Config!Source(x).device_type /\ u = Config!Source(y).device_type
    OBVIOUS
  <2>7. /\ t \in DOMAIN Config!Templates /\ u \in DOMAIN Config!Templates
        /\ Config!Has(Config!Templates[t], "id") /\ Config!Has(Config!Templates[u], "id")
    BY <1>3, <1>5, <2>6, Zenon DEF Config!HasTemplate, Config!Has
  <2>8. t = u
    BY <2>2, <2>5, <2>6, <2>7, Zenon DEF Config!KindsApart
  <2>9. Config!Has(Config!Source(x), "device_type") /\ Config!Has(Config!Source(y), "device_type")
    BY <1>3, <1>5, Zenon DEF Config!HasTemplate
  <2>10. Config!Clash(Config!Source(x), Config!Source(y))
    BY <1>3, <1>5, <2>2, <2>5, <2>6, <2>8, <2>9, Zenon DEF Config!Clash
  <2>11. QED
    BY <2>10
<1>6. CASE Bare(x)
  <2>1. DefaultId(x) = DefaultId(y)
    BY <1>1, <1>3, <1>6, Zenon
  <2>2. x[1] - 1 = y[1] - 1 /\ x[2] - 1 = y[2] - 1
    BY <2>1 DEF DefaultId
  <2>3. PICK p \in Nat, q \in Nat, i \in Nat, j \in Nat : x = <<p, i>> /\ y = <<q, j>>
    BY PlacesType
  <2>4. QED
    BY <2>2, <2>3
<1>7. QED
  BY <1>2, <1>4, <1>5, <1>6

\* The devices of a port are each of one of its sources, and of no other's: off
\* tells which.
PortHome(data, index, port, off) ==
  LET sources == Config!Get(data, "devices", <<>>) IN
    \A d \in DOMAIN port.devices : \E i \in DOMAIN sources :
      /\ Config!LoadDevice(sources[i], <<"wb-modbus", index, i - 1>>, Config!Templates)
           = <<port.devices[d]>>
      /\ <<port.devices[d]>> # Refused
      /\ off[i] = d

LEMMA PortHomes ==
  ASSUME Config!FilesAreJson, Config!Templates # Refused,
         NEW data, Config!PortArrays(data), NEW index, NEW port,
         Config!LoadPort(data, index, Config!Templates) = <<port>>, <<port>> # Refused
  PROVE  /\ Config!Enabled(data)
         /\ \E S : port.devices \in Seq(S)
         /\ \E off : PortHome(data, index, port, off)
<1> DEFINE sources == Config!Get(data, "devices", <<>>)
           devices == [i \in DOMAIN sources |->
             Config!LoadDevice(sources[i], <<"wb-modbus", index, i - 1>>, Config!Templates)]
           data_bits == IF Config!Has(data, "data_bits") THEN Config!GetInt(data, "data_bits")
                        ELSE IF Config!Has(data, "parity") THEN Config!CharCode[data.parity]
                        ELSE 8
           made == [parity |-> "N", data_bits |-> data_bits,
                    devices |-> Config!FlattenSeq(devices)]
<1>1. Config!Enabled(data) /\ Refused \notin Config!Range(devices) /\ <<port>> = <<made>>
  BY DEF Config!LoadPort
<1>2. PICK n \in Nat : DOMAIN sources = 1..n
  BY ArrayOf DEF Config!PortArrays
<1>3. devices = [i \in 1..n |-> devices[i]]
  BY <1>2
<1>4. PICK f : f = Config!FlattenSeq(devices) /\ port.devices = f
  <2>1. made.devices = Config!FlattenSeq(devices)
    OBVIOUS
  <2> HIDE DEF made
  <2>2. port = made
    BY <1>1
  <2>3. QED
    BY <2>1, <2>2, Zenon
<1> DEFINE P == UNION {Config!Range(devices[i]) : i \in 1..n}
<1>5. ASSUME NEW i \in 1..n
      PROVE  /\ devices[i] = Config!LoadDevice(sources[i], <<"wb-modbus", index, i - 1>>,
                                               Config!Templates)
             /\ devices[i] # Refused
             /\ devices[i] = <<>> \/ \E x \in P : devices[i] = <<x>>
  <2>1. devices[i] = Config!LoadDevice(sources[i], <<"wb-modbus", index, i - 1>>,
                                       Config!Templates)
    BY <1>2
  <2>2. devices[i] # Refused
    BY <1>1, <1>2 DEF Config!Range
  <2>3. Config!DeviceArrays(sources[i])
    BY <1>2 DEF Config!PortArrays
  <2> HIDE DEF sources, devices
  <2>4. PICK loaded : loaded = devices[i]
    OBVIOUS
  <2>5. PICK templates : templates = Config!Templates /\ templates = Config!ParseTemplates(Files)
    BY DEF Config!Templates
  <2>6. loaded = Config!LoadDevice(sources[i], <<"wb-modbus", index, i - 1>>, templates)
          /\ loaded # Refused /\ templates # Refused
    BY <2>1, <2>2, <2>4, <2>5, Zenon
  <2>7. loaded = <<>> \/ \E x : Announced(x) /\ loaded = <<x>>
    BY <2>3, <2>5, <2>6, DeviceLoaded, ZenonT(40)
  <2>8. ASSUME NEW x, loaded = <<x>> PROVE x \in P
    <3>1. x \in Config!Range(<<x>>)
      BY DEF Config!Range
    <3>2. QED
      BY <2>4, <2>8, <3>1
  <2>9. QED
    BY <2>1, <2>2, <2>4, <2>7, <2>8, Zenon
<1> HIDE DEF devices, P
<1>6. f \in Seq(P) /\ \E off : OneEach(f, devices, n, off)
  <2>1. \A i \in 1..n : devices[i] = <<>> \/ \E x \in P : devices[i] = <<x>>
    BY <1>5, Zenon
  <2>2. /\ Config!FlattenSeq(devices) \in Seq(P)
        /\ \E off : OneEach(Config!FlattenSeq(devices), devices, n, off)
    BY <1>3, <2>1, FlattenChooses, Zenon
  <2>3. QED
    BY <1>4, <2>2, Zenon
<1>7. PICK off : OneEach(f, devices, n, off)
  BY <1>6, Zenon
<1>8. PortHome(data, index, port, off)
  <2>1. ASSUME NEW d \in DOMAIN f
        PROVE  \E i \in DOMAIN sources :
                 /\ Config!LoadDevice(sources[i], <<"wb-modbus", index, i - 1>>, Config!Templates)
                      = <<f[d]>>
                 /\ <<f[d]>> # Refused
                 /\ off[i] = d
    BY <1>2, <1>5, <1>7, Zenon DEF OneEach
  <2>2. QED
    BY <1>4, <2>1, Zenon DEF PortHome
<1>9. QED
  BY <1>1, <1>4, <1>6, <1>8, Zenon

\* So are the devices of all ports each of a place of its own.
Home(x, p, d) ==
  /\ x \in Config!Places
  /\ Config!LoadDevice(Config!Source(x), DefaultId(x), Config!Templates) = <<ports[p].devices[d]>>
  /\ <<ports[p].devices[d]>> # Refused

LoadedPorts ==
  /\ root \in Roots
  /\ ports = Config!LoadConfig(root, Config!Templates)
  /\ ports # Refused

HomesTell(at) ==
  \A p \in DOMAIN ports : \A d \in DOMAIN ports[p].devices :
    \E x : Home(x, p, d) /\ at[x] = <<p, d>>

LEMMA Homes ==
  ASSUME Config!FilesAreJson, LoadedPorts
  PROVE  /\ Config!Templates # Refused /\ Config!Has(root, "ports")
         /\ \E S : ports \in Seq(S)
         /\ \A p \in DOMAIN ports : \E S : ports[p].devices \in Seq(S)
         /\ \E at : HomesTell(at)
<1> DEFINE ps == [i \in DOMAIN root.ports |->
                    Config!LoadPort(root.ports[i], i - 1, Config!Templates)]
<1>1. /\ Config!Templates # Refused /\ Config!Has(root, "ports")
      /\ Refused \notin Config!Range(ps) /\ ports = Config!FlattenSeq(ps)
  BY DEF Config!LoadConfig, LoadedPorts
<1>2. PICK n \in Nat : DOMAIN root.ports = 1..n
  BY <1>1, ArrayOf DEF Config!FilesAreJson, LoadedPorts
<1>3. ps = [i \in 1..n |-> ps[i]]
  BY <1>2
<1> DEFINE P == UNION {Config!Range(ps[i]) : i \in 1..n}
<1>4. ASSUME NEW i \in 1..n
      PROVE  /\ ps[i] = Config!LoadPort(root.ports[i], i - 1, Config!Templates)
             /\ ps[i] # Refused
             /\ Config!PortArrays(root.ports[i])
             /\ ps[i] = <<>> \/ \E x \in P : ps[i] = <<x>>
  <2>1. ps[i] = Config!LoadPort(root.ports[i], i - 1, Config!Templates)
    BY <1>2
  <2>2. ps[i] # Refused
    BY <1>1, <1>2 DEF Config!Range
  <2>3. Config!PortArrays(root.ports[i])
    BY <1>1, <1>2 DEF Config!FilesAreJson, LoadedPorts
  <2> HIDE DEF ps
  <2>4. PICK templates : templates = Config!Templates /\ templates = Config!ParseTemplates(Files)
    BY DEF Config!Templates
  <2>5. ps[i] = <<>> \/ \E x : Sound(x) /\ ps[i] = <<x>>
    BY <1>1, <2>1, <2>2, <2>3, <2>4, PortLoaded
  <2>6. ASSUME NEW x, ps[i] = <<x>> PROVE x \in P
    <3>1. x \in Config!Range(<<x>>)
      BY DEF Config!Range
    <3>2. QED
      BY <2>6, <3>1
  <2>7. QED
    BY <2>1, <2>2, <2>3, <2>5, <2>6, Zenon
<1> HIDE DEF ps, P
<1>5. ports \in Seq(P) /\ \E off : OneEach(ports, ps, n, off)
  BY <1>1, <1>3, <1>4, FlattenChooses, Zenon
<1>6. PICK off : OneEach(ports, ps, n, off)
  BY <1>5, Zenon
<1> DEFINE offs == [k \in 1..n |-> CHOOSE o : PortHome(root.ports[k], k - 1, ps[k][1], o)]
           at == [x \in Config!Places |-> <<off[x[1]], offs[x[1]][x[2]]>>]
<1>7. ASSUME NEW p \in DOMAIN ports
      PROVE  \E k \in 1..n :
               /\ off[k] = p /\ Config!Enabled(root.ports[k])
               /\ PortHome(root.ports[k], k - 1, ports[p], offs[k])
               /\ \E S : ports[p].devices \in Seq(S)
  <2>1. PICK k \in 1..n : ps[k] = <<ports[p]>> /\ off[k] = p
    BY <1>6, Zenon DEF OneEach
  <2>2. PICK port, index : port = ports[p] /\ index = k - 1
    OBVIOUS
  <2>3. /\ Config!LoadPort(root.ports[k], index, Config!Templates) = <<port>>
        /\ <<port>> # Refused /\ Config!PortArrays(root.ports[k])
    BY <1>4, <2>1, <2>2, Zenon
  <2>4. /\ Config!Enabled(root.ports[k])
        /\ \E S : port.devices \in Seq(S)
        /\ \E o : PortHome(root.ports[k], index, port, o)
    BY <1>1, <2>3, PortHomes, Zenon
  <2>5. ps[k][1] = port
    BY <2>1, <2>2
  <2>6. PICK o : o = CHOOSE z : PortHome(root.ports[k], index, port, z)
    OBVIOUS
  <2>7. PortHome(root.ports[k], index, port, o)
    BY <2>4, <2>6, Zenon
  <2>8. offs[k] = CHOOSE z : PortHome(root.ports[k], k - 1, ps[k][1], z)
    OBVIOUS
  <2>9. offs[k] = o
    BY <2>2, <2>5, <2>6, <2>8, Zenon
  <2>10. QED
    BY <2>1, <2>2, <2>4, <2>7, <2>9, Zenon
<1> HIDE DEF offs
<1>8. ASSUME NEW p \in DOMAIN ports, NEW d \in DOMAIN ports[p].devices
      PROVE  \E x : Home(x, p, d) /\ at[x] = <<p, d>>
  <2>1. PICK k \in 1..n : /\ off[k] = p /\ Config!Enabled(root.ports[k])
                          /\ PortHome(root.ports[k], k - 1, ports[p], offs[k])
    BY <1>7, Zenon
  <2>2. PICK unit : unit = ports[p].devices[d]
    OBVIOUS
  <2>3. PICK i \in DOMAIN Config!Get(root.ports[k], "devices", <<>>) :
          /\ Config!LoadDevice(Config!Get(root.ports[k], "devices", <<>>)[i],
                               <<"wb-modbus", k - 1, i - 1>>, Config!Templates) = <<unit>>
          /\ <<unit>> # Refused
          /\ offs[k][i] = d
    BY <2>1, <2>2, Zenon DEF PortHome
  <2>4. root.ports[k].devices = Config!Get(root.ports[k], "devices", <<>>)
    <3>1. DOMAIN <<>> = {}
      OBVIOUS
    <3>2. QED
      BY <2>3, <3>1, Zenon DEF Config!Get
  <2>5. PICK x : x = <<k, i>>
    OBVIOUS
  <2>6. x[1] = k /\ x[2] = i
    BY <2>5
  <2>7. Config!Source(x) = Config!Get(root.ports[k], "devices", <<>>)[i]
          /\ DefaultId(x) = <<"wb-modbus", k - 1, i - 1>>
    BY <2>4, <2>6, Zenon DEF Config!Source, DefaultId
  <2>8. Config!LoadDevice(Config!Source(x), DefaultId(x), Config!Templates) = <<unit>>
    BY <2>3, <2>7, Zenon
  <2>9. Config!Enabled(Config!Source(x))
    BY <2>3, <2>8, LoadedId, Zenon
  <2>10. x \in Config!Places
    <3>1. x \in {k} \X DOMAIN Config!Get(root.ports[k], "devices", <<>>)
      BY <2>5
    <3>2. k \in {q \in DOMAIN root.ports : Config!Enabled(root.ports[q])}
      BY <1>2, <2>1
    <3>3. QED
      BY <2>9, <3>1, <3>2, Zenon DEF Config!Places
  <2>11. at[x] = <<p, d>>
    BY <2>1, <2>3, <2>6, <2>10
  <2>12. Home(x, p, d)
    BY <2>2, <2>3, <2>8, <2>10, Zenon DEF Home
  <2>13. QED
    BY <2>11, <2>12, Zenon
<1> HIDE DEF at
<1>9. \A p \in DOMAIN ports : \E S : ports[p].devices \in Seq(S)
  BY <1>7, Zenon
<1>10. HomesTell(at)
  BY <1>8, Zenon DEF HomesTell
<1>11. QED
  BY <1>1, <1>5, <1>9, <1>10, Zenon

\* Of different devices the identifiers are different, and none is empty.
LEMMA DevicesApart ==
  ASSUME Config!FilesAreJson, LoadedPorts, Config!NoClash
  PROVE  /\ \A p, q \in DOMAIN ports :
              \A d \in DOMAIN ports[p].devices, e \in DOMAIN ports[q].devices :
                ports[p].devices[d].id = ports[q].devices[e].id => p = q /\ d = e
         /\ \A p \in DOMAIN ports : \A d \in DOMAIN ports[p].devices :
              ports[p].devices[d].id # <<>>
<1>1. Config!Templates # Refused /\ Config!Has(root, "ports") /\ root \in Roots
  BY Homes, Zenon DEF LoadedPorts
<1>2. PICK at : HomesTell(at)
  BY Homes, Zenon
<1>3. /\ Config!KindsApart
      /\ \A v, w \in Config!Places : v # w => ~Config!Clash(Config!Source(v), Config!Source(w))
  BY DEF Config!NoClash
<1>4. ASSUME NEW p, NEW d, NEW x, Home(x, p, d)
      PROVE  x \in Config!Places /\ ports[p].devices[d].id = PlaceId(x)
  BY <1>4, LoadedId, Zenon DEF Home, PlaceId
<1>5. ASSUME NEW p \in DOMAIN ports, NEW q \in DOMAIN ports,
             NEW d \in DOMAIN ports[p].devices, NEW e \in DOMAIN ports[q].devices,
             ports[p].devices[d].id = ports[q].devices[e].id
      PROVE  p = q /\ d = e
  <2>1. PICK x : Home(x, p, d) /\ at[x] = <<p, d>>
    BY <1>2, Zenon DEF HomesTell
  <2>2. PICK y : Home(y, q, e) /\ at[y] = <<q, e>>
    BY <1>2, Zenon DEF HomesTell
  <2>3. x \in Config!Places /\ y \in Config!Places /\ PlaceId(x) = PlaceId(y)
    <3>1. x \in Config!Places /\ ports[p].devices[d].id = PlaceId(x)
      BY <1>4, <2>1, Zenon
    <3>2. y \in Config!Places /\ ports[q].devices[e].id = PlaceId(y)
      BY <1>4, <2>2, Zenon
    <3>3. QED
      BY <1>5, <3>1, <3>2, Zenon
  <2>4. x = y
    BY <1>1, <1>3, <2>3, PlacesApart, Zenon
  <2>5. <<p, d>> = <<q, e>>
    BY <2>1, <2>2, <2>4, Zenon
  <2>6. QED
    BY <2>5
<1>6. ASSUME NEW p \in DOMAIN ports, NEW d \in DOMAIN ports[p].devices
      PROVE  ports[p].devices[d].id # <<>>
  <2>1. PICK x : Home(x, p, d)
    BY <1>2, Zenon DEF HomesTell
  <2>2. x \in Config!Places /\ ports[p].devices[d].id = PlaceId(x)
    BY <1>4, <2>1, Zenon
  <2>3. PICK data : data = Config!Source(x)
    OBVIOUS
  <2>4. \/ Config!Has(data, "id") /\ PlaceId(x) = data.id
        \/ Config!HasTemplate(data)
             /\ PlaceId(x) = Append(Config!Templates[data.device_type].id,
                                    Config!GetInt(data, "slave_id"))
        \/ PlaceId(x) = DefaultId(x)
    BY <1>3, <2>2, <2>3, IdComesFrom, Zenon
  <2>5. ASSUME Config!Has(data, "id"), PlaceId(x) = data.id PROVE PlaceId(x) # <<>>
    <3>1. data.id \in Config!Given
      BY <2>2, <2>3, <2>5 DEF Config!Given
    <3>2. QED
      BY <1>3, <2>5, <3>1 DEF Config!KindsApart
  <2>6. ASSUME Config!HasTemplate(data),
               PlaceId(x) = Append(Config!Templates[data.device_type].id,
                                   Config!GetInt(data, "slave_id"))
        PROVE  PlaceId(x) # <<>>
    <3>1. PICK a, n : a = Config!Templates[data.device_type].id
                        /\ n = Config!GetInt(data, "slave_id")
      OBVIOUS
    <3>2. Config!IsArray(a)
      BY <1>1, <2>6, <3>1, TemplateId, Zenon
    <3>3. PICK S : a \in Seq(S)
      BY <3>2, Zenon DEF Config!IsArray
    <3>4. Append(a, n) # <<>>
      BY <3>3
    <3>5. QED
      BY <2>6, <3>1, <3>4, Zenon
  <2>7. DefaultId(x) # <<>>
    BY DEF DefaultId
  <2>8. QED
    BY <2>2, <2>4, <2>5, <2>6, <2>7, Zenon
<1>7. QED
  BY <1>5, <1>6, Zenon

\* The channels of a port are those of its devices.
IsEntry(entry, port) ==
  \E d \in DOMAIN port.devices : \E c \in DOMAIN port.devices[d].channels :
    entry = <<port.devices[d], port.devices[d].channels[c]>>

LEMMA Entries ==
  ASSUME NEW port, Sound(port), NEW D, port.devices \in Seq(D)
  PROVE  \E n \in Nat : DOMAIN Config!ChannelsOf(port) = 1..n
           /\ \A i \in 1..n : IsEntry(Config!ChannelsOf(port)[i], port)
<1> DEFINE of(d) == [c \in DOMAIN port.devices[d].channels |->
                       <<port.devices[d], port.devices[d].channels[c]>>]
           ss == [d \in DOMAIN port.devices |-> of(d)]
           S == {entry \in UNION {Config!Range(of(d)) : d \in DOMAIN port.devices} :
                   IsEntry(entry, port)}
<1>1. PICK n \in Nat : DOMAIN port.devices = 1..n
  BY LenProperties
<1>2. ASSUME NEW d \in 1..n PROVE of(d) \in Seq(S)
  <2>1. Config!IsArray(port.devices[d].channels)
    BY <1>1, Zenon DEF Sound, Announced
  <2>2. PICK m \in Nat : DOMAIN port.devices[d].channels = 1..m
    BY <2>1, ArrayOf
  <2>3. ASSUME NEW c \in 1..m PROVE of(d)[c] \in S
    <3>1. of(d)[c] = <<port.devices[d], port.devices[d].channels[c]>>
      BY <2>2
    <3>2. IsEntry(of(d)[c], port)
      BY <1>1, <2>2, <3>1, Zenon DEF IsEntry
    <3>3. of(d)[c] \in Config!Range(of(d))
      BY <2>2 DEF Config!Range
    <3> HIDE DEF of
    <3>4. QED
      BY <1>1, <3>2, <3>3
  <2>4. of(d) = [c \in 1..m |-> of(d)[c]]
    BY <2>2
  <2> HIDE DEF of, S
  <2>5. QED
    BY <2>3, <2>4
<1>3. ss = [d \in 1..n |-> ss[d]] /\ \A d \in 1..n : ss[d] = of(d)
  BY <1>1
<1>4. Config!ChannelsOf(port) = Config!FlattenSeq(ss)
  BY Zenon DEF Config!ChannelsOf
<1> HIDE DEF ss, S, of
<1>5. ss \in Seq(Seq(S))
  BY <1>2, <1>3
<1>6. Config!FlattenSeq(ss) = Seqs!FlattenSeq(ss)
  BY DEF Config!FlattenSeq, Seqs!FlattenSeq
<1>7. PICK f : f = Config!ChannelsOf(port) /\ f \in Seq(S)
  BY <1>4, <1>5, <1>6, FlatLaid, Zenon
<1>8. DOMAIN f = 1..Len(f) /\ Len(f) \in Nat /\ \A i \in 1..Len(f) : f[i] \in S
  BY <1>7, ElementOfSeq, LenProperties
<1>9. \A i \in 1..Len(f) : IsEntry(f[i], port)
  BY <1>8 DEF S
<1>10. QED
  BY <1>7, <1>8, <1>9, Zenon

\* One entry of the port has the topic, so it is handled there.
LEMMA HandledBy ==
  ASSUME NEW port, NEW n \in Nat, DOMAIN Config!ChannelsOf(port) = 1..n,
         NEW i \in 1..n, NEW topic, Config!Topic(Config!ChannelsOf(port)[i]) = topic,
         \A j \in 1..n : Config!Topic(Config!ChannelsOf(port)[j]) = topic =>
                           Config!ChannelsOf(port)[j] = Config!ChannelsOf(port)[i]
  PROVE  Config!Handler(port, topic) = Config!ChannelsOf(port)[i]
<1>1. PICK entries : entries = Config!ChannelsOf(port)
  OBVIOUS
<1> DEFINE named == {j \in DOMAIN entries : Config!Topic(entries[j]) = topic}
<1>2. i \in named /\ named \in SUBSET (1..n)
  BY <1>1
<1>3. Config!Handler(port, topic) = entries[CHOOSE k \in named : \A j \in named : j <= k]
  BY <1>1, <1>2 DEF Config!Handler
<1>4. PICK k : k = CHOOSE m \in named : \A j \in named : j <= m
  OBVIOUS
<1>5. k \in named
  <2> HIDE DEF named
  <2>1. \E m \in named : \A j \in named : j <= m
    BY <1>2, GreatestNumber
  <2>2. QED
    BY <1>4, <2>1, Zenon
<1>6. k \in 1..n /\ Config!Topic(entries[k]) = topic
  BY <1>1, <1>5
<1>7. entries[k] = entries[i]
  BY <1>1, <1>6, Zenon
<1>8. QED
  BY <1>1, <1>3, <1>4, <1>7, Zenon

LEMMA NotHandledBy ==
  ASSUME NEW port, NEW topic,
         \A j \in DOMAIN Config!ChannelsOf(port) :
           Config!Topic(Config!ChannelsOf(port)[j]) # topic
  PROVE  Config!Handler(port, topic) = <<>>
BY DEF Config!Handler

\* Entries with one topic are the same, and of the same port.
LEMMA TopicsApart ==
  ASSUME Config!FilesAreJson, LoadedPorts, Config!NoClash,
         NEW p \in DOMAIN ports, NEW q \in DOMAIN ports, NEW a, NEW b,
         IsEntry(a, ports[p]), IsEntry(b, ports[q]), Config!Topic(a) = Config!Topic(b)
  PROVE  p = q /\ a = b
<1>1. PICK d \in DOMAIN ports[p].devices : \E c \in DOMAIN ports[p].devices[d].channels :
        a = <<ports[p].devices[d], ports[p].devices[d].channels[c]>>
  BY Zenon DEF IsEntry
<1>2. PICK c \in DOMAIN ports[p].devices[d].channels :
        a = <<ports[p].devices[d], ports[p].devices[d].channels[c]>>
  BY <1>1, Zenon
<1>3. PICK e \in DOMAIN ports[q].devices : \E f \in DOMAIN ports[q].devices[e].channels :
        b = <<ports[q].devices[e], ports[q].devices[e].channels[f]>>
  BY Zenon DEF IsEntry
<1>4. PICK f \in DOMAIN ports[q].devices[e].channels :
        b = <<ports[q].devices[e], ports[q].devices[e].channels[f]>>
  BY <1>3, Zenon
<1>5. ports[p].devices[d].id = ports[q].devices[e].id
        /\ ports[p].devices[d].channels[c].name = ports[q].devices[e].channels[f].name
  BY <1>2, <1>4 DEF Config!Topic
<1>6. p = q /\ d = e
  <2>1. ports[p].devices[d].id = ports[q].devices[e].id
    BY <1>5, Zenon
  <2>2. QED
    BY <2>1, DevicesApart, Zenon
<1>7. c = f
  <2>1. PICK channels, others : /\ channels = ports[p].devices[d].channels
                                /\ others = ports[q].devices[e].channels
    OBVIOUS
  <2>2. channels = others
    BY <1>6, <2>1, Zenon
  <2>3. channels[c].name = others[f].name /\ c \in DOMAIN channels /\ f \in DOMAIN others
    BY <1>5, <2>1, Zenon
  <2>4. \A i, j \in DOMAIN channels : channels[i].name = channels[j].name => i = j
    BY <2>1, Zenon DEF Config!NoClash, Config!NamesApart
  <2>5. QED
    BY <2>2, <2>3, <2>4
<1>8. PICK unit, other, name, also :
        /\ unit = ports[p].devices[d] /\ other = ports[q].devices[e]
        /\ name = ports[p].devices[d].channels[c] /\ also = ports[q].devices[e].channels[f]
  OBVIOUS
<1>9. unit = other /\ name = also
  BY <1>6, <1>7, <1>8, Zenon
<1>10. a = <<unit, name>> /\ b = <<other, also>>
  BY <1>2, <1>4, <1>8, Zenon
<1>11. QED
  BY <1>6, <1>9, <1>10, Zenon

\* A command to the topic of an entry is subscribed to and comes to the entry.
CommandsArrive ==
  \A p \in DOMAIN ports : \A i \in DOMAIN Config!ChannelsOf(ports[p]) :
    LET entry == Config!ChannelsOf(ports[p])[i] IN
      /\ Config!Topic(entry) \in Config!Subscriptions(ports[p])
      /\ Config!Route(Config!Topic(entry)) = Append(entry, p)

LEMMA Arrive ==
  ASSUME Config!FilesAreJson, LoadedPorts, Config!NoClash,
         \A p \in DOMAIN ports : Sound(ports[p])
  PROVE  CommandsArrive
<1>1. ASSUME NEW p \in DOMAIN ports
      PROVE  \E n \in Nat : DOMAIN Config!ChannelsOf(ports[p]) = 1..n
               /\ \A i \in 1..n : IsEntry(Config!ChannelsOf(ports[p])[i], ports[p])
  <2>1. PICK D : ports[p].devices \in Seq(D)
    BY Homes, Zenon
  <2>2. QED
    BY <2>1, Entries, Zenon
<1>2. ASSUME NEW p \in DOMAIN ports, NEW i \in DOMAIN Config!ChannelsOf(ports[p])
      PROVE  LET entry == Config!ChannelsOf(ports[p])[i] IN
               /\ Config!Topic(entry) \in Config!Subscriptions(ports[p])
               /\ Config!Route(Config!Topic(entry)) = Append(entry, p)
  <2>1. PICK n \in Nat : DOMAIN Config!ChannelsOf(ports[p]) = 1..n
          /\ \A j \in 1..n : IsEntry(Config!ChannelsOf(ports[p])[j], ports[p])
    BY <1>1, Zenon
  <2>2. PICK entry, topic : entry = Config!ChannelsOf(ports[p])[i] /\ topic = Config!Topic(entry)
    OBVIOUS
  <2>3. IsEntry(entry, ports[p])
    BY <2>1, <2>2, Zenon
  <2>4. Config!Handler(ports[p], topic) = entry
    <3>1. \A j \in 1..n : Config!Topic(Config!ChannelsOf(ports[p])[j]) = topic =>
                            Config!ChannelsOf(ports[p])[j] = Config!ChannelsOf(ports[p])[i]
      BY <2>1, <2>2, <2>3, TopicsApart, Zenon
    <3>2. i \in 1..n /\ Config!Topic(Config!ChannelsOf(ports[p])[i]) = topic
      BY <2>1, <2>2, Zenon
    <3>3. PICK port : port = ports[p]
      OBVIOUS
    <3>4. /\ DOMAIN Config!ChannelsOf(port) = 1..n
          /\ Config!Topic(Config!ChannelsOf(port)[i]) = topic
          /\ \A j \in 1..n : Config!Topic(Config!ChannelsOf(port)[j]) = topic =>
                              Config!ChannelsOf(port)[j] = Config!ChannelsOf(port)[i]
      BY <2>1, <3>1, <3>2, <3>3, Zenon
    <3>5. Config!Handler(port, topic) = Config!ChannelsOf(port)[i]
      BY <3>2, <3>4, HandledBy, Zenon
    <3>6. QED
      BY <2>2, <3>3, <3>5, Zenon
  <2>5. ASSUME NEW q \in DOMAIN ports, q # p PROVE Config!Handler(ports[q], topic) = <<>>
    <3>1. PICK m \in Nat : DOMAIN Config!ChannelsOf(ports[q]) = 1..m
            /\ \A j \in 1..m : IsEntry(Config!ChannelsOf(ports[q])[j], ports[q])
      BY <1>1, Zenon
    <3>2. ASSUME NEW j \in DOMAIN Config!ChannelsOf(ports[q]),
                 Config!Topic(Config!ChannelsOf(ports[q])[j]) = topic
          PROVE  FALSE
      <4>1. PICK other : other = Config!ChannelsOf(ports[q])[j]
        OBVIOUS
      <4>2. IsEntry(other, ports[q]) /\ Config!Topic(other) = Config!Topic(entry)
        BY <2>2, <3>1, <3>2, <4>1, Zenon
      <4>3. p = q
        BY <2>3, <4>2, TopicsApart, Zenon
      <4>4. QED
        BY <2>5, <4>3
    <3>3. PICK port : port = ports[q]
      OBVIOUS
    <3>4. \A j \in DOMAIN Config!ChannelsOf(port) :
            Config!Topic(Config!ChannelsOf(port)[j]) # topic
      BY <3>2, <3>3, Zenon
    <3>5. Config!Handler(port, topic) = <<>>
      BY <3>4, NotHandledBy, Zenon
    <3>6. QED
      BY <3>3, <3>5, Zenon
  <2>6. PICK unit, channel : entry = <<unit, channel>> /\ unit.id # <<>>
    <3>1. PICK d \in DOMAIN ports[p].devices : \E c \in DOMAIN ports[p].devices[d].channels :
            entry = <<ports[p].devices[d], ports[p].devices[d].channels[c]>>
      BY <2>3, Zenon DEF IsEntry
    <3>2. ports[p].devices[d].id # <<>>
      BY DevicesApart, Zenon
    <3>3. QED
      BY <3>1, <3>2, Zenon
  <2>7. entry # <<>>
    BY <2>6
  <2>8. Config!Route(topic) = Append(entry, p)
    <3> DEFINE handling == {q \in DOMAIN ports : Config!Handler(ports[q], topic) # <<>>}
    <3>1. handling = {p}
      BY <2>4, <2>5, <2>7
    <3>2. PICK first : first = CHOOSE q \in handling : \A r \in handling : q <= r
      OBVIOUS
    <3>3. p <= p
      <4>1. p \in Nat
        BY Homes, LenProperties
      <4>2. QED
        BY <4>1
    <3>4. first = p
      <4> HIDE DEF handling
      <4>1. p \in handling /\ \A r \in handling : p <= r
        BY <3>1, <3>3
      <4>2. first \in handling
        BY <3>2, <4>1, Zenon
      <4>3. QED
        BY <3>1, <4>2
    <3>5. Config!Route(topic) = Append(Config!Handler(ports[first], topic), first)
      BY <3>1, <3>2, Zenon DEF Config!Route
    <3>6. QED
      BY <2>4, <3>4, <3>5, Zenon
  <2>9. topic \in Config!Subscriptions(ports[p])
    <3>1. entry \in Config!Range(Config!ChannelsOf(ports[p]))
      BY <2>2 DEF Config!Range
    <3>2. entry[1].id # <<>>
      BY <2>6
    <3>3. topic = <<IF entry[1].id = <<>> THEN <<"wb-modbus">> ELSE entry[1].id, entry[2].name>>
      BY <2>2, <3>2 DEF Config!Topic
    <3>4. QED
      BY <3>1, <3>3, Zenon DEF Config!Subscriptions
  <2>10. QED
    BY <2>2, <2>8, <2>9, Zenon
<1>3. QED
  BY <1>2, Zenon DEF CommandsArrive

\* Whatever the files hold, as long as the arrays in them are arrays: a command to the
\* topic of a channel is subscribed to and goes to the port, the device and the channel
\* that publish under it, unless identifiers clash.
THEOREM CommandsReach == Config!Spec => []CommandsReachPublisher
<1> DEFINE SoundPorts == \A p \in DOMAIN ports : Sound(ports[p])
           Inv == root \in Roots /\ (Config!Loaded => LoadedPorts /\ SoundPorts)
<1>1. Config!Init => Inv
  BY DEF Config!Init, Config!Loaded
<1>2. Inv /\ [Config!Next]_Config!cvars => Inv'
  <2>1. ASSUME Inv, Config!Load PROVE Inv'
    <3>1. ports' = Config!LoadConfig(root, Config!ParseTemplates(Files)) /\ root' = root
      BY <2>1 DEF Config!Load
    <3>2. ASSUME ports' # Refused PROVE SoundPorts'
      BY <2>1, <3>1, <3>2, ConfigLoaded, FilesAssumption, Zenon
    <3>3. ASSUME ports' # Refused PROVE LoadedPorts'
      BY <2>1, <3>1, <3>3 DEF LoadedPorts, Config!Templates
    <3>4. QED
      BY <2>1, <3>1, <3>2, <3>3 DEF Config!Loaded
  <2>2. ASSUME Inv, UNCHANGED Config!cvars PROVE Inv'
    BY <2>2 DEF Config!cvars, Config!Loaded, LoadedPorts, Config!Templates
  <2>3. QED
    BY <2>1, <2>2 DEF Config!Next
<1>3. Inv => CommandsReachPublisher
  <2>1. ASSUME Inv, Config!Loaded, Config!NoClash PROVE CommandsArrive
    BY <2>1, Arrive, FilesAssumption, Zenon
  <2>2. QED
    BY <2>1, Zenon DEF CommandsReachPublisher, Config!CommandsReachPublisher, CommandsArrive
<1>4. QED
  BY <1>1, <1>2, <1>3, PTL DEF Config!Spec

-----------------------------------------------------------------------------
(***************************************************************************)
(* The configuration of the ADC driver (AdcConfig).                        *)
(***************************************************************************)

\* How long the first sequences are does not depend on what stands behind them.
StartOf(rr, ss) ==
  /\ Len(rr) \in Nat /\ Len(ss) \in Nat /\ Len(rr) <= Len(ss)
  /\ \A k \in 1..Len(rr) : rr[k] = ss[k]
Reaches(off, rr, d) == off[Len(rr)] = Len(d)

LEMMA OffsetsAgree ==
  ASSUME NEW e, NEW ss, NEW off, LaidOut(e, ss, off), NEW d, NEW rr, NEW of, LaidOut(d, rr, of),
         StartOf(rr, ss)
  PROVE  Reaches(off, rr, d)
<1>0. PICK m \in Nat, n \in Nat : m = Len(rr) /\ n = Len(ss) /\ m <= n
  BY DEF StartOf
<1> DEFINE T == {k \in Nat : k <= m => of[k] = off[k]}
<1>1. T \in SUBSET Nat /\ 0 \in T
  BY DEF LaidOut
<1>2. ASSUME NEW k \in T, k < m PROVE k + 1 \in T
  <2>1. k \in Nat /\ k + 1 \in 1..m /\ k + 1 \in 1..n /\ (k + 1) - 1 = k /\ of[k] = off[k]
    BY <1>0, <1>2
  <2>2. PICK j : j = k + 1
    OBVIOUS
  <2>3. of[j] = of[k] + Len(rr[j]) /\ off[j] = off[k] + Len(ss[j]) /\ rr[j] = ss[j]
    BY <1>0, <2>1, <2>2, Zenon DEF LaidOut, StartOf
  <2>4. QED
    BY <2>1, <2>2, <2>3
<1>3. m \in T
  <2>1. m \in 0..m
    OBVIOUS
  <2> HIDE DEF T
  <2>2. QED
    BY <1>1, <1>2, <2>1, InductionUpTo, Zenon
<1>4. of[m] = Len(d)
  BY <1>0, Zenon DEF LaidOut
<1>5. QED
  BY <1>0, <1>3, <1>4 DEF Reaches

LEMMA DefaultResistance ==
  ASSUME NEW m \in Adcs!Resistances
  PROVE  m \in DOMAIN Adcs!TMUXChannel /\ Adcs!TMUXChannel[m] = 1000
<1>1. m = "resistance1" \/ m = "resistance2"
  BY DEF Adcs!Resistances
<1>2. \A k : k = "resistance1" => k \in DOMAIN Adcs!TMUXChannel /\ Adcs!TMUXChannel[k] = 1000
  BY DEF Adcs!TMUXChannel
<1>3. \A k : k = "resistance2" => k \in DOMAIN Adcs!TMUXChannel /\ Adcs!TMUXChannel[k] = 1000
  BY DEF Adcs!TMUXChannel
<1>4. QED
  BY <1>1, <1>2, <1>3

\* An element that is taken has its own settings.
LEMMA ElementHasOwn ==
  ASSUME NEW data, Adcs!Settings(data, Adcs!TMUXChannel) # Refused,
         \A m \in Adcs!Resistances \cap DOMAIN data : Adcs!IsResistance(data[m])
  PROVE  Adcs!HasOwn(Adcs!Settings(data, Adcs!TMUXChannel), data)
<1> DEFINE default == Adcs!TMUXChannel
           resistance(m) == IF Adcs!Has(data, m) THEN Adcs!ReadResistance(data[m]) ELSE default[m]
           element == [m \in DOMAIN default |->
                         IF m \in {"resistance1", "resistance2"} THEN resistance(m)
                         ELSE Adcs!Get(data, m, default[m])]
<1>1. /\ Adcs!Settings(data, default) = element
      /\ Refused \notin {resistance("resistance1"), resistance("resistance2")}
  BY Zenon DEF Adcs!Settings
<1>2. ASSUME NEW m \in DOMAIN default \ Adcs!Resistances
      PROVE  element[m] = Adcs!Get(data, m, default[m])
  BY <1>2 DEF Adcs!Resistances
<1>3. ASSUME NEW m \in Adcs!Resistances
      PROVE  element[m] = IF Adcs!Has(data, m) THEN data[m].number * Adcs!Unit[data[m].unit]
                          ELSE 1000
  <2>1. m \in {"resistance1", "resistance2"} /\ m \in DOMAIN default /\ default[m] = 1000
    <3>1. m \in DOMAIN Adcs!TMUXChannel /\ Adcs!TMUXChannel[m] = 1000
      BY DefaultResistance
    <3>2. m \in {"resistance1", "resistance2"}
      BY DEF Adcs!Resistances
    <3>3. QED
      BY <3>1, <3>2, Zenon
  <2>2. element[m] = resistance(m) /\ resistance(m) # Refused
    BY <1>1, <2>1
  <2>3. CASE ~Adcs!Has(data, m)
    BY <2>1, <2>2, <2>3
  <2>4. CASE Adcs!Has(data, m)
    <3>1. PICK text : text = data[m]
      OBVIOUS
    <3>2. Adcs!IsResistance(text)
      BY <2>4, <3>1 DEF Adcs!Has
    <3>3. element[m] = Adcs!ReadResistance(text) /\ Adcs!ReadResistance(text) # Refused
      BY <2>2, <2>4, <3>1, Zenon
    <3>4. text.unit \in {"MOhm", "kOhm", "Ohm"}
      BY <3>2 DEF Adcs!IsResistance, Adcs!Unit
    <3>5. text.number # NoNumber
      BY <3>3, SMT DEF Adcs!ReadResistance
    <3>6. Adcs!ReadResistance(text) = text.number * Adcs!Unit[text.unit]
      BY <3>4, <3>5 DEF Adcs!ReadResistance, Adcs!Unit
    <3>7. QED
      BY <2>4, <3>1, <3>3, <3>6, Zenon
  <2>5. QED
    BY <2>3, <2>4
<1> HIDE DEF element
<1>4. Adcs!HasOwn(element, data)
  BY <1>2, <1>3, Zenon DEF Adcs!HasOwn, Adcs!Resistances
<1>5. QED
  BY <1>1, <1>4, Zenon

\* What is made of an item.
Kept(r, item) ==
  /\ Adcs!IsArray(r.mux)
  /\ r.averaging_window = Adcs!Get(item, "averaging_window", 10)
  /\ Adcs!Has(item, "channels") =>
       /\ r.type = "mux"
       /\ r.gpios = Adcs!Get(item, "gpios", <<>>)
       /\ \A i \in DOMAIN item.channels :
            LET at == (IF Adcs!Has(item, "id") THEN 1 ELSE 0) + i IN
              at \in DOMAIN r.mux /\ Adcs!HasOwn(r.mux[at], item.channels[i])

\* The channels of an item are arrays of elements the driver can read.
ItemIsJson(item) ==
  Adcs!Has(item, "channels") =>
    /\ Adcs!IsArray(item.channels)
    /\ \A i \in DOMAIN item.channels :
         \A m \in Adcs!Resistances \cap DOMAIN item.channels[i] :
           Adcs!IsResistance(item.channels[i][m])

LEMMA ItemLoaded ==
  ASSUME NEW item, ItemIsJson(item), Adcs!LoadItem(item) # Refused
  PROVE  Kept(Adcs!LoadItem(item), item)
<1> DEFINE window == Adcs!Get(item, "averaging_window", 10)
           array == Adcs!Get(item, "channels", <<>>)
           gpios == IF Adcs!Has(item, "channels") THEN Adcs!Get(item, "gpios", <<>>) ELSE <<>>
           own == IF Adcs!Has(item, "id") THEN 1 ELSE 0
           record == [averaging_window |-> window,
                      type |-> IF Adcs!Has(item, "channels") THEN "mux" ELSE "",
                      gpios |-> gpios,
                      mux |-> Adcs!OwnChannel(item) \o Adcs!LoadChannels(array)]
<1>1. Adcs!LoadItem(item) = record /\ Refused \notin Adcs!Range(Adcs!LoadChannels(array))
  BY Zenon DEF Adcs!LoadItem
<1>2. PICK n \in Nat : DOMAIN array = 1..n
  <2>1. CASE Adcs!Has(item, "channels")
    <3>1. array \in Seq(Adcs!Range(array))
      BY <2>1 DEF ItemIsJson, Adcs!IsArray, Adcs!Get
    <3>2. QED
      BY <3>1, LenProperties
  <2>2. CASE ~Adcs!Has(item, "channels")
    <3>1. array = <<>>
      BY <2>2 DEF Adcs!Get
    <3>2. DOMAIN array = 1..0
      BY <3>1
    <3>3. QED
      BY <3>2
  <2>3. QED
    BY <2>1, <2>2
<1>3. PICK l : l = Adcs!LoadChannels(array)
  OBVIOUS
<1>4. l = [i \in 1..n |-> l[i]] /\ \A i \in 1..n : l[i] = Adcs!Settings(array[i], Adcs!TMUXChannel)
  <2> HIDE DEF array
  <2>1. l = [i \in 1..n |-> Adcs!Settings(array[i], Adcs!TMUXChannel)]
    BY <1>2, <1>3, Zenon DEF Adcs!LoadChannels
  <2>2. QED
    BY <2>1
<1>5. \A i \in 1..n : l[i] # Refused
  BY <1>1, <1>3, <1>4 DEF Adcs!Range
<1>6. PICK o : o = Adcs!OwnChannel(item)
  OBVIOUS
<1>7. Len(o) = own /\ o \in Seq({o[1]})
  <2>1. CASE Adcs!Has(item, "id")
    <3>1. PICK x : o = <<x>>
      BY <1>6, <2>1 DEF Adcs!OwnChannel
    <3>2. QED
      BY <2>1, <3>1
  <2>2. CASE ~Adcs!Has(item, "id")
    <3>1. o = <<>>
      BY <1>6, <2>2 DEF Adcs!OwnChannel
    <3>2. QED
      BY <2>2, <3>1
  <2>3. QED
    BY <2>1, <2>2
<1>8. PICK T : T = {l[i] : i \in 1..n} \cup {o[1]}
  OBVIOUS
<1>9. l \in Seq(T) /\ Len(l) = n /\ o \in Seq(T)
  <2>1. l \in [1..n -> T]
    BY <1>4, <1>8
  <2>2. \A i \in 1..Len(o) : o[i] \in T
    BY <1>7, <1>8, ElementOfSeq
  <2>3. o \in Seq(T)
    BY <1>7, <2>2
  <2>4. QED
    BY <2>1, <2>3
<1>10. PICK z : z = o \o l
  OBVIOUS
<1>11. z \in Seq(T) /\ Len(z) = own + n /\ \A i \in 1..n : z[own + i] = l[i]
  <2>1. /\ o \o l \in Seq(T) /\ Len(o \o l) = Len(o) + Len(l)
        /\ \A i \in 1..Len(o) + Len(l) :
             (o \o l)[i] = IF i <= Len(o) THEN o[i] ELSE l[i - Len(o)]
    BY <1>9, ConcatProperties
  <2>2. PICK w \in {0, 1} : w = own
    OBVIOUS
  <2>3. z \in Seq(T) /\ Len(z) = w + n
        /\ \A i \in 1..w + n : z[i] = IF i <= w THEN o[i] ELSE l[i - w]
    BY <1>7, <1>9, <1>10, <2>1, <2>2, Zenon
  <2>4. \A i \in 1..n : w + i \in 1..w + n /\ ~(w + i <= w) /\ (w + i) - w = i
    OBVIOUS
  <2>5. \A i \in 1..n : z[w + i] = l[i]
    BY <2>3, <2>4, Zenon
  <2>6. QED
    BY <2>2, <2>3, <2>5, Zenon
<1>12. Adcs!IsArray(z)
  <2>1. PICK k \in Nat : k = Len(z) /\ z \in [1..k -> T]
    BY <1>11, LenProperties
  <2>2. z \in [1..k -> Adcs!Range(z)]
    BY <2>1 DEF Adcs!Range
  <2>3. QED
    BY <2>2 DEF Adcs!IsArray
<1>13. ASSUME Adcs!Has(item, "channels"), NEW i \in DOMAIN item.channels
       PROVE  own + i \in DOMAIN z /\ Adcs!HasOwn(z[own + i], item.channels[i])
  <2>1. array = item.channels /\ i \in 1..n
    BY <1>2, <1>13 DEF Adcs!Get
  <2>2. own + i \in DOMAIN z
    <3>1. own + i \in 1..own + n
      BY <2>1
    <3>2. QED
      BY <1>11, <3>1, LenProperties
  <2>3. PICK data : data = item.channels[i]
    OBVIOUS
  <2>4. z[own + i] = Adcs!Settings(data, Adcs!TMUXChannel)
    BY <1>4, <1>11, <2>1, <2>3, Zenon
  <2>5. Adcs!Settings(data, Adcs!TMUXChannel) # Refused
    BY <1>4, <1>5, <2>1, <2>3, Zenon
  <2>6. \A m \in Adcs!Resistances \cap DOMAIN data : Adcs!IsResistance(data[m])
    BY <1>13, <2>3, Zenon DEF ItemIsJson
  <2>7. QED
    BY <2>2, <2>3, <2>4, <2>5, <2>6, ElementHasOwn, Zenon
<1>14. PICK r : r = Adcs!LoadItem(item)
  OBVIOUS
<1>15. /\ r.averaging_window = window /\ r.gpios = gpios /\ r.mux = z
       /\ r.type = IF Adcs!Has(item, "channels") THEN "mux" ELSE ""
  <2>1. r = record
    BY <1>1, <1>14, Zenon
  <2> HIDE DEF window, array, gpios
  <2>2. r.averaging_window = window /\ r.gpios = gpios
        /\ r.mux = Adcs!OwnChannel(item) \o Adcs!LoadChannels(array)
        /\ r.type = IF Adcs!Has(item, "channels") THEN "mux" ELSE ""
    BY <2>1
  <2>3. QED
    BY <1>3, <1>6, <1>10, <2>2, Zenon
<1>16. Kept(r, item)
  BY <1>12, <1>13, <1>15, Zenon DEF Kept
<1>17. QED
  BY <1>14, <1>16, Zenon

\* The channels of one handler.
Row(r) ==
  [i \in DOMAIN r.mux |->
    [resistive |-> r.mux[i].type = "ohm_meter",
     input |-> r.mux[i].mux_channel_number,
     discharge |-> r.mux[i].discharge_channel,
     readings |-> r.mux[i].readings_number,
     window |-> r.averaging_window,
     pins |-> IF r.type = "mux" THEN r.gpios ELSE <<>>,
     multiplexed |-> r.type = "mux"]]
Rows(c) == [h \in DOMAIN c |-> Row(c[h])]

\* The channels stand one handler behind the other.
LEMMA RowsLaid ==
  ASSUME NEW n \in Nat, NEW c, DOMAIN c = 1..n, \A h \in 1..n : Adcs!IsArray(c[h].mux)
  PROVE  Len(Rows(c)) = n /\ \E off : LaidOut(Adcs!HandlerChannels(c), Rows(c), off)
<1>1. PICK ss : ss = Rows(c)
  OBVIOUS
<1>2. ss = [h \in 1..n |-> ss[h]] /\ \A h \in 1..n : ss[h] = Row(c[h])
  BY <1>1 DEF Rows
<1>3. PICK S : S = UNION {{ss[h][i] : i \in DOMAIN ss[h]} : h \in 1..n}
  OBVIOUS
<1>4. ASSUME NEW h \in 1..n PROVE ss[h] \in Seq(S)
  <2>1. c[h].mux \in Seq(Adcs!Range(c[h].mux))
    BY DEF Adcs!IsArray
  <2>2. PICK l \in Nat : DOMAIN c[h].mux = 1..l
    BY <2>1, LenProperties
  <2>3. ss[h] = [i \in 1..l |-> ss[h][i]]
    BY <1>2, <2>2 DEF Row
  <2>4. ss[h] \in [1..l -> S]
    BY <1>3, <2>3
  <2>5. QED
    BY <2>4
<1>5. ss \in Seq(Seq(S)) /\ Len(ss) = n
  <2>1. ss \in [1..n -> Seq(S)]
    BY <1>2, <1>4
  <2>2. QED
    BY <2>1
<1>6. Adcs!HandlerChannels(c) = Seqs!FlattenSeq(ss)
  <2>1. Adcs!HandlerChannels(c) = Adcs!FlattenSeq(ss)
    BY <1>1, Zenon DEF Adcs!HandlerChannels, Rows, Row
  <2>2. Adcs!FlattenSeq(ss) = Seqs!FlattenSeq(ss)
    BY DEF Adcs!FlattenSeq, Seqs!FlattenSeq
  <2>3. QED
    BY <2>1, <2>2, Zenon
<1>7. \E off : LaidOut(Adcs!HandlerChannels(c), ss, off)
  BY <1>5, <1>6, FlatLaid, Zenon
<1>8. QED
  BY <1>1, <1>5, <1>7, Zenon

\* As many channels stand before those of a handler as the handlers before it have.
RowAt(c, h, i) ==
  LET before == Len(Adcs!HandlerChannels(SubSeq(c, 1, h - 1))) IN
    before \in Nat /\ Adcs!HandlerChannels(c)[before + i] = Row(c[h])[i]

LEMMA RowStands ==
  ASSUME NEW n \in Nat, NEW c, DOMAIN c = 1..n, \A h \in 1..n : Adcs!IsArray(c[h].mux),
         NEW h \in 1..n, NEW i \in DOMAIN c[h].mux
  PROVE  RowAt(c, h, i)
<1>1. PICK m \in Nat : m = h - 1 /\ m <= n /\ m \in 0..n
  OBVIOUS
<1>2. PICK b : b = SubSeq(c, 1, m)
  OBVIOUS
<1>3. DOMAIN b = 1..m /\ \A k \in 1..m : b[k] = c[k]
  <2> DEFINE S == {c[j] : j \in 1..n}
  <2>1. 1 \in Int /\ m \in Int /\ \A k \in 1..m : c[k] \in S
    BY <1>1
  <2> HIDE DEF S
  <2>2. /\ SubSeq(c, 1, m) \in Seq(S)
        /\ Len(SubSeq(c, 1, m)) = IF 1 <= m THEN m - 1 + 1 ELSE 0
        /\ \A k \in 1..m - 1 + 1 : SubSeq(c, 1, m)[k] = c[1 + k - 1]
    BY <2>1, SubSeqProperties, SMTT(40)
  <2>3. Len(SubSeq(c, 1, m)) = m
    BY <2>2
  <2>4. \A k \in 1..m : k \in 1..m - 1 + 1 /\ 1 + k - 1 = k
    OBVIOUS
  <2>5. \A k \in 1..m : SubSeq(c, 1, m)[k] = c[k]
    BY <2>2, <2>4, Zenon
  <2>6. DOMAIN SubSeq(c, 1, m) = 1..m
    BY <2>2, <2>3, LenProperties
  <2>7. QED
    BY <1>2, <2>5, <2>6, Zenon
<1>4. \A k \in 1..m : Adcs!IsArray(b[k].mux)
  BY <1>1, <1>3
<1>5. Len(Rows(b)) = m /\ \E of : LaidOut(Adcs!HandlerChannels(b), Rows(b), of)
  BY <1>3, <1>4, RowsLaid, Zenon
<1>6. Len(Rows(c)) = n /\ \E off : LaidOut(Adcs!HandlerChannels(c), Rows(c), off)
  BY RowsLaid, Zenon
<1>7. PICK of : LaidOut(Adcs!HandlerChannels(b), Rows(b), of)
  BY <1>5, Zenon
<1>8. PICK off : LaidOut(Adcs!HandlerChannels(c), Rows(c), off)
  BY <1>6, Zenon
<1>9. \A k \in 1..m : Rows(b)[k] = Rows(c)[k]
  <2>1. \A k \in 1..m : k \in 1..n
    BY <1>1
  <2>2. QED
    BY <1>3, <2>1 DEF Rows
<1>10. StartOf(Rows(b), Rows(c))
  BY <1>1, <1>5, <1>6, <1>9 DEF StartOf
<1>11. off[m] = Len(Adcs!HandlerChannels(b))
  <2>1. Reaches(off, Rows(b), Adcs!HandlerChannels(b))
    BY <1>7, <1>8, <1>10, OffsetsAgree, Zenon
  <2>2. QED
    BY <1>5, <2>1, Zenon DEF Reaches
<1>12. off[m] \in Nat
  BY <1>1, <1>6, <1>8, Zenon DEF LaidOut
<1>13. PICK row : row = Rows(c)[h]
  OBVIOUS
<1>14. row = Row(c[h])
  BY <1>13 DEF Rows
<1>15. Stands(row, Adcs!HandlerChannels(c), off[m])
  BY <1>1, <1>6, <1>8, <1>13, Zenon DEF LaidOut
<1>16. i \in 1..Len(row)
  <2>1. c[h].mux \in Seq(Adcs!Range(c[h].mux))
    BY DEF Adcs!IsArray
  <2>2. PICK l \in Nat : DOMAIN c[h].mux = 1..l
    BY <2>1, LenProperties
  <2>3. row = [k \in 1..l |-> row[k]]
    BY <1>14, <2>2 DEF Row
  <2>4. Len(row) = l
    BY <2>3
  <2>5. QED
    BY <2>2, <2>4
<1>17. Adcs!HandlerChannels(c)[off[m] + i] = row[i]
  BY <1>15, <1>16, Zenon DEF Stands
<1>18. QED
  BY <1>1, <1>2, <1>11, <1>12, <1>14, <1>17, Zenon DEF RowAt

LEMMA FileLoaded ==
  ASSUME Adcs!FilesAreJson, NEW f \in AdcFiles, f.kind = "object",
         Adcs!LoadConfig(f) # Refused
  PROVE  \E n \in Nat : /\ DOMAIN f.iio_channels = 1..n
                        /\ DOMAIN Adcs!LoadConfig(f) = 1..n
                        /\ \A h \in 1..n : Kept(Adcs!LoadConfig(f)[h], f.iio_channels[h])
<1> DEFINE items == [h \in DOMAIN f.iio_channels |-> Adcs!LoadItem(f.iio_channels[h])]
<1>1. Adcs!LoadConfig(f) = items /\ Refused \notin Adcs!Range(items)
  BY SMT DEF Adcs!LoadConfig
<1>2. PICK n \in Nat : DOMAIN f.iio_channels = 1..n
  <2>1. f.iio_channels \in Seq(Adcs!Range(f.iio_channels))
    BY DEF Adcs!FilesAreJson, Adcs!IsArray
  <2>2. QED
    BY <2>1, LenProperties
<1>3. ASSUME NEW h \in 1..n PROVE Kept(Adcs!LoadConfig(f)[h], f.iio_channels[h])
  <2>1. PICK item : item = f.iio_channels[h]
    OBVIOUS
  <2>2. ItemIsJson(item)
    BY <1>2, <2>1, Zenon DEF Adcs!FilesAreJson, ItemIsJson
  <2>3. items[h] = Adcs!LoadItem(item)
    BY <1>2, <2>1
  <2>4. Adcs!LoadItem(item) # Refused
    BY <1>1, <1>2, <2>3 DEF Adcs!Range
  <2>5. QED
    BY <1>1, <2>1, <2>2, <2>3, <2>4, ItemLoaded, Zenon
<1>4. DOMAIN Adcs!LoadConfig(f) = 1..n
  BY <1>1, <1>2
<1>5. QED
  BY <1>2, <1>3, <1>4

\* What OwnSettings says of the i-th element of "channels" of item h.
Own(h, i) ==
  LET item == file.iio_channels[h]
      own == IF Adcs!Has(item, "id") THEN 1 ELSE 0
      before == Len(Adcs!HandlerChannels(SubSeq(config, 1, h - 1)))
      element == config[h].mux[own + i]
      channel == Adcs!HandlerChannels(config)[before + own + i]
  IN /\ Adcs!HasOwn(element, item.channels[i])
     /\ channel.input = element.mux_channel_number
     /\ channel.readings = element.readings_number
     /\ channel.discharge = element.discharge_channel
     /\ channel.window = Adcs!Get(item, "averaging_window", 10)
     /\ Adcs!Has(item, "gpios") => channel.pins = item.gpios

LEMMA LoadedOwn ==
  ASSUME Adcs!FilesAreJson, file \in AdcFiles, file.kind = "object",
         config = Adcs!LoadConfig(file), config # Refused, NEW h \in DOMAIN config,
         Adcs!Has(file.iio_channels[h], "channels"),
         NEW i \in DOMAIN file.iio_channels[h].channels
  PROVE  Own(h, i)
<1>1. PICK n \in Nat : /\ DOMAIN file.iio_channels = 1..n
                       /\ DOMAIN config = 1..n
                       /\ \A k \in 1..n : Kept(config[k], file.iio_channels[k])
  BY FileLoaded
<1>2. PICK item : item = file.iio_channels[h]
  OBVIOUS
<1>3. PICK r : r = config[h]
  OBVIOUS
<1>4. Kept(r, item) /\ Adcs!Has(item, "channels")
  BY <1>1, <1>2, <1>3
<1>5. PICK own \in {0, 1} : own = IF Adcs!Has(item, "id") THEN 1 ELSE 0
  OBVIOUS
<1>6. PICK at : at = own + i
  OBVIOUS
<1>7. at \in DOMAIN r.mux /\ Adcs!HasOwn(r.mux[at], item.channels[i])
  BY <1>2, <1>4, <1>5, <1>6, Zenon DEF Kept
<1>8. PICK before : before = Len(Adcs!HandlerChannels(SubSeq(config, 1, h - 1)))
  OBVIOUS
<1>9. before \in Nat /\ Adcs!HandlerChannels(config)[before + at] = Row(r)[at]
  <2>1. \A k \in 1..n : Adcs!IsArray(config[k].mux)
    BY <1>1, Zenon DEF Kept
  <2>2. h \in 1..n
    BY <1>1
  <2>3. at \in DOMAIN config[h].mux
    BY <1>3, <1>7, Zenon
  <2>4. RowAt(config, h, at)
    BY <1>1, <2>1, <2>2, <2>3, RowStands, Zenon
  <2>5. QED
    BY <1>3, <1>8, <2>4, Zenon DEF RowAt
<1>10. PICK channel : channel = Row(r)[at]
  OBVIOUS
<1>11. Adcs!HandlerChannels(config)[before + own + i] = channel
  <2>1. PICK l \in Nat : DOMAIN item.channels = 1..l
    <3>1. h \in DOMAIN file.iio_channels
      BY <1>1
    <3>2. item.channels \in Seq(Adcs!Range(item.channels))
      BY <1>2, <1>4, <3>1, Zenon DEF Adcs!FilesAreJson, Adcs!IsArray
    <3>3. QED
      BY <3>2, LenProperties
  <2>2. i \in Nat
    BY <1>2, <2>1
  <2>3. before + own + i = before + at
    BY <1>6, <1>9, <2>2
  <2>4. QED
    BY <1>9, <1>10, <2>3, Zenon
<1>12. /\ channel.input = r.mux[at].mux_channel_number
       /\ channel.readings = r.mux[at].readings_number
       /\ channel.discharge = r.mux[at].discharge_channel
       /\ channel.window = r.averaging_window
       /\ channel.pins = IF r.type = "mux" THEN r.gpios ELSE <<>>
  BY <1>7, <1>10 DEF Row
<1>13. channel.window = Adcs!Get(item, "averaging_window", 10)
  BY <1>4, <1>12, Zenon DEF Kept
<1>14. Adcs!Has(item, "gpios") => channel.pins = item.gpios
  BY <1>4, <1>12, Zenon DEF Kept, Adcs!Get
<1>15. QED
  BY <1>2, <1>3, <1>5, <1>6, <1>7, <1>8, <1>11, <1>12, <1>13, <1>14, Zenon DEF Own

\* The channels of the ADC driver have their own settings, in the units given, their own
\* pins and window, whatever the file holds: AdcConfig!OwnSettings.
THEOREM SettingsAreOwn == Adcs!Spec => []OwnSettings
<1> DEFINE Inv == /\ file \in AdcFiles
                  /\ config = <<>> \/ config = Adcs!LoadConfig(file)
<1>1. Adcs!Init => Inv
  BY DEF Adcs!Init
<1>2. Inv /\ [Adcs!Next]_Adcs!avars => Inv'
  BY DEF Adcs!Next, Adcs!Load, Adcs!avars
<1>3. Inv => OwnSettings
  <2> SUFFICES ASSUME Inv, Adcs!Loaded, NEW h \in DOMAIN config,
                      Adcs!Has(file.iio_channels[h], "channels"),
                      NEW i \in DOMAIN file.iio_channels[h].channels
               PROVE  Own(h, i)
    BY DEF OwnSettings, Adcs!OwnSettings, Own
  <2>1. /\ file \in AdcFiles /\ file.kind = "object"
        /\ config = Adcs!LoadConfig(file) /\ config # Refused
    BY DEF Adcs!Loaded
  <2>2. QED
    BY <2>1, AdcFilesAssumption, LoadedOwn
<1>4. QED
  BY <1>1, <1>2, <1>3, PTL DEF Adcs!Spec

-----------------------------------------------------------------------------
(***************************************************************************)
(* The names of controls in the cloud (NinjaGuid): what is put together of *)
(* escaped names is taken apart into the same names, whatever their bytes. *)
(***************************************************************************)

\* A function that is given at i by its value at a later place exists.
Walked(f, n, from, Stops, last, head, next) ==
  /\ f = [i \in from..n |-> f[i]]
  /\ \A i \in from..n : f[i] = IF i \in Stops THEN last[i] ELSE <<head[i]>> \o f[next[i]]

LEMMA WalkExists ==
  ASSUME NEW n \in Nat, NEW Stops, NEW last, NEW head, NEW next,
         \A i \in 1..n : i \notin Stops => next[i] \in i + 1..n
  PROVE  \E f : Walked(f, n, 1, Stops, last, head, next)
<1> DEFINE T == {m \in Nat : m <= n => \E f : Walked(f, n, n - m + 1, Stops, last, head, next)}
<1>1. T \in SUBSET Nat /\ 0 \in T
  <2>1. \E f : Walked(f, n, n - 0 + 1, Stops, last, head, next)
    <3>1. PICK f : f = [i \in n - 0 + 1..n |-> i]
      OBVIOUS
    <3>2. f = [i \in n - 0 + 1..n |-> f[i]] /\ \A i \in n - 0 + 1..n : FALSE
      BY <3>1
    <3>3. QED
      BY <3>2, Zenon DEF Walked
  <2>2. QED
    BY <2>1
<1>2. ASSUME NEW m \in T, m < n PROVE m + 1 \in T
  <2>1. PICK k \in 1..n : k = n - m /\ k = n - (m + 1) + 1 /\ n - m + 1 = k + 1
    BY <1>2
  <2>2. PICK f : Walked(f, n, k + 1, Stops, last, head, next)
    <3>1. \E f : Walked(f, n, n - m + 1, Stops, last, head, next)
      BY <1>2
    <3>2. QED
      BY <2>1, <3>1, Zenon
  <2>3. PICK x : x = IF k \in Stops THEN last[k] ELSE <<head[k]>> \o f[next[k]]
    OBVIOUS
  <2>4. PICK g : g = [i \in k..n |-> IF i = k THEN x ELSE f[i]]
    OBVIOUS
  <2>5. g = [i \in k..n |-> g[i]]
    BY <2>4
  <2>6. g[k] = x /\ \A i \in k + 1..n : g[i] = f[i]
    BY <2>4
  <2>7. ASSUME NEW i \in k..n
        PROVE  g[i] = IF i \in Stops THEN last[i] ELSE <<head[i]>> \o g[next[i]]
    <3>1. i \notin Stops => g[next[i]] = f[next[i]]
      BY <2>6
    <3>2. CASE i = k
      BY <2>3, <2>6, <3>1, <3>2, Zenon
    <3>3. CASE i # k
      <4>1. i \in k + 1..n
        BY <3>3
      <4>2. QED
        BY <2>2, <2>6, <3>1, <4>1, Zenon DEF Walked
    <3>4. QED
      BY <3>2, <3>3
  <2>8. Walked(g, n, k, Stops, last, head, next)
    BY <2>5, <2>7, Zenon DEF Walked
  <2>9. \E h : Walked(h, n, n - (m + 1) + 1, Stops, last, head, next)
    BY <2>1, <2>8, Zenon
  <2>10. QED
    BY <2>9
<1>3. n \in T
  <2>1. n \in 0..n
    OBVIOUS
  <2> HIDE DEF T
  <2>2. QED
    BY <1>1, <1>2, <2>1, InductionUpTo, Zenon
<1>4. n - n + 1 = 1 /\ \E f : Walked(f, n, n - n + 1, Stops, last, head, next)
  BY <1>3
<1>5. QED
  BY <1>4, Zenon

\* Where a delimiter is.
At(str, j) == str[j] = 45 /\ str[j + 1] = 45 /\ str[j + 2] = 45

LEMMA DelimiterAt ==
  ASSUME NEW str \in Text, NEW j \in 1..Len(str) - 2
  PROVE  SubSeq(str, j, j + 3 - 1) = Guid!Delimiter <=> At(str, j)
<1>1. Len(str) \in Nat
  BY LenProperties DEF Text
<1>2. PICK s : s = SubSeq(str, j, j + 3 - 1)
  OBVIOUS
<1>3. /\ s \in Seq(Byte) /\ Len(s) = 3
      /\ s[1] = str[j] /\ s[2] = str[j + 1] /\ s[3] = str[j + 2]
  BY <1>1, <1>2, SubSeqProperties DEF Text
<1>4. Guid!Delimiter = <<45, 45, 45>>
  BY DEF Guid!Delimiter, Guid!Dash
<1>5. s = <<45, 45, 45>> <=> s[1] = 45 /\ s[2] = 45 /\ s[3] = 45
  <2>1. s = <<s[1], s[2], s[3]>>
    BY <1>3
  <2>2. QED
    BY <2>1
<1>6. QED
  BY <1>2, <1>3, <1>4, <1>5 DEF At

\* StringSplit looks for a delimiter and goes on behind it.
Ends(str, i) ==
  {j \in i..Len(str) - Len(Guid!Delimiter) + 1 :
     SubSeq(str, j, j + Len(Guid!Delimiter) - 1) = Guid!Delimiter}
First(str, i) == CHOOSE j \in Ends(str, i) : \A k \in Ends(str, i) : j <= k
IsSplit(rest, str) ==
  rest = [i \in 1..Len(str) + 1 |->
            IF Ends(str, i) = {} THEN <<SubSeq(str, i, Len(str))>>
            ELSE <<SubSeq(str, i, First(str, i) - 1)>>
                   \o rest[First(str, i) + Len(Guid!Delimiter)]]

LEMMA EndsAt ==
  ASSUME NEW str \in Text, NEW i \in 1..Len(str) + 1
  PROVE  Len(Guid!Delimiter) = 3 /\ Ends(str, i) = {j \in i..Len(str) - 2 : At(str, j)}
<1>1. Len(Guid!Delimiter) = 3
  BY DEF Guid!Delimiter
<1>2. Len(str) \in Nat
  BY LenProperties DEF Text
<1>3. Len(str) - 3 + 1 = Len(str) - 2
  BY <1>2
<1>4. Ends(str, i) = {j \in i..Len(str) - 2 : SubSeq(str, j, j + 3 - 1) = Guid!Delimiter}
  BY <1>1, <1>3, Zenon DEF Ends
<1>5. \A j \in i..Len(str) - 2 : j \in 1..Len(str) - 2
  BY <1>2
<1>6. \A j \in i..Len(str) - 2 : SubSeq(str, j, j + 3 - 1) = Guid!Delimiter <=> At(str, j)
  BY <1>5, DelimiterAt, Zenon
<1>7. QED
  BY <1>1, <1>4, <1>6, Zenon

LEMMA FirstIs ==
  ASSUME NEW str \in Text, NEW i \in 1..Len(str) + 1, Ends(str, i) # {}
  PROVE  /\ First(str, i) \in Ends(str, i)
         /\ \A k \in Ends(str, i) : First(str, i) <= k
<1>1. Ends(str, i) \in SUBSET Nat
  BY EndsAt
<1>2. \E x \in Ends(str, i) : \A y \in Ends(str, i) : x <= y
  BY <1>1, LeastNumber
<1>3. QED
  BY <1>2, Zenon DEF First

LEMMA SplitExists ==
  ASSUME NEW str \in Text
  PROVE  \E rest : IsSplit(rest, str) /\ Guid!StringSplit(str, Guid!Delimiter) = rest[1]
<1>1. PICK n \in Nat : n = Len(str) + 1
  BY LenProperties DEF Text
<1> DEFINE Stops == {i \in 1..n : Ends(str, i) = {}}
           last == [i \in 1..n |-> <<SubSeq(str, i, Len(str))>>]
           head == [i \in 1..n |-> SubSeq(str, i, First(str, i) - 1)]
           next == [i \in 1..n |-> First(str, i) + Len(Guid!Delimiter)]
<1>2. ASSUME NEW i \in 1..n, i \notin Stops PROVE next[i] \in i + 1..n
  <2>1. i \in 1..Len(str) + 1 /\ Ends(str, i) # {}
    BY <1>1, <1>2
  <2>2. First(str, i) \in i..Len(str) - 2 /\ Len(Guid!Delimiter) = 3
    BY <2>1, FirstIs, EndsAt
  <2>3. next[i] = First(str, i) + 3
    BY <2>2
  <2>4. QED
    BY <1>1, <2>2, <2>3
<1>3. PICK f : Walked(f, n, 1, Stops, last, head, next)
  <2> HIDE DEF Stops, last, head, next
  <2>1. QED
    BY <1>2, WalkExists
<1>4. ASSUME NEW i \in 1..n
      PROVE  f[i] = IF Ends(str, i) = {} THEN <<SubSeq(str, i, Len(str))>>
                    ELSE <<SubSeq(str, i, First(str, i) - 1)>>
                           \o f[First(str, i) + Len(Guid!Delimiter)]
  <2>1. /\ i \in Stops <=> Ends(str, i) = {}
        /\ last[i] = <<SubSeq(str, i, Len(str))>>
        /\ head[i] = SubSeq(str, i, First(str, i) - 1)
        /\ next[i] = First(str, i) + Len(Guid!Delimiter)
    OBVIOUS
  <2> HIDE DEF Stops, last, head, next
  <2>2. f[i] = IF i \in Stops THEN last[i] ELSE <<head[i]>> \o f[next[i]]
    BY <1>3, Zenon DEF Walked
  <2>3. QED
    BY <2>1, <2>2, Zenon
<1>5. f = [i \in 1..n |-> f[i]]
  BY <1>3, Zenon DEF Walked
<1>6. IsSplit(f, str)
  <2>1. f = [i \in 1..n |->
            IF Ends(str, i) = {} THEN <<SubSeq(str, i, Len(str))>>
            ELSE <<SubSeq(str, i, First(str, i) - 1)>>
                   \o f[First(str, i) + Len(Guid!Delimiter)]]
    BY <1>4, <1>5, Zenon
  <2>2. QED
    BY <1>1, <2>1, Zenon DEF IsSplit
<1> DEFINE rest == CHOOSE r : IsSplit(r, str)
<1>7. IsSplit(rest, str)
  BY <1>6, Zenon
<1>8. Guid!StringSplit(str, Guid!Delimiter) = rest[1]
  BY Zenon DEF Guid!StringSplit, IsSplit, Ends, First
<1>9. QED
  BY <1>7, <1>8, Zenon

Clear(str, i, j) == \A k \in i..j - 1 : ~At(str, k)

Cut(rest, str, i, end, next) == rest[i] = <<SubSeq(str, i, end)>> \o rest[next]

\* The next delimiter is at j when none begins before.
LEMMA SplitHere ==
  ASSUME NEW str \in Text, NEW rest, IsSplit(rest, str), NEW i \in 1..Len(str) + 1,
         NEW j \in i..Len(str) - 2, At(str, j), Clear(str, i, j),
         NEW end, end = j - 1, NEW next, next = j + 3
  PROVE  Cut(rest, str, i, end, next)
<1>1. j \in Ends(str, i)
  BY EndsAt
<1>2. First(str, i) \in Ends(str, i) /\ First(str, i) <= j
  BY <1>1, FirstIs
<1>3. First(str, i) = j
  <2>1. First(str, i) \in i..Len(str) - 2 /\ At(str, First(str, i))
    BY <1>2, EndsAt
  <2>2. First(str, i) \notin i..j - 1
    BY <2>1 DEF Clear
  <2>3. QED
    BY <1>2, <2>1, <2>2
<1>4. rest[i] = <<SubSeq(str, i, First(str, i) - 1)>>
                   \o rest[First(str, i) + Len(Guid!Delimiter)]
  <2>1. Ends(str, i) # {}
    BY <1>1
  <2>2. PICK r : r = rest
    OBVIOUS
  <2>3. r = [k \in 1..Len(str) + 1 |->
            IF Ends(str, k) = {} THEN <<SubSeq(str, k, Len(str))>>
            ELSE <<SubSeq(str, k, First(str, k) - 1)>>
                   \o rest[First(str, k) + Len(Guid!Delimiter)]]
    BY <2>2, Zenon DEF IsSplit
  <2>4. QED
    BY <2>1, <2>2, <2>3, Zenon
<1>5. Len(Guid!Delimiter) = 3
  BY EndsAt
<1>6. QED
  BY <1>3, <1>4, <1>5, Zenon DEF Cut

LEMMA SplitLast ==
  ASSUME NEW str \in Text, NEW rest, IsSplit(rest, str), NEW i \in 1..Len(str) + 1,
         \A k \in i..Len(str) - 2 : ~At(str, k)
  PROVE  rest[i] = <<SubSeq(str, i, Len(str))>>
<1>1. Ends(str, i) = {}
  BY EndsAt
<1>2. PICK r : r = rest
  OBVIOUS
<1>3. r = [k \in 1..Len(str) + 1 |->
            IF Ends(str, k) = {} THEN <<SubSeq(str, k, Len(str))>>
            ELSE <<SubSeq(str, k, First(str, k) - 1)>>
                   \o rest[First(str, k) + Len(Guid!Delimiter)]]
  BY <1>2, Zenon DEF IsSplit
<1>4. QED
  BY <1>1, <1>2, <1>3, Zenon

LEMMA NoDelimiterIn ==
  ASSUME NEW str \in Text, NEW s \in Text, Tidy(s), NEW at \in Nat, Stands(s, str, at),
         NEW k \in at + 1..at + Len(s)
  PROVE  ~At(str, k)
<1>1. Len(s) \in Nat
  BY LenProperties DEF Text
<1>2. PICK i \in 1..Len(s) : k = at + i /\ at + (i + 1) = k + 1
  <2>1. k - at \in 1..Len(s) /\ k = at + (k - at) /\ at + ((k - at) + 1) = k + 1
    BY <1>1
  <2>2. QED
    BY <2>1, Zenon
<1>3. str[k] = s[i]
  BY <1>2, Zenon DEF Stands
<1>4. CASE s[i] = 45
  <2>1. i + 1 <= Len(s) /\ s[i + 1] # 45
    BY <1>4, Zenon DEF Tidy
  <2>2. i + 1 \in 1..Len(s)
    BY <1>1, <2>1
  <2>3. str[k + 1] = s[i + 1]
    BY <1>2, <2>2, Zenon DEF Stands
  <2>4. QED
    BY <2>1, <2>3, Zenon DEF At
<1>5. QED
  BY <1>3, <1>4, Zenon DEF At

CutIs(s, str, i, j) == SubSeq(str, i, j) = s

\* It is what is cut out of the other text there.
LEMMA CutOut ==
  ASSUME NEW str \in Text, NEW s \in Text, NEW at \in Nat, Stands(s, str, at),
         at + Len(s) <= Len(str), NEW i, i = at + 1, NEW j, j = at + Len(s)
  PROVE  CutIs(s, str, i, j)
<1>1. PICK n \in Nat : n = Len(s)
  BY LenProperties DEF Text
<1>2. Len(str) \in Nat
  BY LenProperties DEF Text
<1>3. PICK c : c = SubSeq(str, at + 1, at + n)
  OBVIOUS
<1>4. ASSUME n = 0 PROVE SubSeq(str, at + 1, at + Len(s)) = s
  <2>1. s = <<>>
    BY <1>1, <1>4, EmptySeq DEF Text
  <2>2. c = <<>>
    BY <1>2, <1>3, <1>4
  <2>3. QED
    BY <1>1, <1>3, <2>1, <2>2, Zenon
<1>5. ASSUME n # 0 PROVE SubSeq(str, at + 1, at + Len(s)) = s
  <2>1. at + 1 \in 1..Len(str) + 1 /\ at + n \in at + 1 - 1..Len(str)
    BY <1>1, <1>2
  <2>2. /\ c \in Seq(Byte) /\ Len(c) = n
        /\ \A k \in 1..n : c[k] = str[at + k]
    <3>1. /\ SubSeq(str, at + 1, at + n) \in Seq(Byte)
          /\ Len(SubSeq(str, at + 1, at + n)) = IF at + 1 <= at + n THEN at + n - (at + 1) + 1 ELSE 0
          /\ \A k \in 1..at + n - (at + 1) + 1 :
               SubSeq(str, at + 1, at + n)[k] = str[at + 1 + k - 1]
      BY <2>1, SubSeqProperties DEF Text
    <3>2. at + n - (at + 1) + 1 = n /\ at + 1 <= at + n
      BY <1>5
    <3>3. \A k \in 1..n : at + 1 + k - 1 = at + k
      OBVIOUS
    <3>4. QED
      BY <1>3, <3>1, <3>2, <3>3, Zenon
  <2>3. \A k \in 1..n : c[k] = s[k]
    BY <1>1, <2>2, Zenon DEF Stands
  <2>4. c = s
    <3>1. s \in Seq(Byte) /\ Len(s) = n
      BY <1>1 DEF Text
    <3>2. QED
      BY <2>2, <2>3, <3>1, SeqEqual
  <2>5. QED
    BY <1>1, <1>3, <2>4, Zenon
<1>6. SubSeq(str, at + 1, at + Len(s)) = s
  BY <1>4, <1>5
<1>7. QED
  BY <1>6, Zenon DEF CutIs

LEMMA PutTwo ==
  ASSUME NEW y, NEW z
  PROVE  <<y>> \o <<z>> = <<y, z>>
<1> DEFINE P == {y, z}
<1>1. <<y>> \in Seq(P) /\ <<z>> \in Seq(P) /\ <<y, z>> \in Seq(P)
  OBVIOUS
<1> HIDE DEF P
<1>2. PICK s : s = <<y>> \o <<z>>
  OBVIOUS
<1>3. /\ s \in Seq(P) /\ Len(s) = 2
      /\ \A i \in 1..2 : s[i] = IF i <= 1 THEN <<y>>[i] ELSE <<z>>[i - 1]
  BY <1>1, <1>2, ConcatProperties
<1>4. \A i \in 1..2 : s[i] = <<y, z>>[i]
  BY <1>3
<1>5. Len(<<y, z>>) = 2
  OBVIOUS
<1>6. s = <<y, z>>
  BY <1>1, <1>3, <1>4, <1>5, SeqEqual
<1>7. QED
  BY <1>2, <1>6, Zenon

LEMMA PutTogether ==
  ASSUME NEW x, NEW y, NEW z
  PROVE  <<x>> \o (<<y>> \o <<z>>) = <<x, y, z>>
<1> DEFINE P == {x, y, z}
<1>1. <<x>> \in Seq(P) /\ <<x, y, z>> \in Seq(P) /\ <<y, z>> \in Seq(P)
  OBVIOUS
<1> HIDE DEF P
<1>2. PICK t : t = <<x>> \o <<y, z>>
  OBVIOUS
<1>3. /\ t \in Seq(P) /\ Len(t) = 3
      /\ \A i \in 1..3 : t[i] = IF i <= 1 THEN <<x>>[i] ELSE <<y, z>>[i - 1]
  BY <1>1, <1>2, ConcatProperties
<1>4. \A i \in 1..3 : t[i] = <<x, y, z>>[i]
  BY <1>3
<1>5. Len(<<x, y, z>>) = 3
  OBVIOUS
<1>6. t = <<x, y, z>>
  BY <1>1, <1>3, <1>4, <1>5, SeqEqual
<1>7. <<y>> \o <<z>> = <<y, z>>
  BY PutTwo, Zenon
<1>8. QED
  BY <1>2, <1>6, <1>7, Zenon

\* Three tidy texts with delimiters between them are taken apart again.
LEMMA ThreeParts ==
  ASSUME NEW a \in Text, NEW b \in Text, NEW c \in Text, Tidy(a), Tidy(b), Tidy(c),
         NEW str \in Text, Len(str) = Len(a) + Len(b) + Len(c) + 6,
         Stands(a, str, 0), At(str, Len(a) + 1), Stands(b, str, Len(a) + 3),
         At(str, Len(a) + Len(b) + 4), Stands(c, str, Len(a) + Len(b) + 6)
  PROVE  Guid!StringSplit(str, Guid!Delimiter) = <<a, b, c>>
<1>1. PICK l \in Nat, m \in Nat, n \in Nat : l = Len(a) /\ m = Len(b) /\ n = Len(c)
  BY LenProperties DEF Text
<1>2. PICK rest : IsSplit(rest, str) /\ Guid!StringSplit(str, Guid!Delimiter) = rest[1]
  BY SplitExists
\* Where the second and third part begin, and where the second ends.
<1>3. PICK i2 \in Nat, i3 \in Nat, e2 \in Nat, e3 \in Nat :
        i2 = l + 4 /\ i3 = l + m + 7 /\ e2 = l + m + 3 /\ e3 = l + m + n + 6
  OBVIOUS
<1>4. Len(str) = e3 /\ At(str, l + 1) /\ At(str, l + m + 4)
  <2>1. At(str, l + 1) /\ At(str, l + m + 4)
    BY <1>1, Zenon
  <2>2. QED
    BY <1>1, <1>3, <2>1
<1>5. rest[1] = <<a>> \o rest[i2]
  <2>1. 1 \in 1..Len(str) + 1 /\ l + 1 \in 1..Len(str) - 2 /\ l = l + 1 - 1 /\ i2 = l + 1 + 3
    BY <1>3, <1>4
  <2>2. \A k \in 1..l + 1 - 1 : k \in 0 + 1..0 + l
    OBVIOUS
  <2>3. Clear(str, 1, l + 1)
    BY <1>1, <2>2, NoDelimiterIn DEF Clear
  <2>4. Cut(rest, str, 1, l, i2)
    BY <1>2, <1>4, <2>1, <2>3, SplitHere
  <2>5. 0 + Len(a) <= Len(str) /\ 1 = 0 + 1 /\ l = 0 + Len(a) /\ 0 \in Nat
    BY <1>1, <1>3, <1>4
  <2>6. CutIs(a, str, 1, l)
    BY <2>5, CutOut, Zenon
  <2>7. QED
    BY <2>4, <2>6, Zenon DEF Cut, CutIs
<1>6. rest[i2] = <<b>> \o rest[i3]
  <2>1. /\ i2 \in 1..Len(str) + 1 /\ l + m + 4 \in i2..Len(str) - 2
        /\ e2 = l + m + 4 - 1 /\ i3 = l + m + 4 + 3
    BY <1>3, <1>4
  <2>2. \A k \in i2..l + m + 4 - 1 : k \in (l + 3) + 1..(l + 3) + m
    BY <1>3
  <2>3. Clear(str, i2, l + m + 4)
    <3>1. l + 3 \in Nat
      OBVIOUS
    <3>2. QED
      BY <1>1, <2>2, <3>1, NoDelimiterIn DEF Clear
  <2>4. Cut(rest, str, i2, e2, i3)
    BY <1>2, <1>4, <2>1, <2>3, SplitHere
  <2>5. /\ (Len(a) + 3) + Len(b) <= Len(str) /\ i2 = (Len(a) + 3) + 1
        /\ e2 = (Len(a) + 3) + Len(b) /\ Len(a) + 3 \in Nat
    BY <1>1, <1>3, <1>4
  <2>6. CutIs(b, str, i2, e2)
    BY <2>5, CutOut, Zenon
  <2>7. QED
    BY <2>4, <2>6, Zenon DEF Cut, CutIs
<1>7. rest[i3] = <<c>>
  <2>1. i3 \in 1..Len(str) + 1
    BY <1>3, <1>4
  <2>2. \A k \in i3..Len(str) - 2 : k \in (l + m + 6) + 1..(l + m + 6) + n
    BY <1>3, <1>4
  <2>3. \A k \in i3..Len(str) - 2 : ~At(str, k)
    <3>1. l + m + 6 \in Nat
      OBVIOUS
    <3>2. QED
      BY <1>1, <2>2, <3>1, NoDelimiterIn
  <2>4. rest[i3] = <<SubSeq(str, i3, Len(str))>>
    BY <1>2, <2>1, <2>3, SplitLast
  <2>5. /\ (Len(a) + Len(b) + 6) + Len(c) <= Len(str) /\ i3 = (Len(a) + Len(b) + 6) + 1
        /\ Len(str) = (Len(a) + Len(b) + 6) + Len(c) /\ Len(a) + Len(b) + 6 \in Nat
    BY <1>1, <1>3, <1>4
  <2>6. CutIs(c, str, i3, Len(str))
    BY <2>5, CutOut, Zenon
  <2>7. QED
    BY <2>4, <2>6, Zenon DEF CutIs
<1>8. <<a>> \o (<<b>> \o <<c>>) = <<a, b, c>>
  BY PutTogether, Zenon
<1>9. QED
  BY <1>2, <1>5, <1>6, <1>7, <1>8, Zenon

\* Texts of tidy texts are tidy.
LEMMA LaidTidy ==
  ASSUME NEW e \in Text, NEW ss \in Seq(Text), NEW off, LaidOut(e, ss, off),
         \A k \in 1..Len(ss) : Tidy(ss[k])
  PROVE  Tidy(e)
<1>1. PICK n \in Nat : n = Len(ss)
  BY LenProperties
<1>2. PICK l \in Nat : l = Len(e)
  BY LenProperties DEF Text
<1>3. /\ off[0] = 0 /\ off[n] = l
      /\ \A k \in 0..n : off[k] \in Nat /\ off[k] <= l
      /\ \A k \in 1..n : off[k] = off[k - 1] + Len(ss[k]) /\ Stands(ss[k], e, off[k - 1])
  BY <1>1, <1>2, Zenon DEF LaidOut
<1>4. ASSUME NEW i \in 1..l, e[i] = 45 PROVE i + 1 <= l /\ e[i + 1] # 45
  <2> DEFINE Behind == {k \in 0..n : i <= off[k]}
  <2>1. n \in Behind
    BY <1>3
  <2>2. PICK k \in Behind : \A j \in Behind : k <= j
    <3>1. Behind \in SUBSET Nat /\ Behind # {}
      BY <2>1
    <3> HIDE DEF Behind
    <3>2. QED
      BY <3>1, LeastNumber
  <2>3. k \in 1..n /\ k - 1 \in 0..n
    BY <1>3, <2>2
  <2>4. off[k - 1] \in Nat /\ off[k] \in Nat /\ off[k] <= l /\ off[k - 1] < i /\ i <= off[k]
    <3>1. k - 1 \notin Behind
      BY <2>2, <2>3
    <3>2. QED
      BY <1>3, <2>2, <2>3, <3>1
  <2>5. PICK a \in Nat, b \in Nat, p \in Nat :
          a = off[k - 1] /\ b = Len(ss[k]) /\ i = a + p /\ p \in 1..b /\ a + b <= l
    <3>1. Len(ss[k]) \in Nat
      <4>1. ss[k] \in Text
        BY <1>1, <2>3, ElementOfSeq
      <4>2. QED
        BY <4>1, LenProperties DEF Text
    <3>2. off[k] = off[k - 1] + Len(ss[k])
      BY <1>3, <2>3
    <3>3. /\ i - off[k - 1] \in Nat /\ i = off[k - 1] + (i - off[k - 1])
          /\ i - off[k - 1] \in 1..Len(ss[k]) /\ off[k - 1] + Len(ss[k]) <= l
      BY <2>4, <3>1, <3>2
    <3>4. QED
      BY <2>4, <3>1, <3>3, Zenon
  <2>6. Stands(ss[k], e, a) /\ Tidy(ss[k])
    BY <1>1, <1>3, <2>3, <2>5, Zenon
  <2>7. ss[k][p] = 45
    BY <1>4, <2>5, <2>6, Zenon DEF Stands
  <2>8. p + 1 <= b /\ ss[k][p + 1] # 45
    BY <2>5, <2>6, <2>7, Zenon DEF Tidy
  <2>9. p + 1 \in 1..b /\ i + 1 <= l /\ a + (p + 1) = i + 1
    <3>1. p + 1 <= b /\ i = a + p /\ a + b <= l
      BY <2>5, <2>8, Zenon
    <3>2. QED
      BY <3>1
  <2>10. e[a + (p + 1)] = ss[k][p + 1]
    BY <2>5, <2>6, <2>9, Zenon DEF Stands
  <2>11. e[i + 1] # 45
    BY <2>8, <2>9, <2>10, Zenon
  <2>12. QED
    BY <2>9, <2>11
<1>5. QED
  BY <1>2, <1>4, Zenon DEF Tidy

\* An escaped byte is itself, or a dash with two digits that stand for it; only
\* what a signed char makes of a byte outside ASCII does not.
Piece(b, sgn) ==
  IF b \in Guid!Plain THEN <<b>> ELSE <<Guid!Dash>> \o Guid!HexOf(b, sgn)
Readable(b, sgn) == b \in Byte /\ (sgn => b < 128)
Triple(b, d1, d2) ==
  /\ d1 \in Guid!HexDigits /\ d2 \in Guid!HexDigits /\ d1 \in Byte /\ d2 \in Byte
  /\ d1 # 45 /\ d2 # 45
  /\ 16 * Guid!DigitValue(d1) + Guid!DigitValue(d2) = b

LEMMA DigitsBack ==
  ASSUME NEW n \in 0..15
  PROVE  /\ Guid!DigitValue(Guid!Digit(n)) = n /\ Guid!Digit(n) \in Guid!HexDigits
         /\ Guid!Digit(n) \in Byte /\ Guid!Digit(n) # 45
<1>1. CASE n < 10
  BY <1>1 DEF Guid!DigitValue, Guid!Digit, Guid!HexDigits, Byte
<1>2. CASE ~(n < 10)
  BY <1>2 DEF Guid!DigitValue, Guid!Digit, Guid!HexDigits, Byte
<1>3. QED
  BY <1>1, <1>2

LEMMA PieceShape ==
  ASSUME NEW b \in Byte, NEW sgn \in BOOLEAN
  PROVE  /\ Piece(b, sgn) \in Text /\ Tidy(Piece(b, sgn))
         /\ Readable(b, sgn) =>
              \/ b # 45 /\ Piece(b, sgn) = <<b>>
              \/ \E d1, d2 : Triple(b, d1, d2) /\ Piece(b, sgn) = <<45, d1, d2>>
<1>1. CASE b \in Guid!Plain
  <2>1. b # 45 /\ Piece(b, sgn) = <<b>>
    BY <1>1 DEF Guid!Plain, Piece
  <2>2. <<b>> \in Text /\ Tidy(<<b>>)
    BY <2>1 DEF Text, Tidy
  <2>3. QED
    BY <2>1, <2>2, Zenon
<1>2. CASE b \notin Guid!Plain
  <2>1. PICK d1 \in Byte, d2 \in Byte :
          /\ Guid!HexOf(b, sgn) = <<d1, d2>> /\ d1 # 45 /\ d2 # 45
          /\ Readable(b, sgn) => Triple(b, d1, d2)
    <3>1. CASE b > 127 /\ sgn
      <4>1. Guid!HexOf(b, sgn) = <<102, 102>> /\ 102 \in Byte /\ 102 # 45
        BY <3>1 DEF Guid!HexOf, Byte
      <4>2. ~Readable(b, sgn)
        BY <3>1 DEF Readable, Byte
      <4>3. QED
        BY <4>1, <4>2, Zenon
    <3>2. CASE ~(b > 127 /\ sgn)
      <4>1. PICK h \in 0..15, l \in 0..15 : h = b \div 16 /\ l = b % 16 /\ 16 * h + l = b
        BY DEF Byte
      <4>2. Guid!HexOf(b, sgn) = <<Guid!Digit(h), Guid!Digit(l)>>
        BY <3>2, <4>1 DEF Guid!HexOf
      <4>3. PICK d1, d2 : d1 = Guid!Digit(h) /\ d2 = Guid!Digit(l)
        OBVIOUS
      <4>4. /\ Guid!DigitValue(d1) = h /\ d1 \in Guid!HexDigits /\ d1 \in Byte /\ d1 # 45
            /\ Guid!DigitValue(d2) = l /\ d2 \in Guid!HexDigits /\ d2 \in Byte /\ d2 # 45
        BY <4>3, DigitsBack, Zenon
      <4>5. Triple(b, d1, d2)
        BY <4>1, <4>4, Zenon DEF Triple
      <4>6. QED
        BY <4>2, <4>3, <4>4, <4>5, Zenon
    <3>3. QED
      BY <3>1, <3>2
  <2>2. Piece(b, sgn) = <<45, d1, d2>>
    <3>1. Piece(b, sgn) = <<45>> \o <<d1, d2>>
      BY <1>2, <2>1 DEF Piece, Guid!Dash
    <3>2. <<d1>> \o <<d2>> = <<d1, d2>> /\ <<45>> \o (<<d1>> \o <<d2>>) = <<45, d1, d2>>
      BY PutTogether, PutTwo, Zenon
    <3>3. QED
      BY <3>1, <3>2, Zenon
  <2>3. <<45, d1, d2>> \in Text /\ Tidy(<<45, d1, d2>>)
    <3>1. 45 \in Byte
      BY DEF Byte
    <3>2. <<45, d1, d2>> \in Text
      BY <2>1, <3>1 DEF Text
    <3>3. Tidy(<<45, d1, d2>>)
      BY <2>1 DEF Tidy
    <3>4. QED
      BY <3>2, <3>3
  <2>4. QED
    BY <2>1, <2>2, <2>3, Zenon
<1>3. QED
  BY <1>1, <1>2

\* What is escaped is tidy, and made of the pieces of its bytes.
Pieces(str, sgn) == [i \in DOMAIN str |-> Piece(str[i], sgn)]

LEMMA EscapeLaid ==
  ASSUME NEW str \in Text, NEW sgn \in BOOLEAN
  PROVE  /\ Guid!SelectorEscape(str, sgn) \in Text
         /\ Tidy(Guid!SelectorEscape(str, sgn))
         /\ \E off : LaidOut(Guid!SelectorEscape(str, sgn), Pieces(str, sgn), off)
<1>1. PICK ss : ss = Pieces(str, sgn)
  OBVIOUS
<1>2. PICK e : e = Guid!SelectorEscape(str, sgn)
  OBVIOUS
<1>3. e = Seqs!FlattenSeq(ss)
  <2>1. e = Guid!FlattenSeq(ss)
    BY <1>1, <1>2, Zenon DEF Guid!SelectorEscape, Pieces, Piece
  <2>2. Guid!FlattenSeq(ss) = Seqs!FlattenSeq(ss)
    BY DEF Guid!FlattenSeq, Seqs!FlattenSeq
  <2>3. QED
    BY <2>1, <2>2, Zenon
<1>4. PICK n \in Nat : n = Len(str) /\ DOMAIN str = 1..n /\ \A i \in 1..n : str[i] \in Byte
  BY LenProperties, ElementOfSeq DEF Text
<1>5. \A i \in 1..n : ss[i] = Piece(str[i], sgn) /\ ss[i] \in Text /\ Tidy(ss[i])
  <2>1. ss = [i \in 1..n |-> Piece(str[i], sgn)]
    BY <1>1, <1>4, Zenon DEF Pieces
  <2>2. \A i \in 1..n : ss[i] = Piece(str[i], sgn)
    BY <2>1
  <2>3. QED
    BY <1>4, <2>2, PieceShape, Zenon
<1>6. ss \in Seq(Text) /\ Len(ss) = n
  <2>1. ss = [i \in 1..n |-> Piece(str[i], sgn)]
    BY <1>1, <1>4, Zenon DEF Pieces
  <2>2. ss = [i \in 1..n |-> ss[i]]
    BY <2>1
  <2>3. ss \in [1..n -> Text]
    BY <1>5, <2>2
  <2>4. QED
    BY <2>3
<1>7. e \in Text /\ \E off : LaidOut(e, ss, off)
  BY <1>3, <1>6, FlatLaid, Zenon DEF Text
<1>8. PICK off : LaidOut(e, ss, off)
  BY <1>7
<1>9. Tidy(e)
  <2>1. \A k \in 1..Len(ss) : Tidy(ss[k])
    BY <1>5, <1>6, Zenon
  <2>2. QED
    BY <1>6, <1>7, <1>8, <2>1, LaidTidy
<1>10. QED
  BY <1>1, <1>2, <1>7, <1>9, Zenon

\* SelectorUnescape takes a byte or three at a time.
Digits(str, i) == SubSeq(str, i + 1, IF i + 2 <= Len(str) THEN i + 2 ELSE Len(str))
Coded(str, i) ==
  str[i] = Guid!Dash /\ \A d \in DOMAIN Digits(str, i) : Digits(str, i)[d] \in Guid!HexDigits
IsUnescaped(rest, str) ==
  rest = [i \in 1..Len(str) + 3 |->
            IF i > Len(str) THEN <<>>
            ELSE IF Coded(str, i) THEN <<Guid!ToByte(Digits(str, i))>> \o rest[i + 3]
            ELSE <<str[i]>> \o rest[i + 1]]

LEMMA UnescapeExists ==
  ASSUME NEW str \in Text
  PROVE  \E rest : IsUnescaped(rest, str) /\ Guid!SelectorUnescape(str) = rest[1]
<1>1. PICK l \in Nat, n \in Nat : l = Len(str) /\ n = l + 3
  BY LenProperties DEF Text
<1> DEFINE Stops == {i \in 1..n : i > l}
           last == [i \in 1..n |-> <<>>]
           head == [i \in 1..n |-> IF Coded(str, i) THEN Guid!ToByte(Digits(str, i)) ELSE str[i]]
           next == [i \in 1..n |-> IF Coded(str, i) THEN i + 3 ELSE i + 1]
<1>2. ASSUME NEW i \in 1..n, i \notin Stops PROVE next[i] \in i + 1..n
  BY <1>1, <1>2
<1>3. PICK f : Walked(f, n, 1, Stops, last, head, next)
  <2> HIDE DEF Stops, last, head, next
  <2>1. QED
    BY <1>2, WalkExists
<1>4. ASSUME NEW i \in 1..n
      PROVE  f[i] = IF i > l THEN <<>>
                    ELSE IF Coded(str, i) THEN <<Guid!ToByte(Digits(str, i))>> \o f[i + 3]
                    ELSE <<str[i]>> \o f[i + 1]
  <2>1. /\ i \in Stops <=> i > l
        /\ last[i] = <<>>
        /\ head[i] = IF Coded(str, i) THEN Guid!ToByte(Digits(str, i)) ELSE str[i]
        /\ next[i] = IF Coded(str, i) THEN i + 3 ELSE i + 1
    BY Zenon
  <2> HIDE DEF Stops, last, head, next
  <2>2. f[i] = IF i \in Stops THEN last[i] ELSE <<head[i]>> \o f[next[i]]
    BY <1>3, Zenon DEF Walked
  <2>3. CASE i > l
    BY <2>1, <2>2, <2>3, Zenon
  <2>4. CASE ~(i > l) /\ Coded(str, i)
    BY <2>1, <2>2, <2>4, Zenon
  <2>5. CASE ~(i > l) /\ ~Coded(str, i)
    BY <2>1, <2>2, <2>5, Zenon
  <2>6. QED
    BY <2>3, <2>4, <2>5
<1>5. f = [i \in 1..n |-> f[i]]
  BY <1>3, Zenon DEF Walked
<1>6. IsUnescaped(f, str)
  <2>1. f = [i \in 1..n |->
            IF i > l THEN <<>>
            ELSE IF Coded(str, i) THEN <<Guid!ToByte(Digits(str, i))>> \o f[i + 3]
            ELSE <<str[i]>> \o f[i + 1]]
    BY <1>4, <1>5, Zenon
  <2>2. QED
    BY <1>1, <2>1, Zenon DEF IsUnescaped
<1> DEFINE rest == CHOOSE r : IsUnescaped(r, str)
<1>7. IsUnescaped(rest, str)
  BY <1>6, Zenon
<1>8. Guid!SelectorUnescape(str) = rest[1]
  BY Zenon DEF Guid!SelectorUnescape, IsUnescaped, Coded, Digits
<1>9. QED
  BY <1>7, <1>8, Zenon

\* The next byte and what the rest comes to.
Goes(rest, i, b, j) == rest[i] = <<b>> \o rest[j]

LEMMA UnescapeSteps ==
  ASSUME NEW str \in Text, NEW rest, IsUnescaped(rest, str), NEW i \in 1..Len(str) + 1
  PROVE  /\ i = Len(str) + 1 => rest[i] = <<>>
         /\ i <= Len(str) /\ str[i] # 45 => Goes(rest, i, str[i], i + 1)
         /\ \A d1, d2, b :
              /\ i + 2 <= Len(str) /\ str[i] = 45 /\ str[i + 1] = d1 /\ str[i + 2] = d2
              /\ Triple(b, d1, d2)
              => Goes(rest, i, b, i + 3)
<1>1. PICK l \in Nat : l = Len(str)
  BY LenProperties DEF Text
<1>2. rest[i] = IF i > l THEN <<>>
                ELSE IF Coded(str, i) THEN <<Guid!ToByte(Digits(str, i))>> \o rest[i + 3]
                ELSE <<str[i]>> \o rest[i + 1]
  <2>1. PICK r : r = rest
    OBVIOUS
  <2>2. r = [k \in 1..Len(str) + 3 |->
               IF k > Len(str) THEN <<>>
               ELSE IF Coded(str, k) THEN <<Guid!ToByte(Digits(str, k))>> \o rest[k + 3]
               ELSE <<str[k]>> \o rest[k + 1]]
    BY <2>1, Zenon DEF IsUnescaped
  <2>3. i \in 1..Len(str) + 3
    BY <1>1
  <2>4. QED
    BY <1>1, <2>1, <2>2, <2>3, Zenon
<1>3. ASSUME i = Len(str) + 1 PROVE rest[i] = <<>>
  <2>1. i > l
    BY <1>1, <1>3
  <2>2. QED
    BY <1>2, <2>1, Zenon
<1>4. ASSUME i <= Len(str), str[i] # 45 PROVE Goes(rest, i, str[i], i + 1)
  <2>1. ~(i > l)
    BY <1>1, <1>4
  <2>2. ~Coded(str, i)
    BY <1>4 DEF Coded, Guid!Dash
  <2>3. QED
    BY <1>2, <2>1, <2>2, Zenon DEF Goes
<1>5. ASSUME NEW d1, NEW d2, NEW b, i + 2 <= Len(str), str[i] = 45, str[i + 1] = d1,
             str[i + 2] = d2, Triple(b, d1, d2)
      PROVE  Goes(rest, i, b, i + 3)
  <2>1. ~(i > l) /\ i + 2 <= l /\ i + 1 \in 1..l + 1 /\ i + 2 \in (i + 1) - 1..l
    BY <1>1, <1>5
  <2>2. PICK s : s = Digits(str, i)
    OBVIOUS
  <2>3. s = SubSeq(str, i + 1, i + 2)
    BY <1>5, <2>2, Zenon DEF Digits
  <2>4. /\ s \in Seq(Byte) /\ Len(s) = 2
        /\ s[1] = d1 /\ s[2] = d2
    <3>1. /\ SubSeq(str, i + 1, i + 2) \in Seq(Byte)
          /\ Len(SubSeq(str, i + 1, i + 2)) =
               IF i + 1 <= i + 2 THEN (i + 2) - (i + 1) + 1 ELSE 0
          /\ \A k \in 1..(i + 2) - (i + 1) + 1 :
               SubSeq(str, i + 1, i + 2)[k] = str[i + 1 + k - 1]
      BY <1>1, <2>1, SubSeqProperties DEF Text
    <3>2. /\ i + 1 <= i + 2 /\ (i + 2) - (i + 1) + 1 = 2 /\ 1 \in 1..2 /\ 2 \in 1..2
          /\ i + 1 + 1 - 1 = i + 1 /\ i + 1 + 2 - 1 = i + 2
      OBVIOUS
    <3>3. s \in Seq(Byte) /\ Len(s) = 2 /\ \A k \in 1..2 : s[k] = str[i + 1 + k - 1]
      BY <2>3, <3>1, <3>2, Zenon
    <3>4. s[1] = str[i + 1 + 1 - 1] /\ s[2] = str[i + 1 + 2 - 1]
      BY <3>2, <3>3, Zenon
    <3>5. QED
      BY <1>5, <3>2, <3>3, <3>4, Zenon
  <2>5. \A d \in DOMAIN s : s[d] \in Guid!HexDigits
    <3>1. DOMAIN s = 1..2
      BY <2>4, LenProperties
    <3>2. \A d \in DOMAIN s : d = 1 \/ d = 2
      BY <3>1
    <3>3. QED
      BY <1>5, <2>4, <3>2, Zenon DEF Triple
  <2>6. Coded(str, i)
    BY <1>5, <2>2, <2>5, Zenon DEF Coded, Guid!Dash
  <2>7. Guid!ToByte(s) = b
    <3>1. Guid!ToByte(s) = 16 * Guid!DigitValue(s[1]) + Guid!DigitValue(s[2])
      BY <2>4 DEF Guid!ToByte
    <3>2. QED
      BY <1>5, <2>4, <3>1, Zenon DEF Triple
  <2>8. QED
    BY <1>2, <2>1, <2>2, <2>6, <2>7, Zenon DEF Goes
<1>6. QED
  BY <1>3, <1>4, <1>5, Zenon

\* One more byte in front.
LEMMA TakenFrom ==
  ASSUME NEW str \in Text, NEW k \in 1..Len(str)
  PROVE  <<str[k]>> \o SubSeq(str, k + 1, Len(str)) = SubSeq(str, k, Len(str))
<1>1. PICK n \in Nat : n = Len(str)
  BY LenProperties DEF Text
<1>2. PICK b \in Byte : b = str[k]
  BY ElementOfSeq DEF Text
<1>3. PICK t : t = SubSeq(str, k + 1, n)
  OBVIOUS
<1>4. PICK s : s = SubSeq(str, k, n)
  OBVIOUS
<1>5. t \in Seq(Byte) /\ Len(t) = n - k /\ \A i \in 1..n - k : t[i] = str[k + i]
  <2>1. k + 1 \in 1..Len(str) + 1 /\ n \in k + 1 - 1..Len(str)
    BY <1>1
  <2>2. /\ SubSeq(str, k + 1, n) \in Seq(Byte)
        /\ Len(SubSeq(str, k + 1, n)) = IF k + 1 <= n THEN n - (k + 1) + 1 ELSE 0
        /\ \A i \in 1..n - (k + 1) + 1 : SubSeq(str, k + 1, n)[i] = str[k + 1 + i - 1]
    BY <2>1, SubSeqProperties DEF Text
  <2>3. /\ (IF k + 1 <= n THEN n - (k + 1) + 1 ELSE 0) = n - k
        /\ n - (k + 1) + 1 = n - k /\ \A i \in 1..n - k : k + 1 + i - 1 = k + i
    BY <1>1
  <2>4. QED
    BY <1>3, <2>2, <2>3, Zenon
<1>6. s \in Seq(Byte) /\ Len(s) = n - k + 1 /\ \A i \in 1..n - k + 1 : s[i] = str[k + i - 1]
  <2>1. k \in 1..Len(str) + 1 /\ n \in k - 1..Len(str)
    BY <1>1
  <2>2. /\ SubSeq(str, k, n) \in Seq(Byte)
        /\ Len(SubSeq(str, k, n)) = IF k <= n THEN n - k + 1 ELSE 0
        /\ \A i \in 1..n - k + 1 : SubSeq(str, k, n)[i] = str[k + i - 1]
    BY <2>1, SubSeqProperties DEF Text
  <2>3. k <= n
    BY <1>1
  <2>4. QED
    BY <1>4, <2>2, <2>3, Zenon
<1>7. PICK z : z = <<b>> \o t
  OBVIOUS
<1>8. z \in Seq(Byte) /\ Len(z) = n - k + 1
      /\ \A i \in 1..n - k + 1 : z[i] = IF i <= 1 THEN b ELSE t[i - 1]
  <2>1. <<b>> \in Seq(Byte) /\ Len(<<b>>) = 1 /\ <<b>>[1] = b
    OBVIOUS
  <2>2. /\ <<b>> \o t \in Seq(Byte) /\ Len(<<b>> \o t) = Len(<<b>>) + Len(t)
        /\ \A i \in 1..Len(<<b>>) + Len(t) :
             (<<b>> \o t)[i] = IF i <= Len(<<b>>) THEN <<b>>[i] ELSE t[i - Len(<<b>>)]
    BY <1>5, <2>1, ConcatProperties
  <2>3. 1 + (n - k) = n - k + 1 /\ \A i \in 1..n - k + 1 : i <= 1 => i = 1
    BY <1>1
  <2>4. z \in Seq(Byte) /\ Len(z) = n - k + 1
        /\ \A i \in 1..n - k + 1 : z[i] = IF i <= 1 THEN <<b>>[i] ELSE t[i - 1]
    BY <1>5, <1>7, <2>1, <2>2, <2>3, Zenon
  <2>5. QED
    BY <2>1, <2>3, <2>4, Zenon
<1>9. \A i \in 1..n - k + 1 : z[i] = s[i]
  <2>1. ASSUME NEW i \in 1..n - k + 1 PROVE z[i] = s[i]
    <3>1. CASE i = 1
      <4>1. i <= 1 /\ k + i - 1 = k
        BY <3>1
      <4>2. z[i] = b /\ s[i] = str[k + i - 1]
        BY <1>6, <1>8, <4>1, Zenon
      <4>3. QED
        BY <1>2, <4>1, <4>2, Zenon
    <3>2. CASE i # 1
      <4>1. ~(i <= 1) /\ i - 1 \in 1..n - k /\ k + (i - 1) = k + i - 1
        BY <1>1, <3>2
      <4>2. z[i] = t[i - 1] /\ t[i - 1] = str[k + (i - 1)] /\ s[i] = str[k + i - 1]
        BY <1>5, <1>6, <1>8, <4>1, Zenon
      <4>3. QED
        BY <4>1, <4>2, Zenon
    <3>3. QED
      BY <3>1, <3>2
  <2>2. QED
    BY <2>1
<1>10. z = s
  <2>1. Len(z) = Len(s) /\ \A i \in 1..Len(z) : z[i] = s[i]
    BY <1>6, <1>8, <1>9, Zenon
  <2>2. QED
    BY <1>6, <1>8, <2>1, SeqEqual
<1>11. QED
  BY <1>1, <1>2, <1>3, <1>4, <1>7, <1>10, Zenon

\* The code of names loses nothing, when char is unsigned or the name is ASCII.
LEMMA EscapeIsUndone ==
  ASSUME NEW str \in Text, NEW sgn \in BOOLEAN, sgn => Guid!Ascii(str)
  PROVE  Guid!SelectorUnescape(Guid!SelectorEscape(str, sgn)) = str
<1>1. PICK e : e = Guid!SelectorEscape(str, sgn)
  OBVIOUS
<1>2. PICK ss : ss = Pieces(str, sgn)
  OBVIOUS
<1>3. e \in Text /\ \E off : LaidOut(e, ss, off)
  BY <1>1, <1>2, EscapeLaid, Zenon
<1>4. PICK off : LaidOut(e, ss, off)
  BY <1>3
<1>5. PICK rest : IsUnescaped(rest, e) /\ Guid!SelectorUnescape(e) = rest[1]
  BY <1>3, UnescapeExists
<1>6. PICK n \in Nat : n = Len(str) /\ DOMAIN str = 1..n
  BY LenProperties DEF Text
<1>7. PICK l \in Nat : l = Len(e)
  BY <1>3, LenProperties DEF Text
<1>8. \A i \in 1..n : str[i] \in Byte /\ Readable(str[i], sgn)
  <2>1. \A i \in 1..n : str[i] \in Byte
    BY <1>6, ElementOfSeq DEF Text
  <2>2. QED
    BY <1>6, <2>1, Zenon DEF Readable, Guid!Ascii
<1>9. Len(ss) = n /\ \A i \in 1..n : ss[i] = Piece(str[i], sgn)
  <2>1. ss = [i \in 1..n |-> Piece(str[i], sgn)]
    BY <1>2, <1>6, Zenon DEF Pieces
  <2>2. \A i \in 1..n : ss[i] = Piece(str[i], sgn)
    BY <2>1
  <2>3. \A i \in 1..n : ss[i] \in Text
    BY <1>8, <2>2, PieceShape, Zenon
  <2>4. ss = [i \in 1..n |-> ss[i]]
    BY <2>1
  <2>5. Len(ss) = n
    <3>1. ss \in [1..n -> Text]
      BY <2>3, <2>4
    <3>2. QED
      BY <3>1
  <2>6. QED
    BY <2>2, <2>5
<1>10. /\ off[0] = 0 /\ off[n] = l
       /\ \A k \in 0..n : off[k] \in Nat /\ off[k] <= l
       /\ \A k \in 1..n : off[k] = off[k - 1] + Len(ss[k]) /\ Stands(ss[k], e, off[k - 1])
  BY <1>4, <1>7, <1>9, Zenon DEF LaidOut
\* What stands behind the first k pieces comes to the bytes behind the first k.
<1> DEFINE Done(k) == rest[off[k] + 1] = SubSeq(str, k + 1, n)
           T == {m \in Nat : m <= n => Done(n - m)}
<1>11. T \in SUBSET Nat /\ 0 \in T
  <2>1. Done(n)
    <3>1. l + 1 \in 1..Len(e) + 1 /\ l + 1 = Len(e) + 1
      BY <1>7
    <3>2. rest[l + 1] = <<>>
      BY <1>3, <1>5, <3>1, UnescapeSteps, Zenon
    <3>3. SubSeq(str, n + 1, n) = <<>>
      BY <1>6
    <3>4. QED
      BY <1>10, <3>2, <3>3, Zenon
  <2>2. n - 0 = n
    OBVIOUS
  <2> HIDE DEF Done
  <2>3. QED
    BY <2>1, <2>2
<1>12. ASSUME NEW m \in T, m < n PROVE m + 1 \in T
  <2>1. PICK k \in 1..n : k = n - m /\ k - 1 = n - (m + 1) /\ k - 1 \in 0..n /\ k \in 0..n
    BY <1>12
  <2>2. Done(k)
    <3>1. Done(n - m)
      BY <1>12
    <3>2. QED
      BY <2>1, <3>1, Zenon
  <2>3. PICK a \in Nat, c \in Nat, b \in Byte :
          a = off[k - 1] /\ c = off[k] /\ b = str[k] /\ c <= l
    BY <1>8, <1>10, <2>1, Zenon
  <2>4. /\ c = a + Len(ss[k]) /\ Stands(ss[k], e, a) /\ ss[k] = Piece(b, sgn)
        /\ Readable(b, sgn)
    BY <1>8, <1>9, <1>10, <2>3, Zenon
  <2>5. Goes(rest, a + 1, b, c + 1)
    <3>1. \/ b # 45 /\ Piece(b, sgn) = <<b>>
          \/ \E d1, d2 : Triple(b, d1, d2) /\ Piece(b, sgn) = <<45, d1, d2>>
      BY <2>4, PieceShape, Zenon
    <3>2. CASE b # 45 /\ Piece(b, sgn) = <<b>>
      <4>1. PICK p : p = <<b>>
        OBVIOUS
      <4>2. Len(p) = 1 /\ p[1] = b /\ ss[k] = p
        BY <2>4, <3>2, <4>1
      <4>3. c = a + 1 /\ e[a + 1] = b
        <5>1. c = a + 1
          BY <2>4, <4>2, Zenon
        <5>2. 1 \in 1..1
          OBVIOUS
        <5>3. e[a + 1] = b
          BY <2>4, <4>2, <5>2, Zenon DEF Stands
        <5>4. QED
          BY <5>1, <5>3
      <4>4. a + 1 \in 1..Len(e) + 1 /\ a + 1 <= Len(e) /\ a + 1 + 1 = c + 1
        <5>1. c = a + 1 /\ c <= l
          BY <2>3, <4>3, Zenon
        <5>2. QED
          BY <1>7, <5>1
      <4>5. Goes(rest, a + 1, e[a + 1], a + 1 + 1)
        BY <1>3, <1>5, <3>2, <4>3, <4>4, UnescapeSteps, Zenon
      <4>6. QED
        BY <4>3, <4>4, <4>5, Zenon
    <3>3. ASSUME NEW d1, NEW d2, Triple(b, d1, d2), Piece(b, sgn) = <<45, d1, d2>>
          PROVE  Goes(rest, a + 1, b, c + 1)
      <4>1. PICK p : p = <<45, d1, d2>>
        OBVIOUS
      <4>2. Len(p) = 3 /\ p[1] = 45 /\ p[2] = d1 /\ p[3] = d2
        BY <4>1
      <4>3. ss[k] = p
        BY <2>4, <3>3, <4>1, Zenon
      <4>4. c = a + 3
        BY <2>4, <4>2, <4>3, Zenon
      <4>5. e[a + 1] = 45 /\ e[a + 2] = d1 /\ e[a + 3] = d2
        <5>1. 1 \in 1..3 /\ 2 \in 1..3 /\ 3 \in 1..3
          OBVIOUS
        <5>2. QED
          BY <2>4, <4>2, <4>3, <5>1, Zenon DEF Stands
      <4>6. /\ a + 1 \in 1..Len(e) + 1 /\ a + 1 + 2 <= Len(e) /\ a + 1 + 1 = a + 2
            /\ a + 1 + 2 = a + 3 /\ a + 1 + 3 = c + 1
        <5>1. c = a + 3 /\ c <= l
          BY <2>3, <4>4, Zenon
        <5>2. QED
          BY <1>7, <5>1
      <4>7. e[a + 1 + 1] = d1 /\ e[a + 1 + 2] = d2
        BY <4>5, <4>6, Zenon
      <4>8. Goes(rest, a + 1, b, a + 1 + 3)
        BY <1>3, <1>5, <3>3, <4>5, <4>6, <4>7, UnescapeSteps, Zenon
      <4>9. QED
        BY <4>6, <4>8, Zenon
    <3>4. QED
      BY <3>1, <3>2, <3>3, Zenon
  <2>6. <<b>> \o SubSeq(str, k + 1, n) = SubSeq(str, k, n)
    BY <1>6, <2>3, TakenFrom, Zenon
  <2>7. rest[a + 1] = SubSeq(str, k, n)
    BY <2>2, <2>3, <2>5, <2>6, Zenon DEF Goes
  <2>8. k - 1 + 1 = k
    OBVIOUS
  <2>9. Done(k - 1)
    BY <2>3, <2>7, <2>8, Zenon
  <2> HIDE DEF Done
  <2>10. Done(n - (m + 1))
    BY <2>1, <2>9, Zenon
  <2>11. QED
    BY <2>10
<1>13. Done(0)
  <2>1. n \in 0..n /\ n - n = 0
    OBVIOUS
  <2> HIDE DEF Done
  <2>2. n \in T
    <3> HIDE DEF T
    <3>1. QED
      BY <1>11, <1>12, <2>1, InductionUpTo, Zenon
  <2>3. Done(n - n)
    BY <2>2
  <2>4. QED
    BY <2>1, <2>3, Zenon
<1>14. rest[1] = SubSeq(str, 1, n)
  <2>1. off[0] + 1 = 1 /\ 0 + 1 = 1
    BY <1>10
  <2>2. QED
    BY <1>13, <2>1, Zenon
<1>15. SubSeq(str, 1, n) = str
  <2>1. 0 + Len(str) <= Len(str) /\ 1 = 0 + 1 /\ n = 0 + Len(str) /\ 0 \in Nat
    BY <1>6
  <2>2. Stands(str, str, 0)
    <3>1. \A i \in 1..n : 0 + i = i
      OBVIOUS
    <3>2. QED
      BY <1>6, <3>1, Zenon DEF Stands
  <2>3. CutIs(str, str, 1, n)
    BY <2>1, <2>2, CutOut, Zenon
  <2>4. QED
    BY <2>3, Zenon DEF CutIs
<1>16. QED
  BY <1>1, <1>5, <1>14, <1>15, Zenon

\* Two texts, one behind the other.
Joined(z, x, y) ==
  z \in Text /\ Len(z) = Len(x) + Len(y) /\ Stands(x, z, 0) /\ Stands(y, z, Len(x))

LEMMA JoinedTexts ==
  ASSUME NEW x \in Text, NEW y \in Text
  PROVE  Joined(x \o y, x, y)
<1>1. PICK a \in Nat, b \in Nat : a = Len(x) /\ b = Len(y)
  BY LenProperties DEF Text
<1>2. PICK z : z = x \o y
  OBVIOUS
<1>3. /\ z \in Text /\ Len(z) = a + b
      /\ \A i \in 1..a + b : z[i] = IF i <= a THEN x[i] ELSE y[i - a]
  <2>1. /\ x \o y \in Seq(Byte) /\ Len(x \o y) = Len(x) + Len(y)
        /\ \A i \in 1..Len(x) + Len(y) :
             (x \o y)[i] = IF i <= Len(x) THEN x[i] ELSE y[i - Len(x)]
    BY ConcatProperties DEF Text
  <2>2. QED
    BY <1>1, <1>2, <2>1, Zenon DEF Text
<1>4. \A i \in 1..a : z[0 + i] = x[i]
  <2>1. \A i \in 1..a : i \in 1..a + b /\ i <= a /\ 0 + i = i
    OBVIOUS
  <2>2. QED
    BY <1>3, <2>1, Zenon
<1>5. \A i \in 1..b : z[a + i] = y[i]
  <2>1. \A i \in 1..b : a + i \in 1..a + b /\ ~(a + i <= a) /\ (a + i) - a = i
    OBVIOUS
  <2>2. QED
    BY <1>3, <2>1, Zenon
<1>6. Joined(z, x, y)
  BY <1>1, <1>3, <1>4, <1>5, Zenon DEF Joined, Stands
<1>7. QED
  BY <1>2, <1>6, Zenon

LEMMA StandsToo ==
  ASSUME NEW x \in Text, NEW y \in Text, NEW z \in Text, NEW at \in Nat,
         Stands(x, y, at), Stands(y, z, 0), at + Len(x) <= Len(y)
  PROVE  Stands(x, z, at)
<1>1. PICK a \in Nat, b \in Nat : a = Len(x) /\ b = Len(y)
  BY LenProperties DEF Text
<1>2. ASSUME NEW i \in 1..a PROVE z[at + i] = x[i]
  <2>1. at + i \in 1..b /\ 0 + (at + i) = at + i
    <3>1. at + a <= b
      BY <1>1
    <3>2. QED
      BY <3>1
  <2>2. z[0 + (at + i)] = y[at + i]
    BY <1>1, <2>1, Zenon DEF Stands
  <2>3. y[at + i] = x[i]
    BY <1>1, Zenon DEF Stands
  <2>4. QED
    BY <2>1, <2>2, <2>3, Zenon
<1>3. QED
  BY <1>1, <1>2, Zenon DEF Stands

LEMMA DelimiterStands ==
  ASSUME NEW str, NEW at \in Nat, Stands(Guid!Delimiter, str, at)
  PROVE  At(str, at + 1)
<1>1. PICK d : d = Guid!Delimiter
  OBVIOUS
<1>2. Len(d) = 3 /\ d[1] = 45 /\ d[2] = 45 /\ d[3] = 45
  BY <1>1 DEF Guid!Delimiter, Guid!Dash
<1>3. 1 \in 1..3 /\ 2 \in 1..3 /\ 3 \in 1..3 /\ at + 1 + 1 = at + 2 /\ at + 1 + 2 = at + 3
  OBVIOUS
<1>4. str[at + 1] = 45 /\ str[at + 2] = 45 /\ str[at + 3] = 45
  BY <1>1, <1>2, <1>3, Zenon DEF Stands
<1>5. QED
  BY <1>3, <1>4, Zenon DEF At

LEMMA DelimiterText == Guid!Delimiter \in Text /\ Len(Guid!Delimiter) = 3
BY DEF Guid!Delimiter, Guid!Dash, Text, Byte

\* A GUID is taken apart into the names it was put together of.
LEMMA GuidIsUndone ==
  ASSUME BlockId \in Text, Tidy(BlockId), NEW d \in Text, NEW c \in Text, NEW sgn \in BOOLEAN,
         sgn => Guid!Ascii(d) /\ Guid!Ascii(c)
  PROVE  Guid!ParseGUID(Guid!GetGUID(d, c, sgn)) = <<d, c>>
<1>1. PICK b : b = Guid!SelectorEscape(d, sgn)
  OBVIOUS
<1>2. PICK e : e = Guid!SelectorEscape(c, sgn)
  OBVIOUS
<1>3. b \in Text /\ Tidy(b) /\ e \in Text /\ Tidy(e)
  BY <1>1, <1>2, EscapeLaid, Zenon
<1>4. PICK s1 : s1 = BlockId \o Guid!Delimiter
  OBVIOUS
<1>5. PICK s2 : s2 = s1 \o b
  OBVIOUS
<1>6. PICK s3 : s3 = s2 \o Guid!Delimiter
  OBVIOUS
<1>7. PICK str : str = s3 \o e
  OBVIOUS
<1>8. Guid!GetGUID(d, c, sgn) = str
  BY <1>1, <1>2, <1>4, <1>5, <1>6, <1>7, Zenon DEF Guid!GetGUID
<1>9. Joined(s1, BlockId, Guid!Delimiter)
  BY <1>4, DelimiterText, JoinedTexts, Zenon
<1>10. Joined(s2, s1, b)
  BY <1>3, <1>5, <1>9, JoinedTexts, Zenon DEF Joined
<1>11. Joined(s3, s2, Guid!Delimiter)
  BY <1>6, <1>10, DelimiterText, JoinedTexts, Zenon DEF Joined
<1>12. Joined(str, s3, e)
  BY <1>3, <1>7, <1>11, JoinedTexts, Zenon DEF Joined
<1>13. PICK l \in Nat, m \in Nat, n \in Nat : l = Len(BlockId) /\ m = Len(b) /\ n = Len(e)
  BY <1>3, LenProperties DEF Text
<1>14. /\ Len(s1) = l + 3 /\ Len(s2) = l + 3 + m /\ Len(s3) = l + 3 + m + 3
       /\ Len(str) = l + 3 + m + 3 + n
  BY <1>9, <1>10, <1>11, <1>12, <1>13, DelimiterText, Zenon DEF Joined
<1>15. s1 \in Text /\ s2 \in Text /\ s3 \in Text /\ str \in Text
  BY <1>9, <1>10, <1>11, <1>12, Zenon DEF Joined
\* The first texts stand at the beginning of the whole.
<1>16. Stands(s3, str, 0)
  BY <1>12, Zenon DEF Joined
<1>17. Stands(s2, str, 0)
  <2>1. Stands(s2, s3, 0) /\ 0 \in Nat /\ 0 + Len(s2) <= Len(s3)
    <3>1. 0 + (l + 3 + m) <= l + 3 + m + 3
      OBVIOUS
    <3>2. QED
      BY <1>11, <1>14, <3>1, Zenon DEF Joined
  <2>2. QED
    BY <1>15, <1>16, <2>1, StandsToo, Zenon
<1>18. Stands(s1, str, 0)
  <2>1. Stands(s1, s2, 0) /\ 0 \in Nat /\ 0 + Len(s1) <= Len(s2)
    <3>1. 0 + (l + 3) <= l + 3 + m
      OBVIOUS
    <3>2. QED
      BY <1>10, <1>14, <3>1, Zenon DEF Joined
  <2>2. QED
    BY <1>15, <1>17, <2>1, StandsToo, Zenon
\* And each of the five stands where it was put.
<1>19. Stands(BlockId, str, 0) /\ At(str, l + 1)
  <2>1. 0 + l <= l + 3 /\ l + 3 <= l + 3 /\ 0 \in Nat
    OBVIOUS
  <2>2. Stands(BlockId, s1, 0) /\ 0 + Len(BlockId) <= Len(s1)
    BY <1>9, <1>13, <1>14, <2>1, Zenon DEF Joined
  <2>3. Stands(Guid!Delimiter, s1, l) /\ l + Len(Guid!Delimiter) <= Len(s1)
    BY <1>9, <1>13, <1>14, <2>1, DelimiterText, Zenon DEF Joined
  <2>4. Stands(BlockId, str, 0)
    BY <1>15, <1>18, <2>1, <2>2, StandsToo, Zenon
  <2>5. Stands(Guid!Delimiter, str, l)
    BY <1>15, <1>18, <2>3, DelimiterText, StandsToo, Zenon
  <2>6. QED
    BY <2>4, <2>5, DelimiterStands, Zenon
<1>20. Stands(b, str, l + 3)
  <2>1. l + 3 + m <= l + 3 + m /\ l + 3 \in Nat
    OBVIOUS
  <2>2. Stands(b, s2, l + 3) /\ l + 3 + Len(b) <= Len(s2)
    BY <1>10, <1>13, <1>14, <2>1, Zenon DEF Joined
  <2>3. QED
    BY <1>3, <1>15, <1>17, <2>1, <2>2, StandsToo, Zenon
<1>21. At(str, l + m + 4)
  <2>1. /\ l + 3 + m \in Nat /\ l + 3 + m + 1 = l + m + 4
        /\ l + 3 + m + 3 <= l + 3 + m + 3
    OBVIOUS
  <2>2. Stands(Guid!Delimiter, s3, l + 3 + m) /\ l + 3 + m + Len(Guid!Delimiter) <= Len(s3)
    BY <1>11, <1>14, <2>1, DelimiterText, Zenon DEF Joined
  <2>3. Stands(Guid!Delimiter, str, l + 3 + m)
    BY <1>15, <1>16, <2>1, <2>2, DelimiterText, StandsToo, Zenon
  <2>4. At(str, l + 3 + m + 1)
    BY <2>1, <2>3, DelimiterStands, Zenon
  <2>5. QED
    BY <2>1, <2>4, Zenon
<1>22. Stands(e, str, l + m + 6)
  <2>1. l + 3 + m + 3 = l + m + 6
    OBVIOUS
  <2>2. QED
    BY <1>12, <1>14, <2>1, Zenon DEF Joined
<1>23. Guid!StringSplit(str, Guid!Delimiter) = <<BlockId, b, e>>
  <2>1. Len(str) = l + m + n + 6
    BY <1>14
  <2>2. /\ Len(str) = Len(BlockId) + Len(b) + Len(e) + 6
        /\ At(str, Len(BlockId) + 1) /\ Stands(b, str, Len(BlockId) + 3)
        /\ At(str, Len(BlockId) + Len(b) + 4) /\ Stands(e, str, Len(BlockId) + Len(b) + 6)
    BY <1>13, <1>19, <1>20, <1>21, <1>22, <2>1, Zenon
  <2>3. QED
    BY <1>3, <1>15, <1>19, <2>2, ThreeParts
<1>24. PICK tokens : tokens = Guid!StringSplit(str, Guid!Delimiter)
  OBVIOUS
<1>25. Len(tokens) = 3 /\ tokens[1] = BlockId /\ tokens[2] = b /\ tokens[3] = e
  <2>1. tokens = <<BlockId, b, e>>
    BY <1>23, <1>24, Zenon
  <2>2. QED
    BY <2>1
<1>26. Guid!ParseGUID(str) = <<Guid!SelectorUnescape(b), Guid!SelectorUnescape(e)>>
  BY <1>24, <1>25, Zenon DEF Guid!ParseGUID
<1>27. Guid!SelectorUnescape(b) = d /\ Guid!SelectorUnescape(e) = c
  BY <1>1, <1>2, EscapeIsUndone, Zenon
<1>28. QED
  BY <1>8, <1>26, <1>27, Zenon

\* A command of the cloud comes back to the control that was announced, whatever
\* names of whatever bytes the devices and controls have: in every build for names
\* in ASCII, for all of them where char is unsigned.  The identifier of the block is
\* "Wb" and hexadecimal digits, so that no dash in it is followed by another.
THEOREM CommandsComeBack == Guid!Spec => CommandComesBack
<1> DEFINE Inv == /\ device \in Names /\ control \in Names /\ signed \in BOOLEAN
                  /\ guid \in {<<>>, Guid!GetGUID(device, control, signed)}
           Back == \/ parsed' \in {parsed, <<device, control>>}
                   \/ signed /\ ~(Guid!Ascii(device) /\ Guid!Ascii(control))
<1>1. Guid!Init => Inv
  BY DEF Guid!Init
<1>2. Inv /\ [Guid!Next]_Guid!gvars => Inv' /\ [Back]_Guid!gvars
  <2>1. ASSUME Inv, Guid!Announce PROVE Inv' /\ Back
    <3>1. /\ guid' = Guid!GetGUID(device, control, signed)
          /\ device' = device /\ control' = control /\ signed' = signed /\ parsed' = parsed
      BY <2>1 DEF Guid!Announce
    <3>2. Inv'
      BY <2>1, <3>1, Zenon
    <3>3. QED
      BY <3>1, <3>2, Zenon
  <2>2. ASSUME Inv, Guid!Command PROVE Inv' /\ Back
    <3>1. /\ guid # <<>> /\ parsed' = Guid!ParseGUID(guid)
          /\ device' = device /\ control' = control /\ signed' = signed /\ guid' = guid
      BY <2>2 DEF Guid!Command
    <3>2. Inv'
      BY <2>2, <3>1, Zenon
    <3>3. guid = Guid!GetGUID(device, control, signed)
      BY <2>2, <3>1, Zenon
    <3>4. ASSUME signed => Guid!Ascii(device) /\ Guid!Ascii(control)
          PROVE  parsed' = <<device, control>>
      <4>1. device \in Text /\ control \in Text
        BY <2>2, NamesAssumption
      <4>2. Guid!ParseGUID(Guid!GetGUID(device, control, signed)) = <<device, control>>
        BY <2>2, <3>4, <4>1, NamesAssumption, GuidIsUndone, Zenon
      <4>3. QED
        BY <3>1, <3>3, <4>2, Zenon
    <3>5. QED
      BY <3>2, <3>4, Zenon
  <2>3. ASSUME Inv, UNCHANGED Guid!gvars PROVE Inv'
    <3>1. /\ device' = device /\ control' = control /\ signed' = signed /\ guid' = guid
      BY <2>3 DEF Guid!gvars
    <3>2. QED
      BY <2>3, <3>1, Zenon
  <2> HIDE DEF Inv, Back
  <2>4. QED
    BY <2>1, <2>2, <2>3, Zenon DEF Guid!Next
<1>3. QED
  <2> HIDE DEF Inv
  <2>1. QED
    BY <1>1, <1>2, PTL DEF Guid!Spec, CommandComesBack, Guid!CommandComesBack
=============================================================================
