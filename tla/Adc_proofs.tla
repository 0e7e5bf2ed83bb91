----------------------------- MODULE Adc_proofs -----------------------------
(***************************************************************************)
(* The ADC driver, for any channels, windows, levels, and any ends of the  *)
(* process.                                                                *)
(***************************************************************************)
EXTENDS Adc, SequenceTheorems, WellFoundedInduction, TLAPS

Steps == [do : {"mux", "A", "B", "C", "read", "ready", "on", "off", "publish"}, n : Int]
Items == [input : Int \cup {Nothing}, value : Int]

\* How many steps finish the measurement of a channel.
Ending(c) == IF Channels[c].resistive THEN 2 ELSE 1

\* What is still to be done for channel c. A step is known by the number of those that
\* come after it, which the steps that SetMuxABC puts in front do not change.
After(q, k) == Len(q) - k

Ends(q, c) ==
  \A k \in 1..Len(q) :
    /\ q[k].do = "publish" => After(q, k) = 0
    /\ q[k].do = "off" => Channels[c].resistive /\ After(q, k) = 1
    /\ Channels[c].resistive /\ After(q, k) = 1 => q[k].do = "off"
    /\ q[k].do = "on" => Channels[c].resistive /\ After(q, k) > 2
    /\ q[k].do = "mux" => After(q, k) > Ending(c)

\* The window of c has taken j samples and is being filled.
Fills(q, c, j) ==
  /\ Len(q) > Ending(c)
  /\ \A k \in 1..Len(q) :
       /\ q[k].do = "ready" <=> After(q, k) = Ending(c)
       /\ q[k].do = "read" =>
            /\ q[k].n \in j + 1..Size(c)
            /\ After(q, k) = 2 * (Size(c) - q[k].n) + Ending(c) + 1
  /\ \A n \in j + 1..Size(c) : \E k \in 1..Len(q) : q[k] = Step("read", n)

Filled(q) == \A k \in 1..Len(q) : q[k].do # "ready"

\* A reading comes right after its input was selected, or is selected already.
Selects(q, input, selected) ==
  \A k \in 1..Len(q) :
    /\ q[k].do = "read" =>
         \/ k > 1 /\ q[k - 1] = Step("mux", input)
         \/ k > 1 /\ q[k - 1] = Step("C", input)
         \/ k = 1 /\ selected = input
    /\ q[k].do = "A" => /\ k = 1 /\ Len(q) > 2
                        /\ q[2] = Step("B", q[1].n) /\ q[3] = Step("C", q[1].n)
    /\ q[k].do = "B" => \/ k = 1 /\ Len(q) > 1 /\ q[2] = Step("C", q[1].n)
                        \/ k = 2 /\ q[1].do = "A"
    /\ q[k].do = "C" => \/ k = 1
                        \/ k = 2 /\ q[1].do = "B"
                        \/ k = 3 /\ q[1].do = "A"

\* The pins that have been set, and those of the input that is selected.
PinsAgree ==
  /\ Doing("B") => pins[1] = Bits(N)[1]
  /\ Doing("C") => pins[1] = Bits(N)[1] /\ pins[2] = Bits(N)[2]
  /\ ~Doing("A") /\ ~Doing("B") /\ ~Doing("C") /\ muxInput # -1 => Input = muxInput % 8

AdcType ==
  /\ todo \in Seq(Steps) /\ cur \in DOMAIN Channels /\ muxInput \in Int
  /\ pins \in [1..3 -> {0, 1}]
  /\ source \in BOOLEAN /\ stream \in BOOLEAN /\ leftOn \in BOOLEAN
  /\ ready \in [DOMAIN Channels -> BOOLEAN]
  /\ DOMAIN buffer = DOMAIN Channels /\ DOMAIN last = DOMAIN Channels
  /\ sum \in [DOMAIN Channels -> Int] /\ pos \in [DOMAIN Channels -> Nat]
  /\ \A c \in DOMAIN Channels : buffer[c] \in [1..Size(c) -> Items] /\ last[c] \in Seq(Items)

TodoInv ==
  /\ Ends(todo, cur)
  /\ Selects(todo, Channels[cur].input, muxInput)
  /\ todo # <<>> => IF ready[cur] THEN Filled(todo) ELSE Fills(todo, cur, Len(last[cur]))

CurrentInv == source /\ ~leftOn => Channels[cur].resistive /\ Len(todo) > 1

\* The buffer b of size z from its beginning is the samples l.
FillingOf(b, l, p, z) ==
  /\ Len(l) <= z /\ p = 0
  /\ \A k \in 1..Len(l) : b[k] = l[k]

\* The buffer, turned to p, is the samples.
TurnedOf(b, l, p, z) ==
  /\ Len(l) = z /\ p < z
  /\ \A k \in 1..z : l[k] = b[IF p + k <= z THEN p + k ELSE p + k - z]

Filling(c) == FillingOf(buffer[c], last[c], pos[c], Size(c))
Turned(c) == TurnedOf(buffer[c], last[c], pos[c], Size(c))

RingInv ==
  \A c \in DOMAIN Channels :
    /\ sum[c] = Total(last[c])
    /\ IF ready[c] THEN Turned(c) ELSE Filling(c)
    /\ ~ready[c] /\ (c # cur \/ todo = <<>>) => last[c] = <<>>

-----------------------------------------------------------------------------
(***************************************************************************)
(* Induction.  The library's induction theorems have an operator for the   *)
(* induction hypothesis; here it is a set of numbers, and the argument is  *)
(* that a set that is not empty has a least number.                        *)
(***************************************************************************)

Below == {p \in Nat \X Nat : p[1] < p[2]}

LEMMA BelowWellFounded == IsWellFoundedOn(Below, Nat)
BY NatLessThanWellFounded DEF OpToRel, Below

LEMMA LeastNumber ==
  ASSUME NEW S \in SUBSET Nat, S # {}
  PROVE  \E x \in S : \A y \in S : x <= y
<1>1. PICK x \in S : \A y \in S : <<y, x>> \notin Below
  BY BelowWellFounded, WFMin
<1>2. \A y \in S : ~(y < x)
  BY <1>1 DEF Below
<1>3. QED
  BY <1>2

LEMMA InductionUpTo ==
  ASSUME NEW n \in Nat, NEW S \in SUBSET Nat, 0 \in S, \A k \in S : k < n => k + 1 \in S
  PROVE  \A k \in 0..n : k \in S
<1> DEFINE Rest == {k \in Nat : k <= n /\ k \notin S}
<1>1. SUFFICES ASSUME Rest # {} PROVE FALSE
  OBVIOUS
<1>2. PICK k \in Rest : \A j \in Rest : k <= j
  BY <1>1, LeastNumber
<1>3. k # 0 /\ k \in Nat /\ k <= n
  BY <1>2
<1>4. k - 1 \in Nat /\ k - 1 <= n /\ ~(k <= k - 1)
  BY <1>3
<1>5. k - 1 \in S
  BY <1>2, <1>4
<1>6. QED
  BY <1>2, <1>3, <1>5

-----------------------------------------------------------------------------
(***************************************************************************)
(* The sum of samples.                                                     *)
(***************************************************************************)

IsSums(f, s) == f = [n \in 0..Len(s) |-> IF n = 0 THEN 0 ELSE f[n - 1] + s[n].value]

\* The first m partial sums of s exist.
SumsTo(s, m) ==
  \E f \in [0..m -> Int] : f[0] = 0 /\ \A k \in 1..m : f[k] = f[k - 1] + s[k].value

LEMMA ItemsOf ==
  ASSUME NEW s \in Seq(Items)
  PROVE  Len(s) \in Nat /\ \A k \in 1..Len(s) : s[k] \in Items /\ s[k].value \in Int
<1>1. Len(s) \in Nat
  BY LenProperties
<1>2. ASSUME NEW k \in 1..Len(s) PROVE s[k] \in Items /\ s[k].value \in Int
  <2>1. s[k] \in Items
    BY ElementOfSeq
  <2>2. QED
    BY <2>1 DEF Items
<1>3. QED
  BY <1>1, <1>2

LEMMA SumsExist ==
  ASSUME NEW s \in Seq(Items)
  PROVE  \E f : IsSums(f, s)
<1> DEFINE n == Len(s)
           S == {m \in Nat : SumsTo(s, m)}
<1>1. n \in Nat /\ \A k \in 1..n : s[k].value \in Int
  BY ItemsOf
<1> HIDE DEF n
<1>2. 0 \in S
  <2> DEFINE f == [k \in 0..0 |-> 0]
  <2>1. f \in [0..0 -> Int] /\ f[0] = 0 /\ \A k \in 1..0 : f[k] = f[k - 1] + s[k].value
    OBVIOUS
  <2> HIDE DEF f
  <2>2. SumsTo(s, 0)
    BY <2>1 DEF SumsTo
  <2>3. QED
    BY <2>2
<1>3. ASSUME NEW m \in S, m < n
      PROVE  m + 1 \in S
  <2>1. m \in Nat
    OBVIOUS
  <2>2. PICK f \in [0..m -> Int] :
          f[0] = 0 /\ \A k \in 1..m : f[k] = f[k - 1] + s[k].value
    BY DEF SumsTo
  <2> DEFINE g == [k \in 0..m + 1 |-> IF k = m + 1 THEN f[m] + s[m + 1].value ELSE f[k]]
  <2>3. f[m] \in Int /\ s[m + 1].value \in Int
    BY <1>1, <1>3, <2>1, <2>2
  <2>4. \A k \in 0..m + 1 : k # m + 1 => k \in 0..m
    BY <2>1
  <2>5. \A k \in 0..m + 1 : g[k] \in Int
    BY <2>2, <2>3, <2>4
  <2>6. g \in [0..m + 1 -> Int]
    BY <2>5
  <2>7. g[0] = 0
    BY <2>1, <2>2
  <2>8. ASSUME NEW k \in 1..m + 1
        PROVE  g[k] = g[k - 1] + s[k].value
    <3>1. k - 1 \in 0..m /\ k \in 0..m + 1 /\ k - 1 # m + 1 /\ k - 1 \in 0..m + 1
      BY <2>1
    <3>2. g[k - 1] = f[k - 1]
      BY <3>1
    <3>3. CASE k = m + 1
      <4>1. g[k] = f[m] + s[m + 1].value /\ k - 1 = m
        BY <2>1, <3>1, <3>3
      <4>2. QED
        BY <3>2, <3>3, <4>1
    <3>4. CASE k # m + 1
      <4>1. k \in 1..m /\ g[k] = f[k]
        BY <2>1, <3>1, <3>4
      <4>2. QED
        BY <2>2, <3>2, <4>1
    <3>5. QED
      BY <3>3, <3>4
  <2> HIDE DEF g
  <2>9. SumsTo(s, m + 1)
    BY <2>6, <2>7, <2>8 DEF SumsTo
  <2>10. QED
    BY <2>1, <2>9
<1>4. S \in SUBSET Nat /\ n \in 0..n
  BY <1>1
<1> HIDE DEF S
<1>5. PICK f \in [0..n -> Int] :
        f[0] = 0 /\ \A k \in 1..n : f[k] = f[k - 1] + s[k].value
  <2>1. \A k \in 0..n : k \in S
    BY <1>1, <1>2, <1>3, <1>4, InductionUpTo
  <2>2. SumsTo(s, n)
    BY <1>4, <2>1 DEF S
  <2>3. QED
    BY <2>2 DEF SumsTo
<1>6. \A k \in 0..n : f[k] = IF k = 0 THEN 0 ELSE f[k - 1] + s[k].value
  BY <1>1, <1>5
<1>7. f = [k \in 0..n |-> IF k = 0 THEN 0 ELSE f[k - 1] + s[k].value]
  BY <1>6
<1>8. IsSums(f, s)
  BY <1>7 DEF IsSums, n
<1>9. QED
  BY <1>8

\* The partial sums of s, of which Total is the last.
LEMMA TotalSums ==
  ASSUME NEW s \in Seq(Items)
  PROVE  \E f : /\ Total(s) = f[Len(s)] /\ f[0] = 0
                /\ \A k \in 0..Len(s) : f[k] \in Int
                /\ \A k \in 1..Len(s) : f[k] = f[k - 1] + s[k].value
<1> DEFINE f == CHOOSE g : IsSums(g, s)
           n == Len(s)
<1>1. IsSums(f, s)
  BY SumsExist
<1>2. Total(s) = f[n]
  BY DEF Total, IsSums
<1> HIDE DEF f
<1>3. n \in Nat /\ \A k \in 1..n : s[k].value \in Int
  BY ItemsOf
<1>4. \A k \in 0..n : f[k] = IF k = 0 THEN 0 ELSE f[k - 1] + s[k].value
  BY <1>1 DEF IsSums
<1> HIDE DEF n
<1>5. f[0] = 0 /\ \A k \in 1..n : f[k] = f[k - 1] + s[k].value
  BY <1>3, <1>4
<1> DEFINE S == {k \in Nat : k <= n => f[k] \in Int}
<1>6. S \in SUBSET Nat /\ 0 \in S
  BY <1>5
<1>7. ASSUME NEW k \in S, k < n PROVE k + 1 \in S
  <2>1. k + 1 \in 1..n /\ f[k] \in Int /\ k \in Nat /\ (k + 1) - 1 = k
    BY <1>3, <1>7
  <2>2. f[k + 1] = f[k] + s[k + 1].value /\ s[k + 1].value \in Int
    BY <1>3, <1>5, <2>1
  <2>3. QED
    BY <2>1, <2>2
<1> HIDE DEF S
<1>8. \A k \in 0..n : k \in S
  BY <1>3, <1>6, <1>7, InductionUpTo
<1>9. \A k \in 0..n : f[k] \in Int
  BY <1>3, <1>8 DEF S
<1>10. QED
  BY <1>2, <1>5, <1>9 DEF n

\* Sequences whose elements are the same, one shifted against the other, have sums that
\* differ by a number.
Shifted(f, g, v, n, m, d) ==
  /\ n \in Nat /\ m \in Nat /\ d \in Int
  /\ f[m] = g[0] + d
  /\ \A k \in 0..n : f[m + k] \in Int /\ g[k] \in Int
  /\ \A k \in 1..n : v[k] \in Int /\ f[m + k] = f[m + (k - 1)] + v[k] /\ g[k] = g[k - 1] + v[k]

LEMMA SumsShift ==
  ASSUME NEW f, NEW g, NEW v, NEW n, NEW m, NEW d,
         Shifted(f, g, v, n, m, d)
  PROVE  f[m + n] = g[n] + d
<1> n \in Nat /\ m \in Nat /\ d \in Int
  BY DEF Shifted
<1> DEFINE S == {k \in Nat : k <= n => f[m + k] = g[k] + d}
<1>1. S \in SUBSET Nat /\ 0 \in S
  <2>1. m + 0 = m /\ f[m] = g[0] + d
    BY DEF Shifted
  <2>2. QED
    BY <2>1
<1>2. ASSUME NEW k \in S, k < n PROVE k + 1 \in S
  <2>1. k \in Nat /\ f[m + k] = g[k] + d /\ k + 1 \in 1..n
    BY <1>2
  <2>2. (k + 1) - 1 = k
    BY <2>1
  <2>3. f[m + (k + 1)] = f[m + k] + v[k + 1] /\ g[k + 1] = g[k] + v[k + 1] /\ v[k + 1] \in Int
    BY <2>1, <2>2 DEF Shifted
  <2>4. f[m + k] \in Int /\ g[k] \in Int
    BY <2>1 DEF Shifted
  <2>5. f[m + (k + 1)] = g[k + 1] + d
    BY <2>1, <2>3, <2>4
  <2>6. QED
    BY <2>1, <2>5
<1> HIDE DEF S
<1>3. \A k \in 0..n : k \in S
  BY <1>1, <1>2, InductionUpTo
<1>4. n \in S
  BY <1>3
<1>5. QED
  BY <1>4 DEF S

LEMMA TotalAppend ==
  ASSUME NEW s \in Seq(Items), NEW x \in Items
  PROVE  Total(Append(s, x)) = Total(s) + x.value /\ Total(s) \in Int
<1> DEFINE t == Append(s, x)
           n == Len(s)
           v == [k \in 1..n |-> s[k].value]
<1>1. /\ t \in Seq(Items) /\ Len(t) = n + 1 /\ n \in Nat
      /\ t[n + 1] = x /\ \A k \in 1..n : t[k] = s[k]
      /\ \A k \in 1..n : s[k].value \in Int
  BY AppendProperties, ItemsOf
<1> HIDE DEF t, n
<1>2. PICK g : /\ Total(s) = g[n] /\ g[0] = 0
               /\ \A k \in 0..n : g[k] \in Int
               /\ \A k \in 1..n : g[k] = g[k - 1] + s[k].value
  BY TotalSums DEF n
<1>3. PICK f : /\ Total(t) = f[n + 1] /\ f[0] = 0
               /\ \A k \in 0..n + 1 : f[k] \in Int
               /\ \A k \in 1..n + 1 : f[k] = f[k - 1] + t[k].value
  <2>1. PICK f : /\ Total(t) = f[Len(t)] /\ f[0] = 0
                 /\ \A k \in 0..Len(t) : f[k] \in Int
                 /\ \A k \in 1..Len(t) : f[k] = f[k - 1] + t[k].value
    BY <1>1, TotalSums
  <2>2. QED
    BY <1>1, <2>1
<1>4. ASSUME NEW k \in 1..n
      PROVE  v[k] \in Int /\ f[0 + k] = f[0 + (k - 1)] + v[k] /\ g[k] = g[k - 1] + v[k]
  <2>1. 0 + k = k /\ 0 + (k - 1) = k - 1 /\ k \in 1..n + 1
    BY <1>1
  <2>2. v[k] = s[k].value /\ t[k] = s[k] /\ v[k] \in Int
    BY <1>1
  <2>3. QED
    BY <1>2, <1>3, <2>1, <2>2
<1> HIDE DEF v
<1>5. \A k \in 0..n : f[0 + k] \in Int /\ g[k] \in Int
  BY <1>1, <1>2, <1>3
<1>6. f[0 + n] = g[n] + 0
  <2>1. PICK o \in Nat : o = 0
    OBVIOUS
  <2>2. f[o] = g[0] + o
    BY <1>2, <1>3, <2>1
  <2>3. Shifted(f, g, v, n, o, o)
    BY <1>1, <1>4, <1>5, <2>1, <2>2 DEF Shifted
  <2>4. f[o + n] = g[n] + o
    BY <2>3, SumsShift
  <2>5. QED
    BY <2>1, <2>4
<1>7. f[n] = g[n] /\ g[n] \in Int
  <2>1. 0 + n = n /\ n \in 0..n
    BY <1>1
  <2>2. QED
    BY <1>2, <1>6, <2>1
<1>8. n + 1 \in 1..n + 1 /\ (n + 1) - 1 = n
  BY <1>1
<1>9. f[n + 1] = f[n] + x.value
  BY <1>1, <1>3, <1>8
<1>10. QED
  BY <1>2, <1>3, <1>7, <1>9 DEF t

LEMMA TotalTail ==
  ASSUME NEW s \in Seq(Items), s # <<>>
  PROVE  Total(Tail(s)) = Total(s) - s[1].value /\ Total(s) \in Int
<1> DEFINE t == Tail(s)
           n == Len(t)
           v == [k \in 1..n |-> t[k].value]
<1>1. /\ t \in Seq(Items) /\ Len(s) = n + 1 /\ n \in Nat /\ s[1].value \in Int
      /\ \A k \in 1..n : t[k] = s[k + 1] /\ t[k].value \in Int
  <2>1. t \in Seq(Items) /\ Len(t) = Len(s) - 1 /\ \A k \in 1..n : t[k] = s[k + 1]
    BY HeadTailProperties
  <2>2. Len(s) \in Nat \ {0} /\ n \in Nat
    BY <2>1, EmptySeq, LenProperties
  <2>3. \A k \in 1..n : t[k].value \in Int
    BY <2>1, ItemsOf
  <2>4. 1 \in 1..Len(s)
    BY <2>2
  <2>5. s[1].value \in Int
    BY <2>4, ItemsOf
  <2>6. QED
    BY <2>1, <2>2, <2>3, <2>5
<1> HIDE DEF t, n
<1>2. PICK g : /\ Total(t) = g[n] /\ g[0] = 0
               /\ \A k \in 0..n : g[k] \in Int
               /\ \A k \in 1..n : g[k] = g[k - 1] + t[k].value
  BY <1>1, TotalSums DEF n
<1>3. PICK f : /\ Total(s) = f[n + 1] /\ f[0] = 0
               /\ \A k \in 0..n + 1 : f[k] \in Int
               /\ \A k \in 1..n + 1 : f[k] = f[k - 1] + s[k].value
  <2>1. PICK f : /\ Total(s) = f[Len(s)] /\ f[0] = 0
                 /\ \A k \in 0..Len(s) : f[k] \in Int
                 /\ \A k \in 1..Len(s) : f[k] = f[k - 1] + s[k].value
    BY <1>1, TotalSums
  <2>2. QED
    BY <1>1, <2>1
<1>4. f[1] = g[0] + s[1].value
  <2>1. 1 \in 1..n + 1 /\ 1 - 1 = 0
    BY <1>1
  <2>2. f[1] = f[0] + s[1].value
    BY <1>3, <2>1
  <2>3. QED
    BY <1>1, <1>2, <1>3, <2>2
<1>5. ASSUME NEW k \in 1..n
      PROVE  v[k] \in Int /\ f[1 + k] = f[1 + (k - 1)] + v[k] /\ g[k] = g[k - 1] + v[k]
  <2>1. 1 + k \in 1..n + 1 /\ 1 + k = k + 1 /\ (1 + k) - 1 = 1 + (k - 1)
    BY <1>1
  <2>2. f[1 + k] = f[1 + (k - 1)] + s[1 + k].value
    BY <1>3, <2>1
  <2>3. v[k] = s[1 + k].value /\ v[k] = t[k].value
    BY <1>1, <2>1
  <2>4. QED
    BY <1>1, <1>2, <2>2, <2>3
<1> HIDE DEF v
<1>6. f[1 + n] = g[n] + s[1].value
  <2>1. \A k \in 0..n : f[1 + k] \in Int /\ g[k] \in Int
    BY <1>1, <1>2, <1>3
  <2>2. Shifted(f, g, v, n, 1, s[1].value)
    BY <1>1, <1>4, <1>5, <2>1 DEF Shifted
  <2>3. QED
    BY <2>2, SumsShift
<1>7. f[n + 1] = g[n] + s[1].value /\ g[n] \in Int /\ f[n + 1] \in Int
  BY <1>1, <1>2, <1>3, <1>6
<1>8. QED
  BY <1>1, <1>2, <1>3, <1>7 DEF t

LEMMA TotalEmpty == Total(<<>>) = 0
<1>1. <<>> \in Seq(Items) /\ Len(<<>>) = 0
  OBVIOUS
<1>2. QED
  BY <1>1, TotalSums

-----------------------------------------------------------------------------
(***************************************************************************)
(* What is to be done, and how a step changes it.                          *)
(***************************************************************************)

LEMMA ChannelFacts ==
  ASSUME NEW c \in DOMAIN Channels
  PROVE  /\ Channels[c].resistive \in BOOLEAN /\ Channels[c].input \in Nat
         /\ Channels[c].discharge \in Int /\ Channels[c].readings \in Nat \ {0}
         /\ Size(c) \in Nat \ {0} /\ Ending(c) \in Nat \ {0}
<1> DEFINE Kinds == [resistive : BOOLEAN, input : Nat, discharge : Int,
                     readings : Nat \ {0}, window : Nat \ {0}]
<1>1. Channels \in Seq(Kinds)
  BY AdcAssumption
<1> HIDE DEF Kinds
<1>2. Channels[c] \in Kinds
  <2>1. c \in 1..Len(Channels)
    BY <1>1, LenProperties
  <2>2. QED
    BY <1>1, <2>1, ElementOfSeq
<1>3. /\ Channels[c].resistive \in BOOLEAN /\ Channels[c].input \in Nat
      /\ Channels[c].discharge \in Int /\ Channels[c].readings \in Nat \ {0}
      /\ Channels[c].window \in Nat \ {0}
  BY <1>2 DEF Kinds
<1>4. \A r, w \in Nat \ {0} : r * w \in Nat \ {0}
  OBVIOUS
<1>5. Size(c) \in Nat \ {0}
  BY <1>3, <1>4 DEF Size
<1>6. Ending(c) \in Nat \ {0}
  BY DEF Ending
<1>7. QED
  BY <1>3, <1>5, <1>6

LEMMA TailFacts ==
  ASSUME NEW q \in Seq(Steps), q # <<>>
  PROVE  /\ Tail(q) \in Seq(Steps) /\ Len(q) \in Nat \ {0} /\ Len(Tail(q)) = Len(q) - 1
         /\ Head(q) = q[1] /\ q[1] \in Steps
         /\ \A k \in 1..Len(Tail(q)) : /\ Tail(q)[k] = q[k + 1] /\ k + 1 \in 2..Len(q)
                                       /\ After(Tail(q), k) = After(q, k + 1)
<1>1. /\ Tail(q) \in Seq(Steps) /\ Head(q) = q[1] /\ Len(Tail(q)) = Len(q) - 1
      /\ \A k \in 1..Len(Tail(q)) : Tail(q)[k] = q[k + 1]
  BY HeadTailProperties
<1>2. Len(q) \in Nat \ {0}
  BY EmptySeq, LenProperties
<1>3. q[1] \in Steps
  <2>1. 1 \in 1..Len(q)
    BY <1>2
  <2>2. QED
    BY <2>1, ElementOfSeq
<1>4. QED
  BY <1>1, <1>2, <1>3 DEF After

LEMMA TailEnds ==
  ASSUME NEW q \in Seq(Steps), q # <<>>, NEW c \in DOMAIN Channels, Ends(q, c)
  PROVE  Ends(Tail(q), c)
<1> DEFINE t == Tail(q)
<1>1. ASSUME NEW k \in 1..Len(t)
      PROVE  k + 1 \in 1..Len(q) /\ t[k] = q[k + 1] /\ After(t, k) = After(q, k + 1)
  BY TailFacts
<1> HIDE DEF t
<1>2. QED
  BY <1>1 DEF Ends, t

LEMMA TailFilled ==
  ASSUME NEW q \in Seq(Steps), q # <<>>, Filled(q)
  PROVE  Filled(Tail(q))
BY TailFacts DEF Filled

\* Right after A come B and C, and what comes then looks for the channel's input.
LEMMA TailSelects ==
  ASSUME NEW q \in Seq(Steps), q # <<>>, NEW i, NEW s, NEW s2, Selects(q, i, s),
         q[1].do \in {"mux", "C"} => s2 = q[1].n
  PROVE  Selects(Tail(q), i, s2)
<1> DEFINE t == Tail(q)
           n == Len(q)
<1>1. /\ n \in Nat \ {0} /\ Len(t) = n - 1
      /\ \A k \in 1..n - 1 : t[k] = q[k + 1]
  BY TailFacts
<1> HIDE DEF t, n
<1>2. ASSUME NEW k \in 1..n - 1, t[k].do = "read"
      PROVE  \/ k > 1 /\ t[k - 1] = Step("mux", i)
             \/ k > 1 /\ t[k - 1] = Step("C", i)
             \/ k = 1 /\ s2 = i
  <2>1. k + 1 \in 1..n /\ t[k] = q[k + 1] /\ k + 1 > 1 /\ (k + 1) - 1 = k
    BY <1>1
  <2>2. q[k] = Step("mux", i) \/ q[k] = Step("C", i)
    BY <1>2, <2>1 DEF Selects, n
  <2>3. CASE k = 1
    <3>1. s2 = i
      BY <2>2, <2>3 DEF Step
    <3>2. QED
      BY <2>3, <3>1
  <2>4. CASE k # 1
    <3>1. k - 1 \in 1..n - 1 /\ (k - 1) + 1 = k /\ k > 1
      BY <1>1, <2>4
    <3>2. t[k - 1] = q[k]
      BY <1>1, <3>1
    <3>3. QED
      BY <2>2, <3>1, <3>2
  <2>5. QED
    BY <2>3, <2>4
<1>3. ASSUME NEW k \in 1..n - 1
      PROVE  t[k].do # "A"
  <2>1. k + 1 \in 1..n /\ t[k] = q[k + 1] /\ k + 1 # 1
    BY <1>1
  <2>2. QED
    BY <2>1 DEF Selects, n
<1>4. ASSUME NEW k \in 1..n - 1, t[k].do = "B"
      PROVE  k = 1 /\ n - 1 > 1 /\ t[2] = Step("C", t[1].n)
  <2>1. k + 1 \in 1..n /\ t[k] = q[k + 1] /\ k + 1 # 1
    BY <1>1
  <2>2. k + 1 = 2 /\ q[1].do = "A"
    BY <1>4, <2>1 DEF Selects, n
  <2>3. 1 \in 1..n
    BY <1>1
  <2>4. n > 2 /\ q[2] = Step("B", q[1].n) /\ q[3] = Step("C", q[1].n)
    BY <2>2, <2>3 DEF Selects, n
  <2>5. t[1] = q[2] /\ t[2] = q[3]
    BY <1>1, <2>4
  <2>6. QED
    BY <1>1, <2>2, <2>4, <2>5 DEF Step
<1>5. ASSUME NEW k \in 1..n - 1, t[k].do = "C"
      PROVE  k = 1 \/ (k = 2 /\ t[1].do = "B")
  <2>1. k + 1 \in 1..n /\ t[k] = q[k + 1] /\ k + 1 # 1
    BY <1>1
  <2>2. \/ k + 1 = 2
        \/ k + 1 = 3 /\ q[1].do = "A"
    BY <1>5, <2>1 DEF Selects, n
  <2>3. CASE k + 1 = 3 /\ q[1].do = "A"
    <3>1. 1 \in 1..n /\ 1 \in 1..n - 1 /\ k = 2
      BY <1>1, <2>1, <2>3
    <3>2. q[2] = Step("B", q[1].n)
      BY <2>3, <3>1 DEF Selects, n
    <3>3. t[1] = q[2]
      BY <1>1, <3>1
    <3>4. QED
      BY <3>1, <3>2, <3>3 DEF Step
  <2>4. QED
    BY <2>2, <2>3
<1>6. QED
  BY <1>1, <1>2, <1>3, <1>4, <1>5 DEF Selects, t

LEMMA TailFills ==
  ASSUME NEW q \in Seq(Steps), q # <<>>, NEW c \in DOMAIN Channels, NEW j \in Nat,
         Fills(q, c, j), q[1].do \notin {"read", "ready"}
  PROVE  Fills(Tail(q), c, j)
<1> DEFINE t == Tail(q)
           n == Len(q)
           e == Ending(c)
<1>1. /\ n \in Nat \ {0} /\ Len(t) = n - 1 /\ e \in Nat
      /\ \A k \in 1..n - 1 : /\ t[k] = q[k + 1] /\ k + 1 \in 1..n
                             /\ After(t, k) = After(q, k + 1)
  BY TailFacts, ChannelFacts
<1>2. After(q, 1) = n - 1 /\ 1 \in 1..n
  BY <1>1 DEF After
<1>3. n > e /\ After(q, 1) # e
  BY <1>2 DEF Fills
<1>4. n - 1 > e
  BY <1>1, <1>2, <1>3
<1>5. ASSUME NEW m \in j + 1..Size(c)
      PROVE  \E k \in 1..n - 1 : t[k] = Step("read", m)
  <2>1. PICK k \in 1..n : q[k] = Step("read", m)
    BY DEF Fills
  <2>2. k # 1
    BY <2>1 DEF Step
  <2>3. k - 1 \in 1..n - 1 /\ (k - 1) + 1 = k
    BY <1>1, <2>2
  <2>4. t[k - 1] = q[k]
    BY <1>1, <2>3
  <2>5. QED
    BY <2>1, <2>3, <2>4
<1>6. ASSUME NEW k \in 1..n - 1
      PROVE  /\ t[k].do = "ready" <=> After(t, k) = e
             /\ t[k].do = "read" =>
                  /\ t[k].n \in j + 1..Size(c)
                  /\ After(t, k) = 2 * (Size(c) - t[k].n) + e + 1
  <2>1. t[k] = q[k + 1] /\ k + 1 \in 1..n /\ After(t, k) = After(q, k + 1)
    BY <1>1
  <2>2. /\ q[k + 1].do = "ready" <=> After(q, k + 1) = e
        /\ q[k + 1].do = "read" =>
             /\ q[k + 1].n \in j + 1..Size(c)
             /\ After(q, k + 1) = 2 * (Size(c) - q[k + 1].n) + e + 1
    BY <2>1 DEF Fills
  <2>3. QED
    BY <2>1, <2>2
<1> HIDE DEF t, e
<1>7. QED
  BY <1>1, <1>4, <1>5, <1>6 DEF Fills, t, e

\* The readings that fill a window come in the order of their numbers.
LEMMA ReadFills ==
  ASSUME NEW q \in Seq(Steps), q # <<>>, NEW c \in DOMAIN Channels, NEW j \in Nat,
         Fills(q, c, j), q[1].do = "read"
  PROVE  q[1].n = j + 1 /\ j + 1 <= Size(c) /\ Fills(Tail(q), c, j + 1)
<1> DEFINE t == Tail(q)
           n == Len(q)
           e == Ending(c)
           z == Size(c)
<1>1. /\ n \in Nat \ {0} /\ Len(t) = n - 1 /\ e \in Nat /\ z \in Nat
      /\ \A k \in 1..n - 1 : /\ t[k] = q[k + 1] /\ k + 1 \in 1..n
                             /\ After(t, k) = After(q, k + 1)
  BY TailFacts, ChannelFacts
<1>2. \A k \in 1..n : After(q, k) = n - k
  BY DEF After
<1>3. \A k \in 1..n : /\ q[k].do = "ready" <=> After(q, k) = e
                      /\ q[k].do = "read" =>
                           q[k].n \in j + 1..z /\ After(q, k) = 2 * (z - q[k].n) + e + 1
  BY DEF Fills
<1>4. \A m \in j + 1..z : \E k \in 1..n : q[k] = Step("read", m)
  BY DEF Fills
<1> HIDE DEF t, n, e, z
<1>5. 1 \in 1..n /\ q[1].n \in j + 1..z /\ n - 1 = 2 * (z - q[1].n) + e + 1
  BY <1>1, <1>2, <1>3
<1>6. j + 1 \in j + 1..z /\ j + 1 \in Nat
  BY <1>1, <1>5
<1>7. PICK k1 \in 1..n : q[k1] = Step("read", j + 1)
  BY <1>4, <1>6
<1>8. q[k1].do = "read" /\ q[k1].n = j + 1
  BY <1>7 DEF Step
<1>9. n - k1 = 2 * (z - (j + 1)) + e + 1
  BY <1>2, <1>3, <1>8
<1>10. q[1].n = j + 1
  BY <1>1, <1>5, <1>9, SMTT(40)
<1>11. n - 1 = 2 * (z - (j + 1)) + e + 1 /\ n - 1 > e
  BY <1>1, <1>5, <1>6, <1>10
<1>12. ASSUME NEW m \in (j + 1) + 1..z
       PROVE  \E k \in 1..n - 1 : t[k] = Step("read", m)
  <2>1. m \in j + 1..z /\ m # j + 1
    BY <1>1
  <2>2. PICK k \in 1..n : q[k] = Step("read", m)
    BY <1>4, <2>1
  <2>3. k # 1
    BY <1>10, <2>1, <2>2 DEF Step
  <2>4. k - 1 \in 1..n - 1 /\ (k - 1) + 1 = k
    BY <1>1, <2>3
  <2>5. t[k - 1] = q[k]
    BY <1>1, <2>4
  <2>6. QED
    BY <2>2, <2>4, <2>5
<1>13. ASSUME NEW k \in 1..n - 1
       PROVE  /\ t[k].do = "ready" <=> After(t, k) = e
              /\ t[k].do = "read" =>
                   /\ t[k].n \in (j + 1) + 1..z
                   /\ After(t, k) = 2 * (z - t[k].n) + e + 1
  <2>1. t[k] = q[k + 1] /\ k + 1 \in 1..n /\ After(t, k) = After(q, k + 1)
    BY <1>1
  <2>2. /\ q[k + 1].do = "ready" <=> After(q, k + 1) = e
        /\ q[k + 1].do = "read" =>
             q[k + 1].n \in j + 1..z /\ After(q, k + 1) = 2 * (z - q[k + 1].n) + e + 1
    BY <1>3, <2>1
  <2>3. After(q, k + 1) < n - 1
    BY <1>1, <1>2, <2>1
  <2>4. ASSUME q[k + 1].do = "read" PROVE q[k + 1].n \in (j + 1) + 1..z
    BY <1>1, <1>11, <2>2, <2>3, <2>4, SMTT(40)
  <2>5. QED
    BY <2>1, <2>2, <2>4
<1>14. Fills(t, c, j + 1)
  BY <1>1, <1>11, <1>12, <1>13 DEF Fills, e, z
<1>15. QED
  BY <1>1, <1>6, <1>10, <1>14 DEF t, z

\* The window is full when all its readings have been made.
LEMMA ReadyFills ==
  ASSUME NEW q \in Seq(Steps), q # <<>>, NEW c \in DOMAIN Channels, NEW j \in Nat,
         Fills(q, c, j), q[1].do = "ready"
  PROVE  Size(c) <= j /\ Filled(Tail(q))
<1> DEFINE n == Len(q)
           e == Ending(c)
           z == Size(c)
<1>1. n \in Nat \ {0} /\ e \in Nat /\ z \in Nat /\ 1 \in 1..n
  BY TailFacts, ChannelFacts
<1>2. \A k \in 1..n : After(q, k) = n - k
  BY DEF After
<1>3. \A k \in 1..n : /\ q[k].do = "ready" <=> After(q, k) = e
                      /\ q[k].do = "read" => After(q, k) = 2 * (z - q[k].n) + e + 1
  BY DEF Fills
<1>4. \A m \in j + 1..z : \E k \in 1..n : q[k] = Step("read", m)
  BY DEF Fills
<1>5. Len(Tail(q)) = n - 1 /\ \A k \in 1..n - 1 : Tail(q)[k] = q[k + 1]
  BY TailFacts
<1> HIDE DEF n, e, z
<1>6. n - 1 = e
  BY <1>1, <1>2, <1>3
<1>7. ASSUME ~(z <= j) PROVE FALSE
  <2>1. j + 1 \in j + 1..z
    BY <1>1, <1>7
  <2>2. PICK k \in 1..n : q[k] = Step("read", j + 1)
    BY <1>4, <2>1
  <2>3. q[k].do = "read" /\ q[k].n = j + 1
    BY <2>2 DEF Step
  <2>4. n - k = 2 * (z - (j + 1)) + e + 1
    BY <1>2, <1>3, <2>3
  <2>5. QED
    BY <1>1, <1>6, <1>7, <2>4
<1>8. ASSUME NEW k \in 1..n - 1 PROVE Tail(q)[k].do # "ready"
  <2>1. k + 1 \in 1..n /\ n - (k + 1) # e
    BY <1>1, <1>6
  <2>2. QED
    BY <1>2, <1>3, <1>5, <2>1
<1>9. QED
  BY <1>5, <1>7, <1>8 DEF Filled, z

-----------------------------------------------------------------------------
(***************************************************************************)
(* SetMuxABC puts three steps in the place of one.                         *)
(***************************************************************************)

Pins(n) == <<Step("A", n), Step("B", n), Step("C", n)>>
Turning(q) == Pins(q[1].n) \o Tail(q)

LEMMA TurningFacts ==
  ASSUME NEW q \in Seq(Steps), q # <<>>
  PROVE  /\ Turning(q) \in Seq(Steps) /\ Len(q) \in Nat \ {0} /\ Len(Turning(q)) = Len(q) + 2
         /\ Turning(q)[1] = Step("A", q[1].n) /\ Turning(q)[2] = Step("B", q[1].n)
         /\ Turning(q)[3] = Step("C", q[1].n)
         /\ \A k \in 4..Len(q) + 2 : Turning(q)[k] = q[k - 2] /\ k - 2 \in 2..Len(q)
<1> DEFINE p == Pins(q[1].n)
           t == Tail(q)
<1>1. t \in Seq(Steps) /\ Len(q) \in Nat \ {0} /\ Len(t) = Len(q) - 1 /\ q[1] \in Steps
  BY TailFacts
<1>2. \A k \in 1..Len(t) : t[k] = q[k + 1]
  BY TailFacts
<1>3. q[1].n \in Int
  BY <1>1 DEF Steps
<1>4. Step("A", q[1].n) \in Steps /\ Step("B", q[1].n) \in Steps /\ Step("C", q[1].n) \in Steps
  BY <1>3 DEF Steps, Step
<1>5. /\ p \in Seq(Steps) /\ Len(p) = 3
      /\ p[1] = Step("A", q[1].n) /\ p[2] = Step("B", q[1].n) /\ p[3] = Step("C", q[1].n)
  BY <1>4 DEF Pins
<1> HIDE DEF p, t
<1>6. /\ p \o t \in Seq(Steps) /\ Len(p \o t) = Len(p) + Len(t)
      /\ \A k \in 1..Len(p) + Len(t) :
           (p \o t)[k] = IF k <= Len(p) THEN p[k] ELSE t[k - Len(p)]
  BY <1>1, <1>5, ConcatProperties
<1>7. /\ Len(p) + Len(t) = Len(q) + 2
      /\ 1 \in 1..Len(q) + 2 /\ 2 \in 1..Len(q) + 2 /\ 3 \in 1..Len(q) + 2
  BY <1>1, <1>5
<1>8. /\ (p \o t)[1] = p[1] /\ (p \o t)[2] = p[2] /\ (p \o t)[3] = p[3]
  BY <1>5, <1>6, <1>7
<1>9. ASSUME NEW k \in 4..Len(q) + 2
      PROVE  (p \o t)[k] = q[k - 2] /\ k - 2 \in 2..Len(q)
  <2>1. /\ k \in 1..Len(q) + 2 /\ ~(k <= 3) /\ k - 3 \in 1..Len(t)
        /\ (k - 3) + 1 = k - 2 /\ k - 2 \in 2..Len(q)
    BY <1>1
  <2>2. (p \o t)[k] = t[k - 3]
    BY <1>5, <1>6, <1>7, <2>1
  <2>3. QED
    BY <1>2, <2>1, <2>2
<1>10. Turning(q) = p \o t
  BY DEF Turning, p, t
<1>11. QED
  BY <1>1, <1>5, <1>6, <1>7, <1>8, <1>9, <1>10

\* What holds of the three and of what follows holds of all.
LEMMA TurningCases ==
  ASSUME NEW q \in Seq(Steps), q # <<>>, NEW k \in 1..Len(Turning(q))
  PROVE  \/ /\ k \in 1..3 /\ Turning(q)[k].do \in {"A", "B", "C"}
            /\ After(Turning(q), k) >= After(q, 1)
         \/ /\ k - 2 \in 2..Len(q) /\ Turning(q)[k] = q[k - 2]
            /\ After(Turning(q), k) = After(q, k - 2)
<1> DEFINE t == Turning(q)
           n == Len(q)
<1>1. /\ n \in Nat \ {0} /\ Len(t) = n + 2
      /\ t[1] = Step("A", q[1].n) /\ t[2] = Step("B", q[1].n) /\ t[3] = Step("C", q[1].n)
      /\ \A m \in 4..n + 2 : t[m] = q[m - 2] /\ m - 2 \in 2..n
  BY TurningFacts
<1>2. k \in 1..n + 2 /\ After(t, k) = n + 2 - k
  BY <1>1 DEF After
<1>3. After(q, 1) = n - 1 /\ After(q, k - 2) = n - (k - 2)
  BY DEF After
<1> HIDE DEF t, n
<1>4. CASE k \in 4..n + 2
  <2>1. t[k] = q[k - 2] /\ k - 2 \in 2..n
    BY <1>1, <1>4
  <2>2. After(t, k) = After(q, k - 2)
    BY <1>1, <1>2, <1>3, <1>4
  <2>3. QED
    BY <2>1, <2>2 DEF t, n
<1>5. CASE k \notin 4..n + 2
  <2>1. k = 1 \/ k = 2 \/ k = 3
    BY <1>1, <1>2, <1>5
  <2>2. t[k].do \in {"A", "B", "C"}
    BY <1>1, <2>1 DEF Step
  <2>3. After(t, k) >= After(q, 1) /\ k \in 1..3
    BY <1>1, <1>2, <1>3, <2>1
  <2>4. QED
    BY <2>2, <2>3 DEF t, n
<1>6. QED
  BY <1>4, <1>5

LEMMA TurningEnds ==
  ASSUME NEW q \in Seq(Steps), q # <<>>, NEW c \in DOMAIN Channels, Ends(q, c),
         q[1].do = "mux"
  PROVE  Ends(Turning(q), c)
<1> DEFINE t == Turning(q)
<1>1. Len(q) \in Nat \ {0} /\ 1 \in 1..Len(q)
  BY TailFacts
<1>2. After(q, 1) > Ending(c)
  BY <1>1 DEF Ends
<1>3. ASSUME NEW k \in 1..Len(t)
      PROVE  /\ t[k].do = "publish" => After(t, k) = 0
             /\ t[k].do = "off" => Channels[c].resistive /\ After(t, k) = 1
             /\ Channels[c].resistive /\ After(t, k) = 1 => t[k].do = "off"
             /\ t[k].do = "on" => Channels[c].resistive /\ After(t, k) > 2
             /\ t[k].do = "mux" => After(t, k) > Ending(c)
  <2>1. CASE k \in 1..3 /\ t[k].do \in {"A", "B", "C"} /\ After(t, k) >= After(q, 1)
    <3>1. Channels[c].resistive => After(t, k) # 1
      <4>1. After(q, 1) \in Int /\ After(t, k) \in Int
        <5>1. Len(t) = Len(q) + 2
          BY TurningFacts
        <5>2. QED
          BY <1>1, <2>1, <5>1 DEF After
      <4>2. Channels[c].resistive => Ending(c) = 2
        BY DEF Ending
      <4>3. QED
        BY <1>2, <2>1, <4>1, <4>2
    <3>2. QED
      BY <2>1, <3>1
  <2>2. CASE k - 2 \in 2..Len(q) /\ t[k] = q[k - 2] /\ After(t, k) = After(q, k - 2)
    <3>1. k - 2 \in 1..Len(q)
      BY <1>1, <2>2
    <3>2. QED
      BY <2>2, <3>1 DEF Ends
  <2>3. QED
    BY <2>1, <2>2, TurningCases
<1> HIDE DEF t
<1>4. QED
  BY <1>3 DEF Ends, t

LEMMA TurningFilled ==
  ASSUME NEW q \in Seq(Steps), q # <<>>, Filled(q)
  PROVE  Filled(Turning(q))
<1>1. Len(q) \in Nat \ {0}
  BY TailFacts
<1>2. ASSUME NEW k \in 1..Len(Turning(q)) PROVE Turning(q)[k].do # "ready"
  <2>1. CASE Turning(q)[k].do \in {"A", "B", "C"}
    BY <2>1
  <2>2. CASE k - 2 \in 2..Len(q) /\ Turning(q)[k] = q[k - 2]
    <3>1. k - 2 \in 1..Len(q)
      BY <1>1, <2>2
    <3>2. QED
      BY <2>2, <3>1 DEF Filled
  <2>3. QED
    BY <2>1, <2>2, TurningCases
<1>3. QED
  BY <1>2 DEF Filled

LEMMA TurningFills ==
  ASSUME NEW q \in Seq(Steps), q # <<>>, NEW c \in DOMAIN Channels, NEW j \in Nat,
         Ends(q, c), Fills(q, c, j), q[1].do = "mux"
  PROVE  Fills(Turning(q), c, j)
<1> DEFINE t == Turning(q)
           n == Len(q)
           e == Ending(c)
           z == Size(c)
<1>1. n \in Nat \ {0} /\ 1 \in 1..n /\ e \in Nat /\ Len(t) = n + 2
  BY TailFacts, ChannelFacts, TurningFacts
<1>2. After(q, 1) > e /\ After(q, 1) \in Int
  BY <1>1 DEF Ends, After
<1>3. n > e
  BY DEF Fills
<1>4. ASSUME NEW k \in 1..Len(t)
      PROVE  /\ t[k].do = "ready" <=> After(t, k) = e
             /\ t[k].do = "read" =>
                  t[k].n \in j + 1..z /\ After(t, k) = 2 * (z - t[k].n) + e + 1
  <2>1. CASE k \in 1..3 /\ t[k].do \in {"A", "B", "C"} /\ After(t, k) >= After(q, 1)
    <3>1. After(t, k) \in Int
      BY <1>1, <2>1 DEF After
    <3>2. After(t, k) # e
      BY <1>1, <1>2, <2>1, <3>1
    <3>3. QED
      BY <2>1, <3>2
  <2>2. CASE k - 2 \in 2..n /\ t[k] = q[k - 2] /\ After(t, k) = After(q, k - 2)
    <3>1. k - 2 \in 1..n
      BY <1>1, <2>2
    <3>2. /\ q[k - 2].do = "ready" <=> After(q, k - 2) = e
          /\ q[k - 2].do = "read" =>
               q[k - 2].n \in j + 1..z /\ After(q, k - 2) = 2 * (z - q[k - 2].n) + e + 1
      BY <3>1 DEF Fills
    <3>3. QED
      BY <2>2, <3>2
  <2>3. QED
    BY <2>1, <2>2, TurningCases
<1>5. ASSUME NEW m \in j + 1..z
      PROVE  \E k \in 1..Len(t) : t[k] = Step("read", m)
  <2>1. PICK k \in 1..n : q[k] = Step("read", m)
    BY DEF Fills
  <2>2. k # 1
    BY <2>1 DEF Step
  <2>3. k + 2 \in 4..n + 2 /\ (k + 2) - 2 = k /\ k + 2 \in 1..n + 2
    BY <1>1, <2>2
  <2>4. t[k + 2] = q[k]
    BY <2>3, TurningFacts
  <2>5. QED
    BY <1>1, <2>1, <2>3, <2>4
<1> HIDE DEF t, n, e, z
<1>6. Len(t) > e
  BY <1>1, <1>3
<1>7. QED
  BY <1>4, <1>5, <1>6 DEF Fills, t, e, z

\* Where the first step sets no pin, none does.
LEMMA NoPins ==
  ASSUME NEW q \in Seq(Steps), q # <<>>, NEW i, NEW s, Selects(q, i, s),
         q[1].do \notin {"A", "B", "C"}
  PROVE  \A k \in 1..Len(q) : q[k].do \notin {"A", "B", "C"}
<1>1. Len(q) \in Nat \ {0}
  BY TailFacts
<1>2. \A k \in 1..Len(q) : q[k].do # "A"
  BY DEF Selects
<1>3. \A k \in 1..Len(q) : q[k].do # "B"
  BY DEF Selects
<1>4. \A k \in 1..Len(q) : q[k].do # "C"
  BY DEF Selects
<1>5. QED
  BY <1>2, <1>3, <1>4

LEMMA TurningSelects ==
  ASSUME NEW q \in Seq(Steps), q # <<>>, NEW i, NEW s, NEW s2, Selects(q, i, s),
         q[1].do = "mux"
  PROVE  Selects(Turning(q), i, s2)
<1> DEFINE t == Turning(q)
           n == Len(q)
<1>1. /\ n \in Nat \ {0} /\ Len(t) = n + 2
      /\ t[1] = Step("A", q[1].n) /\ t[2] = Step("B", q[1].n) /\ t[3] = Step("C", q[1].n)
      /\ \A k \in 4..n + 2 : t[k] = q[k - 2] /\ k - 2 \in 2..n
  BY TurningFacts
<1>2. \A k \in 1..n : q[k].do \notin {"A", "B", "C"}
  BY NoPins
<1>3. \A k \in 1..n : q[k].do = "read" =>
        \/ k > 1 /\ q[k - 1] = Step("mux", i)
        \/ k > 1 /\ q[k - 1] = Step("C", i)
        \/ k = 1 /\ s = i
  BY DEF Selects
<1> HIDE DEF t, n
<1>4. t[1].do = "A" /\ t[2].do = "B" /\ t[3].do = "C" /\ t[1].n = q[1].n /\ t[3].n = q[1].n
  BY <1>1 DEF Step
<1>5. ASSUME NEW k \in 1..n + 2, t[k].do = "read"
      PROVE  k > 1 /\ (t[k - 1] = Step("mux", i) \/ t[k - 1] = Step("C", i))
  <2>1. k # 1 /\ k # 2 /\ k # 3
    BY <1>4, <1>5
  <2>2. k \in 4..n + 2
    BY <1>1, <2>1
  <2>3. t[k] = q[k - 2] /\ k - 2 \in 2..n
    BY <1>1, <2>2
  <2>4. k - 2 \in 1..n /\ k - 2 > 1 /\ (k - 2) - 1 = k - 3
    BY <1>1, <2>3
  <2>5. q[k - 3] = Step("mux", i) \/ q[k - 3] = Step("C", i)
    BY <1>3, <1>5, <2>3, <2>4
  <2>6. CASE k = 4
    <3>1. k - 3 = 1 /\ k - 1 = 3
      BY <2>6
    <3>2. q[1].n = i
      BY <2>5, <3>1 DEF Step
    <3>3. QED
      BY <1>1, <2>6, <3>1, <3>2
  <2>7. CASE k # 4
    <3>1. k - 1 \in 4..n + 2 /\ (k - 1) - 2 = k - 3 /\ k > 1
      BY <1>1, <2>2, <2>7
    <3>2. t[k - 1] = q[k - 3]
      BY <1>1, <3>1
    <3>3. QED
      BY <2>5, <3>1, <3>2
  <2>8. QED
    BY <2>6, <2>7
<1>6. ASSUME NEW k \in 1..n + 2, t[k].do \in {"A", "B", "C"}
      PROVE  k = 1 \/ k = 2 \/ k = 3
  <2>1. ASSUME k \in 4..n + 2 PROVE FALSE
    <3>1. t[k] = q[k - 2] /\ k - 2 \in 1..n
      BY <1>1, <2>1
    <3>2. QED
      BY <1>2, <1>6, <3>1
  <2>2. QED
    BY <1>1, <2>1
<1>7. ASSUME NEW k \in 1..n + 2
      PROVE  /\ t[k].do = "A" => /\ k = 1 /\ n + 2 > 2
                                 /\ t[2] = Step("B", t[1].n) /\ t[3] = Step("C", t[1].n)
             /\ t[k].do = "B" => k = 2 /\ t[1].do = "A"
             /\ t[k].do = "C" => k = 3 /\ t[1].do = "A"
  BY <1>1, <1>4, <1>6
<1>8. QED
  BY <1>1, <1>5, <1>7 DEF Selects, t

-----------------------------------------------------------------------------
(***************************************************************************)
(* What GetValue does, in order: setting up, m readings, each after its    *)
(* selection, "ready" if the window was being filled, and the end.         *)
(***************************************************************************)

Measures(q, c, a, m, x) ==
  /\ q \in Seq(Steps) /\ a \in Nat /\ m \in Nat \ {0} /\ x \in {0, 1}
  /\ Len(q) = a + 2 * m + x + Ending(c)
  /\ \A k \in 1..a : q[k].do \in {"mux", "on"} /\ (q[k].do = "on" => Channels[c].resistive)
  /\ \A k \in 1..m : /\ q[a + 2 * k - 1] = Step("mux", Channels[c].input)
                     /\ q[a + 2 * k] = Step("read", k)
  /\ x = 1 => q[a + 2 * m + 1] = Step("ready", 0)
  /\ Channels[c].resistive => q[a + 2 * m + x + 1] = Step("off", 0)
  /\ q[a + 2 * m + x + Ending(c)] = Step("publish", 0)

LEMMA SetUpFacts ==
  ASSUME NEW c \in DOMAIN Channels
  PROVE  /\ SetUp(c) \in Seq(Steps) /\ Len(SetUp(c)) \in Nat
         /\ \A k \in 1..Len(SetUp(c)) :
              /\ SetUp(c)[k] \in Steps /\ SetUp(c)[k].do \in {"mux", "on"}
              /\ SetUp(c)[k].do = "on" => Channels[c].resistive
<1>1. Channels[c].input \in Int /\ Channels[c].discharge \in Int
  BY ChannelFacts
<1> DEFINE input == Channels[c].input
           first == Step("mux", Channels[c].discharge)
           mux == Step("mux", input)
           on == Step("on", 0)
<1>2. /\ first \in Steps /\ first.do = "mux" /\ mux \in Steps /\ mux.do = "mux"
      /\ on \in Steps /\ on.do = "on"
  BY <1>1 DEF Steps, Step
<1> DEFINE p == Discharge(c)
           r == <<mux, on>>
<1>3. r \in Seq(Steps) /\ Len(r) = 2 /\ r[1] = mux /\ r[2] = on
  BY <1>2
<1>4. /\ p \in Seq(Steps) /\ Len(p) \in Nat
      /\ \A k \in 1..Len(p) : p[k] = first
  BY <1>2 DEF Discharge
<1>5. CASE ~Channels[c].resistive
  <2>1. SetUp(c) = <<>>
    BY <1>5 DEF SetUp
  <2>2. QED
    BY <2>1
<1>6. CASE Channels[c].resistive
  <2>1. SetUp(c) = p \o r
    BY <1>6 DEF SetUp
  <2> HIDE DEF p, r, first, mux, on
  <2>2. /\ p \o r \in Seq(Steps) /\ Len(p \o r) = Len(p) + Len(r)
        /\ \A k \in 1..Len(p) + Len(r) :
             (p \o r)[k] = IF k <= Len(p) THEN p[k] ELSE r[k - Len(p)]
    BY <1>3, <1>4, ConcatProperties
  <2>3. ASSUME NEW k \in 1..Len(p \o r)
        PROVE  (p \o r)[k] = first \/ (p \o r)[k] = mux \/ (p \o r)[k] = on
    <3>1. CASE k <= Len(p)
      <4>1. k \in 1..Len(p)
        BY <1>4, <2>2, <3>1
      <4>2. QED
        BY <1>3, <1>4, <2>2, <3>1, <4>1
    <3>2. CASE ~(k <= Len(p))
      <4>1. k - Len(p) = 1 \/ k - Len(p) = 2
        BY <1>3, <1>4, <2>2, <3>2
      <4>2. (p \o r)[k] = r[k - Len(p)]
        BY <1>3, <2>2, <3>2
      <4>3. QED
        BY <1>3, <4>1, <4>2
    <3>3. QED
      BY <3>1, <3>2
  <2>4. Len(p \o r) \in Nat
    BY <2>2, LenProperties
  <2>5. QED
    BY <1>2, <1>6, <2>1, <2>2, <2>3, <2>4
<1>7. QED
  BY <1>5, <1>6

LEMMA FinishFacts ==
  ASSUME NEW c \in DOMAIN Channels
  PROVE  /\ Finish(c) \in Seq(Steps) /\ Len(Finish(c)) = Ending(c)
         /\ Finish(c)[Ending(c)] = Step("publish", 0)
         /\ Channels[c].resistive => Finish(c)[1] = Step("off", 0)
<1>1. Step("publish", 0) \in Steps /\ Step("off", 0) \in Steps
  BY DEF Steps, Step
<1>2. CASE Channels[c].resistive
  BY <1>1, <1>2 DEF Finish, Ending
<1>3. CASE ~Channels[c].resistive
  BY <1>1, <1>3 DEF Finish, Ending
<1>4. QED
  BY <1>2, <1>3

LEMMA SamplesFacts ==
  ASSUME NEW c \in DOMAIN Channels, NEW m \in Nat \ {0}
  PROVE  /\ Samples(c, m) \in Seq(Steps) /\ Len(Samples(c, m)) = 2 * m
         /\ \A k \in 1..m : /\ Samples(c, m)[2 * k - 1] = Step("mux", Channels[c].input)
                            /\ Samples(c, m)[2 * k] = Step("read", k)
<1> DEFINE s == Samples(c, m)
           input == Channels[c].input
<1>1. input \in Int
  BY ChannelFacts
<1>2. PICK l \in Nat : l = 2 * m
  OBVIOUS
<1>3. s = [k \in 1..l |-> IF k % 2 = 1 THEN Step("mux", input) ELSE Step("read", k \div 2)]
  BY <1>2 DEF Samples
<1>4. \A k \in 1..l : k \div 2 \in Int
  BY <1>2
<1>5. \A k \in 1..l : Step("mux", input) \in Steps /\ Step("read", k \div 2) \in Steps
  BY <1>1, <1>4 DEF Steps, Step
<1> HIDE DEF s, input
<1>6. s \in [1..l -> Steps]
  BY <1>3, <1>5
<1>7. s \in Seq(Steps) /\ Len(s) = l
  BY <1>2, <1>6
<1>8. ASSUME NEW k \in 1..m
      PROVE  s[2 * k - 1] = Step("mux", input) /\ s[2 * k] = Step("read", k)
  <2>1. /\ 2 * k - 1 \in 1..l /\ (2 * k - 1) % 2 = 1
        /\ 2 * k \in 1..l /\ (2 * k) % 2 # 1 /\ (2 * k) \div 2 = k
    BY <1>2
  <2>2. QED
    BY <1>3, <2>1
<1>9. QED
  BY <1>2, <1>7, <1>8 DEF s, input

LEMMA AverageFacts ==
  ASSUME NEW c \in DOMAIN Channels, ready[c] \in BOOLEAN
  PROVE  \E m \in Nat \ {0}, x \in {0, 1} :
           /\ x = IF ready[c] THEN 0 ELSE 1
           /\ ~ready[c] => m = Size(c)
           /\ GetAverageValue(c) \in Seq(Steps) /\ Len(GetAverageValue(c)) = 2 * m + x
           /\ \A k \in 1..m :
                /\ GetAverageValue(c)[2 * k - 1] = Step("mux", Channels[c].input)
                /\ GetAverageValue(c)[2 * k] = Step("read", k)
           /\ x = 1 => GetAverageValue(c)[2 * m + 1] = Step("ready", 0)
<1> DEFINE g == GetAverageValue(c)
<1>1. CASE ready[c]
  <2> DEFINE m == Channels[c].readings
  <2>1. m \in Nat \ {0} /\ g = Samples(c, m)
    BY <1>1, ChannelFacts DEF GetAverageValue
  <2> HIDE DEF m, g
  <2>2. /\ g \in Seq(Steps) /\ Len(g) = 2 * m
        /\ \A k \in 1..m : /\ g[2 * k - 1] = Step("mux", Channels[c].input)
                           /\ g[2 * k] = Step("read", k)
    BY <2>1, SamplesFacts
  <2>3. /\ 0 \in {0, 1} /\ 0 = IF ready[c] THEN 0 ELSE 1
        /\ (0 = 1 => g[2 * m + 1] = Step("ready", 0)) /\ 2 * m = 2 * m + 0
    BY <1>1, <2>1
  <2>4. QED
    BY <1>1, <2>1, <2>2, <2>3 DEF g
<1>2. CASE ~ready[c]
  <2> DEFINE m == Size(c)
             s == Samples(c, m)
             r == Step("ready", 0)
  <2>1. m \in Nat \ {0} /\ g = Append(s, r)
    BY <1>2, ChannelFacts DEF GetAverageValue
  <2>2. r \in Steps
    BY DEF Steps, Step
  <2> HIDE DEF m, g, r
  <2>3. /\ s \in Seq(Steps) /\ Len(s) = 2 * m
        /\ \A k \in 1..m : /\ s[2 * k - 1] = Step("mux", Channels[c].input)
                           /\ s[2 * k] = Step("read", k)
    BY <2>1, SamplesFacts
  <2> HIDE DEF s
  <2>4. /\ g \in Seq(Steps) /\ Len(g) = 2 * m + 1 /\ g[2 * m + 1] = r
        /\ \A k \in 1..2 * m : g[k] = s[k]
    <3>1. /\ g \in Seq(Steps) /\ Len(g) = Len(s) + 1 /\ g[Len(s) + 1] = r
          /\ \A k \in 1..Len(s) : g[k] = s[k]
      BY <2>1, <2>2, <2>3, AppendProperties
    <3>2. QED
      BY <2>3, <3>1
  <2>5. ASSUME NEW k \in 1..m
        PROVE  g[2 * k - 1] = Step("mux", Channels[c].input) /\ g[2 * k] = Step("read", k)
    <3>1. 2 * k - 1 \in 1..2 * m /\ 2 * k \in 1..2 * m
      BY <2>1
    <3>2. QED
      BY <2>3, <2>4, <3>1
  <2>6. /\ 1 \in {0, 1} /\ 1 = IF ready[c] THEN 0 ELSE 1
        /\ (1 = 1 => g[2 * m + 1] = Step("ready", 0))
    BY <1>2, <2>4 DEF r
  <2>7. QED
    BY <1>2, <2>1, <2>4, <2>5, <2>6 DEF g, m
<1>3. QED
  BY <1>1, <1>2

LEMMA GetValueMeasures ==
  ASSUME NEW c \in DOMAIN Channels, ready[c] \in BOOLEAN
  PROVE  \E a, m, x : /\ Measures(GetValue(c), c, a, m, x)
                      /\ x = IF ready[c] THEN 0 ELSE 1
                      /\ ~ready[c] => m = Size(c)
<1> DEFINE u == SetUp(c)
           g == GetAverageValue(c)
           f == Finish(c)
           q == GetValue(c)
           a == Len(u)
           e == Ending(c)
<1>1. PICK m \in Nat \ {0}, x \in {0, 1} :
           /\ x = IF ready[c] THEN 0 ELSE 1
           /\ ~ready[c] => m = Size(c)
           /\ g \in Seq(Steps) /\ Len(g) = 2 * m + x
           /\ \A k \in 1..m : /\ g[2 * k - 1] = Step("mux", Channels[c].input)
                              /\ g[2 * k] = Step("read", k)
           /\ x = 1 => g[2 * m + 1] = Step("ready", 0)
  BY AverageFacts
<1>2. /\ u \in Seq(Steps) /\ a \in Nat
      /\ \A k \in 1..a : /\ u[k].do \in {"mux", "on"}
                         /\ u[k].do = "on" => Channels[c].resistive
  BY SetUpFacts
<1>3. /\ f \in Seq(Steps) /\ Len(f) = e /\ f[e] = Step("publish", 0)
      /\ Channels[c].resistive => f[1] = Step("off", 0)
      /\ e \in Nat \ {0}
  BY FinishFacts, ChannelFacts
<1>4. q = (u \o g) \o f
  BY DEF GetValue
<1> HIDE DEF u, g, f, q, e
<1>5. /\ u \o g \in Seq(Steps) /\ Len(u \o g) = a + Len(g)
      /\ \A k \in 1..a + Len(g) : (u \o g)[k] = IF k <= a THEN u[k] ELSE g[k - a]
  BY <1>1, <1>2, ConcatProperties, ZenonT(40)
<1> DEFINE h == u \o g
           b == 2 * m + x
<1>6. b \in Nat /\ Len(g) = b
  BY <1>1
<1> HIDE DEF a, h, b
<1>7. /\ h \in Seq(Steps) /\ Len(h) = a + b
      /\ \A k \in 1..a + b : h[k] = IF k <= a THEN u[k] ELSE g[k - a]
  BY <1>5, <1>6 DEF h
<1>8. /\ q \in Seq(Steps) /\ Len(q) = (a + b) + e
      /\ \A k \in 1..(a + b) + e : q[k] = IF k <= a + b THEN h[k] ELSE f[k - (a + b)]
  <2>1. q = h \o f
    BY <1>4 DEF h
  <2>2. /\ h \o f \in Seq(Steps) /\ Len(h \o f) = Len(h) + Len(f)
        /\ \A k \in 1..Len(h) + Len(f) :
             (h \o f)[k] = IF k <= Len(h) THEN h[k] ELSE f[k - Len(h)]
    BY <1>3, <1>7, ConcatProperties
  <2>3. QED
    BY <1>3, <1>7, <2>1, <2>2
<1>9. \A k \in 1..a : q[k] = u[k]
  <2>1. \A k \in 1..a : k \in 1..a + b /\ k \in 1..(a + b) + e /\ k <= a + b /\ k <= a
    BY <1>2, <1>3, <1>6
  <2>2. QED
    BY <1>7, <1>8, <2>1
<1>10. \A k \in 1..b : q[a + k] = g[k]
  <2>1. ASSUME NEW k \in 1..b
        PROVE  /\ a + k \in 1..a + b /\ a + k \in 1..(a + b) + e /\ a + k <= a + b
               /\ ~(a + k <= a) /\ (a + k) - a = k
    BY <1>2, <1>3, <1>6
  <2>2. ASSUME NEW k \in 1..b PROVE q[a + k] = g[k]
    <3>1. q[a + k] = h[a + k]
      BY <1>8, <2>1
    <3>2. h[a + k] = g[(a + k) - a]
      BY <1>7, <2>1
    <3>3. QED
      BY <2>1, <3>1, <3>2
  <2>3. QED
    BY <2>2
<1>11. \A k \in 1..e : q[(a + b) + k] = f[k]
  <2>1. ASSUME NEW k \in 1..e
        PROVE  /\ (a + b) + k \in 1..(a + b) + e /\ ~((a + b) + k <= a + b)
               /\ ((a + b) + k) - (a + b) = k
    BY <1>2, <1>3, <1>6
  <2>2. QED
    BY <1>8, <2>1
<1>12. ASSUME NEW k \in 1..m
       PROVE  /\ q[a + 2 * k - 1] = Step("mux", Channels[c].input)
              /\ q[a + 2 * k] = Step("read", k)
  <2>1. /\ 2 * k - 1 \in 1..b /\ 2 * k \in 1..b /\ a + (2 * k - 1) = a + 2 * k - 1
    BY <1>2 DEF b
  <2>2. q[a + (2 * k - 1)] = g[2 * k - 1] /\ q[a + 2 * k] = g[2 * k]
    BY <1>10, <2>1
  <2>3. QED
    BY <1>1, <2>1, <2>2
<1>13. x = 1 => q[a + 2 * m + 1] = Step("ready", 0)
  <2>1. x = 1 => 2 * m + 1 \in 1..b /\ a + (2 * m + 1) = a + 2 * m + 1
    BY <1>2 DEF b
  <2>2. QED
    BY <1>1, <1>10, <2>1
<1>14. /\ Channels[c].resistive => q[a + 2 * m + x + 1] = Step("off", 0)
       /\ q[a + 2 * m + x + e] = Step("publish", 0)
  <2>1. /\ 1 \in 1..e /\ e \in 1..e
        /\ (a + b) + 1 = a + 2 * m + x + 1 /\ (a + b) + e = a + 2 * m + x + e
    BY <1>2, <1>3 DEF b
  <2>2. q[(a + b) + 1] = f[1] /\ q[(a + b) + e] = f[e]
    BY <1>11, <2>1
  <2>3. QED
    BY <1>3, <2>1, <2>2
<1>15. Len(q) = a + 2 * m + x + e
  BY <1>2, <1>3, <1>8 DEF b
<1>16. \A k \in 1..a : q[k].do \in {"mux", "on"} /\ (q[k].do = "on" => Channels[c].resistive)
  BY <1>2, <1>9 DEF a
<1>17. Measures(q, c, a, m, x)
  <2>1. a \in Nat /\ q \in Seq(Steps) /\ m \in Nat \ {0} /\ x \in {0, 1}
    BY <1>2, <1>8 DEF a
  <2>2. QED
    BY <1>12, <1>13, <1>14, <1>15, <1>16, <2>1 DEF Measures, e
<1>18. QED
  BY <1>1, <1>17 DEF q

\* Every step is one of these.
LEMMA MeasuresCases ==
  ASSUME NEW q, NEW c \in DOMAIN Channels, NEW a, NEW m, NEW x, Measures(q, c, a, m, x),
         NEW k \in 1..Len(q)
  PROVE  \/ k <= a /\ q[k].do \in {"mux", "on"} /\ (q[k].do = "on" => Channels[c].resistive)
         \/ \E i \in 1..m : k = a + 2 * i - 1 /\ q[k] = Step("mux", Channels[c].input)
         \/ \E i \in 1..m : /\ k = a + 2 * i /\ q[k] = Step("read", i)
                            /\ q[k - 1] = Step("mux", Channels[c].input)
         \/ x = 1 /\ k = a + 2 * m + 1 /\ q[k] = Step("ready", 0)
         \/ Channels[c].resistive /\ k = a + 2 * m + x + 1 /\ q[k] = Step("off", 0)
         \/ k = a + 2 * m + x + Ending(c) /\ q[k] = Step("publish", 0)
<1>1. /\ a \in Nat /\ m \in Nat \ {0} /\ x \in {0, 1}
      /\ Len(q) = a + 2 * m + x + Ending(c)
  BY DEF Measures
<1>2. Ending(c) \in Nat \ {0} /\ k \in Nat /\ 1 <= k /\ k <= a + 2 * m + x + Ending(c)
  BY <1>1, ChannelFacts
<1>3. CASE k <= a
  BY <1>1, <1>2, <1>3 DEF Measures
<1>4. CASE a < k /\ k <= a + 2 * m
  <2>1. PICK d \in 1..2 * m : k = a + d
    <3>1. k - a \in 1..2 * m /\ k = a + (k - a)
      BY <1>1, <1>2, <1>4
    <3>2. QED
      BY <3>1
  <2>2. PICK i \in 1..m : d = 2 * i - 1 \/ d = 2 * i
    <3>1. (d + 1) \div 2 \in 1..m /\ (d = 2 * ((d + 1) \div 2) - 1 \/ d = 2 * ((d + 1) \div 2))
      BY <1>1
    <3>2. QED
      BY <3>1
  <2>3. k = a + 2 * i - 1 \/ (k = a + 2 * i /\ k - 1 = a + 2 * i - 1)
    BY <1>1, <2>1, <2>2
  <2>4. /\ q[a + 2 * i - 1] = Step("mux", Channels[c].input)
        /\ q[a + 2 * i] = Step("read", i)
    BY DEF Measures
  <2>5. QED
    BY <2>3, <2>4
<1>5. CASE a + 2 * m < k /\ k <= a + 2 * m + x
  <2>1. x = 1 /\ k = a + 2 * m + 1
    BY <1>1, <1>2, <1>5
  <2>2. QED
    BY <2>1 DEF Measures
<1>6. CASE a + 2 * m + x < k /\ k # a + 2 * m + x + Ending(c)
  <2>1. Ending(c) = 2 /\ Channels[c].resistive
    BY <1>1, <1>2, <1>6 DEF Ending
  <2>2. k = a + 2 * m + x + 1
    BY <1>1, <1>2, <1>6, <2>1
  <2>3. QED
    BY <2>1, <2>2 DEF Measures
<1>7. CASE k = a + 2 * m + x + Ending(c)
  BY <1>7 DEF Measures
<1>8. QED
  BY <1>1, <1>2, <1>3, <1>4, <1>5, <1>6, <1>7

LEMMA MeasuresTodo ==
  ASSUME NEW q, NEW c \in DOMAIN Channels, NEW a, NEW m, NEW x, Measures(q, c, a, m, x),
         NEW s
  PROVE  /\ Len(q) > 1 /\ Ends(q, c) /\ Selects(q, Channels[c].input, s)
         /\ \A k \in 1..Len(q) : q[k].do \notin {"A", "B", "C"}
         /\ x = 0 => Filled(q)
         /\ x = 1 /\ m = Size(c) => Fills(q, c, 0)
<1> DEFINE e == Ending(c)
           i0 == Channels[c].input
           z == Size(c)
<1>1. /\ a \in Nat /\ m \in Nat \ {0} /\ x \in {0, 1} /\ Len(q) = a + 2 * m + x + e
      /\ e \in Nat \ {0} /\ e = (IF Channels[c].resistive THEN 2 ELSE 1) /\ z \in Nat
  BY ChannelFacts DEF Measures, Ending
<1>2. \A k \in 1..Len(q) : After(q, k) = a + 2 * m + x + e - k
  BY <1>1 DEF After
<1>3. ASSUME NEW k \in 1..Len(q)
      PROVE  /\ q[k].do = "publish" => After(q, k) = 0
             /\ q[k].do = "off" => Channels[c].resistive /\ After(q, k) = 1
             /\ Channels[c].resistive /\ After(q, k) = 1 => q[k].do = "off"
             /\ q[k].do = "on" => Channels[c].resistive /\ After(q, k) > 2
             /\ q[k].do = "mux" => After(q, k) > e
             /\ q[k].do \notin {"A", "B", "C"}
             /\ q[k].do = "ready" => x = 1 /\ After(q, k) = e
             /\ x = 1 /\ After(q, k) = e => q[k].do = "ready"
             /\ q[k].do = "read" => /\ q[k].n \in 1..m /\ k > 1 /\ q[k - 1] = Step("mux", i0)
                                    /\ After(q, k) = 2 * (m - q[k].n) + e + x
  <2>1. After(q, k) = a + 2 * m + x + e - k /\ k \in Nat /\ k >= 1
    BY <1>1, <1>2
  <2>2. CASE k <= a /\ q[k].do \in {"mux", "on"} /\ (q[k].do = "on" => Channels[c].resistive)
    <3>1. After(q, k) > e /\ After(q, k) > 2
      BY <1>1, <2>1, <2>2, SMTT(40)
    <3>2. QED
      BY <1>1, <2>2, <3>1
  <2>3. CASE \E i \in 1..m : k = a + 2 * i - 1 /\ q[k] = Step("mux", i0)
    <3>1. PICK i \in 1..m : k = a + 2 * i - 1 /\ q[k] = Step("mux", i0)
      BY <2>3
    <3>2. q[k].do = "mux"
      BY <3>1 DEF Step
    <3>3. After(q, k) > e /\ After(q, k) \in Int
      BY <1>1, <2>1, <3>1
    <3>4. Channels[c].resistive => After(q, k) # 1
      BY <1>1, <3>3
    <3>5. QED
      BY <1>1, <3>2, <3>3, <3>4
  <2>4. CASE \E i \in 1..m : /\ k = a + 2 * i /\ q[k] = Step("read", i)
                             /\ q[k - 1] = Step("mux", i0)
    <3>1. PICK i \in 1..m : /\ k = a + 2 * i /\ q[k] = Step("read", i)
                            /\ q[k - 1] = Step("mux", i0)
      BY <2>4
    <3>2. q[k].do = "read" /\ q[k].n = i
      BY <3>1 DEF Step
    <3>3. After(q, k) = 2 * (m - i) + e + x /\ k > 1
      BY <1>1, <2>1, <3>1
    <3>4. /\ Channels[c].resistive => After(q, k) # 1
          /\ x = 1 => After(q, k) # e
      BY <1>1, <3>3
    <3>5. QED
      BY <3>1, <3>2, <3>3, <3>4
  <2>5. CASE x = 1 /\ k = a + 2 * m + 1 /\ q[k] = Step("ready", 0)
    <3>1. After(q, k) = e /\ q[k].do = "ready"
      BY <1>1, <2>1, <2>5 DEF Step
    <3>2. QED
      BY <1>1, <2>5, <3>1
  <2>6. CASE Channels[c].resistive /\ k = a + 2 * m + x + 1 /\ q[k] = Step("off", 0)
    <3>1. After(q, k) = 1 /\ e = 2 /\ q[k].do = "off"
      BY <1>1, <2>1, <2>6, SMTT(40) DEF Step
    <3>2. QED
      BY <2>6, <3>1
  <2>7. CASE k = a + 2 * m + x + e /\ q[k] = Step("publish", 0)
    <3>1. After(q, k) = 0 /\ q[k].do = "publish"
      BY <1>1, <2>1, <2>7 DEF Step
    <3>2. QED
      BY <1>1, <3>1
  <2> HIDE DEF e, i0
  <2>8. \/ k <= a /\ q[k].do \in {"mux", "on"} /\ (q[k].do = "on" => Channels[c].resistive)
        \/ \E i \in 1..m : k = a + 2 * i - 1 /\ q[k] = Step("mux", i0)
        \/ \E i \in 1..m : /\ k = a + 2 * i /\ q[k] = Step("read", i)
                           /\ q[k - 1] = Step("mux", i0)
        \/ x = 1 /\ k = a + 2 * m + 1 /\ q[k] = Step("ready", 0)
        \/ Channels[c].resistive /\ k = a + 2 * m + x + 1 /\ q[k] = Step("off", 0)
        \/ k = a + 2 * m + x + e /\ q[k] = Step("publish", 0)
    BY MeasuresCases DEF e, i0
  <2>9. QED
    BY <2>2, <2>3, <2>4, <2>5, <2>6, <2>7, <2>8
<1>4. Len(q) > 1 /\ Len(q) > e
  BY <1>1
<1>5. Ends(q, c)
  BY <1>3 DEF Ends
<1>6. Selects(q, i0, s)
  BY <1>3 DEF Selects
<1>7. x = 0 => Filled(q)
  BY <1>3 DEF Filled
<1>8. ASSUME x = 1, m = z
      PROVE  Fills(q, c, 0)
  <2>1. \A n \in 0 + 1..z : \E k \in 1..Len(q) : q[k] = Step("read", n)
    <3>1. SUFFICES ASSUME NEW n \in 1..m PROVE \E k \in 1..Len(q) : q[k] = Step("read", n)
      BY <1>8
    <3>2. a + 2 * n \in 1..Len(q)
      BY <1>1
    <3>3. q[a + 2 * n] = Step("read", n)
      BY DEF Measures
    <3>4. QED
      BY <3>2, <3>3
  <2>2. ASSUME NEW k \in 1..Len(q)
        PROVE  /\ q[k].do = "ready" <=> After(q, k) = e
               /\ q[k].do = "read" => /\ q[k].n \in 0 + 1..z
                                      /\ After(q, k) = 2 * (z - q[k].n) + e + 1
    BY <1>3, <1>8
  <2>3. QED
    BY <1>4, <2>1, <2>2 DEF Fills
<1>9. QED
  BY <1>3, <1>4, <1>5, <1>6, <1>7, <1>8

-----------------------------------------------------------------------------
(***************************************************************************)
(* The invariant.                                                          *)
(***************************************************************************)

AdcInv == AdcType /\ TodoInv /\ CurrentInv /\ PinsAgree /\ RingInv /\ OwnInput

LEMMA HeadStep ==
  ASSUME AdcType, NEW do, Doing(do)
  PROVE  /\ todo # <<>> /\ todo \in Seq(Steps) /\ todo[1].do = do
         /\ N = todo[1].n /\ N \in Int /\ Len(todo) \in Nat \ {0} /\ 1 \in 1..Len(todo)
<1>1. todo # <<>> /\ todo \in Seq(Steps) /\ Head(todo).do = do
  BY DEF AdcType, Doing
<1>2. Head(todo) = todo[1] /\ todo[1] \in Steps /\ Len(todo) \in Nat \ {0}
  BY <1>1, TailFacts
<1>3. todo[1].n \in Int
  BY <1>2 DEF Steps
<1>4. QED
  BY <1>1, <1>2, <1>3 DEF N

LEMMA InputBits ==
  ASSUME NEW n \in Int
  PROVE  /\ Bits(n) \in [1..3 -> {0, 1}]
         /\ Bits(n)[1] + 2 * Bits(n)[2] + 4 * Bits(n)[3] = n % 8
<1>1. n % 2 \in {0, 1} /\ (n \div 2) % 2 \in {0, 1} /\ (n \div 4) % 2 \in {0, 1}
  OBVIOUS
<1>2. (n % 2) + 2 * ((n \div 2) % 2) + 4 * ((n \div 4) % 2) = n % 8
  OBVIOUS
<1>3. Bits(n)[1] = n % 2 /\ Bits(n)[2] = (n \div 2) % 2 /\ Bits(n)[3] = (n \div 4) % 2
  BY DEF Bits
<1>4. Bits(n) \in [1..3 -> {0, 1}]
  BY <1>1 DEF Bits
<1>5. QED
  BY <1>2, <1>3, <1>4

LEMMA NextPosition ==
  ASSUME NEW s \in Nat \ {0}, NEW p \in Nat, p < s
  PROVE  (p + 1) % s = IF p + 1 = s THEN 0 ELSE p + 1
<1>1. CASE p + 1 < s
  BY <1>1
<1>2. CASE p + 1 = s
  BY <1>2
<1>3. QED
  BY <1>1, <1>2

\* Between two steps of a measurement through a resistance, two are left.
LEMMA CurrentTail ==
  ASSUME NEW q \in Seq(Steps), NEW c \in DOMAIN Channels, Ends(q, c), Channels[c].resistive,
         Len(q) > 1, q[1].do # "off"
  PROVE  Len(Tail(q)) > 1
<1>1. Len(q) \in Nat /\ q # <<>>
  BY LenProperties
<1>2. Len(Tail(q)) = Len(q) - 1 /\ 1 \in 1..Len(q)
  BY <1>1, TailFacts
<1>3. After(q, 1) # 1
  BY <1>2 DEF Ends
<1>4. QED
  BY <1>1, <1>2, <1>3 DEF After

\* A step that leaves the rings alone and is over.
TailStep ==
  /\ todo # <<>> /\ todo[1].do \notin {"read", "ready", "publish"} /\ todo' = Tail(todo)
  /\ todo[1].do \in {"mux", "C"} => muxInput' = todo[1].n
  /\ UNCHANGED <<cur, ringVars>>

LEMMA TailStepKeeps ==
  ASSUME AdcInv, TailStep
  PROVE  todo' \in Seq(Steps) /\ TodoInv' /\ RingInv'
<1>1. /\ todo \in Seq(Steps) /\ cur \in DOMAIN Channels /\ todo # <<>> /\ todo' = Tail(todo)
      /\ cur' = cur /\ buffer' = buffer /\ sum' = sum /\ pos' = pos /\ ready' = ready
      /\ last' = last
      /\ todo[1].do \notin {"read", "ready", "publish"}
      /\ todo[1].do \in {"mux", "C"} => muxInput' = todo[1].n
  BY DEF AdcInv, AdcType, TailStep, ringVars
<1>2. /\ Ends(todo, cur) /\ Selects(todo, Channels[cur].input, muxInput)
      /\ IF ready[cur] THEN Filled(todo) ELSE Fills(todo, cur, Len(last[cur]))
  BY <1>1 DEF AdcInv, TodoInv
<1>3. Len(last[cur]) \in Nat
  BY <1>1, LenProperties DEF AdcInv, AdcType
<1>4. Tail(todo) \in Seq(Steps)
  BY <1>1, TailFacts
<1>5. Ends(Tail(todo), cur)
  BY <1>1, <1>2, TailEnds
<1>6. Selects(Tail(todo), Channels[cur].input, muxInput')
  BY <1>1, <1>2, TailSelects
<1>7. IF ready[cur] THEN Filled(Tail(todo)) ELSE Fills(Tail(todo), cur, Len(last[cur]))
  <2>1. CASE ready[cur]
    BY <1>1, <1>2, <2>1, TailFilled
  <2>2. CASE ~ready[cur]
    BY <1>1, <1>2, <1>3, <2>2, TailFills
  <2>3. QED
    BY <2>1, <2>2
<1>8. TodoInv'
  BY <1>1, <1>5, <1>6, <1>7 DEF TodoInv
<1>9. ASSUME NEW c \in DOMAIN Channels, ~ready[c], c # cur \/ Tail(todo) = <<>>
      PROVE  last[c] = <<>>
  <2>1. CASE c # cur
    BY <1>9, <2>1 DEF AdcInv, RingInv
  <2>2. CASE c = cur
    <3>1. Len(Tail(todo)) > Ending(cur)
      BY <1>7, <1>9, <2>2 DEF Fills
    <3>2. Len(Tail(todo)) > 0
      BY <1>1, <1>4, <3>1, ChannelFacts, LenProperties
    <3>3. QED
      BY <1>9, <2>2, <3>2
  <2>3. QED
    BY <2>1, <2>2
<1>10. RingInv'
  BY <1>1, <1>9 DEF AdcInv, RingInv, Filling, Turned
<1>11. QED
  BY <1>1, <1>4, <1>8, <1>10

\* A step that leaves the pins alone and is over.
LEMMA TailPins ==
  ASSUME AdcInv, todo # <<>>, todo[1].do \notin {"A", "B", "C"}, todo' = Tail(todo),
         pins' = pins, muxInput' = muxInput
  PROVE  PinsAgree'
<1>1. todo \in Seq(Steps) /\ Selects(todo, Channels[cur].input, muxInput)
  BY DEF AdcInv, AdcType, TodoInv
<1>2. \A k \in 1..Len(todo) : todo[k].do \notin {"A", "B", "C"}
  BY <1>1, NoPins
<1>3. Head(todo) = todo[1] /\ Tail(todo) \in Seq(Steps) /\ Len(todo) \in Nat \ {0}
  BY <1>1, TailFacts
<1>4. ASSUME Tail(todo) # <<>> PROVE Head(Tail(todo)).do \notin {"A", "B", "C"}
  <2>1. Head(Tail(todo)) = Tail(todo)[1] /\ Len(Tail(todo)) \in Nat \ {0}
    BY <1>3, <1>4, TailFacts
  <2>2. 1 \in 1..Len(Tail(todo))
    <3>1. \A n \in Nat \ {0} : 1 \in 1..n
      OBVIOUS
    <3>2. QED
      BY <2>1, <3>1, Zenon
  <2>3. 1 + 1 \in 2..Len(todo) /\ Tail(todo)[1] = todo[1 + 1]
    BY <1>1, <2>2, TailFacts
  <2>4. 1 + 1 \in 1..Len(todo)
    BY <1>3, <2>3
  <2>5. QED
    BY <1>2, <2>1, <2>3, <2>4
<1>5. ~Doing("A")' /\ ~Doing("B")' /\ ~Doing("C")'
  BY <1>4 DEF Doing
<1>6. ~Doing("A") /\ ~Doing("B") /\ ~Doing("C")
  BY <1>3 DEF Doing
<1>7. muxInput # -1 => Input = muxInput % 8
  BY <1>6 DEF AdcInv, PinsAgree
<1>8. Input' = Input
  BY DEF Input
<1>9. QED
  BY <1>5, <1>7, <1>8 DEF PinsAgree

\* A step that leaves the current source alone and is over.
LEMMA TailCurrent ==
  ASSUME AdcInv, todo # <<>>, todo[1].do # "off", todo' = Tail(todo), cur' = cur,
         source' = source, leftOn' = leftOn
  PROVE  CurrentInv'
<1>1. todo \in Seq(Steps) /\ cur \in DOMAIN Channels /\ Ends(todo, cur)
  BY DEF AdcInv, AdcType, TodoInv
<1>2. CASE source /\ ~leftOn
  <2>1. Channels[cur].resistive /\ Len(todo) > 1
    BY <1>2 DEF AdcInv, CurrentInv
  <2>2. Len(Tail(todo)) > 1
    BY <1>1, <2>1, CurrentTail
  <2>3. QED
    BY <2>1, <2>2 DEF CurrentInv
<1>3. CASE ~(source /\ ~leftOn)
  BY <1>3 DEF CurrentInv
<1>4. QED
  BY <1>2, <1>3

LEMMA BeginKeeps ==
  ASSUME AdcInv, BeginChannel
  PROVE  AdcInv'
<1>1. /\ todo = <<>> /\ cur \in DOMAIN Channels /\ ready \in [DOMAIN Channels -> BOOLEAN]
      /\ cur' = cur /\ muxInput' = muxInput /\ pins' = pins /\ source' = source
      /\ stream' = stream /\ buffer' = buffer /\ sum' = sum /\ pos' = pos /\ ready' = ready
      /\ last' = last /\ leftOn' = leftOn /\ todo' = GetValue(cur)
  BY DEF AdcInv, AdcType, BeginChannel, ringVars
<1> DEFINE q == GetValue(cur)
<1>2. PICK a, m, x : /\ Measures(q, cur, a, m, x)
                     /\ x = IF ready[cur] THEN 0 ELSE 1
                     /\ ~ready[cur] => m = Size(cur)
  BY <1>1, GetValueMeasures
<1> HIDE DEF q
<1>3. /\ Len(q) > 1 /\ Ends(q, cur) /\ Selects(q, Channels[cur].input, muxInput)
      /\ \A k \in 1..Len(q) : q[k].do \notin {"A", "B", "C"}
      /\ x = 0 => Filled(q)
      /\ x = 1 /\ m = Size(cur) => Fills(q, cur, 0)
  BY <1>1, <1>2, MeasuresTodo
<1>4. q \in Seq(Steps)
  BY <1>2 DEF Measures
<1>5. \A c \in DOMAIN Channels : ~ready[c] => last[c] = <<>>
  BY <1>1 DEF AdcInv, RingInv
<1>6. AdcType'
  BY <1>1, <1>4 DEF AdcInv, AdcType, q
<1>7. TodoInv'
  <2>1. CASE ready[cur]
    BY <1>1, <1>2, <1>3, <2>1 DEF TodoInv, q
  <2>2. CASE ~ready[cur]
    <3>1. Len(last[cur]) = 0
      BY <1>1, <1>5, <2>2
    <3>2. Fills(q, cur, Len(last[cur]))
      BY <1>2, <1>3, <2>2, <3>1
    <3>3. QED
      BY <1>1, <1>3, <2>2, <3>2 DEF TodoInv, q
  <2>3. QED
    BY <1>1, <2>1, <2>2 DEF AdcType
<1>8. CurrentInv'
  BY <1>1 DEF AdcInv, CurrentInv
<1>9. PinsAgree'
  <2>1. 1 \in 1..Len(q) /\ q # <<>>
    BY <1>3, <1>4, LenProperties
  <2>2. Head(todo').do \notin {"A", "B", "C"}
    BY <1>1, <1>3, <1>4, <2>1, TailFacts DEF q
  <2>3. ~Doing("A")' /\ ~Doing("B")' /\ ~Doing("C")'
    BY <2>2 DEF Doing
  <2>4. ~Doing("A") /\ ~Doing("B") /\ ~Doing("C")
    BY <1>1 DEF Doing
  <2>5. muxInput # -1 => Input = muxInput % 8
    BY <2>4 DEF AdcInv, PinsAgree
  <2>6. Input' = Input
    BY <1>1 DEF Input
  <2>7. QED
    BY <1>1, <2>3, <2>5, <2>6 DEF PinsAgree
<1>10. RingInv'
  BY <1>1, <1>5 DEF AdcInv, RingInv, Filling, Turned
<1>11. OwnInput'
  BY <1>1 DEF AdcInv, OwnInput
<1>12. QED
  BY <1>6, <1>7, <1>8, <1>9, <1>10, <1>11 DEF AdcInv

LEMMA SetMuxKeeps ==
  ASSUME AdcInv, SetMuxABC
  PROVE  AdcInv'
<1>1. AdcType /\ Doing("mux")
  BY DEF AdcInv, SetMuxABC
<1>2. /\ todo # <<>> /\ todo \in Seq(Steps) /\ todo[1].do = "mux" /\ N = todo[1].n
      /\ Len(todo) \in Nat \ {0} /\ 1 \in 1..Len(todo)
  BY <1>1, HeadStep
<1>3. /\ cur' = cur /\ muxInput' = muxInput /\ source' = source
      /\ stream' = stream /\ buffer' = buffer /\ sum' = sum /\ pos' = pos /\ ready' = ready
      /\ last' = last /\ leftOn' = leftOn
      /\ pins' = IF muxInput = -1 THEN <<0, 0, 0>> ELSE pins
  BY DEF SetMuxABC, ringVars
<1>4. cur \in DOMAIN Channels /\ Len(last[cur]) \in Nat
  BY <1>1, LenProperties DEF AdcType
<1>5. /\ Ends(todo, cur) /\ Selects(todo, Channels[cur].input, muxInput)
      /\ IF ready[cur] THEN Filled(todo) ELSE Fills(todo, cur, Len(last[cur]))
  BY <1>2 DEF AdcInv, TodoInv
<1>6. \A k \in 1..Len(todo) : todo[k].do \notin {"A", "B", "C"}
  BY <1>2, <1>5, NoPins
<1>7. <<0, 0, 0>> \in [1..3 -> {0, 1}]
  OBVIOUS
<1>8. pins' \in [1..3 -> {0, 1}]
  BY <1>1, <1>3, <1>7 DEF AdcType
<1>9. CASE muxInput = N
  <2>1. todo' = Tail(todo)
    <3>1. todo' = <<>> \o Tail(todo)
      BY <1>9 DEF SetMuxABC
    <3>2. QED
      BY <1>2, <3>1, TailFacts, ConcatEmptySeq
  <2>2. TailStep
    BY <1>2, <1>3, <1>9, <2>1 DEF TailStep, ringVars
  <2>3. todo' \in Seq(Steps) /\ TodoInv' /\ RingInv'
    BY <2>2, TailStepKeeps
  <2>4. AdcType'
    BY <1>1, <1>3, <1>8, <2>3 DEF AdcType
  <2>5. CurrentInv'
    BY <1>2, <1>3, <2>1, TailCurrent
  <2>6. PinsAgree'
    <3>1. ASSUME todo' # <<>> PROVE Head(todo').do \notin {"A", "B", "C"}
      <4>1. Head(todo') = todo'[1] /\ Len(todo') \in Nat \ {0}
        BY <2>3, <3>1, TailFacts
      <4>2. Len(Tail(todo)) \in Nat \ {0}
        BY <2>1, <4>1
      <4>3. 1 \in 1..Len(Tail(todo))
        <5>1. \A n \in Nat \ {0} : 1 \in 1..n
          OBVIOUS
        <5>2. QED
          BY <4>2, <5>1, Zenon
      <4>4. 1 + 1 \in 2..Len(todo) /\ Tail(todo)[1] = todo[1 + 1]
        BY <1>2, <4>3, TailFacts
      <4>5. 1 + 1 \in 1..Len(todo) /\ todo'[1] = todo[1 + 1]
        BY <1>2, <2>1, <4>4
      <4>6. QED
        BY <1>6, <4>1, <4>5
    <3>2. ~Doing("A")' /\ ~Doing("B")' /\ ~Doing("C")'
      BY <3>1 DEF Doing
    <3>3. Head(todo).do = "mux"
      BY <1>1 DEF Doing
    <3>4. ~Doing("A") /\ ~Doing("B") /\ ~Doing("C")
      BY <3>3 DEF Doing
    <3>5. muxInput # -1 => Input = muxInput % 8
      BY <3>4 DEF AdcInv, PinsAgree
    <3>6. muxInput # -1 => Input' = Input
      BY <1>3 DEF Input
    <3>7. QED
      BY <1>3, <3>2, <3>5, <3>6 DEF PinsAgree
  <2>7. OwnInput'
    BY <1>3 DEF AdcInv, OwnInput
  <2>8. QED
    BY <2>3, <2>4, <2>5, <2>6, <2>7 DEF AdcInv
<1>10. CASE muxInput # N
  <2>1. todo' = Turning(todo)
    BY <1>2, <1>10 DEF SetMuxABC, Turning, Pins
  <2>2. /\ Turning(todo) \in Seq(Steps) /\ Len(Turning(todo)) = Len(todo) + 2
        /\ Turning(todo)[1] = Step("A", todo[1].n)
    BY <1>2, TurningFacts
  <2>3. AdcType'
    BY <1>1, <1>3, <1>8, <2>1, <2>2 DEF AdcType
  <2>4. TodoInv'
    <3>1. Ends(Turning(todo), cur)
      BY <1>2, <1>4, <1>5, TurningEnds
    <3>2. Selects(Turning(todo), Channels[cur].input, muxInput)
      BY <1>2, <1>5, TurningSelects
    <3>3. IF ready[cur] THEN Filled(Turning(todo))
          ELSE Fills(Turning(todo), cur, Len(last[cur]))
      <4>1. CASE ready[cur]
        BY <1>2, <1>5, <4>1, TurningFilled
      <4>2. CASE ~ready[cur]
        BY <1>2, <1>4, <1>5, <4>2, TurningFills
      <4>3. QED
        BY <4>1, <4>2
    <3>4. QED
      BY <1>3, <2>1, <3>1, <3>2, <3>3 DEF TodoInv
  <2>5. CurrentInv'
    <3>1. Len(todo') > 1
      BY <1>2, <2>1, <2>2
    <3>2. QED
      BY <1>3, <3>1 DEF AdcInv, CurrentInv
  <2>6. PinsAgree'
    <3>1. todo' # <<>> /\ todo' \in Seq(Steps)
      BY <1>2, <2>1, <2>2
    <3>2. Head(todo') = Step("A", todo[1].n)
      BY <2>1, <2>2, <3>1, TailFacts
    <3>3. Doing("A")' /\ ~Doing("B")' /\ ~Doing("C")'
      BY <3>1, <3>2 DEF Doing, Step
    <3>4. QED
      BY <3>3 DEF PinsAgree
  <2>7. RingInv'
    <3>1. todo' # <<>>
      BY <1>2, <2>1, <2>2
    <3>2. QED
      BY <1>3, <3>1 DEF AdcInv, RingInv, Filling, Turned
  <2>8. OwnInput'
    BY <1>3 DEF AdcInv, OwnInput
  <2>9. QED
    BY <2>3, <2>4, <2>5, <2>6, <2>7, <2>8 DEF AdcInv
<1>11. QED
  BY <1>9, <1>10

LEMMA SetGPIOKeeps ==
  ASSUME AdcInv, SetGPIOValue
  PROVE  AdcInv'
<1>1. PICK bit \in 1..3 :
        /\ Doing(<<"A", "B", "C">>[bit])
        /\ pins' = [pins EXCEPT ![bit] = Bits(N)[bit]]
        /\ muxInput' = IF bit = 3 THEN N ELSE muxInput
        /\ todo' = Tail(todo)
        /\ UNCHANGED <<cur, source, stream, ringVars, published, leftOn>>
  BY DEF SetGPIOValue
<1> DEFINE do == <<"A", "B", "C">>[bit]
<1>2. (bit = 1 /\ do = "A") \/ (bit = 2 /\ do = "B") \/ (bit = 3 /\ do = "C")
  <2>1. bit = 1 \/ bit = 2 \/ bit = 3
    OBVIOUS
  <2>2. QED
    BY <2>1
<1>3. Doing(do)
  BY <1>1
<1> HIDE DEF do
<1>4. AdcType
  BY DEF AdcInv
<1>5. /\ todo # <<>> /\ todo \in Seq(Steps) /\ todo[1].do = do /\ N = todo[1].n /\ N \in Int
      /\ Len(todo) \in Nat \ {0} /\ 1 \in 1..Len(todo) /\ Head(todo) = todo[1]
  BY <1>3, <1>4, HeadStep, TailFacts
<1>6. /\ cur' = cur /\ source' = source
      /\ stream' = stream /\ buffer' = buffer /\ sum' = sum /\ pos' = pos /\ ready' = ready
      /\ last' = last /\ leftOn' = leftOn /\ todo' = Tail(todo)
  BY <1>1 DEF ringVars
<1>7. cur \in DOMAIN Channels
  BY <1>4 DEF AdcType
<1>8. Ends(todo, cur) /\ Selects(todo, Channels[cur].input, muxInput)
  BY DEF AdcInv, TodoInv
<1>9. TailStep
  <2>1. todo[1].do \in {"mux", "C"} => bit = 3
    BY <1>2, <1>5
  <2>2. todo[1].do \notin {"read", "ready", "publish"}
    BY <1>2, <1>5
  <2>3. QED
    BY <1>1, <1>5, <1>6, <2>1, <2>2 DEF TailStep
<1>10. todo' \in Seq(Steps) /\ TodoInv' /\ RingInv'
  BY <1>9, TailStepKeeps
<1>11. Bits(N) \in [1..3 -> {0, 1}] /\ Bits(N)[1] + 2 * Bits(N)[2] + 4 * Bits(N)[3] = N % 8
  BY <1>5, InputBits
<1>12. AdcType'
  <2>1. pins' \in [1..3 -> {0, 1}]
    BY <1>1, <1>4, <1>11 DEF AdcType
  <2>2. muxInput' \in Int
    BY <1>1, <1>4, <1>5 DEF AdcType
  <2>3. QED
    BY <1>4, <1>6, <1>10, <2>1, <2>2 DEF AdcType
<1>13. CurrentInv'
  <2>1. todo[1].do # "off"
    BY <1>2, <1>5
  <2>2. QED
    BY <1>5, <1>6, <2>1, TailCurrent
<1>14. PinsAgree'
  <2>1. /\ \A k \in 1..Len(Tail(todo)) : Tail(todo)[k] = todo[k + 1] /\ k + 1 \in 2..Len(todo)
        /\ Len(Tail(todo)) = Len(todo) - 1
    BY <1>5, TailFacts
  <2>2. todo' # <<>> => /\ 1 \in 1..Len(Tail(todo)) /\ Head(todo') = todo[2]
                        /\ 2 \in 1..Len(todo)
    <3>1. SUFFICES ASSUME todo' # <<>>
                   PROVE  1 \in 1..Len(Tail(todo)) /\ Head(todo') = todo[2] /\ 2 \in 1..Len(todo)
      OBVIOUS
    <3>2. Head(todo') = todo'[1] /\ Len(todo') \in Nat \ {0}
      BY <1>10, <3>1, TailFacts
    <3>3. 1 \in 1..Len(Tail(todo))
      <4>1. todo' = Tail(todo)
        BY <1>6
      <4>2. Len(Tail(todo)) \in Nat \ {0}
        BY <3>2, <4>1
      <4>3. \A n \in Nat \ {0} : 1 \in 1..n
        OBVIOUS
      <4>4. QED
        BY <4>2, <4>3, Zenon
    <3>4. todo'[1] = todo[1 + 1]
      BY <1>6, <2>1, <3>3
    <3>5. QED
      BY <1>5, <2>1, <3>2, <3>3, <3>4
  <2>3. pins \in [1..3 -> {0, 1}]
    BY <1>4 DEF AdcType
  <2>4. Len(todo) > 1 => todo' # <<>>
    <3>1. Len(Tail(todo)) = Len(todo) - 1 /\ Len(todo) \in Nat
      BY <1>5, <2>1
    <3>2. Len(todo) > 1 => Tail(todo) # <<>>
      <4>1. Len(<<>>) = 0
        OBVIOUS
      <4>2. Len(todo) > 1 => Len(Tail(todo)) # 0
        <5>1. \A n \in Nat : n > 1 => n - 1 # 0
          OBVIOUS
        <5>2. QED
          BY <3>1, <5>1, Zenon
      <4>3. QED
        BY <4>1, <4>2, Zenon
    <3>3. todo' = Tail(todo)
      BY <1>6
    <3>4. QED
      BY <3>2, <3>3
  <2>5. CASE bit = 1
    <3>1. Len(todo) > 2 /\ todo[2] = Step("B", todo[1].n)
      BY <1>2, <1>5, <1>8, <2>5 DEF Selects
    <3>2. todo' # <<>> /\ Head(todo') = Step("B", N)
      <4>1. todo' # <<>>
        BY <1>5, <2>4, <3>1
      <4>2. QED
        BY <1>5, <2>2, <3>1, <4>1
    <3>3. Doing("B")' /\ ~Doing("C")' /\ N' = N
      BY <3>2 DEF Doing, Step, N
    <3>4. pins'[1] = Bits(N)[1]
      BY <1>1, <2>3, <2>5
    <3>5. Bits(N') = Bits(N)
      BY <3>3
    <3>6. QED
      BY <3>3, <3>4, <3>5 DEF PinsAgree
  <2>6. CASE bit = 2
    <3>1. todo[2] = Step("C", todo[1].n) /\ Len(todo) > 1
      BY <1>2, <1>5, <1>8, <2>6 DEF Selects
    <3>2. todo' # <<>> /\ Head(todo') = Step("C", N)
      <4>1. todo' # <<>>
        BY <1>5, <2>4, <3>1
      <4>2. QED
        BY <1>5, <2>2, <3>1, <4>1
    <3>3. Doing("C")' /\ ~Doing("B")' /\ N' = N
      BY <3>2 DEF Doing, Step, N
    <3>4. pins[1] = Bits(N)[1]
      BY <1>2, <1>3, <2>6 DEF AdcInv, PinsAgree
    <3>5. pins'[1] = Bits(N)[1] /\ pins'[2] = Bits(N)[2]
      BY <1>1, <2>3, <2>6, <3>4
    <3>6. Bits(N') = Bits(N)
      BY <3>3
    <3>7. QED
      BY <3>3, <3>5, <3>6 DEF PinsAgree
  <2>7. CASE bit = 3
    <3>1. todo' # <<>> => Head(todo').do \notin {"A", "B", "C"}
      BY <1>2, <1>5, <1>8, <2>2, <2>7 DEF Selects
    <3>2. ~Doing("A")' /\ ~Doing("B")' /\ ~Doing("C")'
      BY <3>1 DEF Doing
    <3>3. pins[1] = Bits(N)[1] /\ pins[2] = Bits(N)[2]
      BY <1>2, <1>3, <2>7 DEF AdcInv, PinsAgree
    <3>4. pins'[1] = Bits(N)[1] /\ pins'[2] = Bits(N)[2] /\ pins'[3] = Bits(N)[3]
      BY <1>1, <2>3, <2>7, <3>3
    <3>5. Input' = N % 8
      BY <1>11, <3>4 DEF Input
    <3>6. muxInput' = N
      BY <1>1, <2>7
    <3>7. QED
      BY <3>2, <3>5, <3>6 DEF PinsAgree
  <2>8. QED
    BY <1>2, <2>5, <2>6, <2>7
<1>15. OwnInput'
  BY <1>6 DEF AdcInv, OwnInput
<1>16. QED
  BY <1>10, <1>12, <1>13, <1>14, <1>15 DEF AdcInv

-----------------------------------------------------------------------------
(***************************************************************************)
(* The ring.                                                               *)
(***************************************************************************)

LEMMA FillingGoesOn ==
  ASSUME NEW z \in Nat, NEW b \in [1..z -> Items], NEW l \in Seq(Items), NEW p,
         FillingOf(b, l, p, z), Len(l) + 1 <= z, NEW v \in Items
  PROVE  FillingOf([b EXCEPT ![Len(l) + 1] = v], Append(l, v), p, z)
<1> DEFINE j == Len(l)
           l2 == Append(l, v)
           b2 == [b EXCEPT ![j + 1] = v]
<1>1. /\ j \in Nat /\ Len(l2) = j + 1 /\ l2[j + 1] = v
      /\ \A k \in 1..j : l2[k] = l[k]
  BY AppendProperties, LenProperties
<1>2. p = 0 /\ \A k \in 1..j : b[k] = l[k]
  BY DEF FillingOf
<1>3. /\ b2 \in [1..z -> Items]
      /\ \A k \in 1..z : b2[k] = IF k = j + 1 THEN v ELSE b[k]
  OBVIOUS
<1> HIDE DEF j, l2, b2
<1>4. \A k \in 1..j + 1 : b2[k] = l2[k]
  <2>1. TAKE k \in 1..j + 1
  <2>2. k \in 1..z /\ j + 1 <= z /\ (k = j + 1 \/ k \in 1..j)
    BY <1>1 DEF j
  <2>3. QED
    BY <1>1, <1>2, <1>3, <2>2
<1>5. FillingOf(b2, l2, p, z)
  BY <1>1, <1>2, <1>4 DEF FillingOf, j
<1>6. QED
  BY <1>5 DEF b2, l2, j

LEMMA FullWindow ==
  ASSUME NEW z \in Nat \ {0}, NEW b, NEW l \in Seq(Items), NEW p, FillingOf(b, l, p, z),
         z <= Len(l)
  PROVE  TurnedOf(b, l, p, z)
<1>1. Len(l) \in Nat /\ p = 0 /\ Len(l) <= z
  BY LenProperties DEF FillingOf
<1>2. Len(l) = z /\ 0 < z
  BY <1>1
<1>3. ASSUME NEW k \in 1..z
      PROVE  l[k] = b[IF 0 + k <= z THEN 0 + k ELSE 0 + k - z]
  <2>1. 0 + k = k /\ k <= z
    OBVIOUS
  <2>2. l[k] = b[k]
    BY <1>2 DEF FillingOf
  <2>3. QED
    BY <2>1, <2>2
<1>4. QED
  BY <1>1, <1>2, <1>3 DEF TurnedOf

\* The new sample takes the place of the oldest.
LEMMA RingTurns ==
  ASSUME NEW z \in Nat \ {0}, NEW b \in [1..z -> Items], NEW l \in Seq(Items), NEW p \in Nat,
         TurnedOf(b, l, p, z), NEW v \in Items
  PROVE  /\ l # <<>> /\ l[1] = b[p + 1] /\ p + 1 \in 1..z
         /\ TurnedOf([b EXCEPT ![p + 1] = v], Append(Tail(l), v), (p + 1) % z, z)
<1> DEFINE t == Tail(l)
           l2 == Append(t, v)
           b2 == [b EXCEPT ![p + 1] = v]
           p2 == (p + 1) % z
<1>1. /\ Len(l) = z /\ p < z
      /\ \A k \in 1..z : l[k] = b[IF p + k <= z THEN p + k ELSE p + k - z]
  BY DEF TurnedOf
<1>2. l # <<>> /\ p + 1 \in 1..z /\ 1 \in 1..z
  <2>1. Len(<<>>) = 0
    OBVIOUS
  <2>2. QED
    BY <1>1, <2>1
<1>3. l[1] = b[p + 1]
  BY <1>1, <1>2
<1>4. t \in Seq(Items) /\ Len(t) = z - 1 /\ \A k \in 1..z - 1 : t[k] = l[k + 1]
  BY <1>1, <1>2, HeadTailProperties
<1> HIDE DEF t
<1>5. /\ Len(l2) = z /\ l2[z] = v
      /\ \A k \in 1..z - 1 : l2[k] = l[k + 1]
  <2>1. /\ Len(l2) = Len(t) + 1 /\ l2[Len(t) + 1] = v
        /\ \A k \in 1..Len(t) : l2[k] = t[k]
    BY <1>4, AppendProperties
  <2>2. Len(t) + 1 = z
    BY <1>4
  <2> HIDE DEF l2
  <2>3. QED
    BY <1>4, <2>1, <2>2
<1>6. \A k \in 1..z : b2[k] = IF k = p + 1 THEN v ELSE b[k]
  OBVIOUS
<1>7. p2 = IF p + 1 = z THEN 0 ELSE p + 1
  BY <1>1, NextPosition
<1> HIDE DEF l2, b2, p2
<1>8. ASSUME NEW k \in 1..z
      PROVE  l2[k] = b2[IF p2 + k <= z THEN p2 + k ELSE p2 + k - z]
  <2> DEFINE i == IF p2 + k <= z THEN p2 + k ELSE p2 + k - z
  <2>1. CASE k = z
    <3>1. i = p + 1
      BY <1>1, <1>7, <2>1
    <3>2. QED
      BY <1>2, <1>5, <1>6, <2>1, <3>1
  <2>2. CASE k # z
    <3>1. k \in 1..z - 1 /\ k + 1 \in 1..z
      BY <2>2
    <3>2. /\ i = IF p + (k + 1) <= z THEN p + (k + 1) ELSE p + (k + 1) - z
          /\ i \in 1..z /\ i # p + 1
      BY <1>1, <1>7, <2>2
    <3> HIDE DEF i
    <3>3. l2[k] = b[i]
      BY <1>1, <1>5, <3>1, <3>2
    <3>4. b2[i] = b[i]
      BY <1>6, <3>2
    <3>5. QED
      BY <3>3, <3>4 DEF i
  <2>3. QED
    BY <2>1, <2>2
<1>9. p2 < z
  BY <1>1, <1>7
<1>10. TurnedOf(b2, l2, p2, z)
  BY <1>5, <1>8, <1>9 DEF TurnedOf
<1>11. QED
  BY <1>2, <1>3, <1>10 DEF b2, l2, p2, t

LEMMA TurnedWindow ==
  ASSUME NEW z \in Nat \ {0}, NEW b \in [1..z -> Items], NEW l \in Seq(Items), NEW p \in Nat,
         TurnedOf(b, l, p, z)
  PROVE  SubSeq(b, p + 1, z) \o SubSeq(b, 1, p) = l
<1> DEFINE x == SubSeq(b, p + 1, z)
           y == SubSeq(b, 1, p)
<1>1. /\ Len(l) = z /\ p < z
      /\ \A k \in 1..z : l[k] = b[IF p + k <= z THEN p + k ELSE p + k - z]
  BY DEF TurnedOf
<1>2. b \in Seq(Items) /\ Len(b) = z
  OBVIOUS
<1>3. /\ x \in Seq(Items) /\ Len(x) = z - p
      /\ \A k \in 1..z - p : x[k] = b[p + k]
  <2>1. p + 1 \in 1..z /\ z \in 0..z
    BY <1>1
  <2>2. /\ x \in Seq(Items) /\ Len(x) = IF p + 1 <= z THEN z - (p + 1) + 1 ELSE 0
        /\ \A k \in 1..z - (p + 1) + 1 : x[k] = b[(p + 1) + k - 1]
    BY <1>2, <2>1, SubSeqProperties
  <2> HIDE DEF x
  <2>3. z - (p + 1) + 1 = z - p /\ \A k \in 1..z - p : (p + 1) + k - 1 = p + k
    BY <1>1
  <2>4. QED
    BY <1>1, <2>2, <2>3
<1>4. /\ y \in Seq(Items) /\ Len(y) = p
      /\ \A k \in 1..p : y[k] = b[k]
  <2>1. /\ y \in Seq(Items) /\ Len(y) = IF 1 <= p THEN p - 1 + 1 ELSE 0
        /\ \A k \in 1..p - 1 + 1 : y[k] = b[1 + k - 1]
    BY <1>1, <1>2, SubSeqProperties
  <2> HIDE DEF y
  <2>2. p - 1 + 1 = p /\ \A k \in 1..p : 1 + k - 1 = k
    OBVIOUS
  <2>3. QED
    BY <2>1, <2>2
<1> HIDE DEF x, y
<1>5. /\ x \o y \in Seq(Items) /\ Len(x \o y) = z
      /\ \A k \in 1..z : (x \o y)[k] = IF k <= z - p THEN x[k] ELSE y[k - (z - p)]
  <2>1. /\ x \o y \in Seq(Items) /\ Len(x \o y) = Len(x) + Len(y)
        /\ \A k \in 1..Len(x) + Len(y) :
             (x \o y)[k] = IF k <= Len(x) THEN x[k] ELSE y[k - Len(x)]
    BY <1>3, <1>4, ConcatProperties
  <2>2. Len(x) = z - p /\ Len(x) + Len(y) = z
    BY <1>1, <1>3, <1>4
  <2>3. QED
    BY <2>1, <2>2
<1>6. ASSUME NEW k \in 1..z PROVE (x \o y)[k] = l[k]
  <2>1. CASE k <= z - p
    <3>1. k \in 1..z - p /\ p + k <= z
      BY <1>1, <2>1
    <3>2. QED
      BY <1>1, <1>3, <1>5, <2>1, <3>1
  <2>2. CASE ~(k <= z - p)
    <3>1. k - (z - p) \in 1..p /\ ~(p + k <= z) /\ k - (z - p) = p + k - z
      BY <1>1, <2>2
    <3>2. QED
      BY <1>1, <1>4, <1>5, <2>2, <3>1
  <2>3. QED
    BY <2>1, <2>2
<1>7. x \o y = l
  <2>1. x \o y = [k \in 1..z |-> (x \o y)[k]]
    BY <1>5, LenProperties
  <2>2. l = [k \in 1..z |-> l[k]]
    BY <1>1, LenProperties
  <2>3. QED
    BY <1>6, <2>1, <2>2
<1>8. QED
  BY <1>7 DEF x, y

-----------------------------------------------------------------------------
(***************************************************************************)
(* The other steps.                                                        *)
(***************************************************************************)

LEMMA SampleKeeps ==
  ASSUME AdcInv, Sample
  PROVE  AdcInv'
<1>1. AdcType /\ Doing("read")
  BY DEF AdcInv, Sample
<1>2. /\ todo # <<>> /\ todo \in Seq(Steps) /\ todo[1].do = "read" /\ N = todo[1].n
      /\ N \in Int /\ Len(todo) \in Nat \ {0} /\ 1 \in 1..Len(todo)
  BY <1>1, HeadStep
<1>3. /\ cur' = cur /\ muxInput' = muxInput /\ pins' = pins /\ source' = source
      /\ stream' = stream /\ ready' = ready /\ leftOn' = leftOn /\ todo' = Tail(todo)
      /\ pos' = IF ready[cur] THEN [pos EXCEPT ![cur] = (@ + 1) % Size(cur)] ELSE pos
  BY DEF Sample
<1>4. PICK v \in Reading :
        /\ buffer' = [buffer EXCEPT ![cur][RingIndex(cur)] = v]
        /\ sum' = [sum EXCEPT ![cur] =
                     @ - (IF ready[cur] THEN buffer[cur][RingIndex(cur)].value ELSE 0) + v.value]
        /\ last' = [last EXCEPT ![cur] =
                      Append(IF Len(@) = Size(cur) THEN Tail(@) ELSE @, v)]
  BY DEF Sample
<1> DEFINE z == Size(cur)
           b == buffer[cur]
           l == last[cur]
           p == pos[cur]
<1>5. /\ cur \in DOMAIN Channels /\ z \in Nat \ {0} /\ b \in [1..z -> Items]
      /\ l \in Seq(Items) /\ p \in Nat /\ sum[cur] \in Int
      /\ Len(l) \in Nat /\ ready \in [DOMAIN Channels -> BOOLEAN]
  BY <1>1, ChannelFacts, LenProperties DEF AdcType
<1>6. v \in Items /\ v.value \in Int
  <2>1. pins[1] \in Int /\ pins[2] \in Int /\ pins[3] \in Int
    BY <1>1 DEF AdcType
  <2>2. Input \in Int
    BY <2>1 DEF Input
  <2>3. v.value \in Int /\ v \in [input : Int \cup {Nothing}, value : Int]
    BY <2>2, AdcAssumption DEF Reading
  <2>4. QED
    BY <2>3 DEF Items
<1>7. stream => v.input = Channels[cur].input % 8
  <2>1. v.input = IF stream THEN Input ELSE Nothing
    BY DEF Reading
  <2>2. Selects(todo, Channels[cur].input, muxInput)
    BY DEF AdcInv, TodoInv
  <2>3. muxInput = Channels[cur].input
    BY <1>2, <2>2 DEF Selects
  <2>4. muxInput # -1
    BY <1>5, <2>3, ChannelFacts
  <2>5. Head(todo).do = "read"
    BY <1>1 DEF Doing
  <2>6. Input = muxInput % 8
    BY <2>4, <2>5 DEF AdcInv, PinsAgree, Doing
  <2>7. QED
    BY <2>1, <2>3, <2>6
<1>8. /\ Ends(todo, cur) /\ Selects(todo, Channels[cur].input, muxInput)
      /\ IF ready[cur] THEN Filled(todo) ELSE Fills(todo, cur, Len(l))
  BY <1>2 DEF AdcInv, TodoInv
<1>9. sum[cur] = Total(l) /\ IF ready[cur] THEN TurnedOf(b, l, p, z) ELSE FillingOf(b, l, p, z)
  BY <1>5 DEF AdcInv, RingInv, Turned, Filling
\* What becomes of the ring of the channel.
<1> DEFINE b2 == buffer'[cur]
           l2 == last'[cur]
           p2 == pos'[cur]
<1>10. /\ b2 \in [1..z -> Items] /\ l2 \in Seq(Items) /\ p2 \in Nat
       /\ sum'[cur] = Total(l2) /\ sum'[cur] \in Int
       /\ IF ready[cur] THEN TurnedOf(b2, l2, p2, z) /\ Filled(Tail(todo))
          ELSE FillingOf(b2, l2, p2, z) /\ Fills(Tail(todo), cur, Len(l2))
       /\ \A k \in DOMAIN l2 : l2[k] = v \/ \E m \in DOMAIN l : l2[k] = l[m]
  <2>1. CASE ready[cur]
    <3>1. TurnedOf(b, l, p, z)
      BY <1>9, <2>1
    <3>2. /\ l # <<>> /\ l[1] = b[p + 1] /\ p + 1 \in 1..z /\ Len(l) = z
          /\ TurnedOf([b EXCEPT ![p + 1] = v], Append(Tail(l), v), (p + 1) % z, z)
      <4>1. /\ l # <<>> /\ l[1] = b[p + 1] /\ p + 1 \in 1..z
            /\ TurnedOf([b EXCEPT ![p + 1] = v], Append(Tail(l), v), (p + 1) % z, z)
        BY <1>5, <1>6, <3>1, RingTurns
      <4>2. Len(l) = z
        BY <3>1 DEF TurnedOf
      <4>3. QED
        BY <4>1, <4>2
    <3>3. RingIndex(cur) = p + 1
      BY <2>1 DEF RingIndex
    <3>4. b2 = [b EXCEPT ![p + 1] = v]
      BY <1>1, <1>4, <1>5, <3>3 DEF AdcType
    <3>5. l2 = Append(Tail(l), v)
      BY <1>1, <1>4, <1>5, <3>2 DEF AdcType
    <3>6. p2 = (p + 1) % z
      BY <1>1, <1>3, <1>5, <2>1 DEF AdcType
    <3>7. sum'[cur] = sum[cur] - b[p + 1].value + v.value
      BY <1>1, <1>4, <1>5, <2>1, <3>3 DEF AdcType
    <3>8. Tail(l) \in Seq(Items) /\ Len(Tail(l)) = z - 1 /\ \A k \in 1..z - 1 : Tail(l)[k] = l[k + 1]
      BY <1>5, <3>2, HeadTailProperties
    <3>9. /\ Append(Tail(l), v) \in Seq(Items) /\ Len(Append(Tail(l), v)) = z
          /\ Append(Tail(l), v)[z] = v
          /\ \A k \in 1..z - 1 : Append(Tail(l), v)[k] = l[k + 1]
      <4>1. /\ Append(Tail(l), v) \in Seq(Items)
            /\ Len(Append(Tail(l), v)) = Len(Tail(l)) + 1
            /\ Append(Tail(l), v)[Len(Tail(l)) + 1] = v
            /\ \A k \in 1..Len(Tail(l)) : Append(Tail(l), v)[k] = Tail(l)[k]
        BY <1>6, <3>8, AppendProperties
      <4>2. Len(Tail(l)) + 1 = z
        BY <1>5, <3>8
      <4>3. QED
        BY <3>8, <4>1, <4>2
    <3>10. /\ Total(Append(Tail(l), v)) = Total(Tail(l)) + v.value
           /\ Total(Tail(l)) = Total(l) - l[1].value /\ Total(l) \in Int
           /\ Total(Tail(l)) \in Int
      BY <1>5, <1>6, <3>2, <3>8, TotalAppend, TotalTail
    <3>11. l[1].value \in Int
      <4>1. 1 \in 1..Len(l)
        BY <1>5, <3>2
      <4>2. QED
        BY <1>5, <4>1, ItemsOf
    <3>12. sum'[cur] = Total(l2) /\ sum'[cur] \in Int
      BY <1>6, <1>9, <3>2, <3>5, <3>7, <3>10, <3>11
    <3>13. b2 \in [1..z -> Items] /\ p2 \in Nat
      <4>1. p2 \in Nat
        BY <1>5, <3>6
      <4>2. QED
        BY <1>5, <1>6, <3>4, <4>1
    <3>14. Filled(Tail(todo))
      BY <1>2, <1>8, <2>1, TailFilled
    <3>15. ASSUME NEW k \in DOMAIN l2 PROVE l2[k] = v \/ \E m \in DOMAIN l : l2[k] = l[m]
      <4>1. k \in 1..z /\ DOMAIN l = 1..z
        BY <1>5, <3>2, <3>5, <3>9, LenProperties
      <4>2. CASE k = z
        BY <3>5, <3>9, <4>2
      <4>3. CASE k # z
        <5>1. k \in 1..z - 1 /\ k + 1 \in 1..z
          BY <1>5, <4>1, <4>3
        <5>2. l2[k] = l[k + 1]
          BY <3>5, <3>9, <5>1
        <5>3. QED
          BY <4>1, <5>1, <5>2
      <4>4. QED
        BY <4>2, <4>3
    <3>16. TurnedOf(b2, l2, p2, z)
      BY <3>2, <3>4, <3>5, <3>6
    <3>17. l2 \in Seq(Items)
      BY <3>5, <3>9
    <3> HIDE DEF b2, l2, p2, z, b, l, p
    <3>18. QED
      BY <2>1, <3>12, <3>13, <3>14, <3>15, <3>16, <3>17
  <2>2. CASE ~ready[cur]
    <3>1. FillingOf(b, l, p, z) /\ Fills(todo, cur, Len(l))
      BY <1>8, <1>9, <2>2
    <3>2. N = Len(l) + 1 /\ Len(l) + 1 <= z /\ Fills(Tail(todo), cur, Len(l) + 1)
      BY <1>2, <1>5, <3>1, ReadFills
    <3>3. RingIndex(cur) = Len(l) + 1
      BY <2>2, <3>2 DEF RingIndex
    <3>4. b2 = [b EXCEPT ![Len(l) + 1] = v]
      BY <1>1, <1>4, <1>5, <3>3 DEF AdcType
    <3>5. l2 = Append(l, v)
      <4>1. Len(l) # z
        BY <1>5, <3>2
      <4>2. QED
        BY <1>1, <1>4, <1>5, <4>1 DEF AdcType
    <3>6. p2 = p
      BY <1>3, <2>2
    <3>7. sum'[cur] = sum[cur] - 0 + v.value
      BY <1>1, <1>4, <1>5, <2>2 DEF AdcType
    <3>8. /\ Append(l, v) \in Seq(Items) /\ Len(Append(l, v)) = Len(l) + 1
          /\ Append(l, v)[Len(l) + 1] = v /\ \A k \in 1..Len(l) : Append(l, v)[k] = l[k]
      BY <1>5, <1>6, AppendProperties
    <3>9. Total(Append(l, v)) = Total(l) + v.value /\ Total(l) \in Int
      BY <1>5, <1>6, TotalAppend
    <3>10. sum'[cur] = Total(l2) /\ sum'[cur] \in Int
      BY <1>6, <1>9, <3>5, <3>7, <3>9
    <3>11. FillingOf(b2, l2, p2, z)
      <4>1. FillingOf([b EXCEPT ![Len(l) + 1] = v], Append(l, v), p, z)
        BY <1>5, <1>6, <3>1, <3>2, FillingGoesOn
      <4>2. QED
        BY <3>4, <3>5, <3>6, <4>1
    <3>12. b2 \in [1..z -> Items] /\ p2 \in Nat
      BY <1>5, <1>6, <3>4, <3>6
    <3>13. ASSUME NEW k \in DOMAIN l2 PROVE l2[k] = v \/ \E m \in DOMAIN l : l2[k] = l[m]
      <4>1. k \in 1..Len(l) + 1 /\ DOMAIN l = 1..Len(l)
        BY <1>5, <3>5, <3>8, LenProperties
      <4>2. CASE k = Len(l) + 1
        BY <3>5, <3>8, <4>2
      <4>3. CASE k # Len(l) + 1
        <5>1. k \in 1..Len(l)
          BY <1>5, <4>1, <4>3
        <5>2. QED
          BY <3>5, <3>8, <4>1, <5>1
      <4>4. QED
        BY <4>2, <4>3
    <3>14. l2 \in Seq(Items) /\ Fills(Tail(todo), cur, Len(l2))
      BY <3>2, <3>5, <3>8
    <3> HIDE DEF b2, l2, p2, z, b, l, p
    <3>15. QED
      BY <2>2, <3>10, <3>11, <3>12, <3>13, <3>14
  <2>3. QED
    BY <2>1, <2>2
<1>11. \A c \in DOMAIN Channels : c # cur =>
         /\ buffer'[c] = buffer[c] /\ sum'[c] = sum[c] /\ pos'[c] = pos[c] /\ last'[c] = last[c]
  BY <1>1, <1>3, <1>4, <1>5 DEF AdcType
<1>12. /\ DOMAIN buffer' = DOMAIN Channels /\ DOMAIN last' = DOMAIN Channels
       /\ DOMAIN sum' = DOMAIN Channels /\ DOMAIN pos' = DOMAIN Channels
       /\ sum' = [c \in DOMAIN Channels |-> sum'[c]] /\ pos' = [c \in DOMAIN Channels |-> pos'[c]]
  BY <1>1, <1>3, <1>4 DEF AdcType
<1>13. Tail(todo) \in Seq(Steps)
  BY <1>2, TailFacts
<1>14. AdcType'
  <2>1. \A c \in DOMAIN Channels : sum'[c] \in Int /\ pos'[c] \in Nat
    BY <1>1, <1>10, <1>11 DEF AdcType
  <2>2. sum' \in [DOMAIN Channels -> Int] /\ pos' \in [DOMAIN Channels -> Nat]
    BY <1>12, <2>1
  <2>3. ASSUME NEW c \in DOMAIN Channels
        PROVE  buffer'[c] \in [1..Size(c) -> Items] /\ last'[c] \in Seq(Items)
    <3>1. CASE c = cur
      BY <1>10, <3>1
    <3>2. CASE c # cur
      BY <1>1, <1>11, <3>2 DEF AdcType
    <3>3. QED
      BY <3>1, <3>2
  <2>4. QED
    BY <1>1, <1>3, <1>12, <1>13, <2>2, <2>3 DEF AdcType
<1>15. TodoInv'
  <2>1. Ends(Tail(todo), cur)
    BY <1>2, <1>5, <1>8, TailEnds
  <2>2. Selects(Tail(todo), Channels[cur].input, muxInput)
    BY <1>2, <1>8, TailSelects
  <2>3. IF ready[cur] THEN Filled(Tail(todo)) ELSE Fills(Tail(todo), cur, Len(last'[cur]))
    BY <1>10
  <2>4. QED
    BY <1>3, <2>1, <2>2, <2>3 DEF TodoInv
<1>16. CurrentInv'
  BY <1>2, <1>3, TailCurrent
<1>17. PinsAgree'
  BY <1>2, <1>3, TailPins
<1>18. RingInv'
  <2>1. ASSUME NEW c \in DOMAIN Channels
        PROVE  /\ sum'[c] = Total(last'[c])
               /\ IF ready[c] THEN TurnedOf(buffer'[c], last'[c], pos'[c], Size(c))
                  ELSE FillingOf(buffer'[c], last'[c], pos'[c], Size(c))
               /\ ~ready[c] /\ (c # cur \/ Tail(todo) = <<>>) => last'[c] = <<>>
    <3>1. CASE c = cur
      <4>1. ASSUME ~ready[cur] PROVE Tail(todo) # <<>>
        <5>1. Len(Tail(todo)) > Ending(cur)
          BY <1>10, <4>1 DEF Fills
        <5>2. Len(Tail(todo)) > 0
          BY <1>5, <1>13, <5>1, ChannelFacts, LenProperties
        <5>3. Len(<<>>) = 0 /\ ~(0 > 0)
          OBVIOUS
        <5>4. QED
          BY <5>2, <5>3, Zenon
      <4>2. QED
        BY <1>10, <3>1, <4>1
    <3>2. CASE c # cur
      <4>1. /\ sum[c] = Total(last[c]) /\ IF ready[c] THEN Turned(c) ELSE Filling(c)
            /\ ~ready[c] => last[c] = <<>>
        BY <3>2 DEF AdcInv, RingInv
      <4>2. QED
        BY <1>11, <3>2, <4>1 DEF Turned, Filling
    <3>3. QED
      BY <3>1, <3>2
  <2>2. QED
    BY <1>3, <2>1 DEF RingInv, Turned, Filling
<1>19. OwnInput'
  <2>1. SUFFICES ASSUME stream, NEW c \in DOMAIN Channels, NEW k \in DOMAIN last'[c]
                 PROVE  last'[c][k].input = Channels[c].input % 8
    BY <1>3 DEF OwnInput
  <2>2. \A m \in DOMAIN last[c] : last[c][m].input = Channels[c].input % 8
    BY <2>1 DEF AdcInv, OwnInput
  <2>3. CASE c = cur
    <3>1. last'[c][k] = v \/ \E m \in DOMAIN last[c] : last'[c][k] = last[c][m]
      BY <1>10, <2>3
    <3>2. QED
      BY <1>7, <2>1, <2>2, <2>3, <3>1
  <2>4. CASE c # cur
    BY <1>11, <2>2, <2>4
  <2>5. QED
    BY <2>3, <2>4
<1>20. QED
  BY <1>14, <1>15, <1>16, <1>17, <1>18, <1>19 DEF AdcInv

LEMMA WindowFullKeeps ==
  ASSUME AdcInv, WindowFull
  PROVE  AdcInv'
<1>1. AdcType /\ Doing("ready")
  BY DEF AdcInv, WindowFull
<1>2. /\ todo # <<>> /\ todo \in Seq(Steps) /\ todo[1].do = "ready"
      /\ Len(todo) \in Nat \ {0} /\ 1 \in 1..Len(todo)
  BY <1>1, HeadStep
<1>3. /\ cur' = cur /\ muxInput' = muxInput /\ pins' = pins /\ source' = source
      /\ stream' = stream /\ buffer' = buffer /\ sum' = sum /\ pos' = pos /\ last' = last
      /\ leftOn' = leftOn /\ todo' = Tail(todo) /\ ready' = [ready EXCEPT ![cur] = TRUE]
  BY DEF WindowFull
<1>4. /\ cur \in DOMAIN Channels /\ Size(cur) \in Nat \ {0} /\ last[cur] \in Seq(Items)
      /\ Len(last[cur]) \in Nat /\ ready \in [DOMAIN Channels -> BOOLEAN]
  BY <1>1, ChannelFacts, LenProperties DEF AdcType
<1>5. /\ Ends(todo, cur) /\ Selects(todo, Channels[cur].input, muxInput)
      /\ IF ready[cur] THEN Filled(todo) ELSE Fills(todo, cur, Len(last[cur]))
  BY <1>2 DEF AdcInv, TodoInv
<1>6. ~ready[cur]
  BY <1>2, <1>5 DEF Filled
<1>7. Size(cur) <= Len(last[cur]) /\ Filled(Tail(todo))
  BY <1>2, <1>4, <1>5, <1>6, ReadyFills
<1>8. ready'[cur] = TRUE /\ \A c \in DOMAIN Channels : c # cur => ready'[c] = ready[c]
  BY <1>3, <1>4
<1>9. AdcType'
  <2>1. Tail(todo) \in Seq(Steps)
    BY <1>2, TailFacts
  <2>2. ready' \in [DOMAIN Channels -> BOOLEAN]
    BY <1>3, <1>4
  <2>3. QED
    BY <1>1, <1>3, <2>1, <2>2 DEF AdcType
<1>10. TodoInv'
  <2>1. Ends(Tail(todo), cur)
    BY <1>2, <1>4, <1>5, TailEnds
  <2>2. Selects(Tail(todo), Channels[cur].input, muxInput)
    BY <1>2, <1>5, TailSelects
  <2>3. QED
    BY <1>3, <1>7, <1>8, <2>1, <2>2 DEF TodoInv
<1>11. CurrentInv'
  BY <1>2, <1>3, TailCurrent
<1>12. PinsAgree'
  BY <1>2, <1>3, TailPins
<1>13. RingInv'
  <2>1. ASSUME NEW c \in DOMAIN Channels
        PROVE  /\ sum[c] = Total(last[c])
               /\ IF ready'[c] THEN Turned(c) ELSE Filling(c)
               /\ ~ready'[c] => last[c] = <<>>
    <3>1. /\ sum[c] = Total(last[c]) /\ IF ready[c] THEN Turned(c) ELSE Filling(c)
          /\ ~ready[c] /\ c # cur => last[c] = <<>>
      BY DEF AdcInv, RingInv
    <3>2. CASE c = cur
      <4>1. Turned(cur)
        BY <1>4, <1>6, <1>7, <3>1, <3>2, FullWindow DEF Filling, Turned
      <4>2. QED
        BY <1>8, <3>1, <3>2, <4>1
    <3>3. CASE c # cur
      BY <1>8, <3>1, <3>3
    <3>4. QED
      BY <3>2, <3>3
  <2>2. QED
    BY <1>3, <2>1 DEF RingInv, Turned, Filling
<1>14. OwnInput'
  BY <1>3 DEF AdcInv, OwnInput
<1>15. QED
  BY <1>9, <1>10, <1>11, <1>12, <1>13, <1>14 DEF AdcInv

LEMMA SetUpKeeps ==
  ASSUME AdcInv, SetUpCurrentSource
  PROVE  AdcInv'
<1>1. AdcType /\ Doing("on")
  BY DEF AdcInv, SetUpCurrentSource
<1>2. /\ todo # <<>> /\ todo \in Seq(Steps) /\ todo[1].do = "on"
      /\ Len(todo) \in Nat \ {0} /\ 1 \in 1..Len(todo)
  BY <1>1, HeadStep
<1>3. /\ cur' = cur /\ muxInput' = muxInput /\ pins' = pins /\ source' = TRUE
      /\ stream' = stream /\ buffer' = buffer /\ sum' = sum /\ pos' = pos /\ last' = last
      /\ leftOn' = leftOn /\ todo' = Tail(todo) /\ ready' = ready
  BY DEF SetUpCurrentSource, ringVars
<1>4. todo' \in Seq(Steps) /\ TodoInv' /\ RingInv'
  <2>1. TailStep
    BY <1>2, <1>3 DEF TailStep, ringVars
  <2>2. QED
    BY <2>1, TailStepKeeps
<1>5. AdcType'
  BY <1>1, <1>3, <1>4 DEF AdcType
<1>6. CurrentInv'
  <2>1. Ends(todo, cur)
    BY DEF AdcInv, TodoInv
  <2>2. Channels[cur].resistive /\ After(todo, 1) > 2
    BY <1>2, <2>1 DEF Ends
  <2>3. Len(Tail(todo)) = Len(todo) - 1
    BY <1>2, TailFacts
  <2>4. Len(todo) - 1 > 1
    BY <1>2, <2>2 DEF After
  <2>5. QED
    BY <1>3, <2>2, <2>3, <2>4 DEF CurrentInv
<1>7. PinsAgree'
  BY <1>2, <1>3, TailPins
<1>8. OwnInput'
  BY <1>3 DEF AdcInv, OwnInput
<1>9. QED
  BY <1>4, <1>5, <1>6, <1>7, <1>8 DEF AdcInv

LEMMA SwitchOffKeeps ==
  ASSUME AdcInv, SwitchOffCurrentSource
  PROVE  AdcInv'
<1>1. AdcType /\ Doing("off")
  BY DEF AdcInv, SwitchOffCurrentSource
<1>2. todo # <<>> /\ todo \in Seq(Steps) /\ todo[1].do = "off"
  BY <1>1, HeadStep
<1>3. /\ cur' = cur /\ muxInput' = muxInput /\ pins' = pins /\ source' = FALSE
      /\ stream' = stream /\ buffer' = buffer /\ sum' = sum /\ pos' = pos /\ last' = last
      /\ leftOn' = FALSE /\ todo' = Tail(todo) /\ ready' = ready
  BY DEF SwitchOffCurrentSource, ringVars
<1>4. todo' \in Seq(Steps) /\ TodoInv' /\ RingInv'
  <2>1. TailStep
    BY <1>2, <1>3 DEF TailStep, ringVars
  <2>2. QED
    BY <2>1, TailStepKeeps
<1>5. AdcType'
  BY <1>1, <1>3, <1>4 DEF AdcType
<1>6. CurrentInv'
  BY <1>3 DEF CurrentInv
<1>7. PinsAgree'
  BY <1>2, <1>3, TailPins
<1>8. OwnInput'
  BY <1>3 DEF AdcInv, OwnInput
<1>9. QED
  BY <1>4, <1>5, <1>6, <1>7, <1>8 DEF AdcInv

LEMMA NoTodo ==
  ASSUME NEW c, NEW i, NEW s
  PROVE  Ends(<<>>, c) /\ Selects(<<>>, i, s)
<1>1. Len(<<>>) = 0 /\ \A k \in 1..0 : FALSE
  OBVIOUS
<1>2. QED
  BY <1>1 DEF Ends, Selects

LEMMA PublishKeeps ==
  ASSUME AdcInv, PublishAverage
  PROVE  AdcInv'
<1>1. AdcType /\ Doing("publish")
  BY DEF AdcInv, PublishAverage
<1>2. /\ todo # <<>> /\ todo \in Seq(Steps) /\ todo[1].do = "publish"
      /\ Len(todo) \in Nat \ {0} /\ 1 \in 1..Len(todo)
  BY <1>1, HeadStep
<1>3. /\ cur' = (cur % Len(Channels)) + 1 /\ muxInput' = muxInput /\ pins' = pins
      /\ source' = source /\ stream' = stream /\ buffer' = buffer /\ sum' = sum
      /\ pos' = pos /\ last' = last /\ leftOn' = leftOn /\ todo' = Tail(todo) /\ ready' = ready
  BY DEF PublishAverage, ringVars
<1>4. cur \in DOMAIN Channels /\ Ending(cur) \in Nat \ {0}
  BY <1>1, ChannelFacts DEF AdcType
<1>5. /\ Ends(todo, cur)
      /\ IF ready[cur] THEN Filled(todo) ELSE Fills(todo, cur, Len(last[cur]))
  BY <1>2 DEF AdcInv, TodoInv
<1>6. Len(todo) = 1
  <2>1. After(todo, 1) = 0
    BY <1>2, <1>5 DEF Ends
  <2>2. QED
    BY <1>2, <2>1 DEF After
<1>7. Tail(todo) = <<>>
  <2>1. Tail(todo) \in Seq(Steps) /\ Len(Tail(todo)) = Len(todo) - 1
    BY <1>2, TailFacts
  <2>2. 1 - 1 = 0
    OBVIOUS
  <2>3. Len(Tail(todo)) = 0
    BY <1>6, <2>1, <2>2, Zenon
  <2>4. QED
    BY <2>1, <2>3, EmptySeq
<1>8. ready[cur]
  <2>1. SUFFICES ASSUME ~ready[cur] PROVE FALSE
    OBVIOUS
  <2>2. Len(todo) > Ending(cur)
    BY <1>5, <2>1 DEF Fills
  <2>3. QED
    BY <1>4, <1>6, <2>2
<1>9. cur' \in DOMAIN Channels
  <2>1. Len(Channels) \in Nat \ {0} /\ DOMAIN Channels = 1..Len(Channels)
    BY AdcAssumption, EmptySeq, LenProperties
  <2>2. \A n \in Nat \ {0}, k \in Nat : (k % n) + 1 \in 1..n
    OBVIOUS
  <2>3. QED
    BY <1>3, <1>4, <2>1, <2>2
<1>10. AdcType'
  <2>1. <<>> \in Seq(Steps)
    OBVIOUS
  <2>2. QED
    BY <1>1, <1>3, <1>7, <1>9, <2>1 DEF AdcType
<1>11. TodoInv'
  BY <1>3, <1>7, NoTodo DEF TodoInv
<1>12. CurrentInv'
  BY <1>3, <1>6 DEF AdcInv, CurrentInv
<1>13. PinsAgree'
  BY <1>2, <1>3, TailPins
<1>14. RingInv'
  <2>1. \A c \in DOMAIN Channels : ~ready[c] => last[c] = <<>>
    BY <1>8 DEF AdcInv, RingInv
  <2>2. QED
    BY <1>3, <2>1 DEF AdcInv, RingInv, Filling, Turned
<1>15. OwnInput'
  BY <1>3 DEF AdcInv, OwnInput
<1>16. QED
  BY <1>10, <1>11, <1>12, <1>13, <1>14, <1>15 DEF AdcInv

LEMMA ErrorKeeps ==
  ASSUME AdcInv, ReadError
  PROVE  AdcInv'
<1>1. /\ stream' = FALSE /\ todo' = todo /\ cur' = cur /\ muxInput' = muxInput
      /\ pins' = pins /\ source' = source /\ buffer' = buffer /\ sum' = sum /\ pos' = pos
      /\ ready' = ready /\ last' = last /\ leftOn' = leftOn
  BY DEF ReadError, ringVars
<1>2. AdcType' /\ TodoInv' /\ CurrentInv'
  BY <1>1 DEF AdcInv, AdcType, TodoInv, CurrentInv
<1>3. PinsAgree'
  BY <1>1 DEF AdcInv, PinsAgree, Doing, N, Input
<1>4. RingInv'
  BY <1>1 DEF AdcInv, RingInv, Filling, Turned
<1>5. OwnInput'
  BY <1>1 DEF OwnInput
<1>6. QED
  BY <1>2, <1>3, <1>4, <1>5 DEF AdcInv

LEMMA UnchangedKeeps ==
  ASSUME AdcInv, UNCHANGED adcVars
  PROVE  AdcInv'
<1>1. /\ stream' = stream /\ todo' = todo /\ cur' = cur /\ muxInput' = muxInput
      /\ pins' = pins /\ source' = source /\ buffer' = buffer /\ sum' = sum /\ pos' = pos
      /\ ready' = ready /\ last' = last /\ leftOn' = leftOn
  BY DEF adcVars, ringVars
<1>2. AdcType' /\ TodoInv' /\ CurrentInv'
  BY <1>1 DEF AdcInv, AdcType, TodoInv, CurrentInv
<1>3. PinsAgree'
  BY <1>1 DEF AdcInv, PinsAgree, Doing, N, Input
<1>4. RingInv'
  BY <1>1 DEF AdcInv, RingInv, Filling, Turned
<1>5. OwnInput'
  BY <1>1 DEF AdcInv, OwnInput
<1>6. QED
  BY <1>2, <1>3, <1>4, <1>5 DEF AdcInv

\* What the constructors make of the state.
LEMMA FreshRings ==
  /\ \A c \in DOMAIN Channels : Buffers[c] \in [1..Size(c) -> Items]
  /\ DOMAIN Buffers = DOMAIN Channels
  /\ OfEach(0) \in [DOMAIN Channels -> Nat] /\ OfEach(0) \in [DOMAIN Channels -> Int]
  /\ OfEach(FALSE) \in [DOMAIN Channels -> BOOLEAN]
  /\ DOMAIN OfEach(<<>>) = DOMAIN Channels /\ 1 \in DOMAIN Channels
  /\ \A c \in DOMAIN Channels :
       /\ OfEach(<<>>)[c] = <<>> /\ OfEach(0)[c] = 0 /\ OfEach(FALSE)[c] = FALSE
       /\ FillingOf(Buffers[c], <<>>, 0, Size(c)) /\ Total(<<>>) = 0
       /\ <<>> \in Seq(Items) /\ Size(c) \in Nat
<1>1. Zero \in Items
  BY DEF Zero, Items
<1>2. \A c \in DOMAIN Channels : Buffers[c] = [k \in 1..Size(c) |-> Zero]
  BY DEF Buffers
<1>3. DOMAIN Buffers = DOMAIN Channels
  BY DEF Buffers
<1>4. 1 \in DOMAIN Channels
  <2>1. Len(Channels) \in Nat \ {0} /\ DOMAIN Channels = 1..Len(Channels)
    BY AdcAssumption, EmptySeq, LenProperties
  <2>2. QED
    BY <2>1
<1>5. /\ OfEach(0) \in [DOMAIN Channels -> Nat] /\ OfEach(0) \in [DOMAIN Channels -> Int]
      /\ OfEach(FALSE) \in [DOMAIN Channels -> BOOLEAN]
      /\ DOMAIN OfEach(<<>>) = DOMAIN Channels
  BY DEF OfEach
<1>6. ASSUME NEW c \in DOMAIN Channels
      PROVE  /\ OfEach(<<>>)[c] = <<>> /\ OfEach(0)[c] = 0 /\ OfEach(FALSE)[c] = FALSE
             /\ FillingOf(Buffers[c], <<>>, 0, Size(c)) /\ Total(<<>>) = 0
             /\ <<>> \in Seq(Items) /\ Size(c) \in Nat
  <2>1. OfEach(<<>>)[c] = <<>> /\ OfEach(0)[c] = 0 /\ OfEach(FALSE)[c] = FALSE
    BY DEF OfEach
  <2>2. FillingOf(Buffers[c], <<>>, 0, Size(c))
    <3>1. Len(<<>>) = 0 /\ \A k \in 1..0 : FALSE
      OBVIOUS
    <3>2. Size(c) \in Nat
      BY ChannelFacts
    <3>3. QED
      BY <3>1, <3>2 DEF FillingOf
  <2>3. <<>> \in Seq(Items)
    OBVIOUS
  <2>4. QED
    BY <2>1, <2>2, <2>3, ChannelFacts, TotalEmpty
<1>7. QED
  BY <1>1, <1>2, <1>3, <1>4, <1>5, <1>6

LEMMA InitKeeps ==
  ASSUME AdcInit
  PROVE  AdcInv
<1>1. /\ todo = <<>> /\ cur = 1 /\ muxInput = -1 /\ stream = TRUE
      /\ buffer = Buffers /\ sum = OfEach(0) /\ pos = OfEach(0) /\ ready = OfEach(FALSE)
      /\ last = OfEach(<<>>) /\ pins = <<0, 0, 0>> /\ source = FALSE /\ leftOn = FALSE
  BY DEF AdcInit
<1>2. AdcType
  <2>1. <<>> \in Seq(Steps) /\ <<0, 0, 0>> \in [1..3 -> {0, 1}] /\ -1 \in Int
    OBVIOUS
  <2>2. TRUE \in BOOLEAN /\ FALSE \in BOOLEAN
    BY Zenon
  <2>3. \A c \in DOMAIN Channels : last[c] \in Seq(Items) /\ buffer[c] \in [1..Size(c) -> Items]
    BY <1>1, FreshRings
  <2>4. QED
    BY <1>1, <2>1, <2>2, <2>3, FreshRings DEF AdcType
<1>3. TodoInv
  BY <1>1, NoTodo DEF TodoInv
<1>4. CurrentInv
  BY <1>1 DEF CurrentInv
<1>5. PinsAgree
  BY <1>1 DEF PinsAgree, Doing
<1>6. RingInv
  BY <1>1, FreshRings DEF RingInv, Filling
<1>7. OwnInput
  <2>1. DOMAIN <<>> = {}
    OBVIOUS
  <2>2. QED
    BY <1>1, <2>1, FreshRings DEF OwnInput
<1>8. QED
  BY <1>2, <1>3, <1>4, <1>5, <1>6, <1>7 DEF AdcInv

LEMMA RestartKeeps ==
  ASSUME AdcInv, AdcRestart
  PROVE  AdcInv'
<1>1. /\ todo' = <<>> /\ cur' = 1 /\ muxInput' = -1 /\ stream' = TRUE
      /\ buffer' = Buffers /\ sum' = OfEach(0) /\ pos' = OfEach(0) /\ ready' = OfEach(FALSE)
      /\ last' = OfEach(<<>>) /\ pins' = pins /\ source' = source /\ leftOn' = source
  BY DEF AdcRestart
<1>2. AdcType'
  <2>1. <<>> \in Seq(Steps) /\ -1 \in Int
    OBVIOUS
  <2>2. stream' \in BOOLEAN
    BY <1>1, Zenon
  <2>3. \A c \in DOMAIN Channels :
          last'[c] \in Seq(Items) /\ buffer'[c] \in [1..Size(c) -> Items]
    BY <1>1, FreshRings
  <2>4. pins \in [1..3 -> {0, 1}] /\ source \in BOOLEAN
    BY DEF AdcInv, AdcType
  <2>5. QED
    BY <1>1, <2>1, <2>2, <2>3, <2>4, FreshRings DEF AdcType
<1>3. TodoInv'
  BY <1>1, NoTodo DEF TodoInv
<1>4. CurrentInv'
  BY <1>1 DEF CurrentInv
<1>5. PinsAgree'
  BY <1>1 DEF PinsAgree, Doing
<1>6. RingInv'
  BY <1>1, FreshRings DEF RingInv, Filling
<1>7. OwnInput'
  <2>1. DOMAIN <<>> = {}
    OBVIOUS
  <2>2. QED
    BY <1>1, <2>1, FreshRings DEF OwnInput
<1>8. QED
  BY <1>2, <1>3, <1>4, <1>5, <1>6, <1>7 DEF AdcInv

THEOREM AdcInvariant == AdcSpec => []AdcInv
<1>1. AdcInit => AdcInv
  BY InitKeeps
<1>2. AdcInv /\ [AdcNext]_adcVars => AdcInv'
  <2>1. SUFFICES ASSUME AdcInv, [AdcNext]_adcVars PROVE AdcInv'
    OBVIOUS
  <2>2. CASE BeginChannel
    BY <2>1, <2>2, BeginKeeps
  <2>3. CASE SetMuxABC
    BY <2>1, <2>3, SetMuxKeeps
  <2>4. CASE SetGPIOValue
    BY <2>1, <2>4, SetGPIOKeeps
  <2>5. CASE Sample
    BY <2>1, <2>5, SampleKeeps
  <2>6. CASE WindowFull
    BY <2>1, <2>6, WindowFullKeeps
  <2>7. CASE SetUpCurrentSource
    BY <2>1, <2>7, SetUpKeeps
  <2>8. CASE SwitchOffCurrentSource
    BY <2>1, <2>8, SwitchOffKeeps
  <2>9. CASE PublishAverage
    BY <2>1, <2>9, PublishKeeps
  <2>10. CASE ReadError
    BY <2>1, <2>10, ErrorKeeps
  <2>11. CASE AdcRestart
    BY <2>1, <2>11, RestartKeeps
  <2>12. CASE UNCHANGED adcVars
    BY <2>1, <2>12, UnchangedKeeps
  <2>13. QED
    BY <2>1, <2>2, <2>3, <2>4, <2>5, <2>6, <2>7, <2>8, <2>9, <2>10, <2>11, <2>12 DEF AdcNext
<1>3. QED
  BY <1>1, <1>2, PTL DEF AdcSpec

\* The ring of a channel that is ready holds its last samples in their order, the oldest
\* at the position that is overwritten next, and its sum is theirs: at every single reading,
\* for windows of any size and any end of the process.
THEOREM RingIsTheWindow == AdcSpec => []RingIsWindow
<1>1. AdcInv => RingIsWindow
  <2>1. SUFFICES ASSUME AdcInv, NEW c \in DOMAIN Channels, ready[c]
                 PROVE  /\ SubSeq(buffer[c], pos[c] + 1, Size(c)) \o SubSeq(buffer[c], 1, pos[c])
                             = last[c]
                        /\ sum[c] = Total(last[c])
    BY DEF RingIsWindow
  <2>2. TurnedOf(buffer[c], last[c], pos[c], Size(c)) /\ sum[c] = Total(last[c])
    BY <2>1 DEF AdcInv, RingInv, Turned
  <2>3. /\ Size(c) \in Nat \ {0} /\ buffer[c] \in [1..Size(c) -> Items]
        /\ last[c] \in Seq(Items) /\ pos[c] \in Nat
    BY <2>1, ChannelFacts DEF AdcInv, AdcType
  <2>4. QED
    BY <2>2, <2>3, TurnedWindow
<1>2. QED
  BY <1>1, AdcInvariant, PTL

\* While the stream has not failed, every sample in the ring of a channel was taken with
\* the multiplexer at the channel's own input (the three lowest bits of it), whatever was
\* selected before, by whichever process, and left half selected.
THEOREM SamplesAreOwn == AdcSpec => []OwnInput
<1>1. AdcInv => OwnInput
  BY DEF AdcInv
<1>2. QED
  BY <1>1, AdcInvariant, PTL

\* A voltage is read with the current source off, unless the source was on when the process
\* ended and no resistance has been finished since.
THEOREM VoltageIsUndisturbed == AdcSpec => []VoltageWithoutCurrent
<1>1. AdcInv => VoltageWithoutCurrent
  BY DEF AdcInv, CurrentInv, VoltageWithoutCurrent
<1>2. QED
  BY <1>1, AdcInvariant, PTL
=============================================================================
