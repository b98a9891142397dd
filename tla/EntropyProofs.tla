---------------------------- MODULE EntropyProofs ----------------------------
(***************************************************************************)
(* Invariance proofs for the entropy pipeline and the generator over it,   *)
(* for every set of sample values, every cutoff and window of the health   *)
(* tests, every number of startup samples and every length of a block.     *)
(*                                                                         *)
(* The tests run incrementally, over a monitor of a few counters; the      *)
(* first part proves that the counters say of the samples heard so far     *)
(* what the tests of SP 800-90B say of the whole sequence.                 *)
(***************************************************************************)
EXTENDS EntropyRng, FiniteSetTheorems, TLAPS

-----------------------------------------------------------------------------
(* The health tests.                                                       *)

\* What the monitor m says of the samples h: how long the last value has repeated, and
\* where in its window the APT stands, with what reference, met how often.
Monitors(m, h) ==
  /\ m.poisoned \in BOOLEAN
  /\ m.poisoned <=> Tripped(h)
  /\ ~m.poisoned =>
       /\ m.run \in 0..Len(h)
       /\ h = <<>> => m.last = NoSample
       /\ h # <<>> => m.run > 0 /\ m.last = h[Len(h)]
       /\ \A j \in Len(h) - m.run + 1 .. Len(h) : h[j] = m.last
       /\ m.run < Len(h) => h[Len(h) - m.run] # m.last
       /\ m.pos \in 0..AptWindow - 1
       /\ \E q \in Nat : Len(h) = q * AptWindow + m.pos
       /\ m.pos = 0 => m.reference = NoSample /\ m.count = 0
       /\ m.pos > 0 =>
            /\ m.pos <= Len(h) /\ m.reference = h[Len(h) - m.pos + 1]
            /\ m.count = Cardinality({j \in Len(h) - m.pos + 1 .. Len(h) : h[j] = m.reference})

\* The windows of the APT follow one another from the first sample on.
LEMMA WindowOf ==
  ASSUME NEW q \in Nat, NEW p \in 0..AptWindow - 1
  PROVE  WindowStart(q * AptWindow + p + 1) = q * AptWindow + 1
<1>1. AptWindow \in Nat \ {0}
  BY HealthAssumption
<1>2. \A w \in Nat \ {0} : \A k \in 0..w - 1 : (q * w + k) \div w = q /\ q * w \in Nat
  OBVIOUS
<1>3. (q * AptWindow + p) \div AptWindow = q /\ q * AptWindow \in Nat
  BY <1>1, <1>2
<1>4. q * AptWindow + p + 1 - 1 = q * AptWindow + p
  BY <1>1, <1>3
<1>5. QED
  BY <1>3, <1>4 DEF WindowStart

\* The window the n-th sample falls in begins at a sample, and not after it.
LEMMA WindowIn == ASSUME NEW i \in Nat \ {0} PROVE WindowStart(i) \in 1..i
<1>1. AptWindow \in Nat \ {0} /\ i - 1 \in Nat
  BY HealthAssumption
<1>2. \A n \in Nat, w \in Nat \ {0} : (n \div w) * w <= n /\ (n \div w) * w \in Nat
  <2> SUFFICES ASSUME NEW n \in Nat, NEW w \in Nat \ {0} PROVE (n \div w) * w <= n /\ (n \div w) * w \in Nat
    OBVIOUS
  <2>1. (n \div w) * w <= n
    OBVIOUS
  <2>2. n \div w \in Nat
    OBVIOUS
  <2>3. \A a \in Nat : a * w \in Nat
    OBVIOUS
  <2>4. QED
    BY <2>1, <2>2, <2>3
<1>3. ((i - 1) \div AptWindow) * AptWindow <= i - 1 /\ ((i - 1) \div AptWindow) * AptWindow \in Nat
  BY <1>1, <1>2
<1>4. QED
  BY <1>3 DEF WindowStart

\* A sequence trips by its samples but the last, or by the last.
LEMMA TrippedStep ==
  ASSUME NEW h \in Seq(Samples), NEW s \in Samples
  PROVE  Tripped(Append(h, s)) <=>
           \/ Tripped(h)
           \/ Repeats(Append(h, s), Len(h) + 1)
           \/ Dominates(Append(h, s), Len(h) + 1)
<1> DEFINE g == Append(h, s)
<1>1. DOMAIN g = 1..Len(h) + 1 /\ DOMAIN h = 1..Len(h) /\ Len(h) \in Nat
  OBVIOUS
<1>2. \A j \in 1..Len(h) : g[j] = h[j]
  OBVIOUS
<1> HIDE DEF g
<1>3. ASSUME NEW i \in 1..Len(h) PROVE Repeats(g, i) <=> Repeats(h, i)
  <2>1. \A j \in i - RctCutoff + 1 .. i : i >= RctCutoff => j \in 1..Len(h)
    BY <1>1, HealthAssumption
  <2>2. QED
    BY <1>1, <1>2, <2>1 DEF Repeats
<1>4. ASSUME NEW i \in 1..Len(h) PROVE Dominates(g, i) <=> Dominates(h, i)
  <2>1. WindowStart(i) \in 1..i
    BY <1>1, WindowIn
  <2>2. \A j \in WindowStart(i) .. i : j \in 1..Len(h)
    BY <1>1, <2>1
  <2>3. {j \in WindowStart(i) .. i : g[j] = g[WindowStart(i)]}
          = {j \in WindowStart(i) .. i : h[j] = h[WindowStart(i)]}
    BY <1>1, <1>2, <2>1, <2>2
  <2>4. QED
    BY <2>3 DEF Dominates
<1>5. \A i : i \in DOMAIN g <=> i \in DOMAIN h \/ i = Len(h) + 1
  BY <1>1
<1>6. QED
  BY <1>1, <1>3, <1>4, <1>5 DEF Tripped, g

\* A fresh monitor has heard nothing.
LEMMA FreshMonitors == Monitors(FreshMonitor, <<>>)
<1>1. ~Tripped(<<>>)
  BY DEF Tripped
<1>2. \E q \in Nat : 0 = q * AptWindow + 0
  <2>1. AptWindow \in Nat
    BY HealthAssumption
  <2>2. 0 = 0 * AptWindow + 0
    BY <2>1
  <2>3. QED
    BY <2>2
<1>3. QED
  BY <1>1, <1>2, HealthAssumption DEF Monitors, FreshMonitor

\* The RCT's counter reaches its cutoff with the last of RctCutoff equal samples.
LEMMA RctStep ==
  ASSUME NEW h \in Seq(Samples), NEW m, Monitors(m, h), ~m.poisoned, NEW s \in Samples
  PROVE  /\ RunWith(m, s) \in 1..Len(h) + 1
         /\ RunWith(m, s) >= RctCutoff <=> Repeats(Append(h, s), Len(h) + 1)
         /\ \A j \in Len(h) + 1 - RunWith(m, s) + 1 .. Len(h) + 1 : Append(h, s)[j] = s
         /\ RunWith(m, s) < Len(h) + 1 => Append(h, s)[Len(h) + 1 - RunWith(m, s)] # s
<1> DEFINE g == Append(h, s)
<1> DEFINE n == Len(h)
<1>1. n \in Nat /\ g[n + 1] = s /\ \A j \in 1..n : g[j] = h[j] /\ h[j] \in Samples
  OBVIOUS
<1>2. /\ m.run \in 0..n
      /\ n = 0 => m.last = NoSample
      /\ n # 0 => m.run > 0 /\ m.last = h[n]
      /\ \A j \in n - m.run + 1 .. n : h[j] = m.last
      /\ m.run < n => h[n - m.run] # m.last
  BY DEF Monitors
<1> DEFINE r == RunWith(m, s)
<1> HIDE DEF g, n
<1>3. r \in 1..n + 1
  BY <1>1, <1>2 DEF RunWith
<1>4. ASSUME NEW j \in n + 1 - r + 1 .. n + 1 PROVE g[j] = s
  <2>1. CASE j = n + 1
    BY <1>1, <2>1
  <2>2. CASE j # n + 1
    <3>1. j \in n - m.run + 1 .. n /\ m.last = s
      BY <1>1, <1>2, <1>3, <2>2 DEF RunWith
    <3>2. j \in 1..n
      BY <1>1, <1>2, <3>1
    <3>3. QED
      BY <1>1, <1>2, <3>1, <3>2
  <2>3. QED
    BY <2>1, <2>2
<1>5. ASSUME r < n + 1 PROVE g[n + 1 - r] # s
  <2>1. CASE m.last = s
    BY <1>1, <1>2, <1>5, <2>1 DEF RunWith
  <2>2. CASE m.last # s
    BY <1>1, <1>2, <1>5, <2>2 DEF RunWith
  <2>3. QED
    BY <2>1, <2>2
<1>6. r >= RctCutoff <=> Repeats(g, n + 1)
  <2>1. RctCutoff \in Nat \ {0}
    BY HealthAssumption
  <2>2. ASSUME r >= RctCutoff PROVE Repeats(g, n + 1)
    <3>1. n + 1 >= RctCutoff
      BY <1>1, <1>3, <2>1, <2>2
    <3>2. \A j \in ((n + 1) - RctCutoff) + 1 .. n + 1 : j \in n + 1 - r + 1 .. n + 1
      BY <1>1, <1>3, <2>1, <2>2
    <3>3. \A j \in ((n + 1) - RctCutoff) + 1 .. n + 1 : g[j] = g[n + 1]
      BY <1>1, <1>4, <3>2
    <3>4. QED
      BY <3>1, <3>3 DEF Repeats
  <2>3. ASSUME ~(r >= RctCutoff), Repeats(g, n + 1) PROVE FALSE
    <3>1. n + 1 - r \in ((n + 1) - RctCutoff) + 1 .. n + 1 /\ r < n + 1
      BY <1>1, <1>3, <2>1, <2>3 DEF Repeats
    <3>2. \A j \in ((n + 1) - RctCutoff) + 1 .. n + 1 : g[j] = g[n + 1]
      BY <2>3 DEF Repeats
    <3> HIDE DEF r
    <3>3. g[n + 1 - r] = g[n + 1]
      BY <3>1, <3>2
    <3>4. QED
      BY <1>1, <1>5, <3>1, <3>3 DEF r
  <2>4. QED
    BY <2>2, <2>3
<1>7. QED
  BY <1>3, <1>4, <1>5, <1>6 DEF g, n

\* The APT's counter counts the reference of the window in it.
LEMMA AptStep ==
  ASSUME NEW h \in Seq(Samples), NEW m, Monitors(m, h), ~m.poisoned, NEW s \in Samples
  PROVE  /\ CountWith(m, s) >= AptCutoff <=> Dominates(Append(h, s), Len(h) + 1)
         /\ m.pos = 0 => CountWith(m, s) = Cardinality({j \in Len(h) + 1 .. Len(h) + 1 : Append(h, s)[j] = s})
         /\ m.pos > 0 =>
              CountWith(m, s) = Cardinality({j \in Len(h) - m.pos + 1 .. Len(h) + 1 : Append(h, s)[j] = m.reference})
<1> DEFINE g == Append(h, s)
<1> DEFINE n == Len(h)
<1>1. n \in Nat /\ g[n + 1] = s /\ \A j \in 1..n : g[j] = h[j] /\ h[j] \in Samples
  OBVIOUS
<1>2. PICK q \in Nat : n = q * AptWindow + m.pos
  BY DEF Monitors
<1>3. m.pos \in 0..AptWindow - 1
  BY DEF Monitors
<1>4. WindowStart(n + 1) = n - m.pos + 1
  <2>1. q * AptWindow \in Nat
    <3>1. AptWindow \in Nat /\ \A a, b \in Nat : a * b \in Nat
      BY HealthAssumption
    <3>2. QED
      BY <3>1
  <2>2. WindowStart(q * AptWindow + m.pos + 1) = q * AptWindow + 1
    BY <1>3, WindowOf
  <2>3. QED
    BY <1>2, <1>3, <2>1, <2>2
<1> HIDE DEF g, n
<1>5. CASE m.pos = 0
  <2>1. m.reference = NoSample
    BY <1>5 DEF Monitors
  <2>2. CountWith(m, s) = 1
    BY <2>1 DEF CountWith
  <2>3. {j \in n + 1 .. n + 1 : g[j] = s} = {n + 1}
    BY <1>1
  <2>4. Cardinality({j \in n + 1 .. n + 1 : g[j] = s}) = 1
    BY <2>3, FS_Singleton
  <2>5. WindowStart(n + 1) = n + 1
    BY <1>1, <1>4, <1>5
  <2>6. {j \in WindowStart(n + 1) .. n + 1 : g[j] = g[WindowStart(n + 1)]}
          = {j \in n + 1 .. n + 1 : g[j] = s}
    BY <1>1, <2>5
  <2>7. CountWith(m, s) >= AptCutoff <=> Dominates(g, n + 1)
    BY <2>2, <2>4, <2>6 DEF Dominates
  <2>8. CountWith(m, s) = Cardinality({j \in n + 1 .. n + 1 : g[j] = s})
    BY <2>2, <2>4
  <2>9. ~(m.pos > 0)
    BY <1>5
  <2>10. QED
    BY <2>7, <2>8, <2>9 DEF g, n
<1>6. CASE m.pos > 0
  <2> DEFINE w == n - m.pos + 1
  <2>1. /\ m.pos <= n /\ m.reference = h[w]
        /\ m.count = Cardinality({j \in w .. n : h[j] = m.reference})
    BY <1>6 DEF Monitors, n
  <2>2. w \in 1..n
    BY <1>1, <1>3, <1>6, <2>1
  <2>3. m.reference # NoSample /\ g[w] = m.reference
    BY <1>1, <2>1, <2>2, HealthAssumption
  <2> DEFINE old == {j \in w .. n : h[j] = m.reference}
  <2> DEFINE new == {j \in w .. n + 1 : g[j] = m.reference}
  <2>4. IsFiniteSet(old)
    <3> HIDE DEF w
    <3>0. w \in Int /\ n \in Int
      BY <1>1, <2>2
    <3>1. IsFiniteSet(w .. n)
      BY <3>0, FS_Interval
    <3>2. QED
      BY <3>1, FS_Subset
  <2>5. n + 1 \notin old
    BY <1>1, <2>2
  <2>6. new = IF s = m.reference THEN old \cup {n + 1} ELSE old
    <3> HIDE DEF w
    <3>1. \A j \in w .. n + 1 : j = n + 1 \/ (j \in w .. n /\ j \in 1..n)
      BY <1>1, <2>2
    <3>2. \A j \in w .. n : j \in w .. n + 1 /\ j \in 1..n
      BY <1>1, <2>2
    <3>3. n + 1 \in w .. n + 1
      BY <1>1, <2>2
    <3>4. QED
      BY <1>1, <3>1, <3>2, <3>3
  <2>7. CountWith(m, s) = Cardinality(new)
    <3>1. CountWith(m, s) = IF s = m.reference THEN m.count + 1 ELSE m.count
      BY <2>3 DEF CountWith
    <3>2. Cardinality(old \cup {n + 1}) = Cardinality(old) + 1
      BY <2>4, <2>5, FS_AddElement
    <3>3. QED
      BY <2>1, <2>6, <3>1, <3>2
  <2>8. {j \in WindowStart(n + 1) .. n + 1 : g[j] = g[WindowStart(n + 1)]} = new
    BY <1>4, <2>3
  <2>9. CountWith(m, s) >= AptCutoff <=> Dominates(g, n + 1)
    BY <2>7, <2>8 DEF Dominates
  <2>10. m.pos # 0
    BY <1>6
  <2>11. CountWith(m, s) = Cardinality({j \in n - m.pos + 1 .. n + 1 : g[j] = m.reference})
    BY <2>7
  <2>12. QED
    BY <2>9, <2>10, <2>11 DEF g, n
<1>7. m.pos = 0 \/ m.pos > 0
  BY <1>3
<1>8. QED
  BY <1>5, <1>6, <1>7

\* One more sample: the counters say of the longer sequence what they said of the shorter,
\* and the verdict is that of the tests of SP 800-90B.
LEMMA MonitorStep ==
  ASSUME NEW h \in Seq(Samples), NEW m, Monitors(m, h), ~m.poisoned, NEW s \in Samples
  PROVE  /\ Monitors(Fed(m, s), Append(h, s))
         /\ Verdict(m, s) = "ok" <=> ~Tripped(Append(h, s))
<1> DEFINE g == Append(h, s)
<1> DEFINE n == Len(h)
<1> DEFINE f == Fed(m, s)
<1>1. n \in Nat /\ Len(g) = n + 1 /\ g # <<>> /\ g[n + 1] = s
  OBVIOUS
<1>2. ~Tripped(h)
  BY DEF Monitors
<1>3. Verdict(m, s) = "ok" <=> ~Tripped(g)
  BY <1>2, RctStep, AptStep, TrippedStep DEF Verdict
<1>4. f.poisoned = (Verdict(m, s) # "ok")
  BY DEF Fed
<1>5. ASSUME Verdict(m, s) = "ok"
      PROVE  /\ f.run \in 0..n + 1 /\ f.run > 0 /\ f.last = s
             /\ \A j \in (n + 1) - f.run + 1 .. n + 1 : g[j] = f.last
             /\ f.run < n + 1 => g[(n + 1) - f.run] # f.last
  <2>1. f.run = RunWith(m, s) /\ f.last = s
    BY DEF Fed
  <2>2. /\ RunWith(m, s) \in 1..n + 1
        /\ \A j \in n + 1 - RunWith(m, s) + 1 .. n + 1 : g[j] = s
        /\ RunWith(m, s) < n + 1 => g[n + 1 - RunWith(m, s)] # s
    BY RctStep
  <2> HIDE DEF f, g, n
  <2>3. QED
    BY <1>1, <2>1, <2>2
<1> DEFINE start == (n + 1) - f.pos + 1
<1> DEFINE Place == f.pos \in 0..AptWindow - 1 /\ \E q \in Nat : n + 1 = q * AptWindow + f.pos
<1> DEFINE Empty == f.reference = NoSample /\ f.count = 0
<1> DEFINE Counts == /\ f.pos <= n + 1 /\ f.reference = g[start]
                     /\ f.count = Cardinality({j \in start .. n + 1 : g[j] = f.reference})
<1>6. ASSUME Verdict(m, s) = "ok"
      PROVE  Place /\ (f.pos = 0 => Empty) /\ (f.pos > 0 => Counts)
  <2>1. PICK q \in Nat : n = q * AptWindow + m.pos
    BY DEF Monitors
  <2>2. m.pos \in 0..AptWindow - 1 /\ AptWindow \in Nat \ {0, 1}
    BY HealthAssumption DEF Monitors
  <2>3. q * AptWindow \in Nat /\ (q + 1) * AptWindow = q * AptWindow + AptWindow
    <3>1. \A a, b \in Nat : a * b \in Nat /\ (a + 1) * b = a * b + b
      OBVIOUS
    <3>2. QED
      BY <2>2, <3>1
  <2>4. CountWith(m, s) < AptCutoff
    <3>1. CountWith(m, s) \in Nat /\ AptCutoff \in Nat
      <4>1. AptCutoff \in Nat
        BY HealthAssumption
      <4>2. CASE m.pos = 0
        BY <4>1, <4>2 DEF CountWith, Monitors
      <4>3. CASE m.pos > 0
        <5>1. m.count \in Nat
          <6>1. m.pos <= n
            BY <4>3 DEF Monitors
          <6>2. n - m.pos + 1 \in Int /\ n \in Int
            BY <1>1, <2>2, <6>1
          <6>3. IsFiniteSet(n - m.pos + 1 .. n)
            BY <6>2, FS_Interval
          <6>4. IsFiniteSet({j \in n - m.pos + 1 .. n : h[j] = m.reference})
            BY <6>3, FS_Subset
          <6>5. QED
            BY <4>3, <6>4, FS_CardinalityType DEF Monitors
        <5>2. QED
          BY <4>1, <5>1 DEF CountWith
      <4>4. QED
        BY <2>2, <4>2, <4>3, <4>1
    <3>2. ~(CountWith(m, s) >= AptCutoff)
      BY <1>6 DEF Verdict
    <3>3. QED
      BY <3>1, <3>2
  <2>5. ASSUME m.pos + 1 >= AptWindow PROVE f.pos = 0 /\ Place /\ Empty
    <3>1. f.pos = 0 /\ f.reference = NoSample /\ f.count = 0
      BY <2>4, <2>5 DEF Fed
    <3>2. n + 1 = (q + 1) * AptWindow + 0 /\ q + 1 \in Nat
      BY <1>1, <2>1, <2>2, <2>3, <2>5
    <3>3. \E k \in Nat : n + 1 = k * AptWindow + 0
      BY <3>2, Zenon
    <3> HIDE DEF f, n
    <3>4. f.pos \in 0..AptWindow - 1
      BY <2>2, <3>1
    <3>5. QED
      BY <3>1, <3>3, <3>4
  <2>6. ASSUME ~(m.pos + 1 >= AptWindow) PROVE f.pos > 0 /\ f.pos # 0 /\ Place /\ Counts
    <3>1. /\ f.pos = m.pos + 1 /\ f.count = CountWith(m, s)
          /\ f.reference = IF m.reference = NoSample THEN s ELSE m.reference
      BY <2>4, <2>6 DEF Fed
    <3>2. f.pos \in 1..AptWindow - 1 /\ n + 1 = q * AptWindow + f.pos
      BY <1>1, <2>1, <2>2, <2>3, <2>6, <3>1
    <3>3. Place
      <4> HIDE DEF f, n
      <4>1. \E k \in Nat : n + 1 = k * AptWindow + f.pos
        BY <3>2, Zenon
      <4>2. f.pos \in 0..AptWindow - 1
        BY <2>2, <3>2
      <4>3. QED
        BY <4>1, <4>2
    <3>4. ASSUME m.pos = 0 PROVE Counts
      <4>1. f.reference = s /\ f.pos = 1
        BY <3>1, <3>4 DEF Monitors
      <4>2. f.count = Cardinality({j \in n + 1 .. n + 1 : g[j] = s})
        <5>1. CountWith(m, s) = 1
          BY <3>4 DEF CountWith, Monitors
        <5> HIDE DEF f, n, g
        <5>2. {j \in n + 1 .. n + 1 : g[j] = s} = {n + 1}
          BY <1>1
        <5>3. Cardinality({n + 1}) = 1
          BY FS_Singleton
        <5>4. QED
          BY <3>1, <5>1, <5>2, <5>3
      <4> HIDE DEF f, n, g
      <4>3. start = n + 1 /\ f.pos <= n + 1
        BY <1>1, <4>1
      <4> HIDE DEF start
      <4>4. {j \in start .. n + 1 : g[j] = f.reference} = {j \in n + 1 .. n + 1 : g[j] = s}
        BY <4>1, <4>3
      <4>5. f.reference = g[start]
        BY <1>1, <4>1, <4>3
      <4>6. QED
        BY <4>2, <4>3, <4>4, <4>5
    <3>5. ASSUME m.pos > 0 PROVE Counts
      <4>1. m.pos <= n /\ m.reference = h[n - m.pos + 1]
        BY <3>5 DEF Monitors
      <4>2. n - m.pos + 1 \in 1..n
        BY <1>1, <2>2, <3>5, <4>1
      <4>3. g[n - m.pos + 1] = m.reference /\ m.reference \in Samples
        BY <4>1, <4>2
      <4>4. f.reference = m.reference
        BY <3>1, <4>3, HealthAssumption
      <4>5. f.count = Cardinality({j \in n - m.pos + 1 .. n + 1 : g[j] = m.reference})
        <5>1. CountWith(m, s) = Cardinality({j \in n - m.pos + 1 .. n + 1 : g[j] = m.reference})
          BY <3>5, AptStep, Zenon
        <5> HIDE DEF f, n, g
        <5>2. QED
          BY <3>1, <5>1
      <4> HIDE DEF f, n, g
      <4>6. start = n - m.pos + 1 /\ f.pos <= n + 1
        BY <1>1, <2>2, <3>1, <4>1
      <4> HIDE DEF start
      <4>7. {j \in start .. n + 1 : g[j] = f.reference}
              = {j \in n - m.pos + 1 .. n + 1 : g[j] = m.reference}
        BY <4>4, <4>6
      <4>8. f.reference = g[start]
        BY <4>3, <4>4, <4>6
      <4>9. QED
        BY <4>5, <4>6, <4>7, <4>8
    <3> HIDE DEF f, n, g
    <3>6. Counts
      <4>1. m.pos = 0 \/ m.pos > 0
        BY <2>2
      <4>2. QED
        BY <3>4, <3>5, <4>1
    <3>7. f.pos > 0 /\ f.pos # 0
      BY <3>2, <2>2
    <3>8. QED
      BY <3>3, <3>6, <3>7
  <2> HIDE DEF Place, Empty, Counts
  <2>7. CASE m.pos + 1 >= AptWindow
    <3>1. f.pos = 0 /\ ~(f.pos > 0)
      BY <2>5, <2>7
    <3>2. QED
      BY <2>5, <2>7, <3>1
  <2>8. CASE ~(m.pos + 1 >= AptWindow)
    BY <2>6, <2>8
  <2>9. QED
    BY <2>7, <2>8
<1> HIDE DEF f, g, n
<1>7. Monitors(f, g)
  BY <1>1, <1>3, <1>4, <1>5, <1>6 DEF Monitors
<1>8. QED
  BY <1>3, <1>7 DEF f, g

-----------------------------------------------------------------------------
(* Sequences of samples.                                                   *)

\* Values, of any sequence d of emitted samples.
ValuesIn(d, ids) == [k \in DOMAIN ids |-> d[ids[k]]]

\* The ids are those of samples of d.
Names(ids, d) == ids \in Seq(Nat) /\ \A i \in 1..Len(ids) : ids[i] \in 1..Len(d)

\* h ends with o.
EndsWith(h, o) == Len(o) <= Len(h) /\ \A i \in 1..Len(o) : h[Len(h) - Len(o) + i] = o[i]

\* The values of named samples are samples, one for each name.
LEMMA ValuesOf ==
  ASSUME NEW d \in Seq(Samples), NEW ids, Names(ids, d)
  PROVE  ValuesIn(d, ids) \in Seq(Samples) /\ Len(ValuesIn(d, ids)) = Len(ids)
<1>1. ids \in Seq(Nat) /\ DOMAIN ids = 1..Len(ids) /\ Len(ids) \in Nat
  BY DEF Names
<1>2. \A k \in 1..Len(ids) : d[ids[k]] \in Samples
  BY DEF Names
<1> DEFINE v == [k \in 1..Len(ids) |-> d[ids[k]]]
<1>3. v \in Seq(Samples) /\ Len(v) = Len(ids)
  <2>1. v \in [1..Len(ids) -> Samples]
    BY <1>2
  <2>2. QED
    BY <1>1, <2>1
<1>4. QED
  BY <1>1, <1>3 DEF ValuesIn

\* The samples already named keep their values, and the next one may be named.
LEMMA NextSample ==
  ASSUME NEW d \in Seq(Samples), NEW ids, Names(ids, d), NEW s \in Samples
  PROVE  /\ Names(ids, Append(d, s))
         /\ ValuesIn(Append(d, s), ids) = ValuesIn(d, ids)
         /\ Names(Append(ids, Len(d) + 1), Append(d, s))
         /\ ValuesIn(Append(d, s), Append(ids, Len(d) + 1)) = Append(ValuesIn(d, ids), s)
<1> DEFINE e == Append(d, s)
<1> DEFINE x == Append(ids, Len(d) + 1)
<1>1. /\ ids \in Seq(Nat) /\ DOMAIN ids = 1..Len(ids) /\ Len(ids) \in Nat /\ Len(d) \in Nat
      /\ \A i \in 1..Len(ids) : ids[i] \in 1..Len(d)
  BY DEF Names
<1>2. Len(e) = Len(d) + 1 /\ e[Len(d) + 1] = s /\ \A i \in 1..Len(d) : e[i] = d[i]
  BY <1>1
<1>3. /\ x \in Seq(Nat) /\ Len(x) = Len(ids) + 1 /\ DOMAIN x = 1..Len(ids) + 1
      /\ x[Len(ids) + 1] = Len(d) + 1 /\ \A i \in 1..Len(ids) : x[i] = ids[i]
  BY <1>1
<1> HIDE DEF e, x
<1>4. Names(ids, e)
  BY <1>1, <1>2 DEF Names
<1>5. ValuesIn(e, ids) = ValuesIn(d, ids)
  BY <1>1, <1>2 DEF ValuesIn
<1>6. Names(x, e)
  <2>1. ASSUME NEW i \in 1..Len(x) PROVE x[i] \in 1..Len(e)
    <3>1. CASE i = Len(ids) + 1
      BY <1>1, <1>2, <1>3, <3>1
    <3>2. CASE i # Len(ids) + 1
      <4>1. i \in 1..Len(ids)
        BY <1>1, <1>3, <3>2
      <4>2. QED
        BY <1>1, <1>2, <1>3, <4>1
    <3>3. QED
      BY <3>1, <3>2
  <2>2. QED
    BY <1>3, <2>1 DEF Names
<1>7. ValuesIn(e, x) = Append(ValuesIn(d, ids), s)
  <2> DEFINE v == ValuesIn(d, ids)
  <2>1. v \in Seq(Samples) /\ Len(v) = Len(ids) /\ \A k \in 1..Len(ids) : v[k] = d[ids[k]]
    BY <1>1, ValuesOf DEF ValuesIn
  <2>2. /\ Append(v, s) \in Seq(Samples) /\ DOMAIN Append(v, s) = 1..Len(ids) + 1
        /\ Append(v, s)[Len(ids) + 1] = s
        /\ \A k \in 1..Len(ids) : Append(v, s)[k] = d[ids[k]]
    BY <1>1, <2>1
  <2>3. \A k \in 1..Len(ids) + 1 : e[x[k]] = Append(v, s)[k]
    <3> HIDE DEF v
    <3> SUFFICES ASSUME NEW k \in 1..Len(ids) + 1 PROVE e[x[k]] = Append(v, s)[k]
      OBVIOUS
    <3>1. CASE k = Len(ids) + 1
      BY <1>2, <1>3, <2>2, <3>1
    <3>2. CASE k # Len(ids) + 1
      <4>1. k \in 1..Len(ids)
        BY <1>1, <3>2
      <4>2. QED
        BY <1>1, <1>2, <1>3, <2>2, <4>1
    <3>3. QED
      BY <3>1, <3>2
  <2>4. Append(v, s) = [k \in 1..Len(ids) + 1 |-> Append(v, s)[k]]
    <3>1. Append(v, s) \in Seq(Samples) /\ Len(Append(v, s)) = Len(ids) + 1
      BY <2>1
    <3>2. \A q \in Seq(Samples) : q = [k \in 1..Len(q) |-> q[k]]
      OBVIOUS
    <3>3. QED
      BY <3>1, <3>2
  <2>5. QED
    BY <1>3, <2>3, <2>4 DEF ValuesIn
<1>8. QED
  BY <1>4, <1>5, <1>6, <1>7 DEF e, x

\* A run of consecutive draws grows by the draw that follows it.
LEMMA FollowingStep ==
  ASSUME NEW k \in Nat, NEW n \in Nat
  PROVE  /\ Following(k, n) \in Seq(Nat) /\ Len(Following(k, n)) = n
         /\ Append(Following(k, n), k + n + 1) = Following(k, n + 1)
         /\ Following(k, 0) = <<>>
<1>1. \A i \in 1..n : k + i \in Nat
  OBVIOUS
<1>2. Following(k, n) \in Seq(Nat) /\ Len(Following(k, n)) = n
  BY <1>1 DEF Following
<1>3. Append(Following(k, n), k + n + 1) = Following(k, n + 1)
  BY <1>2 DEF Following
<1>4. Following(k, 0) = <<>>
  BY DEF Following
<1>5. QED
  BY <1>2, <1>3, <1>4

\* Two sequences of which one ends the other still do when both grow by the same draw.
LEMMA EndsAppend ==
  ASSUME NEW h \in Seq(Nat), NEW o \in Seq(Nat), EndsWith(h, o), NEW x \in Nat
  PROVE  EndsWith(Append(h, x), Append(o, x))
<1> DEFINE g == Append(h, x)
<1> DEFINE p == Append(o, x)
<1>1. Len(h) \in Nat /\ Len(o) \in Nat /\ Len(g) = Len(h) + 1 /\ Len(p) = Len(o) + 1
  OBVIOUS
<1>2. /\ g[Len(h) + 1] = x /\ \A i \in 1..Len(h) : g[i] = h[i]
      /\ p[Len(o) + 1] = x /\ \A i \in 1..Len(o) : p[i] = o[i]
  OBVIOUS
<1>3. Len(o) <= Len(h) /\ \A i \in 1..Len(o) : h[Len(h) - Len(o) + i] = o[i]
  BY DEF EndsWith
<1> HIDE DEF g, p
<1>4. ASSUME NEW i \in 1..Len(o) + 1 PROVE g[(Len(h) + 1) - (Len(o) + 1) + i] = p[i]
  <2>1. (Len(h) + 1) - (Len(o) + 1) + i = Len(h) - Len(o) + i
    BY <1>1
  <2>2. CASE i = Len(o) + 1
    <3>1. Len(h) - Len(o) + i = Len(h) + 1
      BY <1>1, <2>2
    <3>2. QED
      BY <1>2, <2>1, <2>2, <3>1
  <2>3. CASE i # Len(o) + 1
    <3>1. i \in 1..Len(o) /\ Len(h) - Len(o) + i \in 1..Len(h)
      BY <1>1, <1>3, <2>3
    <3>2. QED
      BY <1>2, <1>3, <2>1, <3>1
  <2>4. QED
    BY <2>2, <2>3
<1>5. EndsWith(g, p)
  BY <1>1, <1>3, <1>4 DEF EndsWith
<1>6. QED
  BY <1>5 DEF g, p

\* A sequence that ends another is its last part.
LEMMA EndsSubSeq ==
  ASSUME NEW h \in Seq(Nat), NEW o \in Seq(Nat), EndsWith(h, o)
  PROVE  SubSeq(h, Len(h) - Len(o) + 1, Len(h)) = o
<1>1. Len(h) \in Nat /\ Len(o) \in Nat
  OBVIOUS
<1>2. Len(o) <= Len(h) /\ \A i \in 1..Len(o) : h[Len(h) - Len(o) + i] = o[i]
  BY DEF EndsWith
<1> DEFINE p == SubSeq(h, Len(h) - Len(o) + 1, Len(h))
<1>3. p \in Seq(Nat) /\ Len(p) = Len(o) /\ \A i \in 1..Len(o) : p[i] = h[Len(h) - Len(o) + i]
  BY <1>1, <1>2
<1> HIDE DEF p
<1>4. \A i \in 1..Len(o) : p[i] = o[i]
  BY <1>2, <1>3
<1>5. p = o
  <2>1. p \in [1..Len(o) -> Nat] /\ o \in [1..Len(o) -> Nat]
    BY <1>1, <1>3
  <2>2. QED
    BY <1>4, <2>1
<1>6. QED
  BY <1>5 DEF p

\* A sequence that begins with consecutive draws has them as its first part.
LEMMA PrefixSubSeq ==
  ASSUME NEW h \in Seq(Nat), NEW k \in Nat, NEW n \in Nat, n <= Len(h),
         \A i \in 1..n : h[i] = k + i
  PROVE  SubSeq(h, 1, n) = Following(k, n)
<1>1. SubSeq(h, 1, n) \in Seq(Nat) /\ Len(SubSeq(h, 1, n)) = n
  OBVIOUS
<1>2. \A i \in 1..n : SubSeq(h, 1, n)[i] = k + i
  OBVIOUS
<1>3. SubSeq(h, 1, n) = [i \in 1..n |-> SubSeq(h, 1, n)[i]]
  BY <1>1
<1>4. QED
  BY <1>2, <1>3 DEF Following

-----------------------------------------------------------------------------
(* The pipeline.                                                           *)

PipeTypes ==
  /\ state \in {"AwaitingStartup", "Operational", "Poisoned"}
  /\ at \in {"idle", "battery", "block"} /\ katBroken \in BOOLEAN
  /\ drawn \in Seq(Samples) /\ since \in 0..Len(drawn)
  /\ Names(heard, drawn) /\ Names(tested, drawn)
  /\ absorbed \in Seq(Nat) /\ out \in Seq(Nat)

\* What a call in a loop has done so far.
CallInv ==
  /\ state = "Poisoned" => at = "idle"
  /\ at # "idle" => out = <<>>
  /\ at # "block" => absorbed = <<>>
  /\ at = "battery" => tested = Following(since, Len(drawn) - since) /\ Len(tested) <= StartupMin
  /\ at = "block" =>
       /\ state = "Operational"
       /\ absorbed = Following(since, Len(drawn) - since) /\ EndsWith(heard, absorbed)

OutInv == out # <<>> => out = Following(since, Len(drawn) - since) /\ EndsWith(heard, out)

\* The monitors speak of what they heard, and a failure poisons at once.
MonitorInv ==
  /\ Monitors(monitor, ValuesIn(drawn, heard))
  /\ at = "battery" => Monitors(fresh, ValuesIn(drawn, tested))
  /\ state = "Poisoned" <=>
       katBroken \/ Tripped(ValuesIn(drawn, heard)) \/ Tripped(ValuesIn(drawn, tested))

\* The battery that admitted the monitor in force, and what was given out since.
PrefixInv ==
  state = "Operational" =>
    /\ StartupMin <= Len(heard)
    /\ \A i \in 1..StartupMin : heard[i] = heard[1] - 1 + i
    /\ at = "block" \/ out # <<>> => heard[StartupMin] <= since

PInv == PipeTypes /\ CallInv /\ OutInv /\ MonitorInv /\ PrefixInv

\* A sample the conditioner draws is heard by the pipeline's monitor, and the monitor trips on
\* it exactly when what it has heard fails a test (Pipeline::draw, HealthMonitor::feed).
LEMMA HearStep ==
  ASSUME PipeTypes, MonitorInv, state # "Poisoned", NEW s \in Samples, Hear(s)
  PROVE  /\ drawn' \in Seq(Samples) /\ Len(drawn') = Len(drawn) + 1
         /\ Names(heard', drawn') /\ Names(tested, drawn')
         /\ ValuesIn(drawn', tested) = ValuesIn(drawn, tested)
         /\ Monitors(monitor', ValuesIn(drawn', heard'))
         /\ Verdict(monitor, s) = "ok" <=> ~Tripped(ValuesIn(drawn', heard'))
<1>1. drawn' = Append(drawn, s) /\ heard' = Append(heard, Len(drawn) + 1) /\ monitor' = Fed(monitor, s)
  BY DEF Hear, Emit, ThisSample
<1>2. drawn \in Seq(Samples) /\ Names(heard, drawn) /\ Names(tested, drawn)
  BY DEF PipeTypes
<1>3. drawn' \in Seq(Samples) /\ Len(drawn') = Len(drawn) + 1
  BY <1>1, <1>2
<1>4. /\ Names(heard', drawn') /\ Names(tested, drawn')
      /\ ValuesIn(drawn', tested) = ValuesIn(drawn, tested)
      /\ ValuesIn(drawn', heard') = Append(ValuesIn(drawn, heard), s)
  BY <1>1, <1>2, NextSample
<1>5. ValuesIn(drawn, heard) \in Seq(Samples)
  BY <1>2, ValuesOf
<1>6. Monitors(monitor, ValuesIn(drawn, heard)) /\ ~monitor.poisoned
  BY DEF MonitorInv, Monitors
<1>7. /\ Monitors(Fed(monitor, s), Append(ValuesIn(drawn, heard), s))
      /\ Verdict(monitor, s) = "ok" <=> ~Tripped(Append(ValuesIn(drawn, heard), s))
  BY <1>5, <1>6, MonitorStep
<1>8. QED
  BY <1>1, <1>3, <1>4, <1>7

\* The same of a sample the battery of an on-demand test draws, and of the battery's own
\* monitor (run_startup_battery).
LEMMA TestStep ==
  ASSUME PipeTypes, MonitorInv, at = "battery", state # "Poisoned", NEW s \in Samples,
         Emit(s), tested' = Append(tested, ThisSample)
  PROVE  /\ drawn' \in Seq(Samples) /\ Len(drawn') = Len(drawn) + 1
         /\ Names(heard, drawn') /\ Names(tested', drawn')
         /\ ValuesIn(drawn', heard) = ValuesIn(drawn, heard)
         /\ Monitors(Fed(fresh, s), ValuesIn(drawn', tested'))
         /\ Verdict(fresh, s) = "ok" <=> ~Tripped(ValuesIn(drawn', tested'))
<1>1. drawn' = Append(drawn, s) /\ tested' = Append(tested, Len(drawn) + 1)
  BY DEF Emit, ThisSample
<1>2. drawn \in Seq(Samples) /\ Names(heard, drawn) /\ Names(tested, drawn)
  BY DEF PipeTypes
<1>3. drawn' \in Seq(Samples) /\ Len(drawn') = Len(drawn) + 1
  BY <1>1, <1>2
<1>4. /\ Names(tested', drawn') /\ Names(heard, drawn')
      /\ ValuesIn(drawn', heard) = ValuesIn(drawn, heard)
      /\ ValuesIn(drawn', tested') = Append(ValuesIn(drawn, tested), s)
  BY <1>1, <1>2, NextSample
<1>5. ValuesIn(drawn, tested) \in Seq(Samples)
  BY <1>2, ValuesOf
<1>6. Monitors(fresh, ValuesIn(drawn, tested)) /\ ~fresh.poisoned
  BY DEF MonitorInv, Monitors
<1>7. /\ Monitors(Fed(fresh, s), Append(ValuesIn(drawn, tested), s))
      /\ Verdict(fresh, s) = "ok" <=> ~Tripped(Append(ValuesIn(drawn, tested), s))
  BY <1>5, <1>6, MonitorStep
<1>8. QED
  BY <1>3, <1>4, <1>7

\* The call in progress, if any, has one more sample than before.
LEMMA OneMore ==
  ASSUME PipeTypes, NEW o, o = Following(since, Len(drawn) - since)
  PROVE  /\ Append(o, ThisSample) = Following(since, (Len(drawn) + 1) - since)
         /\ Len(o) = Len(drawn) - since
<1>1. since \in Nat /\ Len(drawn) - since \in Nat /\ Len(drawn) \in Nat
  BY DEF PipeTypes
<1>2. since + (Len(drawn) - since) + 1 = ThisSample /\ (Len(drawn) - since) + 1 = (Len(drawn) + 1) - since
  BY <1>1 DEF ThisSample
<1>3. QED
  BY <1>1, <1>2, FollowingStep

\* Nothing heard is no failure, and nothing given out is the end of anything.
LEMMA EmptyFacts ==
  /\ \A d : Names(<<>>, d) /\ ValuesIn(d, <<>>) = <<>>
  /\ ~Tripped(<<>>)
  /\ \A h \in Seq(Nat) : EndsWith(h, <<>>)
<1>1. \A d : Names(<<>>, d) /\ ValuesIn(d, <<>>) = <<>>
  BY DEF Names, ValuesIn
<1>2. ~Tripped(<<>>)
  BY DEF Tripped
<1>3. \A h \in Seq(Nat) : EndsWith(h, <<>>)
  BY DEF EndsWith
<1>4. QED
  BY <1>1, <1>2, <1>3

\* A pipeline begins with nothing drawn.
LEMMA PipeInit == Init => PInv
<1> SUFFICES ASSUME Init PROVE PInv
  OBVIOUS
<1>1. /\ state = "AwaitingStartup" /\ at = "idle" /\ katBroken = FALSE /\ monitor = FreshMonitor
      /\ drawn = <<>> /\ since = 0 /\ heard = <<>> /\ tested = <<>> /\ absorbed = <<>> /\ out = <<>>
  BY DEF Init
<1>2. ValuesIn(drawn, heard) = <<>> /\ ValuesIn(drawn, tested) = <<>>
  BY <1>1, EmptyFacts
<1>3. PipeTypes
  <2>1. Names(<<>>, <<>>)
    BY EmptyFacts
  <2>2. <<>> \in Seq(Samples) /\ <<>> \in Seq(Nat) /\ 0 \in 0..Len(<<>>)
    OBVIOUS
  <2>3. QED
    BY <1>1, <2>1, <2>2 DEF PipeTypes
<1>4. MonitorInv
  BY <1>1, <1>2, EmptyFacts, FreshMonitors DEF MonitorInv
<1>5. QED
  BY <1>1, <1>3, <1>4 DEF PInv, CallInv, OutInv, PrefixInv

\* A step after which no call is in progress, and nothing was drawn, heard or poisoned.
LEMMA Quiet ==
  ASSUME PInv, UNCHANGED <<state, monitor, drawn, since, heard, tested, katBroken>>,
         at' = "idle", absorbed' = <<>>, out' = <<>>
  PROVE  PInv'
<1>1. PipeTypes'
  BY DEF PInv, PipeTypes
<1>2. CallInv' /\ OutInv'
  BY DEF CallInv, OutInv
<1>3. MonitorInv'
  BY DEF PInv, MonitorInv
<1>4. PrefixInv'
  BY DEF PInv, PrefixInv
<1>5. QED
  BY <1>1, <1>2, <1>3, <1>4 DEF PInv

\* Every step of the pipeline keeps its invariant: a draw of a fill, one of the start-up or of
\* an on-demand battery, and what follows a failure (pipeline.rs, health.rs).
THEOREM PipeStep == PInv /\ [Next]_vars => PInv'
<1> SUFFICES ASSUME PInv, [Next]_vars PROVE PInv'
  OBVIOUS
<1>0. PipeTypes /\ CallInv /\ OutInv /\ MonitorInv /\ PrefixInv
  BY DEF PInv
<1>a. StartupMin \in Nat \ {0}
  BY PipelineAssumption
<1>1. ASSUME NEW c \in Calls, NotReady(c) \/ ModuleRefuses(c) PROVE PInv'
  BY <1>1, Quiet DEF NotReady, ModuleRefuses, Return
<1>2. CASE SourceFails
  BY <1>2, Quiet DEF SourceFails, Return
<1>3. CASE KatFails
  <2>1. /\ at' = "idle" /\ absorbed' = <<>> /\ out' = <<>> /\ state' = "Poisoned" /\ katBroken' = TRUE
        /\ UNCHANGED <<monitor, drawn, since, heard, tested>>
    BY <1>3 DEF KatFails, Return
  <2>2. PipeTypes'
    BY <1>0, <2>1 DEF PipeTypes
  <2>3. MonitorInv'
    BY <1>0, <2>1 DEF MonitorInv
  <2>4. QED
    BY <2>1, <2>2, <2>3 DEF PInv, CallInv, OutInv, PrefixInv
<1>4. ASSUME NEW c \in Calls, StartBattery(c) PROVE PInv'
  <2>1. /\ at = "idle" /\ at' = "battery" /\ since' = Len(drawn) /\ out' = <<>>
        /\ fresh' = FreshMonitor /\ tested' = <<>>
        /\ UNCHANGED <<state, monitor, absorbed, drawn, heard, katBroken>>
    BY <1>4 DEF StartBattery, Enter
  <2>2. state # "Poisoned"
    BY <1>4 DEF StartBattery, ReadyFor
  <2>3. PipeTypes'
    BY <1>0, <2>1, EmptyFacts DEF PipeTypes
  <2>4. CallInv'
    <3>1. Following(Len(drawn), 0) = <<>> /\ Len(drawn) - Len(drawn) = 0
      BY <1>0, FollowingStep DEF PipeTypes
    <3>2. QED
      BY <1>0, <1>a, <2>1, <2>2, <3>1 DEF CallInv
  <2>5. MonitorInv'
    <3>1. ValuesIn(drawn, <<>>) = <<>> /\ ~Tripped(<<>>)
      BY EmptyFacts
    <3>2. QED
      BY <1>0, <2>1, <2>2, <3>1, FreshMonitors DEF MonitorInv
  <2>6. OutInv' /\ PrefixInv'
    BY <1>0, <2>1 DEF OutInv, PrefixInv
  <2>7. QED
    BY <2>3, <2>4, <2>5, <2>6 DEF PInv
<1>5. CASE BatteryPasses
  <2>1. /\ at = "battery" /\ Len(tested) = StartupMin
        /\ at' = "idle" /\ absorbed' = <<>> /\ out' = <<>> /\ state' = "Operational"
        /\ monitor' = fresh /\ heard' = tested
        /\ UNCHANGED <<drawn, since, tested, katBroken>>
    BY <1>5 DEF BatteryPasses, Return
  <2>2. PipeTypes'
    BY <1>0, <2>1 DEF PipeTypes
  <2>3. state # "Poisoned"
    BY <1>0, <2>1 DEF CallInv
  <2>4. MonitorInv'
    BY <1>0, <2>1, <2>3 DEF MonitorInv
  <2>5. PrefixInv'
    <3>1. since \in Nat
      BY <1>0 DEF PipeTypes
    <3>2. tested = [i \in 1..Len(drawn) - since |-> since + i] /\ Len(tested) = Len(drawn) - since
      BY <1>0, <2>1, OneMore DEF CallInv, Following
    <3>3. \A i \in 1..StartupMin : tested[i] = since + i
      BY <2>1, <3>2
    <3>4. \A i \in 1..StartupMin : tested[i] = tested[1] - 1 + i
      BY <1>a, <3>1, <3>3
    <3>5. QED
      BY <1>a, <2>1, <3>4 DEF PrefixInv
  <2>6. QED
    BY <2>1, <2>2, <2>4, <2>5 DEF PInv, CallInv, OutInv
<1>6. CASE BeginBlock
  <2>1. /\ at = "idle" /\ state = "Operational" /\ at' = "block" /\ since' = Len(drawn) /\ out' = <<>>
        /\ UNCHANGED <<state, monitor, absorbed, drawn, heard, tested, katBroken>>
    BY <1>6 DEF BeginBlock, Enter, ReadyFor
  <2>2. PipeTypes'
    BY <1>0, <2>1 DEF PipeTypes
  <2>3. CallInv'
    <3>1. Following(Len(drawn), 0) = <<>> /\ Len(drawn) - Len(drawn) = 0
      BY <1>0, FollowingStep DEF PipeTypes
    <3>2. heard \in Seq(Nat) /\ absorbed = <<>>
      BY <1>0, <2>1 DEF PipeTypes, Names, CallInv
    <3>3. QED
      BY <2>1, <3>1, <3>2, EmptyFacts DEF CallInv
  <2>4. MonitorInv'
    BY <1>0, <2>1 DEF MonitorInv
  <2>5. PrefixInv'
    <3>1. StartupMin <= Len(heard) => heard[StartupMin] <= Len(drawn)
      BY <1>0, <1>a DEF PipeTypes, Names
    <3>2. QED
      BY <1>0, <2>1, <3>1 DEF PrefixInv
  <2>6. QED
    BY <2>1, <2>2, <2>3, <2>4, <2>5 DEF PInv, OutInv
<1>7. CASE FinishBlock
  <2>1. /\ at = "block" /\ at' = "idle" /\ absorbed' = <<>> /\ (out' = absorbed \/ out' = <<>>)
        /\ UNCHANGED <<state, monitor, drawn, since, heard, tested, katBroken>>
    BY <1>7 DEF FinishBlock, Return
  <2>2. PipeTypes'
    <3>1. absorbed \in Seq(Nat) /\ <<>> \in Seq(Nat)
      BY <1>0 DEF PipeTypes
    <3>2. QED
      BY <1>0, <2>1, <3>1 DEF PipeTypes
  <2>3. CallInv' /\ OutInv'
    BY <1>0, <2>1 DEF CallInv, OutInv
  <2>4. MonitorInv'
    BY <1>0, <2>1 DEF MonitorInv
  <2>5. PrefixInv'
    BY <1>0, <2>1 DEF PrefixInv
  <2>6. QED
    BY <2>2, <2>3, <2>4, <2>5 DEF PInv
<1>8. ASSUME NEW s \in Samples, TestSample(s) PROVE PInv'
  <2>1. /\ at = "battery" /\ Len(tested) < StartupMin /\ Emit(s) /\ tested' = Append(tested, ThisSample)
        /\ fresh' = Fed(fresh, s) /\ Verdict(fresh, s) = "ok"
        /\ UNCHANGED <<state, monitor, at, absorbed, out, since, heard, katBroken>>
    BY <1>8 DEF TestSample, Testing, returned
  <2>2. state # "Poisoned"
    BY <1>0, <2>1 DEF CallInv
  <2>3. /\ drawn' \in Seq(Samples) /\ Len(drawn') = Len(drawn) + 1
        /\ Names(heard, drawn') /\ Names(tested', drawn')
        /\ ValuesIn(drawn', heard) = ValuesIn(drawn, heard)
        /\ Monitors(Fed(fresh, s), ValuesIn(drawn', tested'))
        /\ ~Tripped(ValuesIn(drawn', tested'))
    BY <1>0, <2>1, <2>2, TestStep
  <2>4. PipeTypes'
    BY <1>0, <2>1, <2>3 DEF PipeTypes
  <2>5. CallInv'
    <3>1. tested' = Following(since, (Len(drawn) + 1) - since)
      BY <1>0, <2>1, OneMore DEF CallInv
    <3>2. Len(tested') = Len(tested) + 1
      BY <1>0, <2>1 DEF PipeTypes, Names
    <3>3. Len(tested') <= StartupMin
      BY <1>0, <1>a, <2>1, <3>2 DEF PipeTypes, Names
    <3>4. QED
      BY <1>0, <2>1, <2>2, <2>3, <3>1, <3>3 DEF CallInv
  <2>6. MonitorInv'
    BY <1>0, <2>1, <2>2, <2>3 DEF MonitorInv
  <2>7. OutInv' /\ PrefixInv'
    BY <1>0, <2>1 DEF CallInv, OutInv, PrefixInv
  <2>8. QED
    BY <2>4, <2>5, <2>6, <2>7 DEF PInv
<1>9. ASSUME NEW s \in Samples, BatteryTrips(s) PROVE PInv'
  <2>1. /\ at = "battery" /\ Emit(s) /\ tested' = Append(tested, ThisSample)
        /\ Verdict(fresh, s) # "ok" /\ state' = "Poisoned"
        /\ at' = "idle" /\ absorbed' = <<>> /\ out' = <<>>
        /\ UNCHANGED <<monitor, since, heard, katBroken>>
    BY <1>9 DEF BatteryTrips, Testing, Return
  <2>2. state # "Poisoned"
    BY <1>0, <2>1 DEF CallInv
  <2>3. /\ drawn' \in Seq(Samples) /\ Len(drawn') = Len(drawn) + 1
        /\ Names(heard, drawn') /\ Names(tested', drawn')
        /\ ValuesIn(drawn', heard) = ValuesIn(drawn, heard)
        /\ Tripped(ValuesIn(drawn', tested'))
    BY <1>0, <2>1, <2>2, TestStep
  <2>4. PipeTypes'
    BY <1>0, <2>1, <2>3 DEF PipeTypes
  <2>5. MonitorInv'
    BY <1>0, <2>1, <2>2, <2>3 DEF MonitorInv
  <2>6. QED
    BY <2>1, <2>4, <2>5 DEF PInv, CallInv, OutInv, PrefixInv
<1>10. ASSUME NEW s \in Samples, Sample(s) PROVE PInv'
  <2>1. /\ at = "idle" /\ state = "Operational" /\ Hear(s) /\ Verdict(monitor, s) = "ok"
        /\ since' = Len(drawn) /\ at' = "idle" /\ absorbed' = <<>> /\ out' = <<ThisSample>>
        /\ UNCHANGED <<state, tested, katBroken>>
    BY <1>10 DEF Sample, ReadyFor, Return
  <2>2. /\ drawn' \in Seq(Samples) /\ Len(drawn') = Len(drawn) + 1
        /\ Names(heard', drawn') /\ Names(tested, drawn')
        /\ ValuesIn(drawn', tested) = ValuesIn(drawn, tested)
        /\ Monitors(monitor', ValuesIn(drawn', heard'))
        /\ ~Tripped(ValuesIn(drawn', heard'))
    BY <1>0, <2>1, HearStep
  <2>3. heard \in Seq(Nat) /\ heard' = Append(heard, ThisSample) /\ ThisSample = Len(drawn) + 1
        /\ Len(drawn) \in Nat
    BY <1>0, <2>1 DEF Hear, PipeTypes, Names, ThisSample
  <2>4. PipeTypes'
    BY <1>0, <2>1, <2>2, <2>3 DEF PipeTypes
  <2>5. OutInv'
    <3>1. <<ThisSample>> = Append(<<>>, ThisSample)
      OBVIOUS
    <3>2. EndsWith(heard', <<ThisSample>>)
      <4>1. EndsWith(heard, <<>>) /\ ThisSample \in Nat /\ <<>> \in Seq(Nat)
        BY <2>3, EmptyFacts
      <4>2. EndsWith(Append(heard, ThisSample), Append(<<>>, ThisSample))
        BY <2>3, <4>1, EndsAppend
      <4>3. QED
        BY <2>3, <3>1, <4>2
    <3>3. <<ThisSample>> = Following(Len(drawn), 1)
      BY <2>3 DEF Following
    <3>4. Len(drawn') - since' = 1
      BY <2>1, <2>2, <2>3
    <3>5. QED
      BY <2>1, <3>2, <3>3, <3>4 DEF OutInv
  <2>6. MonitorInv'
    BY <1>0, <2>1, <2>2 DEF MonitorInv
  <2>7. PrefixInv'
    <3>1. StartupMin <= Len(heard) /\ heard[StartupMin] <= Len(drawn)
          /\ \A i \in 1..StartupMin : heard[i] = heard[1] - 1 + i
      BY <1>0, <1>a, <2>1 DEF PrefixInv, PipeTypes, Names
    <3>2. Len(heard') = Len(heard) + 1 /\ \A i \in 1..StartupMin : heard'[i] = heard[i]
      BY <1>a, <2>3, <3>1
    <3>3. StartupMin <= Len(heard')
      BY <1>a, <2>3, <3>1, <3>2
    <3>4. QED
      BY <1>a, <2>1, <3>1, <3>2, <3>3 DEF PrefixInv
  <2>8. CallInv'
    BY <2>1 DEF CallInv
  <2>9. QED
    BY <2>4, <2>5, <2>6, <2>7, <2>8 DEF PInv
<1>11. ASSUME NEW s \in Samples, SampleTrips(s) PROVE PInv'
  <2>1. /\ Hear(s) /\ Verdict(monitor, s) # "ok" /\ state' = "Poisoned"
        /\ since' \in {since, Len(drawn)} /\ at' = "idle" /\ absorbed' = <<>> /\ out' = <<>>
        /\ UNCHANGED <<tested, katBroken>>
    BY <1>11 DEF SampleTrips, Return
  <2>2. state # "Poisoned"
    BY <1>0, <1>11 DEF SampleTrips, Sampling, ReadyFor, CallInv
  <2>3. /\ drawn' \in Seq(Samples) /\ Len(drawn') = Len(drawn) + 1
        /\ Names(heard', drawn') /\ Names(tested, drawn')
        /\ ValuesIn(drawn', tested) = ValuesIn(drawn, tested)
        /\ Monitors(monitor', ValuesIn(drawn', heard'))
        /\ Tripped(ValuesIn(drawn', heard'))
    BY <1>0, <2>1, <2>2, HearStep
  <2>4. PipeTypes'
    BY <1>0, <2>1, <2>3 DEF PipeTypes
  <2>5. MonitorInv'
    BY <2>1, <2>3 DEF MonitorInv
  <2>6. QED
    BY <2>1, <2>4, <2>5 DEF PInv, CallInv, OutInv, PrefixInv
<1>12. ASSUME NEW s \in Samples, Absorb(s) PROVE PInv'
  <2>1. /\ at = "block" /\ Hear(s) /\ Verdict(monitor, s) = "ok"
        /\ absorbed' = Append(absorbed, ThisSample)
        /\ UNCHANGED <<state, at, fresh, out, since, tested, katBroken>>
    BY <1>12 DEF Absorb, returned
  <2>2. state = "Operational"
    BY <1>0, <2>1 DEF CallInv
  <2>3. /\ drawn' \in Seq(Samples) /\ Len(drawn') = Len(drawn) + 1
        /\ Names(heard', drawn') /\ Names(tested, drawn')
        /\ ValuesIn(drawn', tested) = ValuesIn(drawn, tested)
        /\ Monitors(monitor', ValuesIn(drawn', heard'))
        /\ ~Tripped(ValuesIn(drawn', heard'))
    BY <1>0, <2>1, <2>2, HearStep
  <2>4. /\ heard \in Seq(Nat) /\ heard' = Append(heard, ThisSample) /\ ThisSample \in Nat
        /\ absorbed \in Seq(Nat) /\ EndsWith(heard, absorbed)
    BY <1>0, <2>1 DEF Hear, PipeTypes, Names, ThisSample, CallInv
  <2>5. PipeTypes'
    <3>1. absorbed' \in Seq(Nat)
      BY <2>1, <2>4
    <3>2. QED
      BY <1>0, <2>1, <2>3, <3>1 DEF PipeTypes
  <2>6. CallInv'
    <3>1. absorbed' = Following(since, (Len(drawn) + 1) - since)
      BY <1>0, <2>1, OneMore DEF CallInv
    <3>2. EndsWith(heard', absorbed')
      BY <2>1, <2>4, EndsAppend
    <3>3. QED
      BY <1>0, <2>1, <2>2, <2>3, <3>1, <3>2 DEF CallInv
  <2>7. MonitorInv'
    BY <1>0, <2>1, <2>2, <2>3 DEF MonitorInv
  <2>8. PrefixInv'
    <3>1. StartupMin <= Len(heard) /\ heard[StartupMin] <= since
          /\ \A i \in 1..StartupMin : heard[i] = heard[1] - 1 + i
      BY <1>0, <2>1, <2>2 DEF PrefixInv
    <3>2. Len(heard') = Len(heard) + 1 /\ \A i \in 1..StartupMin : heard'[i] = heard[i]
      BY <1>a, <2>4, <3>1
    <3>3. StartupMin <= Len(heard')
      BY <1>a, <2>4, <3>1, <3>2
    <3>4. QED
      BY <1>a, <2>1, <3>1, <3>2, <3>3 DEF PrefixInv
  <2>9. OutInv'
    BY <1>0, <2>1 DEF CallInv, OutInv
  <2>10. QED
    BY <2>5, <2>6, <2>7, <2>8, <2>9 DEF PInv
<1>13. ASSUME UNCHANGED <<state, monitor, at, fresh, absorbed, out, drawn, since, heard, tested, katBroken>>
       PROVE  PInv'
  BY <1>0, <1>13 DEF PInv, PipeTypes, CallInv, OutInv, MonitorInv, PrefixInv
<1>14. CASE Lifecycle
  BY <1>13, <1>14 DEF Lifecycle, localVars, returned
<1>15. CASE UNCHANGED vars
  BY <1>13, <1>15 DEF vars, localVars, returned
<1>16. QED
  BY <1>1, <1>2, <1>3, <1>4, <1>5, <1>6, <1>7, <1>8, <1>9, <1>10, <1>11, <1>12, <1>14, <1>15
  DEF Next, PipelineStep

\* A theorem of any specification whose steps are steps of the pipeline or leave it alone.
LEMMA Heard == PInv => StateIsHeard /\ OutputIsFresh
<1> SUFFICES ASSUME PInv PROVE StateIsHeard /\ OutputIsFresh
  OBVIOUS
<1>1. PipeTypes /\ OutInv /\ MonitorInv /\ PrefixInv
  BY DEF PInv
<1>2. heard \in Seq(Nat) /\ StartupMin \in Nat \ {0} /\ since \in Nat
      /\ \A i \in 1..Len(heard) : heard[i] \in 1..Len(drawn)
  BY <1>1, PipelineAssumption DEF PipeTypes, Names
<1>3. OutputIsFresh
  BY <1>1, <1>2, EndsSubSeq DEF OutputIsFresh, OutInv, PipeTypes
<1>4. Values(heard) = ValuesIn(drawn, heard) /\ Values(tested) = ValuesIn(drawn, tested)
  BY DEF Values, ValuesIn
<1>5. (state = "Poisoned") <=> (katBroken \/ Tripped(Values(heard)) \/ Tripped(Values(tested)))
  BY <1>1, <1>4 DEF MonitorInv
<1>6. ASSUME state = "Operational"
      PROVE  /\ Len(heard) >= StartupMin
             /\ SubSeq(heard, 1, StartupMin) = Following(heard[1] - 1, StartupMin)
             /\ \A i \in DOMAIN out : out[i] > heard[StartupMin]
  <2>1. StartupMin <= Len(heard) /\ \A i \in 1..StartupMin : heard[i] = heard[1] - 1 + i
    BY <1>1, <1>6 DEF PrefixInv
  <2>2. heard[1] - 1 \in Nat
    <3>1. Len(heard) \in Nat /\ Len(drawn) \in Nat
      BY <1>1, <1>2 DEF PipeTypes
    <3>2. 1 \in 1..Len(heard)
      BY <1>2, <2>1, <3>1
    <3>3. heard[1] \in 1..Len(drawn)
      BY <1>2, <3>2
    <3>4. QED
      BY <3>1, <3>3
  <2>3. SubSeq(heard, 1, StartupMin) = Following(heard[1] - 1, StartupMin)
    BY <1>2, <2>1, <2>2, PrefixSubSeq
  <2>4. ASSUME NEW i \in DOMAIN out PROVE out[i] > heard[StartupMin]
    <3>1. out # <<>>
      BY <2>4
    <3>2. out = [k \in 1..Len(drawn) - since |-> since + k] /\ heard[StartupMin] <= since
      BY <1>1, <1>6, <3>1 DEF OutInv, Following, PrefixInv
    <3>3. out[i] = since + i /\ i \in 1..Len(drawn) - since
      BY <2>4, <3>2
    <3>4. heard[StartupMin] \in Nat /\ Len(drawn) \in Nat
      BY <1>1, <1>2, <2>1 DEF PipeTypes
    <3>5. QED
      BY <1>2, <3>2, <3>3, <3>4
  <2>5. QED
    BY <1>2, <2>1, <2>3, <2>4
<1>7. QED
  BY <1>3, <1>5, <1>6 DEF StateIsHeard

-----------------------------------------------------------------------------
(* The generator.                                                          *)

RngTypes ==
  /\ rng \in {"idle", "filling", "drawing"} /\ left \in Nat
  /\ dst \in Seq(Nat \X Nat) /\ block \in Nat /\ pos \in 0..BlockLen
  /\ failed \in BOOLEAN /\ last \in Nat \X Nat /\ tail \in Nat

\* Where a fill stands, and what the pipeline is doing for it.
FillInv ==
  /\ rng = "idle" => dst = <<>>
  /\ failed => rng = "idle" /\ block = 0
  /\ rng = "filling" => at = "idle"
  /\ rng = "drawing" =>
       /\ at \in {"idle", "block"} /\ left > 0 /\ pos = BlockLen
       /\ at = "idle" /\ result = "ok" => state = "Operational" /\ out # <<>>

\* Once it is poisoned, what was taken since and what is left make less than a block:
\* a block is only taken to be served at once.
TailInv ==
  IF state = "Poisoned" THEN tail < pos
  ELSE tail = 0 /\ (pos > 0 \/ (rng = "filling" /\ left > 0))

\* The buffered bytes, and those of the block in progress, come after the last one taken.
LastInv ==
  /\ last[1] <= Len(drawn) /\ block <= Len(drawn)
  /\ pos < BlockLen => block > 0 /\ Later(<<block, pos>>, last)
  /\ rng = "drawing" /\ (at = "block" \/ result = "ok") => last[1] <= since

RngInv == PInv /\ RngTypes /\ FillInv /\ TailInv /\ LastInv

\* What a step of the pipeline may do to a generator.
LEMMA Onward ==
  ASSUME PInv, [Next]_vars
  PROVE  /\ Len(drawn') \in Nat /\ Len(drawn) \in Nat /\ Len(drawn) <= Len(drawn')
         /\ state = "Poisoned" => state' = "Poisoned"
<1>1. PipeTypes /\ CallInv /\ PInv'
  BY PipeStep DEF PInv
<1>2. drawn \in Seq(Samples) /\ drawn' \in Seq(Samples)
  BY <1>1 DEF PInv, PipeTypes
<1>3. drawn' = drawn \/ \E s \in Samples : drawn' = Append(drawn, s)
  BY DEF Next, PipelineStep, NotReady, ModuleRefuses, KatFails, StartBattery, Enter, Return, TestSample,
         BatteryTrips, BatteryPasses, Sample, SampleTrips, BeginBlock, Absorb, FinishBlock, SourceFails,
         Lifecycle, Hear, Emit, vars
<1>4. Len(drawn') \in Nat /\ Len(drawn) \in Nat /\ Len(drawn) <= Len(drawn')
  BY <1>2, <1>3
<1>5. state = "Poisoned" => state' = "Poisoned"
  BY <1>1
  DEF CallInv, Next, PipelineStep, NotReady, ModuleRefuses, KatFails, StartBattery, Enter, Return,
      TestSample, BatteryTrips, BatteryPasses, Sample, SampleTrips, BeginBlock, Absorb, FinishBlock,
      SourceFails, Lifecycle, Hear, vars
<1>6. QED
  BY <1>4, <1>5

\* Every step of the generator is one of the pipeline, or leaves it alone.
LEMMA RngSteps == [RngNext]_allVars => [Next]_vars
<1> SUFFICES ASSUME [RngNext]_allVars PROVE [Next]_vars
  OBVIOUS
<1>1. \A c : c = "conditioned_block" => c \in Calls
  BY DEF Calls
<1>2. CASE DrawBlock
  BY <1>1, <1>2 DEF DrawBlock, Next, PipelineStep
<1>3. CASE BlockStep
  BY <1>3 DEF BlockStep, Next, PipelineStep
<1>4. CASE OwnerCall \/ ModuleStep
  BY <1>4 DEF OwnerCall, ModuleStep, Next
<1>5. CASE RefuseFill \/ BeginFill \/ TakeByte \/ TakeBlock \/ FailFill \/ EndFill \/ Rewrap
  BY <1>5 DEF RefuseFill, BeginFill, TakeByte, TakeBlock, FailFill, EndFill, Rewrap
<1>6. CASE UNCHANGED allVars
  BY <1>6 DEF allVars
<1>7. QED
  BY <1>2, <1>3, <1>4, <1>5, <1>6 DEF RngNext

\* An adapter begins with no block, over a pipeline that begins.
LEMMA RngInitial == RngInit => RngInv
<1> SUFFICES ASSUME RngInit PROVE RngInv
  OBVIOUS
<1>1. PInv
  BY PipeInit DEF RngInit
<1>2. /\ rng = "idle" /\ left = 0 /\ dst = <<>> /\ block = 0 /\ pos = BlockLen /\ failed = FALSE
      /\ last = <<0, 0>> /\ tail = 0 /\ state = "AwaitingStartup" /\ drawn = <<>>
  BY DEF RngInit, Init
<1>3. BlockLen \in Nat \ {0} /\ Len(<<>>) = 0
  BY RngAssumption
<1>4. RngTypes
  <2>1. dst \in Seq(Nat \X Nat) /\ last \in Nat \X Nat
    BY <1>2
  <2>2. pos \in 0..BlockLen
    BY <1>2, <1>3
  <2>3. QED
    BY <1>2, <2>1, <2>2 DEF RngTypes
<1>5. LastInv
  BY <1>2, <1>3 DEF LastInv
<1>6. FillInv /\ TailInv
  BY <1>2, <1>3 DEF FillInv, TailInv
<1>7. QED
  BY <1>1, <1>4, <1>5, <1>6 DEF RngInv

\* Every step of the adapter keeps its invariant, those of the pipeline under it included
\* (rng.rs: try_fill_bytes, fill, into_pipeline and new).
THEOREM RngStep == RngInv /\ [RngNext]_allVars => RngInv'
<1> SUFFICES ASSUME RngInv, [RngNext]_allVars PROVE RngInv'
  OBVIOUS
<1>0. RngTypes /\ FillInv /\ TailInv /\ LastInv /\ PInv /\ PInv'
  BY RngSteps, PipeStep DEF RngInv
<1>a. BlockLen \in Nat \ {0} /\ SamplesPerBlock \in Nat \ {0}
  BY RngAssumption, PipelineAssumption
<1>b. /\ Len(drawn') \in Nat /\ Len(drawn) \in Nat /\ Len(drawn) <= Len(drawn')
      /\ state = "Poisoned" => state' = "Poisoned"
  BY <1>0, RngSteps, Onward
<1>c. last[1] \in Nat /\ last[2] \in Nat /\ block \in Nat /\ pos \in 0..BlockLen
  BY <1>0 DEF RngTypes
<1>1. CASE RefuseFill \/ Rewrap
  <2>1. /\ rng = "idle" /\ block' = 0 /\ pos' = BlockLen /\ failed' \in BOOLEAN
        /\ UNCHANGED <<vars, rng, left, dst, last, tail>>
    BY <1>1 DEF RefuseFill, Rewrap, Discard
  <2>2. UNCHANGED <<state, at, result, out, drawn, since>>
    BY <2>1 DEF vars, returned, localVars
  <2>3. RngTypes'
    BY <1>0, <1>a, <2>1 DEF RngTypes
  <2>4. FillInv'
    BY <1>0, <2>1, <2>2 DEF FillInv
  <2>5. TailInv'
    BY <1>0, <1>a, <2>1, <2>2 DEF TailInv, RngTypes
  <2>6. LastInv'
    BY <1>0, <1>a, <1>b, <2>1, <2>2 DEF LastInv
  <2>7. QED
    BY <1>0, <2>3, <2>4, <2>5, <2>6 DEF RngInv
<1>2. CASE BeginFill
  <2>1. /\ rng = "idle" /\ at = "idle" /\ rng' = "filling" /\ failed' = FALSE /\ left' \in Nat
        /\ UNCHANGED <<vars, dst, block, pos, last, tail>>
    BY <1>2, RngAssumption DEF BeginFill, buffer
  <2>2. UNCHANGED <<state, at, result, out, drawn, since>>
    BY <2>1 DEF vars, returned, localVars
  <2>3. RngTypes'
    BY <1>0, <2>1 DEF RngTypes
  <2>4. FillInv'
    BY <2>1, <2>2 DEF FillInv
  <2>5. TailInv'
    BY <1>0, <2>1, <2>2 DEF TailInv
  <2>6. LastInv'
    BY <1>0, <2>1, <2>2 DEF LastInv
  <2>7. QED
    BY <1>0, <2>3, <2>4, <2>5, <2>6 DEF RngInv
<1>3. CASE TakeByte
  <2>1. /\ rng = "filling" /\ left > 0 /\ pos < BlockLen
        /\ dst' = Append(dst, <<block, pos>>) /\ last' = <<block, pos>> /\ left' = left - 1
        /\ tail' = IF state = "Poisoned" THEN tail + 1 ELSE tail
        /\ IF pos + 1 >= BlockLen THEN block' = 0 /\ pos' = BlockLen ELSE pos' = pos + 1 /\ block' = block
        /\ UNCHANGED <<vars, rng, failed>>
    BY <1>3, <1>a, <1>c DEF TakeByte, Drained, Discard
  <2>2. UNCHANGED <<state, at, result, out, drawn, since>>
    BY <2>1 DEF vars, returned, localVars
  <2>3. pos' = pos + 1 /\ block' \in {0, block} /\ (pos + 1 < BlockLen => block' = block)
        /\ last'[1] = block /\ last'[2] = pos
    BY <1>a, <1>c, <2>1
  <2>4. RngTypes'
    <3>1. dst' \in Seq(Nat \X Nat) /\ last' \in Nat \X Nat
      BY <1>0, <1>c, <2>1 DEF RngTypes
    <3>2. left' \in Nat /\ tail' \in Nat /\ pos' \in 0..BlockLen /\ block' \in Nat
      BY <1>0, <1>a, <1>c, <2>1, <2>3 DEF RngTypes
    <3>3. QED
      BY <1>0, <2>1, <3>1, <3>2 DEF RngTypes
  <2>5. FillInv'
    BY <1>0, <2>1, <2>2 DEF FillInv
  <2>6. TailInv'
    BY <1>0, <1>c, <2>1, <2>2, <2>3 DEF TailInv, RngTypes
  <2>7. LastInv'
    <3>1. block <= Len(drawn) /\ block > 0
      BY <1>0, <2>1 DEF LastInv
    <3>2. pos' < BlockLen => block' = block /\ Later(<<block', pos'>>, last')
      BY <1>a, <1>c, <2>3 DEF Later
    <3>3. QED
      BY <1>b, <1>c, <2>1, <2>2, <2>3, <3>1, <3>2 DEF LastInv
  <2>8. QED
    BY <1>0, <2>4, <2>5, <2>6, <2>7 DEF RngInv
<1>4. CASE DrawBlock
  <2>1. /\ rng = "filling" /\ left > 0 /\ pos = BlockLen /\ rng' = "drawing"
        /\ UNCHANGED <<left, dst, block, pos, failed, last, tail, state, drawn>>
    BY <1>4, <1>a, <1>c
    DEF DrawBlock, Drained, buffer, BeginBlock, NotReady, ModuleRefuses, Enter, Return
  <2>2. \/ at' = "block" /\ since' = Len(drawn) /\ result' = "none"
        \/ at' = "idle" /\ result' # "ok"
    BY <1>4 DEF DrawBlock, BeginBlock, NotReady, ModuleRefuses, Enter, Return
  <2>3. RngTypes'
    BY <1>0, <2>1 DEF RngTypes
  <2>4. FillInv'
    BY <1>0, <2>1, <2>2 DEF FillInv
  <2>5. TailInv'
    BY <1>0, <1>a, <2>1 DEF TailInv
  <2>6. LastInv'
    BY <1>0, <2>1, <2>2 DEF LastInv
  <2>7. QED
    BY <1>0, <2>3, <2>4, <2>5, <2>6 DEF RngInv
<1>5. CASE BlockStep
  <2>1. rng = "drawing" /\ at = "block" /\ UNCHANGED rngVars
    BY <1>5 DEF BlockStep
  <2>2. UNCHANGED <<rng, left, dst, block, pos, failed, last, tail>>
    BY <2>1 DEF rngVars, buffer
  <2>3. since' = since /\ state = "Operational"
    BY <1>0, <1>5, <2>1
    DEF BlockStep, FinishBlock, SourceFails, Absorb, SampleTrips, PInv, CallInv
  <2>4. /\ at' \in {"idle", "block"}
        /\ at' = "idle" /\ result' = "ok" => state' = "Operational" /\ out' # <<>>
    <3>1. CASE FinishBlock
      <4>1. absorbed # <<>>
        BY <1>a, <3>1 DEF FinishBlock
      <4>2. QED
        BY <2>3, <3>1, <4>1 DEF FinishBlock, Return
    <3>2. CASE SourceFails
      BY <3>2 DEF SourceFails, Return
    <3>3. ASSUME NEW s \in Samples, Absorb(s) PROVE at' = "block"
      BY <2>1, <3>3 DEF Absorb
    <3>4. ASSUME NEW s \in Samples, SampleTrips(s) PROVE at' = "idle" /\ result' # "ok"
      BY <3>4 DEF SampleTrips, Return
    <3>5. QED
      BY <1>5, <3>1, <3>2, <3>3, <3>4 DEF BlockStep
  <2>5. RngTypes'
    BY <1>0, <2>2 DEF RngTypes
  <2>6. FillInv'
    BY <1>0, <2>1, <2>2, <2>4 DEF FillInv
  <2>7. TailInv'
    BY <1>0, <1>a, <2>1, <2>2, <2>3 DEF TailInv, FillInv
  <2>8. LastInv'
    BY <1>0, <1>b, <1>c, <2>1, <2>2, <2>3 DEF LastInv
  <2>9. QED
    BY <1>0, <2>5, <2>6, <2>7, <2>8 DEF RngInv
<1>6. CASE TakeBlock
  <2>1. /\ rng = "drawing" /\ at = "idle" /\ result = "ok" /\ block' = out[1] /\ pos' = 0
        /\ rng' = "filling" /\ UNCHANGED <<vars, left, dst, failed, last, tail>>
    BY <1>6 DEF TakeBlock
  <2>2. UNCHANGED <<state, at, result, out, drawn, since>>
    BY <2>1 DEF vars, returned, localVars
  <2>3. state = "Operational" /\ out # <<>> /\ left > 0 /\ last[1] <= since
    BY <1>0, <2>1 DEF FillInv, LastInv
  <2>4. out[1] = since + 1 /\ since + 1 <= Len(drawn) /\ since \in Nat
    <3>1. out = Following(since, Len(drawn) - since) /\ since \in Nat /\ since <= Len(drawn) /\ out \in Seq(Nat)
      BY <1>0, <1>b, <2>3 DEF PInv, OutInv, PipeTypes
    <3>a. Len(drawn) - since \in Nat
      BY <1>b, <3>1
    <3>2. Len(out) = Len(drawn) - since
      BY <3>1, <3>a, FollowingStep
    <3>3. Len(drawn) - since # 0
      BY <2>3, <3>1, <3>2
    <3>4. 1 \in 1..Len(drawn) - since
      BY <3>2, <3>3, <3>a
    <3>5. out[1] = since + 1
      BY <3>1, <3>4 DEF Following
    <3>6. since + 1 <= Len(drawn)
      BY <1>b, <3>1, <3>3
    <3>7. QED
      BY <3>1, <3>5, <3>6
  <2>5. RngTypes'
    BY <1>0, <1>a, <2>1, <2>4 DEF RngTypes
  <2>6. FillInv'
    BY <1>0, <2>1, <2>2 DEF FillInv
  <2>7. TailInv'
    BY <1>0, <2>1, <2>2, <2>3 DEF TailInv
  <2>8. LastInv'
    <3>1. Later(<<out[1], 0>>, last) /\ out[1] > 0
      BY <1>c, <2>3, <2>4 DEF Later
    <3>2. QED
      BY <1>0, <1>c, <2>1, <2>2, <2>3, <2>4, <3>1 DEF LastInv
  <2>9. QED
    BY <1>0, <2>5, <2>6, <2>7, <2>8 DEF RngInv
<1>7. CASE FailFill
  <2>1. /\ block' = 0 /\ pos' = BlockLen /\ rng' = "idle" /\ left' = 0 /\ dst' = <<>> /\ failed' = TRUE
        /\ UNCHANGED <<vars, last, tail>>
    BY <1>7 DEF FailFill, Discard
  <2>2. UNCHANGED <<state, at, result, out, drawn, since>>
    BY <2>1 DEF vars, returned, localVars
  <2>3. <<>> \in Seq(Nat \X Nat)
    OBVIOUS
  <2>4. RngTypes'
    BY <1>0, <1>a, <2>1, <2>3 DEF RngTypes
  <2>5. FillInv'
    BY <2>1 DEF FillInv
  <2>6. TailInv'
    BY <1>0, <1>a, <1>c, <2>1, <2>2 DEF TailInv, RngTypes
  <2>7. LastInv'
    BY <1>0, <1>a, <1>b, <2>1, <2>2 DEF LastInv
  <2>8. QED
    BY <1>0, <2>4, <2>5, <2>6, <2>7 DEF RngInv
<1>8. CASE EndFill
  <2>1. /\ rng = "filling" /\ left = 0 /\ rng' = "idle" /\ dst' = <<>>
        /\ UNCHANGED <<vars, left, block, pos, failed, last, tail>>
    BY <1>8 DEF EndFill, buffer
  <2>2. UNCHANGED <<state, at, result, out, drawn, since>>
    BY <2>1 DEF vars, returned, localVars
  <2>3. <<>> \in Seq(Nat \X Nat)
    OBVIOUS
  <2>4. RngTypes'
    BY <1>0, <2>1, <2>3 DEF RngTypes
  <2>5. FillInv'
    BY <1>0, <2>1 DEF FillInv
  <2>6. TailInv'
    BY <1>0, <2>1, <2>2 DEF TailInv
  <2>7. LastInv'
    BY <1>0, <2>1, <2>2 DEF LastInv
  <2>8. QED
    BY <1>0, <2>4, <2>5, <2>6, <2>7 DEF RngInv
<1>9. CASE OwnerCall
  <2>1. rng = "idle" /\ UNCHANGED <<rng, left, dst, block, pos, failed, last, tail>>
    BY <1>9 DEF OwnerCall, rngVars, buffer
  <2>2. RngTypes' /\ FillInv'
    BY <1>0, <2>1 DEF RngTypes, FillInv
  <2>3. TailInv'
    BY <1>0, <1>b, <1>c, <2>1 DEF TailInv
  <2>4. LastInv'
    BY <1>0, <1>b, <1>c, <2>1 DEF LastInv
  <2>5. QED
    BY <1>0, <2>2, <2>3, <2>4 DEF RngInv
<1>10. CASE ModuleStep \/ UNCHANGED allVars
  <2>1. /\ UNCHANGED <<rng, left, dst, block, pos, failed, last, tail>>
        /\ UNCHANGED <<state, at, result, out, drawn, since>>
    BY <1>10 DEF ModuleStep, Lifecycle, allVars, rngVars, buffer, vars, returned, localVars
  <2>2. RngTypes' /\ FillInv' /\ TailInv' /\ LastInv'
    BY <1>0, <2>1 DEF RngTypes, FillInv, TailInv, LastInv
  <2>3. QED
    BY <1>0, <2>2 DEF RngInv
<1>11. QED
  BY <1>1, <1>2, <1>3, <1>4, <1>5, <1>6, <1>7, <1>8, <1>9, <1>10 DEF RngNext

\* The invariant of the adapter over its pipeline (EntropyRng, rng.rs).
THEOREM RngInvariant == RngSpec => []RngInv
  BY RngInitial, RngStep, PTL DEF RngSpec

\* The invariant of a pipeline that is used without the adapter (Pipeline::fill).
THEOREM PipelineInvariant == Spec => []PInv
  BY PipeInit, PipeStep, PTL DEF Spec

\* For any cutoffs, window and start-up length the pipeline is poisoned exactly when the
\* known-answer test failed or a monitor heard what fails a test, and it operates only on a
\* source whose first samples were heard without a gap and never given out (Pipeline::state).
THEOREM SourceIsJudged == RngSpec => []StateIsHeard
<1>1. RngInv => StateIsHeard
  BY Heard DEF RngInv
<1>2. QED
  BY <1>1, RngInvariant, PTL

\* What Pipeline::fill gives out was drawn in that call without a gap and is the last its
\* monitor heard.
THEOREM OutputIsNew == RngSpec => []OutputIsFresh
<1>1. RngInv => OutputIsFresh
  BY Heard DEF RngInv
<1>2. QED
  BY <1>1, RngInvariant, PTL

\* After a refusal or a failed draw nothing conditioned earlier is left but the tail of one block
\* (EntropyRng::try_fill_bytes).
THEOREM TailOnly == RngSpec => []PoisonedServesTailOnly
<1>1. RngInv => PoisonedServesTailOnly
  <2> SUFFICES ASSUME RngInv PROVE PoisonedServesTailOnly
    OBVIOUS
  <2>1. RngTypes /\ FillInv /\ TailInv /\ BlockLen \in Nat \ {0}
    BY RngAssumption DEF RngInv
  <2>2. tail < BlockLen
    BY <2>1 DEF RngTypes, TailInv
  <2>3. QED
    BY <2>1, <2>2 DEF FillInv, PoisonedServesTailOnly
<1>2. QED
  BY <1>1, RngInvariant, PTL

\* No byte of a block is given out twice, and none of a block that was not finished
\* (EntropyRng::try_fill_bytes, its buffer and its position).
THEOREM NoByteTwice == RngSpec => BytesOnce
<1> DEFINE Once == dst' # <<>> /\ dst' # dst =>
                     LET b == dst'[Len(dst')]
                     IN b[1] > 0 /\ b[2] \in 0..(BlockLen - 1) /\ Later(b, last)
<1>1. RngInv /\ [RngNext]_allVars => [Once]_allVars
  <2> SUFFICES ASSUME RngInv, [RngNext]_allVars PROVE Once
    OBVIOUS
  <2>1. CASE TakeByte
    <3>1. dst' = Append(dst, <<block, pos>>) /\ dst \in Seq(Nat \X Nat) /\ pos < BlockLen
          /\ pos \in Nat /\ block \in Nat /\ BlockLen \in Nat
      BY <2>1, RngAssumption DEF TakeByte, Drained, RngInv, RngTypes
    <3>2. dst'[Len(dst')] = <<block, pos>>
      BY <3>1
    <3>3. block > 0 /\ Later(<<block, pos>>, last)
      BY <3>1 DEF RngInv, LastInv
    <3>4. QED
      BY <3>1, <3>2, <3>3
  <2>2. CASE ~TakeByte
    <3>1. dst' = dst \/ dst' = <<>>
      BY <2>2 DEF RngNext, RefuseFill, BeginFill, DrawBlock, BlockStep, TakeBlock, FailFill, EndFill,
                  Rewrap, OwnerCall, ModuleStep, rngVars, allVars
    <3>2. QED
      BY <3>1
  <2>3. QED
    BY <2>1, <2>2
<1>2. QED
  BY <1>1, RngInvariant, PTL DEF RngSpec, BytesOnce

-----------------------------------------------------------------------------
(***************************************************************************)
(* The pipeline behind the generator: whatever the rand_core adapter does  *)
(* with it, in any interleaving with its owner, the pipeline takes the     *)
(* steps of EntropyPipeline and no other, so what holds of every behaviour *)
(* of the pipeline alone holds of the one inside EntropyRng.               *)
(***************************************************************************)
THEOREM BehindTheGenerator == RngSpec => Spec
<1>1. RngInit => Init
  BY DEF RngInit
<1>2. [RngNext]_allVars => [Next]_vars
  <2> SUFFICES ASSUME RngNext PROVE Next \/ UNCHANGED vars
    BY DEF allVars
  <2>1. CASE DrawBlock
    BY <2>1 DEF DrawBlock, Next, PipelineStep, Calls
  <2>2. CASE BlockStep
    BY <2>2 DEF BlockStep, Next, PipelineStep
  <2>3. CASE OwnerCall \/ ModuleStep
    BY <2>3 DEF OwnerCall, ModuleStep, Next
  <2>4. CASE RefuseFill \/ BeginFill \/ TakeByte \/ TakeBlock \/ FailFill \/ EndFill \/ Rewrap
    BY <2>4 DEF RefuseFill, BeginFill, TakeByte, TakeBlock, FailFill, EndFill, Rewrap
  <2>5. QED
    BY <2>1, <2>2, <2>3, <2>4 DEF RngNext
<1>3. QED
  BY <1>1, <1>2, PTL DEF RngSpec, Spec

(***************************************************************************)
(* And the module around the two goes through its lifecycle: a step of the *)
(* pipeline or of the generator is one transition of it or leaves it alone.*)
(***************************************************************************)
THEOREM KeepsLifecycle == RngSpec => Boundary!Spec
<1>1. Init => Boundary!Init
  BY DEF Init
<1>2. [Next]_vars => [Boundary!Next]_(Boundary!lifecycleVars)
  <2> SUFFICES ASSUME [Next]_vars PROVE UNCHANGED phase \/ Boundary!Next
    BY DEF Boundary!lifecycleVars
  <2>1. CASE Lifecycle
    BY <2>1 DEF Lifecycle
  <2>2. ASSUME PipelineStep PROVE UNCHANGED phase
    BY <2>2 DEF PipelineStep, NotReady, ModuleRefuses, KatFails, StartBattery, Enter, TestSample,
       BatteryTrips, BatteryPasses, Sample, SampleTrips, BeginBlock, Absorb, FinishBlock,
       SourceFails, Return
  <2>3. QED
    BY <2>1, <2>2 DEF Next, vars
<1>3. QED
  BY <1>1, <1>2, BehindTheGenerator, PTL DEF Spec, Boundary!Spec

=============================================================================
