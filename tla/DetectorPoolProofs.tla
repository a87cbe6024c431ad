------------------------- MODULE DetectorPoolProofs -------------------------
(***************************************************************************)
(* What the Fusion Engine makes of the answers of the detectors, for every *)
(* reading of theirs and every configuration in which 40 % counts.         *)
(***************************************************************************)
EXTENDS DetectorPool, DataFacts

LEMMA QuotientAtLeast ==
  ASSUME NEW a \in Int, NEW b \in Nat, b > 0, NEW q \in Int
  PROVE  (a \div b) \in Int /\ (a \div b >= q <=> a >= q * b)
  OBVIOUS

LEMMA VerdictFields ==
  ASSUME NEW m, NEW d \in BOOLEAN, NEW s, NEW c, s # "N/A"
  PROVE  /\ Verdict(m, d, s, c).model = m
         /\ Verdict(m, d, s, c).confidence = c
         /\ Verdict(m, d, s, c).detected = d
         /\ Verdict(m, d, s, c).severity = IF d THEN s ELSE "N/A"
  BY DEF Verdict

LEMMA Grades ==
  ASSUME NEW x \in Int, NEW critical \in Int, NEW high \in Int, high < critical
  PROVE  /\ Graded(x, critical, high) # "N/A"
         /\ Graded(x, critical, high) \in {"HIGH", "CRITICAL"} <=> x >= high
         /\ Graded(x, critical, high) = "CRITICAL" <=> x >= critical
  BY DEF Graded

\* A verdict that is severe, and not disputed, is of 40 % at least.
Sure(v) == v.detected /\ v.confidence \in Int /\ v.confidence >= 4000

LEMMA CpuIsSure ==
  ASSUME NEW s \in [z : Nat, cpu : Nat, mem : Nat],
         CpuVerdict(s).severity \in {"HIGH", "CRITICAL"}
  PROVE  Sure(CpuVerdict(s))
<1> DEFINE detected == s.z > 200 \/ s.cpu > 7000 \/ s.mem > 7000
           severity == IF s.z > 200 THEN Graded(s.z, 500, 300)
                       ELSE IF s.cpu > 7000 THEN Graded(s.cpu, 9500, 8500)
                       ELSE Graded(s.mem, 9500, 8500)
           confidence == Larger(AtMost(Ratio(s.z, 600), 9500),
                                     AtMost(Larger(s.cpu, s.mem), 9000))
<1>1. /\ severity # "N/A"
      /\ severity \in {"HIGH", "CRITICAL"} => s.z >= 300 \/ s.cpu >= 8500 \/ s.mem >= 8500
  BY Grades
<1>2. Ratio(s.z, 600) \in Int /\ (s.z >= 300 => Ratio(s.z, 600) >= 5000)
  BY DEF Ratio
<1>3. /\ confidence \in Int
      /\ s.z >= 300 \/ s.cpu >= 8500 \/ s.mem >= 8500 => confidence >= 4000
  BY <1>2 DEF Larger, AtMost, AtLeast
<1>4. CpuVerdict(s) = Verdict(cpu, detected, severity, IF detected THEN confidence ELSE 0)
  BY DEF CpuVerdict
<1>5. detected \in BOOLEAN
  OBVIOUS
<1> HIDE DEF detected, severity, confidence
<1> QED
  BY <1>1, <1>3, <1>4, <1>5, VerdictFields DEF Sure

LEMMA ErrorIsSure ==
  ASSUME NEW s \in [z : Nat, rate : Nat],
         ErrorVerdict(s).severity \in {"HIGH", "CRITICAL"}
  PROVE  Sure(ErrorVerdict(s))
<1> DEFINE detected == s.z > 200 \/ s.rate > 1000
           severity == IF s.z > 200 THEN Graded(s.z, 500, 400)
                       ELSE Graded(s.rate, 3000, 1800)
           confidence == Larger(AtMost(Ratio(s.z, 600), 9500),
                                     AtMost(Ratio(s.rate, 3000), 9000))
<1>1. /\ severity # "N/A"
      /\ severity \in {"HIGH", "CRITICAL"} => s.z >= 400 \/ s.rate >= 1800
  BY Grades
<1>2. /\ Ratio(s.z, 600) \in Int /\ (s.z >= 400 => Ratio(s.z, 600) >= 6000)
      /\ Ratio(s.rate, 3000) \in Int /\ (s.rate >= 1800 => Ratio(s.rate, 3000) >= 6000)
  BY DEF Ratio
<1>3. /\ confidence \in Int
      /\ s.z >= 400 \/ s.rate >= 1800 => confidence >= 4000
  BY <1>2 DEF Larger, AtMost, AtLeast
<1>4. ErrorVerdict(s) = Verdict(error, detected, severity, confidence)
  BY DEF ErrorVerdict
<1>5. detected \in BOOLEAN
  OBVIOUS
<1> HIDE DEF detected, severity, confidence
<1> QED
  BY <1>1, <1>3, <1>4, <1>5, VerdictFields DEF Sure

LEMMA AuthIsSure ==
  ASSUME NEW s \in [rate : Nat, vote : {Absent, 0, 1}, proba : Nat],
         \/ AuthVerdict(s).severity = "CRITICAL"
         \/ AuthVerdict(s).severity = "HIGH" /\ s.vote # 0
  PROVE  Sure(AuthVerdict(s))
<1> DEFINE detected == s.rate > 2000
           severity == Graded(s.rate, 10000, 4000)
           gate == AtMost(s.rate, 9500)
           confidence == Voted(gate, s)
<1>1. /\ severity # "N/A"
      /\ severity \in {"HIGH", "CRITICAL"} => s.rate >= 4000
      /\ severity = "CRITICAL" => s.rate >= 10000
  BY Grades
<1>2. gate \in Int /\ (s.rate >= 4000 => gate >= 4000) /\ (s.rate >= 10000 => gate = 9500)
  BY DEF AtMost
<1>3. (3 * s.proba + 5) \div 10 \in Int /\ (3 * s.proba + 5) \div 10 >= 0
  BY QuotientAtLeast
<1>4. /\ confidence \in Int
      /\ s.rate >= 10000 \/ (s.rate >= 4000 /\ s.vote # 0) => confidence >= 4000
  <2> HIDE DEF gate
  <2>1. CASE s.vote = Absent
    BY <1>2, <2>1 DEF Voted, Absent
  <2>2. CASE s.vote = 1
    BY <1>2, <1>3, <2>2 DEF Voted, AtMost, Absent
  <2>3. CASE s.vote = 0
    BY <1>2, <2>3 DEF Voted, AtLeast, Absent
  <2> QED
    BY <2>1, <2>2, <2>3
<1>5. AuthVerdict(s) = Verdict(auth, detected, severity, IF detected THEN confidence ELSE 0)
  BY DEF AuthVerdict
<1>6. detected \in BOOLEAN /\ (s.rate >= 4000 => detected)
  OBVIOUS
<1> HIDE DEF detected, severity, confidence
<1>7. severity = "CRITICAL" \/ (severity = "HIGH" /\ s.vote # 0)
  BY <1>1, <1>5, <1>6, VerdictFields
<1> QED
  BY <1>1, <1>4, <1>5, <1>6, <1>7, VerdictFields DEF Sure


LEMMA DropIsSure ==
  ASSUME NEW s \in Nat, NEW l \in Nat, l > 0, s < l, (100 * (l - s)) \div l >= 60
  PROVE  Ratio(10 * (l - s), 8 * l) \in Int /\ Ratio(10 * (l - s), 8 * l) >= 7500
<1>1. 100 * (l - s) >= 60 * l
  BY QuotientAtLeast
<1>2. (8 * l) \in Nat /\ 8 * l > 0 /\ (8 * l) \div 2 = 4 * l
  OBVIOUS
<1>3. 10000 * (10 * (l - s)) + 4 * l \in Int /\ 10000 * (10 * (l - s)) + 4 * l >= 7500 * (8 * l)
  BY <1>1
<1> QED
  BY <1>2, <1>3, QuotientAtLeast DEF Ratio

LEMMA ThroughputIsSure ==
  ASSUME NEW s \in [raw : Nat \union {Absent}, silence : Nat, short : Nat, long : Nat],
         ThroughputVerdict(s).severity \in {"HIGH", "CRITICAL"}
  PROVE  Sure(ThroughputVerdict(s))
<1> DEFINE detected == Silent(s) \/ Dropped(s) \/ Low(s)
           severity ==
             IF Silent(s) THEN "CRITICAL"
             ELSE IF Dropped(s) THEN Graded((100 * (s.long - s.short)) \div s.long, 80, 60)
             ELSE IF s.raw < 200 THEN "CRITICAL" ELSE IF s.raw < 2000 THEN "HIGH" ELSE "MEDIUM"
           silence == IF s.raw # Absent THEN AtMost(Ratio(s.silence, 60), 9500) ELSE 0
           drop == DropConfidence(s)
           raw == IF Low(s) THEN AtMost(Ratio(4000 - s.raw, 4000), 9000) ELSE 0
           confidence == Larger(Larger(silence, drop), raw)
<1>1. s.raw \in Int /\ s.silence \in Nat /\ s.short \in Nat /\ s.long \in Nat
  BY DEF Absent
<1>2. detected \in BOOLEAN
  OBVIOUS
<1>3. silence \in Int /\ (Silent(s) => silence >= 5000)
  <2>1. Ratio(s.silence, 60) \in Int /\ (s.silence >= 30 => Ratio(s.silence, 60) >= 5000)
    BY <1>1 DEF Ratio
  <2> QED
    BY <2>1 DEF AtMost, Silent
<1>4. raw \in Int /\ (Low(s) /\ s.raw < 2000 => raw >= 5000)
  <2>1. Ratio(4000 - s.raw, 4000) \in Int
        /\ (s.raw < 2000 => Ratio(4000 - s.raw, 4000) >= 5000)
    BY <1>1 DEF Ratio
  <2> QED
    BY <2>1 DEF AtMost, Low
<1>5. drop \in Int
  <2>1. CASE s.long > 0
    <3>1. AtLeast(s.long - s.short, 0) \in Int
      BY <1>1 DEF AtLeast
    <3>2. (8 * s.long) \in Nat /\ 8 * s.long > 0 /\ (8 * s.long) \div 2 \in Int
      BY <1>1, <2>1
    <3>3. 10000 * (10 * AtLeast(s.long - s.short, 0)) + (8 * s.long) \div 2 \in Int
      BY <3>1, <3>2
    <3>4. Ratio(10 * AtLeast(s.long - s.short, 0), 8 * s.long) \in Int
      BY <3>2, <3>3, QuotientAtLeast DEF Ratio
    <3> QED
      BY <2>1, <3>4 DEF DropConfidence, AtMost
  <2> QED
    BY <1>1, <2>1 DEF DropConfidence
<1>6. ASSUME Dropped(s), (100 * (s.long - s.short)) \div s.long >= 60
      PROVE  drop >= 7500
  <2>1. s.long > 0 /\ s.short < s.long
    BY <1>1, <1>6 DEF Dropped
  <2>2. AtLeast(s.long - s.short, 0) = s.long - s.short
    BY <1>1, <2>1 DEF AtLeast
  <2>3. Ratio(10 * (s.long - s.short), 8 * s.long) \in Int
        /\ Ratio(10 * (s.long - s.short), 8 * s.long) >= 7500
    BY <1>1, <1>6, <2>1, DropIsSure
  <2> QED
    BY <2>1, <2>2, <2>3 DEF DropConfidence, AtMost
<1>7. Dropped(s) => (100 * (s.long - s.short)) \div s.long \in Int
  <2>1. Dropped(s) => s.long > 0
    BY <1>1 DEF Dropped
  <2> QED
    BY <1>1, <2>1, QuotientAtLeast
<1>8. /\ severity # "N/A"
      /\ severity \in {"HIGH", "CRITICAL"} =>
           \/ Silent(s)
           \/ Dropped(s) /\ (100 * (s.long - s.short)) \div s.long >= 60
           \/ ~Silent(s) /\ ~Dropped(s) /\ s.raw < 2000
  BY <1>1, <1>7, Grades
<1>9. ThroughputVerdict(s) = Verdict(throughput, detected, severity, confidence)
  BY DEF ThroughputVerdict
<1>10. confidence \in Int /\ confidence >= silence /\ confidence >= drop /\ confidence >= raw
  <2> HIDE DEF silence, drop, raw
  <2> QED
    BY <1>3, <1>4, <1>5 DEF Larger, AtLeast
<1> HIDE DEF severity, silence, drop, raw, confidence
<1>11. detected /\ severity \in {"HIGH", "CRITICAL"}
  <2> HIDE DEF detected
  <2> QED
    BY <1>2, <1>8, <1>9, VerdictFields
<1>12. confidence >= 5000
  <2>1. CASE Silent(s)
    BY <1>3, <1>10, <2>1
  <2>2. CASE Dropped(s) /\ (100 * (s.long - s.short)) \div s.long >= 60
    BY <1>5, <1>6, <1>10, <2>2
  <2>3. CASE ~Silent(s) /\ ~Dropped(s) /\ s.raw < 2000
    BY <1>4, <1>10, <1>11, <2>3
  <2> QED
    BY <2>1, <2>2, <2>3, <1>8, <1>11
<1> HIDE DEF detected
<1>13. /\ ThroughputVerdict(s).confidence = confidence
       /\ ThroughputVerdict(s).detected = detected
  BY <1>2, <1>8, <1>9, VerdictFields
<1> QED
  BY <1>10, <1>11, <1>12, <1>13 DEF Sure


LEMMA SchemaIsMild ==
  ASSUME NEW s
  PROVE  /\ SchemaVerdict(s).severity \notin {"HIGH", "CRITICAL"}
         /\ SchemaVerdict(s).model = schema
  BY DEF SchemaVerdict, Verdict

\* The five verdicts carry the name of their detector.
LEMMA VerdictsAreSigned ==
  ASSUME NEW s
  PROVE  /\ CpuVerdict(s).model = cpu
         /\ ErrorVerdict(s).model = error
         /\ ThroughputVerdict(s).model = throughput
         /\ AuthVerdict(s).model = auth
  BY DEF CpuVerdict, ErrorVerdict, ThroughputVerdict, AuthVerdict, Verdict

\* The severe verdicts of a reading are of 40 % at least, and none is of the
\* schema detector.
LEMMA SevereIsSure ==
  ASSUME NamesDiffer, SamplesAreMeasured, NEW r \in Readings, NEW m \in Models,
         LET v == Detect(m, r) IN
           \/ v.severity = "CRITICAL"
           \/ v.severity = "HIGH" /\ ~(v.model = auth /\ r[auth].vote = 0)
  PROVE  Sure(Detect(m, r)) /\ Detect(m, r).model \in {cpu, error, throughput, auth}
<1> DEFINE v == Detect(m, r)
<1>0. v.severity \in {"HIGH", "CRITICAL"}
  OBVIOUS
<1>1. m \in {cpu, error, throughput, auth, schema}
  BY DEF Models
<1>2. CASE m = cpu
  <2>1. v = CpuVerdict(r[cpu])
    BY <1>2 DEF Detect, NamesDiffer
  <2>2. r[cpu] \in [z : Nat, cpu : Nat, mem : Nat]
    BY DEF SamplesAreMeasured
  <2> QED
    BY <1>0, <2>1, <2>2, CpuIsSure, VerdictsAreSigned
<1>3. CASE m = error
  <2>1. v = ErrorVerdict(r[error])
    BY <1>3 DEF Detect, NamesDiffer
  <2>2. r[error] \in [z : Nat, rate : Nat]
    BY DEF SamplesAreMeasured
  <2> QED
    BY <1>0, <2>1, <2>2, ErrorIsSure, VerdictsAreSigned
<1>4. CASE m = throughput
  <2>1. v = ThroughputVerdict(r[throughput])
    BY <1>4 DEF Detect, NamesDiffer
  <2>2. r[throughput] \in [raw : Nat \union {Absent}, silence : Nat, short : Nat, long : Nat]
    BY DEF SamplesAreMeasured
  <2> QED
    BY <1>0, <2>1, <2>2, ThroughputIsSure, VerdictsAreSigned
<1>5. CASE m = auth
  <2>1. v = AuthVerdict(r[auth])
    BY <1>5 DEF Detect, NamesDiffer
  <2>2. r[auth] \in [rate : Nat, vote : {Absent, 0, 1}, proba : Nat]
    BY DEF SamplesAreMeasured
  <2>3. v.severity = "CRITICAL" \/ (v.severity = "HIGH" /\ r[auth].vote # 0)
    BY <2>1, VerdictsAreSigned
  <2> QED
    BY <2>1, <2>2, <2>3, AuthIsSure, VerdictsAreSigned
<1>6. CASE m = schema
  <2>1. v = SchemaVerdict(r[schema])
    BY <1>6 DEF Detect, NamesDiffer
  <2> QED
    BY <1>0, <2>1, SchemaIsMild
<1> QED
  BY <1>1, <1>2, <1>3, <1>4, <1>5, <1>6

\* One sure result of a detector that counts is published, alone or with others.
LEMMA SureIsPublished ==
  ASSUME NamesDiffer, FortyPercentCounts, NEW results, IsFiniteSet(results), NEW r \in results,
         Sure(r), r.model \in {cpu, error, throughput, auth}
  PROVE  ~Suppressed(results)
<1> SUFFICES ASSUME Suppressed(results) PROVE FALSE
  OBVIOUS
<1> DEFINE anomalies == Anomalies(results)
<1>1. r \in anomalies /\ IsFiniteSet(anomalies)
  <2>1. anomalies \subseteq results /\ r \in anomalies
    BY DEF Anomalies, Sure
  <2> QED
    BY <2>1, FS_Subset
<1>2. Cardinality(anomalies) = 1 /\ FusedConfidence(anomalies) < MinConfidence
  BY <1>1 DEF Suppressed
<1>3. anomalies = {r}
  BY <1>1, <1>2, FS_Singleton
<1>4. FusedConfidence(anomalies) = Weighted(r)
  BY <1>3 DEF FusedConfidence
<1>5. WeightOr(r.model, 50) \in Nat
  BY WeightsAreHundredths DEF WeightOr
<1>6. Weighted(r) >= (4000 * WeightOr(r.model, 50) + 50) \div 100
  <2> DEFINE w == WeightOr(r.model, 50)
  <2>1. r.confidence \in Int /\ r.confidence >= 4000
    BY DEF Sure
  <2> HIDE DEF w
  <2>2. r.confidence * w >= 4000 * w
    BY <1>5, <2>1 DEF w
  <2>3. (r.confidence * w + 50) \div 100 >= (4000 * w + 50) \div 100
    BY <1>5, <2>1, <2>2 DEF w
  <2> QED
    BY <2>3 DEF Weighted, w
<1>7. (4000 * WeightOr(r.model, 50) + 50) \div 100 >= MinConfidence
  <2>1. r.model \in Models \ {schema}
    BY DEF Models, NamesDiffer
  <2> QED
    BY <2>1 DEF FortyPercentCounts
<1>8. MinConfidence \in Int /\ Weighted(r) \in Int /\ (4000 * WeightOr(r.model, 50) + 50) \div 100 \in Int
  BY WeightsAreHundredths, <1>5 DEF Weighted, Sure
<1> QED
  BY <1>2, <1>4, <1>6, <1>7, <1>8

ReadingsTyped == reading \in [Events -> Readings \union {None}]

\* SevereIsPublished: whichever of the five answers are in, and however often
\* they came, a CRITICAL verdict is published, and a HIGH one unless the random
\* forest disputes it.
THEOREM SevereArePublished ==
  ASSUME NamesDiffer, SamplesAreMeasured, FortyPercentCounts
  PROVE  Spec => []SevereIsPublished
<1>1. Init => ReadingsTyped
  BY DEF Init, ReadingsTyped
<1>2. ReadingsTyped /\ [Next]_vars => ReadingsTyped'
  <2> SUFFICES ASSUME ReadingsTyped, [Next]_vars PROVE ReadingsTyped'
    OBVIOUS
  <2>1. ASSUME NEW e \in Events, FanOut(e) PROVE ReadingsTyped'
    BY <2>1 DEF FanOut, ReadingsTyped
  <2>2. ASSUME NEW m \in Models, Work(m) \/ Requeue(m) PROVE ReadingsTyped'
    BY <2>2 DEF Work, Publish, WriteLine, Ack, Requeue, ReadingsTyped
  <2>3. CASE UNCHANGED vars
    BY <2>3 DEF vars, ReadingsTyped
  <2> QED
    BY <2>1, <2>2, <2>3 DEF Next
<1>3. ReadingsTyped => SevereIsPublished
  <2> SUFFICES ASSUME ReadingsTyped, NEW e \in Events, reading[e] # None,
                      NEW v \in Answered(e), Severe(e, v)
               PROVE  ~Suppressed(Answered(e))
    BY DEF SevereIsPublished
  <2>1. reading[e] \in Readings
    BY DEF ReadingsTyped
  <2> DEFINE heard == {x \in Models : answers[<<e, x>>] > 0}
  <2>2. PICK m \in heard : v = Detect(m, reading[e])
    BY DEF Answered
  <2>3. Sure(v) /\ v.model \in {cpu, error, throughput, auth}
    BY <2>1, <2>2, SevereIsSure DEF Severe, Disputed
  <2>4. IsFiniteSet(Answered(e))
    <3>1. IsFiniteSet(Models)
      <4>1. Models = {cpu} \union {error} \union {throughput} \union {auth} \union {schema}
        BY DEF Models
      <4> QED
        BY <4>1, FS_Singleton, FS_Union
    <3>2. IsFiniteSet(heard)
      BY <3>1, FS_Subset
    <3> DEFINE f == [x \in heard |-> Detect(x, reading[e])]
    <3>3. f \in Surjection(heard, Answered(e))
      BY DEF Surjection, Answered
    <3> QED
      BY <3>2, <3>3, FS_Surjection
  <2> QED
    BY <2>3, <2>4, SureIsPublished
<1> QED
  BY <1>1, <1>2, <1>3, PTL DEF Spec


-----------------------------------------------------------------------------
(* The fused event is well defined: what _fuse takes the maximum of has one. *)

LEMMA InConfidences == \A x : x \in Confidences <=> x \in Int /\ 0 <= x /\ x <= 10000
<1> DEFINE top == 10000
<1>1. top \in Int
  OBVIOUS
<1>2. Confidences = 0..top
  BY DEF Confidences
<1> HIDE DEF top
<1>3. \A x : x \in 0..top <=> x \in Int /\ 0 <= x /\ x <= top
  BY <1>1
<1>4. \A x : x \in Confidences <=> x \in Int /\ 0 <= x /\ x <= top
  BY <1>2, <1>3
<1> QED
  BY <1>4 DEF top

\* A set of naturals below a bound has a greatest element.
LEMMA GreatestExists ==
  ASSUME NEW N \in Int, NEW S, S # {}, \A x \in S : x \in Int /\ x <= N
  PROVE  \E c \in S : \A x \in S : x <= c
<1> DEFINE T == {N - x : x \in S}
<1>1. T \in SUBSET Nat /\ T # {}
  <2>1. \A x \in S : N - x \in Nat
    OBVIOUS
  <2> QED
    BY <2>1
<1>2. PICK t \in T : \A y \in T : t <= y
  BY <1>1, LeastNatural
<1>3. PICK c \in S : t = N - c
  OBVIOUS
<1>4. \A x \in S : N - c <= N - x
  BY <1>2, <1>3
<1> QED
  BY <1>4

Probabilities(results) == \A r \in results : r.confidence \in Confidences

LEMMA WeightedInRange ==
  ASSUME NEW r, r.confidence \in Confidences
  PROVE  Weighted(r) \in Confidences
<1> DEFINE w == WeightOr(r.model, 50)
           k == r.confidence
<1>1. w \in Int /\ 0 <= w /\ w <= 100
  BY WeightsAreHundredths DEF WeightOr
<1>2. k \in Int /\ 0 <= k /\ k <= 10000
  BY InConfidences
<1>3. Weighted(r) = (k * w + 50) \div 100
  BY DEF Weighted
<1> HIDE DEF w, k
<1> DEFINE p == k * w
<1>4. p \in Int /\ 0 <= p /\ p <= 10000 * 100
  <2>1. k * w \in Int /\ 0 <= k * w /\ k * w <= 10000 * w
    BY <1>1, <1>2
  <2> QED
    BY <1>1, <2>1
<1> HIDE DEF p
<1> DEFINE q == (p + 50) \div 100
<1>5. q \in Int /\ 0 <= q /\ q <= 10000
  BY <1>4, SMT
<1> HIDE DEF q
<1>6. Weighted(r) = q
  BY <1>3 DEF p, q
<1> QED
  BY <1>5, <1>6, InConfidences

\* The fused confidence is one of the weighted ones, and none is greater.
LEMMA FusedConfidenceIsGreatest ==
  ASSUME NEW anomalies, anomalies # {}, Probabilities(anomalies)
  PROVE  /\ FusedConfidence(anomalies) \in Confidences
         /\ \E r \in anomalies : FusedConfidence(anomalies) = Weighted(r)
         /\ \A r \in anomalies : Weighted(r) <= FusedConfidence(anomalies)
<1> DEFINE S == {Weighted(r) : r \in anomalies}
<1>1. \A r \in anomalies : Weighted(r) \in Confidences
  BY WeightedInRange DEF Probabilities
<1>2. S # {} /\ \A x \in S : x \in Confidences
  BY <1>1
<1>3. \A x \in S : x \in Int /\ x <= 10000
  BY <1>2, InConfidences
<1>4. \E c \in S : \A x \in S : x <= c
  <2> HIDE DEF S
  <2> QED
    BY <1>2, <1>3, GreatestExists
<1>5. \E c \in S : \A r \in anomalies : Weighted(r) <= c
  BY <1>4
<1>6. /\ FusedConfidence(anomalies) \in S
      /\ \A r \in anomalies : Weighted(r) <= FusedConfidence(anomalies)
  BY <1>5 DEF FusedConfidence
<1> QED
  BY <1>2, <1>6

LEMMA RankInRange ==
  ASSUME NEW s
  PROVE  SeverityRank(s) \in 0..3
<1>1. SeverityRank(s) \in {0, 1, 2, 3}
  BY Zenon DEF SeverityRank
<1> QED
  BY <1>1

\* The fused severity is that of an anomaly, and none is graver.
LEMMA FusedSeverityIsGravest ==
  ASSUME NEW anomalies, anomalies # {}
  PROVE  /\ \E r \in anomalies : FusedSeverity(anomalies) = r.severity
         /\ \A r \in anomalies : SeverityRank(r.severity) <= SeverityRank(FusedSeverity(anomalies))
<1> DEFINE S == {SeverityRank(r.severity) : r \in anomalies}
<1>1. S # {} /\ \A x \in S : x \in Int /\ x <= 3
  BY RankInRange
<1>2. \E c \in S : \A x \in S : x <= c
  <2> HIDE DEF S
  <2> QED
    BY <1>1, GreatestExists
<1>3. \E r \in anomalies : \A s \in anomalies : SeverityRank(s.severity) <= SeverityRank(r.severity)
  BY <1>2
<1> DEFINE worst ==
      CHOOSE r \in anomalies :
        \A s \in anomalies : SeverityRank(s.severity) <= SeverityRank(r.severity)
<1>4. /\ worst \in anomalies
      /\ \A s \in anomalies : SeverityRank(s.severity) <= SeverityRank(worst.severity)
  BY <1>3
<1>5. FusedSeverity(anomalies) = worst.severity
  BY DEF FusedSeverity
<1> HIDE DEF worst
<1> QED
  BY <1>4, <1>5


\* The five detectors report probabilities, whatever they are shown.
LEMMA RatioIsPositive ==
  ASSUME NEW n \in Nat, NEW d \in Nat, d > 0
  PROVE  Ratio(n, d) \in Int /\ Ratio(n, d) >= 0
<1> DEFINE a == 10000 * n + d \div 2
<1>1. a \in Int /\ a >= 0
  OBVIOUS
<1> HIDE DEF a
<1>2. a \div d \in Int /\ a \div d >= 0
  BY <1>1, QuotientAtLeast
<1> QED
  BY <1>2 DEF Ratio, a

LEMMA BoundedByNine ==
  ASSUME NEW x \in Int, NEW y \in Int, x >= 0, y >= 0
  PROVE  /\ Larger(AtMost(x, 9500), AtMost(y, 9000)) \in Int
         /\ Larger(AtMost(x, 9500), AtMost(y, 9000)) >= 0
         /\ Larger(AtMost(x, 9500), AtMost(y, 9000)) <= 9500
  BY SMT DEF Larger, AtLeast, AtMost

LEMMA CpuConfidence ==
  ASSUME NEW s \in [z : Nat, cpu : Nat, mem : Nat]
  PROVE  CpuVerdict(s).confidence \in Confidences
<1> DEFINE detected == s.z > 200 \/ s.cpu > 7000 \/ s.mem > 7000
           confidence == Larger(AtMost(Ratio(s.z, 600), 9500), AtMost(Larger(s.cpu, s.mem), 9000))
<1>1. Ratio(s.z, 600) \in Int /\ Ratio(s.z, 600) >= 0
  BY RatioIsPositive
<1>2. Larger(s.cpu, s.mem) \in Int /\ Larger(s.cpu, s.mem) >= 0
  BY DEF Larger, AtLeast
<1>3. confidence \in Int /\ confidence >= 0 /\ confidence <= 9500
  BY <1>1, <1>2, BoundedByNine
<1>4. CpuVerdict(s).confidence = IF detected THEN confidence ELSE 0
  BY DEF CpuVerdict, Verdict
<1> HIDE DEF detected, confidence
<1>5. \A c : c = (IF detected THEN confidence ELSE 0) => c \in Int /\ c >= 0 /\ c <= 10000
  BY <1>3
<1> QED
  BY <1>4, <1>5, InConfidences

LEMMA ErrorConfidence ==
  ASSUME NEW s \in [z : Nat, rate : Nat]
  PROVE  ErrorVerdict(s).confidence \in Confidences
<1> DEFINE confidence == Larger(AtMost(Ratio(s.z, 600), 9500), AtMost(Ratio(s.rate, 3000), 9000))
<1>1. /\ Ratio(s.z, 600) \in Int /\ Ratio(s.z, 600) >= 0
      /\ Ratio(s.rate, 3000) \in Int /\ Ratio(s.rate, 3000) >= 0
  BY RatioIsPositive
<1>2. confidence \in Int /\ confidence >= 0 /\ confidence <= 9500
  BY <1>1, BoundedByNine
<1>3. ErrorVerdict(s).confidence = confidence
  BY DEF ErrorVerdict, Verdict
<1> HIDE DEF confidence
<1> QED
  BY <1>2, <1>3, InConfidences

LEMMA ThroughputConfidence ==
  ASSUME NEW s \in [raw : Nat \union {Absent}, silence : Nat, short : Nat, long : Nat]
  PROVE  ThroughputVerdict(s).confidence \in Confidences
<1> DEFINE silence == IF s.raw # Absent THEN AtMost(Ratio(s.silence, 60), 9500) ELSE 0
           drop == DropConfidence(s)
           raw == IF Low(s) THEN AtMost(Ratio(4000 - s.raw, 4000), 9000) ELSE 0
           confidence == Larger(Larger(silence, drop), raw)
<1>1. s.raw \in Int /\ s.silence \in Nat /\ s.short \in Nat /\ s.long \in Nat
  BY DEF Absent
<1>2. silence \in Int /\ silence >= 0 /\ silence <= 9500
  <2>1. Ratio(s.silence, 60) \in Int /\ Ratio(s.silence, 60) >= 0
    BY <1>1, RatioIsPositive
  <2> QED
    BY <2>1 DEF AtMost
<1>3. raw \in Int /\ raw >= 0 /\ raw <= 9500
  <2>1. Low(s) => Ratio(4000 - s.raw, 4000) \in Int /\ Ratio(4000 - s.raw, 4000) >= 0
    <3> SUFFICES ASSUME Low(s)
                 PROVE  Ratio(4000 - s.raw, 4000) \in Int /\ Ratio(4000 - s.raw, 4000) >= 0
      OBVIOUS
    <3>1. 4000 - s.raw \in Nat
      BY <1>1 DEF Low
    <3> QED
      BY <3>1, RatioIsPositive
  <2> QED
    BY <2>1 DEF AtMost
<1>4. drop \in Int /\ drop >= 0 /\ drop <= 9500
  <2>1. CASE s.long > 0
    <3> DEFINE fall == 10 * AtLeast(s.long - s.short, 0)
    <3>1. fall \in Nat
      BY <1>1 DEF AtLeast
    <3> HIDE DEF fall
    <3>2. 8 * s.long \in Nat /\ 8 * s.long > 0
      BY <1>1, <2>1
    <3>3. Ratio(fall, 8 * s.long) \in Int /\ Ratio(fall, 8 * s.long) >= 0
      BY <3>1, <3>2, RatioIsPositive
    <3>4. drop = AtMost(Ratio(fall, 8 * s.long), 9500)
      BY <2>1 DEF DropConfidence, fall
    <3> QED
      BY <3>3, <3>4 DEF AtMost
  <2>2. CASE ~(s.long > 0)
    <3>1. drop = 0
      BY <2>2 DEF DropConfidence
    <3> QED
      BY <3>1
  <2> QED
    BY <2>1, <2>2
<1>5. ThroughputVerdict(s).confidence = confidence
  BY DEF ThroughputVerdict, Verdict
<1> HIDE DEF silence, drop, raw
<1>6. confidence \in Int /\ confidence >= 0 /\ confidence <= 10000
  BY <1>2, <1>3, <1>4 DEF Larger, AtLeast
<1> HIDE DEF confidence
<1> QED
  BY <1>5, <1>6, InConfidences

LEMMA AuthConfidence ==
  ASSUME NEW s \in [rate : Nat, vote : {Absent, 0, 1}, proba : Nat]
  PROVE  AuthVerdict(s).confidence \in Confidences
<1> DEFINE c == AtMost(s.rate, 9500)
           x == Voted(c, s)
<1>1. c \in Int /\ c >= 0 /\ c <= 9500
  BY DEF AtMost
<1>2. (3 * s.proba + 5) \div 10 \in Int /\ (3 * s.proba + 5) \div 10 >= 0
  OBVIOUS
<1>3. /\ s.vote \in {Absent, 0, 1} /\ Absent # 0 /\ Absent # 1
  BY DEF Absent
<1> HIDE DEF c
<1>4. /\ s.vote = Absent => x = c
      /\ s.vote = 1 => x = AtMost(c + (3 * s.proba + 5) \div 10, 9800)
      /\ s.vote = 0 => x = AtLeast(c - 2000, 3000)
  BY <1>3 DEF Voted
<1> HIDE DEF x
<1>5. x \in Int /\ x >= 0 /\ x <= 10000
  <2>1. CASE s.vote = Absent
    BY <1>1, <1>4, <2>1
  <2>2. CASE s.vote = 1
    BY <1>1, <1>2, <1>4, <2>2 DEF AtMost
  <2>3. CASE s.vote = 0
    BY <1>1, <1>4, <2>3 DEF AtLeast
  <2> QED
    BY <1>3, <2>1, <2>2, <2>3
<1> DEFINE detected == s.rate > 2000
<1>6. AuthVerdict(s).confidence = IF detected THEN x ELSE 0
  BY DEF AuthVerdict, Verdict, c, x
<1> HIDE DEF detected
<1>7. \A k : k = (IF detected THEN x ELSE 0) => k \in Int /\ k >= 0 /\ k <= 10000
  BY <1>5
<1> QED
  BY <1>6, <1>7, InConfidences

LEMMA SchemaConfidence ==
  ASSUME NEW s
  PROVE  SchemaVerdict(s).confidence \in Confidences
<1>1. SchemaVerdict(s).confidence \in {0, 7000, 8000, 9000}
  BY DEF SchemaVerdict, Verdict
<1> QED
  BY <1>1, InConfidences

LEMMA VerdictsAreProbable ==
  ASSUME NamesDiffer, SamplesAreMeasured, NEW r \in Readings, NEW m \in Models
  PROVE  Detect(m, r).confidence \in Confidences
<1>1. m \in {cpu, error, throughput, auth, schema}
  BY DEF Models
<1>2. CASE m = cpu
  <2>1. Detect(m, r) = CpuVerdict(r[cpu])
    BY <1>2 DEF Detect, NamesDiffer
  <2> QED
    BY <2>1, CpuConfidence DEF SamplesAreMeasured
<1>3. CASE m = error
  <2>1. Detect(m, r) = ErrorVerdict(r[error])
    BY <1>3 DEF Detect, NamesDiffer
  <2> QED
    BY <2>1, ErrorConfidence DEF SamplesAreMeasured
<1>4. CASE m = throughput
  <2>1. Detect(m, r) = ThroughputVerdict(r[throughput])
    BY <1>4 DEF Detect, NamesDiffer
  <2> QED
    BY <2>1, ThroughputConfidence DEF SamplesAreMeasured
<1>5. CASE m = auth
  <2>1. Detect(m, r) = AuthVerdict(r[auth])
    BY <1>5 DEF Detect, NamesDiffer
  <2> QED
    BY <2>1, AuthConfidence DEF SamplesAreMeasured
<1>6. CASE m = schema
  <2>1. Detect(m, r) = SchemaVerdict(r[schema])
    BY <1>6 DEF Detect, NamesDiffer
  <2> QED
    BY <2>1, SchemaConfidence
<1> QED
  BY <1>1, <1>2, <1>3, <1>4, <1>5, <1>6

\* Whatever is read, and whichever detectors are heard: if _fuse publishes, the
\* maxima it takes exist; the confidence is a probability, the greatest of the
\* weighted ones, and the severity is that of an anomaly than which none is
\* graver.
THEOREM FusedEventIsSound ==
  ASSUME NamesDiffer, SamplesAreMeasured, NEW r \in Readings, NEW heard \in SUBSET Models
  PROVE  LET results   == {Detect(m, r) : m \in heard}
             anomalies == Anomalies(results)
             fused     == FusedEvent(results)
         IN  ~Suppressed(results) =>
               /\ fused.confidence \in Confidences
               /\ \E a \in anomalies : fused.confidence = Weighted(a)
               /\ \E a \in anomalies : fused.severity = a.severity
               /\ \A a \in anomalies :
                    /\ Weighted(a) <= fused.confidence
                    /\ SeverityRank(a.severity) <= SeverityRank(fused.severity)
<1> DEFINE results   == {Detect(m, r) : m \in heard}
           anomalies == Anomalies(results)
           fused     == FusedEvent(results)
<1>1. Probabilities(results)
  BY VerdictsAreProbable DEF Probabilities
<1>2. Probabilities(anomalies) /\ (~Suppressed(results) => anomalies # {})
  <2> HIDE DEF results
  <2> QED
    BY <1>1 DEF Probabilities, Anomalies, Suppressed
<1> HIDE DEF results
<1>3. /\ fused.confidence = FusedConfidence(anomalies)
      /\ fused.severity = FusedSeverity(anomalies)
  BY DEF FusedEvent
<1> HIDE DEF anomalies, fused
<1> QED
  BY <1>2, <1>3, FusedConfidenceIsGreatest, FusedSeverityIsGravest DEF results, anomalies, fused
=============================================================================
