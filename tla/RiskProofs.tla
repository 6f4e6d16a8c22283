----------------------------- MODULE RiskProofs -----------------------------
(***************************************************************************)
(* Risk, for any symbols, files and modules, any history, and whatever is  *)
(* recorded while scores are computed and wherever a run dies: after a run *)
(* that nothing overtook every node shows the worst of what is below it,   *)
(* and files are coupled by what history has earned.                       *)
(***************************************************************************)
EXTENDS Risk, FiniteSetTheorems, WellFoundedInduction, TLAPS

\* Of numbers there is a least one.
LEMMA LeastOf ==
  ASSUME NEW S, S \subseteq Nat, S # {}
  PROVE  \E n \in S : \A m \in S : n <= m
<1>1. \E x \in S : \A y \in S : ~(<<y, x>> \in OpToRel(<, Nat))
  BY NatLessThanWellFounded, WFMin
<1>2. PICK x \in S : \A y \in S : ~(<<y, x>> \in OpToRel(<, Nat))
  BY <1>1
<1>3. \A y \in S : ~(y < x)
  BY <1>2 DEF OpToRel
<1>4. QED
  BY <1>3

\* And of those up to a bound a greatest.
LEMMA GreatestOf ==
  ASSUME NEW n \in Nat, NEW S, S \subseteq 0..n, S # {}
  PROVE  \E m \in S : \A l \in S : l <= m
<1> DEFINE D == {n - m : m \in S}
<1>1. D \subseteq Nat /\ D # {}
  <2>1. \A m \in S : n - m \in Nat
    OBVIOUS
  <2>2. QED
    BY <2>1
<1>2. PICK d \in D : \A e \in D : d <= e
  <2> HIDE DEF D
  <2> QED
    BY <1>1, LeastOf
<1>3. PICK m \in S : d = n - m
  BY <1>2
<1>4. ASSUME NEW l \in S PROVE l <= m
  <2>1. n - l \in D
    OBVIOUS
  <2>2. n - m <= n - l
    BY <1>2, <1>3, <2>1
  <2>3. QED
    BY <2>2
<1>5. QED
  BY <1>4

\* What is a sequence, of whatever.
IsSeq(s) == s \in Seq({s[i] : i \in DOMAIN s})

\* A sequence t that is s and one more.
IsLonger(t, s, e) ==
  /\ IsSeq(t) /\ Len(s) \in Nat /\ Len(t) = Len(s) + 1
  /\ \A i \in 1..Len(s) : t[i] = s[i]
  /\ t[Len(s) + 1] = e

\* A sequence with one element more.
LEMMA Appended ==
  ASSUME NEW s, IsSeq(s), NEW e, NEW t, t = Append(s, e)
  PROVE  IsLonger(t, s, e)
<1>1. PICK S : S = {s[i] : i \in DOMAIN s}
  OBVIOUS
<1>2. s \in Seq(S) /\ s \in Seq(S \cup {e})
  BY <1>1 DEF IsSeq
<1>3. t \in Seq(S \cup {e})
  BY <1>2
<1>4. /\ Len(s) \in Nat /\ Len(t) = Len(s) + 1 /\ DOMAIN s = 1..Len(s)
      /\ DOMAIN t = 1..(Len(s) + 1)
      /\ \A i \in 1..Len(s) : t[i] = s[i]
      /\ t[Len(s) + 1] = e
  BY <1>2, <1>3
<1>5. t \in Seq({t[i] : i \in DOMAIN t})
  <2>1. \A i \in 1..Len(t) : t[i] \in {t[j] : j \in DOMAIN t}
    BY <1>4
  <2>2. QED
    BY <1>3, <1>4, <2>1
<1>6. QED
  BY <1>4, <1>5 DEF IsSeq, IsLonger

\* What holds at 0 and goes from each number to the next holds up to a bound.
LEMMA StepByStep ==
  ASSUME NEW m \in Nat, NEW T, 0 \in T, \A i \in 1..m : i - 1 \in T => i \in T
  PROVE  \A i \in 0..m : i \in T
<1>1. PICK S : S = {i \in 0..m : i \notin T}
  OBVIOUS
<1>2. ASSUME S # {} PROVE FALSE
  <2>1. S \subseteq Nat
    BY <1>1
  <2>2. PICK n \in S : \A i \in S : n <= i
    BY <1>2, <2>1, LeastOf
  <2>3. n # 0 /\ n \in 0..m
    BY <1>1
  <2>4. n - 1 \in 0..m /\ n \in 1..m /\ n - 1 < n
    BY <2>3
  <2>5. n - 1 \notin S
    BY <2>2, <2>3, <2>4
  <2>6. QED
    BY <1>1, <2>4, <2>5
<1>3. QED
  BY <1>1, <1>2

\* A function that is told by its value at 0 and by a step exists.
AreSteps(G, m, S) == G \in [1..m -> [S -> S]]
IsIteration(f, m, S, a, G) ==
  f \in [0..m -> S] /\ f[0] = a /\ \A i \in 1..m : f[i] = G[i][f[i - 1]]

\* Steps on a set can be iterated.
LEMMA Iterates ==
  ASSUME NEW m \in Nat, NEW S, NEW a \in S, NEW G, AreSteps(G, m, S)
  PROVE  \E f : IsIteration(f, m, S, a, G)
<1>1. PICK T : T = {k \in 0..m : \E f \in [0..k -> S] :
                      f[0] = a /\ \A i \in 1..k : f[i] = G[i][f[i - 1]]}
  OBVIOUS
<1>2. 0 \in T
  <2>1. PICK f : f = [i \in 0..0 |-> a]
    OBVIOUS
  <2>2. f \in [0..0 -> S] /\ f[0] = a
    BY <2>1
  <2>3. QED
    BY <1>1, <2>2
<1>3. ASSUME NEW k \in 1..m, k - 1 \in T PROVE k \in T
  <2>1. PICK f \in [0..(k - 1) -> S] : f[0] = a /\ \A i \in 1..(k - 1) : f[i] = G[i][f[i - 1]]
    BY <1>1, <1>3
  <2>2. PICK g : g = [i \in 0..k |-> IF i = k THEN G[k][f[k - 1]] ELSE f[i]]
    OBVIOUS
  <2>3. k - 1 \in 0..(k - 1) /\ f[k - 1] \in S /\ G[k] \in [S -> S]
    BY <2>1 DEF AreSteps
  <2>4. G[k][f[k - 1]] \in S
    BY <2>3
  <2>5. \A i \in 0..k : g[i] \in S
    <3>1. SUFFICES ASSUME NEW i \in 0..k PROVE g[i] \in S
      OBVIOUS
    <3>2. CASE i = k
      BY <2>2, <2>4, <3>2
    <3>3. CASE i # k
      <4>1. i \in 0..(k - 1)
        BY <3>3
      <4>2. QED
        BY <2>2, <3>3, <4>1
    <3>4. QED
      BY <3>2, <3>3
  <2>6. g \in [0..k -> S]
    BY <2>2, <2>5
  <2>7. g[0] = a
    BY <2>1, <2>2
  <2>8. \A i \in 1..k : g[i] = G[i][g[i - 1]]
    <3>1. SUFFICES ASSUME NEW i \in 1..k PROVE g[i] = G[i][g[i - 1]]
      OBVIOUS
    <3>2. i - 1 \in 0..k /\ i - 1 # k
      OBVIOUS
    <3>3. g[i - 1] = f[i - 1]
      BY <2>2, <3>2
    <3>4. CASE i = k
      BY <2>2, <3>3, <3>4
    <3>5. CASE i # k
      BY <2>1, <2>2, <3>3, <3>5
    <3>6. QED
      BY <3>4, <3>5
  <2>9. QED
    BY <1>1, <2>6, <2>7, <2>8
<1>4. m \in T
  <2>1. \A k \in 1..m : k - 1 \in T => k \in T
    BY <1>3
  <2>2. \A k \in 0..m : k \in T
    BY <1>2, <2>1, StepByStep
  <2>3. QED
    BY <2>2
<1>5. QED
  BY <1>1, <1>4 DEF IsIteration

\* A quotient is bounded as its dividend is.
LEMMA Quotient ==
  ASSUME NEW x \in Nat, NEW y \in Nat, y > 0, NEW c \in Nat, x <= c * y
  PROVE  x \div y \in 0..c
<1>1. x \div y \in Int
  OBVIOUS
<1>2. PICK q \in Int : q = x \div y
  BY <1>1
<1>3. y * q <= x /\ x < y * q + y
  BY <1>2
<1>4. q >= 0
  <2>1. SUFFICES ASSUME q <= 0 - 1 PROVE FALSE
    OBVIOUS
  <2>2. y * q <= 0 - y
    BY <2>1
  <2>3. QED
    BY <1>3, <2>2
<1>5. q <= c
  <2>1. SUFFICES ASSUME q >= c + 1 PROVE FALSE
    OBVIOUS
  <2>2. y * q >= y * (c + 1)
    BY <2>1
  <2>3. QED
    BY <1>3, <2>2
<1>6. QED
  BY <1>2, <1>4, <1>5

Hundredths == 0..100
Thousandths == 0..1000

\* A saturated count is a share.
LEMMA SaturateIs ==
  ASSUME NEW x \in Nat, NEW half \in Nat, half > 0
  PROVE  Saturate(x, half) \in Hundredths
<1>1. 100 * x \in Nat /\ x + half \in Nat /\ x + half > 0 /\ 100 * x <= 100 * (x + half)
  OBVIOUS
<1>2. QED
  BY <1>1, Quotient DEF Saturate, Hundredths

\* Products of bounded numbers are bounded.
LEMMA Products ==
  ASSUME NEW x \in Nat, NEW y \in Nat, NEW a \in Nat, NEW b \in Nat, x <= a, y <= b
  PROVE  x * y \in Nat /\ x * y <= a * b
<1>1. x * y \in Nat /\ x * y <= a * y
  OBVIOUS
<1>2. a * y <= a * b
  OBVIOUS
<1>3. x * y \in Int /\ a * y \in Int /\ a * b \in Int
  OBVIOUS
<1>4. QED
  BY <1>1, <1>2, <1>3

\* Evidence that is combined stays a probability.
LEMMA NoisyOrIs ==
  ASSUME NEW p \in Thousandths, NEW value \in Hundredths, NEW weight \in Hundredths
  PROVE  NoisyOr(p, value, weight) \in Thousandths
<1> USE DEF Thousandths, Hundredths
<1>1. value * weight \in 0..10000
  OBVIOUS
<1>2. PICK v \in 0..10000 : v = value * weight
  BY <1>1
<1>3. /\ (1000 - p) * (10000 - v) \in Nat
      /\ (1000 - p) * (10000 - v) <= 1000 * 10000
  <2>1. PICK r, w, a, b : r = 1000 - p /\ w = 10000 - v /\ a = 1000 /\ b = 10000
    OBVIOUS
  <2>2. r \in Nat /\ w \in Nat /\ a \in Nat /\ b \in Nat /\ r <= a /\ w <= b
    BY <2>1
  <2>3. r * w \in Nat /\ r * w <= a * b
    BY <2>2, Products
  <2>4. QED
    BY <2>1, <2>3
<1>4. ((1000 - p) * (10000 - v)) \div 10000 \in 0..1000
  BY <1>3, Quotient
<1>5. QED
  BY <1>2, <1>4 DEF NoisyOr

-----------------------------------------------------------------------------
(***************************************************************************)
(* Scores are numbers up to 1000.                                          *)
(***************************************************************************)
VersionUpTo(v, time, commits) ==
  v.at \in Nat /\ v.at <= time /\ v.lines \in Nat /\ v.commit \in 1..commits

VersionTyped(v) == VersionUpTo(v, age, changes)

HistoryTyped ==
  \A n \in Leaf : /\ IsSeq(history[n])
                  /\ \A i \in 1..Len(history[n]) : VersionTyped(history[n][i])

Fields == {"stage", "unread", "seen", "links", "plan", "surprise", "now", "stale"}

RecordingTyped ==
  /\ DOMAIN recording = {"prints", "lines", "folder"}
  /\ DOMAIN recording.prints \subseteq Leaf
  /\ recording.lines \in Nat /\ recording.folder \in [SourceFile -> Folder]
  /\ DOMAIN recording.prints # {} => changes > 0

RiskTyped ==
  /\ changes \in Nat /\ age \in Nat
  /\ DOMAIN history = Leaf /\ HistoryTyped
  /\ folder \in [SourceFile -> Folder]
  /\ coupled \subseteq SourceFile \X SourceFile
  /\ DOMAIN risk = Scored
  /\ DOMAIN scoring = Fields /\ scoring.stale \in BOOLEAN
  /\ RecordingTyped

\* The weight of an old version is a number.
LEMMA DecayedIs ==
  ASSUME NEW lives \in Nat
  PROVE  Decayed(lives) \in Nat
<1> DEFINE left[i \in 0..lives] == IF i = 0 THEN 100 ELSE left[i - 1] \div 2
<1>1. \E f : f = [i \in 0..lives |-> IF i = 0 THEN 100 ELSE f[i - 1] \div 2]
  <2>1. PICK G : G = [i \in 1..lives |-> [x \in Nat |-> x \div 2]]
    OBVIOUS
  <2>2. AreSteps(G, lives, Nat)
    <3>1. \A x \in Nat : x \div 2 \in Nat
      OBVIOUS
    <3>2. QED
      BY <2>1, <3>1 DEF AreSteps
  <2>3. PICK f \in [0..lives -> Nat] : f[0] = 100 /\ \A i \in 1..lives : f[i] = G[i][f[i - 1]]
    <3>1. PICK a \in Nat : a = 100
      OBVIOUS
    <3>2. \E f : IsIteration(f, lives, Nat, a, G)
      BY <2>2, Iterates
    <3>3. QED
      BY <3>1, <3>2 DEF IsIteration
  <2>4. \A i \in 0..lives : f[i] = IF i = 0 THEN 100 ELSE f[i - 1] \div 2
    <3>1. SUFFICES ASSUME NEW i \in 0..lives, i # 0 PROVE f[i] = f[i - 1] \div 2
      BY <2>3
    <3>2. i \in 1..lives /\ i - 1 \in 0..lives
      BY <3>1
    <3>3. f[i - 1] \in Nat
      BY <2>3, <3>2
    <3>4. QED
      BY <2>1, <2>3, <3>2, <3>3
  <2>5. f = [i \in 0..lives |-> IF i = 0 THEN 100 ELSE f[i - 1] \div 2]
    BY <2>3, <2>4
  <2>6. QED
    BY <2>5
<1>2. left = [i \in 0..lives |-> IF i = 0 THEN 100 ELSE left[i - 1] \div 2]
  BY <1>1
<1>3. Decayed(lives) = left[lives]
  BY DEF Decayed
<1> HIDE DEF left
<1>4. PICK T : T = {i \in 0..lives : left[i] \in Nat}
  OBVIOUS
<1>5. 0 \in T
  BY <1>2, <1>4
<1>6. \A i \in 1..lives : i - 1 \in T => i \in T
  <2>1. SUFFICES ASSUME NEW i \in 1..lives, i - 1 \in T PROVE i \in T
    OBVIOUS
  <2>2. i \in 0..lives /\ left[i] = left[i - 1] \div 2 /\ left[i - 1] \in Nat
    BY <1>2, <1>4, <2>1
  <2>3. QED
    BY <1>4, <2>2
<1>7. \A i \in 0..lives : i \in T
  BY <1>5, <1>6, StepByStep
<1>8. QED
  BY <1>3, <1>4, <1>7

\* And so is their sum over a history.
LEMMA ChurnIs ==
  ASSUME RiskTyped, NEW n \in Leaf, NEW time \in Nat
  PROVE  DecayedChurn(n, time) \in Nat
<1> DEFINE past(v) == IF v.at < time THEN time - v.at ELSE 0
           sum[i \in 0..Len(history[n])] ==
             IF i = 0 THEN 0 ELSE sum[i - 1] + Decayed(past(history[n][i]))
<1>1. PICK m : m = Len(history[n])
  OBVIOUS
<1>2. m \in Nat /\ \A i \in 1..m : history[n][i].at \in Nat
  <2>1. IsSeq(history[n]) /\ \A i \in 1..m : VersionTyped(history[n][i])
    BY <1>1 DEF RiskTyped, HistoryTyped
  <2>2. m \in Nat
    BY <1>1, <2>1 DEF IsSeq
  <2>3. QED
    BY <2>1, <2>2 DEF VersionTyped, VersionUpTo
<1>3. PICK w : w = [i \in 1..m |-> Decayed(past(history[n][i]))]
  OBVIOUS
<1>4. \A i \in 1..m : w[i] \in Nat /\ w[i] = Decayed(past(history[n][i]))
  <2>1. SUFFICES ASSUME NEW i \in 1..m PROVE Decayed(past(history[n][i])) \in Nat
    BY <1>3
  <2>2. past(history[n][i]) \in Nat
    BY <1>2
  <2> HIDE DEF past
  <2>3. QED
    BY <2>2, DecayedIs
<1> HIDE DEF past
<1>5. \E f : f = [i \in 0..m |-> IF i = 0 THEN 0
                                 ELSE f[i - 1] + Decayed(past(history[n][i]))]
  <2>1. PICK G : G = [i \in 1..m |-> [x \in Nat |-> x + w[i]]]
    OBVIOUS
  <2>2. AreSteps(G, m, Nat)
    BY <1>4, <2>1 DEF AreSteps
  <2>3. PICK f : IsIteration(f, m, Nat, 0, G)
    <3>1. PICK a \in Nat : a = 0
      OBVIOUS
    <3>2. \E f : IsIteration(f, m, Nat, a, G)
      BY <1>2, <2>2, Iterates
    <3>3. QED
      BY <3>1, <3>2
  <2>4. \A i \in 0..m : f[i] = IF i = 0 THEN 0 ELSE f[i - 1] + Decayed(past(history[n][i]))
    <3>1. SUFFICES ASSUME NEW i \in 0..m, i # 0
                   PROVE  f[i] = f[i - 1] + Decayed(past(history[n][i]))
      BY <2>3 DEF IsIteration
    <3>2. i \in 1..m /\ i - 1 \in 0..m
      BY <1>2, <3>1
    <3>3. f[i - 1] \in Nat /\ f[i] = G[i][f[i - 1]]
      BY <2>3, <3>2 DEF IsIteration
    <3>4. f[i] = f[i - 1] + w[i]
      BY <2>1, <3>2, <3>3
    <3>5. QED
      BY <1>4, <3>2, <3>4
  <2>5. f = [i \in 0..m |-> IF i = 0 THEN 0 ELSE f[i - 1] + Decayed(past(history[n][i]))]
    BY <2>3, <2>4 DEF IsIteration
  <2>6. QED
    BY <2>5
<1>6. sum = [i \in 0..m |-> IF i = 0 THEN 0 ELSE sum[i - 1] + Decayed(past(history[n][i]))]
  BY <1>1, <1>5
<1>7. DecayedChurn(n, time) = sum[m]
  BY <1>1 DEF DecayedChurn, past
<1> HIDE DEF sum
<1>8. PICK T : T = {i \in 0..m : sum[i] \in Nat}
  OBVIOUS
<1>9. 0 \in T
  BY <1>2, <1>6, <1>8
<1>10. \A i \in 1..m : i - 1 \in T => i \in T
  <2>1. SUFFICES ASSUME NEW i \in 1..m, i - 1 \in T PROVE i \in T
    OBVIOUS
  <2>2. i \in 0..m /\ sum[i] = sum[i - 1] + w[i] /\ sum[i - 1] \in Nat
    BY <1>2, <1>4, <1>6, <1>8, <2>1
  <2>3. QED
    BY <1>4, <1>8, <2>2
<1>11. \A i \in 0..m : i \in T
  BY <1>2, <1>9, <1>10, StepByStep
<1>12. QED
  BY <1>2, <1>7, <1>8, <1>11

\* What depends on a set of files directly, and the set.
Wider(X) == X \cup {e[1] : e \in {d \in coupled : d[2] \in X}}

Files == Cardinality(SourceFile)

\* There are finitely many files.
LEMMA FilesAre == Files \in Nat
BY FS_CardinalityType, RiskAssumption DEF Files

\* What is reached from a node in k steps.
IsReach(step, n) ==
  /\ step[0] = {n} /\ \A k \in 1..Files : step[k] = Wider(step[k - 1])
  /\ \A k \in 0..Files : step[k] \subseteq {n} \cup SourceFile
  /\ Dependents(n) = step[Files] \ {n}

\* The rounds of the search for dependents are well defined.
LEMMA DependentsAre ==
  ASSUME RiskTyped, NEW n
  PROVE  \E step : IsReach(step, n)
<1> DEFINE step[k \in 0..Files] ==
             IF k = 0 THEN {n}
             ELSE step[k - 1] \cup {e[1] : e \in {d \in coupled : d[2] \in step[k - 1]}}
<1>1. Files \in Nat
  BY FilesAre
<1>2. PICK S : S = SUBSET ({n} \cup SourceFile)
  OBVIOUS
<1>3. \A X \in S : X \cup {e[1] : e \in {d \in coupled : d[2] \in X}} \in S
  BY <1>2 DEF RiskTyped
<1>4. \E f : f = [k \in 0..Files |->
                    IF k = 0 THEN {n}
                    ELSE f[k - 1] \cup {e[1] : e \in {d \in coupled : d[2] \in f[k - 1]}}]
  <2>1. PICK G : G = [k \in 1..Files |->
                        [X \in S |-> X \cup {e[1] : e \in {d \in coupled : d[2] \in X}}]]
    OBVIOUS
  <2>2. AreSteps(G, Files, S)
    BY <1>3, <2>1 DEF AreSteps
  <2>3. {n} \in S
    BY <1>2
  <2>4. PICK f : IsIteration(f, Files, S, {n}, G)
    BY <1>1, <2>2, <2>3, Iterates
  <2>5. \A k \in 1..Files :
          f[k] = f[k - 1] \cup {e[1] : e \in {d \in coupled : d[2] \in f[k - 1]}}
    <3>1. SUFFICES ASSUME NEW k \in 1..Files
          PROVE f[k] = f[k - 1] \cup {e[1] : e \in {d \in coupled : d[2] \in f[k - 1]}}
      OBVIOUS
    <3>2. k - 1 \in 0..Files
      BY <1>1
    <3>3. f[k - 1] \in S /\ f[k] = G[k][f[k - 1]]
      BY <2>4, <3>2 DEF IsIteration
    <3>4. QED
      BY <2>1, <3>3
  <2>6. DOMAIN f = 0..Files /\ f[0] = {n} /\ f \in [0..Files -> S]
    BY <2>4 DEF IsIteration
  <2>7. \A k \in 0..Files : k = 0 \/ k \in 1..Files
    BY <1>1
  <2>8. f = [k \in 0..Files |->
               IF k = 0 THEN {n}
               ELSE f[k - 1] \cup {e[1] : e \in {d \in coupled : d[2] \in f[k - 1]}}]
    BY <2>5, <2>6, <2>7
  <2>9. QED
    BY <2>8
<1>5. step = [k \in 0..Files |->
                IF k = 0 THEN {n}
                ELSE step[k - 1] \cup {e[1] : e \in {d \in coupled : d[2] \in step[k - 1]}}]
  BY <1>4
<1>6. Dependents(n) = step[Files] \ {n}
  BY DEF Dependents, Files
<1> HIDE DEF step
<1>7. step[0] = {n}
  BY <1>1, <1>5
<1>8. \A k \in 1..Files : step[k] = Wider(step[k - 1])
  <2>1. \A k \in 1..Files : k \in 0..Files /\ k # 0
    BY <1>1
  <2>2. QED
    BY <1>5, <2>1 DEF Wider
<1>9. \A k \in 0..Files : step[k] \subseteq {n} \cup SourceFile
  <2>1. PICK T : T = {k \in 0..Files : step[k] \in S}
    OBVIOUS
  <2>2. 0 \in T
    BY <1>1, <1>2, <1>7, <2>1
  <2>3. \A k \in 1..Files : k - 1 \in T => k \in T
    <3>1. SUFFICES ASSUME NEW k \in 1..Files, k - 1 \in T PROVE k \in T
      OBVIOUS
    <3>2. step[k] \in S
      BY <1>3, <1>8, <2>1, <3>1 DEF Wider
    <3>3. QED
      BY <1>1, <2>1, <3>2
  <2>4. \A k \in 0..Files : k \in T
    BY <1>1, <2>2, <2>3, StepByStep
  <2>5. QED
    BY <1>2, <2>1, <2>4
<1>10. QED
  BY <1>6, <1>7, <1>8, <1>9 DEF IsReach

\* What a change reaches is counted by a number.
LEMMA ReachIs ==
  ASSUME RiskTyped, NEW n
  PROVE  Degree(n) \in Nat /\ BlastRadius(n) \in Nat
<1>1. IsFiniteSet(SourceFile)
  BY RiskAssumption
<1>2. IsFiniteSet(coupled)
  <2>1. IsFiniteSet(SourceFile \X SourceFile)
    BY <1>1, FS_Product
  <2>2. QED
    BY <2>1, FS_Subset DEF RiskTyped
<1>3. Degree(n) \in Nat
  <2>1. PICK A, B : A = {e \in coupled : e[1] = n} /\ B = {e \in coupled : e[2] = n}
    OBVIOUS
  <2>2. A \in SUBSET coupled /\ B \in SUBSET coupled
    BY <2>1
  <2>3. IsFiniteSet(A) /\ IsFiniteSet(B)
    BY <1>2, <2>2, FS_Subset
  <2>4. Cardinality(A) \in Nat /\ Cardinality(B) \in Nat
    BY <2>3, FS_CardinalityType
  <2>5. QED
    BY <2>1, <2>4 DEF Degree
<1>4. BlastRadius(n) \in Nat
  <2>1. PICK step : IsReach(step, n)
    BY DependentsAre
  <2>2. Files \in 0..Files
    BY FilesAre
  <2>3. Dependents(n) \in SUBSET SourceFile
    BY <2>1, <2>2 DEF IsReach
  <2>4. IsFiniteSet(Dependents(n))
    BY <1>1, <2>3, FS_Subset
  <2>5. QED
    BY <2>4, FS_CardinalityType DEF BlastRadius
<1>5. QED
  BY <1>3, <1>4

\* Scores are in their range.
LEMMA ScoresAre ==
  ASSUME RiskTyped, NEW n \in Leaf, NEW found, NEW time \in Nat
  PROVE  AprioriScore(n, found, time) \in Thousandths /\ AposterioriScore(n) \in Thousandths
<1>1. \A p \in Thousandths : \A value \in Hundredths : \A weight \in Hundredths :
        NoisyOr(p, value, weight) \in Thousandths
  BY NoisyOrIs
<1>2. /\ Saturate(Degree(n), 5) \in Hundredths /\ Saturate(BlastRadius(n), 8) \in Hundredths
      /\ Saturate(DecayedChurn(n, time), 300) \in Hundredths
  <2>1. Degree(n) \in Nat /\ BlastRadius(n) \in Nat /\ DecayedChurn(n, time) \in Nat
    BY ReachIs, ChurnIs
  <2>2. \A x \in Nat : /\ Saturate(x, 5) \in Hundredths /\ Saturate(x, 8) \in Hundredths
                       /\ Saturate(x, 300) \in Hundredths
    BY SaturateIs
  <2>3. QED
    BY <2>1, <2>2
<1>3. LatestDiffSize(n) \in Hundredths
  <2>1. CASE history[n] = <<>>
    BY <2>1 DEF LatestDiffSize, Hundredths
  <2>2. CASE history[n] # <<>>
    <3>1. IsSeq(history[n]) /\ \A i \in 1..Len(history[n]) : VersionTyped(history[n][i])
      BY DEF RiskTyped, HistoryTyped
    <3>2. /\ Len(history[n]) \in 1..Len(history[n])
          /\ Last(history[n]) = history[n][Len(history[n])]
      BY <2>2, <3>1 DEF IsSeq, Last
    <3>3. Last(history[n]).lines \in Nat
      BY <3>1, <3>2 DEF VersionTyped, VersionUpTo
    <3>4. \A x \in Nat : Saturate(x, 50) \in Hundredths
      BY SaturateIs
    <3>5. QED
      BY <2>2, <3>3, <3>4 DEF LatestDiffSize
  <2>3. QED
    BY <2>1, <2>2
<1>4. AprioriScore(n, found, time) \in Thousandths
  <2>1. PICK a : a = NoisyOr(0, Saturate(Degree(n), 5), 50)
    OBVIOUS
  <2>2. PICK b : b = NoisyOr(a, Saturate(BlastRadius(n), 8), 70)
    OBVIOUS
  <2>3. PICK c : c = NoisyOr(b, Saturate(DecayedChurn(n, time), 300), 50)
    OBVIOUS
  <2>4. PICK d : d = NoisyOr(c, LatestDiffSize(n), 45)
    OBVIOUS
  <2>5. PICK s : s = IF n \in SourceFile /\ PathOf(n) \in found THEN 100 ELSE 0
    OBVIOUS
  <2>6. AprioriScore(n, found, time) = NoisyOr(d, s, 60)
    BY <2>1, <2>2, <2>3, <2>4, <2>5 DEF AprioriScore
  <2>7. s \in Hundredths /\ 45 \in Hundredths /\ 50 \in Hundredths /\ 60 \in Hundredths
        /\ 70 \in Hundredths /\ 0 \in Thousandths
    BY <2>5 DEF Hundredths, Thousandths
  <2>8. a \in Thousandths
    BY <1>1, <1>2, <2>1, <2>7
  <2>9. b \in Thousandths
    BY <1>1, <1>2, <2>2, <2>7, <2>8
  <2>10. c \in Thousandths
    BY <1>1, <1>2, <2>3, <2>7, <2>9
  <2>11. d \in Thousandths
    BY <1>1, <1>3, <2>4, <2>7, <2>10
  <2>12. QED
    BY <1>1, <2>6, <2>7, <2>11
<1>5. AposterioriScore(n) \in Thousandths
  <2>1. PICK r, s : /\ r = IF Reverted(n) THEN 100 ELSE 0
                    /\ s = IF ImmediateFix(n) THEN 100 ELSE 0
    OBVIOUS
  <2>2. r \in Hundredths /\ s \in Hundredths /\ 60 \in Hundredths /\ 100 \in Hundredths
        /\ 0 \in Thousandths
    BY <2>1 DEF Hundredths, Thousandths
  <2>3. NoisyOr(0, r, 100) \in Thousandths
    BY <1>1, <2>2
  <2>4. NoisyOr(NoisyOr(0, r, 100), s, 60) \in Thousandths
    BY <1>1, <2>2, <2>3
  <2>5. QED
    BY <2>1, <2>4 DEF AposterioriScore
<1>6. QED
  BY <1>4, <1>5

\* The latest commit has a number.
LEMMA LatestIs ==
  ASSUME RiskTyped
  PROVE  Latest \in Nat
<1> DEFINE times == {v.at : v \in UNION {Range(history[f]) : f \in SourceFile}}
<1>1. times \subseteq 0..age
  <2>1. SUFFICES ASSUME NEW f \in SourceFile, NEW v \in Range(history[f]) PROVE v.at \in 0..age
    OBVIOUS
  <2>2. IsSeq(history[f]) /\ \A i \in 1..Len(history[f]) : VersionTyped(history[f][i])
    BY DEF RiskTyped, HistoryTyped, Leaf
  <2>3. PICK i \in 1..Len(history[f]) : v = history[f][i]
    BY <2>2 DEF IsSeq, Range
  <2>4. VersionTyped(v)
    BY <2>2, <2>3
  <2>5. QED
    BY <2>4 DEF VersionTyped, VersionUpTo, RiskTyped
<1>2. Latest = IF times = {} THEN 0 ELSE CHOOSE t \in times : \A u \in times : u <= t
  BY DEF Latest
<1> HIDE DEF times
<1>3. age \in Nat
  BY DEF RiskTyped
<1>4. CASE times = {}
  BY <1>2, <1>4
<1>5. CASE times # {}
  <2>1. \E t \in times : \A u \in times : u <= t
    BY <1>1, <1>3, <1>5, GreatestOf
  <2>2. Latest \in times
    BY <1>2, <1>5, <2>1
  <2>3. QED
    BY <1>1, <1>3, <2>2
<1>6. QED
  BY <1>4, <1>5

\* The worst of scores, and of worst scores.
LEMMA WorstIs ==
  ASSUME NEW V, V \subseteq Thousandths
  PROVE  /\ Worst(V) \in Thousandths /\ \A x \in V : x <= Worst(V)
         /\ V # {} => Worst(V) \in V
<1>1. CASE V = {}
  BY <1>1 DEF Worst, Thousandths
<1>2. CASE V # {}
  <2>1. \E x \in V : \A y \in V : y <= x
    <3>1. PICK n \in Nat : n = 1000
      OBVIOUS
    <3>2. V \subseteq 0..n
      BY <3>1 DEF Thousandths
    <3>3. QED
      BY <1>2, <3>2, GreatestOf
  <2>2. Worst(V) \in V /\ \A y \in V : y <= Worst(V)
    BY <1>2, <2>1 DEF Worst
  <2>3. QED
    BY <2>2
<1>3. QED
  BY <1>1, <1>2

FoldsWell(C, V) == Worst({Worst(V[c]) : c \in C}) = Worst(UNION {V[c] : c \in C})

\* The worst over a union is the worst of the worsts.
LEMMA WorstOfWorst ==
  ASSUME NEW C, NEW V, \A c \in C : V[c] \subseteq Thousandths
  PROVE  FoldsWell(C, V)
<1>1. PICK each : each = {Worst(V[c]) : c \in C}
  OBVIOUS
<1>2. PICK all : all = UNION {V[c] : c \in C}
  OBVIOUS
<1>3. each \subseteq Thousandths /\ all \subseteq Thousandths
  <2>1. \A c \in C : Worst(V[c]) \in Thousandths
    BY WorstIs
  <2>2. QED
    BY <1>1, <1>2, <2>1
<1>4. /\ Worst(each) \in Thousandths /\ (\A x \in each : x <= Worst(each))
      /\ (each # {} => Worst(each) \in each)
  BY <1>3, WorstIs
<1>5. /\ Worst(all) \in Thousandths /\ (\A x \in all : x <= Worst(all))
      /\ (all # {} => Worst(all) \in all)
  BY <1>3, WorstIs
<1>. Worst({}) = 0 /\ \A x \in Thousandths : x \in Nat
  BY DEF Worst, Thousandths
<1>6. Worst(each) <= Worst(all)
  <2>1. CASE each = {}
    BY <1>5, <2>1
  <2>2. CASE each # {}
    <3>1. PICK c \in C : Worst(each) = Worst(V[c])
      BY <1>1, <1>4, <2>2
    <3>2. CASE V[c] = {}
      BY <1>5, <3>1, <3>2
    <3>3. CASE V[c] # {}
      <4>1. Worst(V[c]) \in V[c]
        BY <3>3, WorstIs
      <4>2. Worst(V[c]) \in all
        BY <1>2, <4>1
      <4>3. QED
        BY <1>5, <3>1, <4>2
    <3>4. QED
      BY <3>2, <3>3
  <2>3. QED
    BY <2>1, <2>2
<1>7. Worst(all) <= Worst(each)
  <2>1. CASE all = {}
    BY <1>4, <2>1
  <2>2. CASE all # {}
    <3>1. PICK c \in C : Worst(all) \in V[c]
      BY <1>2, <1>5, <2>2
    <3>2. Worst(all) <= Worst(V[c])
      BY <3>1, WorstIs
    <3>3. Worst(V[c]) \in each /\ Worst(V[c]) \in Thousandths
      BY <1>1, <1>3
    <3>4. Worst(V[c]) <= Worst(each)
      BY <1>4, <3>3
    <3>5. QED
      BY <1>4, <1>5, <3>2, <3>3, <3>4
  <2>3. QED
    BY <2>1, <2>2
<1>8. QED
  BY <1>1, <1>2, <1>4, <1>5, <1>6, <1>7 DEF FoldsWell

-----------------------------------------------------------------------------
(***************************************************************************)
(* The plan of a run.                                                      *)
(***************************************************************************)
Task(n, do) == [node |-> n, do |-> do]

TaskSet ==
  [node : Leaf, do : {"score"}] \cup [node : SourceFile \cup Folder \cup {Repo}, do : {"fold"}]

\* The levels from the bottom up.
Rank(t) ==
  IF t.do = "score" THEN IF t.node \in Function THEN 1 ELSE 2
  ELSE IF t.node \in SourceFile THEN 3 ELSE IF t.node \in Folder THEN 4 ELSE 5

\* Ranks of tasks go from one to five.
LEMMA RankIs == \A t : Rank(t) \in 1..5
BY DEF Rank

Due(p, t) == \E i \in 1..Len(p) : p[i] = t

\* Each task once, none before one of a lower level.
InOrder(p) ==
  /\ p \in Seq(TaskSet)
  /\ \A i, j \in 1..Len(p) : i < j => p[i] # p[j] /\ Rank(p[i]) <= Rank(p[j])

\* Such a plan of these tasks.
Lists(p, S) == InOrder(p) /\ S \subseteq TaskSet /\ \A t : Due(p, t) <=> t \in S

\* Lists of tasks of lower rank go before lists of higher rank.
LEMMA Joined ==
  ASSUME NEW p, NEW q, NEW S, NEW T, Lists(p, S), Lists(q, T),
         \A s \in S : \A t \in T : Rank(s) < Rank(t)
  PROVE  Lists(p \o q, S \cup T)
<1>1. PICK r, m, n : r = p \o q /\ m = Len(p) /\ n = Len(q)
  OBVIOUS
<1>2. p \in Seq(TaskSet) /\ q \in Seq(TaskSet)
  BY DEF Lists, InOrder
<1>3. /\ m \in Nat /\ n \in Nat /\ r \in Seq(TaskSet) /\ Len(r) = m + n
      /\ \A i \in 1..(m + n) : r[i] = IF i <= m THEN p[i] ELSE q[i - m]
  BY <1>1, <1>2
<1>4. /\ \A i \in 1..m : i \in 1..(m + n) /\ r[i] = p[i]
      /\ \A i \in 1..n : m + i \in 1..(m + n) /\ r[m + i] = q[i]
  BY <1>3
<1>5. \A i \in 1..(m + n) : i \in 1..m \/ \E j \in 1..n : i = m + j
  <2>1. SUFFICES ASSUME NEW i \in 1..(m + n), i \notin 1..m PROVE \E j \in 1..n : i = m + j
    OBVIOUS
  <2>2. i - m \in 1..n /\ i = m + (i - m)
    BY <1>3, <2>1
  <2>3. QED
    BY <2>2
<1>6. \A t : Due(r, t) <=> Due(p, t) \/ Due(q, t)
  <2>1. ASSUME NEW t, Due(r, t) PROVE Due(p, t) \/ Due(q, t)
    <3>1. PICK i \in 1..(m + n) : r[i] = t
      BY <1>3, <2>1 DEF Due
    <3>2. CASE i \in 1..m
      BY <1>1, <1>4, <3>1, <3>2 DEF Due
    <3>3. CASE \E j \in 1..n : i = m + j
      BY <1>1, <1>4, <3>1, <3>3 DEF Due
    <3>4. QED
      BY <1>5, <3>1, <3>2, <3>3
  <2>2. ASSUME NEW t, Due(p, t) \/ Due(q, t) PROVE Due(r, t)
    <3>1. CASE Due(p, t)
      BY <1>1, <1>3, <1>4, <3>1 DEF Due
    <3>2. CASE Due(q, t)
      BY <1>1, <1>3, <1>4, <3>2 DEF Due
    <3>3. QED
      BY <2>2, <3>1, <3>2
  <2>3. QED
    BY <2>1, <2>2
<1>7. \A i \in 1..m : p[i] \in S
  BY <1>1 DEF Lists, Due
<1>8. \A i \in 1..n : q[i] \in T
  BY <1>1 DEF Lists, Due
<1>9. \A i, j \in 1..(m + n) : i < j => r[i] # r[j] /\ Rank(r[i]) <= Rank(r[j])
  <2>1. SUFFICES ASSUME NEW i \in 1..(m + n), NEW j \in 1..(m + n), i < j
                 PROVE  r[i] # r[j] /\ Rank(r[i]) <= Rank(r[j])
    OBVIOUS
  <2>2. CASE i \in 1..m /\ j \in 1..m
    BY <1>1, <1>4, <2>1, <2>2 DEF Lists, InOrder
  <2>3. CASE i \in 1..m /\ j \notin 1..m
    <3>1. PICK k \in 1..n : j = m + k
      BY <1>5, <2>3
    <3>2. Rank(r[i]) < Rank(r[j])
      BY <1>4, <1>7, <1>8, <2>3, <3>1
    <3>3. QED
      BY <3>2, RankIs
  <2>4. CASE i \notin 1..m
    <3>1. PICK k \in 1..n : i = m + k
      BY <1>5, <2>4
    <3>2. j \notin 1..m
      BY <1>3, <2>1, <2>4
    <3>3. PICK l \in 1..n : j = m + l
      BY <1>5, <3>2
    <3>4. k < l
      BY <1>3, <2>1, <3>1, <3>3
    <3>5. QED
      BY <1>1, <1>4, <3>1, <3>3, <3>4 DEF Lists, InOrder
  <2>5. QED
    BY <2>2, <2>3, <2>4
<1>10. QED
  BY <1>1, <1>3, <1>6, <1>9 DEF Lists, InOrder

\* A finite set is listed with each member once.
IsListing(p, S) ==
  /\ p \in Seq(S)
  /\ \A i, j \in 1..Len(p) : i # j => p[i] # p[j]
  /\ \A x \in S : \E i \in 1..Len(p) : p[i] = x

\* A finite set has a listing.
LEMMA SetToSeqIs ==
  ASSUME NEW S, IsFiniteSet(S)
  PROVE  IsListing(SetToSeq(S), S)
<1>1. PICK n : n = Cardinality(S)
  OBVIOUS
<1>2. n \in Nat /\ ExistsBijection(1..n, S)
  BY <1>1, FS_CardinalityType
<1>3. PICK p : p = SetToSeq(S)
  OBVIOUS
<1>4. \E f \in [1..n -> S] : IsInjective(f)
  BY <1>2 DEF ExistsBijection, Bijection, Injection
<1>5. p \in [1..n -> S] /\ IsInjective(p)
  BY <1>1, <1>3, <1>4 DEF SetToSeq
<1>6. p \in Seq(S) /\ Len(p) = n
  BY <1>2, <1>5
<1>7. p \in Surjection(1..n, S)
  <2>1. p \in Injection(1..n, S)
    BY <1>5 DEF Injection
  <2>2. Cardinality(1..n) = n
    BY <1>2, FS_Interval
  <2>3. QED
    BY <1>1, <2>1, <2>2, FS_Injection
<1>8. \A i, j \in 1..n : i # j => p[i] # p[j]
  BY <1>5 DEF IsInjective
<1>9. \A x \in S : \E i \in 1..n : p[i] = x
  BY <1>7 DEF Surjection
<1>10. QED
  BY <1>3, <1>6, <1>8, <1>9 DEF IsListing

\* Tasks of one rank are listed in any order.
LEMMA OneLevel ==
  ASSUME NEW nodes, IsFiniteSet(nodes), NEW do, [node : nodes, do : {do}] \subseteq TaskSet,
         \A n, o \in nodes : Rank(Task(n, do)) = Rank(Task(o, do))
  PROVE  Lists(Tasks(nodes, do), [node : nodes, do : {do}])
<1>1. PICK S : S = [node : nodes, do : {do}]
  OBVIOUS
<1>2. IsFiniteSet(S)
  <2>1. PICK f : f = [n \in nodes |-> Task(n, do)]
    OBVIOUS
  <2>2. f \in Surjection(nodes, S)
    BY <1>1, <2>1 DEF Surjection, Task
  <2>3. QED
    BY <2>2, FS_Surjection
<1>3. PICK p : p = Tasks(nodes, do) /\ p = SetToSeq(S)
  BY <1>1 DEF Tasks
<1>4. /\ p \in Seq(S)
      /\ \A i, j \in 1..Len(p) : i # j => p[i] # p[j]
      /\ \A x \in S : \E i \in 1..Len(p) : p[i] = x
  <2>1. IsListing(p, S)
    BY <1>2, <1>3, SetToSeqIs
  <2>2. QED
    BY <2>1 DEF IsListing
<1>5. Len(p) \in Nat /\ \A i \in 1..Len(p) : p[i] \in S
  BY <1>4
<1>6. \A s, t \in S : Rank(s) = Rank(t)
  BY <1>1 DEF Task
<1>7. \A i, j \in 1..Len(p) : i < j => p[i] # p[j] /\ Rank(p[i]) <= Rank(p[j])
  <2>1. SUFFICES ASSUME NEW i \in 1..Len(p), NEW j \in 1..Len(p), i < j
                 PROVE  p[i] # p[j] /\ Rank(p[i]) <= Rank(p[j])
    OBVIOUS
  <2>2. Rank(p[i]) = Rank(p[j]) /\ Rank(p[i]) \in 1..5
    BY <1>5, <1>6, RankIs
  <2>3. p[i] # p[j]
    BY <1>4, <2>1
  <2>4. \A r \in 1..5 : r <= r
    OBVIOUS
  <2>5. QED
    BY <2>2, <2>3, <2>4
<1>8. p \in Seq(TaskSet)
  <2>1. p = [i \in 1..Len(p) |-> p[i]]
    BY <1>4
  <2>2. \A i \in 1..Len(p) : p[i] \in TaskSet
    BY <1>1, <1>5
  <2>3. QED
    BY <1>5, <2>1, <2>2
<1>9. \A t : Due(p, t) <=> t \in S
  BY <1>4, <1>5 DEF Due
<1>10. QED
  BY <1>1, <1>3, <1>7, <1>8, <1>9 DEF Lists, InOrder

\* The plan lists each task once, what is below first.
LEMMA LevelsAre == Lists(Levels, TaskSet)
<1>1. PICK A, B, C, D, E :
        /\ A = [node : Function, do : {"score"}] /\ B = [node : SourceFile, do : {"score"}]
        /\ C = [node : SourceFile, do : {"fold"}] /\ D = [node : Folder, do : {"fold"}]
        /\ E = [node : {Repo}, do : {"fold"}]
  OBVIOUS
<1>2. /\ A \subseteq TaskSet /\ B \subseteq TaskSet /\ C \subseteq TaskSet
      /\ D \subseteq TaskSet /\ E \subseteq TaskSet
  BY <1>1 DEF TaskSet, Leaf
<1>3. /\ \A t \in A : Rank(t) = 1
      /\ \A t \in B : Rank(t) = 2
      /\ \A t \in C : Rank(t) = 3
      /\ \A t \in D : Rank(t) = 4
      /\ \A t \in E : Rank(t) = 5
  BY <1>1, RiskAssumption DEF Rank
<1>4. PICK a, b, c, d, e :
        /\ a = Tasks(Function, "score") /\ b = Tasks(SourceFile, "score")
        /\ c = Tasks(SourceFile, "fold") /\ d = Tasks(Folder, "fold")
        /\ e = Tasks({Repo}, "fold")
  OBVIOUS
<1>5. \A nodes, do : \A n \in nodes : Task(n, do) \in [node : nodes, do : {do}]
  BY DEF Task
<1>6. Lists(a, A)
  <2>1. \A n, o \in Function : Rank(Task(n, "score")) = Rank(Task(o, "score"))
    BY <1>1, <1>3, <1>5
  <2>2. QED
    BY <1>1, <1>2, <1>4, <2>1, OneLevel, RiskAssumption
<1>7. Lists(b, B)
  <2>1. \A n, o \in SourceFile : Rank(Task(n, "score")) = Rank(Task(o, "score"))
    BY <1>1, <1>3, <1>5
  <2>2. QED
    BY <1>1, <1>2, <1>4, <2>1, OneLevel, RiskAssumption
<1>8. Lists(c, C)
  <2>1. \A n, o \in SourceFile : Rank(Task(n, "fold")) = Rank(Task(o, "fold"))
    BY <1>1, <1>3, <1>5
  <2>2. QED
    BY <1>1, <1>2, <1>4, <2>1, OneLevel, RiskAssumption
<1>9. Lists(d, D)
  <2>1. \A n, o \in Folder : Rank(Task(n, "fold")) = Rank(Task(o, "fold"))
    BY <1>1, <1>3, <1>5
  <2>2. QED
    BY <1>1, <1>2, <1>4, <2>1, OneLevel, RiskAssumption
<1>10. Lists(e, E)
  <2>1. \A n, o \in {Repo} : Rank(Task(n, "fold")) = Rank(Task(o, "fold"))
    OBVIOUS
  <2>2. IsFiniteSet({Repo})
    BY FS_Singleton
  <2>3. QED
    BY <1>1, <1>2, <1>4, <2>1, <2>2, OneLevel
<1>11. Lists(a \o b, A \cup B)
  <2>1. \A s \in A : \A t \in B : Rank(s) < Rank(t)
    BY <1>3
  <2>2. QED
    BY <1>6, <1>7, <2>1, Joined
<1>12. Lists((a \o b) \o c, (A \cup B) \cup C)
  <2>1. \A s \in A \cup B : \A t \in C : Rank(s) < Rank(t)
    BY <1>3
  <2>2. QED
    BY <1>8, <1>11, <2>1, Joined
<1>13. Lists(((a \o b) \o c) \o d, ((A \cup B) \cup C) \cup D)
  <2>1. \A s \in (A \cup B) \cup C : \A t \in D : Rank(s) < Rank(t)
    BY <1>3
  <2>2. QED
    BY <1>9, <1>12, <2>1, Joined
<1>14. Lists((((a \o b) \o c) \o d) \o e, (((A \cup B) \cup C) \cup D) \cup E)
  <2>1. \A s \in ((A \cup B) \cup C) \cup D : \A t \in E : Rank(s) < Rank(t)
    BY <1>3
  <2>2. QED
    BY <1>10, <1>13, <2>1, Joined
<1>15. Levels = (((a \o b) \o c) \o d) \o e
  BY <1>4 DEF Levels
<1>16. (((A \cup B) \cup C) \cup D) \cup E = TaskSet
  <2>1. \A t \in [node : Leaf, do : {"score"}] : t \in A \cup B
    BY <1>1 DEF Leaf
  <2>2. \A t \in [node : SourceFile \cup Folder \cup {Repo}, do : {"fold"}] :
          t \in (C \cup D) \cup E
    BY <1>1
  <2>3. QED
    BY <1>2, <2>1, <2>2 DEF TaskSet
<1>17. QED
  BY <1>14, <1>15, <1>16

\* What remains of a plan after its first task.
LEMMA RestOfPlan ==
  ASSUME NEW p, InOrder(p), p # <<>>
  PROVE  /\ InOrder(Tail(p)) /\ Head(p) \in TaskSet
         /\ \A t : Due(Tail(p), t) <=> Due(p, t) /\ t # Head(p)
         /\ \A t : Due(Tail(p), t) => Rank(Head(p)) <= Rank(t)
         /\ Due(p, Head(p)) /\ (Len(p) = 1 => Tail(p) = <<>>)
<1>1. p \in Seq(TaskSet) /\ Len(p) \in Nat /\ Len(p) > 0
  BY DEF InOrder
<1>2. PICK q, m : q = Tail(p) /\ m = Len(q)
  OBVIOUS
<1>3. /\ q \in Seq(TaskSet) /\ m \in Nat /\ Len(p) = m + 1 /\ Head(p) = p[1]
      /\ p[1] \in TaskSet
      /\ \A i \in 1..m : q[i] = p[i + 1] /\ i + 1 \in 1..(m + 1) /\ 1 < i + 1
  BY <1>1, <1>2
<1>4. \A i, j \in 1..(m + 1) : i < j => p[i] # p[j] /\ Rank(p[i]) <= Rank(p[j])
  BY <1>3 DEF InOrder
<1>5. 1 \in 1..(m + 1)
  BY <1>3
<1>6. InOrder(q)
  <2>1. \A i, j \in 1..m : i < j => q[i] # q[j] /\ Rank(q[i]) <= Rank(q[j])
    <3>1. SUFFICES ASSUME NEW i \in 1..m, NEW j \in 1..m, i < j
                   PROVE  q[i] # q[j] /\ Rank(q[i]) <= Rank(q[j])
      OBVIOUS
    <3>2. i + 1 \in 1..(m + 1) /\ j + 1 \in 1..(m + 1) /\ i + 1 < j + 1
      BY <1>3, <3>1
    <3>3. QED
      BY <1>3, <1>4, <3>2
  <2>2. QED
    BY <1>2, <1>3, <2>1 DEF InOrder
<1>7. \A t : Due(q, t) <=> Due(p, t) /\ t # Head(p)
  <2>1. ASSUME NEW t, Due(q, t) PROVE Due(p, t) /\ t # Head(p)
    <3>1. PICK i \in 1..m : q[i] = t
      BY <1>2, <2>1 DEF Due
    <3>2. p[i + 1] = t /\ i + 1 \in 1..(m + 1) /\ p[1] # p[i + 1]
      BY <1>3, <1>4, <1>5, <3>1
    <3>3. QED
      BY <1>3, <3>2 DEF Due
  <2>2. ASSUME NEW t, Due(p, t), t # Head(p) PROVE Due(q, t)
    <3>1. PICK i \in 1..(m + 1) : p[i] = t
      BY <1>3, <2>2 DEF Due
    <3>2. i # 1
      BY <1>3, <2>2, <3>1
    <3>3. i - 1 \in 1..m /\ (i - 1) + 1 = i
      BY <1>3, <3>1, <3>2
    <3>4. q[i - 1] = t
      BY <1>3, <3>1, <3>3
    <3>5. QED
      BY <1>2, <3>3, <3>4 DEF Due
  <2>3. QED
    BY <2>1, <2>2
<1>8. \A t : Due(q, t) => Rank(Head(p)) <= Rank(t)
  <2>1. SUFFICES ASSUME NEW t, Due(q, t) PROVE Rank(Head(p)) <= Rank(t)
    OBVIOUS
  <2>2. PICK i \in 1..m : q[i] = t
    BY <1>2, <2>1 DEF Due
  <2>3. QED
    BY <1>3, <1>4, <1>5, <2>2
<1>9. Due(p, Head(p))
  BY <1>3, <1>5 DEF Due
<1>10. Len(p) = 1 => Tail(p) = <<>>
  BY <1>2, <1>3
<1>11. QED
  BY <1>2, <1>3, <1>6, <1>7, <1>8, <1>9, <1>10

-----------------------------------------------------------------------------
(***************************************************************************)
(* What a run has done.                                                    *)
(***************************************************************************)
Score(l) == [prior |-> AprioriScore(l, surprise, Latest), post |-> AposterioriScore(l)]

FilesBelow(n) ==
  CASE n \in Folder -> {f \in SourceFile : folder[f] = n}
    [] n = Repo     -> SourceFile
    [] OTHER        -> {n}

LeavesBelow(n) == FilesBelow(n) \cup {s \in Function : FileOf[s] \in FilesBelow(n)}

WorstBelow(n) ==
  [prior |-> Worst({AprioriScore(l, surprise, Latest) : l \in LeavesBelow(n)}),
   post  |-> Worst({AposterioriScore(l) : l \in LeavesBelow(n)})]

\* With p to be done, the nodes show what the tasks before it made of them.
Done(p) ==
  /\ \A s \in Function : Due(p, Task(s, "score")) \/ risk[s] = Score(s)
  /\ \A f \in SourceFile :
       Due(p, Task(f, "score")) \/ ~Due(p, Task(f, "fold")) \/ risk[f] = Score(f)
  /\ \A f \in SourceFile : Due(p, Task(f, "score")) => Due(p, Task(f, "fold"))
  /\ \A n \in SourceFile \cup Folder \cup {Repo} :
       Due(p, Task(n, "fold")) \/ risk[n] = WorstBelow(n)

\* A run that nothing has overtaken.
Progress ==
  (scoring.plan # <<>> /\ ~scoring.stale) =>
    /\ InOrder(scoring.plan) /\ Done(scoring.plan)
    /\ scoring.surprise = surprise /\ scoring.now = Latest

Surfaced == fresh => (scoring.stage = "idle" /\ Done(<<>>))

\* The scores of a history that stays are the same.
LEMMA ScoresStay ==
  ASSUME UNCHANGED <<history, folder, surprise, coupled>>
  PROVE  /\ \A l : Score(l)' = Score(l)
         /\ \A n : WorstBelow(n)' = WorstBelow(n)
         /\ Latest' = Latest
<1>1. \A n : Degree(n)' = Degree(n)
  BY DEF Degree
<1>2. \A n : BlastRadius(n)' = BlastRadius(n)
  BY DEF BlastRadius, Dependents
<1>3. \A n, time : DecayedChurn(n, time)' = DecayedChurn(n, time)
  BY DEF DecayedChurn
<1>4. \A n : LatestDiffSize(n)' = LatestDiffSize(n)
  BY DEF LatestDiffSize
<1>5. Latest' = Latest
  BY DEF Latest
<1>6. \A n, found, time : AprioriScore(n, found, time)' = AprioriScore(n, found, time)
  BY <1>1, <1>2, <1>3, <1>4 DEF AprioriScore, PathOf
<1>7. \A n : AposterioriScore(n)' = AposterioriScore(n)
  BY DEF AposterioriScore, Reverted, ImmediateFix
<1>8. \A n : LeavesBelow(n)' = LeavesBelow(n)
  BY DEF LeavesBelow, FilesBelow
<1>9. \A l : Score(l)' = Score(l)
  BY <1>5, <1>6, <1>7 DEF Score
<1>10. \A n : WorstBelow(n)' = WorstBelow(n)
  BY <1>5, <1>6, <1>7, <1>8 DEF WorstBelow
<1>11. QED
  BY <1>5, <1>9, <1>10

\* Functions and files are leaves; folders and the repository are not.
LEMMA LeafOrNot ==
  /\ \A s \in Function : s \notin SourceFile /\ s \notin Folder /\ s # Repo /\ s \in Leaf
  /\ \A f \in SourceFile : f \notin Function /\ f \notin Folder /\ f # Repo /\ f \in Leaf
  /\ \A d \in Folder : d \notin SourceFile /\ d \notin Function /\ d # Repo
  /\ Repo \notin Function /\ Repo \notin SourceFile /\ Repo \notin Folder
BY RiskAssumption DEF Leaf

\* Tasks are told apart by their node and what they do, and ranked by both.
LEMMA TasksDiffer ==
  /\ \A n, m, do, to : Task(n, do) = Task(m, to) <=> n = m /\ do = to
  /\ \A n, m : Task(n, "score") # Task(m, "fold")
  /\ \A n \in Function : Rank(Task(n, "score")) = 1
  /\ \A n \in SourceFile : Rank(Task(n, "score")) = 2 /\ Rank(Task(n, "fold")) = 3
  /\ \A n \in Folder : Rank(Task(n, "fold")) = 4
  /\ Rank(Task(Repo, "fold")) = 5
<1>1. \A n, do : Task(n, do).node = n /\ Task(n, do).do = do
  BY DEF Task
<1>2. \A n, m, do, to : Task(n, do) = Task(m, to) <=> n = m /\ do = to
  BY <1>1 DEF Task
<1>3. \A n, m : Task(n, "score") # Task(m, "fold")
  BY <1>2
<1>4. /\ \A n \in Function : Rank(Task(n, "score")) = 1
      /\ \A n \in SourceFile : Rank(Task(n, "score")) = 2 /\ Rank(Task(n, "fold")) = 3
      /\ \A n \in Folder : Rank(Task(n, "fold")) = 4
      /\ Rank(Task(Repo, "fold")) = 5
  BY <1>1, LeafOrNot DEF Rank
<1>5. QED
  BY <1>2, <1>3, <1>4

\* A leaf is scored.
LEMMA ScoreIsDone ==
  ASSUME NEW p, InOrder(p), p # <<>>, NEW n \in Leaf, Head(p) = Task(n, "score"), Done(p),
         UNCHANGED <<history, folder, surprise, coupled>>, DOMAIN risk = Scored,
         risk' = [risk EXCEPT ![n] = Score(n)]
  PROVE  Done(Tail(p))'
<1>1. PICK q : q = Tail(p)
  OBVIOUS
<1>2. /\ \A t : Due(q, t) <=> Due(p, t) /\ t # Head(p)
      /\ \A t : Due(q, t) => Rank(Head(p)) <= Rank(t)
  BY <1>1, RestOfPlan
<1>3. /\ \A l : Score(l)' = Score(l)
      /\ \A m : WorstBelow(m)' = WorstBelow(m)
  BY ScoresStay
<1>4. risk'[n] = Score(n) /\ \A m \in Scored : m # n => risk'[m] = risk[m]
  BY DEF Scored
<1>5. \A s \in Function : Due(q, Task(s, "score")) \/ risk'[s] = Score(s)
  <2>1. SUFFICES ASSUME NEW s \in Function, ~Due(q, Task(s, "score")) PROVE risk'[s] = Score(s)
    OBVIOUS
  <2>2. CASE s = n
    BY <1>4, <2>2
  <2>3. CASE s # n
    BY <1>2, <1>4, <2>1, <2>3, TasksDiffer DEF Done, Scored, Leaf
  <2>4. QED
    BY <2>2, <2>3
<1>6. \A f \in SourceFile :
        Due(q, Task(f, "score")) \/ ~Due(q, Task(f, "fold")) \/ risk'[f] = Score(f)
  <2>1. SUFFICES ASSUME NEW f \in SourceFile, ~Due(q, Task(f, "score")),
                        Due(q, Task(f, "fold"))
                 PROVE  risk'[f] = Score(f)
    OBVIOUS
  <2>2. CASE f = n
    BY <1>4, <2>2
  <2>3. CASE f # n
    BY <1>2, <1>4, <2>1, <2>3, TasksDiffer DEF Done, Scored, Leaf
  <2>4. QED
    BY <2>2, <2>3
<1>7. \A f \in SourceFile : Due(q, Task(f, "score")) => Due(q, Task(f, "fold"))
  BY <1>2, TasksDiffer DEF Done
<1>8. \A m \in SourceFile \cup Folder \cup {Repo} :
        Due(q, Task(m, "fold")) \/ risk'[m] = WorstBelow(m)
  <2>1. SUFFICES ASSUME NEW m \in SourceFile \cup Folder \cup {Repo}, ~Due(q, Task(m, "fold"))
                 PROVE  risk'[m] = WorstBelow(m)
    OBVIOUS
  <2>2. ~Due(p, Task(m, "fold"))
    BY <1>2, <2>1, TasksDiffer
  <2>3. risk[m] = WorstBelow(m)
    BY <2>2 DEF Done
  <2>4. m # n
    <3>1. Due(p, Task(n, "score"))
      BY RestOfPlan
    <3>2. ~(n \in SourceFile /\ ~Due(p, Task(n, "fold")))
      BY <3>1 DEF Done
    <3>3. QED
      BY <2>2, <3>2, LeafOrNot DEF Leaf
  <2>5. QED
    BY <1>4, <2>3, <2>4 DEF Scored, Leaf
<1>9. QED
  BY <1>1, <1>3, <1>5, <1>6, <1>7, <1>8 DEF Done

\* The leaves below each kind of node.
LEMMA LeavesAre ==
  ASSUME RiskTyped
  PROVE  /\ \A n \in Scored : LeavesBelow(n) \subseteq Leaf
         /\ \A f \in SourceFile : LeavesBelow(f) = {f} \cup {s \in Function : FileOf[s] = f}
         /\ \A s \in Function : LeavesBelow(s) = {s}
         /\ \A d \in Folder : LeavesBelow(d) = UNION {LeavesBelow(f) : f \in Children(d)}
         /\ LeavesBelow(Repo) = UNION {LeavesBelow(d) : d \in Children(Repo)}
<1>1. \A s \in Function : FileOf[s] \in SourceFile
  BY RiskAssumption
<1>2. \A f \in SourceFile : folder[f] \in Folder
  BY DEF RiskTyped
<1>3. /\ \A f \in SourceFile : FilesBelow(f) = {f}
      /\ \A s \in Function : FilesBelow(s) = {s}
      /\ \A d \in Folder : FilesBelow(d) = {f \in SourceFile : folder[f] = d}
      /\ FilesBelow(Repo) = SourceFile
  BY LeafOrNot DEF FilesBelow
<1>4. \A n \in Scored : LeavesBelow(n) \subseteq Leaf
  <2>1. \A n \in Scored : FilesBelow(n) \subseteq Leaf
    BY <1>3, LeafOrNot DEF Scored, Leaf
  <2>2. QED
    BY <2>1 DEF LeavesBelow, Leaf
<1>5. \A f \in SourceFile : LeavesBelow(f) = {f} \cup {s \in Function : FileOf[s] = f}
  BY <1>3 DEF LeavesBelow
<1>6. \A s \in Function : LeavesBelow(s) = {s}
  BY <1>1, <1>3, LeafOrNot DEF LeavesBelow
<1>7. \A d \in Folder : Children(d) = {f \in SourceFile : folder[f] = d}
  BY LeafOrNot DEF Children
<1>8. Children(Repo) = Folder
  BY LeafOrNot DEF Children
<1>9. ASSUME NEW d \in Folder
      PROVE  LeavesBelow(d) = UNION {LeavesBelow(f) : f \in Children(d)}
  <2>1. \A x : x \in LeavesBelow(d) <=>
                 \/ x \in SourceFile /\ folder[x] = d
                 \/ x \in Function /\ folder[FileOf[x]] = d
    BY <1>1, <1>3 DEF LeavesBelow
  <2>2. \A x : x \in UNION {LeavesBelow(f) : f \in Children(d)} <=>
                 \E f \in SourceFile : folder[f] = d /\ x \in LeavesBelow(f)
    BY <1>7
  <2>3. QED
    BY <1>1, <1>5, <2>1, <2>2
<1>10. LeavesBelow(Repo) = UNION {LeavesBelow(d) : d \in Children(Repo)}
  <2>1. \A x : x \in LeavesBelow(Repo) <=> x \in SourceFile \/ x \in Function
    BY <1>1, <1>3 DEF LeavesBelow
  <2>2. \A x : \A d \in Folder : x \in LeavesBelow(d) <=>
                 \/ x \in SourceFile /\ folder[x] = d
                 \/ x \in Function /\ folder[FileOf[x]] = d
    BY <1>1, <1>3 DEF LeavesBelow
  <2>3. \A x : x \in UNION {LeavesBelow(d) : d \in Children(Repo)} <=>
                 \E d \in Folder : x \in LeavesBelow(d)
    BY <1>8
  <2>4. \A x : x \in LeavesBelow(Repo) <=> \E d \in Folder : x \in LeavesBelow(d)
    BY <1>1, <1>2, <2>1, <2>2
  <2>5. QED
    BY <2>3, <2>4
<1>11. QED
  BY <1>4, <1>5, <1>6, <1>9, <1>10

\* The worst of what is worst below the children is the worst below.
LEMMA FoldOfWorst ==
  ASSUME RiskTyped, NEW n, NEW C, C \subseteq Scored,
         LeavesBelow(n) = UNION {LeavesBelow(c) : c \in C},
         \A c \in C : risk[c] = WorstBelow(c)
  PROVE  DeriveAggregate({risk[c] : c \in C}) = WorstBelow(n)
<1>1. PICK P : P = [c \in C |-> {AprioriScore(l, surprise, Latest) : l \in LeavesBelow(c)}]
  OBVIOUS
<1>2. PICK Q : Q = [c \in C |-> {AposterioriScore(l) : l \in LeavesBelow(c)}]
  OBVIOUS
<1>3. \A c \in C : P[c] \subseteq Thousandths /\ Q[c] \subseteq Thousandths
  <2>1. SUFFICES ASSUME NEW c \in C
                 PROVE  P[c] \subseteq Thousandths /\ Q[c] \subseteq Thousandths
    OBVIOUS
  <2>2. LeavesBelow(c) \subseteq Leaf /\ Latest \in Nat
    BY LeavesAre, LatestIs
  <2>3. \A l \in LeavesBelow(c) : /\ AprioriScore(l, surprise, Latest) \in Thousandths
                                  /\ AposterioriScore(l) \in Thousandths
    BY <2>2, ScoresAre
  <2>4. QED
    BY <1>1, <1>2, <2>3
<1>4. /\ Worst({Worst(P[c]) : c \in C}) = Worst(UNION {P[c] : c \in C})
      /\ Worst({Worst(Q[c]) : c \in C}) = Worst(UNION {Q[c] : c \in C})
  <2>1. \A c \in C : P[c] \subseteq Thousandths
    BY <1>3
  <2>2. \A c \in C : Q[c] \subseteq Thousandths
    BY <1>3
  <2>3. FoldsWell(C, P)
    BY <2>1, WorstOfWorst
  <2>4. FoldsWell(C, Q)
    BY <2>2, WorstOfWorst
  <2>5. QED
    BY <2>3, <2>4 DEF FoldsWell
<1>5. /\ UNION {P[c] : c \in C} = {AprioriScore(l, surprise, Latest) : l \in LeavesBelow(n)}
      /\ UNION {Q[c] : c \in C} = {AposterioriScore(l) : l \in LeavesBelow(n)}
  BY <1>1, <1>2
<1>6. PICK R : R = {risk[c] : c \in C}
  OBVIOUS
<1>7. /\ {r.prior : r \in R} = {Worst(P[c]) : c \in C}
      /\ {r.post : r \in R} = {Worst(Q[c]) : c \in C}
  <2>1. ASSUME NEW c \in C
        PROVE  risk[c].prior = Worst(P[c]) /\ risk[c].post = Worst(Q[c])
    <3>1. /\ P[c] = {AprioriScore(l, surprise, Latest) : l \in LeavesBelow(c)}
          /\ Q[c] = {AposterioriScore(l) : l \in LeavesBelow(c)}
      BY <1>1, <1>2
    <3>2. WorstBelow(c).prior = Worst(P[c]) /\ WorstBelow(c).post = Worst(Q[c])
      BY <3>1 DEF WorstBelow
    <3>3. QED
      BY <3>2
  <2>2. QED
    BY <1>6, <2>1
<1>8. QED
  BY <1>4, <1>5, <1>6, <1>7 DEF DeriveAggregate, WorstBelow

\* Once the functions of a file are scored, folding them gives its worst.
LEMMA FileOfWorst ==
  ASSUME RiskTyped, NEW f \in SourceFile, \A l \in LeavesBelow(f) : risk[l] = Score(l)
  PROVE  DeriveAggregate({risk[c] : c \in Children(f)} \cup {risk[f]}) = WorstBelow(f)
<1>1. LeavesBelow(f) = Children(f) \cup {f}
  BY LeavesAre, LeafOrNot DEF Children
<1>2. PICK R : R = {risk[c] : c \in Children(f)} \cup {risk[f]}
  OBVIOUS
<1>3. R = {risk[l] : l \in LeavesBelow(f)}
  BY <1>1, <1>2
<1>4. /\ {r.prior : r \in R} = {AprioriScore(l, surprise, Latest) : l \in LeavesBelow(f)}
      /\ {r.post : r \in R} = {AposterioriScore(l) : l \in LeavesBelow(f)}
  <2>1. ASSUME NEW l \in LeavesBelow(f)
        PROVE  /\ risk[l].prior = AprioriScore(l, surprise, Latest)
               /\ risk[l].post = AposterioriScore(l)
    <3>1. /\ Score(l).prior = AprioriScore(l, surprise, Latest)
          /\ Score(l).post = AposterioriScore(l)
      BY DEF Score
    <3>2. QED
      BY <3>1
  <2>2. QED
    BY <1>3, <2>1
<1>5. QED
  BY <1>2, <1>4 DEF DeriveAggregate, WorstBelow

\* A node is folded.
LEMMA FoldIsDone ==
  ASSUME NEW p, InOrder(p), p # <<>>, NEW n \in SourceFile \cup Folder \cup {Repo},
         Head(p) = Task(n, "fold"), Done(p), RiskTyped,
         UNCHANGED <<history, folder, surprise, coupled>>,
         risk' = [risk EXCEPT ![n] =
                    DeriveAggregate({risk[c] : c \in Children(n)}
                                      \cup (IF n \in SourceFile THEN {risk[n]} ELSE {}))]
  PROVE  Done(Tail(p))'
<1>1. PICK q : q = Tail(p)
  OBVIOUS
<1>2. /\ \A t : Due(q, t) <=> Due(p, t) /\ t # Head(p)
      /\ \A t : Due(q, t) => Rank(Head(p)) <= Rank(t)
      /\ Due(p, Head(p))
  BY <1>1, RestOfPlan
<1>3. /\ \A l : Score(l)' = Score(l)
      /\ \A m : WorstBelow(m)' = WorstBelow(m)
  BY ScoresStay
<1>4. risk'[n] = WorstBelow(n)
  <2>1. n \in Scored /\ DOMAIN risk = Scored
    BY DEF Scored, Leaf, RiskTyped
  <2>2. risk'[n] = DeriveAggregate({risk[c] : c \in Children(n)}
                                      \cup (IF n \in SourceFile THEN {risk[n]} ELSE {}))
    BY <2>1
  <2>3. CASE n \in SourceFile
    <3>1. ASSUME NEW l \in LeavesBelow(n) PROVE risk[l] = Score(l)
      <4>1. l = n \/ l \in Function
        BY <2>3, <3>1, LeavesAre
      <4>2. ~Due(p, Task(l, "score"))
        <5>1. Rank(Task(l, "score")) < Rank(Head(p))
          BY <2>3, <4>1, TasksDiffer
        <5>2. Task(l, "score") # Head(p)
          BY TasksDiffer
        <5>3. Rank(Task(l, "score")) \in 1..5 /\ Rank(Head(p)) \in 1..5
          BY RankIs
        <5>4. QED
          BY <1>2, <5>1, <5>2, <5>3
      <4>3. CASE l \in Function
        BY <4>2, <4>3 DEF Done
      <4>4. CASE l = n
        BY <1>2, <2>3, <4>2, <4>4 DEF Done
      <4>5. QED
        BY <4>1, <4>3, <4>4
    <3>2. QED
      BY <2>2, <2>3, <3>1, FileOfWorst
  <2>4. CASE n \notin SourceFile
    <3>1. ASSUME NEW c \in Children(n) PROVE risk[c] = WorstBelow(c) /\ c \in Scored
      <4>1. \/ n \in Folder /\ c \in SourceFile
            \/ n = Repo /\ c \in Folder
        BY <2>4, <3>1, LeafOrNot DEF Children
      <4>2. Rank(Task(c, "fold")) < Rank(Head(p))
        BY <4>1, TasksDiffer
      <4>3. c # n
        BY <4>1, LeafOrNot
      <4>4. Task(c, "fold") # Head(p)
        BY <4>3, TasksDiffer
      <4>5. Rank(Task(c, "fold")) \in 1..5 /\ Rank(Head(p)) \in 1..5
        BY RankIs
      <4>6. ~Due(p, Task(c, "fold"))
        BY <1>2, <4>2, <4>4, <4>5
      <4>7. QED
        BY <4>1, <4>6 DEF Done, Scored, Leaf
    <3>2. LeavesBelow(n) = UNION {LeavesBelow(c) : c \in Children(n)}
      BY <2>4, LeavesAre
    <3>3. PICK C : C = Children(n)
      OBVIOUS
    <3>4. DeriveAggregate({risk[c] : c \in C}) = WorstBelow(n)
      BY <3>1, <3>2, <3>3, FoldOfWorst
    <3>5. {risk[c] : c \in Children(n)} \cup (IF n \in SourceFile THEN {risk[n]} ELSE {})
            = {risk[c] : c \in C}
      BY <2>4, <3>3
    <3>6. QED
      BY <2>2, <3>4, <3>5
  <2>5. QED
    BY <2>3, <2>4
<1>5. \A m \in Scored : m # n => risk'[m] = risk[m]
  BY DEF RiskTyped
<1>6. \A s \in Function : Due(q, Task(s, "score")) \/ risk'[s] = Score(s)
  <2>1. SUFFICES ASSUME NEW s \in Function, ~Due(q, Task(s, "score")) PROVE risk'[s] = Score(s)
    OBVIOUS
  <2>2. ~Due(p, Task(s, "score"))
    BY <1>2, <2>1, TasksDiffer
  <2>3. s # n /\ s \in Scored
    BY LeafOrNot DEF Scored
  <2>4. QED
    BY <1>5, <2>2, <2>3 DEF Done
<1>7. \A f \in SourceFile :
        Due(q, Task(f, "score")) \/ ~Due(q, Task(f, "fold")) \/ risk'[f] = Score(f)
  <2>1. SUFFICES ASSUME NEW f \in SourceFile, ~Due(q, Task(f, "score")),
                        Due(q, Task(f, "fold"))
                 PROVE  risk'[f] = Score(f)
    OBVIOUS
  <2>2. /\ ~Due(p, Task(f, "score")) /\ Due(p, Task(f, "fold"))
        /\ Task(f, "fold") # Task(n, "fold")
    BY <1>2, <2>1, TasksDiffer
  <2>3. f # n /\ f \in Scored
    BY <2>2 DEF Scored, Leaf
  <2>4. QED
    BY <1>5, <2>2, <2>3 DEF Done
<1>8. \A f \in SourceFile : Due(q, Task(f, "score")) => Due(q, Task(f, "fold"))
  <2>1. SUFFICES ASSUME NEW f \in SourceFile, Due(q, Task(f, "score"))
                 PROVE  Due(q, Task(f, "fold"))
    OBVIOUS
  <2>2. Due(p, Task(f, "fold"))
    BY <1>2, <2>1 DEF Done
  <2>3. Rank(Head(p)) <= 2
    BY <1>2, <2>1, TasksDiffer
  <2>4. FALSE
    BY <2>3, TasksDiffer
  <2>5. QED
    BY <2>4
<1>9. \A m \in SourceFile \cup Folder \cup {Repo} :
        Due(q, Task(m, "fold")) \/ risk'[m] = WorstBelow(m)
  <2>1. SUFFICES ASSUME NEW m \in SourceFile \cup Folder \cup {Repo}, ~Due(q, Task(m, "fold"))
                 PROVE  risk'[m] = WorstBelow(m)
    OBVIOUS
  <2>2. CASE m = n
    BY <1>4, <2>2
  <2>3. CASE m # n
    <3>1. ~Due(p, Task(m, "fold"))
      BY <1>2, <2>1, <2>3, TasksDiffer
    <3>2. QED
      BY <1>5, <2>3, <3>1 DEF Done, Scored, Leaf
  <2>4. QED
    BY <2>2, <2>3
<1>10. QED
  BY <1>1, <1>3, <1>6, <1>7, <1>8, <1>9 DEF Done

-----------------------------------------------------------------------------
(***************************************************************************)
(* What is recorded, and what couples files.                               *)
(***************************************************************************)
\* The files of a commit that are on record, and the commits that are not yet whole.
On(c) == FilesOf(c, Touched)
Pending(c) == c = changes /\ DOMAIN recording.prints # {}

HasCommit(n, c) == \E i \in 1..Len(history[n]) : history[n][i].commit = c

\* The same of any histories.
TouchedBy(h) == UNION {{<<v.commit, f>> : v \in Range(h[f])} : f \in SourceFile}
FilesIn(h, c) == {f \in SourceFile : \E i \in 1..Len(h[f]) : h[f][i].commit = c}

\* A file is touched in a commit when one of its versions is of that commit.
LEMMA FilesInAre ==
  ASSUME NEW h, \A f \in SourceFile : IsSeq(h[f]), NEW c
  PROVE  FilesOf(c, TouchedBy(h)) = FilesIn(h, c)
<1>1. SUFFICES ASSUME NEW f \in SourceFile
               PROVE  <<c, f>> \in TouchedBy(h) <=> \E i \in 1..Len(h[f]) : h[f][i].commit = c
  BY DEF FilesOf, FilesIn
<1>2. DOMAIN h[f] = 1..Len(h[f])
  BY DEF IsSeq
<1>3. \A g \in SourceFile : \A v : <<c, f>> = <<v.commit, g>> => g = f /\ v.commit = c
  OBVIOUS
<1>4. <<c, f>> \in TouchedBy(h) <=> \E v \in Range(h[f]) : v.commit = c
  BY <1>3 DEF TouchedBy
<1>5. QED
  BY <1>2, <1>4 DEF Range

\* So is a file of a commit that is on record, now and after a step.
LEMMA OnIs ==
  /\ RiskTyped => \A c : On(c) = {f \in SourceFile : HasCommit(f, c)}
  /\ RiskTyped' => \A c : On(c)' = {f \in SourceFile : HasCommit(f, c)'}
<1>1. Touched = TouchedBy(history) /\ Touched' = TouchedBy(history')
  BY DEF Touched, TouchedIn, TouchedBy
<1>2. RiskTyped => \A f \in SourceFile : IsSeq(history[f])
  BY DEF RiskTyped, HistoryTyped, Leaf
<1>3. RiskTyped' => \A f \in SourceFile : IsSeq(history'[f])
  BY DEF RiskTyped, HistoryTyped, Leaf
<1>4. /\ \A c : FilesIn(history, c) = {f \in SourceFile : HasCommit(f, c)}
      /\ \A c : FilesIn(history', c) = {f \in SourceFile : HasCommit(f, c)'}
  BY DEF FilesIn, HasCommit
<1>5. RiskTyped => \A c : On(c) = FilesIn(history, c)
  BY <1>1, <1>2, FilesInAre DEF On
<1>6. RiskTyped' => \A c : On(c)' = FilesIn(history', c)
  <2>1. \A c : On(c)' = FilesOf(c, TouchedBy(history'))
    BY <1>1 DEF On, FilesOf
  <2>2. QED
    BY <1>3, <2>1, FilesInAre
<1>7. QED
  BY <1>4, <1>5, <1>6

\* A commit that is not on record has no files.
LEMMA NothingAhead ==
  ASSUME RiskTyped, NEW c, c \notin 1..changes
  PROVE  On(c) = {}
<1>1. SUFFICES ASSUME NEW f \in SourceFile, HasCommit(f, c) PROVE FALSE
  BY OnIs
<1>2. f \in Leaf
  BY DEF Leaf
<1>3. QED
  BY <1>1, <1>2 DEF HasCommit, RiskTyped, HistoryTyped, VersionTyped, VersionUpTo

\* One artifact gets a version more, of the commit that is being recorded.
Grown ==
  /\ changes' = changes /\ age' = age /\ changes > 0
  /\ DOMAIN history' = Leaf
  /\ \A n \in Leaf :
       \/ history'[n] = history[n]
       \/ \E v : /\ v.at = age /\ v.lines \in Nat /\ v.commit = changes
                 /\ history'[n] = Append(history[n], v)

\* A version that is added is typed, and leaves other commits as they were.
LEMMA GrownIs ==
  ASSUME RiskTyped, Grown
  PROVE  /\ HistoryTyped'
         /\ \A n \in Leaf : \A c : HasCommit(n, c) => HasCommit(n, c)'
         /\ \A n \in Leaf : \A c : (c # changes /\ HasCommit(n, c)') => HasCommit(n, c)
<1>1. /\ changes \in Nat /\ age \in Nat /\ HistoryTyped
      /\ changes' = changes /\ age' = age /\ changes > 0
  BY DEF RiskTyped, Grown
<1>2. ASSUME NEW n \in Leaf
      PROVE  /\ IsSeq(history'[n])
             /\ \A i \in 1..Len(history'[n]) : VersionUpTo(history'[n][i], age, changes)
             /\ \A c : HasCommit(n, c) => \E i \in 1..Len(history'[n]) : history'[n][i].commit = c
             /\ \A c : c # changes =>
                  \A i \in 1..Len(history'[n]) : history'[n][i].commit = c => HasCommit(n, c)
  <2>1. IsSeq(history[n]) /\ \A i \in 1..Len(history[n]) : VersionUpTo(history[n][i], age, changes)
    BY <1>1 DEF HistoryTyped, VersionTyped
  <2>2. PICK old, new : old = history[n] /\ new = history'[n]
    OBVIOUS
  <2>3. CASE new = old
    BY <2>1, <2>2, <2>3 DEF HasCommit
  <2>4. CASE new # old
    <3>1. PICK v : /\ v.at = age /\ v.lines \in Nat /\ v.commit = changes
                   /\ new = Append(old, v)
      BY <2>2, <2>4 DEF Grown
    <3>2. IsLonger(new, old, v)
      BY <2>1, <2>2, <3>1, Appended
    <3>3. /\ IsSeq(new) /\ Len(old) \in Nat /\ Len(new) = Len(old) + 1
          /\ \A i \in 1..Len(old) : new[i] = old[i]
          /\ new[Len(old) + 1] = v
      BY <3>2 DEF IsLonger
    <3>4. VersionUpTo(v, age, changes)
      BY <1>1, <3>1 DEF VersionUpTo
    <3>5. \A i \in 1..Len(new) : i \in 1..Len(old) \/ i = Len(old) + 1
      BY <3>3
    <3>6. \A i \in 1..Len(new) : VersionUpTo(new[i], age, changes)
      <4>1. SUFFICES ASSUME NEW i \in 1..Len(new) PROVE VersionUpTo(new[i], age, changes)
        OBVIOUS
      <4>2. PICK w : w = new[i]
        OBVIOUS
      <4>3. VersionUpTo(w, age, changes)
        BY <2>1, <2>2, <3>3, <3>4, <3>5, <4>2
      <4>4. QED
        BY <4>2, <4>3
    <3>7. \A i \in 1..Len(old) : i \in 1..Len(new)
      BY <3>3
    <3>8. \A c : (\E i \in 1..Len(old) : old[i].commit = c)
                   => \E i \in 1..Len(new) : new[i].commit = c
      BY <3>3, <3>7
    <3>9. \A c : c # changes => \A i \in 1..Len(new) :
                   new[i].commit = c => \E k \in 1..Len(old) : old[k].commit = c
      BY <3>1, <3>3, <3>5
    <3>10. QED
      BY <2>2, <3>3, <3>6, <3>8, <3>9 DEF HasCommit
  <2>5. QED
    BY <2>3, <2>4
<1>3. HistoryTyped'
  BY <1>1, <1>2 DEF HistoryTyped, VersionTyped
<1>4. \A n \in Leaf : \A c : HasCommit(n, c) => HasCommit(n, c)'
  BY <1>2 DEF HasCommit
<1>5. \A n \in Leaf : \A c : (c # changes /\ HasCommit(n, c)') => HasCommit(n, c)
  BY <1>2 DEF HasCommit
<1>6. QED
  BY <1>3, <1>4, <1>5

\* Where a run is: what it has seen is on record, and it links before it scores.
Underway ==
  /\ scoring.stage \in {"idle", "count", "link", "score"}
  /\ scoring.plan # <<>> => scoring.stage = "score"
  /\ scoring.links # {} => scoring.stage = "link"
  /\ scoring.unread \subseteq SourceFile /\ scoring.seen \subseteq Touched

\* The commits that have to do with a coupling for good: no bulk commits, and whole, or
\* counted when they were not.
Settled(f, g) ==
  {c \in 1..changes :
     /\ {f, g} \subseteq On(c)
     /\ (Cardinality(On(c)) <= MaxCommitFiles /\ ~Pending(c)) \/ c \in caught}

CoupledEarned ==
  \A e \in coupled \cup scoring.links :
    /\ e \in SourceFile \X SourceFile /\ e[1] # e[2]
    /\ MinSupport <= Cardinality(Settled(e[1], e[2]))

BothWays ==
  /\ \A e \in coupled : Back(e) \in coupled \cup scoring.links \/ e \in torn
  /\ \A e \in scoring.links : Back(e) \in coupled \cup scoring.links

\* A run that nothing has overtaken misses no coupling.
Counted ==
  /\ (scoring.stage = "count" /\ ~scoring.stale) =>
       scoring.seen = UNION {TouchedIn(f) : f \in SourceFile \ scoring.unread}
  /\ (scoring.stage \in {"link", "score"} /\ ~scoring.stale) =>
       Earned(Touched) \subseteq coupled \cup scoring.links
  /\ fresh => Earned(Touched) \subseteq coupled

Coupling == Underway /\ CoupledEarned /\ BothWays /\ Counted

RiskInv == RiskTyped /\ Progress /\ Surfaced /\ Coupling

\* A step that takes nothing from what is settled.
Settles ==
  /\ changes <= changes' /\ caught \subseteq caught'
  /\ \A c \in 1..changes : On(c) \subseteq On(c)'
  /\ \A c \in 1..changes : ~Pending(c) => (~Pending(c)' /\ On(c)' = On(c))

\* Such a step takes nothing from what a coupling rests on.
LEMMA SettledGrows ==
  ASSUME RiskTyped, RiskTyped', Settles, NEW f, NEW g, MinSupport <= Cardinality(Settled(f, g))
  PROVE  MinSupport <= Cardinality(Settled(f, g)')
<1>1. changes \in Nat /\ changes' \in Nat
  BY DEF RiskTyped
<1>2. PICK S, T : S = Settled(f, g) /\ T = Settled(f, g)'
  OBVIOUS
<1>3. IsFiniteSet(T)
  <2>1. IsFiniteSet(1..changes')
    BY <1>1, FS_Interval
  <2>2. T \in SUBSET (1..changes')
    BY <1>2 DEF Settled
  <2>3. QED
    BY <2>1, <2>2, FS_Subset
<1>4. S \in SUBSET T
  <2>1. \A c \in 1..changes : c \in 1..changes'
    BY <1>1 DEF Settles
  <2>2. QED
    BY <1>2, <2>1 DEF Settled, Settles
<1>5. Cardinality(S) <= Cardinality(T) /\ Cardinality(T) \in Nat /\ Cardinality(S) \in Nat
  BY <1>3, <1>4, FS_Subset, FS_CardinalityType
<1>6. MinSupport \in Nat
  BY RiskAssumption
<1>7. QED
  BY <1>2, <1>5, <1>6

\* Couplings that are there stay earned.
LEMMA EarnedStays ==
  ASSUME RiskTyped, RiskTyped', Settles, CoupledEarned,
         coupled' \cup scoring'.links \subseteq coupled \cup scoring.links
  PROVE  CoupledEarned'
BY SettledGrows DEF CoupledEarned

\* What is on record stays where no version is added.
LEMMA HistoryStays ==
  ASSUME RiskTyped, UNCHANGED history
  PROVE  /\ Touched' = Touched /\ \A f : TouchedIn(f)' = TouchedIn(f)
         /\ \A c : On(c)' = On(c)
<1>1. \A f : TouchedIn(f)' = TouchedIn(f)
  BY DEF TouchedIn
<1>2. Touched' = Touched
  BY <1>1 DEF Touched
<1>3. QED
  BY <1>1, <1>2 DEF On, FilesOf

\* And so does what it earns, when a commit begins as well.
LEMMA EarnsTheSame ==
  ASSUME RiskTyped, UNCHANGED history, changes' \in {changes, changes + 1}
  PROVE  Earned(Touched)' = Earned(Touched)
<1>1. \A c : On(c)' = On(c)
  BY HistoryStays
<1>2. changes \in Nat
  BY DEF RiskTyped
<1>3. \A f, g : Support(f, g, Touched)' = Support(f, g, Touched)
  <2>1. SUFFICES ASSUME NEW f, NEW g
                 PROVE  Support(f, g, Touched)' = Support(f, g, Touched)
    OBVIOUS
  <2>2. Support(f, g, Touched) =
          {c \in 1..changes : Cardinality(On(c)) \in 2..MaxCommitFiles /\ {f, g} \subseteq On(c)}
    BY DEF Support, CouplingCommit, On
  <2>3. Support(f, g, Touched)' =
          {c \in 1..changes' : Cardinality(On(c)') \in 2..MaxCommitFiles /\ {f, g} \subseteq On(c)'}
    BY DEF Support, CouplingCommit, On
  <2>4. \A c \in 1..changes' : c \in 1..changes \/ On(c) = {}
    BY NothingAhead
  <2>5. \A c \in 1..changes : c \in 1..changes'
    BY <1>2
  <2>6. QED
    BY <1>1, <2>2, <2>3, <2>4, <2>5
<1>4. QED
  BY <1>3 DEF Earned

\* Steps that record nothing and count nothing leave all this as it is.
LEMMA CouplingStays ==
  ASSUME RiskTyped, RiskTyped', Coupling,
         UNCHANGED <<recording, history, changes, coupled, scoring, fresh, torn, caught>>
  PROVE  Coupling'
<1>1. /\ Touched' = Touched /\ (\A f : TouchedIn(f)' = TouchedIn(f))
      /\ \A c : On(c)' = On(c)
  BY HistoryStays
<1>2. Earned(Touched)' = Earned(Touched)
  BY EarnsTheSame
<1>3. Settles
  BY <1>1 DEF Settles, Pending, RiskTyped
<1>4. CoupledEarned'
  BY <1>3, EarnedStays DEF Coupling
<1>5. Underway' /\ BothWays'
  BY <1>1 DEF Coupling, Underway, BothWays, Back
<1>6. Counted'
  BY <1>1, <1>2 DEF Coupling, Counted
<1>7. QED
  BY <1>4, <1>5, <1>6 DEF Coupling

-----------------------------------------------------------------------------
(***************************************************************************)
(* Every step keeps the invariant.                                         *)
(***************************************************************************)
\* The invariant holds at the start.
LEMMA RiskBegins ==
  ASSUME RiskInit
  PROVE  RiskInv
<1>1. IsSeq(<<>>) /\ Len(<<>>) = 0 /\ DOMAIN <<>> = {}
  BY DEF IsSeq
<1>2. HistoryTyped
  BY <1>1 DEF RiskInit, HistoryTyped
<1>3. RecordingTyped
  BY <1>1, RiskAssumption DEF RiskInit, RecordingTyped
<1>4. DOMAIN scoring = Fields /\ scoring = NoScoring
  BY DEF RiskInit, NoScoring, Fields
<1>5. RiskTyped
  BY <1>2, <1>3, <1>4, RiskAssumption DEF RiskInit, RiskTyped, NoScoring
<1>6. Progress /\ Surfaced
  BY <1>4 DEF RiskInit, Progress, Surfaced, NoScoring
<1>7. Coupling
  BY <1>4 DEF RiskInit, Coupling, Underway, CoupledEarned, BothWays, Counted, NoScoring
<1>8. QED
  BY <1>5, <1>6, <1>7 DEF RiskInv

\* What a run that is under way becomes by a record.
LEMMA StaleIs ==
  ASSUME RiskTyped, Recorded
  PROVE  /\ DOMAIN scoring' = Fields /\ scoring'.stale = (scoring.stage # "idle")
         /\ scoring'.stage = scoring.stage /\ scoring'.plan = scoring.plan
         /\ scoring'.links = scoring.links /\ scoring'.unread = scoring.unread
         /\ scoring'.seen = scoring.seen
BY DEF RiskTyped, Recorded, Fields

\* After a record a run that is under way is overtaken.
LEMMA RecordedIs ==
  ASSUME RiskInv, Recorded, RiskTyped', Settles, Touched \subseteq Touched'
  PROVE  RiskInv'
<1>1. ~fresh' /\ UNCHANGED <<coupled, torn, caught>>
  BY DEF Recorded
<1>2. RiskTyped /\ Coupling
  BY DEF RiskInv
<1>3. /\ DOMAIN scoring' = Fields /\ scoring'.stale = (scoring.stage # "idle")
      /\ scoring'.stage = scoring.stage /\ scoring'.plan = scoring.plan
      /\ scoring'.links = scoring.links /\ scoring'.unread = scoring.unread
      /\ scoring'.seen = scoring.seen
  BY <1>2, StaleIs
<1>4. Underway' /\ BothWays'
  BY <1>1, <1>2, <1>3 DEF Coupling, Underway, BothWays, Back
<1>5. CoupledEarned'
  BY <1>1, <1>2, <1>3, EarnedStays DEF Coupling
<1>6. Counted'
  BY <1>1, <1>3 DEF Counted
<1>7. Progress'
  BY <1>2, <1>3 DEF Progress, Coupling, Underway
<1>8. Surfaced'
  BY <1>1 DEF Surfaced
<1>9. QED
  BY <1>4, <1>5, <1>6, <1>7, <1>8 DEF RiskInv, Coupling

\* With a commit to be recorded no other one was.
Begins ==
  /\ DOMAIN recording.prints = {} /\ changes' = changes + 1 /\ age' \in {age, age + 1}
  /\ DOMAIN recording' = {"prints", "lines", "folder"}
  /\ DOMAIN recording'.prints \subseteq Leaf
  /\ recording'.lines \in Nat /\ recording'.folder \in [SourceFile -> Folder]
  /\ UNCHANGED <<history, folder, surprise, scoreVars>>

\* A rename and a deletion begin a commit.
LEMMA SamePrintBegins ==
  ASSUME RiskTyped, NEW f \in SourceFile, NEW to \in [SourceFile -> Folder], SamePrint(f, to)
  PROVE  Begins
<1>1. PICK D : D = {m \in WithFile(f) : history[m] # <<>>}
  OBVIOUS
<1>2. PICK P : P = [n \in D |-> Last(history[n]).print]
  OBVIOUS
<1>3. recording' = [prints |-> P, lines |-> 0, folder |-> to]
  BY <1>1, <1>2 DEF SamePrint
<1>4. D \subseteq Leaf /\ DOMAIN P = D
  BY <1>1, <1>2 DEF WithFile, Leaf
<1>5. QED
  BY <1>3, <1>4 DEF Begins, SamePrint

\* And so does a change of content.
LEMMA EditBegins ==
  ASSUME RiskTyped, Edit
  PROVE  Begins
<1>1. PICK files \in Commits, print \in Shape, lines \in Size :
        LET touched == files \cup {s \in Function : FileOf[s] \in files}
            changed == {n \in touched : history[n] = <<>> \/ Last(history[n]).print # print}
        IN  recording' = [prints |-> [n \in changed |-> print], lines |-> lines, folder |-> folder]
  BY DEF Edit
<1>2. PICK D : D = {n \in files \cup {s \in Function : FileOf[s] \in files} :
                      history[n] = <<>> \/ Last(history[n]).print # print}
  OBVIOUS
<1>3. PICK P : P = [n \in D |-> print]
  OBVIOUS
<1>4. recording' = [prints |-> P, lines |-> lines, folder |-> folder]
  BY <1>1, <1>2, <1>3
<1>5. D \subseteq Leaf /\ DOMAIN P = D
  BY <1>2, <1>3, RiskAssumption DEF Leaf
<1>6. lines \in Nat /\ folder \in [SourceFile -> Folder]
  BY RiskAssumption DEF RiskTyped
<1>7. age' \in {age, age + 1}
  BY DEF Edit
<1>8. QED
  BY <1>4, <1>5, <1>6, <1>7 DEF Begins, Edit

\* A commit that begins keeps the invariant.
LEMMA CommitsKeepRisk ==
  ASSUME RiskInv, Edit \/ Move \/ Delete
  PROVE  RiskInv'
<1>1. RiskTyped /\ Coupling /\ Progress /\ Surfaced
  BY DEF RiskInv
<1>2. Begins
  <2>1. CASE Move
    <3>1. PICK f \in SourceFile, d \in Folder : SamePrint(f, [folder EXCEPT ![f] = d])
      BY <2>1 DEF Move
    <3>2. [folder EXCEPT ![f] = d] \in [SourceFile -> Folder]
      BY <1>1 DEF RiskTyped
    <3>3. QED
      BY <1>1, <3>1, <3>2, SamePrintBegins
  <2>2. CASE Delete
    <3>1. PICK f \in SourceFile : SamePrint(f, folder)
      BY <2>2 DEF Delete
    <3>2. folder \in [SourceFile -> Folder]
      BY <1>1 DEF RiskTyped
    <3>3. QED
      BY <1>1, <3>1, <3>2, SamePrintBegins
  <2>3. QED
    BY <1>1, <2>1, <2>2, EditBegins
<1>3. /\ UNCHANGED <<history, folder, surprise>>
      /\ UNCHANGED <<coupled, risk, scoring, fresh, torn, caught>>
      /\ changes \in Nat /\ age \in Nat /\ changes' = changes + 1 /\ age' \in {age, age + 1}
  BY <1>1, <1>2 DEF Begins, scoreVars, RiskTyped
<1>4. HistoryTyped'
  <2>1. \A v : VersionUpTo(v, age, changes) => VersionUpTo(v, age', changes')
    BY <1>3 DEF VersionUpTo
  <2>2. QED
    BY <1>1, <1>3, <2>1 DEF RiskTyped, HistoryTyped, VersionTyped
<1>5. RiskTyped'
  <2>1. RecordingTyped'
    BY <1>2, <1>3 DEF RecordingTyped, Begins
  <2>2. QED
    BY <1>1, <1>3, <1>4, <2>1 DEF RiskTyped
<1>6. /\ Touched' = Touched /\ (\A f : TouchedIn(f)' = TouchedIn(f))
      /\ \A c : On(c)' = On(c)
  BY <1>1, <1>3, HistoryStays
<1>7. Settles
  <2>1. \A c \in 1..changes : ~Pending(c)'
    BY <1>3 DEF Pending
  <2>2. QED
    BY <1>3, <1>6, <2>1 DEF Settles
<1>8. CoupledEarned'
  BY <1>1, <1>3, <1>5, <1>7, EarnedStays DEF Coupling
<1>9. Underway' /\ BothWays'
  BY <1>1, <1>3, <1>6 DEF Coupling, Underway, BothWays, Back
<1>10. Counted'
  <2>1. Earned(Touched)' = Earned(Touched)
    BY <1>1, <1>3, EarnsTheSame
  <2>2. QED
    BY <1>1, <1>3, <1>6, <2>1 DEF Coupling, Counted
<1>11. Progress' /\ Surfaced'
  <2>1. /\ \A l : Score(l)' = Score(l)
        /\ \A n : WorstBelow(n)' = WorstBelow(n)
        /\ Latest' = Latest
    BY <1>3, ScoresStay
  <2>2. \A p : Done(p) => Done(p)'
    BY <1>3, <2>1 DEF Done
  <2>3. PICK p, e : p = scoring.plan /\ e = <<>>
    OBVIOUS
  <2>4. QED
    BY <1>1, <1>3, <2>1, <2>2, <2>3 DEF Progress, Surfaced
<1>12. QED
  BY <1>5, <1>8, <1>9, <1>10, <1>11 DEF RiskInv, Coupling

\* The recording of one artifact keeps the invariant.
LEMMA RecordsKeepRisk ==
  ASSUME RiskInv, Record
  PROVE  RiskInv'
<1>1. RiskTyped
  BY DEF RiskInv
<1>2. /\ DOMAIN recording = {"prints", "lines", "folder"} /\ DOMAIN recording.prints \subseteq Leaf
      /\ recording.lines \in Nat /\ recording.folder \in [SourceFile -> Folder]
      /\ DOMAIN recording.prints # {} => changes > 0
      /\ changes \in Nat /\ age \in Nat
  BY <1>1 DEF RiskTyped, RecordingTyped
<1>3. PICK n \in DOMAIN recording.prints :
        /\ history' = [history EXCEPT ![n] =
                         Append(@, Version(recording.prints[n], recording.lines))]
        /\ folder' = IF n \in SourceFile THEN [folder EXCEPT ![n] = recording.folder[n]] ELSE folder
        /\ recording' = [recording EXCEPT !.prints =
                           Restrict(@, DOMAIN @ \ {n})]
  BY DEF Record, Foremost
<1>4. Recorded /\ UNCHANGED <<surprise, changes, age>>
  BY DEF Record
<1>5. n \in Leaf /\ changes > 0
  BY <1>2, <1>3
<1>6. Grown
  <2>1. PICK v : v = Version(recording.prints[n], recording.lines)
    OBVIOUS
  <2>2. v.at = age /\ v.lines \in Nat /\ v.commit = changes
    BY <1>2, <2>1 DEF Version
  <2>3. DOMAIN history = Leaf
    BY <1>1 DEF RiskTyped
  <2>4. history' = [history EXCEPT ![n] = Append(history[n], v)]
    BY <1>3, <2>1
  <2>5. \A m \in Leaf : history'[m] = history[m] \/ history'[m] = Append(history[m], v)
    BY <2>3, <2>4
  <2>6. QED
    BY <1>4, <1>5, <2>2, <2>3, <2>4, <2>5 DEF Grown
<1>7. /\ HistoryTyped'
      /\ \A m \in Leaf : \A c : HasCommit(m, c) => HasCommit(m, c)'
      /\ \A m \in Leaf : \A c : (c # changes /\ HasCommit(m, c)') => HasCommit(m, c)
  BY <1>1, <1>6, GrownIs
<1>8. RiskTyped'
  <2>1. RecordingTyped'
    <3>1. PICK P : P = Restrict(recording.prints, DOMAIN recording.prints \ {n})
      OBVIOUS
    <3>2. DOMAIN P \subseteq Leaf /\ (DOMAIN P # {} => changes > 0)
      BY <1>2, <1>5, <3>1 DEF Restrict
    <3>3. /\ DOMAIN recording' = {"prints", "lines", "folder"} /\ recording'.prints = P
          /\ recording'.lines = recording.lines /\ recording'.folder = recording.folder
      BY <1>2, <1>3, <3>1
    <3>4. QED
      BY <1>2, <1>4, <3>2, <3>3 DEF RecordingTyped
  <2>2. folder' \in [SourceFile -> Folder]
    BY <1>1, <1>2, <1>3 DEF RiskTyped
  <2>3. DOMAIN scoring' = Fields /\ scoring'.stale \in BOOLEAN
    BY <1>1, <1>4, StaleIs
  <2>4. UNCHANGED <<coupled, risk>>
    BY <1>4 DEF Recorded
  <2>5. DOMAIN history' = Leaf
    BY <1>6 DEF Grown
  <2>6. QED
    BY <1>1, <1>4, <1>7, <2>1, <2>2, <2>3, <2>4, <2>5 DEF RiskTyped
<1>9. SourceFile \subseteq Leaf
  BY DEF Leaf
<1>10. /\ \A c : On(c) = {f \in SourceFile : HasCommit(f, c)}
       /\ \A c : On(c)' = {f \in SourceFile : HasCommit(f, c)'}
  BY <1>1, <1>8, OnIs
<1>11. \A c : On(c) \subseteq On(c)' /\ (c # changes => On(c)' = On(c))
  BY <1>7, <1>9, <1>10
<1>12. Settles
  <2>1. \A c : ~Pending(c) => c # changes
    BY <1>3 DEF Pending
  <2>2. UNCHANGED caught
    BY <1>4 DEF Recorded
  <2>3. QED
    BY <1>2, <1>4, <1>11, <2>1, <2>2 DEF Settles, Pending
<1>13. Touched \subseteq Touched'
  <2>1. \A p \in Touched : \E c : \E f \in SourceFile : p = <<c, f>>
    BY DEF Touched, TouchedIn
  <2>2. \A c : \A f \in SourceFile : <<c, f>> \in Touched => <<c, f>> \in Touched'
    BY <1>11 DEF On, FilesOf
  <2>3. QED
    BY <2>1, <2>2
<1>14. QED
  BY <1>4, <1>8, <1>12, <1>13, RecordedIs

\* A session found to have changed what it did not declare keeps the invariant as well.
LEMMA SurprisesKeepRisk ==
  ASSUME RiskInv, Surprise
  PROVE  RiskInv'
<1>1. RiskTyped
  BY DEF RiskInv
<1>2. Recorded /\ UNCHANGED <<recording, history, folder, changes, age>>
  BY DEF Surprise
<1>3. HistoryTyped' /\ RecordingTyped'
  BY <1>1, <1>2 DEF RiskTyped, HistoryTyped, VersionTyped, RecordingTyped
<1>4. UNCHANGED <<coupled, risk, caught>>
  BY <1>2 DEF Recorded
<1>5. RiskTyped'
  BY <1>1, <1>2, <1>3, <1>4, StaleIs DEF RiskTyped
<1>6. Touched' = Touched /\ \A c : On(c)' = On(c)
  BY <1>1, <1>2, HistoryStays
<1>7. Settles
  BY <1>1, <1>2, <1>4, <1>6 DEF Settles, Pending, RiskTyped
<1>8. QED
  BY <1>2, <1>5, <1>6, <1>7, RecordedIs

\* Nothing is recorded by a step of a run.
RunStep == UNCHANGED recordVars

\* What is recorded about versions stays then, and what was settled is.
LEMMA RunsRecordNothing ==
  ASSUME RiskTyped, RunStep, caught \subseteq caught', coupled' \subseteq SourceFile \X SourceFile,
         DOMAIN risk' = Scored, DOMAIN scoring' = Fields, scoring'.stale \in BOOLEAN
  PROVE  /\ RiskTyped' /\ Settles
         /\ Touched' = Touched /\ (\A f : TouchedIn(f)' = TouchedIn(f))
         /\ Earned(Touched)' = Earned(Touched)
<1>1. UNCHANGED <<recording, history, folder, surprise, changes, age>>
  BY DEF RunStep, recordVars
<1>2. HistoryTyped' /\ RecordingTyped'
  BY <1>1 DEF RiskTyped, HistoryTyped, VersionTyped, RecordingTyped
<1>3. RiskTyped'
  BY <1>1, <1>2 DEF RiskTyped
<1>4. /\ Touched' = Touched /\ (\A f : TouchedIn(f)' = TouchedIn(f))
      /\ \A c : On(c)' = On(c)
  BY <1>1, HistoryStays
<1>5. Settles
  BY <1>1, <1>4 DEF Settles, Pending, RiskTyped
<1>6. Earned(Touched)' = Earned(Touched)
  BY <1>1, EarnsTheSame
<1>7. QED
  BY <1>3, <1>4, <1>5, <1>6

\* A run begins with nothing seen.
LEMMA RunsBegin ==
  ASSUME RiskInv, StartScoring
  PROVE  RiskInv'
<1>1. RiskTyped /\ Coupling
  BY DEF RiskInv
<1>2. /\ fresh' = FALSE /\ RunStep /\ UNCHANGED <<coupled, risk, torn, caught>>
      /\ scoring' = [NoScoring EXCEPT !.stage = "count", !.unread = SourceFile]
      /\ scoring.stage = "idle"
  BY DEF StartScoring, RunStep
<1>3. /\ DOMAIN scoring' = Fields /\ scoring'.stale = FALSE /\ scoring'.stage = "count"
      /\ scoring'.unread = SourceFile /\ scoring'.seen = {} /\ scoring'.links = {}
      /\ scoring'.plan = <<>>
  BY <1>2 DEF NoScoring, Fields
<1>4. /\ RiskTyped' /\ Settles
      /\ Touched' = Touched /\ (\A f : TouchedIn(f)' = TouchedIn(f))
  BY <1>1, <1>2, <1>3, RunsRecordNothing DEF RiskTyped
<1>5. scoring.links = {}
  BY <1>1, <1>2 DEF Coupling, Underway
<1>6. CoupledEarned'
  BY <1>1, <1>2, <1>3, <1>4, <1>5, EarnedStays DEF Coupling
<1>7. Underway' /\ BothWays'
  BY <1>1, <1>2, <1>3, <1>5 DEF Coupling, Underway, BothWays, Back
<1>8. Counted' /\ Progress' /\ Surfaced'
  BY <1>2, <1>3 DEF Counted, Progress, Surfaced
<1>9. QED
  BY <1>4, <1>6, <1>7, <1>8 DEF RiskInv, Coupling

\* What is earned by a part of what is on record is settled once it is counted.
LEMMA CountedIsSettled ==
  ASSUME RiskTyped, NEW seen, seen \subseteq Touched, NEW e \in Earned(seen),
         RunStep, Halved(seen) \subseteq caught'
  PROVE  /\ e \in SourceFile \X SourceFile /\ e[1] # e[2]
         /\ MinSupport <= Cardinality(Settled(e[1], e[2])') /\ Back(e) \in Earned(seen)
<1>1. PICK f, g : f = e[1] /\ g = e[2]
  OBVIOUS
<1>2. PICK S, T : S = Support(f, g, seen) /\ T = Settled(f, g)'
  OBVIOUS
<1>3. /\ e \in SourceFile \X SourceFile /\ e[1] # e[2] /\ Cardinality(S) >= MinSupport
      /\ MinSupport \in Nat
  BY <1>1, <1>2, RiskAssumption DEF Earned
<1>4. UNCHANGED <<recording, history, changes>>
  BY DEF RunStep, recordVars
<1>5. changes \in Nat /\ \A c : On(c)' = On(c)
  BY <1>4, HistoryStays DEF RiskTyped
<1>6. S \in SUBSET T
  <2>1. SUFFICES ASSUME NEW c \in S PROVE c \in T
    OBVIOUS
  <2>2. /\ c \in 1..changes /\ {f, g} \subseteq FilesOf(c, seen)
        /\ Cardinality(FilesOf(c, seen)) \in 2..MaxCommitFiles
    BY <1>2 DEF Support, CouplingCommit
  <2>3. FilesOf(c, seen) \subseteq On(c)
    BY DEF FilesOf, On
  <2>4. CASE c \in Halved(seen)
    BY <1>2, <1>4, <1>5, <2>2, <2>3, <2>4 DEF Settled
  <2>5. CASE c \notin Halved(seen)
    <3>1. FilesOf(c, seen) = On(c) /\ ~Pending(c)
      BY <2>2, <2>5 DEF Halved, Pending, On
    <3>2. Cardinality(On(c)) <= MaxCommitFiles
      BY <2>2, <3>1, RiskAssumption
    <3>3. ~Pending(c)'
      BY <1>4, <3>1 DEF Pending
    <3>4. QED
      BY <1>2, <1>4, <1>5, <2>2, <3>1, <3>2, <3>3 DEF Settled
  <2>6. QED
    BY <2>4, <2>5
<1>7. IsFiniteSet(T)
  <2>1. IsFiniteSet(1..changes) /\ T \in SUBSET (1..changes)
    BY <1>2, <1>4, <1>5, FS_Interval DEF Settled
  <2>2. QED
    BY <2>1, FS_Subset
<1>8. Cardinality(S) <= Cardinality(T) /\ Cardinality(S) \in Nat /\ Cardinality(T) \in Nat
  BY <1>6, <1>7, FS_Subset, FS_CardinalityType
<1>9. Back(e) \in Earned(seen)
  <2>1. {f, g} = {g, f}
    OBVIOUS
  <2>2. Support(g, f, seen) = S
    BY <1>2, <2>1 DEF Support
  <2>3. Back(e) \in SourceFile \X SourceFile /\ Back(e)[1] = g /\ Back(e)[2] = f
    BY <1>1, <1>3 DEF Back
  <2>4. QED
    BY <1>1, <1>3, <2>2, <2>3 DEF Earned
<1>10. QED
  BY <1>1, <1>2, <1>3, <1>8, <1>9

\* A file whose versions a run reads keeps the invariant.
LEMMA FilesCounted ==
  ASSUME RiskInv, CountFile
  PROVE  RiskInv'
<1>1. RiskTyped /\ Coupling /\ Underway
  BY DEF RiskInv, Coupling
<1>2. /\ RunStep /\ UNCHANGED <<coupled, risk, fresh, torn>> /\ scoring.stage = "count"
      /\ ~fresh /\ scoring.plan = <<>> /\ scoring.links = {}
      /\ DOMAIN scoring = Fields /\ scoring.stale \in BOOLEAN
  BY <1>1 DEF CountFile, RunStep, RiskInv, Surfaced, Underway, RiskTyped
<1>3. PICK f \in scoring.unread :
        LET seen == scoring.seen \cup TouchedIn(f)
        IN  IF scoring.unread = {f}
            THEN /\ scoring' = [scoring EXCEPT !.stage = "link", !.unread = {}, !.seen = {},
                                               !.links = Earned(seen)]
                 /\ caught' = caught \cup Halved(seen)
            ELSE /\ scoring' = [scoring EXCEPT !.unread = @ \ {f}, !.seen = seen]
                 /\ UNCHANGED caught
  BY DEF CountFile, Foremost
<1>4. PICK seen : seen = scoring.seen \cup TouchedIn(f)
  OBVIOUS
<1>5. f \in SourceFile /\ seen \subseteq Touched
  BY <1>1, <1>3, <1>4 DEF Underway, Touched
<1>6. ~scoring.stale =>
        seen = UNION {TouchedIn(g) : g \in SourceFile \ (scoring.unread \ {f})}
  BY <1>1, <1>2, <1>3, <1>4, <1>5 DEF Coupling, Counted, Underway
<1>7. CASE scoring.unread = {f}
  <2>1. /\ scoring' = [scoring EXCEPT !.stage = "link", !.unread = {}, !.seen = {},
                                      !.links = Earned(seen)]
        /\ caught' = caught \cup Halved(seen)
    BY <1>3, <1>4, <1>7
  <2>2. /\ DOMAIN scoring' = Fields /\ scoring'.stale = scoring.stale
        /\ scoring'.stage = "link" /\ scoring'.unread = {} /\ scoring'.seen = {}
        /\ scoring'.links = Earned(seen) /\ scoring'.plan = <<>>
    BY <1>2, <2>1 DEF Fields
  <2>3. /\ RiskTyped' /\ Settles /\ Touched' = Touched
        /\ Earned(Touched)' = Earned(Touched)
    BY <1>1, <1>2, <2>1, <2>2, RunsRecordNothing DEF RiskTyped
  <2>4. ASSUME NEW e \in coupled' \cup scoring'.links
        PROVE  /\ e \in SourceFile \X SourceFile /\ e[1] # e[2]
               /\ MinSupport <= Cardinality(Settled(e[1], e[2])')
    <3>1. CASE e \in coupled
      <4>1. /\ e \in SourceFile \X SourceFile /\ e[1] # e[2]
            /\ MinSupport <= Cardinality(Settled(e[1], e[2]))
        BY <1>1, <3>1 DEF Coupling, CoupledEarned
      <4>2. QED
        BY <1>1, <2>3, <4>1, SettledGrows
    <3>2. CASE e \in Earned(seen)
      BY <1>1, <1>2, <1>5, <2>1, <3>2, CountedIsSettled
    <3>3. QED
      BY <1>2, <2>2, <2>4, <3>1, <3>2
  <2>5. CoupledEarned'
    <3>1. \A e \in coupled' \cup scoring'.links :
            /\ e \in SourceFile \X SourceFile /\ e[1] # e[2]
            /\ MinSupport <= Cardinality(Settled(e[1], e[2])')
      BY <2>4
    <3>2. QED
      BY <3>1 DEF CoupledEarned, Settled, On, Pending, Touched, TouchedIn, FilesOf
  <2>6. BothWays'
    <3>1. \A e \in Earned(seen) : Back(e) \in Earned(seen)
      BY <1>1, <1>2, <1>5, <2>1, CountedIsSettled
    <3>2. QED
      BY <1>1, <1>2, <2>2, <3>1 DEF Coupling, BothWays, Back
  <2>7. Counted'
    <3>1. ~scoring.stale => seen = Touched
      BY <1>6, <1>7 DEF Touched
    <3>2. QED
      BY <1>2, <2>2, <2>3, <3>1 DEF Counted
  <2>8. Underway' /\ Progress' /\ Surfaced'
    BY <1>2, <2>2 DEF Underway, Progress, Surfaced
  <2>9. QED
    BY <2>3, <2>5, <2>6, <2>7, <2>8 DEF RiskInv, Coupling
<1>8. CASE scoring.unread # {f}
  <2>1. /\ scoring' = [scoring EXCEPT !.unread = scoring.unread \ {f}, !.seen = seen]
        /\ UNCHANGED caught
    BY <1>3, <1>4, <1>8
  <2>2. /\ DOMAIN scoring' = Fields /\ scoring'.stale = scoring.stale
        /\ scoring'.stage = "count" /\ scoring'.unread = scoring.unread \ {f}
        /\ scoring'.seen = seen /\ scoring'.links = {} /\ scoring'.plan = <<>>
    BY <1>2, <2>1 DEF Fields
  <2>3. /\ RiskTyped' /\ Settles
        /\ Touched' = Touched /\ (\A g : TouchedIn(g)' = TouchedIn(g))
    BY <1>1, <1>2, <2>1, <2>2, RunsRecordNothing DEF RiskTyped
  <2>4. CoupledEarned'
    BY <1>1, <1>2, <2>2, <2>3, EarnedStays DEF Coupling
  <2>5. Underway' /\ BothWays'
    BY <1>1, <1>2, <1>5, <2>2, <2>3, <2>1 DEF Coupling, Underway, BothWays, Back
  <2>6. Counted'
    BY <1>2, <1>6, <2>2, <2>3 DEF Counted
  <2>7. Progress' /\ Surfaced'
    BY <1>2, <2>2 DEF Progress, Surfaced
  <2>8. QED
    BY <2>3, <2>4, <2>5, <2>6, <2>7 DEF RiskInv, Coupling
<1>9. QED
  BY <1>7, <1>8

\* An edge that is put had been earned.
LEMMA EdgesPut ==
  ASSUME RiskInv, PutEdge
  PROVE  RiskInv'
<1>1. RiskTyped /\ Coupling
  BY DEF RiskInv
<1>2. /\ RunStep /\ UNCHANGED <<risk, fresh, caught>> /\ scoring.stage = "link"
      /\ ~fresh /\ scoring.plan = <<>>
      /\ DOMAIN scoring = Fields /\ scoring.stale \in BOOLEAN
  BY <1>1 DEF PutEdge, RunStep, RiskInv, Surfaced, Coupling, Underway, RiskTyped
<1>3. PICK e \in scoring.links :
        /\ coupled' = coupled \cup {e}
        /\ scoring' = [scoring EXCEPT !.links = @ \ {e}]
        /\ torn' = torn \ {Back(e)}
  BY DEF PutEdge
<1>4. /\ DOMAIN scoring' = Fields /\ scoring'.stale = scoring.stale
      /\ scoring'.stage = "link" /\ scoring'.unread = scoring.unread
      /\ scoring'.seen = scoring.seen /\ scoring'.links = scoring.links \ {e}
      /\ scoring'.plan = <<>>
  BY <1>2, <1>3 DEF Fields
<1>5. e \in SourceFile \X SourceFile /\ e[1] # e[2]
  BY <1>1, <1>3 DEF Coupling, CoupledEarned
<1>6. coupled' \subseteq SourceFile \X SourceFile
  BY <1>1, <1>3, <1>5 DEF RiskTyped
<1>7. /\ RiskTyped' /\ Settles /\ Touched' = Touched
      /\ Earned(Touched)' = Earned(Touched)
  BY <1>1, <1>2, <1>4, <1>6, RunsRecordNothing DEF RiskTyped
<1>8. coupled' \cup scoring'.links = coupled \cup scoring.links
  BY <1>3, <1>4
<1>9. CoupledEarned'
  BY <1>1, <1>7, <1>8, EarnedStays DEF Coupling
<1>10. BothWays'
  <2>1. \A d \in coupled \cup scoring.links : d \in SourceFile \X SourceFile
    BY <1>1 DEF Coupling, CoupledEarned
  <2>2. \A d \in coupled \cup scoring.links : d = Back(e) => Back(d) = e
    BY <1>5, <2>1 DEF Back
  <2>3. /\ \A d \in coupled : Back(d) \in coupled \cup scoring.links \/ d \in torn
        /\ \A d \in scoring.links : Back(d) \in coupled \cup scoring.links
    BY <1>1 DEF Coupling, BothWays
  <2>4. ASSUME NEW d \in coupled' PROVE Back(d) \in coupled' \cup scoring'.links \/ d \in torn'
    <3>1. CASE d = e
      BY <1>3, <1>8, <2>3, <3>1
    <3>2. CASE d # e
      <4>1. d \in coupled
        BY <1>3, <3>2
      <4>2. CASE d = Back(e)
        BY <1>3, <2>2, <4>1, <4>2
      <4>3. CASE d # Back(e)
        BY <1>3, <1>8, <2>3, <4>1, <4>3
      <4>4. QED
        BY <4>2, <4>3
    <3>3. QED
      BY <3>1, <3>2
  <2>5. \A d \in scoring'.links : Back(d) \in coupled' \cup scoring'.links
    BY <1>4, <1>8, <2>3
  <2>6. QED
    BY <2>4, <2>5 DEF BothWays, Back
<1>11. Underway' /\ Counted'
  BY <1>1, <1>2, <1>4, <1>7, <1>8 DEF Coupling, Underway, Counted
<1>12. Progress' /\ Surfaced'
  BY <1>2, <1>4 DEF Progress, Surfaced
<1>13. QED
  BY <1>7, <1>9, <1>10, <1>11, <1>12 DEF RiskInv, Coupling

\* The scores are planned with the whole plan ahead.
LEMMA ScoresPlanned ==
  ASSUME RiskInv, PlanScores
  PROVE  RiskInv'
<1>1. RiskTyped /\ Coupling
  BY DEF RiskInv
<1>2. /\ RunStep /\ UNCHANGED <<coupled, risk, fresh, torn, caught>>
      /\ scoring.stage = "link" /\ scoring.links = {} /\ ~fresh
      /\ scoring' = [scoring EXCEPT !.stage = "score", !.plan = Levels, !.surprise = surprise,
                                    !.now = Latest]
      /\ DOMAIN scoring = Fields /\ scoring.stale \in BOOLEAN
  BY <1>1 DEF PlanScores, RunStep, RiskInv, Surfaced, RiskTyped
<1>3. /\ DOMAIN scoring' = Fields /\ scoring'.stale = scoring.stale
      /\ scoring'.stage = "score" /\ scoring'.unread = scoring.unread
      /\ scoring'.seen = scoring.seen /\ scoring'.links = {} /\ scoring'.plan = Levels
      /\ scoring'.surprise = surprise /\ scoring'.now = Latest
  BY <1>2 DEF Fields
<1>4. /\ RiskTyped' /\ Settles /\ Touched' = Touched
      /\ Earned(Touched)' = Earned(Touched)
  BY <1>1, <1>2, <1>3, RunsRecordNothing DEF RiskTyped
<1>5. CoupledEarned'
  BY <1>1, <1>2, <1>3, <1>4, EarnedStays DEF Coupling
<1>6. Underway' /\ BothWays' /\ Counted'
  BY <1>1, <1>2, <1>3, <1>4 DEF Coupling, Underway, BothWays, Counted, Back
<1>7. Progress'
  <2>1. InOrder(Levels) /\ \A t \in TaskSet : Due(Levels, t)
    BY LevelsAre DEF Lists
  <2>2. Done(Levels)'
    <3>1. \A s \in Leaf : Task(s, "score") \in TaskSet
      BY DEF Task, TaskSet
    <3>2. \A n \in SourceFile \cup Folder \cup {Repo} : Task(n, "fold") \in TaskSet
      BY DEF Task, TaskSet
    <3>3. QED
      BY <2>1, <3>1, <3>2 DEF Done, Leaf
  <2>3. Latest' = Latest /\ surprise' = surprise
    BY <1>2 DEF Latest, RunStep, recordVars
  <2>4. QED
    BY <1>3, <2>1, <2>2, <2>3 DEF Progress
<1>8. Surfaced'
  BY <1>2 DEF Surfaced
<1>9. QED
  BY <1>4, <1>5, <1>6, <1>7, <1>8 DEF RiskInv, Coupling

\* A task is taken from the plan.
LEMMA NextTaskIs ==
  ASSUME RiskInv, NEW n, NEW do, NextTask(do, n), NEW p, p = Tail(scoring.plan),
         RunStep, UNCHANGED <<coupled, torn, caught>>, DOMAIN risk' = Scored,
         ~scoring.stale => Done(p)'
  PROVE  RiskInv'
<1>1. RiskTyped /\ Coupling /\ Progress /\ Surfaced
  BY DEF RiskInv
<1>2. /\ scoring.plan # <<>> /\ Head(scoring.plan) = Task(n, do)
      /\ \/ Len(scoring.plan) = 1 /\ scoring' = NoScoring /\ fresh' = ~scoring.stale
         \/ Len(scoring.plan) # 1 /\ scoring' = [scoring EXCEPT !.plan = Tail(@)]
              /\ fresh' = fresh
  BY DEF NextTask, Task
<1>3. DOMAIN scoring = Fields /\ scoring.stale \in BOOLEAN
  BY <1>1 DEF RiskTyped
<1>4. scoring.stage = "score" /\ scoring.links = {} /\ ~fresh
  BY <1>1, <1>2 DEF Coupling, Underway, Surfaced
<1>5. UNCHANGED <<recording, history, folder, surprise, changes, age>>
  BY DEF RunStep, recordVars
<1>6. CASE Len(scoring.plan) = 1
  <2>1. scoring' = NoScoring /\ fresh' = ~scoring.stale
    BY <1>2, <1>6
  <2>2. /\ DOMAIN scoring' = Fields /\ scoring'.stale = FALSE /\ scoring'.stage = "idle"
        /\ scoring'.unread = {} /\ scoring'.seen = {} /\ scoring'.links = {}
        /\ scoring'.plan = <<>>
    BY <2>1 DEF NoScoring, Fields
  <2>3. /\ RiskTyped' /\ Settles /\ Earned(Touched)' = Earned(Touched)
    BY <1>1, <2>2, RunsRecordNothing DEF RiskTyped
  <2>4. CoupledEarned'
    BY <1>1, <1>4, <2>2, <2>3, EarnedStays DEF Coupling
  <2>5. Underway' /\ BothWays'
    BY <1>1, <1>4, <2>2 DEF Coupling, Underway, BothWays, Back
  <2>6. Counted'
    BY <1>1, <1>4, <2>1, <2>2, <2>3 DEF Coupling, Counted
  <2>7. ~scoring.stale => Done(<<>>)'
    <3>1. ~scoring.stale => Tail(scoring.plan) = <<>>
      BY <1>1, <1>2, <1>6, RestOfPlan DEF Progress
    <3>2. QED
      BY <3>1
  <2>8. Progress' /\ Surfaced'
    BY <2>1, <2>2, <2>7 DEF Progress, Surfaced
  <2>9. QED
    BY <2>3, <2>4, <2>5, <2>6, <2>8 DEF RiskInv, Coupling
<1>7. CASE Len(scoring.plan) # 1
  <2>1. scoring' = [scoring EXCEPT !.plan = Tail(scoring.plan)] /\ ~fresh'
    BY <1>2, <1>4, <1>7
  <2>2. /\ DOMAIN scoring' = Fields /\ scoring'.stale = scoring.stale
        /\ scoring'.stage = scoring.stage /\ scoring'.unread = scoring.unread
        /\ scoring'.seen = scoring.seen /\ scoring'.links = scoring.links
        /\ scoring'.plan = p /\ scoring'.surprise = scoring.surprise
        /\ scoring'.now = scoring.now
    BY <1>3, <2>1 DEF Fields
  <2>3. /\ RiskTyped' /\ Settles /\ Touched' = Touched /\ Earned(Touched)' = Earned(Touched)
    BY <1>1, <1>3, <2>2, RunsRecordNothing DEF RiskTyped
  <2>4. CoupledEarned'
    BY <1>1, <2>2, <2>3, EarnedStays DEF Coupling
  <2>5. Underway' /\ BothWays'
    BY <1>1, <1>4, <2>2, <2>3 DEF Coupling, Underway, BothWays, Back
  <2>6. Counted'
    BY <1>1, <1>4, <2>1, <2>2, <2>3 DEF Coupling, Counted
  <2>7. Latest' = Latest
    BY <1>5, ScoresStay
  <2>8. ~scoring.stale => /\ InOrder(Tail(scoring.plan)) /\ scoring.surprise = surprise
                          /\ scoring.now = Latest
    BY <1>1, <1>2, RestOfPlan DEF Progress
  <2>9. ~scoring.stale => InOrder(p) /\ Done(p)'
    BY <2>8
  <2>10. Progress' /\ Surfaced'
    BY <1>5, <2>1, <2>2, <2>7, <2>8, <2>9 DEF Progress, Surfaced
  <2>11. QED
    BY <2>3, <2>4, <2>5, <2>6, <2>10 DEF RiskInv, Coupling
<1>8. QED
  BY <1>6, <1>7

\* A leaf that is scored has the score of its evidence.
LEMMA LeavesScored ==
  ASSUME RiskInv, ScoreLeaf
  PROVE  RiskInv'
<1>1. RiskTyped /\ Progress
  BY DEF RiskInv
<1>2. PICK n \in Leaf :
        /\ NextTask("score", n)
        /\ risk' = [risk EXCEPT ![n] =
                      [prior |-> AprioriScore(n, scoring.surprise, scoring.now),
                       post |-> AposterioriScore(n)]]
  BY DEF ScoreLeaf, UpdateRisk
<1>3. RunStep /\ UNCHANGED <<coupled, torn, caught>> /\ UNCHANGED <<history, folder, surprise, coupled>>
  BY DEF ScoreLeaf, RunStep, recordVars
<1>4. PICK p, q : p = scoring.plan /\ q = Tail(p)
  OBVIOUS
<1>5. DOMAIN risk = Scored /\ DOMAIN risk' = Scored
  BY <1>1, <1>2 DEF RiskTyped
<1>6. p # <<>> /\ Head(p) = Task(n, "score")
  BY <1>2, <1>4 DEF NextTask, Task
<1>7. ~scoring.stale => Done(q)'
  <2>1. SUFFICES ASSUME ~scoring.stale PROVE Done(q)'
    OBVIOUS
  <2>2. InOrder(p) /\ Done(p) /\ scoring.surprise = surprise /\ scoring.now = Latest
    BY <1>1, <1>4, <1>6, <2>1 DEF Progress
  <2>3. risk' = [risk EXCEPT ![n] = Score(n)]
    BY <1>2, <2>2 DEF Score
  <2>4. Done(Tail(p))'
    BY <1>3, <1>5, <1>6, <2>2, <2>3, ScoreIsDone
  <2>5. QED
    BY <1>4, <2>4
<1>8. q = Tail(scoring.plan)
  BY <1>4
<1>9. QED
  BY <1>2, <1>3, <1>5, <1>7, <1>8, NextTaskIs

\* A node that is folded has the worst of what is below it, as that was done before.
LEMMA NodesFolded ==
  ASSUME RiskInv, Aggregate
  PROVE  RiskInv'
<1>1. RiskTyped /\ Progress
  BY DEF RiskInv
<1>2. PICK n \in Scored :
        /\ NextTask("fold", n)
        /\ risk' = [risk EXCEPT ![n] =
                      DeriveAggregate({risk[c] : c \in Children(n)}
                                        \cup (IF n \in SourceFile THEN {risk[n]} ELSE {}))]
  BY DEF Aggregate, UpdateRisk
<1>3. RunStep /\ UNCHANGED <<coupled, torn, caught>> /\ UNCHANGED <<history, folder, surprise, coupled>>
  BY DEF Aggregate, RunStep, recordVars
<1>4. PICK p, q : p = scoring.plan /\ q = Tail(p)
  OBVIOUS
<1>5. DOMAIN risk' = Scored
  BY <1>1, <1>2 DEF RiskTyped
<1>6. p # <<>> /\ Head(p) = Task(n, "fold")
  BY <1>2, <1>4 DEF NextTask, Task
<1>7. ~scoring.stale => Done(q)'
  <2>1. SUFFICES ASSUME ~scoring.stale PROVE Done(q)'
    OBVIOUS
  <2>2. InOrder(p) /\ Done(p)
    BY <1>1, <1>4, <1>6, <2>1 DEF Progress
  <2>3. n \in SourceFile \cup Folder \cup {Repo}
    <3>1. Task(n, "fold") \in TaskSet
      BY <1>6, <2>2, RestOfPlan
    <3>2. QED
      BY <3>1 DEF Task, TaskSet
  <2>4. Done(Tail(p))'
    BY <1>1, <1>2, <1>3, <1>6, <2>2, <2>3, FoldIsDone
  <2>5. QED
    BY <1>4, <2>4
<1>8. q = Tail(scoring.plan)
  BY <1>4
<1>9. QED
  BY <1>2, <1>3, <1>5, <1>7, <1>8, NextTaskIs

\* A run that dies leaves edges it did not put, and a plan nobody carries out.
LEMMA RunsDie ==
  ASSUME RiskInv, AbortScoring
  PROVE  RiskInv'
<1>1. RiskTyped /\ Coupling /\ ~fresh
  BY DEF RiskInv, Surfaced, AbortScoring
<1>2. /\ RunStep /\ UNCHANGED <<coupled, risk, fresh, caught>> /\ scoring' = NoScoring
      /\ torn' = torn \cup {e \in coupled : Back(e) \in scoring.links \ coupled}
  BY DEF AbortScoring, RunStep
<1>3. /\ DOMAIN scoring' = Fields /\ scoring'.stale = FALSE /\ scoring'.stage = "idle"
      /\ scoring'.unread = {} /\ scoring'.seen = {} /\ scoring'.links = {}
      /\ scoring'.plan = <<>>
  BY <1>2 DEF NoScoring, Fields
<1>4. RiskTyped' /\ Settles
  BY <1>1, <1>2, <1>3, RunsRecordNothing DEF RiskTyped
<1>5. CoupledEarned'
  BY <1>1, <1>2, <1>3, <1>4, EarnedStays DEF Coupling
<1>6. BothWays'
  BY <1>1, <1>2, <1>3 DEF Coupling, BothWays, Back
<1>7. Underway' /\ Counted' /\ Progress' /\ Surfaced'
  BY <1>1, <1>2, <1>3 DEF Underway, Counted, Progress, Surfaced
<1>8. QED
  BY <1>4, <1>5, <1>6, <1>7 DEF RiskInv, Coupling

\* A step that changes nothing keeps the invariant.
LEMMA NothingHappens ==
  ASSUME RiskInv, UNCHANGED riskVars
  PROVE  RiskInv'
<1>1. RiskTyped /\ Coupling /\ Progress /\ Surfaced
  BY DEF RiskInv
<1>2. /\ RunStep /\ UNCHANGED <<recording, history, folder, surprise, changes>>
      /\ UNCHANGED <<coupled, risk, scoring, fresh, torn, caught>>
  BY DEF riskVars, recordVars, scoreVars, RunStep
<1>3. RiskTyped'
  BY <1>1, <1>2, RunsRecordNothing DEF RiskTyped
<1>4. Coupling'
  BY <1>1, <1>2, <1>3, CouplingStays
<1>5. /\ \A l : Score(l)' = Score(l)
      /\ \A n : WorstBelow(n)' = WorstBelow(n)
      /\ Latest' = Latest
  BY <1>2, ScoresStay
<1>6. \A p : Done(p) => Done(p)'
  BY <1>2, <1>5 DEF Done
<1>7. PICK p, e : p = scoring.plan /\ e = <<>>
  OBVIOUS
<1>8. Progress'
  BY <1>1, <1>2, <1>5, <1>6, <1>7 DEF Progress
<1>9. Surfaced'
  BY <1>1, <1>2, <1>6, <1>7 DEF Surfaced
<1>10. QED
  BY <1>3, <1>4, <1>8, <1>9 DEF RiskInv

\* The versions, plans and scores are what they say, whatever is recorded and whichever
\* runs die.
THEOREM RiskInvariant == RiskSpec => []RiskInv
<1>1. RiskInit => RiskInv
  BY RiskBegins
<1>2. RiskInv /\ [RiskNext]_riskVars => RiskInv'
  <2>1. SUFFICES ASSUME RiskInv, [RiskNext]_riskVars PROVE RiskInv'
    OBVIOUS
  <2>2. CASE Edit \/ Move \/ Delete
    BY <2>1, <2>2, CommitsKeepRisk
  <2>3. CASE Record
    BY <2>1, <2>3, RecordsKeepRisk
  <2>4. CASE Surprise
    BY <2>1, <2>4, SurprisesKeepRisk
  <2>5. CASE StartScoring
    BY <2>1, <2>5, RunsBegin
  <2>6. CASE CountFile
    BY <2>1, <2>6, FilesCounted
  <2>7. CASE PutEdge
    BY <2>1, <2>7, EdgesPut
  <2>10. CASE PlanScores
    BY <2>1, <2>10, ScoresPlanned
  <2>11. CASE ScoreLeaf
    BY <2>1, <2>11, LeavesScored
  <2>12. CASE Aggregate
    BY <2>1, <2>12, NodesFolded
  <2>13. CASE AbortScoring
    BY <2>1, <2>13, RunsDie
  <2>8. CASE UNCHANGED riskVars
    BY <2>1, <2>8, NothingHappens
  <2>9. QED
    BY <2>1, <2>2, <2>3, <2>4, <2>5, <2>6, <2>7, <2>8, <2>10, <2>11, <2>12, <2>13
       DEF RiskNext, ScoringStep
<1>3. QED
  BY <1>1, <1>2, PTL DEF RiskSpec

\* "Hotspots surface at every zoom level": a run to its end that nothing overtakes
\* leaves on every node the worst of what is below it, for any symbols, files and
\* modules, any history, and whatever the runs before left behind.
THEOREM HotspotsDoSurface == RiskSpec => []HotspotsSurface
<1>1. RiskInv => HotspotsSurface
  <2>0. SUFFICES ASSUME RiskInv, fresh, NEW n \in Scored
                 PROVE  /\ risk[n].prior =
                             Worst({AprioriScore(l, surprise, Latest) : l \in LeavesBelow(n)})
                        /\ risk[n].post = Worst({AposterioriScore(l) : l \in LeavesBelow(n)})
    BY DEF HotspotsSurface, LeavesBelow, FilesBelow
  <2>1. SUFFICES risk[n] = WorstBelow(n)
    BY DEF WorstBelow
  <2>2. RiskTyped /\ Done(<<>>)
    BY <2>0 DEF RiskInv, Surfaced
  <2>3. \A t : ~Due(<<>>, t)
    BY DEF Due
  <2>4. CASE n \in Function
    <3>1. risk[n] = Score(n)
      BY <2>2, <2>3, <2>4 DEF Done
    <3>2. PICK a, b : a = AprioriScore(n, surprise, Latest) /\ b = AposterioriScore(n)
      OBVIOUS
    <3>3. n \in Leaf /\ Latest \in Nat
      BY <2>2, <2>4, LatestIs DEF Leaf
    <3>4. a \in Thousandths /\ b \in Thousandths
      BY <2>2, <3>2, <3>3, ScoresAre
    <3>5. Worst({a}) = a /\ Worst({b}) = b
      <4>1. \A x \in Thousandths : Worst({x}) = x
        BY WorstIs
      <4>2. QED
        BY <3>4, <4>1
    <3>6. LeavesBelow(n) = {n}
      BY <2>2, <2>4, LeavesAre
    <3>7. /\ {AprioriScore(l, surprise, Latest) : l \in LeavesBelow(n)} = {a}
          /\ {AposterioriScore(l) : l \in LeavesBelow(n)} = {b}
      BY <3>2, <3>6
    <3>8. QED
      BY <3>1, <3>2, <3>5, <3>7 DEF Score, WorstBelow
  <2>5. CASE n \notin Function
    <3>1. n \in SourceFile \cup Folder \cup {Repo}
      BY <2>5 DEF Scored, Leaf
    <3>2. QED
      BY <2>2, <2>3, <3>1 DEF Done
  <2>6. QED
    BY <2>4, <2>5
<1>2. QED
  BY <1>1, RiskInvariant, PTL

\* What is reached from a node is the least set that has it, and with a node what
\* depends on it.
Closed(X) == Wider(X) \subseteq X
IsClosure(R, n) ==
  n \in R /\ Closed(R) /\ (\A X : n \in X /\ Closed(X) => R \subseteq X)

\* A round that is not the last adds a file.
LEMMA EveryStepGains ==
  ASSUME NEW k \in Nat, NEW X, NEW Y, X \subseteq SourceFile, Y \subseteq SourceFile,
         Y = Wider(X),
         Closed(X) \/ k <= Cardinality(X)
  PROVE  Closed(Y) \/ k + 1 <= Cardinality(Y)
<1>1. X \subseteq Y
  BY DEF Wider
<1>2. CASE X = Y
  BY <1>2 DEF Closed
<1>3. CASE X # Y
  <2>1. IsFiniteSet(Y)
    BY FS_Subset, RiskAssumption
  <2>2. X \in SUBSET Y
    BY <1>1
  <2>3. /\ IsFiniteSet(X) /\ Cardinality(X) <= Cardinality(Y)
        /\ Cardinality(Y) = Cardinality(X) => Y = X
    BY <2>1, <2>2, FS_Subset
  <2>4. Cardinality(X) \in Nat /\ Cardinality(Y) \in Nat
    BY <2>1, <2>3, FS_CardinalityType
  <2>5. ~Closed(X)
    BY <1>1, <1>3 DEF Closed
  <2>6. QED
    BY <1>3, <2>3, <2>4, <2>5
<1>4. QED
  BY <1>2, <1>3

\* So as many rounds as there are files suffice.
LEMMA DependentsClose ==
  ASSUME RiskTyped, NEW n \in SourceFile
  PROVE  \E R : IsClosure(R, n) /\ R = Dependents(n) \cup {n}
<1>1. PICK step : IsReach(step, n)
  BY DependentsAre
<1>2. Files \in Nat /\ Files \in 0..Files
  BY FilesAre
<1>3. \A k \in 0..Files : step[k] \subseteq SourceFile
  BY <1>1 DEF IsReach
<1>4. \A k \in 1..Files : k \in 0..Files /\ k - 1 \in 0..Files
  BY <1>2
<1>5. PICK R : R = step[Files]
  OBVIOUS
<1>6. n \in R
  <2>1. PICK T : T = {k \in 0..Files : n \in step[k]}
    OBVIOUS
  <2>2. 0 \in T
    BY <1>1, <1>2, <2>1 DEF IsReach
  <2>3. \A k \in 1..Files : k - 1 \in T => k \in T
    BY <1>1, <1>4, <2>1 DEF IsReach, Wider
  <2>4. \A k \in 0..Files : k \in T
    BY <1>2, <2>2, <2>3, StepByStep
  <2>5. QED
    BY <1>2, <1>5, <2>1, <2>4
<1>7. Closed(R)
  <2>1. PICK T : T = {k \in 0..Files : Closed(step[k]) \/ k + 1 <= Cardinality(step[k])}
    OBVIOUS
  <2>2. 0 \in T
    <3>1. step[0] = {n}
      BY <1>1 DEF IsReach
    <3>2. Cardinality(step[0]) = 1
      BY <3>1, FS_Singleton
    <3>3. QED
      BY <1>2, <2>1, <3>2
  <2>3. \A k \in 1..Files : k - 1 \in T => k \in T
    <3>1. SUFFICES ASSUME NEW k \in 1..Files, k - 1 \in T PROVE k \in T
      OBVIOUS
    <3>2. PICK X, Y : X = step[k - 1] /\ Y = step[k]
      OBVIOUS
    <3>3. X \subseteq SourceFile /\ Y \subseteq SourceFile /\ Y = Wider(X) /\ k \in Nat
      BY <1>1, <1>2, <1>3, <1>4, <3>2 DEF IsReach
    <3>4. Closed(X) \/ k <= Cardinality(X)
      BY <2>1, <3>1, <3>2
    <3>5. Closed(Y) \/ k + 1 <= Cardinality(Y)
      BY <3>3, <3>4, EveryStepGains
    <3>6. QED
      BY <1>4, <2>1, <3>2, <3>5
  <2>4. \A k \in 0..Files : k \in T
    BY <1>2, <2>2, <2>3, StepByStep
  <2>5. Closed(R) \/ Files + 1 <= Cardinality(R)
    BY <1>2, <1>5, <2>1, <2>4
  <2>6. Cardinality(R) <= Files /\ Cardinality(R) \in Nat
    <3>1. R \in SUBSET SourceFile /\ IsFiniteSet(SourceFile)
      BY <1>2, <1>3, <1>5, RiskAssumption
    <3>2. IsFiniteSet(R) /\ Cardinality(R) <= Cardinality(SourceFile)
      BY <3>1, FS_Subset
    <3>3. QED
      BY <3>2, FS_CardinalityType DEF Files
  <2>7. QED
    BY <1>2, <2>5, <2>6
<1>8. ASSUME NEW X, n \in X, Closed(X) PROVE R \subseteq X
  <2>1. PICK T : T = {k \in 0..Files : step[k] \subseteq X}
    OBVIOUS
  <2>2. 0 \in T
    BY <1>1, <1>2, <1>8, <2>1 DEF IsReach
  <2>3. \A k \in 1..Files : k - 1 \in T => k \in T
    <3>1. SUFFICES ASSUME NEW k \in 1..Files, k - 1 \in T PROVE k \in T
      OBVIOUS
    <3>2. step[k] = Wider(step[k - 1]) /\ step[k - 1] \subseteq X
      BY <1>1, <2>1, <3>1 DEF IsReach
    <3>3. step[k] \subseteq X
      BY <1>8, <3>2 DEF Closed, Wider
    <3>4. QED
      BY <1>4, <2>1, <3>3
  <2>4. \A k \in 0..Files : k \in T
    BY <1>2, <2>2, <2>3, StepByStep
  <2>5. QED
    BY <1>2, <1>5, <2>1, <2>4
<1>9. R = Dependents(n) \cup {n}
  BY <1>1, <1>5, <1>6 DEF IsReach
<1>10. IsClosure(R, n)
  BY <1>6, <1>7, <1>8 DEF IsClosure
<1>11. QED
  BY <1>9, <1>10

\* Coupling is what history has earned: for any files and commits, and wherever runs die
\* and commits are met half-way, an edge has the commits it needs, and its counterpart
\* but for a pair that is being put or was when a run died; files joined both ways have
\* one and the same blast, and a run to its end that nothing overtakes misses no pair.
THEOREM CouplingHolds == RiskSpec => []CouplingIsEarned
<1>1. ASSUME RiskInv, NEW e \in coupled
      PROVE  /\ Back(e) \in coupled \cup scoring.links \/ e \in torn
             /\ Cardinality({c \in 1..changes :
                  /\ {e[1], e[2]} \subseteq On(c)
                  /\ Cardinality(On(c)) <= MaxCommitFiles \/ c \in caught}) >= MinSupport
             /\ Back(e) \in coupled =>
                  Dependents(e[1]) \cup {e[1]} = Dependents(e[2]) \cup {e[2]}
  <2>1. RiskTyped
    BY <1>1 DEF RiskInv
  <2>2. PICK f, g : f = e[1] /\ g = e[2]
    OBVIOUS
  <2>3. /\ f \in SourceFile /\ g \in SourceFile /\ e = <<f, g>> /\ <<f, g>> \in coupled
        /\ MinSupport <= Cardinality(Settled(f, g))
    BY <1>1, <2>1, <2>2 DEF RiskInv, Coupling, CoupledEarned
  <2>4. PICK S, T : /\ S = Settled(f, g)
                    /\ T = {c \in 1..changes :
                              /\ {f, g} \subseteq On(c)
                              /\ Cardinality(On(c)) <= MaxCommitFiles \/ c \in caught}
    OBVIOUS
  <2>5. Cardinality(S) <= Cardinality(T) /\ Cardinality(S) \in Nat /\ Cardinality(T) \in Nat
    <3>1. IsFiniteSet(1..changes) /\ T \in SUBSET (1..changes)
      BY <2>1, <2>4, FS_Interval DEF RiskTyped
    <3>2. S \in SUBSET T
      BY <2>4 DEF Settled
    <3>3. IsFiniteSet(T)
      BY <3>1, FS_Subset
    <3>4. IsFiniteSet(S) /\ Cardinality(S) <= Cardinality(T)
      BY <3>2, <3>3, FS_Subset
    <3>5. QED
      BY <3>3, <3>4, FS_CardinalityType
  <2>6. MinSupport <= Cardinality(T) /\ MinSupport \in Nat
    BY <2>3, <2>4, <2>5, RiskAssumption
  <2>7. ASSUME Back(e) \in coupled PROVE Dependents(f) \cup {f} = Dependents(g) \cup {g}
    <3>1. <<g, f>> \in coupled
      BY <2>2, <2>7 DEF Back
    <3>2. PICK R : IsClosure(R, f) /\ R = Dependents(f) \cup {f}
      BY <2>1, <2>3, DependentsClose
    <3>3. PICK Q : IsClosure(Q, g) /\ Q = Dependents(g) \cup {g}
      BY <2>1, <2>3, DependentsClose
    <3>4. \A X : Closed(X) => (f \in X <=> g \in X)
      <4>1. ASSUME NEW X, NEW h, NEW i, <<h, i>> \in coupled, i \in X PROVE h \in Wider(X)
        <5>1. <<h, i>>[1] = h /\ <<h, i>>[2] = i
          OBVIOUS
        <5>2. QED
          BY <4>1, <5>1 DEF Wider
      <4>2. QED
        BY <2>3, <3>1, <4>1 DEF Closed
    <3>5. R = Q
      <4>1. g \in R /\ f \in Q
        BY <3>2, <3>3, <3>4 DEF IsClosure
      <4>2. R \subseteq Q /\ Q \subseteq R
        BY <3>2, <3>3, <4>1 DEF IsClosure
      <4>3. QED
        BY <4>2
    <3>6. QED
      BY <3>2, <3>3, <3>5
  <2>8. Back(e) \in coupled \cup scoring.links \/ e \in torn
    BY <1>1 DEF RiskInv, Coupling, BothWays
  <2>9. QED
    BY <2>2, <2>4, <2>5, <2>6, <2>7, <2>8
<1>2. RiskInv => CouplingIsEarned
  <2>1. RiskInv /\ fresh => Earned(Touched) \subseteq coupled
    BY DEF RiskInv, Coupling, Counted
  <2>2. QED
    BY <1>1, <2>1 DEF CouplingIsEarned, On
<1>3. QED
  BY <1>2, RiskInvariant, PTL
=============================================================================
