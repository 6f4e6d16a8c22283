---------------------------- MODULE ShellProofs -----------------------------
(***************************************************************************)
(* Of a line without anything the readers do not know, the two readers name*)
(* the same files: after each token both hold the same words and frames.   *)
(***************************************************************************)
EXTENDS ShellReads, FiniteSetTheorems, WellFoundedInduction, TLAPS

-----------------------------------------------------------------------------
(***************************************************************************)
(* Places, and the words and commands of a line of a shell.                *)
(***************************************************************************)
\* Of numbers there is a least one.
LEMMA LeastOf ==
  ASSUME NEW S, S \subseteq Nat, S # {}
  PROVE  \E n \in S : \A m \in S : n <= m
<1>1. \E x \in S : \A y \in S : ~(<<y, x>> \in OpToRel(<, Nat))
  BY NatLessThanWellFounded, WFMin
<1>2. PICK x \in S : \A y \in S : ~(<<y, x>> \in OpToRel(<, Nat))
  BY <1>1
<1>3. \A y \in S : ~(y < x)
  BY <1>2 DEF OpToRel
<1>4. QED
  BY <1>3

UpTo(I, k) == {j \in I : j <= k}
PlaceOf(I, i) == CHOOSE k \in Nth(I, i) : TRUE

\* The places of a rank.
LEMMA NthCounts ==
  ASSUME NEW I, NEW i
  PROVE  \A k : k \in Nth(I, i) <=> k \in I /\ Cardinality(UpTo(I, k)) = i
BY DEF Nth, UpTo

\* What is picked is what is at the places, in the order of their ranks.
LEMMA PickPlaces ==
  ASSUME NEW w, NEW I
  PROVE  Pick(w, I) = [i \in 1..Cardinality(I) |-> w[PlaceOf(I, i)]]
BY DEF Pick, PlaceOf

\* A rank that has a place is given one of that rank.
LEMMA PlaceIn ==
  ASSUME NEW I, NEW i, Nth(I, i) # {}
  PROVE  PlaceOf(I, i) \in Nth(I, i)
BY DEF PlaceOf

\* The place of a rank depends on the places of that rank alone.
LEMMA PlacesSame ==
  ASSUME NEW I, NEW J, NEW i, Nth(I, i) = Nth(J, i)
  PROVE  PlaceOf(I, i) = PlaceOf(J, i)
BY DEF PlaceOf

\* A rank with one place is given that place.
LEMMA PlaceOfOne ==
  ASSUME NEW I, NEW i, NEW x, Nth(I, i) = {x}
  PROVE  PlaceOf(I, i) = x
BY PlaceIn

\* The places are counted, and none is past the count.
LEMMA PlacesCounted ==
  ASSUME NEW n \in Nat, NEW I \in SUBSET (1..n)
  PROVE  /\ IsFiniteSet(I) /\ Cardinality(I) \in 0..n
         /\ \A k : IsFiniteSet(UpTo(I, k))
         /\ \A k : Cardinality(UpTo(I, k)) \in 0..Cardinality(I)
<1>1. IsFiniteSet(1..n) /\ Cardinality(1..n) = n
  BY FS_Interval
<1>2. IsFiniteSet(I) /\ Cardinality(I) <= n
  BY <1>1, FS_Subset
<1>3. Cardinality(I) \in Nat
  BY <1>2, FS_CardinalityType
<1>4. ASSUME NEW k
      PROVE  IsFiniteSet(UpTo(I, k)) /\ Cardinality(UpTo(I, k)) \in 0..Cardinality(I)
  <2>1. UpTo(I, k) \in SUBSET I
    BY DEF UpTo
  <2>2. IsFiniteSet(UpTo(I, k)) /\ Cardinality(UpTo(I, k)) <= Cardinality(I)
    BY <1>2, <2>1, FS_Subset
  <2>3. Cardinality(UpTo(I, k)) \in Nat
    BY <2>2, FS_CardinalityType
  <2>4. QED
    BY <1>3, <2>2, <2>3
<1>5. QED
  BY <1>2, <1>3, <1>4

\* From one number to the next at most one place is counted.
LEMMA CountGrows ==
  ASSUME NEW n \in Nat, NEW I \in SUBSET (1..n), NEW k \in Nat
  PROVE  Cardinality(UpTo(I, k + 1)) =
           Cardinality(UpTo(I, k)) + (IF k + 1 \in I THEN 1 ELSE 0)
<1>1. IsFiniteSet(UpTo(I, k))
  BY PlacesCounted
<1>2. CASE k + 1 \in I
  <2>1. UpTo(I, k + 1) = UpTo(I, k) \cup {k + 1}
    <3>1. \A j \in I : j <= k + 1 <=> (j <= k \/ j = k + 1)
      OBVIOUS
    <3>2. QED
      BY <1>2, <3>1 DEF UpTo
  <2>2. k + 1 \notin UpTo(I, k)
    BY DEF UpTo
  <2>3. QED
    BY <1>1, <1>2, <2>1, <2>2, FS_AddElement
<1>3. CASE k + 1 \notin I
  <2>1. UpTo(I, k + 1) = UpTo(I, k)
    <3>1. \A j \in I : j <= k + 1 <=> j <= k
      BY <1>3
    <3>2. QED
      BY <3>1 DEF UpTo
  <2>2. Cardinality(UpTo(I, k)) \in Nat
    BY PlacesCounted
  <2>3. QED
    BY <1>3, <2>1, <2>2
<1>4. QED
  BY <1>2, <1>3

\* There is an i-th place.
LEMMA NthIs ==
  ASSUME NEW n \in Nat, NEW I \in SUBSET (1..n), NEW i \in 1..Cardinality(I)
  PROVE  Nth(I, i) # {} /\ Nth(I, i) \subseteq I
<1> DEFINE C(k) == Cardinality(UpTo(I, k))
<1>1. Cardinality(I) \in Nat /\ \A k : C(k) \in Nat
  BY PlacesCounted
<1>2. C(0) = 0
  <2>1. UpTo(I, 0) = {}
    <3>1. \A j \in I : ~(j <= 0)
      OBVIOUS
    <3>2. QED
      BY <3>1 DEF UpTo
  <2>2. QED
    BY <2>1, FS_EmptySet
<1>3. C(n) = Cardinality(I)
  <2>1. UpTo(I, n) = I
    <3>1. \A j \in I : j <= n
      OBVIOUS
    <3>2. QED
      BY <3>1 DEF UpTo
  <2>2. QED
    BY <2>1
<1>4. PICK S : S = {k \in 0..n : C(k) >= i}
  OBVIOUS
<1>5. n \in S
  BY <1>1, <1>3, <1>4
<1>6. PICK k \in S : \A m \in S : k <= m
  <2>1. S \subseteq Nat
    BY <1>4
  <2>2. QED
    BY <1>5, <2>1, LeastOf
<1>7. k \in 1..n
  BY <1>1, <1>2, <1>4
<1>8. k - 1 \in Nat /\ k - 1 \notin S /\ k - 1 \in 0..n /\ (k - 1) + 1 = k
  BY <1>6, <1>7
<1>9. C(k - 1) < i
  BY <1>1, <1>4, <1>8
<1>10. C(k) = C(k - 1) + (IF k \in I THEN 1 ELSE 0)
  <2>1. PICK l \in Nat : l = k - 1 /\ l + 1 = k
    BY <1>8
  <2>2. Cardinality(UpTo(I, l + 1)) =
           Cardinality(UpTo(I, l)) + (IF l + 1 \in I THEN 1 ELSE 0)
    BY CountGrows
  <2>3. QED
    BY <2>1, <2>2
<1>11. k \in I /\ C(k) = i
  <2>1. C(k) >= i
    BY <1>4
  <2>2. C(k) \in Nat /\ C(k - 1) \in Nat /\ i \in Nat
    BY <1>1
  <2> HIDE DEF C
  <2>3. QED
    BY <1>9, <1>10, <2>1, <2>2
<1>12. QED
  BY <1>11, NthCounts

\* What is picked is of the sequence.
LEMMA PickIs ==
  ASSUME NEW S, NEW w \in Seq(S), NEW I \in SUBSET DOMAIN w
  PROVE  /\ Pick(w, I) \in Seq(S) /\ Len(Pick(w, I)) = Cardinality(I)
         /\ Cardinality(I) \in 0..Len(w)
         /\ Range(Pick(w, I)) \subseteq {w[i] : i \in I}
<1>1. PICK n \in Nat : n = Len(w) /\ DOMAIN w = 1..n
  OBVIOUS
<1>2. PICK c : c = Cardinality(I)
  OBVIOUS
<1>3. c \in 0..n
  BY <1>1, <1>2, PlacesCounted
<1>4. ASSUME NEW i \in 1..c PROVE PlaceOf(I, i) \in I
  BY <1>1, <1>2, NthIs, PlaceIn
<1>5. PICK p : p = Pick(w, I)
  OBVIOUS
<1>6. p = [i \in 1..c |-> w[PlaceOf(I, i)]]
  BY <1>2, <1>5, PickPlaces
<1>7. \A i \in 1..c : p[i] \in {w[j] : j \in I} /\ p[i] \in S
  BY <1>1, <1>4, <1>6
<1>8. p \in [1..c -> S] /\ c \in Nat
  BY <1>3, <1>6, <1>7
<1>9. p \in Seq(S) /\ Len(p) = c
  BY <1>8
<1>10. Range(p) \subseteq {w[j] : j \in I}
  BY <1>6, <1>7 DEF Range
<1>11. QED
  BY <1>1, <1>2, <1>3, <1>5, <1>9, <1>10

\* The places that a word adds to the end of a sequence.
LEMMA PickLonger ==
  ASSUME NEW S, NEW w \in Seq(S), NEW x \in S, NEW I \in SUBSET DOMAIN w
  PROVE  /\ Pick(Append(w, x), I) = Pick(w, I)
         /\ Pick(Append(w, x), I \cup {Len(w) + 1}) = Append(Pick(w, I), x)
<1>1. PICK n \in Nat : n = Len(w) /\ DOMAIN w = 1..n
  OBVIOUS
<1>2. PICK v : v = Append(w, x)
  OBVIOUS
<1>3. /\ v \in Seq(S) /\ Len(v) = n + 1 /\ DOMAIN v = 1..(n + 1)
      /\ \A i \in 1..n : v[i] = w[i]
      /\ v[n + 1] = x
  BY <1>1, <1>2
<1>4. PICK c : c = Cardinality(I)
  OBVIOUS
<1>5. c \in 0..n /\ IsFiniteSet(I)
  BY <1>1, <1>4, PlacesCounted
<1>6. \A i \in 1..c : PlaceOf(I, i) \in 1..n
  <2>1. \A i \in 1..c : PlaceOf(I, i) \in I
    BY <1>1, <1>4, NthIs, PlaceIn
  <2>2. QED
    BY <1>1, <2>1
<1>7. Pick(w, I) = [i \in 1..c |-> w[PlaceOf(I, i)]]
  BY <1>4, PickPlaces
<1>8. Pick(v, I) = Pick(w, I)
  <2>1. Pick(v, I) = [i \in 1..c |-> v[PlaceOf(I, i)]]
    BY <1>4, PickPlaces
  <2>2. QED
    BY <1>3, <1>6, <1>7, <2>1
<1>9. PICK J : J = I \cup {n + 1}
  OBVIOUS
<1>10. Cardinality(J) = c + 1
  <2>1. n + 1 \notin I
    BY <1>1
  <2>2. QED
    BY <1>4, <1>5, <1>9, <2>1, FS_AddElement
<1>11. \A k \in I : UpTo(J, k) = UpTo(I, k)
  <2>1. \A k \in I : k < n + 1
    BY <1>1
  <2>2. ASSUME NEW k \in I PROVE UpTo(J, k) = UpTo(I, k)
    <3>1. ~(n + 1 <= k)
      BY <1>1, <2>1
    <3>2. QED
      BY <1>9, <3>1 DEF UpTo
  <2>3. QED
    BY <2>2
<1>12. UpTo(J, n + 1) = J
  <2>1. \A j \in J : j <= n + 1
    BY <1>1, <1>9
  <2>2. QED
    BY <2>1 DEF UpTo
<1>13. \A k \in I : Cardinality(UpTo(I, k)) \in 0..c
  BY <1>1, <1>4, PlacesCounted
<1>14. ASSUME NEW i \in 1..c PROVE PlaceOf(J, i) = PlaceOf(I, i)
  <2>1. \A k : k \in Nth(J, i) <=> k \in J /\ Cardinality(UpTo(J, k)) = i
    BY NthCounts
  <2>2. \A k : k \in Nth(I, i) <=> k \in I /\ Cardinality(UpTo(I, k)) = i
    BY NthCounts
  <2>3. n + 1 \notin Nth(J, i)
    BY <1>5, <1>10, <1>12, <2>1
  <2>4. \A k : k \in I => (k \in Nth(J, i) <=> k \in Nth(I, i))
    BY <1>9, <1>11, <2>1, <2>2
  <2>5. Nth(J, i) = Nth(I, i)
    <3>1. \A k : k \in Nth(J, i) => k \in I
      BY <1>9, <2>1, <2>3
    <3>2. \A k : k \in Nth(I, i) => k \in I
      BY <2>2
    <3>3. \A k : k \in Nth(J, i) <=> k \in Nth(I, i)
      BY <2>4, <3>1, <3>2
    <3>4. QED
      BY <3>3
  <2>6. QED
    BY <2>5, PlacesSame
<1>15. PlaceOf(J, c + 1) = n + 1
  <2>1. n + 1 \in Nth(J, c + 1)
    BY <1>9, <1>10, <1>12, NthCounts
  <2>2. ASSUME NEW k \in I PROVE k \notin Nth(J, c + 1)
    <3>1. Cardinality(UpTo(J, k)) \in 0..c
      BY <1>11, <1>13
    <3>2. Cardinality(UpTo(J, k)) # c + 1
      BY <1>5, <3>1
    <3>3. QED
      BY <3>2, NthCounts
  <2>3. \A k : k \in Nth(J, c + 1) => k \in J
    BY NthCounts
  <2>4. Nth(J, c + 1) = {n + 1}
    BY <1>9, <2>1, <2>2, <2>3
  <2>5. QED
    BY <2>4, PlaceOfOne
<1>16. Pick(v, J) = [i \in 1..(c + 1) |-> v[PlaceOf(J, i)]]
  BY <1>10, PickPlaces
<1>17. PICK p : p = Pick(w, I)
  OBVIOUS
<1>18. p \in Seq(S) /\ Len(p) = c
  BY <1>4, <1>17, PickIs
<1>19. PICK q : q = Pick(v, J)
  OBVIOUS
<1>20. \A i \in 1..c : q[i] = p[i]
  <2>1. SUFFICES ASSUME NEW i \in 1..c PROVE q[i] = p[i]
    OBVIOUS
  <2>2. i \in 1..(c + 1)
    BY <1>5
  <2>3. q[i] = v[PlaceOf(I, i)]
    BY <1>14, <1>16, <1>19, <2>2
  <2>4. QED
    BY <1>3, <1>6, <1>7, <1>17, <2>3
<1>21. q[c + 1] = x
  <2>1. c + 1 \in 1..(c + 1)
    BY <1>5
  <2>2. QED
    BY <1>3, <1>15, <1>16, <1>19, <2>1
<1>22. q \in [1..(c + 1) -> S]
  <2>1. \A i \in 1..(c + 1) : q[i] \in S
    BY <1>5, <1>18, <1>20, <1>21
  <2>2. QED
    BY <1>16, <1>19, <2>1
<1>23. q = Append(p, x)
  <2>1. q \in Seq(S) /\ Len(q) = c + 1
    BY <1>5, <1>22
  <2>2. PICK r : r = Append(p, x)
    OBVIOUS
  <2>3. r \in Seq(S) /\ Len(r) = c + 1 /\ \A i \in 1..c : r[i] = p[i]
    BY <1>18, <2>2
  <2>4. r[c + 1] = x
    BY <1>18, <2>2
  <2>5. \A i \in 1..(c + 1) : q[i] = r[i]
    BY <1>5, <1>20, <1>21, <2>3, <2>4
  <2>6. QED
    BY <2>1, <2>2, <2>3, <2>5
<1>24. QED
  BY <1>1, <1>2, <1>8, <1>9, <1>17, <1>19, <1>23

\* What holds at 0 and goes from each number to the next holds up to a bound.
LEMMA StepByStep ==
  ASSUME NEW m \in Nat, NEW T, 0 \in T, \A i \in 1..m : i - 1 \in T => i \in T
  PROVE  \A i \in 0..m : i \in T
<1>1. PICK S : S = {i \in 0..m : i \notin T}
  OBVIOUS
<1>2. ASSUME S # {} PROVE FALSE
  <2>1. S \subseteq Nat
    BY <1>1
  <2>2. PICK n \in S : \A i \in S : n <= i
    BY <1>2, <2>1, LeastOf
  <2>3. n # 0 /\ n \in 0..m
    BY <1>1
  <2>4. n - 1 \in 0..m /\ n \in 1..m /\ n - 1 < n
    BY <2>3
  <2>5. n - 1 \notin S
    BY <2>2, <2>3, <2>4
  <2>6. QED
    BY <1>1, <2>4, <2>5
<1>3. QED
  BY <1>1, <1>2

AnyWord == Word \cup Redirection \cup {Glued, Empty, Unknown, Parens, "sep"}

\* Words that are no command, no option and no file.
Blank == {Empty, Unknown}

\* The words that stand for what is not known are no redirections, no commands and no files.
LEMMA WordsDiffer ==
  /\ Unknown \in AnyWord /\ Parens \in AnyWord /\ Glued \in AnyWord /\ NoWord \notin AnyWord
  /\ {Unknown, Parens} \cap (Redirection \cup Reader \cup {"opt", "env", "cd"}) = {}
  /\ ~Usable(Unknown) /\ ~Usable(Parens)
  /\ Redirection \subseteq AnyWord /\ Word \subseteq AnyWord
  /\ Empty \in AnyWord /\ Empty # NoWord /\ Empty # Unknown
BY DEF Empty, Unknown, Parens, AnyWord, Word, Redirection, Glued, NoWord, Reader, Name, Usable

\* An empty word and an unknown one are neither.
LEMMA BlankIs ==
  ASSUME NEW blank \in Blank
  PROVE  /\ blank \in AnyWord /\ blank # NoWord /\ ~Usable(blank)
         /\ blank \notin Redirection \cup Reader \cup {"opt", "env", "cd"}
BY DEF Blank, Empty, Unknown, AnyWord, Redirection, NoWord, Reader, Name, Usable, Glued

\* A sequence without places, and one with a single place.
LEMMA PickNone ==
  ASSUME NEW w \in Seq(AnyWord)
  PROVE  Pick(w, {}) = <<>>
<1>1. Cardinality({}) = 0 /\ {} \in SUBSET DOMAIN w
  BY FS_EmptySet
<1>2. Pick(w, {}) \in Seq(AnyWord) /\ Len(Pick(w, {})) = 0
  BY <1>1, PickIs
<1>3. QED
  BY <1>2

\* One place gives one word.
LEMMA PickOne ==
  ASSUME NEW w \in Seq(AnyWord), NEW i \in DOMAIN w
  PROVE  Pick(w, {i}) = <<w[i]>>
<1>1. Cardinality({i}) = 1 /\ {i} \in SUBSET DOMAIN w
  BY FS_Singleton
<1>2. PICK p : p = Pick(w, {i})
  OBVIOUS
<1>3. p \in Seq(AnyWord) /\ Len(p) = 1 /\ Range(p) \subseteq {w[j] : j \in {i}}
  BY <1>1, <1>2, PickIs
<1>4. p[1] \in Range(p)
  BY <1>3 DEF Range
<1>5. p[1] = w[i]
  BY <1>3, <1>4
<1>6. QED
  BY <1>2, <1>3, <1>5

\* Plain words are words.
LEMMA PlainIs ==
  ASSUME NEW w \in Seq(AnyWord)
  PROVE  Plain(w) \in Seq(AnyWord)
BY PickIs DEF Plain

\* A word that comes is plain or it is not, and the plain words before it stay.
LEMMA PlainLonger ==
  ASSUME NEW w \in Seq(AnyWord), NEW x \in AnyWord
  PROVE  Plain(Append(w, x)) =
           IF IsPlain(Append(w, x), Len(w) + 1) THEN Append(Plain(w), x) ELSE Plain(w)
<1>1. PICK v : v = Append(w, x)
  OBVIOUS
<1>2. PICK n \in Nat : n = Len(w) /\ DOMAIN w = 1..n
  OBVIOUS
<1>3. v \in Seq(AnyWord) /\ DOMAIN v = 1..(n + 1) /\ \A i \in 1..n : v[i] = w[i]
  BY <1>1, <1>2
<1>4. PICK I : I = {i \in DOMAIN w : IsPlain(w, i)}
  OBVIOUS
<1>5. \A i \in 1..n : IsPlain(v, i) <=> IsPlain(w, i)
  <2>1. SUFFICES ASSUME NEW i \in 1..n PROVE IsPlain(v, i) <=> IsPlain(w, i)
    OBVIOUS
  <2>2. i = 1 \/ i - 1 \in 1..n
    OBVIOUS
  <2>3. QED
    BY <1>3, <2>2 DEF IsPlain
<1>6. PICK J : J = {i \in DOMAIN v : IsPlain(v, i)}
  OBVIOUS
<1>7. J = IF IsPlain(v, n + 1) THEN I \cup {n + 1} ELSE I
  <2>1. \A i : i \in 1..(n + 1) <=> i \in 1..n \/ i = n + 1
    BY <1>2
  <2>2. \A i : i \in J <=> (i \in I \/ (i = n + 1 /\ IsPlain(v, n + 1)))
    BY <1>2, <1>3, <1>4, <1>5, <1>6, <2>1
  <2>3. QED
    BY <2>2
<1>8. /\ Pick(v, I) = Pick(w, I)
      /\ Pick(v, I \cup {n + 1}) = Append(Pick(w, I), x)
  <2>1. I \in SUBSET DOMAIN w
    BY <1>4
  <2>2. /\ Pick(Append(w, x), I) = Pick(w, I)
        /\ Pick(Append(w, x), I \cup {Len(w) + 1}) = Append(Pick(w, I), x)
    BY <2>1, PickLonger
  <2>3. QED
    BY <1>1, <1>2, <2>2
<1>9. Plain(v) = Pick(v, J) /\ Plain(w) = Pick(w, I)
  BY <1>4, <1>6 DEF Plain
<1>10. QED
  BY <1>1, <1>2, <1>7, <1>8, <1>9

\* A command is made of words.
LEMMA CommandIs ==
  ASSUME NEW p \in Seq(AnyWord)
  PROVE  Command(p) \in Seq(AnyWord)
BY PickIs DEF Command

\* A word that comes is skipped or it goes to the end of the command.
LEMMA CommandLonger ==
  ASSUME NEW p \in Seq(AnyWord), NEW x \in AnyWord
  PROVE  Command(Append(p, x)) =
           IF Skipped(Append(p, x), Len(p) + 1) THEN Command(p) ELSE Append(Command(p), x)
<1>1. PICK v : v = Append(p, x)
  OBVIOUS
<1>2. PICK n \in Nat : n = Len(p) /\ DOMAIN p = 1..n
  OBVIOUS
<1>3. v \in Seq(AnyWord) /\ DOMAIN v = 1..(n + 1) /\ \A i \in 1..n : v[i] = p[i]
  BY <1>1, <1>2
<1>4. PICK I : I = {i \in DOMAIN p : ~Skipped(p, i)}
  OBVIOUS
<1>5. \A i \in 1..n : Skipped(v, i) <=> Skipped(p, i)
  <2>1. SUFFICES ASSUME NEW i \in 1..n PROVE Skipped(v, i) <=> Skipped(p, i)
    OBVIOUS
  <2>2. \A k \in 1..i : v[k] = p[k]
    BY <1>3
  <2>3. QED
    BY <2>2 DEF Skipped
<1>6. PICK J : J = {i \in DOMAIN v : ~Skipped(v, i)}
  OBVIOUS
<1>7. J = IF Skipped(v, n + 1) THEN I ELSE I \cup {n + 1}
  <2>1. \A i : i \in 1..(n + 1) <=> i \in 1..n \/ i = n + 1
    BY <1>2
  <2>2. \A i : i \in J <=> (i \in I \/ (i = n + 1 /\ ~Skipped(v, n + 1)))
    BY <1>2, <1>3, <1>4, <1>5, <1>6, <2>1
  <2>3. QED
    BY <2>2
<1>8. /\ Pick(v, I) = Pick(p, I)
      /\ Pick(v, I \cup {n + 1}) = Append(Pick(p, I), x)
  <2>1. I \in SUBSET DOMAIN p
    BY <1>4
  <2>2. /\ Pick(Append(p, x), I) = Pick(p, I)
        /\ Pick(Append(p, x), I \cup {Len(p) + 1}) = Append(Pick(p, I), x)
    BY <2>1, PickLonger
  <2>3. QED
    BY <1>1, <1>2, <2>2
<1>9. Command(v) = Pick(v, J) /\ Command(p) = Pick(p, I)
  BY <1>4, <1>6 DEF Command
<1>10. QED
  BY <1>1, <1>2, <1>7, <1>8, <1>9

\* The words of the command that runs.
Run(w) == Command(Plain(w))

\* The command of a line is made of words.
LEMMA RunIs ==
  ASSUME NEW w \in Seq(AnyWord)
  PROVE  Run(w) \in Seq(AnyWord)
BY PlainIs, CommandIs DEF Run

\* No words are no command.
LEMMA RunOfNone == Run(<<>>) = <<>> /\ Plain(<<>>) = <<>> /\ Command(<<>>) = <<>>
<1>1. <<>> \in Seq(AnyWord) /\ DOMAIN <<>> = {}
  OBVIOUS
<1>2. PICK e : e = <<>> /\ e \in Seq(AnyWord) /\ DOMAIN e = {}
  BY <1>1
<1>3. {i \in DOMAIN e : IsPlain(e, i)} = {} /\ {i \in DOMAIN e : ~Skipped(e, i)} = {}
  BY <1>2
<1>4. Plain(e) = Pick(e, {}) /\ Command(e) = Pick(e, {})
  BY <1>3 DEF Plain, Command
<1>5. Pick(e, {}) = <<>>
  BY <1>2, PickNone
<1>6. QED
  BY <1>2, <1>4, <1>5 DEF Run

\* One word is a command or nothing.
LEMMA RunOfOne ==
  ASSUME NEW x \in AnyWord
  PROVE  Run(<<x>>) \in {<<>>, <<x>>}
<1>0. <<>> \in Seq(AnyWord) /\ Append(<<>>, x) = <<x>>
  OBVIOUS
<1>1. PICK e \in Seq(AnyWord) : e = <<>> /\ Append(e, x) = <<x>>
  BY <1>0
<1>2. Plain(e) = e /\ Command(e) = e
  BY <1>1, RunOfNone
<1>3. Plain(<<x>>) \in {e, <<x>>}
  BY <1>1, <1>2, PlainLonger
<1>4. Command(<<x>>) \in {e, <<x>>}
  BY <1>1, <1>2, CommandLonger
<1>5. QED
  BY <1>1, <1>2, <1>3, <1>4 DEF Run

\* The output of a substitution comes behind what the command is.
LEMMA RunLonger ==
  ASSUME NEW blank \in Blank, NEW w \in Seq(AnyWord)
  PROVE  Run(Append(w, blank)) \in {Run(w), Append(Run(w), blank)}
<1>1. blank \in AnyWord
  BY BlankIs
<1>2. PICK p \in Seq(AnyWord) : p = Plain(w)
  BY PlainIs
<1>3. Plain(Append(w, blank)) \in {p, Append(p, blank)}
  BY <1>1, <1>2, PlainLonger
<1>4. Command(Append(p, blank)) \in {Command(p), Append(Command(p), blank)}
  BY <1>1, <1>2, CommandLonger
<1>5. QED
  BY <1>2, <1>3, <1>4 DEF Run

\* What an argument gives, with what those behind it give.
Behind(cmd, args, i) == i + 1 + TakesArgs(cmd, args[i])
PositionalFrom(cmd, args, f, i) ==
  IF i > Len(args) THEN <<>>
  ELSE IF args[i] = "opt"
       THEN IF Behind(cmd, args, i) > Len(args) THEN <<>> ELSE f[Behind(cmd, args, i)]
       ELSE <<args[i]>> \o f[i + 1]

IsReading(f, cmd, args) ==
  /\ f \in [1..Len(args) + 1 -> Seq(AnyWord)]
  /\ \A i \in 1..Len(args) + 1 : f[i] = PositionalFrom(cmd, args, f, i)

\* An option is followed by one word at most.
LEMMA BehindIs ==
  ASSUME NEW cmd, NEW args, NEW i \in Nat
  PROVE  Behind(cmd, args, i) \in i + 1..i + 2
BY DEF Behind, TakesArgs

\* The recursion is one from the last argument to the first.
LEMMA ReadingExists ==
  ASSUME NEW cmd, NEW args \in Seq(AnyWord)
  PROVE  \E f : IsReading(f, cmd, args)
<1>1. PICK n \in Nat : n = Len(args) /\ DOMAIN args = 1..n /\ \A i \in 1..n : args[i] \in AnyWord
  OBVIOUS
<1>2. PICK T : T = {k \in 0..n : \E f \in [n - k + 1..n + 1 -> Seq(AnyWord)] :
                      \A i \in n - k + 1..n + 1 : f[i] = PositionalFrom(cmd, args, f, i)}
  OBVIOUS
<1>3. 0 \in T
  <2>1. PICK f : f = [i \in n + 1..n + 1 |-> <<>>]
    OBVIOUS
  <2>2. f \in [n + 1..n + 1 -> Seq(AnyWord)]
    BY <2>1
  <2>3. \A i \in n + 1..n + 1 : f[i] = PositionalFrom(cmd, args, f, i)
    BY <1>1, <2>1 DEF PositionalFrom
  <2>4. n - 0 + 1 = n + 1
    OBVIOUS
  <2>5. QED
    BY <1>1, <1>2, <2>2, <2>3, <2>4, 0 \in 0..n
<1>4. ASSUME NEW k \in 1..n, k - 1 \in T PROVE k \in T
  <2>0. n - k + 1 \in 1..n
    BY <1>1
  <2>1. PICK a \in 1..n : a = n - k + 1
    BY <2>0
  <2>2. n - (k - 1) + 1 = a + 1
    BY <2>1
  <2>3. PICK f \in [a + 1..n + 1 -> Seq(AnyWord)] :
          \A i \in a + 1..n + 1 : f[i] = PositionalFrom(cmd, args, f, i)
    BY <1>2, <1>4, <2>2
  <2>4. PICK x : x = PositionalFrom(cmd, args, f, a)
    OBVIOUS
  <2>5. x \in Seq(AnyWord)
    <3>1. PICK b \in a + 1..a + 2 : b = Behind(cmd, args, a)
      <4>1. a \in Nat
        BY <2>1
      <4>2. Behind(cmd, args, a) \in a + 1..a + 2
        BY <4>1, BehindIs
      <4>3. QED
        BY <4>2
    <3>2. a + 1 \in a + 1..n + 1 /\ args[a] \in AnyWord
      BY <1>1, <2>1
    <3>3. ~(b > n) => b \in a + 1..n + 1
      BY <3>1
    <3>4. ~(b > n) => f[b] \in Seq(AnyWord)
      BY <2>3, <3>3
    <3>5. <<args[a]>> \o f[a + 1] \in Seq(AnyWord)
      <4>1. <<args[a]>> \in Seq(AnyWord) /\ f[a + 1] \in Seq(AnyWord)
        BY <2>3, <3>2
      <4>2. QED
        BY <4>1
    <3>6. QED
      BY <1>1, <2>4, <3>1, <3>4, <3>5 DEF PositionalFrom
  <2>6. PICK g : g = [i \in a..n + 1 |-> IF i = a THEN x ELSE f[i]]
    OBVIOUS
  <2>7. \A i \in a + 1..n + 1 : g[i] = f[i]
    <3>1. \A i \in a + 1..n + 1 : i \in a..n + 1 /\ i # a
      BY <2>1
    <3>2. QED
      BY <2>6, <3>1
  <2>8. g[a] = x
    BY <2>1, <2>6
  <2>9. \A i \in a..n + 1 : i = a \/ i \in a + 1..n + 1
    BY <2>1
  <2>10. g \in [a..n + 1 -> Seq(AnyWord)]
    <3>1. \A i \in a..n + 1 : g[i] \in Seq(AnyWord)
      BY <2>3, <2>5, <2>7, <2>8, <2>9
    <3>2. QED
      BY <2>6, <3>1
  <2>11. ASSUME NEW i \in a..n + 1
         PROVE  PositionalFrom(cmd, args, g, i) = PositionalFrom(cmd, args, f, i)
    <3>1. PICK b \in i + 1..i + 2 : b = Behind(cmd, args, i)
      <4>1. i \in Nat
        BY <2>1
      <4>2. Behind(cmd, args, i) \in i + 1..i + 2
        BY <4>1, BehindIs
      <4>3. QED
        BY <4>2
    <3>2. CASE i > n
      BY <1>1, <3>2 DEF PositionalFrom
    <3>3. CASE ~(i > n)
      <4>1. i + 1 \in a + 1..n + 1 /\ (~(b > n) => b \in a + 1..n + 1)
        BY <2>1, <3>1, <3>3
      <4>2. g[i + 1] = f[i + 1] /\ (~(b > n) => g[b] = f[b])
        BY <2>7, <4>1
      <4>3. QED
        BY <1>1, <3>1, <4>2 DEF PositionalFrom
    <3>4. QED
      BY <3>2, <3>3
  <2>12. \A i \in a..n + 1 : g[i] = PositionalFrom(cmd, args, g, i)
    BY <2>3, <2>4, <2>7, <2>8, <2>9, <2>11
  <2>13. \E h \in [n - k + 1..n + 1 -> Seq(AnyWord)] :
           \A i \in n - k + 1..n + 1 : h[i] = PositionalFrom(cmd, args, h, i)
    <3>1. \E h \in [a..n + 1 -> Seq(AnyWord)] :
            \A i \in a..n + 1 : h[i] = PositionalFrom(cmd, args, h, i)
      BY <2>10, <2>12
    <3>2. QED
      BY <2>1, <3>1
  <2>14. k \in 0..n
    BY <1>1
  <2>15. QED
    BY <1>2, <2>13, <2>14
<1>5. n \in T
  <2>1. \A k \in 1..n : k - 1 \in T => k \in T
    BY <1>4
  <2>2. \A k \in 0..n : k \in T
    BY <1>3, <2>1, StepByStep
  <2>3. QED
    BY <2>2
<1>6. n - n + 1 = 1
  OBVIOUS
<1>7. QED
  BY <1>1, <1>2, <1>5, <1>6 DEF IsReading

\* The reading of a command gives words.
LEMMA ReadingTyped ==
  ASSUME NEW cmd, NEW args \in Seq(AnyWord), NEW f,
         f = [i \in 1..Len(args) + 1 |-> PositionalFrom(cmd, args, f, i)]
  PROVE  IsReading(f, cmd, args)
<1>1. PICK n \in Nat : n = Len(args) /\ DOMAIN args = 1..n /\ \A i \in 1..n : args[i] \in AnyWord
  OBVIOUS
<1>2. \A i \in 1..n + 1 : f[i] = PositionalFrom(cmd, args, f, i)
  BY <1>1
<1>3. PICK T : T = {k \in 0..n : \A j \in n - k + 1..n + 1 : f[j] \in Seq(AnyWord)}
  OBVIOUS
<1>4. 0 \in T
  <2>1. f[n + 1] = <<>>
    <3>1. n + 1 \in 1..n + 1 /\ n + 1 > n
      OBVIOUS
    <3>2. QED
      BY <1>1, <1>2, <3>1 DEF PositionalFrom
  <2>2. <<>> \in Seq(AnyWord)
    OBVIOUS
  <2>3. \A j \in n - 0 + 1..n + 1 : j = n + 1
    OBVIOUS
  <2>4. 0 \in 0..n
    BY <1>1
  <2>5. QED
    BY <1>3, <2>1, <2>2, <2>3, <2>4
<1>5. ASSUME NEW k \in 1..n, k - 1 \in T PROVE k \in T
  <2>0. n - k + 1 \in 1..n
    BY <1>1
  <2>1. PICK a \in 1..n : a = n - k + 1
    BY <2>0
  <2>2. \A j \in a + 1..n + 1 : f[j] \in Seq(AnyWord)
    <3>1. n - (k - 1) + 1 = a + 1
      BY <2>1
    <3>2. QED
      BY <1>3, <1>5, <3>1
  <2>3. f[a] \in Seq(AnyWord)
    <3>1. PICK b \in a + 1..a + 2 : b = Behind(cmd, args, a)
      <4>1. a \in Nat
        BY <2>1
      <4>2. Behind(cmd, args, a) \in a + 1..a + 2
        BY <4>1, BehindIs
      <4>3. QED
        BY <4>2
    <3>2. a + 1 \in a + 1..n + 1 /\ args[a] \in AnyWord /\ a \in 1..n + 1 /\ ~(a > n)
      <4>1. a \in 1..n /\ n \in Nat
        BY <1>1
      <4>2. QED
        BY <1>1, <4>1
    <3>3. ~(b > n) => b \in a + 1..n + 1
      BY <3>1
    <3>4. ~(b > n) => f[b] \in Seq(AnyWord)
      BY <2>2, <3>3
    <3>5. <<args[a]>> \o f[a + 1] \in Seq(AnyWord)
      <4>1. <<args[a]>> \in Seq(AnyWord)
        BY <3>2
      <4>2. f[a + 1] \in Seq(AnyWord)
        BY <2>2, <3>2
      <4>3. QED
        BY <4>1, <4>2
    <3>6. f[a] = PositionalFrom(cmd, args, f, a) /\ <<>> \in Seq(AnyWord)
      BY <1>2, <3>2
    <3>7. QED
      BY <1>1, <3>1, <3>2, <3>4, <3>5, <3>6 DEF PositionalFrom
  <2>4. \A j \in a..n + 1 : j = a \/ j \in a + 1..n + 1
    OBVIOUS
  <2>5. \A j \in n - k + 1..n + 1 : f[j] \in Seq(AnyWord)
    <3>1. \A j \in a..n + 1 : f[j] \in Seq(AnyWord)
      BY <2>2, <2>3, <2>4
    <3>2. QED
      BY <2>1, <3>1
  <2>6. k \in 0..n
    BY <1>1
  <2>7. QED
    BY <1>3, <2>5, <2>6
<1>6. n \in T
  <2>1. \A k \in 1..n : k - 1 \in T => k \in T
    BY <1>5
  <2>2. \A k \in 0..n : k \in T
    BY <1>4, <2>1, StepByStep
  <2>3. QED
    BY <2>2
<1>7. \A j \in 1..n + 1 : f[j] \in Seq(AnyWord)
  <2>1. n - n + 1 = 1
    OBVIOUS
  <2>2. QED
    BY <1>3, <1>6, <2>1
<1>8. f \in [1..n + 1 -> Seq(AnyWord)]
  BY <1>1, <1>7
<1>9. QED
  BY <1>1, <1>2, <1>8 DEF IsReading

\* The operands are what the reading gives from the first argument on.
LEMMA PositionalsAre ==
  ASSUME NEW cmd, NEW args \in Seq(AnyWord)
  PROVE  \E f : IsReading(f, cmd, args) /\ Positionals(cmd, args) = f[1]
<1> DEFINE h[i \in 1..Len(args) + 1] ==
      IF i > Len(args) THEN <<>>
      ELSE IF args[i] = "opt"
           THEN IF i + 1 + TakesArgs(cmd, args[i]) > Len(args) THEN <<>>
                ELSE h[i + 1 + TakesArgs(cmd, args[i])]
           ELSE <<args[i]>> \o h[i + 1]
<1>1. Positionals(cmd, args) = h[1]
  BY SMTT(60) DEF Positionals
<1>2. h = [i \in 1..Len(args) + 1 |-> PositionalFrom(cmd, args, h, i)]
  <2>1. PICK f : IsReading(f, cmd, args)
    BY ReadingExists
  <2>2. f = [i \in 1..Len(args) + 1 |->
      IF i > Len(args) THEN <<>>
      ELSE IF args[i] = "opt"
           THEN IF i + 1 + TakesArgs(cmd, args[i]) > Len(args) THEN <<>>
                ELSE f[i + 1 + TakesArgs(cmd, args[i])]
           ELSE <<args[i]>> \o f[i + 1]]
    BY <2>1 DEF IsReading, PositionalFrom, Behind
  <2>3. h = [i \in 1..Len(args) + 1 |->
      IF i > Len(args) THEN <<>>
      ELSE IF args[i] = "opt"
           THEN IF i + 1 + TakesArgs(cmd, args[i]) > Len(args) THEN <<>>
                ELSE h[i + 1 + TakesArgs(cmd, args[i])]
           ELSE <<args[i]>> \o h[i + 1]]
    BY <2>2, Zenon
  <2>4. QED
    BY <2>3, Zenon DEF PositionalFrom, Behind
<1> HIDE DEF h
<1>3. IsReading(h, cmd, args)
  BY <1>2, ReadingTyped
<1>4. QED
  BY <1>1, <1>3

\* A sequence, or that and what a substitution has given.
Adds(t, s, blank) == t = s \/ t = Append(s, blank)

\* A word in front and one behind are independent of each other.
LEMMA BehindFirst ==
  ASSUME NEW s \in Seq(AnyWord), NEW x \in AnyWord, NEW u \in AnyWord
  PROVE  <<x>> \o Append(s, u) = Append(<<x>> \o s, u)
<1>1. PICK p : p = <<x>> \o Append(s, u)
  OBVIOUS
<1>2. PICK q : q = Append(<<x>> \o s, u)
  OBVIOUS
<1>3. PICK n \in Nat : n = Len(s)
  OBVIOUS
<1>4. Append(s, u) \in Seq(AnyWord) /\ Len(Append(s, u)) = n + 1 /\ <<x>> \in Seq(AnyWord)
  BY <1>3
<1>5. p \in Seq(AnyWord) /\ Len(p) = n + 2
  BY <1>1, <1>4
<1>6. <<x>> \o s \in Seq(AnyWord) /\ Len(<<x>> \o s) = n + 1
  BY <1>3, <1>4
<1>7. q \in Seq(AnyWord) /\ Len(q) = n + 2
  BY <1>2, <1>6
<1>8. ASSUME NEW i \in 1..n + 2 PROVE p[i] = q[i]
  <2>1. CASE i = 1
    BY <1>1, <1>2, <1>3, <1>4, <1>6, <2>1
  <2>2. CASE i = n + 2
    BY <1>1, <1>2, <1>3, <1>4, <1>6, <2>2
  <2>3. CASE i # 1 /\ i # n + 2
    BY <1>1, <1>2, <1>3, <1>4, <1>6, <2>3
  <2>4. QED
    BY <2>1, <2>2, <2>3
<1>9. p = q
  BY <1>5, <1>7, <1>8
<1>10. QED
  BY <1>1, <1>2, <1>9

\* A word in front leaves what is added behind.
LEMMA AddsBehind ==
  ASSUME NEW blank \in Blank, NEW s \in Seq(AnyWord), NEW t, Adds(t, s, blank),
         NEW x \in AnyWord
  PROVE  t \in Seq(AnyWord) /\ Adds(<<x>> \o t, <<x>> \o s, blank)
<1>1. blank \in AnyWord
  BY BlankIs
<1>2. t \in Seq(AnyWord)
  BY <1>1 DEF Adds
<1>3. CASE t = s
  BY <1>2, <1>3 DEF Adds
<1>4. CASE t = Append(s, blank)
  BY <1>1, <1>2, <1>4, BehindFirst DEF Adds
<1>5. QED
  BY <1>2, <1>3, <1>4 DEF Adds

\* An unknown word at the end adds itself to the operands, or nothing.
LEMMA PositionalsLonger ==
  ASSUME NEW blank \in Blank, NEW cmd, NEW args \in Seq(AnyWord)
  PROVE  /\ Positionals(cmd, args) \in Seq(AnyWord)
         /\ Adds(Positionals(cmd, Append(args, blank)), Positionals(cmd, args), blank)
<1>1. PICK n \in Nat : n = Len(args) /\ DOMAIN args = 1..n /\ \A i \in 1..n : args[i] \in AnyWord
  OBVIOUS
<1>2. PICK more : more = Append(args, blank)
  OBVIOUS
<1>3. /\ more \in Seq(AnyWord) /\ Len(more) = n + 1 /\ more[n + 1] = blank
      /\ \A i \in 1..n : more[i] = args[i]
  BY <1>1, <1>2, BlankIs
<1>4. PICK f : IsReading(f, cmd, args) /\ Positionals(cmd, args) = f[1]
  BY PositionalsAre
<1>5. PICK g : IsReading(g, cmd, more) /\ Positionals(cmd, more) = g[1]
  BY <1>3, PositionalsAre
<1>6. /\ f \in [1..n + 1 -> Seq(AnyWord)]
      /\ \A i \in 1..n + 1 : f[i] = PositionalFrom(cmd, args, f, i)
  BY <1>1, <1>4 DEF IsReading
<1>7. /\ g \in [1..n + 2 -> Seq(AnyWord)]
      /\ \A i \in 1..n + 2 : g[i] = PositionalFrom(cmd, more, g, i)
  <2>1. (n + 1) + 1 = n + 2
    OBVIOUS
  <2>2. QED
    BY <1>3, <1>5, <2>1 DEF IsReading
<1>8. PICK T : T = {k \in 0..n : \A j \in n - k + 1..n + 1 : Adds(g[j], f[j], blank)}
  OBVIOUS
<1>9. f[n + 1] = <<>> /\ g[n + 1] = Append(<<>>, blank)
  <2>1. f[n + 1] = <<>>
    <3>1. n + 1 \in 1..n + 1 /\ n + 1 > n
      OBVIOUS
    <3>2. QED
      BY <1>1, <1>6, <3>1 DEF PositionalFrom
  <2>2. g[n + 2] = <<>>
    <3>1. n + 2 \in 1..n + 2 /\ n + 2 > n + 1
      OBVIOUS
    <3>2. QED
      BY <1>3, <1>7, <3>1 DEF PositionalFrom
  <2>3. g[n + 1] = <<blank>> \o <<>>
    <3>1. n + 1 \in 1..n + 2 /\ ~(n + 1 > n + 1) /\ (n + 1) + 1 = n + 2
      OBVIOUS
    <3>2. more[n + 1] # "opt"
      BY <1>3, BlankIs
    <3>3. g[n + 1] = <<more[n + 1]>> \o g[(n + 1) + 1]
      BY <1>3, <1>7, <3>1, <3>2 DEF PositionalFrom
    <3>4. QED
      BY <1>3, <2>2, <3>1, <3>3
  <2>4. <<blank>> \o <<>> = Append(<<>>, blank)
    BY BlankIs
  <2>5. QED
    BY <2>1, <2>3, <2>4
<1>10. 0 \in T
  <2>1. \A j \in n - 0 + 1..n + 1 : j = n + 1
    OBVIOUS
  <2>2. Adds(g[n + 1], f[n + 1], blank) /\ 0 \in 0..n
    BY <1>1, <1>9 DEF Adds
  <2>3. QED
    BY <1>8, <2>1, <2>2
<1>11. ASSUME NEW k \in 1..n, k - 1 \in T PROVE k \in T
  <2>0. n - k + 1 \in 1..n
    BY <1>1
  <2>1. PICK a \in 1..n : a = n - k + 1
    BY <2>0
  <2>2. \A j \in a + 1..n + 1 : Adds(g[j], f[j], blank)
    <3>1. n - (k - 1) + 1 = a + 1
      BY <2>1
    <3>2. QED
      BY <1>8, <1>11, <3>1
  <2>3. /\ f[a] = PositionalFrom(cmd, args, f, a) /\ g[a] = PositionalFrom(cmd, more, g, a)
        /\ more[a] = args[a] /\ args[a] \in AnyWord
        /\ ~(a > n) /\ ~(a > n + 1) /\ a + 1 \in a + 1..n + 1
    <3>1. a \in 1..n + 1 /\ a \in 1..n + 2
      OBVIOUS
    <3>2. f[a] = PositionalFrom(cmd, args, f, a) /\ g[a] = PositionalFrom(cmd, more, g, a)
      BY <1>6, <1>7, <3>1
    <3>3. more[a] = args[a] /\ args[a] \in AnyWord
      BY <1>1, <1>3
    <3>4. ~(a > n) /\ ~(a > n + 1) /\ a + 1 \in a + 1..n + 1
      OBVIOUS
    <3>5. QED
      BY <3>2, <3>3, <3>4
  <2>4. PICK b \in a + 1..a + 2 : b = Behind(cmd, args, a)
    BY <2>1, BehindIs
  <2>5. b = Behind(cmd, more, a)
    BY <2>3, <2>4 DEF Behind
  <2>6. Adds(g[a], f[a], blank)
    <3>1. CASE args[a] = "opt"
      <4>1. f[a] = IF b > n THEN <<>> ELSE f[b]
        BY <1>1, <2>3, <2>4, <3>1 DEF PositionalFrom
      <4>2. g[a] = IF b > n + 1 THEN <<>> ELSE g[b]
        BY <1>3, <2>3, <2>5, <3>1 DEF PositionalFrom
      <4>3. CASE b > n + 1
        <5>1. b > n
          BY <4>3
        <5>2. QED
          BY <4>1, <4>2, <4>3, <5>1 DEF Adds
      <4>4. CASE ~(b > n + 1)
        <5>1. b \in a + 1..n + 1
          BY <4>4
        <5>2. Adds(g[b], f[b], blank)
          BY <2>2, <5>1
        <5>3. b > n => b = n + 1
          BY <4>4
        <5>4. f[a] = f[b]
          BY <1>9, <4>1, <5>3
        <5>5. QED
          BY <4>2, <4>4, <5>2, <5>4
      <4>5. QED
        BY <4>3, <4>4
    <3>2. CASE args[a] # "opt"
      <4>1. f[a] = <<args[a]>> \o f[a + 1]
        BY <1>1, <2>3, <3>2 DEF PositionalFrom
      <4>2. g[a] = <<args[a]>> \o g[a + 1]
        BY <1>3, <2>3, <3>2 DEF PositionalFrom
      <4>3. f[a + 1] \in Seq(AnyWord) /\ Adds(g[a + 1], f[a + 1], blank)
        BY <1>6, <2>2, <2>3
      <4>4. QED
        BY <2>3, <4>1, <4>2, <4>3, AddsBehind
    <3>3. QED
      BY <3>1, <3>2
  <2>7. \A j \in a..n + 1 : j = a \/ j \in a + 1..n + 1
    OBVIOUS
  <2>8. QED
    BY <1>8, <2>1, <2>2, <2>6, <2>7
<1>12. n \in T
  <2>1. \A k \in 1..n : k - 1 \in T => k \in T
    BY <1>11
  <2>2. \A k \in 0..n : k \in T
    BY <1>10, <2>1, StepByStep
  <2>3. QED
    BY <2>2
<1>13. Adds(g[1], f[1], blank)
  <2>1. n - n + 1 = 1 /\ 1 \in 1..n + 1
    OBVIOUS
  <2>2. QED
    BY <1>8, <1>12, <2>1
<1>14. 1 \in 1..n + 1
  OBVIOUS
<1>15. QED
  BY <1>2, <1>4, <1>5, <1>6, <1>13, <1>14

UsableOf(s) == {x \in Range(s) : Usable(x)}

OperandsOf(cmd) ==
  IF cmd # <<>> /\ Head(cmd) \in Reader THEN Operands(Head(cmd), Tail(cmd)) ELSE <<>>

FromFiles(words) ==
  {words[i + 1] : i \in {k \in DOMAIN words : words[k] = "<" /\ k + 1 \in DOMAIN words
                                               /\ Usable(words[k + 1])}}

\* The files of a command are its usable operands, and what its redirections name.
LEMMA FilesReadAre ==
  ASSUME NEW words
  PROVE  FilesRead(words) = UsableOf(OperandsOf(Run(words))) \cup FromFiles(words)
BY Zenon DEF FilesRead, UsableOf, OperandsOf, FromFiles, Run

\* A command that changes the directory names where it goes.
LEMMA ChangesToAre ==
  ASSUME NEW words
  PROVE  ChangesTo(words) =
           IF Len(Run(words)) > 1 /\ Head(Run(words)) = "cd" /\ Usable(Run(words)[2])
           THEN {Run(words)[2]} ELSE {}
BY DEF ChangesTo, Run

\* An unknown operand is no file.
LEMMA AddsNothing ==
  ASSUME NEW blank \in Blank, NEW s \in Seq(AnyWord), NEW t, Adds(t, s, blank)
  PROVE  UsableOf(t) = UsableOf(s) /\ UsableOf(Tail(t)) = UsableOf(Tail(s))
<1>1. CASE t = s
  BY <1>1
<1>2. CASE t = Append(s, blank)
  <2>1. PICK n \in Nat : n = Len(s) /\ DOMAIN s = 1..n
    OBVIOUS
  <2>2. /\ t \in Seq(AnyWord) /\ Len(t) = n + 1 /\ DOMAIN t = 1..n + 1 /\ t[n + 1] = blank
        /\ \A i \in 1..n : t[i] = s[i]
    BY <1>2, <2>1, BlankIs
  <2>3. ~Usable(blank)
    BY BlankIs
  <2>4. UsableOf(t) = UsableOf(s)
    <3>1. ASSUME NEW x, Usable(x) PROVE x \in Range(t) <=> x \in Range(s)
      <4>1. ASSUME x \in Range(t) PROVE x \in Range(s)
        <5>1. PICK i \in 1..n + 1 : x = t[i]
          BY <2>2, <4>1 DEF Range
        <5>2. i # n + 1
          BY <2>2, <2>3, <3>1, <5>1
        <5>3. i \in DOMAIN s /\ x = s[i]
          BY <2>1, <2>2, <5>1, <5>2
        <5>4. QED
          BY <5>3 DEF Range
      <4>2. ASSUME x \in Range(s) PROVE x \in Range(t)
        <5>1. PICK i \in 1..n : x = s[i]
          BY <2>1, <4>2 DEF Range
        <5>2. i \in DOMAIN t /\ x = t[i]
          BY <2>1, <2>2, <5>1
        <5>3. QED
          BY <5>2 DEF Range
      <4>3. QED
        BY <4>1, <4>2
    <3>2. QED
      BY <3>1 DEF UsableOf
  <2>5. UsableOf(Tail(t)) = UsableOf(Tail(s))
    <3>1. CASE n = 0
      <4>1. s = <<>> /\ t = <<blank>>
        BY <1>2, <2>1, <3>1, BlankIs
      <4>2. Tail(t) = <<>>
        BY <4>1
      <4>3. Tail(s) = <<>>
        BY <4>1
      <4>4. QED
        BY <4>2, <4>3
    <3>2. CASE n > 0
      <4>1. PICK p : p = Tail(s)
        OBVIOUS
      <4>2. PICK q : q = Tail(t)
        OBVIOUS
      <4>3. /\ p \in Seq(AnyWord) /\ Len(p) = n - 1 /\ DOMAIN p = 1..n - 1
            /\ \A i \in 1..n - 1 : p[i] = s[i + 1]
        BY <2>1, <3>2, <4>1
      <4>4. /\ q \in Seq(AnyWord) /\ Len(q) = n /\ DOMAIN q = 1..n
            /\ \A i \in 1..n : q[i] = t[i + 1]
        BY <2>1, <2>2, <3>2, <4>2
      <4>5. ASSUME NEW x, Usable(x) PROVE x \in Range(q) <=> x \in Range(p)
        <5>1. ASSUME x \in Range(q) PROVE x \in Range(p)
          <6>1. PICK i \in 1..n : x = t[i + 1]
            BY <4>4, <5>1 DEF Range
          <6>2. i # n
            BY <2>2, <2>3, <4>5, <6>1
          <6>3. i \in DOMAIN p /\ x = p[i]
            BY <2>1, <2>2, <4>3, <6>1, <6>2
          <6>4. QED
            BY <6>3 DEF Range
        <5>2. ASSUME x \in Range(p) PROVE x \in Range(q)
          <6>1. PICK i \in 1..n - 1 : x = s[i + 1]
            BY <4>3, <5>2 DEF Range
          <6>2. i \in DOMAIN q /\ x = q[i]
            BY <2>1, <2>2, <4>4, <6>1
          <6>3. QED
            BY <6>2 DEF Range
        <5>3. QED
          BY <5>1, <5>2
      <4>6. QED
        BY <4>1, <4>2, <4>5 DEF UsableOf
    <3>3. QED
      BY <2>1, <3>1, <3>2
  <2>6. QED
    BY <2>4, <2>5
<1>3. QED
  BY <1>1, <1>2 DEF Adds

\* An argument that a substitution gives is no operand whose name is known.
LEMMA OperandsLonger ==
  ASSUME NEW blank \in Blank, NEW cmd, NEW args \in Seq(AnyWord)
  PROVE  UsableOf(Operands(cmd, Append(args, blank))) = UsableOf(Operands(cmd, args))
<1>1. PICK p \in Seq(AnyWord) : p = Positionals(cmd, args)
  BY PositionalsLonger
<1>2. PICK q : q = Positionals(cmd, Append(args, blank))
  OBVIOUS
<1>3. Adds(q, p, blank)
  BY <1>1, <1>2, PositionalsLonger
<1>4. "opt" \in Range(Append(args, blank)) <=> "opt" \in Range(args)
  <2>1. PICK n \in Nat : n = Len(args) /\ DOMAIN args = 1..n
    OBVIOUS
  <2>2. PICK more : more = Append(args, blank)
    OBVIOUS
  <2>3. /\ DOMAIN more = 1..n + 1 /\ more[n + 1] = blank
        /\ \A i \in 1..n : more[i] = args[i]
    BY <2>1, <2>2, BlankIs
  <2>4. blank # "opt"
    BY BlankIs
  <2>5. ASSUME "opt" \in Range(more) PROVE "opt" \in Range(args)
    <3>1. PICK i \in 1..n + 1 : more[i] = "opt"
      BY <2>3, <2>5 DEF Range
    <3>2. i \in DOMAIN args /\ args[i] = "opt"
      BY <2>1, <2>3, <2>4, <3>1
    <3>3. QED
      BY <3>2 DEF Range
  <2>6. ASSUME "opt" \in Range(args) PROVE "opt" \in Range(more)
    <3>1. PICK i \in 1..n : args[i] = "opt"
      BY <2>1, <2>6 DEF Range
    <3>2. i \in DOMAIN more /\ more[i] = "opt"
      BY <2>1, <2>3, <3>1
    <3>3. QED
      BY <3>2 DEF Range
  <2>7. QED
    BY <2>2, <2>5, <2>6
<1>5. UsableOf(q) = UsableOf(p) /\ UsableOf(Tail(q)) = UsableOf(Tail(p))
  BY <1>3, AddsNothing
<1>6. PICK sed : sed = (cmd = "sed" /\ "opt" \notin Range(args))
  OBVIOUS
<1>7. Operands(cmd, args) = IF sed /\ p # <<>> THEN Tail(p) ELSE p
  BY <1>1, <1>6 DEF Operands
<1>8. Operands(cmd, Append(args, blank)) = IF sed /\ q # <<>> THEN Tail(q) ELSE q
  BY <1>2, <1>4, <1>6 DEF Operands
<1>9. CASE p = <<>>
  <2>1. UsableOf(p) = {}
    BY <1>9 DEF UsableOf, Range
  <2>2. UsableOf(Tail(p)) = {}
    <3>1. Tail(p) = <<>>
      BY <1>9
    <3>2. QED
      BY <3>1 DEF UsableOf, Range
  <2>3. QED
    BY <1>5, <1>7, <1>8, <1>9, <2>1, <2>2
<1>10. CASE p # <<>>
  <2>1. q # <<>>
    <3>1. Append(p, blank) # <<>>
      BY <1>1, BlankIs
    <3>2. QED
      BY <1>3, <1>10, <3>1 DEF Adds
  <2>2. QED
    BY <1>5, <1>7, <1>8, <1>10, <2>1
<1>11. QED
  BY <1>9, <1>10

\* Of an unnamed word nothing is read, and to none a `cd` leads.
LEMMA UnknownReadsNothing ==
  ASSUME NEW blank \in Blank, NEW w \in Seq(AnyWord)
  PROVE  /\ FilesRead(Append(w, blank)) = FilesRead(w)
         /\ w # <<>> /\ ChangesTo(w) = {} => ChangesTo(Append(w, blank)) = {}
<1>1. PICK u \in AnyWord : u = blank
  BY BlankIs
<1>2. PICK v : v = Append(w, u)
  OBVIOUS
<1>3. PICK r \in Seq(AnyWord) : r = Run(w)
  BY RunIs
<1>4. PICK n \in Nat : n = Len(r) /\ DOMAIN r = 1..n
  OBVIOUS
<1>5. Run(v) = r \/ Run(v) = Append(r, u)
  BY <1>1, <1>2, <1>3, RunLonger
<1>6. UsableOf(OperandsOf(Append(r, u))) = UsableOf(OperandsOf(r))
  <2>1. CASE r = <<>>
    <3>1. Append(r, u) = <<u>>
      BY <2>1
    <3>2. Head(<<u>>) = u /\ u \notin Reader
      BY <1>1, BlankIs
    <3>3. OperandsOf(Append(r, u)) = <<>> /\ OperandsOf(r) = <<>>
      BY <2>1, <3>1, <3>2 DEF OperandsOf
    <3>4. QED
      BY <3>3
  <2>2. CASE r # <<>>
    <3>0. Tail(r) \in Seq(AnyWord)
      BY <2>2
    <3>1. PICK args \in Seq(AnyWord) : args = Tail(r)
      BY <3>0
    <3>2. PICK c : c = Head(r)
      OBVIOUS
    <3>3. Append(r, u) # <<>> /\ Head(Append(r, u)) = c
      BY <2>2, <3>2
    <3>4. Tail(Append(r, u)) = Append(args, u)
      BY <2>2, <3>1
    <3>5. OperandsOf(Append(r, u)) = IF c \in Reader THEN Operands(c, Append(args, u)) ELSE <<>>
      BY <3>3, <3>4 DEF OperandsOf
    <3>6. OperandsOf(r) = IF c \in Reader THEN Operands(c, args) ELSE <<>>
      BY <2>2, <3>1, <3>2 DEF OperandsOf
    <3>7. UsableOf(Operands(c, Append(args, u))) = UsableOf(Operands(c, args))
      BY <1>1, <3>1, OperandsLonger
    <3>8. QED
      BY <3>5, <3>6, <3>7
  <2>3. QED
    BY <2>1, <2>2
<1>7. UsableOf(OperandsOf(Run(v))) = UsableOf(OperandsOf(Run(w)))
  BY <1>3, <1>5, <1>6
<1>8. FromFiles(v) = FromFiles(w)
  <2>1. PICK m \in Nat : m = Len(w) /\ DOMAIN w = 1..m
    OBVIOUS
  <2>2. /\ DOMAIN v = 1..m + 1 /\ v[m + 1] = u
        /\ \A i \in 1..m : v[i] = w[i]
    BY <1>2, <2>1
  <2>3. ~Usable(u)
    BY <1>1, BlankIs
  <2>4. ASSUME NEW k
        PROVE  (k \in DOMAIN v /\ v[k] = "<" /\ k + 1 \in DOMAIN v /\ Usable(v[k + 1])) <=>
               (k \in DOMAIN w /\ w[k] = "<" /\ k + 1 \in DOMAIN w /\ Usable(w[k + 1]))
    <3>1. CASE k \in 1..m /\ k + 1 \in 1..m
      <4>1. k \in 1..m + 1 /\ k + 1 \in 1..m + 1
        BY <3>1
      <4>2. QED
        BY <2>1, <2>2, <3>1, <4>1
    <3>2. CASE ~(k \in 1..m /\ k + 1 \in 1..m)
      <4>1. k \in 1..m + 1 /\ k + 1 \in 1..m + 1 => k + 1 = m + 1
        BY <3>2
      <4>2. QED
        BY <2>1, <2>2, <2>3, <3>2, <4>1
    <3>3. QED
      BY <3>1, <3>2
  <2>5. PICK I : I = {k \in DOMAIN w : w[k] = "<" /\ k + 1 \in DOMAIN w /\ Usable(w[k + 1])}
    OBVIOUS
  <2>6. I = {k \in DOMAIN v : v[k] = "<" /\ k + 1 \in DOMAIN v /\ Usable(v[k + 1])}
    BY <2>4, <2>5
  <2>7. \A i \in I : v[i + 1] = w[i + 1]
    BY <2>1, <2>2, <2>5
  <2>8. FromFiles(v) = {v[i + 1] : i \in I} /\ FromFiles(w) = {w[i + 1] : i \in I}
    BY <2>5, <2>6 DEF FromFiles
  <2>9. QED
    BY <2>7, <2>8
<1>9. FilesRead(v) = FilesRead(w)
  BY <1>7, <1>8, FilesReadAre
<1>10. ASSUME ChangesTo(w) = {} PROVE ChangesTo(v) = {}
  <2>1. ~(Len(r) > 1 /\ Head(r) = "cd" /\ Usable(r[2]))
    BY <1>3, <1>10, ChangesToAre
  <2>2. PICK s : s = Append(r, u)
    OBVIOUS
  <2>3. ~(Len(s) > 1 /\ Head(s) = "cd" /\ Usable(s[2]))
    <3>1. Len(s) = n + 1 /\ s[n + 1] = u /\ \A i \in 1..n : s[i] = r[i]
      BY <1>4, <2>2
    <3>2. CASE n > 1
      <4>1. Head(s) = Head(r) /\ s[2] = r[2]
        BY <1>4, <2>2, <3>1, <3>2
      <4>2. QED
        BY <1>4, <2>1, <3>2, <4>1
    <3>3. CASE n = 1
      <4>1. s[2] = u
        BY <3>1, <3>3
      <4>2. QED
        BY <1>1, <4>1, BlankIs
    <3>4. CASE n = 0
      BY <3>1, <3>4
    <3>5. QED
      BY <1>4, <3>2, <3>3, <3>4
  <2>4. Run(v) = r \/ Run(v) = s
    BY <1>5, <2>2
  <2>5. QED
    BY <2>1, <2>3, <2>4, ChangesToAre
<1>11. QED
  BY <1>1, <1>2, <1>9, <1>10

\* No command has no operands.
LEMMA OperandsOfNone == OperandsOf(<<>>) = <<>> /\ UsableOf(<<>>) = {}
BY DEF OperandsOf, UsableOf, Range

\* A command alone has no operands.
LEMMA OperandsOfOne ==
  ASSUME NEW x
  PROVE  OperandsOf(<<x>>) = <<>>
<1>1. <<x>> # <<>> /\ Head(<<x>>) = x /\ Tail(<<x>>) = <<>>
  OBVIOUS
<1>2. PICK none \in Seq(AnyWord) : none = <<>> /\ Len(none) = 0
  <2>1. <<>> \in Seq(AnyWord) /\ Len(<<>>) = 0
    OBVIOUS
  <2>2. QED
    BY <2>1
<1>3. Positionals(x, none) = <<>>
  <2>1. PICK f : IsReading(f, x, none) /\ Positionals(x, none) = f[1]
    BY PositionalsAre
  <2>2. f[1] = PositionalFrom(x, none, f, 1)
    BY <1>2, <2>1 DEF IsReading
  <2>3. PositionalFrom(x, none, f, 1) = <<>>
    BY <1>2 DEF PositionalFrom
  <2>4. QED
    BY <2>1, <2>2, <2>3
<1>4. Operands(x, <<>>) = <<>>
  BY <1>2, <1>3 DEF Operands
<1>5. QED
  BY <1>1, <1>4 DEF OperandsOf

\* A single word reads nothing and leads nowhere.
LEMMA FewReadNothing ==
  ASSUME NEW w \in Seq(AnyWord), Len(w) <= 1
  PROVE  FilesRead(w) = {} /\ ChangesTo(w) = {}
<1>1. Run(w) = <<>> \/ \E x : Run(w) = <<x>>
  <2>1. CASE Len(w) = 0
    <3>1. w = <<>>
      BY <2>1
    <3>2. QED
      BY <3>1, RunOfNone
  <2>2. CASE Len(w) = 1
    <3>1. PICK x \in AnyWord : x = w[1]
      BY <2>2
    <3>2. w = <<x>>
      BY <2>2, <3>1
    <3>3. QED
      BY <3>2, RunOfOne
  <2>3. Len(w) = 0 \/ Len(w) = 1
    <3>1. PICK l : l = Len(w)
      OBVIOUS
    <3>2. l \in Nat /\ l <= 1
      BY <3>1
    <3>3. l = 0 \/ l = 1
      BY <3>2
    <3>4. QED
      BY <3>1, <3>3
  <2>4. QED
    BY <2>1, <2>2, <2>3
<1>2. OperandsOf(Run(w)) = <<>>
  BY <1>1, OperandsOfNone, OperandsOfOne
<1>3. FromFiles(w) = {}
  <2>1. \A k \in DOMAIN w : k + 1 \notin DOMAIN w
    OBVIOUS
  <2>2. {k \in DOMAIN w : w[k] = "<" /\ k + 1 \in DOMAIN w /\ Usable(w[k + 1])} = {}
    BY <2>1
  <2>3. QED
    BY <2>2 DEF FromFiles
<1>4. FilesRead(w) = {}
  BY <1>2, <1>3, FilesReadAre, OperandsOfNone
<1>5. ~(Len(Run(w)) > 1)
  <2>1. CASE Run(w) = <<>>
    BY <2>1
  <2>2. ASSUME NEW x, Run(w) = <<x>> PROVE ~(Len(Run(w)) > 1)
    <3>1. Len(<<x>>) = 1
      OBVIOUS
    <3>2. QED
      BY <2>2, <3>1
  <2>3. QED
    BY <1>1, <2>1, <2>2
<1>6. QED
  BY <1>4, <1>5, ChangesToAre

\* All the words are picked in their order.
LEMMA PickAll ==
  ASSUME NEW w \in Seq(AnyWord)
  PROVE  Pick(w, DOMAIN w) = w
<1>1. PICK n \in Nat : n = Len(w) /\ DOMAIN w = 1..n
  OBVIOUS
<1>2. Cardinality(1..n) = n
  BY FS_Interval
<1>3. ASSUME NEW i \in 1..n PROVE PlaceOf(1..n, i) = i
  <2>1. ASSUME NEW k \in 1..n PROVE Cardinality(UpTo(1..n, k)) = k
    <3>1. UpTo(1..n, k) = 1..k
      <4>1. \A j : j \in 1..n /\ j <= k <=> j \in 1..k
        OBVIOUS
      <4>2. QED
        BY <4>1 DEF UpTo
    <3>2. QED
      BY <3>1, FS_Interval
  <2>2. \A k : k \in Nth(1..n, i) <=> k \in 1..n /\ k = i
    BY <2>1, NthCounts
  <2>3. Nth(1..n, i) = {i}
    BY <2>2
  <2>4. QED
    BY <2>3, PlaceOfOne
<1>4. PICK p : p = Pick(w, DOMAIN w)
  OBVIOUS
<1>5. p = [i \in 1..n |-> w[PlaceOf(1..n, i)]]
  BY <1>1, <1>2, <1>4, PickPlaces
<1>6. p = [i \in 1..n |-> w[i]]
  BY <1>3, <1>5
<1>7. w = [i \in 1..n |-> w[i]]
  BY <1>1
<1>8. QED
  BY <1>4, <1>6, <1>7

\* What is behind the first of one word and of two.
LEMMA OneWord ==
  ASSUME NEW r \in Seq(AnyWord), Len(r) = 1
  PROVE  Range(Tail(r)) = {}
<1>1. PICK x \in AnyWord : r = <<x>>
  <2>1. PICK n \in Nat : n = Len(r) /\ DOMAIN r = 1..n /\ n = 1
    OBVIOUS
  <2>2. PICK x \in AnyWord : x = r[1]
    BY <2>1
  <2>3. r = <<x>>
    BY <2>1, <2>2
  <2>4. QED
    BY <2>3
<1>2. Tail(r) = <<>>
  BY <1>1
<1>3. QED
  BY <1>2 DEF Range

LEMMA TwoWords ==
  ASSUME NEW r \in Seq(AnyWord), Len(r) = 2
  PROVE  /\ r[2] \in AnyWord /\ Tail(r) = <<r[2]>> /\ Tail(r) \in Seq(AnyWord)
         /\ DOMAIN Tail(r) = 1..1 /\ Range(Tail(r)) = {r[2]}
<1>1. PICK t : t = Tail(r)
  OBVIOUS
<1>2. PICK n \in Nat : n = Len(r) /\ DOMAIN r = 1..n /\ n = 2
  OBVIOUS
<1>3. PICK x \in AnyWord : x = r[2]
  <2>1. 2 \in DOMAIN r
    BY <1>2
  <2>2. r[2] \in AnyWord
    BY <2>1
  <2>3. QED
    BY <2>2
<1>4. t \in Seq(AnyWord) /\ Len(t) = 1 /\ t[1] = x
  <2>1. t \in Seq(AnyWord) /\ Len(t) = n - 1
    <3>1. r # <<>>
      <4>1. Len(<<>>) = 0
        OBVIOUS
      <4>2. ASSUME r = <<>> PROVE n = 0
        BY <1>2, <4>1, <4>2, Zenon
      <4>3. QED
        BY <1>2, <4>2
    <3>2. Tail(r) \in Seq(AnyWord) /\ Len(Tail(r)) = n - 1
      BY <1>2, <3>1
    <3>3. QED
      BY <1>1, <3>2
  <2>2. \A i \in 1..n - 1 : t[i] = r[i + 1]
    BY <1>1, <1>2
  <2>3. 1 \in 1..n - 1 /\ 1 + 1 = 2
    BY <1>2
  <2>4. t[1] = x
    BY <1>3, <2>2, <2>3
  <2>5. QED
    BY <1>2, <2>1, <2>4
<1>5. DOMAIN t = 1..1
  BY <1>4
<1>6. t = <<x>>
  BY <1>4
<1>7. Range(t) = {x}
  BY <1>4, <1>5 DEF Range
<1>8. QED
  BY <1>1, <1>3, <1>4, <1>5, <1>6, <1>7

\* A `cd` that nothing is in front of runs as it is written.
LEMMA CdRuns ==
  ASSUME NEW p \in Seq(AnyWord), p # <<>>, Head(p) = "cd"
  PROVE  Command(p) = p
<1>1. p[1] = "cd" /\ "cd" # "env"
  OBVIOUS
<1>2. \A i \in DOMAIN p : ~Skipped(p, i)
  BY <1>1 DEF Skipped
<1>3. {i \in DOMAIN p : ~Skipped(p, i)} = DOMAIN p
  BY <1>2
<1>4. QED
  BY <1>3, PickAll DEF Command

\* A quirk that is not noted has not happened.
LEMMA NotSo ==
  ASSUME NEW cond, NEW name, If(cond, name) = {}
  PROVE  ~cond
BY DEF If

\* A `cd` that is not misread leads where the shell goes.
LEMMA LandedIs ==
  ASSUME NEW w \in Seq(AnyWord), MisreadCd(w) = {}, NEW dir
  PROVE  Landed(dir, w) = Enter(dir, ChangesTo(w))
<1>1. PICK p \in Seq(AnyWord) : p = Plain(w)
  BY PlainIs
<1>2. PICK r \in Seq(AnyWord) : r = Command(p)
  BY CommandIs
<1>3. PICK args : args = Tail(p)
  OBVIOUS
<1>4. PICK dirs : dirs = Pick(args, {i \in DOMAIN args : \E k \in 1..i : args[k] # "opt"})
  OBVIOUS
<1>5. Landed(dir, w) =
        IF p = <<>> \/ Head(p) # "cd" \/ Len(dirs) > 1 THEN dir
        ELSE CASE dirs = <<>>        -> <<"home">>
               [] dirs = <<Unknown>> -> <<Unknown>>
               [] OTHER              -> IF Usable(dirs[1]) THEN Append(dir, dirs[1]) ELSE dir
  BY <1>1, <1>3, <1>4 DEF Landed
<1>6. ChangesTo(w) = IF Len(r) > 1 /\ Head(r) = "cd" /\ Usable(r[2]) THEN {r[2]} ELSE {}
  BY <1>1, <1>2 DEF ChangesTo
<1>7. Enter(dir, {}) = dir /\ \A x : Enter(dir, {x}) = Append(dir, x)
  <2>1. \A x : (CHOOSE d \in {x} : TRUE) = x
    OBVIOUS
  <2>2. QED
    BY <2>1 DEF Enter
<1>8. CASE r = <<>> \/ Head(r) # "cd"
  <2>1. p = <<>> \/ Head(p) # "cd"
    BY <1>2, <1>8, CdRuns
  <2>2. Landed(dir, w) = dir
    BY <1>5, <2>1
  <2>3. ChangesTo(w) = {}
    <3>1. CASE r = <<>>
      <4>1. ~(Len(r) > 1)
        BY <3>1
      <4>2. QED
        BY <1>6, <4>1
    <3>2. CASE Head(r) # "cd"
      BY <1>6, <3>2
    <3>3. QED
      BY <1>8, <3>1, <3>2
  <2>4. QED
    BY <1>7, <2>2, <2>3
<1>9. CASE r # <<>> /\ Head(r) = "cd"
  <2>1. PICK others : others = Range(Tail(r))
    OBVIOUS
  <2>2. /\ If(Head(p) # "cd", "cd behind a wrapper") = {}
        /\ If("opt" \in others, "cd with an option") = {}
        /\ If(others = {}, "cd to the home directory") = {}
        /\ If(Len(r) > 2, "cd with two operands") = {}
        /\ If(Unknown \in others, "cd with a substitution") = {}
    BY <1>1, <1>2, <1>9, <2>1 DEF MisreadCd
  <2>3. /\ Head(p) = "cd" /\ "opt" \notin others /\ others # {} /\ ~(Len(r) > 2)
        /\ Unknown \notin others
    BY <2>2, NotSo
  <2>4. p # <<>>
    BY <1>2, <1>9, RunOfNone
  <2>5. r = p
    BY <1>2, <2>3, <2>4, CdRuns
  <2>6. Len(r) = 2
    <3>1. PICK n \in Nat : n = Len(r)
      OBVIOUS
    <3>2. n > 0 /\ ~(n > 2)
      BY <1>9, <2>3, <3>1
    <3>3. n # 1
      BY <2>1, <2>3, <3>1, OneWord
    <3>4. QED
      BY <3>1, <3>2, <3>3
  <2>7. args = Tail(r)
    BY <1>3, <2>5
  <2>9. PICK x \in AnyWord : x = r[2]
    BY <2>6, TwoWords
  <2>10. args \in Seq(AnyWord) /\ DOMAIN args = 1..1 /\ args = <<x>> /\ others = {x}
    BY <2>1, <2>6, <2>7, <2>9, TwoWords
  <2>11. args[1] = x
    BY <2>10
  <2>12. x # "opt" /\ x # Unknown
    BY <2>3, <2>10
  <2>13. {i \in DOMAIN args : \E k \in 1..i : args[k] # "opt"} = DOMAIN args
    <3>1. \A i \in DOMAIN args : i = 1 /\ 1 \in 1..i /\ args[1] # "opt"
      BY <2>10, <2>11, <2>12
    <3>2. QED
      BY <3>1
  <2>14. dirs = args
    BY <1>4, <2>10, <2>13, PickAll
  <2>15. dirs # <<>> /\ ~(Len(dirs) > 1) /\ dirs # <<Unknown>> /\ dirs[1] = x
    <3>1. <<x>> # <<>> /\ ~(Len(<<x>>) > 1) /\ <<x>>[1] = x /\ <<Unknown>>[1] = Unknown
      OBVIOUS
    <3>2. QED
      BY <2>10, <2>12, <2>14, <3>1
  <2>16. Landed(dir, w) = IF Usable(x) THEN Append(dir, x) ELSE dir
    BY <1>5, <2>3, <2>4, <2>12, <2>15
  <2>17. ChangesTo(w) = IF Usable(x) THEN {x} ELSE {}
    BY <1>6, <1>9, <2>6, <2>9
  <2>18. QED
    BY <1>7, <2>16, <2>17
<1>10. QED
  BY <1>8, <1>9

\* Every word is a redirection, or what one is from or to.
AllRedirected(words) == \A i \in DOMAIN words : ~IsPlain(words, i)

\* The redirections of a subshell are all that its command is for the scanner.
LEMMA RedirectedAlone ==
  ASSUME NEW w \in Seq(AnyWord), AllRedirected(w)
  PROVE  /\ FilesRead(<<Parens>> \o w) = FilesRead(w)
         /\ ChangesTo(<<Parens>> \o w) = {} /\ ChangesTo(w) = {}
<1>1. PICK p \in AnyWord : p = Parens /\ p \notin Redirection /\ p \notin Reader /\ p # "cd"
  BY WordsDiffer
<1>2. PICK n \in Nat : n = Len(w) /\ DOMAIN w = 1..n
  OBVIOUS
<1>3. PICK v : v = <<p>> \o w
  OBVIOUS
<1>4. /\ v \in Seq(AnyWord) /\ DOMAIN v = 1..n + 1 /\ v[1] = p
      /\ \A i \in 1..n : v[i + 1] = w[i]
  <2>1. <<p>> \in Seq(AnyWord) /\ Len(<<p>>) = 1
    OBVIOUS
  <2>2. v \in Seq(AnyWord) /\ Len(v) = n + 1
    BY <1>2, <1>3, <2>1
  <2>3. QED
    BY <1>2, <1>3, <2>1, <2>2
<1>5. Plain(w) = <<>>
  <2>1. {i \in DOMAIN w : IsPlain(w, i)} = {}
    BY DEF AllRedirected
  <2>2. Plain(w) = Pick(w, {})
    BY <2>1 DEF Plain
  <2>3. QED
    BY <2>2, PickNone
<1>6. Plain(v) = <<p>>
  <2>1. IsPlain(v, 1)
    BY <1>1, <1>4 DEF IsPlain
  <2>2. ASSUME NEW i \in 1..n PROVE ~IsPlain(v, i + 1)
    <3>1. ~IsPlain(w, i)
      BY <1>2 DEF AllRedirected
    <3>2. CASE i = 1
      BY <1>4, <3>1, <3>2 DEF IsPlain
    <3>3. CASE i # 1
      <4>1. i - 1 \in 1..n /\ (i - 1) + 1 = i /\ (i + 1) - 1 = i
        BY <3>3
      <4>2. v[i] = w[i - 1] /\ v[i + 1] = w[i]
        BY <1>4, <4>1
      <4>3. QED
        BY <3>1, <3>3, <4>1, <4>2 DEF IsPlain
    <3>4. QED
      BY <3>2, <3>3
  <2>3. \A i \in 1..n + 1 : i = 1 \/ \E j \in 1..n : i = j + 1
    <3>1. SUFFICES ASSUME NEW i \in 1..n + 1, i # 1 PROVE \E j \in 1..n : i = j + 1
      OBVIOUS
    <3>2. i - 1 \in 1..n /\ i = (i - 1) + 1
      BY <1>2, <3>1
    <3>3. QED
      BY <3>2
  <2>4. 1 \in 1..n + 1
    BY <1>2
  <2>5. {i \in DOMAIN v : IsPlain(v, i)} = {1}
    BY <1>4, <2>1, <2>2, <2>3, <2>4
  <2>6. Plain(v) = Pick(v, {1})
    BY <2>5 DEF Plain
  <2>7. Pick(v, {1}) = <<v[1]>>
    BY <1>4, <2>4, PickOne
  <2>8. QED
    BY <1>4, <2>6, <2>7
<1>7. Run(w) = <<>>
  BY <1>5, RunOfNone DEF Run
<1>8. Run(v) \in {<<>>, <<p>>}
  <2>1. PICK e \in Seq(AnyWord) : e = <<>> /\ Append(e, p) = <<p>>
    <3>1. <<>> \in Seq(AnyWord) /\ Append(<<>>, p) = <<p>>
      OBVIOUS
    <3>2. QED
      BY <3>1
  <2>2. Command(Append(e, p)) \in {Command(e), Append(Command(e), p)}
    BY CommandLonger
  <2>3. Command(e) = e
    BY <2>1, RunOfNone
  <2>4. QED
    BY <1>6, <2>1, <2>2, <2>3 DEF Run
<1>9. OperandsOf(Run(v)) = <<>> /\ OperandsOf(Run(w)) = <<>>
  BY <1>7, <1>8, OperandsOfNone, OperandsOfOne
<1>10. FromFiles(v) = FromFiles(w)
  <2>1. v[1] # "<"
    BY <1>1, <1>4 DEF Redirection
  <2>2. ASSUME NEW x \in FromFiles(v) PROVE x \in FromFiles(w)
    <3>1. PICK k \in DOMAIN v : /\ v[k] = "<" /\ k + 1 \in DOMAIN v /\ Usable(v[k + 1])
                                /\ x = v[k + 1]
      BY DEF FromFiles
    <3>2. k # 1 /\ k \in 1..n + 1 /\ k + 1 \in 1..n + 1
      BY <1>4, <2>1, <3>1
    <3>3. PICK j \in 1..n : k = j + 1 /\ j + 1 \in 1..n
      <4>1. k - 1 \in 1..n /\ k = (k - 1) + 1 /\ (k - 1) + 1 \in 1..n
        BY <1>2, <3>2
      <4>2. QED
        BY <4>1
    <3>4. v[k] = w[j] /\ v[k + 1] = w[j + 1]
      BY <1>4, <3>3
    <3>5. QED
      BY <1>2, <3>1, <3>3, <3>4 DEF FromFiles
  <2>3. ASSUME NEW x \in FromFiles(w) PROVE x \in FromFiles(v)
    <3>1. PICK k \in DOMAIN w : /\ w[k] = "<" /\ k + 1 \in DOMAIN w /\ Usable(w[k + 1])
                                /\ x = w[k + 1]
      BY DEF FromFiles
    <3>2. PICK j : j = k + 1
      OBVIOUS
    <3>3. j \in 1..n + 1 /\ j + 1 \in 1..n + 1
      BY <1>2, <3>1, <3>2
    <3>4. v[j] = w[k] /\ v[j + 1] = w[k + 1]
      BY <1>2, <1>4, <3>1, <3>2
    <3>5. QED
      BY <1>4, <3>1, <3>3, <3>4 DEF FromFiles
  <2>4. QED
    BY <2>2, <2>3
<1>11. FilesRead(v) = FilesRead(w)
  BY <1>9, <1>10, FilesReadAre
<1>12. ~(Len(Run(v)) > 1) /\ ~(Len(Run(w)) > 1)
  <2>1. Len(<<>>) = 0 /\ Len(<<p>>) = 1
    OBVIOUS
  <2>2. QED
    BY <1>7, <1>8, <2>1, SMTT(40)
<1>13. QED
  BY <1>1, <1>3, <1>11, <1>12, ChangesToAre

-----------------------------------------------------------------------------
(***************************************************************************)
(* The frames and the states of the scanner of a line.                     *)
(***************************************************************************)
\* What is a sequence, of whatever.
IsSeq(s) == s \in Seq({s[i] : i \in DOMAIN s})

ScanFields == {"words", "word", "quoted", "stack", "pending", "skip", "row", "base", "out"}
FrameFields == {"via", "cwd", "words", "word", "quoted", "piped", "substituted"}
ShellFields == {"frames", "pending", "skip", "row", "read"}

ScanTyped(b) ==
  /\ DOMAIN b = ScanFields
  /\ b.words \in Seq(AnyWord) /\ b.word \in AnyWord \cup {NoWord} /\ b.quoted \in BOOLEAN
  /\ b.stack \in Seq(BOOLEAN) /\ b.pending \in Seq(AnyWord)

FrameTyped(f) ==
  /\ DOMAIN f = FrameFields
  /\ f.via \in {"line", "paren", "subst"}
  /\ f.words \in Seq(AnyWord) /\ f.word \in AnyWord \cup {NoWord}
  /\ f.quoted \in BOOLEAN /\ f.piped \in BOOLEAN /\ f.substituted \in BOOLEAN

\* What the scanner has of the command the shell is at.
Follows(b, f) ==
  /\ b.quoted = f.quoted
  /\ ~f.quoted => b.word = NoWord /\ f.word = NoWord
  /\ \/ ~f.substituted /\ b.words = f.words /\ b.word = f.word
     \/ ~f.substituted /\ ~f.quoted /\ f.words = <<Parens>> \o b.words /\ AllRedirected(b.words)
     \/ /\ f.substituted /\ f.words # <<>> /\ ChangesTo(f.words) = {} /\ Len(b.words) <= 1
        /\ f.quoted => f.word = Unknown /\ b.words = <<>>

\* A command that waits for a substitution, or for parentheses, to end.
Waits(f, via) ==
  /\ ~f.substituted /\ (f.word = NoWord \/ (f.quoted /\ f.word = Empty))
  /\ via = "subst" => f.words # <<>> /\ ChangesTo(f.words) = {}
  /\ via # "subst" => f.words = <<>> /\ ~f.quoted

\* Where no `cd` is followed all frames are in the directory of the scanner.
Framed(frames, base) ==
  /\ IsSeq(frames) /\ Len(frames) > 0
  /\ \A i \in 1..Len(frames) : FrameTyped(frames[i]) /\ frames[i].cwd = base
  /\ \A i \in 1..Len(frames) : frames[i].via = "line" <=> i = 1
  /\ \A i \in 1..Len(frames) - 1 : Waits(frames[i], frames[i + 1].via)

\* The stack of the scanner has an entry for each substitution that is open.
Levels(quotes, frames, level) ==
  /\ level \in [1..Len(frames) -> Nat]
  /\ level[1] = 0 /\ level[Len(frames)] = Len(quotes)
  /\ \A i, j \in 1..Len(frames) : i <= j => level[i] <= level[j]
  /\ \A i \in 1..Len(frames) : level[i] > 0 => \E j \in 1..i : frames[j].via = "subst"
  /\ \A i \in 1..Len(frames) - 1 :
       frames[i + 1].via = "subst" => /\ level[i + 1] = level[i] + 1
                                      /\ quotes[level[i + 1]] = frames[i].quoted

Stacked(quotes, frames) == \E level : Levels(quotes, frames, level)

ReadBelow(frames) == UNION {Reads(frames[i]) : i \in 1..Len(frames) - 1}
ReadAtTop(f) == IF f.substituted THEN Reads(f) ELSE {}

TagNoted(b) ==
  /\ (Len(b.words) > 1 /\ b.words[Len(b.words) - 1] = "<<") =>
       b.pending # <<>> /\ Last(b.pending) = Last(b.words)
  /\ b.quoted => b.words = <<>> \/ Last(b.words) # "<<"

Beside(b, s) ==
  /\ ScanTyped(b) /\ DOMAIN s = ShellFields
  /\ Framed(s.frames, b.base) /\ Stacked(b.stack, s.frames)
  /\ Follows(b, Last(s.frames)) /\ TagNoted(b)
  /\ b.out = s.read \cup ReadBelow(s.frames) \cup ReadAtTop(Last(s.frames))
  /\ b.pending = s.pending /\ b.skip = s.skip /\ b.row = s.row

LineInv == quirks = {} => Beside(scan, shell)

-----------------------------------------------------------------------------
\* Frames: the last one is replaced, one is put behind it, and two become one.
IsReplaced(t, fr, g) ==
  /\ IsSeq(t) /\ Len(fr) \in Nat /\ Len(t) = Len(fr) /\ Last(t) = g /\ t[Len(fr)] = g
  /\ Last(fr) = fr[Len(fr)]
  /\ \A i \in 1..Len(fr) - 1 : t[i] = fr[i]

IsPushed(t, fr, g) ==
  /\ IsSeq(t) /\ Len(fr) \in Nat /\ Len(t) = Len(fr) + 1 /\ Last(t) = g
  /\ t[Len(fr) + 1] = g
  /\ Last(fr) = fr[Len(fr)]
  /\ \A i \in 1..Len(fr) : t[i] = fr[i]

IsPopped(t, fr, g) ==
  /\ IsSeq(t) /\ Len(fr) \in Nat /\ Len(t) = Len(fr) - 1 /\ Last(t) = g
  /\ t[Len(fr) - 1] = g
  /\ Last(fr) = fr[Len(fr)] /\ Last(Front(fr)) = fr[Len(fr) - 1]
  /\ DOMAIN Front(fr) = 1..Len(fr) - 1
  /\ \A i \in 1..Len(fr) - 1 : Front(fr)[i] = fr[i]
  /\ \A i \in 1..Len(fr) - 2 : t[i] = fr[i]

\* The innermost frame is replaced, and the others stay.
LEMMA TopReplaced ==
  ASSUME NEW fr, IsSeq(fr), Len(fr) > 0, NEW g, NEW t, t = Append(Front(fr), g)
  PROVE  IsReplaced(t, fr, g)
<1>1. PICK S : S = {fr[i] : i \in DOMAIN fr}
  OBVIOUS
<1>2. fr \in Seq(S) /\ fr \in Seq(S \cup {g})
  BY <1>1 DEF IsSeq
<1>3. PICK n \in Nat : n = Len(fr) /\ n > 0
  BY <1>2
<1>4. PICK b : b = Front(fr)
  OBVIOUS
<1>5. b \in Seq(S \cup {g}) /\ Len(b) = n - 1 /\ \A i \in 1..n - 1 : b[i] = fr[i]
  BY <1>2, <1>3, <1>4 DEF Front
<1>6. t \in Seq(S \cup {g}) /\ Len(t) = n /\ t[n] = g /\ DOMAIN t = 1..n
  BY <1>3, <1>4, <1>5
<1>7. \A i \in 1..n - 1 : t[i] = fr[i]
  BY <1>3, <1>4, <1>5
<1>8. t \in Seq({t[i] : i \in DOMAIN t})
  <2>1. \A i \in 1..Len(t) : t[i] \in {t[j] : j \in DOMAIN t}
    BY <1>6
  <2>2. QED
    BY <1>6, <2>1
<1>9. QED
  BY <1>3, <1>6, <1>7, <1>8 DEF Last, IsSeq, IsReplaced

\* A frame goes on top, and the others stay.
LEMMA TopPushed ==
  ASSUME NEW fr, IsSeq(fr), Len(fr) > 0, NEW g, NEW t, t = Append(fr, g)
  PROVE  IsPushed(t, fr, g)
<1>1. PICK S : S = {fr[i] : i \in DOMAIN fr}
  OBVIOUS
<1>2. fr \in Seq(S) /\ fr \in Seq(S \cup {g})
  BY <1>1 DEF IsSeq
<1>3. PICK n \in Nat : n = Len(fr) /\ n > 0
  BY <1>2
<1>4. /\ t \in Seq(S \cup {g}) /\ Len(t) = n + 1 /\ t[n + 1] = g /\ DOMAIN t = 1..n + 1
      /\ \A i \in 1..n : t[i] = fr[i]
  BY <1>2, <1>3
<1>5. t \in Seq({t[i] : i \in DOMAIN t})
  <2>1. \A i \in 1..Len(t) : t[i] \in {t[j] : j \in DOMAIN t}
    BY <1>4
  <2>2. QED
    BY <1>4, <2>1, SMTT(40)
<1>6. QED
  BY <1>3, <1>4, <1>5 DEF Last, IsSeq, IsPushed

\* A frame goes, the one below it is replaced, and the others stay.
LEMMA TopPopped ==
  ASSUME NEW fr, IsSeq(fr), Len(fr) > 1, NEW g, NEW t, t = Append(Front(Front(fr)), g)
  PROVE  IsPopped(t, fr, g)
<1>1. PICK S : S = {fr[i] : i \in DOMAIN fr}
  OBVIOUS
<1>2. fr \in Seq(S)
  BY <1>1 DEF IsSeq
<1>3. PICK n \in Nat : n = Len(fr) /\ n > 1
  BY <1>2
<1>4. PICK b : b = Front(fr)
  OBVIOUS
<1>5. b \in Seq(S) /\ Len(b) = n - 1 /\ \A i \in 1..n - 1 : b[i] = fr[i]
  BY <1>2, <1>3, <1>4 DEF Front
<1>6. IsSeq(b) /\ DOMAIN b = 1..n - 1
  <2>1. DOMAIN b = 1..n - 1
    BY <1>3, <1>5
  <2>2. \A i \in 1..Len(b) : b[i] \in {b[j] : j \in DOMAIN b}
    BY <1>5, <2>1
  <2>3. QED
    BY <1>5, <2>1, <2>2 DEF IsSeq
<1>7. /\ IsSeq(t) /\ Len(t) = Len(b) /\ Last(t) = g /\ t[Len(b)] = g
      /\ Last(b) = b[Len(b)]
      /\ \A i \in 1..Len(b) - 1 : t[i] = b[i]
  <2>1. Len(b) > 0
    BY <1>3, <1>5
  <2>5. t = Append(Front(b), g)
    BY <1>4
  <2>2. IsSeq(b)
    BY <1>6
  <2>3. IsReplaced(t, b, g)
    BY <2>1, <2>2, <2>5, TopReplaced
  <2>4. QED
    BY <2>3 DEF IsReplaced
<1>8. n - 1 \in 1..n - 1 /\ \A i \in 1..n - 2 : i \in 1..n - 1 /\ i \in 1..(n - 1) - 1
  BY <1>3
<1>9. QED
  BY <1>2, <1>3, <1>4, <1>5, <1>6, <1>7, <1>8 DEF Last, IsPopped

IsMoved(t, base, q, g, fr) ==
  Framed(t, base) /\ Stacked(q, t) /\ Last(t) = g /\ ReadBelow(t) = ReadBelow(fr)

IsOpened(t, base, q, g, fr) ==
  /\ Framed(t, base) /\ Stacked(q, t) /\ Last(t) = g
  /\ ReadBelow(t) = ReadBelow(fr) \cup Reads(Last(fr))

\* The command at the top moves on.  Only a line's own command changes the directory.
LEMMA FramesMoveOn ==
  ASSUME NEW fr, NEW base, NEW q, Framed(fr, base), Stacked(q, fr),
         NEW g, FrameTyped(g), NEW dir, g.cwd = dir, dir = base \/ Len(fr) = 1,
         g.via = Last(fr).via, NEW t, t = Append(Front(fr), g)
  PROVE  IsMoved(t, dir, q, g, fr)
<1>1. /\ IsSeq(fr) /\ Len(fr) > 0
  BY DEF Framed
<1>2. /\ IsSeq(t) /\ Len(fr) \in Nat /\ Len(t) = Len(fr) /\ Last(t) = g /\ t[Len(fr)] = g
      /\ Last(fr) = fr[Len(fr)]
      /\ \A i \in 1..Len(fr) - 1 : t[i] = fr[i]
  <2>1. IsReplaced(t, fr, g)
    BY <1>1, TopReplaced
  <2>2. QED
    BY <2>1 DEF IsReplaced
<1>3. PICK n \in Nat : n = Len(fr) /\ n > 0
  BY <1>1, <1>2
<1>4. \A i \in 1..n : t[i].via = fr[i].via
  <2>1. \A i \in 1..n : i = n \/ i \in 1..n - 1
    BY <1>3
  <2>2. QED
    BY <1>2, <1>3, <2>1
<1>5. Framed(t, dir)
  <2>1. ASSUME NEW i \in 1..n PROVE FrameTyped(t[i]) /\ t[i].cwd = dir
    <3>1. CASE i = n
      BY <1>2, <1>3, <3>1
    <3>2. CASE i # n
      <4>1. i \in 1..n - 1 /\ n # 1
        BY <3>2
      <4>2. t[i] = fr[i] /\ dir = base
        BY <1>2, <1>3, <4>1
      <4>3. QED
        BY <1>3, <4>2 DEF Framed
    <3>3. QED
      BY <3>1, <3>2
  <2>2. \A i \in 1..n : t[i].via = "line" <=> i = 1
    BY <1>3, <1>4 DEF Framed
  <2>3. ASSUME NEW i \in 1..n - 1 PROVE Waits(t[i], t[i + 1].via)
    <3>1. i \in 1..n /\ i + 1 \in 1..n
      BY <1>3
    <3>2. t[i] = fr[i] /\ t[i + 1].via = fr[i + 1].via
      BY <1>2, <1>3, <1>4, <3>1
    <3>3. Waits(fr[i], fr[i + 1].via)
      BY <1>3 DEF Framed
    <3>4. QED
      BY <3>2, <3>3
  <2>4. QED
    BY <1>2, <1>3, <2>1, <2>2, <2>3 DEF Framed
<1>6. Stacked(q, t)
  <2>1. PICK level : Levels(q, fr, level)
    BY DEF Stacked
  <2>2. Levels(q, t, level)
    <3>1. /\ level \in [1..n -> Nat]
          /\ level[1] = 0 /\ level[n] = Len(q)
          /\ \A i, j \in 1..n : i <= j => level[i] <= level[j]
          /\ \A i \in 1..n : level[i] > 0 => \E j \in 1..i : fr[j].via = "subst"
          /\ \A i \in 1..n - 1 :
               fr[i + 1].via = "subst" => /\ level[i + 1] = level[i] + 1
                                          /\ q[level[i + 1]] = fr[i].quoted
      BY <1>3, <2>1 DEF Levels
    <3>2. ASSUME NEW i \in 1..n, level[i] > 0 PROVE \E j \in 1..i : t[j].via = "subst"
      <4>1. PICK j \in 1..i : fr[j].via = "subst"
        BY <3>1, <3>2
      <4>2. j \in 1..n
        BY <1>3
      <4>3. QED
        BY <1>4, <4>1, <4>2
    <3>3. ASSUME NEW i \in 1..n - 1, t[i + 1].via = "subst"
          PROVE  level[i + 1] = level[i] + 1 /\ q[level[i + 1]] = t[i].quoted
      <4>1. i + 1 \in 1..n /\ t[i] = fr[i]
        BY <1>2, <1>3
      <4>2. fr[i + 1].via = "subst"
        BY <1>4, <3>3, <4>1
      <4>3. QED
        BY <3>1, <4>1, <4>2
    <3>4. QED
      BY <1>2, <1>3, <3>1, <3>2, <3>3 DEF Levels
  <2>3. QED
    BY <2>2 DEF Stacked
<1>7. ReadBelow(t) = ReadBelow(fr)
  <2>1. {Reads(t[i]) : i \in 1..n - 1} = {Reads(fr[i]) : i \in 1..n - 1}
    BY <1>2, <1>3
  <2>2. QED
    BY <1>2, <1>3, <2>1 DEF ReadBelow
<1>8. QED
  BY <1>2, <1>5, <1>6, <1>7 DEF IsMoved

\* A subshell is opened.
LEMMA FramesOpen ==
  ASSUME NEW fr, NEW base, NEW q, Framed(fr, base), Stacked(q, fr), q \in Seq(BOOLEAN),
         NEW g, FrameTyped(g), g.cwd = base, g.via \in {"paren", "subst"},
         Waits(Last(fr), g.via), Last(fr).quoted \in BOOLEAN,
         NEW t, t = Append(fr, g),
         NEW p, p = IF g.via = "subst" THEN Append(q, Last(fr).quoted) ELSE q
  PROVE  IsOpened(t, base, p, g, fr)
<1>1. IsSeq(fr) /\ Len(fr) > 0
  BY DEF Framed
<1>2. /\ IsSeq(t) /\ Len(fr) \in Nat /\ Len(t) = Len(fr) + 1 /\ Last(t) = g
      /\ t[Len(fr) + 1] = g /\ Last(fr) = fr[Len(fr)]
      /\ \A i \in 1..Len(fr) : t[i] = fr[i]
  <2>1. IsPushed(t, fr, g)
    BY <1>1, TopPushed
  <2>2. QED
    BY <2>1 DEF IsPushed
<1>3. PICK n \in Nat : n = Len(fr) /\ n > 0
  BY <1>1, <1>2
<1>4. \A i \in 1..n + 1 : i = n + 1 \/ i \in 1..n
  BY <1>3
<1>5. Framed(t, base)
  <2>1. ASSUME NEW i \in 1..n + 1 PROVE FrameTyped(t[i]) /\ t[i].cwd = base
    <3>1. CASE i = n + 1
      BY <1>2, <1>3, <3>1
    <3>2. CASE i \in 1..n
      BY <1>2, <1>3, <3>2 DEF Framed
    <3>3. QED
      BY <1>4, <3>1, <3>2
  <2>2. ASSUME NEW i \in 1..n + 1 PROVE t[i].via = "line" <=> i = 1
    <3>1. CASE i = n + 1
      BY <1>2, <1>3, <3>1
    <3>2. CASE i \in 1..n
      BY <1>2, <1>3, <3>2 DEF Framed
    <3>3. QED
      BY <1>4, <3>1, <3>2
  <2>3. ASSUME NEW i \in 1..n PROVE Waits(t[i], t[i + 1].via)
    <3>1. CASE i = n
      BY <1>2, <1>3, <3>1
    <3>2. CASE i # n
      <4>1. i \in 1..n - 1 /\ i + 1 \in 1..n
        BY <1>3, <3>2
      <4>2. t[i] = fr[i] /\ t[i + 1] = fr[i + 1]
        BY <1>2, <1>3, <4>1
      <4>3. Waits(fr[i], fr[i + 1].via)
        BY <1>3, <4>1 DEF Framed
      <4>4. QED
        BY <4>2, <4>3
    <3>3. QED
      BY <3>1, <3>2
  <2>4. Len(t) = n + 1 /\ (n + 1) - 1 = n
    BY <1>2, <1>3
  <2>5. QED
    BY <1>2, <2>1, <2>2, <2>3, <2>4 DEF Framed
<1>6. Stacked(p, t)
  <2>1. PICK level : Levels(q, fr, level)
    BY DEF Stacked
  <2>2. /\ level \in [1..n -> Nat]
        /\ level[1] = 0 /\ level[n] = Len(q)
        /\ \A i, j \in 1..n : i <= j => level[i] <= level[j]
        /\ \A i \in 1..n : level[i] > 0 => \E j \in 1..i : fr[j].via = "subst"
        /\ \A i \in 1..n - 1 :
             fr[i + 1].via = "subst" => /\ level[i + 1] = level[i] + 1
                                        /\ q[level[i + 1]] = fr[i].quoted
    BY <1>3, <2>1 DEF Levels
  <2>3. PICK l \in Nat : l = Len(q)
    OBVIOUS
  <2>4. PICK m \in Nat : m = IF g.via = "subst" THEN l + 1 ELSE l
    OBVIOUS
  <2>5. PICK up : up = [i \in 1..n + 1 |-> IF i = n + 1 THEN m ELSE level[i]]
    OBVIOUS
  <2>6. up[n + 1] = m /\ \A i \in 1..n : up[i] = level[i]
    <3>1. n + 1 \in 1..n + 1
      BY <1>3
    <3>2. \A i \in 1..n : i \in 1..n + 1 /\ i # n + 1
      BY <1>3
    <3>3. QED
      BY <2>5, <3>1, <3>2
  <2>7. Len(p) = m /\ (g.via = "subst" => p[m] = fr[n].quoted) /\ \A i \in 1..l : p[i] = q[i]
    BY <1>2, <1>3, <2>3, <2>4
  <2>8. \A i \in 1..n : level[i] \in 0..l
    <3>1. n \in 1..n
      BY <1>3
    <3>2. \A i \in 1..n : i <= n
      OBVIOUS
    <3>3. QED
      BY <2>2, <2>3, <3>1, <3>2
  <2>9. up \in [1..n + 1 -> Nat]
    <3>1. \A i \in 1..n + 1 : up[i] \in Nat
      BY <1>4, <2>2, <2>6
    <3>2. QED
      BY <2>5, <3>1
  <2>10. up[1] = 0
    <3>1. 1 \in 1..n
      BY <1>3
    <3>2. QED
      BY <2>2, <2>6, <3>1
  <2>11. ASSUME NEW i \in 1..n + 1, NEW j \in 1..n + 1, i <= j PROVE up[i] <= up[j]
    <3>1. CASE j = n + 1
      <4>1. up[i] <= m
        BY <1>4, <2>4, <2>6, <2>8
      <4>2. QED
        BY <2>6, <3>1, <4>1
    <3>2. CASE j # n + 1
      <4>1. i \in 1..n /\ j \in 1..n
        BY <1>3, <2>11, <3>2
      <4>2. QED
        BY <2>2, <2>6, <2>11, <4>1
    <3>3. QED
      BY <3>1, <3>2
  <2>12. ASSUME NEW i \in 1..n + 1, up[i] > 0 PROVE \E j \in 1..i : t[j].via = "subst"
    <3>1. CASE i = n + 1 /\ g.via = "subst"
      <4>1. t[i].via = "subst" /\ i \in 1..i
        BY <1>2, <1>3, <3>1
      <4>2. QED
        BY <4>1
    <3>2. CASE ~(i = n + 1 /\ g.via = "subst")
      <4>1. PICK k \in 1..n : k <= i /\ level[k] > 0
        <5>1. CASE i = n + 1
          <6>1. n \in 1..n /\ n <= i /\ level[n] > 0
            BY <1>3, <2>2, <2>3, <2>4, <2>6, <2>12, <3>2, <5>1
          <6>2. QED
            BY <6>1
        <5>2. CASE i # n + 1
          <6>1. i \in 1..n /\ i <= i /\ level[i] > 0
            BY <1>4, <2>6, <2>12, <5>2
          <6>2. QED
            BY <6>1
        <5>3. QED
          BY <5>1, <5>2
      <4>2. PICK j \in 1..k : fr[j].via = "subst"
        BY <2>2, <4>1
      <4>3. j \in 1..n /\ j \in 1..i
        BY <4>1
      <4>4. QED
        BY <1>2, <1>3, <4>2, <4>3
    <3>3. QED
      BY <3>1, <3>2
  <2>13. ASSUME NEW i \in 1..n, t[i + 1].via = "subst"
         PROVE  up[i + 1] = up[i] + 1 /\ p[up[i + 1]] = t[i].quoted
    <3>1. CASE i = n
      <4>1. g.via = "subst" /\ n \in 1..n
        BY <1>2, <1>3, <2>13, <3>1
      <4>2. up[n + 1] = m /\ up[n] = l /\ m = l + 1
        BY <2>2, <2>3, <2>4, <2>6, <4>1
      <4>3. QED
        BY <1>2, <1>3, <2>7, <3>1, <4>1, <4>2
    <3>2. CASE i # n
      <4>1. i \in 1..n - 1 /\ i + 1 \in 1..n
        BY <1>3, <3>2
      <4>2. t[i] = fr[i] /\ t[i + 1] = fr[i + 1]
        BY <1>2, <1>3, <4>1
      <4>3. level[i + 1] = level[i] + 1 /\ q[level[i + 1]] = fr[i].quoted
        BY <2>2, <2>13, <4>1, <4>2
      <4>4. level[i + 1] \in 1..l
        BY <2>2, <2>8, <4>1, <4>3
      <4>5. p[level[i + 1]] = q[level[i + 1]]
        BY <2>7, <4>4
      <4>6. QED
        BY <2>6, <4>1, <4>2, <4>3, <4>5
    <3>3. QED
      BY <3>1, <3>2
  <2>14. Len(t) = n + 1 /\ (n + 1) - 1 = n
    BY <1>2, <1>3
  <2>15. Levels(p, t, up)
    BY <2>6, <2>7, <2>9, <2>10, <2>11, <2>12, <2>13, <2>14 DEF Levels
  <2>16. QED
    BY <2>15 DEF Stacked
<1>7. ReadBelow(t) = ReadBelow(fr) \cup Reads(Last(fr))
  <2>1. Len(t) - 1 = n
    BY <1>2, <1>3
  <2>2. \A i : i \in 1..n <=> i \in 1..n - 1 \/ i = n
    BY <1>3
  <2>3. {Reads(t[i]) : i \in 1..n} = {Reads(fr[i]) : i \in 1..n - 1} \cup {Reads(fr[n])}
    BY <1>2, <1>3, <2>2
  <2>4. QED
    BY <1>2, <1>3, <2>1, <2>3 DEF ReadBelow
<1>8. QED
  BY <1>2, <1>5, <1>6, <1>7 DEF IsOpened

\* All but the last.
LEMMA FrontOf ==
  ASSUME NEW S, NEW s \in Seq(S), s # <<>>
  PROVE  /\ Front(s) \in Seq(S) /\ Len(Front(s)) = Len(s) - 1
         /\ \A i \in 1..Len(s) - 1 : Front(s)[i] = s[i]
<1>1. PICK n \in Nat : n = Len(s) /\ n > 0
  OBVIOUS
<1>2. PICK b : b = Front(s)
  OBVIOUS
<1>3. b \in Seq(S) /\ Len(b) = n - 1 /\ \A i \in 1..n - 1 : b[i] = s[i]
  BY <1>1, <1>2 DEF Front
<1>4. QED
  BY <1>1, <1>2, <1>3

IsClosed(t, base, p, q, g, f, fr) ==
  /\ Framed(t, base) /\ Stacked(p, t) /\ Last(t) = g
  /\ ReadBelow(fr) = ReadBelow(t) \cup Reads(f)
  /\ FrameTyped(f) /\ f.cwd = base /\ Waits(f, Last(fr).via)
  /\ QuotedBehind(q) = f.quoted /\ p \in Seq(BOOLEAN)

\* A subshell ends, and the command it is in goes on.
LEMMA FramesClose ==
  ASSUME NEW fr, NEW base, NEW q, Framed(fr, base), Stacked(q, fr), q \in Seq(BOOLEAN),
         Last(fr).via # "line",
         Last(fr).via = "paren" => \A i \in DOMAIN Front(fr) : Front(fr)[i].via # "subst",
         NEW f, f = Last(Front(fr)),
         NEW g, FrameTyped(g), g.cwd = base, g.via = f.via,
         NEW t, t = Append(Front(Front(fr)), g),
         NEW p, p = IF q = <<>> THEN q ELSE Front(q)
  PROVE  IsClosed(t, base, p, q, g, f, fr)
<1>1. IsSeq(fr) /\ Len(fr) > 0
  BY DEF Framed
<1>2. PICK n \in Nat : n = Len(fr) /\ n > 0 /\ Last(fr) = fr[n]
  <2>1. Len(fr) \in Nat
    BY <1>1 DEF IsSeq
  <2>2. QED
    BY <1>1, <2>1 DEF Last
<1>3. n > 1
  <2>1. n = 1 => fr[n].via = "line"
    BY <1>2 DEF Framed
  <2>2. QED
    BY <1>2, <2>1
<1>4. /\ IsSeq(t) /\ Len(t) = n - 1 /\ Last(t) = g
      /\ t[n - 1] = g /\ f = fr[n - 1]
      /\ DOMAIN Front(fr) = 1..n - 1
      /\ \A i \in 1..n - 1 : Front(fr)[i] = fr[i]
      /\ \A i \in 1..n - 2 : t[i] = fr[i]
  <2>1. IsPopped(t, fr, g)
    BY <1>1, <1>2, <1>3, TopPopped
  <2>2. QED
    BY <1>2, <2>1 DEF IsPopped
<1>5. /\ \A i \in 1..n : FrameTyped(fr[i]) /\ fr[i].cwd = base
      /\ \A i \in 1..n : fr[i].via = "line" <=> i = 1
      /\ \A i \in 1..n - 1 : Waits(fr[i], fr[i + 1].via)
  BY <1>2 DEF Framed
<1>6. \A i \in 1..n - 1 : i \in 1..n /\ (i = n - 1 \/ i \in 1..n - 2)
  BY <1>3
<1>7. \A i \in 1..n - 1 : t[i].via = fr[i].via
  BY <1>4, <1>6
<1>8. FrameTyped(f) /\ f.cwd = base /\ Waits(f, Last(fr).via)
  <2>1. n - 1 \in 1..n - 1 /\ n - 1 \in 1..n /\ (n - 1) + 1 = n
    BY <1>3
  <2>2. QED
    BY <1>2, <1>4, <1>5, <2>1
<1>9. Framed(t, base)
  <2>1. \A i \in 1..n - 1 : FrameTyped(t[i]) /\ t[i].cwd = base
    BY <1>4, <1>5, <1>6
  <2>2. \A i \in 1..n - 1 : t[i].via = "line" <=> i = 1
    BY <1>5, <1>6, <1>7
  <2>3. ASSUME NEW i \in 1..n - 2 PROVE Waits(t[i], t[i + 1].via)
    <3>1. i \in 1..n - 1 /\ i + 1 \in 1..n - 1
      BY <1>3
    <3>2. t[i] = fr[i] /\ t[i + 1].via = fr[i + 1].via
      BY <1>4, <1>7, <3>1
    <3>3. QED
      BY <1>5, <3>1, <3>2
  <2>4. (n - 1) - 1 = n - 2 /\ n - 1 > 0
    BY <1>3
  <2>5. QED
    BY <1>4, <2>1, <2>2, <2>3, <2>4 DEF Framed
<1>10. PICK level : /\ level \in [1..n -> Nat]
                    /\ level[1] = 0 /\ level[n] = Len(q)
                    /\ \A i, j \in 1..n : i <= j => level[i] <= level[j]
                    /\ \A i \in 1..n : level[i] > 0 => \E j \in 1..i : fr[j].via = "subst"
                    /\ \A i \in 1..n - 1 :
                         fr[i + 1].via = "subst" => /\ level[i + 1] = level[i] + 1
                                                    /\ q[level[i + 1]] = fr[i].quoted
  BY <1>2 DEF Stacked, Levels
<1>11. PICK l \in Nat : l = Len(q)
  OBVIOUS
<1>12. Last(fr).via \in {"paren", "subst"}
  <2>1. n \in 1..n
    BY <1>2
  <2>2. FrameTyped(fr[n])
    BY <1>5, <2>1
  <2>3. QED
    BY <1>2, <2>2 DEF FrameTyped
<1>13. /\ Len(p) = level[n - 1] /\ QuotedBehind(q) = f.quoted /\ p \in Seq(BOOLEAN)
       /\ \A i \in 1..level[n - 1] : p[i] = q[i]
  <2>1. n - 1 \in 1..n /\ n \in 1..n /\ (n - 1) + 1 = n /\ n - 1 \in 1..n - 1 /\ n - 1 <= n
    BY <1>3
  <2>2. CASE Last(fr).via = "subst"
    <3>1. level[n] = level[n - 1] + 1 /\ q[level[n]] = f.quoted
      BY <1>2, <1>4, <1>10, <2>1, <2>2
    <3>2. level[n - 1] = l - 1 /\ l > 0 /\ level[n - 1] \in Nat
      <4>1. level[n - 1] \in Nat
        BY <1>10, <2>1
      <4>2. level[n] = l
        BY <1>10, <1>11
      <4>3. QED
        BY <3>1, <4>1, <4>2, SMTT(40)
    <3>3. q # <<>> /\ Last(q) = q[l] /\ q[l] = f.quoted
      BY <1>10, <1>11, <3>1, <3>2 DEF Last
    <3>4. p = Front(q)
      BY <3>3
    <3>5. p \in Seq(BOOLEAN) /\ Len(p) = l - 1 /\ \A i \in 1..l - 1 : p[i] = q[i]
      <4>1. q # <<>> /\ l - 1 \in Nat
        BY <3>2, <3>3
      <4>2. QED
        BY <1>11, <3>4, <4>1, FrontOf
    <3>6. f.quoted \in BOOLEAN
      BY <1>8 DEF FrameTyped
    <3>7. QuotedBehind(q) = f.quoted
      BY <3>3, <3>6 DEF QuotedBehind
    <3>8. QED
      BY <3>2, <3>5, <3>7
  <2>3. CASE Last(fr).via = "paren"
    <3>1. ~(level[n] > 0)
      <4>1. SUFFICES ASSUME level[n] > 0 PROVE FALSE
        OBVIOUS
      <4>2. PICK j \in 1..n : fr[j].via = "subst"
        BY <1>10, <2>1, <4>1
      <4>3. j # n
        BY <1>2, <2>3, <4>2
      <4>4. j \in 1..n - 1
        BY <4>3
      <4>5. QED
        BY <1>4, <2>3, <4>2, <4>4
    <3>2. level[n] = 0 /\ level[n - 1] = 0
      <4>1. level[n] \in Nat /\ level[n - 1] \in Nat /\ level[n - 1] <= level[n]
        BY <1>10, <2>1
      <4>2. QED
        BY <3>1, <4>1
    <3>3. q = <<>> /\ p = q
      <4>1. Len(q) = 0
        BY <1>10, <3>2
      <4>2. q = <<>>
        BY <4>1
      <4>3. QED
        BY <4>2
    <3>4. f.quoted = FALSE
      BY <1>8, <2>3 DEF Waits, FrameTyped
    <3>5. QuotedBehind(q) = FALSE
      BY <3>3 DEF QuotedBehind
    <3>6. Len(p) = 0
      BY <3>3
    <3>7. QED
      BY <3>2, <3>3, <3>4, <3>5, <3>6
  <2>4. QED
    BY <1>12, <2>2, <2>3
<1>14. Stacked(p, t)
  <2>1. PICK m \in Nat : m = n - 1 /\ m > 0
    BY <1>3
  <2>2. PICK down : down = [i \in 1..m |-> level[i]]
    OBVIOUS
  <2>3. \A i \in 1..m : i \in 1..n /\ down[i] = level[i] /\ down[i] \in Nat
    BY <1>3, <1>10, <2>1, <2>2
  <2>4. down \in [1..m -> Nat]
    BY <2>2, <2>3
  <2>5. 1 \in 1..m /\ m \in 1..m
    BY <2>1
  <2>6. down[1] = 0 /\ down[m] = Len(p)
    BY <1>10, <1>13, <2>1, <2>3, <2>5
  <2>7. \A i, j \in 1..m : i <= j => down[i] <= down[j]
    BY <1>10, <2>3
  <2>8. ASSUME NEW i \in 1..m, down[i] > 0 PROVE \E j \in 1..i : t[j].via = "subst"
    <3>1. PICK j \in 1..i : fr[j].via = "subst"
      BY <1>10, <2>3, <2>8
    <3>2. j \in 1..n - 1
      BY <2>1
    <3>3. QED
      BY <1>7, <3>1, <3>2
  <2>9. ASSUME NEW i \in 1..m - 1, t[i + 1].via = "subst"
        PROVE  down[i + 1] = down[i] + 1 /\ p[down[i + 1]] = t[i].quoted
    <3>1. i \in 1..n - 2 /\ i \in 1..n - 1 /\ i + 1 \in 1..n - 1 /\ i \in 1..m /\ i + 1 \in 1..m
      BY <2>1
    <3>2. t[i] = fr[i] /\ fr[i + 1].via = "subst"
      BY <1>4, <1>7, <2>9, <3>1
    <3>3. level[i + 1] = level[i] + 1 /\ q[level[i + 1]] = fr[i].quoted
      BY <1>10, <3>1, <3>2
    <3>4. level[i + 1] \in 1..level[n - 1]
      <4>1. level[i] \in Nat /\ level[i + 1] \in Nat /\ level[n - 1] \in Nat
        BY <2>1, <2>3, <2>5, <3>1
      <4>2. level[i + 1] <= level[n - 1]
        BY <1>10, <2>1, <2>3, <2>5, <3>1
      <4>3. QED
        BY <3>3, <4>1, <4>2
    <3>5. p[level[i + 1]] = q[level[i + 1]]
      BY <1>13, <3>4
    <3>6. QED
      BY <2>3, <3>1, <3>2, <3>3, <3>5
  <2>10. Len(t) = m
    BY <1>4, <2>1
  <2>11. Levels(p, t, down)
    BY <2>4, <2>6, <2>7, <2>8, <2>9, <2>10 DEF Levels
  <2>12. QED
    BY <2>11 DEF Stacked
<1>15. ReadBelow(fr) = ReadBelow(t) \cup Reads(f)
  <2>1. \A i : i \in 1..n - 1 <=> i \in 1..n - 2 \/ i = n - 1
    BY <1>3
  <2>2. {Reads(fr[i]) : i \in 1..n - 1} = {Reads(t[i]) : i \in 1..n - 2} \cup {Reads(f)}
    BY <1>4, <2>1
  <2>3. Len(t) - 1 = n - 2
    BY <1>3, <1>4
  <2>4. QED
    BY <1>2, <2>2, <2>3 DEF ReadBelow
<1>16. QED
  BY <1>4, <1>8, <1>9, <1>13, <1>14, <1>15 DEF IsClosed

EndsIn(t, s, x) ==
  /\ t \in Seq(AnyWord) /\ t # <<>> /\ Last(t) = x
  /\ Len(t) > 1 <=> s # <<>>
  /\ s # <<>> => t[Len(t) - 1] = Last(s)

\* What is appended is the last.
LEMMA LastAppended ==
  ASSUME NEW s \in Seq(AnyWord), NEW x \in AnyWord, NEW t, t = Append(s, x)
  PROVE  EndsIn(t, s, x)
<1>1. PICK n \in Nat : n = Len(s) /\ (s = <<>> <=> n = 0)
  OBVIOUS
<1>2. /\ t \in Seq(AnyWord) /\ Len(t) = n + 1 /\ t[n + 1] = x
      /\ \A i \in 1..n : t[i] = s[i]
  BY <1>1
<1>3. t # <<>> /\ Last(t) = x
  BY <1>1, <1>2 DEF Last
<1>4. n > 0 => t[(n + 1) - 1] = s[n]
  BY <1>1, <1>2
<1>5. QED
  BY <1>1, <1>2, <1>3, <1>4 DEF Last, EndsIn

\* What the scanner is behind a word, and behind a segment.
LEMMA EndWordIs ==
  ASSUME NEW b, DOMAIN b = ScanFields, NEW e, e = EndWord(b)
  PROVE  /\ DOMAIN e = ScanFields
         /\ e.words = Ended(b.words, b.word) /\ e.word = NoWord
         /\ e.pending = NoteTag(Ended(b.words, b.word), b.pending)
         /\ e.quoted = b.quoted /\ e.stack = b.stack /\ e.skip = b.skip /\ e.row = b.row
         /\ e.base = b.base /\ e.out = b.out
BY DEF EndWord, ScanFields

\* The scan at the end of a segment, and of its last word.
LEMMA EndSegmentWith ==
  ASSUME NEW b, ScanTyped(b), NEW w, w = Ended(b.words, b.word),
         NoteTag(w, b.pending) = b.pending, NEW e, e = EndSegment(b)
  PROVE  /\ DOMAIN e = ScanFields /\ e.words = <<>> /\ e.word = NoWord
         /\ e.pending = b.pending
         /\ e.quoted = b.quoted /\ e.stack = b.stack /\ e.skip = b.skip /\ e.row = b.row
         /\ e.base = Enter(b.base, ChangesTo(w))
         /\ e.out = b.out \cup Paths(b.base, FilesRead(w))
<1>1. PICK a : a = EndWord(b)
  OBVIOUS
<1>2. /\ DOMAIN a = ScanFields
      /\ a.words = w /\ a.word = NoWord
      /\ a.pending = b.pending
      /\ a.quoted = b.quoted /\ a.stack = b.stack /\ a.skip = b.skip /\ a.row = b.row
      /\ a.base = b.base /\ a.out = b.out
  BY <1>1, EndWordIs DEF ScanTyped
<1>3. e = [a EXCEPT !.words = <<>>,
                    !.out = @ \cup Paths(b.base, FilesRead(a.words)),
                    !.base = Enter(@, ChangesTo(a.words))]
  BY <1>1 DEF EndSegment
<1>4. QED
  BY <1>2, <1>3 DEF ScanFields

\* The same where no word is open.
LEMMA EndSegmentIs ==
  ASSUME NEW b, ScanTyped(b), b.word = NoWord, TagNoted(b), NEW e, e = EndSegment(b)
  PROVE  /\ DOMAIN e = ScanFields /\ e.words = <<>> /\ e.word = NoWord
         /\ e.pending = b.pending
         /\ e.quoted = b.quoted /\ e.stack = b.stack /\ e.skip = b.skip /\ e.row = b.row
         /\ e.base = Enter(b.base, ChangesTo(b.words))
         /\ e.out = b.out \cup Paths(b.base, FilesRead(b.words))
<1>1. Ended(b.words, b.word) = b.words
  BY DEF Ended
<1>2. NoteTag(b.words, b.pending) = b.pending
  BY DEF NoteTag, TagNoted
<1>3. QED
  BY <1>1, <1>2, EndSegmentWith

EndAlike(b, f) ==
  /\ Paths(b.base, FilesRead(b.words)) \cup ReadAtTop(f) = Reads(f)
  /\ ChangesTo(b.words) = ChangesTo(f.words) /\ b.word = NoWord /\ b.quoted = FALSE

\* At the end of a command both have read the same.
LEMMA EndsAlike ==
  ASSUME NEW b, NEW f, ScanTyped(b), FrameTyped(f), Follows(b, f), ~f.quoted, f.cwd = b.base
  PROVE  EndAlike(b, f)
<1>1. b.word = NoWord /\ b.quoted = FALSE
  BY DEF Follows
<1>2. Reads(f) = Paths(b.base, FilesRead(f.words))
  BY DEF Reads
<1>3. Paths(b.base, {}) = {}
  BY DEF Paths
<1>4. CASE ~f.substituted /\ b.words = f.words
  BY <1>1, <1>2, <1>4 DEF ReadAtTop, EndAlike
<1>5. CASE ~f.substituted /\ f.words = <<Parens>> \o b.words /\ AllRedirected(b.words)
  <2>1. b.words \in Seq(AnyWord)
    BY DEF ScanTyped
  <2>2. /\ FilesRead(f.words) = FilesRead(b.words)
        /\ ChangesTo(f.words) = {} /\ ChangesTo(b.words) = {}
    BY <1>5, <2>1, RedirectedAlone
  <2>3. QED
    BY <1>1, <1>2, <1>5, <2>2 DEF ReadAtTop, EndAlike
<1>6. CASE f.substituted /\ ChangesTo(f.words) = {} /\ Len(b.words) <= 1
  <2>1. b.words \in Seq(AnyWord)
    BY DEF ScanTyped
  <2>2. FilesRead(b.words) = {} /\ ChangesTo(b.words) = {}
    BY <1>6, <2>1, FewReadNothing
  <2>3. QED
    BY <1>1, <1>2, <1>3, <1>6, <2>2 DEF ReadAtTop, EndAlike
<1>7. QED
  BY <1>4, <1>5, <1>6 DEF Follows

\* What the two readers hold at the innermost frame.
LEMMA TopIs ==
  ASSUME NEW b, NEW s, Beside(b, s), NEW f, f = Last(s.frames)
  PROVE  /\ FrameTyped(f) /\ f.cwd = b.base /\ (f.via = "line" <=> Len(s.frames) = 1)
         /\ ScanTyped(b) /\ Follows(b, f) /\ TagNoted(b) /\ DOMAIN s = ShellFields
         /\ b.out = s.read \cup ReadBelow(s.frames) \cup ReadAtTop(f)
         /\ b.pending = s.pending /\ b.skip = s.skip /\ b.row = s.row
<1>1. PICK fr : fr = s.frames
  OBVIOUS
<1>2. Framed(fr, b.base)
  BY <1>1 DEF Beside
<1>3. PICK n \in Nat : n = Len(fr) /\ n > 0
  <2>1. Len(fr) \in Nat /\ Len(fr) > 0
    BY <1>2 DEF Framed, IsSeq
  <2>2. QED
    BY <2>1
<1>4. n \in 1..n /\ f = fr[n]
  BY <1>1, <1>3 DEF Last
<1>5. FrameTyped(f) /\ f.cwd = b.base /\ (f.via = "line" <=> n = 1)
  BY <1>2, <1>3, <1>4 DEF Framed
<1>6. QED
  BY <1>1, <1>3, <1>5 DEF Beside

\* A step within the innermost frame, the other reader following.
LEMMA MovesOn ==
  ASSUME NEW b, NEW s, Beside(b, s), NEW f, f = Last(s.frames),
         NEW c, ScanTyped(c), NEW g, FrameTyped(g), g.via = f.via, g.cwd = c.base,
         c.base = b.base \/ f.via = "line", c.stack = b.stack, Follows(c, g), TagNoted(c),
         NEW t, DOMAIN t = ShellFields, t.frames = Append(Front(s.frames), g),
         c.out = t.read \cup ReadBelow(s.frames) \cup ReadAtTop(g),
         c.pending = t.pending, c.skip = t.skip, c.row = t.row
  PROVE  Beside(c, t)
<1>1. PICK fr : fr = s.frames
  OBVIOUS
<1>2. PICK base : base = b.base
  OBVIOUS
<1>3. PICK q : q = b.stack
  OBVIOUS
<1>4. PICK dir : dir = c.base
  OBVIOUS
<1>5. PICK u : u = t.frames
  OBVIOUS
<1>6. Framed(fr, base) /\ Stacked(q, fr) /\ f = Last(fr) /\ u = Append(Front(fr), g)
  BY <1>1, <1>2, <1>3, <1>5 DEF Beside
<1>7. dir = base \/ Len(fr) = 1
  BY <1>1, <1>2, <1>4, TopIs
<1>8. Framed(u, dir) /\ Stacked(q, u) /\ Last(u) = g /\ ReadBelow(u) = ReadBelow(fr)
  <2>1. FrameTyped(g) /\ g.cwd = dir /\ g.via = Last(fr).via
    BY <1>4, <1>6
  <2>2. IsMoved(u, dir, q, g, fr)
    BY <1>6, <1>7, <2>1, FramesMoveOn
  <2>3. QED
    BY <2>2 DEF IsMoved
<1>9. QED
  BY <1>1, <1>3, <1>4, <1>5, <1>8 DEF Beside

\* The first frame and the first segment.
LEMMA LineBegins == Beside(ScanInit, ShellInit)
<1>1. PICK f : f = Frame("line", <<>>)
  OBVIOUS
<1>2. /\ DOMAIN f = FrameFields /\ f.via = "line" /\ f.cwd = <<>> /\ f.words = <<>>
      /\ f.word = NoWord /\ f.quoted = FALSE /\ f.piped = FALSE /\ f.substituted = FALSE
  BY <1>1 DEF Frame, FrameFields
<1>3. <<>> \in Seq(AnyWord) /\ <<>> \in Seq(BOOLEAN) /\ Len(<<>>) = 0
  OBVIOUS
<1>4. FrameTyped(f)
  BY <1>2, <1>3 DEF FrameTyped
<1>5. PICK fr : fr = <<f>>
  OBVIOUS
<1>6. Len(fr) = 1 /\ fr[1] = f /\ DOMAIN fr = 1..1 /\ Last(fr) = f
  BY <1>5 DEF Last
<1>7. IsSeq(fr)
  <2>1. fr \in Seq({f})
    BY <1>5
  <2>2. {fr[i] : i \in DOMAIN fr} = {f}
    BY <1>6
  <2>3. QED
    BY <2>1, <2>2 DEF IsSeq
<1>8. Framed(fr, <<>>)
  BY <1>2, <1>4, <1>6, <1>7 DEF Framed
<1>9. Stacked(<<>>, fr)
  <2>1. PICK level : level = [i \in 1..1 |-> 0]
    OBVIOUS
  <2>2. level \in [1..1 -> Nat] /\ level[1] = 0
    BY <2>1
  <2>3. Levels(<<>>, fr, level)
    BY <1>3, <1>6, <2>2 DEF Levels
  <2>4. QED
    BY <2>3 DEF Stacked
<1>10. ReadBelow(fr) = {}
  BY <1>6 DEF ReadBelow
<1>11. PICK b : b = ScanInit
  OBVIOUS
<1>12. /\ DOMAIN b = ScanFields /\ b.words = <<>> /\ b.word = NoWord /\ b.quoted = FALSE
       /\ b.stack = <<>> /\ b.pending = <<>> /\ b.skip = <<>> /\ b.row = NoWord
       /\ b.base = <<>> /\ b.out = {}
  BY <1>11 DEF ScanInit, ScanFields
<1>13. PICK s : s = ShellInit
  OBVIOUS
<1>14. /\ DOMAIN s = ShellFields /\ s.frames = fr /\ s.pending = <<>> /\ s.skip = <<>>
       /\ s.row = NoWord /\ s.read = {}
  <2>1. DOMAIN s = ShellFields
    BY <1>13 DEF ShellInit, ShellFields
  <2>2. s.frames = <<f>>
    BY <1>1, <1>13 DEF ShellInit
  <2>3. s.pending = <<>> /\ s.skip = <<>> /\ s.row = NoWord /\ s.read = {}
    BY <1>13 DEF ShellInit
  <2>4. QED
    BY <1>5, <2>1, <2>2, <2>3
<1>15. ScanTyped(b) /\ TagNoted(b)
  <2>1. ScanTyped(b)
    BY <1>3, <1>12 DEF ScanTyped
  <2>2. TagNoted(b)
    BY <1>3, <1>12 DEF TagNoted
  <2>3. QED
    BY <2>1, <2>2
<1>16. Follows(b, f)
  BY <1>2, <1>12 DEF Follows
<1>17. ReadAtTop(f) = {}
  BY <1>2 DEF ReadAtTop
<1>18. Beside(b, s)
  BY <1>6, <1>8, <1>9, <1>10, <1>12, <1>14, <1>15, <1>16, <1>17 DEF Beside
<1>19. QED
  BY <1>11, <1>13, <1>18

\* A word, or a redirection, goes to both.
LEMMA WordMoves ==
  ASSUME NEW b, NEW s, Beside(b, s), NEW f, f = Last(s.frames),
         NEW x \in Word \cup Redirection, s.skip = <<>>, ~f.quoted, ~f.substituted,
         (f.words # <<>> /\ Head(f.words) = Parens) =>
            x \in Redirection \/ Last(f.words) \in Redirection,
         (Announced(f, x) /\ s.pending # <<>>) => Last(s.pending) # x,
         NEW t, DOMAIN t = ShellFields, t.frames = Append(Front(s.frames), Argument(f, x)),
         t.pending = IF Announced(f, x) THEN Append(s.pending, x) ELSE s.pending,
         t.skip = s.skip, t.row = s.row, t.read = s.read
  PROVE  Beside(ScanWord(b, x), t)
<1>1. /\ FrameTyped(f) /\ f.cwd = b.base
      /\ ScanTyped(b) /\ Follows(b, f) /\ TagNoted(b)
      /\ b.out = s.read \cup ReadBelow(s.frames) \cup ReadAtTop(f)
      /\ b.pending = s.pending /\ b.skip = s.skip /\ b.row = s.row
  BY TopIs
<1>2. x \in AnyWord /\ x # NoWord
  BY WordsDiffer
<1>3. /\ b.quoted = FALSE /\ b.word = NoWord /\ f.word = NoWord /\ b.words \in Seq(AnyWord)
      /\ f.quoted = FALSE /\ f.substituted = FALSE
  BY <1>1 DEF Follows, ScanTyped, FrameTyped
<1>4. PICK c : c = ScanWord(b, x)
  OBVIOUS
<1>5. PICK a : a = [b EXCEPT !.word = x]
  OBVIOUS
<1>6. /\ DOMAIN a = ScanFields /\ a.word = x /\ a.words = b.words /\ a.pending = b.pending
      /\ a.quoted = b.quoted /\ a.stack = b.stack /\ a.skip = b.skip /\ a.row = b.row
      /\ a.base = b.base /\ a.out = b.out
  BY <1>1, <1>5 DEF ScanTyped, ScanFields
<1>7. c = EndWord(a)
  BY <1>1, <1>3, <1>4, <1>5 DEF ScanWord, InBody
<1>8. PICK w : w = Append(b.words, x)
  OBVIOUS
<1>9. Ended(a.words, a.word) = w
  BY <1>2, <1>6, <1>8 DEF Ended
<1>10. /\ DOMAIN c = ScanFields /\ c.words = w /\ c.word = NoWord
       /\ c.pending = NoteTag(w, b.pending)
       /\ c.quoted = FALSE /\ c.stack = b.stack /\ c.skip = b.skip /\ c.row = b.row
       /\ c.base = b.base /\ c.out = b.out
  BY <1>3, <1>6, <1>7, <1>9, EndWordIs
<1>11. EndsIn(w, b.words, x)
  BY <1>2, <1>3, <1>8, LastAppended
<1>12. PICK g : g = Argument(f, x)
  OBVIOUS
<1>13. /\ DOMAIN g = FrameFields /\ g.words = Append(f.words, x) /\ g.word = NoWord
       /\ g.via = f.via /\ g.cwd = f.cwd /\ g.quoted = f.quoted /\ g.piped = f.piped
       /\ g.substituted = f.substituted
  BY <1>1, <1>3, <1>12 DEF Argument, FrameTyped, FrameFields
<1>14. f.words \in Seq(AnyWord) /\ Append(f.words, x) \in Seq(AnyWord)
  BY <1>1, <1>2 DEF FrameTyped
<1>15. FrameTyped(g)
  BY <1>1, <1>13, <1>14 DEF FrameTyped
<1>16. PICK plain : plain = (b.words = f.words)
  OBVIOUS
<1>17. ~plain => f.words = <<Parens>> \o b.words /\ AllRedirected(b.words)
  BY <1>1, <1>16 DEF Follows
<1>18. /\ b.words # <<>> => f.words # <<>> /\ Last(f.words) = Last(b.words)
       /\ b.words = <<>> => (f.words = <<>> \/ (Last(f.words) = Parens /\ Head(f.words) = Parens))
       /\ ~plain => f.words # <<>> /\ Head(f.words) = Parens
  <2>1. CASE plain
    BY <1>16, <2>1
  <2>2. CASE ~plain
    <3>1. PICK p \in AnyWord : p = Parens
      BY WordsDiffer
    <3>2. f.words = <<p>> \o b.words
      BY <1>17, <2>2, <3>1
    <3>3. Len(<<p>>) = 1 /\ <<p>> \in Seq(AnyWord)
      OBVIOUS
    <3>4. PICK n \in Nat : n = Len(b.words)
      BY <1>3
    <3>5. f.words # <<>> /\ Head(f.words) = p /\ Len(f.words) = n + 1
      BY <1>3, <3>2, <3>3, <3>4
    <3>6. n > 0 => f.words[n + 1] = b.words[n]
      BY <1>3, <3>2, <3>3, <3>4
    <3>7. b.words # <<>> => n > 0
      BY <1>3, <3>4
    <3>8. b.words = <<>> => n = 0 /\ f.words[1] = p
      BY <1>3, <3>2, <3>3, <3>4
    <3>9. QED
      BY <3>1, <3>4, <3>5, <3>6, <3>7, <3>8 DEF Last
  <2>3. QED
    BY <2>1, <2>2
<1>19. Announced(f, x) <=> (Len(w) > 1 /\ w[Len(w) - 1] = "<<")
  <2>1. Parens # "<<"
    BY WordsDiffer DEF Redirection
  <2>2. QED
    BY <1>11, <1>18, <2>1 DEF Announced, EndsIn
<1>20. c.pending = t.pending
  BY <1>1, <1>10, <1>11, <1>19 DEF NoteTag, EndsIn
<1>21. b.pending \in Seq(AnyWord) /\ EndsIn(Append(b.pending, x), b.pending, x)
  BY <1>1, <1>2, LastAppended DEF ScanTyped
<1>22. TagNoted(c)
  BY <1>1, <1>10, <1>11, <1>19, <1>20, <1>21 DEF TagNoted, EndsIn
<1>23. ScanTyped(c)
  BY <1>1, <1>10, <1>11, <1>20, <1>21 DEF ScanTyped, EndsIn
<1>24. Follows(c, g)
  <2>1. CASE plain
    BY <1>3, <1>8, <1>10, <1>13, <1>16, <2>1 DEF Follows
  <2>2. CASE ~plain
    <3>1. Parens \in AnyWord /\ Parens \notin Redirection
      BY WordsDiffer
    <3>2. g.words = <<Parens>> \o w
      BY <1>2, <1>3, <1>8, <1>13, <1>17, <2>2, <3>1, BehindFirst
    <3>3. x \in Redirection \/ (b.words # <<>> /\ Last(b.words) \in Redirection)
      BY <1>18, <2>2, <3>1
    <3>4. AllRedirected(w)
      <4>1. PICK n \in Nat : n = Len(b.words) /\ DOMAIN b.words = 1..n
        BY <1>3
      <4>2. /\ DOMAIN w = 1..n + 1 /\ w[n + 1] = x
            /\ \A i \in 1..n : w[i] = b.words[i]
        BY <1>2, <1>3, <1>8, <4>1
      <4>3. ASSUME NEW i \in 1..n PROVE ~IsPlain(w, i)
        <5>1. ~IsPlain(b.words, i)
          BY <1>17, <2>2, <4>1 DEF AllRedirected
        <5>2. i = 1 \/ i - 1 \in 1..n
          BY <4>1
        <5>3. QED
          BY <4>2, <5>1, <5>2 DEF IsPlain
      <4>4. ~IsPlain(w, n + 1)
        <5>1. CASE x \in Redirection
          BY <4>2, <5>1 DEF IsPlain
        <5>2. CASE b.words # <<>> /\ Last(b.words) \in Redirection
          <6>1. n # 0 /\ n + 1 # 1 /\ (n + 1) - 1 = n /\ n \in 1..n
            BY <1>3, <4>1, <5>2
          <6>2. w[n] \in Redirection
            BY <4>1, <4>2, <5>2, <6>1 DEF Last
          <6>3. QED
            BY <6>1, <6>2 DEF IsPlain
        <5>3. QED
          BY <3>3, <5>1, <5>2
      <4>5. \A i \in 1..n + 1 : i = n + 1 \/ i \in 1..n
        BY <4>1
      <4>6. QED
        BY <4>2, <4>3, <4>4, <4>5 DEF AllRedirected
    <3>5. QED
      BY <1>3, <1>10, <1>13, <3>2, <3>4 DEF Follows
  <2>3. QED
    BY <2>1, <2>2
<1>25. ReadAtTop(g) = {} /\ ReadAtTop(f) = {}
  BY <1>13 DEF ReadAtTop
<1>26. c.out = t.read \cup ReadBelow(s.frames) \cup ReadAtTop(g)
  BY <1>1, <1>10, <1>25
<1>27. Beside(c, t)
  <2>1. g.via = f.via /\ g.cwd = c.base /\ c.base = b.base /\ c.stack = b.stack
    BY <1>1, <1>10, <1>13
  <2>2. t.frames = Append(Front(s.frames), g) /\ c.skip = t.skip /\ c.row = t.row
    BY <1>1, <1>10, <1>12
  <2>3. QED
    BY <1>15, <1>20, <1>22, <1>23, <1>24, <1>26, <2>1, <2>2, MovesOn
<1>28. QED
  BY <1>4, <1>27

\* A line of a here-document is all that changes.
LEMMA BodyMoves ==
  ASSUME NEW b, NEW s, Beside(b, s),
         NEW c, DOMAIN c = ScanFields, c.words = b.words, c.word = b.word,
         c.quoted = b.quoted, c.stack = b.stack, c.pending = b.pending, c.base = b.base,
         c.out = b.out,
         NEW t, DOMAIN t = ShellFields, t.frames = s.frames, t.pending = s.pending,
         t.read = s.read, c.row = t.row, c.skip = t.skip
  PROVE  Beside(c, t)
<1>1. ScanTyped(c) /\ TagNoted(c)
  BY DEF Beside, ScanTyped, TagNoted
<1>2. Follows(c, Last(t.frames))
  BY DEF Beside, Follows
<1>3. QED
  BY <1>1, <1>2 DEF Beside

\* A word in quotes grows in both.
LEMMA QuotedMoves ==
  ASSUME NEW b, NEW s, Beside(b, s), NEW f, f = Last(s.frames),
         NEW x \in AnyWord, x # NoWord, s.skip = <<>>, f.quoted,
         NEW t, DOMAIN t = ShellFields,
         t.frames = Append(Front(s.frames), [f EXCEPT !.word = Glue(@, x)]),
         t.pending = s.pending, t.skip = s.skip, t.row = s.row, t.read = s.read
  PROVE  Beside(ScanWord(b, x), t)
<1>1. /\ FrameTyped(f) /\ f.cwd = b.base
      /\ ScanTyped(b) /\ Follows(b, f) /\ TagNoted(b)
      /\ b.out = s.read \cup ReadBelow(s.frames) \cup ReadAtTop(f)
      /\ b.pending = s.pending /\ b.skip = s.skip /\ b.row = s.row
  BY TopIs
<1>2. b.quoted = TRUE /\ f.quoted = TRUE
  BY <1>1 DEF Follows, FrameTyped
<1>3. PICK c : c = ScanWord(b, x)
  OBVIOUS
<1>4. /\ DOMAIN c = ScanFields /\ c.words = b.words /\ c.word = Glue(b.word, x)
      /\ c.quoted = TRUE /\ c.stack = b.stack /\ c.pending = b.pending /\ c.base = b.base
      /\ c.out = b.out /\ c.row = b.row /\ c.skip = b.skip
  <2>1. c = [b EXCEPT !.word = Glue(@, x)]
    BY <1>1, <1>2, <1>3 DEF ScanWord, InBody
  <2>2. QED
    BY <1>1, <1>2, <2>1 DEF ScanTyped, ScanFields
<1>5. PICK g : g = [f EXCEPT !.word = Glue(@, x)]
  OBVIOUS
<1>6. /\ DOMAIN g = FrameFields /\ g.words = f.words /\ g.word = Glue(f.word, x)
      /\ g.via = f.via /\ g.cwd = f.cwd /\ g.quoted = TRUE /\ g.piped = f.piped
      /\ g.substituted = f.substituted
  BY <1>1, <1>2, <1>5 DEF FrameTyped, FrameFields
<1>7. \A v : Glue(v, x) \in AnyWord
  <2>1. SUFFICES ASSUME NEW v PROVE Glue(v, x) \in AnyWord
    OBVIOUS
  <2>2. Glue(v, x) \in {x, Unknown, Glued}
    BY DEF Glue
  <2>3. {x, Unknown, Glued} \subseteq AnyWord
    BY WordsDiffer
  <2>4. QED
    BY <2>2, <2>3
<1>8. ScanTyped(c) /\ FrameTyped(g)
  <2>1. c.word \in AnyWord /\ g.word \in AnyWord
    BY <1>4, <1>6, <1>7
  <2>2. ScanTyped(c)
    BY <1>1, <1>4, <2>1 DEF ScanTyped
  <2>3. FrameTyped(g)
    BY <1>1, <1>6, <2>1 DEF FrameTyped
  <2>4. QED
    BY <2>2, <2>3
<1>9. TagNoted(c)
  BY <1>1, <1>2, <1>4 DEF TagNoted
<1>10. Follows(c, g)
  <2>1. Unknown \notin {NoWord, Empty}
    BY WordsDiffer
  <2>2. Glue(Unknown, x) = Unknown
    BY <2>1 DEF Glue
  <2>3. CASE ~f.substituted
    BY <1>1, <1>2, <1>4, <1>6, <2>3, ZenonT(60) DEF Follows
  <2>4. CASE f.substituted
    BY <1>1, <1>2, <1>4, <1>6, <2>2, <2>4, ZenonT(60) DEF Follows
  <2>5. QED
    BY <2>3, <2>4
<1>11. ReadAtTop(g) = ReadAtTop(f)
  BY <1>6 DEF ReadAtTop, Reads
<1>12. Beside(c, t)
  <2>1. g.via = f.via /\ g.cwd = c.base /\ c.base = b.base /\ c.stack = b.stack
    BY <1>1, <1>4, <1>6
  <2>2. /\ t.frames = Append(Front(s.frames), g) /\ c.skip = t.skip /\ c.row = t.row
        /\ c.pending = t.pending
    BY <1>1, <1>4, <1>5
  <2>3. c.out = t.read \cup ReadBelow(s.frames) \cup ReadAtTop(g)
    BY <1>1, <1>4, <1>11
  <2>4. QED
    BY <1>8, <1>9, <1>10, <2>1, <2>2, <2>3, MovesOn
<1>13. QED
  BY <1>3, <1>12

\* The scanner behind a segment.
Segmented(c, b) ==
  /\ DOMAIN c = ScanFields /\ c.words = <<>> /\ c.word = NoWord /\ c.quoted = FALSE
  /\ c.stack = b.stack /\ c.row = b.row
  /\ c.base = Enter(b.base, ChangesTo(b.words))
  /\ c.out = b.out \cup Paths(b.base, FilesRead(b.words))

\* The end of a segment is the same for both readers.
LEMMA SegmentEnds ==
  ASSUME NEW b, NEW s, Beside(b, s), ~Last(s.frames).quoted, NEW e, e = EndSegment(b)
  PROVE  Segmented(e, b) /\ e.pending = s.pending /\ e.skip = s.skip /\ b.quoted = FALSE
<1>1. PICK f : f = Last(s.frames)
  OBVIOUS
<1>2. /\ FrameTyped(f) /\ f.cwd = b.base
      /\ ScanTyped(b) /\ Follows(b, f) /\ TagNoted(b)
      /\ b.pending = s.pending /\ b.skip = s.skip /\ b.row = s.row
  BY <1>1, TopIs
<1>3. b.word = NoWord /\ b.quoted = FALSE
  <2>1. EndAlike(b, f)
    BY <1>1, <1>2, EndsAlike
  <2>2. QED
    BY <2>1 DEF EndAlike
<1>4. /\ DOMAIN e = ScanFields /\ e.words = <<>> /\ e.word = NoWord
      /\ e.pending = b.pending
      /\ e.quoted = b.quoted /\ e.stack = b.stack /\ e.skip = b.skip /\ e.row = b.row
      /\ e.base = Enter(b.base, ChangesTo(b.words))
      /\ e.out = b.out \cup Paths(b.base, FilesRead(b.words))
  BY <1>2, <1>3, EndSegmentIs
<1>5. QED
  BY <1>2, <1>3, <1>4 DEF Segmented

\* A command ends, and another begins.
LEMMA SegmentMoves ==
  ASSUME NEW b, NEW s, Beside(b, s), NEW f, f = Last(s.frames), ~f.quoted,
         NEW by, ChangesTo(f.words) = {} \/ (InShell(f, by) /\ f.via = "line"),
         Landed(f.cwd, f.words) = Enter(f.cwd, ChangesTo(f.words)),
         NEW c, Segmented(c, b), c.pending \in Seq(AnyWord),
         NEW t, DOMAIN t = ShellFields, t.frames = Append(Front(s.frames), Ran(f, by)),
         t.pending = c.pending, t.skip = c.skip, t.row = s.row, t.read = s.read \cup Reads(f)
  PROVE  Beside(c, t)
<1>1. /\ FrameTyped(f) /\ f.cwd = b.base
      /\ ScanTyped(b) /\ Follows(b, f) /\ TagNoted(b)
      /\ b.out = s.read \cup ReadBelow(s.frames) \cup ReadAtTop(f)
      /\ b.pending = s.pending /\ b.skip = s.skip /\ b.row = s.row
  BY TopIs
<1>2. /\ Paths(b.base, FilesRead(b.words)) \cup ReadAtTop(f) = Reads(f)
      /\ ChangesTo(b.words) = ChangesTo(f.words) /\ b.word = NoWord /\ b.quoted = FALSE
  <2>1. EndAlike(b, f)
    BY <1>1, EndsAlike
  <2>2. QED
    BY <2>1 DEF EndAlike
<1>4. /\ DOMAIN c = ScanFields /\ c.words = <<>> /\ c.word = NoWord
      /\ c.quoted = FALSE /\ c.stack = b.stack /\ c.row = b.row
      /\ c.base = Enter(b.base, ChangesTo(f.words))
      /\ c.out = b.out \cup Paths(b.base, FilesRead(b.words))
  BY <1>2 DEF Segmented
<1>5. PICK g : g = Ran(f, by)
  OBVIOUS
<1>6. /\ DOMAIN g = FrameFields /\ g.words = <<>> /\ g.word = NoWord
      /\ g.via = f.via /\ g.quoted = FALSE /\ g.piped = (by = "pipe")
      /\ g.substituted = FALSE
      /\ g.cwd = IF InShell(f, by) THEN Enter(f.cwd, ChangesTo(f.words)) ELSE f.cwd
  BY <1>5 DEF Ran, Frame, FrameFields
<1>7. ChangesTo(f.words) = {} => \A dir : Enter(dir, ChangesTo(f.words)) = dir
  BY DEF Enter
<1>8. g.cwd = c.base /\ (c.base = b.base \/ f.via = "line")
  BY <1>1, <1>4, <1>6, <1>7
<1>9. <<>> \in Seq(AnyWord) /\ Len(<<>>) = 0
  OBVIOUS
<1>10. ScanTyped(c)
  BY <1>1, <1>4, <1>9 DEF ScanTyped
<1>11. FrameTyped(g)
  BY <1>1, <1>6, <1>9 DEF FrameTyped
<1>12. TagNoted(c)
  BY <1>4, <1>9 DEF TagNoted
<1>13. Follows(c, g)
  BY <1>4, <1>6 DEF Follows
<1>14. ReadAtTop(g) = {}
  BY <1>6 DEF ReadAtTop
<1>15. c.out = t.read \cup ReadBelow(s.frames) \cup ReadAtTop(g)
  BY <1>1, <1>2, <1>4, <1>14
<1>16. QED
  <2>1. g.via = f.via /\ c.stack = b.stack
    BY <1>4, <1>6
  <2>2. /\ t.frames = Append(Front(s.frames), g) /\ c.skip = t.skip /\ c.row = t.row
        /\ c.pending = t.pending
    BY <1>1, <1>4, <1>5
  <2>3. QED
    BY <1>8, <1>10, <1>11, <1>12, <1>13, <1>15, <2>1, <2>2, MovesOn

\* Quotes are opened, and closed.
LEMMA QuoteOpens ==
  ASSUME NEW b, NEW s, Beside(b, s), NEW f, f = Last(s.frames), ~f.quoted, ~f.substituted,
         s.skip = <<>>, f.words # <<>>, Head(f.words) # Parens, Last(f.words) # "<<",
         NEW t, DOMAIN t = ShellFields,
         t.frames = Append(Front(s.frames), [f EXCEPT !.quoted = TRUE, !.word = Empty]),
         t.pending = s.pending, t.skip = s.skip, t.row = s.row, t.read = s.read
  PROVE  Beside(ScanQuote(b), t)
<1>1. /\ FrameTyped(f) /\ f.cwd = b.base
      /\ ScanTyped(b) /\ Follows(b, f) /\ TagNoted(b)
      /\ b.out = s.read \cup ReadBelow(s.frames) \cup ReadAtTop(f)
      /\ b.pending = s.pending /\ b.skip = s.skip /\ b.row = s.row
  BY TopIs
<1>2. b.quoted = FALSE
  BY <1>1 DEF Follows, ScanTyped
<1>3. PICK c : c = ScanQuote(b)
  OBVIOUS
<1>4. /\ DOMAIN c = ScanFields /\ c.words = b.words /\ c.word = Empty
      /\ c.quoted = TRUE /\ c.stack = b.stack /\ c.pending = b.pending /\ c.base = b.base
      /\ c.out = b.out /\ c.row = b.row /\ c.skip = b.skip
  <2>1. c = [b EXCEPT !.quoted = TRUE, !.word = Empty]
    BY <1>1, <1>2, <1>3 DEF ScanQuote, InBody
  <2>2. QED
    BY <1>1, <2>1 DEF ScanTyped, ScanFields
<1>5. PICK g : g = [f EXCEPT !.quoted = TRUE, !.word = Empty]
  OBVIOUS
<1>6. /\ DOMAIN g = FrameFields /\ g.words = f.words /\ g.word = Empty
      /\ g.via = f.via /\ g.cwd = f.cwd /\ g.quoted = TRUE /\ g.piped = f.piped
      /\ g.substituted = f.substituted
  BY <1>1, <1>5 DEF FrameTyped, FrameFields
<1>7. b.words = f.words /\ b.word = f.word
  <2>1. ASSUME f.words = <<Parens>> \o b.words PROVE FALSE
    <3>1. PICK p \in AnyWord : p = Parens
      BY WordsDiffer
    <3>2. b.words \in Seq(AnyWord)
      BY <1>1 DEF ScanTyped
    <3>3. Head(<<p>> \o b.words) = p
      BY <3>2
    <3>4. QED
      BY <2>1, <3>1, <3>3
  <2>2. QED
    BY <1>1, <1>2, <2>1 DEF Follows
<1>8. ScanTyped(c) /\ FrameTyped(g)
  BY <1>1, <1>4, <1>6, WordsDiffer DEF ScanTyped, FrameTyped
<1>9. TagNoted(c)
  BY <1>1, <1>4, <1>7 DEF TagNoted
<1>10. Follows(c, g)
  BY <1>4, <1>6, <1>7 DEF Follows
<1>11. ReadAtTop(g) = ReadAtTop(f)
  BY <1>6 DEF ReadAtTop, Reads
<1>12. Beside(c, t)
  <2>1. g.via = f.via /\ g.cwd = c.base /\ c.base = b.base /\ c.stack = b.stack
    BY <1>1, <1>4, <1>6
  <2>2. /\ t.frames = Append(Front(s.frames), g) /\ c.skip = t.skip /\ c.row = t.row
        /\ c.pending = t.pending
    BY <1>1, <1>4, <1>5
  <2>3. c.out = t.read \cup ReadBelow(s.frames) \cup ReadAtTop(g)
    BY <1>1, <1>4, <1>11
  <2>4. QED
    BY <1>8, <1>9, <1>10, <2>1, <2>2, <2>3, MovesOn
<1>13. QED
  BY <1>3, <1>12

\* A quotation that is closed is a word.
LEMMA QuoteCloses ==
  ASSUME NEW b, NEW s, Beside(b, s), NEW f, f = Last(s.frames), f.quoted, s.skip = <<>>,
         NEW t, DOMAIN t = ShellFields,
         t.frames = Append(Front(s.frames),
           [f EXCEPT !.quoted = FALSE, !.words = Ended(@, f.word), !.word = NoWord]),
         t.pending = s.pending, t.skip = s.skip, t.row = s.row, t.read = s.read
  PROVE  Beside(ScanQuote(b), t)
<1>1. /\ FrameTyped(f) /\ f.cwd = b.base
      /\ ScanTyped(b) /\ Follows(b, f) /\ TagNoted(b)
      /\ b.out = s.read \cup ReadBelow(s.frames) \cup ReadAtTop(f)
      /\ b.pending = s.pending /\ b.skip = s.skip /\ b.row = s.row
  BY TopIs
<1>2. b.quoted = TRUE
  BY <1>1 DEF Follows, FrameTyped
<1>3. PICK c : c = ScanQuote(b)
  OBVIOUS
<1>4. PICK a : a = [b EXCEPT !.quoted = FALSE]
  OBVIOUS
<1>5. /\ DOMAIN a = ScanFields /\ a.words = b.words /\ a.word = b.word
      /\ a.quoted = FALSE /\ a.stack = b.stack /\ a.pending = b.pending /\ a.base = b.base
      /\ a.out = b.out /\ a.row = b.row /\ a.skip = b.skip
  BY <1>1, <1>4 DEF ScanTyped, ScanFields
<1>6. PICK w : w = Ended(b.words, b.word)
  OBVIOUS
<1>7. PICK v : v = Ended(f.words, f.word)
  OBVIOUS
<1>8. /\ b.words \in Seq(AnyWord) /\ b.word \in AnyWord \cup {NoWord}
      /\ f.words \in Seq(AnyWord) /\ f.word \in AnyWord \cup {NoWord}
      /\ b.pending \in Seq(AnyWord)
  BY <1>1 DEF ScanTyped, FrameTyped
<1>9. w = b.words \/ (EndsIn(w, b.words, b.word) /\ w = Append(b.words, b.word))
  BY <1>6, <1>8, LastAppended DEF Ended
<1>10. /\ DOMAIN c = ScanFields /\ c.words = w /\ c.word = NoWord
       /\ c.pending = NoteTag(w, b.pending)
       /\ c.quoted = FALSE /\ c.stack = b.stack /\ c.skip = b.skip /\ c.row = b.row
       /\ c.base = b.base /\ c.out = b.out
  <2>1. c = EndWord(a)
    BY <1>1, <1>2, <1>3, <1>4 DEF ScanQuote, InBody
  <2>2. Ended(a.words, a.word) = w
    BY <1>5, <1>6
  <2>3. QED
    BY <1>5, <2>1, <2>2, EndWordIs
<1>11. /\ ~(Len(w) > 1 /\ w[Len(w) - 1] = "<<") \/ w = b.words
       /\ w \in Seq(AnyWord)
  BY <1>1, <1>2, <1>8, <1>9 DEF TagNoted, EndsIn
<1>12. c.pending = b.pending /\ TagNoted(c)
  <2>1. NoteTag(w, b.pending) = b.pending
    BY <1>1, <1>11 DEF NoteTag, TagNoted
  <2>2. c.pending = b.pending
    BY <1>10, <2>1
  <2>3. QED
    BY <1>1, <1>10, <1>11, <2>2 DEF TagNoted
<1>13. ScanTyped(c)
  BY <1>1, <1>10, <1>11, <1>12 DEF ScanTyped
<1>14. PICK g : g = [f EXCEPT !.quoted = FALSE, !.words = Ended(@, f.word), !.word = NoWord]
  OBVIOUS
<1>15. /\ DOMAIN g = FrameFields /\ g.words = v /\ g.word = NoWord
       /\ g.via = f.via /\ g.cwd = f.cwd /\ g.quoted = FALSE /\ g.piped = f.piped
       /\ g.substituted = f.substituted
  BY <1>1, <1>7, <1>14 DEF FrameTyped, FrameFields
<1>16. v \in Seq(AnyWord)
  BY <1>7, <1>8 DEF Ended
<1>17. FrameTyped(g)
  BY <1>1, <1>15, <1>16 DEF FrameTyped
<1>18. ASSUME f.substituted
       PROVE  /\ v = Append(f.words, Unknown) /\ f.words # <<>> /\ Len(w) <= 1
              /\ FilesRead(v) = FilesRead(f.words) /\ ChangesTo(v) = {}
  <2>1. /\ f.word = Unknown /\ f.words # <<>> /\ b.words = <<>>
        /\ ChangesTo(f.words) = {}
    BY <1>1, <1>18 DEF Follows
  <2>2. v = Append(f.words, Unknown)
    BY <1>7, <2>1, WordsDiffer DEF Ended
  <2>3. FilesRead(v) = FilesRead(f.words) /\ ChangesTo(v) = {}
    BY <1>8, <2>1, <2>2, UnknownReadsNothing DEF Blank
  <2>4. Len(w) <= 1
    <3>1. w \in Seq(AnyWord) /\ ~(Len(w) > 1)
      BY <1>9, <1>11, <2>1 DEF EndsIn
    <3>2. QED
      BY <3>1
  <2>5. QED
    BY <2>1, <2>2, <2>3, <2>4
<1>19. Follows(c, g)
  <2>1. CASE ~f.substituted
    <3>1. w = v
      BY <1>1, <1>2, <1>6, <1>7, <2>1 DEF Follows
    <3>2. QED
      BY <1>10, <1>15, <2>1, <3>1 DEF Follows
  <2>2. CASE f.substituted
    <3>1. v # <<>>
      BY <1>8, <1>18, <2>2, WordsDiffer
    <3>2. QED
      BY <1>10, <1>15, <1>18, <2>2, <3>1 DEF Follows
  <2>3. QED
    BY <2>1, <2>2
<1>20. ReadAtTop(g) = ReadAtTop(f)
  BY <1>15, <1>18 DEF ReadAtTop, Reads
<1>21. Beside(c, t)
  <2>1. g.via = f.via /\ g.cwd = c.base /\ c.base = b.base /\ c.stack = b.stack
    BY <1>1, <1>10, <1>15
  <2>2. /\ t.frames = Append(Front(s.frames), g) /\ c.skip = t.skip /\ c.row = t.row
        /\ c.pending = t.pending
    BY <1>1, <1>10, <1>12, <1>14
  <2>3. c.out = t.read \cup ReadBelow(s.frames) \cup ReadAtTop(g)
    BY <1>1, <1>10, <1>20
  <2>4. QED
    BY <1>12, <1>13, <1>17, <1>19, <2>1, <2>2, <2>3, MovesOn
<1>22. QED
  BY <1>3, <1>21

\* Of an empty command nothing is read.
LEMMA NoneReadNothing ==
  /\ FilesRead(<<>>) = {} /\ ChangesTo(<<>>) = {}
  /\ \A dir : Paths(dir, FilesRead(<<>>)) = {} /\ Enter(dir, ChangesTo(<<>>)) = dir
<1>1. <<>> \in Seq(AnyWord) /\ Len(<<>>) <= 1
  OBVIOUS
<1>2. FilesRead(<<>>) = {} /\ ChangesTo(<<>>) = {}
  BY <1>1, FewReadNothing
<1>3. QED
  BY <1>2 DEF Paths, Enter

\* A subshell opens, and a segment begins.
LEMMA OpensOn ==
  ASSUME NEW b, NEW s, Beside(b, s), NEW f, f = Last(s.frames),
         NEW via \in {"paren", "subst"}, Waits(f, via), NEW g, g = Frame(via, f.cwd),
         NEW c, DOMAIN c = ScanFields, c.words = <<>>, c.word = NoWord, c.quoted = FALSE,
         c.base = b.base, c.out = b.out \cup Reads(f),
         c.stack = IF via = "subst" THEN Append(b.stack, f.quoted) ELSE b.stack,
         NEW t, DOMAIN t = ShellFields, t.frames = Append(s.frames, g), t.read = s.read,
         c.pending = b.pending, t.pending = s.pending,
         c.skip = t.skip, c.row = t.row
  PROVE  Beside(c, t)
<1>1. /\ FrameTyped(f) /\ f.cwd = b.base
      /\ ScanTyped(b)
      /\ b.out = s.read \cup ReadBelow(s.frames) \cup ReadAtTop(f)
      /\ b.pending = s.pending
  BY TopIs
<1>2. PICK fr : fr = s.frames
  OBVIOUS
<1>3. PICK base : base = b.base
  OBVIOUS
<1>4. PICK q : q = b.stack
  OBVIOUS
<1>5. PICK u : u = t.frames
  OBVIOUS
<1>6. PICK p : p = c.stack
  OBVIOUS
<1>7. /\ Framed(fr, base) /\ Stacked(q, fr) /\ f = Last(fr) /\ u = Append(fr, g)
      /\ q \in Seq(BOOLEAN)
  BY <1>1, <1>2, <1>3, <1>4, <1>5 DEF Beside, ScanTyped
<1>8. /\ DOMAIN g = FrameFields /\ g.via = via /\ g.cwd = base /\ g.words = <<>>
      /\ g.word = NoWord /\ g.quoted = FALSE /\ g.piped = FALSE /\ g.substituted = FALSE
  BY <1>1, <1>3 DEF Frame, FrameFields
<1>9. <<>> \in Seq(AnyWord) /\ Len(<<>>) = 0
  OBVIOUS
<1>10. FrameTyped(g)
  BY <1>8, <1>9 DEF FrameTyped
<1>11. f.quoted \in BOOLEAN /\ p \in Seq(BOOLEAN)
  <2>1. f.quoted \in BOOLEAN
    BY <1>1 DEF FrameTyped
  <2>2. Append(q, f.quoted) \in Seq(BOOLEAN)
    BY <1>7, <2>1
  <2>3. p = Append(q, f.quoted) \/ p = q
    BY <1>4, <1>6
  <2>4. QED
    BY <1>7, <2>1, <2>2, <2>3
<1>12. IsOpened(u, base, p, g, fr)
  <2>1. Waits(Last(fr), g.via) /\ Last(fr).quoted \in BOOLEAN
    BY <1>7, <1>8, <1>11
  <2>2. p = IF g.via = "subst" THEN Append(q, Last(fr).quoted) ELSE q
    BY <1>4, <1>6, <1>7, <1>8
  <2>3. g.cwd = base /\ g.via \in {"paren", "subst"}
    BY <1>8
  <2>4. QED
    BY <1>7, <1>10, <2>1, <2>2, <2>3, FramesOpen
<1>13. /\ Framed(u, base) /\ Stacked(p, u) /\ Last(u) = g
       /\ ReadBelow(u) = ReadBelow(fr) \cup Reads(f)
  BY <1>7, <1>12 DEF IsOpened
<1>14. ScanTyped(c)
  BY <1>1, <1>6, <1>9, <1>11 DEF ScanTyped
<1>15. TagNoted(c)
  BY <1>9 DEF TagNoted
<1>16. Follows(c, g)
  BY <1>8 DEF Follows
<1>17. ReadAtTop(f) = {} /\ ReadAtTop(g) = {}
  BY <1>8 DEF Waits, ReadAtTop
<1>18. c.out = t.read \cup ReadBelow(u) \cup ReadAtTop(g)
  BY <1>1, <1>2, <1>13, <1>17
<1>19. QED
  BY <1>1, <1>3, <1>5, <1>6, <1>13, <1>14, <1>15, <1>16, <1>18 DEF Beside

\* A command that has no words yet, or more behind its first one.
LEMMA FollowsFew ==
  ASSUME NEW b, NEW f, ScanTyped(b), FrameTyped(f), Follows(b, f), ~f.substituted,
         f.words = <<>> \/ Head(f.words) # Parens
  PROVE  b.words = f.words /\ b.word = f.word
<1>1. ASSUME f.words = <<Parens>> \o b.words PROVE FALSE
  <2>1. PICK p \in AnyWord : p = Parens
    BY WordsDiffer
  <2>2. b.words \in Seq(AnyWord)
    BY DEF ScanTyped
  <2>3. Head(<<p>> \o b.words) = p /\ <<p>> \o b.words # <<>>
    BY <2>2
  <2>4. QED
    BY <1>1, <2>1, <2>3
<1>2. QED
  BY <1>1 DEF Follows

\* A parenthesis opens a frame.
LEMMA ParensOpens ==
  ASSUME NEW b, NEW s, Beside(b, s), NEW f, f = Last(s.frames), ~f.quoted, f.words = <<>>,
         s.skip = <<>>,
         NEW t, DOMAIN t = ShellFields, t.frames = Append(s.frames, Frame("paren", f.cwd)),
         t.pending = s.pending, t.skip = s.skip, t.row = s.row, t.read = s.read
  PROVE  Beside(ScanSeparator(b, "("), t)
<1>1. /\ FrameTyped(f) /\ f.cwd = b.base
      /\ ScanTyped(b) /\ Follows(b, f) /\ TagNoted(b)
      /\ b.pending = s.pending /\ b.skip = s.skip /\ b.row = s.row
  BY TopIs
<1>2. b.quoted = FALSE /\ ~f.substituted /\ b.word = NoWord /\ f.word = NoWord
  BY <1>1 DEF Follows, ScanTyped
<1>3. b.words = <<>>
  BY <1>1, <1>2, FollowsFew
<1>4. PICK c : c = ScanSeparator(b, "(")
  OBVIOUS
<1>5. c = EndSegment(b)
  BY <1>1, <1>2, <1>4 DEF ScanSeparator, InBody
<1>6. /\ DOMAIN c = ScanFields /\ c.words = <<>> /\ c.word = NoWord
      /\ c.pending = b.pending
      /\ c.quoted = b.quoted /\ c.stack = b.stack /\ c.skip = b.skip /\ c.row = b.row
      /\ c.base = Enter(b.base, ChangesTo(b.words))
      /\ c.out = b.out \cup Paths(b.base, FilesRead(b.words))
  BY <1>1, <1>2, <1>5, EndSegmentIs
<1>7. Waits(f, "paren")
  BY <1>2 DEF Waits
<1>8. Reads(f) = {}
  BY NoneReadNothing DEF Reads
<1>9. c.base = b.base /\ c.out = b.out \cup Reads(f)
  BY <1>3, <1>6, <1>8, NoneReadNothing
<1>10. Beside(c, t)
  <2>1. PICK via \in {"paren", "subst"} : via = "paren"
    OBVIOUS
  <2>2. PICK g : g = Frame(via, f.cwd)
    OBVIOUS
  <2>3. /\ Waits(f, via) /\ c.quoted = FALSE /\ t.frames = Append(s.frames, g)
        /\ c.stack = IF via = "subst" THEN Append(b.stack, f.quoted) ELSE b.stack
    BY <1>2, <1>6, <1>7, <2>1, <2>2
  <2>4. c.skip = t.skip /\ c.row = t.row
    BY <1>1, <1>6
  <2>5. QED
    BY <1>6, <1>9, <2>1, <2>2, <2>3, <2>4, OpensOn, ZenonT(60)
<1>11. QED
  BY <1>4, <1>10

\* A substitution opens a frame.
LEMMA SubstOpens ==
  ASSUME NEW b, NEW s, Beside(b, s), NEW f, f = Last(s.frames), s.skip = <<>>,
         f.words # <<>>, Head(f.words) # Parens, ~f.substituted, f.word \in {NoWord, Empty},
         ChangesTo(f.words) = {},
         NEW t, DOMAIN t = ShellFields, t.frames = Append(s.frames, Frame("subst", f.cwd)),
         t.pending = s.pending, t.skip = s.skip, t.row = s.row, t.read = s.read
  PROVE  Beside(ScanSubst(b), t)
<1>1. /\ FrameTyped(f) /\ f.cwd = b.base
      /\ ScanTyped(b) /\ Follows(b, f) /\ TagNoted(b)
      /\ b.pending = s.pending /\ b.skip = s.skip /\ b.row = s.row
  BY TopIs
<1>2. b.words = f.words /\ b.word = f.word /\ b.quoted = f.quoted
  <2>1. b.words = f.words /\ b.word = f.word
    BY <1>1, FollowsFew
  <2>2. QED
    BY <1>1, <2>1 DEF Follows
<1>3. PICK c : c = ScanSubst(b)
  OBVIOUS
<1>4. PICK e : e = EndSegment(b)
  OBVIOUS
<1>12. PICK w : w = Ended(b.words, b.word)
  OBVIOUS
<1>13. f.words \in Seq(AnyWord) /\ Empty \in AnyWord /\ Empty # NoWord /\ Empty \in Blank
  BY <1>1, WordsDiffer DEF FrameTyped, Blank
<1>14. FilesRead(w) = FilesRead(f.words) /\ ChangesTo(w) = {}
  <2>1. CASE f.word = NoWord
    BY <1>2, <1>12, <2>1 DEF Ended
  <2>2. CASE f.word = Empty
    <3>1. w = Append(f.words, Empty)
      BY <1>2, <1>12, <1>13, <2>2 DEF Ended
    <3>2. QED
      BY <1>13, <3>1, UnknownReadsNothing
  <2>3. QED
    BY <2>1, <2>2
<1>15. NoteTag(w, b.pending) = b.pending
  <2>1. CASE f.word = NoWord
    BY <1>1, <1>2, <1>12, <2>1 DEF Ended, NoteTag, TagNoted
  <2>2. CASE f.word = Empty
    <3>1. w = Append(f.words, Empty)
      BY <1>2, <1>12, <1>13, <2>2 DEF Ended
    <3>2. EndsIn(w, f.words, Empty)
      BY <1>13, <3>1, LastAppended
    <3>3. Last(f.words) # "<<"
      BY <1>1, <1>2, <1>13, <2>2 DEF Follows, TagNoted
    <3>4. QED
      BY <3>2, <3>3 DEF EndsIn, NoteTag
  <2>3. QED
    BY <2>1, <2>2
<1>5. /\ DOMAIN e = ScanFields /\ e.words = <<>> /\ e.word = NoWord
      /\ e.pending = b.pending
      /\ e.quoted = b.quoted /\ e.stack = b.stack /\ e.skip = b.skip /\ e.row = b.row
      /\ e.base = Enter(b.base, ChangesTo(w))
      /\ e.out = b.out \cup Paths(b.base, FilesRead(w))
  BY <1>1, <1>4, <1>12, <1>15, EndSegmentWith
<1>6. c = [e EXCEPT !.stack = Append(@, b.quoted), !.quoted = FALSE]
  BY <1>1, <1>3, <1>4 DEF ScanSubst, InBody
<1>7. /\ DOMAIN c = ScanFields /\ c.words = <<>> /\ c.word = NoWord
      /\ c.pending = b.pending /\ c.quoted = FALSE /\ c.stack = Append(b.stack, f.quoted)
      /\ c.skip = b.skip /\ c.row = b.row
      /\ c.base = Enter(b.base, ChangesTo(w))
      /\ c.out = b.out \cup Paths(b.base, FilesRead(w))
  BY <1>2, <1>5, <1>6 DEF ScanFields
<1>8. Waits(f, "subst")
  BY <1>1 DEF Waits, Follows
<1>9. c.base = b.base /\ c.out = b.out \cup Reads(f)
  BY <1>1, <1>2, <1>7, <1>14 DEF Enter, Reads
<1>10. Beside(c, t)
  <2>1. PICK via \in {"paren", "subst"} : via = "subst"
    OBVIOUS
  <2>2. PICK g : g = Frame(via, f.cwd)
    OBVIOUS
  <2>3. /\ Waits(f, via) /\ t.frames = Append(s.frames, g)
        /\ c.stack = IF via = "subst" THEN Append(b.stack, f.quoted) ELSE b.stack
    BY <1>7, <1>8, <2>1, <2>2
  <2>4. c.skip = t.skip /\ c.row = t.row
    BY <1>1, <1>7
  <2>5. QED
    BY <1>7, <1>9, <2>1, <2>2, <2>3, <2>4, OpensOn, ZenonT(60)
<1>11. QED
  BY <1>3, <1>10

\* What a closing parenthesis makes of the command outside.
Outside(outer, via) == IF via = "subst" THEN Return(outer) ELSE Argument(outer, Parens)

IsReturned(g, outer, c) ==
  /\ FrameTyped(g) /\ g.cwd = outer.cwd /\ g.via = outer.via
  /\ Follows(c, g) /\ ReadAtTop(g) = Reads(outer)

\* The outer frame goes on where it waited.
LEMMA Returns ==
  ASSUME NEW outer, FrameTyped(outer), NEW via \in {"paren", "subst"}, Waits(outer, via),
         NEW g, g = Outside(outer, via),
         NEW c, c.words = <<>>, c.word = NoWord, c.quoted = outer.quoted
  PROVE  IsReturned(g, outer, c)
<1>1. /\ ~outer.substituted /\ (~outer.quoted => outer.word = NoWord) /\ outer.words \in Seq(AnyWord)
      /\ outer.quoted \in BOOLEAN /\ outer.substituted = FALSE
  BY DEF Waits, FrameTyped
<1>2. Unknown \in AnyWord /\ Parens \in AnyWord
  BY WordsDiffer
<1>20. Len(c.words) <= 1
  BY Len(<<>>) = 0
<1>3. CASE via = "subst" /\ outer.quoted
  <2>1. outer.words # <<>> /\ ChangesTo(outer.words) = {}
    BY <1>3 DEF Waits
  <2>2. g = [outer EXCEPT !.word = Unknown, !.substituted = TRUE]
    BY <1>3 DEF Outside, Return
  <2>3. /\ DOMAIN g = FrameFields /\ g.words = outer.words /\ g.word = Unknown
        /\ g.via = outer.via /\ g.cwd = outer.cwd /\ g.quoted = outer.quoted
        /\ g.piped = outer.piped /\ g.substituted = TRUE
    BY <2>2 DEF FrameTyped, FrameFields
  <2>4. FrameTyped(g)
    BY <1>2, <2>3 DEF FrameTyped
  <2>5. Follows(c, g)
    <3>1. /\ c.quoted = g.quoted /\ g.quoted /\ g.substituted /\ g.words # <<>>
          /\ ChangesTo(g.words) = {} /\ g.word = Unknown
      BY <1>3, <2>1, <2>3
    <3>2. QED
      BY <1>20, <3>1 DEF Follows
  <2>6. ReadAtTop(g) = Reads(outer)
    BY <2>3 DEF ReadAtTop, Reads
  <2>7. QED
    BY <2>3, <2>4, <2>5, <2>6 DEF IsReturned
<1>4. CASE via = "subst" /\ ~outer.quoted
  <2>1. outer.words # <<>> /\ ChangesTo(outer.words) = {}
    BY <1>4 DEF Waits
  <2>2. g = [outer EXCEPT !.words = Append(@, Unknown), !.substituted = TRUE]
    BY <1>4 DEF Outside, Return
  <2>3. /\ DOMAIN g = FrameFields /\ g.words = Append(outer.words, Unknown)
        /\ g.word = NoWord
        /\ g.via = outer.via /\ g.cwd = outer.cwd /\ g.quoted = FALSE
        /\ g.piped = outer.piped /\ g.substituted = TRUE
    BY <1>1, <1>4, <2>2 DEF FrameTyped, FrameFields
  <2>4. g.words \in Seq(AnyWord) /\ g.words # <<>>
    BY <1>1, <1>2, <2>3
  <2>5. FrameTyped(g)
    BY <2>3, <2>4 DEF FrameTyped
  <2>6. FilesRead(g.words) = FilesRead(outer.words) /\ ChangesTo(g.words) = {}
    BY <1>1, <2>1, <2>3, UnknownReadsNothing DEF Blank
  <2>7. Follows(c, g)
    <3>1. /\ c.quoted = g.quoted /\ ~g.quoted /\ g.substituted /\ g.words # <<>>
          /\ ChangesTo(g.words) = {} /\ g.word = NoWord
      BY <1>1, <1>4, <2>3, <2>4, <2>6
    <3>2. QED
      BY <1>20, <3>1 DEF Follows
  <2>8. ReadAtTop(g) = Reads(outer)
    BY <2>3, <2>6 DEF ReadAtTop, Reads
  <2>9. QED
    BY <2>3, <2>5, <2>7, <2>8 DEF IsReturned
<1>5. CASE via = "paren"
  <2>1. outer.words = <<>> /\ ~outer.quoted
    BY <1>5 DEF Waits
  <2>2. g = [outer EXCEPT !.words = Append(@, Parens)]
    BY <1>5 DEF Outside, Argument
  <2>3. /\ DOMAIN g = FrameFields /\ g.words = Append(outer.words, Parens)
        /\ g.word = NoWord
        /\ g.via = outer.via /\ g.cwd = outer.cwd /\ g.quoted = FALSE
        /\ g.piped = outer.piped /\ g.substituted = FALSE
    BY <1>1, <2>1, <2>2 DEF FrameTyped, FrameFields
  <2>4. g.words \in Seq(AnyWord)
    BY <1>1, <1>2, <2>3
  <2>5. FrameTyped(g)
    BY <2>3, <2>4 DEF FrameTyped
  <2>6. g.words = <<Parens>> \o <<>>
    <3>1. PICK p \in AnyWord : p = Parens
      BY <1>2
    <3>2. Append(<<>>, p) = <<p>> \o <<>>
      OBVIOUS
    <3>3. QED
      BY <2>1, <2>3, <3>1, <3>2
  <2>7. AllRedirected(<<>>)
    BY DEF AllRedirected
  <2>8. Follows(c, g)
    BY <1>1, <2>1, <2>3, <2>6, <2>7 DEF Follows
  <2>9. ReadAtTop(g) = Reads(outer)
    BY <2>1, <2>3, NoneReadNothing DEF ReadAtTop, Reads
  <2>10. QED
    BY <2>3, <2>5, <2>8, <2>9 DEF IsReturned
<1>6. QED
  BY <1>3, <1>4, <1>5

IsOuter(outer, base, fr) ==
  FrameTyped(outer) /\ outer.cwd = base /\ Waits(outer, Last(fr).via)

\* The command outside of a subshell waits for it.
LEMMA OuterIs ==
  ASSUME NEW fr, NEW base, Framed(fr, base), Last(fr).via # "line",
         NEW outer, outer = Last(Front(fr))
  PROVE  IsOuter(outer, base, fr)
<1>1. IsSeq(fr) /\ Len(fr) > 0
  BY DEF Framed
<1>2. PICK n \in Nat : n = Len(fr) /\ n > 0 /\ Last(fr) = fr[n]
  <2>1. Len(fr) \in Nat
    BY <1>1 DEF IsSeq
  <2>2. QED
    BY <1>1, <2>1 DEF Last
<1>3. n > 1
  <2>1. n = 1 => fr[n].via = "line"
    BY <1>2 DEF Framed
  <2>2. QED
    BY <1>2, <2>1
<1>4. outer = fr[n - 1]
  <2>1. PICK t : t = Append(Front(Front(fr)), 0)
    OBVIOUS
  <2>2. IsPopped(t, fr, 0)
    BY <1>1, <1>2, <1>3, <2>1, TopPopped
  <2>3. QED
    BY <1>2, <2>2 DEF IsPopped
<1>5. n - 1 \in 1..n - 1 /\ n - 1 \in 1..n /\ (n - 1) + 1 = n
  BY <1>3
<1>6. QED
  BY <1>2, <1>4, <1>5 DEF Framed, IsOuter

\* A subshell ends: all its segments were read, in the directory of the line.
LEMMA Closes ==
  ASSUME NEW b, NEW s, Beside(b, s), NEW f, f = Last(s.frames), ~f.quoted, s.skip = <<>>,
         f.via # "line", ChangesTo(f.words) = {},
         NEW below, below = Front(s.frames),
         f.via = "paren" => \A i \in DOMAIN below : below[i].via # "subst",
         NEW t, DOMAIN t = ShellFields,
         t.frames = Append(Front(below), Outside(Last(below), f.via)),
         t.pending = s.pending, t.skip = s.skip, t.row = s.row, t.read = s.read \cup Reads(f)
  PROVE  Beside(ScanClose(b), t)
<1>1. /\ FrameTyped(f) /\ f.cwd = b.base
      /\ ScanTyped(b) /\ Follows(b, f) /\ TagNoted(b)
      /\ b.out = s.read \cup ReadBelow(s.frames) \cup ReadAtTop(f)
      /\ b.pending = s.pending /\ b.skip = s.skip /\ b.row = s.row
  BY TopIs
<1>2. /\ Paths(b.base, FilesRead(b.words)) \cup ReadAtTop(f) = Reads(f)
      /\ ChangesTo(b.words) = {} /\ b.word = NoWord /\ b.quoted = FALSE
  <2>1. EndAlike(b, f)
    BY <1>1, EndsAlike
  <2>2. QED
    BY <2>1 DEF EndAlike
<1>20. b.word = NoWord
  BY <1>2
<1>3. PICK c : c = ScanClose(b)
  OBVIOUS
<1>4. PICK e : e = EndSegment(b)
  OBVIOUS
<1>5. /\ DOMAIN e = ScanFields /\ e.words = <<>> /\ e.word = NoWord
      /\ e.pending = b.pending
      /\ e.quoted = b.quoted /\ e.stack = b.stack /\ e.skip = b.skip /\ e.row = b.row
      /\ e.base = Enter(b.base, ChangesTo(b.words))
      /\ e.out = b.out \cup Paths(b.base, FilesRead(b.words))
  BY <1>1, <1>20, <1>4, EndSegmentIs
<1>6. c = [e EXCEPT !.quoted = QuotedBehind(b.stack),
                    !.stack = IF @ = <<>> THEN @ ELSE Front(@)]
  BY <1>1, <1>2, <1>3, <1>4 DEF ScanClose, InBody
<1>7. /\ DOMAIN c = ScanFields /\ c.words = <<>> /\ c.word = NoWord
      /\ c.pending = b.pending /\ c.quoted = QuotedBehind(b.stack)
      /\ c.stack = (IF b.stack = <<>> THEN b.stack ELSE Front(b.stack))
      /\ c.skip = b.skip /\ c.row = b.row /\ c.base = b.base
      /\ c.out = b.out \cup Paths(b.base, FilesRead(b.words))
  BY <1>2, <1>5, <1>6 DEF ScanFields, Enter
<1>8. PICK fr : fr = s.frames
  OBVIOUS
<1>9. PICK q : q = b.stack
  OBVIOUS
<1>10. PICK base : base = b.base
  OBVIOUS
<1>11. PICK outer : outer = Last(below)
  OBVIOUS
<1>12. PICK g : g = Outside(outer, f.via)
  OBVIOUS
<1>13. PICK u : u = t.frames
  OBVIOUS
<1>14. PICK p : p = c.stack
  OBVIOUS
<1>15. /\ Framed(fr, base) /\ Stacked(q, fr) /\ q \in Seq(BOOLEAN) /\ f = Last(fr)
       /\ outer = Last(Front(fr)) /\ u = Append(Front(Front(fr)), g)
       /\ p = IF q = <<>> THEN q ELSE Front(q)
       /\ Last(fr).via = "paren" => \A i \in DOMAIN Front(fr) : Front(fr)[i].via # "subst"
  BY <1>1, <1>7, <1>8, <1>9, <1>10, <1>11, <1>12, <1>13, <1>14 DEF Beside, ScanTyped
<1>16. f.via \in {"paren", "subst"}
  BY <1>1 DEF FrameTyped
<1>17. FrameTyped(outer) /\ outer.cwd = base /\ Waits(outer, f.via)
  <2>1. Last(fr).via # "line"
    BY <1>15
  <2>2. IsOuter(outer, base, fr)
    BY <1>15, <2>1, OuterIs
  <2>3. QED
    BY <1>15, <2>2 DEF IsOuter
<1>18. PICK v : v.words = <<>> /\ v.word = NoWord /\ v.quoted = outer.quoted
  <2>1. PICK r : r = [words |-> <<>>, word |-> NoWord, quoted |-> outer.quoted]
    OBVIOUS
  <2>2. r.words = <<>> /\ r.word = NoWord /\ r.quoted = outer.quoted
    BY <2>1
  <2>3. QED
    BY <2>2
<1>19. IsReturned(g, outer, v)
  BY <1>12, <1>16, <1>17, <1>18, Returns
<1>21. FrameTyped(g) /\ g.cwd = base /\ g.via = outer.via
  BY <1>17, <1>19 DEF IsReturned
<1>22. IsClosed(u, base, p, q, g, outer, fr)
  BY <1>15, <1>21, FramesClose
<1>23. /\ Framed(u, base) /\ Stacked(p, u) /\ Last(u) = g
       /\ ReadBelow(fr) = ReadBelow(u) \cup Reads(outer)
       /\ QuotedBehind(q) = outer.quoted /\ p \in Seq(BOOLEAN)
  BY <1>22 DEF IsClosed
<1>24. Follows(c, g) /\ ReadAtTop(g) = Reads(outer)
  <2>1. c.words = <<>> /\ c.word = NoWord /\ c.quoted = outer.quoted
    BY <1>7, <1>9, <1>23
  <2>2. IsReturned(g, outer, c)
    BY <1>12, <1>16, <1>17, <2>1, Returns
  <2>3. QED
    BY <2>2 DEF IsReturned
<1>25. <<>> \in Seq(AnyWord) /\ Len(<<>>) = 0
  OBVIOUS
<1>26. ScanTyped(c) /\ TagNoted(c)
  <2>1. outer.quoted \in BOOLEAN
    BY <1>17 DEF FrameTyped
  <2>2. c.stack \in Seq(BOOLEAN) /\ c.quoted \in BOOLEAN
    BY <1>7, <1>9, <1>14, <1>23, <2>1
  <2>3. ScanTyped(c)
    BY <1>1, <1>7, <1>25, <2>2 DEF ScanTyped
  <2>4. TagNoted(c)
    BY <1>7, <1>25 DEF TagNoted
  <2>5. QED
    BY <2>3, <2>4
<1>27. c.out = t.read \cup ReadBelow(u) \cup ReadAtTop(g)
  BY <1>1, <1>2, <1>7, <1>8, <1>23, <1>24
<1>28. Beside(c, t)
  BY <1>1, <1>7, <1>10, <1>13, <1>14, <1>23, <1>24, <1>26, <1>27 DEF Beside
<1>29. QED
  BY <1>3, <1>28

\* No construct is noted, and none was.
LEMMA NoQuirk ==
  ASSUME NEW q, Quirk(q), quirks' = {}
  PROVE  quirks = {} /\ q = {}
BY DEF Quirk

\* An element is put to the words of the command at the top.
LEMMA AppendWordKeeps ==
  ASSUME Beside(scan, shell), NEW x \in Word, AppendWord(x), quirks' = {}
  PROVE  Beside(scan, shell)'
<1>1. PICK b : b = scan
  OBVIOUS
<1>2. PICK s : s = shell
  OBVIOUS
<1>3. PICK f : f = Last(s.frames)
  OBVIOUS
<1>4. PICK t : t = shell'
  OBVIOUS
<1>5. Top = f /\ Below = Front(s.frames) /\ DOMAIN s = ShellFields /\ Beside(b, s)
  BY <1>1, <1>2, <1>3 DEF Top, Below, Beside
<1>6. s.skip = <<>> /\ ~f.quoted /\ Fits(x) /\ scan' = ScanWord(b, x)
  BY <1>1, <1>2, <1>5 DEF AppendWord, InDoc
<1>7. ~f.substituted /\ ((Announced(f, x) /\ s.pending # <<>>) => Last(s.pending) # x)
  <2>1. /\ If(f.substituted, "words behind a substitution") = {}
        /\ If(Announced(f, x) /\ s.pending # <<>> /\ Last(s.pending) = x,
              "one tag twice") = {}
    BY <1>2, <1>5, NoQuirk DEF AppendWord
  <2>2. QED
    BY <2>1, NotSo
<1>8. (f.words # <<>> /\ Head(f.words) = Parens) =>
        x \in Redirection \/ Last(f.words) \in Redirection
  BY <1>5, <1>6 DEF Fits, AfterRedirection, Begins
<1>9. t = [s EXCEPT !.frames = Append(Front(s.frames), Argument(f, x)),
             !.pending = IF Announced(f, x) THEN Append(@, x) ELSE @]
  BY <1>2, <1>4, <1>5 DEF AppendWord
<1>10. /\ DOMAIN t = ShellFields /\ t.frames = Append(Front(s.frames), Argument(f, x))
       /\ t.pending = (IF Announced(f, x) THEN Append(s.pending, x) ELSE s.pending)
       /\ t.skip = s.skip /\ t.row = s.row /\ t.read = s.read
  BY <1>5, <1>9 DEF ShellFields
<1>11. x \in Word \cup Redirection
  OBVIOUS
<1>12. Beside(ScanWord(b, x), t)
  BY <1>3, <1>5, <1>6, <1>7, <1>8, <1>10, <1>11, WordMoves
<1>13. QED
  BY <1>4, <1>6, <1>12

\* A redirection.
LEMMA RedirectKeeps ==
  ASSUME Beside(scan, shell), NEW x \in Redirection, Redirect(x), quirks' = {}
  PROVE  Beside(scan, shell)'
<1>1. PICK b : b = scan
  OBVIOUS
<1>2. PICK s : s = shell
  OBVIOUS
<1>3. PICK f : f = Last(s.frames)
  OBVIOUS
<1>4. PICK t : t = shell'
  OBVIOUS
<1>5. Top = f /\ Below = Front(s.frames) /\ DOMAIN s = ShellFields /\ Beside(b, s)
  BY <1>1, <1>2, <1>3 DEF Top, Below, Beside
<1>6. /\ s.skip = <<>> /\ ~f.quoted /\ ~AfterRedirection /\ f.words # <<>>
      /\ scan' = ScanWord(b, x)
  BY <1>1, <1>2, <1>5 DEF Redirect, InDoc
<1>7. ~f.substituted
  BY <1>5, NoQuirk, NotSo DEF Redirect
<1>8. ~Announced(f, x)
  <2>1. Last(f.words) \notin Redirection
    BY <1>5, <1>6 DEF AfterRedirection
  <2>2. QED
    BY <2>1 DEF Announced, Redirection
<1>9. t = [s EXCEPT !.frames = Append(Front(s.frames), Argument(f, x))]
  BY <1>2, <1>4, <1>5 DEF Redirect
<1>10. /\ DOMAIN t = ShellFields /\ t.frames = Append(Front(s.frames), Argument(f, x))
       /\ t.pending = s.pending /\ t.skip = s.skip /\ t.row = s.row /\ t.read = s.read
  BY <1>5, <1>9 DEF ShellFields
<1>11. x \in Word \cup Redirection
  OBVIOUS
<1>12. Beside(ScanWord(b, x), t)
  BY <1>3, <1>5, <1>6, <1>7, <1>8, <1>10, <1>11, WordMoves
<1>13. QED
  BY <1>4, <1>6, <1>12

\* A word.
LEMMA TypedKeeps ==
  ASSUME Beside(scan, shell), NEW x \in {"a", "cat", "sep"}, Typed(x)
  PROVE  Beside(scan, shell)'
<1>1. PICK b : b = scan
  OBVIOUS
<1>2. PICK s : s = shell
  OBVIOUS
<1>3. PICK f : f = Last(s.frames)
  OBVIOUS
<1>4. PICK t : t = shell'
  OBVIOUS
<1>5. PICK c : c = scan'
  OBVIOUS
<1>6. /\ Top = f /\ Below = Front(s.frames) /\ DOMAIN s = ShellFields /\ DOMAIN b = ScanFields
      /\ Beside(b, s) /\ b.row = s.row /\ b.skip = s.skip /\ (b.quoted <=> f.quoted)
  BY <1>1, <1>2, <1>3 DEF Top, Below, Beside, ScanTyped, Follows
<1>7. CASE InDoc
  <2>1. InBody(b)
    BY <1>2, <1>6, <1>7 DEF InDoc, InBody
  <2>2. c = [b EXCEPT !.row = Glue(@, x)]
    BY <1>1, <1>5, <2>1 DEF Typed, ScanSeparator, ScanWord
  <2>3. t = [s EXCEPT !.row = Glue(@, x)]
    BY <1>2, <1>4, <1>7 DEF Typed
  <2>4. /\ DOMAIN c = ScanFields /\ c.words = b.words /\ c.word = b.word
        /\ c.quoted = b.quoted /\ c.stack = b.stack /\ c.pending = b.pending
        /\ c.base = b.base /\ c.out = b.out /\ c.skip = b.skip /\ c.row = Glue(b.row, x)
    BY <1>6, <2>2 DEF ScanFields
  <2>5. /\ DOMAIN t = ShellFields /\ t.frames = s.frames /\ t.pending = s.pending
        /\ t.read = s.read /\ t.skip = s.skip /\ t.row = Glue(s.row, x)
    BY <1>6, <2>3 DEF ShellFields
  <2>6. c.row = t.row /\ c.skip = t.skip
    BY <1>6, <2>4, <2>5
  <2>7. Beside(c, t)
    BY <1>6, <2>4, <2>5, <2>6, BodyMoves
  <2>8. QED
    BY <1>4, <1>5, <2>7
<1>8. CASE ~InDoc
  <2>1. s.skip = <<>> /\ f.quoted /\ ~InBody(b) /\ b.quoted
    BY <1>2, <1>6, <1>8 DEF InDoc, InBody, Typed
  <2>2. c = ScanWord(b, x)
    BY <1>1, <1>5, <2>1 DEF Typed, ScanSeparator
  <2>3. t = [s EXCEPT !.frames = Append(Front(s.frames), [f EXCEPT !.word = Glue(@, x)])]
    BY <1>2, <1>4, <1>6, <1>8 DEF Typed
  <2>4. /\ DOMAIN t = ShellFields
        /\ t.frames = Append(Front(s.frames), [f EXCEPT !.word = Glue(@, x)])
        /\ t.pending = s.pending /\ t.skip = s.skip /\ t.row = s.row /\ t.read = s.read
    BY <1>6, <2>3 DEF ShellFields
  <2>5. x \in AnyWord /\ x # NoWord
    BY DEF AnyWord, Word, Name, Reader, NoWord
  <2>6. Beside(ScanWord(b, x), t)
    BY <1>3, <1>6, <2>1, <2>4, <2>5, QuotedMoves
  <2>7. QED
    BY <1>4, <1>5, <2>2, <2>6
<1>9. QED
  BY <1>7, <1>8

\* No directory changes, or that of the line does.
LEMMA ChangesWhere ==
  ASSUME NEW f, f = Top, NEW by \in {"seq", "pipe", "background"}, ScopedCd(by) = {}
  PROVE  ChangesTo(f.words) = {} \/ (InShell(f, by) /\ f.via = "line")
<1>1. /\ If(Chdirs(f) /\ (by = "pipe" \/ f.piped \/ f.via # "line"), "cd in a subshell") = {}
      /\ If(Chdirs(f) /\ by = "background", "cd in the background") = {}
  BY DEF ScopedCd
<1>2. QED
  BY <1>1, NotSo DEF Chdirs, InShell

\* A separator of commands, or a pipe.
LEMMA SeparateKeeps ==
  ASSUME Beside(scan, shell), NEW by \in {"seq", "pipe", "background"}, Separate(by), quirks' = {}
  PROVE  Beside(scan, shell)'
<1>1. PICK b : b = scan
  OBVIOUS
<1>2. PICK s : s = shell
  OBVIOUS
<1>3. PICK f : f = Last(s.frames)
  OBVIOUS
<1>4. PICK t : t = shell'
  OBVIOUS
<1>5. PICK c : c = scan'
  OBVIOUS
<1>6. /\ Top = f /\ Below = Front(s.frames) /\ DOMAIN s = ShellFields
      /\ Beside(b, s) /\ b.skip = s.skip /\ (b.quoted <=> f.quoted)
      /\ b.pending = s.pending /\ b.pending \in Seq(AnyWord) /\ f.words \in Seq(AnyWord)
  BY <1>1, <1>2, <1>3, TopIs DEF Top, Below, Beside, ScanTyped, FrameTyped, Follows
<1>7. s.skip = <<>> /\ ~f.quoted /\ c = ScanSeparator(b, "sep")
  BY <1>1, <1>2, <1>5, <1>6 DEF Separate, InDoc
<1>8. c = EndSegment(b)
  BY <1>6, <1>7 DEF ScanSeparator, InBody
<1>9. Segmented(c, b) /\ c.pending = s.pending /\ c.skip = s.skip
  BY <1>3, <1>6, <1>7, <1>8, SegmentEnds
<1>10. ScopedCd(by) = {} /\ MisreadCd(f.words) = {}
  BY <1>6, NoQuirk DEF Separate
<1>11. /\ ChangesTo(f.words) = {} \/ (InShell(f, by) /\ f.via = "line")
       /\ Landed(f.cwd, f.words) = Enter(f.cwd, ChangesTo(f.words))
  BY <1>6, <1>10, ChangesWhere, LandedIs
<1>12. t = [s EXCEPT !.frames = Append(Front(s.frames), Ran(f, by)),
              !.read = @ \cup Reads(f)]
  BY <1>2, <1>4, <1>6 DEF Separate
<1>13. /\ DOMAIN t = ShellFields /\ t.frames = Append(Front(s.frames), Ran(f, by))
       /\ t.pending = s.pending /\ t.skip = s.skip /\ t.row = s.row
       /\ t.read = s.read \cup Reads(f)
  BY <1>6, <1>12 DEF ShellFields
<1>14. t.pending = c.pending /\ t.skip = c.skip /\ c.pending \in Seq(AnyWord)
  BY <1>6, <1>9, <1>13
<1>15. Beside(c, t)
  BY <1>3, <1>6, <1>7, <1>9, <1>11, <1>13, <1>14, SegmentMoves
<1>16. QED
  BY <1>4, <1>5, <1>15

\* The end of the line, with the heredocs that are pending.
LEMMA NewlineKeeps ==
  ASSUME Beside(scan, shell), Newline, quirks' = {}
  PROVE  Beside(scan, shell)'
<1>1. PICK b : b = scan
  OBVIOUS
<1>2. PICK s : s = shell
  OBVIOUS
<1>3. PICK f : f = Last(s.frames)
  OBVIOUS
<1>4. PICK t : t = shell'
  OBVIOUS
<1>5. PICK c : c = scan'
  OBVIOUS
<1>6. /\ Top = f /\ Below = Front(s.frames) /\ DOMAIN s = ShellFields /\ DOMAIN b = ScanFields
      /\ Beside(b, s) /\ b.row = s.row /\ b.skip = s.skip /\ (b.quoted <=> f.quoted)
      /\ b.pending = s.pending /\ b.pending \in Seq(AnyWord) /\ f.words \in Seq(AnyWord)
  BY <1>1, <1>2, <1>3, TopIs DEF Top, Below, Beside, ScanTyped, FrameTyped, Follows
<1>7. ~f.quoted /\ c = ScanNewline(b)
  BY <1>1, <1>5, <1>6 DEF Newline
<1>8. CASE InDoc
  <2>1. InBody(b)
    BY <1>2, <1>6, <1>8 DEF InDoc, InBody
  <2>2. c = [b EXCEPT !.row = NoWord, !.skip = IF b.row = Head(@) THEN Tail(@) ELSE @]
    BY <1>7, <2>1 DEF ScanNewline, SkipLine
  <2>3. t = [s EXCEPT !.row = NoWord, !.skip = IF s.row = Head(@) THEN Tail(@) ELSE @]
    BY <1>2, <1>4, <1>8 DEF Newline
  <2>4. /\ DOMAIN c = ScanFields /\ c.words = b.words /\ c.word = b.word
        /\ c.quoted = b.quoted /\ c.stack = b.stack /\ c.pending = b.pending
        /\ c.base = b.base /\ c.out = b.out /\ c.row = NoWord
        /\ c.skip = IF b.row = Head(b.skip) THEN Tail(b.skip) ELSE b.skip
    BY <1>6, <2>2 DEF ScanFields
  <2>5. /\ DOMAIN t = ShellFields /\ t.frames = s.frames /\ t.pending = s.pending
        /\ t.read = s.read /\ t.row = NoWord
        /\ t.skip = IF s.row = Head(s.skip) THEN Tail(s.skip) ELSE s.skip
    BY <1>6, <2>3 DEF ShellFields
  <2>6. c.row = t.row /\ c.skip = t.skip
    BY <1>6, <2>4, <2>5
  <2>7. Beside(c, t)
    BY <1>6, <2>4, <2>5, <2>6, BodyMoves
  <2>8. QED
    BY <1>4, <1>5, <2>7
<1>9. CASE ~InDoc
  <2>1. s.skip = <<>> /\ ~InBody(b)
    BY <1>2, <1>6, <1>9 DEF InDoc, InBody
  <2>2. PICK e : e = EndSegment(b)
    OBVIOUS
  <2>3. Segmented(e, b) /\ e.pending = s.pending /\ e.skip = s.skip
    BY <1>3, <1>6, <1>7, <2>2, SegmentEnds, ZenonT(60)
  <2>4. c = [e EXCEPT !.skip = e.pending, !.pending = <<>>]
    BY <1>6, <1>7, <2>1, <2>2 DEF ScanNewline
  <2>5. Segmented(c, b) /\ c.skip = s.pending /\ c.pending = <<>>
    BY <2>3, <2>4 DEF Segmented, ScanFields
  <2>6. ScopedCd("seq") = {} /\ MisreadCd(f.words) = {}
    <3>1. Quirk(ScopedCd("seq") \cup MisreadCd(Top.words))
      BY <1>9 DEF Newline
    <3>2. ScopedCd("seq") \cup MisreadCd(Top.words) = {}
      BY <3>1, NoQuirk
    <3>3. QED
      BY <1>6, <3>2
  <2>7. PICK by \in {"seq", "pipe", "background"} : by = "seq"
    OBVIOUS
  <2>8. /\ ChangesTo(f.words) = {} \/ (InShell(f, by) /\ f.via = "line")
        /\ Landed(f.cwd, f.words) = Enter(f.cwd, ChangesTo(f.words))
    BY <1>6, <2>6, <2>7, ChangesWhere, LandedIs
  <2>9. t = [s EXCEPT !.frames = Append(Front(s.frames), Ran(f, by)),
               !.read = @ \cup Reads(f), !.skip = s.pending, !.pending = <<>>]
    BY <1>2, <1>4, <1>6, <1>9, <2>7 DEF Newline
  <2>10. /\ DOMAIN t = ShellFields /\ t.frames = Append(Front(s.frames), Ran(f, by))
         /\ t.pending = <<>> /\ t.skip = s.pending /\ t.row = s.row
         /\ t.read = s.read \cup Reads(f)
    BY <1>6, <2>9 DEF ShellFields
  <2>11. <<>> \in Seq(AnyWord)
    OBVIOUS
  <2>12. t.pending = c.pending /\ t.skip = c.skip /\ c.pending \in Seq(AnyWord)
    BY <2>5, <2>10, <2>11
  <2>13. Beside(c, t)
    BY <1>3, <1>6, <1>7, <2>5, <2>7, <2>8, <2>10, <2>12, SegmentMoves
  <2>14. QED
    BY <1>4, <1>5, <2>13
<1>10. QED
  BY <1>8, <1>9

\* A quotation mark.
LEMMA QuoteKeeps ==
  ASSUME Beside(scan, shell), Quote, quirks' = {}
  PROVE  Beside(scan, shell)'
<1>1. PICK b : b = scan
  OBVIOUS
<1>2. PICK s : s = shell
  OBVIOUS
<1>3. PICK f : f = Last(s.frames)
  OBVIOUS
<1>4. PICK t : t = shell'
  OBVIOUS
<1>5. PICK c : c = scan'
  OBVIOUS
<1>6. /\ Top = f /\ Below = Front(s.frames) /\ DOMAIN s = ShellFields /\ Beside(b, s)
  BY <1>1, <1>2, <1>3 DEF Top, Below, Beside
<1>7. s.skip = <<>> /\ c = ScanQuote(b)
  BY <1>1, <1>2, <1>5 DEF Quote, InDoc
<1>8. CASE f.quoted
  <2>1. PICK g : g = [f EXCEPT !.quoted = FALSE, !.words = Ended(@, f.word), !.word = NoWord]
    OBVIOUS
  <2>2. t = [s EXCEPT !.frames = Append(Front(s.frames), g)]
    BY <1>2, <1>4, <1>6, <1>8, <2>1 DEF Quote
  <2>3. /\ DOMAIN t = ShellFields /\ t.frames = Append(Front(s.frames), g)
        /\ t.pending = s.pending /\ t.skip = s.skip /\ t.row = s.row /\ t.read = s.read
    BY <1>6, <2>2 DEF ShellFields
  <2>4. Beside(ScanQuote(b), t)
    BY <1>3, <1>6, <1>7, <1>8, <2>1, <2>3, QuoteCloses
  <2>5. QED
    BY <1>4, <1>5, <1>7, <2>4
<1>9. CASE ~f.quoted
  <2>1. /\ f.words # <<>> /\ Head(f.words) # Parens /\ Last(f.words) # "<<"
    BY <1>6, <1>9 DEF Quote, Begins, After
  <2>2. ~f.substituted
    BY <1>6, <1>9, NoQuirk, NotSo DEF Quote
  <2>3. t = [s EXCEPT !.frames =
               Append(Front(s.frames), [f EXCEPT !.quoted = TRUE, !.word = Empty])]
    BY <1>2, <1>4, <1>6, <1>9 DEF Quote
  <2>4. /\ DOMAIN t = ShellFields
        /\ t.frames = Append(Front(s.frames), [f EXCEPT !.quoted = TRUE, !.word = Empty])
        /\ t.pending = s.pending /\ t.skip = s.skip /\ t.row = s.row /\ t.read = s.read
    BY <1>6, <2>3 DEF ShellFields
  <2>5. Beside(ScanQuote(b), t)
    BY <1>3, <1>6, <1>7, <1>9, <2>1, <2>2, <2>4, QuoteOpens
  <2>6. QED
    BY <1>4, <1>5, <1>7, <2>5
<1>10. QED
  BY <1>8, <1>9

\* A parenthesis that opens.
LEMMA OpenParensKeeps ==
  ASSUME Beside(scan, shell), OpenParens
  PROVE  Beside(scan, shell)'
<1>1. PICK b : b = scan
  OBVIOUS
<1>2. PICK s : s = shell
  OBVIOUS
<1>3. PICK f : f = Last(s.frames)
  OBVIOUS
<1>4. PICK t : t = shell'
  OBVIOUS
<1>5. PICK c : c = scan'
  OBVIOUS
<1>6. Top = f /\ DOMAIN s = ShellFields /\ Beside(b, s)
  BY <1>1, <1>2, <1>3 DEF Top, Beside
<1>7. s.skip = <<>> /\ ~f.quoted /\ f.words = <<>> /\ c = ScanSeparator(b, "(")
  BY <1>1, <1>2, <1>5, <1>6 DEF OpenParens, InDoc
<1>8. t = [s EXCEPT !.frames = Append(@, Frame("paren", f.cwd))]
  BY <1>2, <1>4, <1>6 DEF OpenParens
<1>9. /\ DOMAIN t = ShellFields /\ t.frames = Append(s.frames, Frame("paren", f.cwd))
      /\ t.pending = s.pending /\ t.skip = s.skip /\ t.row = s.row /\ t.read = s.read
  BY <1>6, <1>8 DEF ShellFields
<1>10. Beside(ScanSeparator(b, "("), t)
  BY <1>3, <1>6, <1>7, <1>9, ParensOpens
<1>11. QED
  BY <1>4, <1>5, <1>7, <1>10

\* A substitution that opens.
LEMMA OpenSubstKeeps ==
  ASSUME Beside(scan, shell), NEW prefix \in {NoWord, "a"}, OpenSubst(prefix), quirks' = {}
  PROVE  Beside(scan, shell)'
<1>1. PICK b : b = scan
  OBVIOUS
<1>2. PICK s : s = shell
  OBVIOUS
<1>3. PICK f : f = Last(s.frames)
  OBVIOUS
<1>4. PICK t : t = shell'
  OBVIOUS
<1>5. PICK c : c = scan'
  OBVIOUS
<1>6. Top = f /\ DOMAIN s = ShellFields /\ Beside(b, s)
  BY <1>1, <1>2, <1>3 DEF Top, Beside
<1>7. s.skip = <<>> /\ f.words # <<>> /\ Head(f.words) # Parens
  BY <1>2, <1>6 DEF OpenSubst, InDoc, Begins
<1>8. prefix = NoWord /\ f.word \in {NoWord, Empty} /\ ~f.substituted /\ ChangesTo(f.words) = {}
  <2>1. /\ If(prefix # NoWord \/ f.word \notin {NoWord, Empty}, "word with a substitution") = {}
        /\ If(f.substituted, "words behind a substitution") = {}
        /\ If(Chdirs(f), "cd with a substitution") = {}
    BY <1>6, NoQuirk DEF OpenSubst
  <2>2. QED
    BY <2>1, NotSo DEF Chdirs
<1>9. c = ScanSubst(b)
  BY <1>1, <1>5, <1>8 DEF OpenSubst
<1>10. t = [s EXCEPT !.frames = Append(@, Frame("subst", f.cwd))]
  BY <1>2, <1>4, <1>6 DEF OpenSubst
<1>11. /\ DOMAIN t = ShellFields /\ t.frames = Append(s.frames, Frame("subst", f.cwd))
       /\ t.pending = s.pending /\ t.skip = s.skip /\ t.row = s.row /\ t.read = s.read
  BY <1>6, <1>10 DEF ShellFields
<1>12. Beside(ScanSubst(b), t)
  BY <1>3, <1>6, <1>7, <1>8, <1>11, SubstOpens
<1>13. QED
  BY <1>4, <1>5, <1>9, <1>12

\* A parenthesis that closes.
LEMMA CloseKeeps ==
  ASSUME Beside(scan, shell), Close, quirks' = {}
  PROVE  Beside(scan, shell)'
<1>1. PICK b : b = scan
  OBVIOUS
<1>2. PICK s : s = shell
  OBVIOUS
<1>3. PICK f : f = Last(s.frames)
  OBVIOUS
<1>4. PICK t : t = shell'
  OBVIOUS
<1>5. PICK c : c = scan'
  OBVIOUS
<1>6. PICK below : below = Front(s.frames)
  OBVIOUS
<1>7. Top = f /\ Below = below /\ DOMAIN s = ShellFields /\ Beside(b, s)
  BY <1>1, <1>2, <1>3, <1>6 DEF Top, Below, Beside
<1>8. s.skip = <<>> /\ ~f.quoted /\ f.via # "line" /\ c = ScanClose(b)
  BY <1>1, <1>2, <1>5, <1>7 DEF Close, InDoc
<1>9. ChangesTo(f.words) = {} /\ (f.via = "paren" => \A i \in DOMAIN below : below[i].via # "subst")
  <2>1. ScopedCd("seq") = {}
    BY NoQuirk DEF Close
  <2>2. If(f.via = "paren" /\ \E i \in DOMAIN below : below[i].via = "subst",
           "parentheses in a substitution") = {}
    BY <1>7, NoQuirk DEF Close
  <2>3. QED
    <3>1. PICK by \in {"seq", "pipe", "background"} : by = "seq"
      OBVIOUS
    <3>2. ChangesTo(f.words) = {}
      BY <1>7, <1>8, <2>1, <3>1, ChangesWhere
    <3>3. QED
      BY <2>2, <3>2, NotSo
<1>10. t = [s EXCEPT !.read = @ \cup Reads(f),
              !.frames = Append(Front(below), Outside(Last(below), f.via))]
  BY <1>2, <1>4, <1>7 DEF Close, Outside
<1>11. /\ DOMAIN t = ShellFields
       /\ t.frames = Append(Front(below), Outside(Last(below), f.via))
       /\ t.pending = s.pending /\ t.skip = s.skip /\ t.row = s.row
       /\ t.read = s.read \cup Reads(f)
  BY <1>7, <1>10 DEF ShellFields
<1>12. Beside(ScanClose(b), t)
  BY <1>3, <1>6, <1>7, <1>8, <1>9, <1>11, Closes
<1>13. QED
  BY <1>4, <1>5, <1>8, <1>12

\* What a line notes stays noted.
LEMMA QuirksStay ==
  ASSUME LineNext, quirks' = {}
  PROVE  quirks = {}
<1>1. CASE \E x \in Word : AppendWord(x)
  BY <1>1, NoQuirk DEF AppendWord
<1>2. CASE \E x \in Redirection : Redirect(x)
  BY <1>2, NoQuirk DEF Redirect
<1>3. CASE \E x \in {"a", "cat", "sep"} : Typed(x)
  BY <1>3 DEF Typed
<1>4. CASE \E by \in {"seq", "pipe", "background"} : Separate(by)
  BY <1>4, NoQuirk DEF Separate
<1>5. CASE Newline
  BY <1>5, NoQuirk DEF Newline
<1>6. CASE Quote
  BY <1>6, NoQuirk DEF Quote
<1>7. CASE OpenParens
  BY <1>7 DEF OpenParens
<1>8. CASE Close
  BY <1>8, NoQuirk DEF Close
<1>9. CASE \E prefix \in {NoWord, "a"} : OpenSubst(prefix)
  BY <1>9, NoQuirk DEF OpenSubst
<1>10. QED
  BY <1>1, <1>2, <1>3, <1>4, <1>5, <1>6, <1>7, <1>8, <1>9 DEF LineNext

\* The scanner stays beside the shell on a line it follows.
THEOREM LineInvariant == LineSpec => []LineInv
<1>1. LineInit => LineInv
  BY LineBegins DEF LineInit, LineInv
<1>2. LineInv /\ [LineNext]_shellVars => LineInv'
  <2>1. SUFFICES ASSUME LineInv, [LineNext]_shellVars, quirks' = {}
                 PROVE  Beside(scan, shell)'
    BY DEF LineInv
  <2>2. CASE UNCHANGED shellVars
    BY <2>1, <2>2 DEF LineInv, shellVars
  <2>3. CASE LineNext
    <3>1. Beside(scan, shell)
      BY <2>1, <2>3, QuirksStay DEF LineInv
    <3>2. CASE \E x \in Word : AppendWord(x)
      BY <2>1, <3>1, <3>2, AppendWordKeeps
    <3>3. CASE \E x \in Redirection : Redirect(x)
      BY <2>1, <3>1, <3>3, RedirectKeeps
    <3>4. CASE \E x \in {"a", "cat", "sep"} : Typed(x)
      BY <3>1, <3>4, TypedKeeps
    <3>5. CASE \E by \in {"seq", "pipe", "background"} : Separate(by)
      BY <2>1, <3>1, <3>5, SeparateKeeps
    <3>6. CASE Newline
      BY <2>1, <3>1, <3>6, NewlineKeeps
    <3>7. CASE Quote
      BY <2>1, <3>1, <3>7, QuoteKeeps
    <3>8. CASE OpenParens
      BY <3>1, <3>8, OpenParensKeeps
    <3>9. CASE Close
      BY <2>1, <3>1, <3>9, CloseKeeps
    <3>10. CASE \E prefix \in {NoWord, "a"} : OpenSubst(prefix)
      BY <2>1, <3>1, <3>10, OpenSubstKeeps
    <3>11. QED
      BY <2>3, <3>2, <3>3, <3>4, <3>5, <3>6, <3>7, <3>8, <3>9, <3>10 DEF LineNext
  <2>4. QED
    BY <2>1, <2>2, <2>3
<1>3. QED
  BY <1>1, <1>2, PTL DEF LineSpec

\* At the end of the line the scanner has found what the shell has read.
LEMMA EndsExact ==
  ASSUME NEW b, NEW s, Beside(b, s), Len(s.frames) = 1, NEW f, f = Last(s.frames),
         f.words = <<>>, ~f.quoted
  PROVE  Found(b) = s.read
<1>1. /\ FrameTyped(f) /\ f.cwd = b.base
      /\ ScanTyped(b) /\ Follows(b, f) /\ TagNoted(b)
      /\ b.out = s.read \cup ReadBelow(s.frames) \cup ReadAtTop(f)
  BY TopIs
<1>2. b.words = <<>> /\ b.word = NoWord /\ ~f.substituted
  <2>1. ~f.substituted /\ f.word = NoWord
    BY <1>1 DEF Follows
  <2>2. QED
    BY <1>1, <2>1, FollowsFew
<1>3. PICK e : e = EndSegment(b)
  OBVIOUS
<1>4. e.out = b.out \cup Paths(b.base, FilesRead(b.words))
  BY <1>1, <1>2, <1>3, EndSegmentIs
<1>5. e.out = b.out
  BY <1>2, <1>4, NoneReadNothing
<1>6. ReadBelow(s.frames) = {}
  <2>1. 1..Len(s.frames) - 1 = {}
    OBVIOUS
  <2>2. QED
    BY <2>1 DEF ReadBelow
<1>7. ReadAtTop(f) = {}
  BY <1>2 DEF ReadAtTop
<1>8. QED
  BY <1>1, <1>3, <1>5, <1>6, <1>7 DEF Found

\* On a line the scanner follows it finds exactly what the known readers read.
THEOREM PlainLines == LineSpec => []PlainLinesExact
<1>1. LineInv => PlainLinesExact
  <2>1. SUFFICES ASSUME LineInv, Complete, quirks = {}
                 PROVE  Found(scan) = shell.read
    BY DEF PlainLinesExact
  <2>2. PICK f : f = Last(shell.frames)
    OBVIOUS
  <2>3. Len(shell.frames) = 1 /\ f.words = <<>> /\ ~f.quoted /\ Beside(scan, shell)
    BY <2>1, <2>2 DEF Complete, Top, LineInv
  <2>4. QED
    BY <2>2, <2>3, EndsExact
<1>2. QED
  BY <1>1, LineInvariant, PTL
=============================================================================
