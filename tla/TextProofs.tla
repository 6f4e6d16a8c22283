----------------------------- MODULE TextProofs -----------------------------
(***************************************************************************)
(* What is read from a text, place by place.  Symbols and prints are those *)
(* of the tree: the walk holds the path to its node and the definitions on *)
(* it.  What redaction leaves of a turn are the words that nothing         *)
(* recognises: each detector keeps those the one before it has left.       *)
(***************************************************************************)
EXTENDS ShellProofs, Parser, Redaction, FiniteSetTheorems, WellFoundedInduction, TLAPS

-----------------------------------------------------------------------------
(***************************************************************************)
(* Lists of places in their order.                                         *)
(***************************************************************************)
\* A set of numbers, in their order.
IsListing(s, S) ==
  /\ s \in Seq(Nat)
  /\ \A i, j \in 1..Len(s) : i < j => s[i] < s[j]
  /\ \A x : x \in S <=> \E i \in 1..Len(s) : s[i] = x

\* Places in their order have the ranks in their order.
LEMMA InOrderPlaces ==
  ASSUME NEW n \in Nat, NEW I \in SUBSET (1..n)
  PROVE  /\ Cardinality(I) \in Nat
         /\ InOrder(I) = [i \in 1..Cardinality(I) |-> PlaceOf(I, i)]
         /\ \A i \in 1..Cardinality(I) : /\ PlaceOf(I, i) \in I
                                         /\ Cardinality(UpTo(I, PlaceOf(I, i))) = i
<1>1. Cardinality(I) \in Nat
  BY PlacesCounted
<1>2. InOrder(I) = [i \in 1..Cardinality(I) |-> PlaceOf(I, i)]
  BY DEF InOrder, PlaceOf
<1>3. ASSUME NEW i \in 1..Cardinality(I)
      PROVE  PlaceOf(I, i) \in I /\ Cardinality(UpTo(I, PlaceOf(I, i))) = i
  <2>1. Nth(I, i) # {}
    BY NthIs
  <2>2. PlaceOf(I, i) \in Nth(I, i)
    BY <2>1, PlaceIn
  <2>3. QED
    BY <2>2, NthCounts
<1>4. QED
  BY <1>1, <1>2, <1>3

\* A place has a greater rank than the places before it.
LEMMA RanksRise ==
  ASSUME NEW n \in Nat, NEW I \in SUBSET (1..n), NEW x \in I, NEW y \in I, x < y
  PROVE  Cardinality(UpTo(I, x)) < Cardinality(UpTo(I, y))
<1>1. IsFiniteSet(UpTo(I, y))
  BY PlacesCounted
<1>2. x \in Nat /\ y \in Nat
  OBVIOUS
<1>3. UpTo(I, x) \subseteq UpTo(I, y)
  <2>1. \A j \in I : j \in Nat /\ (j <= x => j <= y)
    BY <1>2
  <2>2. QED
    BY <2>1 DEF UpTo
<1>4. y \in UpTo(I, y) /\ y \notin UpTo(I, x)
  BY <1>2 DEF UpTo
<1>5. PICK T \in SUBSET UpTo(I, y) : T = UpTo(I, x) /\ T # UpTo(I, y)
  BY <1>3, <1>4
<1>6. /\ Cardinality(T) <= Cardinality(UpTo(I, y))
      /\ Cardinality(UpTo(I, y)) = Cardinality(T) => UpTo(I, y) = T
  BY <1>1, FS_Subset
<1>7. /\ IsFiniteSet(I) /\ Cardinality(I) \in 0..n
      /\ \A k : IsFiniteSet(UpTo(I, k))
      /\ \A k : Cardinality(UpTo(I, k)) \in 0..Cardinality(I)
  BY PlacesCounted
<1>8. Cardinality(UpTo(I, x)) \in Nat /\ Cardinality(UpTo(I, y)) \in Nat
  <2>1. Cardinality(UpTo(I, x)) \in 0..Cardinality(I) /\ Cardinality(UpTo(I, y)) \in 0..Cardinality(I)
    BY <1>7
  <2>2. QED
    BY <1>7, <2>1
<1>9. QED
  BY <1>5, <1>6, <1>8

\* A place has a rank up to the number of the places.
LEMMA RanksCounted ==
  ASSUME NEW n \in Nat, NEW I \in SUBSET (1..n), NEW x \in I
  PROVE  Cardinality(UpTo(I, x)) \in 1..Cardinality(I)
<1>1. Cardinality(UpTo(I, x)) \in 0..Cardinality(I) /\ IsFiniteSet(UpTo(I, x))
  BY PlacesCounted
<1>2. x \in UpTo(I, x)
  BY DEF UpTo
<1>3. Cardinality(UpTo(I, x)) # 0
  BY <1>1, <1>2, FS_EmptySet
<1>4. Cardinality(I) \in Nat
  BY PlacesCounted
<1>5. QED
  BY <1>1, <1>3, <1>4

\* Places in their order are a listing of them.
LEMMA InOrderLists ==
  ASSUME NEW n \in Nat, NEW I \in SUBSET (1..n)
  PROVE  IsListing(InOrder(I), I)
<1>1. PICK m \in Nat : m = Cardinality(I)
  BY PlacesCounted
<1>2. PICK s : s = InOrder(I)
  OBVIOUS
<1>3. /\ s = [i \in 1..m |-> PlaceOf(I, i)]
      /\ \A i \in 1..m : PlaceOf(I, i) \in I /\ Cardinality(UpTo(I, PlaceOf(I, i))) = i
  BY <1>1, <1>2, InOrderPlaces
<1>4. s \in Seq(Nat) /\ Len(s) = m /\ \A i \in 1..m : s[i] \in I /\ Cardinality(UpTo(I, s[i])) = i
  <2>1. \A x \in I : x \in Nat
    OBVIOUS
  <2>2. \A i \in 1..m : PlaceOf(I, i) \in Nat
    BY <1>3, <2>1
  <2>3. s \in Seq(Nat) /\ Len(s) = m
    BY <1>3, <2>2
  <2>4. QED
    BY <1>3, <2>3
<1>5. ASSUME NEW i \in 1..m, NEW j \in 1..m, i < j PROVE s[i] < s[j]
  <2>1. SUFFICES ASSUME ~(s[i] < s[j]) PROVE FALSE
    OBVIOUS
  <2>2. s[i] = s[j] \/ s[j] < s[i]
    BY <1>4, <2>1
  <2>3. CASE s[i] = s[j]
    BY <1>4, <1>5, <2>3
  <2>4. CASE s[j] < s[i]
    <3>1. Cardinality(UpTo(I, s[j])) < Cardinality(UpTo(I, s[i]))
      BY <1>4, <2>4, RanksRise
    <3>2. QED
      BY <1>4, <1>5, <3>1
  <2>5. QED
    BY <2>2, <2>3, <2>4
<1>6. ASSUME NEW x \in I PROVE \E i \in 1..m : s[i] = x
  <2>1. PICK i \in 1..m : i = Cardinality(UpTo(I, x))
    BY <1>1, RanksCounted
  <2>2. s[i] \in I /\ Cardinality(UpTo(I, s[i])) = i
    BY <1>4
  <2>3. ~(s[i] < x) /\ ~(x < s[i])
    <3>1. i \in Nat
      OBVIOUS
    <3>2. s[i] < x => i < i
      BY <2>1, <2>2, RanksRise
    <3>3. x < s[i] => i < i
      BY <2>1, <2>2, RanksRise
    <3>4. QED
      BY <3>1, <3>2, <3>3
  <2>4. s[i] \in Nat /\ x \in Nat
    <3>1. \A y \in I : y \in Nat
      OBVIOUS
    <3>2. QED
      BY <2>2, <3>1
  <2>5. QED
    BY <2>3, <2>4
<1>7. QED
  BY <1>2, <1>4, <1>5, <1>6 DEF IsListing

\* There is one listing of a set.
LEMMA ListingsSame ==
  ASSUME NEW S, NEW s, NEW t, IsListing(s, S), IsListing(t, S)
  PROVE  s = t
<1> DEFINE D(u, v) == {i \in 1..Len(u) : i > Len(v) \/ u[i] # v[i]}
<1>1. ASSUME NEW u, NEW v, IsListing(u, S), IsListing(v, S), NEW k \in D(u, v),
             \A i \in D(u, v) \cup D(v, u) : k <= i,
             k <= Len(v) => u[k] < v[k]
      PROVE  FALSE
  <2>20. u \in Seq(Nat) /\ v \in Seq(Nat)
    BY <1>1 DEF IsListing
  <2>1. PICK n \in Nat : n = Len(u) /\ \A i \in 1..n : u[i] \in Nat
    BY <2>20
  <2>2. PICK m \in Nat : m = Len(v) /\ \A i \in 1..m : v[i] \in Nat
    BY <2>20, SMTT(60)
  <2>3. k \in 1..n /\ u[k] \in S
    BY <1>1, <2>1 DEF IsListing
  <2>4. PICK j \in 1..m : v[j] = u[k]
    BY <1>1, <2>2, <2>3 DEF IsListing
  <2>5. j < k
    <3>1. k <= m => u[k] < v[k] /\ k \in 1..m
      BY <1>1, <2>2, <2>3
    <3>2. k <= m /\ k < j => v[k] < v[j]
      BY <1>1, <2>2, <3>1 DEF IsListing
    <3>3. \A i \in 1..m : v[i] \in Nat
      BY <2>2
    <3>4. u[k] \in Nat
      BY <2>1, <2>3
    <3>5. k <= m => j < k
      BY <2>3, <2>4, <3>1, <3>2, <3>3, <3>4
    <3>6. QED
      BY <2>3, <3>5
  <2>6. j \notin D(v, u)
    BY <1>1, <2>3, <2>5
  <2>7. v[j] = u[j] /\ j \in 1..n
    BY <2>1, <2>2, <2>3, <2>5, <2>6
  <2>8. u[j] < u[k]
    BY <1>1, <2>1, <2>3, <2>5, <2>7 DEF IsListing
  <2>9. u[k] \in Nat
    BY <2>1, <2>3
  <2>10. QED
    BY <2>4, <2>7, <2>8, <2>9
<1>2. PICK n \in Nat : n = Len(s) /\ DOMAIN s = 1..n /\ \A i \in 1..n : s[i] \in Nat
  BY DEF IsListing
<1>3. PICK m \in Nat : m = Len(t) /\ DOMAIN t = 1..m /\ \A i \in 1..m : t[i] \in Nat
  BY DEF IsListing
<1>4. D(s, t) \cup D(t, s) = {}
  <2>1. SUFFICES ASSUME D(s, t) \cup D(t, s) # {} PROVE FALSE
    OBVIOUS
  <2>2. D(s, t) \cup D(t, s) \subseteq Nat
    BY <1>2, <1>3
  <2>3. PICK k \in D(s, t) \cup D(t, s) : \A i \in D(s, t) \cup D(t, s) : k <= i
    BY <2>1, <2>2, LeastOf
  <2>4. (k \in D(s, t) /\ (k <= m => s[k] < t[k])) \/ (k \in D(t, s) /\ (k <= n => t[k] < s[k]))
    BY <1>2, <1>3, <2>3
  <2>5. CASE k \in D(s, t) /\ (k <= m => s[k] < t[k])
    <3> HIDE DEF D
    <3>1. \A i \in D(s, t) \cup D(t, s) : k <= i
      BY <2>3
    <3>2. QED
      BY <1>1, <1>3, <2>5, <3>1
  <2>6. CASE k \in D(t, s) /\ (k <= n => t[k] < s[k])
    <3> HIDE DEF D
    <3>1. \A i \in D(t, s) \cup D(s, t) : k <= i
      BY <2>3
    <3>2. QED
      BY <1>1, <1>2, <2>6, <3>1
  <2>7. QED
    BY <2>4, <2>5, <2>6
<1>5. n = m
  <2>1. n > m => n \in D(s, t)
    BY <1>2, <1>3
  <2>2. m > n => m \in D(t, s)
    BY <1>2, <1>3
  <2>3. QED
    BY <1>2, <1>3, <1>4, <2>1, <2>2
<1>6. \A i \in 1..n : s[i] = t[i]
  BY <1>2, <1>3, <1>4, <1>5
<1>7. s \in Seq(Nat) /\ t \in Seq(Nat)
  BY DEF IsListing
<1>8. QED
  BY <1>2, <1>3, <1>5, <1>6, <1>7

\* A listing of places is that in their order.
LEMMA ListingIs ==
  ASSUME NEW n \in Nat, NEW S \in SUBSET (1..n), NEW s, IsListing(s, S)
  PROVE  s = InOrder(S)
BY InOrderLists, ListingsSame

\* Nothing lists the empty set.
LEMMA ListingOfNone == IsListing(<<>>, {})
BY DEF IsListing

\* A greater number goes to the end.
LEMMA ListingAppends ==
  ASSUME NEW S, NEW s, IsListing(s, S), NEW x \in Nat, \A y \in S : y < x,
         NEW t, t = Append(s, x)
  PROVE  IsListing(t, S \cup {x})
<1>1. PICK n \in Nat : n = Len(s)
  BY DEF IsListing
<1>2. s \in Seq(Nat) /\ \A i \in 1..n : s[i] \in S
  BY <1>1 DEF IsListing
<1>3. t \in Seq(Nat) /\ Len(t) = n + 1 /\ t[n + 1] = x /\ \A i \in 1..n : t[i] = s[i]
  BY <1>1, <1>2
<1>4. \A i \in 1..n + 1 : i = n + 1 \/ i \in 1..n
  OBVIOUS
<1>5. ASSUME NEW i \in 1..n + 1, NEW j \in 1..n + 1, i < j PROVE t[i] < t[j]
  <2>1. i \in 1..n
    BY <1>4, <1>5
  <2>2. CASE j = n + 1
    BY <1>2, <1>3, <2>1, <2>2
  <2>3. CASE j \in 1..n
    <3>1. s[i] < s[j]
      BY <1>1, <1>5, <2>1, <2>3 DEF IsListing
    <3>2. QED
      BY <1>3, <2>1, <2>3, <3>1
  <2>4. QED
    BY <1>4, <2>2, <2>3
<1>6. ASSUME NEW y PROVE y \in S \cup {x} <=> \E i \in 1..n + 1 : t[i] = y
  <2>1. y \in S <=> \E i \in 1..n : s[i] = y
    BY <1>1 DEF IsListing
  <2>2. n + 1 \in 1..n + 1
    OBVIOUS
  <2>3. \A i \in 1..n : i \in 1..n + 1
    OBVIOUS
  <2>4. QED
    BY <1>3, <1>4, <2>1, <2>2, <2>3
<1>7. QED
  BY <1>3, <1>5, <1>6 DEF IsListing

\* The greatest number is at the end, and what is before it lists the others.
EndsListing(s, S, x) ==
  s # <<>> /\ s[Len(s)] = x /\ Last(s) = x /\ IsListing(Front(s), S \ {x})

\* All but the last of a listing lists all but the greatest.
LEMMA ListingFront ==
  ASSUME NEW S, NEW s, IsListing(s, S), NEW x \in S, \A y \in S : y <= x
  PROVE  EndsListing(s, S, x)
<1>1. s \in Seq(Nat)
  BY DEF IsListing
<1>2. PICK n \in Nat : n = Len(s) /\ \A i \in 1..n : s[i] \in Nat
  BY <1>1
<1>3. PICK k \in 1..n : s[k] = x
  BY <1>2 DEF IsListing
<1>4. n > 0 /\ n \in 1..n /\ s # <<>>
  BY <1>2, <1>3
<1>5. s[n] \in S
  BY <1>2, <1>4 DEF IsListing
<1>6. k = n
  <2>1. k < n => s[k] < s[n]
    BY <1>2, <1>3, <1>4 DEF IsListing
  <2>2. s[n] <= s[k] /\ s[k] \in Nat /\ s[n] \in Nat
    BY <1>2, <1>3, <1>4, <1>5
  <2>3. QED
    BY <1>3, <1>4, <2>1, <2>2
<1>7. s[n] = x /\ Last(s) = x
  BY <1>2, <1>3, <1>6 DEF Last
<1>8. PICK t : t = Front(s)
  OBVIOUS
<1>9. t \in Seq(Nat) /\ Len(t) = n - 1 /\ \A i \in 1..n - 1 : t[i] = s[i]
  BY <1>1, <1>2, <1>4, <1>8 DEF Front
<1>10. \A i, j \in 1..n - 1 : i < j => t[i] < t[j]
  <2>1. \A i \in 1..n - 1 : i \in 1..n
    BY <1>4
  <2>2. QED
    BY <1>2, <1>9, <2>1 DEF IsListing
<1>11. ASSUME NEW y PROVE y \in S \ {x} <=> \E i \in 1..n - 1 : t[i] = y
  <2>1. y \in S <=> \E i \in 1..n : s[i] = y
    BY <1>2 DEF IsListing
  <2>2. \A i \in 1..n : (i = n \/ i \in 1..n - 1) /\ (i \in 1..n - 1 => s[i] < s[n])
    BY <1>2, <1>4 DEF IsListing
  <2>3. \A i \in 1..n - 1 : i \in 1..n /\ s[i] # s[n]
    <3>1. SUFFICES ASSUME NEW i \in 1..n - 1 PROVE i \in 1..n /\ s[i] # s[n]
      OBVIOUS
    <3>2. i \in 1..n
      BY <1>4
    <3>3. s[i] < s[n] /\ s[i] \in Nat /\ s[n] \in Nat
      BY <1>2, <1>4, <2>2, <3>2
    <3>4. QED
      BY <3>2, <3>3
  <2>4. QED
    BY <1>7, <1>9, <2>1, <2>2, <2>3
<1>12. IsListing(t, S \ {x})
  BY <1>9, <1>10, <1>11 DEF IsListing
<1>13. QED
  BY <1>2, <1>4, <1>7, <1>8, <1>12 DEF EndsListing

\* The last of a listing is the greatest.
LEMMA ListingMax ==
  ASSUME NEW S, NEW s, IsListing(s, S), S # {}
  PROVE  s # <<>> /\ Max(S) = s[Len(s)] /\ s[Len(s)] \in S /\ \A y \in S : y <= s[Len(s)]
<1>1. s \in Seq(Nat)
  BY DEF IsListing
<1>2. PICK n \in Nat : n = Len(s) /\ \A i \in 1..n : s[i] \in Nat
  BY <1>1
<1>3. n > 0 /\ n \in 1..n
  BY <1>2 DEF IsListing
<1>4. s[n] \in S /\ \A y \in S : y \in Nat /\ y <= s[n]
  <2>1. s[n] \in S
    BY <1>2, <1>3 DEF IsListing
  <2>2. ASSUME NEW y \in S PROVE y \in Nat /\ y <= s[n]
    <3>1. PICK i \in 1..n : s[i] = y
      BY <1>2 DEF IsListing
    <3>2. i < n => s[i] < s[n]
      BY <1>2, <1>3 DEF IsListing
    <3>3. QED
      BY <1>2, <1>3, <3>1, <3>2
  <2>3. QED
    BY <2>1, <2>2
<1>5. Max(S) = s[n]
  <2>1. s[n] \in S /\ \A y \in S : s[n] >= y
    BY <1>4
  <2>2. Max(S) \in S /\ \A y \in S : Max(S) >= y
    BY <2>1 DEF Max
  <2>3. Max(S) >= s[n] /\ s[n] >= Max(S) /\ Max(S) \in Nat /\ s[n] \in Nat
    BY <1>4, <2>1, <2>2
  <2>4. QED
    BY <2>3
<1>6. QED
  BY <1>1, <1>2, <1>3, <1>4, <1>5

\* Where a number is in a listing that starts at one.
LEMMA Between ==
  ASSUME NEW p \in Seq(Nat), p # <<>>, p[1] = 1, NEW x \in Nat, 1 <= x, x <= p[Len(p)]
  PROVE  \E m \in 1..Len(p) : p[m] = x \/ (m > 1 /\ p[m - 1] < x /\ x < p[m])
<1>1. PICK n \in Nat : n = Len(p) /\ n > 0 /\ \A i \in 1..n : p[i] \in Nat
  OBVIOUS
<1>2. PICK A : A = {m \in 1..n : x <= p[m]}
  OBVIOUS
<1>3. n \in A /\ A \subseteq Nat
  BY <1>1, <1>2
<1>4. PICK m \in A : \A i \in A : m <= i
  BY <1>3, LeastOf
<1>5. m \in 1..n /\ x <= p[m]
  BY <1>2, <1>4
<1>6. m > 1 => p[m - 1] < x
  <2>1. ASSUME m > 1 PROVE p[m - 1] < x
    <3>1. m - 1 \in 1..n /\ ~(m <= m - 1)
      BY <1>5, <2>1
    <3>2. m - 1 \notin A
      BY <1>4, <3>1
    <3>3. p[m - 1] \in Nat /\ ~(x <= p[m - 1])
      BY <1>1, <1>2, <3>1, <3>2
    <3>4. QED
      BY <3>3
  <2>2. QED
    BY <2>1
<1>7. m = 1 => p[m] = x
  BY <1>5
<1>8. p[m] \in Nat
  BY <1>1, <1>5
<1>9. QED
  BY <1>1, <1>5, <1>6, <1>7, <1>8

-----------------------------------------------------------------------------
(***************************************************************************)
(* The tree of a file, and the walk over it.                               *)
(***************************************************************************)
Families == {"python", "ecmascript", "rust", "none"}
Kinds == (UNION {Grammar[family] : family \in Families}) \cup {"file"}

SourceTyped ==
  /\ source.family \in Families
  /\ source.kind \in Seq(Kinds) /\ Len(source.kind) > 0 /\ source.kind[1] = "file"
  /\ \A i \in 2..Len(source.kind) : source.kind[i] \in Grammar[source.family]
  /\ source.parent \in [1..Len(source.kind) -> Nat] /\ source.parent[1] = 0
  /\ IsPreorder(source.parent)

\* What is used of the tree.
NodesAre(n) ==
  /\ n \in Nat /\ n > 0 /\ n = Len(source.kind) /\ Nodes = 1..n
  /\ \A i \in 1..n : source.parent[i] \in Nat
  /\ source.parent[1] = 0
  /\ \A i \in 2..n : source.parent[i] < i /\ source.parent[i] > 0
  /\ \A i \in 2..n : \A j \in 2..i - 1 :
       j > source.parent[i] => source.parent[j] >= source.parent[i]

\* The nodes of a typed source are a tree in preorder.
LEMMA TreeIs ==
  ASSUME SourceTyped
  PROVE  \E n : NodesAre(n)
<1>1. PICK n \in Nat : n = Len(source.kind) /\ n > 0 /\ DOMAIN source.kind = 1..n
  BY DEF SourceTyped
<1>2. PICK p : p = source.parent
  OBVIOUS
<1>3. p \in [1..n -> Nat] /\ p[1] = 0 /\ IsPreorder(p)
  BY <1>1, <1>2 DEF SourceTyped
<1>4. DOMAIN p = 1..n /\ \A i \in 1..n : p[i] \in Nat
  BY <1>3
<1>5. \A i \in 2..n : i \in DOMAIN p \ {1}
  BY <1>4
<1>6. \A i \in 2..n : p[i] < i /\ p[i] > 0
  BY <1>3, <1>5 DEF IsPreorder
<1>7. \A i \in 2..n : \A j \in 2..i - 1 : j > p[i] => p[j] >= p[i]
  BY <1>3, <1>5 DEF IsPreorder
<1>8. QED
  BY <1>1, <1>2, <1>3, <1>4, <1>6, <1>7 DEF NodesAre, Nodes

\* A node is below i when no node from i to it has a parent before i.
LEMMA SubtreeIs ==
  ASSUME NEW n, NodesAre(n), NEW i \in 1..n
  PROVE  \E m \in i..n :
           /\ Subtree(i) = i..m
           /\ \A x \in 1..n : x \in Subtree(i) <=>
                i <= x /\ \A k \in 1..n : i < k /\ k <= x => source.parent[k] >= i
<1>1. n \in Nat /\ n = Len(source.kind) /\ Nodes = 1..n /\ \A k \in 1..n : source.parent[k] \in Nat
  BY DEF NodesAre
<1>2. PICK O : O = {j \in 1..n : j > i /\ source.parent[j] < i}
  OBVIOUS
<1>3. Subtree(i) = IF O = {} THEN i..n ELSE i..Min(O) - 1
  BY <1>1, <1>2 DEF Subtree
<1>4. CASE O = {}
  <2>1. Subtree(i) = i..n
    BY <1>3, <1>4
  <2>2. \A k \in 1..n : i < k => source.parent[k] >= i
    BY <1>1, <1>2, <1>4
  <2>3. n \in i..n
    BY <1>1
  <2>4. QED
    BY <2>1, <2>2, <2>3
<1>5. CASE O # {}
  <2>1. O \subseteq Nat
    BY <1>1, <1>2
  <2>2. PICK l \in O : \A o \in O : l <= o
    BY <1>5, <2>1, LeastOf
  <2>3. Min(O) \in O /\ \A o \in O : Min(O) =< o
    BY <2>2 DEF Min
  <2>10. PICK l0 \in 1..n : l0 = Min(O) /\ l0 > i
    BY <1>2, <2>3
  <2>4. PICK m \in Nat : m = Min(O) - 1 /\ m \in i..n /\ Min(O) = m + 1 /\ m + 1 \in 1..n
    <3>1. l0 - 1 \in Nat /\ l0 - 1 \in i..n /\ l0 = (l0 - 1) + 1
      BY <1>1, <2>10
    <3>2. QED
      BY <2>10, <3>1
  <2>5. Subtree(i) = i..m
    BY <1>3, <1>5, <2>4
  <2>6. source.parent[m + 1] < i /\ source.parent[m + 1] \in Nat
    BY <1>1, <1>2, <2>3, <2>4
  <2>7. ASSUME NEW x \in 1..n
        PROVE  x \in Subtree(i) <=>
                 i <= x /\ \A k \in 1..n : i < k /\ k <= x => source.parent[k] >= i
    <3>1. CASE x <= m
      <4>1. ASSUME NEW k \in 1..n, i < k, k <= x PROVE source.parent[k] >= i
        <5>1. ~(m + 1 <= k)
          BY <1>1, <2>4, <3>1, <4>1
        <5>2. k \notin O
          BY <2>3, <2>4, <5>1
        <5>3. QED
          BY <1>1, <1>2, <4>1, <5>2
      <4>2. x \in Subtree(i) <=> i <= x
        <5>1. x \in Nat /\ i \in Nat
          BY <1>1
        <5>2. x \in i..m <=> i <= x
          BY <2>4, <3>1, <5>1
        <5>3. QED
          BY <2>5, <5>2
      <4>3. QED
        BY <4>1, <4>2
    <3>2. CASE ~(x <= m)
      <4>1. x \notin Subtree(i)
        BY <2>5, <3>2
      <4>2. i < m + 1 /\ m + 1 <= x
        BY <1>1, <2>4, <3>2
      <4>3. ~(source.parent[m + 1] >= i)
        BY <1>1, <2>6
      <4>4. QED
        BY <2>4, <4>1, <4>2, <4>3
    <3>3. QED
      BY <3>1, <3>2
  <2>8. QED
    BY <2>4, <2>5, <2>7
<1>6. QED
  BY <1>4, <1>5

\* The nodes from the root down to i.
IsPath(p, i, n) ==
  /\ p \in Seq(Nat) /\ p # <<>> /\ p[1] = 1 /\ p[Len(p)] = i
  /\ \A k \in 1..Len(p) : p[k] \in 1..n
  /\ \A k, l \in 1..Len(p) : k < l => p[k] < p[l]
  /\ \A k \in 1..Len(p) : k > 1 => source.parent[p[k]] = p[k - 1]

\* They are the nodes that i is below.
LEMMA PathIs ==
  ASSUME NEW n, NodesAre(n), NEW i \in 1..n, NEW p, IsPath(p, i, n), NEW j \in 1..n
  PROVE  i \in Subtree(j) <=> \E k \in 1..Len(p) : p[k] = j
<1>1. /\ n \in Nat /\ n > 0
      /\ \A x \in 1..n : source.parent[x] \in Nat
      /\ \A x \in 2..n : source.parent[x] < x /\ source.parent[x] > 0
      /\ \A x \in 2..n : \A y \in 2..x - 1 :
           y > source.parent[x] => source.parent[y] >= source.parent[x]
  BY DEF NodesAre
<1>2. p \in Seq(Nat) /\ p # <<>> /\ p[1] = 1 /\ p[Len(p)] = i
  BY DEF IsPath
<1>3. PICK l \in Nat : l = Len(p) /\ l > 0 /\ \A k \in 1..l : p[k] \in Nat
  BY <1>2
<1>4. /\ \A k \in 1..l : p[k] \in 1..n
      /\ \A k, m \in 1..l : k < m => p[k] < p[m]
      /\ \A k \in 1..l : k > 1 => source.parent[p[k]] = p[k - 1]
  BY <1>3 DEF IsPath
<1>5. i \in Subtree(j) <=> j <= i /\ \A k \in 1..n : j < k /\ k <= i => source.parent[k] >= j
  BY SubtreeIs
<1>6. \A k \in 1..l : p[k] <= i
  <2>1. SUFFICES ASSUME NEW k \in 1..l PROVE p[k] <= i
    OBVIOUS
  <2>2. l \in 1..l /\ p[l] = i
    BY <1>2, <1>3
  <2>3. k < l => p[k] < p[l]
    BY <1>4, <2>2
  <2>4. p[k] \in Nat /\ i \in Nat /\ (k = l \/ k < l)
    BY <1>1, <1>3
  <2>5. QED
    BY <2>2, <2>3, <2>4
<1>7. ASSUME NEW k \in 1..l, p[k] = j, NEW x \in 1..n, j < x, x <= i
      PROVE  source.parent[x] >= j
  <2>1. 1 <= x /\ x <= p[Len(p)] /\ x \in Nat
    BY <1>2, <1>7
  <2>2. PICK m \in 1..l : p[m] = x \/ (m > 1 /\ p[m - 1] < x /\ x < p[m])
    BY <1>2, <1>3, <2>1, Between
  <2>3. p[m] >= x /\ p[m] > p[k]
    BY <1>3, <1>7, <2>2
  <2>4. m > k
    <3>1. m < k => p[m] < p[k]
      BY <1>4
    <3>2. m = k => p[m] = p[k]
      OBVIOUS
    <3>3. p[m] \in Nat /\ p[k] \in Nat
      BY <1>3
    <3>4. QED
      BY <2>3, <3>1, <3>2, <3>3
  <2>5. m - 1 \in 1..l /\ m > 1 /\ k <= m - 1
    BY <2>4
  <2>6. p[m - 1] >= j
    <3>1. k < m - 1 => p[k] < p[m - 1]
      BY <1>4, <2>5
    <3>2. k = m - 1 => p[k] = p[m - 1]
      OBVIOUS
    <3>3. p[m - 1] \in Nat /\ j \in Nat
      BY <1>3, <2>5
    <3>4. QED
      BY <1>7, <2>5, <3>1, <3>2, <3>3
  <2>7. source.parent[p[m]] = p[m - 1]
    BY <1>4, <2>5
  <2>8. CASE p[m] = x
    BY <2>6, <2>7, <2>8
  <2>9. CASE p[m - 1] < x /\ x < p[m]
    <3>1. p[m] \in 2..n /\ x \in 2..p[m] - 1
      <4>1. p[m] \in 1..n /\ p[m] \in Nat /\ x \in Nat /\ x >= 1 /\ j >= 1
        BY <1>3, <1>4
      <4>2. QED
        BY <1>7, <2>9, <4>1
    <3>2. source.parent[x] >= p[m - 1]
      BY <1>1, <2>7, <2>9, <3>1
    <3>3. source.parent[x] \in Nat /\ p[m - 1] \in Nat /\ j \in Nat
      BY <1>1, <1>3, <2>5
    <3>4. QED
      BY <2>6, <3>2, <3>3
  <2>10. QED
    BY <2>2, <2>8, <2>9
<1>8. ASSUME i \in Subtree(j) PROVE \E k \in 1..l : p[k] = j
  <2>1. j <= i /\ \A k \in 1..n : j < k /\ k <= i => source.parent[k] >= j
    BY <1>5, <1>8
  <2>2. 1 <= j /\ j <= p[Len(p)] /\ j \in Nat
    BY <1>2, <2>1
  <2>3. PICK m \in 1..l : p[m] = j \/ (m > 1 /\ p[m - 1] < j /\ j < p[m])
    BY <1>2, <1>3, <2>2, Between
  <2>4. ASSUME m > 1, p[m - 1] < j, j < p[m] PROVE FALSE
    <3>1. source.parent[p[m]] = p[m - 1] /\ p[m] \in 1..n /\ p[m] <= i
      BY <1>4, <1>6, <2>4
    <3>2. source.parent[p[m]] >= j
      BY <2>1, <2>4, <3>1
    <3>3. m - 1 \in 1..l
      BY <2>4
    <3>4. p[m - 1] \in Nat
      BY <1>3, <3>3
    <3>5. QED
      BY <2>4, <3>1, <3>2, <3>4
  <2>5. QED
    BY <2>3, <2>4
<1>9. QED
  BY <1>3, <1>5, <1>6, <1>7, <1>8

\* What follows in the text is below one of them.
LEMMA NextBelow ==
  ASSUME NEW n, NodesAre(n), NEW i \in 1..n, NEW p, IsPath(p, i, n), i + 1 \in 1..n
  PROVE  \E k \in 1..Len(p) : p[k] = source.parent[i + 1]
<1>1. /\ n \in Nat /\ n > 0
      /\ \A x \in 1..n : source.parent[x] \in Nat
      /\ \A x \in 2..n : source.parent[x] < x /\ source.parent[x] > 0
      /\ \A x \in 2..n : \A y \in 2..x - 1 :
           y > source.parent[x] => source.parent[y] >= source.parent[x]
  BY DEF NodesAre
<1>2. p \in Seq(Nat) /\ p # <<>> /\ p[1] = 1 /\ p[Len(p)] = i
  BY DEF IsPath
<1>3. PICK l \in Nat : l = Len(p) /\ l > 0 /\ \A k \in 1..l : p[k] \in Nat
  BY <1>2
<1>4. /\ \A k \in 1..l : p[k] \in 1..n
      /\ \A k, m \in 1..l : k < m => p[k] < p[m]
      /\ \A k \in 1..l : k > 1 => source.parent[p[k]] = p[k - 1]
  BY <1>3 DEF IsPath
<1>5. PICK x \in Nat : x = source.parent[i + 1] /\ x < i + 1 /\ x > 0
  <2>1. i + 1 \in 2..n
    BY <1>1
  <2>2. QED
    BY <1>1, <2>1
<1>6. 1 <= x /\ x <= p[Len(p)]
  BY <1>2, <1>5
<1>7. PICK m \in 1..l : p[m] = x \/ (m > 1 /\ p[m - 1] < x /\ x < p[m])
  BY <1>2, <1>3, <1>6, Between
<1>8. ASSUME m > 1, p[m - 1] < x, x < p[m] PROVE FALSE
  <2>1. source.parent[p[m]] = p[m - 1] /\ p[m] \in 1..n
    BY <1>4, <1>8
  <2>2. p[m] <= i
    <3>1. l \in 1..l /\ p[l] = i
      BY <1>2, <1>3
    <3>2. m < l => p[m] < p[l]
      BY <1>4, <3>1
    <3>3. p[m] \in Nat /\ i \in Nat /\ (m = l \/ m < l)
      BY <1>1, <1>3
    <3>4. QED
      BY <3>1, <3>2, <3>3
  <2>3. i + 1 \in 2..n /\ p[m] \in 2..(i + 1) - 1
    BY <1>1, <1>5, <1>8, <2>1, <2>2
  <2>4. source.parent[p[m]] >= x
    BY <1>1, <1>5, <1>8, <2>3
  <2>5. m - 1 \in 1..l
    BY <1>8
  <2>6. p[m - 1] \in Nat
    BY <1>3, <2>5
  <2>7. QED
    BY <1>5, <1>8, <2>1, <2>4, <2>6
<1>9. QED
  BY <1>3, <1>5, <1>7, <1>8

Size == Len(source.kind)
OnPath(st, j) == \E k \in 1..Len(st) : st[k] = j
Names(sc) == [k \in 1..Len(sc) |-> sc[k].name]
NodesOf(sy) == [k \in 1..Len(sy) |-> sy[k].node]
DefinedOn(st) == {j \in Nodes : IsDefinition(j) /\ OnPath(st, j)}
EmittedUpTo(v) == {j \in Nodes : j <= v /\ IsDefinition(j) /\ IsEmitted(j)}

\* The stack is a path, and the next node goes below one of its nodes.
IsStack(st, v) ==
  /\ v \in Nodes
  /\ st \in Seq(Nat)
  /\ st # <<>> => IsPath(st, st[Len(st)], Size)
  /\ \A k \in 1..Len(st) : st[k] <= v
  /\ v + 1 \in Nodes => OnPath(st, source.parent[v + 1])

\* The scopes are those of the definitions on the path.
IsScope(sc, st) ==
  /\ sc \in Seq([name : Nat, isClass : BOOLEAN])
  /\ IsListing(Names(sc), DefinedOn(st))
  /\ \A k \in 1..Len(sc) : sc[k].isClass <=> IsClass(sc[k].name)

IsMethodKind(s) ==
  LET outer == Around(s.node) \ {s.node}
  IN  (source.family # "ecmascript" /\ s.kind # "class") =>
        (s.kind = "method" <=> (outer # {} /\ IsClass(Max(outer))))

IsSymbol(s) ==
  /\ s.node \in Nodes /\ IsDefinition(s.node)
  /\ s.path = InOrder(Around(s.node))
  /\ IsMethodKind(s)
  /\ s.print = OfNode(Printed(s.node)).print
  /\ s.shingles = OfNode(Printed(s.node)).shingles

IsEmission(sy, v) ==
  /\ IsSeq(sy)
  /\ IsListing(NodesOf(sy), EmittedUpTo(v))
  /\ \A k \in 1..Len(sy) : IsSymbol(sy[k])

WalkInv ==
  /\ SourceTyped
  /\ IsStack(stack, visited) /\ IsScope(scope, stack) /\ IsEmission(symbols, visited)
  /\ source.family = "none" => stack # <<>>

\* The tree of a typed source.
LEMMA SizeIs ==
  ASSUME SourceTyped
  PROVE  NodesAre(Size)
<1>1. PICK n : NodesAre(n)
  BY TreeIs
<1>2. n = Size
  BY <1>1 DEF NodesAre, Size
<1>3. QED
  BY <1>1, <1>2

\* The definitions around a node are those on the path to it.
LEMMA AroundIs ==
  ASSUME SourceTyped, NEW i \in Nodes, NEW p, IsPath(p, i, Size)
  PROVE  Around(i) = DefinedOn(p)
<1>1. PICK n : n = Size /\ NodesAre(n)
  BY SizeIs
<1>2. Nodes = 1..n
  BY <1>1 DEF NodesAre
<1>3. \A j \in 1..n : i \in Subtree(j) <=> OnPath(p, j)
  BY <1>1, <1>2, PathIs DEF OnPath
<1>4. QED
  BY <1>2, <1>3 DEF Around, DefinedOn

\* The walk enters the next node.
IsEntered(t, i) == IsStack(t, i) /\ IsPath(t, i, Size)

\* The path to the node that is entered.
LEMMA StackGrows ==
  ASSUME SourceTyped, NEW st, NEW v, IsStack(st, v), st # <<>>, v + 1 \in Nodes,
         source.parent[v + 1] = st[Len(st)], NEW t, t = Append(st, v + 1)
  PROVE  IsEntered(t, v + 1)
<1>1. PICK n : n = Size /\ NodesAre(n)
  BY SizeIs
<1>2. n \in Nat /\ Nodes = 1..n
  BY <1>1 DEF NodesAre
<1>3. v \in 1..n /\ v + 1 \in 1..n
  BY <1>2 DEF IsStack
<1>4. st \in Seq(Nat)
  BY DEF IsStack
<1>5. PICK l \in Nat : l = Len(st) /\ l > 0 /\ DOMAIN st = 1..l /\ \A k \in 1..l : st[k] \in Nat
  BY <1>4
<1>6. /\ t \in Seq(Nat) /\ Len(t) = l + 1 /\ t # <<>> /\ t[l + 1] = v + 1
      /\ \A k \in 1..l : t[k] = st[k]
  BY <1>3, <1>4, <1>5
<1>7. IsPath(st, st[l], n) /\ \A k \in 1..l : st[k] <= v
  BY <1>1, <1>5 DEF IsStack
<1>8. /\ st[1] = 1
      /\ \A k \in 1..l : st[k] \in 1..n
      /\ \A k, m \in 1..l : k < m => st[k] < st[m]
      /\ \A k \in 1..l : k > 1 => source.parent[st[k]] = st[k - 1]
  BY <1>5, <1>7 DEF IsPath
<1>9. \A k \in 1..l + 1 : k \in 1..l \/ k = l + 1
  BY <1>5
<1>10. \A k \in 1..l + 1 : t[k] \in 1..n /\ t[k] <= v + 1
  <2>1. SUFFICES ASSUME NEW k \in 1..l + 1 PROVE t[k] \in 1..n /\ t[k] <= v + 1
    OBVIOUS
  <2>2. CASE k \in 1..l
    BY <1>3, <1>5, <1>6, <1>7, <1>8, <2>2
  <2>3. CASE k = l + 1
    BY <1>3, <1>6, <2>3
  <2>4. QED
    BY <1>9, <2>2, <2>3
<1>11. \A k, m \in 1..l + 1 : k < m => t[k] < t[m]
  <2>1. SUFFICES ASSUME NEW k \in 1..l + 1, NEW m \in 1..l + 1, k < m PROVE t[k] < t[m]
    OBVIOUS
  <2>2. k \in 1..l
    BY <1>5, <2>1
  <2>3. CASE m \in 1..l
    BY <1>6, <1>8, <2>1, <2>2, <2>3
  <2>4. CASE m = l + 1
    <3>1. t[k] = st[k] /\ st[k] <= v /\ st[k] \in Nat /\ v \in Nat
      BY <1>3, <1>5, <1>6, <1>7, <2>2
    <3>2. QED
      BY <1>6, <2>4, <3>1
  <2>5. QED
    BY <1>9, <2>3, <2>4
<1>12. \A k \in 1..l + 1 : k > 1 => source.parent[t[k]] = t[k - 1]
  <2>1. SUFFICES ASSUME NEW k \in 1..l + 1, k > 1 PROVE source.parent[t[k]] = t[k - 1]
    OBVIOUS
  <2>2. k - 1 \in 1..l
    BY <1>5, <2>1
  <2>3. CASE k \in 1..l
    BY <1>6, <1>8, <2>1, <2>2, <2>3
  <2>4. CASE k = l + 1
    BY <1>5, <1>6, <2>2, <2>4
  <2>5. QED
    BY <1>9, <2>3, <2>4
<1>13. t[1] = 1
  BY <1>5, <1>6, <1>8
<1>14. IsPath(t, v + 1, n)
  BY <1>6, <1>10, <1>11, <1>12, <1>13 DEF IsPath
<1>15. (v + 1) + 1 \in Nodes => OnPath(t, source.parent[(v + 1) + 1])
  BY <1>1, <1>2, <1>3, <1>14, NextBelow DEF OnPath
<1>16. IsStack(t, v + 1)
  <2>1. IsPath(t, t[Len(t)], Size)
    BY <1>1, <1>6, <1>14
  <2>2. \A k \in 1..Len(t) : t[k] <= v + 1
    BY <1>6, <1>10
  <2>3. QED
    BY <1>2, <1>3, <1>6, <1>15, <2>1, <2>2 DEF IsStack
<1>17. QED
  BY <1>1, <1>14, <1>16 DEF IsEntered

\* It leaves the node it is in.
LEMMA StackShrinks ==
  ASSUME SourceTyped, NEW st, NEW v, IsStack(st, v), st # <<>>,
         v + 1 \in Nodes => source.parent[v + 1] # st[Len(st)], NEW t, t = Front(st)
  PROVE  IsStack(t, v)
<1>1. PICK n : n = Size /\ NodesAre(n)
  BY SizeIs
<1>2. n \in Nat /\ Nodes = 1..n
  BY <1>1 DEF NodesAre
<1>4. st \in Seq(Nat)
  BY DEF IsStack
<1>5. PICK l \in Nat : l = Len(st) /\ l > 0 /\ DOMAIN st = 1..l /\ \A k \in 1..l : st[k] \in Nat
  BY <1>4
<1>6. PICK m \in Nat : m = l - 1 /\ l = m + 1
  <2>1. l - 1 \in Nat /\ l = (l - 1) + 1
    BY <1>5
  <2>2. QED
    BY <2>1
<1>7. t = [k \in 1..m |-> st[k]]
  BY <1>4, <1>5, <1>6 DEF Front
<1>8. t \in Seq(Nat) /\ Len(t) = m /\ \A k \in 1..m : t[k] = st[k]
  <2>1. \A k \in 1..m : st[k] \in Nat
    BY <1>5, <1>6
  <2>2. QED
    BY <1>6, <1>7, <2>1
<1>9. IsPath(st, st[l], n) /\ \A k \in 1..l : st[k] <= v
  BY <1>1, <1>5 DEF IsStack
<1>10. /\ st[1] = 1
       /\ \A k \in 1..l : st[k] \in 1..n
       /\ \A j, k \in 1..l : j < k => st[j] < st[k]
       /\ \A k \in 1..l : k > 1 => source.parent[st[k]] = st[k - 1]
  BY <1>5, <1>9 DEF IsPath
<1>11. \A k \in 1..m : k \in 1..l
  BY <1>6
<1>12. t # <<>> => IsPath(t, t[Len(t)], n)
  <2>1. SUFFICES ASSUME t # <<>> PROVE IsPath(t, t[m], n)
    BY <1>8
  <2>2. 1 \in 1..m
    <3>1. Len(t) # 0
      BY <1>8, <2>1
    <3>2. QED
      BY <1>6, <1>8, <3>1
  <2>3. \A k \in 1..m : k > 1 => k - 1 \in 1..m
    BY <1>6
  <2>4. \A k \in 1..m : k > 1 => source.parent[t[k]] = t[k - 1]
    <3>1. SUFFICES ASSUME NEW k \in 1..m, k > 1 PROVE source.parent[t[k]] = t[k - 1]
      OBVIOUS
    <3>2. t[k] = st[k] /\ t[k - 1] = st[k - 1]
      BY <1>8, <2>3, <3>1
    <3>3. source.parent[st[k]] = st[k - 1]
      BY <1>10, <1>11, <3>1
    <3>4. QED
      BY <3>2, <3>3
  <2>5. \A j, k \in 1..m : j < k => t[j] < t[k]
    BY <1>8, <1>10, <1>11
  <2>6. \A k \in 1..m : t[k] \in 1..n
    BY <1>8, <1>10, <1>11
  <2>7. t[1] = 1
    BY <1>8, <1>10, <2>2
  <2>8. QED
    BY <1>8, <2>1, <2>4, <2>5, <2>6, <2>7 DEF IsPath
<1>13. v + 1 \in Nodes => OnPath(t, source.parent[v + 1])
  <2>1. SUFFICES ASSUME v + 1 \in Nodes PROVE OnPath(t, source.parent[v + 1])
    OBVIOUS
  <2>2. PICK k \in 1..l : st[k] = source.parent[v + 1]
    BY <1>5, <2>1 DEF IsStack, OnPath
  <2>3. k # l
    BY <1>5, <2>1, <2>2
  <2>4. k \in 1..m
    BY <1>6, <2>2, <2>3
  <2>5. QED
    BY <1>8, <2>2, <2>4 DEF OnPath
<1>14. \A k \in 1..Len(t) : t[k] <= v
  BY <1>8, <1>9, <1>11
<1>15. v \in Nodes
  BY DEF IsStack
<1>16. QED
  BY <1>1, <1>8, <1>12, <1>13, <1>14, <1>15 DEF IsStack

ScopeFrame == [name : Nat, isClass : BOOLEAN]

\* The frame of a definition, and the scopes when it is entered.
FrameOf(i) == [name |-> i, isClass |-> IsClass(i)]
Opened(sc, i) == IF IsDefinition(i) THEN Append(sc, FrameOf(i)) ELSE sc

\* A definition that is entered opens a scope.
LEMMA ScopeGrows ==
  ASSUME SourceTyped, NEW st, NEW v, IsStack(st, v), v + 1 \in Nodes,
         NEW sc, IsScope(sc, st)
  PROVE  IsScope(Opened(sc, v + 1), Append(st, v + 1))
<1>0. PICK t, u : t = Append(st, v + 1) /\ u = Opened(sc, v + 1)
  OBVIOUS
<1>1. PICK n : n = Size /\ NodesAre(n)
  BY SizeIs
<1>2. n \in Nat /\ Nodes = 1..n
  BY <1>1 DEF NodesAre
<1>3. PICK i \in Nat : i = v + 1 /\ i \in Nodes /\ v < i
  <2>1. v \in 1..n
    BY <1>2 DEF IsStack
  <2>2. v + 1 \in Nat /\ v < v + 1
    BY <1>2, <2>1
  <2>3. QED
    BY <2>2
<1>4. st \in Seq(Nat) /\ \A k \in 1..Len(st) : st[k] <= v
  BY DEF IsStack
<1>5. PICK l \in Nat : l = Len(st) /\ \A k \in 1..l : st[k] \in Nat
  BY <1>4
<1>6. Len(t) = l + 1 /\ t[l + 1] = i /\ \A k \in 1..l : t[k] = st[k]
  BY <1>0, <1>3, <1>4, <1>5
<1>7. \A k \in 1..l + 1 : k \in 1..l \/ k = l + 1
  BY <1>5
<1>8. \A k \in 1..l : k \in 1..l + 1
  BY <1>5
<1>9. l + 1 \in 1..l + 1
  BY <1>5
<1>10. \A j : OnPath(t, j) <=> OnPath(st, j) \/ j = i
  BY <1>5, <1>6, <1>7, <1>8, <1>9 DEF OnPath
<1>11. DefinedOn(t) = DefinedOn(st) \cup (IF IsDefinition(i) THEN {i} ELSE {})
  BY <1>3, <1>10 DEF DefinedOn
<1>12. /\ sc \in Seq(ScopeFrame) /\ IsListing(Names(sc), DefinedOn(st))
       /\ \A k \in 1..Len(sc) : sc[k].isClass <=> IsClass(sc[k].name)
  BY DEF IsScope, ScopeFrame
<1>13. ASSUME ~IsDefinition(i) PROVE IsScope(u, t)
  <2>1. u = sc /\ DefinedOn(t) = DefinedOn(st)
    BY <1>0, <1>3, <1>11, <1>13 DEF Opened
  <2>2. QED
    BY <1>12, <2>1 DEF IsScope, ScopeFrame
<1>14. ASSUME IsDefinition(i) PROVE IsScope(u, t)
  <2>1. PICK f : f = [name |-> i, isClass |-> IsClass(i)] /\ f = FrameOf(i)
    BY DEF FrameOf
  <2>2. f \in ScopeFrame /\ f.name = i /\ (f.isClass <=> IsClass(i))
    <3>1. IsClass(i) \in BOOLEAN
      BY DEF IsClass
    <3>2. QED
      BY <1>3, <2>1, <3>1 DEF ScopeFrame
  <2>3. u = Append(sc, f)
    BY <1>0, <1>3, <1>14, <2>1 DEF Opened
  <2>4. PICK c \in Nat : c = Len(sc) /\ \A k \in 1..c : sc[k] \in ScopeFrame
    BY <1>12
  <2>5. /\ u \in Seq(ScopeFrame) /\ Len(u) = c + 1 /\ u[c + 1] = f
        /\ \A k \in 1..c : u[k] = sc[k]
    <3>1. sc \in Seq(ScopeFrame) /\ c = Len(sc)
      BY <1>12, <2>4
    <3>2. f \in ScopeFrame
      BY <2>2
    <3>3. QED
      BY <2>3, <2>4, <3>1, <3>2
  <2>6. \A k \in 1..c + 1 : k \in 1..c \/ k = c + 1
    BY <2>4
  <2>7. \A k \in 1..c + 1 : u[k].isClass <=> IsClass(u[k].name)
    BY <1>12, <2>2, <2>4, <2>5, <2>6
  <2>8. PICK s : s = Names(sc)
    OBVIOUS
  <2>9. s \in Seq(Nat) /\ Len(s) = c /\ \A k \in 1..c : s[k] = sc[k].name
    <3>1. s = [k \in 1..c |-> sc[k].name]
      BY <2>4, <2>8 DEF Names
    <3>2. \A k \in 1..c : sc[k].name \in Nat
      BY <2>4 DEF ScopeFrame
    <3>3. QED
      BY <2>4, <3>1, <3>2
  <2>10. Names(u) = Append(s, i)
    <3>1. PICK a : a = Append(s, i)
      OBVIOUS
    <3>2. a = [k \in 1..c + 1 |-> IF k = c + 1 THEN i ELSE s[k]]
      BY <1>3, <2>4, <2>9, <3>1
    <3>3. \A k \in 1..c + 1 : u[k].name = IF k = c + 1 THEN i ELSE s[k]
      <4>1. SUFFICES ASSUME NEW k \in 1..c + 1
                     PROVE  u[k].name = IF k = c + 1 THEN i ELSE s[k]
        OBVIOUS
      <4>2. CASE k \in 1..c
        <5>1. k # c + 1
          BY <2>4, <4>2
        <5>2. QED
          BY <2>5, <2>9, <4>2, <5>1
      <4>3. CASE k = c + 1
        BY <2>2, <2>5, <4>3
      <4>4. QED
        BY <2>6, <4>2, <4>3
    <3>4. QED
      BY <2>5, <3>1, <3>2, <3>3 DEF Names
  <2>11. \A y \in DefinedOn(st) : y < i
    <3>1. SUFFICES ASSUME NEW y \in DefinedOn(st) PROVE y < i
      OBVIOUS
    <3>2. PICK k \in 1..l : st[k] = y
      BY <1>5 DEF DefinedOn, OnPath
    <3>3. y <= v /\ y \in Nat /\ v \in Nat
      <4>1. v \in 1..n
        BY <1>2 DEF IsStack
      <4>2. QED
        BY <1>2, <1>4, <1>5, <3>2, <4>1
    <3>4. QED
      BY <1>3, <3>3
  <2>12. IsListing(Append(s, i), DefinedOn(st) \cup {i})
    BY <1>3, <1>12, <2>8, <2>11, ListingAppends
  <2>13. DefinedOn(t) = DefinedOn(st) \cup {i}
    BY <1>11, <1>14
  <2>14. QED
    BY <2>5, <2>7, <2>10, <2>12, <2>13 DEF IsScope, ScopeFrame
<1>15. QED
  BY <1>0, <1>13, <1>14

\* A definition that is left closes its scope, the innermost one.
LEMMA ScopeShrinks ==
  ASSUME SourceTyped, NEW st, NEW v, IsStack(st, v), st # <<>>,
         NEW t, t = Front(st), NEW sc, IsScope(sc, st),
         NEW u, u = IF IsDefinition(st[Len(st)]) THEN Front(sc) ELSE sc
  PROVE  IsScope(u, t)
<1>1. PICK n : n = Size /\ NodesAre(n)
  BY SizeIs
<1>2. n \in Nat /\ Nodes = 1..n
  BY <1>1 DEF NodesAre
<1>4. st \in Seq(Nat)
  BY DEF IsStack
<1>5. PICK l \in Nat : l = Len(st) /\ l > 0 /\ DOMAIN st = 1..l /\ \A k \in 1..l : st[k] \in Nat
  BY <1>4
<1>6. PICK m \in Nat : m = l - 1 /\ l = m + 1
  <2>1. l - 1 \in Nat /\ l = (l - 1) + 1
    BY <1>5
  <2>2. QED
    BY <2>1
<1>7. t = [k \in 1..m |-> st[k]]
  BY <1>4, <1>5, <1>6 DEF Front
<1>8. Len(t) = m /\ \A k \in 1..m : t[k] = st[k]
  BY <1>6, <1>7
<1>9. PICK i \in Nat : i = st[l]
  <2>1. l \in 1..l
    BY <1>5
  <2>2. QED
    BY <1>5, <2>1
<1>10. /\ \A k \in 1..l : st[k] \in 1..n
       /\ \A j, k \in 1..l : j < k => st[j] < st[k]
  <2>1. IsPath(st, st[l], n)
    BY <1>1, <1>5 DEF IsStack
  <2>2. QED
    BY <1>5, <2>1 DEF IsPath
<1>11. \A k \in 1..l : k \in 1..m \/ k = l
  BY <1>6
<1>12. \A k \in 1..m : k \in 1..l /\ k < l
  BY <1>6
<1>13. l \in 1..l
  BY <1>5
<1>14. \A k \in 1..m : st[k] < i
  BY <1>9, <1>10, <1>12, <1>13
<1>15. \A k \in 1..m : st[k] # i
  BY <1>5, <1>12, <1>14
<1>16. \A j : OnPath(t, j) <=> OnPath(st, j) /\ j # i
  BY <1>5, <1>8, <1>9, <1>11, <1>12, <1>15 DEF OnPath
<1>17. i \in Nodes /\ OnPath(st, i)
  BY <1>2, <1>5, <1>9, <1>10, <1>13 DEF OnPath
<1>18. DefinedOn(t) = DefinedOn(st) \ {i}
  BY <1>16 DEF DefinedOn
<1>19. /\ sc \in Seq(ScopeFrame) /\ IsListing(Names(sc), DefinedOn(st))
       /\ \A k \in 1..Len(sc) : sc[k].isClass <=> IsClass(sc[k].name)
  BY DEF IsScope, ScopeFrame
<1>20. CASE ~IsDefinition(i)
  <2>1. u = sc
    BY <1>5, <1>9, <1>20
  <2>2. DefinedOn(t) = DefinedOn(st)
    BY <1>18, <1>20 DEF DefinedOn
  <2>3. QED
    BY <1>19, <2>1, <2>2 DEF IsScope, ScopeFrame
<1>21. CASE IsDefinition(i)
  <2>1. i \in DefinedOn(st)
    BY <1>17, <1>21 DEF DefinedOn
  <2>2. \A y \in DefinedOn(st) : y <= i
    <3>1. SUFFICES ASSUME NEW y \in DefinedOn(st) PROVE y <= i
      OBVIOUS
    <3>2. PICK k \in 1..l : st[k] = y
      BY <1>5 DEF DefinedOn, OnPath
    <3>3. y \in Nat /\ (k = l \/ y < i)
      BY <1>5, <1>11, <1>14, <3>2
    <3>4. QED
      BY <1>9, <3>2, <3>3
  <2>3. PICK s : s = Names(sc)
    OBVIOUS
  <2>4. EndsListing(s, DefinedOn(st), i)
    BY <1>19, <2>1, <2>2, <2>3, ListingFront
  <2>5. s # <<>> /\ IsListing(Front(s), DefinedOn(t))
    BY <1>18, <2>4 DEF EndsListing
  <2>6. PICK c \in Nat : c = Len(sc) /\ DOMAIN sc = 1..c /\ \A k \in 1..c : sc[k] \in ScopeFrame
    BY <1>19
  <2>7. s = [k \in 1..c |-> sc[k].name]
    BY <2>3, <2>6 DEF Names
  <2>8. c # 0
    <3>1. SUFFICES ASSUME c = 0 PROVE FALSE
      OBVIOUS
    <3>2. s \in Seq(Nat) /\ Len(s) = 0
      <4>1. s \in Seq(Nat)
        BY <1>19, <2>3 DEF IsListing
      <4>2. QED
        BY <2>7, <3>1, <4>1
    <3>3. QED
      BY <2>5, <3>2
  <2>9. PICK b \in Nat : b = c - 1 /\ c = b + 1
    <3>1. c - 1 \in Nat /\ c = (c - 1) + 1
      BY <2>6, <2>8
    <3>2. QED
      BY <3>1
  <2>10. u = [k \in 1..b |-> sc[k]]
    <3>1. u = Front(sc)
      BY <1>5, <1>9, <1>21
    <3>2. Front(sc) = [k \in 1..b |-> sc[k]]
      BY <1>19, <2>6, <2>9 DEF Front
    <3>3. QED
      BY <3>1, <3>2
  <2>11. \A k \in 1..b : k \in 1..c
    BY <2>9
  <2>12. u \in Seq(ScopeFrame) /\ Len(u) = b /\ \A k \in 1..b : u[k] = sc[k]
    <3>1. \A k \in 1..b : sc[k] \in ScopeFrame
      BY <2>6, <2>11
    <3>2. QED
      BY <2>9, <2>10, <3>1, SMTT(40)
  <2>13. Names(u) = Front(s)
    <3>1. Names(u) = [k \in 1..b |-> sc[k].name]
      BY <2>12 DEF Names
    <3>2. Len(s) = c /\ DOMAIN s = 1..c
      BY <2>6, <2>7
    <3>3. s \in Seq(Nat)
      BY <1>19, <2>3 DEF IsListing
    <3>4. Front(s) = [k \in 1..b |-> s[k]]
      BY <2>9, <3>2, <3>3 DEF Front
    <3>5. \A k \in 1..b : s[k] = sc[k].name
      BY <2>7, <2>11
    <3>6. QED
      BY <3>1, <3>4, <3>5
  <2>14. \A k \in 1..b : u[k].isClass <=> IsClass(u[k].name)
    BY <1>19, <2>6, <2>11, <2>12
  <2>15. QED
    BY <2>5, <2>12, <2>13, <2>14 DEF IsScope, ScopeFrame
<1>22. QED
  BY <1>20, <1>21

\* Outside ECMAScript what is no type is a method as its frames tell.
LEMMA KindTold ==
  ASSUME SourceTyped, source.family # "ecmascript", NEW i \in Nodes, IsDefinition(i),
         NEW e \in BOOLEAN, SymbolKind(i, e) # "class"
  PROVE  SymbolKind(i, e) = "method" <=> e
<1>1. PICK n : n = Size /\ NodesAre(n)
  BY SizeIs
<1>2. n = Len(source.kind) /\ n \in Nat /\ Nodes = 1..n
  BY <1>1 DEF NodesAre
<1>3. PICK x : x = source.kind[i]
  OBVIOUS
<1>4. x \in Functions \cup Classes \cup Methods \cup Scopes \cup Valued
  BY <1>3 DEF IsDefinition
<1>5. x # "file"
  BY <1>4 DEF Functions, Classes, Methods, Scopes, Valued
<1>6. i # 1
  BY <1>3, <1>5 DEF SourceTyped
<1>7. i \in 2..n
  BY <1>2, <1>6
<1>8. x \in Grammar[source.family] /\ source.family \in {"python", "rust", "none"}
  BY <1>2, <1>3, <1>7 DEF SourceTyped, Families
<1>9. x \notin Methods /\ x # "function_declaration"
  <2>1. CASE source.family = "python"
    <3>1. x \in {"function_definition", "class_definition", "identifier", ";"}
      <4>1. x \in Grammar["python"]
        BY <1>8, <2>1
      <4>2. QED
        BY <4>1 DEF Grammar
    <3>2. QED
      BY <3>1 DEF Methods
  <2>2. CASE source.family = "rust"
    <3>1. x \in {"function_item", "struct_item", "impl_item", "mod_item", "identifier", ";"}
      <4>1. x \in Grammar["rust"]
        BY <1>8, <2>2
      <4>2. QED
        BY <4>1 DEF Grammar
    <3>2. QED
      BY <3>1 DEF Methods
  <2>3. CASE source.family = "none"
    <3>1. x \in {"line", "another"}
      BY <1>8, <2>3 DEF Grammar
    <3>2. QED
      BY <3>1 DEF Methods
  <2>4. QED
    BY <1>8, <2>1, <2>2, <2>3
<1>10. ~IsClass(i)
  <2>1. SUFFICES ASSUME IsClass(i) PROVE SymbolKind(i, e) = "class"
    OBVIOUS
  <2>2. x \in Classes \cup {"impl_item"}
    BY <1>3, <2>1 DEF IsClass
  <2>3. x \notin Methods /\ x # "function_declaration"
    BY <1>9
  <2>4. QED
    BY <1>3, <2>1, <2>3 DEF SymbolKind
<1>11. SymbolKind(i, e) = IF e THEN "method" ELSE "function"
  BY <1>3, <1>9, <1>10 DEF SymbolKind
<1>12. QED
  BY <1>11

\* The symbol of a definition that is entered.
IsSymbolOf(s, i) == IsSymbol(s) /\ s.node = i

\* The symbol of a definition that is entered names the definitions around it.
LEMMA EmittedIs ==
  ASSUME SourceTyped, NEW st, NEW v, IsStack(st, v), v + 1 \in Nodes, IsDefinition(v + 1),
         NEW t, t = Append(st, v + 1), IsPath(t, v + 1, Size), NEW sc, IsScope(sc, st),
         NEW frames, frames = Append(sc, FrameOf(v + 1)),
         IsScope(frames, t)
  PROVE  IsSymbolOf(EmittedAs(v + 1, frames), v + 1)
<1>1. PICK n : n = Size /\ NodesAre(n)
  BY SizeIs
<1>2. n \in Nat /\ Nodes = 1..n
  BY <1>1 DEF NodesAre
<1>3. PICK i \in Nat : i = v + 1 /\ i \in Nodes
  BY <1>2
<1>4. Around(i) = DefinedOn(t)
  BY <1>3, AroundIs
<1>5. PICK s : s = EmittedAs(i, frames)
  OBVIOUS
<1>6. PICK e : e = (Len(frames) > 1 /\ frames[Len(frames) - 1].isClass)
  OBVIOUS
<1>7. /\ s.node = i /\ s.path = [k \in DOMAIN frames |-> frames[k].name]
      /\ s.kind = SymbolKind(i, e)
      /\ s.print = OfNode(Printed(i)).print
      /\ s.shingles = OfNode(Printed(i)).shingles
  BY <1>5, <1>6 DEF EmittedAs
<1>8. frames \in Seq(ScopeFrame) /\ IsListing(Names(frames), DefinedOn(t))
  BY DEF IsScope, ScopeFrame
<1>9. s.path = InOrder(Around(i))
  <2>1. DOMAIN frames = 1..Len(frames)
    BY <1>8
  <2>2. s.path = Names(frames)
    BY <1>7, <2>1 DEF Names
  <2>3. DefinedOn(t) \in SUBSET (1..n)
    BY <1>2 DEF DefinedOn
  <2>4. QED
    BY <1>2, <1>4, <1>8, <2>2, <2>3, ListingIs
<1>10. PICK outer : outer = Around(i) \ {i}
  OBVIOUS
<1>11. outer = DefinedOn(st)
  <2>1. st \in Seq(Nat) /\ (\A k \in 1..Len(st) : st[k] <= v) /\ v \in Nodes
    BY DEF IsStack
  <2>2. PICK l \in Nat : l = Len(st) /\ \A k \in 1..l : st[k] \in Nat
    BY <2>1
  <2>3. Len(t) = l + 1 /\ t[l + 1] = i /\ \A k \in 1..l : t[k] = st[k]
    BY <1>3, <2>1, <2>2
  <2>4. \A k \in 1..l + 1 : k \in 1..l \/ k = l + 1
    BY <2>2
  <2>5. \A k \in 1..l : k \in 1..l + 1
    BY <2>2
  <2>6. \A k \in 1..l : st[k] # i
    <3>1. v \in Nat /\ v < i
      BY <1>2, <1>3, <2>1
    <3>2. QED
      BY <2>1, <2>2, <3>1
  <2>7. \A j : OnPath(st, j) <=> OnPath(t, j) /\ j # i
    BY <2>2, <2>3, <2>4, <2>5, <2>6 DEF OnPath
  <2>8. QED
    BY <1>4, <1>10, <2>7 DEF DefinedOn
<1>12. /\ sc \in Seq(ScopeFrame) /\ IsListing(Names(sc), outer)
       /\ \A k \in 1..Len(sc) : sc[k].isClass <=> IsClass(sc[k].name)
  BY <1>11 DEF IsScope, ScopeFrame
<1>13. PICK c \in Nat : c = Len(sc) /\ \A k \in 1..c : sc[k] \in ScopeFrame
  BY <1>12
<1>14. Names(sc) = [k \in 1..c |-> sc[k].name] /\ Names(sc) \in Seq(Nat) /\ Len(Names(sc)) = c
  <2>1. Names(sc) = [k \in 1..c |-> sc[k].name]
    BY <1>13 DEF Names
  <2>2. \A k \in 1..c : sc[k].name \in Nat
    BY <1>13 DEF ScopeFrame
  <2>3. QED
    BY <1>13, <2>1, <2>2
<1>15. Len(frames) = c + 1 /\ \A k \in 1..c : frames[k] = sc[k]
  <2>1. PICK f : f = [name |-> v + 1, isClass |-> IsClass(v + 1)] /\ f = FrameOf(v + 1)
    BY DEF FrameOf
  <2>2. f \in ScopeFrame
    <3>1. IsClass(v + 1) \in BOOLEAN
      BY DEF IsClass
    <3>2. QED
      BY <1>3, <2>1, <3>1 DEF ScopeFrame
  <2>3. frames = Append(sc, f)
    BY <2>1
  <2>4. QED
    BY <1>12, <1>13, <2>2, <2>3
<1>16. e <=> (outer # {} /\ IsClass(Max(outer)))
  <2>1. CASE c = 0
    <3>1. outer = {}
      <4>1. \A x : x \in outer <=> \E k \in 1..0 : Names(sc)[k] = x
        BY <1>12, <1>14, <2>1 DEF IsListing
      <4>2. QED
        BY <4>1
    <3>2. Len(frames) = 1
      BY <1>15, <2>1
    <3>3. ~(Len(frames) > 1)
      BY <3>2
    <3>4. ~e
      BY <1>6, <3>3
    <3>5. QED
      BY <3>1, <3>4
  <2>2. CASE c # 0
    <3>1. c \in 1..c
      BY <1>13, <2>2
    <3>2. outer # {}
      <4>1. Names(sc)[c] \in outer
        BY <1>12, <1>14, <3>1 DEF IsListing
      <4>2. QED
        BY <4>1
    <3>3. Max(outer) = Names(sc)[Len(Names(sc))]
      BY <1>12, <3>2, ListingMax
    <3>4. Max(outer) = sc[c].name
      BY <1>14, <3>1, <3>3
    <3>5. Len(frames) - 1 = c /\ Len(frames) > 1
      BY <1>13, <1>15, <2>2
    <3>6. frames[Len(frames) - 1] = sc[c]
      BY <1>15, <3>1, <3>5
    <3>7. sc[c].isClass <=> IsClass(sc[c].name)
      BY <1>12, <1>13, <3>1
    <3>8. QED
      BY <1>6, <3>2, <3>4, <3>5, <3>6, <3>7
  <2>3. QED
    BY <2>1, <2>2
<1>17. e \in BOOLEAN
  <2>1. e = TRUE \/ e = FALSE
    BY <1>6
  <2>2. QED
    BY <2>1
<1>18. IsMethodKind(s)
  <2>1. SUFFICES ASSUME source.family # "ecmascript", s.kind # "class"
                 PROVE  s.kind = "method" <=> (outer # {} /\ IsClass(Max(outer)))
    BY <1>7, <1>10 DEF IsMethodKind
  <2>2. s.kind = "method" <=> e
    BY <1>3, <1>7, <1>17, <2>1, KindTold
  <2>3. QED
    BY <1>16, <2>2
<1>19. IsDefinition(i)
  BY <1>3
<1>20. IsSymbol(s)
  BY <1>3, <1>7, <1>9, <1>18, <1>19 DEF IsSymbol
<1>21. QED
  BY <1>3, <1>5, <1>7, <1>20 DEF IsSymbolOf

\* What is emitted goes to the end.
LEMMA EmissionGrows ==
  ASSUME SourceTyped, NEW v \in Nodes, v + 1 \in Nodes, NEW sy, IsEmission(sy, v), NEW s,
         IsDefinition(v + 1) /\ IsEmitted(v + 1) => IsSymbolOf(s, v + 1),
         NEW u, u = IF IsDefinition(v + 1) /\ IsEmitted(v + 1) THEN Append(sy, s) ELSE sy
  PROVE  IsEmission(u, v + 1)
<1>1. PICK n : n = Size /\ NodesAre(n)
  BY SizeIs
<1>2. n \in Nat /\ Nodes = 1..n
  BY <1>1 DEF NodesAre
<1>3. PICK i \in Nat : i = v + 1 /\ i \in Nodes /\ v \in Nat
  BY <1>2
<1>4. \A j \in Nodes : j <= i <=> (j <= v \/ j = i)
  BY <1>2, <1>3
<1>5. EmittedUpTo(i) =
        EmittedUpTo(v) \cup (IF IsDefinition(i) /\ IsEmitted(i) THEN {i} ELSE {})
  BY <1>3, <1>4 DEF EmittedUpTo
<1>6. PICK S : S = {sy[k] : k \in DOMAIN sy}
  OBVIOUS
<1>7. sy \in Seq(S) /\ sy \in Seq(S \cup {s})
  BY <1>6 DEF IsEmission, IsSeq
<1>8. PICK c \in Nat : c = Len(sy) /\ DOMAIN sy = 1..c
  BY <1>7
<1>9. IsListing(NodesOf(sy), EmittedUpTo(v)) /\ \A k \in 1..c : IsSymbol(sy[k])
  BY <1>8 DEF IsEmission
<1>10. CASE ~(IsDefinition(i) /\ IsEmitted(i))
  <2>1. u = sy /\ EmittedUpTo(i) = EmittedUpTo(v)
    BY <1>3, <1>5, <1>10
  <2>2. QED
    BY <1>3, <2>1 DEF IsEmission
<1>11. CASE IsDefinition(i) /\ IsEmitted(i)
  <2>1. u = Append(sy, s) /\ IsSymbol(s) /\ s.node = i
    BY <1>3, <1>11 DEF IsSymbolOf
  <2>2. /\ u \in Seq(S \cup {s}) /\ Len(u) = c + 1 /\ DOMAIN u = 1..c + 1 /\ u[c + 1] = s
        /\ \A k \in 1..c : u[k] = sy[k]
    BY <1>7, <1>8, <2>1
  <2>3. \A k \in 1..c + 1 : k \in 1..c \/ k = c + 1
    BY <1>8
  <2>4. IsSeq(u)
    <3>1. PICK T : T = {u[k] : k \in DOMAIN u}
      OBVIOUS
    <3>2. \A k \in 1..c + 1 : u[k] \in T
      BY <2>2, <3>1
    <3>3. u \in Seq(T)
      BY <1>8, <2>2, <3>2
    <3>4. QED
      BY <3>1, <3>3 DEF IsSeq
  <2>5. \A k \in 1..c + 1 : IsSymbol(u[k])
    BY <1>9, <2>1, <2>2, <2>3
  <2>6. PICK a : a = NodesOf(sy)
    OBVIOUS
  <2>7. a = [k \in 1..c |-> sy[k].node] /\ a \in Seq(Nat) /\ Len(a) = c
    <3>1. a = [k \in 1..c |-> sy[k].node]
      BY <1>8, <2>6 DEF NodesOf
    <3>2. a \in Seq(Nat)
      BY <1>9, <2>6 DEF IsListing
    <3>3. QED
      BY <1>8, <3>1, <3>2
  <2>8. NodesOf(u) = Append(a, i)
    <3>1. PICK b : b = Append(a, i)
      OBVIOUS
    <3>2. b = [k \in 1..c + 1 |-> IF k = c + 1 THEN i ELSE a[k]]
      BY <1>3, <1>8, <2>7, <3>1
    <3>3. \A k \in 1..c + 1 : u[k].node = IF k = c + 1 THEN i ELSE a[k]
      <4>1. SUFFICES ASSUME NEW k \in 1..c + 1
                     PROVE  u[k].node = IF k = c + 1 THEN i ELSE a[k]
        OBVIOUS
      <4>2. CASE k \in 1..c
        <5>1. k # c + 1
          BY <1>8, <4>2
        <5>2. QED
          BY <2>2, <2>7, <4>2, <5>1
      <4>3. CASE k = c + 1
        BY <2>1, <2>2, <4>3
      <4>4. QED
        BY <2>3, <4>2, <4>3
    <3>4. QED
      BY <2>2, <3>1, <3>2, <3>3 DEF NodesOf
  <2>9. \A y \in EmittedUpTo(v) : y < i
    <3>1. \A y \in EmittedUpTo(v) : y <= v /\ y \in Nat
      BY <1>2 DEF EmittedUpTo
    <3>2. QED
      BY <1>3, <3>1
  <2>10. IsListing(Append(a, i), EmittedUpTo(v) \cup {i})
    BY <1>3, <1>9, <2>6, <2>9, ListingAppends
  <2>11. EmittedUpTo(i) = EmittedUpTo(v) \cup {i}
    BY <1>5, <1>11
  <2>12. IsListing(NodesOf(u), EmittedUpTo(i))
    BY <2>8, <2>10, <2>11
  <2>13. QED
    BY <1>3, <2>2, <2>4, <2>5, <2>12 DEF IsEmission
<1>12. QED
  BY <1>10, <1>11

\* What is said of the tree stays as the tree does.
LEMMA NodesStay == ASSUME source' = source PROVE Nodes' = Nodes /\ Size' = Size
BY DEF Nodes, Size

\* Definitions stay as the tree does.
LEMMA DefinitionsStay ==
  ASSUME source' = source
  PROVE  /\ \A i : IsDefinition(i)' <=> IsDefinition(i)
         /\ \A i : IsClass(i)' <=> IsClass(i)
         /\ \A i : IsEmitted(i)' <=> IsEmitted(i)
<1>1. \A i : IsDefinition(i)' <=> IsDefinition(i)
  BY DEF Nodes, IsDefinition, IsFunctionValue, ValueOf, ChildrenOf, HasName
<1>2. \A i : IsClass(i)' <=> IsClass(i)
  BY DEF IsClass
<1>3. \A i : IsEmitted(i)' <=> IsEmitted(i)
  BY DEF IsEmitted
<1>4. QED
  BY <1>1, <1>2, <1>3

\* So do the definitions around a node.
LEMMA AroundStays == ASSUME source' = source PROVE \A i : Around(i)' = Around(i)
BY DEF Around, Nodes, Subtree, IsDefinition, IsFunctionValue, ValueOf, ChildrenOf, HasName

\* So do the prints.
LEMMA PrintStays ==
  ASSUME source' = source
  PROVE  (\A i : OfNode(i)' = OfNode(i)) /\ (\A i : Printed(i)' = Printed(i))
<1>1. \A i : OfNode(i)' = OfNode(i)
  BY DEF OfNode, Outline, NamedIn, IsNamed, ChildDepth, Subtree, Nodes
<1>2. \A i : Printed(i)' = Printed(i)
  BY DEF Printed, Nodes, ValueOf, ChildrenOf
<1>3. QED
  BY <1>1, <1>2

\* So does what is said of a symbol.
LEMMA SymbolStays == ASSUME source' = source PROVE \A s : IsSymbol(s)' <=> IsSymbol(s)
<1>1. SUFFICES ASSUME NEW s PROVE IsSymbol(s)' <=> IsSymbol(s)
  OBVIOUS
<1>2. Nodes' = Nodes
  BY NodesStay
<1>3. Around(s.node)' = Around(s.node)
  BY AroundStays
<1>4. IsMethodKind(s)' <=> IsMethodKind(s)
  BY DefinitionsStay, <1>3 DEF IsMethodKind
<1>5. OfNode(Printed(s.node))' = OfNode(Printed(s.node))
  BY PrintStays
<1>6. QED
  BY <1>2, <1>3, <1>4, <1>5, DefinitionsStay DEF IsSymbol

\* The invariant after a step, from what the step leaves.
LEMMA WalkStays ==
  ASSUME source' = source, SourceTyped,
         NEW st, st = stack', NEW v, v = visited', NEW sc, sc = scope', NEW sy, sy = symbols',
         IsStack(st, v), IsScope(sc, st), IsEmission(sy, v),
         source.family = "none" => st # <<>>
  PROVE  WalkInv'
<1>1. Nodes' = Nodes /\ Size' = Size
  BY NodesStay
<1>2. SourceTyped'
  BY DEF SourceTyped
<1>3. IsStack(stack, visited)'
  BY <1>1 DEF IsStack, IsPath, OnPath
<1>4. DefinedOn(stack)' = DefinedOn(st)
  BY DefinitionsStay, <1>1 DEF DefinedOn, OnPath
<1>5. IsScope(scope, stack)'
  BY <1>1, <1>4, DefinitionsStay DEF IsScope, Names
<1>6. EmittedUpTo(visited)' = EmittedUpTo(v)
  BY <1>1, DefinitionsStay DEF EmittedUpTo
<1>7. IsEmission(symbols, visited)'
  BY <1>6, SymbolStays DEF IsEmission, NodesOf, IsSeq
<1>8. QED
  BY <1>2, <1>3, <1>5, <1>7 DEF WalkInv

\* A language is one of the families.
LEMMA FamilyDetected == ASSUME NEW e PROVE DetectLanguage(e) \in Families
BY DEF DetectLanguage, Families

\* The walk starts at the root.
LEMMA WalkStarts == ParserInit => WalkInv
<1>1. SUFFICES ASSUME ParserInit PROVE WalkInv
  OBVIOUS
<1>2. PICK e \in Extension, n \in 1..MaxNodes :
        \E parent \in {p \in [1..n -> 0..n - 1] : p[1] = 0 /\ IsPreorder(p)} :
        \E kind \in [2..n -> Grammar[DetectLanguage(e)]] :
        \E nameless \in {{}, {n}} :
          source = [family |-> DetectLanguage(e), parent |-> parent, nameless |-> nameless,
                    kind |-> [i \in 1..n |-> IF i = 1 THEN "file" ELSE kind[i]]]
  BY <1>1 DEF ParserInit
<1>3. PICK f : f = DetectLanguage(e)
  OBVIOUS
<1>4. PICK p \in {p \in [1..n -> 0..n - 1] : p[1] = 0 /\ IsPreorder(p)},
           k \in [2..n -> Grammar[f]], nameless \in {{}, {n}} :
        source = [family |-> f, parent |-> p, nameless |-> nameless,
                  kind |-> [i \in 1..n |-> IF i = 1 THEN "file" ELSE k[i]]]
  BY <1>2, <1>3
<1>5. f \in Families
  BY <1>3, FamilyDetected
<1>6. n \in Nat /\ n > 0
  BY ParserAssumption
<1>7. /\ source.family = f /\ source.parent = p
      /\ source.kind = [i \in 1..n |-> IF i = 1 THEN "file" ELSE k[i]]
  BY <1>4
<1>8. \A i \in 2..n : source.kind[i] \in Grammar[f]
  <2>1. SUFFICES ASSUME NEW i \in 2..n PROVE source.kind[i] \in Grammar[f]
    OBVIOUS
  <2>2. i \in 1..n /\ i # 1
    BY <1>6
  <2>3. source.kind[i] = k[i]
    BY <1>7, <2>2
  <2>4. k[i] \in Grammar[f]
    BY <1>4
  <2>5. QED
    BY <2>3, <2>4
<1>9. source.kind[1] = "file"
  <2>1. 1 \in 1..n
    BY <1>6
  <2>2. QED
    BY <1>7, <2>1
<1>10. source.kind \in Seq(Kinds) /\ Len(source.kind) = n
  <2>1. \A i \in 1..n : source.kind[i] \in Kinds
    <3>1. SUFFICES ASSUME NEW i \in 1..n PROVE source.kind[i] \in Kinds
      OBVIOUS
    <3>2. CASE i = 1
      <4>1. "file" \in Kinds
        BY DEF Kinds
      <4>2. QED
        BY <1>9, <3>2, <4>1
    <3>3. CASE i # 1
      <4>1. i \in 2..n
        BY <1>6, <3>3
      <4>2. source.kind[i] \in Grammar[f]
        BY <1>8, <4>1
      <4>3. QED
        BY <1>5, <4>2 DEF Kinds
    <3>4. QED
      BY <3>2, <3>3
  <2>2. PICK s : s = source.kind
    OBVIOUS
  <2>3. s = [i \in 1..n |-> s[i]] /\ \A i \in 1..n : s[i] \in Kinds
    BY <1>7, <2>1, <2>2
  <2>4. s \in Seq(Kinds) /\ Len(s) = n
    BY <1>6, <2>3, SMTT(40)
  <2>5. QED
    BY <2>2, <2>4
<1>11. p \in [1..n -> Nat] /\ p[1] = 0 /\ IsPreorder(p)
  <2>1. 0..n - 1 \subseteq Nat
    BY <1>6
  <2>2. QED
    BY <1>4, <2>1
<1>12. SourceTyped
  BY <1>5, <1>6, <1>7, <1>8, <1>9, <1>10, <1>11 DEF SourceTyped
<1>13. Nodes = 1..n /\ Size = n /\ NodesAre(n)
  <2>1. Size = n
    BY <1>10 DEF Size
  <2>2. NodesAre(n)
    BY <1>12, <2>1, SizeIs
  <2>3. QED
    BY <2>1, <2>2 DEF NodesAre
<1>14. PICK st : st = <<1>>
  OBVIOUS
<1>15. st \in Seq(Nat) /\ st # <<>> /\ Len(st) = 1 /\ st[1] = 1
  BY <1>14
<1>16. \A j : OnPath(st, j) <=> j = 1
  BY <1>15 DEF OnPath
<1>17. IsStack(st, 1)
  <2>1. 1 \in Nodes
    BY <1>6, <1>13
  <2>2. \A k1, l \in 1..1 : ~(k1 < l)
    OBVIOUS
  <2>3. \A k1 \in 1..1 : k1 = 1 /\ ~(k1 > 1)
    OBVIOUS
  <2>4. IsPath(st, 1, n)
    BY <1>13, <1>15, <2>1, <2>2, <2>3 DEF IsPath
  <2>5. 1 + 1 \in Nodes => source.parent[1 + 1] = 1
    <3>1. SUFFICES ASSUME 2 \in 1..n PROVE source.parent[2] = 1
      BY <1>13
    <3>2. 2 \in 2..n
      BY <3>1
    <3>3. source.parent[2] < 2 /\ source.parent[2] > 0 /\ source.parent[2] \in Nat
      BY <1>13, <3>1, <3>2 DEF NodesAre
    <3>4. QED
      BY <3>3
  <2>6. \A k1 \in 1..Len(st) : st[k1] <= 1
    BY <1>15, <2>3
  <2>7. QED
    BY <1>13, <1>15, <1>16, <2>1, <2>4, <2>5, <2>6 DEF IsStack
<1>18. ~IsDefinition(1)
  BY <1>9 DEF IsDefinition, Functions, Classes, Methods, Scopes, Valued
<1>19. IsScope(<<>>, st)
  <2>1. DefinedOn(st) = {}
    BY <1>16, <1>18 DEF DefinedOn
  <2>2. Names(<<>>) = <<>>
    BY DEF Names
  <2>3. QED
    BY <2>1, <2>2, ListingOfNone DEF IsScope
<1>20. IsEmission(<<>>, 1)
  <2>1. EmittedUpTo(1) = {}
    <3>1. \A j \in Nodes : j <= 1 => j = 1
      BY <1>13
    <3>2. QED
      BY <1>18, <3>1 DEF EmittedUpTo
  <2>2. NodesOf(<<>>) = <<>>
    BY DEF NodesOf
  <2>3. IsSeq(<<>>)
    BY DEF IsSeq
  <2>4. \A k1 \in 1..Len(<<>>) : FALSE
    OBVIOUS
  <2>5. QED
    BY <2>1, <2>2, <2>3, <2>4, ListingOfNone DEF IsEmission
<1>21. stack = st /\ visited = 1 /\ scope = <<>> /\ symbols = <<>>
  BY <1>1, <1>14 DEF ParserInit
<1>22. QED
  BY <1>12, <1>15, <1>17, <1>19, <1>20, <1>21 DEF WalkInv

\* A node is entered.
LEMMA WalkChildKeeps == ASSUME WalkInv, WalkChild PROVE WalkInv'
<1>1. /\ SourceTyped /\ IsStack(stack, visited) /\ IsScope(scope, stack)
      /\ IsEmission(symbols, visited)
  BY DEF WalkInv
<1>2. PICK v : v = visited
  OBVIOUS
<1>3. PICK frames : frames = Append(scope, FrameOf(v + 1))
  OBVIOUS
<1>4. /\ source.family # "none" /\ stack # <<>> /\ v + 1 \in Nodes
      /\ source.parent[v + 1] = Last(stack)
      /\ visited' = v + 1 /\ stack' = Append(stack, v + 1)
      /\ scope' = IF IsDefinition(v + 1) THEN frames ELSE scope
      /\ symbols' = IF IsDefinition(v + 1) /\ IsEmitted(v + 1)
                    THEN Append(symbols, EmittedAs(v + 1, frames)) ELSE symbols
      /\ source' = source
  BY <1>2, <1>3 DEF WalkChild, Innermost, FrameOf
<1>5. Last(stack) = stack[Len(stack)]
  BY DEF Last
<1>6. PICK st : st = stack'
  OBVIOUS
<1>7. IsEntered(st, v + 1)
  BY <1>1, <1>2, <1>4, <1>5, <1>6, StackGrows
<1>8. IsStack(st, v + 1) /\ IsPath(st, v + 1, Size)
  BY <1>7 DEF IsEntered
<1>9. PICK sc : sc = scope'
  OBVIOUS
<1>10. IsScope(sc, st)
  <2>5. PICK s0, c0 : s0 = stack /\ c0 = scope
    OBVIOUS
  <2>1. SourceTyped /\ IsStack(s0, v) /\ v + 1 \in Nodes /\ st = Append(s0, v + 1)
    BY <1>1, <1>2, <1>4, <1>6, <2>5
  <2>2. sc = Opened(c0, v + 1)
    BY <1>3, <1>4, <1>9, <2>5 DEF Opened
  <2>3. IsScope(c0, s0)
    BY <1>1, <2>5
  <2>4. IsScope(Opened(c0, v + 1), Append(s0, v + 1))
    BY <2>1, <2>3, ScopeGrows
  <2>6. QED
    BY <2>1, <2>2, <2>4
<1>11. PICK s : s = EmittedAs(v + 1, frames)
  OBVIOUS
<1>12. IsDefinition(v + 1) /\ IsEmitted(v + 1) => IsSymbolOf(s, v + 1)
  <2>1. SUFFICES ASSUME IsDefinition(v + 1) PROVE IsSymbolOf(EmittedAs(v + 1, frames), v + 1)
    BY <1>11
  <2>2. IsScope(frames, st)
    BY <1>4, <1>9, <1>10, <2>1
  <2>3. QED
    BY <1>1, <1>2, <1>3, <1>4, <1>6, <1>8, <2>1, <2>2, EmittedIs
<1>13. PICK sy : sy = symbols'
  OBVIOUS
<1>14. IsEmission(sy, v + 1)
  <2>1. v \in Nodes
    BY <1>1, <1>2 DEF IsStack
  <2>2. QED
    BY <1>1, <1>2, <1>4, <1>11, <1>12, <1>13, <2>1, EmissionGrows
<1>15. QED
  BY <1>1, <1>4, <1>6, <1>8, <1>9, <1>10, <1>13, <1>14, WalkStays

\* A node is left.
LEMMA LeaveNodeKeeps == ASSUME WalkInv, LeaveNode PROVE WalkInv'
<1>1. /\ SourceTyped /\ IsStack(stack, visited) /\ IsScope(scope, stack)
      /\ IsEmission(symbols, visited)
  BY DEF WalkInv
<1>2. Last(stack) = stack[Len(stack)]
  BY DEF Last
<1>3. PICK v : v = visited
  OBVIOUS
<1>4. /\ source.family # "none" /\ stack # <<>>
      /\ v + 1 \in Nodes => source.parent[v + 1] # stack[Len(stack)]
      /\ visited' = v /\ stack' = Front(stack) /\ symbols' = symbols /\ source' = source
      /\ scope' = IF IsDefinition(stack[Len(stack)]) THEN Front(scope) ELSE scope
  BY <1>2, <1>3 DEF LeaveNode, Innermost, CloseScope
<1>5. PICK st : st = stack'
  OBVIOUS
<1>6. IsStack(st, v)
  BY <1>1, <1>3, <1>4, <1>5, StackShrinks
<1>7. PICK sc : sc = scope'
  OBVIOUS
<1>8. IsScope(sc, st)
  BY <1>1, <1>3, <1>4, <1>5, <1>7, ScopeShrinks
<1>9. PICK sy : sy = symbols'
  OBVIOUS
<1>10. IsEmission(sy, v)
  BY <1>1, <1>3, <1>4, <1>9
<1>11. QED
  BY <1>1, <1>4, <1>5, <1>6, <1>7, <1>8, <1>9, <1>10, WalkStays

\* Nothing happens.
LEMMA WalkStutters == ASSUME WalkInv, UNCHANGED parserVars PROVE WalkInv'
<1>1. PICK st, v, sc, sy : st = stack /\ v = visited /\ sc = scope /\ sy = symbols
  OBVIOUS
<1>2. source' = source /\ st = stack' /\ v = visited' /\ sc = scope' /\ sy = symbols'
  BY <1>1 DEF parserVars
<1>3. /\ SourceTyped /\ IsStack(st, v) /\ IsScope(sc, st) /\ IsEmission(sy, v)
      /\ source.family = "none" => st # <<>>
  BY <1>1 DEF WalkInv
<1>4. QED
  BY <1>2, <1>3, WalkStays

\* The stack is the path to the node the walk is in, the scopes are those of the
\* definitions on it, and the symbols are those of the definitions before.
THEOREM WalkInvariant == ParserSpec => []WalkInv
<1>1. ParserInit => WalkInv
  BY WalkStarts
<1>2. WalkInv /\ [ParserNext]_parserVars => WalkInv'
  BY WalkChildKeeps, LeaveNodeKeeps, WalkStutters DEF ParserNext
<1>3. QED
  BY <1>1, <1>2, PTL DEF ParserSpec

\* What the invariant says of paths, kinds and definitions.
LEMMA WalkTells == WalkInv => PathsNameTheirScopes
<1>1. SUFFICES ASSUME WalkInv PROVE PathsNameTheirScopes
  OBVIOUS
<1>2. SourceTyped /\ IsStack(stack, visited) /\ IsEmission(symbols, visited)
  BY <1>1 DEF WalkInv
<1>3. PICK n : n = Size /\ NodesAre(n)
  BY <1>2, SizeIs
<1>4. n \in Nat /\ Nodes = 1..n
  BY <1>3 DEF NodesAre
<1>5. PICK S : S = {symbols[k] : k \in DOMAIN symbols}
  OBVIOUS
<1>6. symbols \in Seq(S)
  BY <1>2, <1>5 DEF IsEmission, IsSeq
<1>7. DOMAIN symbols = 1..Len(symbols)
  BY <1>6
<1>8. \A s \in Range(symbols) : IsSymbol(s)
  BY <1>2, <1>7 DEF IsEmission, Range
<1>9. \A s \in Range(symbols) : s.path = InOrder(Around(s.node)) /\ IsMethodKind(s)
  BY <1>8 DEF IsSymbol
<1>10. ASSUME stack = <<>>
       PROVE  [k \in DOMAIN symbols |-> symbols[k].node] =
                InOrder({i \in Nodes : IsDefinition(i) /\ IsEmitted(i)})
  <2>1. visited \in 1..n /\ (visited + 1 \in Nodes => OnPath(<<>>, source.parent[visited + 1]))
    BY <1>2, <1>4, <1>10 DEF IsStack
  <2>2. visited + 1 \notin 1..n
    BY <1>4, <2>1 DEF OnPath
  <2>3. visited = n
    BY <1>4, <2>1, <2>2
  <2>4. EmittedUpTo(visited) = {i \in Nodes : IsDefinition(i) /\ IsEmitted(i)}
    <3>1. \A j \in Nodes : j <= visited
      BY <1>4, <2>3
    <3>2. QED
      BY <3>1 DEF EmittedUpTo
  <2>5. EmittedUpTo(visited) \in SUBSET (1..n)
    BY <1>4 DEF EmittedUpTo
  <2>6. IsListing(NodesOf(symbols), EmittedUpTo(visited))
    BY <1>2 DEF IsEmission
  <2>7. NodesOf(symbols) = InOrder(EmittedUpTo(visited))
    BY <1>4, <2>5, <2>6, ListingIs
  <2>8. QED
    BY <1>7, <2>4, <2>7 DEF NodesOf
<1>11. QED
  BY <1>9, <1>10 DEF PathsNameTheirScopes, IsMethodKind

\* The path of a symbol names the definitions around it, whatever was walked before, the
\* kind is that of a method directly in a type, and when the walk is over every definition
\* that is more than a scope has given one symbol.
THEOREM PathsTold == ParserSpec => []PathsNameTheirScopes
BY WalkInvariant, WalkTells, PTL

-----------------------------------------------------------------------------
(***************************************************************************)
(* The prints of a file and of its symbols.                                *)
(***************************************************************************)
\* A stretch of numbers in which each follows the one that above gives it.
IsRegion(r, m, above) ==
  /\ r \in Nat /\ m \in Nat /\ r <= m
  /\ \A j \in r + 1..m : above[j] \in r..j - 1

\* What goes from those before to each one holds of all of them.
LEMMA Downwards ==
  ASSUME NEW r \in Nat, NEW m \in Nat, NEW T, r \in T,
         \A j \in r + 1..m : (\A k \in r..j - 1 : k \in T) => j \in T
  PROVE  \A j \in r..m : j \in T
<1>1. PICK S : S = {j \in r..m : j \notin T}
  OBVIOUS
<1>2. ASSUME S # {} PROVE FALSE
  <2>1. S \subseteq Nat
    BY <1>1
  <2>2. PICK n \in S : \A i \in S : n <= i
    BY <1>2, <2>1, LeastOf
  <2>3. n \in r..m /\ n # r /\ n \notin T
    BY <1>1
  <2>4. n \in r + 1..m
    BY <2>3
  <2>5. \A k \in r..n - 1 : k \in T
    <3>1. SUFFICES ASSUME NEW k \in r..n - 1 PROVE k \in T
      OBVIOUS
    <3>2. k \in r..m /\ ~(n <= k)
      BY <2>3
    <3>3. QED
      BY <1>1, <2>2, <3>2
  <2>6. QED
    BY <2>3, <2>4, <2>5
<1>3. QED
  BY <1>1, <1>2

\* A function given by what it is above.
IsDescent(f, r, m, above, V, base, step) ==
  /\ f \in [r..m -> V]
  /\ f = [j \in r..m |-> IF j = r THEN base ELSE step[j][f[above[j]]]]

\* There is such a function.
LEMMA DescentExists ==
  ASSUME NEW r, NEW m, NEW above, IsRegion(r, m, above), NEW V, NEW base \in V,
         NEW step \in [r + 1..m -> [V -> V]]
  PROVE  \E f : IsDescent(f, r, m, above, V, base, step)
<1>1. /\ r \in Nat /\ m \in Nat /\ r <= m
      /\ \A j \in r + 1..m : above[j] \in r..j - 1
  BY DEF IsRegion
<1>2. PICK T : T = {k \in 0..m - r : \E f : IsDescent(f, r, r + k, above, V, base, step)}
  OBVIOUS
<1>3. 0 \in T
  <2>1. PICK f : f = [j \in r..r + 0 |-> base]
    OBVIOUS
  <2>2. \A j \in r..r + 0 : j = r
    BY <1>1
  <2>3. f \in [r..r + 0 -> V]
    BY <2>1
  <2>4. f = [j \in r..r + 0 |-> IF j = r THEN base ELSE step[j][f[above[j]]]]
    BY <2>1, <2>2
  <2>5. IsDescent(f, r, r + 0, above, V, base, step)
    BY <2>3, <2>4 DEF IsDescent
  <2>6. 0 \in 0..m - r
    BY <1>1
  <2>7. QED
    BY <1>2, <2>5, <2>6
<1>4. ASSUME NEW k \in 1..m - r, k - 1 \in T PROVE k \in T
  <2>1. PICK f0 : IsDescent(f0, r, r + (k - 1), above, V, base, step)
    BY <1>2, <1>4
  <2>2. PICK x \in Nat : x = r + k /\ r + (k - 1) = x - 1 /\ x \in r + 1..m
    <3>1. r + k \in Nat /\ r + (k - 1) = (r + k) - 1 /\ r + k \in r + 1..m
      BY <1>1
    <3>2. QED
      BY <3>1
  <2>3. /\ f0 \in [r..x - 1 -> V]
        /\ f0 = [j \in r..x - 1 |-> IF j = r THEN base ELSE step[j][f0[above[j]]]]
    BY <2>1, <2>2 DEF IsDescent
  <2>4. above[x] \in r..x - 1
    BY <1>1, <2>2
  <2>5. PICK v \in V : v = step[x][f0[above[x]]]
    <3>1. f0[above[x]] \in V /\ step[x] \in [V -> V]
      BY <2>2, <2>3, <2>4
    <3>2. QED
      BY <3>1
  <2>6. PICK f : f = [j \in r..x |-> IF j = x THEN v ELSE f0[j]]
    OBVIOUS
  <2>7. \A j \in r..x : j = x \/ (j \in r..x - 1 /\ j # x)
    BY <1>1, <2>2
  <2>8. \A j \in r..x - 1 : j \in r..x /\ j # x /\ f[j] = f0[j]
    <3>1. \A j \in r..x - 1 : j \in r..x /\ j # x
      BY <1>1, <2>2
    <3>2. QED
      BY <2>6, <3>1
  <2>9. x \in r..x /\ f[x] = v /\ x # r
    <3>1. x \in r..x /\ x # r
      BY <1>1, <2>2
    <3>2. QED
      BY <2>6, <3>1
  <2>10. f \in [r..x -> V]
    <3>1. \A j \in r..x : f[j] \in V
      BY <2>3, <2>5, <2>7, <2>8, <2>9, Zenon
    <3>2. QED
      BY <2>6, <3>1, SMTT(60)
  <2>11. \A j \in r..x : f[j] = IF j = r THEN base ELSE step[j][f[above[j]]]
    <3>1. SUFFICES ASSUME NEW j \in r..x
                   PROVE  f[j] = IF j = r THEN base ELSE step[j][f[above[j]]]
      OBVIOUS
    <3>2. CASE j = x
      <4>1. f[above[x]] = f0[above[x]]
        BY <2>4, <2>8
      <4>2. QED
        BY <2>5, <2>9, <3>2, <4>1
    <3>3. CASE j \in r..x - 1
      <4>1. f[j] = IF j = r THEN base ELSE step[j][f0[above[j]]]
        BY <2>3, <2>8, <3>3
      <4>2. j # r => f[above[j]] = f0[above[j]]
        <5>1. SUFFICES ASSUME j # r PROVE above[j] \in r..x - 1
          BY <2>8
        <5>2. j \in r + 1..m
          BY <1>1, <2>2, <3>3, <5>1
        <5>3. above[j] \in r..j - 1
          BY <1>1, <5>2
        <5>4. QED
          BY <1>1, <2>2, <3>3, <5>3
      <4>3. QED
        BY <4>1, <4>2
    <3>4. QED
      BY <2>7, <3>2, <3>3
  <2>12. f = [j \in r..x |-> IF j = r THEN base ELSE step[j][f[above[j]]]]
    BY <2>6, <2>11
  <2>13. IsDescent(f, r, r + k, above, V, base, step)
    BY <2>2, <2>10, <2>12 DEF IsDescent
  <2>14. k \in 0..m - r
    BY <1>1
  <2>15. QED
    BY <1>2, <2>13, <2>14
<1>5. m - r \in Nat /\ m - r \in 0..m - r /\ r + (m - r) = m
  BY <1>1
<1>6. m - r \in T
  <2>1. \A k \in 1..m - r : k - 1 \in T => k \in T
    BY <1>4
  <2>2. \A k \in 0..m - r : k \in T
    BY <1>3, <1>5, <2>1, StepByStep
  <2>3. QED
    BY <1>5, <2>2
<1>7. QED
  BY <1>2, <1>5, <1>6

\* The depths below r, and the nearest named nodes above.
IsDepths(D, r, m) ==
  /\ D \in [r..m -> Nat]
  /\ D = [j \in r..m |-> IF j = r THEN 0 ELSE ChildDepth(source.parent[j], D[source.parent[j]])]

NearestAbove(j, A) == IF IsNamed(source.parent[j]) THEN source.parent[j] ELSE A[source.parent[j]]

IsAbove(A, r, m) ==
  /\ A \in [r..m -> Nat]
  /\ A = [j \in r..m |-> IF j = r THEN 0 ELSE NearestAbove(j, A)]

Extent(r, m) ==
  /\ m \in Nat /\ r \in Nat /\ r <= m /\ m \in Nodes
  /\ Subtree(r) = r..m /\ IsRegion(r, m, source.parent)
  /\ \A x \in Nodes : x \in r..m <=>
       r <= x /\ \A k \in Nodes : r < k /\ k <= x => source.parent[k] >= r

\* What is below a node is a stretch of nodes, each with its parent in it.
LEMMA ExtentIs ==
  ASSUME SourceTyped, NEW r \in Nodes
  PROVE  \E m : Extent(r, m)
<1>1. PICK n : NodesAre(n)
  BY TreeIs
<1>2. /\ n \in Nat /\ Nodes = 1..n
      /\ \A i \in 1..n : source.parent[i] \in Nat
      /\ \A i \in 2..n : source.parent[i] < i /\ source.parent[i] > 0
  BY <1>1 DEF NodesAre
<1>3. PICK m \in r..n :
        /\ Subtree(r) = r..m
        /\ \A x \in 1..n : x \in Subtree(r) <=>
             r <= x /\ \A k \in 1..n : r < k /\ k <= x => source.parent[k] >= r
  BY <1>1, <1>2, SubtreeIs
<1>4. m \in Nat /\ r \in Nat /\ r <= m /\ m \in Nodes
  BY <1>2, <1>3
<1>5. IsRegion(r, m, source.parent)
  <2>1. SUFFICES ASSUME NEW j \in r + 1..m PROVE source.parent[j] \in r..j - 1
    BY <1>4 DEF IsRegion
  <2>2. j \in 2..n /\ j \in 1..n /\ j \in r..m /\ r < j /\ j <= j
    BY <1>2, <1>3
  <2>3. source.parent[j] >= r
    BY <1>3, <2>2
  <2>4. source.parent[j] < j /\ source.parent[j] \in Nat
    BY <1>2, <2>2
  <2>5. QED
    BY <1>4, <2>2, <2>3, <2>4
<1>6. QED
  BY <1>2, <1>3, <1>4, <1>5 DEF Extent

\* The prints are of the named nodes, with their depths.
LEMMA OutlineIs ==
  ASSUME SourceTyped, NEW r \in Nodes, NEW m, Extent(r, m)
  PROVE  \E D : /\ IsDepths(D, r, m)
                /\ Outline(r) = [k \in DOMAIN NamedIn(r) |->
                                   <<D[NamedIn(r)[k]], source.kind[NamedIn(r)[k]]>>]
<1> DEFINE h[j \in Subtree(r)] ==
      IF j = r THEN 0 ELSE ChildDepth(source.parent[j], h[source.parent[j]])
<1>1. Outline(r) = [k \in DOMAIN NamedIn(r) |->
                      <<h[NamedIn(r)[k]], source.kind[NamedIn(r)[k]]>>]
  BY DEF Outline
<1>2. PICK step : step = [j \in r + 1..m |-> [d \in Nat |-> ChildDepth(source.parent[j], d)]]
  OBVIOUS
<1>3. /\ m \in Nat /\ r \in Nat /\ r <= m /\ Subtree(r) = r..m
      /\ IsRegion(r, m, source.parent)
      /\ \A j \in r + 1..m : source.parent[j] \in r..j - 1
  BY DEF Extent, IsRegion
<1>4. \A i : \A d \in Nat : ChildDepth(i, d) \in Nat
  BY DEF ChildDepth
<1>5. step \in [r + 1..m -> [Nat -> Nat]]
  BY <1>2, <1>4
<1>6. \A j \in r..m : j # r => j \in r + 1..m
  BY <1>3
<1>7. ASSUME NEW f \in [r..m -> Nat], NEW j \in r..m, j # r
      PROVE  step[j][f[source.parent[j]]] = ChildDepth(source.parent[j], f[source.parent[j]])
  <2>1. j \in r + 1..m /\ source.parent[j] \in r..j - 1
    BY <1>3, <1>6, <1>7
  <2>2. source.parent[j] \in r..m
    BY <1>3, <2>1
  <2>3. f[source.parent[j]] \in Nat
    BY <2>2
  <2>4. QED
    BY <1>2, <2>1, <2>3
<1>8. PICK f : IsDescent(f, r, m, source.parent, Nat, 0, step)
  BY <1>3, <1>5, DescentExists
<1>9. /\ f \in [r..m -> Nat]
      /\ f = [j \in r..m |-> IF j = r THEN 0 ELSE step[j][f[source.parent[j]]]]
  BY <1>8 DEF IsDescent
<1>10. f = [j \in Subtree(r) |->
              IF j = r THEN 0 ELSE ChildDepth(source.parent[j], f[source.parent[j]])]
  BY <1>3, <1>7, <1>9
<1>11. h = [j \in Subtree(r) |->
              IF j = r THEN 0 ELSE ChildDepth(source.parent[j], h[source.parent[j]])]
  BY <1>10, Zenon
<1> HIDE DEF h
<1>12. \A g : g = [j \in Subtree(r) |->
                IF j = r THEN 0 ELSE ChildDepth(source.parent[j], g[source.parent[j]])]
              => g \in [r..m -> Nat]
  <2>1. SUFFICES ASSUME NEW g,
                        g = [j \in r..m |->
                               IF j = r THEN 0 ELSE ChildDepth(source.parent[j], g[source.parent[j]])]
                 PROVE  g \in [r..m -> Nat]
    BY <1>3
  <2>2. PICK T : T = {j \in r..m : g[j] \in Nat}
    OBVIOUS
  <2>3. r \in T
    <3>1. r \in r..m
      BY <1>3
    <3>2. QED
      BY <2>1, <2>2, <3>1
  <2>4. \A j \in r + 1..m : (\A k \in r..j - 1 : k \in T) => j \in T
    <3>1. SUFFICES ASSUME NEW j \in r + 1..m, \A k \in r..j - 1 : k \in T PROVE j \in T
      OBVIOUS
    <3>2. g[source.parent[j]] \in Nat
      BY <1>3, <2>2, <3>1
    <3>3. j \in r..m /\ j # r
      BY <1>3
    <3>4. g[j] = ChildDepth(source.parent[j], g[source.parent[j]])
      BY <2>1, <3>3
    <3>5. QED
      BY <1>4, <2>2, <3>2, <3>3, <3>4
  <2>5. \A j \in r..m : j \in T
    BY <1>3, <2>3, <2>4, Downwards
  <2>6. \A j \in r..m : g[j] \in Nat
    BY <2>2, <2>5
  <2>7. QED
    BY <2>1, <2>6
<1>13. IsDepths(h, r, m)
  BY <1>3, <1>11, <1>12 DEF IsDepths
<1>14. QED
  BY <1>1, <1>13

\* The shape is of the named nodes, with the nearest named node above each.
LEMMA ShapeIs ==
  ASSUME SourceTyped, NEW r \in Nodes, NEW m, Extent(r, m)
  PROVE  \E A : /\ IsAbove(A, r, m)
                /\ Shape(r) = [k \in DOMAIN NamedIn(r) |->
                                 <<Cardinality({j \in Range(NamedIn(r)) : j <= A[NamedIn(r)[k]]}),
                                   source.kind[NamedIn(r)[k]]>>]
<1> DEFINE h[j \in Subtree(r)] ==
      IF j = r THEN 0
      ELSE IF IsNamed(source.parent[j]) THEN source.parent[j] ELSE h[source.parent[j]]
<1>1. Shape(r) = [k \in DOMAIN NamedIn(r) |->
                    <<Cardinality({j \in Range(NamedIn(r)) : j <= h[NamedIn(r)[k]]}),
                      source.kind[NamedIn(r)[k]]>>]
  BY DEF Shape
<1>2. PICK step : step = [j \in r + 1..m |-> [a \in Nat |->
                            IF IsNamed(source.parent[j]) THEN source.parent[j] ELSE a]]
  OBVIOUS
<1>3. /\ m \in Nat /\ r \in Nat /\ r <= m /\ Subtree(r) = r..m
      /\ IsRegion(r, m, source.parent)
      /\ \A j \in r + 1..m : source.parent[j] \in r..j - 1
  BY DEF Extent, IsRegion
<1>4. \A j \in r + 1..m : source.parent[j] \in Nat
  BY <1>3
<1>5. step \in [r + 1..m -> [Nat -> Nat]]
  BY <1>2, <1>4
<1>6. \A j \in r..m : j # r => j \in r + 1..m
  BY <1>3
<1>7. ASSUME NEW f \in [r..m -> Nat], NEW j \in r..m, j # r
      PROVE  step[j][f[source.parent[j]]] =
               IF IsNamed(source.parent[j]) THEN source.parent[j] ELSE f[source.parent[j]]
  <2>1. j \in r + 1..m /\ source.parent[j] \in r..j - 1
    BY <1>3, <1>6, <1>7
  <2>2. source.parent[j] \in r..m
    BY <1>3, <2>1
  <2>3. f[source.parent[j]] \in Nat
    BY <2>2
  <2>4. QED
    BY <1>2, <2>1, <2>3
<1>8. PICK f : IsDescent(f, r, m, source.parent, Nat, 0, step)
  BY <1>3, <1>5, DescentExists
<1>9. /\ f \in [r..m -> Nat]
      /\ f = [j \in r..m |-> IF j = r THEN 0 ELSE step[j][f[source.parent[j]]]]
  BY <1>8 DEF IsDescent
<1>10. f = [j \in Subtree(r) |->
              IF j = r THEN 0
              ELSE IF IsNamed(source.parent[j]) THEN source.parent[j] ELSE f[source.parent[j]]]
  BY <1>3, <1>7, <1>9
<1>11. h = [j \in Subtree(r) |->
              IF j = r THEN 0
              ELSE IF IsNamed(source.parent[j]) THEN source.parent[j] ELSE h[source.parent[j]]]
  BY <1>10, Zenon
<1> HIDE DEF h
<1>12. \A g : g = [j \in Subtree(r) |-> IF j = r THEN 0 ELSE NearestAbove(j, g)]
              => g \in [r..m -> Nat]
  <2>1. SUFFICES ASSUME NEW g, g = [j \in r..m |-> IF j = r THEN 0 ELSE NearestAbove(j, g)]
                 PROVE  g \in [r..m -> Nat]
    BY <1>3
  <2>2. PICK T : T = {j \in r..m : g[j] \in Nat}
    OBVIOUS
  <2>3. r \in T
    <3>1. r \in r..m
      BY <1>3
    <3>2. QED
      BY <2>1, <2>2, <3>1
  <2>4. \A j \in r + 1..m : (\A k \in r..j - 1 : k \in T) => j \in T
    <3>1. SUFFICES ASSUME NEW j \in r + 1..m, \A k \in r..j - 1 : k \in T PROVE j \in T
      OBVIOUS
    <3>2. g[source.parent[j]] \in Nat /\ source.parent[j] \in Nat
      BY <1>3, <1>4, <2>2, <3>1
    <3>3. j \in r..m /\ j # r
      BY <1>3
    <3>4. g[j] = NearestAbove(j, g)
      BY <2>1, <3>3
    <3>5. g[j] \in Nat
      BY <3>2, <3>4 DEF NearestAbove
    <3>6. QED
      BY <2>2, <3>3, <3>5
  <2>5. \A j \in r..m : j \in T
    BY <1>3, <2>3, <2>4, Downwards
  <2>6. \A j \in r..m : g[j] \in Nat
    BY <2>2, <2>5
  <2>7. QED
    BY <2>1, <2>6
<1>13. h = [j \in Subtree(r) |-> IF j = r THEN 0 ELSE NearestAbove(j, h)]
  BY <1>11 DEF NearestAbove
<1>14. IsAbove(h, r, m)
  BY <1>3, <1>12, <1>13 DEF IsAbove
<1>15. QED
  BY <1>1, <1>14

\* A level below d, as far as the depth grows.
Deeper(d) == IF d < DepthLimit THEN d + 1 ELSE d

\* Every node from a to x is below a.
IsBelow(a, x) == \A k \in Nodes : a < k /\ k <= x => source.parent[k] >= a

IsNearest(D, A, r, x) ==
  /\ A[x] \in r..x - 1 /\ IsNamed(A[x]) /\ D[x] = Deeper(D[A[x]])
  /\ IsBelow(A[x], x)

\* Depths stop at the limit.
LEMMA DepthsBounded ==
  ASSUME SourceTyped, NEW r \in Nodes, NEW m, Extent(r, m), NEW D, IsDepths(D, r, m)
  PROVE  \A j \in r..m : D[j] \in 0..DepthLimit
<1>1. /\ m \in Nat /\ r \in Nat /\ r <= m
      /\ \A j \in r + 1..m : source.parent[j] \in r..j - 1
  BY DEF Extent, IsRegion
<1>2. /\ D \in [r..m -> Nat]
      /\ D = [j \in r..m |-> IF j = r THEN 0 ELSE ChildDepth(source.parent[j], D[source.parent[j]])]
  BY DEF IsDepths
<1>3. DepthLimit \in Nat /\ DepthLimit > 0
  BY ParserAssumption
<1>4. PICK T : T = {j \in r..m : D[j] \in 0..DepthLimit}
  OBVIOUS
<1>5. r \in T
  <2>1. r \in r..m
    BY <1>1
  <2>2. D[r] = 0
    BY <1>2, <2>1
  <2>3. QED
    BY <1>3, <1>4, <2>1, <2>2
<1>6. \A j \in r + 1..m : (\A k \in r..j - 1 : k \in T) => j \in T
  <2>1. SUFFICES ASSUME NEW j \in r + 1..m, \A k \in r..j - 1 : k \in T PROVE j \in T
    OBVIOUS
  <2>2. D[source.parent[j]] \in 0..DepthLimit
    BY <1>1, <1>4, <2>1
  <2>3. j \in r..m /\ j # r
    BY <1>1
  <2>4. D[j] = ChildDepth(source.parent[j], D[source.parent[j]])
    BY <1>2, <2>3
  <2>5. D[j] \in 0..DepthLimit
    BY <1>3, <2>2, <2>4 DEF ChildDepth
  <2>6. QED
    BY <1>4, <2>3, <2>5
<1>7. \A j \in r..m : j \in T
  BY <1>1, <1>5, <1>6, Downwards
<1>8. QED
  BY <1>4, <1>7

\* The nearest named node above a node is the one its depth counts from.
LEMMA NearestIs ==
  ASSUME SourceTyped, NEW r \in Nodes, IsNamed(r), NEW m, Extent(r, m),
         NEW D, IsDepths(D, r, m), NEW A, IsAbove(A, r, m)
  PROVE  \A x \in r + 1..m : IsNearest(D, A, r, x)
<1>1. /\ m \in Nat /\ r \in Nat /\ r <= m
      /\ \A j \in r + 1..m : source.parent[j] \in r..j - 1
  BY DEF Extent, IsRegion
<1>2. /\ D \in [r..m -> Nat]
      /\ D = [j \in r..m |-> IF j = r THEN 0 ELSE ChildDepth(source.parent[j], D[source.parent[j]])]
      /\ A \in [r..m -> Nat]
      /\ A = [j \in r..m |-> IF j = r THEN 0 ELSE NearestAbove(j, A)]
  BY DEF IsDepths, IsAbove
<1>3. PICK n : NodesAre(n)
  BY TreeIs
<1>4. /\ n \in Nat /\ Nodes = 1..n /\ m \in 1..n
      /\ \A i \in 1..n : source.parent[i] \in Nat
      /\ \A i \in 2..n : \A j \in 2..i - 1 :
           j > source.parent[i] => source.parent[j] >= source.parent[i]
  BY <1>3 DEF NodesAre, Extent
<1>5. PICK T : T = {x \in r..m : x = r \/ IsNearest(D, A, r, x)}
  OBVIOUS
<1>6. r \in T
  BY <1>1, <1>5
<1>7. \A j \in r + 1..m : (\A k \in r..j - 1 : k \in T) => j \in T
  <2>1. SUFFICES ASSUME NEW j \in r + 1..m, \A k \in r..j - 1 : k \in T
                 PROVE  IsNearest(D, A, r, j)
    BY <1>1, <1>5
  <2>2. PICK q \in r..j - 1 : q = source.parent[j]
    BY <1>1
  <2>3. j \in r..m /\ j # r /\ q \in Nat /\ j \in Nat /\ q < j
    BY <1>1, <2>2
  <2>4. D[j] = ChildDepth(q, D[q]) /\ A[j] = IF IsNamed(q) THEN q ELSE A[q]
    BY <1>2, <2>2, <2>3 DEF NearestAbove
  <2>5. IsBelow(q, j)
    <3>1. SUFFICES ASSUME NEW k \in 1..n, q < k, k <= j PROVE source.parent[k] >= q
      BY <1>4 DEF IsBelow
    <3>2. CASE k = j
      BY <2>2, <2>3, <3>2
    <3>3. CASE k # j
      <4>1. r >= 1
        BY <1>4
      <4>2. j \in 2..n /\ k \in 2..j - 1
        BY <1>1, <1>4, <2>3, <2>2, <3>1, <3>3, <4>1
      <4>3. QED
        BY <1>4, <2>2, <3>1, <4>2
    <3>4. QED
      BY <3>2, <3>3
  <2>6. CASE IsNamed(q)
    <3>1. A[j] = q /\ D[j] = Deeper(D[q])
      BY <2>4, <2>6 DEF ChildDepth, Deeper
    <3>2. QED
      BY <2>2, <2>5, <2>6, <3>1 DEF IsNearest
  <2>7. CASE ~IsNamed(q)
    <3>1. q # r /\ A[j] = A[q] /\ D[j] = D[q]
      BY <2>4, <2>7 DEF ChildDepth
    <3>2. IsNearest(D, A, r, q)
      BY <1>5, <2>1, <2>2, <3>1
    <3>3. PICK a \in r..q - 1 : a = A[q] /\ IsNamed(a) /\ D[q] = Deeper(D[a]) /\ IsBelow(a, q)
      BY <3>2 DEF IsNearest
    <3>4. a \in r..j - 1 /\ a < q /\ a \in Nat
      BY <1>1, <2>2, <2>3
    <3>5. IsBelow(a, j)
      <4>1. SUFFICES ASSUME NEW k \in 1..n, a < k, k <= j PROVE source.parent[k] >= a
        BY <1>4 DEF IsBelow
      <4>2. CASE k <= q
        BY <1>4, <3>3, <4>1, <4>2 DEF IsBelow
      <4>3. CASE ~(k <= q)
        <5>1. q < k
          BY <2>3, <4>3
        <5>2. source.parent[k] >= q /\ source.parent[k] \in Nat
          BY <1>4, <2>5, <4>1, <5>1 DEF IsBelow
        <5>3. QED
          BY <2>3, <3>4, <5>2
      <4>4. QED
        BY <4>2, <4>3
    <3>6. QED
      BY <3>1, <3>3, <3>4, <3>5 DEF IsNearest
  <2>8. QED
    BY <2>6, <2>7
<1>8. \A j \in r..m : j \in T
  BY <1>1, <1>6, <1>7, Downwards
<1>9. QED
  BY <1>1, <1>5, <1>8

\* What is below a named node is deeper.
LEMMA BelowDeeper ==
  ASSUME SourceTyped, NEW r \in Nodes, NEW m, Extent(r, m), NEW D, IsDepths(D, r, m),
         NEW a \in r..m, IsNamed(a), NEW x \in r..m, IsBelow(a, x)
  PROVE  \A y \in a + 1..x : D[y] >= Deeper(D[a])
<1>1. /\ m \in Nat /\ r \in Nat /\ r <= m
      /\ \A j \in r + 1..m : source.parent[j] \in r..j - 1
  BY DEF Extent, IsRegion
<1>2. /\ D \in [r..m -> Nat]
      /\ D = [j \in r..m |-> IF j = r THEN 0 ELSE ChildDepth(source.parent[j], D[source.parent[j]])]
  BY DEF IsDepths
<1>3. DepthLimit \in Nat /\ \A j \in r..m : D[j] \in 0..DepthLimit
  BY DepthsBounded, ParserAssumption
<1>4. PICK n : NodesAre(n)
  BY TreeIs
<1>5. n \in Nat /\ Nodes = 1..n /\ m \in 1..n /\ r \in 1..n
  BY <1>4 DEF NodesAre, Extent
<1>6. PICK T : T = {y \in a..x : y = a \/ D[y] >= Deeper(D[a])}
  OBVIOUS
<1>7. CASE a <= x
  <2>1. a \in T
    BY <1>1, <1>6, <1>7
  <2>2. \A y \in a + 1..x : (\A k \in a..y - 1 : k \in T) => y \in T
    <3>1. SUFFICES ASSUME NEW y \in a + 1..x, \A k \in a..y - 1 : k \in T
                   PROVE  D[y] >= Deeper(D[a])
      BY <1>1, <1>6
    <3>2. /\ y \in r + 1..m /\ y \in r..m /\ y # r /\ y \in 1..n /\ a < y /\ y <= x
          /\ y \in Nat /\ a \in Nat
      BY <1>1, <1>5
    <3>3. PICK q \in r..y - 1 : q = source.parent[y]
      BY <1>1, <3>2
    <3>4. q >= a
      BY <1>5, <3>2, <3>3 DEF IsBelow
    <3>5. q \in a..y - 1 /\ q \in T
      <4>1. q \in a..y - 1
        BY <3>2, <3>3, <3>4
      <4>2. QED
        BY <3>1, <4>1
    <3>6. D[y] = ChildDepth(q, D[q])
      BY <1>2, <3>2, <3>3
    <3>7. D[q] \in 0..DepthLimit /\ D[a] \in 0..DepthLimit
      <4>1. q \in r..m
        BY <1>1, <3>2, <3>3
      <4>2. QED
        BY <1>3, <4>1
    <3>8. CASE q = a
      BY <3>6, <3>7, <3>8 DEF ChildDepth, Deeper
    <3>9. CASE q # a
      <4>1. D[q] >= Deeper(D[a])
        BY <1>6, <3>5, <3>9
      <4>2. D[y] >= D[q] /\ D[y] \in Nat
        BY <1>3, <3>6, <3>7 DEF ChildDepth
      <4>3. Deeper(D[a]) \in Nat
        BY <1>3, <3>7 DEF Deeper
      <4>4. QED
        BY <3>7, <4>1, <4>2, <4>3
    <3>10. QED
      BY <3>8, <3>9
  <2>3. a \in Nat /\ x \in Nat
    BY <1>1
  <2>4. \A y \in a..x : y \in T
    BY <2>1, <2>2, <2>3, Downwards
  <2>5. \A y \in a + 1..x : y \in a..x /\ y # a
    BY <2>3
  <2>6. QED
    BY <1>6, <2>4, <2>5
<1>8. CASE ~(a <= x)
  BY <1>1, <1>8
<1>9. QED
  BY <1>7, <1>8

\* The greatest of a set of numbers.
LEMMA MaxIs ==
  ASSUME NEW S, S \subseteq Nat, NEW x \in S, \A y \in S : y <= x
  PROVE  Max(S) = x
<1>1. x >= x /\ \A y \in S : x >= y
  OBVIOUS
<1>2. Max(S) \in S /\ \A y \in S : Max(S) >= y
  BY <1>1 DEF Max
<1>3. Max(S) >= x /\ Max(S) <= x /\ Max(S) \in Nat /\ x \in Nat
  BY <1>2
<1>4. QED
  BY <1>3

\* The named nodes below r, in their order.
NamedBelow(r) == {j \in Subtree(r) : IsNamed(j)}

IsNamedIn(s, r, c, n) ==
  /\ c \in Nat /\ NamedBelow(r) \in SUBSET (1..n)
  /\ s = NamedIn(r) /\ s \in Seq(Nat) /\ Len(s) = c /\ DOMAIN s = 1..c
  /\ \A i, j \in 1..c : i < j => s[i] < s[j]
  /\ \A x : x \in NamedBelow(r) <=> \E i \in 1..c : s[i] = x
  /\ \A i \in 1..c : Cardinality(UpTo(NamedBelow(r), s[i])) = i

\* They are listed, and each has its place as rank.
LEMMA NamedInIs ==
  ASSUME SourceTyped, NEW r \in Nodes, NEW n, NodesAre(n), NEW m, Extent(r, m)
  PROVE  \E c : IsNamedIn(NamedIn(r), r, c, n)
<1>1. n \in Nat /\ Nodes = 1..n /\ r \in 1..n /\ m \in 1..n
  BY DEF NodesAre, Extent
<1>2. PICK N : N = NamedBelow(r)
  OBVIOUS
<1>3. N \in SUBSET (1..n)
  <2>1. Subtree(r) = r..m
    BY DEF Extent
  <2>2. \A j \in r..m : j \in 1..n
    BY <1>1
  <2>3. QED
    BY <1>2, <2>1, <2>2 DEF NamedBelow
<1>4. PICK s : s = InOrder(N)
  OBVIOUS
<1>5. NamedIn(r) = s
  BY <1>2, <1>4 DEF NamedIn, NamedBelow
<1>6. IsListing(s, N)
  BY <1>1, <1>3, <1>4, InOrderLists
<1>7. PICK c \in Nat : c = Cardinality(N) /\ s = [i \in 1..c |-> PlaceOf(N, i)]
                       /\ \A i \in 1..c : Cardinality(UpTo(N, PlaceOf(N, i))) = i
  BY <1>1, <1>3, <1>4, InOrderPlaces
<1>8. s \in Seq(Nat) /\ Len(s) = c /\ DOMAIN s = 1..c
  <2>1. s \in Seq(Nat)
    BY <1>6 DEF IsListing
  <2>2. DOMAIN s = 1..c /\ DOMAIN s = 1..Len(s) /\ Len(s) \in Nat
    BY <1>7, <2>1
  <2>3. QED
    BY <1>7, <2>1, <2>2
<1>9. /\ \A i, j \in 1..c : i < j => s[i] < s[j]
      /\ \A x : x \in N <=> \E i \in 1..c : s[i] = x
  BY <1>6, <1>8 DEF IsListing
<1>10. \A i \in 1..c : Cardinality(UpTo(N, s[i])) = i
  BY <1>7
<1>11. QED
  BY <1>2, <1>3, <1>5, <1>8, <1>9, <1>10 DEF IsNamedIn

\* The last one of a lesser depth is the nearest named node above.
LEMMA RebuiltIsShape ==
  ASSUME SourceTyped, NEW r \in Nodes, IsNamed(r), ~IsDeep(Outline(r))
  PROVE  Rebuilt(Outline(r)) = Shape(r)
<1>1. PICK n : NodesAre(n)
  BY TreeIs
<1>2. PICK m : Extent(r, m)
  BY ExtentIs
<1>3. PICK D : /\ IsDepths(D, r, m)
               /\ Outline(r) = [k \in DOMAIN NamedIn(r) |->
                                  <<D[NamedIn(r)[k]], source.kind[NamedIn(r)[k]]>>]
  BY <1>2, OutlineIs
<1>4. PICK A : /\ IsAbove(A, r, m)
               /\ Shape(r) = [k \in DOMAIN NamedIn(r) |->
                                <<Cardinality({j \in Range(NamedIn(r)) : j <= A[NamedIn(r)[k]]}),
                                  source.kind[NamedIn(r)[k]]>>]
  BY <1>2, ShapeIs
<1>5. PICK s, c : s = NamedIn(r) /\ IsNamedIn(s, r, c, n)
  BY <1>1, <1>2, NamedInIs
<1>6. PICK N : N = NamedBelow(r)
  OBVIOUS
<1>7. /\ c \in Nat /\ N \in SUBSET (1..n) /\ s \in Seq(Nat) /\ DOMAIN s = 1..c
      /\ \A i, j \in 1..c : i < j => s[i] < s[j]
      /\ \A x : x \in N <=> \E i \in 1..c : s[i] = x
      /\ \A i \in 1..c : Cardinality(UpTo(N, s[i])) = i
  BY <1>5, <1>6 DEF IsNamedIn
<1>8. PICK o : o = Outline(r)
  OBVIOUS
<1>9. o = [k \in 1..c |-> <<D[s[k]], source.kind[s[k]]>>]
  BY <1>3, <1>5, <1>7, <1>8
<1>10. DOMAIN o = 1..c /\ \A k \in 1..c : o[k][1] = D[s[k]] /\ o[k][2] = source.kind[s[k]]
  BY <1>9
<1>11. Range(s) = N
  BY <1>7 DEF Range
<1>12. Shape(r) = [k \in 1..c |-> <<Cardinality(UpTo(N, A[s[k]])), source.kind[s[k]]>>]
  BY <1>4, <1>5, <1>7, <1>11 DEF UpTo
<1>13. /\ m \in Nat /\ r \in Nat /\ r <= m /\ Subtree(r) = r..m
  BY <1>2 DEF Extent
<1>14. \A k \in 1..c : s[k] \in r..m /\ IsNamed(s[k]) /\ s[k] \in Nat /\ s[k] \in N
  BY <1>6, <1>7, <1>13 DEF NamedBelow
<1>15. /\ DepthLimit \in Nat
       /\ \A j \in r..m : D[j] \in 0..DepthLimit
       /\ \A j \in r + 1..m : IsNearest(D, A, r, j)
       /\ D[r] = 0 /\ A[r] = 0
  <2>1. DepthLimit \in Nat
    BY ParserAssumption
  <2>2. \A j \in r..m : D[j] \in 0..DepthLimit
    BY <1>2, <1>3, DepthsBounded
  <2>3. \A j \in r + 1..m : IsNearest(D, A, r, j)
    BY <1>2, <1>3, <1>4, NearestIs
  <2>4. r \in r..m
    BY <1>13
  <2>5. D[r] = 0 /\ A[r] = 0
    BY <1>3, <1>4, <2>4 DEF IsDepths, IsAbove
  <2>6. QED
    BY <2>1, <2>2, <2>3, <2>5
<1>16. ASSUME NEW k \in 1..c
       PROVE  Max({0} \cup {j \in 1..k - 1 : o[j][1] < o[k][1]}) = Cardinality(UpTo(N, A[s[k]]))
  <2>1. PICK S : S = {0} \cup {j \in 1..k - 1 : o[j][1] < o[k][1]}
    OBVIOUS
  <2>2. S \subseteq Nat /\ 0 \in S
    BY <2>1
  <2>3. \A j \in 1..k - 1 : j \in 1..c /\ j < k
    BY <1>7
  <2>4. \A j \in 1..k - 1 : j \in S <=> D[s[j]] < D[s[k]]
    BY <1>10, <2>1, <2>3
  <2>5. \A j \in S : j = 0 \/ j \in 1..k - 1
    BY <2>1
  <2>6. CASE s[k] = r
    <3>1. \A j \in 1..k - 1 : ~(D[s[j]] < 0)
      <4>1. SUFFICES ASSUME NEW j \in 1..k - 1 PROVE D[s[j]] \in 0..DepthLimit
        BY <1>15
      <4>2. QED
        BY <1>14, <1>15, <2>3
    <3>2. \A j \in S : j <= 0
      BY <1>15, <2>4, <2>5, <2>6, <3>1
    <3>3. Max(S) = 0
      BY <2>2, <3>2, MaxIs
    <3>4. UpTo(N, 0) = {}
      <4>1. \A j \in N : ~(j <= 0)
        BY <1>7
      <4>2. QED
        BY <4>1 DEF UpTo
    <3>5. Cardinality(UpTo(N, A[s[k]])) = 0
      BY <1>15, <2>6, <3>4, FS_EmptySet
    <3>6. QED
      BY <2>1, <3>3, <3>5
  <2>7. CASE s[k] # r
    <3>1. PICK x \in r + 1..m : x = s[k]
      BY <1>13, <1>14, <2>7
    <3>2. PICK a \in r..x - 1 :
            a = A[x] /\ IsNamed(a) /\ D[x] = Deeper(D[a]) /\ IsBelow(a, x)
      BY <1>15, <3>1 DEF IsNearest
    <3>3. a \in r..m /\ x \in r..m /\ a \in Nat /\ a < x /\ x \in Nat
      BY <1>13, <3>1, <3>2
    <3>4. a \in N
      BY <1>6, <1>13, <3>2, <3>3 DEF NamedBelow
    <3>5. PICK q \in 1..c : s[q] = a
      BY <1>7, <3>4
    <3>6. q < k
      <4>1. k < q => s[k] < s[q]
        BY <1>7
      <4>2. q \in Nat /\ k \in Nat /\ q # k
        BY <3>1, <3>3, <3>5
      <4>3. QED
        BY <3>1, <3>3, <3>5, <4>1, <4>2
    <3>7. Cardinality(UpTo(N, A[s[k]])) = q
      BY <1>7, <3>1, <3>2, <3>5
    <3>8. D[a] \in 0..DepthLimit /\ D[x] \in 0..DepthLimit
      BY <1>15, <3>3
    <3>9. D[x] # DepthLimit
      BY <1>8, <1>10, <3>1 DEF IsDeep
    <3>10. D[a] < D[x]
      BY <1>15, <3>2, <3>8, <3>9 DEF Deeper
    <3>11. q \in 1..k - 1 /\ q \in S
      <4>1. q \in 1..k - 1
        BY <3>6
      <4>2. QED
        BY <2>4, <3>1, <3>5, <3>10, <4>1
    <3>12. \A y \in a + 1..x : D[y] >= D[x]
      BY <1>2, <1>3, <3>2, <3>3, BelowDeeper
    <3>13. \A j \in S : j <= q
      <4>1. SUFFICES ASSUME NEW j \in S, ~(j <= q) PROVE FALSE
        OBVIOUS
      <4>2. j \in 1..k - 1 /\ q < j
        BY <2>5, <4>1
      <4>3. j \in 1..c /\ j < k
        BY <2>3, <4>2
      <4>4. a < s[j] /\ s[j] < x /\ s[j] \in Nat
        BY <1>7, <1>14, <3>1, <3>5, <4>2, <4>3
      <4>5. s[j] \in a + 1..x
        BY <3>3, <4>4
      <4>6. D[s[j]] >= D[x]
        BY <3>12, <4>5
      <4>7. D[s[j]] < D[x]
        BY <2>4, <3>1, <4>1, <4>2
      <4>8. D[s[j]] \in 0..DepthLimit
        BY <1>14, <1>15, <4>3
      <4>9. QED
        BY <3>8, <4>6, <4>7, <4>8
    <3>14. Max(S) = q
      BY <2>2, <3>11, <3>13, MaxIs
    <3>15. QED
      BY <2>1, <3>7, <3>14
  <2>8. QED
    BY <2>6, <2>7
<1>17. Rebuilt(o) = [k \in 1..c |->
         <<Max({0} \cup {j \in 1..k - 1 : o[j][1] < o[k][1]}), o[k][2]>>]
  BY <1>10 DEF Rebuilt
<1>18. QED
  BY <1>8, <1>10, <1>12, <1>16, <1>17

\* What has a token has a shingle.
LEMMA ShinglesSome ==
  ASSUME NEW c \in Nat, c > 0, NEW t, DOMAIN t = 1..c, Len(t) = c
  PROVE  Shingles(t) # {}
<1>1. ShingleK \in Nat /\ ShingleK > 0
  BY ParserAssumption
<1>2. CASE c < ShingleK
  <2>1. t[1] \in Range(t)
    BY DEF Range
  <2>2. Shingles(t) = {<<x>> : x \in Range(t)}
    BY <1>2 DEF Shingles
  <2>3. <<t[1]>> \in Shingles(t)
    BY <2>1, <2>2
  <2>4. QED
    BY <2>3
<1>3. CASE ~(c < ShingleK)
  <2>1. Shingles(t) = {SubSeq(t, k, k + ShingleK - 1) : k \in 1..c - ShingleK + 1}
    BY <1>3 DEF Shingles
  <2>2. 1 \in 1..c - ShingleK + 1
    BY <1>1, <1>3
  <2>3. SubSeq(t, 1, 1 + ShingleK - 1) \in Shingles(t)
    BY <2>1, <2>2
  <2>4. QED
    BY <2>3
<1>4. QED
  BY <1>2, <1>3

\* The print of a named node tells its shape.
LEMMA NodeTells ==
  ASSUME SourceTyped, NEW r \in Nodes, IsNamed(r), NEW f,
         f.print = OfNode(r).print, f.shingles = OfNode(r).shingles
  PROVE  TellsShape(f, r)
<1>1. PICK o : o = Outline(r)
  OBVIOUS
<1>2. f.print = o /\ f.shingles = Shingles([k \in DOMAIN o |-> o[k][2]])
  BY <1>1 DEF OfNode
<1>3. ~IsDeep(o) => Rebuilt(o) = Shape(r)
  BY <1>1, RebuiltIsShape
<1>4. PICK n : NodesAre(n)
  BY TreeIs
<1>5. PICK m : Extent(r, m)
  BY ExtentIs
<1>6. PICK c : IsNamedIn(NamedIn(r), r, c, n)
  BY <1>4, <1>5, NamedInIs
<1>7. c \in Nat /\ DOMAIN NamedIn(r) = 1..c
      /\ \A x : x \in NamedBelow(r) <=> \E i \in 1..c : NamedIn(r)[i] = x
  BY <1>6 DEF IsNamedIn
<1>8. r \in NamedBelow(r)
  <2>1. Subtree(r) = r..m /\ r \in r..m
    BY <1>5 DEF Extent
  <2>2. QED
    BY <2>1 DEF NamedBelow
<1>9. c > 0
  <2>1. PICK i \in 1..c : NamedIn(r)[i] = r
    BY <1>7, <1>8
  <2>2. QED
    BY <1>7
<1>10. DOMAIN o = 1..c
  BY <1>1, <1>7 DEF Outline
<1>11. PICK t : t = [k \in 1..c |-> o[k][2]]
  OBVIOUS
<1>12. DOMAIN t = 1..c /\ Len(t) = c
  BY <1>7, <1>11
<1>13. Shingles(t) # {}
  BY <1>7, <1>9, <1>12, ShinglesSome
<1>14. f.shingles # {}
  BY <1>2, <1>10, <1>11, <1>13
<1>15. QED
  BY <1>2, <1>3, <1>14 DEF TellsShape

\* What has a print is named.
LEMMA PrintedNamed ==
  ASSUME SourceTyped, NEW i \in Nodes, IsDefinition(i)
  PROVE  Printed(i) \in Nodes /\ IsNamed(Printed(i))
<1>1. source.kind[i] \in Functions \cup Classes \cup Methods \cup Scopes \cup Valued
  BY DEF IsDefinition
<1>2. CASE source.kind[i] \notin Valued
  <2>1. source.kind[i] \notin Anonymous
    BY <1>1 DEF Functions, Classes, Methods, Scopes, Valued, Anonymous
  <2>2. QED
    BY <1>2, <2>1 DEF Printed, IsNamed
<1>3. CASE source.kind[i] \in Valued
  <2>1. ChildrenOf(i) # {} /\ source.kind[ValueOf(i)] = "arrow_function"
    BY <1>3 DEF IsDefinition, IsFunctionValue
  <2>2. PICK n : NodesAre(n)
    BY TreeIs
  <2>3. n \in Nat /\ Nodes = 1..n
    BY <2>2 DEF NodesAre
  <2>4. PICK S : S = ChildrenOf(i)
    OBVIOUS
  <2>5. S \in SUBSET (1..n)
    BY <2>3, <2>4 DEF ChildrenOf
  <2>6. IsListing(InOrder(S), S)
    BY <2>3, <2>5, InOrderLists
  <2>7. Max(S) \in S
    BY <2>1, <2>4, <2>6, ListingMax
  <2>8. ValueOf(i) \in Nodes
    BY <2>3, <2>4, <2>5, <2>7 DEF ValueOf
  <2>9. Printed(i) = ValueOf(i)
    BY <1>3 DEF Printed
  <2>10. IsNamed(ValueOf(i))
    BY <2>1 DEF IsNamed, Anonymous
  <2>11. QED
    BY <2>8, <2>9, <2>10
<1>4. QED
  BY <1>2, <1>3

\* What the invariant says of prints.
LEMMA PrintsTell == WalkInv => PrintTellsShape
<1>1. SUFFICES ASSUME WalkInv, stack = <<>>
               PROVE  /\ TellsShape(FileFingerprint, 1)
                      /\ \A s \in Range(symbols) : TellsShape(s, Printed(s.node))
  BY DEF PrintTellsShape
<1>2. SourceTyped /\ IsEmission(symbols, visited) /\ source.family # "none"
  BY <1>1 DEF WalkInv
<1>3. TellsShape(FileFingerprint, 1)
  <2>1. PICK n : NodesAre(n)
    BY <1>2, TreeIs
  <2>2. 1 \in Nodes
    BY <2>1 DEF NodesAre
  <2>3. source.kind[1] = "file"
    BY <1>2 DEF SourceTyped
  <2>4. IsNamed(1)
    BY <2>3 DEF IsNamed, Anonymous
  <2>5. FileFingerprint = OfNode(1)
    BY <1>2 DEF FileFingerprint
  <2>6. QED
    BY <1>2, <2>2, <2>4, <2>5, NodeTells
<1>4. ASSUME NEW s \in Range(symbols) PROVE TellsShape(s, Printed(s.node))
  <2>1. IsSymbol(s)
    <3>1. PICK S : S = {symbols[k] : k \in DOMAIN symbols}
      OBVIOUS
    <3>2. symbols \in Seq(S)
      BY <1>2, <3>1 DEF IsEmission, IsSeq
    <3>3. DOMAIN symbols = 1..Len(symbols)
      BY <3>2
    <3>4. QED
      BY <1>2, <3>3 DEF IsEmission, Range
  <2>2. /\ s.node \in Nodes /\ IsDefinition(s.node)
        /\ s.print = OfNode(Printed(s.node)).print
        /\ s.shingles = OfNode(Printed(s.node)).shingles
    BY <2>1 DEF IsSymbol
  <2>3. Printed(s.node) \in Nodes /\ IsNamed(Printed(s.node))
    BY <1>2, <2>2, PrintedNamed
  <2>4. QED
    BY <1>2, <2>2, <2>3, NodeTells
<1>5. QED
  BY <1>3, <1>4

\* From the fingerprint of the file, and of each symbol, the tree of the named nodes can
\* be told as long as the depth fits its byte, and its fuzzy part is never empty.
THEOREM PrintsTold == ParserSpec => []PrintTellsShape
BY WalkInvariant, PrintsTell, PTL

-----------------------------------------------------------------------------
(***************************************************************************)
(* A text without its private keys: the words that are left of it, in their order.*)
(***************************************************************************)
Detecting == {"private_key", "jwt", "anthropic_key", "openai_key", "aws_access_key",
              "url_credentials", "env_secret", "high_entropy", "user_pattern"}

AnyToken ==
  [frame : {"bare", "assign", "url", "begin", "end"}, value : Value \cup {"none", "mark"},
   mark : {"none"} \cup Detecting]

IsBegin(text, i) == text[i].frame = "begin" /\ EndsAfter(text, i) # {}

\* The word that takes the place of one, and the place the rewriting goes on from.
Gives(text, i) == IF IsBegin(text, i) THEN Block ELSE text[i]
Onward(text, i) == IF IsBegin(text, i) THEN Min(EndsAfter(text, i)) + 1 ELSE i + 1

IsRewriting(f, text) ==
  \A i \in 1..Len(text) + 1 :
    f[i] = IF i > Len(text) THEN <<>> ELSE <<Gives(text, i)>> \o f[Onward(text, i)]

\* The first of the ends after a place.
LEMMA EndIs ==
  ASSUME NEW text, NEW n \in Nat, DOMAIN text = 1..n, NEW i \in 1..n, EndsAfter(text, i) # {}
  PROVE  /\ Min(EndsAfter(text, i)) \in i + 1..n
         /\ text[Min(EndsAfter(text, i))].frame = "end"
         /\ \A j \in 1..n : j > i /\ text[j].frame = "end" => Min(EndsAfter(text, i)) <= j
<1>1. PICK E : E = EndsAfter(text, i)
  OBVIOUS
<1>2. E = {j \in 1..n : j > i /\ text[j].frame = "end"}
  BY <1>1 DEF EndsAfter
<1>3. E \subseteq Nat /\ E # {}
  BY <1>1, <1>2
<1>4. \E x \in E : \A y \in E : x <= y
  BY <1>3, LeastOf
<1>5. Min(E) \in E /\ \A y \in E : Min(E) <= y
  BY <1>4 DEF Min
<1>6. PICK m \in E : m = Min(E)
  BY <1>5
<1>7. m \in i + 1..n /\ text[m].frame = "end"
  BY <1>2
<1>8. \A j \in 1..n : j > i /\ text[j].frame = "end" => m <= j
  BY <1>2, <1>5, <1>6
<1>9. QED
  BY <1>1, <1>6, <1>7, <1>8

\* The rewriting goes on behind the word.
LEMMA OnwardIs ==
  ASSUME NEW text, NEW n \in Nat, DOMAIN text = 1..n, NEW i \in 1..n
  PROVE  Onward(text, i) \in i + 1..n + 1
<1>1. CASE IsBegin(text, i)
  <2>1. PICK e \in i + 1..n : e = Min(EndsAfter(text, i))
    BY <1>1, EndIs DEF IsBegin
  <2>2. Onward(text, i) = e + 1
    BY <1>1, <2>1 DEF Onward
  <2>3. QED
    BY <2>2
<1>2. CASE ~IsBegin(text, i)
  BY <1>2 DEF Onward
<1>3. QED
  BY <1>1, <1>2

\* What takes the place of a word is a word.
LEMMA GivesToken ==
  ASSUME NEW text \in Seq(AnyToken), NEW i \in 1..Len(text)
  PROVE  Gives(text, i) \in AnyToken
<1>1. Block \in AnyToken
  BY DEF Block, Placeholder, Token, AnyToken, Detecting
<1>2. text[i] \in AnyToken
  OBVIOUS
<1>3. QED
  BY <1>1, <1>2 DEF Gives

\* The recursion goes down to it from the end of the text.
LEMMA RewritingExists ==
  ASSUME NEW text \in Seq(AnyToken)
  PROVE  \E f : f \in [1..Len(text) + 1 -> Seq(AnyToken)] /\ IsRewriting(f, text)
<1>1. PICK n \in Nat : n = Len(text) /\ DOMAIN text = 1..n
  OBVIOUS
<1>2. PICK above : above = [k \in 1..n |-> n + 1 - Onward(text, n + 1 - k)]
  OBVIOUS
<1>3. PICK step : step = [k \in 1..n |-> [v \in Seq(AnyToken) |-> <<Gives(text, n + 1 - k)>> \o v]]
  OBVIOUS
<1>4. ASSUME NEW k \in 1..n
      PROVE  /\ n + 1 - k \in 1..n /\ above[k] \in 0..k - 1
             /\ n + 1 - above[k] = Onward(text, n + 1 - k)
  <2>1. PICK i \in 1..n : i = n + 1 - k
    OBVIOUS
  <2>2. PICK o \in i + 1..n + 1 : o = Onward(text, i)
    BY <1>1, OnwardIs
  <2>3. above[k] = n + 1 - o
    BY <1>2, <2>1, <2>2
  <2>4. QED
    BY <2>1, <2>2, <2>3
<1>5. IsRegion(0, n, above)
  <2>1. \A k \in 0 + 1..n : above[k] \in 0..k - 1
    BY <1>4
  <2>2. QED
    BY <2>1 DEF IsRegion
<1>6. ASSUME NEW k \in 1..n PROVE step[k] \in [Seq(AnyToken) -> Seq(AnyToken)]
  <2>1. PICK w \in AnyToken : w = Gives(text, n + 1 - k)
    BY <1>1, <1>4, GivesToken
  <2>2. step[k] = [v \in Seq(AnyToken) |-> <<w>> \o v]
    BY <1>3, <2>1
  <2>3. \A v \in Seq(AnyToken) : <<w>> \o v \in Seq(AnyToken)
    OBVIOUS
  <2>4. QED
    BY <2>2, <2>3
<1>7. step \in [0 + 1..n -> [Seq(AnyToken) -> Seq(AnyToken)]]
  BY <1>3, <1>6
<1>8. <<>> \in Seq(AnyToken)
  OBVIOUS
<1>9. PICK g : IsDescent(g, 0, n, above, Seq(AnyToken), <<>>, step)
  BY <1>5, <1>7, <1>8, DescentExists
<1>10. /\ g \in [0..n -> Seq(AnyToken)]
       /\ \A k \in 0..n : g[k] = IF k = 0 THEN <<>> ELSE step[k][g[above[k]]]
  BY <1>9 DEF IsDescent
<1>11. PICK f : f = [i \in 1..n + 1 |-> g[n + 1 - i]]
  OBVIOUS
<1>12. ASSUME NEW i \in 1..n + 1
       PROVE  /\ f[i] \in Seq(AnyToken)
              /\ f[i] = IF i > n THEN <<>> ELSE <<Gives(text, i)>> \o f[Onward(text, i)]
  <2>1. PICK k \in 0..n : k = n + 1 - i
    OBVIOUS
  <2>2. f[i] = g[k]
    BY <1>11, <2>1
  <2>3. CASE i > n
    <3>1. k = 0
      BY <2>1, <2>3
    <3>2. QED
      BY <1>10, <2>2, <2>3, <3>1
  <2>4. CASE ~(i > n)
    <3>1. k \in 1..n /\ n + 1 - k = i
      BY <2>1, <2>4
    <3>2. above[k] \in 0..k - 1 /\ n + 1 - above[k] = Onward(text, i)
      BY <1>4, <3>1
    <3>3. PICK a \in 0..n : a = above[k]
      BY <3>2
    <3>4. n + 1 - a \in 1..n + 1 /\ n + 1 - (n + 1 - a) = a
      OBVIOUS
    <3>5. f[Onward(text, i)] = g[a]
      BY <1>11, <3>2, <3>3, <3>4
    <3>6. g[a] \in Seq(AnyToken)
      BY <1>10
    <3>7. step[k][g[a]] = <<Gives(text, i)>> \o g[a]
      BY <1>3, <3>1, <3>6
    <3>8. g[k] = step[k][g[a]]
      BY <1>10, <3>1, <3>3
    <3>9. QED
      BY <1>10, <2>2, <2>4, <3>5, <3>7, <3>8
  <2>5. QED
    BY <2>3, <2>4
<1>13. f \in [1..n + 1 -> Seq(AnyToken)]
  BY <1>11, <1>12
<1>14. IsRewriting(f, text)
  BY <1>1, <1>12 DEF IsRewriting
<1>15. QED
  BY <1>1, <1>13, <1>14

\* What remains of a text once its private keys are replaced is what the recursion gives from its
\* first word on.
LEMMA ReplaceBlocksIs ==
  ASSUME NEW text \in Seq(AnyToken)
  PROVE  \E f : IsRewriting(f, text) /\ ReplaceBlocks(text) = f[1]
<1> DEFINE h[i \in 1..Len(text) + 1] ==
      IF i > Len(text) THEN <<>>
      ELSE IF text[i].frame = "begin" /\ EndsAfter(text, i) # {}
           THEN <<Block>> \o h[Min(EndsAfter(text, i)) + 1]
           ELSE <<text[i]>> \o h[i + 1]
<1>1. ReplaceBlocks(text) = h[1]
  BY SMTT(60) DEF ReplaceBlocks
<1>2. h = [i \in 1..Len(text) + 1 |->
             IF i > Len(text) THEN <<>>
             ELSE IF text[i].frame = "begin" /\ EndsAfter(text, i) # {}
                  THEN <<Block>> \o h[Min(EndsAfter(text, i)) + 1]
                  ELSE <<text[i]>> \o h[i + 1]]
  <2>1. PICK f : f \in [1..Len(text) + 1 -> Seq(AnyToken)] /\ IsRewriting(f, text)
    BY RewritingExists
  <2>2. f = [i \in 1..Len(text) + 1 |->
               IF i > Len(text) THEN <<>>
               ELSE IF text[i].frame = "begin" /\ EndsAfter(text, i) # {}
                    THEN <<Block>> \o f[Min(EndsAfter(text, i)) + 1]
                    ELSE <<text[i]>> \o f[i + 1]]
    <3>1. ASSUME NEW i \in 1..Len(text) + 1
          PROVE  f[i] = IF i > Len(text) THEN <<>>
                        ELSE IF text[i].frame = "begin" /\ EndsAfter(text, i) # {}
                             THEN <<Block>> \o f[Min(EndsAfter(text, i)) + 1]
                             ELSE <<text[i]>> \o f[i + 1]
      BY <2>1 DEF IsRewriting, Gives, Onward, IsBegin
    <3>2. QED
      BY <2>1, <3>1
  <2>3. QED
    BY <2>2, Zenon
<1> HIDE DEF h
<1>3. IsRewriting(h, text)
  <2>1. ASSUME NEW i \in 1..Len(text) + 1
        PROVE  h[i] = IF i > Len(text) THEN <<>> ELSE <<Gives(text, i)>> \o h[Onward(text, i)]
    <3>1. h[i] = IF i > Len(text) THEN <<>>
                 ELSE IF text[i].frame = "begin" /\ EndsAfter(text, i) # {}
                      THEN <<Block>> \o h[Min(EndsAfter(text, i)) + 1]
                      ELSE <<text[i]>> \o h[i + 1]
      BY <1>2
    <3>2. QED
      BY <3>1 DEF Gives, Onward, IsBegin
  <2>2. QED
    BY <2>1 DEF IsRewriting
<1>4. QED
  BY <1>1, <1>3

\* A place is covered, from s on, by a private key that begins there or later.
Covered(text, s, j) ==
  \E b \in s..j : IsBegin(text, b) /\ Min(EndsAfter(text, b)) >= j

\* What remains of a text from s on, and where its words were.
IsCopy(u, text, s, q) ==
  /\ u \in Seq(AnyToken) /\ q \in Seq(Nat) /\ Len(q) = Len(u)
  /\ \A i \in 1..Len(q) :
       q[i] \in s..Len(text) /\ u[i] = IF Covered(text, s, q[i]) THEN Block ELSE text[q[i]]
  /\ \A i, j \in 1..Len(q) : i < j => q[i] < q[j]
  /\ \A j \in s..Len(text) : ~Covered(text, s, j) => \E i \in 1..Len(q) : q[i] = j
  /\ \A j \in s..Len(text) : Covered(text, s, j) => \E i \in 1..Len(q) : Covered(text, s, q[i])

\* Places behind a private key, or behind a word that begins none, are covered by what
\* begins behind it.
LEMMA CoveredOnward ==
  ASSUME NEW text \in Seq(AnyToken), NEW s \in 1..Len(text)
  PROVE  /\ \A j \in Onward(text, s)..Len(text) :
              Covered(text, s, j) <=> Covered(text, Onward(text, s), j)
         /\ \A j \in s..Onward(text, s) - 1 : j = s \/ Covered(text, s, j)
         /\ Covered(text, s, s) <=> IsBegin(text, s)
         /\ \A j \in s..Onward(text, s) - 1 : Covered(text, s, j) => Covered(text, s, s)
<1>1. PICK n \in Nat : n = Len(text) /\ DOMAIN text = 1..n
  OBVIOUS
<1>2. PICK o \in s + 1..n + 1 : o = Onward(text, s)
  BY <1>1, OnwardIs
<1>3. Covered(text, s, s) <=> IsBegin(text, s)
  <2>1. IsBegin(text, s) => Min(EndsAfter(text, s)) \in s + 1..n
    BY <1>1, EndIs DEF IsBegin
  <2>2. IsBegin(text, s) => Min(EndsAfter(text, s)) >= s
    BY <2>1
  <2>3. \A b \in s..s : b = s
    OBVIOUS
  <2>4. s \in s..s
    OBVIOUS
  <2>5. QED
    BY <2>2, <2>3, <2>4 DEF Covered
<1>4. CASE IsBegin(text, s)
  <2>1. PICK e \in s + 1..n : e = Min(EndsAfter(text, s))
    BY <1>1, <1>4, EndIs DEF IsBegin
  <2>2. o = e + 1 /\ text[e].frame = "end"
    BY <1>1, <1>2, <1>4, <2>1, EndIs DEF IsBegin, Onward
  <2>3. ASSUME NEW j \in s..e PROVE Covered(text, s, j)
    <3>1. s \in s..j /\ e >= j
      OBVIOUS
    <3>2. QED
      BY <1>4, <2>1, <3>1 DEF Covered
  <2>4. ASSUME NEW j \in o..n, NEW b \in s..j, IsBegin(text, b), Min(EndsAfter(text, b)) >= j
        PROVE  b \in o..j
    <3>1. b \in 1..n /\ j > e
      BY <2>2
    <3>2. b # e
      BY <2>2, <2>4 DEF IsBegin
    <3>3. ASSUME b < e PROVE FALSE
      <4>1. Min(EndsAfter(text, b)) \in b + 1..n /\ Min(EndsAfter(text, b)) <= e
        BY <1>1, <2>2, <2>4, <3>1, <3>3, EndIs DEF IsBegin
      <4>2. QED
        BY <2>4, <3>1, <4>1
    <3>4. QED
      BY <2>2, <3>1, <3>2, <3>3
  <2>5. ASSUME NEW j \in o..n PROVE Covered(text, s, j) <=> Covered(text, o, j)
    <3>1. o..j \subseteq s..j
      OBVIOUS
    <3>2. QED
      BY <2>4, <3>1 DEF Covered
  <2>6. s..o - 1 = s..e
    BY <2>2
  <2>7. Covered(text, s, s)
    BY <1>3, <1>4
  <2>8. QED
    BY <1>1, <1>2, <1>3, <2>3, <2>5, <2>6, <2>7
<1>5. CASE ~IsBegin(text, s)
  <2>1. o = s + 1
    BY <1>2, <1>5 DEF Onward
  <2>2. \A j \in s..o - 1 : j = s
    BY <2>1
  <2>3. ASSUME NEW j \in o..n PROVE Covered(text, s, j) <=> Covered(text, o, j)
    <3>1. \A b \in s..j : b = s \/ b \in o..j
      BY <2>1
    <3>2. \A b \in o..j : b \in s..j
      BY <2>1
    <3>3. QED
      BY <1>5, <3>1, <3>2 DEF Covered
  <2>4. QED
    BY <1>1, <1>2, <1>3, <2>2, <2>3
<1>6. QED
  BY <1>4, <1>5

\* One word more at the beginning.
LEMMA CopyGrows ==
  ASSUME NEW text \in Seq(AnyToken), NEW s \in 1..Len(text), NEW u, NEW q,
         IsCopy(u, text, Onward(text, s), q)
  PROVE  IsCopy(<<Gives(text, s)>> \o u, text, s, <<s>> \o q)
<1>1. PICK n \in Nat : n = Len(text) /\ DOMAIN text = 1..n
  OBVIOUS
<1>2. PICK o \in s + 1..n + 1 : o = Onward(text, s)
  BY <1>1, OnwardIs
<1>3. PICK w \in AnyToken : w = Gives(text, s)
  BY GivesToken
<1>4. w = IF Covered(text, s, s) THEN Block ELSE text[s]
  BY <1>3, CoveredOnward DEF Gives
<1>5. /\ \A j \in o..n : Covered(text, s, j) <=> Covered(text, o, j)
      /\ \A j \in s..o - 1 : j = s \/ Covered(text, s, j)
      /\ \A j \in s..o - 1 : Covered(text, s, j) => Covered(text, s, s)
  BY <1>1, <1>2, CoveredOnward
<1>6. /\ u \in Seq(AnyToken) /\ q \in Seq(Nat) /\ Len(q) = Len(u)
      /\ \A i \in 1..Len(q) : q[i] \in o..n /\ u[i] = IF Covered(text, o, q[i]) THEN Block ELSE text[q[i]]
      /\ \A i, j \in 1..Len(q) : i < j => q[i] < q[j]
      /\ \A j \in o..n : ~Covered(text, o, j) => \E i \in 1..Len(q) : q[i] = j
      /\ \A j \in o..n : Covered(text, o, j) => \E i \in 1..Len(q) : Covered(text, o, q[i])
  BY <1>1, <1>2 DEF IsCopy
<1>7. PICK m \in Nat : m = Len(q)
  BY <1>6
<1>8. PICK v : v = <<w>> \o u
  OBVIOUS
<1>9. PICK p : p = <<s>> \o q
  OBVIOUS
<1>10. /\ v \in Seq(AnyToken) /\ Len(v) = m + 1 /\ v[1] = w
       /\ \A i \in 1..m : v[i + 1] = u[i]
  BY <1>6, <1>7, <1>8
<1>11. /\ p \in Seq(Nat) /\ Len(p) = m + 1 /\ p[1] = s
       /\ \A i \in 1..m : p[i + 1] = q[i]
  BY <1>6, <1>7, <1>9
<1>12. \A i \in 1..m + 1 : i = 1 \/ (i - 1 \in 1..m /\ i - 1 + 1 = i)
  OBVIOUS
<1>13. ASSUME NEW i \in 1..m + 1
       PROVE  p[i] \in s..n /\ v[i] = IF Covered(text, s, p[i]) THEN Block ELSE text[p[i]]
  <2>1. CASE i = 1
    BY <1>1, <1>4, <1>10, <1>11, <2>1
  <2>2. CASE i # 1
    <3>1. PICK k \in 1..m : k = i - 1 /\ k + 1 = i
      BY <2>2
    <3>2. v[i] = u[k] /\ p[i] = q[k] /\ q[k] \in o..n
      BY <1>6, <1>7, <1>10, <1>11, <3>1
    <3>3. u[k] = IF Covered(text, o, q[k]) THEN Block ELSE text[q[k]]
      BY <1>6, <1>7
    <3>4. q[k] \in s..n
      BY <3>2
    <3>5. QED
      BY <1>5, <3>2, <3>3, <3>4
  <2>3. QED
    BY <2>1, <2>2
<1>14. ASSUME NEW i \in 1..m + 1, NEW j \in 1..m + 1, i < j PROVE p[i] < p[j]
  <2>1. PICK l \in 1..m : l = j - 1 /\ l + 1 = j
    BY <1>14
  <2>2. p[j] = q[l] /\ q[l] \in o..n
    BY <1>6, <1>7, <1>11, <2>1
  <2>3. CASE i = 1
    BY <1>11, <2>2, <2>3
  <2>4. CASE i # 1
    <3>1. PICK k \in 1..m : k = i - 1 /\ k + 1 = i
      BY <2>4
    <3>2. p[i] = q[k] /\ k < l
      BY <1>11, <1>14, <2>1, <3>1
    <3>3. QED
      BY <1>6, <1>7, <2>2, <3>2
  <2>5. QED
    BY <2>3, <2>4
<1>15. ASSUME NEW j \in s..n
       PROVE  /\ ~Covered(text, s, j) => \E i \in 1..m + 1 : p[i] = j
              /\ Covered(text, s, j) => \E i \in 1..m + 1 : Covered(text, s, p[i])
  <2>1. 1 \in 1..m + 1 /\ \A k \in 1..m : k + 1 \in 1..m + 1
    OBVIOUS
  <2>2. CASE j \in s..o - 1
    <3>1. ~Covered(text, s, j) => p[1] = j
      BY <1>5, <1>11, <2>2
    <3>2. Covered(text, s, j) => Covered(text, s, p[1])
      BY <1>5, <1>11, <2>2
    <3>3. QED
      BY <2>1, <3>1, <3>2
  <2>3. CASE j \in o..n
    <3>1. ~Covered(text, s, j) => \E i \in 1..m : q[i] = j
      BY <1>5, <1>6, <1>7, <2>3
    <3>2. Covered(text, s, j) => \E i \in 1..m : q[i] \in o..n /\ Covered(text, o, q[i])
      BY <1>5, <1>6, <1>7, <2>3
    <3>3. Covered(text, s, j) => \E i \in 1..m : Covered(text, s, q[i])
      BY <1>5, <3>2
    <3>4. QED
      BY <1>11, <2>1, <3>1, <3>3
  <2>4. QED
    BY <2>2, <2>3
<1>16. IsCopy(v, text, s, p)
  BY <1>1, <1>10, <1>11, <1>13, <1>14, <1>15 DEF IsCopy
<1>17. QED
  BY <1>3, <1>8, <1>9, <1>16

\* Behind the last word nothing is left.
LEMMA CopyOfNone ==
  ASSUME NEW text \in Seq(AnyToken)
  PROVE  IsCopy(<<>>, text, Len(text) + 1, <<>>)
BY DEF IsCopy

\* A text without its private keys is a copy of it.
LEMMA BlocksCopied ==
  ASSUME NEW text \in Seq(AnyToken)
  PROVE  \E q : IsCopy(ReplaceBlocks(text), text, 1, q)
<1>1. PICK n \in Nat : n = Len(text) /\ DOMAIN text = 1..n
  OBVIOUS
<1>2. PICK f : IsRewriting(f, text) /\ ReplaceBlocks(text) = f[1]
  BY ReplaceBlocksIs
<1>3. PICK T : T = {k \in 0..n : \E q : IsCopy(f[n + 1 - k], text, n + 1 - k, q)}
  OBVIOUS
<1>4. 0 \in T
  <2>1. n + 1 - 0 = n + 1 /\ n + 1 \in 1..n + 1 /\ n + 1 > n /\ 0 \in 0..n
    OBVIOUS
  <2>2. f[n + 1] = <<>>
    BY <1>1, <1>2, <2>1 DEF IsRewriting
  <2>3. QED
    BY <1>1, <1>3, <2>1, <2>2, CopyOfNone
<1>5. ASSUME NEW k \in 0 + 1..n, \A j \in 0..k - 1 : j \in T PROVE k \in T
  <2>1. PICK s \in 1..n : s = n + 1 - k
    OBVIOUS
  <2>2. PICK o \in s + 1..n + 1 : o = Onward(text, s)
    BY <1>1, OnwardIs
  <2>3. PICK j \in 0..k - 1 : j = n + 1 - o /\ n + 1 - j = o
    BY <2>1
  <2>4. PICK q : IsCopy(f[o], text, o, q)
    BY <1>3, <1>5, <2>3
  <2>5. IsCopy(<<Gives(text, s)>> \o f[o], text, s, <<s>> \o q)
    BY <1>1, <2>2, <2>4, CopyGrows
  <2>6. f[s] = <<Gives(text, s)>> \o f[o]
    <3>1. s \in 1..n + 1 /\ ~(s > n)
      OBVIOUS
    <3>2. f[s] = IF s > n THEN <<>> ELSE <<Gives(text, s)>> \o f[Onward(text, s)]
      BY <1>1, <1>2, <3>1 DEF IsRewriting
    <3>3. QED
      BY <2>2, <3>1, <3>2
  <2>7. k \in 0..n
    OBVIOUS
  <2>8. QED
    BY <1>3, <2>1, <2>5, <2>6, <2>7
<1>6. \A k \in 0..n : k \in T
  BY <1>4, <1>5, Downwards
<1>7. n + 1 - n = 1 /\ n \in 0..n
  OBVIOUS
<1>8. QED
  BY <1>2, <1>3, <1>6, <1>7

-----------------------------------------------------------------------------
(***************************************************************************)
(* The detectors, one after the other.                                     *)
(***************************************************************************)
Findings == [text : Seq(AnyToken), events : Seq(Detecting)]

\* The detectors behind that of private keys; the first of them.
Behind1 == IF config.builtin THEN 1 ELSE 0

\* One more at the end.
LEMMA OneMore ==
  ASSUME NEW S, NEW s \in Seq(S), NEW x \in S
  PROVE  /\ s \o <<x>> \in Seq(S) /\ Len(s \o <<x>>) = Len(s) + 1
         /\ (s \o <<x>>)[Len(s) + 1] = x
         /\ \A i \in 1..Len(s) : (s \o <<x>>)[i] = s[i]
OBVIOUS

\* The list of detectors: that of private keys is the first or is absent, and the key of
\* the one provider is looked for before that of the other.
LEMMA DetectorsAre ==
  ASSUME config.builtin \in BOOLEAN
  PROVE  /\ Detectors \in Seq(Detecting) /\ Len(Detectors) \in Nat /\ Behind1 \in 0..Len(Detectors)
         /\ \A e \in Behind1 + 1..Len(Detectors) : Detectors[e] # "private_key"
         /\ Behind1 = 1 => Detectors[1] = "private_key"
         /\ Behind1 \in {0, 1} /\ (Behind1 = 1 <=> config.builtin)
         /\ \A e \in Behind1 + 1..Len(Detectors) :
              Detectors[e] = "openai_key" => e = 4 /\ Detectors[3] = "anthropic_key" /\ Behind1 = 1
<1>1. CASE config.builtin
  <2>1. PICK d : d = Detectors
    OBVIOUS
  <2>2. d = Builtin \o <<"user_pattern">>
    BY <1>1, <2>1 DEF Detectors
  <2>3. Builtin \in Seq(Detecting) /\ Len(Builtin) = 8
    BY DEF Builtin, Detecting
  <2>4. "user_pattern" \in Detecting
    BY DEF Detecting
  <2>5. /\ d \in Seq(Detecting) /\ Len(d) = 9 /\ d[9] = "user_pattern"
        /\ \A e \in 1..8 : d[e] = Builtin[e]
    <3>1. PICK b \in Seq(Detecting) : b = Builtin /\ Len(b) = 8
      BY <2>3
    <3>2. PICK x \in Detecting : x = "user_pattern"
      BY <2>4
    <3>3. d = b \o <<x>>
      BY <2>2, <3>1, <3>2
    <3>4. d \in Seq(Detecting) /\ Len(d) = 9 /\ d[9] = x /\ \A e \in 1..8 : d[e] = b[e]
      <4>1. PICK n \in Nat : n = 8 /\ n = Len(b) /\ n + 1 = 9
        BY <3>1
      <4>2. d = b \o <<x>> /\ b \in Seq(Detecting) /\ x \in Detecting
        BY <3>1, <3>2, <3>3
      <4>3. /\ d \in Seq(Detecting) /\ Len(d) = n + 1 /\ d[n + 1] = x
            /\ \A e \in 1..n : d[e] = b[e]
        <5>1. /\ b \o <<x>> \in Seq(Detecting) /\ Len(b \o <<x>>) = Len(b) + 1
              /\ (b \o <<x>>)[Len(b) + 1] = x
              /\ \A i \in 1..Len(b) : (b \o <<x>>)[i] = b[i]
          BY <4>2, OneMore
        <5>2. QED
          BY <4>1, <4>2, <5>1
      <4>4. QED
        BY <4>1, <4>3
    <3>5. QED
      BY <3>1, <3>2, <3>4
  <2>6. /\ d[1] = "private_key" /\ d[2] = "jwt" /\ d[3] = "anthropic_key" /\ d[4] = "openai_key"
        /\ d[5] = "aws_access_key" /\ d[6] = "url_credentials" /\ d[7] = "env_secret"
        /\ d[8] = "high_entropy"
    BY <2>5 DEF Builtin
  <2>7. \A e \in 2..9 : e \in {2, 3, 4, 5, 6, 7, 8, 9}
    OBVIOUS
  <2>8. \A e \in 2..9 : d[e] # "private_key" /\ (d[e] = "openai_key" => e = 4)
    BY <2>5, <2>6, <2>7
  <2>9. Behind1 = 1 /\ 1 + 1 = 2
    BY <1>1 DEF Behind1
  <2>10. QED
    BY <1>1, <2>1, <2>5, <2>6, <2>8, <2>9
<1>2. CASE ~config.builtin
  <2>1. PICK d : d = Detectors
    OBVIOUS
  <2>2. d = <<"user_pattern">>
    BY <1>2, <2>1 DEF Detectors
  <2>3. d \in Seq(Detecting) /\ Len(d) = 1 /\ d[1] = "user_pattern"
    BY <2>2 DEF Detecting
  <2>4. Behind1 = 0
    BY <1>2 DEF Behind1
  <2>5. \A e \in 0 + 1..1 : e = 1
    OBVIOUS
  <2>6. QED
    BY <1>2, <2>1, <2>3, <2>4, <2>5
<1>3. QED
  BY <1>1, <1>2

\* A placeholder is a word that tells its kind.
LEMMA PlaceholderIs ==
  ASSUME NEW w \in AnyToken, NEW kind \in Detecting
  PROVE  /\ Placeholder(w, kind) \in AnyToken
         /\ Placeholder(w, kind).mark = kind /\ Placeholder(w, kind).value = "mark"
         /\ kind # "none"
BY DEF Placeholder, AnyToken, Detecting

\* What a detector that goes by words leaves.
LEMMA WordsReplaced ==
  ASSUME NEW text \in Seq(AnyToken), NEW kind \in Detecting, kind # "private_key"
  PROVE  /\ Replace(kind, text) \in Seq(AnyToken) /\ Len(Replace(kind, text)) = Len(text)
         /\ \A i \in 1..Len(text) : Replace(kind, text)[i] =
              IF Matches(kind, text[i]) THEN Placeholder(text[i], kind) ELSE text[i]
         /\ Count(kind, text) = Cardinality({i \in 1..Len(text) : Matches(kind, text[i])})
<1>1. PICK n \in Nat : n = Len(text) /\ DOMAIN text = 1..n /\ \A i \in 1..n : text[i] \in AnyToken
  OBVIOUS
<1>2. PICK r : r = Replace(kind, text)
  OBVIOUS
<1>3. r = [i \in 1..n |-> IF Matches(kind, text[i]) THEN Placeholder(text[i], kind) ELSE text[i]]
  BY <1>1, <1>2 DEF Replace
<1>4. \A i \in 1..n : r[i] = (IF Matches(kind, text[i]) THEN Placeholder(text[i], kind) ELSE text[i])
  BY <1>3
<1>5. \A i \in 1..n : r[i] \in AnyToken
  BY <1>1, <1>4, PlaceholderIs
<1>6. r \in Seq(AnyToken) /\ Len(r) = n
  BY <1>3, <1>5
<1>7. Count(kind, text) = Cardinality({i \in 1..n : Matches(kind, text[i])})
  BY <1>1 DEF Count
<1>8. QED
  BY <1>1, <1>2, <1>4, <1>6, <1>7

\* A number of equal events.
LEMMA EventsOf ==
  ASSUME NEW c \in Int, NEW kind \in Detecting
  PROVE  /\ [k \in 1..c |-> kind] \in Seq(Detecting)
         /\ c >= 0 => Len([k \in 1..c |-> kind]) = c
<1>1. CASE c >= 0
  BY <1>1
<1>2. CASE ~(c >= 0)
  <2>1. 1..c = 1..0
    BY <1>2
  <2>2. [k \in 1..c |-> kind] = [k \in 1..0 |-> kind]
    BY <2>1
  <2>3. [k \in 1..0 |-> kind] \in Seq(Detecting)
    OBVIOUS
  <2>4. QED
    BY <1>2, <2>2, <2>3
<1>3. QED
  BY <1>1, <1>2

\* Replaced private keys are counted.
LEMMA BlocksCounted ==
  ASSUME NEW text \in Seq(AnyToken)
  PROVE  Cardinality(Blocks(text)) \in Nat
<1>1. PICK n \in Nat : n = Len(text) /\ DOMAIN text = 1..n
  OBVIOUS
<1>2. Blocks(text) \in SUBSET (1..n)
  BY <1>1 DEF Blocks
<1>3. QED
  BY <1>2, PlacesCounted

\* Without its private keys a text is a text.
LEMMA BlocksReplaced ==
  ASSUME NEW text \in Seq(AnyToken)
  PROVE  ReplaceBlocks(text) \in Seq(AnyToken)
BY BlocksCopied DEF IsCopy

\* A detector leaves a text and events of kinds.
LEMMA ApplyTyped ==
  ASSUME NEW found \in Findings, NEW kind \in Detecting
  PROVE  Apply(found, kind) \in Findings
<1>1. PICK t \in Seq(AnyToken) : t = found.text
  BY DEF Findings
<1>2. PICK n \in Nat : n = Len(t) /\ DOMAIN t = 1..n
  OBVIOUS
<1>3. Replace(kind, t) \in Seq(AnyToken)
  BY BlocksReplaced, WordsReplaced DEF Replace
<1>4. Count(kind, t) \in Int
  <2>1. CASE kind = "private_key"
    BY <2>1, BlocksCounted, BlocksReplaced DEF Count
  <2>2. CASE kind # "private_key"
    <3>1. {i \in 1..n : Matches(kind, t[i])} \in SUBSET (1..n)
      OBVIOUS
    <3>2. Cardinality({i \in 1..n : Matches(kind, t[i])}) \in Nat
      BY <3>1, PlacesCounted
    <3>3. QED
      BY <1>2, <2>2, <3>2, WordsReplaced
  <2>3. QED
    BY <2>1, <2>2
<1>5. PICK more \in Seq(Detecting) : more = [k \in 1..Count(kind, t) |-> kind]
  BY <1>4, EventsOf
<1>6. found.events \in Seq(Detecting)
  BY DEF Findings
<1>7. found.events \o more \in Seq(Detecting)
  BY <1>5, <1>6
<1>8. QED
  BY <1>1, <1>3, <1>5, <1>7 DEF Apply, Findings

\* What is found after each of the detectors.
IsScan(f, text) ==
  /\ f \in [0..Len(Detectors) -> Findings]
  /\ f[0] = [text |-> text, events |-> <<>>]
  /\ \A d \in 1..Len(Detectors) : f[d] = Apply(f[d - 1], Detectors[d])

\* Before the first detector there are no events.
LEMMA NothingFound ==
  ASSUME NEW text \in Seq(AnyToken)
  PROVE  [text |-> text, events |-> <<>>] \in Findings
<1>1. <<>> \in Seq(Detecting)
  OBVIOUS
<1>2. QED
  BY <1>1 DEF Findings

\* Detectors one after the other give what each of them finds.
LEMMA ScanExists ==
  ASSUME NEW text \in Seq(AnyToken), config.builtin \in BOOLEAN
  PROVE  \E f : /\ IsScan(f, text)
                /\ f = [d \in 0..Len(Detectors) |-> IF d = 0 THEN [text |-> text, events |-> <<>>]
                                                    ELSE Apply(f[d - 1], Detectors[d])]
<1>1. PICK n \in Nat : n = Len(Detectors) /\ \A e \in 1..n : Detectors[e] \in Detecting
  BY DetectorsAre
<1>2. PICK above : above = [d \in 1..n |-> d - 1]
  OBVIOUS
<1>3. PICK step : step = [d \in 1..n |-> [v \in Findings |-> Apply(v, Detectors[d])]]
  OBVIOUS
<1>4. IsRegion(0, n, above)
  <2>1. \A d \in 0 + 1..n : above[d] \in 0..d - 1
    BY <1>2
  <2>2. QED
    BY <2>1 DEF IsRegion
<1>5. \A d \in 1..n : step[d] \in [Findings -> Findings]
  BY <1>1, <1>3, ApplyTyped
<1>6. step \in [0 + 1..n -> [Findings -> Findings]]
  BY <1>3, <1>5
<1>7. PICK start \in Findings : start = [text |-> text, events |-> <<>>]
  BY NothingFound
<1>8. PICK f : IsDescent(f, 0, n, above, Findings, start, step)
  BY <1>4, <1>6, DescentExists
<1>9. /\ f \in [0..n -> Findings]
      /\ f = [d \in 0..n |-> IF d = 0 THEN start ELSE step[d][f[above[d]]]]
  BY <1>8 DEF IsDescent
<1>10. ASSUME NEW d \in 0..n, d # 0
       PROVE  step[d][f[above[d]]] = Apply(f[d - 1], Detectors[d])
  <2>1. d \in 1..n /\ d - 1 \in 0..n
    BY <1>10
  <2>2. f[d - 1] \in Findings /\ above[d] = d - 1
    BY <1>2, <1>9, <2>1
  <2>3. QED
    BY <1>3, <2>1, <2>2
<1>11. f = [d \in 0..n |-> IF d = 0 THEN start ELSE Apply(f[d - 1], Detectors[d])]
  BY <1>9, <1>10
<1>12. f[0] = start
  <2>1. 0 \in 0..n
    OBVIOUS
  <2>2. QED
    BY <1>9, <2>1
<1>13. \A d \in 1..n : f[d] = Apply(f[d - 1], Detectors[d])
  <2>1. \A d \in 1..n : d \in 0..n /\ d # 0
    OBVIOUS
  <2>2. QED
    BY <1>11, <2>1
<1>14. QED
  BY <1>1, <1>7, <1>9, <1>11, <1>12, <1>13 DEF IsScan

\* And a scan is what the last of them finds.
LEMMA ScanIs ==
  ASSUME NEW text \in Seq(AnyToken), config.builtin \in BOOLEAN
  PROVE  \E f : IsScan(f, text) /\ Scan(text) = f[Len(Detectors)]
<1> DEFINE h[d \in 0..Len(Detectors)] ==
      IF d = 0 THEN [text |-> text, events |-> <<>>] ELSE Apply(h[d - 1], Detectors[d])
<1>1. Scan(text) = h[Len(Detectors)]
  BY DEF Scan
<1>2. PICK n \in Nat : n = Len(Detectors) /\ \A e \in 1..n : Detectors[e] \in Detecting
  BY DetectorsAre
<1>3. h = [d \in 0..Len(Detectors) |-> IF d = 0 THEN [text |-> text, events |-> <<>>]
                                       ELSE Apply(h[d - 1], Detectors[d])]
  BY ScanExists, Zenon
<1> HIDE DEF h
<1>4. PICK start \in Findings : start = [text |-> text, events |-> <<>>]
  BY NothingFound
<1>5. PICK T : T = {d \in 0..n : h[d] \in Findings}
  OBVIOUS
<1>6. h[0] = start /\ 0 \in T
  <2>1. 0 \in 0..n
    OBVIOUS
  <2>2. h[0] = start
    BY <1>2, <1>3, <1>4, <2>1
  <2>3. QED
    BY <1>5, <2>1, <2>2
<1>7. ASSUME NEW d \in 1..n PROVE h[d] = Apply(h[d - 1], Detectors[d])
  <2>1. d \in 0..n /\ d # 0
    OBVIOUS
  <2>2. QED
    BY <1>2, <1>3, <2>1
<1>8. ASSUME NEW d \in 1..n, d - 1 \in T PROVE d \in T
  <2>1. h[d - 1] \in Findings /\ d \in 0..n
    BY <1>5, <1>8
  <2>2. h[d] \in Findings
    BY <1>2, <1>7, <2>1, ApplyTyped
  <2>3. QED
    BY <1>5, <2>1, <2>2
<1>9. \A d \in 0..n : d \in T
  BY <1>6, <1>8, StepByStep
<1>10. h \in [0..n -> Findings]
  <2>1. \A d \in 0..n : h[d] \in Findings
    BY <1>5, <1>9
  <2>2. QED
    BY <1>2, <1>3, <2>1
<1>11. QED
  BY <1>1, <1>2, <1>4, <1>6, <1>7, <1>10 DEF IsScan

\* Some detector, of those behind the first up to one, recognises a word.
Knows(word, d) == \E e \in Behind1 + 1..d : Matches(Detectors[e], word)

\* A word that no detector has replaced, up to one of them, of a text without private keys.
IsLeft(rest, i, d) == rest[i].mark = "none" /\ ~Knows(rest[i], d)

IsMarked(word) == word.mark # "none" /\ word.value = "mark"
MarksOf(text) == {i \in 1..Len(text) : text[i].mark # "none"}
KindsOf(found) == {found.events[k] : k \in 1..Len(found.events)}

\* Where the words of a text without private keys are after some of the detectors, and what
\* has been told of them.
WordsStand(found, rest, d) ==
  /\ found \in Findings /\ Len(found.text) = Len(rest)
  /\ \A i \in 1..Len(rest) :
       /\ IsLeft(rest, i, d) => found.text[i] = rest[i]
       /\ ~IsLeft(rest, i, d) => IsMarked(found.text[i])

EventsStand(found, rest, d) ==
  /\ Cardinality(MarksOf(found.text)) <= Len(found.events)
  /\ "openai_key" \in KindsOf(found) => \E i \in 1..Len(rest) : rest[i].value = "openai_key"
  /\ KindsOf(found) # {} => \E i \in 1..Len(rest) : ~IsLeft(rest, i, d)
  /\ \A i \in 1..Len(rest) : rest[i].mark # "none" => KindsOf(found) # {}
  /\ \A i \in 1..Len(rest), e \in Behind1 + 1..d :
       (rest[i].mark = "none" /\ ~Knows(rest[i], e - 1) /\ Matches(Detectors[e], rest[i])) =>
         Detectors[e] \in KindsOf(found)

IsRest(rest) == rest \in Seq(AnyToken) /\ \A i \in 1..Len(rest) : rest[i].mark # "none" => IsMarked(rest[i])

\* One detector more.
LEMMA KnowsMore ==
  ASSUME NEW word, NEW d \in Nat, d >= Behind1 + 1, config.builtin \in BOOLEAN
  PROVE  Knows(word, d) <=> Knows(word, d - 1) \/ Matches(Detectors[d], word)
<1>1. PICK b \in Nat : b = Behind1
  BY DEF Behind1
<1>2. \A e \in b + 1..d : e = d \/ e \in b + 1..d - 1
  OBVIOUS
<1>3. d \in b + 1..d /\ b + 1..d - 1 \subseteq b + 1..d
  BY <1>1
<1>4. QED
  BY <1>1, <1>2, <1>3 DEF Knows

\* The kinds after more events of one kind.
WithMore(s, c, kind) == s \o [k \in 1..c |-> kind]

HasMore(t, s, c, kind) ==
  /\ t \in Seq(Detecting) /\ Len(t) = Len(s) + c
  /\ \A x : (\E k \in 1..Len(t) : t[k] = x) <=>
              (\E k \in 1..Len(s) : s[k] = x) \/ (x = kind /\ c > 0)

\* Events of one kind add that kind, where there are any.
LEMMA KindsMore ==
  ASSUME NEW s \in Seq(Detecting), NEW c \in Nat, NEW kind \in Detecting
  PROVE  HasMore(WithMore(s, c, kind), s, c, kind)
<1>0. c \in Int /\ c >= 0
  OBVIOUS
<1>1. PICK m \in Seq(Detecting) : m = [k \in 1..c |-> kind] /\ Len(m) = c
  BY <1>0, EventsOf
<1>11. PICK t : t = WithMore(s, c, kind)
  OBVIOUS
<1>12. t = s \o m
  BY <1>1, <1>11 DEF WithMore
<1>2. \A k \in 1..c : m[k] = kind
  BY <1>1
<1>3. PICK n \in Nat : n = Len(s)
  OBVIOUS
<1>4. /\ t \in Seq(Detecting) /\ Len(t) = n + c
      /\ \A k \in 1..n : t[k] = s[k]
      /\ \A k \in n + 1..n + c : t[k] = m[k - n]
  BY <1>1, <1>3, <1>12
<1>5. ASSUME NEW k \in n + 1..n + c PROVE t[k] = kind /\ c > 0
  <2>1. k - n \in 1..c
    OBVIOUS
  <2>2. QED
    BY <1>2, <1>4, <2>1
<1>6. c > 0 => n + 1 \in n + 1..n + c /\ n + 1 \in 1..n + c
  OBVIOUS
<1>7. \A k \in 1..n + c : k \in 1..n \/ k \in n + 1..n + c
  OBVIOUS
<1>8. 1..n \subseteq 1..n + c
  OBVIOUS
<1>9. ASSUME NEW x
      PROVE  (\E k \in 1..n + c : t[k] = x) <=> (\E k \in 1..n : s[k] = x) \/ (x = kind /\ c > 0)
  BY <1>4, <1>5, <1>6, <1>7, <1>8
<1>10. t \in Seq(Detecting)
  BY <1>1, <1>12
<1>13. QED
  BY <1>3, <1>4, <1>9, <1>10, <1>11 DEF HasMore

MatchedBy(kind, text) == {i \in 1..Len(text) : Matches(kind, text[i])}

IsApplied(a, found, kind, M) ==
  /\ Cardinality(M) \in Nat /\ (Cardinality(M) > 0 <=> M # {})
  /\ a \in Findings
  /\ Len(a.text) = Len(found.text)
  /\ \A i \in 1..Len(found.text) :
       a.text[i] = IF i \in M THEN Placeholder(found.text[i], kind) ELSE found.text[i]
  /\ Len(a.events) = Len(found.events) + Cardinality(M)
  /\ KindsOf(a) = KindsOf(found) \cup (IF M # {} THEN {kind} ELSE {})

\* What a detector that goes by words makes of what was found before it.
LEMMA ApplyIs ==
  ASSUME NEW found \in Findings, NEW kind \in Detecting, kind # "private_key"
  PROVE  IsApplied(Apply(found, kind), found, kind, MatchedBy(kind, found.text))
<1>1. PICK t \in Seq(AnyToken) : t = found.text
  BY DEF Findings
<1>2. PICK n \in Nat : n = Len(t)
  OBVIOUS
<1>3. PICK M : M = {i \in 1..n : Matches(kind, t[i])}
  OBVIOUS
<1>4. M \in SUBSET (1..n)
  BY <1>3
<1>5. PICK c \in Nat : c = Cardinality(M) /\ (c > 0 <=> M # {})
  <2>1. IsFiniteSet(M) /\ Cardinality(M) \in 0..n
    BY <1>4, PlacesCounted
  <2>2. Cardinality(M) = 0 <=> M = {}
    BY <2>1, FS_EmptySet
  <2>3. QED
    BY <2>1, <2>2
<1>6. PICK a \in Findings : a = Apply(found, kind)
  BY ApplyTyped
<1>7. PICK s \in Seq(Detecting) : s = found.events
  BY DEF Findings
<1>8. Count(kind, t) = c
  BY <1>2, <1>3, <1>5, WordsReplaced
<1>9. a.text = Replace(kind, t) /\ a.events = WithMore(s, c, kind)
  BY <1>1, <1>6, <1>7, <1>8 DEF Apply, WithMore
<1>10. Len(a.text) = n
  BY <1>2, <1>9, WordsReplaced
<1>11. \A i \in 1..n : a.text[i] = IF i \in M THEN Placeholder(t[i], kind) ELSE t[i]
  <2>1. \A i \in 1..Len(t) : Replace(kind, t)[i] =
          IF Matches(kind, t[i]) THEN Placeholder(t[i], kind) ELSE t[i]
    BY <1>1, WordsReplaced
  <2>2. QED
    BY <1>2, <1>3, <1>9, <2>1
<1>12. PICK v : v = a.events
  OBVIOUS
<1>13. HasMore(v, s, c, kind)
  BY <1>9, <1>12, KindsMore
<1>14. KindsOf(a) = KindsOf(found) \cup (IF M # {} THEN {kind} ELSE {})
  <2>1. ASSUME NEW x PROVE x \in KindsOf(a) <=> x \in KindsOf(found) \/ (x = kind /\ M # {})
    <3>1. x \in KindsOf(a) <=> \E k \in 1..Len(v) : v[k] = x
      BY <1>12 DEF KindsOf
    <3>2. x \in KindsOf(found) <=> \E k \in 1..Len(s) : s[k] = x
      BY <1>7 DEF KindsOf
    <3>3. c > 0 <=> M # {}
      BY <1>5
    <3>4. QED
      BY <1>13, <3>1, <3>2, <3>3 DEF HasMore
  <2>2. QED
    BY <2>1
<1>15. QED
  <2>1. MatchedBy(kind, found.text) = M
    BY <1>1, <1>2, <1>3 DEF MatchedBy
  <2>2. IsApplied(a, found, kind, M)
    BY <1>1, <1>2, <1>5, <1>6, <1>7, <1>10, <1>11, <1>12, <1>13, <1>14 DEF HasMore, IsApplied
  <2>3. QED
    BY <1>6, <2>1, <2>2

\* Placeholders are counted.
LEMMA MarksCounted ==
  ASSUME NEW text \in Seq(AnyToken)
  PROVE  MarksOf(text) \in SUBSET (1..Len(text)) /\ Cardinality(MarksOf(text)) \in Nat
<1>1. MarksOf(text) \in SUBSET (1..Len(text)) /\ Len(text) \in Nat
  BY DEF MarksOf
<1>2. QED
  BY <1>1, PlacesCounted

\* A detector keeps the words in place.
LEMMA WordsKeep ==
  ASSUME config.builtin \in BOOLEAN, NEW rest, IsRest(rest), NEW found,
         NEW d \in Behind1 + 1..Len(Detectors), WordsStand(found, rest, d - 1)
  PROVE  WordsStand(Apply(found, Detectors[d]), rest, d)
<1>1. PICK kind \in Detecting : kind = Detectors[d] /\ kind # "private_key" /\ d \in Nat /\ d >= Behind1 + 1
  BY DetectorsAre
<1>2. found \in Findings /\ Len(found.text) = Len(rest)
  BY DEF WordsStand
<1>3. PICK n \in Nat : n = Len(rest)
  BY DEF IsRest
<1>4. PICK M : M = {i \in 1..n : Matches(kind, found.text[i])}
  OBVIOUS
<1>5. PICK a \in Findings : a = Apply(found, kind)
  BY <1>2, ApplyTyped
<1>6. /\ Len(a.text) = n
      /\ \A i \in 1..n : a.text[i] = IF i \in M THEN Placeholder(found.text[i], kind) ELSE found.text[i]
  <2>1. MatchedBy(kind, found.text) = M
    BY <1>2, <1>3, <1>4 DEF MatchedBy
  <2>2. IsApplied(a, found, kind, M)
    BY <1>1, <1>2, <1>5, <2>1, ApplyIs
  <2>3. QED
    BY <1>2, <1>3, <2>2 DEF IsApplied
<1>7. ASSUME NEW i \in 1..n
      PROVE  /\ IsLeft(rest, i, d) => a.text[i] = rest[i]
             /\ ~IsLeft(rest, i, d) => IsMarked(a.text[i])
  <2>1. /\ IsLeft(rest, i, d - 1) => found.text[i] = rest[i]
        /\ ~IsLeft(rest, i, d - 1) => IsMarked(found.text[i])
    BY <1>3 DEF WordsStand
  <2>2. IsLeft(rest, i, d) <=> IsLeft(rest, i, d - 1) /\ ~Matches(kind, rest[i])
    BY <1>1, KnowsMore DEF IsLeft
  <2>3. found.text[i] \in AnyToken
    BY <1>2, <1>3 DEF Findings
  <2>4. IsMarked(Placeholder(found.text[i], kind))
    BY <2>3, PlaceholderIs DEF IsMarked
  <2>5. CASE IsLeft(rest, i, d - 1)
    <3>1. i \in M <=> Matches(kind, rest[i])
      BY <1>4, <2>1, <2>5
    <3>2. QED
      BY <1>6, <2>1, <2>2, <2>4, <2>5, <3>1
  <2>6. CASE ~IsLeft(rest, i, d - 1)
    BY <1>6, <2>1, <2>2, <2>4, <2>6
  <2>7. QED
    BY <2>5, <2>6
<1>8. QED
  BY <1>1, <1>3, <1>5, <1>6, <1>7 DEF WordsStand

\* And has an event for each placeholder it makes.
LEMMA EventsKeep ==
  ASSUME config.builtin \in BOOLEAN, NEW rest, IsRest(rest), NEW found,
         NEW d \in Behind1 + 1..Len(Detectors),
         WordsStand(found, rest, d - 1), EventsStand(found, rest, d - 1)
  PROVE  EventsStand(Apply(found, Detectors[d]), rest, d)
<1>1. PICK kind \in Detecting : kind = Detectors[d] /\ kind # "private_key" /\ d \in Nat /\ d >= Behind1 + 1
  BY DetectorsAre
<1>2. found \in Findings /\ Len(found.text) = Len(rest)
  BY DEF WordsStand
<1>3. PICK n \in Nat : n = Len(rest)
  BY DEF IsRest
<1>4. PICK M : M = {i \in 1..n : Matches(kind, found.text[i])}
  OBVIOUS
<1>5. PICK a \in Findings : a = Apply(found, kind)
  BY <1>2, ApplyTyped
<1>20. IsApplied(a, found, kind, M)
  <2>1. MatchedBy(kind, found.text) = M
    BY <1>2, <1>3, <1>4 DEF MatchedBy
  <2>2. QED
    BY <1>1, <1>2, <1>5, <2>1, ApplyIs
<1>6. PICK c \in Nat : c = Cardinality(M)
  BY <1>20 DEF IsApplied
<1>7. /\ Len(a.text) = n /\ Len(a.events) = Len(found.events) + c
      /\ \A i \in 1..n : a.text[i] = IF i \in M THEN Placeholder(found.text[i], kind) ELSE found.text[i]
      /\ KindsOf(a) = KindsOf(found) \cup (IF M # {} THEN {kind} ELSE {})
  BY <1>2, <1>3, <1>6, <1>20 DEF IsApplied
<1>8. /\ Cardinality(MarksOf(found.text)) <= Len(found.events)
      /\ "openai_key" \in KindsOf(found) => \E i \in 1..n : rest[i].value = "openai_key"
      /\ KindsOf(found) # {} => \E i \in 1..n : ~IsLeft(rest, i, d - 1)
      /\ \A i \in 1..n : rest[i].mark # "none" => KindsOf(found) # {}
      /\ \A i \in 1..n, e \in Behind1 + 1..d - 1 :
           (rest[i].mark = "none" /\ ~Knows(rest[i], e - 1) /\ Matches(Detectors[e], rest[i])) =>
             Detectors[e] \in KindsOf(found)
  BY <1>3 DEF EventsStand
<1>9. \A i \in 1..n : /\ IsLeft(rest, i, d - 1) => found.text[i] = rest[i]
                      /\ ~IsLeft(rest, i, d - 1) => IsMarked(found.text[i])
  BY <1>3 DEF WordsStand
<1>10. \A i \in 1..n : IsLeft(rest, i, d) <=> IsLeft(rest, i, d - 1) /\ ~Matches(kind, rest[i])
  BY <1>1, KnowsMore DEF IsLeft
<1>11. Cardinality(MarksOf(a.text)) <= Len(a.events)
  <2>1. PICK F : F = MarksOf(found.text)
    OBVIOUS
  <2>2. PICK f \in Nat : f = Cardinality(F) /\ F \in SUBSET (1..n) /\ f <= Len(found.events)
    BY <1>2, <1>3, <1>8, <2>1, MarksCounted DEF Findings
  <2>3. M \in SUBSET (1..n)
    BY <1>4
  <2>4. IsFiniteSet(F) /\ IsFiniteSet(M)
    BY <2>2, <2>3, PlacesCounted
  <2>5. MarksOf(a.text) \subseteq F \cup M
    BY <1>2, <1>3, <1>7, <2>1 DEF MarksOf
  <2>6. IsFiniteSet(F \cup M) /\ Cardinality(F \cup M) <= f + c
    <3>1. /\ IsFiniteSet(F \cup M)
          /\ Cardinality(F \cup M) = Cardinality(F) + Cardinality(M) - Cardinality(F \cap M)
      BY <2>4, FS_Union
    <3>2. Cardinality(F \cap M) \in Nat
      BY <2>4, FS_Intersection, FS_CardinalityType
    <3>3. QED
      BY <1>6, <2>2, <3>1, <3>2
  <2>7. Cardinality(MarksOf(a.text)) <= Cardinality(F \cup M) /\ Cardinality(MarksOf(a.text)) \in Nat
    BY <2>5, <2>6, FS_Subset, FS_CardinalityType
  <2>8. Len(found.events) \in Nat /\ Cardinality(F \cup M) \in Nat
    BY <1>2, <2>6, FS_CardinalityType DEF Findings
  <2>9. QED
    BY <1>7, <2>2, <2>6, <2>7, <2>8
<1>12. ASSUME NEW i \in M
       PROVE  i \in 1..n /\ ~IsLeft(rest, i, d) /\ (kind = "openai_key" => rest[i].value = "openai_key")
  <2>1. i \in 1..n /\ Matches(kind, found.text[i])
    BY <1>4
  <2>2. ~IsLeft(rest, i, d)
    BY <1>9, <1>10, <2>1
  <2>3. ASSUME kind = "openai_key" PROVE rest[i].value = "openai_key"
    <3>1. found.text[i].value \in {"openai_key", "anthropic_key"}
      BY <2>1, <2>3 DEF Matches
    <3>2. IsLeft(rest, i, d - 1) /\ found.text[i] = rest[i]
      BY <1>9, <2>1, <3>1 DEF IsMarked
    <3>3. d = 4 /\ Detectors[3] = "anthropic_key" /\ Behind1 = 1
      BY <1>1, <2>3, DetectorsAre
    <3>4. 3 \in Behind1 + 1..d - 1
      BY <3>3
    <3>5. ~Matches("anthropic_key", rest[i])
      BY <3>2, <3>3, <3>4 DEF IsLeft, Knows
    <3>6. rest[i].value # "anthropic_key"
      BY <3>5 DEF Matches
    <3>7. QED
      BY <3>1, <3>2, <3>6
  <2>4. QED
    BY <2>1, <2>2, <2>3
<1>13. "openai_key" \in KindsOf(a) => \E i \in 1..n : rest[i].value = "openai_key"
  BY <1>7, <1>8, <1>12
<1>14. KindsOf(a) # {} => \E i \in 1..n : ~IsLeft(rest, i, d)
  BY <1>7, <1>8, <1>10, <1>12
<1>15. \A i \in 1..n : rest[i].mark # "none" => KindsOf(a) # {}
  BY <1>7, <1>8
<1>16. ASSUME NEW i \in 1..n, NEW e \in Behind1 + 1..d,
              rest[i].mark = "none", ~Knows(rest[i], e - 1), Matches(Detectors[e], rest[i])
       PROVE  Detectors[e] \in KindsOf(a)
  <2>1. CASE e = d
    <3>1. IsLeft(rest, i, d - 1) /\ found.text[i] = rest[i]
      BY <1>9, <1>16, <2>1 DEF IsLeft
    <3>2. i \in M
      BY <1>1, <1>4, <1>16, <2>1, <3>1
    <3>3. QED
      BY <1>1, <1>7, <2>1, <3>2
  <2>2. CASE e # d
    <3>1. e \in Behind1 + 1..d - 1
      BY <1>1, <2>2 DEF Behind1
    <3>2. QED
      BY <1>7, <1>8, <1>16, <3>1
  <2>3. QED
    BY <2>1, <2>2
<1>17. QED
  BY <1>1, <1>3, <1>5, <1>11, <1>13, <1>14, <1>15, <1>16 DEF EventsStand

-----------------------------------------------------------------------------
(***************************************************************************)
(* What they leave of a turn, and what they tell of it.                    *)
(***************************************************************************)
\* What detectors that go by words find in a text: it without its private keys.
Rest(text) == IF config.builtin THEN ReplaceBlocks(text) ELSE text

\* Where its words were.
IsRestOf(rest, text, q) ==
  /\ q \in Seq(Nat) /\ Len(q) = Len(rest)
  /\ \A i \in 1..Len(q) :
       q[i] \in 1..Len(text) /\ rest[i] = IF InBlock(text, q[i]) THEN Block ELSE text[q[i]]
  /\ \A i, j \in 1..Len(q) : i < j => q[i] < q[j]
  /\ \A j \in 1..Len(text) : ~InBlock(text, j) => \E i \in 1..Len(q) : q[i] = j
  /\ \A j \in 1..Len(text) : InBlock(text, j) => \E i \in 1..Len(q) : InBlock(text, q[i])

\* The words of a turn are words without placeholders.
LEMMA TokensAre ==
  ASSUME NEW text \in Seq(Tokens)
  PROVE  /\ text \in Seq(AnyToken)
         /\ \A i \in 1..Len(text) : text[i].mark = "none" /\ text[i] # Block
<1>1. \A w \in Tokens : w \in AnyToken /\ w.mark = "none"
  BY DEF Tokens, Token, AnyToken
<1>2. Block.mark = "private_key"
  BY DEF Block, Placeholder, Token
<1>3. \A i \in 1..Len(text) : text[i] \in Tokens
  OBVIOUS
<1>4. text \in Seq(AnyToken)
  BY <1>1
<1>5. QED
  BY <1>1, <1>2, <1>3, <1>4

\* A replaced private key is a placeholder.
LEMMA BlockIs == IsMarked(Block) /\ Block.value = "mark" /\ Block \in AnyToken
BY DEF Block, Placeholder, Token, IsMarked, AnyToken, Detecting

\* Words that remain without the private keys come from places in their order.
LEMMA RestIs ==
  ASSUME NEW text \in Seq(Tokens), config.builtin \in BOOLEAN
  PROVE  Rest(text) \in Seq(AnyToken) /\ \E q : IsRestOf(Rest(text), text, q)
<1>1. text \in Seq(AnyToken)
  BY TokensAre
<1>2. CASE config.builtin
  <2>1. PICK q : IsCopy(ReplaceBlocks(text), text, 1, q)
    BY <1>1, BlocksCopied
  <2>2. Rest(text) = ReplaceBlocks(text)
    BY <1>2 DEF Rest
  <2>3. \A j : InBlock(text, j) <=> Covered(text, 1, j)
    BY <1>2 DEF InBlock, Covered, IsBegin
  <2>4. IsRestOf(Rest(text), text, q)
    BY <2>1, <2>2, <2>3 DEF IsCopy, IsRestOf
  <2>5. QED
    BY <1>1, <2>2, <2>4, BlocksReplaced
<1>3. CASE ~config.builtin
  <2>1. PICK n \in Nat : n = Len(text)
    OBVIOUS
  <2>2. PICK q : q = [i \in 1..n |-> i]
    OBVIOUS
  <2>3. q \in Seq(Nat) /\ Len(q) = n /\ \A i \in 1..n : q[i] = i
    BY <2>2
  <2>4. Rest(text) = text
    BY <1>3 DEF Rest
  <2>5. \A j : ~InBlock(text, j)
    BY <1>3 DEF InBlock
  <2>6. IsRestOf(text, text, q)
    BY <2>1, <2>3, <2>5 DEF IsRestOf
  <2>7. QED
    BY <1>1, <2>4, <2>6
<1>4. QED
  BY <1>2, <1>3

\* In what remains without the private keys they are the only placeholders.
LEMMA RestMarks ==
  ASSUME NEW text \in Seq(Tokens), config.builtin \in BOOLEAN
  PROVE  /\ IsRest(Rest(text))
         /\ \A i \in 1..Len(Rest(text)) : Rest(text)[i].mark # "none" <=> Rest(text)[i] = Block
<1>1. PICK rest \in Seq(AnyToken) : rest = Rest(text)
  BY RestIs
<1>2. PICK q : IsRestOf(rest, text, q)
  BY <1>1, RestIs
<1>3. ASSUME NEW i \in 1..Len(rest) PROVE rest[i].mark # "none" <=> rest[i] = Block
  <2>1. rest[i] = Block \/ (q[i] \in 1..Len(text) /\ rest[i] = text[q[i]])
    BY <1>2 DEF IsRestOf
  <2>2. Block.mark # "none"
    BY BlockIs DEF IsMarked
  <2>3. QED
    BY <2>1, <2>2, TokensAre
<1>4. QED
  BY <1>1, <1>3, BlockIs DEF IsRest

\* Before the first of the detectors that go by words none recognises one.
LEMMA NoneKnown ==
  ASSUME NEW word
  PROVE  ~Knows(word, Behind1)
<1>1. \A e : e \notin Behind1 + 1..Behind1
  BY DEF Behind1
<1>2. QED
  BY <1>1 DEF Knows

\* Before the first detector that goes by words.
LEMMA FirstStands ==
  ASSUME NEW text \in Seq(Tokens), config.builtin \in BOOLEAN, NEW f, IsScan(f, text)
  PROVE  WordsStand(f[Behind1], Rest(text), Behind1) /\ EventsStand(f[Behind1], Rest(text), Behind1)
<1>1. PICK rest \in Seq(AnyToken) : rest = Rest(text)
  BY RestIs
<1>2. PICK n \in Nat : n = Len(rest)
  OBVIOUS
<1>3. PICK found \in Findings : found = f[Behind1]
  BY DetectorsAre DEF IsScan
<1>4. \A i \in 1..n : IsLeft(rest, i, Behind1) <=> rest[i].mark = "none"
  BY NoneKnown DEF IsLeft
<1>5. \A i \in 1..n : rest[i].mark # "none" <=> rest[i] = Block
  BY <1>1, <1>2, RestMarks
<1>6. found.text = rest /\ Len(found.events) = Cardinality(MarksOf(rest))
      /\ KindsOf(found) = IF MarksOf(rest) # {} THEN {"private_key"} ELSE {}
  <2>1. MarksOf(rest) = Blocks(rest)
    BY <1>2, <1>5 DEF MarksOf, Blocks
  <2>2. f[0] = [text |-> text, events |-> <<>>]
    BY DEF IsScan
  <2>3. CASE config.builtin
    <3>1. Behind1 = 1 /\ Detectors[1] = "private_key" /\ 1 \in 1..Len(Detectors)
      BY <2>3, DetectorsAre
    <3>2. found = Apply(f[0], "private_key")
      <4>1. f[1] = Apply(f[1 - 1], Detectors[1])
        BY <3>1 DEF IsScan
      <4>2. QED
        BY <1>3, <3>1, <4>1
    <3>3. rest = ReplaceBlocks(text)
      BY <1>1, <2>3 DEF Rest
    <3>4. Blocks(text) = {}
      BY TokensAre DEF Blocks
    <3>5. PICK c \in Nat : c = Cardinality(Blocks(rest))
      BY BlocksCounted
    <3>6. c > 0 <=> Blocks(rest) # {}
      <4>1. IsFiniteSet(Blocks(rest))
        <5>1. Blocks(rest) \in SUBSET (1..n)
          BY <1>2 DEF Blocks
        <5>2. QED
          BY <5>1, PlacesCounted
      <4>2. QED
        BY <3>5, <4>1, FS_EmptySet
    <3>7. Count("private_key", text) = c
      <4>1. Cardinality({}) = 0
        BY FS_EmptySet
      <4>2. Count("private_key", text) = Cardinality(Blocks(rest)) - Cardinality({})
        BY <3>3, <3>4 DEF Count
      <4>3. QED
        BY <3>5, <4>1, <4>2
    <3>8. found.text = rest /\ found.events = WithMore(<<>>, c, "private_key")
      BY <2>2, <3>2, <3>3, <3>7 DEF Apply, Replace, WithMore
    <3>9. PICK v : v = found.events
      OBVIOUS
    <3>10. <<>> \in Seq(Detecting) /\ "private_key" \in Detecting /\ Len(<<>>) = 0
      BY DEF Detecting
    <3>11. HasMore(v, <<>>, c, "private_key")
      BY <3>8, <3>9, <3>10, KindsMore
    <3>12. Len(v) = c /\ \A x : (\E k \in 1..Len(v) : v[k] = x) <=> (x = "private_key" /\ c > 0)
      <4>1. \A k : k \notin 1..Len(<<>>)
        OBVIOUS
      <4>2. Len(v) = Len(<<>>) + c
        BY <3>11 DEF HasMore
      <4>3. Len(v) = c
        BY <3>10, <4>2
      <4>4. ASSUME NEW x PROVE (\E k \in 1..Len(v) : v[k] = x) <=> (x = "private_key" /\ c > 0)
        BY <3>11, <4>1 DEF HasMore
      <4>5. QED
        BY <4>3, <4>4
    <3>13. KindsOf(found) = {v[k] : k \in 1..Len(v)}
      BY <3>9 DEF KindsOf
    <3>14. KindsOf(found) = IF c > 0 THEN {"private_key"} ELSE {}
      <4>1. ASSUME NEW x PROVE x \in KindsOf(found) <=> (x = "private_key" /\ c > 0)
        BY <3>12, <3>13
      <4>2. QED
        BY <4>1
    <3>15. QED
      BY <2>1, <3>5, <3>6, <3>8, <3>9, <3>12, <3>14
  <2>4. CASE ~config.builtin
    <3>1. Behind1 = 0 /\ rest = text
      BY <1>1, <2>4 DEF Behind1, Rest
    <3>2. found.text = text /\ found.events = <<>>
      BY <1>3, <2>2, <3>1
    <3>3. MarksOf(rest) = {}
      BY <3>1, TokensAre DEF MarksOf
    <3>4. KindsOf(found) = {} /\ Len(found.events) = 0
      BY <3>2 DEF KindsOf
    <3>5. QED
      BY <3>1, <3>2, <3>3, <3>4, FS_EmptySet
  <2>5. QED
    BY <2>3, <2>4
<1>7. WordsStand(found, rest, Behind1)
  <2>1. \A i \in 1..n : rest[i].mark # "none" => IsMarked(rest[i])
    BY <1>5, BlockIs
  <2>2. QED
    BY <1>2, <1>4, <1>6, <2>1 DEF WordsStand
<1>8. EventsStand(found, rest, Behind1)
  <2>1. \A e : e \notin Behind1 + 1..Behind1
    BY DEF Behind1
  <2>2. Cardinality(MarksOf(rest)) <= Cardinality(MarksOf(rest))
    BY MarksCounted
  <2>3. \A i \in 1..n : rest[i].mark # "none" <=> i \in MarksOf(rest)
    BY <1>2 DEF MarksOf
  <2>4. MarksOf(rest) # {} <=> \E i \in 1..n : rest[i].mark # "none"
    BY <1>2 DEF MarksOf
  <2>5. "openai_key" \notin KindsOf(found)
    BY <1>6
  <2>6. QED
    BY <1>2, <1>4, <1>6, <2>1, <2>2, <2>4, <2>5 DEF EventsStand
<1>9. QED
  BY <1>1, <1>3, <1>7, <1>8

\* And behind the last.
LEMMA LastStands ==
  ASSUME NEW text \in Seq(Tokens), config.builtin \in BOOLEAN
  PROVE  /\ WordsStand(Scan(text), Rest(text), Len(Detectors))
         /\ EventsStand(Scan(text), Rest(text), Len(Detectors))
<1>1. text \in Seq(AnyToken)
  BY TokensAre
<1>2. PICK f : IsScan(f, text) /\ Scan(text) = f[Len(Detectors)]
  BY <1>1, ScanIs
<1>3. PICK b \in Nat : b = Behind1
  BY DEF Behind1
<1>4. PICK n \in Nat : n = Len(Detectors) /\ b <= n
  BY <1>3, DetectorsAre
<1>5. PICK T : T = {d \in b..n : WordsStand(f[d], Rest(text), d) /\ EventsStand(f[d], Rest(text), d)}
  OBVIOUS
<1>6. b \in T
  <2>1. WordsStand(f[b], Rest(text), b) /\ EventsStand(f[b], Rest(text), b)
    BY <1>2, <1>3, FirstStands
  <2>2. b \in b..n
    BY <1>4
  <2>3. QED
    BY <1>5, <2>1, <2>2
<1>7. ASSUME NEW d \in b + 1..n, \A k \in b..d - 1 : k \in T PROVE d \in T
  <2>1. d - 1 \in b..d - 1 /\ d \in 1..n /\ d \in b..n
    OBVIOUS
  <2>2. WordsStand(f[d - 1], Rest(text), d - 1) /\ EventsStand(f[d - 1], Rest(text), d - 1)
    BY <1>5, <1>7, <2>1
  <2>3. f[d] = Apply(f[d - 1], Detectors[d])
    BY <1>2, <1>4, <2>1 DEF IsScan
  <2>4. IsRest(Rest(text)) /\ d \in Behind1 + 1..Len(Detectors)
    BY <1>3, <1>4, RestMarks
  <2>5. WordsStand(f[d], Rest(text), d)
    BY <2>2, <2>3, <2>4, WordsKeep
  <2>6. EventsStand(f[d], Rest(text), d)
    BY <2>2, <2>3, <2>4, EventsKeep
  <2>7. QED
    BY <1>5, <2>1, <2>5, <2>6
<1>8. \A d \in b..n : d \in T
  BY <1>6, <1>7, Downwards
<1>9. n \in b..n
  BY <1>4
<1>10. QED
  BY <1>2, <1>4, <1>5, <1>8, <1>9

\* The words a text has left, and those that nothing recognises, by their places.
LeftIn(text) == {i \in DOMAIN text : text[i].mark = "none"}
Unrecognised(text) == {i \in DOMAIN text : ~Recognised(text, i)}
MarkedIn(text) == {i \in DOMAIN text : text[i].mark # "none"}

\* The places H of a sequence and K of another correspond by q, in their order, and have
\* the same elements.
Correspond(q, n, m, H, K, u, v) ==
  /\ DOMAIN q = 1..n
  /\ \A i \in 1..n : q[i] \in 1..m
  /\ \A i, j \in 1..n : i < j => q[i] < q[j]
  /\ \A i \in H : q[i] \in K /\ u[i] = v[q[i]]
  /\ \A j \in K : \E i \in H : q[i] = j

\* What is picked from two sequences at places that correspond.
LEMMA PicksSame ==
  ASSUME NEW n \in Nat, NEW m \in Nat, NEW H \in SUBSET (1..n), NEW K \in SUBSET (1..m),
         NEW u, NEW v, NEW q, Correspond(q, n, m, H, K, u, v)
  PROVE  Pick(u, H) = Pick(v, K)
<1>0. /\ \A i \in 1..n : q[i] \in 1..m
      /\ \A i, j \in 1..n : i < j => q[i] < q[j]
      /\ \A i \in H : q[i] \in K /\ u[i] = v[q[i]]
      /\ \A j \in K : \E i \in H : q[i] = j
  BY DEF Correspond
<1>1. PICK h : h = InOrder(H)
  OBVIOUS
<1>2. PICK c \in Nat : c = Cardinality(H)
  BY InOrderPlaces
<1>3. h = [i \in 1..c |-> PlaceOf(H, i)] /\ \A i \in 1..c : PlaceOf(H, i) \in H
  BY <1>1, <1>2, InOrderPlaces
<1>4. IsListing(h, H)
  BY <1>1, InOrderLists
<1>5. /\ DOMAIN h = 1..c /\ Len(h) = c
      /\ \A k \in 1..c : h[k] \in H
  <2>1. h \in Seq(Nat)
    BY <1>4 DEF IsListing
  <2>2. DOMAIN h = 1..c /\ DOMAIN h = 1..Len(h) /\ Len(h) \in Nat
    BY <1>3, <2>1
  <2>3. QED
    BY <1>3, <2>2
<1>6. /\ \A i, j \in 1..c : i < j => h[i] < h[j]
      /\ \A x : x \in H <=> \E k \in 1..c : h[k] = x
  BY <1>4, <1>5 DEF IsListing
<1>7. PICK g : g = [k \in 1..c |-> q[h[k]]]
  OBVIOUS
<1>8. \A k \in 1..c : g[k] = q[h[k]] /\ g[k] \in K /\ g[k] \in Nat /\ h[k] \in 1..n /\ u[h[k]] = v[g[k]]
  <2>1. ASSUME NEW k \in 1..c
        PROVE  g[k] = q[h[k]] /\ g[k] \in K /\ g[k] \in Nat /\ h[k] \in 1..n /\ u[h[k]] = v[g[k]]
    <3>1. PICK i \in H : i = h[k]
      BY <1>5
    <3>2. i \in 1..n /\ g[k] = q[i]
      BY <1>7, <3>1
    <3>3. q[i] \in K /\ u[i] = v[q[i]] /\ q[i] \in Nat
      BY <1>0, <3>2
    <3>4. QED
      BY <3>1, <3>2, <3>3
  <2>2. QED
    BY <2>1
<1>9. g \in Seq(Nat) /\ Len(g) = c
  <2>1. \A k \in 1..c : q[h[k]] \in Nat
    BY <1>8
  <2>2. QED
    BY <1>7, <2>1
<1>10. IsListing(g, K)
  <2>1. ASSUME NEW i \in 1..c, NEW j \in 1..c, i < j PROVE g[i] < g[j]
    <3>1. h[i] < h[j] /\ h[i] \in 1..n /\ h[j] \in 1..n
      BY <1>6, <1>8, <2>1
    <3>2. q[h[i]] < q[h[j]]
      BY <1>0, <3>1
    <3>3. QED
      BY <1>8, <3>2
  <2>2. ASSUME NEW x PROVE x \in K <=> \E k \in 1..c : g[k] = x
    <3>1. ASSUME x \in K PROVE \E k \in 1..c : g[k] = x
      <4>1. PICK i \in H : q[i] = x
        BY <1>0, <3>1
      <4>2. PICK k \in 1..c : h[k] = i
        BY <1>6
      <4>3. g[k] = x
        BY <1>8, <4>1, <4>2
      <4>4. QED
        BY <4>3
    <3>2. QED
      BY <1>8, <3>1
  <2>3. QED
    BY <1>9, <2>1, <2>2 DEF IsListing
<1>11. g = InOrder(K)
  BY <1>10, ListingIs
<1>12. InOrder(K) = [i \in 1..Cardinality(K) |-> PlaceOf(K, i)] /\ Cardinality(K) \in Nat
  BY InOrderPlaces
<1>13. Cardinality(K) = c
  <2>1. PICK d \in Nat : d = Cardinality(K)
    BY <1>12
  <2>2. DOMAIN g = 1..c
    BY <1>7
  <2>3. DOMAIN g = 1..d
    BY <1>11, <1>12, <2>1
  <2>4. Len(g) = d
    BY <1>9, <2>3
  <2>5. QED
    BY <1>9, <2>1, <2>4
<1>14. Pick(v, K) = [i \in 1..c |-> v[g[i]]]
  <2>1. Pick(v, K) = [i \in 1..Cardinality(K) |-> v[PlaceOf(K, i)]]
    BY PickPlaces
  <2>2. \A i \in 1..c : g[i] = PlaceOf(K, i)
    BY <1>11, <1>12, <1>13
  <2>3. QED
    BY <1>13, <2>1, <2>2
<1>15. Pick(u, H) = [i \in 1..c |-> u[h[i]]]
  <2>1. Pick(u, H) = [i \in 1..Cardinality(H) |-> u[PlaceOf(H, i)]]
    BY PickPlaces
  <2>2. \A i \in 1..c : h[i] = PlaceOf(H, i)
    BY <1>3
  <2>3. QED
    BY <1>2, <2>1, <2>2
<1>16. QED
  BY <1>8, <1>14, <1>15

\* A word is recognised in a block, or by a detector that goes by words.
LEMMA RecognisedIs ==
  ASSUME config.builtin \in BOOLEAN, NEW text, NEW i
  PROVE  Recognised(text, i) <=> InBlock(text, i) \/ Knows(text[i], Len(Detectors))
<1>1. PICK n \in Nat : n = Len(Detectors) /\ DOMAIN Detectors = 1..n
  BY DetectorsAre
<1>2. \A k : k \in Range(Detectors) <=> \E e \in 1..n : Detectors[e] = k
  BY <1>1 DEF Range
<1>3. \A e \in 1..n : e \in Behind1 + 1..n \/ (e = 1 /\ Behind1 = 1)
  BY DetectorsAre
<1>4. \A e \in Behind1 + 1..n : e \in 1..n
  BY DetectorsAre
<1>5. \A e \in 1..n : Detectors[e] # "private_key" <=> e \in Behind1 + 1..n
  BY <1>1, <1>3, DetectorsAre
<1>6. (\E k \in Range(Detectors) \ {"private_key"} : Matches(k, text[i])) <=>
        \E e \in Behind1 + 1..n : Matches(Detectors[e], text[i])
  BY <1>2, <1>4, <1>5
<1>7. QED
  BY <1>1, <1>6 DEF Recognised, Knows

\* The first of the detectors of a word.
LEMMA FirstIs ==
  ASSUME config.builtin \in BOOLEAN, NEW word, Knows(word, Len(Detectors))
  PROVE  \E e \in Behind1 + 1..Len(Detectors) :
           FirstToMatch(word) = Detectors[e] /\ Matches(Detectors[e], word) /\ ~Knows(word, e - 1)
<1>1. PICK n \in Nat : n = Len(Detectors) /\ DOMAIN Detectors = 1..n
  BY DetectorsAre
<1>2. PICK b \in Nat : b = Behind1 /\ b <= n /\ b \in {0, 1}
  BY <1>1, DetectorsAre
<1>3. PICK E : E = {k \in DOMAIN Detectors : Detectors[k] # "private_key" /\ Matches(Detectors[k], word)}
  OBVIOUS
<1>4. \A e \in b + 1..n : e \in 1..n /\ Detectors[e] # "private_key"
  BY <1>1, <1>2, DetectorsAre
<1>5. \A e \in 1..n : e \in b + 1..n \/ (e = 1 /\ b = 1)
  BY <1>2
<1>6. \A e \in 1..n : Detectors[e] # "private_key" => e \in b + 1..n
  BY <1>2, <1>5, DetectorsAre
<1>7. \A e : e \in E <=> e \in b + 1..n /\ Matches(Detectors[e], word)
  BY <1>1, <1>3, <1>4, <1>6
<1>8. E # {}
  BY <1>1, <1>2, <1>7 DEF Knows
<1>9. E \subseteq Nat
  BY <1>1, <1>3
<1>10. \E x \in E : \A y \in E : x <= y
  BY <1>8, <1>9, LeastOf
<1>11. Min(E) \in E /\ \A y \in E : Min(E) <= y
  BY <1>10 DEF Min
<1>12. PICK m \in E : m = Min(E)
  BY <1>11
<1>13. m \in b + 1..n /\ Matches(Detectors[m], word)
  BY <1>7
<1>14. \A e \in b + 1..m - 1 : e \in b + 1..n /\ ~(m <= e)
  BY <1>13
<1>15. ~Knows(word, m - 1)
  BY <1>2, <1>7, <1>11, <1>12, <1>14 DEF Knows
<1>16. FirstToMatch(word) = Detectors[m]
  BY <1>3, <1>12 DEF FirstToMatch
<1>17. QED
  BY <1>1, <1>2, <1>13, <1>15, <1>16

\* What the detectors leave of a text, and what they tell of it.
ScanLeaves(text) ==
  /\ Scan(text).text \in Seq(AnyToken)
  /\ Pick(Scan(text).text, LeftIn(Scan(text).text)) = Pick(text, Unrecognised(text))
  /\ Cardinality(MarkedIn(Scan(text).text)) \in Nat
  /\ Cardinality(MarkedIn(Scan(text).text)) <= Len(Scan(text).events)
  /\ Len(Scan(text).events) \in Nat
  /\ Len(text) = 0 => Scan(text).text = <<>>

KindsTell(text) ==
  /\ \A i \in DOMAIN text :
       (Recognised(text, i) /\ ~InBlock(text, i)) => FirstToMatch(text[i]) \in ScanKinds(text)
  /\ "openai_key" \in ScanKinds(text) => \E i \in DOMAIN text : text[i].value = "openai_key"
  /\ ScanKinds(text) = {} <=> \A i \in DOMAIN text : ~Recognised(text, i)

\* A word of what remains without the private keys stands for one that is recognised or not.
LEMMA LeftIs ==
  ASSUME NEW text \in Seq(Tokens), config.builtin \in BOOLEAN,
         NEW q, IsRestOf(Rest(text), text, q), NEW i \in 1..Len(Rest(text))
  PROVE  /\ q[i] \in 1..Len(text)
         /\ IsLeft(Rest(text), i, Len(Detectors)) <=> ~Recognised(text, q[i])
         /\ ~InBlock(text, q[i]) => Rest(text)[i] = text[q[i]] /\ Rest(text)[i].mark = "none"
         /\ InBlock(text, q[i]) => Rest(text)[i] = Block /\ Rest(text)[i].mark # "none"
<1>1. PICK rest : rest = Rest(text)
  OBVIOUS
<1>2. q[i] \in 1..Len(text) /\ rest[i] = IF InBlock(text, q[i]) THEN Block ELSE text[q[i]]
  BY <1>1 DEF IsRestOf
<1>3. text[q[i]].mark = "none"
  BY <1>2, TokensAre
<1>4. Block.mark # "none"
  BY BlockIs DEF IsMarked
<1>5. Recognised(text, q[i]) <=> InBlock(text, q[i]) \/ Knows(text[q[i]], Len(Detectors))
  BY RecognisedIs
<1>6. IsLeft(rest, i, Len(Detectors)) <=> rest[i].mark = "none" /\ ~Knows(rest[i], Len(Detectors))
  BY DEF IsLeft
<1>7. CASE InBlock(text, q[i])
  BY <1>1, <1>2, <1>4, <1>5, <1>6, <1>7
<1>8. CASE ~InBlock(text, q[i])
  BY <1>1, <1>2, <1>3, <1>5, <1>6, <1>8
<1>9. QED
  BY <1>7, <1>8

\* The words that are left are those that nothing recognises, in their order.
LEMMA ScanWords ==
  ASSUME NEW text \in Seq(Tokens), config.builtin \in BOOLEAN
  PROVE  ScanLeaves(text)
<1>1. PICK rest : rest = Rest(text)
  OBVIOUS
<1>2. PICK q : IsRestOf(rest, text, q)
  BY <1>1, RestIs
<1>3. PICK n \in Nat : n = Len(rest) /\ n = Len(q) /\ DOMAIN q = 1..n
  BY <1>1, <1>2, RestIs DEF IsRestOf
<1>4. PICK m \in Nat : m = Len(text) /\ DOMAIN text = 1..m
  OBVIOUS
<1>5. PICK found : found = Scan(text)
  OBVIOUS
<1>6. WordsStand(found, rest, Len(Detectors)) /\ EventsStand(found, rest, Len(Detectors))
  BY <1>1, <1>5, LastStands
<1>7. found \in Findings /\ Len(found.text) = n
  BY <1>3, <1>6 DEF WordsStand
<1>8. PICK u \in Seq(AnyToken) : u = found.text /\ Len(u) = n /\ DOMAIN u = 1..n
  <2>1. found.text \in Seq(AnyToken)
    BY <1>7 DEF Findings
  <2>2. QED
    BY <1>7, <2>1
<1>9. \A i \in 1..n : /\ IsLeft(rest, i, Len(Detectors)) => u[i] = rest[i]
                      /\ ~IsLeft(rest, i, Len(Detectors)) => IsMarked(u[i])
  BY <1>3, <1>6, <1>8 DEF WordsStand
<1>10. \A i \in 1..n : u[i].mark = "none" <=> IsLeft(rest, i, Len(Detectors))
  <2>1. ASSUME NEW i \in 1..n PROVE u[i].mark = "none" <=> IsLeft(rest, i, Len(Detectors))
    <3>1. CASE IsLeft(rest, i, Len(Detectors))
      BY <1>9, <3>1 DEF IsLeft
    <3>2. CASE ~IsLeft(rest, i, Len(Detectors))
      BY <1>9, <3>2 DEF IsMarked
    <3>3. QED
      BY <3>1, <3>2
  <2>2. QED
    BY <2>1
<1>11. ASSUME NEW i \in 1..n
       PROVE  /\ q[i] \in 1..m /\ (IsLeft(rest, i, Len(Detectors)) <=> ~Recognised(text, q[i]))
              /\ ~InBlock(text, q[i]) => rest[i] = text[q[i]]
  <2>1. i \in 1..Len(Rest(text)) /\ IsRestOf(Rest(text), text, q)
    BY <1>1, <1>2, <1>3
  <2>2. /\ q[i] \in 1..Len(text)
        /\ IsLeft(Rest(text), i, Len(Detectors)) <=> ~Recognised(text, q[i])
        /\ ~InBlock(text, q[i]) => Rest(text)[i] = text[q[i]] /\ Rest(text)[i].mark = "none"
        /\ InBlock(text, q[i]) => Rest(text)[i] = Block /\ Rest(text)[i].mark # "none"
    BY <2>1, LeftIs
  <2>3. QED
    BY <1>1, <1>4, <2>2
<1>12. PICK H \in SUBSET (1..n) : H = LeftIn(u) /\ \A i : i \in H <=> i \in 1..n /\ IsLeft(rest, i, Len(Detectors))
  <2>1. LeftIn(u) = {i \in 1..n : u[i].mark = "none"}
    BY <1>8 DEF LeftIn
  <2>2. \A i : i \in LeftIn(u) <=> i \in 1..n /\ IsLeft(rest, i, Len(Detectors))
    BY <1>10, <2>1
  <2>3. LeftIn(u) \in SUBSET (1..n)
    BY <2>1
  <2>4. QED
    BY <2>2, <2>3
<1>13. PICK K \in SUBSET (1..m) : K = Unrecognised(text) /\ \A j : j \in K <=> j \in 1..m /\ ~Recognised(text, j)
  <2>1. \A j : j \in Unrecognised(text) <=> j \in 1..m /\ ~Recognised(text, j)
    BY <1>4 DEF Unrecognised
  <2>2. Unrecognised(text) \in SUBSET (1..m)
    BY <2>1
  <2>3. QED
    BY <2>1, <2>2
<1>14. \A j : InBlock(text, j) => Recognised(text, j)
  BY DEF Recognised
<1>15. \A i \in H : q[i] \in K /\ u[i] = text[q[i]]
  BY <1>9, <1>11, <1>12, <1>13, <1>14
<1>16. ASSUME NEW j \in K PROVE \E i \in H : q[i] = j
  <2>1. j \in 1..m /\ ~Recognised(text, j)
    BY <1>13
  <2>2. PICK i \in 1..n : q[i] = j
    BY <1>2, <1>3, <1>4, <1>14, <2>1 DEF IsRestOf
  <2>3. i \in H
    BY <1>11, <1>12, <2>1, <2>2
  <2>4. QED
    BY <2>2, <2>3
<1>17. \A i, j \in 1..n : i < j => q[i] < q[j]
  BY <1>2, <1>3 DEF IsRestOf
<1>18. \A i \in 1..n : q[i] \in 1..m
  BY <1>11
<1>19. Pick(u, H) = Pick(text, K)
  <2>1. DOMAIN q = 1..n /\ \A j \in K : \E i \in H : q[i] = j
    BY <1>3, <1>16
  <2>2. Correspond(q, n, m, H, K, u, text)
    BY <1>15, <1>17, <1>18, <2>1 DEF Correspond
  <2>3. QED
    BY <2>2, PicksSame
<1>20. MarkedIn(u) = MarksOf(u)
  BY <1>8 DEF MarkedIn, MarksOf
<1>21. Cardinality(MarksOf(u)) \in Nat /\ Cardinality(MarksOf(u)) <= Len(found.events)
  BY <1>6, <1>8, MarksCounted DEF EventsStand
<1>22. Len(found.events) \in Nat
  BY <1>7 DEF Findings
<1>23. ASSUME m = 0 PROVE u = <<>>
  <2>1. n = 0
    <3>1. ASSUME n # 0 PROVE FALSE
      <4>1. 1 \in 1..n
        BY <3>1
      <4>2. q[1] \in 1..m
        BY <1>11, <4>1
      <4>3. QED
        BY <1>23, <4>2
    <3>2. QED
      BY <3>1
  <2>2. QED
    BY <1>8, <2>1
<1>24. QED
  BY <1>4, <1>5, <1>8, <1>12, <1>13, <1>19, <1>20, <1>21, <1>22, <1>23 DEF ScanLeaves

\* The kinds of the events tell which detectors recognise something.
LEMMA ScanEvents ==
  ASSUME NEW text \in Seq(Tokens), config.builtin \in BOOLEAN
  PROVE  KindsTell(text)
<1>1. PICK rest : rest = Rest(text)
  OBVIOUS
<1>2. PICK q : IsRestOf(rest, text, q)
  BY <1>1, RestIs
<1>3. PICK n \in Nat : n = Len(rest) /\ n = Len(q)
  BY <1>1, <1>2, RestIs DEF IsRestOf
<1>4. PICK m \in Nat : m = Len(text) /\ DOMAIN text = 1..m
  OBVIOUS
<1>5. PICK found : found = Scan(text)
  OBVIOUS
<1>6. WordsStand(found, rest, Len(Detectors)) /\ EventsStand(found, rest, Len(Detectors))
  BY <1>1, <1>5, LastStands
<1>7. PICK S : S = KindsOf(found)
  OBVIOUS
<1>8. ScanKinds(text) = S
  <2>1. found.events \in Seq(Detecting)
    BY <1>6 DEF WordsStand, Findings
  <2>2. PICK s \in Seq(Detecting) : s = found.events /\ DOMAIN s = 1..Len(s)
    BY <2>1
  <2>3. QED
    BY <1>5, <1>7, <2>2 DEF ScanKinds, Range, KindsOf
<1>9. /\ "openai_key" \in S => \E i \in 1..n : rest[i].value = "openai_key"
      /\ S # {} => \E i \in 1..n : ~IsLeft(rest, i, Len(Detectors))
      /\ \A i \in 1..n : rest[i].mark # "none" => S # {}
      /\ \A i \in 1..n, e \in Behind1 + 1..Len(Detectors) :
           (rest[i].mark = "none" /\ ~Knows(rest[i], e - 1) /\ Matches(Detectors[e], rest[i])) =>
             Detectors[e] \in S
  BY <1>3, <1>6, <1>7 DEF EventsStand
<1>10. ASSUME NEW i \in 1..n
       PROVE  /\ q[i] \in 1..m /\ (IsLeft(rest, i, Len(Detectors)) <=> ~Recognised(text, q[i]))
              /\ ~InBlock(text, q[i]) => rest[i] = text[q[i]] /\ rest[i].mark = "none"
              /\ InBlock(text, q[i]) => rest[i] = Block /\ rest[i].mark # "none"
  <2>1. i \in 1..Len(Rest(text)) /\ IsRestOf(Rest(text), text, q)
    BY <1>1, <1>2, <1>3
  <2>2. /\ q[i] \in 1..Len(text)
        /\ IsLeft(Rest(text), i, Len(Detectors)) <=> ~Recognised(text, q[i])
        /\ ~InBlock(text, q[i]) => Rest(text)[i] = text[q[i]] /\ Rest(text)[i].mark = "none"
        /\ InBlock(text, q[i]) => Rest(text)[i] = Block /\ Rest(text)[i].mark # "none"
    BY <2>1, LeftIs
  <2>3. QED
    BY <1>1, <1>4, <2>2
<1>11. /\ \A j \in 1..m : ~InBlock(text, j) => \E i \in 1..n : q[i] = j
       /\ \A j \in 1..m : InBlock(text, j) => \E i \in 1..n : InBlock(text, q[i])
  BY <1>2, <1>3, <1>4 DEF IsRestOf
<1>12. ASSUME NEW j \in 1..m, Recognised(text, j), ~InBlock(text, j)
       PROVE  FirstToMatch(text[j]) \in S
  <2>1. PICK i \in 1..n : q[i] = j
    BY <1>11, <1>12
  <2>2. rest[i] = text[j] /\ rest[i].mark = "none"
    BY <1>10, <1>12, <2>1
  <2>3. Knows(text[j], Len(Detectors))
    BY <1>12, RecognisedIs
  <2>4. PICK e \in Behind1 + 1..Len(Detectors) :
          FirstToMatch(text[j]) = Detectors[e] /\ Matches(Detectors[e], text[j]) /\ ~Knows(text[j], e - 1)
    BY <2>3, FirstIs
  <2>5. QED
    BY <1>9, <2>2, <2>4
<1>13. ASSUME "openai_key" \in S PROVE \E j \in 1..m : text[j].value = "openai_key"
  <2>1. PICK i \in 1..n : rest[i].value = "openai_key"
    BY <1>9, <1>13
  <2>2. rest[i] # Block
    BY <2>1, BlockIs
  <2>3. rest[i] = text[q[i]] /\ q[i] \in 1..m
    BY <1>10, <2>2
  <2>4. QED
    BY <2>1, <2>3
<1>14. ASSUME S # {} PROVE \E j \in 1..m : Recognised(text, j)
  BY <1>9, <1>10, <1>14
<1>15. ASSUME NEW j \in 1..m, Recognised(text, j) PROVE S # {}
  <2>1. CASE InBlock(text, j)
    <3>1. PICK i \in 1..n : InBlock(text, q[i])
      BY <1>11, <2>1
    <3>2. QED
      BY <1>9, <1>10, <3>1
  <2>2. CASE ~InBlock(text, j)
    BY <1>12, <1>15, <2>2
  <2>3. QED
    BY <2>1, <2>2
<1>16. QED
  BY <1>4, <1>8, <1>12, <1>13, <1>14, <1>15 DEF KindsTell

\* What a turn is kept as.
Kept ==
  [done |-> TRUE, summary |-> Scan(turn.prompt).text \o Scan(turn.answer).text,
   kinds |-> ScanKinds(turn.result),
   redactions |-> Len(Scan(turn.prompt).events) + Len(Scan(turn.answer).events)]

RedactionInv ==
  /\ config.builtin \in BOOLEAN
  /\ turn.prompt \in Seq(Tokens) /\ turn.answer \in Seq(Tokens) /\ turn.result \in Seq(Tokens)
  /\ Len(turn.prompt) = 0 \/ Len(turn.answer) = 0
  /\ outcome.done => outcome = Kept

\* At the start nothing is kept, and one part of the turn has words at most.
LEMMA RedactionStarts == RedactionInit => RedactionInv
<1>1. SUFFICES ASSUME RedactionInit PROVE RedactionInv
  OBVIOUS
<1>2. config.builtin \in BOOLEAN
  <2>1. PICK disabled \in BOOLEAN, excluded \in BOOLEAN : config = Redactor(disabled, excluded)
    BY <1>1 DEF RedactionInit, FromEnv
  <2>2. config.builtin = ~disabled
    BY <2>1 DEF Redactor
  <2>3. QED
    BY <2>2, Zenon
<1>4. PICK n \in Nat :
        \E part \in {"prompt", "answer", "result"} : \E text \in [1..n -> Tokens] :
          turn = [p \in {"prompt", "answer", "result"} |-> IF p = part THEN text ELSE <<>>]
  BY <1>1, RedactionAssumption DEF RedactionInit
<1>3. PICK part \in {"prompt", "answer", "result"} : \E text \in [1..n -> Tokens] :
        turn = [p \in {"prompt", "answer", "result"} |-> IF p = part THEN text ELSE <<>>]
  BY <1>4
<1>11. PICK text \in [1..n -> Tokens] :
        turn = [p \in {"prompt", "answer", "result"} |-> IF p = part THEN text ELSE <<>>]
  BY <1>3
<1>5. text \in Seq(Tokens) /\ <<>> \in Seq(Tokens) /\ Len(<<>>) = 0
  BY <1>4
<1>6. \A p \in {"prompt", "answer", "result"} : turn[p] = IF p = part THEN text ELSE <<>>
  BY <1>11
<1>7. turn.prompt \in Seq(Tokens) /\ turn.answer \in Seq(Tokens) /\ turn.result \in Seq(Tokens)
  BY <1>5, <1>6
<1>8. turn.prompt = <<>> \/ turn.answer = <<>>
  BY <1>6
<1>9. ~outcome.done
  BY <1>1 DEF RedactionInit, NothingStored
<1>10. QED
  BY <1>2, <1>5, <1>7, <1>8, <1>9 DEF RedactionInv

\* What a turn is kept as stays as the turn and the redactor do.
LEMMA KeptStays == ASSUME UNCHANGED <<config, turn>> PROVE Kept' = Kept
<1>1. \A t : Scan(t)' = Scan(t)
  BY DEF Scan, Detectors
<1>2. QED
  BY <1>1 DEF Kept, ScanKinds

\* Ingesting keeps what the detectors leave of the turn.
LEMMA RedactionKeeps == RedactionInv /\ [RedactionNext]_redactionVars => RedactionInv'
<1>1. SUFFICES ASSUME RedactionInv, [RedactionNext]_redactionVars PROVE RedactionInv'
  OBVIOUS
<1>2. CASE IngestTurn
  <2>1. UNCHANGED <<config, turn>> /\ outcome' = Kept
    BY <1>2 DEF IngestTurn, Kept
  <2>2. outcome' = Kept'
    BY <2>1, KeptStays
  <2>3. QED
    BY <1>1, <2>1, <2>2 DEF RedactionInv
<1>3. CASE UNCHANGED redactionVars
  <2>1. UNCHANGED <<config, turn, outcome>>
    BY <1>3 DEF redactionVars
  <2>2. Kept' = Kept
    BY <2>1, KeptStays
  <2>3. QED
    BY <1>1, <2>1, <2>2 DEF RedactionInv
<1>4. QED
  BY <1>1, <1>2, <1>3 DEF RedactionNext

\* Whatever a turn says, what is kept of it is what its detectors leave.
THEOREM RedactionInvariant == RedactionSpec => []RedactionInv
BY RedactionStarts, RedactionKeeps, PTL DEF RedactionSpec

\* What the detectors leave is what the property says.
LEMMA RedactionTells == RedactionInv => NothingRecognisedStays
<1>1. SUFFICES ASSUME RedactionInv, outcome.done PROVE NothingRecognisedStays
  BY DEF NothingRecognisedStays
<1>2. config.builtin \in BOOLEAN
  BY <1>1 DEF RedactionInv
<1>3. PICK p \in Seq(Tokens) : p = turn.prompt
  BY <1>1 DEF RedactionInv
<1>4. PICK a \in Seq(Tokens) : a = turn.answer
  BY <1>1 DEF RedactionInv
<1>5. PICK r \in Seq(Tokens) : r = turn.result
  BY <1>1 DEF RedactionInv
<1>6. ScanLeaves(p) /\ ScanLeaves(a) /\ KindsTell(r)
  BY <1>2, ScanWords, ScanEvents
<1>7. PICK u \in Seq(AnyToken) : u = Scan(p).text
  BY <1>6 DEF ScanLeaves
<1>8. PICK v \in Seq(AnyToken) : v = Scan(a).text
  BY <1>6 DEF ScanLeaves
<1>9. /\ outcome.summary = u \o v /\ outcome.kinds = ScanKinds(r)
      /\ outcome.redactions = Len(Scan(p).events) + Len(Scan(a).events)
  <2>1. outcome = Kept
    BY <1>1 DEF RedactionInv
  <2>2. /\ outcome.summary = Scan(turn.prompt).text \o Scan(turn.answer).text
        /\ outcome.kinds = ScanKinds(turn.result)
        /\ outcome.redactions = Len(Scan(turn.prompt).events) + Len(Scan(turn.answer).events)
    BY <2>1 DEF Kept
  <2>3. QED
    BY <1>3, <1>4, <1>5, <1>7, <1>8, <2>2
<1>10. PICK b \in Nat : b = Len(Scan(p).events)
  BY <1>6 DEF ScanLeaves
<1>11. PICK c \in Nat : c = Len(Scan(a).events)
  BY <1>6 DEF ScanLeaves
<1>12. /\ Pick(outcome.summary, LeftIn(outcome.summary)) = Pick(p \o a, Unrecognised(p \o a))
       /\ Cardinality(MarkedIn(outcome.summary)) <= outcome.redactions
  <2>1. CASE Len(p) = 0
    <3>1. p \o a = a
      BY <2>1
    <3>2. u = <<>>
      BY <1>6, <1>7, <2>1 DEF ScanLeaves
    <3>3. u \o v = v
      BY <3>2
    <3>4. /\ Pick(v, LeftIn(v)) = Pick(a, Unrecognised(a))
          /\ Cardinality(MarkedIn(v)) \in Nat /\ Cardinality(MarkedIn(v)) <= c
      BY <1>6, <1>8, <1>11 DEF ScanLeaves
    <3>5. outcome.summary = v /\ outcome.redactions = b + c
      BY <1>9, <1>10, <1>11, <3>3
    <3>6. Cardinality(MarkedIn(v)) <= b + c
      BY <3>4
    <3>7. QED
      BY <3>1, <3>4, <3>5, <3>6
  <2>2. CASE Len(a) = 0
    <3>1. p \o a = p
      BY <2>2
    <3>2. v = <<>>
      BY <1>6, <1>8, <2>2 DEF ScanLeaves
    <3>3. u \o v = u
      BY <3>2
    <3>4. /\ Pick(u, LeftIn(u)) = Pick(p, Unrecognised(p))
          /\ Cardinality(MarkedIn(u)) \in Nat /\ Cardinality(MarkedIn(u)) <= b
      BY <1>6, <1>7, <1>10 DEF ScanLeaves
    <3>5. outcome.summary = u /\ outcome.redactions = b + c
      BY <1>9, <1>10, <1>11, <3>3
    <3>6. Cardinality(MarkedIn(u)) <= b + c
      BY <3>4
    <3>7. QED
      BY <3>1, <3>4, <3>5, <3>6
  <2>3. QED
    BY <1>1, <1>3, <1>4, <2>1, <2>2 DEF RedactionInv
<1>13. KindsTell(r) /\ outcome.kinds = ScanKinds(r)
  BY <1>6, <1>9
<1>14. QED
  BY <1>3, <1>4, <1>5, <1>12, <1>13
     DEF NothingRecognisedStays, LeftIn, Unrecognised, MarkedIn, KindsTell

\* What is kept of a turn holds, apart from placeholders, exactly the words of the turn that no
\* detector recognises, in their order, with an event for each placeholder; of a result that was
\* read the kinds tell the most specific detector of every secret.
THEOREM NothingStays == RedactionSpec => []NothingRecognisedStays
BY RedactionInvariant, RedactionTells, PTL
=============================================================================
