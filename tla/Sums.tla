-------------------------------- MODULE Sums --------------------------------
(***************************************************************************)
(* Sums of numbers over finite sets and over sequences, and what a proof   *)
(* needs to know of them.  The library's induction theorems cannot be      *)
(* applied here, so every induction is a search for a smallest             *)
(* counterexample.                                                         *)
(***************************************************************************)
EXTENDS Integers, Sequences, FiniteSets, FiniteSetsExt,
        TLAPS, FiniteSetTheorems, SequenceTheorems, WellFoundedInduction

SumOver(weight, S) == MapThenSumSet(LAMBDA c : weight[c], S)

SumSeq(s) == SumOver(s, 1..Len(s))
-----------------------------------------------------------------------------
(* Least-number principle, for a set. *)
LEMMA LeastElement ==
    ASSUME NEW T, T \subseteq Nat, T # {}
    PROVE  \E x \in T : \A y \in T : x <= y
  <1>1. PICK R : R = {ss \in Nat \X Nat : ss[1] < ss[2]}
    OBVIOUS
  <1>2. IsWellFoundedOn(R, Nat)
    BY <1>1, NatLessThanWellFounded DEF OpToRel
  <1>3. PICK x \in T : \A y \in T : ~ (<<y, x>> \in R)
    BY <1>2, WFMin
  <1>4. ASSUME NEW y \in T PROVE x <= y
    <2>1. ~ (y < x)
      BY <1>1, <1>3
    <2> QED BY <2>1
  <1> QED BY <1>4

(* What SumOver(w, S) computes: elements are taken out one by one, which is *)
(* a recursion on the subsets of S.                                        *)
Pick(s) == CHOOSE x \in s : TRUE
Sums(w, S, g) == g = [s \in SUBSET S |-> IF s = {} THEN 0 ELSE w[Pick(s)] + g[s \ {Pick(s)}]]

LEMMA SumIsChosen ==
    ASSUME NEW w, NEW S, NEW h, Sums(w, S, h)
    PROVE  \E g : Sums(w, S, g) /\ SumOver(w, S) = g[S]
  <1>1. SumOver(w, S) = (CHOOSE g : Sums(w, S, g))[S]
    BY DEF SumOver, MapThenSumSet, MapThenFoldSet, Sums, Pick
  <1>2. Sums(w, S, CHOOSE g : Sums(w, S, g))
    OBVIOUS
  <1> QED BY <1>1, <1>2

Small(S, n) == {s \in SUBSET S : Cardinality(s) <= n}
SumsUpTo(w, S, n, g) ==
    /\ g \in [Small(S, n) -> Nat]
    /\ \A s \in Small(S, n) : g[s] = IF s = {} THEN 0 ELSE w[Pick(s)] + g[s \ {Pick(s)}]

LEMMA PickedOne ==
    ASSUME NEW S, IsFiniteSet(S), NEW s \in SUBSET S, s # {}
    PROVE  /\ Pick(s) \in s /\ s \ {Pick(s)} \in SUBSET S
           /\ IsFiniteSet(s) /\ Cardinality(s) \in Nat \ {0}
           /\ Cardinality(s \ {Pick(s)}) = Cardinality(s) - 1
  <1>1. Pick(s) \in s
    BY DEF Pick
  <1>2. IsFiniteSet(s)
    BY FS_Subset
  <1>3. Cardinality(s \ {Pick(s)}) = Cardinality(s) - 1
    BY <1>1, <1>2, FS_RemoveElement
  <1>4. Cardinality(s) \in Nat \ {0}
    BY <1>2, FS_CardinalityType, FS_EmptySet
  <1> QED BY <1>1, <1>2, <1>3, <1>4

LEMMA SumExists ==
    ASSUME NEW w, NEW S, IsFiniteSet(S), \A c \in S : w[c] \in Nat
    PROVE  \E g : Sums(w, S, g) /\ \A s \in SUBSET S : g[s] \in Nat
  <1> DEFINE P(n) == \E g : SumsUpTo(w, S, n, g)
             T == {n \in Nat : ~ P(n)}
  <1>1. P(0)
    <2>1. \A s \in Small(S, 0) : s = {}
      <3> SUFFICES ASSUME NEW s \in SUBSET S, Cardinality(s) <= 0 PROVE s = {}
        BY DEF Small
      <3>1. IsFiniteSet(s) /\ Cardinality(s) \in Nat
        BY FS_Subset, FS_CardinalityType
      <3>2. Cardinality(s) = 0
        BY <3>1
      <3> QED BY <3>1, <3>2, FS_EmptySet
    <2>2. SumsUpTo(w, S, 0, [s \in Small(S, 0) |-> 0])
      BY <2>1 DEF SumsUpTo
    <2> QED BY <2>2
  <1>2. ASSUME NEW n \in Nat, P(n) PROVE P(n + 1)
    <2>1. PICK g : SumsUpTo(w, S, n, g)
      BY <1>2
    <2> DEFINE h == [s \in Small(S, n + 1) |->
                       IF s = {} THEN 0 ELSE w[Pick(s)] + g[s \ {Pick(s)}]]
    <2>2. ASSUME NEW s \in Small(S, n + 1), s # {}
          PROVE  /\ w[Pick(s)] \in Nat /\ s \ {Pick(s)} \in Small(S, n)
                 /\ s \ {Pick(s)} \in Small(S, n + 1)
      <3>1. /\ Pick(s) \in s /\ s \ {Pick(s)} \in SUBSET S /\ Cardinality(s) \in Nat
            /\ Cardinality(s \ {Pick(s)}) = Cardinality(s) - 1 /\ Cardinality(s) <= n + 1
        BY <2>2, PickedOne DEF Small
      <3>2. Cardinality(s \ {Pick(s)}) <= n /\ Cardinality(s \ {Pick(s)}) <= n + 1
        BY <3>1
      <3>3. Pick(s) \in S
        BY <2>2, <3>1 DEF Small
      <3> QED BY <3>1, <3>2, <3>3 DEF Small
    <2>3. \A s \in Small(S, n) : s \in Small(S, n + 1)
      <3> SUFFICES ASSUME NEW s \in SUBSET S, Cardinality(s) <= n PROVE Cardinality(s) <= n + 1
        BY DEF Small
      <3>1. Cardinality(s) \in Nat
        BY FS_Subset, FS_CardinalityType
      <3> QED BY <3>1
    <2>4. \A s \in Small(S, n) : g[s] \in Nat /\ h[s] = g[s]
      BY <2>1, <2>3 DEF SumsUpTo
    <2>5. h \in [Small(S, n + 1) -> Nat]
      <3>1. ASSUME NEW s \in Small(S, n + 1), s # {} PROVE w[Pick(s)] + g[s \ {Pick(s)}] \in Nat
        <4>1. w[Pick(s)] \in Nat /\ g[s \ {Pick(s)}] \in Nat
          BY <2>2, <2>4, <3>1
        <4> QED BY <4>1
      <3> QED BY <3>1
    <2>6. ASSUME NEW s \in Small(S, n + 1)
          PROVE  h[s] = IF s = {} THEN 0 ELSE w[Pick(s)] + h[s \ {Pick(s)}]
      BY <2>2, <2>4
    <2>7. SumsUpTo(w, S, n + 1, h)
      BY <2>5, <2>6 DEF SumsUpTo
    <2> QED BY <2>7
  <1>3. T = {}
    <2> SUFFICES ASSUME T # {} PROVE FALSE
      OBVIOUS
    <2>1. PICK m \in T : \A k \in T : m <= k
      BY LeastElement
    <2>2. m \in Nat /\ m # 0 /\ ~ P(m)
      BY <1>1, <2>1
    <2>3. m - 1 \in Nat /\ m - 1 \notin T /\ (m - 1) + 1 = m
      BY <2>1, <2>2
    <2>4. P(m - 1)
      BY <2>3
    <2> HIDE DEF P
    <2> QED BY <1>2, <2>2, <2>3, <2>4
  <1>4. Cardinality(S) \in Nat
    BY FS_CardinalityType
  <1>5. PICK g : SumsUpTo(w, S, Cardinality(S), g)
    BY <1>3, <1>4
  <1>6. Small(S, Cardinality(S)) = SUBSET S
    BY FS_Subset DEF Small
  <1>7. Sums(w, S, g)
    BY <1>5, <1>6 DEF SumsUpTo, Sums
  <1> QED BY <1>5, <1>6, <1>7 DEF SumsUpTo

LEMMA SumsAgree ==
    ASSUME NEW w, NEW S, IsFiniteSet(S), NEW R \in SUBSET S, NEW g, NEW h,
           Sums(w, S, g), Sums(w, R, h), \A s \in SUBSET R : h[s] \in Nat
    PROVE  g[R] = h[R]
  <1>1. IsFiniteSet(R)
    BY FS_Subset
  <1> DEFINE T == {Cardinality(s) : s \in {t \in SUBSET R : g[t] # h[t]}}
  <1>2. T = {}
    <2> SUFFICES ASSUME T # {} PROVE FALSE
      OBVIOUS
    <2>1. T \subseteq Nat
      BY <1>1, FS_Subset, FS_CardinalityType
    <2>2. PICK m \in T : \A k \in T : m <= k
      BY <2>1, LeastElement
    <2>3. PICK s \in SUBSET R : g[s] # h[s] /\ m = Cardinality(s)
      BY <2>2
    <2>4. s # {}
      BY <2>3 DEF Sums
    <2>5. /\ s \ {Pick(s)} \in SUBSET R /\ m \in Nat \ {0} /\ Cardinality(s \ {Pick(s)}) = m - 1
      BY <1>1, <2>3, <2>4, PickedOne
    <2>6. m - 1 \notin T
      BY <2>1, <2>2, <2>5
    <2>7. g[s \ {Pick(s)}] = h[s \ {Pick(s)}]
      BY <2>5, <2>6
    <2>8. g[s] = w[Pick(s)] + g[s \ {Pick(s)}] /\ h[s] = w[Pick(s)] + h[s \ {Pick(s)}]
      BY <2>3, <2>4 DEF Sums
    <2> QED BY <2>3, <2>7, <2>8
  <1> QED BY <1>2

LEMMA SumUnfolds ==
    ASSUME NEW w, NEW S, IsFiniteSet(S), \A c \in S : w[c] \in Nat
    PROVE  /\ SumOver(w, S) \in Nat
           /\ SumOver(w, S) = IF S = {} THEN 0 ELSE w[Pick(S)] + SumOver(w, S \ {Pick(S)})
  <1>1. ASSUME NEW R \in SUBSET S
        PROVE  \E g : Sums(w, R, g) /\ SumOver(w, R) = g[R] /\ \A s \in SUBSET R : g[s] \in Nat
    <2>1. IsFiniteSet(R) /\ \A c \in R : w[c] \in Nat
      BY FS_Subset
    <2>2. PICK h : Sums(w, R, h) /\ \A s \in SUBSET R : h[s] \in Nat
      BY <2>1, SumExists
    <2>3. PICK g : Sums(w, R, g) /\ SumOver(w, R) = g[R]
      BY <2>2, SumIsChosen
    <2>4. ASSUME NEW s \in SUBSET R PROVE g[s] = h[s]
      <3>1. PICK k : k = [t \in SUBSET s |-> h[t]]
        OBVIOUS
      <3>2. Sums(w, s, k)
        BY <2>2, <2>4, <3>1 DEF Sums, Pick
      <3>3. k[s] = h[s] /\ \A t \in SUBSET s : k[t] \in Nat
        BY <2>2, <3>1
      <3>4. g[s] = k[s]
        BY <2>1, <2>3, <3>2, <3>3, SumsAgree
      <3> QED BY <3>3, <3>4
    <2> QED BY <2>2, <2>3, <2>4
  <1>2. PICK g : Sums(w, S, g) /\ SumOver(w, S) = g[S] /\ \A s \in SUBSET S : g[s] \in Nat
    BY <1>1
  <1>3. CASE S = {}
    BY <1>2, <1>3 DEF Sums
  <1>4. CASE S # {}
    <2>1. PICK R \in SUBSET S : R = S \ {Pick(S)}
      OBVIOUS
    <2>2. PICK h : /\ Sums(w, R, h) /\ SumOver(w, R) = h[R]
                   /\ \A s \in SUBSET R : h[s] \in Nat
      BY <1>1, <2>1
    <2>3. g[R] = h[R]
      BY <1>2, <2>1, <2>2, SumsAgree
    <2>4. g[S] = w[Pick(S)] + g[R]
      BY <1>2, <1>4, <2>1 DEF Sums
    <2> QED BY <1>2, <1>4, <2>1, <2>2, <2>3, <2>4
  <1> QED BY <1>3, <1>4

(* Whichever element is taken out, the rest is its sum less. *)
LEMMA SumRemove ==
    ASSUME NEW w, NEW S, IsFiniteSet(S), \A c \in S : w[c] \in Nat
    PROVE  \A s \in SUBSET S : \A x \in s : SumOver(w, s) = w[x] + SumOver(w, s \ {x})
  <1> DEFINE Good(s) == \A x \in s : SumOver(w, s) = w[x] + SumOver(w, s \ {x})
             T == {Cardinality(s) : s \in {t \in SUBSET S : ~ Good(t)}}
  <1>1. \A s \in SUBSET S : IsFiniteSet(s) /\ Cardinality(s) \in Nat /\ SumOver(w, s) \in Nat
    BY FS_Subset, FS_CardinalityType, SumUnfolds
  <1>2. T = {}
    <2> SUFFICES ASSUME T # {} PROVE FALSE
      OBVIOUS
    <2>1. T \subseteq Nat
      BY <1>1
    <2>2. PICK m \in T : \A k \in T : m <= k
      BY <2>1, LeastElement
    <2>3. PICK s \in SUBSET S : ~ Good(s) /\ m = Cardinality(s)
      BY <2>2
    <2>4. PICK x \in s : SumOver(w, s) # w[x] + SumOver(w, s \ {x})
      BY <2>3
    <2>5. PICK p : p = Pick(s)
      OBVIOUS
    <2>6. p \in s /\ SumOver(w, s) = w[p] + SumOver(w, s \ {p})
      BY <1>1, <2>4, <2>5, SumUnfolds, PickedOne
    <2>7. x # p
      BY <2>4, <2>6
    <2>8. ASSUME NEW y \in s PROVE Good(s \ {y})
      <3>1. Cardinality(s \ {y}) = m - 1 /\ m \in Nat /\ s \ {y} \in SUBSET S
        BY <1>1, <2>3, FS_RemoveElement
      <3>2. m - 1 \notin T
        BY <2>2, <3>1
      <3> HIDE DEF Good
      <3> QED BY <3>1, <3>2
    <2>9. SumOver(w, s \ {p}) = w[x] + SumOver(w, (s \ {p}) \ {x})
      BY <2>6, <2>7, <2>8
    <2>10. SumOver(w, s \ {x}) = w[p] + SumOver(w, (s \ {x}) \ {p})
      BY <2>6, <2>7, <2>8
    <2>11. (s \ {x}) \ {p} = (s \ {p}) \ {x}
      OBVIOUS
    <2>12. /\ w[x] \in Nat /\ w[p] \in Nat /\ SumOver(w, (s \ {p}) \ {x}) \in Nat
      BY <1>1, <2>6
    <2>13. PICK r \in Nat : r = SumOver(w, (s \ {p}) \ {x})
      BY <2>12
    <2>14. SumOver(w, s) = w[p] + (w[x] + r) /\ SumOver(w, s \ {x}) = w[p] + r
      BY <2>6, <2>9, <2>10, <2>11, <2>13
    <2>15. w[p] + (w[x] + r) = w[x] + (w[p] + r)
      BY <2>12
    <2> QED BY <2>4, <2>14, <2>15
  <1> QED BY <1>2

LEMMA SumEmpty == ASSUME NEW w PROVE SumOver(w, {}) = 0
  BY SumUnfolds, FS_EmptySet

LEMMA SumSelects ==
    ASSUME NEW w, NEW v, NEW S, IsFiniteSet(S), NEW R \in SUBSET S,
           \A c \in S : w[c] \in Nat, \A c \in R : w[c] = v[c], \A c \in S \ R : w[c] = 0
    PROVE  SumOver(w, S) = SumOver(v, R)
  <1> DEFINE Good(s) == SumOver(w, s) = SumOver(v, s \cap R)
             T == {Cardinality(s) : s \in {t \in SUBSET S : ~ Good(t)}}
  <1>1. \A s \in SUBSET S : IsFiniteSet(s) /\ Cardinality(s) \in Nat /\ SumOver(w, s) \in Nat
    BY FS_Subset, FS_CardinalityType, SumUnfolds
  <1>2. T = {}
    <2> SUFFICES ASSUME T # {} PROVE FALSE
      OBVIOUS
    <2>1. PICK m \in T : \A k \in T : m <= k
      <3>1. T \subseteq Nat
        BY <1>1
      <3> QED BY <3>1, LeastElement
    <2>2. PICK s \in SUBSET S : ~ Good(s) /\ m = Cardinality(s)
      BY <2>1
    <2>3. s # {}
      <3> SUFFICES ASSUME s = {} PROVE Good(s)
        BY <2>2
      <3>1. s \cap R = {}
        OBVIOUS
      <3> QED BY <3>1, SumEmpty
    <2>4. PICK p : p = Pick(s)
      OBVIOUS
    <2>5. /\ p \in s /\ m \in Nat \ {0} /\ Cardinality(s \ {p}) = m - 1
      BY <2>2, <2>3, <2>4, PickedOne
    <2>6. s \ {p} \in SUBSET S /\ m - 1 \notin T
      <3>1. ~ (m <= m - 1)
        BY <2>5
      <3> HIDE DEF T
      <3> QED BY <2>1, <3>1
    <2>7. Good(s \ {p})
      <3> HIDE DEF Good
      <3> QED BY <2>5, <2>6
    <2>8. SumOver(w, s) = w[p] + SumOver(w, s \ {p})
      BY <2>5, SumRemove
    <2>9. CASE p \in R
      <3>1. IsFiniteSet(R) /\ \A c \in R : v[c] \in Nat
        BY <1>1
      <3>2. PICK r \in SUBSET R : r = s \cap R
        OBVIOUS
      <3>3. SumOver(v, r) = v[p] + SumOver(v, r \ {p})
        BY <2>5, <2>9, <3>1, <3>2, SumRemove
      <3>4. r \ {p} = (s \ {p}) \cap R
        BY <3>2
      <3>5. SumOver(v, s \cap R) = w[p] + SumOver(w, s \ {p})
        BY <2>7, <2>9, <3>2, <3>3, <3>4
      <3> QED BY <2>2, <2>8, <3>5
    <2>10. CASE p \notin R
      <3>1. (s \ {p}) \cap R = s \cap R
        BY <2>10
      <3>2. w[p] = 0 /\ SumOver(w, s \ {p}) \in Nat
        BY <1>1, <2>5, <2>6, <2>10
      <3>3. SumOver(w, s) = SumOver(w, s \ {p})
        BY <2>8, <3>2
      <3> QED BY <2>2, <2>7, <3>1, <3>3
    <2> QED BY <2>9, <2>10
  <1>3. Good(S)
    BY <1>2
  <1>4. S \cap R = R
    OBVIOUS
  <1> QED BY <1>3, <1>4

LEMMA SumSplits ==
    ASSUME NEW w, NEW S, IsFiniteSet(S), NEW R \in SUBSET S, \A c \in S : w[c] \in Nat
    PROVE  SumOver(w, S) = SumOver(w, R) + SumOver(w, S \ R)
  <1> DEFINE Good(s) == SumOver(w, S) = SumOver(w, s) + SumOver(w, S \ s)
             T == {Cardinality(s) : s \in {t \in SUBSET R : ~ Good(t)}}
  <1>1. \A s \in SUBSET S : IsFiniteSet(s) /\ Cardinality(s) \in Nat /\ SumOver(w, s) \in Nat
    BY FS_Subset, FS_CardinalityType, SumUnfolds
  <1>2. T = {}
    <2> SUFFICES ASSUME T # {} PROVE FALSE
      OBVIOUS
    <2>1. PICK m \in T : \A k \in T : m <= k
      <3>1. T \subseteq Nat
        BY <1>1
      <3> QED BY <3>1, LeastElement
    <2>2. PICK s \in SUBSET R : ~ Good(s) /\ m = Cardinality(s)
      BY <2>1
    <2>3. s # {}
      <3> SUFFICES ASSUME s = {} PROVE Good(s)
        BY <2>2
      <3>1. S \ s = S /\ SumOver(w, s) = 0 /\ SumOver(w, S) \in Nat
        BY <1>1, SumEmpty
      <3> QED BY <3>1
    <2>4. PICK p : p = Pick(s)
      OBVIOUS
    <2>5. /\ p \in s /\ m \in Nat \ {0} /\ Cardinality(s \ {p}) = m - 1
      BY <2>2, <2>3, <2>4, PickedOne
    <2>6. s \ {p} \in SUBSET R /\ m - 1 \notin T
      <3>1. ~ (m <= m - 1)
        BY <2>5
      <3> HIDE DEF T
      <3> QED BY <2>1, <3>1
    <2>7. Good(s \ {p})
      <3> HIDE DEF Good
      <3> QED BY <2>5, <2>6
    <2>8. SumOver(w, s) = w[p] + SumOver(w, s \ {p})
      <3>1. s \in SUBSET S
        OBVIOUS
      <3> QED BY <2>5, <3>1, SumRemove
    <2>9. PICK r \in SUBSET S : r = S \ (s \ {p})
      OBVIOUS
    <2>10. p \in r /\ r \ {p} = S \ s
      BY <2>5, <2>9
    <2>11. SumOver(w, r) = w[p] + SumOver(w, S \ s)
      BY <2>10, SumRemove
    <2>12. PICK a \in Nat, b \in Nat, k \in Nat : a = w[p] /\ b = SumOver(w, s \ {p}) /\ k = SumOver(w, S \ s)
      BY <1>1, <2>5
    <2>13. SumOver(w, S) = b + (a + k) /\ SumOver(w, s) = a + b
      BY <2>7, <2>8, <2>9, <2>11, <2>12
    <2>14. b + (a + k) = (a + b) + k
      OBVIOUS
    <2> QED BY <2>2, <2>12, <2>13, <2>14
  <1> QED BY <1>2

(* The facts about sums in the forms in which they are used. *)
LEMMA SumSame ==
    ASSUME NEW S, IsFiniteSet(S), NEW w, \A c \in S : w[c] \in Nat,
           NEW v, \A c \in S : w[c] = v[c]
    PROVE  SumOver(w, S) = SumOver(v, S)
  <1>1. S \in SUBSET S /\ \A c \in S \ S : w[c] = 0
    OBVIOUS
  <1> QED BY <1>1, SumSelects

LEMMA SumLess ==
    ASSUME NEW S, IsFiniteSet(S), NEW w, \A c \in S : w[c] \in Nat, NEW x \in S
    PROVE  SumOver(w, S) = w[x] + SumOver(w, S \ {x})
  <1>1. S \in SUBSET S
    OBVIOUS
  <1> QED BY <1>1, SumRemove

LEMMA SumInTwo ==
    ASSUME NEW S, IsFiniteSet(S), NEW w, \A c \in S : w[c] \in Nat, NEW R \in SUBSET S
    PROVE  SumOver(w, S) = SumOver(w, R) + SumOver(w, S \ R)
  BY SumSplits-----------------------------------------------------------------------------
(* Sums of sequences. *)
LEMMA SumSeqEmpty == SumSeq(<< >>) = 0
  <1>1. 1..Len(<< >>) = {}
    OBVIOUS
  <1> QED BY <1>1, SumEmpty DEF SumSeq

LEMMA SumSeqNat ==
    ASSUME NEW s \in Seq(Nat)
    PROVE  SumSeq(s) \in Nat
  <1>1. Len(s) \in Int /\ \A i \in 1..Len(s) : s[i] \in Nat
    OBVIOUS
  <1>2. IsFiniteSet(1..Len(s))
    BY <1>1, FS_Interval
  <1> QED BY <1>1, <1>2, SumUnfolds DEF SumSeq

LEMMA SumSeqAppend ==
    ASSUME NEW s \in Seq(Nat), NEW x \in Nat
    PROVE  SumSeq(Append(s, x)) = SumSeq(s) + x
  <1>1. PICK t : t = Append(s, x)
    OBVIOUS
  <1>2. PICK n \in Nat : n = Len(s)
    OBVIOUS
  <1>3. Len(t) = n + 1 /\ t[n + 1] = x /\ \A i \in 1..n : t[i] = s[i]
    BY <1>1, <1>2
  <1>4. /\ IsFiniteSet(1..n) /\ IsFiniteSet(1..(n + 1))
        /\ n + 1 \in 1..(n + 1) /\ (1..(n + 1)) \ {n + 1} = 1..n
    BY FS_Interval
  <1>5. \A i \in 1..(n + 1) : t[i] \in Nat
    BY <1>1, <1>3
  <1>6. SumOver(t, 1..(n + 1)) = t[n + 1] + SumOver(t, 1..n)
    <2>1. SumOver(t, 1..(n + 1)) = t[n + 1] + SumOver(t, (1..(n + 1)) \ {n + 1})
      BY <1>4, <1>5, SumLess
    <2> QED BY <1>4, <2>1
  <1>7. \A i \in 1..n : t[i] \in Nat /\ t[i] = s[i]
    BY <1>3, <1>5
  <1>8. SumOver(t, 1..n) = SumOver(s, 1..n)
    BY <1>4, <1>7, SumSame
  <1>9. SumSeq(s) = SumOver(s, 1..n) /\ SumSeq(s) \in Nat
    BY <1>2, SumSeqNat DEF SumSeq
  <1>10. SumSeq(t) = SumOver(t, 1..(n + 1))
    BY <1>3 DEF SumSeq
  <1>11. SumSeq(t) = x + SumSeq(s)
    BY <1>3, <1>6, <1>8, <1>9, <1>10
  <1> QED BY <1>1, <1>9, <1>11

(* A sequence without repetitions sums up to the set of its elements.      *)
Firsts(s, k) == {s[i] : i \in 1..k}
Along(w, s, n) == [i \in 1..n |-> w[s[i]]]

LEMMA SumOfDistinct ==
    ASSUME NEW D, IsFiniteSet(D), NEW w, \A d \in D : w[d] \in Nat,
           NEW n \in Nat, NEW s \in [1..n -> D], \A i, j \in 1..n : s[i] = s[j] => i = j
    PROVE  \A k \in 0..n : /\ IsFiniteSet(Firsts(s, k)) /\ Cardinality(Firsts(s, k)) = k
                           /\ SumOver(Along(w, s, n), 1..k) = SumOver(w, Firsts(s, k))
  <1> DEFINE P(k) == {s[i] : i \in 1..k}
             v == [i \in 1..n |-> w[s[i]]]
             Good(k) == /\ IsFiniteSet(P(k)) /\ Cardinality(P(k)) = k
                        /\ SumOver(v, 1..k) = SumOver(w, P(k))
             T == {k \in 0..n : ~ Good(k)}
  <1>1. Good(0)
    <2>1. 1..0 = {} /\ P(0) = {}
      OBVIOUS
    <2> QED BY <2>1, SumEmpty, FS_EmptySet
  <1>2. ASSUME NEW k \in 0..n, k # 0, Good(k - 1) PROVE Good(k)
    <2>1. /\ k \in 1..n /\ k - 1 \in 0..n /\ k - 1 \in Nat /\ k \in Int
          /\ (1..k) \ {k} = 1..(k - 1) /\ k \in 1..k
      BY <1>2
    <2>2. P(k) = P(k - 1) \cup {s[k]} /\ s[k] \in D /\ s[k] \notin P(k - 1) /\ P(k) \in SUBSET D
      BY <2>1
    <2>3. P(k) \ {s[k]} = P(k - 1)
      <3> HIDE DEF P
      <3> QED BY <2>2
    <2>4. IsFiniteSet(P(k - 1)) /\ Cardinality(P(k - 1)) = k - 1
      BY <1>2
    <2>5. IsFiniteSet(P(k)) /\ Cardinality(P(k)) = (k - 1) + 1
      <3>1. PICK Q, x : Q = P(k - 1) /\ x = s[k]
        OBVIOUS
      <3>2. x \notin Q /\ IsFiniteSet(Q) /\ Cardinality(Q) = k - 1 /\ P(k) = Q \cup {x}
        BY <2>2, <2>4, <3>1
      <3> HIDE DEF P
      <3>3. IsFiniteSet(Q \cup {x}) /\ Cardinality(Q \cup {x}) = Cardinality(Q) + 1
        BY <3>2, FS_AddElement
      <3> QED BY <3>2, <3>3
    <2>6. SumOver(w, P(k)) = w[s[k]] + SumOver(w, P(k - 1))
      <3>1. \A c \in P(k) : w[c] \in Nat
        BY <2>2
      <3>2. s[k] \in P(k)
        BY <2>2
      <3> HIDE DEF P
      <3>3. SumOver(w, P(k)) = w[s[k]] + SumOver(w, P(k) \ {s[k]})
        BY <2>5, <3>1, <3>2, SumLess
      <3> QED BY <2>3, <3>3
    <2>7. SumOver(v, 1..k) = v[k] + SumOver(v, 1..(k - 1))
      <3>1. IsFiniteSet(1..k)
        BY <2>1, FS_Interval
      <3>2. \A i \in 1..k : v[i] \in Nat
        BY <2>1
      <3>3. SumOver(v, 1..k) = v[k] + SumOver(v, (1..k) \ {k})
        BY <2>1, <3>1, <3>2, SumLess
      <3> QED BY <2>1, <3>3
    <2>8. v[k] = w[s[k]]
      BY <2>1
    <2>9. SumOver(v, 1..(k - 1)) = SumOver(w, P(k - 1))
      BY <1>2
    <2>10. (k - 1) + 1 = k
      BY <2>1
    <2>11. SumOver(v, 1..k) = SumOver(w, P(k))
      <3> HIDE DEF P
      <3> QED BY <2>6, <2>7, <2>8, <2>9
    <2> HIDE DEF P
    <2> QED BY <2>5, <2>10, <2>11
  <1>3. T = {}
    <2> SUFFICES ASSUME T # {} PROVE FALSE
      OBVIOUS
    <2>1. PICK m \in T : \A k \in T : m <= k
      <3>1. T \subseteq Nat
        OBVIOUS
      <3> HIDE DEF T
      <3> QED BY <3>1, LeastElement
    <2>2. m \in 0..n /\ ~ Good(m)
      BY <2>1
    <2> HIDE DEF Good
    <2>3. m # 0
      BY <1>1, <2>2
    <2>4. m - 1 \in 0..n /\ ~ (m <= m - 1)
      BY <2>2, <2>3
    <2>5. Good(m - 1)
      BY <2>1, <2>4
    <2> QED BY <1>2, <2>2, <2>3, <2>5
  <1> HIDE DEF Good
  <1>4. \A k \in 0..n : Good(k)
    BY <1>3
  <1>5. \A k \in 0..n : P(k) = Firsts(s, k)
    BY DEF Firsts
  <1>6. v = Along(w, s, n)
    BY DEF Along
  <1> HIDE DEF P, v
  <1> QED BY <1>4, <1>5, <1>6 DEF Good

(* No more elements, none of them greater, have no greater sum.            *)
LEMMA SumExchange ==
    ASSUME NEW D, IsFiniteSet(D), NEW w, \A d \in D : w[d] \in Nat
    PROVE  \A A, B \in SUBSET D :
              Cardinality(A) <= Cardinality(B) /\ (\A a \in A, b \in B : w[a] <= w[b])
                => SumOver(w, A) <= SumOver(w, B)
  <1> DEFINE Good(A) == \A B \in SUBSET D :
                 Cardinality(A) <= Cardinality(B) /\ (\A a \in A, b \in B : w[a] <= w[b])
                   => SumOver(w, A) <= SumOver(w, B)
             T == {Cardinality(A) : A \in {C \in SUBSET D : ~ Good(C)}}
  <1>1. \A A \in SUBSET D : IsFiniteSet(A) /\ Cardinality(A) \in Nat /\ SumOver(w, A) \in Nat
    BY FS_Subset, FS_CardinalityType, SumUnfolds
  <1>2. ASSUME NEW A \in SUBSET D, A # {}, \A C \in SUBSET D : Cardinality(C) < Cardinality(A) => Good(C)
        PROVE  Good(A)
    <2> SUFFICES ASSUME NEW B \in SUBSET D, Cardinality(A) <= Cardinality(B),
                        \A a \in A, b \in B : w[a] <= w[b]
                 PROVE  SumOver(w, A) <= SumOver(w, B)
      OBVIOUS
    <2>1. Cardinality(A) # 0 /\ Cardinality(A) \in Nat /\ Cardinality(B) \in Nat
      BY <1>1, <1>2, FS_EmptySet
    <2>2. B # {}
      BY <2>1, FS_EmptySet
    <2>3. PICK a \in A, b \in B : TRUE
      BY <1>2, <2>2
    <2>4. /\ A \ {a} \in SUBSET D /\ B \ {b} \in SUBSET D
          /\ Cardinality(A \ {a}) = Cardinality(A) - 1 /\ Cardinality(B \ {b}) = Cardinality(B) - 1
      BY <1>1, <2>3, FS_RemoveElement
    <2>5. Good(A \ {a})
      <3>1. Cardinality(A \ {a}) < Cardinality(A)
        BY <2>1, <2>4
      <3> HIDE DEF Good
      <3> QED BY <1>2, <2>4, <3>1
    <2>6. Cardinality(A \ {a}) <= Cardinality(B \ {b})
      BY <2>1, <2>4
    <2>7. SumOver(w, A \ {a}) <= SumOver(w, B \ {b})
      BY <2>4, <2>5, <2>6
    <2>8. SumOver(w, A) = w[a] + SumOver(w, A \ {a}) /\ SumOver(w, B) = w[b] + SumOver(w, B \ {b})
      BY <1>1, <2>3, SumLess
    <2>9. w[a] <= w[b] /\ w[a] \in Nat /\ w[b] \in Nat
      BY <2>3
    <2>10. SumOver(w, A \ {a}) \in Nat /\ SumOver(w, B \ {b}) \in Nat
      BY <1>1, <2>4
    <2> QED BY <2>7, <2>8, <2>9, <2>10
  <1>3. T = {}
    <2> SUFFICES ASSUME T # {} PROVE FALSE
      OBVIOUS
    <2>1. T \subseteq Nat
      BY <1>1
    <2>2. PICK m \in T : \A k \in T : m <= k
      <3> HIDE DEF T
      <3> QED BY <2>1, LeastElement
    <2>3. PICK A \in SUBSET D : ~ Good(A) /\ m = Cardinality(A)
      BY <2>2
    <2>4. A # {}
      <3> SUFFICES ASSUME A = {} PROVE Good(A)
        BY <2>3
      <3>1. SumOver(w, A) = 0
        BY SumEmpty
      <3> QED BY <1>1, <3>1
    <2>5. ASSUME NEW C \in SUBSET D, Cardinality(C) < Cardinality(A) PROVE Good(C)
      <3>1. Cardinality(C) \in Nat /\ Cardinality(A) \in Nat
        BY <1>1
      <3>2. Cardinality(C) \notin T
        <4>1. ~ (m <= Cardinality(C))
          BY <2>3, <2>5, <3>1
        <4> HIDE DEF T
        <4> QED BY <2>2, <4>1
      <3> HIDE DEF Good
      <3> QED BY <3>2
    <2> HIDE DEF Good, T
    <2> QED BY <1>2, <2>3, <2>4, <2>5
  <1>4. \A A \in SUBSET D : Good(A)
    <2> HIDE DEF Good
    <2> QED BY <1>3
  <1> QED BY <1>4

(* The greatest elements have the greatest sum.                            *)
LEMMA SumOfGreatest ==
    ASSUME NEW D, IsFiniteSet(D), NEW w, \A d \in D : w[d] \in Nat,
           NEW P \in SUBSET D, NEW S \in SUBSET D, Cardinality(S) <= Cardinality(P),
           \A a \in D \ P, b \in P : w[a] <= w[b]
    PROVE  SumOver(w, S) <= SumOver(w, P)
  <1>1. \A A \in SUBSET D : IsFiniteSet(A) /\ Cardinality(A) \in Nat /\ SumOver(w, A) \in Nat
    BY FS_Subset, FS_CardinalityType, SumUnfolds
  <1>2. PICK A \in SUBSET D, B \in SUBSET D, C \in SUBSET D : A = S \ P /\ B = P \ S /\ C = S \cap P
    OBVIOUS
  <1>3. /\ Cardinality(A) = Cardinality(S) - Cardinality(C)
        /\ Cardinality(B) = Cardinality(P) - Cardinality(C)
    <2>1. /\ Cardinality(S \ P) = Cardinality(S) - Cardinality(S \cap P)
          /\ Cardinality(P \ S) = Cardinality(P) - Cardinality(P \cap S)
      BY <1>1, FS_Difference
    <2>2. P \cap S = S \cap P
      OBVIOUS
    <2> QED BY <1>2, <2>1, <2>2
  <1>4. Cardinality(A) <= Cardinality(B)
    BY <1>1, <1>3
  <1>5. SumOver(w, A) <= SumOver(w, B)
    <2>1. \A a \in A, b \in B : w[a] <= w[b]
      BY <1>2
    <2> QED BY <1>4, <2>1, SumExchange
  <1>6. SumOver(w, S) = SumOver(w, C) + SumOver(w, A)
    <2>1. IsFiniteSet(S) /\ (\A c \in S : w[c] \in Nat) /\ C \in SUBSET S /\ S \ C = A
      BY <1>1, <1>2
    <2> QED BY <2>1, SumInTwo
  <1>7. SumOver(w, P) = SumOver(w, C) + SumOver(w, B)
    <2>1. IsFiniteSet(P) /\ (\A c \in P : w[c] \in Nat) /\ C \in SUBSET P /\ P \ C = B
      BY <1>1, <1>2
    <2> QED BY <2>1, SumInTwo
  <1> QED BY <1>1, <1>5, <1>6, <1>7
=============================================================================
