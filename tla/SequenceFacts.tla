----------------------------- MODULE SequenceFacts -----------------------------
(***************************************************************************)
(* Facts the proofs share: least and greatest elements of sets of naturals *)
(* (induction enters the proofs of this project here, as the existence of  *)
(* a least element), and lemmas about the operators of SequencesExt that   *)
(* the models use: Append, ToSet and RemoveFirst.                          *)
(***************************************************************************)
EXTENDS Integers, Sequences, FiniteSetsExt, SequencesExt, WellFoundedInduction,
        SequenceTheorems, TLAPS

(* A non-empty set of naturals has a least element.                        *)
LEMMA LeastElement ==
    ASSUME NEW I \in SUBSET Nat, I # {}
    PROVE  \E m \in I : \A i \in I : m <= i
<1>. DEFINE R == {ss \in Nat \X Nat : ss[1] < ss[2]}
<1>1. IsWellFoundedOn(R, Nat)
  BY NatLessThanWellFounded DEF OpToRel
<1>2. \E m \in I : \A i \in I : <<i, m>> \notin R
  <2>. HIDE DEF R
  <2> QED
    BY <1>1, WFMin
<1>3. PICK m \in I : \A i \in I : <<i, m>> \notin R
  BY <1>2
<1>4. ASSUME NEW i \in I PROVE m <= i
  <2>1. <<i, m>> \notin R /\ i \in Nat /\ m \in Nat
    BY <1>3
  <2>2. ~(i < m)
    BY <2>1
  <2> QED
    BY <2>1, <2>2
<1> QED
  BY <1>4

(* A non-empty bounded set of naturals has a greatest element.             *)
LEMMA GreatestElement ==
    ASSUME NEW I \in SUBSET Nat, I # {}, NEW B \in Nat, \A i \in I : i <= B
    PROVE  \E m \in I : \A i \in I : i <= m
<1>. DEFINE J == {j \in Nat : B - j \in I}
<1>1. J # {} /\ J \in SUBSET Nat
  <2>1. PICK i \in I : TRUE
    OBVIOUS
  <2>2. B - i \in Nat /\ B - (B - i) = i
    BY <2>1
  <2> QED
    BY <2>1, <2>2
<1>2. PICK j \in J : \A k \in J : j <= k
  BY <1>1, LeastElement
<1>3. ASSUME NEW i \in I PROVE i <= B - j
  <2>1. B - i \in J
    <3>1. B - i \in Nat /\ B - (B - i) = i
      OBVIOUS
    <3> QED
      BY <3>1
  <2>2. j <= B - i
    BY <1>2, <2>1
  <2> QED
    BY <1>2, <2>2
<1> QED
  BY <1>2, <1>3

(* Min and Max are these elements.                                         *)
LEMMA MinOfNaturals ==
    ASSUME NEW I \in SUBSET Nat, I # {}
    PROVE  Min(I) \in I /\ \A i \in I : Min(I) <= i
BY LeastElement DEF Min

(* Max of a bounded set of naturals is its greatest element.               *)
LEMMA MaxOfNaturals ==
    ASSUME NEW I \in SUBSET Nat, I # {}, NEW B \in Nat, \A i \in I : i <= B
    PROVE  Max(I) \in I /\ \A i \in I : i <= Max(I)
<1>1. PICK m \in I : \A i \in I : i <= m
  BY GreatestElement
<1>2. \A i \in I : m >= i
  BY <1>1
<1>3. Max(I) \in I /\ \A i \in I : Max(I) >= i
  BY <1>2 DEF Max
<1> QED
  BY <1>3

(* The same for two numbers.                                               *)
LEMMA MinMaxOfTwo ==
    ASSUME NEW a \in Int, NEW b \in Int
    PROVE  /\ Max({a, b}) = IF a <= b THEN b ELSE a
           /\ Min({a, b}) = IF a <= b THEN a ELSE b
<1>1. CASE a <= b
  <2>1. \A x \in {a, b} : (\A y \in {a, b} : x >= y) <=> x = b
    BY <1>1
  <2>2. \A x \in {a, b} : (\A y \in {a, b} : x =< y) <=> x = a
    BY <1>1
  <2> QED
    BY <1>1, <2>1, <2>2 DEF Max, Min
<1>2. CASE ~(a <= b)
  <2>1. \A x \in {a, b} : (\A y \in {a, b} : x >= y) <=> x = a
    BY <1>2
  <2>2. \A x \in {a, b} : (\A y \in {a, b} : x =< y) <=> x = b
    BY <1>2
  <2> QED
    BY <1>2, <2>1, <2>2 DEF Max, Min
<1> QED
  BY <1>1, <1>2

(* Finitely many naturals have a bound.                                    *)
LEMMA BoundOfSequence ==
    ASSUME NEW n \in Nat, NEW f, \A i \in 1 .. n : f[i] \in Nat
    PROVE  \E B \in Nat : \A i \in 1 .. n : f[i] <= B
<1>. DEFINE Bad == {m \in 0 .. n : \A B \in Nat : \E i \in 1 .. m : ~(f[i] <= B)}
<1>1. SUFFICES ASSUME Bad # {} PROVE FALSE
  <2>1. n \notin Bad
    BY <1>1
  <2> QED
    BY <2>1
<1>2. PICK m \in Bad : \A k \in Bad : m <= k
  <2>1. Bad \in SUBSET Nat
    OBVIOUS
  <2> HIDE DEF Bad
  <2> QED
    BY <1>1, <2>1, LeastElement
<1>3. m # 0
  <2>1. \A i \in 1 .. 0 : f[i] <= 0
    OBVIOUS
  <2> QED
    BY <1>2, <2>1
<1>4. m - 1 \in 0 .. n /\ ~(m <= m - 1)
  BY <1>2, <1>3
<1>5. PICK B \in Nat : \A i \in 1 .. m - 1 : f[i] <= B
  BY <1>2, <1>4
<1>6. m \in 1 .. n /\ f[m] \in Nat
  BY <1>2, <1>3
<1>7. PICK C \in Nat : B <= C /\ f[m] <= C
  <2>1. B + f[m] \in Nat /\ B <= B + f[m] /\ f[m] <= B + f[m]
    BY <1>5, <1>6
  <2> QED
    BY <2>1
<1>8. \A i \in 1 .. m : f[i] <= C
  <2> SUFFICES ASSUME NEW i \in 1 .. m PROVE f[i] <= C
    OBVIOUS
  <2>1. CASE i = m
    BY <1>7, <2>1
  <2>2. CASE i # m
    <3>1. i \in 1 .. m - 1 /\ i \in 1 .. n
      BY <1>6, <2>2
    <3>2. f[i] <= B /\ f[i] \in Nat
      BY <1>5, <3>1
    <3> QED
      BY <1>5, <1>7, <3>2
  <2> QED
    BY <2>1, <2>2
<1> QED
  BY <1>2, <1>7, <1>8

-----------------------------------------------------------------------------
(* What RemoveAt leaves.                                                   *)
LEMMA RemoveAtElements ==
    ASSUME NEW S, NEW s \in Seq(S), NEW k \in 1 .. Len(s)
    PROVE  /\ RemoveAt(s, k) \in Seq(S)
           /\ Len(RemoveAt(s, k)) = Len(s) - 1
           /\ \A i \in 1 .. Len(s) - 1 :
                 RemoveAt(s, k)[i] = IF i < k THEN s[i] ELSE s[i + 1]
<1>. DEFINE a == SubSeq(s, 1, k - 1)
            b == SubSeq(s, k + 1, Len(s))
            r == RemoveAt(s, k)
<1>1. /\ a \in Seq(S) /\ Len(a) = k - 1
      /\ \A i \in 1 .. k - 1 : a[i] = s[i]
  OBVIOUS
<1>2. /\ b \in Seq(S) /\ Len(b) = Len(s) - k
      /\ \A i \in 1 .. Len(s) - k : b[i] = s[k + i]
  OBVIOUS
<1>3. r = a \o b
  BY DEF RemoveAt
<1>. HIDE DEF r, a, b
<1>4. r \in Seq(S) /\ Len(r) = Len(s) - 1
  BY <1>1, <1>2, <1>3, ConcatProperties, SMTT(40)
<1>5. ASSUME NEW i \in 1 .. Len(s) - 1
      PROVE  r[i] = IF i < k THEN s[i] ELSE s[i + 1]
  <2>1. i \in 1 .. Len(a) + Len(b)
    BY <1>1, <1>2
  <2>2. (a \o b)[i] = IF i <= Len(a) THEN a[i] ELSE b[i - Len(a)]
    BY <1>1, <1>2, <2>1, ConcatProperties
  <2>3. CASE i < k
    BY <1>1, <1>3, <2>2, <2>3
  <2>4. CASE ~(i < k)
    <3>1. i - (k - 1) \in 1 .. Len(s) - k /\ k + (i - (k - 1)) = i + 1
      BY <2>4
    <3> QED
      BY <1>1, <1>2, <1>3, <2>2, <2>4, <3>1
  <2> QED
    BY <2>3, <2>4
<1> QED
  BY <1>4, <1>5 DEF r

(* The first occurrence goes, the others keep their order.                 *)
LEMMA RemoveFirstElements ==
    ASSUME NEW S, NEW s \in Seq(S), NEW e, Contains(s, e)
    PROVE  \E k \in 1 .. Len(s) :
              /\ s[k] = e
              /\ RemoveFirst(s, e) \in Seq(S)
              /\ Len(RemoveFirst(s, e)) = Len(s) - 1
              /\ \A i \in 1 .. Len(s) - 1 :
                    RemoveFirst(s, e)[i] = IF i < k THEN s[i] ELSE s[i + 1]
<1>. DEFINE I == {i \in 1 .. Len(s) : s[i] = e}
            k == SelectInSeq(s, LAMBDA v : v = e)
<1>1. I # {} /\ I \in SUBSET Nat
  BY DEF Contains
<1>2. k \in I
  <2>1. k = Min(I)
    BY <1>1 DEF SelectInSeq
  <2> HIDE DEF I
  <2> QED
    BY <1>1, <2>1, MinOfNaturals
<1>3. RemoveFirst(s, e) = RemoveAt(s, k)
  BY DEF Contains, RemoveFirst
<1>. HIDE DEF k
<1> QED
  BY <1>2, <1>3, RemoveAtElements

(* Removing what is not in the sequence changes nothing.                   *)
LEMMA RemoveFirstAbsent ==
    ASSUME NEW s, NEW e, ~Contains(s, e)
    PROVE  RemoveFirst(s, e) = s
BY DEF Contains, RemoveFirst

(* Appending adds one element.                                             *)
LEMMA AppendElements ==
    ASSUME NEW S, NEW s \in Seq(S), NEW e \in S
    PROVE  ToSet(Append(s, e)) = ToSet(s) \cup {e}
<1>. DEFINE r == Append(s, e)
<1>1. /\ r \in Seq(S) /\ Len(r) = Len(s) + 1 /\ r[Len(s) + 1] = e
      /\ \A i \in 1 .. Len(s) : r[i] = s[i]
  BY AppendProperties
<1>. HIDE DEF r
<1>2. DOMAIN r = 1 .. Len(s) + 1 /\ DOMAIN s = 1 .. Len(s) /\ Len(s) \in Nat
  BY <1>1
<1>3. ToSet(r) \subseteq ToSet(s) \cup {e}
  BY <1>1, <1>2 DEF ToSet
<1>4. ToSet(s) \cup {e} \subseteq ToSet(r)
  BY <1>1, <1>2 DEF ToSet
<1> QED
  BY <1>3, <1>4 DEF r

(* What follows for its length and its elements.                           *)
LEMMA RemoveFirstFacts ==
    ASSUME NEW S, NEW s \in Seq(S), NEW e
    PROVE  /\ RemoveFirst(s, e) \in Seq(S)
           /\ Len(RemoveFirst(s, e)) <= Len(s)
           /\ ToSet(RemoveFirst(s, e)) \subseteq ToSet(s)
           /\ ToSet(s) \subseteq ToSet(RemoveFirst(s, e)) \cup {e}
<1>1. CASE Contains(s, e)
  <2>. DEFINE r == RemoveFirst(s, e)
  <2>1. PICK k \in 1 .. Len(s) :
              /\ s[k] = e
              /\ r \in Seq(S)
              /\ Len(r) = Len(s) - 1
              /\ \A i \in 1 .. Len(s) - 1 : r[i] = IF i < k THEN s[i] ELSE s[i + 1]
    BY <1>1, RemoveFirstElements
  <2>. HIDE DEF r
  <2>2. Len(s) \in Nat /\ DOMAIN s = 1 .. Len(s) /\ DOMAIN r = 1 .. Len(s) - 1
    BY <2>1
  <2>3. ASSUME NEW i \in 1 .. Len(s) - 1 PROVE r[i] \in ToSet(s)
    BY <2>1, <2>2, SMTT(40) DEF ToSet
  <2>4. ASSUME NEW i \in 1 .. Len(s), i # k PROVE s[i] \in ToSet(r)
    <3>1. CASE i < k
      <4>1. i \in 1 .. Len(s) - 1 /\ r[i] = s[i]
        BY <2>1, <2>2, <3>1
      <4> QED
        BY <2>2, <4>1 DEF ToSet
    <3>2. CASE i > k
      <4>1. i - 1 \in 1 .. Len(s) - 1 /\ ~(i - 1 < k) /\ (i - 1) + 1 = i
        BY <2>1, <2>2, <3>2
      <4>2. r[i - 1] = s[i]
        BY <2>1, <4>1
      <4> QED
        BY <2>2, <4>1, <4>2 DEF ToSet
    <3> QED
      BY <2>2, <2>4, <3>1, <3>2
  <2>5. ToSet(r) \subseteq ToSet(s)
    BY <2>2, <2>3 DEF ToSet
  <2>6. ToSet(s) \subseteq ToSet(r) \cup {e}
    BY <2>1, <2>2, <2>4 DEF ToSet
  <2> QED
    BY <2>1, <2>2, <2>5, <2>6 DEF r
<1>2. CASE ~Contains(s, e)
  BY <1>2, RemoveFirstAbsent
<1> QED
  BY <1>1, <1>2

(* Removing an element from a sequence without repetitions removes it from *)
(* the set of elements, and leaves no repetitions.                         *)
LEMMA RemoveFirstDistinct ==
    ASSUME NEW S, NEW s \in Seq(S), NEW e,
           \A i, j \in 1 .. Len(s) : s[i] = s[j] => i = j
    PROVE  LET r == RemoveFirst(s, e)
           IN  /\ ToSet(r) = ToSet(s) \ {e}
               /\ \A i, j \in 1 .. Len(r) : r[i] = r[j] => i = j
<1>. DEFINE r == RemoveFirst(s, e)
<1>1. CASE Contains(s, e)
  <2>1. PICK k \in 1 .. Len(s) :
              /\ s[k] = e
              /\ r \in Seq(S)
              /\ Len(r) = Len(s) - 1
              /\ \A i \in 1 .. Len(s) - 1 : r[i] = IF i < k THEN s[i] ELSE s[i + 1]
    BY <1>1, RemoveFirstElements
  <2>2. ToSet(r) \subseteq ToSet(s) /\ ToSet(s) \subseteq ToSet(r) \cup {e}
    BY RemoveFirstFacts
  <2>. HIDE DEF r
  <2>3. ASSUME NEW i \in 1 .. Len(r)
        PROVE  \E m \in 1 .. Len(s) : /\ r[i] = s[m] /\ m # k
                                      /\ m = IF i < k THEN i ELSE i + 1
    <3>1. i \in 1 .. Len(s) - 1 /\ Len(s) \in Nat
      BY <2>1
    <3>2. CASE i < k
      BY <2>1, <3>1, <3>2
    <3>3. CASE ~(i < k)
      <4>1. i + 1 \in 1 .. Len(s) /\ i + 1 # k
        BY <2>1, <3>1, <3>3
      <4> QED
        BY <2>1, <3>1, <3>3, <4>1
    <3> QED
      BY <3>2, <3>3
  <2>4. ASSUME NEW i \in 1 .. Len(r) PROVE r[i] # e
    BY <2>1, <2>3
  <2>5. e \notin ToSet(r)
    <3>1. DOMAIN r = 1 .. Len(r)
      BY <2>1
    <3> QED
      BY <2>4, <3>1 DEF ToSet
  <2>6. ASSUME NEW i \in 1 .. Len(r), NEW j \in 1 .. Len(r), r[i] = r[j] PROVE i = j
    <3>1. PICK m \in 1 .. Len(s) : r[i] = s[m] /\ m = IF i < k THEN i ELSE i + 1
      BY <2>3
    <3>2. PICK n \in 1 .. Len(s) : r[j] = s[n] /\ n = IF j < k THEN j ELSE j + 1
      BY <2>3
    <3>3. m = n
      BY <2>6, <3>1, <3>2
    <3> QED
      BY <2>1, <3>1, <3>2, <3>3
  <2> QED
    BY <2>2, <2>5, <2>6 DEF r
<1>2. CASE ~Contains(s, e)
  <2>1. e \notin ToSet(s)
    BY <1>2 DEF Contains, ToSet
  <2> QED
    BY <1>2, <2>1, RemoveFirstAbsent
<1> QED
  BY <1>1, <1>2

=============================================================================
