------------------------------ MODULE DsmlProofs ------------------------------
(***************************************************************************)
(* However a text is cut into deltas, the client gets what it means.       *)
(***************************************************************************)
EXTENDS Dsml, SequenceTheorems, WellFoundedInduction, NaturalsInduction, TLAPS

(* A set of numbers has a least one.                                       *)
LEMMA Least == ASSUME NEW T \in SUBSET Nat, T # {} PROVE \E n \in T : \A m \in T : n <= m
<1>1. PICK n \in T : \A m \in T : ~(<<m, n>> \in OpToRel(<, Nat))
  BY NatLessThanWellFounded, WFMin
<1>2. \A m \in T : ~(m < n)
  BY <1>1 DEF OpToRel
<1> QED  BY <1>2

(* Induction over a set of numbers, from the least that is not in it.      *)
LEMMA AllNumbers ==
  ASSUME NEW T, 0 \in T, \A n \in Nat : n \in T => n + 1 \in T PROVE Nat \subseteq T
<1> SUFFICES ASSUME Nat \ T # {} PROVE FALSE
  OBVIOUS
<1>1. PICK n \in Nat \ T : \A m \in Nat \ T : n <= m
  BY Least
<1>2. n # 0 /\ n - 1 \in Nat
  BY <1>1
<1>3. n - 1 \in T
  BY <1>1, <1>2
<1> QED  BY <1>1, <1>2, <1>3

(* A bounded set of numbers has a greatest one.                            *)
LEMMA Greatest ==
  ASSUME NEW N \in Nat, NEW T \in SUBSET (0..N), T # {}
  PROVE  \E n \in T : \A m \in T : m <= n
<1> DEFINE U == {N - n : n \in T}
<1>1. U \in SUBSET Nat /\ U # {}
  <2>1. \A n \in T : N - n \in Nat
    OBVIOUS
  <2>2. PICK n \in T : TRUE
    OBVIOUS
  <2> QED  BY <2>1, <2>2
<1>2. PICK u \in U : \A v \in U : u <= v
  <2> HIDE DEF U
  <2> QED  BY <1>1, Least
<1>3. PICK n \in T : u = N - n
  OBVIOUS
<1>4. ASSUME NEW m \in T PROVE m <= n
  <2>1. N - m \in U
    OBVIOUS
  <2>2. N - n <= N - m
    BY <1>2, <1>3, <2>1
  <2> QED  BY <2>2
<1> QED  BY <1>4

----------------------------------------------------------------------------
(* Texts and what they begin with.                                         *)

LEMMA AfterIs ==
  ASSUME NEW S, NEW t \in Seq(S), NEW n \in 0..Len(t)
  PROVE  /\ After(t, n) \in Seq(S) /\ Len(After(t, n)) = Len(t) - n
         /\ \A i \in 1..Len(t) - n : After(t, n)[i] = t[n + i]
BY DEF After

LEMMA UpTo ==
  ASSUME NEW S, NEW t \in Seq(S), NEW n \in 0..Len(t)
  PROVE  /\ SubSeq(t, 1, n) \in Seq(S) /\ Len(SubSeq(t, 1, n)) = n
         /\ \A i \in 1..n : SubSeq(t, 1, n)[i] = t[i]
OBVIOUS

LEMMA AfterAfter ==
  ASSUME NEW S, NEW t \in Seq(S), NEW n \in 0..Len(t), NEW k \in 0..Len(t) - n
  PROVE  After(After(t, n), k) = After(t, n + k)
<1>1. n + k \in 0..Len(t)
  OBVIOUS
<1>2. After(t, n) \in Seq(S) /\ Len(After(t, n)) = Len(t) - n
      /\ \A i \in 1..Len(t) - n : After(t, n)[i] = t[n + i]
  BY AfterIs
<1> DEFINE r == After(t, n)
<1> HIDE DEF r
<1>3. /\ After(r, k) \in Seq(S) /\ Len(After(r, k)) = Len(t) - n - k
      /\ \A i \in 1..Len(t) - n - k : After(r, k)[i] = r[k + i]
  BY <1>2, AfterIs DEF r
<1>4. /\ After(t, n + k) \in Seq(S) /\ Len(After(t, n + k)) = Len(t) - n - k
      /\ \A i \in 1..Len(t) - n - k : After(t, n + k)[i] = t[n + k + i]
  BY <1>1, AfterIs
<1>5. ASSUME NEW i \in 1..Len(t) - n - k PROVE After(r, k)[i] = After(t, n + k)[i]
  <2>1. k + i \in 1..Len(t) - n /\ n + (k + i) = n + k + i
    OBVIOUS
  <2>2. r[k + i] = t[n + (k + i)]
    BY <1>2, <2>1 DEF r
  <2> QED  BY <1>3, <1>4, <2>1, <2>2
<1> DEFINE u == After(r, k)
           v == After(t, n + k)
<1>6. u \in Seq(S) /\ v \in Seq(S) /\ Len(u) = Len(v) /\ \A i \in 1..Len(u) : u[i] = v[i]
  BY <1>3, <1>4, <1>5
<1> HIDE DEF u, v
<1>7. u = v
  BY <1>6, SeqEqual
<1> QED  BY <1>7, Zenon DEF r, u, v

LEMMA CutInTwo ==
  ASSUME NEW S, NEW t \in Seq(S), NEW n \in 0..Len(t)
  PROVE  t = SubSeq(t, 1, n) \o After(t, n)
<1> DEFINE a == SubSeq(t, 1, n)
           b == After(t, n)
<1>1. a \in Seq(S) /\ Len(a) = n /\ \A i \in 1..n : a[i] = t[i]
  BY UpTo
<1>2. b \in Seq(S) /\ Len(b) = Len(t) - n /\ \A i \in 1..Len(t) - n : b[i] = t[n + i]
  BY AfterIs
<1> HIDE DEF a, b
<1>3. /\ a \o b \in Seq(S) /\ Len(a \o b) = Len(t)
      /\ \A i \in 1..Len(t) : (a \o b)[i] = IF i <= n THEN a[i] ELSE b[i - n]
  BY <1>1, <1>2
<1>4. ASSUME NEW i \in 1..Len(t) PROVE t[i] = (a \o b)[i]
  <2>1. CASE i <= n
    BY <1>1, <1>3, <2>1
  <2>2. CASE i > n
    <3>1. i - n \in 1..Len(t) - n /\ n + (i - n) = i /\ ~(i <= n)
      BY <2>2
    <3>2. (a \o b)[i] = b[i - n] /\ b[i - n] = t[n + (i - n)]
      BY <1>2, <1>3, <3>1
    <3> QED  BY <3>1, <3>2
  <2>3. i <= n \/ i > n
    OBVIOUS
  <2> QED  BY <2>1, <2>2, <2>3
<1> DEFINE u == a \o b
<1>5. u \in Seq(S) /\ Len(t) = Len(u) /\ \A i \in 1..Len(t) : t[i] = u[i]
  BY <1>3, <1>4
<1> HIDE DEF u
<1>6. t = u
  BY <1>5, SeqEqual
<1> QED  BY <1>6, Zenon DEF a, b, u

(* A word stands at a place of a text.                                     *)
Occurs(t, i, w) == i + Len(w) - 1 <= Len(t) /\ \A k \in 1..Len(w) : t[i + k - 1] = w[k]

LEMMA OccursIs ==
  ASSUME NEW S, NEW t \in Seq(S), NEW w \in Seq(S), NEW i \in 1..Len(t)
  PROVE  IsPrefix(w, SubSeq(t, i, Len(t))) <=> Occurs(t, i, w)
<1> DEFINE r == SubSeq(t, i, Len(t))
<1>1. r \in Seq(S) /\ Len(r) = Len(t) - i + 1 /\ \A k \in 1..Len(r) : r[k] = t[i + k - 1]
  OBVIOUS
<1> HIDE DEF r
<1>2. SubSeq(w, 1, Len(w)) = w
  OBVIOUS
<1>3. Len(w) <= Len(r) => /\ SubSeq(r, 1, Len(w)) \in Seq(S) /\ Len(SubSeq(r, 1, Len(w))) = Len(w)
                          /\ \A k \in 1..Len(w) : SubSeq(r, 1, Len(w))[k] = r[k]
  BY <1>1
<1>4. Len(w) <= Len(r) => (w = SubSeq(r, 1, Len(w)) <=> \A k \in 1..Len(w) : w[k] = r[k])
  BY <1>3, SeqEqual
<1>5. Len(w) <= Len(r) <=> i + Len(w) - 1 <= Len(t)
  BY <1>1
<1>6. Len(w) <= Len(r) => \A k \in 1..Len(w) : r[k] = t[i + k - 1]
  BY <1>1
<1>7. IsPrefix(w, r) <=> Len(w) <= Len(r) /\ w = SubSeq(r, 1, Len(w))
  BY <1>2 DEF IsPrefix
<1> QED  BY <1>4, <1>5, <1>6, <1>7 DEF Occurs, r

LEMMA StartsIs ==
  ASSUME NEW S, NEW t \in Seq(S), NEW w \in Seq(S)
  PROVE  /\ Starts(t, w) \in 0..Len(t)
         /\ Starts(t, w) # 0 => Occurs(t, Starts(t, w), w)
         /\ \A j \in 1..Len(t) : Occurs(t, j, w) => Starts(t, w) # 0 /\ Starts(t, w) <= j
<1> DEFINE I == {i \in 1..Len(t) : IsPrefix(w, SubSeq(t, i, Len(t)))}
<1>1. Starts(t, w) = IF I = {} THEN 0 ELSE CHOOSE i \in I : \A j \in I : i <= j
  BY DEF Starts
<1>2. \A i \in 1..Len(t) : i \in I <=> Occurs(t, i, w)
  BY OccursIs
<1>3. I \in SUBSET Nat /\ I \subseteq 1..Len(t)
  OBVIOUS
<1> HIDE DEF I
<1>4. I # {} => Starts(t, w) \in I /\ \A j \in I : Starts(t, w) <= j
  BY <1>1, <1>3, Least
<1>5. I = {} => Starts(t, w) = 0
  BY <1>1
<1>6. \A j \in 1..Len(t) : Occurs(t, j, w) => Starts(t, w) # 0 /\ Starts(t, w) <= j
  <2>1. \A j \in I : I # {} /\ Starts(t, w) <= j /\ Starts(t, w) \in 1..Len(t)
    BY <1>3, <1>4
  <2> QED  BY <1>2, <2>1
<1>7. Starts(t, w) # 0 => Occurs(t, Starts(t, w), w)
  BY <1>2, <1>3, <1>4, <1>5
<1>8. Starts(t, w) \in 0..Len(t)
  <2>1. Len(t) \in Nat /\ \A i \in I : i \in 0..Len(t)
    BY <1>3
  <2> QED  BY <1>4, <1>5, <2>1
<1> QED  BY <1>6, <1>7, <1>8

LEMMA StartsAt ==
  ASSUME NEW S, NEW t \in Seq(S), NEW w \in Seq(S), NEW i \in 1..Len(t), Occurs(t, i, w),
         \A j \in 1..i - 1 : ~Occurs(t, j, w)
  PROVE  Starts(t, w) = i
BY StartsIs

(* Where a longer text has the word: there, or later.                      *)
LEMMA StartsInLonger ==
  ASSUME NEW S, NEW b \in Seq(S), NEW s \in Seq(S), NEW w \in Seq(S), w # <<>>,
         Len(b) <= Len(s), \A i \in 1..Len(b) : s[i] = b[i]
  PROVE  /\ Starts(b, w) # 0 => Starts(s, w) = Starts(b, w)
         /\ Starts(b, w) = 0 /\ Starts(s, w) # 0 => Starts(s, w) + Len(w) - 1 > Len(b)
<1>1. ASSUME NEW i \in 1..Len(b), Occurs(b, i, w) PROVE Occurs(s, i, w)
  BY <1>1 DEF Occurs
<1>2. ASSUME NEW i \in 1..Len(s), Occurs(s, i, w), i + Len(w) - 1 <= Len(b), i <= Len(b)
      PROVE  Occurs(b, i, w)
  BY <1>2 DEF Occurs
<1>3. Starts(b, w) \in 0..Len(b) /\ (Starts(b, w) # 0 => Occurs(b, Starts(b, w), w))
      /\ \A j \in 1..Len(b) : Occurs(b, j, w) => Starts(b, w) # 0 /\ Starts(b, w) <= j
  BY StartsIs
<1>4. Starts(s, w) \in 0..Len(s) /\ (Starts(s, w) # 0 => Occurs(s, Starts(s, w), w))
      /\ \A j \in 1..Len(s) : Occurs(s, j, w) => Starts(s, w) # 0 /\ Starts(s, w) <= j
  BY StartsIs
<1>5. CASE Starts(b, w) # 0
  <2>1. Occurs(s, Starts(b, w), w) /\ Starts(s, w) # 0 /\ Starts(s, w) <= Starts(b, w)
    BY <1>1, <1>3, <1>4, <1>5
  <2>2. Starts(b, w) + Len(w) - 1 <= Len(b)
    BY <1>3, <1>5 DEF Occurs
  <2>3. Occurs(b, Starts(s, w), w)
    BY <1>2, <1>3, <1>4, <2>1, <2>2
  <2> QED  BY <1>3, <1>4, <1>5, <2>1, <2>3
<1>6. CASE Starts(b, w) = 0 /\ Starts(s, w) # 0
  <2> SUFFICES ASSUME Starts(s, w) + Len(w) - 1 <= Len(b) PROVE FALSE
    BY <1>3, <1>4, <1>6
  <2> QED  BY <1>2, <1>3, <1>4, <1>6
<1> QED  BY <1>5, <1>6

(* What is left of a text has the word where the text has it.              *)
LEMMA StartsLater ==
  ASSUME NEW S, NEW s \in Seq(S), NEW w \in Seq(S), w # <<>>, NEW c \in 0..Len(s),
         Starts(s, w) = 0 \/ Starts(s, w) > c
  PROVE  Starts(After(s, c), w) = IF Starts(s, w) = 0 THEN 0 ELSE Starts(s, w) - c
<1> DEFINE r == After(s, c)
<1>0. Len(s) \in Nat /\ Len(w) \in Nat /\ Len(w) # 0
  OBVIOUS
<1>1. r \in Seq(S) /\ Len(r) = Len(s) - c /\ \A i \in 1..Len(s) - c : r[i] = s[c + i]
  BY AfterIs
<1> HIDE DEF r
<1>2. ASSUME NEW i \in 1..Len(r) PROVE c + i \in 1..Len(s) /\ (Occurs(r, i, w) <=> Occurs(s, c + i, w))
  <2>1. c + i \in 1..Len(s)
    BY <1>1
  <2>2. i + Len(w) - 1 <= Len(r) <=> (c + i) + Len(w) - 1 <= Len(s)
    BY <1>0, <1>1
  <2>3. ASSUME NEW k \in 1..Len(w), i + Len(w) - 1 <= Len(r) PROVE r[i + k - 1] = s[(c + i) + k - 1]
    <3>1. i + k - 1 \in 1..Len(s) - c /\ c + (i + k - 1) = (c + i) + k - 1
      BY <1>0, <1>1, <2>3
    <3> QED  BY <1>1, <3>1
  <2> QED  BY <2>1, <2>2, <2>3 DEF Occurs
<1>3. Starts(r, w) \in 0..Len(r) /\ (Starts(r, w) # 0 => Occurs(r, Starts(r, w), w))
      /\ \A j \in 1..Len(r) : Occurs(r, j, w) => Starts(r, w) # 0 /\ Starts(r, w) <= j
  BY <1>1, StartsIs
<1>4. Starts(s, w) \in 0..Len(s) /\ (Starts(s, w) # 0 => Occurs(s, Starts(s, w), w))
      /\ \A j \in 1..Len(s) : Occurs(s, j, w) => Starts(s, w) # 0 /\ Starts(s, w) <= j
  BY StartsIs
<1>5. CASE Starts(s, w) = 0
  <2>1. Starts(r, w) = 0
    BY <1>2, <1>3, <1>4, <1>5
  <2> QED  BY <1>5, <2>1 DEF r
<1>6. CASE Starts(s, w) # 0
  <2> DEFINE i == Starts(s, w) - c
  <2>1. i \in 1..Len(r) /\ c + i = Starts(s, w)
    BY <1>0, <1>1, <1>4, <1>6
  <2>2. Starts(r, w) # 0 /\ Starts(r, w) <= i
    BY <1>2, <1>3, <1>4, <1>6, <2>1
  <2>3. Occurs(s, c + Starts(r, w), w) /\ c + Starts(r, w) \in 1..Len(s)
    BY <1>2, <1>3, <2>2
  <2>4. c + i <= c + Starts(r, w)
    BY <1>4, <2>1, <2>3
  <2>5. Starts(r, w) = i
    BY <1>1, <1>3, <2>1, <2>2, <2>4
  <2> QED  BY <1>6, <2>5 DEF r
<1> QED  BY <1>5, <1>6

(* What is held back is the most that may yet become one of the tags.      *)
LEMMA HeldBackIs ==
  ASSUME NEW S, NEW t \in Seq(S), NEW tags
  PROVE  /\ HeldBack(t, tags) \in 0..Len(t)
         /\ \A n \in 1..Len(t) : \A tag \in tags :
              IsPrefix(After(t, Len(t) - n), tag) => n <= HeldBack(t, tags)
<1> DEFINE lengths == {n \in 1..Len(t) : \E tag \in tags : IsPrefix(After(t, Len(t) - n), tag)}
<1>1. HeldBack(t, tags) = IF lengths = {} THEN 0 ELSE CHOOSE n \in lengths : \A m \in lengths : m <= n
  BY DEF HeldBack
<1>2. Len(t) \in Nat /\ lengths \in SUBSET (0..Len(t))
  OBVIOUS
<1>3. \A n \in 1..Len(t) : \A tag \in tags : IsPrefix(After(t, Len(t) - n), tag) => n \in lengths
  OBVIOUS
<1> HIDE DEF lengths
<1>4. lengths # {} => HeldBack(t, tags) \in lengths /\ \A m \in lengths : m <= HeldBack(t, tags)
  <2>1. lengths # {} => \E n \in lengths : \A m \in lengths : m <= n
    BY <1>2, Greatest
  <2> QED  BY <1>1, <2>1, Zenon
<1>5. HeldBack(t, tags) \in 0..Len(t)
  <2>1. lengths # {} => HeldBack(t, tags) \in 0..Len(t)
    BY <1>2, <1>4
  <2>2. 0 \in 0..Len(t) /\ (lengths = {} => HeldBack(t, tags) = 0)
    BY <1>1, <1>2
  <2> QED  BY <2>1, <2>2
<1> QED  BY <1>3, <1>4, <1>5

(* What a text without the tag gives out cannot be part of one, whatever   *)
(* follows.                                                                *)
LEMMA GivenIsClear ==
  ASSUME NEW S, NEW b \in Seq(S), NEW s \in Seq(S), NEW tags \in SUBSET Seq(S), NEW w \in tags,
         w # <<>>, Len(b) <= Len(s), \A i \in 1..Len(b) : s[i] = b[i], Starts(b, w) = 0
  PROVE  Starts(s, w) = 0 \/ Starts(s, w) > Len(b) - HeldBack(b, tags)
<1> DEFINE i == Starts(s, w)
           n == Len(b) - i + 1
<1> SUFFICES ASSUME i # 0, i <= Len(b) - HeldBack(b, tags) PROVE FALSE
  <2>1. i \in Nat /\ HeldBack(b, tags) \in Nat /\ Len(b) \in Nat
    BY HeldBackIs, StartsIs
  <2> QED  BY <2>1
<1>1. i \in 1..Len(s) /\ Occurs(s, i, w) /\ i + Len(w) - 1 > Len(b)
  BY StartsInLonger, StartsIs
<1>2. HeldBack(b, tags) \in 0..Len(b) /\ Len(b) \in Nat /\ Len(w) \in Nat
  BY HeldBackIs
<1> HIDE DEF i
<1>3. n \in 1..Len(b) /\ n > HeldBack(b, tags) /\ Len(b) - n = i - 1 /\ n < Len(w)
  BY <1>1, <1>2
<1> HIDE DEF n
<1> DEFINE r == After(b, Len(b) - n)
<1>4. r \in Seq(S) /\ Len(r) = n /\ \A k \in 1..n : r[k] = b[i - 1 + k]
  <2> DEFINE c == Len(b) - n
  <2>1. c \in 0..Len(b) /\ Len(b) - c = n /\ c = i - 1
    BY <1>2, <1>3
  <2>2. r = After(b, c)
    OBVIOUS
  <2> HIDE DEF r, c
  <2>3. /\ After(b, c) \in Seq(S) /\ Len(After(b, c)) = Len(b) - c
        /\ \A k \in 1..Len(b) - c : After(b, c)[k] = b[c + k]
    <3>1. \A j \in 0..Len(b) :
             /\ After(b, j) \in Seq(S) /\ Len(After(b, j)) = Len(b) - j
             /\ \A k \in 1..Len(b) - j : After(b, j)[k] = b[j + k]
      BY AfterIs
    <3> QED  BY <2>1, <3>1, Zenon
  <2> QED  BY <2>1, <2>2, <2>3
<1> HIDE DEF r
<1>5. ASSUME NEW k \in 1..n PROVE r[k] = w[k]
  <2>1. i - 1 + k \in 1..Len(b) /\ i - 1 + k = i + k - 1 /\ k \in 1..Len(w)
    BY <1>1, <1>2, <1>3
  <2> QED  BY <1>1, <1>4, <2>1, ZenonT(30) DEF Occurs
<1>6. IsPrefix(r, w)
  <2>1. SubSeq(r, 1, n) = SubSeq(w, 1, n)
    <3>1. n \in 0..Len(r) /\ n \in 0..Len(w)
      BY <1>2, <1>3, <1>4
    <3> DEFINE u == SubSeq(r, 1, n)
               v == SubSeq(w, 1, n)
    <3>2. u \in Seq(S) /\ Len(u) = n /\ \A k \in 1..n : u[k] = r[k]
      BY <1>4, <3>1, UpTo
    <3>3. v \in Seq(S) /\ Len(v) = n /\ \A k \in 1..n : v[k] = w[k]
      BY <3>1, UpTo
    <3> HIDE DEF u, v
    <3>4. u = v
      BY <1>5, <3>2, <3>3, SeqEqual
    <3> QED  BY <3>4, Zenon DEF u, v
  <2> QED  BY <1>2, <1>3, <1>4, <2>1 DEF IsPrefix
<1>7. \A m \in 1..Len(b) : IsPrefix(After(b, Len(b) - m), w) => m <= HeldBack(b, tags)
  BY HeldBackIs
<1>8. n <= HeldBack(b, tags)
  BY <1>3, <1>6, <1>7 DEF r
<1> QED  BY <1>2, <1>3, <1>8

----------------------------------------------------------------------------
(* Functions that go from number to number.                                *)
Goes(r, S, base, n, g) ==
    r \in [0..n -> S] /\ r[0] = base /\ \A i \in 1..n : r[i] = g[i][r[i - 1]]

LEMMA Iterates ==
  ASSUME NEW S, NEW base \in S, NEW n \in Nat, NEW g \in [1..n -> [S -> S]]
  PROVE  \E r : Goes(r, S, base, n, g)
<1> DEFINE T == {m \in Nat : m <= n =>
                   \E r \in [0..m -> S] : r[0] = base /\ \A i \in 1..m : r[i] = g[i][r[i - 1]]}
<1>1. 0 \in T
  <2> DEFINE r == [i \in 0..0 |-> base]
  <2>1. r \in [0..0 -> S] /\ r[0] = base /\ \A i \in 1..0 : r[i] = g[i][r[i - 1]]
    OBVIOUS
  <2> HIDE DEF r
  <2> QED  BY <2>1
<1>2. ASSUME NEW m \in Nat, m \in T PROVE m + 1 \in T
  <2> SUFFICES ASSUME m + 1 <= n
               PROVE  \E r \in [0..m + 1 -> S] :
                        r[0] = base /\ \A i \in 1..m + 1 : r[i] = g[i][r[i - 1]]
    OBVIOUS
  <2>1. PICK r \in [0..m -> S] : r[0] = base /\ \A i \in 1..m : r[i] = g[i][r[i - 1]]
    BY <1>2
  <2> DEFINE last == g[m + 1][r[m]]
             q == [i \in 0..m + 1 |-> IF i = m + 1 THEN last ELSE r[i]]
  <2>2. last \in S
    <3>1. m + 1 \in 1..n /\ r[m] \in S
      OBVIOUS
    <3> QED  BY <3>1
  <2> HIDE DEF last
  <2>3. q \in [0..m + 1 -> S] /\ q[0] = base
    BY <2>1, <2>2
  <2>4. ASSUME NEW i \in 1..m + 1 PROVE q[i] = g[i][q[i - 1]]
    <3>1. CASE i = m + 1
      <4>1. q[i] = last /\ q[i - 1] = r[m]
        BY <3>1
      <4> QED  BY <3>1, <4>1 DEF last
    <3>2. CASE i # m + 1
      <4>1. i \in 1..m /\ q[i] = r[i] /\ q[i - 1] = r[i - 1]
        BY <3>2
      <4> QED  BY <2>1, <4>1
    <3> QED  BY <3>1, <3>2
  <2> HIDE DEF q
  <2> QED  BY <2>3, <2>4
<1>3. Nat \subseteq T
  <2> HIDE DEF T
  <2> QED  BY <1>1, <1>2, AllNumbers
<1> QED  BY <1>3 DEF Goes

----------------------------------------------------------------------------
(* Tags, and where they end.                                               *)
Letters == STRING \union {"<", "/", "t", "d", ">"}  \* the provers do not know which strings there are

LEMMA ShortWord ==
  ASSUME NEW S, NEW a \in S, NEW b \in S, NEW c \in S
  PROVE  <<a, b, c>> \in Seq(S) /\ <<a, b, c>> # <<>> /\ Len(<<a, b, c>>) = 3
OBVIOUS

LEMMA LongWord ==
  ASSUME NEW S, NEW a \in S, NEW b \in S, NEW c \in S, NEW d \in S
  PROVE  <<a, b, c, d>> \in Seq(S) /\ <<a, b, c, d>> # <<>> /\ Len(<<a, b, c, d>>) = 4
OBVIOUS

LEMMA TagsAre ==
  /\ ThoughtOpen \in Seq(Letters) /\ ThoughtOpen # <<>> /\ Len(ThoughtOpen) = 3
  /\ CallsOpen \in Seq(Letters) /\ CallsOpen # <<>> /\ Len(CallsOpen) = 3
  /\ ThoughtClose \in Seq(Letters) /\ ThoughtClose # <<>> /\ Len(ThoughtClose) = 4
  /\ CallsClose \in Seq(Letters) /\ CallsClose # <<>> /\ Len(CallsClose) = 4
<1>1. "<" \in Letters /\ "/" \in Letters /\ "t" \in Letters /\ "d" \in Letters /\ ">" \in Letters
  BY DEF Letters
<1>2. ThoughtOpen \in Seq(Letters) /\ ThoughtOpen # <<>> /\ Len(ThoughtOpen) = 3
  BY <1>1, ShortWord, Zenon DEF ThoughtOpen
<1>3. CallsOpen \in Seq(Letters) /\ CallsOpen # <<>> /\ Len(CallsOpen) = 3
  BY <1>1, ShortWord, Zenon DEF CallsOpen
<1>4. ThoughtClose \in Seq(Letters) /\ ThoughtClose # <<>> /\ Len(ThoughtClose) = 4
  BY <1>1, LongWord, Zenon DEF ThoughtClose
<1>5. CallsClose \in Seq(Letters) /\ CallsClose # <<>> /\ Len(CallsClose) = 4
  BY <1>1, LongWord, Zenon DEF CallsClose
<1> QED  BY <1>2, <1>3, <1>4, <1>5

LEMMA TagPlace ==
  ASSUME NEW t \in Seq(Letters), NEW w \in Seq(Letters), NEW m \in Nat, Len(w) = m + 1
  PROVE  Starts(t, w) \in Nat /\ (Starts(t, w) # 0 => Starts(t, w) + m <= Len(t))
<1>1. Starts(t, w) \in 0..Len(t) /\ (Starts(t, w) # 0 => Occurs(t, Starts(t, w), w))
  BY StartsIs
<1>2. Len(t) \in Nat
  OBVIOUS
<1> QED  BY <1>1, <1>2 DEF Occurs

LEMMA TagPlaces ==
  ASSUME NEW t \in Seq(Letters)
  PROVE  /\ Starts(t, ThoughtOpen) \in Nat
         /\ Starts(t, ThoughtOpen) # 0 => Starts(t, ThoughtOpen) + 2 <= Len(t)
         /\ Starts(t, CallsOpen) \in Nat
         /\ Starts(t, CallsOpen) # 0 => Starts(t, CallsOpen) + 2 <= Len(t)
         /\ Starts(t, ThoughtClose) \in Nat
         /\ Starts(t, ThoughtClose) # 0 => Starts(t, ThoughtClose) + 3 <= Len(t)
         /\ Starts(t, CallsClose) \in Nat
         /\ Starts(t, CallsClose) # 0 => Starts(t, CallsClose) + 3 <= Len(t)
<1>1. Starts(t, ThoughtOpen) \in Nat /\ (Starts(t, ThoughtOpen) # 0 => Starts(t, ThoughtOpen) + 2 <= Len(t))
  <2>1. ThoughtOpen \in Seq(Letters) /\ 2 \in Nat /\ Len(ThoughtOpen) = 2 + 1
    BY TagsAre
  <2> QED  BY <2>1, TagPlace, Zenon
<1>2. Starts(t, CallsOpen) \in Nat /\ (Starts(t, CallsOpen) # 0 => Starts(t, CallsOpen) + 2 <= Len(t))
  <2>1. CallsOpen \in Seq(Letters) /\ 2 \in Nat /\ Len(CallsOpen) = 2 + 1
    BY TagsAre
  <2> QED  BY <2>1, TagPlace, Zenon
<1>3. Starts(t, ThoughtClose) \in Nat /\ (Starts(t, ThoughtClose) # 0 => Starts(t, ThoughtClose) + 3 <= Len(t))
  <2>1. ThoughtClose \in Seq(Letters) /\ 3 \in Nat /\ Len(ThoughtClose) = 3 + 1
    BY TagsAre
  <2> QED  BY <2>1, TagPlace, Zenon
<1>4. Starts(t, CallsClose) \in Nat /\ (Starts(t, CallsClose) # 0 => Starts(t, CallsClose) + 3 <= Len(t))
  <2>1. CallsClose \in Seq(Letters) /\ 3 \in Nat /\ Len(CallsClose) = 3 + 1
    BY TagsAre
  <2> QED  BY <2>1, TagPlace, Zenon
<1> QED  BY <1>1, <1>2, <1>3, <1>4

----------------------------------------------------------------------------
(* What a block says.                                                      *)

Kinds == {"none", "number", "string"}
BlockRecords == [open : BOOLEAN, ok : BOOLEAN, values : Seq(Kinds)]

(* Some value is a string.                                                 *)
HasString(values) == \E k \in DOMAIN values : values[k] = "string"
HasTexts(t) == \E k \in DOMAIN t : t[k] = "text"

LEMMA ParsedIs ==
  ASSUME NEW b \in BlockRecords, NEW letter
  PROVE  /\ Parsed(b, letter) \in BlockRecords
         /\ HasString(Parsed(b, letter).values) => HasString(b.values) \/ letter = "text"
<1>0. b.values \in Seq(Kinds) /\ b.open \in BOOLEAN /\ b.ok \in BOOLEAN
  BY DEF BlockRecords
<1>1. CASE letter = Unclosed
  <2>1. Parsed(b, letter) = [b EXCEPT !.open = TRUE]
    BY <1>1 DEF Parsed, Nameless, Unclosed, Closed
  <2>2. Parsed(b, letter) \in BlockRecords /\ Parsed(b, letter).values = b.values
    BY <2>1 DEF BlockRecords
  <2> QED  BY <2>2
<1>2. CASE letter = Nameless /\ ~b.open
  <2>1. Parsed(b, letter) = [b EXCEPT !.ok = FALSE]
    BY <1>2 DEF Parsed, Nameless, Unclosed, Closed
  <2>2. Parsed(b, letter) \in BlockRecords /\ Parsed(b, letter).values = b.values
    BY <2>1 DEF BlockRecords
  <2> QED  BY <2>2
<1>3. ASSUME NEW kind \in Kinds, kind = "string" => letter = "text",
             Parsed(b, letter) = [b EXCEPT !.open = FALSE, !.values = Append(@, kind)]
      PROVE  /\ Parsed(b, letter) \in BlockRecords
             /\ HasString(Parsed(b, letter).values) => HasString(b.values) \/ letter = "text"
  <2> DEFINE values == Append(b.values, kind)
  <2>1. /\ values \in Seq(Kinds) /\ Len(values) = Len(b.values) + 1 /\ values[Len(b.values) + 1] = kind
        /\ \A k \in 1..Len(b.values) : values[k] = b.values[k]
    BY <1>0
  <2>2. HasString(values) => HasString(b.values) \/ kind = "string"
    <3> HIDE DEF values
    <3> SUFFICES ASSUME NEW k \in 1..Len(b.values) + 1, values[k] = "string"
                 PROVE  HasString(b.values) \/ kind = "string"
      BY <2>1 DEF HasString
    <3>1. CASE k = Len(b.values) + 1
      BY <2>1, <3>1
    <3>2. CASE k # Len(b.values) + 1
      <4>1. k \in DOMAIN b.values /\ b.values[k] = "string"
        BY <1>0, <2>1, <3>2
      <4> QED  BY <4>1 DEF HasString
    <3> QED  BY <3>1, <3>2
  <2> HIDE DEF values
  <2>3. Parsed(b, letter) = [b EXCEPT !.open = FALSE, !.values = values]
    BY <1>3 DEF values
  <2>4. Parsed(b, letter) \in BlockRecords /\ Parsed(b, letter).values = values
    BY <2>1, <2>3 DEF BlockRecords
  <2> QED  BY <1>3, <2>2, <2>4
<1>4. CASE letter = Nameless /\ b.open
  <2>1. Parsed(b, letter) = [b EXCEPT !.open = FALSE, !.values = Append(@, "none")]
    BY <1>4 DEF Parsed, Nameless, Unclosed, Closed
  <2> QED  BY <1>3, <2>1 DEF Kinds
<1>5. CASE letter \in Closed
  <2> DEFINE kind == PickParamValue(letter)
  <2>1. kind \in Kinds /\ (kind = "string" => letter = "text")
    BY DEF PickParamValue, TryParseScalar, Kinds
  <2>2. Parsed(b, letter) = [b EXCEPT !.open = FALSE, !.values = Append(@, kind)]
    BY <1>5 DEF Parsed, Nameless, Unclosed, Closed
  <2> HIDE DEF kind
  <2> QED  BY <1>3, <2>1, <2>2
<1>6. CASE letter # Unclosed /\ letter # Nameless /\ letter \notin Closed
  <2>1. Parsed(b, letter) = b
    BY <1>6 DEF Parsed
  <2> QED  BY <2>1
<1> QED  BY <1>1, <1>2, <1>4, <1>5, <1>6

(* f reads a block letter by letter.                                       *)
Reads(f, inner) ==
    f = [n \in 0..Len(inner) |->
           IF n = 0 THEN [open |-> FALSE, ok |-> TRUE, values |-> <<>>]
           ELSE Parsed(f[n - 1], inner[n])]

LEMMA BlockIs ==
  ASSUME NEW inner \in Seq(Letters)
  PROVE  /\ ParsedBlock(inner) \in BlockRecords
         /\ HasString(ParsedBlock(inner).values) => HasTexts(inner)
<1> DEFINE f == CHOOSE h : Reads(h, inner)
           none == [open |-> FALSE, ok |-> TRUE, values |-> <<>>]
           n == Len(inner)
<1>0. n \in Nat /\ none \in BlockRecords
  BY DEF BlockRecords
<1>1. ParsedBlock(inner) = f[n]
  BY Zenon DEF ParsedBlock, Reads
<1>2. \E h : Reads(h, inner)
  <2> DEFINE g == [i \in 1..n |-> [x \in BlockRecords |-> Parsed(x, inner[i])]]
  <2>1. \A i \in 1..n : \A x \in BlockRecords : g[i][x] = Parsed(x, inner[i])
    OBVIOUS
  <2>2. g \in [1..n -> [BlockRecords -> BlockRecords]]
    <3>1. \A i \in 1..n : \A x \in BlockRecords : Parsed(x, inner[i]) \in BlockRecords
      BY ParsedIs
    <3> QED  BY <3>1
  <2> HIDE DEF g, none, n
  <2>3. PICK r \in [0..n -> BlockRecords] : r[0] = none /\ \A i \in 1..n : r[i] = g[i][r[i - 1]]
    <3>1. \E r : Goes(r, BlockRecords, none, n, g)
      BY <1>0, <2>2, Iterates
    <3> QED  BY <3>1 DEF Goes
  <2>4. ASSUME NEW i \in 0..n PROVE r[i] = IF i = 0 THEN none ELSE Parsed(r[i - 1], inner[i])
    <3>1. CASE i = 0
      BY <2>3, <3>1
    <3>2. CASE i # 0
      <4>1. i \in 1..n /\ r[i - 1] \in BlockRecords
        BY <1>0, <3>2
      <4> QED  BY <2>1, <2>3, <3>2, <4>1
    <3> QED  BY <3>1, <3>2
  <2>5. r = [i \in 0..n |-> IF i = 0 THEN none ELSE Parsed(r[i - 1], inner[i])]
    BY <2>4
  <2> QED  BY <2>5, Zenon DEF Reads, none, n
<1>3. Reads(f, inner)
  BY <1>2, Zenon
<1>4. \A i \in 0..n : f[i] = IF i = 0 THEN none ELSE Parsed(f[i - 1], inner[i])
  BY <1>3, Zenon DEF Reads
<1> HIDE DEF f, none
<1> DEFINE T == {i \in Nat : i <= n => f[i] \in BlockRecords /\ (HasString(f[i].values) => HasTexts(inner))}
<1>5. 0 \in T
  <2>1. f[0] = none /\ none.values = <<>>
    BY <1>0, <1>4 DEF none
  <2> QED  BY <1>0, <2>1 DEF HasString
<1>6. ASSUME NEW i \in Nat, i \in T PROVE i + 1 \in T
  <2> SUFFICES ASSUME i + 1 <= n
               PROVE  f[i + 1] \in BlockRecords /\ (HasString(f[i + 1].values) => HasTexts(inner))
    OBVIOUS
  <2>1. i + 1 \in 0..n /\ i + 1 # 0 /\ i + 1 - 1 = i /\ i + 1 \in DOMAIN inner
    BY <1>0
  <2>2. f[i + 1] = Parsed(f[i], inner[i + 1])
    BY <1>4, <2>1
  <2>3. f[i] \in BlockRecords /\ (HasString(f[i].values) => HasTexts(inner))
    BY <1>6, <1>0
  <2>4. f[i + 1] \in BlockRecords /\ (HasString(f[i + 1].values) => HasString(f[i].values) \/ inner[i + 1] = "text")
    BY <2>2, <2>3, ParsedIs
  <2> QED  BY <2>1, <2>3, <2>4 DEF HasTexts
<1>7. n \in T
  <2> HIDE DEF T
  <2> QED  BY <1>0, <1>5, <1>6, AllNumbers
<1> QED  BY <1>0, <1>1, <1>7

----------------------------------------------------------------------------
(* What a text means.                                                      *)

MeansRecords == [visible : Seq(Letters), reasoning : Seq(Letters), values : Seq(Kinds)]

LEMMA MeansIs ==
  ASSUME NEW v \in Seq(Letters), NEW r \in Seq(Letters), NEW k \in Seq(Kinds)
  PROVE  /\ Means(v, r, k) \in MeansRecords
         /\ Means(v, r, k).visible = v /\ Means(v, r, k).reasoning = r /\ Means(v, r, k).values = k
BY DEF Means, MeansRecords

LEMMA ThenIs ==
  ASSUME NEW m \in MeansRecords, NEW l \in MeansRecords
  PROVE  /\ Then(m, l) \in MeansRecords
         /\ Then(m, l).visible = m.visible \o l.visible
         /\ Then(m, l).reasoning = m.reasoning \o l.reasoning
         /\ Then(m, l).values = m.values \o l.values
<1> DEFINE v == m.visible \o l.visible
           r == m.reasoning \o l.reasoning
           k == m.values \o l.values
<1>1. v \in Seq(Letters) /\ r \in Seq(Letters) /\ k \in Seq(Kinds)
  BY DEF MeansRecords
<1>2. Then(m, l) = Means(v, r, k)
  BY Zenon DEF Then
<1> HIDE DEF v, r, k
<1>3. /\ Means(v, r, k) \in MeansRecords
      /\ Means(v, r, k).visible = v /\ Means(v, r, k).reasoning = r /\ Means(v, r, k).values = k
  BY <1>1, MeansIs
<1> QED  BY <1>2, <1>3 DEF v, r, k

LEMMA SameMeaning ==
  ASSUME NEW m \in MeansRecords, NEW l \in MeansRecords,
         m.visible = l.visible, m.reasoning = l.reasoning, m.values = l.values
  PROVE  m = l
BY DEF MeansRecords

LEMMA ThenThen ==
  ASSUME NEW a \in MeansRecords, NEW b \in MeansRecords, NEW c \in MeansRecords
  PROVE  Then(Then(a, b), c) = Then(a, Then(b, c))
<1> DEFINE l == Then(Then(a, b), c)
           r == Then(a, Then(b, c))
<1>1. /\ a.visible \in Seq(Letters) /\ b.visible \in Seq(Letters) /\ c.visible \in Seq(Letters)
      /\ a.reasoning \in Seq(Letters) /\ b.reasoning \in Seq(Letters) /\ c.reasoning \in Seq(Letters)
      /\ a.values \in Seq(Kinds) /\ b.values \in Seq(Kinds) /\ c.values \in Seq(Kinds)
  BY DEF MeansRecords
<1> DEFINE ab == Then(a, b)
           bc == Then(b, c)
<1>2. /\ ab \in MeansRecords /\ ab.visible = a.visible \o b.visible
      /\ ab.reasoning = a.reasoning \o b.reasoning /\ ab.values = a.values \o b.values
  BY ThenIs
<1>3. /\ bc \in MeansRecords /\ bc.visible = b.visible \o c.visible
      /\ bc.reasoning = b.reasoning \o c.reasoning /\ bc.values = b.values \o c.values
  BY ThenIs
<1> HIDE DEF ab, bc
<1>4. /\ l \in MeansRecords /\ l.visible = ab.visible \o c.visible
      /\ l.reasoning = ab.reasoning \o c.reasoning /\ l.values = ab.values \o c.values
  BY <1>2, ThenIs DEF ab
<1>5. /\ r \in MeansRecords /\ r.visible = a.visible \o bc.visible
      /\ r.reasoning = a.reasoning \o bc.reasoning /\ r.values = a.values \o bc.values
  BY <1>3, ThenIs DEF bc
<1> HIDE DEF l, r
<1>6. l.visible = r.visible
  <2>1. (a.visible \o b.visible) \o c.visible = a.visible \o (b.visible \o c.visible)
    <3> DEFINE x == a.visible
               y == b.visible
               z == c.visible
    <3>1. x \in Seq(Letters) /\ y \in Seq(Letters) /\ z \in Seq(Letters)
      BY <1>1
    <3> HIDE DEF x, y, z
    <3>2. (x \o y) \o z = x \o (y \o z)
      BY <3>1
    <3> QED  BY <3>2 DEF x, y, z
  <2> QED  BY <1>2, <1>3, <1>4, <1>5, <2>1
<1>7. l.reasoning = r.reasoning
  <2>1. (a.reasoning \o b.reasoning) \o c.reasoning = a.reasoning \o (b.reasoning \o c.reasoning)
    <3> DEFINE x == a.reasoning
               y == b.reasoning
               z == c.reasoning
    <3>1. x \in Seq(Letters) /\ y \in Seq(Letters) /\ z \in Seq(Letters)
      BY <1>1
    <3> HIDE DEF x, y, z
    <3>2. (x \o y) \o z = x \o (y \o z)
      BY <3>1
    <3> QED  BY <3>2 DEF x, y, z
  <2> QED  BY <1>2, <1>3, <1>4, <1>5, <2>1
<1>8. l.values = r.values
  <2>1. (a.values \o b.values) \o c.values = a.values \o (b.values \o c.values)
    <3> DEFINE x == a.values
               y == b.values
               z == c.values
    <3>1. x \in Seq(Kinds) /\ y \in Seq(Kinds) /\ z \in Seq(Kinds)
      BY <1>1
    <3> HIDE DEF x, y, z
    <3>2. (x \o y) \o z = x \o (y \o z)
      BY <3>1
    <3> QED  BY <3>2 DEF x, y, z
  <2> QED  BY <1>2, <1>3, <1>4, <1>5, <2>1
<1>9. l = r
  BY <1>4, <1>5, <1>6, <1>7, <1>8, SameMeaning
<1> QED  BY <1>9, Zenon DEF l, r

LEMMA NothingThen ==
  ASSUME NEW m \in MeansRecords
  PROVE  Then(Means(<<>>, <<>>, <<>>), m) = m
<1> DEFINE e == <<>>
           n == Means(e, e, e)
           l == Then(n, m)
<1>1. n \in MeansRecords /\ n.visible = e /\ n.reasoning = e /\ n.values = e
  <2>1. e \in Seq(Letters) /\ e \in Seq(Kinds)
    BY EmptySeq
  <2> HIDE DEF e
  <2> QED  BY <2>1, MeansIs
<1> HIDE DEF n
<1>2. /\ l \in MeansRecords /\ l.visible = <<>> \o m.visible
      /\ l.reasoning = <<>> \o m.reasoning /\ l.values = <<>> \o m.values
  BY <1>1, ThenIs, ZenonT(30)
<1>3. m.visible \in Seq(Letters) /\ m.reasoning \in Seq(Letters) /\ m.values \in Seq(Kinds)
  BY DEF MeansRecords
<1> HIDE DEF l
<1>4. l.visible = m.visible /\ l.reasoning = m.reasoning /\ l.values = m.values
  BY <1>2, <1>3
<1>5. l = m
  BY <1>2, <1>4, SameMeaning
<1> QED  BY <1>5, Zenon DEF l, n, e

(* f and g are the same, and meanings, for less than n letters.            *)
Agree(f, g, n) == \A i \in 0..n - 1 : f[i] \in MeansRecords /\ g[i] = f[i]

LEMMA ThoughtMeansIs ==
  ASSUME NEW t \in Seq(Letters), NEW f, NEW g, Agree(f, g, Len(t))
  PROVE  ThoughtMeans(t, f) \in MeansRecords /\ ThoughtMeans(t, g) = ThoughtMeans(t, f)
<1> DEFINE end == Starts(t, ThoughtClose)
           n == Len(t) - (end + 3)
<1>1. end \in Nat /\ (end # 0 => end + 3 <= Len(t)) /\ Len(t) \in Nat
  BY TagPlaces
<1>2. CASE end = 0
  BY <1>2, MeansIs, EmptySeq DEF ThoughtMeans
<1>3. CASE end # 0
  <2>1. f[n] \in MeansRecords /\ g[n] = f[n]
    <3>1. n \in 0..Len(t) - 1
      BY <1>1, <1>3
    <3> QED  BY <3>1 DEF Agree
  <2>2. SubSeq(t, 1, end - 1) \in Seq(Letters)
    BY <1>1, <1>3, UpTo
  <2>3. Means(<<>>, SubSeq(t, 1, end - 1), <<>>) \in MeansRecords
    BY <2>2, MeansIs, EmptySeq
  <2>4. ThoughtMeans(t, f) = Then(Means(<<>>, SubSeq(t, 1, end - 1), <<>>), f[n])
        /\ ThoughtMeans(t, g) = Then(Means(<<>>, SubSeq(t, 1, end - 1), <<>>), g[n])
    BY <1>3, Zenon DEF ThoughtMeans
  <2> QED  BY <2>1, <2>3, <2>4, ThenIs
<1> QED  BY <1>2, <1>3

(* What a closed block gives: its calls, or itself.                        *)
BlockGives(inner) ==
    IF ParsedBlock(inner).ok THEN Means(<<>>, <<>>, ParsedBlock(inner).values)
    ELSE Means(inner \o CallsClose, <<>>, <<>>)

LEMMA BlockGivesIs ==
  ASSUME NEW inner \in Seq(Letters) PROVE BlockGives(inner) \in MeansRecords
<1>1. ParsedBlock(inner) \in BlockRecords
  BY BlockIs
<1>2. ParsedBlock(inner).values \in Seq(Kinds) /\ inner \o CallsClose \in Seq(Letters)
  BY <1>1, TagsAre DEF BlockRecords
<1> QED  BY <1>2, MeansIs, EmptySeq DEF BlockGives

LEMMA BlockMeansIs ==
  ASSUME NEW t \in Seq(Letters), NEW f, NEW g, Agree(f, g, Len(t))
  PROVE  BlockMeans(t, f) \in MeansRecords /\ BlockMeans(t, g) = BlockMeans(t, f)
<1> DEFINE end == Starts(t, CallsClose)
           n == Len(t) - (end + 3)
           inner == SubSeq(t, 1, end - 1)
<1>1. end \in Nat /\ (end # 0 => end + 3 <= Len(t)) /\ Len(t) \in Nat
  BY TagPlaces
<1>2. CASE end = 0
  <2>1. CallsOpen \o t \in Seq(Letters)
    BY TagsAre
  <2> QED  BY <1>2, <2>1, MeansIs, EmptySeq DEF BlockMeans
<1>3. CASE end # 0
  <2>1. f[n] \in MeansRecords /\ g[n] = f[n]
    <3>1. n \in 0..Len(t) - 1
      BY <1>1, <1>3
    <3> QED  BY <3>1 DEF Agree
  <2>2. inner \in Seq(Letters)
    BY <1>1, <1>3, UpTo
  <2>3. BlockGives(inner) \in MeansRecords
    BY <2>2, BlockGivesIs
  <2>4. BlockMeans(t, f) = Then(BlockGives(inner), f[n]) /\ BlockMeans(t, g) = Then(BlockGives(inner), g[n])
    BY <1>3, Zenon DEF BlockMeans, BlockGives
  <2> QED  BY <2>1, <2>3, <2>4, ThenIs
<1> QED  BY <1>2, <1>3

LEMMA TextMeansIs ==
  ASSUME NEW t \in Seq(Letters), NEW f, NEW g, Agree(f, g, Len(t))
  PROVE  TextMeans(t, f) \in MeansRecords /\ TextMeans(t, g) = TextMeans(t, f)
<1> DEFINE thought == Starts(t, ThoughtOpen)
           block == Starts(t, CallsOpen)
           isThought == thought # 0 /\ (block = 0 \/ thought < block)
           at == IF isThought THEN thought ELSE block
           r == After(t, at + 2)
           shown == Means(SubSeq(t, 1, at - 1), <<>>, <<>>)
<1>1. /\ thought \in Nat /\ (thought # 0 => thought + 2 <= Len(t))
      /\ block \in Nat /\ (block # 0 => block + 2 <= Len(t)) /\ Len(t) \in Nat
  BY TagPlaces
<1>2. at \in Nat /\ (at # 0 => at + 2 <= Len(t))
  BY <1>1
<1> HIDE DEF thought, block, isThought
<1>3. CASE at = 0
  <2>1. TextMeans(t, f) = Means(t, <<>>, <<>>) /\ TextMeans(t, g) = Means(t, <<>>, <<>>)
    BY <1>3, Zenon DEF TextMeans, thought, block, isThought
  <2>2. Means(t, <<>>, <<>>) \in MeansRecords
    BY MeansIs, EmptySeq
  <2> QED  BY <2>1, <2>2
<1>4. CASE at # 0
  <2>1. r \in Seq(Letters) /\ Len(r) <= Len(t) /\ Len(r) \in Nat
    <3>1. at + 2 \in 0..Len(t)
      BY <1>2, <1>4
    <3> HIDE DEF at
    <3>2. r \in Seq(Letters) /\ Len(r) = Len(t) - (at + 2)
      BY <3>1, AfterIs
    <3> QED  BY <1>1, <1>2, <3>2
  <2>2. shown \in MeansRecords
    <3>1. at - 1 \in 0..Len(t)
      BY <1>1, <1>2, <1>4
    <3> QED  BY <3>1, UpTo, MeansIs, EmptySeq
  <2>3. Agree(f, g, Len(r))
    <3> HIDE DEF r
    <3> QED  BY <1>1, <2>1 DEF Agree
  <2>4. /\ TextMeans(t, f) = Then(shown, IF isThought THEN ThoughtMeans(r, f) ELSE BlockMeans(r, f))
        /\ TextMeans(t, g) = Then(shown, IF isThought THEN ThoughtMeans(r, g) ELSE BlockMeans(r, g))
    BY <1>4, Zenon DEF TextMeans, thought, block, isThought
  <2> HIDE DEF r, shown, at
  <2>5. /\ ThoughtMeans(r, f) \in MeansRecords /\ ThoughtMeans(r, g) = ThoughtMeans(r, f)
        /\ BlockMeans(r, f) \in MeansRecords /\ BlockMeans(r, g) = BlockMeans(r, f)
    BY <2>1, <2>3, ThoughtMeansIs, BlockMeansIs
  <2>6. CASE isThought
    BY <2>2, <2>4, <2>5, <2>6, ThenIs
  <2>7. CASE ~isThought
    BY <2>2, <2>4, <2>5, <2>7, ThenIs
  <2> QED  BY <2>6, <2>7
<1> QED  BY <1>3, <1>4

(* f says of up to n last letters of a text what they mean.                *)
Understands(f, t, n) == f = [k \in 0..n |-> TextMeans(After(t, Len(t) - k), f)]

Understood(t) == CHOOSE f : Understands(f, t, Len(t))

LEMMA UnderstandsIs ==
  ASSUME NEW t \in Seq(Letters), NEW n \in 0..Len(t), NEW f, Understands(f, t, n)
  PROVE  \A k \in 0..n : f[k] \in MeansRecords /\ f[k] = TextMeans(After(t, Len(t) - k), f)
<1>0. Len(t) \in Nat /\ n \in Nat /\ n <= Len(t)
  OBVIOUS
<1>1. \A k \in 0..n : f[k] = TextMeans(After(t, Len(t) - k), f)
  BY Zenon DEF Understands
<1> DEFINE T == {k \in Nat : k <= n + 1 => Agree(f, f, k)}
<1>2. 0 \in T
  BY DEF Agree
<1>3. ASSUME NEW k \in Nat, k \in T PROVE k + 1 \in T
  <2> SUFFICES ASSUME k + 1 <= n + 1 PROVE Agree(f, f, k + 1)
    OBVIOUS
  <2>1. Agree(f, f, k)
    BY <1>0, <1>3
  <2> DEFINE c == Len(t) - k
             r == After(t, c)
  <2>2. c \in 0..Len(t) /\ Len(t) - c = k
    BY <1>0
  <2>3. r \in Seq(Letters) /\ Len(r) = k
    <3> HIDE DEF c
    <3>1. After(t, c) \in Seq(Letters) /\ Len(After(t, c)) = Len(t) - c
      BY <2>2, AfterIs
    <3> QED  BY <2>2, <3>1
  <2>4. f[k] = TextMeans(r, f)
    BY <1>0, <1>1
  <2> HIDE DEF r
  <2>5. f[k] \in MeansRecords
    BY <2>1, <2>3, <2>4, TextMeansIs
  <2> QED  BY <2>1, <2>5 DEF Agree
<1>4. n + 1 \in T
  <2> HIDE DEF T
  <2> QED  BY <1>0, <1>2, <1>3, AllNumbers
<1>5. Agree(f, f, n + 1)
  BY <1>0, <1>4
<1> QED  BY <1>0, <1>1, <1>5 DEF Agree

LEMMA SomeUnderstand ==
  ASSUME NEW t \in Seq(Letters) PROVE \E f : Understands(f, t, Len(t))
<1>0. Len(t) \in Nat
  OBVIOUS
<1> DEFINE T == {n \in Nat : n <= Len(t) => \E f : Understands(f, t, n)}
<1>a. ASSUME NEW n \in 0..Len(t), NEW f,
             \A i \in 0..n - 1 : f[i] \in MeansRecords /\ f[i] = TextMeans(After(t, Len(t) - i), f)
      PROVE  \E g : Understands(g, t, n)
  <2> DEFINE last == TextMeans(After(t, Len(t) - n), f)
             g == [k \in 0..n |-> IF k = n THEN last ELSE f[k]]
  <2>1. \A k \in 0..n : g[k] = IF k = n THEN last ELSE f[k]
    OBVIOUS
  <2>2. g = [k \in 0..n |-> g[k]]
    OBVIOUS
  <2> HIDE DEF g
  <2>3. ASSUME NEW k \in 0..n PROVE g[k] = TextMeans(After(t, Len(t) - k), g)
    <3> DEFINE c == Len(t) - k
               r == After(t, c)
    <3>1. c \in 0..Len(t) /\ Len(t) - c = k
      BY <1>0
    <3>2. r \in Seq(Letters) /\ Len(r) = k
      <4> HIDE DEF c
      <4>1. After(t, c) \in Seq(Letters) /\ Len(After(t, c)) = Len(t) - c
        BY <3>1, AfterIs
      <4> QED  BY <3>1, <4>1
    <3>3. Agree(f, g, k)
      <4>1. \A i \in 0..k - 1 : i \in 0..n - 1 /\ i \in 0..n /\ i # n
        OBVIOUS
      <4> QED  BY <1>a, <2>1, <4>1 DEF Agree
    <3>4. g[k] = TextMeans(r, f)
      <4>1. CASE k = n
        BY <2>1, <4>1
      <4>2. CASE k # n
        <5>1. k \in 0..n - 1
          BY <4>2
        <5> QED  BY <1>a, <2>1, <4>2, <5>1
      <4> QED  BY <4>1, <4>2
    <3> HIDE DEF r
    <3>5. TextMeans(r, g) = TextMeans(r, f)
      BY <3>2, <3>3, TextMeansIs
    <3>6. g[k] = TextMeans(r, g)
      BY <3>4, <3>5
    <3> QED  BY <3>6, Zenon DEF r
  <2>4. [k \in 0..n |-> g[k]] = [k \in 0..n |-> TextMeans(After(t, Len(t) - k), g)]
    BY <2>3, Zenon
  <2>5. Understands(g, t, n)
    BY <2>2, <2>4, Zenon DEF Understands
  <2> QED  BY <2>5
<1>1. 0 \in T
  <2>1. \A f : \A i \in 0..0 - 1 : f[i] \in MeansRecords /\ f[i] = TextMeans(After(t, Len(t) - i), f)
    OBVIOUS
  <2>2. 0 \in 0..Len(t)
    BY <1>0
  <2>3. \E g : Understands(g, t, 0)
    BY <1>a, <2>1, <2>2, Zenon
  <2> QED  BY <2>3
<1>2. ASSUME NEW n \in Nat, n \in T PROVE n + 1 \in T
  <2> SUFFICES ASSUME n + 1 <= Len(t) PROVE \E f : Understands(f, t, n + 1)
    OBVIOUS
  <2>1. n \in 0..Len(t) /\ n + 1 \in 0..Len(t) /\ n + 1 - 1 = n
    BY <1>0
  <2>2. PICK f : Understands(f, t, n)
    BY <1>2, <2>1
  <2>3. \A k \in 0..n : f[k] \in MeansRecords /\ f[k] = TextMeans(After(t, Len(t) - k), f)
    BY <2>1, <2>2, UnderstandsIs
  <2>4. \A k \in 0..(n + 1) - 1 : f[k] \in MeansRecords /\ f[k] = TextMeans(After(t, Len(t) - k), f)
    BY <2>1, <2>3
  <2> QED  BY <1>a, <2>1, <2>4, Zenon
<1>3. Len(t) \in T
  <2> HIDE DEF T
  <2> QED  BY <1>0, <1>1, <1>2, AllNumbers
<1> QED  BY <1>0, <1>3

LEMMA UnderstoodIs ==
  ASSUME NEW t \in Seq(Letters)
  PROVE  /\ Meaning(t) = Understood(t)[Len(t)]
         /\ \A k \in 0..Len(t) : /\ Understood(t)[k] \in MeansRecords
                                 /\ Understood(t)[k] = TextMeans(After(t, Len(t) - k), Understood(t))
<1>1. Understands(Understood(t), t, Len(t))
  BY SomeUnderstand, Zenon DEF Understood
<1>2. Meaning(t) = Understood(t)[Len(t)]
  BY Zenon DEF Meaning, Understood, Understands
<1>3. Len(t) \in 0..Len(t)
  OBVIOUS
<1> QED  BY <1>1, <1>2, <1>3, UnderstandsIs

----------------------------------------------------------------------------
(* A buffer b has the first letters of s. What s means can be read from b  *)
(* as far as b goes.                                                       *)
Begins(b, s) == Len(b) <= Len(s) /\ \A i \in 1..Len(b) : s[i] = b[i]

LEMMA SamePrefix ==
  ASSUME NEW S, NEW b \in Seq(S), NEW s \in Seq(S), Begins(b, s), NEW n \in 0..Len(b)
  PROVE  SubSeq(s, 1, n) = SubSeq(b, 1, n)
<1> DEFINE u == SubSeq(s, 1, n)
           v == SubSeq(b, 1, n)
<1>0. n \in 0..Len(s) /\ \A i \in 1..n : s[i] = b[i]
  BY DEF Begins
<1>1. u \in Seq(S) /\ Len(u) = n /\ \A i \in 1..n : u[i] = s[i]
  BY <1>0, UpTo
<1>2. v \in Seq(S) /\ Len(v) = n /\ \A i \in 1..n : v[i] = b[i]
  BY UpTo
<1> HIDE DEF u, v
<1>3. u = v
  BY <1>0, <1>1, <1>2, SeqEqual
<1> QED  BY <1>3, Zenon DEF u, v

(* A beginning can be cut off first.                                       *)
LEMMA CutPrefix ==
  ASSUME NEW S, NEW s \in Seq(S), NEW k \in 0..Len(s), NEW c \in 0..k
  PROVE  SubSeq(s, 1, k) = SubSeq(s, 1, c) \o SubSeq(After(s, c), 1, k - c)
<1> DEFINE r == After(s, c)
           u == SubSeq(s, 1, k)
           v == SubSeq(s, 1, c)
           w == SubSeq(r, 1, k - c)
<1>0. c \in 0..Len(s) /\ k - c \in 0..Len(s) - c /\ Len(s) \in Nat
  OBVIOUS
<1>1. r \in Seq(S) /\ Len(r) = Len(s) - c /\ \A i \in 1..Len(s) - c : r[i] = s[c + i]
  BY <1>0, AfterIs
<1>2. u \in Seq(S) /\ Len(u) = k /\ \A i \in 1..k : u[i] = s[i]
  BY UpTo
<1>3. v \in Seq(S) /\ Len(v) = c /\ \A i \in 1..c : v[i] = s[i]
  BY <1>0, UpTo
<1> HIDE DEF r
<1>4. w \in Seq(S) /\ Len(w) = k - c /\ \A i \in 1..k - c : w[i] = r[i]
  <2>1. k - c \in 0..Len(r)
    BY <1>0, <1>1
  <2> QED  BY <1>1, <2>1, UpTo
<1> HIDE DEF u, v, w
<1> DEFINE x == v \o w
<1>5. x \in Seq(S) /\ Len(x) = k /\ \A i \in 1..k : x[i] = IF i <= c THEN v[i] ELSE w[i - c]
  BY <1>0, <1>3, <1>4
<1> HIDE DEF x
<1>6. ASSUME NEW i \in 1..k PROVE u[i] = x[i]
  <2>1. CASE i <= c
    BY <1>2, <1>3, <1>5, <2>1
  <2>2. CASE i > c
    <3>1. i - c \in 1..k - c /\ i - c \in 1..Len(s) - c /\ c + (i - c) = i /\ ~(i <= c)
      BY <1>0, <2>2
    <3>2. x[i] = w[i - c] /\ w[i - c] = r[i - c] /\ r[i - c] = s[c + (i - c)]
      BY <1>1, <1>4, <1>5, <3>1
    <3> QED  BY <1>2, <3>1, <3>2
  <2>3. i <= c \/ i > c
    OBVIOUS
  <2> QED  BY <2>1, <2>2, <2>3
<1>7. u = x
  BY <1>2, <1>5, <1>6, SeqEqual
<1> QED  BY <1>7, Zenon DEF r, u, v, w, x

(* A meaning one part after the other.                                     *)
LEMMA Adds ==
  ASSUME NEW v \in Seq(Letters), NEW x \in Seq(Letters), NEW r \in Seq(Letters),
         NEW y \in Seq(Letters), NEW k \in Seq(Kinds), NEW z \in Seq(Kinds), NEW l \in MeansRecords
  PROVE  Then(Means(v, r, k), Then(Means(x, y, z), l)) = Then(Means(v \o x, r \o y, k \o z), l)
<1> DEFINE a == Means(v, r, k)
           b == Means(x, y, z)
<1>1. a \in MeansRecords /\ a.visible = v /\ a.reasoning = r /\ a.values = k
  BY MeansIs
<1>2. b \in MeansRecords /\ b.visible = x /\ b.reasoning = y /\ b.values = z
  BY MeansIs
<1> HIDE DEF a, b
<1>3. Then(a, b) = Means(v \o x, r \o y, k \o z)
  BY <1>1, <1>2, Zenon DEF Then
<1>4. Then(Then(a, b), l) = Then(a, Then(b, l))
  BY <1>1, <1>2, ThenThen
<1>5. Then(Means(v \o x, r \o y, k \o z), l) = Then(a, Then(b, l))
  BY <1>3, <1>4, Zenon
<1> QED  BY <1>5, Zenon DEF a, b

(* The provers find a variable more easily than the empty sequence.        *)
Empties == {<<>>}

LEMMA AddsVisible ==
  ASSUME NEW v \in Seq(Letters), NEW r \in Seq(Letters), NEW k \in Seq(Kinds), NEW x \in Seq(Letters),
         NEW l \in MeansRecords, NEW e \in Empties
  PROVE  Then(Means(v, r, k), Then(Means(x, e, e), l)) = Then(Means(v \o x, r, k), l)
<1>1. e \in Seq(Letters) /\ e \in Seq(Kinds)
  BY EmptySeq DEF Empties
<1>2. Then(Means(v, r, k), Then(Means(x, e, e), l)) = Then(Means(v \o x, r \o e, k \o e), l)
  BY <1>1, Adds
<1>3. v \o e = v /\ r \o e = r /\ k \o e = k
  BY DEF Empties
<1> QED  BY <1>2, <1>3

LEMMA AddsReasoning ==
  ASSUME NEW v \in Seq(Letters), NEW r \in Seq(Letters), NEW k \in Seq(Kinds), NEW x \in Seq(Letters),
         NEW l \in MeansRecords, NEW e \in Empties
  PROVE  Then(Means(v, r, k), Then(Means(e, x, e), l)) = Then(Means(v, r \o x, k), l)
<1>1. e \in Seq(Letters) /\ e \in Seq(Kinds)
  BY EmptySeq DEF Empties
<1>2. Then(Means(v, r, k), Then(Means(e, x, e), l)) = Then(Means(v \o e, r \o x, k \o e), l)
  BY <1>1, Adds
<1>3. v \o e = v /\ r \o e = r /\ k \o e = k
  BY DEF Empties
<1> QED  BY <1>2, <1>3

LEMMA AddsValues ==
  ASSUME NEW v \in Seq(Letters), NEW r \in Seq(Letters), NEW k \in Seq(Kinds), NEW x \in Seq(Kinds),
         NEW l \in MeansRecords, NEW e \in Empties
  PROVE  Then(Means(v, r, k), Then(Means(e, e, x), l)) = Then(Means(v, r, k \o x), l)
<1>1. e \in Seq(Letters) /\ e \in Seq(Kinds)
  BY EmptySeq DEF Empties
<1>2. Then(Means(v, r, k), Then(Means(e, e, x), l)) = Then(Means(v \o e, r \o e, k \o x), l)
  BY <1>1, Adds
<1>3. v \o e = v /\ r \o e = r /\ k \o e = k
  BY DEF Empties
<1> QED  BY <1>2, <1>3

LEMMA InText ==
  ASSUME NEW b \in Seq(Letters), NEW s \in Seq(Letters), Begins(b, s), NEW f
  PROVE  LET t == Starts(b, ThoughtOpen)
             d == Starts(b, CallsOpen)
             thought == t # 0 /\ (d = 0 \/ t < d)
             at == IF thought THEN t ELSE d
         IN at # 0 => TextMeans(s, f) = Then(Means(SubSeq(b, 1, at - 1), <<>>, <<>>),
                                             IF thought THEN ThoughtMeans(After(s, at + 2), f)
                                             ELSE BlockMeans(After(s, at + 2), f))
<1> DEFINE t == Starts(b, ThoughtOpen)
           d == Starts(b, CallsOpen)
           thought == t # 0 /\ (d = 0 \/ t < d)
           at == IF thought THEN t ELSE d
           t1 == Starts(s, ThoughtOpen)
           d1 == Starts(s, CallsOpen)
           thought1 == t1 # 0 /\ (d1 = 0 \/ t1 < d1)
           at1 == IF thought1 THEN t1 ELSE d1
<1> SUFFICES ASSUME at # 0
             PROVE  TextMeans(s, f) = Then(Means(SubSeq(b, 1, at - 1), <<>>, <<>>),
                                           IF thought THEN ThoughtMeans(After(s, at + 2), f)
                                           ELSE BlockMeans(After(s, at + 2), f))
  BY Zenon
<1>0. Len(b) \in Nat /\ Len(s) \in Nat
  OBVIOUS
<1>1. /\ t \in Nat /\ (t # 0 => t + 2 <= Len(b)) /\ d \in Nat /\ (d # 0 => d + 2 <= Len(b))
      /\ t1 \in Nat /\ d1 \in Nat
  BY TagPlaces
<1>2. (t # 0 => t1 = t) /\ (t = 0 /\ t1 # 0 => t1 + 3 - 1 > Len(b))
  BY StartsInLonger, TagsAre, ZenonT(30) DEF Begins
<1>3. (d # 0 => d1 = d) /\ (d = 0 /\ d1 # 0 => d1 + 3 - 1 > Len(b))
  BY StartsInLonger, TagsAre, ZenonT(30) DEF Begins
<1> HIDE DEF t, d, t1, d1
<1>4. at1 = at /\ thought1 = thought /\ at \in Nat /\ at + 2 <= Len(b)
  BY <1>0, <1>1, <1>2, <1>3
<1>5. TextMeans(s, f) = Then(Means(SubSeq(s, 1, at1 - 1), <<>>, <<>>),
                             IF thought1 THEN ThoughtMeans(After(s, at1 + 2), f)
                             ELSE BlockMeans(After(s, at1 + 2), f))
  <2>1. at1 # 0
    BY <1>4
  <2> QED  BY <2>1, Zenon DEF TextMeans, t1, d1
<1>6. SubSeq(s, 1, at - 1) = SubSeq(b, 1, at - 1)
  <2>1. at - 1 \in 0..Len(b)
    BY <1>0, <1>4
  <2> QED  BY <2>1, SamePrefix
<1> HIDE DEF at, at1, thought, thought1
<1> QED  BY <1>4, <1>5, <1>6, Zenon

LEMMA InThought ==
  ASSUME NEW b \in Seq(Letters), NEW s \in Seq(Letters), Begins(b, s), NEW f,
         Starts(b, ThoughtClose) # 0
  PROVE  LET end == Starts(b, ThoughtClose)
         IN ThoughtMeans(s, f) = Then(Means(<<>>, SubSeq(b, 1, end - 1), <<>>), f[Len(s) - (end + 3)])
<1> DEFINE end == Starts(b, ThoughtClose)
<1>1. end \in Nat /\ end + 3 <= Len(b) /\ Len(b) \in Nat
  BY TagPlaces
<1>2. Starts(s, ThoughtClose) = end
  BY StartsInLonger, TagsAre DEF Begins
<1>3. SubSeq(s, 1, end - 1) = SubSeq(b, 1, end - 1)
  <2>1. end - 1 \in 0..Len(b)
    BY <1>1
  <2> QED  BY <2>1, SamePrefix
<1> QED  BY <1>2, <1>3, Zenon DEF ThoughtMeans

LEMMA InBlock ==
  ASSUME NEW b \in Seq(Letters), NEW s \in Seq(Letters), Begins(b, s), NEW f,
         Starts(b, CallsClose) # 0
  PROVE  LET end == Starts(b, CallsClose)
         IN BlockMeans(s, f) = Then(BlockGives(SubSeq(b, 1, end - 1)), f[Len(s) - (end + 3)])
<1> DEFINE end == Starts(b, CallsClose)
<1>1. end \in Nat /\ end + 3 <= Len(b) /\ Len(b) \in Nat
  BY TagPlaces
<1>2. Starts(s, CallsClose) = end
  BY StartsInLonger, TagsAre DEF Begins
<1>3. SubSeq(s, 1, end - 1) = SubSeq(b, 1, end - 1)
  <2>1. end - 1 \in 0..Len(b)
    BY <1>1
  <2> QED  BY <2>1, SamePrefix
<1> QED  BY <1>2, <1>3, Zenon DEF BlockMeans, BlockGives

(* What comes before all tags can be given out.                            *)
LEMMA ShownFirst ==
  ASSUME NEW s \in Seq(Letters), NEW c \in 0..Len(s), NEW f, Agree(f, f, Len(s)),
         Starts(s, ThoughtOpen) = 0 \/ Starts(s, ThoughtOpen) > c,
         Starts(s, CallsOpen) = 0 \/ Starts(s, CallsOpen) > c
  PROVE  TextMeans(s, f) = Then(Means(SubSeq(s, 1, c), <<>>, <<>>), TextMeans(After(s, c), f))
<1> DEFINE t == Starts(s, ThoughtOpen)
           d == Starts(s, CallsOpen)
           thought == t # 0 /\ (d = 0 \/ t < d)
           at == IF thought THEN t ELSE d
           r == After(s, c)
           t1 == Starts(r, ThoughtOpen)
           d1 == Starts(r, CallsOpen)
           thought1 == t1 # 0 /\ (d1 = 0 \/ t1 < d1)
           at1 == IF thought1 THEN t1 ELSE d1
           given == SubSeq(s, 1, c)
           later == IF thought THEN ThoughtMeans(After(s, at + 2), f) ELSE BlockMeans(After(s, at + 2), f)
<1>0. Len(s) \in Nat /\ c \in Nat /\ c <= Len(s)
  OBVIOUS
<1>1. /\ t \in Nat /\ (t # 0 => t + 2 <= Len(s)) /\ d \in Nat /\ (d # 0 => d + 2 <= Len(s))
  BY TagPlaces
<1>2. t1 = IF t = 0 THEN 0 ELSE t - c
  BY StartsLater, TagsAre
<1>3. d1 = IF d = 0 THEN 0 ELSE d - c
  BY StartsLater, TagsAre
<1>4. given \in Seq(Letters) /\ r \in Seq(Letters) /\ Len(r) = Len(s) - c /\ s = given \o r
  BY UpTo, AfterIs, CutInTwo
<1>5. TextMeans(s, f) = IF at = 0 THEN Means(s, <<>>, <<>>)
                        ELSE Then(Means(SubSeq(s, 1, at - 1), <<>>, <<>>), later)
  BY Zenon DEF TextMeans
<1>6. TextMeans(r, f) = IF at1 = 0 THEN Means(r, <<>>, <<>>)
                        ELSE Then(Means(SubSeq(r, 1, at1 - 1), <<>>, <<>>),
                                  IF thought1 THEN ThoughtMeans(After(r, at1 + 2), f)
                                  ELSE BlockMeans(After(r, at1 + 2), f))
  BY Zenon DEF TextMeans
<1> HIDE DEF t, d, t1, d1
<1>7. thought1 = thought /\ at \in Nat /\ (at = 0 => at1 = 0)
      /\ (at # 0 => at1 = at - c /\ at1 # 0 /\ at > c /\ at + 2 <= Len(s))
  BY <1>0, <1>1, <1>2, <1>3 DEF t, d
<1> HIDE DEF thought, thought1, at, at1
<1>8. CASE at = 0
  <2>1. TextMeans(r, f) = Means(r, <<>>, <<>>) /\ TextMeans(s, f) = Means(given \o r, <<>>, <<>>)
    BY <1>4, <1>5, <1>6, <1>7, <1>8, Zenon
  <2> DEFINE e == <<>>
             m == Means(given, e, e)
             l == Means(r, e, e)
  <2>2. e \in Seq(Letters) /\ e \in Seq(Kinds) /\ e \o e = e
    BY EmptySeq
  <2> HIDE DEF e, given, r
  <2>3. /\ m.visible = given /\ m.reasoning = e /\ m.values = e
        /\ l.visible = r /\ l.reasoning = e /\ l.values = e
    BY <1>4, <2>2, MeansIs
  <2> HIDE DEF m, l
  <2>4. Then(m, l) = Means(given \o r, e, e)
    BY <2>2, <2>3, Zenon DEF Then
  <2> QED  BY <2>1, <2>4, Zenon DEF m, l, e, given, r
<1>9. CASE at # 0
  <2> DEFINE shown == SubSeq(r, 1, at1 - 1)
             k == at - 1
  <2>1. k \in 0..Len(s) /\ c \in 0..k /\ k - c = at1 - 1
    BY <1>0, <1>7, <1>9
  <2>2. SubSeq(s, 1, at - 1) = given \o shown
    <3>1. SubSeq(s, 1, k) = given \o SubSeq(r, 1, k - c)
      <4> HIDE DEF k
      <4> QED  BY <2>1, CutPrefix
    <3> QED  BY <2>1, <3>1
  <2>3. After(r, at1 + 2) = After(s, at + 2)
    <3> DEFINE j == at1 + 2
    <3>1. j \in 0..Len(s) - c /\ c + j = at + 2
      BY <1>0, <1>7, <1>9
    <3> HIDE DEF j
    <3>2. After(r, j) = After(s, c + j)
      BY <3>1, AfterAfter
    <3> QED  BY <3>1, <3>2 DEF j
  <2>4. shown \in Seq(Letters)
    <3>1. at1 - 1 \in 0..Len(r)
      BY <1>0, <1>4, <1>7, <1>9
    <3> QED  BY <1>4, <3>1, UpTo
  <2>5. later \in MeansRecords
    <3> DEFINE j == at + 2
               q == After(s, j)
    <3>1. j \in 0..Len(s)
      BY <1>0, <1>7, <1>9
    <3> HIDE DEF j
    <3>2. q \in Seq(Letters) /\ Len(q) = Len(s) - j /\ Len(q) <= Len(s)
      BY <1>0, <3>1, AfterIs
    <3>3. Agree(f, f, Len(q))
      <4> HIDE DEF q
      <4> QED  BY <1>0, <3>1, <3>2 DEF Agree
    <3> HIDE DEF q
    <3>4. ThoughtMeans(q, f) \in MeansRecords /\ BlockMeans(q, f) \in MeansRecords
      BY <3>2, <3>3, ThoughtMeansIs, BlockMeansIs
    <3> QED  BY <3>4 DEF q, j
  <2>6. TextMeans(r, f) = Then(Means(shown, <<>>, <<>>), later)
    BY <1>6, <1>7, <1>9, <2>3, Zenon
  <2>7. TextMeans(s, f) = Then(Means(given \o shown, <<>>, <<>>), later)
    BY <1>5, <1>9, <2>2, Zenon
  <2> DEFINE e == <<>>
  <2>8. given \in Seq(Letters) /\ e \in Seq(Letters) /\ e \in Seq(Kinds)
    BY <1>4, EmptySeq
  <2>9. e \in Empties
    BY DEF Empties
  <2> HIDE DEF e, given, shown, later, r
  <2>10. Then(Means(given, e, e), Then(Means(shown, e, e), later)) = Then(Means(given \o shown, e, e), later)
    BY <2>4, <2>5, <2>8, <2>9, AddsVisible
  <2> QED  BY <2>6, <2>7, <2>10, Zenon DEF e, given, shown, later, r
<1> QED  BY <1>8, <1>9

LEMMA ThoughtFirst ==
  ASSUME NEW s \in Seq(Letters), NEW c \in 0..Len(s), NEW f, Agree(f, f, Len(s)),
         Starts(s, ThoughtClose) = 0 \/ Starts(s, ThoughtClose) > c
  PROVE  ThoughtMeans(s, f) = Then(Means(<<>>, SubSeq(s, 1, c), <<>>), ThoughtMeans(After(s, c), f))
<1> DEFINE end == Starts(s, ThoughtClose)
           r == After(s, c)
           end1 == Starts(r, ThoughtClose)
           given == SubSeq(s, 1, c)
           e == <<>>
<1>0. Len(s) \in Nat /\ c \in Nat /\ c <= Len(s)
  OBVIOUS
<1>1. end \in Nat /\ (end # 0 => end + 3 <= Len(s))
  BY TagPlaces
<1>2. end1 = IF end = 0 THEN 0 ELSE end - c
  BY StartsLater, TagsAre
<1>3. given \in Seq(Letters) /\ r \in Seq(Letters) /\ Len(r) = Len(s) - c /\ s = given \o r
  BY UpTo, AfterIs, CutInTwo
<1>e. e \in Empties /\ e \in Seq(Letters) /\ e \in Seq(Kinds)
  BY EmptySeq DEF Empties
<1>4. CASE end = 0
  <2>1. ThoughtMeans(s, f) = Means(e, given \o r, e) /\ ThoughtMeans(r, f) = Means(e, r, e)
    <3>1. end1 = 0
      BY <1>2, <1>4
    <3>2. ThoughtMeans(s, f) = Means(e, s, e) /\ ThoughtMeans(r, f) = Means(e, r, e)
      BY <1>4, <3>1, Zenon DEF ThoughtMeans
    <3> QED  BY <1>3, <3>2, Zenon
  <2>2. e \o e = e
    OBVIOUS
  <2> DEFINE m == Means(e, given, e)
             l == Means(e, r, e)
  <2> HIDE DEF e, given, r
  <2>3. /\ m.visible = e /\ m.reasoning = given /\ m.values = e
        /\ l.visible = e /\ l.reasoning = r /\ l.values = e
    BY <1>3, <1>e, MeansIs
  <2> HIDE DEF m, l
  <2>4. Then(m, l) = Means(e, given \o r, e)
    BY <2>2, <2>3, Zenon DEF Then
  <2> QED  BY <2>1, <2>4, Zenon DEF m, l, e, given, r
<1>5. CASE end # 0
  <2> DEFINE k == end - 1
             part == SubSeq(r, 1, k - c)
             later == f[Len(s) - (end + 3)]
  <2>1. k \in 0..Len(s) /\ c \in 0..k /\ k - c = end1 - 1 /\ end1 # 0
        /\ Len(r) - (end1 + 3) = Len(s) - (end + 3) /\ k - c \in 0..Len(r)
    BY <1>0, <1>1, <1>2, <1>3, <1>5, SMTT(30)
  <2>2. SubSeq(s, 1, k) = given \o part
    <3> HIDE DEF k
    <3> QED  BY <2>1, CutPrefix
  <2>3. part \in Seq(Letters)
    <3> HIDE DEF r
    <3> QED  BY <1>3, <2>1, UpTo
  <2>4. later \in MeansRecords
    <3>1. Len(s) - (end + 3) \in 0..Len(s) - 1
      BY <1>0, <1>1, <1>5
    <3> QED  BY <3>1 DEF Agree
  <2>5. ThoughtMeans(r, f) = Then(Means(e, part, e), later)
    <3>1. ThoughtMeans(r, f) = Then(Means(e, SubSeq(r, 1, end1 - 1), e), f[Len(r) - (end1 + 3)])
      BY <2>1, Zenon DEF ThoughtMeans
    <3> QED  BY <2>1, <3>1, Zenon
  <2>6. ThoughtMeans(s, f) = Then(Means(e, given \o part, e), later)
    <3>1. ThoughtMeans(s, f) = Then(Means(e, SubSeq(s, 1, k), e), later)
      BY <1>5, Zenon DEF ThoughtMeans
    <3> QED  BY <2>2, <3>1, Zenon
  <2> HIDE DEF e, given, part, later, r
  <2>7. Then(Means(e, given, e), Then(Means(e, part, e), later)) = Then(Means(e, given \o part, e), later)
    BY <1>3, <1>e, <2>3, <2>4, AddsReasoning
  <2> QED  BY <2>5, <2>6, <2>7, Zenon DEF e, given, part, later, r
<1> QED  BY <1>4, <1>5

----------------------------------------------------------------------------
(* The parser. Its buffer holds the letters of the text from a + 1 to n;   *)
(* what it has given out and what the text ahead of it means, in its mode, *)
(* is together what the whole text means.                                  *)

NumberedCalls == {CallsFrom(0, values) : values \in Seq(Kinds)}
ParserRecords ==
    [buf : Seq(Letters), mode : {"normal", "thought", "calls", "flushed"},
     visible : Seq(Letters), reasoning : Seq(Letters), calls : NumberedCalls]

Holds(buf, a, n) ==
    /\ a \in Nat /\ n \in Nat /\ n <= Len(text) /\ a + Len(buf) = n
    /\ \A i \in 1..Len(buf) : buf[i] = text[a + i]

Ahead(mode, a) ==
    IF mode = "normal" THEN TextMeans(After(text, a), Understood(text))
    ELSE IF mode = "thought" THEN ThoughtMeans(After(text, a), Understood(text))
    ELSE BlockMeans(After(text, a), Understood(text))

(* values are the parser's calls without their numbers.                    *)
Tells(p, values, a) ==
    /\ values \in Seq(Kinds) /\ p.calls = CallsFrom(0, values)
    /\ HasString(values) => HasTexts(text)
    /\ Meaning(text) = Then(Means(p.visible, p.reasoning, values), Ahead(p.mode, a))

Fits(p, n) ==
    /\ p \in ParserRecords /\ p.mode # "flushed"
    /\ \E a : Holds(p.buf, a, n) /\ \E values : Tells(p, values, a)

Calls == [index : Int, value : Kinds]

LEMMA CallsFromIs ==
  ASSUME NEW n \in Nat, NEW v \in Seq(Kinds)
  PROVE  /\ CallsFrom(n, v) \in Seq(Calls) /\ Len(CallsFrom(n, v)) = Len(v)
         /\ \A k \in 1..Len(v) : CallsFrom(n, v)[k] = [index |-> n + k - 1, value |-> v[k]]
<1> DEFINE x == [k \in 1..Len(v) |-> [index |-> n + k - 1, value |-> v[k]]]
<1>0. Len(v) \in Nat /\ DOMAIN v = 1..Len(v)
  OBVIOUS
<1>1. CallsFrom(n, v) = x
  BY <1>0, Zenon DEF CallsFrom
<1>2. ASSUME NEW k \in 1..Len(v) PROVE [index |-> n + k - 1, value |-> v[k]] \in Calls
  <2>1. v[k] \in Kinds /\ n + k - 1 \in Int
    BY <1>0
  <2> QED  BY <2>1 DEF Calls
<1>3. \A k \in 1..Len(v) : x[k] = [index |-> n + k - 1, value |-> v[k]]
  OBVIOUS
<1>4. x \in [1..Len(v) -> Calls]
  BY <1>2
<1> HIDE DEF x
<1>5. x \in Seq(Calls) /\ Len(x) = Len(v)
  BY <1>0, <1>4
<1> QED  BY <1>1, <1>3, <1>5

LEMMA Joined ==
  ASSUME NEW S, NEW x \in Seq(S), NEW y \in Seq(S)
  PROVE  /\ x \o y \in Seq(S) /\ Len(x \o y) = Len(x) + Len(y)
         /\ \A k \in 1..Len(x) + Len(y) : (x \o y)[k] = IF k <= Len(x) THEN x[k] ELSE y[k - Len(x)]
OBVIOUS

LEMMA CallsJoin ==
  ASSUME NEW v \in Seq(Kinds), NEW w \in Seq(Kinds)
  PROVE  /\ Len(CallsFrom(0, v)) = Len(v)
         /\ CallsFrom(0, v) \o CallsFrom(Len(v), w) = CallsFrom(0, v \o w)
<1> DEFINE x == CallsFrom(0, v)
           y == CallsFrom(Len(v), w)
           vw == v \o w
           z == CallsFrom(0, vw)
<1>0. Len(v) \in Nat /\ Len(w) \in Nat /\ vw \in Seq(Kinds) /\ Len(vw) = Len(v) + Len(w)
  OBVIOUS
<1>1. x \in Seq(Calls) /\ Len(x) = Len(v)
      /\ \A k \in 1..Len(v) : x[k] = [index |-> 0 + k - 1, value |-> v[k]]
  BY CallsFromIs
<1>2. y \in Seq(Calls) /\ Len(y) = Len(w)
      /\ \A k \in 1..Len(w) : y[k] = [index |-> Len(v) + k - 1, value |-> w[k]]
  BY <1>0, CallsFromIs
<1>3. \A k \in 1..Len(vw) : vw[k] = IF k <= Len(v) THEN v[k] ELSE w[k - Len(v)]
  OBVIOUS
<1> HIDE DEF vw
<1>4. z \in Seq(Calls) /\ Len(z) = Len(v) + Len(w)
      /\ \A k \in 1..Len(v) + Len(w) : z[k] = [index |-> 0 + k - 1, value |-> vw[k]]
  BY <1>0, CallsFromIs, SMTT(30)
<1> HIDE DEF x, y, z
<1> DEFINE u == x \o y
<1>5. u \in Seq(Calls) /\ Len(u) = Len(v) + Len(w)
      /\ \A k \in 1..Len(v) + Len(w) : u[k] = IF k <= Len(v) THEN x[k] ELSE y[k - Len(v)]
  <2>1. x \in Seq(Calls) /\ Len(x) = Len(v) /\ y \in Seq(Calls) /\ Len(y) = Len(w)
    BY <1>1, <1>2
  <2>2. /\ u \in Seq(Calls) /\ Len(u) = Len(x) + Len(y)
        /\ \A k \in 1..Len(x) + Len(y) : u[k] = IF k <= Len(x) THEN x[k] ELSE y[k - Len(x)]
    BY <2>1, Joined
  <2> HIDE DEF u
  <2> QED  BY <2>1, <2>2
<1> HIDE DEF u
<1>6. ASSUME NEW k \in 1..Len(v) + Len(w) PROVE u[k] = z[k]
  <2>1. CASE k <= Len(v)
    <3>1. k \in 1..Len(v) /\ k \in 1..Len(vw)
      BY <1>0, <2>1
    <3> QED  BY <1>1, <1>3, <1>4, <1>5, <2>1, <3>1
  <2>2. CASE k > Len(v)
    <3> DEFINE j == k - Len(v)
    <3>1. j \in 1..Len(w) /\ ~(k <= Len(v)) /\ Len(v) + j - 1 = 0 + k - 1 /\ k \in 1..Len(vw)
      BY <1>0, <2>2
    <3> HIDE DEF j
    <3>2. u[k] = y[j] /\ vw[k] = w[j]
      BY <1>3, <1>5, <3>1 DEF j
    <3>3. y[j] = [index |-> 0 + k - 1, value |-> w[j]]
      BY <1>2, <3>1
    <3> QED  BY <1>4, <3>2, <3>3
  <2>3. k <= Len(v) \/ k > Len(v)
    BY <1>0
  <2> QED  BY <2>1, <2>2, <2>3
<1>7. u = z
  BY <1>4, <1>5, <1>6, SeqEqual
<1> QED  BY <1>1, <1>7, Zenon DEF u, x, y, z, vw

----------------------------------------------------------------------------
(* What the buffer holds of the text, and what its rest means.             *)

LEMMA HeldBegins ==
  ASSUME text \in Seq(Letters), NEW b \in Seq(Letters), NEW a, NEW n, Holds(b, a, n)
  PROVE  /\ a \in 0..Len(text) /\ Len(b) \in Nat /\ Len(text) \in Nat /\ a + Len(b) <= Len(text)
         /\ After(text, a) \in Seq(Letters) /\ Len(After(text, a)) = Len(text) - a
         /\ Begins(b, After(text, a))
<1>1. a \in 0..Len(text) /\ Len(b) \in Nat /\ Len(text) \in Nat /\ a + Len(b) <= Len(text)
  BY DEF Holds
<1>2. /\ After(text, a) \in Seq(Letters) /\ Len(After(text, a)) = Len(text) - a
      /\ \A i \in 1..Len(text) - a : After(text, a)[i] = text[a + i]
  BY <1>1, AfterIs
<1>3. \A i \in 1..Len(b) : b[i] = text[a + i] /\ i \in 1..Len(text) - a
  BY <1>1 DEF Holds
<1>4. Begins(b, After(text, a))
  <2>1. Len(b) <= Len(text) - a
    BY <1>1
  <2> QED  BY <1>2, <1>3, <2>1 DEF Begins
<1> QED  BY <1>1, <1>2, <1>4

LEMMA HeldLater ==
  ASSUME text \in Seq(Letters), NEW b \in Seq(Letters), NEW a, NEW n, Holds(b, a, n),
         NEW c \in 0..Len(b)
  PROVE  /\ Holds(After(b, c), a + c, n)
         /\ After(b, c) \in Seq(Letters) /\ Len(After(b, c)) = Len(b) - c
         /\ After(After(text, a), c) = After(text, a + c) /\ a + c \in 0..Len(text)
<1>1. a \in 0..Len(text) /\ Len(b) \in Nat /\ Len(text) \in Nat /\ a + Len(b) <= Len(text)
  BY HeldBegins
<1>2. /\ After(b, c) \in Seq(Letters) /\ Len(After(b, c)) = Len(b) - c
      /\ \A i \in 1..Len(b) - c : After(b, c)[i] = b[c + i]
  BY AfterIs
<1>3. After(After(text, a), c) = After(text, a + c)
  <2>1. c \in 0..Len(text) - a
    BY <1>1
  <2> QED  BY <1>1, <2>1, AfterAfter
<1>4. Holds(After(b, c), a + c, n)
  <2> DEFINE r == After(b, c)
  <2>1. ASSUME NEW i \in 1..Len(b) - c PROVE r[i] = text[(a + c) + i]
    <3>1. c + i \in 1..Len(b) /\ a + (c + i) = (a + c) + i
      BY <1>1
    <3>2. b[c + i] = text[a + (c + i)]
      BY <3>1 DEF Holds
    <3> QED  BY <1>2, <3>1, <3>2
  <2> HIDE DEF r
  <2>2. Len(r) = Len(b) - c
    BY <1>2 DEF r
  <2>3. a + c \in Nat /\ n \in Nat /\ n <= Len(text) /\ (a + c) + Len(r) = n
    BY <1>1, <2>2 DEF Holds
  <2> QED  BY <2>1, <2>2, <2>3 DEF Holds, r
<1> QED  BY <1>1, <1>2, <1>3, <1>4

LEMMA UnderstoodAt ==
  ASSUME text \in Seq(Letters), NEW a \in 0..Len(text)
  PROVE  /\ Understood(text)[Len(text) - a] \in MeansRecords
         /\ Understood(text)[Len(text) - a] = TextMeans(After(text, a), Understood(text))
         /\ Agree(Understood(text), Understood(text), Len(text) - a)
<1> DEFINE k == Len(text) - a
<1>1. k \in 0..Len(text) /\ Len(text) - k = a
  OBVIOUS
<1>2. \A i \in 0..Len(text) : /\ Understood(text)[i] \in MeansRecords
                              /\ Understood(text)[i] = TextMeans(After(text, Len(text) - i), Understood(text))
  BY UnderstoodIs
<1>3. Agree(Understood(text), Understood(text), k)
  <2>1. \A i \in 0..k - 1 : i \in 0..Len(text)
    BY <1>1
  <2> QED  BY <1>2, <2>1 DEF Agree
<1> QED  BY <1>1, <1>2, <1>3

(* What lies ahead means something in every mode.                          *)
LEMMA AheadIs ==
  ASSUME text \in Seq(Letters), NEW a \in 0..Len(text), NEW mode
  PROVE  Ahead(mode, a) \in MeansRecords
<1> DEFINE s == After(text, a)
           f == Understood(text)
<1>1. s \in Seq(Letters) /\ Len(s) = Len(text) - a
  BY AfterIs
<1>2. Agree(f, f, Len(s))
  BY <1>1, UnderstoodAt
<1> HIDE DEF s, f
<1>3. TextMeans(s, f) \in MeansRecords /\ ThoughtMeans(s, f) \in MeansRecords
      /\ BlockMeans(s, f) \in MeansRecords
  BY <1>1, <1>2, TextMeansIs, ThoughtMeansIs, BlockMeansIs
<1> QED  BY <1>3 DEF Ahead, s, f

LEMMA ParserIs ==
  ASSUME NEW p \in ParserRecords
  PROVE  /\ p.buf \in Seq(Letters) /\ p.mode \in {"normal", "thought", "calls", "flushed"}
         /\ p.visible \in Seq(Letters) /\ p.reasoning \in Seq(Letters) /\ p.calls \in NumberedCalls
BY DEF ParserRecords

LEMMA OpenedFits ==
  ASSUME text \in Seq(Letters), NEW n, NEW p, Fits(p, n), p.mode = "normal", ~Blocked(p)
  PROVE  Fits(Opened(p), n) /\ Len(Opened(p).buf) < Len(p.buf)
<1>1. p \in ParserRecords
  BY DEF Fits
<1>2. PICK a, values : Holds(p.buf, a, n) /\ Tells(p, values, a)
  BY DEF Fits
<1> DEFINE b == p.buf
           f == Understood(text)
           s == After(text, a)
           t == Starts(b, ThoughtOpen)
           d == Starts(b, CallsOpen)
           thought == t # 0 /\ (d = 0 \/ t < d)
           at == IF thought THEN t ELSE d
           c == at + 2
           shown == SubSeq(b, 1, at - 1)
           later == Ahead(IF thought THEN "thought" ELSE "calls", a + c)
           rest == After(b, c)
           v == p.visible
           q == [p EXCEPT !.mode = IF thought THEN "thought" ELSE "calls", !.visible = v \o shown,
                          !.buf = rest]
           e == <<>>
<1>3. b \in Seq(Letters) /\ v \in Seq(Letters) /\ p.reasoning \in Seq(Letters)
  BY <1>1, ParserIs
<1>4. /\ a \in 0..Len(text) /\ Len(b) \in Nat /\ Len(text) \in Nat /\ a + Len(b) <= Len(text)
      /\ s \in Seq(Letters) /\ Len(s) = Len(text) - a /\ Begins(b, s)
  BY <1>2, <1>3, HeldBegins
<1>5. /\ t \in Nat /\ (t # 0 => t + 2 <= Len(b)) /\ d \in Nat /\ (d # 0 => d + 2 <= Len(b))
  BY <1>3, TagPlaces
<1>6. at # 0 /\ at \in Nat /\ at + 2 <= Len(b)
  BY <1>5 DEF Blocked
<1>7. Opened(p) = q
  <2>1. /\ at - 1 + Len(ThoughtOpen) = c /\ at - 1 + Len(CallsOpen) = c
    BY <1>6, TagsAre
  <2>2. Opened(p) = [p EXCEPT !.mode = IF thought THEN "thought" ELSE "calls",
                              !.visible = @ \o SubSeq(b, 1, at - 1),
                              !.buf = After(@, at - 1 + Len(IF thought THEN ThoughtOpen ELSE CallsOpen))]
    BY Zenon DEF Opened
  <2>3. at - 1 + Len(IF thought THEN ThoughtOpen ELSE CallsOpen) = c
    BY <2>1
  <2> HIDE DEF t, d, thought, at, c
  <2> QED  BY <2>2, <2>3
<1>8. TextMeans(s, f) = Then(Means(shown, e, e), IF thought THEN ThoughtMeans(After(s, c), f)
                                                 ELSE BlockMeans(After(s, c), f))
  BY <1>3, <1>4, <1>6, InText, Zenon
<1> HIDE DEF t, d, thought, at
<1>9. c \in 0..Len(b) /\ at - 1 \in 0..Len(b) /\ c # 0
  BY <1>4, <1>6
<1>10. /\ Holds(rest, a + c, n) /\ rest \in Seq(Letters) /\ Len(rest) = Len(b) - c
       /\ After(s, c) = After(text, a + c) /\ a + c \in 0..Len(text)
  <2> HIDE DEF b, c
  <2> QED  BY <1>2, <1>3, <1>9, HeldLater, ZenonT(30) DEF b
<1>11. later \in MeansRecords
  <2> HIDE DEF c
  <2> QED  BY <1>10, AheadIs
<1>12. TextMeans(s, f) = Then(Means(shown, e, e), later)
  <2>1. later = IF thought THEN ThoughtMeans(After(text, a + c), f) ELSE BlockMeans(After(text, a + c), f)
    <3> HIDE DEF f
    <3> QED BY DEF Ahead, f
  <2> QED  BY <1>8, <1>10, <2>1, Zenon
<1>13. shown \in Seq(Letters)
  BY <1>3, <1>9, UpTo
<1>14. /\ values \in Seq(Kinds) /\ p.calls = CallsFrom(0, values) /\ (HasString(values) => HasTexts(text))
       /\ Meaning(text) = Then(Means(v, p.reasoning, values), TextMeans(s, f))
  BY <1>2 DEF Tells, Ahead
<1>15. Meaning(text) = Then(Means(v \o shown, p.reasoning, values), later)
  <2>1. e \in Empties
    BY DEF Empties
  <2> HIDE DEF e, v, shown, later
  <2>2. Then(Means(v, p.reasoning, values), Then(Means(shown, e, e), later))
         = Then(Means(v \o shown, p.reasoning, values), later)
    BY <1>3, <1>11, <1>13, <1>14, <2>1, AddsVisible
  <2> QED  BY <1>12, <1>14, <2>2, Zenon
<1>16. v \o shown \in Seq(Letters)
  <2> HIDE DEF v, shown
  <2> QED  BY <1>3, <1>13
<1> HIDE DEF rest
<1>17. /\ q \in ParserRecords /\ q.mode = (IF thought THEN "thought" ELSE "calls") /\ q.buf = rest
       /\ q.visible = v \o shown /\ q.reasoning = p.reasoning /\ q.calls = p.calls
  <2> DEFINE w == v \o shown
  <2> HIDE DEF v, shown, w
  <2>1. q = [p EXCEPT !.mode = IF thought THEN "thought" ELSE "calls", !.visible = w, !.buf = rest]
    BY DEF w
  <2>2. w \in Seq(Letters)
    BY <1>16 DEF w
  <2>3. /\ q \in ParserRecords /\ q.mode = (IF thought THEN "thought" ELSE "calls") /\ q.buf = rest
        /\ q.visible = w /\ q.reasoning = p.reasoning /\ q.calls = p.calls
    BY <1>1, <1>10, <2>1, <2>2 DEF ParserRecords
  <2> QED  BY <2>3 DEF w
<1> HIDE DEF q
<1>18. Tells(q, values, a + c)
  BY <1>14, <1>15, <1>17, Zenon DEF Tells
<1>19. Fits(q, n)
  <2>1. q.mode # "flushed"
    BY <1>17
  <2> HIDE DEF c
  <2> QED  BY <1>10, <1>17, <1>18, <2>1 DEF Fits
<1>20. Len(q.buf) < Len(b)
  <2> HIDE DEF c
  <2>1. Len(rest) < Len(b)
    BY <1>4, <1>9, <1>10
  <2> QED  BY <1>17, <2>1
<1> QED  BY <1>7, <1>19, <1>20

LEMMA ThoughtEndedFits ==
  ASSUME text \in Seq(Letters), NEW n, NEW p, Fits(p, n), p.mode = "thought", ~Blocked(p)
  PROVE  Fits(ThoughtEnded(p), n) /\ Len(ThoughtEnded(p).buf) < Len(p.buf)
<1>1. p \in ParserRecords
  BY DEF Fits
<1>2. PICK a, values : Holds(p.buf, a, n) /\ Tells(p, values, a)
  BY DEF Fits
<1> DEFINE b == p.buf
           f == Understood(text)
           s == After(text, a)
           end == Starts(b, ThoughtClose)
           c == end + 3
           thoughts == SubSeq(b, 1, end - 1)
           later == Ahead("normal", a + c)
           rest == After(b, c)
           r == p.reasoning
           q == [p EXCEPT !.mode = "normal", !.reasoning = r \o thoughts, !.buf = rest]
           e == <<>>
<1>3. b \in Seq(Letters) /\ p.visible \in Seq(Letters) /\ r \in Seq(Letters)
  BY <1>1, ParserIs
<1>4. /\ a \in 0..Len(text) /\ Len(b) \in Nat /\ Len(text) \in Nat /\ a + Len(b) <= Len(text)
      /\ s \in Seq(Letters) /\ Len(s) = Len(text) - a /\ Begins(b, s)
  BY <1>2, <1>3, HeldBegins
<1>5. end # 0 /\ end \in Nat /\ end + 3 <= Len(b)
  <2>1. end \in Nat /\ (end # 0 => end + 3 <= Len(b))
    BY <1>3, TagPlaces
  <2> QED  BY <2>1 DEF Blocked
<1>6. ThoughtEnded(p) = q
  <2>1. ThoughtEnded(p) = [p EXCEPT !.mode = "normal",
                                    !.reasoning = @ \o SubSeq(b, 1, end - 1),
                                    !.buf = After(@, end - 1 + Len(ThoughtClose))]
    BY Zenon DEF ThoughtEnded
  <2>2. end - 1 + Len(ThoughtClose) = c
    BY <1>5, TagsAre
  <2> HIDE DEF end, c
  <2> QED  BY <2>1, <2>2
<1>7. ThoughtMeans(s, f) = Then(Means(e, thoughts, e), f[Len(s) - c])
  BY <1>3, <1>4, <1>5, InThought, Zenon
<1> HIDE DEF end
<1>8. c \in 0..Len(b) /\ end - 1 \in 0..Len(b) /\ c # 0
  BY <1>4, <1>5
<1>9. /\ Holds(rest, a + c, n) /\ rest \in Seq(Letters) /\ Len(rest) = Len(b) - c
      /\ a + c \in 0..Len(text)
  <2> HIDE DEF b, c
  <2> QED  BY <1>2, <1>3, <1>8, HeldLater DEF b
<1>10. later \in MeansRecords
  <2> HIDE DEF c
  <2> QED  BY <1>9, AheadIs
<1>11. ThoughtMeans(s, f) = Then(Means(e, thoughts, e), later)
  <2>1. Len(s) - c = Len(text) - (a + c)
    BY <1>4, <1>8
  <2>2. f[Len(text) - (a + c)] = TextMeans(After(text, a + c), f)
    <3> HIDE DEF c
    <3> QED  BY <1>9, UnderstoodAt
  <2>3. later = TextMeans(After(text, a + c), f)
    BY DEF Ahead
  <2> QED  BY <1>7, <2>1, <2>2, <2>3, Zenon
<1>12. thoughts \in Seq(Letters)
  BY <1>3, <1>8, UpTo
<1>13. /\ values \in Seq(Kinds) /\ p.calls = CallsFrom(0, values) /\ (HasString(values) => HasTexts(text))
       /\ Meaning(text) = Then(Means(p.visible, r, values), ThoughtMeans(s, f))
  BY <1>2 DEF Tells, Ahead
<1>14. Meaning(text) = Then(Means(p.visible, r \o thoughts, values), later)
  <2>1. e \in Empties
    BY DEF Empties
  <2> HIDE DEF e, r, thoughts, later
  <2>2. Then(Means(p.visible, r, values), Then(Means(e, thoughts, e), later))
         = Then(Means(p.visible, r \o thoughts, values), later)
    BY <1>3, <1>10, <1>12, <1>13, <2>1, AddsReasoning
  <2> QED  BY <1>11, <1>13, <2>2, Zenon
<1>15. r \o thoughts \in Seq(Letters)
  <2> HIDE DEF r, thoughts
  <2> QED  BY <1>3, <1>12
<1> HIDE DEF rest
<1>16. /\ q \in ParserRecords /\ q.mode = "normal" /\ q.buf = rest
       /\ q.visible = p.visible /\ q.reasoning = r \o thoughts /\ q.calls = p.calls
  <2> DEFINE w == r \o thoughts
  <2> HIDE DEF r, thoughts, w
  <2>1. q = [p EXCEPT !.mode = "normal", !.reasoning = w, !.buf = rest]
    BY DEF w
  <2>2. w \in Seq(Letters)
    BY <1>15 DEF w
  <2>3. /\ q \in ParserRecords /\ q.mode = "normal" /\ q.buf = rest
        /\ q.visible = p.visible /\ q.reasoning = w /\ q.calls = p.calls
    BY <1>1, <1>9, <2>1, <2>2 DEF ParserRecords
  <2> QED  BY <2>3 DEF w
<1> HIDE DEF q
<1>17. Tells(q, values, a + c)
  BY <1>13, <1>14, <1>16, Zenon DEF Tells
<1>18. Fits(q, n)
  <2>1. q.mode # "flushed"
    BY <1>16
  <2> HIDE DEF c
  <2> QED  BY <1>9, <1>16, <1>17, <2>1 DEF Fits
<1>19. Len(q.buf) < Len(b)
  <2> HIDE DEF c
  <2>1. Len(rest) < Len(b)
    BY <1>4, <1>8, <1>9
  <2> QED  BY <1>16, <2>1
<1> QED  BY <1>6, <1>18, <1>19

LEMMA Associates ==
  ASSUME NEW S, NEW x \in Seq(S), NEW y \in Seq(S), NEW z \in Seq(S)
  PROVE  (x \o y) \o z = x \o (y \o z) /\ y \o z \in Seq(S) /\ (x \o y) \o z \in Seq(S)
OBVIOUS

LEMMA BlockEndedFits ==
  ASSUME text \in Seq(Letters), NEW n, NEW p, Fits(p, n), p.mode = "calls", ~Blocked(p)
  PROVE  Fits(BlockEnded(p), n) /\ Len(BlockEnded(p).buf) < Len(p.buf)
<1>1. p \in ParserRecords
  BY DEF Fits
<1>2. PICK a, values : Holds(p.buf, a, n) /\ Tells(p, values, a)
  BY DEF Fits
<1> DEFINE b == p.buf
           f == Understood(text)
           s == After(text, a)
           end == Starts(b, CallsClose)
           c == end + 3
           inner == SubSeq(b, 1, end - 1)
           later == Ahead("normal", a + c)
           rest == After(b, c)
           v == p.visible
           r == p.reasoning
           block == ParsedBlock(inner)
           done == [p EXCEPT !.mode = "normal", !.buf = rest]
           e == <<>>
<1>3. b \in Seq(Letters) /\ v \in Seq(Letters) /\ r \in Seq(Letters)
  BY <1>1, ParserIs
<1>4. /\ a \in 0..Len(text) /\ Len(b) \in Nat /\ Len(text) \in Nat /\ a + Len(b) <= Len(text)
      /\ s \in Seq(Letters) /\ Len(s) = Len(text) - a /\ Begins(b, s)
  BY <1>2, <1>3, HeldBegins
<1>5. end # 0 /\ end \in Nat /\ end + 3 <= Len(b)
  <2>1. end \in Nat /\ (end # 0 => end + 3 <= Len(b))
    BY <1>3, TagPlaces
  <2> QED  BY <2>1 DEF Blocked
<1>6. BlockEnded(p) = IF block.ok THEN [done EXCEPT !.calls = @ \o BlockCalls(block.values, Len(@))]
                      ELSE [done EXCEPT !.visible = @ \o inner \o CallsClose]
  <2> DEFINE old == [p EXCEPT !.mode = "normal", !.buf = After(@, end - 1 + Len(CallsClose))]
  <2>1. BlockEnded(p) = IF block.ok THEN [old EXCEPT !.calls = @ \o BlockCalls(block.values, Len(@))]
                        ELSE [old EXCEPT !.visible = @ \o inner \o CallsClose]
    BY Zenon DEF BlockEnded
  <2>2. end - 1 + Len(CallsClose) = c
    BY <1>5, TagsAre
  <2>3. old = done
    <3> HIDE DEF end, c
    <3> QED  BY <2>2
  <2> HIDE DEF old, done, block, inner
  <2> QED  BY <2>1, <2>3, Zenon
<1>7. BlockMeans(s, f) = Then(BlockGives(inner), f[Len(s) - c])
  BY <1>3, <1>4, <1>5, InBlock, Zenon
<1> HIDE DEF end
<1>8. c \in 0..Len(b) /\ end - 1 \in 0..Len(b) /\ c # 0
  BY <1>4, <1>5
<1>9. /\ Holds(rest, a + c, n) /\ rest \in Seq(Letters) /\ Len(rest) = Len(b) - c
      /\ a + c \in 0..Len(text)
  <2> HIDE DEF b, c
  <2> QED  BY <1>2, <1>3, <1>8, HeldLater DEF b
<1>10. later \in MeansRecords
  <2> HIDE DEF c
  <2> QED  BY <1>9, AheadIs
<1>11. BlockMeans(s, f) = Then(BlockGives(inner), later)
  <2>1. Len(s) - c = Len(text) - (a + c)
    BY <1>4, <1>8
  <2>2. f[Len(text) - (a + c)] = TextMeans(After(text, a + c), f)
    <3> HIDE DEF c
    <3> QED  BY <1>9, UnderstoodAt
  <2>3. later = TextMeans(After(text, a + c), f)
    BY DEF Ahead
  <2> QED  BY <1>7, <2>1, <2>2, <2>3, Zenon
<1>12. inner \in Seq(Letters) /\ Len(inner) = end - 1 /\ \A i \in 1..end - 1 : inner[i] = b[i]
  BY <1>3, <1>8, UpTo
<1>13. /\ values \in Seq(Kinds) /\ p.calls = CallsFrom(0, values) /\ (HasString(values) => HasTexts(text))
       /\ Meaning(text) = Then(Means(v, r, values), BlockMeans(s, f))
  BY <1>2 DEF Tells, Ahead
<1> HIDE DEF rest, inner
<1>14. block \in BlockRecords /\ (HasString(block.values) => HasTexts(inner))
  BY <1>12, BlockIs
<1>15. HasTexts(inner) => HasTexts(text)
  <2> SUFFICES ASSUME NEW i \in DOMAIN inner, inner[i] = "text" PROVE \E j \in DOMAIN text : text[j] = "text"
    BY DEF HasTexts
  <2> HIDE DEF c
  <2>1. i \in 1..end - 1 /\ i \in 1..Len(b)
    BY <1>4, <1>8, <1>12
  <2>2. b[i] = "text" /\ b[i] = text[a + i]
    BY <1>2, <1>12, <2>1 DEF Holds
  <2>3. a + i \in DOMAIN text
    BY <1>4, <2>1
  <2> QED  BY <2>2, <2>3
<1> HIDE DEF block
<1>16. done \in ParserRecords /\ done.mode = "normal" /\ done.buf = rest
       /\ done.visible = v /\ done.reasoning = r /\ done.calls = p.calls
  BY <1>1, <1>9 DEF ParserRecords
<1> HIDE DEF done
<1>17. e \in Empties
  BY DEF Empties
<1>18. SUFFICES ASSUME NEW q \in ParserRecords, BlockEnded(p) = q, q.mode = "normal", q.buf = rest,
                       \E w : Tells(q, w, a + c)
                PROVE  Fits(q, n) /\ Len(q.buf) < Len(b)
  <2>1. CASE block.ok
    <3> DEFINE x == block.values
               w == values \o x
               calls == p.calls \o BlockCalls(x, Len(p.calls))
               q == [done EXCEPT !.calls = calls]
    <3>1. x \in Seq(Kinds)
      BY <1>14 DEF BlockRecords
    <3>2. BlockEnded(p) = q
      BY <1>6, <1>16, <2>1
    <3> HIDE DEF x
    <3>3. w \in Seq(Kinds)
      BY <1>13, <3>1
    <3>4. HasString(w) => HasTexts(text)
      <4>1. HasString(w) => HasString(values) \/ HasString(x)
        BY <1>13, <3>1 DEF HasString
      <4> QED  BY <1>13, <1>14, <1>15, <4>1 DEF x
    <3>5. calls = CallsFrom(0, w)
      BY <1>13, <3>1, CallsJoin DEF BlockCalls
    <3>6. Meaning(text) = Then(Means(v, r, w), later)
      <4>1. BlockMeans(s, f) = Then(Means(e, e, x), later)
        BY <1>11, <2>1, Zenon DEF BlockGives, block, x
      <4> HIDE DEF v, r, e, later
      <4>2. Then(Means(v, r, values), Then(Means(e, e, x), later)) = Then(Means(v, r, w), later)
        BY <1>3, <1>10, <1>13, <1>17, <3>1, AddsValues
      <4> QED  BY <1>13, <4>1, <4>2, Zenon
    <3> HIDE DEF w, calls
    <3>7. /\ q \in ParserRecords /\ q.mode = "normal" /\ q.buf = rest
          /\ q.visible = v /\ q.reasoning = r /\ q.calls = calls
      <4>1. calls \in NumberedCalls
        BY <3>3, <3>5 DEF NumberedCalls
      <4>2. q \in ParserRecords /\ q.mode = done.mode /\ q.buf = done.buf
            /\ q.visible = done.visible /\ q.reasoning = done.reasoning /\ q.calls = calls
        BY <1>16, <4>1 DEF ParserRecords
      <4> QED  BY <1>16, <4>2
    <3> HIDE DEF q
    <3>8. Tells(q, w, a + c)
      BY <3>3, <3>4, <3>5, <3>6, <3>7, Zenon DEF Tells
    <3> QED  BY <1>18, <3>2, <3>7, <3>8
  <2>2. CASE ~block.ok
    <3> DEFINE w == (v \o inner) \o CallsClose
               q == [done EXCEPT !.visible = w]
    <3>1. BlockEnded(p) = q
      BY <1>6, <1>16, <2>2
    <3>2. w \in Seq(Letters) /\ w = v \o (inner \o CallsClose) /\ inner \o CallsClose \in Seq(Letters)
      <4> DEFINE z == CallsClose
      <4>1. v \in Seq(Letters) /\ inner \in Seq(Letters) /\ z \in Seq(Letters)
        BY <1>3, <1>12, TagsAre
      <4> HIDE DEF v, z
      <4>2. (v \o inner) \o z = v \o (inner \o z) /\ inner \o z \in Seq(Letters)
            /\ (v \o inner) \o z \in Seq(Letters)
        BY <4>1, Associates
      <4> QED  BY <4>2, Zenon DEF v, z
    <3>3. Meaning(text) = Then(Means(w, r, values), later)
      <4> DEFINE x == inner \o CallsClose
      <4>1. BlockMeans(s, f) = Then(Means(x, e, e), later) /\ x \in Seq(Letters)
        BY <1>11, <2>2, <3>2, Zenon DEF BlockGives, block
      <4> HIDE DEF v, r, e, x, later
      <4>2. Then(Means(v, r, values), Then(Means(x, e, e), later)) = Then(Means(v \o x, r, values), later)
        BY <1>3, <1>10, <1>13, <1>17, <4>1, AddsVisible
      <4>3. w = v \o x
        BY <3>2, Zenon DEF x
      <4> QED  BY <1>13, <4>1, <4>2, <4>3, Zenon
    <3> HIDE DEF w
    <3>4. /\ q \in ParserRecords /\ q.mode = "normal" /\ q.buf = rest
          /\ q.visible = w /\ q.reasoning = r /\ q.calls = p.calls
      <4>1. w \in Seq(Letters)
        BY <3>2
      <4>2. q \in ParserRecords /\ q.mode = done.mode /\ q.buf = done.buf
            /\ q.visible = w /\ q.reasoning = done.reasoning /\ q.calls = done.calls
        BY <1>16, <4>1 DEF ParserRecords
      <4> QED  BY <1>16, <4>2
    <3> HIDE DEF q
    <3>5. Tells(q, values, a + c)
      BY <1>13, <3>3, <3>4, Zenon DEF Tells
    <3> QED  BY <1>18, <3>1, <3>4, <3>5
  <2> QED  BY <2>1, <2>2
<1>19. Fits(q, n)
  <2>1. q.mode # "flushed"
    BY <1>18
  <2> HIDE DEF c
  <2> QED  BY <1>9, <1>18, <2>1 DEF Fits
<1>20. Len(q.buf) < Len(b)
  <2> HIDE DEF c
  <2>1. Len(rest) < Len(b)
    BY <1>4, <1>8, <1>9
  <2> QED  BY <1>18, <2>1
<1> QED  BY <1>19, <1>20

(* What is released changes nothing of what the text means.                *)
LEMMA ReleasedFits ==
  ASSUME text \in Seq(Letters), NEW n, NEW p, Fits(p, n), Blocked(p)
  PROVE  Fits(Released(p), n) /\ Blocked(Released(p))
<1>1. p \in ParserRecords /\ p.mode \in {"normal", "thought", "calls"}
  BY ParserIs DEF Fits
<1>2. PICK a, values : Holds(p.buf, a, n) /\ Tells(p, values, a)
  BY DEF Fits
<1> DEFINE b == p.buf
           f == Understood(text)
           s == After(text, a)
           v == p.visible
           r == p.reasoning
           e == <<>>
<1>3. b \in Seq(Letters) /\ v \in Seq(Letters) /\ r \in Seq(Letters)
  BY <1>1, ParserIs
<1>4. /\ a \in 0..Len(text) /\ Len(b) \in Nat /\ Len(text) \in Nat /\ a + Len(b) <= Len(text)
      /\ s \in Seq(Letters) /\ Len(s) = Len(text) - a /\ Begins(b, s)
  BY <1>2, <1>3, HeldBegins
<1>5. Agree(f, f, Len(s))
  BY <1>4, UnderstoodAt
<1>6. /\ values \in Seq(Kinds) /\ p.calls = CallsFrom(0, values) /\ (HasString(values) => HasTexts(text))
      /\ Meaning(text) = Then(Means(v, r, values), Ahead(p.mode, a))
  BY <1>2 DEF Tells
<1>e. e \in Empties
  BY DEF Empties
<1>7. ASSUME NEW c \in 0..Len(b), NEW q \in ParserRecords, q.buf = After(b, c), q.mode = p.mode,
             q.calls = p.calls,
             Meaning(text) = Then(Means(q.visible, q.reasoning, values), Ahead(q.mode, a + c))
      PROVE  Fits(q, n)
  <2> HIDE DEF b
  <2>1. Holds(After(b, c), a + c, n)
    BY <1>2, <1>3, HeldLater DEF b
  <2>2. Tells(q, values, a + c)
    BY <1>6, <1>7, Zenon DEF Tells
  <2>3. q.mode # "flushed"
    BY <1>1, <1>7
  <2> QED  BY <1>7, <2>1, <2>2, <2>3 DEF Fits
<1>8. CASE p.mode = "normal"
  <2> DEFINE tags == {ThoughtOpen, CallsOpen}
             held == HeldBack(b, tags)
             cut == Len(b) - held
             given == SubSeq(b, 1, cut)
             rest == After(b, cut)
             w == v \o given
             q == [p EXCEPT !.visible = w, !.buf = rest]
             later == Ahead("normal", a + cut)
  <2>0. tags \in SUBSET Seq(Letters) /\ ThoughtOpen \in tags /\ CallsOpen \in tags
    BY TagsAre
  <2>1. Released(p) = q
    BY <1>8, Zenon DEF Released
  <2>2. Starts(b, ThoughtOpen) = 0 /\ Starts(b, CallsOpen) = 0
    BY <1>8 DEF Blocked
  <2>3. /\ Starts(s, ThoughtOpen) = 0 \/ Starts(s, ThoughtOpen) > cut
        /\ Starts(s, CallsOpen) = 0 \/ Starts(s, CallsOpen) > cut
    <3> HIDE DEF b, s, tags
    <3>1. Len(b) <= Len(s) /\ \A i \in 1..Len(b) : s[i] = b[i]
      BY <1>4 DEF Begins
    <3>2. Starts(s, ThoughtOpen) = 0 \/ Starts(s, ThoughtOpen) > Len(b) - HeldBack(b, tags)
      BY <1>3, <1>4, <2>0, <2>2, <3>1, TagsAre, GivenIsClear
    <3>3. Starts(s, CallsOpen) = 0 \/ Starts(s, CallsOpen) > Len(b) - HeldBack(b, tags)
      BY <1>3, <1>4, <2>0, <2>2, <3>1, TagsAre, GivenIsClear
    <3> QED  BY <3>2, <3>3
  <2>4. held \in 0..Len(b)
    <3> HIDE DEF tags
    <3> QED  BY <1>3, HeldBackIs
  <2> HIDE DEF held
  <2>5. cut \in 0..Len(b) /\ cut \in 0..Len(s)
    BY <1>4, <2>4
  <2> HIDE DEF cut
  <2>6. given \in Seq(Letters) /\ rest \in Seq(Letters) /\ SubSeq(s, 1, cut) = given
    <3> HIDE DEF b
    <3> QED  BY <1>3, <1>4, <2>5, UpTo, AfterIs, SamePrefix, ZenonT(30)
  <2>7. After(s, cut) = After(text, a + cut) /\ a + cut \in 0..Len(text)
    <3> HIDE DEF b
    <3> QED  BY <1>2, <1>3, <2>5, HeldLater DEF b
  <2>8. Ahead("normal", a) = Then(Means(given, e, e), later)
    <3>1. TextMeans(s, f) = Then(Means(SubSeq(s, 1, cut), <<>>, <<>>), TextMeans(After(s, cut), f))
      <4> HIDE DEF s, f
      <4> QED  BY <1>4, <1>5, <2>3, <2>5, ShownFirst
    <3>2. Ahead("normal", a) = TextMeans(s, f) /\ later = TextMeans(After(text, a + cut), f)
      BY DEF Ahead
    <3> QED  BY <2>6, <2>7, <3>1, <3>2, Zenon
  <2>9. later \in MeansRecords
    BY <2>7, AheadIs
  <2>10. Meaning(text) = Then(Means(w, r, values), later) /\ w \in Seq(Letters)
    <3> HIDE DEF v, r, e, given, later
    <3>1. Then(Means(v, r, values), Then(Means(given, e, e), later)) = Then(Means(v \o given, r, values), later)
      BY <1>3, <1>6, <1>e, <2>6, <2>9, AddsVisible
    <3>2. v \o given \in Seq(Letters)
      BY <1>3, <2>6
    <3> QED  BY <1>6, <1>8, <2>8, <3>1, <3>2, Zenon
  <2>11. Starts(rest, ThoughtOpen) = 0 /\ Starts(rest, CallsOpen) = 0
    <3> HIDE DEF b
    <3>1. Starts(rest, ThoughtOpen) = IF Starts(b, ThoughtOpen) = 0 THEN 0 ELSE Starts(b, ThoughtOpen) - cut
      BY <1>3, <2>2, <2>5, TagsAre, StartsLater
    <3>2. Starts(rest, CallsOpen) = IF Starts(b, CallsOpen) = 0 THEN 0 ELSE Starts(b, CallsOpen) - cut
      BY <1>3, <2>2, <2>5, TagsAre, StartsLater
    <3> QED  BY <2>2, <3>1, <3>2
  <2> HIDE DEF w
  <2>12. /\ q \in ParserRecords /\ q.mode = "normal" /\ q.buf = rest
         /\ q.visible = w /\ q.reasoning = r /\ q.calls = p.calls
    <3> HIDE DEF rest
    <3> QED  BY <1>1, <1>8, <2>6, <2>10 DEF ParserRecords
  <2> HIDE DEF q
  <2>13. Fits(q, n)
    BY <1>7, <1>8, <2>5, <2>10, <2>12, Zenon
  <2>14. Blocked(q)
    BY <2>11, <2>12, Zenon DEF Blocked
  <2> QED  BY <2>1, <2>13, <2>14, Zenon
<1>9. CASE p.mode = "thought"
  <2> DEFINE tags == {ThoughtClose}
             held == HeldBack(b, tags)
             cut == Len(b) - held
             given == SubSeq(b, 1, cut)
             rest == After(b, cut)
             w == r \o given
             q == [p EXCEPT !.reasoning = w, !.buf = rest]
             later == Ahead("thought", a + cut)
  <2>0. tags \in SUBSET Seq(Letters) /\ ThoughtClose \in tags
    BY TagsAre
  <2>1. Released(p) = q
    <3>1. p.mode # "normal"
      BY <1>9
    <3> QED  BY <1>9, <3>1, Zenon DEF Released
  <2>2. Starts(b, ThoughtClose) = 0
    BY <1>9 DEF Blocked
  <2>3. Starts(s, ThoughtClose) = 0 \/ Starts(s, ThoughtClose) > cut
    <3> HIDE DEF b, s, tags
    <3>1. Len(b) <= Len(s) /\ \A i \in 1..Len(b) : s[i] = b[i]
      BY <1>4 DEF Begins
    <3>2. Starts(s, ThoughtClose) = 0 \/ Starts(s, ThoughtClose) > Len(b) - HeldBack(b, tags)
      BY <1>3, <1>4, <2>0, <2>2, <3>1, TagsAre, GivenIsClear
    <3> QED  BY <3>2
  <2>4. held \in 0..Len(b)
    <3> HIDE DEF tags
    <3> QED  BY <1>3, HeldBackIs
  <2> HIDE DEF held
  <2>5. cut \in 0..Len(b) /\ cut \in 0..Len(s)
    BY <1>4, <2>4
  <2> HIDE DEF cut
  <2>6. given \in Seq(Letters) /\ rest \in Seq(Letters) /\ SubSeq(s, 1, cut) = given
    <3> HIDE DEF b
    <3> QED  BY <1>3, <1>4, <2>5, UpTo, AfterIs, SamePrefix, ZenonT(30)
  <2>7. After(s, cut) = After(text, a + cut) /\ a + cut \in 0..Len(text)
    <3> HIDE DEF b
    <3> QED  BY <1>2, <1>3, <2>5, HeldLater DEF b
  <2>8. Ahead("thought", a) = Then(Means(e, given, e), later)
    <3>1. ThoughtMeans(s, f) = Then(Means(<<>>, SubSeq(s, 1, cut), <<>>), ThoughtMeans(After(s, cut), f))
      <4> HIDE DEF s, f
      <4> QED  BY <1>4, <1>5, <2>3, <2>5, ThoughtFirst
    <3>2. Ahead("thought", a) = ThoughtMeans(s, f) /\ later = ThoughtMeans(After(text, a + cut), f)
      BY DEF Ahead
    <3> QED  BY <2>6, <2>7, <3>1, <3>2, Zenon
  <2>9. later \in MeansRecords
    BY <2>7, AheadIs
  <2>10. Meaning(text) = Then(Means(v, w, values), later) /\ w \in Seq(Letters)
    <3> HIDE DEF v, r, e, given, later
    <3>1. Then(Means(v, r, values), Then(Means(e, given, e), later)) = Then(Means(v, r \o given, values), later)
      BY <1>3, <1>6, <1>e, <2>6, <2>9, AddsReasoning
    <3>2. r \o given \in Seq(Letters)
      BY <1>3, <2>6
    <3> QED  BY <1>6, <1>9, <2>8, <3>1, <3>2, Zenon
  <2>11. Starts(rest, ThoughtClose) = 0
    <3> HIDE DEF b
    <3>1. Starts(rest, ThoughtClose) = IF Starts(b, ThoughtClose) = 0 THEN 0 ELSE Starts(b, ThoughtClose) - cut
      BY <1>3, <2>2, <2>5, TagsAre, StartsLater
    <3> QED  BY <2>2, <3>1
  <2> HIDE DEF w
  <2>12. /\ q \in ParserRecords /\ q.mode = "thought" /\ q.buf = rest
         /\ q.visible = v /\ q.reasoning = w /\ q.calls = p.calls
    <3> HIDE DEF rest
    <3> QED  BY <1>1, <1>9, <2>6, <2>10 DEF ParserRecords
  <2> HIDE DEF q
  <2>13. Fits(q, n)
    BY <1>7, <1>9, <2>5, <2>10, <2>12, Zenon
  <2>14. Blocked(q)
    <3>1. q.mode # "normal"
      BY <2>12
    <3> QED  BY <2>11, <2>12, <3>1, Zenon DEF Blocked
  <2> QED  BY <2>1, <2>13, <2>14, Zenon
<1>10. CASE p.mode = "calls"
  <2>1. Released(p) = p
    BY <1>10 DEF Released
  <2> QED  BY <2>1
<1> QED  BY <1>1, <1>8, <1>9, <1>10

LEMMA RoundFits ==
  ASSUME text \in Seq(Letters), NEW n, NEW p, Fits(p, n)
  PROVE  /\ Fits(Round(p), n) /\ Len(p.buf) \in Nat /\ Len(Round(p).buf) \in Nat
         /\ IF Blocked(p) THEN Round(p) = p ELSE Len(Round(p).buf) < Len(p.buf)
<1>1. p.mode \in {"normal", "thought", "calls"}
  BY ParserIs DEF Fits
<1>2. CASE Blocked(p)
  BY <1>2 DEF Round
<1>3. CASE ~Blocked(p) /\ p.mode = "normal"
  <2>1. Round(p) = Opened(p)
    BY <1>3, Zenon DEF Round
  <2> QED  BY <1>3, <2>1, OpenedFits
<1>4. CASE ~Blocked(p) /\ p.mode = "thought"
  <2>1. Round(p) = ThoughtEnded(p)
    <3>1. p.mode # "normal"
      BY <1>4
    <3> QED  BY <1>4, <3>1, Zenon DEF Round
  <2> QED  BY <1>4, <2>1, ThoughtEndedFits
<1>5. CASE ~Blocked(p) /\ p.mode = "calls"
  <2>1. Round(p) = BlockEnded(p)
    <3>1. p.mode # "normal" /\ p.mode # "thought"
      BY <1>5
    <3> QED  BY <1>5, <3>1, Zenon DEF Round
  <2> QED  BY <1>5, <2>1, BlockEndedFits
<1>6. Fits(Round(p), n) /\ IF Blocked(p) THEN Round(p) = p ELSE Len(Round(p).buf) < Len(p.buf)
  BY <1>1, <1>2, <1>3, <1>4, <1>5, Zenon
<1>7. ASSUME NEW q, Fits(q, n) PROVE Len(q.buf) \in Nat
  <2>1. q.buf \in Seq(Letters)
    BY <1>7, ParserIs DEF Fits
  <2> QED  BY <2>1
<1> QED  BY <1>6, <1>7

LEMMA EmptyIsBlocked ==
  ASSUME NEW n, NEW p, Fits(p, n), Len(p.buf) <= 0 PROVE Blocked(p)
<1>1. p.buf \in Seq(Letters) /\ p.mode \in {"normal", "thought", "calls"}
  BY ParserIs DEF Fits
<1> DEFINE b == p.buf
<1>2. \A w \in Seq(Letters) : Starts(b, w) = 0
  <2>1. Len(b) = 0
    BY <1>1
  <2> HIDE DEF b
  <2>2. \A w \in Seq(Letters) : Starts(b, w) \in 0..Len(b)
    BY <1>1, StartsIs DEF b
  <2> QED  BY <2>1, <2>2
<1>3. Starts(b, ThoughtOpen) = 0 /\ Starts(b, CallsOpen) = 0 /\ Starts(b, ThoughtClose) = 0
      /\ Starts(b, CallsClose) = 0
  BY <1>2, TagsAre
<1> QED  BY <1>1, <1>3 DEF Blocked

(* r does the rounds of p.                                                 *)
Rolls(r, p) == r = [i \in 0..Len(p.buf) |-> IF i = 0 THEN p ELSE Round(r[i - 1])]

(* After as many rounds as there are letters no tag is left.               *)
LEMMA RoundsFit ==
  ASSUME text \in Seq(Letters), NEW n, NEW p, Fits(p, n)
  PROVE  Fits(Rounds(p), n) /\ Blocked(Rounds(p))
<1> DEFINE f == CHOOSE h : Rolls(h, p)
           k == Len(p.buf)
           S == {q \in ParserRecords : Fits(q, n)}
<1>0. k \in Nat /\ p \in S
  BY RoundFits DEF Fits
<1>1. Rounds(p) = Released(f[k])
  BY Zenon DEF Rounds, Rolls
<1>2. \E h : Rolls(h, p)
  <2> DEFINE g == [i \in 1..k |-> [x \in S |-> Round(x)]]
  <2>1. \A i \in 1..k : \A x \in S : g[i][x] = Round(x)
    OBVIOUS
  <2>2. g \in [1..k -> [S -> S]]
    <3>1. ASSUME NEW x \in S PROVE Round(x) \in S
      <4>1. Fits(Round(x), n)
        BY RoundFits
      <4> QED  BY <4>1 DEF Fits
    <3> HIDE DEF S
    <3> QED  BY <3>1
  <2> HIDE DEF g, k, S
  <2>3. PICK r \in [0..k -> S] : r[0] = p /\ \A i \in 1..k : r[i] = g[i][r[i - 1]]
    <3>1. \E r : Goes(r, S, p, k, g)
      BY <1>0, <2>2, Iterates
    <3> QED  BY <3>1 DEF Goes
  <2>4. ASSUME NEW i \in 0..k PROVE r[i] = IF i = 0 THEN p ELSE Round(r[i - 1])
    <3>1. CASE i = 0
      BY <2>3, <3>1
    <3>2. CASE i # 0
      <4>1. i \in 1..k /\ r[i - 1] \in S
        BY <1>0, <3>2
      <4> QED  BY <2>1, <2>3, <3>2, <4>1
    <3> QED  BY <3>1, <3>2
  <2>5. r = [i \in 0..k |-> IF i = 0 THEN p ELSE Round(r[i - 1])]
    BY <2>4
  <2> QED  BY <2>5, Zenon DEF Rolls, k
<1>3. Rolls(f, p)
  BY <1>2, Zenon
<1>4. \A i \in 0..k : f[i] = IF i = 0 THEN p ELSE Round(f[i - 1])
  BY <1>3, Zenon DEF Rolls
<1> HIDE DEF f, k
<1> DEFINE T == {i \in Nat : i <= k => Fits(f[i], n) /\ (Blocked(f[i]) \/ Len(f[i].buf) <= k - i)}
<1>5. 0 \in T
  <2>1. f[0] = p
    BY <1>0, <1>4
  <2>2. Len(p.buf) <= k - 0
    BY <1>0 DEF k
  <2> QED  BY <2>1, <2>2
<1>6. ASSUME NEW i \in Nat, i \in T PROVE i + 1 \in T
  <2> SUFFICES ASSUME i + 1 <= k
               PROVE  Fits(f[i + 1], n) /\ (Blocked(f[i + 1]) \/ Len(f[i + 1].buf) <= k - (i + 1))
    OBVIOUS
  <2>1. f[i + 1] = Round(f[i])
    <3>1. i + 1 \in 0..k /\ i + 1 # 0 /\ (i + 1) - 1 = i
      BY <1>0
    <3>2. f[i + 1] = Round(f[(i + 1) - 1])
      BY <1>4, <3>1
    <3> QED  BY <3>1, <3>2
  <2>2. Fits(f[i], n) /\ (Blocked(f[i]) \/ Len(f[i].buf) <= k - i)
    BY <1>0, <1>6
  <2> DEFINE q == f[i]
  <2> HIDE DEF q
  <2>3. Fits(q, n) /\ (Blocked(q) \/ Len(q.buf) <= k - i)
    BY <2>2 DEF q
  <2>4. /\ Fits(Round(q), n) /\ Len(q.buf) \in Nat /\ Len(Round(q).buf) \in Nat
        /\ IF Blocked(q) THEN Round(q) = q ELSE Len(Round(q).buf) < Len(q.buf)
    BY <2>3, RoundFits
  <2>5. CASE Blocked(q)
    <3>1. f[i + 1] = q
      BY <2>1, <2>4, <2>5, Zenon DEF q
    <3> QED  BY <2>3, <2>5, <3>1
  <2>6. CASE ~Blocked(q)
    <3>1. Len(Round(q).buf) <= k - (i + 1)
      BY <1>0, <2>3, <2>4, <2>6
    <3> QED  BY <2>1, <2>4, <3>1 DEF q
  <2> QED  BY <2>5, <2>6
<1>7. k \in T
  <2> HIDE DEF T
  <2> QED  BY <1>0, <1>5, <1>6, AllNumbers
<1> DEFINE q == f[k]
<1>8. Fits(q, n) /\ (Blocked(q) \/ Len(q.buf) <= 0)
  BY <1>0, <1>7
<1> HIDE DEF q
<1>9. Blocked(q)
  BY <1>8, EmptyIsBlocked
<1>10. Fits(Released(q), n) /\ Blocked(Released(q))
  BY <1>8, <1>9, ReleasedFits
<1> QED  BY <1>1, <1>10 DEF q

----------------------------------------------------------------------------
(* The inductive invariant: until the flush the parser fits what it has    *)
(* been fed and no tag is left in its buffer; after it the client has what *)
(* the text means.                                                         *)

Fresh == [buf |-> <<>>, mode |-> "normal", visible |-> <<>>, reasoning |-> <<>>, calls |-> <<>>]

Counted(calls, values) ==
    values \in Seq(Kinds) /\ calls = CallsFrom(0, values) /\ (HasString(values) => HasTexts(text))

Reading ==
    /\ Fits(parser, fed) /\ Blocked(parser)
    /\ finish \in {"stop", "length"}
    /\ HasMarker \/ parser = Fresh

IsRead ==
    /\ parser.buf = <<>> /\ finish \in {"stop", "length", "tool_calls"}
    /\ \E values : Counted(parser.calls, values)
    /\ CutsDoNotShow

DsmlInv ==
    /\ text \in Seq(Letters) /\ fed \in 0..Len(text)
    /\ IF parser.mode = "flushed" THEN IsRead ELSE Reading

LEMMA NoCalls ==
  ASSUME NEW e \in Empties PROVE CallsFrom(0, e) = e /\ e \in Seq(Kinds) /\ ~HasString(e)
<1>1. e = <<>> /\ e \in Seq(Kinds)
  BY EmptySeq DEF Empties
<1>2. CallsFrom(0, e) \in Seq(Calls) /\ Len(CallsFrom(0, e)) = 0
  <2>1. Len(e) = 0
    BY <1>1
  <2> QED  BY <1>1, <2>1, CallsFromIs
<1>3. CallsFrom(0, e) = <<>>
  <2> DEFINE x == CallsFrom(0, e)
  <2> HIDE DEF x
  <2>1. x \in Seq(Calls) /\ Len(x) = 0
    BY <1>2 DEF x
  <2>2. x = <<>>
    BY <2>1, EmptySeq
  <2> QED  BY <2>2 DEF x
<1> QED  BY <1>1, <1>3 DEF HasString

(* The last of what a text means.                                          *)
LEMMA AddsLast ==
  ASSUME NEW v \in Seq(Letters), NEW x \in Seq(Letters), NEW r \in Seq(Letters),
         NEW y \in Seq(Letters), NEW k \in Seq(Kinds), NEW z \in Seq(Kinds)
  PROVE  Then(Means(v, r, k), Means(x, y, z)) = Means(v \o x, r \o y, k \o z)
<1> DEFINE a == Means(v, r, k)
           b == Means(x, y, z)
<1>1. a.visible = v /\ a.reasoning = r /\ a.values = k
  BY MeansIs
<1>2. b.visible = x /\ b.reasoning = y /\ b.values = z
  BY MeansIs
<1> HIDE DEF a, b
<1>3. Then(a, b) = Means(v \o x, r \o y, k \o z)
  BY <1>1, <1>2, Zenon DEF Then
<1> QED  BY <1>3, Zenon DEF a, b

LEMMA InitIsRead == DsmlInit => DsmlInv
<1> SUFFICES ASSUME DsmlInit PROVE DsmlInv
  OBVIOUS
<1> DEFINE e == <<>>
           f == Understood(text)
<1>1. text \in Seq(STRING) /\ fed = 0 /\ parser = Fresh /\ finish \in {"stop", "length"}
  BY TextAssumption DEF DsmlInit, Fresh
<1>2. text \in Seq(Letters) /\ Len(text) \in Nat
  BY <1>1 DEF Letters
<1>e. e \in Empties /\ e \in Seq(Letters)
  BY EmptySeq DEF Empties
<1>3. CallsFrom(0, e) = e /\ e \in Seq(Kinds) /\ ~HasString(e)
  BY <1>e, NoCalls
<1>4. parser \in ParserRecords /\ parser.mode = "normal" /\ parser.buf = e /\ parser.visible = e
      /\ parser.reasoning = e /\ parser.calls = e
  <2>1. e \in NumberedCalls
    BY <1>3 DEF NumberedCalls
  <2> QED  BY <1>1, <1>e, <2>1 DEF Fresh, ParserRecords
<1>5. Meaning(text) = Then(Means(e, e, e), Ahead("normal", 0))
  <2>1. 0 \in 0..Len(text) /\ Len(text) - 0 = Len(text)
    BY <1>2
  <2>2. f[Len(text)] \in MeansRecords /\ f[Len(text)] = TextMeans(After(text, 0), f)
    BY <1>2, <2>1, UnderstoodAt
  <2>3. Meaning(text) = f[Len(text)]
    BY <1>2, UnderstoodIs
  <2>4. Ahead("normal", 0) = TextMeans(After(text, 0), f)
    BY DEF Ahead
  <2>5. Ahead("normal", 0) = Meaning(text) /\ Meaning(text) \in MeansRecords
    BY <2>2, <2>3, <2>4, Zenon
  <2> QED  BY <2>5, NothingThen
<1>6. Holds(parser.buf, 0, fed)
  BY <1>1, <1>2, <1>4 DEF Holds
<1>7. Tells(parser, e, 0)
  <2> HIDE DEF e
  <2> QED  BY <1>3, <1>4, <1>5, Zenon DEF Tells
<1>8. Fits(parser, fed)
  <2> HIDE DEF e
  <2>1. parser.mode # "flushed"
    BY <1>4
  <2> QED  BY <1>4, <1>6, <1>7, <2>1 DEF Fits
<1>9. Blocked(parser)
  <2>1. Len(parser.buf) <= 0
    BY <1>4
  <2> QED  BY <1>8, <2>1, EmptyIsBlocked
<1> QED  BY <1>1, <1>2, <1>4, <1>8, <1>9 DEF DsmlInv, Reading

(* The next letters go to the end of the buffer.                           *)
LEMMA FedHolds ==
  ASSUME text \in Seq(Letters), NEW b \in Seq(Letters), NEW a, NEW n, Holds(b, a, n),
         NEW k \in Nat, n + k <= Len(text)
  PROVE  /\ b \o SubSeq(text, n + 1, n + k) \in Seq(Letters)
         /\ Holds(b \o SubSeq(text, n + 1, n + k), a, n + k)
<1> DEFINE x == SubSeq(text, n + 1, n + k)
           u == b \o x
<1>1. a \in Nat /\ n \in Nat /\ Len(b) \in Nat /\ a + Len(b) = n /\ Len(text) \in Nat
      /\ \A i \in 1..Len(b) : b[i] = text[a + i]
  BY DEF Holds
<1>2. x \in Seq(Letters) /\ Len(x) = k /\ \A i \in 1..k : x[i] = text[n + i]
  <2>1. n + 1 \in 1..Len(text) + 1 /\ n + k \in 0..Len(text) /\ (n + k) - (n + 1) + 1 = k
    BY <1>1
  <2> QED  BY <1>1, <2>1
<1> HIDE DEF x
<1>3. /\ u \in Seq(Letters) /\ Len(u) = Len(b) + k
      /\ \A i \in 1..Len(b) + k : u[i] = IF i <= Len(b) THEN b[i] ELSE x[i - Len(b)]
  BY <1>2, Joined
<1> HIDE DEF u
<1> DEFINE l == Len(b)
<1>l. l \in Nat /\ Len(u) = l + k /\ a + l = n /\ a \in Nat
  BY <1>1, <1>3
<1> HIDE DEF l
<1>4. ASSUME NEW i \in 1..Len(u) PROVE u[i] = text[a + i]
  <2>1. CASE i <= Len(b)
    BY <1>1, <1>3, <2>1
  <2>2. CASE i > Len(b)
    <3>1. i - l \in 1..k /\ n + (i - l) = a + i /\ ~(i <= l) /\ i \in 1..l + k
      BY <1>l, <2>2 DEF l
    <3>2. u[i] = x[i - l] /\ x[i - l] = text[n + (i - l)]
      BY <1>2, <1>3, <3>1 DEF l
    <3> QED  BY <3>1, <3>2
  <2>3. i <= Len(b) \/ i > Len(b)
    BY <1>1, <1>3
  <2> QED  BY <2>1, <2>2, <2>3
<1>5. n + k \in Nat /\ a + Len(u) = n + k
  BY <1>l
<1> QED  BY <1>1, <1>3, <1>4, <1>5, Zenon DEF Holds, u, x

LEMMA FeedIsRead == ASSUME DsmlInv, NEW n \in Nat, Feed(n) PROVE DsmlInv'
<1> DEFINE x == SubSeq(text, fed + 1, fed + n)
           b == parser.buf
           p == [parser EXCEPT !.buf = b \o x]
<1>1. text \in Seq(Letters) /\ fed \in 0..Len(text) /\ Reading
  BY DEF DsmlInv, Feed
<1>2. fed + n <= Len(text) /\ fed' = fed + n /\ parser' = Rounds(p) /\ HasMarker
      /\ text' = text /\ finish' = finish
  BY DEF Feed
<1>3. parser \in ParserRecords /\ parser.mode # "flushed" /\ b \in Seq(Letters)
  BY <1>1, ParserIs DEF Reading, Fits
<1>4. PICK a, values : Holds(b, a, fed) /\ Tells(parser, values, a)
  BY <1>1 DEF Reading, Fits
<1>5. b \o x \in Seq(Letters) /\ Holds(b \o x, a, fed + n)
  <2> HIDE DEF b
  <2> QED  BY <1>1, <1>2, <1>3, <1>4, FedHolds
<1>6. /\ p \in ParserRecords /\ p.mode = parser.mode /\ p.buf = b \o x /\ p.visible = parser.visible
      /\ p.reasoning = parser.reasoning /\ p.calls = parser.calls
  <2> DEFINE w == b \o x
  <2> HIDE DEF w
  <2>1. p = [parser EXCEPT !.buf = w] /\ w \in Seq(Letters)
    BY <1>5 DEF w
  <2>2. /\ p \in ParserRecords /\ p.mode = parser.mode /\ p.buf = w /\ p.visible = parser.visible
        /\ p.reasoning = parser.reasoning /\ p.calls = parser.calls
    BY <1>3, <2>1 DEF ParserRecords
  <2> QED  BY <2>2 DEF w
<1> HIDE DEF p
<1>7. Fits(p, fed + n)
  <2>1. Tells(p, values, a)
    BY <1>4, <1>6, Zenon DEF Tells
  <2> HIDE DEF b, x
  <2> QED  BY <1>3, <1>5, <1>6, <2>1, Zenon DEF Fits
<1>8. Fits(Rounds(p), fed + n) /\ Blocked(Rounds(p))
  BY <1>1, <1>7, RoundsFit
<1>9. Reading'
  <2>1. Fits(parser, fed)'
    <3>1. (Fits(parser, fed))' <=> Fits(parser', fed')
      BY <1>2, Zenon DEF Fits, Holds, Tells, Ahead, HasTexts
    <3> QED  BY <1>2, <1>8, <3>1, Zenon
  <2>2. Blocked(parser)'
    BY <1>2, <1>8 DEF Blocked
  <2>3. HasMarker'
    BY <1>2 DEF HasMarker
  <2> QED  BY <1>1, <1>2, <2>1, <2>2, <2>3 DEF Reading
<1>10. text' \in Seq(Letters) /\ fed' \in 0..Len(text') /\ parser'.mode # "flushed"
  <2>1. fed' \in 0..Len(text)
    BY <1>1, <1>2
  <2> QED  BY <1>1, <1>2, <1>8, <2>1 DEF Fits
<1> QED  BY <1>9, <1>10 DEF DsmlInv

(* At the end of the text, without a tag, the buffer is what lies ahead.   *)
LEMMA LastAhead ==
  ASSUME text \in Seq(Letters), NEW b \in Seq(Letters), NEW a, Holds(b, a, Len(text)),
         NEW mode \in {"normal", "thought", "calls"}, NEW e \in Empties,
         mode = "normal" => Starts(b, ThoughtOpen) = 0 /\ Starts(b, CallsOpen) = 0,
         mode = "thought" => Starts(b, ThoughtClose) = 0,
         mode = "calls" => Starts(b, CallsClose) = 0
  PROVE  Ahead(mode, a) = IF mode = "normal" THEN Means(b, e, e)
                          ELSE IF mode = "thought" THEN Means(e, b, e)
                          ELSE Means(CallsOpen \o b, e, e)
<1> DEFINE s == After(text, a)
           f == Understood(text)
<1>1. a \in Nat /\ Len(b) \in Nat /\ Len(text) \in Nat /\ a + Len(b) = Len(text) /\ a \in 0..Len(text)
      /\ \A i \in 1..Len(b) : b[i] = text[a + i]
  BY DEF Holds
<1>2. s \in Seq(Letters) /\ Len(s) = Len(text) - a /\ \A i \in 1..Len(text) - a : s[i] = text[a + i]
  BY <1>1, AfterIs
<1> HIDE DEF s, f
<1>3. s = b
  <2>1. Len(s) = Len(b) /\ \A i \in 1..Len(s) : s[i] = b[i]
    BY <1>1, <1>2
  <2> QED  BY <1>2, <2>1, SeqEqual
<1>4. e = <<>>
  BY DEF Empties
<1>5. CASE mode = "normal"
  <2>1. TextMeans(b, f) = Means(b, e, e)
    BY <1>4, <1>5 DEF TextMeans
  <2> QED  BY <1>3, <1>5, <2>1 DEF Ahead, s, f
<1>6. CASE mode = "thought"
  <2>1. ThoughtMeans(b, f) = Means(e, b, e)
    BY <1>4, <1>6 DEF ThoughtMeans
  <2> QED  BY <1>3, <1>6, <2>1 DEF Ahead, s, f
<1>7. CASE mode = "calls"
  <2>1. BlockMeans(b, f) = Means(CallsOpen \o b, e, e)
    BY <1>4, <1>7 DEF BlockMeans
  <2> QED  BY <1>3, <1>7, <2>1 DEF Ahead, s, f
<1> QED  BY <1>5, <1>6, <1>7

LEMMA FlushIsRead == ASSUME DsmlInv, Flush PROVE DsmlInv'
<1> DEFINE b == parser.buf
           v == parser.visible
           r == parser.reasoning
           mode == parser.mode
           e == <<>>
           w == v \o CASE mode = "normal" -> b
                       [] mode = "calls" -> CallsOpen \o b
                       [] mode = "thought" -> e
           y == IF mode = "thought" THEN r \o b ELSE r
<1>1. text \in Seq(Letters) /\ fed \in 0..Len(text) /\ Reading
  BY DEF DsmlInv, Flush
<1>2. fed = Len(text) /\ text' = text /\ fed' = fed
      /\ finish' = IF parser.calls # <<>> /\ finish = "stop" THEN "tool_calls" ELSE finish
  BY DEF Flush
<1>3. parser' = [parser EXCEPT !.mode = "flushed", !.buf = <<>>, !.visible = w, !.reasoning = y]
  BY Zenon DEF Flush
<1>4. parser \in ParserRecords /\ mode \in {"normal", "thought", "calls"}
  BY <1>1, ParserIs DEF Reading, Fits
<1>5. b \in Seq(Letters) /\ v \in Seq(Letters) /\ r \in Seq(Letters)
  BY <1>4, ParserIs
<1>6. PICK a, values : Holds(b, a, fed) /\ Tells(parser, values, a)
  BY <1>1 DEF Reading, Fits
<1>7. Counted(parser.calls, values) /\ Meaning(text) = Then(Means(v, r, values), Ahead(mode, a))
  BY <1>6 DEF Tells, Counted
<1>e. e \in Empties /\ e \in Seq(Letters) /\ e \in Seq(Kinds)
  BY EmptySeq DEF Empties
<1>8. Ahead(mode, a) = IF mode = "normal" THEN Means(b, e, e)
                       ELSE IF mode = "thought" THEN Means(e, b, e)
                       ELSE Means(CallsOpen \o b, e, e)
  <2>1. /\ mode = "normal" => Starts(b, ThoughtOpen) = 0 /\ Starts(b, CallsOpen) = 0
        /\ mode = "thought" => Starts(b, ThoughtClose) = 0
        /\ mode = "calls" => Starts(b, CallsClose) = 0
    BY <1>1 DEF Reading, Blocked
  <2>2. Holds(b, a, Len(text))
    BY <1>2, <1>6
  <2> HIDE DEF b, mode, e
  <2> QED  BY <1>1, <1>4, <1>5, <1>e, <2>1, <2>2, LastAhead
<1>9. Meaning(text).visible = w /\ Meaning(text).reasoning = y /\ Meaning(text).values = values
      /\ w \in Seq(Letters) /\ y \in Seq(Letters)
  <2>1. values \in Seq(Kinds)
    BY <1>7 DEF Counted
  <2>2. ASSUME NEW q \in Seq(Letters) PROVE q \o e = q
    OBVIOUS
  <2>3. values \o e = values
    BY <2>1
  <2>4. v \o e = v /\ r \o e = r
    BY <1>5, <2>2
  <2>5. CASE mode = "normal"
    <3>1. w = v \o b /\ y = r
      BY <2>5
    <3>2. Meaning(text) = Then(Means(v, r, values), Means(b, e, e))
      BY <1>7, <1>8, <2>5, Zenon
    <3> HIDE DEF v, r, b, e, w, y
    <3>3. v \o b \in Seq(Letters)
      BY <1>5
    <3>4. Then(Means(v, r, values), Means(b, e, e)) = Means(v \o b, r \o e, values \o e)
      BY <1>5, <1>e, <2>1, AddsLast
    <3>5. Meaning(text) = Means(w, y, values)
      BY <2>3, <2>4, <3>1, <3>2, <3>4, Zenon
    <3>6. w \in Seq(Letters) /\ y \in Seq(Letters)
      BY <1>5, <2>4, <3>1, <3>3, Zenon
    <3> QED  BY <2>1, <3>5, <3>6, MeansIs
  <2>6. CASE mode = "thought"
    <3>1. w = v \o e /\ y = r \o b
      <4>1. mode # "normal" /\ mode # "calls"
        BY <2>6
      <4> QED  BY <2>6, <4>1, Zenon
    <3>2. Meaning(text) = Then(Means(v, r, values), Means(e, b, e))
      <4>1. mode # "normal"
        BY <2>6
      <4> QED  BY <1>7, <1>8, <2>6, <4>1, Zenon
    <3> HIDE DEF v, r, b, e, w, y
    <3>3. r \o b \in Seq(Letters)
      BY <1>5
    <3>4. Then(Means(v, r, values), Means(e, b, e)) = Means(v \o e, r \o b, values \o e)
      BY <1>5, <1>e, <2>1, AddsLast
    <3>5. Meaning(text) = Means(w, y, values)
      BY <2>3, <2>4, <3>1, <3>2, <3>4, Zenon
    <3>6. w \in Seq(Letters) /\ y \in Seq(Letters)
      BY <1>5, <2>4, <3>1, <3>3, Zenon
    <3> QED  BY <2>1, <3>5, <3>6, MeansIs
  <2>7. CASE mode = "calls"
    <3> DEFINE x == CallsOpen \o b
    <3>1. w = v \o x /\ y = r
      <4>1. mode # "normal" /\ mode # "thought"
        BY <2>7
      <4> QED  BY <2>7, <4>1, Zenon
    <3>2. Meaning(text) = Then(Means(v, r, values), Means(x, e, e))
      <4>1. mode # "normal" /\ mode # "thought"
        BY <2>7
      <4> QED  BY <1>7, <1>8, <2>7, <4>1, Zenon
    <3>a. x \in Seq(Letters)
      <4> HIDE DEF b
      <4> QED  BY <1>5, TagsAre
    <3> HIDE DEF v, r, e, w, x, y
    <3>3. v \o x \in Seq(Letters)
      BY <1>5, <3>a
    <3>4. Then(Means(v, r, values), Means(x, e, e)) = Means(v \o x, r \o e, values \o e)
      BY <1>5, <1>e, <2>1, <3>a, AddsLast
    <3>5. Meaning(text) = Means(w, y, values)
      BY <2>3, <2>4, <3>1, <3>2, <3>4, Zenon
    <3>6. w \in Seq(Letters) /\ y \in Seq(Letters)
      BY <1>5, <2>4, <3>1, <3>3, Zenon
    <3> QED  BY <2>1, <3>5, <3>6, MeansIs
  <2> QED  BY <1>4, <2>5, <2>6, <2>7
<1> HIDE DEF w, y
<1>10. parser'.mode = "flushed" /\ parser'.buf = <<>> /\ parser'.visible = w /\ parser'.reasoning = y
       /\ parser'.calls = parser.calls
  BY <1>3, <1>4 DEF ParserRecords
<1>11. finish' \in {"stop", "length", "tool_calls"}
       /\ (parser'.calls # <<>> => finish' \in {"tool_calls", "length"})
  <2>1. finish \in {"stop", "length"}
    BY <1>1 DEF Reading
  <2> QED  BY <1>2, <1>10, <2>1
<1>12. Meaning(text') = Meaning(text)
  BY <1>2
<1>13. CutsDoNotShow'
  <2>1. parser'.calls = CallsFrom(0, values)
    BY <1>7, <1>10 DEF Counted
  <2>2. LET m == Meaning(text') IN /\ parser'.visible = m.visible /\ parser'.reasoning = m.reasoning
                                   /\ parser'.calls = CallsFrom(0, m.values)
    BY <1>9, <1>10, <1>12, <2>1, Zenon
  <2>3. (Meaning(text))' = Meaning(text')
    BY Zenon DEF Meaning, TextMeans, ThoughtMeans, BlockMeans
  <2> QED  BY <1>11, <2>2, <2>3, Zenon DEF CutsDoNotShow
<1>14. (\E k : Counted(parser.calls, k))'
  <2>1. Counted(parser'.calls, values)
    BY <1>7, <1>10
  <2>2. HasTexts(text)' <=> HasTexts(text)
    BY <1>2 DEF HasTexts
  <2> QED  BY <2>1, <2>2, Zenon DEF Counted
<1>15. IsRead'
  BY <1>10, <1>11, <1>13, <1>14 DEF IsRead
<1> QED  BY <1>1, <1>2, <1>10, <1>15 DEF DsmlInv

LEMMA PassOnIsRead == ASSUME DsmlInv, PassOn PROVE DsmlInv'
<1> DEFINE e == <<>>
           f == Understood(text)
<1>1. text \in Seq(Letters) /\ fed \in 0..Len(text) /\ Reading
  BY DEF DsmlInv, PassOn
<1>2. parser = Fresh /\ text' = text /\ finish' = finish /\ fed' = Len(text)
      /\ parser' = [parser EXCEPT !.mode = "flushed", !.visible = text]
  BY <1>1 DEF PassOn, Reading
<1>3. parser' = [buf |-> e, mode |-> "flushed", visible |-> text, reasoning |-> e, calls |-> e]
  BY <1>2 DEF Fresh
<1>e. e \in Empties /\ e \in Seq(Letters) /\ e \in Seq(Kinds)
  BY EmptySeq DEF Empties
<1> HIDE DEF e
<1>4. CallsFrom(0, e) = e /\ ~HasString(e)
  BY <1>e, NoCalls
<1>5. Meaning(text) = Means(text, e, e)
  <2>1. Starts(text, ThoughtOpen) = 0 /\ Starts(text, CallsOpen) = 0
    BY DEF PassOn, HasMarker
  <2>2. After(text, 0) = text
    BY <1>1 DEF After
  <2>3. Meaning(text) = TextMeans(text, f)
    <3>1. 0 \in 0..Len(text) /\ Len(text) - 0 = Len(text)
      BY <1>1
    <3>2. f[Len(text)] = TextMeans(After(text, 0), f) /\ Meaning(text) = f[Len(text)]
      BY <1>1, <3>1, UnderstoodAt, UnderstoodIs
    <3> QED  BY <2>2, <3>2
  <2> HIDE DEF f
  <2> QED  BY <2>1, <2>3 DEF TextMeans, e
<1>6. Meaning(text).visible = text /\ Meaning(text).reasoning = e /\ Meaning(text).values = e
  BY <1>1, <1>e, <1>5, MeansIs
<1>7. CutsDoNotShow'
  <2>1. parser'.visible = text /\ parser'.reasoning = e /\ parser'.calls = e
    BY <1>3
  <2>2. (Meaning(text))' = Meaning(text)
    <3>1. Meaning(text') = Meaning(text)
      BY <1>2
    <3>2. (Meaning(text))' = Meaning(text')
      BY Zenon DEF Meaning, TextMeans, ThoughtMeans, BlockMeans
    <3> QED  BY <3>1, <3>2
  <2>3. e = <<>>
    BY DEF e
  <2> QED  BY <1>4, <1>6, <2>1, <2>2, <2>3, Zenon DEF CutsDoNotShow
<1>8. (\E values : Counted(parser.calls, values))'
  <2>1. parser'.calls = e
    BY <1>3
  <2>2. Counted(e, e)'
    BY <1>e, <1>4, Zenon DEF Counted
  <2> QED  BY <2>1, <2>2, Zenon DEF Counted
<1>9. parser'.mode = "flushed" /\ parser'.buf = <<>> /\ finish' \in {"stop", "length", "tool_calls"}
      /\ fed' \in 0..Len(text')
  <2>1. Len(text) \in 0..Len(text)
    BY <1>1
  <2>2. parser'.mode = "flushed" /\ parser'.buf = e
    BY <1>3
  <2>3. finish \in {"stop", "length"}
    BY <1>1 DEF Reading
  <2> QED  BY <1>2, <2>1, <2>2, <2>3 DEF e
<1>10. IsRead'
  BY <1>7, <1>8, <1>9, Zenon DEF IsRead
<1> QED  BY <1>1, <1>2, <1>9, <1>10 DEF DsmlInv

LEMMA StepIsRead == DsmlInv /\ [DsmlNext]_dsmlVars => DsmlInv'
<1> SUFFICES ASSUME DsmlInv, [DsmlNext]_dsmlVars PROVE DsmlInv'
  OBVIOUS
<1>1. CASE Flush
  BY <1>1, FlushIsRead
<1>2. CASE PassOn
  BY <1>2, PassOnIsRead
<1>3. ASSUME NEW n \in Cuts \union {Len(text) - fed}, Feed(n) PROVE DsmlInv'
  <2>1. text \in Seq(Letters) /\ fed \in 0..Len(text)
    BY DEF DsmlInv
  <2>2. n \in Nat
    BY <1>3, <2>1, TextAssumption
  <2> QED  BY <1>3, <2>2, FeedIsRead
<1>4. CASE UNCHANGED dsmlVars
  <2>1. text' = text /\ fed' = fed /\ parser' = parser /\ finish' = finish
    BY <1>4 DEF dsmlVars
  <2>2. (Meaning(text))' = Meaning(text)
    <3>1. Meaning(text') = Meaning(text)
      BY <2>1
    <3>2. (Meaning(text))' = Meaning(text')
      BY Zenon DEF Meaning, TextMeans, ThoughtMeans, BlockMeans
    <3> QED  BY <3>1, <3>2
  <2>3. CutsDoNotShow' <=> CutsDoNotShow
    BY <2>1, <2>2, Zenon DEF CutsDoNotShow
  <2>4. (\E values : Counted(parser.calls, values))' <=> \E values : Counted(parser.calls, values)
    BY <2>1, Zenon DEF Counted, HasTexts
  <2>5. IsRead' <=> IsRead
    BY <2>1, <2>3, <2>4, Zenon DEF IsRead
  <2>6. Fits(parser, fed)' <=> Fits(parser, fed)
    <3>1. (Fits(parser, fed))' <=> Fits(parser', fed')
      BY <2>1, Zenon DEF Fits, Holds, Tells, Ahead, HasTexts
    <3> QED  BY <2>1, <3>1, Zenon
  <2>7. Blocked(parser)' <=> Blocked(parser)
    BY <2>1 DEF Blocked
  <2>8. HasMarker' <=> HasMarker
    BY <2>1 DEF HasMarker
  <2>9. Reading' <=> Reading
    BY <2>1, <2>6, <2>7, <2>8, Zenon DEF Reading
  <2> QED  BY <2>1, <2>5, <2>9, Zenon DEF DsmlInv
<1> QED  BY <1>1, <1>2, <1>3, <1>4 DEF DsmlNext

LEMMA CountedIs ==
  ASSUME NEW calls, NEW values, Counted(calls, values)
  PROVE  /\ \A k \in DOMAIN calls : calls[k].index = k - 1
         /\ (\E k \in DOMAIN calls : calls[k].value = "string") => HasTexts(text)
<1>1. values \in Seq(Kinds) /\ calls = CallsFrom(0, values) /\ (HasString(values) => HasTexts(text))
  BY DEF Counted
<1>2. DOMAIN calls = DOMAIN values /\ DOMAIN values = 1..Len(values)
  BY <1>1 DEF CallsFrom
<1>3. \A k \in DOMAIN calls : calls[k] = [index |-> 0 + k - 1, value |-> values[k]]
  BY <1>1 DEF CallsFrom
<1>4. ASSUME NEW k \in DOMAIN calls PROVE calls[k].index = k - 1 /\ calls[k].value = values[k]
  <2>1. 0 + k - 1 = k - 1
    BY <1>2
  <2> QED  BY <1>3, <2>1
<1> QED  BY <1>1, <1>2, <1>4 DEF HasString

LEMMA InvIsTyped == DsmlInv => DsmlTypeOK
<1> SUFFICES ASSUME DsmlInv PROVE DsmlTypeOK
  OBVIOUS
<1>1. fed \in 0..Len(text) /\ text \in Seq(Letters)
  BY DEF DsmlInv
<1>2. CASE parser.mode = "flushed"
  <2>1. IsRead
    BY <1>2 DEF DsmlInv
  <2>2. PICK values : Counted(parser.calls, values)
    BY <2>1 DEF IsRead
  <2>3. \A k \in DOMAIN parser.calls : parser.calls[k].index = k - 1
    BY <2>2, CountedIs
  <2>4. Len(parser.buf) <= fed
    <3>1. Len(parser.buf) = 0 /\ fed \in Nat
      BY <1>1, <2>1 DEF IsRead
    <3> QED  BY <3>1
  <2> QED  BY <1>1, <1>2, <2>1, <2>3, <2>4 DEF DsmlTypeOK, IsRead
<1>3. CASE parser.mode # "flushed"
  <2>1. Reading
    BY <1>3 DEF DsmlInv
  <2>2. PICK a, values : Holds(parser.buf, a, fed) /\ Tells(parser, values, a)
    BY <2>1 DEF Reading, Fits
  <2>3. parser.buf \in Seq(Letters) /\ parser.mode \in {"normal", "thought", "calls", "flushed"}
    BY <2>1, ParserIs DEF Reading, Fits
  <2>4. Counted(parser.calls, values)
    BY <2>2 DEF Tells, Counted
  <2>5. \A k \in DOMAIN parser.calls : parser.calls[k].index = k - 1
    BY <2>4, CountedIs
  <2>6. Len(parser.buf) <= fed
    BY <2>2, <2>3 DEF Holds
  <2> QED  BY <1>1, <2>1, <2>3, <2>5, <2>6 DEF DsmlTypeOK, Reading
<1> QED  BY <1>2, <1>3

LEMMA InvIsRead == DsmlInv => TextIsRead
<1> SUFFICES ASSUME DsmlInv PROVE TextIsRead
  OBVIOUS
<1>1. CutsDoNotShow
  BY DEF DsmlInv, IsRead, CutsDoNotShow
<1>2. \E values : Counted(parser.calls, values)
  BY DEF DsmlInv, IsRead, Reading, Fits, Tells, Counted
<1>3. NumbersAreNumbers
  BY <1>2, CountedIs DEF NumbersAreNumbers, HasTexts
<1> QED  BY <1>1, <1>3 DEF TextIsRead

THEOREM DsmlInvHolds == DsmlSpec => []DsmlInv
<1> QED  BY InitIsRead, StepIsRead, PTL DEF DsmlSpec

(* The buffer never holds more than has been fed, and the calls are        *)
(* numbered as they were made, through all blocks of all texts: what       *)
(* DsmlStreamParser keeps from delta to delta.                             *)
THEOREM DsmlTypeIsKept == DsmlSpec => []DsmlTypeOK
<1> QED  BY DsmlInvHolds, InvIsTyped, PTL

(* Feed and Flush: whatever a model writes and wherever the deltas are cut *)
(* the client gets the visible text, the thoughts and the calls that the   *)
(* whole text means, each letter once, and a number as a number.           *)
THEOREM TextsAreRead == DsmlSpec => []TextIsRead
<1> QED  BY DsmlInvHolds, InvIsRead, PTL
=============================================================================
