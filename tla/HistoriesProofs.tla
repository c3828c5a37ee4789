-------------------------- MODULE HistoriesProofs --------------------------
(***************************************************************************)
(* Whatever history a client sends, and whatever plugin it goes through.   *)
(***************************************************************************)
EXTENDS Histories, DsmlProofs

(* Joining pieces: f joins the first n of them, one after the other.       *)
Joins(f, s, n) == f = [i \in 1..n |-> IF i = 1 THEN s[i] ELSE f[i - 1] \o s[i]]

LEMMA JoinsIs ==
  ASSUME NEW s, NEW n \in Nat, NEW f, Joins(f, s, n), NEW i \in 1..n
  PROVE  f[i] = IF i = 1 THEN s[i] ELSE f[i - 1] \o s[i]
BY Zenon DEF Joins

LEMMA JoinsNext ==
  ASSUME NEW s, NEW l \in Nat, NEW f, Joins(f, s, l), NEW n \in Nat, n + 1 \in 1..l
  PROVE  f[n + 1] = IF n = 0 THEN s[1] ELSE f[n] \o s[n + 1]
<1>1. f[n + 1] = IF n + 1 = 1 THEN s[n + 1] ELSE f[n + 1 - 1] \o s[n + 1]
  BY JoinsIs
<1>2. n + 1 - 1 = n /\ (n + 1 = 1 <=> n = 0)
  OBVIOUS
<1>3. CASE n = 0
  BY <1>1, <1>2, <1>3
<1>4. CASE n # 0
  BY <1>1, <1>2, <1>4
<1> QED  BY <1>3, <1>4

LEMMA JoinsExist == ASSUME NEW s, NEW n \in Nat PROVE \E f : Joins(f, s, n)
<1> DEFINE T == {m \in Nat : \E f : Joins(f, s, m)}
<1>1. 0 \in T
  <2>1. Joins([i \in 1..0 |-> s[i]], s, 0)
    BY DEF Joins
  <2> QED  BY <2>1
<1>2. ASSUME NEW m \in Nat, m \in T PROVE m + 1 \in T
  <2>1. PICK f : Joins(f, s, m)
    BY <1>2
  <2> DEFINE last == IF m = 0 THEN s[1] ELSE f[m] \o s[m + 1]
             g == [i \in 1..m + 1 |-> IF i = m + 1 THEN last ELSE f[i]]
  <2>2. \A i \in 1..m : f[i] = IF i = 1 THEN s[i] ELSE f[i - 1] \o s[i]
    BY <2>1, Zenon DEF Joins
  <2>3. ASSUME NEW i \in 1..m + 1 PROVE g[i] = IF i = 1 THEN s[i] ELSE g[i - 1] \o s[i]
    <3>1. CASE i = m + 1
      <4>1. i # 1 => m # 0 /\ i - 1 = m /\ g[i - 1] = f[m]
        BY <3>1
      <4> QED  BY <3>1, <4>1
    <3>2. CASE i # m + 1
      <4>1. i \in 1..m /\ g[i] = f[i]
        BY <3>2
      <4>2. i # 1 => i - 1 \in 1..m + 1 /\ i - 1 # m + 1 /\ g[i - 1] = f[i - 1]
        BY <3>2
      <4> HIDE DEF g
      <4> QED  BY <2>2, <4>1, <4>2
    <3> QED  BY <3>1, <3>2
  <2>4. Joins(g, s, m + 1)
    <3>1. g = [i \in 1..m + 1 |-> g[i]]
      OBVIOUS
    <3> HIDE DEF g
    <3>2. [i \in 1..m + 1 |-> g[i]] = [i \in 1..m + 1 |-> IF i = 1 THEN s[i] ELSE g[i - 1] \o s[i]]
      BY <2>3, Zenon
    <3> QED  BY <3>1, <3>2, Zenon DEF Joins
  <2> QED  BY <2>4
<1>3. Nat \subseteq T
  <2> HIDE DEF T
  <2> QED  BY <1>1, <1>2, AllNumbers
<1> QED  BY <1>3

(* Where each element comes from: the piece, and the place in it.          *)
Spreads(out, s, n, src, off) ==
    /\ src \in [1..Len(out) -> 1..n] /\ off \in [1..Len(out) -> Nat]
    /\ \A j \in 1..Len(out) : off[j] \in 1..Len(s[src[j]]) /\ out[j] = s[src[j]][off[j]]
    /\ \A i, j \in 1..Len(out) : i < j =>
          src[i] < src[j] \/ (src[i] = src[j] /\ off[i] < off[j])
    /\ \A p \in 1..n : \A k \in 1..Len(s[p]) :
          \E j \in 1..Len(out) : src[j] = p /\ off[j] = k

LEMMA SpreadsFirst ==
  ASSUME NEW S, NEW s, s[1] \in Seq(S)
  PROVE  \E src, off : Spreads(s[1], s, 1, src, off)
<1> DEFINE l == Len(s[1])
           src == [j \in 1..l |-> 1]
           off == [j \in 1..l |-> j]
<1>1. l \in Nat
  OBVIOUS
<1>2. src \in [1..l -> 1..1] /\ off \in [1..l -> Nat]
  OBVIOUS
<1>3. \A j \in 1..l : src[j] = 1 /\ off[j] = j
  OBVIOUS
<1> HIDE DEF src, off
<1>4. \A p \in 1..1 : p = 1
  OBVIOUS
<1>5. Spreads(s[1], s, 1, src, off)
  BY <1>1, <1>2, <1>3, <1>4 DEF Spreads
<1> QED  BY <1>5

LEMMA SpreadsMore ==
  ASSUME NEW S, NEW s, NEW n \in Nat, NEW out \in Seq(S), s[n + 1] \in Seq(S),
         NEW src, NEW off, Spreads(out, s, n, src, off)
  PROVE  \E a, b : Spreads(out \o s[n + 1], s, n + 1, a, b)
<1> DEFINE x == s[n + 1]
           u == out \o x
           l == Len(out)
           k == Len(x)
           a == [j \in 1..l + k |-> IF j <= l THEN src[j] ELSE n + 1]
           b == [j \in 1..l + k |-> IF j <= l THEN off[j] ELSE j - l]
<1>1. l \in Nat /\ k \in Nat
  OBVIOUS
<1>2. /\ u \in Seq(S) /\ Len(u) = l + k
      /\ \A j \in 1..l + k : u[j] = IF j <= l THEN out[j] ELSE x[j - l]
  OBVIOUS
<1>3. /\ src \in [1..l -> 1..n] /\ off \in [1..l -> Nat]
      /\ \A j \in 1..l : off[j] \in 1..Len(s[src[j]]) /\ out[j] = s[src[j]][off[j]]
      /\ \A i, j \in 1..l : i < j => src[i] < src[j] \/ (src[i] = src[j] /\ off[i] < off[j])
      /\ \A p \in 1..n : \A m \in 1..Len(s[p]) : \E j \in 1..l : src[j] = p /\ off[j] = m
  BY DEF Spreads
<1> HIDE DEF u, l, k
<1>4. ASSUME NEW j \in 1..l + k
      PROVE  \/ j \in 1..l /\ a[j] = src[j] /\ b[j] = off[j] /\ src[j] \in 1..n /\ off[j] \in Nat
             \/ j > l /\ j - l \in 1..k /\ a[j] = n + 1 /\ b[j] = j - l
  <2>1. j <= l \/ j > l
    BY <1>1
  <2>2. CASE j <= l
    BY <1>1, <1>3, <2>2
  <2>3. CASE j > l
    <3>1. j - l \in 1..k /\ ~(j <= l)
      BY <1>1, <2>3
    <3> QED  BY <2>3, <3>1
  <2> QED  BY <2>1, <2>2, <2>3
<1>5. a \in [1..l + k -> 1..n + 1] /\ b \in [1..l + k -> Nat]
  <2>1. \A j \in 1..l + k : a[j] \in 1..n + 1 /\ b[j] \in Nat
    <3> HIDE DEF a, b
    <3> QED  BY <1>1, <1>4
  <2>2. a = [j \in 1..l + k |-> a[j]] /\ b = [j \in 1..l + k |-> b[j]]
    OBVIOUS
  <2> HIDE DEF a, b
  <2> QED  BY <2>1, <2>2
<1>6. \A j \in 1..l : j \in 1..l + k /\ a[j] = src[j] /\ b[j] = off[j]
  BY <1>1
<1>7. \A m \in 1..k : l + m \in 1..l + k /\ a[l + m] = n + 1 /\ b[l + m] = m
  <2>1. ASSUME NEW m \in 1..k PROVE l + m \in 1..l + k /\ ~(l + m <= l) /\ (l + m) - l = m
    BY <1>1
  <2> QED  BY <2>1
<1> HIDE DEF a, b, x
<1>8. \A j \in 1..l + k : b[j] \in 1..Len(s[a[j]]) /\ u[j] = s[a[j]][b[j]]
  <2> TAKE j \in 1..l + k
  <2>1. CASE j \in 1..l /\ a[j] = src[j] /\ b[j] = off[j]
    <3>1. u[j] = out[j]
      BY <1>2, <2>1
    <3> QED  BY <1>3, <2>1, <3>1
  <2>2. CASE j > l /\ j - l \in 1..k /\ a[j] = n + 1 /\ b[j] = j - l
    <3>1. u[j] = x[j - l]
      BY <1>1, <1>2, <2>2
    <3> QED  BY <2>2, <3>1 DEF x, k
  <2> QED  BY <1>4, <2>1, <2>2
<1>9. \A i, j \in 1..l + k : i < j => a[i] < a[j] \/ (a[i] = a[j] /\ b[i] < b[j])
  <2> TAKE i, j \in 1..l + k
  <2> HAVE i < j
  <2>1. CASE j \in 1..l /\ a[j] = src[j] /\ b[j] = off[j]
    <3>1. i \in 1..l /\ a[i] = src[i] /\ b[i] = off[i]
      BY <1>1, <1>6, <2>1
    <3> QED  BY <1>3, <2>1, <3>1
  <2>2. CASE j > l /\ j - l \in 1..k /\ a[j] = n + 1 /\ b[j] = j - l
    BY <1>1, <1>4, <2>2
  <2> QED  BY <1>4, <2>1, <2>2
<1>10. \A p \in 1..n + 1 : \A m \in 1..Len(s[p]) : \E j \in 1..l + k : a[j] = p /\ b[j] = m
  <2> TAKE p \in 1..n + 1
  <2> TAKE m \in 1..Len(s[p])
  <2>1. CASE p \in 1..n
    <3>1. PICK j \in 1..l : src[j] = p /\ off[j] = m
      BY <1>3, <2>1
    <3>2. j \in 1..l + k /\ a[j] = src[j] /\ b[j] = off[j]
      BY <1>6
    <3> QED  BY <3>1, <3>2
  <2>2. CASE p = n + 1
    <3>1. m \in 1..k
      BY <2>2 DEF k, x
    <3> QED  BY <1>7, <2>2, <3>1
  <2>3. p \in 1..n \/ p = n + 1
    OBVIOUS
  <2> QED  BY <2>1, <2>2, <2>3
<1>11. Spreads(u, s, n + 1, a, b)
  <2> DEFINE d == Len(u)
  <2>1. d = l + k
    BY <1>2
  <2> HIDE DEF d
  <2>2. a \in [1..d -> 1..n + 1] /\ b \in [1..d -> Nat]
    BY <1>5, <2>1, Zenon
  <2>3. \A j \in 1..d : b[j] \in 1..Len(s[a[j]]) /\ u[j] = s[a[j]][b[j]]
    BY <1>8, <2>1, Zenon
  <2>4. \A i, j \in 1..d : i < j => a[i] < a[j] \/ (a[i] = a[j] /\ b[i] < b[j])
    BY <1>9, <2>1, Zenon
  <2>5. \A p \in 1..n + 1 : \A m \in 1..Len(s[p]) : \E j \in 1..d : a[j] = p /\ b[j] = m
    BY <1>10, <2>1, Zenon
  <2> QED  BY <2>2, <2>3, <2>4, <2>5, Zenon DEF Spreads, d
<1> QED  BY <1>11 DEF u, x

(* The pieces one after the other are a sequence, and each of their        *)
(* elements is there once, in order.                                       *)
LEMMA JoinsSpread ==
  ASSUME NEW S, NEW s \in Seq(Seq(S)), NEW f, Joins(f, s, Len(s))
  PROVE  \A n \in 1..Len(s) : f[n] \in Seq(S) /\ \E a, b : Spreads(f[n], s, n, a, b)
<1> DEFINE l == Len(s)
           T == {n \in Nat : n \in 1..l => f[n] \in Seq(S) /\ \E a, b : Spreads(f[n], s, n, a, b)}
<1>0. l \in Nat /\ \A i \in 1..l : s[i] \in Seq(S)
  OBVIOUS
<1> HIDE DEF l
<1>1. 0 \in T
  OBVIOUS
<1>2. ASSUME NEW n \in Nat, n \in T PROVE n + 1 \in T
  <2> SUFFICES ASSUME n + 1 \in 1..l
               PROVE  f[n + 1] \in Seq(S) /\ \E a, b : Spreads(f[n + 1], s, n + 1, a, b)
    OBVIOUS
  <2>0. n \in 1..l => f[n] \in Seq(S) /\ \E a, b : Spreads(f[n], s, n, a, b)
    BY <1>2
  <2> HIDE DEF T
  <2>1. f[n + 1] = IF n = 0 THEN s[1] ELSE f[n] \o s[n + 1]
    <3>1. Joins(f, s, l)
      BY DEF l
    <3> QED  BY <1>0, <3>1, JoinsNext, ZenonT(30)
  <2>2. s[n + 1] \in Seq(S)
    BY <1>0
  <2>3. CASE n = 0
    <3>1. f[1] = s[1] /\ s[1] \in Seq(S) /\ n + 1 = 1
      BY <2>1, <2>2, <2>3
    <3>2. PICK a, b : Spreads(s[1], s, 1, a, b)
      BY <3>1, SpreadsFirst
    <3>3. Spreads(f[n + 1], s, n + 1, a, b) /\ f[n + 1] \in Seq(S)
      BY <3>1, <3>2
    <3> QED  BY <3>3
  <2>4. CASE n # 0
    <3> DEFINE x == f[n]
               y == f[n + 1]
               z == s[n + 1]
    <3>1. n \in 1..l
      BY <1>0, <2>4
    <3>2. PICK a, b : Spreads(x, s, n, a, b)
      BY <2>0, <3>1
    <3>3. x \in Seq(S) /\ z \in Seq(S) /\ y = x \o z
      BY <2>0, <2>1, <2>2, <2>4, <3>1, Zenon
    <3>4. \E c, d : Spreads(x \o z, s, n + 1, c, d)
      BY <3>2, <3>3, SpreadsMore
    <3> HIDE DEF x, y, z
    <3>5. x \o z \in Seq(S)
      BY <3>3
    <3>6. y \in Seq(S) /\ \E c, d : Spreads(y, s, n + 1, c, d)
      BY <3>3, <3>4, <3>5, Zenon
    <3> QED  BY <3>6 DEF y
  <2> QED  BY <2>3, <2>4
<1>3. Nat \subseteq T
  <2> HIDE DEF T
  <2> QED  BY <1>1, <1>2, AllNumbers
<1> QED  BY <1>0, <1>3 DEF l

LEMMA FlattenIsAJoin ==
  ASSUME NEW S, NEW s \in Seq(Seq(S)), s # <<>>
  PROVE  \E f : Joins(f, s, Len(s)) /\ FlattenSeq(s) = f[Len(s)]
<1> DEFINE f == CHOOSE g : Joins(g, s, Len(s))
<1>1. Joins(f, s, Len(s))
  <2>1. Len(s) \in Nat
    OBVIOUS
  <2> QED  BY <2>1, JoinsExist, Zenon
<1>2. Len(s) # 0
  OBVIOUS
<1>3. FlattenSeq(s) = f[Len(s)]
  BY <1>2, Zenon DEF FlattenSeq, Joins
<1> QED  BY <1>1, <1>3

LEMMA Spread ==
  ASSUME NEW S, NEW s \in Seq(Seq(S))
  PROVE  /\ FlattenSeq(s) \in Seq(S)
         /\ \E a, b : Spreads(FlattenSeq(s), s, Len(s), a, b)
<1> DEFINE n == Len(s)
<1>1. CASE s = <<>>
  <2> DEFINE e == <<>>
  <2>1. FlattenSeq(s) = e /\ Len(e) = 0 /\ Len(s) = 0 /\ e \in Seq(S)
    BY <1>1, EmptySeq DEF FlattenSeq
  <2>2. e \in [1..0 -> 1..0] /\ e \in [1..0 -> Nat]
    OBVIOUS
  <2> HIDE DEF e
  <2>3. Spreads(e, s, 0, e, e)
    BY <2>1, <2>2 DEF Spreads
  <2> QED  BY <2>1, <2>3
<1>2. CASE s # <<>>
  <2>1. PICK f : Joins(f, s, Len(s)) /\ FlattenSeq(s) = f[Len(s)]
    BY <1>2, FlattenIsAJoin
  <2>2. Len(s) \in 1..Len(s)
    BY <1>2
  <2>3. f[Len(s)] \in Seq(S) /\ \E a, b : Spreads(f[Len(s)], s, Len(s), a, b)
    BY <2>1, <2>2, JoinsSpread
  <2> QED  BY <2>1, <2>3
<1> QED  BY <1>1, <1>2

(* Pieces of one element each.                                             *)
LEMMA SinglesJoin ==
  ASSUME NEW S, NEW t \in Seq(S), NEW s \in Seq(Seq(S)), Len(s) = Len(t),
         \A i \in 1..Len(t) : s[i] = <<t[i]>>
  PROVE  FlattenSeq(s) = t
<1> DEFINE l == Len(t)
<1>0. l \in Nat /\ Len(s) = l /\ \A i \in 1..l : t[i] \in S /\ s[i] = <<t[i]>>
  OBVIOUS
<1>1. CASE s = <<>>
  <2>1. FlattenSeq(s) = <<>> /\ t = <<>>
    BY <1>1, EmptySeq DEF FlattenSeq
  <2> QED  BY <2>1
<1>2. CASE s # <<>>
  <2>1. PICK f : Joins(f, s, Len(s)) /\ FlattenSeq(s) = f[Len(s)]
    BY <1>2, FlattenIsAJoin
  <2> DEFINE T == {n \in Nat : n \in 1..l => f[n] \in Seq(S) /\ Len(f[n]) = n
                                             /\ \A i \in 1..n : f[n][i] = t[i]}
  <2> HIDE DEF l
  <2>2. 0 \in T
    OBVIOUS
  <2>3. ASSUME NEW n \in Nat, n \in T PROVE n + 1 \in T
    <3> DEFINE x == f[n]
               y == f[n + 1]
               z == t[n + 1]
    <3> SUFFICES ASSUME n + 1 \in 1..l
                 PROVE  y \in Seq(S) /\ Len(y) = n + 1 /\ \A i \in 1..n + 1 : y[i] = t[i]
      OBVIOUS
    <3>1. f[n + 1] = IF n + 1 = 1 THEN s[n + 1] ELSE f[n + 1 - 1] \o s[n + 1]
      <4>1. l \in Nat /\ Joins(f, s, l)
        BY <1>0, <2>1
      <4> QED  BY <4>1, JoinsIs
    <3>2. s[n + 1] = <<z>> /\ n + 1 - 1 = n /\ z \in S
      BY <1>0
    <3>3. CASE n = 0
      <4>1. y = <<z>> /\ n + 1 = 1
        BY <3>1, <3>2, <3>3
      <4>2. \A i \in 1..1 : i = 1
        OBVIOUS
      <4>3. <<z>> \in Seq(S) /\ Len(<<z>>) = 1 /\ <<z>>[1] = z
        BY <3>2
      <4> QED  BY <3>3, <4>1, <4>2, <4>3
    <3>4. CASE n # 0
      <4>1. n \in 1..l /\ n + 1 # 1
        BY <1>0, <3>4
      <4>2. x \in Seq(S) /\ Len(x) = n /\ \A i \in 1..n : x[i] = t[i]
        BY <2>3, <4>1
      <4>3. y = x \o <<z>>
        BY <3>1, <3>2, <4>1
      <4>z. z \in S /\ z = t[n + 1]
        BY <3>2
      <4> HIDE DEF x, y, z
      <4>4. y \in Seq(S) /\ Len(y) = n + 1
            /\ \A i \in 1..n + 1 : y[i] = IF i <= n THEN x[i] ELSE z
        BY <4>2, <4>3, <4>z
      <4> QED  BY <4>2, <4>4, <4>z, SMTT(30)
    <3> QED  BY <3>3, <3>4
  <2>4. Nat \subseteq T
    <3> HIDE DEF T
    <3> QED  BY <2>2, <2>3, AllNumbers
  <2>5. l \in 1..l
    BY <1>0, <1>2
  <2>6. f[l] \in Seq(S) /\ Len(f[l]) = l /\ \A i \in 1..l : f[l][i] = t[i]
    BY <1>0, <2>4, <2>5
  <2> DEFINE y == f[l]
  <2>7. y = FlattenSeq(s) /\ y \in Seq(S) /\ Len(y) = l /\ \A i \in 1..l : y[i] = t[i]
    BY <1>0, <2>1, <2>6
  <2> HIDE DEF y
  <2>8. y = t
    BY <2>7, SeqEqual DEF l
  <2> QED  BY <2>7, <2>8
<1> QED  BY <1>1, <1>2

(* Sequences of pieces, one for each element.                              *)
LEMMA Pieces ==
  ASSUME NEW T, NEW n \in Nat, NEW s \in [1..n -> Seq(T)]
  PROVE  /\ s \in Seq(Seq(T)) /\ Len(s) = n /\ FlattenSeq(s) \in Seq(T)
         /\ \E a, b : Spreads(FlattenSeq(s), s, n, a, b)
<1>1. s \in Seq(Seq(T)) /\ Len(s) = n
  OBVIOUS
<1>2. FlattenSeq(s) \in Seq(T) /\ \E a, b : Spreads(FlattenSeq(s), s, Len(s), a, b)
  BY <1>1, Spread
<1> QED  BY <1>1, <1>2, Zenon

LEMMA OneElement ==
  ASSUME NEW S, NEW x \in S
  PROVE  <<x>> \in Seq(S) /\ Len(<<x>>) = 1 /\ <<x>>[1] = x /\ <<x>> # <<>>
OBVIOUS

LEMMA ElementsAre ==
  ASSUME NEW S, NEW s \in Seq(S)
  PROVE  /\ \A c : c \in ToSet(s) <=> \E k \in 1..Len(s) : c = s[k]
         /\ ToSet(s) \in SUBSET S /\ (s = <<>> <=> ToSet(s) = {})
<1>1. DOMAIN s = 1..Len(s) /\ \A k \in 1..Len(s) : s[k] \in S
  OBVIOUS
<1>2. \A c : c \in ToSet(s) <=> \E k \in 1..Len(s) : c = s[k]
  BY <1>1 DEF ToSet
<1>3. s # <<>> => 1 \in 1..Len(s)
  BY EmptySeq
<1>4. s = <<>> => Len(s) = 0
  OBVIOUS
<1>5. ToSet(s) \in SUBSET S
  BY <1>1, <1>2
<1>6. s = <<>> => ToSet(s) = {}
  BY <1>2, <1>4
<1>7. s # <<>> => ToSet(s) # {}
  BY <1>2, <1>3
<1> QED  BY <1>2, <1>5, <1>6, <1>7

LEMMA OnlyIs ==
  ASSUME NEW S, NEW s \in Seq(S), NEW good
  PROVE  /\ Only(s, good) \in Seq(S)
         /\ \A c : c \in ToSet(Only(s, good)) <=> c \in ToSet(s) /\ c \in good
         /\ ToSet(s) \subseteq good => Only(s, good) = s
<1> DEFINE l == Len(s)
           ps == [k \in DOMAIN s |-> IF s[k] \in good THEN <<s[k]>> ELSE <<>>]
           out == FlattenSeq(ps)
<1>0. l \in Nat /\ DOMAIN s = 1..l /\ \A k \in 1..l : s[k] \in S
  OBVIOUS
<1>1. \A k \in 1..l : ps[k] = IF s[k] \in good THEN <<s[k]>> ELSE <<>>
  BY <1>0
<1>2. ps = [k \in DOMAIN s |-> ps[k]]
  OBVIOUS
<1> HIDE DEF ps
<1>3. ASSUME NEW k \in 1..l
      PROVE  /\ s[k] \in good => ps[k] = <<s[k]>> /\ ps[k] \in Seq(S) /\ Len(ps[k]) = 1 /\ ps[k][1] = s[k]
             /\ s[k] \notin good => ps[k] \in Seq(S) /\ Len(ps[k]) = 0
  <2>1. CASE s[k] \in good
    <3>1. ps[k] = <<s[k]>> /\ s[k] \in S
      BY <1>0, <1>1, <2>1
    <3> QED  BY <2>1, <3>1, OneElement
  <2>2. CASE s[k] \notin good
    <3>1. ps[k] = <<>>
      BY <1>1, <2>2
    <3> QED  BY <2>2, <3>1, EmptySeq
  <2> QED  BY <2>1, <2>2
<1>4. /\ ps \in Seq(Seq(S)) /\ Len(ps) = l /\ out \in Seq(S)
      /\ \E a, b : Spreads(out, ps, l, a, b)
  <2>1. \A k \in 1..l : ps[k] \in Seq(S)
    BY <1>3
  <2> HIDE DEF l
  <2>2. ps \in [1..l -> Seq(S)]
    BY <1>0, <1>2, <2>1
  <2> QED  BY <1>0, <2>2, Pieces, Zenon
<1>5. Only(s, good) = out
  BY DEF Only, ps
<1>6. PICK a, b : Spreads(out, ps, l, a, b)
  BY <1>4
<1>7. /\ \A j \in 1..Len(out) : a[j] \in 1..l /\ b[j] \in 1..Len(ps[a[j]]) /\ out[j] = ps[a[j]][b[j]]
      /\ \A p \in 1..l : \A k \in 1..Len(ps[p]) : \E j \in 1..Len(out) : a[j] = p /\ b[j] = k
  BY <1>6 DEF Spreads
<1>o. out \in Seq(S)
  BY <1>4
<1> HIDE DEF out, l
<1>8. ASSUME NEW c PROVE c \in ToSet(out) <=> c \in ToSet(s) /\ c \in good
  <2>1. ASSUME c \in ToSet(out) PROVE c \in ToSet(s) /\ c \in good
    <3>1. PICK j \in 1..Len(out) : c = out[j]
      BY <1>o, <2>1, ElementsAre
    <3>2. a[j] \in 1..l /\ b[j] \in 1..Len(ps[a[j]]) /\ c = ps[a[j]][b[j]]
      BY <1>7, <3>1
    <3>3. s[a[j]] \in good /\ b[j] = 1 /\ c = s[a[j]]
      <4> DEFINE p == a[j]
                 m == b[j]
      <4>1. p \in 1..l /\ m \in 1..Len(ps[p]) /\ c = ps[p][m]
        BY <3>2
      <4> HIDE DEF p, m
      <4>2. s[p] \in good /\ m = 1 /\ c = s[p]
        BY <1>3, <4>1
      <4> QED  BY <4>2 DEF p, m
    <3> QED  BY <3>2, <3>3, ElementsAre DEF l
  <2>2. ASSUME c \in ToSet(s), c \in good PROVE c \in ToSet(out)
    <3>1. PICK k \in 1..l : c = s[k]
      BY <2>2, ElementsAre DEF l
    <3>2. Len(ps[k]) = 1 /\ ps[k][1] = c /\ 1 \in 1..Len(ps[k])
      BY <1>3, <2>2, <3>1
    <3>3. PICK j \in 1..Len(out) : a[j] = k /\ b[j] = 1
      BY <1>7, <3>2
    <3>4. out[j] = c
      BY <1>7, <3>2, <3>3
    <3> QED  BY <1>o, <3>4, ElementsAre
  <2> QED  BY <2>1, <2>2
<1>9. ASSUME ToSet(s) \subseteq good PROVE out = s
  <2>1. ASSUME NEW k \in 1..l PROVE ps[k] = <<s[k]>>
    <3>1. s[k] \in ToSet(s)
      BY ElementsAre DEF l
    <3> QED  BY <1>3, <1>9, <3>1
  <2>2. ps \in Seq(Seq(S)) /\ Len(ps) = Len(s) /\ \A i \in 1..Len(s) : ps[i] = <<s[i]>>
    BY <1>4, <2>1 DEF l
  <2>3. FlattenSeq(ps) = s
    BY <2>2, SinglesJoin
  <2> QED  BY <2>3 DEF out
<1> QED  BY <1>5, <1>8, <1>9, <1>o

----------------------------------------------------------------------------
(* What a plugin makes of one message, of a history, and of the request.   *)

LEMMA MessageIs ==
  ASSUME NEW m \in Messages
  PROVE  /\ m.role \in Roles /\ m.words \in BOOLEAN /\ m.thoughts \in BOOLEAN /\ m.image \in BOOLEAN
         /\ m.calls \in Seq(Callers) /\ m.answers \in STRING \union {NoCall} /\ m.at \in Nat
         /\ m.calls # <<>> => m.role = "assistant"
         /\ m.answers # NoCall => m.role \in {"user", "tool"}
BY DEF Messages

(* e is what m has become: its words, or an answer of its own.             *)
Follows(e, m) ==
    /\ e.at = m.at
    /\ m.role = "tool" => e.role = "tool" /\ e.answers = m.answers
    /\ e.role = "tool" => m.role = "tool" \/ (m.role = "user" /\ m.answers # NoCall)
    /\ e.role # "tool" => m.role = e.role \/ (m.role = "developer" /\ e.role = "system")
    /\ m.answers = NoCall => e.answers = NoCall

(* A message the plugin has put in.                                        *)
Inserted(e) == e \in {ImagesOfAnswers, DsmlPrompt}

(* The piece s is made of the message m: a user's words go before the      *)
(* answer, an insertion before what is not an answer.                      *)
Renders(s, m) ==
    /\ s \in Seq(Messages)
    /\ \A k \in 1..Len(s) : \/ s[k].at # 0 /\ Follows(s[k], m)
                            \/ Inserted(s[k]) /\ s[k].at = 0 /\ k = 1 /\ m.role # "tool"
    /\ Len(s) <= 1 \/ Len(s) = 2
    /\ Len(s) = 2 => s[1].at = 0 \/ (m.role = "user" /\ s[1].answers = NoCall /\ s[2].role = "tool")

(* out is h with messages rewritten, split, dropped and inserted: src says *)
(* which one each comes from, and 0 for an insertion.                      *)
Weaves(out, h, src) ==
    /\ out \in Seq(Messages) /\ src \in [1..Len(out) -> 0..Len(h)]
    /\ \A j \in 1..Len(out) :
          \/ src[j] = 0 /\ out[j].at = 0 /\ Inserted(out[j])
          \/ src[j] # 0 /\ out[j].at # 0 /\ Follows(out[j], h[src[j]])
    /\ \A i, j \in 1..Len(out) : i < j /\ src[i] # 0 /\ src[j] # 0 =>
          \/ src[i] < src[j]
          \/ src[i] = src[j] /\ h[src[i]].role = "user" /\ out[i].answers = NoCall
             /\ out[j].role = "tool"
    /\ \A i, k, j \in 1..Len(out) : i < k /\ k < j /\ src[i] # 0 /\ src[k] = 0 /\ src[j] # 0 =>
          \E q \in src[i]..src[j] : h[q].role # "tool" /\ (q = src[i] => h[q].calls = <<>>)

(* What is in out is what is in the pieces.                                *)
Made(out, s, src) ==
    /\ \A j \in 1..Len(out) : \E p \in DOMAIN s : \E k \in 1..Len(s[p]) :
          out[j] = s[p][k] /\ (src[j] = p \/ src[j] = 0)
    /\ \A p \in DOMAIN s : \A k \in 1..Len(s[p]) : s[p][k].at # 0 =>
          \E j \in 1..Len(out) : src[j] = p /\ out[j] = s[p][k]

LEMMA PiecesWeave ==
  ASSUME NEW h \in Seq(Messages), NEW s \in [1..Len(h) -> Seq(Messages)],
         \A i \in 1..Len(h) : Renders(s[i], h[i])
  PROVE  \E src : Weaves(FlattenSeq(s), h, src) /\ Made(FlattenSeq(s), s, src)
<1> DEFINE n == Len(h)
           out == FlattenSeq(s)
<1>0. n \in Nat
  OBVIOUS
<1>1. out \in Seq(Messages) /\ \E a, b : Spreads(out, s, n, a, b)
  <2> HIDE DEF n
  <2>1. s \in [1..n -> Seq(Messages)]
    BY DEF n
  <2> QED  BY <1>0, <2>1, Pieces, Zenon
<1>2. PICK a, b : Spreads(out, s, n, a, b)
  BY <1>1
<1> HIDE DEF n, out
<1> DEFINE l == Len(out)
           src == [j \in 1..l |-> IF out[j].at = 0 THEN 0 ELSE a[j]]
<1>l. l \in Nat
  BY <1>1
<1>3. /\ \A j \in 1..l : a[j] \in 1..n /\ b[j] \in 1..Len(s[a[j]]) /\ out[j] = s[a[j]][b[j]]
      /\ \A i, j \in 1..l : i < j => a[i] < a[j] \/ (a[i] = a[j] /\ b[i] < b[j])
      /\ \A p \in 1..n : \A k \in 1..Len(s[p]) : \E j \in 1..l : a[j] = p /\ b[j] = k
  BY <1>2 DEF Spreads
<1>4. \A j \in 1..l : src[j] = IF out[j].at = 0 THEN 0 ELSE a[j]
  OBVIOUS
<1>5. src \in [1..l -> 0..n]
  BY <1>0, <1>3
<1> HIDE DEF src
<1>6. ASSUME NEW j \in 1..l
      PROVE  /\ a[j] \in 1..n /\ b[j] \in 1..Len(s[a[j]]) /\ out[j] = s[a[j]][b[j]]
             /\ \/ out[j].at # 0 /\ Follows(out[j], h[a[j]])
                \/ Inserted(out[j]) /\ out[j].at = 0 /\ b[j] = 1 /\ h[a[j]].role # "tool"
  <2>1. a[j] \in 1..n /\ b[j] \in 1..Len(s[a[j]]) /\ out[j] = s[a[j]][b[j]]
    BY <1>3
  <2>2. Renders(s[a[j]], h[a[j]])
    BY <2>1 DEF n
  <2> QED  BY <2>1, <2>2 DEF Renders
<1> HIDE DEF l
<1>7. ASSUME NEW j \in 1..l
      PROVE  \/ src[j] = 0 /\ out[j].at = 0 /\ Inserted(out[j])
             \/ src[j] # 0 /\ out[j].at # 0 /\ Follows(out[j], h[src[j]])
  BY <1>0, <1>4, <1>6
<1>8. ASSUME NEW i \in 1..l, NEW j \in 1..l, i < j, src[i] # 0, src[j] # 0
      PROVE  \/ src[i] < src[j]
             \/ src[i] = src[j] /\ h[src[i]].role = "user" /\ out[i].answers = NoCall
                /\ out[j].role = "tool"
  <2>1. src[i] = a[i] /\ src[j] = a[j] /\ out[i].at # 0
    BY <1>4, <1>8
  <2>2. a[i] < a[j] \/ (a[i] = a[j] /\ b[i] < b[j])
    BY <1>3, <1>8
  <2>3. CASE a[i] = a[j] /\ b[i] < b[j]
    <3> DEFINE t == s[a[i]]
    <3>1. Renders(t, h[a[i]]) /\ b[i] \in 1..Len(t) /\ b[j] \in 1..Len(t)
          /\ out[i] = t[b[i]] /\ out[j] = t[b[j]]
      BY <1>6, <2>3 DEF n
    <3>2. Len(t) <= 1 \/ Len(t) = 2
      BY <3>1 DEF Renders
    <3> HIDE DEF t
    <3>3. Len(t) = 2 /\ b[i] = 1 /\ b[j] = 2
      BY <2>3, <3>1, <3>2
    <3>4. h[a[i]].role = "user" /\ t[1].answers = NoCall /\ t[2].role = "tool"
      BY <2>1, <3>1, <3>3 DEF Renders
    <3> QED  BY <2>1, <2>3, <3>1, <3>3, <3>4
  <2> QED  BY <2>1, <2>2, <2>3
<1>9. ASSUME NEW i \in 1..l, NEW k \in 1..l, NEW j \in 1..l, i < k, k < j,
             src[i] # 0, src[k] = 0, src[j] # 0
      PROVE  \E q \in src[i]..src[j] : h[q].role # "tool" /\ (q = src[i] => h[q].calls = <<>>)
  <2>1. src[i] = a[i] /\ src[j] = a[j] /\ out[k].at = 0
    BY <1>0, <1>4, <1>6, <1>9
  <2>2. b[k] = 1 /\ h[a[k]].role # "tool" /\ a[k] \in 1..n /\ a[i] \in 1..n /\ a[j] \in 1..n
    BY <1>6, <2>1
  <2>3. a[i] < a[k] /\ a[k] <= a[j]
    <3>1. a[i] < a[k] \/ (a[i] = a[k] /\ b[i] < b[k])
      BY <1>3, <1>9
    <3>2. a[k] < a[j] \/ (a[k] = a[j] /\ b[k] < b[j])
      BY <1>3, <1>9
    <3>3. ~(b[i] < b[k])
      BY <1>6, <2>2
    <3> QED  BY <2>2, <3>1, <3>2, <3>3
  <2>4. a[k] \in src[i]..src[j] /\ a[k] # src[i]
    BY <2>1, <2>2, <2>3
  <2> QED  BY <2>2, <2>4
<1>10. Weaves(out, h, src)
  <2>1. out \in Seq(Messages) /\ src \in [1..l -> 0..n]
    BY <1>1, <1>5
  <2>2. \A i, j \in 1..l : i < j /\ src[i] # 0 /\ src[j] # 0 =>
          \/ src[i] < src[j]
          \/ src[i] = src[j] /\ h[src[i]].role = "user" /\ out[i].answers = NoCall
             /\ out[j].role = "tool"
    BY <1>8
  <2>3. \A i, k, j \in 1..l : i < k /\ k < j /\ src[i] # 0 /\ src[k] = 0 /\ src[j] # 0 =>
          \E q \in src[i]..src[j] : h[q].role # "tool" /\ (q = src[i] => h[q].calls = <<>>)
    BY <1>9
  <2> QED  BY <1>7, <2>1, <2>2, <2>3, Zenon DEF Weaves, l, n
<1>11. Made(out, s, src)
  <2>1. ASSUME NEW j \in 1..l
        PROVE  \E p \in DOMAIN s : \E k \in 1..Len(s[p]) :
                  out[j] = s[p][k] /\ (src[j] = p \/ src[j] = 0)
    <3>1. a[j] \in DOMAIN s /\ b[j] \in 1..Len(s[a[j]]) /\ out[j] = s[a[j]][b[j]]
      BY <1>3 DEF n
    <3>2. src[j] = a[j] \/ src[j] = 0
      BY <1>4
    <3> QED  BY <3>1, <3>2
  <2>2. ASSUME NEW p \in DOMAIN s, NEW k \in 1..Len(s[p]), s[p][k].at # 0
        PROVE  \E j \in 1..l : src[j] = p /\ out[j] = s[p][k]
    <3>1. p \in 1..n
      BY DEF n
    <3>2. PICK j \in 1..l : a[j] = p /\ b[j] = k
      BY <1>3, <3>1
    <3>3. out[j] = s[p][k]
      BY <1>3, <3>2
    <3> QED  BY <1>4, <2>2, <3>2, <3>3
  <2> QED  BY <2>1, <2>2, Zenon DEF Made, l
<1> QED  BY <1>10, <1>11 DEF out

(* Between the two there are only answers.                                 *)
OnlyAnswers(h, p, q) == \A k \in (p + 1)..(q - 1) : h[k].role = "tool"

(* The call an answer stands with is still there when the answer is.       *)
KeepsCalls(out, h, src) ==
    \A j \in 1..Len(out) :
        src[j] # 0 /\ out[j].role = "tool" /\ out[j].answers \notin {NoCall, Idless} =>
            \A p \in 1..(src[j] - 1) : \A c \in ToSet(h[p].calls) :
                /\ c \in Named /\ c.id = out[j].answers /\ OnlyAnswers(h, p, src[j])
                => \E i \in 1..Len(out) : src[i] = p /\ c \in ToSet(out[i].calls)

(* How a history h is related to the request a it was made of.             *)
Kin(h, a) ==
    \A j \in 1..Len(h) :
        \/ h[j].at = 0 /\ Inserted(h[j])
        \/ h[j].at \in 1..Len(a) /\ Follows(h[j], a[h[j].at])

InOrder(h, a) ==
    \A i, j \in 1..Len(h) : i < j /\ h[i].at # 0 /\ h[j].at # 0 =>
        \/ h[i].at < h[j].at
        \/ h[i].at = h[j].at /\ a[h[i].at].role = "user" /\ h[i].answers = NoCall
           /\ h[j].role = "tool"

Standing(h, a) ==
    \A j \in 1..Len(h) :
        /\ h[j].role = "tool" /\ h[j].at # 0 /\ h[j].answers \notin {NoCall, Idless}
        /\ a[h[j].at].role = "tool" /\ Stands(a, h[j].at)
        => Stands(h, j)

Placed(h) == \A j \in 1..Len(h) : h[j].at # 0

MadeOf(h, a) == h \in Seq(Messages) /\ Kin(h, a) /\ InOrder(h, a) /\ Standing(h, a)

LEMMA FollowsOn ==
  ASSUME NEW d, NEW e, NEW m, Follows(d, e), Follows(e, m) PROVE Follows(d, m)
BY DEF Follows

LEMMA InsertedIs == ASSUME NEW e, Inserted(e) PROVE e.role # "tool" /\ e.calls = <<>> /\ e.answers = NoCall
BY DEF Inserted, ImagesOfAnswers, DsmlPrompt

(* A request is made of itself.                                            *)
LEMMA RequestIsItself ==
  ASSUME NEW a \in Seq(Messages), \A i \in 1..Len(a) : a[i].at = i
  PROVE  MadeOf(a, a) /\ Placed(a)
<1>1. \A m : Follows(m, m)
  BY DEF Follows
<1>2. Len(a) \in Nat /\ \A i \in 1..Len(a) : i # 0 /\ a[i].at \in 1..Len(a) /\ a[i].at = i
  OBVIOUS
<1>3. Kin(a, a)
  BY <1>1, <1>2 DEF Kin
<1>4. InOrder(a, a)
  BY <1>2 DEF InOrder
<1>5. Standing(a, a)
  BY <1>2 DEF Standing
<1>6. Placed(a)
  BY <1>2 DEF Placed
<1> QED  BY <1>3, <1>4, <1>5, <1>6 DEF MadeOf

LEMMA WovenIsKin ==
  ASSUME NEW a, NEW h, Kin(h, a), Placed(h), NEW out, NEW src, Weaves(out, h, src),
         Len(h) \in Nat
  PROVE  Kin(out, a)
<1> SUFFICES ASSUME NEW j \in 1..Len(out)
             PROVE  \/ out[j].at = 0 /\ Inserted(out[j])
                    \/ out[j].at \in 1..Len(a) /\ Follows(out[j], a[out[j].at])
  BY DEF Kin
<1>1. \/ src[j] = 0 /\ out[j].at = 0 /\ Inserted(out[j])
      \/ src[j] # 0 /\ out[j].at # 0 /\ Follows(out[j], h[src[j]])
  BY DEF Weaves
<1>2. CASE src[j] # 0 /\ out[j].at # 0 /\ Follows(out[j], h[src[j]])
  <2>1. src[j] \in 1..Len(h)
    BY <1>2 DEF Weaves
  <2>2. h[src[j]].at \in 1..Len(a) /\ Follows(h[src[j]], a[h[src[j]].at])
    BY <2>1 DEF Kin, Placed
  <2>3. out[j].at = h[src[j]].at
    BY <1>2 DEF Follows
  <2> QED  BY <1>2, <2>2, <2>3, FollowsOn
<1> QED  BY <1>1, <1>2

LEMMA WovenIsInOrder ==
  ASSUME NEW a, NEW h, Kin(h, a), InOrder(h, a), Placed(h), Len(h) \in Nat,
         NEW out, NEW src, Weaves(out, h, src)
  PROVE  InOrder(out, a)
<1> SUFFICES ASSUME NEW i \in 1..Len(out), NEW j \in 1..Len(out), i < j,
                    out[i].at # 0, out[j].at # 0
             PROVE  \/ out[i].at < out[j].at
                    \/ out[i].at = out[j].at /\ a[out[i].at].role = "user"
                       /\ out[i].answers = NoCall /\ out[j].role = "tool"
  BY DEF InOrder
<1> DEFINE p == src[i]
           q == src[j]
<1>1. p # 0 /\ Follows(out[i], h[p]) /\ q # 0 /\ Follows(out[j], h[q])
  BY DEF Weaves
<1>2. p \in 1..Len(h) /\ q \in 1..Len(h)
  BY <1>1 DEF Weaves
<1>3. out[i].at = h[p].at /\ out[j].at = h[q].at
  BY <1>1 DEF Follows
<1>4. h[p].at \in 1..Len(a) /\ Follows(h[p], a[h[p].at])
  BY <1>2 DEF Kin, Placed
<1>5. \/ p < q
      \/ p = q /\ h[p].role = "user" /\ out[i].answers = NoCall /\ out[j].role = "tool"
  BY <1>1 DEF Weaves
<1> HIDE DEF p, q
<1>6. CASE p < q
  <2>1. \/ h[p].at < h[q].at
        \/ h[p].at = h[q].at /\ a[h[p].at].role = "user" /\ h[p].answers = NoCall
           /\ h[q].role = "tool"
    BY <1>2, <1>6 DEF InOrder, Placed
  <2> QED  BY <1>1, <1>3, <2>1 DEF Follows
<1>7. CASE p = q /\ h[p].role = "user" /\ out[i].answers = NoCall /\ out[j].role = "tool"
  <2>1. a[h[p].at].role = "user"
    BY <1>4, <1>7 DEF Follows
  <2> QED  BY <1>3, <1>7, <2>1
<1> QED  BY <1>5, <1>6, <1>7

LEMMA WovenStand ==
  ASSUME NEW a, NEW h \in Seq(Messages), Kin(h, a), Standing(h, a), Placed(h),
         NEW out, NEW src, Weaves(out, h, src), KeepsCalls(out, h, src)
  PROVE  Standing(out, a)
<1> SUFFICES ASSUME NEW j \in 1..Len(out), out[j].role = "tool", out[j].at # 0,
                    out[j].answers \notin {NoCall, Idless}, a[out[j].at].role = "tool",
                    Stands(a, out[j].at)
             PROVE  Stands(out, j)
  BY DEF Standing
<1> DEFINE c == [id |-> out[j].answers, named |-> TRUE]
           q == src[j]
<1>0. Len(h) \in Nat /\ Len(out) \in Nat /\ \A i \in 1..Len(out) : src[i] \in 0..Len(h)
  BY DEF Weaves
<1>1. q \in 1..Len(h) /\ Follows(out[j], h[q])
  BY <1>0 DEF Weaves
<1>2. h[q].at = out[j].at /\ Follows(h[q], a[h[q].at])
  BY <1>1 DEF Follows, Kin, Placed
<1>3. h[q].role = "tool" /\ h[q].answers = out[j].answers
  BY <1>1, <1>2 DEF Follows
<1>4. Stands(h, q)
  BY <1>1, <1>2, <1>3 DEF Standing, Placed
<1>5. PICK p \in 1..(q - 1) : c \in ToSet(h[p].calls) /\ \A k \in (p + 1)..(q - 1) : h[k].role = "tool"
  <2> DEFINE d == [id |-> h[q].answers, named |-> TRUE]
  <2>1. d = c
    BY <1>3
  <2>2. \E p \in 1..(q - 1) : d \in ToSet(h[p].calls) /\ \A k \in (p + 1)..(q - 1) : h[k].role = "tool"
    BY <1>4, Zenon DEF Stands
  <2> HIDE DEF c, d, q
  <2> QED  BY <2>1, <2>2
<1>6. PICK i \in 1..Len(out) : src[i] = p /\ c \in ToSet(out[i].calls)
  <2>1. q # 0
    BY <1>0, <1>1
  <2>2. c \in Named /\ c.id = out[j].answers
    <3>1. h[p] \in Messages
      BY <1>1, <1>5
    <3>2. c \in Callers
      BY <1>5, <3>1, MessageIs, ElementsAre
    <3> QED  BY <3>2 DEF Named
  <2>3. c \in ToSet(h[p].calls) /\ OnlyAnswers(h, p, q)
    BY <1>5 DEF OnlyAnswers
  <2> HIDE DEF c
  <2> QED  BY <2>1, <2>2, <2>3 DEF KeepsCalls
<1>7. p \in 1..Len(h) /\ p < q /\ p # 0
  BY <1>1, <1>5
<1>8. h[p].calls # <<>> /\ h[p].role = "assistant"
  <2>1. h[p] \in Messages
    BY <1>7
  <2>2. h[p].calls \in Seq(Callers) /\ (h[p].calls # <<>> => h[p].role = "assistant")
    BY <2>1, MessageIs
  <2> QED  BY <1>5, <2>2, ElementsAre
<1>9. i < j
  <2>1. ASSUME j < i PROVE FALSE
    <3>1. q < p \/ q = p
      BY <1>1, <1>6, <1>7, <2>1 DEF Weaves
    <3> QED  BY <1>1, <1>7, <3>1
  <2>2. i # j
    BY <1>6, <1>7
  <2> QED  BY <2>1, <2>2
<1>10. ASSUME NEW k \in (i + 1)..(j - 1) PROVE out[k].role = "tool"
  <2>1. k \in 1..Len(out) /\ i < k /\ k < j
    OBVIOUS
  <2>2. CASE src[k] = 0
    <3>1. PICK r \in p..q : h[r].role # "tool" /\ (r = p => h[r].calls = <<>>)
      BY <1>1, <1>6, <1>7, <2>1, <2>2 DEF Weaves
    <3>2. r # p /\ r # q
      BY <1>3, <1>8, <3>1
    <3>3. r \in (p + 1)..(q - 1)
      BY <1>1, <1>7, <3>2
    <3> QED  BY <1>5, <3>1, <3>3
  <2>3. CASE src[k] # 0
    <3>1. p < src[k] \/ (p = src[k] /\ h[p].role = "user")
      BY <1>6, <1>7, <2>1, <2>3 DEF Weaves
    <3>2. src[k] < q \/ (src[k] = q /\ h[q].role = "user")
      BY <1>1, <2>1, <2>3 DEF Weaves
    <3>3. p < src[k] /\ src[k] < q /\ src[k] \in 0..Len(h)
      BY <1>0, <1>3, <1>8, <2>1, <3>1, <3>2
    <3>4. src[k] \in (p + 1)..(q - 1)
      BY <1>1, <1>7, <3>3
    <3>5. h[src[k]].role = "tool" /\ Follows(out[k], h[src[k]])
      BY <1>5, <2>1, <2>3, <3>4 DEF Weaves
    <3> QED  BY <3>5 DEF Follows
  <2> QED  BY <2>2, <2>3
<1>11. i \in 1..(j - 1)
  BY <1>9
<1> QED  BY <1>6, <1>10, <1>11 DEF Stands

(* What is woven of what is made of a request is made of the request.      *)
LEMMA WovenIsMade ==
  ASSUME NEW a, NEW h, MadeOf(h, a), Placed(h), NEW out, NEW src,
         Weaves(out, h, src), KeepsCalls(out, h, src)
  PROVE  MadeOf(out, a)
<1>1. h \in Seq(Messages) /\ Kin(h, a) /\ InOrder(h, a) /\ Standing(h, a)
  BY DEF MadeOf
<1>2. Len(h) \in Nat /\ out \in Seq(Messages)
  BY <1>1 DEF Weaves
<1> QED  BY <1>1, <1>2, WovenIsKin, WovenIsInOrder, WovenStand DEF MadeOf

----------------------------------------------------------------------------
(* trae: what a message becomes, and what one is that stays as it is.      *)
Speaks(m) == m.role # "tool" /\ (m.role = "user" /\ m.answers # NoCall => m.words)

Paired(kept) == {c \in Named : c.id = Idless \/ c.id \in kept}

Settled(e, kept) ==
    /\ e \in Messages /\ e.at # 0 /\ e.role # "developer"
    /\ ToSet(e.calls) \subseteq Paired(kept)
    /\ e.role = "assistant" => e.thoughts = FALSE
    /\ e.role = "tool" => e.words = TRUE /\ (e.answers = Idless \/ e.answers \in kept)
    /\ e.role = "user" => e.answers = NoCall

Becomes(s, m, kept) ==
    /\ Renders(s, m)
    /\ \A k \in 1..Len(s) : Settled(s[k], kept) /\ ToSet(s[k].calls) \subseteq ToSet(m.calls)
    /\ Speaks(m) => \E k \in 1..Len(s) : Speaks(s[k])
    /\ \A c \in ToSet(m.calls) : c \in Paired(kept) => \E k \in 1..Len(s) : c \in ToSet(s[k].calls)
    /\ m.answers \in kept => \E k \in 1..Len(s) : s[k].answers = m.answers
    /\ m.calls # <<>> /\ ToSet(m.calls) \subseteq Paired(kept) =>
          \E k \in 1..Len(s) : s[k].calls = m.calls
    /\ Settled(m, kept) => s = <<m>>

LEMMA OnePiece ==
  ASSUME NEW m \in Messages, m.at # 0, NEW kept, NEW e \in Messages, Follows(e, m), Settled(e, kept),
         ToSet(e.calls) \subseteq ToSet(m.calls), Speaks(m) => Speaks(e),
         \A c \in ToSet(m.calls) : c \in Paired(kept) => c \in ToSet(e.calls),
         m.answers \in kept => e.answers = m.answers,
         ToSet(m.calls) \subseteq Paired(kept) => e.calls = m.calls,
         Settled(m, kept) => e = m
  PROVE  Becomes(<<e>>, m, kept)
<1> DEFINE s == <<e>>
<1>1. s \in Seq(Messages) /\ Len(s) = 1 /\ s[1] = e /\ \A k \in 1..Len(s) : s[k] = e
  OBVIOUS
<1>2. e.at # 0 /\ 1 \in 1..Len(s)
  BY <1>1 DEF Follows
<1>4. Settled(m, kept) => s = <<m>>
  BY Zenon
<1> HIDE DEF s
<1>3. Renders(s, m)
  BY <1>1, <1>2 DEF Renders
<1> QED  BY <1>1, <1>2, <1>3, <1>4, Zenon DEF Becomes, s

LEMMA NoPiece ==
  ASSUME NEW m \in Messages, NEW kept, m.calls = <<>>, ~Speaks(m), m.answers \notin kept,
         ~Settled(m, kept)
  PROVE  Becomes(<<>>, m, kept)
<1> DEFINE s == <<>>
<1>1. s \in Seq(Messages) /\ Len(s) = 0 /\ \A k \in 1..Len(s) : FALSE
  OBVIOUS
<1>2. \A c \in ToSet(m.calls) : FALSE
  <2>1. m.calls \in Seq(Callers)
    BY MessageIs
  <2> QED  BY <2>1, ElementsAre
<1> HIDE DEF s
<1>3. Renders(s, m)
  BY <1>1 DEF Renders
<1> QED  BY <1>1, <1>2, <1>3, Zenon DEF Becomes, s

LEMMA AssistantBecomes ==
  ASSUME NEW m \in Messages, m.at # 0, NEW kept, NoCall \notin kept, m.role = "assistant"
  PROVE  Becomes(Serialized(m, kept), m, kept)
<1> DEFINE calls == Only(m.calls, Paired(kept))
           words == m.words \/ (m.thoughts /\ calls = <<>>)
           e == [m EXCEPT !.calls = calls, !.thoughts = FALSE, !.words = words]
<1>0. m.calls \in Seq(Callers) /\ m.answers = NoCall /\ m.role = "assistant" /\ m.words \in BOOLEAN
  BY MessageIs
<1>1. Serialized(m, kept) = <<e>>
  BY Zenon DEF Serialized, SerializeAssistant, Paired
<1>2. /\ calls \in Seq(Callers)
      /\ \A c : c \in ToSet(calls) <=> c \in ToSet(m.calls) /\ c \in Paired(kept)
      /\ ToSet(m.calls) \subseteq Paired(kept) => calls = m.calls
  BY <1>0, OnlyIs
<1>3. words \in BOOLEAN
  OBVIOUS
<1>w. m.thoughts = FALSE => words = m.words
  BY <1>0
<1> HIDE DEF calls, words
<1>4. e \in Messages /\ e.calls = calls /\ e.role = "assistant" /\ e.at = m.at /\ e.answers = NoCall
      /\ e.thoughts = FALSE
  BY <1>0, <1>2, <1>3 DEF Messages
<1>5. ASSUME Settled(m, kept) PROVE e = m
  <2>1. calls = m.calls /\ m.thoughts = FALSE /\ words = m.words
    BY <1>2, <1>5, <1>w DEF Settled
  <2> QED  BY <2>1 DEF Messages
<1> HIDE DEF e
<1>6. Follows(e, m) /\ Settled(e, kept) /\ Speaks(e)
  BY <1>0, <1>2, <1>4 DEF Follows, Settled, Speaks
<1>7. ToSet(e.calls) \subseteq ToSet(m.calls)
  BY <1>2, <1>4
<1>8. \A c \in ToSet(m.calls) : c \in Paired(kept) => c \in ToSet(e.calls)
  BY <1>2, <1>4
<1>9. Becomes(<<e>>, m, kept)
  BY <1>0, <1>2, <1>4, <1>5, <1>6, <1>7, <1>8, OnePiece
<1> QED  BY <1>1, <1>9

LEMMA SystemBecomes ==
  ASSUME NEW m \in Messages, m.at # 0, NEW kept, NoCall \notin kept,
         m.role \in {"system", "developer"}
  PROVE  Becomes(Serialized(m, kept), m, kept)
<1> DEFINE e == [m EXCEPT !.role = "system"]
<1>0. m.calls = <<>> /\ m.answers = NoCall /\ m.calls \in Seq(Callers)
  BY MessageIs
<1>1. Serialized(m, kept) = <<e>>
  <2>1. m.role # "assistant"
    OBVIOUS
  <2> QED  BY <2>1 DEF Serialized
<1>2. \A c \in ToSet(m.calls) : FALSE
  BY <1>0, ElementsAre
<1>3. e \in Messages /\ e.calls = m.calls /\ e.role = "system" /\ e.at = m.at /\ e.answers = NoCall
  BY <1>0 DEF Messages, Roles
<1>4. ASSUME Settled(m, kept) PROVE e = m
  <2>1. m.role = "system"
    BY <1>4 DEF Settled
  <2> QED  BY <2>1 DEF Messages
<1> HIDE DEF e
<1>5. Follows(e, m) /\ Settled(e, kept) /\ Speaks(e)
  BY <1>0, <1>2, <1>3 DEF Follows, Settled, Speaks
<1>6. Becomes(<<e>>, m, kept)
  BY <1>0, <1>2, <1>3, <1>4, <1>5, OnePiece
<1> QED  BY <1>1, <1>6

(* The answer in a message of a tool, or of a user.                        *)
LEMMA AnswerIs ==
  ASSUME NEW m \in Messages, m.at # 0, NEW kept, m.answers # NoCall,
         m.answers = Idless \/ m.answers \in kept
  PROVE  \E e \in Messages :
            /\ SerializeAnswer(m, kept) = <<e>>
            /\ e.role = "tool" /\ e.at = m.at /\ e.answers = m.answers /\ e.calls = <<>>
            /\ Follows(e, m) /\ Settled(e, kept) /\ (Settled(m, kept) => e = m)
<1> DEFINE e == [m EXCEPT !.role = "tool", !.words = TRUE]
<1>0. m.calls = <<>> /\ m.role \in {"user", "tool"}
  BY MessageIs
<1>1. SerializeAnswer(m, kept) = <<e>>
  BY DEF SerializeAnswer
<1>2. e \in Messages /\ e.calls = m.calls /\ e.role = "tool" /\ e.at = m.at /\ e.answers = m.answers
      /\ e.words = TRUE
  BY <1>0 DEF Messages, Roles
<1>3. ASSUME Settled(m, kept) PROVE e = m
  <2>1. m.role = "tool" /\ m.words = TRUE
    BY <1>0, <1>3 DEF Settled
  <2> QED  BY <2>1 DEF Messages
<1> HIDE DEF e
<1>4. e.calls = <<>> /\ <<>> \in Seq(Callers)
  BY <1>0, <1>2
<1>5. ToSet(e.calls) = {}
  BY <1>2, <1>4, MessageIs, ElementsAre
<1>6. Follows(e, m) /\ Settled(e, kept)
  BY <1>0, <1>2, <1>5 DEF Follows, Settled
<1> QED  BY <1>1, <1>2, <1>3, <1>4, <1>6

LEMMA ToolBecomes ==
  ASSUME NEW m \in Messages, m.at # 0, NEW kept, NoCall \notin kept, m.role = "tool"
  PROVE  Becomes(Serialized(m, kept), m, kept)
<1>0. m.calls = <<>> /\ m.calls \in Seq(Callers)
  BY MessageIs
<1>1. Serialized(m, kept) = SerializeAnswer(m, kept)
  BY DEF Serialized
<1>2. CASE m.answers = Idless \/ m.answers \in kept
  <2>0. m.answers # NoCall
    BY <1>2 DEF NoCall, Idless
  <2>1. PICK e \in Messages :
            /\ SerializeAnswer(m, kept) = <<e>>
            /\ e.role = "tool" /\ e.at = m.at /\ e.answers = m.answers /\ e.calls = <<>>
            /\ Follows(e, m) /\ Settled(e, kept) /\ (Settled(m, kept) => e = m)
    BY <1>2, <2>0, AnswerIs
  <2>2. \A c \in ToSet(m.calls) : FALSE
    BY <1>0, ElementsAre
  <2>3. Speaks(m) => Speaks(e)
    BY DEF Speaks
  <2>4. e.calls = m.calls /\ ToSet(e.calls) \subseteq ToSet(m.calls)
    BY <1>0, <2>1
  <2>5. Becomes(<<e>>, m, kept)
    BY <2>1, <2>2, <2>3, <2>4, OnePiece
  <2> QED  BY <1>1, <2>1, <2>5
<1>3. CASE ~(m.answers = Idless \/ m.answers \in kept)
  <2>1. SerializeAnswer(m, kept) = <<>>
    BY <1>3 DEF SerializeAnswer
  <2>2. ~Speaks(m) /\ ~Settled(m, kept)
    BY <1>3 DEF Speaks, Settled
  <2>3. Becomes(<<>>, m, kept)
    BY <1>0, <1>3, <2>2, NoPiece
  <2> QED  BY <1>1, <2>1, <2>3
<1> QED  BY <1>2, <1>3

LEMMA TwoElements ==
  ASSUME NEW S, NEW x \in S, NEW y \in S PROVE <<x>> \o <<y>> = <<x, y>>
<1> DEFINE u == <<x>> \o <<y>>
           v == <<x, y>>
<1>1. v \in Seq(S) /\ Len(v) = 2 /\ v[1] = x /\ v[2] = y
  OBVIOUS
<1>2. u \in Seq(S) /\ Len(u) = 2
  OBVIOUS
<1>3. u[1] = x /\ u[2] = y
  <2>1. <<x>> \in Seq(S) /\ <<y>> \in Seq(S) /\ Len(<<x>>) = 1 /\ Len(<<y>>) = 1 /\ <<x>>[1] = x /\ <<y>>[1] = y
    OBVIOUS
  <2> DEFINE a == <<x>>
             b == <<y>>
  <2>2. a \in Seq(S) /\ b \in Seq(S) /\ Len(a) = 1 /\ Len(b) = 1 /\ a[1] = x /\ b[1] = y
    BY <2>1
  <2> HIDE DEF a, b
  <2> DEFINE c == a \o b
  <2>3. \A k \in 1..Len(a) + Len(b) : c[k] = IF k <= Len(a) THEN a[k] ELSE b[k - Len(a)]
    BY <2>2, Joined
  <2> HIDE DEF c
  <2>4. c[1] = x /\ c[2] = y
    <3>1. \A k \in 1..2 : c[k] = IF k <= 1 THEN a[k] ELSE b[k - 1]
      BY <2>2, <2>3
    <3>2. 1 \in 1..2 /\ 2 \in 1..2 /\ 1 <= 1 /\ ~(2 <= 1) /\ 2 - 1 = 1
      OBVIOUS
    <3> QED  BY <2>2, <3>1, <3>2
  <2> QED  BY <2>4 DEF a, b, c
<1> HIDE DEF u, v
<1>4. \A k \in 1..Len(u) : u[k] = v[k]
  <2>1. \A k \in 1..2 : k = 1 \/ k = 2
    OBVIOUS
  <2> QED  BY <1>1, <1>2, <1>3, <2>1
<1>5. u = v
  BY <1>1, <1>2, <1>4, SeqEqual
<1> QED  BY <1>5, Zenon DEF u, v

(* A user's message that holds an answer: the words first.                 *)
LEMMA SplitBecomes ==
  ASSUME NEW m \in Messages, m.at # 0, NEW kept, NoCall \notin kept, m.role = "user",
         m.answers # NoCall
  PROVE  Becomes(Serialized(m, kept), m, kept)
<1> DEFINE d == [m EXCEPT !.answers = NoCall]
           a == SerializeAnswer(m, kept)
           w == IF m.words THEN <<d>> ELSE <<>>
<1>0. m.calls = <<>> /\ m.calls \in Seq(Callers) /\ m.words \in BOOLEAN
  BY MessageIs
<1>1. Serialized(m, kept) = w \o a
  BY DEF Serialized, SerializeUser
<1>2. \A c \in ToSet(m.calls) : FALSE
  BY <1>0, ElementsAre
<1>3. d \in Messages /\ d.calls = m.calls /\ d.role = "user" /\ d.at = m.at /\ d.answers = NoCall
      /\ d.words = m.words
  BY DEF Messages
<1>w. w = IF m.words THEN <<d>> ELSE <<>>
  OBVIOUS
<1> HIDE DEF d, a, w
<1>4. Follows(d, m) /\ Settled(d, kept) /\ Speaks(d) /\ ToSet(d.calls) \subseteq ToSet(m.calls)
  BY <1>2, <1>3 DEF Follows, Settled, Speaks
<1>5. ~Settled(m, kept) /\ (Speaks(m) => m.words)
  BY DEF Settled, Speaks
<1>6. CASE ~(m.answers = Idless \/ m.answers \in kept)
  <2>1. a = <<>>
    BY <1>6 DEF SerializeAnswer, a
  <2>2. CASE m.words
    <3>1. w \o a = <<d>>
      BY <1>3, <1>w, <2>1, <2>2
    <3>2. Becomes(<<d>>, m, kept)
      BY <1>2, <1>3, <1>4, <1>5, <1>6, OnePiece
    <3> QED  BY <1>1, <3>1, <3>2
  <2>3. CASE ~m.words
    <3>1. w \o a = <<>>
      <4>1. w = <<>>
        BY <1>w, <2>3
      <4> DEFINE z == <<>>
      <4>2. z \in Seq(Messages)
        BY EmptySeq
      <4>3. z \o z = z
        BY <4>2, ConcatEmptySeq
      <4> HIDE DEF z
      <4> QED  BY <2>1, <4>1, <4>3, Zenon DEF z
    <3>2. Becomes(<<>>, m, kept)
      BY <1>0, <1>5, <1>6, <2>3, NoPiece
    <3> QED  BY <1>1, <3>1, <3>2
  <2> QED  BY <2>2, <2>3
<1>7. CASE m.answers = Idless \/ m.answers \in kept
  <2>1. PICK e \in Messages :
            /\ SerializeAnswer(m, kept) = <<e>>
            /\ e.role = "tool" /\ e.at = m.at /\ e.answers = m.answers /\ e.calls = <<>>
            /\ Follows(e, m) /\ Settled(e, kept) /\ (Settled(m, kept) => e = m)
    BY <1>7, AnswerIs
  <2>2. a = <<e>> /\ ToSet(e.calls) \subseteq ToSet(m.calls) /\ e.calls = m.calls
    BY <1>0, <2>1 DEF a
  <2>3. CASE ~m.words
    <3>1. w \o a = <<e>>
      BY <1>w, <2>2, <2>3
    <3>2. Becomes(<<e>>, m, kept)
      BY <1>2, <1>5, <2>1, <2>2, <2>3, OnePiece
    <3> QED  BY <1>1, <3>1, <3>2
  <2>4. CASE m.words
    <3> DEFINE s == <<d, e>>
    <3>1. w \o a = s
      <4>1. w = <<d>> /\ a = <<e>>
        BY <1>w, <2>2, <2>4
      <4> QED  BY <1>3, <4>1, TwoElements, Zenon
    <3>2. s \in Seq(Messages) /\ Len(s) = 2 /\ s[1] = d /\ s[2] = e
      BY <1>3, <2>1
    <3>3. \A k \in 1..Len(s) : s[k] = d \/ s[k] = e
      BY <3>2
    <3> HIDE DEF s
    <3>4. 1 \in 1..Len(s) /\ 2 \in 1..Len(s) /\ d.at # 0 /\ e.at # 0
      BY <1>3, <2>1, <3>2
    <3>5. Renders(s, m)
      BY <1>3, <1>4, <2>1, <3>2, <3>3, <3>4 DEF Renders
    <3>6. \A k \in 1..Len(s) : Settled(s[k], kept) /\ ToSet(s[k].calls) \subseteq ToSet(m.calls)
      BY <1>4, <2>1, <2>2, <3>3
    <3>7. \E k \in 1..Len(s) : Speaks(s[k])
      BY <1>4, <3>2, <3>4
    <3>8. \E k \in 1..Len(s) : s[k].answers = m.answers
      BY <2>1, <3>2, <3>4
    <3>9. Becomes(s, m, kept)
      BY <1>0, <1>2, <1>5, <3>5, <3>6, <3>7, <3>8, Zenon DEF Becomes
    <3> QED  BY <1>1, <3>1, <3>9
  <2> QED  BY <1>0, <2>3, <2>4
<1> QED  BY <1>6, <1>7

LEMMA WordsBecome ==
  ASSUME NEW m \in Messages, m.at # 0, NEW kept, NoCall \notin kept, m.role = "user",
         m.answers = NoCall
  PROVE  Becomes(Serialized(m, kept), m, kept)
<1>0. m.calls = <<>> /\ m.calls \in Seq(Callers)
  BY MessageIs
<1>1. Serialized(m, kept) = <<m>>
  BY DEF Serialized, SerializeUser
<1>2. \A c \in ToSet(m.calls) : FALSE
  BY <1>0, ElementsAre
<1>3. Follows(m, m) /\ Settled(m, kept) /\ Speaks(m)
  BY <1>2 DEF Follows, Settled, Speaks
<1>4. Becomes(<<m>>, m, kept)
  BY <1>2, <1>3, OnePiece
<1> QED  BY <1>1, <1>4

(* What SerializeMessages makes of a message.                              *)
LEMMA MessageBecomes ==
  ASSUME NEW m \in Messages, m.at # 0, NEW kept, NoCall \notin kept
  PROVE  Becomes(Serialized(m, kept), m, kept)
<1>1. m.role \in {"system", "developer"} \/ m.role = "assistant" \/ m.role = "tool" \/ m.role = "user"
  BY MessageIs DEF Roles
<1> QED  BY <1>1, AssistantBecomes, SystemBecomes, ToolBecomes, SplitBecomes, WordsBecome

----------------------------------------------------------------------------
(* trae: the whole history.                                                *)

LEMMA AnsweredIs ==
  ASSUME NEW h \in Seq(Messages)
  PROVE  /\ \A x : x \in AnsweredIds(h) <=>
                x # NoCall /\ x # Idless /\ \E p \in 1..Len(h) : h[p].answers = x
         /\ NoCall \notin KeptCalls(h)
         /\ \A x : x \in KeptCalls(h) <=>
                \E p \in 1..Len(h) : /\ h[p].role = "assistant" /\ x \in CallIds(h[p])
                                     /\ CallIds(h[p]) \subseteq AnsweredIds(h)
         /\ KeptCalls(h) \subseteq AnsweredIds(h)
<1>0. DOMAIN h = 1..Len(h)
  OBVIOUS
<1>1. \A x : x \in AnsweredIds(h) <=>
          x # NoCall /\ x # Idless /\ \E p \in 1..Len(h) : h[p].answers = x
  BY <1>0 DEF AnsweredIds
<1>2. \A x : x \in KeptCalls(h) <=>
          \E p \in 1..Len(h) : /\ h[p].role = "assistant" /\ x \in CallIds(h[p])
                               /\ CallIds(h[p]) \subseteq AnsweredIds(h)
  BY <1>0 DEF KeptCalls
<1>3. KeptCalls(h) \subseteq AnsweredIds(h)
  BY <1>2
<1> QED  BY <1>1, <1>2, <1>3

LEMMA CallIdsAre ==
  ASSUME NEW m
  PROVE  \A x : x \in CallIds(m) <=> x # Idless /\ \E c \in ToSet(m.calls) : c.id = x
BY DEF CallIds

(* The same, of what the messages become.                                  *)
SerializesTo(out, h, kept) ==
    /\ out \in Seq(Messages) /\ Placed(out)
    /\ \A j \in 1..Len(out) : Settled(out[j], kept)
    /\ \A p \in 1..Len(h) : Speaks(h[p]) =>
          \E j \in 1..Len(out) : out[j].at = h[p].at /\ Speaks(out[j])
    /\ \A p \in 1..Len(h) : \A c \in ToSet(h[p].calls) : c \in Paired(kept) =>
          \E j \in 1..Len(out) : c \in ToSet(out[j].calls)
    /\ \A p \in 1..Len(h) : h[p].answers \in kept =>
          \E j \in 1..Len(out) : out[j].answers = h[p].answers
    /\ \A p \in 1..Len(h) : h[p].calls # <<>> /\ ToSet(h[p].calls) \subseteq Paired(kept) =>
          \E j \in 1..Len(out) : out[j].at = h[p].at /\ out[j].calls = h[p].calls
    /\ (\A p \in 1..Len(h) : Settled(h[p], kept)) => out = h

LEMMA PiecesSerialize ==
  ASSUME NEW h \in Seq(Messages), Placed(h), NEW kept, NoCall \notin kept,
         NEW s \in [1..Len(h) -> Seq(Messages)],
         \A i \in 1..Len(h) : Becomes(s[i], h[i], kept),
         NEW src, Weaves(FlattenSeq(s), h, src), Made(FlattenSeq(s), s, src)
  PROVE  SerializesTo(FlattenSeq(s), h, kept) /\ KeepsCalls(FlattenSeq(s), h, src)
<1> DEFINE out == FlattenSeq(s)
           n == Len(h)
<1>0. n \in Nat /\ DOMAIN s = 1..n /\ \A i \in 1..n : h[i] \in Messages
  OBVIOUS
<1>s. (\A p \in 1..n : Settled(h[p], kept)) => out = h
  <2> SUFFICES ASSUME \A p \in 1..n : Settled(h[p], kept) PROVE out = h
    OBVIOUS
  <2>1. \A i \in 1..n : s[i] = <<h[i]>>
    BY DEF Becomes
  <2>2. s \in Seq(Seq(Messages)) /\ Len(s) = n
    BY <1>0
  <2> QED  BY <2>1, <2>2, SinglesJoin
<1> HIDE DEF out, n
<1>1. out \in Seq(Messages) /\ \A j \in 1..Len(out) : src[j] \in 0..n
  BY DEF Weaves, out, n
<1>2. ASSUME NEW p \in 1..n, NEW k \in 1..Len(s[p])
      PROVE  \E j \in 1..Len(out) : src[j] = p /\ out[j] = s[p][k] /\ out[j].at = h[p].at
  <2>1. Becomes(s[p], h[p], kept)
    BY DEF n
  <2>2. s[p][k].at # 0
    BY <2>1 DEF Becomes, Settled
  <2>3. PICK j \in 1..Len(out) : src[j] = p /\ out[j] = s[p][k]
    BY <1>0, <2>2 DEF Made, out
  <2>4. p # 0
    BY <1>0
  <2>5. out[j].at = h[p].at
    BY <2>3, <2>4 DEF Weaves, Follows, out
  <2> QED  BY <2>3, <2>5
<1>3. ASSUME NEW j \in 1..Len(out)
      PROVE  src[j] \in 1..n /\ Settled(out[j], kept) /\ out[j].at # 0
             /\ ToSet(out[j].calls) \subseteq ToSet(h[src[j]].calls)
  <2>1. PICK p \in DOMAIN s : \E k \in 1..Len(s[p]) : out[j] = s[p][k] /\ (src[j] = p \/ src[j] = 0)
    BY DEF Made, out
  <2>2. PICK k \in 1..Len(s[p]) : out[j] = s[p][k] /\ (src[j] = p \/ src[j] = 0)
    BY <2>1
  <2>3. Becomes(s[p], h[p], kept) /\ p \in 1..n
    BY <1>0 DEF n
  <2>4. Settled(out[j], kept) /\ ToSet(out[j].calls) \subseteq ToSet(h[p].calls)
    BY <2>2, <2>3 DEF Becomes
  <2>5. out[j].at # 0
    BY <2>4 DEF Settled
  <2>6. src[j] # 0
    BY <2>5 DEF Weaves, out
  <2> QED  BY <2>2, <2>3, <2>4, <2>5, <2>6
<1>4. Placed(out) /\ \A j \in 1..Len(out) : Settled(out[j], kept)
  BY <1>3 DEF Placed
<1>5. ASSUME NEW p \in 1..n, Speaks(h[p])
      PROVE  \E j \in 1..Len(out) : out[j].at = h[p].at /\ Speaks(out[j])
  <2>1. PICK k \in 1..Len(s[p]) : Speaks(s[p][k])
    BY <1>5 DEF n, Becomes
  <2> QED  BY <1>2, <2>1
<1>6. ASSUME NEW p \in 1..n, NEW c \in ToSet(h[p].calls), c \in Paired(kept)
      PROVE  \E j \in 1..Len(out) : src[j] = p /\ c \in ToSet(out[j].calls)
  <2>1. PICK k \in 1..Len(s[p]) : c \in ToSet(s[p][k].calls)
    BY <1>6 DEF n, Becomes
  <2> QED  BY <1>2, <2>1
<1>7. ASSUME NEW p \in 1..n, h[p].answers \in kept
      PROVE  \E j \in 1..Len(out) : out[j].answers = h[p].answers
  <2>1. PICK k \in 1..Len(s[p]) : s[p][k].answers = h[p].answers
    BY <1>7 DEF n, Becomes
  <2>2. PICK j \in 1..Len(out) : src[j] = p /\ out[j] = s[p][k] /\ out[j].at = h[p].at
    BY <1>2
  <2> QED  BY <2>1, <2>2
<1>8. ASSUME NEW p \in 1..n, h[p].calls # <<>>, ToSet(h[p].calls) \subseteq Paired(kept)
      PROVE  \E j \in 1..Len(out) : out[j].at = h[p].at /\ out[j].calls = h[p].calls
  <2>1. PICK k \in 1..Len(s[p]) : s[p][k].calls = h[p].calls
    BY <1>8 DEF n, Becomes
  <2>2. PICK j \in 1..Len(out) : src[j] = p /\ out[j] = s[p][k] /\ out[j].at = h[p].at
    BY <1>2
  <2> QED  BY <2>1, <2>2
<1>9. SerializesTo(out, h, kept)
  BY <1>1, <1>s, <1>4, <1>5, <1>6, <1>7, <1>8, Zenon DEF SerializesTo, n
<1>10. ASSUME NEW j \in 1..Len(out), src[j] # 0, out[j].role = "tool",
              out[j].answers \notin {NoCall, Idless}, NEW p \in 1..(src[j] - 1),
              NEW c \in ToSet(h[p].calls), c \in Named, c.id = out[j].answers
       PROVE  \E i \in 1..Len(out) : src[i] = p /\ c \in ToSet(out[i].calls)
  <2>1. p \in 1..n
    BY <1>0, <1>3
  <2>2. out[j].answers \in kept
    BY <1>3, <1>10 DEF Settled
  <2>3. c \in Paired(kept)
    BY <1>10, <2>2 DEF Paired
  <2> QED  BY <1>6, <1>10, <2>1, <2>3
<1>11. KeepsCalls(out, h, src)
  BY <1>10 DEF KeepsCalls
<1> QED  BY <1>9, <1>11 DEF out

LEMMA SerializeIs ==
  ASSUME NEW h \in Seq(Messages), Placed(h)
  PROVE  /\ SerializesTo(SerializeMessages(h), h, KeptCalls(h))
         /\ \A a : MadeOf(h, a) => MadeOf(SerializeMessages(h), a)
<1> DEFINE kept == KeptCalls(h)
           s == [i \in DOMAIN h |-> Serialized(h[i], kept)]
           n == Len(h)
<1>1. NoCall \notin kept
  BY AnsweredIs
<1>2. DOMAIN h = 1..n /\ n \in Nat /\ \A i \in 1..n : h[i] \in Messages
  OBVIOUS
<1>3. \A i \in 1..n : s[i] = Serialized(h[i], kept)
  BY <1>2
<1>4. s = [i \in 1..n |-> s[i]]
  BY <1>2
<1>5. SerializeMessages(h) = FlattenSeq(s)
  BY DEF SerializeMessages
<1> HIDE DEF s, kept
<1>6. \A i \in 1..n : Becomes(s[i], h[i], kept)
  BY <1>1, <1>2, <1>3, MessageBecomes DEF Placed
<1>7. \A i \in 1..n : Renders(s[i], h[i]) /\ s[i] \in Seq(Messages)
  BY <1>6, Zenon DEF Becomes, Renders
<1>8. s \in [1..n -> Seq(Messages)]
  BY <1>4, <1>7
<1>9. PICK src : Weaves(FlattenSeq(s), h, src) /\ Made(FlattenSeq(s), s, src)
  BY <1>7, <1>8, PiecesWeave
<1>10. SerializesTo(FlattenSeq(s), h, kept) /\ KeepsCalls(FlattenSeq(s), h, src)
  BY <1>1, <1>6, <1>8, <1>9, PiecesSerialize
<1>11. ASSUME NEW a, MadeOf(h, a) PROVE MadeOf(FlattenSeq(s), a)
  BY <1>9, <1>10, <1>11, WovenIsMade
<1> QED  BY <1>5, <1>10, <1>11 DEF kept

(* TransformToSOLOBody changes nothing where all calls have a name.        *)
LEMMA TransformKeeps ==
  ASSUME NEW h \in Seq(Messages), \A i \in 1..Len(h) : ToSet(h[i].calls) \subseteq Named
  PROVE  TransformSOLO(h) = h
<1>1. ASSUME NEW i \in DOMAIN h PROVE [h[i] EXCEPT !.calls = Only(@, Named)] = h[i]
  <2>1. h[i] \in Messages /\ i \in 1..Len(h)
    OBVIOUS
  <2>2. h[i].calls \in Seq(Callers)
    BY <2>1, MessageIs
  <2>3. Only(h[i].calls, Named) = h[i].calls
    BY <2>1, <2>2, OnlyIs
  <2> QED  BY <2>1, <2>3 DEF Messages
<1>2. TransformSOLO(h) = [i \in DOMAIN h |-> h[i]]
  BY <1>1, Zenon DEF TransformSOLO
<1> QED  BY <1>2

LEMMA PairedAreNamed == ASSUME NEW kept PROVE Paired(kept) \subseteq Named
BY DEF Paired

(* What the translation answers and calls, when it has all been named.     *)
LEMMA TranslatedPairs ==
  ASSUME NEW h \in Seq(Messages), Placed(h),
         \A i \in 1..Len(h) : ToSet(h[i].calls) \subseteq Named
  PROVE  LET out == SerializeMessages(h) IN
         /\ UNION {CallIds(out[j]) : j \in DOMAIN out} = AnsweredIds(out)
         /\ SerializeMessages(out) = out
<1> DEFINE out == SerializeMessages(h)
           kept == KeptCalls(h)
           more == KeptCalls(out)
           calls == UNION {CallIds(out[j]) : j \in DOMAIN out}
<1>1. SerializesTo(out, h, kept)
  BY SerializeIs
<1>2. out \in Seq(Messages) /\ Placed(out) /\ \A j \in 1..Len(out) : Settled(out[j], kept)
  BY <1>1 DEF SerializesTo
<1>3. SerializesTo(SerializeMessages(out), out, more)
  BY <1>2, SerializeIs
<1>4. \A i \in 1..Len(h) : h[i] \in Messages /\ h[i].calls \in Seq(Callers)
  BY MessageIs
<1>5. DOMAIN out = 1..Len(out) /\ \A j \in 1..Len(out) : out[j] \in Messages
  BY <1>2
<1>a. /\ \A x : x \in AnsweredIds(h) <=>
                x # NoCall /\ x # Idless /\ \E p \in 1..Len(h) : h[p].answers = x
      /\ \A x : x \in kept <=>
                \E p \in 1..Len(h) : /\ h[p].role = "assistant" /\ x \in CallIds(h[p])
                                     /\ CallIds(h[p]) \subseteq AnsweredIds(h)
      /\ kept \subseteq AnsweredIds(h)
  BY AnsweredIs
<1>b. /\ \A x : x \in AnsweredIds(out) <=>
                x # NoCall /\ x # Idless /\ \E p \in 1..Len(out) : out[p].answers = x
      /\ \A x : x \in more <=>
                \E p \in 1..Len(out) : /\ out[p].role = "assistant" /\ x \in CallIds(out[p])
                                       /\ CallIds(out[p]) \subseteq AnsweredIds(out)
  BY <1>2, AnsweredIs
<1>6. \A x : x \in calls <=> \E j \in 1..Len(out) : x \in CallIds(out[j])
  BY <1>5
<1> HIDE DEF out, kept, more, calls
<1>7. kept \subseteq AnsweredIds(out)
  <2> SUFFICES ASSUME NEW x \in kept PROVE x \in AnsweredIds(out)
    OBVIOUS
  <2>1. PICK p \in 1..Len(h) : h[p].answers = x
    BY <1>a
  <2>2. x # NoCall /\ x # Idless
    BY <1>a
  <2>3. PICK j \in 1..Len(out) : out[j].answers = x
    BY <1>1, <2>1 DEF SerializesTo
  <2> QED  BY <1>b, <2>2, <2>3
<1>8. ASSUME NEW x \in kept
      PROVE  \E j \in 1..Len(out) : /\ out[j].role = "assistant" /\ x \in CallIds(out[j])
                                    /\ CallIds(out[j]) \subseteq kept
  <2>1. PICK p \in 1..Len(h) : /\ h[p].role = "assistant" /\ x \in CallIds(h[p])
                               /\ CallIds(h[p]) \subseteq AnsweredIds(h)
    BY <1>a
  <2>2. CallIds(h[p]) \subseteq kept
    BY <1>a, <2>1
  <2>3. ToSet(h[p].calls) \subseteq Paired(kept)
    BY <2>2, CallIdsAre DEF Paired
  <2>4. h[p].calls # <<>>
    BY <1>4, <2>1, CallIdsAre, ElementsAre
  <2>5. PICK j \in 1..Len(out) : out[j].at = h[p].at /\ out[j].calls = h[p].calls
    BY <1>1, <2>3, <2>4 DEF SerializesTo
  <2>6. out[j].role = "assistant"
    BY <1>5, <2>4, <2>5, MessageIs
  <2>7. CallIds(out[j]) = CallIds(h[p])
    BY <2>5, Zenon DEF CallIds
  <2> QED  BY <2>1, <2>2, <2>6, <2>7
<1>9. kept \subseteq more
  BY <1>7, <1>8, <1>b
<1>10. SerializeMessages(out) = out
  <2>1. ASSUME NEW j \in 1..Len(out) PROVE Settled(out[j], more)
    BY <1>2, <1>9 DEF Settled, Paired
  <2> QED  BY <1>3, <2>1 DEF SerializesTo
<1>11. calls \subseteq AnsweredIds(out)
  <2> SUFFICES ASSUME NEW x \in calls PROVE x \in kept
    BY <1>7
  <2>1. PICK j \in 1..Len(out) : x \in CallIds(out[j])
    BY <1>6
  <2>2. PICK c \in ToSet(out[j].calls) : c.id = x
    BY <2>1, CallIdsAre
  <2>3. c \in Paired(kept) /\ x # Idless
    BY <1>2, <2>1, CallIdsAre DEF Settled
  <2> QED  BY <2>2, <2>3 DEF Paired
<1>12. AnsweredIds(out) \subseteq calls
  <2> SUFFICES ASSUME NEW x \in AnsweredIds(out) PROVE x \in calls
    OBVIOUS
  <2>1. PICK p \in 1..Len(out) : out[p].answers = x
    BY <1>b
  <2>2. x # NoCall /\ x # Idless
    BY <1>b
  <2>3. out[p].role = "tool"
    BY <1>2, <1>5, <2>1, <2>2, MessageIs DEF Settled
  <2>4. x \in kept
    BY <1>2, <2>1, <2>2, <2>3 DEF Settled
  <2> QED  BY <1>6, <1>8, <2>4
<1> QED  BY <1>10, <1>11, <1>12 DEF out, calls

(* A batch answered whole is kept whole, and its answers with it.          *)
Answered(m, h) == m.calls # <<>> /\ \A c \in ToSet(m.calls) : c.named /\ c.id \in AnsweredIds(h)

LEMMA BatchesAreTranslated ==
  ASSUME NEW h \in Seq(Messages), Placed(h), NEW p \in 1..Len(h), Answered(h[p], h)
  PROVE  \E j \in 1..Len(SerializeMessages(h)) :
            /\ SerializeMessages(h)[j].at = h[p].at /\ SerializeMessages(h)[j].calls = h[p].calls
            /\ Answered(SerializeMessages(h)[j], SerializeMessages(h))
<1> DEFINE out == SerializeMessages(h)
           kept == KeptCalls(h)
<1>1. SerializesTo(out, h, kept)
  BY SerializeIs
<1>2. out \in Seq(Messages)
  BY <1>1 DEF SerializesTo
<1>3. h[p] \in Messages /\ h[p].calls \in Seq(Callers) /\ h[p].role = "assistant"
  BY MessageIs DEF Answered
<1>a. /\ \A x : x \in AnsweredIds(h) <=>
                x # NoCall /\ x # Idless /\ \E q \in 1..Len(h) : h[q].answers = x
      /\ \A x : x \in kept <=>
                \E q \in 1..Len(h) : /\ h[q].role = "assistant" /\ x \in CallIds(h[q])
                                     /\ CallIds(h[q]) \subseteq AnsweredIds(h)
  BY AnsweredIs
<1>b. \A x : x \in AnsweredIds(out) <=>
                x # NoCall /\ x # Idless /\ \E q \in 1..Len(out) : out[q].answers = x
  BY <1>2, AnsweredIs
<1> HIDE DEF out, kept
<1>4. CallIds(h[p]) \subseteq AnsweredIds(h)
  BY CallIdsAre DEF Answered
<1>5. ASSUME NEW c \in ToSet(h[p].calls) PROVE c.id \in kept /\ c.named /\ c \in Callers
  <2>1. c.id \in AnsweredIds(h) /\ c.named
    BY DEF Answered
  <2>2. c.id \in CallIds(h[p])
    BY <1>a, <2>1, CallIdsAre
  <2>3. c \in Callers
    BY <1>3, ElementsAre
  <2> QED  BY <1>3, <1>4, <1>a, <2>1, <2>2, <2>3
<1>6. ToSet(h[p].calls) \subseteq Paired(kept)
  BY <1>5 DEF Paired, Named
<1>7. PICK j \in 1..Len(out) : out[j].at = h[p].at /\ out[j].calls = h[p].calls
  BY <1>1, <1>6 DEF SerializesTo, Answered
<1>8. ASSUME NEW c \in ToSet(out[j].calls) PROVE c.named /\ c.id \in AnsweredIds(out)
  <2>1. c.named /\ c.id \in kept
    BY <1>5, <1>7
  <2>2. c.id \in AnsweredIds(h)
    BY <2>1, AnsweredIs DEF kept
  <2>3. PICK q \in 1..Len(h) : h[q].answers = c.id
    BY <1>a, <2>2
  <2>4. PICK i \in 1..Len(out) : out[i].answers = c.id
    BY <1>1, <2>1, <2>3 DEF SerializesTo
  <2> QED  BY <1>a, <1>b, <2>1, <2>2, <2>4
<1>9. Answered(out[j], out)
  BY <1>7, <1>8 DEF Answered
<1> QED  BY <1>7, <1>9 DEF out

----------------------------------------------------------------------------
(* trae: what is trimmed.                                                  *)

(* After each message of the walk: what is left, and whether it goes.      *)
Walks(s, h, max) ==
    s = [n \in 0..Len(h) |->
           IF n = 0 THEN [size |-> Len(h), round |-> FALSE, drops |-> FALSE]
           ELSE Looked(s[n - 1], h[n], max)]

Looks == [size : Int, round : BOOLEAN, drops : BOOLEAN]

LEMMA LookedIs ==
  ASSUME NEW s \in Looks, NEW m \in Messages, NEW max \in Nat
  PROVE  LET t == Looked(s, m, max) IN
         /\ t \in Looks
         /\ m.role = "system" => ~t.drops
         /\ s.size <= max /\ ~s.round => t.size <= max /\ ~t.round /\ ~t.drops
         /\ ~t.drops /\ m.role # "system" => t.size <= max /\ ~t.round
         /\ s.round /\ m.role = "tool" => t.round /\ t.drops
         /\ t.drops /\ m.calls # <<>> => t.round
<1> DEFINE t == Looked(s, m, max)
<1>0. s.size \in Int /\ s.round \in BOOLEAN /\ s.drops \in BOOLEAN
  BY DEF Looks
<1>m. m.calls # <<>> => m.role = "assistant"
  BY MessageIs
<1>r. RoundStarts(m) \in BOOLEAN /\ (m.calls # <<>> => RoundStarts(m) = TRUE)
  BY DEF RoundStarts
<1>1. CASE s.round /\ m.role = "tool"
  <2>1. t = [size |-> s.size - 1, round |-> TRUE, drops |-> TRUE]
    BY <1>1 DEF Looked
  <2> HIDE DEF t
  <2> QED  BY <1>0, <1>1, <1>m, <2>1 DEF Looks, t
<1>2. CASE m.role = "system"
  <2>1. t = [size |-> s.size, round |-> FALSE, drops |-> FALSE]
    BY <1>2 DEF Looked
  <2> HIDE DEF t
  <2> QED  BY <1>0, <1>2, <2>1 DEF Looks, t
<1>3. CASE m.role # "system" /\ ~(s.round /\ m.role = "tool")
  <2>1. t = IF s.size > max
            THEN [size |-> s.size - 1, round |-> RoundStarts(m), drops |-> TRUE]
            ELSE [size |-> s.size, round |-> FALSE, drops |-> FALSE]
    BY <1>3, Zenon DEF Looked
  <2> HIDE DEF t
  <2>2. CASE s.size > max
    <3>1. t = [size |-> s.size - 1, round |-> RoundStarts(m), drops |-> TRUE]
      BY <2>1, <2>2
    <3> QED  BY <1>0, <1>3, <1>r, <2>2, <3>1 DEF Looks, t
  <2>3. CASE ~(s.size > max)
    <3>1. t = [size |-> s.size, round |-> FALSE, drops |-> FALSE]
      BY <2>1, <2>3
    <3> QED  BY <1>0, <1>3, <2>3, <3>1 DEF Looks, t
  <2> QED  BY <2>2, <2>3
<1> QED  BY <1>1, <1>2, <1>3

TrimBegins(h) == [size |-> Len(h), round |-> FALSE, drops |-> FALSE]

LEMMA TrimWalks ==
  ASSUME NEW h \in Seq(Messages), NEW max \in Nat, max # 0
  PROVE  \E s : /\ s \in [0..Len(h) -> Looks] /\ s[0] = TrimBegins(h)
                /\ \A i \in 1..Len(h) : s[i] = Looked(s[i - 1], h[i], max)
                /\ TrimTraeHistory(h, max) =
                     FlattenSeq([i \in DOMAIN h |-> IF s[i].drops THEN <<>> ELSE <<h[i]>>])
<1> DEFINE f == CHOOSE s : Walks(s, h, max)
           n == Len(h)
<1>0. n \in Nat /\ \A i \in 1..n : h[i] \in Messages
  OBVIOUS
<1>1. TrimTraeHistory(h, max) =
        IF max = 0 THEN h
        ELSE FlattenSeq([i \in DOMAIN h |-> IF f[i].drops THEN <<>> ELSE <<h[i]>>])
  BY Zenon DEF TrimTraeHistory, Walks
<1>2. TrimBegins(h) \in Looks
  BY <1>0 DEF TrimBegins, Looks
<1>3. \E s : Walks(s, h, max)
  <2> DEFINE g == [i \in 1..n |-> [x \in Looks |-> Looked(x, h[i], max)]]
  <2>1. \A i \in 1..n : \A x \in Looks : g[i][x] = Looked(x, h[i], max)
    OBVIOUS
  <2>2. g \in [1..n -> [Looks -> Looks]]
    <3>1. \A i \in 1..n : \A x \in Looks : Looked(x, h[i], max) \in Looks
      BY <1>0, LookedIs
    <3> QED  BY <3>1
  <2> HIDE DEF g, n
  <2>3. PICK r \in [0..n -> Looks] : r[0] = TrimBegins(h) /\ \A i \in 1..n : r[i] = g[i][r[i - 1]]
    <3>1. \E r : Goes(r, Looks, TrimBegins(h), n, g)
      BY <1>0, <1>2, <2>2, Iterates
    <3> QED  BY <3>1 DEF Goes
  <2>4. ASSUME NEW i \in 0..n
        PROVE  r[i] = IF i = 0 THEN TrimBegins(h) ELSE Looked(r[i - 1], h[i], max)
    <3>1. CASE i = 0
      BY <2>3, <3>1
    <3>2. CASE i # 0
      <4>1. i \in 1..n /\ r[i - 1] \in Looks
        BY <1>0, <3>2
      <4> QED  BY <2>1, <2>3, <3>2, <4>1
    <3> QED  BY <3>1, <3>2
  <2>5. r = [i \in 0..n |-> IF i = 0 THEN TrimBegins(h) ELSE Looked(r[i - 1], h[i], max)]
    BY <2>4
  <2> QED  BY <2>5, Zenon DEF Walks, n, TrimBegins
<1>4. Walks(f, h, max)
  BY <1>3, Zenon
<1>5. f = [i \in 0..n |-> IF i = 0 THEN TrimBegins(h) ELSE Looked(f[i - 1], h[i], max)]
  BY <1>4, Zenon DEF Walks, TrimBegins
<1> HIDE DEF f
<1>6. f[0] = TrimBegins(h) /\ \A i \in 1..n : f[i] = Looked(f[i - 1], h[i], max)
  <2>1. \A i \in 0..n : f[i] = IF i = 0 THEN TrimBegins(h) ELSE Looked(f[i - 1], h[i], max)
    BY <1>5, Zenon
  <2>2. \A i \in 1..n : i \in 0..n /\ i # 0
    BY <1>0
  <2>3. 0 \in 0..n
    BY <1>0
  <2> QED  BY <2>1, <2>2, <2>3, Zenon
<1>7. \A i \in 0..n : f[i] \in Looks
  <2> DEFINE T == {i \in Nat : i <= n => f[i] \in Looks}
  <2>1. 0 \in T
    BY <1>2, <1>6
  <2>2. ASSUME NEW i \in Nat, i \in T PROVE i + 1 \in T
    <3> SUFFICES ASSUME i + 1 <= n PROVE f[i + 1] \in Looks
      OBVIOUS
    <3>1. i + 1 \in 1..n /\ i <= n /\ (i + 1) - 1 = i
      BY <1>0
    <3>2. f[i + 1] = Looked(f[i], h[i + 1], max) /\ f[i] \in Looks
      BY <1>6, <2>2, <3>1
    <3> QED  BY <1>0, <3>1, <3>2, LookedIs
  <2>3. Nat \subseteq T
    <3> HIDE DEF T
    <3> QED  BY <2>1, <2>2, AllNumbers
  <2> QED  BY <1>0, <2>3
<1>8. f \in [0..n -> Looks]
  <2>1. f = [i \in 0..n |-> f[i]]
    BY <1>5, Zenon
  <2> QED  BY <1>7, <2>1
<1> QED  BY <1>1, <1>6, <1>8, Zenon DEF n

LEMMA WalkDrops ==
  ASSUME NEW h \in Seq(Messages), NEW max \in Nat, NEW s \in [0..Len(h) -> Looks],
         \A i \in 1..Len(h) : s[i] = Looked(s[i - 1], h[i], max)
  PROVE  /\ \A i \in 1..Len(h) : h[i].role = "system" => ~s[i].drops
         /\ \A i, k \in 1..Len(h) : i < k /\ ~s[i].drops /\ h[i].role # "system" => ~s[k].drops
         /\ \A p, j \in 1..Len(h) :
               /\ p < j /\ s[p].drops /\ h[p].calls # <<>> /\ h[j].role = "tool"
               /\ \A k \in (p + 1)..(j - 1) : h[k].role = "tool"
               => s[j].drops
<1> DEFINE n == Len(h)
<1>0. n \in Nat /\ \A i \in 1..n : h[i] \in Messages
  OBVIOUS
<1>1. ASSUME NEW i \in 1..n
      PROVE  /\ i - 1 \in 0..n /\ s[i - 1] \in Looks /\ s[i] \in Looks
             /\ h[i].role = "system" => ~s[i].drops
             /\ s[i - 1].size <= max /\ ~s[i - 1].round => s[i].size <= max /\ ~s[i].round /\ ~s[i].drops
             /\ ~s[i].drops /\ h[i].role # "system" => s[i].size <= max /\ ~s[i].round
             /\ s[i - 1].round /\ h[i].role = "tool" => s[i].round /\ s[i].drops
             /\ s[i].drops /\ h[i].calls # <<>> => s[i].round
  <2>1. i - 1 \in 0..n /\ i \in 0..n
    BY <1>0
  <2>2. s[i - 1] \in Looks /\ s[i] \in Looks /\ h[i] \in Messages
    BY <1>0, <2>1
  <2> DEFINE t == s[i - 1]
             m == h[i]
             u == Looked(t, m, max)
  <2>3. u = s[i]
    OBVIOUS
  <2>4. /\ u \in Looks
        /\ m.role = "system" => ~u.drops
        /\ t.size <= max /\ ~t.round => u.size <= max /\ ~u.round /\ ~u.drops
        /\ ~u.drops /\ m.role # "system" => u.size <= max /\ ~u.round
        /\ t.round /\ m.role = "tool" => u.round /\ u.drops
        /\ u.drops /\ m.calls # <<>> => u.round
    BY <2>2, LookedIs
  <2> HIDE DEF u
  <2> QED  BY <2>1, <2>2, <2>3, <2>4
<1>2. ASSUME NEW i \in 1..n, NEW k \in 1..n, i < k, ~s[i].drops, h[i].role # "system"
      PROVE  ~s[k].drops
  <2> DEFINE T == {d \in Nat : i + d <= n => s[i + d].size <= max /\ ~s[i + d].round
                                             /\ (d # 0 => ~s[i + d].drops)}
  <2>1. 0 \in T
    <3>1. s[i].size <= max /\ ~s[i].round /\ i + 0 = i
      BY <1>1, <1>2
    <3> QED  BY <3>1
  <2>2. ASSUME NEW d \in Nat, d \in T PROVE d + 1 \in T
    <3> SUFFICES ASSUME i + (d + 1) <= n
                 PROVE  s[i + (d + 1)].size <= max /\ ~s[i + (d + 1)].round /\ ~s[i + (d + 1)].drops
      OBVIOUS
    <3> DEFINE e == i + (d + 1)
    <3>1. e \in 1..n /\ e - 1 = i + d /\ i + d <= n
      BY <1>0
    <3>2. s[e - 1].size <= max /\ ~s[e - 1].round
      BY <2>2, <3>1
    <3> HIDE DEF e
    <3>3. s[e].size <= max /\ ~s[e].round /\ ~s[e].drops
      BY <1>1, <3>1, <3>2
    <3> QED  BY <3>3 DEF e
  <2>3. Nat \subseteq T
    <3> HIDE DEF T
    <3> QED  BY <2>1, <2>2, AllNumbers
  <2>4. k - i \in Nat /\ k - i # 0 /\ i + (k - i) = k /\ i + (k - i) <= n
    BY <1>0, <1>2
  <2> QED  BY <2>3, <2>4
<1>3. ASSUME NEW p \in 1..n, NEW j \in 1..n, p < j, s[p].drops, h[p].calls # <<>>, h[j].role = "tool",
             \A k \in (p + 1)..(j - 1) : h[k].role = "tool"
      PROVE  s[j].drops
  <2> DEFINE T == {d \in Nat : p + d <= j => s[p + d].round /\ s[p + d].drops}
  <2>1. 0 \in T
    <3>1. s[p].round /\ s[p].drops /\ p + 0 = p
      BY <1>1, <1>3
    <3> QED  BY <3>1
  <2>2. ASSUME NEW d \in Nat, d \in T PROVE d + 1 \in T
    <3> SUFFICES ASSUME p + (d + 1) <= j PROVE s[p + (d + 1)].round /\ s[p + (d + 1)].drops
      OBVIOUS
    <3> DEFINE e == p + (d + 1)
    <3>1. e \in 1..n /\ e - 1 = p + d /\ p + d <= j /\ (e = j \/ e \in (p + 1)..(j - 1))
      BY <1>0
    <3>2. s[e - 1].round
      BY <2>2, <3>1
    <3> HIDE DEF e
    <3>3. s[e].round /\ s[e].drops
      BY <1>1, <1>3, <3>1, <3>2
    <3> QED  BY <3>3 DEF e
  <2>3. Nat \subseteq T
    <3> HIDE DEF T
    <3> QED  BY <2>1, <2>2, AllNumbers
  <2>4. j - p \in Nat /\ p + (j - p) = j /\ p + (j - p) <= j
    BY <1>0, <1>3
  <2> QED  BY <2>3, <2>4
<1> QED  BY <1>1, <1>2, <1>3

(* A message for each, and none between: nothing moves.                    *)
LEMMA PointsWeave ==
  ASSUME NEW h \in Seq(Messages), NEW out \in Seq(Messages), Len(out) = Len(h),
         \A i \in 1..Len(h) : out[i].at # 0 /\ Follows(out[i], h[i]) /\ out[i].calls = h[i].calls
  PROVE  \E src : /\ Weaves(out, h, src) /\ KeepsCalls(out, h, src)
                  /\ \A i \in 1..Len(h) : src[i] = i
<1> DEFINE n == Len(h)
           src == [i \in 1..n |-> i]
<1>0. n \in Nat /\ Len(out) = n /\ src \in [1..n -> 0..n] /\ \A i \in 1..n : src[i] = i
  OBVIOUS
<1> HIDE DEF src
<1>1. Weaves(out, h, src)
  BY <1>0 DEF Weaves, n
<1>2. KeepsCalls(out, h, src)
  <2> SUFFICES ASSUME NEW j \in 1..n, NEW p \in 1..(j - 1), NEW c \in ToSet(h[p].calls)
               PROVE  \E i \in 1..n : src[i] = p /\ c \in ToSet(out[i].calls)
    BY <1>0 DEF KeepsCalls
  <2>1. p \in 1..n
    BY <1>0
  <2>2. out[p].calls = h[p].calls
    BY <2>1
  <2> QED  BY <1>0, <2>1, <2>2
<1> QED  BY <1>0, <1>1, <1>2

(* What the trim leaves, and what it may have taken.                       *)
Trims(out, h, max, src) ==
    /\ Weaves(out, h, src) /\ KeepsCalls(out, h, src)
    /\ \A j \in 1..Len(out) : src[j] # 0 /\ out[j] = h[src[j]]
    /\ \A q \in 1..Len(h) :
          \/ \E j \in 1..Len(out) : src[j] = q /\ out[j] = h[q]
          \/ /\ max # 0 /\ h[q].role # "system"
             /\ \A j \in 1..Len(out) : src[j] < q => out[j].role = "system"

LEMMA UntrimmedIs == ASSUME NEW h PROVE TrimTraeHistory(h, 0) = h
BY Zenon DEF TrimTraeHistory

LEMMA TrimIs ==
  ASSUME NEW h \in Seq(Messages), Placed(h), NEW max \in Nat
  PROVE  \E src : Trims(TrimTraeHistory(h, max), h, max, src)
<1> DEFINE n == Len(h)
<1>0. n \in Nat /\ DOMAIN h = 1..n /\ \A i \in 1..n : h[i] \in Messages /\ h[i].at # 0 /\ Follows(h[i], h[i])
  BY DEF Placed, Follows
<1>1. CASE max = 0
  <2>1. TrimTraeHistory(h, max) = h
    BY <1>1, UntrimmedIs
  <2>2. PICK src : Weaves(h, h, src) /\ KeepsCalls(h, h, src) /\ \A i \in 1..n : src[i] = i
    BY <1>0, PointsWeave
  <2>3. \A i \in 1..n : i # 0
    BY <1>0
  <2>4. Trims(h, h, max, src)
    BY <2>2, <2>3 DEF Trims, n
  <2> QED  BY <2>1, <2>4
<1>2. CASE max # 0
  <2>1. PICK s :
            /\ s \in [0..n -> Looks] /\ s[0] = TrimBegins(h)
            /\ \A i \in 1..n : s[i] = Looked(s[i - 1], h[i], max)
            /\ TrimTraeHistory(h, max) =
                 FlattenSeq([i \in DOMAIN h |-> IF s[i].drops THEN <<>> ELSE <<h[i]>>])
    BY <1>2, TrimWalks, Zenon DEF n
  <2> DEFINE ps == [i \in DOMAIN h |-> IF s[i].drops THEN <<>> ELSE <<h[i]>>]
             out == FlattenSeq(ps)
  <2>2. /\ \A i \in 1..n : h[i].role = "system" => ~s[i].drops
        /\ \A i, k \in 1..n : i < k /\ ~s[i].drops /\ h[i].role # "system" => ~s[k].drops
        /\ \A p, j \in 1..n :
              /\ p < j /\ s[p].drops /\ h[p].calls # <<>> /\ h[j].role = "tool"
              /\ \A k \in (p + 1)..(j - 1) : h[k].role = "tool"
              => s[j].drops
    BY <2>1, WalkDrops DEF n
  <2>3. ASSUME NEW i \in 1..n
        PROVE  /\ s[i].drops => ps[i] \in Seq(Messages) /\ Len(ps[i]) = 0
               /\ ~s[i].drops => ps[i] \in Seq(Messages) /\ Len(ps[i]) = 1 /\ ps[i][1] = h[i]
    BY <1>0
  <2>4. ps = [i \in 1..n |-> ps[i]]
    BY <1>0
  <2>5. TrimTraeHistory(h, max) = out
    BY <2>1
  <2> HIDE DEF ps
  <2>6. ps \in [1..n -> Seq(Messages)]
    BY <2>3, <2>4
  <2>7. \A i \in 1..n : Renders(ps[i], h[i])
    <3> SUFFICES ASSUME NEW i \in 1..n PROVE Renders(ps[i], h[i])
      OBVIOUS
    <3>1. CASE s[i].drops
      BY <2>3, <3>1 DEF Renders
    <3>2. CASE ~s[i].drops
      <4>1. ps[i] \in Seq(Messages) /\ Len(ps[i]) = 1 /\ ps[i][1] = h[i]
        BY <2>3, <3>2
      <4> QED  BY <1>0, <4>1 DEF Renders
    <3> QED  BY <3>1, <3>2
  <2>8. PICK src : Weaves(out, h, src) /\ Made(out, ps, src)
    BY <2>6, <2>7, PiecesWeave DEF n
  <2>9. ASSUME NEW j \in 1..Len(out)
        PROVE  src[j] \in 1..n /\ out[j] = h[src[j]] /\ ~s[src[j]].drops
    <3>1. PICK p \in DOMAIN ps : \E k \in 1..Len(ps[p]) : out[j] = ps[p][k] /\ (src[j] = p \/ src[j] = 0)
      BY <2>8 DEF Made
    <3>2. PICK k \in 1..Len(ps[p]) : out[j] = ps[p][k] /\ (src[j] = p \/ src[j] = 0)
      BY <3>1
    <3>3. p \in 1..n
      BY <2>6
    <3>4. ~s[p].drops /\ k = 1 /\ out[j] = h[p]
      BY <2>3, <3>2, <3>3
    <3>5. src[j] # 0
      BY <1>0, <2>8, <3>3, <3>4 DEF Weaves
    <3> QED  BY <3>2, <3>3, <3>4, <3>5
  <2>10. ASSUME NEW q \in 1..n, ~s[q].drops
         PROVE  \E j \in 1..Len(out) : src[j] = q /\ out[j] = h[q]
    <3>1. q \in DOMAIN ps /\ 1 \in 1..Len(ps[q]) /\ ps[q][1] = h[q] /\ ps[q][1].at # 0
      BY <1>0, <2>3, <2>6, <2>10
    <3>2. \A k \in 1..Len(ps[q]) : ps[q][k].at # 0 =>
             \E j \in 1..Len(out) : src[j] = q /\ out[j] = ps[q][k]
      BY <2>8, <3>1, Zenon DEF Made
    <3>3. \E j \in 1..Len(out) : src[j] = q /\ out[j] = ps[q][1]
      BY <3>1, <3>2, Zenon
    <3> QED  BY <3>1, <3>3, Zenon
  <2>11. ASSUME NEW q \in 1..n
         PROVE  \/ \E j \in 1..Len(out) : src[j] = q /\ out[j] = h[q]
                \/ /\ max # 0 /\ h[q].role # "system"
                   /\ \A j \in 1..Len(out) : src[j] < q => out[j].role = "system"
    <3>1. CASE ~s[q].drops
      BY <2>10, <3>1
    <3>2. CASE s[q].drops
      <4>1. h[q].role # "system"
        BY <2>2, <3>2
      <4>2. ASSUME NEW j \in 1..Len(out), src[j] < q PROVE out[j].role = "system"
        BY <2>2, <2>9, <3>2, <4>2
      <4> QED  BY <1>2, <4>1, <4>2
    <3> QED  BY <3>1, <3>2
  <2>k. ASSUME NEW j \in 1..Len(out), src[j] # 0, out[j].role = "tool",
               out[j].answers \notin {NoCall, Idless}, NEW p \in 1..(src[j] - 1),
               NEW c \in ToSet(h[p].calls), c \in Named, c.id = out[j].answers,
               OnlyAnswers(h, p, src[j])
        PROVE  \E i \in 1..Len(out) : src[i] = p /\ c \in ToSet(out[i].calls)
    <3>1. p \in 1..n /\ p < src[j] /\ src[j] \in 1..n
      BY <1>0, <2>9
    <3>2. h[p].calls # <<>>
      <4>1. h[p].calls \in Seq(Callers)
        BY <1>0, <3>1, MessageIs
      <4> QED  BY <2>k, <4>1, ElementsAre
    <3>3. ~s[p].drops
      BY <2>2, <2>9, <2>k, <3>1, <3>2 DEF OnlyAnswers
    <3> QED  BY <2>10, <2>k, <3>1, <3>3
  <2>12. KeepsCalls(out, h, src)
    BY <2>k DEF KeepsCalls
  <2>13. Trims(out, h, max, src)
    BY <2>8, <2>9, <2>11, <2>12 DEF Trims, n
  <2> QED  BY <2>5, <2>13
<1> QED  BY <1>1, <1>2

----------------------------------------------------------------------------
(* trae: what is sent, whether the host has translated before or not.      *)
Request(a) == a \in Seq(Messages) /\ \A i \in 1..Len(a) : a[i].at = i

NamesCalls(a) == \A i \in 1..Len(a) : ToSet(a[i].calls) \subseteq Named

CallsOf(out) == UNION {CallIds(out[j]) : j \in DOMAIN out}

SendsBatches(out, a) ==
    \A i \in 1..Len(a) : Answered(a[i], a) =>
        \E j \in 1..Len(out) : out[j].at = i /\ out[j].calls = a[i].calls

Translated(out, a) ==
    /\ MadeOf(out, a) /\ Placed(out)
    /\ \A j \in 1..Len(out) : out[j].role # "developer" /\ ToSet(out[j].calls) \subseteq Named
    /\ \A i \in 1..Len(a) : Speaks(a[i]) => \E j \in 1..Len(out) : out[j].at = i /\ Speaks(out[j])
    /\ SendsBatches(out, a)

LEMMA SerializedOnce ==
  ASSUME NEW a, Request(a)
  PROVE  /\ Translated(SerializeMessages(a), a)
         /\ \A i \in 1..Len(a) : Answered(a[i], a) =>
              \E j \in 1..Len(SerializeMessages(a)) :
                 /\ SerializeMessages(a)[j].at = i /\ SerializeMessages(a)[j].calls = a[i].calls
                 /\ Answered(SerializeMessages(a)[j], SerializeMessages(a))
<1> DEFINE out == SerializeMessages(a)
           kept == KeptCalls(a)
<1>1. a \in Seq(Messages) /\ \A i \in 1..Len(a) : a[i].at = i
  BY DEF Request
<1>2. MadeOf(a, a) /\ Placed(a)
  BY <1>1, RequestIsItself
<1>3. SerializesTo(out, a, kept) /\ MadeOf(out, a)
  BY <1>1, <1>2, SerializeIs
<1>4. ASSUME NEW i \in 1..Len(a), Answered(a[i], a)
      PROVE  \E j \in 1..Len(out) : /\ out[j].at = i /\ out[j].calls = a[i].calls
                                    /\ Answered(out[j], out)
  <2>1. \E j \in 1..Len(out) : /\ out[j].at = a[i].at /\ out[j].calls = a[i].calls
                               /\ Answered(out[j], out)
    BY <1>1, <1>2, <1>4, BatchesAreTranslated
  <2> HIDE DEF out
  <2> QED  BY <1>1, <2>1
<1> HIDE DEF out, kept
<1>5. SendsBatches(out, a)
  BY <1>4 DEF SendsBatches
<1>6. Paired(kept) \subseteq Named
  BY PairedAreNamed
<1>7. \A j \in 1..Len(out) : out[j].role # "developer" /\ ToSet(out[j].calls) \subseteq Named
  BY <1>3, <1>6 DEF SerializesTo, Settled
<1>8. \A i \in 1..Len(a) : Speaks(a[i]) => \E j \in 1..Len(out) : out[j].at = i /\ Speaks(out[j])
  BY <1>1, <1>3 DEF SerializesTo
<1>9. Translated(out, a)
  BY <1>3, <1>5, <1>7, <1>8 DEF Translated, SerializesTo
<1> QED  BY <1>4, <1>9 DEF out

LEMMA SerializedTwice ==
  ASSUME NEW a, Request(a)
  PROVE  Translated(SerializeMessages(SerializeMessages(a)), a)
<1> DEFINE h == SerializeMessages(a)
           out == SerializeMessages(h)
           kept == KeptCalls(h)
<1>1. a \in Seq(Messages) /\ \A i \in 1..Len(a) : a[i].at = i
  BY DEF Request
<1>2. /\ Translated(h, a)
      /\ \A i \in 1..Len(a) : Answered(a[i], a) =>
           \E j \in 1..Len(h) : h[j].at = i /\ h[j].calls = a[i].calls /\ Answered(h[j], h)
  BY SerializedOnce
<1>3. h \in Seq(Messages) /\ Placed(h) /\ MadeOf(h, a)
  BY <1>2 DEF Translated, MadeOf
<1>4. SerializesTo(out, h, kept) /\ MadeOf(out, a)
  BY <1>3, SerializeIs
<1>5. \A p \in 1..Len(h) : Answered(h[p], h) =>
         \E j \in 1..Len(out) : out[j].at = h[p].at /\ out[j].calls = h[p].calls
  BY <1>3, BatchesAreTranslated
<1> HIDE DEF h, out, kept
<1>6. SendsBatches(out, a)
  <2> SUFFICES ASSUME NEW i \in 1..Len(a), Answered(a[i], a)
               PROVE  \E j \in 1..Len(out) : out[j].at = i /\ out[j].calls = a[i].calls
    BY DEF SendsBatches
  <2>1. PICK p \in 1..Len(h) : h[p].at = i /\ h[p].calls = a[i].calls /\ Answered(h[p], h)
    BY <1>2
  <2>2. PICK j \in 1..Len(out) : out[j].at = h[p].at /\ out[j].calls = h[p].calls
    BY <1>5, <2>1
  <2> QED  BY <2>1, <2>2
<1>7. Paired(kept) \subseteq Named
  BY PairedAreNamed
<1>8. \A j \in 1..Len(out) : out[j].role # "developer" /\ ToSet(out[j].calls) \subseteq Named
  BY <1>4, <1>7 DEF SerializesTo, Settled
<1>9. ASSUME NEW i \in 1..Len(a), Speaks(a[i])
      PROVE  \E j \in 1..Len(out) : out[j].at = i /\ Speaks(out[j])
  <2>1. PICK p \in 1..Len(h) : h[p].at = i /\ Speaks(h[p])
    BY <1>2, <1>9 DEF Translated
  <2>2. PICK j \in 1..Len(out) : out[j].at = h[p].at /\ Speaks(out[j])
    BY <1>4, <2>1 DEF SerializesTo
  <2> QED  BY <2>1, <2>2
<1>10. Translated(out, a)
  BY <1>4, <1>6, <1>8, <1>9 DEF Translated, SerializesTo
<1> QED  BY <1>10 DEF out, h

(* trae's part of the two properties, of any request.                      *)
SaysAll(out, a, max) ==
    \A i \in 1..Len(a) : Outspoken(a[i]) =>
        \/ \E j \in 1..Len(out) : out[j].at = i
        \/ /\ max # 0 /\ a[i].role \notin {"system", "developer"}
           /\ \A j \in 1..Len(out) : out[j].at < i => out[j].role = "system"

LEMMA TrimmedSays ==
  ASSUME NEW a, Request(a), NEW h, Translated(h, a), NEW max \in Nat
  PROVE  LET out == TrimTraeHistory(h, max) IN
         /\ MadeOf(out, a) /\ SaysAll(out, a, max)
         /\ \A j \in 1..Len(out) : ToSet(out[j].calls) \subseteq Named
<1> DEFINE out == TrimTraeHistory(h, max)
<1>1. MadeOf(h, a) /\ h \in Seq(Messages) /\ Placed(h) /\ a \in Seq(Messages)
  BY DEF Translated, MadeOf, Request
<1>2. PICK src : Trims(out, h, max, src)
  BY <1>1, TrimIs
<1> HIDE DEF out
<1>3. MadeOf(out, a)
  BY <1>1, <1>2, WovenIsMade DEF Trims
<1>4. \A j \in 1..Len(out) : src[j] \in 1..Len(h) /\ out[j] = h[src[j]]
  BY <1>1, <1>2 DEF Trims, Weaves
<1>5. \A j \in 1..Len(out) : ToSet(out[j].calls) \subseteq Named
  BY <1>4 DEF Translated
<1>6. ASSUME NEW i \in 1..Len(a), Outspoken(a[i]), \A j \in 1..Len(out) : out[j].at # i
      PROVE  /\ max # 0 /\ a[i].role \notin {"system", "developer"}
             /\ \A j \in 1..Len(out) : out[j].at < i => out[j].role = "system"
  <2>1. Speaks(a[i])
    <3>1. a[i] \in Messages
      BY <1>1
    <3> QED  BY <1>6, <3>1, MessageIs DEF Outspoken, Speaks
  <2>2. PICK q \in 1..Len(h) : h[q].at = i /\ Speaks(h[q])
    BY <2>1 DEF Translated
  <2>3. /\ max # 0 /\ h[q].role # "system"
        /\ \A j \in 1..Len(out) : src[j] < q => out[j].role = "system"
    BY <1>2, <1>6, <2>2 DEF Trims
  <2>4. Follows(h[q], a[i]) /\ h[q].role # "tool" /\ h[q].role # "developer"
    BY <1>1, <2>2 DEF MadeOf, Kin, Placed, Speaks, Translated
  <2>5. a[i].role \notin {"system", "developer"}
    BY <2>3, <2>4 DEF Follows
  <2>6. ASSUME NEW j \in 1..Len(out), out[j].at < i PROVE src[j] < q
    <3>1. src[j] \in 1..Len(h) /\ h[src[j]].at < h[q].at /\ h[src[j]].at # 0 /\ h[q].at # 0
      BY <1>1, <1>4, <2>2, <2>6 DEF Placed
    <3>2. h[src[j]].at \in Nat /\ h[q].at \in Nat
      BY <1>1, <3>1, MessageIs
    <3>3. src[j] # q
      BY <3>1, <3>2
    <3>4. ~(q < src[j])
      BY <1>1, <3>1, <3>2, SMTT(30) DEF MadeOf, InOrder
    <3> QED  BY <1>1, <3>1, <3>3, <3>4
  <2> QED  BY <2>3, <2>5, <2>6
<1>7. SaysAll(out, a, max)
  BY <1>6 DEF SaysAll
<1> QED  BY <1>3, <1>5, <1>7 DEF out

TraeSent(h, max) == TransformSOLO(TrimTraeHistory(SerializeMessages(h), max))

LEMMA TraeSends ==
  ASSUME NEW a, Request(a), NEW h \in {a, TraeTranslate(a)}, NEW max \in Nat
  PROVE  LET out == TraeSent(h, max) IN
         /\ MadeOf(out, a) /\ SaysAll(out, a, max)
         /\ \A j \in 1..Len(out) : ToSet(out[j].calls) \subseteq Named
         /\ max = 0 => SendsBatches(out, a)
         /\ max = 0 /\ NamesCalls(a) => CallsOf(out) = AnsweredIds(out)
         /\ NamesCalls(a) => out = TrimTraeHistory(TraeTranslate(a), max)
<1> DEFINE s == SerializeMessages(h)
           out == TrimTraeHistory(s, max)
           once == SerializeMessages(a)
<1>1. a \in Seq(Messages) /\ Placed(a)
  BY RequestIsItself DEF Request
<1>2. Translated(once, a)
  BY SerializedOnce
<1>3. TraeTranslate(a) = once
  <2>1. once \in Seq(Messages) /\ \A i \in 1..Len(once) : ToSet(once[i].calls) \subseteq Named
    BY <1>2 DEF Translated, MadeOf
  <2> HIDE DEF once
  <2>2. TransformSOLO(once) = once
    BY <2>1, TransformKeeps
  <2> QED  BY <2>2 DEF TraeTranslate, once
<1>4. h = a \/ h = once
  BY <1>3
<1>5. Translated(s, a)
  BY <1>2, <1>4, SerializedTwice
<1>6. NamesCalls(a) => s = once /\ CallsOf(s) = AnsweredIds(s)
  <2> SUFFICES ASSUME NamesCalls(a) PROVE s = once /\ CallsOf(s) = AnsweredIds(s)
    OBVIOUS
  <2>1. \A i \in 1..Len(a) : ToSet(a[i].calls) \subseteq Named
    BY DEF NamesCalls
  <2>2. CallsOf(once) = AnsweredIds(once) /\ SerializeMessages(once) = once
    BY <1>1, <2>1, TranslatedPairs DEF CallsOf
  <2> QED  BY <1>4, <2>2
<1> HIDE DEF s
<1>7. /\ MadeOf(out, a) /\ SaysAll(out, a, max)
      /\ \A j \in 1..Len(out) : ToSet(out[j].calls) \subseteq Named
  BY <1>5, TrimmedSays
<1>8. out \in Seq(Messages)
  BY <1>7 DEF MadeOf
<1>9. max = 0 => out = s
  BY UntrimmedIs
<1>10. NamesCalls(a) => out = TrimTraeHistory(TraeTranslate(a), max)
  BY <1>3, <1>6
<1> HIDE DEF out
<1>11. TransformSOLO(out) = out
  BY <1>7, <1>8, TransformKeeps
<1>12. TraeSent(h, max) = out
  BY <1>11 DEF TraeSent, out, s
<1>13. max = 0 => SendsBatches(out, a)
  BY <1>5, <1>9 DEF Translated
<1>14. max = 0 /\ NamesCalls(a) => CallsOf(out) = AnsweredIds(out)
  BY <1>6, <1>9
<1> QED  BY <1>7, <1>10, <1>12, <1>13, <1>14

----------------------------------------------------------------------------
(* raccoon and codebuddy: of the calls and the answers those stay whose id *)
(* is among the ids.                                                       *)
Matched(ids) == {c \in Named : c.id \in ids}

Sorts(s, m, ids) ==
    /\ Renders(s, m)
    /\ \A k \in 1..Len(s) : /\ ToSet(s[k].calls) \subseteq Matched(ids)
                            /\ s[k].answers # NoCall => s[k].answers \in ids
    /\ \A c \in ToSet(m.calls) : c \in Matched(ids) =>
          \E k \in 1..Len(s) : s[k].at # 0 /\ c \in ToSet(s[k].calls)
    /\ m.answers \in ids => \E k \in 1..Len(s) : s[k].at # 0 /\ s[k].answers = m.answers
    /\ m.calls # <<>> /\ ToSet(m.calls) \subseteq Matched(ids) =>
          \E k \in 1..Len(s) : s[k].at # 0 /\ s[k].calls = m.calls
    /\ Outspoken(m) => \E k \in 1..Len(s) : s[k].at # 0

(* e takes the place of m.                                                 *)
Replaces(e, m, ids) ==
    /\ e \in Messages /\ Follows(e, m) /\ ToSet(e.calls) \subseteq Matched(ids)
    /\ e.answers # NoCall => e.answers \in ids
    /\ \A c \in ToSet(m.calls) : c \in Matched(ids) => c \in ToSet(e.calls)
    /\ m.answers \in ids => e.answers = m.answers
    /\ ToSet(m.calls) \subseteq Matched(ids) => e.calls = m.calls

LEMMA OneSorts ==
  ASSUME NEW m \in Messages, m.at # 0, NEW ids, NEW e, Replaces(e, m, ids)
  PROVE  Sorts(<<e>>, m, ids)
<1> DEFINE s == <<e>>
<1>0. e \in Messages
  BY DEF Replaces
<1>1. s \in Seq(Messages) /\ Len(s) = 1 /\ s[1] = e /\ \A k \in 1..Len(s) : s[k] = e
  BY <1>0
<1>2. e.at # 0 /\ 1 \in 1..Len(s)
  BY <1>1 DEF Follows, Replaces
<1> HIDE DEF s
<1>3. Renders(s, m)
  BY <1>1, <1>2 DEF Renders, Replaces
<1> QED  BY <1>1, <1>2, <1>3, Zenon DEF Sorts, Replaces, s

LEMMA NoneSorts ==
  ASSUME NEW m \in Messages, m.at # 0, NEW ids, m.answers \notin ids, ~Outspoken(m),
         \A c \in ToSet(m.calls) : c \notin Matched(ids)
  PROVE  Sorts(<<>>, m, ids)
<1> DEFINE s == <<>>
<1>1. s \in Seq(Messages) /\ Len(s) = 0 /\ \A k \in 1..Len(s) : FALSE
  OBVIOUS
<1>2. m.calls \in Seq(Callers)
  BY MessageIs
<1>3. m.calls # <<>> => ~(ToSet(m.calls) \subseteq Matched(ids))
  BY <1>2, ElementsAre
<1> HIDE DEF s
<1>4. Renders(s, m)
  BY <1>1 DEF Renders
<1> QED  BY <1>1, <1>3, <1>4, Zenon DEF Sorts, s

(* The images of answers before, if any, and not before an answer.         *)
LEMMA ImagesAre ==
  /\ ImagesOfAnswers \in Messages /\ ImagesOfAnswers.at = 0 /\ Inserted(ImagesOfAnswers)
  /\ ImagesOfAnswers.calls = <<>> /\ ImagesOfAnswers.answers = NoCall
<1>1. /\ ImagesOfAnswers.calls = <<>> /\ ImagesOfAnswers.answers = NoCall /\ ImagesOfAnswers.at = 0
      /\ ImagesOfAnswers.role = "user"
  BY DEF ImagesOfAnswers
<1>2. ImagesOfAnswers \in [role : Roles, words : BOOLEAN, thoughts : BOOLEAN, calls : Seq(Callers),
                           answers : STRING \union {NoCall}, image : BOOLEAN, at : Nat]
  BY DEF ImagesOfAnswers, Roles
<1> QED  BY <1>1, <1>2 DEF Inserted, Messages

LEMMA FlushedSorts ==
  ASSUME NEW m \in Messages, m.at # 0, m.role # "tool", NEW ids, NEW e, Replaces(e, m, ids),
         NEW images
  PROVE  Sorts(Flushed(images) \o <<e>>, m, ids)
<1>0. e \in Messages /\ e.at # 0
  BY DEF Replaces, Follows
<1>1. CASE ~images
  <2>1. Flushed(images) \o <<e>> = <<e>>
    <3>1. Flushed(images) = <<>>
      BY <1>1 DEF Flushed
    <3> DEFINE x == <<e>>
    <3>2. x \in Seq(Messages)
      BY <1>0
    <3> HIDE DEF x
    <3>3. <<>> \o x = x
      BY <3>2
    <3> QED  BY <3>1, <3>3 DEF x
  <2> QED  BY <2>1, OneSorts
<1>2. CASE images
  <2> DEFINE i == ImagesOfAnswers
             s == <<i, e>>
  <2>1. Flushed(images) \o <<e>> = s
    <3>1. Flushed(images) = <<i>>
      BY <1>2 DEF Flushed
    <3>2. i \in Messages
      BY ImagesAre
    <3> HIDE DEF i
    <3>3. <<i>> \o <<e>> = <<i, e>>
      BY <1>0, <3>2, TwoElements
    <3> QED  BY <3>1, <3>3
  <2>2. i \in Messages /\ i.at = 0 /\ Inserted(i) /\ i.calls = <<>> /\ i.answers = NoCall
    BY ImagesAre
  <2> HIDE DEF i
  <2>3. /\ s \in Seq(Messages) /\ Len(s) = 2 /\ s[1] = i /\ s[2] = e /\ 2 \in 1..Len(s)
        /\ \A k \in 1..Len(s) : s[k] = i \/ s[k] = e
        /\ \A k \in 1..Len(s) : s[k] = i => k = 1 \/ i = e
    BY <1>0, <2>2
  <2> HIDE DEF s
  <2>4. Renders(s, m)
    BY <1>0, <2>2, <2>3 DEF Renders, Replaces
  <2>5. ToSet(i.calls) = {}
    <3>1. i.calls \in Seq(Callers)
      BY <2>2
    <3> QED  BY <2>2, <3>1, ElementsAre
  <2>6. Sorts(s, m, ids)
    <3>1. \A k \in 1..Len(s) : /\ ToSet(s[k].calls) \subseteq Matched(ids)
                               /\ s[k].answers # NoCall => s[k].answers \in ids
      BY <2>2, <2>3, <2>5 DEF Replaces
    <3>2. PICK k \in 1..Len(s) : s[k] = e
      BY <2>3
    <3>3. s[k].at # 0 /\ s[k].calls = e.calls /\ s[k].answers = e.answers
      BY <1>0, <3>2
    <3>4. \A c \in ToSet(m.calls) : c \in Matched(ids) => c \in ToSet(s[k].calls)
      BY <3>3 DEF Replaces
    <3>5. /\ m.answers \in ids => s[k].answers = m.answers
          /\ ToSet(m.calls) \subseteq Matched(ids) => s[k].calls = m.calls
      BY <3>3 DEF Replaces
    <3>6. ASSUME NEW c \in ToSet(m.calls), c \in Matched(ids)
          PROVE  \E l \in 1..Len(s) : s[l].at # 0 /\ c \in ToSet(s[l].calls)
      BY <3>3, <3>4, <3>6
    <3>7. m.answers \in ids => \E l \in 1..Len(s) : s[l].at # 0 /\ s[l].answers = m.answers
      BY <3>3, <3>5
    <3>8. ToSet(m.calls) \subseteq Matched(ids) =>
            \E l \in 1..Len(s) : s[l].at # 0 /\ s[l].calls = m.calls
      BY <3>3, <3>5
    <3>9. \E l \in 1..Len(s) : s[l].at # 0
      BY <3>3
    <3> QED  BY <2>4, <3>1, <3>6, <3>7, <3>8, <3>9, Zenon DEF Sorts
  <2> QED  BY <2>1, <2>6
<1> QED  BY <1>1, <1>2

(* The same, of the whole history.                                         *)
SortsTo(out, h, ids) ==
    /\ out \in Seq(Messages)
    /\ \A j \in 1..Len(out) : /\ ToSet(out[j].calls) \subseteq Matched(ids)
                              /\ out[j].answers # NoCall => out[j].answers \in ids
    /\ \A p \in 1..Len(h) : \A c \in ToSet(h[p].calls) : c \in Matched(ids) =>
          \E j \in 1..Len(out) : c \in ToSet(out[j].calls)
    /\ \A p \in 1..Len(h) : h[p].answers \in ids =>
          \E j \in 1..Len(out) : out[j].answers = h[p].answers
    /\ \A p \in 1..Len(h) : h[p].calls # <<>> /\ ToSet(h[p].calls) \subseteq Matched(ids) =>
          \E j \in 1..Len(out) : out[j].at = h[p].at /\ out[j].calls = h[p].calls
    /\ \A p \in 1..Len(h) : Outspoken(h[p]) => \E j \in 1..Len(out) : out[j].at = h[p].at

LEMMA PiecesSort ==
  ASSUME NEW h \in Seq(Messages), Placed(h), NEW ids, NEW s \in [1..Len(h) -> Seq(Messages)],
         \A i \in 1..Len(h) : Sorts(s[i], h[i], ids),
         NEW src, Weaves(FlattenSeq(s), h, src), Made(FlattenSeq(s), s, src)
  PROVE  SortsTo(FlattenSeq(s), h, ids) /\ KeepsCalls(FlattenSeq(s), h, src)
<1> DEFINE out == FlattenSeq(s)
           n == Len(h)
<1>0. n \in Nat /\ DOMAIN s = 1..n /\ \A i \in 1..n : h[i] \in Messages
  OBVIOUS
<1>1. out \in Seq(Messages)
  BY DEF Weaves
<1> HIDE DEF out
<1>2. ASSUME NEW p \in 1..n, NEW k \in 1..Len(s[p]), s[p][k].at # 0
      PROVE  \E j \in 1..Len(out) : src[j] = p /\ out[j] = s[p][k] /\ out[j].at = h[p].at
  <2>1. PICK j \in 1..Len(out) : src[j] = p /\ out[j] = s[p][k]
    BY <1>0, <1>2 DEF Made, out
  <2>2. out[j].at = h[p].at
    BY <1>0, <1>2, <2>1 DEF Weaves, Follows, out
  <2> QED  BY <2>1, <2>2
<1>3. \A j \in 1..Len(out) : /\ ToSet(out[j].calls) \subseteq Matched(ids)
                             /\ out[j].answers # NoCall => out[j].answers \in ids
  <2> SUFFICES ASSUME NEW j \in 1..Len(out)
               PROVE  /\ ToSet(out[j].calls) \subseteq Matched(ids)
                      /\ out[j].answers # NoCall => out[j].answers \in ids
    OBVIOUS
  <2>1. PICK p \in DOMAIN s : \E k \in 1..Len(s[p]) : out[j] = s[p][k] /\ (src[j] = p \/ src[j] = 0)
    BY DEF Made, out
  <2>2. PICK k \in 1..Len(s[p]) : out[j] = s[p][k]
    BY <2>1
  <2>3. Sorts(s[p], h[p], ids)
    BY <1>0 DEF n
  <2> QED  BY <2>2, <2>3 DEF Sorts
<1>4. ASSUME NEW p \in 1..n, NEW c \in ToSet(h[p].calls), c \in Matched(ids)
      PROVE  \E j \in 1..Len(out) : src[j] = p /\ c \in ToSet(out[j].calls)
  <2>1. PICK k \in 1..Len(s[p]) : s[p][k].at # 0 /\ c \in ToSet(s[p][k].calls)
    BY <1>4 DEF n, Sorts
  <2> QED  BY <1>2, <2>1
<1>5. ASSUME NEW p \in 1..n, h[p].answers \in ids
      PROVE  \E j \in 1..Len(out) : out[j].answers = h[p].answers
  <2>1. PICK k \in 1..Len(s[p]) : s[p][k].at # 0 /\ s[p][k].answers = h[p].answers
    BY <1>5 DEF n, Sorts
  <2>2. PICK j \in 1..Len(out) : src[j] = p /\ out[j] = s[p][k] /\ out[j].at = h[p].at
    BY <1>2, <2>1
  <2> QED  BY <2>1, <2>2
<1>6. ASSUME NEW p \in 1..n, h[p].calls # <<>>, ToSet(h[p].calls) \subseteq Matched(ids)
      PROVE  \E j \in 1..Len(out) : out[j].at = h[p].at /\ out[j].calls = h[p].calls
  <2>1. PICK k \in 1..Len(s[p]) : s[p][k].at # 0 /\ s[p][k].calls = h[p].calls
    BY <1>6 DEF n, Sorts
  <2>2. PICK j \in 1..Len(out) : src[j] = p /\ out[j] = s[p][k] /\ out[j].at = h[p].at
    BY <1>2, <2>1
  <2> QED  BY <2>1, <2>2
<1>7. ASSUME NEW p \in 1..n, Outspoken(h[p])
      PROVE  \E j \in 1..Len(out) : out[j].at = h[p].at
  <2>1. PICK k \in 1..Len(s[p]) : s[p][k].at # 0
    BY <1>7 DEF n, Sorts
  <2>2. PICK j \in 1..Len(out) : src[j] = p /\ out[j] = s[p][k] /\ out[j].at = h[p].at
    BY <1>2, <2>1
  <2> QED  BY <2>2
<1>8. SortsTo(out, h, ids)
  <2>1. \A p \in 1..n : \A c \in ToSet(h[p].calls) : c \in Matched(ids) =>
           \E j \in 1..Len(out) : c \in ToSet(out[j].calls)
    BY <1>4
  <2> QED  BY <1>1, <1>3, <1>5, <1>6, <1>7, <2>1, Zenon DEF SortsTo, n
<1>9. ASSUME NEW j \in 1..Len(out), src[j] # 0, out[j].role = "tool",
             out[j].answers \notin {NoCall, Idless}, NEW p \in 1..(src[j] - 1),
             NEW c \in ToSet(h[p].calls), c \in Named, c.id = out[j].answers,
             OnlyAnswers(h, p, src[j])
      PROVE  \E i \in 1..Len(out) : src[i] = p /\ c \in ToSet(out[i].calls)
  <2>1. p \in 1..n
    BY <1>0 DEF Weaves, out
  <2>2. c \in Matched(ids)
    BY <1>3, <1>9 DEF Matched
  <2> QED  BY <1>4, <1>9, <2>1, <2>2
<1>10. KeepsCalls(out, h, src)
  BY <1>9 DEF KeepsCalls
<1> QED  BY <1>8, <1>10 DEF out

(* What is sorted by ids that are called and answered in the history.      *)
CallsFor(h, x) == \E p \in 1..Len(h) : \E c \in ToSet(h[p].calls) : c \in Named /\ c.id = x
AnswersFor(h, x) == \E p \in 1..Len(h) : h[p].answers = x

LEMMA SortedPairs ==
  ASSUME NEW h \in Seq(Messages), NEW out, NEW ids, SortsTo(out, h, ids),
         \A x \in ids : x # NoCall /\ x # Idless /\ CallsFor(h, x) /\ AnswersFor(h, x)
  PROVE  CallsOf(out) = ids /\ AnsweredIds(out) = ids
<1>1. out \in Seq(Messages)
  BY DEF SortsTo
<1>2. /\ \A x : x \in AnsweredIds(out) <=>
                x # NoCall /\ x # Idless /\ \E p \in 1..Len(out) : out[p].answers = x
  BY <1>1, AnsweredIs
<1>3. \A x : x \in CallsOf(out) <=> \E j \in 1..Len(out) : x \in CallIds(out[j])
  <2>1. DOMAIN out = 1..Len(out)
    BY <1>1
  <2> QED  BY <2>1 DEF CallsOf
<1>4. ASSUME NEW x \in ids PROVE x \in CallsOf(out) /\ x \in AnsweredIds(out)
  <2>1. PICK p \in 1..Len(h) : \E c \in ToSet(h[p].calls) : c \in Named /\ c.id = x
    BY DEF CallsFor
  <2>2. PICK c \in ToSet(h[p].calls) : c \in Named /\ c.id = x
    BY <2>1
  <2>3. c \in Matched(ids)
    BY <2>2 DEF Matched
  <2>4. PICK j \in 1..Len(out) : c \in ToSet(out[j].calls)
    BY <2>3 DEF SortsTo
  <2>5. x \in CallIds(out[j])
    BY <2>2, <2>4, CallIdsAre
  <2>6. PICK q \in 1..Len(h) : h[q].answers = x
    BY DEF AnswersFor
  <2>7. PICK i \in 1..Len(out) : out[i].answers = x
    BY <2>6 DEF SortsTo
  <2> QED  BY <1>2, <1>3, <2>4, <2>5, <2>7
<1>5. ASSUME NEW x \in CallsOf(out) PROVE x \in ids
  <2>1. PICK j \in 1..Len(out) : x \in CallIds(out[j])
    BY <1>3
  <2>2. PICK c \in ToSet(out[j].calls) : c.id = x
    BY <2>1, CallIdsAre
  <2> QED  BY <2>2 DEF SortsTo, Matched
<1>6. ASSUME NEW x \in AnsweredIds(out) PROVE x \in ids
  BY <1>2 DEF SortsTo
<1> QED  BY <1>4, <1>5, <1>6

----------------------------------------------------------------------------
(* raccoon.                                                                *)

LEMMA NamedIdsAre ==
  ASSUME NEW h \in Seq(Messages)
  PROVE  \A x : x \in NamedIds(h) <=> x # Idless /\ CallsFor(h, x)
<1>1. DOMAIN h = 1..Len(h) /\ \A p \in 1..Len(h) : h[p] \in Messages
  OBVIOUS
<1>2. \A p \in 1..Len(h) : ToSet(h[p].calls) \subseteq Callers
  BY <1>1, MessageIs, ElementsAre
<1>3. ASSUME NEW x
      PROVE  x \in NamedIds(h) <=>
               x # Idless /\ \E p \in 1..Len(h) : \E c \in ToSet(h[p].calls) : c.named /\ c.id = x
  BY <1>1 DEF NamedIds
<1>4. ASSUME NEW x
      PROVE  CallsFor(h, x) <=> \E p \in 1..Len(h) : \E c \in ToSet(h[p].calls) : c.named /\ c.id = x
  BY <1>2 DEF CallsFor, Named
<1> QED  BY <1>3, <1>4

(* A message without calls stays with what it answers, or as the system's. *)
LEMMA ReplacesItself ==
  ASSUME NEW m \in Messages, m.calls = <<>>, NEW ids, m.answers # NoCall => m.answers \in ids,
         NEW e \in Messages, Follows(e, m), e.calls = <<>>, e.answers = m.answers
  PROVE  Replaces(e, m, ids)
<1>1. ToSet(m.calls) = {}
  <2>1. m.calls \in Seq(Callers)
    BY MessageIs
  <2> QED  BY <2>1, ElementsAre
<1>2. ToSet(e.calls) = {}
  BY <1>1
<1> QED  BY <1>1, <1>2, Zenon DEF Replaces

LEMMA DemotedIs ==
  ASSUME NEW m \in Messages, m.role \in {"system", "developer"}
  PROVE  /\ [m EXCEPT !.role = "system"] \in Messages /\ Follows([m EXCEPT !.role = "system"], m)
         /\ [m EXCEPT !.role = "system"].calls = <<>> /\ m.calls = <<>>
         /\ [m EXCEPT !.role = "system"].answers = m.answers /\ m.answers = NoCall
         /\ [m EXCEPT !.role = "system"].role = "system"
<1> DEFINE e == [m EXCEPT !.role = "system"]
<1>1. /\ m.role \in Roles /\ m.words \in BOOLEAN /\ m.thoughts \in BOOLEAN /\ m.image \in BOOLEAN
      /\ m.calls \in Seq(Callers) /\ m.answers \in STRING \union {NoCall} /\ m.at \in Nat
      /\ m.calls = <<>> /\ m.answers = NoCall
  BY MessageIs
<1>2. e.role = "system" /\ e.calls = <<>> /\ e.answers = NoCall /\ e.at = m.at
  BY <1>1 DEF Messages
<1>3. e \in [role : Roles, words : BOOLEAN, thoughts : BOOLEAN, calls : Seq(Callers),
             answers : STRING \union {NoCall}, image : BOOLEAN, at : Nat]
  <2>1. "system" \in Roles
    BY DEF Roles
  <2> QED  BY <1>1, <2>1 DEF Messages
<1> HIDE DEF e
<1>4. e \in Messages
  BY <1>2, <1>3 DEF Messages
<1>5. Follows(e, m)
  BY <1>1, <1>2 DEF Follows
<1> QED  BY <1>1, <1>2, <1>4, <1>5 DEF e

Tidy(e) ==
    /\ e.role # "developer"
    /\ e.role = "assistant" => KeepsTurn(e, e.calls)
    /\ e.role = "tool" => e.answers # NoCall

LEMMA NormalisedSorts ==
  ASSUME NEW m \in Messages, m.at # 0, m.role = "user" => m.answers = NoCall,
         NEW answered, NEW named, NoCall \notin answered, Idless \notin named,
         m.role = "tool" /\ m.answers \in named => m.answers \in answered,
         \A c \in ToSet(m.calls) : c \in Named /\ c.id # Idless => c.id \in named
  PROVE  /\ Sorts(Normalised(m, answered, named), m, answered \cap named)
         /\ \A k \in 1..Len(Normalised(m, answered, named)) : Tidy(Normalised(m, answered, named)[k])
<1> DEFINE ids == answered \cap named
           s == Normalised(m, answered, named)
<1>1. /\ m.role \in Roles /\ m.words \in BOOLEAN /\ m.thoughts \in BOOLEAN /\ m.image \in BOOLEAN
      /\ m.calls \in Seq(Callers) /\ m.answers \in STRING \union {NoCall} /\ m.at \in Nat
      /\ m.calls # <<>> => m.role = "assistant"
      /\ m.answers # NoCall => m.role \in {"user", "tool"}
  BY MessageIs
<1>2. NoCall \notin ids /\ Idless \notin ids
  OBVIOUS
<1>3. ASSUME NEW e, Replaces(e, m, ids), s = <<e>>, Tidy(e)
      PROVE  Sorts(s, m, ids) /\ \A k \in 1..Len(s) : Tidy(s[k])
  <2>1. Sorts(<<e>>, m, ids)
    BY <1>3, OneSorts
  <2>2. Len(<<e>>) = 1 /\ <<e>>[1] = e
    OBVIOUS
  <2> HIDE DEF s
  <2> QED  BY <1>3, <2>1, <2>2
<1>4. ASSUME s = <<>>, m.answers \notin ids, ~Outspoken(m), \A c \in ToSet(m.calls) : c \notin Matched(ids)
      PROVE  Sorts(s, m, ids) /\ \A k \in 1..Len(s) : Tidy(s[k])
  <2>1. Sorts(<<>>, m, ids)
    BY <1>4, NoneSorts
  <2>2. Len(<<>>) = 0
    OBVIOUS
  <2> HIDE DEF s
  <2> QED  BY <1>4, <2>1, <2>2
<1>5. CASE m.role = "assistant"
  <2> DEFINE good == {c \in Named : c.id # Idless /\ c.id \in answered}
             calls == Only(m.calls, good)
             e == [m EXCEPT !.calls = calls]
  <2>1. s = IF KeepsTurn(m, calls) THEN <<e>> ELSE <<>>
    BY <1>5 DEF Normalised, NormaliseAssistant
  <2> HIDE DEF good
  <2>2. /\ calls \in Seq(Callers)
        /\ \A c : c \in ToSet(calls) <=> c \in ToSet(m.calls) /\ c \in good
        /\ ToSet(m.calls) \subseteq good => calls = m.calls
    BY <1>1, OnlyIs
  <2>3. \A c \in ToSet(m.calls) : c \in good <=> c \in Matched(ids)
    BY DEF Matched, good, Named
  <2> HIDE DEF s, good, calls
  <2>4. /\ e.calls = calls /\ e.answers = m.answers /\ m.answers = NoCall /\ e.at = m.at
        /\ e.role = m.role /\ e.words = m.words /\ e.thoughts = m.thoughts
    BY <1>1, <1>5 DEF Messages
  <2>5. e \in [role : Roles, words : BOOLEAN, thoughts : BOOLEAN, calls : Seq(Callers),
               answers : STRING \union {NoCall}, image : BOOLEAN, at : Nat]
    BY <1>1, <2>2 DEF Messages
  <2> HIDE DEF e
  <2>6. e \in Messages
    BY <1>5, <2>4, <2>5 DEF Messages
  <2>7. Follows(e, m)
    BY <1>5, <2>4 DEF Follows
  <2>8. Replaces(e, m, ids)
    <3>1. ToSet(e.calls) \subseteq Matched(ids)
      BY <2>2, <2>3, <2>4
    <3>2. \A c \in ToSet(m.calls) : c \in Matched(ids) => c \in ToSet(e.calls)
      BY <2>2, <2>3, <2>4
    <3>3. ToSet(m.calls) \subseteq Matched(ids) => e.calls = m.calls
      BY <2>2, <2>3, <2>4
    <3> QED  BY <2>4, <2>6, <2>7, <3>1, <3>2, <3>3, Zenon DEF Replaces
  <2>9. CASE KeepsTurn(m, calls)
    <3>1. Tidy(e)
      BY <1>5, <2>4, <2>9 DEF Tidy, KeepsTurn
    <3> QED  BY <1>3, <2>1, <2>8, <2>9, <3>1 DEF s
  <2>10. CASE ~KeepsTurn(m, calls)
    <3>1. ~Outspoken(m) /\ calls = <<>>
      BY <1>5, <2>10 DEF KeepsTurn, Outspoken
    <3>2. ToSet(calls) = {}
      BY <2>2, <3>1, ElementsAre
    <3>3. \A c \in ToSet(m.calls) : c \notin Matched(ids)
      BY <2>2, <2>3, <3>2
    <3> QED  BY <1>2, <1>4, <2>1, <2>4, <2>10, <3>1, <3>3 DEF s
  <2> QED  BY <2>9, <2>10
<1>6. CASE m.role = "tool"
  <2>1. s = IF m.answers \in named THEN <<m>> ELSE <<>>
    BY <1>6 DEF Normalised
  <2>2. m.calls = <<>> /\ ~Outspoken(m) /\ Follows(m, m)
    BY <1>1, <1>6 DEF Outspoken, Follows
  <2> HIDE DEF s
  <2>3. CASE m.answers \in named
    <3>1. m.answers \in ids
      BY <1>6, <2>3
    <3>2. Replaces(m, m, ids)
      BY <2>2, <3>1, ReplacesItself
    <3>3. Tidy(m)
      BY <1>2, <1>6, <3>1 DEF Tidy
    <3> QED  BY <1>3, <2>1, <2>3, <3>2, <3>3 DEF s
  <2>4. CASE m.answers \notin named
    <3>1. \A c \in ToSet(m.calls) : FALSE
      BY <1>1, <2>2, ElementsAre
    <3> QED  BY <1>4, <2>1, <2>2, <2>4, <3>1 DEF s
  <2> QED  BY <2>3, <2>4
<1>7. CASE m.role = "developer"
  <2> DEFINE e == [m EXCEPT !.role = "system"]
  <2>1. s = <<e>>
    BY <1>7 DEF Normalised
  <2>2. e \in Messages /\ Follows(e, m) /\ e.calls = <<>> /\ m.calls = <<>>
        /\ e.answers = m.answers /\ m.answers = NoCall /\ e.role = "system"
    BY <1>7, DemotedIs
  <2> HIDE DEF e, s
  <2>3. Replaces(e, m, ids)
    BY <2>2, ReplacesItself
  <2>4. Tidy(e)
    BY <2>2 DEF Tidy
  <2> QED  BY <1>3, <2>1, <2>3, <2>4 DEF s
<1>8. CASE m.role \in {"system", "user"}
  <2>1. s = <<m>>
    <3>1. m.role # "assistant" /\ m.role # "tool" /\ m.role # "developer"
      BY <1>8
    <3> QED  BY <1>8, <3>1, Zenon DEF Normalised
  <2>2. m.calls = <<>> /\ m.answers = NoCall /\ Tidy(m) /\ Follows(m, m)
    BY <1>1, <1>8 DEF Tidy, Follows
  <2> HIDE DEF s
  <2>3. Replaces(m, m, ids)
    BY <2>2, ReplacesItself
  <2> QED  BY <1>3, <2>1, <2>2, <2>3 DEF s
<1> QED  BY <1>1, <1>5, <1>6, <1>7, <1>8 DEF Roles

LEMMA NormalisedIs ==
  ASSUME NEW h \in Seq(Messages), Placed(h),
         \A i \in 1..Len(h) : h[i].role = "user" => h[i].answers = NoCall
  PROVE  /\ SortsTo(NormaliseMessages(h), h, AnsweredIds(h) \cap NamedIds(h))
         /\ \A j \in 1..Len(NormaliseMessages(h)) : Tidy(NormaliseMessages(h)[j])
         /\ \A a : MadeOf(h, a) => MadeOf(NormaliseMessages(h), a)
<1> DEFINE answered == AnsweredIds(h)
           named == NamedIds(h)
           ids == answered \cap named
           s == [i \in DOMAIN h |-> Normalised(h[i], answered, named)]
           n == Len(h)
<1>1. DOMAIN h = 1..n /\ n \in Nat /\ \A i \in 1..n : h[i] \in Messages
  OBVIOUS
<1>2. \A i \in 1..n : s[i] = Normalised(h[i], answered, named)
  BY <1>1
<1>3. s = [i \in 1..n |-> s[i]]
  BY <1>1
<1>4. NormaliseMessages(h) = FlattenSeq(s)
  BY DEF NormaliseMessages
<1>5. /\ \A x : x \in answered <=> x # NoCall /\ x # Idless /\ \E p \in 1..n : h[p].answers = x
      /\ \A x : x \in named <=> x # Idless /\ CallsFor(h, x)
  BY AnsweredIs, NamedIdsAre
<1> HIDE DEF s, answered, named
<1>6. ASSUME NEW i \in 1..n
      PROVE  Sorts(s[i], h[i], ids) /\ \A k \in 1..Len(s[i]) : Tidy(s[i][k])
  <2> DEFINE m == h[i]
  <2>1. m \in Messages /\ m.at # 0 /\ (m.role = "user" => m.answers = NoCall)
    BY <1>1 DEF Placed
  <2>2. NoCall \notin answered /\ Idless \notin named
    BY <1>5
  <2>3. ASSUME NEW c \in ToSet(m.calls), c \in Named, c.id # Idless PROVE c.id \in named
    BY <1>5, <2>3 DEF CallsFor
  <2>4. ASSUME m.role = "tool", m.answers \in named PROVE m.answers \in answered
    <3>1. m.answers # Idless /\ CallsFor(h, m.answers)
      BY <1>5, <2>4
    <3>2. PICK p \in 1..n : \E c \in ToSet(h[p].calls) : c \in Named /\ c.id = m.answers
      BY <3>1 DEF CallsFor
    <3>3. PICK c \in ToSet(h[p].calls) : c \in Named /\ c.id = m.answers
      BY <3>2
    <3>4. m.answers # NoCall
      BY <3>3 DEF Named, Callers
    <3> QED  BY <1>5, <3>1, <3>4
  <2> HIDE DEF m, ids
  <2>5. /\ Sorts(Normalised(m, answered, named), m, answered \cap named)
        /\ \A k \in 1..Len(Normalised(m, answered, named)) : Tidy(Normalised(m, answered, named)[k])
    BY <2>1, <2>2, <2>3, <2>4, NormalisedSorts
  <2> QED  BY <1>2, <2>5 DEF m, ids
<1>7. \A i \in 1..n : Renders(s[i], h[i]) /\ s[i] \in Seq(Messages)
  BY <1>6, Zenon DEF Sorts, Renders
<1>8. s \in [1..n -> Seq(Messages)]
  BY <1>3, <1>7
<1>9. PICK src : Weaves(FlattenSeq(s), h, src) /\ Made(FlattenSeq(s), s, src)
  BY <1>7, <1>8, PiecesWeave
<1>10. SortsTo(FlattenSeq(s), h, ids) /\ KeepsCalls(FlattenSeq(s), h, src)
  <2> HIDE DEF ids
  <2> QED  BY <1>6, <1>8, <1>9, PiecesSort
<1>11. ASSUME NEW a, MadeOf(h, a) PROVE MadeOf(FlattenSeq(s), a)
  BY <1>9, <1>10, <1>11, WovenIsMade
<1> DEFINE out == FlattenSeq(s)
<1> HIDE DEF out
<1>12. ASSUME NEW j \in 1..Len(out) PROVE Tidy(out[j])
  <2>1. PICK p \in DOMAIN s : \E k \in 1..Len(s[p]) : out[j] = s[p][k]
    BY <1>9 DEF Made, out
  <2>2. PICK k \in 1..Len(s[p]) : out[j] = s[p][k]
    BY <2>1
  <2>3. p \in 1..n
    BY <1>8
  <2> QED  BY <1>6, <2>2, <2>3
<1> QED  BY <1>4, <1>10, <1>11, <1>12 DEF out, answered, named

(* The second time nothing changes.                                        *)
LEMMA NormalisedAgain ==
  ASSUME NEW h \in Seq(Messages), NEW ids, Idless \notin ids, AnsweredIds(h) = ids, NamedIds(h) = ids,
         \A j \in 1..Len(h) : /\ Tidy(h[j]) /\ ToSet(h[j].calls) \subseteq Matched(ids)
                              /\ h[j].answers # NoCall => h[j].answers \in ids
  PROVE  NormaliseMessages(h) = h
<1> DEFINE s == [i \in DOMAIN h |-> Normalised(h[i], ids, ids)]
           n == Len(h)
<1>1. DOMAIN h = 1..n /\ n \in Nat /\ \A i \in 1..n : h[i] \in Messages
  OBVIOUS
<1>2. NormaliseMessages(h) = FlattenSeq(s)
  BY Zenon DEF NormaliseMessages
<1>3. ASSUME NEW i \in 1..n PROVE Normalised(h[i], ids, ids) = <<h[i]>>
  <2> DEFINE m == h[i]
  <2>1. m \in Messages /\ m.role \in Roles /\ m.calls \in Seq(Callers)
    BY <1>1, MessageIs
  <2>2. Tidy(m) /\ ToSet(m.calls) \subseteq Matched(ids) /\ (m.answers # NoCall => m.answers \in ids)
    OBVIOUS
  <2> HIDE DEF m
  <2>3. CASE m.role = "assistant"
    <3> DEFINE good == {c \in Named : c.id # Idless /\ c.id \in ids}
    <3>1. ToSet(m.calls) \subseteq good
      BY <2>2 DEF Matched
    <3>2. Normalised(m, ids, ids) =
            IF KeepsTurn(m, Only(m.calls, good)) THEN <<[m EXCEPT !.calls = Only(m.calls, good)]>> ELSE <<>>
      BY <2>3 DEF Normalised, NormaliseAssistant
    <3> HIDE DEF good
    <3>3. Only(m.calls, good) = m.calls
      BY <2>1, <3>1, OnlyIs
    <3>4. [m EXCEPT !.calls = m.calls] = m
      BY <2>1 DEF Messages
    <3>5. KeepsTurn(m, m.calls)
      BY <2>2, <2>3 DEF Tidy
    <3> QED  BY <3>2, <3>3, <3>4, <3>5 DEF m
  <2>4. CASE m.role = "tool"
    <3>1. m.answers \in ids
      BY <2>2, <2>4 DEF Tidy
    <3> QED  BY <2>4, <3>1 DEF Normalised, m
  <2>5. CASE m.role \in {"system", "user"}
    <3>1. m.role # "assistant" /\ m.role # "tool" /\ m.role # "developer"
      BY <2>5
    <3> QED  BY <2>5, <3>1, Zenon DEF Normalised, m
  <2>6. m.role # "developer"
    BY <2>2 DEF Tidy
  <2> QED  BY <2>1, <2>3, <2>4, <2>5, <2>6 DEF Roles
<1>4. ASSUME NEW i \in 1..n PROVE s[i] = <<h[i]>> /\ s[i] \in Seq(Messages)
  <2>1. s[i] = Normalised(h[i], ids, ids)
    BY <1>1
  <2>2. s[i] = <<h[i]>>
    BY <1>3, <2>1
  <2> HIDE DEF s
  <2> QED  BY <1>1, <2>2
<1>5. s = [i \in 1..n |-> s[i]]
  BY <1>1
<1> HIDE DEF s
<1>6. s \in [1..n -> Seq(Messages)]
  BY <1>4, <1>5
<1>7. s \in Seq(Seq(Messages)) /\ Len(s) = n
  BY <1>1, <1>6, Pieces
<1>8. FlattenSeq(s) = h
  BY <1>4, <1>7, SinglesJoin
<1> QED  BY <1>2, <1>8

(* What raccoon and codebuddy send.                                        *)
Pairs(out, a) ==
    /\ MadeOf(out, a) /\ SaysAll(out, a, 0) /\ SendsBatches(out, a)
    /\ \A j \in 1..Len(out) : ToSet(out[j].calls) \subseteq Named
    /\ CallsOf(out) = AnsweredIds(out)

LEMMA SortedSends ==
  ASSUME NEW a, Request(a), NEW out, NEW ids, SortsTo(out, a, ids), MadeOf(out, a),
         \A x \in ids : x # NoCall /\ x # Idless /\ CallsFor(a, x) /\ AnswersFor(a, x),
         \A i \in 1..Len(a) : Answered(a[i], a) => ToSet(a[i].calls) \subseteq Matched(ids)
  PROVE  Pairs(out, a) /\ CallsOf(out) = ids
<1>1. a \in Seq(Messages) /\ \A i \in 1..Len(a) : a[i].at = i
  BY DEF Request
<1>2. CallsOf(out) = ids /\ AnsweredIds(out) = ids
  BY <1>1, SortedPairs
<1>3. \A j \in 1..Len(out) : ToSet(out[j].calls) \subseteq Named
  BY DEF SortsTo, Matched
<1>4. SendsBatches(out, a)
  BY <1>1 DEF SendsBatches, SortsTo, Answered
<1>5. SaysAll(out, a, 0)
  BY <1>1 DEF SaysAll, SortsTo
<1> QED  BY <1>2, <1>3, <1>4, <1>5 DEF Pairs

ChatShaped(a) == \A i \in 1..Len(a) : a[i].role = "user" => a[i].answers = NoCall

LEMMA RaccoonSends ==
  ASSUME NEW a, Request(a), ChatShaped(a), NEW h \in {a, NormaliseMessages(a)}
  PROVE  Pairs(NormaliseMessages(h), a) /\ NormaliseMessages(h) = NormaliseMessages(a)
<1> DEFINE out == NormaliseMessages(a)
           ids == AnsweredIds(a) \cap NamedIds(a)
<1>1. a \in Seq(Messages) /\ Placed(a) /\ MadeOf(a, a)
  BY RequestIsItself DEF Request
<1>2. /\ SortsTo(out, a, ids) /\ MadeOf(out, a)
      /\ \A j \in 1..Len(out) : Tidy(out[j])
  BY <1>1, NormalisedIs DEF ChatShaped
<1>3. /\ \A x : x \in AnsweredIds(a) <=>
                x # NoCall /\ x # Idless /\ \E p \in 1..Len(a) : a[p].answers = x
      /\ \A x : x \in NamedIds(a) <=> x # Idless /\ CallsFor(a, x)
  BY <1>1, AnsweredIs, NamedIdsAre
<1>4. \A x \in ids : x # NoCall /\ x # Idless /\ CallsFor(a, x) /\ AnswersFor(a, x)
  BY <1>3 DEF AnswersFor
<1>5. ASSUME NEW i \in 1..Len(a), Answered(a[i], a)
      PROVE  ToSet(a[i].calls) \subseteq Matched(ids)
  <2> SUFFICES ASSUME NEW c \in ToSet(a[i].calls) PROVE c \in Named /\ c.id \in ids
    BY DEF Matched
  <2>1. c.named /\ c.id \in AnsweredIds(a)
    BY <1>5 DEF Answered
  <2>2. a[i] \in Messages
    BY <1>1
  <2>3. c \in Callers
    BY <2>2, MessageIs, ElementsAre
  <2>4. c \in Named /\ CallsFor(a, c.id)
    BY <2>1, <2>3 DEF Named, CallsFor
  <2> QED  BY <1>3, <2>1, <2>4
<1> HIDE DEF out, ids
<1>6. Pairs(out, a) /\ CallsOf(out) = ids
  BY <1>2, <1>4, <1>5, SortedSends
<1>7. NormaliseMessages(out) = out
  <2>1. AnsweredIds(out) = ids /\ Idless \notin ids
    BY <1>4, <1>6 DEF Pairs
  <2>2. out \in Seq(Messages)
    BY <1>2 DEF SortsTo
  <2>3. \A x : x \in NamedIds(out) <=> x # Idless /\ CallsFor(out, x)
    BY <2>2, NamedIdsAre
  <2>4. \A x : x \in CallsOf(out) <=> \E j \in 1..Len(out) : x \in CallIds(out[j])
    <3>1. DOMAIN out = 1..Len(out)
      BY <2>2
    <3> QED  BY <3>1 DEF CallsOf
  <2>5. ASSUME NEW x PROVE x \in NamedIds(out) <=> x \in CallsOf(out)
    <3>1. \A j \in 1..Len(out) : ToSet(out[j].calls) \subseteq Named
      BY <1>6 DEF Pairs
    <3>2. CallsFor(out, x) <=> \E j \in 1..Len(out) : \E c \in ToSet(out[j].calls) : c.id = x
      BY <3>1 DEF CallsFor
    <3>3. x \in CallsOf(out) <=>
            x # Idless /\ \E j \in 1..Len(out) : \E c \in ToSet(out[j].calls) : c.id = x
      BY <2>4, CallIdsAre
    <3> QED  BY <2>3, <3>2, <3>3
  <2>6. NamedIds(out) = ids
    BY <1>6, <2>5
  <2> QED  BY <1>2, <2>1, <2>2, <2>6, NormalisedAgain DEF SortsTo
<1> QED  BY <1>6, <1>7 DEF out

----------------------------------------------------------------------------
(* codebuddy.                                                              *)
LEMMA UsableIdsAre ==
  ASSUME NEW m \in Messages
  PROVE  \A x : x \in UsableIds(m) <=> \E c \in ToSet(m.calls) : c \in Named /\ c.id = x
<1>1. m.calls \in Seq(Callers)
  BY MessageIs
<1>2. \A c : c \in ToSet(UsableCalls(m)) <=> c \in ToSet(m.calls) /\ c \in Named
  BY <1>1, OnlyIs DEF UsableCalls
<1> QED  BY <1>2 DEF UsableIds

LEMMA BuddyKeptIs ==
  ASSUME NEW h \in Seq(Messages)
  PROVE  \A x : x \in BuddyKept(h) <=>
            \E p \in 1..Len(h) : x \in UsableIds(h[p]) /\ UsableIds(h[p]) \subseteq AnsweredIds(h)
<1>1. DOMAIN h = 1..Len(h)
  OBVIOUS
<1> QED  BY <1>1 DEF BuddyKept

LEMMA NormalizedSorts ==
  ASSUME NEW m \in Messages, m.at # 0, m.role = "user" => m.answers = NoCall,
         NEW kept, NoCall \notin kept, NEW images
  PROVE  Sorts(Normalized(m, kept, images), m, kept)
<1> DEFINE s == Normalized(m, kept, images)
<1>1. /\ m.role \in Roles /\ m.words \in BOOLEAN /\ m.thoughts \in BOOLEAN /\ m.image \in BOOLEAN
      /\ m.calls \in Seq(Callers) /\ m.answers \in STRING \union {NoCall} /\ m.at \in Nat
      /\ m.calls # <<>> => m.role = "assistant"
      /\ m.answers # NoCall => m.role \in {"user", "tool"}
  BY MessageIs
<1>2. CASE m.role = "assistant"
  <2> DEFINE calls == Only(m.calls, {c \in Named : c.id \in kept})
             e == [m EXCEPT !.calls = calls]
  <2>1. s = Flushed(images) \o <<e>>
    BY <1>2 DEF Normalized, NormalizeAssistant
  <2>2. calls = Only(m.calls, Matched(kept))
    BY DEF Matched
  <2> HIDE DEF s, calls
  <2>3. /\ calls \in Seq(Callers)
        /\ \A c : c \in ToSet(calls) <=> c \in ToSet(m.calls) /\ c \in Matched(kept)
        /\ ToSet(m.calls) \subseteq Matched(kept) => calls = m.calls
    BY <1>1, <2>2, OnlyIs
  <2>4. /\ e.calls = calls /\ e.answers = m.answers /\ m.answers = NoCall /\ e.at = m.at
        /\ e.role = m.role
    BY <1>1, <1>2 DEF Messages
  <2>5. e \in [role : Roles, words : BOOLEAN, thoughts : BOOLEAN, calls : Seq(Callers),
               answers : STRING \union {NoCall}, image : BOOLEAN, at : Nat]
    BY <1>1, <2>3 DEF Messages
  <2> HIDE DEF e
  <2>6. e \in Messages
    BY <1>2, <2>4, <2>5 DEF Messages
  <2>7. Follows(e, m)
    BY <1>2, <2>4 DEF Follows
  <2>8. Replaces(e, m, kept)
    BY <2>3, <2>4, <2>6, <2>7 DEF Replaces
  <2>9. m.role # "tool"
    BY <1>2
  <2> QED  BY <2>1, <2>8, <2>9, FlushedSorts DEF s
<1>3. CASE m.role = "tool"
  <2> DEFINE e == [m EXCEPT !.words = TRUE, !.image = FALSE]
  <2>1. s = IF m.answers \in kept THEN <<e>> ELSE <<>>
    BY <1>3 DEF Normalized
  <2>2. m.calls = <<>> /\ ~Outspoken(m)
    BY <1>1, <1>3 DEF Outspoken
  <2>3. e.calls = <<>> /\ e.answers = m.answers /\ e.at = m.at /\ e.role = m.role
    BY <2>2 DEF Messages
  <2>4. e \in [role : Roles, words : BOOLEAN, thoughts : BOOLEAN, calls : Seq(Callers),
               answers : STRING \union {NoCall}, image : BOOLEAN, at : Nat]
    BY <1>1 DEF Messages
  <2> HIDE DEF s, e
  <2>5. e \in Messages /\ Follows(e, m)
    BY <1>3, <2>3, <2>4 DEF Messages, Follows
  <2>6. CASE m.answers \in kept
    <3>1. Replaces(e, m, kept)
      BY <2>2, <2>3, <2>5, <2>6, ReplacesItself
    <3> QED  BY <2>1, <2>6, <3>1, OneSorts DEF s
  <2>7. CASE m.answers \notin kept
    <3>1. \A c \in ToSet(m.calls) : FALSE
      BY <1>1, <2>2, ElementsAre
    <3> QED  BY <2>1, <2>2, <2>7, <3>1, NoneSorts DEF s
  <2> QED  BY <2>6, <2>7
<1>4. CASE m.role \in {"system", "developer"}
  <2> DEFINE e == [m EXCEPT !.role = "system"]
  <2>1. m.role # "tool" /\ m.role # "assistant"
    BY <1>4
  <2>2. s = Flushed(images) \o <<e>>
    BY <1>4, <2>1, Zenon DEF Normalized
  <2>3. e \in Messages /\ Follows(e, m) /\ e.calls = <<>> /\ m.calls = <<>>
        /\ e.answers = m.answers /\ m.answers = NoCall
    BY <1>4, DemotedIs
  <2> HIDE DEF e, s
  <2>4. Replaces(e, m, kept)
    BY <2>3, ReplacesItself
  <2> QED  BY <2>1, <2>2, <2>4, FlushedSorts DEF s
<1>5. CASE m.role = "user"
  <2>1. s = Flushed(images) \o <<m>>
    BY <1>5 DEF Normalized
  <2>2. m.calls = <<>> /\ m.answers = NoCall /\ Follows(m, m) /\ m.role # "tool"
    BY <1>1, <1>5 DEF Follows
  <2> HIDE DEF s
  <2>3. Replaces(m, m, kept)
    BY <2>2, ReplacesItself
  <2> QED  BY <2>1, <2>2, <2>3, FlushedSorts DEF s
<1> QED  BY <1>1, <1>2, <1>3, <1>4, <1>5 DEF Roles

(* A message put in at the end moves nothing.                              *)
LEMMA FlushedAtTheEnd ==
  ASSUME NEW a, NEW h, NEW ids, NEW o, SortsTo(o, h, ids), MadeOf(o, a), NEW images
  PROVE  SortsTo(o \o Flushed(images), h, ids) /\ MadeOf(o \o Flushed(images), a)
<1>0. o \in Seq(Messages)
  BY DEF SortsTo
<1>1. CASE ~images
  <2>1. Flushed(images) = <<>> /\ o \o <<>> = o
    BY <1>0, <1>1 DEF Flushed
  <2> QED  BY <2>1
<1>2. CASE images
  <2> DEFINE e == ImagesOfAnswers
             out == o \o <<e>>
             l == Len(o)
  <2>1. Flushed(images) = <<e>>
    BY <1>2 DEF Flushed
  <2>2. e \in Messages /\ e.at = 0 /\ Inserted(e) /\ e.calls = <<>> /\ e.answers = NoCall
        /\ e.role # "tool"
    BY ImagesAre DEF ImagesOfAnswers
  <2> HIDE DEF e
  <2>3. l \in Nat /\ out \in Seq(Messages) /\ Len(out) = l + 1 /\ out[l + 1] = e
        /\ \A i \in 1..l : out[i] = o[i]
    BY <1>0, <2>2
  <2>4. ToSet(e.calls) = {}
    <3>1. e.calls \in Seq(Callers)
      BY <2>2
    <3> QED  BY <2>2, <3>1, ElementsAre
  <2> HIDE DEF out
  <2>5. \A j \in 1..Len(out) : (j = l + 1 /\ out[j] = e) \/ (j \in 1..l /\ out[j] = o[j])
    <3> SUFFICES ASSUME NEW j \in 1..Len(out)
                 PROVE  (j = l + 1 /\ out[j] = e) \/ (j \in 1..l /\ out[j] = o[j])
      OBVIOUS
    <3>1. j = l + 1 \/ j \in 1..l
      BY <2>3
    <3> QED  BY <2>3, <3>1
  <2>6. \A j \in 1..l : j \in 1..Len(out) /\ out[j] = o[j]
    BY <2>3
  <2>7. SortsTo(out, h, ids)
    <3>1. \A j \in 1..Len(out) : /\ ToSet(out[j].calls) \subseteq Matched(ids)
                                 /\ out[j].answers # NoCall => out[j].answers \in ids
      BY <2>2, <2>4, <2>5 DEF SortsTo
    <3>2. \A p \in 1..Len(h) : \A c \in ToSet(h[p].calls) : c \in Matched(ids) =>
             \E j \in 1..Len(out) : c \in ToSet(out[j].calls)
      BY <2>6 DEF SortsTo
    <3>3. \A p \in 1..Len(h) : h[p].answers \in ids =>
             \E j \in 1..Len(out) : out[j].answers = h[p].answers
      BY <2>6 DEF SortsTo
    <3>4. \A p \in 1..Len(h) : h[p].calls # <<>> /\ ToSet(h[p].calls) \subseteq Matched(ids) =>
             \E j \in 1..Len(out) : out[j].at = h[p].at /\ out[j].calls = h[p].calls
      BY <2>6, ZenonT(30) DEF SortsTo
    <3>5. \A p \in 1..Len(h) : Outspoken(h[p]) => \E j \in 1..Len(out) : out[j].at = h[p].at
      BY <2>6 DEF SortsTo
    <3> QED  BY <2>3, <3>1, <3>2, <3>3, <3>4, <3>5, Zenon DEF SortsTo
  <2>8. Kin(out, a)
    BY <2>2, <2>5 DEF MadeOf, Kin
  <2>9. InOrder(out, a)
    BY <2>2, <2>5 DEF MadeOf, InOrder
  <2>10. Standing(out, a)
    <3> SUFFICES ASSUME NEW j \in 1..Len(out), out[j].role = "tool", out[j].at # 0,
                        out[j].answers \notin {NoCall, Idless}, a[out[j].at].role = "tool",
                        Stands(a, out[j].at)
                 PROVE  Stands(out, j)
      BY DEF Standing
    <3>1. j \in 1..l /\ out[j] = o[j]
      BY <2>2, <2>5
    <3>2. Stands(o, j)
      BY <3>1 DEF MadeOf, Standing
    <3> DEFINE c == [id |-> o[j].answers, named |-> TRUE]
    <3>3. PICK p \in 1..(j - 1) : c \in ToSet(o[p].calls) /\ \A k \in (p + 1)..(j - 1) : o[k].role = "tool"
      BY <3>2, Zenon DEF Stands
    <3>4. out[p] = o[p] /\ \A k \in (p + 1)..(j - 1) : out[k] = o[k]
      BY <2>3, <3>1
    <3>5. c = [id |-> out[j].answers, named |-> TRUE]
      BY <3>1
    <3> HIDE DEF c
    <3>6. c \in ToSet(out[p].calls) /\ \A k \in (p + 1)..(j - 1) : out[k].role = "tool"
      BY <3>3, <3>4
    <3> QED  BY <3>5, <3>6, Zenon DEF Stands
  <2>11. MadeOf(out, a)
    BY <2>3, <2>8, <2>9, <2>10 DEF MadeOf
  <2> QED  BY <2>1, <2>7, <2>11 DEF out
<1> QED  BY <1>1, <1>2

(* Whichever images wait before a message.                                 *)
Waits(f, h, kept) ==
    f = [n \in 0..Len(h) |->
           n > 0 /\ h[n].role = "tool" /\ (f[n - 1] \/ (h[n].answers \in kept /\ h[n].image))]

LEMMA BuddySends ==
  ASSUME NEW a, Request(a), ChatShaped(a)
  PROVE  Pairs(NormalizeMessages(a), a)
<1> DEFINE kept == BuddyKept(a)
           f == CHOOSE g : Waits(g, a, kept)
           s == [i \in DOMAIN a |-> Normalized(a[i], kept, f[i - 1])]
           o == FlattenSeq(s)
           n == Len(a)
           out == o \o Flushed(f[n])
<1>1. a \in Seq(Messages) /\ Placed(a) /\ MadeOf(a, a)
  BY RequestIsItself DEF Request
<1>2. NormalizeMessages(a) = out
  BY Zenon DEF NormalizeMessages, Waits
<1>3. DOMAIN a = 1..n /\ n \in Nat /\ \A i \in 1..n : a[i] \in Messages
  BY <1>1
<1>4. /\ \A x : x \in AnsweredIds(a) <=> x # NoCall /\ x # Idless /\ \E p \in 1..n : a[p].answers = x
      /\ \A x : x \in kept <=>
            \E p \in 1..n : x \in UsableIds(a[p]) /\ UsableIds(a[p]) \subseteq AnsweredIds(a)
  BY <1>1, AnsweredIs, BuddyKeptIs
<1>5. \A p \in 1..n : \A x : x \in UsableIds(a[p]) <=>
          \E c \in ToSet(a[p].calls) : c \in Named /\ c.id = x
  BY <1>3, UsableIdsAre
<1> HIDE DEF kept, f
<1>6. \A x \in kept : x # NoCall /\ x # Idless /\ CallsFor(a, x) /\ AnswersFor(a, x)
  <2> SUFFICES ASSUME NEW x \in kept
               PROVE  x # NoCall /\ x # Idless /\ CallsFor(a, x) /\ AnswersFor(a, x)
    OBVIOUS
  <2>1. PICK p \in 1..n : x \in UsableIds(a[p]) /\ UsableIds(a[p]) \subseteq AnsweredIds(a)
    BY <1>4
  <2>2. x \in AnsweredIds(a)
    BY <2>1
  <2>3. x # NoCall /\ x # Idless /\ \E q \in 1..n : a[q].answers = x
    BY <1>4, <2>2
  <2>4. CallsFor(a, x)
    BY <1>5, <2>1 DEF CallsFor
  <2> QED  BY <2>3, <2>4 DEF AnswersFor
<1>7. ASSUME NEW i \in 1..n, Answered(a[i], a)
      PROVE  ToSet(a[i].calls) \subseteq Matched(kept)
  <2>1. \A c \in ToSet(a[i].calls) : c \in Named /\ c.id \in AnsweredIds(a)
    <3>1. \A c \in ToSet(a[i].calls) : c \in Callers
      BY <1>3, MessageIs, ElementsAre
    <3> QED  BY <1>7, <3>1 DEF Answered, Named
  <2>2. UsableIds(a[i]) \subseteq AnsweredIds(a)
    BY <1>5, <2>1
  <2> SUFFICES ASSUME NEW c \in ToSet(a[i].calls) PROVE c \in Named /\ c.id \in kept
    BY DEF Matched
  <2>3. c \in Named /\ c.id \in UsableIds(a[i])
    BY <1>5, <2>1
  <2> QED  BY <1>4, <2>2, <2>3
<1>8. \A i \in 1..n : s[i] = Normalized(a[i], kept, f[i - 1])
  BY <1>3
<1>9. s = [i \in 1..n |-> s[i]]
  BY <1>3
<1> HIDE DEF s
<1>10. ASSUME NEW i \in 1..n PROVE Sorts(s[i], a[i], kept)
  <2> DEFINE m == a[i]
             g == f[i - 1]
  <2>1. m \in Messages /\ m.at # 0 /\ (m.role = "user" => m.answers = NoCall) /\ NoCall \notin kept
    BY <1>1, <1>3, <1>6 DEF Placed, ChatShaped
  <2>2. s[i] = Normalized(m, kept, g)
    BY <1>8
  <2> HIDE DEF m, g
  <2>3. Sorts(Normalized(m, kept, g), m, kept)
    BY <2>1, NormalizedSorts
  <2> QED  BY <2>2, <2>3 DEF m
<1>11. \A i \in 1..n : Renders(s[i], a[i]) /\ s[i] \in Seq(Messages)
  BY <1>10, Zenon DEF Sorts, Renders
<1>12. s \in [1..n -> Seq(Messages)]
  BY <1>9, <1>11
<1>13. PICK src : Weaves(o, a, src) /\ Made(o, s, src)
  BY <1>1, <1>11, <1>12, PiecesWeave
<1>14. SortsTo(o, a, kept) /\ KeepsCalls(o, a, src)
  BY <1>1, <1>10, <1>12, <1>13, PiecesSort
<1>15. MadeOf(o, a)
  BY <1>1, <1>13, <1>14, WovenIsMade
<1> HIDE DEF o
<1>16. SortsTo(out, a, kept) /\ MadeOf(out, a)
  <2> DEFINE g == f[n]
  <2> HIDE DEF g
  <2>1. SortsTo(o \o Flushed(g), a, kept) /\ MadeOf(o \o Flushed(g), a)
    BY <1>14, <1>15, FlushedAtTheEnd
  <2> QED  BY <2>1 DEF g
<1> HIDE DEF out
<1>17. Pairs(out, a)
  BY <1>6, <1>7, <1>16, SortedSends
<1> QED  BY <1>2, <1>17

----------------------------------------------------------------------------
(* The plugins that forward the history.                                   *)
Forwards(out, a) == MadeOf(out, a) /\ SaysAll(out, a, 0)

Demotes(h) == [i \in DOMAIN h |-> Demoted(h[i])]

LEMMA DemotedFollows ==
  ASSUME NEW m \in Messages
  PROVE  Demoted(m) \in Messages /\ Follows(Demoted(m), m) /\ Demoted(m).calls = m.calls
<1>1. CASE m.role = "developer"
  <2> DEFINE e == [m EXCEPT !.role = "system"]
  <2>1. Demoted(m) = e
    BY <1>1 DEF Demoted
  <2>2. e \in Messages /\ Follows(e, m) /\ e.calls = <<>> /\ m.calls = <<>>
    BY <1>1, DemotedIs
  <2> HIDE DEF e
  <2> QED  BY <2>1, <2>2
<1>2. CASE m.role # "developer"
  <2>1. Demoted(m) = m
    BY <1>2 DEF Demoted
  <2>2. Follows(m, m)
    BY DEF Follows
  <2> QED  BY <2>1, <2>2
<1> QED  BY <1>1, <1>2

LEMMA DemotesForwards ==
  ASSUME NEW a, Request(a)
  PROVE  /\ Forwards(Demotes(a), a) /\ Placed(Demotes(a)) /\ Len(Demotes(a)) = Len(a)
         /\ \A i \in 1..Len(a) : Demotes(a)[i].at = i
<1> DEFINE d == Demotes(a)
           n == Len(a)
<1>1. a \in Seq(Messages) /\ Placed(a) /\ MadeOf(a, a) /\ \A i \in 1..n : a[i].at = i
  BY RequestIsItself DEF Request
<1>2. n \in Nat /\ DOMAIN a = 1..n /\ \A i \in 1..n : a[i] \in Messages
  BY <1>1
<1>3. d = [i \in 1..n |-> Demoted(a[i])]
  BY <1>2 DEF Demotes
<1>4. \A i \in 1..n : d[i] = Demoted(a[i])
  BY <1>3
<1> HIDE DEF d
<1>5. \A i \in 1..n : d[i] \in Messages /\ Follows(d[i], a[i]) /\ d[i].calls = a[i].calls
  BY <1>2, <1>4, DemotedFollows
<1>6. d \in Seq(Messages) /\ Len(d) = n
  <2>1. d = [i \in 1..n |-> d[i]]
    BY <1>3, <1>4
  <2> QED  BY <1>2, <1>5, <2>1
<1>7. \A i \in 1..n : d[i].at = i /\ d[i].at # 0
  BY <1>1, <1>2, <1>5 DEF Follows
<1>8. PICK src : Weaves(d, a, src) /\ KeepsCalls(d, a, src)
  BY <1>1, <1>5, <1>6, <1>7, PointsWeave
<1>9. MadeOf(d, a)
  BY <1>1, <1>8, WovenIsMade
<1>10. SaysAll(d, a, 0)
  BY <1>6, <1>7 DEF SaysAll
<1>11. Placed(d)
  BY <1>6, <1>7 DEF Placed
<1> QED  BY <1>6, <1>7, <1>9, <1>10, <1>11 DEF Forwards, d

LEMMA PromptIs ==
  /\ DsmlPrompt \in Messages /\ DsmlPrompt.at = 0 /\ Inserted(DsmlPrompt)
  /\ DsmlPrompt.calls = <<>> /\ DsmlPrompt.answers = NoCall /\ DsmlPrompt.role = "system"
<1>1. /\ DsmlPrompt.calls = <<>> /\ DsmlPrompt.answers = NoCall /\ DsmlPrompt.at = 0
      /\ DsmlPrompt.role = "system"
  BY DEF DsmlPrompt
<1>2. DsmlPrompt \in [role : Roles, words : BOOLEAN, thoughts : BOOLEAN, calls : Seq(Callers),
                      answers : STRING \union {NoCall}, image : BOOLEAN, at : Nat]
  BY DEF DsmlPrompt, Roles
<1> QED  BY <1>1, <1>2 DEF Inserted, Messages

LEMMA ConcatIs ==
  ASSUME NEW S, NEW s \in Seq(S), NEW t \in Seq(S)
  PROVE  /\ s \o t \in Seq(S) /\ Len(s \o t) = Len(s) + Len(t)
         /\ \A j \in 1..(Len(s) + Len(t)) : (s \o t)[j] = IF j <= Len(s) THEN s[j] ELSE t[j - Len(s)]
OBVIOUS

Inserts(out, S, h, b, e) ==
    /\ out \in Seq(S) /\ Len(out) = Len(h) + 1
    /\ \A j \in 1..b : out[j] = h[j]
    /\ out[b + 1] = e
    /\ \A j \in (b + 2)..(Len(h) + 1) : out[j] = h[j - 1]

LEMMA InsertIs ==
  ASSUME NEW S, NEW h \in Seq(S), NEW b \in 0..Len(h), NEW e \in S
  PROVE  Inserts(InsertAt(h, b + 1, e), S, h, b, e)
<1> DEFINE l == Len(h)
           u == SubSeq(h, 1, b)
           v == <<e>>
           w == SubSeq(h, b + 1, l)
           x == u \o v
           out == x \o w
<1>1. l \in Nat /\ b \in Nat /\ b <= l
  OBVIOUS
<1>2. InsertAt(h, b + 1, e) = out
  <2>1. (b + 1) - 1 = b
    BY <1>1
  <2>2. InsertAt(h, b + 1, e) = (SubSeq(h, 1, (b + 1) - 1) \o <<e>>) \o SubSeq(h, b + 1, Len(h))
    BY Zenon DEF InsertAt
  <2> QED  BY <2>1, <2>2, Zenon
<1>3. u \in Seq(S) /\ Len(u) = b /\ \A j \in 1..b : u[j] = h[j]
  BY <1>1
<1>4. v \in Seq(S) /\ Len(v) = 1 /\ v[1] = e
  OBVIOUS
<1>5. w \in Seq(S) /\ Len(w) = l - b /\ \A j \in 1..(l - b) : w[j] = h[b + j]
  BY <1>1
<1> HIDE DEF u, v, w
<1>6. x \in Seq(S) /\ Len(x) = b + 1 /\ x[b + 1] = e /\ \A j \in 1..b : x[j] = h[j]
  <2>1. /\ x \in Seq(S) /\ Len(x) = Len(u) + Len(v)
        /\ \A j \in 1..(Len(u) + Len(v)) : x[j] = IF j <= Len(u) THEN u[j] ELSE v[j - Len(u)]
    BY <1>3, <1>4, ConcatIs
  <2> HIDE DEF x
  <2>2. x[b + 1] = v[b + 1 - b] /\ b + 1 - b = 1
    BY <1>1, <1>3, <1>4, <2>1
  <2> QED  BY <1>1, <1>3, <1>4, <2>1, <2>2
<1> HIDE DEF x, l
<1>c. /\ out \in Seq(S) /\ Len(out) = Len(x) + Len(w)
      /\ \A j \in 1..(Len(x) + Len(w)) : out[j] = IF j <= Len(x) THEN x[j] ELSE w[j - Len(x)]
  BY <1>5, <1>6, ConcatIs
<1> HIDE DEF out
<1>7. out \in Seq(S) /\ Len(out) = l + 1 /\ \A j \in 1..(b + 1) : out[j] = x[j]
  BY <1>1, <1>5, <1>6, <1>c
<1>8. ASSUME NEW j \in (b + 2)..(l + 1) PROVE out[j] = h[j - 1]
  <2>1. j \in 1..(Len(x) + Len(w)) /\ ~(j <= b + 1) /\ j - (b + 1) \in 1..(l - b)
    BY <1>1, <1>5, <1>6, <1>8
  <2>2. out[j] = w[j - (b + 1)]
    BY <1>6, <1>c, <2>1
  <2>3. b + (j - (b + 1)) = j - 1
    BY <1>1
  <2> QED  BY <1>5, <2>1, <2>2, <2>3
<1>9. \A j \in 1..b : j \in 1..(b + 1)
  BY <1>1
<1>10. b + 1 \in 1..(b + 1)
  BY <1>1
<1>11. Inserts(out, S, h, b, e)
  BY <1>6, <1>7, <1>8, <1>9, <1>10 DEF l, Inserts
<1> QED  BY <1>2, <1>11

LEMMA PromptInserted ==
  ASSUME NEW d \in Seq(Messages)
  PROVE  \E b \in 0..Len(d) : /\ b # 0 => d[b].role = "system"
                              /\ InsertDsmlPrompt(d) = InsertAt(d, b + 1, DsmlPrompt)
<1> DEFINE systems == {i \in DOMAIN d : d[i].role = "system"}
           b == IF systems = {} THEN 0 ELSE CHOOSE i \in systems : \A j \in systems : i <= j
<1>1. InsertDsmlPrompt(d) = InsertAt(d, b + 1, DsmlPrompt)
  BY Zenon DEF InsertDsmlPrompt
<1>2. systems \in SUBSET Nat /\ systems \subseteq 1..Len(d) /\ \A i \in systems : d[i].role = "system"
  OBVIOUS
<1>3. Len(d) \in Nat
  OBVIOUS
<1> HIDE DEF systems
<1>4. CASE systems = {}
  <2>1. b = 0
    BY <1>4
  <2> HIDE DEF b
  <2> QED  BY <1>1, <1>3, <2>1
<1>5. CASE systems # {}
  <2>1. \E i \in systems : \A j \in systems : i <= j
    BY <1>2, <1>5, Least
  <2>2. b \in systems
    BY <1>5, <2>1, Zenon
  <2> HIDE DEF b
  <2> QED  BY <1>1, <1>2, <1>3, <2>2
<1> QED  BY <1>4, <1>5

LEMMA PromptWeaves ==
  ASSUME NEW d \in Seq(Messages), Placed(d), NEW b \in 0..Len(d), b # 0 => d[b].role = "system"
  PROVE  LET out == InsertAt(d, b + 1, DsmlPrompt) IN
         /\ \E src : Weaves(out, d, src) /\ KeepsCalls(out, d, src)
         /\ \A p \in 1..Len(d) : \E j \in 1..Len(out) : out[j] = d[p]
<1> DEFINE out == InsertAt(d, b + 1, DsmlPrompt)
           n == Len(d)
           src == [j \in 1..(n + 1) |-> IF j <= b THEN j ELSE IF j = b + 1 THEN 0 ELSE j - 1]
<1>1. DsmlPrompt \in Messages /\ DsmlPrompt.at = 0 /\ Inserted(DsmlPrompt)
  BY PromptIs
<1>2. n \in Nat /\ b \in Nat /\ b <= n /\ \A i \in 1..n : d[i] \in Messages /\ d[i].at # 0
  BY DEF Placed
<1>3. /\ out \in Seq(Messages) /\ Len(out) = n + 1 /\ \A j \in 1..b : out[j] = d[j]
      /\ out[b + 1] = DsmlPrompt /\ \A j \in (b + 2)..(n + 1) : out[j] = d[j - 1]
  <2>1. Inserts(out, Messages, d, b, DsmlPrompt)
    BY <1>1, InsertIs
  <2> HIDE DEF out
  <2> QED  BY <2>1 DEF Inserts
<1>4. ASSUME NEW j \in 1..(n + 1)
      PROVE  /\ src[j] = (IF j <= b THEN j ELSE IF j = b + 1 THEN 0 ELSE j - 1) /\ src[j] \in 0..n
             /\ src[j] = 0 => j = b + 1 /\ out[j] = DsmlPrompt
             /\ src[j] # 0 => src[j] \in 1..n /\ out[j] = d[src[j]]
  <2>1. CASE j <= b
    BY <1>2, <1>3, <2>1
  <2>2. CASE j = b + 1
    BY <1>2, <1>3, <2>2
  <2>3. CASE ~(j <= b) /\ j # b + 1
    <3>1. j \in (b + 2)..(n + 1)
      BY <1>2, <2>3
    <3> QED  BY <1>2, <1>3, <2>3, <3>1
  <2> QED  BY <2>1, <2>2, <2>3
<1>5. src = [j \in 1..(n + 1) |-> src[j]]
  OBVIOUS
<1> HIDE DEF src, out
<1>6. ASSUME NEW p \in 1..n
      PROVE  \E j \in 1..(n + 1) : src[j] = p /\ out[j] = d[p]
  <2>1. CASE p <= b
    <3>1. p \in 1..(n + 1) /\ src[p] = p /\ p # 0
      BY <1>2, <1>4, <2>1
    <3> QED  BY <1>4, <3>1
  <2>2. CASE ~(p <= b)
    <3>1. p + 1 \in 1..(n + 1) /\ ~(p + 1 <= b) /\ p + 1 # b + 1 /\ (p + 1) - 1 = p /\ p # 0
      BY <1>2, <2>2
    <3>2. src[p + 1] = p
      BY <1>4, <3>1
    <3> QED  BY <1>4, <3>1, <3>2
  <2> QED  BY <2>1, <2>2
<1>7. Weaves(out, d, src)
  <2>1. src \in [1..Len(out) -> 0..n]
    BY <1>3, <1>4, <1>5
  <2>2. ASSUME NEW j \in 1..Len(out)
        PROVE  \/ src[j] = 0 /\ out[j].at = 0 /\ Inserted(out[j])
               \/ src[j] # 0 /\ out[j].at # 0 /\ Follows(out[j], d[src[j]])
    <3>1. j \in 1..(n + 1)
      BY <1>3
    <3>2. CASE src[j] = 0
      BY <1>1, <1>4, <3>1, <3>2
    <3>3. CASE src[j] # 0
      <4>1. src[j] \in 1..n /\ out[j] = d[src[j]]
        BY <1>4, <3>1, <3>3
      <4>2. Follows(d[src[j]], d[src[j]])
        BY DEF Follows
      <4> QED  BY <1>2, <3>3, <4>1, <4>2
    <3> QED  BY <3>2, <3>3
  <2>3. ASSUME NEW i \in 1..Len(out), NEW j \in 1..Len(out), i < j, src[i] # 0, src[j] # 0
        PROVE  src[i] < src[j]
    BY <1>2, <1>3, <1>4, <2>3
  <2>4. ASSUME NEW i \in 1..Len(out), NEW k \in 1..Len(out), NEW j \in 1..Len(out),
               i < k, k < j, src[i] # 0, src[k] = 0, src[j] # 0
        PROVE  \E q \in src[i]..src[j] : d[q].role # "tool" /\ (q = src[i] => d[q].calls = <<>>)
    <3>1. k = b + 1 /\ i \in 1..(n + 1) /\ j \in 1..(n + 1)
      BY <1>3, <1>4, <2>4
    <3>2. src[i] = i /\ i <= b /\ src[j] = j - 1 /\ b <= j - 1 /\ b # 0 /\ b \in 1..n
      BY <1>2, <1>4, <2>4, <3>1
    <3>3. b \in src[i]..src[j]
      BY <1>2, <3>1, <3>2
    <3>4. d[b].role = "system" /\ d[b].calls = <<>>
      BY <1>2, <3>2, MessageIs
    <3> QED  BY <3>3, <3>4
  <2> QED  BY <1>3, <2>1, <2>2, <2>3, <2>4, ZenonT(30) DEF Weaves, n
<1>8. KeepsCalls(out, d, src)
  <2>1. ASSUME NEW j \in 1..Len(out), src[j] # 0, out[j].role = "tool",
               out[j].answers \notin {NoCall, Idless}, NEW p \in 1..(src[j] - 1),
               NEW c \in ToSet(d[p].calls), c \in Named, c.id = out[j].answers,
               OnlyAnswers(d, p, src[j])
        PROVE  \E i \in 1..Len(out) : src[i] = p /\ c \in ToSet(out[i].calls)
    <3>1. j \in 1..(n + 1) /\ src[j] \in 0..n
      BY <1>3, <1>4
    <3>2. p \in 1..n
      BY <1>2, <3>1
    <3>3. PICK i \in 1..(n + 1) : src[i] = p /\ out[i] = d[p]
      BY <1>6, <3>2
    <3> QED  BY <1>3, <2>1, <3>3
  <2> QED  BY <2>1 DEF KeepsCalls
<1>9. \A p \in 1..n : \E j \in 1..Len(out) : out[j] = d[p]
  BY <1>3, <1>6
<1> QED  BY <1>7, <1>8, <1>9 DEF out, n

LEMMA PromptForwards ==
  ASSUME NEW a, Request(a) PROVE Forwards(InsertDsmlPrompt(Demotes(a)), a)
<1> DEFINE d == Demotes(a)
<1>1. Forwards(d, a) /\ Placed(d) /\ Len(d) = Len(a) /\ \A i \in 1..Len(a) : d[i].at = i
  BY DemotesForwards
<1> HIDE DEF d
<1>2. d \in Seq(Messages) /\ MadeOf(d, a)
  BY <1>1 DEF Forwards, MadeOf
<1>3. PICK b \in 0..Len(d) : /\ b # 0 => d[b].role = "system"
                             /\ InsertDsmlPrompt(d) = InsertAt(d, b + 1, DsmlPrompt)
  BY <1>2, PromptInserted
<1> DEFINE out == InsertAt(d, b + 1, DsmlPrompt)
<1>4. /\ \E src : Weaves(out, d, src) /\ KeepsCalls(out, d, src)
      /\ \A p \in 1..Len(d) : \E j \in 1..Len(out) : out[j] = d[p]
  BY <1>1, <1>2, <1>3, PromptWeaves
<1> HIDE DEF out
<1>5. PICK src : Weaves(out, d, src) /\ KeepsCalls(out, d, src)
  BY <1>4
<1>6. MadeOf(out, a)
  BY <1>1, <1>2, <1>5, WovenIsMade
<1>7. SaysAll(out, a, 0)
  <2>1. ASSUME NEW i \in 1..Len(a) PROVE \E j \in 1..Len(out) : out[j].at = i
    <3>1. i \in 1..Len(d) /\ d[i].at = i
      BY <1>1
    <3>2. PICK j \in 1..Len(out) : out[j] = d[i]
      BY <1>4, <3>1
    <3> QED  BY <3>1, <3>2
  <2> QED  BY <2>1 DEF SaysAll
<1>8. InsertDsmlPrompt(d) = out
  BY <1>3 DEF out
<1> QED  BY <1>6, <1>7, <1>8 DEF Forwards, d

----------------------------------------------------------------------------
(* qoder.                                                                  *)
Picks(out, s, n, src) ==
    /\ src \in [1..Len(out) -> 1..n]
    /\ \A j \in 1..Len(out) : Len(s[src[j]]) = 1 /\ out[j] = s[src[j]][1]
    /\ \A i, j \in 1..Len(out) : i < j => src[i] < src[j]
    /\ \A p \in 1..n : Len(s[p]) = 1 => \E j \in 1..Len(out) : src[j] = p

LEMMA PiecesPick ==
  ASSUME NEW T, NEW n \in Nat, NEW s \in [1..n -> Seq(T)],
         \A i \in 1..n : Len(s[i]) = 0 \/ Len(s[i]) = 1
  PROVE  FlattenSeq(s) \in Seq(T) /\ \E src : Picks(FlattenSeq(s), s, n, src)
<1> DEFINE out == FlattenSeq(s)
<1>1. s \in Seq(Seq(T)) /\ Len(s) = n /\ out \in Seq(T) /\ \E a, b : Spreads(out, s, n, a, b)
  BY Pieces
<1> HIDE DEF out
<1>2. PICK src, off : Spreads(out, s, n, src, off)
  BY <1>1
<1>3. \A j \in 1..Len(out) : src[j] \in 1..n /\ off[j] \in 1..Len(s[src[j]]) /\ out[j] = s[src[j]][off[j]]
  BY <1>2 DEF Spreads
<1>4. \A j \in 1..Len(out) : Len(s[src[j]]) = 1 /\ off[j] = 1
  BY <1>3
<1>5. \A j \in 1..Len(out) : out[j] = s[src[j]][1]
  BY <1>3, <1>4
<1>6. ASSUME NEW i \in 1..Len(out), NEW j \in 1..Len(out), i < j PROVE src[i] < src[j]
  BY <1>2, <1>4, <1>6 DEF Spreads
<1>7. ASSUME NEW p \in 1..n, Len(s[p]) = 1 PROVE \E j \in 1..Len(out) : src[j] = p
  <2>1. 1 \in 1..Len(s[p])
    BY <1>7
  <2> QED  BY <1>2, <2>1 DEF Spreads
<1>8. Picks(out, s, n, src)
  BY <1>2, <1>4, <1>5, <1>6, <1>7 DEF Picks, Spreads
<1> QED  BY <1>1, <1>8 DEF out

LEMMA SystemFieldIs ==
  ASSUME NEW m \in Messages
  PROVE  /\ SystemField(m) \in Seq(Messages) /\ (Len(SystemField(m)) = 0 \/ Len(SystemField(m)) = 1)
         /\ Len(SystemField(m)) = 1 <=> m.role \in {"system", "developer"} /\ m.words
         /\ Len(SystemField(m)) = 1 =>
              SystemField(m)[1].role = "system" /\ SystemField(m)[1].answers = NoCall
              /\ SystemField(m)[1].at = m.at
<1> DEFINE s == SystemField(m)
           e == [m EXCEPT !.role = "system"]
<1>1. CASE m.role \in {"system", "developer"} /\ m.words
  <2>1. s = <<e>>
    BY <1>1 DEF SystemField
  <2>2. e \in Messages /\ e.answers = NoCall /\ e.role = "system" /\ Follows(e, m)
    BY <1>1, DemotedIs
  <2>3. e.at = m.at
    BY <2>2 DEF Follows
  <2> HIDE DEF e
  <2>4. <<e>> \in Seq(Messages) /\ Len(<<e>>) = 1 /\ <<e>>[1] = e
    BY <2>2
  <2> HIDE DEF s
  <2> QED  BY <1>1, <2>1, <2>2, <2>3, <2>4 DEF s
<1>2. CASE ~(m.role \in {"system", "developer"} /\ m.words)
  <2>1. s = <<>>
    BY <1>2 DEF SystemField
  <2>2. <<>> \in Seq(Messages) /\ Len(<<>>) = 0
    OBVIOUS
  <2> HIDE DEF s
  <2> QED  BY <1>2, <2>1, <2>2 DEF s
<1> QED  BY <1>1, <1>2

LEMMA AskedIs ==
  ASSUME NEW m \in Messages
  PROVE  /\ Asked(m) \in Seq(Messages) /\ (Len(Asked(m)) = 0 \/ Len(Asked(m)) = 1)
         /\ Len(Asked(m)) = 1 <=> m.role \notin {"system", "developer"}
         /\ Len(Asked(m)) = 1 => /\ Asked(m)[1].role = m.role /\ Asked(m)[1].answers = NoCall
                                 /\ Asked(m)[1].at = m.at
<1> DEFINE s == Asked(m)
           e == [m EXCEPT !.calls = <<>>, !.thoughts = FALSE, !.answers = NoCall, !.image = FALSE]
<1>1. CASE m.role \notin {"system", "developer"}
  <2>1. s = <<e>>
    BY <1>1 DEF Asked
  <2>2. e.calls = <<>> /\ e.answers = NoCall /\ e.role = m.role /\ e.at = m.at
    BY DEF Messages
  <2>3. e \in [role : Roles, words : BOOLEAN, thoughts : BOOLEAN, calls : Seq(Callers),
               answers : STRING \union {NoCall}, image : BOOLEAN, at : Nat]
    <3>1. <<>> \in Seq(Callers)
      OBVIOUS
    <3> QED  BY <3>1, MessageIs DEF Messages
  <2> HIDE DEF e
  <2>4. e \in Messages
    BY <2>2, <2>3 DEF Messages
  <2>5. <<e>> \in Seq(Messages) /\ Len(<<e>>) = 1 /\ <<e>>[1] = e
    BY <2>4
  <2> HIDE DEF s
  <2> QED  BY <1>1, <2>1, <2>2, <2>5 DEF s
<1>2. CASE m.role \in {"system", "developer"}
  <2>1. s = <<>>
    BY <1>2 DEF Asked
  <2>2. <<>> \in Seq(Messages) /\ Len(<<>>) = 0
    OBVIOUS
  <2> HIDE DEF s
  <2> QED  BY <1>2, <2>1, <2>2 DEF s
<1> QED  BY <1>1, <1>2

(* The words of the system, then those of the others in order.             *)
Asks(out, a) ==
    /\ out \in Seq(Messages)
    /\ \A j \in 1..Len(out) : out[j].at \in 1..Len(a) /\ out[j].answers = NoCall
    /\ \A i, j \in 1..Len(out) : i < j /\ out[i].role # "system" => out[i].at < out[j].at
    /\ \A i \in 1..Len(a) : Outspoken(a[i]) /\ a[i].words => \E j \in 1..Len(out) : out[j].at = i

LEMMA QoderAsks ==
  ASSUME NEW a, Request(a) PROVE Asks(InferAsk(a), a)
<1> DEFINE n == Len(a)
           s == [i \in DOMAIN a |-> SystemField(a[i])]
           t == [i \in DOMAIN a |-> Asked(a[i])]
           u == FlattenSeq(s)
           v == FlattenSeq(t)
           out == u \o v
<1>1. a \in Seq(Messages) /\ \A i \in 1..n : a[i].at = i
  BY DEF Request
<1>2. n \in Nat /\ DOMAIN a = 1..n /\ \A i \in 1..n : a[i] \in Messages /\ a[i].words \in BOOLEAN
  BY <1>1, MessageIs
<1>3. InferAsk(a) = out
  BY DEF InferAsk
<1>4. /\ \A i \in 1..n : s[i] = SystemField(a[i]) /\ t[i] = Asked(a[i])
      /\ s = [i \in 1..n |-> s[i]] /\ t = [i \in 1..n |-> t[i]]
  BY <1>2
<1> HIDE DEF s, t
<1>5. ASSUME NEW i \in 1..n
      PROVE  /\ s[i] \in Seq(Messages) /\ (Len(s[i]) = 0 \/ Len(s[i]) = 1)
             /\ Len(s[i]) = 1 <=> a[i].role \in {"system", "developer"} /\ a[i].words
             /\ Len(s[i]) = 1 => s[i][1].role = "system" /\ s[i][1].answers = NoCall /\ s[i][1].at = i
  <2> DEFINE m == a[i]
  <2>1. m \in Messages /\ m.at = i
    BY <1>1, <1>2
  <2> HIDE DEF m
  <2>2. s[i] = SystemField(m)
    BY <1>4 DEF m
  <2> QED  BY <2>1, <2>2, SystemFieldIs DEF m
<1>6. ASSUME NEW i \in 1..n
      PROVE  /\ t[i] \in Seq(Messages) /\ (Len(t[i]) = 0 \/ Len(t[i]) = 1)
             /\ Len(t[i]) = 1 <=> a[i].role \notin {"system", "developer"}
             /\ Len(t[i]) = 1 => t[i][1].role = a[i].role /\ t[i][1].answers = NoCall /\ t[i][1].at = i
  <2> DEFINE m == a[i]
  <2>1. m \in Messages /\ m.at = i
    BY <1>1, <1>2
  <2> HIDE DEF m
  <2>2. t[i] = Asked(m)
    BY <1>4 DEF m
  <2> QED  BY <2>1, <2>2, AskedIs DEF m
<1>7. s \in [1..n -> Seq(Messages)] /\ t \in [1..n -> Seq(Messages)]
  BY <1>4, <1>5, <1>6
<1>8. u \in Seq(Messages) /\ \E src : Picks(u, s, n, src)
  BY <1>2, <1>5, <1>7, PiecesPick, ZenonT(30)
<1>9. v \in Seq(Messages) /\ \E src : Picks(v, t, n, src)
  BY <1>2, <1>6, <1>7, PiecesPick
<1> HIDE DEF u, v
<1>10. PICK p : Picks(u, s, n, p)
  BY <1>8
<1>11. PICK q : Picks(v, t, n, q)
  BY <1>9
<1>12. \A j \in 1..Len(u) : /\ u[j].role = "system" /\ u[j].answers = NoCall /\ u[j].at = p[j]
                            /\ p[j] \in 1..n
  BY <1>5, <1>10 DEF Picks
<1>13. \A j \in 1..Len(v) : /\ v[j].role # "system" /\ v[j].answers = NoCall /\ v[j].at = q[j]
                            /\ q[j] \in 1..n
  <2> SUFFICES ASSUME NEW j \in 1..Len(v)
               PROVE  v[j].role # "system" /\ v[j].answers = NoCall /\ v[j].at = q[j] /\ q[j] \in 1..n
    OBVIOUS
  <2>1. q[j] \in 1..n /\ Len(t[q[j]]) = 1 /\ v[j] = t[q[j]][1]
    BY <1>11 DEF Picks
  <2>2. v[j].role = a[q[j]].role /\ v[j].answers = NoCall /\ v[j].at = q[j]
        /\ a[q[j]].role \notin {"system", "developer"}
    BY <1>6, <2>1
  <2> QED  BY <2>1, <2>2
<1> DEFINE k == Len(u)
           l == Len(v)
<1>14. /\ out \in Seq(Messages) /\ Len(out) = k + l /\ k \in Nat /\ l \in Nat
       /\ \A j \in 1..(k + l) : out[j] = IF j <= k THEN u[j] ELSE v[j - k]
  BY <1>8, <1>9, ConcatIs
<1> HIDE DEF out, k, l
<1>15. ASSUME NEW j \in 1..(k + l)
       PROVE  \/ j \in 1..k /\ out[j] = u[j]
              \/ j \notin 1..k /\ j - k \in 1..l /\ out[j] = v[j - k]
  BY <1>14
<1>16. \A j \in 1..Len(out) : out[j].at \in 1..n /\ out[j].answers = NoCall
  <2> SUFFICES ASSUME NEW j \in 1..Len(out) PROVE out[j].at \in 1..n /\ out[j].answers = NoCall
    OBVIOUS
  <2>1. j \in 1..(k + l)
    BY <1>14
  <2>2. CASE j \in 1..k /\ out[j] = u[j]
    BY <1>12, <2>2 DEF k
  <2>3. CASE j - k \in 1..l /\ out[j] = v[j - k]
    BY <1>13, <2>3 DEF l
  <2> QED  BY <1>15, <2>1, <2>2, <2>3
<1>17. ASSUME NEW i \in 1..Len(out), NEW j \in 1..Len(out), i < j, out[i].role # "system"
       PROVE  out[i].at < out[j].at
  <2>1. i - k \in 1..l /\ out[i] = v[i - k] /\ i \notin 1..k
    BY <1>12, <1>14, <1>15, <1>17 DEF k
  <2>2. j - k \in 1..l /\ out[j] = v[j - k] /\ i - k < j - k
    BY <1>14, <1>15, <1>17, <2>1
  <2>3. q[i - k] < q[j - k]
    BY <1>11, <2>1, <2>2 DEF Picks, l
  <2> QED  BY <1>13, <2>1, <2>2, <2>3 DEF l
<1>18. ASSUME NEW i \in 1..n, Outspoken(a[i]), a[i].words
       PROVE  \E j \in 1..Len(out) : out[j].at = i
  <2>1. CASE a[i].role \in {"system", "developer"}
    <3>1. PICK j \in 1..k : p[j] = i
      BY <1>5, <1>10, <1>18, <2>1 DEF Picks, k
    <3>2. j \in 1..Len(out) /\ out[j] = u[j]
      BY <1>14
    <3> QED  BY <1>12, <3>1, <3>2 DEF k
  <2>2. CASE a[i].role \notin {"system", "developer"}
    <3>1. PICK j \in 1..l : q[j] = i
      BY <1>6, <1>11, <2>2 DEF Picks, l
    <3>2. j + k \in 1..Len(out) /\ ~(j + k <= k) /\ (j + k) - k = j
      BY <1>14
    <3>3. out[j + k] = v[j]
      BY <1>14, <3>2
    <3> QED  BY <1>13, <3>1, <3>2, <3>3 DEF l
  <2> QED  BY <2>1, <2>2
<1>19. Asks(out, a)
  BY <1>14, <1>16, <1>17, <1>18 DEF Asks, n
<1> QED  BY <1>3, <1>19

----------------------------------------------------------------------------
(* All plugins.                                                            *)

(* The request stays, and what is sent is what the plugin makes of it, as  *)
(* the client sent it or as the host has had it translated.                *)
HistoriesInv ==
    /\ sender \in Senders /\ translated \in BOOLEAN /\ tooled \in BOOLEAN /\ allowance \in Allowances
    /\ Request(asked) /\ (sender # "trae" => allowance = 0 /\ ChatShaped(asked))
    /\ ~translated => history = asked
    /\ translated =>
          \/ sender = "trae" /\ history = TraeTranslate(asked)
          \/ sender = "raccoon" /\ history = NormaliseMessages(asked)
    /\ \/ turn = Unsent
       \/ turn = [outcome |-> "refused", messages |-> <<>>]
       \/ turn = [outcome |-> "sent", messages |-> Prepared(history)]

LEMMA NumberedIs == ASSUME NEW h \in Seq(Messages) PROVE Request(Numbered(h))
<1> DEFINE a == Numbered(h)
           n == Len(h)
<1>1. n \in Nat /\ DOMAIN h = 1..n
  OBVIOUS
<1>2. a = [i \in 1..n |-> [h[i] EXCEPT !.at = i]]
  BY <1>1 DEF Numbered
<1>3. ASSUME NEW i \in 1..n PROVE a[i] \in Messages /\ a[i].at = i
  <2> DEFINE m == h[i]
             e == [m EXCEPT !.at = i]
  <2>1. m \in Messages /\ a[i] = e /\ i \in Nat
    BY <1>1, <1>2
  <2> HIDE DEF m, a
  <2>2. e.at = i /\ e.role = m.role /\ e.calls = m.calls /\ e.answers = m.answers
    BY <2>1 DEF Messages
  <2>3. e \in [role : Roles, words : BOOLEAN, thoughts : BOOLEAN, calls : Seq(Callers),
               answers : STRING \union {NoCall}, image : BOOLEAN, at : Nat]
    BY <2>1 DEF Messages
  <2>4. (m.calls # <<>> => m.role = "assistant") /\ (m.answers # NoCall => m.role \in {"user", "tool"})
    BY <2>1, MessageIs
  <2> HIDE DEF e
  <2>5. e \in Messages
    BY <2>2, <2>3, <2>4 DEF Messages
  <2> QED  BY <2>1, <2>2, <2>5
<1>4. a = [i \in 1..n |-> a[i]]
  BY <1>2
<1> HIDE DEF a
<1>5. a \in Seq(Messages) /\ Len(a) = n
  BY <1>1, <1>3, <1>4
<1> QED  BY <1>3, <1>5 DEF Request, a

LEMMA InitIsMade == HistoriesInit => HistoriesInv
<1> SUFFICES ASSUME HistoriesInit PROVE HistoriesInv
  OBVIOUS
<1>1. Request(asked)
  <2>1. PICK h \in ClientHistories : asked = Numbered(h)
    BY DEF HistoriesInit, Requested
  <2>2. h \in Seq(Messages)
    BY HistoriesAssumption
  <2> QED  BY <2>1, <2>2, NumberedIs
<1>2. sender # "trae" => ChatShaped(asked)
  <2>1. DOMAIN asked = 1..Len(asked)
    BY <1>1 DEF Request
  <2> QED  BY <2>1 DEF HistoriesInit, InShape, ChatShaped
<1> QED  BY <1>1, <1>2 DEF HistoriesInit, HistoriesInv

LEMMA StepIsMade == HistoriesInv /\ [HistoriesNext]_historiesVars => HistoriesInv'
<1> SUFFICES ASSUME HistoriesInv, [HistoriesNext]_historiesVars PROVE HistoriesInv'
  OBVIOUS
<1>1. CASE Translate
  <2>1. history = asked
    BY <1>1 DEF HistoriesInv, Translate
  <2> QED  BY <1>1, <2>1 DEF HistoriesInv, Translate
<1>2. CASE Send
  <2>1. Prepared(history)' = Prepared(history)
    BY <1>2 DEF Send, Prepared, TraePrepare, CodeArtsMessages
  <2>2. \/ turn' = [outcome |-> "refused", messages |-> <<>>]
        \/ turn' = [outcome |-> "sent", messages |-> Prepared(history)']
    BY <1>2, <2>1 DEF Send
  <2> QED  BY <1>2, <2>2 DEF HistoriesInv, Send
<1>3. CASE UNCHANGED historiesVars
  <2>1. Prepared(history)' = Prepared(history)
    BY <1>3 DEF historiesVars, Prepared, TraePrepare, CodeArtsMessages
  <2> QED  BY <1>3, <2>1 DEF HistoriesInv, historiesVars
<1> QED  BY <1>1, <1>2, <1>3 DEF HistoriesNext

(* What every plugin sends.                                                *)
Trae(out, a, max) ==
    /\ MadeOf(out, a) /\ SaysAll(out, a, max)
    /\ \A j \in 1..Len(out) : ToSet(out[j].calls) \subseteq Named
    /\ max = 0 => SendsBatches(out, a)
    /\ max = 0 /\ NamesCalls(a) => CallsOf(out) = AnsweredIds(out)
    /\ NamesCalls(a) => out = TrimTraeHistory(TraeTranslate(a), max)

LEMMA SentIs ==
  ASSUME HistoriesInv, turn = [outcome |-> "sent", messages |-> Prepared(history)]
  PROVE  /\ sender = "trae" => Trae(Sent, asked, allowance)
         /\ sender = "raccoon" => Pairs(Sent, asked) /\ Sent = NormaliseMessages(asked)
         /\ sender = "codebuddy" => Pairs(Sent, asked)
         /\ sender \in {"cline", "loomy", "lobsterai", "codearts", "atomcode"} => Forwards(Sent, asked)
         /\ sender = "qoder" => Asks(Sent, asked)
<1>1. Sent = Prepared(history)
  BY DEF Sent
<1>2. Request(asked)
  BY DEF HistoriesInv
<1>3. sender \notin {"trae", "raccoon"} => history = asked
  BY DEF HistoriesInv
<1>4. sender # "trae" => ChatShaped(asked)
  BY DEF HistoriesInv
<1>5. CASE sender = "trae"
  <2>1. Sent = TraeSent(history, allowance)
    BY <1>1, <1>5, Zenon DEF Prepared, TraePrepare, TraeSent
  <2>2. history \in {asked, TraeTranslate(asked)} /\ allowance \in Nat
    BY <1>5, HistoriesAssumption DEF HistoriesInv
  <2> DEFINE a == asked
             h == history
             max == allowance
             out == TraeSent(h, max)
  <2> HIDE DEF a, h, max
  <2>3. /\ MadeOf(out, a) /\ SaysAll(out, a, max)
        /\ \A j \in 1..Len(out) : ToSet(out[j].calls) \subseteq Named
        /\ max = 0 => SendsBatches(out, a)
        /\ max = 0 /\ NamesCalls(a) => CallsOf(out) = AnsweredIds(out)
        /\ NamesCalls(a) => out = TrimTraeHistory(TraeTranslate(a), max)
    <3>1. Request(a) /\ h \in {a, TraeTranslate(a)} /\ max \in Nat
      BY <1>2, <2>2 DEF a, h, max
    <3> QED  BY <3>1, TraeSends
  <2> HIDE DEF out
  <2>4. Trae(out, a, max)
    BY <2>3 DEF Trae
  <2> QED  BY <1>5, <2>1, <2>4 DEF out, a, h, max
<1>6. CASE sender = "raccoon"
  <2>1. Sent = NormaliseMessages(history)
    BY <1>1, <1>6 DEF Prepared
  <2>2. history \in {asked, NormaliseMessages(asked)} /\ ChatShaped(asked)
    BY <1>6 DEF HistoriesInv
  <2> QED  BY <1>2, <1>6, <2>1, <2>2, RaccoonSends
<1>7. CASE sender = "codebuddy"
  <2>1. Sent = NormalizeMessages(asked)
    BY <1>1, <1>3, <1>7 DEF Prepared
  <2> QED  BY <1>2, <1>4, <1>7, <2>1, BuddySends
<1>8. CASE sender \in {"cline", "loomy", "lobsterai"}
  <2>1. Sent = Demotes(asked)
    BY <1>1, <1>3, <1>8 DEF Prepared, ClineMessages, LoomyMessages, DemoteDeveloperMessages, Demotes
  <2>2. Forwards(Sent, asked)
    BY <1>2, <2>1, DemotesForwards
  <2> QED  BY <1>8, <2>2
<1>9. CASE sender = "codearts"
  <2>1. Sent = IF tooled THEN InsertDsmlPrompt(Demotes(asked)) ELSE Demotes(asked)
    BY <1>1, <1>3, <1>9 DEF Prepared, CodeArtsMessages, Demotes
  <2>2. Forwards(Sent, asked)
    BY <1>2, <2>1, DemotesForwards, PromptForwards
  <2> QED  BY <1>9, <2>2
<1>10. CASE sender = "atomcode"
  <2>1. Sent = asked
    BY <1>1, <1>3, <1>10 DEF Prepared, GatewayMessages
  <2>2. MadeOf(asked, asked) /\ \A i \in 1..Len(asked) : asked[i].at = i
    BY <1>2, RequestIsItself DEF Request
  <2>3. SaysAll(asked, asked, 0)
    BY <2>2 DEF SaysAll
  <2> QED  BY <1>10, <2>1, <2>2, <2>3 DEF Forwards
<1>11. CASE sender = "qoder"
  <2>1. Sent = InferAsk(asked)
    BY <1>1, <1>3, <1>11 DEF Prepared
  <2> QED  BY <1>2, <1>11, <2>1, QoderAsks
<1> QED  BY <1>5, <1>6, <1>7, <1>8, <1>9, <1>10, <1>11

SenderNames == {"atomcode", "cline", "codearts", "codebuddy", "lobsterai", "loomy", "qoder",
                "raccoon", "trae"}

LEMMA SendersAre == HistoriesInv => sender \in SenderNames
BY HistoriesAssumption DEF HistoriesInv, SenderNames

(* What is in a history made of a request.                                 *)
LEMMA MadeIsTyped ==
  ASSUME NEW a, Request(a), NEW h, MadeOf(h, a)
  PROVE  h \in Seq(Messages) /\ \A i \in DOMAIN h : h[i].at <= Len(a)
<1>1. h \in Seq(Messages) /\ a \in Seq(Messages)
  BY DEF MadeOf, Request
<1>2. DOMAIN h = 1..Len(h) /\ Len(a) \in Nat
  BY <1>1
<1>3. \A i \in 1..Len(h) : h[i].at = 0 \/ h[i].at \in 1..Len(a)
  BY DEF MadeOf, Kin
<1> QED  BY <1>1, <1>2, <1>3

LEMMA InvIsTypedHistories == HistoriesInv => HistoriesTypeOK
<1> SUFFICES ASSUME HistoriesInv PROVE HistoriesTypeOK
  OBVIOUS
<1> DEFINE Typed(h) == h \in Seq(Messages) /\ \A i \in DOMAIN h : h[i].at <= Len(asked)
<1>1. Request(asked)
  BY DEF HistoriesInv
<1>2. MadeOf(asked, asked)
  BY <1>1, RequestIsItself DEF Request
<1>3. Typed(asked)
  BY <1>1, <1>2, MadeIsTyped
<1>4. Typed(history)
  <2>1. CASE history = asked
    BY <1>3, <2>1
  <2>2. CASE sender = "trae" /\ history = TraeTranslate(asked)
    <3>1. Trae(TraeSent(asked, 0), asked, 0)
      <4> DEFINE out == TraeSent(asked, 0)
      <4>1. 0 \in Nat /\ asked \in {asked, TraeTranslate(asked)}
        OBVIOUS
      <4> QED  BY <1>1, <4>1, TraeSends DEF Trae
    <3>2. MadeOf(TraeSent(asked, 0), asked)
      BY <3>1 DEF Trae
    <3>3. TraeSent(asked, 0) = TraeTranslate(asked)
      BY UntrimmedIs DEF TraeSent, TraeTranslate
    <3> QED  BY <1>1, <2>2, <3>2, <3>3, MadeIsTyped
  <2>3. CASE sender = "raccoon" /\ history = NormaliseMessages(asked)
    <3>1. ChatShaped(asked) /\ asked \in {asked, NormaliseMessages(asked)}
      BY <2>3 DEF HistoriesInv
    <3>2. MadeOf(NormaliseMessages(asked), asked)
      BY <1>1, <3>1, RaccoonSends DEF Pairs
    <3> QED  BY <1>1, <2>3, <3>2, MadeIsTyped
  <2> QED  BY <2>1, <2>2, <2>3 DEF HistoriesInv
<1>5. turn.outcome \in {"none", "sent", "refused"} /\ Typed(turn.messages)
  <2>1. CASE turn = Unsent \/ turn = [outcome |-> "refused", messages |-> <<>>]
    <3>1. turn.messages = <<>> /\ turn.outcome \in {"none", "refused"}
      BY <2>1 DEF Unsent
    <3> QED  BY <3>1
  <2>2. CASE turn = [outcome |-> "sent", messages |-> Prepared(history)]
    <3>1. turn.outcome = "sent" /\ turn.messages = Sent
      BY <2>2 DEF Sent
    <3>2. CASE sender # "qoder"
      <4>1. MadeOf(Sent, asked)
        BY <2>2, <3>2, SentIs, SendersAre DEF SenderNames, Trae, Pairs, Forwards
      <4> QED  BY <1>1, <3>1, <4>1, MadeIsTyped
    <3>3. CASE sender = "qoder"
      <4>1. Asks(Sent, asked)
        BY <2>2, <3>3, SentIs
      <4>2. Sent \in Seq(Messages) /\ \A j \in 1..Len(Sent) : Sent[j].at \in 1..Len(asked)
        BY <4>1 DEF Asks
      <4>3. DOMAIN Sent = 1..Len(Sent)
        BY <4>2
      <4> QED  BY <3>1, <4>2, <4>3
    <3> QED  BY <3>2, <3>3
  <2> QED  BY <2>1, <2>2 DEF HistoriesInv
<1> QED  BY <1>3, <1>4, <1>5, Zenon DEF HistoriesInv, HistoriesTypeOK

LEMMA AllNamedIs == ASSUME Request(asked), AllNamed PROVE NamesCalls(asked)
<1>1. asked \in Seq(Messages) /\ DOMAIN asked = 1..Len(asked)
  BY DEF Request
<1>2. ASSUME NEW i \in 1..Len(asked), NEW c \in ToSet(asked[i].calls) PROVE c \in Named
  <2>1. asked[i] \in Messages
    BY <1>1
  <2>2. asked[i].calls \in Seq(Callers)
    BY <2>1, MessageIs
  <2>3. c \in Callers
    BY <1>2, <2>2 DEF ToSet
  <2>4. c.named
    BY <1>1, <1>2 DEF AllNamed
  <2> QED  BY <2>3, <2>4 DEF Named
<1> QED  BY <1>2 DEF NamesCalls

(* An answered batch, as the property has it.                              *)
LEMMA BatchIs ==
  ASSUME NEW i \in DOMAIN asked, asked[i].calls # <<>>,
         \A c \in ToSet(asked[i].calls) : c.named /\ c.id \in AnsweredIds(asked)
  PROVE  Answered(asked[i], asked)
BY DEF Answered

(* The three promises of those that pair.                                  *)
LEMMA PairsArePaired ==
  ASSUME HistoriesInv, turn = [outcome |-> "sent", messages |-> Prepared(history)],
         sender \in Pairing
  PROVE  /\ \A j \in 1..Len(Sent) : ToSet(Sent[j].calls) \subseteq Named
         /\ allowance = 0 => SendsBatches(Sent, asked)
         /\ allowance = 0 /\ (sender = "trae" => AllNamed) => CallsOf(Sent) = AnsweredIds(Sent)
         /\ Sent \in Seq(Messages)
<1>1. Request(asked)
  BY DEF HistoriesInv
<1>2. CASE sender = "trae"
  <2>1. Trae(Sent, asked, allowance)
    BY <1>2, SentIs
  <2>2. AllNamed => NamesCalls(asked)
    BY <1>1, AllNamedIs
  <2> QED  BY <1>2, <2>1, <2>2 DEF Trae, MadeOf
<1>3. CASE sender \in {"raccoon", "codebuddy"}
  <2>1. Pairs(Sent, asked)
    BY <1>3, SentIs
  <2> QED  BY <2>1 DEF Pairs, MadeOf
<1> QED  BY <1>2, <1>3 DEF Pairing

LEMMA SentAnswersStand ==
  ASSUME HistoriesInv, turn = [outcome |-> "sent", messages |-> Prepared(history)]
  PROVE  AnswersStand
<1>1. CASE sender = "qoder"
  <2>1. Asks(Sent, asked)
    BY <1>1, SentIs
  <2>2. \A j \in DOMAIN Sent : Sent[j].answers = NoCall
    BY <2>1 DEF Asks
  <2> QED  BY <2>2 DEF AnswersStand
<1>2. CASE sender # "qoder"
  <2>1. MadeOf(Sent, asked)
    BY <1>2, SentIs, SendersAre DEF SenderNames, Trae, Pairs, Forwards
  <2>2. DOMAIN Sent = 1..Len(Sent) /\ Standing(Sent, asked)
    BY <2>1 DEF MadeOf
  <2> QED  BY <2>2 DEF AnswersStand, Standing
<1> QED  BY <1>1, <1>2

LEMMA InvIsPaired == HistoriesInv => PairsAreSent
<1> SUFFICES ASSUME HistoriesInv PROVE PairsAreSent
  OBVIOUS
<1>1. CASE turn = Unsent \/ turn = [outcome |-> "refused", messages |-> <<>>]
  <2>1. Sent = <<>> /\ turn.outcome # "sent"
    BY <1>1 DEF Unsent, Sent
  <2>2. DOMAIN <<>> = {}
    OBVIOUS
  <2>3. DOMAIN Sent = {}
    BY <2>1, <2>2
  <2>4. SentCalls = {} /\ AnsweredIds(Sent) = {}
    BY <2>3 DEF SentCalls, AnsweredIds
  <2> QED  BY <2>1, <2>3, <2>4 DEF PairsAreSent, PairsAreWhole, AnswersStand
<1>2. CASE turn = [outcome |-> "sent", messages |-> Prepared(history)]
  <2>1. AnswersStand
    BY <1>2, SentAnswersStand
  <2>2. CASE sender \notin Pairing
    BY <2>1, <2>2 DEF PairsAreSent, PairsAreWhole
  <2>3. CASE sender \in Pairing
    <3>1. /\ \A j \in 1..Len(Sent) : ToSet(Sent[j].calls) \subseteq Named
          /\ allowance = 0 => SendsBatches(Sent, asked)
          /\ allowance = 0 /\ (sender = "trae" => AllNamed) => CallsOf(Sent) = AnsweredIds(Sent)
          /\ Sent \in Seq(Messages)
      BY <1>2, <2>3, PairsArePaired
    <3>2. DOMAIN Sent = 1..Len(Sent)
      BY <3>1
    <3>3. SentCalls = CallsOf(Sent)
      BY DEF SentCalls, CallsOf
    <3>4. \A i \in DOMAIN Sent : \A c \in ToSet(Sent[i].calls) : c.named
      BY <3>1, <3>2 DEF Named
    <3>5. ASSUME allowance = 0, NEW i \in DOMAIN asked, asked[i].calls # <<>>,
                 \A c \in ToSet(asked[i].calls) : c.named /\ c.id \in AnsweredIds(asked)
          PROVE  \E j \in DOMAIN Sent : Sent[j].at = i /\ Sent[j].calls = asked[i].calls
      <4>1. Answered(asked[i], asked)
        BY <3>5, BatchIs
      <4>2. i \in 1..Len(asked)
        BY DEF HistoriesInv, Request
      <4> QED  BY <3>1, <3>2, <3>5, <4>1, <4>2 DEF SendsBatches
    <3>6. PairsAreWhole
      BY <3>1, <3>3, <3>4, <3>5 DEF PairsAreWhole
    <3> QED  BY <2>1, <3>6 DEF PairsAreSent
  <2> QED  BY <2>2, <2>3
<1> QED  BY <1>1, <1>2 DEF HistoriesInv

(* All but qoder.                                                          *)
LEMMA MadeSaysAll ==
  ASSUME HistoriesInv, turn = [outcome |-> "sent", messages |-> Prepared(history)],
         sender # "qoder"
  PROVE  MadeOf(Sent, asked) /\ SaysAll(Sent, asked, allowance)
<1>1. CASE sender = "trae"
  <2>1. Trae(Sent, asked, allowance)
    BY <1>1, SentIs
  <2> QED  BY <2>1 DEF Trae
<1>2. CASE sender # "trae"
  <2>1. MadeOf(Sent, asked) /\ SaysAll(Sent, asked, 0)
    BY <1>2, SentIs, SendersAre DEF SenderNames, Pairs, Forwards
  <2>2. allowance = 0
    BY <1>2 DEF HistoriesInv
  <2> QED  BY <2>1, <2>2
<1> QED  BY <1>1, <1>2

LEMMA InvSaysAll == HistoriesInv => WordsAreSent
<1> SUFFICES ASSUME HistoriesInv, turn.outcome = "sent" PROVE WordsAreSent
  BY DEF WordsAreSent
<1>1. turn = [outcome |-> "sent", messages |-> Prepared(history)]
  BY DEF HistoriesInv, Unsent
<1>2. Request(asked) /\ DOMAIN asked = 1..Len(asked)
  BY DEF HistoriesInv, Request
<1>3. /\ sender # "qoder" => MadeOf(Sent, asked) /\ SaysAll(Sent, asked, allowance)
      /\ sender = "qoder" => Asks(Sent, asked)
  BY <1>1, MadeSaysAll, SentIs
<1>4. DOMAIN Sent = 1..Len(Sent)
  BY <1>3 DEF MadeOf, Asks
<1>5. ASSUME NEW i \in DOMAIN Sent, NEW j \in DOMAIN Sent,
             i < j /\ Sent[i].at # 0 /\ Sent[j].at # 0, sender = "qoder" => Sent[i].role # "system"
      PROVE  \/ Sent[i].at < Sent[j].at
             \/ Sent[i].at = Sent[j].at /\ Sent[j].role = "tool" /\ asked[Sent[i].at].role = "user"
  <2>1. CASE sender = "qoder"
    BY <1>3, <1>4, <1>5, <2>1 DEF Asks
  <2>2. CASE sender # "qoder"
    <3>1. InOrder(Sent, asked)
      BY <1>3, <2>2 DEF MadeOf
    <3> QED  BY <1>4, <1>5, <3>1 DEF InOrder
  <2> QED  BY <2>1, <2>2
<1>6. ASSUME NEW i \in DOMAIN asked, Outspoken(asked[i]), SentAt(i) = {},
             ~(sender = "qoder" /\ ~asked[i].words)
      PROVE  /\ allowance # 0 /\ asked[i].role \notin {"system", "developer"}
             /\ \A j \in DOMAIN Sent : Sent[j].at < i => Sent[j].role = "system"
  <2>1. ~ \E j \in 1..Len(Sent) : Sent[j].at = i
    BY <1>4, <1>6 DEF SentAt
  <2>2. i \in 1..Len(asked)
    BY <1>2
  <2>3. CASE sender = "qoder"
    BY <1>3, <1>6, <2>1, <2>2, <2>3 DEF Asks
  <2>4. CASE sender # "qoder"
    <3>1. SaysAll(Sent, asked, allowance)
      BY <1>3, <2>4
    <3> QED  BY <1>4, <1>6, <2>1, <2>2, <3>1 DEF SaysAll
  <2> QED  BY <2>3, <2>4
<1>7. sender = "raccoon" => Sent = NormaliseMessages(asked)
  BY <1>1, SentIs
<1>8. sender = "trae" /\ AllNamed => Sent = TrimTraeHistory(TraeTranslate(asked), allowance)
  <2>1. AllNamed => NamesCalls(asked)
    BY <1>2, AllNamedIs
  <2> QED  BY <1>1, <2>1, SentIs DEF Trae
<1> QED  BY <1>5, <1>6, <1>7, <1>8 DEF WordsAreSent

(* What is sent is always made of the request, as the invariant has it.    *)
THEOREM HistoriesAreMade == HistoriesSpec => []HistoriesInv
BY InitIsMade, StepIsMade, PTL DEF HistoriesSpec

(* Every plugin's messages keep their shape, whatever it does with them,   *)
(* and each stands for one of the request or for none.                     *)
THEOREM HistoriesTypeIsKept == HistoriesSpec => []HistoriesTypeOK
BY HistoriesAreMade, InvIsTypedHistories, PTL

(* Of any history, however its calls and answers lie: the plugins that     *)
(* pair them send no call without its answer and no answer without its     *)
(* call, and in what any of the nine sends an answer still stands with the *)
(* call it stood with (trae's trim, codebuddy's images and codearts'       *)
(* prompt put nothing between them).                                       *)
THEOREM PairsStayTogether == HistoriesSpec => []PairsAreSent
BY HistoriesAreMade, InvIsPaired, PTL

(* Of any history: nobody's words are lost, doubled or put in another      *)
(* order, but for the oldest that trae's trim drops, and raccoon's and     *)
(* trae's executors send the same whether the host has translated or not.  *)
THEOREM WordsStayWhole == HistoriesSpec => []WordsAreSent
BY HistoriesAreMade, InvSaysAll, PTL
=============================================================================
