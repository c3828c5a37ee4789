----------------------------- MODULE ChatsProofs -----------------------------
(***************************************************************************)
(* Requests, then the streams that answer them. For any plugins, any number*)
(* of requests of one account and anything the vendor may answer: how often*)
(* a request is sent and for what reason, who is blamed, and that a renewed*)
(* credential is not lost between requests. However long a stream is and   *)
(* however the vendor cuts its tool calls: the calls handed on are fit to  *)
(* make, stay the same to whoever looks, and a stream that broke off or    *)
(* failed is told as such.                                                 *)
(***************************************************************************)
EXTENDS MCRequests, AuthRefreshProofs, FiniteSetTheorems, WellFoundedInduction,
        NaturalsInduction, TLAPS

(* A set of numbers has a least one.                                        *)
LEMMA Least == ASSUME NEW T \in SUBSET Nat, T # {} PROVE \E n \in T : \A m \in T : n <= m
<1>1. PICK n \in T : \A m \in T : ~(<<m, n>> \in OpToRel(<, Nat))
  BY NatLessThanWellFounded, WFMin
<1>2. \A m \in T : ~(m < n)
  BY <1>1 DEF OpToRel
<1> QED  BY <1>2

----------------------------------------------------------------------------
(* Joining sequences.                                                      *)

(* Induction over a set of numbers, from the least that is not in it.      *)
LEMMA AllNumbers ==
  ASSUME NEW T, 0 \in T, \A n \in Nat : n \in T => n + 1 \in T PROVE Nat \subseteq T
<1> SUFFICES ASSUME Nat \ T # {} PROVE FALSE
  OBVIOUS
<1>1. PICK n \in Nat \ T : \A m \in Nat \ T : n <= m
  BY Least
<1>2. n # 0 /\ n - 1 \in Nat
  BY <1>1
<1>3. n - 1 \in T
  BY <1>1, <1>2
<1> QED  BY <1>1, <1>2, <1>3

(* f joins the first n sequences of s, one after the other.                *)
Joins(f, s, n) == f = [i \in 1..n |-> IF i = 1 THEN s[i] ELSE f[i - 1] \o s[i]]

LEMMA JoinsExist == ASSUME NEW s, NEW n \in Nat PROVE \E f : Joins(f, s, n)
<1> DEFINE T == {m \in Nat : \E f : Joins(f, s, m)}
<1>1. 0 \in T
  <2>1. Joins([i \in 1..0 |-> s[i]], s, 0)
    BY DEF Joins
  <2> QED  BY <2>1
<1>2. ASSUME NEW m \in Nat, m \in T PROVE m + 1 \in T
  <2>1. PICK f : Joins(f, s, m)
    BY <1>2
  <2> DEFINE last == IF m = 0 THEN s[1] ELSE f[m] \o s[m + 1]
             g == [i \in 1..m + 1 |-> IF i = m + 1 THEN last ELSE f[i]]
  <2>2. \A i \in 1..m : f[i] = IF i = 1 THEN s[i] ELSE f[i - 1] \o s[i]
    BY <2>1, Zenon DEF Joins
  <2>3. ASSUME NEW i \in 1..m + 1 PROVE g[i] = IF i = 1 THEN s[i] ELSE g[i - 1] \o s[i]
    <3>1. CASE i = m + 1
      <4>1. i # 1 => m # 0 /\ i - 1 = m /\ g[i - 1] = f[m]
        BY <3>1
      <4> QED  BY <3>1, <4>1
    <3>2. CASE i # m + 1
      <4>1. i \in 1..m /\ g[i] = f[i]
        BY <3>2
      <4>2. i # 1 => i - 1 \in 1..m + 1 /\ i - 1 # m + 1 /\ g[i - 1] = f[i - 1]
        BY <3>2
      <4> HIDE DEF g
      <4> QED  BY <2>2, <4>1, <4>2
    <3> QED  BY <3>1, <3>2
  <2>4. Joins(g, s, m + 1)
    <3>1. g = [i \in 1..m + 1 |-> g[i]]
      OBVIOUS
    <3> HIDE DEF g
    <3>2. [i \in 1..m + 1 |-> g[i]] = [i \in 1..m + 1 |-> IF i = 1 THEN s[i] ELSE g[i - 1] \o s[i]]
      BY <2>3, Zenon
    <3> QED  BY <3>1, <3>2, Zenon DEF Joins
  <2> QED  BY <2>4
<1>3. Nat \subseteq T
  <2> HIDE DEF T
  <2> QED  BY <1>1, <1>2, AllNumbers
<1> QED  BY <1>3

LEMMA JoinsIs ==
  ASSUME NEW s, NEW n \in Nat, NEW f, Joins(f, s, n), NEW i \in 1..n
  PROVE  f[i] = IF i = 1 THEN s[i] ELSE f[i - 1] \o s[i]
BY Zenon DEF Joins

(* Longer joins begin like shorter ones of the same sequences.             *)
LEMMA JoinsAgree ==
  ASSUME NEW s, NEW t, NEW n \in Nat, NEW m \in Nat, n <= m, \A i \in 1..n : s[i] = t[i],
         NEW f, Joins(f, s, n), NEW g, Joins(g, t, m)
  PROVE  \A i \in 1..n : f[i] = g[i]
<1> DEFINE T == {k \in Nat : k \in 1..n => f[k] = g[k]}
<1>1. 0 \in T
  OBVIOUS
<1>2. ASSUME NEW k \in Nat, k \in T PROVE k + 1 \in T
  <2> SUFFICES ASSUME k + 1 \in 1..n PROVE f[k + 1] = g[k + 1]
    OBVIOUS
  <2>1. k + 1 \in 1..m /\ s[k + 1] = t[k + 1]
    OBVIOUS
  <2>2. f[k + 1] = IF k + 1 = 1 THEN s[k + 1] ELSE f[k + 1 - 1] \o s[k + 1]
    BY JoinsIs
  <2>3. g[k + 1] = IF k + 1 = 1 THEN t[k + 1] ELSE g[k + 1 - 1] \o t[k + 1]
    BY <2>1, JoinsIs
  <2>4. k + 1 - 1 = k /\ (k + 1 # 1 => k \in 1..n)
    OBVIOUS
  <2> QED  BY <1>2, <2>1, <2>2, <2>3, <2>4
<1>3. Nat \subseteq T
  <2> HIDE DEF T
  <2> QED  BY <1>1, <1>2, AllNumbers
<1> QED  BY <1>3

LEMMA JoinsTyped ==
  ASSUME NEW S, NEW s \in Seq(Seq(S)), NEW f, Joins(f, s, Len(s))
  PROVE  \A i \in 1..Len(s) : f[i] \in Seq(S)
<1> DEFINE T == {k \in Nat : k \in 1..Len(s) => f[k] \in Seq(S)}
<1>1. 0 \in T
  OBVIOUS
<1>2. ASSUME NEW k \in Nat, k \in T PROVE k + 1 \in T
  <2> SUFFICES ASSUME k + 1 \in 1..Len(s) PROVE f[k + 1] \in Seq(S)
    OBVIOUS
  <2>1. f[k + 1] = IF k + 1 = 1 THEN s[k + 1] ELSE f[k + 1 - 1] \o s[k + 1]
    BY JoinsIs
  <2>2. k + 1 - 1 = k /\ (k + 1 # 1 => k \in 1..Len(s)) /\ s[k + 1] \in Seq(S)
    OBVIOUS
  <2>3. CASE k + 1 = 1
    BY <2>1, <2>2, <2>3
  <2>4. CASE k + 1 # 1
    BY <1>2, <2>1, <2>2, <2>4
  <2> QED  BY <2>3, <2>4
<1>3. Nat \subseteq T
  <2> HIDE DEF T
  <2> QED  BY <1>1, <1>2, AllNumbers
<1> QED  BY <1>3

LEMMA FlattenIsAJoin ==
  ASSUME NEW S, NEW s \in Seq(Seq(S)), s # <<>>
  PROVE  \E f : Joins(f, s, Len(s)) /\ FlattenSeq(s) = f[Len(s)]
<1> DEFINE f == CHOOSE g : Joins(g, s, Len(s))
<1>1. Joins(f, s, Len(s))
  <2>1. Len(s) \in Nat
    OBVIOUS
  <2> QED  BY <2>1, JoinsExist, Zenon
<1>2. Len(s) # 0
  OBVIOUS
<1>3. FlattenSeq(s) = f[Len(s)]
  BY <1>2, Zenon DEF FlattenSeq, Joins
<1> QED  BY <1>1, <1>3

LEMMA LongerIs ==
  ASSUME NEW S, NEW s \in Seq(S), NEW x \in S
  PROVE  /\ Append(s, x) \in Seq(S) /\ Append(s, x) # <<>> /\ Len(Append(s, x)) = Len(s) + 1
         /\ Append(s, x)[Len(s) + 1] = x /\ \A i \in 1..Len(s) : Append(s, x)[i] = s[i]
OBVIOUS

(* What is joined to more is what was joined before, and the new.          *)
LEMMA FlattenAppends ==
  ASSUME NEW S, NEW s \in Seq(Seq(S)), NEW x \in Seq(S)
  PROVE  /\ FlattenSeq(s) \in Seq(S)
         /\ FlattenSeq(Append(s, x)) = FlattenSeq(s) \o x
<1> DEFINE t == Append(s, x)
<1>1. t \in Seq(Seq(S)) /\ t # <<>> /\ Len(t) = Len(s) + 1
  BY LongerIs
<1>2. t[Len(t)] = x /\ \A i \in 1..Len(s) : t[i] = s[i]
  BY LongerIs
<1> HIDE DEF t
<1>3. PICK g : Joins(g, t, Len(t)) /\ FlattenSeq(t) = g[Len(t)]
  BY <1>1, FlattenIsAJoin
<1>4. g[Len(t)] = IF Len(t) = 1 THEN x ELSE g[Len(t) - 1] \o x
  <2>1. Len(t) \in 1..Len(t) /\ Len(t) \in Nat
    BY <1>1
  <2> QED  BY ZenonT(30), <1>2, <1>3, <2>1, JoinsIs
<1>5. CASE s = <<>>
  <2>1. FlattenSeq(s) = <<>>
    BY <1>5 DEF FlattenSeq
  <2>2. FlattenSeq(t) = x /\ <<>> \o x = x /\ <<>> \in Seq(S)
    BY <1>1, <1>3, <1>4, <1>5
  <2> QED  BY <2>1, <2>2, Zenon DEF t
<1>6. CASE s # <<>>
  <2>1. PICK f : Joins(f, s, Len(s)) /\ FlattenSeq(s) = f[Len(s)]
    BY <1>6, FlattenIsAJoin
  <2>2. Len(s) \in 1..Len(s) /\ Len(t) \in Nat /\ Len(s) \in Nat /\ Len(s) <= Len(t)
    BY <1>1, <1>6
  <2>3. \A i \in 1..Len(s) : f[i] = g[i]
    <3>1. \A i \in 1..Len(s) : s[i] = t[i]
      BY <1>2, Zenon
    <3>2. ASSUME NEW n \in Nat, NEW m \in Nat, n = Len(s), m = Len(t) PROVE \A i \in 1..n : f[i] = g[i]
      <4>1. n <= m /\ Joins(f, s, n) /\ Joins(g, t, m) /\ \A i \in 1..n : s[i] = t[i]
        BY <1>3, <2>1, <2>2, <3>1, <3>2
      <4> QED  BY SMTT(30), <4>1, JoinsAgree
    <3> QED  BY <2>2, <3>2
  <2>4. f[Len(s)] \in Seq(S)
    BY <2>1, <2>2, JoinsTyped
  <2>5. Len(t) # 1 /\ Len(t) - 1 = Len(s)
    BY <1>1, <2>2
  <2> QED  BY <1>3, <1>4, <2>1, <2>2, <2>3, <2>4, <2>5 DEF t
<1> QED  BY <1>5, <1>6

----------------------------------------------------------------------------
(* What is gathered from the frames, and what is passed on.                *)

Words == STRING \union {""}    \* the provers do not know that "" is a string
FrameRecords ==
    [what : {"text", "call", "finish", "error", "done", "junk"}, index : Nat, id : Words,
     name : Words, args : Seq(STRING), reason : Words]
CallRecords == [index : Nat, id : Words, name : Words, args : Seq(STRING)]
Gatherings ==
    [text : Nat, calls : Seq(CallRecords), reason : Words, done : BOOLEAN, failed : BOOLEAN,
     junk : BOOLEAN, lines : Nat, chunks : Nat]

StreamIsTyped ==
    /\ source \in Sources /\ body \in {"open", "ended", "broken"}
    /\ read \in Gatherings /\ before \in Gatherings /\ out \in Seq(FrameRecords)

FramesAreCounted ==
    /\ read.lines <= MaxFrames /\ read.chunks <= read.lines
    /\ read.text + Len(read.calls) <= read.chunks
    /\ before.lines <= read.lines
    /\ Len(out) <= read.lines

OneEach(calls) == \A j, k \in DOMAIN calls : calls[j].index = calls[k].index => j = k
OneCallPerIndex == source # "trae" => OneEach(read.calls)

CallAt(calls, index) == calls[Position(calls, index)]
Begun(f) == [index |-> f.index, id |-> f.id, name |-> f.name, args |-> f.args]

(* The answers that are known by name alone.                               *)
NamelessIsKept ==
    /\ source = "loomy" => \A k \in DOMAIN read.calls : read.calls[k].name # NoName
    /\ source \in {"raccoon", "trae"} =>
         \A k \in DOMAIN out : out[k].what = "call" => out[k].name # NoName

(* Where the chunks and the calls are the same fragments, joined.          *)
Joining ==
    \/ source \in {"codearts", "cline", "qoder", "raccoon"}
    \/ source = "loomy" /\ ~Dropped
Shown(index) ==
    /\ Known(read.calls, index)
    /\ source = "raccoon" => CallAt(read.calls, index).name # NoName
Joined(chunks, index) ==
    FlattenSeq([k \in DOMAIN chunks |->
        IF IsFragment(chunks[k], index) THEN chunks[k].args ELSE <<>>])

ChunksJoin ==
    Joining => \A index \in Nat :
        Joined(out, index) = IF Shown(index) THEN CallAt(read.calls, index).args ELSE <<>>

(* A fragment passed on has its call, with a name and an id if it has them.*)
ChunksAreKnown ==
    Joining => \A k \in DOMAIN out :
        out[k].what = "call" =>
            /\ Known(read.calls, out[k].index)
            /\ out[k].name # NoName => CallAt(read.calls, out[k].index).name # NoName
            /\ out[k].id # NoId => CallAt(read.calls, out[k].index).id # NoId

(* codearts passes on every fragment of a call, that with its id too.      *)
CallsArePassedOn ==
    source = "codearts" => \A index \in Nat : Known(read.calls, index) =>
        /\ \E k \in DOMAIN out : IsFragment(out[k], index)
        /\ CallAt(read.calls, index).id # NoId =>
             \E k \in DOMAIN out : IsFragment(out[k], index) /\ out[k].id # NoId

StreamInv ==
    /\ StreamIsTyped /\ FramesAreCounted /\ OneCallPerIndex /\ NamelessIsKept
    /\ ChunksJoin /\ ChunksAreKnown /\ CallsArePassedOn

(* The call an index stands for is the only one that has it.               *)
LEMMA CallIs ==
  ASSUME NEW calls \in Seq(CallRecords), NEW i \in Nat, Known(calls, i)
  PROVE  /\ Position(calls, i) \in DOMAIN calls /\ calls[Position(calls, i)].index = i
         /\ CallAt(calls, i) \in CallRecords /\ CallAt(calls, i).index = i
         /\ \A k \in DOMAIN calls : OneEach(calls) /\ calls[k].index = i => k = Position(calls, i)
<1>1. Position(calls, i) \in DOMAIN calls /\ calls[Position(calls, i)].index = i
  BY Zenon DEF Known, Position
<1>2. CallAt(calls, i) \in CallRecords
  BY <1>1 DEF CallAt
<1> HIDE DEF CallAt
<1>3. CallAt(calls, i).index = i
  BY <1>1, Zenon DEF CallAt
<1> QED  BY <1>1, <1>2, <1>3, Zenon DEF OneEach

LEMMA MergedIs ==
  ASSUME NEW call \in CallRecords, NEW f \in FrameRecords
  PROVE  /\ Merged(call, f) \in CallRecords
         /\ Merged(call, f).index = call.index
         /\ Merged(call, f).args = call.args \o f.args
         /\ Merged(call, f).id = IF f.id # NoId THEN f.id ELSE call.id
         /\ Merged(call, f).name = IF f.name # NoName THEN f.name ELSE call.name
<1>1. call.args \o f.args \in Seq(STRING)
  BY DEF CallRecords, FrameRecords
<1> QED  BY <1>1 DEF Merged, CallRecords, FrameRecords

(* What a fragment does to the calls: nothing, one call more, or a call    *)
(* that grows.                                                             *)
LEMMA GatheredIs ==
  ASSUME NEW calls \in Seq(CallRecords), NEW f \in FrameRecords
  PROVE  /\ Gathered(calls, f) \in Seq(CallRecords)
         /\ Len(Gathered(calls, f)) \in {Len(calls), Len(calls) + 1}
         /\ \/ /\ source # "trae" /\ Known(calls, f.index)
               /\ Gathered(calls, f) =
                    [calls EXCEPT ![Position(calls, f.index)] = Merged(CallAt(calls, f.index), f)]
            \/ /\ source = "loomy" /\ f.name = NoName /\ ~Known(calls, f.index)
               /\ Gathered(calls, f) = calls
            \/ /\ source # "loomy" \/ f.name # NoName
               /\ source = "trae" \/ ~Known(calls, f.index)
               /\ Gathered(calls, f) = Append(calls, Begun(f))
<1>1. f.index \in Nat /\ Begun(f) \in CallRecords
  BY DEF Begun, CallRecords, FrameRecords
<1>2. CASE source # "trae" /\ Known(calls, f.index)
  <2>1. Gathered(calls, f) =
          [calls EXCEPT ![Position(calls, f.index)] = Merged(CallAt(calls, f.index), f)]
    BY <1>2 DEF Gathered, CallAt
  <2>2. Position(calls, f.index) \in DOMAIN calls /\ CallAt(calls, f.index) \in CallRecords
    BY <1>1, <1>2, CallIs
  <2>3. Merged(CallAt(calls, f.index), f) \in CallRecords
    BY <2>2, MergedIs
  <2>4. Gathered(calls, f) \in Seq(CallRecords) /\ Len(Gathered(calls, f)) = Len(calls)
    BY <2>1, <2>2, <2>3
  <2> QED  BY <1>2, <2>1, <2>4
<1>3. CASE ~(source # "trae" /\ Known(calls, f.index)) /\ source = "loomy" /\ f.name = NoName
  <2>1. Gathered(calls, f) = calls
    BY <1>3 DEF Gathered
  <2> QED  BY <1>3, <2>1
<1>4. CASE ~(source # "trae" /\ Known(calls, f.index)) /\ ~(source = "loomy" /\ f.name = NoName)
  <2>1. Gathered(calls, f) = Append(calls, Begun(f))
    BY <1>4 DEF Gathered, Begun
  <2>2. Append(calls, Begun(f)) \in Seq(CallRecords) /\ Len(Append(calls, Begun(f))) = Len(calls) + 1
    BY <1>1, LongerIs
  <2> QED  BY <1>4, <2>1, <2>2
<1> QED  BY <1>2, <1>3, <1>4

(* The same by index.                                                      *)
LEMMA GatheredAt ==
  ASSUME NEW calls \in Seq(CallRecords), NEW f \in FrameRecords, OneEach(calls), source # "trae"
  PROVE  LET gathered == Gathered(calls, f) IN
         /\ OneEach(gathered)
         /\ \A i \in Nat \ {f.index} :
              /\ Known(gathered, i) <=> Known(calls, i)
              /\ Known(calls, i) => CallAt(gathered, i) = CallAt(calls, i)
         /\ Known(calls, f.index) =>
              /\ Known(gathered, f.index)
              /\ CallAt(gathered, f.index) = Merged(CallAt(calls, f.index), f)
         /\ ~Known(calls, f.index) /\ (source = "loomy" => f.name # NoName) =>
              Known(gathered, f.index) /\ CallAt(gathered, f.index) = Begun(f)
         /\ ~Known(calls, f.index) /\ source = "loomy" /\ f.name = NoName => gathered = calls
<1> DEFINE gathered == Gathered(calls, f)
<1>1. f.index \in Nat /\ Begun(f) \in CallRecords /\ Begun(f).index = f.index
  BY DEF Begun, CallRecords, FrameRecords
<1>2. gathered \in Seq(CallRecords)
  BY GatheredIs
<1>3. ASSUME OneEach(gathered), NEW i \in Nat, NEW k \in DOMAIN gathered, gathered[k].index = i
      PROVE  Known(gathered, i) /\ CallAt(gathered, i) = gathered[k]
  <2>1. Known(gathered, i)
    BY <1>3, Zenon DEF Known
  <2>2. k = Position(gathered, i)
    BY <1>2, <1>3, <2>1, CallIs
  <2> QED  BY <2>1, <2>2, Zenon DEF CallAt
<1>4. CASE Known(calls, f.index)
  <2> DEFINE p == Position(calls, f.index)
             call == Merged(CallAt(calls, f.index), f)
  <2>1. gathered = [calls EXCEPT ![p] = call]
    BY <1>4, GatheredIs
  <2>2. p \in DOMAIN calls /\ calls[p].index = f.index /\ CallAt(calls, f.index) \in CallRecords
        /\ CallAt(calls, f.index).index = f.index
    BY <1>1, <1>4, CallIs
  <2>3. call \in CallRecords /\ call.index = f.index
    BY <2>2, MergedIs
  <2> HIDE DEF p, call
  <2>4. DOMAIN gathered = DOMAIN calls /\ gathered[p] = call
        /\ \A k \in DOMAIN calls \ {p} : gathered[k] = calls[k]
    BY <2>1, <2>2
  <2>5. \A k \in DOMAIN calls : gathered[k].index = calls[k].index
    BY <2>2, <2>3, <2>4
  <2>6. OneEach(gathered)
    BY <2>4, <2>5, Zenon DEF OneEach
  <2>7. Known(gathered, f.index) /\ CallAt(gathered, f.index) = call
    BY <1>1, <1>3, <2>2, <2>4, <2>5, <2>6
  <2>8. ASSUME NEW i \in Nat \ {f.index}
        PROVE  (Known(gathered, i) <=> Known(calls, i))
               /\ (Known(calls, i) => CallAt(gathered, i) = CallAt(calls, i))
    <3>1. Known(gathered, i) <=> Known(calls, i)
      BY <2>4, <2>5, Zenon DEF Known
    <3>2. ASSUME Known(calls, i) PROVE CallAt(gathered, i) = CallAt(calls, i)
      <4>1. Position(calls, i) \in DOMAIN calls /\ calls[Position(calls, i)].index = i
        BY <3>2, CallIs
      <4>2. Position(calls, i) # p
        BY <2>2, <4>1
      <4>3. gathered[Position(calls, i)] = CallAt(calls, i)
            /\ gathered[Position(calls, i)].index = i
        BY <2>4, <2>5, <4>1, <4>2 DEF CallAt
      <4> QED  BY <1>3, <2>4, <2>6, <4>1, <4>3
    <3> QED  BY <3>1, <3>2
  <2> QED  BY <1>4, <2>6, <2>7, <2>8 DEF call
<1>5. CASE ~Known(calls, f.index) /\ source = "loomy" /\ f.name = NoName
  <2>1. gathered = calls
    BY <1>5, GatheredIs
  <2> QED  BY <1>5, <2>1
<1>6. CASE ~Known(calls, f.index) /\ ~(source = "loomy" /\ f.name = NoName)
  <2>1. gathered = Append(calls, Begun(f))
    BY <1>6, GatheredIs
  <2>2. DOMAIN gathered = 1..Len(calls) + 1 /\ DOMAIN calls = 1..Len(calls) /\ Len(calls) \in Nat
        /\ gathered[Len(calls) + 1] = Begun(f)
        /\ \A k \in DOMAIN calls : gathered[k] = calls[k]
    BY <1>1, <2>1, LongerIs
  <2>3. \A k \in DOMAIN calls : calls[k].index # f.index
    BY <1>6, Zenon DEF Known
  <2>4. OneEach(gathered)
    <3>1. ASSUME NEW j \in DOMAIN gathered, NEW k \in DOMAIN gathered, gathered[j].index = gathered[k].index
          PROVE  j = k
      <4>1. \A n \in DOMAIN gathered : n \in DOMAIN calls \/ n = Len(calls) + 1
        BY <2>2
      <4>2. CASE j \in DOMAIN calls /\ k \in DOMAIN calls
        BY <2>2, <3>1, <4>2, Zenon DEF OneEach
      <4>3. CASE ~(j \in DOMAIN calls /\ k \in DOMAIN calls)
        BY <1>1, <2>2, <2>3, <3>1, <4>1, <4>3
      <4> QED  BY <4>2, <4>3
    <3> QED  BY <3>1, Zenon DEF OneEach
  <2>5. Known(gathered, f.index) /\ CallAt(gathered, f.index) = Begun(f)
    <3>1. Len(calls) + 1 \in DOMAIN gathered
      BY <2>2
    <3> QED  BY <1>1, <1>3, <2>2, <2>4, <3>1
  <2>6. ASSUME NEW i \in Nat \ {f.index}
        PROVE  (Known(gathered, i) <=> Known(calls, i))
               /\ (Known(calls, i) => CallAt(gathered, i) = CallAt(calls, i))
    <3>1. ASSUME Known(calls, i) PROVE Known(gathered, i) /\ CallAt(gathered, i) = CallAt(calls, i)
      <4>1. Position(calls, i) \in DOMAIN calls /\ calls[Position(calls, i)].index = i
        BY <3>1, CallIs
      <4>2. Position(calls, i) \in DOMAIN gathered
        BY <2>2, <4>1
      <4>3. gathered[Position(calls, i)] = CallAt(calls, i)
            /\ gathered[Position(calls, i)].index = i
        BY <2>2, <4>1 DEF CallAt
      <4> QED  BY <1>3, <2>4, <4>2, <4>3
    <3>2. ASSUME Known(gathered, i) PROVE Known(calls, i)
      <4>1. PICK k \in DOMAIN gathered : gathered[k].index = i
        BY <3>2, Zenon DEF Known
      <4>2. k # Len(calls) + 1
        BY <1>1, <2>2, <4>1
      <4>3. k \in DOMAIN calls /\ calls[k].index = i
        BY <2>2, <4>1, <4>2
      <4> QED  BY <4>3, Zenon DEF Known
    <3> QED  BY <3>1, <3>2
  <2> QED  BY <1>6, <2>4, <2>5, <2>6
<1> QED  BY <1>4, <1>5, <1>6

LEMMA FramesAreTyped == \A f \in Frames : f \in FrameRecords
BY FramesAssumption DEF FrameRecords, Words

LEMMA AbsorbedIs ==
  ASSUME NEW r \in Gatherings, NEW f \in FrameRecords
  PROVE  /\ Absorbed(r, f) \in Gatherings
         /\ Absorbed(r, f).lines = r.lines + 1
         /\ Absorbed(r, f).chunks = IF Chunk(f) THEN r.chunks + 1 ELSE r.chunks
         /\ Absorbed(r, f).text = IF f.what = "text" THEN r.text + 1 ELSE r.text
         /\ Absorbed(r, f).calls = IF f.what = "call" THEN Gathered(r.calls, f) ELSE r.calls
<1> DEFINE calls == IF f.what = "call" THEN Gathered(r.calls, f) ELSE r.calls
           text == IF f.what = "text" THEN r.text + 1 ELSE r.text
           reason == IF f.what = "finish" THEN f.reason ELSE r.reason
           chunks == IF Chunk(f) THEN r.chunks + 1 ELSE r.chunks
           done == r.done \/ f.what = "done"
           failed == r.failed \/ f.what = "error"
           junk == r.junk \/ f.what = "junk"
<1>1. r.text \in Nat /\ r.calls \in Seq(CallRecords) /\ r.lines \in Nat /\ r.chunks \in Nat
      /\ r.reason \in Words /\ f.reason \in Words
  BY DEF Gatherings, FrameRecords
<1>2. Gathered(r.calls, f) \in Seq(CallRecords)
  BY <1>1, GatheredIs
<1>3. text \in Nat /\ calls \in Seq(CallRecords) /\ reason \in Words /\ chunks \in Nat
      /\ r.lines + 1 \in Nat
  BY <1>1, <1>2
<1>4. done \in BOOLEAN /\ failed \in BOOLEAN /\ junk \in BOOLEAN
  OBVIOUS
<1>5. Absorbed(r, f) =
        [r EXCEPT !.lines = r.lines + 1, !.chunks = chunks, !.text = text, !.calls = calls,
                  !.reason = reason, !.done = done, !.failed = failed, !.junk = junk]
  BY Zenon DEF Absorbed
<1> HIDE DEF text, calls, reason, chunks, done, failed, junk
<1>6. /\ Absorbed(r, f) \in Gatherings /\ Absorbed(r, f).lines = r.lines + 1
      /\ Absorbed(r, f).chunks = chunks /\ Absorbed(r, f).text = text /\ Absorbed(r, f).calls = calls
  BY <1>3, <1>4, <1>5 DEF Gatherings
<1> QED  BY <1>6 DEF text, calls, chunks

LEMMA FragmentIs ==
  ASSUME NEW index \in Nat, NEW id \in Words, NEW name \in Words, NEW args \in Seq(STRING)
  PROVE  LET g == Fragment(index, id, name, args) IN
         /\ g \in FrameRecords /\ g.what = "call" /\ g.index = index
         /\ g.id = id /\ g.name = name /\ g.args = args
<1>1. Frame("call") \in FrameRecords /\ Frame("call").what = "call"
  <2>1. NoId \in Words /\ NoName \in Words /\ "" \in Words
    BY DEF Words, NoId, NoName
  <2>2. <<>> \in Seq(STRING) /\ 0 \in Nat
    OBVIOUS
  <2>3. ASSUME NEW e \in Words, NEW args_0 \in Seq(STRING), NEW index_0 \in Nat
        PROVE  [what |-> "call", index |-> index_0, id |-> NoId, name |-> NoName, args |-> args_0,
                reason |-> e] \in FrameRecords
    BY <2>1 DEF FrameRecords
  <2>4. Frame("call") \in FrameRecords
    BY <2>1, <2>2, <2>3, Zenon DEF Frame
  <2> QED  BY <2>4 DEF Frame
<1>2. ASSUME NEW r \in FrameRecords, r.what = "call"
      PROVE  LET g == [r EXCEPT !.index = index, !.id = id, !.name = name, !.args = args] IN
             /\ g \in FrameRecords /\ g.what = "call" /\ g.index = index
             /\ g.id = id /\ g.name = name /\ g.args = args
  BY <1>2 DEF FrameRecords
<1> QED  BY <1>1, <1>2, Zenon DEF Fragment

(* raccoon passes a fragment on once its call has a name, and with it all  *)
(* that was gathered before.                                               *)
LEMMA RaccoonDeltaIs ==
  ASSUME StreamIsTyped, OneCallPerIndex, source = "raccoon", NEW f \in FrameRecords, f.what = "call"
  PROVE  LET call == CallAt(Gathered(read.calls, f), f.index)
             named == Known(read.calls, f.index) /\ CallAt(read.calls, f.index).name # NoName
         IN /\ call \in CallRecords
            /\ call.name = NoName \/ (named /\ f.args = <<>>) => PassedOn(f) = <<>>
            /\ ~(call.name = NoName \/ (named /\ f.args = <<>>)) => \E g \in FrameRecords :
                 /\ PassedOn(f) = <<g>> /\ g.what = "call" /\ g.index = f.index
                 /\ g.id = call.id /\ g.name = call.name
                 /\ g.args = IF named THEN f.args ELSE call.args
<1> DEFINE call == CallAt(Gathered(read.calls, f), f.index)
           named == Known(read.calls, f.index) /\ CallAt(read.calls, f.index).name # NoName
           g == Fragment(f.index, call.id, call.name, IF named THEN f.args ELSE call.args)
<1>1. read.calls \in Seq(CallRecords) /\ f.index \in Nat /\ f.args \in Seq(STRING)
  BY DEF StreamIsTyped, Gatherings, FrameRecords
<1>2. Known(Gathered(read.calls, f), f.index)
  BY <1>1, GatheredAt DEF OneCallPerIndex
<1>3. call \in CallRecords
  BY <1>1, <1>2, GatheredIs, CallIs
<1>4. PassedOn(f) = IF call.name = NoName \/ (named /\ f.args = <<>>) THEN <<>> ELSE <<g>>
  BY DEF PassedOn, RaccoonDelta, CallAt
<1>5. call.id \in Words /\ call.name \in Words /\ call.args \in Seq(STRING)
  BY <1>3 DEF CallRecords
<1>6. (IF named THEN f.args ELSE call.args) \in Seq(STRING)
  BY <1>1, <1>5
<1>7. /\ g \in FrameRecords /\ g.what = "call" /\ g.index = f.index
      /\ g.id = call.id /\ g.name = call.name /\ g.args = IF named THEN f.args ELSE call.args
  <2> HIDE DEF call, named
  <2>1. f.index \in Nat /\ call.id \in Words /\ call.name \in Words
    BY <1>1, <1>5
  <2> QED  BY <1>6, <2>1, FragmentIs
<1> QED  BY <1>3, <1>4, <1>7, Zenon

(* Whatever it is, it is at most one chunk, and that of the frame's kind.  *)
LEMMA PassedOnIs ==
  ASSUME StreamIsTyped, OneCallPerIndex, NEW f \in FrameRecords
  PROVE  \/ PassedOn(f) = <<>>
         \/ \E g \in FrameRecords :
              /\ PassedOn(f) = <<g>> /\ g.what = f.what /\ g.index = f.index
              /\ source \in {"raccoon", "trae"} /\ g.what = "call" => g.name # NoName
<1>1. CASE f.what = "call" /\ source = "raccoon"
  BY <1>1, RaccoonDeltaIs
<1>2. CASE f.what = "call" /\ source = "trae"
  BY <1>2 DEF PassedOn
<1>3. CASE f.what = "call" /\ source \notin {"raccoon", "trae"}
  BY <1>3 DEF PassedOn
<1>4. CASE f.what # "call"
  BY <1>4 DEF PassedOn, FrameRecords
<1> QED  BY <1>1, <1>2, <1>3, <1>4

(* The chunks grow by one or not at all.                                   *)
Grew(f) ==
    \/ out' = out
    \/ \E g \in FrameRecords :
         /\ PassedOn(f) = <<g>> /\ out' = Append(out, g) /\ g.what = f.what /\ g.index = f.index
         /\ source \in {"raccoon", "trae"} /\ g.what = "call" => g.name # NoName
         /\ Len(out') = Len(out) + 1 /\ out'[Len(out) + 1] = g
         /\ \A k \in 1..Len(out) : out'[k] = out[k]

Taken(f) == StreamInv /\ f \in FrameRecords /\ Take(f) /\ source' = source

LEMMA TakenGrew ==
  ASSUME NEW f, Taken(f)
  PROVE  Grew(f) /\ out' \in Seq(FrameRecords) /\ Len(out') <= Len(out) + 1
<1>1. StreamIsTyped /\ OneCallPerIndex /\ f \in FrameRecords /\ out \in Seq(FrameRecords)
  BY DEF Taken, StreamInv, StreamIsTyped
<1>2. out' = out \o PassedOn(f)
  BY DEF Taken, Take
<1>3. CASE PassedOn(f) = <<>>
  <2>1. out' = out
    BY <1>1, <1>2, <1>3
  <2> QED  BY <1>1, <2>1 DEF Grew
<1>4. ASSUME NEW g \in FrameRecords, PassedOn(f) = <<g>>, g.what = f.what, g.index = f.index,
             source \in {"raccoon", "trae"} /\ g.what = "call" => g.name # NoName
      PROVE  Grew(f) /\ out' \in Seq(FrameRecords) /\ Len(out') <= Len(out) + 1
  <2>1. out' = Append(out, g)
    BY <1>1, <1>2, <1>4
  <2>2. /\ out' \in Seq(FrameRecords) /\ Len(out') = Len(out) + 1
        /\ out'[Len(out) + 1] = g /\ \A k \in 1..Len(out) : out'[k] = out[k]
    BY <1>1, <2>1, LongerIs
  <2>3. Len(out') <= Len(out) + 1
    BY <1>1, <2>2
  <2>4. Grew(f)
    BY <1>4, <2>1, <2>2, Zenon DEF Grew
  <2> QED  BY <2>2, <2>3, <2>4
<1> QED  BY <1>1, <1>3, <1>4, PassedOnIs

LEMMA TakeIsTyped ==
  ASSUME NEW f, Taken(f), read.lines < MaxFrames, body' \in {"open", "ended", "broken"}
  PROVE  StreamIsTyped' /\ FramesAreCounted' /\ OneCallPerIndex'
<1>1. StreamIsTyped /\ FramesAreCounted /\ OneCallPerIndex /\ f \in FrameRecords
      /\ read' = Absorbed(read, f) /\ before' = read /\ source' = source
  BY DEF Taken, StreamInv, Take
<1>2. read \in Gatherings /\ read.calls \in Seq(CallRecords) /\ out \in Seq(FrameRecords)
      /\ read.lines \in Nat /\ read.chunks \in Nat /\ read.text \in Nat
  BY <1>1 DEF StreamIsTyped, Gatherings
<1>3. /\ read' \in Gatherings /\ read'.lines = read.lines + 1
      /\ read'.chunks = IF Chunk(f) THEN read.chunks + 1 ELSE read.chunks
      /\ read'.text = IF f.what = "text" THEN read.text + 1 ELSE read.text
      /\ read'.calls = IF f.what = "call" THEN Gathered(read.calls, f) ELSE read.calls
  BY <1>1, <1>2, AbsorbedIs
<1>4. Len(Gathered(read.calls, f)) \in {Len(read.calls), Len(read.calls) + 1}
  BY <1>1, <1>2, GatheredIs
<1>5. StreamIsTyped'
  BY <1>1, <1>2, <1>3, TakenGrew DEF StreamIsTyped
<1>6. FramesAreCounted'
  <2>1. /\ \/ Len(read'.calls) = Len(read.calls)
           \/ /\ f.what = "call"
              /\ Len(read'.calls) = Len(read.calls) + 1
        /\ Len(read.calls) \in Nat
    <3>1. CASE f.what = "call"
      BY <1>2, <1>3, <1>4, <3>1
    <3>2. CASE f.what # "call"
      BY <1>2, <1>3, <3>2
    <3> QED  BY <3>1, <3>2
  <2>2. Chunk(f) <=> f.what \in {"text", "call", "finish"}
    BY DEF Chunk
  <2>3. Len(out') <= Len(out) + 1 /\ Len(out) \in Nat /\ Len(out') \in Nat
    BY <1>2, TakenGrew
  <2>4. read.lines <= MaxFrames /\ read.chunks <= read.lines
        /\ read.text + Len(read.calls) <= read.chunks /\ Len(out) <= read.lines
    BY <1>1 DEF FramesAreCounted
  <2>5. MaxFrames \in Nat
    BY FramesAssumption
  <2>6. read'.text + Len(read'.calls) <= read'.chunks
    <3>1. CASE f.what = "call"
      <4>1. read'.text = read.text /\ read'.chunks = read.chunks + 1
        BY <1>3, <2>2, <3>1
      <4> HIDE DEF Chunk
      <4> QED  BY <1>2, <2>1, <2>4, <4>1
    <3>2. CASE f.what = "text"
      <4>1. read'.text = read.text + 1 /\ read'.chunks = read.chunks + 1
        BY <1>3, <2>2, <3>2
      <4> QED  BY <1>2, <2>1, <2>4, <3>2, <4>1
    <3>3. CASE f.what \notin {"call", "text"}
      <4>1. read'.text = read.text /\ read.chunks <= read'.chunks
        BY <1>2, <1>3, <3>3
      <4> QED  BY <1>2, <1>3, <2>1, <2>4, <3>3, <4>1
    <3> QED  BY <3>1, <3>2, <3>3
  <2>7. read'.lines <= MaxFrames /\ read'.chunks <= read'.lines /\ before'.lines <= read'.lines
        /\ Len(out') <= read'.lines
    BY SMTT(30), <1>1, <1>2, <1>3, <2>3, <2>4, <2>5
  <2> QED  BY <2>6, <2>7 DEF FramesAreCounted
<1>7. OneCallPerIndex'
  <2> SUFFICES ASSUME source # "trae" PROVE OneEach(read'.calls)
    BY <1>1, Zenon DEF OneCallPerIndex
  <2>1. OneEach(read.calls)
    BY <1>1, Zenon DEF OneCallPerIndex
  <2> QED  BY <1>1, <1>2, <1>3, <2>1, GatheredAt
<1> QED  BY <1>5, <1>6, <1>7

LEMMA TakeKeepsNamelessOut == ASSUME NEW f, Taken(f) PROVE NamelessIsKept'
<1>1. StreamIsTyped /\ NamelessIsKept /\ OneCallPerIndex /\ f \in FrameRecords
      /\ read' = Absorbed(read, f) /\ source' = source
  BY DEF Taken, StreamInv, Take
<1>2. read \in Gatherings /\ read.calls \in Seq(CallRecords) /\ out \in Seq(FrameRecords)
  BY <1>1 DEF StreamIsTyped, Gatherings
<1>3. read'.calls = IF f.what = "call" THEN Gathered(read.calls, f) ELSE read.calls
  BY <1>1, <1>2, AbsorbedIs
<1>4. ASSUME source = "loomy", NEW k \in DOMAIN read'.calls PROVE read'.calls[k].name # NoName
  <2>1. \A j \in DOMAIN read.calls : read.calls[j].name # NoName
    BY <1>1, <1>4, Zenon DEF NamelessIsKept
  <2>2. CASE read'.calls = read.calls
    BY <1>4, <2>1, <2>2
  <2>3. CASE read'.calls # read.calls
    <3>1. read'.calls = Gathered(read.calls, f)
      BY <1>3, <2>3
    <3>2. CASE Known(read.calls, f.index) /\
               read'.calls = [read.calls EXCEPT ![Position(read.calls, f.index)] =
                                Merged(CallAt(read.calls, f.index), f)]
      <4>1. /\ Position(read.calls, f.index) \in DOMAIN read.calls
            /\ CallAt(read.calls, f.index) \in CallRecords
        BY <1>1, <1>2, <3>2, CallIs DEF FrameRecords
      <4>2. CallAt(read.calls, f.index).name # NoName
        BY <2>1, <4>1 DEF CallAt
      <4>3. Merged(CallAt(read.calls, f.index), f).name # NoName
        BY ZenonT(30), <1>1, <4>1, <4>2, MergedIs
      <4> QED  BY <1>4, <2>1, <3>2, <4>1, <4>3
    <3>3. CASE f.name # NoName /\ read'.calls = Append(read.calls, Begun(f))
      <4>1. Begun(f) \in CallRecords /\ Begun(f).name # NoName
        BY <1>1, <3>3 DEF Begun, CallRecords, FrameRecords
      <4>2. DOMAIN read'.calls = 1..Len(read.calls) + 1 /\ DOMAIN read.calls = 1..Len(read.calls)
            /\ Len(read.calls) \in Nat /\ read'.calls[Len(read.calls) + 1] = Begun(f)
            /\ \A j \in DOMAIN read.calls : read'.calls[j] = read.calls[j]
        BY <1>2, <3>3, <4>1, LongerIs
      <4>3. k \in DOMAIN read.calls \/ k = Len(read.calls) + 1
        BY <1>4, <4>2
      <4> QED  BY <2>1, <4>1, <4>2, <4>3
    <3> QED  BY <1>1, <1>2, <1>4, <2>3, <3>1, <3>2, <3>3, GatheredIs
  <2> QED  BY <2>2, <2>3
<1>5. ASSUME source \in {"raccoon", "trae"}, NEW k \in DOMAIN out', out'[k].what = "call"
      PROVE  out'[k].name # NoName
  <2>1. \A j \in DOMAIN out : out[j].what = "call" => out[j].name # NoName
    BY <1>1, <1>5, Zenon DEF NamelessIsKept
  <2>2. Grew(f) /\ out' \in Seq(FrameRecords)
    BY TakenGrew
  <2>3. CASE out' = out
    BY <1>5, <2>1, <2>3
  <2>4. CASE out' # out
    <3>1. PICK g \in FrameRecords :
             /\ source \in {"raccoon", "trae"} /\ g.what = "call" => g.name # NoName
             /\ Len(out') = Len(out) + 1 /\ out'[Len(out) + 1] = g
             /\ \A j \in 1..Len(out) : out'[j] = out[j]
      BY <2>2, <2>4 DEF Grew
    <3>2. k \in 1..Len(out) \/ k = Len(out) + 1
      BY <1>2, <1>5, <2>2, <3>1
    <3> QED  BY <1>2, <1>5, <2>1, <3>1, <3>2
  <2> QED  BY <2>3, <2>4
<1> QED  BY <1>1, <1>4, <1>5 DEF NamelessIsKept

(* A client that joins fragments goes on where it was.                     *)
LEMMA JoinedAppends ==
  ASSUME NEW chunks \in Seq(FrameRecords), NEW g, NEW i, IsFragment(g, i) => g.args \in Seq(STRING)
  PROVE  /\ Joined(chunks, i) \in Seq(STRING)
         /\ IsFragment(g, i) => Joined(Append(chunks, g), i) = Joined(chunks, i) \o g.args
         /\ ~IsFragment(g, i) => Joined(Append(chunks, g), i) = Joined(chunks, i)
<1> DEFINE piece(f) == IF IsFragment(f, i) THEN f.args ELSE <<>>
           pieces(s) == [k \in DOMAIN s |-> piece(s[k])]
<1>1. piece(g) \in Seq(STRING) /\ \A f \in FrameRecords : piece(f) \in Seq(STRING)
  <2>1. <<>> \in Seq(STRING) /\ \A f \in FrameRecords : f.args \in Seq(STRING)
    BY DEF FrameRecords
  <2>2. ASSUME NEW f, IsFragment(f, i) => f.args \in Seq(STRING) PROVE piece(f) \in Seq(STRING)
    BY <2>1, <2>2, Zenon
  <2> HIDE DEF piece
  <2> QED  BY <2>1, <2>2, Zenon
<1> HIDE DEF piece
<1>2. pieces(chunks) \in Seq(Seq(STRING))
  BY SMTT(30), <1>1
<1>3. pieces(Append(chunks, g)) = Append(pieces(chunks), piece(g))
  OBVIOUS
<1>4. \A s : Joined(s, i) = FlattenSeq(pieces(s))
  BY DEF Joined, piece
<1> HIDE DEF pieces
<1>5. /\ Joined(chunks, i) \in Seq(STRING)
      /\ Joined(Append(chunks, g), i) = Joined(chunks, i) \o piece(g)
  <2>1. /\ FlattenSeq(pieces(chunks)) \in Seq(STRING)
        /\ FlattenSeq(Append(pieces(chunks), piece(g))) = FlattenSeq(pieces(chunks)) \o piece(g)
    BY <1>1, <1>2, FlattenAppends
  <2> QED  BY <1>3, <1>4, <2>1, Zenon
<1>6. Joined(chunks, i) \o <<>> = Joined(chunks, i)
  BY <1>5
<1> QED  BY <1>5, <1>6, Zenon DEF piece

LEMMA NothingJoined == \A i : Joined(<<>>, i) = <<>>
<1>1. ASSUME NEW i PROVE Joined(<<>>, i) = <<>>
  <2>1. [k \in DOMAIN <<>> |-> IF IsFragment(<<>>[k], i) THEN <<>>[k].args ELSE <<>>] = <<>>
    OBVIOUS
  <2> QED  BY <2>1 DEF Joined, FlattenSeq
<1> QED  BY <1>1

(* What loomy has once dropped stays dropped.                              *)
LEMMA DroppedStays == ASSUME NEW f, Taken(f), Joining' PROVE Joining
<1>1. source' = source /\ Grew(f) /\ out \in Seq(FrameRecords)
  BY TakenGrew DEF Taken, StreamInv, StreamIsTyped
<1>2. ASSUME Dropped PROVE Dropped'
  <2>1. CASE out' = out
    BY <1>2, <2>1 DEF Dropped
  <2>2. CASE out' # out
    <3>1. DOMAIN out = 1..Len(out) /\ DOMAIN out' = 1..Len(out) + 1 /\ Len(out) \in Nat
          /\ \A k \in 1..Len(out) : out'[k] = out[k]
      BY <1>1, <2>2, LongerIs DEF Grew
    <3>2. PICK k \in DOMAIN out :
            /\ out[k].what = "call" /\ out[k].name = NoName
            /\ \A j \in 1..(k - 1) :
                 ~(out[j].what = "call" /\ out[j].index = out[k].index /\ out[j].name # NoName)
      BY <1>2 DEF Dropped
    <3>3. k \in DOMAIN out' /\ out'[k] = out[k] /\ \A j \in 1..(k - 1) : out'[j] = out[j]
      BY <3>1, <3>2
    <3> QED  BY <3>2, <3>3 DEF Dropped
  <2> QED  BY <2>1, <2>2
<1> QED  BY <1>1, <1>2, Zenon DEF Joining

(* Where chunks join, every fragment begins a call or adds to one.         *)
LEMMA FragmentIsGathered ==
  ASSUME NEW f, Taken(f), f.what = "call", Joining'
  PROVE  /\ Known(read'.calls, f.index)
         /\ CallAt(read'.calls, f.index) =
              IF Known(read.calls, f.index) THEN Merged(CallAt(read.calls, f.index), f) ELSE Begun(f)
         /\ \A i \in Nat \ {f.index} :
              /\ Known(read'.calls, i) <=> Known(read.calls, i)
              /\ Known(read.calls, i) => CallAt(read'.calls, i) = CallAt(read.calls, i)
<1>1. Joining /\ StreamIsTyped /\ OneCallPerIndex /\ ChunksAreKnown /\ f \in FrameRecords
      /\ read' = Absorbed(read, f) /\ source' = source
  BY DroppedStays DEF Taken, StreamInv, Take
<1>2. read \in Gatherings /\ read.calls \in Seq(CallRecords) /\ out \in Seq(FrameRecords)
  BY <1>1 DEF StreamIsTyped, Gatherings
<1>3. source # "trae" /\ OneEach(read.calls)
  BY <1>1 DEF Joining, OneCallPerIndex
<1>4. read'.calls = Gathered(read.calls, f)
  BY <1>1, <1>2, AbsorbedIs
<1>5. ASSUME source = "loomy", f.name = NoName PROVE Known(read.calls, f.index)
  <2> SUFFICES ASSUME ~Known(read.calls, f.index) PROVE Dropped'
    BY <1>1, <1>5, Zenon DEF Joining
  <2>1. PassedOn(f) = <<f>>
    BY <1>5 DEF PassedOn
  <2>2. out' = Append(out, f)
    BY <1>2, <2>1 DEF Taken, Take
  <2>3. Len(out) \in Nat /\ DOMAIN out' = 1..Len(out) + 1 /\ out'[Len(out) + 1] = f
        /\ \A k \in 1..Len(out) : k \in DOMAIN out /\ out'[k] = out[k]
    BY <1>1, <1>2, <2>2, LongerIs
  <2>4. \A j \in 1..Len(out) :
          ~(out'[j].what = "call" /\ out'[j].index = f.index /\ out'[j].name # NoName)
    BY <1>1, <2>3 DEF ChunksAreKnown
  <2>5. Len(out) + 1 \in DOMAIN out' /\ Len(out) + 1 - 1 = Len(out)
    BY <2>3
  <2> QED  BY <1>5, <2>3, <2>4, <2>5 DEF Dropped
<1>6. CASE Known(read.calls, f.index)
  BY <1>1, <1>2, <1>3, <1>4, <1>6, GatheredAt
<1>7. CASE ~Known(read.calls, f.index)
  BY <1>1, <1>2, <1>3, <1>4, <1>5, <1>7, GatheredAt
<1> QED  BY <1>6, <1>7

(* The calls stay as they are when a frame is not a fragment.              *)
LEMMA OtherFrames ==
  ASSUME NEW f, Taken(f), f.what # "call"
  PROVE  /\ read'.calls = read.calls /\ out \in Seq(FrameRecords)
         /\ out' = out \/ \E g \in FrameRecords : out' = Append(out, g) /\ g.what # "call"
<1>1. StreamIsTyped /\ f \in FrameRecords /\ read' = Absorbed(read, f) /\ Grew(f)
  BY TakenGrew DEF Taken, StreamInv, Take
<1>2. read \in Gatherings /\ out \in Seq(FrameRecords)
  BY <1>1 DEF StreamIsTyped
<1> QED  BY <1>1, <1>2, AbsorbedIs DEF Grew

LEMMA TakeKeepsKnown == ASSUME NEW f, Taken(f) PROVE ChunksAreKnown'
<1> SUFFICES ASSUME Joining', NEW k \in DOMAIN out', out'[k].what = "call"
             PROVE  /\ Known(read'.calls, out'[k].index)
                    /\ out'[k].name # NoName => CallAt(read'.calls, out'[k].index).name # NoName
                    /\ out'[k].id # NoId => CallAt(read'.calls, out'[k].index).id # NoId
  BY Zenon DEF ChunksAreKnown
<1>1. Joining /\ StreamIsTyped /\ ChunksAreKnown /\ OneCallPerIndex /\ f \in FrameRecords
      /\ f.index \in Nat /\ Grew(f)
  BY DroppedStays, TakenGrew DEF Taken, StreamInv, FrameRecords
<1>2. read.calls \in Seq(CallRecords) /\ out \in Seq(FrameRecords) /\ DOMAIN out = 1..Len(out)
  BY <1>1 DEF StreamIsTyped, Gatherings
<1>3. ASSUME k \in DOMAIN out, out'[k] = out[k]
      PROVE  /\ Known(read'.calls, out'[k].index)
             /\ out'[k].name # NoName => CallAt(read'.calls, out'[k].index).name # NoName
             /\ out'[k].id # NoId => CallAt(read'.calls, out'[k].index).id # NoId
  <2>1. /\ Known(read.calls, out[k].index) /\ out[k].index \in Nat
        /\ out[k].name # NoName => CallAt(read.calls, out[k].index).name # NoName
        /\ out[k].id # NoId => CallAt(read.calls, out[k].index).id # NoId
    <3>1. out[k] \in FrameRecords /\ out[k].what = "call"
      BY <1>2, <1>3
    <3>2. out[k].index \in Nat
      BY <3>1 DEF FrameRecords
    <3> QED  BY <1>1, <1>3, <3>1, <3>2, Zenon DEF ChunksAreKnown
  <2>2. CASE f.what # "call"
    BY <1>3, <2>1, <2>2, OtherFrames
  <2>3. CASE f.what = "call" /\ out[k].index # f.index
    BY <1>3, <2>1, <2>3, FragmentIsGathered
  <2>4. CASE f.what = "call" /\ out[k].index = f.index
    <3>1. CallAt(read.calls, f.index) \in CallRecords
      BY <1>1, <1>2, <2>1, <2>4, CallIs
    <3>2. Known(read'.calls, f.index)
          /\ CallAt(read'.calls, f.index) = Merged(CallAt(read.calls, f.index), f)
      BY <2>1, <2>4, FragmentIsGathered
    <3> DEFINE call == Merged(CallAt(read.calls, f.index), f)
    <3>3. /\ call.id = IF f.id # NoId THEN f.id ELSE CallAt(read.calls, f.index).id
          /\ call.name = IF f.name # NoName THEN f.name ELSE CallAt(read.calls, f.index).name
      BY <1>1, <3>1, MergedIs
    <3> HIDE DEF call
    <3>4. CallAt(read'.calls, f.index) = call
      BY <3>2 DEF call
    <3> QED  BY <1>3, <2>1, <2>4, <3>2, <3>3, <3>4
  <2> QED  BY <2>2, <2>3, <2>4
<1>4. ASSUME out' # out, k = Len(out) + 1
      PROVE  /\ Known(read'.calls, out'[k].index)
             /\ out'[k].name # NoName => CallAt(read'.calls, out'[k].index).name # NoName
             /\ out'[k].id # NoId => CallAt(read'.calls, out'[k].index).id # NoId
  <2>1. PICK g \in FrameRecords : PassedOn(f) = <<g>> /\ g.what = f.what /\ g.index = f.index
                                  /\ out'[k] = g
    BY <1>1, <1>4 DEF Grew
  <2>2. f.what = "call"
    BY <2>1
  <2>3. /\ Known(read'.calls, f.index)
        /\ CallAt(read'.calls, f.index) =
             IF Known(read.calls, f.index) THEN Merged(CallAt(read.calls, f.index), f) ELSE Begun(f)
    BY <2>2, FragmentIsGathered
  <2>4. CASE source = "raccoon"
    <3>1. read'.calls = Gathered(read.calls, f)
      <4>1. read' = Absorbed(read, f) /\ read \in Gatherings
        BY <1>1 DEF Taken, Take, StreamIsTyped
      <4> QED  BY <1>1, <2>2, <4>1, AbsorbedIs
    <3>2. g.id = CallAt(read'.calls, f.index).id /\ g.name = CallAt(read'.calls, f.index).name
      <4> DEFINE call == CallAt(Gathered(read.calls, f), f.index)
      <4>1. PassedOn(f) = <<>> \/ \E h \in FrameRecords :
              PassedOn(f) = <<h>> /\ h.id = call.id /\ h.name = call.name
        BY <1>1, <2>2, <2>4, RaccoonDeltaIs
      <4> HIDE DEF call
      <4>2. g.id = call.id /\ g.name = call.name
        BY <2>1, <4>1
      <4> QED  BY <3>1, <4>2 DEF call
    <3> QED  BY <2>1, <2>3, <3>2
  <2>5. CASE source # "raccoon"
    <3>1. PassedOn(f) = <<f>>
      BY <1>1, <2>2, <2>5 DEF PassedOn, Joining
    <3>2. g = f
      BY <2>1, <3>1
    <3>3. CASE Known(read.calls, f.index)
      <4>1. CallAt(read.calls, f.index) \in CallRecords
        BY <1>1, <1>2, <3>3, CallIs
      <4> DEFINE call == Merged(CallAt(read.calls, f.index), f)
      <4>2. /\ call.id = IF f.id # NoId THEN f.id ELSE CallAt(read.calls, f.index).id
            /\ call.name = IF f.name # NoName THEN f.name ELSE CallAt(read.calls, f.index).name
        BY <1>1, <4>1, MergedIs
      <4>3. CallAt(read'.calls, f.index) = call
        BY <2>3, <3>3
      <4> HIDE DEF call
      <4> QED  BY <2>1, <2>3, <3>2, <4>2, <4>3
    <3>4. CASE ~Known(read.calls, f.index)
      BY <2>1, <2>3, <3>2, <3>4 DEF Begun
    <3> QED  BY <3>3, <3>4
  <2> QED  BY <2>4, <2>5
<1>5. (k \in DOMAIN out /\ out'[k] = out[k]) \/ (out' # out /\ k = Len(out) + 1)
  <2>1. CASE out' = out
    BY <2>1
  <2>2. CASE out' # out
    <3>1. PICK g \in FrameRecords : out' = Append(out, g)
      BY <1>1, <2>2 DEF Grew
    <3>2. DOMAIN out' = 1..Len(out) + 1 /\ Len(out) \in Nat
          /\ \A j \in 1..Len(out) : out'[j] = out[j]
      BY <1>2, <3>1, LongerIs
    <3> QED  BY <1>2, <2>2, <3>2
  <2> QED  BY <2>1, <2>2
<1> QED  BY <1>3, <1>4, <1>5

LEMMA TakeKeepsJoins == ASSUME NEW f, Taken(f) PROVE ChunksJoin'
<1> SUFFICES ASSUME Joining', NEW i \in Nat
             PROVE  Joined(out', i) = IF Shown(i)' THEN CallAt(read'.calls, i).args ELSE <<>>
  BY Zenon DEF ChunksJoin
<1>1. Joining /\ StreamIsTyped /\ ChunksJoin /\ OneCallPerIndex /\ f \in FrameRecords
      /\ f.index \in Nat /\ f.args \in Seq(STRING) /\ Grew(f) /\ source' = source
      /\ source # "trae" /\ read' = Absorbed(read, f)
  BY DroppedStays, TakenGrew DEF Taken, Take, StreamInv, FrameRecords, Joining
<1>2. read.calls \in Seq(CallRecords) /\ out \in Seq(FrameRecords)
  BY <1>1 DEF StreamIsTyped, Gatherings
<1>3. Joined(out, i) = IF Shown(i) THEN CallAt(read.calls, i).args ELSE <<>>
  BY <1>1, Zenon DEF ChunksJoin
<1>4. CASE f.what # "call"
  <2>1. read'.calls = read.calls
    BY <1>4, OtherFrames
  <2>2. Joined(out', i) = Joined(out, i)
    <3>1. CASE out' = out
      BY <3>1
    <3>2. ASSUME NEW g \in FrameRecords, out' = Append(out, g), g.what # "call"
          PROVE  Joined(out', i) = Joined(out, i)
      BY <1>2, <3>2, JoinedAppends DEF IsFragment
    <3> QED  BY <1>4, <3>1, <3>2, OtherFrames
  <2>3. Shown(i)' <=> Shown(i)
    BY <1>1, <2>1, Zenon DEF Shown
  <2> QED  BY <1>3, <2>1, <2>2, <2>3, Zenon
<1>5. CASE f.what = "call" /\ i # f.index
  <2>1. /\ Known(read'.calls, i) <=> Known(read.calls, i)
        /\ Known(read.calls, i) => CallAt(read'.calls, i) = CallAt(read.calls, i)
    BY <1>5, FragmentIsGathered
  <2>2. Joined(out', i) = Joined(out, i)
    <3>1. CASE out' = out
      BY <3>1
    <3>2. ASSUME NEW g \in FrameRecords, out' = Append(out, g), g.index = f.index
          PROVE  Joined(out', i) = Joined(out, i)
      BY <1>2, <1>5, <3>2, JoinedAppends DEF IsFragment
    <3> QED  BY <1>1, <3>1, <3>2 DEF Grew
  <2>3. Shown(i)' <=> Shown(i)
    BY <1>1, <2>1, Zenon DEF Shown
  <2>4. Shown(i) => Known(read.calls, i)
    BY DEF Shown
  <2> QED  BY <1>3, <2>1, <2>2, <2>3, <2>4, Zenon
<1>6. CASE f.what = "call" /\ i = f.index /\ source # "raccoon"
  <2>1. PassedOn(f) = <<f>>
    BY <1>1, <1>6 DEF PassedOn, Joining
  <2>2. out' = Append(out, f)
    BY <1>2, <2>1 DEF Taken, Take
  <2>3. Joined(out', i) = Joined(out, i) \o f.args
    BY <1>1, <1>2, <1>6, <2>2, JoinedAppends DEF IsFragment
  <2>4. /\ Known(read'.calls, i)
        /\ CallAt(read'.calls, i) =
             IF Known(read.calls, i) THEN Merged(CallAt(read.calls, i), f) ELSE Begun(f)
    BY <1>6, FragmentIsGathered
  <2>5. Shown(i)' /\ (Shown(i) <=> Known(read.calls, i))
    BY <1>1, <1>6, <2>4, Zenon DEF Shown
  <2>6. CASE Known(read.calls, i)
    <3>1. CallAt(read.calls, i) \in CallRecords
      BY <1>2, <2>6, CallIs
    <3>2. CallAt(read'.calls, i).args = CallAt(read.calls, i).args \o f.args
      BY ZenonT(30), <1>1, <2>4, <2>6, <3>1, MergedIs
    <3> QED  BY <1>3, <2>3, <2>5, <2>6, <3>2, Zenon
  <2>7. CASE ~Known(read.calls, i)
    <3>1. CallAt(read'.calls, i).args = f.args /\ <<>> \o f.args = f.args
      BY <1>1, <2>4, <2>7 DEF Begun
    <3> QED  BY <1>3, <2>3, <2>5, <2>7, <3>1, Zenon
  <2> QED  BY <2>6, <2>7
<1>7. CASE f.what = "call" /\ i = f.index /\ source = "raccoon"
  <2> DEFINE call == CallAt(read'.calls, i)
             named == Known(read.calls, i) /\ CallAt(read.calls, i).name # NoName
  <2>1. read'.calls = Gathered(read.calls, f)
    <3>1. read \in Gatherings
      BY <1>1 DEF StreamIsTyped
    <3> QED  BY <1>1, <1>7, <3>1, AbsorbedIs
  <2>2. /\ Known(read'.calls, i)
        /\ call = IF Known(read.calls, i) THEN Merged(CallAt(read.calls, i), f) ELSE Begun(f)
    BY <1>7, FragmentIsGathered
  <2>3. /\ Shown(i)' <=> call.name # NoName
        /\ Shown(i) <=> named
    BY <1>1, <1>7, <2>2, Zenon DEF Shown
  <2>4. /\ call \in CallRecords
        /\ call.name = NoName \/ (named /\ f.args = <<>>) => PassedOn(f) = <<>>
        /\ ~(call.name = NoName \/ (named /\ f.args = <<>>)) => \E g \in FrameRecords :
             /\ PassedOn(f) = <<g>> /\ g.what = "call" /\ g.index = i
             /\ g.args = IF named THEN f.args ELSE call.args
    BY <1>1, <1>7, <2>1, RaccoonDeltaIs
  <2>5. call.args \in Seq(STRING) /\ out' = out \o PassedOn(f)
    BY <2>4 DEF CallRecords, Taken, Take
  <2>6. CASE named
    <3>1. CallAt(read.calls, i) \in CallRecords
      BY <1>2, <2>6, CallIs
    <3>2. call.name # NoName /\ call.args = CallAt(read.calls, i).args \o f.args
      <4> DEFINE merged == Merged(CallAt(read.calls, i), f)
      <4>1. /\ merged.args = CallAt(read.calls, i).args \o f.args
            /\ merged.name = IF f.name # NoName THEN f.name ELSE CallAt(read.calls, i).name
        BY <1>1, <3>1, MergedIs
      <4>2. call = merged
        BY <2>2, <2>6
      <4> HIDE DEF merged, call
      <4> QED  BY <2>6, <4>1, <4>2
    <3>3. CASE f.args = <<>>
      <4>1. out' = out
        BY <1>2, <2>4, <2>5, <2>6, <3>3
      <4>2. call.args = CallAt(read.calls, i).args
        BY <3>1, <3>2, <3>3 DEF CallRecords
      <4> QED  BY <1>3, <2>3, <2>6, <3>2, <4>1, <4>2, Zenon
    <3>4. CASE f.args # <<>>
      <4>1. PICK g \in FrameRecords : PassedOn(f) = <<g>> /\ g.what = "call" /\ g.index = i
                                      /\ g.args = f.args
        BY <2>4, <2>6, <3>2, <3>4
      <4>2. out' = Append(out, g)
        BY <1>2, <2>5, <4>1
      <4>3. Joined(out', i) = Joined(out, i) \o f.args
        <5>1. IsFragment(g, i) /\ g.args \in Seq(STRING)
          BY <1>1, <4>1 DEF IsFragment
        <5>2. Joined(Append(out, g), i) = Joined(out, i) \o g.args
          BY <1>2, <5>1, JoinedAppends
        <5> QED  BY <4>1, <4>2, <5>2, Zenon
      <4> QED  BY <1>3, <2>3, <2>6, <3>2, <4>3, Zenon
    <3> QED  BY <3>3, <3>4
  <2>7. CASE ~named
    <3>1. CASE call.name = NoName
      <4>1. out' = out
        BY <1>2, <2>4, <2>5, <3>1
      <4> QED  BY <1>3, <2>3, <2>7, <3>1, <4>1, Zenon
    <3>2. CASE call.name # NoName
      <4>1. PICK g \in FrameRecords : PassedOn(f) = <<g>> /\ g.what = "call" /\ g.index = i
                                      /\ g.args = call.args
        BY <2>4, <2>7, <3>2
      <4>2. out' = Append(out, g)
        BY <1>2, <2>5, <4>1
      <4>3. Joined(out', i) = Joined(out, i) \o call.args
        <5>1. IsFragment(g, i) /\ g.args \in Seq(STRING)
          BY <2>5, <4>1 DEF IsFragment
        <5> HIDE DEF call
        <5>2. Joined(Append(out, g), i) = Joined(out, i) \o g.args
          BY <1>2, <5>1, JoinedAppends
        <5> QED  BY <4>1, <4>2, <5>2, Zenon
      <4>4. <<>> \o call.args = call.args
        BY <2>5
      <4> QED  BY <1>3, <2>3, <2>7, <3>2, <4>3, <4>4, Zenon
    <3> QED  BY <3>1, <3>2
  <2> QED  BY <2>6, <2>7
<1> QED  BY <1>4, <1>5, <1>6, <1>7

LEMMA TakeKeepsPassedOn == ASSUME NEW f, Taken(f) PROVE CallsArePassedOn'
<1> SUFFICES ASSUME source = "codearts", NEW i \in Nat, Known(read'.calls, i)
             PROVE  /\ \E k \in DOMAIN out' : IsFragment(out'[k], i)
                    /\ CallAt(read'.calls, i).id # NoId =>
                         \E k \in DOMAIN out' : IsFragment(out'[k], i) /\ out'[k].id # NoId
  <2>1. source' = source
    BY DEF Taken
  <2> QED  BY <2>1, Zenon DEF CallsArePassedOn
<1>1. StreamIsTyped /\ CallsArePassedOn /\ f \in FrameRecords /\ Joining' /\ f.index \in Nat
      /\ out' = out \o PassedOn(f)
  BY DEF Taken, Take, StreamInv, Joining, FrameRecords
<1>2. out \in Seq(FrameRecords) /\ PassedOn(f) \in {<<>>, <<f>>} /\ read.calls \in Seq(CallRecords)
      /\ (f.what = "call" => PassedOn(f) = <<f>>)
  BY <1>1 DEF StreamIsTyped, Gatherings, PassedOn
<1>3. /\ \A k \in DOMAIN out : k \in DOMAIN out' /\ out'[k] = out[k]
      /\ f.what = "call" => Len(out) + 1 \in DOMAIN out' /\ out'[Len(out) + 1] = f
  <2>1. CASE PassedOn(f) = <<>>
    BY <1>1, <1>2, <2>1
  <2>2. CASE PassedOn(f) = <<f>>
    <3>1. out' = Append(out, f)
      BY <1>1, <1>2, <2>2
    <3>2. DOMAIN out = 1..Len(out) /\ DOMAIN out' = 1..Len(out) + 1 /\ Len(out) \in Nat
          /\ out'[Len(out) + 1] = f /\ \A j \in 1..Len(out) : out'[j] = out[j]
      BY <1>1, <1>2, <3>1, LongerIs
    <3> QED  BY <3>2
  <2> QED  BY <1>2, <2>1, <2>2
<1>4. ASSUME Known(read.calls, i)
      PROVE  /\ \E k \in DOMAIN out' : IsFragment(out'[k], i)
             /\ CallAt(read.calls, i).id # NoId =>
                  \E k \in DOMAIN out' : IsFragment(out'[k], i) /\ out'[k].id # NoId
  <2>1. /\ \E k \in DOMAIN out : IsFragment(out[k], i)
        /\ CallAt(read.calls, i).id # NoId =>
             \E k \in DOMAIN out : IsFragment(out[k], i) /\ out[k].id # NoId
    BY <1>1, <1>4, Zenon DEF CallsArePassedOn
  <2> QED  BY <1>3, <2>1, Zenon
<1>5. CASE f.what # "call"
  BY <1>4, <1>5, OtherFrames
<1>6. CASE f.what = "call" /\ i # f.index
  <2>1. /\ Known(read.calls, i)
        /\ CallAt(read'.calls, i) = CallAt(read.calls, i)
    BY <1>1, <1>6, FragmentIsGathered
  <2> QED  BY <1>4, <2>1, Zenon
<1>7. CASE f.what = "call" /\ i = f.index
  <2>1. Len(out) + 1 \in DOMAIN out' /\ out'[Len(out) + 1] = f /\ IsFragment(f, i)
    BY <1>3, <1>7 DEF IsFragment
  <2>2. CallAt(read'.calls, i) =
          IF Known(read.calls, i) THEN Merged(CallAt(read.calls, i), f) ELSE Begun(f)
    BY <1>1, <1>7, FragmentIsGathered
  <2>3. CASE f.id # NoId
    BY <2>1, <2>3, Zenon
  <2>4. CASE f.id = NoId /\ Known(read.calls, i)
    <3>1. CallAt(read.calls, i) \in CallRecords
      BY <1>2, <2>4, CallIs
    <3>2. Merged(CallAt(read.calls, i), f).id = CallAt(read.calls, i).id
      BY <1>1, <2>4, <3>1, MergedIs
    <3>3. CallAt(read'.calls, i).id = CallAt(read.calls, i).id
      BY <2>2, <2>4, <3>2
    <3> QED  BY <1>4, <2>4, <3>3, Zenon
  <2>5. CASE f.id = NoId /\ ~Known(read.calls, i)
    <3>1. CallAt(read'.calls, i).id = NoId
      BY <2>2, <2>5 DEF Begun
    <3> QED  BY <2>1, <3>1, Zenon
  <2> QED  BY <2>3, <2>4, <2>5
<1> QED  BY <1>5, <1>6, <1>7

LEMMA TakeKeeps ==
  ASSUME StreamInv, NEW f \in Frames, Take(f), source' = source, read.lines < MaxFrames,
         body' \in {"open", "ended", "broken"}
  PROVE  StreamInv'
<1>1. Taken(f)
  BY FramesAreTyped DEF Taken
<1>2. StreamIsTyped' /\ FramesAreCounted' /\ OneCallPerIndex'
  BY <1>1, TakeIsTyped
<1>3. NamelessIsKept' /\ ChunksJoin' /\ ChunksAreKnown' /\ CallsArePassedOn'
  BY <1>1, TakeKeepsNamelessOut, TakeKeepsJoins, TakeKeepsKnown, TakeKeepsPassedOn
<1> QED  BY <1>2, <1>3 DEF StreamInv

LEMMA NoStep ==
  ASSUME StreamInv, UNCHANGED <<source, read, before, out>>, body' \in {"open", "ended", "broken"}
  PROVE  StreamInv'
<1>1. StreamIsTyped'
  BY DEF StreamInv, StreamIsTyped
<1>2. Dropped' <=> Dropped
  BY DEF Dropped
<1>3. Joining' <=> Joining
  BY <1>2 DEF Joining
<1>4. FramesAreCounted' /\ OneCallPerIndex' /\ NamelessIsKept'
  BY DEF StreamInv, FramesAreCounted, OneCallPerIndex, NamelessIsKept
<1>5. ChunksAreKnown' /\ CallsArePassedOn'
  BY <1>3, Zenon DEF StreamInv, ChunksAreKnown, CallsArePassedOn
<1>6. ChunksJoin'
  <2>1. \A i : Shown(i)' <=> Shown(i)
    BY DEF Shown
  <2> QED  BY <1>3, <2>1, Zenon DEF StreamInv, ChunksJoin
<1> QED  BY <1>1, <1>4, <1>5, <1>6 DEF StreamInv

LEMMA StreamStart == ASSUME StreamInit PROVE StreamInv
<1>1. /\ source \in Sources /\ read = NothingRead /\ before = NothingRead /\ out = <<>>
      /\ body = "open"
  BY DEF StreamInit
<1>2. NothingRead \in Gatherings /\ NothingRead.calls = <<>> /\ NothingRead.lines = 0
      /\ NothingRead.chunks = 0 /\ NothingRead.text = 0
  <2>1. "" \in Words /\ <<>> \in Seq(CallRecords)
    BY DEF Words
  <2>2. ASSUME NEW w \in Words, NEW s \in Seq(CallRecords)
        PROVE  [text |-> 0, calls |-> s, reason |-> w, done |-> FALSE, failed |-> FALSE,
                junk |-> FALSE, lines |-> 0, chunks |-> 0] \in Gatherings
    BY DEF Gatherings
  <2>3. NothingRead \in Gatherings
    BY <2>1, <2>2, Zenon DEF NothingRead
  <2> QED  BY <2>3 DEF NothingRead
<1>3. StreamIsTyped
  BY <1>1, <1>2 DEF StreamIsTyped
<1>4. FramesAreCounted
  BY <1>1, <1>2, FramesAssumption DEF FramesAreCounted
<1>5. ~\E i : Known(read.calls, i)
  BY <1>1, <1>2 DEF Known
<1>6. OneCallPerIndex /\ NamelessIsKept /\ ChunksAreKnown /\ CallsArePassedOn
  BY <1>1, <1>2, <1>5
     DEF OneCallPerIndex, OneEach, NamelessIsKept, ChunksAreKnown, CallsArePassedOn
<1>7. ChunksJoin
  BY <1>1, <1>5, NothingJoined, Zenon DEF ChunksJoin, Shown
<1> QED  BY <1>3, <1>4, <1>6, <1>7 DEF StreamInv

LEMMA StreamStep == ASSUME StreamInv, [StreamNext]_streamVars PROVE StreamInv'
<1>1. body \in {"open", "ended", "broken"}
  BY DEF StreamInv, StreamIsTyped
<1>2. CASE Feed
  <2>1. PICK f \in Frames : Take(f)
    BY <1>2 DEF Feed
  <2>2. source' = source /\ body' = body /\ read.lines < MaxFrames
    BY <1>2 DEF Feed
  <2> QED  BY <1>1, <2>1, <2>2, TakeKeeps
<1>3. CASE End
  BY <1>3, NoStep DEF End
<1>4. CASE Break
  <2>1. PICK f \in Frames : IF ReadsTheRest THEN Take(f) ELSE UNCHANGED <<read, before, out>>
    BY <1>4 DEF Break
  <2>2. source' = source /\ body' = "broken" /\ read.lines < MaxFrames
    BY <1>4 DEF Break
  <2>3. CASE ReadsTheRest
    BY <2>1, <2>2, <2>3, TakeKeeps
  <2>4. CASE ~ReadsTheRest
    BY <2>1, <2>2, <2>4, NoStep
  <2> QED  BY <2>3, <2>4
<1>5. CASE UNCHANGED streamVars
  BY <1>1, <1>5, NoStep DEF streamVars
<1> QED  BY <1>2, <1>3, <1>4, <1>5 DEF StreamNext

LEMMA StreamAlways == StreamSpec => []StreamInv
<1>1. StreamInit => StreamInv
  BY StreamStart
<1>2. StreamInv /\ [StreamNext]_streamVars => StreamInv'
  BY StreamStep
<1> QED  BY <1>1, <1>2, PTL DEF StreamSpec

----------------------------------------------------------------------------
(* What follows from it.                                                   *)

LEMMA StreamsAreTyped == ASSUME StreamInv PROVE StreamTypeOK
<1>1. StreamIsTyped /\ FramesAreCounted /\ MaxFrames \in Nat
  BY FramesAssumption DEF StreamInv
<1>2. read.lines \in Nat /\ read.chunks \in Nat /\ before.lines \in Nat
  BY <1>1 DEF StreamIsTyped, Gatherings
<1>3. read.lines \in 0..MaxFrames /\ read.chunks \in 0..read.lines
  BY <1>1, <1>2 DEF FramesAreCounted
<1> QED  BY <1>1, <1>3 DEF StreamTypeOK, FramesAreCounted, StreamIsTyped

(* A stream is read frame by frame, and no more is passed on than is read. *)
THEOREM StreamTypeCorrect == StreamSpec => []StreamTypeOK
<1>1. StreamInv => StreamTypeOK
  BY StreamsAreTyped
<1> QED  BY <1>1, StreamAlways, PTL

(* Whatever frames a vendor sends: an error among them fails the request   *)
(* of both handlers, in all plugins but loomy and codebuddy.               *)
THEOREM ErrorsAreReported == StreamSpec => []MostReportFailures
<1>1. MostReportFailures
  <2> SUFFICES ASSUME source \notin {"loomy", "codebuddy"}, read.failed
               PROVE  StreamFailure # "none" /\ CompletionFailure # "none"
    BY DEF MostReportFailures, FailuresAreReported
  <2>1. Folded = read
    BY DEF Folded
  <2> QED  BY <2>1 DEF StreamFailure, CompletionFailure
<1> QED  BY <1>1, PTL

LEMMA MaxIs ==
  ASSUME NEW S \in SUBSET Nat, NEW n \in S, \A k \in S : k <= n PROVE Max(S) = n
<1>1. \A k \in S : n >= k
  OBVIOUS
<1>2. Max(S) \in S /\ \A k \in S : Max(S) >= k
  <2>1. \E m \in S : \A k \in S : m >= k
    BY <1>1
  <2> QED  BY <2>1 DEF Max
<1>3. n \in Nat /\ Max(S) \in Nat /\ Max(S) <= n /\ Max(S) >= n
  BY <1>2
<1> QED  BY <1>3

(* The chunk a plugin closes the stream with is the last to give a reason. *)
LEMMA LastIsTold ==
  ASSUME out \in Seq(FrameRecords), NEW said, Chunks = Append(out, Finish(said))
  PROVE  said # "" => ClientReason = said
<1>1. DOMAIN Chunks = 1..Len(out) + 1 /\ Len(out) \in Nat /\ Chunks[Len(out) + 1] = Finish(said)
  <2> DEFINE T == FrameRecords \union {Finish(said)}
  <2>1. out \in Seq(T) /\ Finish(said) \in T
    OBVIOUS
  <2> HIDE DEF T
  <2> QED  BY <2>1, LongerIs
<1>2. Finish(said).reason = said
  BY DEF Finish, Frame
<1> DEFINE told == {k \in DOMAIN Chunks : Chunks[k].reason # ""}
<1>3. said # "" => Len(out) + 1 \in told /\ told \in SUBSET DOMAIN Chunks
  <2>1. Len(out) + 1 \in DOMAIN Chunks
    BY <1>1
  <2>2. said # "" => Chunks[Len(out) + 1].reason # ""
    BY <1>1, <1>2, Zenon
  <2> QED  BY <2>1, <2>2, Zenon
<1>4. said # "" => ClientReason = Chunks[Max(told)].reason
  BY <1>3, Zenon DEF ClientReason
<1> HIDE DEF told
<1>5. ASSUME Len(out) + 1 \in told, told \in SUBSET DOMAIN Chunks
      PROVE  Chunks[Max(told)].reason = said
  <2>1. told \in SUBSET Nat /\ \A k \in told : k <= Len(out) + 1
    BY <1>1, <1>5
  <2>2. Max(told) = Len(out) + 1
    BY <1>5, <2>1, MaxIs
  <2> QED  BY <1>1, <1>2, <2>2
<1> QED  BY <1>3, <1>4, <1>5, Zenon

(* Whatever came before the cut: cline, raccoon and loomy never tell it as *)
(* a complete answer, nor lobsterai if it is in the middle of a call.      *)
THEOREM CutsAreTold == StreamSpec => []CutIsTold
<1>1. StreamInv => CutIsTold
  <2> SUFFICES ASSUME StreamInv, ~read.done, read.reason = ""
               PROVE  /\ source \in {"cline", "raccoon", "loomy"} => CompletionReason = "length"
                      /\ source = "lobsterai" /\ read.calls # <<>> => CompletionReason = "length"
                      /\ source = "raccoon" => ClientReason = "length"
    BY Zenon DEF CutIsTold
  <2>1. ClineReason(read) = "length"
    BY Zenon DEF ClineReason
  <2>2. source \in {"cline", "raccoon"} => CompletionReason = "length"
    BY <2>1 DEF CompletionReason
  <2>3. source = "loomy" => CompletionReason = "length"
    BY DEF CompletionReason, LoomyReason
  <2>4. source = "lobsterai" /\ read.calls # <<>> => CompletionReason = "length"
    BY DEF CompletionReason, LobsterAIReason
  <2>5. ASSUME source = "raccoon" PROVE ClientReason = "length"
    <3>1. Chunks = Append(out, Finish("length")) /\ out \in Seq(FrameRecords)
      BY <2>1, <2>5 DEF Chunks, StreamInv, StreamIsTyped
    <3>2. "length" # ""
      OBVIOUS
    <3> QED  BY <3>1, <3>2, LastIsTold, Zenon
  <2> QED  BY <2>2, <2>3, <2>4, <2>5
<1> QED  BY <1>1, StreamAlways, PTL

(* A call of the completion is the call that was gathered, under its name. *)
LEMMA FinalCallIs ==
  ASSUME NEW call \in CallRecords
  PROVE  /\ FinalCall(call).index = call.index /\ FinalCall(call).name = call.name
         /\ source = "codearts" => FinalCall(call).id = IdOr(call) /\ FinalCall(call).args = call.args
         /\ source \in {"cline", "lobsterai"} =>
              /\ FinalCall(call).id = IdOr(call)
              /\ FinalCall(call).args = OrEmptyObject(call.args)
         /\ source \in {"qoder", "raccoon", "loomy"} => FinalCall(call) = call
<1> DEFINE typed == call \in [index : Nat, id : Words, name : Words, args : Seq(STRING)]
<1>1. typed
  BY DEF CallRecords
<1>2. CASE source = "codearts"
  BY <1>1, <1>2 DEF FinalCall
<1>3. CASE source \in {"cline", "lobsterai"}
  BY <1>1, <1>3 DEF FinalCall
<1>4. CASE source \in {"qoder", "raccoon", "loomy"}
  BY <1>4 DEF FinalCall
<1>5. CASE source = "codebuddy"
  BY <1>1, <1>5 DEF FinalCall
<1>6. CASE source = "trae"
  BY <1>1, <1>6 DEF FinalCall
<1>7. CASE source \notin {"codearts", "cline", "lobsterai", "qoder", "raccoon", "loomy", "codebuddy", "trae"}
  BY <1>7 DEF FinalCall
<1> QED  BY <1>2, <1>3, <1>4, <1>5, <1>6, <1>7

LEMMA CompletionCallIs ==
  ASSUME StreamInv, source # "codebuddy", NEW call \in CompletionCalls
  PROVE  \E k \in DOMAIN read.calls :
           /\ read.calls[k] \in CallRecords /\ call = FinalCall(read.calls[k])
           /\ source \in {"cline", "raccoon"} => read.calls[k].name # NoName
<1>1. Folded = read
  BY DEF Folded
<1>2. PICK k \in DOMAIN read.calls :
        /\ call = FinalCall(read.calls[k])
        /\ source \in {"cline", "raccoon"} => read.calls[k].name # NoName
  BY <1>1, Zenon DEF CompletionCalls
<1>3. read.calls \in Seq(CallRecords)
  BY DEF StreamInv, StreamIsTyped, Gatherings
<1>4. read.calls[k] \in CallRecords
  BY <1>3
<1> QED  BY <1>2, <1>4

(* The closing chunk is no fragment of a call.                             *)
LEMMA ClosedIs ==
  ASSUME out \in Seq(FrameRecords), NEW said, Chunks = Append(out, Finish(said))
  PROVE  /\ DOMAIN Chunks = 1..Len(out) + 1 /\ DOMAIN out = 1..Len(out) /\ Len(out) \in Nat
         /\ Chunks[Len(out) + 1].what = "finish"
         /\ \A k \in DOMAIN out : Chunks[k] = out[k]
         /\ \A i : Joined(Chunks, i) = Joined(out, i)
<1> DEFINE T == FrameRecords \union {Finish(said)}
<1>1. out \in Seq(T) /\ Finish(said) \in T
  OBVIOUS
<1> HIDE DEF T
<1>2. DOMAIN Chunks = 1..Len(out) + 1 /\ Len(out) \in Nat /\ DOMAIN out = 1..Len(out)
      /\ Chunks[Len(out) + 1] = Finish(said) /\ \A k \in DOMAIN out : Chunks[k] = out[k]
  BY <1>1, LongerIs
<1>3. Finish(said).what = "finish"
  BY DEF Finish, Frame
<1>4. \A i : ~IsFragment(Finish(said), i)
  BY <1>3 DEF IsFragment
<1>5. \A i : Joined(Append(out, Finish(said)), i) = Joined(out, i)
  BY <1>4, JoinedAppends
<1> QED  BY <1>2, <1>3, <1>5

LEMMA NamedAreTold == ASSUME StreamInv PROVE CallsAreNamed
<1>1. ASSUME source \in {"cline", "raccoon", "loomy"}, NEW call \in CompletionCalls
      PROVE  call.name # NoName
  <2>1. PICK k \in DOMAIN read.calls :
           /\ read.calls[k] \in CallRecords /\ call = FinalCall(read.calls[k])
           /\ source \in {"cline", "raccoon"} => read.calls[k].name # NoName
    BY <1>1, CompletionCallIs
  <2>2. source = "loomy" => read.calls[k].name # NoName
    BY DEF StreamInv, NamelessIsKept
  <2>3. call.name = read.calls[k].name
    BY <2>1, FinalCallIs
  <2> QED  BY <1>1, <2>1, <2>2, <2>3
<1>2. ASSUME source \in {"raccoon", "trae"}, NEW k \in DOMAIN Chunks, Chunks[k].what = "call"
      PROVE  Chunks[k].name # NoName
  <2>1. \E said : Chunks = Append(out, Finish(said))
    BY <1>2 DEF Chunks
  <2>2. out \in Seq(FrameRecords)
    BY DEF StreamInv, StreamIsTyped
  <2>3. k \in DOMAIN out /\ Chunks[k] = out[k]
    BY <1>2, <2>1, <2>2, ClosedIs
  <2> QED  BY <1>2, <2>3 DEF StreamInv, NamelessIsKept
<1> QED  BY <1>1, <1>2, Zenon DEF CallsAreNamed

LEMMA EmptyIsWhole ==
  /\ ~Truncated(<<>>)
  /\ \A args : ~Truncated(args) => ~Truncated(OrEmptyObject(args))
BY Zenon DEF Truncated, OrEmptyObject, Object

LEMMA ToolCallsAreWhole ==
  ASSUME NEW r, ClineReason(r) = "tool_calls", NEW k \in Named(r) PROVE ~Truncated(r.calls[k].args)
BY Zenon DEF ClineReason, SomeCut

LEMMA CutCallsAreNotMade == ASSUME StreamInv PROVE CallsToMakeAreWhole
<1>1. ASSUME source \in {"cline", "raccoon", "lobsterai"}, CompletionReason = "tool_calls",
             NEW call \in CompletionCalls
      PROVE  ~Truncated(call.args)
  <2>1. PICK k \in DOMAIN read.calls :
           /\ read.calls[k] \in CallRecords /\ call = FinalCall(read.calls[k])
           /\ source \in {"cline", "raccoon"} => read.calls[k].name # NoName
    BY <1>1, CompletionCallIs
  <2>2. ~Truncated(read.calls[k].args)
    <3>1. CASE source \in {"cline", "raccoon"}
      <4>1. ClineReason(read) = "tool_calls"
        BY <1>1, <3>1 DEF CompletionReason
      <4>2. k \in Named(read)
        BY <2>1, <3>1, Zenon DEF Named
      <4> QED  BY <4>1, <4>2, ToolCallsAreWhole
    <3>2. CASE source = "lobsterai"
      <4>1. LobsterAIReason(read) = "tool_calls"
        BY <1>1, <3>2 DEF CompletionReason
      <4>2. ~SomeCut(read, DOMAIN read.calls)
        BY <4>1, Zenon DEF LobsterAIReason
      <4> QED  BY <4>2, Zenon DEF SomeCut
    <3> QED  BY <1>1, <3>1, <3>2
  <2>3. call.args \in {read.calls[k].args, OrEmptyObject(read.calls[k].args)}
    BY <1>1, <2>1, FinalCallIs
  <2> QED  BY <2>2, <2>3, EmptyIsWhole
<1>2. ASSUME source = "raccoon", ClientReason = "tool_calls", NEW k \in DOMAIN read.calls
      PROVE  ~Truncated(ClientArgs(read.calls[k].index))
  <2> DEFINE i == read.calls[k].index
  <2>1. out \in Seq(FrameRecords) /\ read.calls \in Seq(CallRecords) /\ i \in Nat
    <3>1. out \in Seq(FrameRecords) /\ read.calls \in Seq(CallRecords)
      BY DEF StreamInv, StreamIsTyped, Gatherings
    <3>2. read.calls[k] \in CallRecords
      BY <3>1
    <3> QED  BY <3>1, <3>2 DEF CallRecords
  <2>2. Chunks = Append(out, Finish(ClineReason(read)))
    BY <1>2 DEF Chunks
  <2>3. ClineReason(read) = "tool_calls"
    <3>1. ClineReason(read) # ""
      BY Zenon DEF ClineReason
    <3> QED  BY <1>2, <2>1, <2>2, <3>1, LastIsTold, Zenon
  <2>4. ClientArgs(i) = Joined(Chunks, i)
    BY Zenon DEF ClientArgs, Joined
  <2>5. Joined(Chunks, i) = Joined(out, i)
    BY <2>1, <2>2, ClosedIs
  <2>6. Known(read.calls, i)
    BY Zenon DEF Known
  <2>7. k = Position(read.calls, i)
    BY <1>2, <2>1, <2>6, CallIs DEF StreamInv, OneCallPerIndex
  <2>8. CallAt(read.calls, i) = read.calls[k]
    BY <2>7, Zenon DEF CallAt
  <2>9. Joined(out, i) = IF Shown(i) THEN CallAt(read.calls, i).args ELSE <<>>
    BY <1>2, <2>1, Zenon DEF StreamInv, ChunksJoin, Joining
  <2>10. CASE read.calls[k].name = NoName
    <3>1. ~Shown(i)
      BY <1>2, <2>8, <2>10, Zenon DEF Shown
    <3> QED  BY <2>4, <2>5, <2>9, <3>1, EmptyIsWhole, Zenon
  <2>11. CASE read.calls[k].name # NoName
    <3>1. ~Truncated(read.calls[k].args)
      BY <2>3, <2>11, ToolCallsAreWhole, Zenon DEF Named
    <3>2. Shown(i)
      BY <2>6, <2>8, <2>11, Zenon DEF Shown
    <3> QED  BY <2>4, <2>5, <2>8, <2>9, <3>1, <3>2, Zenon
  <2> QED  BY <2>10, <2>11
<1> QED  BY <1>1, <1>2, Zenon DEF CallsToMakeAreWhole

(* Whatever a vendor sends and however it ends, a client is told no call   *)
(* without a name and, where the plugin looks at them, no cut arguments.   *)
THEOREM CallsAreFitToMake == StreamSpec => []CallsCanBeMade
<1>1. StreamInv => CallsCanBeMade
  BY NamedAreTold, CutCallsAreNotMade DEF CallsCanBeMade
<1> QED  BY <1>1, StreamAlways, PTL

----------------------------------------------------------------------------
(* The same call to every client, if the vendor gives a call one name and  *)
(* one id.                                                                 *)

GivenIn(f, names, ids) ==
    f.what = "call" => f.name \in {NoName, names[f.index]} /\ f.id \in {NoId, ids[f.index]}

CallsAreSteady(names, ids) ==
    /\ \A k \in DOMAIN read.calls :
         LET call == read.calls[k] IN
         call.name \in {NoName, names[call.index]} /\ call.id \in {NoId, ids[call.index]}
    /\ \A k \in DOMAIN out : GivenIn(out[k], names, ids)

LEMMA TakeKeepsSteady ==
  ASSUME NEW names, NEW ids, CallsAreSteady(names, ids), NEW f, Taken(f), GivenIn(f, names, ids)
  PROVE  CallsAreSteady(names, ids)'
<1>1. StreamIsTyped /\ OneCallPerIndex /\ f \in FrameRecords /\ f.index \in Nat
      /\ read' = Absorbed(read, f) /\ Grew(f)
  BY TakenGrew DEF Taken, Take, StreamInv, FrameRecords
<1>2. read \in Gatherings /\ read.calls \in Seq(CallRecords) /\ out \in Seq(FrameRecords)
      /\ DOMAIN out = 1..Len(out) /\ Len(out) \in Nat
  BY <1>1 DEF StreamIsTyped, Gatherings
<1>3. read'.calls = IF f.what = "call" THEN Gathered(read.calls, f) ELSE read.calls
  BY <1>1, <1>2, AbsorbedIs
<1>4. ASSUME NEW k \in DOMAIN read.calls
      PROVE  /\ read.calls[k].name \in {NoName, names[read.calls[k].index]}
             /\ read.calls[k].id \in {NoId, ids[read.calls[k].index]}
  BY Zenon DEF CallsAreSteady
<1>5. ASSUME NEW k \in DOMAIN read'.calls
      PROVE  /\ read'.calls[k].name \in {NoName, names[read'.calls[k].index]}
             /\ read'.calls[k].id \in {NoId, ids[read'.calls[k].index]}
  <2>1. CASE read'.calls = read.calls
    BY <1>4, <1>5, <2>1
  <2>2. CASE read'.calls # read.calls
    <3>1. f.what = "call" /\ read'.calls = Gathered(read.calls, f)
      BY <1>3, <2>2
    <3>2. f.name \in {NoName, names[f.index]} /\ f.id \in {NoId, ids[f.index]}
      BY <3>1, Zenon DEF GivenIn
    <3>3. CASE Known(read.calls, f.index) /\ read'.calls =
                 [read.calls EXCEPT ![Position(read.calls, f.index)] =
                    Merged(CallAt(read.calls, f.index), f)]
      <4> DEFINE p == Position(read.calls, f.index)
                 call == Merged(read.calls[p], f)
      <4>1. p \in DOMAIN read.calls /\ read.calls[p].index = f.index
            /\ CallAt(read.calls, f.index) = read.calls[p] /\ read.calls[p] \in CallRecords
        BY <1>1, <1>2, <3>3, CallIs DEF CallAt
      <4>2. /\ call.index = f.index
            /\ call.id = IF f.id # NoId THEN f.id ELSE read.calls[p].id
            /\ call.name = IF f.name # NoName THEN f.name ELSE read.calls[p].name
        BY <1>1, <4>1, MergedIs
      <4>3. read'.calls = [read.calls EXCEPT ![p] = call]
        BY <3>3, <4>1
      <4>4. /\ read.calls[p].name \in {NoName, names[f.index]}
            /\ read.calls[p].id \in {NoId, ids[f.index]}
        BY <1>4, <4>1
      <4> HIDE DEF p, call
      <4>5. CASE k = p
        <5>1. read'.calls[k] = call
          BY <4>1, <4>3, <4>5
        <5> QED  BY <3>2, <4>2, <4>4, <5>1
      <4>6. CASE k # p
        <5>1. k \in DOMAIN read.calls /\ read'.calls[k] = read.calls[k]
          BY <1>5, <4>1, <4>3, <4>6
        <5> QED  BY <1>4, <5>1
      <4> QED  BY <4>5, <4>6
    <3>4. CASE read'.calls = Append(read.calls, Begun(f))
      <4>1. Begun(f) \in CallRecords /\ Begun(f).index = f.index /\ Begun(f).name = f.name
            /\ Begun(f).id = f.id
        BY <1>1 DEF Begun, CallRecords, FrameRecords
      <4>2. DOMAIN read'.calls = 1..Len(read.calls) + 1 /\ DOMAIN read.calls = 1..Len(read.calls)
            /\ Len(read.calls) \in Nat /\ read'.calls[Len(read.calls) + 1] = Begun(f)
            /\ \A j \in DOMAIN read.calls : read'.calls[j] = read.calls[j]
        BY <1>2, <3>4, <4>1, LongerIs
      <4>3. k \in DOMAIN read.calls \/ k = Len(read.calls) + 1
        BY <1>5, <4>2
      <4>4. CASE k \in DOMAIN read.calls
        BY <1>4, <4>2, <4>4
      <4>5. CASE k = Len(read.calls) + 1
        BY <3>2, <4>1, <4>2, <4>5
      <4> QED  BY <4>3, <4>4, <4>5
    <3> QED  BY <1>1, <1>2, <2>2, <3>1, <3>3, <3>4, GatheredIs
  <2> QED  BY <2>1, <2>2
<1>6. ASSUME NEW k \in DOMAIN out' PROVE GivenIn(out'[k], names, ids)
  <2>1. \A j \in DOMAIN out : GivenIn(out[j], names, ids)
    BY Zenon DEF CallsAreSteady
  <2>2. CASE out' = out
    BY <1>6, <2>1, <2>2
  <2>3. CASE out' # out
    <3>1. PICK g \in FrameRecords :
            /\ PassedOn(f) = <<g>> /\ out' = Append(out, g) /\ g.what = f.what /\ g.index = f.index
      BY <1>1, <2>3 DEF Grew
    <3>2. DOMAIN out' = 1..Len(out) + 1 /\ out'[Len(out) + 1] = g
          /\ \A j \in 1..Len(out) : out'[j] = out[j]
      BY <1>2, <3>1, LongerIs
    <3>3. GivenIn(g, names, ids)
      <4> SUFFICES ASSUME f.what = "call"
                   PROVE  g.name \in {NoName, names[f.index]} /\ g.id \in {NoId, ids[f.index]}
        BY <3>1 DEF GivenIn
      <4>1. CASE source = "raccoon"
        <5> DEFINE call == CallAt(read'.calls, f.index)
        <5>1. read'.calls = Gathered(read.calls, f) /\ read'.calls \in Seq(CallRecords)
          BY <1>1, <1>2, <1>3, GatheredIs
        <5>2. g.id = call.id /\ g.name = call.name
          <6> DEFINE gathered == CallAt(Gathered(read.calls, f), f.index)
          <6>1. PassedOn(f) = <<>> \/ \E h \in FrameRecords :
                  PassedOn(f) = <<h>> /\ h.id = gathered.id /\ h.name = gathered.name
            BY <1>1, <4>1, RaccoonDeltaIs
          <6> HIDE DEF gathered
          <6>2. g.id = gathered.id /\ g.name = gathered.name
            BY <3>1, <6>1
          <6> QED  BY <5>1, <6>2 DEF gathered
        <5>3. Known(read'.calls, f.index)
          BY <1>1, <1>2, <4>1, <5>1, GatheredAt DEF OneCallPerIndex
        <5>4. Position(read'.calls, f.index) \in DOMAIN read'.calls /\ call.index = f.index
          BY <1>1, <5>1, <5>3, CallIs
        <5>5. call.name \in {NoName, names[f.index]} /\ call.id \in {NoId, ids[f.index]}
          BY <1>5, <5>4, Zenon DEF CallAt
        <5> QED  BY <5>2, <5>5
      <4>2. CASE source # "raccoon"
        <5>1. PassedOn(f) \in {<<>>, <<f>>}
          BY <4>2 DEF PassedOn
        <5>2. g = f
          BY <3>1, <5>1
        <5> QED  BY <5>2 DEF GivenIn
      <4> QED  BY <4>1, <4>2
    <3>4. k \in 1..Len(out) \/ k = Len(out) + 1
      BY <1>2, <1>6, <3>2
    <3>5. CASE k \in 1..Len(out)
      BY <1>2, <2>1, <3>2, <3>5
    <3>6. CASE k = Len(out) + 1
      BY <3>2, <3>3, <3>6
    <3> QED  BY <3>4, <3>5, <3>6
  <2> QED  BY <2>2, <2>3
<1> QED  BY <1>5, <1>6, Zenon DEF CallsAreSteady

LEMMA SteadyAlways ==
  ASSUME NEW names, NEW ids, \A f \in Frames : GivenIn(f, names, ids)
  PROVE  StreamSpec => [](StreamInv /\ CallsAreSteady(names, ids))
<1>1. StreamInit => CallsAreSteady(names, ids)
  <2>1. NothingRead.calls = <<>>
    BY DEF NothingRead
  <2>2. ASSUME StreamInit PROVE read.calls = <<>> /\ out = <<>>
    BY <2>1, <2>2, Zenon DEF StreamInit
  <2>3. DOMAIN <<>> = {}
    OBVIOUS
  <2> QED  BY <2>2, <2>3, Zenon DEF CallsAreSteady
<1>2. StreamInv /\ CallsAreSteady(names, ids) /\ [StreamNext]_streamVars => CallsAreSteady(names, ids)'
  <2> SUFFICES ASSUME StreamInv, CallsAreSteady(names, ids), [StreamNext]_streamVars
               PROVE  CallsAreSteady(names, ids)'
    OBVIOUS
  <2>1. CASE UNCHANGED <<read, out>>
    BY <2>1, Zenon DEF CallsAreSteady
  <2>2. ASSUME NEW f \in Frames, Take(f), source' = source PROVE CallsAreSteady(names, ids)'
    <3>1. Taken(f) /\ GivenIn(f, names, ids)
      BY <2>2, FramesAreTyped DEF Taken
    <3> QED  BY <3>1, TakeKeepsSteady
  <2>3. CASE Feed
    BY <2>2, <2>3 DEF Feed
  <2>4. CASE Break
    BY <2>1, <2>2, <2>4 DEF Break
  <2> QED  BY <2>1, <2>3, <2>4 DEF StreamNext, End, streamVars
<1> QED  BY <1>1, <1>2, StreamAlways, PTL DEF StreamSpec

(* The first and the last of some positions.                               *)
LEMMA Outermost ==
  ASSUME NEW n \in Nat, NEW S \in SUBSET (1..n), S # {}
  PROVE  Min(S) \in S /\ (\A k \in S : Min(S) <= k) /\ Max(S) \in S
<1>1. PICK first \in S : \A k \in S : first <= k
  BY Least
<1>2. Min(S) \in S /\ \A k \in S : Min(S) <= k
  BY <1>1 DEF Min
<1>3. Max(S) \in S
  <2> DEFINE T == {n - k : k \in S}
  <2>1. T \in SUBSET Nat /\ T # {}
    OBVIOUS
  <2>2. PICK least \in T : \A m \in T : least <= m
    BY <2>1, Least
  <2>3. PICK last \in S : least = n - last
    BY <2>2
  <2>4. ASSUME NEW k \in S PROVE last >= k
    <3>1. n - k \in T /\ k \in 1..n /\ last \in 1..n
      BY <2>3
    <3>2. n - last <= n - k
      <4> HIDE DEF T
      <4> QED  BY <2>2, <2>3, <3>1
    <3> QED  BY <3>1, <3>2
  <2>5. \E m \in S : \A k \in S : m >= k
    BY <2>4
  <2> QED  BY <2>5 DEF Max
<1> QED  BY <1>2, <1>3

(* Which chunks are fragments, and of which call, no plugin changes; nor   *)
(* their names, arguments and, but for codearts, ids.                      *)
LEMMA ChunksAreOut ==
  ASSUME StreamInv, Joining, NEW i
  PROVE  /\ FragmentsOf(Chunks, i) = FragmentsOf(out, i) /\ Joined(Chunks, i) = Joined(out, i)
         /\ FragmentsOf(out, i) \in SUBSET DOMAIN out
         /\ \A k \in FragmentsOf(out, i) :
              /\ out[k] \in FrameRecords /\ out[k].what = "call" /\ out[k].index = i
              /\ Chunks[k].name = out[k].name
              /\ IF source = "codearts" /\ ~read.junk
                 THEN Chunks[k].id = FilledIds(out)[k].id ELSE Chunks[k].id = out[k].id
<1>1. out \in Seq(FrameRecords)
  BY DEF StreamInv, StreamIsTyped
<1>2. FragmentsOf(out, i) \in SUBSET DOMAIN out
      /\ \A k \in FragmentsOf(out, i) : out[k].what = "call" /\ out[k].index = i
  BY Zenon DEF FragmentsOf, IsFragment
<1>3. \A k \in FragmentsOf(out, i) : out[k] \in FrameRecords
  BY <1>1, <1>2
<1>4. CASE source \in {"cline", "qoder", "loomy"} \/ (source = "codearts" /\ read.junk)
  <2>1. Chunks = out
    BY <1>4 DEF Chunks
  <2> QED  BY <1>2, <1>3, <1>4, <2>1
<1>5. CASE source = "raccoon"
  <2>1. Chunks = Append(out, Finish(ClineReason(read)))
    BY <1>5 DEF Chunks
  <2>2. /\ DOMAIN Chunks = 1..Len(out) + 1 /\ DOMAIN out = 1..Len(out) /\ Len(out) \in Nat
        /\ Chunks[Len(out) + 1].what = "finish" /\ \A k \in DOMAIN out : Chunks[k] = out[k]
        /\ Joined(Chunks, i) = Joined(out, i)
    BY <1>1, <2>1, ClosedIs
  <2>3. \A k \in DOMAIN Chunks : k \in DOMAIN out \/ k = Len(out) + 1
    BY <2>2
  <2>4. DOMAIN out \in SUBSET DOMAIN Chunks
    BY <2>2
  <2>5. FragmentsOf(Chunks, i) = FragmentsOf(out, i)
    BY <2>2, <2>3, <2>4 DEF FragmentsOf, IsFragment
  <2> QED  BY <1>2, <1>3, <1>5, <2>2, <2>5
<1>6. CASE source = "codearts" /\ ~read.junk
  <2>1. Chunks = FilledIds(out)
    BY <1>6 DEF Chunks
  <2>2. DOMAIN FilledIds(out) = DOMAIN out
    BY DEF FilledIds
  <2>3. ASSUME NEW k \in DOMAIN out
        PROVE  /\ FilledIds(out)[k].what = out[k].what /\ FilledIds(out)[k].index = out[k].index
               /\ FilledIds(out)[k].name = out[k].name /\ FilledIds(out)[k].args = out[k].args
    <3>1. out[k] \in FrameRecords
      BY <1>1
    <3>2. FilledIds(out)[k] = out[k] \/ \E id : FilledIds(out)[k] = [out[k] EXCEPT !.id = id]
      BY Zenon DEF FilledIds
    <3> QED  BY <3>1, <3>2 DEF FrameRecords
  <2>4. \A k \in DOMAIN out : IsFragment(FilledIds(out)[k], i) <=> IsFragment(out[k], i)
    BY <2>3 DEF IsFragment
  <2>5. FragmentsOf(FilledIds(out), i) = FragmentsOf(out, i)
    BY <2>2, <2>4, Zenon DEF FragmentsOf
  <2>6. [k \in DOMAIN FilledIds(out) |->
           IF IsFragment(FilledIds(out)[k], i) THEN FilledIds(out)[k].args ELSE <<>>]
        = [k \in DOMAIN out |-> IF IsFragment(out[k], i) THEN out[k].args ELSE <<>>]
    BY <2>2, <2>3, <2>4
  <2>7. Joined(FilledIds(out), i) = Joined(out, i)
    BY <2>6, Zenon DEF Joined
  <2>8. FragmentsOf(Chunks, i) = FragmentsOf(out, i) /\ Joined(Chunks, i) = Joined(out, i)
    BY <2>1, <2>5, <2>7, Zenon
  <2>9. \A k \in FragmentsOf(out, i) : Chunks[k].name = out[k].name /\ Chunks[k].id = FilledIds(out)[k].id
    BY <1>2, <2>1, <2>3, Zenon
  <2> QED  BY <1>2, <1>3, <1>6, <2>8, <2>9
<1>7. source \in {"codearts", "cline", "qoder", "loomy", "raccoon"}
  BY Zenon DEF Joining
<1> QED  BY <1>4, <1>5, <1>6, <1>7

(* The fragments of a call of codearts get its id, or its placeholder.     *)
LEMMA FilledIsTheCallsId ==
  ASSUME NEW names, NEW ids, StreamInv, CallsAreSteady(names, ids), source = "codearts", IdsComeFirst,
         NEW i \in Nat, Known(read.calls, i)
  PROVE  /\ FragmentsOf(out, i) # {}
         /\ \A k \in FragmentsOf(out, i) : FilledIds(out)[k].id = IdOr(CallAt(read.calls, i))
<1> DEFINE call == CallAt(read.calls, i)
           known(k) == {j \in FragmentsOf(out, out[k].index) : j <= k /\ out[j].id # NoId}
<1>1. Joining /\ out \in Seq(FrameRecords) /\ read.calls \in Seq(CallRecords)
  BY DEF StreamInv, StreamIsTyped, Gatherings, Joining
<1>2. /\ FragmentsOf(out, i) \in SUBSET DOMAIN out
      /\ \A k \in FragmentsOf(out, i) :
           out[k] \in FrameRecords /\ out[k].what = "call" /\ out[k].index = i
  BY <1>1, ChunksAreOut
<1>3. call.index = i /\ call.id \in {NoId, ids[i]}
  <2>1. /\ Position(read.calls, i) \in DOMAIN read.calls
        /\ read.calls[Position(read.calls, i)].index = i /\ call = read.calls[Position(read.calls, i)]
    BY <1>1, CallIs DEF CallAt
  <2> HIDE DEF call
  <2> QED  BY <2>1, Zenon DEF CallsAreSteady
<1>4. FragmentsOf(out, i) # {}
      /\ (call.id # NoId => \E k \in FragmentsOf(out, i) : out[k].id # NoId)
  BY Zenon DEF StreamInv, CallsArePassedOn, FragmentsOf
<1>5. \A k \in FragmentsOf(out, i) : out[k].id # NoId => out[k].id = ids[i] /\ call.id # NoId
  <2>1. \A k \in FragmentsOf(out, i) : GivenIn(out[k], names, ids)
    BY <1>2, Zenon DEF CallsAreSteady
  <2>2. \A k \in FragmentsOf(out, i) : out[k].id # NoId => out[k].id = ids[i]
    BY <1>2, <2>1, Zenon DEF GivenIn
  <2>3. \A k \in FragmentsOf(out, i) : out[k].id # NoId => call.id # NoId
    BY <1>1, <1>2, Zenon DEF StreamInv, ChunksAreKnown
  <2> QED  BY <2>2, <2>3
<1>6. ASSUME NEW k \in FragmentsOf(out, i)
      PROVE  FilledIds(out)[k].id = IdOr(call)
  <2> DEFINE id == IF known(k) = {} THEN Placeholder(out[k].index) ELSE out[Max(known(k))].id
  <2>1. FilledIds(out)[k] = [out[k] EXCEPT !.id = id]
    BY <1>2, Zenon DEF FilledIds
  <2>2. FilledIds(out)[k].id = id
    <3> HIDE DEF id
    <3> QED  BY <1>2, <2>1 DEF FrameRecords
  <2>3. \A j \in known(k) : j \in FragmentsOf(out, i) /\ out[j].id # NoId
    BY <1>2, Zenon
  <2>4. CASE call.id = NoId
    <3>1. known(k) = {}
      BY <1>5, <2>3, <2>4, Zenon
    <3> QED  BY <1>2, <1>3, <2>2, <2>4, <3>1, Zenon DEF IdOr
  <2>5. CASE call.id # NoId
    <3> DEFINE first == Min(FragmentsOf(out, i))
    <3>1. PICK m \in FragmentsOf(out, i) : out[m].id # NoId
      BY <1>4, <2>5
    <3>2. Len(out) \in Nat /\ FragmentsOf(out, i) \in SUBSET (1..Len(out))
      BY <1>1, <1>2
    <3>3. first \in FragmentsOf(out, i) /\ \A j \in FragmentsOf(out, i) : first <= j
      BY <1>4, <3>2, Outermost
    <3>4. out[first].id # NoId
      BY <1>2, <3>1, Zenon DEF IdsComeFirst
    <3>5. first \in known(k)
      BY <1>2, <1>6, <3>3, <3>4, Zenon
    <3>6. known(k) \in SUBSET (1..Len(out)) /\ known(k) # {}
      BY <2>3, <3>2, <3>5, Zenon
    <3>7. Max(known(k)) \in known(k)
      <4> HIDE DEF known
      <4> QED  BY <3>2, <3>6, Outermost
    <3>8. out[Max(known(k))].id = ids[i]
      BY <1>5, <2>3, <3>7, Zenon
    <3> QED  BY <1>3, <2>2, <2>5, <3>6, <3>8, Zenon DEF IdOr
  <2> QED  BY <2>4, <2>5
<1> QED  BY <1>4, <1>6

LEMMA AnswersAlike ==
  ASSUME NEW names, NEW ids, StreamInv, CallsAreSteady(names, ids) PROVE AnswersAgree
<1> SUFFICES ASSUME source \notin {"trae", "codebuddy", "lobsterai"}, IdsComeFirst,
                    ~(source = "loomy" /\ Dropped), NEW call \in CompletionCalls
             PROVE  /\ ClientNames(call.index) \ {call.name} = {}
                    /\ OrEmptyObject(ClientArgs(call.index)) = OrEmptyObject(call.args)
                    /\ ClientIds(call.index) \ {NoId} \subseteq {call.id}
  BY Zenon DEF AnswersAgree
<1>1. Joining
  <2>1. source \in {"codearts", "cline", "qoder", "raccoon", "loomy"}
    BY SourcesAssumption DEF StreamInv, StreamIsTyped
  <2> QED  BY <2>1, Zenon DEF Joining
<1>2. PICK n \in DOMAIN read.calls :
        /\ read.calls[n] \in CallRecords /\ call = FinalCall(read.calls[n])
        /\ source \in {"cline", "raccoon"} => read.calls[n].name # NoName
  BY CompletionCallIs
<1> DEFINE i == read.calls[n].index
           gathered == CallAt(read.calls, i)
<1>3. read.calls \in Seq(CallRecords) /\ i \in Nat /\ source # "trae"
  <2>1. read.calls \in Seq(CallRecords)
    BY DEF StreamInv, StreamIsTyped, Gatherings
  <2> QED  BY <1>2, <2>1 DEF CallRecords
<1>4. Known(read.calls, i) /\ gathered = read.calls[n]
  <2>1. Known(read.calls, i)
    BY Zenon DEF Known
  <2>2. n = Position(read.calls, i)
    BY <1>3, <2>1, CallIs DEF StreamInv, OneCallPerIndex
  <2> QED  BY <2>1, <2>2, Zenon DEF CallAt
<1>5. /\ call.index = i /\ call.name = gathered.name
      /\ source = "codearts" => call.id = IdOr(gathered) /\ call.args = gathered.args
      /\ source = "cline" => call.id = IdOr(gathered) /\ call.args = OrEmptyObject(gathered.args)
      /\ source \in {"qoder", "raccoon", "loomy"} => call = gathered
      /\ source \in {"cline", "raccoon"} => gathered.name # NoName
  BY <1>2, <1>4, FinalCallIs
<1>6. gathered.name \in {NoName, names[i]} /\ gathered.id \in {NoId, ids[i]}
  BY <1>4, Zenon DEF CallsAreSteady
<1> HIDE DEF i, gathered
<1>7. /\ FragmentsOf(Chunks, i) = FragmentsOf(out, i) /\ Joined(Chunks, i) = Joined(out, i)
      /\ FragmentsOf(out, i) \in SUBSET DOMAIN out
      /\ \A k \in FragmentsOf(out, i) :
           /\ out[k] \in FrameRecords /\ out[k].what = "call" /\ out[k].index = i
           /\ Chunks[k].name = out[k].name
           /\ IF source = "codearts" /\ ~read.junk
              THEN Chunks[k].id = FilledIds(out)[k].id ELSE Chunks[k].id = out[k].id
  BY <1>1, ChunksAreOut
<1>8. ASSUME NEW k \in FragmentsOf(out, i)
      PROVE  /\ out[k].name # NoName => out[k].name = gathered.name
             /\ out[k].id # NoId => out[k].id = gathered.id
  <2>1. out[k].name \in {NoName, names[i]} /\ out[k].id \in {NoId, ids[i]}
    BY <1>7, Zenon DEF CallsAreSteady, GivenIn
  <2>2. /\ out[k].name # NoName => gathered.name # NoName
        /\ out[k].id # NoId => gathered.id # NoId
    BY <1>1, <1>7, Zenon DEF StreamInv, ChunksAreKnown, gathered
  <2> QED  BY <1>6, <2>1, <2>2
<1>9. ClientNames(i) \ {call.name} = {}
  <2>1. \A k \in FragmentsOf(Chunks, i) : Chunks[k].name \in {NoName, call.name}
    BY <1>5, <1>7, <1>8
  <2> QED  BY <2>1 DEF ClientNames
<1>10. OrEmptyObject(ClientArgs(i)) = OrEmptyObject(call.args)
  <2>1. ClientArgs(i) = Joined(Chunks, i)
    BY Zenon DEF ClientArgs, Joined
  <2>2. Shown(i)
    BY <1>4, <1>5, Zenon DEF Shown, gathered
  <2>3. ClientArgs(i) = gathered.args
    BY <1>1, <1>3, <1>7, <2>1, <2>2, Zenon DEF StreamInv, ChunksJoin, gathered
  <2>4. OrEmptyObject(OrEmptyObject(gathered.args)) = OrEmptyObject(gathered.args)
    BY Zenon DEF OrEmptyObject
  <2>5. source \in {"codearts", "cline", "qoder", "raccoon", "loomy"}
    BY <1>1, Zenon DEF Joining
  <2> QED  BY <1>5, <2>3, <2>4, <2>5
<1>11. ClientIds(i) \ {NoId} \subseteq {call.id}
  <2> SUFFICES ASSUME NEW k \in FragmentsOf(out, i), Chunks[k].id # NoId PROVE Chunks[k].id = call.id
    BY <1>7, Zenon DEF ClientIds
  <2>1. gathered.id # NoId => IdOr(gathered) = gathered.id
    BY Zenon DEF IdOr
  <2>2. CASE source = "codearts" /\ ~read.junk
    <3>1. Chunks[k].id = IdOr(gathered)
      BY <1>3, <1>4, <1>7, <2>2, FilledIsTheCallsId DEF gathered
    <3> QED  BY <1>5, <2>2, <3>1
  <2>3. CASE ~(source = "codearts" /\ ~read.junk)
    <3>1. Chunks[k].id = out[k].id
      BY <1>7, <2>3
    <3>2. Chunks[k].id = gathered.id /\ gathered.id # NoId
      BY <1>8, <3>1
    <3>3. source \in {"codearts", "cline", "qoder", "raccoon", "loomy"}
      BY <1>1, Zenon DEF Joining
    <3> QED  BY <1>5, <2>1, <3>2, <3>3
  <2> QED  BY <2>2, <2>3
<1> QED  BY <1>5, <1>9, <1>10, <1>11

LEMMA IdsAreOne ==
  ASSUME NEW names, NEW ids, StreamInv, CallsAreSteady(names, ids) PROVE CodeArtsKeepsIds
<1> SUFFICES ASSUME source = "codearts", ~read.junk, IdsComeFirst, NEW n \in DOMAIN read.calls
             PROVE  Cardinality(ClientIds(read.calls[n].index)) = 1
  BY Zenon DEF CodeArtsKeepsIds, OneIdPerCall
<1> DEFINE i == read.calls[n].index
           id == IdOr(CallAt(read.calls, i))
<1>1. i \in Nat /\ Known(read.calls, i)
  <2>1. read.calls \in Seq(CallRecords)
    BY DEF StreamInv, StreamIsTyped, Gatherings
  <2>2. read.calls[n] \in CallRecords
    BY <2>1
  <2>3. Known(read.calls, i)
    BY Zenon DEF Known
  <2> QED  BY <2>2, <2>3 DEF CallRecords
<1> HIDE DEF i
<1>2. FragmentsOf(out, i) # {} /\ \A k \in FragmentsOf(out, i) : FilledIds(out)[k].id = id
  BY <1>1, FilledIsTheCallsId
<1>3. Joining
  BY DEF Joining
<1>4. FragmentsOf(Chunks, i) = FragmentsOf(out, i)
      /\ \A k \in FragmentsOf(out, i) : Chunks[k].id = FilledIds(out)[k].id
  BY <1>3, ChunksAreOut
<1> HIDE DEF id
<1>5. ClientIds(i) = {id}
  BY <1>2, <1>4 DEF ClientIds
<1> QED  BY <1>5, FS_Singleton DEF i

(* What a vendor of tool calls promises: a call has one name and one id,   *)
(* though some of its fragments may leave them out.                        *)
VendorIsSteady ==
    \E names, ids : \A f \in Frames :
        f.what = "call" => f.name \in {NoName, names[f.index]} /\ f.id \in {NoId, ids[f.index]}

(* However the fragments of the calls interleave, both handlers tell the   *)
(* same calls, and codearts every fragment of one under one id.            *)
THEOREM CallsStayTheSame == ASSUME VendorIsSteady PROVE StreamSpec => []CallsAreTheSame
<1>1. PICK names, ids : \A f \in Frames : GivenIn(f, names, ids)
  BY Zenon DEF VendorIsSteady, GivenIn
<1>2. StreamInv /\ CallsAreSteady(names, ids) => CallsAreTheSame
  BY AnswersAlike, IdsAreOne DEF CallsAreTheSame
<1>3. StreamSpec => [](StreamInv /\ CallsAreSteady(names, ids))
  BY <1>1, SteadyAlways
<1> QED  BY <1>2, <1>3, PTL

----------------------------------------------------------------------------
(* The requests.                                                           *)

Places == {"idle", "freshen", "ahead", "send", "look", "renew", "store", "done"}

VerdictsGiven ==
    {Classify(plugin, a) : a \in ChatAnswers \union {Nothing}}
    \union {NoVerdict, TransportVerdict, Verdict(200, FALSE, "ok"), Refusal("refresh"),
            Transport("refresh"), Errorf("save"), Refusal("missing_credential"), Refusal("auth"),
            HTTPError("queue_timeout", 429), HTTPError("queue_full", 429)}

RequestRecords ==
    [at : Places, held : Nat, sends : Nat, said : ChatAnswers \union {Nothing}, again : BOOLEAN,
     tried : BOOLEAN, verdict : VerdictsGiven]

AccountIsTyped ==
    /\ plugin \in Plugins /\ renewable \in BOOLEAN /\ rotating \in BOOLEAN
    /\ chatIssued \in 1..MaxIssues /\ chatFile \in 1..chatIssued /\ mislaid \in BOOLEAN
    /\ chatLive = IF rotating THEN {chatIssued} ELSE 1..chatIssued
    /\ request \in [Clients -> RequestRecords]
    /\ \A c \in Clients : request[c].held \in 1..chatIssued

(* How often a request may have been sent where it is.                     *)
Counted(r) ==
    /\ r.at \in {"idle", "freshen", "ahead"} => r.sends = 0 /\ ~r.again
    /\ r.at \in {"send", "look"} /\ ~r.again => r.sends < policy.attempts
    /\ r.at \in {"look", "renew"} => ~r.again
    /\ r.at = "renew" => r.sends <= policy.attempts /\ policy.renews
    /\ r.again => policy.renews /\ r.tried
    /\ r.at = "send" /\ r.again => r.sends <= policy.attempts
    /\ r.at \in {"store", "done"} => r.sends <= MostSends
    /\ r.at = "store" => r.again

(* What it was told the last time, if it is to be sent again.              *)
Earned(r) ==
    /\ r.at = "send" /\ r.sends > 0 =>
          \/ r.again /\ RefusedStatus(r.said.status)
          \/ ~Success(r.said.status) /\ QueueBusy(r.said)
    /\ r.at = "look" => ~Success(r.said.status) /\ QueueBusy(r.said)
    /\ r.at = "renew" => RefusedStatus(r.said.status)

(* What one that is about to be answered, or was, says of the account.     *)
Blamed(r) ==
    /\ r.at \in {"store", "done"} /\ r.verdict.http = 401
    /\ policy.renews /\ renewable /\ "dead" \notin r.said.says
    => r.tried

Sound(r) == r \in RequestRecords /\ Counted(r) /\ Earned(r) /\ Blamed(r)

(* The newest grant, where a renewal withdraws the one before: the file    *)
(* has it, or one request does and nobody else.                            *)
GrantIsHeldOnce ==
    rotating /\ ~mislaid =>
        /\ chatFile = chatIssued \/ \E c \in Clients : Carries(c) /\ request[c].held = chatIssued
        /\ \A c \in Clients : Carries(c) =>
              /\ request[c].held = chatIssued /\ chatIssued > 1 /\ chatFile # chatIssued
              /\ \A d \in Clients \ {c} : request[d].held # chatIssued

WhatIsNotStoredIsLost == \A c \in Clients : request[c].again /\ ~policy.stores => mislaid

RequestsInv ==
    /\ AccountIsTyped
    /\ \A c \in Clients : Sound(request[c])
    /\ GrantIsHeldOnce /\ WhatIsNotStoredIsLost

----------------------------------------------------------------------------
(* The policies and the verdicts.                                          *)

(* A list of rules that closes with one that always fits decides by a rule *)
(* that fits and none before it does.                                      *)
LEMMA FirstFits ==
  ASSUME NEW rules, NEW n \in Nat \ {0}, DOMAIN rules = 1..n, rules[n] # {}
  PROVE  \E i \in 1..n : FirstFit(rules) \in rules[i] /\ \A j \in 1..i - 1 : rules[j] = {}
<1> DEFINE fitting == {i \in DOMAIN rules : rules[i] # {}}
           first == CHOOSE i \in fitting : \A j \in fitting : i <= j
<1>1. fitting \in SUBSET Nat /\ fitting # {}
  OBVIOUS
<1>2. first \in fitting /\ \A j \in fitting : first <= j
  <2> HIDE DEF fitting
  <2> QED  BY <1>1, Least
<1>3. FirstFit(rules) \in rules[first]
  BY <1>2 DEF FirstFit
<1>4. \A j \in 1..first - 1 : j \in 1..n /\ ~(first <= j)
  BY <1>2
<1>5. first \in 1..n
  BY <1>2
<1> QED  BY <1>2, <1>3, <1>4, <1>5

PolicyRecords ==
    [freshens : BOOLEAN, ahead : {"never", "may", "must"}, renews : BOOLEAN,
     lenient : BOOLEAN, stores : BOOLEAN, attempts : Nat \ {0}, looks : BOOLEAN]
RenewingPlugins == {"cline", "qoder", "minimax", "raccoon", "lobsterai", "codebuddy"}

(* Who renews on a refusal does not ask a busy vendor again, and stores at  *)
(* most what it renewed.                                                    *)
LEMMA PoliciesAre ==
  ASSUME NEW p \in Plugins
  PROVE  /\ Policy[p] \in PolicyRecords
         /\ Policy[p].renews => Policy[p].attempts = 1 /\ p \in RenewingPlugins
         /\ Policy[p].stores => Policy[p].renews
<1> DEFINE Good(q) == /\ q \in PolicyRecords /\ (q.renews => q.attempts = 1)
                       /\ (q.stores => q.renews)
<1> USE RequestBoundsAssumption
<1>1. p \in {"codearts", "cline", "lobsterai", "qoder", "minimax", "raccoon", "loomy", "codebuddy",
             "atomcode", "trae", "zcode"}
  BY PluginsAssumption DEF AllPlugins, Marks
<1>2. Good(PlainPolicy) /\ ~PlainPolicy.renews
  <2>1. PlainPolicy \in PolicyRecords
    BY DEF PlainPolicy, PolicyRecords
  <2>2. ~PlainPolicy.renews /\ ~PlainPolicy.stores
    BY DEF PlainPolicy
  <2> QED  BY <2>1, <2>2
<1>3. Good(RenewingPolicy)
  <2>1. RenewingPolicy \in PolicyRecords
    BY <1>2 DEF RenewingPolicy, PolicyRecords
  <2>2. ~RenewingPolicy.stores
    BY DEF PlainPolicy, RenewingPolicy
  <2>3. RenewingPolicy.attempts = 1
    BY DEF PlainPolicy, RenewingPolicy
  <2> QED  BY <2>1, <2>2, <2>3
<1>4. Good(CodeArtsPolicy) /\ ~CodeArtsPolicy.renews
  <2>1. CodeArtsPolicy \in PolicyRecords
    BY <1>2, 3 \in Nat \ {0} DEF CodeArtsPolicy, PolicyRecords
  <2>2. ~CodeArtsPolicy.renews /\ ~CodeArtsPolicy.stores
    BY DEF CodeArtsPolicy, PlainPolicy
  <2> QED  BY <2>1, <2>2
<1>5. Good(ClinePolicy)
  BY <1>3 DEF ClinePolicy, PolicyRecords
<1>6. Good(MiniMaxPolicy)
  BY <1>3 DEF MiniMaxPolicy, PolicyRecords
<1>7. Good(RaccoonPolicy)
  BY <1>3 DEF RaccoonPolicy, PolicyRecords
<1>8. Good(LobsterAIPolicy)
  BY <1>3 DEF LobsterAIPolicy, PolicyRecords
<1>9. Good(CodeBuddyPolicy)
  <2>1. RenewingPolicy.renews
    BY DEF PlainPolicy, RenewingPolicy
  <2>2. RenewingPolicy.attempts = 1
    BY DEF PlainPolicy, RenewingPolicy
  <2> QED  BY <1>3, <2>1, <2>2 DEF CodeBuddyPolicy, PolicyRecords
<1>10. Good(LoomyPolicy) /\ ~LoomyPolicy.renews
  BY <1>2 DEF LoomyPolicy, PolicyRecords
<1>11. Good(ZCodePolicy) /\ ~ZCodePolicy.renews
  <2>1. ConcurrencyRetryMax + 1 \in Nat \ {0}
    OBVIOUS
  <2> QED  BY <1>2, <2>1 DEF ZCodePolicy, PolicyRecords
<1>12. /\ Policy["codearts"] = CodeArtsPolicy /\ Policy["cline"] = ClinePolicy
       /\ Policy["qoder"] = RenewingPolicy /\ Policy["minimax"] = MiniMaxPolicy
       /\ Policy["raccoon"] = RaccoonPolicy /\ Policy["lobsterai"] = LobsterAIPolicy
       /\ Policy["codebuddy"] = CodeBuddyPolicy /\ Policy["atomcode"] = PlainPolicy
       /\ Policy["trae"] = PlainPolicy /\ Policy["loomy"] = LoomyPolicy
       /\ Policy["zcode"] = ZCodePolicy
  BY DEF Policy, QoderPolicy, AtomCodePolicy, TraePolicy
<1> HIDE DEF Good
<1>13. Good(Policy[p]) /\ (Policy[p].renews => p \in RenewingPlugins)
  BY <1>1, <1>2, <1>3, <1>4, <1>5, <1>6, <1>7, <1>8, <1>9, <1>10, <1>11, <1>12 DEF RenewingPlugins
<1> QED  BY <1>13 DEF Good


(* The statuses of the helpers' verdicts.                                  *)
LEMMA VerdictsAre ==
  /\ \A code : Refusal(code).http = 401
  /\ \A code : Transport(code).http = 502
  /\ \A code, status : HTTPError(code, status).http = status
BY DEF Verdict, Refusal, Transport, HTTPError

(* A plugin that renews blames the account (a 401) for a refusal alone.    *)
LEMMA ClineBlames ==
  ASSUME NEW a, a.status \in Nat
  PROVE  Cline(a).http = 401 => RefusedStatus(a.status) /\ ~RegionForbidden(a)
<1> DEFINE rules == <<
      Rule(RegionForbidden(a), HTTPError("region_forbidden", 403)),
      Rule(RefusedStatus(a.status), Refusal("auth")),
      Rule(a.status = 402, HTTPError("quota_exceeded", 402)),
      Rule(a.status = 429, Verdict(429, TRUE, "rate_limited")),
      Rule(a.status = 400 /\ "context" \in a.says, HTTPError("CONTEXT_WINDOW_EXCEEDED", 400)),
      Rule(a.status \in 400..499 /\ QuotaMarked(a), HTTPError("quota_exceeded", 402)),
      Rule(a.status = 400, HTTPError("invalid_request", 400)),
      Rule(TRUE, Transport("upstream_error")) >>
<1>1. 8 \in Nat \ {0} /\ DOMAIN rules = 1..8 /\ rules[8] # {}
  BY DEF Rule
<1>2. /\ rules[1] = {} => ~RegionForbidden(a)
      /\ rules[2] # {} => RefusedStatus(a.status)
      /\ \A v \in rules[1] : v.http # 401
      /\ \A v \in rules[3] : v.http # 401
      /\ \A v \in rules[4] : v.http # 401
      /\ \A v \in rules[5] : v.http # 401
      /\ \A v \in rules[6] : v.http # 401
      /\ \A v \in rules[7] : v.http # 401
      /\ \A v \in rules[8] : v.http # 401
  <2>1. rules[1] = {} => ~RegionForbidden(a)
    BY VerdictsAre DEF Rule
  <2>2. rules[2] # {} => RefusedStatus(a.status)
    BY VerdictsAre DEF Rule
  <2>3. \A v \in rules[1] : v.http # 401
    BY VerdictsAre DEF Rule
  <2>4. \A v \in rules[3] : v.http # 401
    BY VerdictsAre DEF Rule
  <2>5. \A v \in rules[4] : v.http # 401
    BY VerdictsAre DEF Rule, Verdict
  <2>6. \A v \in rules[5] : v.http # 401
    BY VerdictsAre DEF Rule
  <2>7. \A v \in rules[6] : v.http # 401
    BY VerdictsAre DEF Rule
  <2>8. \A v \in rules[7] : v.http # 401
    BY VerdictsAre DEF Rule
  <2>9. \A v \in rules[8] : v.http # 401
    BY VerdictsAre DEF Rule
  <2> QED  BY <2>1, <2>2, <2>3, <2>4, <2>5, <2>6, <2>7, <2>8, <2>9
<1> HIDE DEF rules
<1>3. PICK i \in 1..8 : FirstFit(rules) \in rules[i] /\ \A j \in 1..i - 1 : rules[j] = {}
  BY <1>1, FirstFits, Zenon
<1>4. Cline(a) = FirstFit(rules)
  BY DEF Cline, rules
<1> QED  BY <1>2, <1>3, <1>4

LEMMA MiniMaxBlames ==
  ASSUME NEW a, a.status \in Nat
  PROVE  MiniMax(a).http = 401 => RefusedStatus(a.status)
<1> DEFINE rules == <<
      Rule(RefusedStatus(a.status), Refusal("auth")),
      Rule(a.status = 402, HTTPError("QUOTA_EXCEEDED", 402)),
      Rule(a.status = 429, Verdict(429, TRUE, "rate_limited")),
      Rule(a.status = 400, HTTPError("invalid_request", 400)),
      Rule(a.status \in {408, 504}, Verdict(a.status, TRUE, "upstream_timeout")),
      Rule(TRUE, Transport("upstream_error")) >>
<1>1. 6 \in Nat \ {0} /\ DOMAIN rules = 1..6 /\ rules[6] # {}
  BY DEF Rule
<1>2. /\ rules[1] # {} => RefusedStatus(a.status)
      /\ \A v \in rules[2] : v.http # 401
      /\ \A v \in rules[3] : v.http # 401
      /\ \A v \in rules[4] : v.http # 401
      /\ \A v \in rules[5] : v.http # 401
      /\ \A v \in rules[6] : v.http # 401
  <2>1. rules[1] # {} => RefusedStatus(a.status)
    BY VerdictsAre DEF Rule
  <2>2. \A v \in rules[2] : v.http # 401
    BY VerdictsAre DEF Rule
  <2>3. \A v \in rules[3] : v.http # 401
    BY VerdictsAre DEF Rule, Verdict
  <2>4. \A v \in rules[4] : v.http # 401
    BY VerdictsAre DEF Rule
  <2>5. \A v \in rules[5] : v.http # 401
    BY VerdictsAre DEF Rule, Verdict
  <2>6. \A v \in rules[6] : v.http # 401
    BY VerdictsAre DEF Rule
  <2> QED  BY <2>1, <2>2, <2>3, <2>4, <2>5, <2>6
<1> HIDE DEF rules
<1>3. PICK i \in 1..6 : FirstFit(rules) \in rules[i] /\ \A j \in 1..i - 1 : rules[j] = {}
  BY <1>1, FirstFits, Zenon
<1>4. MiniMax(a) = FirstFit(rules)
  BY DEF MiniMax, rules
<1> QED  BY <1>2, <1>3, <1>4

LEMMA RaccoonBlames ==
  ASSUME NEW a, a.status \in Nat
  PROVE  Raccoon(a).http = 401 => RefusedStatus(a.status)
<1> DEFINE rules == <<
      Rule(RefusedStatus(a.status), Refusal("auth")),
      Rule(a.status = 402, HTTPError("quota_exhausted", 402)),
      Rule(a.status = 429, Verdict(429, TRUE, "rate_limited")),
      Rule(a.status = 400, HTTPError("invalid_request", 400)),
      Rule(TRUE, Transport("upstream_error")) >>
<1>1. 5 \in Nat \ {0} /\ DOMAIN rules = 1..5 /\ rules[5] # {}
  BY DEF Rule
<1>2. /\ rules[1] # {} => RefusedStatus(a.status)
      /\ \A v \in rules[2] : v.http # 401
      /\ \A v \in rules[3] : v.http # 401
      /\ \A v \in rules[4] : v.http # 401
      /\ \A v \in rules[5] : v.http # 401
  <2>1. rules[1] # {} => RefusedStatus(a.status)
    BY VerdictsAre DEF Rule
  <2>2. \A v \in rules[2] : v.http # 401
    BY VerdictsAre DEF Rule
  <2>3. \A v \in rules[3] : v.http # 401
    BY VerdictsAre DEF Rule, Verdict
  <2>4. \A v \in rules[4] : v.http # 401
    BY VerdictsAre DEF Rule
  <2>5. \A v \in rules[5] : v.http # 401
    BY VerdictsAre DEF Rule
  <2> QED  BY <2>1, <2>2, <2>3, <2>4, <2>5
<1> HIDE DEF rules
<1>3. PICK i \in 1..5 : FirstFit(rules) \in rules[i] /\ \A j \in 1..i - 1 : rules[j] = {}
  BY <1>1, FirstFits, Zenon
<1>4. Raccoon(a) = FirstFit(rules)
  BY DEF Raccoon, rules
<1> QED  BY <1>2, <1>3, <1>4

LEMMA QoderBusinessBlames ==
  ASSUME NEW a, a.status \in Nat
  PROVE  QoderBusiness(a).http # 401
<1> DEFINE rules == <<
      Rule("queue" \in a.says, Verdict(429, TRUE, "QUEUE")),
      Rule(TRUE, HTTPError("QUOTA_EXCEEDED", 402)) >>
<1>1. 2 \in Nat \ {0} /\ DOMAIN rules = 1..2 /\ rules[2] # {}
  BY DEF Rule
<1>2. /\ \A v \in rules[1] : v.http # 401
      /\ \A v \in rules[2] : v.http # 401
  <2>1. \A v \in rules[1] : v.http # 401
    BY VerdictsAre DEF Rule, Verdict
  <2>2. \A v \in rules[2] : v.http # 401
    BY VerdictsAre DEF Rule
  <2> QED  BY <2>1, <2>2
<1> HIDE DEF rules
<1>3. PICK i \in 1..2 : FirstFit(rules) \in rules[i] /\ \A j \in 1..i - 1 : rules[j] = {}
  BY <1>1, FirstFits, Zenon
<1>4. QoderBusiness(a) = FirstFit(rules)
  BY DEF QoderBusiness, rules
<1> QED  BY <1>2, <1>3, <1>4

LEMMA QoderBlames ==
  ASSUME NEW a, a.status \in Nat
  PROVE  Qoder(a).http = 401 => RefusedStatus(a.status)
<1> DEFINE rules == <<
      Rule(RefusedStatus(a.status) /\ BusinessMarked(a), QoderBusiness(a)),
      Rule(RefusedStatus(a.status), Refusal("auth")),
      Rule(a.status = 402, HTTPError("quota_exhausted", 402)),
      Rule(a.status = 429, Verdict(429, TRUE, "rate_limited")),
      Rule(a.status = 504, Verdict(504, TRUE, "upstream_timeout")),
      Rule(TRUE, Transport("upstream_error")) >>
<1>1. 6 \in Nat \ {0} /\ DOMAIN rules = 1..6 /\ rules[6] # {}
  BY DEF Rule
<1>2. /\ rules[2] # {} => RefusedStatus(a.status)
      /\ \A v \in rules[1] : v.http # 401
      /\ \A v \in rules[3] : v.http # 401
      /\ \A v \in rules[4] : v.http # 401
      /\ \A v \in rules[5] : v.http # 401
      /\ \A v \in rules[6] : v.http # 401
  <2>1. rules[2] # {} => RefusedStatus(a.status)
    BY VerdictsAre, QoderBusinessBlames DEF Rule
  <2>2. \A v \in rules[1] : v.http # 401
    BY VerdictsAre, QoderBusinessBlames DEF Rule
  <2>3. \A v \in rules[3] : v.http # 401
    BY VerdictsAre, QoderBusinessBlames DEF Rule
  <2>4. \A v \in rules[4] : v.http # 401
    BY VerdictsAre, QoderBusinessBlames DEF Rule, Verdict
  <2>5. \A v \in rules[5] : v.http # 401
    BY VerdictsAre, QoderBusinessBlames DEF Rule, Verdict
  <2>6. \A v \in rules[6] : v.http # 401
    BY VerdictsAre, QoderBusinessBlames DEF Rule
  <2> QED  BY <2>1, <2>2, <2>3, <2>4, <2>5, <2>6
<1> HIDE DEF rules
<1>3. PICK i \in 1..6 : FirstFit(rules) \in rules[i] /\ \A j \in 1..i - 1 : rules[j] = {}
  BY <1>1, FirstFits, Zenon
<1>4. Qoder(a) = FirstFit(rules)
  BY DEF Qoder, rules
<1> QED  BY <1>2, <1>3, <1>4

LEMMA LobsterAIKindIs ==
  ASSUME NEW a
  PROVE  LobsterAIKind(a) = "session-dead" => "dead" \in a.says
<1> DEFINE rules == <<
      Rule(a.status = 402 \/ "quota" \in a.says, "hard-credit"),
      Rule("dead" \in a.says, "session-dead"),
      Rule(a.status = 429, "soft-rate"),
      Rule(a.status = 404, "not-found"),
      Rule(a.status >= 500, "server"),
      Rule(a.status >= 400, "client"),
      Rule(TRUE, "none") >>
<1>1. 7 \in Nat \ {0} /\ DOMAIN rules = 1..7 /\ rules[7] # {}
  BY DEF Rule
<1>2. /\ rules[2] # {} => "dead" \in a.says
      /\ \A v \in rules[1] : v # "session-dead"
      /\ \A v \in rules[3] : v # "session-dead"
      /\ \A v \in rules[4] : v # "session-dead"
      /\ \A v \in rules[5] : v # "session-dead"
      /\ \A v \in rules[6] : v # "session-dead"
      /\ \A v \in rules[7] : v # "session-dead"
  <2>1. rules[2] # {} => "dead" \in a.says
    BY VerdictsAre DEF Rule
  <2>2. \A v \in rules[1] : v # "session-dead"
    BY VerdictsAre DEF Rule
  <2>3. \A v \in rules[3] : v # "session-dead"
    BY VerdictsAre DEF Rule
  <2>4. \A v \in rules[4] : v # "session-dead"
    BY VerdictsAre DEF Rule
  <2>5. \A v \in rules[5] : v # "session-dead"
    BY VerdictsAre DEF Rule
  <2>6. \A v \in rules[6] : v # "session-dead"
    BY VerdictsAre DEF Rule
  <2>7. \A v \in rules[7] : v # "session-dead"
    BY VerdictsAre DEF Rule
  <2> QED  BY <2>1, <2>2, <2>3, <2>4, <2>5, <2>6, <2>7
<1> HIDE DEF rules
<1>3. PICK i \in 1..7 : FirstFit(rules) \in rules[i] /\ \A j \in 1..i - 1 : rules[j] = {}
  BY <1>1, FirstFits, Zenon
<1>4. LobsterAIKind(a) = FirstFit(rules)
  BY DEF LobsterAIKind, rules
<1> QED  BY <1>2, <1>3, <1>4

LEMMA LobsterAIBlames ==
  ASSUME NEW a, a.status \in Nat
  PROVE  LobsterAI(a).http = 401 => RefusedStatus(a.status) \/ "dead" \in a.says
<1> DEFINE kind == LobsterAIKind(a)
<1> DEFINE rules == <<
      Rule(kind = "hard-credit", HTTPError("quota_exceeded", 402)),
      Rule(kind = "soft-rate", HTTPError("rate_limited", 429)),
      Rule(kind = "session-dead", HTTPError("session_dead", 401)),
      Rule(kind = "not-found", HTTPError("model_not_found", 404)),
      Rule(kind = "server", HTTPError("upstream_server_error", 502)),
      Rule(kind = "client", HTTPError("upstream_client_error", a.status)),
      Rule(TRUE, HTTPError("upstream_error", a.status)) >>
<1>1. 7 \in Nat \ {0} /\ DOMAIN rules = 1..7 /\ rules[7] # {}
  BY DEF Rule
<1>2. /\ rules[3] # {} => "dead" \in a.says
      /\ \A v \in rules[1] : v.http # 401
      /\ \A v \in rules[2] : v.http # 401
      /\ \A v \in rules[4] : v.http # 401
      /\ \A v \in rules[5] : v.http # 401
      /\ \A v \in rules[6] : v.http = 401 => RefusedStatus(a.status)
      /\ \A v \in rules[7] : v.http = 401 => RefusedStatus(a.status)
  <2>1. rules[3] # {} => "dead" \in a.says
    BY VerdictsAre, LobsterAIKindIs DEF Rule, RefusedStatus
  <2>2. \A v \in rules[1] : v.http # 401
    BY VerdictsAre, LobsterAIKindIs DEF Rule, RefusedStatus
  <2>3. \A v \in rules[2] : v.http # 401
    BY VerdictsAre, LobsterAIKindIs DEF Rule, RefusedStatus
  <2>4. \A v \in rules[4] : v.http # 401
    BY VerdictsAre, LobsterAIKindIs DEF Rule, RefusedStatus
  <2>5. \A v \in rules[5] : v.http # 401
    BY VerdictsAre, LobsterAIKindIs DEF Rule, RefusedStatus
  <2>6. \A v \in rules[6] : v.http = 401 => RefusedStatus(a.status)
    BY VerdictsAre, LobsterAIKindIs DEF Rule, RefusedStatus
  <2>7. \A v \in rules[7] : v.http = 401 => RefusedStatus(a.status)
    BY VerdictsAre, LobsterAIKindIs DEF Rule, RefusedStatus
  <2> QED  BY <2>1, <2>2, <2>3, <2>4, <2>5, <2>6, <2>7
<1> HIDE DEF rules
<1>3. PICK i \in 1..7 : FirstFit(rules) \in rules[i] /\ \A j \in 1..i - 1 : rules[j] = {}
  BY <1>1, FirstFits, Zenon
<1>4. LobsterAI(a) = FirstFit(rules)
  BY DEF LobsterAI, rules
<1> QED  BY <1>2, <1>3, <1>4
LEMMA PolicyIs ==
  ASSUME plugin \in Plugins
  PROVE  /\ policy \in PolicyRecords
         /\ policy.renews => policy.attempts = 1 /\ plugin \in RenewingPlugins
         /\ policy.stores => policy.renews
BY PoliciesAre DEF policy

LEMMA BlameMeansRefusal ==
  ASSUME plugin \in Plugins, policy.renews, NEW a \in ChatAnswers, FinalVerdict(a).http = 401
  PROVE  \/ "dead" \in a.says
         \/ RefusedStatus(a.status) /\ ~(plugin = "cline" /\ RegionForbidden(a))
<1>1. a.status \in Nat
  BY ChatAnswersAssumption
<1>2. plugin \in RenewingPlugins
  BY PolicyIs
<1>3. FinalVerdict(a) = Classify(plugin, a)
  BY <1>2, VerdictsAre DEF FinalVerdict, RenewingPlugins, Verdict
<1>4. CASE plugin = "cline"
  BY <1>1, <1>3, <1>4, ClineBlames DEF Classify
<1>5. CASE plugin = "qoder"
  BY <1>1, <1>3, <1>5, QoderBlames DEF Classify
<1>6. CASE plugin = "minimax"
  BY <1>1, <1>3, <1>6, MiniMaxBlames DEF Classify
<1>7. CASE plugin = "raccoon"
  BY <1>1, <1>3, <1>7, RaccoonBlames DEF Classify
<1>8. CASE plugin = "lobsterai"
  BY <1>1, <1>3, <1>8, LobsterAIBlames DEF Classify
<1>9. CASE plugin = "codebuddy"
  <2>1. FinalVerdict(a) = CodeBuddy(a)
    BY <1>3, <1>9 DEF Classify
  <2> QED  BY <2>1, <1>9, VerdictsAre DEF CodeBuddy, RefusedStatus
<1> QED  BY <1>2, <1>4, <1>5, <1>6, <1>7, <1>8, <1>9 DEF RenewingPlugins

(* A plugin that renews has no queue it waits for, and a call of it that   *)
(* is lost on the way is nobody's fault.                                   *)
LEMMA RenewingIsDirect ==
  ASSUME plugin \in Plugins, policy.renews
  PROVE  TransportVerdict.http = 502 /\ \A a : ~QueueBusy(a)
<1>1. plugin \in RenewingPlugins
  BY PolicyIs
<1>2. \A a : ~QueueBusy(a)
  BY <1>1 DEF QueueBusy, RenewingPlugins
<1>3. TransportVerdict.http = 502
  BY <1>1, VerdictsAre DEF TransportVerdict, RenewingPlugins
<1> QED  BY <1>2, <1>3

(* Every verdict the requests hand out is one of those named.              *)
LEMMA VerdictsAreGiven ==
  /\ \A a \in ChatAnswers \union {Nothing} : FinalVerdict(a) \in VerdictsGiven
  /\ TransportVerdict \in VerdictsGiven /\ NoVerdict \in VerdictsGiven
  /\ Refusal("refresh") \in VerdictsGiven /\ Transport("refresh") \in VerdictsGiven
  /\ Errorf("save") \in VerdictsGiven /\ Refusal("missing_credential") \in VerdictsGiven
  /\ Refusal("auth") \in VerdictsGiven /\ HTTPError("queue_full", 429) \in VerdictsGiven
<1>1. \A a \in ChatAnswers \union {Nothing} : FinalVerdict(a) \in VerdictsGiven
  <2> SUFFICES ASSUME NEW a \in ChatAnswers \union {Nothing} PROVE FinalVerdict(a) \in VerdictsGiven
    OBVIOUS
  <2>1. Classify(plugin, a) \in VerdictsGiven
    BY ZenonT(30) DEF VerdictsGiven
  <2>2. HTTPError("queue_timeout", 429) \in VerdictsGiven
    BY DEF VerdictsGiven
  <2>3. Verdict(200, FALSE, "ok") \in VerdictsGiven
    BY ZenonT(30) DEF VerdictsGiven
  <2> QED  BY <2>1, <2>2, <2>3, ZenonT(30) DEF FinalVerdict
<1>2. TransportVerdict \in VerdictsGiven /\ NoVerdict \in VerdictsGiven
  BY DEF VerdictsGiven
<1>3. /\ Refusal("refresh") \in VerdictsGiven /\ Transport("refresh") \in VerdictsGiven
      /\ Errorf("save") \in VerdictsGiven /\ Refusal("missing_credential") \in VerdictsGiven
      /\ Refusal("auth") \in VerdictsGiven /\ HTTPError("queue_full", 429) \in VerdictsGiven
  BY DEF VerdictsGiven
<1> QED  BY <1>1, <1>2, <1>3

----------------------------------------------------------------------------
(* The steps.                                                              *)

(* What a request's record is worth does not change with another's.        *)
LEMMA SoundStays ==
  ASSUME UNCHANGED account, NEW r, Sound(r)
  PROVE  Sound(r)'
<1>1. policy' = policy /\ MostSends' = MostSends
  BY DEF policy, MostSends, account
<1>2. TransportVerdict' = TransportVerdict
  BY DEF TransportVerdict, account
<1>3. VerdictsGiven' = VerdictsGiven
  BY <1>2 DEF VerdictsGiven, account
<1>4. RequestRecords' = RequestRecords
  BY <1>3 DEF RequestRecords
<1>5. Counted(r)'
  BY <1>1 DEF Sound, Counted
<1>6. \A a : QueueBusy(a)' <=> QueueBusy(a)
  BY DEF QueueBusy, account
<1>7. Earned(r)'
  BY <1>6 DEF Sound, Earned
<1>8. Blamed(r)'
  BY <1>1 DEF Sound, Blamed, account
<1> QED  BY <1>4, <1>5, <1>7, <1>8 DEF Sound

(* A step of one request to a sound record keeps all the others sound.     *)
LEMMA StepKeeps ==
  ASSUME RequestsInv, NEW c \in Clients, NEW record, Goes(c, record), Sound(record),
         record.held \in 1..chatIssued', UNCHANGED account,
         chatIssued' \in chatIssued..MaxIssues, chatFile' \in 1..chatIssued', mislaid' \in BOOLEAN,
         chatLive' = IF rotating THEN {chatIssued'} ELSE 1..chatIssued',
         GrantIsHeldOnce', WhatIsNotStoredIsLost'
  PROVE  RequestsInv'
<1>1. request \in [Clients -> RequestRecords] /\ \A d \in Clients : Sound(request[d])
  BY DEF RequestsInv, AccountIsTyped
<1>2. request'[c] = record /\ \A d \in Clients \ {c} : request'[d] = request[d]
  BY <1>1 DEF Goes
<1>3. \A d \in Clients : Sound(request'[d])
  BY <1>1, <1>2
<1>4. \A d \in Clients : Sound(request[d])'
  <2> TAKE d \in Clients
  <2>1. PICK r : r = request'[d]
    OBVIOUS
  <2>2. Sound(r)'
    BY <1>3, <2>1, SoundStays
  <2> QED  BY <2>1, <2>2 DEF Sound, Counted, Earned, Blamed
<1>5. request' \in [Clients -> RequestRecords]
  BY <1>1 DEF Goes, Sound
<1>6. RequestRecords' = RequestRecords
  <2>1. TransportVerdict' = TransportVerdict
    BY DEF TransportVerdict, account
  <2> QED  BY <2>1 DEF RequestRecords, VerdictsGiven, account
<1>7. \A d \in Clients : request'[d].held \in 1..chatIssued'
  <2>1. chatIssued \in Nat /\ chatIssued' \in Nat /\ chatIssued <= chatIssued'
    BY RequestBoundsAssumption DEF RequestsInv, AccountIsTyped
  <2>2. \A d \in Clients : request[d].held \in 1..chatIssued
    BY DEF RequestsInv, AccountIsTyped
  <2> QED  BY <1>2, <2>1, <2>2
<1>8. AccountIsTyped'
  <2>1. chatIssued \in 1..MaxIssues /\ MaxIssues \in Nat
    BY RequestBoundsAssumption DEF RequestsInv, AccountIsTyped
  <2>2. chatIssued' \in 1..MaxIssues
    BY <2>1
  <2>3. plugin' \in Plugins /\ renewable' \in BOOLEAN /\ rotating' \in BOOLEAN /\ rotating' = rotating
    BY DEF RequestsInv, AccountIsTyped, account
  <2> QED  BY <1>5, <1>6, <1>7, <2>2, <2>3 DEF AccountIsTyped
<1> QED  BY <1>4, <1>8 DEF RequestsInv
LEMMA RenewedIs ==
  ASSUME RequestsInv, NEW g, GrantRenewed(g)
  PROVE  /\ renewable /\ chatIssued \in Nat /\ chatIssued' = chatIssued + 1
         /\ chatIssued' \in chatIssued..MaxIssues
         /\ chatLive' = IF rotating THEN {chatIssued'} ELSE 1..chatIssued'
         /\ rotating => g = chatIssued
<1>1. chatIssued \in Nat /\ MaxIssues \in Nat
  BY RequestBoundsAssumption DEF RequestsInv, AccountIsTyped
<1>2. chatIssued' = chatIssued + 1 /\ chatIssued < MaxIssues /\ g \in chatLive /\ renewable
  BY DEF GrantRenewed
<1>3. chatLive = IF rotating THEN {chatIssued} ELSE 1..chatIssued
  BY DEF RequestsInv, AccountIsTyped
<1>4. chatLive' = (IF rotating THEN chatLive \ {g} ELSE chatLive) \union {chatIssued + 1}
  BY DEF GrantRenewed
<1>5. CASE rotating
  BY <1>1, <1>2, <1>3, <1>4, <1>5
<1>6. CASE ~rotating
  <2>1. (1..chatIssued) \union {chatIssued + 1} = 1..chatIssued + 1
    BY <1>1
  <2> QED  BY <1>1, <1>2, <1>3, <1>4, <1>6, <2>1
<1> QED  BY <1>5, <1>6

LEMMA NotRenewedIs ==
  ASSUME RequestsInv, NEW g, NotRenewed(g)
  PROVE  /\ chatIssued' \in chatIssued..MaxIssues
         /\ chatLive' = IF rotating THEN {chatIssued'} ELSE 1..chatIssued'
         /\ mislaid' \in BOOLEAN /\ (mislaid => mislaid')
         /\ mislaid' \/ chatIssued' = chatIssued
<1>1. CASE UNCHANGED <<chatVendor, mislaid>>
  BY <1>1, RequestBoundsAssumption DEF RequestsInv, AccountIsTyped, chatVendor
<1>2. CASE GrantRenewed(g) /\ mislaid' = TRUE
  BY <1>2, RenewedIs
<1> QED  BY <1>1, <1>2 DEF NotRenewed

(* A step that carries nothing and renews nothing that counts.             *)
LEMMA QuietStep ==
  ASSUME RequestsInv, NEW c \in Clients, NEW record, Goes(c, record), Sound(record),
         ~record.again, ~Carries(c), record.held \in {request[c].held, chatFile, 1},
         UNCHANGED <<account, chatFile>>, NEW g, NotRenewed(g)
  PROVE  RequestsInv'
<1>1. chatIssued \in Nat \ {0} /\ chatIssued' \in Nat /\ chatIssued <= chatIssued'
  BY NotRenewedIs, RequestBoundsAssumption DEF RequestsInv, AccountIsTyped
<1>2. record.held \in 1..chatIssued /\ chatFile \in 1..chatIssued
  BY <1>1 DEF RequestsInv, AccountIsTyped
<1>3. request'[c] = record /\ \A d \in Clients \ {c} : request'[d] = request[d]
  BY DEF Goes, RequestsInv, AccountIsTyped
<1>4. WhatIsNotStoredIsLost'
  <2>1. policy' = policy
    BY DEF policy, account
  <2> QED  BY <1>3, <2>1, NotRenewedIs DEF RequestsInv, WhatIsNotStoredIsLost
<1>5. GrantIsHeldOnce'
  <2>1. CASE mislaid'
    BY <2>1 DEF GrantIsHeldOnce
  <2>2. CASE ~mislaid' /\ ~rotating'
    BY <2>2 DEF GrantIsHeldOnce
  <2>3. CASE ~mislaid' /\ rotating'
    <3>1. rotating /\ ~mislaid /\ chatIssued' = chatIssued /\ chatFile' = chatFile
      BY <2>3, NotRenewedIs DEF account
    <3>2. /\ chatFile = chatIssued \/ \E d \in Clients : Carries(d) /\ request[d].held = chatIssued
          /\ \A d \in Clients : Carries(d) =>
                /\ request[d].held = chatIssued /\ chatIssued > 1 /\ chatFile # chatIssued
                /\ \A e \in Clients \ {d} : request[e].held # chatIssued
      BY <3>1 DEF RequestsInv, GrantIsHeldOnce
    <3>3. ~Carries(c)' /\ \A d \in Clients \ {c} : Carries(d)' <=> Carries(d)
      BY <1>3 DEF Carries
    <3>4. \A d \in Clients : Carries(d) => record.held # chatIssued
      BY <1>1, <3>2
    <3> QED  BY <1>3, <3>1, <3>2, <3>3, <3>4 DEF GrantIsHeldOnce
  <2> QED  BY <2>1, <2>2, <2>3
<1>6. record.held \in 1..chatIssued'
  BY <1>1, <1>2
<1>7. chatFile' \in 1..chatIssued'
  BY <1>1, <1>2
<1>8. UNCHANGED account /\ chatIssued' \in chatIssued..MaxIssues /\ mislaid' \in BOOLEAN
      /\ chatLive' = IF rotating THEN {chatIssued'} ELSE 1..chatIssued'
  BY NotRenewedIs
<1> QED  BY <1>4, <1>5, <1>6, <1>7, <1>8, StepKeeps

LEMMA ArriveKeeps ==
  ASSUME RequestsInv, NEW c \in Clients, Arrive(c)
  PROVE  RequestsInv'
<1>1. PICK record : /\ record = [Fresh EXCEPT !.at = IF policy.freshens THEN "freshen" ELSE "ahead",
                                              !.held = chatFile]
                    /\ Goes(c, record)
  BY DEF Arrive
<1>2. PICK place \in {"freshen", "ahead"} : place = IF policy.freshens THEN "freshen" ELSE "ahead"
  OBVIOUS
<1>3. chatFile \in Nat
  BY DEF RequestsInv, AccountIsTyped
<1>4. /\ record.at = place /\ record.held = chatFile /\ ~record.again /\ record.sends = 0
      /\ record \in RequestRecords
  BY <1>1, <1>2, <1>3, VerdictsAreGiven DEF Fresh, RequestRecords, Places
<1>5. Sound(record)
  BY <1>4 DEF Sound, Counted, Earned, Blamed
<1>6. ~Carries(c) /\ NotRenewed(1) /\ UNCHANGED <<account, chatFile>>
  BY DEF Arrive, At, Carries, NotRenewed
<1> QED  BY <1>1, <1>4, <1>5, <1>6, QuietStep
(* A renewal that counts: a carrier would hold the newest grant alone.     *)
LEMMA RenewedByOne ==
  ASSUME RequestsInv, NEW c \in Clients, ~Carries(c), GrantRenewed(request[c].held)
  PROVE  rotating /\ ~mislaid => chatFile = chatIssued /\ \A d \in Clients : ~Carries(d)
<1> SUFFICES ASSUME rotating, ~mislaid
             PROVE  chatFile = chatIssued /\ \A d \in Clients : ~Carries(d)
  OBVIOUS
<1>1. request[c].held = chatIssued
  BY RenewedIs
<1>2. \A d \in Clients : Carries(d) => \A e \in Clients \ {d} : request[e].held # chatIssued
  BY DEF RequestsInv, GrantIsHeldOnce
<1>3. \A d \in Clients : ~Carries(d)
  BY <1>1, <1>2
<1> QED  BY <1>3 DEF RequestsInv, GrantIsHeldOnce

LEMMA FreshenKeeps ==
  ASSUME RequestsInv, NEW c \in Clients, Freshen(c)
  PROVE  RequestsInv'
<1>1. PICK r : r = request[c]
  OBVIOUS
<1>2. r.at = "freshen" /\ r \in RequestRecords /\ Sound(r) /\ r.held \in 1..chatIssued /\ ~Carries(c)
  BY <1>1 DEF RequestsInv, AccountIsTyped, Freshen, At, Carries
<1>3. UNCHANGED account /\ ~r.again /\ r.sends = 0 /\ chatIssued \in Nat /\ r.held \in Nat
  BY <1>2 DEF Freshen, Sound, Counted, RequestRecords, RequestsInv, AccountIsTyped
<1>4. policy \in PolicyRecords
  BY PolicyIs DEF RequestsInv, AccountIsTyped
<1>5. CASE /\ Goes(c, [request[c] EXCEPT !.at = "ahead"])
           /\ NotRenewed(request[c].held) /\ UNCHANGED chatFile
  <2>1. PICK record : record = [r EXCEPT !.at = "ahead"]
    OBVIOUS
  <2>2. /\ record.at = "ahead" /\ record.held = r.held /\ ~record.again /\ record.sends = 0
        /\ record \in RequestRecords
    BY <1>2, <1>3, <2>1 DEF RequestRecords, Places
  <2>3. Sound(record)
    BY <2>2 DEF Sound, Counted, Earned, Blamed
  <2> QED  BY <1>1, <1>2, <1>3, <1>5, <2>1, <2>2, <2>3, QuietStep
<1>6. CASE /\ GrantRenewed(request[c].held)
           /\ Goes(c, [request[c] EXCEPT !.at = "ahead", !.held = chatIssued + 1])
           /\ \/ chatFile' = chatIssued + 1 /\ UNCHANGED mislaid
              \/ mislaid' = TRUE /\ UNCHANGED chatFile
  <2>1. PICK record : record = [r EXCEPT !.at = "ahead", !.held = chatIssued + 1]
    OBVIOUS
  <2>2. chatIssued + 1 \in Nat
    BY <1>3
  <2>3. /\ record.at = "ahead" /\ record.held = chatIssued + 1 /\ ~record.again /\ record.sends = 0
        /\ record \in RequestRecords
    BY <1>2, <1>3, <2>1, <2>2 DEF RequestRecords, Places
  <2>4. Sound(record) /\ Goes(c, record)
    BY <1>1, <1>6, <2>1, <2>3 DEF Sound, Counted, Earned, Blamed
  <2>5. /\ chatIssued' = chatIssued + 1 /\ chatIssued' \in chatIssued..MaxIssues
        /\ chatLive' = IF rotating THEN {chatIssued'} ELSE 1..chatIssued'
    BY <1>6, RenewedIs
  <2>6. mislaid' \in BOOLEAN /\ (mislaid => mislaid') /\ (mislaid' \/ chatFile' = chatIssued')
    <3>1. mislaid \in BOOLEAN
      BY DEF RequestsInv, AccountIsTyped
    <3>2. CASE chatFile' = chatIssued + 1 /\ mislaid' = mislaid
      BY <2>5, <3>1, <3>2, Zenon
    <3>3. CASE mislaid' = TRUE
      BY <3>3
    <3> QED  BY <1>6, <3>2, <3>3, Zenon
  <2>11. chatFile' \in 1..chatIssued'
    <3>1. chatFile \in 1..chatIssued
      BY DEF RequestsInv, AccountIsTyped
    <3>2. chatFile' \in {chatIssued + 1, chatFile}
      BY <1>6
    <3> QED  BY <1>3, <2>5, <3>1, <3>2
  <2>7. request'[c] = record /\ \A d \in Clients \ {c} : request'[d] = request[d]
    BY <2>4 DEF Goes, RequestsInv, AccountIsTyped
  <2>8. WhatIsNotStoredIsLost'
    <3>1. policy' = policy
      BY <1>3 DEF policy, account
    <3> QED  BY <2>3, <2>6, <2>7, <3>1 DEF RequestsInv, WhatIsNotStoredIsLost
  <2>9. GrantIsHeldOnce'
    <3>1. CASE ~mislaid' /\ rotating'
      <4>1. ~mislaid /\ rotating
        BY <1>3, <2>6, <3>1 DEF account
      <4>2. \A d \in Clients : ~Carries(d)
        BY <1>2, <1>6, <4>1, RenewedByOne
      <4>3. \A d \in Clients : ~Carries(d)'
        BY <2>3, <2>7, <4>2 DEF Carries
      <4> QED  BY <2>6, <3>1, <4>3 DEF GrantIsHeldOnce
    <3> QED  BY <3>1 DEF GrantIsHeldOnce
  <2>10. record.held \in 1..chatIssued'
    BY <1>3, <2>3, <2>5
  <2> QED  BY <1>3, <2>4, <2>5, <2>6, <2>8, <2>9, <2>10, <2>11, StepKeeps
<1>7. CASE /\ renewable
           /\ \E v \in {Refusal("refresh"), Transport("refresh"), Errorf("save")} :
                Goes(c, [Ended(c, v) EXCEPT !.tried = TRUE])
           /\ NotRenewed(request[c].held) /\ UNCHANGED chatFile
  <2>1. PICK v \in {Refusal("refresh"), Transport("refresh"), Errorf("save")} :
               Goes(c, [Ended(c, v) EXCEPT !.tried = TRUE])
    BY <1>7
  <2>2. v \in VerdictsGiven
    BY <2>1, VerdictsAreGiven
  <2>3. PICK record : record = [[r EXCEPT !.at = "done", !.verdict = v] EXCEPT !.tried = TRUE]
    OBVIOUS
  <2>4. /\ record.at = "done" /\ record.held = r.held /\ ~record.again /\ record.sends = 0
        /\ record.tried /\ record \in RequestRecords
    BY <1>2, <1>3, <2>2, <2>3 DEF RequestRecords, Places
  <2>5. 0 <= MostSends
    BY <1>4 DEF MostSends, PolicyRecords
  <2>6. Sound(record)
    BY <2>4, <2>5 DEF Sound, Counted, Earned, Blamed
  <2> QED  BY <1>1, <1>2, <1>3, <1>7, <2>1, <2>3, <2>4, <2>6, QuietStep DEF Ended
<1> QED  BY <1>5, <1>6, <1>7 DEF Freshen
LEMMA AheadKeeps ==
  ASSUME RequestsInv, NEW c \in Clients, Ahead(c)
  PROVE  RequestsInv'
<1>1. PICK r : r = request[c]
  OBVIOUS
<1>2. r.at = "ahead" /\ r \in RequestRecords /\ Sound(r) /\ r.held \in 1..chatIssued /\ ~Carries(c)
  BY <1>1 DEF RequestsInv, AccountIsTyped, Ahead, At, Carries
<1>3. UNCHANGED <<account, chatFile>> /\ ~r.again /\ r.sends = 0 /\ chatIssued \in Nat
  BY <1>2 DEF Ahead, Sound, Counted, RequestRecords, RequestsInv, AccountIsTyped
<1>4. policy \in PolicyRecords
  BY PolicyIs DEF RequestsInv, AccountIsTyped
<1>5. 0 < policy.attempts /\ 0 <= MostSends
  BY <1>4 DEF MostSends, PolicyRecords
<1>6. ASSUME NEW record, record.at = "send", ~record.again, record.sends = 0,
             record \in RequestRecords
      PROVE  Sound(record)
  BY <1>5, <1>6 DEF Sound, Counted, Earned, Blamed
<1>7. CASE Goes(c, [request[c] EXCEPT !.at = "send"]) /\ UNCHANGED <<chatVendor, mislaid>>
  <2>1. PICK record : record = [r EXCEPT !.at = "send"]
    OBVIOUS
  <2>2. /\ record.at = "send" /\ record.held = r.held /\ ~record.again /\ record.sends = 0
        /\ record \in RequestRecords
    BY <1>2, <1>3, <2>1 DEF RequestRecords, Places
  <2>3. NotRenewed(request[c].held)
    BY <1>7 DEF NotRenewed
  <2> QED  BY <1>1, <1>2, <1>3, <1>6, <1>7, <2>1, <2>2, <2>3, QuietStep
<1>8. CASE /\ GrantRenewed(request[c].held)
           /\ Goes(c, [request[c] EXCEPT !.at = "send", !.held = chatIssued + 1, !.tried = TRUE])
           /\ mislaid' = TRUE
  <2>1. PICK record : record = [r EXCEPT !.at = "send", !.held = chatIssued + 1, !.tried = TRUE]
    OBVIOUS
  <2>2. chatIssued + 1 \in Nat
    BY <1>3
  <2>3. /\ record.at = "send" /\ record.held = chatIssued + 1 /\ ~record.again /\ record.sends = 0
        /\ record \in RequestRecords
    BY <1>2, <1>3, <2>1, <2>2 DEF RequestRecords, Places
  <2>4. Sound(record) /\ Goes(c, record)
    BY <1>1, <1>6, <1>8, <2>1, <2>3
  <2>5. /\ chatIssued' = chatIssued + 1 /\ chatIssued' \in chatIssued..MaxIssues
        /\ chatLive' = IF rotating THEN {chatIssued'} ELSE 1..chatIssued'
    BY <1>8, RenewedIs
  <2>6. chatFile' \in 1..chatIssued'
    <3>1. chatFile \in 1..chatIssued
      BY DEF RequestsInv, AccountIsTyped
    <3> QED  BY <1>3, <2>5, <3>1
  <2>7. GrantIsHeldOnce' /\ WhatIsNotStoredIsLost' /\ mislaid' \in BOOLEAN
    BY <1>8 DEF GrantIsHeldOnce, WhatIsNotStoredIsLost
  <2>8. record.held \in 1..chatIssued'
    BY <1>3, <2>3, <2>5
  <2> QED  BY <1>3, <2>4, <2>5, <2>6, <2>7, <2>8, StepKeeps
<1>9. CASE /\ policy.ahead = "may" /\ renewable
           /\ Goes(c, [request[c] EXCEPT !.at = "send", !.tried = TRUE])
           /\ NotRenewed(request[c].held)
  <2>1. PICK record : record = [r EXCEPT !.at = "send", !.tried = TRUE]
    OBVIOUS
  <2>2. /\ record.at = "send" /\ record.held = r.held /\ ~record.again /\ record.sends = 0
        /\ record \in RequestRecords
    BY <1>2, <1>3, <2>1 DEF RequestRecords, Places
  <2> QED  BY <1>1, <1>2, <1>3, <1>6, <1>9, <2>1, <2>2, QuietStep
<1>10. CASE /\ policy.ahead = "must"
            /\ Goes(c, [Ended(c, Refusal("missing_credential")) EXCEPT !.tried = renewable])
            /\ NotRenewed(request[c].held)
  <2>1. PICK v : v = Refusal("missing_credential")
    OBVIOUS
  <2>2. PICK b \in BOOLEAN : b = renewable
    BY DEF RequestsInv, AccountIsTyped
  <2>3. v \in VerdictsGiven
    BY <2>1, VerdictsAreGiven
  <2>4. PICK record : record = [[r EXCEPT !.at = "done", !.verdict = v] EXCEPT !.tried = b]
    OBVIOUS
  <2>5. /\ record.at = "done" /\ record.held = r.held /\ ~record.again /\ record.sends = 0
        /\ record.tried = b /\ record \in RequestRecords
    BY <1>2, <1>3, <2>3, <2>4 DEF RequestRecords, Places
  <2>6. Sound(record)
    <3>1. Blamed(record)
      BY <2>2, <2>5 DEF Blamed
    <3> QED  BY <1>5, <2>5, <3>1 DEF Sound, Counted, Earned
  <2> QED  BY <1>1, <1>2, <1>3, <1>10, <2>1, <2>2, <2>4, <2>5, <2>6, QuietStep DEF Ended
<1> QED  BY <1>7, <1>8, <1>9, <1>10 DEF Ahead

LEMMA LookKeeps ==
  ASSUME RequestsInv, NEW c \in Clients, Look(c)
  PROVE  RequestsInv'
<1>1. PICK r : r = request[c]
  OBVIOUS
<1>2. r.at = "look" /\ r \in RequestRecords /\ Sound(r) /\ ~Carries(c)
  BY <1>1 DEF RequestsInv, AccountIsTyped, Look, At, Carries
<1>3. UNCHANGED <<account, chatFile>> /\ ~r.again /\ r.sends < policy.attempts /\ r.sends \in Nat
  BY <1>2 DEF Look, Sound, Counted, RequestRecords
<1>4. r.sends <= MostSends
  <2>1. policy.attempts \in Nat
    BY PolicyIs DEF RequestsInv, AccountIsTyped, PolicyRecords
  <2> QED  BY <1>3, <2>1 DEF MostSends
<1>5. NotRenewed(request[c].held)
  BY DEF Look, NotRenewed
<1>6. CASE Goes(c, [request[c] EXCEPT !.at = "send"])
  <2>1. PICK record : record = [r EXCEPT !.at = "send"]
    OBVIOUS
  <2>2. /\ record.at = "send" /\ record.held = r.held /\ ~record.again /\ record.sends = r.sends
        /\ record.said = r.said /\ record \in RequestRecords
    BY <1>2, <1>3, <2>1 DEF RequestRecords, Places
  <2>3. Sound(record)
    BY <1>2, <1>3, <2>2 DEF Sound, Counted, Earned, Blamed
  <2> QED  BY <1>1, <1>2, <1>3, <1>5, <1>6, <2>1, <2>2, <2>3, QuietStep
<1>7. CASE Goes(c, Ended(c, HTTPError("queue_full", 429)))
  <2>1. PICK v : v = HTTPError("queue_full", 429)
    OBVIOUS
  <2>2. v \in VerdictsGiven /\ v.http # 401
    BY <2>1, VerdictsAreGiven, VerdictsAre
  <2>3. PICK record : record = [r EXCEPT !.at = "done", !.verdict = v]
    OBVIOUS
  <2>4. /\ record.at = "done" /\ record.held = r.held /\ ~record.again /\ record.sends = r.sends
        /\ record.verdict = v /\ record \in RequestRecords
    <3>1. "done" \in Places
      BY DEF Places
    <3>2. record \in RequestRecords /\ record.at = "done" /\ record.verdict = v
      BY ZenonT(30), <1>2, <2>2, <2>3, <3>1 DEF RequestRecords
    <3>3. record.held = r.held /\ record.again = r.again /\ record.sends = r.sends
      BY <1>2, <2>3 DEF RequestRecords
    <3> QED  BY <1>3, <3>2, <3>3
  <2>5. Sound(record)
    BY <1>4, <2>2, <2>4 DEF Sound, Counted, Earned, Blamed
  <2>6. Goes(c, record)
    BY <1>1, <1>7, <2>1, <2>3 DEF Ended, Goes
  <2> QED  BY <1>1, <1>2, <1>3, <1>5, <2>4, <2>5, <2>6, QuietStep
<1> QED  BY <1>6, <1>7 DEF Look

LEMMA DepartKeeps ==
  ASSUME RequestsInv, NEW c \in Clients, Depart(c)
  PROVE  RequestsInv'
<1>1. PICK record : record = Fresh
  OBVIOUS
<1>2. /\ record.at = "idle" /\ record.held = 1 /\ ~record.again /\ record.sends = 0
      /\ record \in RequestRecords
  BY <1>1, VerdictsAreGiven DEF Fresh, RequestRecords, Places
<1>3. Sound(record)
  BY <1>2 DEF Sound, Counted, Earned, Blamed
<1>4. ~Carries(c) /\ NotRenewed(1) /\ UNCHANGED <<account, chatFile>> /\ Goes(c, record)
  BY <1>1 DEF Depart, At, Carries, NotRenewed
<1> QED  BY <1>2, <1>3, <1>4, QuietStep
LEMMA RenewKeeps ==
  ASSUME RequestsInv, NEW c \in Clients, Renew(c)
  PROVE  RequestsInv'
<1>1. PICK r : r = request[c]
  OBVIOUS
<1>2. r.at = "renew" /\ r \in RequestRecords /\ Sound(r) /\ ~Carries(c)
  BY <1>1 DEF RequestsInv, AccountIsTyped, Renew, At, Carries
<1>3. /\ UNCHANGED <<account, chatFile>> /\ ~r.again /\ r.sends \in Nat /\ chatIssued \in Nat
      /\ r.sends <= policy.attempts /\ policy.renews /\ RefusedStatus(r.said.status)
  BY <1>2 DEF Renew, Sound, Counted, Earned, RequestRecords, RequestsInv, AccountIsTyped
<1>4. CASE /\ GrantRenewed(request[c].held)
           /\ Goes(c, [request[c] EXCEPT !.at = "send", !.held = chatIssued + 1,
                                         !.again = TRUE, !.tried = TRUE])
           /\ mislaid' = (mislaid \/ ~policy.stores)
  <2>1. PICK record : record = [r EXCEPT !.at = "send", !.held = chatIssued + 1,
                                         !.again = TRUE, !.tried = TRUE]
    OBVIOUS
  <2>2. chatIssued + 1 \in Nat
    BY <1>3
  <2>3. /\ record.at = "send" /\ record.held = chatIssued + 1 /\ record.again /\ record.tried
        /\ record.sends = r.sends /\ record.said = r.said /\ record \in RequestRecords
    BY <1>2, <1>3, <2>1, <2>2 DEF RequestRecords, Places
  <2>4. Sound(record) /\ Goes(c, record)
    BY <1>1, <1>3, <1>4, <2>1, <2>3 DEF Sound, Counted, Earned, Blamed
  <2>5. /\ chatIssued' = chatIssued + 1 /\ chatIssued' \in chatIssued..MaxIssues
        /\ chatLive' = IF rotating THEN {chatIssued'} ELSE 1..chatIssued'
    BY <1>4, RenewedIs
  <2>6. chatFile \in 1..chatIssued /\ chatFile' = chatFile /\ chatFile' \in 1..chatIssued'
    <3>1. chatFile \in 1..chatIssued /\ chatFile' = chatFile
      BY <1>3 DEF RequestsInv, AccountIsTyped
    <3> QED  BY <1>3, <2>5, <3>1
  <2>7. mislaid' \in BOOLEAN /\ (mislaid' <=> mislaid \/ ~policy.stores)
    <3>1. mislaid \in BOOLEAN
      BY DEF RequestsInv, AccountIsTyped
    <3> QED  BY <1>4, <3>1, Zenon
  <2>8. record.held \in 1..chatIssued'
    BY <1>3, <2>3, <2>5
  <2>9. request'[c] = record /\ \A d \in Clients \ {c} : request'[d] = request[d]
    BY <2>4 DEF Goes, RequestsInv, AccountIsTyped
  <2>10. WhatIsNotStoredIsLost'
    <3>1. policy' = policy
      BY <1>3 DEF policy, account
    <3>2. \A d \in Clients : request[d].again /\ ~policy.stores => mislaid
      BY DEF RequestsInv, WhatIsNotStoredIsLost
    <3>3. \A d \in Clients : request'[d].again /\ ~policy.stores => mislaid'
      BY <2>7, <2>9, <3>2
    <3> QED  BY <3>1, <3>3 DEF WhatIsNotStoredIsLost
  <2>11. GrantIsHeldOnce'
    <3> SUFFICES ASSUME rotating', ~mislaid'
                 PROVE  /\ \E d \in Clients : Carries(d)' /\ request'[d].held = chatIssued'
                        /\ \A d \in Clients : Carries(d)' =>
                             /\ request'[d].held = chatIssued' /\ chatIssued' > 1
                             /\ chatFile' # chatIssued'
                             /\ \A e \in Clients \ {d} : request'[e].held # chatIssued'
      BY DEF GrantIsHeldOnce
    <3>1. ~mislaid /\ rotating
      BY <1>3, <2>7 DEF account
    <3>2. chatFile = chatIssued /\ \A d \in Clients : ~Carries(d)
      BY <1>2, <1>4, <3>1, RenewedByOne
    <3>3. Carries(c)' /\ \A d \in Clients \ {c} : ~Carries(d)'
      BY <2>3, <2>9, <3>2 DEF Carries
    <3>4. request'[c].held = chatIssued' /\ chatIssued' > 1 /\ chatFile' # chatIssued'
      <4>1. chatIssued \in Nat \ {0}
        BY RequestBoundsAssumption DEF RequestsInv, AccountIsTyped
      <4> QED  BY <2>3, <2>5, <2>6, <2>9, <3>2, <4>1
    <3>5. \A e \in Clients \ {c} : request'[e].held # chatIssued'
      <4>1. \A e \in Clients : request[e].held \in 1..chatIssued
        BY DEF RequestsInv, AccountIsTyped
      <4> QED  BY <1>3, <2>5, <2>9, <4>1
    <3> QED  BY <3>3, <3>4, <3>5
  <2> QED  BY <1>3, <2>4, <2>5, <2>6, <2>7, <2>8, <2>10, <2>11, StepKeeps
<1>5. CASE RenewalFailed(c)
  <2>1. PICK v : v = IF policy.lenient THEN FinalVerdict(request[c].said) ELSE Refusal("auth")
    OBVIOUS
  <2>2. r.said \in ChatAnswers \union {Nothing}
    BY <1>2 DEF RequestRecords
  <2>3. v \in VerdictsGiven
    BY <1>1, <2>1, <2>2, VerdictsAreGiven
  <2>4. PICK record : record = [[r EXCEPT !.at = "done", !.verdict = v] EXCEPT !.tried = TRUE]
    OBVIOUS
  <2>5. /\ record.at = "done" /\ record.held = r.held /\ ~record.again /\ record.sends = r.sends
        /\ record.tried /\ record \in RequestRecords
    BY <1>2, <1>3, <2>3, <2>4 DEF RequestRecords, Places
  <2>6. r.sends <= MostSends
    <3>1. policy.attempts \in Nat
      BY PolicyIs DEF RequestsInv, AccountIsTyped, PolicyRecords
    <3> QED  BY <1>3, <3>1 DEF MostSends
  <2>7. Sound(record)
    BY <2>5, <2>6 DEF Sound, Counted, Earned, Blamed
  <2>8. Goes(c, record) /\ NotRenewed(request[c].held)
    BY <1>1, <1>5, <2>1, <2>4 DEF RenewalFailed, Ended
  <2> QED  BY <1>1, <1>2, <1>3, <2>5, <2>7, <2>8, QuietStep
<1> QED  BY <1>4, <1>5 DEF Renew

LEMMA StoreKeeps ==
  ASSUME RequestsInv, NEW c \in Clients, Store(c)
  PROVE  RequestsInv'
<1>1. PICK r : r = request[c]
  OBVIOUS
<1>2. r.at = "store" /\ r \in RequestRecords /\ Sound(r) /\ r.held \in 1..chatIssued
  BY <1>1 DEF RequestsInv, AccountIsTyped, Store, At
<1>3. UNCHANGED <<account, chatVendor>> /\ chatIssued \in Nat
  BY DEF Store, RequestsInv, AccountIsTyped
<1>4. PICK record : record = [r EXCEPT !.at = "done"]
  OBVIOUS
<1>5. /\ record.at = "done" /\ record.held = r.held /\ record.again = r.again
      /\ record.sends = r.sends /\ record.said = r.said /\ record.tried = r.tried
      /\ record.verdict = r.verdict /\ record \in RequestRecords
  BY <1>2, <1>4 DEF RequestRecords, Places
<1>6. Sound(record)
  BY <1>2, <1>5 DEF Sound, Counted, Earned, Blamed
<1>7. Goes(c, record) /\ record.held \in 1..chatIssued
  BY <1>1, <1>2, <1>4, <1>5 DEF Store
<1>8. request'[c] = record /\ \A d \in Clients \ {c} : request'[d] = request[d]
  BY <1>7 DEF Goes, RequestsInv, AccountIsTyped
<1>9. chatIssued' = chatIssued /\ chatLive' = chatLive /\ rotating' = rotating
  BY <1>3 DEF chatVendor, account
<1>10. chatFile' \in 1..chatIssued
  <2>1. chatFile \in 1..chatIssued
    BY DEF RequestsInv, AccountIsTyped
  <2>2. chatFile' \in {chatFile, request[c].held}
    BY DEF Store, Stored
  <2> QED  BY <1>1, <1>2, <2>1, <2>2
<1>11. mislaid' \in BOOLEAN /\ (mislaid => mislaid') /\ (mislaid' \/ chatFile' = request[c].held)
  <2>1. mislaid \in BOOLEAN
    BY DEF RequestsInv, AccountIsTyped
  <2>2. CASE chatFile' = request[c].held /\ mislaid' = mislaid
    BY <2>1, <2>2, Zenon
  <2>3. CASE mislaid' = TRUE
    BY <2>3
  <2> QED  BY <2>2, <2>3 DEF Store, Stored
<1>12. WhatIsNotStoredIsLost'
  <2>1. policy' = policy
    BY <1>3 DEF policy, account
  <2>2. \A d \in Clients : request[d].again /\ ~policy.stores => mislaid
    BY DEF RequestsInv, WhatIsNotStoredIsLost
  <2>3. \A d \in Clients : request'[d].again /\ ~policy.stores => mislaid'
    BY <1>1, <1>5, <1>8, <1>11, <2>2
  <2> QED  BY <2>1, <2>3 DEF WhatIsNotStoredIsLost
<1>13. GrantIsHeldOnce'
  <2> SUFFICES ASSUME rotating', ~mislaid'
               PROVE  chatFile' = chatIssued' /\ \A d \in Clients : ~Carries(d)'
    BY DEF GrantIsHeldOnce
  <2>1. ~mislaid /\ rotating /\ chatFile' = r.held
    BY <1>1, <1>9, <1>11
  <2>2. CASE r.again
    <3>1. Carries(c)
      BY <1>1, <1>2, <2>2 DEF Carries
    <3>2. request[c].held = chatIssued /\ \A d \in Clients \ {c} : request[d].held # chatIssued
      BY <2>1, <3>1 DEF RequestsInv, GrantIsHeldOnce
    <3>3. \A d \in Clients \ {c} : ~Carries(d)
      BY <2>1, <3>2 DEF RequestsInv, GrantIsHeldOnce
    <3> QED  BY <1>1, <1>5, <1>8, <1>9, <2>1, <3>2, <3>3 DEF Carries
  <2>3. r.again
    BY <1>2 DEF Sound, Counted
  <2> QED  BY <2>2, <2>3
<1>14. chatIssued' \in chatIssued..MaxIssues /\ record.held \in 1..chatIssued' /\ chatFile' \in 1..chatIssued'
  <2>1. chatIssued \in 1..MaxIssues /\ MaxIssues \in Nat
    BY RequestBoundsAssumption DEF RequestsInv, AccountIsTyped
  <2> QED  BY <1>7, <1>9, <1>10, <2>1
<1>15. chatLive' = IF rotating THEN {chatIssued'} ELSE 1..chatIssued'
  <2>1. chatLive = IF rotating THEN {chatIssued} ELSE 1..chatIssued
    BY DEF RequestsInv, AccountIsTyped
  <2> QED  BY <1>9, <2>1
<1> QED  BY <1>3, <1>6, <1>7, <1>11, <1>12, <1>13, <1>14, <1>15, StepKeeps
(* A step of one that carries on as it did, as far as it carries, and of   *)
(* the account only says whether what it carried is lost.                  *)
LEMMA CarriedOn ==
  ASSUME RequestsInv, NEW c \in Clients, NEW record, Goes(c, record), Sound(record),
         record.held = request[c].held, record.again = request[c].again,
         UNCHANGED <<account, chatVendor, chatFile>>, mislaid' \in BOOLEAN, mislaid => mislaid',
         request[c].at = "send",
         record.again => mislaid' \/ record.at \in {"send", "store"}
  PROVE  RequestsInv'
<1>1. request'[c] = record /\ \A d \in Clients \ {c} : request'[d] = request[d]
  BY DEF Goes, RequestsInv, AccountIsTyped
<1>2. chatIssued' = chatIssued /\ chatLive' = chatLive /\ chatFile' = chatFile /\ rotating' = rotating
  BY DEF chatVendor, account
<1>3. chatIssued' \in chatIssued..MaxIssues /\ record.held \in 1..chatIssued' /\ chatFile' \in 1..chatIssued'
  <2>1. chatIssued \in 1..MaxIssues /\ MaxIssues \in Nat /\ request[c].held \in 1..chatIssued
        /\ chatFile \in 1..chatIssued
    BY RequestBoundsAssumption DEF RequestsInv, AccountIsTyped
  <2> QED  BY <1>2, <2>1
<1>4. chatLive' = IF rotating THEN {chatIssued'} ELSE 1..chatIssued'
  BY <1>2 DEF RequestsInv, AccountIsTyped
<1>5. WhatIsNotStoredIsLost'
  <2>1. policy' = policy
    BY DEF policy, account
  <2>2. \A d \in Clients : request[d].again /\ ~policy.stores => mislaid
    BY DEF RequestsInv, WhatIsNotStoredIsLost
  <2>3. \A d \in Clients : request'[d].again /\ ~policy.stores => mislaid'
    BY <1>1, <2>2
  <2> QED  BY <2>1, <2>3 DEF WhatIsNotStoredIsLost
<1>6. GrantIsHeldOnce'
  <2> SUFFICES ASSUME rotating', ~mislaid'
               PROVE  GrantIsHeldOnce'
    BY DEF GrantIsHeldOnce
  <2>1. \A d \in Clients : request'[d].held = request[d].held /\ (Carries(d)' <=> Carries(d))
    BY <1>1 DEF Carries
  <2>2. /\ chatFile = chatIssued \/ \E d \in Clients : Carries(d) /\ request[d].held = chatIssued
        /\ \A d \in Clients : Carries(d) =>
              /\ request[d].held = chatIssued /\ chatIssued > 1 /\ chatFile # chatIssued
              /\ \A e \in Clients \ {d} : request[e].held # chatIssued
    BY <1>2 DEF RequestsInv, GrantIsHeldOnce
  <2> QED  BY <1>2, <2>1, <2>2 DEF GrantIsHeldOnce
<1> QED  BY <1>3, <1>4, <1>5, <1>6, StepKeeps

LEMMA SendKeeps ==
  ASSUME RequestsInv, NEW c \in Clients, Send(c)
  PROVE  RequestsInv'
<1>1. PICK r : r = request[c]
  OBVIOUS
<1>2. r.at = "send" /\ r \in RequestRecords /\ Sound(r)
  BY <1>1 DEF RequestsInv, AccountIsTyped, Send, At
<1>3. UNCHANGED <<account, chatVendor, chatFile>> /\ r.sends \in Nat
  BY <1>2 DEF Send, RequestRecords
<1>4. policy.attempts \in Nat \ {0} /\ (policy.renews => policy.attempts = 1) /\ plugin \in Plugins
      /\ (policy.stores => policy.renews)
  BY PolicyIs DEF RequestsInv, AccountIsTyped, PolicyRecords
<1>5. /\ ~r.again => r.sends < policy.attempts
      /\ r.again => policy.renews /\ r.tried /\ r.sends <= policy.attempts
  BY <1>2 DEF Sound, Counted
<1>6. r.sends + 1 \in Nat /\ r.sends + 1 <= MostSends
  BY <1>3, <1>4, <1>5 DEF MostSends
<1>7. r.again /\ ~policy.stores => mislaid
  BY <1>1 DEF RequestsInv, WhatIsNotStoredIsLost
<1>8. CASE /\ \E a \in ChatAnswers :
                a.says \subseteq Marks[plugin] /\ Goes(c, AnsweredWith(c, a))
           /\ UNCHANGED mislaid
  <2>1. PICK a \in ChatAnswers : Goes(c, AnsweredWith(c, a))
    BY <1>8
  <2>2. mislaid' = mislaid /\ mislaid \in BOOLEAN
    BY <1>8 DEF RequestsInv, AccountIsTyped
  <2>3. PICK counted : counted = [r EXCEPT !.said = a, !.sends = r.sends + 1]
    OBVIOUS
  <2>4. /\ counted.at = "send" /\ counted.held = r.held /\ counted.again = r.again
        /\ counted.sends = r.sends + 1 /\ counted.said = a /\ counted.tried = r.tried
        /\ counted.verdict = r.verdict /\ counted \in RequestRecords
    BY <1>2, <1>6, <2>3 DEF RequestRecords, Places
  <2>5. CASE ~Success(a.status) /\ MayAskAgain(c, a)
    <3>1. PICK place \in {"look", "send"} : place = IF policy.looks THEN "look" ELSE "send"
      OBVIOUS
    <3>2. PICK record : record = [counted EXCEPT !.at = place]
      OBVIOUS
    <3>3. AnsweredWith(c, a) = record
      BY <1>1, <2>3, <2>5, <3>1, <3>2 DEF AnsweredWith
    <3>4. /\ record.at = place /\ record.held = r.held /\ record.again = r.again
          /\ record.sends = r.sends + 1 /\ record.said = a /\ record \in RequestRecords
      BY <2>4, <3>2 DEF RequestRecords, Places
    <3>5. QueueBusy(a) /\ r.sends + 1 < policy.attempts
      BY <1>1, <2>5 DEF MayAskAgain
    <3>6. ~r.again
      BY <1>3, <1>4, <1>5, <3>5
    <3>7. Sound(record)
      BY <2>5, <3>4, <3>5, <3>6 DEF Sound, Counted, Earned, Blamed
    <3> QED  BY <1>1, <1>2, <1>3, <2>1, <2>2, <3>3, <3>4, <3>6, <3>7, CarriedOn
  <2>6. CASE ~Success(a.status) /\ ~MayAskAgain(c, a) /\ StartsRenewal(c, a)
    <3>1. PICK record : record = [counted EXCEPT !.at = "renew"]
      OBVIOUS
    <3>2. AnsweredWith(c, a) = record
      BY <1>1, <2>3, <2>6, <3>1 DEF AnsweredWith
    <3>3. /\ record.at = "renew" /\ record.held = r.held /\ record.again = r.again
          /\ record.sends = r.sends + 1 /\ record.said = a /\ record \in RequestRecords
      BY <2>4, <3>1 DEF RequestRecords, Places
    <3>4. policy.renews /\ ~r.again /\ RefusedStatus(a.status)
      BY <1>1, <2>6 DEF StartsRenewal
    <3>5. r.sends + 1 <= policy.attempts
      BY <1>3, <1>4, <1>5, <3>4
    <3>6. Sound(record)
      BY <3>3, <3>4, <3>5 DEF Sound, Counted, Earned, Blamed
    <3> QED  BY <1>1, <1>2, <1>3, <2>1, <2>2, <3>2, <3>3, <3>4, <3>6, CarriedOn
  <2>7. CASE /\ ~(~Success(a.status) /\ MayAskAgain(c, a))
             /\ ~(~Success(a.status) /\ ~MayAskAgain(c, a) /\ StartsRenewal(c, a))
    <3>1. PICK place \in {"store", "done"} : place = IF r.again /\ policy.stores THEN "store" ELSE "done"
      OBVIOUS
    <3>2. PICK v : v = FinalVerdict(a)
      OBVIOUS
    <3>3. v \in VerdictsGiven
      BY <3>2, VerdictsAreGiven
    <3>4. PICK record : record = [counted EXCEPT !.at = place, !.verdict = v]
      OBVIOUS
    <3>5. AnsweredWith(c, a) = record
      BY <1>1, <2>3, <2>7, <3>1, <3>2, <3>4 DEF AnsweredWith
    <3>6. /\ record.at = place /\ record.held = r.held /\ record.again = r.again
          /\ record.sends = r.sends + 1 /\ record.said = a /\ record.tried = r.tried
          /\ record.verdict = v /\ record \in RequestRecords
      BY <2>4, <3>3, <3>4 DEF RequestRecords, Places
    <3>7. Blamed(record)
      <4> SUFFICES ASSUME v.http = 401, policy.renews, renewable, "dead" \notin a.says
                   PROVE  r.tried
        BY <3>6 DEF Blamed
      <4>1. RefusedStatus(a.status) /\ ~(plugin = "cline" /\ RegionForbidden(a))
        BY <1>4, <3>2, BlameMeansRefusal
      <4>2. ~Success(a.status)
        BY <4>1 DEF RefusedStatus, Success
      <4>3. ~MayAskAgain(c, a) /\ ~StartsRenewal(c, a)
        BY <2>7, <4>2
      <4>4. r.again
        BY <1>1, <4>1, <4>3 DEF StartsRenewal
      <4> QED  BY <1>5, <4>4
    <3>8. Sound(record)
      BY <1>2, <1>5, <1>6, <3>1, <3>6, <3>7 DEF Sound, Counted, Earned
    <3>9. record.again => mislaid' \/ record.at \in {"send", "store"}
      BY <1>7, <2>2, <3>1, <3>6
    <3> QED  BY <1>1, <1>2, <1>3, <2>1, <2>2, <3>5, <3>6, <3>8, <3>9, CarriedOn
  <2> QED  BY <2>5, <2>6, <2>7
<1>9. CASE /\ Goes(c, [Ended(c, TransportVerdict) EXCEPT !.said = Nothing, !.sends = @ + 1])
           /\ mislaid' = (mislaid \/ request[c].again)
  <2>1. PICK v : v = TransportVerdict
    OBVIOUS
  <2>2. v \in VerdictsGiven /\ (policy.renews => v.http # 401)
    BY <1>4, <2>1, VerdictsAreGiven, RenewingIsDirect
  <2>3. PICK ended : ended = [r EXCEPT !.at = "done", !.verdict = v]
    OBVIOUS
  <2>4. /\ ended.at = "done" /\ ended.held = r.held /\ ended.again = r.again
        /\ ended.sends = r.sends /\ ended.verdict = v /\ ended \in RequestRecords
    <3>1. "done" \in Places
      BY DEF Places
    <3>2. ended \in RequestRecords /\ ended.at = "done" /\ ended.verdict = v
      BY ZenonT(30), <1>2, <2>2, <2>3, <3>1 DEF RequestRecords
    <3>3. ended.held = r.held /\ ended.again = r.again /\ ended.sends = r.sends
      BY <1>2, <2>3 DEF RequestRecords
    <3> QED  BY <3>2, <3>3
  <2>5. PICK record : record = [ended EXCEPT !.said = Nothing, !.sends = r.sends + 1]
    OBVIOUS
  <2>6. /\ record.at = "done" /\ record.held = r.held /\ record.again = r.again
        /\ record.sends = r.sends + 1 /\ record.verdict = v /\ record \in RequestRecords
        /\ record.tried = r.tried
    BY <1>6, <2>3, <2>4, <2>5 DEF RequestRecords
  <2>7. Goes(c, record)
    BY <1>1, <1>9, <2>1, <2>3, <2>4, <2>5 DEF Ended
  <2>8. Blamed(record)
    BY <2>2, <2>6 DEF Blamed
  <2>9. Sound(record)
    BY <1>5, <1>6, <2>6, <2>8 DEF Sound, Counted, Earned
  <2>10. mislaid' \in BOOLEAN /\ (mislaid => mislaid') /\ (record.again => mislaid')
    <3>1. mislaid \in BOOLEAN /\ r.again \in BOOLEAN
      BY <1>2 DEF RequestsInv, AccountIsTyped, RequestRecords
    <3> QED  BY <1>1, <1>9, <2>6, <3>1, Zenon
  <2> QED  BY <1>1, <1>2, <1>3, <2>6, <2>7, <2>9, <2>10, CarriedOn
<1> QED  BY <1>8, <1>9 DEF Send
----------------------------------------------------------------------------

LEMMA RequestsStart == ASSUME RequestsInit PROVE RequestsInv
<1>1. PICK r : r = Fresh
  OBVIOUS
<1>2. /\ r.at = "idle" /\ r.held = 1 /\ ~r.again /\ r.sends = 0 /\ r \in RequestRecords
  BY <1>1, VerdictsAreGiven DEF Fresh, RequestRecords, Places
<1>3. Sound(r)
  BY <1>2 DEF Sound, Counted, Earned, Blamed
<1>4. request = [c \in Clients |-> r]
  BY <1>1 DEF RequestsInit
<1>5. AccountIsTyped
  <2>1. 1 \in 1..MaxIssues /\ 1 \in 1..1 /\ 1..1 = {1}
    BY RequestBoundsAssumption
  <2>2. rotating \in BOOLEAN /\ mislaid \in BOOLEAN
    BY DEF RequestsInit
  <2> QED  BY <1>2, <1>4, <2>1, <2>2 DEF AccountIsTyped, RequestsInit
<1>6. GrantIsHeldOnce
  BY <1>2, <1>4 DEF GrantIsHeldOnce, Carries, RequestsInit
<1>7. WhatIsNotStoredIsLost
  BY <1>2, <1>4 DEF WhatIsNotStoredIsLost
<1>8. \A c \in Clients : Sound(request[c])
  BY <1>3, <1>4
<1> QED  BY <1>5, <1>6, <1>7, <1>8 DEF RequestsInv

LEMMA RequestsStep == ASSUME RequestsInv, [RequestsNext]_requestVars PROVE RequestsInv'
<1>1. CASE UNCHANGED requestVars
  <2>1. UNCHANGED account /\ request' = request /\ chatIssued' = chatIssued /\ chatLive' = chatLive
        /\ chatFile' = chatFile /\ mislaid' = mislaid
    BY <1>1 DEF requestVars, account
  <2>2. policy' = policy
    BY <2>1 DEF policy, account
  <2>3. \A c \in Clients : Sound(request[c])'
    <3> TAKE c \in Clients
    <3>1. PICK r : r = request[c]
      OBVIOUS
    <3>2. Sound(r)'
      BY <2>1, <3>1, SoundStays DEF RequestsInv
    <3> QED  BY <2>1, <3>1, <3>2 DEF Sound, Counted, Earned, Blamed
  <2>4. AccountIsTyped'
    <3>1. TransportVerdict' = TransportVerdict
      BY <2>1 DEF TransportVerdict, account
    <3>2. RequestRecords' = RequestRecords
      BY <2>1, <3>1 DEF RequestRecords, VerdictsGiven, account
    <3> QED  BY <2>1, <3>2 DEF RequestsInv, AccountIsTyped, account
  <2>5. GrantIsHeldOnce'
    BY <2>1 DEF RequestsInv, GrantIsHeldOnce, Carries, account
  <2>6. WhatIsNotStoredIsLost'
    BY <2>1, <2>2 DEF RequestsInv, WhatIsNotStoredIsLost
  <2> QED  BY <2>3, <2>4, <2>5, <2>6 DEF RequestsInv
<1>2. CASE RequestsNext
  <2>1. PICK c \in Clients : Arrive(c) \/ RequestStep(c)
    BY <1>2 DEF RequestsNext
  <2> QED  BY <2>1, ArriveKeeps, FreshenKeeps, AheadKeeps, SendKeeps, LookKeeps, RenewKeeps,
              StoreKeeps, DepartKeeps DEF RequestStep
<1> QED  BY <1>1, <1>2

(* What is claimed of the requests holds from the first state on.          *)
LEMMA RequestsAlways == RequestsSpec => []RequestsInv
<1>1. RequestsInit => RequestsInv
  BY RequestsStart
<1>2. RequestsInv /\ [RequestsNext]_requestVars => RequestsInv'
  BY RequestsStep
<1> QED  BY <1>1, <1>2, PTL DEF RequestsSpec

(* A renewal that withdraws the grant in the file never leaves the file    *)
(* without a successor on its way, unless that one was lost: a plugin does *)
(* not store it, the save failed or the answer never came.                 *)
THEOREM NoGrantIsOrphaned == RequestsSpec => []GrantIsNeverOrphaned
<1>1. RequestsInv => GrantIsNeverOrphaned
  <2> SUFFICES ASSUME RequestsInv, ~mislaid
               PROVE  chatFile \in chatLive \/ \E c \in Clients : Carries(c) /\ request[c].held \in chatLive
    BY DEF GrantIsNeverOrphaned
  <2>1. CASE rotating
    BY <2>1 DEF RequestsInv, AccountIsTyped, GrantIsHeldOnce
  <2>2. CASE ~rotating
    BY <2>2 DEF RequestsInv, AccountIsTyped
  <2> QED  BY <2>1, <2>2
<1> QED  BY <1>1, RequestsAlways, PTL

(* A plugin that renews on a refusal blames an account that can renew only *)
(* after a try, or when the vendor named the refresh token itself.         *)
THEOREM NobodyIsBlamedUntried == RequestsSpec => []BlameFollowsATry
<1>1. RequestsInv => BlameFollowsATry
  BY DEF RequestsInv, Sound, Blamed, BlameFollowsATry
<1> QED  BY <1>1, RequestsAlways, PTL

(* How often a request may be sent: no more than its plugin's attempts and  *)
(* one.                                                                     *)
SendsAreBounded == \A c \in Clients : request[c].sends \in 0..MostSends

LEMMA SendsBounded == ASSUME RequestsInv PROVE SendsAreBounded
<1> SUFFICES ASSUME NEW c \in Clients PROVE request[c].sends \in 0..MostSends
  BY DEF SendsAreBounded
<1>1. PICK r : r = request[c]
  OBVIOUS
<1>2. Sound(r) /\ r.at \in Places /\ r.sends \in Nat
  BY <1>1 DEF RequestsInv, Sound, RequestRecords
<1>3. policy.attempts \in Nat \ {0}
  BY <1>1, PolicyIs DEF RequestsInv, AccountIsTyped, PolicyRecords
<1>4. MostSends \in Nat /\ policy.attempts <= MostSends
  BY <1>3 DEF MostSends
<1>5. CASE r.at \in {"store", "done"}
  BY <1>1, <1>2, <1>4, <1>5 DEF Sound, Counted
<1>6. CASE r.at \in {"idle", "freshen", "ahead"}
  BY <1>1, <1>2, <1>4, <1>6 DEF Sound, Counted
<1>7. CASE r.at \in {"look", "renew", "send"}
  <2>1. r.sends <= policy.attempts
    BY <1>2, <1>3, <1>7 DEF Sound, Counted
  <2> QED  BY <1>1, <1>2, <1>3, <1>4, <2>1
<1> QED  BY <1>2, <1>5, <1>6, <1>7 DEF Places

(* Where a request is sent often, its policy allowed it: one more than the *)
(* plugin's attempts at most, however often the vendor refuses or is busy. *)
THEOREM NobodyAsksForEver == RequestsSpec => []SendsAreBounded
<1>1. RequestsInv => SendsAreBounded
  BY SendsBounded
<1> QED  BY <1>1, RequestsAlways, PTL

(* A chat is sent again only after an answer that says it was not served.  *)
THEOREM NothingIsPaidTwice == RequestsSpec => SendIsEarned
<1> DEFINE Again(c) == request'[c].sends > request[c].sends =>
                         \/ request[c].sends = 0
                         \/ RefusedStatus(request[c].said.status) /\ request[c].again
                         \/ ~Success(request[c].said.status) /\ QueueBusy(request[c].said)
<1>1. ASSUME RequestsInv, [RequestsNext]_requestVars PROVE \A c \in Clients : Again(c)
  <2>1. request \in [Clients -> RequestRecords] /\ \A d \in Clients : request[d].sends \in Nat
    BY <1>1 DEF RequestsInv, AccountIsTyped, RequestRecords
  <2>2. CASE UNCHANGED requestVars
    BY <2>1, <2>2 DEF requestVars
  <2>3. ASSUME NEW c \in Clients, Arrive(c) \/ RequestStep(c) PROVE \A d \in Clients : Again(d)
    <3>1. request'[c].sends \in {0, request[c].sends} \/ Send(c)
      <4>1. CASE Arrive(c)
        BY <2>1, <4>1 DEF Arrive, Fresh, Goes
      <4>2. CASE Freshen(c)
        BY ZenonT(30), <2>1, <4>2 DEF Freshen, Ended, Goes, RequestRecords
      <4>3. CASE Ahead(c)
        BY ZenonT(30), <2>1, <4>3 DEF Ahead, Ended, Goes, RequestRecords
      <4>5. CASE Look(c)
        <5>1. CASE Goes(c, [request[c] EXCEPT !.at = "send"])
          BY <2>1, <5>1 DEF Goes, RequestRecords
        <5>2. ASSUME NEW v, Goes(c, Ended(c, v)) PROVE request'[c].sends = request[c].sends
          BY <2>1, <5>2 DEF Ended, Goes, RequestRecords
        <5> QED  BY <4>5, <5>1, <5>2 DEF Look
      <4>6. CASE Renew(c)
        <5>1. CASE RenewalFailed(c)
          <6>1. PICK failed : Goes(c, [Ended(c, failed) EXCEPT !.tried = TRUE])
            BY <5>1 DEF RenewalFailed
          <6> QED  BY <2>1, <6>1 DEF Ended, Goes, RequestRecords
        <5>2. CASE Goes(c, [request[c] EXCEPT !.at = "send", !.held = chatIssued + 1,
                                              !.again = TRUE, !.tried = TRUE])
          BY <2>1, <5>2 DEF Goes, RequestRecords
        <5> QED  BY <4>6, <5>1, <5>2 DEF Renew
      <4>7. CASE Store(c)
        BY <2>1, <4>7 DEF Store, Goes, RequestRecords
      <4>8. CASE Depart(c)
        BY <2>1, <4>8 DEF Depart, Fresh, Goes
      <4> QED  BY <2>3, <4>1, <4>2, <4>3, <4>5, <4>6, <4>7, <4>8 DEF RequestStep
    <3>2. \A d \in Clients \ {c} : request'[d] = request[d]
      <4>1. \E record : Goes(c, record)
        <5>1. CASE Freshen(c)
          BY <5>1 DEF Freshen
        <5>2. CASE Ahead(c)
          BY <5>2 DEF Ahead
        <5>3. CASE Send(c)
          BY <5>3 DEF Send
        <5>4. CASE Look(c)
          BY <5>4 DEF Look
        <5>5. CASE Renew(c)
          BY <5>5 DEF Renew, RenewalFailed
        <5>6. CASE Arrive(c) \/ Store(c) \/ Depart(c)
          BY <5>6 DEF Arrive, Store, Depart
        <5> QED  BY <2>3, <5>1, <5>2, <5>3, <5>4, <5>5, <5>6 DEF RequestStep
      <4> QED  BY <2>1, <4>1 DEF Goes
    <3>3. \A d \in Clients \ {c} : Again(d)
      BY <2>1, <3>2
    <3>4. Again(c)
      <4>1. CASE request'[c].sends \in {0, request[c].sends}
        BY <2>1, <4>1
      <4>2. CASE Send(c)
        <5>1. PICK r : r = request[c]
          OBVIOUS
        <5>2. r.at = "send" /\ Earned(r) /\ r.sends \in Nat
          BY <1>1, <2>1, <4>2, <5>1 DEF Send, At, RequestsInv, Sound
        <5>3. r.sends > 0 => \/ RefusedStatus(r.said.status) /\ r.again
                             \/ ~Success(r.said.status) /\ QueueBusy(r.said)
          BY <5>2 DEF Earned
        <5> QED  BY <5>1, <5>2, <5>3
      <4> QED  BY <3>1, <4>1, <4>2
    <3> QED  BY <3>3, <3>4
  <2> QED  BY <1>1, <2>2, <2>3 DEF RequestsNext
<1>2. RequestsSpec => [][\A c \in Clients : Again(c)]_requestVars
  BY <1>1, RequestsAlways, PTL DEF RequestsSpec
<1> QED  BY <1>2 DEF SendIsEarned
----------------------------------------------------------------------------
(* Every envelope has a status and says whether to try again.              *)

Enveloped(v) == v.http \in Nat /\ v.retry \in BOOLEAN
Offers(rule) == \A v \in rule : Enveloped(v)

LEMMA EnvelopesAre ==
  ASSUME NEW code
  PROVE  /\ \A http \in Nat : Enveloped(HTTPError(code, http))
         /\ Enveloped(Refusal(code)) /\ Enveloped(Transport(code))
         /\ Enveloped(Errorf(code)) /\ Enveloped(RetryableError(code))
  BY DEF Enveloped, Verdict, HTTPError, Refusal, Transport, Errorf, RetryableError

LEMMA FirstIsEnveloped ==
  ASSUME NEW rules, NEW n \in Nat \ {0}, DOMAIN rules = 1..n, rules[n] # {},
         \A i \in 1..n : Offers(rules[i])
  PROVE  Enveloped(FirstFit(rules))
<1>1. PICK i \in 1..n : FirstFit(rules) \in rules[i]
  BY FirstFits, Zenon
<1> QED  BY <1>1 DEF Offers

LEMMA CodeArtsEnvelopes == ASSUME NEW a, a.status \in Nat PROVE Enveloped(CodeArts(a))
<1> DEFINE rules == <<
      Rule("queue" \in a.says, Errorf("queue_full")),
      Rule(RefusedStatus(a.status) \/ "credential" \in a.says, Errorf("credential_rejected")),
      Rule(TRUE, HTTPError("upstream_error", a.status)) >>
<1>1. 3 \in Nat \ {0} /\ DOMAIN rules = 1..3 /\ rules[3] # {}
  BY DEF Rule
<1>2. \A i \in 1..3 : Offers(rules[i])
  BY EnvelopesAre DEF Rule, Offers
<1> HIDE DEF rules
<1>3. Enveloped(FirstFit(rules))
  BY <1>1, <1>2, FirstIsEnveloped, Zenon
<1>4. CodeArts(a) = FirstFit(rules)
  BY DEF CodeArts, rules
<1> QED  BY <1>3, <1>4

LEMMA ClineEnvelopes == ASSUME NEW a, a.status \in Nat PROVE Enveloped(Cline(a))
<1> DEFINE limited == Verdict(429, TRUE, "rate_limited")
           rules == <<
      Rule(RegionForbidden(a), HTTPError("region_forbidden", 403)),
      Rule(RefusedStatus(a.status), Refusal("auth")),
      Rule(a.status = 402, HTTPError("quota_exceeded", 402)),
      Rule(a.status = 429, limited),
      Rule(a.status = 400 /\ "context" \in a.says, HTTPError("CONTEXT_WINDOW_EXCEEDED", 400)),
      Rule(a.status \in 400..499 /\ QuotaMarked(a), HTTPError("quota_exceeded", 402)),
      Rule(a.status = 400, HTTPError("invalid_request", 400)),
      Rule(TRUE, Transport("upstream_error")) >>
<1>0. Enveloped(limited)
  BY DEF Enveloped, Verdict
<1> HIDE DEF limited
<1>1. 8 \in Nat \ {0} /\ DOMAIN rules = 1..8 /\ rules[8] # {}
  BY DEF Rule
<1>2. \A i \in 1..8 : Offers(rules[i])
  BY SMTT(30), <1>0, EnvelopesAre DEF Rule, Offers
<1> HIDE DEF rules
<1>3. Enveloped(FirstFit(rules))
  BY <1>1, <1>2, FirstIsEnveloped, Zenon
<1>4. Cline(a) = FirstFit(rules)
  BY DEF Cline, rules, limited
<1> QED  BY <1>3, <1>4

LEMMA LobsterAIEnvelopes == ASSUME NEW a, a.status \in Nat PROVE Enveloped(LobsterAI(a))
<1> DEFINE kind == LobsterAIKind(a)
           rules == <<
      Rule(kind = "hard-credit", HTTPError("quota_exceeded", 402)),
      Rule(kind = "soft-rate", HTTPError("rate_limited", 429)),
      Rule(kind = "session-dead", HTTPError("session_dead", 401)),
      Rule(kind = "not-found", HTTPError("model_not_found", 404)),
      Rule(kind = "server", HTTPError("upstream_server_error", 502)),
      Rule(kind = "client", HTTPError("upstream_client_error", a.status)),
      Rule(TRUE, HTTPError("upstream_error", a.status)) >>
<1> HIDE DEF kind
<1>1. 7 \in Nat \ {0} /\ DOMAIN rules = 1..7 /\ rules[7] # {}
  BY DEF Rule
<1>2. \A i \in 1..7 : Offers(rules[i])
  <2>1. Offers(rules[1]) /\ Offers(rules[2]) /\ Offers(rules[3]) /\ Offers(rules[4])
    BY EnvelopesAre DEF Rule, Offers
  <2>2. Offers(rules[5]) /\ Offers(rules[6]) /\ Offers(rules[7])
    BY EnvelopesAre DEF Rule, Offers
  <2> HIDE DEF rules
  <2> QED  BY <2>1, <2>2
<1> HIDE DEF rules
<1>3. Enveloped(FirstFit(rules))
  BY <1>1, <1>2, FirstIsEnveloped, Zenon
<1>4. LobsterAI(a) = FirstFit(rules)
  BY DEF LobsterAI, rules, kind
<1> QED  BY <1>3, <1>4

LEMMA QoderBusinessEnvelopes == ASSUME NEW a, a.status \in Nat PROVE Enveloped(QoderBusiness(a))
<1> DEFINE queued == Verdict(429, TRUE, "QUEUE")
           rules == <<
      Rule("queue" \in a.says, queued),
      Rule(TRUE, HTTPError("QUOTA_EXCEEDED", 402)) >>
<1>0. Enveloped(queued)
  BY DEF Enveloped, Verdict
<1> HIDE DEF queued
<1>1. 2 \in Nat \ {0} /\ DOMAIN rules = 1..2 /\ rules[2] # {}
  BY DEF Rule
<1>2. \A i \in 1..2 : Offers(rules[i])
  BY <1>0, EnvelopesAre DEF Rule, Offers
<1> HIDE DEF rules
<1>3. Enveloped(FirstFit(rules))
  BY <1>1, <1>2, FirstIsEnveloped, Zenon
<1>4. QoderBusiness(a) = FirstFit(rules)
  BY DEF QoderBusiness, rules, queued
<1> QED  BY <1>3, <1>4

LEMMA QoderEnvelopes == ASSUME NEW a, a.status \in Nat PROVE Enveloped(Qoder(a))
<1> DEFINE limited == Verdict(429, TRUE, "rate_limited")
           late == Verdict(504, TRUE, "upstream_timeout")
           rules == <<
      Rule(RefusedStatus(a.status) /\ BusinessMarked(a), QoderBusiness(a)),
      Rule(RefusedStatus(a.status), Refusal("auth")),
      Rule(a.status = 402, HTTPError("quota_exhausted", 402)),
      Rule(a.status = 429, limited),
      Rule(a.status = 504, late),
      Rule(TRUE, Transport("upstream_error")) >>
<1>0. Enveloped(limited) /\ Enveloped(late)
  BY DEF Enveloped, Verdict
<1> HIDE DEF limited, late
<1>1. 6 \in Nat \ {0} /\ DOMAIN rules = 1..6 /\ rules[6] # {}
  BY DEF Rule
<1>2. \A i \in 1..6 : Offers(rules[i])
  BY <1>0, QoderBusinessEnvelopes, EnvelopesAre DEF Rule, Offers
<1> HIDE DEF rules
<1>3. Enveloped(FirstFit(rules))
  BY <1>1, <1>2, FirstIsEnveloped, Zenon
<1>4. Qoder(a) = FirstFit(rules)
  BY DEF Qoder, rules, limited, late
<1> QED  BY <1>3, <1>4

LEMMA MiniMaxEnvelopes == ASSUME NEW a, a.status \in Nat PROVE Enveloped(MiniMax(a))
<1> DEFINE limited == Verdict(429, TRUE, "rate_limited")
           late == Verdict(a.status, TRUE, "upstream_timeout")
           rules == <<
      Rule(RefusedStatus(a.status), Refusal("auth")),
      Rule(a.status = 402, HTTPError("QUOTA_EXCEEDED", 402)),
      Rule(a.status = 429, limited),
      Rule(a.status = 400, HTTPError("invalid_request", 400)),
      Rule(a.status \in {408, 504}, late),
      Rule(TRUE, Transport("upstream_error")) >>
<1>0. Enveloped(limited) /\ Enveloped(late)
  BY DEF Enveloped, Verdict
<1> HIDE DEF limited, late
<1>1. 6 \in Nat \ {0} /\ DOMAIN rules = 1..6 /\ rules[6] # {}
  BY DEF Rule
<1>2. \A i \in 1..6 : Offers(rules[i])
  BY <1>0, EnvelopesAre DEF Rule, Offers
<1> HIDE DEF rules
<1>3. Enveloped(FirstFit(rules))
  BY <1>1, <1>2, FirstIsEnveloped, Zenon
<1>4. MiniMax(a) = FirstFit(rules)
  BY DEF MiniMax, rules, limited, late
<1> QED  BY <1>3, <1>4

LEMMA RaccoonEnvelopes == ASSUME NEW a, a.status \in Nat PROVE Enveloped(Raccoon(a))
<1> DEFINE limited == Verdict(429, TRUE, "rate_limited")
           rules == <<
      Rule(RefusedStatus(a.status), Refusal("auth")),
      Rule(a.status = 402, HTTPError("quota_exhausted", 402)),
      Rule(a.status = 429, limited),
      Rule(a.status = 400, HTTPError("invalid_request", 400)),
      Rule(TRUE, Transport("upstream_error")) >>
<1>0. Enveloped(limited)
  BY DEF Enveloped, Verdict
<1> HIDE DEF limited
<1>1. 5 \in Nat \ {0} /\ DOMAIN rules = 1..5 /\ rules[5] # {}
  BY DEF Rule
<1>2. \A i \in 1..5 : Offers(rules[i])
  BY <1>0, EnvelopesAre DEF Rule, Offers
<1> HIDE DEF rules
<1>3. Enveloped(FirstFit(rules))
  BY <1>1, <1>2, FirstIsEnveloped, Zenon
<1>4. Raccoon(a) = FirstFit(rules)
  BY DEF Raccoon, rules, limited
<1> QED  BY <1>3, <1>4

LEMMA LoomyEnvelopes == ASSUME NEW a, a.status \in Nat PROVE Enveloped(Loomy(a))
<1> DEFINE limited == Verdict(429, TRUE, "rate_limited")
           late == Verdict(504, TRUE, "upstream_timeout")
           rules == <<
      Rule(RefusedStatus(a.status), Refusal("auth")),
      Rule(a.status = 402, HTTPError("quota_exhausted", 402)),
      Rule(a.status = 429, limited),
      Rule(a.status = 504, late),
      Rule(TRUE, Transport("upstream_error")) >>
<1>0. Enveloped(limited) /\ Enveloped(late)
  BY DEF Enveloped, Verdict
<1> HIDE DEF limited, late
<1>1. 5 \in Nat \ {0} /\ DOMAIN rules = 1..5 /\ rules[5] # {}
  BY DEF Rule
<1>2. \A i \in 1..5 : Offers(rules[i])
  BY <1>0, EnvelopesAre DEF Rule, Offers
<1> HIDE DEF rules
<1>3. Enveloped(FirstFit(rules))
  BY <1>1, <1>2, FirstIsEnveloped, Zenon
<1>4. Loomy(a) = FirstFit(rules)
  BY DEF Loomy, rules, limited, late
<1> QED  BY <1>3, <1>4

LEMMA AtomCodeEnvelopes == ASSUME NEW a, a.status \in Nat PROVE Enveloped(AtomCode(a))
<1> DEFINE rules == <<
      Rule("signature" \in a.says, HTTPError("signature_required", 502)),
      Rule(RefusedStatus(a.status) /\ "codingplan" \in a.says, HTTPError("no_codingplan", 403)),
      Rule(RefusedStatus(a.status), HTTPError("AUTH", a.status)),
      Rule(a.status = 429, HTTPError("RATE_LIMIT", 429)),
      Rule(a.status >= 500, RetryableError("SERVER")),
      Rule(TRUE, HTTPError(HTTPErrorCode(a.status), a.status)) >>
<1>1. 6 \in Nat \ {0} /\ DOMAIN rules = 1..6 /\ rules[6] # {}
  BY DEF Rule
<1>2. \A i \in 1..6 : Offers(rules[i])
  BY EnvelopesAre DEF Rule, Offers
<1> HIDE DEF rules
<1>3. Enveloped(FirstFit(rules))
  BY <1>1, <1>2, FirstIsEnveloped, Zenon
<1>4. AtomCode(a) = FirstFit(rules)
  BY DEF AtomCode, rules
<1> QED  BY <1>3, <1>4

LEMMA TraeEnvelopes == ASSUME NEW a, a.status \in Nat PROVE Enveloped(Trae(a))
<1> DEFINE kind == TraeKind(a)
           rules == <<
      Rule(kind = "quota-exceeded", HTTPError("quota_exceeded", a.status)),
      Rule(kind = "session-dead", HTTPError("session_dead", 401)),
      Rule(kind = "hard-plan", HTTPError("plan_limit", a.status)),
      Rule(TRUE, HTTPError(HTTPErrorCode(a.status), a.status)) >>
<1> HIDE DEF kind
<1>1. 4 \in Nat \ {0} /\ DOMAIN rules = 1..4 /\ rules[4] # {}
  BY DEF Rule
<1>2. \A i \in 1..4 : Offers(rules[i])
  BY EnvelopesAre DEF Rule, Offers
<1> HIDE DEF rules
<1>3. Enveloped(FirstFit(rules))
  BY <1>1, <1>2, FirstIsEnveloped, Zenon
<1>4. Trae(a) = FirstFit(rules)
  BY DEF Trae, rules, kind
<1> QED  BY <1>3, <1>4

LEMMA ZCodeEnvelopes == ASSUME NEW a, a.status \in Nat PROVE Enveloped(ZCode(a))
<1> DEFINE busy == Verdict(429, TRUE, "concurrency_limited")
           asked == Verdict(429, TRUE, "captcha_required")
           limited == Verdict(429, TRUE, "rate_limited")
           late == Verdict(504, TRUE, "upstream_timeout")
           rules == <<
      Rule(ConcurrencyLimited(a), busy),
      Rule(QuotaExhausted(a), HTTPError("quota_exhausted", 402)),
      Rule("risk" \in a.says, HTTPError("risk_control", 403)),
      Rule("captcha" \in a.says, asked),
      Rule("parameter" \in a.says, HTTPError("parameter_error", 400)),
      Rule(RefusedStatus(a.status), Refusal("auth")),
      Rule(a.status = 429, limited),
      Rule(a.status \in {408, 504}, late),
      Rule(a.status >= 500, Transport("upstream_error")),
      Rule(TRUE, HTTPError("upstream_rejected", 502)) >>
<1>0. Enveloped(busy) /\ Enveloped(asked) /\ Enveloped(limited) /\ Enveloped(late)
  BY DEF Enveloped, Verdict
<1> HIDE DEF busy, asked, limited, late
<1>1. 10 \in Nat \ {0} /\ DOMAIN rules = 1..10 /\ rules[10] # {}
  BY DEF Rule
<1>2. \A i \in 1..10 : Offers(rules[i])
  BY SMTT(30), <1>0, EnvelopesAre DEF Rule, Offers
<1> HIDE DEF rules
<1>3. Enveloped(FirstFit(rules))
  BY <1>1, <1>2, FirstIsEnveloped, Zenon
<1>4. ZCode(a) = FirstFit(rules)
  BY DEF ZCode, rules, busy, asked, limited, late
<1> QED  BY <1>3, <1>4

LEMMA ClassifyEnvelopes ==
  ASSUME NEW p, NEW a, a.status \in Nat PROVE Enveloped(Classify(p, a))
<1>1. Enveloped(CodeBuddy(a))
  BY EnvelopesAre DEF CodeBuddy
<1> QED
  BY <1>1, CodeArtsEnvelopes, ClineEnvelopes, LobsterAIEnvelopes, QoderEnvelopes,
     MiniMaxEnvelopes, RaccoonEnvelopes, LoomyEnvelopes, AtomCodeEnvelopes, TraeEnvelopes,
     ZCodeEnvelopes DEF Classify

LEMMA GivenAreEnvelopes == \A v \in VerdictsGiven : Enveloped(v)
<1>1. \A a \in ChatAnswers \union {Nothing} : a.status \in Nat
  BY ChatAnswersAssumption DEF Nothing, Answer
<1>2. \A a \in ChatAnswers \union {Nothing} : Enveloped(Classify(plugin, a))
  BY <1>1, ClassifyEnvelopes
<1>3. /\ Enveloped(NoVerdict) /\ Enveloped(Refusal("refresh"))
      /\ Enveloped(Transport("refresh")) /\ Enveloped(Errorf("save"))
      /\ Enveloped(Refusal("missing_credential")) /\ Enveloped(Refusal("auth"))
      /\ Enveloped(HTTPError("queue_timeout", 429)) /\ Enveloped(HTTPError("queue_full", 429))
  <2>1. Enveloped(NoVerdict)
    BY DEF Enveloped, NoVerdict, Verdict
  <2> QED  BY <2>1, EnvelopesAre
<1>4. Enveloped(TransportVerdict) /\ Enveloped(Verdict(200, FALSE, "ok"))
  <2>1. Enveloped(Verdict(200, FALSE, "ok"))
    BY DEF Enveloped, Verdict
  <2>2. Enveloped(TransportVerdict)
    <3>1. /\ Enveloped(RetryableError("transport")) /\ Enveloped(HTTPError("TRANSPORT", 502))
          /\ Enveloped(Errorf("host_http")) /\ Enveloped(Transport("transport"))
      BY EnvelopesAre
    <3>2. \/ TransportVerdict = RetryableError("transport")
          \/ TransportVerdict = HTTPError("TRANSPORT", 502)
          \/ TransportVerdict = Errorf("host_http")
          \/ TransportVerdict = Transport("transport")
      <4>1. CASE plugin \in {"atomcode", "trae"}
        BY <4>1 DEF TransportVerdict
      <4>2. CASE plugin = "codebuddy"
        BY <4>2 DEF TransportVerdict
      <4>3. CASE plugin = "codearts"
        BY <4>3 DEF TransportVerdict
      <4>4. CASE plugin \notin {"atomcode", "trae", "codebuddy", "codearts"}
        BY <4>4 DEF TransportVerdict
      <4> QED  BY <4>1, <4>2, <4>3, <4>4
    <3> QED  BY <3>1, <3>2, ZenonT(30)
  <2> QED  BY <2>1, <2>2
<1> DEFINE ok == Verdict(200, FALSE, "ok")
<1>5. VerdictsGiven =
        {Classify(plugin, a) : a \in ChatAnswers \union {Nothing}}
        \union {NoVerdict, TransportVerdict, ok, Refusal("refresh"), Transport("refresh"),
                Errorf("save"), Refusal("missing_credential"), Refusal("auth"),
                HTTPError("queue_timeout", 429), HTTPError("queue_full", 429)}
  BY DEF VerdictsGiven
<1>6. Enveloped(ok)
  BY <1>4
<1> HIDE DEF ok
<1> QED  BY <1>2, <1>3, <1>4, <1>5, <1>6

(* A request is typed as its records say, and sent no more often than its   *)
(* policy allows.                                                           *)
LEMMA RequestsAreTyped == ASSUME RequestsInv PROVE RequestsTypeOK
<1>1. \A c \in Clients : request[c] \in RequestRecords /\ request[c].held \in 1..chatIssued
  BY DEF RequestsInv, Sound, AccountIsTyped
<1>2. chatLive \subseteq 1..chatIssued
  BY RequestBoundsAssumption DEF RequestsInv, AccountIsTyped
<1>3. \A c \in Clients : Enveloped(request[c].verdict)
  BY <1>1, GivenAreEnvelopes DEF RequestRecords
<1>4. SendsAreBounded
  BY SendsBounded
<1>5. plugin \in Plugins /\ renewable \in BOOLEAN /\ rotating \in BOOLEAN /\ mislaid \in BOOLEAN
      /\ chatIssued \in 1..MaxIssues /\ chatFile \in 1..chatIssued
  BY DEF RequestsInv, AccountIsTyped
<1>6. \A c \in Clients :
        /\ request[c].at \in Places /\ request[c].said \in ChatAnswers \union {Nothing}
        /\ request[c].again \in BOOLEAN /\ request[c].tried \in BOOLEAN
  BY <1>1 DEF RequestRecords
<1> QED
  BY <1>1, <1>2, <1>3, <1>4, <1>5, <1>6
     DEF RequestsTypeOK, Enveloped, SendsAreBounded, Places

(* Whichever part is looked at, the renewal callers share, the requests of *)
(* an account and the stream that answers one are type correct.            *)
THEOREM ChatsTypeCorrect == ChatsSpec => []ChatsTypeOK
<1> DEFINE Inv == TypeOK /\ RequestsInv /\ StreamInv
<1>1. ChatsInit => Inv
  BY TypeInit, RequestsStart, StreamStart DEF ChatsInit
<1>2. Inv /\ [ChatsNext]_everything => Inv'
  <2> SUFFICES ASSUME Inv, [ChatsNext]_everything PROVE Inv'
    OBVIOUS
  <2>1. [CallersNext]_vars /\ [RequestsNext]_requestVars /\ [StreamNext]_streamVars
    BY DEF ChatsNext, everything
  <2>2. CallersNext => Next
    BY DEF CallersNext, Next
  <2> QED  BY <2>1, <2>2, TypeStep, RequestsStep, StreamStep
<1>3. Inv => ChatsTypeOK
  BY RequestsAreTyped, StreamsAreTyped DEF ChatsTypeOK
<1> QED  BY <1>1, <1>2, <1>3, PTL DEF ChatsSpec
==============================================================================
