----------------------------- MODULE TextsProofs -----------------------------
(***************************************************************************)
(* What an operator's refresh promises of the listings, whatever plugin it *)
(* is and however often the vendor moves; what the pages of raccoon and    *)
(* loomy say, for any number of tabs; and, with the proofs of Dsml and of  *)
(* Histories, the types of all that the plugins read.                      *)
(***************************************************************************)
EXTENDS MCTexts, HistoriesProofs, TLAPS

(* The second accounts that the refresh of these plugins does not reach.    *)
Exempt(a) == lister \in {"trae", "atomcode"} /\ a = "second"

AtLeast(n, m) == n = 0 \/ n >= m

(* Nothing is newer than the vendor's listing.                              *)
Bounded ==
    /\ listed \in Nat
    /\ kept \in [Holders -> Nat] /\ \A s \in Holders : kept[s] <= listed
    /\ shown \in [Holders -> Nat]
    /\ owed \in [Holders -> Nat] /\ \A a \in Holders : owed[a] <= listed
    /\ pass.at \in Nat /\ pass.at <= listed
    /\ pass.before \in Nat /\ pass.before <= listed
    /\ pass.holder \in Holders

(* What is cached for an account, or will be if a refresh is undone, is not *)
(* older than the last successful press, nor than one that is under way.    *)
CacheIsOwed == \A a \in Holders : ~Exempt(a) => AtLeast(kept[SlotOf(a)], owed[a])
BeforeIsOwed ==
    pass # NoPass => \A a \in Holders : SlotOf(a) = "first" => AtLeast(pass.before, owed[a])
PressIsOwed ==
    pass.by = "button" /\ ~Exempt(pass.holder) => AtLeast(kept[SlotOf(pass.holder)], pass.at)

IInv ==
    /\ Bounded /\ CacheIsOwed /\ BeforeIsOwed /\ PressIsOwed /\ PressedIsServed

(* A refresh that drops the cache reaches the slot of its account.          *)
LEMMA DroppedReaches ==
    ASSUME NEW a \in Holders, ~Exempt(a)
    PROVE  SlotOf(a) \in Dropped
  BY DEF Dropped, SlotOf, Apart, Exempt, Holders

LEMMA SlotIsHolder == ASSUME NEW a \in Holders PROVE SlotOf(a) \in Holders
  BY DEF SlotOf, Holders

(* A lookup leaves a slot, or puts the vendor's listing or nothing there.   *)
LEMMA ConsultIsFresh ==
    ASSUME Bounded, NEW s \in Holders, NEW answer, Consult(s, answer)
    PROVE  /\ kept' \in [Holders -> Nat]
           /\ \A x \in Holders : kept'[x] \in {kept[x], listed, 0}
  BY DEF Consult, Stores, Found, Bounded

LEMMA LeavesIsFresh ==
    ASSUME Bounded, NEW answer, Leaves(answer)
    PROVE  /\ kept' \in [Holders -> Nat]
           /\ \A x \in Holders :
                \/ kept'[x] \in {kept[x], listed, 0}
                \/ x = "first" /\ kept'[x] = pass.before /\ HowRefreshed.undone
<1>1. CASE HowRefreshed.undone
  BY <1>1 DEF Leaves, Bounded, Holders
<1>2. CASE ~HowRefreshed.undone
  <2>1. Consult("first", answer) /\ "first" \in Holders
    BY <1>2 DEF Leaves, Holders
  <2> QED  BY <2>1, ConsultIsFresh
<1> QED  BY <1>1, <1>2

LEMMA RefillIsFresh ==
    ASSUME Bounded, NEW answer, Refill(answer)
    PROVE  /\ kept' \in [Holders -> Nat]
           /\ \A x \in Holders : kept'[x] \in {kept[x], listed, 0}
<1>1. CASE HowRefreshed.shared
  <2>1. Consult("first", answer) /\ "first" \in Holders
    BY <1>1 DEF Refill, Holders
  <2> QED  BY <2>1, ConsultIsFresh
<1>2. CASE ~HowRefreshed.shared
  BY <1>2 DEF Refill, Bounded
<1> QED  BY <1>1, <1>2

LEMMA FoundIsFresh ==
    ASSUME Bounded, NEW s \in Holders, NEW answer
    PROVE  Found(s, answer) \in {kept[s], listed, 0}
  BY DEF Found, Bounded

LEMMA StartsHolding == DiscoveryInit => IInv
  BY DEF DiscoveryInit, IInv, Bounded, CacheIsOwed, BeforeIsOwed, PressIsOwed, PressedIsServed,
         NoPass, Holders, AtLeast, SlotOf

LEMMA MoveHolds == ASSUME IInv, Move PROVE IInv'
<1>1. /\ listed' = listed + 1
      /\ UNCHANGED <<lister, products, kept, pass, shown, told, owed>>
  BY DEF Move, plugin
<1> QED  BY <1>1 DEF IInv, Bounded, CacheIsOwed, BeforeIsOwed, PressIsOwed, PressedIsServed,
                     Exempt, SlotOf, Apart, NoPass

LEMMA LapseHolds == ASSUME IInv, NEW s, Lapse(s) PROVE IInv'
<1>1. UNCHANGED <<lister, products, listed, kept, pass, shown, told, owed>>
  BY DEF Lapse, plugin
<1> QED  BY <1>1 DEF IInv, Bounded, CacheIsOwed, BeforeIsOwed, PressIsOwed, PressedIsServed,
                     Exempt, SlotOf, Apart, NoPass

LEMMA BeginHolds == ASSUME IInv, NEW by, NEW a \in Holders, BeginPass(by, a) PROVE IInv'
<1>1. /\ pass' = [by |-> by, holder |-> a, at |-> IF by = "button" THEN listed ELSE 0,
                  before |-> kept[SlotOf("first")]]
      /\ UNCHANGED <<lister, products, listed, shown, told, owed>>
      /\ \A s \in Holders : kept'[s] = IF s \in Dropped THEN 0 ELSE kept[s]
      /\ kept' = [s \in Holders |-> IF s \in Dropped THEN 0 ELSE kept[s]]
  BY DEF BeginPass, plugin
<1>2. \A b \in Holders : SlotOf(b)' = SlotOf(b) /\ (Exempt(b)' <=> Exempt(b))
  BY <1>1 DEF SlotOf, Apart, Exempt
<1>3. "first" \in Holders /\ SlotOf("first") = "first" /\ ~Exempt("first")
  BY DEF Holders, SlotOf, Exempt
<1>4. Bounded'
  BY <1>1, <1>3 DEF IInv, Bounded
<1>5. CacheIsOwed'
  BY <1>1, <1>2, SlotIsHolder DEF IInv, CacheIsOwed, AtLeast
<1>6. BeforeIsOwed'
  <2>1. SUFFICES ASSUME NEW b \in Holders, SlotOf(b) = "first"
                 PROVE  AtLeast(kept["first"], owed[b])
    BY <1>1, <1>2, <1>3 DEF BeforeIsOwed, AtLeast
  <2>2. ~Exempt(b)
    BY <2>1 DEF SlotOf, Apart, Exempt
  <2> QED  BY <2>1, <2>2 DEF IInv, CacheIsOwed
<1>7. PressIsOwed'
  <2>1. ~Exempt(a) => kept'[SlotOf(a)] = 0
    BY <1>1, SlotIsHolder, DroppedReaches
  <2> QED  BY <1>1, <1>2, <2>1 DEF PressIsOwed, AtLeast
<1>8. PressedIsServed'
  BY <1>1 DEF IInv, PressedIsServed
<1> QED  BY <1>4, <1>5, <1>6, <1>7, <1>8 DEF IInv

(* What follows however a refresh ends: the cache is as fresh as before, or *)
(* holds the vendor's listing or nothing.                                   *)
LEMMA CacheStaysOwed ==
    ASSUME IInv, UNCHANGED <<lister, products, listed, owed>>, kept' \in [Holders -> Nat],
           \A x \in Holders :
                \/ kept'[x] \in {kept[x], listed, 0}
                \/ x = "first" /\ kept'[x] = pass.before /\ pass # NoPass
    PROVE  /\ CacheIsOwed'
           /\ \A x \in Holders : kept'[x] <= listed
<1>1. \A b \in Holders : SlotOf(b)' = SlotOf(b) /\ (Exempt(b)' <=> Exempt(b))
  BY DEF SlotOf, Apart, Exempt
<1>2. \A x \in Holders : kept'[x] <= listed
  BY DEF IInv, Bounded
<1>3. SUFFICES ASSUME NEW b \in Holders, ~Exempt(b) PROVE AtLeast(kept'[SlotOf(b)], owed[b])
  BY <1>1, <1>2 DEF CacheIsOwed, AtLeast
<1>4. AtLeast(kept[SlotOf(b)], owed[b]) /\ AtLeast(listed, owed[b]) /\ AtLeast(0, owed[b])
  BY <1>3 DEF IInv, CacheIsOwed, Bounded, AtLeast
<1>5. SlotOf(b) = "first" /\ pass # NoPass => AtLeast(pass.before, owed[b])
  BY DEF IInv, BeforeIsOwed
<1>6. SlotOf(b) \in Holders
  BY SlotIsHolder
<1> QED  BY <1>4, <1>5, <1>6

LEMMA FailHolds ==
    ASSUME IInv, NEW answer, FailPass(answer)
    PROVE  IInv'
<1>1. /\ pass # NoPass /\ pass' = NoPass /\ Leaves(answer)
      /\ UNCHANGED <<lister, products, listed, shown, told, owed>>
  BY DEF FailPass, plugin
<1>2. /\ kept' \in [Holders -> Nat]
      /\ \A x \in Holders :
           \/ kept'[x] \in {kept[x], listed, 0}
           \/ x = "first" /\ kept'[x] = pass.before
  BY <1>1, LeavesIsFresh DEF IInv
<1>3. CacheIsOwed' /\ \A x \in Holders : kept'[x] <= listed
  BY <1>1, <1>2, CacheStaysOwed
<1>4. Bounded'
  BY <1>1, <1>2, <1>3 DEF IInv, Bounded, NoPass, Holders
<1>5. BeforeIsOwed' /\ PressIsOwed'
  BY <1>1 DEF BeforeIsOwed, PressIsOwed, NoPass
<1>6. PressedIsServed'
  BY <1>1 DEF IInv, PressedIsServed
<1> QED  BY <1>3, <1>4, <1>5, <1>6 DEF IInv

LEMMA LoseHolds == ASSUME IInv, LosePass PROVE IInv'
<1>1. /\ pass # NoPass /\ pass' = NoPass
      /\ UNCHANGED <<lister, products, listed, shown, told, owed>>
  BY DEF LosePass, plugin
<1>2. /\ kept' \in [Holders -> Nat]
      /\ \A x \in Holders :
           \/ kept'[x] \in {kept[x], listed, 0}
           \/ x = "first" /\ kept'[x] = pass.before
  <2>1. CASE Leaves("none")
    BY <2>1, LeavesIsFresh DEF IInv
  <2>2. CASE UNCHANGED kept
    BY <2>2 DEF IInv, Bounded
  <2> QED  BY <2>1, <2>2 DEF LosePass
<1>3. CacheIsOwed' /\ \A x \in Holders : kept'[x] <= listed
  BY <1>1, <1>2, CacheStaysOwed
<1>4. Bounded'
  BY <1>1, <1>2, <1>3 DEF IInv, Bounded, NoPass, Holders
<1>5. BeforeIsOwed' /\ PressIsOwed'
  BY <1>1 DEF BeforeIsOwed, PressIsOwed, NoPass
<1>6. PressedIsServed'
  BY <1>1 DEF IInv, PressedIsServed
<1> QED  BY <1>3, <1>4, <1>5, <1>6 DEF IInv

LEMMA EndHolds == ASSUME IInv, NEW answer, EndPass(answer) PROVE IInv'
<1>1. /\ pass # NoPass /\ pass' = NoPass /\ Refill(answer)
      /\ UNCHANGED <<lister, products, listed, shown>>
      /\ told \subseteq told'
  BY DEF EndPass, plugin
<1>2. /\ kept' \in [Holders -> Nat]
      /\ \A x \in Holders : kept'[x] \in {kept[x], listed, 0}
  BY <1>1, RefillIsFresh DEF IInv
<1>3. \A b \in Holders : SlotOf(b)' = SlotOf(b) /\ (Exempt(b)' <=> Exempt(b))
  BY <1>1 DEF SlotOf, Apart, Exempt
<1>4. \A x \in Holders : kept'[x] <= listed
  BY <1>2 DEF IInv, Bounded
<1>5. BeforeIsOwed' /\ PressIsOwed'
  BY <1>1 DEF BeforeIsOwed, PressIsOwed, NoPass
<1>6. CASE pass.by # "button"
  <2>1. UNCHANGED owed
    BY <1>6 DEF EndPass
  <2>2. CacheIsOwed'
    BY <1>1, <1>2, <2>1, CacheStaysOwed
  <2>3. Bounded'
    BY <1>1, <1>2, <1>4, <2>1 DEF IInv, Bounded, NoPass, Holders
  <2>4. PressedIsServed'
    BY <1>1, <2>1 DEF IInv, PressedIsServed
  <2> QED  BY <1>5, <2>2, <2>3, <2>4 DEF IInv
<1>7. CASE pass.by = "button"
  <2>1. owed' = [owed EXCEPT ![pass.holder] = pass.at] /\ pass.holder \in told'
    BY <1>7 DEF EndPass
  <2>2. Bounded'
    BY <1>1, <1>2, <1>4, <2>1 DEF IInv, Bounded, NoPass, Holders
  <2>3. CacheIsOwed'
    <3>1. SUFFICES ASSUME NEW b \in Holders, ~Exempt(b)
                   PROVE  AtLeast(kept'[SlotOf(b)], owed'[b])
      BY <1>3 DEF CacheIsOwed, AtLeast
    <3>2. owed'[b] = (IF b = pass.holder THEN pass.at ELSE owed[b]) /\ owed'[b] <= listed
      BY <2>1 DEF IInv, Bounded
    <3>3. AtLeast(kept[SlotOf(b)], owed'[b])
      BY <3>1, <3>2, <1>7 DEF IInv, CacheIsOwed, PressIsOwed
    <3>4. kept'[SlotOf(b)] \in {kept[SlotOf(b)], listed, 0}
      BY <1>2, SlotIsHolder
    <3>5. AtLeast(listed, owed'[b]) /\ AtLeast(0, owed'[b])
      BY <3>2, <2>1 DEF IInv, Bounded, AtLeast
    <3> QED  BY <3>3, <3>4, <3>5
  <2>4. PressedIsServed'
    BY <1>1, <2>1 DEF IInv, PressedIsServed, Bounded
  <2> QED  BY <1>5, <2>2, <2>3, <2>4 DEF IInv
<1> QED  BY <1>6, <1>7

LEMMA EnlistHolds ==
    ASSUME IInv, NEW a \in Holders, NEW answer, NEW readable, Enlist(a, answer, readable)
    PROVE  IInv'
<1> DEFINE served == Served(a, answer, readable)
<1>1. /\ shown' = [shown EXCEPT ![a] = served] /\ told' = told \ {a}
      /\ UNCHANGED <<lister, products, listed, owed, pass>>
  BY DEF Enlist, plugin
<1>2. /\ kept' \in [Holders -> Nat]
      /\ \A x \in Holders : kept'[x] \in {kept[x], listed, 0}
  <2>1. CASE UNCHANGED kept
    BY <2>1 DEF IInv, Bounded
  <2>2. CASE Consult(SlotOf(a), answer)
    BY <2>2, SlotIsHolder, ConsultIsFresh DEF IInv
  <2> QED  BY <2>1, <2>2 DEF Enlist
<1>3. served \in {kept[SlotOf(a)], listed, 0}
  BY SlotIsHolder, FoundIsFresh DEF Served, IInv
<1> HIDE DEF served
<1>4. \A b \in Holders : SlotOf(b)' = SlotOf(b) /\ (Exempt(b)' <=> Exempt(b))
  BY <1>1 DEF SlotOf, Apart, Exempt
<1>5. CacheIsOwed' /\ \A x \in Holders : kept'[x] <= listed
  BY <1>1, <1>2, CacheStaysOwed
<1>6. Bounded'
  <2>1. SlotOf(a) \in Holders
    BY SlotIsHolder
  <2>2. served \in Nat
    BY <1>3, <2>1 DEF IInv, Bounded
  <2>3. shown' \in [Holders -> Nat]
    BY <1>1, <2>2 DEF IInv, Bounded
  <2> QED  BY <1>1, <1>2, <1>5, <2>3 DEF IInv, Bounded
<1>7. BeforeIsOwed'
  BY <1>1, <1>4 DEF IInv, BeforeIsOwed
<1>8. PressIsOwed'
  <2>1. pass.holder \in Holders /\ pass.at \in Nat /\ pass.at <= listed /\ listed \in Nat
    BY DEF IInv, Bounded
  <2>2. kept'[SlotOf(pass.holder)] \in {kept[SlotOf(pass.holder)], listed, 0}
    BY <1>2, <2>1, SlotIsHolder
  <2>3. SlotOf(pass.holder)' = SlotOf(pass.holder) /\ (Exempt(pass.holder)' <=> Exempt(pass.holder))
    BY <1>1 DEF SlotOf, Apart, Exempt
  <2>4. AtLeast(listed, pass.at) /\ AtLeast(0, pass.at)
    BY <2>1 DEF AtLeast
  <2>5. SUFFICES ASSUME pass.by = "button", ~Exempt(pass.holder)
                 PROVE  AtLeast(kept'[SlotOf(pass.holder)], pass.at)
    BY <1>1, <2>3 DEF PressIsOwed, AtLeast
  <2> QED  BY <2>2, <2>4, <2>5 DEF IInv, PressIsOwed
<1>9. PressedIsServed'
  <2>1. ~Exempt(a) => AtLeast(served, owed[a])
    BY <1>3 DEF IInv, CacheIsOwed, Bounded, AtLeast
  <2> QED  BY <1>1, <2>1 DEF IInv, PressedIsServed, Bounded, AtLeast, Exempt
<1> QED  BY <1>5, <1>6, <1>7, <1>8, <1>9 DEF IInv

LEMMA WanderHolds ==
    ASSUME IInv, NEW a \in Holders, NEW answer, Wander(a, answer)
    PROVE  IInv'
<1>1. UNCHANGED <<lister, products, listed, pass, shown, told, owed>>
  BY DEF Wander, plugin
<1>2. /\ kept' \in [Holders -> Nat]
      /\ \A x \in Holders : kept'[x] \in {kept[x], listed, 0}
  BY SlotIsHolder, ConsultIsFresh DEF Wander, IInv
<1>3. CacheIsOwed' /\ \A x \in Holders : kept'[x] <= listed
  BY <1>1, <1>2, CacheStaysOwed
<1>4. Bounded'
  BY <1>1, <1>2, <1>3 DEF IInv, Bounded
<1>5. BeforeIsOwed' /\ PressedIsServed'
  BY <1>1 DEF IInv, BeforeIsOwed, PressedIsServed, SlotOf, Apart
<1>6. PressIsOwed'
  <2>1. pass.holder \in Holders /\ pass.at \in Nat /\ pass.at <= listed /\ listed \in Nat
    BY DEF IInv, Bounded
  <2>2. kept'[SlotOf(pass.holder)] \in {kept[SlotOf(pass.holder)], listed, 0}
    BY <1>2, <2>1, SlotIsHolder
  <2>3. SlotOf(pass.holder)' = SlotOf(pass.holder) /\ (Exempt(pass.holder)' <=> Exempt(pass.holder))
    BY <1>1 DEF SlotOf, Apart, Exempt
  <2>4. AtLeast(listed, pass.at) /\ AtLeast(0, pass.at)
    BY <2>1 DEF AtLeast
  <2>5. SUFFICES ASSUME pass.by = "button", ~Exempt(pass.holder)
                 PROVE  AtLeast(kept'[SlotOf(pass.holder)], pass.at)
    BY <1>1, <2>3 DEF PressIsOwed, AtLeast
  <2> QED  BY <2>2, <2>4, <2>5 DEF IInv, PressIsOwed
<1> QED  BY <1>3, <1>4, <1>5, <1>6 DEF IInv

LEMMA StepsHold == ASSUME IInv, [DiscoveryNext]_discoveryVars PROVE IInv'
<1>1. CASE UNCHANGED discoveryVars
  <2>1. UNCHANGED <<lister, products, listed, kept, pass, shown, told, owed>>
    BY <1>1 DEF discoveryVars
  <2>2. Bounded' /\ PressedIsServed'
    BY <2>1 DEF IInv, Bounded, PressedIsServed
  <2>3. CacheIsOwed' /\ BeforeIsOwed' /\ PressIsOwed'
    BY <2>1 DEF IInv, CacheIsOwed, BeforeIsOwed, PressIsOwed, Exempt, SlotOf, Apart
  <2> QED  BY <2>2, <2>3 DEF IInv
<1>2. CASE DiscoveryNext
  BY <1>2, MoveHolds, LapseHolds, BeginHolds, EndHolds, FailHolds, LoseHolds, EnlistHolds,
     WanderHolds DEF DiscoveryNext
<1> QED  BY <1>1, <1>2

(* What the operator refreshed is what the host comes to register, for any  *)
(* number of moves of the vendor, and whatever else fills the caches.       *)
THEOREM PressesAreServed == DiscoverySpec => []PressedIsServed
<1>1. IInv => PressedIsServed
  BY DEF IInv
<1> QED  BY <1>1, StartsHolding, StepsHold, PTL DEF DiscoverySpec
----------------------------------------------------------------------------
(* The registry of the first account.                                      *)

ListingIsKnown == lister \in Listers /\ \A a \in Holders : shown[a] <= listed

(* While a refresh is under way: what fills the cache is not older than     *)
(* what was dropped, and what the host has registered is what was dropped   *)
(* or, but for zcode, what has come since.                                  *)
PassIsCurrent ==
    pass # NoPass =>
        /\ kept["first"] # 0 => kept["first"] >= pass.before
        /\ lister = "zcode" => kept["first"] = 0
        /\ "first" \notin told /\ ~astray =>
              /\ kept["first"] # 0 => shown["first"] = kept["first"]
              /\ pass.before # 0 => \/ Ids(shown["first"]) = Ids(pass.before)
                                    \/ lister # "zcode" /\ pass.before <= shown["first"]

CurrentInv == IInv /\ ListingIsKnown /\ FirstIsCurrent /\ PassIsCurrent

LEMMA ZCodeIs ==
  ASSUME lister \in Listers
  PROVE  /\ HowRefreshed.undone <=> lister = "zcode"
         /\ lister = "zcode" => /\ ~HowRefreshed.shared /\ ~HowServed.asks
                                /\ lister \notin KeepsBarred /\ lister \notin Wanderers
<1>1. lister \in {"atomcode", "cline", "codearts", "codebuddy", "lobsterai", "loomy", "minimax",
                  "raccoon", "trae", "zcode"}
  BY ListersAssumption
<1>2. lister = "zcode" => /\ ~HowRefreshed.shared /\ ~HowServed.asks /\ HowRefreshed.undone
                          /\ lister \notin KeepsBarred /\ lister \notin Wanderers
  BY DEF HowRefreshed, Refreshes, ZCodeRefresh, HowServed, Serving, ZCodeServes, KeepsBarred, Wanderers
<1>3. lister # "zcode" => ~HowRefreshed.undone
  BY <1>1 DEF HowRefreshed, Refreshes, AtomCodeRefresh, ClineRefresh, CodeArtsRefresh,
              CodeBuddyRefresh, LobsterAIRefresh, LoomyRefresh, MinimaxRefresh, RaccoonRefresh,
              TraeRefresh
<1> QED  BY <1>2, <1>3

(* Listings between two with the same ids have these ids.                   *)
LEMMA IdsGrow ==
  ASSUME NEW n \in Nat, NEW m \in Nat, NEW k \in Nat, n <= m, m <= k, Ids(n) = Ids(k)
  PROVE  Ids(m) = Ids(k)
<1>1. CASE silent /\ lister # "zcode"
  BY <1>1 DEF Ids
<1>2. CASE ~(silent /\ lister # "zcode")
  BY <1>2 DEF Ids
<1> QED  BY <1>1, <1>2

LEMMA IdsOfSome == Ids(0) = 0 /\ \A n \in Nat \ {0} : Ids(n) # 0
BY DEF Ids

LEMMA IdsStay == ASSUME UNCHANGED plugin PROVE \A n : Ids(n)' = Ids(n)
BY DEF Ids, plugin

LEMMA CurrentStart == ASSUME DiscoveryInit PROVE ListingIsKnown /\ FirstIsCurrent /\ PassIsCurrent
BY DEF DiscoveryInit, ListingIsKnown, FirstIsCurrent, PassIsCurrent, Holders, NoPass

LEMMA MoveIsCurrent ==
  ASSUME CurrentInv, Move PROVE ListingIsKnown' /\ FirstIsCurrent' /\ PassIsCurrent'
<1>1. /\ UNCHANGED <<plugin, kept, pass, shown, told, astray>> /\ listed' = listed + 1
      /\ listed \in Nat /\ shown \in [Holders -> Nat]
  BY DEF Move, CurrentInv, IInv, Bounded
<1>2. ListingIsKnown'
  BY <1>1 DEF CurrentInv, ListingIsKnown, plugin
<1>3. UNCHANGED <<kept, pass, shown, told, astray, lister>> /\ \A n : Ids(n)' = Ids(n)
  BY <1>1, IdsStay DEF plugin
<1>4. FirstIsCurrent'
  BY <1>3 DEF CurrentInv, FirstIsCurrent, NoPass
<1>5. PassIsCurrent'
  BY <1>3 DEF CurrentInv, PassIsCurrent, NoPass
<1> QED  BY <1>2, <1>4, <1>5

LEMMA LapseIsCurrent ==
  ASSUME CurrentInv, NEW s, Lapse(s) PROVE ListingIsKnown' /\ FirstIsCurrent' /\ PassIsCurrent'
<1>1. UNCHANGED <<kept, pass, shown, told, astray, lister, listed>> /\ \A n : Ids(n)' = Ids(n)
  BY IdsStay DEF Lapse, plugin
<1>2. ListingIsKnown' /\ FirstIsCurrent'
  BY <1>1 DEF CurrentInv, ListingIsKnown, FirstIsCurrent, NoPass
<1>3. PassIsCurrent'
  BY <1>1 DEF CurrentInv, PassIsCurrent, NoPass
<1> QED  BY <1>2, <1>3

LEMMA BeginIsCurrent ==
  ASSUME CurrentInv, NEW by \in {"tick", "button"}, NEW a \in Holders, BeginPass(by, a)
  PROVE  ListingIsKnown' /\ FirstIsCurrent' /\ PassIsCurrent'
<1>1. /\ UNCHANGED <<shown, told, astray, lister, listed>> /\ \A n : Ids(n)' = Ids(n)
      /\ pass = NoPass /\ pass' # NoPass /\ pass'.before = kept["first"]
  BY IdsStay DEF BeginPass, plugin, NoPass, SlotOf
<1>2. kept'["first"] = 0
  BY DEF BeginPass, Dropped, SlotOf, Holders
<1>3. ListingIsKnown' /\ FirstIsCurrent'
  BY <1>1 DEF CurrentInv, ListingIsKnown, FirstIsCurrent, NoPass
<1>4. "first" \notin told /\ ~astray /\ kept["first"] # 0 => Ids(shown["first"]) = Ids(kept["first"])
  BY <1>1 DEF CurrentInv, FirstIsCurrent
<1>5. PassIsCurrent'
  BY <1>1, <1>2, <1>4 DEF PassIsCurrent
<1> QED  BY <1>3, <1>5

(* A refresh that fails, or that has nobody to ask with.                    *)
LEMMA GivenUpIsCurrent ==
  ASSUME CurrentInv, pass # NoPass, pass' = NoPass, UNCHANGED <<plugin, listed, shown, told, astray>>,
         \/ kept'["first"] \in {kept["first"], 0}
         \/ HowRefreshed.undone /\ kept'["first"] = pass.before
  PROVE  ListingIsKnown' /\ FirstIsCurrent' /\ PassIsCurrent'
<1>1. UNCHANGED <<lister, listed, shown, told, astray>> /\ \A n : Ids(n)' = Ids(n)
  BY IdsStay DEF plugin
<1>2. ListingIsKnown' /\ PassIsCurrent'
  BY <1>1 DEF CurrentInv, ListingIsKnown, PassIsCurrent, NoPass
<1>3. HowRefreshed.undone => lister = "zcode"
  BY ZCodeIs DEF CurrentInv, ListingIsKnown
<1>4. "first" \notin told /\ ~astray =>
         /\ kept["first"] # 0 => shown["first"] = kept["first"]
         /\ pass.before # 0 => \/ Ids(shown["first"]) = Ids(pass.before)
                               \/ lister # "zcode" /\ pass.before <= shown["first"]
  BY DEF CurrentInv, PassIsCurrent
<1>5. FirstIsCurrent'
  <2> SUFFICES ASSUME "first" \notin told, ~astray, kept'["first"] # 0
               PROVE  Ids(shown["first"]) = Ids(kept'["first"])
    BY <1>1 DEF FirstIsCurrent
  <2>1. CASE kept'["first"] = kept["first"]
    BY <1>4, <2>1
  <2>2. CASE HowRefreshed.undone /\ kept'["first"] = pass.before
    BY <1>3, <1>4, <2>2
  <2> QED  BY <2>1, <2>2
<1> QED  BY <1>2, <1>5

LEMMA FailIsCurrent ==
  ASSUME CurrentInv, NEW answer \in ListingAnswers, FailPass(answer)
  PROVE  ListingIsKnown' /\ FirstIsCurrent' /\ PassIsCurrent'
<1>1. answer # "listing" /\ kept \in [Holders -> Nat] /\ "first" \in Holders
  BY DEF FailPass, Succeeds, CurrentInv, IInv, Bounded, Holders
<1>2. CASE HowRefreshed.undone
  <2>1. kept'["first"] = pass.before
    BY <1>1, <1>2 DEF FailPass, Leaves
  <2> QED  BY <1>2, <2>1, GivenUpIsCurrent DEF FailPass
<1>3. CASE ~HowRefreshed.undone
  <2>1. Consult("first", answer)
    BY <1>3 DEF FailPass, Leaves
  <2>2. kept'["first"] \in {kept["first"], 0}
    BY <1>1, <2>1 DEF Consult, Stores, Found
  <2> QED  BY <2>2, GivenUpIsCurrent DEF FailPass
<1> QED  BY <1>2, <1>3

LEMMA LoseIsCurrent ==
  ASSUME CurrentInv, LosePass PROVE ListingIsKnown' /\ FirstIsCurrent' /\ PassIsCurrent'
<1>1. kept \in [Holders -> Nat] /\ "first" \in Holders
  BY DEF CurrentInv, IInv, Bounded, Holders
<1>2. CASE HowRefreshed.undone
  <2>1. kept'["first"] = pass.before
    BY <1>1, <1>2 DEF LosePass, Leaves
  <2> QED  BY <1>2, <2>1, GivenUpIsCurrent DEF LosePass
<1>3. CASE ~HowRefreshed.undone
  <2>1. kept'["first"] \in {kept["first"], 0}
    BY <1>3 DEF LosePass
  <2> QED  BY <2>1, GivenUpIsCurrent DEF LosePass
<1> QED  BY <1>2, <1>3
LEMMA EndIsCurrent ==
  ASSUME CurrentInv, NEW answer \in ListingAnswers, EndPass(answer)
  PROVE  ListingIsKnown' /\ FirstIsCurrent' /\ PassIsCurrent'
<1>1. /\ UNCHANGED <<lister, listed, shown>> /\ \A n : Ids(n)' = Ids(n)
      /\ pass # NoPass /\ pass' = NoPass /\ Succeeds(answer) /\ Refill(answer)
  BY IdsStay DEF EndPass, plugin
<1>2. kept \in [Holders -> Nat] /\ "first" \in Holders /\ listed \in Nat /\ shown \in [Holders -> Nat]
      /\ pass.before \in Nat
  BY DEF CurrentInv, IInv, Bounded, Holders
<1>3. kept'["first"] = Refetched(answer)
  <2>1. CASE ~HowRefreshed.shared
    BY <1>1, <1>2, <2>1 DEF Refill, Refetched
  <2>2. CASE HowRefreshed.shared
    <3>1. Consult("first", answer) /\ Refetched(answer) = Found("first", answer)
      BY <1>1, <2>2 DEF Refill, Refetched
    <3>2. CASE Hit("first")
      BY <1>2, <3>1, <3>2 DEF Consult, Stores, Found
    <3>3. CASE ~Hit("first")
      <4>1. Stores("first", answer)
        BY <1>1, <2>2, <3>3 DEF Succeeds, Stores, KeepsBarred
      <4> QED  BY <1>2, <3>1, <4>1 DEF Consult
    <3> QED  BY <3>2, <3>3
  <2> QED  BY <2>1, <2>2
<1>4. Refetched(answer) \in {kept["first"], listed, 0}
  BY FoundIsFresh, <1>2 DEF Refetched, CurrentInv, IInv
<1>5. ListingIsKnown' /\ PassIsCurrent'
  BY <1>1 DEF CurrentInv, ListingIsKnown, PassIsCurrent
<1>6. FirstIsCurrent'
  <2>1. SUFFICES ASSUME "first" \notin told', ~astray', kept'["first"] # 0
                 PROVE  Ids(shown["first"]) = Ids(kept'["first"])
    BY <1>1 DEF FirstIsCurrent
  <2>2. "first" \notin told /\ ~astray /\ ~Moved(pass.before, Refetched(answer))
    <3>1. CASE pass.by = "button"
      <4>1. /\ told' = told \union {pass.holder}
            /\ astray' = (astray \/ (pass.holder # "first" /\ Moved(pass.before, Refetched(answer))))
        BY <3>1 DEF EndPass
      <4> QED  BY <2>1, <4>1
    <3>2. CASE pass.by # "button"
      <4>1. /\ told' = IF Moved(pass.before, Refetched(answer)) THEN told \union {"first"} ELSE told
            /\ astray' = astray
        BY <3>2 DEF EndPass
      <4> QED  BY <2>1, <4>1
    <3> QED  BY <3>1, <3>2
  <2>3. Ids(pass.before) = Ids(kept'["first"])
    BY <1>3, <2>2 DEF Moved
  <2>4. kept'["first"] \in Nat \ {0}
    BY <1>2, <1>3, <1>4, <2>1
  <2>5. pass.before # 0
    BY <2>3, <2>4, IdsOfSome
  <2>6. /\ kept["first"] # 0 => shown["first"] = kept["first"]
        /\ \/ Ids(shown["first"]) = Ids(pass.before)
           \/ pass.before <= shown["first"]
    BY <1>1, <2>2, <2>5 DEF CurrentInv, PassIsCurrent
  <2>7. CASE Ids(shown["first"]) = Ids(pass.before)
    BY <2>3, <2>7
  <2>8. CASE pass.before <= shown["first"]
    <3>1. CASE kept'["first"] = kept["first"]
      BY <2>1, <2>6, <3>1
    <3>2. CASE kept'["first"] = listed
      <4>1. shown["first"] \in Nat /\ shown["first"] <= listed
        BY <1>2 DEF CurrentInv, ListingIsKnown
      <4>2. Ids(pass.before) = Ids(listed)
        BY <2>3, <3>2
      <4> QED  BY <1>2, <2>8, <3>2, <4>1, <4>2, IdsGrow
    <3> QED  BY <1>3, <1>4, <2>1, <3>1, <3>2
  <2> QED  BY <2>6, <2>7, <2>8
<1> QED  BY <1>5, <1>6

(* What a lookup leaves in the slot of the first account.                   *)
LEMMA ConsultIs ==
  ASSUME Bounded, NEW s \in Holders, NEW answer, Consult(s, answer)
  PROVE  kept'["first"] = IF s = "first" /\ Stores(s, answer) THEN Found(s, answer) ELSE kept["first"]
<1>1. kept \in [Holders -> Nat] /\ "first" \in Holders
  BY DEF Bounded, Holders
<1>2. CASE Stores(s, answer)
  BY <1>1, <1>2 DEF Consult
<1>3. CASE ~Stores(s, answer)
  BY <1>3 DEF Consult
<1> QED  BY <1>2, <1>3

LEMMA WanderIsCurrent ==
  ASSUME CurrentInv, NEW a \in Holders, NEW answer \in ListingAnswers, Wander(a, answer)
  PROVE  ListingIsKnown' /\ FirstIsCurrent' /\ PassIsCurrent'
<1>1. UNCHANGED <<lister, listed, shown, told, pass>> /\ \A n : Ids(n)' = Ids(n)
  BY IdsStay DEF Wander, plugin
<1>2. Bounded /\ SlotOf(a) \in Holders /\ kept \in [Holders -> Nat] /\ "first" \in Holders
      /\ listed \in Nat /\ pass.before \in Nat /\ pass.before <= listed
  BY SlotIsHolder DEF CurrentInv, IInv, Bounded, Holders
<1>3. ListingIsKnown'
  BY <1>1 DEF CurrentInv, ListingIsKnown
<1>4. CASE SlotOf(a) # "first"
  <2>1. kept'["first"] = kept["first"]
    BY <1>2, <1>4, ConsultIs DEF Wander
  <2>2. ~astray' => ~astray
    BY <1>4 DEF Wander
  <2>3. FirstIsCurrent'
    BY <1>1, <2>1, <2>2 DEF CurrentInv, FirstIsCurrent, NoPass
  <2>4. PassIsCurrent'
    BY <1>1, <2>1, <2>2 DEF CurrentInv, PassIsCurrent, NoPass
  <2> QED  BY <1>3, <2>3, <2>4
<1>5. CASE SlotOf(a) = "first"
  <2>1. astray'
    BY <1>5 DEF Wander
  <2>2. kept'["first"] \in {kept["first"], listed, 0}
    BY <1>2, <1>5, ConsultIs, FoundIsFresh DEF Wander
  <2>3. FirstIsCurrent'
    BY <2>1 DEF FirstIsCurrent
  <2>4. lister # "zcode"
    BY ZCodeIs DEF CurrentInv, ListingIsKnown, Wander
  <2>5. PassIsCurrent'
    <3>1. pass # NoPass => (kept'["first"] # 0 => kept'["first"] >= pass.before)
      BY <1>2, <2>2 DEF CurrentInv, PassIsCurrent
    <3> QED  BY <1>1, <2>1, <2>4, <3>1 DEF PassIsCurrent, NoPass
  <2> QED  BY <1>3, <2>3, <2>5
<1> QED  BY <1>4, <1>5

LEMMA EnlistIsCurrent ==
  ASSUME CurrentInv, NEW a \in Holders, NEW answer \in ListingAnswers, NEW readable \in BOOLEAN,
         Enlist(a, answer, readable)
  PROVE  ListingIsKnown' /\ FirstIsCurrent' /\ PassIsCurrent'
<1>1. UNCHANGED <<lister, listed, pass>> /\ (\A n : Ids(n)' = Ids(n)) /\ told' = told \ {a}
  BY IdsStay DEF Enlist, plugin
<1>2. Bounded /\ SlotOf(a) \in Holders /\ kept \in [Holders -> Nat] /\ "first" \in Holders
      /\ shown \in [Holders -> Nat] /\ listed \in Nat /\ pass.before \in Nat /\ pass.before <= listed
      /\ kept["first"] <= listed
  BY SlotIsHolder DEF CurrentInv, IInv, Bounded, Holders
<1>3. PICK served : served = Served(a, answer, readable)
  OBVIOUS
<1>4. /\ shown' = [shown EXCEPT ![a] = served]
      /\ served \in {kept[SlotOf(a)], listed, 0} /\ kept[SlotOf(a)] <= listed
  BY <1>2, <1>3, FoundIsFresh DEF Served, Enlist, Bounded
<1>5. ListingIsKnown'
  BY <1>1, <1>2, <1>4 DEF CurrentInv, ListingIsKnown
<1>6. kept'["first"] \in {kept["first"], listed, 0}
  <2>1. CASE readable /\ HowServed.asks
    BY <1>2, <2>1, ConsultIs, FoundIsFresh DEF Enlist
  <2>2. CASE ~(readable /\ HowServed.asks)
    BY <2>2 DEF Enlist
  <2> QED  BY <2>1, <2>2
<1>7. lister = "zcode" => kept'["first"] = kept["first"]
  BY ZCodeIs DEF Enlist, CurrentInv, ListingIsKnown
<1>8. pass # NoPass => /\ kept'["first"] # 0 => kept'["first"] >= pass.before
                       /\ lister = "zcode" => kept'["first"] = 0
  BY <1>2, <1>6, <1>7 DEF CurrentInv, PassIsCurrent
<1>9. CASE a = "first"
  <2>1. SlotOf(a) = "first" /\ shown'["first"] = served
    BY <1>2, <1>4, <1>9 DEF SlotOf
  <2>2. astray' = (served = 0 /\ (pass # NoPass \/ kept["first"] # 0))
    BY <1>3, <1>9 DEF Enlist
  <2>3. CASE served # 0
    <3>1. kept'["first"] = served
      <4>1. CASE readable /\ HowServed.asks
        <5>1. Consult("first", answer) /\ served = Found("first", answer)
          BY <1>3, <2>1, <4>1 DEF Enlist, Served
        <5>2. CASE Stores("first", answer)
          BY <1>2, <5>1, <5>2, ConsultIs
        <5>3. CASE ~Stores("first", answer)
          <6>1. served = kept["first"]
            BY <2>3, <5>1, <5>3 DEF Found, Stores
          <6> QED  BY <1>2, <5>1, <5>3, <6>1, ConsultIs
        <5> QED  BY <5>2, <5>3
      <4>2. CASE ~(readable /\ HowServed.asks)
        <5>1. served \in {Found("first", "none"), 0}
          BY <1>3, <2>1, <4>2 DEF Served
        <5>2. served = kept["first"]
          BY <2>3, <5>1 DEF Found
        <5> QED  BY <4>2, <5>2 DEF Enlist
      <4> QED  BY <4>1, <4>2
    <3>2. FirstIsCurrent'
      BY <2>1, <3>1 DEF FirstIsCurrent
    <3>3. PassIsCurrent'
      <4>1. pass # NoPass => lister # "zcode" /\ pass.before <= served
        BY <1>8, <2>3, <3>1
      <4> QED  BY <1>1, <1>8, <2>1, <3>1, <4>1 DEF PassIsCurrent, NoPass
    <3> QED  BY <1>5, <3>2, <3>3
  <2>4. CASE served = 0
    <3>1. kept'["first"] \in {kept["first"], 0}
      <4>1. CASE readable /\ HowServed.asks
        <5>1. Consult("first", answer) /\ served = Found("first", answer)
          BY <1>3, <2>1, <4>1 DEF Enlist, Served
        <5> QED  BY <1>2, <2>4, <5>1, ConsultIs
      <4>2. CASE ~(readable /\ HowServed.asks)
        BY <4>2 DEF Enlist
      <4> QED  BY <4>1, <4>2
    <3>2. FirstIsCurrent'
      BY <2>2, <2>4, <3>1 DEF FirstIsCurrent
    <3>3. PassIsCurrent'
      BY <1>1, <1>8, <2>2, <2>4 DEF PassIsCurrent, NoPass
    <3> QED  BY <1>5, <3>2, <3>3
  <2> QED  BY <2>3, <2>4
<1>10. CASE a # "first"
  <2>1. shown'["first"] = shown["first"] /\ ("first" \in told' <=> "first" \in told)
    BY <1>1, <1>2, <1>4, <1>10
  <2>2. ~astray' => ~astray /\ kept'["first"] = kept["first"]
    <3>1. astray' = (astray \/ ((readable /\ HowServed.asks) /\ SlotOf(a) = "first"
                                 /\ Stores("first", answer)))
      BY <1>10 DEF Enlist
    <3>2. ~((readable /\ HowServed.asks) /\ SlotOf(a) = "first" /\ Stores("first", answer))
          => kept'["first"] = kept["first"]
      <4>1. CASE readable /\ HowServed.asks
        <5>1. Consult(SlotOf(a), answer)
          BY <4>1 DEF Enlist
        <5> QED  BY <1>2, <4>1, <5>1, ConsultIs
      <4>2. CASE ~(readable /\ HowServed.asks)
        BY <4>2 DEF Enlist
      <4> QED  BY <4>1, <4>2
    <3> QED  BY <3>1, <3>2
  <2>3. FirstIsCurrent'
    BY <1>1, <2>1, <2>2 DEF CurrentInv, FirstIsCurrent, NoPass
  <2>4. PassIsCurrent'
    BY <1>1, <1>8, <2>1, <2>2 DEF CurrentInv, PassIsCurrent, NoPass
  <2> QED  BY <1>5, <2>3, <2>4
<1> QED  BY <1>9, <1>10

LEMMA StepIsCurrent == ASSUME CurrentInv, [DiscoveryNext]_discoveryVars PROVE CurrentInv'
<1>1. CASE UNCHANGED discoveryVars
  <2>1. UNCHANGED <<kept, pass, shown, told, astray, lister, listed>> /\ \A n : Ids(n)' = Ids(n)
    BY <1>1, IdsStay DEF discoveryVars, plugin
  <2>2. ListingIsKnown' /\ FirstIsCurrent'
    BY <2>1 DEF CurrentInv, ListingIsKnown, FirstIsCurrent, NoPass
  <2>3. PassIsCurrent'
    BY <2>1 DEF CurrentInv, PassIsCurrent, NoPass
  <2> QED  BY <1>1, <2>2, <2>3, StepsHold DEF CurrentInv
<1>2. CASE DiscoveryNext
  <2>1. ListingIsKnown' /\ FirstIsCurrent' /\ PassIsCurrent'
    BY <1>2, MoveIsCurrent, LapseIsCurrent, BeginIsCurrent, EndIsCurrent, FailIsCurrent,
       LoseIsCurrent, EnlistIsCurrent, WanderIsCurrent DEF DiscoveryNext
  <2> QED  BY <1>2, <2>1, StepsHold DEF CurrentInv
<1> QED  BY <1>1, <1>2

(* At rest the first account is registered with the ids the cache holds,    *)
(* unless something moved the cache without telling: no tick's change is    *)
(* lost, whatever refreshes fail and whatever zcode puts back.              *)
THEOREM FirstStaysCurrent == DiscoverySpec => []FirstIsCurrent
<1>1. DiscoveryInit => CurrentInv
  BY StartsHolding, CurrentStart DEF CurrentInv
<1>2. CurrentInv => FirstIsCurrent
  BY DEF CurrentInv
<1> QED  BY <1>1, <1>2, StepIsCurrent, PTL DEF DiscoverySpec

----------------------------------------------------------------------------
(* The pages of raccoon and loomy.                                         *)

Expended == {"taken", "expired"}
PhoneStates == {"unseen", "scanned", "confirmed", "cancelled", "expired", "taken"}

(* The session and the manager say what the file has.                      *)
SavedFirst ==
    /\ finished \/ managerTold = "success" => saved
    /\ \A t \in AllTabs : tab[t].pc = "record" => saved

(* What the vendor accepted, and what was got for a scan, is of codes that  *)
(* cannot be confirmed again.                                               *)
ScansAreTaken ==
    /\ \A c \in accepted : phone[c] \in Expended
    /\ wx.code # 0 => phone[wx.code] \in Expended
    /\ \A t \in AllTabs : tab[t].pc \in {"ask", "note"} => tab[t].took # 0

(* In a lone tab an accepted code whose answer came is kept only till its   *)
(* tab has taken note.                                                      *)
LoneScan ==
    OneTab => /\ again \subseteq lost
              /\ wx.code \in accepted \ lost => \E t \in tabs : tab[t].pc = "note"

(* A lone tab whose calls go through has what it goes on with.              *)
Unhitched ==
    OneTab /\ ~hitch => \A t \in tabs :
        /\ tab[t].page # "failed" /\ tab[t].pc # "retry"
        /\ tab[t].pc = "exchange" => wx.code # 0 /\ wx.code \notin accepted
        /\ tab[t].pc = "resume" => wx.rcode # 0

PageInv == PageTypeOK /\ SavedFirst /\ ScansAreTaken /\ LoneScan /\ Unhitched

LEMMA PageStart == ASSUME PageInit PROVE PageInv
<1>1. PageTypeOK
  <2>1. made = 0 /\ 0 \in 0..0 /\ MaxScanCodes \in Nat
    <3>1. made = 0
      BY Zenon DEF PageInit
    <3> QED  BY <3>1, ScanCodesAssumption
  <2>2. tab \in [AllTabs -> [pc : Pcs, page : PagesShown, took : 0..0]]
    BY <2>1 DEF PageInit, Pcs, PagesShown
  <2>3. wx \in [code : 0..0, rcode : 0..0, bind : BOOLEAN]
    BY <2>1 DEF PageInit, NoScan
  <2>4. /\ qr \in 0..made /\ made \in 0..MaxScanCodes /\ accepted \subseteq 1..made
        /\ lost \subseteq accepted /\ again \subseteq accepted
    <3>1. qr = 0 /\ accepted = {} /\ lost = {} /\ again = {}
      BY Zenon DEF PageInit
    <3> QED  BY <2>1, <3>1
  <2>5. phone \in [ScanCodes -> PhoneStates]
    BY DEF PageInit, PhoneStates
  <2>6. binding \in [sent : BOOLEAN, typed : BOOLEAN] /\ message \in [sent : BOOLEAN, typed : BOOLEAN]
    BY DEF PageInit, NoMessage
  <2>7. /\ there \in BOOLEAN /\ outlived \in BOOLEAN /\ finished \in BOOLEAN /\ draft \in BOOLEAN
        /\ tied \in BOOLEAN /\ saved \in BOOLEAN /\ hitch \in BOOLEAN
        /\ site \in Sites /\ tabs \in TabSets /\ managerTold = ""
    BY DEF PageInit
  <2> QED  BY <2>1, <2>2, <2>3, <2>4, <2>5, <2>6, <2>7 DEF PageTypeOK, PhoneStates
<1>2. SavedFirst /\ ScansAreTaken
  BY DEF PageInit, SavedFirst, ScansAreTaken, NoScan
<1>3. LoneScan /\ Unhitched
  BY DEF PageInit, LoneScan, Unhitched, NoScan, AllTabs
<1> QED  BY <1>1, <1>2, <1>3 DEF PageInv

LEMMA LoneTab == ASSUME OneTab, NEW t \in tabs PROVE tabs = {t}
BY DEF OneTab

(* The tab that moves to rec, and what the vendor, the phone, the session   *)
(* and the file are then, is of its type ...                                *)
TypedAfter(rec) ==
    /\ made' \in made..MaxScanCodes /\ rec \in [pc : Pcs, page : PagesShown, took : 0..made']
    /\ qr' \in 0..made' /\ wx' \in [code : 0..made', rcode : 0..made', bind : BOOLEAN]
    /\ accepted' \subseteq 1..made'
    /\ lost' \subseteq accepted' /\ again' \subseteq accepted'
    /\ phone' \in [ScanCodes -> PhoneStates]
    /\ there' \in BOOLEAN /\ draft' \in BOOLEAN /\ saved' \in BOOLEAN
    /\ hitch' \in BOOLEAN /\ finished' \in BOOLEAN
    /\ binding' \in [sent : BOOLEAN, typed : BOOLEAN]
    /\ message' \in [sent : BOOLEAN, typed : BOOLEAN]

(* ... and fits where it has come to.                                       *)
FitsAfter(rec) ==
    /\ managerTold' = managerTold /\ (saved => saved') /\ (finished' => saved')
    /\ rec.pc = "record" => saved'
    /\ \A c \in accepted' : phone'[c] \in Expended
    /\ wx'.code # 0 => phone'[wx'.code] \in Expended
    /\ rec.pc \in {"ask", "note"} => rec.took # 0
    /\ OneTab => again' \subseteq lost' /\ (wx'.code \in accepted' \ lost' => rec.pc = "note")
    /\ OneTab /\ ~hitch' => /\ rec.page # "failed" /\ rec.pc # "retry"
                            /\ rec.pc = "exchange" => wx'.code # 0 /\ wx'.code \notin accepted'
                            /\ rec.pc = "resume" => wx'.rcode # 0

LEMMA TabMoves ==
  ASSUME PageInv, NEW t \in tabs, NEW rec, tab' = [tab EXCEPT ![t] = rec], UNCHANGED pageWorld,
         TypedAfter(rec), FitsAfter(rec)
  PROVE  PageInv'
<1>1. t \in AllTabs /\ tab \in [AllTabs -> [pc : Pcs, page : PagesShown, took : 0..made]]
  BY DEF PageInv, PageTypeOK, AllTabs
<1>2. tab'[t] = rec /\ \A u \in AllTabs \ {t} : tab'[u] = tab[u]
  BY <1>1
<1>3. tabs' = tabs /\ (OneTab' <=> OneTab)
  BY DEF pageWorld, OneTab
<1>4. made \in Nat /\ MaxScanCodes \in Nat /\ made' \in Nat /\ made <= made'
  <2>1. made \in 0..MaxScanCodes
    BY Zenon DEF PageInv, PageTypeOK
  <2>2. made' \in made..MaxScanCodes
    BY Zenon DEF TypedAfter
  <2> QED  BY <2>1, <2>2, ScanCodesAssumption
<1>5. tab' \in [AllTabs -> [pc : Pcs, page : PagesShown, took : 0..made']]
  <2>1. \A u \in AllTabs : tab[u] \in [pc : Pcs, page : PagesShown, took : 0..made']
    BY <1>1, <1>4
  <2>2. rec \in [pc : Pcs, page : PagesShown, took : 0..made']
    BY DEF TypedAfter
  <2> QED  BY <1>1, <2>1, <2>2
<1>6. PageTypeOK'
  <2>1. made' \in 0..MaxScanCodes
    <3>1. made' \in made..MaxScanCodes
      BY DEF TypedAfter
    <3> QED  BY <1>4, <3>1
  <2>2. site' \in Sites /\ tabs' \in TabSets /\ outlived' \in BOOLEAN /\ tied' \in BOOLEAN
        /\ managerTold' \in {"", "success", "error"}
    BY DEF PageInv, PageTypeOK, pageWorld, FitsAfter
  <2> QED  BY <1>5, <2>1, <2>2 DEF PageTypeOK, PhoneStates, TypedAfter
<1>7. SavedFirst'
  BY <1>1, <1>2 DEF PageInv, SavedFirst, FitsAfter
<1>8. ScansAreTaken'
  BY <1>1, <1>2 DEF PageInv, ScansAreTaken, FitsAfter
<1>9. LoneScan'
  BY <1>2, <1>3 DEF LoneScan, FitsAfter, PageInv, PageTypeOK, AllTabs
<1>10. Unhitched'
  BY <1>1, <1>2, <1>3, LoneTab DEF Unhitched, FitsAfter
<1> QED  BY <1>6, <1>7, <1>8, <1>9, <1>10 DEF PageInv
LEMMA TabShows ==
  ASSUME PageInv, NEW t \in tabs, NEW page \in PagesShown, Shows(t, page)
  PROVE  \E rec \in [pc : Pcs, page : PagesShown, took : 0..made] :
            tab' = [tab EXCEPT ![t] = rec] /\ rec.pc = "rest" /\ rec.page = page
<1>1. tab \in [AllTabs -> [pc : Pcs, page : PagesShown, took : 0..made]] /\ t \in AllTabs
  BY DEF PageInv, PageTypeOK, AllTabs
<1>2. 0 \in 0..made
  <2>1. made \in 0..MaxScanCodes
    BY Zenon DEF PageInv, PageTypeOK
  <2> QED  BY <2>1, ScanCodesAssumption
<1>3. PICK rec : rec = [tab[t] EXCEPT !.pc = "rest", !.page = page, !.took = 0]
  OBVIOUS
<1>4. rec \in [pc : Pcs, page : PagesShown, took : 0..made] /\ rec.pc = "rest" /\ rec.page = page
  BY <1>1, <1>2, <1>3 DEF Pcs
<1>5. tab' = [tab EXCEPT ![t] = rec]
  BY <1>1, <1>3 DEF Shows
<1> QED  BY <1>4, <1>5

LEMMA TabGoesOn ==
  ASSUME PageInv, NEW t \in tabs, NEW pc \in Pcs, TabGoes(t, pc)
  PROVE  \E rec \in [pc : Pcs, page : PagesShown, took : 0..made] :
            tab' = [tab EXCEPT ![t] = rec] /\ rec.pc = pc /\ rec.page = tab[t].page
            /\ rec.took = tab[t].took
<1>1. tab \in [AllTabs -> [pc : Pcs, page : PagesShown, took : 0..made]] /\ t \in AllTabs
  BY DEF PageInv, PageTypeOK, AllTabs
<1>2. PICK rec : rec = [tab[t] EXCEPT !.pc = pc]
  OBVIOUS
<1>3. /\ rec \in [pc : Pcs, page : PagesShown, took : 0..made] /\ rec.pc = pc
      /\ rec.page = tab[t].page /\ rec.took = tab[t].took
  BY <1>1, <1>2
<1>4. tab' = [tab EXCEPT ![t] = rec]
  BY <1>1, <1>2 DEF TabGoes
<1> QED  BY <1>3, <1>4

(* A tab goes on and the vendor, the phone, the scan and the file stay.    *)
QuietAfter(t, rec) ==
    /\ rec \in [pc : Pcs, page : PagesShown, took : 0..made] /\ tab' = [tab EXCEPT ![t] = rec]
    /\ UNCHANGED <<pageWorld, finished, qr, wx, vendorOf, phone, saved, managerTold>>
    /\ there' \in BOOLEAN /\ draft' \in BOOLEAN
    /\ binding' \in [sent : BOOLEAN, typed : BOOLEAN]
    /\ message' \in [sent : BOOLEAN, typed : BOOLEAN]
    /\ Works \/ Breaks
    /\ tab[t].pc # "note" /\ rec.pc \notin {"record", "note", "ask"}
    /\ OneTab /\ ~hitch' => /\ rec.page # "failed" /\ rec.pc \notin {"retry", "exchange"}
                            /\ rec.pc = "resume" => wx.rcode # 0

LEMMA QuietMoves ==
  ASSUME PageInv, NEW t \in tabs, NEW rec, QuietAfter(t, rec)
  PROVE  PageInv'
<1>1. UNCHANGED <<pageWorld, finished, qr, wx, made, accepted, lost, again, phone, saved, managerTold>>
  BY DEF QuietAfter, vendorOf
<1>2. TypedAfter(rec)
  <2>1. made' \in made..MaxScanCodes
    <3>1. made \in 0..MaxScanCodes /\ made' = made
      BY <1>1, Zenon DEF PageInv, PageTypeOK
    <3> QED  BY <3>1, ScanCodesAssumption
  <2>2. /\ rec \in [pc : Pcs, page : PagesShown, took : 0..made']
        /\ qr' \in 0..made' /\ wx' \in [code : 0..made', rcode : 0..made', bind : BOOLEAN]
        /\ accepted' \subseteq 1..made'
        /\ lost' \subseteq accepted' /\ again' \subseteq accepted'
        /\ phone' \in [ScanCodes -> PhoneStates]
    <3>1. /\ rec \in [pc : Pcs, page : PagesShown, took : 0..made] /\ qr \in 0..made
          /\ wx \in [code : 0..made, rcode : 0..made, bind : BOOLEAN]
          /\ accepted \subseteq 1..made
          /\ lost \subseteq accepted /\ again \subseteq accepted
          /\ phone \in [ScanCodes -> PhoneStates]
      BY Zenon DEF PageInv, PageTypeOK, QuietAfter, PhoneStates
    <3> QED  BY <1>1, <3>1
  <2>3. hitch' \in BOOLEAN
    BY DEF PageInv, PageTypeOK, QuietAfter, Works, Breaks, OneTab
  <2>4. saved' \in BOOLEAN /\ finished' \in BOOLEAN
    BY <1>1 DEF PageInv, PageTypeOK
  <2> QED  BY <2>1, <2>2, <2>3, <2>4 DEF TypedAfter, QuietAfter
<1>3. FitsAfter(rec)
  <2>1. managerTold' = managerTold /\ (saved => saved') /\ (finished' => saved') /\ rec.pc # "record"
    BY <1>1 DEF PageInv, SavedFirst, QuietAfter
  <2>2. \A c \in accepted' : phone'[c] \in Expended
    BY <1>1 DEF PageInv, ScansAreTaken
  <2>3. wx'.code # 0 => phone'[wx'.code] \in Expended
    BY <1>1 DEF PageInv, ScansAreTaken
  <2>4. OneTab => again' \subseteq lost' /\ wx'.code \notin accepted' \ lost'
    BY <1>1, LoneTab DEF PageInv, LoneScan, QuietAfter
  <2> QED  BY <1>1, <2>1, <2>2, <2>3, <2>4 DEF FitsAfter, QuietAfter
<1> QED  BY <1>2, <1>3, TabMoves DEF QuietAfter
(* What a step that only moves a tab leaves as it is.                       *)
QuietWorld(t) ==
    /\ UNCHANGED <<pageWorld, finished, qr, wx, vendorOf, phone, saved, managerTold>>
    /\ there' \in BOOLEAN /\ draft' \in BOOLEAN
    /\ binding' \in [sent : BOOLEAN, typed : BOOLEAN]
    /\ message' \in [sent : BOOLEAN, typed : BOOLEAN]
    /\ Works \/ Breaks
    /\ t \in tabs /\ tab[t].pc # "note"

LEMMA QuietShow ==
  ASSUME PageInv, NEW t, QuietWorld(t), NEW page \in PagesShown, Shows(t, page),
         page = "failed" => ~OneTab \/ hitch'
  PROVE  PageInv'
<1>1. t \in tabs
  BY DEF QuietWorld
<1>2. PICK rec \in [pc : Pcs, page : PagesShown, took : 0..made] :
            tab' = [tab EXCEPT ![t] = rec] /\ rec.pc = "rest" /\ rec.page = page
  BY <1>1, TabShows
<1>3. QuietAfter(t, rec)
  BY <1>2 DEF QuietAfter, QuietWorld
<1> QED  BY <1>1, <1>3, QuietMoves

LEMMA QuietGo ==
  ASSUME PageInv, NEW t, QuietWorld(t), NEW pc \in Pcs, TabGoes(t, pc),
         pc \notin {"record", "note", "ask"},
         OneTab /\ ~hitch => pc \notin {"retry", "exchange"} /\ (pc = "resume" => wx.rcode # 0)
  PROVE  PageInv'
<1>1. t \in tabs
  BY DEF QuietWorld
<1>2. PICK rec \in [pc : Pcs, page : PagesShown, took : 0..made] :
            tab' = [tab EXCEPT ![t] = rec] /\ rec.pc = pc /\ rec.page = tab[t].page
            /\ rec.took = tab[t].took
  BY <1>1, TabGoesOn
<1>3. OneTab /\ ~hitch' => ~hitch
  BY DEF QuietWorld, Works, Breaks
<1>4. OneTab /\ ~hitch => tab[t].page # "failed"
  BY <1>1 DEF PageInv, Unhitched
<1>5. QuietAfter(t, rec)
  BY <1>2, <1>3, <1>4 DEF QuietAfter, QuietWorld
<1> QED  BY <1>1, <1>5, QuietMoves

LEMMA FollowKeeps == ASSUME PageInv, NEW t, Follow(t) PROVE PageInv'
<1>1. t \in tabs /\ tab[t].pc = "rest"
  BY DEF Follow, TabAt
<1>2. QuietWorld(t)
  BY <1>1 DEF Follow, QuietWorld, PageInv, PageTypeOK, Works, TabGoes, Shows
<1>3. PICK link \in Links(tab[t].page) :
         IF LookUp THEN TabGoes(t, link) /\ UNCHANGED there ELSE Shows(t, "other") /\ there' = FALSE
  BY DEF Follow
<1>4. /\ link \in Pcs /\ link \notin {"record", "note", "ask", "exchange", "resume"}
      /\ link = "retry" => tab[t].page = "failed"
  BY DEF Links, QrLinks, BindLinks, SmsLinks, Pcs
<1>5. OneTab /\ ~hitch => link # "retry"
  BY <1>1, <1>4 DEF PageInv, Unhitched
<1>6. CASE LookUp
  BY <1>2, <1>3, <1>4, <1>5, <1>6, QuietGo
<1>7. CASE ~LookUp
  BY <1>2, <1>3, <1>7, QuietShow DEF PagesShown
<1> QED  BY <1>6, <1>7

LEMMA TypedKeeps ==
  ASSUME PageInv, NEW t,
         TypeNumber(t) \/ LoadSms(t) \/ SendCode(t) \/ TypeCode(t) \/ SendBinding(t) \/ TypeBinding(t)
  PROVE  PageInv'
<1>1. CASE TypeNumber(t)
  <2>1. QuietWorld(t) /\ Shows(t, "sms")
    BY <1>1 DEF TypeNumber, TabAt, QuietWorld, PageInv, PageTypeOK, Works
  <2> QED  BY <2>1, QuietShow DEF PagesShown
<1>2. CASE LoadSms(t)
  <2>1. QuietWorld(t) /\ Shows(t, "sms")
    BY <1>2 DEF LoadSms, TabAt, QuietWorld, PageInv, PageTypeOK, Works, sessionOf
  <2> QED  BY <2>1, QuietShow DEF PagesShown
<1>3. CASE SendCode(t)
  <2>1. message' \in [sent : BOOLEAN, typed : BOOLEAN]
    <3>1. message \in [sent : BOOLEAN, typed : BOOLEAN]
      BY DEF PageInv, PageTypeOK
    <3>2. message' = [sent |-> TRUE, typed |-> FALSE] \/ message' = message
      BY <1>3 DEF SendCode
    <3>3. [sent |-> TRUE, typed |-> FALSE] \in [sent : BOOLEAN, typed : BOOLEAN]
      OBVIOUS
    <3> QED  BY <3>1, <3>2, <3>3, Zenon
  <2>2. QuietWorld(t)
    BY <1>3, <2>1 DEF SendCode, TabAt, QuietWorld, PageInv, PageTypeOK
  <2>3. Shows(t, "code") \/ Shows(t, "sms failed")
    BY <1>3 DEF SendCode
  <2> QED  BY <2>2, <2>3, QuietShow DEF PagesShown
<1>4. CASE TypeCode(t)
  <2>1. message' \in [sent : BOOLEAN, typed : BOOLEAN]
    <3>1. message \in [sent : BOOLEAN, typed : BOOLEAN]
      BY DEF PageInv, PageTypeOK
    <3>2. message' = [message EXCEPT !.typed = message.sent]
      BY <1>4, Zenon DEF TypeCode
    <3> QED  BY <3>1, <3>2
  <2>2. QuietWorld(t)
    BY <1>4, <2>1 DEF TypeCode, TabAt, QuietWorld, PageInv, PageTypeOK, Works
  <2>3. Shows(t, "code") \/ Shows(t, "sms failed")
    BY <1>4 DEF TypeCode
  <2> QED  BY <2>2, <2>3, QuietShow DEF PagesShown
<1>5. CASE SendBinding(t)
  <2>1. binding' \in [sent : BOOLEAN, typed : BOOLEAN]
    <3>1. binding \in [sent : BOOLEAN, typed : BOOLEAN]
      BY DEF PageInv, PageTypeOK
    <3>2. binding' = [sent |-> TRUE, typed |-> FALSE] \/ binding' = binding
      BY <1>5 DEF SendBinding
    <3>3. [sent |-> TRUE, typed |-> FALSE] \in [sent : BOOLEAN, typed : BOOLEAN]
      OBVIOUS
    <3> QED  BY <3>1, <3>2, <3>3, Zenon
  <2>2. QuietWorld(t) /\ Shows(t, "bind")
    BY <1>5, <2>1 DEF SendBinding, TabAt, QuietWorld, PageInv, PageTypeOK
  <2> QED  BY <2>2, QuietShow DEF PagesShown
<1>6. CASE TypeBinding(t)
  <2>1. binding' \in [sent : BOOLEAN, typed : BOOLEAN]
    <3>1. binding \in [sent : BOOLEAN, typed : BOOLEAN]
      BY DEF PageInv, PageTypeOK
    <3>2. binding' = [binding EXCEPT !.typed = TRUE]
      BY <1>6, Zenon DEF TypeBinding
    <3> QED  BY <3>1, <3>2
  <2>2. QuietWorld(t) /\ Shows(t, "bind")
    BY <1>6, <2>1 DEF TypeBinding, TabAt, QuietWorld, PageInv, PageTypeOK, Works
  <2> QED  BY <2>2, QuietShow DEF PagesShown
<1> QED  BY <1>1, <1>2, <1>3, <1>4, <1>5, <1>6

LEMMA TriedKeeps ==
  ASSUME PageInv, NEW t, Verify(t) \/ VerifyBinding(t) \/ Resume(t)
  PROVE  PageInv'
<1>1. CASE Verify(t)
  <2>1. QuietWorld(t)
    BY <1>1 DEF Verify, TabAt, QuietWorld, PageInv, PageTypeOK, sessionOf
  <2>2. TabGoes(t, "store") \/ Shows(t, "sms failed")
    BY <1>1 DEF Verify
  <2> QED  BY <2>1, <2>2, QuietShow, QuietGo DEF PagesShown, Pcs
<1>2. CASE VerifyBinding(t)
  <2>1. QuietWorld(t)
    BY <1>2 DEF VerifyBinding, TabAt, QuietWorld, PageInv, PageTypeOK, sessionOf
  <2>2. TabGoes(t, "store") \/ Shows(t, "bind")
    BY <1>2 DEF VerifyBinding
  <2> QED  BY <2>1, <2>2, QuietShow, QuietGo DEF PagesShown, Pcs
<1>3. CASE Resume(t)
  <2>1. QuietWorld(t)
    BY <1>3 DEF Resume, TabAt, QuietWorld, PageInv, PageTypeOK, sessionOf, Works
  <2>2. \/ Shows(t, "failed") /\ wx.rcode = 0
        \/ Shows(t, "bind")
        \/ TabGoes(t, "store")
        \/ Shows(t, "failed") /\ Breaks
    BY <1>3 DEF Resume
  <2>3. CASE Shows(t, "failed") /\ wx.rcode = 0
    <3>1. t \in tabs /\ tab[t].pc = "resume" /\ UNCHANGED hitch
      BY <1>3, <2>3 DEF Resume, TabAt
    <3>2. ~OneTab \/ hitch'
      BY <2>3, <3>1 DEF PageInv, Unhitched
    <3> QED  BY <2>1, <2>3, <3>2, QuietShow DEF PagesShown
  <2>4. CASE Shows(t, "failed") /\ Breaks
    BY <2>1, <2>4, QuietShow DEF PagesShown, Breaks
  <2> QED  BY <2>1, <2>2, <2>3, <2>4, QuietShow, QuietGo DEF PagesShown, Pcs
<1> QED  BY <1>1, <1>2, <1>3
LEMMA Sizes == ASSUME PageInv PROVE made \in Nat /\ MaxScanCodes \in Nat /\ made <= MaxScanCodes
<1>1. made \in 0..MaxScanCodes
  BY Zenon DEF PageInv, PageTypeOK
<1> QED  BY <1>1, ScanCodesAssumption

LEMMA CodesAreTyped ==
  ASSUME PageInv
  PROVE  /\ qr \in 0..made /\ accepted \subseteq 1..made
         /\ lost \subseteq accepted /\ again \subseteq accepted
         /\ wx \in [code : 0..made, rcode : 0..made, bind : BOOLEAN]
         /\ phone \in [ScanCodes -> PhoneStates]
         /\ tab \in [AllTabs -> [pc : Pcs, page : PagesShown, took : 0..made]]
BY Zenon DEF PageInv, PageTypeOK, PhoneStates

LEMMA FlagsAreTyped ==
  ASSUME PageInv
  PROVE  /\ there \in BOOLEAN /\ finished \in BOOLEAN /\ draft \in BOOLEAN /\ saved \in BOOLEAN
         /\ tied \in BOOLEAN /\ hitch \in BOOLEAN
         /\ binding \in [sent : BOOLEAN, typed : BOOLEAN]
         /\ message \in [sent : BOOLEAN, typed : BOOLEAN]
BY Zenon DEF PageInv, PageTypeOK

LEMMA NoScanIsTyped == ASSUME PageInv PROVE NoScan \in [code : 0..made, rcode : 0..made, bind : BOOLEAN]
<1>1. 0 \in 0..made
  BY Sizes
<1> QED  BY <1>1 DEF NoScan

LEMMA NoMessageIsTyped == NoMessage \in [sent : BOOLEAN, typed : BOOLEAN]
BY DEF NoMessage

(* A tab loads a code to scan that has just been made.                      *)
NewCode(t) ==
    /\ made < MaxScanCodes /\ made' = made + 1 /\ qr' = made + 1 /\ Shows(t, "qr")
    /\ wx' \in {wx, NoScan} /\ binding' \in {binding, NoMessage}
    /\ UNCHANGED <<pageWorld, there, finished, message, draft, accepted, lost, again, phone, saved,
                   managerTold>>
    /\ Works /\ t \in tabs /\ tab[t].pc # "note"

LEMMA NewCodeKeeps == ASSUME PageInv, NEW t, NewCode(t) PROVE PageInv'
<1>1. t \in tabs
  BY DEF NewCode
<1>2. PICK rec \in [pc : Pcs, page : PagesShown, took : 0..made] :
            tab' = [tab EXCEPT ![t] = rec] /\ rec.pc = "rest" /\ rec.page = "qr"
  BY <1>1, TabShows DEF NewCode, PagesShown
<1>3. TypedAfter(rec)
  <2>1. made' \in made..MaxScanCodes /\ qr' \in 0..made' /\ 0..made \subseteq 0..made'
        /\ 1..made \subseteq 1..made'
    <3>1. made < MaxScanCodes /\ made' = made + 1 /\ qr' = made + 1
      BY DEF NewCode
    <3> QED  BY <3>1, Sizes
  <2>2. wx' \in [code : 0..made, rcode : 0..made, bind : BOOLEAN]
    BY NoScanIsTyped, CodesAreTyped DEF NewCode
  <2>3. /\ accepted' \subseteq 1..made
        /\ lost' \subseteq accepted' /\ again' \subseteq accepted'
        /\ phone' \in [ScanCodes -> PhoneStates]
    BY CodesAreTyped DEF NewCode
  <2>4. /\ there' \in BOOLEAN /\ draft' \in BOOLEAN /\ saved' \in BOOLEAN
        /\ hitch' \in BOOLEAN /\ finished' \in BOOLEAN
        /\ message' \in [sent : BOOLEAN, typed : BOOLEAN]
    BY FlagsAreTyped DEF NewCode, Works
  <2>5. binding' \in [sent : BOOLEAN, typed : BOOLEAN]
    BY FlagsAreTyped, NoMessageIsTyped DEF NewCode
  <2>6. rec \in [pc : Pcs, page : PagesShown, took : 0..made']
    BY <1>2, <2>1
  <2>7. wx' \in [code : 0..made', rcode : 0..made', bind : BOOLEAN]
    BY <2>1, <2>2
  <2>8. /\ accepted' \subseteq 1..made'
        /\ lost' \subseteq accepted' /\ again' \subseteq accepted'
    BY <2>1, <2>3
  <2> QED  BY <2>1, <2>3, <2>4, <2>5, <2>6, <2>7, <2>8 DEF TypedAfter
<1>4. FitsAfter(rec)
  <2>1. /\ UNCHANGED <<accepted, lost, again, phone, finished, saved, managerTold>>
        /\ wx' = wx \/ (wx'.code = 0 /\ wx'.rcode = 0)
        /\ tab[t].pc # "note"
    BY DEF NewCode, NoScan
  <2>2. 0 \notin accepted
    BY CodesAreTyped
  <2>3. OneTab => again \subseteq lost /\ wx.code \notin accepted \ lost
    BY <1>1, <2>1, LoneTab DEF PageInv, LoneScan
  <2>4. /\ finished => saved
        /\ \A c \in accepted : phone[c] \in Expended
        /\ wx.code # 0 => phone[wx.code] \in Expended
    BY DEF PageInv, SavedFirst, ScansAreTaken
  <2> QED  BY <1>2, <2>1, <2>2, <2>3, <2>4 DEF FitsAfter
<1> QED  BY <1>1, <1>2, <1>3, <1>4, TabMoves DEF NewCode

(* A tab takes up the code that is there, or goes to make one.              *)
AskNow(t) ==
    /\ tab' = [tab EXCEPT ![t].pc = IF qr' = 0 THEN "start" ELSE "ask", ![t].took = qr']
    /\ qr' \in {qr, 0} /\ wx' \in {wx, NoScan} /\ binding' \in {binding, NoMessage}
    /\ UNCHANGED <<pageWorld, there, finished, message, draft, vendorOf, phone, saved, managerTold,
                   hitch>>
    /\ t \in tabs /\ tab[t].pc # "note"

LEMMA AskNowKeeps == ASSUME PageInv, NEW t, AskNow(t) PROVE PageInv'
<1>1. t \in tabs /\ t \in AllTabs
  BY DEF AskNow, PageInv, PageTypeOK, AllTabs
<1>2. qr' \in 0..made
  BY CodesAreTyped, Sizes DEF AskNow
<1>3. PICK rec : rec = [tab[t] EXCEPT !.pc = IF qr' = 0 THEN "start" ELSE "ask", !.took = qr']
  OBVIOUS
<1>4. /\ rec \in [pc : Pcs, page : PagesShown, took : 0..made] /\ rec.pc \in {"start", "ask"}
      /\ rec.pc = "ask" => rec.took # 0
      /\ rec.page = tab[t].page
  BY <1>1, <1>2, <1>3, CodesAreTyped DEF Pcs
<1>5. tab' = [tab EXCEPT ![t] = rec]
  BY <1>1, <1>3, CodesAreTyped DEF AskNow
<1>6. TypedAfter(rec)
  <2>1. made' = made /\ made' \in made..MaxScanCodes
    <3>1. made' = made
      BY DEF AskNow, vendorOf
    <3> QED  BY <3>1, Sizes
  <2>2. wx' \in [code : 0..made, rcode : 0..made, bind : BOOLEAN]
    BY NoScanIsTyped, CodesAreTyped DEF AskNow
  <2>3. /\ accepted' \subseteq 1..made
        /\ lost' \subseteq accepted' /\ again' \subseteq accepted'
        /\ phone' \in [ScanCodes -> PhoneStates]
    BY CodesAreTyped DEF AskNow, vendorOf
  <2>4. /\ there' \in BOOLEAN /\ draft' \in BOOLEAN /\ saved' \in BOOLEAN
        /\ hitch' \in BOOLEAN /\ finished' \in BOOLEAN
        /\ message' \in [sent : BOOLEAN, typed : BOOLEAN]
    BY FlagsAreTyped DEF AskNow
  <2>5. binding' \in [sent : BOOLEAN, typed : BOOLEAN]
    BY FlagsAreTyped, NoMessageIsTyped DEF AskNow
  <2> QED  BY <1>2, <1>4, <2>1, <2>2, <2>3, <2>4, <2>5 DEF TypedAfter
<1>7. FitsAfter(rec)
  <2>1. /\ UNCHANGED <<accepted, lost, again, phone, finished, saved, managerTold, hitch>>
        /\ wx' = wx \/ (wx'.code = 0 /\ wx'.rcode = 0)
        /\ tab[t].pc # "note"
    BY DEF AskNow, vendorOf, NoScan
  <2>2. 0 \notin accepted
    BY CodesAreTyped
  <2>3. OneTab => again \subseteq lost /\ wx.code \notin accepted \ lost
    BY <1>1, <2>1, LoneTab DEF PageInv, LoneScan
  <2>4. /\ finished => saved
        /\ \A c \in accepted : phone[c] \in Expended
        /\ wx.code # 0 => phone[wx.code] \in Expended
        /\ OneTab /\ ~hitch => tab[t].page # "failed"
    BY <1>1 DEF PageInv, SavedFirst, ScansAreTaken, Unhitched
  <2> QED  BY <1>4, <2>1, <2>2, <2>3, <2>4 DEF FitsAfter
<1> QED  BY <1>1, <1>5, <1>6, <1>7, TabMoves DEF AskNow

(* A tab takes up a code that is confirmed, and goes on.                    *)
TakesUp(t, pc) ==
    /\ TabGoes(t, pc) /\ pc \in {"store", "exchange"}
    /\ phone[tab[t].took] = "confirmed" /\ phone' = [phone EXCEPT ![tab[t].took] = "taken"]
    /\ wx' = IF pc = "exchange" THEN [wx EXCEPT !.code = tab[t].took] ELSE wx
    /\ UNCHANGED <<pageWorld, there, finished, qr, binding, message, draft, vendorOf, saved,
                   managerTold, hitch>>
    /\ TabAt(t, "ask")

LEMMA TakesUpKeeps == ASSUME PageInv, NEW t, NEW pc, TakesUp(t, pc) PROVE PageInv'
<1>1. t \in tabs /\ t \in AllTabs /\ tab[t].pc = "ask" /\ tab[t].took \in ScanCodes /\ tab[t].took \in 1..made
  <2>1. t \in tabs /\ t \in AllTabs /\ tab[t].pc = "ask"
    BY DEF TakesUp, TabAt, PageInv, PageTypeOK, AllTabs
  <2>2. tab[t].took \in 0..made /\ tab[t].took # 0
    BY <2>1, CodesAreTyped DEF PageInv, ScansAreTaken
  <2> QED  BY <2>1, <2>2, Sizes DEF ScanCodes
<1>2. PICK rec \in [pc : Pcs, page : PagesShown, took : 0..made] :
            tab' = [tab EXCEPT ![t] = rec] /\ rec.pc = pc /\ rec.page = tab[t].page
            /\ rec.took = tab[t].took
  BY <1>1, TabGoesOn DEF TakesUp, Pcs
<1>3. \A c \in ScanCodes : phone[c] \in Expended => phone'[c] \in Expended
  BY <1>1, CodesAreTyped DEF TakesUp, Expended
<1>4. phone'[tab[t].took] \in Expended /\ tab[t].took \notin accepted
  BY <1>1, CodesAreTyped DEF TakesUp, Expended, PageInv, ScansAreTaken
<1>5. accepted \subseteq ScanCodes /\ (wx.code # 0 => wx.code \in ScanCodes)
  BY CodesAreTyped, Sizes DEF ScanCodes
<1>6. TypedAfter(rec)
  <2>1. made' = made /\ made' \in made..MaxScanCodes
    <3>1. made' = made
      BY DEF TakesUp, vendorOf
    <3> QED  BY <3>1, Sizes
  <2>2. wx' \in [code : 0..made, rcode : 0..made, bind : BOOLEAN]
    BY <1>1, CodesAreTyped DEF TakesUp
  <2>3. /\ accepted' \subseteq 1..made
        /\ lost' \subseteq accepted' /\ again' \subseteq accepted'
        /\ phone' \in [ScanCodes -> PhoneStates] /\ qr' \in 0..made
    BY <1>1, CodesAreTyped DEF TakesUp, vendorOf, PhoneStates
  <2>4. /\ there' \in BOOLEAN /\ draft' \in BOOLEAN /\ saved' \in BOOLEAN
        /\ hitch' \in BOOLEAN /\ finished' \in BOOLEAN
        /\ message' \in [sent : BOOLEAN, typed : BOOLEAN]
        /\ binding' \in [sent : BOOLEAN, typed : BOOLEAN]
    BY FlagsAreTyped DEF TakesUp, vendorOf
  <2> QED  BY <1>2, <2>1, <2>2, <2>3, <2>4 DEF TypedAfter
<1>7. FitsAfter(rec)
  <2>1. /\ UNCHANGED <<accepted, lost, again, finished, saved, managerTold, hitch>>
        /\ pc \in {"store", "exchange"}
    BY DEF TakesUp, vendorOf
  <2>2. OneTab => again \subseteq lost /\ wx.code \notin accepted \ lost
    BY <1>1, LoneTab DEF PageInv, LoneScan
  <2>3. finished => saved
    BY DEF PageInv, SavedFirst
  <2>4. OneTab /\ ~hitch => tab[t].page # "failed"
    BY <1>1 DEF PageInv, Unhitched
  <2>5. /\ wx' = wx \/ wx'.code = tab[t].took
        /\ pc = "exchange" => wx'.code = tab[t].took
    BY CodesAreTyped DEF TakesUp
  <2>6. \A c \in accepted' : phone'[c] \in Expended
    BY <1>3, <1>5, <2>1 DEF PageInv, ScansAreTaken
  <2>7. wx'.code # 0 => phone'[wx'.code] \in Expended
    BY <1>3, <1>4, <1>5, <2>5 DEF PageInv, ScansAreTaken
  <2>8. OneTab => again' \subseteq lost' /\ wx'.code \notin accepted' \ lost'
    BY <1>4, <2>1, <2>2, <2>5
  <2>9. /\ rec.pc \notin {"record", "note", "ask", "retry", "resume"}
        /\ rec.pc = "exchange" => wx'.code # 0 /\ wx'.code \notin accepted'
    <3>1. tab[t].took # 0
      BY <1>1, CodesAreTyped DEF PageInv, ScansAreTaken
    <3> QED  BY <1>2, <1>4, <2>1, <2>5, <3>1
  <2> QED  BY <1>2, <2>1, <2>3, <2>4, <2>6, <2>7, <2>8, <2>9 DEF FitsAfter
<1> QED  BY <1>1, <1>2, <1>6, <1>7, TabMoves DEF TakesUp

(* bind/auth accepts the code of the scan.                                  *)
Accepts(t) ==
    /\ TabAt(t, "exchange") /\ wx.code # 0 /\ wx.code \notin accepted
    /\ accepted' = accepted \cup {wx.code}
    /\ tab' = [tab EXCEPT ![t].pc = "note", ![t].took = wx.code]
    /\ UNCHANGED <<pageWorld, sessionOf, made, lost, again, phone, saved, managerTold, hitch>>

LEMMA AcceptsKeeps == ASSUME PageInv, NEW t, Accepts(t) PROVE PageInv'
<1>1. t \in tabs /\ t \in AllTabs /\ tab[t].pc = "exchange"
  BY DEF Accepts, TabAt, PageInv, PageTypeOK, AllTabs
<1>2. wx.code \in 1..made /\ wx.code \in 0..made /\ wx.code # 0
  <2>1. wx.code \in 0..made
    BY CodesAreTyped
  <2>2. wx.code # 0
    BY DEF Accepts
  <2> QED  BY <2>1, <2>2, Sizes
<1>3. PICK rec : rec = [tab[t] EXCEPT !.pc = "note", !.took = wx.code]
  OBVIOUS
<1>4. /\ rec \in [pc : Pcs, page : PagesShown, took : 0..made] /\ rec.pc = "note"
      /\ rec.took # 0 /\ rec.page = tab[t].page
  BY ZenonT(30), <1>1, <1>2, <1>3, CodesAreTyped DEF Pcs
<1>5. tab' = [tab EXCEPT ![t] = rec]
  BY <1>1, <1>3, CodesAreTyped DEF Accepts
<1>6. TypedAfter(rec)
  <2>1. made' = made /\ made' \in made..MaxScanCodes
    <3>1. made' = made
      BY DEF Accepts
    <3> QED  BY <3>1, Sizes
  <2>2. /\ accepted' \subseteq 1..made
        /\ lost' \subseteq accepted' /\ again' \subseteq accepted'
        /\ phone' \in [ScanCodes -> PhoneStates] /\ qr' \in 0..made
        /\ wx' \in [code : 0..made, rcode : 0..made, bind : BOOLEAN]
    BY <1>2, CodesAreTyped DEF Accepts, sessionOf
  <2>3. /\ there' \in BOOLEAN /\ draft' \in BOOLEAN /\ saved' \in BOOLEAN
        /\ hitch' \in BOOLEAN /\ finished' \in BOOLEAN
        /\ message' \in [sent : BOOLEAN, typed : BOOLEAN]
        /\ binding' \in [sent : BOOLEAN, typed : BOOLEAN]
    BY FlagsAreTyped DEF Accepts, sessionOf
  <2> QED  BY <1>4, <2>1, <2>2, <2>3 DEF TypedAfter
<1>7. FitsAfter(rec)
  <2>1. /\ UNCHANGED <<wx, phone, lost, again, finished, saved, managerTold, hitch>>
        /\ accepted' = accepted \cup {wx.code}
    BY DEF Accepts, sessionOf
  <2>2. finished => saved
    BY DEF PageInv, SavedFirst
  <2>3. OneTab => again \subseteq lost
    BY DEF PageInv, LoneScan
  <2>4. OneTab /\ ~hitch => tab[t].page # "failed"
    BY <1>1 DEF PageInv, Unhitched
  <2>5. phone[wx.code] \in Expended /\ \A c \in accepted : phone[c] \in Expended
    BY <1>2 DEF PageInv, ScansAreTaken
  <2> QED  BY <1>4, <2>1, <2>2, <2>3, <2>4, <2>5 DEF FitsAfter
<1> QED  BY <1>1, <1>5, <1>6, <1>7, TabMoves DEF Accepts
(* bind/auth gives no rcode, whether or not it has accepted the code.       *)
Fails(t) ==
    /\ TabAt(t, "exchange") /\ Shows(t, "failed")
    /\ accepted \subseteq accepted' /\ accepted' \subseteq accepted \cup ({wx.code} \ {0})
    /\ lost' \subseteq accepted' /\ again' \subseteq accepted'
    /\ OneTab => again' \subseteq lost' /\ wx.code \notin accepted' \ lost'
    /\ hitch' \in BOOLEAN /\ (OneTab => hitch')
    /\ UNCHANGED <<pageWorld, sessionOf, made, phone, saved, managerTold>>

LEMMA FailsKeeps == ASSUME PageInv, NEW t, Fails(t) PROVE PageInv'
<1>1. t \in tabs
  BY DEF Fails, TabAt
<1>2. PICK rec \in [pc : Pcs, page : PagesShown, took : 0..made] :
            tab' = [tab EXCEPT ![t] = rec] /\ rec.pc = "rest" /\ rec.page = "failed"
  BY <1>1, TabShows DEF Fails, PagesShown
<1>3. wx.code \in 0..made /\ accepted' \subseteq 1..made
  <2>1. wx.code \in 0..made /\ accepted \subseteq 1..made
    BY CodesAreTyped
  <2>2. \A c \in accepted' : c \in accepted \/ (c = wx.code /\ c # 0)
    BY DEF Fails
  <2>3. wx.code # 0 => wx.code \in 1..made
    BY <2>1, Sizes
  <2> QED  BY <2>1, <2>2, <2>3
<1>4. TypedAfter(rec)
  <2>1. made' = made /\ made' \in made..MaxScanCodes
    <3>1. made' = made
      BY DEF Fails
    <3> QED  BY <3>1, Sizes
  <2>2. /\ phone' \in [ScanCodes -> PhoneStates] /\ qr' \in 0..made
        /\ wx' \in [code : 0..made, rcode : 0..made, bind : BOOLEAN]
    BY CodesAreTyped DEF Fails, sessionOf
  <2>3. /\ there' \in BOOLEAN /\ draft' \in BOOLEAN /\ saved' \in BOOLEAN
        /\ hitch' \in BOOLEAN /\ finished' \in BOOLEAN
        /\ message' \in [sent : BOOLEAN, typed : BOOLEAN]
        /\ binding' \in [sent : BOOLEAN, typed : BOOLEAN]
    BY FlagsAreTyped DEF Fails, sessionOf
  <2>4. lost' \subseteq accepted' /\ again' \subseteq accepted'
    BY DEF Fails
  <2> QED  BY <1>2, <1>3, <2>1, <2>2, <2>3, <2>4 DEF TypedAfter
<1>5. FitsAfter(rec)
  <2>1. UNCHANGED <<wx, phone, finished, saved, managerTold>>
    BY DEF Fails, sessionOf
  <2>2. (finished => saved) /\ (wx.code # 0 => phone[wx.code] \in Expended)
    BY DEF PageInv, SavedFirst, ScansAreTaken
  <2>3. \A c \in accepted' : phone[c] \in Expended
    <3>1. \A c \in accepted' : c \in accepted \/ (c = wx.code /\ c # 0)
      BY DEF Fails
    <3> QED  BY <2>2, <3>1 DEF PageInv, ScansAreTaken
  <2>4. OneTab => again' \subseteq lost' /\ wx'.code \notin accepted' \ lost' /\ hitch'
    BY <2>1 DEF Fails
  <2> QED  BY <1>2, <2>1, <2>2, <2>3, <2>4 DEF FitsAfter
<1> QED  BY <1>1, <1>2, <1>4, <1>5, TabMoves DEF Fails

LEMMA NoteBindingKeeps == ASSUME PageInv, NEW t, NoteBinding(t) PROVE PageInv'
<1>1. t \in tabs /\ t \in AllTabs /\ tab[t].pc = "note"
  BY DEF NoteBinding, TabAt, PageInv, PageTypeOK, AllTabs
<1>2. tab[t].took \in 0..made /\ tab[t].took # 0 /\ 0 \in 0..made
  BY <1>1, CodesAreTyped, Sizes DEF PageInv, ScansAreTaken
<1>3. PICK rec \in [pc : Pcs, page : PagesShown, took : 0..made] :
            tab' = [tab EXCEPT ![t] = rec] /\ rec.pc = "resume" /\ rec.page = tab[t].page
            /\ rec.took = tab[t].took
  BY <1>1, TabGoesOn DEF NoteBinding, Pcs
<1>4. wx' \in [code : 0..made, rcode : 0..made, bind : BOOLEAN] /\ wx'.code = 0 /\ wx'.rcode # 0
  <2>1. wx' = [code |-> 0, rcode |-> tab[t].took, bind |-> tied]
    BY Zenon DEF NoteBinding
  <2> QED  BY <1>2, <2>1, FlagsAreTyped
<1>5. TypedAfter(rec)
  <2>1. made' = made /\ made' \in made..MaxScanCodes
    <3>1. made' = made
      BY DEF NoteBinding, vendorOf
    <3> QED  BY <3>1, Sizes
  <2>2. /\ accepted' \subseteq 1..made
        /\ lost' \subseteq accepted' /\ again' \subseteq accepted'
        /\ phone' \in [ScanCodes -> PhoneStates] /\ qr' \in 0..made
    BY CodesAreTyped DEF NoteBinding, vendorOf
  <2>3. /\ there' \in BOOLEAN /\ draft' \in BOOLEAN /\ saved' \in BOOLEAN
        /\ hitch' \in BOOLEAN /\ finished' \in BOOLEAN
        /\ message' \in [sent : BOOLEAN, typed : BOOLEAN]
        /\ binding' \in [sent : BOOLEAN, typed : BOOLEAN]
    BY FlagsAreTyped DEF NoteBinding, vendorOf
  <2> QED  BY <1>3, <1>4, <2>1, <2>2, <2>3 DEF TypedAfter
<1>6. FitsAfter(rec)
  <2>1. UNCHANGED <<accepted, lost, phone, again, finished, saved, managerTold, hitch>>
    BY DEF NoteBinding, vendorOf
  <2>2. finished => saved
    BY DEF PageInv, SavedFirst
  <2>3. 0 \notin accepted
    BY CodesAreTyped
  <2>4. OneTab /\ ~hitch => tab[t].page # "failed"
    BY <1>1 DEF PageInv, Unhitched
  <2>5. (\A c \in accepted : phone[c] \in Expended) /\ (OneTab => again \subseteq lost)
    BY DEF PageInv, ScansAreTaken, LoneScan
  <2> QED  BY <1>3, <1>4, <2>1, <2>2, <2>3, <2>4, <2>5 DEF FitsAfter
<1> QED  BY <1>1, <1>3, <1>5, <1>6, TabMoves DEF NoteBinding

(* The account is in its file; the session is told.                         *)
LEMMA RecordsKeep ==
  ASSUME PageInv, NEW t,
         \/ KeepAccount(t) /\ saved' = TRUE /\ TabGoes(t, "record") /\ Works
         \/ Record(t)
  PROVE  PageInv'
<1>1. /\ t \in tabs /\ t \in AllTabs /\ tab[t].pc \in {"store", "record"}
      /\ tab[t].pc = "record" => saved
  BY DEF KeepAccount, Record, TabAt, PageInv, PageTypeOK, AllTabs, SavedFirst
<1>2. PICK rec \in [pc : Pcs, page : PagesShown, took : 0..made] :
            /\ tab' = [tab EXCEPT ![t] = rec] /\ rec.pc \in {"record", "rest"}
            /\ rec.page \in {tab[t].page, "success"}
  <2>1. CASE TabGoes(t, "record")
    <3>1. PICK rec \in [pc : Pcs, page : PagesShown, took : 0..made] :
              tab' = [tab EXCEPT ![t] = rec] /\ rec.pc = "record" /\ rec.page = tab[t].page
      BY <1>1, <2>1, TabGoesOn DEF Pcs
    <3> QED  BY <3>1
  <2>2. CASE Shows(t, "success")
    <3>1. PICK rec \in [pc : Pcs, page : PagesShown, took : 0..made] :
              tab' = [tab EXCEPT ![t] = rec] /\ rec.pc = "rest" /\ rec.page = "success"
      BY <1>1, <2>2, TabShows DEF PagesShown
    <3> QED  BY <3>1
  <2> QED  BY <2>1, <2>2 DEF Record
<1>3. /\ UNCHANGED <<pageWorld, there, qr, wx, binding, draft, vendorOf, phone, managerTold, hitch>>
      /\ saved' = TRUE /\ finished' \in BOOLEAN
  <2>1. CASE Record(t)
    <3>1. tab[t].pc = "record" /\ saved' = saved /\ saved \in BOOLEAN /\ finished' = TRUE
      BY <2>1, FlagsAreTyped DEF Record, TabAt
    <3>2. saved' = TRUE
      BY <1>1, <3>1
    <3> QED  BY <2>1, <3>1, <3>2 DEF Record
  <2>2. CASE KeepAccount(t) /\ saved' = TRUE /\ Works
    BY <2>2, FlagsAreTyped DEF KeepAccount, sessionOf, Works
  <2> QED  BY <2>1, <2>2
<1>4. message' \in [sent : BOOLEAN, typed : BOOLEAN]
  <2>1. message' = message \/ message' = [message EXCEPT !.typed = FALSE]
    BY DEF KeepAccount, Record, sessionOf
  <2>2. [message EXCEPT !.typed = FALSE] \in [sent : BOOLEAN, typed : BOOLEAN]
    BY FlagsAreTyped
  <2> QED  BY <2>1, <2>2, FlagsAreTyped
<1>5. TypedAfter(rec)
  <2>1. made' = made /\ made' \in made..MaxScanCodes
    <3>1. made' = made
      BY <1>3 DEF vendorOf
    <3> QED  BY <3>1, Sizes
  <2>2. /\ accepted' \subseteq 1..made
        /\ lost' \subseteq accepted' /\ again' \subseteq accepted'
        /\ phone' \in [ScanCodes -> PhoneStates] /\ qr' \in 0..made
        /\ wx' \in [code : 0..made, rcode : 0..made, bind : BOOLEAN]
    BY <1>3, CodesAreTyped DEF vendorOf
  <2>3. /\ there' \in BOOLEAN /\ draft' \in BOOLEAN /\ saved' \in BOOLEAN
        /\ hitch' \in BOOLEAN /\ binding' \in [sent : BOOLEAN, typed : BOOLEAN]
    BY <1>3, FlagsAreTyped DEF vendorOf
  <2> QED  BY <1>2, <1>3, <1>4, <2>1, <2>2, <2>3 DEF TypedAfter
<1>6. FitsAfter(rec)
  <2>1. UNCHANGED <<accepted, lost, phone, again, managerTold, hitch, wx>>
    BY <1>3 DEF vendorOf
  <2>2. OneTab => again \subseteq lost /\ wx.code \notin accepted \ lost
    BY <1>1, LoneTab DEF PageInv, LoneScan
  <2>3. OneTab /\ ~hitch => tab[t].page # "failed"
    BY <1>1 DEF PageInv, Unhitched
  <2>4. (\A c \in accepted : phone[c] \in Expended) /\ (wx.code # 0 => phone[wx.code] \in Expended)
    BY DEF PageInv, ScansAreTaken
  <2> QED  BY <1>2, <1>3, <2>1, <2>2, <2>3, <2>4 DEF FitsAfter
<1> QED  BY <1>1, <1>2, <1>3, <1>5, <1>6, TabMoves

LEMMA RaccoonKeeps == ASSUME PageInv, NEW t, LoadScan(t) \/ AskScan(t) PROVE PageInv'
<1>1. CASE LoadScan(t)
  <2>1. t \in tabs /\ tab[t].pc \in {"qr", "fresh"}
    BY <1>1 DEF LoadScan, TabAt
  <2>2. \/ Shows(t, "success") /\ UNCHANGED <<made, qr>>
        \/ Rotate(t)
        \/ /\ qr # 0 /\ tab' = [tab EXCEPT ![t].pc = "ask", ![t].took = qr]
           /\ UNCHANGED <<made, qr>>
    BY <1>1 DEF LoadScan
  <2>3. CASE Shows(t, "success") /\ UNCHANGED <<made, qr>>
    <3>1. QuietWorld(t)
      BY <1>1, <2>1, <2>3, FlagsAreTyped DEF LoadScan, QuietWorld, vendorOf, Works
    <3> QED  BY <2>3, <3>1, QuietShow DEF PagesShown
  <2>4. CASE Rotate(t)
    BY <1>1, <2>1, <2>4, NewCodeKeeps DEF LoadScan, Rotate, NewCode, Works
  <2>5. CASE qr # 0 /\ tab' = [tab EXCEPT ![t].pc = "ask", ![t].took = qr] /\ UNCHANGED <<made, qr>>
    BY <1>1, <2>1, <2>5, AskNowKeeps DEF LoadScan, AskNow, vendorOf
  <2> QED  BY <2>2, <2>3, <2>4, <2>5
<1>2. CASE AskScan(t)
  <2>1. t \in tabs /\ tab[t].pc = "ask"
    BY <1>2 DEF AskScan, TabAt
  <2>2. PICK reply \in ScanReplies(tab[t].took) :
          \/ Shows(t, "qr") /\ UNCHANGED <<made, qr, phone>> /\ (Works \/ Breaks)
          \/ Rotate(t) /\ Works /\ UNCHANGED phone
          \/ /\ reply \notin {"waiting", "cancelled"}
             /\ phone' = [phone EXCEPT ![tab[t].took] = "taken"]
             /\ TabGoes(t, "store") /\ Works /\ UNCHANGED <<made, qr>>
    BY <1>2 DEF AskScan
  <2>3. CASE Shows(t, "qr") /\ UNCHANGED <<made, qr, phone>> /\ (Works \/ Breaks)
    <3>1. QuietWorld(t)
      BY <1>2, <2>1, <2>3, FlagsAreTyped DEF AskScan, QuietWorld, vendorOf
    <3> QED  BY <2>3, <3>1, QuietShow DEF PagesShown
  <2>4. CASE Rotate(t) /\ Works /\ UNCHANGED phone
    BY <1>2, <2>1, <2>4, NewCodeKeeps DEF AskScan, Rotate, NewCode
  <2>5. CASE /\ reply \notin {"waiting", "cancelled"}
             /\ phone' = [phone EXCEPT ![tab[t].took] = "taken"]
             /\ TabGoes(t, "store") /\ Works /\ UNCHANGED <<made, qr>>
    <3>1. phone[tab[t].took] = "confirmed"
      BY <2>2, <2>5 DEF ScanReplies
    <3>2. TakesUp(t, "store")
      BY <1>2, <2>5, <3>1 DEF AskScan, TakesUp, vendorOf, Works
    <3> QED  BY <3>2, TakesUpKeeps
  <2> QED  BY <2>2, <2>3, <2>4, <2>5
<1> QED  BY <1>1, <1>2
LEMMA LoomyKeeps ==
  ASSUME PageInv, NEW t, LoadWechat(t) \/ StartWechat(t) \/ AskWechat(t)
  PROVE  PageInv'
<1>1. CASE LoadWechat(t)
  <2>1. t \in tabs /\ tab[t].pc \in {"qr", "fresh"}
    BY <1>1 DEF LoadWechat, TabAt
  <2>2. qr' \in {qr, 0} /\ wx' \in {wx, NoScan} /\ binding' \in {binding, NoMessage}
    BY <1>1 DEF LoadWechat
  <2>3. AskNow(t)
    BY <1>1, <2>1, <2>2 DEF LoadWechat, AskNow, vendorOf
  <2> QED  BY <2>3, AskNowKeeps
<1>2. CASE StartWechat(t)
  <2>1. t \in tabs /\ tab[t].pc = "start" /\ Shows(t, "qr")
    BY <1>2 DEF StartWechat, TabAt
  <2>2. CASE made' = made + 1 /\ qr' = made + 1 /\ wx' = NoScan /\ binding' = NoMessage /\ Works
    BY <1>2, <2>1, <2>2, NewCodeKeeps DEF StartWechat, NewCode
  <2>3. CASE UNCHANGED <<made, qr, wx, binding>> /\ Breaks
    <3>1. QuietWorld(t)
      BY <1>2, <2>1, <2>3, FlagsAreTyped DEF StartWechat, QuietWorld, vendorOf
    <3> QED  BY <2>1, <3>1, QuietShow DEF PagesShown
  <2> QED  BY <1>2, <2>2, <2>3 DEF StartWechat
<1>3. CASE AskWechat(t)
  <2>1. TabAt(t, "ask") /\ t \in tabs /\ tab[t].pc = "ask"
    BY <1>3 DEF AskWechat, TabAt
  <2>2. PICK reply \in WechatReplies(tab[t].took) :
          /\ IF reply = "error" THEN Breaks ELSE Works
          /\ \/ Shows(t, "qr") /\ UNCHANGED <<wx, phone>>
             \/ TabGoes(t, "start") /\ UNCHANGED <<wx, phone>>
             \/ /\ reply \notin {"error", "waiting", "expired"}
                /\ phone' = [phone EXCEPT ![tab[t].took] = "taken"]
                /\ wx' = [wx EXCEPT !.code = tab[t].took]
                /\ TabGoes(t, "exchange")
    BY <1>3 DEF AskWechat
  <2>3. Works \/ Breaks
    BY <2>2
  <2>4. CASE UNCHANGED <<wx, phone>>
    <3>1. QuietWorld(t)
      BY <1>3, <2>1, <2>3, <2>4, FlagsAreTyped DEF AskWechat, QuietWorld
    <3>2. CASE Shows(t, "qr")
      BY <3>1, <3>2, QuietShow DEF PagesShown
    <3>3. CASE TabGoes(t, "start")
      BY <3>1, <3>3, QuietGo DEF Pcs
    <3>4. CASE wx' = [wx EXCEPT !.code = tab[t].took] /\ phone' = [phone EXCEPT ![tab[t].took] = "taken"]
               /\ reply \notin {"error", "waiting", "expired"}
      <4>1. t \in AllTabs
        BY <2>1 DEF PageInv, PageTypeOK, AllTabs
      <4>2. tab[t].took \in 0..made /\ tab[t].took # 0
        BY <2>1, <4>1, CodesAreTyped DEF PageInv, ScansAreTaken
      <4>3. tab[t].took \in ScanCodes
        BY <4>2, Sizes DEF ScanCodes
      <4>4. phone[tab[t].took] = "taken"
        BY <2>4, <3>4, <4>3, CodesAreTyped
      <4> QED  BY <2>2, <3>4, <4>4 DEF WechatReplies
    <3> QED  BY <2>2, <3>2, <3>3, <3>4
  <2>5. CASE /\ reply \notin {"error", "waiting", "expired"}
             /\ phone' = [phone EXCEPT ![tab[t].took] = "taken"]
             /\ wx' = [wx EXCEPT !.code = tab[t].took]
             /\ TabGoes(t, "exchange")
    <3>1. t \in AllTabs
      BY <2>1 DEF PageInv, PageTypeOK, AllTabs
    <3>2. tab[t].took \in 0..made /\ tab[t].took # 0
      BY <2>1, <3>1, CodesAreTyped DEF PageInv, ScansAreTaken
    <3>3. phone[tab[t].took] \in PhoneStates
      BY <3>2, CodesAreTyped, Sizes DEF ScanCodes
    <3>4. phone[tab[t].took] = "confirmed"
      BY <2>2, <2>5, <3>3 DEF WechatReplies, PhoneStates
    <3>5. UNCHANGED hitch
      BY <2>2, <2>5 DEF Works
    <3>6. TakesUp(t, "exchange")
      BY <1>3, <2>1, <2>5, <3>4, <3>5 DEF AskWechat, TakesUp
    <3> QED  BY <3>6, TakesUpKeeps
  <2> QED  BY <2>2, <2>4, <2>5
<1> QED  BY <1>1, <1>2, <1>3

LEMMA ExchangeKeeps == ASSUME PageInv, NEW t, ExchangeScan(t) \/ Retry(t) PROVE PageInv'
<1>1. CASE ExchangeScan(t)
  <2>1. TabAt(t, "exchange") /\ t \in tabs /\ tab[t].pc = "exchange"
    BY <1>1 DEF ExchangeScan, TabAt
  <2>2. OneTab => again \subseteq lost /\ wx.code \notin accepted \ lost
    BY <2>1, LoneTab DEF PageInv, LoneScan
  <2>3. OneTab /\ ~hitch => wx.code # 0
    BY <2>1 DEF PageInv, Unhitched
  <2>4. UNCHANGED <<pageWorld, sessionOf, made, phone, saved, managerTold>>
    BY <1>1 DEF ExchangeScan
  <2>5. CASE wx.code = 0
    <3>1. Shows(t, "failed") /\ UNCHANGED <<accepted, lost, again, hitch>>
      BY <1>1, <2>5 DEF ExchangeScan
    <3>2. hitch' \in BOOLEAN /\ (OneTab => hitch')
      BY <2>3, <2>5, <3>1, FlagsAreTyped
    <3>3. Fails(t)
      BY <2>1, <2>2, <2>4, <3>1, <3>2, CodesAreTyped DEF Fails
    <3> QED  BY <3>3, FailsKeeps
  <2>6. CASE wx.code # 0
    <3>1. again' = again \cup {c \in accepted : OneTab /\ c = wx.code}
      BY <1>1, <2>6 DEF ExchangeScan
    <3>2. \/ /\ wx.code \notin accepted /\ accepted' = accepted \cup {wx.code} /\ Works
             /\ tab' = [tab EXCEPT ![t].pc = "note", ![t].took = wx.code] /\ UNCHANGED lost
          \/ wx.code \in accepted /\ Shows(t, "failed") /\ UNCHANGED <<accepted, lost>> /\ Works
          \/ Shows(t, "failed") /\ UNCHANGED <<accepted, lost>> /\ Breaks
          \/ /\ wx.code \notin accepted /\ accepted' = accepted \cup {wx.code}
             /\ lost' = lost \cup {wx.code} /\ Shows(t, "failed") /\ Breaks
      BY <1>1, <2>6 DEF ExchangeScan
    <3>3. CASE /\ wx.code \notin accepted /\ accepted' = accepted \cup {wx.code} /\ Works
               /\ tab' = [tab EXCEPT ![t].pc = "note", ![t].took = wx.code] /\ UNCHANGED lost
      <4>1. UNCHANGED again
        BY <3>1, <3>3
      <4>2. Accepts(t)
        BY <2>1, <2>4, <2>6, <3>3, <4>1 DEF Accepts, Works
      <4> QED  BY <4>2, AcceptsKeeps
    <3>4. CASE wx.code \in accepted /\ Shows(t, "failed") /\ UNCHANGED <<accepted, lost>> /\ Works
      <4>1. hitch' \in BOOLEAN /\ (OneTab => hitch')
        BY <2>1, <3>4, FlagsAreTyped DEF Works, PageInv, Unhitched
      <4>2. OneTab => again' \subseteq lost'
        BY <2>2, <3>1, <3>4
      <4>3. again' \subseteq accepted' /\ lost' \subseteq accepted'
        BY <3>1, <3>4, CodesAreTyped
      <4>4. Fails(t)
        BY <2>1, <2>2, <2>4, <3>4, <4>1, <4>2, <4>3 DEF Fails
      <4> QED  BY <4>4, FailsKeeps
    <3>5. CASE Shows(t, "failed") /\ UNCHANGED <<accepted, lost>> /\ Breaks
      <4>1. hitch' \in BOOLEAN /\ (OneTab => hitch')
        BY <3>5, Zenon DEF Breaks, OneTab
      <4>2. OneTab => again' \subseteq lost'
        BY <2>2, <3>1, <3>5
      <4>3. again' \subseteq accepted' /\ lost' \subseteq accepted'
        BY <3>1, <3>5, CodesAreTyped
      <4>4. Fails(t)
        BY <2>1, <2>2, <2>4, <3>5, <4>1, <4>2, <4>3 DEF Fails
      <4> QED  BY <4>4, FailsKeeps
    <3>6. CASE /\ wx.code \notin accepted /\ accepted' = accepted \cup {wx.code}
               /\ lost' = lost \cup {wx.code} /\ Shows(t, "failed") /\ Breaks
      <4>1. hitch' \in BOOLEAN /\ (OneTab => hitch')
        BY <3>6, Zenon DEF Breaks, OneTab
      <4>2. again' = again
        BY <3>1, <3>6
      <4>3. OneTab => again' \subseteq lost' /\ wx.code \notin accepted' \ lost'
        BY <2>2, <3>6, <4>2
      <4>4. again' \subseteq accepted' /\ lost' \subseteq accepted'
        BY <3>6, <4>2, CodesAreTyped
      <4>5. Fails(t)
        BY <2>1, <2>4, <2>6, <3>6, <4>1, <4>3, <4>4 DEF Fails
      <4> QED  BY <4>5, FailsKeeps
    <3> QED  BY <3>2, <3>3, <3>4, <3>5, <3>6
  <2> QED  BY <2>5, <2>6
<1>2. CASE Retry(t)
  <2>1. t \in tabs /\ tab[t].pc = "retry"
    BY <1>2 DEF Retry, TabAt
  <2>2. ~OneTab \/ hitch
    BY <2>1 DEF PageInv, Unhitched
  <2>3. QuietWorld(t)
    BY <1>2, <2>1, FlagsAreTyped DEF Retry, QuietWorld, sessionOf, Works
  <2>4. TabGoes(t, "exchange") \/ TabGoes(t, "resume")
    BY <1>2 DEF Retry
  <2> QED  BY <2>2, <2>3, <2>4, QuietGo DEF Pcs
<1> QED  BY <1>1, <1>2

LEMMA KeepAccountKeeps == ASSUME PageInv, NEW t, KeepAccount(t) PROVE PageInv'
<1>1. t \in tabs /\ tab[t].pc = "store"
  BY DEF KeepAccount, TabAt
<1>2. CASE saved' = TRUE /\ TabGoes(t, "record") /\ Works
  BY <1>2, RecordsKeep
<1>3. CASE NotKept(t) /\ Breaks /\ UNCHANGED saved
  <2>1. QuietWorld(t)
    BY <1>1, <1>3, FlagsAreTyped DEF KeepAccount, QuietWorld, sessionOf
  <2>2. PICK page \in PagesShown : Shows(t, page)
    BY <1>3 DEF NotKept, PagesShown
  <2> QED  BY <1>3, <2>1, <2>2, QuietShow DEF Breaks
<1> QED  BY <1>2, <1>3 DEF KeepAccount
(* What the person, the time, a shutdown and the manager do.                *)
LEMMA WorldKeeps ==
  ASSUME PageInv,
         Scan \/ Stale \/ OutliveSession \/ ShutdownPages \/ ManagerPoll \/ UNCHANGED pageVars
  PROVE  PageInv'
<1>1. /\ UNCHANGED <<site, tabs, tied, vendorOf, tab, finished, qr, wx, binding, message, draft, saved,
                     hitch>>
      /\ outlived' \in {outlived, TRUE} /\ there' \in {there, FALSE}
  BY DEF Scan, Stale, OutliveSession, ShutdownPages, ManagerPoll, pageVars, pageWorld,
         sessionOf
<1>2. managerTold' = managerTold \/ (managerTold' = "success" /\ finished) \/ managerTold' = "error"
  BY DEF Scan, Stale, OutliveSession, ShutdownPages, ManagerPoll, pageVars
<1>3. \/ phone' = phone
      \/ \E c \in ScanCodes, says \in PhoneStates :
            /\ phone' = [phone EXCEPT ![c] = says]
            /\ phone[c] \in Expended => says \in Expended
  <2>1. CASE Scan
    BY <2>1 DEF Scan, Expended, PhoneStates
  <2>2. CASE Stale
    <3>1. PICK c \in 1..made : phone' = [phone EXCEPT ![c] = "expired"]
      BY <2>2 DEF Stale
    <3>2. c \in ScanCodes
      BY <3>1, Sizes DEF ScanCodes
    <3> QED  BY <3>1, <3>2 DEF Expended, PhoneStates
  <2>3. CASE OutliveSession \/ ShutdownPages \/ ManagerPoll \/ UNCHANGED pageVars
    BY <2>3 DEF OutliveSession, ShutdownPages, ManagerPoll, pageVars
  <2> QED  BY <2>1, <2>2, <2>3
<1>4. /\ phone' \in [ScanCodes -> PhoneStates]
      /\ \A c \in ScanCodes : phone[c] \in Expended => phone'[c] \in Expended
  BY <1>3, CodesAreTyped
<1>5. UNCHANGED <<made, accepted, lost, again>>
  BY <1>1 DEF vendorOf
<1>6. PageTypeOK'
  <2>1. /\ there' \in BOOLEAN /\ finished' \in BOOLEAN /\ draft' \in BOOLEAN
        /\ tied' \in BOOLEAN /\ saved' \in BOOLEAN /\ hitch' \in BOOLEAN
        /\ binding' \in [sent : BOOLEAN, typed : BOOLEAN]
        /\ message' \in [sent : BOOLEAN, typed : BOOLEAN]
    BY ZenonT(30), <1>1, <1>5, FlagsAreTyped
  <2>4. /\ site' \in Sites /\ tabs' \in TabSets /\ outlived' \in BOOLEAN
        /\ managerTold' \in {"", "success", "error"}
    <3>1. /\ site \in Sites /\ tabs \in TabSets /\ outlived \in BOOLEAN
          /\ managerTold \in {"", "success", "error"}
      BY Zenon DEF PageInv, PageTypeOK
    <3> QED  BY <1>1, <1>2, <3>1
  <2>2. made \in 0..MaxScanCodes
    BY Zenon DEF PageInv, PageTypeOK
  <2>3. /\ made' \in 0..MaxScanCodes /\ qr' \in 0..made' /\ accepted' \subseteq 1..made'
        /\ lost' \subseteq accepted' /\ again' \subseteq accepted'
        /\ wx' \in [code : 0..made', rcode : 0..made', bind : BOOLEAN]
        /\ tab' \in [AllTabs -> [pc : Pcs, page : PagesShown, took : 0..made']]
    BY <1>1, <1>5, <2>2, CodesAreTyped
  <2> QED  BY <1>4, <2>1, <2>3, <2>4 DEF PageTypeOK, PhoneStates
<1>7. SavedFirst'
  BY <1>1, <1>2 DEF PageInv, SavedFirst
<1>8. ScansAreTaken'
  <2>1. accepted \subseteq ScanCodes /\ (wx.code # 0 => wx.code \in ScanCodes)
    BY CodesAreTyped, Sizes DEF ScanCodes
  <2> QED  BY <1>1, <1>4, <1>5, <2>1 DEF PageInv, ScansAreTaken
<1>9. LoneScan' /\ Unhitched'
  BY <1>1, <1>5 DEF PageInv, LoneScan, Unhitched, OneTab
<1> QED  BY <1>6, <1>7, <1>8, <1>9 DEF PageInv

LEMMA PageStep == PageInv /\ [PageNext]_pageVars => PageInv'
<1> SUFFICES ASSUME PageInv, [PageNext]_pageVars PROVE PageInv'
  OBVIOUS
<1>1. CASE Scan \/ Stale \/ OutliveSession \/ ShutdownPages \/ ManagerPoll \/ UNCHANGED pageVars
  BY <1>1, WorldKeeps
<1>2. ASSUME NEW t \in AllTabs, Follow(t) PROVE PageInv'
  BY <1>2, FollowKeeps
<1>3. ASSUME NEW t \in AllTabs, Load(t) PROVE PageInv'
  BY <1>3, RaccoonKeeps, LoomyKeeps, ExchangeKeeps, NoteBindingKeeps, TriedKeeps, TypedKeeps,
     KeepAccountKeeps, RecordsKeep DEF Load
<1> QED  BY <1>1, <1>2, <1>3 DEF PageNext

(* A person who signs in to raccoon or loomy on their page is told the      *)
(* truth whatever loads and tabs interleave: success, on the page and to    *)
(* the manager, is in a file; one tab sends a spent scan again only when    *)
(* its answer was lost, and says a scan failed only after a call did.       *)
THEOREM PagesTellTheTruth == PageSpec => []PagesAreTrue
<1>1. PageInit => PageInv
  BY PageStart
<1>2. PageInv => PagesAreTrue
  BY DEF PageInv, SavedFirst, LoneScan, Unhitched, PagesAreTrue, ToldIsSaved, ScanIsSpentOnce,
         ScansSucceed
<1> QED  BY <1>1, <1>2, PageStep, PTL DEF PageSpec

----------------------------------------------------------------------------
(* All parts together.                                                     *)

ListingFlags ==
    /\ extended \in BOOLEAN /\ products \in BOOLEAN /\ silent \in BOOLEAN /\ astray \in BOOLEAN
    /\ listed \in 1..MaxMoves
    /\ current \in [Holders -> BOOLEAN]
    /\ pass \in [by : {"none", "tick", "button"}, holder : Holders, at : Nat, before : Nat]
    /\ told \subseteq Holders

LEMMA NoPassIs ==
  NoPass \in [by : {"none", "tick", "button"}, holder : Holders, at : Nat, before : Nat]
BY DEF NoPass, Holders

LEMMA FlagsStart == ASSUME DiscoveryInit PROVE ListingFlags
<1>1. /\ extended \in BOOLEAN /\ products \in BOOLEAN /\ silent \in BOOLEAN
      /\ told = Holders /\ pass = NoPass
  BY Zenon DEF DiscoveryInit
<1>2. astray \in BOOLEAN
  BY Zenon DEF DiscoveryInit
<1>3. current \in [Holders -> BOOLEAN]
  BY DEF DiscoveryInit
<1>4. listed \in 1..MaxMoves
  BY MovesAssumption DEF DiscoveryInit
<1> QED  BY <1>1, <1>2, <1>3, <1>4, NoPassIs DEF ListingFlags

LEMMA ConsultIsTyped ==
  ASSUME NEW s \in Holders, NEW answer, Consult(s, answer), current \in [Holders -> BOOLEAN]
  PROVE  current' \in [Holders -> BOOLEAN]
BY DEF Consult

(* A refresh begins, and ends in one of three ways.                        *)
LEMMA PassIsTyped ==
  ASSUME IInv, ListingFlags, NEW answer, NEW by \in {"tick", "button"}, NEW a \in Holders,
         \/ BeginPass(by, a) \/ EndPass(answer) \/ FailPass(answer) \/ LosePass
  PROVE  ListingFlags'
<1>0. "first" \in Holders /\ pass.holder \in Holders
  BY DEF Holders, IInv, Bounded
<1>1. CASE BeginPass(by, a)
  <2>1. kept[SlotOf("first")] \in Nat /\ listed \in Nat
    BY <1>0, SlotIsHolder DEF IInv, Bounded
  <2>2. pass' \in [by : {"none", "tick", "button"}, holder : Holders, at : Nat, before : Nat]
    BY <1>1, <2>1 DEF BeginPass
  <2> QED  BY <1>1, <2>2 DEF BeginPass, ListingFlags, plugin
<1>2. CASE EndPass(answer)
  <2>1. current' \in [Holders -> BOOLEAN]
    BY <1>0, <1>2, ConsultIsTyped DEF EndPass, Refill, ListingFlags
  <2>2. told' \subseteq Holders /\ astray' \in BOOLEAN
    BY <1>0, <1>2 DEF EndPass, ListingFlags
  <2> QED  BY <1>2, <2>1, <2>2, NoPassIs DEF EndPass, ListingFlags, plugin
<1>3. CASE FailPass(answer)
  <2>1. current' \in [Holders -> BOOLEAN]
    BY <1>0, <1>3, ConsultIsTyped DEF FailPass, Leaves, ListingFlags
  <2> QED  BY <1>3, <2>1, NoPassIs DEF FailPass, ListingFlags, plugin
<1>4. CASE LosePass
  <2>1. current' \in [Holders -> BOOLEAN]
    BY <1>0, <1>4, ConsultIsTyped DEF LosePass, Leaves, ListingFlags
  <2> QED  BY <1>4, <2>1, NoPassIs DEF LosePass, ListingFlags, plugin
<1> QED  BY <1>1, <1>2, <1>3, <1>4

LEMMA LookUpIsTyped ==
  ASSUME IInv, ListingFlags, NEW answer, NEW readable \in BOOLEAN, NEW a \in Holders,
         Enlist(a, answer, readable) \/ Wander(a, answer)
  PROVE  ListingFlags'
<1>0. SlotOf(a) \in Holders
  BY SlotIsHolder
<1>1. CASE Enlist(a, answer, readable)
  <2>1. current' \in [Holders -> BOOLEAN]
    BY <1>0, <1>1, ConsultIsTyped DEF Enlist, ListingFlags
  <2>2. told' \subseteq Holders /\ astray' \in BOOLEAN
    BY <1>1 DEF Enlist, ListingFlags
  <2> QED  BY <1>1, <2>1, <2>2 DEF Enlist, ListingFlags, plugin
<1>2. CASE Wander(a, answer)
  <2>1. current' \in [Holders -> BOOLEAN]
    BY <1>0, <1>2, ConsultIsTyped DEF Wander, ListingFlags
  <2> QED  BY <1>2, <2>1 DEF Wander, ListingFlags, plugin
<1> QED  BY <1>1, <1>2

LEMMA FlagsStay ==
  ASSUME IInv, ListingFlags, [DiscoveryNext]_discoveryVars PROVE ListingFlags'
<1>1. CASE Move
  BY <1>1, MovesAssumption DEF Move, ListingFlags, plugin
<1>2. ASSUME NEW s, Lapse(s) PROVE ListingFlags'
  BY <1>2 DEF Lapse, ListingFlags, plugin
<1>3. CASE UNCHANGED discoveryVars
  BY <1>3 DEF discoveryVars, ListingFlags
<1> QED  BY <1>1, <1>2, <1>3, PassIsTyped, LookUpIsTyped DEF DiscoveryNext, Holders

ListingsInv == CurrentInv /\ ListingFlags

LEMMA ListingsStart == DiscoveryInit => ListingsInv
BY StartsHolding, CurrentStart, FlagsStart DEF CurrentInv, ListingsInv

LEMMA ListingsStep == ListingsInv /\ [DiscoveryNext]_discoveryVars => ListingsInv'
BY StepIsCurrent, FlagsStay DEF CurrentInv, ListingsInv

LEMMA ListingsTyped == ListingsInv => DiscoveryTypeOK
<1> SUFFICES ASSUME ListingsInv PROVE DiscoveryTypeOK
  OBVIOUS
<1>1. listed \in 1..MaxMoves /\ MaxMoves \in Nat
  BY MovesAssumption DEF ListingsInv, ListingFlags
<1>2. \A n \in Nat : n <= listed => n \in Known
  BY <1>1 DEF Known
<1>3. kept \in [Holders -> Known] /\ shown \in [Holders -> Known] /\ owed \in [Holders -> Known]
  BY <1>2 DEF ListingsInv, CurrentInv, ListingIsKnown, IInv, Bounded
<1>4. pass.at \in Known /\ pass.before \in Known
  BY <1>2 DEF ListingsInv, CurrentInv, IInv, Bounded
<1>5. pass \in [by : {"none", "tick", "button"}, holder : Holders, at : Known, before : Known]
  BY <1>4 DEF ListingsInv, ListingFlags
<1> QED  BY <1>1, <1>3, <1>5
         DEF ListingsInv, CurrentInv, ListingFlags, ListingIsKnown, DiscoveryTypeOK

(* However many moves of the vendor and whatever refreshes and lookups do  *)
(* with the caches, what is cached and registered is a listing there was.  *)
THEOREM ListingsTypeCorrect == DiscoverySpec => []DiscoveryTypeOK
BY ListingsStart, ListingsStep, ListingsTyped, PTL DEF DiscoverySpec

TextsInv == ListingsInv /\ DsmlInv /\ HistoriesInv /\ PageInv

LEMMA TextsStart == TextsInit => TextsInv
BY ListingsStart, InitIsRead, InitIsMade, PageStart, Zenon DEF TextsInit, TextsInv

LEMMA TextsStep ==
  TextsInv /\ [TextsNext]_<<part, discoveryVars, dsmlVars, historiesVars, pageVars>> => TextsInv'
<1> SUFFICES ASSUME TextsInv,
                    [TextsNext]_<<part, discoveryVars, dsmlVars, historiesVars, pageVars>>
             PROVE  TextsInv'
  OBVIOUS
<1>1. /\ [DiscoveryNext]_discoveryVars /\ [DsmlNext]_dsmlVars
      /\ [HistoriesNext]_historiesVars /\ [PageNext]_pageVars
  BY Zenon DEF TextsNext
<1> QED  BY <1>1, ListingsStep, StepIsRead, StepIsMade, PageStep, Zenon DEF TextsInv

(* All that the plugins read keeps its type: listings, texts, histories    *)
(* and the pages, for any of the values of the constants.                  *)
THEOREM TextsTypeCorrect == TextsSpec => []TextsTypeOK
<1>1. TextsInv => TextsTypeOK
  BY ListingsTyped, InvIsTyped, InvIsTypedHistories, Zenon DEF TextsInv, TextsTypeOK, PageInv
<1> QED  BY <1>1, TextsStart, TextsStep, PTL DEF TextsSpec
==============================================================================
