-------------------------- MODULE BackgroundProofs --------------------------
(***************************************************************************)
(* For any accounts, runs and panels, whatever overlaps: what the          *)
(* catalogue's refresh and its loops, the check-ins, the sign-ins by code, *)
(* the schedulers and the renewals keep, and that all that goes on in the  *)
(* background stays typed.                                                 *)
(***************************************************************************)
EXTENDS MCBackground, LoginSessionsProofs, FiniteSetTheorems, SequenceTheorems, TLAPS

(* The catalogue. One refresh runs at a time and, unless the host missed   *)
(* something, what was discovered is served. The channel of a loop is held *)
(* by the scheduler, or by the one Stop that took it, or it is closed, and *)
(* it never returns from there.                                            *)

(* TypeOK, and a worker about to store or publish has found something.     *)
CatalogInv ==
    /\ TypeOK
    /\ \A w \in Workers : worker[w].pc \in {"put", "publish"} => worker[w].found \in Listings
    /\ asked.pc = "put" => asked.found \in Listings
    /\ asked.pc = "answer" => asked.found \in Listings \union {Builtin}

(* The host serves the listing, or is about to register it; what it will   *)
(* find when it is still looking or discovering is told by the cache then. *)
Served(listing) ==
    listing # Nothing =>
        /\ asked.pc = "idle" => registry = listing
        /\ asked.pc = "answer" => asked.found = listing

(* Where the listing that must be served is, at each step of a refresh:    *)
(* what it replaces has been dropped from the cache but not from the       *)
(* registry, and is asked for again only if the listing moved.             *)
Follows ==
    missed = FALSE =>
        /\ \A w \in Workers :
             /\ worker[w].pc = "reset" => cache = worker[w].previous
             /\ worker[w].pc \in {"discover", "put"} => cache = Nothing
             /\ worker[w].pc = "publish" => cache = worker[w].found
        /\ nudged = FALSE =>
             /\ (\A w \in Workers : worker[w].pc \in {"idle", "peek"}) => Served(cache)
             /\ \A w \in Workers :
                  /\ worker[w].pc \in {"reset", "discover", "put"} => Served(worker[w].previous)
                  /\ worker[w].pc = "publish" /\ ~Changed(w) => Served(worker[w].previous)

----------------------------------------------------------------------------

LEMMA InitFollows == Init => CatalogInv /\ Follows
<1> SUFFICES ASSUME Init PROVE CatalogInv /\ Follows
  OBVIOUS
<1> USE BoundsAssumption DEF Init, Free, Listings, Nothing, Builtin
<1>1. vendor \in Listings /\ failures \in Nat
  OBVIOUS
<1>2. CatalogInv
  BY <1>1 DEF CatalogInv, TypeOK
<1>3. Follows
  BY DEF Follows, Served
<1> QED  BY <1>2, <1>3

(* A failure is counted, and nothing else comes of it.                     *)
LEMMA FailCounts == ASSUME failures \in Nat, Fail PROVE failures' \in Nat
BY DEF Fail

LEMMA StepIsTyped ==
    ASSUME CatalogInv, [Next]_vars PROVE CatalogInv'
<1> USE BoundsAssumption DEF CatalogInv, TypeOK, Listings, Nothing, Builtin
<1>1. CASE UNCHANGED vars
  BY <1>1 DEF vars
<1>2. CASE VendorMoves
  BY <1>2 DEF VendorMoves
<1>3. CASE Expire
  BY <1>3 DEF Expire
<1>4. ASSUME NEW w \in Workers, Begin(w) PROVE CatalogInv'
  BY <1>4 DEF Begin
<1>5. ASSUME NEW w \in Workers, Peek(w) PROVE CatalogInv'
  BY ZenonT(30), <1>5 DEF Peek
<1>6. ASSUME NEW w \in Workers, Drop(w) PROVE CatalogInv'
  BY ZenonT(30), <1>6 DEF Drop, Reset
<1>7. ASSUME NEW w \in Workers, Discover(w) PROVE CatalogInv'
  BY <1>7, FailCounts DEF Discover, Listed, Release, Finish, Free
<1>8. ASSUME NEW w \in Workers, Store(w) PROVE CatalogInv'
  BY <1>8 DEF Store, Put
<1>9. ASSUME NEW w \in Workers, Publish(w) PROVE CatalogInv'
  BY ZenonT(30), <1>9, FailCounts DEF Publish, Finish, Free
<1>10. CASE Ask
  BY <1>10 DEF Ask
<1>11. CASE Look
  BY <1>11 DEF Look
<1>12. CASE DiscoverForAuth
  BY ZenonT(30), <1>12, FailCounts DEF DiscoverForAuth
<1>13. CASE StoreForAuth
  BY <1>13 DEF StoreForAuth, Put
<1>14. CASE Register
  BY <1>14 DEF Register, Free
<1> QED
  BY <1>1, <1>2, <1>3, <1>4, <1>5, <1>6, <1>7, <1>8, <1>9, <1>10, <1>11, <1>12, <1>13, <1>14
     DEF Next, Run, ForAuth

LEMMA StepFollows ==
    ASSUME CatalogInv, Follows, [Next]_vars PROVE Follows'
<1> USE BoundsAssumption DEF CatalogInv, TypeOK, Follows, Served, Listings, Nothing, Builtin
<1>1. CASE UNCHANGED vars
  BY <1>1 DEF vars, Changed
<1>2. CASE VendorMoves
  BY <1>2 DEF VendorMoves, Changed
<1>3. CASE Expire
  BY <1>3 DEF Expire, Changed
<1>4. ASSUME NEW w \in Workers, Begin(w) PROVE Follows'
  BY <1>4 DEF Begin, Changed
<1>5. ASSUME NEW w \in Workers, Peek(w) PROVE Follows'
  BY <1>5 DEF Peek, Changed
<1>6. ASSUME NEW w \in Workers, Drop(w) PROVE Follows'
  BY <1>6 DEF Drop, Reset, Changed
<1>7. ASSUME NEW w \in Workers, Discover(w) PROVE Follows'
  <2>1. worker[w].pc = "discover" /\ UNCHANGED <<cache, registry, nudged, missed, asked>>
    BY <1>7 DEF Discover
  <2>2. CASE worker' = [worker EXCEPT ![w].pc = "put", ![w].found = Listed(w)] /\ UNCHANGED lock
    BY <2>1, <2>2 DEF Changed
  <2>3. CASE lock' = FALSE /\ worker' = [worker EXCEPT ![w] = Free]
    BY <2>1, <2>3 DEF Free, Changed
  <2> QED  BY <1>7, <2>2, <2>3 DEF Discover, Release, Finish
<1>8. ASSUME NEW w \in Workers, Store(w) PROVE Follows'
  BY <1>8 DEF Store, Put, Changed
<1>9. ASSUME NEW w \in Workers, Publish(w) PROVE Follows'
  BY <1>9 DEF Publish, Changed, Finish, Free
<1>10. CASE Ask
  BY <1>10 DEF Ask, Changed
<1>11. CASE Look
  BY <1>11 DEF Look, Changed
<1>12. CASE DiscoverForAuth
  BY <1>12 DEF DiscoverForAuth, Changed
<1>13. CASE StoreForAuth
  BY <1>13 DEF StoreForAuth, Put, Changed
<1>14. CASE Register
  BY <1>14 DEF Register, Free, Changed
<1> QED
  BY <1>1, <1>2, <1>3, <1>4, <1>5, <1>6, <1>7, <1>8, <1>9, <1>10, <1>11, <1>12, <1>13, <1>14
     DEF Next, Run, ForAuth

----------------------------------------------------------------------------

(* Type correctness, and refreshLock is held exactly while one worker is   *)
(* inside catalog.Run, whatever fails.                                     *)
THEOREM OneRefreshAtATime == Spec => []TypeOK
<1>1. Init => CatalogInv
  BY InitFollows
<1>2. CatalogInv /\ [Next]_vars => CatalogInv'
  BY StepIsTyped
<1>3. CatalogInv => TypeOK
  BY DEF CatalogInv
<1> QED  BY <1>1, <1>2, <1>3, PTL DEF Spec

(* Discoveries may fail at any time, model.for_auth may be at work during  *)
(* a refresh and the cache age and be dropped: what the cache holds is     *)
(* what the registry serves, but for the exceptions that the property      *)
(* names, until the host is next told to ask.                              *)
THEOREM WhatIsFoundIsServed == Spec => []SettledMeansPublished
<1>1. Init => CatalogInv /\ Follows
  BY InitFollows
<1>2. CatalogInv /\ Follows /\ [Next]_vars => CatalogInv' /\ Follows'
  BY StepIsTyped, StepFollows
<1>3. CatalogInv /\ Follows => SettledMeansPublished
  BY DEF CatalogInv, TypeOK, Follows, Served, SettledMeansPublished
<1> QED  BY <1>1, <1>2, <1>3, PTL DEF Spec

----------------------------------------------------------------------------
(* The loops. A loop that is named has been born.                          *)
KnownLoop(l) == l # NoLoop => l \in Loops /\ loop[l] # "unborn"

LoopsInv ==
    /\ SchedulerTypeOK
    /\ \A l \in Live : l = cancel \/ l \in closed \/ \E h \in Hosts : host[h].taken = l
    /\ \A l \in closed : KnownLoop(l)
    /\ cancel \notin closed
    /\ \A h \in Hosts :
          /\ KnownLoop(host[h].taken)
          /\ host[h].taken # NoLoop => host[h].pc = "close" /\ host[h].taken # cancel
          /\ host[h].taken \notin closed
    /\ \A g, h \in Hosts : host[g].taken = host[h].taken => g = h \/ host[g].taken = NoLoop

LEMMA LoopsStart == SchedulerInit => LoopsInv
<1> SUFFICES ASSUME SchedulerInit PROVE LoopsInv
  OBVIOUS
<1> USE SettingsAssumption, LoopsAssumption DEF SchedulerInit, HostIdle, At
<1>1. SchedulerTypeOK
  BY DEF SchedulerTypeOK, Live
<1> QED  BY <1>1 DEF LoopsInv, Live, KnownLoop

LEMMA LoopsStep == ASSUME LoopsInv, [SchedulerNext]_schedulerVars PROVE LoopsInv'
<1> USE LoopsAssumption DEF LoopsInv, SchedulerTypeOK, Live, KnownLoop, Goes, At
<1>1. CASE UNCHANGED schedulerVars
  BY <1>1 DEF schedulerVars
<1>2. ASSUME NEW h \in Hosts, NEW setting \in Settings, Configure(h, setting) PROVE LoopsInv'
  <2>1. /\ \/ Goes(h, "start", NoLoop, "idle")
           \/ Goes(h, "stop", NoLoop, "start")
        /\ host[h].taken = NoLoop
    BY <1>2 DEF Configure, SetInterval
  <2>2. interval' \in Settings /\ quiet' \in BOOLEAN /\ UNCHANGED <<cancel, closed, loop, period>>
    BY <1>2 DEF Configure
  <2> QED  BY <2>1, <2>2, SMTT(60)
<1>3. ASSUME NEW h \in Hosts, Quiesce(h) PROVE LoopsInv'
  BY <1>3 DEF Quiesce
<1>4. ASSUME NEW h \in Hosts, Stop(h) PROVE LoopsInv'
  BY <1>4 DEF Stop, Disarm
<1>5. ASSUME NEW h \in Hosts, Close(h) PROVE LoopsInv'
  BY <1>5 DEF Close
<1>6. ASSUME NEW h \in Hosts, Start(h) PROVE LoopsInv'
  <2>1. CASE UNCHANGED <<cancel, loop, period>>
    BY <1>6, <2>1 DEF Start
  <2>2. ASSUME NEW l \in Loops, loop[l] = "unborn", cancel = NoLoop,
               cancel' = l, Launch(l), period' = [period EXCEPT ![l] = interval]
        PROVE  LoopsInv'
    BY <1>6, <2>2 DEF Start, Launch
  <2> QED  BY <1>6, <2>1, <2>2 DEF Start, MayStart
<1>7. ASSUME NEW l \in Loops, Tick(l) PROVE LoopsInv'
  BY <1>7 DEF Tick
<1>8. ASSUME NEW l \in Loops, Refreshed(l) PROVE LoopsInv'
  BY <1>8 DEF Refreshed
<1>9. ASSUME NEW l \in Loops, End(l) PROVE LoopsInv'
  BY <1>9 DEF End, Ends
<1> QED
  BY <1>1, <1>2, <1>3, <1>4, <1>5, <1>6, <1>7, <1>8, <1>9, HostsAssumption DEF SchedulerNext

LEMMA LoopsAlways == SchedulerSpec => []LoopsInv
BY LoopsStart, LoopsStep, PTL DEF SchedulerSpec

(* However configurations interleave, all loops but the armed one have     *)
(* been told to end or are just being told: none is forgotten.             *)
THEOREM NoLoopIsForgotten == SchedulerSpec => []OneLoopArmed
<1>1. LoopsInv => OneLoopArmed
  BY LoopsAssumption DEF LoopsInv, OneLoopArmed, Taken, Live
<1> QED  BY LoopsAlways, <1>1, PTL

(* No Stop closes a channel another one has closed or is about to.         *)
THEOREM NoChannelIsClosedTwice == SchedulerSpec => []ClosedOnce
<1>1. LoopsInv => ClosedOnce
  BY LoopsAssumption DEF LoopsInv, SchedulerTypeOK, ClosedOnce, Taken, Live
<1> QED  BY LoopsAlways, <1>1, PTL
----------------------------------------------------------------------------
(* What is owed while configurations are under way: a loop of an old       *)
(* setting is about to be stopped, a missing one about to be started; a    *)
(* Stop that starts nothing afterwards is that of a quiesce.               *)
Starting(h) ==
    \/ host[h].pc = "start"
    \/ host[h].pc \in {"stop", "close"} /\ host[h].after = "start"

StopIsOwed ==
    cancel # NoLoop =>
        \/ interval > 0 /\ period[cancel] = interval
        \/ \E h \in Hosts : host[h].pc = "stop"

StartIsOwed ==
    interval > 0 /\ quiet = FALSE => cancel # NoLoop \/ \E h \in Hosts : Starting(h)

QuiescesAreKnown ==
    \A h \in Hosts : host[h].pc \in {"stop", "close"} /\ host[h].after = "idle" => quiet = TRUE

Owed == StopIsOwed /\ StartIsOwed /\ QuiescesAreKnown

LEMMA OwedInit == SchedulerInit => Owed
  BY DEF SchedulerInit, HostIdle, At, Owed, StopIsOwed, StartIsOwed, QuiescesAreKnown

(* Where a command takes its host thread.                                  *)
LEMMA HostGoes ==
    ASSUME SchedulerTypeOK, NEW h \in Hosts, NEW pc, NEW closing, NEW after,
           Goes(h, pc, closing, after)
    PROVE  \A g \in Hosts : host'[g] = IF g = h THEN At(pc, closing, after) ELSE host[g]
  BY DEF SchedulerTypeOK, Goes

LEMMA OwedStep == ASSUME SchedulerTypeOK, Owed, [SchedulerNext]_schedulerVars PROVE Owed'
<1> USE DEF Owed, At
<1>1. ASSUME NEW h \in Hosts, NEW setting \in Settings, Configure(h, setting) PROVE Owed'
  <2>1. /\ UNCHANGED <<cancel, period>> /\ interval' = setting /\ host[h].pc = "idle"
        /\ quiet' = (quiet /\ \E g \in Hosts : host[g].pc # "idle")
    BY <1>1 DEF Configure
  <2>0. ASSUME NEW g \in Hosts, host[g].pc \in {"stop", "close"}, host[g].after = "idle"
        PROVE  quiet' = TRUE
    <3>1. quiet = TRUE /\ host[g].pc # "idle"
      BY <2>0 DEF QuiescesAreKnown
    <3> QED
      BY <2>1, <3>1
  <2>2. CASE interval = setting /\ Goes(h, "start", NoLoop, "idle")
    <3>1. \A g \in Hosts : host'[g] = IF g = h THEN At("start", NoLoop, "idle") ELSE host[g]
      BY <2>2, HostGoes
    <3>2. Starting(h)' /\ interval' = interval
      BY <2>1, <2>2, <3>1 DEF Starting
    <3>3. StopIsOwed'
      BY <2>1, <3>1, <3>2 DEF StopIsOwed
    <3>4. QuiescesAreKnown'
      <4> SUFFICES ASSUME NEW g \in Hosts,
                          host'[g].pc \in {"stop", "close"}, host'[g].after = "idle"
                   PROVE  quiet' = TRUE
        BY DEF QuiescesAreKnown
      <4>1. g # h /\ host'[g] = host[g]
        BY <3>1
      <4> QED
        BY <2>0, <4>1
    <3> QED
      BY <3>2, <3>3, <3>4 DEF StartIsOwed
  <2>3. CASE Goes(h, "stop", NoLoop, "start")
    <3>1. \A g \in Hosts : host'[g] = IF g = h THEN At("stop", NoLoop, "start") ELSE host[g]
      BY <2>3, HostGoes
    <3>2. Starting(h)' /\ host'[h].pc = "stop"
      BY <3>1 DEF Starting
    <3>3. QuiescesAreKnown'
      <4> SUFFICES ASSUME NEW g \in Hosts,
                          host'[g].pc \in {"stop", "close"}, host'[g].after = "idle"
                   PROVE  quiet' = TRUE
        BY DEF QuiescesAreKnown
      <4>1. g # h /\ host'[g] = host[g]
        BY <3>1
      <4> QED
        BY <2>0, <4>1
    <3> QED
      BY <3>2, <3>3 DEF StopIsOwed, StartIsOwed
  <2> QED
    BY <1>1, <2>2, <2>3 DEF Configure, SetInterval
<1>2. ASSUME NEW h \in Hosts, Quiesce(h) PROVE Owed'
  <2>1. /\ quiet' = TRUE
        /\ \A g \in Hosts : host'[g] = IF g = h THEN At("stop", NoLoop, "idle") ELSE host[g]
    BY <1>2, HostGoes DEF Quiesce
  <2> QED
    BY <2>1 DEF StopIsOwed, StartIsOwed, QuiescesAreKnown
<1>3. ASSUME NEW h \in Hosts, Stop(h) PROVE Owed'
  <2>1. /\ cancel' = NoLoop /\ UNCHANGED <<interval, quiet>> /\ host[h].pc = "stop"
        /\ \A g \in Hosts :
              host'[g] = IF g = h THEN At("close", cancel, host[h].after) ELSE host[g]
    BY <1>3, HostGoes DEF Stop, Disarm
  <2>2. host[h].after \in {"idle", "start"}
    BY DEF SchedulerTypeOK
  <2>3. QuiescesAreKnown'
    BY <2>1 DEF QuiescesAreKnown
  <2>4. quiet = FALSE => Starting(h)'
    BY <2>1, <2>2 DEF QuiescesAreKnown, Starting
  <2> QED
    BY <2>1, <2>3, <2>4 DEF StopIsOwed, StartIsOwed
<1>4. ASSUME NEW h \in Hosts, Close(h) PROVE Owed'
  <2>1. /\ UNCHANGED <<interval, cancel, period, quiet>> /\ host[h].pc = "close"
        /\ \A g \in Hosts :
              host'[g] = IF g = h THEN At(host[h].after, NoLoop, "idle") ELSE host[g]
    BY <1>4, HostGoes DEF Close
  <2>2. host[h].after \in {"idle", "start"}
    BY DEF SchedulerTypeOK
  <2>3. \A g \in Hosts : Starting(g) => Starting(g)'
    BY <2>1, <2>2 DEF Starting
  <2> QED
    BY <2>1, <2>2, <2>3 DEF StopIsOwed, StartIsOwed, QuiescesAreKnown
<1>5. ASSUME NEW h \in Hosts, Start(h) PROVE Owed'
  <2>1. /\ UNCHANGED <<interval, quiet>> /\ host[h].pc = "start"
        /\ \A g \in Hosts : host'[g] = IF g = h THEN At("idle", NoLoop, "idle") ELSE host[g]
    BY <1>5, HostGoes DEF Start
  <2>2. CASE ~MayStart /\ UNCHANGED <<cancel, period>>
    BY <2>1, <2>2 DEF MayStart, StopIsOwed, StartIsOwed, QuiescesAreKnown
  <2>3. ASSUME NEW l \in Loops, MayStart, cancel' = l,
               period' = [period EXCEPT ![l] = interval]
        PROVE  Owed'
    BY LoopsAssumption, <2>1, <2>3
       DEF MayStart, StopIsOwed, StartIsOwed, QuiescesAreKnown, SchedulerTypeOK
  <2> QED
    BY <1>5, <2>2, <2>3 DEF Start
<1>6. ASSUME UNCHANGED <<interval, cancel, period, host, quiet>> PROVE Owed'
  BY <1>6 DEF StopIsOwed, StartIsOwed, QuiescesAreKnown, Starting
<1> QED
  BY <1>1, <1>2, <1>3, <1>4, <1>5, <1>6, HostsAssumption
     DEF SchedulerNext, Tick, Refreshed, End, schedulerVars

(* When the host's threads are at rest, the loop that runs has the period  *)
(* of the setting, and there is one if the setting asks for one.           *)
THEOREM SettingGetsItsLoop == SchedulerSpec => []SettingIsArmed
<1>1. LoopsInv => SchedulerTypeOK
  BY DEF LoopsInv
<1>2. SchedulerTypeOK /\ Owed => SettingIsArmed
  BY DEF SchedulerTypeOK, Owed, StopIsOwed, StartIsOwed, Starting, SettingIsArmed
<1> QED  BY LoopsAlways, <1>1, <1>2, OwedInit, OwedStep, PTL DEF SchedulerSpec

----------------------------------------------------------------------------
(* The check-ins.                                                          *)

RequestOf ==
    [at : {"unasked", "look", "claim", "answered"}, todo : SUBSET Rewards(provider),
     got : SUBSET Outcomes, tries : 0..3, before : Sightings]

(* What a request says of itself is so: it has something left to claim, or *)
(* has come to a verdict, and its verdicts are of what was taken.          *)
Honest(q, a) ==
    /\ q.at = "claim" => q.todo # {}
    /\ q.at = "answered" => q.got # {}
    /\ q.at = "look" => q.got = {}
    /\ q.before = "taken" => Holds(a)
    /\ "claimed" \in q.got => Holds(a)
    /\ "already-claimed" \in q.got => Holds(a) \/ provider = "qoder"
    /\ provider = "codearts" => q.got \subseteq Kinds

HubIsTyped ==
    /\ provider \in Providers
    /\ offered \subseteq Everything /\ taken \subseteq offered
    /\ run \in [Runs -> {"idle", "running", "ended"}]
    /\ asking \in [Runs -> Accounts \union {NoAccount}]
    /\ call \in [Runs -> [Accounts -> RequestOf]]
    /\ row \in [Runs -> [Accounts -> Kinds \union {"none"}]]

RequestsAreHonest == \A r \in Runs, a \in Accounts : Honest(call[r][a], a)

ClaimsInv == HubIsTyped /\ RequestsAreHonest /\ SuccessWasTaken

LEMMA RewardsAre ==
    /\ Rewards(provider) # {}
    /\ Rewards(provider) \in {{1}, {1, 2}}
    /\ provider \notin {"qoder", "atomcode"} => Rewards(provider) = {1}
  BY DEF Rewards

(* What the plugins' tables say.                                           *)
LEMMA LooksAre ==
    ASSUME NEW p \in Claimers, NEW s \in Sightings
    PROVE  /\ LookVerdict[p][s] \in (Outcomes \intersect Kinds) \union {""}
           /\ LookVerdict[p][s] # "claimed"
           /\ LookVerdict[p][s] = "already-claimed" => s = "taken" \/ p = "qoder"
           /\ LookVerdict[p][s] = "" /\ p = "qoder" => s = "open"
<1>1. \/ /\ p # "qoder"
         /\ \/ LookVerdict[p] = GoesOn \/ LookVerdict[p] = LooksClosely
            \/ LookVerdict[p] = RaccoonLook \/ LookVerdict[p] = TraeLook
      \/ p = "qoder" /\ LookVerdict[p] = QoderLook
  BY DEF LookVerdict, Claimers
<1>2. s \in {"unread", "shut", "open", "taken"}
  BY DEF Sightings
<1>3. DOMAIN GoesOn = Sightings /\ GoesOn[s] = ""
  BY DEF GoesOn
<1>4. DOMAIN LooksClosely = Sightings
      /\ LooksClosely[s] = CASE s = "unread" -> "failed" [] s = "shut" -> "inactive"
                              [] s = "taken" -> "already-claimed" [] OTHER -> ""
  BY <1>2, <1>3 DEF LooksClosely
<1>5. RaccoonLook[s] = IF s = "taken" THEN "already-claimed" ELSE ""
  BY <1>3 DEF RaccoonLook
<1>6. TraeLook[s] = IF s = "unread" THEN "" ELSE LooksClosely[s]
  BY <1>4 DEF TraeLook
<1>7. QoderLook[s] = IF s = "shut" THEN "already-claimed" ELSE LooksClosely[s]
  BY <1>4 DEF QoderLook
<1> QED
  BY <1>1, <1>2, <1>3, <1>4, <1>5, <1>6, <1>7 DEF Outcomes, Kinds

LEMMA OutcomesAre ==
    ASSUME NEW p \in Claimers, NEW answer \in ClaimAnswers
    PROVE  /\ OutcomeOf[p][answer] \in Outcomes
           /\ OutcomeOf[p][answer] = "claimed" => answer \in {"granted", "again"}
           /\ OutcomeOf[p][answer] = "already-claimed" => answer = "again"
           /\ OutcomeOf[p][answer] = "claimed"
              /\ p \in {"codebuddy", "loomy", "minimax", "raccoon"} => answer = "granted"
           /\ p = "codearts" => OutcomeOf[p][answer] \in Kinds
<1>1. \/ OutcomeOf[p] = Untold /\ p \notin {"codebuddy", "loomy", "minimax", "raccoon"}
      \/ OutcomeOf[p] \in {Told, CodeBuddyTold, AtomCodeTold} /\ p # "codearts"
  BY DEF OutcomeOf, Claimers
<1>2. answer \in {"granted", "again", "refused", "dead", "lost"}
  BY DEF ClaimAnswers
<1>3. Told[answer] = CASE answer = "granted" -> "claimed" [] answer = "again" -> "already-claimed"
                       [] OTHER -> "failed"
  BY <1>2 DEF Told
<1>4. Untold[answer] = IF answer = "again" THEN "claimed" ELSE Told[answer]
  BY <1>2 DEF Untold, Told
<1>5. CodeBuddyTold[answer] = IF answer = "refused" THEN "inactive" ELSE Told[answer]
  BY <1>2 DEF CodeBuddyTold, Told
<1>6. AtomCodeTold[answer] = CASE answer = "refused" -> "refused" [] answer = "dead" -> "auth-required"
                               [] OTHER -> Told[answer]
  BY <1>2 DEF AtomCodeTold, Told
<1> QED
  BY <1>1, <1>2, <1>3, <1>4, <1>5, <1>6 DEF Outcomes, Kinds

LEMMA TogetherIs ==
    ASSUME NEW got \in SUBSET Outcomes, got # {}
    PROVE  /\ Together(got) \in got
           /\ Together(got) = "claimed" => "claimed" \in got
           /\ Together(got) = "already-claimed" => "already-claimed" \in got
           /\ Normalize(Together(got)) \in Kinds
           /\ Normalize(Together(got)) = "claimed" => "claimed" \in got
           /\ Normalize(Together(got)) = "already-claimed" => "already-claimed" \in got
           /\ NoticeKind(Together(got)) # "already-claimed"
           /\ NoticeKind(Together(got)) = "claimed" => "claimed" \in got
  BY DEF Together, Normalize, NoticeKind, Outcomes, Kinds

LEMMA SightIs ==
    ASSUME NEW a \in Accounts
    PROVE  /\ Sight(a) \in Sightings
           /\ Sight(a) = "taken" => Holds(a)
           /\ Sight(a) = "open" => Open(a) # {}
           /\ Open(a) \subseteq Rewards(provider)
  BY DEF Sight, Sightings, Open

LEMMA StatusPageIs ==
    ASSUME NEW before \in Sightings, NEW notice \in Kinds, NEW after \in Sightings,
           notice # "already-claimed"
    PROVE  /\ StatusPageKind(before, notice, after) \in Kinds
           /\ StatusPageKind(before, notice, after) = "claimed" => notice = "claimed" \/ after = "taken"
           /\ StatusPageKind(before, notice, after) = "already-claimed"
                => before = "taken" \/ after = "taken"
  BY DEF StatusPageKind, Sightings, Kinds

----------------------------------------------------------------------------

LEMMA ClaimsInit == CheckInInit => ClaimsInv
<1> SUFFICES ASSUME CheckInInit PROVE ClaimsInv
  OBVIOUS
<1>1. Unasked \in RequestOf
  BY DEF Unasked, RequestOf, Sightings
<1>2. HubIsTyped
  BY <1>1 DEF CheckInInit, HubIsTyped, Everything, Kinds
<1>3. \A a \in Accounts : Honest(Unasked, a)
  BY DEF Unasked, Honest, Kinds
<1> QED
  BY <1>2, <1>3 DEF CheckInInit, ClaimsInv, RequestsAreHonest, SuccessWasTaken

(* A request may go on as it likes, as long as it stays honest and what was *)
(* taken stays taken.                                                      *)
LEMMA AdvanceIsHonest ==
    ASSUME ClaimsInv, NEW r \in Runs, NEW a \in Accounts, NEW step \in RequestOf,
           Advance(r, a, step), Honest(step, a)',
           taken \subseteq taken', taken' \subseteq offered,
           UNCHANGED <<provider, offered, run, row>>,
           asking' \in [Runs -> Accounts \union {NoAccount}]
    PROVE  ClaimsInv'
<1>1. \A b \in Accounts : Holds(b) => Holds(b)'
  BY DEF Holds
<1>2. HubIsTyped'
  BY DEF ClaimsInv, HubIsTyped, Advance, Everything, RequestOf
<1>3. \A s \in Runs, b \in Accounts : call'[s][b] = IF s = r /\ b = a THEN step ELSE call[s][b]
  BY DEF ClaimsInv, HubIsTyped, Advance
<1>4. ASSUME NEW s \in Runs, NEW b \in Accounts PROVE Honest(call[s][b], b)'
  <2>1. CASE s = r /\ b = a
    BY <1>3, <2>1
  <2>2. CASE ~(s = r /\ b = a)
    <3>1. Honest(call[s][b], b) /\ call'[s][b] = call[s][b]
      BY <1>3, <2>2 DEF ClaimsInv, RequestsAreHonest
    <3> QED  BY <1>1, <3>1 DEF Honest
  <2> QED  BY <2>1, <2>2
<1>5. SuccessWasTaken'
  BY <1>1 DEF ClaimsInv, SuccessWasTaken
<1> QED  BY <1>2, <1>4, <1>5 DEF ClaimsInv, RequestsAreHonest

(* A row is what the run says at once of an account, and it was taken.     *)
LEMMA SaysIsTrue ==
    ASSUME ClaimsInv, NEW r \in Runs, NEW a \in Accounts, NEW kind \in Kinds, Says(r, a, kind),
           kind = "claimed" => Holds(a),
           kind = "already-claimed" => Holds(a) \/ provider = "qoder"
    PROVE  ClaimsInv'
<1>1. UNCHANGED <<provider, offered, taken, run, call>> /\ row' = [row EXCEPT ![r][a] = kind]
      /\ asking' = [asking EXCEPT ![r] = NoAccount]
  BY DEF Says, vendorVars
<1>2. HubIsTyped'
  BY <1>1 DEF ClaimsInv, HubIsTyped, Everything, RequestOf
<1>3. RequestsAreHonest'
  BY <1>1 DEF ClaimsInv, RequestsAreHonest, Honest, Holds
<1>4. SuccessWasTaken'
  BY <1>1 DEF ClaimsInv, HubIsTyped, SuccessWasTaken, Holds
<1> QED  BY <1>2, <1>3, <1>4 DEF ClaimsInv

LEMMA RunKeepsClaims ==
    ASSUME ClaimsInv, NEW r \in Runs, BeginRun(r) \/ RunOn(r)
    PROVE  ClaimsInv'
<1>1. CASE BeginRun(r) \/ EndRun(r)
  <2>1. UNCHANGED <<provider, offered, taken, asking, call, row>>
        /\ run' \in [Runs -> {"idle", "running", "ended"}]
    BY <1>1 DEF BeginRun, EndRun, vendorVars, ClaimsInv, HubIsTyped
  <2> QED
    BY <2>1 DEF ClaimsInv, HubIsTyped, Everything, RequestOf, RequestsAreHonest, Honest, Holds,
                SuccessWasTaken
<1>2. ASSUME NEW a \in Accounts, AskFor(r, a) PROVE ClaimsInv'
  <2>1. PICK sight \in {"unread", Sight(a)} :
          Advance(r, a, [Unasked EXCEPT !.at = "look", !.before = sight])
    BY <1>2 DEF AskFor
  <2>2. UNCHANGED <<provider, offered, taken, run, row>>
        /\ asking' \in [Runs -> Accounts \union {NoAccount}]
    BY <1>2 DEF AskFor, vendorVars, ClaimsInv, HubIsTyped
  <2>3. sight \in Sightings /\ (sight = "taken" => Holds(a))
    BY <2>1, SightIs DEF Sightings
  <2>0. PICK step : step = [Unasked EXCEPT !.at = "look", !.before = sight]
    OBVIOUS
  <2>4. step \in RequestOf /\ step.at = "look" /\ step.got = {} /\ step.before = sight
    <3>1. step = [at |-> "look", todo |-> {}, got |-> {}, tries |-> 0, before |-> sight]
      BY <2>0 DEF Unasked
    <3>2. 0 \in 0..3
      OBVIOUS
    <3> QED  BY <2>3, <3>1, <3>2 DEF RequestOf
  <2>5. Honest(step, a)'
    BY <2>2, <2>3, <2>4 DEF Honest, Holds
  <2>6. Advance(r, a, step) /\ taken' = taken /\ taken \subseteq offered
    BY <1>2, <2>0, <2>1 DEF AskFor, vendorVars, ClaimsInv, HubIsTyped
  <2> QED  BY <2>2, <2>4, <2>5, <2>6, AdvanceIsHonest
<1>3. ASSUME NEW a \in Accounts, GiveUp(r, a) PROVE ClaimsInv'
  BY <1>3, SaysIsTrue DEF GiveUp, Kinds
<1>4. ASSUME NEW a \in Accounts, Report(r, a) PROVE ClaimsInv'
  <2> DEFINE q == call[r][a]
             outcome == Together(q.got)
             lagging == IF Holds(a) THEN {"open"} ELSE {}
  <2>1. q \in RequestOf /\ Honest(q, a) /\ q.at = "answered"
    BY <1>4 DEF Report, ClaimsInv, HubIsTyped, RequestsAreHonest
  <2>2. q.got \in SUBSET Outcomes /\ q.got # {} /\ q.before \in Sightings
    BY <2>1 DEF RequestOf, Honest
  <2>3. CASE provider = "codearts"
    <3>1. PICK after \in {"unread", Sight(a)} \union lagging :
            Says(r, a, StatusPageKind(q.before, NoticeKind(outcome), after))
      BY <1>4, <2>3 DEF Report
    <3>2. after \in Sightings /\ (after = "taken" => Holds(a))
      BY <3>1, SightIs DEF Sightings
    <3>3. NoticeKind(outcome) \in Kinds /\ NoticeKind(outcome) # "already-claimed"
          /\ (NoticeKind(outcome) = "claimed" => Holds(a))
      <4>1. outcome \in q.got /\ (outcome = "claimed" => "claimed" \in q.got)
        BY <2>2, TogetherIs
      <4>2. outcome \in Kinds
        BY <2>1, <2>3, <4>1 DEF Honest
      <4> QED  BY <2>1, <4>1, <4>2 DEF Honest, NoticeKind, Kinds
    <3> QED
      BY <2>1, <2>2, <3>1, <3>2, <3>3, StatusPageIs, SaysIsTrue DEF Honest
  <2>4. CASE provider # "codearts"
    <3>1. Says(r, a, Normalize(outcome))
      BY <1>4, <2>4 DEF Report
    <3> QED  BY <2>1, <2>2, <3>1, TogetherIs, SaysIsTrue DEF Honest
  <2> QED  BY <2>3, <2>4
<1> QED  BY <1>1, <1>2, <1>3, <1>4 DEF RunOn

LEMMA LookKeepsClaims ==
    ASSUME ClaimsInv, NEW r \in Runs, NEW a \in Accounts, LookFirst(r, a)
    PROVE  ClaimsInv'
<1> DEFINE q == call[r][a]
<1>1. PICK sight \in {"unread", Sight(a)} :
        LET word == LookVerdict[provider][sight]
            todo == IF provider = "qoder" THEN Open(a) ELSE Rewards(provider)
        IN  Advance(r, a, IF word = ""
                          THEN [q EXCEPT !.at = "claim", !.todo = todo]
                          ELSE [q EXCEPT !.at = "answered", !.got = {word}])
  BY DEF LookFirst
<1>2. /\ UNCHANGED <<provider, offered, taken, run, asking, row>>
      /\ asking' \in [Runs -> Accounts \union {NoAccount}] /\ taken \subseteq offered
      /\ provider \in Claimers
  BY ProvidersAssumption DEF LookFirst, vendorVars, ClaimsInv, HubIsTyped
<1>3. q \in RequestOf /\ Honest(q, a)
  BY DEF ClaimsInv, HubIsTyped, RequestsAreHonest
<1>4. sight \in Sightings /\ (sight = "taken" => Holds(a)) /\ (sight = "open" => Open(a) # {})
      /\ Open(a) \subseteq Rewards(provider)
  BY <1>1, SightIs DEF Sightings
<1>5. CASE LookVerdict[provider][sight] = ""
  <2>1. PICK todo : todo = IF provider = "qoder" THEN Open(a) ELSE Rewards(provider)
    OBVIOUS
  <2>2. todo \in SUBSET Rewards(provider) /\ todo # {}
    BY ZenonT(30), <1>2, <1>4, <1>5, <2>1, LooksAre, RewardsAre
  <2>3. PICK step : step = [q EXCEPT !.at = "claim", !.todo = todo]
    OBVIOUS
  <2>4. /\ step \in RequestOf /\ step.at = "claim" /\ step.todo = todo
        /\ step.got = q.got /\ step.before = q.before
    BY <1>3, <2>2, <2>3 DEF RequestOf
  <2>5. Honest(step, a)'
    BY <1>2, <1>3, <2>2, <2>4 DEF Honest, Holds
  <2>6. Advance(r, a, step)
    BY <1>1, <1>5, <2>1, <2>3
  <2> QED  BY <1>2, <2>4, <2>5, <2>6, AdvanceIsHonest
<1>6. CASE LookVerdict[provider][sight] # ""
  <2>1. PICK word : word = LookVerdict[provider][sight]
    OBVIOUS
  <2>2. word \in Outcomes \intersect Kinds /\ word # "claimed"
        /\ (word = "already-claimed" => Holds(a) \/ provider = "qoder")
    BY <1>2, <1>4, <1>6, <2>1, LooksAre
  <2>3. PICK step : step = [q EXCEPT !.at = "answered", !.got = {word}]
    OBVIOUS
  <2>4. /\ step \in RequestOf /\ step.at = "answered" /\ step.got = {word}
        /\ step.before = q.before
    BY <1>3, <2>2, <2>3 DEF RequestOf
  <2>5. Honest(step, a)'
    BY <1>2, <1>3, <2>2, <2>4 DEF Honest, Holds
  <2>6. Advance(r, a, step)
    BY <1>1, <1>6, <2>1, <2>3
  <2> QED  BY <1>2, <2>4, <2>5, <2>6, AdvanceIsHonest
<1> QED  BY <1>5, <1>6

(* A claim takes what the vendor grants, and says no more than that.       *)
LEMMA ClaimKeepsClaims ==
    ASSUME ClaimsInv, NEW r \in Runs, NEW a \in Accounts, Claim(r, a)
    PROVE  ClaimsInv'
<1> DEFINE q == call[r][a]
<1>1. PICK w \in q.todo, answer \in ClaimAnswers :
        /\ VendorAnswers(a, w, answer)
        /\ IF AsksAgain(a, answer, q.tries)
           THEN Advance(r, a, [q EXCEPT !.tries = @ + 1])
           ELSE LET outcome == OutcomeOf[provider][answer]
                    rest == q.todo \ {w}
                IN  Advance(r, a, [q EXCEPT
                        !.todo = rest, !.got = @ \union {outcome},
                        !.at = IF rest = {} \/ Stops(outcome) THEN "answered" ELSE "claim"])
  BY DEF Claim
<1>2. /\ UNCHANGED <<provider, offered, run, asking, row>>
      /\ asking' \in [Runs -> Accounts \union {NoAccount}]
      /\ provider \in Claimers /\ q.at = "claim"
  BY ProvidersAssumption DEF Claim, ClaimsInv, HubIsTyped
<1>3. q \in RequestOf /\ Honest(q, a) /\ taken \subseteq offered
  BY DEF ClaimsInv, HubIsTyped, RequestsAreHonest
<1>4. w \in Rewards(provider)
  BY <1>1, <1>3 DEF RequestOf
<1>5. taken \subseteq taken' /\ taken' \subseteq offered /\ (Holds(a) => Holds(a)')
  BY <1>1, <1>2, <1>3 DEF VendorAnswers, Holds
<1>6. answer \in {"granted", "again"} => Holds(a)'
  BY <1>1, <1>2, <1>4 DEF VendorAnswers, Repeated, Holds
<1>7. CASE AsksAgain(a, answer, q.tries)
  <2>1. PICK step : step = [q EXCEPT !.tries = @ + 1]
    OBVIOUS
  <2>2. q.tries + 1 \in 0..3
    BY <1>3, <1>7 DEF AsksAgain, RequestOf
  <2>3. /\ step \in RequestOf /\ step.at = q.at /\ step.todo = q.todo
        /\ step.got = q.got /\ step.before = q.before
    BY <1>3, <2>1, <2>2 DEF RequestOf
  <2>4. Honest(step, a)'
    BY <1>2, <1>3, <1>5, <2>3 DEF Honest
  <2>5. Advance(r, a, step)
    BY <1>1, <1>7, <2>1
  <2> QED  BY <1>2, <1>5, <2>3, <2>4, <2>5, AdvanceIsHonest
<1>8. CASE ~AsksAgain(a, answer, q.tries)
  <2>1. PICK outcome, rest, at :
          /\ outcome = OutcomeOf[provider][answer] /\ rest = q.todo \ {w}
          /\ at = IF rest = {} \/ Stops(outcome) THEN "answered" ELSE "claim"
    OBVIOUS
  <2>2. PICK step : step = [q EXCEPT !.todo = rest, !.got = @ \union {outcome}, !.at = at]
    OBVIOUS
  <2>3. /\ outcome \in Outcomes /\ (outcome = "claimed" => Holds(a)')
        /\ (outcome = "already-claimed" => Holds(a)')
        /\ (provider = "codearts" => outcome \in Kinds)
    BY <1>2, <1>6, <2>1, OutcomesAre
  <2>4. /\ step \in RequestOf /\ step.at = at /\ step.todo = rest
        /\ step.got = q.got \union {outcome} /\ step.before = q.before
    BY <1>3, <2>1, <2>2, <2>3 DEF RequestOf
  <2>5. Honest(step, a)'
    BY <1>2, <1>3, <1>5, <2>1, <2>3, <2>4 DEF Honest
  <2>6. Advance(r, a, step)
    BY <1>1, <1>8, <2>1, <2>2
  <2> QED  BY <1>2, <1>5, <2>4, <2>5, <2>6, AdvanceIsHonest
<1> QED  BY <1>7, <1>8

LEMMA ClaimsStep == ClaimsInv /\ [CheckInNext]_checkInVars => ClaimsInv'
<1> SUFFICES ASSUME ClaimsInv, [CheckInNext]_checkInVars PROVE ClaimsInv'
  OBVIOUS
<1>1. CASE UNCHANGED checkInVars
  BY <1>1 DEF checkInVars, ClaimsInv, HubIsTyped, Everything, RequestOf, RequestsAreHonest,
              Honest, Holds, SuccessWasTaken
<1>2. CASE CheckInNext
  BY <1>2, RunKeepsClaims, LookKeepsClaims, ClaimKeepsClaims DEF CheckInNext
<1> QED  BY <1>1, <1>2

(* The hub, the requests it has sent and the rows are type correct.        *)
LEMMA ClaimsAreTyped == ClaimsInv => CheckInTypeOK
<1> SUFFICES ASSUME ClaimsInv PROVE CheckInTypeOK
  OBVIOUS
<1>1. ASSUME NEW r \in Runs, NEW a \in Accounts
      PROVE  call[r][a] \in RequestOf /\ Honest(call[r][a], a)
             /\ row[r][a] \in Kinds \union {"none"}
  BY DEF ClaimsInv, HubIsTyped, RequestsAreHonest
<1> QED  BY <1>1 DEF ClaimsInv, HubIsTyped, CheckInTypeOK, RequestOf, Honest
(* Where a vendor tells a repeated claim from the first, one request of all *)
(* has "claimed" among its verdicts, and no row says it but that request's. *)
Telling == {"codebuddy", "loomy", "minimax", "raccoon"}

ClaimedOnce ==
    provider \in Telling =>
        /\ \A r, s \in Runs, a \in Accounts :
             "claimed" \in call[r][a].got /\ "claimed" \in call[s][a].got => r = s
        /\ \A r \in Runs, a \in Accounts : row[r][a] = "claimed" => "claimed" \in call[r][a].got

(* A request that has no new claim to tell of leaves it at that, whether it *)
(* is asked, looks or is refused.                                          *)
LEMMA NothingNewIsTold ==
    ASSUME ClaimsInv, ClaimedOnce, NEW r \in Runs, NEW a \in Accounts, NEW step,
           Advance(r, a, step), UNCHANGED <<provider, row>>,
           provider \in Telling /\ "claimed" \in step.got =>
               \A s \in Runs \ {r} : "claimed" \notin call[s][a].got,
           provider \in Telling /\ "claimed" \in call[r][a].got =>
               "claimed" \in step.got \/ row[r][a] = "none"
    PROVE  ClaimedOnce'
<1> SUFFICES ASSUME provider \in Telling PROVE ClaimedOnce'
  BY DEF ClaimedOnce
<1>1. \A s \in Runs, b \in Accounts : call'[s][b] = IF s = r /\ b = a THEN step ELSE call[s][b]
  BY DEF ClaimsInv, HubIsTyped, Advance
<1>2. ASSUME NEW s \in Runs, NEW t \in Runs, NEW b \in Accounts,
             "claimed" \in call'[s][b].got, "claimed" \in call'[t][b].got
      PROVE  s = t
  BY <1>1, <1>2 DEF ClaimedOnce
<1>3. ASSUME NEW s \in Runs, NEW b \in Accounts, row[s][b] = "claimed"
      PROVE  "claimed" \in call'[s][b].got
  BY <1>1, <1>3 DEF ClaimedOnce
<1> QED  BY <1>2, <1>3 DEF ClaimedOnce

LEMMA OnceStep == ClaimsInv /\ ClaimedOnce /\ [CheckInNext]_checkInVars => ClaimedOnce'
<1> SUFFICES ASSUME ClaimsInv, ClaimedOnce, [CheckInNext]_checkInVars PROVE ClaimedOnce'
  OBVIOUS
<1>1. ASSUME NEW r \in Runs, NEW a \in Accounts, NEW kind, Says(r, a, kind),
             provider \in Telling /\ kind = "claimed" => "claimed" \in call[r][a].got
      PROVE  ClaimedOnce'
  <2>1. UNCHANGED <<provider, call>> /\ row' = [row EXCEPT ![r][a] = kind]
    BY <1>1 DEF Says, vendorVars
  <2>2. \A s \in Runs, b \in Accounts : row'[s][b] = IF s = r /\ b = a THEN kind ELSE row[s][b]
    BY <2>1 DEF ClaimsInv, HubIsTyped
  <2> QED  BY <1>1, <2>1, <2>2 DEF ClaimedOnce
<1>2. ASSUME NEW r \in Runs, NEW a \in Accounts, AskFor(r, a) PROVE ClaimedOnce'
  <2>1. PICK sight : Advance(r, a, [Unasked EXCEPT !.at = "look", !.before = sight])
    BY <1>2 DEF AskFor
  <2>2. PICK step : step = [Unasked EXCEPT !.at = "look", !.before = sight]
    OBVIOUS
  <2>3. step.got = {}
    BY <2>2 DEF Unasked
  <2>4. row[r][a] = "none" /\ UNCHANGED <<provider, row>> /\ Advance(r, a, step)
    BY <1>2, <2>1, <2>2 DEF AskFor, vendorVars
  <2> QED  BY <2>3, <2>4, NothingNewIsTold
<1>3. ASSUME NEW r \in Runs, NEW a \in Accounts, GiveUp(r, a) PROVE ClaimedOnce'
  BY <1>1, <1>3 DEF GiveUp
<1>4. ASSUME NEW r \in Runs, NEW a \in Accounts, Report(r, a) PROVE ClaimedOnce'
  <2>1. PICK kind : /\ Says(r, a, kind)
                    /\ provider # "codearts" => kind = Normalize(Together(call[r][a].got))
    BY <1>4 DEF Report
  <2>2. call[r][a].got \in SUBSET Outcomes /\ call[r][a].got # {}
    BY <1>4 DEF Report, ClaimsInv, HubIsTyped, RequestsAreHonest, Honest, RequestOf
  <2>3. provider \in Telling /\ kind = "claimed" => "claimed" \in call[r][a].got
    BY <2>1, <2>2, TogetherIs DEF Telling
  <2> QED  BY <1>1, <2>1, <2>3
<1>5. ASSUME NEW r \in Runs, NEW a \in Accounts, LookFirst(r, a) PROVE ClaimedOnce'
  <2>1. PICK sight \in {"unread", Sight(a)} :
          LET word == LookVerdict[provider][sight]
              todo == IF provider = "qoder" THEN Open(a) ELSE Rewards(provider)
          IN  Advance(r, a, IF word = ""
                            THEN [call[r][a] EXCEPT !.at = "claim", !.todo = todo]
                            ELSE [call[r][a] EXCEPT !.at = "answered", !.got = {word}])
    BY <1>5 DEF LookFirst
  <2>2. call[r][a] \in RequestOf /\ call[r][a].got = {}
    BY <1>5 DEF LookFirst, ClaimsInv, HubIsTyped, RequestsAreHonest, Honest
  <2>3. PICK step :
          step = LET word == LookVerdict[provider][sight]
                     todo == IF provider = "qoder" THEN Open(a) ELSE Rewards(provider)
                 IN  IF word = ""
                     THEN [call[r][a] EXCEPT !.at = "claim", !.todo = todo]
                     ELSE [call[r][a] EXCEPT !.at = "answered", !.got = {word}]
    OBVIOUS
  <2>4. step.got = {} \/ step.got = {LookVerdict[provider][sight]}
    BY <2>2, <2>3 DEF RequestOf
  <2>5. sight \in Sightings /\ provider \in Claimers
    <3>1. sight \in Sightings
      BY <2>1, SightIs DEF Sightings
    <3> QED  BY <3>1, ProvidersAssumption DEF ClaimsInv, HubIsTyped
  <2>6. "claimed" \notin step.got
    <3>1. LookVerdict[provider][sight] # "claimed"
      BY <2>5, LooksAre
    <3> QED  BY <2>4, <3>1
  <2>7. Advance(r, a, step) /\ UNCHANGED <<provider, row>>
    BY <1>5, <2>1, <2>3 DEF LookFirst, vendorVars
  <2> QED  BY <2>2, <2>6, <2>7, NothingNewIsTold
<1>6. ASSUME NEW r \in Runs, NEW a \in Accounts, Claim(r, a) PROVE ClaimedOnce'
  <2> DEFINE q == call[r][a]
  <2>0. PICK w \in q.todo, answer \in ClaimAnswers :
          /\ VendorAnswers(a, w, answer)
          /\ \/ Advance(r, a, [q EXCEPT !.tries = @ + 1])
             \/ \E rest, at :
                  Advance(r, a, [q EXCEPT !.todo = rest,
                            !.got = @ \union {OutcomeOf[provider][answer]}, !.at = at])
    BY <1>6 DEF Claim
  <2>1. PICK step :
          /\ Advance(r, a, step)
          /\ \/ step = [q EXCEPT !.tries = @ + 1]
             \/ \E rest, at : step = [q EXCEPT !.todo = rest,
                                !.got = @ \union {OutcomeOf[provider][answer]}, !.at = at]
    BY <2>0
  <2>2. q \in RequestOf /\ Honest(q, a) /\ provider \in Claimers
    BY ProvidersAssumption DEF ClaimsInv, HubIsTyped, RequestsAreHonest
  <2>3. step.got = q.got \/ step.got = q.got \union {OutcomeOf[provider][answer]}
    BY <2>1, <2>2 DEF RequestOf
  <2>4. ASSUME provider \in Telling, "claimed" \in step.got, NEW s \in Runs \ {r}
        PROVE  "claimed" \notin call[s][a].got
    <3>1. CASE "claimed" \in q.got
      BY <2>4, <3>1 DEF ClaimedOnce
    <3>2. CASE "claimed" \notin q.got
      <4>1. answer = "granted"
        BY <2>0, <2>2, <2>3, <2>4, <3>2, OutcomesAre DEF Telling
      <4>2. w = 1 /\ Rewards(provider) = {1}
        BY <2>0, <2>2, <2>4, RewardsAre DEF RequestOf, Telling
      <4>3. <<a, w>> \notin taken
        BY <2>0, <2>4, <4>1 DEF VendorAnswers, Repeated, Telling
      <4>4. ~Holds(a)
        BY <4>2, <4>3 DEF Holds
      <4> QED  BY <4>4 DEF ClaimsInv, RequestsAreHonest, Honest
    <3> QED  BY <3>1, <3>2
  <2>5. UNCHANGED <<provider, row>>
    BY <1>6 DEF Claim
  <2> QED  BY <2>1, <2>3, <2>4, <2>5, NothingNewIsTold
<1>7. ASSUME UNCHANGED <<provider, call, row>> PROVE ClaimedOnce'
  BY <1>7 DEF ClaimedOnce
<1>8. ASSUME NEW r \in Runs, BeginRun(r) \/ EndRun(r) \/ UNCHANGED checkInVars
      PROVE  UNCHANGED <<provider, call, row>>
  BY <1>8 DEF BeginRun, EndRun, vendorVars, checkInVars
<1>9. UNCHANGED checkInVars => UNCHANGED <<provider, call, row>>
  BY DEF checkInVars
<1> QED
  BY <1>2, <1>3, <1>4, <1>5, <1>6, <1>7, <1>8, <1>9 DEF CheckInNext, RunOn

LEMMA ClaimsAlways == CheckInSpec => [](ClaimsInv /\ ClaimedOnce)
<1>1. CheckInInit => ClaimedOnce
  <2> SUFFICES ASSUME CheckInInit PROVE ClaimedOnce
    OBVIOUS
  <2>1. \A r \in Runs, a \in Accounts : call[r][a].got = {} /\ row[r][a] = "none"
    BY DEF CheckInInit, Unasked
  <2> QED  BY <2>1 DEF ClaimedOnce
<1> QED  BY <1>1, ClaimsInit, ClaimsStep, OnceStep, PTL DEF CheckInSpec

(* For any accounts, runs and providers: a row claims nothing that was not  *)
(* taken, whatever was abandoned, lost or answered late, and where a vendor *)
(* tells a repeated claim from the first no reward is told of twice.       *)
THEOREM RowsAreTrue == CheckInSpec => []ClaimsAreTrue
<1>1. ClaimsInv /\ ClaimedOnce => ClaimsAreTrue
  BY DEF ClaimsInv, ClaimedOnce, ClaimsAreTrue, ToldOnce, Telling
<1> QED  BY <1>1, ClaimsAlways, PTL
----------------------------------------------------------------------------
(* The sign-ins by code.                                                   *)

PollSteps == {"idle", "found", "due", "ask", "second", "wait", "count", "cache", "end", "keep",
              "finish", "forget", "forget failed", "ended"}
PollerTyped == poller \in [Pollers -> [pc : PollSteps, told : {"", "success", "error"}]]

(* What is where: a session that is done has a verdict, a panel is told    *)
(* once, only some plugins keep the interval or make a second call, and    *)
(* only codebuddy has a token to keep for it.                              *)
PanelIsSound(p) ==
    /\ poller[p].told = "" <=> poller[p].pc # "ended"
    /\ poller[p].pc = "finish" => verdict # "pending"
    /\ poller[p].pc = "second" => flow \in TwoCalls
    /\ poller[p].pc = "cache" => flow = "codebuddy"

WorldTyped ==
    /\ flow \in Flows /\ watchers \in Watchings
    /\ overdue \in BOOLEAN /\ cut \in BOOLEAN /\ rested \in BOOLEAN
    /\ user \in {"away", "approved", "declined"}

SessionTyped ==
    /\ registered \in BOOLEAN /\ done \in BOOLEAN /\ cached \in BOOLEAN
    /\ verdict \in {"pending", "success", "error"} /\ lostCount \in Nat
    /\ done => verdict # "pending"
    /\ cached => flow = "codebuddy"

HistoryTyped ==
    /\ used \in BOOLEAN /\ spoilt \in BOOLEAN /\ abandoned \in BOOLEAN
    /\ asks \in Nat /\ streak \in 0..Budget

DeviceInv ==
    /\ WorldTyped /\ SessionTyped /\ HistoryTyped /\ PollerTyped
    /\ \A p \in Pollers : PanelIsSound(p)

(* A step of one panel.                                                    *)
Moves(p, pc, told) ==
    /\ PollerTyped'
    /\ poller'[p].pc = pc /\ poller'[p].told = told
    /\ \A q \in Pollers \ {p} : poller'[q] = poller[q]

LEMMA GoesMoves ==
    ASSUME PollerTyped, NEW p \in Pollers, NEW pc \in PollSteps, PollerGoes(p, pc)
    PROVE  Moves(p, pc, poller[p].told)
  BY DEF PollerTyped, PollerGoes, Moves

LEMMA TellsMoves ==
    ASSUME PollerTyped, NEW p \in Pollers, NEW word \in {"success", "error"}, Tells(p, word)
    PROVE  Moves(p, "ended", word)
  BY DEF PollerTyped, Tells, Moves, PollSteps

(* The tables of replies.                                                  *)
LEMMA FirstCallIs ==
    ASSUME NEW f \in Flows, NEW reply \in Replies
    PROVE  /\ FirstCall[f][reply] \in {"keep", "wait", "end", "count", "second", "cache"}
           /\ reply = "lost" => FirstCall[f][reply] \in {"wait", "count"}
           /\ FirstCall[f][reply] = "count" => reply = "lost"
           /\ FirstCall[f][reply] = "second" => reply = "yes" /\ f \in {"cline", "atomcode"}
           /\ FirstCall[f][reply] = "cache" => f = "codebuddy"
           /\ reply = "yes" => FirstCall[f][reply] = IF f \in {"cline", "atomcode"} THEN "second"
                                 ELSE IF f = "codebuddy" THEN "cache" ELSE "keep"
<1>1. reply \in {"yes", "waiting", "busy", "refused", "lost"}
  BY DEF Replies
<1>2. f \in {"minimax", "zcode", "cline", "qoder", "codebuddy", "atomcode"}
  BY FlowsAssumption
<1>3. Patient[reply] = IF reply = "yes" THEN "keep" ELSE IF reply = "refused" THEN "end" ELSE "wait"
  BY <1>1 DEF Patient
<1>4. Counting[reply] = IF reply = "busy" THEN "end" ELSE IF reply = "lost" THEN "count"
                        ELSE Patient[reply]
  BY <1>1, <1>3 DEF Counting, Patient
<1>5. CASE f \in {"minimax", "qoder"}
  BY <1>1, <1>3, <1>4, <1>5 DEF FirstCall
<1>6. CASE f = "zcode"
  BY <1>1, <1>3, <1>6 DEF FirstCall
<1>7. CASE f = "cline"
  <2>1. FirstCall[f][reply] = IF reply = "yes" THEN "second" ELSE Counting[reply]
    BY <1>1, <1>7 DEF FirstCall, Counting, Patient
  <2> QED  BY <1>1, <1>3, <1>4, <1>7, <2>1
<1>8. CASE f = "codebuddy"
  <2>1. FirstCall[f][reply] = IF reply = "yes" THEN "cache" ELSE IF reply = "busy" THEN "end"
                              ELSE Patient[reply]
    BY <1>1, <1>8 DEF FirstCall, Patient
  <2> QED  BY <1>1, <1>3, <1>8, <2>1
<1>9. CASE f = "atomcode"
  <2>1. FirstCall[f][reply] = IF reply = "yes" THEN "second" ELSE IF reply = "refused" THEN "wait"
                              ELSE Patient[reply]
    BY <1>1, <1>9 DEF FirstCall, Patient
  <2> QED  BY <1>1, <1>3, <1>9, <2>1
<1> QED  BY <1>2, <1>5, <1>6, <1>7, <1>8, <1>9

LEMMA SecondCallIs ==
    ASSUME NEW f \in TwoCalls, NEW reply \in Replies
    PROVE  /\ SecondCall[f][reply] \in {"keep", "wait", "end"}
           /\ reply = "yes" => SecondCall[f][reply] = "keep"
           /\ SecondCall[f][reply] = "wait" => f = "codebuddy"
<1>1. reply \in {"yes", "waiting", "busy", "refused", "lost"}
  BY DEF Replies
<1>2. Patient[reply] = IF reply = "yes" THEN "keep" ELSE IF reply = "refused" THEN "end" ELSE "wait"
  BY <1>1 DEF Patient
<1>3. CASE f = "codebuddy"
  <2>1. SecondCall[f][reply] = IF reply = "busy" THEN "end" ELSE Patient[reply]
    BY <1>1, <1>3 DEF SecondCall, Patient
  <2> QED  BY <1>1, <1>2, <1>3, <2>1
<1>4. CASE f # "codebuddy"
  BY <1>1, <1>4 DEF SecondCall
<1> QED  BY <1>3, <1>4

LEMMA JudgedIs ==
    ASSUME flow \in Flows, NEW p, NEW reply \in Replies
    PROVE  /\ Judged(p, reply) \in {"keep", "wait", "end", "count", "second", "cache"}
           /\ reply = "lost" /\ Judged(p, reply) = "end" => flow = "minimax" /\ p \in Pages
           /\ Judged(p, reply) = "count" => reply = "lost"
           /\ Judged(p, reply) = "second" => reply = "yes" /\ flow \in {"cline", "atomcode"}
           /\ Judged(p, reply) = "cache" => flow = "codebuddy"
           /\ reply = "yes" => Judged(p, reply) =
                IF flow \in {"cline", "atomcode"} THEN "second"
                ELSE IF flow = "codebuddy" THEN "cache" ELSE "keep"
  BY FirstCallIs DEF Judged
LEMMA DeviceStarts == DeviceInit => DeviceInv
<1> SUFFICES ASSUME DeviceInit PROVE DeviceInv
  OBVIOUS
<1>1. WorldTyped /\ SessionTyped /\ HistoryTyped
  <2>1. WorldTyped
    BY DEF DeviceInit, WorldTyped
  <2>2. SessionTyped
    BY DEF DeviceInit, SessionTyped
  <2>3. 0 \in 0..Budget
    BY BudgetAssumption
  <2>4. HistoryTyped
    BY <2>3 DEF DeviceInit, HistoryTyped
  <2> QED  BY <2>1, <2>2, <2>4
<1>2. PollerTyped /\ \A p \in Pollers : poller[p].pc = "idle" /\ poller[p].told = ""
  BY DEF DeviceInit, PollerTyped, PollSteps
<1> QED  BY <1>1, <1>2 DEF DeviceInv, PanelIsSound

LEMMA OthersAreSound ==
    ASSUME DeviceInv, NEW p \in Pollers, NEW pc, NEW told, Moves(p, pc, told), UNCHANGED flow,
           verdict # "pending" => verdict' # "pending", PanelIsSound(p)'
    PROVE  PollerTyped' /\ \A q \in Pollers : PanelIsSound(q)'
<1>1. ASSUME NEW q \in Pollers, q # p PROVE PanelIsSound(q)'
  <2>1. poller'[q] = poller[q] /\ PanelIsSound(q)
    BY <1>1 DEF Moves, DeviceInv
  <2> QED  BY <2>1 DEF PanelIsSound
<1> QED  BY <1>1 DEF Moves

(* The world moves without the panels.                                     *)
LEMMA WorldKeepsSound ==
    ASSUME DeviceInv, Decide \/ Outlive \/ Elapse \/ StartAnother \/ Shutdown
    PROVE  DeviceInv'
<1>1. WorldTyped' /\ UNCHANGED <<flow, watchers, poller>>
  <2>1. WorldTyped
    BY DEF DeviceInv
  <2>2. CASE Decide
    BY <2>1, <2>2 DEF WorldTyped, Decide
  <2>3. CASE Outlive
    BY <2>1, <2>3 DEF WorldTyped, Outlive
  <2>4. CASE Elapse
    BY <2>1, <2>4 DEF WorldTyped, Elapse, worldVars
  <2>5. CASE StartAnother \/ Shutdown
    BY <2>1, <2>5 DEF WorldTyped, StartAnother, Shutdown
  <2> QED  BY <2>2, <2>3, <2>4, <2>5
<1>2. SessionTyped' /\ (verdict # "pending" => verdict' # "pending")
  <2>1. SessionTyped
    BY DEF DeviceInv
  <2>2. CASE Decide \/ Outlive \/ Elapse
    BY <2>1, <2>2 DEF SessionTyped, Decide, Outlive, Elapse, sessionVars, worldVars
  <2>3. CASE StartAnother
    <3>1. /\ registered' = FALSE /\ UNCHANGED <<flow, cached, lostCount>>
          /\ \/ done' = TRUE /\ verdict' = "error"
             \/ UNCHANGED <<done, verdict>>
      BY <2>3 DEF StartAnother
    <3>2. registered' \in BOOLEAN /\ cached' \in BOOLEAN /\ lostCount' \in Nat
          /\ (cached' => flow' = "codebuddy")
      BY <2>1, <3>1 DEF SessionTyped
    <3>3. CASE done' = TRUE /\ verdict' = "error"
      BY <3>2, <3>3 DEF SessionTyped
    <3>4. CASE UNCHANGED <<done, verdict>>
      BY <2>1, <3>2, <3>4 DEF SessionTyped
    <3> QED  BY <3>1, <3>3, <3>4
  <2>4. CASE Shutdown
    BY <2>1, <2>4 DEF SessionTyped, Shutdown
  <2> QED  BY <2>2, <2>3, <2>4
<1>3. HistoryTyped'
  BY DEF DeviceInv, HistoryTyped, Decide, Outlive, Elapse, StartAnother, Shutdown, historyVars
<1>4. PollerTyped' /\ \A p \in Pollers : PanelIsSound(p)'
  BY <1>1, <1>2 DEF DeviceInv, PollerTyped, PanelIsSound
<1> QED  BY <1>1, <1>2, <1>3, <1>4 DEF DeviceInv

(* What each step of a poll does to the panel.                             *)
LEMMA PollMoves ==
    ASSUME DeviceInv, NEW p \in Pollers
    PROVE  /\ FindNothing(p) => Moves(p, "ended", "error")
           /\ Find(p) => Moves(p, "found", "")
           /\ Recall(p) => Moves(p, "ended", verdict) /\ verdict \in {"success", "error"}
           /\ ExpireNow(p) => Moves(p, "end", "")
           /\ Proceed(p) => \/ Moves(p, "idle", "")
                            \/ flow \in Paced /\ rested /\ Moves(p, "due", "")
                            \/ flow \notin Paced /\ cached /\ Moves(p, "second", "")
                            \/ flow \notin Paced /\ ~cached /\ Moves(p, "ask", "")
           /\ Mark(p) => Moves(p, "ask", "")
           /\ Wait(p) => Moves(p, "idle", "")
           /\ Count(p) => \/ ~Spent(lostCount + 1) /\ Moves(p, "idle", "")
                          \/ Spent(lostCount + 1) /\ Moves(p, "end", "")
           /\ Cache(p) => Moves(p, "second", "")
           /\ FailSession(p) => Moves(p, "ended", "error") \/ Moves(p, "forget failed", "")
           /\ Keep(p) => \/ flow \in FinishesLater /\ Moves(p, "finish", "")
                         \/ flow \notin FinishesLater /\ Moves(p, "forget", "")
           /\ FinishSession(p) => Moves(p, "forget", "")
           /\ HandOver(p) => Moves(p, "ended", "success")
           /\ ForgetFailed(p) => Moves(p, "ended", "error")
<1>1. PollerTyped /\ PanelIsSound(p) /\ SessionTyped
  BY DEF DeviceInv
<1>2. \A pc \in PollSteps : PollerGoes(p, pc) => Moves(p, pc, poller[p].told)
  BY <1>1, GoesMoves
<1>3. \A word \in {"success", "error"} : Tells(p, word) => Moves(p, "ended", word)
  BY <1>1, TellsMoves
<1>4. poller[p].pc # "ended" => poller[p].told = ""
  BY <1>1 DEF PollerTyped, PanelIsSound
<1>5. {"idle", "found", "due", "ask", "second", "end", "finish", "forget", "forget failed"}
        \subseteq PollSteps
  BY DEF PollSteps
<1>6. FindNothing(p) => Moves(p, "ended", "error")
  BY <1>3 DEF FindNothing
<1>7. Find(p) => Moves(p, "found", "")
  BY <1>2, <1>4, <1>5 DEF Find, PollerAt
<1>8. Recall(p) => Moves(p, "ended", verdict) /\ verdict \in {"success", "error"}
  BY <1>1, <1>3 DEF Recall, SessionTyped
<1>9. ExpireNow(p) => Moves(p, "end", "")
  BY <1>2, <1>4, <1>5 DEF ExpireNow, PollerAt
<1>10. Proceed(p) => \/ Moves(p, "idle", "")
                     \/ flow \in Paced /\ rested /\ Moves(p, "due", "")
                     \/ flow \notin Paced /\ cached /\ Moves(p, "second", "")
                     \/ flow \notin Paced /\ ~cached /\ Moves(p, "ask", "")
  BY <1>2, <1>4, <1>5 DEF Proceed, PollerAt, Due
<1>11. Mark(p) => Moves(p, "ask", "")
  BY <1>2, <1>4, <1>5 DEF Mark, PollerAt
<1>12. Wait(p) => Moves(p, "idle", "")
  BY <1>2, <1>4, <1>5 DEF Wait, PollerAt
<1>13. Count(p) => \/ ~Spent(lostCount + 1) /\ Moves(p, "idle", "")
                   \/ Spent(lostCount + 1) /\ Moves(p, "end", "")
  BY <1>2, <1>4, <1>5 DEF Count, PollerAt
<1>14. Cache(p) => Moves(p, "second", "")
  BY <1>2, <1>4, <1>5 DEF Cache, PollerAt
<1>15. FailSession(p) => Moves(p, "ended", "error") \/ Moves(p, "forget failed", "")
  BY <1>2, <1>3, <1>4, <1>5 DEF FailSession, PollerAt
<1>16. Keep(p) => \/ flow \in FinishesLater /\ Moves(p, "finish", "")
                  \/ flow \notin FinishesLater /\ Moves(p, "forget", "")
  BY <1>2, <1>4, <1>5 DEF Keep, PollerAt
<1>17. FinishSession(p) => Moves(p, "forget", "")
  BY <1>2, <1>4, <1>5 DEF FinishSession, PollerAt
<1>18. HandOver(p) => Moves(p, "ended", "success")
  BY <1>3 DEF HandOver
<1>19. ForgetFailed(p) => Moves(p, "ended", "error")
  BY <1>3 DEF ForgetFailed
<1> QED
  BY <1>6, <1>7, <1>8, <1>9, <1>10, <1>11, <1>12, <1>13, <1>14, <1>15, <1>16, <1>17, <1>18, <1>19

(* The two calls of the vendor go where the plugin's table says.           *)
LEMMA AskMoves ==
    ASSUME DeviceInv, NEW p \in Pollers, AskVendor(p)
    PROVE  \E reply \in Replies :
              /\ IF flow = "atomcode" THEN JustLooking(reply) ELSE Granting(reply)
              /\ Moves(p, Judged(p, reply), "")
              /\ streak' = IF ~(reply = "lost" /\ Alone) THEN 0
                           ELSE IF streak < Budget THEN streak + 1 ELSE streak
              /\ abandoned' = (abandoned \/ (Alone /\ reply = "lost" /\ Judged(p, reply) = "end"))
<1>1. PollerTyped /\ poller[p].told = ""
  BY DEF DeviceInv, PanelIsSound, AskVendor, PollerAt, PollerTyped
<1>2. \A reply \in Replies : Judged(p, reply) \in PollSteps
  BY JudgedIs DEF DeviceInv, WorldTyped, PollSteps
<1>3. ASSUME NEW reply \in Replies, PollerGoes(p, Judged(p, reply))
      PROVE  Moves(p, Judged(p, reply), "")
  <2>1. PICK pc \in PollSteps : pc = Judged(p, reply)
    BY <1>2
  <2> QED  BY <1>1, <1>3, <2>1, GoesMoves
<1> QED  BY <1>3 DEF AskVendor

LEMMA AskSecondMoves ==
    ASSUME DeviceInv, NEW p \in Pollers, AskSecond(p)
    PROVE  /\ flow \in TwoCalls
           /\ \E reply \in Replies :
                /\ flow # "atomcode" => used' = used
                /\ flow = "atomcode" => used' = (used \/ reply = "yes")
                /\ spoilt' = (spoilt \/ SecondCall[flow][reply] = "end")
                /\ Moves(p, SecondCall[flow][reply], "")
<1>1. PollerTyped /\ poller[p].told = "" /\ flow \in TwoCalls
  BY DEF DeviceInv, PanelIsSound, AskSecond, PollerAt, PollerTyped
<1>2. ASSUME NEW reply \in Replies, PollerGoes(p, SecondCall[flow][reply])
      PROVE  Moves(p, SecondCall[flow][reply], "")
  <2>1. PICK pc : pc = SecondCall[flow][reply]
    OBVIOUS
  <2>2. pc \in PollSteps
    BY <1>1, <2>1, SecondCallIs DEF PollSteps
  <2> QED  BY <1>1, <1>2, <2>1, <2>2, GoesMoves
<1> QED  BY <1>1, <1>2 DEF AskSecond
(* What a panel does changes nothing of the world, and of the session and  *)
(* the history what is said here.                                          *)
LEMMA PollKeepsWorld ==
    ASSUME DeviceInv, NEW p \in Pollers, PollOn(p)
    PROVE  /\ UNCHANGED <<flow, watchers, overdue, user, cut>>
           /\ WorldTyped' /\ p \in watchers
<1>1. UNCHANGED worldVars
  BY DEF PollOn, FindNothing, Find, Recall, ExpireNow, Proceed, Mark, AskVendor, AskSecond, Wait,
         Count, Cache, FailSession, Keep, FinishSession, HandOver, ForgetFailed
<1>2. p \in watchers
  BY DEF PollerAt, PollOn, FindNothing, Find, Recall, ExpireNow, Proceed, Mark, AskVendor,
         AskSecond, Wait, Count, Cache, FailSession, Keep, FinishSession, HandOver, ForgetFailed
<1>3. rested' = rested \/ rested' = FALSE
  BY DEF PollOn, FindNothing, Find, Recall, ExpireNow, Proceed, Mark, AskVendor, AskSecond, Wait,
         Count, Cache, FailSession, Keep, FinishSession, HandOver, ForgetFailed
<1> QED  BY <1>1, <1>2, <1>3 DEF worldVars, DeviceInv, WorldTyped

LEMMA PollKeepsSession ==
    ASSUME DeviceInv, NEW p \in Pollers, PollOn(p)
    PROVE  SessionTyped' /\ (verdict # "pending" => verdict' # "pending")
<1>1. SessionTyped /\ PanelIsSound(p) /\ UNCHANGED flow
  BY PollKeepsWorld DEF DeviceInv
<1>2. CASE UNCHANGED sessionVars
  BY <1>1, <1>2 DEF SessionTyped, sessionVars
<1>3. ASSUME registered' \in BOOLEAN, UNCHANGED <<done, verdict, cached, lostCount>>
      PROVE  SessionTyped' /\ (verdict # "pending" => verdict' # "pending")
  BY <1>1, <1>3 DEF SessionTyped
<1>4. ASSUME registered' \in BOOLEAN, done' = TRUE, verdict' = "error", UNCHANGED <<cached, lostCount>>
      PROVE  SessionTyped' /\ (verdict # "pending" => verdict' # "pending")
  <2>1. registered' \in BOOLEAN /\ cached' \in BOOLEAN /\ lostCount' \in Nat
        /\ (cached' => flow' = "codebuddy")
    BY <1>1, <1>4 DEF SessionTyped
  <2> QED  BY <1>4, <2>1 DEF SessionTyped
<1>5. CASE FindNothing(p)
  BY <1>1, <1>3, <1>4, <1>5 DEF FindNothing, SessionTyped
<1>6. CASE Find(p) \/ ExpireNow(p) \/ Proceed(p) \/ Mark(p) \/ AskVendor(p) \/ AskSecond(p)
  BY <1>2, <1>6 DEF Find, ExpireNow, Proceed, Mark, AskVendor, AskSecond
<1>7. CASE Recall(p) \/ HandOver(p) \/ ForgetFailed(p)
  <2>1. registered' \in BOOLEAN /\ UNCHANGED <<done, verdict, cached, lostCount>>
    BY <1>1, <1>7 DEF Recall, HandOver, ForgetFailed, SessionTyped
  <2> QED  BY <1>3, <2>1
<1>8. CASE Wait(p) \/ Count(p)
  <2>1. lostCount' \in Nat /\ UNCHANGED <<registered, done, verdict, cached>>
    BY <1>1, <1>8 DEF Wait, Count, SessionTyped
  <2> QED  BY <1>1, <2>1 DEF SessionTyped
<1>9. CASE Cache(p)
  <2>1. cached' = TRUE /\ flow' = "codebuddy" /\ UNCHANGED <<registered, done, verdict, lostCount>>
    BY <1>1, <1>9 DEF Cache, PanelIsSound, PollerAt
  <2> QED  BY <1>1, <2>1 DEF SessionTyped
<1>10. CASE FailSession(p)
  <2>1. registered' \in BOOLEAN /\ done' = TRUE /\ verdict' = "error" /\ UNCHANGED <<cached, lostCount>>
    BY <1>1, <1>10 DEF FailSession, SessionTyped
  <2> QED  BY <1>4, <2>1
<1>11. CASE Keep(p)
  <2>1. /\ registered' \in BOOLEAN /\ cached' \in BOOLEAN /\ lostCount' \in Nat
        /\ cached' => flow' = "codebuddy"
    BY <1>1, <1>11 DEF Keep, SessionTyped
  <2>2. done' \in BOOLEAN /\ verdict' = "success"
    BY <1>1, <1>11 DEF Keep, SessionTyped
  <2> QED  BY <2>1, <2>2 DEF SessionTyped
<1>12. CASE FinishSession(p)
  <2>1. done' = TRUE /\ UNCHANGED <<registered, verdict, cached, lostCount>> /\ verdict # "pending"
    BY <1>1, <1>12 DEF FinishSession, PanelIsSound, PollerAt
  <2> QED  BY <1>1, <2>1 DEF SessionTyped
<1> QED  BY <1>5, <1>6, <1>7, <1>8, <1>9, <1>10, <1>11, <1>12 DEF PollOn

LEMMA PollKeepsHistory ==
    ASSUME DeviceInv, NEW p \in Pollers, PollOn(p)
    PROVE  HistoryTyped'
<1>1. HistoryTyped
  BY DEF DeviceInv
<1>2. CASE FindNothing(p) \/ Find(p) \/ Recall(p) \/ ExpireNow(p) \/ Proceed(p) \/ Wait(p)
           \/ Cache(p) \/ FailSession(p) \/ Keep(p) \/ FinishSession(p) \/ HandOver(p)
           \/ ForgetFailed(p)
  BY <1>1, <1>2 DEF FindNothing, Find, Recall, ExpireNow, Proceed, Wait, Cache, FailSession, Keep,
     FinishSession, HandOver, ForgetFailed, HistoryTyped, historyVars
<1>3. CASE Mark(p)
  BY <1>1, <1>3 DEF Mark, HistoryTyped
<1>4. CASE AskVendor(p)
  <2>1. PICK reply \in Replies :
          /\ IF flow = "atomcode" THEN JustLooking(reply) ELSE Granting(reply)
          /\ streak' = IF ~(reply = "lost" /\ Alone) THEN 0
                       ELSE IF streak < Budget THEN streak + 1 ELSE streak
          /\ abandoned' = (abandoned \/ (Alone /\ reply = "lost" /\ Judged(p, reply) = "end"))
    BY <1>4, AskMoves
  <2>2. used' \in BOOLEAN /\ spoilt' \in BOOLEAN
    BY <1>1, <2>1 DEF JustLooking, Granting, HistoryTyped
  <2>3. streak' \in 0..Budget
    BY <1>1, <2>1, BudgetAssumption DEF HistoryTyped
  <2>4. abandoned' \in BOOLEAN
    BY <2>1
  <2>5. asks' \in Nat
    BY <1>1, <1>4 DEF AskVendor, HistoryTyped
  <2> QED  BY <2>2, <2>3, <2>4, <2>5 DEF HistoryTyped
<1>5. CASE AskSecond(p)
  <2>1. used' \in BOOLEAN /\ spoilt' \in BOOLEAN
    <3>1. PICK reply \in Replies :
            /\ flow # "atomcode" => used' = used
            /\ flow = "atomcode" => used' = (used \/ reply = "yes")
            /\ spoilt' = (spoilt \/ SecondCall[flow][reply] = "end")
      BY <1>5, AskSecondMoves
    <3> QED  BY <1>1, <3>1 DEF HistoryTyped
  <2>2. UNCHANGED <<asks, streak, abandoned>>
    BY <1>5 DEF AskSecond
  <2> QED  BY <1>1, <2>1, <2>2 DEF HistoryTyped
<1>6. CASE Count(p)
  <2>1. abandoned' \in BOOLEAN /\ UNCHANGED <<used, asks, streak, spoilt>>
    BY <1>6 DEF Count
  <2> QED  BY <1>1, <2>1 DEF HistoryTyped
<1> QED  BY <1>2, <1>3, <1>4, <1>5, <1>6 DEF PollOn

(* A step of a panel takes it from one place to another, as its plugin and *)
(* the session are.                                                        *)
LEMMA PollKeepsPanels ==
    ASSUME DeviceInv, NEW p \in Pollers, PollOn(p)
    PROVE  PollerTyped' /\ \A q \in Pollers : PanelIsSound(q)'
<1>1. /\ SessionTyped /\ PanelIsSound(p) /\ UNCHANGED flow /\ flow \in Flows
      /\ verdict # "pending" => verdict' # "pending"
  BY PollKeepsWorld, PollKeepsSession DEF DeviceInv, WorldTyped
<1>2. ASSUME NEW pc, NEW told, Moves(p, pc, told), told = "" <=> pc # "ended",
             pc = "finish" => verdict' # "pending", pc = "second" => flow \in TwoCalls,
             pc = "cache" => flow = "codebuddy"
      PROVE  PollerTyped' /\ \A q \in Pollers : PanelIsSound(q)'
  <2>1. PanelIsSound(p)'
    BY <1>1, <1>2 DEF Moves, PanelIsSound
  <2> QED  BY <1>1, <1>2, <2>1, OthersAreSound
<1>3. CASE FindNothing(p) \/ HandOver(p) \/ ForgetFailed(p)
  BY <1>2, <1>3, PollMoves
<1>4. CASE Find(p) \/ ExpireNow(p) \/ Mark(p) \/ Wait(p) \/ Count(p) \/ FinishSession(p)
           \/ FailSession(p)
  BY <1>2, <1>4, PollMoves
<1>5. CASE Recall(p)
  <2>1. PICK told : told = verdict
    OBVIOUS
  <2>2. Moves(p, "ended", told) /\ told \in {"success", "error"}
    BY <1>5, <2>1, PollMoves
  <2> QED  BY <1>2, <2>2
<1>6. CASE Proceed(p)
  <2>1. cached => flow \in TwoCalls
    BY <1>1 DEF SessionTyped, TwoCalls
  <2> QED  BY <1>2, <1>6, <2>1, PollMoves
<1>7. CASE Cache(p)
  <2>1. flow \in TwoCalls
    BY <1>1, <1>7 DEF Cache, PanelIsSound, PollerAt, TwoCalls
  <2> QED  BY <1>2, <1>7, <2>1, PollMoves
<1>8. CASE Keep(p)
  <2>1. verdict' # "pending"
    BY <1>8 DEF Keep
  <2> QED  BY <1>2, <1>8, <2>1, PollMoves
<1>9. CASE AskVendor(p)
  <2>1. PICK reply \in Replies : Moves(p, Judged(p, reply), "")
    BY <1>9, AskMoves
  <2>2. PICK pc : pc = Judged(p, reply)
    OBVIOUS
  <2>3. /\ pc \in {"keep", "wait", "end", "count", "second", "cache"}
        /\ pc = "second" => flow \in TwoCalls
        /\ pc = "cache" => flow = "codebuddy"
    BY <1>1, <2>2, JudgedIs DEF TwoCalls
  <2>4. Moves(p, pc, "")
    BY <2>1, <2>2
  <2> QED  BY <1>2, <2>3, <2>4
<1>10. CASE AskSecond(p)
  <2>1. PICK reply \in Replies : Moves(p, SecondCall[flow][reply], "") /\ flow \in TwoCalls
    BY <1>10, AskSecondMoves
  <2>2. PICK pc : pc = SecondCall[flow][reply]
    OBVIOUS
  <2>3. pc \in {"keep", "wait", "end"}
    BY <2>1, <2>2, SecondCallIs
  <2>4. Moves(p, pc, "")
    BY <2>1, <2>2
  <2> QED  BY <1>2, <2>3, <2>4
<1> QED  BY <1>3, <1>4, <1>5, <1>6, <1>7, <1>8, <1>9, <1>10 DEF PollOn

LEMMA DeviceStep == DeviceInv /\ [DeviceNext]_deviceVars => DeviceInv'
<1> SUFFICES ASSUME DeviceInv, [DeviceNext]_deviceVars PROVE DeviceInv'
  OBVIOUS
<1>1. ASSUME NEW p \in Pollers, PollOn(p) PROVE DeviceInv'
  BY <1>1, PollKeepsWorld, PollKeepsSession, PollKeepsHistory, PollKeepsPanels DEF DeviceInv
<1>2. CASE UNCHANGED deviceVars
  <2>1. UNCHANGED <<worldVars, sessionVars, historyVars, rested, poller>>
    BY <1>2 DEF deviceVars
  <2>2. WorldTyped'
    BY <2>1 DEF DeviceInv, WorldTyped, worldVars
  <2>3. SessionTyped'
    BY <2>1 DEF DeviceInv, SessionTyped, sessionVars, worldVars
  <2>4. HistoryTyped'
    BY <2>1 DEF DeviceInv, HistoryTyped, historyVars
  <2>5. PollerTyped' /\ \A p \in Pollers : PanelIsSound(p)'
    BY <2>1 DEF DeviceInv, PollerTyped, PanelIsSound, worldVars, sessionVars
  <2> QED  BY <2>2, <2>3, <2>4, <2>5 DEF DeviceInv
<1> QED  BY <1>1, <1>2, WorldKeepsSound DEF DeviceNext
(* How often the vendor is asked within an interval: by every panel that   *)
(* found it elapsed and by none else.                                      *)
DuePanels == {q \in watchers : poller[q].pc = "due"}

FewAreDue ==
    /\ rested => asks = 0
    /\ flow \in Paced => asks + Cardinality(DuePanels) <= Cardinality(watchers)

LEMMA WatchersAreFinite ==
    ASSUME DeviceInv, NEW S, S \subseteq watchers
    PROVE  IsFiniteSet(S) /\ Cardinality(S) \in Nat /\ Cardinality(watchers) \in Nat
           /\ Cardinality(S) <= Cardinality(watchers)
<1>1. IsFiniteSet(watchers)
  BY WatchingsAssumption DEF DeviceInv, WorldTyped
<1> QED  BY <1>1, FS_Subset, FS_CardinalityType

LEMMA FewInit == DeviceInit => FewAreDue
<1> SUFFICES ASSUME DeviceInit PROVE FewAreDue
  OBVIOUS
<1>1. DeviceInv
  BY DeviceStarts
<1>2. asks = 0
  BY DEF DeviceInit
<1>3. Cardinality(DuePanels) \in Nat /\ Cardinality(watchers) \in Nat
      /\ Cardinality(DuePanels) <= Cardinality(watchers)
  BY <1>1, WatchersAreFinite DEF DuePanels
<1> QED  BY <1>2, <1>3 DEF FewAreDue

LEMMA FewStep == DeviceInv /\ FewAreDue /\ [DeviceNext]_deviceVars => FewAreDue'
<1> SUFFICES ASSUME DeviceInv, FewAreDue, [DeviceNext]_deviceVars PROVE FewAreDue'
  OBVIOUS
<1>1. DeviceInv' /\ asks \in Nat
  BY DeviceStep DEF DeviceInv, HistoryTyped
<1>2. ASSUME UNCHANGED watchers, asks' = 0 PROVE FewAreDue'
  <2>1. Cardinality(DuePanels)' \in Nat /\ Cardinality(watchers) \in Nat
        /\ Cardinality(DuePanels)' <= Cardinality(watchers)
    <3>1. PICK S : S = DuePanels'
      OBVIOUS
    <3>2. S \subseteq watchers
      BY <1>2, <3>1 DEF DuePanels
    <3> QED  BY <3>1, <3>2, WatchersAreFinite
  <2> QED  BY <1>2, <2>1 DEF FewAreDue
<1>3. ASSUME UNCHANGED <<flow, watchers, asks, rested>>, DuePanels' = DuePanels PROVE FewAreDue'
  BY <1>3 DEF FewAreDue
<1>4. CASE Decide \/ Outlive \/ StartAnother \/ Shutdown \/ UNCHANGED deviceVars
  BY <1>3, <1>4 DEF Decide, Outlive, StartAnother, Shutdown, deviceVars, worldVars, historyVars,
     DuePanels
<1>5. CASE Elapse
  BY <1>2, <1>5 DEF Elapse, worldVars
<1>6. ASSUME NEW p \in Pollers, PollOn(p) PROVE FewAreDue'
  <2>1. UNCHANGED <<flow, watchers>> /\ p \in watchers /\ watchers \subseteq Pollers
    BY <1>6, PollKeepsWorld DEF DeviceInv, WorldTyped, Pollers
  <2>2. ASSUME NEW pc, NEW told, Moves(p, pc, told), pc # "due", poller[p].pc # "due",
               UNCHANGED <<asks, rested>>
        PROVE  FewAreDue'
    <3>1. DuePanels' = DuePanels
      BY <2>1, <2>2 DEF Moves, DuePanels
    <3> QED  BY <1>3, <2>1, <2>2, <3>1
  <2>3. CASE FindNothing(p) \/ HandOver(p) \/ ForgetFailed(p)
    BY <2>2, <2>3, PollMoves DEF FindNothing, HandOver, ForgetFailed, PollerAt, historyVars
  <2>4. CASE Find(p) \/ ExpireNow(p) \/ Wait(p) \/ Cache(p) \/ FailSession(p) \/ FinishSession(p)
    BY <2>2, <2>4, PollMoves DEF Find, ExpireNow, Wait, Cache, FailSession, FinishSession, PollerAt,
       historyVars
  <2>5. CASE Recall(p)
    <3>1. PICK told : told = verdict
      OBVIOUS
    <3>2. Moves(p, "ended", told)
      BY <2>5, <3>1, PollMoves
    <3> QED  BY <2>2, <2>5, <3>2 DEF Recall, PollerAt, historyVars
  <2>6. CASE Count(p) \/ Keep(p)
    BY <2>2, <2>6, PollMoves DEF Count, Keep, PollerAt, historyVars
  <2>7. CASE Proceed(p)
    <3>1. UNCHANGED <<asks, rested>> /\ poller[p].pc = "found"
      BY <2>7 DEF Proceed, PollerAt, historyVars
    <3>2. CASE flow \in Paced /\ rested
      BY <1>2, <2>1, <3>1, <3>2 DEF FewAreDue
    <3> QED  BY <2>2, <2>7, <3>1, <3>2, PollMoves
  <2>8. CASE Mark(p)
    <3>1. Moves(p, "ask", "") /\ poller[p].pc = "due" /\ asks' = asks + 1 /\ rested' = FALSE
      BY <2>8, PollMoves DEF Mark, PollerAt
    <3>2. DuePanels' = DuePanels \ {p} /\ p \in DuePanels
      BY <2>1, <3>1 DEF Moves, DuePanels
    <3>3. IsFiniteSet(DuePanels) /\ Cardinality(DuePanels) \in Nat /\ Cardinality(watchers) \in Nat
      BY WatchersAreFinite DEF DuePanels
    <3>4. Cardinality(DuePanels') = Cardinality(DuePanels) - 1
      BY <3>2, <3>3, FS_RemoveElement
    <3>5. ASSUME flow \in Paced PROVE asks' + Cardinality(DuePanels') <= Cardinality(watchers)
      <4>1. asks + Cardinality(DuePanels) <= Cardinality(watchers)
        BY <3>5 DEF FewAreDue
      <4>2. asks \in Nat /\ asks' = asks + 1
        BY <1>1, <3>1
      <4> QED  BY <3>3, <3>4, <4>1, <4>2
    <3> QED  BY <2>1, <3>1, <3>5 DEF FewAreDue
  <2>9. CASE AskVendor(p)
    <3>1. PICK reply \in Replies : Moves(p, Judged(p, reply), "")
      BY <2>9, AskMoves
    <3>2. PICK pc : pc = Judged(p, reply)
      OBVIOUS
    <3>3. pc # "due"
      BY <3>2, JudgedIs DEF DeviceInv, WorldTyped
    <3> QED  BY <2>2, <2>9, <3>1, <3>2, <3>3 DEF AskVendor, PollerAt
  <2>10. CASE AskSecond(p)
    <3>1. PICK reply \in Replies : Moves(p, SecondCall[flow][reply], "") /\ flow \in TwoCalls
      BY <2>10, AskSecondMoves
    <3>2. PICK pc : pc = SecondCall[flow][reply]
      OBVIOUS
    <3>3. pc # "due"
      BY <3>1, <3>2, SecondCallIs
    <3> QED  BY <2>2, <2>10, <3>1, <3>2, <3>3 DEF AskSecond, PollerAt
  <2> QED  BY <1>6, <2>3, <2>4, <2>5, <2>6, <2>7, <2>8, <2>9, <2>10 DEF PollOn
<1> QED  BY <1>4, <1>5, <1>6 DEF DeviceNext
(* How many losses a session counts: giving up on them ends the panel that *)
(* did, so that each of them goes past the budget once at most.            *)
Gone == {"end", "forget failed", "ended"}
GonePanels == {q \in watchers : poller[q].pc \in Gone}
LossesAreFew == lostCount < Budget + Cardinality(GonePanels)

(* A panel that is gone stays gone.                                        *)
LEMMA GoneStayGone ==
    ASSUME DeviceInv, NEW p \in Pollers, PollOn(p)
    PROVE  \A q \in watchers : poller[q].pc \in Gone => poller'[q].pc \in Gone
<1>1. watchers \subseteq Pollers
  BY DEF DeviceInv, WorldTyped, Pollers
<1>2. ASSUME NEW pc, NEW told, Moves(p, pc, told), poller[p].pc \in Gone => pc \in Gone
      PROVE  \A q \in watchers : poller[q].pc \in Gone => poller'[q].pc \in Gone
  BY <1>1, <1>2 DEF Moves
<1>3. CASE FindNothing(p) \/ ForgetFailed(p) \/ HandOver(p) \/ ExpireNow(p)
  BY <1>2, <1>3, PollMoves DEF Gone
<1>4. CASE Recall(p)
  <2>1. PICK told : told = verdict
    OBVIOUS
  <2>2. Moves(p, "ended", told)
    BY <1>4, <2>1, PollMoves
  <2> QED  BY <1>2, <2>2 DEF Gone
<1>5. CASE FailSession(p)
  BY <1>2, <1>5, PollMoves DEF Gone
<1>6. CASE Find(p) \/ Proceed(p) \/ Mark(p) \/ Wait(p) \/ Count(p) \/ Cache(p) \/ Keep(p)
           \/ FinishSession(p)
  <2>1. poller[p].pc \notin Gone
    BY <1>6 DEF Find, Proceed, Mark, Wait, Count, Cache, Keep, FinishSession, PollerAt, Gone
  <2> QED  BY <1>2, <1>6, <2>1, PollMoves
<1>7. CASE AskVendor(p)
  <2>1. PICK pc : Moves(p, pc, "")
    BY <1>7, AskMoves
  <2>2. poller[p].pc \notin Gone
    BY <1>7 DEF AskVendor, PollerAt, Gone
  <2> QED  BY <1>2, <2>1, <2>2
<1>8. CASE AskSecond(p)
  <2>1. PICK pc : Moves(p, pc, "")
    BY <1>8, AskSecondMoves
  <2>2. poller[p].pc \notin Gone
    BY <1>8 DEF AskSecond, PollerAt, Gone
  <2> QED  BY <1>2, <2>1, <2>2
<1> QED  BY <1>3, <1>4, <1>5, <1>6, <1>7, <1>8 DEF PollOn

LEMMA LossesStep == DeviceInv /\ LossesAreFew /\ [DeviceNext]_deviceVars => LossesAreFew'
<1> SUFFICES ASSUME DeviceInv, LossesAreFew, [DeviceNext]_deviceVars PROVE LossesAreFew'
  OBVIOUS
<1>1. lostCount \in Nat /\ Budget \in Nat \ {0} /\ watchers \subseteq Pollers
  BY BudgetAssumption DEF DeviceInv, SessionTyped, WorldTyped, Pollers
<1>2. IsFiniteSet(GonePanels) /\ Cardinality(GonePanels) \in Nat
  BY WatchersAreFinite DEF GonePanels
<1>3. ASSUME UNCHANGED watchers, \A q \in watchers : poller[q].pc \in Gone => poller'[q].pc \in Gone
      PROVE  Cardinality(GonePanels') \in Nat /\ Cardinality(GonePanels) <= Cardinality(GonePanels')
  <2>1. PICK S : S = GonePanels'
    OBVIOUS
  <2>2. S \subseteq watchers /\ GonePanels \subseteq S
    BY <1>3, <2>1 DEF GonePanels
  <2> QED  BY <2>1, <2>2, WatchersAreFinite, FS_Subset
<1>4. ASSUME UNCHANGED watchers, lostCount' \in {lostCount, 0},
             \A q \in watchers : poller[q].pc \in Gone => poller'[q].pc \in Gone
      PROVE  LossesAreFew'
  BY <1>1, <1>2, <1>3, <1>4 DEF LossesAreFew
<1>5. CASE Decide \/ Outlive \/ Elapse \/ StartAnother \/ Shutdown \/ UNCHANGED deviceVars
  BY <1>4, <1>5 DEF Decide, Outlive, Elapse, StartAnother, Shutdown, deviceVars, worldVars, sessionVars
<1>6. ASSUME NEW p \in Pollers, PollOn(p) PROVE LossesAreFew'
  <2>1. /\ UNCHANGED watchers /\ p \in watchers
        /\ \A q \in watchers : poller[q].pc \in Gone => poller'[q].pc \in Gone
    BY <1>6, PollKeepsWorld, GoneStayGone
  <2>2. CASE Count(p)
    <3>1. lostCount' = lostCount + 1 /\ poller[p].pc = "count"
      BY <2>2 DEF Count, PollerAt
    <3>2. CASE ~Spent(lostCount + 1)
      BY <1>1, <1>2, <1>3, <2>1, <3>1, <3>2 DEF Spent, LossesAreFew
    <3>3. CASE Spent(lostCount + 1)
      <4>1. Moves(p, "end", "")
        BY <2>2, <3>3, PollMoves
      <4>2. GonePanels' = GonePanels \union {p} /\ p \notin GonePanels
        BY <1>1, <2>1, <3>1, <4>1 DEF Moves, GonePanels, Gone
      <4>3. Cardinality(GonePanels') = Cardinality(GonePanels) + 1
        BY <1>2, <4>2, FS_AddElement
      <4> QED  BY <1>1, <1>2, <3>1, <4>3 DEF LossesAreFew
    <3> QED  BY <3>2, <3>3
  <2>3. CASE ~Count(p)
    <3>1. lostCount' \in {lostCount, 0}
      BY <1>6, <2>3 DEF PollOn, FindNothing, Find, Recall, ExpireNow, Proceed, Mark, AskVendor,
         AskSecond, Wait, Cache, FailSession, Keep, FinishSession, HandOver, ForgetFailed, sessionVars
    <3> QED  BY <1>4, <2>1, <3>1
  <2> QED  BY <2>2, <2>3
<1> QED  BY <1>5, <1>6 DEF DeviceNext

(* A lone panel's count of losses does not run ahead of the losses one     *)
(* after the other.                                                        *)
LEMMA LoneIsOne ==
    ASSUME DeviceInv, Alone, NEW p \in watchers
    PROVE  watchers = {p}
<1>1. IsFiniteSet(watchers)
  BY WatchersAreFinite
<1> QED  BY <1>1, FS_Singleton DEF Alone

NearStreak(p) ==
    /\ poller[p].pc \in {"idle", "found", "due", "ask"} => streak = Budget \/ lostCount <= streak
    /\ poller[p].pc = "count" => streak = Budget \/ lostCount < streak

LossesAreStreaks == Alone => \A p \in watchers : NearStreak(p)

LEMMA StreaksStep == DeviceInv /\ LossesAreStreaks /\ [DeviceNext]_deviceVars => LossesAreStreaks'
<1> SUFFICES ASSUME DeviceInv, LossesAreStreaks, [DeviceNext]_deviceVars, Alone'
             PROVE  \A q \in watchers' : NearStreak(q)'
  BY DEF LossesAreStreaks
<1>1. /\ lostCount \in Nat /\ streak \in 0..Budget /\ Budget \in Nat \ {0}
      /\ watchers \subseteq Pollers
  BY BudgetAssumption DEF DeviceInv, SessionTyped, HistoryTyped, WorldTyped, Pollers
<1>2. CASE Decide \/ Outlive \/ Elapse \/ StartAnother \/ Shutdown \/ UNCHANGED deviceVars
  <2>1. UNCHANGED <<watchers, lostCount, streak, poller>>
    BY <1>2 DEF Decide, Outlive, Elapse, StartAnother, Shutdown, deviceVars, worldVars,
       sessionVars, historyVars
  <2> QED  BY <2>1 DEF LossesAreStreaks, NearStreak, Alone
<1>3. ASSUME NEW p \in Pollers, PollOn(p) PROVE \A q \in watchers' : NearStreak(q)'
  <2>1. watchers' = {p} /\ p \in watchers /\ NearStreak(p)
    BY <1>3, PollKeepsWorld, LoneIsOne DEF Alone, LossesAreStreaks
  <2> SUFFICES NearStreak(p)'
    BY <2>1
  <2>2. CASE FindNothing(p) \/ ForgetFailed(p) \/ HandOver(p) \/ ExpireNow(p) \/ FailSession(p)
             \/ Cache(p) \/ Keep(p) \/ FinishSession(p)
    BY <2>2, PollMoves DEF Moves, NearStreak
  <2>3. CASE Recall(p)
    <3>1. poller'[p].pc = "ended"
      BY <2>3, PollMoves DEF Moves
    <3> QED  BY <3>1 DEF NearStreak
  <2>4. CASE Find(p) \/ Mark(p) \/ Proceed(p)
    <3>1. /\ UNCHANGED <<lostCount, streak>> /\ poller[p].pc \in {"idle", "found", "due"}
          /\ poller'[p].pc # "count"
      BY <2>4, PollMoves DEF Find, Mark, Proceed, PollerAt, Moves, sessionVars, historyVars
    <3> QED  BY <2>1, <3>1 DEF NearStreak
  <2>5. CASE Wait(p)
    <3>1. lostCount' = 0 /\ streak' = streak /\ poller'[p].pc = "idle"
      BY <2>5, PollMoves DEF Wait, Moves, historyVars
    <3> QED  BY <1>1, <3>1 DEF NearStreak
  <2>6. CASE Count(p)
    <3>1. /\ lostCount' = lostCount + 1 /\ streak' = streak /\ poller[p].pc = "count"
          /\ poller'[p].pc # "count"
      BY <2>6, PollMoves DEF Count, Moves, PollerAt
    <3> QED  BY <1>1, <2>1, <3>1 DEF NearStreak
  <2>7. CASE AskVendor(p)
    <3>1. PICK reply \in Replies :
            /\ Moves(p, Judged(p, reply), "")
            /\ streak' = IF ~(reply = "lost" /\ Alone) THEN 0
                         ELSE IF streak < Budget THEN streak + 1 ELSE streak
      BY <2>7, AskMoves
    <3>2. /\ poller'[p].pc \in {"keep", "wait", "end", "count", "second", "cache"}
          /\ poller'[p].pc = "count" => reply = "lost"
      <4>1. flow \in Flows
        BY DEF DeviceInv, WorldTyped
      <4>2. poller'[p].pc = Judged(p, reply)
        BY <3>1 DEF Moves
      <4> QED  BY <4>1, <4>2, JudgedIs
    <3>3. lostCount' = lostCount /\ poller[p].pc = "ask" /\ Alone
      BY <2>1, <2>7, <1>3, PollKeepsWorld DEF AskVendor, PollerAt, sessionVars, Alone
    <3>4. CASE poller'[p].pc = "count"
      <4>1. streak' = IF streak < Budget THEN streak + 1 ELSE streak
        <5>1. reply = "lost" /\ Alone
          BY <3>2, <3>3, <3>4
        <5>2. CASE streak < Budget
          BY <3>1, <5>1, <5>2
        <5>3. CASE ~(streak < Budget)
          BY <3>1, <5>1, <5>3
        <5> QED  BY <5>2, <5>3
      <4> QED  BY <1>1, <2>1, <3>3, <3>4, <4>1 DEF NearStreak
    <3> QED  BY <3>2, <3>4 DEF NearStreak
  <2>8. CASE AskSecond(p)
    <3>1. PICK reply \in Replies : Moves(p, SecondCall[flow][reply], "") /\ flow \in TwoCalls
      BY <2>8, AskSecondMoves
    <3>2. poller'[p].pc \in {"keep", "wait", "end"}
      BY <3>1, SecondCallIs DEF Moves
    <3> QED  BY <3>2 DEF NearStreak
  <2> QED  BY <1>3, <2>2, <2>3, <2>4, <2>5, <2>6, <2>7, <2>8 DEF PollOn
<1> QED  BY <1>2, <1>3 DEF DeviceNext
(* Only a lone panel gives up on losses, it is gone then, and has had its   *)
(* fill of them.                                                           *)
GivingUpIsFair ==
    abandoned =>
        /\ Alone
        /\ \A p \in watchers : poller[p].pc \in Gone
        /\ (flow = "minimax" => watchers \cap Pages = {}) => streak = Budget

LEMMA FairStep ==
    DeviceInv /\ LossesAreStreaks /\ GivingUpIsFair /\ [DeviceNext]_deviceVars => GivingUpIsFair'
<1> SUFFICES ASSUME DeviceInv, LossesAreStreaks, GivingUpIsFair, [DeviceNext]_deviceVars
             PROVE  GivingUpIsFair'
  OBVIOUS
<1>1. ASSUME UNCHANGED <<flow, watchers, abandoned, streak>>,
             \A q \in watchers : poller[q].pc \in Gone => poller'[q].pc \in Gone
      PROVE  GivingUpIsFair'
  BY <1>1 DEF GivingUpIsFair, Alone
<1>2. CASE Decide \/ Outlive \/ Elapse \/ StartAnother \/ Shutdown \/ UNCHANGED deviceVars
  <2>1. UNCHANGED <<flow, watchers, abandoned, streak, poller>>
    BY <1>2 DEF Decide, Outlive, Elapse, StartAnother, Shutdown, deviceVars, worldVars, historyVars
  <2> QED  BY <1>1, <2>1
<1>3. ASSUME NEW p \in Pollers, PollOn(p) PROVE GivingUpIsFair'
  <2>1. /\ UNCHANGED <<flow, watchers>> /\ p \in watchers
        /\ \A q \in watchers : poller[q].pc \in Gone => poller'[q].pc \in Gone
    BY <1>3, PollKeepsWorld, GoneStayGone
  <2>2. CASE AskVendor(p)
    <3>1. ~abandoned
      BY <2>1, <2>2 DEF GivingUpIsFair, AskVendor, PollerAt, Gone
    <3>2. PICK reply \in Replies :
            /\ Moves(p, Judged(p, reply), "")
            /\ abandoned' = (abandoned \/ (Alone /\ reply = "lost" /\ Judged(p, reply) = "end"))
      BY <2>2, AskMoves
    <3>3. flow \in Flows
      BY DEF DeviceInv, WorldTyped
    <3> SUFFICES ASSUME abandoned' PROVE GivingUpIsFair'
      BY DEF GivingUpIsFair
    <3>4. Alone /\ reply = "lost" /\ Judged(p, reply) = "end"
      BY <3>1, <3>2
    <3>5. flow = "minimax" /\ p \in Pages
      BY <3>3, <3>4, JudgedIs
    <3>6. watchers = {p} /\ poller'[p].pc \in Gone
      BY <2>1, <3>2, <3>4, LoneIsOne DEF Moves, Gone
    <3> QED  BY <2>1, <3>4, <3>5, <3>6 DEF GivingUpIsFair, Alone
  <2>3. CASE Count(p)
    <3>1. ~abandoned /\ poller[p].pc = "count" /\ UNCHANGED streak
      BY <2>1, <2>3 DEF GivingUpIsFair, Count, PollerAt, Gone
    <3>2. abandoned' = (abandoned \/ (Alone /\ Spent(lostCount + 1)))
      BY <2>3 DEF Count
    <3> SUFFICES ASSUME abandoned' PROVE GivingUpIsFair'
      BY DEF GivingUpIsFair
    <3>3. Alone /\ Spent(lostCount + 1)
      BY <3>1, <3>2
    <3>4. watchers = {p} /\ poller'[p].pc \in Gone
      BY <2>1, <2>3, <3>3, LoneIsOne, PollMoves DEF Moves, Gone
    <3>5. streak = Budget
      <4>1. streak = Budget \/ lostCount < streak
        BY <2>1, <3>1, <3>3 DEF LossesAreStreaks, NearStreak
      <4>2. lostCount \in Nat /\ streak \in 0..Budget /\ Budget \in Nat
        BY BudgetAssumption DEF DeviceInv, SessionTyped, HistoryTyped
      <4>3. lostCount + 1 >= Budget
        BY <3>3 DEF Spent
      <4> QED  BY <4>1, <4>2, <4>3
    <3> QED  BY <2>1, <3>1, <3>3, <3>4, <3>5 DEF GivingUpIsFair, Alone
  <2>4. CASE ~AskVendor(p) /\ ~Count(p)
    <3>1. UNCHANGED <<abandoned, streak>>
      BY <1>3, <2>4 DEF PollOn, FindNothing, Find, Recall, ExpireNow, Proceed, Mark, AskSecond, Wait,
         Cache, FailSession, Keep, FinishSession, HandOver, ForgetFailed, historyVars
    <3> QED  BY <1>1, <2>1, <3>1
  <2> QED  BY <2>2, <2>3, <2>4
<1> QED  BY <1>2, <1>3 DEF DeviceNext

MeasureInv == FewAreDue /\ LossesAreFew /\ LossesAreStreaks /\ GivingUpIsFair

LEMMA MeasureInit == DeviceInit => MeasureInv
<1> SUFFICES ASSUME DeviceInit PROVE MeasureInv
  OBVIOUS
<1>1. DeviceInv /\ lostCount = 0 /\ streak = 0 /\ ~abandoned
  BY DeviceStarts DEF DeviceInit
<1>2. Cardinality(GonePanels) \in Nat
  BY <1>1, WatchersAreFinite DEF GonePanels
<1>3. LossesAreFew
  BY <1>1, <1>2, BudgetAssumption DEF LossesAreFew
<1>4. LossesAreStreaks
  <2>1. \A p \in watchers : poller[p].pc = "idle"
    BY DEF DeviceInit, Pollers
  <2> QED  BY <1>1, <2>1 DEF LossesAreStreaks, NearStreak
<1> QED  BY <1>1, <1>3, <1>4, FewInit DEF MeasureInv, GivingUpIsFair

LEMMA MeasureStep ==
    DeviceInv /\ MeasureInv /\ [DeviceNext]_deviceVars => MeasureInv'
  BY FewStep, LossesStep, StreaksStep, FairStep DEF MeasureInv

LEMMA MeasureMeans == DeviceInv /\ MeasureInv => PollsAreMeasured /\ DeviceTypeOK
<1> SUFFICES ASSUME DeviceInv, MeasureInv PROVE PollsAreMeasured /\ DeviceTypeOK
  OBVIOUS
<1>1. /\ Cardinality(watchers) \in Nat
      /\ Cardinality(DuePanels) \in Nat /\ Cardinality(DuePanels) <= Cardinality(watchers)
      /\ Cardinality(GonePanels) \in Nat /\ Cardinality(GonePanels) <= Cardinality(watchers)
  BY WatchersAreFinite DEF DuePanels, GonePanels
<1>2. AsksAreFew
  <2> SUFFICES ASSUME flow \in Paced PROVE asks <= Cardinality(watchers)
    BY DEF AsksAreFew
  <2>1. asks + Cardinality(DuePanels) <= Cardinality(watchers) /\ asks \in Nat
    BY DEF MeasureInv, FewAreDue, DeviceInv, HistoryTyped
  <2> QED  BY <1>1, <2>1
<1>3. FlakyIsForgiven
  <2> SUFFICES ASSUME abandoned, flow = "minimax" => watchers \cap Pages = {}
               PROVE  streak >= Budget
    BY DEF FlakyIsForgiven
  <2>1. streak = Budget
    BY DEF MeasureInv, GivingUpIsFair
  <2> QED  BY <2>1, BudgetAssumption
<1>4. lostCount \in 0..Budget + Cardinality(watchers) - 1
  <2>1. lostCount \in Nat /\ lostCount < Budget + Cardinality(GonePanels)
    BY DEF MeasureInv, LossesAreFew, DeviceInv, SessionTyped
  <2> QED  BY <1>1, <2>1, BudgetAssumption
<1>5. ASSUME NEW p \in Pollers
      PROVE  /\ poller[p].pc \in PollSteps /\ poller[p].told \in {"", "success", "error"}
             /\ poller[p].told = "" <=> poller[p].pc # "ended"
  BY DEF DeviceInv, PollerTyped, PanelIsSound
<1>6. {registered, done, cached, overdue, rested, used, abandoned, spoilt, cut} \subseteq BOOLEAN
  BY DEF DeviceInv, WorldTyped, SessionTyped, HistoryTyped
<1>7. /\ flow \in Flows /\ watchers \in Watchings /\ user \in {"away", "approved", "declined"}
      /\ verdict \in {"pending", "success", "error"} /\ streak \in 0..Budget /\ asks \in Nat
  BY DEF DeviceInv, WorldTyped, SessionTyped, HistoryTyped
<1> QED  BY <1>2, <1>3, <1>4, <1>5, <1>6, <1>7 DEF PollsAreMeasured, DeviceTypeOK, PollSteps

(* For any panels and any plugins: within an interval each panel asks the  *)
(* vendor once at most, and a lone one that gives up has lost as many       *)
(* replies in a row as the budget allows.                                  *)
THEOREM PollsMeasured == DeviceSpec => []PollsAreMeasured
  BY DeviceStarts, DeviceStep, MeasureInit, MeasureStep, MeasureMeans, PTL DEF DeviceSpec
(* Grants. Once the vendor has granted a code there is a panel that has    *)
(* the grant in its hands until it hands it over.                          *)
Handing(p) ==
    \/ poller[p].pc \in {"keep", "finish", "forget"}
    \/ flow = "cline" /\ poller[p].pc = "second"
    \/ poller[p].told = "success"

GrantIsHeld == flow # "codebuddy" /\ used /\ ~spoilt => \E p \in watchers : Handing(p)

(* What the calls of the vendor do about the grant.                        *)
LEMMA Granted ==
    ASSUME DeviceInv, NEW p \in Pollers, PollOn(p), used', ~spoilt'
    PROVE  /\ ~spoilt
           /\ used \/ poller'[p].pc = IF flow = "cline" THEN "second"
                                      ELSE IF flow = "codebuddy" THEN "cache" ELSE "keep"
<1>1. CASE AskVendor(p)
  <2>1. PICK reply \in Replies :
          /\ IF flow = "atomcode" THEN JustLooking(reply) ELSE Granting(reply)
          /\ Moves(p, Judged(p, reply), "")
    BY <1>1, AskMoves
  <2>2. flow \in Flows
    BY DEF DeviceInv, WorldTyped
  <2>3. CASE flow = "atomcode"
    BY <2>1, <2>3 DEF JustLooking
  <2>4. CASE flow # "atomcode"
    <3>1. ~spoilt /\ (used \/ reply = "yes")
      BY <2>1, <2>4 DEF Granting
    <3>2. poller'[p].pc = Judged(p, reply)
      BY <2>1 DEF Moves
    <3> QED  BY <2>2, <2>4, <3>1, <3>2, JudgedIs
  <2> QED  BY <2>3, <2>4
<1>2. CASE AskSecond(p)
  <2>1. PICK reply \in Replies :
          /\ flow # "atomcode" => used' = used
          /\ flow = "atomcode" => used' = (used \/ reply = "yes")
          /\ spoilt' = (spoilt \/ SecondCall[flow][reply] = "end")
          /\ Moves(p, SecondCall[flow][reply], "")
    BY <1>2, AskSecondMoves
  <2>2. flow \in TwoCalls
    BY <1>2, AskSecondMoves
  <2>3. ~spoilt /\ (used \/ (flow = "atomcode" /\ reply = "yes"))
    BY <2>1
  <2>4. reply = "yes" => poller'[p].pc = "keep"
    BY <2>1, <2>2, SecondCallIs DEF Moves
  <2> QED  BY <2>3, <2>4
<1>3. CASE ~AskVendor(p) /\ ~AskSecond(p)
  <2>1. UNCHANGED <<used, spoilt>>
    BY <1>3 DEF PollOn, FindNothing, Find, Recall, ExpireNow, Proceed, Mark, Wait, Count,
       Cache, FailSession, Keep, FinishSession, HandOver, ForgetFailed, historyVars
  <2> QED  BY <2>1
<1> QED  BY <1>1, <1>2, <1>3

LEMMA OthersStay ==
    ASSUME DeviceInv, NEW p \in Pollers, PollOn(p)
    PROVE  \A q \in Pollers \ {p} : poller'[q] = poller[q]
<1>1. DOMAIN poller = Pollers
  BY DEF DeviceInv, PollerTyped
<1>2. \E record : poller' = [poller EXCEPT ![p] = record]
  BY DEF PollOn, FindNothing, Find, Recall, ExpireNow, Proceed, Mark, AskVendor, AskSecond, Wait,
     Count, Cache, FailSession, Keep, FinishSession, HandOver, ForgetFailed, PollerGoes, Tells
<1> QED  BY <1>1, <1>2

LEMMA HandingStays ==
    ASSUME DeviceInv, NEW p \in Pollers, PollOn(p), ~spoilt', flow # "codebuddy", Handing(p)
    PROVE  Handing(p)'
<1>1. UNCHANGED flow
  BY PollKeepsWorld
<1>2. poller[p].pc # "ended" /\ poller[p].told # "success"
  <2>1. poller[p].pc # "ended"
    BY DEF PollerAt, PollOn, FindNothing, Find, Recall, ExpireNow, Proceed, Mark, AskVendor,
       AskSecond, Wait, Count, Cache, FailSession, Keep, FinishSession, HandOver, ForgetFailed
  <2> QED  BY <2>1 DEF DeviceInv, PanelIsSound
<1>3. Keep(p) \/ FinishSession(p) \/ HandOver(p) \/ (flow = "cline" /\ AskSecond(p))
  BY <1>2 DEF Handing, PollerAt, PollOn, FindNothing, Find, Recall, ExpireNow, Proceed, Mark,
     AskVendor, AskSecond, Wait, Count, Cache, FailSession, ForgetFailed
<1>4. CASE Keep(p) \/ FinishSession(p) \/ HandOver(p)
  BY <1>4, PollMoves DEF Moves, Handing
<1>5. CASE flow = "cline" /\ AskSecond(p)
  <2>1. PICK reply \in Replies :
          /\ spoilt' = (spoilt \/ SecondCall[flow][reply] = "end")
          /\ Moves(p, SecondCall[flow][reply], "")
    BY <1>5, AskSecondMoves
  <2>2. flow \in TwoCalls /\ SecondCall[flow][reply] # "end"
    BY <1>5, <2>1 DEF TwoCalls
  <2>3. SecondCall[flow][reply] = "keep"
    BY <1>5, <2>2, SecondCallIs
  <2> QED  BY <2>1, <2>3 DEF Moves, Handing
<1> QED  BY <1>3, <1>4, <1>5

LEMMA HeldStep == DeviceInv /\ GrantIsHeld /\ [DeviceNext]_deviceVars => GrantIsHeld'
<1> SUFFICES ASSUME DeviceInv, GrantIsHeld, [DeviceNext]_deviceVars,
                    flow' # "codebuddy", used', ~spoilt'
             PROVE  \E q \in watchers' : Handing(q)'
  BY DEF GrantIsHeld
<1>1. CASE Decide \/ Outlive \/ Elapse \/ StartAnother \/ Shutdown \/ UNCHANGED deviceVars
  <2>1. UNCHANGED <<flow, watchers, used, spoilt, poller>>
    BY <1>1 DEF Decide, Outlive, Elapse, StartAnother, Shutdown, deviceVars, worldVars, historyVars
  <2> QED  BY <2>1 DEF GrantIsHeld, Handing
<1>2. ASSUME NEW p \in Pollers, PollOn(p) PROVE \E q \in watchers' : Handing(q)'
  <2>1. UNCHANGED <<flow, watchers>> /\ p \in watchers /\ flow \in Flows /\ watchers \subseteq Pollers
    BY <1>2, PollKeepsWorld DEF DeviceInv, WorldTyped, Pollers
  <2>2. CASE used
    <3>1. ~spoilt
      BY <1>2, Granted
    <3>2. PICK q \in watchers : Handing(q)
      BY <2>1, <2>2, <3>1 DEF GrantIsHeld
    <3>3. CASE q = p
      BY <1>2, <2>1, <3>2, <3>3, HandingStays
    <3>4. CASE q # p
      <4>1. poller'[q] = poller[q]
        BY <1>2, <2>1, <3>4, OthersStay
      <4> QED  BY <2>1, <3>2, <4>1 DEF Handing
    <3> QED  BY <3>3, <3>4
  <2>3. CASE ~used
    BY <1>2, <2>1, <2>3, Granted DEF Handing
  <2> QED  BY <2>2, <2>3
<1> QED  BY <1>1, <1>2 DEF DeviceNext

(* A lone panel, while the session is neither overdue nor dropped: the     *)
(* session is there until the panel is told, is not done before the panel  *)
(* has seen to it, and a grant is in the panel's hands, or in codebuddy's  *)
(* session for the next poll.                                              *)
Steady(p) ==
    /\ registered \/ poller[p].pc = "ended"
    /\ done => poller[p].pc \in {"forget", "forget failed", "ended"}
    /\ used /\ ~spoilt =>
         \/ Handing(p)
         \/ flow = "codebuddy" /\ poller[p].pc = "cache"
         \/ /\ flow = "codebuddy" /\ cached
            /\ poller[p].pc \in {"second", "wait", "idle", "found"}

LoneIsSteady == Alone /\ ~overdue /\ ~cut => \A p \in watchers : Steady(p)
(* One lemma per kind of step of the panel.                                *)
LEMMA SteadyFinds ==
    ASSUME DeviceInv, NEW p \in Pollers, Steady(p), ~overdue, UNCHANGED flow,
           \/ FindNothing(p) \/ Find(p) \/ Recall(p) \/ ExpireNow(p) \/ Proceed(p) \/ Mark(p)
    PROVE  Steady(p)'
<1>1. ~FindNothing(p) /\ ~Recall(p) /\ ~ExpireNow(p)
  BY DEF Steady, FindNothing, Recall, ExpireNow, PollerAt, Expired
<1>2. CASE Find(p)
  <2>1. UNCHANGED <<registered, done, cached, used, spoilt>> /\ poller[p].pc = "idle"
        /\ poller[p].told # "success"
    BY <1>2 DEF Find, PollerAt, sessionVars, historyVars, DeviceInv, PanelIsSound
  <2>2. poller'[p].pc = "found"
    BY <1>2, PollMoves DEF Moves
  <2> QED  BY <2>1, <2>2 DEF Steady, Handing
<1>3. CASE Proceed(p)
  <2>1. UNCHANGED <<registered, done, cached, used, spoilt>> /\ poller[p].pc = "found"
        /\ poller[p].told # "success"
    BY <1>3 DEF Proceed, PollerAt, sessionVars, historyVars, DeviceInv, PanelIsSound
  <2>2. ~done /\ registered /\ (used /\ ~spoilt => flow = "codebuddy" /\ cached)
    BY <2>1 DEF Steady, Handing
  <2>3. \/ poller'[p].pc = "idle"
        \/ flow \in Paced /\ poller'[p].pc = "due"
        \/ cached /\ poller'[p].pc = "second"
        \/ ~cached /\ poller'[p].pc = "ask"
    BY <1>3, PollMoves DEF Moves
  <2>4. used' /\ ~spoilt' => flow' = "codebuddy" /\ cached' /\ poller'[p].pc \in {"idle", "second"}
    BY <2>1, <2>2, <2>3 DEF Paced
  <2> QED  BY <2>1, <2>2, <2>4 DEF Steady
<1>4. CASE Mark(p)
  <2>1. UNCHANGED <<registered, done, used, spoilt>> /\ poller[p].pc = "due"
        /\ poller[p].told # "success"
    BY <1>4 DEF Mark, PollerAt, sessionVars, DeviceInv, PanelIsSound
  <2>2. ~done /\ registered /\ ~(used /\ ~spoilt)
    BY <2>1 DEF Steady, Handing
  <2> QED  BY <2>1, <2>2 DEF Steady
<1> QED  BY <1>1, <1>2, <1>3, <1>4

LEMMA SteadyAsks ==
    ASSUME DeviceInv, NEW p \in Pollers, PollOn(p), Steady(p), UNCHANGED flow, AskVendor(p) \/ AskSecond(p)
    PROVE  Steady(p)'
<1>1. UNCHANGED <<registered, done, cached>> /\ poller[p].pc \in {"ask", "second"}
      /\ poller[p].told # "success"
  BY DEF AskVendor, AskSecond, PollerAt, sessionVars, DeviceInv, PanelIsSound
<1>2. ~done /\ registered
  BY <1>1 DEF Steady
<1>3. CASE ~(used' /\ ~spoilt')
  BY <1>1, <1>2, <1>3 DEF Steady
<1>4. CASE used' /\ ~spoilt' /\ ~used
  <2>1. poller'[p].pc = IF flow = "cline" THEN "second"
                        ELSE IF flow = "codebuddy" THEN "cache" ELSE "keep"
    BY <1>4, Granted
  <2> QED  BY <1>1, <1>2, <2>1 DEF Steady, Handing
<1>5. CASE used' /\ ~spoilt' /\ used
  <2>1. ~spoilt
    BY <1>5, Granted
  <2>2. poller[p].pc = "second" /\ (flow = "cline" \/ (flow = "codebuddy" /\ cached))
    BY <1>1, <1>5, <2>1 DEF Steady, Handing
  <2>3. AskSecond(p)
    BY <2>2 DEF AskVendor, PollerAt
  <2>4. PICK reply \in Replies :
          /\ spoilt' = (spoilt \/ SecondCall[flow][reply] = "end")
          /\ Moves(p, SecondCall[flow][reply], "")
    BY <2>3, AskSecondMoves
  <2>5. flow \in TwoCalls /\ SecondCall[flow][reply] # "end"
    BY <1>5, <2>2, <2>4 DEF TwoCalls
  <2>6. /\ poller'[p].pc \in {"keep", "wait"}
        /\ poller'[p].pc = "wait" => flow = "codebuddy"
    BY <2>4, <2>5, SecondCallIs DEF Moves
  <2>7. poller'[p].pc = "wait" => cached
    BY <2>2, <2>6
  <2> QED  BY <1>1, <1>2, <2>6, <2>7 DEF Steady, Handing
<1> QED  BY <1>3, <1>4, <1>5

LEMMA SteadyEnds ==
    ASSUME DeviceInv, NEW p \in Pollers, Steady(p), UNCHANGED flow,
           \/ Wait(p) \/ Count(p) \/ Cache(p) \/ FailSession(p) \/ Keep(p) \/ FinishSession(p)
           \/ HandOver(p) \/ ForgetFailed(p)
    PROVE  Steady(p)'
<1>1. UNCHANGED <<used, spoilt>>
  BY DEF Wait, Count, Cache, FailSession, Keep, FinishSession, HandOver, ForgetFailed, historyVars
<1>2. poller[p].pc # "ended" => poller[p].told # "success"
  BY DEF DeviceInv, PanelIsSound
<1>3. CASE Wait(p)
  <2>1. UNCHANGED <<registered, done, cached>> /\ poller[p].pc = "wait" /\ poller'[p].pc = "idle"
    BY <1>3, PollMoves DEF Wait, PollerAt, Moves
  <2> QED  BY <1>1, <1>2, <2>1 DEF Steady, Handing
<1>4. CASE Count(p)
  <2>1. UNCHANGED <<registered, done>> /\ poller[p].pc = "count"
    BY <1>4 DEF Count, PollerAt
  <2> QED  BY <1>1, <1>2, <2>1 DEF Steady, Handing
<1>5. CASE Cache(p)
  <2>1. /\ UNCHANGED <<registered, done>> /\ cached' = TRUE
        /\ poller[p].pc = "cache" /\ poller'[p].pc = "second" /\ flow = "codebuddy"
    BY <1>5, PollMoves DEF Cache, PollerAt, Moves, DeviceInv, PanelIsSound
  <2> QED  BY <1>1, <1>2, <2>1 DEF Steady, Handing
<1>6. CASE FailSession(p)
  <2>1. UNCHANGED registered /\ poller[p].pc = "end" /\ poller'[p].pc \in {"ended", "forget failed"}
    BY <1>6, PollMoves DEF FailSession, PollerAt, Moves
  <2> QED  BY <1>1, <1>2, <2>1 DEF Steady, Handing
<1>7. CASE Keep(p)
  <2>1. /\ UNCHANGED registered /\ poller[p].pc = "keep"
        /\ done' = (done \/ flow \notin FinishesLater)
        /\ \/ flow \in FinishesLater /\ poller'[p].pc = "finish"
           \/ flow \notin FinishesLater /\ poller'[p].pc = "forget"
    BY <1>7, PollMoves DEF Keep, PollerAt, Moves
  <2>2. ~done /\ registered
    BY <2>1 DEF Steady
  <2>3. poller'[p].pc \in {"finish", "forget"} /\ (done' => poller'[p].pc = "forget")
    BY <2>1, <2>2
  <2> QED  BY <2>1, <2>2, <2>3 DEF Steady, Handing
<1>8. CASE FinishSession(p)
  <2>1. UNCHANGED registered /\ poller[p].pc = "finish" /\ poller'[p].pc = "forget"
    BY <1>8, PollMoves DEF FinishSession, PollerAt, Moves
  <2> QED  BY <2>1 DEF Steady, Handing
<1>9. CASE HandOver(p)
  <2>1. poller'[p].pc = "ended" /\ poller'[p].told = "success"
    BY <1>9, PollMoves DEF Moves
  <2> QED  BY <2>1 DEF Steady, Handing
<1>10. CASE ForgetFailed(p)
  <2>1. poller[p].pc = "forget failed" /\ poller'[p].pc = "ended"
    BY <1>10, PollMoves DEF ForgetFailed, PollerAt, Moves
  <2> QED  BY <1>1, <1>2, <2>1 DEF Steady, Handing
<1> QED  BY <1>3, <1>4, <1>5, <1>6, <1>7, <1>8, <1>9, <1>10

LEMMA SteadyStep == DeviceInv /\ LoneIsSteady /\ [DeviceNext]_deviceVars => LoneIsSteady'
<1> SUFFICES ASSUME DeviceInv, LoneIsSteady, [DeviceNext]_deviceVars, Alone', ~overdue', ~cut'
             PROVE  \A p \in watchers' : Steady(p)'
  BY DEF LoneIsSteady
<1>1. CASE Outlive \/ StartAnother \/ Shutdown
  BY <1>1 DEF Outlive, StartAnother, Shutdown
<1>2. CASE Decide \/ Elapse \/ UNCHANGED deviceVars
  <2>1. UNCHANGED <<flow, watchers, overdue, cut, registered, done, cached, used, spoilt, poller>>
    BY <1>2 DEF Decide, Elapse, deviceVars, worldVars, sessionVars, historyVars
  <2> QED  BY <2>1 DEF LoneIsSteady, Steady, Handing, Alone
<1>3. ASSUME NEW p \in Pollers, PollOn(p) PROVE \A q \in watchers' : Steady(q)'
  <2>1. UNCHANGED <<flow, watchers, overdue, cut>> /\ p \in watchers
    BY <1>3, PollKeepsWorld
  <2>2. watchers' = {p} /\ Steady(p) /\ ~overdue
    BY <2>1, LoneIsOne DEF LoneIsSteady, Alone
  <2>3. Steady(p)'
    BY <1>3, <2>1, <2>2, SteadyFinds, SteadyAsks, SteadyEnds DEF PollOn
  <2> QED  BY <2>2, <2>3
<1> QED  BY <1>1, <1>2, <1>3 DEF DeviceNext

LEMMA GrantsInit == DeviceInit => GrantIsHeld /\ LoneIsSteady
<1> SUFFICES ASSUME DeviceInit PROVE GrantIsHeld /\ LoneIsSteady
  OBVIOUS
<1>1. ~used /\ registered /\ ~done
  BY DEF DeviceInit
<1> QED  BY <1>1 DEF GrantIsHeld, LoneIsSteady, Steady

LEMMA GrantsMean == DeviceInv /\ GrantIsHeld /\ LoneIsSteady => GrantsAreHanded
<1> SUFFICES ASSUME DeviceInv, GrantIsHeld, LoneIsSteady PROVE GrantsAreHanded
  OBVIOUS
<1>1. \A p \in watchers : p \in Pollers /\ PanelIsSound(p)
  BY DEF DeviceInv, WorldTyped, Pollers
<1>2. GrantIsNotAnError
  <2> SUFFICES ASSUME Alone, used, ~spoilt, ~overdue, ~cut, NEW p \in watchers,
                      poller[p].told = "error"
               PROVE  FALSE
    BY DEF GrantIsNotAnError
  <2>1. poller[p].pc = "ended" /\ Steady(p)
    BY <1>1 DEF PanelIsSound, LoneIsSteady
  <2> QED  BY <2>1 DEF Steady, Handing
<1>3. GrantReachesSomebody
  <2> SUFFICES ASSUME flow # "codebuddy", used, ~spoilt, \A p \in watchers : poller[p].pc = "ended"
               PROVE  \E p \in watchers : poller[p].told = "success"
    BY DEF GrantReachesSomebody
  <2> QED  BY DEF GrantIsHeld, Handing
<1> QED  BY <1>2, <1>3 DEF GrantsAreHanded

(* For any panels and any plugins: what the vendor has granted is handed   *)
(* to a panel, however their polls interleave and whatever the session      *)
(* says by then, and a lone panel is not told of an error instead.         *)
THEOREM GrantsHanded == DeviceSpec => []GrantsAreHanded
  BY DeviceStarts, DeviceStep, GrantsInit, HeldStep, SteadyStep, GrantsMean, PTL DEF DeviceSpec

----------------------------------------------------------------------------
(* The schedulers of renewals and of sign-ins.                             *)

TimerRecords == [armed : BOOLEAN, generation : Nat, cancelled : BOOLEAN]
WaiterRecords ==
    [at : {"idle", "asleep", "woken", "decided", "renewing"}, seen : Nat, late : Nat,
     once : BOOLEAN, alive : BOOLEAN,
     gave : {"none", "stopped", "canceled", "context", "terminal"}]
SignerRecords ==
    [at : {"idle", "pass", "signing", "rest"}, left : Seq(Signed), alive : BOOLEAN, late : Nat,
     done : Seq(Signed), through : SUBSET Signed]

TimersTyped ==
    /\ outside \in 0..MaxCalls /\ timer.generation <= outside
    /\ timer \in TimerRecords /\ waiter \in WaiterRecords
    /\ roster \in Seq(Signed) /\ signer \in SignerRecords

(* What was decided before the stop is begun, and nothing after it.        *)
RunIsQuiet ==
    \/ waiter.late = 0
    \/ waiter.late = 1 /\ ~timer.armed /\ waiter.at \in {"renewing", "idle"}
SignerIsQuiet ==
    \/ signer.late = 0
    \/ signer.late = 1 /\ ~signer.alive /\ signer.at \in {"signing", "rest", "idle"}

(* A pass has attempted some of its accounts and has the others before it. *)
PassIsSound ==
    /\ IsInjective(roster) /\ IsInjective(signer.left) /\ IsInjective(signer.done)
    /\ ToSet(signer.left) \cap ToSet(signer.done) = {}
    /\ signer.through \subseteq ToSet(signer.left) \cup ToSet(signer.done)
    /\ signer.through \subseteq ToSet(roster)
    /\ signer.at = "rest" /\ signer.alive => signer.left = <<>>

TimersInv == TimersTyped /\ RunIsQuiet /\ SignerIsQuiet /\ PassIsSound
(* Appending to a sequence without repetitions what is not in it.          *)
LEMMA Appended ==
  ASSUME NEW S, NEW s \in Seq(S), NEW e \in S
  PROVE  /\ Append(s, e) \in Seq(S)
         /\ ToSet(Append(s, e)) = ToSet(s) \cup {e}
         /\ IsInjective(s) /\ e \notin ToSet(s) => IsInjective(Append(s, e))
<1> DEFINE t == Append(s, e)
<1>1. t \in Seq(S) /\ Len(t) = Len(s) + 1 /\ t[Len(s) + 1] = e
  OBVIOUS
<1>2. \A i \in 1..Len(s) : t[i] = s[i]
  OBVIOUS
<1>3. DOMAIN s = 1..Len(s) /\ DOMAIN t = 1..Len(s) + 1 /\ Len(s) \in Nat
  BY <1>1
<1>4. ToSet(t) = ToSet(s) \cup {e}
  BY <1>1, <1>2, <1>3 DEF ToSet
<1>5. IsInjective(s) /\ e \notin ToSet(s) => IsInjective(t)
  BY <1>1, <1>2, <1>3 DEF ToSet, IsInjective
<1> QED  BY <1>1, <1>4, <1>5

(* The head of a sequence without repetitions is not in its tail.          *)
LEMMA Headed ==
  ASSUME NEW S, NEW s \in Seq(S), s # <<>>
  PROVE  /\ Head(s) \in S /\ Tail(s) \in Seq(S)
         /\ ToSet(s) = {Head(s)} \cup ToSet(Tail(s))
         /\ IsInjective(s) => IsInjective(Tail(s)) /\ Head(s) \notin ToSet(Tail(s))
<1> DEFINE t == Tail(s)
<1>1. t \in Seq(S) /\ Len(t) = Len(s) - 1 /\ Head(s) = s[1] /\ Len(s) \in Nat \ {0}
  OBVIOUS
<1>2. \A i \in 1..Len(t) : t[i] = s[i + 1]
  OBVIOUS
<1>3. DOMAIN s = 1..Len(s) /\ DOMAIN t = 1..Len(s) - 1
  BY <1>1
<1>4. ToSet(s) \subseteq {Head(s)} \cup ToSet(t)
  <2> SUFFICES ASSUME NEW i \in 1..Len(s), i # 1 PROVE s[i] \in ToSet(t)
    BY <1>1, <1>3 DEF ToSet
  <2>1. i - 1 \in 1..Len(t) /\ t[i - 1] = s[i]
    BY <1>1, <1>2
  <2> QED  BY <2>1, <1>3, <1>1 DEF ToSet
<1>5. {Head(s)} \cup ToSet(t) \subseteq ToSet(s)
  BY <1>1, <1>2, <1>3 DEF ToSet
<1>6. IsInjective(s) => IsInjective(t) /\ Head(s) \notin ToSet(t)
  BY <1>1, <1>2, <1>3 DEF ToSet, IsInjective
<1> QED  BY <1>1, <1>4, <1>5, <1>6

(* Removing one place of a sequence without repetitions.                   *)
LEMMA Removed ==
  ASSUME NEW S, NEW s \in Seq(S), NEW i \in 1..Len(s)
  PROVE  /\ RemoveAt(s, i) \in Seq(S)
         /\ ToSet(s) \ {s[i]} \subseteq ToSet(RemoveAt(s, i))
         /\ IsInjective(s) => IsInjective(RemoveAt(s, i))
<1> DEFINE t == RemoveAt(s, i)
<1>1. Len(s) \in Nat /\ DOMAIN s = 1..Len(s)
  OBVIOUS
<1> DEFINE before == SubSeq(s, 1, i - 1)
           after == SubSeq(s, i + 1, Len(s))
<1>a. before \in Seq(S) /\ Len(before) = i - 1 /\ \A j \in 1..i - 1 : before[j] = s[j]
  <2>1. \A j \in 1..i - 1 : s[j] \in S
    BY <1>1
  <2> QED  BY <1>1, <2>1, SubSeqProperties
<1>b. after \in Seq(S) /\ Len(after) = Len(s) - i
      /\ \A j \in 1..Len(s) - i : after[j] = s[i + j]
  <2>1. \A j \in i + 1..Len(s) : s[j] \in S
    BY <1>1
  <2>2. /\ after \in Seq(S)
        /\ Len(after) = IF i + 1 <= Len(s) THEN Len(s) - (i + 1) + 1 ELSE 0
        /\ \A j \in 1..Len(s) - (i + 1) + 1 : after[j] = s[i + 1 + j - 1]
    BY <1>1, <2>1, SubSeqProperties
  <2>3. Len(after) = Len(s) - i
    <3>1. \A n \in Nat : \A j \in 1..n : n - j = IF j + 1 <= n THEN n - (j + 1) + 1 ELSE 0
      OBVIOUS
    <3>2. Len(s) - i = IF i + 1 <= Len(s) THEN Len(s) - (i + 1) + 1 ELSE 0
      BY <1>1, <3>1
    <3>3. PICK n : n = Len(after)
      OBVIOUS
    <3> QED  BY <2>2, <3>2, <3>3
  <2>4. \A j \in 1..Len(s) - i : j \in 1..Len(s) - (i + 1) + 1 /\ i + 1 + j - 1 = i + j
    BY <1>1
  <2>5. \A j \in 1..Len(s) - i : after[j] = s[i + j]
    BY <2>2, <2>4
  <2> QED  BY <2>2, <2>3, <2>5
<1>c. t = before \o after
  BY DEF RemoveAt
<1> HIDE DEF t, before, after
<1>2. t \in Seq(S) /\ Len(t) = Len(s) - 1
  <2>1. t \in Seq(S) /\ Len(t) = Len(before) + Len(after)
    BY <1>a, <1>b, <1>c, ConcatProperties
  <2> QED  BY <2>1, <1>a, <1>b, <1>1
<1>3. \A j \in 1..Len(t) : t[j] = IF j < i THEN s[j] ELSE s[j + 1]
  <2> SUFFICES ASSUME NEW j \in 1..Len(t)
               PROVE  t[j] = IF j < i THEN s[j] ELSE s[j + 1]
    OBVIOUS
  <2>1. CASE j < i
    <3>1. t[j] = before[j]
      BY <1>a, <1>b, <1>c, <1>1, <2>1
    <3> QED  BY <3>1, <1>a, <2>1, <1>1, <1>2
  <2>2. CASE ~(j < i)
    <3>1. t[j] = after[j - (i - 1)]
      BY <1>a, <1>b, <1>c, <1>1, <1>2, <2>2
    <3>2. j - (i - 1) \in 1..Len(s) - i
      BY <1>1, <1>2, <2>2
    <3> QED  BY <3>1, <3>2, <1>b, <2>2, <1>1, <1>2
  <2> QED  BY <2>1, <2>2
<1>4. DOMAIN t = 1..Len(s) - 1
  BY <1>1, <1>2
<1>5. ToSet(s) \ {s[i]} \subseteq ToSet(t)
  <2> SUFFICES ASSUME NEW j \in 1..Len(s), j # i PROVE s[j] \in ToSet(t)
    BY <1>1 DEF ToSet
  <2>1. PICK at \in 1..Len(t) : t[at] = s[j]
    <3>1. CASE j < i
      BY <3>1, <1>1, <1>2, <1>3
    <3>2. CASE j > i
      <4>1. j - 1 \in 1..Len(t) /\ ~(j - 1 < i) /\ (j - 1) + 1 = j
        BY <3>2, <1>1, <1>2
      <4> QED  BY <4>1, <1>3
    <3> QED  BY <3>1, <3>2
  <2>2. at \in DOMAIN t
    BY <1>2, <1>4
  <2>3. t[at] \in ToSet(t)
    BY <2>2 DEF ToSet
  <2> QED  BY <2>1, <2>3
<1>6. IsInjective(s) => IsInjective(t)
  <2> SUFFICES ASSUME \A a, b \in 1..Len(s) : s[a] = s[b] => a = b,
                      NEW a \in 1..Len(s) - 1, NEW b \in 1..Len(s) - 1, t[a] = t[b]
               PROVE  a = b
    BY <1>1, <1>4 DEF IsInjective
  <2> DEFINE from(j) == IF j < i THEN j ELSE j + 1
  <2>1. \A j \in 1..Len(s) - 1 : from(j) \in 1..Len(s) /\ t[j] = s[from(j)]
    BY <1>1, <1>2, <1>3
  <2>2. from(a) = from(b)
    BY <2>1
  <2> QED  BY <2>2, <1>1
<1> QED  BY <1>2, <1>5, <1>6 DEF t

LEMMA TimersStart == TimersInit => TimersInv
<1> SUFFICES ASSUME TimersInit PROVE TimersInv
  OBVIOUS
<1>1. TimersTyped
  BY CallsAssumption DEF TimersInit, TimersTyped, TimerRecords, WaiterRecords, SignerRecords
<1>2. RunIsQuiet /\ SignerIsQuiet
  BY DEF TimersInit, RunIsQuiet, SignerIsQuiet
<1>3. PassIsSound
  BY DEF TimersInit, PassIsSound, IsInjective, ToSet
<1> QED  BY <1>1, <1>2, <1>3 DEF TimersInv
LEMMA TypedStep == TimersTyped /\ [TimersNext]_timerVars => TimersTyped'
<1> SUFFICES ASSUME TimersTyped, [TimersNext]_timerVars PROVE TimersTyped'
  OBVIOUS
<1>1. ASSUME Called, NEW change \in {0, 1}, timer'.generation = timer.generation + change
      PROVE  outside' \in 0..MaxCalls /\ timer'.generation <= outside'
  BY <1>1, CallsAssumption DEF Called, TimersTyped, TimerRecords
<1>2. ASSUME NEW record \in WaiterRecords, WaiterGoes(record) PROVE TimersTyped'
  BY <1>2 DEF WaiterGoes, TimersTyped
<1>3. ASSUME NEW record \in SignerRecords, SignerGoes(record) PROVE TimersTyped'
  BY <1>3 DEF SignerGoes, TimersTyped
<1>4. CASE ArmTimer
  <2>1. timer' \in TimerRecords /\ timer'.generation = timer.generation + 1
    BY <1>4 DEF ArmTimer, TimersTyped, TimerRecords
  <2>2. waiter' \in WaiterRecords
    BY <1>4 DEF ArmTimer, TimersTyped, WaiterRecords
  <2> QED  BY <1>1, <1>4, <2>1, <2>2 DEF ArmTimer, TimersTyped
<1>5. CASE StopTimer
  <2>1. timer' \in TimerRecords /\ timer'.generation = timer.generation + 1
    BY <1>5 DEF StopTimer, Stopped, TimersTyped, TimerRecords
  <2> QED  BY <1>1, <1>5, <2>1 DEF StopTimer, TimersTyped
<1>6. CASE RefreshOnce
  <2>1. timer' \in TimerRecords /\ timer'.generation = timer.generation + 1
    BY <1>6 DEF RefreshOnce, Stopped, TimersTyped, TimerRecords
  <2>2. waiter' \in WaiterRecords
    BY <1>6 DEF RefreshOnce, TimersTyped, WaiterRecords
  <2> QED  BY <1>1, <1>6, <2>1, <2>2 DEF RefreshOnce, TimersTyped
<1>7. CASE CancelRun
  <2>1. waiter' \in WaiterRecords
    BY <1>7 DEF CancelRun, TimersTyped, WaiterRecords
  <2>2. timer'.generation = timer.generation + 0
    BY <1>7 DEF CancelRun, TimersTyped, TimerRecords
  <2> QED  BY <1>1, <1>7, <2>1, <2>2 DEF CancelRun, TimersTyped
<1>8. CASE StartTimer
  <2>0. timer' = [armed |-> timer.armed, generation |-> timer.generation, cancelled |-> FALSE]
    BY <1>8 DEF StartTimer, TimersTyped, TimerRecords
  <2>1. timer' \in TimerRecords /\ timer'.generation = timer.generation + 0
    BY <2>0 DEF TimersTyped, TimerRecords
  <2>2. waiter' \in WaiterRecords
    BY <1>8 DEF StartTimer, TimersTyped, WaiterRecords, TimerRecords
  <2> QED  BY <1>1, <1>8, <2>1, <2>2 DEF StartTimer, TimersTyped
<1>9. CASE RefreshOnceEnds \/ Expires \/ RunSteps
  <2>1. PICK record \in WaiterRecords : WaiterGoes(record)
    <3>1. CASE RefreshOnceEnds
      BY <3>1 DEF RefreshOnceEnds, TimersTyped, WaiterRecords
    <3>2. CASE Expires
      BY <3>2 DEF Expires, TimersTyped, WaiterRecords
    <3>4. CASE Decides
      BY <3>4 DEF Decides, AdoptsOrElse, RunEnds, TimersTyped, WaiterRecords, TimerRecords
    <3>5. CASE WaitFails
      BY <3>5 DEF WaitFails, AdoptsOrElse, RunEnds, TimersTyped, WaiterRecords, TimerRecords
    <3>6. CASE Begins
      <4>1. \A n \in Nat : [waiter EXCEPT !.at = "renewing", !.late = n] \in WaiterRecords
        BY DEF TimersTyped, WaiterRecords
      <4>2. PICK n \in Nat : n = IF timer.armed THEN 0 ELSE waiter.late + 1
        BY DEF TimersTyped, WaiterRecords
      <4>3. WaiterGoes([waiter EXCEPT !.at = "renewing", !.late = n])
        BY <3>6, <4>2 DEF Begins
      <4> QED  BY <4>1, <4>3
    <3>7. CASE Succeeds
      BY <3>7 DEF Succeeds, RunEnds, TimersTyped, WaiterRecords
    <3>8. ASSUME NEW terminal \in BOOLEAN, Fails(terminal)
          PROVE  \E record \in WaiterRecords : WaiterGoes(record)
      BY <3>8 DEF Fails, AdoptsOrElse, RunEnds, TimersTyped, WaiterRecords, TimerRecords
    <3> QED  BY <1>9, <3>1, <3>2, <3>4, <3>5, <3>6, <3>7, <3>8 DEF RunSteps
  <2> QED  BY <1>2, <2>1
<1>10. ASSUME NEW a \in Signed, RegisterSigner(a) PROVE TimersTyped'
  <2>1. roster' \in Seq(Signed) /\ timer'.generation = timer.generation + 0
    BY <1>10 DEF RegisterSigner, TimersTyped, TimerRecords
  <2> QED  BY <1>1, <1>10, <2>1 DEF RegisterSigner, TimersTyped
<1>11. ASSUME NEW a \in Signed, UnregisterSigner(a) PROVE TimersTyped'
  <2>1. PICK i \in 1..Len(roster) : roster' = RemoveAt(roster, i)
    BY <1>11 DEF UnregisterSigner
  <2>2. roster' \in Seq(Signed) /\ timer'.generation = timer.generation + 0
    BY <1>11, <2>1, Removed DEF UnregisterSigner, TimersTyped, TimerRecords
  <2>3. signer' \in SignerRecords
    BY <1>11 DEF UnregisterSigner, TimersTyped, SignerRecords
  <2> QED  BY <1>1, <1>11, <2>2, <2>3 DEF UnregisterSigner, TimersTyped
<1>12. ToSet(roster) \subseteq Signed
  BY DEF ToSet, TimersTyped
<1>a. BeginsPass \in SignerRecords
  BY <1>12 DEF BeginsPass, TimersTyped, SignerRecords
<1>13. CASE StopSigner \/ StartSigner
  <2>1. signer' \in SignerRecords
    <3>1. CASE StopSigner
      BY <3>1 DEF StopSigner, TimersTyped, SignerRecords
    <3>2. CASE StartSigner
      BY <3>2, <1>a DEF StartSigner, SignerRecords
    <3> QED  BY <1>13, <3>1, <3>2
  <2>2. timer'.generation = timer.generation + 0
    BY <1>13 DEF StopSigner, StartSigner, TimersTyped, TimerRecords
  <2> QED  BY <1>1, <1>13, <2>1, <2>2 DEF StopSigner, StartSigner, TimersTyped
<1>14. CASE NextPass \/ SignerSteps
  <2>1. PICK record \in SignerRecords : SignerGoes(record)
    <3>1. CASE NextPass
      BY <3>1, <1>a DEF NextPass
    <3>2. CASE Passes
      <4>1. signer.left \in Seq(Signed) /\ signer.left # <<>>
        BY <3>2 DEF Passes, TimersTyped, SignerRecords
      <4>2. Head(signer.left) \in Signed /\ Tail(signer.left) \in Seq(Signed)
        BY <4>1, Headed
      <4>3. Append(signer.done, Head(signer.left)) \in Seq(Signed)
        BY <4>2 DEF TimersTyped, SignerRecords
      <4>4. \A n \in Nat : [signer EXCEPT !.at = "signing", !.left = Tail(@),
               !.done = Append(@, Head(signer.left)), !.late = n] \in SignerRecords
        BY <4>2, <4>3 DEF TimersTyped, SignerRecords
      <4>5. [signer EXCEPT !.left = Tail(@)] \in SignerRecords
        BY <4>2 DEF TimersTyped, SignerRecords
      <4>6. PICK n \in Nat : n = IF signer.alive THEN 0 ELSE signer.late + 1
        BY DEF TimersTyped, SignerRecords
      <4>7. CASE Contains(roster, Head(signer.left))
        <5>1. SignerGoes([signer EXCEPT !.at = "signing", !.left = Tail(@),
               !.done = Append(@, Head(signer.left)), !.late = n])
          BY <3>2, <4>6, <4>7 DEF Passes
        <5> QED  BY <5>1, <4>4
      <4> QED  BY <3>2, <4>5, <4>7 DEF Passes
    <3>3. CASE SignEnds \/ Rests \/ Quits
      BY <3>3 DEF SignEnds, AfterSign, Rests, Quits, TimersTyped, SignerRecords
    <3> QED  BY <1>14, <3>1, <3>2, <3>3 DEF SignerSteps
  <2> QED  BY <1>3, <2>1
<1>15. CASE UNCHANGED timerVars
  BY <1>15 DEF timerVars, TimersTyped
<1> QED
  BY <1>4, <1>5, <1>6, <1>7, <1>8, <1>9, <1>10, <1>11, <1>13, <1>14, <1>15
     DEF TimersNext
LEMMA RunQuietStep == TimersTyped /\ RunIsQuiet /\ [TimersNext]_timerVars => RunIsQuiet'
<1> SUFFICES ASSUME TimersTyped, RunIsQuiet, [TimersNext]_timerVars PROVE RunIsQuiet'
  OBVIOUS
<1> USE DEF RunIsQuiet, TimersTyped, WaiterRecords, TimerRecords
<1>1. CASE ArmTimer
  BY <1>1 DEF ArmTimer
<1>2. CASE StopTimer \/ RefreshOnce
  BY <1>2 DEF StopTimer, RefreshOnce, Stopped
<1>3. CASE RefreshOnceEnds \/ CancelRun \/ Expires
  BY <1>3 DEF RefreshOnceEnds, CancelRun, Expires, WaiterGoes
<1>4. CASE StartTimer
  BY <1>4 DEF StartTimer
<1>5. CASE Decides
  BY <1>5 DEF Decides, AdoptsOrElse, RunEnds, WaiterGoes
<1>6. CASE WaitFails
  BY <1>6 DEF WaitFails, AdoptsOrElse, RunEnds, WaiterGoes
<1>7. CASE Begins
  <2>1. waiter.late = 0 /\ timer' = timer
    BY <1>7 DEF Begins, WaiterGoes
  <2>2. waiter'.at = "renewing" /\ waiter'.late = IF timer.armed THEN 0 ELSE 1
    BY <1>7, <2>1 DEF Begins, WaiterGoes
  <2> QED  BY <2>1, <2>2
<1>8. CASE Succeeds
  BY <1>8 DEF Succeeds, RunEnds, WaiterGoes
<1>9. ASSUME NEW terminal \in BOOLEAN, Fails(terminal) PROVE RunIsQuiet'
  BY <1>9 DEF Fails, AdoptsOrElse, RunEnds, WaiterGoes
<1>10. ASSUME NEW a \in Signed, RegisterSigner(a) \/ UnregisterSigner(a) PROVE RunIsQuiet'
  BY <1>10 DEF RegisterSigner, UnregisterSigner
<1>11. CASE StopSigner \/ StartSigner \/ NextPass \/ SignerSteps \/ UNCHANGED timerVars
  <2>1. timer' = timer /\ waiter' = waiter
    BY <1>11 DEF StopSigner, StartSigner, NextPass, SignerSteps, Passes, SignEnds, Rests, Quits,
                 SignerGoes, timerVars
  <2> QED  BY <2>1
<1> QED
  BY <1>1, <1>2, <1>3, <1>4, <1>5, <1>6, <1>7, <1>8, <1>9, <1>10, <1>11 DEF TimersNext, RunSteps

(* What only the scheduler of renewals does leaves the other alone.        *)
LEMMA SignerIsApart ==
  ASSUME \/ ArmTimer \/ StopTimer \/ RefreshOnce \/ RefreshOnceEnds \/ CancelRun \/ StartTimer
         \/ Expires \/ RunSteps \/ UNCHANGED timerVars
  PROVE  roster' = roster /\ signer' = signer
BY DEF ArmTimer, StopTimer, RefreshOnce, RefreshOnceEnds, CancelRun, StartTimer, Expires,
       RunSteps, Decides, WaitFails, Begins, Succeeds, Fails, AdoptsOrElse, RunEnds, WaiterGoes,
       timerVars

LEMMA SignerQuietStep ==
  TimersTyped /\ SignerIsQuiet /\ [TimersNext]_timerVars => SignerIsQuiet'
<1> SUFFICES ASSUME TimersTyped, SignerIsQuiet, [TimersNext]_timerVars PROVE SignerIsQuiet'
  OBVIOUS
<1> USE DEF SignerIsQuiet, TimersTyped, SignerRecords
<1>1. CASE \/ ArmTimer \/ StopTimer \/ RefreshOnce \/ RefreshOnceEnds \/ CancelRun \/ StartTimer
           \/ Expires \/ RunSteps \/ UNCHANGED timerVars
  BY <1>1, SignerIsApart
<1>2. ASSUME NEW a \in Signed, RegisterSigner(a) \/ UnregisterSigner(a) PROVE SignerIsQuiet'
  BY <1>2 DEF RegisterSigner, UnregisterSigner
<1>3. CASE StopSigner
  BY <1>3 DEF StopSigner
<1>4. CASE StartSigner
  BY <1>4 DEF StartSigner, BeginsPass
<1>5. CASE Passes
  <2>1. signer.late = 0 /\ signer'.alive = signer.alive
    BY <1>5 DEF Passes, SignerGoes
  <2>2. \/ signer'.late = 0
        \/ ~signer.alive /\ signer'.at = "signing" /\ signer'.late = 1
    <3>1. CASE Contains(roster, Head(signer.left))
      <4>1. signer'.at = "signing" /\ signer'.late = IF signer.alive THEN 0 ELSE signer.late + 1
        BY <1>5, <3>1 DEF Passes, SignerGoes
      <4> QED  BY <4>1, <2>1
    <3>2. CASE ~Contains(roster, Head(signer.left))
      BY <1>5, <2>1, <3>2 DEF Passes, SignerGoes
    <3> QED  BY <3>1, <3>2
  <2> QED  BY <2>1, <2>2
<1>6. CASE SignEnds
  BY <1>6 DEF SignEnds, AfterSign, SignerGoes
<1>7. CASE Rests \/ Quits
  BY <1>7 DEF Rests, Quits, SignerGoes
<1>8. CASE NextPass
  BY <1>8 DEF NextPass, BeginsPass, SignerGoes
<1> QED
  BY <1>1, <1>2, <1>3, <1>4, <1>5, <1>6, <1>7, <1>8 DEF TimersNext, SignerSteps

LEMMA PassStep == TimersTyped /\ PassIsSound /\ [TimersNext]_timerVars => PassIsSound'
<1> SUFFICES ASSUME TimersTyped, PassIsSound, [TimersNext]_timerVars PROVE PassIsSound'
  OBVIOUS
<1>1. roster \in Seq(Signed) /\ signer.left \in Seq(Signed) /\ signer.done \in Seq(Signed)
  BY DEF TimersTyped, SignerRecords
<1>2. CASE \/ ArmTimer \/ StopTimer \/ RefreshOnce \/ RefreshOnceEnds \/ CancelRun \/ StartTimer
           \/ Expires \/ RunSteps \/ UNCHANGED timerVars
  BY <1>2, SignerIsApart DEF PassIsSound
<1>3. ASSUME NEW a \in Signed, RegisterSigner(a) PROVE PassIsSound'
  <2>1. Contains(roster, a) <=> a \in ToSet(roster)
    BY <1>1 DEF Contains, ToSet
  <2>2. IsInjective(roster') /\ ToSet(roster) \subseteq ToSet(roster')
    BY <1>1, <1>3, <2>1, Appended DEF RegisterSigner, PassIsSound
  <2>3. signer' = signer
    BY <1>3 DEF RegisterSigner
  <2> QED  BY <2>2, <2>3 DEF PassIsSound
<1>4. ASSUME NEW a \in Signed, UnregisterSigner(a) PROVE PassIsSound'
  <2>1. PICK i \in 1..Len(roster) : roster[i] = a /\ roster' = RemoveAt(roster, i)
    BY <1>4 DEF UnregisterSigner
  <2>2. IsInjective(roster') /\ ToSet(roster) \ {a} \subseteq ToSet(roster')
    BY <1>1, <2>1, Removed DEF PassIsSound
  <2>3. /\ signer'.through = signer.through \ {a} /\ signer'.left = signer.left
        /\ signer'.done = signer.done /\ signer'.at = signer.at /\ signer'.alive = signer.alive
    BY <1>4 DEF UnregisterSigner, TimersTyped, SignerRecords
  <2> QED  BY <2>2, <2>3 DEF PassIsSound
<1>5. CASE StopSigner
  BY <1>5 DEF StopSigner, TimersTyped, SignerRecords, PassIsSound
<1>6. ToSet(<<>>) = {} /\ IsInjective(<<>>)
  BY DEF ToSet, IsInjective
<1>7. CASE StartSigner \/ NextPass
  <2>1. /\ roster' = roster /\ signer'.at = "pass" /\ signer'.left = roster
        /\ signer'.done = <<>> /\ signer'.through = ToSet(roster)
    <3>1. CASE StartSigner
      BY <3>1 DEF StartSigner, BeginsPass
    <3>2. CASE NextPass
      BY <3>2 DEF NextPass, BeginsPass, SignerGoes
    <3> QED  BY <1>7, <3>1, <3>2
  <2> QED  BY <1>6, <2>1 DEF PassIsSound
<1>8. CASE Passes
  <2> DEFINE a == Head(signer.left)
  <2>1. signer.left # <<>> /\ roster' = roster /\ signer'.left = Tail(signer.left)
        /\ signer'.through = signer.through /\ signer'.at # "rest"
    BY <1>8 DEF Passes, SignerGoes, TimersTyped, SignerRecords
  <2>2. /\ a \in Signed /\ ToSet(signer.left) = {a} \cup ToSet(Tail(signer.left))
        /\ IsInjective(Tail(signer.left)) /\ a \notin ToSet(Tail(signer.left))
    BY <1>1, <2>1, Headed DEF PassIsSound
  <2>3. CASE Contains(roster, a)
    <3>1. signer'.done = Append(signer.done, a)
      BY <1>8, <2>3 DEF Passes, SignerGoes, TimersTyped, SignerRecords
    <3>2. IsInjective(signer'.done) /\ ToSet(signer'.done) = ToSet(signer.done) \cup {a}
      BY <1>1, <2>2, <3>1, Appended DEF PassIsSound
    <3> QED  BY <2>1, <2>2, <3>2 DEF PassIsSound
  <2>4. CASE ~Contains(roster, a)
    <3>1. signer'.done = signer.done
      BY <1>8, <2>4 DEF Passes, SignerGoes, TimersTyped, SignerRecords
    <3>2. a \notin ToSet(roster)
      BY SMTT(30), <1>1, <2>4 DEF Contains, ToSet
    <3> QED  BY <2>1, <2>2, <3>1, <3>2 DEF PassIsSound
  <2> QED  BY <2>3, <2>4
<1>9. CASE SignEnds \/ Rests \/ Quits
  <2>1. /\ roster' = roster /\ signer'.left = signer.left /\ signer'.done = signer.done
        /\ signer'.through = signer.through /\ signer'.alive = signer.alive
    BY <1>9 DEF SignEnds, Rests, Quits, SignerGoes, TimersTyped, SignerRecords
  <2>2. signer'.at = "rest" /\ signer.alive => signer.left = <<>>
    BY <1>9 DEF SignEnds, AfterSign, Rests, Quits, SignerGoes, TimersTyped, SignerRecords
  <2> QED  BY <2>1, <2>2 DEF PassIsSound
<1> QED
  BY <1>2, <1>3, <1>4, <1>5, <1>7, <1>8, <1>9 DEF TimersNext, SignerSteps

LEMMA TimersInvMeans == TimersInv => StopIsHeard /\ TimersTypeOK
<1> SUFFICES ASSUME TimersInv PROVE StopIsHeard /\ TimersTypeOK
  OBVIOUS
<1>1. StoppedMeansQuiet
  BY DEF TimersInv, RunIsQuiet, SignerIsQuiet, StoppedMeansQuiet
<1>2. ToSet(<<>>) = {}
  BY DEF ToSet
<1>3. EverybodyIsAttempted
  BY <1>2 DEF TimersInv, PassIsSound, EverybodyIsAttempted, IsInjective, ToSet
<1>4. timer.generation \in 0..MaxCalls
  BY CallsAssumption DEF TimersInv, TimersTyped, TimerRecords
<1>5. TimersTypeOK
  BY <1>4 DEF TimersInv, TimersTyped, TimerRecords, WaiterRecords, SignerRecords, TimersTypeOK, ToSet
<1> QED  BY <1>1, <1>3, <1>5 DEF StopIsHeard

LEMMA TimersStep == TimersInv /\ [TimersNext]_timerVars => TimersInv'
  BY TypedStep, RunQuietStep, SignerQuietStep, PassStep DEF TimersInv

(* For any accounts and any calls from outside: what was stopped begins no  *)
(* renewal and no sign-in but the one decided on already, and a pass that   *)
(* nobody stopped attempts each account that stays, none twice, whoever     *)
(* comes and goes meanwhile.                                                *)
THEOREM StopsAreHeard == TimersSpec => []StopIsHeard
<1> QED  BY TimersStart, TimersStep, TimersInvMeans, PTL DEF TimersSpec

----------------------------------------------------------------------------
(* The renewals: what one does to the auth file, for every plugin and      *)
(* however many tokens the vendor grants.                                  *)

Files(n) == [token : 1..n, form : Forms, grant : 0..n, expiry : 0..n]

(* A file that names no more than n tokens names no more than a later one.  *)
LEMMA FilesGrow ==
    ASSUME NEW n \in Nat, NEW m \in Nat, n <= m, NEW file \in Files(n)
    PROVE  file \in Files(m)
<1>1. 1..n \subseteq 1..m /\ 0..n \subseteq 0..m
  OBVIOUS
<1> QED
  BY <1>1 DEF Files

(* The initial file holds the first token and grant.                        *)
LEMMA RenewalTypeInit == RenewalInit => RenewalTypeOK
<1> SUFFICES ASSUME RenewalInit PROVE RenewalTypeOK
  OBVIOUS
<1>0. /\ killedBy = "" /\ mishap \in BOOLEAN
      /\ renewer \in Renewers /\ rotating \in BOOLEAN
  BY DEF RenewalInit
<1>1. /\ granted = 1 /\ aged = 0 /\ honoured = {1}
      /\ stored \in [token : {1}, form : Forms, grant : {1}, expiry : {0, 1}]
  BY DEF RenewalInit
<1>2. {1} \subseteq 1..1 /\ {1} \subseteq 0..1 /\ {0, 1} \subseteq 0..1
  OBVIOUS
<1>3. stored \in Files(granted)
  BY <1>1, <1>2 DEF Files
<1>4. stored.grant <= stored.token /\ stored.expiry <= stored.token
  BY <1>1
<1>5. granted \in 1..MaxTokens
  BY <1>1, TokensAssumption
<1> QED
  BY <1>0, <1>1, <1>2, <1>3, <1>4, <1>5 DEF RenewalTypeOK, Files

(* Every step keeps the types; only a renewal that was taken rewrites the file. *)
LEMMA RenewalTypeStep == RenewalTypeOK /\ [RenewalNext]_renewalVars => RenewalTypeOK'
<1> SUFFICES ASSUME RenewalTypeOK, [RenewalNext]_renewalVars PROVE RenewalTypeOK'
  OBVIOUS
<1>1. granted \in 1..MaxTokens /\ aged \in 0..granted /\ honoured \subseteq 1..granted
  BY DEF RenewalTypeOK
<1>0. /\ renewer \in Renewers /\ rotating \in BOOLEAN /\ mishap \in BOOLEAN
      /\ killedBy \in {""} \union Refusals \union Hiccups
  BY DEF RenewalTypeOK
<1>2. /\ stored \in Files(granted)
      /\ stored.grant <= stored.token /\ stored.expiry <= stored.token
  BY DEF RenewalTypeOK, Files
<1>3. granted \in Nat /\ MaxTokens \in Nat
  BY <1>1, TokensAssumption
<1>4. ASSUME NEW given \in BOOLEAN, Grants(given)
      PROVE  /\ granted' = granted + 1 /\ granted' \in 1..MaxTokens
             /\ honoured' \subseteq 1..granted' /\ aged \in 0..granted'
  <2>1. granted' = granted + 1 /\ granted < MaxTokens
    BY <1>4 DEF Grants
  <2>2. honoured' \subseteq honoured \union {granted + 1}
    BY <1>4 DEF Grants
  <2> QED
    BY <1>1, <1>3, <2>1, <2>2
<1>5. CASE Age
  <2>1. aged' \in 0..granted
    BY <1>1, <1>3, <1>5 DEF Age
  <2> QED
    BY <1>1, <1>0, <1>2, <1>5, <2>1 DEF Age, RenewalTypeOK, Files
<1>6. CASE Revoke
  BY <1>1, <1>0, <1>2, <1>6 DEF Revoke, RenewalTypeOK, Files
<1>7. CASE Renewed
  <2>1. PICK f \in Forms, given \in BOOLEAN :
          /\ Grants(given)
          /\ stored' = [token |-> granted + 1, form |-> f,
                        grant |-> GrantRecorded(granted + 1, given),
                        expiry |-> ExpiryRecorded(granted + 1, f)]
    BY <1>7 DEF Renewed
  <2>2. UNCHANGED <<renewer, rotating, aged, killedBy, mishap>>
    BY <1>7 DEF Renewed
  <2>3. stored.grant \in 0..granted /\ stored.expiry \in 0..granted
    BY <1>2 DEF Files
  <2>4. GrantRecorded(granted + 1, given) \in 0..(granted + 1)
    BY <1>3, <2>3 DEF GrantRecorded
  <2>5. ExpiryRecorded(granted + 1, f) \in 0..(granted + 1)
    BY <1>3, <2>3 DEF ExpiryRecorded
  <2>6. granted' = granted + 1 /\ granted' \in Nat /\ granted + 1 \in 1..(granted + 1)
    BY <1>3, <1>4, <2>1
  <2>7. stored' \in Files(granted')
    BY <2>1, <2>4, <2>5, <2>6 DEF Files
  <2>8. stored'.grant <= stored'.token /\ stored'.expiry <= stored'.token
    BY <1>3, <2>1, <2>4, <2>5
  <2> QED
    BY <1>1, <1>0, <1>4, <2>1, <2>2, <2>7, <2>8 DEF RenewalTypeOK, Files
<1>8. CASE RenewedInVain
  <2>1. PICK given \in BOOLEAN : Grants(given)
    BY <1>8 DEF RenewedInVain
  <2>2. UNCHANGED <<renewer, rotating, aged, stored, killedBy>> /\ mishap' = TRUE
    BY <1>8 DEF RenewedInVain
  <2>3. granted' \in Nat /\ granted <= granted'
    BY <1>3, <1>4, <2>1
  <2>4. stored' \in Files(granted')
    BY <1>2, <1>3, <2>2, <2>3, FilesGrow
  <2> QED
    BY <1>1, <1>0, <1>2, <1>4, <2>1, <2>2, <2>4 DEF RenewalTypeOK, Files
<1>9. CASE Refused
  <2>1. killedBy' \in Refusals
    BY <1>9 DEF Refused
  <2> QED
    BY <1>1, <1>0, <1>2, <1>9, <2>1 DEF Refused, RenewalTypeOK, Files
<1>10. CASE Faltered
  <2>1. killedBy' \in Hiccups
    BY <1>10 DEF Faltered
  <2> QED
    BY <1>1, <1>0, <1>2, <1>10, <2>1 DEF Faltered, RenewalTypeOK, Files
<1>11. CASE UNCHANGED renewalVars
  BY <1>1, <1>0, <1>2, <1>11 DEF renewalVars, RenewalTypeOK, Files
<1> QED
  BY <1>5, <1>6, <1>7, <1>8, <1>9, <1>10, <1>11 DEF RenewalNext

(* Everything about a renewal is correctly typed.                           *)
THEOREM RenewalsTyped == RenewalSpec => []RenewalTypeOK
BY RenewalTypeInit, RenewalTypeStep, PTL DEF RenewalSpec

(* A credential just renewed is not due again for another token's expiry.   *)
THEOREM RenewalsAreFresh == RenewalSpec => []RenewedIsFresh
<1>1. RenewalInit => RenewedIsFresh
  BY DEF RenewalInit, RenewedIsFresh
<1>2. RenewedIsFresh /\ RenewalTypeOK /\ [RenewalNext]_renewalVars => RenewedIsFresh'
  <2> SUFFICES ASSUME RenewedIsFresh, RenewalTypeOK, [RenewalNext]_renewalVars
               PROVE  RenewedIsFresh'
    OBVIOUS
  <2>1. CASE UNCHANGED <<renewer, stored>>
    BY <2>1 DEF RenewedIsFresh
  <2>2. CASE Renewed
    <3>1. PICK f \in Forms, given \in BOOLEAN :
            stored' = [token |-> granted + 1, form |-> f,
                       grant |-> GrantRecorded(granted + 1, given),
                       expiry |-> ExpiryRecorded(granted + 1, f)]
      BY <2>2 DEF Renewed
    <3>2. TakesGrant(f)
      BY <2>2, <3>1 DEF Renewed
    <3>3. renewer' = renewer
      BY <2>2 DEF Renewed
    <3>4. /\ stored'.token = granted + 1 /\ stored'.form = f
          /\ stored'.expiry = ExpiryRecorded(granted + 1, f)
      BY <3>1
    <3> QED
      BY <3>2, <3>3, <3>4 DEF RenewedIsFresh, ExpiryRecorded, TakesGrant
  <2> QED
    BY <2>1, <2>2 DEF RenewalNext, Age, Revoke, RenewedInVain, Refused, Faltered, renewalVars
<1> QED
  BY <1>1, <1>2, RenewalsTyped, PTL DEF RenewalSpec

(* The file keeps a grant that the vendor honours.                          *)
THEOREM GrantsAreKept == RenewalSpec => []GrantIsKept
<1>1. RenewalInit => GrantIsKept
  BY DEF RenewalInit, GrantIsKept
<1>2. GrantIsKept /\ [RenewalNext]_renewalVars => GrantIsKept'
  <2> SUFFICES ASSUME GrantIsKept, [RenewalNext]_renewalVars PROVE GrantIsKept'
    OBVIOUS
  <2>1. CASE UNCHANGED <<renewer, honoured, stored, mishap>>
    BY <2>1 DEF GrantIsKept
  <2>2. CASE mishap'
    BY <2>2 DEF GrantIsKept
  <2>3. CASE Renewed
    <3>1. PICK f \in Forms, given \in BOOLEAN :
            /\ Grants(given)
            /\ stored' = [token |-> granted + 1, form |-> f,
                          grant |-> GrantRecorded(granted + 1, given),
                          expiry |-> ExpiryRecorded(granted + 1, f)]
      BY <2>3 DEF Renewed
    <3>2. renewer' = renewer
      BY <2>3 DEF Renewed
    <3>3. stored'.grant = GrantRecorded(granted + 1, given) /\ stored.grant \in honoured
      BY <3>1 DEF Grants
    <3>4. CASE given
      BY <3>1, <3>3, <3>4 DEF Grants, GrantRecorded, GrantIsKept
    <3>5. CASE ~given
      BY <3>1, <3>2, <3>3, <3>5 DEF Grants, GrantRecorded, GrantIsKept
    <3> QED
      BY <3>4, <3>5
  <2> QED
    BY <2>1, <2>2, <2>3
       DEF RenewalNext, Age, Revoke, RenewedInVain, Refused, Faltered, renewalVars
<1> QED
  BY <1>1, <1>2, PTL DEF RenewalSpec
(* A credential that ended is not renewed, so its grant is not honoured     *)
(* anew; and no plugin ends one for an answer of another kind.              *)
LEMMA LiveInit == RenewalInit => LiveIsNotGivenUp
  BY DEF RenewalInit, LiveIsNotGivenUp

LEMMA LiveStep ==
    LiveIsNotGivenUp /\ RenewalTypeOK /\ [RenewalNext]_renewalVars => LiveIsNotGivenUp'
<1> SUFFICES ASSUME LiveIsNotGivenUp, RenewalTypeOK, [RenewalNext]_renewalVars
             PROVE  LiveIsNotGivenUp'
  OBVIOUS
<1>1. CASE UNCHANGED <<renewer, honoured, stored, killedBy>>
  BY <1>1 DEF LiveIsNotGivenUp
<1>2. CASE Revoke
  BY <1>2 DEF Revoke, LiveIsNotGivenUp
<1>3. CASE Renewed \/ RenewedInVain
  <2>1. killedBy' = ""
    BY <1>3 DEF Renewed, RenewedInVain, DueForRenewal
  <2> QED
    BY <2>1 DEF LiveIsNotGivenUp
<1>4. CASE Refused
  <2>1. stored'.grant \notin honoured'
    BY <1>4 DEF Refused
  <2> QED
    BY <2>1 DEF LiveIsNotGivenUp
<1>5. CASE Faltered
  <2>1. PICK answer \in Hiccups : answer \in Ending[renewer] /\ killedBy' = answer
    BY <1>5 DEF Faltered, EndsAccount
  <2>2. renewer' = renewer /\ renewer \in Renewers
    BY <1>5 DEF Faltered, RenewalTypeOK
  <2>3. \/ answer = "empty" /\ renewer \in {"cline", "lobsterai", "atomcode", "trae"}
        \/ answer = "cursed" /\ renewer = "codebuddy"
    BY <2>1, <2>2, RenewersAssumption
       DEF Hiccups, Ending, ClineEnds, QoderEnds, MinimaxEnds, RaccoonEnds, LobsterAIEnds,
           CodeBuddyEnds, AtomCodeEnds, TraeEnds, CodeArtsEnds
  <2> QED
    BY <2>1, <2>2, <2>3 DEF LiveIsNotGivenUp
<1> QED
  BY <1>1, <1>2, <1>3, <1>4, <1>5 DEF RenewalNext, Age, renewalVars

(* The file keeps a grant that is honoured, and the account that holds one  *)
(* is not given up, for each of the nine plugins and however often its      *)
(* vendor rotates grants, omits them or answers with an outage.             *)
THEOREM FilesAreKeptWell == RenewalSpec => []FileIsKeptWell
<1>1. GrantIsKept /\ LiveIsNotGivenUp => FileIsKeptWell
  BY DEF FileIsKeptWell
<1> QED
  BY <1>1, LiveInit, LiveStep, GrantsAreKept, RenewalsTyped, PTL DEF RenewalSpec

----------------------------------------------------------------------------
(* What the parts keep.                                                     *)
PartsInv ==
    /\ CatalogInv /\ LoopsInv /\ DeviceInv /\ MeasureInv /\ RenewalTypeOK /\ IInv
    /\ ClaimsInv /\ TimersInv

(* Whichever part is looked at, the refreshes of a catalogue and their      *)
(* loops, the sign-ins, the renewals, the check-ins and the schedulers are  *)
(* type correct.                                                            *)
THEOREM BackgroundTypeCorrect == BackgroundSpec => []BackgroundTypeOK
<1>1. BackgroundInit => PartsInv
  <2> SUFFICES ASSUME BackgroundInit PROVE PartsInv
    OBVIOUS
  <2>1. CatalogInv
    <3>1. CASE Followed
      <4>1. 1 \in Listings
        BY BoundsAssumption DEF Listings
      <4> QED  BY <3>1, <4>1 DEF Followed, CatalogInv, TypeOK, Free, Nothing
    <3> QED  BY <3>1, InitFollows DEF BackgroundInit
  <2>2. DeviceInit /\ RenewalInit /\ CheckInInit
    BY DEF BackgroundInit, Unpolled, Undated, Unoffered
  <2>3. SchedulerInit /\ LoginInit /\ TimersInit
    BY DEF BackgroundInit
  <2> QED  BY <2>1, <2>2, <2>3, LoopsStart, DeviceStarts, MeasureInit, RenewalTypeInit, InitHolds,
              ClaimsInit, TimersStart DEF PartsInv
<1>2. PartsInv /\ [BackgroundNext]_everything => PartsInv'
  <2> SUFFICES ASSUME PartsInv, [BackgroundNext]_everything PROVE PartsInv'
    OBVIOUS
  <2>1. /\ [Next]_vars /\ [SchedulerNext]_schedulerVars /\ [DeviceNext]_deviceVars
        /\ [RenewalNext]_renewalVars /\ [LoginNext]_loginVars /\ [CheckInNext]_checkInVars
        /\ [TimersNext]_timerVars
    BY DEF everything, BackgroundNext, Refreshing, Looping, Coding, Renewing, SigningIn,
           CheckingIn, Timing
  <2> QED  BY <2>1, StepIsTyped, LoopsStep, DeviceStep, MeasureStep, RenewalTypeStep, StepHolds,
              ClaimsStep, TimersStep DEF PartsInv
<1>3. PartsInv => BackgroundTypeOK
  BY MeasureMeans, ClaimsAreTyped, TimersInvMeans
     DEF PartsInv, BackgroundTypeOK, CatalogInv, LoopsInv, IInv
<1> QED  BY <1>1, <1>2, <1>3, PTL DEF BackgroundSpec
=============================================================================
