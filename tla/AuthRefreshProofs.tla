------------------------- MODULE AuthRefreshProofs -------------------------
(***************************************************************************)
(* For any number of callers, any policy and any vendor: the Refresher is  *)
(* type correct, runs one renewal per key, loses no waiter, and implements *)
(* RenewalGate.                                                            *)
(***************************************************************************)
EXTENDS AuthRefresh, TLAPS

(* The time a caller compares with the cooldown is never ahead of the      *)
(* clock, although it was read before the lock was taken.                  *)
ReadingsAreOld == \A c \in Callers : at[c] <= now

IInv == TypeOK /\ ReadingsAreOld /\ SingleFlight /\ WaitersHaveARenewer

USE DEF Never, NoExpiry, NoBytes, FileKey

LEMMA KeyForType == \A r \in Request : KeyFor(r) \in Keys
  BY DEF Request, KeyFor, Keys

(* Lifting a verdict keeps the state well formed and does not touch the    *)
(* refresh in flight nor the time of the last attempt.                     *)
LEMMA RevivedKeeps ==
    ASSUME NEW entry \in State, NEW b \in Bytes,
           entry.dead <=> entry.deadFingerprint # NoBytes
    PROVE  /\ Revived(entry, b) \in State
           /\ Revived(entry, b).dead <=> Revived(entry, b).deadFingerprint # NoBytes
           /\ Revived(entry, b).inflight = entry.inflight
           /\ Revived(entry, b).lastAttempt = entry.lastAttempt
           /\ Revived(entry, b).lastErr = entry.lastErr
  BY DEF Revived, State

LEMMA OutcomeType ==
    ASSUME NEW entry \in State, NEW c \in Callers, TypeOK,
           entry.dead <=> entry.deadFingerprint # NoBytes
    PROVE  /\ Outcome(entry, c) \in State
           /\ Outcome(entry, c).dead <=> Outcome(entry, c).deadFingerprint # NoBytes
           /\ Outcome(entry, c).inflight = NoCaller
           /\ Outcome(entry, c).lastAttempt = now
<1>1. now \in Nat /\ ret[c].err \in Errors /\ req[c].bytes \in Bytes
  BY DEF TypeOK, Result, Request
<1>2. req[c].bytes # NoBytes
  BY <1>1, BoundsAssumption DEF Bytes
<1>3. entry.dead \in BOOLEAN /\ entry.deadFingerprint \in Bytes \union {NoBytes}
  BY DEF State
<1> QED
  BY <1>1, <1>2, <1>3 DEF Outcome, State, IsTerminal

(* A result stays one when its verdict and its failure are set.            *)
LEMMA VerdictType ==
    ASSUME NEW r \in Result, NEW d \in BOOLEAN, NEW e \in Errors
    PROVE  [r EXCEPT !.dead = d, !.err = e] \in Result
  BY DEF Result

LEMMA VerdictSet ==
    ASSUME NEW c \in Callers, NEW d \in BOOLEAN, NEW e \in Errors,
           ret \in [Callers -> Result],
           ret' = [ret EXCEPT ![c].dead = d, ![c].err = e]
    PROVE  ret' \in [Callers -> Result]
<1> DEFINE r == [ret[c] EXCEPT !.dead = d, !.err = e]
<1>1. r \in Result
  BY VerdictType
<1>2. ret' = [ret EXCEPT ![c] = r]
  OBVIOUS
<1> HIDE DEF r
<1> QED
  BY <1>1, <1>2

(* A credential the vendor issues is typed, whoever asked for it.          *)
LEMMA IssueType ==
    ASSUME TypeOK, NEW l \in Lives, NEW g \in BOOLEAN, Issue(l, g)
    PROVE  /\ issued + 1 \in Bytes
           /\ issued' \in Bytes
           /\ cred' \in [Bytes -> Credential]
<1>1. issued + 1 \in Bytes /\ issued' = issued + 1
  BY BoundsAssumption DEF TypeOK, Issue, Bytes
<1> DEFINE e == IF l = NoExpiry THEN NoExpiry ELSE now + l
<1>2. e \in Nat \union {NoExpiry}
  BY LivesAssumption DEF TypeOK
<1>3. [expiry |-> e, grant |-> g] \in Credential
  BY <1>2 DEF Credential
<1>4. cred' = [cred EXCEPT ![issued + 1] = [expiry |-> e, grant |-> g]]
  BY DEF Issue
<1>5. cred' \in [Bytes -> Credential]
  <2> HIDE DEF e
  <2> QED BY <1>1, <1>3, <1>4 DEF TypeOK
<1> QED
  BY <1>1, <1>5

(* What the vendor may do to a credential keeps its bookkeeping typed.     *)
LEMMA VendorType ==
    ASSUME TypeOK, NEW b \in Bytes, Renewed(b) \/ Refused(b) \/ UNCHANGED vendor
    PROVE  /\ issued' \in Bytes
           /\ cred' \in [Bytes -> Credential]
           /\ live' \subseteq Bytes
           /\ refused' \subseteq Bytes
           /\ Renewed(b) => issued + 1 \in Bytes
<1>1. CASE Renewed(b)
  <2>1. PICK l \in Lives : Issue(l, TRUE)
    BY <1>1 DEF Renewed
  <2> QED
    BY <1>1, <2>1, IssueType DEF Renewed, TypeOK
<1>2. CASE Refused(b) /\ ~Renewed(b)
  BY <1>2 DEF Refused, TypeOK
<1>3. CASE UNCHANGED vendor /\ ~Renewed(b)
  BY <1>3 DEF vendor, TypeOK
<1> QED
  BY <1>1, <1>2, <1>3

LEMMA TypeInit == Init => TypeOK
<1> SUFFICES ASSUME Init PROVE TypeOK
  OBVIOUS
<1>1. 1 \in Bytes
  BY BoundsAssumption DEF Bytes
<1>2. states \in [Keys -> State] /\ \A k \in Keys : states[k] = NewState
  BY CallersAssumption DEF Init, NewState, State, Errors
<1>3. NoRequest \in Request /\ NoResult \in Result
  BY <1>1 DEF NoRequest, NoResult, Request, Result, Errors
<1>4. cred \in [Bytes -> Credential]
  BY LivesAssumption DEF Init, Credential
<1> QED
  BY <1>1, <1>2, <1>3, <1>4 DEF Init, TypeOK, NewState, HostLoop

(* Type correctness of the steps, one for each action.                     *)
LEMMA TypeStep == TypeOK /\ [Next]_vars => TypeOK'
<1> SUFFICES ASSUME TypeOK, [Next]_vars PROVE TypeOK'
  OBVIOUS
<1>1. ASSUME NEW c \in Callers, HandOver(c) PROVE TypeOK'
  BY <1>1, NamingAssumption DEF HandOver, TypeOK, Request, vendor
<1>2. ASSUME NEW c \in Callers, Check(c) PROVE TypeOK'
  <2>1. req[c].bytes \in Bytes
    BY DEF TypeOK, Request
  <2>2. Past(req[c].bytes) \in BOOLEAN
    BY DEF Past
  <2>3. ret' \in [Callers -> Result]
    BY <1>2, <2>1, <2>2 DEF Check, TypeOK, Result, Errors
  <2> QED
    BY <1>2, <2>3 DEF Check, TypeOK, vendor
<1>3. ASSUME NEW c \in Callers, Decide(c) PROVE TypeOK'
  <2> DEFINE k == KeyFor(req[c])
             entry == Revived(states[k], req[c].bytes)
  <2>1. req[c] \in Request /\ req[c].bytes \in Bytes /\ k \in Keys
    BY KeyForType DEF TypeOK, Request
  <2>2. /\ entry \in State
        /\ entry.dead <=> entry.deadFingerprint # NoBytes
    BY <2>1, RevivedKeeps DEF TypeOK
  <2>3. /\ entry.lastErr \in Errors
        /\ entry.inflight \in Callers \union {NoCaller}
        /\ [entry EXCEPT !.inflight = c] \in State
        /\ [entry EXCEPT !.inflight = c].dead = entry.dead
        /\ [entry EXCEPT !.inflight = c].deadFingerprint = entry.deadFingerprint
    BY <2>2 DEF State
  <2> HIDE DEF k, entry
  <2>4. \/ AnswerDead(c, k, entry)
        \/ Join(c, k, entry)
        \/ AnswerCooldown(c, k, entry)
        \/ StartRenewal(c, k, entry)
    BY <1>3 DEF Decide, k, entry
  <2>5. /\ states' \in [Keys -> State]
        /\ \A x \in Keys : states'[x].dead <=> states'[x].deadFingerprint # NoBytes
    BY ZenonT(30), <2>1, <2>2, <2>3, <2>4
       DEF AnswerDead, Join, AnswerCooldown, StartRenewal, TypeOK
  <2>6. ret' \in [Callers -> Result]
    <3>1. CASE AnswerDead(c, k, entry)
      <4>1. ret' = [ret EXCEPT ![c].dead = TRUE, ![c].err = entry.lastErr]
        BY <3>1 DEF AnswerDead
      <4> QED
        BY <2>3, <4>1, VerdictSet DEF TypeOK
    <3>2. CASE Join(c, k, entry)
      BY <3>2 DEF Join, TypeOK
    <3>3. CASE AnswerCooldown(c, k, entry)
      BY <2>3, <3>3 DEF AnswerCooldown, TypeOK, Result
    <3>4. CASE StartRenewal(c, k, entry)
      BY ZenonT(30), <3>4 DEF StartRenewal, TypeOK, Result
    <3> QED
      BY <2>4, <3>1, <3>2, <3>3, <3>4
  <2>7. leader' \in [Callers -> Callers \union {NoCaller}]
    BY <2>3, <2>4 DEF AnswerDead, Join, AnswerCooldown, StartRenewal, TypeOK
  <2>8. pc' \in [Callers -> {"idle", "check", "lock", "joining", "vendor", "save",
                            "finish", "release", "returned"}]
    BY <2>4 DEF AnswerDead, Join, AnswerCooldown, StartRenewal, TypeOK
  <2> QED
    BY <1>3, <2>5, <2>6, <2>7, <2>8 DEF Decide, TypeOK, vendor
<1>4. ASSUME NEW c \in Callers, VendorAnswered(c) PROVE TypeOK'
  <2>1. req[c].bytes \in Bytes
    BY DEF TypeOK, Request
  <2>2. Renewed(req[c].bytes) \/ Refused(req[c].bytes) \/ UNCHANGED vendor
    BY <1>4 DEF VendorAnswered
  <2>3. /\ issued' \in Bytes
        /\ cred' \in [Bytes -> Credential]
        /\ live' \subseteq Bytes
        /\ refused' \subseteq Bytes
        /\ Renewed(req[c].bytes) => issued + 1 \in Bytes
    BY <2>1, <2>2, VendorType
  <2>4. CASE Renewed(req[c].bytes) /\ got' = [got EXCEPT ![c] = issued + 1]
              /\ pc' = [pc EXCEPT ![c] = "save"] /\ UNCHANGED ret
    BY <1>4, <2>3, <2>4 DEF VendorAnswered, TypeOK
  <2>5. ASSUME NEW err \in {"terminal", "transport", "empty"}, RenewalFails(c, err)
        PROVE  TypeOK'
    <3>1. ret' \in [Callers -> Result]
      <4>1. IsTerminal(err) \in BOOLEAN /\ err \in Errors
        BY DEF Errors, IsTerminal
      <4>2. ret' = [ret EXCEPT ![c].dead = IsTerminal(err), ![c].err = err]
        BY <2>5 DEF RenewalFails
      <4> QED
        BY <4>1, <4>2, VerdictSet DEF TypeOK
    <3> QED
      BY <1>4, <2>3, <2>5, <3>1 DEF VendorAnswered, RenewalFails, TypeOK
  <2> QED
    BY <1>4, <2>4, <2>5 DEF VendorAnswered
<1>5. ASSUME NEW c \in Callers, Save(c) PROVE TypeOK'
  <2>1. got[c] \in Bytes /\ 1 \in Bytes
    BY BoundsAssumption DEF TypeOK, Bytes
  <2>2. Past(got[c]) \in BOOLEAN
    BY DEF Past
  <2>3. ret' \in [Callers -> Result]
    BY SMTT(30), <1>5, <2>1, <2>2 DEF Save, TypeOK, Result, Errors
  <2>4. file' \in Bytes
    BY <1>5, <2>1 DEF Save, WriteBack, TypeOK
  <2> QED
    BY <1>5, <2>1, <2>3, <2>4 DEF Save, TypeOK, vendor
<1>6. ASSUME NEW c \in Callers, Record(c) PROVE TypeOK'
  <2> DEFINE k == KeyFor(req[c])
  <2>1. k \in Keys
    BY KeyForType DEF TypeOK
  <2>2. /\ Outcome(states[k], c) \in State
        /\ Outcome(states[k], c).dead <=> Outcome(states[k], c).deadFingerprint # NoBytes
    BY <2>1, OutcomeType DEF TypeOK
  <2>3. states' = [states EXCEPT ![k] = Outcome(states[k], c)]
    BY <1>6 DEF Record
  <2> HIDE DEF k
  <2>4. /\ states' \in [Keys -> State]
        /\ \A x \in Keys : states'[x].dead <=> states'[x].deadFingerprint # NoBytes
    BY <2>1, <2>2, <2>3 DEF TypeOK
  <2> QED
    BY <1>6, <2>4 DEF Record, TypeOK, vendor
<1>7. ASSUME NEW c \in Callers, Release(c) PROVE TypeOK'
  BY <1>7 DEF Release, TypeOK, vendor
<1>8. ASSUME NEW c \in Callers, Leave(c) PROVE TypeOK'
  <2>1. NoRequest \in Request /\ NoResult \in Result
    BY BoundsAssumption DEF NoRequest, NoResult, Request, Result, Errors, Bytes
  <2> QED
    BY <1>8, <2>1 DEF Leave, TypeOK, vendor
<1>9. ASSUME HostStart \/ HostStore PROVE TypeOK'
  <2>1. 1 \in Bytes
    BY BoundsAssumption DEF Bytes
  <2>2. host' \in HostLoop /\ file' \in Bytes
    BY <1>9, <2>1 DEF HostStart, HostStore, TypeOK, HostLoop
  <2> QED
    BY <1>9, <2>2 DEF HostStart, HostStore, TypeOK, vendor, caller
<1>10. ASSUME HostAnswered PROVE TypeOK'
  <2>1. host.bytes \in Bytes /\ 1 \in Bytes
    BY BoundsAssumption DEF TypeOK, HostLoop, Bytes
  <2>2. Renewed(host.bytes) \/ Refused(host.bytes) \/ UNCHANGED vendor
    BY <1>10 DEF HostAnswered
  <2>3. /\ issued' \in Bytes
        /\ cred' \in [Bytes -> Credential]
        /\ live' \subseteq Bytes
        /\ refused' \subseteq Bytes
        /\ Renewed(host.bytes) => issued + 1 \in Bytes
    BY <2>1, <2>2, VendorType
  <2>4. host' \in HostLoop
    BY <1>10, <2>1, <2>3 DEF HostAnswered, HostLoop
  <2> QED
    BY <1>10, <2>3, <2>4 DEF HostAnswered, TypeOK, caller
<1>11. ASSUME Login PROVE TypeOK'
  <2>1. PICK l \in Lives, g \in BOOLEAN :
          /\ Issue(l, g)
          /\ live' = IF g THEN live \union {issued + 1} ELSE live
    BY <1>11 DEF Login
  <2>2. issued + 1 \in Bytes /\ issued' \in Bytes /\ cred' \in [Bytes -> Credential]
    BY <2>1, IssueType
  <2> QED
    BY <1>11, <2>1, <2>2 DEF Login, TypeOK, caller
<1>12. ASSUME Tick PROVE TypeOK'
  BY <1>12 DEF Tick, TypeOK, vendor, caller
<1>13. ASSUME UNCHANGED vars PROVE TypeOK'
  BY <1>13 DEF vars, TypeOK, vendor, caller
<1> QED
  BY <1>1, <1>2, <1>3, <1>4, <1>5, <1>6, <1>7, <1>8, <1>9, <1>10, <1>11, <1>12, <1>13
     DEF Next, Step

(* The Refresher, its callers, the vendor and the host are type correct.   *)
THEOREM TypeCorrect == Spec => []TypeOK
  BY TypeInit, TypeStep, PTL DEF Spec

----------------------------------------------------------------------------
(* The single-flight. Readings, marks and waiters are preserved together:  *)
(* a joined caller is found through the mark, and the mark is only removed *)
(* by the caller that set it.                                              *)

LEMMA FlightInit == Init => ReadingsAreOld /\ SingleFlight /\ WaitersHaveARenewer
  BY CallersAssumption
     DEF Init, NewState, ReadingsAreOld, SingleFlight, WaitersHaveARenewer, Renewing

(* A reading is taken from the clock or forgotten, and the clock only      *)
(* advances.                                                               *)
LEMMA ReadingsStep == TypeOK /\ ReadingsAreOld /\ [Next]_vars => ReadingsAreOld'
<1> SUFFICES ASSUME TypeOK, ReadingsAreOld, [Next]_vars PROVE ReadingsAreOld'
  OBVIOUS
<1>1. ASSUME NEW c \in Callers, Check(c) PROVE ReadingsAreOld'
  BY <1>1 DEF TypeOK, ReadingsAreOld, Check
<1>2. ASSUME NEW c \in Callers, Decide(c) PROVE ReadingsAreOld'
  BY <1>2 DEF TypeOK, ReadingsAreOld, Decide
<1>3. ASSUME Tick PROVE ReadingsAreOld'
  BY <1>3 DEF TypeOK, ReadingsAreOld, Tick, caller
<1>4. ASSUME UNCHANGED <<now, at>> PROVE ReadingsAreOld'
  BY <1>4 DEF ReadingsAreOld
<1>5. \/ \E c \in Callers : Check(c) \/ Decide(c)
      \/ Tick
      \/ UNCHANGED <<now, at>>
  BY DEF Next, Step, HandOver, VendorAnswered, Save, Record, Release, Leave,
         HostStart, HostAnswered, HostStore, Login, vars, caller
<1> QED
  BY <1>1, <1>2, <1>3, <1>4, <1>5

(* What the first lock section leaves of the other callers and keys.       *)
LEMMA DecideEffect ==
    ASSUME TypeOK, NEW c \in Callers, Decide(c)
    PROVE  /\ \A k \in Keys : states'[k].lastAttempt = states[k].lastAttempt
           /\ \/ /\ pc' = [pc EXCEPT ![c] = "returned"]
                 /\ \A k \in Keys : states'[k].inflight = states[k].inflight
                 /\ UNCHANGED leader
              \/ /\ pc' = [pc EXCEPT ![c] = "joining"]
                 /\ \A k \in Keys : states'[k].inflight = states[k].inflight
                 /\ states[KeyFor(req[c])].inflight \in Callers
                 /\ leader' = [leader EXCEPT ![c] = states[KeyFor(req[c])].inflight]
              \/ /\ pc' = [pc EXCEPT ![c] = "vendor"]
                 /\ states[KeyFor(req[c])].inflight = NoCaller
                 /\ ~CoolingDown(states[KeyFor(req[c])], at[c])
                 /\ \A k \in Keys : states'[k].inflight =
                       IF k = KeyFor(req[c]) THEN c ELSE states[k].inflight
                 /\ UNCHANGED leader
<1> DEFINE k == KeyFor(req[c])
           entry == Revived(states[k], req[c].bytes)
<1>1. k \in Keys /\ req[c].bytes \in Bytes
  BY KeyForType DEF TypeOK, Request
<1>2. /\ entry \in State
      /\ entry.inflight = states[k].inflight
      /\ entry.lastAttempt = states[k].lastAttempt
  BY <1>1, RevivedKeeps DEF TypeOK
<1>3. /\ [entry EXCEPT !.inflight = c].inflight = c
      /\ [entry EXCEPT !.inflight = c].lastAttempt = entry.lastAttempt
  BY <1>2 DEF State
<1>4. states[k].inflight \in Callers \union {NoCaller}
  BY <1>1 DEF TypeOK, State
<1>5. CoolingDown(entry, at[c]) = CoolingDown(states[k], at[c])
  BY <1>2 DEF CoolingDown
<1> HIDE DEF k, entry
<1>6. \/ AnswerDead(c, k, entry)
      \/ Join(c, k, entry)
      \/ AnswerCooldown(c, k, entry)
      \/ StartRenewal(c, k, entry)
  BY DEF Decide, k, entry
<1>7. CASE AnswerDead(c, k, entry) \/ AnswerCooldown(c, k, entry)
  BY <1>1, <1>2, <1>7 DEF AnswerDead, AnswerCooldown, TypeOK
<1>8. CASE Join(c, k, entry)
  BY <1>1, <1>2, <1>4, <1>8 DEF Join, Busy, TypeOK, k
<1>9. CASE StartRenewal(c, k, entry)
  BY <1>1, <1>2, <1>3, <1>5, <1>9 DEF StartRenewal, Busy, TypeOK, k
<1> QED
  BY <1>6, <1>7, <1>8, <1>9

LEMMA FlightStep ==
    TypeOK /\ SingleFlight /\ WaitersHaveARenewer /\ [Next]_vars
        => SingleFlight' /\ WaitersHaveARenewer'
<1> SUFFICES ASSUME TypeOK, SingleFlight, WaitersHaveARenewer, [Next]_vars
             PROVE  SingleFlight' /\ WaitersHaveARenewer'
  OBVIOUS
<1> USE DEF Renewing
<1>1. \A c \in Callers : KeyFor(req[c]) \in Keys
  BY KeyForType DEF TypeOK
(* A step that moves one caller among places of the same kind, and neither *)
(* marks nor requests of callers at work, changes nothing.                 *)
<1>2. ASSUME NEW c \in Callers, NEW p,
             UNCHANGED <<states, leader>>,
             pc' = [pc EXCEPT ![c] = p],
             p # "joining", pc[c] # "joining",
             p \in Renewing <=> pc[c] \in Renewing,
             p \in Renewing \union {"release"} <=> pc[c] \in Renewing \union {"release"},
             \A d \in Callers : req'[d] # req[d] =>
                 d = c /\ pc[c] \notin Renewing \union {"release"}
      PROVE  SingleFlight' /\ WaitersHaveARenewer'
  <2>1. \A d \in Callers : /\ pc'[d] = IF d = c THEN p ELSE pc[d]
                           /\ \/ KeyFor(req[d])' = KeyFor(req[d])
                              \/ d = c /\ pc[c] \notin Renewing \union {"release"}
    BY <1>2 DEF TypeOK, KeyFor
  <2>2. SingleFlight'
    BY <1>2, <2>1 DEF SingleFlight, TypeOK
  <2>3. WaitersHaveARenewer'
    BY <1>2, <2>1 DEF WaitersHaveARenewer, TypeOK
  <2> QED
    BY <2>2, <2>3
<1>3. ASSUME NEW c \in Callers, HandOver(c) PROVE SingleFlight' /\ WaitersHaveARenewer'
  BY <1>2, <1>3 DEF HandOver, TypeOK
<1>4. ASSUME NEW c \in Callers, Check(c) PROVE SingleFlight' /\ WaitersHaveARenewer'
  BY <1>2, <1>4 DEF Check, TypeOK
<1>5. ASSUME NEW c \in Callers, Decide(c) PROVE SingleFlight' /\ WaitersHaveARenewer'
  <2> DEFINE k == KeyFor(req[c])
  <2>1. pc[c] = "lock" /\ UNCHANGED req /\ k \in Keys
    BY <1>1, <1>5 DEF Decide
  <2>2. \A d \in Callers : KeyFor(req[d])' = KeyFor(req[d])
    BY <2>1
  <2>3. CASE /\ pc' = [pc EXCEPT ![c] = "returned"]
             /\ \A x \in Keys : states'[x].inflight = states[x].inflight
             /\ UNCHANGED leader
    BY <2>1, <2>2, <2>3 DEF SingleFlight, WaitersHaveARenewer, TypeOK
  <2>4. CASE /\ pc' = [pc EXCEPT ![c] = "joining"]
             /\ \A x \in Keys : states'[x].inflight = states[x].inflight
             /\ states[k].inflight \in Callers
             /\ leader' = [leader EXCEPT ![c] = states[k].inflight]
    BY <2>1, <2>2, <2>4 DEF SingleFlight, WaitersHaveARenewer, TypeOK
  <2>5. CASE /\ pc' = [pc EXCEPT ![c] = "vendor"]
             /\ states[k].inflight = NoCaller
             /\ \A x \in Keys : states'[x].inflight =
                   IF x = k THEN c ELSE states[x].inflight
             /\ UNCHANGED leader
    BY CallersAssumption, <2>1, <2>2, <2>5 DEF SingleFlight, WaitersHaveARenewer, TypeOK
  <2> QED
    BY <1>5, <2>3, <2>4, <2>5, DecideEffect
<1>6. ASSUME NEW c \in Callers, VendorAnswered(c)
      PROVE  SingleFlight' /\ WaitersHaveARenewer'
  BY <1>2, <1>6 DEF VendorAnswered, RenewalFails, TypeOK
<1>7. ASSUME NEW c \in Callers, Save(c) PROVE SingleFlight' /\ WaitersHaveARenewer'
  BY <1>2, <1>7 DEF Save, TypeOK
<1>8. ASSUME NEW c \in Callers, Record(c) PROVE SingleFlight' /\ WaitersHaveARenewer'
  <2>1. /\ pc[c] = "finish" /\ UNCHANGED <<req, leader>>
        /\ pc' = [pc EXCEPT ![c] = "release"]
        /\ \A d \in Callers : KeyFor(req[d])' = KeyFor(req[d])
    BY <1>8 DEF Record
  <2>2. \A x \in Keys : states'[x].inflight =
            IF x = KeyFor(req[c]) THEN NoCaller ELSE states[x].inflight
    BY <1>1, <1>8 DEF Record, Outcome, TypeOK
  <2>3. SingleFlight'
    BY CallersAssumption, <1>1, <2>1, <2>2 DEF SingleFlight, TypeOK
  <2>4. WaitersHaveARenewer'
    BY <2>1 DEF WaitersHaveARenewer, TypeOK
  <2> QED
    BY <2>3, <2>4
<1>9. ASSUME NEW c \in Callers, Release(c) PROVE SingleFlight' /\ WaitersHaveARenewer'
  <2>1. /\ pc[c] = "release" /\ UNCHANGED <<req, states>>
        /\ \A d \in Callers : KeyFor(req[d])' = KeyFor(req[d])
        /\ \A d \in Callers :
              IF d = c \/ (pc[d] = "joining" /\ leader[d] = c)
              THEN pc'[d] = "returned"
              ELSE pc'[d] = pc[d] /\ leader'[d] = leader[d]
    BY <1>9 DEF Release, WaitersOn
  <2>2. SingleFlight'
    BY <2>1 DEF SingleFlight
  <2>3. WaitersHaveARenewer'
    BY <2>1 DEF WaitersHaveARenewer
  <2> QED
    BY <2>2, <2>3
<1>10. ASSUME NEW c \in Callers, Leave(c) PROVE SingleFlight' /\ WaitersHaveARenewer'
  BY <1>2, <1>10 DEF Leave, TypeOK
<1>11. ASSUME UNCHANGED <<states, pc, req, leader>>
       PROVE  SingleFlight' /\ WaitersHaveARenewer'
  BY <1>11 DEF SingleFlight, WaitersHaveARenewer
<1>12. \/ \E c \in Callers : HandOver(c) \/ Step(c)
       \/ UNCHANGED <<states, pc, req, leader>>
  BY DEF Next, HostStart, HostAnswered, HostStore, Login, Tick, vars, caller
<1> QED
  BY <1>3, <1>4, <1>5, <1>6, <1>7, <1>8, <1>9, <1>10, <1>11, <1>12 DEF Step

(* The inductive invariant holds.                                          *)
LEMMA Inductive == Spec => []IInv
<1>1. Init => IInv
  BY TypeInit, FlightInit DEF IInv
<1>2. IInv /\ [Next]_vars => IInv'
  BY TypeStep, ReadingsStep, FlightStep DEF IInv
<1> QED
  BY <1>1, <1>2, PTL DEF Spec

(* Two callers never renew the same key at once, and the mark of a key is  *)
(* that of its renewer.                                                    *)
THEOREM FlightIsSingle == Spec => []SingleFlight
<1>1. IInv => SingleFlight
  BY DEF IInv
<1> QED
  BY <1>1, Inductive, PTL

(* No caller of Ensure waits on a refresh nobody is going to finish.       *)
THEOREM NoWaiterIsLost == Spec => []WaitersHaveARenewer
<1>1. IInv => WaitersHaveARenewer
  BY DEF IInv
<1> QED
  BY <1>1, Inductive, PTL

----------------------------------------------------------------------------
(* The Refresher implements RenewalGate: taking the mark begins a renewal, *)
(* recording its outcome ends it, every other step is a stutter.           *)

LEMMA GateInit == Init => Gate!Init
<1> SUFFICES ASSUME Init PROVE Gate!Init
  OBVIOUS
<1>1. \A k \in Keys : (states[k].inflight # NoCaller) = FALSE /\ states[k].lastAttempt = -1
  BY DEF Init, NewState
<1>2. [k \in Keys |-> states[k].inflight # NoCaller] = [k \in Keys |-> FALSE]
  BY <1>1
<1>3. [k \in Keys |-> states[k].lastAttempt] = [k \in Keys |-> -1]
  BY <1>1
<1> QED
  BY <1>2, <1>3 DEF Init, Gate!Init, Gate!Never

LEMMA GateStep == IInv /\ [Next]_vars => [Gate!Next]_(Gate!vars)
<1> SUFFICES ASSUME IInv, [Next]_vars PROVE [Gate!Next]_(Gate!vars)
  OBVIOUS
<1> DEFINE running == [k \in Keys |-> states[k].inflight # NoCaller]
           lastEnd == [k \in Keys |-> states[k].lastAttempt]
<1>1. TypeOK /\ ReadingsAreOld /\ SingleFlight
  BY DEF IInv
<1>2. ASSUME NEW c \in Callers, Decide(c) PROVE [Gate!Next]_(Gate!vars)
  <2>0. PICK k \in Keys : k = KeyFor(req[c])
    BY <1>1, KeyForType DEF TypeOK
  <2>1. at[c] \in Nat /\ now \in Nat /\ at[c] <= now /\ UNCHANGED now
    BY <1>1, <1>2 DEF TypeOK, ReadingsAreOld, Decide
  <2>2. UNCHANGED lastEnd
    BY <1>1, <1>2, DecideEffect
  <2>3. CASE \A x \in Keys : states'[x].inflight = states[x].inflight
    <3>1. UNCHANGED running
      BY <2>3
    <3> QED
      BY <2>1, <2>2, <3>1 DEF Gate!vars
  <2>4. CASE /\ states[k].inflight = NoCaller
             /\ ~CoolingDown(states[k], at[c])
             /\ \A x \in Keys : states'[x].inflight =
                   IF x = k THEN c ELSE states[x].inflight
    <3>1. ~running[k]
      BY <2>1, <2>4
    <3>2. running' = [running EXCEPT ![k] = TRUE]
      BY CallersAssumption, <2>1, <2>4
    <3>3. states[k].lastAttempt \in Nat \union {Never}
      BY <1>1, <2>1 DEF TypeOK, State
    <3>4. states[k].lastAttempt = Never \/ now - states[k].lastAttempt >= Cooldown
      BY <2>1, <2>4, <3>3, PolicyAssumption DEF CoolingDown
    <3>5. Gate!Begin(k)
      BY <2>1, <2>2, <3>1, <3>2, <3>4 DEF Gate!Begin, Gate!Never
    <3> QED
      BY <3>5 DEF Gate!Next
  <2> QED
    BY <1>1, <1>2, <2>0, <2>3, <2>4, DecideEffect
<1>3. ASSUME NEW c \in Callers, Record(c) PROVE [Gate!Next]_(Gate!vars)
  <2>0. PICK k \in Keys : k = KeyFor(req[c])
    BY <1>1, KeyForType DEF TypeOK
  <2>1. UNCHANGED now /\ pc[c] = "finish"
    BY <1>3 DEF Record
  <2>2. running[k]
    <3>1. states[k].inflight = c
      BY <1>1, <2>0, <2>1 DEF SingleFlight, Renewing
    <3> QED
      BY CallersAssumption, <3>1
  <2>3. states' = [states EXCEPT ![k] = Outcome(states[k], c)]
    BY <1>3, <2>0 DEF Record
  <2>4. Outcome(states[k], c).inflight = NoCaller /\ Outcome(states[k], c).lastAttempt = now
    BY DEF Outcome
  <2>5. /\ running' = [running EXCEPT ![k] = FALSE]
        /\ lastEnd' = [lastEnd EXCEPT ![k] = now]
    BY <1>1, <2>1, <2>3, <2>4 DEF TypeOK
  <2>6. Gate!End(k)
    BY <2>1, <2>2, <2>5 DEF Gate!End
  <2> QED
    BY <2>6 DEF Gate!Next
<1>4. ASSUME Tick PROVE [Gate!Next]_(Gate!vars)
  <2>1. Gate!Tick
    BY <1>4 DEF Tick, Gate!Tick
  <2> QED
    BY <2>1 DEF Gate!Next
<1>5. ASSUME UNCHANGED <<now, states>> PROVE [Gate!Next]_(Gate!vars)
  BY <1>5 DEF Gate!vars
<1>6. \/ \E c \in Callers : Decide(c) \/ Record(c)
      \/ Tick
      \/ UNCHANGED <<now, states>>
  BY DEF Next, Step, HandOver, Check, VendorAnswered, Save, Release, Leave,
         HostStart, HostAnswered, HostStore, Login, vars
<1> QED
  BY <1>2, <1>3, <1>4, <1>5, <1>6

(* Every behaviour of the Refresher is one of RenewalGate.                 *)
THEOREM RefresherImplementsGate == Spec => RenewalsAreGated
<1>1. Spec => Gate!Spec
  BY GateInit, GateStep, Inductive, PTL DEF Spec, Gate!Spec
<1> QED
  BY <1>1 DEF RenewalsAreGated
----------------------------------------------------------------------------
(* Verdicts. A key remembers a terminal failure only of bytes the vendor   *)
(* refused - of its own, when it stands for bytes - and is dead for such   *)
(* bytes, and never while a renewal of it is under way.                    *)
KeysAreFairlyDead ==
    \A k \in Keys :
        /\ states[k].dead =>
             /\ states[k].deadFingerprint \in refused
             /\ IsTerminal(states[k].lastErr)
             /\ states[k].inflight = NoCaller
        /\ IsTerminal(states[k].lastErr) =>
             refused # {} /\ (k # FileKey => k \in refused)

(* The result of a caller speaks of the bytes it came with until a renewal *)
(* gave it others; the result of a renewer is terminal after that refusal  *)
(* only, and the result a caller leaves with is as DeadMeansRefused says.  *)
Untold(c) ==
    /\ ret[c].storage = req[c].bytes
    /\ ret[c].dead = FALSE
    /\ ret[c].err = "none"

Answered(c) ==
    /\ ret[c].attempted
    /\ ret[c].dead => IsTerminal(ret[c].err)
    /\ IsTerminal(ret[c].err) => ret[c].storage = req[c].bytes /\ req[c].bytes \in refused

Told(c) ==
    /\ ret[c].dead => IsTerminal(ret[c].err) /\ ret[c].storage \in refused
    /\ IsTerminal(ret[c].err) => req[c].bytes \in refused \/ ToldByOthers(c)

CallerIsToldFairly(c) ==
    /\ pc[c] = "lock" => Untold(c) /\ ~ret[c].attempted
    /\ pc[c] \in {"vendor", "save"} => Untold(c) /\ ret[c].attempted
    /\ pc[c] \in {"finish", "release"} => Answered(c)
    /\ pc[c] = "returned" => Told(c)

VerdictsAreEarned == KeysAreFairlyDead /\ \A c \in Callers : CallerIsToldFairly(c)

(* A verdict that survives the look at a request is one on its bytes.      *)
LEMMA RevivedDead ==
    ASSUME NEW entry \in State, NEW b \in Bytes, Revived(entry, b).dead
    PROVE  Revived(entry, b) = entry /\ entry.dead /\ entry.deadFingerprint = b
  BY DEF Revived, State

(* The vendor takes no refusal back.                                       *)
LEMMA RefusedGrows == [Next]_vars => refused \subseteq refused'
<1> SUFFICES ASSUME [Next]_vars PROVE refused \subseteq refused'
  OBVIOUS
<1>1. \A b : Renewed(b) \/ Refused(b) => refused \subseteq refused'
  BY DEF Renewed, Refused
<1>2. \A c \in Callers : VendorAnswered(c) => refused \subseteq refused'
  BY <1>1 DEF VendorAnswered, vendor
<1>3. HostAnswered => refused \subseteq refused'
  BY <1>1 DEF HostAnswered, vendor
<1> QED
  BY <1>2, <1>3 DEF Next, Step, HandOver, Check, Decide, Save, Record, Release, Leave,
     HostStart, HostStore, Login, Tick, vars, vendor

(* What a caller was told stays fair while the caller stands still.        *)
LEMMA StillFair ==
    ASSUME NEW c \in Callers, CallerIsToldFairly(c), refused \subseteq refused',
           pc'[c] = pc[c], ret'[c] = ret[c], req'[c] = req[c]
    PROVE  CallerIsToldFairly(c)'
  BY DEF CallerIsToldFairly, Untold, Answered, Told, ToldByOthers, IsTerminal

(* A step that touches one caller and no verdict of a key.                 *)
LEMMA ToldToOne ==
    ASSUME VerdictsAreEarned, NEW c \in Callers, UNCHANGED states, refused \subseteq refused',
           \A d \in Callers \ {c} :
               pc'[d] = pc[d] /\ ret'[d] = ret[d] /\ req'[d] = req[d],
           CallerIsToldFairly(c)'
    PROVE  VerdictsAreEarned'
<1>1. KeysAreFairlyDead'
  BY DEF VerdictsAreEarned, KeysAreFairlyDead, IsTerminal
<1>2. ASSUME NEW d \in Callers \ {c} PROVE CallerIsToldFairly(d)'
  BY StillFair DEF VerdictsAreEarned
<1> QED
  BY <1>1, <1>2 DEF VerdictsAreEarned

LEMMA VerdictsInit == Init => VerdictsAreEarned
  BY DEF Init, NewState, VerdictsAreEarned, KeysAreFairlyDead, CallerIsToldFairly, IsTerminal

(* The first lock section: a dead key answers for the bytes of the request *)
(* themselves, a cooldown repeats an error that may be older.              *)
LEMMA VerdictsDecide ==
    ASSUME IInv, VerdictsAreEarned, NEW c \in Callers, Decide(c)
    PROVE  VerdictsAreEarned'
<1> DEFINE k == KeyFor(req[c])
           b == req[c].bytes
           entry == Revived(states[k], b)
<1>1. req[c] \in Request /\ b \in Bytes /\ k \in Keys /\ states[k] \in State /\ TypeOK
  BY KeyForType DEF IInv, TypeOK, Request
<1>2. /\ entry \in State /\ entry.inflight = states[k].inflight
      /\ entry.lastErr = states[k].lastErr
      /\ entry.dead => entry = states[k] /\ states[k].dead /\ states[k].deadFingerprint = b
  <2>1. entry.dead => entry = states[k] /\ states[k].dead /\ states[k].deadFingerprint = b
    BY <1>1, RevivedDead
  <2> QED
    BY <1>1, <2>1, RevivedKeeps DEF TypeOK
<1>3. /\ entry.dead => b \in refused /\ IsTerminal(entry.lastErr)
                       /\ entry.deadFingerprint \in refused /\ entry.inflight = NoCaller
      /\ IsTerminal(entry.lastErr) => refused # {} /\ (k # FileKey => k \in refused)
  BY <1>1, <1>2 DEF VerdictsAreEarned, KeysAreFairlyDead
<1>4. /\ [entry EXCEPT !.inflight = c].dead = entry.dead
      /\ [entry EXCEPT !.inflight = c].lastErr = entry.lastErr
  BY <1>2 DEF State
<1>5. pc[c] = "lock" /\ UNCHANGED <<req, refused>>
  BY DEF Decide, vendor
<1>6. Untold(c) /\ ~ret[c].attempted /\ ret[c] \in Result
  BY <1>1, <1>5 DEF VerdictsAreEarned, CallerIsToldFairly, TypeOK
<1>7. \/ AnswerDead(c, k, entry)
      \/ Join(c, k, entry)
      \/ AnswerCooldown(c, k, entry)
      \/ StartRenewal(c, k, entry)
  BY DEF Decide
<1>8. k = FileKey => req[c].named
  BY <1>1, BoundsAssumption DEF KeyFor, Bytes
<1>9. k # FileKey => k = b
  BY DEF KeyFor
<1> HIDE DEF k, entry
<1>10. KeysAreFairlyDead'
  <2>1. \A x \in Keys : x # k => states'[x] = states[x]
    BY <1>1, <1>7 DEF AnswerDead, Join, AnswerCooldown, StartRenewal, TypeOK
  <2>2. \/ states'[k] = entry
        \/ states'[k] = [entry EXCEPT !.inflight = c] /\ ~entry.dead
    BY <1>1, <1>7 DEF AnswerDead, Join, AnswerCooldown, StartRenewal, TypeOK
  <2>3. /\ states'[k].dead => /\ states'[k].deadFingerprint \in refused
                              /\ IsTerminal(states'[k].lastErr)
                              /\ states'[k].inflight = NoCaller
        /\ IsTerminal(states'[k].lastErr) => refused # {} /\ (k # FileKey => k \in refused)
    BY <1>3, <1>4, <2>2
  <2>4. ASSUME NEW x \in Keys
        PROVE  /\ states'[x].dead => /\ states'[x].deadFingerprint \in refused
                                     /\ IsTerminal(states'[x].lastErr)
                                     /\ states'[x].inflight = NoCaller
               /\ IsTerminal(states'[x].lastErr) =>
                    refused # {} /\ (x # FileKey => x \in refused)
    BY <2>1, <2>3 DEF VerdictsAreEarned, KeysAreFairlyDead
  <2> QED
    BY <1>5, <2>4 DEF KeysAreFairlyDead, IsTerminal
<1>11. CallerIsToldFairly(c)'
  <2>1. CASE AnswerDead(c, k, entry)
    <3>1. /\ pc'[c] = "returned" /\ ret'[c].storage = b /\ ret'[c].dead
          /\ IsTerminal(ret'[c].err) /\ b \in refused
      BY <1>1, <1>3, <1>6, <2>1 DEF AnswerDead, TypeOK, Result, Untold
    <3> QED
      BY <1>5, <3>1 DEF CallerIsToldFairly, Told, IsTerminal
  <2>2. CASE Join(c, k, entry)
    BY <1>1, <2>2 DEF Join, TypeOK, CallerIsToldFairly
  <2>3. CASE AnswerCooldown(c, k, entry)
    <3>1. /\ pc'[c] = "returned" /\ ret'[c].dead = FALSE /\ ~ret'[c].attempted
          /\ ret'[c].err = entry.lastErr
      BY <1>1, <1>6, <2>3 DEF AnswerCooldown, TypeOK, Result, Untold
    <3>2. IsTerminal(ret'[c].err) => b \in refused \/ (req[c].named /\ refused # {})
      BY <1>3, <1>8, <1>9, <3>1
    <3> QED
      BY <1>5, <3>1, <3>2 DEF CallerIsToldFairly, Told, ToldByOthers, IsTerminal
  <2>4. CASE StartRenewal(c, k, entry)
    <3>1. /\ pc'[c] = "vendor" /\ ret'[c].attempted /\ ret'[c].storage = b
          /\ ret'[c].dead = FALSE /\ ret'[c].err = "none"
      BY <1>1, <1>6, <2>4 DEF StartRenewal, TypeOK, Result, Untold
    <3> QED
      BY <1>5, <3>1 DEF CallerIsToldFairly, Untold
  <2> QED
    BY <1>7, <2>1, <2>2, <2>3, <2>4
<1>12. ASSUME NEW d \in Callers \ {c} PROVE CallerIsToldFairly(d)'
  <2>1. pc'[d] = pc[d] /\ ret'[d] = ret[d]
    BY <1>1, <1>7 DEF AnswerDead, Join, AnswerCooldown, StartRenewal, TypeOK
  <2> QED
    BY <1>5, <2>1, StillFair DEF VerdictsAreEarned
<1> QED
  BY <1>10, <1>11, <1>12 DEF VerdictsAreEarned

(* The outcome of a renewal is recorded by the caller that holds the mark, *)
(* so that the key was not dead before.                                    *)
LEMMA VerdictsRecord ==
    ASSUME IInv, VerdictsAreEarned, NEW c \in Callers, Record(c)
    PROVE  VerdictsAreEarned'
<1> DEFINE k == KeyFor(req[c])
<1>1. /\ k \in Keys /\ pc[c] = "finish" /\ TypeOK /\ req[c].bytes \in Bytes
      /\ pc' = [pc EXCEPT ![c] = "release"] /\ UNCHANGED <<req, ret, refused>>
      /\ states' = [states EXCEPT ![k] = Outcome(states[k], c)]
  BY KeyForType DEF Record, IInv, TypeOK, Request, vendor
<1>2. states[k].inflight = c /\ c # NoCaller
  BY <1>1, CallersAssumption DEF IInv, SingleFlight, Renewing
<1>3. ~states[k].dead
  BY <1>1, <1>2 DEF VerdictsAreEarned, KeysAreFairlyDead
<1>4. Answered(c)
  BY <1>1 DEF VerdictsAreEarned, CallerIsToldFairly
<1>5. k # FileKey => k = req[c].bytes
  BY DEF KeyFor
<1> HIDE DEF k
<1>6. /\ Outcome(states[k], c).dead <=> IsTerminal(ret[c].err)
      /\ Outcome(states[k], c).lastErr = ret[c].err
      /\ Outcome(states[k], c).inflight = NoCaller
      /\ IsTerminal(ret[c].err) => Outcome(states[k], c).deadFingerprint = req[c].bytes
  BY <1>3 DEF Outcome
<1>7. KeysAreFairlyDead'
  <2>1. states'[k] = Outcome(states[k], c) /\ \A x \in Keys : x # k => states'[x] = states[x]
    BY <1>1 DEF TypeOK
  <2>2. ASSUME NEW x \in Keys
        PROVE  /\ states'[x].dead => /\ states'[x].deadFingerprint \in refused
                                     /\ IsTerminal(states'[x].lastErr)
                                     /\ states'[x].inflight = NoCaller
               /\ IsTerminal(states'[x].lastErr) =>
                    refused # {} /\ (x # FileKey => x \in refused)
    BY <1>4, <1>5, <1>6, <2>1 DEF VerdictsAreEarned, KeysAreFairlyDead, Answered
  <2> QED
    BY <1>1, <2>2 DEF KeysAreFairlyDead, IsTerminal
<1>8. ASSUME NEW d \in Callers PROVE CallerIsToldFairly(d)'
  <2>1. CASE d = c
    BY <1>1, <1>4, <2>1 DEF TypeOK, CallerIsToldFairly, Answered, IsTerminal
  <2>2. CASE d # c
    BY <1>1, <2>2, StillFair DEF TypeOK, VerdictsAreEarned
  <2> QED
    BY <2>1, <2>2
<1> QED
  BY <1>7, <1>8 DEF VerdictsAreEarned

(* The result is published: whoever waited came with the same key, that is *)
(* with the same bytes unless it named the same file.                      *)
LEMMA VerdictsRelease ==
    ASSUME IInv, VerdictsAreEarned, NEW c \in Callers, Release(c)
    PROVE  VerdictsAreEarned'
<1>1. /\ pc[c] = "release" /\ UNCHANGED <<states, req, refused>> /\ TypeOK
      /\ \A d \in Callers :
           \/ pc'[d] = pc[d] /\ ret'[d] = ret[d]
           \/ pc'[d] = "returned" /\ ret'[d] = ret[d] /\ d = c
           \/ pc'[d] = "returned" /\ ret'[d] = ret[c] /\ pc[d] = "joining" /\ leader[d] = c
  <2> DEFINE waiters == WaitersOn(c)
  <2>1. /\ pc[c] = "release" /\ UNCHANGED <<states, req, refused>> /\ TypeOK
        /\ pc' = [j \in Callers |-> IF j \in waiters \union {c} THEN "returned" ELSE pc[j]]
        /\ ret' = [j \in Callers |-> IF j \in waiters THEN ret[c] ELSE ret[j]]
    BY DEF Release, IInv, vendor
  <2>2. \A j \in waiters : pc[j] = "joining" /\ leader[j] = c
    BY DEF WaitersOn
  <2> HIDE DEF waiters
  <2> QED
    BY <2>1, <2>2
<1>2. Answered(c)
  BY <1>1 DEF VerdictsAreEarned, CallerIsToldFairly
<1>3. KeysAreFairlyDead'
  BY <1>1 DEF VerdictsAreEarned, KeysAreFairlyDead, IsTerminal
<1>4. ASSUME NEW d \in Callers PROVE CallerIsToldFairly(d)'
  <2>1. CASE pc'[d] = pc[d] /\ ret'[d] = ret[d]
    BY <1>1, <2>1, StillFair DEF VerdictsAreEarned
  <2>2. CASE pc'[d] = "returned" /\ ret'[d] = ret[d] /\ d = c
    BY <1>1, <1>2, <2>2 DEF CallerIsToldFairly, Told, Answered, IsTerminal
  <2>3. CASE pc'[d] = "returned" /\ ret'[d] = ret[c] /\ pc[d] = "joining" /\ leader[d] = c
    <3>1. KeyFor(req[c]) = KeyFor(req[d])
      BY <2>3 DEF IInv, WaitersHaveARenewer
    <3>2. req[d].named \/ req[d].bytes = req[c].bytes
      BY <1>1, <3>1, BoundsAssumption DEF KeyFor, TypeOK, Request, Bytes
    <3> QED
      BY <1>1, <1>2, <2>3, <3>2 DEF CallerIsToldFairly, Told, ToldByOthers, Answered, IsTerminal
  <2> QED
    BY <1>1, <2>1, <2>2, <2>3
<1> QED
  BY <1>3, <1>4 DEF VerdictsAreEarned

LEMMA VerdictsStep == IInv /\ VerdictsAreEarned /\ [Next]_vars => VerdictsAreEarned'
<1> SUFFICES ASSUME IInv, VerdictsAreEarned, [Next]_vars PROVE VerdictsAreEarned'
  OBVIOUS
<1>1. refused \subseteq refused' /\ TypeOK
  BY RefusedGrows DEF IInv
<1>2. ASSUME NEW c \in Callers, HandOver(c) PROVE VerdictsAreEarned'
  <2>1. /\ pc'[c] = "check" /\ UNCHANGED <<states, ret>>
        /\ \A d \in Callers \ {c} : pc'[d] = pc[d] /\ req'[d] = req[d]
    BY <1>1, <1>2 DEF HandOver, TypeOK
  <2>2. CallerIsToldFairly(c)'
    BY <2>1 DEF CallerIsToldFairly
  <2> QED
    BY <1>1, <2>1, <2>2, ToldToOne
<1>3. ASSUME NEW c \in Callers, Check(c) PROVE VerdictsAreEarned'
  <2>1. /\ pc'[c] \in {"lock", "returned"} /\ UNCHANGED <<states, req>>
        /\ ret'[c].storage = req[c].bytes /\ ret'[c].dead = FALSE
        /\ ret'[c].err = "none" /\ ~ret'[c].attempted
        /\ \A d \in Callers \ {c} : pc'[d] = pc[d] /\ ret'[d] = ret[d]
    BY <1>1, <1>3 DEF Check, TypeOK
  <2>2. CallerIsToldFairly(c)'
    BY <2>1 DEF CallerIsToldFairly, Untold, Told, IsTerminal
  <2> QED
    BY <1>1, <2>1, <2>2, ToldToOne
<1>4. ASSUME NEW c \in Callers, VendorAnswered(c) PROVE VerdictsAreEarned'
  <2>1. /\ pc[c] = "vendor" /\ UNCHANGED <<states, req>>
        /\ \A d \in Callers \ {c} : pc'[d] = pc[d] /\ ret'[d] = ret[d]
    BY <1>1, <1>4 DEF VendorAnswered, RenewalFails, TypeOK
  <2>2. Untold(c) /\ ret[c].attempted /\ ret[c] \in Result
    BY <1>1, <2>1 DEF VerdictsAreEarned, CallerIsToldFairly, TypeOK
  <2>3. CASE pc' = [pc EXCEPT ![c] = "save"] /\ UNCHANGED ret
    <3>1. CallerIsToldFairly(c)'
      BY <1>1, <2>1, <2>2, <2>3 DEF TypeOK, CallerIsToldFairly, Untold
    <3> QED
      BY <1>1, <2>1, <3>1, ToldToOne
  <2>4. ASSUME NEW err \in {"terminal", "transport", "empty"}, RenewalFails(c, err),
               err = "terminal" => Refused(req[c].bytes)
        PROVE  VerdictsAreEarned'
    <3>1. /\ pc'[c] = "finish" /\ ret'[c].storage = req[c].bytes
          /\ ret'[c].err = err /\ ret'[c].dead = IsTerminal(err) /\ ret'[c].attempted
      BY <1>1, <2>2, <2>4 DEF RenewalFails, TypeOK, Result, Untold
    <3>2. IsTerminal(err) => req[c].bytes \in refused'
      BY <2>4 DEF IsTerminal, Refused
    <3>3. CallerIsToldFairly(c)'
      BY <2>1, <3>1, <3>2 DEF CallerIsToldFairly, Answered, IsTerminal
    <3> QED
      BY <1>1, <2>1, <3>3, ToldToOne
  <2> QED
    BY <1>4, <2>3, <2>4 DEF VendorAnswered
<1>5. ASSUME NEW c \in Callers, Save(c) PROVE VerdictsAreEarned'
  <2>1. /\ pc[c] = "save" /\ pc'[c] = "finish" /\ UNCHANGED <<states, req>>
        /\ \A d \in Callers \ {c} : pc'[d] = pc[d] /\ ret'[d] = ret[d]
    BY <1>1, <1>5 DEF Save, TypeOK
  <2>2. Untold(c) /\ ret[c].attempted /\ ret[c] \in Result
    BY <1>1, <2>1 DEF VerdictsAreEarned, CallerIsToldFairly, TypeOK
  <2>3. ret'[c].dead = FALSE /\ ret'[c].err \in {"save", "none"} /\ ret'[c].attempted
    BY <1>1, <1>5, <2>2 DEF Save, TypeOK, Result, Untold
  <2>4. CallerIsToldFairly(c)'
    BY <2>1, <2>3 DEF CallerIsToldFairly, Answered, IsTerminal
  <2> QED
    BY <1>1, <2>1, <2>4, ToldToOne
<1>6. ASSUME NEW c \in Callers, Leave(c) PROVE VerdictsAreEarned'
  <2>1. /\ pc'[c] = "idle" /\ UNCHANGED states
        /\ \A d \in Callers \ {c} : pc'[d] = pc[d] /\ ret'[d] = ret[d] /\ req'[d] = req[d]
    BY <1>1, <1>6 DEF Leave, TypeOK
  <2>2. CallerIsToldFairly(c)'
    BY <2>1 DEF CallerIsToldFairly
  <2> QED
    BY <1>1, <2>1, <2>2, ToldToOne
<1>7. ASSUME UNCHANGED <<states, pc, req, ret>> PROVE VerdictsAreEarned'
  <2>1. KeysAreFairlyDead'
    BY <1>1, <1>7 DEF VerdictsAreEarned, KeysAreFairlyDead, IsTerminal
  <2>2. ASSUME NEW d \in Callers PROVE CallerIsToldFairly(d)'
    BY <1>1, <1>7, StillFair DEF VerdictsAreEarned
  <2> QED
    BY <2>1, <2>2 DEF VerdictsAreEarned
<1>8. \/ \E c \in Callers : HandOver(c) \/ Step(c)
      \/ UNCHANGED <<states, pc, req, ret>>
  BY DEF Next, HostStart, HostAnswered, HostStore, Login, Tick, vars, caller
<1> QED
  BY <1>2, <1>3, <1>4, <1>5, <1>6, <1>7, <1>8, VerdictsDecide, VerdictsRecord, VerdictsRelease
     DEF Step

(* Nobody is told to log in again but for bytes the vendor has refused,    *)
(* the caller's own or, as far as ToldByOthers says, older ones of the     *)
(* same file, however many callers share the key and the result.           *)
THEOREM DeadWasRefused == Spec => []DeadMeansRefused
<1>1. VerdictsAreEarned => DeadMeansRefused
  BY DEF VerdictsAreEarned, CallerIsToldFairly, Told, DeadMeansRefused
<1>2. Init => IInv
  BY TypeInit, FlightInit DEF IInv
<1>3. IInv /\ [Next]_vars => IInv'
  BY TypeStep, ReadingsStep, FlightStep DEF IInv
<1> QED
  BY <1>1, <1>2, <1>3, VerdictsInit, VerdictsStep, PTL DEF Spec
----------------------------------------------------------------------------
(* The file. What is on its way to the file was issued to one writer only, *)
(* has been handed to nobody yet, and so has not been renewed in turn.     *)
NothingIsNewer ==
    /\ file <= issued
    /\ host.bytes <= issued
    /\ \A c \in Callers : req[c].bytes <= issued /\ got[c] <= issued

Unseen(b) ==
    /\ b \in live
    /\ b > 1
    /\ b # file
    /\ \A c \in Callers : req[c].bytes # b

ArrivalsAreFresh ==
    /\ \A c \in Callers : pc[c] = "save" => Unseen(got[c]) /\ got[c] # host.bytes
    /\ \A c, d \in Callers : pc[c] = "save" /\ pc[d] = "save" /\ got[c] = got[d] => c = d
    /\ host.at = "store" => Unseen(host.bytes)

WritersKeepOut == NothingIsNewer /\ ArrivalsAreFresh

LEMMA ArrivingIs ==
    /\ \A c \in Callers : pc[c] = "save" => got[c] \in Arriving
    /\ host.at = "store" => host.bytes \in Arriving
    /\ \A b \in Arriving : \/ \E c \in Callers : pc[c] = "save" /\ b = got[c]
                           \/ host.at = "store" /\ b = host.bytes
  BY DEF Arriving

(* What a renewal does to the vendor's books.                              *)
LEMMA RenewedEffect ==
    ASSUME TypeOK, NEW b \in Bytes, Renewed(b)
    PROVE  /\ issued \in Nat /\ issued' = issued + 1 /\ issued + 1 \in Bytes
           /\ issued + 1 \in live'
           /\ \A x \in live : x # b => x \in live'
<1>1. PICK l \in Lives : Issue(l, TRUE)
  BY DEF Renewed
<1>2. issued + 1 \in Bytes
  BY <1>1, IssueType
<1> QED
  BY <1>1, <1>2, BoundsAssumption DEF Renewed, Issue, TypeOK, Bytes

(* A step that stores, issues and hands over nothing, and after which at   *)
(* most fewer bytes are on their way.                                      *)
LEMMA NothingMoves ==
    ASSUME TypeOK, WritersKeepOut, UNCHANGED <<file, issued, live, host>>,
           \A c \in Callers :
               /\ got'[c] \in {got[c], 1}
               /\ req'[c].bytes \in {req[c].bytes, file, 1}
               /\ pc'[c] = "save" => pc[c] = "save" /\ got'[c] = got[c]
    PROVE  WritersKeepOut'
<1>1. issued \in Nat /\ issued >= 1 /\ file \in Nat /\ host.bytes \in Nat
  BY BoundsAssumption DEF TypeOK, Bytes, HostLoop
<1>2. NothingIsNewer'
  BY <1>1 DEF WritersKeepOut, NothingIsNewer
<1>3. ArrivalsAreFresh'
  <2>1. \A c \in Callers : pc'[c] = "save" => got'[c] = got[c] /\ Unseen(got[c])
    BY DEF WritersKeepOut, ArrivalsAreFresh
  <2>2. \A c \in Callers : pc'[c] = "save" => Unseen(got[c])'
    BY <2>1 DEF Unseen
  <2>3. host'.at = "store" => Unseen(host.bytes)'
    BY DEF Unseen, WritersKeepOut, ArrivalsAreFresh
  <2> QED
    BY <2>1, <2>2, <2>3 DEF WritersKeepOut, ArrivalsAreFresh
<1> QED
  BY <1>2, <1>3 DEF WritersKeepOut

(* A renewal by one writer leaves what the others bring as fresh as it was, *)
(* and what it was answered with is fresh itself.                          *)
LEMMA RenewalIsFresh ==
    ASSUME TypeOK, WritersKeepOut, NEW b \in Bytes, Renewed(b), UNCHANGED <<file, req>>
    PROVE  /\ issued' = issued + 1
           /\ Unseen(issued)'
           /\ \A c \in Callers : got[c] # issued' /\ req[c].bytes # issued'
           /\ host.bytes # issued'
           /\ \A x \in Bytes : Unseen(x) /\ x # b => Unseen(x)'
           /\ NothingIsNewer /\ issued <= issued'
<1>1. /\ issued \in Nat /\ issued' = issued + 1 /\ issued' \in live'
      /\ \A x \in live : x # b => x \in live'
  BY RenewedEffect
<1>2. /\ issued >= 1 /\ file \in Nat /\ host.bytes \in Nat
      /\ \A c \in Callers : req[c].bytes \in Nat /\ got[c] \in Nat
  BY BoundsAssumption DEF TypeOK, Bytes, HostLoop, Request
<1>3. NothingIsNewer
  BY DEF WritersKeepOut
<1>4. Unseen(issued)'
  BY <1>1, <1>2, <1>3 DEF Unseen, NothingIsNewer
<1>5. \A x \in Bytes : Unseen(x) /\ x # b => Unseen(x)'
  BY <1>1 DEF Unseen
<1>6. /\ \A c \in Callers : got[c] # issued' /\ req[c].bytes # issued'
      /\ host.bytes # issued'
  BY <1>1, <1>2, <1>3 DEF NothingIsNewer
<1> QED
  BY <1>1, <1>3, <1>4, <1>5, <1>6

LEMMA WritersInit == Init => WritersKeepOut
  BY DEF Init, NoRequest, WritersKeepOut, NothingIsNewer, ArrivalsAreFresh

LEMMA WritersStep == TypeOK /\ WritersKeepOut /\ [Next]_vars => WritersKeepOut'
<1> SUFFICES ASSUME TypeOK, WritersKeepOut, [Next]_vars PROVE WritersKeepOut'
  OBVIOUS
<1>0. /\ issued \in Nat /\ issued >= 1 /\ file \in Nat /\ host.bytes \in Bytes \intersect Nat
      /\ file <= issued /\ host.bytes <= issued
      /\ \A c \in Callers :
             /\ req[c].bytes \in Bytes \intersect Nat
             /\ got[c] \in Bytes \intersect Nat
             /\ req[c].bytes <= issued /\ got[c] <= issued
  BY BoundsAssumption DEF TypeOK, Bytes, HostLoop, Request, WritersKeepOut, NothingIsNewer
<1>1. ASSUME NEW c \in Callers, HandOver(c) PROVE WritersKeepOut'
  <2>1. \A d \in Callers :
            /\ req'[d].bytes \in {req[d].bytes, file}
            /\ pc'[d] = "save" => pc[d] = "save"
    BY <1>1 DEF HandOver, TypeOK
  <2> QED
    BY <1>1, <2>1, NothingMoves DEF HandOver, vendor
<1>2. ASSUME NEW c \in Callers, Check(c) \/ Decide(c) \/ Record(c) \/ Release(c) \/ Leave(c)
      PROVE  WritersKeepOut'
  <2>1. UNCHANGED <<file, issued, live, host, got>>
    BY <1>2 DEF Check, Decide, Record, Release, Leave, vendor
  <2>2. \A d \in Callers : req'[d].bytes \in {req[d].bytes, 1}
    <3>1. CASE Leave(c)
      BY <3>1 DEF Leave, TypeOK, NoRequest
    <3>2. CASE UNCHANGED req
      BY <3>2
    <3> QED
      BY <1>2, <3>1, <3>2 DEF Check, Decide, Record, Release
  <2>3. \A d \in Callers : pc'[d] = "save" => pc[d] = "save"
    <3>1. CASE Decide(c)
      BY <3>1, DecideEffect DEF TypeOK
    <3>2. CASE Check(c) \/ Record(c) \/ Leave(c)
      BY <3>2 DEF Check, Record, Leave, TypeOK
    <3>3. CASE Release(c)
      BY <3>3 DEF Release, TypeOK
    <3> QED
      BY <1>2, <3>1, <3>2, <3>3
  <2> QED
    BY <2>1, <2>2, <2>3, NothingMoves
<1>3. ASSUME NEW c \in Callers, VendorAnswered(c) PROVE WritersKeepOut'
  <2>1. /\ pc[c] = "vendor" /\ UNCHANGED <<file, req, host>>
        /\ \A d \in Callers \ {c} : pc'[d] = pc[d] /\ got'[d] = got[d]
    BY <1>3 DEF VendorAnswered, RenewalFails, TypeOK
  <2>2. CASE Renewed(req[c].bytes)
    <3>1. /\ issued' = issued + 1 /\ Unseen(issued)'
          /\ \A d \in Callers : got[d] # issued' /\ req[d].bytes # issued'
          /\ host.bytes # issued'
          /\ \A x \in Bytes : Unseen(x) /\ x # req[c].bytes => Unseen(x)'
      BY <1>0, <2>1, <2>2, RenewalIsFresh
    <3>2. \A x \in Bytes : Unseen(x) => Unseen(x)'
      BY <3>1 DEF Unseen
    <3>3. \/ got'[c] = issued' /\ pc'[c] = "save"
          \/ got'[c] = got[c] /\ pc'[c] = "finish"
      BY <1>3, <2>2, <3>1 DEF VendorAnswered, RenewalFails, TypeOK, Refused, vendor
    <3>4. NothingIsNewer'
      BY <1>0, <2>1, <3>1, <3>3 DEF NothingIsNewer
    <3>5. ArrivalsAreFresh'
      <4>1. \A d \in Callers : pc'[d] = "save" =>
              \/ d = c /\ got'[d] = issued'
              \/ d # c /\ got'[d] = got[d] /\ Unseen(got[d])
        BY <2>1, <3>3 DEF WritersKeepOut, ArrivalsAreFresh
      <4>2. \A d \in Callers : pc'[d] = "save" => Unseen(got[d])'
        BY <1>0, <3>1, <3>2, <4>1 DEF Unseen
      <4>3. host'.at = "store" => Unseen(host.bytes)'
        BY <1>0, <2>1, <3>2 DEF Unseen, WritersKeepOut, ArrivalsAreFresh
      <4> QED
        BY <2>1, <3>1, <3>3, <4>1, <4>2, <4>3 DEF WritersKeepOut, ArrivalsAreFresh
    <3> QED
      BY <3>4, <3>5 DEF WritersKeepOut
  <2>3. CASE ~Renewed(req[c].bytes)
    <3>1. UNCHANGED <<issued, live, got>> /\ pc'[c] = "finish"
      BY <1>3, <2>3 DEF VendorAnswered, RenewalFails, Refused, vendor, TypeOK
    <3> QED
      BY <2>1, <3>1, NothingMoves
  <2> QED
    BY <2>2, <2>3
<1>4. ASSUME NEW c \in Callers, Save(c), file' # got[c] PROVE WritersKeepOut'
  <2>1. UNCHANGED <<file, issued, live, host, req>>
    BY <1>4 DEF Save, WriteBack, vendor
  <2>2. \A d \in Callers :
            /\ got'[d] \in {got[d], 1}
            /\ req'[d].bytes \in {req[d].bytes, file, 1}
            /\ pc'[d] = "save" => pc[d] = "save" /\ got'[d] = got[d]
    BY <1>4, <2>1 DEF Save, TypeOK
  <2> QED
    BY <2>1, <2>2, NothingMoves
<1>5. ASSUME UNCHANGED <<issued, live, req>>, WritersKeepOut,
             NEW x \in Nat, file' = x, x <= issued, host'.bytes \in {host.bytes, 1},
             \A d \in Callers :
                 /\ got'[d] \in {got[d], 1}
                 /\ pc'[d] = "save" =>
                      pc[d] = "save" /\ got'[d] = got[d] /\ got[d] # x,
             host'.at = "store" => UNCHANGED host /\ host.bytes # x
      PROVE  WritersKeepOut'
  <2>1. NothingIsNewer'
    BY <1>0, <1>5 DEF NothingIsNewer
  <2>2. \A d \in Callers : pc'[d] = "save" => Unseen(got[d])' /\ got'[d] # host'.bytes
    BY <1>0, <1>5 DEF Unseen, WritersKeepOut, ArrivalsAreFresh
  <2>3. host'.at = "store" => Unseen(host.bytes)'
    BY <1>0, <1>5 DEF Unseen, WritersKeepOut, ArrivalsAreFresh
  <2> QED
    BY <1>5, <2>1, <2>2, <2>3 DEF WritersKeepOut, ArrivalsAreFresh
<1>6. ASSUME NEW c \in Callers, Save(c), file' = got[c] PROVE WritersKeepOut'
  <2>1. /\ UNCHANGED <<issued, live, host, req>> /\ pc[c] = "save"
        /\ \A d \in Callers :
               /\ got'[d] \in {got[d], 1}
               /\ pc'[d] = "save" => d # c /\ pc[d] = "save" /\ got'[d] = got[d]
    BY <1>6 DEF Save, TypeOK, vendor
  <2>2. \A d \in Callers : pc'[d] = "save" => got[d] # got[c]
    BY <2>1 DEF WritersKeepOut, ArrivalsAreFresh
  <2>3. host.bytes # got[c]
    BY <2>1 DEF WritersKeepOut, ArrivalsAreFresh
  <2> QED
    BY <1>0, <1>5, <1>6, <2>1, <2>2, <2>3
<1>7. ASSUME HostStore PROVE WritersKeepOut'
  <2>1. /\ UNCHANGED <<issued, live, req, got, pc>> /\ host.at = "store"
        /\ file' = host.bytes /\ host' = [at |-> "idle", bytes |-> 1]
    BY <1>7 DEF HostStore, vendor, caller
  <2>2. \A d \in Callers : pc[d] = "save" => got[d] # host.bytes
    BY DEF WritersKeepOut, ArrivalsAreFresh
  <2> QED
    BY <1>0, <1>5, <2>1, <2>2
<1>8. ASSUME HostStart PROVE WritersKeepOut'
  <2>1. /\ UNCHANGED <<file, issued, live, req, got, pc>>
        /\ host' = [at |-> "vendor", bytes |-> file]
    BY <1>8 DEF HostStart, vendor, caller
  <2>2. NothingIsNewer'
    BY <1>0, <2>1 DEF NothingIsNewer
  <2>3. ArrivalsAreFresh'
    BY <2>1 DEF WritersKeepOut, ArrivalsAreFresh, Unseen
  <2> QED
    BY <2>2, <2>3 DEF WritersKeepOut
<1>10. ASSUME HostAnswered PROVE WritersKeepOut'
  <2>1. host.at = "vendor" /\ UNCHANGED <<file, req, got, pc>>
    BY <1>10 DEF HostAnswered, caller
  <2>2. CASE Renewed(host.bytes)
    <3>1. /\ issued' = issued + 1 /\ Unseen(issued)'
          /\ \A d \in Callers : got[d] # issued'
          /\ \A x \in Bytes : Unseen(x) /\ x # host.bytes => Unseen(x)'
      BY <1>0, <2>1, <2>2, RenewalIsFresh
    <3>2. host' = [at |-> "store", bytes |-> issued']
      BY <1>10, <2>2, <3>1 DEF HostAnswered, Refused, vendor
    <3>3. NothingIsNewer'
      BY <1>0, <2>1, <3>1, <3>2 DEF NothingIsNewer
    <3>4. \A d \in Callers : pc[d] = "save" => Unseen(got[d])'
      BY <1>0, <2>1, <3>1 DEF Unseen, WritersKeepOut, ArrivalsAreFresh
    <3>5. ArrivalsAreFresh'
      BY <2>1, <3>1, <3>2, <3>4 DEF Unseen, WritersKeepOut, ArrivalsAreFresh
    <3> QED
      BY <3>3, <3>5 DEF WritersKeepOut
  <2>3. CASE ~Renewed(host.bytes)
    <3>1. UNCHANGED <<issued, live>> /\ host' = [at |-> "idle", bytes |-> 1]
      BY <1>10, <2>3 DEF HostAnswered, Refused, vendor
    <3>2. NothingIsNewer'
      BY <1>0, <2>1, <3>1 DEF NothingIsNewer
    <3>3. ArrivalsAreFresh'
      BY <2>1, <3>1 DEF WritersKeepOut, ArrivalsAreFresh, Unseen
    <3> QED
      BY <3>2, <3>3 DEF WritersKeepOut
  <2> QED
    BY <2>2, <2>3
<1>11. ASSUME Login PROVE WritersKeepOut'
  <2>1. PICK l \in Lives, g \in BOOLEAN :
          /\ Issue(l, g)
          /\ live' = IF g THEN live \union {issued + 1} ELSE live
    BY <1>11 DEF Login
  <2>2. /\ issued' = issued + 1 /\ file' = issued + 1 /\ live \subseteq live'
        /\ UNCHANGED <<req, got, pc, host>>
    BY <1>11, <2>1 DEF Login, Issue, caller
  <2>3. NothingIsNewer'
    BY <1>0, <2>2 DEF NothingIsNewer
  <2>4. \A d \in Callers : pc[d] = "save" => Unseen(got[d])'
    BY <1>0, <2>2 DEF Unseen, WritersKeepOut, ArrivalsAreFresh
  <2>5. host.at = "store" => Unseen(host.bytes)'
    BY <1>0, <2>2 DEF Unseen, WritersKeepOut, ArrivalsAreFresh
  <2>6. ArrivalsAreFresh'
    BY <2>2, <2>4, <2>5 DEF WritersKeepOut, ArrivalsAreFresh
  <2> QED
    BY <2>3, <2>6 DEF WritersKeepOut
<1>9. ASSUME Tick \/ UNCHANGED vars PROVE WritersKeepOut'
  <2>1. UNCHANGED <<file, issued, live, host, req, got, pc>>
    BY <1>9 DEF Tick, vars, vendor, caller
  <2> QED
    BY <2>1, NothingMoves
<1> QED
  BY <1>1, <1>2, <1>3, <1>4, <1>6, <1>7, <1>8, <1>9, <1>10, <1>11 DEF Next, Step

(* The file is renewable, or what will be stored next is: what is on its   *)
(* way was issued last to its writer and nobody has spent it.              *)
LEMMA RenewableStep ==
    ASSUME "lost" \notin Answers, ~SaveFails
    PROVE  TypeOK /\ WritersKeepOut /\ FileStaysRenewable /\ [Next]_vars
              => FileStaysRenewable'
<1> SUFFICES ASSUME TypeOK, WritersKeepOut, FileStaysRenewable, [Next]_vars,
                    cred'[file'].grant
             PROVE  file' \in live' \/ \E b : b \in Arriving' /\ b \in live'
  BY DEF FileStaysRenewable
<1>1. ASSUME NEW c \in Callers, pc'[c] = "save", got'[c] \in live'
      PROVE  \E b : b \in Arriving' /\ b \in live'
  BY <1>1 DEF Arriving
<1>2. ASSUME host'.at = "store", host'.bytes \in live'
      PROVE  \E b : b \in Arriving' /\ b \in live'
  BY <1>2 DEF Arriving
(* Nothing is stored or spent, and whoever is on the way stays on it.      *)
<1>3. ASSUME UNCHANGED <<file, live, issued, cred>>,
             \A c \in Callers : pc[c] = "save" => pc'[c] = "save" /\ got'[c] = got[c],
             host.at = "store" => UNCHANGED host
      PROVE  file' \in live' \/ \E b : b \in Arriving' /\ b \in live'
  <2>1. CASE file \in live
    BY <1>3, <2>1
  <2>2. CASE file \notin live
    <3>1. PICK b \in Arriving : b \in live
      BY <1>3, <2>2 DEF FileStaysRenewable
    <3> QED
      BY <1>1, <1>2, <1>3, <3>1, ArrivingIs
  <2> QED
    BY <2>1, <2>2
<1>4. ASSUME NEW c \in Callers, VendorAnswered(c)
      PROVE  file' \in live' \/ \E b : b \in Arriving' /\ b \in live'
  <2>1. pc[c] = "vendor" /\ req[c].bytes \in Bytes /\ UNCHANGED <<file, host>>
    BY <1>4 DEF VendorAnswered, TypeOK, Request
  <2>2. CASE Renewed(req[c].bytes) /\ got' = [got EXCEPT ![c] = issued + 1]
              /\ pc' = [pc EXCEPT ![c] = "save"]
    <3>1. issued + 1 \in live'
      BY <2>1, <2>2, RenewedEffect
    <3> QED
      BY <1>1, <2>2, <3>1 DEF TypeOK
  <2>3. CASE (Refused(req[c].bytes) \/ UNCHANGED vendor)
              /\ pc' = [pc EXCEPT ![c] = "finish"] /\ UNCHANGED got
    <3>1. UNCHANGED <<live, issued, cred>>
      BY <2>3 DEF Refused, vendor
    <3> QED
      BY <1>3, <2>1, <2>3, <3>1 DEF TypeOK
  <2> QED
    BY <1>4, <2>2, <2>3 DEF VendorAnswered, RenewalFails
<1>5. ASSUME NEW c \in Callers, Save(c)
      PROVE  file' \in live' \/ \E b : b \in Arriving' /\ b \in live'
  <2>1. pc[c] = "save" /\ file' = got[c] /\ UNCHANGED live
    BY <1>5 DEF Save, WriteBack, vendor
  <2> QED
    BY <2>1 DEF WritersKeepOut, ArrivalsAreFresh, Unseen
<1>6. ASSUME HostStore
      PROVE  file' \in live' \/ \E b : b \in Arriving' /\ b \in live'
  <2>1. host.at = "store" /\ file' = host.bytes /\ UNCHANGED live
    BY <1>6 DEF HostStore, vendor
  <2> QED
    BY <2>1 DEF WritersKeepOut, ArrivalsAreFresh, Unseen
<1>7. ASSUME HostAnswered
      PROVE  file' \in live' \/ \E b : b \in Arriving' /\ b \in live'
  <2>1. host.at = "vendor" /\ host.bytes \in Bytes /\ UNCHANGED <<file, pc, got>>
    BY <1>7 DEF HostAnswered, TypeOK, HostLoop, caller
  <2>2. CASE Renewed(host.bytes) /\ host' = [at |-> "store", bytes |-> issued + 1]
    <3>1. issued + 1 \in live'
      BY <2>1, <2>2, RenewedEffect
    <3> QED
      BY <1>2, <2>2, <3>1
  <2>3. CASE Refused(host.bytes) \/ UNCHANGED vendor
    <3>1. UNCHANGED <<live, issued, cred>>
      BY <2>3 DEF Refused, vendor
    <3> QED
      BY <1>3, <2>1, <3>1
  <2> QED
    BY <1>7, <2>2, <2>3 DEF HostAnswered
<1>8. ASSUME Login
      PROVE  file' \in live' \/ \E b : b \in Arriving' /\ b \in live'
  <2>1. PICK l \in Lives, g \in BOOLEAN :
          /\ Issue(l, g)
          /\ live' = IF g THEN live \union {issued + 1} ELSE live
    BY <1>8 DEF Login
  <2>2. file' = issued + 1 /\ issued + 1 \in Bytes
    BY <1>8, <2>1, IssueType DEF Login
  <2>3. cred'[file'].grant = g
    BY <2>1, <2>2 DEF Issue, TypeOK
  <2> QED
    BY <2>1, <2>2, <2>3
<1>9. ASSUME NEW c \in Callers, Decide(c)
      PROVE  file' \in live' \/ \E b : b \in Arriving' /\ b \in live'
  <2>1. /\ pc[c] = "lock" /\ UNCHANGED <<file, live, issued, cred, got, host>>
        /\ \A d \in Callers \ {c} : pc'[d] = pc[d]
    <3>1. pc[c] = "lock" /\ UNCHANGED <<file, live, issued, cred, got, host>>
      BY <1>9 DEF Decide, vendor
    <3> QED
      BY <1>9, <3>1, DecideEffect DEF TypeOK
  <2> QED
    BY <1>3, <2>1
<1>10. ASSUME NEW c \in Callers,
              HandOver(c) \/ Check(c) \/ Record(c) \/ Release(c) \/ Leave(c)
       PROVE  file' \in live' \/ \E b : b \in Arriving' /\ b \in live'
  <2>1. UNCHANGED <<file, live, issued, cred, got, host>>
    BY <1>10 DEF HandOver, Check, Record, Release, Leave, vendor
  <2>2. \A d \in Callers : pc[d] = "save" => pc'[d] = "save"
    <3>1. CASE HandOver(c) \/ Check(c) \/ Record(c) \/ Leave(c)
      BY <3>1 DEF HandOver, Check, Record, Leave, TypeOK
    <3>2. CASE Release(c)
      BY <3>2 DEF Release, WaitersOn
    <3> QED
      BY <1>10, <3>1, <3>2
  <2> QED
    BY <1>3, <2>1, <2>2
<1>11. ASSUME HostStart \/ Tick \/ UNCHANGED vars
       PROVE  file' \in live' \/ \E b : b \in Arriving' /\ b \in live'
  <2>1. UNCHANGED <<file, live, issued, cred, got, pc>>
    BY <1>11 DEF HostStart, Tick, vars, vendor, caller
  <2>2. host.at = "store" => UNCHANGED host
    BY <1>11 DEF HostStart, Tick, vars
  <2> QED
    BY <1>3, <2>1, <2>2
<1> QED
  BY <1>4, <1>5, <1>6, <1>7, <1>8, <1>9, <1>10, <1>11 DEF Next, Step

(* With a vendor whose answers arrive and a host that saves them, the      *)
(* stored credential can be renewed again or is about to be replaced by    *)
(* one that can, in whatever order the renewals of the plugin, the host's  *)
(* own loop and new logins write it.                                       *)
THEOREM FileIsRenewable ==
    ASSUME "lost" \notin Answers, ~SaveFails
    PROVE  Spec => []FileStaysRenewable
<1>1. Init => FileStaysRenewable
  BY DEF Init, FileStaysRenewable
<1> QED
  BY <1>1, TypeInit, TypeStep, WritersInit, WritersStep, RenewableStep, PTL DEF Spec
=============================================================================
