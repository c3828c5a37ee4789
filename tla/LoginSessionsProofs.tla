------------------------- MODULE LoginSessionsProofs -------------------------
(***************************************************************************)
(* For any number of sign-ins and panels and a buffer of any length: what  *)
(* a panel is handed was authorised and granted, and on a pinned port only *)
(* the newest sign-in is pending, so that no other captures its code.      *)
(***************************************************************************)
EXTENDS LoginSessions, TLAPS

(* A panel's call is about a session that started; from the vendor's grant *)
(* on, about one the vendor has granted.                                   *)
Sound(p) ==
    /\ panel[p].pc # "idle" => panel[p].of \in 1..last
    /\ panel[p].code \in authorised \union {NoCode}
    /\ panel[p].pc \in {"finish", "forget"} => panel[p].of \in exchanged
    /\ panel[p].pc = "forget" => status[panel[p].of] # "pending"

IInv ==
    /\ LoginTypeOK
    /\ \A p \in Panels : Sound(p)
    /\ \A a \in Attempts : code[a] \in authorised \union {NoCode}
    /\ \A a \in Attempts : status[a] = "success" => a \in exchanged
    /\ Pinned => \A a \in Attempts : status[a] = "pending" => a = last /\ a \in sessions
    /\ Pinned => NoNewerCode

LEMMA InitHolds == LoginInit => IInv
<1> SUFFICES ASSUME LoginInit PROVE IInv
  OBVIOUS
<1> USE LoginBoundsAssumption DEF LoginInit, Resting, Looking, Attempts, Codes, NoCode
<1>1. LoginTypeOK
  BY DEF LoginTypeOK
<1> QED  BY <1>1 DEF IInv, Sound, NoNewerCode

LEMMA Captured ==
    ASSUME NEW S, NEW result \in S, queue \in Seq(S), Len(queue) <= Buffer,
           S \subseteq Codes, lost \subseteq Codes, Capture(result)
    PROVE  queue' \in Seq(S) /\ Len(queue') <= Buffer /\ lost' \subseteq Codes
<1>1. CASE Len(queue) < Buffer /\ queue' = Append(queue, result) /\ UNCHANGED lost
  BY <1>1, LoginBoundsAssumption
<1>2. CASE lost' = lost \union {result} /\ UNCHANGED queue
  BY <1>2
<1> QED  BY <1>1, <1>2 DEF Capture

(* What the dispatcher, the browser and the clock do.                      *)
LEMMA CallbackHolds ==
    ASSUME IInv, \/ Stray \/ Dispatch
                 \/ \E a \in Attempts : ExpireAttempt(a) \/ Authorise(a) \/ ExpireLate(a)
    PROVE  IInv'
<1> USE LoginBoundsAssumption DEF IInv, LoginTypeOK, Sound, NoNewerCode, Attempts, Codes,
                                  NoCode, attemptVars
<1>a. authorised \union {NoCode} \subseteq Codes
  OBVIOUS
<1>1. CASE Stray
  <2>1. Capture(NoCode) /\ UNCHANGED <<authorised, last>>
    BY <1>1 DEF Stray
  <2>2. /\ queue' \in Seq(authorised \union {NoCode}) /\ Len(queue') <= Buffer
        /\ lost' \subseteq Codes
    BY <1>a, <2>1, Captured
  <2>3. /\ UNCHANGED <<last, status, code, due, sessions, authorised, exchanged>>
        /\ UNCHANGED <<dispatcher, panel, handed, badExchanges>> /\ strays' \in Nat
    BY <1>1 DEF Stray
  <2> QED  BY <2>2, <2>3
<1>2. CASE Take
  BY <1>2 DEF Take, Resting
<1>3. CASE Snapshot
  BY <1>3 DEF Snapshot
<1>4. ASSUME NEW a \in Attempts, Deliver(a) PROVE IInv'
  BY SMTT(30), <1>4 DEF Deliver, Kept
<1>5. CASE Offered
  BY <1>5 DEF Offered, Resting
<1>6. ASSUME NEW a \in Attempts, ExpireAttempt(a) PROVE IInv'
  BY <1>6 DEF ExpireAttempt
<1>7. ASSUME NEW a \in Attempts, Authorise(a) PROVE IInv'
  <2> DEFINE S == authorised \union {a} \union {NoCode}
  <2>1. Capture(a) /\ authorised' = authorised \union {a}
    BY <1>7 DEF Authorise
  <2>2. queue \in Seq(S) /\ S \subseteq Codes /\ a \in S
    BY <1>7 DEF Authorise
  <2>3. queue' \in Seq(S) /\ Len(queue') <= Buffer /\ lost' \subseteq Codes
    <3> HIDE DEF S
    <3> QED  BY <2>1, <2>2, Captured
  <2> QED  BY <1>7, <2>1, <2>3 DEF Authorise
<1>8. ASSUME NEW a \in Attempts, ExpireLate(a) PROVE IInv'
  <2>1. /\ status' = [status EXCEPT ![a] = "error"] /\ sessions' = sessions \ {a}
        /\ UNCHANGED <<code, panel, exchanged, handed, dispatcher, queue>>
    BY <1>8 DEF ExpireLate
  <2>2. UNCHANGED <<last, due, authorised, lost, strays, badExchanges>>
    BY <1>8 DEF ExpireLate
  <2>3. \A b \in Attempts : status'[b] = status[b] \/ status'[b] = "error"
    BY <2>1
  <2>4. \A b \in Attempts : status'[b] = "pending" => status[b] = "pending" /\ b # a
    BY <2>1
  <2>5. a <= last /\ a >= 1
    BY <1>8 DEF ExpireLate
  <2>6. LoginTypeOK'
    <3>1. status' \in [Attempts -> {"unborn", "pending", "success", "error"}]
      BY <2>1
    <3>2. \A b \in Attempts : b > last <=> status'[b] = "unborn"
      BY <2>1, <2>3, <2>5
    <3>3. sessions' \subseteq 1..last
      BY <2>1
    <3> QED  BY <2>1, <2>2, <3>1, <3>2, <3>3
  <2>7. \A p \in Panels : Sound(p)'
    BY <2>1, <2>2, <2>3
  <2>8. \A b \in Attempts : /\ code'[b] \in authorised' \union {NoCode}
                            /\ status'[b] = "success" => b \in exchanged'
    BY <2>1, <2>2, <2>3
  <2>9. Pinned => \A b \in Attempts : status'[b] = "pending" => b = last' /\ b \in sessions'
    BY <2>1, <2>2, <2>4
  <2>10. Pinned => NoNewerCode'
    BY <2>1, <2>2
  <2> QED  BY <2>6, <2>7, <2>8, <2>9, <2>10
<1> QED  BY <1>1, <1>2, <1>3, <1>4, <1>5, <1>6, <1>7, <1>8 DEF Dispatch

LEMMA StartHolds == ASSUME IInv, StartAttempt PROVE IInv'
<1> USE LoginBoundsAssumption, PinnedAssumption
    DEF IInv, LoginTypeOK, Sound, NoNewerCode, Attempts, Codes, NoCode, Superseded
<1> QED  BY SMTT(30) DEF StartAttempt

LEMMA StatusIsTyped ==
    ASSUME NEW R, status \in [R -> {"unborn", "pending", "success", "error"}], NEW a,
           status' = [status EXCEPT ![a] = "error"]
    PROVE  status' \in [R -> {"unborn", "pending", "success", "error"}]
  OBVIOUS

LEMMA FailIsTyped ==
    ASSUME NEW R, panel \in [Panels -> [pc : {"idle", "exchange", "finish", "fail", "forget"},
                                        of : R, code : R]],
           NEW p \in Panels, panel' = [panel EXCEPT ![p].pc = "fail"]
    PROVE  panel' \in [Panels -> [pc : {"idle", "exchange", "finish", "fail", "forget"},
                                  of : R, code : R]]
  OBVIOUS

(* What the polls do.                                                      *)
LEMMA PanelHolds ==
    ASSUME IInv, NEW p \in Panels,
           Answer(p) \/ \E a \in Attempts : Poll(p, a)
    PROVE  IInv'
<1> USE LoginBoundsAssumption DEF IInv, LoginTypeOK, Sound, NoNewerCode, Attempts, Codes,
                                  NoCode, attemptVars
<1>1. ASSUME NEW a \in Attempts, Poll(p, a) PROVE IInv'
  <2>1. CASE status[a] = "pending" /\ a \notin due
    <3> DEFINE call == [pc |-> "exchange", of |-> a, code |-> code[a]]
    <3>1. panel' = [panel EXCEPT ![p] = call] /\ UNCHANGED <<status, sessions, handed, code,
                                                             exchanged>>
          /\ UNCHANGED <<last, due, authorised, lost, strays, queue, dispatcher, badExchanges>>
      BY <1>1, <2>1 DEF Poll
    <3>2. /\ call \in [pc : {"idle", "exchange", "finish", "fail", "forget"}, of : Codes,
                             code : Codes]
          /\ call.pc = "exchange" /\ call.of \in 1..last /\ call.code \in authorised \union {NoCode}
      BY <1>1, <2>1 DEF Poll
    <3> HIDE DEF call
    <3> QED  BY <3>1, <3>2
  <2>2. CASE ~(status[a] = "pending" /\ a \notin due)
    <3>1. /\ sessions' = sessions \ {a} /\ UNCHANGED <<panel, code, exchanged>>
          /\ status' = IF status[a] = "pending" THEN [status EXCEPT ![a] = "error"] ELSE status
          /\ handed' = IF status[a] = "success" THEN handed \union {a} ELSE handed
      BY <1>1, <2>2 DEF Poll
    <3>2. UNCHANGED <<last, due, authorised, lost, strays, queue, dispatcher, badExchanges>>
      BY <1>1 DEF Poll
    <3>3. /\ \A b \in Attempts : status'[b] = "pending" => status[b] = "pending" /\ b # a
          /\ \A b \in Attempts : status'[b] = status[b] \/ status'[b] = "error"
      BY <3>1
    <3>4. LoginTypeOK'
      BY <3>1, <3>2
    <3> QED  BY SMTT(30), <3>1, <3>2, <3>3, <3>4
  <2> QED  BY <2>1, <2>2
<1>2. CASE Exchange(p)
  <2>1. CASE UNCHANGED exchanged /\ panel' = [panel EXCEPT ![p].pc = "fail"]
    <3>1. /\ UNCHANGED <<last, status, code, sessions, handed, queue, dispatcher>>
          /\ UNCHANGED <<due, authorised, lost, strays>> /\ badExchanges' \in Nat
      BY <1>2, <2>1 DEF Exchange
    <3>2. panel[p].pc = "exchange"
      BY <1>2 DEF Exchange
    <3>3. \A q \in Panels : /\ panel'[q].of = panel[q].of /\ panel'[q].code = panel[q].code
                            /\ panel'[q].pc = IF q = p THEN "fail" ELSE panel[q].pc
      BY <2>1
    <3>4. LoginTypeOK'
      <4>1. panel' \in [Panels -> [pc : {"idle", "exchange", "finish", "fail", "forget"},
                                   of : Codes, code : Codes]]
        BY <2>1, FailIsTyped
      <4> QED  BY <2>1, <3>1, <4>1
    <3>5. \A q \in Panels : Sound(q)'
      BY <2>1, <3>1, <3>2, <3>3
    <3> QED  BY <2>1, <3>1, <3>4, <3>5
  <2>2. CASE /\ panel[p].code = panel[p].of
             /\ exchanged' = exchanged \union {panel[p].code}
             /\ panel' = [panel EXCEPT ![p].pc = "finish"]
    <3>2. panel[p].pc = "exchange" /\ panel[p].code \in authorised
      BY <1>2, <2>2 DEF Exchange
    <3>3. /\ UNCHANGED <<last, status, code, sessions, handed, queue, dispatcher>>
          /\ UNCHANGED <<due, authorised, lost, strays, badExchanges>>
      BY <1>2, <2>2 DEF Exchange
    <3> QED  BY SMTT(30), <2>2, <3>2, <3>3
  <2> QED  BY <1>2, <2>1, <2>2 DEF Exchange
<1>3. CASE FailAttempt(p)
  <2>1. status' = [status EXCEPT ![panel[p].of] = "error"] /\ panel' = [panel EXCEPT ![p] = Looking]
    BY <1>3 DEF FailAttempt, Settle
  <2>2. UNCHANGED <<code, sessions, exchanged, handed, last, due, authorised, lost, strays, queue,
                    dispatcher, badExchanges>>
    BY <1>3 DEF FailAttempt
  <2>3. panel' \in [Panels -> [pc : {"idle", "exchange", "finish", "fail", "forget"},
                               of : Codes, code : Codes]]
    BY <2>1 DEF Looking
  <2>4. \A q \in Panels : panel'[q] = IF q = p THEN Looking ELSE panel[q]
    BY <2>1
  <2>5. \A a \in Attempts : /\ status'[a] \in {status[a], "error"}
                            /\ status'[a] = "unborn" <=> status[a] = "unborn"
    BY <1>3, <2>1 DEF FailAttempt
  <2>6. Looking.pc = "idle" /\ Looking.code = NoCode
    BY DEF Looking
  <2>7. \A q \in Panels : Sound(q)'
    BY SMTT(30), <2>2, <2>4, <2>5, <2>6
  <2>8. status' \in [Attempts -> {"unborn", "pending", "success", "error"}]
    BY <2>1, StatusIsTyped
  <2>9. \A a \in Attempts : a > last <=> status'[a] = "unborn"
    BY <2>5
  <2> HIDE DEF Looking
  <2>10. LoginTypeOK'
    BY <2>2, <2>3, <2>8, <2>9
  <2> QED  BY <2>2, <2>5, <2>7, <2>10
<1>4. CASE FinishAttempt(p)
  <2>1. /\ panel[p].pc = "finish" /\ panel[p].of \in 1..last /\ panel[p].of \in exchanged
        /\ status' = [status EXCEPT ![panel[p].of] = "success"]
        /\ panel' = [panel EXCEPT ![p].pc = "forget"]
    BY <1>4 DEF FinishAttempt, Settle
  <2>2. UNCHANGED <<last, due, authorised, lost, strays, code, sessions, exchanged, queue, handed,
                    dispatcher, badExchanges>>
    BY <1>4 DEF FinishAttempt
  <2>3. \A a \in Attempts : /\ status'[a] = status[a] \/ (a = panel[p].of /\ status'[a] = "success")
                            /\ status'[a] = "unborn" <=> status[a] = "unborn"
    BY <2>1
  <2>4. /\ panel' \in [Panels -> [pc : {"idle", "exchange", "finish", "fail", "forget"},
                                  of : Codes, code : Codes]]
        /\ panel'[p].pc = "forget" /\ panel'[p].of = panel[p].of /\ panel'[p].code = panel[p].code
        /\ \A q \in Panels \ {p} : panel'[q] = panel[q]
    BY <2>1
  <2>5. status' \in [Attempts -> {"unborn", "pending", "success", "error"}]
    BY <2>1, StatusIsTyped
  <2>6. \A a \in Attempts : a > last <=> status'[a] = "unborn"
    BY <2>3
  <2>7. LoginTypeOK'
    BY <2>2, <2>4, <2>5, <2>6
  <2>8. \A q \in Panels : Sound(q)'
    <3>1. Sound(p)'
      BY <2>1, <2>2, <2>4
    <3>2. \A q \in Panels \ {p} : Sound(q)'
      BY <2>2, <2>3, <2>4
    <3> QED  BY <3>1, <3>2
  <2> QED  BY <2>1, <2>2, <2>3, <2>7, <2>8
<1>5. CASE Forget(p)
  <2>1. /\ panel[p].of \in exchanged /\ handed' \subseteq exchanged /\ sessions' \subseteq 1..last
        /\ status[panel[p].of] # "pending" /\ sessions' = sessions \ {panel[p].of}
    BY <1>5 DEF Forget
  <2>2. panel' = [panel EXCEPT ![p] = Looking] /\ UNCHANGED <<status, code, exchanged>>
    BY <1>5 DEF Forget
  <2>3. UNCHANGED <<last, due, authorised, lost, strays, queue, dispatcher, badExchanges>>
    BY <1>5 DEF Forget
  <2> DEFINE call == Looking
  <2>4. /\ call \in [pc : {"idle", "exchange", "finish", "fail", "forget"}, of : Codes,
                           code : Codes]
        /\ call.pc = "idle" /\ call.code = NoCode
    BY DEF Looking
  <2> HIDE DEF call
  <2>5. /\ panel' \in [Panels -> [pc : {"idle", "exchange", "finish", "fail", "forget"},
                                  of : Codes, code : Codes]]
        /\ \A q \in Panels : panel'[q] = IF q = p THEN call ELSE panel[q]
    BY <2>2, <2>4 DEF call
  <2>6. \A q \in Panels : Sound(q)'
    BY <2>2, <2>3, <2>4, <2>5
  <2>7. LoginTypeOK'
    BY <2>1, <2>2, <2>3, <2>5
  <2> QED  BY <2>1, <2>2, <2>3, <2>6, <2>7
<1> QED  BY <1>1, <1>2, <1>3, <1>4, <1>5 DEF Answer

LEMMA StepHolds == ASSUME IInv, [LoginNext]_loginVars PROVE IInv'
<1>1. CASE UNCHANGED loginVars
  BY <1>1 DEF loginVars, IInv, LoginTypeOK, Sound, NoNewerCode
<1>2. CASE LoginNext
  BY <1>2, CallbackHolds, StartHolds, PanelHolds DEF LoginNext
<1> QED  BY <1>1, <1>2

LEMMA Invariance == LoginSpec => []IInv
  BY InitHolds, StepHolds, PTL DEF LoginSpec

(* A panel is handed only what the vendor granted for an attempt that was  *)
(* authorised, and the buffer never holds more than it may.                *)
THEOREM HandedWasGranted == LoginSpec => []LoginTypeOK
<1>1. IInv => LoginTypeOK
  BY DEF IInv
<1> QED  BY <1>1, Invariance, PTL

(* On a pinned port no attempt captures the code of a newer one: deliver   *)
(* offers it to every session, and the older ones have been settled.       *)
THEOREM NoCodeForTheReplaced == ASSUME Pinned PROVE LoginSpec => []NoNewerCode
<1>1. IInv => NoNewerCode
  BY DEF IInv
<1> QED  BY <1>1, Invariance, PTL

(* On a pinned port the panels never see two pending sign-ins.             *)
THEOREM OneCurrentSignIn == ASSUME Pinned PROVE LoginSpec => []OnePending
<1>1. IInv => OnePending
  BY LoginBoundsAssumption, SMTT(30) DEF IInv, LoginTypeOK, OnePending, Attempts
<1> QED  BY <1>1, Invariance, PTL
==============================================================================
