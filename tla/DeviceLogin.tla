---------------------------- MODULE DeviceLogin ----------------------------
(***************************************************************************)
(* Sign-ins that the vendor finishes on its own side: the user approves in *)
(* a browser, and every auth.login.poll asks the vendor at most once. Six  *)
(* plugins keep their sign-ins in a registry of sessions; the flow says    *)
(* whose it is. Looked at is one session, polled by the host's manager and *)
(* by the plugin's page, while other sign-ins start.                       *)
(***************************************************************************)
EXTENDS Naturals, FiniteSets

CONSTANTS
    Flows,      \* the plugins looked at
    Watchings,  \* sets of panels that poll the session
    Pages,      \* the panels that are the plugin's page
    Budget      \* PollMaxFailures

ASSUME FlowsAssumption ==
    Flows \subseteq {"minimax", "zcode", "cline", "qoder", "codebuddy", "atomcode"}
ASSUME WatchingsAssumption == \A panels \in Watchings : IsFiniteSet(panels)
ASSUME BudgetAssumption == Budget \in Nat \ {0}

Paced == {"minimax", "zcode", "cline", "qoder"}     \* these keep the vendor's interval
TwoCalls == {"cline", "codebuddy", "atomcode"}      \* an exchange follows the poll
FinishesLater == {"zcode", "cline", "qoder"}        \* setCredential, then finish
FailsQuietly == {"codebuddy", "atomcode"}           \* fail leaves the session registered

Replies == {"yes", "waiting", "busy", "refused", "lost"}

VARIABLES
    flow, watchers,
    registered, done, verdict,  \* the session
    cached,     \* Token: what the first call has brought
    lostCount,  \* its count of lost replies
    overdue,    \* has it outlived its TTL?
    rested,     \* has the interval elapsed since the last attempt?
    poller,     \* what each watcher is at, and what it was told in the end
    user,       \* what the user has done in the browser
    used,       \* has the vendor granted the device code?
    asks,       \* polls of the vendor since the interval last elapsed
    streak,     \* replies lost one after the other, of a lone panel
    abandoned,  \* has that one given up on a lost reply?
    spoilt,     \* did the vendor fail a code it had granted?
    cut         \* did another sign-in or a shutdown drop the session?

sessionVars == <<registered, done, verdict, cached, lostCount>>
worldVars == <<flow, watchers, overdue, user, cut>>
historyVars == <<used, asks, streak, abandoned, spoilt>>
deviceVars == <<worldVars, sessionVars, historyVars, rested, poller>>

Pollers == UNION Watchings

DeviceInit ==
    /\ flow \in Flows /\ watchers \in Watchings
    /\ registered = TRUE /\ done = FALSE /\ verdict = "pending"
    /\ cached = FALSE /\ lostCount = 0
    /\ overdue = FALSE /\ rested = TRUE
    /\ poller = [p \in Pollers |-> [pc |-> "idle", told |-> ""]]
    /\ user = "away" /\ used = FALSE /\ asks = 0 /\ streak = 0
    /\ abandoned = FALSE /\ spoilt = FALSE /\ cut = FALSE

Alone == Cardinality(watchers) = 1

PollerAt(p, pc) == p \in watchers /\ poller[p].pc = pc
PollerGoes(p, pc) == poller' = [poller EXCEPT ![p].pc = pc]
Tells(p, word) == poller' = [poller EXCEPT ![p] = [pc |-> "ended", told |-> word]]

----------------------------------------------------------------------------
(* The user, the clock, other sign-ins of the plugin and its shutdown.     *)

Decide ==
    /\ user = "away"
    /\ user' \in {"approved", "declined"}
    /\ UNCHANGED <<flow, watchers, overdue, cut, sessionVars, historyVars, rested, poller>>

Outlive ==
    /\ ~overdue /\ overdue' = TRUE
    /\ UNCHANGED <<flow, watchers, user, cut, sessionVars, historyVars, rested, poller>>

Elapse ==
    /\ ~rested /\ rested' = TRUE /\ asks' = 0
    /\ UNCHANGED <<worldVars, sessionVars, used, streak, abandoned, spoilt, poller>>

(* startLoginSession purges what is overdue, some failing it, finished or  *)
(* not; atomcode's supersedes what is left and spares a finished verdict.  *)
StartAnother ==
    /\ registered /\ (overdue \/ flow = "atomcode")
    /\ registered' = FALSE /\ cut' = TRUE
    /\ IF flow \notin FailsQuietly \/ (flow = "atomcode" /\ ~overdue /\ ~done)
       THEN done' = TRUE /\ verdict' = "error"
       ELSE UNCHANGED <<done, verdict>>
    /\ UNCHANGED <<flow, watchers, overdue, user, cached, lostCount, historyVars, rested, poller>>

Shutdown ==
    /\ registered /\ registered' = FALSE /\ cut' = TRUE
    /\ UNCHANGED <<flow, watchers, overdue, user, done, verdict, cached, lostCount, historyVars,
                   rested, poller>>

----------------------------------------------------------------------------
(* A poll: lookupLoginSession, under the registry's lock.                  *)

(* Slip: a session is never found overdue.                                 *)
ExpiredNever == FALSE
Expired == overdue /\ ~done

FindNothing(p) ==
    /\ PollerAt(p, "idle")
    /\ ~registered \/ Expired
    /\ registered' = FALSE
    /\ IF registered THEN done' = TRUE /\ verdict' = "error" ELSE UNCHANGED <<done, verdict>>
    /\ Tells(p, "error")
    /\ UNCHANGED <<worldVars, cached, lostCount, historyVars, rested>>

Find(p) ==
    /\ PollerAt(p, "idle")
    /\ registered /\ ~Expired
    /\ PollerGoes(p, "found")
    /\ UNCHANGED <<worldVars, sessionVars, historyVars, rested>>

(* A finished session is answered from memory and forgotten, though not by *)
(* cline.                                                                  *)
Recall(p) ==
    /\ PollerAt(p, "found") /\ done
    /\ registered' = IF flow = "cline" THEN registered ELSE FALSE
    /\ Tells(p, verdict)
    /\ UNCHANGED <<worldVars, done, verdict, cached, lostCount, historyVars, rested>>

(* cline looks at the time once more.                                      *)
ExpireNow(p) ==
    /\ PollerAt(p, "found") /\ ~done /\ flow = "cline" /\ overdue
    /\ PollerGoes(p, "end")
    /\ UNCHANGED <<worldVars, sessionVars, historyVars, rested>>

(* due: too early a poll is answered without asking the vendor.            *)
(* Slip: every poll is due.                                                *)
DueAlways == TRUE
Due == flow \in Paced => rested

Proceed(p) ==
    /\ PollerAt(p, "found") /\ ~done /\ ~(flow = "cline" /\ overdue)
    /\ PollerGoes(p, IF ~Due THEN "idle"
               ELSE IF flow \in Paced THEN "due"
               ELSE IF cached THEN "second" ELSE "ask")
    /\ UNCHANGED <<worldVars, sessionVars, historyVars, rested>>

(* markAttempt, a lock section of its own.                                 *)
Mark(p) ==
    /\ PollerAt(p, "due")
    /\ rested' = FALSE /\ asks' = asks + 1
    /\ PollerGoes(p, "ask")
    /\ UNCHANGED <<worldVars, sessionVars, used, streak, abandoned, spoilt>>

----------------------------------------------------------------------------
(* What the plugins make of a reply; slow_down, which lengthens the         *)
(* interval, reads as waiting.                                              *)

Patient == [yes |-> "keep", waiting |-> "wait", busy |-> "wait", refused |-> "end",
            lost |-> "wait"]
Counting == [Patient EXCEPT !.busy = "end", !.lost = "count"]

(* Slip: zcode takes a lost reply for the end.                             *)
FirstCallHasty == [minimax |-> Counting, zcode |-> [Patient EXCEPT !.lost = "end"],
                   cline |-> [Counting EXCEPT !.yes = "second"], qoder |-> Counting,
                   codebuddy |-> [Patient EXCEPT !.yes = "cache", !.busy = "end"],
                   atomcode |-> [Patient EXCEPT !.yes = "second", !.refused = "wait"]]

FirstCall == [minimax |-> Counting, zcode |-> Patient,
              cline |-> [Counting EXCEPT !.yes = "second"], qoder |-> Counting,
              codebuddy |-> [Patient EXCEPT !.yes = "cache", !.busy = "end"],
              atomcode |-> [Patient EXCEPT !.yes = "second", !.refused = "wait"]]

SecondCall == [f \in TwoCalls |->
    IF f = "codebuddy" THEN [Patient EXCEPT !.busy = "end"]
    ELSE [r \in Replies |-> IF r = "yes" THEN "keep" ELSE "end"]]

(* minimax's page fails the session where the poll would count.            *)
Judged(p, reply) ==
    IF flow = "minimax" /\ p \in Pages /\ reply = "lost" THEN "end" ELSE FirstCall[flow][reply]

(* The vendor grants a code once and may repeat itself; any reply can be    *)
(* lost and any request fail.                                              *)
Granting(reply) ==
    \/ reply \in {"lost", "busy"} /\ UNCHANGED <<used, spoilt>>
    \/ user = "away" /\ reply = "waiting" /\ UNCHANGED <<used, spoilt>>
    \/ user = "declined" /\ reply = "refused" /\ UNCHANGED <<used, spoilt>>
    \/ /\ user = "approved" /\ ~used
       /\ reply \in {"yes", "lost"} /\ used' = TRUE /\ spoilt' = (spoilt \/ reply = "lost")
    \/ user = "approved" /\ used /\ reply \in {"yes", "refused"} /\ UNCHANGED <<used, spoilt>>

(* atomcode's first call only looks.                                       *)
JustLooking(reply) ==
    /\ \/ reply \in {"lost", "busy"}
       \/ user = "approved" /\ reply = "yes"
       \/ user = "away" /\ reply = "waiting"
       \/ user = "declined" /\ reply = "refused"
    /\ UNCHANGED <<used, spoilt>>

AskVendor(p) ==
    /\ PollerAt(p, "ask")
    /\ \E reply \in Replies :
          /\ IF flow = "atomcode" THEN JustLooking(reply) ELSE Granting(reply)
          /\ PollerGoes(p, Judged(p, reply))
          /\ streak' = IF ~(reply = "lost" /\ Alone) THEN 0
                       ELSE IF streak < Budget THEN streak + 1 ELSE streak
          /\ abandoned' = (abandoned \/ (Alone /\ reply = "lost" /\ Judged(p, reply) = "end"))
    /\ UNCHANGED <<worldVars, sessionVars, rested, asks>>

(* exchangeWorkOSTokens, pollAccountOnce, brokerExchange.                  *)
AskSecond(p) ==
    /\ PollerAt(p, "second")
    /\ \E reply \in Replies :
          LET fails == SecondCall[flow][reply] = "end"
          IN  /\ IF flow = "atomcode"
                 THEN /\ ~(used /\ reply = "waiting")
                      /\ used' = (used \/ reply = "yes")
                 ELSE UNCHANGED used
              /\ spoilt' = (spoilt \/ fails)
              /\ PollerGoes(p, SecondCall[flow][reply])
    /\ UNCHANGED <<worldVars, sessionVars, rested, asks, streak, abandoned>>

----------------------------------------------------------------------------
(* What comes of it, one lock section after the other.                     *)

(* Still pending; a real reply clears the count.                           *)
Wait(p) ==
    /\ PollerAt(p, "wait")
    /\ lostCount' = 0
    /\ PollerGoes(p, "idle")
    /\ UNCHANGED <<worldVars, registered, done, verdict, cached, historyVars, rested>>

Spent(count) == count >= Budget

Count(p) ==
    /\ PollerAt(p, "count")
    /\ lostCount' = lostCount + 1
    /\ PollerGoes(p, IF Spent(lostCount + 1) THEN "end" ELSE "idle")
    /\ abandoned' = (abandoned \/ (Alone /\ Spent(lostCount + 1)))
    /\ UNCHANGED <<worldVars, registered, done, verdict, cached, used, asks, streak, spoilt,
                   rested>>

(* storeToken: codebuddy keeps the token for the polls to come.            *)
Cache(p) ==
    /\ PollerAt(p, "cache")
    /\ cached' = TRUE
    /\ PollerGoes(p, "second")
    /\ UNCHANGED <<worldVars, registered, done, verdict, lostCount, historyVars, rested>>

FailSession(p) ==
    /\ PollerAt(p, "end")
    /\ done' = TRUE /\ verdict' = "error"
    /\ IF flow \in FailsQuietly THEN Tells(p, "error") ELSE PollerGoes(p, "forget failed")
    /\ UNCHANGED <<worldVars, registered, cached, lostCount, historyVars, rested>>

Keep(p) ==
    /\ PollerAt(p, "keep")
    /\ verdict' = "success" /\ lostCount' = 0
    /\ done' = (done \/ flow \notin FinishesLater)
    /\ PollerGoes(p, IF flow \in FinishesLater THEN "finish" ELSE "forget")
    /\ UNCHANGED <<worldVars, registered, cached, historyVars, rested>>

FinishSession(p) ==
    /\ PollerAt(p, "finish")
    /\ done' = TRUE
    /\ PollerGoes(p, "forget")
    /\ UNCHANGED <<worldVars, registered, verdict, cached, lostCount, historyVars, rested>>

(* The poll answers with what it has in its hands.                         *)
(* Slip: with what the session says by then.                               *)
HandOverCurrent(p) ==
    /\ PollerAt(p, "forget")
    /\ registered' = FALSE
    /\ Tells(p, verdict)
    /\ UNCHANGED <<worldVars, done, verdict, cached, lostCount, historyVars, rested>>

HandOver(p) ==
    /\ PollerAt(p, "forget")
    /\ registered' = FALSE
    /\ Tells(p, "success")
    /\ UNCHANGED <<worldVars, done, verdict, cached, lostCount, historyVars, rested>>

ForgetFailed(p) ==
    /\ PollerAt(p, "forget failed")
    /\ registered' = FALSE
    /\ Tells(p, "error")
    /\ UNCHANGED <<worldVars, done, verdict, cached, lostCount, historyVars, rested>>

----------------------------------------------------------------------------

PollOn(p) ==
    \/ FindNothing(p) \/ Find(p) \/ Recall(p) \/ ExpireNow(p) \/ Proceed(p) \/ Mark(p)
    \/ AskVendor(p) \/ AskSecond(p) \/ Wait(p) \/ Count(p) \/ Cache(p) \/ FailSession(p) \/ Keep(p)
    \/ FinishSession(p) \/ HandOver(p) \/ ForgetFailed(p)

DeviceNext ==
    \/ Decide \/ Outlive \/ Elapse \/ StartAnother \/ Shutdown
    \/ \E p \in Pollers : PollOn(p)

DeviceSpec == DeviceInit /\ [][DeviceNext]_deviceVars

(* Time passes, and a panel polls until it is told how the sign-in ended.   *)
FairDeviceSpec ==
    DeviceSpec /\ WF_deviceVars(Outlive) /\ \A p \in Pollers : WF_deviceVars(PollOn(p))

----------------------------------------------------------------------------
DeviceTypeOK ==
    /\ flow \in Flows /\ watchers \in Watchings
    /\ {registered, done, cached, overdue, rested, used, abandoned, spoilt, cut} \subseteq BOOLEAN
    /\ verdict \in {"pending", "success", "error"}
    /\ lostCount \in 0..Budget + Cardinality(watchers) - 1 /\ streak \in 0..Budget
    /\ \A p \in Pollers :
          /\ poller[p].pc \in {"idle", "found", "due", "ask", "second", "wait", "count", "cache",
                              "end", "keep", "finish", "forget", "forget failed", "ended"}
          /\ poller[p].told \in {"", "success", "error"}
          /\ poller[p].told = "" <=> poller[p].pc # "ended"
    /\ user \in {"away", "approved", "declined"} /\ asks \in Nat

(* "A fast poller gets pending back without costing an upstream call":     *)
(* within an interval each panel may cost one, since due and markAttempt   *)
(* are two lock sections, and no more.                                     *)
AsksAreFew == asks <= Cardinality(watchers) \/ flow \notin Paced

(* "A flaky network does not abandon a user who is still authorising": a   *)
(* poll gives up after Budget lost replies in a row (of a lone panel; two  *)
(* mix their counts). minimax's page does not wait for them.               *)
FlakyIsForgiven ==
    abandoned /\ (flow = "minimax" => watchers \cap Pages = {}) => streak >= Budget

(* The vendor is asked no more than it said, and outages are sat out.      *)
PollsAreMeasured == AsksAreFew /\ FlakyIsForgiven

PagesForgive == abandoned => streak >= Budget

(* poll_max_failures, "the limit of network failures in a row of a login's *)
(* poll": where a plugin has that setting, so many end the sign-in.        *)
LossesEndIt ==
    Alone /\ flow \in Paced /\ streak >= Budget
        => \A p \in watchers : poller[p].pc \in {"count", "end", "forget failed", "ended"}

(* The grant of a device code is not squandered: a lone panel is not told  *)
(* of an error once the vendor has granted, unless the vendor fails the     *)
(* code later or the session ends early.                                   *)
GrantIsNotAnError ==
    Alone /\ used /\ ~spoilt /\ ~overdue /\ ~cut
        => \A p \in watchers : poller[p].told # "error"

(* Two panels may hear different things of one sign-in, but what the vendor *)
(* has granted is handed to one of them, even if the session is superseded, *)
(* overdue or failed by the other meanwhile. Not so codebuddy's token,      *)
(* which waits in the session and goes when another panel's poll is refused.*)
GrantReachesSomebody ==
    flow # "codebuddy" /\ used /\ ~spoilt /\ (\A p \in watchers : poller[p].pc = "ended")
        => \E p \in watchers : poller[p].told = "success"

GrantsAreHanded == GrantIsNotAnError /\ GrantReachesSomebody

(* Whoever polls a sign-in is told how it ended.                           *)
WatchersAreTold == <>(\A p \in watchers : poller[p].pc = "ended")
=============================================================================
