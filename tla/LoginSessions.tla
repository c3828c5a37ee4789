--------------------------- MODULE LoginSessions ---------------------------
(***************************************************************************)
(* Browser sign-ins of a plugin with one loopback listener (codearts; trae *)
(* and lobsterai share the design): the listener queues the callbacks, a   *)
(* dispatcher offers each one to every session, and panels poll a session  *)
(* until its code has been exchanged.  Attempts are numbered as they start.*)
(***************************************************************************)
EXTENDS Naturals, Sequences, FiniteSets

CONSTANTS
    MaxAttempts,    \* bound: sign-ins ever started
    Panels,         \* who polls: the host's manager, the plugin's page
    Pinned,         \* is callback_port set?
    Buffer,         \* resultBuffer: callbacks the listener retains
    MaxStray,       \* bound: requests for the callback path without a code
    MaxBadExchanges     \* bound: exchanges that fail on the way

ASSUME LoginBoundsAssumption == {MaxAttempts, Buffer, MaxStray, MaxBadExchanges} \subseteq Nat
ASSUME PinnedAssumption == Pinned \in BOOLEAN

Attempts == 1..MaxAttempts
NoCode == 0                         \* what a stray request brings, too
Codes == Attempts \union {NoCode}   \* a code is named after its attempt

VARIABLES
    last,       \* the attempt started last
    status,     \* status of each session
    code,       \* the code captured for it
    due,        \* sessions that have outlived loginTTL
    sessions,   \* loginSessions, the registry
    authorised, \* attempts whose user has finished in the browser
    exchanged,  \* codes the vendor has exchanged
    queue,      \* callbacks in the listener's buffer
    lost,       \* codes that found the buffer full
    dispatcher, \* the callback it is at, and the sessions it is yet to offer it
    panel,      \* what each panel is at
    handed,     \* attempts whose credential a poll has answered with
    strays, badExchanges

attemptVars == <<last, due, authorised, lost, strays>>
loginVars == <<last, status, code, due, sessions, authorised, exchanged, queue, lost, dispatcher,
          panel, handed, strays, badExchanges>>

Resting == [pc |-> "wait", code |-> NoCode, todo |-> {}]
Looking == [pc |-> "idle", of |-> NoCode, code |-> NoCode]

LoginInit ==
    /\ last = 0
    /\ status = [a \in Attempts |-> "unborn"]
    /\ code = [a \in Attempts |-> NoCode]
    /\ due = {} /\ sessions = {} /\ authorised = {} /\ exchanged = {} /\ handed = {}
    /\ queue = <<>> /\ lost = {}
    /\ dispatcher = Resting
    /\ panel = [p \in Panels |-> Looking]
    /\ strays = 0 /\ badExchanges = 0

----------------------------------------------------------------------------
(* startLoginSession: what has expired is purged and, on a pinned port,    *)
(* every other session is superseded, in one step with the registration.   *)

(* Slip: a new sign-in leaves the earlier ones alone.                      *)
SupersededNone == {}

Superseded == IF Pinned THEN sessions ELSE {}

StartAttempt ==
    /\ last < MaxAttempts
    /\ last' = last + 1
    /\ LET gone == Superseded \union (sessions \intersect due)
       IN  /\ status' = [a \in Attempts |-> IF a = last + 1 THEN "pending"
                                            ELSE IF a \in gone THEN "error" ELSE status[a]]
           /\ sessions' = (sessions \ gone) \union {last + 1}
    /\ UNCHANGED <<code, due, authorised, exchanged, queue, lost, dispatcher, panel, handed,
                   strays, badExchanges>>

ExpireAttempt(a) ==
    /\ a \in sessions \ due
    /\ due' = due \union {a}
    /\ UNCHANGED <<last, status, code, sessions, authorised, exchanged, queue, lost, dispatcher,
                   panel, handed, strays, badExchanges>>

----------------------------------------------------------------------------
(* The browser comes back and the listener captures the query; with the    *)
(* buffer full it is dropped.                                              *)

(* Slip: a full buffer takes one more.                                     *)
CaptureAlways(result) ==
    /\ queue' = Append(queue, result)
    /\ UNCHANGED lost

Capture(result) ==
    \/ /\ Len(queue) < Buffer
       /\ queue' = Append(queue, result)
       /\ UNCHANGED lost
    \/ /\ Len(queue) >= Buffer
       /\ lost' = lost \union {result}
       /\ UNCHANGED queue

Authorise(a) ==
    /\ a \in 1..last \ authorised
    /\ authorised' = authorised \union {a}
    /\ Capture(a)
    /\ UNCHANGED <<last, status, code, due, sessions, exchanged, dispatcher, panel, handed, strays,
                   badExchanges>>

Stray ==
    /\ strays < MaxStray
    /\ strays' = strays + 1
    /\ Capture(NoCode)
    /\ UNCHANGED <<last, status, code, due, sessions, authorised, exchanged, dispatcher, panel,
                   handed, badExchanges>>

----------------------------------------------------------------------------
(* dispatchCallbacks: Wait, a snapshot of the registry under loginMu, then *)
(* deliver outside of it.                                                  *)

Take ==
    /\ dispatcher.pc = "wait"
    /\ queue # <<>>
    /\ dispatcher' = [Resting EXCEPT !.pc = "snapshot", !.code = Head(queue)]
    /\ queue' = Tail(queue)
    /\ UNCHANGED <<attemptVars, status, code, sessions, exchanged, panel, handed, badExchanges>>

Snapshot ==
    /\ dispatcher.pc = "snapshot"
    /\ dispatcher' = [dispatcher EXCEPT !.pc = "offer", !.todo = sessions]
    /\ UNCHANGED <<attemptVars, status, code, sessions, exchanged, queue, panel, handed,
                   badExchanges>>

(* Slip: an unusable callback replaces what was captured.                  *)
KeptNever(a) == status[a] # "pending"

Kept(a) == status[a] # "pending" \/ dispatcher.code = NoCode

Deliver(a) ==
    /\ dispatcher.pc = "offer"
    /\ a \in dispatcher.todo
    /\ code' = IF Kept(a) THEN code ELSE [code EXCEPT ![a] = dispatcher.code]
    /\ dispatcher' = [dispatcher EXCEPT !.todo = @ \ {a}]
    /\ UNCHANGED <<attemptVars, status, sessions, exchanged, queue, panel, handed, badExchanges>>

Offered ==
    /\ dispatcher.pc = "offer"
    /\ dispatcher.todo = {}
    /\ dispatcher' = Resting
    /\ UNCHANGED <<attemptVars, status, code, sessions, exchanged, queue, panel, handed,
                   badExchanges>>

----------------------------------------------------------------------------
(* handleAuthLoginPoll. A session that is gone, expired or finished is     *)
(* answered at once and forgotten; a captured code is exchanged.           *)

Poll(p, a) ==
    /\ panel[p].pc = "idle"
    /\ a \in sessions
    /\ IF status[a] = "pending" /\ a \notin due
       THEN /\ code[a] # NoCode
            /\ panel' = [panel EXCEPT ![p] = [pc |-> "exchange", of |-> a, code |-> code[a]]]
            /\ UNCHANGED <<status, sessions, handed>>
       ELSE /\ sessions' = sessions \ {a}
            /\ status' = IF status[a] = "pending" THEN [status EXCEPT ![a] = "error"] ELSE status
            /\ handed' = IF status[a] = "success" THEN handed \union {a} ELSE handed
            /\ UNCHANGED panel
    /\ UNCHANGED <<attemptVars, code, exchanged, queue, dispatcher, badExchanges>>

(* lookupLoginSession reads finished without the session's lock: when it   *)
(* does so just before FinishAttempt, an overdue success is expired all the same. *)
ExpireLate(a) ==
    /\ a \in sessions \intersect due
    /\ \E p \in Panels : panel[p].pc = "forget" /\ panel[p].of = a
    /\ status' = [status EXCEPT ![a] = "error"]
    /\ sessions' = sessions \ {a}
    /\ UNCHANGED <<attemptVars, code, exchanged, queue, dispatcher, panel, handed, badExchanges>>

(* The vendor exchanges a code once, for the verifier it was issued to.    *)
Exchange(p) ==
    /\ panel[p].pc = "exchange"
    /\ \/ /\ panel[p].code = panel[p].of
          /\ panel[p].code \notin exchanged
          /\ exchanged' = exchanged \union {panel[p].code}
          /\ panel' = [panel EXCEPT ![p].pc = "finish"]
          /\ UNCHANGED badExchanges
       \/ /\ panel[p].code # panel[p].of \/ panel[p].code \in exchanged
          /\ panel' = [panel EXCEPT ![p].pc = "fail"]
          /\ UNCHANGED <<exchanged, badExchanges>>
       \/ /\ badExchanges < MaxBadExchanges
          /\ badExchanges' = badExchanges + 1
          /\ panel' = [panel EXCEPT ![p].pc = "fail"]
          /\ UNCHANGED exchanged
    /\ UNCHANGED <<attemptVars, status, code, sessions, queue, dispatcher, handed>>

Settle(p, verdict) == status' = [status EXCEPT ![panel[p].of] = verdict]

FailAttempt(p) ==
    /\ panel[p].pc = "fail"
    /\ Settle(p, "error")
    /\ panel' = [panel EXCEPT ![p] = Looking]
    /\ UNCHANGED <<attemptVars, code, sessions, exchanged, queue, dispatcher, handed, badExchanges>>

FinishAttempt(p) ==
    /\ panel[p].pc = "finish"
    /\ Settle(p, "success")
    /\ panel' = [panel EXCEPT ![p].pc = "forget"]
    /\ UNCHANGED <<attemptVars, code, sessions, exchanged, queue, dispatcher, handed, badExchanges>>

(* Slip: a session that was superseded meanwhile answers with an error.    *)
ForgetCurrent(p) ==
    /\ panel[p].pc = "forget"
    /\ sessions' = sessions \ {panel[p].of}
    /\ handed' = handed \union (sessions \intersect {panel[p].of})
    /\ panel' = [panel EXCEPT ![p] = Looking]
    /\ UNCHANGED <<attemptVars, status, code, exchanged, queue, dispatcher, badExchanges>>

Forget(p) ==
    /\ panel[p].pc = "forget"
    /\ sessions' = sessions \ {panel[p].of}
    /\ handed' = handed \union {panel[p].of}
    /\ panel' = [panel EXCEPT ![p] = Looking]
    /\ UNCHANGED <<attemptVars, status, code, exchanged, queue, dispatcher, badExchanges>>

----------------------------------------------------------------------------

Dispatch == Take \/ Snapshot \/ (\E a \in Attempts : Deliver(a)) \/ Offered
Answer(p) == Exchange(p) \/ FailAttempt(p) \/ FinishAttempt(p) \/ Forget(p)

LoginNext ==
    \/ StartAttempt \/ Stray \/ Dispatch
    \/ \E a \in Attempts :
          ExpireAttempt(a) \/ Authorise(a) \/ ExpireLate(a) \/ \E p \in Panels : Poll(p, a)
    \/ \E p \in Panels : Answer(p)

LoginSpec == LoginInit /\ [][LoginNext]_loginVars

(* The dispatcher and the calls in progress go on, and some panel polls    *)
(* every session again and again.                                          *)
FairLoginSpec ==
    /\ LoginSpec
    /\ WF_loginVars(Dispatch)
    /\ \A p \in Panels : WF_loginVars(Answer(p))
    /\ \A a \in Attempts : SF_loginVars(\E p \in Panels : Poll(p, a))

----------------------------------------------------------------------------
LoginTypeOK ==
    /\ last \in 0..MaxAttempts
    /\ status \in [Attempts -> {"unborn", "pending", "success", "error"}]
    /\ code \in [Attempts -> Codes]
    /\ sessions \subseteq 1..last /\ due \subseteq 1..last /\ authorised \subseteq 1..last
    /\ handed \subseteq exchanged /\ exchanged \subseteq authorised /\ lost \subseteq Codes
    /\ queue \in Seq(authorised \union {NoCode}) /\ Len(queue) <= Buffer
    /\ dispatcher.pc \in {"wait", "snapshot", "offer"}
    /\ dispatcher.code \in authorised \union {NoCode} /\ dispatcher.todo \subseteq 1..last
    /\ panel \in [Panels -> [pc : {"idle", "exchange", "finish", "fail", "forget"},
                             of : Codes, code : Codes]]
    /\ strays \in Nat /\ badExchanges \in Nat
    /\ \A a \in Attempts : a > last <=> status[a] = "unborn"

(* "the panel never sees two pending sign-ins" (on any port, says the      *)
(* README: one current session per plugin, a new request replaces it).     *)
OnePending == \A a, b \in sessions : status[a] = "pending" /\ status[b] = "pending" => a = b

(* A replaced attempt never answers with a code meant for a newer one.     *)
NoNewerCode == \A a \in Attempts : code[a] <= a

(* Whoever finished in the browser gets an answer: a panel never polls a   *)
(* sign-in that cannot complete, unless the full buffer lost its code; and *)
(* a credential the vendor has issued reaches a panel, although a new      *)
(* sign-in supersedes its session or another panel fails it meanwhile.     *)
SignInsSettle ==
    <>[](/\ \A a \in authorised \ lost : status[a] # "pending"
         /\ exchanged \subseteq handed)
=============================================================================
