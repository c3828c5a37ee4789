------------------------------ MODULE CheckIns ------------------------------
(***************************************************************************)
(* The check-in hub: a run asks a provider plugin's own route to claim the *)
(* daily reward of one account after the other, gives every request a      *)
(* deadline, and turns what the plugin answers into the rows of a table.   *)
(* A request past its deadline is abandoned and goes on all the same; two  *)
(* runs may overlap.  A plugin claims in one or several calls of its       *)
(* vendor, before which it may look whether there is anything to claim.    *)
(*                                                                         *)
(* Accounts the host disabled and accounts without a runtime index get a   *)
(* row at once; Accounts are the others.                                   *)
(***************************************************************************)
EXTENDS Naturals, FiniteSets

CONSTANTS
    Providers,  \* the providers looked at
    Runs,       \* check-ins started by operators or scripts
    Accounts    \* the accounts of the provider

Claimers == {"codearts", "codebuddy", "lobsterai", "loomy", "minimax", "qoder", "raccoon",
             "trae", "atomcode"}
ASSUME ProvidersAssumption == Providers \subseteq Claimers

(* What one account may claim: qoder's campaigns, atomcode's tiers.        *)
Rewards(p) == IF p \in {"qoder", "atomcode"} THEN {1, 2} ELSE {1}

Kinds == {"claimed", "already-claimed", "inactive", "unavailable", "failed", "unknown"}
Outcomes == {"claimed", "already-claimed", "inactive", "failed", "refused", "auth-required"}
Sightings == {"unread", "shut", "open", "taken"}
ClaimAnswers == {"granted", "again", "refused", "dead", "lost"}

----------------------------------------------------------------------------
(* What the plugins make of a look before the claim; "" goes on to claim.  *)

GoesOn == [s \in Sightings |-> ""]
LooksClosely == [GoesOn EXCEPT !["unread"] = "failed", !["shut"] = "inactive",
                               !["taken"] = "already-claimed"]

(* fetchRewardStatus: a bill that cannot be read is not a reward claimed.  *)
RaccoonLook == [GoesOn EXCEPT !["taken"] = "already-claimed"]
TraeLook == [LooksClosely EXCEPT !["unread"] = ""]
(* No campaign to claim reads as claimed: the answers cannot be told apart. *)
QoderLook == [LooksClosely EXCEPT !["shut"] = "already-claimed"]

LookVerdict == [codearts |-> LooksClosely, codebuddy |-> GoesOn, lobsterai |-> LooksClosely,
                loomy |-> GoesOn, minimax |-> GoesOn, qoder |-> QoderLook,
                raccoon |-> RaccoonLook, trae |-> TraeLook, atomcode |-> GoesOn]

(* What they make of the vendor's answer to a claim.                       *)
Told == [granted |-> "claimed", again |-> "already-claimed", refused |-> "failed",
         dead |-> "failed", lost |-> "failed"]

(* A repeated claim is answered like the first by these vendors.           *)
Untold == [Told EXCEPT !.again = "claimed"]

CodeBuddyTold == [Told EXCEPT !.refused = "inactive"]
AtomCodeTold == [Told EXCEPT !.refused = "refused", !.dead = "auth-required"]

(* Slip: the flag of a repeated grant is not looked at.                    *)
OutcomeOfUnflagged == [codearts |-> Untold, codebuddy |-> CodeBuddyTold, lobsterai |-> Untold,
                       loomy |-> Told, minimax |-> Told, qoder |-> Told, raccoon |-> Untold,
                       trae |-> Untold, atomcode |-> AtomCodeTold]

OutcomeOf == [codearts |-> Untold, codebuddy |-> CodeBuddyTold, lobsterai |-> Untold,
              loomy |-> Told, minimax |-> Told, qoder |-> Told, raccoon |-> Told,
              trae |-> Untold, atomcode |-> AtomCodeTold]

(* Several calls make one outcome: one success is a success.               *)
Together(got) ==
    CASE "claimed" \in got         -> "claimed"
      [] "failed" \in got          -> "failed"
      [] "auth-required" \in got   -> "auth-required"
      [] "inactive" \in got        -> "inactive"
      [] "already-claimed" \in got -> "already-claimed"
      [] OTHER                     -> "refused"

(* normalizeProviderStatus: the words the hub does not know are unknown.   *)
(* Slip: they are taken for a success.                                     *)
NormalizeHopeful(outcome) ==
    IF outcome \in Kinds THEN outcome ELSE "claimed"
Normalize(outcome) ==
    IF outcome \in Kinds THEN outcome ELSE "unknown"

(* noticeKind: the tone of the notice on codearts' page; "already claimed"  *)
(* has none.                                                               *)
NoticeKind(outcome) == IF outcome = "already-claimed" THEN "unknown" ELSE outcome

(* runStatusPageCheckin: the state read before and after decides, and the  *)
(* notice where it does not.                                               *)
StatusPageKind(before, notice, after) ==
    CASE after = "taken" /\ before = "unread" ->
            IF notice = "claimed" THEN "claimed" ELSE "already-claimed"
      [] after = "taken" /\ before # "unread" ->
            IF before = "taken" THEN "already-claimed" ELSE "claimed"
      [] after \in {"open", "shut"} ->
            IF notice \in {"claimed", "failed"} THEN notice ELSE "inactive"
      [] OTHER ->
            IF before = "taken" THEN "already-claimed" ELSE notice

----------------------------------------------------------------------------

VARIABLES
    provider,   \* whose accounts they are
    offered,    \* what the vendor lets claim, and
    taken,      \* what has been claimed: <<account, reward>>
    run,        \* is a run idle, running or ended?
    asking,     \* the account it is at
    call,       \* how far the plugin is with each request
    row         \* what the run says of each account

checkInVars == <<provider, offered, taken, run, asking, call, row>>
vendorVars == <<provider, offered, taken>>

NoAccount == "no account"
Unasked == [at |-> "unasked", todo |-> {}, got |-> {}, tries |-> 0, before |-> "unread"]

Everything == Accounts \X Rewards(provider)

CheckInInit ==
    /\ provider \in Providers
    /\ offered \in SUBSET (Accounts \X Rewards(provider))
    /\ taken \in SUBSET offered
    /\ run = [r \in Runs |-> "idle"]
    /\ asking = [r \in Runs |-> NoAccount]
    /\ call = [r \in Runs |-> [a \in Accounts |-> Unasked]]
    /\ row = [r \in Runs |-> [a \in Accounts |-> "none"]]

Open(a) == {w \in Rewards(provider) : <<a, w>> \in offered \ taken}
Holds(a) == \E w \in Rewards(provider) : <<a, w>> \in taken

Sight(a) ==
    CASE Open(a) # {}             -> "open"
      [] Open(a) = {} /\ Holds(a) -> "taken"
      [] OTHER                    -> "shut"

Advance(r, a, step) == call' = [call EXCEPT ![r][a] = step]

----------------------------------------------------------------------------
(* The run.  A provider whose status cannot be read gets one row and no    *)
(* request.                                                                *)

BeginRun(r) ==
    /\ run[r] = "idle"
    /\ \E status \in {"running", "ended"} : run' = [run EXCEPT ![r] = status]
    /\ UNCHANGED <<vendorVars, asking, call, row>>

AskFor(r, a) ==
    /\ run[r] = "running" /\ asking[r] = NoAccount
    /\ row[r][a] = "none"
    /\ asking' = [asking EXCEPT ![r] = a]
    /\ \E sight \in IF provider = "codearts" THEN {"unread", Sight(a)} ELSE {"unread"} :
          Advance(r, a, [Unasked EXCEPT !.at = "look", !.before = sight])
    /\ UNCHANGED <<vendorVars, run, row>>

(* boundedCall's deadline; the request goes on behind the run's back.      *)
(* Slip: the run waits for what it asked.                                  *)
GiveUpNever(r, a) == FALSE /\ UNCHANGED checkInVars

Says(r, a, kind) ==
    /\ row' = [row EXCEPT ![r][a] = kind]
    /\ asking' = [asking EXCEPT ![r] = NoAccount]
    /\ UNCHANGED <<vendorVars, run, call>>

GiveUp(r, a) ==
    /\ asking[r] = a
    /\ Says(r, a, "failed")

(* The answer in time. Codearts has none to read: the page's notice, and   *)
(* the state read once more, which may lag behind, make the row.           *)
Report(r, a) ==
    /\ asking[r] = a
    /\ call[r][a].at = "answered"
    /\ LET outcome == Together(call[r][a].got)
           lagging == IF Holds(a) THEN {"open"} ELSE {}
       IN  IF provider = "codearts"
           THEN \E after \in {"unread", Sight(a)} \union lagging :
                   Says(r, a, StatusPageKind(call[r][a].before, NoticeKind(outcome), after))
           ELSE Says(r, a, Normalize(outcome))

EndRun(r) ==
    /\ run[r] = "running"
    /\ \A a \in Accounts : row[r][a] # "none"
    /\ run' = [run EXCEPT ![r] = "ended"]
    /\ UNCHANGED <<vendorVars, asking, call, row>>

----------------------------------------------------------------------------
(* The plugin's side of a request, which never learns that the run gave up. *)

LookFirst(r, a) ==
    /\ call[r][a].at = "look"
    /\ \E sight \in {"unread", Sight(a)} :
          LET verdict == LookVerdict[provider][sight]
              todo == IF provider = "qoder" THEN Open(a) ELSE Rewards(provider)
          IN  Advance(r, a, IF verdict = ""
                            THEN [call[r][a] EXCEPT !.at = "claim", !.todo = todo]
                            ELSE [call[r][a] EXCEPT !.at = "answered", !.got = {verdict}])
    /\ UNCHANGED <<vendorVars, run, asking, row>>

(* One tier of atomcode's covers the lower ones.                           *)
Repeated(a, w) ==
    IF provider = "atomcode" THEN Holds(a) ELSE <<a, w>> \in taken

(* The vendor grants, repeats or refuses; any of it, or the request, may be *)
(* lost on the way, and the credential may be dead.                        *)
VendorAnswers(a, w, answer) ==
    \/ /\ <<a, w>> \in offered /\ ~Repeated(a, w)
       /\ answer \in {"granted", "lost"}
       /\ taken' = taken \union {<<a, w>>}
    \/ /\ Repeated(a, w)
       /\ answer \in {"again", "lost"}
       /\ UNCHANGED taken
    \/ /\ <<a, w>> \notin offered /\ ~Repeated(a, w)
       /\ answer \in {"refused", "lost"}
       /\ UNCHANGED taken
    \/ /\ answer \in {"dead", "lost"}
       /\ UNCHANGED taken

(* trae asks up to four times when no answer comes.                        *)
AsksAgain(a, answer, tries) == provider = "trae" /\ answer = "lost" /\ tries < 3

(* atomcode's cascade goes on after a refusal only, qoder's through all.   *)
Stops(outcome) == provider = "atomcode" /\ outcome # "refused"

Claim(r, a) ==
    /\ call[r][a].at = "claim"
    /\ \E w \in call[r][a].todo, answer \in ClaimAnswers :
          /\ \A v \in call[r][a].todo : w <= v
          /\ VendorAnswers(a, w, answer)
          /\ IF AsksAgain(a, answer, call[r][a].tries)
             THEN Advance(r, a, [call[r][a] EXCEPT !.tries = @ + 1])
             ELSE LET outcome == OutcomeOf[provider][answer]
                      rest == call[r][a].todo \ {w}
                  IN  Advance(r, a, [call[r][a] EXCEPT
                          !.todo = rest, !.got = @ \union {outcome},
                          !.at = IF rest = {} \/ Stops(outcome) THEN "answered" ELSE "claim"])
    /\ UNCHANGED <<provider, offered, run, asking, row>>

----------------------------------------------------------------------------

RunOn(r) == EndRun(r) \/ \E a \in Accounts : AskFor(r, a) \/ GiveUp(r, a) \/ Report(r, a)

CheckInNext ==
    \E r \in Runs :
        \/ BeginRun(r) \/ RunOn(r)
        \/ \E a \in Accounts : LookFirst(r, a) \/ Claim(r, a)

CheckInSpec == CheckInInit /\ [][CheckInNext]_checkInVars

(* A run goes on; nothing is assumed of the plugins and their vendors.     *)
FairCheckInSpec == CheckInSpec /\ \A r \in Runs : WF_checkInVars(RunOn(r))

----------------------------------------------------------------------------
CheckInTypeOK ==
    /\ provider \in Providers
    /\ offered \subseteq Everything /\ taken \subseteq offered
    /\ run \in [Runs -> {"idle", "running", "ended"}]
    /\ asking \in [Runs -> Accounts \union {NoAccount}]
    /\ \A r \in Runs, a \in Accounts :
          /\ call[r][a].at \in {"unasked", "look", "claim", "answered"}
          /\ call[r][a].todo \subseteq Rewards(provider)
          /\ call[r][a].got \subseteq Outcomes
          /\ call[r][a].tries \in 0..3 /\ call[r][a].before \in Sightings
          /\ call[r][a].at = "claim" => call[r][a].todo # {}
          /\ call[r][a].at = "answered" => call[r][a].got # {}
          /\ row[r][a] \in Kinds \union {"none"}

(* "Reported as unknown, never as success": a row claims nothing that has  *)
(* not been taken, and says "already" of nothing else either, save where   *)
(* qoder cannot tell.                                                      *)
SuccessWasTaken ==
    \A r \in Runs, a \in Accounts :
        /\ row[r][a] = "claimed" => Holds(a)
        /\ row[r][a] = "already-claimed" => Holds(a) \/ provider = "qoder"

(* Nobody is told twice of the same reward, by overlapping runs or by one   *)
(* that follows an abandoned request, where the vendor tells a repeated     *)
(* claim from the first: one row says claimed.                              *)
ToldOnce ==
    provider \in {"codebuddy", "loomy", "minimax", "raccoon"} =>
        \A r, s \in Runs, a \in Accounts :
            row[r][a] = "claimed" /\ row[s][a] = "claimed" => r = s

(* What reads as claimed was taken, and is told once.                      *)
ClaimsAreTrue == SuccessWasTaken /\ ToldOnce

(* "Anything that cannot be established is reported as unknown" (the file's *)
(* comment): a request that took the reward does not read as failed.        *)
FailedTookNothing ==
    \A r \in Runs, a \in Accounts : row[r][a] = "failed" => "claimed" \notin call[r][a].got

(* A plugin that hangs holds nobody up: every run that starts ends, where  *)
(* the configured timeout_ms is positive (without one boundedCall waits as *)
(* long as the call does, orchestrator.go:247).                            *)
RunsEnd == []<>(\A r \in Runs : run[r] # "running")
=============================================================================
