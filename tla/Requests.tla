------------------------------ MODULE Requests ------------------------------
(***************************************************************************)
(* Chat requests of one account in a provider plugin: the credential is    *)
(* made fresh, the request is sent, a refusal may be answered by a renewal *)
(* and one more attempt, a full queue by waiting, and what the vendor said *)
(* last becomes the envelope the host acts on.  The plugins differ in the  *)
(* policies below; requests of one account run concurrently and share its  *)
(* auth file and its grant at the vendor.                                  *)
(*                                                                         *)
(* Credentials are numbered as the vendor issues them; 1 is the first.     *)
(***************************************************************************)
EXTENDS Verdicts, FiniteSets

CONSTANTS
    Plugins,            \* the plugins looked at
    Clients,            \* requests that may be under way
    ChatAnswers,            \* what the vendor may answer a chat with
    MaxIssues,          \* bound: credentials the vendor ever issues
    ConcurrencyRetryMax \* zcode's setting

ASSUME PluginsAssumption == Plugins \subseteq AllPlugins
ASSUME ChatAnswersAssumption == ChatAnswers \subseteq [status : Nat, says : SUBSET STRING]
ASSUME RequestBoundsAssumption == MaxIssues \in Nat \ {0} /\ ConcurrencyRetryMax \in Nat

Nothing == Answer(0, {})        \* no answer yet
NoVerdict == Verdict(0, FALSE, "")

----------------------------------------------------------------------------
(* The policies: does decodeExecutorCall freshen the credential first; is  *)
(* an expired one renewed by the request itself, and must that succeed;    *)
(* does a refusal start a renewal, and is a failed one fatal; is what it   *)
(* brings stored; how often is a busy vendor asked, and does the plugin    *)
(* look at the queue in between.                                           *)

PlainPolicy == [freshens |-> TRUE, ahead |-> "never", renews |-> FALSE, lenient |-> FALSE,
          stores |-> FALSE, attempts |-> 1, looks |-> FALSE]
RenewingPolicy == [PlainPolicy EXCEPT !.renews = TRUE]

CodeArtsPolicy == [PlainPolicy EXCEPT !.attempts = 3, !.looks = TRUE]
ClinePolicy == [RenewingPolicy EXCEPT !.ahead = "must"]
QoderPolicy == RenewingPolicy
MiniMaxPolicy == [RenewingPolicy EXCEPT !.ahead = "may"]
RaccoonPolicy == [RenewingPolicy EXCEPT !.ahead = "may"]
LobsterAIPolicy == [RenewingPolicy EXCEPT !.lenient = TRUE]
CodeBuddyPolicy == [RenewingPolicy EXCEPT !.stores = TRUE]
AtomCodePolicy == PlainPolicy
TraePolicy == PlainPolicy
LoomyPolicy == [PlainPolicy EXCEPT !.freshens = FALSE]
ZCodePolicy == [PlainPolicy EXCEPT !.freshens = FALSE, !.attempts = ConcurrencyRetryMax + 1]

Policy == [codearts |-> CodeArtsPolicy, cline |-> ClinePolicy, qoder |-> QoderPolicy,
           minimax |-> MiniMaxPolicy, raccoon |-> RaccoonPolicy,
           lobsterai |-> LobsterAIPolicy, codebuddy |-> CodeBuddyPolicy,
           atomcode |-> AtomCodePolicy, trae |-> TraePolicy, loomy |-> LoomyPolicy,
           zcode |-> ZCodePolicy]

VARIABLES
    plugin,     \* whose account it is
    renewable,  \* does its credential carry a refresh token?
    rotating,   \* does a renewal withdraw the grant it was made with?
    chatIssued,     \* the newest credential the vendor issued
    chatLive,       \* the credentials whose grant it still honours
    chatFile,       \* the credential in the auth file
    mislaid,    \* has a renewed credential been lost on its way to the file?
    request     \* what each request is at

requestVars == <<plugin, renewable, rotating, chatIssued, chatLive, chatFile, mislaid, request>>
account == <<plugin, renewable, rotating>>
chatVendor == <<chatIssued, chatLive>>

policy == Policy[plugin]

Fresh == [at |-> "idle", held |-> 1, sends |-> 0, said |-> Nothing, again |-> FALSE,
          tried |-> FALSE, verdict |-> NoVerdict]

RequestsInit ==
    /\ plugin \in Plugins
    /\ renewable \in BOOLEAN
    /\ rotating \in {FALSE, renewable}
    /\ chatIssued = 1
    /\ chatLive = {1}
    /\ chatFile = 1
    /\ mislaid = FALSE
    /\ request = [c \in Clients |-> Fresh]

At(c, place) == request[c].at = place
Goes(c, record) == request' = [request EXCEPT ![c] = record]
Ended(c, verdict) == [request[c] EXCEPT !.at = "done", !.verdict = verdict]

----------------------------------------------------------------------------
(* The vendor's refresh endpoint, asked with credential g.                 *)

GrantRenewed(g) ==
    /\ renewable /\ g \in chatLive /\ chatIssued < MaxIssues
    /\ chatIssued' = chatIssued + 1
    /\ chatLive' = (IF rotating THEN chatLive \ {g} ELSE chatLive) \union {chatIssued + 1}

(* A request arrives with the bytes of the file.                           *)
Arrive(c) ==
    /\ At(c, "idle")
    /\ Goes(c, [Fresh EXCEPT !.at = IF policy.freshens THEN "freshen" ELSE "ahead",
                             !.held = chatFile])
    /\ UNCHANGED <<account, chatVendor, chatFile, mislaid>>

(* A renewal that fails may have reached the vendor all the same: what it  *)
(* issued is then lost.                                                    *)
NotRenewed(g) ==
    \/ UNCHANGED <<chatVendor, mislaid>>
    \/ GrantRenewed(g) /\ mislaid' = TRUE

(* ensureCredentialFresh, by what authrefresh promises of it: the bytes as *)
(* they came; renewed bytes, stored or not; or, when the bytes have        *)
(* expired, an end with the error of the renewal or of the save.           *)
Freshen(c) ==
    /\ At(c, "freshen")
    /\ \/ /\ Goes(c, [request[c] EXCEPT !.at = "ahead"])
          /\ NotRenewed(request[c].held)
          /\ UNCHANGED chatFile
       \/ /\ GrantRenewed(request[c].held)
          /\ Goes(c, [request[c] EXCEPT !.at = "ahead", !.held = chatIssued + 1])
          /\ \/ chatFile' = chatIssued + 1 /\ UNCHANGED mislaid
             \/ mislaid' = TRUE /\ UNCHANGED chatFile
       \/ /\ renewable
          /\ \E v \in {Refusal("refresh"), Transport("refresh"), Errorf("save")} :
               Goes(c, [Ended(c, v) EXCEPT !.tried = TRUE])
          /\ NotRenewed(request[c].held)
          /\ UNCHANGED chatFile
    /\ UNCHANGED account

(* usableCredential of cline, NeedsRefresh in minimax and raccoon: what is *)
(* still expired is renewed on the spot, and not stored.                   *)
Ahead(c) ==
    /\ At(c, "ahead")
    /\ \/ /\ Goes(c, [request[c] EXCEPT !.at = "send"])
          /\ UNCHANGED <<chatVendor, mislaid>>
       \/ /\ policy.ahead # "never"
          /\ GrantRenewed(request[c].held)
          /\ Goes(c, [request[c] EXCEPT !.at = "send", !.held = chatIssued + 1, !.tried = TRUE])
          /\ mislaid' = TRUE
       \/ /\ policy.ahead = "may" /\ renewable
          /\ Goes(c, [request[c] EXCEPT !.at = "send", !.tried = TRUE])
          /\ NotRenewed(request[c].held)
       \/ /\ policy.ahead = "must"
          /\ Goes(c, [Ended(c, Refusal("missing_credential")) EXCEPT !.tried = renewable])
          /\ NotRenewed(request[c].held)
    /\ UNCHANGED <<account, chatFile>>

----------------------------------------------------------------------------
(* One chat call and what the plugin does next.                            *)

(* 429s that mean "wait a moment"                                          *)
QueueBusy(a) ==
    \/ plugin = "codearts" /\ "queue" \in a.says
    \/ plugin = "zcode" /\ ConcurrencyLimited(a)

(* Slips: whatever is retryable is sent again; one attempt too many; a 401 *)
(* is taken for the last word.                                             *)
MayAskAgainIfRetryable(c, a) ==
    Classify(plugin, a).retry /\ request[c].sends + 1 < policy.attempts
MayAskAgainOnceMore(c, a) == QueueBusy(a) /\ request[c].sends < policy.attempts
StartsRenewalOn403(c, a) ==
    policy.renews /\ renewable /\ ~request[c].again /\ a.status = 403

(* request[c].sends does not count the call that brought a yet.            *)
MayAskAgain(c, a) == QueueBusy(a) /\ request[c].sends + 1 < policy.attempts

StartsRenewal(c, a) ==
    /\ policy.renews /\ renewable /\ ~request[c].again
    /\ RefusedStatus(a.status) /\ ~(plugin = "cline" /\ RegionForbidden(a))

(* The last answer of a codearts queue that stays full.                    *)
FinalVerdict(a) ==
    IF plugin = "codearts" /\ QueueBusy(a) THEN HTTPError("queue_timeout", 429)
    ELSE IF Success(a.status) THEN Verdict(200, FALSE, "ok")
    ELSE Classify(plugin, a)

TransportVerdict ==
    CASE plugin \in {"atomcode", "trae"} -> RetryableError("transport")
      [] plugin = "codebuddy" -> HTTPError("TRANSPORT", 502)
      [] plugin = "codearts" -> Errorf("host_http")
      [] OTHER -> Transport("transport")

AnsweredWith(c, a) ==
    LET counted == [request[c] EXCEPT !.said = a, !.sends = @ + 1] IN
    CASE ~Success(a.status) /\ MayAskAgain(c, a) ->
            [counted EXCEPT !.at = IF policy.looks THEN "look" ELSE "send"]
      [] ~Success(a.status) /\ ~MayAskAgain(c, a) /\ StartsRenewal(c, a) ->
            [counted EXCEPT !.at = "renew"]
      [] OTHER ->
            [counted EXCEPT !.at = IF request[c].again /\ policy.stores THEN "store" ELSE "done",
                            !.verdict = FinalVerdict(a)]

(* The call may also fail on the way; a credential renewed for it is then  *)
(* gone with it.                                                           *)
Send(c) ==
    /\ At(c, "send")
    /\ \/ /\ \E a \in ChatAnswers :
               a.says \subseteq Marks[plugin] /\ Goes(c, AnsweredWith(c, a))
          /\ UNCHANGED mislaid
       \/ /\ Goes(c, [Ended(c, TransportVerdict) EXCEPT !.said = Nothing, !.sends = @ + 1])
          /\ mislaid' = (mislaid \/ request[c].again)
    /\ UNCHANGED <<account, chatVendor, chatFile>>

(* waitForQueue of codearts: an unreachable queue is worth another try.    *)
Look(c) ==
    /\ At(c, "look")
    /\ \/ Goes(c, [request[c] EXCEPT !.at = "send"])
       \/ Goes(c, Ended(c, HTTPError("queue_full", 429)))
    /\ UNCHANGED <<account, chatVendor, chatFile, mislaid>>

(* A slip: the renewal is tried until it works.                            *)
RenewalFailedGoesOn(c) == UNCHANGED <<chatVendor, mislaid, request>>

(* The renewal a refusal starts. lobsterai falls back on the refusal.      *)
RenewalFailed(c) ==
    LET failed == IF policy.lenient THEN FinalVerdict(request[c].said) ELSE Refusal("auth") IN
    /\ Goes(c, [Ended(c, failed) EXCEPT !.tried = TRUE])
    /\ NotRenewed(request[c].held)

Renew(c) ==
    /\ At(c, "renew")
    /\ \/ /\ GrantRenewed(request[c].held)
          /\ Goes(c, [request[c] EXCEPT !.at = "send", !.held = chatIssued + 1,
                                        !.again = TRUE, !.tried = TRUE])
          /\ mislaid' = (mislaid \/ ~policy.stores)
       \/ RenewalFailed(c)
    /\ UNCHANGED <<account, chatFile>>

(* A slip: what was renewed is not stored.                                 *)
StoredNowhere(c) == UNCHANGED <<chatFile, mislaid>>

(* persistRefreshed of codebuddy, best effort, once the second call is     *)
(* answered, whatever the answer.                                          *)
Stored(c) ==
    \/ chatFile' = request[c].held /\ UNCHANGED mislaid
    \/ mislaid' = TRUE /\ UNCHANGED chatFile

Store(c) ==
    /\ At(c, "store")
    /\ Stored(c)
    /\ Goes(c, [request[c] EXCEPT !.at = "done"])
    /\ UNCHANGED <<account, chatVendor>>

(* The client is answered and may come again.                              *)
Depart(c) ==
    /\ At(c, "done")
    /\ Goes(c, Fresh)
    /\ UNCHANGED <<account, chatVendor, chatFile, mislaid>>

RequestStep(c) ==
    \/ Freshen(c) \/ Ahead(c) \/ Send(c) \/ Look(c) \/ Renew(c) \/ Store(c) \/ Depart(c)

RequestsNext == \E c \in Clients : Arrive(c) \/ RequestStep(c)

RequestsSpec == RequestsInit /\ [][RequestsNext]_requestVars

(* The host runs every handler it has called to its end.                   *)
RequestsFairSpec == RequestsSpec /\ \A c \in Clients : WF_requestVars(RequestStep(c))

----------------------------------------------------------------------------
MostSends == policy.attempts + (IF policy.renews THEN 1 ELSE 0)

(* Type correctness; a request is sent as often as its plugin's policy     *)
(* allows and no more, however the vendor answers.                         *)
RequestsTypeOK ==
    /\ plugin \in Plugins /\ renewable \in BOOLEAN /\ rotating \in BOOLEAN
    /\ chatIssued \in 1..MaxIssues /\ chatLive \subseteq 1..chatIssued /\ chatFile \in 1..chatIssued
    /\ mislaid \in BOOLEAN
    /\ \A c \in Clients :
        /\ request[c].at \in {"idle", "freshen", "ahead", "send", "look", "renew",
                               "store", "done"}
        /\ request[c].held \in 1..chatIssued
        /\ request[c].sends \in 0..MostSends
        /\ request[c].said \in ChatAnswers \union {Nothing}
        /\ request[c].again \in BOOLEAN /\ request[c].tried \in BOOLEAN
        /\ request[c].verdict.http \in Nat /\ request[c].verdict.retry \in BOOLEAN

(* Once a renewal has withdrawn the grant in the file, its successor is on *)
(* its way there with a request of codebuddy, or was lost: its plugin does *)
(* not store it, the save failed, or an answer never came. Two requests of *)
(* an account never store over each other's renewals.                      *)
Carries(c) == request[c].again /\ request[c].at \in {"send", "store"}
GrantIsNeverOrphaned ==
    \/ chatFile \in chatLive
    \/ mislaid
    \/ \E c \in Clients : Carries(c) /\ request[c].held \in chatLive

(* A plugin that renews on a refusal never tells the host that an account  *)
(* which can renew is at fault (a 401) before it has tried; lobsterai's    *)
(* session-dead body is the exception, it names the refresh token.         *)
BlameFollowsATry ==
    \A c \in Clients :
        /\ request[c].at = "done" /\ request[c].verdict.http = 401
        /\ policy.renews /\ renewable /\ "dead" \notin request[c].said.says
        => request[c].tried

(* A chat is paid for: it is sent again only after an answer that says it  *)
(* was not served, a refusal since answered by a renewal or a full queue,  *)
(* never after a success or a call that was lost on the way.               *)
SendIsEarned ==
    [][\A c \in Clients : request'[c].sends > request[c].sends =>
          \/ request[c].sends = 0
          \/ RefusedStatus(request[c].said.status) /\ request[c].again
          \/ ~Success(request[c].said.status) /\ QueueBusy(request[c].said)]_requestVars

(* Every request is answered, whatever the vendor says and how often.      *)
EveryRequestEnds == \A c \in Clients : []<>(request[c].at = "idle")

(* What qoder/executor.go says of the answers it reads as a business body, *)
(* and codebuddy of a blocked content: a healthy account is not blamed for *)
(* them.                                                                   *)
BusinessIsNotARefusal ==
    \A c \in Clients :
        /\ request[c].at = "done"
        /\ request[c].said.says \intersect {"queue", "quota", "content"} # {}
        => request[c].verdict.http # 401
=============================================================================
