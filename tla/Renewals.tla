------------------------------ MODULE Renewals ------------------------------
(* What a renewal makes of the vendor's answer: the verdict on the account  *)
(* and the auth file afterwards, in the nine plugins that renew a grant.    *)
(* handleAuthRefresh, the classification of its failures and the merge of   *)
(* the save are one step; their interleavings are AuthRefresh's subject.    *)
EXTENDS Naturals

CONSTANTS
    Renewers,       \* the plugins looked at
    MaxTokens       \* bound on the access tokens the vendor grants

ASSUME RenewersAssumption ==
    Renewers \subseteq {"cline", "qoder", "minimax", "raccoon", "lobsterai", "codebuddy",
                        "atomcode", "trae", "codearts"}
ASSUME TokensAssumption == MaxTokens \in Nat \ {0}

(* Tokens and grants are numbered as the vendor grants them; 0 is none.     *)
VARIABLES
    renewer,        \* the plugin
    rotating,       \* does a new grant end those before it?
    granted,        \* the number of tokens granted
    aged,           \* the tokens up to this one are past their expiry
    honoured,       \* the grants the vendor would renew
    stored,         \* the auth file: token, how its expiry was told, grant, and whose
                    \* expiry is recorded
    killedBy,       \* the answer that ended the credential, "" if none has
    mishap          \* has a grant been revoked, lost on its way or not taken?

renewalVars == <<renewer, rotating, granted, aged, honoured, stored, killedBy, mishap>>

(* As a member or duration of the answer, as the exp of a JWT, or not.      *)
Forms == {"field", "jwt", "unsaid"}
Refusals == {"401", "403", "named"}
(* A 2xx without a token or without JSON; an outage; one whose text says    *)
(* that something is "invalid".                                             *)
Hiccups == {"empty", "garbled", "busy", "cursed"}

RenewalInit ==
    /\ renewer \in Renewers
    /\ rotating \in BOOLEAN
    /\ granted = 1
    /\ aged = 0
    /\ honoured = {1}
    /\ stored \in [token : {1}, form : Forms, grant : {1}, expiry : {0, 1}]
    /\ killedBy = ""
    /\ mishap = FALSE

----------------------------------------------------------------------------
(* The forms in which a plugin reads the expiry from an answer.             *)
ClineReads == {"field"}
QoderReads == {"field"}
MinimaxReads == {"field"}
RaccoonReads == {"jwt"}
LobsterAIReads == {"field", "jwt"}
CodeBuddyReads == {"field"}
AtomCodeReads == {"field"}
TraeReads == {"field", "jwt"}
CodeArtsReads == {"field"}

Reads == [cline |-> ClineReads, qoder |-> QoderReads, minimax |-> MinimaxReads,
          raccoon |-> RaccoonReads, lobsterai |-> LobsterAIReads, codebuddy |-> CodeBuddyReads,
          atomcode |-> AtomCodeReads, trae |-> TraeReads, codearts |-> CodeArtsReads]

(* Credential.Expiry: what is recorded, or, for these, the JWT's own exp.   *)
FallsBack == {"minimax", "raccoon", "lobsterai", "codebuddy", "trae"}
Expiry ==
    CASE stored.expiry # 0 -> stored.expiry
      [] stored.expiry = 0 /\ renewer \in FallsBack /\ stored.form = "jwt" -> stored.token
      [] OTHER -> 0

(* needsRefresh and credentialRefreshable; a credential that ended is left. *)
DueForRenewal == Expiry \in 1..aged /\ stored.grant # 0 /\ killedBy = ""

(* A slip: the expiry on file is kept if there is one.                      *)
ExpiryRecordedFirst(n, f) ==
    IF stored.expiry = 0 /\ f \in Reads[renewer] THEN n ELSE stored.expiry

(* Whose expiry the file records: cline and lobsterai keep the old one if   *)
(* none is read; for the others, which omit the member, the merge of the    *)
(* save does. codearts writes it empty, atomcode dates the duration it had. *)
ExpiryRecorded(n, f) ==
    CASE f \in Reads[renewer] -> n
      [] f \notin Reads[renewer] /\ renewer = "codearts" -> 0
      [] f \notin Reads[renewer] /\ renewer = "atomcode" /\ stored.expiry # 0 -> n
      [] OTHER -> stored.expiry

(* A slip: an answer without a grant takes the old one from the file.       *)
GrantRecordedBare(n, given) == IF given THEN n ELSE 0

(* An omitted grant is the old one, but codebuddy writes what it is given.  *)
GrantRecorded(n, given) ==
    CASE given -> n
      [] ~given /\ renewer = "codebuddy" -> 0
      [] OTHER -> stored.grant

(* parseTokenGrant of minimax refuses a grant that does not tell its expiry.*)
TakesGrant(f) == renewer = "minimax" => f \in Reads[renewer]

(* The answers a plugin reports as a dead credential (authrefresh.IsTerminal *)
(* reads the status of what it reports).                                    *)
ClineEnds == {"401", "403", "empty"}
QoderEnds == {"401", "403"}
MinimaxEnds == {"401", "403", "named"}
RaccoonEnds == {"401", "named"}
LobsterAIEnds == {"401", "403", "named", "empty"}
CodeBuddyEnds == {"401", "403", "named", "cursed"}
AtomCodeEnds == {"401", "403", "empty"}
TraeEnds == {"401", "403", "empty"}
CodeArtsEnds == {"named"}

Ending == [cline |-> ClineEnds, qoder |-> QoderEnds, minimax |-> MinimaxEnds,
           raccoon |-> RaccoonEnds, lobsterai |-> LobsterAIEnds, codebuddy |-> CodeBuddyEnds,
           atomcode |-> AtomCodeEnds, trae |-> TraeEnds, codearts |-> CodeArtsEnds]

EndsAccount(answer) == answer \in Ending[renewer]

----------------------------------------------------------------------------
(* The vendor, and the time.                                                *)

Age ==
    /\ aged < granted
    /\ aged' = aged + 1
    /\ UNCHANGED <<renewer, rotating, granted, honoured, stored, killedBy, mishap>>

Revoke ==
    /\ honoured # {}
    /\ honoured' = {}
    /\ mishap' = TRUE
    /\ UNCHANGED <<renewer, rotating, granted, aged, stored, killedBy>>

Grants(given) ==
    /\ stored.grant \in honoured
    /\ granted < MaxTokens
    /\ granted' = granted + 1
    /\ honoured' = IF ~given THEN honoured
                   ELSE {granted + 1} \union (IF rotating THEN {} ELSE honoured)

----------------------------------------------------------------------------
(* Renewals, by what the vendor answers.                                    *)

Renewed ==
    /\ DueForRenewal
    /\ \E f \in Forms, given \in BOOLEAN :
         /\ Grants(given)
         /\ TakesGrant(f)
         /\ stored' = [token |-> granted + 1, form |-> f,
                       grant |-> GrantRecorded(granted + 1, given),
                       expiry |-> ExpiryRecorded(granted + 1, f)]
    /\ UNCHANGED <<renewer, rotating, aged, killedBy, mishap>>

(* The answer does not arrive, or is not taken.                             *)
RenewedInVain ==
    /\ DueForRenewal
    /\ \E given \in BOOLEAN : Grants(given)
    /\ mishap' = TRUE
    /\ UNCHANGED <<renewer, rotating, aged, stored, killedBy>>

Refused ==
    /\ DueForRenewal
    /\ stored.grant \notin honoured
    /\ \E answer \in Refusals : EndsAccount(answer) /\ killedBy' = answer
    /\ UNCHANGED <<renewer, rotating, granted, aged, honoured, stored, mishap>>

Faltered ==
    /\ DueForRenewal
    /\ \E answer \in Hiccups : EndsAccount(answer) /\ killedBy' = answer
    /\ UNCHANGED <<renewer, rotating, granted, aged, honoured, stored, mishap>>

RenewalNext == Age \/ Revoke \/ Renewed \/ RenewedInVain \/ Refused \/ Faltered

RenewalSpec == RenewalInit /\ [][RenewalNext]_renewalVars

----------------------------------------------------------------------------
(* Type correctness; the file never holds what was not granted yet.         *)
RenewalTypeOK ==
    /\ renewer \in Renewers /\ rotating \in BOOLEAN /\ mishap \in BOOLEAN
    /\ granted \in 1..MaxTokens
    /\ aged \in 0..granted /\ honoured \subseteq 1..granted
    /\ stored \in [token : 1..granted, form : Forms, grant : 0..granted, expiry : 0..granted]
    /\ stored.grant <= stored.token /\ stored.expiry <= stored.token
    /\ killedBy \in {""} \union Refusals \union Hiccups

(* A credential that was renewed is not due again at once, for an expiry    *)
(* that is not its token's: such an account would renew at every use. So    *)
(* for each plugin whose vendor tells the expiry in the form it reads, and  *)
(* whatever the vendor tells minimax, atomcode and codearts.                *)
RenewedIsFresh ==
    \/ stored.expiry \in {0, stored.token}
    \/ stored.form \notin Reads[renewer] /\ renewer \notin {"minimax", "atomcode", "codearts"}

(* codebuddy leaves an expiry it is not told "to the JWT's exp" and raccoon *)
(* calls the JWT the only source then: no other token's expiry is on file.  *)
ExpiryIsTheTokens == stored.expiry \in {0, stored.token}

(* The file keeps a grant the vendor honours, however often the vendor      *)
(* rotates it or leaves it out, unless it was revoked or lost on its way.   *)
(* (codebuddy writes an empty one when the vendor leaves it out.)           *)
GrantIsKept == ~mishap => stored.grant \in honoured \/ (renewer = "codebuddy" /\ stored.grant = 0)

(* An account whose grant is honoured is not given up for an answer that    *)
(* says nothing of the grant. (These take a 2xx without a token for such an *)
(* answer on purpose, and codebuddy an outage that calls something invalid.)*)
LiveIsNotGivenUp ==
    killedBy # "" /\ stored.grant \in honoured =>
        \/ killedBy = "empty" /\ renewer \in {"cline", "lobsterai", "atomcode", "trae"}
        \/ killedBy = "cursed" /\ renewer = "codebuddy"

FileIsKeptWell == GrantIsKept /\ LiveIsNotGivenUp
=============================================================================
