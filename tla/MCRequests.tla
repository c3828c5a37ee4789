----------------------------- MODULE MCRequests -----------------------------
(* Values for the checks of requests. A behaviour is one of their parts:   *)
(* the renewal that callers share before they send, the requests of an     *)
(* account, or the stream one of them is answered with; nothing in the     *)
(* code leads from a later part back to an earlier one.                    *)
EXTENDS MCAuthRefresh, Requests, Streams

TwoClients == {c1, c2}
OneClient == {c1}
QoderAndCodeBuddy == {"qoder", "codebuddy"}

(* A success, a refusal, an outage, 403s that are none, a full queue in    *)
(* each dialect, and a dead session behind a 400.                          *)
SomeAnswers ==
    {Answer(200, {}), Answer(401, {}), Answer(503, {}),
     Answer(403, {"region"}), Answer(403, {"queue"}), Answer(403, {"content"}),
     Answer(429, {"concurrency"}), Answer(400, {"dead"})}

Translators ==
    {"codearts", "cline", "qoder", "raccoon", "lobsterai", "codebuddy", "loomy", "trae"}
CodeBuddyOnly == {"codebuddy"}

(* Two calls, one of them with its id, its name or its arguments late, in  *)
(* pieces, or missing.                                                     *)
SomeFrames ==
    {Text, Junk, Error, Done, Finish("stop"), Finish("tool_calls"),
     Fragment(0, "a", "f", <<>>), Fragment(0, "", "f", <<"{">>), Fragment(0, "", "", <<"}">>),
     Fragment(0, "", "", <<>>), Fragment(0, "", "f", <<"{", "}">>), Fragment(1, "b", "", <<"{">>)}

VARIABLE part

(* A part that is not looked at stays as it is.                            *)
ChatsInit ==
    /\ part \in {"ensure", "requests", "streams"}
    /\ Init /\ RequestsInit /\ StreamInit
    /\ part # "ensure" => cred[1].expiry = NoExpiry
    /\ part # "requests" => plugin = "qoder" /\ ~renewable
    /\ part # "streams" => source = "codebuddy"

(* A stream that has ended stays so.                                       *)
ChatsNext ==
    \/ part = "ensure" /\ CallersNext /\ UNCHANGED <<part, requestVars, streamVars>>
    \/ part = "requests" /\ RequestsNext /\ UNCHANGED <<part, vars, streamVars>>
    \/ part = "streams" /\ StreamNext /\ UNCHANGED <<part, vars, requestVars>>
    \/ part = "streams" /\ body # "open" /\ UNCHANGED <<part, vars, requestVars, streamVars>>

everything == <<part, vars, requestVars, streamVars>>

(* The host runs every handler it has called to its end. A behaviour is of *)
(* one part, so that one formula is about an action of each.               *)
ChatsSpec ==
    /\ ChatsInit /\ [][ChatsNext]_everything
    /\ \A c \in Callers \union Clients :
         WF_everything(\/ part = "ensure" /\ Step(c) /\ UNCHANGED <<part, requestVars, streamVars>>
                       \/ part = "requests" /\ RequestStep(c) /\ UNCHANGED <<part, vars, streamVars>>)

(* All parts are type correct, see there.                                  *)
ChatsTypeOK == TypeOK /\ RequestsTypeOK /\ StreamTypeOK

(* Every call is answered, a joined renewal and a request alike.           *)
EveryCallEnds == EveryCallReturns /\ EveryRequestEnds
=============================================================================
