------------------------------ MODULE Verdicts ------------------------------
(***************************************************************************)
(* What each provider plugin makes of a chat answer that is not a success: *)
(* the error envelope it hands the host, whose HTTP status decides whose   *)
(* fault the failure is.  An answer is its status and what its body says;  *)
(* every classification is a list of rules of which the first that fits    *)
(* decides, as in the Go switches.                                         *)
(***************************************************************************)
EXTENDS Naturals, Sequences

Answer(status, says) == [status |-> status, says |-> says]

(* A status of 0 is an envelope without http_status, which the host cannot *)
(* classify.                                                               *)
Verdict(http, retry, code) == [http |-> http, retry |-> retry, code |-> code]

(* What a rule offers, and what the first rule that offers anything does.  *)
Rule(fits, verdict) == IF fits THEN {verdict} ELSE {}
FirstFit(rules) ==
    LET fitting == {i \in DOMAIN rules : rules[i] # {}}
        first == CHOOSE i \in fitting : \A j \in fitting : i <= j
    IN  CHOOSE verdict \in rules[first] : TRUE

(* The helpers every port has: credentialError, transportError, and the    *)
(* errors of abiboot without a retry hint, without a status, or with only  *)
(* the hint.                                                               *)
Refusal(code) == Verdict(401, FALSE, code)
Transport(code) == Verdict(502, TRUE, code)
HTTPError(code, status) == Verdict(status, FALSE, code)
Errorf(code) == Verdict(0, FALSE, code)
RetryableError(code) == Verdict(0, TRUE, code)

RefusedStatus(status) == status \in {401, 403}
Success(status) == status \in 200..299

(* httpErrorCode of trae and atomcode                                      *)
HTTPErrorCode(status) ==
    FirstFit(<< Rule(RefusedStatus(status), "AUTH"), Rule(status = 429, "RATE_LIMIT"),
                Rule(status = 400, "INVALID_REQUEST"), Rule(status >= 500, "SERVER"),
                Rule(TRUE, "HTTP") >>)

----------------------------------------------------------------------------

CodeArts(a) == FirstFit(<<
    Rule("queue" \in a.says,                              Errorf("queue_full")),
    Rule(RefusedStatus(a.status) \/ "credential" \in a.says,    Errorf("credential_rejected")),
    Rule(TRUE,                                            HTTPError("upstream_error", a.status)) >>)

(* Every wording of a limit is a quota marker to cline, "rate limit" too.   *)
QuotaMarked(a) == a.says \intersect {"quota", "rate"} # {}
RegionForbidden(a) == a.status = 403 /\ "region" \in a.says

Cline(a) == FirstFit(<<
    Rule(RegionForbidden(a),                         HTTPError("region_forbidden", 403)),
    Rule(RefusedStatus(a.status),                          Refusal("auth")),
    Rule(a.status = 402,                             HTTPError("quota_exceeded", 402)),
    Rule(a.status = 429,                             Verdict(429, TRUE, "rate_limited")),
    Rule(a.status = 400 /\ "context" \in a.says,     HTTPError("CONTEXT_WINDOW_EXCEEDED", 400)),
    Rule(a.status \in 400..499 /\ QuotaMarked(a),    HTTPError("quota_exceeded", 402)),
    Rule(a.status = 400,                             HTTPError("invalid_request", 400)),
    Rule(TRUE,                                       Transport("upstream_error")) >>)

(* classifyLobsteraiError: what the body says outranks any status but 402. *)
LobsterAIKind(a) == FirstFit(<<
    Rule(a.status = 402 \/ "quota" \in a.says,       "hard-credit"),
    Rule("dead" \in a.says,                          "session-dead"),
    Rule(a.status = 429,                             "soft-rate"),
    Rule(a.status = 404,                             "not-found"),
    Rule(a.status >= 500,                            "server"),
    Rule(a.status >= 400,                            "client"),
    Rule(TRUE,                                       "none") >>)

LobsterAI(a) == LET kind == LobsterAIKind(a) IN FirstFit(<<
    Rule(kind = "hard-credit",                       HTTPError("quota_exceeded", 402)),
    Rule(kind = "soft-rate",                         HTTPError("rate_limited", 429)),
    Rule(kind = "session-dead",                      HTTPError("session_dead", 401)),
    Rule(kind = "not-found",                         HTTPError("model_not_found", 404)),
    Rule(kind = "server",                            HTTPError("upstream_server_error", 502)),
    Rule(kind = "client",                            HTTPError("upstream_client_error", a.status)),
    Rule(TRUE,                                       HTTPError("upstream_error", a.status)) >>)

(* A refusal's body is read before its status decides anything: a queue    *)
(* and a used-up quota arrive as a 403 as well.                            *)
QoderBusiness(a) == FirstFit(<<
    Rule("queue" \in a.says,                         Verdict(429, TRUE, "QUEUE")),
    Rule(TRUE,                                       HTTPError("QUOTA_EXCEEDED", 402)) >>)
BusinessMarked(a) == a.says \intersect {"queue", "quota"} # {}

Qoder(a) == FirstFit(<<
    Rule(RefusedStatus(a.status) /\ BusinessMarked(a),     QoderBusiness(a)),
    Rule(RefusedStatus(a.status),                          Refusal("auth")),
    Rule(a.status = 402,                             HTTPError("quota_exhausted", 402)),
    Rule(a.status = 429,                             Verdict(429, TRUE, "rate_limited")),
    Rule(a.status = 504,                             Verdict(504, TRUE, "upstream_timeout")),
    Rule(TRUE,                                       Transport("upstream_error")) >>)

MiniMax(a) == FirstFit(<<
    Rule(RefusedStatus(a.status),                          Refusal("auth")),
    Rule(a.status = 402,                             HTTPError("QUOTA_EXCEEDED", 402)),
    Rule(a.status = 429,                             Verdict(429, TRUE, "rate_limited")),
    Rule(a.status = 400,                             HTTPError("invalid_request", 400)),
    Rule(a.status \in {408, 504},                    Verdict(a.status, TRUE, "upstream_timeout")),
    Rule(TRUE,                                       Transport("upstream_error")) >>)

Raccoon(a) == FirstFit(<<
    Rule(RefusedStatus(a.status),                          Refusal("auth")),
    Rule(a.status = 402,                             HTTPError("quota_exhausted", 402)),
    Rule(a.status = 429,                             Verdict(429, TRUE, "rate_limited")),
    Rule(a.status = 400,                             HTTPError("invalid_request", 400)),
    Rule(TRUE,                                       Transport("upstream_error")) >>)

Loomy(a) == FirstFit(<<
    Rule(RefusedStatus(a.status),                          Refusal("auth")),
    Rule(a.status = 402,                             HTTPError("quota_exhausted", 402)),
    Rule(a.status = 429,                             Verdict(429, TRUE, "rate_limited")),
    Rule(a.status = 504,                             Verdict(504, TRUE, "upstream_timeout")),
    Rule(TRUE,                                       Transport("upstream_error")) >>)

CodeBuddyCode(a) == FirstFit(<<
    Rule(RefusedStatus(a.status) /\ "content" \in a.says,       "PERMISSION_DENIED"),
    Rule(a.status = 400 /\ "context" \in a.says,          "CONTEXT_WINDOW_EXCEEDED"),
    Rule(TRUE,                                            HTTPErrorCode(a.status)) >>)

CodeBuddy(a) == HTTPError(CodeBuddyCode(a), a.status)

AtomCode(a) == FirstFit(<<
    Rule("signature" \in a.says,                          HTTPError("signature_required", 502)),
    Rule(RefusedStatus(a.status) /\ "codingplan" \in a.says,    HTTPError("no_codingplan", 403)),
    Rule(RefusedStatus(a.status),                               HTTPError("AUTH", a.status)),
    Rule(a.status = 429,                                  HTTPError("RATE_LIMIT", 429)),
    Rule(a.status >= 500,                                 RetryableError("SERVER")),
    Rule(TRUE,                       HTTPError(HTTPErrorCode(a.status), a.status)) >>)

(* classifyTraeError: the kinds that share the last branch of upstreamError *)
(* (soft-rate, not-found, server, client) are one here.                    *)
TraeKind(a) == FirstFit(<<
    Rule("plan" \in a.says,                          "hard-plan"),
    Rule("quota" \in a.says,                         "quota-exceeded"),
    Rule("soft" \in a.says,                          "other"),
    Rule(a.status = 401,                             "session-dead"),
    Rule(TRUE,                                       "other") >>)

Trae(a) == LET kind == TraeKind(a) IN FirstFit(<<
    Rule(kind = "quota-exceeded",                    HTTPError("quota_exceeded", a.status)),
    Rule(kind = "session-dead",                      HTTPError("session_dead", 401)),
    Rule(kind = "hard-plan",                         HTTPError("plan_limit", a.status)),
    Rule(TRUE,                       HTTPError(HTTPErrorCode(a.status), a.status)) >>)

(* 3009 says busy whatever the status; the words count on a 429 only.      *)
ConcurrencyLimited(a) ==
    \/ "busy" \in a.says
    \/ a.status = 429 /\ "concurrency" \in a.says
QuotaExhausted(a) ==
    /\ ~ConcurrencyLimited(a)
    /\ "quota" \in a.says \/ a.status = 402

ZCode(a) == FirstFit(<<
    Rule(ConcurrencyLimited(a),             Verdict(429, TRUE, "concurrency_limited")),
    Rule(QuotaExhausted(a),                 HTTPError("quota_exhausted", 402)),
    Rule("risk" \in a.says,                 HTTPError("risk_control", 403)),
    Rule("captcha" \in a.says,              Verdict(429, TRUE, "captcha_required")),
    Rule("parameter" \in a.says,            HTTPError("parameter_error", 400)),
    Rule(RefusedStatus(a.status),                 Refusal("auth")),
    Rule(a.status = 429,                    Verdict(429, TRUE, "rate_limited")),
    Rule(a.status \in {408, 504},           Verdict(504, TRUE, "upstream_timeout")),
    Rule(a.status >= 500,                   Transport("upstream_error")),
    Rule(TRUE,                              HTTPError("upstream_rejected", 502)) >>)

(* The marks a plugin looks for in a body.                                 *)
Marks == [codearts |-> {"queue", "credential"}, cline |-> {"region", "context", "quota", "rate"},
          lobsterai |-> {"quota", "dead"}, qoder |-> {"queue", "quota"},
          minimax |-> {}, raccoon |-> {}, loomy |-> {},
          codebuddy |-> {"content", "context"}, atomcode |-> {"signature", "codingplan"},
          trae |-> {"plan", "quota", "soft"},
          zcode |-> {"busy", "concurrency", "quota", "risk", "captcha", "parameter"}]
AllPlugins == DOMAIN Marks

Classify(p, a) ==
    CASE p = "codearts"  -> CodeArts(a)
      [] p = "cline"     -> Cline(a)
      [] p = "lobsterai" -> LobsterAI(a)
      [] p = "qoder"     -> Qoder(a)
      [] p = "minimax"   -> MiniMax(a)
      [] p = "raccoon"   -> Raccoon(a)
      [] p = "loomy"     -> Loomy(a)
      [] p = "codebuddy" -> CodeBuddy(a)
      [] p = "atomcode"  -> AtomCode(a)
      [] p = "trae"      -> Trae(a)
      [] OTHER           -> ZCode(a)
=============================================================================
