------------------------------ MODULE Histories ------------------------------
(***************************************************************************)
(* What nine plugins make of a chat's history before they send it. The     *)
(* client's history may hold calls nobody answered, answers to no call,    *)
(* calls without a name or an id: a vendor refuses the whole request for   *)
(* one of them, and the client sends the same history again with each turn.*)
(*                                                                         *)
(* A message is who says it, whether it has words and thoughts, the tool   *)
(* calls it makes, the call it answers, whether the answer has an image,   *)
(* and where it stood in the request (0 for one a plugin has made).        *)
(***************************************************************************)
EXTENDS Integers, SequencesExt

CONSTANTS
    Senders,            \* the plugins looked at
    ClientHistories,    \* the histories clients send
    Allowances          \* MaxHistoryChars of trae, in messages; 0 is no limit

Idless == "idless"
NoCall == "none"
Roles == {"system", "developer", "user", "assistant", "tool"}

(* toolCallsOf, hasUsableToolName: a call has an id or none, a name or none.*)
Callers == [id : STRING \ {NoCall}, named : BOOLEAN]

(* It is the assistant who calls, and a tool or a user who answers.         *)
Messages ==
    {m \in [role : Roles, words : BOOLEAN, thoughts : BOOLEAN, calls : Seq(Callers),
            answers : STRING \union {NoCall}, image : BOOLEAN, at : Nat] :
        /\ m.calls # <<>> => m.role = "assistant"
        /\ m.answers # NoCall => m.role \in {"user", "tool"}}

ASSUME HistoriesAssumption ==
    /\ ClientHistories \subseteq Seq(Messages)
    /\ Senders \subseteq {"atomcode", "cline", "codearts", "codebuddy", "lobsterai", "loomy",
                          "qoder", "raccoon", "trae"}
    /\ Allowances \subseteq Nat

VARIABLES
    sender,         \* the plugin
    asked,          \* the messages of the client's request
    history,        \* those the executor gets
    translated,     \* has the host called request.translate?
    allowance,      \* MaxHistoryChars
    tooled,         \* does the request declare tools for deepseek-v4 (codearts)?
    turn            \* what is sent, once it is

historiesVars == <<sender, asked, history, translated, allowance, tooled, turn>>

Unsent == [outcome |-> "none", messages |-> <<>>]

Numbered(h) == [i \in DOMAIN h |-> [h[i] EXCEPT !.at = i]]

(* Only trae knows the shape in which a user's message holds an answer, and *)
(* it takes no images from most models: here, from none.                    *)
InShape(plugin, m) ==
    /\ m.role = "user" /\ m.answers # NoCall => plugin = "trae"
    /\ m.image => plugin # "trae"

Requested == {Numbered(h) : h \in ClientHistories}

HistoriesInit ==
    /\ sender \in Senders
    /\ asked \in Requested
    /\ \A i \in DOMAIN asked : InShape(sender, asked[i])
    /\ history = asked
    /\ translated = FALSE
    /\ allowance \in Allowances /\ (sender # "trae" => allowance = 0)
    /\ tooled \in BOOLEAN /\ (sender # "codearts" => ~tooled)
    /\ turn = Unsent

(* The calls that are good.                                                *)
Only(calls, good) ==
    FlattenSeq([k \in DOMAIN calls |-> IF calls[k] \in good THEN <<calls[k]>> ELSE <<>>])
Named == {c \in Callers : c.named}

----------------------------------------------------------------------------
(* trae, resolveToolPairing: toolResultIDs and assistantCallIDs.           *)
AnsweredIds(h) == {h[i].answers : i \in DOMAIN h} \ {NoCall, Idless}
CallIds(m) == {c.id : c \in ToSet(m.calls)} \ {Idless}

(* A batch is kept whole when all of it is answered.                       *)
KeptCalls(h) ==
    UNION {CallIds(h[i]) : i \in {j \in DOMAIN h : h[j].role = "assistant"
                                                   /\ CallIds(h[j]) \subseteq AnsweredIds(h)}}

(* SerializeMessages. An answer may stand in a user's message with words.  *)
SerializeAssistant(m, kept) ==
    LET calls == Only(m.calls, {c \in Named : c.id = Idless \/ c.id \in kept})
    IN <<[m EXCEPT !.calls = calls, !.thoughts = FALSE,
                   !.words = @ \/ (m.thoughts /\ calls = <<>>)]>>
SerializeAnswer(m, kept) ==
    IF m.answers = Idless \/ m.answers \in kept
    THEN <<[m EXCEPT !.role = "tool", !.words = TRUE]>> ELSE <<>>
SerializeUser(m, kept) ==
    IF m.answers = NoCall THEN <<m>>
    ELSE (IF m.words THEN <<[m EXCEPT !.answers = NoCall]>> ELSE <<>>)
         \o SerializeAnswer(m, kept)
Serialized(m, kept) ==
    CASE m.role = "assistant" -> SerializeAssistant(m, kept)
      [] m.role \in {"system", "developer"} -> <<[m EXCEPT !.role = "system"]>>
      [] m.role = "tool" -> SerializeAnswer(m, kept)
      [] m.role = "user" -> SerializeUser(m, kept)
SerializeMessages(h) == FlattenSeq([i \in DOMAIN h |-> Serialized(h[i], KeptCalls(h))])

(* Slip: a message is dropped without the answers after it.                *)
RoundStartsNever(m) == FALSE

RoundStarts(m) == m.calls # <<>>

(* TrimTraeHistory: whole rounds go, from the oldest, till the rest fits.  *)
(* After each message: what is left, whether its answers go, and it.       *)
Looked(s, m, max) ==
    CASE s.round /\ m.role = "tool" -> [size |-> s.size - 1, round |-> TRUE, drops |-> TRUE]
      [] m.role = "system" -> [size |-> s.size, round |-> FALSE, drops |-> FALSE]
      [] m.role # "system" /\ ~(s.round /\ m.role = "tool") ->
           IF s.size > max
           THEN [size |-> s.size - 1, round |-> RoundStarts(m), drops |-> TRUE]
           ELSE [size |-> s.size, round |-> FALSE, drops |-> FALSE]
TrimTraeHistory(h, max) ==
    LET s[n \in 0..Len(h)] ==
          IF n = 0 THEN [size |-> Len(h), round |-> FALSE, drops |-> FALSE]
          ELSE Looked(s[n - 1], h[n], max)
    IN IF max = 0 THEN h
       ELSE FlattenSeq([i \in DOMAIN h |-> IF s[i].drops THEN <<>> ELSE <<h[i]>>])

(* TransformToSOLOBody, for the messages.                                  *)
TransformSOLO(h) == [i \in DOMAIN h |-> [h[i] EXCEPT !.calls = Only(@, Named)]]

TraeTranslate(h) == TransformSOLO(SerializeMessages(h))
TraePrepare(h) == TransformSOLO(TrimTraeHistory(SerializeMessages(h), allowance))

----------------------------------------------------------------------------
(* raccoon, normaliseMessages: each call for itself. An assistant's message *)
(* of which nothing is left is dropped.                                     *)
NamedIds(h) ==
    (UNION {{c.id : c \in {d \in ToSet(h[i].calls) : d.named}} : i \in DOMAIN h}) \ {Idless}

(* Slip: thoughts are nothing.                                              *)
KeepsTurnOfWords(m, calls) == m.words \/ calls # <<>>

KeepsTurn(m, calls) == m.words \/ calls # <<>> \/ m.thoughts

NormaliseAssistant(m, answered) ==
    LET calls == Only(m.calls, {c \in Named : c.id # Idless /\ c.id \in answered})
    IN IF KeepsTurn(m, calls) THEN <<[m EXCEPT !.calls = calls]>> ELSE <<>>
Normalised(m, answered, named) ==
    CASE m.role = "assistant" -> NormaliseAssistant(m, answered)
      [] m.role = "tool" -> IF m.answers \in named THEN <<m>> ELSE <<>>
      [] m.role = "developer" -> <<[m EXCEPT !.role = "system"]>>
      [] m.role \in {"system", "user"} -> <<m>>
NormaliseMessages(h) ==
    FlattenSeq([i \in DOMAIN h |-> Normalised(h[i], AnsweredIds(h), NamedIds(h))])

----------------------------------------------------------------------------
(* codebuddy, resolveToolPairing: the calls with a name are a batch. A call *)
(* without an id is never answered.                                         *)
UsableCalls(m) == Only(m.calls, Named)
UsableIds(m) == {c.id : c \in ToSet(UsableCalls(m))}
BuddyKept(h) ==
    UNION {UsableIds(h[i]) : i \in {j \in DOMAIN h : UsableIds(h[j]) \subseteq AnsweredIds(h)}}

(* normalizeMessages, with normalizeAssistantMessage and splitToolContent:  *)
(* the images of answers follow in a message of their own, when the run of  *)
(* answers is over.                                                         *)
NormalizeAssistant(m, kept) ==
    [m EXCEPT !.calls = Only(@, {c \in Named : c.id \in kept})]
ImagesOfAnswers == [role |-> "user", words |-> TRUE, thoughts |-> FALSE, calls |-> <<>>,
                    answers |-> NoCall, image |-> TRUE, at |-> 0]
Flushed(images) == IF images THEN <<ImagesOfAnswers>> ELSE <<>>
Normalized(m, kept, images) ==
    CASE m.role = "tool" -> IF m.answers \in kept
                            THEN <<[m EXCEPT !.words = TRUE, !.image = FALSE]>> ELSE <<>>
      [] m.role = "assistant" -> Flushed(images) \o <<NormalizeAssistant(m, kept)>>
      [] m.role \in {"system", "developer"} ->
           Flushed(images) \o <<[m EXCEPT !.role = "system"]>>
      [] m.role = "user" -> Flushed(images) \o <<m>>

NormalizeMessages(h) ==
    LET kept == BuddyKept(h)
        images[n \in 0..Len(h)] ==     \* of the answers just before the next message
          n > 0 /\ h[n].role = "tool" /\ (images[n - 1] \/ (h[n].answers \in kept /\ h[n].image))
    IN FlattenSeq([i \in DOMAIN h |-> Normalized(h[i], kept, images[i - 1])])
       \o Flushed(images[Len(h)])

----------------------------------------------------------------------------
(* cline, loomy, lobsterai and codearts: a developer is the system, and the *)
(* rest is forwarded.                                                       *)
Demoted(m) == IF m.role = "developer" THEN [m EXCEPT !.role = "system"] ELSE m
ClineMessages(h) == [i \in DOMAIN h |-> Demoted(h[i])]
LoomyMessages(h) == [i \in DOMAIN h |-> Demoted(h[i])]
DemoteDeveloperMessages(h) == [i \in DOMAIN h |-> Demoted(h[i])]

(* codearts, insertDsmlSystemPrompt: behind the first word of the system.   *)
DsmlPrompt == [role |-> "system", words |-> TRUE, thoughts |-> FALSE, calls |-> <<>>,
               answers |-> NoCall, image |-> FALSE, at |-> 0]
InsertDsmlPrompt(h) ==
    LET systems == {i \in DOMAIN h : h[i].role = "system"}
        behind == IF systems = {} THEN 0
                  ELSE CHOOSE i \in systems : \A j \in systems : i <= j
    IN InsertAt(h, behind + 1, DsmlPrompt)
CodeArtsMessages(h) ==
    LET demoted == [i \in DOMAIN h |-> Demoted(h[i])]
    IN IF tooled THEN InsertDsmlPrompt(demoted) ELSE demoted

(* qoder, inferAskFromRequest: the words of the system go to a field of     *)
(* their own, before the history, and of the history only the words.        *)
SystemField(m) ==
    IF m.role \in {"system", "developer"} /\ m.words
    THEN <<[m EXCEPT !.role = "system"]>> ELSE <<>>
Asked(m) ==
    IF m.role \in {"system", "developer"} THEN <<>>
    ELSE <<[m EXCEPT !.calls = <<>>, !.thoughts = FALSE, !.answers = NoCall, !.image = FALSE]>>
InferAsk(h) == FlattenSeq([i \in DOMAIN h |-> SystemField(h[i])])
               \o FlattenSeq([i \in DOMAIN h |-> Asked(h[i])])

(* atomcode, prepareGatewayCall: as it is.                                  *)
GatewayMessages(h) == h

----------------------------------------------------------------------------
(* request.translate of trae and raccoon; the others' is the identity. Does *)
(* the host call it? The executor does not rely on it.                      *)
Translate ==
    /\ turn = Unsent /\ ~translated
    /\ sender \in {"trae", "raccoon"}
    /\ history' = IF sender = "trae" THEN TraeTranslate(history) ELSE NormaliseMessages(history)
    /\ translated' = TRUE
    /\ UNCHANGED <<sender, asked, allowance, tooled, turn>>

(* The plugins that refuse a request without messages.                      *)
RefusesEmpty == {"cline", "codearts", "codebuddy", "lobsterai", "atomcode", "trae"}

Prepared(h) ==
    CASE sender = "trae" -> TraePrepare(h)
      [] sender = "raccoon" -> NormaliseMessages(h)
      [] sender = "codebuddy" -> NormalizeMessages(h)
      [] sender = "cline" -> ClineMessages(h)
      [] sender = "loomy" -> LoomyMessages(h)
      [] sender = "lobsterai" -> DemoteDeveloperMessages(h)
      [] sender = "codearts" -> CodeArtsMessages(h)
      [] sender = "qoder" -> InferAsk(h)
      [] sender = "atomcode" -> GatewayMessages(h)

Send ==
    /\ turn = Unsent
    /\ turn' = IF history = <<>> /\ sender \in RefusesEmpty
               THEN [outcome |-> "refused", messages |-> <<>>]
               ELSE [outcome |-> "sent", messages |-> Prepared(history)]
    /\ UNCHANGED <<sender, asked, history, translated, allowance, tooled>>

HistoriesNext == Translate \/ Send
HistoriesSpec == HistoriesInit /\ [][HistoriesNext]_historiesVars

----------------------------------------------------------------------------
(* The types of the variables.                                              *)
HistoriesTypeOK ==
    /\ sender \in Senders /\ translated \in BOOLEAN /\ tooled \in BOOLEAN
    /\ allowance \in Allowances
    /\ turn.outcome \in {"none", "sent", "refused"}
    /\ \A h \in {asked, history, turn.messages} :
          h \in Seq(Messages) /\ \A i \in DOMAIN h : h[i].at <= Len(asked)

Sent == turn.messages
Pairing == {"trae", "raccoon", "codebuddy"}

(* The answer at i stands with its call, which has a name: between them are *)
(* only answers.                                                            *)
Stands(h, i) ==
    \E j \in 1..(i - 1) :
        /\ [id |-> h[i].answers, named |-> TRUE] \in ToSet(h[j].calls)
        /\ \A k \in (j + 1)..(i - 1) : h[k].role = "tool"

(* What trae sends of calls without a name is described in the README.      *)
AllNamed == \A i \in DOMAIN asked : \A c \in ToSet(asked[i].calls) : c.named

SentCalls == UNION {CallIds(Sent[i]) : i \in DOMAIN Sent}

(* Three plugins promise that orphans are dropped before the request is     *)
(* sent (raccoon/chat.go:23, codebuddy/executor.go:107, trae/translate.go:  *)
(* 376): with an id, no call is sent without an answer, no answer without a *)
(* call, no call without a name; a batch in order is sent whole.            *)
PairsAreWhole ==
    /\ sender \in Pairing /\ allowance = 0 /\ (sender = "trae" => AllNamed) =>
         SentCalls = AnsweredIds(Sent)
    /\ sender \in Pairing => \A i \in DOMAIN Sent : \A c \in ToSet(Sent[i].calls) : c.named
    /\ sender \in Pairing /\ allowance = 0 /\ turn.outcome = "sent" =>
         \A i \in DOMAIN asked :
             LET calls == asked[i].calls IN
             /\ calls # <<>>
             /\ \A c \in ToSet(calls) : c.named /\ c.id \in AnsweredIds(asked)
             => \E j \in DOMAIN Sent : Sent[j].at = i /\ Sent[j].calls = calls

(* An answer that stood with its call when the client asked still does, in  *)
(* what every plugin sends: nothing is put between them, and trae's trim    *)
(* takes both.                                                              *)
AnswersStand ==
    \A i \in DOMAIN Sent :
        /\ Sent[i].role = "tool" /\ Sent[i].at # 0 /\ Sent[i].answers \notin {NoCall, Idless}
        /\ asked[Sent[i].at].role = "tool" /\ Stands(asked, Sent[i].at)
        => Stands(Sent, i)

(* Both: no request is refused for its calls and answers.                   *)
PairsAreSent == PairsAreWhole /\ AnswersStand

Outspoken(m) == m.role # "tool" /\ (m.words \/ (m.role = "assistant" /\ m.thoughts))
SentAt(i) == {j \in DOMAIN Sent : Sent[j].at = i}

(* Whatever is done about calls, nobody's words are lost, doubled or put in *)
(* another order, and it does not matter whether the host has translated    *)
(* before. Only trae's trim drops words: never the system's, and never any  *)
(* while older ones are kept.                                               *)
WordsAreSent ==
    turn.outcome = "sent" =>
        /\ \A i, j \in DOMAIN Sent :
              i < j /\ Sent[i].at # 0 /\ Sent[j].at # 0
              /\ (sender = "qoder" => Sent[i].role # "system") =>
                  \/ Sent[i].at < Sent[j].at
                  \/ Sent[i].at = Sent[j].at /\ Sent[j].role = "tool"
                     /\ asked[Sent[i].at].role = "user"
        /\ \A i \in DOMAIN asked : Outspoken(asked[i]) /\ SentAt(i) = {}
              /\ ~(sender = "qoder" /\ ~asked[i].words) =>
                  /\ allowance # 0 /\ asked[i].role \notin {"system", "developer"}
                  /\ \A j \in DOMAIN Sent : Sent[j].at < i => Sent[j].role = "system"
        /\ sender = "raccoon" => Sent = NormaliseMessages(asked)
        /\ sender = "trae" /\ AllNamed => Sent = TrimTraeHistory(TraeTranslate(asked), allowance)

(* trae/translate.go:917: "never split a tool_call / tool pair".            *)
TrimKeepsPairs ==
    sender = "trae" /\ AllNamed => SentCalls = AnsweredIds(Sent)
=============================================================================
