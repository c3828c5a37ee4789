------------------------------ MODULE Streams ------------------------------
(***************************************************************************)
(* What a provider plugin makes of the event stream a chat is answered     *)
(* with.  Every plugin reads it twice over: handleExecutorExecuteStream    *)
(* passes chunks on, which the client folds, and handleExecutorExecute     *)
(* folds them itself into one completion.  Frames arrive one by one; the   *)
(* vendor may fail in the middle, say [DONE], or just be gone, and then    *)
(* the last line may lack its newline.                                     *)
(*                                                                         *)
(* A frame carries a piece of text, a fragment of a tool call, a finish    *)
(* reason, an error, [DONE], or nothing that parses.  Fragments name the   *)
(* index of their call.  Arguments are the pieces of a JSON object.        *)
(***************************************************************************)
EXTENDS Naturals, SequencesExt, FiniteSetsExt

CONSTANTS
    Sources,    \* the plugins looked at
    Frames,     \* what a vendor may send
    MaxFrames   \* bound: frames of one stream

ASSUME SourcesAssumption ==
    Sources \subseteq {"codearts", "cline", "qoder", "raccoon", "lobsterai", "codebuddy",
                       "loomy", "trae"}
ASSUME FramesAssumption ==
    /\ MaxFrames \in Nat
    /\ Frames \subseteq [what : {"text", "call", "finish", "error", "done", "junk"}, index : Nat,
                         id : STRING, name : STRING, args : Seq(STRING), reason : STRING]

NoId == ""
NoName == ""
Placeholder(index) == "call_" \o ToString(index)    \* fallbackToolCallID

Frame(what) ==
    [what |-> what, index |-> 0, id |-> NoId, name |-> NoName, args |-> <<>>, reason |-> ""]
Text == Frame("text")
Junk == Frame("junk")
Error == Frame("error")
Done == Frame("done")
Finish(reason) == [Frame("finish") EXCEPT !.reason = reason]
Fragment(index, id, name, args) ==
    [Frame("call") EXCEPT !.index = index, !.id = id, !.name = name, !.args = args]

(* Arguments that came whole, in two halves, or were made up.              *)
Object == {<<"{}">>, <<"{", "}">>}
Truncated(args) == args # <<>> /\ args \notin Object
OrEmptyObject(args) == IF args = <<>> THEN <<"{}">> ELSE args

VARIABLES
    source,     \* whose stream it is
    read,       \* what both handlers have gathered from the frames so far
    before,     \* the same, one line earlier
    out,        \* the chunks the streaming handler has so far
    body        \* "open", or how it ended

streamVars == <<source, read, before, out, body>>

NothingRead == [text |-> 0, calls |-> <<>>, reason |-> "", done |-> FALSE, failed |-> FALSE,
                junk |-> FALSE, lines |-> 0, chunks |-> 0]

StreamInit ==
    /\ source \in Sources
    /\ read = NothingRead
    /\ before = NothingRead
    /\ out = <<>>
    /\ body = "open"

----------------------------------------------------------------------------
(* The loops over the frames: what each gathers.                           *)

Known(calls, index) == \E k \in DOMAIN calls : calls[k].index = index
Position(calls, index) == CHOOSE k \in DOMAIN calls : calls[k].index = index

(* A slip: a later fragment without a name takes the name away.            *)
MergedNamed(call, f) ==
    [call EXCEPT !.id = IF f.id # NoId THEN f.id ELSE @, !.name = f.name,
                 !.args = @ \o f.args]

Merged(call, f) ==
    [call EXCEPT !.id = IF f.id # NoId THEN f.id ELSE @,
                 !.name = IF f.name # NoName THEN f.name ELSE @,
                 !.args = @ \o f.args]

(* Calls in the order of their first fragment. loomy does not begin a call *)
(* with a fragment that has no name; trae takes every one for a call.      *)
Gathered(calls, f) ==
    LET call == [index |-> f.index, id |-> f.id, name |-> f.name, args |-> f.args] IN
    IF source # "trae" /\ Known(calls, f.index)
        THEN [calls EXCEPT ![Position(calls, f.index)] = Merged(@, f)]
    ELSE IF source = "loomy" /\ f.name = NoName THEN calls
    ELSE Append(calls, call)

Chunk(f) == f.what \in {"text", "call", "finish"}

Absorbed(r, f) ==
    [r EXCEPT !.lines = @ + 1,
              !.chunks = IF Chunk(f) THEN @ + 1 ELSE @,
              !.text = IF f.what = "text" THEN @ + 1 ELSE @,
              !.calls = IF f.what = "call" THEN Gathered(@, f) ELSE @,
              !.reason = IF f.what = "finish" THEN f.reason ELSE @,
              !.done = @ \/ f.what = "done",
              !.failed = @ \/ f.what = "error",
              !.junk = @ \/ f.what = "junk"]

(* absorbToolCall of raccoon: nothing until the call has a name, then what *)
(* was gathered in one delta, then the pieces as they come.                *)
RaccoonDelta(f) ==
    LET calls == Gathered(read.calls, f)
        call == calls[Position(calls, f.index)]
        named == /\ Known(read.calls, f.index)
                 /\ read.calls[Position(read.calls, f.index)].name # NoName
    IN IF call.name = NoName \/ (named /\ f.args = <<>>) THEN <<>>
       ELSE <<Fragment(f.index, call.id, call.name, IF named THEN f.args ELSE call.args)>>

(* The chunks a frame is passed on as. raccoon and trae close the stream   *)
(* with a finish reason of their own.                                      *)
PassedOn(f) ==
    CASE f.what \in {"error", "done"} -> <<>>
      [] f.what = "junk" ->
            IF source \in {"cline", "raccoon", "trae"} THEN <<>> ELSE <<f>>
      [] f.what = "finish" -> IF source \in {"raccoon", "trae"} THEN <<>> ELSE <<f>>
      [] f.what = "call" /\ source = "raccoon" -> RaccoonDelta(f)
      [] f.what = "call" /\ source = "trae" -> IF f.name = NoName THEN <<>> ELSE <<f>>
      [] OTHER -> <<f>>

Take(f) ==
    /\ read' = Absorbed(read, f)
    /\ out' = out \o PassedOn(f)
    /\ before' = read

(* An error ends both loops, and so, in all plugins but raccoon and trae,  *)
(* does [DONE]; no vendor sends anything after it.                         *)
Feed ==
    /\ body = "open" /\ ~read.done /\ ~read.failed /\ read.lines < MaxFrames
    /\ \E f \in Frames : Take(f)
    /\ UNCHANGED <<source, body>>

End ==
    /\ body = "open"
    /\ body' = "ended"
    /\ UNCHANGED <<source, read, before, out>>

(* The last line has no newline: it is read by whoever splits the body     *)
(* himself or looks for a trailing line, and dropped by sse.Scanner.       *)
ReadsTheRest ==
    \/ source \in {"cline", "raccoon", "trae"}
    \/ source = "loomy" /\ read.lines > 0

Break ==
    /\ body = "open" /\ ~read.done /\ ~read.failed /\ read.lines < MaxFrames
    /\ \E f \in Frames : IF ReadsTheRest THEN Take(f) ELSE UNCHANGED <<read, before, out>>
    /\ body' = "broken"
    /\ UNCHANGED source

StreamNext == Feed \/ End \/ Break

StreamSpec == StreamInit /\ [][StreamNext]_streamVars

----------------------------------------------------------------------------
(* How the stream is said to have finished.                                *)

Named(r) == {k \in DOMAIN r.calls : r.calls[k].name # NoName}
(* A slip: only the first call is looked at.                               *)
SomeCutFirst(r, positions) == 1 \in positions /\ Truncated(r.calls[1].args)

SomeCut(r, positions) == \E k \in positions : Truncated(r.calls[k].args)

(* A slip: without [DONE] a stream without a reason is complete.           *)
ClineReasonTrusting(r) == IF r.reason # "" THEN r.reason ELSE "stop"

(* resolveFinishReason of cline, and of raccoon with the first rules in    *)
(* another order.                                                          *)
ClineReason(r) ==
    IF \/ SomeCut(r, Named(r)) \/ r.reason = "length"
       \/ r.reason = "" /\ (Named(r) # {} \/ ~r.done)
       \/ Named(r) # DOMAIN r.calls /\ Named(r) = {}
    THEN "length"
    ELSE IF r.reason = "tool_calls" \/ Named(r) # {} THEN "tool_calls" ELSE "stop"

LobsterAIReason(r) ==
    IF r.reason = "length" \/ (r.reason = "" /\ r.calls # <<>>) \/ SomeCut(r, DOMAIN r.calls)
    THEN "length"
    ELSE IF r.reason # "" THEN r.reason ELSE "stop"

CodeBuddyReason(r) ==
    IF r.reason # "" THEN r.reason ELSE IF r.calls # <<>> THEN "tool_calls" ELSE "stop"

(* dropped: an unnamed fragment was left out (loomy).                      *)
LoomyReason(r, dropped) ==
    IF dropped /\ r.calls = <<>> THEN "length"
    ELSE IF r.reason # "" THEN r.reason
    ELSE IF r.done THEN "stop" ELSE "length"

TraeReason(r) ==
    IF r.reason # "" THEN r.reason
    ELSE IF Named(r) # {} THEN "tool_calls"
    ELSE IF r.calls # <<>> THEN "length" ELSE "stop"

----------------------------------------------------------------------------
(* The answers of the two handlers: a failure, or chunks, or a completion. *)

Empty(r) == r.text = 0 /\ Named(r) = {}

(* The guards against an answer that is none: a body without an event, a   *)
(* stream without a chunk, a finished answer that says nothing.            *)
NoEvents ==
    \/ source = "cline" /\ read.lines = (IF read.done THEN 1 ELSE 0)
    \/ source \in {"raccoon", "loomy"} /\ read.lines = 0
    \/ source = "trae" /\ read.chunks = 0 /\ ~read.done

SaysNothing == source \in {"cline", "raccoon"} /\ ClineReason(read) = "stop" /\ Empty(read)

NoChunks ==
    \/ source = "cline" /\ read.chunks = 0
    \/ source \notin {"cline", "raccoon", "trae"} /\ out = <<>>

StreamFailure ==
    IF read.failed THEN "upstream"
    ELSE IF NoEvents THEN "not_sse"
    ELSE IF SaysNothing THEN "empty_response"
    ELSE IF NoChunks THEN "empty_upstream" ELSE "none"

(* codebuddy trims the body first: its last line has no newline then.      *)
Folded == IF source = "codebuddy" /\ body = "ended" THEN before ELSE read

(* A slip: an error inside the stream is a chunk without choices.          *)
CompletionFailureBlind ==
    IF NoEvents \/ SaysNothing THEN "empty_response" ELSE "none"

CompletionFailure ==
    IF Folded.failed /\ source # "loomy" THEN "upstream"
    ELSE IF NoEvents THEN "not_sse"
    ELSE IF SaysNothing THEN "empty_response"
    ELSE IF source \in {"codearts", "qoder", "codebuddy"} /\ Folded.chunks = 0 THEN "empty_upstream"
    ELSE "none"

(* Did a fragment without a name come first?                               *)
Dropped == \E k \in DOMAIN out :
    /\ out[k].what = "call" /\ out[k].name = NoName
    /\ \A j \in 1..(k - 1) :
         ~(out[j].what = "call" /\ out[j].index = out[k].index /\ out[j].name # NoName)

CompletionReason ==
    CASE source \in {"cline", "raccoon"} -> ClineReason(read)
      [] source = "lobsterai" -> LobsterAIReason(read)
      [] source = "codebuddy" -> CodeBuddyReason(Folded)
      [] source = "loomy" -> LoomyReason(read, Dropped)
      [] source = "trae" -> IF read.reason # "" THEN read.reason ELSE "stop"
      [] OTHER -> read.reason

IdOr(call) == IF call.id = NoId THEN Placeholder(call.index) ELSE call.id

(* The calls of the completion, in whatever order.                         *)
FinalCall(call) ==
    CASE source = "codearts" -> [call EXCEPT !.id = IdOr(call)]
      [] source = "cline" -> [call EXCEPT !.id = IdOr(call), !.args = OrEmptyObject(@)]
      [] source = "lobsterai" -> [call EXCEPT !.id = IdOr(call), !.args = OrEmptyObject(@)]
      [] source = "codebuddy" -> [call EXCEPT !.args = OrEmptyObject(@)]
      [] source = "trae" ->
            [call EXCEPT !.id = IF call.name # NoName THEN IdOr(call) ELSE @,
                         !.args = IF @ \in Object THEN @ ELSE <<"{}">>]
      [] OTHER -> call

CompletionCalls ==
    LET shown == {k \in DOMAIN Folded.calls :
                    source \in {"cline", "raccoon"} => Folded.calls[k].name # NoName}
    IN {FinalCall(Folded.calls[k]) : k \in shown}

IsFragment(f, index) == f.what = "call" /\ f.index = index
FragmentsOf(chunks, index) == {k \in DOMAIN chunks : IsFragment(chunks[k], index)}

(* applyToolCallIDFallback of codearts: an id is remembered for the        *)
(* fragments after it.                                                     *)
FilledIds(chunks) ==
    [k \in DOMAIN chunks |->
        LET known == {j \in FragmentsOf(chunks, chunks[k].index) : j <= k /\ chunks[j].id # NoId}
        IN IF chunks[k].what # "call" THEN chunks[k]
           ELSE [chunks[k] EXCEPT !.id = IF known = {} THEN Placeholder(chunks[k].index)
                                         ELSE chunks[Max(known)].id]]

(* What lobsterai rewrites: ids and empty arguments in every fragment, and *)
(* the reason in the last chunk that has a choice.                         *)
Rewritten(chunks) ==
    LET empty == {read.calls[k].index : k \in {j \in DOMAIN read.calls : read.calls[j].args = <<>>}}
        choices == {k \in DOMAIN chunks : Chunk(chunks[k])}
    IN [k \in DOMAIN chunks |->
            IF k \notin choices THEN chunks[k]
            ELSE [chunks[k] EXCEPT
                    !.id = IF chunks[k].what = "call" /\ @ = NoId
                           THEN Placeholder(chunks[k].index) ELSE @,
                    !.args = IF chunks[k].what = "call" /\ chunks[k].index \in empty
                             THEN <<"{}">> ELSE @,
                    !.reason = IF k = Max(choices) THEN LobsterAIReason(read) ELSE @]]

(* The chunks of the streaming answer. One that does not parse makes       *)
(* codearts leave all of them as they are.                                 *)
Chunks ==
    CASE source = "codearts" -> IF read.junk THEN out ELSE FilledIds(out)
      [] source = "lobsterai" -> Rewritten(out)
      [] source = "raccoon" -> Append(out, Finish(ClineReason(read)))
      [] source = "trae" -> Append(out, Finish(TraeReason(read)))
      [] OTHER -> out

----------------------------------------------------------------------------
(* A client of the streaming answer: fragments are joined by their index.  *)

ClientArgs(index) ==
    FlattenSeq([k \in DOMAIN Chunks |->
        IF IsFragment(Chunks[k], index) THEN Chunks[k].args ELSE <<>>])
ClientNames(index) == {Chunks[k].name : k \in FragmentsOf(Chunks, index)} \ {NoName}
ClientIds(index) == {Chunks[k].id : k \in FragmentsOf(Chunks, index)}
ClientReason ==
    LET told == {k \in DOMAIN Chunks : Chunks[k].reason # ""} IN
    IF told = {} THEN "" ELSE Chunks[Max(told)].reason

Streamed == body # "open" /\ StreamFailure = "none"
Completed == body # "open" /\ CompletionFailure = "none"

----------------------------------------------------------------------------
(* Type correctness; no more is passed on than was read, but for the chunk *)
(* that closes a stream.                                                   *)
StreamTypeOK ==
    /\ source \in Sources /\ body \in {"open", "ended", "broken"}
    /\ read.lines \in 0..MaxFrames /\ read.chunks \in 0..read.lines
    /\ read.text + Len(read.calls) <= read.chunks
    /\ before.lines <= read.lines
    /\ Len(out) <= read.lines

(* The vendor sends the id of a call with its first fragment, or never.    *)
IdsComeFirst ==
    \A k \in DOMAIN out : out[k].what = "call" /\ out[k].id # NoId =>
        out[Min(FragmentsOf(out, out[k].index))].id = out[k].id

(* Both handlers tell the same calls: what a client joins from the chunks  *)
(* is what the completion holds, by name, arguments and id. (Not trae,     *)
(* which does not join fragments, nor codebuddy, which loses a line;       *)
(* lobsterai makes up an id and an empty object for every fragment, and    *)
(* loomy's completion leaves out fragments before the name.)               *)
AnswersAgree ==
    Streamed /\ Completed /\ source \notin {"trae", "codebuddy", "lobsterai"}
        /\ IdsComeFirst /\ ~(source = "loomy" /\ Dropped) =>
    \A call \in CompletionCalls :
        /\ ClientNames(call.index) \ {call.name} = {}
        /\ OrEmptyObject(ClientArgs(call.index)) = OrEmptyObject(call.args)
        /\ ClientIds(call.index) \ {NoId} \subseteq {call.id}

(* "every fragment of the same call has to end up with the same id", says  *)
(* codearts, and lobsterai that an id-less one "gets a stable placeholder".*)
OneIdPerCall ==
    Streamed /\ ~read.junk /\ IdsComeFirst =>
        \A k \in DOMAIN read.calls : Cardinality(ClientIds(read.calls[k].index)) = 1
CodeArtsKeepsIds == source = "codearts" => OneIdPerCall

(* A call is the same call to every client, fragment after fragment.        *)
CallsAreTheSame == AnswersAgree /\ CodeArtsKeepsIds

(* An error inside the stream is a failure of the request, in both         *)
(* handlers, and never an answer.                                          *)
FailuresAreReported ==
    body # "open" /\ read.failed => StreamFailure # "none" /\ CompletionFailure # "none"
MostReportFailures == source \notin {"loomy", "codebuddy"} => FailuresAreReported

(* A stream that was cut, without a reason and without [DONE], is not told *)
(* as a complete answer by the plugins that look for it.                   *)
CutIsTold ==
    ~read.done /\ read.reason = "" =>
        /\ Completed /\ source \in {"cline", "raccoon", "loomy"} => CompletionReason = "length"
        /\ Completed /\ source = "lobsterai" /\ read.calls # <<>> => CompletionReason = "length"
        /\ Streamed /\ source = "raccoon" => ClientReason = "length"

(* A call without a name, which sent back would spoil the conversation, is *)
(* not told to the client by the handlers that look for it: the collecting *)
(* ones of cline, raccoon and loomy, the streaming ones of raccoon and     *)
(* trae. cline's streaming one passes a nameless fragment on, though       *)
(* "no chunk emitted until the name is usable" (adapter.go:714).           *)
CallsAreNamed ==
    /\ Completed /\ source \in {"cline", "raccoon", "loomy"} =>
            \A call \in CompletionCalls : call.name # NoName
    /\ Streamed /\ source \in {"raccoon", "trae"} =>
            \A k \in DOMAIN Chunks : Chunks[k].what = "call" => Chunks[k].name # NoName

(* A client told to make calls was given whole arguments for each of them. *)
CallsToMakeAreWhole ==
    /\ Completed /\ source \in {"cline", "raccoon", "lobsterai"} /\ CompletionReason = "tool_calls"
        => \A call \in CompletionCalls : ~Truncated(call.args)
    /\ Streamed /\ source = "raccoon" /\ ClientReason = "tool_calls"
        => \A k \in DOMAIN read.calls : ~Truncated(ClientArgs(read.calls[k].index))

(* A client is told no call that it cannot make, or should not.             *)
CallsCanBeMade == CallsAreNamed /\ CallsToMakeAreWhole
=============================================================================
