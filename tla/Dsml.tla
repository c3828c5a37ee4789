-------------------------------- MODULE Dsml --------------------------------
(***************************************************************************)
(* The tool calls deepseek-v4 writes into its text (codearts). The parser  *)
(* gets the text in deltas that may be cut anywhere, takes <thought>       *)
(* blocks and call blocks out, and holds back what may yet become a tag.   *)
(*                                                                         *)
(* A text is a sequence of letters. A tag is a short word that has with    *)
(* the others the prefixes the real ones have in common; an invoke within  *)
(* a block is one letter, named by what the model wrote there.             *)
(***************************************************************************)
EXTENDS Integers, SequencesExt

CONSTANTS
    Written,    \* the texts a model has written
    Cuts        \* the lengths of deltas, besides the rest of the text

ASSUME TextAssumption ==
    /\ Written \subseteq Seq(STRING)
    /\ Cuts \subseteq Nat \ {0}

ThoughtOpen  == <<"<", "t", ">">>
ThoughtClose == <<"<", "/", "t", ">">>
CallsOpen    == <<"<", "d", ">">>
CallsClose   == <<"<", "/", "d", ">">>

(* Invokes with one parameter: a number, the same tagged as a string, a    *)
(* quoted number, a text; one without a name; one without its closing tag. *)
Tagged == {"tagged", "text"}
Closed == {"number", "tagged", "quoted", "text"}
Nameless == "nameless"
Unclosed == "unclosed"

VARIABLES
    text,       \* the content of all deltas
    fed,        \* how many letters of it the parser has been fed
    parser,     \* DsmlStreamParser, and what it has given out
    finish      \* finish_reason of the last choice

dsmlVars == <<text, fed, parser, finish>>

DsmlInit ==
    /\ text \in Written
    /\ fed = 0
    /\ parser = [buf |-> <<>>, mode |-> "normal", visible |-> <<>>, reasoning |-> <<>>,
                 calls |-> <<>>]
    /\ finish \in {"stop", "length"}

----------------------------------------------------------------------------
(* Where a word begins in a text first, or 0.                              *)
Starts(t, word) ==
    LET I == {i \in 1..Len(t) : IsPrefix(word, SubSeq(t, i, Len(t)))}
    IN IF I = {} THEN 0 ELSE CHOOSE i \in I : \A j \in I : i <= j

After(t, n) == SubSeq(t, n + 1, Len(t))

(* longestOpenPrefixTail                                                   *)

(* Slip: one letter is held back at most.                                  *)
HeldBackShort(t, tags) ==
    LET lengths == {n \in 1..Len(t) : \E tag \in tags : IsPrefix(After(t, Len(t) - n), tag)}
    IN IF lengths = {} THEN 0 ELSE 1

HeldBack(t, tags) ==
    LET lengths == {n \in 1..Len(t) : \E tag \in tags : IsPrefix(After(t, Len(t) - n), tag)}
    IN IF lengths = {} THEN 0 ELSE CHOOSE n \in lengths : \A m \in lengths : m <= n

(* tryParseScalar and pickParamValue: the JSON type a parameter gets.      *)
TryParseScalar(invoke) == IF invoke = "text" THEN "string" ELSE "number"

(* Slip: what is tagged as a string is one.                                *)
PickParamValueTrusting(invoke) == IF invoke \in Tagged THEN "string" ELSE "number"

PickParamValue(invoke) ==
    IF invoke \in Tagged \/ invoke = "quoted" THEN TryParseScalar(invoke) ELSE "number"

(* parseDsmlToolCalls: an invoke that is not closed runs on to the next    *)
(* closing tag, and is dropped when there is none.                         *)
Parsed(b, letter) ==
    CASE letter = Unclosed -> [b EXCEPT !.open = TRUE]
      [] letter = Nameless /\ ~b.open -> [b EXCEPT !.ok = FALSE]
      [] letter = Nameless /\ b.open ->
           [b EXCEPT !.open = FALSE, !.values = Append(@, "none")]
      [] letter \in Closed ->
           [b EXCEPT !.open = FALSE, !.values = Append(@, PickParamValue(letter))]
      [] OTHER -> b

ParsedBlock(inner) ==
    LET b[n \in 0..Len(inner)] ==
          IF n = 0 THEN [open |-> FALSE, ok |-> TRUE, values |-> <<>>]
          ELSE Parsed(b[n - 1], inner[n])
    IN b[Len(inner)]

CallsFrom(first, values) ==
    [k \in DOMAIN values |-> [index |-> first + k - 1, value |-> values[k]]]

(* Slip: the calls of each block are counted from 0.                       *)
BlockCallsAnew(values, first) == CallsFrom(0, values)

BlockCalls(values, first) == CallsFrom(first, values)

(* containsDsmlMarker *)
HasMarker == Starts(text, CallsOpen) # 0 \/ Starts(text, ThoughtOpen) # 0

----------------------------------------------------------------------------
(* Feed, one round of its loop, and all of them.                           *)

Blocked(p) ==
    CASE p.mode = "normal" ->
           Starts(p.buf, ThoughtOpen) = 0 /\ Starts(p.buf, CallsOpen) = 0
      [] p.mode = "thought" -> Starts(p.buf, ThoughtClose) = 0
      [] p.mode = "calls" -> Starts(p.buf, CallsClose) = 0

Opened(p) ==
    LET t == Starts(p.buf, ThoughtOpen)
        d == Starts(p.buf, CallsOpen)
        thought == t # 0 /\ (d = 0 \/ t < d)
        at == IF thought THEN t ELSE d
    IN [p EXCEPT !.mode = IF thought THEN "thought" ELSE "calls",
                 !.visible = @ \o SubSeq(p.buf, 1, at - 1),
                 !.buf = After(@, at - 1 + Len(IF thought THEN ThoughtOpen ELSE CallsOpen))]

ThoughtEnded(p) ==
    LET at == Starts(p.buf, ThoughtClose)
    IN [p EXCEPT !.mode = "normal",
                 !.reasoning = @ \o SubSeq(p.buf, 1, at - 1),
                 !.buf = After(@, at - 1 + Len(ThoughtClose))]

BlockEnded(p) ==
    LET at == Starts(p.buf, CallsClose)
        inner == SubSeq(p.buf, 1, at - 1)
        block == ParsedBlock(inner)
        done == [p EXCEPT !.mode = "normal", !.buf = After(@, at - 1 + Len(CallsClose))]
    IN IF block.ok THEN [done EXCEPT !.calls = @ \o BlockCalls(block.values, Len(@))]
                   ELSE [done EXCEPT !.visible = @ \o inner \o CallsClose]

(* What cannot become a tag any more is given out.                         *)
Released(p) ==
    LET tags == IF p.mode = "normal" THEN {ThoughtOpen, CallsOpen} ELSE {ThoughtClose}
        cut == Len(p.buf) - HeldBack(p.buf, tags)
        given == SubSeq(p.buf, 1, cut)
    IN CASE p.mode = "normal" -> [p EXCEPT !.visible = @ \o given, !.buf = After(@, cut)]
         [] p.mode = "thought" -> [p EXCEPT !.reasoning = @ \o given, !.buf = After(@, cut)]
         [] p.mode = "calls" -> p

Round(p) ==
    CASE Blocked(p) -> p
      [] ~Blocked(p) /\ p.mode = "normal" -> Opened(p)
      [] ~Blocked(p) /\ p.mode = "thought" -> ThoughtEnded(p)
      [] ~Blocked(p) /\ p.mode = "calls" -> BlockEnded(p)

(* Each round takes a tag, so that there are no more than letters.         *)
Rounds(p) ==
    LET r[i \in 0..Len(p.buf)] == IF i = 0 THEN p ELSE Round(r[i - 1])
    IN Released(r[Len(p.buf)])

Feed(n) ==
    /\ HasMarker /\ parser.mode # "flushed"
    /\ n > 0 /\ fed + n <= Len(text)
    /\ fed' = fed + n
    /\ parser' = Rounds([parser EXCEPT !.buf = @ \o SubSeq(text, fed + 1, fed + n)])
    /\ UNCHANGED <<text, finish>>

(* Flush, and the finish_reason of a text that made calls.                 *)
Flush ==
    /\ HasMarker /\ fed = Len(text) /\ parser.mode # "flushed"
    /\ parser' = [parser EXCEPT
          !.mode = "flushed", !.buf = <<>>,
          !.visible = @ \o CASE parser.mode = "normal" -> parser.buf
                             [] parser.mode = "calls" -> CallsOpen \o parser.buf
                             [] parser.mode = "thought" -> <<>>,
          !.reasoning = IF parser.mode = "thought" THEN @ \o parser.buf ELSE @]
    /\ finish' = IF parser.calls # <<>> /\ finish = "stop" THEN "tool_calls" ELSE finish
    /\ UNCHANGED <<text, fed>>

(* A text without a tag is passed on untouched.                            *)
PassOn ==
    /\ ~HasMarker /\ parser.mode # "flushed"
    /\ fed' = Len(text)
    /\ parser' = [parser EXCEPT !.mode = "flushed", !.visible = text]
    /\ UNCHANGED <<text, finish>>

DsmlNext == Flush \/ PassOn \/ \E n \in Cuts \union {Len(text) - fed} : Feed(n)
DsmlSpec == DsmlInit /\ [][DsmlNext]_dsmlVars

----------------------------------------------------------------------------
(* The types of the variables; the calls are numbered as they were made,   *)
(* through all blocks, which is how a client tells them apart.             *)
DsmlTypeOK ==
    /\ fed \in 0..Len(text)
    /\ parser.mode \in {"normal", "thought", "calls", "flushed"}
    /\ Len(parser.buf) <= fed
    /\ finish \in {"stop", "length", "tool_calls"}
    /\ \A k \in DOMAIN parser.calls : parser.calls[k].index = k - 1

(* What a text means, read from its beginning and all at once: m[n] is     *)
(* what its last n letters mean.                                           *)
Means(visible, reasoning, values) ==
    [visible |-> visible, reasoning |-> reasoning, values |-> values]
Then(m, later) ==
    Means(m.visible \o later.visible, m.reasoning \o later.reasoning, m.values \o later.values)

ThoughtMeans(t, m) ==
    LET end == Starts(t, ThoughtClose) IN
    IF end = 0 THEN Means(<<>>, t, <<>>)
    ELSE Then(Means(<<>>, SubSeq(t, 1, end - 1), <<>>), m[Len(t) - (end + 3)])

BlockMeans(t, m) ==
    LET end == Starts(t, CallsClose)
        inner == SubSeq(t, 1, end - 1)
        block == ParsedBlock(inner)
    IN IF end = 0 THEN Means(CallsOpen \o t, <<>>, <<>>)
       ELSE Then(IF block.ok THEN Means(<<>>, <<>>, block.values)
                 ELSE Means(inner \o CallsClose, <<>>, <<>>),
                 m[Len(t) - (end + 3)])

TextMeans(t, m) ==
    LET thought == Starts(t, ThoughtOpen)
        block == Starts(t, CallsOpen)
        isThought == thought # 0 /\ (block = 0 \/ thought < block)
        at == IF isThought THEN thought ELSE block
    IN IF at = 0 THEN Means(t, <<>>, <<>>)
       ELSE Then(Means(SubSeq(t, 1, at - 1), <<>>, <<>>),
                 IF isThought THEN ThoughtMeans(After(t, at + 2), m)
                 ELSE BlockMeans(After(t, at + 2), m))

Meaning(t) ==
    LET m[n \in 0..Len(t)] == TextMeans(After(t, Len(t) - n), m)
    IN m[Len(t)]

(* Wherever the deltas are cut, the client gets what the whole text means: *)
(* no tag shows, no letter is lost or doubled, and the reason the stream   *)
(* ends with is "tool_calls" for whoever has calls to make.                *)
CutsDoNotShow ==
    parser.mode = "flushed" =>
        LET m == Meaning(text)
        IN /\ parser.visible = m.visible
           /\ parser.reasoning = m.reasoning
           /\ parser.calls = CallsFrom(0, m.values)
           /\ parser.calls # <<>> => finish \in {"tool_calls", "length"}

(* A number reaches the tool as a number, however it was tagged.           *)
NumbersAreNumbers ==
    (\E k \in DOMAIN parser.calls : parser.calls[k].value = "string")
        => \E k \in DOMAIN text : text[k] = "text"

(* Both, for every way to cut a text into deltas.                          *)
TextIsRead == CutsDoNotShow /\ NumbersAreNumbers

(* dsml.go:225: "Malformed block: release it as plain text rather than     *)
(* swallowing content the user would otherwise never see".                 *)
MalformedIsShown ==
    \A invoke \in {Nameless, Unclosed} :
        parser.mode = "flushed" /\ text = CallsOpen \o <<invoke>> \o CallsClose
            => parser.visible = text
=============================================================================
