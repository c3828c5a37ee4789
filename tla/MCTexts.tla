------------------------------ MODULE MCTexts ------------------------------
(* Values for the checks of what the plugins read: a behaviour is one of   *)
(* the listings of a vendor's models, the tool calls a model has written   *)
(* into its text, the history a client sends, or a sign-in by the pages.   *)
EXTENDS Discovery, Dsml, Histories, PageLogin, SequencesExt

(* raccoon's refresh and its answers to the host are those of loomy.       *)
NinePlugins == {"atomcode", "cline", "codearts", "codebuddy", "lobsterai", "loomy", "minimax",
                "trae", "zcode"}

(* Letters, the beginning of a tag, the tags, two invokes and a block.     *)
SomePieces ==
    {<<"x">>, <<"<", "d">>, ThoughtOpen, ThoughtClose, CallsOpen, CallsClose,
     <<Nameless>>, <<Unclosed>>, CallsOpen \o <<"tagged">> \o CallsClose}

(* All of up to three; some of four.                                       *)
FewPieces == {<<"x">>, <<"<", "d">>, ThoughtOpen, ThoughtClose, CallsOpen, CallsClose}
SomeTexts == {FlattenSeq(p) : p \in BoundedSeq(SomePieces, 3) \cup BoundedSeq(FewPieces, 4)}

(* The messages of histories.                                              *)
Nothing == [role |-> "user", words |-> FALSE, thoughts |-> FALSE, calls |-> <<>>,
            answers |-> NoCall, image |-> FALSE, at |-> 0]
Says(who) == [Nothing EXCEPT !.role = who, !.words = TRUE]
Calling(calls) == [Nothing EXCEPT !.role = "assistant", !.calls = calls]
Answering(id) == [Nothing EXCEPT !.role = "tool", !.answers = id]
CallA == [id |-> "a", named |-> TRUE]
CallB == [id |-> "b", named |-> TRUE]

SomeMessages ==
    {Says("user"), Says("system"), Says("developer"), Says("assistant"),
     Calling(<<>>), [Calling(<<>>) EXCEPT !.thoughts = TRUE],
     Calling(<<CallA>>), Calling(<<CallA, CallB>>), Calling(<<CallA, [CallB EXCEPT !.named = FALSE]>>),
     Calling(<<[CallA EXCEPT !.id = Idless]>>),
     Answering("a"), Answering("b"), [Answering("a") EXCEPT !.image = TRUE], Answering(Idless),
     [Says("user") EXCEPT !.answers = "a"]}

(* All of up to three, and of the plain ones four.                          *)
PlainMessages == {Says("user"), Says("system"), Calling(<<CallA>>), Calling(<<CallA, CallB>>),
                  Answering("a"), Answering("b"), [Says("user") EXCEPT !.answers = "a"]}
SomeHistories == BoundedSeq(SomeMessages, 3) \cup BoundedSeq(PlainMessages, 4)

NineSenders == {"atomcode", "cline", "codearts", "codebuddy", "lobsterai", "loomy", "qoder",
                "raccoon", "trae"}

BothSites == {"raccoon", "loomy"}
UpToTwoTabs == {{}, {1}, {1, 2}}

VARIABLE part

(* A part that is not looked at stays as it is.                            *)
TextsInit ==
    /\ part \in {"listings", "dsml", "histories", "pages"}
    /\ IF part = "dsml" THEN TRUE ELSE text = <<>> /\ finish = "stop"
    /\ IF part = "histories" THEN TRUE
       ELSE sender = "atomcode" /\ asked = <<>> /\ allowance = 0 /\ tooled = FALSE
    /\ IF part = "pages" THEN TRUE ELSE site = "loomy" /\ tabs = {} /\ tied = TRUE
    /\ DiscoveryInit /\ DsmlInit /\ HistoriesInit /\ PageInit
    /\ part # "listings" => lister = "zcode"

TextsNext ==
    \/ part = "listings" /\ DiscoveryNext /\ UNCHANGED <<part, dsmlVars, historiesVars, pageVars>>
    \/ part = "dsml" /\ DsmlNext /\ UNCHANGED <<part, discoveryVars, historiesVars, pageVars>>
    \/ part = "histories" /\ HistoriesNext /\ UNCHANGED <<part, discoveryVars, dsmlVars, pageVars>>
    \/ part = "pages" /\ PageNext /\ UNCHANGED <<part, discoveryVars, dsmlVars, historiesVars>>

TextsSpec == TextsInit /\ [][TextsNext]_<<part, discoveryVars, dsmlVars, historiesVars, pageVars>>

(* All parts are type correct, see there.                                  *)
TextsTypeOK == DiscoveryTypeOK /\ DsmlTypeOK /\ HistoriesTypeOK /\ PageTypeOK
=============================================================================
