----------------------------- MODULE Discovery -----------------------------
(* How ten plugins keep the listing of a vendor's models: the cache that a *)
(* refresh drops and refills, what model.for_auth answers, and what the    *)
(* host has registered for two accounts. A fetch and what is done with its *)
(* answer are one step: fetches that overlap are CatalogRefresh's subject. *)
(* Discovery is on; switched off, the caches stay empty.                   *)
EXTENDS Integers

CONSTANTS
    Listers,        \* the plugins looked at
    MaxMoves        \* bound on the listings of the vendor

ASSUME ListersAssumption ==
    Listers \subseteq {"atomcode", "cline", "codearts", "codebuddy", "lobsterai", "loomy",
                       "minimax", "raccoon", "trae", "zcode"}
ASSUME MovesAssumption == MaxMoves \in Nat \ {0}

(* The vendor's listings are numbered as it moves; 0 is the builtin table,  *)
(* or the empty list for an account that cannot be read.                    *)
VARIABLES
    lister,         \* the plugin
    extended,       \* does the operator add models of his own (atomcode)?
    products,       \* are the accounts of different products (codebuddy)?
    silent,         \* do the vendor's listings 1 and 2 differ in fields only?
    listed,         \* the vendor's listing
    kept,           \* what is cached, 0 if nothing or nothing usable
    current,        \* what is cached is within its TTL, or is there for good
    pass,           \* the refresh that has dropped the cache and not refilled it
    shown,          \* what the host has registered
    told,           \* the accounts whose file was rewritten, models not asked for yet
    owed,           \* the listing there was when a refresh asked for the account began
    astray          \* has the cache moved past the first account's registry untold?

discoveryVars ==
    <<lister, extended, products, silent, listed, kept, current, pass, shown, told, owed,
      astray>>

plugin == <<lister, extended, products, silent>>

Holders == {"first", "second"}
NoPass == [by |-> "none", holder |-> "first", at |-> 0, before |-> 0]

(* The key of the cache: the account, its plan, its product, or nothing.    *)
Apart == lister \in {"trae", "atomcode"} \/ (lister = "codebuddy" /\ products)
SlotOf(a) == IF Apart THEN a ELSE "first"

DiscoveryInit ==
    /\ lister \in Listers
    /\ extended \in BOOLEAN /\ (extended => lister = "atomcode")
    /\ products \in BOOLEAN /\ (products => lister = "codebuddy")
    /\ silent \in BOOLEAN /\ (silent => lister # "zcode")
    /\ listed = 1
    /\ kept = [a \in Holders |-> 0] /\ current = [a \in Holders |-> FALSE]
    /\ pass = NoPass
    /\ shown = [a \in Holders |-> 0] /\ told = Holders
    /\ owed = [a \in Holders |-> 0]
    /\ astray = FALSE

----------------------------------------------------------------------------
(* The refresh of each plugin: the scheduler and the page that ask for it;  *)
(* is the cache dropped before the account is looked at, is the refill      *)
(* taken from the cache if somebody else was faster, is a failed one undone?*)
Both == {"tick", "button"}
AtomCodeRefresh == [askers |-> Both, early |-> FALSE, shared |-> TRUE, undone |-> FALSE]
ClineRefresh == [askers |-> Both, early |-> TRUE, shared |-> TRUE, undone |-> FALSE]
CodeArtsRefresh == [askers |-> Both, early |-> TRUE, shared |-> FALSE, undone |-> FALSE]
CodeBuddyRefresh == [askers |-> Both, early |-> FALSE, shared |-> TRUE, undone |-> FALSE]
LobsterAIRefresh == [askers |-> Both, early |-> FALSE, shared |-> FALSE, undone |-> FALSE]
LoomyRefresh == [askers |-> Both, early |-> TRUE, shared |-> FALSE, undone |-> FALSE]
MinimaxRefresh == [askers |-> Both, early |-> TRUE, shared |-> FALSE, undone |-> FALSE]
RaccoonRefresh == [askers |-> Both, early |-> TRUE, shared |-> FALSE, undone |-> FALSE]
TraeRefresh == [askers |-> Both, early |-> FALSE, shared |-> TRUE, undone |-> FALSE]
ZCodeRefresh == [askers |-> Both, early |-> TRUE, shared |-> FALSE, undone |-> TRUE]

Refreshes == [atomcode |-> AtomCodeRefresh, cline |-> ClineRefresh,
               codearts |-> CodeArtsRefresh, codebuddy |-> CodeBuddyRefresh,
               lobsterai |-> LobsterAIRefresh, loomy |-> LoomyRefresh,
               minimax |-> MinimaxRefresh, raccoon |-> RaccoonRefresh,
               trae |-> TraeRefresh, zcode |-> ZCodeRefresh]
HowRefreshed == Refreshes[lister]

(* model.for_auth of each plugin: is the cache served to a credential that  *)
(* cannot be read, and is the vendor asked when the cache has nothing?      *)
AtomCodeServes == [unread |-> FALSE, asks |-> TRUE]
ClineServes == [unread |-> FALSE, asks |-> TRUE]
CodeArtsServes == [unread |-> TRUE, asks |-> TRUE]
CodeBuddyServes == [unread |-> FALSE, asks |-> TRUE]
LobsterAIServes == [unread |-> TRUE, asks |-> TRUE]
LoomyServes == [unread |-> FALSE, asks |-> TRUE]
MinimaxServes == [unread |-> FALSE, asks |-> TRUE]
RaccoonServes == [unread |-> FALSE, asks |-> TRUE]
TraeServes == [unread |-> FALSE, asks |-> TRUE]
ZCodeServes == [unread |-> TRUE, asks |-> FALSE]

Serving == [atomcode |-> AtomCodeServes, cline |-> ClineServes, codearts |-> CodeArtsServes,
            codebuddy |-> CodeBuddyServes, lobsterai |-> LobsterAIServes,
            loomy |-> LoomyServes, minimax |-> MinimaxServes, raccoon |-> RaccoonServes,
            trae |-> TraeServes, zcode |-> ZCodeServes]
HowServed == Serving[lister]

(* The vendor's answers: a listing, one with nothing this account may use,  *)
(* and none, which is an outage, a status or nothing that can be read.      *)
ListingAnswers == {"listing", "barred", "none"}

(* The plugins that cache a listing of which nothing can be used.           *)
KeepsBarred == {"atomcode", "trae"}
(* The plugins in which a request or a page asks the vendor as well.        *)
Wanderers == {"codebuddy", "loomy", "trae", "raccoon", "atomcode"}

----------------------------------------------------------------------------
(* The cache.                                                               *)

Hit(s) == current[s] /\ (kept[s] # 0 \/ lister \in KeepsBarred)

(* What a lookup finds in the cache of s, and what the cache is then.       *)
Found(s, answer) ==
    CASE Hit(s) -> kept[s]
      [] ~Hit(s) /\ answer = "listing" -> listed
      [] OTHER -> 0
Stores(s, answer) ==
    ~Hit(s) /\ (answer = "listing" \/ (answer = "barred" /\ lister \in KeepsBarred))
Consult(s, answer) ==
    IF Stores(s, answer)
    THEN /\ kept' = [kept EXCEPT ![s] = Found(s, answer)]
         /\ current' = [current EXCEPT ![s] = TRUE]
    ELSE UNCHANGED <<kept, current>>

(* A slip: only the slot of the account that is refreshed is dropped.       *)
DroppedOwn == {SlotOf("first")}

(* The slots a refresh drops; codebuddy resets the cache of every product.  *)
Dropped == IF lister = "codebuddy" THEN Holders ELSE {SlotOf("first")}

(* The ids of a listing: a move that changes fields only is told by zcode's *)
(* fingerprint and not by the sets of the other plugins.                    *)
Ids(n) == IF n = 2 /\ silent /\ lister # "zcode" THEN 1 ELSE n

(* A slip: listings with as many models are taken for the same.             *)
MovedCounted(before, n) == (before = 0) # (n = 0)

(* The ids of atomcode's cache are compared with the ids that it serves.    *)
Moved(before, n) == Ids(before) # Ids(n) \/ extended

----------------------------------------------------------------------------
Move ==
    /\ listed < MaxMoves
    /\ listed' = listed + 1
    /\ UNCHANGED <<plugin, kept, current, pass, shown, told, owed, astray>>

(* The TTL of the caches; zcode's has none.                                 *)
Lapse(s) ==
    /\ lister # "zcode" /\ current[s]
    /\ current' = [current EXCEPT ![s] = FALSE]
    /\ UNCHANGED <<plugin, listed, kept, pass, shown, told, owed, astray>>

(* catalog.Run: the tick, or the operator for an account. The refresh is of *)
(* the first account whoever it is asked for.                               *)
BeginPass(by, a) ==
    /\ pass = NoPass
    /\ by \in HowRefreshed.askers /\ (by = "tick" => a = "first")
    /\ pass' = [by |-> by, holder |-> a, at |-> IF by = "button" THEN listed ELSE 0,
                before |-> kept[SlotOf("first")]]
    /\ kept' = [s \in Holders |-> IF s \in Dropped THEN 0 ELSE kept[s]]
    /\ current' = [s \in Holders |-> IF s \in Dropped THEN FALSE ELSE current[s]]
    /\ UNCHANGED <<plugin, listed, shown, told, owed, astray>>

(* The refetch, with the publish: by the button for its account, by the     *)
(* tick for the first account if the ids changed.                           *)
Refill(answer) == IF HowRefreshed.shared THEN Consult("first", answer)
                  ELSE /\ kept' = [kept EXCEPT !["first"] = listed]
                       /\ current' = [current EXCEPT !["first"] = TRUE]

Refetched(answer) == IF HowRefreshed.shared THEN Found("first", answer) ELSE listed

(* A refresh of trae that finds models, none of which may be called, counts.*)
Succeeds(answer) ==
    \/ answer = "listing"
    \/ HowRefreshed.shared /\ Hit("first") /\ (kept["first"] # 0 \/ lister = "trae")
    \/ answer = "barred" /\ lister = "trae"

EndPass(answer) ==
    /\ pass # NoPass
    /\ Succeeds(answer)
    /\ Refill(answer)
    /\ LET moved == Moved(pass.before, Refetched(answer)) IN
         IF pass.by = "button"
         THEN /\ told' = told \union {pass.holder}
              /\ owed' = [owed EXCEPT ![pass.holder] = pass.at]
              /\ astray' = (astray \/ (pass.holder # "first" /\ moved))
         ELSE /\ told' = IF moved THEN told \union {"first"} ELSE told
              /\ UNCHANGED <<owed, astray>>
    /\ pass' = NoPass
    /\ UNCHANGED <<plugin, listed, shown>>

(* What a failed refresh leaves: zcode puts back what it dropped.           *)
Leaves(answer) ==
    IF HowRefreshed.undone
    THEN /\ kept' = [kept EXCEPT !["first"] = pass.before]
         /\ current' = [current EXCEPT !["first"] = (pass.before # 0)]
    ELSE Consult("first", answer)

FailPass(answer) ==
    /\ pass # NoPass
    /\ ~Succeeds(answer)
    /\ Leaves(answer)
    /\ pass' = NoPass
    /\ UNCHANGED <<plugin, listed, shown, told, owed, astray>>

(* The account to ask with is gone or cannot be read: nothing was fetched.  *)
LosePass ==
    /\ pass # NoPass
    /\ HowRefreshed.early
    /\ IF HowRefreshed.undone THEN Leaves("none") ELSE UNCHANGED <<kept, current>>
    /\ pass' = NoPass
    /\ UNCHANGED <<plugin, listed, shown, told, owed, astray>>

----------------------------------------------------------------------------
(* model.for_auth, on the host's re-registration of an account that was     *)
(* rewritten, or that starts again. A cache filled without a publish leads  *)
(* the next tick to compare with what nobody was told.                      *)
Served(a, answer, readable) ==
    IF readable THEN Found(SlotOf(a), IF HowServed.asks THEN answer ELSE "none")
    ELSE IF HowServed.unread THEN Found(SlotOf(a), "none") ELSE 0

Enlist(a, answer, readable) ==
    /\ answer # "none" => readable /\ HowServed.asks /\ ~Hit(SlotOf(a))
    /\ LET asks == readable /\ HowServed.asks
           served == Served(a, answer, readable) IN
         /\ IF asks THEN Consult(SlotOf(a), answer) ELSE UNCHANGED <<kept, current>>
         /\ shown' = [shown EXCEPT ![a] = served]
         /\ astray' = IF a = "first"
                      THEN served = 0 /\ (pass # NoPass \/ kept["first"] # 0)
                      ELSE astray \/ (asks /\ SlotOf(a) = "first" /\ Stores("first", answer))
    /\ told' = told \ {a}
    /\ UNCHANGED <<plugin, listed, pass, owed>>

(* A request or a page that looks a model up.                               *)
Wander(a, answer) ==
    /\ lister \in Wanderers
    /\ Stores(SlotOf(a), answer)
    /\ Consult(SlotOf(a), answer)
    /\ astray' = (astray \/ SlotOf(a) = "first")
    /\ UNCHANGED <<plugin, listed, pass, shown, told, owed>>

DiscoveryNext ==
    \/ Move
    \/ \E s \in Holders : Lapse(s)
    \/ \E by \in {"tick", "button"}, a \in Holders : BeginPass(by, a)
    \/ \E answer \in ListingAnswers : EndPass(answer)
    \/ \E answer \in ListingAnswers : FailPass(answer)
    \/ LosePass
    \/ \E a \in Holders, answer \in ListingAnswers, readable \in BOOLEAN :
         Enlist(a, answer, readable)
    \/ \E a \in Holders, answer \in ListingAnswers : Wander(a, answer)

DiscoverySpec == DiscoveryInit /\ [][DiscoveryNext]_discoveryVars

----------------------------------------------------------------------------
Known == 0..MaxMoves

(* The types of the variables.                                              *)
DiscoveryTypeOK ==
    /\ lister \in Listers
    /\ extended \in BOOLEAN
    /\ products \in BOOLEAN /\ silent \in BOOLEAN
    /\ listed \in 1..MaxMoves
    /\ kept \in [Holders -> Known] /\ current \in [Holders -> BOOLEAN]
    /\ pass \in [by : {"none", "tick", "button"}, holder : Holders, at : Known,
                 before : Known]
    /\ shown \in [Holders -> Known]
    /\ told \subseteq Holders
    /\ owed \in [Holders -> Known]
    /\ astray \in BOOLEAN

(* What the operator's refresh of an account said it had refreshed is what  *)
(* the host registers for it: nothing older than the press, unless the      *)
(* builtin table. trae's and atomcode's second account keep a cache of      *)
(* their own, which the refresh never drops (observed, see the README).     *)
PressedIsServed ==
    \A a \in Holders \ told :
        ~(lister \in {"trae", "atomcode"} /\ a = "second") =>
            shown[a] = 0 \/ shown[a] >= owed[a]

(* The first account's registry has the ids the cache holds, at rest, unless *)
(* something moved the cache without telling: a tick that finds a change is *)
(* never lost on the way, not by failed refreshes between, nor by restores. *)
FirstIsCurrent ==
    pass = NoPass /\ "first" \notin told /\ ~astray /\ kept["first"] # 0 =>
        Ids(shown["first"]) = Ids(kept["first"])

(* The words of eight plugins' failed refreshes: the catalogue is not       *)
(* updated and "the previous one is still in use".                          *)
FailedKeepsPrevious ==
    [][(\E answer \in ListingAnswers : FailPass(answer)) /\ lister \notin {"trae", "atomcode"}
       /\ pass.before # 0 => kept'["first"] # 0]_discoveryVars
=============================================================================
