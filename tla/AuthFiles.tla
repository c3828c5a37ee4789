----------------------------- MODULE AuthFiles -----------------------------
(***************************************************************************)
(* The auth files of one provider and everybody who rewrites them: the     *)
(* executor and the host's auth.refresh (one credential per invocation),   *)
(* the status page (every account in turn), the catalogue button and the   *)
(* catalogue tick (the first account, then a publish) and a login.         *)
(*                                                                         *)
(* A file is shared: the plugin owns the credential members, the operator  *)
(* the routing members. host.auth.save replaces the whole file, so every   *)
(* writer merges what it writes into the file as it knows it, which is     *)
(* what the invocation's handle remembers (abiboot.Host.Incoming). A JSON  *)
(* object is a function from its member names; a file that does not exist  *)
(* is the empty one. "keys" stands for the members a credential always     *)
(* has, "grant" for the optional ones it is renewed with, "priority" for   *)
(* the host's. The bookkeeping member of a publish is left out.            *)
(***************************************************************************)
EXTENDS Naturals

CONSTANTS
    Accounts,       \* accounts the provider may have
    NoAccount,      \* stands for "nothing to publish through"
    First,          \* which of some accounts host.auth.list names first
    Priorities,     \* values the operator gives the routing member
    Handles,        \* handles that may be in use at once
    Kind,           \* what a handle is for
    MaxIssue,       \* bound: credentials the vendor issues per account
    MaxEdits,       \* bound: edits by the operator
    QuietEdits,     \* does the operator edit only while nobody else is at work?
    Removals        \* may the operator delete a file?

Kinds == {"call", "refresh", "page", "button", "tick", "login"}

ASSUME AccountsAssumption == NoAccount \notin Accounts
ASSUME FirstAssumption == \A S \in SUBSET Accounts : S # {} => First[S] \in S
ASSUME PrioritiesAssumption == Priorities \subseteq Nat
ASSUME KindAssumption == Kind \in [Handles -> Kinds]
ASSUME FilesBoundsAssumption == MaxIssue \in Nat \ {0} /\ MaxEdits \in Nat
ASSUME OperatorAssumption == QuietEdits \in BOOLEAN /\ Removals \in BOOLEAN

Members == {"keys", "grant", "priority"}
Value == [of : Accounts, n : Nat]   \* whose a value is, and which of theirs
Json(json) == DOMAIN json \subseteq Members /\ \A m \in DOMAIN json : json[m] \in Value
Empty == [m \in {} |-> 0]           \* no file, or none known

Defines(json, m) == m \in DOMAIN json

VARIABLES
    files,       \* files[a]: the auth file the host keeps for an account
    wanted,     \* wanted[a]: the priority the operator last chose, as a member
    dropped,    \* accounts saved, since that choice, without a look at their file
    edits,      \* how often the operator has edited
    issues,     \* issues[a]: how many credentials the vendor issued
    inv         \* inv[h]: the invocation a handle serves

filesVars == <<files, wanted, dropped, edits, issues, inv>>

(* pc, the accounts left to visit, the account to publish through,  *)
(* the bytes last read, Host.Incoming, and what is about to be saved.       *)
Idle == [pc |-> "idle", todo |-> {}, goal |-> NoAccount,
         seen |-> Empty, incoming |-> Empty, overlay |-> Empty]

Steps == {"idle", "read", "ensure", "vendor", "save", "write", "discover", "publish"}
Invocations(seen, incoming, overlay) ==
    [pc : Steps, todo : SUBSET Accounts, goal : Accounts \union {NoAccount},
     seen : {seen}, incoming : {incoming}, overlay : {overlay}]

Issued(a, n, grant) ==
    [m \in IF grant THEN {"keys", "grant"} ELSE {"keys"} |-> [of |-> a, n |-> n]]
Routing(a, p) == [m \in {"priority"} |-> [of |-> a, n |-> p]]

FilesInit ==
    /\ \E existing \in SUBSET Accounts :
         /\ wanted = [a \in Accounts |-> IF a \in existing THEN Routing(a, 1) ELSE Empty]
         /\ files = [a \in Accounts |->
                       IF a \in existing THEN [m \in Members |-> [of |-> a, n |-> 1]] ELSE Empty]
    /\ dropped = {}
    /\ edits = 0
    /\ issues = [a \in Accounts |-> 1]
    /\ inv = [h \in Handles |-> Idle]

Existing == {a \in Accounts : files[a] # Empty}
At(h) == First[inv[h].todo]

----------------------------------------------------------------------------
(* The rules of the merge.                                                 *)

(* Slips: the file is replaced by the plugin's own members; the file wins.  *)
MergeNothing(base, overlay) == overlay
MergeBaseWins(base, overlay) ==
    [m \in DOMAIN base \union DOMAIN overlay |->
        IF Defines(base, m) THEN base[m] ELSE overlay[m]]

(* credjson.MergePreserved: overlay, and what only base defines.           *)
MergePreserved(base, overlay) ==
    [m \in DOMAIN base \union DOMAIN overlay |->
        IF Defines(overlay, m) THEN overlay[m] ELSE base[m]]

(* rememberIncoming: the first file a handle sees is the one it keeps.     *)
Remembered(incoming, json) == IF incoming = Empty THEN json ELSE incoming

(* A slip: any file of the provider, not the one of that name.             *)
StoredAuthFileFirst(a) == IF Existing = {} THEN Empty ELSE files[First[Existing]]

StoredAuthFile(a) == files[a]

(* The end of an invocation. Its handle goes with it, except the one the   *)
(* catalogue scheduler was started with: it serves every tick.             *)
Done(h) == [Idle EXCEPT !.incoming = IF Kind[h] = "tick" THEN inv[h].incoming ELSE Empty]

(* On to the next account of a page, to the discovery of a catalogue       *)
(* refresh, or home.                                                       *)
Onward(h) ==
    LET left == inv[h].todo \ {At(h)} IN
    CASE left # {} -> [inv[h] EXCEPT !.pc = "read", !.todo = left,
                                     !.seen = Empty, !.overlay = Empty]
      [] left = {} /\ Kind[h] \in {"button", "tick"} ->
            [inv[h] EXCEPT !.pc = "discover", !.todo = {},
                           !.seen = Empty, !.overlay = Empty]
      [] OTHER -> Done(h)

Becomes(h, invocation) == inv' = [inv EXCEPT ![h] = invocation]

----------------------------------------------------------------------------
(* The operator, who edits files in the host's management page.            *)

Undisturbed == QuietEdits => \A h \in Handles : inv[h].pc = "idle"

SetPriority ==
    /\ Undisturbed
    /\ edits < MaxEdits
    /\ edits' = edits + 1
    /\ \E a \in Existing, p \in Priorities :
         /\ wanted' = [wanted EXCEPT ![a] = Routing(a, p)]
         /\ files' = [files EXCEPT ![a] = [m \in DOMAIN @ \union {"priority"} |->
                          IF m = "priority" THEN [of |-> a, n |-> p] ELSE @[m]]]
         /\ dropped' = dropped \ {a}
    /\ UNCHANGED <<issues, inv>>

ClearPriority ==
    /\ Undisturbed
    /\ edits < MaxEdits
    /\ edits' = edits + 1
    /\ \E a \in Existing :
         /\ wanted' = [wanted EXCEPT ![a] = Empty]
         /\ files' = [files EXCEPT ![a] = [m \in DOMAIN @ \ {"priority"} |-> @[m]]]
         /\ dropped' = dropped \ {a}
    /\ UNCHANGED <<issues, inv>>

Remove ==
    /\ Removals
    /\ Undisturbed
    /\ edits < MaxEdits
    /\ edits' = edits + 1
    /\ \E a \in Existing :
         /\ wanted' = [wanted EXCEPT ![a] = Empty]
         /\ files' = [files EXCEPT ![a] = Empty]
         /\ dropped' = dropped \ {a}
    /\ UNCHANGED <<issues, inv>>

----------------------------------------------------------------------------
(* How invocations begin.                                                  *)

(* The host hands over the file of the account it serves: a request to the *)
(* executor, or auth.refresh from the host's own loop.                     *)
StartOne(h) ==
    /\ inv[h].pc = "idle"
    /\ Kind[h] \in {"call", "refresh"}
    /\ \E a \in Existing :
         Becomes(h, [Idle EXCEPT !.pc = IF Kind[h] = "call" THEN "ensure" ELSE "vendor",
                                 !.todo = {a}, !.seen = files[a], !.incoming = files[a]])
    /\ UNCHANGED <<files, wanted, dropped, edits, issues>>

(* The status page visits every account through one handle.                *)
StartPage(h) ==
    /\ inv[h].pc = "idle"
    /\ Kind[h] = "page"
    /\ Existing # {}
    /\ Becomes(h, [Idle EXCEPT !.pc = "read", !.todo = Existing])
    /\ UNCHANGED <<files, wanted, dropped, edits, issues>>

(* catalogueRefresh: the first account discovers. The button publishes     *)
(* through the account it was pressed for.                                 *)
StartCatalogue(h) ==
    /\ inv[h].pc = "idle"
    /\ Kind[h] \in {"button", "tick"}
    /\ Existing # {}
    /\ \E g \in IF Kind[h] = "button" THEN Existing ELSE {NoAccount} :
         Becomes(h, [inv[h] EXCEPT !.pc = "read", !.todo = {First[Existing]}, !.goal = g])
    /\ UNCHANGED <<files, wanted, dropped, edits, issues>>

(* A finished login, for a new account or again for an old one; a ticket   *)
(* login brings nothing to renew with.                                     *)
StartLogin(h) ==
    /\ inv[h].pc = "idle"
    /\ Kind[h] = "login"
    /\ \E a \in Accounts, grant \in BOOLEAN :
         /\ issues[a] < MaxIssue
         /\ issues' = [issues EXCEPT ![a] = @ + 1]
         /\ Becomes(h, [Idle EXCEPT !.pc = "save", !.todo = {a},
                          !.overlay = Issued(a, issues[a] + 1, grant)])
    /\ UNCHANGED <<files, wanted, dropped, edits>>

(* startCatalogueScheduler makes a new handle for the loop it starts.      *)
Reconfigure(h) ==
    /\ inv[h].pc = "idle"
    /\ Kind[h] = "tick"
    /\ Becomes(h, Idle)
    /\ UNCHANGED <<files, wanted, dropped, edits, issues>>

----------------------------------------------------------------------------
(* credentialOf: GetAuth, then Ensure.                                     *)

Read(h) ==
    /\ inv[h].pc = "read"
    /\ IF files[At(h)] = Empty
       THEN Becomes(h, IF Kind[h] = "page" THEN Onward(h) ELSE Done(h))
       ELSE Becomes(h, [inv[h] EXCEPT !.pc = "ensure", !.seen = files[At(h)],
                                      !.incoming = Remembered(@, files[At(h)])])
    /\ UNCHANGED <<files, wanted, dropped, edits, issues>>

BeingRenewed(a) == \E h \in Handles :
    /\ Kind[h] \notin {"refresh", "login"}
    /\ inv[h].pc \in {"vendor", "save", "write"}
    /\ At(h) = a

(* Module AuthRefresh has the detail: the credential is left alone, or this *)
(* is the one renewal of it the plugin has under way.                      *)
LeaveAlone(h) ==
    /\ inv[h].pc = "ensure"
    /\ Becomes(h, Onward(h))
    /\ UNCHANGED <<files, wanted, dropped, edits, issues>>

Renew(h) ==
    /\ inv[h].pc = "ensure"
    /\ Defines(inv[h].seen, "grant")
    /\ ~BeingRenewed(At(h))
    /\ Becomes(h, [inv[h] EXCEPT !.pc = "vendor"])
    /\ UNCHANGED <<files, wanted, dropped, edits, issues>>

(* What handleAuthRefresh makes of the vendor's answer, which need not     *)
(* carry a new grant.                                                      *)
Answer(a, n, grant) == Issued(a, n, grant)

(* A grant only works with the key of the account it was issued to.        *)
VendorRenewed(h) ==
    LET a == At(h) IN
    /\ inv[h].pc = "vendor"
    /\ Defines(inv[h].seen, "grant")
    /\ inv[h].seen["grant"].of = a
    /\ issues[a] < MaxIssue
    /\ issues' = [issues EXCEPT ![a] = @ + 1]
    /\ \E grant \in BOOLEAN :
         Becomes(h, [inv[h] EXCEPT !.pc = "save", !.seen = Empty,
                                   !.overlay = Answer(a, issues[a] + 1, grant)])
    /\ UNCHANGED <<files, wanted, dropped, edits>>

NotRenewed(h) ==
    /\ inv[h].pc = "vendor"
    /\ Becomes(h, Onward(h))
    /\ UNCHANGED <<files, wanted, dropped, edits, issues>>

(* SaveAuth: a handle that knows no file first asks the host for it, which *)
(* GetAuth remembers; then the file is replaced. When host.auth.list or    *)
(* host.auth.get fails, or the list has no index for the file, the save    *)
(* goes on and knows no file.                                              *)
LookUp(h) ==
    /\ inv[h].pc = "save"
    /\ \/ /\ Becomes(h, [inv[h] EXCEPT !.pc = "write",
                            !.incoming = Remembered(@, StoredAuthFile(At(h)))])
          /\ UNCHANGED dropped
       \/ /\ inv[h].incoming = Empty /\ At(h) \in Existing
          /\ Becomes(h, [inv[h] EXCEPT !.pc = "write"])
          /\ dropped' = dropped \union {At(h)}
    /\ UNCHANGED <<files, wanted, edits, issues>>

Write(h) ==
    /\ inv[h].pc = "write"
    /\ files' = [files EXCEPT ![At(h)] = MergePreserved(inv[h].incoming, inv[h].overlay)]
    /\ Becomes(h, Onward(h))
    /\ UNCHANGED <<wanted, dropped, edits, issues>>

----------------------------------------------------------------------------
(* catalog.Run after the discovery: nothing to publish (the discovery      *)
(* failed, the catalogue did not move), or Publish.                        *)

NoPublish(h) ==
    /\ inv[h].pc = "discover"
    /\ Becomes(h, Done(h))
    /\ UNCHANGED <<files, wanted, dropped, edits, issues>>

PublishRead(h) ==
    /\ inv[h].pc = "discover"
    /\ \E g \in Existing :
         /\ g = IF Kind[h] = "button" THEN inv[h].goal ELSE First[Existing]
         /\ Becomes(h, [inv[h] EXCEPT !.pc = "publish", !.goal = g, !.seen = files[g],
                                      !.incoming = Remembered(@, files[g])])
    /\ UNCHANGED <<files, wanted, dropped, edits, issues>>

PublishWrite(h) ==
    LET g == inv[h].goal IN
    /\ inv[h].pc = "publish"
    /\ files' = [files EXCEPT ![g] = MergePreserved(inv[h].incoming, inv[h].seen)]
    /\ Becomes(h, Done(h))
    /\ UNCHANGED <<wanted, dropped, edits, issues>>

----------------------------------------------------------------------------

Invocation(h) ==
    \/ StartOne(h) \/ StartPage(h) \/ StartCatalogue(h) \/ StartLogin(h) \/ Reconfigure(h)
    \/ Read(h) \/ LeaveAlone(h) \/ Renew(h) \/ VendorRenewed(h) \/ NotRenewed(h)
    \/ LookUp(h) \/ Write(h)
    \/ NoPublish(h) \/ PublishRead(h) \/ PublishWrite(h)

FilesNext ==
    \/ SetPriority \/ ClearPriority \/ Remove
    \/ \E h \in Handles : Invocation(h)

FilesSpec == FilesInit /\ [][FilesNext]_filesVars

----------------------------------------------------------------------------
(* Files, handles and what they remember are objects of the known members, *)
(* and what is stored, or about to be, is a credential: it has the keys.    *)
FilesTypeOK ==
    /\ DOMAIN files = Accounts /\ DOMAIN wanted = Accounts
    /\ \A a \in Accounts : Json(files[a]) /\ Json(wanted[a])
    /\ \A a \in Existing : Defines(files[a], "keys")
    /\ dropped \subseteq Accounts
    /\ edits \in Nat
    /\ issues \in [Accounts -> Nat]
    /\ DOMAIN inv = Handles
    /\ \A h \in Handles :
         /\ inv[h] \in Invocations(inv[h].seen, inv[h].incoming, inv[h].overlay)
         /\ Json(inv[h].seen) /\ Json(inv[h].incoming) /\ Json(inv[h].overlay)
         /\ inv[h].pc \in {"save", "write"} => Defines(inv[h].overlay, "keys")
         /\ inv[h].pc = "publish" => Defines(inv[h].seen, "keys")

(* Whoever writes, in whatever order and into whatever it remembers: the   *)
(* keys in an account's file are that account's own.                       *)
KeysStayHome ==
    \A a \in Accounts : Defines(files[a], "keys") => files[a]["keys"].of = a

(* "every save in one invocation targets the same credential": no account  *)
(* is left with what another one is renewed with.                          *)
GrantsStayHome ==
    \A a \in Accounts : Defines(files[a], "grant") => files[a]["grant"].of = a

(* "Unknown members therefore ride along untouched": a routing member of a *)
(* file is what the operator last chose, and it is there if they chose     *)
(* one - unless a login, which brings no file of its own, has since saved  *)
(* without a look at the file because its look-up failed.                  *)
RoutingIsTheOperators ==
    \A a \in Existing :
        /\ Defines(files[a], "priority") =>
             Defines(wanted[a], "priority") /\ files[a]["priority"] = wanted[a]["priority"]
        /\ Defines(wanted[a], "priority") => Defines(files[a], "priority") \/ a \in dropped
=============================================================================
