-------------------------- MODULE AuthFilesProofs --------------------------
(***************************************************************************)
(* For any accounts, handles and kinds of them: what AuthFiles stores is   *)
(* always a credential, and its keys are the account's own.  The invariant *)
(* speaks of one invocation at a time, since an invocation only meets the  *)
(* others through the files.                                               *)
(***************************************************************************)
EXTENDS MCFiles, AuthRefreshProofs

AtHome(json, a) == Defines(json, "keys") /\ json["keys"].of = a

(* What holds of an invocation wherever it is; what it is about to store   *)
(* are the keys of the account it stores them for.                         *)
Sound(i) ==
    /\ i \in Invocations(i.seen, i.incoming, i.overlay)
    /\ Json(i.seen) /\ Json(i.incoming) /\ Json(i.overlay)
    /\ i.pc \in {"read", "ensure", "vendor", "save", "write"} => i.todo # {}
    /\ i.pc \in {"save", "write"} => AtHome(i.overlay, First[i.todo])
    /\ i.pc = "publish" => i.goal \in Accounts /\ AtHome(i.seen, i.goal)

FilesSound ==
    /\ DOMAIN files = Accounts /\ DOMAIN wanted = Accounts
    /\ \A a \in Accounts : Json(files[a]) /\ Json(wanted[a])
    /\ \A a \in Accounts : files[a] # Empty => AtHome(files[a], a)
    /\ dropped \subseteq Accounts
    /\ edits \in Nat
    /\ issues \in [Accounts -> Nat]

FilesInv ==
    /\ FilesSound
    /\ DOMAIN inv = Handles
    /\ \A h \in Handles : Sound(inv[h])

LEMMA EmptyIsJson == Json(Empty) /\ DOMAIN Empty = {} /\ \A m : ~Defines(Empty, m)
  BY DEF Json, Empty, Defines

(* A merge of two objects is one, and keeps every member of the overlay.   *)
LEMMA MergeIsJson ==
    ASSUME NEW base, NEW overlay, Json(base), Json(overlay)
    PROVE  /\ Json(MergePreserved(base, overlay))
           /\ \A m \in DOMAIN overlay : /\ Defines(MergePreserved(base, overlay), m)
                                        /\ MergePreserved(base, overlay)[m] = overlay[m]
  BY DEF Json, MergePreserved, Defines

LEMMA IssuedIsAtHome ==
    ASSUME NEW a \in Accounts, NEW n \in Nat, NEW grant \in BOOLEAN
    PROVE  Json(Issued(a, n, grant)) /\ AtHome(Issued(a, n, grant), a)
  BY DEF Json, Issued, AtHome, Defines, Members, Value

LEMMA IdleIsSound == Sound(Idle)
  BY EmptyIsJson, SMT DEF Sound, Idle, Invocations, Steps

(* The two ways an invocation goes on when it is through with an account.  *)
LEMMA DoneIsSound ==
    ASSUME NEW h \in Handles, Sound(inv[h])
    PROVE  Sound(Done(h))
  BY EmptyIsJson DEF Sound, Done, Idle, Invocations, Steps

LEMMA OnwardIsSound ==
    ASSUME NEW h \in Handles, Sound(inv[h]), inv[h].todo # {}
    PROVE  Sound(Onward(h))
<1> DEFINE left == inv[h].todo \ {At(h)}
<1>1. CASE left # {}
  BY <1>1, EmptyIsJson DEF Sound, Onward, Invocations, Steps
<1>2. CASE left = {} /\ Kind[h] \in {"button", "tick"}
  BY <1>2, EmptyIsJson DEF Sound, Onward, Invocations, Steps
<1>3. CASE left = {} /\ Kind[h] \notin {"button", "tick"}
  <2>1. Onward(h) = Done(h)
    BY <1>3 DEF Onward
  <2> QED  BY <2>1, DoneIsSound
<1> QED  BY <1>1, <1>2, <1>3

LEMMA AtIsAccount ==
    ASSUME NEW h \in Handles, Sound(inv[h]), inv[h].todo # {}
    PROVE  At(h) \in Accounts /\ At(h) \in inv[h].todo
  BY FirstAssumption DEF At, Sound, Invocations

(* Every step of an invocation replaces it by a sound one and keeps the    *)
(* files sound; the rest follows once and for all.                         *)
LEMMA StepIsSound ==
    ASSUME FilesInv, NEW h \in Handles, NEW i, Becomes(h, i), Sound(i), FilesSound'
    PROVE  FilesInv'
  BY DEF FilesInv, Becomes

LEMMA FilesUnchanged ==
    ASSUME FilesSound, UNCHANGED <<files, wanted, edits>>, dropped' \subseteq Accounts,
           issues' = issues \/ issues' \in [Accounts -> Nat]
    PROVE  FilesSound'
  BY DEF FilesSound, Json, AtHome, Defines, Empty

----------------------------------------------------------------------------

LEMMA InitIsSound == FilesInit => FilesInv
<1> SUFFICES ASSUME FilesInit PROVE FilesInv
  OBVIOUS
<1>1. FilesSound
  <2> DEFINE whole(a) == [m \in Members |-> [of |-> a, n |-> 1]]
  <2>1. \A a \in Accounts : Json(whole(a)) /\ AtHome(whole(a), a) /\ Json(Routing(a, 1))
    BY DEF Json, AtHome, Defines, Members, Value, Routing
  <2>2. \A a \in Accounts : files[a] \in {Empty, whole(a)} /\ wanted[a] \in {Empty, Routing(a, 1)}
    BY DEF FilesInit
  <2> HIDE DEF whole
  <2>3. \A a \in Accounts : Json(files[a]) /\ Json(wanted[a])
    BY <2>1, <2>2, EmptyIsJson
  <2>4. \A a \in Accounts : files[a] # Empty => AtHome(files[a], a)
    BY <2>1, <2>2
  <2> QED  BY <2>3, <2>4 DEF FilesInit, FilesSound
<1> QED  BY <1>1, IdleIsSound DEF FilesInit, FilesInv

(* The operator touches the routing members of a file, or removes it.      *)
LEMMA OperatorKeepsSound ==
    ASSUME FilesInv, SetPriority \/ ClearPriority \/ Remove
    PROVE  FilesInv'
<1>1. UNCHANGED <<issues, inv>> /\ edits' \in Nat /\ dropped' \subseteq Accounts
  <2>1. UNCHANGED <<issues, inv>> /\ edits' = edits + 1 /\ \E a : dropped' = dropped \ {a}
    BY DEF SetPriority, ClearPriority, Remove
  <2> QED  BY <2>1 DEF FilesInv, FilesSound
<1>2. FilesSound'
  <2>1. CASE SetPriority
    <3>1. PICK a \in Existing, p \in Priorities :
            /\ wanted' = [wanted EXCEPT ![a] = Routing(a, p)]
            /\ files' = [files EXCEPT ![a] = [m \in DOMAIN files[a] \union {"priority"} |->
                  IF m = "priority" THEN [of |-> a, n |-> p] ELSE files[a][m]]]
      BY <2>1 DEF SetPriority
    <3>2. a \in Accounts /\ p \in Nat /\ files[a] # Empty
      BY <3>1, PrioritiesAssumption DEF Existing
    <3>3. Json(Routing(a, p))
      BY <3>2 DEF Json, Routing, Members, Value
    <3>4. Json(files'[a]) /\ AtHome(files'[a], a)
      BY <3>1, <3>2 DEF FilesInv, FilesSound, Json, AtHome, Defines, Members, Value
    <3> QED  BY <1>1, <3>1, <3>2, <3>3, <3>4 DEF FilesInv, FilesSound
  <2>2. CASE ClearPriority
    <3>1. PICK a \in Existing :
            /\ wanted' = [wanted EXCEPT ![a] = Empty]
            /\ files' = [files EXCEPT ![a] = [m \in DOMAIN files[a] \ {"priority"} |-> files[a][m]]]
      BY <2>2 DEF ClearPriority
    <3>2. a \in Accounts /\ files[a] # Empty
      BY <3>1 DEF Existing
    <3>3. Json(files'[a]) /\ AtHome(files'[a], a)
      BY <3>1, <3>2 DEF FilesInv, FilesSound, Json, AtHome, Defines
    <3> QED  BY <1>1, <3>1, <3>2, <3>3, EmptyIsJson DEF FilesInv, FilesSound
  <2>3. CASE Remove
    BY <1>1, <2>3, EmptyIsJson DEF Remove, Existing, FilesInv, FilesSound
  <2> QED  BY <2>1, <2>2, <2>3
<1> QED  BY <1>1, <1>2 DEF FilesInv

LEMMA InvocationKeepsSound ==
    ASSUME FilesInv, NEW h \in Handles, Invocation(h)
    PROVE  FilesInv'
<1>1. /\ FilesSound /\ Sound(inv[h]) /\ dropped \subseteq Accounts
      /\ \A a \in Existing : a \in Accounts /\ Json(files[a]) /\ AtHome(files[a], a)
  BY DEF FilesInv, FilesSound, Existing
<1>2. CASE StartOne(h)
  <2>1. PICK a \in Existing :
          Becomes(h, [Idle EXCEPT !.pc = IF Kind[h] = "call" THEN "ensure" ELSE "vendor",
                                  !.todo = {a}, !.seen = files[a], !.incoming = files[a]])
    BY <1>2 DEF StartOne
  <2>2. FilesSound'
    BY <1>1, <1>2, FilesUnchanged DEF StartOne
  <2>3. Sound([Idle EXCEPT !.pc = IF Kind[h] = "call" THEN "ensure" ELSE "vendor",
                           !.todo = {a}, !.seen = files[a], !.incoming = files[a]])
    BY ZenonT(30), <1>1, EmptyIsJson DEF Sound, Idle, Invocations, Steps
  <2> QED  BY <2>1, <2>2, <2>3, StepIsSound
<1>3. CASE StartPage(h)
  <2>1. Sound([Idle EXCEPT !.pc = "read", !.todo = Existing])
    BY <1>1, <1>3, EmptyIsJson DEF StartPage, Sound, Idle, Invocations, Steps
  <2> QED  BY <1>1, <1>3, <2>1, FilesUnchanged, StepIsSound DEF StartPage
<1>4. CASE StartCatalogue(h)
  <2>1. PICK g \in Accounts \union {NoAccount} :
          Becomes(h, [inv[h] EXCEPT !.pc = "read", !.todo = {First[Existing]}, !.goal = g])
    BY <1>1, <1>4 DEF StartCatalogue
  <2>2. First[Existing] \in Accounts
    BY <1>4, FirstAssumption DEF StartCatalogue, Existing
  <2>3. Sound([inv[h] EXCEPT !.pc = "read", !.todo = {First[Existing]}, !.goal = g])
    BY <1>1, <2>2 DEF Sound, Invocations, Steps
  <2> QED  BY <1>1, <1>4, <2>1, <2>3, FilesUnchanged, StepIsSound DEF StartCatalogue
<1>5. CASE StartLogin(h)
  <2>1. PICK a \in Accounts, grant \in BOOLEAN :
          /\ issues' = [issues EXCEPT ![a] = @ + 1]
          /\ Becomes(h, [Idle EXCEPT !.pc = "save", !.todo = {a},
                                     !.overlay = Issued(a, issues[a] + 1, grant)])
    BY <1>5 DEF StartLogin
  <2>2. FilesSound'
    <3>1. issues' \in [Accounts -> Nat]
      BY <1>1, <2>1 DEF FilesSound
    <3> QED  BY <1>1, <1>5, <3>1, FilesUnchanged DEF StartLogin
  <2>3. Json(Issued(a, issues[a] + 1, grant)) /\ AtHome(Issued(a, issues[a] + 1, grant), a)
    BY <1>1, IssuedIsAtHome DEF FilesSound
  <2>4. First[{a}] = a
    BY FirstAssumption
  <2>5. Sound([Idle EXCEPT !.pc = "save", !.todo = {a},
                           !.overlay = Issued(a, issues[a] + 1, grant)])
    BY <2>3, <2>4, EmptyIsJson DEF Sound, Idle, Invocations, Steps
  <2> QED  BY <2>1, <2>2, <2>5, StepIsSound
<1>6. CASE Reconfigure(h)
  BY <1>1, <1>6, FilesUnchanged, IdleIsSound, StepIsSound DEF Reconfigure
<1>7. CASE Read(h)
  <2>1. inv[h].todo # {} /\ At(h) \in Accounts
    BY <1>1, <1>7, AtIsAccount DEF Read, Sound
  <2>2. CASE files[At(h)] = Empty
    BY <1>1, <1>7, <2>1, <2>2, FilesUnchanged, OnwardIsSound, DoneIsSound, StepIsSound DEF Read
  <2>3. CASE files[At(h)] # Empty
    <3>1. Json(files[At(h)]) /\ Json(Remembered(inv[h].incoming, files[At(h)]))
      BY <1>1, <2>1 DEF FilesSound, Remembered, Sound
    <3>2. Sound([inv[h] EXCEPT !.pc = "ensure", !.seen = files[At(h)],
                               !.incoming = Remembered(@, files[At(h)])])
      BY <1>1, <2>1, <3>1 DEF Sound, Invocations, Steps
    <3> QED  BY <1>1, <1>7, <2>3, <3>2, FilesUnchanged, StepIsSound DEF Read
  <2> QED  BY <2>2, <2>3
<1>8. CASE LeaveAlone(h) \/ NotRenewed(h)
  BY <1>1, <1>8, FilesUnchanged, OnwardIsSound, StepIsSound DEF LeaveAlone, NotRenewed, Sound
<1>9. CASE Renew(h)
  <2>1. Sound([inv[h] EXCEPT !.pc = "vendor"])
    BY <1>1, <1>9 DEF Renew, Sound, Invocations, Steps
  <2> QED  BY <1>1, <1>9, <2>1, FilesUnchanged, StepIsSound DEF Renew
<1>10. CASE VendorRenewed(h)
  <2>1. inv[h].todo # {} /\ At(h) \in Accounts
    BY <1>1, <1>10, AtIsAccount DEF VendorRenewed, Sound
  <2>2. PICK grant \in BOOLEAN :
          Becomes(h, [inv[h] EXCEPT !.pc = "save", !.seen = Empty,
                                    !.overlay = Issued(At(h), issues[At(h)] + 1, grant)])
    BY <1>10 DEF VendorRenewed, Answer
  <2>3. Json(Issued(At(h), issues[At(h)] + 1, grant))
        /\ AtHome(Issued(At(h), issues[At(h)] + 1, grant), At(h))
    <3>1. issues[At(h)] + 1 \in Nat
      BY <1>1, <2>1 DEF FilesSound
    <3> QED  BY <2>1, <3>1, IssuedIsAtHome
  <2>4. Sound([inv[h] EXCEPT !.pc = "save", !.seen = Empty,
                             !.overlay = Issued(At(h), issues[At(h)] + 1, grant)])
    BY <1>1, <2>1, <2>3, EmptyIsJson DEF Sound, Invocations, Steps, At
  <2>5. FilesSound'
    <3>1. issues' \in [Accounts -> Nat]
      BY <1>1, <1>10, <2>1 DEF VendorRenewed, FilesSound
    <3> QED  BY <1>1, <1>10, <3>1, FilesUnchanged DEF VendorRenewed
  <2> QED  BY <2>2, <2>4, <2>5, StepIsSound
<1>11. CASE LookUp(h)
  <2>1. inv[h].todo # {} /\ At(h) \in Accounts
    BY <1>1, <1>11, AtIsAccount DEF LookUp, Sound
  <2>2. Json(Remembered(inv[h].incoming, StoredAuthFile(At(h))))
    BY <1>1, <2>1 DEF FilesSound, Remembered, StoredAuthFile, Sound
  <2>3. Sound([inv[h] EXCEPT !.pc = "write",
                             !.incoming = Remembered(@, StoredAuthFile(At(h)))])
    BY <1>1, <1>11, <2>2 DEF LookUp, Sound, Invocations, Steps
  <2>4. Sound([inv[h] EXCEPT !.pc = "write"])
    BY <1>1, <1>11 DEF LookUp, Sound, Invocations, Steps
  <2>5. FilesSound'
    BY <1>1, <1>11, <2>1, FilesUnchanged DEF LookUp
  <2> QED  BY <1>11, <2>3, <2>4, <2>5, StepIsSound DEF LookUp
<1>12. CASE Write(h)
  <2>1. inv[h].todo # {} /\ At(h) \in Accounts /\ AtHome(inv[h].overlay, At(h))
    BY <1>1, <1>12, AtIsAccount DEF Write, Sound, At
  <2>2. Json(MergePreserved(inv[h].incoming, inv[h].overlay))
        /\ AtHome(MergePreserved(inv[h].incoming, inv[h].overlay), At(h))
    BY <1>1, <2>1, MergeIsJson DEF Sound, AtHome, Defines
  <2>3. FilesSound'
    BY <1>1, <1>12, <2>1, <2>2 DEF Write, FilesSound
  <2> QED  BY <1>1, <1>12, <2>1, <2>3, OnwardIsSound, StepIsSound DEF Write
<1>13. CASE NoPublish(h)
  BY <1>1, <1>13, FilesUnchanged, DoneIsSound, StepIsSound DEF NoPublish
<1>14. CASE PublishRead(h)
  <2>1. PICK g \in Existing :
          Becomes(h, [inv[h] EXCEPT !.pc = "publish", !.goal = g, !.seen = files[g],
                                    !.incoming = Remembered(@, files[g])])
    BY <1>14 DEF PublishRead
  <2>2. Json(Remembered(inv[h].incoming, files[g]))
    BY <1>1 DEF Remembered, Sound
  <2>3. Sound([inv[h] EXCEPT !.pc = "publish", !.goal = g, !.seen = files[g],
                             !.incoming = Remembered(@, files[g])])
    BY <1>1, <2>2 DEF Sound, Invocations, Steps
  <2> QED  BY <1>1, <1>14, <2>1, <2>3, FilesUnchanged, StepIsSound DEF PublishRead
<1>15. CASE PublishWrite(h)
  <2>1. inv[h].goal \in Accounts /\ AtHome(inv[h].seen, inv[h].goal)
    BY <1>1, <1>15 DEF PublishWrite, Sound
  <2>2. Json(MergePreserved(inv[h].incoming, inv[h].seen))
        /\ AtHome(MergePreserved(inv[h].incoming, inv[h].seen), inv[h].goal)
    BY <1>1, <2>1, MergeIsJson DEF Sound, AtHome, Defines
  <2>3. FilesSound'
    BY <1>1, <1>15, <2>1, <2>2 DEF PublishWrite, FilesSound
  <2> QED  BY <1>1, <1>15, <2>3, DoneIsSound, StepIsSound DEF PublishWrite
<1> QED
  BY <1>2, <1>3, <1>4, <1>5, <1>6, <1>7, <1>8, <1>9, <1>10, <1>11, <1>12, <1>13,
     <1>14, <1>15 DEF Invocation

----------------------------------------------------------------------------

LEMMA SoundStep == FilesInv /\ [FilesNext]_filesVars => FilesInv'
<1> SUFFICES ASSUME FilesInv, [FilesNext]_filesVars PROVE FilesInv'
  OBVIOUS
<1>1. CASE UNCHANGED filesVars
  BY <1>1 DEF filesVars, FilesInv, FilesSound, Sound, Json, AtHome, Defines, Empty, Invocations
<1>2. CASE FilesNext
  BY <1>2, OperatorKeepsSound, InvocationKeepsSound DEF FilesNext
<1> QED  BY <1>1, <1>2

LEMMA AlwaysSound == FilesSpec => []FilesInv
  BY InitIsSound, SoundStep, PTL DEF FilesSpec

LEMMA SoundIsTyped == FilesInv => FilesTypeOK
  BY DEF FilesInv, FilesSound, Sound, FilesTypeOK, Existing, AtHome

(* Type correctness: whatever writes a file, what is stored is a           *)
(* credential of known members.                                            *)
THEOREM StoresCredentials == FilesSpec => []FilesTypeOK
  BY AlwaysSound, SoundIsTyped, PTL

(* Although handles remember other accounts' files and merge into them, no *)
(* account is ever left with the keys of another.                          *)
THEOREM KeysAreTheAccounts == FilesSpec => []KeysStayHome
<1>1. FilesInv => KeysStayHome
  BY EmptyIsJson DEF FilesInv, FilesSound, KeysStayHome, AtHome
<1> QED  BY AlwaysSound, <1>1, PTL
----------------------------------------------------------------------------
(* The invocations about one credential: requests to the executor, the     *)
(* host's auth.refresh and logins. Their handles know one file only.       *)

(* An object that has no grant but the account's own, and the routing      *)
(* members as the operator last chose them, unless a look-up failed.       *)
Settled(json, a) ==
    /\ Defines(json, "grant") => json["grant"].of = a
    /\ Defines(json, "priority") =>
         Defines(wanted[a], "priority") /\ json["priority"] = wanted[a]["priority"]
    /\ Defines(wanted[a], "priority") => Defines(json, "priority") \/ a \in dropped

(* What the plugin makes of an answer: no routing, the account's own grant. *)
Bare(json, a) ==
    /\ ~Defines(json, "priority")
    /\ Defines(json, "grant") => json["grant"].of = a

Alone(h) ==
    inv[h].pc # "idle" =>
        /\ Kind[h] \in {"call", "refresh", "login"}
        /\ inv[h].pc \in {"ensure", "vendor", "save", "write"}
        /\ inv[h].todo = {At(h)}
        /\ (inv[h].pc = "save" /\ inv[h].incoming = Empty) \/ Settled(inv[h].incoming, At(h))
        /\ inv[h].pc \in {"save", "write"} => Bare(inv[h].overlay, At(h))

(* A file that is not there has no routing either, so that what a login    *)
(* for a new account merges into is settled like any other.                *)
FilesKept ==
    /\ \A a \in Accounts : Settled(files[a], a)
    /\ \A h \in Handles : Alone(h)

AloneInvocation(h) ==
    \/ StartOne(h) \/ StartLogin(h) \/ LeaveAlone(h) \/ Renew(h)
    \/ VendorRenewed(h) \/ NotRenewed(h) \/ LookUp(h) \/ Write(h)

(* Merging what the plugin made into a settled file settles it again.      *)
LEMMA MergeIsSettled ==
    ASSUME NEW a, NEW base, NEW overlay, Settled(base, a), Bare(overlay, a)
    PROVE  Settled(MergePreserved(base, overlay), a)
  BY DEF Settled, Bare, MergePreserved, Defines

LEMMA IssuedIsBare ==
    ASSUME NEW a, NEW n, NEW grant \in BOOLEAN
    PROVE  Bare(Issued(a, n, grant), a)
  BY DEF Bare, Issued, Defines

LEMMA FirstOfOne == ASSUME NEW a \in Accounts PROVE First[{a}] = a
  BY FirstAssumption

LEMMA KeptInit == FilesInit => FilesKept
<1> SUFFICES ASSUME FilesInit PROVE FilesKept
  OBVIOUS
<1> DEFINE whole(a) == [m \in Members |-> [of |-> a, n |-> 1]]
<1>1. \A a \in Accounts : \/ files[a] = Empty /\ wanted[a] = Empty
                          \/ files[a] = whole(a) /\ wanted[a] = Routing(a, 1)
  BY DEF FilesInit
<1>2. ASSUME NEW a \in Accounts PROVE Settled(files[a], a)
  <2>1. CASE files[a] = Empty /\ wanted[a] = Empty
    BY <2>1, EmptyIsJson DEF Settled
  <2>2. CASE files[a] = whole(a) /\ wanted[a] = Routing(a, 1)
    BY <2>2 DEF Settled, Defines, Members, Routing
  <2> QED  BY <1>1, <2>1, <2>2
<1>3. \A h \in Handles : inv[h].pc = "idle"
  BY DEF FilesInit, Idle
<1> QED  BY <1>2, <1>3 DEF FilesKept, Alone

(* The operator edits while the handles are idle, and a file together with *)
(* what it is wanted to say.                                               *)
LEMMA OperatorKeeps ==
    ASSUME FilesInv, FilesKept, QuietEdits, SetPriority \/ ClearPriority \/ Remove
    PROVE  FilesKept'
<1>1. /\ UNCHANGED inv /\ \A h \in Handles : inv[h].pc = "idle"
      /\ DOMAIN files = Accounts /\ DOMAIN wanted = Accounts
      /\ \A a \in Accounts : Settled(files[a], a)
  BY DEF SetPriority, ClearPriority, Remove, Undisturbed, FilesInv, FilesSound, FilesKept
<1>2. \A h \in Handles : Alone(h)'
  BY <1>1 DEF Alone
<1>3. CASE SetPriority
  <2>1. PICK a \in Existing, p \in Priorities :
          /\ wanted' = [wanted EXCEPT ![a] = Routing(a, p)]
          /\ files' = [files EXCEPT ![a] = [m \in DOMAIN files[a] \union {"priority"} |->
                IF m = "priority" THEN [of |-> a, n |-> p] ELSE files[a][m]]]
          /\ dropped' = dropped \ {a}
    BY <1>3 DEF SetPriority
  <2>2. Settled(files[a], a)' /\ a \in Accounts
    BY <1>1, <2>1 DEF Settled, Defines, Routing, Existing
  <2>3. ASSUME NEW b \in Accounts, b # a PROVE Settled(files[b], b)'
    BY <1>1, <2>1, <2>3 DEF Settled
  <2> QED  BY <1>2, <2>2, <2>3 DEF FilesKept
<1>4. CASE ClearPriority
  <2>1. PICK a \in Existing :
          /\ wanted' = [wanted EXCEPT ![a] = Empty]
          /\ files' = [files EXCEPT ![a] = [m \in DOMAIN files[a] \ {"priority"} |-> files[a][m]]]
          /\ dropped' = dropped \ {a}
    BY <1>4 DEF ClearPriority
  <2>2. Settled(files[a], a)' /\ a \in Accounts
    BY <1>1, <2>1, EmptyIsJson DEF Settled, Defines, Existing
  <2>3. ASSUME NEW b \in Accounts, b # a PROVE Settled(files[b], b)'
    BY <1>1, <2>1, <2>3 DEF Settled
  <2> QED  BY <1>2, <2>2, <2>3 DEF FilesKept
<1>5. CASE Remove
  <2>1. PICK a \in Existing : /\ wanted' = [wanted EXCEPT ![a] = Empty]
                              /\ files' = [files EXCEPT ![a] = Empty]
                              /\ dropped' = dropped \ {a}
    BY <1>5 DEF Remove
  <2>2. Settled(files[a], a)' /\ a \in Accounts
    BY <1>1, <2>1, EmptyIsJson DEF Settled, Existing
  <2>3. ASSUME NEW b \in Accounts, b # a PROVE Settled(files[b], b)'
    BY <1>1, <2>1, <2>3 DEF Settled
  <2> QED  BY <1>2, <2>2, <2>3 DEF FilesKept
<1> QED  BY <1>3, <1>4, <1>5

(* A step of one invocation leaves the others as they are, since nobody    *)
(* changes what the operator wants meanwhile.                              *)
LEMMA StepKeeps ==
    ASSUME FilesInv, FilesKept, NEW h \in Handles, NEW i, Becomes(h, i), UNCHANGED wanted,
           dropped \subseteq dropped',
           \A a \in Accounts : Settled(files[a], a)',
           Alone(h)'
    PROVE  FilesKept'
<1>1. ASSUME NEW g \in Handles, g # h PROVE Alone(g)'
  <2>1. inv'[g] = inv[g] /\ At(g)' = At(g)
    BY <1>1 DEF FilesInv, Becomes, At
  <2>2. Alone(g)
    BY DEF FilesKept
  <2> QED  BY <2>1, <2>2 DEF Alone, Settled
<1> QED  BY <1>1 DEF FilesKept

LEMMA InvocationKeeps ==
    ASSUME FilesInv, FilesKept, NEW h \in Handles, AloneInvocation(h)
    PROVE  FilesKept'
<1>0. dropped \subseteq dropped'
  BY DEF AloneInvocation, StartOne, StartLogin, LeaveAlone, Renew, VendorRenewed, NotRenewed,
         LookUp, Write
<1>1. /\ Alone(h) /\ Sound(inv[h]) /\ h \in DOMAIN inv /\ DOMAIN files = Accounts
      /\ \A a \in Accounts : Settled(files[a], a)
  BY DEF FilesInv, FilesSound, FilesKept
<1>2. ASSUME UNCHANGED <<files, wanted>> PROVE \A a \in Accounts : Settled(files[a], a)'
  BY <1>0, <1>1, <1>2 DEF Settled
<1>3. ASSUME inv[h].pc # "idle", Becomes(h, Onward(h)) PROVE inv'[h].pc = "idle"
  <2>1. inv[h].todo \ {At(h)} = {} /\ Kind[h] \notin {"button", "tick"}
    BY <1>1, <1>3 DEF Alone
  <2> QED  BY <1>1, <1>3, <2>1 DEF Becomes, Onward, Done, Idle
<1>4. CASE StartOne(h)
  <2>1. PICK a \in Existing :
          Becomes(h, [Idle EXCEPT !.pc = IF Kind[h] = "call" THEN "ensure" ELSE "vendor",
                                  !.todo = {a}, !.seen = files[a], !.incoming = files[a]])
    BY <1>4 DEF StartOne
  <2>2. a \in Accounts /\ UNCHANGED <<files, wanted>> /\ Kind[h] \in {"call", "refresh"}
    BY <1>4 DEF Existing, StartOne
  <2>3. /\ inv'[h].pc \in {"ensure", "vendor"} /\ inv'[h].todo = {a}
        /\ inv'[h].incoming = files[a] /\ At(h)' = a
    BY <1>1, <2>1, <2>2, FirstOfOne DEF Becomes, Idle, At
  <2>4. Settled(files[a], a)'
    BY <1>2, <2>2
  <2>5. Alone(h)'
    BY <2>2, <2>3, <2>4 DEF Alone
  <2> QED  BY <1>2, <2>1, <2>2, <2>5, StepKeeps, <1>0
<1>5. CASE StartLogin(h)
  <2>1. PICK a \in Accounts, grant \in BOOLEAN :
          Becomes(h, [Idle EXCEPT !.pc = "save", !.todo = {a},
                                  !.overlay = Issued(a, issues[a] + 1, grant)])
    BY <1>5 DEF StartLogin
  <2>2. UNCHANGED <<files, wanted>> /\ Kind[h] = "login"
    BY <1>5 DEF StartLogin
  <2>3. /\ inv'[h].pc = "save" /\ inv'[h].todo = {a} /\ At(h)' = a
        /\ inv'[h].incoming = Empty /\ inv'[h].overlay = Issued(a, issues[a] + 1, grant)
    BY <1>1, <2>1, FirstOfOne DEF Becomes, Idle, At
  <2>4. Bare(inv'[h].overlay, a)
    BY <2>3, IssuedIsBare
  <2>5. Alone(h)'
    BY <2>2, <2>3, <2>4 DEF Alone
  <2> QED  BY <1>2, <2>1, <2>2, <2>5, StepKeeps, <1>0
<1>6. CASE LeaveAlone(h) \/ NotRenewed(h)
  <2>1. inv'[h].pc = "idle" /\ Becomes(h, Onward(h)) /\ UNCHANGED <<files, wanted>>
    BY <1>3, <1>6 DEF LeaveAlone, NotRenewed
  <2>2. Alone(h)'
    BY <2>1 DEF Alone
  <2> QED  BY <1>2, <2>1, <2>2, StepKeeps, <1>0
<1>7. CASE Renew(h)
  <2>1. /\ Becomes(h, [inv[h] EXCEPT !.pc = "vendor"]) /\ inv[h].pc = "ensure"
        /\ UNCHANGED <<files, wanted>>
    BY <1>7 DEF Renew
  <2>2. /\ inv'[h].pc = "vendor" /\ inv'[h].todo = inv[h].todo
        /\ inv'[h].incoming = inv[h].incoming /\ At(h)' = At(h)
    BY <1>1, <2>1 DEF Becomes, At, Sound, Invocations
  <2>3. Alone(h)'
    BY <1>0, <1>1, <2>1, <2>2 DEF Alone, Settled
  <2> QED  BY <1>2, <2>1, <2>3, StepKeeps, <1>0
<1>8. CASE VendorRenewed(h)
  <2>1. PICK grant \in BOOLEAN :
          Becomes(h, [inv[h] EXCEPT !.pc = "save", !.seen = Empty,
                                    !.overlay = Issued(At(h), issues[At(h)] + 1, grant)])
    BY <1>8 DEF VendorRenewed, Answer
  <2>2. inv[h].pc = "vendor" /\ UNCHANGED <<files, wanted>>
    BY <1>8 DEF VendorRenewed
  <2>3. /\ inv'[h].pc = "save" /\ inv'[h].todo = inv[h].todo
        /\ inv'[h].incoming = inv[h].incoming /\ At(h)' = At(h)
        /\ inv'[h].overlay = Issued(At(h), issues[At(h)] + 1, grant)
    BY <1>1, <2>1 DEF Becomes, At, Sound, Invocations
  <2>4. Bare(inv'[h].overlay, At(h))
    BY <2>3, IssuedIsBare
  <2>5. Alone(h)'
    BY <1>0, <1>1, <2>2, <2>3, <2>4 DEF Alone, Settled
  <2> QED  BY <1>2, <2>1, <2>2, <2>5, StepKeeps, <1>0
<1>9. CASE LookUp(h)
  <2>1. /\ inv[h].pc = "save" /\ UNCHANGED <<files, wanted>>
        /\ \/ Becomes(h, [inv[h] EXCEPT !.pc = "write",
                            !.incoming = Remembered(@, files[At(h)])])
           \/ /\ Becomes(h, [inv[h] EXCEPT !.pc = "write"])
              /\ inv[h].incoming = Empty /\ At(h) \in dropped'
    BY <1>9 DEF LookUp, StoredAuthFile
  <2>2. At(h) \in Accounts
    BY <1>1, <2>1, AtIsAccount DEF Sound
  <2>3. /\ inv'[h].pc = "write" /\ inv'[h].todo = inv[h].todo
        /\ inv'[h].overlay = inv[h].overlay /\ At(h)' = At(h)
        /\ \/ inv'[h].incoming = Remembered(inv[h].incoming, files[At(h)])
           \/ inv'[h].incoming = Empty /\ At(h) \in dropped'
    <3> DEFINE found == Remembered(inv[h].incoming, files[At(h)])
    <3> HIDE DEF found
    <3>1. CASE Becomes(h, [inv[h] EXCEPT !.pc = "write", !.incoming = found])
      BY <1>1, <3>1 DEF Becomes, At, Sound, Invocations, found
    <3>2. CASE /\ Becomes(h, [inv[h] EXCEPT !.pc = "write"])
               /\ inv[h].incoming = Empty /\ At(h) \in dropped'
      BY <1>1, <3>2 DEF Becomes, At, Sound, Invocations
    <3> QED  BY <2>1, <3>1, <3>2 DEF found
  <2>4. Settled(Remembered(inv[h].incoming, files[At(h)]), At(h))
    BY <1>1, <2>1, <2>2 DEF Alone, Remembered
  <2>5. Settled(inv[h].incoming, At(h))'
    <3>1. CASE inv'[h].incoming = Remembered(inv[h].incoming, files[At(h)])
      BY <1>0, <2>1, <2>3, <2>4, <3>1 DEF Settled
    <3>2. CASE inv'[h].incoming = Empty /\ At(h) \in dropped'
      BY <2>3, <3>2, EmptyIsJson DEF Settled
    <3> QED  BY <2>3, <3>1, <3>2
  <2>6. Alone(h)'
    BY <1>1, <2>1, <2>3, <2>5 DEF Alone
  <2> QED  BY <1>0, <1>2, <2>1, <2>6, StepKeeps
<1>10. CASE Write(h)
  <2>1. /\ files' = [files EXCEPT ![At(h)] = MergePreserved(inv[h].incoming, inv[h].overlay)]
        /\ Becomes(h, Onward(h)) /\ inv[h].pc = "write" /\ UNCHANGED wanted
    BY <1>10 DEF Write
  <2>2. At(h) \in Accounts
    BY <1>1, <2>1, AtIsAccount DEF Sound
  <2>3. Settled(MergePreserved(inv[h].incoming, inv[h].overlay), At(h))
    BY <1>1, <2>1, MergeIsSettled DEF Alone
  <2>4. \A a \in Accounts : Settled(files[a], a)'
    BY <1>0, <1>1, <2>1, <2>2, <2>3 DEF Settled
  <2>5. Alone(h)'
    BY <1>3, <2>1 DEF Alone
  <2> QED  BY <2>1, <2>4, <2>5, StepKeeps, <1>0
<1> QED  BY <1>4, <1>5, <1>6, <1>7, <1>8, <1>9, <1>10 DEF AloneInvocation

LEMMA KeptMeansKept == FilesKept => GrantsStayHome /\ RoutingIsTheOperators
  BY DEF FilesKept, Settled, GrantsStayHome, RoutingIsTheOperators, Existing

----------------------------------------------------------------------------
(* The parts of the check, put together.                                   *)

FilesOrNothing ==
    /\ FilesInv
    /\ part = "invocations" => FilesKept

LEMMA NothingMovesFiles == FilesOrNothing /\ UNCHANGED <<part, filesVars>> => FilesOrNothing'
<1> SUFFICES ASSUME FilesOrNothing, UNCHANGED <<part, filesVars>> PROVE FilesOrNothing'
  OBVIOUS
<1>1. FilesInv'
  BY DEF FilesOrNothing, filesVars, FilesInv, FilesSound, Sound, Json, AtHome, Defines, Empty,
         Invocations
<1>2. FilesKept => FilesKept'
  BY DEF filesVars, FilesKept, Settled, Alone, At
<1> QED  BY <1>1, <1>2 DEF FilesOrNothing

LEMMA PartsStep ==
    ASSUME QuietEdits, Catalogues \union OneAtATime \subseteq Handles,
           FilesOrNothing, [AllFilesNext]_<<part, vars, filesVars>>
    PROVE  FilesOrNothing'
<1>1. CASE UNCHANGED <<part, vars, filesVars>> \/ (part = "renewals" /\ Next /\ UNCHANGED <<part, filesVars>>)
  BY <1>1, NothingMovesFiles
<1>2. CASE part = "catalogues" /\ CataloguesNext /\ UNCHANGED <<part, vars>>
  BY <1>2, OperatorKeepsSound, InvocationKeepsSound DEF CataloguesNext, FilesOrNothing
<1>3. CASE part = "invocations" /\ OneAccountNext /\ UNCHANGED <<part, vars>>
  <2>1. (SetPriority \/ ClearPriority \/ Remove) \/ \E h \in Handles : AloneInvocation(h)
    BY <1>3 DEF OneAccountNext, AloneInvocation
  <2> QED
    BY <1>3, <2>1, OperatorKeepsSound, OperatorKeeps, InvocationKeepsSound, InvocationKeeps
       DEF FilesOrNothing, AloneInvocation, Invocation
<1> QED  BY <1>1, <1>2, <1>3 DEF AllFilesNext

(* An operator who edits while nobody else is at work keeps the routing    *)
(* members, and every account its own grant, through whatever invocations  *)
(* about one credential there are at once, their saves interleaved and the *)
(* file removed or created in between.                                     *)
THEOREM OneFileIsAlwaysKept ==
    ASSUME QuietEdits, Catalogues \union OneAtATime \subseteq Handles
    PROVE  AllFilesSpec => []OneFileIsKept
<1>1. AllFilesInit => FilesOrNothing
  BY InitIsSound, KeptInit DEF AllFilesInit, FilesOrNothing
<1>2. FilesOrNothing /\ [AllFilesNext]_<<part, vars, filesVars>> => FilesOrNothing'
  BY PartsStep
<1>3. FilesOrNothing => OneFileIsKept
  BY KeptMeansKept DEF FilesOrNothing, OneFileIsKept
<1> QED  BY <1>1, <1>2, <1>3, PTL DEF AllFilesSpec
(* Whichever part is looked at, files, handles, callers and the Refresher   *)
(* are type correct.                                                       *)
THEOREM AllFilesTypeCorrect ==
    ASSUME Catalogues \union OneAtATime \subseteq Handles
    PROVE  AllFilesSpec => []AllFilesTypeOK
<1>1. AllFilesInit => TypeOK /\ FilesInv
  BY TypeInit, InitIsSound DEF AllFilesInit
<1>2. TypeOK /\ FilesInv /\ [AllFilesNext]_<<part, vars, filesVars>> => TypeOK' /\ FilesInv'
  <2> SUFFICES ASSUME TypeOK, FilesInv, [AllFilesNext]_<<part, vars, filesVars>>
               PROVE  TypeOK' /\ FilesInv'
    OBVIOUS
  <2>1. [Next]_vars
    BY DEF AllFilesNext
  <2>2. [FilesNext]_filesVars
    BY DEF AllFilesNext, CataloguesNext, OneAccountNext, FilesNext, Invocation
  <2> QED  BY <2>1, <2>2, TypeStep, SoundStep
<1>3. TypeOK /\ FilesInv => AllFilesTypeOK
  BY SoundIsTyped DEF AllFilesTypeOK
<1> QED  BY <1>1, <1>2, <1>3, PTL DEF AllFilesSpec
=============================================================================
