---------------------------- MODULE MCAuthFiles ----------------------------
(* Values for the checks of AuthFiles.                                     *)
EXTENDS AuthFiles

(* The handles whose invocations are about many credentials, or about one. *)
Catalogues == {"page", "button", "tick"}
OneAtATime == {"call", "refresh", "login"}
AllHandles == [h \in Catalogues \union OneAtATime |-> h]
JustPage == [h \in {"page"} |-> h]

CONSTANTS a1, a2

TwoAccounts == {a1, a2}
Lowest == [S \in (SUBSET Accounts) \ {{}} |-> IF a1 \in S THEN a1 ELSE a2]

TwoPriorities == {1, 2}
OnePriority == {1}

(* The invocations that are about one account. Three credentials are for   *)
(* the first account, the other one has two.                               *)
OneAccountNext ==
    /\ \/ SetPriority \/ ClearPriority \/ Remove
       \/ \E h \in OneAtATime :
            \/ StartOne(h) \/ StartLogin(h) \/ LeaveAlone(h) \/ Renew(h)
            \/ VendorRenewed(h) \/ NotRenewed(h) \/ LookUp(h) \/ Write(h)
    /\ issues'[a2] <= 2
=============================================================================
