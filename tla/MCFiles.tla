------------------------------ MODULE MCFiles ------------------------------
(* Values for the checks of what becomes of the auth files: a behaviour is *)
(* one of the renewals of a single file, call by call, of those who        *)
(* rewrite the files of many accounts, or of those who rewrite the file of *)
(* one while the operator edits it.                                        *)
EXTENDS MCAuthRefresh, MCAuthFiles

VARIABLE part

(* A part that is not looked at stays as it is.                            *)
AllFilesInit ==
    /\ part \in {"renewals", "catalogues", "invocations"}
    /\ Init /\ FilesInit
    /\ part # "renewals" => file = 1
    /\ part = "renewals" => Existing = {}

(* The operator's priorities are left to the invocations about one file,   *)
(* and so are third credentials.                                           *)
CataloguesNext ==
    /\ Remove \/ \E h \in Catalogues : Invocation(h)
    /\ edits' <= 1 /\ \A a \in Accounts : issues'[a] <= 2

AllFilesNext ==
    \/ part = "renewals" /\ Next /\ UNCHANGED <<part, filesVars>>
    \/ part = "catalogues" /\ CataloguesNext /\ UNCHANGED <<part, vars>>
    \/ part = "invocations" /\ OneAccountNext /\ UNCHANGED <<part, vars>>

AllFilesSpec == AllFilesInit /\ [][AllFilesNext]_<<part, vars, filesVars>>

(* The part looked at is type correct.                                     *)
AllFilesTypeOK == IF part = "renewals" THEN TypeOK ELSE FilesTypeOK

(* Invocations on one credential keep the grants of two accounts apart and *)
(* leave the routing members of a file as the operator last chose them,    *)
(* but for a login whose look-up of the file failed.                       *)
OneFileIsKept == part = "invocations" => GrantsStayHome /\ RoutingIsTheOperators
=============================================================================
