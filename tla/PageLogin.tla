----------------------------- MODULE PageLogin ------------------------------
(***************************************************************************)
(* The sign-ins of raccoon and loomy: the plugin's own page shows a code   *)
(* to scan, or takes a number and the code of a message, and each load of  *)
(* it moves the sign-in by one step; auth.login.poll only looks. Looked at *)
(* is one session, the tabs that show its pages, the user's phone and the  *)
(* vendor. One person signs in, with one number.                           *)
(***************************************************************************)
EXTENDS Naturals

CONSTANTS
    Sites,      \* the plugins looked at
    TabSets,    \* the sets of tabs a session may be open in
    MaxScanCodes    \* bound: codes to scan that are made

ASSUME SitesAssumption == Sites \subseteq {"raccoon", "loomy"}
ASSUME ScanCodesAssumption == MaxScanCodes \in Nat \ {0}

VARIABLES
    site, tabs,
    there, outlived, finished,  \* the session: registered, past its TTL, recordVerified
    qr,         \* its code to scan, 0 for none
    wx,         \* loomy: the code of a scan and the rcode got for it, 0 for none; Bind = 1?
    binding,    \* loomy: binding a number: message sent, its code typed
    message,    \* loomy: signing in by message: the same
    draft,      \* loomy: is the number typed in?
    tab,        \* what each tab is at, the page it shows, and the code it took up
    phone,      \* what the phone has done with each code
    made,       \* codes to scan made so far
    tied,       \* does the person's account have a number?
    accepted, lost,     \* the scans bind/auth has accepted, those whose answer failed on the way
    saved,      \* is the account in its file?
    managerTold,
    hitch, again    \* of a lone tab: has a call failed, the accepted codes it has sent again

sessionOf == <<there, finished, qr, wx, binding, message, draft>>
pageWorld == <<site, tabs, outlived, tied>>
vendorOf == <<made, accepted, lost, again>>
pageVars == <<pageWorld, sessionOf, vendorOf, tab, phone, saved, managerTold, hitch>>

AllTabs == UNION TabSets
OneTab == \E t \in tabs : tabs = {t}
ScanCodes == 1..MaxScanCodes
NoMessage == [sent |-> FALSE, typed |-> FALSE]
NoScan == [code |-> 0, rcode |-> 0, bind |-> FALSE]

PageInit ==
    /\ site \in Sites /\ tabs \in TabSets
    /\ tied \in BOOLEAN /\ (site = "raccoon" => tied)
    /\ there = TRUE /\ outlived = FALSE /\ finished = FALSE
    /\ qr = 0 /\ wx = NoScan /\ binding = NoMessage /\ message = NoMessage /\ draft = FALSE
    /\ tab = [t \in AllTabs |-> [pc |-> "rest", page |-> "opened", took |-> 0]]
    /\ phone = [c \in ScanCodes |-> "unseen"] /\ made = 0 /\ accepted = {} /\ lost = {}
    /\ saved = FALSE /\ managerTold = "" /\ hitch = FALSE /\ again = {}

TabAt(t, pc) == t \in tabs /\ tab[t].pc = pc
TabGoes(t, pc) == tab' = [tab EXCEPT ![t].pc = pc]
Shows(t, page) == tab' = [tab EXCEPT ![t].pc = "rest", ![t].page = page, ![t].took = 0]

(* A call of the vendor or the host that may fail; counted in a lone tab.  *)
Works == UNCHANGED hitch
Breaks == hitch' = OneTab

----------------------------------------------------------------------------
(* The person, the time, and a shutdown of the plugin.                     *)

Scan ==
    /\ \E t \in tabs, c \in ScanCodes :
          /\ tab[t].page = "qr" /\ qr = c
          /\ \/ phone[c] = "unseen" /\ phone' = [phone EXCEPT ![c] = "scanned"]
             \/ /\ phone[c] = "scanned"
                /\ \E says \in {"confirmed", "cancelled"} : phone' = [phone EXCEPT ![c] = says]
    /\ UNCHANGED <<pageWorld, sessionOf, vendorOf, tab, saved, managerTold, hitch>>

(* WeChat's codes grow old.                                                *)
Stale ==
    /\ site = "loomy"
    /\ \E c \in 1..made : phone[c] # "expired" /\ phone' = [phone EXCEPT ![c] = "expired"]
    /\ UNCHANGED <<pageWorld, sessionOf, vendorOf, tab, saved, managerTold, hitch>>

OutliveSession ==
    /\ ~outlived /\ outlived' = TRUE
    /\ UNCHANGED <<site, tabs, tied, sessionOf, vendorOf, tab, phone, saved, managerTold, hitch>>

ShutdownPages ==
    /\ there /\ there' = FALSE
    /\ UNCHANGED <<pageWorld, finished, qr, wx, binding, message, draft, vendorOf, tab, phone, saved,
                   managerTold, hitch>>

(* handleAuthLoginPoll: no call of the vendor; what has ended is forgotten. *)
LookUp == there /\ ~outlived

ManagerPoll ==
    /\ managerTold = ""
    /\ ~LookUp \/ finished
    /\ managerTold' = IF LookUp THEN "success" ELSE "error"
    /\ there' = FALSE
    /\ UNCHANGED <<pageWorld, finished, qr, wx, binding, message, draft, vendorOf, tab, phone, saved,
                   hitch>>

----------------------------------------------------------------------------
(* The links a page has.                                                   *)

QrLinks == IF site = "raccoon" THEN {"qr", "fresh"}
           ELSE {"qr", "fresh", "sms"} \cup (IF draft THEN {"send"} ELSE {})
BindLinks == {"fresh"} \cup
    IF binding.sent THEN {"bindverify", "bindsend", "binddigit"}
    ELSE {"bindsend", "phone"} \cup (IF draft THEN {"phoneclear"} ELSE {})
SmsLinks == {"qr"} \cup IF draft THEN {"send", "phoneclear"} ELSE {"phone"}

Links(page) ==
    CASE page = "opened" -> {"qr"}
      [] page = "qr" -> QrLinks
      [] page = "bind" -> BindLinks
      [] page = "sms" -> SmsLinks
      [] page = "failed" -> {"retry", "fresh", "sms"}
      [] page = "code" -> {"verify", "send", "digit"}
      [] page = "sms failed" -> {"verify", "send"}
      [] OTHER -> {}

(* A session that is gone sends the page to another one. Bound: numbers are *)
(* typed in when there is one tab only.                                    *)
Follow(t) ==
    /\ TabAt(t, "rest")
    /\ \E link \in Links(tab[t].page) :
          /\ OneTab \/ link \in {"qr", "fresh", "retry"}
          /\ IF LookUp THEN TabGoes(t, link) /\ UNCHANGED there
             ELSE Shows(t, "other") /\ there' = FALSE
    /\ UNCHANGED <<pageWorld, finished, qr, wx, binding, message, draft, vendorOf, phone, saved,
                   managerTold, hitch>>

----------------------------------------------------------------------------
(* raccoon: advanceQR.                                                     *)

(* rotateQR: the code is made at home.                                     *)
Rotate(t) ==
    /\ made < MaxScanCodes
    /\ made' = made + 1 /\ qr' = made + 1
    /\ Shows(t, "qr")

LoadScan(t) ==
    /\ site = "raccoon" /\ (TabAt(t, "qr") \/ TabAt(t, "fresh"))
    /\ CASE finished -> Shows(t, "success") /\ UNCHANGED <<made, qr>>
         [] ~finished /\ (TabAt(t, "fresh") \/ qr = 0) -> Rotate(t)
         [] OTHER -> /\ tab' = [tab EXCEPT ![t].pc = "ask", ![t].took = qr]
                     /\ UNCHANGED <<made, qr>>
    /\ UNCHANGED <<pageWorld, there, finished, wx, binding, message, draft, accepted, lost, again, phone,
                   saved, managerTold, hitch>>

(* pollQRCodeOnce: whatever is not an answer reads as waiting. The answer  *)
(* with the tokens is given once.                                          *)
ScanReplies(c) ==
    {"waiting"} \cup (IF phone[c] \in {"cancelled", "confirmed"} THEN {phone[c]} ELSE {})

AskScan(t) ==
    /\ site = "raccoon" /\ TabAt(t, "ask")
    /\ \E reply \in ScanReplies(tab[t].took) :
          CASE reply = "waiting" -> /\ Shows(t, "qr") /\ UNCHANGED <<made, qr, phone>>
                                    /\ IF ScanReplies(tab[t].took) = {reply} THEN Works ELSE Breaks
            [] reply = "cancelled" -> Rotate(t) /\ Works /\ UNCHANGED phone
            [] OTHER -> /\ phone' = [phone EXCEPT ![tab[t].took] = "taken"]
                        /\ TabGoes(t, "store") /\ Works /\ UNCHANGED <<made, qr>>
    /\ UNCHANGED <<pageWorld, there, finished, wx, binding, message, draft, accepted, lost, again, saved,
                   managerTold>>

----------------------------------------------------------------------------
(* loomy: advanceWechatQR and what follows it.                             *)

(* fresh drops the code, its scan and its binding.                         *)
LoadWechat(t) ==
    /\ site = "loomy" /\ (TabAt(t, "qr") \/ TabAt(t, "fresh"))
    /\ IF TabAt(t, "fresh") THEN qr' = 0 /\ wx' = NoScan /\ binding' = NoMessage
       ELSE UNCHANGED <<qr, wx, binding>>
    /\ tab' = [tab EXCEPT ![t].pc = IF qr' = 0 THEN "start" ELSE "ask", ![t].took = qr']
    /\ UNCHANGED <<pageWorld, there, finished, message, draft, vendorOf, phone, saved, managerTold,
                   hitch>>

StartWechat(t) ==
    /\ TabAt(t, "start") /\ made < MaxScanCodes
    /\ \/ /\ made' = made + 1 /\ qr' = made + 1 /\ wx' = NoScan /\ binding' = NoMessage /\ Works
       \/ UNCHANGED <<made, qr, wx, binding>> /\ Breaks
    /\ Shows(t, "qr")
    /\ UNCHANGED <<pageWorld, there, finished, message, draft, accepted, lost, again, phone, saved,
                   managerTold>>

(* pollWechatOnce: 405 brings the scan's code, in one frame; what is spent  *)
(* is expired. A cancelled code stays till the person asks for another.    *)
WechatReplies(c) ==
    {"error", CASE phone[c] \in {"unseen", "scanned", "cancelled"} -> "waiting"
                [] phone[c] \in {"expired", "taken"} -> "expired"
                [] OTHER -> "confirmed"}

AskWechat(t) ==
    /\ site = "loomy" /\ TabAt(t, "ask")
    /\ \E reply \in WechatReplies(tab[t].took) :
          /\ IF reply = "error" THEN Breaks ELSE Works
          /\ CASE reply \in {"error", "waiting"} -> Shows(t, "qr") /\ UNCHANGED <<wx, phone>>
               [] reply = "expired" -> TabGoes(t, "start") /\ UNCHANGED <<wx, phone>>
               [] OTHER -> /\ phone' = [phone EXCEPT ![tab[t].took] = "taken"]
                           /\ wx' = [wx EXCEPT !.code = tab[t].took]
                           /\ TabGoes(t, "exchange")
    /\ UNCHANGED <<pageWorld, there, finished, qr, binding, message, draft, vendorOf, saved,
                   managerTold>>

(* bindThirdAccountAuth takes a code once. Its answer can be lost, or be    *)
(* without an rcode: the code is kept then, and the page's retry sends it.  *)
ExchangeScan(t) ==
    /\ TabAt(t, "exchange")
    /\ IF wx.code = 0 THEN Shows(t, "failed") /\ UNCHANGED <<accepted, lost, again, hitch>>
       ELSE /\ again' = again \cup {c \in accepted : OneTab /\ c = wx.code}
            /\ \/ /\ wx.code \notin accepted /\ accepted' = accepted \cup {wx.code} /\ Works
                  /\ tab' = [tab EXCEPT ![t].pc = "note", ![t].took = wx.code] /\ UNCHANGED lost
               \/ wx.code \in accepted /\ Shows(t, "failed") /\ UNCHANGED <<accepted, lost>> /\ Works
               \/ Shows(t, "failed") /\ UNCHANGED <<accepted, lost>> /\ Breaks
               \/ /\ wx.code \notin accepted /\ accepted' = accepted \cup {wx.code}
                  /\ lost' = lost \cup {wx.code} /\ Shows(t, "failed") /\ Breaks
    /\ UNCHANGED <<pageWorld, sessionOf, made, phone, saved, managerTold>>

(* From here on the rcode counts. Slip: the code is kept.                  *)
NoteBindingOnly(t) ==
    /\ TabAt(t, "note")
    /\ wx' = [wx EXCEPT !.rcode = tab[t].took, !.bind = tied]
    /\ TabGoes(t, "exchange")
    /\ UNCHANGED <<pageWorld, there, finished, qr, binding, message, draft, vendorOf, phone, saved,
                   managerTold, hitch>>

NoteBinding(t) ==
    /\ TabAt(t, "note")
    /\ wx' = [code |-> 0, rcode |-> tab[t].took, bind |-> tied]
    /\ TabGoes(t, "resume")
    /\ UNCHANGED <<pageWorld, there, finished, qr, binding, message, draft, vendorOf, phone, saved,
                   managerTold, hitch>>

(* resumeWechatLogin: bind/skip, unless there is a number to bind first.   *)
Resume(t) ==
    /\ TabAt(t, "resume")
    /\ CASE wx.rcode = 0 -> Shows(t, "failed") /\ UNCHANGED hitch
         [] wx.rcode # 0 /\ ~wx.bind -> Shows(t, "bind") /\ UNCHANGED hitch
         [] OTHER -> \/ TabGoes(t, "store") /\ Works
                     \/ Shows(t, "failed") /\ Breaks
    /\ UNCHANGED <<pageWorld, sessionOf, vendorOf, phone, saved, managerTold>>

Retry(t) ==
    /\ TabAt(t, "retry")
    /\ TabGoes(t, IF wx.rcode = 0 THEN "exchange" ELSE "resume")
    /\ UNCHANGED <<pageWorld, sessionOf, vendorOf, phone, saved, managerTold, hitch>>

----------------------------------------------------------------------------
(* loomy: numbers and messages. A code is typed in at once.                *)

TypeNumber(t) ==
    /\ TabAt(t, "phone") \/ TabAt(t, "phoneclear")
    /\ draft' = TabAt(t, "phone")
    /\ Shows(t, "sms")
    /\ UNCHANGED <<pageWorld, there, finished, qr, wx, binding, message, vendorOf, phone, saved,
                   managerTold, hitch>>

LoadSms(t) ==
    /\ TabAt(t, "sms") /\ Shows(t, "sms")
    /\ UNCHANGED <<pageWorld, sessionOf, vendorOf, phone, saved, managerTold, hitch>>

(* sendLoginCode; a new message empties what was typed.                    *)
SendCode(t) ==
    /\ TabAt(t, "send")
    /\ \/ draft /\ message' = [sent |-> TRUE, typed |-> FALSE] /\ Shows(t, "code") /\ Works
       \/ draft /\ Shows(t, "sms failed") /\ UNCHANGED message /\ Breaks
       \/ ~draft /\ Shows(t, "sms failed") /\ UNCHANGED message /\ Works
    /\ UNCHANGED <<pageWorld, there, finished, qr, wx, binding, draft, vendorOf, phone, saved,
                   managerTold>>

TypeCode(t) ==
    /\ TabAt(t, "digit")
    /\ message' = [message EXCEPT !.typed = message.sent]
    /\ Shows(t, IF message.sent THEN "code" ELSE "sms failed")
    /\ UNCHANGED <<pageWorld, there, finished, qr, wx, binding, draft, vendorOf, phone, saved,
                   managerTold, hitch>>

(* verifyLoginCode; what failed stays for another try.                     *)
Verify(t) ==
    /\ TabAt(t, "verify")
    /\ \/ message.sent /\ message.typed /\ draft /\ TabGoes(t, "store") /\ Works
       \/ Shows(t, "sms failed") /\ IF message.typed THEN Breaks ELSE Works
    /\ UNCHANGED <<pageWorld, sessionOf, vendorOf, phone, saved, managerTold>>

(* sendWechatBindCode, with the number typed in.                           *)
SendBinding(t) ==
    /\ TabAt(t, "bindsend")
    /\ \/ /\ wx.rcode # 0 /\ draft /\ Works
          /\ binding' = [sent |-> TRUE, typed |-> FALSE]
       \/ UNCHANGED binding /\ IF wx.rcode # 0 /\ draft THEN Breaks ELSE Works
    /\ Shows(t, "bind")
    /\ UNCHANGED <<pageWorld, there, finished, qr, wx, message, draft, vendorOf, phone, saved,
                   managerTold>>

TypeBinding(t) ==
    /\ TabAt(t, "binddigit")
    /\ binding' = [binding EXCEPT !.typed = TRUE]
    /\ Shows(t, "bind")
    /\ UNCHANGED <<pageWorld, there, finished, qr, wx, message, draft, vendorOf, phone, saved,
                   managerTold, hitch>>

VerifyBinding(t) ==
    /\ TabAt(t, "bindverify")
    /\ \/ wx.rcode # 0 /\ binding.sent /\ binding.typed /\ TabGoes(t, "store") /\ Works
       \/ /\ Shows(t, "bind")
          /\ IF wx.rcode # 0 /\ binding.sent /\ binding.typed THEN Breaks ELSE Works
    /\ UNCHANGED <<pageWorld, sessionOf, vendorOf, phone, saved, managerTold>>

----------------------------------------------------------------------------
(* storeLoginCredential: the file first, then, other calls of the vendor    *)
(* later, the session.                                                     *)

NotKept(t) ==
    Shows(t, CASE site = "raccoon" -> "qr" [] tab[t].page \in {"bind", "sms failed"} -> tab[t].page
               [] tab[t].page = "code" -> "sms failed" [] OTHER -> "failed")

KeepAccount(t) ==
    /\ TabAt(t, "store")
    /\ \/ saved' = TRUE /\ TabGoes(t, "record") /\ Works
       \/ NotKept(t) /\ Breaks /\ UNCHANGED saved
    /\ UNCHANGED <<pageWorld, sessionOf, vendorOf, phone, managerTold>>

Record(t) ==
    /\ TabAt(t, "record")
    /\ finished' = TRUE /\ message' = [message EXCEPT !.typed = FALSE]
    /\ Shows(t, "success")
    /\ UNCHANGED <<pageWorld, there, qr, wx, binding, draft, vendorOf, phone, saved, managerTold,
                   hitch>>

----------------------------------------------------------------------------

Load(t) ==
    \/ LoadScan(t) \/ AskScan(t) \/ LoadWechat(t) \/ StartWechat(t) \/ AskWechat(t) \/ ExchangeScan(t)
    \/ NoteBinding(t) \/ Resume(t) \/ Retry(t) \/ TypeNumber(t) \/ LoadSms(t) \/ SendCode(t)
    \/ TypeCode(t) \/ Verify(t) \/ SendBinding(t) \/ TypeBinding(t) \/ VerifyBinding(t)
    \/ KeepAccount(t) \/ Record(t)

PageNext ==
    \/ Scan \/ Stale \/ OutliveSession \/ ShutdownPages \/ ManagerPoll
    \/ \E t \in AllTabs : Follow(t) \/ Load(t)

PageSpec == PageInit /\ [][PageNext]_pageVars

(* Time passes and the manager goes on polling.                            *)
FairPageSpec == PageSpec /\ WF_pageVars(OutliveSession) /\ WF_pageVars(ManagerPoll)

----------------------------------------------------------------------------
Pcs == {"rest", "qr", "fresh", "sms", "send", "retry", "phone", "phoneclear", "verify", "digit",
        "bindsend", "bindverify", "binddigit", "ask", "start", "exchange", "note", "resume",
        "store", "record"}
PagesShown == {"opened", "qr", "bind", "sms", "failed", "code", "sms failed", "success", "other"}

PageTypeOK ==
    /\ site \in Sites /\ tabs \in TabSets
    /\ there \in BOOLEAN /\ outlived \in BOOLEAN /\ finished \in BOOLEAN /\ draft \in BOOLEAN
    /\ tied \in BOOLEAN /\ saved \in BOOLEAN /\ hitch \in BOOLEAN
    /\ made \in 0..MaxScanCodes /\ qr \in 0..made /\ accepted \subseteq 1..made
    /\ lost \subseteq accepted /\ again \subseteq accepted
    /\ wx \in [code : 0..made, rcode : 0..made, bind : BOOLEAN]
    /\ binding \in [sent : BOOLEAN, typed : BOOLEAN] /\ message \in [sent : BOOLEAN, typed : BOOLEAN]
    /\ tab \in [AllTabs -> [pc : Pcs, page : PagesShown, took : 0..made]]
    /\ phone \in [ScanCodes -> {"unseen", "scanned", "confirmed", "cancelled", "expired", "taken"}]
    /\ managerTold \in {"", "success", "error"}

(* "The status stays pending until the credential is stored": what the      *)
(* session says, and the manager is told, is true of the disk.             *)
ToldIsSaved == finished \/ managerTold = "success" => saved

(* "The code is single-use, so it stops being usable the moment bind/auth   *)
(* accepts it; everything after that runs on the rcode": in one tab it is   *)
(* not sent again, whatever links are followed, unless the answer that      *)
(* brought its rcode was itself lost.                                       *)
ScanIsSpentOnce == OneTab => again \subseteq lost

(* A person with one tab, whose calls all go through, is not told that the  *)
(* scan has failed.                                                        *)
ScansSucceed == OneTab /\ ~hitch => \A t \in tabs : tab[t].page # "failed"

PagesAreTrue == ToldIsSaved /\ ScanIsSpentOnce /\ ScansSucceed

(* "Press the digits to enter the 11 digits": whoever has typed the number  *)
(* on the page that asks for a number to bind can have the message sent.    *)
NumberCanBeBound ==
    \A t \in tabs : TabAt(t, "rest") /\ draft /\ tab[t].page = "sms" /\ wx.rcode # 0 /\ ~wx.bind
        => "bindsend" \in Links(tab[t].page)

(* The manager is told how the sign-in ended.                              *)
ManagerIsTold == <>(managerTold # "")
=============================================================================
