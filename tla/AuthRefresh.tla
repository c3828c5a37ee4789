---------------------------- MODULE AuthRefresh ----------------------------
(***************************************************************************)
(* The credential freshness check of internal/jethub/authrefresh, for one  *)
(* credential: goroutines that call Refresher.EnsureUsable, the vendor's   *)
(* refresh endpoint, the auth file the host keeps, and the two other       *)
(* writers of that file (a new login and the host's own refresh loop).     *)
(*                                                                         *)
(* The bytes of a credential are a number: 1 is the first login and every  *)
(* issue by the vendor takes the next number, so that comparing numbers is *)
(* comparing fingerprints.  Every lock section, every vendor call and      *)
(* every call to the host is a step of its own; the clock moves between    *)
(* any two of them.  A local that is not read again is reset, so that equal *)
(* states are equal.                                                       *)
(***************************************************************************)
EXTENDS Integers

CONSTANTS
    Callers,        \* goroutines that may be inside EnsureUsable at once
    NoCaller,       \* stands for "no refresh in flight"
    MaxBytes,       \* bound: how many credentials the vendor ever issues
    MaxTime,        \* bound: where the clock stops
    Lead,           \* Policy.Lead
    Cooldown,       \* Policy.Cooldown
    Lives,          \* lifetimes the vendor gives a credential (or NoExpiry)
    Naming,         \* may a request name its auth file? a subset of BOOLEAN
    Rotating,       \* does a renewal revoke the grant it was made with?
    Answers,        \* the unhelpful answers the vendor may give
    SaveFails,      \* may host.auth.save fail?
    Logins,         \* may the user log in again?
    HostRefreshes   \* does the host's own refresh loop run?

Never == -1
NoExpiry == -1
NoBytes == 0

ASSUME CallersAssumption == NoCaller \notin Callers
ASSUME BoundsAssumption == MaxBytes \in Nat \ {0} /\ MaxTime \in Nat
ASSUME PolicyAssumption == Lead \in Nat /\ Cooldown \in Nat
ASSUME LivesAssumption == Lives \subseteq Nat \union {NoExpiry}
ASSUME NamingAssumption == Naming \subseteq BOOLEAN
ASSUME AnswersAssumption ==
    Answers \subseteq {"transport", "lost", "empty", "refused"}

Bytes == 1..MaxBytes
FileKey == 0                        \* the key of a request that names its file
Keys == {FileKey} \union Bytes      \* the others are tracked by their bytes
Errors == {"none", "transport", "empty", "terminal", "save"}
Failures == Errors \ {"none"}

Result == [storage : Bytes, refreshed : BOOLEAN, attempted : BOOLEAN,
           expired : BOOLEAN, dead : BOOLEAN, err : Errors]
State == [inflight : Callers \union {NoCaller}, lastAttempt : Nat \union {Never},
          lastErr : Errors, dead : BOOLEAN, deadFingerprint : Bytes \union {NoBytes}]
Request == [bytes : Bytes, named : BOOLEAN]
Credential == [expiry : Nat \union {NoExpiry}, grant : BOOLEAN]
HostLoop == [at : {"idle", "vendor", "store"}, bytes : Bytes]

VARIABLES
    now,        \* the clock
    file,       \* the bytes in the auth file the host keeps
    issued,     \* the newest bytes the vendor issued
    cred,       \* what the bytes say: their expiry, and whether they can renew
    live,       \* the bytes whose renewal grant the vendor still honours
    refused,    \* the bytes the vendor answered a terminal failure for
    states,     \* Refresher.states
    pc,         \* where a caller is
    req,        \* a caller's request
    at,         \* the time a caller read when it entered Ensure
    leader,     \* whose refresh a caller joined
    got,        \* the bytes a caller's renewal was answered with
    ret,        \* a caller's result
    host        \* the host's refresh loop

vendor == <<issued, cred, live, refused>>
caller == <<pc, req, at, leader, got, ret>>
vars == <<now, file, vendor, states, caller, host>>

NewState == [inflight |-> NoCaller, lastAttempt |-> Never, lastErr |-> "none",
             dead |-> FALSE, deadFingerprint |-> NoBytes]

(* The locals of a caller that is not inside Ensure.                       *)
NoRequest == [bytes |-> 1, named |-> TRUE]
NoResult == [storage |-> 1, refreshed |-> FALSE, attempted |-> FALSE,
             expired |-> FALSE, dead |-> FALSE, err |-> "none"]

(* keyFor: the file name the host knows, or the credential's own bytes.    *)
KeyFor(r) == IF r.named THEN FileKey ELSE r.bytes

(* IsTerminal *)
IsTerminal(err) == err = "terminal"

Past(b) == cred[b].expiry # NoExpiry /\ cred[b].expiry <= now

Init ==
    /\ now = 0
    /\ file = 1
    /\ issued = 1
    /\ \E l \in Lives : cred = [b \in Bytes |-> [expiry |-> l, grant |-> TRUE]]
    /\ live = {1}
    /\ refused = {}
    /\ states = [k \in Keys |-> NewState]
    /\ pc = [c \in Callers |-> "idle"]
    /\ req = [c \in Callers |-> NoRequest]
    /\ at = [c \in Callers |-> 0]
    /\ leader = [c \in Callers |-> NoCaller]
    /\ got = [c \in Callers |-> 1]
    /\ ret = [c \in Callers |-> NoResult]
    /\ host = [at |-> "idle", bytes |-> 1]

----------------------------------------------------------------------------
(* The vendor and the host, as far as the code relies on them.             *)

Issue(life, grant) ==
    /\ issued < MaxBytes
    /\ issued' = issued + 1
    /\ cred' = [cred EXCEPT ![issued + 1] =
                  [expiry |-> IF life = NoExpiry THEN NoExpiry ELSE now + life,
                   grant |-> grant]]

(* The vendor renews b: a rotating vendor withdraws the grant it was given. *)
Renewed(b) ==
    /\ b \in live
    /\ \E l \in Lives : Issue(l, TRUE)
    /\ live' = (IF Rotating THEN live \ {b} ELSE live) \union {issued + 1}
    /\ UNCHANGED refused

(* The vendor's 401/403: always for a dead grant, at times for a live one. *)
Refused(b) ==
    /\ b \in live => "refused" \in Answers
    /\ refused' = refused \union {b}
    /\ UNCHANGED <<issued, cred, live>>

Tick ==
    /\ now < MaxTime
    /\ now' = now + 1
    /\ UNCHANGED <<file, vendor, states, caller, host>>

(* A login stores new bytes under the same file name; a ticket-flow login  *)
(* carries nothing to renew with.                                          *)
Login ==
    /\ Logins
    /\ \E l \in Lives, g \in BOOLEAN :
         /\ Issue(l, g)
         /\ live' = IF g THEN live \union {issued + 1} ELSE live
    /\ file' = issued + 1
    /\ UNCHANGED <<now, refused, states, caller, host>>

(* The host's loop calls the provider's auth.refresh handler itself and    *)
(* stores the answer: it takes no part in the Refresher's single-flight.   *)
HostStart ==
    /\ HostRefreshes
    /\ host.at = "idle"
    /\ cred[file].grant
    /\ host' = [at |-> "vendor", bytes |-> file]
    /\ UNCHANGED <<now, file, vendor, states, caller>>

HostAnswered ==
    /\ host.at = "vendor"
    /\ \/ Renewed(host.bytes) /\ host' = [at |-> "store", bytes |-> issued + 1]
       \/ Refused(host.bytes) /\ host' = [at |-> "idle", bytes |-> 1]
       \/ /\ "transport" \in Answers
          /\ host' = [at |-> "idle", bytes |-> 1]
          /\ UNCHANGED vendor
    /\ UNCHANGED <<now, file, states, caller>>

HostStore ==
    /\ host.at = "store"
    /\ file' = host.bytes
    /\ host' = [at |-> "idle", bytes |-> 1]
    /\ UNCHANGED <<now, vendor, states, caller>>

(* The host hands a caller the bytes it holds; the caller may act on them   *)
(* much later.                                                             *)
HandOver(c) ==
    /\ pc[c] = "idle"
    /\ \E n \in Naming : req' = [req EXCEPT ![c] = [bytes |-> file, named |-> n]]
    /\ pc' = [pc EXCEPT ![c] = "check"]
    /\ UNCHANGED <<now, file, vendor, states, at, leader, got, ret, host>>

----------------------------------------------------------------------------
(* Refresher.Ensure                                                        *)

(* Nothing to do: no expiry, far from it, or nothing to renew with.        *)
LeftAlone(b) ==
    \/ cred[b].expiry = NoExpiry
    \/ now + Lead < cred[b].expiry
    \/ ~cred[b].grant

Check(c) ==
    LET b == req[c].bytes IN
    /\ pc[c] = "check"
    /\ at' = [at EXCEPT ![c] = now]
    /\ ret' = [ret EXCEPT ![c] = [storage |-> b, refreshed |-> FALSE, attempted |-> FALSE,
                                  expired |-> Past(b), dead |-> FALSE, err |-> "none"]]
    /\ pc' = [pc EXCEPT ![c] = IF LeftAlone(b) THEN "returned" ELSE "lock"]
    /\ UNCHANGED <<now, file, vendor, states, req, leader, got, host>>

(* Slips, each with the property that notices it in the README: a verdict  *)
(* that survives new bytes, a verdict lifted by half, no cooldown, no look *)
(* at the refresh in flight.                                               *)
RevivedNever(entry, b) == entry
RevivedByHalf(entry, b) ==
    IF entry.deadFingerprint # b THEN [entry EXCEPT !.dead = FALSE] ELSE entry
CoolingDownNever(entry, time) == FALSE
BusyNever(entry) == FALSE

(* New bytes lift the terminal verdict of the old ones.                    *)
Revived(entry, b) ==
    IF entry.dead /\ entry.deadFingerprint # b
    THEN [entry EXCEPT !.dead = FALSE, !.deadFingerprint = NoBytes]
    ELSE entry

CoolingDown(entry, time) ==
    entry.lastAttempt # Never /\ time - entry.lastAttempt < Cooldown

Busy(entry) == entry.inflight # NoCaller

(* The first lock section, which begins with the revival. Its four ways    *)
(* out, in the order the switch tries them:                                *)
AnswerDead(c, k, entry) ==
    /\ entry.dead
    /\ states' = [states EXCEPT ![k] = entry]
    /\ ret' = [ret EXCEPT ![c].dead = TRUE, ![c].err = entry.lastErr]
    /\ pc' = [pc EXCEPT ![c] = "returned"]
    /\ UNCHANGED leader

Join(c, k, entry) ==
    /\ ~entry.dead
    /\ Busy(entry)
    /\ states' = [states EXCEPT ![k] = entry]
    /\ leader' = [leader EXCEPT ![c] = entry.inflight]
    /\ pc' = [pc EXCEPT ![c] = "joining"]
    /\ UNCHANGED ret

AnswerCooldown(c, k, entry) ==
    /\ ~entry.dead
    /\ ~Busy(entry)
    /\ CoolingDown(entry, at[c])
    /\ states' = [states EXCEPT ![k] = entry]
    /\ ret' = [ret EXCEPT ![c].err = entry.lastErr]
    /\ pc' = [pc EXCEPT ![c] = "returned"]
    /\ UNCHANGED leader

StartRenewal(c, k, entry) ==
    /\ ~entry.dead
    /\ ~Busy(entry)
    /\ ~CoolingDown(entry, at[c])
    /\ states' = [states EXCEPT ![k] = [entry EXCEPT !.inflight = c]]
    /\ ret' = [ret EXCEPT ![c].attempted = TRUE]
    /\ pc' = [pc EXCEPT ![c] = "vendor"]
    /\ UNCHANGED leader

Decide(c) ==
    LET k == KeyFor(req[c])
        entry == Revived(states[k], req[c].bytes)
    IN
    /\ pc[c] = "lock"
    /\ \/ AnswerDead(c, k, entry)
       \/ Join(c, k, entry)
       \/ AnswerCooldown(c, k, entry)
       \/ StartRenewal(c, k, entry)
    /\ at' = [at EXCEPT ![c] = 0]
    /\ UNCHANGED <<now, file, vendor, req, got, host>>

----------------------------------------------------------------------------
(* Refresher.renew, on the caller that won the single-flight.              *)

RenewalFails(c, err) ==
    /\ ret' = [ret EXCEPT ![c].err = err, ![c].dead = IsTerminal(err)]
    /\ pc' = [pc EXCEPT ![c] = "finish"]
    /\ UNCHANGED got

VendorAnswered(c) ==
    LET b == req[c].bytes IN
    /\ pc[c] = "vendor"
    /\ \/ /\ Renewed(b)
          /\ got' = [got EXCEPT ![c] = issued + 1]
          /\ pc' = [pc EXCEPT ![c] = "save"]
          /\ UNCHANGED ret
       \/ Refused(b) /\ RenewalFails(c, "terminal")
       \/ "transport" \in Answers /\ UNCHANGED vendor /\ RenewalFails(c, "transport")
       \/ "lost" \in Answers /\ Renewed(b) /\ RenewalFails(c, "transport")
       \/ "empty" \in Answers /\ UNCHANGED vendor /\ RenewalFails(c, "empty")
    /\ UNCHANGED <<now, file, states, req, at, leader, host>>

(* A slip: the bytes of the request are written back, not the new ones.    *)
WriteBackOld(c) == file' = req[c].bytes

WriteBack(c) == file' = got[c]

(* The write-back. Bytes that could not be stored are still handed to the  *)
(* caller, with the failure and the verdict on the bytes before them.      *)
Save(c) ==
    /\ pc[c] = "save"
    /\ \/ /\ WriteBack(c)
          /\ ret' = [ret EXCEPT ![c].storage = got[c], ![c].refreshed = TRUE,
                                ![c].expired = Past(got[c])]
       \/ /\ SaveFails
          /\ ret' = [ret EXCEPT ![c].storage = got[c], ![c].err = "save"]
          /\ UNCHANGED file
    /\ pc' = [pc EXCEPT ![c] = "finish"]
    /\ got' = [got EXCEPT ![c] = 1]
    /\ UNCHANGED <<now, vendor, states, req, at, leader, host>>

(* Slips: the mark of the refresh in flight stays; nobody is let go.       *)
OutcomeMarkKept(entry, c) ==
    [entry EXCEPT !.lastAttempt = now, !.lastErr = ret[c].err]
WaitersOnNobody(c) == {}

(* What finish leaves in the state of the key.                             *)
Outcome(entry, c) ==
    LET terminal == IsTerminal(ret[c].err) IN
    [inflight |-> NoCaller, lastAttempt |-> now, lastErr |-> ret[c].err,
     dead |-> entry.dead \/ terminal,
     deadFingerprint |-> IF terminal THEN req[c].bytes ELSE entry.deadFingerprint]

WaitersOn(c) == {j \in Callers : pc[j] = "joining" /\ leader[j] = c}

(* finish, first half: the outcome is recorded under the lock.             *)
Record(c) ==
    /\ pc[c] = "finish"
    /\ states' = [states EXCEPT ![KeyFor(req[c])] = Outcome(@, c)]
    /\ pc' = [pc EXCEPT ![c] = "release"]
    /\ UNCHANGED <<now, file, vendor, req, at, leader, got, ret, host>>

(* finish, second half: the result is published and the waiters let go.    *)
Release(c) ==
    LET waiters == WaitersOn(c) IN
    /\ pc[c] = "release"
    /\ pc' = [j \in Callers |-> IF j \in waiters \union {c} THEN "returned" ELSE pc[j]]
    /\ ret' = [j \in Callers |-> IF j \in waiters THEN ret[c] ELSE ret[j]]
    /\ leader' = [j \in Callers |-> IF j \in waiters THEN NoCaller ELSE leader[j]]
    /\ UNCHANGED <<now, file, vendor, states, req, at, got, host>>

(* EnsureUsable: a failure stops the caller only when the bytes are past   *)
(* their expiry. The caller then leaves.                                   *)
Stopped(result) == result.err # "none" /\ result.expired

Leave(c) ==
    /\ pc[c] = "returned"
    /\ pc' = [pc EXCEPT ![c] = "idle"]
    /\ req' = [req EXCEPT ![c] = NoRequest]
    /\ ret' = [ret EXCEPT ![c] = NoResult]
    /\ UNCHANGED <<now, file, vendor, states, at, leader, got, host>>

----------------------------------------------------------------------------

Step(c) ==
    \/ Check(c) \/ Decide(c) \/ VendorAnswered(c) \/ Save(c)
    \/ Record(c) \/ Release(c) \/ Leave(c)

Next ==
    \/ \E c \in Callers : HandOver(c) \/ Step(c)
    \/ HostStart \/ HostAnswered \/ HostStore
    \/ Login
    \/ Tick

Spec == Init /\ [][Next]_vars

(* A goroutine inside Ensure is scheduled, and the host bounds every HTTP  *)
(* call and auth save it makes on a plugin's behalf. Callers need not come, *)
(* logins need not happen, and the clock may stand still.                  *)
Fairness == \A c \in Callers : WF_vars(Step(c))

FairSpec == Spec /\ Fairness

----------------------------------------------------------------------------
(* Type correctness of the Refresher, its callers, the vendor and the host; *)
(* a key is dead exactly when it remembers the bytes that died.            *)
TypeOK ==
    /\ now \in Nat
    /\ file \in Bytes
    /\ issued \in Bytes
    /\ cred \in [Bytes -> Credential]
    /\ live \subseteq Bytes
    /\ refused \subseteq Bytes
    /\ states \in [Keys -> State]
    /\ \A k \in Keys : states[k].dead <=> states[k].deadFingerprint # NoBytes
    /\ pc \in [Callers -> {"idle", "check", "lock", "joining", "vendor", "save",
                           "finish", "release", "returned"}]
    /\ req \in [Callers -> Request]
    /\ at \in [Callers -> Nat]
    /\ leader \in [Callers -> Callers \union {NoCaller}]
    /\ got \in [Callers -> Bytes]
    /\ ret \in [Callers -> Result]
    /\ host \in HostLoop

Renewing == {"vendor", "save", "finish"}

(* The single-flight: two callers are never renewing the same key at once, *)
(* and a key is marked in flight exactly while its renewer is at work      *)
(* (Ensure and finish share the mark through two separate lock sections).  *)
SingleFlight ==
    \A c \in Callers, k \in Keys :
        states[k].inflight = c <=> pc[c] \in Renewing /\ KeyFor(req[c]) = k

(* No lost wake-up: whoever waits, waits on a caller that is still to      *)
(* publish a result for the same key, although the mark it joined by may   *)
(* be gone already.                                                        *)
WaitersHaveARenewer ==
    \A c \in Callers : pc[c] = "joining" =>
        /\ leader[c] \in Callers
        /\ pc[leader[c]] \in Renewing \union {"release"}
        /\ KeyFor(req[leader[c]]) = KeyFor(req[c])

(* A caller who brings newer bytes of a file may still be told of the      *)
(* bytes before them: by the renewal of those that it joined, or, in the   *)
(* cooldown after it, by the error alone, the verdict being lifted.        *)
ToldByOthers(c) ==
    /\ req[c].named
    /\ \/ ret[c].attempted /\ ret[c].storage \in refused \ {req[c].bytes}
       \/ ~ret[c].attempted /\ ~ret[c].dead /\ refused # {}

(* Nobody is told to log in again but for bytes the vendor itself refused, *)
(* a failed transport, an empty answer or a failed save never becomes that. *)
(* These are the bytes the caller brought; for a file they may also be the *)
(* bytes before them, as far as ToldByOthers says. A caller who names no   *)
(* file is only ever told of its own.                                      *)
DeadMeansRefused ==
    \A c \in Callers : pc[c] = "returned" =>
        /\ ret[c].dead => IsTerminal(ret[c].err) /\ ret[c].storage \in refused
        /\ IsTerminal(ret[c].err) => req[c].bytes \in refused \/ ToldByOthers(c)

(* The stored credential can always be renewed again, or somebody is about *)
(* to store one that can. It needs a vendor whose answers arrive and a     *)
(* host that saves them, but no luck in the order of logins, the host's    *)
(* loop and the renewals of the plugin.                                    *)
Arriving ==
    {got[c] : c \in {d \in Callers : pc[d] = "save"}}
        \union (IF host.at = "store" THEN {host.bytes} ELSE {})

FileStaysRenewable ==
    cred[file].grant => file \in live \/ Arriving \intersect live # {}

(* "Expired reports that Storage is already past its own expiry", says a   *)
(* comment that the code does not keep when the write-back fails.          *)
ExpiredMeansStorageExpired ==
    \A c \in Callers : pc[c] = "returned" /\ ret[c].expired => Past(ret[c].storage)

(* Every call of EnsureUsable comes back.                                  *)
EveryCallReturns == \A c \in Callers : []<>(pc[c] = "idle")

Gate == INSTANCE RenewalGate WITH
    running <- [k \in Keys |-> states[k].inflight # NoCaller],
    lastEnd <- [k \in Keys |-> states[k].lastAttempt]

(* The vendor sees at most one renewal per key at a time, and a cooldown   *)
(* between two, whatever the callers, stale clock readings included.       *)
RenewalsAreGated == Gate!Spec
=============================================================================
