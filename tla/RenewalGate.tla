---------------------------- MODULE RenewalGate ----------------------------
(***************************************************************************)
(* What package authrefresh promises to the vendor's refresh endpoint: for *)
(* each key at most one renewal is under way, and a new one begins only    *)
(* when the cooldown since the end of the previous one is over.  Callers,  *)
(* credentials and outcomes do not appear here; module AuthRefresh is      *)
(* shown to implement this one.                                            *)
(***************************************************************************)
EXTENDS Integers

CONSTANTS
    Keys,       \* the identities a credential is tracked under
    Cooldown    \* the least time between the end of a renewal and the next

Never == -1     \* a key no renewal has ended for

VARIABLES
    now,        \* the clock
    running,    \* running[k]: a renewal of k is under way
    lastEnd     \* lastEnd[k]: when the last renewal of k ended, or Never

vars == <<now, running, lastEnd>>

Init ==
    /\ now = 0
    /\ running = [k \in Keys |-> FALSE]
    /\ lastEnd = [k \in Keys |-> Never]

Begin(k) ==
    /\ ~running[k]
    /\ lastEnd[k] = Never \/ now - lastEnd[k] >= Cooldown
    /\ running' = [running EXCEPT ![k] = TRUE]
    /\ UNCHANGED <<now, lastEnd>>

End(k) ==
    /\ running[k]
    /\ running' = [running EXCEPT ![k] = FALSE]
    /\ lastEnd' = [lastEnd EXCEPT ![k] = now]
    /\ UNCHANGED now

Tick ==
    /\ now' = now + 1
    /\ UNCHANGED <<running, lastEnd>>

Next ==
    \/ \E k \in Keys : Begin(k) \/ End(k)
    \/ Tick

Spec == Init /\ [][Next]_vars
=============================================================================
