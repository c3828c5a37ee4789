--------------------------- MODULE MCAuthRefresh ---------------------------
(* Values for the checks of AuthRefresh.                                   *)
EXTENDS AuthRefresh, TLC

CONSTANTS c1, c2, c3, no_caller

TwoCallers == {c1, c2}
ThreeCallers == {c1, c2, c3}
AnyCaller == Permutations(Callers)

OnlyNamed == {TRUE}
NamedOrNot == {TRUE, FALSE}

OneLife == {1}
OneLifeOrEver == {1, NoExpiry}
ShortLife == {2}

JustRefused == {"refused"}
TransportOnly == {"transport"}
LostRefusedEmpty == {"lost", "refused", "empty"}

(* The callers and the clock alone: no login, and no renewal of the host's. *)
CallersNext == (\E c \in Callers : HandOver(c) \/ Step(c)) \/ Tick

CallersSpec == Init /\ [][CallersNext]_vars /\ Fairness
=============================================================================
