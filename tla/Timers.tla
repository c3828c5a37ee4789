------------------------------- MODULE Timers -------------------------------
(***************************************************************************)
(* The two schedulers of the credits package: RefreshScheduler, whose Run  *)
(* waits for one account's renewal and retries it, and Scheduler, whose    *)
(* Run signs every registered account in, pass after pass. Each Run is a   *)
(* goroutine; Arm, Stop, Register and Unregister are called by others.     *)
(* How long a wait is, and the daily interval, are left out: a wait ends   *)
(* when it ends, or with its context.                                      *)
(***************************************************************************)
EXTENDS Naturals, SequencesExt

CONSTANTS
    Signed,         \* the accounts that may be registered to be signed in
    MaxCalls        \* bound on the calls from outside

ASSUME CallsAssumption == MaxCalls \in Nat

VARIABLES
    outside,        \* how many calls have come from outside
    timer,          \* RefreshScheduler: armed, generation, and whose wait it may cancel
    waiter,         \* its Run, and RefreshOnce
    roster,         \* Scheduler: the registered accounts in order
    signer          \* its Run

timerVars == <<outside, timer, waiter, roster, signer>>

(* seen is the generation Run goes by, late how many renewals it has begun *)
(* since the scheduler was stopped.                                        *)
TimersInit ==
    /\ outside = 0
    /\ timer = [armed |-> FALSE, generation |-> 0, cancelled |-> FALSE]
    /\ waiter = [at |-> "idle", seen |-> 0, late |-> 0, once |-> FALSE, alive |-> TRUE,
                 gave |-> "none"]
    /\ roster = <<>>
    /\ signer = [at |-> "idle", left |-> <<>>, alive |-> TRUE, late |-> 0, done |-> <<>>,
                 through |-> {}]

Called == outside < MaxCalls /\ outside' = outside + 1
WaiterGoes(record) == waiter' = record /\ UNCHANGED <<outside, timer, roster, signer>>
SignerGoes(record) == signer' = record /\ UNCHANGED <<outside, timer, waiter, roster>>

----------------------------------------------------------------------------
(* RefreshScheduler. A context that was cancelled stays so.                *)

Running == waiter.at # "idle"

ArmTimer ==
    /\ Called
    /\ timer' = [armed |-> TRUE, generation |-> timer.generation + 1,
                 cancelled |-> timer.cancelled \/ Running]
    /\ waiter' = [waiter EXCEPT !.late = 0]
    /\ UNCHANGED <<roster, signer>>

Stopped == [armed |-> FALSE, generation |-> timer.generation + 1,
            cancelled |-> timer.cancelled \/ Running]

StopTimer == Called /\ timer' = Stopped /\ UNCHANGED <<waiter, roster, signer>>

(* RefreshOnce: Stop, then a renewal of its own.                           *)
RefreshOnce ==
    /\ ~waiter.once /\ Called
    /\ timer' = Stopped
    /\ waiter' = [waiter EXCEPT !.once = TRUE]
    /\ UNCHANGED <<roster, signer>>

RefreshOnceEnds == waiter.once /\ WaiterGoes([waiter EXCEPT !.once = FALSE])

(* The context Run was given.                                              *)
CancelRun ==
    /\ Running /\ waiter.alive /\ Called
    /\ waiter' = [waiter EXCEPT !.alive = FALSE]
    /\ UNCHANGED <<timer, roster, signer>>

StartTimer ==
    /\ ~Running /\ timer.armed /\ Called
    /\ timer' = [timer EXCEPT !.cancelled = FALSE]
    /\ waiter' = [waiter EXCEPT !.at = "asleep", !.seen = timer.generation, !.alive = TRUE,
                                !.gave = "none"]
    /\ UNCHANGED <<roster, signer>>

RunEnds(result) == WaiterGoes([waiter EXCEPT !.at = "idle", !.gave = result])

(* What Run does before it goes on: it ends if the scheduler was stopped,  *)
(* and waits anew if it was armed again.                                   *)
AdoptsOrElse(next) ==
    CASE ~timer.armed -> RunEnds("stopped")
      [] timer.armed /\ timer.generation # waiter.seen ->
           WaiterGoes([waiter EXCEPT !.at = "asleep", !.seen = timer.generation])
      [] OTHER -> next

Expires ==
    /\ waiter.at = "asleep"
    /\ ~timer.cancelled /\ waiter.alive
    /\ WaiterGoes([waiter EXCEPT !.at = "woken"])

Decides == waiter.at = "woken" /\ AdoptsOrElse(WaiterGoes([waiter EXCEPT !.at = "decided"]))

WaitFails ==
    /\ waiter.at = "asleep"
    /\ timer.cancelled \/ ~waiter.alive
    /\ IF waiter.alive THEN AdoptsOrElse(RunEnds("canceled")) ELSE RunEnds("context")

Begins ==
    /\ waiter.at = "decided"
    /\ WaiterGoes([waiter EXCEPT !.at = "renewing",
                                 !.late = IF timer.armed THEN 0 ELSE @ + 1])

Succeeds == waiter.at = "renewing" /\ RunEnds("none")

(* A refusal for good is looked at after the generation.                   *)
Fails(terminal) ==
    /\ waiter.at = "renewing"
    /\ AdoptsOrElse(IF terminal THEN RunEnds("terminal")
                    ELSE WaiterGoes([waiter EXCEPT !.at = "asleep"]))

----------------------------------------------------------------------------
(* Scheduler.                                                              *)

RegisterSigner(a) ==
    /\ a \in Signed /\ Called
    /\ roster' = IF Contains(roster, a) THEN roster ELSE Append(roster, a)
    /\ UNCHANGED <<timer, waiter, signer>>

UnregisterSigner(a) ==
    /\ \E i \in 1..Len(roster) : roster[i] = a /\ roster' = RemoveAt(roster, i)
    /\ Called
    /\ signer' = [signer EXCEPT !.through = @ \ {a}]
    /\ UNCHANGED <<timer, waiter>>

StopSigner ==
    /\ signer.at # "idle" /\ Called
    /\ signer' = [signer EXCEPT !.alive = FALSE]
    /\ UNCHANGED <<timer, waiter, roster>>

BeginsPass == [at |-> "pass", left |-> roster, alive |-> signer.alive, late |-> signer.late,
               done |-> <<>>, through |-> ToSet(roster)]

StartSigner ==
    /\ signer.at = "idle" /\ Called
    /\ signer' = [BeginsPass EXCEPT !.alive = TRUE, !.late = 0]
    /\ UNCHANGED <<timer, waiter, roster>>

(* runPass: an account that is no longer registered is left out.           *)
Passes ==
    /\ signer.at = "pass" /\ signer.left # <<>>
    /\ IF Contains(roster, Head(signer.left))
       THEN SignerGoes([signer EXCEPT !.at = "signing", !.left = Tail(@),
                          !.done = Append(@, Head(signer.left)),
                          !.late = IF signer.alive THEN 0 ELSE @ + 1])
       ELSE SignerGoes([signer EXCEPT !.left = Tail(@)])

(* A slip: the pass goes on to its end, stopped or not.                    *)
AfterSignBlind == "pass"

AfterSign == IF signer.alive THEN "pass" ELSE "rest"

(* Whether it worked does not matter to the pass.                          *)
SignEnds == signer.at = "signing" /\ SignerGoes([signer EXCEPT !.at = AfterSign])

Rests == signer.at = "pass" /\ signer.left = <<>> /\ SignerGoes([signer EXCEPT !.at = "rest"])

(* The interval is over, or the context.                                   *)
NextPass == signer.at = "rest" /\ signer.alive /\ SignerGoes(BeginsPass)
Quits == signer.at = "rest" /\ ~signer.alive /\ SignerGoes([signer EXCEPT !.at = "idle"])

----------------------------------------------------------------------------
RunSteps == Decides \/ WaitFails \/ Begins \/ Succeeds \/ \E terminal \in BOOLEAN : Fails(terminal)
SignerSteps == Passes \/ SignEnds \/ Rests \/ Quits

TimersNext ==
    \/ ArmTimer \/ StopTimer \/ RefreshOnce \/ RefreshOnceEnds \/ CancelRun \/ StartTimer \/ Expires \/ RunSteps
    \/ \E a \in Signed : RegisterSigner(a) \/ UnregisterSigner(a)
    \/ StopSigner \/ StartSigner \/ NextPass \/ SignerSteps

TimersSpec == TimersInit /\ [][TimersNext]_timerVars

(* A goroutine that can go on does, and a renewal or a sign-in comes back. *)
TimersFairSpec == TimersSpec /\ WF_timerVars(RunSteps) /\ WF_timerVars(SignerSteps)

----------------------------------------------------------------------------
TimersTypeOK ==
    /\ outside \in 0..MaxCalls
    /\ timer \in [armed : BOOLEAN, generation : 0..MaxCalls, cancelled : BOOLEAN]
    /\ waiter.at \in {"idle", "asleep", "woken", "decided", "renewing"}
    /\ signer.at \in {"idle", "pass", "signing", "rest"}
    /\ ToSet(roster) \subseteq Signed

(* A scheduler that was stopped, an account signed out for one, begins no  *)
(* renewal and no sign-in but the one that had been decided on already.    *)
StoppedMeansQuiet == waiter.late <= 1 /\ signer.late <= 1

(* At the end of a pass that nobody stopped, every account registered all  *)
(* through it has been attempted, none twice, in the order of registration. *)
EverybodyIsAttempted ==
    /\ IsInjective(signer.done)
    /\ signer.at = "rest" /\ signer.alive => signer.through \subseteq ToSet(signer.done)

StopIsHeard == StoppedMeansQuiet /\ EverybodyIsAttempted

(* Stop ends Run, unless the scheduler is armed again.                     *)
StoppedRunsEnd ==
    []<>(timer.armed \/ ~Running) /\ []<>(signer.alive \/ signer.at = "idle")

(* credits.go:263: "Arm during a wait makes Run adopt the new schedule and *)
(* keep going".                                                            *)
ArmIsAdopted == waiter.gave # "canceled"
=============================================================================
