---------------------------- MODULE MCBackground ----------------------------
(* Values for the checks of what goes on apart from requests: a behaviour  *)
(* is one of the refreshes of a catalogue, the loops that start them, the  *)
(* sign-ins, the renewals of an account, the check-ins or the schedulers   *)
(* of renewals and check-ins.                                              *)
EXTENDS CatalogRefresh, CatalogScheduler, DeviceLogin, Renewals, LoginSessions, CheckIns,
        Timers, TLC

TickAndButton == {"tick", "button"}
JustTick == {"tick"}

CONSTANTS hostA, hostB, loopA, loopB
TwoHosts == {hostA, hostB}
OneHost == {hostA}
OffOrTwoPeriods == {0, 1, 2}
TwoLoops == {loopA, loopB}

SixFlows == {"minimax", "zcode", "cline", "qoder", "codebuddy", "atomcode"}
UpToTwo == SUBSET {"manager", "page"}
JustPage == {"page"}
Panel == <<"manager", "page">>
TwoPanels == {"manager", "page"}

NinePlugins == {"cline", "qoder", "minimax", "raccoon", "lobsterai", "codebuddy", "atomcode",
                "trae", "codearts"}
NineProviders == {"codearts", "codebuddy", "lobsterai", "loomy", "minimax", "qoder", "raccoon",
                  "trae", "atomcode"}
TwoRuns == {1, 2}
OneAccount == {"account"}
TwoSigned == {"one", "two"}

VARIABLE part

(* The parts as they are when they are not looked at: the vendor has been  *)
(* followed, nobody polls and nothing is offered.                          *)
Followed ==
    /\ vendor = 1 /\ registry = 1 /\ cache = 1 /\ fresh = TRUE
    /\ nudged = FALSE /\ missed = FALSE /\ failures = 0 /\ lock = FALSE
    /\ worker = [w \in Workers |-> Free] /\ asked = Free
Unpolled == DeviceInit /\ flow = "zcode" /\ watchers = {}
Undated ==
    RenewalInit /\ renewer = "codearts" /\ rotating /\ stored.form = "unsaid" /\ stored.expiry = 0
Unoffered == CheckInInit /\ provider = "loomy" /\ offered = {}

BackgroundInit ==
    /\ part \in {"refresh", "scheduler", "device", "renewal", "browser", "check-in", "timers"}
    /\ IF part = "refresh" THEN Init ELSE Followed
    /\ SchedulerInit
    /\ IF part = "device" THEN DeviceInit ELSE Unpolled
    /\ IF part = "renewal" THEN RenewalInit ELSE Undated
    /\ LoginInit
    /\ IF part = "check-in" THEN CheckInInit ELSE Unoffered
    /\ TimersInit

Refreshing(action) == part = "refresh" /\ action
    /\ UNCHANGED <<part, schedulerVars, deviceVars, renewalVars, loginVars, checkInVars, timerVars>>
Looping(action) == part = "scheduler" /\ action
    /\ UNCHANGED <<part, vars, deviceVars, renewalVars, loginVars, checkInVars, timerVars>>
Coding(action) == part = "device" /\ action
    /\ UNCHANGED <<part, vars, schedulerVars, renewalVars, loginVars, checkInVars, timerVars>>
Renewing(action) == part = "renewal" /\ action
    /\ UNCHANGED <<part, vars, schedulerVars, deviceVars, loginVars, checkInVars, timerVars>>
SigningIn(action) == part = "browser" /\ action
    /\ UNCHANGED <<part, vars, schedulerVars, deviceVars, renewalVars, checkInVars, timerVars>>
CheckingIn(action) == part = "check-in" /\ action
    /\ UNCHANGED <<part, vars, schedulerVars, deviceVars, renewalVars, loginVars, timerVars>>
Timing(action) == part = "timers" /\ action
    /\ UNCHANGED <<part, vars, schedulerVars, deviceVars, renewalVars, loginVars, checkInVars>>

BackgroundNext ==
    \/ Refreshing(Next) \/ Looping(SchedulerNext) \/ Coding(DeviceNext)
    \/ Renewing(RenewalNext) \/ SigningIn(LoginNext) \/ CheckingIn(CheckInNext)
    \/ Timing(TimersNext)

everything == <<part, vars, schedulerVars, deviceVars, renewalVars, loginVars, checkInVars, timerVars>>

(* The fairness of the parts, see there; a behaviour is of one part, so    *)
(* that one formula is about an action of each.                            *)
BackgroundSpec ==
    /\ BackgroundInit /\ [][BackgroundNext]_everything
    /\ WF_everything(\/ Refreshing(Run("tick")) \/ Looping(Stop(hostA)) \/ Coding(Outlive)
                     \/ SigningIn(Dispatch))
    /\ WF_everything(\/ Refreshing(Run("button")) \/ Looping(Close(hostA)) \/ Coding(PollOn("page"))
                     \/ SigningIn(Answer(Panel[1])) \/ CheckingIn(RunOn(1))
                     \/ Timing(RunSteps))
    /\ WF_everything(\/ Refreshing(ForAuth) \/ Looping(Stop(hostB)) \/ Coding(PollOn("manager"))
                     \/ SigningIn(Answer(Panel[2])) \/ CheckingIn(RunOn(2))
                     \/ Timing(SignerSteps))
    /\ WF_everything(Looping(Close(hostB)))
    /\ \A x \in Loops : WF_everything(Looping(Refreshed(x)))
    /\ SF_everything(\/ Refreshing(Begin("tick")) \/ Looping(End(loopA))
                     \/ SigningIn(\E p \in Panels : Poll(p, 1)))
    /\ SF_everything(\/ Refreshing(nudged /\ Ask) \/ Looping(End(loopB))
                     \/ SigningIn(\E p \in Panels : Poll(p, 2)))

(* The parts are type correct, see there.                                  *)
BackgroundTypeOK ==
    /\ TypeOK /\ SchedulerTypeOK /\ DeviceTypeOK /\ RenewalTypeOK /\ LoginTypeOK
    /\ CheckInTypeOK /\ TimersTypeOK

(* A loop that was stopped ends, be it the catalogue's or of a scheduler.  *)
LoopsEnd == StoppedLoopsEnd /\ StoppedRunsEnd

(* A sign-in ends for whoever polls it, by code or in the browser.         *)
SignInsEnd == WatchersAreTold /\ SignInsSettle
=============================================================================
