-------------------------- MODULE CatalogScheduler --------------------------
(***************************************************************************)
(* The life of the background refresh loops (catalog.Scheduler): the host  *)
(* configures a plugin, which sets the interval, stops the loop of the old *)
(* one and starts another, and quiesces it.  A loop is stopped by closing  *)
(* its channel, which it notices when it next waits.                       *)
(***************************************************************************)
EXTENDS Naturals

CONSTANTS
    Hosts,          \* host threads that configure the plugin
    Quiescers,      \* those that also quiesce it
    Settings,       \* model_refresh_ms as configured; 0 switches ticks off
    Loops,          \* the loops that may be started (their channels)
    NoLoop          \* a nil channel

ASSUME HostsAssumption == Quiescers \subseteq Hosts
ASSUME SettingsAssumption == 0 \in Settings
ASSUME LoopsAssumption == NoLoop \notin Loops

VARIABLES
    interval,   \* Scheduler.interval
    cancel,     \* Scheduler.cancel: the channel of the armed loop
    closed,     \* the closed channels
    loop,       \* where each loop is
    period,     \* the interval its ticker was made with
    host,       \* where each host thread is: step, channel to close, step after
    quiet       \* has a quiesce come since the plugin was last configured at rest?

schedulerVars == <<interval, cancel, closed, loop, period, host, quiet>>

At(pc, taken, after) == [pc |-> pc, taken |-> taken, after |-> after]
HostIdle == At("idle", NoLoop, "idle")
Goes(h, pc, taken, after) == host' = [host EXCEPT ![h] = At(pc, taken, after)]

SchedulerInit ==
    /\ interval = 0
    /\ cancel = NoLoop
    /\ closed = {}
    /\ loop = [l \in Loops |-> "unborn"]
    /\ period = [l \in Loops |-> 0]
    /\ host = [h \in Hosts |-> HostIdle]
    /\ quiet = TRUE

----------------------------------------------------------------------------
(* The host's commands. Configure is SetInterval, Stop if that changed     *)
(* anything, and Start; quiesce and shutdown are a Stop.                   *)

(* Slip: a change of the interval does not stop the loop.                  *)
SetIntervalOnly(h, setting) == Goes(h, "start", NoLoop, "idle")

SetInterval(h, setting) ==
    IF interval = setting THEN Goes(h, "start", NoLoop, "idle")
    ELSE Goes(h, "stop", NoLoop, "start")

Configure(h, setting) ==
    /\ host[h].pc = "idle"
    /\ SetInterval(h, setting)
    /\ interval' = setting
    /\ quiet' = (quiet /\ \E g \in Hosts : host[g].pc # "idle")
    /\ UNCHANGED <<cancel, closed, loop, period>>

Quiesce(h) ==
    /\ host[h].pc = "idle"
    /\ Goes(h, "stop", NoLoop, "idle")
    /\ quiet' = TRUE
    /\ UNCHANGED <<interval, cancel, closed, loop, period>>

(* Slip: the channel that is about to be closed stays the scheduler's.     *)
DisarmNever == UNCHANGED cancel

Disarm == cancel' = NoLoop

(* Stop takes the channel under the mutex and closes it outside.           *)
Stop(h) ==
    /\ host[h].pc = "stop"
    /\ Disarm
    /\ Goes(h, "close", cancel, host[h].after)
    /\ UNCHANGED <<interval, closed, loop, period, quiet>>

Close(h) ==
    /\ host[h].pc = "close"
    /\ closed' = closed \union ({host[h].taken} \ {NoLoop})
    /\ Goes(h, host[h].after, NoLoop, "idle")
    /\ UNCHANGED <<interval, cancel, loop, period, quiet>>

(* A slip: a second Start starts a second loop.                            *)
MayStartAgain == interval > 0
Launch(l) == loop' = [loop EXCEPT ![l] = "waiting"]

MayStart == interval > 0 /\ cancel = NoLoop

Start(h) ==
    /\ host[h].pc = "start"
    /\ \/ /\ ~MayStart
          /\ UNCHANGED <<cancel, loop, period>>
       \/ /\ MayStart
          /\ \E l \in Loops :
                /\ loop[l] = "unborn"
                /\ cancel' = l
                /\ Launch(l)
                /\ period' = [period EXCEPT ![l] = interval]
    /\ Goes(h, "idle", NoLoop, "idle")
    /\ UNCHANGED <<interval, closed, quiet>>

----------------------------------------------------------------------------
(* A loop waits for its ticker or its channel; with both ready, select     *)
(* takes either.                                                           *)

Tick(l) ==
    /\ loop[l] = "waiting"
    /\ loop' = [loop EXCEPT ![l] = "refreshing"]
    /\ UNCHANGED <<interval, cancel, closed, period, host, quiet>>

Refreshed(l) ==
    /\ loop[l] = "refreshing"
    /\ loop' = [loop EXCEPT ![l] = "waiting"]
    /\ UNCHANGED <<interval, cancel, closed, period, host, quiet>>

(* Slip: a loop looks at the scheduler's channel instead of its own.       *)
EndsIfDisarmed(l) == l \in closed /\ cancel = NoLoop

Ends(l) == l \in closed

End(l) ==
    /\ loop[l] = "waiting"
    /\ Ends(l)
    /\ loop' = [loop EXCEPT ![l] = "ended"]
    /\ UNCHANGED <<interval, cancel, closed, period, host, quiet>>

----------------------------------------------------------------------------

SchedulerNext ==
    \/ \E h \in Hosts :
          \/ \E setting \in Settings : Configure(h, setting)
          \/ Stop(h) \/ Close(h) \/ Start(h)
    \/ \E h \in Quiescers : Quiesce(h)
    \/ \E l \in Loops : Tick(l) \/ Refreshed(l) \/ End(l)

SchedulerSpec == SchedulerInit /\ [][SchedulerNext]_schedulerVars

(* A refresh comes back (its calls have timeouts), the host's threads run, *)
(* and select does not prefer the ticker for ever.                         *)
FairSchedulerSpec ==
    /\ SchedulerSpec
    /\ \A h \in Hosts : WF_schedulerVars(Stop(h)) /\ WF_schedulerVars(Close(h))
    /\ \A l \in Loops : WF_schedulerVars(Refreshed(l)) /\ SF_schedulerVars(End(l))

----------------------------------------------------------------------------
Live == {l \in Loops : loop[l] \in {"waiting", "refreshing"}}
Taken == {host[h].taken : h \in Hosts} \ {NoLoop}

SchedulerTypeOK ==
    /\ interval \in Settings
    /\ cancel \in Live \union {NoLoop}
    /\ closed \subseteq Loops
    /\ loop \in [Loops -> {"unborn", "waiting", "refreshing", "ended"}]
    /\ period \in [Loops -> Settings]
    /\ host \in [Hosts -> [pc : {"idle", "stop", "close", "start"},
                           taken : Loops \union {NoLoop}, after : {"idle", "start"}]]
    /\ quiet \in BOOLEAN

(* However configurations and quiesces interleave, every loop but the      *)
(* armed one has been told to end, or is just being told.                  *)
OneLoopArmed == Live \subseteq {cancel} \union Taken \union closed

(* No channel is closed twice, which would take the plugin down.           *)
ClosedOnce == /\ Taken \intersect closed = {}
              /\ cancel \notin Taken \union closed
              /\ \A g, h \in Hosts :
                   host[g].taken = host[h].taken => g = h \/ host[g].taken = NoLoop

(* When every configuration has returned, the loop that runs is that of    *)
(* the setting, and there is one if the setting asks for it.               *)
SettingIsArmed ==
    (\A h \in Hosts : host[h].pc = "idle") =>
        /\ cancel # NoLoop => interval > 0 /\ period[cancel] = interval
        /\ interval > 0 /\ ~quiet => cancel # NoLoop

(* A loop that is stopped ends.                                            *)
StoppedLoopsEnd == []<>(\A x \in closed : loop[x] = "ended")
=============================================================================
