---------------------------- MODULE MemoryGovernor ----------------------------
(***************************************************************************)
(* The host's memory governance: the pressure monitor                      *)
(* (desktop/main/backend/memory/budget.ts), the sampler tick of            *)
(* NodeBackendHost (backend/index.ts, memoryTick) that turns sustained     *)
(* pressure into a "fast" override of the engine's profile and lifts it    *)
(* between generations, and start and stop around them, on top of the      *)
(* generation scheduler.                                                   *)
(*                                                                         *)
(* A tick is suspended while the retrieval worker reports its memory: it   *)
(* may resume late, fail, never resume, or resume after the host was       *)
(* stopped and started again.  Free memory is one bit, below the threshold *)
(* or not (moving the threshold only flips it); streaks are ages that      *)
(* saturate at the sustained windows.  Events and telemetry are left out.  *)
(***************************************************************************)
EXTENDS GenerationScheduler

CONSTANTS
    PressureWindow,  \* memory.pressureSustainedMs, in units of time
    RecoveryWindow,  \* memory.recoverySustainedMs
    StaleAge,        \* one telemetry interval: a tick older than this is stale
    MaxEpochs,       \* bound: how often the host is stopped
    MaxTicks,        \* bound: suspended ticks per epoch
    Never            \* "no streak"

ASSUME WindowsAssumption ==
    PressureWindow \in Nat \ {0} /\ RecoveryWindow \in Nat \ {0} /\ StaleAge \in Nat \ {0}
ASSUME BoundsAssumption == MaxEpochs \in Nat /\ MaxTicks \in Nat \ {0}
ASSUME NeverAssumption == Never \notin Nat

VARIABLES
    low,       \* free memory is below the threshold now
    monitor,   \* the pressure monitor's streaks and latches
    host,      \* up, stopping (the engine drains) or down
    epoch,     \* memoryTickGeneration
    inflight,  \* memoryTickInflight
    tickAge,   \* time since memoryTickStartedAt
    stale,     \* samplerStaleEmitted
    ticks,     \* how many ticks of each epoch are suspended
    latched,   \* downgradeLatched
    override   \* the engine's profileOverride

samplerVars == <<epoch, inflight, tickAge, stale, ticks>>
profileVars == <<latched, override>>
govVars == <<schedVars, low, monitor, host, samplerVars, profileVars>>

Epochs == 0..MaxEpochs

Fresh == [pressure |-> Never, recovery |-> Never, downgraded |-> FALSE, eligible |-> FALSE]

-----------------------------------------------------------------------------
(* The pressure monitor.                                                   *)

Reached(age, window) == age # Never /\ age >= window

From0(age) == IF age = Never THEN 0 ELSE age

Older(age, window) == IF age = Never \/ age >= window THEN age ELSE age + 1

\* Mutant: an above-threshold sample does not break the streak.
ObservedUnbroken(m, below) ==
    IF below
    THEN [m EXCEPT !.recovery = Never, !.eligible = FALSE, !.pressure = From0(@)]
    ELSE [m EXCEPT !.recovery = IF m.downgraded THEN From0(@) ELSE @]

\* Mutant: a return to pressure does not revoke the recovery.
ObservedUnrevoked(m, below) ==
    IF below
    THEN [m EXCEPT !.recovery = Never, !.pressure = From0(@)]
    ELSE [m EXCEPT !.pressure = Never, !.recovery = IF m.downgraded THEN From0(@) ELSE @]

\* Mutant: every sample starts the pressure streak anew.
PressureAnew(m, below) ==
    IF below
    THEN [m EXCEPT !.recovery = Never, !.eligible = FALSE, !.pressure = 0]
    ELSE [m EXCEPT !.pressure = Never, !.recovery = IF m.downgraded THEN From0(@) ELSE @]

Observed(m, below) ==
    IF below
    THEN [m EXCEPT !.recovery = Never, !.eligible = FALSE, !.pressure = From0(@)]
    ELSE [m EXCEPT !.pressure = Never, !.recovery = IF m.downgraded THEN From0(@) ELSE @]

Evaluated(m) ==
    LET down == m.downgraded \/ Reached(m.pressure, PressureWindow)
    IN  [m EXCEPT !.downgraded = down,
                  !.eligible = @ \/ (down /\ Reached(m.recovery, RecoveryWindow))]

-----------------------------------------------------------------------------
GovInit == /\ SchedInit
           /\ low = FALSE
           /\ monitor = Fresh
           /\ host = "up"
           /\ epoch = 0 /\ inflight = FALSE /\ tickAge = 0 /\ stale = FALSE
           /\ ticks = [e \in Epochs |-> 0]
           /\ latched = FALSE /\ override = "none"

\* Requests reach the scheduler until the listener is closed; what it has
\* accepted by then goes on, whatever becomes of the host.
Schedule ==
    /\ (host # "down" /\ Request) \/ Completion
    /\ UNCHANGED <<low, monitor, host, samplerVars, profileVars>>

ChangeFreeMemory == /\ low' = ~low
                    /\ UNCHANGED <<schedVars, monitor, host, samplerVars, profileVars>>

PassTime ==
    /\ monitor' = [monitor EXCEPT !.pressure = Older(@, PressureWindow),
                                  !.recovery = Older(@, RecoveryWindow)]
    /\ tickAge' = IF inflight THEN Older(tickAge, StaleAge) ELSE tickAge
    /\ UNCHANGED <<schedVars, low, host, epoch, inflight, stale, ticks, profileVars>>

\* The timer fires: the tick is admitted and suspended on the worker's report.
BeginTick ==
    /\ host = "up" /\ ~inflight
    /\ ticks[epoch] < MaxTicks
    /\ inflight' = TRUE /\ tickAge' = 0 /\ stale' = FALSE
    /\ ticks' = [ticks EXCEPT ![epoch] = @ + 1]
    /\ UNCHANGED <<schedVars, low, monitor, host, epoch, profileVars>>

\* The timer fires while a tick is suspended: the tick is skipped, and a stale
\* one is reported once.
SkipTick ==
    /\ host = "up" /\ inflight /\ ~stale
    /\ tickAge >= StaleAge
    /\ stale' = TRUE
    /\ UNCHANGED <<schedVars, low, monitor, host, epoch, inflight, tickAge, ticks, profileVars>>

\* Mutant: the flag is released whatever epoch the tick is of.
SettleAlways(e) ==
    /\ ticks' = [ticks EXCEPT ![e] = @ - 1]
    /\ inflight' = FALSE /\ stale' = FALSE
    /\ UNCHANGED <<epoch, tickAge>>

\* The finally of memoryTick: a tick of an earlier epoch releases nothing.
Settle(e) ==
    /\ ticks' = [ticks EXCEPT ![e] = @ - 1]
    /\ IF e = epoch THEN inflight' = FALSE /\ stale' = FALSE
                    ELSE UNCHANGED <<inflight, stale>>
    /\ UNCHANGED <<epoch, tickAge>>

\* What a tick decides once it may: observe, evaluate, downgrade, upgrade.
Decide ==
    LET m == Evaluated(Observed(monitor, low))
        isLatched == latched \/ m.downgraded
    IN  IF isLatched /\ m.eligible /\ Drained
        THEN /\ latched' = FALSE /\ override' = "none"
             /\ monitor' = Fresh
        ELSE /\ latched' = isLatched
             /\ override' = IF m.downgraded /\ ~latched THEN "fast" ELSE override
             /\ monitor' = m

\* Mutant: the epoch is not checked again after the await.
MayDecideAlways(e) == TRUE

MayDecide(e) == e = epoch

\* The worker has answered.
EndTick(e) ==
    /\ ticks[e] > 0
    /\ Settle(e)
    /\ IF MayDecide(e) THEN Decide ELSE UNCHANGED <<monitor, profileVars>>
    /\ UNCHANGED <<schedVars, low, host>>

\* The worker was unloaded or died: the report rejects.
FailTick(e) ==
    /\ ticks[e] > 0
    /\ Settle(e)
    /\ UNCHANGED <<schedVars, low, monitor, host, profileVars>>

\* stop(), up to its first await.
Stop ==
    /\ host = "up" /\ epoch < MaxEpochs
    /\ host' = "stopping"
    /\ epoch' = epoch + 1
    /\ inflight' = FALSE /\ tickAge' = 0 /\ stale' = FALSE
    /\ RejectQueued
    /\ latched' = FALSE /\ override' = "none"
    /\ UNCHANGED <<low, monitor, ticks>>

\* The worker, the store and the listener are closed, the engine has drained.
Stopped == /\ host = "stopping"
           /\ host' = "down"
           /\ UNCHANGED <<schedVars, low, monitor, samplerVars, profileVars>>

\* start(): a new scheduler, monitor and sampler.
Start ==
    /\ host = "down"
    /\ host' = "up"
    /\ queue' = <<>> /\ running' = {} /\ ingest' = [i \in Ingests |-> "idle"]
    /\ monitor' = Fresh
    /\ UNCHANGED <<low, samplerVars, profileVars>>

-----------------------------------------------------------------------------
GovNext == \/ Schedule \/ ChangeFreeMemory \/ PassTime
           \/ BeginTick \/ SkipTick
           \/ \E e \in Epochs : EndTick(e) \/ FailTick(e)
           \/ Stop \/ Stopped \/ Start

GovSpec == GovInit /\ [][GovNext]_govVars

\* The interval timer fires for as long as the host is up, and time passes.
TimerFairness == WF_govVars(BeginTick) /\ WF_govVars(SkipTick) /\ WF_govVars(PassTime)

\* A generation ends: it is bounded by its token budget, and an external
\* endpoint by its timeouts.
EndGeneration(c) == Schedule /\ Finish(c)

GenerationFairness == \A c \in Clients : WF_govVars(EndGeneration(c))

FairGovSpec == GovSpec /\ TimerFairness /\ GenerationFairness

\* The worker keeps answering the ticks.  Nothing in the code makes sure that
\* it does, so this is a premise of what depends on it and not part of the
\* specification.
WorkerAnswers == SF_govVars(EndTick(epoch))

-----------------------------------------------------------------------------
Ages(window) == {Never} \cup 0..window

\* Type correctness of the monitor, the sampler and the profile override.
GovTypeOK == /\ SchedTypeOK
             /\ low \in BOOLEAN
             /\ monitor \in [pressure : Ages(PressureWindow), recovery : Ages(RecoveryWindow),
                             downgraded : BOOLEAN, eligible : BOOLEAN]
             /\ host \in {"up", "stopping", "down"}
             /\ epoch \in Epochs /\ inflight \in BOOLEAN
             /\ tickAge \in 0..StaleAge /\ stale \in BOOLEAN
             /\ ticks \in [Epochs -> 0..MaxTicks]
             /\ latched \in BOOLEAN /\ override \in {"none", "fast"}

\* Whatever tick resumes when: at most one tick of the running sampler is
\* under way, and the exclusion flag is set exactly while it is.
OneTickAtATime == ticks[epoch] = IF inflight THEN 1 ELSE 0

\* While the host is up its latch, the engine's override and the monitor's
\* latch say the same; a host that is not up has left no override behind.
OverrideFollowsMonitor ==
    /\ latched <=> override = "fast"
    /\ host = "up" => (latched <=> monitor.downgraded)
    /\ host # "up" => override = "none"

\* The engine is switched to "fast" only after a whole window below the
\* threshold, unbroken by any sample; in particular not again right after it
\* was switched back (no oscillation).
DowngradeIsSustained ==
    [][(override = "none" /\ override' = "fast") =>
          low /\ Reached(monitor'.pressure, PressureWindow)]_govVars

\* A host that stays up switches back only after a whole window above the
\* threshold and between generations: none runs and none is about to.
UpgradeIsSafe ==
    [][(override = "fast" /\ override' = "none" /\ host' = "up") =>
          ~low /\ Reached(monitor.recovery, RecoveryWindow) /\ Drained]_govVars

\* Lasting pressure switches to "fast", and lasting recovery on a host that
\* becomes quiet switches back.
PressureDowngrades ==
    WorkerAnswers => (<>[](low /\ host = "up") => <>[](override = "fast"))

RecoveryUpgrades ==
    WorkerAnswers => (<>[](~low /\ host = "up" /\ Drained) => <>[](override = "none"))

ProfileFollowsMemory == PressureDowngrades /\ RecoveryUpgrades
=============================================================================
