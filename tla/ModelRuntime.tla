---------------------------- MODULE ModelRuntime ----------------------------
(***************************************************************************)
(* The processes that compute embeddings (src/rag/models/lifecycle.py,      *)
(* fallback.py, code_lifecycle.py, artifact_install.py) and the manager     *)
(* that keeps at most one of them (src/rag/runtime/model_manager.py).       *)
(* The text model has a fallback manager: a lifecycle on the GPU and, when  *)
(* that fails to load, another on the CPU.  The code model is one lifecycle *)
(* object for good.  The manager's lock is held for a whole operation, so   *)
(* one operation runs at a time; what interferes is the processes (they     *)
(* exit, do not become healthy, outlive kill()), the log file that cannot   *)
(* be opened, and the installation of the file they load.                   *)
(***************************************************************************)
EXTENDS Naturals, FiniteSets

CONSTANTS MaxStarts,     \* bound: processes ever started
          MaxCalls,      \* bound: operations of the manager
          MaxFaults,     \* bound: faults of the operating system
          MaxInstalls    \* bound: runs of the installer

VARIABLES
    life,       \* what a runtime remembers: its lifecycle's state, process and device
    alive,      \* processes that run
    stubborn,   \* processes that outlived kill()
    started,    \* number of processes started so far
    active,     \* _active_model of the manager
    call,       \* the operation that has the manager's lock
    answer,     \* what the last safe operation reported
    target,     \* content of the model's file
    partial,    \* content of its .partial
    install,    \* where the installer is
    spent       \* operations, faults and installations so far

modelVars == <<life, alive, stubborn, started, active, call, answer, target, partial, install, spent>>

Models     == {"TEXT", "CODE"}
\* the code's lifecycle is known for good, the text's while its fallback manager keeps one
Unloaded(m) == [state |-> "UNLOADED", proc |-> 0, device |-> "gpu", known |-> m = "CODE"]
NoCall     == [kind |-> "none", model |-> "TEXT", safe |-> FALSE, at |-> "idle", on |-> "TEXT",
               then |-> "end", errors |-> FALSE]

ModelInit ==
    /\ life = [m \in Models |-> Unloaded(m)]
    /\ alive = {} /\ stubborn = {} /\ started = 0
    /\ active = "none" /\ call = NoCall /\ answer = "none"
    /\ target = "absent" /\ partial = "absent" /\ install = "idle"
    /\ spent = [calls |-> 0, faults |-> 0, installs |-> 0]

Processes == 1 .. MaxStarts
ModelTypeOK ==
    /\ \A m \in Models : /\ life[m].state \in {"UNLOADED", "LOADING", "READY", "IDLE", "UNLOADING"}
                         /\ life[m].proc \in Processes \cup {0} /\ life[m].device \in {"gpu", "cpu"}
    /\ stubborn \subseteq alive /\ alive \subseteq 1 .. started /\ started <= MaxStarts
    /\ active \in Models \cup {"none"}
    /\ answer \in {"none", "active", "released", "not_released"}
    /\ {target, partial} \subseteq {"absent", "whole", "wrong"}
    /\ install \in {"idle", "copy", "replace", "discard"}

Disk == <<target, partial, install>>

\* a fault of the operating system, while the bound allows one
Fault == spent.faults < MaxFaults /\ spent' = [spent EXCEPT !.faults = @ + 1]
NoFault == UNCHANGED spent

-----------------------------------------------------------------------------
(* The operations of the manager: each begins with its lock free.            *)

At(step) == call.at = step
Go(step) == call' = [call EXCEPT !.at = step]
GoOn(step, model, then) == call' = [call EXCEPT !.at = step, !.on = model, !.then = then]

\* activate / activate_safe, unload_active / unload_active_safe and unload_if_idle
\* (which is unload_active once the clock says so).
Begin(kind, m, safe) ==
    /\ At("idle") /\ spent.calls < MaxCalls
    /\ spent' = [spent EXCEPT !.calls = @ + 1]
    /\ answer' = "none"
    /\ \/ /\ kind = "activate" /\ active \in {m, "none"}
          /\ call' = [NoCall EXCEPT !.kind = kind, !.model = m, !.safe = safe, !.at = "load", !.on = m]
       \/ /\ kind = "activate" /\ active \notin {m, "none"}
          /\ call' = [NoCall EXCEPT !.kind = kind, !.model = m, !.safe = safe, !.at = "unload",
                                    !.on = active, !.then = "load"]
       \/ /\ kind = "unload" /\ active = m
          /\ call' = [NoCall EXCEPT !.kind = kind, !.model = m, !.safe = safe, !.at = "unload", !.on = m]
    /\ UNCHANGED <<life, alive, stubborn, started, active, Disk>>

\* an exception leaves the operation: the safe one unloads both runtimes first
Raise ==
    \/ /\ call.then \notin {"code", "report"}
       /\ IF call.safe THEN call' = [call EXCEPT !.at = "unload", !.on = "TEXT", !.then = "code"]
                       ELSE call' = NoCall
       /\ active' = CASE call.then = "load" -> active          \* unload() of the other raised
                      [] call.kind = "activate" /\ active = call.model -> active
                      [] OTHER -> "none"
       /\ UNCHANGED answer
    \/ /\ call.then = "code"
       /\ call' = [call EXCEPT !.at = "unload", !.on = "CODE", !.then = "report", !.errors = TRUE]
       /\ UNCHANGED <<active, answer>>
    \/ /\ call.then = "report"
       /\ call' = NoCall /\ active' = "none" /\ answer' = "not_released"

\* unload() returned
Unloads ==
    CASE call.then = "load" -> /\ call' = [call EXCEPT !.at = "load", !.on = call.model, !.then = "end"]
                               /\ active' = "none" /\ UNCHANGED answer
      [] call.then = "code" -> /\ GoOn("unload", "CODE", "report") /\ UNCHANGED <<active, answer>>
      [] call.then = "report" -> /\ call' = NoCall /\ active' = "none"
                                 /\ answer' = IF call.errors THEN "not_released" ELSE "released"
      [] OTHER -> /\ call' = NoCall /\ active' = "none"
                  /\ answer' = IF call.safe THEN "released" ELSE "none"

\* load() returned
Loads == /\ call' = NoCall /\ active' = call.model
         /\ answer' = IF call.safe THEN "active" ELSE "none"

-----------------------------------------------------------------------------
(* TextModelLifecycle.load, and the fallback manager around the text's.      *)

m0 == call.on
Forget(m) == life' = [life EXCEPT ![m] = Unloaded(m)]

\* a lifecycle that is loaded already: its process is alive or is noticed to have exited
LoadAgain ==
    /\ At("load") /\ life[m0].state \in {"READY", "IDLE"}
    /\ IF life[m0].proc \in alive
       THEN life' = [life EXCEPT ![m0].state = "READY"] /\ Loads
       ELSE life' = [life EXCEPT ![m0].state = "UNLOADED", ![m0].proc = 0] /\ Raise
    /\ NoFault /\ UNCHANGED <<alive, stubborn, started, Disk>>

\* a lifecycle that a failure left in LOADING or UNLOADING refuses
LoadRefused ==
    /\ At("load") /\ life[m0].state \in {"LOADING", "UNLOADING"}
    /\ Raise /\ NoFault /\ UNCHANGED <<life, alive, stubborn, started, Disk>>

\* the next attempt after a ModelLoadError: the text's fallback manager tries the CPU
\* unless it remembers a lifecycle that was loaded before
AttemptFails ==
    IF ~life[m0].known /\ life[m0].device = "gpu"
    THEN /\ life' = [life EXCEPT ![m0] = [Unloaded(m0) EXCEPT !.device = "cpu"]]
         /\ Go("load") /\ UNCHANGED <<active, answer>>
    ELSE /\ life' = [life EXCEPT ![m0] = IF @.known THEN [@ EXCEPT !.state = "UNLOADED", !.proc = 0] ELSE Unloaded(m0)]
         /\ Raise

\* _validate_runtime_inputs: only a file that has the pinned size and digest
Invalid ==
    /\ At("load") /\ life[m0].state = "UNLOADED" /\ target # "whole"
    /\ AttemptFails /\ NoFault /\ UNCHANGED <<alive, stubborn, started, Disk>>

\* _open_log raises outside of the try: the lifecycle stays in LOADING, and the
\* fallback manager, which only expects ModelLoadError, forgets it
LogFails ==
    /\ At("load") /\ life[m0].state = "UNLOADED" /\ target = "whole"
    /\ life' = [life EXCEPT ![m0] = IF @.known THEN [@ EXCEPT !.state = "LOADING"] ELSE Unloaded(m0)]
    /\ Raise /\ Fault /\ UNCHANGED <<alive, stubborn, started, Disk>>

StartProcess ==
    /\ At("load") /\ life[m0].state = "UNLOADED" /\ target = "whole"
    /\ \/ /\ started < MaxStarts
          /\ started' = started + 1 /\ alive' = alive \cup {started'}
          /\ life' = [life EXCEPT ![m0].state = "LOADING", ![m0].proc = started']
          /\ Go("health") /\ NoFault /\ UNCHANGED <<active, answer>>
       \/ AttemptFails /\ Fault /\ UNCHANGED <<alive, started>>
    /\ UNCHANGED <<stubborn, Disk>>

\* the probe answers; the process has exited; or the time is up
Healthy ==
    /\ At("health")
    /\ \/ /\ life[m0].proc \in alive
          /\ life' = [life EXCEPT ![m0].state = "READY", ![m0].known = TRUE] /\ Loads /\ NoFault
       \/ /\ life[m0].proc \notin alive
          /\ AttemptFails /\ NoFault
       \/ /\ life[m0].proc \in alive
          /\ Go("abandon") /\ Fault /\ UNCHANGED <<life, active, answer>>
    /\ UNCHANGED <<alive, stubborn, started, Disk>>

\* terminate() and, if it does not help, kill(): the process ends or outlives both
Ends(p)     == alive' = alive \ {p} /\ UNCHANGED stubborn /\ NoFault
Outlives(p) == p \in alive /\ stubborn' = stubborn \cup {p} /\ UNCHANGED alive /\ Fault

\* _cleanup_failed_load forgets the process in any case
Abandon ==
    /\ At("abandon")
    /\ Ends(life[m0].proc) \/ Outlives(life[m0].proc)
    /\ AttemptFails /\ UNCHANGED <<started, Disk>>

-----------------------------------------------------------------------------
(* unload(): of the lifecycle, and of the fallback manager which forgets it. *)

UnloadRefused ==
    /\ At("unload") /\ life[m0].state \in {"LOADING", "UNLOADING"}
    /\ IF m0 = "TEXT" THEN Forget(m0) ELSE UNCHANGED life
    /\ Raise /\ NoFault /\ UNCHANGED <<alive, stubborn, started, Disk>>

Unload ==
    /\ At("unload") /\ life[m0].state \in {"UNLOADED", "READY", "IDLE"}
    /\ \/ /\ Ends(life[m0].proc)
          /\ Forget(m0) /\ Unloads
       \/ /\ Outlives(life[m0].proc)
          /\ life' = [life EXCEPT ![m0] = IF m0 = "TEXT" THEN Unloaded(m0)
                                          ELSE [@ EXCEPT !.state = "UNLOADING", !.proc = 0]]
          /\ Raise
    /\ UNCHANGED <<started, Disk>>

\* mark_idle and mark_ready of a user of the lifecycle
Mark(m) ==
    /\ At("idle") /\ active = m /\ life[m].state \in {"READY", "IDLE"}
    /\ life' = [life EXCEPT ![m] = IF @.proc \notin alive THEN [@ EXCEPT !.state = "UNLOADED", !.proc = 0]
                                   ELSE [@ EXCEPT !.state = IF life[m].state = "READY" THEN "IDLE" ELSE "READY"]]
    /\ NoFault /\ UNCHANGED <<alive, stubborn, started, active, call, answer, Disk>>

Exit(p) == /\ p \in alive /\ Fault
           /\ alive' = alive \ {p} /\ stubborn' = stubborn \ {p}
           /\ UNCHANGED <<life, started, active, call, answer, Disk>>

-----------------------------------------------------------------------------
(* install_verified_artifact: a valid file is kept, another is never         *)
(* overwritten; the download is verified as it is copied and then renamed.    *)

BeginInstall ==
    /\ install = "idle" /\ spent.installs < MaxInstalls /\ target = "absent"
    /\ spent' = [spent EXCEPT !.installs = @ + 1]
    /\ partial' = "absent" /\ install' = "copy" /\ UNCHANGED target

\* Faulty variant: what arrives is not verified.
VerifiedAnything(content) == TRUE

\* what arrives is the pinned file, or less or something else
Verified(content) == content = "whole"
Copy == /\ install = "copy"
        /\ \E content \in {"whole", "wrong"} :
              /\ partial' = content
              /\ install' = IF Verified(content) THEN "replace" ELSE "discard"
        /\ UNCHANGED <<target, spent>>
Publish == /\ install = "replace" /\ target' = partial /\ partial' = "absent" /\ install' = "idle"
           /\ UNCHANGED spent
DiscardPartial == /\ install = "discard" /\ partial' = "absent" /\ install' = "idle" /\ UNCHANGED <<target, spent>>
InstallerDies == /\ install # "idle" /\ install' = "idle" /\ Fault /\ UNCHANGED <<target, partial>>

Install == /\ \/ BeginInstall \/ Copy \/ Publish \/ DiscardPartial \/ InstallerDies
           /\ UNCHANGED <<life, alive, stubborn, started, active, call, answer>>

ModelNext ==
    \/ \E kind \in {"activate", "unload"}, m \in Models, safe \in BOOLEAN : Begin(kind, m, safe)
    \/ LoadAgain \/ LoadRefused \/ Invalid \/ LogFails \/ StartProcess \/ Healthy \/ Abandon
    \/ UnloadRefused \/ Unload
    \/ \E m \in Models : Mark(m)
    \/ \E p \in Processes : Exit(p)
    \/ Install

ModelSpec == ModelInit /\ [][ModelNext]_modelVars

-----------------------------------------------------------------------------
\* Of the processes that can be ended one runs at most, and between two
\* operations it is the one the manager's active runtime remembers
\* (model_manager.py: "Switching models always unloads the currently active
\* runtime before loading the requested runtime").
OneModelRuns ==
    /\ Cardinality(alive \ stubborn) <= 1
    /\ At("idle") => \A p \in alive \ stubborn : active # "none" /\ life[active].proc = p

\* An operation that reports its resources released leaves no process behind,
\* but for those that nothing could end (ModelManagerOperationResult).
ReleasedMeansGone == answer = "released" => alive \subseteq stubborn

\* A process only runs on a file that was installed whole
\* (artifact_install.py: published only after size and SHA-256 verification).
OnlyWholeModels == target # "wrong" /\ (alive # {} => target = "whole")
=============================================================================
