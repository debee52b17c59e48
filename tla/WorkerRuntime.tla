---------------------------- MODULE WorkerRuntime -----------------------------
(***************************************************************************)
(* Protocol code out of process: a call of a compiled worker under a time  *)
(* limit and an output limit, and the compilation of uploaded sources,     *)
(* one at a time in the whole process, in temporary directories.           *)
(***************************************************************************)
EXTENDS Naturals, FiniteSets

CONSTANTS
    WCalls,         \* calls of a worker
    OutLimit,       \* maxExternalOutput
    MaxOut,         \* bound: what a worker writes
    Builds,         \* uploads of sources
    Targets,        \* target platforms of an upload
    MaxDeaths       \* bound: ends of the process
ASSUME WorkerAssumption == OutLimit \in Nat /\ MaxOut \in Nat

VARIABLES
    call,       \* call[c]: its step, what the worker wrote, what stdout kept, whether stdout
                \* was truncated, how the run ended, the verdict of Invoke
    buildSlot,       \* uploads that hold the compiler slot
    build,      \* build[b]: its step and the targets still to compile
    workDirs,   \* temporary directories, by upload
    orphans,    \* directories left behind: by a process that ended, or not removable
    deaths

xvars == <<call, buildSlot, build, workDirs, orphans, deaths>>
runVars == <<buildSlot, build, workDirs, orphans, deaths>>

NewCall == [at |-> "new", wrote |-> 0, kept |-> 0, cut |-> FALSE, run |-> "none", got |-> "none"]
NewBuild == [at |-> "new", left |-> Targets]

WorkerInit ==
    /\ call = [c \in WCalls |-> NewCall]
    /\ buildSlot = {} /\ build = [b \in Builds |-> NewBuild] /\ workDirs = {} /\ orphans = {}
    /\ deaths = 0

-------------------------------------------------------------------------------
(* ExternalParser.Invoke.                                                  *)

\* The artefact is of the release, a file below the data directory with the recorded
\* size and checksum, or the call fails before anything runs.
verifyExternalArtifact(c, ok) ==
    /\ call[c].at = "new"
    /\ call' = [call EXCEPT ![c] = IF ok THEN [@ EXCEPT !.at = "run"]
                                   ELSE [@ EXCEPT !.at = "done", !.got = "error"]]
    /\ UNCHANGED runVars

\* boundedBuffer.Write: what fits is kept; the rest sets truncated and fails the copy.
BadWriteOut(r) == [r EXCEPT !.wrote = @ + 1, !.kept = IF @ < OutLimit THEN @ + 1 ELSE @]
WriteOut(r) ==
    [at |-> r.at, wrote |-> r.wrote + 1, kept |-> IF r.kept < OutLimit THEN r.kept + 1 ELSE r.kept,
     cut |-> (r.cut \/ r.kept >= OutLimit), run |-> r.run, got |-> r.got]
WorkerWrites(c) ==
    /\ call[c].at = "run" /\ call[c].run = "none" /\ call[c].wrote < MaxOut
    /\ call' = [call EXCEPT ![c] = WriteOut(call[c])]
    /\ UNCHANGED runVars

\* The worker exits; a copy of its output that failed makes Run fail; it is killed at the
\* end of externalTimeout or with the request (CommandContext, WaitDelay).
WorkerExits(c, how) ==
    /\ call[c].at = "run" /\ call[c].run = "none"
    /\ call' = [call EXCEPT ![c].run = IF how = "exit0" /\ call[c].cut
                                       THEN "copyFailed" ELSE how]
    /\ UNCHANGED runVars
\* The time limit may also pass between the exit and the check.
LateDeadline(c) ==
    /\ call[c].at = "run" /\ call[c].run \in {"exit0", "failed", "copyFailed"}
    /\ call' = [call EXCEPT ![c].run = "deadline"]
    /\ UNCHANGED runVars

\* The deadline decides first, then the error of Run, then the truncation.
InvokeResult(r) == IF r.run # "exit0" \/ r.cut THEN "error" ELSE "output"
\* ParseWithContext, decodeExternalMessage: output that is no message of a known type is
\* an error as well.
InvokeEnd(c, decodes) ==
    /\ call[c].at = "run" /\ call[c].run # "none"
    /\ call' = [call EXCEPT ![c].at = "done",
                            ![c].got = IF decodes THEN InvokeResult(call[c]) ELSE "error"]
    /\ UNCHANGED runVars

-------------------------------------------------------------------------------
(* uploadProtocolSource: the slot is held from the sources to the end.     *)

\* A select with default: a second upload is answered 429 at once.
BadTakeBuildSlot(b) == buildSlot' = buildSlot \cup {b}
TakeBuildSlot(b) == buildSlot = {} /\ buildSlot' = {b}
BuildBegin(b) ==
    /\ build[b].at = "new" /\ TakeBuildSlot(b)
    /\ build' = [build EXCEPT ![b].at = "next"]
    /\ UNCHANGED <<call, workDirs, orphans, deaths>>
BuildRefused(b) ==
    /\ build[b].at = "new" /\ buildSlot # {}
    /\ build' = [build EXCEPT ![b].at = "busy"]
    /\ UNCHANGED <<call, buildSlot, workDirs, orphans, deaths>>

\* BuildForPlatform: MkdirTemp and the sources, for each target.
BuildPrepare(b, t) ==
    /\ build[b].at = "next" /\ t \in build[b].left
    /\ build' = [build EXCEPT ![b] = [at |-> "compile", left |-> @.left \ {t}]]
    /\ workDirs' = workDirs \cup {<<b, t>>}
    /\ UNCHANGED <<call, buildSlot, orphans, deaths>>
\* go build ends and the worker is read (1 byte to 64 MiB); RemoveAll is deferred, and
\* nobody looks at its error: what it could not remove stays.
RemoveAll(b) ==
    /\ workDirs' = {d \in workDirs : d[1] # b}
    /\ orphans' \in {orphans, orphans \cup (workDirs \ workDirs')}
BuildCompiles(b) ==
    /\ build[b].at = "compile"
    /\ build' = [build EXCEPT ![b].at = "next"]
    /\ RemoveAll(b)
    /\ UNCHANGED <<call, buildSlot, deaths>>
\* The sources or the request are refused, the compiler fails or takes longer than 120
\* seconds: the directory goes, then the buildSlot.
BuildFails(b) ==
    /\ build[b].at \in {"next", "compile"}
    /\ build' = [build EXCEPT ![b].at = "failed"]
    /\ RemoveAll(b) /\ buildSlot' = buildSlot \ {b}
    /\ UNCHANGED <<call, deaths>>
\* All targets are compiled: the package is installed (module ProtocolRelease).
BuildInstalls(b) ==
    /\ build[b].at = "next" /\ build[b].left = {}
    /\ build' = [build EXCEPT ![b].at = "installed"] /\ buildSlot' = buildSlot \ {b}
    /\ UNCHANGED <<call, workDirs, orphans, deaths>>

\* The process ends: nothing deferred runs.
WorkerDeath ==
    /\ deaths < MaxDeaths /\ deaths' = deaths + 1
    /\ buildSlot' = {} /\ workDirs' = {} /\ orphans' = orphans \cup workDirs
    /\ call' = [c \in WCalls |-> IF call[c].at = "run" THEN [call[c] EXCEPT !.at = "done"] ELSE call[c]]
    /\ build' = [b \in Builds |-> IF build[b].at \in {"next", "compile"}
                                  THEN [build[b] EXCEPT !.at = "failed"] ELSE build[b]]

WorkerNext ==
    \/ \E c \in WCalls :
        \/ WorkerWrites(c) \/ LateDeadline(c)
        \/ \E ok \in BOOLEAN : verifyExternalArtifact(c, ok) \/ InvokeEnd(c, ok)
        \/ \E how \in {"exit0", "failed", "deadline", "cancelled"} : WorkerExits(c, how)
    \/ \E b \in Builds :
        \/ BuildBegin(b) \/ BuildRefused(b) \/ BuildCompiles(b) \/ BuildFails(b)
        \/ BuildInstalls(b) \/ \E t \in Targets : BuildPrepare(b, t)
    \/ WorkerDeath

WorkerSpec == WorkerInit /\ [][WorkerNext]_xvars

-------------------------------------------------------------------------------
\* What a successful call hands on is all that a worker wrote before it exited with
\* status 0 within the time limit: never a prefix of it, and nothing of a worker that was
\* killed.
OutputIsWhole ==
    \A c \in WCalls : call[c].got = "output" =>
        call[c].run = "exit0" /\ call[c].kept = call[c].wrote

\* Sources of one upload at a time are compiled, and when none is, this process has removed
\* every temporary directory it made, except where the removal itself failed.
OneCleanBuild ==
    /\ Cardinality({b \in Builds : build[b].at \in {"next", "compile"}}) <= 1
    /\ buildSlot = {} => workDirs = {}

\* A worker's result is whole, and builds come one at a time and clean up after themselves.
WorkersAreContained == OutputIsWhole /\ OneCleanBuild

===============================================================================
