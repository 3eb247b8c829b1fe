---------------------------- MODULE FuzzCampaign ----------------------------
(***************************************************************************)
(* One call of the controlled fuzz engine (fuzz/engine.py) and the local   *)
(* target it executes through execution/controlled_executor.py.  The       *)
(* engine launches the target once for each mutation of each seed and      *)
(* waits for it: the exit of the target races the timeout.  Inputs are     *)
(* left out: a target may do anything with any of them.  The engine never  *)
(* awaits, so nothing of its caller comes between its steps.               *)
(***************************************************************************)
EXTENDS Integers, Sequences, FiniteSets

CONSTANTS
    MaxSeeds,       \* bound: seed files read
    MutationCount,  \* mutation_count of the engine
    ReturnCodes,    \* what the target may exit with; a signal is negative
    Outputs         \* the first 4096 bytes of stderr

ASSUME FuzzAssumption ==
    /\ MaxSeeds \in Nat
    /\ MutationCount \in Nat
    /\ ReturnCodes \subseteq Int

VARIABLES
    request,     \* authorized, the kind of the target path, seeds
    pc,          \* where the engine is
    target,      \* the target process: "none", "running" or "exited"
    killed,      \* SIGKILL was sent to it
    exit,        \* what it exited with
    pipes_held,  \* a descendant holds its pipes open
    crashes,     \* the engine's counter
    unique_signatures, crash_fingerprints,
    evidence     \* one record for the three pieces of each execution

vars == <<request, pc, target, killed, exit, pipes_held, crashes,
          unique_signatures, crash_fingerprints, evidence>>

Exits == [returncode: ReturnCodes, stderr: Outputs]
NoExit == [returncode |-> 0, stderr |-> "none"]

Init ==
    /\ request \in [authorized: BOOLEAN, path: {"missing", "directory", "file"},
                    seeds: 0..MaxSeeds]
    /\ pc = "gates"
    /\ target = "none"
    /\ killed = FALSE
    /\ exit = NoExit
    /\ pipes_held = FALSE
    /\ crashes = 0
    /\ unique_signatures = {}
    /\ crash_fingerprints = {}
    /\ evidence = <<>>

engineVars == <<crashes, unique_signatures, crash_fingerprints, evidence>>
targetVars == <<target, killed, exit, pipes_held>>

-----------------------------------------------------------------------------
(* The target, and what it may leave behind.                               *)

\* A descendant inherits the pipes of the target.
TargetForks ==
    /\ target = "running"
    /\ pipes_held' = TRUE
    /\ UNCHANGED <<request, pc, target, killed, exit, engineVars>>

\* A killed target exits with the signal, whatever it would have returned.
TargetExits ==
    /\ target = "running"
    /\ target' = "exited"
    /\ exit' \in Exits
    /\ UNCHANGED <<request, pc, killed, pipes_held, engineVars>>

DescendantExits ==
    /\ pipes_held
    /\ pipes_held' = FALSE
    /\ UNCHANGED <<request, pc, target, killed, exit, engineVars>>

-----------------------------------------------------------------------------
(* The engine.                                                             *)

\* The three gates; a refused request is answered with executed = FALSE.
Refused == ~request.authorized \/ request.path # "file"

\* No seed file stands for one empty seed.
Seeds == IF request.seeds = 0 THEN 1 ELSE request.seeds
Planned == Seeds * MutationCount

Refuse ==
    /\ pc = "gates" /\ Refused
    /\ pc' = "refused"
    /\ UNCHANGED <<request, targetVars, engineVars>>

\* The working directory is made and the seeds are read.
Begin ==
    /\ pc = "gates" /\ ~Refused
    /\ pc' = "next"
    /\ UNCHANGED <<request, targetVars, engineVars>>

\* An OSError of mkdir or of Popen leaves run() and takes all results along.
Raises ==
    /\ \/ pc = "gates" /\ ~Refused
       \/ pc = "next" /\ Len(evidence) < Planned
    /\ pc' = "raised"
    /\ UNCHANGED <<request, targetVars, engineVars>>

\* Mutant: one execution more than planned.
LaunchOneMore ==
    /\ pc = "next" /\ Len(evidence) <= Planned
    /\ target' = "running"
    /\ killed' = FALSE
    /\ exit' = NoExit
    /\ pipes_held' = FALSE
    /\ pc' = "communicate"
    /\ UNCHANGED <<request, engineVars>>

\* Popen
Launch ==
    /\ pc = "next" /\ Len(evidence) < Planned
    /\ target' = "running"
    /\ killed' = FALSE
    /\ exit' = NoExit
    /\ pipes_held' = FALSE
    /\ pc' = "communicate"
    /\ UNCHANGED <<request, engineVars>>

\* An ExecutionResult; stderr stands for the hash of its first bytes.
Execution(returncode, timed_out, stderr) ==
    [returncode |-> returncode, timed_out |-> timed_out,
     crashed |-> ~timed_out /\ returncode < 0, stderr |-> stderr]

Signature(e) ==
    IF e.timed_out THEN <<"timeout">> ELSE <<e.returncode, e.crashed, e.stderr>>

Fingerprint(e) == <<e.returncode, e.stderr>>

\* Mutant: every crash counts.
RecordEvery(e) ==
    /\ unique_signatures' = unique_signatures \cup {Signature(e)}
    /\ crashes' = IF e.crashed THEN crashes + 1 ELSE crashes
    /\ crash_fingerprints' = crash_fingerprints
    /\ evidence' = Append(evidence, e)

\* What the engine keeps of an execution: a crash counts once for each
\* fingerprint.
Record(e) ==
    /\ unique_signatures' = unique_signatures \cup {Signature(e)}
    /\ IF e.crashed /\ Fingerprint(e) \notin crash_fingerprints
       THEN /\ crash_fingerprints' = crash_fingerprints \cup {Fingerprint(e)}
            /\ crashes' = crashes + 1
       ELSE UNCHANGED <<crash_fingerprints, crashes>>
    /\ evidence' = Append(evidence, e)

\* communicate returns when the target has exited and its pipes are closed.
Communicated ==
    /\ pc = "communicate"
    /\ target = "exited" /\ ~pipes_held
    /\ Record(Execution(exit.returncode, FALSE, exit.stderr))
    /\ pc' = "next"
    /\ UNCHANGED <<request, targetVars>>

\* Mutants: nobody is killed; the target is not awaited after the kill; a
\* timeout ends the campaign.
TimesOutOnly ==
    /\ pc = "communicate"
    /\ pc' = "drain"
    /\ UNCHANGED <<request, targetVars, engineVars>>
DrainedAtOnce ==
    /\ pc = "drain"
    /\ Record(Execution(0, TRUE, exit.stderr))
    /\ pc' = "next"
    /\ UNCHANGED <<request, targetVars>>
DrainedGivesUp ==
    /\ pc = "drain"
    /\ target = "exited" /\ ~pipes_held
    /\ pc' = "ended"
    /\ UNCHANGED <<request, targetVars, engineVars>>

\* TimeoutExpired, at any moment before communicate returned; kill() reaches
\* the target unless it has just exited.
TimesOut ==
    /\ pc = "communicate"
    /\ killed' = (target = "running")
    /\ pc' = "drain"
    /\ UNCHANGED <<request, target, exit, pipes_held, engineVars>>

\* The second communicate has no timeout.  The return code is dropped: a crash
\* that the timeout overtook is a timeout.
Drained ==
    /\ pc = "drain"
    /\ target = "exited" /\ ~pipes_held
    /\ Record(Execution(0, TRUE, exit.stderr))
    /\ pc' = "next"
    /\ UNCHANGED <<request, targetVars>>

Return ==
    /\ pc = "next" /\ Len(evidence) = Planned
    /\ pc' = "ended"
    /\ UNCHANGED <<request, targetVars, engineVars>>

Engine ==
    \/ Refuse
    \/ Begin
    \/ Raises
    \/ Launch
    \/ Communicated
    \/ TimesOut
    \/ Drained
    \/ Return

Next == Engine \/ TargetForks \/ TargetExits \/ DescendantExits

\* The engine is scheduled, time passes, and a killed target dies; a target is
\* not obliged to exit by itself, and nothing ends its descendants.
Spec ==
    /\ Init /\ [][Next]_vars
    /\ WF_vars(Engine)
    /\ WF_vars(killed /\ TargetExits)

-----------------------------------------------------------------------------

TypeOK ==
    /\ request \in [authorized: BOOLEAN, path: {"missing", "directory", "file"},
                    seeds: 0..MaxSeeds]
    /\ pc \in {"gates", "refused", "next", "communicate", "drain", "ended", "raised"}
    /\ target \in {"none", "running", "exited"}
    /\ killed \in BOOLEAN
    /\ exit \in Exits \cup {NoExit}
    /\ pipes_held \in BOOLEAN
    /\ crashes \in Nat
    /\ crash_fingerprints \subseteq ReturnCodes \X Outputs
    /\ \A i \in DOMAIN evidence :
        /\ evidence[i].timed_out \in BOOLEAN /\ evidence[i].crashed \in BOOLEAN
        /\ ~evidence[i].timed_out => evidence[i].returncode \in ReturnCodes
    /\ Len(evidence) <= Planned

\* The crashes a campaign reports are the distinct crashes its evidence shows,
\* a timeout is none of them, and there are never more of them than distinct
\* signatures, nor more signatures than executions: coverage stays within 1.
CrashesCounted ==
    LET crashed == {i \in DOMAIN evidence : evidence[i].crashed}
    IN  /\ crashes = Cardinality({Fingerprint(evidence[i]) : i \in crashed})
        /\ \A i \in crashed : ~evidence[i].timed_out /\ evidence[i].returncode < 0
        /\ crashes <= Cardinality(unique_signatures)
        /\ Cardinality(unique_signatures) <= Len(evidence)

\* Between two executions, and however the campaign ends, no target process is
\* left running, also when it exits at the moment of the timeout.
NoTargetLeft == pc \notin {"communicate", "drain"} => target # "running"

\* A campaign that returns has executed every mutation of every seed, and only
\* an authorized request for a file has executed anything.
CampaignComplete ==
    /\ pc = "ended" => Len(evidence) = Planned
    /\ target # "none" \/ evidence # <<>> => ~Refused

\* An execution ends, with or without the target's consent, unless a process
\* the target left behind holds its pipes.
ExecutionEndsUnlessHeld ==
    pc = "communicate" ~> pc \notin {"communicate", "drain"} \/ pipes_held
=============================================================================
