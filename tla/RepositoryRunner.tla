-------------------------- MODULE RepositoryRunner --------------------------
(***************************************************************************)
(* IsolatedRepositoryRunner.run (src/discoveryos/runtime/                  *)
(* repository_runner.py): a candidate's patches are applied and its        *)
(* commands run in a worktree of one shared repository, in a temporary     *)
(* directory.  Runs are named by their candidate; each belongs to a        *)
(* worker.  The deadline may pass at any point: the first step that looks   *)
(* ends the run, so that whether it has passed needs no memory.            *)
(***************************************************************************)
EXTENDS Integers, FiniteSets

CONSTANTS
  Runners  \* the workers that evaluate

VARIABLES
  run,        \* per worker: [cand, stage, mechanical]
  dirs,       \* candidates whose checkout is on disk
  metadata,   \* candidates whose worktree is registered in the repository
  children,   \* candidates whose command's own process runs
  holders,    \* candidates a descendant of whose command holds its output
  strays,     \* candidates with processes running that no run waits for
  verdicts,   \* [cand, mechanical]: what run returned
  interrupted \* history: runs that died, and those git or the file system failed

processes == <<children, holders, strays>>

runnerVars == <<run, dirs, metadata, processes, verdicts, interrupted>>

Command == {"build", "test", "evaluation"}

\* MECHANICAL_REPAIR_FAILURES: of a verdict no more is kept than whether it is
\* one of them, what MechanicalDiagnostic.from_evidence admits.
Mechanical == {"PATCH_REJECTED", "BUILD_FAILED", "TEST_FAILED", "TIMEOUT"}

NoRun == [cand |-> 0, stage |-> "none", mechanical |-> FALSE]

InitRunner ==
  /\ run = [w \in Runners |-> NoRun]
  /\ dirs = {} /\ metadata = {} /\ verdicts = {} /\ interrupted = {}
  /\ children = {} /\ holders = {} /\ strays = {}

Evaluated(c) == \E v \in verdicts : v.cand = c

StartRun(w, c) ==
  /\ run[w].stage = "none"
  /\ run' = [run EXCEPT ![w] = [NoRun EXCEPT !.cand = c, !.stage = "verifying"]]
  /\ UNCHANGED <<dirs, metadata, processes, verdicts, interrupted>>

Goto(w, stage) == run' = [run EXCEPT ![w].stage = stage]

\* Everything the inner try ends with passes its finally.
LeaveTo(w, stage, verdict) ==
  run' = [run EXCEPT ![w].stage = stage, ![w].mechanical = verdict \in Mechanical]

Leave(w, verdict) == LeaveTo(w, "removing", verdict)

Return(w, mechanical) ==
  /\ verdicts' = verdicts \cup {[cand |-> run[w].cand, mechanical |-> mechanical]}
  /\ run' = [run EXCEPT ![w] = NoRun]

\* _policy_issue, _verify_repository: nothing to clean up yet.
Verify(w) ==
  /\ run[w].stage = "verifying"
  /\ \/ Goto(w, "adding") /\ UNCHANGED verdicts
     \/ \E v \in {"PATH_VIOLATION", "PATCH_REJECTED", "TIMEOUT"} : Return(w, v \in Mechanical)
  /\ UNCHANGED <<dirs, metadata, processes, interrupted>>

\* git worktree add, not yet in the inner try.  One that is killed on the
\* deadline may leave the worktree registered.
Add(w) ==
  LET c == run[w].cand
  IN /\ run[w].stage = "adding"
     /\ dirs' = dirs \cup {c}
     /\ \/ Goto(w, "patching") /\ metadata' = metadata \cup {c} /\ UNCHANGED interrupted
        \/ /\ \E v \in {"PATCH_REJECTED", "TIMEOUT"} : LeaveTo(w, "cleaning", v)
           /\ UNCHANGED <<metadata, interrupted>>
        \/ /\ LeaveTo(w, "cleaning", "TIMEOUT")
           /\ metadata' = metadata \cup {c} /\ interrupted' = interrupted \cup {c}
     /\ UNCHANGED <<processes, verdicts>>

\* _apply_patch, for every patch of the stack.  A timeout of _remaining is a
\* TimeoutError, one of git apply a SubprocessError.
Patch(w) ==
  /\ run[w].stage = "patching"
  /\ Goto(w, "inspecting") \/ \E v \in {"PATCH_REJECTED", "TIMEOUT"} : Leave(w, v)
  /\ UNCHANGED <<dirs, metadata, processes, verdicts, interrupted>>

\* _changed_paths, forbidden paths, environment lock, entrypoint, data file.
Inspect(w) ==
  /\ run[w].stage = "inspecting"
  /\ \/ Goto(w, "build")
     \/ \E v \in {"PATH_VIOLATION", "PATCH_REJECTED", "WORKER_CRASH", "TIMEOUT"} : Leave(w, v)
  /\ UNCHANGED <<dirs, metadata, processes, verdicts, interrupted>>

\* communicate waits for the command's process and for the end of its output,
\* which a descendant may hold.
Awaited(c) == c \in children \cup holders

\* _run_command: nothing is started after the deadline.
StartCommand(w) ==
  /\ run[w].stage \in Command /\ ~Awaited(run[w].cand)
  /\ \/ children' = children \cup {run[w].cand} /\ UNCHANGED run
     \/ (\E v \in {"TIMEOUT", "WORKER_CRASH"} : Leave(w, v)) /\ UNCHANGED children
  /\ UNCHANGED <<dirs, metadata, holders, strays, verdicts, interrupted>>

\* A command starts a process that keeps its output, or one that does not.
Spawn(w) ==
  /\ run[w].stage \in Command /\ run[w].cand \in children
  /\ \/ holders' = holders \cup {run[w].cand} /\ UNCHANGED strays
     \/ strays' = strays \cup {run[w].cand} /\ UNCHANGED holders
  /\ UNCHANGED <<run, dirs, metadata, children, verdicts, interrupted>>

\* The output is no longer held: its holder has ended, or closed it and goes on.
LetGo(c) ==
  /\ holders' = holders \ {c}
  /\ strays' \in {strays, strays \cup (holders \cap {c})}

\* One of the two is over, and communicate waits for the other.
Outlive(w) ==
  LET c == run[w].cand
  IN /\ run[w].stage \in Command /\ c \in children \cap holders
     /\ \/ children' = children \ {c} /\ UNCHANGED <<holders, strays>>
        \/ LetGo(c) /\ UNCHANGED children
     /\ UNCHANGED <<run, dirs, metadata, verdicts, interrupted>>

AfterCommand ==
  [s \in Command |-> CASE s = "build" -> "test" [] s = "test" -> "evaluation"
                       [] s = "evaluation" -> "rechecking"]

\* Its exit code, and what _classify_process_failure makes of it.
FailureOf ==
  [s \in Command |-> CASE s = "build" -> {"BUILD_FAILED", "OOM", "WORKER_CRASH"}
                       [] s = "test" -> {"TEST_FAILED", "OOM", "WORKER_CRASH"}
                       [] s = "evaluation" -> {"EVALUATION_FAILED", "OOM", "WORKER_CRASH"}]

\* Both are over.  Nothing is killed: what the command started without its
\* output goes on.
EndCommand(w) ==
  LET c == run[w].cand
  IN /\ run[w].stage \in Command /\ Awaited(c) /\ c \notin children \cap holders
     /\ children' = children \ {c} /\ LetGo(c)
     /\ \/ Goto(w, AfterCommand[run[w].stage])
        \/ \E v \in FailureOf[run[w].stage] : Leave(w, v)
     /\ UNCHANGED <<dirs, metadata, verdicts, interrupted>>

\* Mutant: the command is given up, not killed.
KillCommandOnly(w) ==
  /\ run[w].stage \in Command /\ Awaited(run[w].cand)
  /\ Leave(w, "TIMEOUT")
  /\ UNCHANGED <<dirs, metadata, processes, verdicts, interrupted>>

\* communicate times out on the deadline.  _kill_process_tree kills the group
\* of a process that runs, without those that left it, and of one that has
\* exited nothing.
KillCommand(w) ==
  LET c == run[w].cand
  IN /\ run[w].stage \in Command /\ Awaited(c)
     /\ Goto(w, "draining")
     /\ \/ /\ c \in children /\ children' = children \ {c}
           /\ holders' \in {holders, holders \ {c}} /\ strays' \in {strays, strays \ {c}}
        \/ c \notin children /\ UNCHANGED processes
     /\ UNCHANGED <<dirs, metadata, verdicts, interrupted>>

\* communicate again, now with no timeout: as long as the output is held.
Drain(w) ==
  /\ run[w].stage = "draining"
  /\ LetGo(run[w].cand)
  /\ Leave(w, "TIMEOUT")
  /\ UNCHANGED <<dirs, metadata, children, verdicts, interrupted>>

\* The changed paths must be those of before the commands, which may have
\* written other files.
Recheck(w) ==
  /\ run[w].stage = "rechecking"
  /\ Goto(w, "reporting") \/ \E v \in {"PATH_VIOLATION", "TIMEOUT"} : Leave(w, v)
  /\ UNCHANGED <<dirs, metadata, processes, verdicts, interrupted>>

\* _parse_evaluation_output.  A value of a wrong type raises a TypeError, which
\* no handler of run catches.
Report(w) ==
  /\ run[w].stage = "reporting"
  /\ \E v \in {"VALID", "INVALID", "EVALUATION_FAILED", "TypeError"} : Leave(w, v)
  /\ UNCHANGED <<dirs, metadata, processes, verdicts, interrupted>>

\* _remove_worktree, whose errors are ignored.  prune drops what is
\* registered without a directory, of other runs too.
Remove(w) ==
  LET c == run[w].cand
  IN /\ run[w].stage = "removing"
     /\ Goto(w, "cleaning")
     /\ \/ /\ dirs' = dirs \ {c}
           /\ metadata' = (metadata \cap dirs) \ {c}
           /\ UNCHANGED interrupted
        \/ interrupted' = interrupted \cup {c} /\ UNCHANGED <<dirs, metadata>>
     /\ UNCHANGED <<processes, verdicts>>

\* The temporary directory is deleted.  If that fails its OSError, a
\* WORKER_CRASH, replaces what was being returned or raised.
Clean(w) ==
  LET c == run[w].cand
  IN /\ run[w].stage = "cleaning"
     /\ \/ dirs' = dirs \ {c} /\ Return(w, run[w].mechanical) /\ UNCHANGED interrupted
        \/ /\ c \in dirs /\ interrupted' = interrupted \cup {c}
           /\ Return(w, FALSE) /\ UNCHANGED dirs
     /\ UNCHANGED <<metadata, processes>>

\* The workers' process dies.  Commands have sessions of their own and go on.
RunnerCrash ==
  /\ run' = [w \in Runners |-> NoRun]
  /\ interrupted' = interrupted \cup {run[w].cand : w \in {w \in Runners : run[w].stage # "none"}}
  /\ children' = {} /\ holders' = {} /\ strays' = strays \cup children \cup holders
  /\ UNCHANGED <<dirs, metadata, verdicts>>

StrayExits(c) ==
  /\ c \in strays
  /\ strays' = strays \ {c}
  /\ UNCHANGED <<run, dirs, metadata, children, holders, verdicts, interrupted>>

------------------------------------------------------------------------------

Running == {run[w].cand : w \in {w \in Runners : run[w].stage # "none"}}

Waiting == {run[w].cand : w \in {w \in Runners : run[w].stage \in Command \cup {"draining"}}}

\* Whichever way a run ends, its worktree is neither on disk nor registered,
\* unless it died or git or the file system failed it, and it is not given up
\* while a command's own process, or one that holds its output, is left: only
\* processes that closed the output outlive a run that did not die.
RunsCleanUp ==
  /\ dirs \cup metadata \subseteq Running \cup interrupted
  /\ children \cup holders \subseteq Waiting
==============================================================================
