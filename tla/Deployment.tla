----------------------------- MODULE Deployment -----------------------------
(* deploy/product/run.py and deploy/hindsight/contract.py: commands on the         *)
(* development stack, and isolated runs that bring a stack of their own up, work   *)
(* with it stage by stage and always tear it down. Docker Compose is external: a   *)
(* command that fails, or is killed at its deadline, has done any part of its work.*)
(* The engine of the development stack is the one that BankAdmin administers.      *)
EXTENDS BankAdmin

CONSTANTS
    Commands,       \* runs of main on the development project
    EndToEnds,      \* runs of run_e2e
    Contracts,      \* runs of contract.py
    Ready           \* whether capabilities.json says so

Isolated == EndToEnds \cup Contracts
Runners == Commands \cup Isolated
Dev == "engineering-memory-product-dev"
Projects == {Dev} \cup Isolated

\* The generated project of an isolated run is never the development project.
ASSUME ProjectsAssumption == Commands \cap Isolated = {} /\ Dev \notin Isolated

VARIABLES
    containers,     \* of each project: "none", "some" or "up"
    volumes,        \* whether each project has its volumes
    action,         \* the arguments of a command
    step,           \* of a runner
    child,          \* the provisioning that a start waits for
    spent,          \* the total deadline is over
    code,           \* the exit code, once it is known
    told            \* the project to recover is printed

runVars == <<containers, volumes, action, step, child, spent, code, told>>
stacks == <<containers, volumes>>
vars == <<bankVars, runVars>>

DeployInit ==
    /\ Init
    /\ \E up \in {"none", "up"} :
          containers = [p \in Projects |-> IF p = Dev THEN up ELSE "none"]
    /\ reachable = (containers[Dev] = "up")
    /\ volumes = [p \in Projects |-> p = Dev]
    /\ action = [r \in Commands |-> None]
    /\ step = [r \in Runners |-> "idle"]
    /\ child = [r \in Commands |-> None]
    /\ spent = [r \in Isolated |-> FALSE]
    /\ code = [r \in Runners |-> None]
    /\ told = [r \in Runners |-> FALSE]

To(r, label) == step' = [step EXCEPT ![r] = label]
Exit(r, c) == To(r, "ended") /\ code' = [code EXCEPT ![r] = c]

\* What becomes of a project: its engine answers while it is up, and what it holds
\* goes with the volumes.
Becomes(project, state, kept) ==
    /\ containers' = [containers EXCEPT ![project] = state]
    /\ volumes' = [volumes EXCEPT ![project] = kept]
    /\ reachable' = (containers'[Dev] = "up")
    /\ IF project = Dev /\ ~kept
       THEN banks' = [b \in Banks |-> "none"] /\ flying' = {}
       ELSE UNCHANGED engine

States == {"none", "some", "up"}

\* Compose up ended badly, having done any part of it.
BringsUpSome(project) ==
    \E state \in States, kept \in BOOLEAN :
        /\ volumes[project] \/ state # "none" => kept
        /\ containers[project] # "none" => state # "none"
        /\ Becomes(project, state, kept)

\* Compose down ended badly; volumes go last, and only if it removes them.
TakesDownSome(project, removes) ==
    \E state \in States, kept \in BOOLEAN :
        /\ state # "up" \/ containers[project] = "up"
        /\ state = "none" \/ containers[project] # "none"
        /\ kept => volumes[project]
        /\ volumes[project] /\ ~kept => removes /\ state = "none"
        /\ Becomes(project, state, kept)

Starting(r) == step[r] = "idle" /\ starts < MaxStarts /\ starts' = starts + 1

----------------------------------------------------------------------------
(* main on the development project, one command at a time (full-product.md:109) *)

Actions == {"config", "dependencies", "start", "stop", "reset"}

\* What ends a command before it runs anything: an environment that is not valid, a
\* product that is not ready, a reset without its flag.
Refused(arguments, valid) ==
    \/ arguments.action \in {"dependencies", "start"} /\ ~valid
    \/ arguments.action = "start" /\ ~Ready
    \/ arguments.action = "reset" /\ ~arguments.destroy

FirstStep(a) == CASE a = "config" -> "config" [] a \in {"dependencies", "start"} -> "up" [] OTHER -> "down"

BeginCommand(r) ==
    /\ Starting(r)
    /\ \A q \in Commands : step[q] \in {"idle", "ended"}
    /\ \E arguments \in [action : Actions, destroy : BOOLEAN], valid \in BOOLEAN :
          /\ action' = [action EXCEPT ![r] = arguments]
          /\ IF Refused(arguments, valid) THEN Exit(r, 1) ELSE To(r, FirstStep(arguments.action)) /\ UNCHANGED code
    /\ UNCHANGED <<engine, reachable, stage, clock, problem, result, faults, stacks, child, spent, told>>

\* Rendering the configuration changes nothing.
Configured(r) ==
    /\ step[r] = "config"
    /\ \E c \in {0, 1} : Exit(r, c)
    /\ UNCHANGED <<bankVars, stacks, action, child, spent, told>>

Up(r) ==
    /\ step[r] = "up"
    /\ \/ /\ Becomes(Dev, "up", TRUE)
          /\ IF action[r].action = "start" THEN To(r, "provision") /\ UNCHANGED code ELSE Exit(r, 0)
       \/ BringsUpSome(Dev) /\ Exit(r, 1)
    /\ UNCHANGED <<stage, clock, problem, result, starts, faults, action, child, spent, told>>

\* A one-shot container runs engineering-memory provision; killing the client that
\* waits for it does not stop it.
Provisioning(r) ==
    /\ step[r] = "provision" /\ child[r] = None
    /\ \/ \E p \in {q \in Provisions : stage[q] = "idle"} :
             child' = [child EXCEPT ![r] = p] /\ Goto(p, "patch") /\ UNCHANGED <<step, code>>
       \/ Exit(r, 1) /\ UNCHANGED <<child, stage>>
    /\ UNCHANGED <<engine, reachable, clock, problem, result, starts, faults, stacks, action, spent, told>>

\* Mutant: the exit status of the container is not looked at.
ProvisionedAnyhow(r) ==
    /\ step[r] = "provision" /\ child[r] # None
    /\ stage[child[r]] = "ended" /\ Exit(r, 0)
    /\ UNCHANGED <<bankVars, stacks, action, child, spent, told>>

Provisioned(r) ==
    /\ step[r] = "provision" /\ child[r] # None
    /\ \/ stage[child[r]] = "ended" /\ Exit(r, IF result[child[r]] = "passed" THEN 0 ELSE 1)
       \/ Exit(r, 1)
    /\ UNCHANGED <<bankVars, stacks, action, child, spent, told>>

Down(r) ==
    /\ step[r] = "down"
    /\ LET removes == action[r].action = "reset" IN
       \/ Becomes(Dev, "none", volumes[Dev] /\ ~removes) /\ Exit(r, 0)
       \/ TakesDownSome(Dev, removes) /\ Exit(r, 1)
    /\ UNCHANGED <<stage, clock, problem, result, starts, faults, action, child, spent, told>>

----------------------------------------------------------------------------
(* run_e2e and contract.py *)

Stages(r) == IF r \in EndToEnds THEN {"up", "provision", "scenario"} ELSE {"up", "scenario"}
NextStage(r) ==
    CASE step[r] = "up" -> IF r \in EndToEnds THEN "provision" ELSE "scenario"
      [] step[r] = "provision" -> "scenario"
      [] OTHER -> "leave"

\* Without --live, prerequisites or credentials the run is skipped, and an invalid
\* environment fails it, before anything exists.
BeginIsolated(r) ==
    /\ Starting(r)
    /\ \/ r \in EndToEnds /\ (\E c \in {77, 1} : Exit(r, c))
       \/ (r \in EndToEnds => Ready) /\ To(r, "up") /\ code' = [code EXCEPT ![r] = 0]
    /\ UNCHANGED <<engine, reachable, stage, clock, problem, result, faults, stacks, action, child, spent, told>>

\* The total deadline: run() starts nothing after it.
Spend(r) ==
    /\ r \in EndToEnds /\ step[r] \in Stages(r) /\ ~spent[r]
    /\ spent' = [spent EXCEPT ![r] = TRUE]
    /\ UNCHANGED <<bankVars, stacks, action, step, child, code, told>>

StageDone(r) ==
    /\ step[r] \in Stages(r) /\ ~spent[r]
    /\ IF step[r] = "up" THEN Becomes(r, "up", TRUE) ELSE UNCHANGED <<stacks, engine, reachable>>
    /\ To(r, NextStage(r))
    /\ UNCHANGED <<stage, clock, problem, result, starts, faults, action, child, spent, code, told>>

\* The command fails or its deadline ends it; the finally clause follows.
StageFails(r) ==
    /\ step[r] \in Stages(r)
    /\ IF step[r] = "up" /\ ~spent[r] THEN BringsUpSome(r) ELSE UNCHANGED <<stacks, engine, reachable>>
    /\ To(r, "leave") /\ code' = [code EXCEPT ![r] = 1]
    /\ UNCHANGED <<stage, clock, problem, result, starts, faults, action, child, spent, told>>

Leave(r) ==
    /\ step[r] = "leave" /\ To(r, "cleanup")
    /\ UNCHANGED <<bankVars, stacks, action, child, spent, code, told>>

\* Mutant: a failed cleanup is told, and its code is the one of the stages.
CleanupIsNoFailure(r) ==
    /\ step[r] = "cleanup"
    /\ \/ Becomes(r, "none", FALSE) /\ UNCHANGED told
       \/ TakesDownSome(r, TRUE) /\ told' = [told EXCEPT ![r] = TRUE]
    /\ Exit(r, code[r])
    /\ UNCHANGED <<stage, clock, problem, result, starts, faults, action, child, spent>>

\* run_e2e keeps the code of what failed before the cleanup; in contract.py the later
\* exception ends the program.
AfterCleanup(r, c) == IF r \in EndToEnds /\ code[r] # 0 THEN code[r] ELSE c

\* A cleanup that fails names the project: the report of run_e2e does, and the command
\* in the exception that ends contract.py.
Cleanup(r) ==
    /\ step[r] = "cleanup"
    /\ \/ Becomes(r, "none", FALSE) /\ Exit(r, code[r]) /\ UNCHANGED told
       \/ /\ TakesDownSome(r, TRUE)
          /\ Exit(r, AfterCleanup(r, 1))
          /\ told' = [told EXCEPT ![r] = TRUE]
    /\ UNCHANGED <<stage, clock, problem, result, starts, faults, action, child, spent>>

----------------------------------------------------------------------------
(* Signals *)

\* Where Compose is waited for, its client is killed. In a stage the finally clause
\* follows. In the cleanup run_e2e takes it for a failed cleanup, if it falls inside the
\* inner try; around that, as between the stages and the cleanup, nothing before main
\* catches it, which names no project and cleans nothing up. contract.py catches it nowhere.
InterruptRunner(r) ==
    /\ step[r] \notin {"idle", "ended"} /\ faults < MaxFaults
    /\ faults' = faults + 1
    /\ \/ /\ r \in Isolated /\ step[r] \in Stages(r)
          /\ IF step[r] = "up" THEN BringsUpSome(r) ELSE UNCHANGED <<stacks, engine, reachable>>
          /\ To(r, "leave") /\ code' = [code EXCEPT ![r] = 130] /\ UNCHANGED told
       \/ /\ r \in Isolated /\ step[r] = "leave"
          /\ Exit(r, 130) /\ UNCHANGED <<told, stacks, engine, reachable>>
       \/ /\ r \in Isolated /\ step[r] = "cleanup"
          /\ TakesDownSome(r, TRUE)
          /\ \/ r \in EndToEnds /\ Exit(r, AfterCleanup(r, 1)) /\ told' = [told EXCEPT ![r] = TRUE]
             \/ Exit(r, 130) /\ UNCHANGED told
       \/ /\ r \in Commands
          /\ CASE step[r] = "up" -> BringsUpSome(Dev)
               [] step[r] = "down" -> TakesDownSome(Dev, action[r].action = "reset")
               [] OTHER -> UNCHANGED <<stacks, engine, reachable>>
          /\ Exit(r, 130) /\ UNCHANGED told
    /\ UNCHANGED <<stage, clock, problem, result, starts, action, child, spent>>

RunnerStep(r) ==
    \/ r \in Commands /\ (Configured(r) \/ Up(r) \/ Provisioning(r) \/ Provisioned(r) \/ Down(r))
    \/ r \in Isolated /\ (StageDone(r) \/ StageFails(r) \/ Leave(r) \/ Cleanup(r))

Over == starts = MaxStarts /\ (\A r \in Runners : step[r] \in {"idle", "ended"})
        /\ (\A x \in Runs : stage[x] \in {"idle", "ended"}) /\ UNCHANGED vars

Next ==
    \/ BankStep /\ UNCHANGED runVars
    \/ \E r \in Commands : BeginCommand(r)
    \/ \E r \in Isolated : BeginIsolated(r) \/ Spend(r)
    \/ \E r \in Runners : RunnerStep(r) \/ InterruptRunner(r)
    \/ Over

\* Own steps are taken and clocks run; the engine owes nobody anything.
Fairness ==
    /\ \A x \in Runs : WF_bankVars(Own(x) /\ UNCHANGED runVars)
    /\ \A r \in Runners : WF_vars(RunnerStep(r))

Spec == DeployInit /\ [][Next]_vars /\ Fairness

----------------------------------------------------------------------------
(* Properties *)

\* A probe that passed leaves nothing behind and nothing that may come back: no bank,
\* and no request on its way that would make it again (local-hindsight.md:105).
PassedLeavesNothing ==
    \A s \in Probes \ Kept : result[s] = "passed" =>
        banks[s] = "none" /\ \A q \in flying : q.by # s

\* The mission of the shared bank, and the fact in a bank that is kept, go with a
\* destructive reset alone: not with a probe, a late request, a stop, or the cleanup
\* of an isolated run.
OnlyResetForgets ==
    [][\A b \in {Shared} \cup Kept : banks[b] = "full" /\ banks'[b] # "full" =>
          \E r \in Commands : step[r] = "down" /\ action[r] = [action |-> "reset", destroy |-> TRUE]]_vars

\* A start that answers 0 leaves the shared bank with the mission.
StartedIsProvisioned ==
    [][\A r \in Commands : action[r] # None /\ action[r].action = "start" /\ step'[r] = "ended" /\ step[r] # "ended"
          /\ code'[r] = 0 => banks[Shared] = "full"]_vars

LeavesSomething(r) == step[r] = "ended" /\ (containers[r] # "none" \/ volumes[r])

\* An isolated run that answers 0 has left neither container nor volume. What any other
\* leaves behind is told, unless the code is the one of an interrupt: it may have come
\* where nothing catches it (see LeftoverIsTold).
UntoldIsInterrupted ==
    \A r \in Isolated : LeavesSomething(r) => code[r] = 130 \/ (code[r] = 1 /\ told[r])

\* "Cleanup runs after success, failure, timeout, Ctrl+C and handled SIGTERM. [...]
\* Cleanup failure returns a failing status and an exact recovery project id."
\* (full-product.md:153): what an end-to-end run leaves behind is told. Not after an
\* interrupt between the last stage and the cleanup (run.py:202).
LeftoverIsTold ==
    \A r \in EndToEnds : LeavesSomething(r) => told[r] /\ code[r] \in {1, 130}

\* Whoever is started ends, though the engine or Compose may never answer: from some
\* time on nothing runs, as no more than MaxStarts are ever started.
EveryRunEnds ==
    <>[]((\A x \in Runs : stage[x] \in {"idle", "ended"}) /\ \A r \in Runners : step[r] \in {"idle", "ended"})
=============================================================================
