------------------------------ MODULE BankAdmin ------------------------------
(* memory/hindsight/provision.py and smoke.py: runs that administer banks of an    *)
(* engine. The engine is external: it may do what a request asks for long after   *)
(* the client has given up on it, or never. A provisioning patches the shared bank *)
(* and reads it back; a probe writes one fact to a bank of its own, recalls it and *)
(* deletes that bank.                                                              *)
EXTENDS Naturals, FiniteSets

CONSTANTS
    Provisions,     \* runs of provision
    Probes,         \* runs of the smoke probe; each has its generated bank
    Kept,           \* the probes that keep their bank (keep_scratch)
    None,
    MaxStarts,      \* runs started
    MaxFaults       \* interrupts

ASSUME KeptAssumption == Kept \subseteq Probes

Shared == "engineering-global"
Runs == Provisions \cup Probes
Banks == {Shared} \cup Probes

\* A run does one of the two, the name of a generated bank is never the configured
\* one, and no result is a kind of result of its own.
ASSUME RunsAssumption ==
    /\ Provisions \cap Probes = {}
    /\ Shared \notin Probes
    /\ None \notin {"passed", "failed", "interrupted"}

VARIABLES
    banks,      \* what the engine holds of each bank: "none", "bare" or "full"
    flying,     \* what it was asked to change and may still do: [by, does]
    reachable,  \* the engine answers
    stage,
    clock,      \* of a run: "work", "late" (for cleanup only) or "over"
    problem,    \* something went wrong in it
    result,     \* None, or "passed", "failed", "interrupted"
    starts, faults

engine == <<banks, flying>>
bankVars == <<banks, flying, reachable, stage, clock, problem, result, starts, faults>>

Init ==
    /\ banks \in {b \in [Banks -> {"none", "bare"}] : \A s \in Probes : b[s] = "none"}
    /\ flying = {}
    /\ reachable \in BOOLEAN
    /\ stage = [x \in Runs |-> "idle"]
    /\ clock = [x \in Runs |-> "work"]
    /\ problem = [x \in Runs |-> FALSE]
    /\ result = [x \in Runs |-> None]
    /\ starts = 0 /\ faults = 0

Goto(x, label) == stage' = [stage EXCEPT ![x] = label]

End(x, answer) ==
    /\ Goto(x, "ended")
    /\ result' = [result EXCEPT ![x] = answer]

Begin(x) ==
    /\ stage[x] = "idle" /\ starts < MaxStarts
    /\ starts' = starts + 1
    /\ Goto(x, IF x \in Provisions THEN "patch" ELSE "readiness")
    /\ UNCHANGED <<engine, reachable, clock, problem, result, faults>>

Working == {"readiness", "schema", "retain", "retaining", "completion", "recall"}
Attempted == {"retain", "retaining", "completion", "recall"}

\* What follows the work of a probe, done or not: its bank is deleted if a write was
\* attempted, unless it is to be kept.
Afterwards(s) == IF stage[s] \in Attempted /\ s \notin Kept THEN "cleanup" ELSE "shutdown"

\* A stage fails: an HTTP status, a response that is no answer, a broken connection,
\* a deadline. What was asked for may be done all the same.
Fail(x) ==
    IF x \in Provisions THEN End(x, "failed") /\ UNCHANGED problem
    ELSE /\ problem' = [problem EXCEPT ![x] = TRUE]
         /\ Goto(x, IF stage[x] \in Working THEN Afterwards(x)
                    ELSE IF stage[x] \in {"cleanup", "deleting"} THEN "shutdown" ELSE "report")
         /\ UNCHANGED result

Fails(x) ==
    /\ stage[x] \notin {"idle", "report", "ended"}
    /\ Fail(x)
    /\ UNCHANGED <<engine, reachable, clock, starts, faults>>

\* Mutant: a cleanup that succeeds makes up for what failed before.
AnsweredAfresh(x, label) ==
    /\ Goto(x, label)
    /\ problem' = [problem EXCEPT ![x] = @ /\ label # "shutdown"]
    /\ UNCHANGED result

Answered(x, label) == Goto(x, label) /\ UNCHANGED <<problem, result>>

----------------------------------------------------------------------------
(* Requests that change the engine are sent, and done when it comes to them *)

Sends == [patch |-> "patching", retain |-> "retaining", cleanup |-> "deleting"]

Send(x) ==
    /\ stage[x] \in DOMAIN Sends
    /\ flying' = flying \cup {[by |-> x, does |-> stage[x]]}
    /\ Goto(x, Sends[stage[x]])
    /\ UNCHANGED <<banks, reachable, clock, problem, result, starts, faults>>

\* Mutant: the bank to delete is the configured one.
TargetAsConfigured(request) == IF request.does \in {"patch", "cleanup"} THEN Shared ELSE request.by

Target(request) == IF request.by \in Provisions THEN Shared ELSE request.by

Waits(request) == stage[request.by] = Sends[request.does]

\* What the bank is after the request: the engine may also accept a retention, and
\* extract from it later.
Effect(request, effect) ==
    /\ request \in flying /\ reachable
    /\ banks' = [banks EXCEPT ![Target(request)] =
           CASE effect \in {"patched", "retained", "extracted"} -> "full"
             [] effect = "accepted" /\ @ = "none" -> "bare"
             [] effect = "deleted" -> "none"
             [] OTHER -> @]
    /\ flying' = (flying \ {request})
           \cup (IF effect = "accepted" THEN {[by |-> request.by, does |-> "extract"]} ELSE {})

Effects == [patch |-> {"patched"}, retain |-> {"retained", "accepted"}, extract |-> {"extracted"}, cleanup |-> {"deleted"}]
Following == [patched |-> "get", retained |-> "recall", accepted |-> "completion", deleted |-> "shutdown"]

\* Done, and the client hears of it if it still waits and the answer gets through.
Serve(request) ==
    \E effect \in Effects[request.does] :
        /\ Effect(request, effect)
        /\ \/ request.does # "extract" /\ Waits(request) /\ Answered(request.by, Following[effect])
           \/ UNCHANGED <<stage, problem, result>>
        /\ UNCHANGED <<reachable, clock, starts, faults>>

\* Never done; a client that waits fails, by Fails.
Lose(request) ==
    /\ request \in flying
    /\ flying' = flying \ {request}
    /\ UNCHANGED <<banks, reachable, stage, clock, problem, result, starts, faults>>

----------------------------------------------------------------------------
(* Requests that read *)

\* The configuration must hold the mission that was sent.
Verify(p) ==
    /\ stage[p] = "get" /\ reachable
    /\ IF banks[Shared] = "full" THEN End(p, "passed") /\ UNCHANGED problem ELSE Fail(p)
    /\ UNCHANGED <<engine, reachable, clock, starts, faults>>

Probed(s) ==
    /\ stage[s] \in {"readiness", "schema"} /\ reachable
    /\ Answered(s, IF stage[s] = "readiness" THEN "schema" ELSE "retain")
    /\ UNCHANGED <<engine, reachable, clock, starts, faults>>

\* Pending and processing are asked again; a failed operation ends the work.
Poll(s) ==
    /\ stage[s] = "completion" /\ reachable
    /\ [by |-> s, does |-> "extract"] \notin flying
    /\ IF banks[s] = "full" THEN Answered(s, "recall") ELSE Fail(s)
    /\ UNCHANGED <<engine, reachable, clock, starts, faults>>

Recall(s) ==
    /\ stage[s] = "recall" /\ reachable /\ banks[s] = "full"
    /\ Answered(s, Afterwards(s))
    /\ UNCHANGED <<engine, reachable, clock, starts, faults>>

----------------------------------------------------------------------------
(* The end of a probe, and of any run *)

\* The client is closed; that may fail as well (Fails).
Shutdown(s) ==
    /\ stage[s] = "shutdown"
    /\ Answered(s, "report")
    /\ UNCHANGED <<engine, reachable, clock, starts, faults>>

\* run_smoke raises, and main exits with 1 and the generated bank, for any problem.
Report(s) ==
    /\ stage[s] = "report"
    /\ End(s, IF problem[s] THEN "failed" ELSE "passed")
    /\ UNCHANGED <<engine, reachable, clock, problem, starts, faults>>

\* Mutant: no deadline covers the wait for an operation.
TickUnlessPolling(x) ==
    /\ stage[x] \notin {"idle", "completion", "report", "ended"} /\ clock[x] # "over"
    /\ clock' = [clock EXCEPT ![x] = IF x \in Probes /\ @ = "work" THEN "late" ELSE "over"]
    /\ IF clock'[x] = "over" \/ stage[x] \in Working THEN Fail(x) ELSE UNCHANGED <<stage, problem, result>>
    /\ UNCHANGED <<engine, reachable, starts, faults>>

\* The work deadline of a probe, and the deadline of all: whoever waits fails.
Tick(x) ==
    /\ stage[x] \notin {"idle", "report", "ended"} /\ clock[x] # "over"
    /\ clock' = [clock EXCEPT ![x] = IF x \in Probes /\ @ = "work" THEN "late" ELSE "over"]
    /\ IF clock'[x] = "over" \/ stage[x] \in Working THEN Fail(x) ELSE UNCHANGED <<stage, problem, result>>
    /\ UNCHANGED <<engine, reachable, starts, faults>>

\* No deadline is left to wait for.
GivesUp(x) ==
    /\ clock[x] = "over"
    /\ Fails(x)

\* The task is cancelled where it waits: nothing is cleaned up and nobody reports.
Interrupt(x) ==
    /\ stage[x] \notin {"idle", "ended"} /\ faults < MaxFaults
    /\ faults' = faults + 1
    /\ End(x, "interrupted")
    /\ UNCHANGED <<engine, reachable, clock, problem, starts>>

Own(x) ==
    \/ Send(x)
    \/ x \in Provisions /\ Verify(x)
    \/ x \in Probes /\ (Probed(x) \/ Poll(x) \/ Recall(x) \/ Shutdown(x) \/ Report(x))
    \/ Tick(x) \/ GivesUp(x)

BankStep ==
    \/ \E x \in Runs : Begin(x) \/ Own(x) \/ Fails(x) \/ Interrupt(x)
    \/ \E request \in flying : Serve(request) \/ Lose(request)
=============================================================================
