-------------------------- MODULE DeploymentProofs --------------------------
(* What holds of the banks, the commands and the isolated runs for any number of   *)
(* them, however many are started and interrupted.                                 *)
EXTENDS Deployment, TLAPS

----------------------------------------------------------------------------
(* The banks: what may be asked, sent and answered, one run at a time.             *)

ProvisionStage == {"idle", "patch", "patching", "get", "ended"}
ProbeStage ==
    {"idle", "readiness", "schema", "retain", "retaining", "completion", "recall",
     "cleanup", "deleting", "shutdown", "report", "ended"}
Request == [by : Runs, does : {"patch", "retain", "extract", "cleanup"}]

BankTypes ==
    /\ banks \in [Banks -> {"none", "bare", "full"}]
    /\ flying \subseteq Request
    /\ stage \in [Runs -> ProvisionStage \cup ProbeStage]
    /\ problem \in [Runs -> BOOLEAN]
    /\ result \in [Runs -> {"passed", "failed", "interrupted", None}]

\* A run is at a stage of its kind, a probe that keeps its bank never at one that
\* deletes it, and it has a result only when it has ended.
StageFits(x) ==
    /\ x \in Provisions => stage[x] \in ProvisionStage
    /\ x \in Probes => stage[x] \in ProbeStage
    /\ x \in Kept => stage[x] \notin {"cleanup", "deleting"}
    /\ stage[x] # "ended" => result[x] = None

\* A request is one that its sender sends.
RequestFits(q) ==
    /\ q.does = "patch" => q.by \in Provisions
    /\ q.does # "patch" => q.by \in Probes
    /\ q.does = "cleanup" => q.by \notin Kept

Quiet(s) == \A q \in flying : q.by # s
Only(s, kinds) == \A q \in flying : q.by = s => q.does \in kinds

\* As long as nothing went wrong, a probe has at most the request it waits for on its
\* way, or the extraction that followed it; once deleted, its bank is gone for good.
ProbeIsClean(s) ==
    /\ ~problem[s] =>
          /\ stage[s] \in {"idle", "readiness", "schema", "retain", "recall", "cleanup"} => Quiet(s)
          /\ stage[s] = "retaining" => Only(s, {"retain"}) \/ Only(s, {"extract"})
          /\ stage[s] = "completion" => Only(s, {"extract"})
          /\ stage[s] = "deleting" => Only(s, {"cleanup"})
          /\ stage[s] \in {"shutdown", "report"} => banks[s] = "none" /\ Quiet(s)
    /\ result[s] = "passed" => banks[s] = "none" /\ Quiet(s)

BankInv ==
    /\ BankTypes
    /\ \A x \in Runs : StageFits(x)
    /\ \A q \in flying : RequestFits(q)
    /\ \A s \in Probes \ Kept : ProbeIsClean(s)

\* A step of one run leaves the invariant to the others.
LEMMA OneRunMoves ==
  ASSUME BankInv, BankTypes', NEW x \in Runs,
         \A y \in Runs \ {x} : /\ stage'[y] = stage[y]
                               /\ problem'[y] = problem[y]
                               /\ result'[y] = result[y],
         \A s \in Probes \ {x} : banks'[s] = banks[s],
         \A q \in flying' : q \in flying \/ (q.by = x /\ RequestFits(q)),
         StageFits(x)',
         x \in Probes \ Kept => ProbeIsClean(x)'
  PROVE  BankInv'
<1>1. \A y \in Runs : StageFits(y)'
  BY DEF BankInv, StageFits
<1>2. \A q \in flying' : RequestFits(q)'
  BY DEF BankInv, RequestFits
<1>3. ASSUME NEW s \in Probes \ Kept PROVE ProbeIsClean(s)'
  <2>1. CASE s = x
    BY <2>1
  <2>2. CASE s # x
    <3>1. /\ stage'[s] = stage[s] /\ problem'[s] = problem[s] /\ result'[s] = result[s]
          /\ banks'[s] = banks[s]
      BY <2>2 DEF Runs
    <3>2. \A kinds : Only(s, kinds) => Only(s, kinds)'
      BY <2>2 DEF Only
    <3>3. Quiet(s) => Quiet(s)'
      BY <2>2 DEF Quiet
    <3> QED
      BY <3>1, <3>2, <3>3 DEF BankInv, ProbeIsClean
  <2> QED
    BY <2>1, <2>2
<1> QED
  BY <1>1, <1>2, <1>3 DEF BankInv

\* The same for a step that asks the engine nothing.
LEMMA OneRunGoes ==
  ASSUME BankInv, NEW x \in Runs, NEW label, Goto(x, label),
         label \in ProvisionStage \cup ProbeStage,
         problem' \in [Runs -> BOOLEAN],
         result' \in [Runs -> {"passed", "failed", "interrupted", None}],
         \A y \in Runs \ {x} : problem'[y] = problem[y] /\ result'[y] = result[y],
         UNCHANGED <<banks, flying>>,
         StageFits(x)',
         x \in Probes \ Kept => ProbeIsClean(x)'
  PROVE  BankInv'
<1>1. BankTypes'
  BY DEF BankInv, BankTypes, Goto
<1>2. \A y \in Runs \ {x} : stage'[y] = stage[y]
  BY DEF BankInv, BankTypes, Goto
<1> QED
  BY <1>1, <1>2, OneRunMoves

\* What a run does next in a stage of its kind.
LEMMA SendsFacts ==
  /\ DOMAIN Sends = {"patch", "retain", "cleanup"}
  /\ Sends["patch"] = "patching" /\ Sends["retain"] = "retaining" /\ Sends["cleanup"] = "deleting"
BY DEF Sends

LEMMA BeginKeeps ==
  ASSUME BankInv, NEW x \in Runs, stage[x] = "idle", UNCHANGED <<engine, problem, result>>,
         Goto(x, IF x \in Provisions THEN "patch" ELSE "readiness")
  PROVE  BankInv'
<1> DEFINE label == IF x \in Provisions THEN "patch" ELSE "readiness"
<1>1. label \in ProvisionStage \cup ProbeStage /\ stage'[x] = label
  BY DEF BankInv, BankTypes, Goto, ProvisionStage, ProbeStage
<1>2. StageFits(x) /\ StageFits(x)'
  BY <1>1, RunsAssumption DEF BankInv, StageFits, ProvisionStage, ProbeStage
<1>3. x \in Probes \ Kept => ProbeIsClean(x)'
  <2> SUFFICES ASSUME x \in Probes \ Kept PROVE ProbeIsClean(x)'
    OBVIOUS
  <2>1. ProbeIsClean(x) /\ stage'[x] = "readiness" /\ result'[x] = None /\ None # "passed"
    BY <1>1, <1>2, RunsAssumption DEF BankInv, StageFits
  <2> QED
    BY <2>1 DEF ProbeIsClean, Quiet, Only, engine
<1> QED
  BY <1>1, <1>2, <1>3, OneRunGoes DEF BankInv, BankTypes, engine

LEMMA SendKeeps == ASSUME BankInv, NEW x \in Runs, Send(x) PROVE BankInv'
<1> DEFINE q == [by |-> x, does |-> stage[x]]
<1>1. /\ stage[x] \in {"patch", "retain", "cleanup"}
      /\ flying' = flying \cup {q}
      /\ stage' = [stage EXCEPT ![x] = Sends[stage[x]]]
      /\ UNCHANGED <<banks, problem, result>>
      /\ BankTypes /\ StageFits(x)
  BY SendsFacts DEF Send, Goto, BankInv
<1>2. stage'[x] = Sends[stage[x]] /\ stage'[x] \in {"patching", "retaining", "deleting"}
  BY <1>1, SendsFacts DEF BankTypes
<1>3. BankTypes'
  BY <1>1, <1>2 DEF BankTypes, Request, ProvisionStage, ProbeStage
<1>4. StageFits(x)'
  BY <1>1, <1>2, RunsAssumption, SendsFacts, KeptAssumption DEF StageFits, ProvisionStage, ProbeStage
<1>5. RequestFits(q)
  BY <1>1, RunsAssumption DEF RequestFits, StageFits, ProvisionStage, ProbeStage, Runs
<1>6. x \in Probes \ Kept => ProbeIsClean(x)'
  <2> SUFFICES ASSUME x \in Probes \ Kept PROVE ProbeIsClean(x)'
    OBVIOUS
  <2>1. ProbeIsClean(x) /\ stage[x] \in {"retain", "cleanup"} /\ result'[x] = None /\ None # "passed"
    BY <1>1, RunsAssumption DEF BankInv, StageFits, ProbeStage
  <2>2. ~problem[x] => Quiet(x)
    BY <2>1 DEF ProbeIsClean
  <2>3. ~problem[x] => \A r \in flying' : r.by = x => r.does = stage[x]
    BY <1>1, <2>2 DEF Only, Quiet
  <2>4. stage'[x] = IF stage[x] = "retain" THEN "retaining" ELSE "deleting"
    BY <1>2, <2>1, SendsFacts
  <2> QED
    BY <1>1, <2>1, <2>3, <2>4 DEF ProbeIsClean, Only
<1>7. \A y \in Runs \ {x} : stage'[y] = stage[y]
  BY <1>1 DEF BankTypes
<1> HIDE DEF q
<1>8. q.by = x
  BY DEF q
<1> QED
  BY <1>1, <1>3, <1>4, <1>5, <1>6, <1>7, <1>8, OneRunMoves

\* A failure is remembered, whatever follows it.
LEMMA FailKeeps ==
  ASSUME BankInv, NEW x \in Runs, stage[x] \notin {"idle", "report", "ended"},
         Fail(x), UNCHANGED engine
  PROVE  BankInv'
<1>1. BankTypes /\ StageFits(x) /\ UNCHANGED <<banks, flying>>
  BY DEF BankInv, engine
<1>2. CASE x \in Provisions
  <2>1. /\ Goto(x, "ended") /\ result' = [result EXCEPT ![x] = "failed"] /\ problem' = problem
        /\ x \notin Probes
    BY <1>2, RunsAssumption DEF Fail, End
  <2>2. StageFits(x)'
    BY <1>1, <1>2, <2>1, KeptAssumption DEF StageFits, Goto, BankTypes, ProvisionStage
  <2> QED
    BY <1>1, <2>1, <2>2, OneRunGoes DEF BankTypes, ProvisionStage
<1>3. CASE x \notin Provisions
  <2>1. PICK label \in {"cleanup", "shutdown", "report"} :
           /\ Goto(x, label)
           /\ label = "cleanup" => x \notin Kept
    BY <1>3 DEF Fail, Afterwards
  <2>2. /\ problem' = [problem EXCEPT ![x] = TRUE] /\ result' = result
        /\ stage'[x] = label
    BY <1>1, <1>3, <2>1 DEF Fail, Goto, BankTypes
  <2>3. StageFits(x)' /\ result[x] = None
    BY <1>1, <1>3, <2>1, <2>2 DEF StageFits, ProbeStage
  <2>4. x \in Probes \ Kept => ProbeIsClean(x)'
    BY <1>1, <2>2, <2>3, RunsAssumption DEF ProbeIsClean, BankTypes
  <2> QED
    BY <1>1, <2>1, <2>2, <2>3, <2>4, OneRunGoes DEF BankTypes, ProbeStage
<1> QED
  BY <1>2, <1>3

LEMMA ReadsKeep ==
  ASSUME BankInv, NEW x \in Runs,
         (x \in Provisions /\ Verify(x))
            \/ (x \in Probes /\ (Probed(x) \/ Poll(x) \/ Recall(x) \/ Shutdown(x) \/ Report(x)))
  PROVE  BankInv'
<1>1. BankTypes /\ StageFits(x) /\ (x \in Probes \ Kept => ProbeIsClean(x)) /\ None # "passed"
  BY RunsAssumption DEF BankInv
<1>2. ASSUME x \in Provisions, Verify(x) PROVE BankInv'
  <2>1. CASE Fail(x)
    BY <1>2, <2>1, FailKeeps DEF Verify
  <2>2. CASE End(x, "passed") /\ UNCHANGED problem
    <3>1. StageFits(x)' /\ x \notin Probes
      BY <1>1, <1>2, <2>2, RunsAssumption, KeptAssumption
         DEF StageFits, End, Goto, BankTypes, ProvisionStage
    <3> QED
      BY <1>1, <1>2, <2>2, <3>1, OneRunGoes DEF Verify, End, BankTypes, ProvisionStage, engine
  <2> QED
    BY <1>2, <2>1, <2>2 DEF Verify
<1>3. ASSUME x \in Probes, NEW label \in ProbeStage \ {"ended"}, Answered(x, label),
             stage[x] # "ended", UNCHANGED engine,
             x \in Kept => label \notin {"cleanup", "deleting"},
             x \in Probes \ Kept => ProbeIsClean(x)'
      PROVE  BankInv'
  <2>1. StageFits(x)'
    BY <1>1, <1>3, RunsAssumption DEF StageFits, Answered, Goto, BankTypes
  <2> QED
    BY <1>1, <1>3, <2>1, OneRunGoes DEF Answered, BankTypes, engine
<1>4. ASSUME NEW label, Answered(x, label) PROVE stage'[x] = label /\ UNCHANGED <<problem, result>>
  BY <1>1, <1>4 DEF Answered, Goto, BankTypes
<1>5. ASSUME x \in Probes, Probed(x) PROVE BankInv'
  <2>1. PICK label \in {"schema", "retain"} : Answered(x, label)
    BY <1>5 DEF Probed
  <2>2. x \in Probes \ Kept => ProbeIsClean(x)'
    BY <1>1, <1>4, <1>5, <2>1 DEF Probed, ProbeIsClean, Quiet, engine, StageFits
  <2> QED
    BY <1>3, <1>5, <2>1, <2>2 DEF Probed, ProbeStage
<1>6. ASSUME x \in Probes, Poll(x) PROVE BankInv'
  <2>1. CASE Fail(x)
    BY <1>6, <2>1, FailKeeps DEF Poll
  <2>2. CASE Answered(x, "recall")
    <3>1. x \in Probes \ Kept /\ ~problem[x] => Quiet(x)
      <4> SUFFICES ASSUME x \in Probes \ Kept, ~problem[x], NEW q \in flying, q.by = x PROVE FALSE
        BY DEF Quiet
      <4>1. q.does = "extract"
        BY <1>1, <1>6 DEF Poll, ProbeIsClean, Only
      <4>2. q = [by |-> x, does |-> "extract"]
        BY <1>1, <4>1 DEF BankTypes, Request
      <4> QED
        BY <1>6, <4>2 DEF Poll
    <3>2. x \in Probes \ Kept => ProbeIsClean(x)'
      BY <1>1, <1>4, <1>6, <2>2, <3>1 DEF Poll, ProbeIsClean, Quiet, engine, StageFits
    <3> QED
      BY <1>3, <1>6, <2>2, <3>2 DEF Poll, ProbeStage
  <2> QED
    BY <1>6, <2>1, <2>2 DEF Poll
<1>7. ASSUME x \in Probes, Recall(x) PROVE BankInv'
  <2>1. Answered(x, IF x \in Kept THEN "shutdown" ELSE "cleanup")
    BY <1>7 DEF Recall, Afterwards, Attempted
  <2>2. x \in Probes \ Kept => ProbeIsClean(x)'
    BY <1>1, <1>4, <1>7, <2>1 DEF Recall, ProbeIsClean, Quiet, engine, StageFits
  <2> QED
    BY <1>3, <1>7, <2>1, <2>2 DEF Recall, ProbeStage
<1>8. ASSUME x \in Probes, Shutdown(x) PROVE BankInv'
  <2>1. x \in Probes \ Kept => ProbeIsClean(x)'
    BY <1>1, <1>4, <1>8 DEF Shutdown, ProbeIsClean, Quiet, engine, StageFits
  <2> QED
    BY <1>3, <1>8, <2>1 DEF Shutdown, ProbeStage
<1>9. ASSUME x \in Probes, Report(x) PROVE BankInv'
  <2>1. /\ stage[x] = "report" /\ stage' = [stage EXCEPT ![x] = "ended"]
        /\ result' = [result EXCEPT ![x] = IF problem[x] THEN "failed" ELSE "passed"]
        /\ UNCHANGED <<banks, flying, problem>>
    BY <1>9 DEF Report, End, Goto, engine
  <2>2. StageFits(x)'
    BY <1>1, <1>9, <2>1, RunsAssumption DEF StageFits, BankTypes, ProbeStage
  <2>3. x \in Probes \ Kept => ProbeIsClean(x)'
    BY <1>1, <2>1 DEF ProbeIsClean, Quiet, BankTypes
  <2> QED
    BY <1>1, <2>1, <2>2, <2>3, OneRunGoes DEF BankTypes, Goto, ProbeStage
<1> QED
  BY <1>2, <1>5, <1>6, <1>7, <1>8, <1>9

\* What becomes of the engine when a request is done.
LEMMA EffectFacts ==
  ASSUME BankInv, NEW q \in flying, NEW effect \in Effects[q.does], Effect(q, effect)
  PROVE  /\ q.by \in Runs /\ q.does \in {"patch", "retain", "extract", "cleanup"}
         /\ q = [by |-> q.by, does |-> q.does]
         /\ RequestFits(q)
         /\ banks' \in [Banks -> {"none", "bare", "full"}]
         /\ \A b \in Banks \ {Target(q)} : banks'[b] = banks[b]
         /\ Target(q) \in Banks
         /\ q.by \in Probes => Target(q) = q.by
         /\ effect # "deleted" /\ banks[Target(q)] = "full" => banks'[Target(q)] = "full"
         /\ effect = "deleted" => banks'[Target(q)] = "none" /\ q.does = "cleanup"
         /\ q.does = "patch" => effect = "patched"
         /\ q.does = "cleanup" => effect = "deleted"
         /\ q.does = "extract" => effect = "extracted"
         /\ q.does = "retain" => effect \in {"retained", "accepted"}
         /\ flying' = (flying \ {q})
               \cup (IF effect = "accepted" THEN {[by |-> q.by, does |-> "extract"]} ELSE {})
         /\ flying' \subseteq Request
<1>1. /\ q.by \in Runs /\ q.does \in {"patch", "retain", "extract", "cleanup"}
      /\ q = [by |-> q.by, does |-> q.does]
      /\ RequestFits(q) /\ banks \in [Banks -> {"none", "bare", "full"}]
      /\ flying \subseteq Request
  BY DEF BankInv, BankTypes, Request
<1>2. /\ Target(q) \in Banks
      /\ q.by \in Probes => Target(q) = q.by
  BY <1>1, RunsAssumption DEF Target, Banks, Runs
<1>3. /\ q.does = "patch" => effect = "patched"
      /\ q.does = "cleanup" => effect = "deleted"
      /\ q.does = "extract" => effect = "extracted"
      /\ q.does = "retain" => effect \in {"retained", "accepted"}
  BY <1>1 DEF Effects
<1>4. flying' = (flying \ {q})
               \cup (IF effect = "accepted" THEN {[by |-> q.by, does |-> "extract"]} ELSE {})
  BY DEF Effect
<1>5. flying' \subseteq Request
  BY <1>1, <1>4 DEF Request
<1> DEFINE t == Target(q)
           value == CASE effect \in {"patched", "retained", "extracted"} -> "full"
                      [] effect = "accepted" /\ banks[t] = "none" -> "bare"
                      [] effect = "deleted" -> "none"
                      [] OTHER -> banks[t]
<1>6. banks' = [banks EXCEPT ![t] = value]
  BY DEF Effect
<1>7. /\ value \in {"none", "bare", "full"}
      /\ effect # "deleted" /\ banks[t] = "full" => value = "full"
      /\ effect = "deleted" => value = "none" /\ q.does = "cleanup"
  BY <1>1, <1>2, <1>3
<1> HIDE DEF t, value
<1>8. /\ banks' \in [Banks -> {"none", "bare", "full"}]
      /\ \A b \in Banks \ {t} : banks'[b] = banks[b]
      /\ t \in Banks => banks'[t] = value
  BY <1>1, <1>6, <1>7
<1> QED
  BY <1>1, <1>2, <1>3, <1>4, <1>5, <1>7, <1>8 DEF t

\* Whoever still waits for the request goes on as its answer says.
LEMMA AnswerFacts ==
  ASSUME BankInv, NEW q \in flying, NEW effect \in Effects[q.does], Effect(q, effect),
         q.does # "extract", Waits(q), Answered(q.by, Following[effect])
  PROVE  /\ UNCHANGED <<problem, result>>
         /\ stage' = [stage EXCEPT ![q.by] = Following[effect]]
         /\ q.does = "patch" => stage[q.by] = "patching" /\ stage'[q.by] = "get"
         /\ q.does = "retain" => /\ stage[q.by] = "retaining"
                                 /\ stage'[q.by] = IF effect = "accepted" THEN "completion" ELSE "recall"
         /\ q.does = "cleanup" => stage[q.by] = "deleting" /\ stage'[q.by] = "shutdown"
<1>1. stage' = [stage EXCEPT ![q.by] = Following[effect]] /\ UNCHANGED <<problem, result>>
  BY DEF Answered, Goto
<1>2. q.by \in Runs /\ BankTypes
  BY EffectFacts DEF BankInv
<1>3. stage'[q.by] = Following[effect]
  BY <1>1, <1>2 DEF BankTypes
<1>4. /\ Following["patched"] = "get" /\ Following["retained"] = "recall"
      /\ Following["accepted"] = "completion" /\ Following["deleted"] = "shutdown"
  BY DEF Following
<1> QED
  BY <1>1, <1>3, <1>4, SendsFacts, EffectFacts DEF Waits

LEMMA ServeKeeps == ASSUME BankInv, NEW q \in flying, Serve(q) PROVE BankInv'
<1>1. PICK effect \in Effects[q.does] :
         /\ Effect(q, effect)
         /\ \/ q.does # "extract" /\ Waits(q) /\ Answered(q.by, Following[effect])
            \/ UNCHANGED <<stage, problem, result>>
  BY DEF Serve
<1> DEFINE x == q.by
<1>2. /\ x \in Runs /\ q.does \in {"patch", "retain", "extract", "cleanup"}
      /\ RequestFits(q) /\ BankTypes /\ StageFits(x) /\ None # "passed"
      /\ q = [by |-> x, does |-> q.does]
  BY <1>1, EffectFacts, RunsAssumption DEF BankInv
<1>3. \/ UNCHANGED <<stage, problem, result>>
      \/ /\ UNCHANGED <<problem, result>>
         /\ stage' = [stage EXCEPT ![x] = Following[effect]]
         /\ q.does = "patch" => stage[x] = "patching" /\ stage'[x] = "get"
         /\ q.does = "retain" => /\ stage[x] = "retaining"
                                 /\ stage'[x] = IF effect = "accepted" THEN "completion" ELSE "recall"
         /\ q.does = "cleanup" => stage[x] = "deleting" /\ stage'[x] = "shutdown"
         /\ q.does # "extract"
  BY <1>1, AnswerFacts
<1>4. problem' = problem /\ result' = result
  BY <1>3
<1>5. /\ stage' \in [Runs -> ProvisionStage \cup ProbeStage]
      /\ \A y \in Runs \ {x} : stage'[y] = stage[y]
  <2>1. stage' = stage \/ (stage' = [stage EXCEPT ![x] = Following[effect]]
                             /\ stage'[x] \in {"get", "completion", "recall", "shutdown"})
    BY <1>2, <1>3
  <2> QED
    BY <1>2, <2>1 DEF BankTypes, ProvisionStage, ProbeStage
<1>6. BankTypes'
  BY <1>1, <1>2, <1>4, <1>5, EffectFacts DEF BankTypes
<1>7. \A s \in Probes \ {x} : banks'[s] = banks[s]
  BY <1>1, <1>2, EffectFacts, RunsAssumption DEF Banks, Runs, Target
<1>8. \A r \in flying' : r \in flying \/ (r.by = x /\ RequestFits(r))
  <2>1. effect = "accepted" => q.does = "retain"
    BY <1>1, EffectFacts
  <2>2. effect = "accepted" => RequestFits([by |-> x, does |-> "extract"])
    BY <1>2, <2>1 DEF RequestFits
  <2> QED
    BY <1>1, <2>2, EffectFacts
<1>9. StageFits(x)'
  <2>1. CASE UNCHANGED <<stage, problem, result>>
    BY <1>2, <2>1 DEF StageFits
  <2>2. CASE q.does = "patch" /\ stage[x] = "patching" /\ stage'[x] = "get"
    BY <1>2, <1>4, <2>2, RunsAssumption, KeptAssumption DEF StageFits, RequestFits, ProvisionStage
  <2>3. CASE q.does # "patch" /\ stage[x] # "ended" /\ stage'[x] \in {"completion", "recall", "shutdown"}
    BY <1>2, <1>4, <2>3, RunsAssumption DEF StageFits, RequestFits, ProbeStage
  <2> QED
    BY <1>2, <1>3, <2>1, <2>2, <2>3
<1>10. x \in Probes \ Kept => ProbeIsClean(x)'
  <2> SUFFICES ASSUME x \in Probes \ Kept PROVE ProbeIsClean(x)'
    OBVIOUS
  <2>1. /\ ProbeIsClean(x) /\ ~Quiet(x) /\ result'[x] # "passed" /\ problem'[x] = problem[x]
    BY <1>2, <1>4 DEF BankInv, ProbeIsClean, Quiet
  <2>2. SUFFICES ASSUME ~problem[x] PROVE ProbeIsClean(x)'
    BY <2>1 DEF ProbeIsClean
  <2>3. stage[x] \in {"retaining", "completion", "deleting", "ended"}
    BY <1>2, <2>1, <2>2, RunsAssumption DEF ProbeIsClean, StageFits, ProbeStage
  <2>4. \A kind : Only(x, {kind}) => q.does = kind
    BY DEF Only
  <2>5. ASSUME Only(x, {q.does}), effect # "accepted" PROVE Quiet(x)'
    <3> SUFFICES ASSUME NEW r \in flying', r.by = x PROVE FALSE
      BY DEF Quiet
    <3>1. r \in flying /\ r # q
      BY <1>1, <2>5, EffectFacts
    <3>2. r.does = q.does /\ r = [by |-> r.by, does |-> r.does]
      BY <1>2, <2>5, <3>1 DEF Only, BankTypes, Request
    <3> QED
      BY <1>2, <3>1, <3>2
  <2>6. ASSUME Only(x, {q.does}), effect = "accepted" PROVE Only(x, {"extract"})'
    <3> SUFFICES ASSUME NEW r \in flying', r.by = x, r.does # "extract" PROVE FALSE
      BY DEF Only
    <3>1. r \in flying /\ r # q
      BY <1>1, <2>6, EffectFacts
    <3>2. r.does = q.does /\ r = [by |-> r.by, does |-> r.does]
      BY <1>2, <2>6, <3>1 DEF Only, BankTypes, Request
    <3> QED
      BY <1>2, <3>1, <3>2
  <2>7. CASE stage[x] = "retaining" /\ q.does = "retain"
    <3>1. Only(x, {"retain"})
      BY <2>1, <2>2, <2>4, <2>7 DEF ProbeIsClean
    <3>2. stage'[x] \in {"retaining", IF effect = "accepted" THEN "completion" ELSE "recall"}
      BY <1>3, <2>7
    <3> QED
      BY <2>1, <2>5, <2>6, <2>7, <3>1, <3>2 DEF ProbeIsClean, Only, Quiet
  <2>8. CASE stage[x] = "deleting"
    <3>1. Only(x, {"cleanup"}) /\ q.does = "cleanup" /\ effect = "deleted"
      BY <1>1, <2>1, <2>2, <2>4, <2>8, EffectFacts DEF ProbeIsClean
    <3>2. banks'[x] = "none" /\ Quiet(x)'
      BY <1>1, <2>5, <3>1, EffectFacts
    <3>3. stage'[x] \in {"deleting", "shutdown"}
      BY <1>3, <2>8, <3>1
    <3> QED
      BY <2>1, <3>2, <3>3 DEF ProbeIsClean, Only, Quiet
  <2>9. CASE q.does = "extract"
    <3>1. stage'[x] = stage[x] /\ effect # "accepted"
      BY <1>1, <1>3, <2>9, EffectFacts
    <3>2. \A kinds : Only(x, kinds) => Only(x, kinds)'
      BY <1>1, <3>1, EffectFacts DEF Only
    <3> QED
      BY <2>1, <2>3, <2>8, <3>1, <3>2 DEF ProbeIsClean
  <2>10. CASE stage[x] = "completion" \/ (stage[x] = "retaining" /\ q.does # "retain")
    BY <2>1, <2>2, <2>4, <2>9, <2>10 DEF ProbeIsClean
  <2>11. CASE stage[x] = "ended"
    <3>1. stage'[x] = "ended"
      BY <1>2, <1>3, <2>11
    <3> QED
      BY <2>1, <3>1 DEF ProbeIsClean
  <2> QED
    BY <2>3, <2>7, <2>8, <2>10, <2>11
<1> QED
  BY <1>2, <1>4, <1>5, <1>6, <1>7, <1>8, <1>9, <1>10, OneRunMoves

LEMMA LoseKeeps == ASSUME BankInv, NEW q \in flying, Lose(q) PROVE BankInv'
<1>1. flying' \subseteq flying /\ UNCHANGED <<banks, stage, problem, result>>
  BY DEF Lose
<1>2. BankTypes' /\ (\A x \in Runs : StageFits(x)') /\ \A r \in flying' : RequestFits(r)
  BY <1>1 DEF BankInv, BankTypes, StageFits
<1>3. \A s \in Probes \ Kept : ProbeIsClean(s)'
  BY <1>1 DEF BankInv, ProbeIsClean, Quiet, Only
<1> QED
  BY <1>2, <1>3 DEF BankInv, RequestFits

LEMMA InterruptKeeps == ASSUME BankInv, NEW x \in Runs, Interrupt(x) PROVE BankInv'
<1>1. /\ Goto(x, "ended") /\ result' = [result EXCEPT ![x] = "interrupted"]
      /\ UNCHANGED <<banks, flying, problem>>
      /\ BankTypes /\ StageFits(x)
  BY DEF Interrupt, End, BankInv, engine
<1>2. StageFits(x)' /\ (x \in Probes \ Kept => ProbeIsClean(x)')
  BY <1>1 DEF StageFits, ProbeIsClean, Goto, BankTypes, ProvisionStage, ProbeStage
<1> QED
  BY <1>1, <1>2, OneRunGoes DEF BankTypes, ProvisionStage

LEMMA BankStepKeeps == ASSUME BankInv, BankStep PROVE BankInv'
<1>1. ASSUME NEW x \in Runs, Begin(x) \/ Own(x) \/ Fails(x) \/ Interrupt(x) PROVE BankInv'
  <2>1. CASE Begin(x)
    BY <2>1, BeginKeeps DEF Begin
  <2>2. CASE Send(x)
    BY <2>2, SendKeeps
  <2>3. CASE Fails(x) \/ GivesUp(x)
    BY <2>3, FailKeeps DEF Fails, GivesUp
  <2>4. CASE Interrupt(x)
    BY <2>4, InterruptKeeps
  <2>5. CASE Tick(x)
    <3>1. CASE Fail(x)
      BY <2>5, <3>1, FailKeeps DEF Tick
    <3>2. CASE UNCHANGED <<stage, problem, result>>
      BY <2>5, <3>2 DEF Tick, BankInv, BankTypes, StageFits, RequestFits, ProbeIsClean, Quiet,
                        Only, engine
    <3> QED
      BY <2>5, <3>1, <3>2 DEF Tick
  <2> QED
    BY <1>1, <2>1, <2>2, <2>3, <2>4, <2>5, ReadsKeep DEF Own
<1> QED
  BY <1>1, ServeKeeps, LoseKeeps DEF BankStep

----------------------------------------------------------------------------
(* The projects and the runs on them.                                              *)

CommandStep == {"idle", "config", "up", "provision", "down", "ended"}
IsolatedStep == {"idle", "up", "provision", "scenario", "leave", "cleanup", "ended"}
Arguments == [action : Actions, destroy : BOOLEAN]
Destructive == [action |-> "reset", destroy |-> TRUE]

RunTypes ==
    /\ containers \in [Projects -> States]
    /\ volumes \in [Projects -> BOOLEAN]
    /\ action \in [Commands -> Arguments \cup {None}]
    /\ step \in [Runners -> CommandStep \cup IsolatedStep]
    /\ child \in [Commands -> Provisions \cup {None}]
    /\ code \in [Runners -> {0, 1, 77, 130, None}]
    /\ told \in [Runners -> BOOLEAN]

\* A container has its volume, the engine answers where its container is up, and
\* there are no banks without the volumes that hold them.
ProjectsInv ==
    /\ \A p \in Projects : containers[p] # "none" => volumes[p]
    /\ reachable = (containers[Dev] = "up")
    /\ ~volumes[Dev] => \A b \in Banks : banks[b] = "none"

Active(r) == step[r] \notin {"idle", "ended"}

\* A command is where its arguments lead, and while a start waits for a provisioning
\* that passed, the mission stays.
CommandFits(r) ==
    /\ step[r] \in CommandStep
    /\ step[r] = "idle" => action[r] = None /\ child[r] = None
    /\ Active(r) => action[r] \in Arguments
    /\ step[r] = "config" => action[r].action = "config"
    /\ step[r] = "up" => action[r].action \in {"dependencies", "start"} /\ child[r] = None
    /\ step[r] = "down" => action[r].action = "stop" \/ action[r] = Destructive
    /\ step[r] = "provision" /\ child[r] # None /\ result[child[r]] = "passed" =>
          banks[Shared] = "full"

\* The operator runs one command at a time.
OneCommand == \A q, r \in Commands : Active(q) /\ Active(r) => q = r

\* A project belongs to its run, which brings it up after it began and tells what it
\* leaves behind, unless it was interrupted.
IsolatedFits(r) ==
    /\ step[r] \in IsolatedStep
    /\ step[r] = "idle" => containers[r] = "none" /\ ~volumes[r]
    /\ Active(r) => code[r] \in {0, 1, 130}
    /\ step[r] = "ended" /\ (containers[r] # "none" \/ volumes[r]) =>
          code[r] = 130 \/ (code[r] = 1 /\ told[r])

RunInv ==
    /\ RunTypes
    /\ ProjectsInv
    /\ OneCommand
    /\ \A r \in Commands : CommandFits(r)
    /\ \A r \in Isolated : IsolatedFits(r)

Inv == BankInv /\ RunInv

\* What any outcome of a Compose command amounts to: whatever is up has its volume,
\* and a volume that was there goes only with a command that removes volumes.
Changes(project, removes) ==
    \E state \in States, kept \in BOOLEAN :
        /\ state # "none" => kept
        /\ volumes[project] /\ ~kept => removes
        /\ Becomes(project, state, kept)

LEMMA ComposeChanges ==
  ASSUME Inv, NEW p \in Projects, NEW removes \in BOOLEAN
  PROVE  /\ BringsUpSome(p) => Changes(p, FALSE)
         /\ TakesDownSome(p, removes) => Changes(p, removes)
         /\ Becomes(p, "up", TRUE) => Changes(p, FALSE)
         /\ Becomes(p, "none", volumes[p] /\ ~removes) => Changes(p, removes)
         /\ Becomes(p, "none", FALSE) => Changes(p, TRUE)
<1>1. volumes[p] \in BOOLEAN /\ (containers[p] # "none" => volumes[p])
  BY DEF Inv, RunInv, RunTypes, ProjectsInv
<1>2. BringsUpSome(p) => Changes(p, FALSE)
  BY DEF BringsUpSome, Changes
<1>3. TakesDownSome(p, removes) => Changes(p, removes)
  BY <1>1 DEF TakesDownSome, Changes
<1>4. Becomes(p, "up", TRUE) => Changes(p, FALSE)
  BY DEF Changes, States
<1>5. Becomes(p, "none", volumes[p] /\ ~removes) => Changes(p, removes)
  BY <1>1 DEF Changes, States
<1>6. Becomes(p, "none", FALSE) => Changes(p, TRUE)
  BY DEF Changes, States
<1> QED
  BY <1>2, <1>3, <1>4, <1>5, <1>6

\* The other projects stay as they are; and banks go all at once, with the volumes of
\* the development project.
LEMMA ChangesFacts ==
  ASSUME Inv, NEW p \in Projects, NEW removes, Changes(p, removes)
  PROVE  /\ containers' \in [Projects -> States] /\ volumes' \in [Projects -> BOOLEAN]
         /\ \A o \in Projects \ {p} : containers'[o] = containers[o] /\ volumes'[o] = volumes[o]
         /\ ProjectsInv'
         /\ \/ UNCHANGED <<banks, flying>>
            \/ p = Dev /\ banks' = [b \in Banks |-> "none"] /\ flying' = {}
         /\ p # Dev \/ ~removes => \A b \in Banks : banks[b] = "full" => banks'[b] = "full"
<1>1. PICK state \in States, kept \in BOOLEAN :
         /\ state # "none" => kept
         /\ volumes[p] /\ ~kept => removes
         /\ Becomes(p, state, kept)
  BY DEF Changes
<1>2. /\ containers' = [containers EXCEPT ![p] = state]
      /\ volumes' = [volumes EXCEPT ![p] = kept]
      /\ reachable' = (containers'[Dev] = "up")
      /\ IF p = Dev /\ ~kept
         THEN banks' = [b \in Banks |-> "none"] /\ flying' = {}
         ELSE UNCHANGED <<banks, flying>>
  BY <1>1 DEF Becomes, engine
<1>3. RunTypes /\ ProjectsInv /\ Dev \in Projects
  BY DEF Inv, RunInv, Projects
<1>4. /\ containers' \in [Projects -> States] /\ volumes' \in [Projects -> BOOLEAN]
      /\ containers'[p] = state /\ volumes'[p] = kept
      /\ \A o \in Projects \ {p} : containers'[o] = containers[o] /\ volumes'[o] = volumes[o]
  BY <1>2, <1>3 DEF RunTypes
<1>5. ProjectsInv'
  <2>1. \A o \in Projects : containers'[o] # "none" => volumes'[o]
    BY <1>1, <1>3, <1>4 DEF ProjectsInv
  <2>2. ~volumes'[Dev] => \A b \in Banks : banks'[b] = "none"
    BY <1>2, <1>3, <1>4 DEF ProjectsInv
  <2> QED
    BY <1>2, <2>1, <2>2 DEF ProjectsInv
<1>6. p # Dev \/ ~removes => \A b \in Banks : banks[b] = "full" => banks'[b] = "full"
  BY <1>1, <1>2, <1>3 DEF ProjectsInv
<1> QED
  BY <1>2, <1>4, <1>5, <1>6

LEMMA ChangesKeepBanks ==
  ASSUME Inv, UNCHANGED <<stage, problem, result>>,
         \/ UNCHANGED <<banks, flying>>
         \/ banks' = [b \in Banks |-> "none"] /\ flying' = {}
  PROVE  BankInv'
<1>1. CASE UNCHANGED <<banks, flying>>
  BY <1>1 DEF Inv, BankInv, BankTypes, StageFits, RequestFits, ProbeIsClean, Quiet, Only
<1>2. CASE banks' = [b \in Banks |-> "none"] /\ flying' = {}
  <2>1. BankTypes' /\ (\A x \in Runs : StageFits(x)') /\ \A q \in flying' : RequestFits(q)'
    BY <1>2 DEF Inv, BankInv, BankTypes, StageFits
  <2>2. ASSUME NEW s \in Probes \ Kept PROVE ProbeIsClean(s)'
    BY <1>2 DEF ProbeIsClean, Quiet, Only, Banks
  <2> QED
    BY <2>1, <2>2 DEF BankInv
<1> QED
  BY <1>1, <1>2

\* A step of the banks alone.
LEMMA BanksMoveOn ==
  ASSUME Inv, BankStep
  PROVE  /\ reachable' = reachable
         /\ ~reachable => banks' = banks
         /\ \A b \in {Shared} \cup Kept : banks[b] = "full" => banks'[b] = "full"
         /\ \A p \in Provisions : result'[p] = "passed" => result[p] = "passed" \/ banks'[Shared] = "full"
<1>0. BankTypes /\ (\A x \in Runs : StageFits(x)) /\ "passed" \notin {"failed", "interrupted"}
  BY DEF Inv, BankInv
<1>1. ASSUME NEW q \in flying, Serve(q)
      PROVE  /\ reachable /\ reachable' = reachable /\ result' = result
             /\ \A b \in {Shared} \cup Kept : banks[b] = "full" => banks'[b] = "full"
  <2>1. PICK effect \in Effects[q.does] : Effect(q, effect)
    BY <1>1 DEF Serve
  <2>2. reachable /\ reachable' = reachable /\ result' = result
    BY <1>1, <2>1 DEF Serve, Effect, Answered
  <2>3. ASSUME NEW b \in {Shared} \cup Kept, banks[b] = "full" PROVE banks'[b] = "full"
    <3>1. b \in Banks
      BY KeptAssumption DEF Banks
    <3>2. effect = "deleted" => b # Target(q)
      BY <2>1, EffectFacts, RunsAssumption, KeptAssumption DEF Inv, RequestFits
    <3> QED
      BY <2>1, <2>3, <3>1, <3>2, EffectFacts DEF Inv
  <2> QED
    BY <2>2, <2>3
<1>2. ASSUME NEW x \in Runs, Begin(x) \/ Own(x) \/ Fails(x) \/ Interrupt(x)
      PROVE  /\ UNCHANGED <<banks, reachable>>
             /\ \A p \in Provisions : result'[p] = "passed" =>
                   result[p] = "passed" \/ banks[Shared] = "full"
  <2>1. UNCHANGED <<banks, reachable>>
    BY <1>2 DEF Begin, Own, Fails, Interrupt, Send, Verify, Probed, Poll, Recall, Shutdown,
                Report, Tick, GivesUp, engine
  <2>2. Fail(x) => \A p \in Provisions : result'[p] = "passed" => result[p] = "passed"
    BY <1>0 DEF Fail, End, BankTypes, Runs
  <2>3. ASSUME NEW p \in Provisions, result'[p] = "passed", result[p] # "passed"
        PROVE  banks[Shared] = "full"
    <3>1. ~UNCHANGED result /\ ~Fail(x)
      BY <2>2, <2>3
    <3>2. ~Report(x) \/ x \notin Probes
      BY <2>3, <1>0, RunsAssumption DEF Report, End, BankTypes, Runs
    <3>3. ~Interrupt(x)
      BY <2>3, <1>0 DEF Interrupt, End, BankTypes, Runs
    <3> QED
      BY <1>2, <3>1, <3>2, <3>3 DEF Begin, Own, Fails, Send, Verify, Probed, Poll, Recall,
                                    Shutdown, Tick, GivesUp, Answered
  <2> QED
    BY <2>1, <2>3
<1>3. ASSUME NEW q \in flying, Lose(q) PROVE UNCHANGED <<banks, reachable, result>>
  BY <1>3 DEF Lose
<1> QED
  BY <1>1, <1>2, <1>3 DEF BankStep

\* What one runner does leaves the others alone.
LEMMA OneRunnerMoves ==
  ASSUME Inv, NEW r \in Runners, RunTypes', ProjectsInv',
         \A q \in Runners \ {r} : step'[q] = step[q] /\ code'[q] = code[q] /\ told'[q] = told[q],
         \A q \in Commands \ {r} : action'[q] = action[q] /\ child'[q] = child[q],
         \A q \in Isolated \ {r} : containers'[q] = containers[q] /\ volumes'[q] = volumes[q],
         r \in Isolated => banks' = banks /\ result' = result,
         r \in Commands /\ ~Active(r) /\ Active(r)' => \A q \in Commands : ~Active(q),
         ~Active(r) /\ ~Active(r)' => banks' = banks /\ result' = result,
         r \in Commands => CommandFits(r)',
         r \in Isolated => IsolatedFits(r)'
  PROVE  RunInv'
<1>1. /\ RunInv /\ OneCommand
      /\ \A q \in Commands : CommandFits(q)
      /\ \A q \in Isolated : IsolatedFits(q)
  BY DEF Inv, RunInv
<1>2. ASSUME NEW q \in Commands \ {r} PROVE CommandFits(q)'
  <2>1. q \in Runners
    BY DEF Runners
  <2>2. CASE Active(q) /\ r \in Commands
    <3>1. ~Active(r)
      BY <1>1, <2>2 DEF OneCommand
    <3>2. ~Active(r)'
      BY <2>2, <3>1
    <3> QED
      BY <1>1, <2>1, <3>1, <3>2 DEF CommandFits, Active
  <2>3. CASE ~Active(q) \/ r \notin Commands
    BY <1>1, <2>1, <2>3 DEF CommandFits, Active, Runners
  <2> QED
    BY <2>2, <2>3
<1>3. ASSUME NEW q \in Isolated \ {r} PROVE IsolatedFits(q)'
  BY <1>1 DEF IsolatedFits, Active, Runners
<1>4. OneCommand'
  <2> SUFFICES ASSUME NEW p \in Commands, NEW q \in Commands, Active(p)', Active(q)', p # q
               PROVE  FALSE
    BY DEF OneCommand
  <2>1. \A o \in Commands \ {r} : Active(o)' <=> Active(o)
    BY DEF Active, Runners
  <2> QED
    BY <1>1, <2>1 DEF OneCommand
<1> QED
  BY <1>1, <1>2, <1>3, <1>4 DEF RunInv

\* A command goes on or ends, having changed its project at most as removes allows.
LEMMA CommandMoves ==
  ASSUME Inv, NEW r \in Commands, NEW label, NEW c, NEW removes,
         Active(r), label # "idle",
         UNCHANGED <<action, told, stage, problem, result>>,
         step' = [step EXCEPT ![r] = label],
         code' = code \/ code' = [code EXCEPT ![r] = c],
         c \in {0, 1, 77, 130, None},
         child' = child,
         Changes(Dev, removes) \/ UNCHANGED <<stacks, engine, reachable>>,
         label = "provision" => action[r].action = "start" /\ child[r] = None,
         label \in {"provision", "ended"}
  PROVE  Inv'
<1>1. /\ RunTypes /\ ProjectsInv /\ CommandFits(r) /\ r \in Runners /\ r \notin Isolated
      /\ Dev \in Projects /\ Dev \notin Isolated /\ Isolated \subseteq Projects
  BY ProjectsAssumption DEF Inv, RunInv, Runners, Projects
<1>2. /\ containers' \in [Projects -> States] /\ volumes' \in [Projects -> BOOLEAN]
      /\ \A o \in Isolated : containers'[o] = containers[o] /\ volumes'[o] = volumes[o]
      /\ ProjectsInv'
      /\ \/ UNCHANGED <<banks, flying>>
         \/ banks' = [b \in Banks |-> "none"] /\ flying' = {}
  <2>1. CASE Changes(Dev, removes)
    BY <1>1, <2>1, ChangesFacts
  <2>2. CASE UNCHANGED <<stacks, engine, reachable>>
    BY <1>1, <2>2 DEF RunTypes, ProjectsInv, stacks, engine
  <2> QED
    BY <2>1, <2>2
<1>3. BankInv'
  BY <1>2, ChangesKeepBanks
<1>4. RunTypes'
  BY <1>1, <1>2 DEF RunTypes, CommandStep
<1>5. step'[r] = label /\ \A q \in Runners \ {r} : step'[q] = step[q] /\ code'[q] = code[q]
  BY <1>1 DEF RunTypes
<1>6. CommandFits(r)'
  BY <1>1, <1>5 DEF CommandFits, CommandStep, Active
<1>7. RunInv'
  BY <1>1, <1>2, <1>4, <1>5, <1>6, OneRunnerMoves
<1> QED
  BY <1>3, <1>7 DEF Inv

LEMMA BeginCommandKeeps == ASSUME Inv, NEW r \in Commands, BeginCommand(r) PROVE Inv'
<1>1. PICK arguments \in Arguments, valid \in BOOLEAN :
         /\ action' = [action EXCEPT ![r] = arguments]
         /\ IF Refused(arguments, valid) THEN Exit(r, 1)
            ELSE To(r, FirstStep(arguments.action)) /\ UNCHANGED code
  BY DEF BeginCommand, Arguments
<1>2. /\ step[r] = "idle" /\ (\A q \in Commands : ~Active(q))
      /\ UNCHANGED <<containers, volumes, child, told, banks, flying, reachable, stage, problem,
                     result>>
      /\ RunTypes /\ ProjectsInv /\ CommandFits(r) /\ r \in Runners /\ r \notin Isolated
  BY ProjectsAssumption DEF BeginCommand, Starting, Active, stacks, engine, Inv, RunInv, Runners
<1>3. BankInv'
  BY <1>2, ChangesKeepBanks
<1> DEFINE label == IF Refused(arguments, valid) THEN "ended" ELSE FirstStep(arguments.action)
<1>4. /\ step' = [step EXCEPT ![r] = label]
      /\ code' = code \/ code' = [code EXCEPT ![r] = 1]
  BY <1>1 DEF Exit, To
<1>5. /\ label \in {"config", "up", "down", "ended"}
      /\ label = "config" => arguments.action = "config"
      /\ label = "up" => arguments.action \in {"dependencies", "start"}
      /\ label = "down" => arguments.action = "stop" \/ arguments = Destructive
  <2>1. /\ arguments.action \in {"config", "dependencies", "start", "stop", "reset"}
        /\ arguments.destroy \in BOOLEAN
        /\ arguments = [action |-> arguments.action, destroy |-> arguments.destroy]
    BY DEF Arguments, Actions
  <2>2. ~Refused(arguments, valid) /\ arguments.action = "reset" => arguments.destroy
    BY DEF Refused
  <2> QED
    BY <2>1, <2>2 DEF FirstStep, Destructive
<1> HIDE DEF label
<1>6. RunTypes'
  BY <1>1, <1>2, <1>4, <1>5 DEF RunTypes, CommandStep
<1>7. /\ step'[r] = label /\ action'[r] = arguments
      /\ \A q \in Runners \ {r} : step'[q] = step[q] /\ code'[q] = code[q]
      /\ \A q \in Commands \ {r} : action'[q] = action[q]
  BY <1>1, <1>2, <1>4 DEF RunTypes
<1>8. CommandFits(r)'
  BY <1>2, <1>5, <1>7 DEF CommandFits, CommandStep, Active
<1>9. RunInv'
  BY <1>2, <1>6, <1>7, <1>8, OneRunnerMoves DEF ProjectsInv, Projects
<1> QED
  BY <1>3, <1>9 DEF Inv

\* The one-shot container of a start begins as any provisioning does.
LEMMA ProvisioningKeeps == ASSUME Inv, NEW r \in Commands, Provisioning(r) PROVE Inv'
<1>1. /\ step[r] = "provision" /\ child[r] = None /\ Active(r)
      /\ RunTypes /\ ProjectsInv /\ CommandFits(r) /\ BankInv /\ r \in Runners /\ r \notin Isolated
      /\ UNCHANGED <<containers, volumes, action, told, banks, flying, reachable, problem, result>>
  BY ProjectsAssumption DEF Provisioning, Active, Inv, RunInv, Runners, engine, stacks
<1>2. CASE Exit(r, 1) /\ UNCHANGED <<child, stage>>
  BY <1>1, <1>2, CommandMoves DEF Exit, To, stacks, engine
<1>3. ASSUME NEW p \in Provisions, stage[p] = "idle", child' = [child EXCEPT ![r] = p],
             Goto(p, "patch"), UNCHANGED <<step, code>>
      PROVE  Inv'
  <2>1. BankInv'
    BY <1>1, <1>3, BeginKeeps DEF Runs, engine
  <2>2. result[p] # "passed"
    BY <1>1, <1>3, RunsAssumption DEF BankInv, StageFits, Runs
  <2>3. RunTypes'
    BY <1>1, <1>3 DEF RunTypes
  <2>4. child'[r] = p /\ \A q \in Commands \ {r} : child'[q] = child[q]
    BY <1>1, <1>3 DEF RunTypes
  <2>5. CommandFits(r)'
    BY <1>1, <1>3, <2>2, <2>4 DEF CommandFits, Active
  <2>6. RunInv'
    BY <1>1, <1>3, <2>3, <2>4, <2>5, OneRunnerMoves DEF ProjectsInv, Active
  <2> QED
    BY <2>1, <2>6 DEF Inv
<1> QED
  BY <1>2, <1>3 DEF Provisioning

LEMMA CommandStepKeeps ==
  ASSUME Inv, NEW r \in Commands,
         Configured(r) \/ Up(r) \/ Provisioning(r) \/ Provisioned(r) \/ Down(r)
  PROVE  Inv'
<1>1. CommandFits(r) /\ Dev \in Projects
  BY DEF Inv, RunInv, Projects
<1>2. CASE Configured(r)
  BY <1>2, CommandMoves DEF Configured, Exit, To, bankVars, engine, Active
<1>3. CASE Up(r)
  <2>1. Changes(Dev, FALSE)
    BY <1>1, <1>3, ComposeChanges DEF Up
  <2>2. child[r] = None /\ Active(r)
    BY <1>1, <1>3 DEF Up, CommandFits, Active
  <2>3. CASE To(r, "provision") /\ UNCHANGED code /\ action[r].action = "start"
    BY <1>3, <2>1, <2>2, <2>3, CommandMoves DEF Up, To
  <2>4. ASSUME NEW c \in {0, 1}, Exit(r, c) PROVE Inv'
    BY <1>3, <2>1, <2>2, <2>4, CommandMoves DEF Up, Exit, To
  <2> QED
    BY <1>3, <2>3, <2>4 DEF Up
<1>4. CASE Provisioned(r)
  <2>1. PICK c \in {0, 1} : Exit(r, c)
    BY <1>4 DEF Provisioned
  <2> QED
    BY <1>4, <2>1, CommandMoves DEF Provisioned, Exit, To, bankVars, engine, Active
<1>5. CASE Down(r)
  <2>1. Changes(Dev, action[r].action = "reset")
    BY <1>1, <1>5, ComposeChanges DEF Down
  <2>2. PICK c \in {0, 1} : Exit(r, c)
    BY <1>5 DEF Down
  <2> QED
    BY <1>5, <2>1, <2>2, CommandMoves DEF Down, Exit, To, Active
<1> QED
  BY <1>2, <1>3, <1>4, <1>5, ProvisioningKeeps

\* An isolated run goes on or ends, having changed its own project at most.
LEMMA IsolatedMoves ==
  ASSUME Inv, NEW r \in Isolated, NEW label \in IsolatedStep \ {"idle"},
         step' = [step EXCEPT ![r] = label],
         code' \in [Runners -> {0, 1, 77, 130, None}],
         told' \in [Runners -> BOOLEAN],
         \A q \in Runners \ {r} : code'[q] = code[q] /\ told'[q] = told[q],
         UNCHANGED <<action, child, stage, problem, result>>,
         NEW removes, Changes(r, removes) \/ UNCHANGED <<stacks, engine, reachable>>,
         label # "ended" => code'[r] \in {0, 1, 130},
         label = "ended" /\ (containers'[r] # "none" \/ volumes'[r]) =>
            code'[r] = 130 \/ (code'[r] = 1 /\ told'[r])
  PROVE  Inv'
<1>1. /\ RunTypes /\ ProjectsInv /\ IsolatedFits(r) /\ r \in Runners /\ r \notin Commands
      /\ r # Dev /\ r \in Projects /\ Isolated \subseteq Projects
  BY ProjectsAssumption DEF Inv, RunInv, Runners, Projects
<1>2. /\ containers' \in [Projects -> States] /\ volumes' \in [Projects -> BOOLEAN]
      /\ \A o \in Isolated \ {r} : containers'[o] = containers[o] /\ volumes'[o] = volumes[o]
      /\ ProjectsInv'
      /\ UNCHANGED <<banks, flying>>
  <2>1. CASE Changes(r, removes)
    BY <1>1, <2>1, ChangesFacts
  <2>2. CASE UNCHANGED <<stacks, engine, reachable>>
    BY <1>1, <2>2 DEF RunTypes, ProjectsInv, stacks, engine
  <2> QED
    BY <2>1, <2>2
<1>3. BankInv'
  BY <1>2, ChangesKeepBanks
<1>4. RunTypes'
  BY <1>1, <1>2 DEF RunTypes
<1>5. step'[r] = label /\ \A q \in Runners \ {r} : step'[q] = step[q]
  BY <1>1 DEF RunTypes
<1>6. IsolatedFits(r)'
  BY <1>5 DEF IsolatedFits, IsolatedStep, Active
<1>7. RunInv'
  BY <1>1, <1>2, <1>4, <1>5, <1>6, OneRunnerMoves
<1> QED
  BY <1>3, <1>7 DEF Inv

LEMMA BeginIsolatedKeeps == ASSUME Inv, NEW r \in Isolated, BeginIsolated(r) PROVE Inv'
<1>1. /\ RunTypes /\ IsolatedFits(r) /\ r \in Runners
      /\ step[r] = "idle" /\ UNCHANGED <<stacks, engine, reachable, stage, problem, result, action,
                                         child, told, containers, volumes>>
  BY DEF BeginIsolated, Starting, Inv, RunInv, Runners, stacks
<1>2. PICK label \in {"up", "ended"}, c \in {0, 1, 77} :
         /\ step' = [step EXCEPT ![r] = label] /\ code' = [code EXCEPT ![r] = c]
  BY DEF BeginIsolated, Exit, To
<1>3. containers[r] = "none" /\ ~volumes[r]
  BY <1>1 DEF IsolatedFits
<1>4. /\ code' \in [Runners -> {0, 1, 77, 130, None}] /\ code'[r] = c
      /\ \A q \in Runners \ {r} : code'[q] = code[q]
      /\ label = "up" => c = 0
  BY <1>1, <1>2 DEF RunTypes, BeginIsolated, Exit, To
<1> QED
  BY <1>1, <1>2, <1>3, <1>4, IsolatedMoves DEF IsolatedStep, RunTypes

LEMMA IsolatedStepKeeps ==
  ASSUME Inv, NEW r \in Isolated, StageDone(r) \/ StageFails(r) \/ Leave(r) \/ Cleanup(r)
  PROVE  Inv'
<1>0. /\ {"provision", "scenario", "leave", "cleanup", "ended"} \subseteq IsolatedStep \ {"idle"}
      /\ "leave" # "ended" /\ "cleanup" # "ended"
  BY DEF IsolatedStep
<1>1. /\ RunTypes /\ IsolatedFits(r) /\ r \in Runners /\ r \in Projects
  BY DEF Inv, RunInv, Runners, Projects
<1>2. CASE StageDone(r)
  <2>1. /\ step[r] \in {"up", "provision", "scenario"}
        /\ UNCHANGED <<action, child, stage, problem, result, code, told>>
        /\ step' = [step EXCEPT ![r] = NextStage(r)]
    BY <1>2 DEF StageDone, Stages, To
  <2>2. Changes(r, FALSE) \/ UNCHANGED <<stacks, engine, reachable>>
    BY <1>1, <1>2, ComposeChanges DEF StageDone
  <2>3. code[r] \in {0, 1, 130}
    BY <1>1, <2>1 DEF IsolatedFits, Active
  <2>4. NextStage(r) \in {"provision", "scenario", "leave"}
    BY DEF NextStage
  <2>5. NextStage(r) \in IsolatedStep \ {"idle"} /\ NextStage(r) # "ended"
    BY <2>4 DEF IsolatedStep
  <2>6. /\ code' \in [Runners -> {0, 1, 77, 130, None}] /\ told' \in [Runners -> BOOLEAN]
        /\ code'[r] \in {0, 1, 130}
        /\ \A q \in Runners \ {r} : code'[q] = code[q] /\ told'[q] = told[q]
    BY <1>1, <2>1, <2>3 DEF RunTypes
  <2> QED
    BY <2>1, <2>2, <2>5, <2>6, IsolatedMoves
<1>3. CASE StageFails(r)
  <2>1. /\ UNCHANGED <<action, child, stage, problem, result, told>>
        /\ step' = [step EXCEPT ![r] = "leave"] /\ code' = [code EXCEPT ![r] = 1]
    BY <1>3 DEF StageFails, To
  <2>2. Changes(r, FALSE) \/ UNCHANGED <<stacks, engine, reachable>>
    BY <1>1, <1>3, ComposeChanges DEF StageFails
  <2>3. /\ code' \in [Runners -> {0, 1, 77, 130, None}] /\ code'[r] = 1
        /\ \A q \in Runners \ {r} : code'[q] = code[q]
    BY <1>1, <2>1 DEF RunTypes
  <2> QED
    BY <1>0, <1>1, <2>1, <2>2, <2>3, IsolatedMoves DEF RunTypes
<1>4. CASE Leave(r)
  <2>1. /\ step[r] = "leave" /\ step' = [step EXCEPT ![r] = "cleanup"]
        /\ UNCHANGED <<action, child, stage, problem, result, code, told, stacks, engine, reachable>>
    BY <1>4 DEF Leave, To, bankVars, engine
  <2>2. code[r] \in {0, 1, 130}
    BY <1>1, <2>1 DEF IsolatedFits, Active
  <2> QED
    BY <1>0, <1>1, <2>1, <2>2, IsolatedMoves DEF RunTypes
<1>5. CASE Cleanup(r)
  <2>1. /\ step[r] = "cleanup" /\ step' = [step EXCEPT ![r] = "ended"]
        /\ UNCHANGED <<action, child, stage, problem, result>>
        /\ code[r] \in {0, 1, 130}
    BY <1>1, <1>5 DEF Cleanup, Exit, To, IsolatedFits, Active
  <2>2. Changes(r, TRUE)
    BY <1>1, <1>5, ComposeChanges DEF Cleanup
  <2>3. CASE Becomes(r, "none", FALSE) /\ Exit(r, code[r]) /\ UNCHANGED told
    <3>1. containers'[r] = "none" /\ ~volumes'[r]
      BY <1>1, <2>3 DEF Becomes, RunTypes
    <3>2. /\ code' \in [Runners -> {0, 1, 77, 130, None}]
          /\ \A q \in Runners \ {r} : code'[q] = code[q]
      BY <1>1, <2>1, <2>3 DEF RunTypes, Exit
    <3>3. told' \in [Runners -> BOOLEAN] /\ \A q \in Runners \ {r} : told'[q] = told[q]
      BY <1>1, <2>3 DEF RunTypes
    <3>4. /\ \A q \in Runners \ {r} : code'[q] = code[q] /\ told'[q] = told[q]
          /\ ~(containers'[r] # "none" \/ volumes'[r])
      BY ONLY <3>1, <3>2, <3>3
    <3>5. "ended" \in IsolatedStep \ {"idle"}
      BY ONLY <1>0
    <3> QED
      BY <2>1, <2>2, <3>2, <3>3, <3>4, <3>5, IsolatedMoves
  <2>4. CASE Exit(r, AfterCleanup(r, 1)) /\ told' = [told EXCEPT ![r] = TRUE]
    <3>1. AfterCleanup(r, 1) \in {1, 130}
      BY <2>1 DEF AfterCleanup
    <3>2. /\ code' \in [Runners -> {0, 1, 77, 130, None}] /\ code'[r] \in {1, 130}
          /\ told' \in [Runners -> BOOLEAN] /\ told'[r]
          /\ \A q \in Runners \ {r} : code'[q] = code[q] /\ told'[q] = told[q]
      BY <1>1, <2>4, <3>1 DEF RunTypes, Exit
    <3>3. code'[r] \in {0, 1, 130}
      BY <3>2
    <3> QED
      BY <1>0, <2>1, <2>2, <3>2, <3>3, IsolatedMoves
  <2> QED
    BY <1>5, <2>3, <2>4 DEF Cleanup
<1> QED
  BY <1>2, <1>3, <1>4, <1>5

LEMMA InterruptRunnerKeeps == ASSUME Inv, NEW r \in Runners, InterruptRunner(r) PROVE Inv'
<1>1. /\ RunTypes /\ Active(r) /\ UNCHANGED <<stage, problem, result, action, child>>
      /\ r \in Isolated => IsolatedFits(r) /\ r \in Projects
      /\ r \in Commands => CommandFits(r)
      /\ Dev \in Projects
  BY DEF InterruptRunner, Inv, RunInv, Active, Projects
<1>2. ASSUME NEW removes, Changes(r, removes) \/ UNCHANGED <<stacks, engine, reachable>>,
             r \in Isolated, NEW label \in {"leave", "ended"}, To(r, label),
             NEW c \in {1, 130}, code' = [code EXCEPT ![r] = c],
             told' = [told EXCEPT ![r] = TRUE] \/ (c = 130 /\ UNCHANGED told)
      PROVE  Inv'
  <2>1. /\ code' \in [Runners -> {0, 1, 77, 130, None}] /\ code'[r] = c
        /\ \A q \in Runners \ {r} : code'[q] = code[q]
    BY <1>1, <1>2 DEF RunTypes
  <2>2. /\ told' \in [Runners -> BOOLEAN]
        /\ \A q \in Runners \ {r} : told'[q] = told[q]
        /\ c = 1 => told'[r]
    <3>1. CASE told' = [told EXCEPT ![r] = TRUE]
      BY <1>1, <3>1 DEF RunTypes
    <3>2. CASE c = 130 /\ UNCHANGED told
      BY <1>1, <3>2 DEF RunTypes
    <3> QED
      BY <1>2, <3>1, <3>2
  <2>3. /\ step' = [step EXCEPT ![r] = label] /\ label \in IsolatedStep \ {"idle"}
        /\ code'[r] \in {0, 1, 130} /\ (code'[r] = 130 \/ (code'[r] = 1 /\ told'[r]))
        /\ \A q \in Runners \ {r} : code'[q] = code[q] /\ told'[q] = told[q]
    BY <1>2, <2>1, <2>2 DEF To, IsolatedStep
  <2> QED
    BY <1>1, <1>2, <2>1, <2>2, <2>3, IsolatedMoves
<1>3. CASE /\ r \in Isolated /\ step[r] \in Stages(r)
           /\ IF step[r] = "up" THEN BringsUpSome(r) ELSE UNCHANGED <<stacks, engine, reachable>>
           /\ To(r, "leave") /\ code' = [code EXCEPT ![r] = 130] /\ UNCHANGED told
  BY <1>1, <1>2, <1>3, ComposeChanges
<1>4. CASE /\ r \in Isolated /\ step[r] = "leave"
           /\ Exit(r, 130) /\ UNCHANGED <<told, stacks, engine, reachable>>
  BY <1>1, <1>2, <1>4 DEF Exit
<1>5. CASE /\ r \in Isolated /\ step[r] = "cleanup"
           /\ TakesDownSome(r, TRUE)
           /\ \/ r \in EndToEnds /\ Exit(r, AfterCleanup(r, 1)) /\ told' = [told EXCEPT ![r] = TRUE]
              \/ Exit(r, 130) /\ UNCHANGED told
  <2>1. code[r] \in {0, 1, 130}
    BY <1>1, <1>5 DEF IsolatedFits, Active
  <2>2. AfterCleanup(r, 1) \in {1, 130}
    BY <2>1 DEF AfterCleanup
  <2>3. Changes(r, TRUE)
    BY <1>1, <1>5, ComposeChanges
  <2>4. CASE Exit(r, AfterCleanup(r, 1)) /\ told' = [told EXCEPT ![r] = TRUE]
    BY <1>2, <1>5, <2>2, <2>3, <2>4 DEF Exit
  <2>5. CASE Exit(r, 130) /\ UNCHANGED told
    BY <1>2, <1>5, <2>3, <2>5 DEF Exit
  <2> QED
    BY <1>5, <2>4, <2>5
<1>6. CASE /\ r \in Commands
           /\ CASE step[r] = "up" -> BringsUpSome(Dev)
                [] step[r] = "down" -> TakesDownSome(Dev, action[r].action = "reset")
                [] OTHER -> UNCHANGED <<stacks, engine, reachable>>
           /\ Exit(r, 130) /\ UNCHANGED told
  <2>1. PICK removes \in BOOLEAN : Changes(Dev, removes) \/ UNCHANGED <<stacks, engine, reachable>>
    BY <1>1, <1>6, ComposeChanges
  <2> QED
    BY <1>1, <1>6, <2>1, CommandMoves DEF Exit, To
<1> QED
  BY <1>3, <1>4, <1>5, <1>6 DEF InterruptRunner

LEMMA InvInit == DeployInit => Inv
<1> SUFFICES ASSUME DeployInit PROVE Inv
  OBVIOUS
<1>1. /\ \A s \in Probes : banks[s] = "none"
      /\ banks \in [Banks -> {"none", "bare"}] /\ flying = {}
      /\ stage = [x \in Runs |-> "idle"] /\ problem = [x \in Runs |-> FALSE]
      /\ result = [x \in Runs |-> None]
  BY DEF DeployInit, Init
<1>2. BankInv
  <2>1. BankTypes
    BY <1>1 DEF BankTypes, ProvisionStage
  <2>2. \A x \in Runs : StageFits(x)
    BY <1>1, KeptAssumption DEF StageFits, ProvisionStage, ProbeStage
  <2>3. \A s \in Probes \ Kept : ProbeIsClean(s)
    BY <1>1 DEF ProbeIsClean, Quiet, Runs
  <2> QED
    BY <1>1, <2>1, <2>2, <2>3 DEF BankInv
<1>3. PICK up \in {"none", "up"} : containers = [p \in Projects |-> IF p = Dev THEN up ELSE "none"]
  BY DEF DeployInit
<1>4. RunTypes
  BY <1>3 DEF DeployInit, RunTypes, States, CommandStep
<1>5. ProjectsInv
  BY <1>3 DEF DeployInit, ProjectsInv, Projects
<1>6. OneCommand /\ \A r \in Commands : CommandFits(r)
  BY DEF DeployInit, OneCommand, CommandFits, CommandStep, Active, Runners
<1>7. \A r \in Isolated : IsolatedFits(r)
  BY <1>3, ProjectsAssumption DEF DeployInit, IsolatedFits, IsolatedStep, Active, Runners, Projects
<1> QED
  BY <1>2, <1>4, <1>5, <1>6, <1>7 DEF Inv, RunInv

LEMMA InvNext == Inv /\ [Next]_vars => Inv'
<1> SUFFICES ASSUME Inv, [Next]_vars PROVE Inv'
  OBVIOUS
<1>1. CASE BankStep /\ UNCHANGED runVars
  <2>1. BankInv' /\ RunTypes' /\ OneCommand'
    BY <1>1, BankStepKeeps DEF Inv, RunInv, runVars, RunTypes, OneCommand, Active
  <2>2. ProjectsInv'
    <3>1. Dev \in Projects /\ ProjectsInv
      BY DEF Inv, RunInv, Projects
    <3>2. reachable' = reachable /\ (~reachable => banks' = banks) /\ UNCHANGED <<containers, volumes>>
      BY <1>1, BanksMoveOn DEF runVars
    <3> QED
      BY <3>1, <3>2 DEF ProjectsInv
  <2>3. ASSUME NEW r \in Commands PROVE CommandFits(r)'
    <3>1. child[r] \in Provisions \cup {None} /\ CommandFits(r) /\ UNCHANGED runVars
      BY <1>1 DEF Inv, RunInv, RunTypes
    <3> QED
      BY <1>1, <3>1, BanksMoveOn DEF CommandFits, Active, runVars
  <2>4. \A r \in Isolated : IsolatedFits(r)'
    BY <1>1 DEF Inv, RunInv, IsolatedFits, Active, runVars
  <2> QED
    BY <2>1, <2>2, <2>3, <2>4 DEF Inv, RunInv
<1>2. ASSUME NEW r \in Isolated, Spend(r) PROVE Inv'
  BY <1>2 DEF Spend, Inv, BankInv, BankTypes, StageFits, RequestFits, ProbeIsClean, Quiet, Only,
              RunInv, RunTypes, ProjectsInv, OneCommand, CommandFits, IsolatedFits, Active, bankVars,
              stacks
<1>3. CASE UNCHANGED vars
  BY <1>3 DEF vars, runVars, Inv, BankInv, BankTypes, StageFits, RequestFits, ProbeIsClean, Quiet,
              Only, RunInv, RunTypes, ProjectsInv, OneCommand, CommandFits, IsolatedFits, Active,
              bankVars
<1> QED
  BY <1>1, <1>2, <1>3, BeginCommandKeeps, BeginIsolatedKeeps, CommandStepKeeps, IsolatedStepKeeps,
     InterruptRunnerKeeps DEF Next, RunnerStep, Over

LEMMA Invariant == Spec => []Inv
  BY InvInit, InvNext, PTL DEF Spec

----------------------------------------------------------------------------
(* The results.                                                                    *)

(* However many runs there are and wherever they are interrupted or run late: a    *)
(* probe that passed has left no bank, and no request that would make one again.   *)
THEOREM PassedProbesLeaveNothing == Spec => []PassedLeavesNothing
<1>1. Inv => PassedLeavesNothing
  BY DEF Inv, BankInv, ProbeIsClean, Quiet, PassedLeavesNothing
<1> QED
  BY <1>1, Invariant, PTL

(* For any order of failures, deadlines and interrupts: an isolated run that       *)
(* answers 0 has left nothing behind, and what one leaves that was not interrupted *)
(* is told.                                                                        *)
THEOREM UntoldAreInterrupted == Spec => []UntoldIsInterrupted
<1>1. Inv => UntoldIsInterrupted
  BY DEF Inv, RunInv, IsolatedFits, UntoldIsInterrupted, LeavesSomething
<1> QED
  BY <1>1, Invariant, PTL

\* What a command or an isolated run does to the banks, if it is not a reset.
LEMMA RunnersKeepBanks ==
  ASSUME Inv, Next, ~BankStep,
         ~\E r \in Commands : step[r] = "down" /\ action[r] = Destructive
  PROVE  \A b \in Banks : banks[b] = "full" => banks'[b] = "full"
<1>1. Dev \in Projects /\ (\A r \in Commands : CommandFits(r)) /\ Isolated \subseteq Projects
  BY DEF Inv, RunInv, Projects
<1>2. ASSUME NEW p \in Projects, Changes(p, FALSE)
      PROVE  \A b \in Banks : banks[b] = "full" => banks'[b] = "full"
  BY <1>2, ChangesFacts
<1>3. ASSUME NEW r \in Isolated, Changes(r, TRUE)
      PROVE  \A b \in Banks : banks[b] = "full" => banks'[b] = "full"
  BY <1>1, <1>3, ChangesFacts, ProjectsAssumption
<1>4. ASSUME NEW r \in Commands
      PROVE  step[r] = "down" => (action[r].action = "reset") = FALSE
  BY <1>1, <1>4 DEF CommandFits
<1>5. ASSUME NEW r \in Commands, Down(r)
      PROVE  \A b \in Banks : banks[b] = "full" => banks'[b] = "full"
  BY <1>1, <1>2, <1>4, <1>5, ComposeChanges DEF Down
<1>6. ASSUME NEW r \in Commands, Up(r)
      PROVE  \A b \in Banks : banks[b] = "full" => banks'[b] = "full"
  BY <1>1, <1>2, <1>6, ComposeChanges DEF Up
<1>7. ASSUME NEW r \in Isolated, StageDone(r) \/ StageFails(r) \/ Cleanup(r)
      PROVE  \A b \in Banks : banks[b] = "full" => banks'[b] = "full"
  BY <1>1, <1>2, <1>3, <1>7, ComposeChanges DEF StageDone, StageFails, Cleanup, engine
<1>8. ASSUME NEW r \in Runners, InterruptRunner(r)
      PROVE  \A b \in Banks : banks[b] = "full" => banks'[b] = "full"
  <2>1. CASE r \in Isolated
    BY <1>1, <1>2, <1>3, <1>8, <2>1, ComposeChanges, ProjectsAssumption
       DEF InterruptRunner, engine
  <2>2. CASE r \in Commands
    BY <1>1, <1>2, <1>4, <1>8, <2>2, ComposeChanges, ProjectsAssumption
       DEF InterruptRunner, engine
  <2> QED
    BY <2>1, <2>2 DEF Runners
<1>9. ASSUME UNCHANGED banks
      PROVE  \A b \in Banks : banks[b] = "full" => banks'[b] = "full"
  BY <1>9
<1> QED
  BY <1>5, <1>6, <1>7, <1>8, <1>9
     DEF Next, RunnerStep, BeginCommand, BeginIsolated, Spend, Over, Configured, Provisioning,
         Provisioned, Leave, engine, bankVars, vars

(* The mission and the facts that were kept go with a destructive reset alone,     *)
(* whatever late requests are done and whatever else stops, fails or cleans up.    *)
THEOREM OnlyAResetForgets == Spec => OnlyResetForgets
<1> DEFINE A == \A b \in {Shared} \cup Kept : banks[b] = "full" /\ banks'[b] # "full" =>
                   \E r \in Commands : step[r] = "down" /\ action[r] = Destructive
<1>1. Inv /\ [Next]_vars => [A]_vars
  <2> SUFFICES ASSUME Inv, Next, NEW b \in {Shared} \cup Kept, banks[b] = "full", banks'[b] # "full"
               PROVE  \E r \in Commands : step[r] = "down" /\ action[r] = Destructive
    OBVIOUS
  <2>1. b \in Banks
    BY KeptAssumption DEF Banks
  <2> QED
    BY <2>1, BanksMoveOn, RunnersKeepBanks
<1> QED
  BY <1>1, Invariant, PTL DEF Spec, OnlyResetForgets, Destructive

(* A start that answers 0 leaves the mission in the shared bank: no other command  *)
(* runs while it waits, and nothing else takes the mission away.                   *)
THEOREM StartsAreProvisioned == Spec => StartedIsProvisioned
<1> DEFINE A == \A r \in Commands :
                   action[r] # None /\ action[r].action = "start" /\ step'[r] = "ended" /\ step[r] # "ended"
                      /\ code'[r] = 0 => banks[Shared] = "full"
<1>1. Inv /\ [Next]_vars => [A]_vars
  <2> SUFFICES ASSUME Inv, Next, NEW r \in Commands, action[r] # None, action[r].action = "start",
                      step'[r] = "ended", step[r] # "ended", code'[r] = 0
               PROVE  banks[Shared] = "full"
    OBVIOUS
  <2>1. /\ CommandFits(r) /\ RunTypes /\ r \in Runners /\ r \notin Isolated
    BY ProjectsAssumption DEF Inv, RunInv, Runners
  <2>2. step[r] # "idle" /\ step[r] \notin {"config", "down"}
    BY <2>1 DEF CommandFits, Destructive
  <2>3. ASSUME NEW q \in Runners \ {r}, BeginCommand(q) \/ BeginIsolated(q) \/ Spend(q) \/ RunnerStep(q)
                                          \/ InterruptRunner(q)
        PROVE  FALSE
    <3>1. step \in [Runners -> CommandStep \cup IsolatedStep] /\ r # q /\ r \in Runners
      BY <2>1, <2>3 DEF RunTypes
    <3>2. ASSUME NEW label, To(q, label)
          PROVE  FALSE
      <4>1. step'[r] = step[r]
        BY ONLY <3>1, <3>2 DEF To
      <4> QED
        BY <4>1
    <3>3. ASSUME UNCHANGED step
          PROVE  FALSE
      BY <3>3
    <3>4. ASSUME NEW c, Exit(q, c)
          PROVE  FALSE
      BY <3>2, <3>4 DEF Exit
    <3>5. ~BeginCommand(q) /\ ~BeginIsolated(q) /\ ~Spend(q)
      BY <3>2, <3>3, <3>4 DEF BeginCommand, BeginIsolated, Spend
    <3>6. ~Configured(q) /\ ~Up(q) /\ ~Provisioning(q) /\ ~Provisioned(q) /\ ~Down(q)
      BY <3>2, <3>3, <3>4 DEF Configured, Up, Provisioning, Provisioned, Down
    <3>7. ~StageDone(q) /\ ~StageFails(q) /\ ~Leave(q) /\ ~Cleanup(q)
      BY <3>2, <3>4 DEF StageDone, StageFails, Leave, Cleanup
    <3>8. ~InterruptRunner(q)
      BY <3>2, <3>4 DEF InterruptRunner
    <3> QED
      BY <2>3, <3>5, <3>6, <3>7, <3>8 DEF RunnerStep
  <2>4. ~BankStep \/ ~UNCHANGED runVars
    BY DEF runVars
  <2>5. ~InterruptRunner(r)
    <3>1. InterruptRunner(r) => Exit(r, 130)
      BY <2>1 DEF InterruptRunner
    <3> QED
      BY <2>1, <3>1 DEF Exit, RunTypes
  <2>6. ~Up(r)
    <3>1. Up(r) => To(r, "provision") \/ Exit(r, 1)
      BY DEF Up
    <3> QED
      BY <2>1, <3>1 DEF Exit, To, RunTypes
  <2>7. ~Provisioning(r)
    BY <2>1 DEF Provisioning, Exit, RunTypes
  <2>8. Provisioned(r)
    BY <2>1, <2>2, <2>3, <2>4, <2>5, <2>6, <2>7
       DEF Next, RunnerStep, BeginCommand, Starting, Configured, Down, Over, vars, runVars, Runners
  <2> QED
    BY <2>1, <2>8 DEF Provisioned, Exit, CommandFits, RunTypes
<1> QED
  BY <1>1, Invariant, PTL DEF Spec, StartedIsProvisioned
=============================================================================
