----------------------------- MODULE OpsPipeline -----------------------------
(***************************************************************************)
(* The operator-test pipeline: scripts/ci/ppu_ops_runner.py run by the     *)
(* jobs of build-ppu-wheels.yaml and _ppu-ops-tests.yaml. A selection job, *)
(* one job per board that drives a pod over a shared directory, and a      *)
(* summary job. Jobs and pods interleave; a pod can fail in any stage or   *)
(* be killed between two writes; the run can be started again, whole or    *)
(* only its failed jobs.                                                   *)
(***************************************************************************)
EXTENDS OpsSelect

CONSTANTS Config, Repo, Env, Made, Image, Tested,  \* the inputs of the run
          Selections,   \* the selections its first job may make
          MaxAttempts   \* how often the run is started

ASSUME PipelineAssumption == /\ MaxAttempts \in Nat \ {0}
                             /\ NoRev \notin Selections      \* nothing is no selection
                             /\ NoRev # "success"            \* and no summary

VARIABLES attempt,    \* GITHUB_RUN_ATTEMPT
          selArt,     \* selArt[a]: the selection artifact of attempt a, or NoRev
          selOutput,  \* the output of the last selection job that succeeded
          job,        \* job[b]: where the job of board b stands
          pod,        \* pod[b]: the stage of its pod and what the pod remembers
          dir,        \* dir[b]: the results directory of this attempt, or NoRev
          art,        \* art[a][b]: the results uploaded by attempt a for board b
          verdict,    \* verdict[a]: the result of the summary job of attempt a
          passed      \* passed[a]: the <<board, test>> that did pass in attempt a
vars == <<attempt, selArt, selOutput, job, pod, dir, art, verdict, passed>>

Attempts == 1..MaxAttempts
Catalog == discover_catalog(Config, Repo)
Stages == {"off", "inputs", "install", "preflight", "pytest", "evidence", "over"}
Planned(b) == selOutput # NoRev /\ \E g \in selOutput.groups : g.board = b
Effective == [s \in Selections |-> [b \in Boards |-> [expanded \in BOOLEAN |->
                 effective_selection(Config, Catalog, s, b, expanded)]]]
PlanOf(groups, b) == (CHOOSE g \in groups : g.board = b).tests
Jobs == {b \in Boards : Planned(b)}

NewPod == [stage |-> "off", expanded |-> FALSE, todo |-> {}, files |-> {}]
\* The files of a results directory; a missing file is NoRev.
EmptyDir(a, b) == [probe |-> <<a, b>>, podProbe |-> NoRev, selection |-> NoRev,
                   environment |-> NoRev, effective |-> NoRev, timings |-> NoRev,
                   summary |-> NoRev, evidence |-> {}]

Init == /\ attempt = 1 /\ selOutput = NoRev
        /\ selArt = [a \in Attempts |-> NoRev]
        /\ job = [b \in Boards |-> "waiting"]
        /\ pod = [b \in Boards |-> NewPod]
        /\ dir = [b \in Boards |-> NoRev]
        /\ art = [a \in Attempts |-> [b \in Boards |-> "absent"]]
        /\ passed = [a \in Attempts |-> {}]
        /\ verdict = [a \in Attempts |-> "none"]

(***************************************************************************)
(* read_inputs, done by every command: the selection artifact of this      *)
(* attempt exists and is still the one this checkout would accept.         *)
(***************************************************************************)
Acceptable == {s \in Selections : /\ validate_config(Config, Repo)
                                  /\ validate_selection(s, Config, Repo, Env, Tested, Image)
                                  /\ s.build = build_fingerprint(Made, Tested)}

read_inputs(sel) == sel \in Acceptable

SelectJob ==
    /\ selOutput = NoRev /\ verdict[attempt] = "none"
    /\ \E s \in Selections :
         /\ selArt' = [selArt EXCEPT ![attempt] = s]
         /\ selOutput' = s
    /\ UNCHANGED <<attempt, job, pod, dir, art, verdict, passed>>

\* prepare: a directory of this attempt, never one that exists.
Prepare(b) ==
    /\ Planned(b) /\ job[b] = "waiting"
    /\ IF read_inputs(selArt[attempt]) /\ dir[b] = NoRev
       THEN /\ job' = [job EXCEPT ![b] = "scheduled"]
            /\ dir' = [dir EXCEPT ![b] = EmptyDir(attempt, b)]
            /\ pod' = [pod EXCEPT ![b] = [NewPod EXCEPT !.stage = "inputs"]]
       ELSE /\ job' = [job EXCEPT ![b] = "failing"] /\ UNCHANGED <<dir, pod>>
    /\ UNCHANGED <<attempt, selArt, selOutput, art, verdict, passed>>

(***************************************************************************)
(* The pod: execute(). Its last writes are the summary and the timings.    *)
(***************************************************************************)
Running(b, stage) == job[b] = "scheduled" /\ pod[b].stage = stage

PodInputs(b) ==
    /\ Running(b, "inputs") /\ read_inputs(selArt[attempt])
    /\ dir' = [dir EXCEPT ![b].podProbe = dir[b].probe, ![b].selection = selArt[attempt]]
    /\ pod' = [pod EXCEPT ![b].stage = "install"]
    /\ UNCHANGED <<attempt, selArt, selOutput, job, art, verdict, passed>>

PodInstall(b) ==
    /\ Running(b, "install")
    /\ pod' = [pod EXCEPT ![b].stage = "preflight"]
    /\ UNCHANGED <<attempt, selArt, selOutput, job, dir, art, verdict, passed>>

\* MUTANT: the plan is widened on paper, the pod runs what was selected.
PreflightKeepsPlan(b) ==
    /\ Running(b, "preflight")
    /\ \E expanded \in BOOLEAN :
         /\ dir' = [dir EXCEPT ![b].environment = FALSE, ![b].effective = selArt[attempt].groups]
         /\ pod' = [pod EXCEPT ![b].stage = "pytest", ![b].expanded = expanded,
                               ![b].todo = PlanOf(selArt[attempt].groups, b)]
    /\ UNCHANGED <<attempt, selArt, selOutput, job, art, verdict, passed>>

\* The runtime that is found may differ from the qualified one: the pod then
\* widens its own plan to every test of its board.
PodPreflight(b) ==
    /\ Running(b, "preflight")
    /\ \E expanded \in BOOLEAN :
         LET plan == Effective[selArt[attempt]][b][expanded]
         IN  /\ dir' = [dir EXCEPT ![b].environment = expanded, ![b].effective = plan]
             /\ pod' = [pod EXCEPT ![b].stage = "pytest", ![b].expanded = expanded,
                                   ![b].todo = PlanOf(plan, b)]
    /\ UNCHANGED <<attempt, selArt, selOutput, job, art, verdict, passed>>

\* The next file of run_files: a failure is recorded and the next file runs.
PodRunsFile(b) ==
    /\ Running(b, "pytest") /\ pod[b].todo # {}
    /\ \E ok \in BOOLEAN : LET t == CHOOSE u \in pod[b].todo : TRUE IN
         /\ pod' = [pod EXCEPT ![b].todo = @ \ {t}, ![b].files = @ \cup {<<t, ok>>}]
         /\ dir' = [dir EXCEPT ![b].evidence = IF ok THEN @ \cup {t} ELSE @]
         /\ passed' = IF ok THEN [passed EXCEPT ![attempt] = @ \cup {<<b, t>>}] ELSE passed
    /\ UNCHANGED <<attempt, selArt, selOutput, job, art, verdict>>

\* MUTANT: the summary already says success when it is first written.
PodWritesSuccess(b) ==
    /\ Running(b, "pytest") /\ pod[b].todo = {}
    /\ pod' = [pod EXCEPT ![b].stage = "over"]
    /\ dir' = [dir EXCEPT ![b].timings = {<<t, TRUE>> : t \in {f[1] : f \in pod[b].files}},
                          ![b].evidence = {f[1] : f \in pod[b].files}, ![b].summary = "success"]
    /\ UNCHANGED <<attempt, selArt, selOutput, job, art, verdict, passed>>

\* Timings and a summary that still says failure are written before the check.
PodWrites(b) ==
    /\ Running(b, "pytest") /\ pod[b].todo = {}
    /\ pod' = [pod EXCEPT ![b].stage = "evidence"]
    /\ dir' = [dir EXCEPT ![b].timings = pod[b].files, ![b].summary = "failure"]
    /\ UNCHANGED <<attempt, selArt, selOutput, job, art, verdict, passed>>

\* validate_group: one directory proves that its whole group passed.
validate_group(sel, d, success) ==
    /\ d # NoRev /\ d.summary # NoRev /\ d.environment # NoRev /\ d.timings # NoRev
    /\ (success => d.summary = "success")
    /\ d.selection = sel
    /\ \E g \in sel.groups : g.board = d.probe[2]
    /\ d.effective = Effective[sel][d.probe[2]][d.environment]
    /\ {f[1] : f \in d.timings} = PlanOf(d.effective, d.probe[2])
    /\ \A f \in d.timings : f[2] /\ f[1] \in d.evidence

PodEnds(b) ==
    /\ Running(b, "evidence")
    /\ pod' = [pod EXCEPT ![b].stage = "over"]
    /\ dir' = [dir EXCEPT ![b].summary = IF validate_group(selArt[attempt], dir[b], FALSE)
                                         THEN "success" ELSE "failure"]
    /\ UNCHANGED <<attempt, selArt, selOutput, job, art, verdict, passed>>

\* An exception in a stage: finally still writes a failing summary and the
\* timings, whose list of files is empty unless pytest had ended.
PodFails(b) ==
    /\ job[b] = "scheduled" /\ pod[b].stage \in {"inputs", "install", "preflight", "pytest"}
    /\ pod' = [pod EXCEPT ![b].stage = "over"]
    /\ dir' = [dir EXCEPT ![b].timings = {}, ![b].summary = "failure"]
    /\ UNCHANGED <<attempt, selArt, selOutput, job, art, verdict, passed>>

\* The scheduler's timeout: nothing more is written.
PodKilled(b) ==
    /\ job[b] = "scheduled" /\ pod[b].stage \notin {"off", "over"}
    /\ pod' = [pod EXCEPT ![b].stage = "over"]
    /\ UNCHANGED <<attempt, selArt, selOutput, job, dir, art, verdict, passed>>

(***************************************************************************)
(* finish and the upload both run always; the summary job needs all jobs.  *)
(* An uploaded directory does not change any more, so what validate_group  *)
(* will say of it is fixed at the upload, and only that is kept.           *)
(***************************************************************************)
\* MUTANT: the result check runs only after a pod that was scheduled.
FinishIfScheduled(b) ==
    /\ Planned(b) /\ job[b] = "scheduled" /\ pod[b].stage = "over"
    /\ job' = [job EXCEPT ![b] = IF validate_group(selArt[attempt], dir[b], TRUE)
                                 THEN "success" ELSE "failure"]
    /\ UNCHANGED <<attempt, selArt, selOutput, pod, dir, art, verdict, passed>>

Finish(b) ==
    /\ Planned(b) /\ (job[b] = "failing" \/ (job[b] = "scheduled" /\ pod[b].stage = "over"))
    /\ job' = [job EXCEPT ![b] =
          IF /\ job[b] = "scheduled" /\ read_inputs(selArt[attempt])
             /\ dir[b].podProbe = dir[b].probe
             /\ validate_group(selArt[attempt], dir[b], TRUE)
          THEN "success" ELSE "failure"]
    /\ art' = IF dir[b] = NoRev THEN art
              ELSE [art EXCEPT ![attempt][b] =
                      IF validate_group(selArt[attempt], dir[b], TRUE) THEN "proof" ELSE "no proof"]
    /\ UNCHANGED <<attempt, selArt, selOutput, pod, dir, verdict, passed>>

\* The results of one attempt: one valid directory per planned group.
validate_results(a) ==
    /\ Jobs # {}
    /\ {b \in Boards : art[a][b] # "absent"} = Jobs
    /\ \A b \in Jobs : art[a][b] = "proof"

Summary ==
    /\ verdict[attempt] = "none" /\ selOutput # NoRev /\ Jobs # {}
    /\ \A b \in Jobs : job[b] \in {"success", "failure"}
    /\ LET good == /\ read_inputs(selArt[attempt]) /\ validate_results(attempt)
                   /\ \A b \in Jobs : job[b] = "success"
       IN  verdict' = [verdict EXCEPT ![attempt] = IF good THEN "success" ELSE "failure"]
    /\ UNCHANGED <<attempt, selArt, selOutput, job, pod, dir, art, passed>>

\* No group is planned: the device job is skipped.
Skipped ==
    /\ verdict[attempt] = "none" /\ selOutput # NoRev /\ Jobs = {}
    /\ verdict' = [verdict EXCEPT ![attempt] = "skipped"]
    /\ UNCHANGED <<attempt, selArt, selOutput, job, pod, dir, art, passed>>

\* gate_passes, for a caller that requires the pipeline.
gate_passes(selected, mode, device, has_tests, complete) ==
    /\ selected
    /\ IF mode = "none" THEN ~has_tests /\ device = "skipped"
       ELSE has_tests /\ device = "success" /\ complete

(***************************************************************************)
(* GitHub's controls: all jobs again, or the failed ones and what needs    *)
(* them. A job that is not run again keeps its outputs.                    *)
(***************************************************************************)
Again(keep) ==
    /\ verdict[attempt] # "none" /\ attempt < MaxAttempts
    /\ attempt' = attempt + 1
    /\ dir' = [b \in Boards |-> NoRev]
    /\ pod' = [b \in Boards |-> NewPod]
    /\ job' = [b \in Boards |-> IF keep /\ job[b] = "success" THEN "success" ELSE "waiting"]
    /\ selOutput' = IF keep THEN selOutput ELSE NoRev
    /\ UNCHANGED <<selArt, art, verdict, passed>>

RerunAll == Again(FALSE)
RerunFailed == verdict[attempt] = "failure" /\ Again(TRUE)

JobStep(b) == \/ Prepare(b) \/ PodInputs(b) \/ PodInstall(b) \/ PodPreflight(b)
              \/ PodRunsFile(b) \/ PodWrites(b) \/ PodEnds(b) \/ PodFails(b)
              \/ PodKilled(b) \/ Finish(b)

Next == \/ SelectJob \/ Summary \/ Skipped \/ RerunAll \/ RerunFailed
        \/ \E b \in Boards : JobStep(b)

\* Runners pick up jobs, and a timeout ends every job and pod.
Fairness == /\ WF_vars(SelectJob) /\ WF_vars(Summary) /\ WF_vars(Skipped)
            /\ \A b \in Boards : WF_vars(JobStep(b))

Spec == Init /\ [][Next]_vars
FairSpec == Spec /\ Fairness

-----------------------------------------------------------------------------
\* A green attempt is earned in that attempt: every test its selection names
\* passed on its board, and so did every test of a board whose runtime was not
\* the qualified one (ppu_ops_runner.validate_results over validate_group).
GreenIsEarned ==
    \A a \in Attempts : verdict[a] = "success" =>
        /\ selArt[a] # NoRev
        /\ \A g \in selArt[a].groups : {g.board} \X g.tests \subseteq passed[a]
        /\ a = attempt => \A b \in Jobs : pod[b].expanded =>
             \A t \in Catalog : b \in runnable_boards(Config, t) => <<b, t.id>> \in passed[a]

\* A pod that was killed or failed never leaves a directory that the summary
\* job takes for a success (ppu_ops_runner.execute, written failure first).
DeadPodsProveNothing ==
    \A b \in Boards : (dir[b] # NoRev /\ dir[b].summary = "success") =>
        /\ pod[b].stage = "over" /\ pod[b].todo = {}
        /\ \A f \in pod[b].files : f[2]

\* Every started attempt gets a verdict: no failure leaves the run waiting.
EveryAttemptEnds ==
    \A a \in Attempts : (attempt = a) ~> (verdict[a] # "none")
=============================================================================
