-------------------------------- MODULE CiRuns --------------------------------
(***************************************************************************)
(* The executor of on-demand CI (ppu-pr-ci.yaml and the modes `validate`   *)
(* and `report` of scripts/ci/ppu_ci_command.py) on one pull request, and  *)
(* the part of GitHub it leans on: the queue of one concurrency group, the *)
(* list of runs, which lags, cancellation, re-runs, commit statuses and    *)
(* the comments of the bot.                                                *)
(***************************************************************************)
EXTENDS Naturals, SequencesExt

CONSTANTS
  MaxHead,       (* pushes are numbered: the head is 0 .. MaxHead           *)
  MaxRuns, MaxAttempts, MaxFaults,
  Environments,  (* what GitHub and its users may do, one chosen at first:  *)
                 (*   lag: a new run may miss from the list for a while     *)
                 (*   native: writers use GitHub's own re-run controls      *)
                 (*   faults: how many calls fail, at most                  *)
  FaultyCalls    (* the kinds of calls to GitHub that may fail              *)

ASSUME CiAssumption ==
  /\ MaxHead \in Nat /\ MaxRuns \in Nat /\ MaxAttempts \in Nat /\ MaxFaults \in Nat
  /\ Environments \subseteq [lag : BOOLEAN, native : BOOLEAN, faults : 0 .. MaxFaults]
  /\ FaultyCalls \subseteq {"read", "status", "dispatch", "cancel", "comment"}

VARIABLES
  head,     (* commit the pull request points to                            *)
  runs,     (* workflow runs, by id                                         *)
  waiting,  (* ids queued in the concurrency group ppu-pr-ci-<number>       *)
  status,   (* commit status "PPU CI" of each head                          *)
  thread,   (* comments of the bot that carry a command's marker            *)
  faults,   (* calls to GitHub that failed                                  *)
  env       (* the environment; it does not change                          *)

runVars == << head, runs, waiting, status, thread, faults >>

Heads == 0 .. MaxHead
Results == {"none", "success", "failure", "cancelled", "skipped"}
Executing == {"validate", "checked", "ppu", "report", "reported", "found"}

Run == [sha : Heads, cid : Nat, attempt : 1 .. MaxAttempts,
        state : Executing \cup {"queued", "completed"},
        validate : Results, ppu : Results, conclusion : Results,
        cancel : BOOLEAN, listed : BOOLEAN, reply : Nat]

\* run = 0 is an answer of the command controller, the others are results.
Comment == [cid : Nat, run : 0 .. MaxRuns, attempt : 0 .. MaxAttempts,
            state : {"none", "success", "failure", "error"}]

Ids == DOMAIN runs
Active(i) == runs[i].state # "completed"

NewRun(sha, cid) ==
  [sha |-> sha, cid |-> cid, attempt |-> 1, state |-> "queued", validate |-> "none",
   ppu |-> "none", conclusion |-> "none", cancel |-> FALSE, listed |-> ~ env.lag, reply |-> 0]

\* A call to GitHub fails, a bounded number of times.
Fault(call) ==
  /\ call \in FaultyCalls
  /\ faults < env.faults
  /\ faults' = faults + 1

--------------------------------------------------------------------------------
\* Jobs of an earlier attempt that succeeded are not run again.
FirstJob(run) ==
  IF run.validate # "success" THEN "validate"
  ELSE IF run.ppu # "success" THEN "ppu" ELSE "report"

\* One run of the group executes at a time, in the order of the queue.
Start ==
  /\ waiting # << >>
  /\ \A i \in Ids : runs[i].state \notin Executing
  /\ runs' = [runs EXCEPT ![Head(waiting)].state = FirstJob(runs[Head(waiting)])]
  /\ waiting' = Tail(waiting)
  /\ UNCHANGED << head, status, thread, faults >>

\* validate refuses a head that moved, and a requester that may not run CI any
\* more; the workflow then skips the ppu job.
ValidateRefuses(i) ==
  /\ runs[i].state = "validate"
  /\ runs' = [runs EXCEPT ![i].validate = "failure", ![i].ppu = "skipped",
                          ![i].state = "report"]
  /\ UNCHANGED << head, waiting, status, thread, faults >>

ValidateAccepts(i) ==
  /\ runs[i].state = "validate"
  /\ head = runs[i].sha
  /\ runs' = [runs EXCEPT ![i].state = "checked"]
  /\ UNCHANGED << head, waiting, status, thread, faults >>

\* Between the check and this status, the head may move and a cancellation arrive.
ValidateSetsPending(i) ==
  /\ runs[i].state = "checked"
  /\ \/ /\ status' = [status EXCEPT ![runs[i].sha] = "pending"]
        /\ runs' = [runs EXCEPT ![i].validate = "success", ![i].state = "ppu"]
        /\ UNCHANGED faults
     \/ /\ Fault("status")
        /\ runs' = [runs EXCEPT ![i].validate = "failure", ![i].ppu = "skipped",
                                ![i].state = "report"]
        /\ UNCHANGED status
  /\ UNCHANGED << head, waiting, thread >>

\* The wheels are built and tested.
Test(i) ==
  /\ runs[i].state = "ppu"
  /\ \E result \in {"success", "failure"} :
       runs' = [runs EXCEPT ![i].ppu = result, ![i].state = "report"]
  /\ UNCHANGED << head, waiting, status, thread, faults >>

\* A cancelled run stops in the job it is in; a run that only waited has no job.
\* The report job is declared `if: always()` and is not stopped.
Stop(i) ==
  /\ runs[i].cancel
  /\ \/ /\ runs[i].state = "queued"
        /\ runs' = [runs EXCEPT ![i].state = "completed", ![i].conclusion = "cancelled"]
        /\ \E k \in DOMAIN waiting : waiting[k] = i /\ waiting' = RemoveAt(waiting, k)
     \/ /\ runs[i].state \in {"validate", "checked"}
        /\ runs' = [runs EXCEPT ![i].validate = "cancelled", ![i].ppu = "skipped",
                                ![i].state = "report"]
        /\ UNCHANGED waiting
     \/ /\ runs[i].state = "ppu"
        /\ runs' = [runs EXCEPT ![i].ppu = "cancelled", ![i].state = "report"]
        /\ UNCHANGED waiting
  /\ UNCHANGED << head, status, thread, faults >>

Outcome(run) ==
  IF "cancelled" \in {run.validate, run.ppu} THEN "error"
  ELSE IF run.validate = "success" /\ run.ppu = "success" THEN "success" ELSE "failure"

\* What GitHub concludes.  For a cancelled run whose jobs all succeeded it is
\* documented nowhere, and either is possible.
Conclusions(run) ==
  CASE Outcome(run) = "error"   -> {"cancelled"}
    [] Outcome(run) = "failure" -> {"failure"}
    [] Outcome(run) = "success" -> IF run.cancel THEN {"success", "cancelled"} ELSE {"success"}

\* The final status comes first, and a failure to write it fails the job.
ReportStatus(i) ==
  /\ runs[i].state = "report"
  /\ \/ /\ status' = [status EXCEPT ![runs[i].sha] = Outcome(runs[i])]
        /\ runs' = [runs EXCEPT ![i].state = "reported"]
        /\ UNCHANGED faults
     \/ /\ Fault("status")
        /\ runs' = [runs EXCEPT ![i].state = "completed", ![i].conclusion = "failure"]
        /\ UNCHANGED status
  /\ UNCHANGED << head, waiting, thread >>

Marked(cid) == {k \in DOMAIN thread : thread[k].cid = cid}

\* find_comment: the first comment with the marker of the command, or 0.
FirstMarked(cid) == IF Marked(cid) = {} THEN 0 ELSE Min(Marked(cid))

FindComment(i) ==
  /\ runs[i].state = "reported"
  /\ runs' = [runs EXCEPT ![i].reply = FirstMarked(runs[i].cid), ![i].state = "found"]
  /\ UNCHANGED << head, waiting, status, thread, faults >>

ResultOf(i) == [cid |-> runs[i].cid, run |-> i, attempt |-> runs[i].attempt,
                state |-> Outcome(runs[i])]

\* MUTANT: each result is a comment of its own only while none was found.
ReportCommentOnce(i) ==
  /\ runs[i].state = "found"
  /\ \/ /\ thread' = IF runs[i].reply = 0 THEN Append(thread, ResultOf(i)) ELSE thread
        /\ UNCHANGED faults
     \/ Fault("comment") /\ UNCHANGED thread
  /\ \E c \in Conclusions(runs[i]) :
       runs' = [runs EXCEPT ![i].state = "completed", ![i].conclusion = c]
  /\ UNCHANGED << head, waiting, status >>

\* The result replaces the text of the comment found before, or is a new comment.
\* A failure is ignored.
ReportComment(i) ==
  /\ runs[i].state = "found"
  /\ \/ /\ thread' = IF runs[i].reply = 0 THEN Append(thread, ResultOf(i))
                     ELSE [thread EXCEPT ![runs[i].reply] = ResultOf(i)]
        /\ UNCHANGED faults
     \/ Fault("comment") /\ UNCHANGED thread
  /\ \E c \in Conclusions(runs[i]) :
       runs' = [runs EXCEPT ![i].state = "completed", ![i].conclusion = c]
  /\ UNCHANGED << head, waiting, status >>

--------------------------------------------------------------------------------
(* GitHub.                                                                  *)

Push ==
  /\ head < MaxHead
  /\ head' = head + 1
  /\ UNCHANGED << runs, waiting, status, thread, faults >>

\* A run appears in the list.
Appear(i) ==
  /\ ~ runs[i].listed
  /\ runs' = [runs EXCEPT ![i].listed = TRUE]
  /\ UNCHANGED << head, waiting, status, thread, faults >>

Dispatched(sha, cid) ==
  /\ runs' = Append(runs, NewRun(sha, cid))
  /\ waiting' = Append(waiting, Len(runs) + 1)

\* rerun-failed-jobs (jobs of the last attempt that succeeded are kept) or rerun.
NextAttempt(run, failedOnly) ==
  LET Again(result) == IF failedOnly /\ result = "success" THEN result ELSE "none" IN
  [run EXCEPT !.attempt = @ + 1, !.state = "queued", !.conclusion = "none", !.cancel = FALSE,
              !.reply = 0, !.validate = Again(@), !.ppu = Again(@)]

Rerun(i, failedOnly) ==
  /\ ~ Active(i)
  /\ runs' = [runs EXCEPT ![i] = NextAttempt(@, failedOnly)]
  /\ waiting' = Append(waiting, i)

\* CONTRIBUTING.md: repository writers may also use the native Re-run controls.
NativeRerun(i) ==
  /\ env.native
  /\ runs[i].attempt < MaxAttempts
  /\ \E failedOnly \in BOOLEAN :
       /\ failedOnly => runs[i].conclusion # "success"
       /\ Rerun(i, failedOnly)
  /\ UNCHANGED << head, status, thread, faults >>

Execute(i) ==
  \/ ValidateRefuses(i) \/ ValidateAccepts(i) \/ ValidateSetsPending(i) \/ Test(i)
  \/ ReportStatus(i) \/ FindComment(i) \/ ReportComment(i)

RunsInit ==
  /\ head = 0
  /\ runs = << >>
  /\ waiting = << >>
  /\ status = [sha \in Heads |-> "none"]
  /\ thread = << >>
  /\ faults = 0
  /\ env \in Environments
================================================================================
