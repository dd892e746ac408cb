----------------------------- MODULE CiController -----------------------------
(***************************************************************************)
(* The command mode of scripts/ci/ppu_ci_command.py on one pull request:   *)
(* the comments "/ci run", "/ci retry" and "/ci cancel", handled one at a  *)
(* time (concurrency group ppu-ci-command-<number>) by jobs that keep no   *)
(* state but what GitHub keeps, while the executor of CiRuns is at work.   *)
(*                                                                         *)
(* Not modelled: the wording of answers; how many commits a head is behind *)
(* its base, labels, reviews and permissions, which may refuse any command *)
(* (Refuse); reactions, which repeat what the marked comments say.         *)
(***************************************************************************)
EXTENDS CiRuns

CONSTANTS MaxCommands, MaxRedeliveries

ASSUME CommandAssumption ==
  /\ MaxCommands \in Nat /\ MaxRedeliveries \in Nat
  /\ MaxRuns >= MaxCommands + MaxRedeliveries

VARIABLES
  commands,   (* the comments posted so far; a comment's id is its index    *)
  queue,      (* ids of comments whose job waits                            *)
  ctl,        (* the job at work                                            *)
  failed,     (* ids whose job failed                                       *)
  redelivered (* jobs that were run again by hand                           *)

ctlVars == << commands, queue, failed, redelivered >>
vars == << runVars, ctlVars, ctl >>

Command == [action : {"run", "retry", "cancel"}, writer : BOOLEAN]

\* pc of the job; sha, tested and run: what it read; todo: runs to cancel;
\* then: where it goes when a failed request was cleared.
Job == [pc : {"idle", "begin", "list", "fresh", "launch", "post", "clear", "cancel",
              "cancelled", "reply", "fallback"},
        cid : 0 .. MaxCommands, sha : Heads, tested : BOOLEAN, run : 0 .. MaxRuns,
        todo : SUBSET (1 .. MaxRuns), then : {"reply", "fallback"}]

Idle == [pc |-> "idle", cid |-> 0, sha |-> 0, tested |-> FALSE, run |-> 0, todo |-> {},
         then |-> "reply"]

At(pc) == ctl.pc = pc
Goto(pc) == ctl' = [ctl EXCEPT !.pc = pc]
Mine == commands[ctl.cid]

--------------------------------------------------------------------------------
\* A command is posted; its job waits for the jobs of earlier ones.
Post(c) ==
  /\ Len(commands) < MaxCommands
  /\ commands' = Append(commands, c)
  /\ queue' = Append(queue, Len(commands) + 1)
  /\ UNCHANGED << runVars, ctl, failed, redelivered >>

\* Somebody runs a failed job again.
Redeliver(cid) ==
  /\ cid \in failed
  /\ redelivered < MaxRedeliveries
  /\ redelivered' = redelivered + 1
  /\ failed' = failed \ {cid}
  /\ queue' = Append(queue, cid)
  /\ UNCHANGED << runVars, ctl, commands >>

Take ==
  /\ At("idle")
  /\ queue # << >>
  /\ ctl' = [Idle EXCEPT !.pc = "begin", !.cid = Head(queue)]
  /\ queue' = Tail(queue)
  /\ UNCHANGED << runVars, commands, failed, redelivered >>

\* MUTANT: a command that was answered before is handled again.
BeginAnew ==
  /\ At("begin")
  /\ ctl' = [ctl EXCEPT !.pc = "list", !.sha = head]
  /\ UNCHANGED << runVars, ctlVars >>

\* A marked comment ends the job; else the head is read.
Begin ==
  /\ At("begin")
  /\ IF Marked(ctl.cid) # {} THEN ctl' = Idle
     ELSE ctl' = [ctl EXCEPT !.pc = "list", !.sha = head]
  /\ UNCHANGED << runVars, ctlVars >>

\* authorize, the comparison with the base branch, and for a retry the expiry of
\* the wheels that the run built.
Refuse ==
  /\ At("list") \/ At("fresh")
  /\ Goto("reply")
  /\ UNCHANGED << runVars, ctlVars >>

Listed == {i \in Ids : runs[i].listed}
ListedOf(sha) == {i \in Listed : runs[i].sha = sha}

\* MUTANT: only runs that execute are active.
ListRunsExecuting ==
  LET found == ListedOf(ctl.sha) IN
  /\ At("list") /\ Mine.action = "run"
  /\ IF \E i \in found : runs[i].state \in Executing
     THEN Goto("reply")
     ELSE ctl' = [ctl EXCEPT !.pc = "fresh", !.tested = found # {}]
  /\ UNCHANGED << runVars, ctlVars >>

\* "/ci run": a run of this head that is not completed is the answer.
ListRuns ==
  LET found == ListedOf(ctl.sha) IN
  /\ At("list") /\ Mine.action = "run"
  /\ IF \E i \in found : Active(i)
     THEN Goto("reply")
     ELSE ctl' = [ctl EXCEPT !.pc = "fresh", !.tested = found # {}]
  /\ UNCHANGED << runVars, ctlVars >>

\* The head is read again; a tested head is run again for writers only.
Fresh ==
  /\ At("fresh")
  /\ IF head = ctl.sha /\ (ctl.tested => Mine.writer) THEN Goto("launch") ELSE Goto("reply")
  /\ UNCHANGED << runVars, ctlVars >>

\* "/ci retry": the newest run of this head, if it completed without success.
ListForRetry ==
  LET found == ListedOf(ctl.sha)
      newest == Max(found)
  IN
  /\ At("list") /\ Mine.action = "retry"
  /\ IF found = {} \/ Active(newest) \/ runs[newest].conclusion = "success"
     THEN Goto("reply")
     ELSE ctl' = [ctl EXCEPT !.pc = "launch", !.run = newest]
  /\ UNCHANGED << runVars, ctlVars >>

\* "/ci cancel": every run of the pull request that is not completed.
ListForCancel ==
  /\ At("list") /\ Mine.action = "cancel"
  /\ ctl' = [ctl EXCEPT !.pc = "cancel", !.todo = {i \in Listed : Active(i)}]
  /\ UNCHANGED << runVars, ctlVars >>

\* Any of the reads may fail.
ReadFails ==
  /\ At("begin") \/ At("list") \/ At("fresh")
  /\ Fault("read")
  /\ Goto("fallback")
  /\ UNCHANGED << head, runs, waiting, status, thread, ctlVars >>

--------------------------------------------------------------------------------
\* MUTANT: the status is left to the executor.
LaunchSilently ==
  /\ At("launch")
  /\ Goto("post")
  /\ UNCHANGED << runVars, ctlVars >>

\* launch: the head is pending before the request is made.
Launch ==
  /\ At("launch")
  /\ \/ /\ status' = [status EXCEPT ![ctl.sha] = "pending"]
        /\ Goto("post")
        /\ UNCHANGED faults
     \/ /\ Fault("status")
        /\ Goto("fallback")
        /\ UNCHANGED status
  /\ UNCHANGED << head, runs, waiting, thread, ctlVars >>

\* A request that GitHub refuses is explained; one without an answer, which it may
\* have accepted, fails the job.  Both clear the status first.
ClearThen(next) == ctl' = [ctl EXCEPT !.pc = "clear", !.then = next]

RequestRun ==
  /\ At("post") /\ Mine.action = "run"
  /\ \/ Dispatched(ctl.sha, ctl.cid) /\ Goto("reply") /\ UNCHANGED faults
     \/ Fault("dispatch") /\ ClearThen("reply") /\ UNCHANGED << runs, waiting >>
     \/ Fault("dispatch") /\ ClearThen("fallback") /\ UNCHANGED << runs, waiting >>
     \/ Fault("dispatch") /\ ClearThen("fallback") /\ Dispatched(ctl.sha, ctl.cid)
  /\ UNCHANGED << head, status, thread, ctlVars >>

\* GitHub re-runs what is completed, a limited number of times.
MayRerun == ~ Active(ctl.run) /\ runs[ctl.run].attempt < MaxAttempts

\* rerun-failed-jobs, and rerun where GitHub refuses that.
RequestRetry ==
  /\ At("post") /\ Mine.action = "retry"
  /\ \/ MayRerun /\ Rerun(ctl.run, TRUE) /\ Goto("reply") /\ UNCHANGED faults
     \/ MayRerun /\ Rerun(ctl.run, FALSE) /\ Goto("reply") /\ Fault("dispatch")
     \/ ~ MayRerun /\ ClearThen("reply") /\ UNCHANGED << runs, waiting, faults >>
     \/ Fault("dispatch") /\ ClearThen("reply") /\ UNCHANGED << runs, waiting >>
     \/ Fault("dispatch") /\ ClearThen("fallback") /\ UNCHANGED << runs, waiting >>
     \/ MayRerun /\ Fault("dispatch") /\ ClearThen("fallback") /\ Rerun(ctl.run, TRUE)
  /\ UNCHANGED << head, status, thread, ctlVars >>

\* MUTANT: a failed request leaves the status as it is.
ClearNothing ==
  /\ At("clear")
  /\ Goto(ctl.then)
  /\ UNCHANGED << runVars, ctlVars >>

Clear ==
  /\ At("clear")
  /\ \/ /\ status' = [status EXCEPT ![ctl.sha] = "error"]
        /\ Goto(ctl.then)
        /\ UNCHANGED faults
     \/ /\ Fault("status")
        /\ Goto("fallback")
        /\ UNCHANGED status
  /\ UNCHANGED << head, runs, waiting, thread, ctlVars >>

\* The newest run left is cancelled.  GitHub refuses when it is completed by now,
\* and the job fails with older runs still to cancel.
CancelRun ==
  /\ At("cancel")
  /\ \/ ctl.todo = {} /\ Goto("reply") /\ UNCHANGED << runs, faults >>
     \/ /\ ctl.todo # {}
        /\ LET i == Max(ctl.todo) IN
           \/ /\ Active(i)
              /\ runs' = [runs EXCEPT ![i].cancel = TRUE]
              /\ ctl' = [ctl EXCEPT !.pc = "cancelled", !.run = i]
              /\ UNCHANGED faults
           \/ ~ Active(i) /\ Goto("fallback") /\ UNCHANGED << runs, faults >>
           \/ Fault("cancel") /\ Goto("fallback") /\ UNCHANGED runs
  /\ UNCHANGED << head, waiting, status, thread, ctlVars >>

CancelStatus ==
  /\ At("cancelled")
  /\ \/ /\ status' = [status EXCEPT ![runs[ctl.run].sha] = "error"]
        /\ ctl' = [ctl EXCEPT !.pc = "cancel", !.todo = @ \ {ctl.run}]
        /\ UNCHANGED faults
     \/ Fault("status") /\ Goto("fallback") /\ UNCHANGED status
  /\ UNCHANGED << head, runs, waiting, thread, ctlVars >>

Answer == [cid |-> ctl.cid, run |-> 0, attempt |-> 0, state |-> "none"]

\* MUTANT: a comment that cannot be written is ignored.
ReplyBestEffort ==
  /\ At("reply")
  /\ \/ thread' = Append(thread, Answer) /\ UNCHANGED faults
     \/ Fault("comment") /\ UNCHANGED thread
  /\ ctl' = Idle
  /\ UNCHANGED << head, runs, waiting, status, ctlVars >>

\* The answer, after a launch delayed until the run is listed or 30 seconds passed.
Reply ==
  /\ At("reply")
  /\ \/ thread' = Append(thread, Answer) /\ ctl' = Idle /\ UNCHANGED faults
     \/ Fault("comment") /\ Goto("fallback") /\ UNCHANGED thread
  /\ UNCHANGED << head, runs, waiting, status, ctlVars >>

\* The last step of run-ci-command.yml, for a job that failed.
Fallback ==
  /\ At("fallback")
  /\ \/ thread' = Append(thread, Answer) /\ UNCHANGED faults
     \/ Fault("comment") /\ UNCHANGED thread
  /\ ctl' = Idle
  /\ failed' = failed \cup {ctl.cid}
  /\ UNCHANGED << head, runs, waiting, status, commands, queue, redelivered >>

--------------------------------------------------------------------------------
Init ==
  /\ RunsInit
  /\ commands = << >>
  /\ queue = << >>
  /\ ctl = Idle
  /\ failed = {}
  /\ redelivered = 0

Control ==
  \/ Take \/ Begin \/ Refuse \/ ListRuns \/ Fresh \/ ListForRetry \/ ListForCancel
  \/ ReadFails \/ Launch \/ RequestRun \/ RequestRetry \/ Clear \/ CancelRun
  \/ CancelStatus \/ Reply \/ Fallback

\* What the runners and GitHub do by themselves with run i.
Work(i) == Execute(i) \/ Stop(i) \/ Appear(i)

Next ==
  /\ UNCHANGED env
  /\ \/ Control
     \/ \E c \in Command : Post(c)
     \/ \E cid \in failed : Redeliver(cid)
     \/ (Start \/ Push \/ \E i \in Ids : Work(i) \/ NativeRerun(i)) /\ UNCHANGED << ctlVars, ctl >>

Spec == Init /\ [][Next]_<< vars, env >>

\* Runners are found, jobs end, runs appear in the list.
FairSpec ==
  /\ Spec
  /\ WF_vars(Control)
  /\ WF_vars(Start /\ UNCHANGED << ctlVars, ctl >>)
  /\ \A i \in 1 .. MaxRuns :
       WF_vars(i \in Ids /\ (Execute(i) \/ Stop(i)) /\ UNCHANGED << ctlVars, ctl >>)

--------------------------------------------------------------------------------
\* "PPU CI already running": a head is not tested twice at the same time, for
\* every interleaving of commands and executors, also when a request was accepted
\* but looked like a failure.
OneActiveRunPerHead ==
  \A i, j \in Ids : Active(i) /\ Active(j) /\ runs[i].sha = runs[j].sha => i = j

\* A head never counts as passed while a run of it is still to report.
NotGreenWhileTesting ==
  \A i \in Ids :
    Active(i) /\ runs[i].state \notin {"reported", "found"} => status[runs[i].sha] # "success"

\* A comment starts at most one run, also when its job failed after the request and was
\* run again.  Two failing calls can break it: the controller's comment and that of the
\* fallback, with a push before the job is run again.
OneRunPerComment == \A i, j \in Ids : runs[i].cid = runs[j].cid => i = j

AtRest == /\ ctl.pc = "idle" /\ queue = << >>
          /\ \A i \in Ids : ~ Active(i) /\ runs[i].listed

\* Whatever the order of the controller's answer, the results and the retries, a
\* comment shows how the last attempt ended.
LastResultIsShown ==
  AtRest /\ faults = 0 =>
    \A i \in Ids : runs[i].conclusion # "cancelled" =>
      \E k \in DOMAIN thread : thread[k] = ResultOf(i)

\* CONTRIBUTING.md: "others should use `/ci retry` for failures".
RetryForFailures ==
  AtRest /\ status[head] = "failure" =>
    LET newest == Max({i \in Ids : runs[i].sha = head}) IN
    runs[newest].conclusion # "success"

\* A pending status is replaced by a final one, whatever request fails, unless it
\* is a call that writes the status itself.
PendingSettles ==
  \A sha \in Heads : status[sha] = "pending" ~> status[sha] # "pending"

\* No command is dropped in silence: it is answered by a comment, or its job is
\* one that failed and can be run again.
CommandsAreAnswered ==
  \A cid \in 1 .. MaxCommands :
    cid \in DOMAIN commands ~> Marked(cid) # {} \/ cid \in failed
================================================================================
