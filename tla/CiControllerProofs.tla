--------------------------- MODULE CiControllerProofs ---------------------------
(***************************************************************************)
(* What the command controller guarantees, for every number of commands,   *)
(* pushes, re-delivered jobs and attempts.                                 *)
(*                                                                         *)
(* While GitHub's list shows every run and nobody uses GitHub's own re-run *)
(* controls, and whatever calls fail: a head is tested by one run at a     *)
(* time, and is not shown as passed while it is tested.                    *)
(*                                                                         *)
(* In every environment: while no call failed, a comment shows how the     *)
(* last attempt of every run ended; while at most one did, a comment has   *)
(* started at most one run.                                                *)
(***************************************************************************)
EXTENDS CiController, SequenceTheorems, WellFoundedInduction, TLAPS

\* The environments in which the controller is the only one to start runs, and sees
\* every run it started.
Supervised == \A e \in Environments : ~ e.lag /\ ~ e.native

States == {"none", "pending", "success", "failure", "error"}

RunShape ==
  [sha : Heads, cid : Nat, attempt : Nat,
   state : Executing \cup {"queued", "completed"},
   validate : Results, ppu : Results, conclusion : Results,
   cancel : BOOLEAN, listed : {TRUE}, reply : Nat]

JobShape ==
  [pc : {"idle", "begin", "list", "fresh", "launch", "post", "clear", "cancel",
         "cancelled", "reply", "fallback"},
   cid : Nat, sha : Heads, tested : BOOLEAN, run : Nat, todo : SUBSET Nat,
   then : {"reply", "fallback"}]

Comments == [cid : Nat, run : Nat, attempt : Nat, state : States]

ThreadTyped == thread \in Seq(Comments)

RunsTyped ==
  /\ env \in Environments
  /\ head \in Heads
  /\ runs \in Seq(RunShape)
  /\ status \in [Heads -> States]
  /\ waiting \in Seq(Nat)

\* The queue of the group holds queued runs, each once.
QueueIsOfQueued ==
  \A k \in 1 .. Len(waiting) :
    /\ waiting[k] \in 1 .. Len(runs)
    /\ runs[waiting[k]].state = "queued"
    /\ \A m \in 1 .. Len(waiting) : waiting[m] = waiting[k] => m = k

\* Only the newest run of a head can be active.
NewestIsActive ==
  \A i, j \in 1 .. Len(runs) : Active(i) /\ runs[j].sha = runs[i].sha => j <= i

Testing(i) == Active(i) /\ runs[i].state \notin {"reported", "found"}

GreenIsFinal == \A i \in 1 .. Len(runs) : Testing(i) => status[runs[i].sha] # "success"

RunsSound == RunsTyped /\ QueueIsOfQueued /\ NewestIsActive /\ GreenIsFinal

JobTyped ==
  /\ commands \in Seq(Command)
  /\ queue \in Seq(1 .. Len(commands))
  /\ failed \subseteq 1 .. Len(commands)
  /\ ctl \in JobShape
  /\ ctl.pc # "idle" => ctl.cid \in 1 .. Len(commands)

Quiet(sha) == \A i \in 1 .. Len(runs) : Active(i) => runs[i].sha # sha

\* Between the listing and the request, what the job read is still so: runs of its
\* head only start by its own request.
JobKnows ==
  /\ ctl.pc \in {"fresh", "launch", "post"} => Quiet(ctl.sha)
  /\ ctl.pc = "fresh" => Mine.action = "run"
  /\ ctl.pc \in {"launch", "post"} /\ Mine.action = "retry" =>
       /\ ctl.run \in 1 .. Len(runs)
       /\ runs[ctl.run].sha = ctl.sha
       /\ \A j \in 1 .. Len(runs) : runs[j].sha = ctl.sha => j <= ctl.run
  /\ ctl.pc = "post" => status[ctl.sha] # "success"
  /\ ctl.pc \in {"cancel", "cancelled"} => ctl.todo \subseteq 1 .. Len(runs)

CiInv == RunsSound /\ ThreadTyped /\ JobTyped /\ JobKnows

--------------------------------------------------------------------------------
(* Sequences.                                                                  *)

LEMMA RemovedAt ==
  ASSUME NEW S, NEW s \in Seq(S), NEW k \in 1 .. Len(s)
  PROVE  /\ RemoveAt(s, k) \in Seq(S)
         /\ Len(RemoveAt(s, k)) = Len(s) - 1
         /\ \A j \in 1 .. Len(s) - 1 : RemoveAt(s, k)[j] = s[IF j < k THEN j ELSE j + 1]
<1> DEFINE a == SubSeq(s, 1, k - 1)
           b == SubSeq(s, k + 1, Len(s))
<1>1. Len(s) \in Nat
  BY LenProperties
<1>2. a \in Seq(S) /\ Len(a) = k - 1 /\ \A j \in 1 .. k - 1 : a[j] = s[j]
  BY <1>1, SubSeqProperties
<1>3. b \in Seq(S) /\ Len(b) = Len(s) - k /\ \A j \in 1 .. Len(s) - k : b[j] = s[j + k]
  BY <1>1, SubSeqProperties
<1> HIDE DEF a, b
<1>4. /\ a \o b \in Seq(S) /\ Len(a \o b) = Len(a) + Len(b)
      /\ \A j \in 1 .. Len(a) + Len(b) :
           (a \o b)[j] = IF j <= Len(a) THEN a[j] ELSE b[j - Len(a)]
  BY <1>2, <1>3, ConcatProperties, Zenon
<1>5. \A j \in 1 .. Len(s) - 1 : (a \o b)[j] = s[IF j < k THEN j ELSE j + 1]
  BY <1>1, <1>2, <1>3, <1>4
<1>6. RemoveAt(s, k) = a \o b
  BY DEF RemoveAt, a, b
<1>7. Len(a \o b) = Len(s) - 1
  BY <1>1, <1>2, <1>3, <1>4
<1>8. QED
  BY <1>4, <1>5, <1>6, <1>7

LEMMA LeastElement ==
  ASSUME NEW T, T \subseteq Nat, T # {}
  PROVE  \E n \in T : \A m \in T : n <= m
<1>1. PICK x \in T : \A y \in T : ~ (<< y, x >> \in OpToRel(<, Nat))
  BY NatLessThanWellFounded, WFMin
<1>2. ASSUME NEW m \in T PROVE x <= m
  <2>1. ~ (<< m, x >> \in {ss \in Nat \X Nat : ss[1] < ss[2]})
    BY <1>1 DEF OpToRel
  <2>2. QED
    BY <2>1
<1>3. QED
  BY <1>2

\* A set of ids that is not empty has a largest element.
LEMMA LargestId ==
  ASSUME NEW n \in Nat, NEW T, T \subseteq 1 .. n, T # {}
  PROVE  Max(T) \in T /\ \A x \in T : x <= Max(T)
<1> DEFINE U == {n - x : x \in T}
<1>1. U \subseteq Nat /\ U # {}
  OBVIOUS
<1>2. PICK u \in U : \A v \in U : u <= v
  BY <1>1, LeastElement
<1>3. PICK x \in T : u = n - x
  BY <1>2
<1>4. ASSUME NEW y \in T PROVE x >= y
  <2>1. n - y \in U
    OBVIOUS
  <2>2. n - x <= n - y /\ x \in 1 .. n /\ y \in 1 .. n
    BY <1>2, <1>3, <2>1
  <2>3. QED
    BY <2>2
<1>5. Max(T) \in T /\ \A y \in T : Max(T) >= y
  BY <1>3, <1>4 DEF Max
<1>6. Max(T) \in 1 .. n /\ \A y \in T : y \in 1 .. n
  BY <1>5
<1>7. QED
  BY <1>5, <1>6

--------------------------------------------------------------------------------
(* What a step of a run, which the executor takes by itself, may change.       *)

\* The step of run i: it touches this run only, starts nothing and takes back no result.
Advances(i) ==
  /\ i \in 1 .. Len(runs)
  /\ runs' \in Seq(RunShape)
  /\ Len(runs') = Len(runs)
  /\ \A j \in 1 .. Len(runs) : runs'[j].sha = runs[j].sha /\ (j # i => runs'[j] = runs[j])
  /\ runs'[i].state # "completed" => runs[i].state # "completed"
  /\ runs'[i].state \notin {"completed", "reported", "found"}
       => runs[i].state \notin {"completed", "reported", "found"}

\* A success is only written by a run that was active, and that has then reported.
Writes(i) ==
  /\ status' \in [Heads -> States]
  /\ \A sha \in Heads :
       \/ status'[sha] = status[sha]
       \/ status'[sha] # "success"
       \/ sha = runs[i].sha /\ Active(i) /\ runs'[i].state = "reported"

LEMMA KeepsQueue ==
  ASSUME RunsSound, NEW i, Advances(i), waiting' = waiting,
         runs[i].state # "queued" \/ runs'[i].state = "queued"
  PROVE  waiting' \in Seq(Nat) /\ QueueIsOfQueued'
<1>1. waiting' \in Seq(Nat)
  BY DEF RunsSound, RunsTyped
<1>2. ASSUME NEW k \in 1 .. Len(waiting)
      PROVE  waiting[k] \in 1 .. Len(runs) /\ runs'[waiting[k]].state = "queued"
  BY DEF RunsSound, QueueIsOfQueued, Advances
<1>3. QED
  BY <1>1, <1>2 DEF RunsSound, QueueIsOfQueued, Advances

LEMMA RunTyped ==
  ASSUME RunsTyped, NEW j \in 1 .. Len(runs)
  PROVE  runs[j] \in RunShape /\ runs[j].sha \in Heads
<1>1. runs[j] \in RunShape
  BY ElementOfSeq DEF RunsTyped
<1>2. QED
  BY <1>1 DEF RunShape

LEMMA WorkKeepsRuns ==
  ASSUME RunsSound, NEW i, Advances(i), Writes(i), waiting' \in Seq(Nat), QueueIsOfQueued',
         head' \in Heads, env' = env
  PROVE  RunsSound'
<1>1. RunsTyped'
  BY DEF RunsSound, RunsTyped, Advances, Writes
<1>2. ASSUME NEW j \in 1 .. Len(runs) PROVE Active(j)' => Active(j)
  BY DEF Active, Advances
<1>3. NewestIsActive'
  BY <1>2 DEF RunsSound, NewestIsActive, Advances
<1>4. ASSUME NEW j \in 1 .. Len(runs), Testing(j)' PROVE status'[runs'[j].sha] # "success"
  <2>1. runs'[j].sha = runs[j].sha /\ runs[j].sha \in Heads
    BY RunTyped DEF RunsSound, Advances
  <2>2. Testing(j)
    BY <1>4 DEF Testing, Active, Advances
  <2>3. status[runs[j].sha] # "success"
    BY <2>2 DEF RunsSound, GreenIsFinal
  <2>4. CASE runs[j].sha = runs[i].sha /\ Active(i) /\ runs'[i].state = "reported"
    <3>1. Len(runs) \in Nat /\ i \in 1 .. Len(runs)
      BY LenProperties DEF RunsSound, RunsTyped, Advances
    <3>2. i <= j /\ j <= i
      BY <2>2, <2>4, <3>1 DEF RunsSound, NewestIsActive, Testing
    <3>3. QED
      BY <1>4, <2>4, <3>1, <3>2 DEF Testing, Active
  <2>5. QED
    BY <2>1, <2>3, <2>4 DEF Writes
<1>5. GreenIsFinal'
  BY <1>4 DEF GreenIsFinal, Advances
<1>6. QED
  BY <1>1, <1>3, <1>5 DEF RunsSound

LEMMA WorkKeepsJob ==
  ASSUME CiInv, NEW i, Advances(i), Writes(i), UNCHANGED << ctlVars, ctl >>
  PROVE  JobTyped' /\ JobKnows'
<1>1. /\ JobTyped' /\ Mine' = Mine
      /\ ctl' = ctl /\ Len(runs') = Len(runs)
  BY DEF CiInv, JobTyped, Mine, ctlVars, Advances
<1>2. ASSUME Quiet(ctl.sha) PROVE Quiet(ctl.sha)'
  BY <1>1, <1>2 DEF Quiet, Active, Advances
<1>3. ASSUME ctl.pc = "post" PROVE status'[ctl.sha] # "success"
  <2>1. ctl.sha \in Heads
    BY DEF CiInv, JobTyped, JobShape
  <2>2. Quiet(ctl.sha) /\ status[ctl.sha] # "success"
    BY <1>3 DEF CiInv, JobKnows
  <2>3. QED
    BY <2>1, <2>2 DEF Writes, Quiet, Advances
<1>4. QED
  BY <1>1, <1>2, <1>3 DEF CiInv, JobKnows, Advances

LEMMA WorkIsSound ==
  ASSUME CiInv, NEW i, Advances(i), Writes(i), waiting' \in Seq(Nat), QueueIsOfQueued',
         ThreadTyped', head' \in Heads, env' = env, UNCHANGED << ctlVars, ctl >>
  PROVE  CiInv'
BY WorkKeepsRuns, WorkKeepsJob DEF CiInv

\* A status that nobody writes, or that becomes pending.
LEMMA NothingGreen ==
  ASSUME RunsTyped, NEW i, \/ status' = status
                           \/ \E sha : \E s \in States \ {"success"} : status' = [status EXCEPT ![sha] = s]
  PROVE  Writes(i)
BY DEF RunsTyped, Writes

\* The record of a run is replaced by one of the same head.
LEMMA Advanced ==
  ASSUME RunsTyped, NEW i \in 1 .. Len(runs), NEW r \in RunShape,
         runs' = [runs EXCEPT ![i] = r],
         r.sha = runs[i].sha,
         r.state # "completed" => runs[i].state # "completed",
         r.state \notin {"completed", "reported", "found"}
           => runs[i].state \notin {"completed", "reported", "found"}
  PROVE  Advances(i) /\ runs'[i] = r
<1>1. /\ runs' \in Seq(RunShape) /\ Len(runs') = Len(runs)
      /\ \A j \in 1 .. Len(runs) : runs'[j] = IF j = i THEN r ELSE runs[j]
  BY ExceptSeq DEF RunsTyped
<1>2. QED
  BY <1>1 DEF Advances

LEMMA OutcomeType == ASSUME NEW r PROVE Outcome(r) \in States
BY DEF Outcome, States

LEMMA ThreadKept ==
  ASSUME CiInv, NEW c \in Comments,
         \/ thread' = thread
         \/ thread' = Append(thread, c)
         \/ \E k \in Nat : thread' = [thread EXCEPT ![k] = c]
  PROVE  ThreadTyped'
<1>1. CASE thread' = thread
  BY <1>1 DEF CiInv, ThreadTyped
<1>2. CASE thread' = Append(thread, c)
  BY <1>2, AppendProperties DEF CiInv, ThreadTyped
<1>3. ASSUME NEW k \in Nat, thread' = [thread EXCEPT ![k] = c] PROVE ThreadTyped'
  <2>1. CASE k \in 1 .. Len(thread)
    BY <1>3, <2>1, ExceptSeq DEF CiInv, ThreadTyped
  <2>2. CASE k \notin 1 .. Len(thread)
    <3>1. thread' = thread
      BY <1>3, <2>2 DEF CiInv, ThreadTyped
    <3>2. QED
      BY <3>1 DEF CiInv, ThreadTyped
  <2>3. QED
    BY <2>1, <2>2
<1>4. QED
  BY <1>1, <1>2, <1>3

LEMMA FoundType == ASSUME CiInv, NEW cid PROVE FirstMarked(cid) \in Nat
<1>1. Marked(cid) \subseteq Nat
  BY LenProperties DEF CiInv, ThreadTyped, Marked
<1>2. CASE Marked(cid) # {}
  <2>1. PICK n \in Marked(cid) : \A m \in Marked(cid) : n <= m
    BY <1>1, <1>2, LeastElement
  <2>2. Min(Marked(cid)) \in Marked(cid)
    BY <2>1 DEF Min
  <2>3. QED
    BY <1>1, <1>2, <2>2 DEF FirstMarked
<1>3. QED
  BY <1>2 DEF FirstMarked

--------------------------------------------------------------------------------
(* The executor.                                                               *)

\* The steps that touch neither the status nor the thread: what is left to show is
\* the new record.
LEMMA StepOfRun ==
  ASSUME CiInv, NEW i \in 1 .. Len(runs), NEW r \in RunShape,
         runs' = [runs EXCEPT ![i] = r],
         r.sha = runs[i].sha,
         r.state # "completed" => runs[i].state # "completed",
         r.state \notin {"completed", "reported", "found"}
           => runs[i].state \notin {"completed", "reported", "found"},
         runs[i].state # "queued" \/ r.state = "queued",
         Writes(i), ThreadTyped', waiting' = waiting, head' = head, env' = env,
         UNCHANGED << ctlVars, ctl >>
  PROVE  CiInv'
<1>1. Advances(i) /\ runs'[i] = r /\ RunsSound /\ head' \in Heads
  BY Advanced DEF CiInv, RunsSound, RunsTyped
<1>2. waiting' \in Seq(Nat) /\ QueueIsOfQueued'
  BY <1>1, KeepsQueue
<1>3. QED
  BY <1>1, <1>2, WorkIsSound

LEMMA ExecuteIsSound ==
  ASSUME CiInv, NEW i \in 1 .. Len(runs), Execute(i), env' = env, UNCHANGED << ctlVars, ctl >>
  PROVE  CiInv'
<1>0. RunsTyped /\ runs[i] \in RunShape /\ "success" \in Results /\ "failure" \in Results
      /\ "cancelled" \in Results /\ "skipped" \in Results
  BY RunTyped DEF CiInv, RunsSound, Results
<1>1. status' = status => Writes(i)
  BY <1>0, NothingGreen
<1>2. thread' = thread => ThreadTyped'
  BY DEF CiInv, ThreadTyped
<1>3. CASE ValidateRefuses(i)
  <2> DEFINE r == [runs[i] EXCEPT !.validate = "failure", !.ppu = "skipped", !.state = "report"]
  <2>1. r \in RunShape /\ r.sha = runs[i].sha /\ r.state = "report"
    BY <1>0 DEF RunShape, Executing
  <2>2. /\ runs' = [runs EXCEPT ![i] = r] /\ runs[i].state = "validate"
        /\ UNCHANGED << head, waiting, status, thread >>
    BY <1>3 DEF ValidateRefuses
  <2> HIDE DEF r
  <2>3. QED
    BY <1>1, <1>2, <2>1, <2>2, StepOfRun
<1>4. CASE ValidateAccepts(i)
  <2> DEFINE r == [runs[i] EXCEPT !.state = "checked"]
  <2>1. r \in RunShape /\ r.sha = runs[i].sha /\ r.state = "checked"
    BY <1>0 DEF RunShape, Executing
  <2>2. /\ runs' = [runs EXCEPT ![i] = r] /\ runs[i].state = "validate"
        /\ UNCHANGED << head, waiting, status, thread >>
    BY <1>4 DEF ValidateAccepts
  <2> HIDE DEF r
  <2>3. QED
    BY <1>1, <1>2, <2>1, <2>2, StepOfRun
<1>5. CASE ValidateSetsPending(i)
  <2> DEFINE r == [runs[i] EXCEPT !.validate = "success", !.state = "ppu"]
             q == [runs[i] EXCEPT !.validate = "failure", !.ppu = "skipped", !.state = "report"]
  <2>1. r \in RunShape /\ r.sha = runs[i].sha /\ r.state = "ppu"
    BY <1>0 DEF RunShape, Executing
  <2>2. q \in RunShape /\ q.sha = runs[i].sha /\ q.state = "report"
    BY <1>0 DEF RunShape, Executing
  <2>3. /\ runs[i].state = "checked" /\ UNCHANGED << head, waiting, thread >>
        /\ \/ status' = [status EXCEPT ![runs[i].sha] = "pending"] /\ runs' = [runs EXCEPT ![i] = r]
           \/ status' = status /\ runs' = [runs EXCEPT ![i] = q]
    BY <1>5 DEF ValidateSetsPending
  <2>4. status' = [status EXCEPT ![runs[i].sha] = "pending"] => Writes(i)
    BY <1>0, NothingGreen DEF States
  <2> HIDE DEF r, q
  <2>5. CASE runs' = [runs EXCEPT ![i] = r] /\ Writes(i)
    BY <1>2, <2>1, <2>3, <2>5, StepOfRun
  <2>6. CASE runs' = [runs EXCEPT ![i] = q] /\ Writes(i)
    BY <1>2, <2>2, <2>3, <2>6, StepOfRun
  <2>7. QED
    BY <1>1, <2>3, <2>4, <2>5, <2>6
<1>6. CASE Test(i)
  <2>1. PICK result \in {"success", "failure"} :
          runs' = [runs EXCEPT ![i].ppu = result, ![i].state = "report"]
    BY <1>6 DEF Test
  <2> DEFINE r == [runs[i] EXCEPT !.ppu = result, !.state = "report"]
  <2>2. r \in RunShape /\ r.sha = runs[i].sha /\ r.state = "report"
    BY <1>0, <2>1 DEF RunShape, Executing
  <2>3. /\ runs' = [runs EXCEPT ![i] = r] /\ runs[i].state = "ppu"
        /\ UNCHANGED << head, waiting, status, thread >>
    BY <1>6, <2>1 DEF Test
  <2> HIDE DEF r
  <2>4. QED
    BY <1>1, <1>2, <2>2, <2>3, StepOfRun
<1>7. CASE ReportStatus(i)
  <2> DEFINE r == [runs[i] EXCEPT !.state = "reported"]
             q == [runs[i] EXCEPT !.state = "completed", !.conclusion = "failure"]
  <2>1. r \in RunShape /\ r.sha = runs[i].sha /\ r.state = "reported"
    BY <1>0 DEF RunShape, Executing
  <2>2. q \in RunShape /\ q.sha = runs[i].sha /\ q.state = "completed"
    BY <1>0 DEF RunShape, Executing
  <2>3. /\ runs[i].state = "report" /\ UNCHANGED << head, waiting, thread >>
        /\ \/ /\ status' = [status EXCEPT ![runs[i].sha] = Outcome(runs[i])]
              /\ runs' = [runs EXCEPT ![i] = r]
           \/ status' = status /\ runs' = [runs EXCEPT ![i] = q]
    BY <1>7 DEF ReportStatus
  <2> HIDE DEF r, q
  <2>4. CASE /\ status' = [status EXCEPT ![runs[i].sha] = Outcome(runs[i])]
             /\ runs' = [runs EXCEPT ![i] = r]
    <3>1. Advances(i) /\ runs'[i] = r
      BY <1>0, <2>1, <2>3, <2>4, Advanced
    <3>2. Writes(i)
      BY <1>0, <2>1, <2>3, <2>4, <3>1, OutcomeType DEF Writes, RunsTyped, Active
    <3>3. QED
      BY <1>2, <2>1, <2>3, <2>4, <3>2, StepOfRun
  <2>5. CASE status' = status /\ runs' = [runs EXCEPT ![i] = q]
    BY <1>1, <1>2, <2>2, <2>3, <2>5, StepOfRun
  <2>6. QED
    BY <2>3, <2>4, <2>5
<1>8. CASE FindComment(i)
  <2> DEFINE r == [runs[i] EXCEPT !.reply = FirstMarked(runs[i].cid), !.state = "found"]
  <2>1. r \in RunShape /\ r.sha = runs[i].sha /\ r.state = "found"
    BY <1>0, FoundType DEF RunShape, Executing
  <2>2. /\ runs' = [runs EXCEPT ![i] = r] /\ runs[i].state = "reported"
        /\ UNCHANGED << head, waiting, status, thread >>
    BY <1>8 DEF FindComment
  <2> HIDE DEF r
  <2>3. QED
    BY <1>1, <1>2, <2>1, <2>2, StepOfRun
<1>9. CASE ReportComment(i)
  <2>1. PICK c \in Conclusions(runs[i]) :
          runs' = [runs EXCEPT ![i].state = "completed", ![i].conclusion = c]
    BY <1>9 DEF ReportComment
  <2>2. c \in Results
    BY <2>1 DEF Conclusions, Outcome, Results
  <2> DEFINE r == [runs[i] EXCEPT !.state = "completed", !.conclusion = c]
  <2>3. r \in RunShape /\ r.sha = runs[i].sha /\ r.state = "completed"
    BY <1>0, <2>2 DEF RunShape, Executing
  <2>4. /\ runs' = [runs EXCEPT ![i] = r] /\ runs[i].state = "found"
        /\ UNCHANGED << head, waiting, status >>
        /\ \/ thread' = thread
           \/ thread' = Append(thread, ResultOf(i))
           \/ thread' = [thread EXCEPT ![runs[i].reply] = ResultOf(i)]
    BY <1>9, <2>1 DEF ReportComment
  <2>5. ResultOf(i) \in Comments /\ runs[i].reply \in Nat
    <3>1. i \in Nat
      BY LenProperties
    <3>2. runs[i].cid \in Nat /\ runs[i].attempt \in Nat /\ runs[i].reply \in Nat
      BY <1>0 DEF RunShape
    <3>3. QED
      BY <3>1, <3>2, OutcomeType DEF ResultOf, Comments
  <2>6. ThreadTyped'
    BY <2>4, <2>5, ThreadKept
  <2> HIDE DEF r
  <2>7. QED
    BY <1>1, <2>3, <2>4, <2>6, StepOfRun
<1>10. QED
  BY <1>3, <1>4, <1>5, <1>6, <1>7, <1>8, <1>9 DEF Execute

LEMMA StopIsSound ==
  ASSUME CiInv, NEW i \in 1 .. Len(runs), Stop(i), env' = env, UNCHANGED << ctlVars, ctl >>
  PROVE  CiInv'
<1>0. RunsTyped /\ runs[i] \in RunShape /\ "cancelled" \in Results /\ "skipped" \in Results
  BY RunTyped DEF CiInv, RunsSound, Results
<1>1. /\ UNCHANGED << head, status, thread >>
      /\ Writes(i) /\ ThreadTyped' /\ head' \in Heads
  BY <1>0, NothingGreen DEF Stop, CiInv, ThreadTyped, RunsTyped
<1>2. CASE /\ runs[i].state = "queued"
           /\ runs' = [runs EXCEPT ![i].state = "completed", ![i].conclusion = "cancelled"]
           /\ \E k \in DOMAIN waiting : waiting[k] = i /\ waiting' = RemoveAt(waiting, k)
  <2> DEFINE r == [runs[i] EXCEPT !.state = "completed", !.conclusion = "cancelled"]
  <2>1. r \in RunShape /\ r.sha = runs[i].sha /\ r.state = "completed"
    BY <1>0 DEF RunShape, Executing
  <2>2. runs' = [runs EXCEPT ![i] = r]
    BY <1>2
  <2> HIDE DEF r
  <2>3. Advances(i)
    BY <1>0, <2>1, <2>2, Advanced
  <2>4. waiting \in Seq(Nat) /\ Len(waiting) \in Nat
    BY <1>0, LenProperties DEF RunsTyped
  <2>5. PICK k \in 1 .. Len(waiting) : waiting[k] = i /\ waiting' = RemoveAt(waiting, k)
    BY <1>2, <2>4
  <2>6. /\ waiting' \in Seq(Nat) /\ Len(waiting') = Len(waiting) - 1
        /\ \A j \in 1 .. Len(waiting) - 1 : waiting'[j] = waiting[IF j < k THEN j ELSE j + 1]
    BY <2>4, <2>5, RemovedAt
  <2>7. ASSUME NEW j \in 1 .. Len(waiting')
        PROVE  /\ waiting'[j] \in 1 .. Len(runs)' /\ runs'[waiting'[j]].state = "queued"
               /\ \A m \in 1 .. Len(waiting') : waiting'[m] = waiting'[j] => m = j
    <3> DEFINE at(x) == IF x < k THEN x ELSE x + 1
    <3>1. \A x \in 1 .. Len(waiting') : at(x) \in 1 .. Len(waiting) /\ at(x) # k
                                        /\ waiting'[x] = waiting[at(x)]
      <4> SUFFICES ASSUME NEW x \in 1 .. Len(waiting')
                   PROVE  /\ at(x) \in 1 .. Len(waiting) /\ at(x) # k
                          /\ waiting'[x] = waiting[at(x)]
        OBVIOUS
      <4>1. x \in 1 .. Len(waiting) - 1 /\ k \in 1 .. Len(waiting)
        BY <2>6
      <4>2. waiting'[x] = waiting[at(x)]
        BY <2>6, <4>1
      <4>3. at(x) \in 1 .. Len(waiting) /\ at(x) # k
        BY <2>4, <4>1
      <4>4. QED
        BY <4>2, <4>3
    <3>2. \A x \in 1 .. Len(waiting') : at(x) = at(j) => x = j
      BY <2>4, <2>5, <2>6
    <3> HIDE DEF at
    <3>3. /\ waiting[at(j)] \in 1 .. Len(runs) /\ runs[waiting[at(j)]].state = "queued"
          /\ waiting[at(j)] # i
          /\ \A m \in 1 .. Len(waiting) : waiting[m] = waiting[at(j)] => m = at(j)
      BY <2>5, <3>1 DEF CiInv, RunsSound, QueueIsOfQueued
    <3>4. QED
      BY <2>3, <3>1, <3>2, <3>3 DEF Advances
  <2>8. QueueIsOfQueued'
    BY <2>7 DEF QueueIsOfQueued
  <2>9. QED
    BY <1>1, <2>3, <2>6, <2>8, WorkIsSound
<1>3. CASE /\ runs[i].state \in {"validate", "checked"} /\ waiting' = waiting
           /\ runs' = [runs EXCEPT ![i].validate = "cancelled", ![i].ppu = "skipped",
                                   ![i].state = "report"]
  <2> DEFINE r == [runs[i] EXCEPT !.validate = "cancelled", !.ppu = "skipped", !.state = "report"]
  <2>1. r \in RunShape /\ r.sha = runs[i].sha /\ r.state = "report"
    BY <1>0 DEF RunShape, Executing
  <2>2. runs' = [runs EXCEPT ![i] = r]
    BY <1>3
  <2> HIDE DEF r
  <2>3. QED
    BY <1>1, <1>3, <2>1, <2>2, StepOfRun
<1>4. CASE /\ runs[i].state = "ppu" /\ waiting' = waiting
           /\ runs' = [runs EXCEPT ![i].ppu = "cancelled", ![i].state = "report"]
  <2> DEFINE r == [runs[i] EXCEPT !.ppu = "cancelled", !.state = "report"]
  <2>1. r \in RunShape /\ r.sha = runs[i].sha /\ r.state = "report"
    BY <1>0 DEF RunShape, Executing
  <2>2. runs' = [runs EXCEPT ![i] = r]
    BY <1>4
  <2> HIDE DEF r
  <2>3. QED
    BY <1>1, <1>4, <2>1, <2>2, StepOfRun
<1>5. QED
  BY <1>2, <1>3, <1>4 DEF Stop

LEMMA AppearIsSound ==
  ASSUME CiInv, NEW i \in 1 .. Len(runs), Appear(i), env' = env, UNCHANGED << ctlVars, ctl >>
  PROVE  CiInv'
BY RunTyped DEF CiInv, RunsSound, Appear, RunShape

\* The run at the head of the queue is queued, so that no run starts twice.
LEMMA StartIsSound ==
  ASSUME CiInv, Start, env' = env, UNCHANGED << ctlVars, ctl >>
  PROVE  CiInv'
<1> DEFINE i == Head(waiting)
           r == [runs[i] EXCEPT !.state = FirstJob(runs[i])]
<1>1. waiting \in Seq(Nat) /\ waiting # << >> /\ Len(waiting) \in Nat \ {0} /\ i = waiting[1]
  BY LenProperties, EmptySeq DEF CiInv, RunsSound, RunsTyped, Start
<1>2. i \in 1 .. Len(runs) /\ runs[i].state = "queued"
      /\ \A m \in 1 .. Len(waiting) : waiting[m] = i => m = 1
  <2>1. 1 \in 1 .. Len(waiting)
    BY <1>1
  <2>2. QED
    BY <1>1, <2>1 DEF CiInv, RunsSound, QueueIsOfQueued
<1>3. RunsTyped /\ runs[i] \in RunShape
  BY <1>2, RunTyped DEF CiInv, RunsSound
<1>4. r \in RunShape /\ r.sha = runs[i].sha /\ r.state \in {"validate", "ppu", "report"}
  BY <1>3 DEF RunShape, Executing, FirstJob
<1>5. /\ runs' = [runs EXCEPT ![i] = r] /\ waiting' = Tail(waiting)
      /\ UNCHANGED << head, status, thread >>
  BY DEF Start
<1> HIDE DEF i, r
<1>6. Advances(i) /\ Writes(i) /\ ThreadTyped' /\ head' \in Heads
  BY <1>2, <1>3, <1>4, <1>5, Advanced, NothingGreen DEF CiInv, ThreadTyped, RunsTyped
<1>7. /\ waiting' \in Seq(Nat) /\ Len(waiting') = Len(waiting) - 1
      /\ \A j \in 1 .. Len(waiting) - 1 : waiting'[j] = waiting[j + 1]
  BY <1>1, <1>5, HeadTailProperties
<1>8. ASSUME NEW j \in 1 .. Len(waiting')
      PROVE  /\ waiting'[j] \in 1 .. Len(runs)' /\ runs'[waiting'[j]].state = "queued"
             /\ \A m \in 1 .. Len(waiting') : waiting'[m] = waiting'[j] => m = j
  <2>1. \A x \in 1 .. Len(waiting') : x + 1 \in 1 .. Len(waiting) /\ x + 1 # 1
                                      /\ waiting'[x] = waiting[x + 1]
    BY <1>1, <1>7
  <2>2. /\ waiting[j + 1] \in 1 .. Len(runs) /\ runs[waiting[j + 1]].state = "queued"
        /\ waiting[j + 1] # i
        /\ \A m \in 1 .. Len(waiting) : waiting[m] = waiting[j + 1] => m = j + 1
    BY <1>2, <2>1 DEF CiInv, RunsSound, QueueIsOfQueued
  <2>3. waiting'[j] \in 1 .. Len(runs') /\ runs'[waiting'[j]].state = "queued"
    BY <1>6, <2>1, <2>2 DEF Advances
  <2>4. ASSUME NEW m \in 1 .. Len(waiting'), waiting'[m] = waiting'[j] PROVE m = j
    <3>1. m + 1 \in 1 .. Len(waiting) /\ waiting[m + 1] = waiting[j + 1]
      BY <2>1, <2>4
    <3>2. m + 1 = j + 1
      BY <2>2, <3>1
    <3>3. QED
      BY <3>2
  <2>5. QED
    BY <2>3, <2>4
<1>9. QueueIsOfQueued'
  BY <1>8 DEF QueueIsOfQueued
<1>10. QED
  BY <1>5, <1>6, <1>7, <1>9, WorkIsSound

--------------------------------------------------------------------------------
(* The controller.                                                             *)

Safe == {"idle", "begin", "list", "clear", "reply", "fallback"}

\* A step of the job to a place where it relies on nothing it read.
LEMMA JobMoves ==
  ASSUME CiInv, NEW j \in JobShape, ctl' = j,
         \/ j.pc \in Safe
         \/ j.pc \in {"cancel", "cancelled"} /\ j.todo \subseteq 1 .. Len(runs'),
         j.pc # "idle" => j.cid \in 1 .. Len(commands),
         UNCHANGED ctlVars
  PROVE  JobTyped' /\ JobKnows'
BY DEF CiInv, JobTyped, JobKnows, Safe, ctlVars

\* The controller writes "pending" and "error" only.
LEMMA StatusIsSound ==
  ASSUME CiInv, UNCHANGED << head, runs, waiting, env >>,
         \/ status' = status
         \/ \E sha : \E s \in States \ {"success"} : status' = [status EXCEPT ![sha] = s]
  PROVE  RunsSound'
<1>1. /\ status' \in [Heads -> States]
      /\ \A sha \in Heads : status'[sha] = status[sha] \/ status'[sha] # "success"
  BY DEF CiInv, RunsSound, RunsTyped
<1>2. \A j \in 1 .. Len(runs) : runs[j].sha \in Heads
  BY RunTyped DEF CiInv, RunsSound
<1>3. QED
  BY <1>1, <1>2 DEF CiInv, RunsSound, RunsTyped, QueueIsOfQueued, NewestIsActive, GreenIsFinal,
                    Active, Testing

\* The job at work, and where it may go without a change of anything else.
LEMMA JobAtWork ==
  ASSUME CiInv, ctl.pc # "idle"
  PROVE  /\ ctl \in JobShape /\ ctl.cid \in 1 .. Len(commands) /\ ctl.sha \in Heads
         /\ Idle \in JobShape /\ Idle.pc = "idle"
         /\ \A pc \in Safe : [ctl EXCEPT !.pc = pc] \in JobShape
                             /\ [ctl EXCEPT !.pc = pc].pc = pc
                             /\ [ctl EXCEPT !.pc = pc].cid = ctl.cid
<1>1. ctl \in JobShape /\ ctl.cid \in 1 .. Len(commands)
  BY DEF CiInv, JobTyped
<1>2. Idle \in JobShape /\ Idle.pc = "idle"
  BY CiAssumption DEF Idle, JobShape, Heads
<1>3. QED
  BY <1>1, <1>2 DEF JobShape, Safe

\* The job goes on, and writes at most a status that is not a success.
LEMMA JobStep ==
  ASSUME CiInv, ctl.pc # "idle", NEW pc \in Safe,
         Goto(pc) \/ ctl' = Idle,
         UNCHANGED << head, runs, waiting, env >>, UNCHANGED ctlVars, ThreadTyped',
         \/ status' = status
         \/ \E sha : \E s \in States \ {"success"} : status' = [status EXCEPT ![sha] = s]
  PROVE  CiInv'
<1>1. RunsSound'
  BY StatusIsSound
<1>2. JobTyped' /\ JobKnows'
  <2>1. CASE Goto(pc)
    BY <2>1, JobAtWork, JobMoves DEF Goto
  <2>2. CASE ctl' = Idle
    BY <2>2, JobAtWork, JobMoves DEF Safe
  <2>3. QED
    BY <2>1, <2>2
<1>3. QED
  BY <1>1, <1>2 DEF CiInv

LEMMA TakeIsSound == ASSUME CiInv, Take, env' = env PROVE CiInv'
<1>1. /\ queue \in Seq(1 .. Len(commands)) /\ queue # << >>
      /\ ctl' = [Idle EXCEPT !.pc = "begin", !.cid = Head(queue)] /\ queue' = Tail(queue)
      /\ UNCHANGED << head, runs, waiting, status, thread, commands, failed >>
  BY DEF CiInv, JobTyped, Take, runVars
<1>2. Head(queue) \in 1 .. Len(commands) /\ queue' \in Seq(1 .. Len(commands))
  BY <1>1, HeadTailProperties
<1>3. Head(queue) \in Nat
  BY <1>2, LenProperties DEF CiInv, JobTyped
<1>4. ctl' \in JobShape /\ ctl'.pc = "begin" /\ ctl'.cid = Head(queue)
  <2>1. Idle \in JobShape
    BY CiAssumption DEF Idle, JobShape, Heads
  <2>2. QED
    BY <1>1, <1>3, <2>1 DEF JobShape
<1>5. JobTyped' /\ JobKnows'
  BY <1>1, <1>2, <1>4 DEF CiInv, JobTyped, JobKnows
<1>6. RunsSound' /\ ThreadTyped'
  BY <1>1, StatusIsSound DEF CiInv, ThreadTyped
<1>7. QED
  BY <1>5, <1>6 DEF CiInv

LEMMA PostIsSound == ASSUME CiInv, NEW c \in Command, Post(c), env' = env PROVE CiInv'
<1>1. /\ commands' = Append(commands, c) /\ queue' = Append(queue, Len(commands) + 1)
      /\ UNCHANGED << head, runs, waiting, status, thread, ctl, failed >>
  BY DEF Post, runVars
<1>2. /\ commands' \in Seq(Command) /\ Len(commands') = Len(commands) + 1 /\ Len(commands) \in Nat
      /\ \A k \in 1 .. Len(commands) : commands'[k] = commands[k]
  BY <1>1, AppendProperties, LenProperties DEF CiInv, JobTyped
<1>3. queue' \in Seq(1 .. Len(commands'))
  <2>1. queue \in Seq(1 .. Len(commands'))
    BY <1>2, SeqMonotonic DEF CiInv, JobTyped
  <2>2. QED
    BY <1>1, <1>2, <2>1, AppendProperties
<1>4. JobTyped'
  BY <1>1, <1>2, <1>3 DEF CiInv, JobTyped
<1>5. JobKnows'
  <2>1. ctl.pc # "idle" => Mine' = Mine
    BY <1>1, <1>2 DEF CiInv, JobTyped, Mine
  <2>2. QED
    BY <1>1, <2>1 DEF CiInv, JobKnows, Quiet, Active
<1>6. RunsSound' /\ ThreadTyped'
  BY <1>1, StatusIsSound DEF CiInv, ThreadTyped
<1>7. QED
  BY <1>4, <1>5, <1>6 DEF CiInv

LEMMA RedeliverIsSound ==
  ASSUME CiInv, NEW cid \in failed, Redeliver(cid), env' = env
  PROVE  CiInv'
<1>1. /\ queue' = Append(queue, cid) /\ failed' = failed \ {cid}
      /\ UNCHANGED << head, runs, waiting, status, thread, ctl, commands >>
  BY DEF Redeliver, runVars
<1>2. queue' \in Seq(1 .. Len(commands))
  BY <1>1, AppendProperties DEF CiInv, JobTyped
<1>3. JobTyped' /\ JobKnows'
  BY <1>1, <1>2 DEF CiInv, JobTyped, JobKnows, Quiet, Active, Mine
<1>4. RunsSound' /\ ThreadTyped'
  BY <1>1, StatusIsSound DEF CiInv, ThreadTyped
<1>5. QED
  BY <1>3, <1>4 DEF CiInv

\* While the list shows every run, "no run found" and "the newest run found" are facts
\* about all runs of the head.
LEMMA ListIsComplete ==
  ASSUME CiInv, NEW sha
  PROVE  ListedOf(sha) = {i \in 1 .. Len(runs) : runs[i].sha = sha}
<1>1. \A i \in 1 .. Len(runs) : runs[i].listed
  BY RunTyped DEF CiInv, RunsSound, RunShape
<1>2. DOMAIN runs = 1 .. Len(runs)
  BY DEF CiInv, RunsSound, RunsTyped
<1>3. QED
  BY <1>1, <1>2 DEF ListedOf, Listed, Ids

LEMMA BeginIsSound == ASSUME CiInv, Begin, env' = env PROVE CiInv'
<1>0. ctl.pc = "begin" /\ UNCHANGED << head, runs, waiting, status, thread >> /\ UNCHANGED ctlVars
  BY DEF Begin, At, runVars
<1>1. CASE ctl' = Idle
  BY <1>0, <1>1, JobStep DEF Safe, CiInv, ThreadTyped
<1>2. CASE ctl' = [ctl EXCEPT !.pc = "list", !.sha = head]
  <2>1. ctl \in JobShape /\ ctl.cid \in 1 .. Len(commands) /\ head \in Heads
    BY <1>0, JobAtWork DEF CiInv, RunsSound, RunsTyped
  <2>2. ctl' \in JobShape /\ ctl'.pc = "list" /\ ctl'.cid = ctl.cid
    BY <1>2, <2>1 DEF JobShape
  <2>3. JobTyped' /\ JobKnows'
    BY <1>0, <2>1, <2>2, JobMoves DEF Safe
  <2>4. RunsSound' /\ ThreadTyped'
    BY <1>0, StatusIsSound DEF CiInv, ThreadTyped
  <2>5. QED
    BY <2>3, <2>4 DEF CiInv
<1>3. QED
  BY <1>1, <1>2 DEF Begin

LEMMA ReadsAreSound ==
  ASSUME CiInv, Refuse \/ ReadFails, env' = env
  PROVE  CiInv'
<1>1. /\ ctl.pc # "idle" /\ (Goto("reply") \/ Goto("fallback"))
      /\ UNCHANGED << head, runs, waiting, status, thread >> /\ UNCHANGED ctlVars
  BY DEF Refuse, ReadFails, At, runVars
<1>2. QED
  BY <1>1, JobStep DEF Safe, CiInv, ThreadTyped

LEMMA ListRunsIsSound == ASSUME CiInv, ListRuns, env' = env PROVE CiInv'
<1>0. /\ ctl.pc = "list" /\ Mine.action = "run"
      /\ UNCHANGED << head, runs, waiting, status, thread >> /\ UNCHANGED ctlVars
  BY DEF ListRuns, At, runVars
<1>1. CASE Goto("reply")
  BY <1>0, <1>1, JobStep DEF Safe, CiInv, ThreadTyped
<1>2. CASE /\ ~ \E i \in ListedOf(ctl.sha) : Active(i)
           /\ ctl' = [ctl EXCEPT !.pc = "fresh", !.tested = ListedOf(ctl.sha) # {}]
  <2>1. ctl \in JobShape /\ ctl.cid \in 1 .. Len(commands)
    BY <1>0, JobAtWork
  <2>2. ctl' \in JobShape /\ ctl'.pc = "fresh" /\ ctl'.cid = ctl.cid /\ ctl'.sha = ctl.sha
    BY <1>2, <2>1 DEF JobShape
  <2>3. Quiet(ctl.sha)
    BY <1>2, ListIsComplete DEF Quiet
  <2>4. JobTyped'
    BY <1>0, <2>1, <2>2 DEF CiInv, JobTyped, ctlVars
  <2>5. JobKnows'
    BY <1>0, <2>2, <2>3 DEF JobKnows, Quiet, Active, Mine, ctlVars
  <2>6. RunsSound' /\ ThreadTyped'
    BY <1>0, StatusIsSound DEF CiInv, ThreadTyped
  <2>7. QED
    BY <2>4, <2>5, <2>6 DEF CiInv
<1>3. QED
  BY <1>1, <1>2 DEF ListRuns

LEMMA FreshIsSound == ASSUME CiInv, Fresh, env' = env PROVE CiInv'
<1>0. /\ ctl.pc = "fresh" /\ (Goto("reply") \/ Goto("launch"))
      /\ UNCHANGED << head, runs, waiting, status, thread >> /\ UNCHANGED ctlVars
  BY DEF Fresh, At, runVars
<1>1. CASE Goto("reply")
  BY <1>0, <1>1, JobStep DEF Safe, CiInv, ThreadTyped
<1>2. CASE Goto("launch")
  <2>1. ctl \in JobShape /\ ctl.cid \in 1 .. Len(commands)
    BY <1>0, JobAtWork
  <2>2. ctl' \in JobShape /\ ctl'.pc = "launch" /\ ctl'.cid = ctl.cid /\ ctl'.sha = ctl.sha
    BY <1>2, <2>1 DEF JobShape, Goto
  <2>3. Quiet(ctl.sha) /\ Mine.action = "run"
    BY <1>0 DEF CiInv, JobKnows
  <2>4. JobTyped'
    BY <1>0, <2>1, <2>2 DEF CiInv, JobTyped, ctlVars
  <2>5. JobKnows'
    BY <1>0, <2>2, <2>3 DEF JobKnows, Quiet, Active, Mine, ctlVars
  <2>6. RunsSound' /\ ThreadTyped'
    BY <1>0, StatusIsSound DEF CiInv, ThreadTyped
  <2>7. QED
    BY <2>4, <2>5, <2>6 DEF CiInv
<1>3. QED
  BY <1>0, <1>1, <1>2

LEMMA ListForRetryIsSound == ASSUME CiInv, ListForRetry, env' = env PROVE CiInv'
<1> DEFINE found == ListedOf(ctl.sha)
           newest == Max(found)
<1>0. /\ ctl.pc = "list" /\ Mine.action = "retry"
      /\ UNCHANGED << head, runs, waiting, status, thread >> /\ UNCHANGED ctlVars
  BY DEF ListForRetry, At, runVars
<1>1. CASE Goto("reply")
  BY <1>0, <1>1, JobStep DEF Safe, CiInv, ThreadTyped
<1>2. CASE /\ found # {} /\ ~ Active(newest)
           /\ ctl' = [ctl EXCEPT !.pc = "launch", !.run = newest]
  <2>1. ctl \in JobShape /\ ctl.cid \in 1 .. Len(commands)
    BY <1>0, JobAtWork
  <2>2. Len(runs) \in Nat
    BY LenProperties DEF CiInv, RunsSound, RunsTyped
  <2>3. found = {i \in 1 .. Len(runs) : runs[i].sha = ctl.sha}
    BY ListIsComplete
  <2>4. newest \in found /\ \A i \in found : i <= newest
    <3>1. found \subseteq 1 .. Len(runs)
      BY <2>3
    <3> HIDE DEF found
    <3>2. QED
      BY <1>2, <2>2, <3>1, LargestId
  <2> HIDE DEF newest, found
  <2>5. /\ newest \in 1 .. Len(runs) /\ newest \in Nat /\ runs[newest].sha = ctl.sha
        /\ \A i \in 1 .. Len(runs) : runs[i].sha = ctl.sha => i <= newest
    BY <2>2, <2>3, <2>4
  <2>6. Quiet(ctl.sha)
    <3> SUFFICES ASSUME NEW i \in 1 .. Len(runs), Active(i), runs[i].sha = ctl.sha PROVE FALSE
      BY DEF Quiet
    <3>1. i <= newest /\ newest <= i
      BY <2>5 DEF CiInv, RunsSound, NewestIsActive
    <3>2. i = newest
      BY <2>2, <2>5, <3>1
    <3>3. QED
      BY <1>2, <3>2
  <2>7. ctl' \in JobShape /\ ctl'.pc = "launch" /\ ctl'.cid = ctl.cid /\ ctl'.sha = ctl.sha
        /\ ctl'.run = newest
    BY <1>2, <2>1, <2>5 DEF JobShape
  <2>8. JobTyped'
    BY <1>0, <2>1, <2>7 DEF CiInv, JobTyped, ctlVars
  <2>9. JobKnows'
    BY <1>0, <2>5, <2>6, <2>7 DEF JobKnows, Quiet, Active
  <2>10. RunsSound' /\ ThreadTyped'
    BY <1>0, StatusIsSound DEF CiInv, ThreadTyped
  <2>11. QED
    BY <2>8, <2>9, <2>10 DEF CiInv
<1>3. QED
  BY <1>1, <1>2 DEF ListForRetry

LEMMA ListForCancelIsSound == ASSUME CiInv, ListForCancel, env' = env PROVE CiInv'
<1>1. /\ ctl.pc = "list" /\ ctl' = [ctl EXCEPT !.pc = "cancel", !.todo = {i \in Listed : Active(i)}]
      /\ UNCHANGED << head, runs, waiting, status, thread >> /\ UNCHANGED ctlVars
  BY DEF ListForCancel, At, runVars
<1>2. ctl \in JobShape /\ ctl.cid \in 1 .. Len(commands)
  BY <1>1, JobAtWork
<1>3. {i \in Listed : Active(i)} \subseteq Nat /\ {i \in Listed : Active(i)} \subseteq 1 .. Len(runs)
  BY LenProperties DEF Listed, Ids, CiInv, RunsSound, RunsTyped
<1>4. ctl' \in JobShape /\ ctl'.pc = "cancel" /\ ctl'.cid = ctl.cid
      /\ ctl'.todo \subseteq 1 .. Len(runs')
  BY <1>1, <1>2, <1>3 DEF JobShape
<1>5. JobTyped' /\ JobKnows'
  BY <1>1, <1>2, <1>4, JobMoves DEF Safe
<1>6. RunsSound' /\ ThreadTyped'
  BY <1>1, StatusIsSound DEF CiInv, ThreadTyped
<1>7. QED
  BY <1>5, <1>6 DEF CiInv

LEMMA LaunchIsSound == ASSUME CiInv, Launch, env' = env PROVE CiInv'
<1>0. /\ ctl.pc = "launch" /\ UNCHANGED << head, runs, waiting, thread >> /\ UNCHANGED ctlVars
      /\ \/ status' = [status EXCEPT ![ctl.sha] = "pending"] /\ Goto("post")
         \/ status' = status /\ Goto("fallback")
  BY DEF Launch, At
<1>1. CASE status' = status /\ Goto("fallback")
  BY <1>0, <1>1, JobStep DEF Safe, CiInv, ThreadTyped
<1>2. CASE status' = [status EXCEPT ![ctl.sha] = "pending"] /\ Goto("post")
  <2>1. ctl \in JobShape /\ ctl.cid \in 1 .. Len(commands) /\ ctl.sha \in Heads
    BY <1>0, JobAtWork
  <2>2. ctl' \in JobShape /\ ctl'.pc = "post" /\ ctl'.cid = ctl.cid /\ ctl'.sha = ctl.sha
        /\ ctl'.run = ctl.run
    BY <1>2, <2>1 DEF JobShape, Goto
  <2>3. status'[ctl.sha] = "pending"
    BY <1>2, <2>1 DEF CiInv, RunsSound, RunsTyped
  <2>4. JobTyped'
    BY <1>0, <2>1, <2>2 DEF CiInv, JobTyped, ctlVars
  <2>5. JobKnows'
    BY <1>0, <2>2, <2>3 DEF CiInv, JobKnows, Quiet, Active, Mine, ctlVars
  <2>6. RunsSound' /\ ThreadTyped'
    BY <1>0, <1>2, StatusIsSound DEF CiInv, ThreadTyped, States
  <2>7. QED
    BY <2>4, <2>5, <2>6 DEF CiInv
<1>3. QED
  BY <1>0, <1>1, <1>2

\* A run that starts to wait for a head that is quiet and not green.
LEMMA OneMoreActive ==
  ASSUME CiInv, NEW i, NEW sha \in Heads, Quiet(sha), status[sha] # "success",
         runs' \in Seq(RunShape), i \in 1 .. Len(runs'), Len(runs) <= Len(runs'),
         \A j \in 1 .. Len(runs') : j # i => j \in 1 .. Len(runs) /\ runs'[j] = runs[j],
         i \notin 1 .. Len(runs) \/ ~ Active(i),
         runs'[i].sha = sha, runs'[i].state = "queued",
         \A j \in 1 .. Len(runs') : runs'[j].sha = sha => j <= i,
         waiting' = Append(waiting, i),
         UNCHANGED << head, status, env >>
  PROVE  RunsSound'
<1>1. /\ Len(runs) \in Nat /\ Len(runs') \in Nat /\ i \in Nat
      /\ waiting \in Seq(Nat) /\ Len(waiting) \in Nat
  BY LenProperties DEF CiInv, RunsSound, RunsTyped
<1>2. /\ waiting' \in Seq(Nat) /\ Len(waiting') = Len(waiting) + 1 /\ waiting'[Len(waiting) + 1] = i
      /\ \A k \in 1 .. Len(waiting) : waiting'[k] = waiting[k]
  BY <1>1, AppendProperties
<1>3. RunsTyped'
  BY <1>2 DEF CiInv, RunsSound, RunsTyped
<1>4. ASSUME NEW k \in 1 .. Len(waiting)
      PROVE  /\ waiting[k] \in 1 .. Len(runs) /\ waiting[k] # i /\ runs'[waiting[k]].state = "queued"
             /\ \A m \in 1 .. Len(waiting) : waiting[m] = waiting[k] => m = k
  <2>1. /\ waiting[k] \in 1 .. Len(runs) /\ runs[waiting[k]].state = "queued"
        /\ \A m \in 1 .. Len(waiting) : waiting[m] = waiting[k] => m = k
    BY DEF CiInv, RunsSound, QueueIsOfQueued
  <2>2. Active(waiting[k])
    BY <2>1 DEF Active
  <2>3. waiting[k] # i
    BY <2>1, <2>2
  <2>4. waiting[k] \in 1 .. Len(runs')
    BY <1>1, <2>1
  <2>5. QED
    BY <2>1, <2>3, <2>4
<1>5. QueueIsOfQueued'
  <2> SUFFICES ASSUME NEW k \in 1 .. Len(waiting')
               PROVE  /\ waiting'[k] \in 1 .. Len(runs') /\ runs'[waiting'[k]].state = "queued"
                      /\ \A m \in 1 .. Len(waiting') : waiting'[m] = waiting'[k] => m = k
    BY DEF QueueIsOfQueued
  <2>1. \A m \in 1 .. Len(waiting') : m \in 1 .. Len(waiting) \/ m = Len(waiting) + 1
    BY <1>1, <1>2
  <2>2. CASE k = Len(waiting) + 1
    BY <1>2, <1>4, <2>1, <2>2
  <2>3. CASE k \in 1 .. Len(waiting)
    <3>1. waiting'[k] \in 1 .. Len(runs')
      <4>1. waiting'[k] = waiting[k] /\ waiting[k] \in 1 .. Len(runs)
        BY <1>2, <1>4, <2>3
      <4>2. QED
        BY <1>1, <4>1
    <3>2. QED
      BY <1>2, <1>4, <2>1, <2>3, <3>1
  <2>4. QED
    BY <2>1, <2>2, <2>3
<1>6. ASSUME NEW j \in 1 .. Len(runs'), runs'[j].state # "completed", runs'[j].sha = sha
      PROVE  j = i
  BY <1>6 DEF Quiet, Active
<1>7. NewestIsActive'
  <2> SUFFICES ASSUME NEW j \in 1 .. Len(runs'), NEW k \in 1 .. Len(runs'),
                      runs'[j].state # "completed", runs'[k].sha = runs'[j].sha
               PROVE  k <= j
    BY DEF NewestIsActive, Active
  <2>1. CASE runs'[j].sha = sha
    BY <1>6, <2>1
  <2>2. CASE runs'[j].sha # sha
    <3>1. j # i /\ k # i
      BY <2>2
    <3>2. QED
      BY <3>1 DEF CiInv, RunsSound, NewestIsActive, Active
  <2>3. QED
    BY <2>1, <2>2
<1>8. GreenIsFinal'
  <2> SUFFICES ASSUME NEW j \in 1 .. Len(runs'), Testing(j)'
               PROVE  status[runs'[j].sha] # "success"
    BY DEF GreenIsFinal
  <2>1. CASE j = i
    BY <2>1
  <2>2. CASE j # i
    BY <2>2 DEF CiInv, RunsSound, GreenIsFinal, Testing, Active
  <2>3. QED
    BY <2>1, <2>2
<1>9. QED
  BY <1>3, <1>5, <1>7, <1>8 DEF RunsSound

LEMMA DispatchedIsSound ==
  ASSUME Supervised, CiInv, ctl.pc = "post", Dispatched(ctl.sha, ctl.cid),
         UNCHANGED << head, status, env >>
  PROVE  RunsSound'
<1> DEFINE r == NewRun(ctl.sha, ctl.cid)
           i == Len(runs) + 1
<1>1. ctl.sha \in Heads /\ ctl.cid \in Nat /\ Quiet(ctl.sha) /\ status[ctl.sha] # "success"
  BY DEF CiInv, JobTyped, JobShape, JobKnows
<1>2. ~ env.lag
  BY DEF Supervised, CiInv, RunsSound, RunsTyped
<1>3. r \in RunShape /\ r.sha = ctl.sha /\ r.state = "queued"
  BY <1>1, <1>2 DEF NewRun, RunShape, Results
<1>4. /\ runs \in Seq(RunShape) /\ Len(runs) \in Nat
      /\ runs' = Append(runs, r) /\ waiting' = Append(waiting, i)
  BY LenProperties DEF CiInv, RunsSound, RunsTyped, Dispatched
<1> HIDE DEF r
<1>5. /\ runs' \in Seq(RunShape) /\ Len(runs') = Len(runs) + 1 /\ runs'[Len(runs) + 1] = r
      /\ \A j \in 1 .. Len(runs) : runs'[j] = runs[j]
  BY <1>3, <1>4, AppendProperties
<1>6. /\ i \in 1 .. Len(runs') /\ i \notin 1 .. Len(runs) /\ Len(runs) <= Len(runs')
      /\ \A j \in 1 .. Len(runs') : j <= i /\ (j # i => j \in 1 .. Len(runs))
  BY <1>4, <1>5
<1>7. QED
  BY <1>1, <1>3, <1>4, <1>5, <1>6, OneMoreActive

LEMMA AttemptType ==
  ASSUME NEW run \in RunShape, NEW failedOnly \in BOOLEAN
  PROVE  LET r == NextAttempt(run, failedOnly)
         IN  r \in RunShape /\ r.sha = run.sha /\ r.state = "queued"
<1> DEFINE v == IF failedOnly /\ run.validate = "success" THEN run.validate ELSE "none"
           p == IF failedOnly /\ run.ppu = "success" THEN run.ppu ELSE "none"
           n == run.attempt + 1
           q == [run EXCEPT !.attempt = n, !.state = "queued", !.conclusion = "none"]
           r == [q EXCEPT !.cancel = FALSE, !.reply = 0, !.validate = v, !.ppu = p]
<1>1. v \in Results /\ p \in Results /\ "none" \in Results /\ n \in Nat
  BY DEF RunShape, Results
<1>2. NextAttempt(run, failedOnly) = r
  BY DEF NextAttempt, RunShape
<1> HIDE DEF v, p, n
<1>3. q \in RunShape /\ q.sha = run.sha /\ q.state = "queued"
  BY <1>1 DEF RunShape
<1> HIDE DEF q
<1>4. r \in RunShape /\ r.sha = q.sha /\ r.state = q.state
  BY <1>1, <1>3 DEF RunShape
<1>5. QED
  BY <1>2, <1>3, <1>4

LEMMA RerunIsSound ==
  ASSUME CiInv, ctl.pc = "post", Mine.action = "retry", NEW failedOnly \in BOOLEAN,
         Rerun(ctl.run, failedOnly), UNCHANGED << head, status, env >>
  PROVE  RunsSound'
<1> DEFINE i == ctl.run
           r == NextAttempt(runs[i], failedOnly)
<1>1. ctl.sha \in Heads /\ Quiet(ctl.sha) /\ status[ctl.sha] # "success"
  BY DEF CiInv, JobTyped, JobShape, JobKnows
<1>2. /\ i \in 1 .. Len(runs) /\ runs[i].sha = ctl.sha
      /\ \A j \in 1 .. Len(runs) : runs[j].sha = ctl.sha => j <= i
  BY DEF CiInv, JobKnows
<1>3. runs[i] \in RunShape /\ runs \in Seq(RunShape)
  BY <1>2, RunTyped DEF CiInv, RunsSound, RunsTyped
<1>4. r \in RunShape /\ r.sha = ctl.sha /\ r.state = "queued"
  BY <1>2, <1>3, AttemptType
<1>5. runs' = [runs EXCEPT ![i] = r] /\ waiting' = Append(waiting, i) /\ ~ Active(i)
  BY DEF Rerun
<1> HIDE DEF r, i
<1>6. /\ runs' \in Seq(RunShape) /\ Len(runs') = Len(runs)
      /\ \A j \in 1 .. Len(runs) : runs'[j] = IF j = i THEN r ELSE runs[j]
  BY <1>2, <1>3, <1>4, <1>5, ExceptSeq
<1>7. /\ i \in 1 .. Len(runs') /\ Len(runs) <= Len(runs')
      /\ \A j \in 1 .. Len(runs') : j # i => j \in 1 .. Len(runs) /\ runs'[j] = runs[j]
      /\ runs'[i] = r
  BY <1>2, <1>3, <1>6, LenProperties
<1>8. \A j \in 1 .. Len(runs') : runs'[j].sha = ctl.sha => j <= i
  BY <1>2, <1>3, <1>6, <1>7, LenProperties
<1>9. QED
  BY <1>1, <1>4, <1>5, <1>6, <1>7, <1>8, OneMoreActive

LEMMA RequestMoves ==
  ASSUME CiInv, ctl.pc = "post", UNCHANGED ctlVars,
         Goto("reply") \/ ClearThen("reply") \/ ClearThen("fallback")
  PROVE  JobTyped' /\ JobKnows'
<1>1. ctl \in JobShape /\ ctl.cid \in 1 .. Len(commands)
  BY JobAtWork
<1>2. ctl' \in JobShape /\ ctl'.pc \in {"reply", "clear"} /\ ctl'.cid = ctl.cid
  BY <1>1 DEF JobShape, Goto, ClearThen
<1>3. QED
  BY <1>1, <1>2, JobMoves DEF Safe

LEMMA RequestRunIsSound == ASSUME Supervised, CiInv, RequestRun, env' = env PROVE CiInv'
<1>1. /\ ctl.pc = "post" /\ UNCHANGED << head, status, thread >> /\ UNCHANGED ctlVars
      /\ Goto("reply") \/ ClearThen("reply") \/ ClearThen("fallback")
      /\ UNCHANGED << runs, waiting >> \/ Dispatched(ctl.sha, ctl.cid)
  BY DEF RequestRun, At
<1>2. JobTyped' /\ JobKnows'
  BY <1>1, RequestMoves
<1>3. RunsSound'
  BY <1>1, StatusIsSound, DispatchedIsSound
<1>4. QED
  BY <1>1, <1>2, <1>3 DEF CiInv, ThreadTyped

LEMMA RequestRetryIsSound == ASSUME CiInv, RequestRetry, env' = env PROVE CiInv'
<1>1. /\ ctl.pc = "post" /\ Mine.action = "retry"
      /\ UNCHANGED << head, status, thread >> /\ UNCHANGED ctlVars
      /\ Goto("reply") \/ ClearThen("reply") \/ ClearThen("fallback")
      /\ UNCHANGED << runs, waiting >> \/ Rerun(ctl.run, TRUE) \/ Rerun(ctl.run, FALSE)
  BY DEF RequestRetry, At
<1>2. JobTyped' /\ JobKnows'
  BY <1>1, RequestMoves
<1>3. RunsSound'
  BY <1>1, StatusIsSound, RerunIsSound
<1>4. QED
  BY <1>1, <1>2, <1>3 DEF CiInv, ThreadTyped

LEMMA ClearIsSound == ASSUME CiInv, Clear, env' = env PROVE CiInv'
<1>1. /\ ctl.pc = "clear" /\ UNCHANGED << head, runs, waiting, thread >> /\ UNCHANGED ctlVars
      /\ Goto(ctl.then) \/ Goto("fallback")
      /\ status' = status \/ status' = [status EXCEPT ![ctl.sha] = "error"]
  BY DEF Clear, At
<1>2. ctl.then \in Safe
  BY <1>1, JobAtWork DEF JobShape, Safe
<1>3. QED
  BY <1>1, <1>2, JobStep DEF Safe, CiInv, ThreadTyped, States

\* The runs to cancel were listed, and no run is ever removed.
LEMMA TodoIsOfIds ==
  ASSUME CiInv, ctl.pc = "cancel", ctl.todo # {}
  PROVE  Max(ctl.todo) \in 1 .. Len(runs)
<1>1. ctl.todo \subseteq 1 .. Len(runs) /\ Len(runs) \in Nat
  BY LenProperties DEF CiInv, RunsSound, RunsTyped, JobKnows
<1>2. QED
  BY <1>1, LargestId

LEMMA CancelRunIsSound == ASSUME CiInv, CancelRun, env' = env PROVE CiInv'
<1>0. /\ ctl.pc = "cancel" /\ UNCHANGED << head, waiting, status, thread >> /\ UNCHANGED ctlVars
  BY DEF CancelRun, At
<1>1. CASE runs' = runs /\ (Goto("reply") \/ Goto("fallback"))
  BY <1>0, <1>1, JobStep DEF Safe, CiInv, ThreadTyped
<1>2. CASE /\ ctl.todo # {} /\ runs' = [runs EXCEPT ![Max(ctl.todo)].cancel = TRUE]
           /\ ctl' = [ctl EXCEPT !.pc = "cancelled", !.run = Max(ctl.todo)]
  <2> DEFINE i == Max(ctl.todo)
             r == [runs[i] EXCEPT !.cancel = TRUE]
  <2>1. ctl \in JobShape /\ ctl.cid \in 1 .. Len(commands)
    BY <1>0, JobAtWork
  <2>2. i \in 1 .. Len(runs)
    BY <1>0, <1>2, TodoIsOfIds
  <2>3. runs[i] \in RunShape /\ i \in Nat /\ RunsTyped
    BY <2>2, RunTyped, LenProperties DEF CiInv, RunsSound, RunsTyped
  <2>4. r \in RunShape /\ r.sha = runs[i].sha /\ r.state = runs[i].state
    BY <2>3 DEF RunShape
  <2>5. runs' = [runs EXCEPT ![i] = r]
    BY <1>2
  <2>6. ctl' \in JobShape /\ ctl'.pc = "cancelled" /\ ctl'.cid = ctl.cid /\ ctl'.todo = ctl.todo
    BY <1>2, <2>1, <2>3 DEF JobShape
  <2> HIDE DEF i, r
  <2>7. Advances(i) /\ runs'[i] = r /\ Writes(i)
    BY <1>0, <2>2, <2>3, <2>4, <2>5, Advanced, NothingGreen
  <2>8. RunsSound'
    BY <1>0, <2>4, <2>7, KeepsQueue, WorkKeepsRuns DEF CiInv, RunsSound, RunsTyped
  <2>9. JobTyped' /\ JobKnows'
    <3>1. ctl.todo \subseteq 1 .. Len(runs')
      BY <1>0, <2>7 DEF CiInv, JobKnows, Advances
    <3>2. QED
      BY <1>0, <2>1, <2>6, <3>1, JobMoves
  <2>10. QED
    BY <1>0, <2>8, <2>9 DEF CiInv, ThreadTyped
<1>3. QED
  BY <1>1, <1>2 DEF CancelRun

LEMMA CancelStatusIsSound == ASSUME CiInv, CancelStatus, env' = env PROVE CiInv'
<1>0. /\ ctl.pc = "cancelled" /\ UNCHANGED << head, runs, waiting, thread >> /\ UNCHANGED ctlVars
  BY DEF CancelStatus, At
<1>1. CASE status' = status /\ Goto("fallback")
  BY <1>0, <1>1, JobStep DEF Safe, CiInv, ThreadTyped
<1>2. CASE /\ status' = [status EXCEPT ![runs[ctl.run].sha] = "error"]
           /\ ctl' = [ctl EXCEPT !.pc = "cancel", !.todo = @ \ {ctl.run}]
  <2>1. ctl \in JobShape /\ ctl.cid \in 1 .. Len(commands)
    BY <1>0, JobAtWork
  <2>2. /\ ctl' \in JobShape /\ ctl'.pc = "cancel" /\ ctl'.cid = ctl.cid
        /\ ctl'.todo \subseteq 1 .. Len(runs')
    BY <1>0, <1>2, <2>1 DEF JobShape, CiInv, JobKnows
  <2>3. JobTyped' /\ JobKnows'
    BY <1>0, <2>1, <2>2, JobMoves
  <2>4. RunsSound' /\ ThreadTyped'
    BY <1>0, <1>2, StatusIsSound DEF CiInv, ThreadTyped, States
  <2>5. QED
    BY <2>3, <2>4 DEF CiInv
<1>3. QED
  BY <1>1, <1>2 DEF CancelStatus

LEMMA AnswersAreSound == ASSUME CiInv, Reply \/ Fallback, env' = env PROVE CiInv'
<1>1. /\ ctl.pc # "idle" /\ UNCHANGED << head, runs, waiting, status, commands, queue >>
      /\ thread' = thread \/ thread' = Append(thread, Answer)
      /\ \/ failed' = failed /\ ctl' = Idle
         \/ failed' = failed /\ Goto("fallback")
         \/ failed' = failed \cup {ctl.cid} /\ ctl' = Idle
  BY DEF Reply, Fallback, At, ctlVars
<1>2. ctl \in JobShape /\ ctl.cid \in 1 .. Len(commands)
  BY <1>1, JobAtWork
<1>3. Answer \in Comments
  BY <1>2 DEF Answer, Comments, JobShape, States
<1>4. ThreadTyped'
  BY <1>1, <1>3, ThreadKept
<1>5. ctl' \in JobShape /\ ctl'.pc \in {"idle", "fallback"} /\ (ctl'.pc = "fallback" => ctl'.cid = ctl.cid)
  BY <1>1, JobAtWork DEF Goto, Safe
<1>6. JobTyped' /\ JobKnows'
  BY <1>1, <1>2, <1>5 DEF CiInv, JobTyped, JobKnows
<1>7. RunsSound'
  BY <1>1, StatusIsSound
<1>8. QED
  BY <1>4, <1>6, <1>7 DEF CiInv

LEMMA PushIsSound ==
  ASSUME CiInv, Push, env' = env, UNCHANGED << ctlVars, ctl >>
  PROVE  CiInv'
<1>1. head' \in Heads /\ UNCHANGED << runs, waiting, status, thread >>
  BY CiAssumption DEF Push, Heads, CiInv, RunsSound, RunsTyped
<1>2. RunsSound'
  BY <1>1 DEF CiInv, RunsSound, RunsTyped, QueueIsOfQueued, NewestIsActive, GreenIsFinal,
              Active, Testing
<1>3. JobTyped' /\ JobKnows' /\ ThreadTyped'
  BY <1>1 DEF CiInv, JobTyped, JobKnows, ThreadTyped, Quiet, Active, Mine, ctlVars
<1>4. QED
  BY <1>2, <1>3 DEF CiInv

--------------------------------------------------------------------------------
LEMMA CiInvInit == ASSUME Init PROVE CiInv
<1>1. RunsTyped /\ Len(runs) = 0 /\ Len(waiting) = 0
  BY CiAssumption DEF Init, RunsInit, RunsTyped, States, Heads
<1>2. RunsSound /\ ThreadTyped
  BY <1>1 DEF Init, RunsInit, RunsSound, ThreadTyped, QueueIsOfQueued, NewestIsActive, GreenIsFinal
<1>3. ctl \in JobShape /\ ctl.pc = "idle"
  BY CiAssumption DEF Init, Idle, JobShape, Heads
<1>4. JobTyped /\ JobKnows
  BY <1>3 DEF Init, JobTyped, JobKnows
<1>5. QED
  BY <1>2, <1>4 DEF CiInv

LEMMA CiInvNext ==
  ASSUME Supervised, CiInv, [Next]_<< vars, env >>
  PROVE  CiInv'
<1>0. Ids = 1 .. Len(runs)
  BY DEF Ids, CiInv, RunsSound, RunsTyped
<1>1. CASE Control /\ env' = env
  BY <1>1, TakeIsSound, BeginIsSound, ReadsAreSound, ListRunsIsSound, FreshIsSound,
     ListForRetryIsSound, ListForCancelIsSound, LaunchIsSound, RequestRunIsSound,
     RequestRetryIsSound, ClearIsSound, CancelRunIsSound, CancelStatusIsSound, AnswersAreSound
     DEF Control
<1>2. CASE (\E c \in Command : Post(c)) /\ env' = env
  BY <1>2, PostIsSound
<1>3. CASE (\E cid \in failed : Redeliver(cid)) /\ env' = env
  BY <1>3, RedeliverIsSound
<1>4. CASE (Start \/ Push) /\ UNCHANGED << ctlVars, ctl >> /\ env' = env
  BY <1>4, StartIsSound, PushIsSound
<1>5. ASSUME NEW i \in Ids, Work(i), UNCHANGED << ctlVars, ctl >>, env' = env
      PROVE  CiInv'
  BY <1>0, <1>5, ExecuteIsSound, StopIsSound, AppearIsSound DEF Work
<1>6. ASSUME NEW i \in Ids, NativeRerun(i) PROVE FALSE
  BY <1>6 DEF NativeRerun, Supervised, CiInv, RunsSound, RunsTyped
<1>7. CASE UNCHANGED << vars, env >>
  <2>1. UNCHANGED << head, runs, waiting, status, thread, commands, queue, failed, ctl, env >>
    BY <1>7 DEF vars, runVars, ctlVars
  <2>2. RunsSound'
    BY <2>1, StatusIsSound
  <2>3. JobTyped' /\ JobKnows' /\ ThreadTyped'
    BY <2>1 DEF CiInv, JobTyped, JobKnows, ThreadTyped, Quiet, Active, Mine
  <2>4. QED
    BY <2>2, <2>3 DEF CiInv
<1>8. QED
  BY <1>1, <1>2, <1>3, <1>4, <1>5, <1>6, <1>7 DEF Next

\* What the jobs rely on between their reads and their requests, with the queue of the
\* group and the runs, for any number of commands, pushes, re-deliveries and faults.
THEOREM ControllerIsSound == ASSUME Supervised PROVE Spec => []CiInv
<1>1. QED
  BY CiInvInit, CiInvNext, PTL DEF Spec

\* "PPU CI already running": a head is not tested twice at the same time.
THEOREM OneRunAtATime == ASSUME Supervised PROVE Spec => []OneActiveRunPerHead
<1>1. CiInv => OneActiveRunPerHead
  <2> SUFFICES ASSUME CiInv, NEW i \in Ids, NEW j \in Ids, Active(i), Active(j),
                      runs[i].sha = runs[j].sha
               PROVE  i = j
    BY DEF OneActiveRunPerHead
  <2>1. Ids = 1 .. Len(runs) /\ Len(runs) \in Nat
    BY LenProperties DEF Ids, CiInv, RunsSound, RunsTyped
  <2>2. i <= j /\ j <= i
    BY <2>1 DEF CiInv, RunsSound, NewestIsActive
  <2>3. QED
    BY <2>1, <2>2
<1>2. QED
  BY <1>1, ControllerIsSound, PTL

\* A head never counts as passed while a run of it is still to report.
THEOREM GreenWaitsForTheRun == ASSUME Supervised PROVE Spec => []NotGreenWhileTesting
<1>1. CiInv => NotGreenWhileTesting
  BY DEF CiInv, RunsSound, RunsTyped, GreenIsFinal, NotGreenWhileTesting, Testing, Ids
<1>2. QED
  BY <1>1, ControllerIsSound, PTL

--------------------------------------------------------------------------------
(* What the comments show, in every environment.                               *)

\* A run that the list may miss, and a job that knows what it answers.
LateRun ==
  [sha : Heads, cid : Nat, attempt : Nat,
   state : Executing \cup {"queued", "completed"},
   validate : Results, ppu : Results, conclusion : Results,
   cancel : BOOLEAN, listed : BOOLEAN, reply : Nat]

JobKnowsComment ==
  /\ ctl = [pc |-> ctl.pc, cid |-> ctl.cid, sha |-> ctl.sha, tested |-> ctl.tested,
            run |-> ctl.run, todo |-> ctl.todo, then |-> ctl.then]
  /\ ctl.cid \in Nat /\ ctl.sha \in Heads /\ ctl.then \in {"reply", "fallback"}

RunsLate == runs \in Seq(LateRun) /\ env \in Environments /\ head \in Heads /\ faults \in Nat

CommandsTyped ==
  /\ commands \in Seq(Command)
  /\ queue \in Seq(Nat)
  /\ failed \subseteq Nat

Written(cid) == \E k \in 1 .. Len(thread) : thread[k].cid = cid

\* The job is past its request and has still to answer; where it no longer may fail to, the
\* one call that fails has failed.
Writing == ctl.pc = "reply" \/ (ctl.pc \in {"clear", "fallback"} /\ faults = 1)

\* While at most one call failed, the comment that a run was started by is answered, or the
\* job that started it is about to.
OwnersAnswer ==
  faults <= 1 =>
    \A i \in 1 .. Len(runs) : Written(runs[i].cid) \/ (runs[i].cid = ctl.cid /\ Writing)

BeforeRequest == {"list", "fresh", "launch", "post", "cancel", "cancelled"}

\* So a job that went past the check of its comment has no run yet,
JobsStartAnew ==
  faults <= 1 /\ ctl.pc \in BeforeRequest => \A i \in 1 .. Len(runs) : runs[i].cid # ctl.cid

\* and no two runs share a comment.
OwnersDiffer ==
  faults <= 1 => \A i, j \in 1 .. Len(runs) : runs[i].cid = runs[j].cid => i = j

\* The comment that a report found is that of its own command,
IsOwn(run) == run.reply \in 1 .. Len(thread) /\ thread[run.reply].cid = run.cid

FoundIsOwn ==
  \A i \in 1 .. Len(runs) :
    runs[i].state = "found" => runs[i].reply = 0 \/ IsOwn(runs[i])

\* so it is replaced by no other run's result.
ResultAs(i, run) ==
  [cid |-> run.cid, run |-> i, attempt |-> run.attempt, state |-> Outcome(run)]

Ended(run) == run.state = "completed" /\ run.conclusion # "cancelled"

ResultsAreShown ==
  faults = 0 =>
    \A i \in 1 .. Len(runs) :
      Ended(runs[i]) => \E k \in 1 .. Len(thread) : thread[k] = ResultAs(i, runs[i])

CommentsInv ==
  /\ RunsLate /\ ThreadTyped /\ CommandsTyped /\ JobKnowsComment
  /\ OwnersAnswer /\ JobsStartAnew /\ OwnersDiffer
  /\ FoundIsOwn /\ ResultsAreShown

--------------------------------------------------------------------------------
\* Runs keep the comment they were started by, answers that of the command they mark.
OwnersKept ==
  /\ Len(runs') = Len(runs)
  /\ \A i \in 1 .. Len(runs) : runs'[i].cid = runs[i].cid

AnswersKept ==
  /\ Len(thread) <= Len(thread')
  /\ \A k \in 1 .. Len(thread) : thread'[k].cid = thread[k].cid

FaultsGrow == faults' = faults \/ faults' = faults + 1

SameComment == ctl'.cid = ctl.cid

\* The moves of a job that started no run.
JobGoes ==
  \/ ctl'.pc = ctl.pc /\ SameComment
  \/ ctl.pc \in BeforeRequest /\ SameComment
  \/ ctl.pc = "idle" /\ ctl'.pc = "begin"
  \/ ctl.pc = "begin" /\ ctl'.pc = "idle"
  \/ ctl.pc = "begin" /\ ctl'.pc = "fallback" /\ SameComment
  \/ ctl.pc = "begin" /\ ctl'.pc = "list" /\ SameComment /\ ~ Written(ctl.cid)
  \/ ctl.pc = "clear" /\ ctl'.pc \in {"reply", "fallback"} /\ SameComment
  \/ ctl.pc = "reply" /\ ctl'.pc = "fallback" /\ SameComment /\ faults' = faults + 1
  \/ /\ ctl.pc \in {"reply", "fallback"} /\ ctl'.pc = "idle"
     /\ \E k \in 1 .. Len(thread') : thread'[k].cid = ctl.cid
  \/ ctl.pc = "fallback" /\ ctl'.pc = "idle" /\ faults' = faults + 1

LEMMA AnswersStay ==
  ASSUME ThreadTyped, ThreadTyped', AnswersKept, NEW cid, Written(cid)
  PROVE  \E k \in 1 .. Len(thread') : thread'[k].cid = cid
<1>1. Len(thread) \in Nat /\ Len(thread') \in Nat BY LenProperties DEF ThreadTyped
<1> QED BY <1>1 DEF Written, AnswersKept

LEMMA OwnersStand ==
  ASSUME CommentsInv, ThreadTyped', OwnersKept, AnswersKept, FaultsGrow, JobGoes
  PROVE  OwnersAnswer' /\ JobsStartAnew' /\ OwnersDiffer'
<1>1. faults \in Nat /\ (faults' <= 1 => faults <= 1)
  BY DEF CommentsInv, RunsLate, FaultsGrow
<1>2. OwnersDiffer'
  BY <1>1 DEF CommentsInv, OwnersDiffer, OwnersKept
<1>3. ASSUME faults' <= 1, NEW i \in 1 .. Len(runs)
      PROVE  /\ Written(runs[i].cid)' \/ (runs[i].cid = ctl'.cid /\ Writing')
             /\ ctl'.pc \in BeforeRequest => runs[i].cid # ctl'.cid
  <2>1. Written(runs[i].cid) \/ (runs[i].cid = ctl.cid /\ Writing)
    BY <1>1, <1>3 DEF CommentsInv, OwnersAnswer
  <2>2. ctl.pc \in BeforeRequest => runs[i].cid # ctl.cid
    BY <1>1, <1>3 DEF CommentsInv, JobsStartAnew
  <2>3. Written(runs[i].cid) => \E k \in 1 .. Len(thread') : thread'[k].cid = runs[i].cid
    BY AnswersStay DEF CommentsInv
  <2>4. faults' \in {0, 1} /\ faults \in {0, 1} /\ (faults = 1 => faults' = 1)
    BY <1>1, <1>3 DEF FaultsGrow
  <2> DEFINE W == \E k \in 1 .. Len(thread') : thread'[k].cid = runs[i].cid
  <2>5. OwnersKept => runs'[i].cid = runs[i].cid BY DEF OwnersKept
  <2>6. W \/ (runs[i].cid = ctl'.cid /\ Writing')
    BY <2>1, <2>2, <2>3, <2>4 DEF JobGoes, Writing, BeforeRequest, SameComment, Written
  <2>7. ctl'.pc \in BeforeRequest => runs[i].cid # ctl'.cid
    BY <2>1, <2>2, <2>4 DEF JobGoes, Writing, BeforeRequest, SameComment, Written
  <2> QED BY <2>5, <2>6, <2>7 DEF Written, OwnersKept
<1>4. OwnersAnswer'
  <2> SUFFICES ASSUME faults' <= 1, NEW i \in 1 .. Len(runs')
               PROVE  Written(runs[i].cid)' \/ (runs'[i].cid = ctl'.cid /\ Writing')
    BY DEF OwnersAnswer
  <2> QED BY <1>3 DEF OwnersKept, Written
<1>5. JobsStartAnew'
  BY <1>3 DEF JobsStartAnew, OwnersKept
<1> QED BY <1>2, <1>4, <1>5

--------------------------------------------------------------------------------
\* A run changes, and no answer.
LEMMA RunGoes ==
  ASSUME CommentsInv, NEW i \in 1 .. Len(runs), NEW r \in LateRun, r.cid = runs[i].cid,
         runs' = [runs EXCEPT ![i] = r], thread' = thread, FaultsGrow,
         r.state = "found" => r.reply = 0 \/ IsOwn(r),
         faults' = 0 /\ Ended(r) => \E k \in 1 .. Len(thread) : thread[k] = ResultAs(i, r)
  PROVE  /\ runs' \in Seq(LateRun) /\ OwnersKept /\ AnswersKept /\ ThreadTyped'
         /\ FoundIsOwn' /\ ResultsAreShown'
<1>1. runs \in Seq(LateRun) /\ faults \in Nat BY DEF CommentsInv, RunsLate
<1>2. /\ runs' \in Seq(LateRun) /\ Len(runs') = Len(runs)
      /\ \A j \in 1 .. Len(runs) : runs'[j] = IF j = i THEN r ELSE runs[j]
  BY <1>1, ExceptSeq
<1>3. OwnersKept BY <1>2 DEF OwnersKept
<1>4. AnswersKept /\ ThreadTyped'
  BY LenProperties DEF CommentsInv, ThreadTyped, AnswersKept
<1>5. FoundIsOwn'
  BY <1>2 DEF CommentsInv, FoundIsOwn, IsOwn
<1>6. ResultsAreShown'
  <2> SUFFICES ASSUME faults' = 0, NEW j \in 1 .. Len(runs), Ended(runs'[j])
               PROVE  \E k \in 1 .. Len(thread) : thread[k] = ResultAs(j, runs'[j])
    BY <1>2 DEF ResultsAreShown
  <2>1. CASE j = i BY <1>2, <2>1
  <2>2. CASE j # i
    <3>1. runs'[j] = runs[j] /\ faults = 0 BY <1>1, <1>2, <2>2 DEF FaultsGrow
    <3> QED BY <3>1 DEF CommentsInv, ResultsAreShown
  <2> QED BY <2>1, <2>2
<1> QED BY <1>2, <1>3, <1>4, <1>5, <1>6

\* No run changes; an answer may be added.
LEMMA AnswerGoes ==
  ASSUME CommentsInv, NEW c \in Comments, runs' = runs, FaultsGrow,
         thread' = thread \/ thread' = Append(thread, c)
  PROVE  /\ OwnersKept /\ AnswersKept /\ ThreadTyped' /\ FoundIsOwn' /\ ResultsAreShown'
         /\ \A k \in 1 .. Len(thread) : thread'[k] = thread[k]
<1>1. thread \in Seq(Comments) /\ Len(thread) \in Nat
  BY LenProperties DEF CommentsInv, ThreadTyped
<1>2. /\ thread' \in Seq(Comments) /\ Len(thread) <= Len(thread') /\ Len(thread') \in Nat
      /\ \A k \in 1 .. Len(thread) : thread'[k] = thread[k]
  BY <1>1, AppendProperties
<1>3. \A k \in 1 .. Len(thread) : k \in 1 .. Len(thread') BY <1>1, <1>2
<1>4. OwnersKept /\ AnswersKept /\ ThreadTyped'
  BY <1>2 DEF OwnersKept, AnswersKept, ThreadTyped
<1>5. FoundIsOwn'
  BY <1>2, <1>3 DEF CommentsInv, FoundIsOwn, IsOwn
<1>6. ResultsAreShown'
  <2>1. faults' = 0 => faults = 0 BY DEF CommentsInv, RunsLate, FaultsGrow
  <2> QED BY <1>2, <1>3, <2>1 DEF CommentsInv, ResultsAreShown
<1> QED BY <1>2, <1>4, <1>5, <1>6

\* What the executor and GitHub do to a run, while the job waits.
LEMMA WorkGoes ==
  ASSUME CommentsInv, UNCHANGED << head, env, ctlVars, ctl >>, FaultsGrow,
         runs' \in Seq(LateRun), OwnersKept, AnswersKept, ThreadTyped',
         FoundIsOwn', ResultsAreShown'
  PROVE  CommentsInv'
<1>1. JobGoes BY DEF JobGoes, SameComment
<1>2. OwnersAnswer' /\ JobsStartAnew' /\ OwnersDiffer' BY <1>1, OwnersStand
<1>3. RunsLate' /\ CommandsTyped' /\ JobKnowsComment'
  BY DEF CommentsInv, RunsLate, CommandsTyped, JobKnowsComment, FaultsGrow, ctlVars
<1> QED BY <1>2, <1>3 DEF CommentsInv

LEMMA StillGoes ==
  ASSUME CommentsInv, UNCHANGED << env, ctlVars, ctl, runs, thread, faults >>, head' \in Heads
  PROVE  CommentsInv'
<1>1. JobGoes /\ FaultsGrow BY DEF JobGoes, SameComment, FaultsGrow
<1>2. OwnersKept /\ AnswersKept /\ ThreadTyped'
  BY LenProperties DEF CommentsInv, OwnersKept, AnswersKept, ThreadTyped
<1>3. OwnersAnswer' /\ JobsStartAnew' /\ OwnersDiffer' BY <1>1, <1>2, OwnersStand
<1>4. RunsLate' /\ CommandsTyped' /\ JobKnowsComment' /\ FoundIsOwn' /\ ResultsAreShown'
  BY DEF CommentsInv, RunsLate, CommandsTyped, JobKnowsComment, FoundIsOwn, IsOwn,
         ResultsAreShown, ctlVars
<1> QED BY <1>2, <1>3, <1>4 DEF CommentsInv

LEMMA RunWorks ==
  ASSUME CommentsInv, UNCHANGED << head, env, ctlVars, ctl >>,
         NEW i \in 1 .. Len(runs), NEW r \in LateRun, r.cid = runs[i].cid,
         runs' = [runs EXCEPT ![i] = r], thread' = thread, FaultsGrow,
         r.state = "found" => r.reply = 0 \/ IsOwn(r),
         faults' = 0 /\ Ended(r) => \E k \in 1 .. Len(thread) : thread[k] = ResultAs(i, r)
  PROVE  CommentsInv'
BY RunGoes, WorkGoes

LEMMA LateTyped == ASSUME CommentsInv, NEW i \in 1 .. Len(runs) PROVE runs[i] \in LateRun
BY ElementOfSeq DEF CommentsInv, RunsLate

\* find_comment returns a comment of the command, if there is one.
LEMMA FoundIsMarked ==
  ASSUME CommentsInv, NEW cid
  PROVE  /\ FirstMarked(cid) \in Nat
         /\ FirstMarked(cid) = 0 \/ (FirstMarked(cid) \in 1 .. Len(thread)
                                      /\ thread[FirstMarked(cid)].cid = cid)
<1>1. /\ Marked(cid) \subseteq 1 .. Len(thread) /\ Marked(cid) \subseteq Nat
      /\ \A k \in Marked(cid) : thread[k].cid = cid
  BY LenProperties DEF CommentsInv, ThreadTyped, Marked
<1>2. CASE Marked(cid) # {}
  <2>1. PICK n \in Marked(cid) : \A m \in Marked(cid) : n <= m
    BY <1>1, <1>2, LeastElement
  <2>2. Min(Marked(cid)) \in Marked(cid)
    BY <2>1 DEF Min
  <2> QED BY <1>1, <1>2, <2>2 DEF FirstMarked
<1> QED BY <1>2 DEF FirstMarked

LEMMA WorkFields ==
  ASSUME NEW run \in LateRun, NEW v \in Results, NEW p \in Results, NEW c \in Results,
         NEW s \in Executing \cup {"queued", "completed"}, NEW n \in Nat, NEW b \in BOOLEAN
  PROVE  /\ [run EXCEPT !.state = s] \in LateRun
         /\ [run EXCEPT !.validate = v, !.ppu = p, !.state = s] \in LateRun
         /\ [run EXCEPT !.validate = v, !.state = s] \in LateRun
         /\ [run EXCEPT !.ppu = p, !.state = s] \in LateRun
         /\ [run EXCEPT !.state = s, !.conclusion = c] \in LateRun
         /\ [run EXCEPT !.reply = n, !.state = s] \in LateRun
         /\ [run EXCEPT !.cancel = b] \in LateRun
         /\ [run EXCEPT !.listed = b] \in LateRun
BY DEF LateRun

\* A job of a run goes on, and nobody reports.
LEMMA JobsOfRun ==
  ASSUME CommentsInv, UNCHANGED << head, env, ctlVars, ctl >>, NEW i \in 1 .. Len(runs),
         \/ ValidateRefuses(i) \/ ValidateAccepts(i) \/ ValidateSetsPending(i) \/ Test(i)
         \/ ReportStatus(i)
  PROVE  CommentsInv'
<1> DEFINE run == runs[i]
<1>1. run \in LateRun BY LateTyped
<1>2. PICK r : /\ runs' = [runs EXCEPT ![i] = r] /\ r \in LateRun /\ r.cid = run.cid
               /\ r.state \in {"report", "checked", "ppu", "reported", "completed"}
               /\ r.state = "completed" => faults' = faults + 1
  <2>1. /\ {"success", "failure", "skipped", "cancelled"} \subseteq Results
        /\ {"report", "checked", "ppu", "reported", "completed"}
             \subseteq Executing \cup {"queued", "completed"}
    BY DEF Results, Executing
  <2>2. CASE ValidateRefuses(i)
    <3> DEFINE r == [run EXCEPT !.validate = "failure", !.ppu = "skipped", !.state = "report"]
    <3>1. runs' = [runs EXCEPT ![i] = r] BY <2>2 DEF ValidateRefuses
    <3>2. r \in LateRun BY <1>1, <2>1, WorkFields
    <3>3. r.cid = run.cid /\ r.state = "report" BY <1>1 DEF LateRun
    <3> QED BY <3>1, <3>2, <3>3
  <2>3. CASE ValidateAccepts(i)
    <3> DEFINE r == [run EXCEPT !.state = "checked"]
    <3>1. runs' = [runs EXCEPT ![i] = r] BY <2>3 DEF ValidateAccepts
    <3>2. r \in LateRun BY <1>1, <2>1, WorkFields
    <3>3. r.cid = run.cid /\ r.state = "checked" BY <1>1 DEF LateRun
    <3> QED BY <3>1, <3>2, <3>3
  <2>4. CASE ValidateSetsPending(i)
    <3> DEFINE q == [run EXCEPT !.validate = "success", !.state = "ppu"]
               r == [run EXCEPT !.validate = "failure", !.ppu = "skipped", !.state = "report"]
    <3>1. runs' = [runs EXCEPT ![i] = q] \/ runs' = [runs EXCEPT ![i] = r]
      BY <2>4 DEF ValidateSetsPending
    <3>2. q \in LateRun /\ r \in LateRun BY <1>1, <2>1, WorkFields
    <3>3. q.cid = run.cid /\ q.state = "ppu" /\ r.cid = run.cid /\ r.state = "report"
      BY <1>1 DEF LateRun
    <3> QED BY <3>1, <3>2, <3>3
  <2>5. CASE Test(i)
    <3>1. PICK result \in {"success", "failure"} :
            runs' = [runs EXCEPT ![i] = [run EXCEPT !.ppu = result, !.state = "report"]]
      BY <2>5 DEF Test
    <3> DEFINE r == [run EXCEPT !.ppu = result, !.state = "report"]
    <3>2. r \in LateRun BY <1>1, <2>1, WorkFields
    <3>3. r.cid = run.cid /\ r.state = "report" BY <1>1 DEF LateRun
    <3> QED BY <3>1, <3>2, <3>3
  <2>6. CASE ReportStatus(i)
    <3> DEFINE q == [run EXCEPT !.state = "reported"]
               r == [run EXCEPT !.state = "completed", !.conclusion = "failure"]
    <3>1. \/ runs' = [runs EXCEPT ![i] = q]
          \/ runs' = [runs EXCEPT ![i] = r] /\ faults' = faults + 1
      BY <2>6 DEF ReportStatus, Fault
    <3>2. q \in LateRun /\ r \in LateRun BY <1>1, <2>1, WorkFields
    <3>3. q.cid = run.cid /\ q.state = "reported" /\ r.cid = run.cid /\ r.state = "completed"
      BY <1>1 DEF LateRun
    <3> QED BY <3>1, <3>2, <3>3
  <2> QED BY <2>2, <2>3, <2>4, <2>5, <2>6
<1>3. thread' = thread /\ FaultsGrow
  BY DEF ValidateRefuses, ValidateAccepts, ValidateSetsPending, Test, ReportStatus, Fault, FaultsGrow
<1>4. faults' = 0 => r.state # "completed" BY <1>2 DEF CommentsInv, RunsLate
<1> QED BY <1>2, <1>3, <1>4, RunWorks DEF Ended

LEMMA FindWorks ==
  ASSUME CommentsInv, UNCHANGED << head, env, ctlVars, ctl >>, NEW i \in 1 .. Len(runs),
         FindComment(i)
  PROVE  CommentsInv'
<1> DEFINE n == FirstMarked(runs[i].cid)
           r == [runs[i] EXCEPT !.reply = n, !.state = "found"]
<1>1. runs[i] \in LateRun BY LateTyped
<1>2. n \in Nat /\ (n = 0 \/ (n \in 1 .. Len(thread) /\ thread[n].cid = runs[i].cid))
  BY FoundIsMarked
<1>3. runs' = [runs EXCEPT ![i] = r] /\ thread' = thread /\ FaultsGrow
  BY DEF FindComment, FaultsGrow
<1> HIDE DEF n
<1>4. r \in LateRun /\ r.cid = runs[i].cid /\ r.reply = n /\ r.state = "found"
  BY <1>1, <1>2 DEF LateRun, Executing
<1> HIDE DEF r
<1> QED BY <1>2, <1>3, <1>4, RunWorks DEF Ended, IsOwn

LEMMA StopWorks ==
  ASSUME CommentsInv, UNCHANGED << head, env, ctlVars, ctl >>, NEW i \in 1 .. Len(runs), Stop(i)
  PROVE  CommentsInv'
<1> DEFINE run == runs[i]
           a == [run EXCEPT !.state = "completed", !.conclusion = "cancelled"]
           b == [run EXCEPT !.validate = "cancelled", !.ppu = "skipped", !.state = "report"]
           c == [run EXCEPT !.ppu = "cancelled", !.state = "report"]
<1>1. run \in LateRun BY LateTyped
<1>2. /\ runs' = [runs EXCEPT ![i] = a] \/ runs' = [runs EXCEPT ![i] = b]
          \/ runs' = [runs EXCEPT ![i] = c]
      /\ thread' = thread /\ FaultsGrow
  BY DEF Stop, FaultsGrow
<1>3. a \in LateRun /\ b \in LateRun /\ c \in LateRun
  BY <1>1, WorkFields DEF Results, Executing
<1>4. /\ a.cid = run.cid /\ a.state = "completed" /\ a.conclusion = "cancelled"
      /\ b.cid = run.cid /\ b.state = "report"
      /\ c.cid = run.cid /\ c.state = "report"
  BY <1>1 DEF LateRun
<1> HIDE DEF a, b, c
<1> QED BY <1>2, <1>3, <1>4, RunWorks DEF Ended

\* The flags of a run say nothing of its result.
LEMMA FlagKept ==
  ASSUME CommentsInv, NEW i \in 1 .. Len(runs), NEW r \in LateRun, FaultsGrow,
         r.cid = runs[i].cid, r.state = runs[i].state, r.reply = runs[i].reply,
         r.attempt = runs[i].attempt, r.validate = runs[i].validate, r.ppu = runs[i].ppu,
         r.conclusion = runs[i].conclusion
  PROVE  /\ r.state = "found" => r.reply = 0 \/ IsOwn(r)
         /\ faults' = 0 /\ Ended(r) => \E k \in 1 .. Len(thread) : thread[k] = ResultAs(i, r)
<1>1. faults' = 0 => faults = 0 BY DEF CommentsInv, RunsLate, FaultsGrow
<1>2. ResultAs(i, r) = ResultAs(i, runs[i]) BY DEF ResultAs, Outcome
<1> QED BY <1>1, <1>2 DEF CommentsInv, FoundIsOwn, IsOwn, ResultsAreShown, Ended

LEMMA AppearWorks ==
  ASSUME CommentsInv, UNCHANGED << head, env, ctlVars, ctl >>, NEW i \in 1 .. Len(runs), Appear(i)
  PROVE  CommentsInv'
<1> DEFINE r == [runs[i] EXCEPT !.listed = TRUE]
<1>1. runs[i] \in LateRun BY LateTyped
<1>2. r \in LateRun BY <1>1 DEF LateRun
<1>3. /\ r.cid = runs[i].cid /\ r.state = runs[i].state /\ r.reply = runs[i].reply
      /\ r.attempt = runs[i].attempt /\ r.validate = runs[i].validate /\ r.ppu = runs[i].ppu
      /\ r.conclusion = runs[i].conclusion
  BY <1>1 DEF LateRun
<1>4. runs' = [runs EXCEPT ![i] = r] /\ thread' = thread /\ FaultsGrow
  BY DEF Appear, FaultsGrow
<1> HIDE DEF r
<1> QED BY <1>2, <1>3, <1>4, FlagKept, RunWorks

LEMMA LateOutcome == ASSUME NEW i \in Nat, NEW run \in LateRun PROVE ResultAs(i, run) \in Comments
<1>1. Outcome(run) \in States BY OutcomeType
<1> QED BY <1>1 DEF ResultAs, LateRun, Comments

\* A result replaces nothing but an answer to its own command, or the result of an attempt
\* before.
LEMMA ReportWorks ==
  ASSUME CommentsInv, UNCHANGED << head, env, ctlVars, ctl >>, NEW i \in 1 .. Len(runs),
         ReportComment(i)
  PROVE  CommentsInv'
<1> DEFINE run == runs[i]
           c == ResultAs(i, run)
           n == run.reply
<1>1. run \in LateRun /\ i \in Nat /\ c \in Comments /\ n \in Nat /\ run.state = "found"
  <2>1. run \in LateRun BY LateTyped
  <2>2. Len(runs) \in Nat BY LenProperties DEF CommentsInv, RunsLate
  <2>3. run.state = "found" BY DEF ReportComment
  <2> QED BY <2>1, <2>2, <2>3, LateOutcome DEF LateRun
<1>2. PICK r : /\ runs' = [runs EXCEPT ![i] = r] /\ r \in LateRun /\ r.cid = run.cid
               /\ r.state = "completed" /\ ResultAs(i, r) = c
  <2>1. PICK conclusion \in Conclusions(run) :
          runs' = [runs EXCEPT ![i] = [run EXCEPT !.state = "completed", !.conclusion = conclusion]]
    BY DEF ReportComment
  <2> DEFINE r == [run EXCEPT !.state = "completed", !.conclusion = conclusion]
  <2>2. conclusion \in Results BY DEF Conclusions, Results, Outcome
  <2>3. /\ r \in LateRun /\ r.cid = run.cid /\ r.state = "completed"
        /\ r.attempt = run.attempt /\ r.validate = run.validate /\ r.ppu = run.ppu
    BY <1>1, <2>2 DEF LateRun
  <2>4. runs' = [runs EXCEPT ![i] = r] BY <2>1
  <2> HIDE DEF r
  <2>5. ResultAs(i, r) = c BY <2>3 DEF ResultAs, Outcome
  <2> QED BY <2>3, <2>4, <2>5
<1>3. /\ runs \in Seq(LateRun) /\ thread \in Seq(Comments) /\ faults \in Nat
      /\ Len(thread) \in Nat
  BY LenProperties DEF CommentsInv, RunsLate, ThreadTyped
<1>4. /\ runs' \in Seq(LateRun) /\ Len(runs') = Len(runs)
      /\ \A j \in 1 .. Len(runs) : runs'[j] = IF j = i THEN r ELSE runs[j]
  BY <1>2, <1>3, ExceptSeq
<1>5. OwnersKept BY <1>2, <1>4 DEF OwnersKept
<1>6. n = 0 \/ (n \in 1 .. Len(thread) /\ thread[n].cid = run.cid)
  BY <1>1 DEF CommentsInv, FoundIsOwn, IsOwn
<1>7. ResultOf(i) = c BY DEF ResultOf, ResultAs
<1>8. CASE thread' = thread /\ faults' = faults + 1
  <2>1. ~ Ended(r) \/ faults' # 0 BY <1>3, <1>8
  <2>2. r.state # "found" BY <1>2
  <2> QED BY <1>2, <1>8, <2>1, <2>2, RunWorks DEF FaultsGrow
<1>9. CASE faults' = faults /\ n = 0 /\ thread' = Append(thread, c)
  <2>1. /\ thread' \in Seq(Comments) /\ Len(thread') = Len(thread) + 1
        /\ thread'[Len(thread) + 1] = c
        /\ \A k \in 1 .. Len(thread) : thread'[k] = thread[k]
    BY <1>1, <1>3, <1>9, AppendProperties
  <2>2. Len(thread) <= Len(thread') /\ Len(thread) + 1 \in 1 .. Len(thread')
        /\ \A k \in 1 .. Len(thread) : k \in 1 .. Len(thread')
    BY <1>3, <2>1
  <2>3. AnswersKept /\ ThreadTyped' BY <2>1, <2>2 DEF AnswersKept, ThreadTyped
  <2>4. FoundIsOwn'
    BY <1>2, <1>4, <2>1, <2>2 DEF CommentsInv, FoundIsOwn, IsOwn
  <2>5. ResultsAreShown'
    BY <1>2, <1>4, <1>9, <2>1, <2>2 DEF CommentsInv, ResultsAreShown
  <2> QED BY <1>4, <1>5, <1>9, <2>3, <2>4, <2>5, WorkGoes DEF FaultsGrow
<1>10. CASE faults' = faults /\ n # 0 /\ thread' = [thread EXCEPT ![n] = c]
  <2>1. /\ thread' \in Seq(Comments) /\ Len(thread') = Len(thread)
        /\ \A k \in 1 .. Len(thread) : thread'[k] = IF k = n THEN c ELSE thread[k]
    BY <1>1, <1>3, <1>6, <1>10, ExceptSeq
  <2>2. c.cid = run.cid BY DEF ResultAs
  <2> HIDE DEF c
  <2>3. \A k \in 1 .. Len(thread) : thread'[k].cid = thread[k].cid
    BY <1>6, <1>10, <2>1, <2>2
  <2>4. AnswersKept /\ ThreadTyped' BY <1>3, <2>1, <2>3 DEF AnswersKept, ThreadTyped
  <2>5. FoundIsOwn'
    BY <1>2, <1>4, <2>1, <2>3 DEF CommentsInv, FoundIsOwn, IsOwn
  <2>6. ResultsAreShown'
    <3> SUFFICES ASSUME faults' = 0, NEW j \in 1 .. Len(runs), Ended(runs'[j])
                 PROVE  \E k \in 1 .. Len(thread) : thread'[k] = ResultAs(j, runs'[j])
      BY <1>4, <2>1 DEF ResultsAreShown
    <3>1. CASE j = i BY <1>2, <1>4, <1>6, <1>10, <2>1, <3>1
    <3>2. CASE j # i
      <4>1. runs'[j] = runs[j] BY <1>4, <3>2
      <4>2. PICK k \in 1 .. Len(thread) : thread[k] = ResultAs(j, runs[j])
        BY <1>10, <4>1 DEF CommentsInv, ResultsAreShown
      <4>3. thread[k].cid = runs[j].cid BY <4>2 DEF ResultAs
      <4>4. runs[j].cid # run.cid BY <1>3, <1>10, <3>2 DEF CommentsInv, OwnersDiffer
      <4>5. k # n BY <1>6, <1>10, <4>3, <4>4
      <4> QED BY <2>1, <4>1, <4>2, <4>5
    <3> QED BY <3>1, <3>2
  <2> QED BY <1>4, <1>5, <1>10, <2>4, <2>5, <2>6, WorkGoes DEF FaultsGrow
<1> QED BY <1>7, <1>8, <1>9, <1>10 DEF ReportComment, Fault

LEMMA ExecuteWorks ==
  ASSUME CommentsInv, UNCHANGED << head, env, ctlVars, ctl >>, NEW i \in 1 .. Len(runs), Execute(i)
  PROVE  CommentsInv'
BY JobsOfRun, FindWorks, ReportWorks DEF Execute

\* The queue may hold anything here: a run that is started has not ended.
LEMMA StartWorks ==
  ASSUME CommentsInv, UNCHANGED << head, env, ctlVars, ctl >>, Start
  PROVE  CommentsInv'
<1> DEFINE i == Head(waiting)
           r == [runs[i] EXCEPT !.state = FirstJob(runs[i])]
<1>1. runs' = [runs EXCEPT ![i] = r] /\ thread' = thread /\ faults' = faults BY DEF Start
<1>2. FirstJob(runs[i]) \in {"validate", "ppu", "report"} BY DEF FirstJob
<1>3. CASE i \in 1 .. Len(runs)
  <2>1. runs[i] \in LateRun BY <1>3, LateTyped
  <2>2. r \in LateRun /\ r.cid = runs[i].cid /\ r.state \in {"validate", "ppu", "report"}
    BY <1>2, <2>1 DEF LateRun, Executing
  <2> HIDE DEF i, r
  <2> QED BY <1>1, <1>3, <2>2, RunWorks DEF FaultsGrow, Ended
<1>4. CASE i \notin 1 .. Len(runs)
  <2>1. runs \in Seq(LateRun) BY DEF CommentsInv, RunsLate
  <2> HIDE DEF i, r
  <2>2. runs' = runs BY <1>1, <1>4, <2>1
  <2>3. UNCHANGED << runs, thread, faults >> BY <1>1, <2>2
  <2>4. head' \in Heads BY DEF CommentsInv, RunsLate
  <2> QED BY <2>3, <2>4, StillGoes
<1> QED BY <1>3, <1>4

LEMMA LateAttempt ==
  ASSUME NEW run \in LateRun, NEW failedOnly \in BOOLEAN
  PROVE  LET r == NextAttempt(run, failedOnly)
         IN  r \in LateRun /\ r.cid = run.cid /\ r.state = "queued"
<1> DEFINE v == IF failedOnly /\ run.validate = "success" THEN run.validate ELSE "none"
           p == IF failedOnly /\ run.ppu = "success" THEN run.ppu ELSE "none"
           n == run.attempt + 1
           q == [run EXCEPT !.attempt = n, !.state = "queued", !.conclusion = "none"]
           r == [q EXCEPT !.cancel = FALSE, !.reply = 0, !.validate = v, !.ppu = p]
<1>1. v \in Results /\ p \in Results /\ "none" \in Results /\ n \in Nat
  BY DEF LateRun, Results
<1>2. NextAttempt(run, failedOnly) = r
  BY DEF NextAttempt, LateRun
<1> HIDE DEF v, p, n
<1>3. q \in LateRun /\ q.cid = run.cid /\ q.state = "queued"
  BY <1>1 DEF LateRun
<1> HIDE DEF q
<1>4. r \in LateRun /\ r.cid = q.cid /\ r.state = q.state
  BY <1>1, <1>3 DEF LateRun
<1>5. QED
  BY <1>2, <1>3, <1>4

LEMMA AnswerTyped == ASSUME CommentsInv PROVE Answer \in Comments
BY DEF CommentsInv, JobKnowsComment, Answer, Comments, States

\* A new attempt is no result.
LEMMA RerunGoes ==
  ASSUME CommentsInv, NEW i, NEW failedOnly \in BOOLEAN, Rerun(i, failedOnly),
         thread' = thread, FaultsGrow
  PROVE  /\ runs' \in Seq(LateRun) /\ OwnersKept /\ AnswersKept /\ ThreadTyped'
         /\ FoundIsOwn' /\ ResultsAreShown'
<1> DEFINE r == NextAttempt(runs[i], failedOnly)
<1>1. runs' = [runs EXCEPT ![i] = r] BY DEF Rerun
<1>2. CASE i \in 1 .. Len(runs)
  <2>1. runs[i] \in LateRun BY <1>2, LateTyped
  <2>2. r \in LateRun /\ r.cid = runs[i].cid /\ r.state = "queued" BY <2>1, LateAttempt
  <2> HIDE DEF r
  <2> QED BY <1>1, <1>2, <2>2, RunGoes DEF Ended
<1>3. CASE i \notin 1 .. Len(runs)
  <2>1. runs \in Seq(LateRun) BY DEF CommentsInv, RunsLate
  <2> HIDE DEF r
  <2>2. runs' = runs BY <1>1, <1>3, <2>1
  <2> QED BY <2>1, <2>2, AnswerTyped, AnswerGoes
<1> QED BY <1>2, <1>3

LEMMA NativeWorks ==
  ASSUME CommentsInv, UNCHANGED << head, env, ctlVars, ctl >>, NEW i \in 1 .. Len(runs),
         NativeRerun(i)
  PROVE  CommentsInv'
<1>1. PICK failedOnly \in BOOLEAN : Rerun(i, failedOnly) BY DEF NativeRerun
<1>2. thread' = thread /\ FaultsGrow BY DEF NativeRerun, FaultsGrow
<1> QED BY <1>1, <1>2, RerunGoes, WorkGoes

LEMMA PushWorks ==
  ASSUME CommentsInv, env' = env, UNCHANGED << ctlVars, ctl >>, Push
  PROVE  CommentsInv'
<1>1. head' \in Heads BY CiAssumption DEF Push, Heads, CommentsInv, RunsLate
<1> QED BY <1>1, StillGoes DEF Push

--------------------------------------------------------------------------------
\* The job.
LEMMA ControlGoes ==
  ASSUME CommentsInv, UNCHANGED << head, env >>, CommandsTyped', JobKnowsComment', JobGoes,
         FaultsGrow, runs' \in Seq(LateRun), OwnersKept, AnswersKept, ThreadTyped',
         FoundIsOwn', ResultsAreShown'
  PROVE  CommentsInv'
<1>1. OwnersAnswer' /\ JobsStartAnew' /\ OwnersDiffer' BY OwnersStand
<1>2. RunsLate' BY DEF CommentsInv, RunsLate, FaultsGrow
<1> QED BY <1>1, <1>2 DEF CommentsInv

LEMMA ControlAnswers ==
  ASSUME CommentsInv, UNCHANGED << head, env, runs >>, CommandsTyped', JobKnowsComment', JobGoes,
         FaultsGrow, thread' = thread \/ thread' = Append(thread, Answer)
  PROVE  CommentsInv'
<1>1. runs' \in Seq(LateRun) BY DEF CommentsInv, RunsLate
<1> QED BY <1>1, AnswerTyped, AnswerGoes, ControlGoes

LEMMA JobStays ==
  ASSUME CommentsInv, UNCHANGED << head, env, runs, thread, ctlVars >>, JobKnowsComment', JobGoes,
         FaultsGrow
  PROVE  CommentsInv'
<1>1. CommandsTyped' BY DEF CommentsInv, CommandsTyped, ctlVars
<1> QED BY <1>1, ControlAnswers

LEMMA Moved ==
  ASSUME CommentsInv, NEW pc, Goto(pc) \/ ClearThen("reply") \/ ClearThen("fallback")
  PROVE  JobKnowsComment' /\ SameComment /\ (Goto(pc) => ctl'.pc = pc)
BY DEF CommentsInv, JobKnowsComment, Goto, ClearThen, SameComment

LEMMA IdleTyped == ASSUME ctl' = Idle PROVE JobKnowsComment' /\ ctl'.pc = "idle"
BY CiAssumption DEF Idle, JobKnowsComment, Heads

LEMMA TakeGoes == ASSUME CommentsInv, Take, env' = env PROVE CommentsInv'
<1>1. queue \in Seq(Nat) /\ queue # << >> BY DEF Take, CommentsInv, CommandsTyped
<1>2. Head(queue) \in Nat /\ Tail(queue) \in Seq(Nat) BY <1>1, HeadTailProperties
<1>3. ctl' = [Idle EXCEPT !.pc = "begin", !.cid = Head(queue)] /\ queue' = Tail(queue)
  BY DEF Take
<1>4. JobKnowsComment' /\ ctl'.pc = "begin"
  <2>1. 0 \in Heads BY CiAssumption DEF Heads
  <2>2. ctl' = [pc |-> "begin", cid |-> Head(queue), sha |-> 0, tested |-> FALSE, run |-> 0,
                todo |-> {}, then |-> "reply"]
    BY <1>3 DEF Idle
  <2> HIDE DEF Heads
  <2> QED BY <1>2, <2>1, <2>2 DEF JobKnowsComment
<1>5. CommandsTyped' BY <1>2, <1>3 DEF Take, CommandsTyped, CommentsInv
<1>6. JobGoes /\ FaultsGrow BY <1>4 DEF Take, At, JobGoes, runVars, FaultsGrow
<1> QED BY <1>4, <1>5, <1>6, ControlAnswers DEF Take, runVars

LEMMA BeginGoes == ASSUME CommentsInv, Begin, env' = env PROVE CommentsInv'
<1>1. ctl.pc = "begin" /\ UNCHANGED << head, runs, thread, faults, ctlVars >>
  BY DEF Begin, At, runVars
<1>2. CASE ctl' = Idle
  BY <1>1, <1>2, IdleTyped, JobStays DEF JobGoes, FaultsGrow
<1>3. CASE Marked(ctl.cid) = {} /\ ctl' = [ctl EXCEPT !.pc = "list", !.sha = head]
  <2>1. ~ Written(ctl.cid) BY <1>3 DEF Marked, Written, CommentsInv, ThreadTyped
  <2>2. JobKnowsComment' /\ ctl'.pc = "list" /\ SameComment
    BY <1>3 DEF CommentsInv, JobKnowsComment, SameComment, RunsLate
  <2> QED BY <1>1, <2>1, <2>2, JobStays DEF JobGoes, FaultsGrow
<1> QED BY <1>2, <1>3 DEF Begin

\* What a job reads changes nothing that a comment shows.
LEMMA ReadsGo ==
  ASSUME CommentsInv, env' = env,
         Refuse \/ ListRuns \/ Fresh \/ ListForRetry \/ ListForCancel \/ ReadFails
  PROVE  CommentsInv'
<1>1. /\ UNCHANGED << head, runs, thread, ctlVars >> /\ FaultsGrow
  BY DEF Refuse, ListRuns, Fresh, ListForRetry, ListForCancel, ReadFails, runVars, Fault, FaultsGrow
<1>2. /\ ctl.pc \in BeforeRequest \/ (ctl.pc = "begin" /\ ctl'.pc = "fallback")
      /\ JobKnowsComment' /\ SameComment
  <2>1. CASE Refuse BY <2>1, Moved DEF Refuse, At, BeforeRequest
  <2>2. CASE Fresh BY <2>2, Moved DEF Fresh, At, BeforeRequest
  <2>3. CASE ReadFails BY <2>3, Moved DEF ReadFails, At, BeforeRequest
  <2>4. CASE ListRuns
    <3>1. Goto("reply") \/ \E b : ctl' = [ctl EXCEPT !.pc = "fresh", !.tested = b]
      BY <2>4 DEF ListRuns
    <3>2. ctl.pc \in BeforeRequest BY <2>4 DEF ListRuns, At, BeforeRequest
    <3> QED BY <3>1, <3>2, Moved DEF CommentsInv, JobKnowsComment, SameComment
  <2>5. CASE ListForRetry
    <3>1. Goto("reply") \/ \E b : ctl' = [ctl EXCEPT !.pc = "launch", !.run = b]
      BY <2>5 DEF ListForRetry
    <3>2. ctl.pc \in BeforeRequest BY <2>5 DEF ListForRetry, At, BeforeRequest
    <3> QED BY <3>1, <3>2, Moved DEF CommentsInv, JobKnowsComment, SameComment
  <2>6. CASE ListForCancel
    <3>1. \E b : ctl' = [ctl EXCEPT !.pc = "cancel", !.todo = b]
      BY <2>6 DEF ListForCancel
    <3>2. ctl.pc \in BeforeRequest BY <2>6 DEF ListForCancel, At, BeforeRequest
    <3> QED BY <3>1, <3>2 DEF CommentsInv, JobKnowsComment, SameComment
  <2> QED BY <2>1, <2>2, <2>3, <2>4, <2>5, <2>6
<1>3. JobGoes BY <1>2 DEF JobGoes
<1> QED BY <1>1, <1>2, <1>3, JobStays

LEMMA LaunchGoes == ASSUME CommentsInv, Launch, env' = env PROVE CommentsInv'
<1>1. ctl.pc \in BeforeRequest /\ UNCHANGED << head, runs, thread, ctlVars >> /\ FaultsGrow
  BY DEF Launch, At, BeforeRequest, Fault, FaultsGrow
<1>2. JobKnowsComment' /\ SameComment BY Moved DEF Launch
<1> QED BY <1>1, <1>2, JobStays DEF JobGoes

LEMMA ClearGoes == ASSUME CommentsInv, Clear, env' = env PROVE CommentsInv'
<1>1. ctl.pc = "clear" /\ UNCHANGED << head, runs, thread, ctlVars >> /\ FaultsGrow
  BY DEF Clear, At, Fault, FaultsGrow
<1>2. ctl.then \in {"reply", "fallback"} BY DEF CommentsInv, JobKnowsComment
<1>3. JobKnowsComment' /\ SameComment /\ ctl'.pc \in {"reply", "fallback"}
  BY <1>2, Moved DEF Clear
<1> QED BY <1>1, <1>3, JobStays DEF JobGoes

\* A request starts one run, for a comment that has none.
LEMMA RequestRunGoes == ASSUME CommentsInv, RequestRun, env' = env PROVE CommentsInv'
<1>1. /\ ctl.pc = "post" /\ ctl.pc \in BeforeRequest
      /\ UNCHANGED << head, thread, ctlVars >> /\ FaultsGrow
  BY DEF RequestRun, At, BeforeRequest, Fault, FaultsGrow
<1>2. JobKnowsComment' /\ SameComment BY Moved DEF RequestRun
<1>3. CASE runs' = runs
  BY <1>1, <1>2, <1>3, JobStays DEF JobGoes
<1>4. CASE Dispatched(ctl.sha, ctl.cid)
  <2> DEFINE r == NewRun(ctl.sha, ctl.cid)
             n == Len(runs) + 1
  <2>1. /\ runs \in Seq(LateRun) /\ Len(runs) \in Nat /\ ThreadTyped /\ faults \in Nat
        /\ runs' = Append(runs, r)
    BY <1>4, LenProperties DEF CommentsInv, RunsLate, Dispatched
  <2>2. ctl.sha \in Heads /\ ctl.cid \in Nat /\ 1 \in Nat /\ env.lag \in BOOLEAN
    BY CiAssumption DEF CommentsInv, JobKnowsComment, RunsLate
  <2>3. r \in LateRun /\ r.cid = ctl.cid /\ r.state = "queued"
    BY <2>2 DEF NewRun, LateRun, Results
  <2> HIDE DEF r
  <2>4. /\ runs' \in Seq(LateRun) /\ Len(runs') = n /\ runs'[n] = r
        /\ \A j \in 1 .. Len(runs) : runs'[j] = runs[j]
    BY <2>1, <2>3, AppendProperties
  <2>5. \A j \in 1 .. Len(runs') : j = n \/ j \in 1 .. Len(runs) BY <2>1, <2>4
  <2>6. ctl'.cid = ctl.cid BY <1>2 DEF SameComment
  <2>7. (ctl'.pc = "reply" \/ (ctl'.pc = "clear" /\ faults' = faults + 1)) \/ runs' = runs
    BY <1>2 DEF RequestRun, Goto, ClearThen, Fault, JobKnowsComment, CommentsInv
  <2>8. runs' # runs BY <2>1, <2>4
  <2>9. ASSUME faults' <= 1
        PROVE  /\ ctl'.pc = "reply" \/ (ctl'.pc = "clear" /\ faults' = 1)
               /\ \A i \in 1 .. Len(runs) : runs[i].cid # ctl.cid /\ Written(runs[i].cid)
    <3>1. faults <= 1 /\ (faults' = faults + 1 => faults' = 1)
      BY <1>1, <2>1, <2>9 DEF FaultsGrow
    <3>2. \A i \in 1 .. Len(runs) : runs[i].cid # ctl.cid
      BY <1>1, <3>1 DEF CommentsInv, JobsStartAnew
    <3>3. \A i \in 1 .. Len(runs) : Written(runs[i].cid)
      BY <3>1, <3>2 DEF CommentsInv, OwnersAnswer
    <3> QED BY <2>7, <2>8, <3>1, <3>2, <3>3
  <2>10. OwnersAnswer'
    BY <1>1, <2>3, <2>4, <2>5, <2>6, <2>9 DEF OwnersAnswer, Writing, Written
  <2>11. JobsStartAnew'
    <3>1. faults' <= 1 => ctl'.pc \notin BeforeRequest BY <2>9 DEF BeforeRequest
    <3> QED BY <3>1 DEF JobsStartAnew
  <2>12. OwnersDiffer'
    <3> SUFFICES ASSUME faults' <= 1, NEW i \in 1 .. Len(runs'), NEW j \in 1 .. Len(runs'),
                        runs'[i].cid = runs'[j].cid
                 PROVE  i = j
      BY DEF OwnersDiffer
    <3>1. faults <= 1 BY <1>1, <2>1 DEF FaultsGrow
    <3> QED BY <2>3, <2>4, <2>5, <2>9, <3>1 DEF CommentsInv, OwnersDiffer
  <2>13. FoundIsOwn'
    BY <1>1, <2>3, <2>4, <2>5 DEF CommentsInv, FoundIsOwn, IsOwn
  <2>14. ResultsAreShown'
    <3>1. faults' = 0 => faults = 0 BY <1>1, <2>1 DEF FaultsGrow
    <3>2. ~ Ended(r) BY <2>3 DEF Ended
    <3> QED BY <1>1, <2>4, <2>5, <3>1, <3>2 DEF CommentsInv, ResultsAreShown
  <2>15. RunsLate' /\ ThreadTyped' /\ CommandsTyped'
    BY <1>1, <2>4 DEF CommentsInv, RunsLate, ThreadTyped, CommandsTyped, FaultsGrow, ctlVars
  <2> QED BY <1>2, <2>10, <2>11, <2>12, <2>13, <2>14, <2>15 DEF CommentsInv
<1> QED BY <1>3, <1>4 DEF RequestRun

LEMMA RequestRetryGoes == ASSUME CommentsInv, RequestRetry, env' = env PROVE CommentsInv'
<1>1. /\ ctl.pc \in BeforeRequest /\ UNCHANGED << head, thread, ctlVars >> /\ FaultsGrow
      /\ runs' = runs \/ Rerun(ctl.run, TRUE) \/ Rerun(ctl.run, FALSE)
  BY DEF RequestRetry, At, BeforeRequest, Fault, FaultsGrow
<1>2. JobKnowsComment' /\ SameComment BY Moved DEF RequestRetry
<1>3. JobGoes BY <1>1, <1>2 DEF JobGoes
<1>4. CASE runs' = runs BY <1>1, <1>2, <1>3, <1>4, JobStays
<1>5. CASE Rerun(ctl.run, TRUE) \/ Rerun(ctl.run, FALSE)
  <2>1. CommandsTyped' BY <1>1 DEF CommentsInv, CommandsTyped, ctlVars
  <2> QED BY <1>1, <1>2, <1>3, <1>5, <2>1, RerunGoes, ControlGoes
<1> QED BY <1>1, <1>4, <1>5

LEMMA CancelGoes == ASSUME CommentsInv, CancelRun \/ CancelStatus, env' = env PROVE CommentsInv'
<1>1. /\ ctl.pc \in BeforeRequest /\ UNCHANGED << head, thread, ctlVars >> /\ FaultsGrow
  BY DEF CancelRun, CancelStatus, At, BeforeRequest, Fault, FaultsGrow
<1>2. CASE runs' = runs
  <2>1. \/ \E pc : Goto(pc)
        \/ \E n : ctl' = [ctl EXCEPT !.pc = "cancelled", !.run = n]
        \/ \E s : ctl' = [ctl EXCEPT !.pc = "cancel", !.todo = s]
    BY DEF CancelRun, CancelStatus
  <2>2. JobKnowsComment' /\ SameComment
    BY <2>1, Moved DEF CommentsInv, JobKnowsComment, SameComment
  <2> QED BY <1>1, <1>2, <2>2, JobStays DEF JobGoes
<1>3. CASE /\ Active(Max(ctl.todo)) /\ runs' = [runs EXCEPT ![Max(ctl.todo)].cancel = TRUE]
           /\ ctl' = [ctl EXCEPT !.pc = "cancelled", !.run = Max(ctl.todo)]
  <2> DEFINE i == Max(ctl.todo)
             r == [runs[i] EXCEPT !.cancel = TRUE]
  <2>1. JobKnowsComment' /\ SameComment
    BY <1>3 DEF CommentsInv, JobKnowsComment, SameComment
  <2>2. CommandsTyped' BY <1>1 DEF CommentsInv, CommandsTyped, ctlVars
  <2>3. runs' = [runs EXCEPT ![i] = r] /\ runs \in Seq(LateRun)
    BY <1>3 DEF CommentsInv, RunsLate
  <2>4. /\ runs' \in Seq(LateRun) /\ OwnersKept /\ AnswersKept /\ ThreadTyped'
        /\ FoundIsOwn' /\ ResultsAreShown'
    <3>1. CASE i \in 1 .. Len(runs)
      <4>1. runs[i] \in LateRun BY <3>1, LateTyped
      <4>2. /\ r \in LateRun
            /\ r.cid = runs[i].cid /\ r.state = runs[i].state /\ r.reply = runs[i].reply
            /\ r.attempt = runs[i].attempt /\ r.validate = runs[i].validate
            /\ r.ppu = runs[i].ppu /\ r.conclusion = runs[i].conclusion
        BY <4>1 DEF LateRun
      <4> HIDE DEF i, r
      <4> QED BY <1>1, <2>3, <3>1, <4>2, FlagKept, RunGoes
    <3>2. CASE i \notin 1 .. Len(runs)
      <4> HIDE DEF i, r
      <4>1. runs' = runs BY <2>3, <3>2
      <4> QED BY <1>1, <2>3, <4>1, AnswerTyped, AnswerGoes
    <3> QED BY <3>1, <3>2
  <2> QED BY <1>1, <2>1, <2>2, <2>4, ControlGoes DEF JobGoes
<1> QED BY <1>2, <1>3 DEF CancelRun, CancelStatus

LEMMA AnswerIsWritten ==
  ASSUME ThreadTyped, Answer \in Comments, thread' = Append(thread, Answer)
  PROVE  \E k \in 1 .. Len(thread') : thread'[k].cid = ctl.cid
<1>1. /\ Len(thread') = Len(thread) + 1 /\ thread'[Len(thread) + 1] = Answer
      /\ Len(thread) \in Nat
  BY AppendProperties, LenProperties DEF ThreadTyped
<1>2. Len(thread) + 1 \in 1 .. Len(thread') BY <1>1
<1> QED BY <1>1, <1>2 DEF Answer

LEMMA AnswersGo == ASSUME CommentsInv, Reply \/ Fallback, env' = env PROVE CommentsInv'
<1>1. /\ UNCHANGED << head, runs, commands, queue >> /\ FaultsGrow
      /\ thread' = thread \/ thread' = Append(thread, Answer)
      /\ failed' \in {failed, failed \cup {ctl.cid}}
  BY DEF Reply, Fallback, Fault, FaultsGrow, ctlVars
<1>2. CommandsTyped' BY <1>1 DEF CommentsInv, CommandsTyped, JobKnowsComment
<1>3. thread' = Append(thread, Answer) => \E k \in 1 .. Len(thread') : thread'[k].cid = ctl.cid
  BY AnswerTyped, AnswerIsWritten DEF CommentsInv
<1>4. JobKnowsComment' /\ JobGoes
  <2>1. CASE Reply /\ ctl' = Idle
    <3>1. thread' = Append(thread, Answer) \/ Goto("fallback") BY <2>1 DEF Reply
    <3>2. ctl.pc = "reply" BY <2>1 DEF Reply, At
    <3>3. ctl'.pc # "fallback" BY <2>1, IdleTyped
    <3>4. ~ Goto("fallback") BY <3>3, Moved
    <3> QED BY <1>3, <2>1, <3>1, <3>2, <3>4, IdleTyped DEF JobGoes
  <2>2. CASE Reply /\ Goto("fallback") /\ Fault("comment")
    BY <2>2, Moved DEF Reply, At, JobGoes, Fault
  <2>3. CASE Fallback
    BY <1>3, <2>3, IdleTyped DEF Fallback, At, JobGoes, Fault
  <2> QED BY <2>1, <2>2, <2>3 DEF Reply
<1> QED BY <1>1, <1>2, <1>4, ControlAnswers

LEMMA PostGoes ==
  ASSUME CommentsInv, NEW c \in Command, Post(c) \/ \E cid \in failed : Redeliver(cid), env' = env
  PROVE  CommentsInv'
<1>1. /\ UNCHANGED << head, runs, thread, faults, ctl >>
      /\ failed' \subseteq failed
      /\ commands' = commands \/ commands' = Append(commands, c)
      /\ queue' = Append(queue, Len(commands) + 1) \/ \E cid \in failed : queue' = Append(queue, cid)
  BY DEF Post, Redeliver, runVars
<1>2. commands \in Seq(Command) /\ queue \in Seq(Nat) /\ failed \subseteq Nat /\ Len(commands) + 1 \in Nat
  BY LenProperties DEF CommentsInv, CommandsTyped
<1>3. CommandsTyped'
  <2>1. commands' \in Seq(Command)
    <3>1. CASE commands' = commands BY <1>2, <3>1
    <3>2. CASE commands' = Append(commands, c) BY <1>2, <3>2, AppendProperties
    <3> QED BY <1>1, <3>1, <3>2
  <2>2. queue' \in Seq(Nat)
    <3>1. PICK n \in Nat : queue' = Append(queue, n)
      <4>1. CASE queue' = Append(queue, Len(commands) + 1) BY <1>2, <4>1
      <4>2. CASE \E cid \in failed : queue' = Append(queue, cid) BY <1>2, <4>2
      <4> QED BY <1>1, <4>1, <4>2
    <3> QED BY <1>2, <3>1, AppendProperties
  <2>3. failed' \subseteq Nat BY <1>1, <1>2
  <2> QED BY <2>1, <2>2, <2>3 DEF CommandsTyped
<1>4. JobKnowsComment' /\ JobGoes /\ FaultsGrow
  BY <1>1 DEF CommentsInv, JobKnowsComment, JobGoes, SameComment, FaultsGrow
<1> QED BY <1>1, <1>3, <1>4, ControlAnswers

--------------------------------------------------------------------------------
LEMMA CommentsInit == ASSUME Init PROVE CommentsInv
<1>1. 0 \in Heads /\ Len(runs) = 0 /\ Len(thread) = 0 BY CiAssumption DEF Heads, Init, RunsInit
<1>2. RunsLate /\ ThreadTyped /\ CommandsTyped
  BY <1>1 DEF Init, RunsInit, RunsLate, ThreadTyped, CommandsTyped
<1>3. JobKnowsComment BY <1>1 DEF Init, Idle, JobKnowsComment
<1>4. OwnersAnswer /\ JobsStartAnew /\ OwnersDiffer /\ FoundIsOwn /\ ResultsAreShown
  BY <1>1 DEF OwnersAnswer, JobsStartAnew, OwnersDiffer, FoundIsOwn, ResultsAreShown
<1> QED BY <1>2, <1>3, <1>4 DEF CommentsInv

LEMMA CommentsNext == ASSUME CommentsInv, [Next]_<< vars, env >> PROVE CommentsInv'
<1>0. Ids = 1 .. Len(runs) BY DEF Ids, CommentsInv, RunsLate
<1>1. CASE Control /\ env' = env
  BY <1>1, TakeGoes, BeginGoes, ReadsGo, LaunchGoes, RequestRunGoes, RequestRetryGoes, ClearGoes,
     CancelGoes, AnswersGo
     DEF Control
<1>2. CASE (\E c \in Command : Post(c)) /\ env' = env
  BY <1>2, PostGoes
<1>3. CASE (\E cid \in failed : Redeliver(cid)) /\ env' = env
  <2>1. [action |-> "run", writer |-> TRUE] \in Command BY DEF Command
  <2> QED BY <1>3, <2>1, PostGoes
<1>4. CASE (Start \/ Push) /\ UNCHANGED << ctlVars, ctl >> /\ env' = env
  <2>1. Start => head' = head BY DEF Start
  <2> QED BY <1>4, <2>1, StartWorks, PushWorks
<1>5. ASSUME NEW i \in Ids, Work(i) \/ NativeRerun(i), UNCHANGED << ctlVars, ctl >>, env' = env
      PROVE  CommentsInv'
  <2>1. head' = head
    BY <1>5 DEF Work, NativeRerun, Execute, Stop, Appear, ValidateRefuses, ValidateAccepts,
                ValidateSetsPending, Test, ReportStatus, FindComment, ReportComment
  <2> QED BY <1>0, <1>5, <2>1, ExecuteWorks, StopWorks, AppearWorks, NativeWorks DEF Work
<1>6. CASE UNCHANGED << vars, env >>
  <2>1. UNCHANGED << env, ctlVars, ctl, runs, thread, faults >> /\ head' \in Heads
    BY <1>6 DEF vars, runVars, CommentsInv, RunsLate
  <2> QED BY <2>1, StillGoes
<1> QED BY <1>1, <1>2, <1>3, <1>4, <1>5, <1>6 DEF Next

\* For every environment, any number of commands, pushes, re-deliveries, re-runs and faults:
\* who answers for a run, and whose comment a report is about to replace.
THEOREM CommentsAreSound == Spec => []CommentsInv
BY CommentsInit, CommentsNext, PTL DEF Spec

\* Whatever the order of the controller's answer, the results and the retries, a comment
\* shows how the last attempt ended, while no call failed; also where the list lags and runs
\* are run again by hand.
THEOREM LastResultAlwaysShown == Spec => []LastResultIsShown
<1>1. CommentsInv => LastResultIsShown
  <2> SUFFICES ASSUME CommentsInv, AtRest, faults = 0, NEW i \in Ids,
                      runs[i].conclusion # "cancelled"
               PROVE  \E k \in DOMAIN thread : thread[k] = ResultOf(i)
    BY DEF LastResultIsShown
  <2>1. i \in 1 .. Len(runs) /\ Ended(runs[i])
    BY DEF Ids, CommentsInv, RunsLate, AtRest, Active, Ended
  <2>2. PICK k \in 1 .. Len(thread) : thread[k] = ResultAs(i, runs[i])
    BY <2>1 DEF CommentsInv, ResultsAreShown
  <2>3. k \in DOMAIN thread BY DEF CommentsInv, ThreadTyped
  <2> QED BY <2>2, <2>3 DEF ResultAs, ResultOf
<1> QED BY <1>1, CommentsAreSound, PTL

\* No more calls fail than the environment lets fail.
FaultsCounted == faults \in Nat /\ env \in Environments /\ faults <= env.faults

LEMMA FaultsStayCounted == ASSUME FaultsCounted, [Next]_<< vars, env >> PROVE FaultsCounted'
<1>1. env.faults \in Nat BY CiAssumption DEF FaultsCounted
<1>2. /\ env' = env
      /\ faults' = faults \/ (faults < env.faults /\ faults' = faults + 1)
  <2>1. CASE UNCHANGED << vars, env >> BY <2>1 DEF vars, runVars
  <2>2. CASE Control /\ env' = env
    BY <2>2 DEF Control, Take, Begin, Refuse, ListRuns, Fresh, ListForRetry, ListForCancel, ReadFails,
                Launch, RequestRun, RequestRetry, Clear, CancelRun, CancelStatus, Reply, Fallback,
                Fault, runVars
  <2>3. CASE ((\E c \in Command : Post(c)) \/ \E cid \in failed : Redeliver(cid)) /\ env' = env
    BY <2>3 DEF Post, Redeliver, runVars
  <2>4. CASE (Start \/ Push \/ \E i \in Ids : Work(i) \/ NativeRerun(i)) /\ env' = env
    BY <2>4 DEF Start, Push, Work, NativeRerun, Execute, Stop, Appear, ValidateRefuses,
                ValidateAccepts, ValidateSetsPending, Test, ReportStatus, FindComment, ReportComment,
                Fault
  <2> QED BY <2>1, <2>2, <2>3, <2>4 DEF Next
<1> QED BY <1>1, <1>2 DEF FaultsCounted

\* With at most one failing call a comment starts at most one run, whatever was run again.
THEOREM OneRunForAComment ==
  ASSUME \A e \in Environments : e.faults <= 1
  PROVE  Spec => []OneRunPerComment
<1>1. Init => FaultsCounted
  BY CiAssumption DEF Init, RunsInit, FaultsCounted
<1>2. Spec => []FaultsCounted BY <1>1, FaultsStayCounted, PTL DEF Spec
<1>3. CommentsInv /\ FaultsCounted => OneRunPerComment
  <2> SUFFICES ASSUME CommentsInv, FaultsCounted PROVE OneRunPerComment OBVIOUS
  <2>1. env.faults \in Nat /\ env.faults <= 1 BY CiAssumption DEF FaultsCounted
  <2>2. faults <= 1 BY <2>1 DEF FaultsCounted
  <2> QED BY <2>2 DEF CommentsInv, RunsLate, OwnersDiffer, OneRunPerComment, Ids
<1> QED BY <1>2, <1>3, CommentsAreSound, PTL
================================================================================
