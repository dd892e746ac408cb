--------------------------- MODULE OpsPipelineProofs ---------------------------
(***************************************************************************)
(* Theorems about the operator-test pipeline, for every configuration,     *)
(* checkout and set of selections, any boards and any number of attempts:  *)
(* a green summary was earned in its own attempt, and the directory of a   *)
(* pod that died is never taken for a success.                             *)
(***************************************************************************)
EXTENDS OpsPipeline, TLAPS

TestIds == {t.id : t \in Catalog}

Pods == [stage : Stages, expanded : BOOLEAN, todo : SUBSET TestIds,
         files : SUBSET (TestIds \X BOOLEAN)]
Probes == Attempts \X Boards
Plans == {Effective[s][b][expanded] : s \in Selections, b \in Boards, expanded \in BOOLEAN}
Dirs == [probe : Probes, podProbe : Probes \cup {NoRev}, selection : Selections \cup {NoRev},
         environment : BOOLEAN \cup {NoRev}, effective : Plans \cup {NoRev},
         timings : {NoRev} \cup SUBSET (TestIds \X BOOLEAN),
         summary : {"success", "failure", NoRev}, evidence : SUBSET TestIds]

TypeOK ==
    /\ attempt \in Attempts
    /\ selArt \in [Attempts -> Selections \cup {NoRev}]
    /\ selOutput \in Selections \cup {NoRev}
    /\ job \in [Boards -> {"waiting", "scheduled", "failing", "success", "failure"}]
    /\ pod \in [Boards -> Pods]
    /\ dir \in [Boards -> Dirs \cup {NoRev}]
    /\ art \in [Attempts -> [Boards -> {"absent", "proof", "no proof"}]]
    /\ verdict \in [Attempts -> {"none", "success", "failure", "skipped"}]
    /\ passed \in [Attempts -> SUBSET (Boards \X TestIds)]

Over == {"success", "failure"}

\* What the jobs of an attempt do follows its selection; the attempts to come
\* have left nothing.
JobsFollowSelection ==
    /\ \A b \in Boards : selOutput = NoRev =>
         job[b] = "waiting" /\ dir[b] = NoRev /\ art[attempt][b] = "absent"
    /\ selArt[attempt] # NoRev => selArt[attempt] = selOutput
    /\ \A b \in Boards : job[b] = "scheduled" => Planned(b) /\ dir[b] \in Dirs
    /\ \A b \in Boards : art[attempt][b] # "absent" => job[b] \in Over
    /\ verdict[attempt] # "none" => \A b \in Jobs : job[b] \in Over

AttemptsToCome ==
    \A a \in Attempts : a > attempt =>
        /\ selArt[a] = NoRev /\ verdict[a] = "none"
        /\ \A b \in Boards : art[a][b] = "absent"

\* A directory is of this attempt and of a selection that was accepted; its
\* evidence is of tests that did pass, and its plan is the one its pod ran.
Kept(b) == dir[b] # NoRev \/ job[b] = "scheduled"

DirectoriesAreHonest ==
    \A b \in Boards : Kept(b) =>
        /\ selArt[attempt] \in Acceptable /\ Planned(b)
        /\ dir[b].probe = <<attempt, b>>
        /\ {b} \X dir[b].evidence \subseteq passed[attempt]
        /\ dir[b].environment # NoRev => dir[b].environment = pod[b].expanded

\* A summary that says success is the last thing a pod writes.
SuccessIsLast ==
    \A b \in Boards : Kept(b) =>
        /\ pod[b].stage = "evidence" => dir[b].timings = pod[b].files /\ pod[b].todo = {}
        /\ dir[b].summary = "success" =>
             /\ pod[b].stage = "over" /\ pod[b].todo = {}
             /\ \A f \in pod[b].files : f[2]

\* An uploaded proof is of its attempt: the plan of its board did pass in it.
ProofsAreOfTheirAttempt ==
    \A a \in Attempts, b \in Boards : art[a][b] = "proof" =>
        /\ selArt[a] \in Acceptable
        /\ \E expanded \in BOOLEAN :
             /\ a = attempt => expanded = pod[b].expanded
             /\ {b} \X PlanOf(Effective[selArt[a]][b][expanded], b) \subseteq passed[a]

PipelineInv == /\ TypeOK /\ JobsFollowSelection /\ AttemptsToCome
               /\ DirectoriesAreHonest /\ SuccessIsLast
               /\ ProofsAreOfTheirAttempt /\ GreenIsEarned

--------------------------------------------------------------------------------
(* What the plan of a board is.                                                *)

\* A board has one group in a routing, and the group holds what it can run.
LEMMA RoutedOnce ==
  ASSUME NEW ids, NEW b,
         \E g \in route_tests(Config, Catalog, ids) : g.board = b
  PROVE  PlanOf(route_tests(Config, Catalog, ids), b) = GroupTests(Config, Catalog, ids, b)
<1> DEFINE groups == route_tests(Config, Catalog, ids)
<1>1. PICK g \in groups : g = CHOOSE h \in groups : h.board = b
  OBVIOUS
<1>2. g.board = b
  BY <1>1
<1>3. PICK c \in Boards : g = [board |-> c, tests |-> GroupTests(Config, Catalog, ids, c)]
  BY DEF route_tests
<1>4. c = b /\ g.tests = GroupTests(Config, Catalog, ids, c)
  BY <1>2, <1>3
<1>5. PlanOf(groups, b) = g.tests
  BY <1>1 DEF PlanOf
<1>6. QED
  BY <1>4, <1>5

LEMMA AcceptedIsRouted ==
  ASSUME NEW sel \in Acceptable
  PROVE  /\ sel \in Selections /\ sel # NoRev
         /\ sel.groups = route_tests(Config, Catalog, sel.ids)
         /\ sel.ids \subseteq TestIds
BY PipelineAssumption DEF Acceptable, validate_selection, Catalog, TestIds

LEMMA EffectiveIs ==
  ASSUME NEW sel \in Selections, NEW b \in Boards, NEW expanded \in BOOLEAN
  PROVE  Effective[sel][b][expanded] = effective_selection(Config, Catalog, sel, b, expanded)
BY DEF Effective

\* A pod runs at least the selected tests of its board; one that widened its
\* plan runs all that its board can run.
LEMMA PlanHolds ==
  ASSUME NEW sel \in Acceptable, NEW b \in Boards, NEW expanded \in BOOLEAN,
         \E g \in sel.groups : g.board = b
  PROVE  LET plan == PlanOf(Effective[sel][b][expanded], b)
         IN  /\ plan \subseteq TestIds
             /\ \A g \in sel.groups : g.board = b => g.tests \subseteq plan
             /\ expanded => plan = GroupTests(Config, Catalog, TestIds, b)
<1> DEFINE groups == route_tests(Config, Catalog, sel.ids)
           all    == route_tests(Config, Catalog, TestIds)
<1>1. sel.groups = groups /\ sel.ids \subseteq TestIds /\ sel \in Selections
  BY AcceptedIsRouted
<1>2. \A ids : GroupTests(Config, Catalog, ids, b) \subseteq TestIds
  BY DEF GroupTests, TestIds
<1>3. ASSUME NEW g \in groups, g.board = b
      PROVE  /\ g.tests = GroupTests(Config, Catalog, sel.ids, b)
             /\ g.tests # {}
  <2>1. PICK c \in Boards : /\ g = [board |-> c, tests |-> GroupTests(Config, Catalog, sel.ids, c)]
                            /\ GroupTests(Config, Catalog, sel.ids, c) # {}
    BY DEF route_tests
  <2>2. QED
    BY <1>3, <2>1
<1>4. CASE ~ expanded
  <2>1. Effective[sel][b][expanded] = groups
    BY <1>1, <1>4, EffectiveIs DEF effective_selection
  <2>2. PlanOf(groups, b) = GroupTests(Config, Catalog, sel.ids, b)
    BY <1>1, RoutedOnce
  <2>3. QED
    BY <1>1, <1>2, <1>3, <1>4, <2>1, <2>2
<1>5. CASE expanded
  <2> DEFINE wide == CHOOSE a \in all : a.board = b
             plan == {IF g.board = b THEN wide ELSE g : g \in groups}
  <2>1. GroupTests(Config, Catalog, sel.ids, b) \subseteq GroupTests(Config, Catalog, TestIds, b)
    BY <1>1 DEF GroupTests
  <2>2. GroupTests(Config, Catalog, TestIds, b) # {}
    BY <1>1, <1>3, <2>1
  <2>3. \E a \in all : a.board = b
    <3>1. [board |-> b, tests |-> GroupTests(Config, Catalog, TestIds, b)] \in all
      BY <2>2 DEF route_tests
    <3>2. QED
      BY <3>1
  <2>4. wide \in all /\ wide.board = b
    BY <2>3
  <2>5. wide.tests = GroupTests(Config, Catalog, TestIds, b)
    BY <2>3, RoutedOnce DEF PlanOf
  <2>6. Effective[sel][b][expanded] = plan
    <3>1. effective_selection(Config, Catalog, sel, b, TRUE)
            = {IF g.board = b THEN wide ELSE g : g \in sel.groups}
      BY DEF effective_selection, TestIds
    <3>2. expanded = TRUE
      BY <1>5
    <3>3. QED
      BY <1>1, <3>1, <3>2, EffectiveIs
  <2>7. PlanOf(plan, b) = wide.tests
    <3>1. \A g \in plan : g.board = b => g = wide
      BY <2>4
    <3>2. wide \in plan
      BY <1>1
    <3>3. (CHOOSE g \in plan : g.board = b) = wide
      <4> HIDE DEF plan, wide
      <4> QED BY <2>4, <3>1, <3>2
    <3>4. QED
      BY <3>3 DEF PlanOf
  <2>8. QED
    BY <1>1, <1>2, <1>3, <1>5, <2>1, <2>5, <2>6, <2>7
<1>6. QED
  BY <1>4, <1>5

--------------------------------------------------------------------------------
(* The steps.                                                                  *)

LEMMA InitInvariant == Init => PipelineInv
<1> SUFFICES ASSUME Init PROVE PipelineInv
  OBVIOUS
<1>1. 1 \in Attempts /\ \A a \in Attempts : ~ (a < 1)
  BY PipelineAssumption DEF Attempts
<1>2. NewPod \in Pods
  BY DEF NewPod, Pods, Stages
<1>3. TypeOK
  BY <1>1, <1>2 DEF Init, TypeOK
<1>4. JobsFollowSelection /\ AttemptsToCome
  BY <1>1 DEF Init, JobsFollowSelection, AttemptsToCome, Jobs, Planned
<1>5. DirectoriesAreHonest /\ SuccessIsLast
  BY DEF Init, DirectoriesAreHonest, SuccessIsLast, Kept
<1>6. ProofsAreOfTheirAttempt /\ GreenIsEarned
  BY DEF Init, ProofsAreOfTheirAttempt, GreenIsEarned
<1>7. QED
  BY <1>3, <1>4, <1>5, <1>6 DEF PipelineInv

\* What a directory that passes the check says of its attempt.
LEMMA ValidatedPassed ==
  ASSUME PipelineInv, NEW b \in Boards, NEW success \in BOOLEAN,
         validate_group(selArt[attempt], dir[b], success)
  PROVE  /\ dir[b] \in Dirs /\ selArt[attempt] \in Acceptable /\ Planned(b)
         /\ {b} \X PlanOf(Effective[selArt[attempt]][b][pod[b].expanded], b)
              \subseteq passed[attempt]
         /\ \A f \in dir[b].timings : f[2]
<1> DEFINE d == dir[b]
           plan == PlanOf(Effective[selArt[attempt]][b][pod[b].expanded], b)
<1>1. d \in Dirs /\ d # NoRev /\ d.environment # NoRev
  BY DEF PipelineInv, TypeOK, validate_group
<1>2. /\ selArt[attempt] \in Acceptable /\ Planned(b)
      /\ d.probe = <<attempt, b>>
      /\ {b} \X d.evidence \subseteq passed[attempt]
      /\ d.environment = pod[b].expanded
  BY <1>1 DEF PipelineInv, DirectoriesAreHonest, Kept
<1>3. /\ d.effective = Effective[selArt[attempt]][b][pod[b].expanded]
      /\ {f[1] : f \in d.timings} = PlanOf(d.effective, b)
      /\ \A f \in d.timings : f[2] /\ f[1] \in d.evidence
  BY <1>2 DEF validate_group
<1>4. plan \subseteq d.evidence
  BY <1>3
<1>5. QED
  BY <1>1, <1>2, <1>3, <1>4

\* A step of a pod changes its own pod and directory, and nothing that was
\* decided before.
LEMMA PodStepKeeps ==
  ASSUME PipelineInv, NEW b \in Boards, job[b] = "scheduled",
         UNCHANGED <<attempt, selArt, selOutput, job, art, verdict>>,
         pod' \in [Boards -> Pods], dir' \in [Boards -> Dirs \cup {NoRev}], dir'[b] \in Dirs,
         passed' \in [Attempts -> SUBSET (Boards \X TestIds)],
         \A c \in Boards \ {b} : pod'[c] = pod[c] /\ dir'[c] = dir[c],
         \A a \in Attempts : passed[a] \subseteq passed'[a],
         dir'[b].probe = dir[b].probe,
         {b} \X dir'[b].evidence \subseteq passed'[attempt],
         dir'[b].environment # NoRev => dir'[b].environment = pod'[b].expanded,
         pod'[b].stage = "evidence" =>
            dir'[b].timings = pod'[b].files /\ pod'[b].todo = {},
         dir'[b].summary = "success" => /\ pod'[b].stage = "over" /\ pod'[b].todo = {}
                                        /\ \A f \in pod'[b].files : f[2]
  PROVE  PipelineInv'
<1> USE DEF PipelineInv
<1>1. TypeOK'
  BY DEF TypeOK
<1>2. Jobs' = Jobs /\ \A c \in Boards : Planned(c)' <=> Planned(c)
  BY DEF Jobs, Planned
<1>3. Planned(b) /\ b \in Jobs /\ dir[b] \in Dirs /\ Kept(b) /\ selOutput # NoRev
  BY DEF JobsFollowSelection, Kept, Jobs, Planned
<1>4. JobsFollowSelection'
  BY <1>2, <1>3 DEF JobsFollowSelection
<1>5. AttemptsToCome'
  BY DEF AttemptsToCome
<1>6. \A c \in Boards \ {b} : Kept(c)' <=> Kept(c)
  BY DEF Kept
<1>7. DirectoriesAreHonest'
  <2> SUFFICES ASSUME NEW c \in Boards, Kept(c)'
               PROVE  /\ selArt[attempt] \in Acceptable /\ Planned(c)'
                      /\ dir'[c].probe = <<attempt, c>>
                      /\ {c} \X dir'[c].evidence \subseteq passed'[attempt]
                      /\ dir'[c].environment # NoRev => dir'[c].environment = pod'[c].expanded
    BY DEF DirectoriesAreHonest
  <2>1. CASE c = b
    BY <1>2, <1>3, <2>1 DEF DirectoriesAreHonest
  <2>2. CASE c # b
    <3>1. Kept(c) /\ pod'[c] = pod[c] /\ dir'[c] = dir[c]
      BY <1>6, <2>2
    <3>2. passed[attempt] \subseteq passed'[attempt]
      BY DEF TypeOK
    <3>3. QED
      BY <1>2, <3>1, <3>2 DEF DirectoriesAreHonest
  <2>3. QED
    BY <2>1, <2>2
<1>8. SuccessIsLast'
  BY <1>6 DEF SuccessIsLast
<1>9. ProofsAreOfTheirAttempt'
  <2> SUFFICES ASSUME NEW a \in Attempts, NEW c \in Boards, art[a][c] = "proof"
               PROVE  /\ selArt[a] \in Acceptable
                      /\ \E expanded \in BOOLEAN :
                           /\ a = attempt => expanded = pod'[c].expanded
                           /\ {c} \X PlanOf(Effective[selArt[a]][c][expanded], c) \subseteq passed'[a]
    BY DEF ProofsAreOfTheirAttempt
  <2>1. a = attempt => c # b
    BY DEF JobsFollowSelection, Over
  <2>2. a = attempt => pod'[c] = pod[c]
    BY <2>1
  <2>3. QED
    BY <2>2 DEF ProofsAreOfTheirAttempt
<1>10. GreenIsEarned'
  <2>1. ASSUME NEW a \in Attempts, verdict[a] = "success"
        PROVE  a # attempt
    BY <1>3, <2>1 DEF JobsFollowSelection, Over
  <2>2. QED
    BY <2>1 DEF GreenIsEarned
<1>11. QED
  BY <1>1, <1>4, <1>5, <1>7, <1>8, <1>9, <1>10

\* What is so while a pod runs.
LEMMA WhileScheduled ==
  ASSUME PipelineInv, NEW b \in Boards, job[b] = "scheduled"
  PROVE  /\ selArt[attempt] \in Acceptable /\ selArt[attempt] \in Selections
         /\ selArt[attempt] = selOutput /\ Planned(b)
         /\ dir[b] \in Dirs /\ pod[b] \in Pods
         /\ dir[b].probe = <<attempt, b>>
         /\ {b} \X dir[b].evidence \subseteq passed[attempt]
         /\ dir[b].environment # NoRev => dir[b].environment = pod[b].expanded
         /\ pod[b].stage = "evidence" => dir[b].timings = pod[b].files /\ pod[b].todo = {}
         /\ dir[b].summary = "success" => /\ pod[b].stage = "over" /\ pod[b].todo = {}
                                          /\ \A f \in pod[b].files : f[2]
         /\ attempt \in Attempts
BY AcceptedIsRouted
   DEF PipelineInv, TypeOK, JobsFollowSelection, DirectoriesAreHonest, SuccessIsLast, Kept

LEMMA PodStepInvariant ==
  ASSUME PipelineInv, NEW b \in Boards,
         PodInputs(b) \/ PodInstall(b) \/ PodPreflight(b) \/ PodRunsFile(b) \/ PodWrites(b)
           \/ PodEnds(b) \/ PodFails(b) \/ PodKilled(b)
  PROVE  PipelineInv'
<1>1. /\ job[b] = "scheduled"
      /\ UNCHANGED <<attempt, selArt, selOutput, job, art, verdict>>
  BY DEF PodInputs, PodInstall, PodPreflight, PodRunsFile, PodWrites, PodEnds, PodFails,
         PodKilled, Running
<1>2. /\ selArt[attempt] \in Acceptable /\ selArt[attempt] \in Selections
      /\ selArt[attempt] = selOutput /\ Planned(b)
      /\ dir[b] \in Dirs /\ pod[b] \in Pods
      /\ dir[b].probe = <<attempt, b>>
      /\ {b} \X dir[b].evidence \subseteq passed[attempt]
      /\ dir[b].environment # NoRev => dir[b].environment = pod[b].expanded
      /\ pod[b].stage = "evidence" => dir[b].timings = pod[b].files /\ pod[b].todo = {}
      /\ dir[b].summary = "success" => /\ pod[b].stage = "over" /\ pod[b].todo = {}
                                       /\ \A f \in pod[b].files : f[2]
      /\ attempt \in Attempts
  BY <1>1, WhileScheduled
<1>3. ASSUME NEW p \in Pods, NEW d \in Dirs,
             pod' = [pod EXCEPT ![b] = p], dir' = [dir EXCEPT ![b] = d],
             passed' \in [Attempts -> SUBSET (Boards \X TestIds)],
             \A a \in Attempts : passed[a] \subseteq passed'[a],
             d.probe = dir[b].probe,
             {b} \X d.evidence \subseteq passed'[attempt],
             d.environment # NoRev => d.environment = p.expanded,
             p.stage = "evidence" => d.timings = p.files /\ p.todo = {},
             d.summary = "success" => /\ p.stage = "over" /\ p.todo = {}
                                      /\ \A f \in p.files : f[2]
      PROVE  PipelineInv'
  <2>1. pod \in [Boards -> Pods] /\ dir \in [Boards -> Dirs \cup {NoRev}]
    BY DEF PipelineInv, TypeOK
  <2>2. /\ pod' \in [Boards -> Pods] /\ dir' \in [Boards -> Dirs \cup {NoRev}]
        /\ pod'[b] = p /\ dir'[b] = d
        /\ \A c \in Boards \ {b} : pod'[c] = pod[c] /\ dir'[c] = dir[c]
    BY <1>3, <2>1
  <2>3. QED
    BY <1>1, <1>3, <2>2, PodStepKeeps
<1>4. UNCHANGED passed => /\ passed' \in [Attempts -> SUBSET (Boards \X TestIds)]
                          /\ \A a \in Attempts : passed[a] \subseteq passed'[a]
                          /\ {b} \X dir[b].evidence \subseteq passed'[attempt]
  BY <1>2 DEF PipelineInv, TypeOK
<1> USE DEF Pods, Dirs, Stages, Running
<1>5. CASE PodInputs(b)
  <2> DEFINE p == [pod[b] EXCEPT !.stage = "install"]
             d == [dir[b] EXCEPT !.podProbe = dir[b].probe, !.selection = selArt[attempt]]
  <2>1. pod' = [pod EXCEPT ![b] = p] /\ dir' = [dir EXCEPT ![b] = d] /\ UNCHANGED passed
    BY <1>5 DEF PodInputs
  <2>2. p \in Pods /\ p.stage = "install" /\ p.expanded = pod[b].expanded
    BY <1>2
  <2>3. /\ d \in Dirs /\ d.probe = dir[b].probe /\ d.evidence = dir[b].evidence
        /\ d.environment = dir[b].environment /\ d.summary = dir[b].summary
    BY <1>2
  <2>4. dir[b].summary # "success"
    BY <1>2, <1>5 DEF PodInputs
  <2> HIDE DEF p, d, Pods, Dirs
  <2>5. QED
    BY <1>2, <1>3, <1>4, <2>1, <2>2, <2>3, <2>4
<1>6. CASE PodInstall(b)
  <2> DEFINE p == [pod[b] EXCEPT !.stage = "preflight"]
  <2>1. pod' = [pod EXCEPT ![b] = p] /\ dir' = dir /\ UNCHANGED passed
    BY <1>6 DEF PodInstall
  <2>2. p \in Pods /\ p.stage = "preflight" /\ p.expanded = pod[b].expanded
    BY <1>2
  <2>3. dir' = [dir EXCEPT ![b] = dir[b]]
    BY <2>1 DEF PipelineInv, TypeOK
  <2>4. dir[b].summary # "success"
    BY <1>2, <1>6 DEF PodInstall
  <2> HIDE DEF p, Pods, Dirs
  <2>5. QED
    BY <1>2, <1>3, <1>4, <2>1, <2>2, <2>3, <2>4
<1>7. CASE PodPreflight(b)
  <2>1. PICK expanded \in BOOLEAN :
          LET plan == Effective[selArt[attempt]][b][expanded]
          IN  /\ dir' = [dir EXCEPT ![b].environment = expanded, ![b].effective = plan]
              /\ pod' = [pod EXCEPT ![b].stage = "pytest", ![b].expanded = expanded,
                                    ![b].todo = PlanOf(plan, b)]
    BY <1>7 DEF PodPreflight
  <2> DEFINE plan == Effective[selArt[attempt]][b][expanded]
             todo == PlanOf(plan, b)
             p == [pod[b] EXCEPT !.stage = "pytest", !.expanded = expanded, !.todo = todo]
             d == [dir[b] EXCEPT !.environment = expanded, !.effective = plan]
  <2>2. pod' = [pod EXCEPT ![b] = p] /\ dir' = [dir EXCEPT ![b] = d] /\ UNCHANGED passed
    BY <1>7, <2>1 DEF PodPreflight
  <2>3. todo \subseteq TestIds /\ plan \in Plans
    <3>1. \E g \in selArt[attempt].groups : g.board = b
      BY <1>2 DEF Planned
    <3>2. QED
      BY <1>2, <3>1, PlanHolds DEF Plans
  <2> HIDE DEF plan, todo
  <2>4. p \in Pods /\ p.stage = "pytest" /\ p.expanded = expanded
    BY <1>2, <2>3
  <2>5. /\ d \in Dirs /\ d.probe = dir[b].probe /\ d.evidence = dir[b].evidence
        /\ d.environment = expanded /\ d.summary = dir[b].summary
    BY <1>2, <2>3
  <2>6. dir[b].summary # "success"
    BY <1>2, <1>7 DEF PodPreflight
  <2> HIDE DEF p, d, Pods, Dirs
  <2>7. QED
    BY <1>2, <1>3, <1>4, <2>2, <2>4, <2>5, <2>6
<1>8. CASE PodRunsFile(b)
  <2>1. PICK ok \in BOOLEAN, t \in pod[b].todo :
          /\ pod' = [pod EXCEPT ![b].todo = @ \ {t}, ![b].files = @ \cup {<<t, ok>>}]
          /\ dir' = [dir EXCEPT ![b].evidence = IF ok THEN @ \cup {t} ELSE @]
          /\ passed' = IF ok THEN [passed EXCEPT ![attempt] = @ \cup {<<b, t>>}] ELSE passed
    <3>1. pod[b].todo # {}
      BY <1>8 DEF PodRunsFile
    <3> DEFINE t == CHOOSE u \in pod[b].todo : TRUE
    <3>2. t \in pod[b].todo
      BY <3>1
    <3>3. PICK ok \in BOOLEAN :
          /\ pod' = [pod EXCEPT ![b].todo = @ \ {t}, ![b].files = @ \cup {<<t, ok>>}]
          /\ dir' = [dir EXCEPT ![b].evidence = IF ok THEN @ \cup {t} ELSE @]
          /\ passed' = IF ok THEN [passed EXCEPT ![attempt] = @ \cup {<<b, t>>}] ELSE passed
      BY <1>8 DEF PodRunsFile
    <3> HIDE DEF t
    <3>4. QED
      BY <3>2, <3>3
  <2> DEFINE todo == pod[b].todo \ {t}
             files == pod[b].files \cup {<<t, ok>>}
             evidence == IF ok THEN dir[b].evidence \cup {t} ELSE dir[b].evidence
             p == [pod[b] EXCEPT !.todo = todo, !.files = files]
             d == [dir[b] EXCEPT !.evidence = evidence]
  <2>2. pod' = [pod EXCEPT ![b] = p] /\ dir' = [dir EXCEPT ![b] = d]
    BY <2>1
  <2>3. /\ todo \in SUBSET TestIds /\ files \in SUBSET (TestIds \X BOOLEAN)
        /\ evidence \in SUBSET TestIds /\ t \in TestIds
    BY <1>2
  <2>4. /\ passed' \in [Attempts -> SUBSET (Boards \X TestIds)]
        /\ \A a \in Attempts : passed[a] \subseteq passed'[a]
        /\ {b} \X evidence \subseteq passed'[attempt]
    <3>1. passed \in [Attempts -> SUBSET (Boards \X TestIds)]
      BY DEF PipelineInv, TypeOK
    <3>2. CASE ok
      <4>1. passed' = [passed EXCEPT ![attempt] = passed[attempt] \cup {<<b, t>>}]
        BY <2>1, <3>2
      <4>2. passed'[attempt] = passed[attempt] \cup {<<b, t>>}
        BY <1>2, <3>1, <4>1
      <4>3. {b} \X evidence \subseteq passed'[attempt]
        BY <1>2, <3>2, <4>2
      <4>4. passed[attempt] \cup {<<b, t>>} \in SUBSET (Boards \X TestIds)
        BY <1>2, <2>3, <3>1
      <4>5. QED
        BY <1>2, <3>1, <4>1, <4>3, <4>4
    <3>3. CASE ~ ok
      BY <1>2, <2>1, <3>1, <3>3
    <3>4. QED
      BY <3>2, <3>3
  <2>5. pod[b].stage = "pytest" /\ dir[b].summary # "success"
    BY <1>2, <1>8 DEF PodRunsFile
  <2> HIDE DEF todo, files, evidence
  <2>6. p \in Pods /\ p.stage = "pytest" /\ p.expanded = pod[b].expanded
    BY <1>2, <2>3, <2>5
  <2>7. /\ d \in Dirs /\ d.probe = dir[b].probe /\ d.evidence = evidence
        /\ d.environment = dir[b].environment /\ d.summary = dir[b].summary
    BY <1>2, <2>3
  <2> HIDE DEF p, d, Pods, Dirs
  <2>8. QED
    BY <1>2, <1>3, <2>2, <2>4, <2>5, <2>6, <2>7
<1>9. CASE PodWrites(b)
  <2> DEFINE p == [pod[b] EXCEPT !.stage = "evidence"]
             d == [dir[b] EXCEPT !.timings = pod[b].files, !.summary = "failure"]
  <2>1. pod' = [pod EXCEPT ![b] = p] /\ dir' = [dir EXCEPT ![b] = d] /\ UNCHANGED passed
    BY <1>9 DEF PodWrites
  <2>2. pod[b].todo = {}
    BY <1>9 DEF PodWrites
  <2>3. /\ p \in Pods /\ p.stage = "evidence" /\ p.expanded = pod[b].expanded
        /\ p.files = pod[b].files /\ p.todo = pod[b].todo
    BY <1>2
  <2>4. /\ d \in Dirs /\ d.probe = dir[b].probe /\ d.evidence = dir[b].evidence
        /\ d.environment = dir[b].environment /\ d.summary = "failure"
        /\ d.timings = pod[b].files
    BY <1>2
  <2> HIDE DEF p, d, Pods, Dirs
  <2>5. QED
    BY <1>2, <1>3, <1>4, <2>1, <2>2, <2>3, <2>4
<1>10. CASE PodEnds(b)
  <2> DEFINE good == validate_group(selArt[attempt], dir[b], FALSE)
             sum == IF good THEN "success" ELSE "failure"
             p == [pod[b] EXCEPT !.stage = "over"]
             d == [dir[b] EXCEPT !.summary = sum]
  <2>1. pod' = [pod EXCEPT ![b] = p] /\ dir' = [dir EXCEPT ![b] = d] /\ UNCHANGED passed
    BY <1>10 DEF PodEnds
  <2>2. pod[b].todo = {} /\ dir[b].timings = pod[b].files
    BY <1>2, <1>10 DEF PodEnds
  <2>3. sum = "success" => \A f \in pod[b].files : f[2]
    <3>1. good => \A f \in dir[b].timings : f[2]
      BY ValidatedPassed
    <3> HIDE DEF good
    <3>2. QED
      BY <2>2, <3>1
  <2>4. sum \in {"success", "failure"}
    OBVIOUS
  <2> HIDE DEF sum, good
  <2>5. /\ p \in Pods /\ p.stage = "over" /\ p.expanded = pod[b].expanded
        /\ p.files = pod[b].files /\ p.todo = pod[b].todo
    BY <1>2
  <2>6. /\ d \in Dirs /\ d.probe = dir[b].probe /\ d.evidence = dir[b].evidence
        /\ d.environment = dir[b].environment /\ d.summary = sum
    BY <1>2, <2>4
  <2> HIDE DEF p, d, Pods, Dirs
  <2>7. QED
    BY <1>2, <1>3, <1>4, <2>1, <2>2, <2>3, <2>5, <2>6
<1>11. CASE PodFails(b)
  <2> DEFINE p == [pod[b] EXCEPT !.stage = "over"]
             d == [dir[b] EXCEPT !.timings = {}, !.summary = "failure"]
  <2>1. pod' = [pod EXCEPT ![b] = p] /\ dir' = [dir EXCEPT ![b] = d] /\ UNCHANGED passed
    BY <1>11 DEF PodFails
  <2>2. p \in Pods /\ p.stage = "over" /\ p.expanded = pod[b].expanded
    BY <1>2
  <2>3. /\ d \in Dirs /\ d.probe = dir[b].probe /\ d.evidence = dir[b].evidence
        /\ d.environment = dir[b].environment /\ d.summary = "failure"
    BY <1>2
  <2> HIDE DEF p, d, Pods, Dirs
  <2>4. QED
    BY <1>2, <1>3, <1>4, <2>1, <2>2, <2>3
<1>12. CASE PodKilled(b)
  <2> DEFINE p == [pod[b] EXCEPT !.stage = "over"]
  <2>1. pod' = [pod EXCEPT ![b] = p] /\ dir' = dir /\ UNCHANGED passed
    BY <1>12 DEF PodKilled
  <2>2. p \in Pods /\ p.stage = "over" /\ p.expanded = pod[b].expanded
    BY <1>2
  <2>3. dir' = [dir EXCEPT ![b] = dir[b]]
    BY <2>1 DEF PipelineInv, TypeOK
  <2>4. dir[b].summary # "success"
    BY <1>2, <1>12 DEF PodKilled
  <2> HIDE DEF p, Pods, Dirs
  <2>5. QED
    BY <1>2, <1>3, <1>4, <2>1, <2>2, <2>3, <2>4
<1>13. QED
  BY <1>5, <1>6, <1>7, <1>8, <1>9, <1>10, <1>11, <1>12

LEMMA SelectJobInvariant ==
  ASSUME PipelineInv, SelectJob
  PROVE  PipelineInv'
<1> USE DEF PipelineInv
<1>1. PICK s \in Selections : selArt' = [selArt EXCEPT ![attempt] = s] /\ selOutput' = s
  BY DEF SelectJob
<1>2. /\ selOutput = NoRev /\ verdict[attempt] = "none"
      /\ UNCHANGED <<attempt, job, pod, dir, art, verdict, passed>>
  BY DEF SelectJob
<1>3. attempt \in Attempts /\ selArt'[attempt] = s /\ s # NoRev
      /\ \A a \in Attempts : a # attempt => selArt'[a] = selArt[a]
  BY <1>1, PipelineAssumption DEF TypeOK
<1>4. \A b \in Boards : job[b] = "waiting" /\ dir[b] = NoRev /\ art[attempt][b] = "absent"
  BY <1>2 DEF JobsFollowSelection
<1>5. TypeOK'
  BY <1>1, <1>2 DEF TypeOK
<1>6. JobsFollowSelection'
  BY <1>1, <1>2, <1>3, <1>4 DEF JobsFollowSelection, Jobs, Planned, Over
<1>7. AttemptsToCome'
  <2>1. \A a \in Attempts : a > attempt => a # attempt
    BY <1>3 DEF Attempts
  <2>2. QED
    BY <1>2, <1>3, <2>1 DEF AttemptsToCome
<1>8. DirectoriesAreHonest' /\ SuccessIsLast'
  BY <1>2, <1>4 DEF DirectoriesAreHonest, SuccessIsLast, Kept
<1>9. ProofsAreOfTheirAttempt'
  <2> SUFFICES ASSUME NEW a \in Attempts, NEW b \in Boards, art[a][b] = "proof"
               PROVE  /\ selArt'[a] \in Acceptable
                      /\ \E expanded \in BOOLEAN :
                           /\ a = attempt => expanded = pod[b].expanded
                           /\ {b} \X PlanOf(Effective[selArt'[a]][b][expanded], b) \subseteq passed[a]
    BY <1>2 DEF ProofsAreOfTheirAttempt
  <2>1. selArt'[a] = selArt[a]
    BY <1>3, <1>4
  <2>2. QED
    BY <2>1 DEF ProofsAreOfTheirAttempt
<1>10. GreenIsEarned'
  <2> SUFFICES ASSUME NEW a \in Attempts, verdict[a] = "success"
               PROVE  /\ selArt'[a] # NoRev
                      /\ \A g \in selArt'[a].groups : {g.board} \X g.tests \subseteq passed[a]
                      /\ a # attempt
    BY <1>2 DEF GreenIsEarned
  <2>1. a # attempt
    BY <1>2
  <2>2. QED
    BY <1>3, <2>1 DEF GreenIsEarned
<1>11. QED
  BY <1>5, <1>6, <1>7, <1>8, <1>9, <1>10

\* The steps of a job, other than those of its pod, leave every verdict as it
\* is, and nobody widens a plan that was uploaded.
LEMMA JobStepKeepsGreen ==
  ASSUME PipelineInv, NEW b \in Boards, Planned(b), job[b] \notin Over,
         UNCHANGED <<attempt, selArt, selOutput, verdict, passed>>,
         \A c \in Boards \ {b} : pod'[c] = pod[c]
  PROVE  GreenIsEarned' /\ verdict[attempt] = "none"
<1>1. b \in Jobs /\ Jobs' = Jobs
  BY DEF Jobs, Planned
<1>2. verdict[attempt] = "none"
  BY <1>1 DEF PipelineInv, JobsFollowSelection
<1>3. QED
  BY <1>2 DEF PipelineInv, GreenIsEarned

LEMMA PrepareInvariant ==
  ASSUME PipelineInv, NEW b \in Boards, Prepare(b)
  PROVE  PipelineInv'
<1> USE DEF PipelineInv
<1>1. /\ Planned(b) /\ job[b] = "waiting"
      /\ UNCHANGED <<attempt, selArt, selOutput, art, verdict, passed>>
  BY DEF Prepare
<1>2. /\ Jobs' = Jobs /\ (\A c \in Boards : Planned(c)' <=> Planned(c))
      /\ selOutput # NoRev /\ attempt \in Attempts
  BY <1>1 DEF Jobs, Planned, TypeOK
<1>3. AttemptsToCome'
  BY <1>1 DEF AttemptsToCome
<1>4. art[attempt][b] = "absent"
  BY <1>1 DEF JobsFollowSelection, Over, TypeOK
<1>5. CASE read_inputs(selArt[attempt]) /\ dir[b] = NoRev
  <2> DEFINE p == [NewPod EXCEPT !.stage = "inputs"]
             d == EmptyDir(attempt, b)
  <2>1. /\ job' = [job EXCEPT ![b] = "scheduled"]
        /\ dir' = [dir EXCEPT ![b] = d] /\ pod' = [pod EXCEPT ![b] = p]
    BY <1>5 DEF Prepare
  <2>2. p \in Pods /\ p.stage = "inputs" /\ p.expanded = FALSE
    BY DEF NewPod, Pods, Stages
  <2>3. /\ d \in Dirs /\ d.probe = <<attempt, b>> /\ d.environment = NoRev
        /\ d.summary # "success" /\ d.evidence = {}
    <3>1. <<attempt, b>> \in Probes
      BY <1>2 DEF Probes
    <3>2. d \in Dirs
      <4> DEFINE Files == {NoRev} \cup SUBSET (TestIds \X BOOLEAN)
                 Tests == SUBSET TestIds
      <4>1. NoRev \in Files /\ {} \in Tests
        OBVIOUS
      <4>2. Dirs = [probe : Probes, podProbe : Probes \cup {NoRev},
                    selection : Selections \cup {NoRev}, environment : BOOLEAN \cup {NoRev},
                    effective : Plans \cup {NoRev}, timings : Files,
                    summary : {"success", "failure", NoRev}, evidence : Tests]
        BY DEF Dirs
      <4> HIDE DEF Files, Tests
      <4>3. QED
        BY <3>1, <4>1, <4>2 DEF EmptyDir
    <3>3. QED
      BY <3>2, PipelineAssumption DEF EmptyDir
  <2> HIDE DEF p, d
  <2>4. /\ job'[b] = "scheduled" /\ dir'[b] = d /\ pod'[b] = p
        /\ \A c \in Boards \ {b} : job'[c] = job[c] /\ dir'[c] = dir[c] /\ pod'[c] = pod[c]
    BY <2>1 DEF TypeOK
  <2>5. TypeOK'
    BY <1>1, <2>1, <2>2, <2>3 DEF TypeOK
  <2>6. JobsFollowSelection'
    BY <1>1, <1>2, <1>4, <2>3, <2>4, JobStepKeepsGreen DEF JobsFollowSelection, Over
  <2>7. DirectoriesAreHonest' /\ SuccessIsLast'
    <3>1. \A c \in Boards \ {b} : Kept(c)' <=> Kept(c)
      BY <2>4 DEF Kept
    <3>2. selArt[attempt] \in Acceptable
      BY <1>5 DEF read_inputs
    <3>3. DirectoriesAreHonest'
      BY <1>1, <1>2, <2>2, <2>3, <2>4, <3>1, <3>2 DEF DirectoriesAreHonest
    <3>4. SuccessIsLast'
      BY <1>1, <1>2, <2>2, <2>3, <2>4, <3>1 DEF SuccessIsLast
    <3>5. QED
      BY <3>3, <3>4
  <2>8. ProofsAreOfTheirAttempt'
    BY <1>1, <1>4, <2>4 DEF ProofsAreOfTheirAttempt
  <2>9. GreenIsEarned'
    BY <1>1, <2>4, JobStepKeepsGreen DEF Over
  <2>10. QED
    BY <1>3, <2>5, <2>6, <2>7, <2>8, <2>9
<1>6. CASE ~ (read_inputs(selArt[attempt]) /\ dir[b] = NoRev)
  <2>1. job' = [job EXCEPT ![b] = "failing"] /\ UNCHANGED <<dir, pod>>
    BY <1>6 DEF Prepare
  <2>2. job'[b] = "failing" /\ \A c \in Boards \ {b} : job'[c] = job[c]
    BY <2>1 DEF TypeOK
  <2>3. TypeOK'
    BY <1>1, <2>1 DEF TypeOK
  <2>4. JobsFollowSelection'
    BY <1>1, <1>2, <1>4, <2>1, <2>2, JobStepKeepsGreen DEF JobsFollowSelection, Over
  <2>5. \A c \in Boards : Kept(c)' => Kept(c)
    BY <2>1, <2>2 DEF Kept
  <2>6. DirectoriesAreHonest'
    BY <1>1, <1>2, <2>1, <2>5 DEF DirectoriesAreHonest
  <2>7. SuccessIsLast'
    BY <2>1, <2>5 DEF SuccessIsLast
  <2>8. ProofsAreOfTheirAttempt'
    BY <1>1, <2>1 DEF ProofsAreOfTheirAttempt
  <2>9. GreenIsEarned'
    BY <1>1, <2>1, JobStepKeepsGreen DEF Over
  <2>10. QED
    BY <1>3, <2>3, <2>4, <2>6, <2>7, <2>8, <2>9
<1>7. QED
  BY <1>5, <1>6

LEMMA FinishInvariant ==
  ASSUME PipelineInv, NEW b \in Boards, Finish(b)
  PROVE  PipelineInv'
<1> USE DEF PipelineInv
<1> DEFINE good == validate_group(selArt[attempt], dir[b], TRUE)
           upload == IF good THEN "proof" ELSE "no proof"
<1>1. /\ Planned(b) /\ job[b] \notin Over /\ job[b] # "waiting"
      /\ UNCHANGED <<attempt, selArt, selOutput, pod, dir, verdict, passed>>
  BY DEF Finish, Over
<1>2. /\ Jobs' = Jobs /\ (\A c \in Boards : Planned(c)' <=> Planned(c))
      /\ selOutput # NoRev /\ attempt \in Attempts
  BY <1>1 DEF Jobs, Planned, TypeOK
<1>3. /\ job' \in [Boards -> {"waiting", "scheduled", "failing", "success", "failure"}]
      /\ job'[b] \in Over /\ \A c \in Boards \ {b} : job'[c] = job[c]
  <2>1. PICK j \in Over : job' = [job EXCEPT ![b] = j]
    BY DEF Finish, Over
  <2>2. QED
    BY <2>1 DEF TypeOK, Over
<1>4. \/ art' = art
      \/ art' = [art EXCEPT ![attempt][b] = upload]
  BY DEF Finish
<1>5. upload \in {"proof", "no proof"} /\ (upload = "proof" => good)
  OBVIOUS
<1> HIDE DEF upload
<1>6. /\ art' \in [Attempts -> [Boards -> {"absent", "proof", "no proof"}]]
      /\ \A a \in Attempts, c \in Boards :
           a # attempt \/ c # b => art'[a][c] = art[a][c]
      /\ art'[attempt][b] \in {art[attempt][b], upload}
  <2> DEFINE row == [art[attempt] EXCEPT ![b] = upload]
  <2>1. art \in [Attempts -> [Boards -> {"absent", "proof", "no proof"}]]
    BY DEF TypeOK
  <2>2. CASE art' = art
    BY <1>2, <2>1, <2>2
  <2>3. CASE art' = [art EXCEPT ![attempt][b] = upload]
    <3>1. art' = [art EXCEPT ![attempt] = row]
      BY <2>3
    <3>2. /\ row \in [Boards -> {"absent", "proof", "no proof"}] /\ row[b] = upload
          /\ \A c \in Boards : c # b => row[c] = art[attempt][c]
      BY <1>2, <1>5, <2>1
    <3> HIDE DEF row
    <3>3. QED
      BY <1>2, <2>1, <3>1, <3>2
  <2>4. QED
    BY <1>4, <2>2, <2>3
<1>7. art[attempt][b] = "absent"
  BY <1>1, <1>2 DEF TypeOK, JobsFollowSelection
<1>8. TypeOK'
  BY <1>1, <1>3, <1>6 DEF TypeOK
<1>9. JobsFollowSelection'
  BY <1>1, <1>2, <1>3, <1>6, JobStepKeepsGreen DEF JobsFollowSelection, Over
<1>10. AttemptsToCome'
  <2>1. \A a \in Attempts : a > attempt => a # attempt
    BY <1>2 DEF Attempts
  <2>2. \A a \in Attempts, c \in Boards : a # attempt => art'[a][c] = art[a][c]
    BY <1>6
  <2>3. QED
    BY <1>1, <2>1, <2>2 DEF AttemptsToCome
<1>11. \A c \in Boards : Kept(c)' => Kept(c)
  BY <1>1, <1>3 DEF Kept, Over
<1>12. DirectoriesAreHonest' /\ SuccessIsLast'
  BY <1>1, <1>2, <1>11 DEF DirectoriesAreHonest, SuccessIsLast
<1>13. ProofsAreOfTheirAttempt'
  <2> SUFFICES ASSUME NEW a \in Attempts, NEW c \in Boards, art'[a][c] = "proof"
               PROVE  /\ selArt[a] \in Acceptable
                      /\ \E expanded \in BOOLEAN :
                           /\ a = attempt => expanded = pod[c].expanded
                           /\ {c} \X PlanOf(Effective[selArt[a]][c][expanded], c) \subseteq passed[a]
    BY <1>1 DEF ProofsAreOfTheirAttempt
  <2>1. CASE a # attempt \/ c # b
    BY <1>6, <2>1 DEF ProofsAreOfTheirAttempt
  <2>2. CASE a = attempt /\ c = b
    <3>1. good
      BY <1>5, <1>6, <1>7, <2>2
    <3>2. pod[b].expanded \in BOOLEAN
      BY DEF TypeOK, Pods
    <3>3. QED
      BY <2>2, <3>1, <3>2, ValidatedPassed
  <2>3. QED
    BY <2>1, <2>2
<1>14. GreenIsEarned'
  BY <1>1, JobStepKeepsGreen
<1>15. QED
  BY <1>8, <1>9, <1>10, <1>12, <1>13, <1>14

\* The verdict of an attempt that is green: its uploads are proofs of the plans.
LEMMA GreenSummary ==
  ASSUME PipelineInv, read_inputs(selArt[attempt]), validate_results(attempt), Jobs # {},
         NEW b \in Boards
  PROVE  /\ \A g \in selArt[attempt].groups : g.board = b =>
              {b} \X g.tests \subseteq passed[attempt]
         /\ b \in Jobs /\ pod[b].expanded =>
              \A t \in Catalog : b \in runnable_boards(Config, t) => <<b, t.id>> \in passed[attempt]
<1> USE DEF PipelineInv
<1>1. selArt[attempt] \in Acceptable /\ selArt[attempt] = selOutput /\ attempt \in Attempts
  <2>1. selArt[attempt] \in Acceptable /\ selArt[attempt] # NoRev
    BY AcceptedIsRouted DEF read_inputs
  <2>2. QED
    BY <2>1 DEF JobsFollowSelection, TypeOK
<1>2. CASE b \in Jobs
  <2>1. art[attempt][b] = "proof"
    BY <1>2 DEF validate_results
  <2>2. {b} \X PlanOf(Effective[selArt[attempt]][b][pod[b].expanded], b) \subseteq passed[attempt]
    BY <1>1, <2>1 DEF ProofsAreOfTheirAttempt
  <2>3. pod[b].expanded \in BOOLEAN /\ \E g \in selArt[attempt].groups : g.board = b
    BY <1>1, <1>2 DEF TypeOK, Pods, Jobs, Planned
  <2> DEFINE plan == PlanOf(Effective[selArt[attempt]][b][pod[b].expanded], b)
  <2>4. /\ \A g \in selArt[attempt].groups : g.board = b => g.tests \subseteq plan
        /\ pod[b].expanded => plan = GroupTests(Config, Catalog, TestIds, b)
    BY <1>1, <2>3, PlanHolds
  <2>5. \A t \in Catalog : b \in runnable_boards(Config, t) =>
          t.id \in GroupTests(Config, Catalog, TestIds, b)
    BY DEF GroupTests, TestIds
  <2> HIDE DEF plan
  <2>6. {b} \X plan \subseteq passed[attempt]
    BY <2>2 DEF plan
  <2>7. QED
    BY <2>4, <2>5, <2>6
<1>3. CASE b \notin Jobs
  <2>1. selOutput # NoRev
    BY DEF Jobs, Planned
  <2>2. \A g \in selArt[attempt].groups : g.board # b
    BY <1>1, <1>3, <2>1 DEF Jobs, Planned
  <2>3. QED
    BY <1>3, <2>2
<1>4. QED
  BY <1>2, <1>3

LEMMA VerdictInvariant ==
  ASSUME PipelineInv, Summary \/ Skipped
  PROVE  PipelineInv'
<1> USE DEF PipelineInv
<1>1. /\ UNCHANGED <<attempt, selArt, selOutput, job, pod, dir, art, passed>>
      /\ selOutput # NoRev
      /\ \A b \in Jobs : job[b] \in Over
      /\ attempt \in Attempts
  BY DEF Summary, Skipped, Over, TypeOK
<1>2. PICK v \in {"success", "failure", "skipped"} :
        /\ verdict' = [verdict EXCEPT ![attempt] = v]
        /\ v = "success" => /\ read_inputs(selArt[attempt]) /\ validate_results(attempt)
                            /\ Jobs # {}
  BY DEF Summary, Skipped
<1>3. /\ verdict' \in [Attempts -> {"none", "success", "failure", "skipped"}]
      /\ verdict'[attempt] = v
      /\ \A a \in Attempts : a # attempt => verdict'[a] = verdict[a]
  BY <1>1, <1>2 DEF TypeOK
<1>4. TypeOK'
  BY <1>1, <1>3 DEF TypeOK
<1>5. Jobs' = Jobs /\ \A b \in Boards : Planned(b)' <=> Planned(b)
  BY <1>1 DEF Jobs, Planned
<1>6. JobsFollowSelection'
  BY <1>1, <1>5 DEF JobsFollowSelection
<1>7. AttemptsToCome'
  <2>1. \A a \in Attempts : a > attempt => a # attempt
    BY <1>1 DEF Attempts
  <2>2. QED
    BY <1>1, <1>3, <2>1 DEF AttemptsToCome
<1>8. DirectoriesAreHonest' /\ SuccessIsLast' /\ ProofsAreOfTheirAttempt'
  BY <1>1, <1>5 DEF DirectoriesAreHonest, SuccessIsLast, ProofsAreOfTheirAttempt, Kept
<1>9. GreenIsEarned'
  <2> SUFFICES ASSUME NEW a \in Attempts, verdict'[a] = "success"
               PROVE  /\ selArt[a] # NoRev
                      /\ \A g \in selArt[a].groups : {g.board} \X g.tests \subseteq passed[a]
                      /\ a = attempt => \A b \in Jobs : pod[b].expanded =>
                           \A t \in Catalog : b \in runnable_boards(Config, t) =>
                              <<b, t.id>> \in passed[a]
    BY <1>1, <1>5 DEF GreenIsEarned
  <2>1. CASE a # attempt
    BY <1>3, <2>1 DEF GreenIsEarned
  <2>2. CASE a = attempt
    <3>1. read_inputs(selArt[attempt]) /\ validate_results(attempt) /\ Jobs # {}
      BY <1>2, <1>3, <2>2
    <3>2. /\ selArt[attempt] \in Acceptable /\ selArt[attempt] # NoRev
          /\ \A g \in selArt[attempt].groups : g.board \in Boards
      <4>1. selArt[attempt] \in Acceptable
        BY <3>1 DEF read_inputs
      <4>2. QED
        BY <4>1, AcceptedIsRouted DEF route_tests
    <3>3. \A g \in selArt[attempt].groups : {g.board} \X g.tests \subseteq passed[attempt]
      BY <3>1, <3>2, GreenSummary
    <3>4. \A b \in Jobs : pod[b].expanded =>
            \A t \in Catalog : b \in runnable_boards(Config, t) =>
               <<b, t.id>> \in passed[attempt]
      BY <3>1, GreenSummary DEF Jobs
    <3>5. QED
      BY <2>2, <3>2, <3>3, <3>4
  <2>3. QED
    BY <2>1, <2>2
<1>10. QED
  BY <1>4, <1>6, <1>7, <1>8, <1>9

LEMMA AgainInvariant ==
  ASSUME PipelineInv, NEW keep \in BOOLEAN, Again(keep)
  PROVE  PipelineInv'
<1> USE DEF PipelineInv
<1>1. /\ attempt' = attempt + 1 /\ attempt \in Attempts /\ attempt' \in Attempts
      /\ attempt' > attempt
      /\ UNCHANGED <<selArt, art, verdict, passed>>
  <2>1. attempt' = attempt + 1 /\ attempt < MaxAttempts /\ attempt \in Attempts
    BY DEF Again, TypeOK
  <2>2. UNCHANGED <<selArt, art, verdict, passed>>
    BY DEF Again
  <2>3. attempt' \in Attempts /\ attempt' > attempt
    BY <2>1, PipelineAssumption DEF Attempts
  <2>4. QED
    BY <2>1, <2>2, <2>3
<1>2. /\ dir' = [b \in Boards |-> NoRev] /\ pod' = [b \in Boards |-> NewPod]
      /\ job' = [b \in Boards |-> IF keep /\ job[b] = "success" THEN "success" ELSE "waiting"]
      /\ selOutput' = IF keep THEN selOutput ELSE NoRev
  BY DEF Again
<1>3. /\ selArt[attempt'] = NoRev /\ verdict[attempt'] = "none"
      /\ \A b \in Boards : art[attempt'][b] = "absent"
  BY <1>1 DEF AttemptsToCome
<1>4. NewPod \in Pods
  BY DEF NewPod, Pods, Stages
<1>5. TypeOK'
  BY <1>1, <1>2, <1>4 DEF TypeOK
<1>6. JobsFollowSelection'
  <2>1. selOutput' = NoRev => \A b \in Boards : job'[b] = "waiting"
    BY <1>2 DEF JobsFollowSelection
  <2>2. QED
    BY <1>1, <1>2, <1>3, <2>1 DEF JobsFollowSelection
<1>7. AttemptsToCome'
  <2>1. \A a \in Attempts : a > attempt' => a > attempt
    BY <1>1 DEF Attempts
  <2>2. QED
    BY <1>1, <2>1 DEF AttemptsToCome
<1>8. DirectoriesAreHonest' /\ SuccessIsLast'
  <2>1. \A b \in Boards : ~ Kept(b)'
    BY <1>2 DEF Kept
  <2>2. QED
    BY <2>1 DEF DirectoriesAreHonest, SuccessIsLast
<1>9. ProofsAreOfTheirAttempt'
  <2> SUFFICES ASSUME NEW a \in Attempts, NEW b \in Boards, art[a][b] = "proof"
               PROVE  /\ selArt[a] \in Acceptable
                      /\ \E expanded \in BOOLEAN :
                           /\ a = attempt' => expanded = pod'[b].expanded
                           /\ {b} \X PlanOf(Effective[selArt[a]][b][expanded], b) \subseteq passed[a]
    BY <1>1 DEF ProofsAreOfTheirAttempt
  <2>1. a # attempt'
    BY <1>3
  <2>2. QED
    BY <2>1 DEF ProofsAreOfTheirAttempt
<1>10. GreenIsEarned'
  <2>1. \A a \in Attempts : verdict[a] = "success" => a # attempt'
    BY <1>3
  <2>2. QED
    BY <1>1, <2>1 DEF GreenIsEarned
<1>11. QED
  BY <1>5, <1>6, <1>7, <1>8, <1>9, <1>10

LEMMA StutterInvariant == PipelineInv /\ UNCHANGED vars => PipelineInv'
<1> SUFFICES ASSUME PipelineInv, UNCHANGED vars PROVE PipelineInv'
  OBVIOUS
<1> USE DEF PipelineInv, vars
<1>1. Jobs' = Jobs /\ \A b \in Boards : (Planned(b)' <=> Planned(b)) /\ (Kept(b)' <=> Kept(b))
  BY DEF Jobs, Planned, Kept
<1>2. TypeOK'
  BY DEF TypeOK
<1>3. JobsFollowSelection' /\ AttemptsToCome'
  BY <1>1 DEF JobsFollowSelection, AttemptsToCome
<1>4. DirectoriesAreHonest' /\ SuccessIsLast' /\ ProofsAreOfTheirAttempt'
  BY <1>1 DEF DirectoriesAreHonest, SuccessIsLast, ProofsAreOfTheirAttempt
<1>5. GreenIsEarned'
  BY <1>1 DEF GreenIsEarned
<1>6. QED
  BY <1>2, <1>3, <1>4, <1>5

--------------------------------------------------------------------------------
\* The inductive invariant of the pipeline: every step of every job, pod and
\* re-run keeps it (ppu_ops_runner.main and the jobs of the two workflows).
THEOREM PipelineIsSound == Spec => []PipelineInv
<1>1. Init => PipelineInv
  BY InitInvariant
<1>2. PipelineInv /\ [Next]_vars => PipelineInv'
  <2> SUFFICES ASSUME PipelineInv, [Next]_vars PROVE PipelineInv'
    OBVIOUS
  <2>1. CASE SelectJob
    BY <2>1, SelectJobInvariant
  <2>2. CASE Summary \/ Skipped
    BY <2>2, VerdictInvariant
  <2>3. CASE RerunAll \/ RerunFailed
    BY <2>3, AgainInvariant DEF RerunAll, RerunFailed
  <2>4. ASSUME NEW b \in Boards, JobStep(b)
        PROVE  PipelineInv'
    BY <2>4, PrepareInvariant, PodStepInvariant, FinishInvariant DEF JobStep
  <2>5. CASE UNCHANGED vars
    BY <2>5, StutterInvariant
  <2>6. QED
    BY <2>1, <2>2, <2>3, <2>4, <2>5 DEF Next
<1>3. QED
  BY <1>1, <1>2, PTL DEF Spec

\* A green attempt is earned in that attempt (ppu_ops_runner.validate_results).
THEOREM GreenIsAlwaysEarned == Spec => []GreenIsEarned
<1>1. PipelineInv => GreenIsEarned
  BY DEF PipelineInv
<1>2. QED
  BY <1>1, PipelineIsSound, PTL

\* A pod that died never leaves a directory of success (ppu_ops_runner.execute).
THEOREM DeadPodsNeverProve == Spec => []DeadPodsProveNothing
<1>1. PipelineInv => DeadPodsProveNothing
  BY DEF PipelineInv, DeadPodsProveNothing, SuccessIsLast, Kept
<1>2. QED
  BY <1>1, PipelineIsSound, PTL

--------------------------------------------------------------------------------
(* What the selection says of the change (ppu_ops_select.py).                  *)

\* What the selection job makes is accepted by every command that reads it in the
\* same checkout, whatever changed and however it was forced.
THEOREM MadeSelectionIsAccepted ==
  ASSUME NEW config, NEW repo, NEW env, NEW changes, NEW build, NEW image,
         NEW force \in BOOLEAN,
         validate_changes(changes), changes.complete \in BOOLEAN, env.qualified \in BOOLEAN
  PROVE  validate_selection(make_selection(config, repo, env, changes, build, image, force),
                            config, repo, env, changes.tested, image)
<1> DEFINE catalog == discover_catalog(config, repo)
           matched == env.qualified /\ env.build = build /\ env.image = image
           s == select_tests(config, catalog, changes.paths, changes.complete, force, matched)
           expected == select_tests(config, catalog, changes.paths, TRUE, FALSE, TRUE)
           sel == make_selection(config, repo, env, changes, build, image, force)
           widened == \/ force \/ ~ changes.complete \/ ~ matched
                      \/ changes.paths \cap config.full # {}
                      \/ Unmapped(config, catalog, changes.paths) # {}
<1>1. /\ sel.mode = s.mode /\ sel.ids = s.ids /\ sel.files = s.files
      /\ sel.unmapped = s.unmapped /\ sel.rules = s.rules
      /\ sel.groups = route_tests(config, catalog, s.ids)
      /\ sel.base = changes.base /\ sel.head = changes.head /\ sel.tested = changes.tested
      /\ sel.changed = changes.paths /\ sel.config = config.sum /\ sel.env = env.sum
      /\ sel.build = build /\ sel.image = image
      /\ env.qualified => sel.reasons = s.reasons
  BY DEF make_selection
<1>2. /\ s.mode = (IF widened THEN "full" ELSE IF s.ids # {} THEN "subset" ELSE "none")
      /\ s.files = TestsOf(catalog, s.ids)
  BY DEF select_tests
<1>3. s.ids \subseteq RunnableIds(config, catalog)
  BY DEF select_tests
<1>4. RunnableIds(config, catalog) \subseteq {t.id : t \in catalog}
  BY DEF RunnableIds
<1>5. widened => s.ids = RunnableIds(config, catalog)
  <2>1. widened => s.ids = {t.id : t \in catalog} \cap RunnableIds(config, catalog)
    BY DEF select_tests
  <2>2. QED
    BY <1>4, <2>1
<1>6. ~ widened => s = expected
  <2>1. ASSUME ~ widened
        PROVE  force = FALSE /\ changes.complete = TRUE /\ matched = TRUE
    BY <2>1
  <2>2. QED
    BY <2>1
<1>7. s.mode # "full" => ~ widened
  BY <1>2
<1>8. ~ widened => /\ env.qualified /\ build = env.build /\ image = env.image
                   /\ changes.base # NoRev /\ changes.head # NoRev
  BY DEF validate_changes
<1> HIDE DEF s, expected, sel, catalog, widened
<1>9. /\ sel.ids \subseteq {t.id : t \in catalog}
      /\ sel.mode = "full" \/ (sel.ids # {}) = (sel.mode # "none")
      /\ sel.mode = "full" => sel.ids = RunnableIds(config, catalog)
  <2>1. s.mode = "full" => s.ids = RunnableIds(config, catalog)
    BY <1>2, <1>5
  <2>2. QED
    BY <1>1, <1>2, <1>3, <1>4, <2>1
<1>10. ASSUME sel.mode # "full"
       PROVE  /\ env.qualified /\ sel.build = env.build /\ image = env.image
              /\ sel.base # NoRev /\ sel.head # NoRev
              /\ \A key \in {"mode", "ids", "files", "unmapped", "rules", "reasons"} :
                   sel[key] = expected[key]
  BY <1>1, <1>6, <1>7, <1>8, <1>10
<1>11. QED
  BY <1>1, <1>2, <1>9, <1>10 DEF validate_selection, sel, expected, catalog

\* A selection that is accepted runs every test whose file changed, on every
\* board that can run it.
LEMMA ChangedTestsAreRouted ==
  ASSUME NEW sel \in Acceptable, NEW t \in Catalog, t.test \in sel.changed,
         NEW b \in runnable_boards(Config, t)
  PROVE  \E g \in sel.groups : g.board = b /\ t.id \in g.tests
<1> DEFINE expected == select_tests(Config, Catalog, sel.changed, TRUE, FALSE, TRUE)
<1>1. /\ validate_config(Config, Repo)
      /\ validate_selection(sel, Config, Repo, Env, Tested, Image)
  BY DEF Acceptable
<1>2. b \in Boards
  <2>1. t.boards \subseteq Boards
    BY <1>1 DEF validate_config, Catalog
  <2>2. QED
    BY <2>1 DEF runnable_boards
<1>3. t.id \in RunnableIds(Config, Catalog)
  BY DEF RunnableIds
<1>4. t.id \in expected.ids
  <2>1. t.id \in MappedIds(Config, Catalog, t.test)
    BY DEF MappedIds
  <2>2. t.id \in UNION {MappedIds(Config, Catalog, p) : p \in sel.changed}
    BY <2>1
  <2>3. t.id \in {u.id : u \in Catalog}
    OBVIOUS
  <2>4. QED
    BY <1>3, <2>2, <2>3 DEF select_tests
<1>5. t.id \in sel.ids
  <2>1. sel.mode = "full" => sel.ids = RunnableIds(Config, Catalog)
    BY <1>1 DEF validate_selection, Catalog
  <2>2. sel.mode # "full" => sel["ids"] = expected["ids"]
    BY <1>1 DEF validate_selection, Catalog
  <2>3. QED
    BY <1>3, <1>4, <2>1, <2>2
<1>6. t.id \in GroupTests(Config, Catalog, sel.ids, b)
  BY <1>5 DEF GroupTests
<1>7. [board |-> b, tests |-> GroupTests(Config, Catalog, sel.ids, b)]
        \in route_tests(Config, Catalog, sel.ids)
  BY <1>2, <1>6 DEF route_tests
<1>8. QED
  BY <1>6, <1>7, AcceptedIsRouted

\* The selection of a green attempt is one that every consumer accepts.
GreenIsAccepted ==
    \A a \in Attempts : verdict[a] = "success" => selArt[a] \in Acceptable

\* A test whose own file changed passed in a green attempt, on every board that can run it.
ChangedTestsPassed ==
    \A a \in Attempts : verdict[a] = "success" =>
      \A t \in Catalog : t.test \in selArt[a].changed =>
        \A b \in runnable_boards(Config, t) : <<b, t.id>> \in passed[a]

LEMMA GreenStaysAccepted == PipelineInv /\ GreenIsAccepted /\ [Next]_vars => GreenIsAccepted'
<1> SUFFICES ASSUME PipelineInv, GreenIsAccepted, [Next]_vars,
                    NEW a \in Attempts, verdict'[a] = "success"
             PROVE  selArt'[a] \in Acceptable
  BY DEF GreenIsAccepted
<1>1. attempt \in Attempts /\ selArt \in [Attempts -> Selections \cup {NoRev}]
      /\ verdict \in [Attempts -> {"none", "success", "failure", "skipped"}]
  BY DEF PipelineInv, TypeOK
<1>2. CASE SelectJob
  <2>1. verdict[a] = "success" /\ a # attempt
    BY <1>2 DEF SelectJob
  <2>2. selArt'[a] = selArt[a]
    BY <1>1, <1>2, <2>1 DEF SelectJob
  <2>3. QED
    BY <2>1, <2>2 DEF GreenIsAccepted
<1>3. CASE Summary
  <2>1. selArt' = selArt
    BY <1>3 DEF Summary
  <2>2. a = attempt => read_inputs(selArt[attempt]) \/ verdict[a] = "success"
    BY <1>1, <1>3 DEF Summary
  <2>3. a # attempt => verdict[a] = "success"
    BY <1>1, <1>3 DEF Summary
  <2>4. QED
    BY <2>1, <2>2, <2>3 DEF read_inputs, GreenIsAccepted
<1>4. CASE Skipped
  <2>1. selArt' = selArt /\ verdict[a] = "success"
    BY <1>1, <1>4 DEF Skipped
  <2>2. QED
    BY <2>1 DEF GreenIsAccepted
<1>5. CASE UNCHANGED <<selArt, verdict>>
  BY <1>5 DEF GreenIsAccepted
<1>6. (\E b \in Boards : JobStep(b)) \/ RerunAll \/ RerunFailed \/ UNCHANGED vars
        => UNCHANGED <<selArt, verdict>>
  BY DEF JobStep, Prepare, PodInputs, PodInstall, PodPreflight, PodRunsFile, PodWrites, PodEnds,
         PodFails, PodKilled, Finish, RerunAll, RerunFailed, Again, vars
<1>7. QED
  BY <1>2, <1>3, <1>4, <1>5, <1>6 DEF Next

\* A green attempt ran, and passed, every operator test whose own file the change
\* touched, on every board that can run it: what ppu_ops_select.select_tests
\* promises survives the routing, the pods, the uploads and the re-runs.
THEOREM ChangedTestsAlwaysPassed == Spec => []ChangedTestsPassed
<1>1. Init => GreenIsAccepted
  BY DEF Init, GreenIsAccepted
<1>2. Spec => []GreenIsAccepted
  BY <1>1, GreenStaysAccepted, PipelineIsSound, PTL DEF Spec
<1>3. GreenIsEarned /\ GreenIsAccepted => ChangedTestsPassed
  <2> SUFFICES ASSUME GreenIsEarned, GreenIsAccepted,
                      NEW a \in Attempts, verdict[a] = "success",
                      NEW t \in Catalog, t.test \in selArt[a].changed,
                      NEW b \in runnable_boards(Config, t)
               PROVE  <<b, t.id>> \in passed[a]
    BY DEF ChangedTestsPassed
  <2>1. PICK g \in selArt[a].groups : g.board = b /\ t.id \in g.tests
    BY ChangedTestsAreRouted DEF GreenIsAccepted
  <2>2. {g.board} \X g.tests \subseteq passed[a]
    BY DEF GreenIsEarned
  <2>3. QED
    BY <2>1, <2>2
<1>4. QED
  BY <1>2, <1>3, GreenIsAlwaysEarned, PTL
=============================================================================
