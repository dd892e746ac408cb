------------------------------ MODULE OpsSelect ------------------------------
(***************************************************************************)
(* Which operator tests a change needs, and who accepts the answer:        *)
(* scripts/ci/ppu_ops_select.py.                                           *)
(*                                                                         *)
(* A path is an opaque value, and a rule of the configuration is the set   *)
(* of paths it matches. A test is known by the path of its file. JSON      *)
(* shapes, regular expressions and orderings are left out: every input is  *)
(* well formed, and an array without duplicates is a set.                  *)
(***************************************************************************)
EXTENDS Naturals, FiniteSets, FiniteSetsExt

CONSTANTS Boards,   \* the boards of BOARDS
          Paths,    \* paths of the repository, test files included
          Ids,      \* test identifiers
          AutoId,   \* the identifier derived from an unlisted test's path
          NoRev     \* a missing revision (None)

ASSUME SelectAssumption == /\ AutoId \in [Paths -> Ids]
                           /\ \A p, q \in Paths : AutoId[p] = AutoId[q] => p = q

(***************************************************************************)
(* A configuration is [sum, full, noEffect : SUBSET Paths, rules : a set   *)
(* of [id, paths, ids], listed : a set of catalog entries, devices :       *)
(* [Boards -> Nat]], sum its checksum; an entry is [id, test, boards,      *)
(* devices]; a checkout is [files, tests : SUBSET Paths, needs : [Paths -> *)
(* Nat]].                                                                  *)
(***************************************************************************)
runnable_boards(config, t) == {b \in t.boards : config.devices[b] >= t.devices}

\* The catalog of a checkout: the listed entries with the device count their
\* file declares now, and one default entry for every file that is not listed.
discover_catalog(config, repo) ==
    {[t EXCEPT !.devices = IF t.test \in repo.tests THEN repo.needs[t.test] ELSE @] :
        t \in config.listed}
    \cup {[id |-> AutoId[p], test |-> p, boards |-> Boards, devices |-> repo.needs[p]] :
        p \in repo.tests \ {t.test : t \in config.listed}}

RunnableIds(config, catalog) == {t.id : t \in {u \in catalog : runnable_boards(config, u) # {}}}

TestsOf(catalog, ids) == {t.test : t \in {u \in catalog : u.id \in ids}}

\* One group for each board that can run one of the tests.
GroupTests(config, catalog, ids, b) ==
    {t.id : t \in {u \in catalog : u.id \in ids /\ b \in runnable_boards(config, u)}}

route_tests(config, catalog, ids) ==
    {[board |-> b, tests |-> GroupTests(config, catalog, ids, b)] :
        b \in {c \in Boards : GroupTests(config, catalog, ids, c) # {}}}

\* The routed pairs are exactly the runnable ones.
FullyRouted(config, catalog) ==
    LET groups == route_tests(config, catalog, {t.id : t \in catalog})
    IN  UNION {g.tests \X {g.board} : g \in groups}
          = UNION {{t.id} \X runnable_boards(config, t) : t \in catalog}

validate_config(config, repo) ==
    LET catalog == discover_catalog(config, repo)
    IN  /\ catalog # {}
        /\ \A t, u \in catalog : (t.id = u.id \/ t.test = u.test) => t = u
        /\ {t.test : t \in catalog} = repo.tests        \* exists, and none is missing
        /\ \A t \in catalog : t.boards # {} /\ t.boards \subseteq Boards
        /\ \A r, q \in config.rules : r.id = q.id => r = q
        /\ \A r \in config.rules :
             /\ r.ids # {} /\ r.ids \subseteq {t.id : t \in catalog}
             /\ r.paths # {} /\ r.paths \subseteq repo.files
             /\ r.paths \cap config.full = {}           \* not shadowed
        /\ FullyRouted(config, catalog)

(***************************************************************************)
(* select_tests. The reasons that other fields of the result determine     *)
(* (test_changed, mapped_source, unmapped_path, ...) are left out.         *)
(***************************************************************************)
MappedIds(config, catalog, p) ==
    {t.id : t \in {u \in catalog : u.test = p}}
    \cup UNION {r.ids : r \in {s \in config.rules : p \in s.paths}}

Unmapped(config, catalog, paths) ==
    {p \in paths \ config.full : /\ p \notin config.noEffect
                                 /\ p \notin {t.test : t \in catalog}
                                 /\ \A r \in config.rules : p \notin r.paths}

select_tests(config, catalog, paths, complete, force, matched) ==
    LET unmapped == Unmapped(config, catalog, paths)
        full     == \/ force \/ ~complete \/ ~matched
                    \/ paths \cap config.full # {} \/ unmapped # {}
        wanted   == IF full THEN {t.id : t \in catalog}
                    ELSE UNION {MappedIds(config, catalog, p) : p \in paths}
        ids      == wanted \cap RunnableIds(config, catalog)
    IN  [mode |-> IF full THEN "full" ELSE IF ids # {} THEN "subset" ELSE "none",
         ids |-> ids, files |-> TestsOf(catalog, ids), unmapped |-> unmapped,
         rules |-> {r.id : r \in {s \in config.rules : s.paths \cap (paths \ config.full) # {}}},
         reasons |-> (IF force THEN {"forced_full"} ELSE {})
                     \cup (IF complete THEN {} ELSE {"incomplete_diff"})
                     \cup (IF matched THEN {} ELSE {"environment_changed"})
                     \cup (IF wanted \subseteq ids THEN {} ELSE {"insufficient_devices"})]

(***************************************************************************)
(* The diff: what the branch changed since the merge base, and what the    *)
(* commit under test changed over the head.                                *)
(***************************************************************************)
collect_changes(history, base, head, tested) ==
    LET known == base # NoRev /\ head # NoRev
        done  == known /\ ~history.shallow
    IN  [base |-> base, head |-> head, tested |-> tested, complete |-> done,
         paths |-> IF done THEN history.diff[history.mergeBase, head]
                                \cup history.diff[head, tested]
                   ELSE {}]

validate_changes(c) == c.complete => c.base # NoRev /\ c.head # NoRev

(***************************************************************************)
(* The environment the tests were qualified in, and the build at hand. A   *)
(* fingerprint, an image and a runtime profile are opaque values.          *)
(***************************************************************************)
validate_environment(env) ==
    env.qualified => /\ env.build # NoRev /\ env.image # NoRev
                     /\ DOMAIN env.profiles = Boards
                     /\ \A b \in Boards : Cardinality(env.evidence[b]) >= 3

\* The wheels are the recorded ones, built from the commit under test.
verify(wheels, tested) == wheels.found = wheels.recorded /\ wheels.sail = tested

\* The fingerprint of a build, refused unless the build succeeded and both its
\* diagnostics and its wheels are those of the commit under test.
build_fingerprint(made, tested) ==
    IF made.succeeded /\ made.sail = tested /\ verify(made.wheels, tested)
    THEN made.build ELSE NoRev

make_selection(config, repo, env, changes, build, image, force) ==
    LET catalog == discover_catalog(config, repo)
        matched == env.qualified /\ env.build = build /\ env.image = image
        s == select_tests(config, catalog, changes.paths, changes.complete, force, matched)
    IN  [mode |-> s.mode, ids |-> s.ids, files |-> s.files, unmapped |-> s.unmapped,
         rules |-> s.rules,
         reasons |-> IF env.qualified THEN s.reasons
                     ELSE (s.reasons \ {"environment_changed"}) \cup {"environment_unqualified"},
         groups |-> route_tests(config, catalog, s.ids),
         base |-> changes.base, head |-> changes.head, tested |-> changes.tested,
         changed |-> changes.paths, config |-> config.sum, env |-> env.sum,
         build |-> build, image |-> image]

\* What every consumer of a selection checks before it acts on it.
validate_selection(sel, config, repo, env, tested, image) ==
    LET catalog  == discover_catalog(config, repo)
        expected == select_tests(config, catalog, sel.changed, TRUE, FALSE, TRUE)
    IN  /\ sel.tested = tested /\ sel.image = image
        /\ sel.config = config.sum /\ sel.env = env.sum         \* the two checksums
        /\ sel.ids \subseteq {t.id : t \in catalog}
        /\ sel.groups = route_tests(config, catalog, sel.ids)
        /\ sel.files = TestsOf(catalog, sel.ids)
        /\ (sel.mode = "full" \/ (sel.ids # {}) = (sel.mode # "none"))
        /\ (sel.mode = "full" => sel.ids = RunnableIds(config, catalog))
        /\ (sel.mode # "full" =>
             /\ env.qualified /\ sel.build = env.build /\ image = env.image
             /\ sel.base # NoRev /\ sel.head # NoRev
             /\ \A key \in {"mode", "ids", "files", "unmapped", "rules", "reasons"} :
                  sel[key] = expected[key])

\* The plan of a board whose runtime differs from the qualified one: all its
\* tests instead of the selected ones; the other groups as they were.
effective_selection(config, catalog, sel, b, expanded) ==
    IF ~expanded THEN sel.groups
    ELSE {IF g.board = b
          THEN CHOOSE a \in route_tests(config, catalog, {t.id : t \in catalog}) : a.board = b
          ELSE g : g \in sel.groups}
=============================================================================
