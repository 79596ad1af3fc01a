# Judged: a verification project

Judged reports what could be deleted from a repository and deletes nothing. It
is four Rust crates: `judged-core` (vocabulary, gates, vetoes, the ledger),
`judged-ratchet` (the committed baseline of accepted findings),
`judged-mutants` (the precision suite: analyzers and rescue layers run over
repositories with a known answer) and `judged-cli` (the binary).

This directory holds TLA+ models of that code, the TLC configurations that check
them, and TLAPS proofs about them. `PROJECT.json` maps every definition to the
lines it models.

## Inventory

### Components, their state and their operations

| component | source | state | operations |
|---|---|---|---|
| ratchet | `judged-ratchet/src`, `judged-cli/src/ratchet_cmd.rs` | the baseline file, `.judged/...jsonl` (JSONL, reviewed and merged by humans); per process, what it loaded | load, check (health, rot, new findings), `--update` (rewrite and save), refuse |
| run health | `judged-core/src/sarif.rs` | none; reads one SARIF run | `assess_run_health` |
| ban ledger | `judged-core/src/ledger.rs` | the evidence recorded for one candidate | `record`, `family_max`, `accuses`, `total_bans`, `assign` |
| git oracle | `judged-core/src/git.rs` | none of its own; asks `git` | `recoverability`, `is_shallow`, `blob_sha`, the directories of a worktree |
| Gate 2e recency | `judged-core/src/veto/recency.rs` | the window | `judge`: three git queries and the clock |
| Gate 2a literal veto | `judged-core/src/veto/literal.rs` | the scan's limits | `query`: derive needles, list the index, read every file, decide |
| Gates 2b, 2c reachability | `judged-core/src/veto/reachability.rs` | what one scan found: roots, suffixes, gaps | walk, read manifests and enumerations, judge candidates |
| boundary gates 0a, 0b, 0e | `gate0a.rs`, `boundary.rs`, `gate0e.rs` of `judged-core` | where the stores of git, git-lfs and git-annex are | look for the stores, classify a directory, judge a candidate |
| Gate 1 never-touch classes | `judged-core/src/gate1`, `judged-mutants/src/gate1.rs`, `explain_cmd.rs` | the survey of effectors and stores, the attributes and submodules, the counts of a run | survey, build, judge sixteen classes, record |
| Gate 3f persisted references | `gate3f.rs` of `judged-core` and `judged-mutants` | the job frameworks found, the counts of a run | scan, judge claims against three conditions |
| root set | `judged-core/src/roots`, `judged-mutants/src/roots.rs`, `roots_cmd.rs` | the roots of tiers A, B, C and in-source, the gaps | collect, rescue claims, show and lint |
| coverage artifacts | `judged-core/src/coverage`, `judged-mutants/src/coverage.rs` | the records of an artifact, the positive control | `lcov::parse`, control, drop claims about what ran |
| fingerprints | `judged-core/src/fingerprint.rs` | none | `normalize_message`, `fingerprint` |
| suite runner | `judged-mutants/src/runner.rs` | a throwaway tree per mutant, the report rows | materialize, plant, run, grade, close |
| mutants command | `judged-cli/src/mutants_cmd.rs` | the reports of a bare and a gated run, the layers' records | preflight, run once or twice, compare, attribute, gate |
| systems under test, layers | `sut.rs`, `coverage.rs`, `gate3f.rs`, `gate1.rs`, `roots.rs` of `judged-mutants` | an inner system and counters | run the inner one, withdraw claims |
| adapters | `judged-mutants/src/adapters` | none | analyzer output to claims |
| fixtures | `judged-mutants/src/fixtures` | none | write the files of one scenario |
| SARIF reader | `judged-cli/src/sarif_input.rs` | none | `read`: a log to the projection the ratchet judges, or a refusal |
| command line | `judged-cli/src` | none | arguments, reports, exit codes |

### How they interact

CI runs analyzers, whose SARIF logs reach `judged ratchet`. The command loads
the baseline, reads the logs, assesses every run with `assess_run_health` and
refuses if one failed; else it merges them and either judges (`ratchet`, which
calls `detect_rot` and `new_findings`) or rewrites the file (`update`, ending in
`Baseline::save`). Humans edit, merge and review that file in between; the files
its lines point at come and go; deadlines pass. `judged mutants` runs a system
under test, wrapped in layers that each may withdraw claims (vetoes, coverage,
Gates 1 and 3f, roots), over fixtures the runner builds, grades and removes.
`judged explain` asks the gates about one path and prints the tier that `assign`
gives an empty ledger. There are no threads and no callbacks: concurrency is
between processes, humans, git and the file system.

### What is hard

* `std::fs::write` truncates and then writes. A kill or a write error in between
  leaves an empty, a shortened or a torn baseline.
* The baseline is read at the start and rewritten at the end, without a lock.
  Two invocations, or an invocation and an editor, interleave.
* A log is untrusted: an analyzer may have died, said nothing, or seen a fraction
  of the repository, and zero findings look like a clean repository.
* An amnesty list drifts: deadlines in unreadable formats, lines whose file is
  gone, duplicate lines after a merge, findings dropped and accepted again.
* A score must not depend on the order of evidence, nor on evidence that cannot
  vouch for itself, nor treat what nobody evaluated as passed.
* Git is asked in several processes, one question each, while a user works.
* The suite removes trees that git may still be writing.
* The gates and vetoes walk a tree and read it file by file while a user works in
  it, under limits on entries, probes, bytes and time, past links, unreadable
  files and directories of other repositories. Whatever they could not look at
  must end up as a refusal, not as an absence.
* Precedence: which line of which `.gitattributes`, which entry of
  `.judged/roots.toml`, which key of a YAML document is in force.
* Artifacts are written by CI, which may die in the middle of a record.
* A finding must be the same finding on another machine and another day, and no
  two findings the same; a log must mean what its producer meant.

### What makes each component correct

* **ratchet**: a finding is on the list only because a sound run reported it; a
  deadline set by a human stays until a human or a visible removal takes it off;
  a passed deadline is red; a refused log judges nothing and writes nothing;
  damage to the file shows at the next check.
* **run health**: absent, failed and partial runs are never healthy, and the
  merged run is no worse than its parts.
* **ledger**: order and repetition do not matter, unhealthy evidence is inert,
  history only subtracts and only up to its cap, quorum and total agree, nothing
  unevaluated passes.
* **git oracle and Gate 2e**: the class is at most what the path had at some
  moment of the query, an abstention rests on a moment at which the path was
  settled, and errors rescue.
* **vetoes**: what is cleared was looked at in full: no tracked file names the
  candidate, no manifest reaches it, no other repository's file speaks for it.
* **boundary gates**: what both let go is what it is called, lies in the
  repository, and takes no store and no last pointer into one with it.
* **Gate 1**: a claim survives only in a tree without effectors, and its
  attributes are those git would decide.
* **Gate 3f**: importers of a job framework are kept, and every claim is
  accounted for once.
* **root set**: with no failure, a claim is dropped if and only if somebody
  declared what it is about.
* **coverage**: a claim about what a run of CI that came to its end entered is
  dropped, and none about what no run entered; half a record is believed only
  where a machine died in it and another record followed.
* **fingerprints, SARIF reader**: identity outlives machine, line and time of
  the run; a log is read as meant or refused.
* **layers**: a layer withdraws claims and never adds any; a failed or bounded
  search rescues.
* **runner and mutants command**: every mutant is graded, not read, or the run is
  an error; exit 0 means that something was analyzed and nothing alive would have
  been removed; what the layers prevented plus what they let through is what the
  bare run removed; the command always answers.

## Modules

| module | what it is |
|---|---|
| `RunHealth` | `assess_run_health` and `merge`; operators only |
| `Ratchet` | the baseline file, the processes, the humans, the working tree and the clock; extends `RunHealth` |
| `Amnesty` | the abstract list of accepted findings that `Ratchet` implements |
| `MCRatchet` | values for TLC: runs, the files findings are about, symmetry, the view of the race run |
| `RatchetProofs` | theorems and proofs about `Ratchet` |
| `Ledger` | the ban ledger and `assign`; one action, `record` |
| `MCLedger` | thirteen rows of evidence for TLC |
| `LedgerProofs` | theorems and proofs about `Ledger` |
| `GitOracle` | one path in a git repository, a user who works on it, and `recoverability` and `RecencyVeto::judge` as the git processes they start |
| `MCGitOracle` | symmetry of contents for TLC |
| `GitOracleProofs` | theorems and proofs about `GitOracle` |
| `Suite` | `judged mutants`: the suite over the classes of a catalogue, a stack of rescue layers, the second run and the verdict |
| `MCSuite` | two small catalogues for TLC and the stacks |
| `SuiteProofs` | theorems and proofs about `Suite`: what it measures and counts; what its verdict means |
| `Boundary` | `classify`: what stops a walk at a directory; operators only, shared by the walks below |
| `LiteralVeto` | Gate 2a, one query while a user edits |
| `Reachability`, `MCReachability` | Gates 2b and 2c: the walk, the manifests, the verdicts; a repository for TLC |
| `YamlValues` | how 2b reads YAML: events, open collections, keys in force |
| `VetoProofs` | theorems and proofs about Gates 2a, 2b/2c and YAML |
| `Links`, `MCLinks` | Gates 0a and 0e over a file system with links |
| `RepoPath` | texts and paths as sequences of pieces; operators only |
| `Gate1Tree` | the work tree that Gates 1 and 3f read, and its user |
| `StateGate`, `ContentGate`, `ContractGate` | classes 1a-1f, 1g-1k, 1l-1p |
| `Gate1`, `MCGate1` | composes the three into the layer and `judged explain`; trees for TLC |
| `MCVetoes` | composes Gates 2a, 2b/2c, 1, 0 for one run |
| `Coverage` | the lcov reader, the control and the layer, while CI writes |
| `EvidenceProofs` | theorems and proofs about `Coverage` and `Fingerprint` |
| `Gate3f` | Gate 3f over `Gate1Tree` |
| `DeclaredRoots`, `InSource`, `RootSet`, `MCRootSet` | tier C, the markers in sources, the set with its layer and `show-roots`; checkouts for TLC |
| `Fingerprint` | identity of a finding over machines and edits |
| `SarifInput` | the reader of logs against what the producer meant |
| `GateProofs` | theorems and proofs about Gates 3f, 1, 0a and 0e, and about `.gitattributes` |
| `MCEvidence` | composes coverage, Gate 3f, the root set, fingerprints and the reader of logs for one run |
| `Subsequences` | `Picked`: the elements of a sequence at chosen places, in order; operators only, used by `Ledger`, `Suite`, `Reachability` and `Gate3f` |
| `RecursionFacts` | lemmas: induction over `0 .. N` for sets of numbers, existence of recursive functions, what `Picked` is |

### Ratchet: state and actions against the code

`file` is the file on disk: its entries in order, and `torn`, which says that
some line does not parse. `proc[p]` is one run of the binary: `pc` is where it
is between its file operations, `base` the baseline it loaded, `lines` what it
is about to write. `tree` is which files exist, `clock` what `now_rfc3339`
returns. The four `aux_` variables are history for the properties; no guard
reads them.

| action | code |
|---|---|
| `Load` | `Repo::discover` and `Baseline::load`: a malformed line refuses |
| `SarifUnreadable` | an error of `load_runs` |
| `RefuseRuns` | the pre-pass of `execute` (`ratchet_cmd.rs:69-110`): one failed run refuses all |
| `Check` | merge, then `ratchet`: health, rot, new findings |
| `Rewrite` | `update` up to the save; each finding carries what the first line with its fingerprint said |
| `SaveRefused`, `Truncate`, `WriteAll`, `WriteFails` | `Baseline::save`, one step per thing the file system does |
| `Kill` | the process ends anywhere |
| `SetDeadline`, `DeleteLine`, `MergeLine`, `Mangle` | what humans and merges do to a committed JSONL file |
| `TouchTree`, `Tick` | the rest of the world |

What is abstracted. `first_seen`, `justification` and `symbol` are carried by the
same statements as `expires` and are not modelled. A missing file loads as an
empty one and is not told apart from it. The uri of a line is a function of its
fingerprint: true of the fingerprints the ratchet derives, an assumption about
those an adapter supplies. A run is reduced to what the code tests: its health
bits, whether it has a degrading notification, how many targets it declared,
which fingerprints it reports; the order of its results is any order. The logs,
the clock and the existence of files are read in the one step `Check`: the code
reads the clock once and each line's file once, and a file that changes during
the loop is a file that changed before or after it, for that line. The ratio
floor is computed in `f64` by the code; 0.8 times a multiple of five rounds to
the exact integer, so the integer comparison of `BelowRatioFloor` agrees with it
at the boundary. A date is an instant, no date, or one nobody can evaluate.

`Serial` chooses between two worlds. When it is TRUE invocations and edits of the
baseline do not overlap, which is how CI and a reviewer use it; the deadline
properties need this, since an edit saved between another process's load and its
truncation is lost. When it is FALSE everything overlaps, including a write over
what another process wrote, whose tail then stays behind.

### Ledger: state and actions against the code

`evidence` is `Ledger::evidence`, and `record` appends to it. Every other method
is a pure function of it and is an operator with the same name. Bans are
hundredths, so that sums are exact (the code uses `f64`; the weights of its table
are hundredths and no comparison in the model sits closer to a threshold than
one). `Option<f64>` is a set with at most one member. `NOT_EVALUABLE` is the
table that `assign` appends for criteria this build does not compute. The only
caller outside tests is `explain_cmd.rs`, which passes an empty ledger and
default gates; the tier properties range over all gates.

### GitOracle: state and actions against the code

Neither `recoverability` nor `judge` keeps anything; each asks git two to four
questions, every one a process of its own, about a repository that goes on
changing. `history`, `index`, `worktree`, `ignored`, `remote` and `shallow` are
that repository, reduced to one path; `query` is the question being asked, what
was learnt so far (`touched`) and the verdict. The `aux_` variables are history
for the properties.

| action | code |
|---|---|
| `AskTracked`, `AskHead`, `AskRemote`, `AskIgnored` | the questions of `Repo::recoverability` (`git.rs:576-590`); any may fail, and a failed `rev-parse` reads as an unborn HEAD |
| `AskShallow`, `AskStatus`, `AskLog`, `AskClock` | the questions of `RecencyVeto::judge` (`recency.rs:279-331`); every failure is a veto |
| `Report` | the caller takes the answer |
| `Edit`, `Stage`, `Unstage`, `CommitIndex`, `Reset`, `Push`, `ChangeIgnore`, `ChangeDepth` | the user, between any two questions; external |
| `Tick` | time passes |

What is abstracted. One branch, one remote-tracking branch, one path, no merges.
What git answers is modelled from its documentation and from trying it, since it
is not part of this repository: an ignored file is in no output of `git status`,
`check-ignore` calls nothing in the index ignored, `git log -1 -- path` in a
depth-1 clone finds HEAD. `is_shallow` asks two questions (shallow, promisor),
which are one step here: nothing in normal use turns a partial clone back into a
full one between them. Commits carry the clock as committer date and any author
date; a committer date in the future, which a skewed clock can leave, is covered
by the author date, since the code takes the later of the two.

A step that takes back what the index, the branch or the remote held (unstaging,
staging a deletion, `reset`, a forced push, making the clone shallow) is a
*rewind*. The properties about a race with the user exclude queries during which
one happened, and must: after a soft reset between `git status` and `git log`,
for instance, the age that is read is that of an older commit, and no query that
asks several questions without a lock can notice.

### Suite: state and actions against the code

One process runs the catalogue bare and, if flags ask for layers, once more
through the stack (`run`); `class`, `at` and `pc` say where it is, `claims` is the
verdict in flight, `tree` the throwaway repository. `rows` are the two reports,
`runs` the records each layer keeps behind its `Rc`, `summary` what
`compare_runs` attributes. `said` and `lost` are history.

| action | code |
|---|---|
| `Start` | `preflight` (`mutants_cmd.rs`): a missing command stops everything |
| `SkipClass`, `Materialize`, `Grade`, `CloseRepo` | the loop of `run_suite_with` and `close_repo` (`runner.rs`); `CloseRepo` is one attempt |
| `AnalyzerAnswers`, `AnalyzerFails` | `CommandSut::run` (`sut.rs`) and the built-in systems: a verdict or an error |
| `Gate1Run`, `Gate3fRun`, `VetoRun`, `CoverageRun`, `RootsRun` | one turn of `Gate1Sut`, `Gate3fSut`, `VetoedSut`, `CoveredSut`, `RootedSut`; `GateFails` is the error of those that open the repository |
| `EndRun`, `Compare`, `Gate` | the second run, `compare_runs` with `attribute`, and `gate` of `mutants_cmd.rs` |
| `Uninstall` | the program vanishes from the machine; external |

What is abstracted. A claim is a record of its kind, its name as a sequence of
segments and, for a symbol, whether the analyzer gave its file; a path and a
symbol are told apart by `kind`, while `attribute` sees names only, as in the
code, where both are strings. Which claims the evidence of a layer drops is
chosen anew at each judgement, within what the layer may do: Gate 1 refuses every
symbol without a file, Gate 3f passes it, and a layer that reads the tree drops
nothing once the tree is gone or is an error. A stack is any order of layers that
occurs; the flags fix which. A system under test that empties the tree and leaves
its root is not modelled. The naive built-in control, `dedup_by_name`, the
`explain` traces and both renderings are left out.

### The vetoes and gates: state and actions against the code

Each of these modules models one process that asks the file system one thing at a
time, and a user, or a file system, that changes it in between. The properties
speak of what stood untouched while the process ran: nothing can be promised
about a file that was replaced after it was read. `MCVetoes` composes them: `gate`
names the one that runs in a behaviour, the others keep their initial values, and
`View` is the variables of that gate.

**LiteralVeto.** `index` and `worktree` are what git lists and what is there,
`query` is `LiteralVeto::query` between its reads. `Ask` derives the needles,
`abort` is every early error, `tracked_files` lists the index, `scan_entry` reads
the next file (`falls_short`: missing, a link, too large; `search_bytes`: hits, up
to `max_hits`), `TimesOut` is the budget, `Decide` the verdict, `Touch` the user.
A file is its size and which needles occur in its bytes. A needle inside a longer
one may go unreported, as leftmost-longest matching has it.

**Reachability.** `scan` is `Scan`. The walk classifies each directory
(`Boundary`), lists it, and records what it cannot list; the analysis reads each
file as the kind of manifest its name makes it and as a possible enumeration;
`vetoed` is the verdict of a candidate. `manifest` models the line grammar of each
kind (YAML keys, Dockerfile, .dockerignore, MANIFEST.in, package.json,
.gitattributes, include lines with their open and closed continuations) and
`root_literals` the reduction of a pattern to the literal before its first glob,
or to a suffix. **YamlValues** is the event loop of `yaml_values`: an action for
every event of the parser, `stack` the open collections; `aux_keys` says which key
is in force in each, independently of the code's inheritance.

**Links.** `fs` is a file system with links, ".." and locked directories;
`canonicalize`, `stat` and `lstat` are what the operating system makes of a path: it
takes one `Hop` after the other (to where a link leads, back over a ".."), `Hops` of
them at most, and comes to a directory, a file, nothing, or an error (through what is
no directory, through a locked one, or in circles).
`build0` and `blind` are the two outcomes of building Gates 0a and 0e (git says
where the stores are, or not), `judge0` one candidate, `Relink` the world.

**Gate 1.** `Gate1Tree` holds the tree and its user. `StateGate` has the survey
(`probe_git_stores`, `list`, `examine`, `finish`: `survey_in`), with its bounds on
entries and on YAML files, and the classes 1a-1f; `ContentGate` the walk for
attributes (`descend`, `read_attributes`, `read_submodules`: `build`), its glob
matcher, precedence, and the classes 1g-1k; `ContractGate` the classes 1l-1p, with
git's answer about ignore rules as an input. `Gate1` composes them in the order of
`Gate1Sut::run`: `run` or `explain`, `Survey`, `Build`, `Judge` per claim,
`Report`, and the errors that end the run. Of each table of names or markers there
are rows of every shape that its rules distinguish, and not every row. `GitMatches`
and `GitSays` are git's own rules for attributes, against which `AttributesAsGit`
holds the code's. A path is a sequence of pieces, so that suffixes, extensions and
components are what they are in the code.

### The evidence: state and actions against the code

`MCEvidence` composes five components in the same way; `kind` names the one that
runs.

**Coverage.** CI runs tests (`test_anew`, `test_more`), writes one tracefile after
another into `artifact`, file by file and in it line by line (`write`; `Block` has
the lines of one file), and may die between two lines (`die`); the next run begins
the artifact anew or adds its own to what was left of it, also in the middle of a
record. The layer reads what is there at any moment (`run_covered`, `load`,
`judge_covered`).
`parse_line` is the reader's state over one line, with its malformed lines.
The rest of `ci` is history: how often each function was `entered` by the runs that
the artifact is about, and by those that came to their end (`seen`); the file whose
record a machine that died left open (`cut`), and those whose open record another
one followed (`torn`). `layer.ci` is `ci` when the artifact was read. A line is
written whole: one that is cut in the middle is not modelled.

**Gate3f.** `run3f`, `detect_frameworks` (one file of the walk at a time,
`scan_fails` for its errors), `judge3f` per claim; the tree and its user are
`Gate1Tree`'s.

**Root set.** `checkout` (sources, directories, the file of declarations) is fixed
in a behaviour; `rooted` is the run's progress through `run_rooted` or
`run_show_roots`, `collect_manifests`, `collect_insource`, `collect_conventions`,
`collect_declared`, and `judge_rooted` or `lint_declared`. What manifests and
conventions declare is a free input. `checkout.meant` states the author's intent
on its own: the paths each pathspec is meant to cover and the names that are
exported. In `InSource` a quote, an escaped quote, an escaped newline and a
backtick are pieces of a line.

**Fingerprint.** `report` records a finding as the tool spells it in the present
world (root of the checkout, line, timing, bytes of the file); `elsewhere` changes
the world. The digest stands for the fields it absorbs. `normalize_message` makes
the code's two passes together, a token at a time (`OneToken`): the first pass looks
back at the core it made of the token before, the second at the last token it
kept, and neither sees what the other does. `Form` is the reference: what an item
of a message says in any world.

**SarifInput.** A log pairs a wire form with what its producer meant; `read_log`
maps the former.

## Runs

| run | configuration | what it shows |
|---|---|---|
| `ratchet_serial` | one process, one tool, two fingerprints (one about a file), clock to 2, two lines; health sound, silent or crashed, 3 or 4 of 5 targets declared; serial. 599,820 states | `DeadlineKept`, `InterruptedSaveIsLoud`, `PassedDeadlineStaysRed`, and that `Ratchet` implements `Amnesty` |
| `ratchet_race` | two processes, one tool, two fingerprints, no deadline but the unreadable one; everything overlaps. 649,812 states | `AmnestyIsVouched` |
| `ratchet_logs` | one process, two tools, every combination of health and coverage. 48,582 states | `CrashedRunJudgesNothing`, `MergeNeverRefuses` |
| `ledger` | every sequence of up to three of thirteen rows. 2,380 states | the properties of `Ledger` |
| `git_oracle` | two contents, window 0, clock to 1, two commits; every step of the user between any two questions. 1,188,916 states | `NeverBetterThanItWas`, `AbstentionSawSettledPath`, `AbstentionIsStable` |
| `suite` | two classes (polyglot with a decoy; one symbol without a file), up to three claims, no layer, two and three; a system that reads everything, nothing, or Python. 1,060,668 states | the safety properties of `Suite`, and `Answers` |
| `vetoes` | Gates 2a, 2b/2c, YAML, 1 and 0a/0e, one per behaviour. 722,132 states | that what is cleared was looked at: seven properties, one or two for each |
| `evidence` | coverage, Gate 3f, the root set, fingerprints and SARIF, one per behaviour. 343,647 states | that evidence is read as it was meant: seven properties |
| `launder` | as `ratchet_serial` | a divergence, below |
| `staged` | as `git_oracle`, one content | a divergence, below |
| `ignored` | as `git_oracle`, one content | a divergence, below |
| `credit` | one class with a file `apps` and a file `reporting/apps` | a divergence, below |

**Why the bounds are enough.** Two fingerprints are the least with which one can
be dropped while the other is kept and a write can be cut between lines; two lines
allow duplicates of one finding. A clock of 2 lets a deadline lie ahead, be
reached, and lie behind. Four of five targets is exactly on the floor, three is
below it. Two processes give every order of two loads, truncations and writes; a
third adds only more writers of vouched lines, and the theorem covers any number.
In the race run the clock is still, since `AmnestyIsVouched` reads no deadline,
and the view leaves out the history it does not read. Three rows make two in one
family and one in another, or three families that together reach Tier 0's
threshold; weights lie on both sides of the floor and of the cap. In
`git_oracle` two contents tell a modified file from a committed one, two commits
tell a touch from a later commit that leaves the path alone, and with window 0 a
clock of 1 has dates inside the window, outside it and, for the author date, in
the future; the theorems cover longer histories and other windows. In `suite` two
classes let one be skipped and the other graded, in either order of reports and
records; three layers put one between two others, and the stacks contain each
layer once; five attempts are the code's own bound.

In `vetoes` the user touches one path, or relinks one node, per query
(`MaxEdits`, `MaxTouches`, `MaxMoves`, `MaxRelinks` are 1): one change between two
reads is what a stale answer needs, and the theorems about 2a and 2b hold for any
number. Gate 2a has the candidate, a file of every kind in the index and one more;
`MaxHits` 1 and `MaxBytes` 1 put every limit on both sides. The repository of 2b
has one manifest of each kind, a loader and a directory of data, and each pattern
in the spellings its reduction tells apart. YAML is three collections deep with
three values: a key, one above it, and one that closed. The trees of Gate 1 differ
from an ordinary one in one or two things (attributes that contradict each other,
nested repositories, links of every kind, unreadable files, effectors by name and
by content). `EntryLimit` and `MaxEntries` are 5, one number here as in the code, and
one crowded tree has its effector behind them; `MaxProbes` 2 is as many YAML files as
there may be. The file systems of Gate 0 are all those with at most two oddities;
`Hops` is 6, more links and dots than there are in any path of theirs that has an end;
some have none, being links to each other.

In `evidence` CI runs twice, so that two reports of a file add up, and so that a
run follows one that died at any line, with
counts of 0 and 3 under a limit of 5 (`CountMax`), so that a sum is beyond it. Once
the layer has read the artifact, `View` leaves out what CI makes of it.
Gate 3f's tree has every combination of its entries and one touch. The checkouts of
the root set have two entries in `.judged/roots.toml`, so that one can overrule the
other, or one file with markers. Findings are reported in two checkouts, before and
after a reformat and an edit; logs are every combination of the spellings of
invocation, rule, location and review.

**Symmetry** is over fingerprints and processes, in the two runs in which no
fingerprint has a file, and over contents in `git_oracle`, and only for
invariants. **Deadlock** is checked
everywhere but in `ledger`, where a ledger that reached `MaxEvidence` stops, in
`suite` and `credit`, where a command that answered stops, and in `vetoes` and
`evidence`, where a query that was answered stops.

**Fairness and liveness.** `Answers` of `suite` assumes weak fairness of the
process as a whole (`Step`): nobody stops it, and it never waits for anyone but
the processes it spawns. Those are assumed to end: `Command::output` has no time
limit, so a hanging analyzer hangs the suite, in the code and by this assumption.
The environment's `Uninstall` is not fair. Nothing is assumed of how often git is
still writing; the bound on the attempts is what makes `close_repo` end. No
liveness is stated elsewhere: a run of `judged ratchet` has no loop that retries
or waits, it may be killed at any step, and nothing makes a human act; the gates
and vetoes are loops over finite lists, without a retry.

### Divergences

Four runs expect a violation: the documentation says what the code does not do.

* `launder` (`DegradedUpdateKeepsDeadline`). "--update will not extend a deadline
  a human set". An update from a degraded run drops the lines of findings that
  run missed; the next update accepts them again without their deadline.
* `staged` (`PushedIsOnTheRemote`). `TrackedPushed` is "in the index and present
  on a remote branch. Fully recoverable." The code asks whether *HEAD* is on a
  remote; a file that is only staged is in no commit.
* `ignored` (`AbstainsOnlyOnHead`). A path git has not got as it is on disk is an
  `UncommittedChange`. `git status` says nothing of an ignored file, and a commit
  that once removed the path supplies an age: Gate 2e abstains.
* `credit` (`CreditIsEarned`). "The layer that dropped the claim naming an
  artifact is the layer that earned it". `attribute` joins by trailing segment,
  paths included, while the runner grades paths by equality: a layer that dropped
  `reporting/apps` is credited for the rescue of `apps`.

The following were found by reading, and no run is about them; the models do what
the code does, and the properties exempt exactly these cases where they would be
at odds with them.

* Ratchet. Of two hand-merged lines for one finding only the first's deadline is
  carried (`ratchet_cmd.rs:258`). A write error after truncation is reported with
  "nothing was written" (`ratchet_cmd.rs:360`, `baseline.rs:152`).
* Mutants. `run` of `mutants_cmd.rs` says that `CommandSut::run` turns a spawn
  failure into an empty verdict; `sut.rs` returns an error. A refusal after some
  classes were graded is rendered with the words "no class was graded".
* Gate 2a. `ScanLimits` says of `max_hits` that the verdict is unaffected; with
  `max_hits` 0 it is (`ClearIsAnAbsence` assumes `MaxHits > 0`).
* Gate 2b. A pattern that ends in a glob and a suffix and names a directory does
  not rescue the files below it; `.gitattributes` patterns without a slash are
  rooted at the top; `src/../assets` counts as leaving the repository; the paths of
  `package.json#files` are taken from the root of the repository instead of the
  directory of the file; `bare_repository` reads an unreadable `objects` or `refs`
  as no boundary.
* Gate 1. `-linguist-vendored` does not rescue from the tables of Linguist, which
  the documentation says it does (`content.rs:685`); `**/foo` also matches
  `barfoo`, and `a[!b]c` matches `a/c`, which in git neither do, so a line that
  takes an attribute away can do so for files it is not about, and one of them is
  then judged as if nothing marked it (`content.rs:1727`: "reproducing git's
  behaviour is the only defensible choice"; `AttributesAsGit` leaves out files with
  such a line above them); a candidate spelled with `..` makes 1g-1k abstain while 1l-1p judge the
  resolved path; `filter=other` and `!filter` do not clear a mark of LFS; a YAML
  file is silently read only to `PROBE_BYTES`; a link that cannot be resolved for
  any reason is skipped silently; a tree with exactly `MAX_PROBES` YAML files still
  records a gap; a link at the place of a contract is judged as its target.
* Gate 3f. When the file that declares a framework cannot be read, the claim
  survives; the walk follows links to directories. It follows those that leave the
  tree too (`gate3f.rs:673`), which the model does not: what is there could only add
  frameworks, and refusals.
* Gates 0a and 0e. Both clear a path that leaves the root by `..`: that question
  is Gate 0c's. Both clear the root of a work tree whose git directory is elsewhere
  (a linked worktree, `--separate-git-dir`), which is neither a link nor near a store.
* Coverage. Sums of counts wrap in a release build and panic in a debug build. "A
  record that never closes" is to be loud (the test `record_framing_errors_are_loud`,
  `lcov.rs:748`), and is at the end of the file (`lcov.rs:260`); before the end an SF
  line opens the next record whether or not one is open (`lcov.rs:208`), so half a
  record of a machine that died is believed if another run adds its report. A
  function it did not get to is then missing from what is believed, or has the counts
  of the other runs only (`HalfRecordsAreTorn` exempts these records, and no others;
  `RescuedIffRan` says what is still true: nothing is rescued that no run entered,
  and everything is that a finished run did).
* Fingerprints. "The result is idempotent" (`fingerprint.rs:183`) is not so:
  `a.py:1:2:3` becomes `a.py:1`, and that `a.py`. An absolute path with a space in
  it stays in the message.
* Root set. A pathspec without a slash matches at any depth, but the lint looks for
  it at the root only, and then says that it can never match again; the pathspec
  `/` matches everything, git's nothing; a line of Rust in which a word ending in r
  stands before a quote opens a raw string and blanks the lines after it, an odd
  backtick in a Go comment too; an ordinary string that spans lines invents a root
  if one of them looks like a marker; `#[no_mangle] static mut X` declares `mut`;
  a claim spelled `./x` is not matched by the root `x`.

## Proofs

Eight modules hold theorems, checked by TLAPS for all values of the constants that
satisfy the assumptions the models name. What these assume, besides that bounds
are numbers and sets are typed:

* `RatchetAssumption`: finitely many fingerprints, at least one tool (the command
  line requires a `--sarif`), and special dates and the empty uri that are none of
  the ordinary ones. `LedgerAssumption`: what can be recorded is `Evidence`.
* `GitAssumption`: "no file" is not a content.
* `SuiteAssumption`: there is a class, names are sequences of segments, what an
  analyzer can claim of a class is finite, a stack has each layer once (a
  flag adds its layer, and only one).
* `LiteralAssumption`: git lists the tracked files in an order.
* `ReachAssumption`, `NameAssumption`: a path is a nonempty sequence of components,
  none of them empty, "." or "..", and what is above a path is a path.
  `GlobAssumption`: "**" is a glob without a suffix, and a glob has at most one.
  `PatternAssumption`: what a line of a manifest names is split into texts.
* `TreeAssumption`: the paths are listed in an order, each is a sequence of names,
  and what is above a path is a path. `Gate3fAssumption`: claims come in a
  sequence and name at most one file. `StateAssumption`, `YamlAssumption`: bounds.
  `AttributesAssumption`: what is read as `.gitattributes` is made of lines with a
  nonempty pattern and tokens. `AnalysesAssumption`: a claim is a record and about
  one path or none, which is not the root and does not end in a slash.
* `LinksAssumption`: paths are sequences of names, there is a path at which nothing
  ever is, and the repository and its git directory are directories, spelled without
  links and "..", that stay while the gates work.
* `CoverageAssumption`, about the tracefiles CI writes: at least one file, each
  listed once, also after `normalize_source`, and in it each function once; no name
  is empty or starts with a number and a comma (`parse_fn` would take that for the
  second number of an lcov 2 line, and so lose a part of the name); a count of one
  run is one digit, 0 to 7. The limit `CountMax` of a sum is any number.
* `IdAssumption`, about how tools spell things: a root is an absolute path, a line a
  number, a time what the code takes for one; the words of a message do not look
  like a position or a duration next to each other ("line 3", "5 ms" are spelled by
  the items for that); and findings that agree in rule, uri, symbol and in what
  their messages say in any world (`FormOf`) are the same finding.

TLC also checked every inductive invariant below, as a further invariant of the run
of its component (`AttributesInv` with the lines and tokens of the files in place of
all numbers, `WriterInv` and `LayerInv` with the sums of the run's counts).

| theorem | statement | argument |
|---|---|---|
| `TypeCorrect` | `Spec => []TypeOK` | inductive as it stands, by lemmas on cut, joined and rewritten lines |
| `AmnestyCorrect` | `Spec => []AmnestyIsVouched` | `VouchedInv` adds what each process is about to write: without it a process could carry an unvouched line from its memory to disk. No use of `Serial` |
| `VerdictsCorrect` | `Spec => []CrashedRunJudgesNothing` | the lemma that the pre-pass stops every crashed or silent log |
| `MergeCorrect` | `Spec => []MergeNeverRefuses` | the lemma that a merge of sound runs is sound, over any number of tools |
| `DeadlinesCorrect` | `Serial`: `Spec => []DeadlineKept` | `SerialInv`: one process at most runs (`OneRunning`), it holds what is on disk until it truncates it and what it will write carries the deadlines of what it loaded (`HoldsFile`), and the accepted lines carry the humans' deadlines (`DeadlinesAccepted`). `DeadlineKept` alone is not inductive: during a rewrite the deadlines exist only in the process |
| `DeadlinesStayRed` | `Serial`: `Spec => PassedDeadlineStaysRed` | from `SerialInv` and the lemma that a clean check found no rot |
| `InterruptedIsLoud` | `Serial`: `Spec => []InterruptedSaveIsLoud` | `CutInv`: what a rewrite is about to write has one line for each finding, and what an interrupted save left is a prefix of it, until anybody else writes. A shorter prefix then lacks a finding the log reports |
| `Refinement` | `Serial`: `Spec => RatchetKeepsAmnesties` | step simulation with `AcceptedLines` (the file, or what the rewriting process loaded) |
| `Ordered` | `Spec => []OrderDoesNotMatter` | the fold over the healthy rows of a family ends in the maximum of their set: `stronger` keeps a maximum from row to row |
| `Accusers` | `Spec => []AccusersAreInTheTotal` | both sides are read off the same maximum |
| `Subtracts` | `Spec => []HistoryOnlySubtracts` | a sum over families, from which that of H is taken out |
| `Inert` | `Spec => []UnhealthyIsInert` | a row that cannot vouch for itself is not picked, so the rows every operator reads are the same ones |
| `Capped` | `Spec => []CappedAtTier2` | `NOT_EVALUABLE` is not empty, so `blockers` never is |
| `DemotedAlike` | `Spec => []UnevaluatedDemotesLikeFailed` | `holds` accepts one of the three outcomes |
| `TypeCorrect` (of `GitOracleProofs`) | `Spec => []TypeOK` | inductive as it stands |
| `NeverBetter` | `Spec => []NeverBetterThanItWas` | `ClassInv`: while questions are open, the best rung seen keeps up with the path, and a path found tracked still is unless the user rewound |
| `AbstentionSettled` | `Spec => []AbstentionSawSettledPath` | `SeenInv`: dates are in the order of the commits (`Ordered`), so the newest commit that touches the path only gets younger (lemma `NewestOnlyGrows`), and what was seen at the comparison is covered by what `git log` reports later |
| `AbstentionStable` | `Spec => []AbstentionIsStable` | `StableInv`: while nobody touches the repository each open query has established a part of `Settled`, and `Settled` survives time (lemma `OutOfWindow`) |
| `TypeCorrect` (of `SuiteProofs`) | `Spec => []TypeOK` | `TypeInv` adds how many rows each report has at each point (`RowsInv`): without it a class could be graded that the catalogue does not have |
| `Measured` | `Spec => []NothingUnmeasured` | `LostInv`: a failed analyzer or gate has ended the command, and a destroyed tree is still on its way to `close_repo`, which finds nothing to remove and ends it |
| `Absorbing` | `Spec => []DropIsAbsorbing` | `StackInv` adds how many records each layer has: one per answer of the analyzer, less one for the layers whose turn at the last answer is to come (`Recorded`). Without it the last record of a layer could belong to an earlier class. It rests on a stack holding each layer once |
| `Trade` | `Spec => []TradeBalances` | `TradeInv`: from the comparison on, each row of the bare report is the gated row and what `summary` credits under its class (`Balanced`), which the comparison establishes and only the end of the command follows |
| `Earned` | `Spec => []VerdictIsEarned` | `VerdictInv` ties each row to the answer it grades: the n-th analyzed class has the n-th answer, and its row has the living artifacts among the claims that passed the stack (`RowsOf`). The rows alone do not say what they were graded from |
| `Attributed` | `Spec => []HealthyRunAttributes` | `AccountInv`: each layer was handed what the one inside it passed on, and what it dropped is what it did not pass on; `HealthInv` adds that nothing is summed up earlier. If the analyzer said the same twice, a removal that is gone in the second run was then dropped by a layer of the stack |
| `Absence` | `LitSpec => []ClearIsAnAbsence` | `LitInv`: as long as nothing was found and nothing fell short, a file nobody touched was read and is silent, or is still to be read |
| `ForeignUnread` | `ReachSpec => []ForeignRootsNothing` | `WalkInv`: the walk came to each directory through directories it had classified as no boundary, or someone touched one since |
| `Unreached` | `ReachSpec => []ClearedIsUnreached` | `SearchInv` adds that a file of the repository that stood untouched is listed, or below a directory the walk is still to list; then that it is still to be read, or was read and told what it roots (`Reached`); or the search knows itself incomplete. The lemmas say what `root_pattern` makes of a pattern: whatever the pattern matches, the literal before its first glob or its suffix does too |
| `Nearest` | `YamlSpec => []NearestKeyWins` | `YamlInv`: each open collection carries the kind of the nearest known key at the place it was opened (`OpenedUnder`), and a mapping the one now in force in it (`InForce`) |
| `Kept`, `AllAccounted` | `Spec3f => []ImportersAreKept`, `Spec3f => []ClaimsAreAccountedFor` | `Inv3f`: during the scan a file that imports a framework is in the queue or the framework is known (`Scanned`), nothing is judged before the queue is empty (`JudgedLast`), the claims left, refused and survived are all the claims (`Accounted`), and what was judged of a file that stood untouched is what would be judged now |
| `HalvesAreTorn` | `CovSpec => []HalfRecordsAreTorn` | `WriterInv`: after each line of each block the reader of the artifact stands where CI does (`Abreast`), or with its record open where a machine died, has not stumbled, and every record that is neither open nor torn is full (`Sound`). `LayerInv`: what is believed has no record open, since `parse` refuses such a tracefile. The lemmas say what the reader makes of each line of a block |
| `RescuedRan` | `CovSpec => []RescuedIffRan` | the same invariant: `Abreast` also says that the counts of the reader are those the artifact was told, as far as nothing wrapped (`Exact`). Of a run that died the artifact was told a part: what it was told before the present run is some `base` that has all that finished runs entered and nothing that no run entered (`Between`), and `LayerInv` has the same of what is believed (`Bounded`). `RescuedIffRan` compares sets only, which no step keeps: it is the counts, line for line, that a step keeps |
| `Unseen` | `Gate1Spec => []NoEffectorUnseen` | `Inv1`: as long as the survey has found nothing and no gap, each path that stood is harmless, or the survey is still to come to it or to a directory above it (`WalkCovers`), and when it ends, harmless (`Concluded`); and claims survive only after a survey that ended like that (`SurveyFirst`) |
| `AsGit` | `Gate1Spec => []AttributesAsGit` | `AttributesInv`: each rule the walk found is said where it was read, and what is said after it there stands after it in the list (`RulesStand`), also when the list is sorted; each file of attributes that stood is read, or the walk will still come to it, or it knows itself incomplete (`ContentCovers`, `ContentDone`); and what survived has no rule, of all that match, that sets an attribute last (`JudgedByRules`). Whatever git says of a path is then such a rule (`GitSetsNone`), because the code's matcher takes what git's takes and, unless the pattern is `Lenient`, nothing else (`GlobAsGit`). That is the long part: the code's matcher fills a table over a pattern and a path, git's cuts both into names and goes part by part, and each is led along the way of the other |
| `CanGo` | `SpecLinks => []ClearedCanGo` | `LinksInv` is small: what was a store when the gates looked is a region (`RegionsKept`), and the verdicts are those of the file system as it is (`JudgedAsItIs`). The rest is about walks: a path in a directory comes to its name in the place the directory leads to (`Arrives`), a walk that goes on from there ends where a walk that starts there does (`FromThere`), so what Gate 0e compares is what `rm` removes (`ComparedIsRemoved`), and without links and ".." it is what it is called (`CalledAsItIs`). For every `Hops`: a walk that does not end is an error, and nothing is cleared then |
| `KnownAgain` | `IdSpec => []IdentityOutlivesTheRun` | `IdInv` says only that what was reported was reported in some world. The rest is that the normal form of a message is its `Form` in every world, item after item: what the code remembers of the tokens before an item (`OneToken`: a core, and the last token) is such that the item comes out as its form, and leaves something of that kind for the next. A word is the hard case, since what it becomes depends on its neighbours on both sides (`Follows`) |

**Recursion.** Properties about what a fold or a selection yields (`Ordered`,
`Unreached`, `Kept`, `RescuedRan`, ...) need induction over data. `RecursionFacts`
does it over sets instead of predicates: from the library's theorem that a
nonempty set has a minimal element under a well-founded relation it follows that a
set which has 0 and with each number below N the next one has all of `0 .. N`
(`Upwards`). With that a recursive function on `0 .. N` is shown to exist
(`Recursion`), and to have the values it should. The reader of a tracefile is such
a function; that one more line is one more step of it is a lemma
(`ParsedOneMore`). `glob_segment` is one too, on the positions of the pattern: its
value is a set of positions in the path (`TableIs`). Where the theorems are about selections and folds, the models
write them with `Picked` and with recursive functions.

**Only model-checked**, and why:

* `Answers`: liveness.
* `RescuedIffDeclared`, `ReadAsMeant`: what the author or the producer meant is part
  of the constants (`Checkouts`, `Logs`), on its own and not as a function of the
  spelling, so that these properties hold of the inputs listed there; no assumption
  short of the property itself carries them to all inputs.

## Not modelled, and the plan

`PROJECT.json` gives the reason for every component.

* The analyzer adapters (`judged-mutants/src/adapters`) and what manifests and
  framework conventions declare (`roots/manifest.rs`, `roots/convention.rs`): each
  is a parser of one format, without a state, an order or a limit. Their outcomes
  (claims, roots, nothing, an error) are inputs of `Suite` and `RootSet`.
* Fixtures, rendering, arguments, errors and crate roots: test data, wording and
  declarations.
* Of Gate 1: candidates below a linked directory. Of the git oracle: `blob_sha`,
  `common_dir`, `absolute_git_dir` and `config`, single reads that `Fingerprint`
  and `Links` take as inputs.

What could follow, in this order: the layers of `Suite` as refinements of `Gate1`,
`Gate3f`, `Coverage` and `RootSet`; the discovery of manifests in
`manifest.rs` (which files speak, and what an unreadable one hides).
