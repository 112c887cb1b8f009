# CIaC: models, checks and proofs

This directory is a TLA+ development kept beside the CIaC compiler. CIaC
compiles `.ciac` service programs into Python, Rust, TypeScript, Go or Java
projects, regenerates those projects after every source change without losing
what users typed into them, simulates the services deterministically, and has
rename, watch, editor and agent tooling around that loop.

Every module says in its header which part of the code it models.
`PROJECT.json` maps each definition to source lines and lists the components,
the runs with their properties, a mutant for each property, the hazards and the
theorems. Paths below are relative to `crates/` unless they start with `docs/`.

To run: `tlc -config X.cfg M` for a row of section 4, `tlapm XProofs.tla` for the
proofs about `X`.

## 1. Inventory

Two halves. The *compiler* is a pure function from sources to a generated
system: loader, front end, graph, passes, code generation model, lowering of
bodies. Around it are *processes that live in time*: builds into a tree that
somebody edits, renames, the watch loop, the language server, databases that
follow the program, and the simulator.

| Component | State it keeps | Operations | Hard behaviour | What makes it correct |
|---|---|---|---|---|
| **Module loader** `ciac-syntax/src/{module,registry}.rs` | resolution stack, loaded set, registry cache on disk | load, resolve file / std / registry | diamonds, cycles, one file under two spellings, two processes sharing the cache | each file spliced once, cycles reported exactly, every load ends |
| **Semantic analysis** `ciac-sema` (`blueprints`, `build`, `typeck`, `compat`, `passes/*`) | the builder: scopes, instances, nodes, edges, diagnostics | expand blueprints, build every kind of declaration, check bodies, validate | lookups in tables that services share, kinds built in a fixed order, searches for cycles, capture of names | order does not matter, passes are exact, services stay apart, accepted bodies run |
| **Intermediate representation** `ciac-ir` | graph, typed bodies | queries on both | | |
| **Code generation model** `ciac-codegen/src/model.rs` | one model per service | `build_system`, `build_scoped` | a service is cut out of the graph of a whole program | what the services open, call, consume and schedule fits together |
| **Lowering** `ciac-codegen/src/lower/{dispatch,scan}.rs`, **handler bodies** `ciac-backend-*/src/lower.rs` | destination stack, names, needs | a typed body to the text of five hosts | statement hosts against expression hosts, order of effects, production against simulation | a body means on every host what it says |
| **Migrations** `ciac-codegen/src/migrations.rs` | schema snapshot in the manifest | `snapshot_schema`, `diff_schema`, `order_new_tables`, SQL | series of changes, order of foreign keys, a runner that dies in a file | the files in order build the last schema |
| **Semantic baseline** `ciac-codegen/src/{semantic_model,semantic_diff,evolution}.rs` | baseline file, boundary records in the manifest | snapshot, diff, accept, refuse a build | two judgements of one change | what a build refuses the report calls breaking, for the same services; deployed services understand each other |
| **Backfill** `ciac/src/backfill.rs`, `ciac-codegen/src/backfill.rs` | plans, scripts, ledger table | plan, materialise, contract | several deploys and a script run by hand in between | no column stays nullable unplanned |
| **Regeneration** `ciac/src/commands.rs` (`build_inner`, `generate`, `replay_recipe`), `ciac-codegen/src/{regen,manifest,project}.rs` | output tree, `.ciac-new` sidecars, `.ciac/manifest.json` | `build`, `--force`, `--adopt`, the commit half of `rename --out` | user edits between builds, crashes and I/O errors mid-apply, two builds at once, files that vanish and return | never loses user content; no conflict nobody made; a failed build keeps the tree; migrations match the recorded schema; rebuilding converges |
| **Rename transaction** `ciac/src/rename.rs` | sources, backups, journal | `rename --apply`, roll back, manual recovery | failure at any of about ten writes, in the rollback too; several trees | always recoverable, rollback is total, success means everywhere |
| **Dev loop** `ciac/src/dev.rs` | watch set, event channel, stop flag | first build, rebuild, debounce, compose stack | events lost in the drain, watch set and build read the sources at different times, paths compared as they are spelled | a pending save is built, the loop comes to rest |
| **Language server** `ciac/src/lsp.rs` | open documents, deadlines | didOpen, didChange, didSave, didClose, requests | a deadline only a quiet connection looks at; saves against newer buffers | what is shown belongs to the buffer; every change is diagnosed |
| **Simulated store** `ciac-sim/src/{world,failure}.rs` | tables, references, failure rules | insert, update, delete, batch | partial batches, cascades, injected failures | the constraints of the real migrations; all or nothing; a batch is a sequence |
| **Simulation runner and broker** `ciac-backend-rust/templates/sim_runner.rs.j2`, `ciac-sim/src/{world,cron}.rs` | logs and cursors, clock, counts | request, drain, advance, expect | workers that feed each other, retries after partial effects, windows on a schedule's edge | retry accounting, each instant once, no message silently undelivered |
| Peripheral fakes `ciac-sim/src/world.rs` | cache, objects, mail, HTTP fixtures | single calls | | partly: in `Meaning`, as what a body's calls do |
| Lexer and parser, diagnostics, generated text, project rendering, external backends, batch formatting, CLI and MCP, schedules and replay, production workers, Python runtime | | | | not modelled, section 9 |

The components in bold are modelled.

How they meet. The command line, `ciac dev` and the MCP server all reach
`build_inner`; `rename --apply --out` calls `replay_recipe`, which shares
`generate`, `plan_regeneration` and `apply_regeneration` with it. Nothing locks
the output tree, the sources or the registry cache, so every pair of those may
interleave, with each other and with an editor. A build runs the whole compiler,
compares its schema and boundary records with the manifest, and may refuse; a
database meets the result later, file by file. The simulator is a separate,
single-threaded program: the generated runner owns one `SimWorld` and calls the
generated handlers.

## 2. Modules

**The compiler.** `Compile` composes them in the order of the code.

| Module | Models | Correspondence |
|---|---|---|
| `TypeCheck` | `typeck.rs`, `compat.rs`, `ty.rs`, `hir.rs` | a check threads a scope and returns the typed body or its first error, one operator per form of expression |
| `Builder`, `Wiring` | `build.rs` | the builder is a record; an operator per kind of declaration takes the declaration and the builder. `Builder`: settings, types, records, references, capabilities, instances; `Wiring`: components, streams, handlers, pipelines |
| `Cycles`, `CyclesProofs` | the searches of `passes/cycles.rs` and `find_reference_cycles` | one three-coloured search over a graph given by its successors, step by step: `Begin` a start, `Visit` a successor, `Leave` a node. What the builder has on the call stack the pass has on a stack of its own; `first` is whether the search stops at the first cycle |
| `Blueprints` | `blueprints.rs` | expansion as substitution with the renaming table of the code |
| `FrontEnd` | `Builder::build`, `passes/*`, the reachability of `graph.rs` | the schedule of kinds, the passes with the codes each reports, and `Run`, a whole compilation as an operator |
| `SystemModel` | `model.rs`, the weekday field of `cron.rs` | a model per service, the fields the templates branch on |
| `Lower`, `HostSyntax` | `lower/dispatch.rs`, `lower/scan.rs`, the trait | the lowering with the host's methods as CONSTANTS |
| `HostRust`, `HostPython`, `HostGo`, `HostTs`, `HostJava` | `lower.rs` of each backend | instances of `Lower`: each method by what its text *means*: a host statement or expression |
| `Meaning` | what a run of a body does: the calls of `world.rs` in a simulation, their counterparts in production | an interpreter for typed bodies and host bodies alike. A divergence of a host adds its name to `quirks` at the place where it bites |
| `Compile` | the pipeline of the above | actions `ExpandAll`, `Build(kind)`, `Validate`, `BuildModels`, `LowerFor(host)`, `Emitted`; then the properties |
| `Sources`, `MCCompile` | notation for declarations; the programs | |

Three operators are constants of `Wiring` and `Compile` although only one value is ever meant: `CheckBody` (`CheckHandler`), `Lowering` (`Render`)
and `RunBody` (`Reference`). They name the seams between components, and TLC
then counts such an operator once instead of expanding it wherever it is used.
`Evolution` takes the compiler in the same way, as what it makes of a revision
(`SupportedOf`, `SchemaOf`, `ShapesOf`, `HashOf`, `FieldsOf`, `ExchangesOf`) and of two
(`BackfillsOf`, `FollowersOf`). `Versions` gives them their values, and TLC evaluates
them once for each revision (as it does `IrOf`, `ModelOf` and `DiffOf` of `Versions`);
the theorems about `Evolution` hold for any compiler.

**The processes.**

| Module | Models | Correspondence |
|---|---|---|
| `Loader`, `LoaderProofs`, `MCLoader` | `load` and the resolvers of `module.rs`, `fetch` of `registry.rs` | the recursion is an explicit stack, a process per compiler; `CreateCacheFile` and `CacheWritten` are the two halves of `fs::write`; `Crash` kills a process anywhere |
| `EditSafety` | the abstract promise to the owner of a tree | `disk`, and `known`: what builds have ever rendered for each path. A build may replace or delete a path only while it holds something expendable |
| `Regen`, `RegenProofs`, `MCRegen` | a build, step by step | `phase` is the place in `build_inner`; `BuildUpToDate`, `BuildUnreadable`, `BuildRefused` are its early returns; `BuildGenerate` is `generate()`; `PlanBuild` the second `load_manifest` and `plan_regeneration`; `ApplyFile` one iteration of `apply_regeneration`; `FinishBuild` writes the manifest. `Abort*` are `?` returns and process deaths, with a torn file where `std::fs::write` truncates first |
| `SemanticDiff` | `semantic_model.rs`, `semantic_diff.rs` | functions of a built program and of two of them |
| `Evolution`, `EvolutionProofs` | `migrations.rs`; builds of a changing program, its databases, baseline and backfill | schemas are functions from tables to columns, statements are records; `Edit`, `Build` (which may refuse), `AcceptBaseline`, `Plan`, `Contract`, `RunScript`; the migration runners with `Migrate` (a file) and `MigrateCut` (died inside one) |
| `Versions`, `MCEvolution` | `snapshot_schema`, `evolution.rs`, `plan_backfills`; the programs | what the compiler makes of each version; `RefusalsAreExplained` and `ReportNamesTheRefused`, which compare two judgements of the compiler |
| `Rename`, `RenameProofs`, `MCRename` | `apply_plan` and `rollback` | `pc` walks backup, journal, replace, verify, check and commit of the trees, clean; every write may fail (`IOErrors`) or be the last (`Crashes`); `Recover` is the person the refusal message speaks to |
| `DevLoop`, `MCDevLoop` | `dev.rs` | `Load` and `Generate` are the two readings of the sources in `rebuild`, `Start` the compose stack, `Drain` the throwing away of events, `Receive`/`Absorb`/`Settle` the debounce; `Report` is the watcher; `out` is how `--out` relates to the handlers, which decides what `is_relevant` matches |
| `Lsp`, `LspProofs`, `MCLsp` | `lsp.rs` | the server's `receive`, timeout and poll; the editor and the wire; other programs that write files |
| `FailureEngine` | `failure.rs`, `SimWorld::should_fail` | a value carried by the modules that extend it |
| `SimStore`, `SimStoreProofs`, `MCSimStore` | `FakeDatabase`, `validate_write`, `plan_delete`, `commit_batch_checked` | tables are sequences of rows, a row its id and reference columns |
| `SimRunner`, `SimRunnerProofs`, `MCSimRunner` | `Runner::run`, `BrokerLog`, `FakeQueue`, `cron.rs` | a message is its position in a log; `TakeBatch`, `Attempt`, `Unreadable`, `NextWorker`, `Sweep` are the drain, `Tick`, `NextJob`, `FinishAdvance` the advance |

`Regen` and `Rename` meet in the mode `replay` of `Regen` and the actions
`CheckTree` and `CommitTree` of `Rename`. `Regen` sees a migration as the set of
features it adds; `Evolution` has the statements and no files to conflict with.
`DevLoop` sees a build as one step with the outcomes `Regen` gives it. `Lower`
and `TypeCheck` meet in `Meaning`, which runs both sides of the compiler.

A definition named `X_Faulty...` is a plausible bug in `X`. No action uses it; it
is what a property must reject when it takes the place of `X`.

## 3. Properties

**Compiler.** `PathsAreSound`: what an accepted pipeline does on *every* choice of
match arms. `CyclesAreFound`: both cycle searches against the definition of a
cyclic relation, in both directions. `ServicesApart`: no edge and no reference
crosses a service, but streams and calls. `ServicesFit`: the generated services
fit together: instances, clients, routes, subscriptions, groups, ports, columns,
schedules. `OrderIsFree`: declarations reversed, or one of them moved, make the
same graph. `ExpansionsApart`: hygiene of blueprints. `BodiesRun`: what the
checker accepts never goes wrong when it runs, and a transaction never does what
its rollback cannot take back. `LoweringPreservesMeaning`: five hosts, production
and simulation, against the source, with the known divergences of each host by
name (`Known`); a run that meets one is not compared, but for what it needs.

**Evolution.** `SchemaCatchesUp`, `RefusalsAreExplained`, `DeploysStayReadable`,
`NullableColumnsHavePlans`. All but the second, which is about the compiler and
lives in `Versions`, are in `Evolution`. `ReportNamesTheRefused` is what a comment
says of the report and the code does not do: the second speaks of the services that
read a record in the program last built, this one of those the refusal names.

**Loader.** `SplicedOnce`, `ResolvesTheGraph`, `LoadEnds` (liveness). What a load
reaches is defined without a search, as the smallest set that holds its entry and
is closed under the imports the load has read.

**Language server.** `ShowsTheBuffer`, `FiresInTime`, `SymbolsFollowDiagnostics`,
`ReparseHappens` (liveness).

**Regeneration.** `NoUserContentLost` is refinement of `EditSafety`: no build but
one clearing the tree for `--force` replaces or deletes a file whose content no
build rendered for that path. `SeedWrittenOnce`, `NoFalseConflict`,
`FailedBuildsKeepTree`, `SchemaCovered`, `UpToDateIsSound`, `BuildsConverge`
(liveness).

**Rename.** `Recoverable`, `EditsKept`, `RollbackIsTotal`, `AppliedEverywhere`.

**Dev loop.** `PendingIsBuilt`, `EchoesEnd` (liveness). `HandlerEditsAreBuilt` and
`RestsUpToDate` (liveness too) are what the documentation promises; the code breaks
both. `PendingIsBuilt` is what is left of them: it speaks of what the loop heeds,
and of changes that wait while the loop listens or debounces.

**Simulated store.** `ConstraintsHold` (references, ids and unique columns at
once), `DeleteIsTheClosure` (the recursive plan against the least closed set),
`BatchIsSequential` (a batch against its operations one by one).

**Runner.** `AttemptsAddUp`, `EachInstantOnce`, `PublishesAddUp`,
`QuiescenceIsReal`.

Some modules also state what does *not* hold (`CacheIsReproducible`, `NeverLate`,
`ScriptsHaveTheirLedger`, `HandlerEditsAreBuilt`, `RestsUpToDate`,
`ReportNamesTheRefused`) or the weaker thing that does (`TornOnlyByTheCache`);
no run checks those, section 6 explains them.

## 4. Runs, bounds and what they show

| Run | Module, cfg | Distinct states | Asks |
|---|---|---|---|
| `compile_programs` | `MCCompile`, `Compile_programs` | 62 000 | seven families of programs and a family of bodies, compiled from the source to five hosts, their bodies run |
| `evolution_builds` | `MCEvolution`, `Evolution_builds` | 420 000 | seven versions of a shop with a database, one of which no backend generates, six of a system of services, in any order, with a database that lags and dies, a baseline and plans |
| `loader_imports` | `MCLoader`, `Loader_imports` | 136 000 | every import graph of up to two imports from the entry, two processes, kills |
| `lsp_session` | `MCLsp`, `Lsp_session` | 66 000 | one session over a file and one that it imports |
| `regen_edits` | `MCRegen`, `Regen_edits` | 427 000 | two owned files, a seeded one, up to two migrations; three source revisions; edits, deletions, reconciled sidecars; normal builds and rename replays |
| `regen_crash` | `MCRegen`, `Regen_crash` | 127 000 | a build dies or fails between any two steps or inside a write; the manifest is deleted; `--adopt` |
| `regen_two` | `MCRegen`, `Regen_two` | 1 608 000 | two builders, `--force` included, interleaved step by step, dying anywhere, with a migration |
| `regen_converge` | `MCRegen`, `Regen_converge` | 35 000 | convergence across two compiler versions, refused schemas and records |
| `rename_faults` | `MCRename`, `Rename_faults` | 36 000 | two renames, two files, two trees, faults at every step, edits and recovery between |
| `dev_loop` | `MCDevLoop`, `DevLoop_loop` | 92 000 | two saves or removals at any moment, failing builds and stacks, `--out` spelled in each of three ways |
| `store` | `MCSimStore`, `SimStore_calls` | 2 600 | every single call and every batch of two, in every reachable store of five rows, under failure rules |
| `runner` | `MCSimRunner`, `SimRunner_scenario` | 112 000 | every scenario of six steps over three workers, two jobs, two api pipelines, two rules |

Why the bounds are enough.

*Programs.* A program is not bounded by a size but made for a question: each
family of `MCCompile` fixes the declarations that one part of the front end needs
and chooses freely those it decides on, wrong ones among them. Pipelines: every
placement of auth, publish, match and return on up to three paths. Services: two,
calling and feeding each other both ways, with and without each capability; the
search for longer cycles is the same. Blueprints: two expansions of each of five kits, one
of them with a record that refers to a table of the kit. References: three
records in every shape of a triangle, over one or two services. Bodies: two
statements out of every form of the language, the first of which may bind what
the second uses; deeper nesting is reached through the forms that nest. Each runs
on two inputs, in a simulation, in production and in production without its
cache, so that both branches, and failure after an effect, are met.

*Evolution.* `MaxFiles = 4` leaves room for three migrations and a contract;
`MaxPlans = 1`, plans do not meet. The databases are one whose runner applies
files whole and one that can stop inside a file. *Loader*: two loads, one cached
blueprint, spellings `b` and `./b`. *Language server*: `Debounce = 3` and
`Poll = 2` ticks, so that deadlines fall on and between polls; three messages may
be on the wire.

*Regeneration.* `plan_regeneration` compares each path on its own; what relates
paths is "some path conflicts" and the manifest, so two owned files (one
conflicts, one would be written), one seeded file and the migrations meet every
combination. Two renderings and one user content are the three corners of the
three-way comparison. `MaxSeq = 2` allows a first migration, a second, and the
loss of one in between. The crash run has one owned file and two migrations, so
that there is always a step before and after the fault; faults are not bounded.
The run of two builders has one owned file and one migration. *Rename*: two files
and two trees give every loop a first and a last element. *Dev loop*: two saves
make one that is dropped and one that could have repaired it; a handler is in a
watched directory whose canonical path `--out` spells, in one it does not, or in none. *Store*: a chain of
a one-to-one cascade and a plain cascade with a restricting reference across it.
*Runner*: the clock ticks twice a minute so that windows start and end on and
between minutes; six steps allow request, drain, advance twice. `CountCap`
saturates occurrence counters above every rule's number, and `DueCap` is above
the instants of the horizon.

## 5. Fairness

`Regen!FairSpec`: weak fairness of starting builds and of each started build's
steps. The second is the operating system's scheduling of a process that never
waits; the first is the hypothesis of the convergence claim ("if you keep running
`ciac build`"), not a fact about the code. `DevLoop!FairSpec`: weak fairness of
the loop, whose every wait has a timeout (`recv_timeout`), and of the watcher's
delivery. `Lsp!Spec`: of the server, for the same reason, and of the clock; the
editor is not fair, and `MaxSends` lets it fall silent, without which a reparse
can be postponed for ever. `Loader!Spec`: of each process that is not killed.
`Compile!Spec`: of the one thread. Nothing requires a user to act. All safety
properties are checked, and proved, without fairness.

## 6. Findings and divergences

What was met while translating the code or refuting a stronger property. Where a
property is narrowed because of one, its comment refers here.

**Regeneration, rename, dev loop**

- `--force` deletes the migration history (`ciac/src/commands.rs:419`): `generate`
  diffs against the old manifest before the tree is removed, emits no migration,
  and the new manifest inherits the old sequence number, where
  docs/regeneration.md:121 promises a blank-slate overwrite. `--force` also fails
  on a manifest that does not parse, which is when one wants it.
- An edit during a build, between plan and apply, is overwritten (`Interfere =
  TRUE` refutes `NoUserContentLost`; docs/regeneration.md:8).
- After a crash between the last file and the manifest, the next build of a
  changed source reports a conflict nobody made (`Crashes = TRUE` refutes
  `NoFalseConflict`; docs/errors.md:153).
- `is_up_to_date` does not compare the compiler version it records
  (commands.rs:140; two compilers refute `UpToDateIsSound`).
- After an I/O error, as opposed to a failed check, a rename leaves half of the
  sources renamed until somebody restores the backups; after a crash in its
  cleanup, restoring the remaining backups as the refusal suggests would undo part
  of a finished rename.
- `ciac dev` compares the canonical path of an event with `--out` as it was written
  (`ciac/src/dev.rs:264`): with a relative `--out`, which is what docs/dev-loop.md:13
  shows, or one through a link, an edit of a seeded handler is reported and never
  matches, where docs/dev-loop.md:39 promises a restart (`HandlerEditsAreBuilt` is
  refuted, and holds when `out = "canonical"`). Only `app/services` and
  `src/services` are watched at all: handlers of Go and Java projects, and of
  programs with several services, lie elsewhere.
- A save made while `ciac dev` rebuilds is dropped by the drain (dev.rs:102), and the
  loop comes to rest with a source that it has not read, until the next change
  (`RestsUpToDate` is refuted, with `SavesDuring <- WhileWatching`
  by a save just before the drain).
- `ciac dev` does not see an imported file created after the rebuild that missed
  it (`ciac/src/dev.rs:118`, `:129`): a missing import is an I/O error, and the
  watch set stays the old one. Saves made during the first rebuild are never reported.

**Language server and loader**

- `didSave` clears the pending reparse although the buffer may be newer than the
  file (`ciac/src/lsp.rs:254-260`), and the stale diagnostics stay until the next
  change: `ShowsTheBuffer` speaks of the state after a `didChange`. Saving an
  imported file does not refresh the files that import it. Rename and definition
  read the disk, not the buffers (docs/evolution.md:369).
- A reparse is looked at only when a receive times out: `NeverLate`, the comment
  on `DEBOUNCE_POLL`, is false for a client that keeps talking; `FiresInTime` says
  what holds.
- The registry cache is filled after it is created (`ciac-syntax/src/registry.rs:115`):
  a killed or concurrent compiler leaves or meets an empty blueprint, for good
  (`CacheIsReproducible` is false; `TornOnlyByTheCache` says when).

**Front end**

- `publish` in a handler body makes no edge in the graph: a worker that
  republishes to its own stream is not a cycle, contrary to docs/errors.md:110,
  docs/ir.md:151 and docs/language.md:613, and its stream is reported as having no
  publisher.
- Declaration order is not free with `events` (docs/language.md:10):
  `worker W on Orders; events Orders;` is an unknown stream, the reverse builds.
  In a program of several services a body may name a table of a service declared
  before its own, but not after. `OrderIsFree` leaves these out.
- `Return` inside a match arm is unchecked (compat.rs; docs/language.md:487, :618).
- A blueprint with a `table` can never be expanded in a program of several
  services (blueprints.rs:138-142); one with a `use`, expanded twice, is a
  duplicate capability (docs/blueprints.md:95).
- `streams` is keyed by the bare name: streams of one name, and the default
  `Events`, of a later service take over; the default stream of all services has
  its broker edge to the first one's queue. The cache a `crud` needs is looked for
  in the whole program.
- The type of a body's tail expression is never compared with the return type; a
  parameter named `v1` meets the slot names of `let`; `scan_transaction_body` does
  not look into arguments, operands and conditions, `collect_transaction_verbs`
  not into the values of query predicates.

**Lowering.** The names in quotes are those of `Known`.

- Bodies that are accepted but nest `if`, `match`, writes or queries inside
  scalars panic in `lower_scalar` (dispatch.rs:229-239); a bare enum literal panics
  on Rust, Go and Java; a Rust match needs a field access.
- Reads inside a transaction: `get` goes to the pool on Rust, Go and TypeScript
  ("own writes"); the simulated transaction queues its writes, so reads do not see
  them ("early answer") and deletes are applied last ("deletes last", world.rs:998,
  :1009, also the other worlds); Rust's simulated `delete_where` is immediate and
  not rolled back ("not rolled back").
- `update` keeps the key's id in SQL but takes the value's in worlds and in Python
  ("another id"); Python skips evaluating the value when the row is missing
  ("skipped"), and renders the value of `insert` twice ("twice";
  backend-python/lower.rs:279-300, docs/expressions.md:137).
- Go drops the error of `cache.set` ("lost error"); string plus non-string, unused
  lets, nested fallible calls, missing returns and two transactions in one body do
  not compile there. Java leaves the destination of `cache.set`/`delete`
  undeclared, and does not guard `get` nested in an expression in a simulation
  ("unguarded").
- Equality is identity for Java strings and for TypeScript dates and records
  ("identity"); orderings of non-numbers are false in the simulation on TypeScript
  and Rust ("order"); TypeScript division by zero is Infinity ("infinity"), Python
  division is true division ("fraction"), Python writes booleans as `True` ("True").
- Stored strings: plain text does not round-trip through the object store on Rust,
  Python and TypeScript ("plain text"); Go wraps scalars and Java never does
  ("another form"); `get` of a missing object fails although it is typed Option.
- A Rust index of a missing Json key gives null where others fail. SQL LIKE has
  wildcards, `contains` in a simulation none. TypeScript's SQLite mode awaits
  inside a synchronous transaction callback. Generated Python tests assert calls
  that a branch may skip.

**The generated system** (`ciac-codegen/src/model.rs`)

- `queue_group` is the bare worker name (model.rs:990): workers of one name in two
  services on one stream compete instead of each being sent every message
  (docs/language.md:458, :463). `Arrives` excepts them.
- Services with different brokers may share a stream and never meet. A pipeline
  for `<Events>Consumer` is accepted and never generated.
- `call S.Crud` makes a client for POST `/<kebab>`, the resource is served at
  `/<snake>s`; calling an api without a pipeline makes a client without a route.
  `Served` excepts both.
- A body may use another service's table, for which nothing is generated; of
  several databases or caches a handler binds only the first is given
  (`access_of`).
- Names that differ in spelling only (`Main`, `main`) collide in state fields and
  containers; so do container names of a service `Shop` with a cache `db` and a
  service `ShopDb`; a reference `customer` and a field `customer_id` are one column
  twice; `Order.itemKind` and `OrderItem.kind` are one enum type. Port 8000 + index
  meets the mail UI's 8025 at the 26th service. The programs checked are small
  enough, or spelled apart.
- `N/step` in a schedule fires only at N in the simulator (cron.rs `parse_field`)
  and from N on in production, against docs/backends.md:279; `Agrees` excepts it.
  The simulator requires day of month *and* weekday where several cron libraries
  use or. For the Rust `cron` crate Sunday is translated to 7; that crate's own
  numbering is outside the repository.

**Evolution**

- A foreign key that becomes a plain column, or the reverse, is accepted silently
  (docs/evolution.md says it is refused); changes of uniqueness are never detected;
  two table names with one snake_case overwrite each other.
- `diff_schema` compares foreign keys only where the last build *and* the new schema
  have one (`ciac-codegen/src/migrations.rs:330`). A column that refers to A, is plain
  for one build, and then refers to B passes both comparisons: no migration, and the
  database goes on enforcing A. It was met as the part of `SchemaCatchesUp` that
  could not be proved without `KeysStay`.
- A plain column `of_id` that later becomes the reference `of` is the same column to
  the migrations and another field to the diff, which then names the field `of` and is
  resolved to no column (`ciac-codegen/src/backfill.rs:144`): a database that still has
  the column nullable is offered no plan for it (`AddedStayPlain`).
- `render_type` remembers a referenced record and table by position, so that two
  fields that are remembered alike need not be alike, nor the other way round: hence
  the hypothesis `SnapshotsTell`.
- The report of a changed record names the services that read it in the old program
  (`ciac-codegen/src/semantic_diff.rs:273`, `:299`), the refusal of the build those of
  the new one (`ciac/src/commands.rs:3376`, `evolution.rs:130`): a service that began to
  read the record in the same edit is named by the refusal only
  (`ReportNamesTheRefused` is refuted by the revisions of `MCEvolution`), one that stopped reading it by
  the report only. The deployed readers, which the change breaks, are the old ones;
  `RefusalsAreExplained` says that the report has them all.
- A program with a reference to many is accepted by the front end and refused by every
  build (`commands.rs:3224-3251`): the link tables of `snapshot_schema` are compared and
  never made.
- A handler's digest hashes its body with positions, so that reordering changes it,
  contrary to semantic_model.rs:8-19; `render_type` of evolution.rs prints
  positions too, so that reordering makes a record with a reference look retyped.
- Not reported by the diff: pipelines (docs/evolution.md:69-72), a request changed
  from one record to another, a table that stores another record. A removed
  service is breaking only if it had routes and hides its tables either way. A key
  is matched to a service by the beginning of its text (`Bill`, `Billing`). A
  service that publishes and consumes a stream is not counted as its consumer.
- The ledger a backfill script writes to is created by the contract migration,
  which may run only after the script (backfill.rs:32-35, docs/evolution.md:296-344):
  `ScriptsHaveTheirLedger` is false, and a fresh database can never pass a
  contract. Postgres folds the contract's `1/0`, SQLite and MySQL answer NULL for it
  and lack its ALTER. Only `migrations` at the root is contracted. An unfilled TODO
  records its plan all the same; plan ids change with any edit of the source; the
  second table of a record is never planned for; a crash between the contract file
  and the manifest uses its number again.
- The TypeScript runner applies a file statement by statement without a
  transaction (backend-ts/templates/db.ts.j2:48): after a crash inside a file it
  cannot start again. `SchemaCatchesUp` claims applicability only for the others.

**Simulator**

- A batch that deletes a row and inserts its id again loses the row and leaves
  references to it dangling (world.rs:998, :1009): validated in order, applied
  writes first (`Reinserts = TRUE` refutes `BatchIsSequential`).
- `expect.quiescence` passes with undelivered messages (sim_runner.rs.j2:438,
  world.rs:338) when a worker publishes to one declared before it: the sweep of
  `drain` empties the queue the expectation looks at (`Workers <- BackwardWorkers`
  refutes `QuiescenceIsReal`).
- `db_update_checked` stores the record's own id, not the row's (world.rs:911): with
  `KeepsId = FALSE` `ConstraintsHold` fails; a batch's delete of a missing row is
  planned and reported (world.rs:991).
- Failure rules with phase `before` never match, `after` is consulted before the
  effect, and a rule without an occurrence fires once (failure.rs:26, :118). A drain
  delivers only what was there at each worker's turn, and one that meets a payload it
  cannot read ends the scenario with the rest of the batch acked and undelivered
  (sim_runner.rs.j2:321); `AttemptsAddUp` then keeps its upper bound only. `due_instants` stops at
  10 000 instants and the runner moves on (cron.rs:105).

## 7. What is proved

Every safety property of the runs of regeneration, rename, language server, loader,
store and runner, and of evolution all that are not about the compiler, are
theorems: they hold for every value of the constants, where a run shows them for
one. Each `XProofs` has the same plan: a type invariant and the
parts of an inductive invariant, each named for what it says; a lemma for each
action, or kind of action, that can disturb a part; the invariant as a theorem of
the specification; and the properties as its consequences. TLC checked every
inductive invariant on the component's run before it was proved. Of the compiler
the cycle searches are proved exact.

The theorems use the named assumptions of the modules, which say that constants
have their types and that sentinels differ from data, and which TLC evaluates on
every run. Where a theorem needs more, it says so in its `ASSUME`:

| Hypothesis | Of | Why, and what happens without it |
|---|---|---|
| `Interfere = FALSE` | `EditsSurvive` | nobody edits the tree while a build runs; otherwise a plan is stale (section 6) |
| `Alone` | regeneration, see below | nobody edits meanwhile and one build runs at a time: nothing locks the tree |
| `RolesAreFixed` | `SeedsAreWrittenOnce`, `ConflictsAreEdits` | a path is a stub of the user's in every program or in none; backends keep stubs and lowered bodies apart |
| `"force" \notin Modes` | `MigrationsCoverTheSchema` | `--force` empties the tree, migrations included |
| `Orderly` | `ConflictsAreEdits` | besides `Alone` and `RolesAreFixed`: no build dies, no tree is adopted, no manifest deleted. A dead build's files are in no manifest, and `--adopt` forgets a file that the program has lost for the moment: both look edited later |
| one compiler version | `SkipsAreSound` | `is_up_to_date` does not compare versions (section 6) |
| `~EditsWhileRunning` | all of `Rename` | between reading a source and replacing it `ciac rename` does not look again |
| `ClockReaches` | `InstantsRunOnce` | `next_fire_after` looks ahead for at least the period of the schedules, and the horizon is within `due_instants`'s cap; beyond the cap instants are dropped (section 6) |
| `DeclaredInFeedingOrder` | `QuiescenceMeansDelivered` | no worker publishes for itself or an earlier one: a drain gives each worker one turn |
| `KeepsId`, `~Reinserts` | all of `SimStore` | an update's record has the id of the row it names, and no batch inserts an id it deleted before; with either the constraints really fail (section 6) |

| `KeysStay` | `SchemasCatchUp` | a column that is a reference in two versions refers to the same table in both; otherwise the database keeps the old key (section 6). `ColumnsAlwaysCatchUp` does without |
| `SnapshotsTell` | `DeploysAreReadable` | two versions that exchange a record both remember it, and what is remembered alike is alike: what `evolution.rs` promises, and keeps but for positions (section 6) |
| `AddedAreOffered`, `AddedStayPlain` | `NullableColumnsAreOffered` | the diff reports each column that was added, and an added column is a reference in no version (section 6) |

The runs of these properties satisfy the hypotheses; those of evolution, which speak
of the compiler, TLC evaluated for the versions of `MCEvolution`.

**Regeneration** (`RegenProofs`, any files, contents, revisions, builders).
`TypeOK` alone is not inductive: that `ApplyFile` writes a well-typed content needs
`WorkFits`, that a builder's work holds only entries it generated.

- `EditsSurvive` (`NoUserContentLost`), however many builds run at once.
  Invariant: `SafetyInv`, that is `ManifestKnown` (what the manifest records was
  rendered), `GeneratedKnown` (so was what a running build will write) and
  `OverwritesExpendable` (a path some builder is about to replace or delete holds
  nothing only the user has). The third is where the argument lies: it must
  survive the *other* builders' steps, and does because whatever they write is
  known and the user is quiet. Each step of `Regen` is then a step of
  `EditSafety` or a stutter.
- `SkipsAreSound` (`UpToDateIsSound`), however many builds run at once.
  Invariant: `Pedigree`; what a builder holds and what the manifest records is
  one revision's project and schema as one compiler renders them, never a mixture.
- `FailuresKeepTheTree` (`FailedBuildsKeepTree`) and `SeedsAreWrittenOnce`
  (`SeedWrittenOnce`), action properties, for `Alone`. Invariant:
  `PlanIsCurrent`; of each entry still to be applied, comparing again would say
  what the plan says. So "new" still means that nothing is there.
- `MigrationsCoverTheSchema` (`SchemaCovered`), for `Alone`, wherever builds die.
  The property is not inductive, a build could overwrite what covers a feature;
  `CoveredBelow` says that the covering migrations have numbers below the
  manifest's, `MigrationsExtend` that builds write none below it, and
  `MigrationsApplied` that a build's own migrations are on disk or beside it when
  it ends.
- `ConflictsAreEdits` (`NoFalseConflict`). Invariant: `UntouchedKnown`; a file
  nobody touched is as the manifest says, or, once the running build has been
  there, as that build renders it.

**Rename** (`RenameProofs`, any files, trees, number of renames, I/O errors and
deaths at any write). `Recoverable` is part of the invariant, whose other parts
say for each place of the process (`BackingUp`, `Journaling`, `Replacing`,
`Checking`, `Committing`, `RollingBack`) which files are old, edited or put back
and which backups are whole. `AlwaysRecoverable`, `RollbacksAreTotal`
(`RollbackIsTotal`), `SuccessIsEverywhere` (`AppliedEverywhere`), and
`NoEditIsUndone` (`EditsKept`), for which `Revisions` keeps every copy at most as
new as the last edit.

**Language server** (`LspProofs`, any documents, imports, debounce, poll).
`BufferIsShown` (`ShowsTheBuffer`) needs to know what the server *will* hold: by
`Mirrors`, reading the rest of the wire gives the editor's buffer, and by
`Expected` no change or save arrives for a document that is closed by then.
`ReparseIsInTime` (`FiresInTime`) needs `NothingWasDue`, which relates the time
since the last message, the time in the present receive, and the deadlines.
`SymbolsFollow` (`SymbolsFollowDiagnostics`).

**Loader** (`LoaderProofs`, any import graph, processes and registry cache). `EachFileOnce` (`SplicedOnce`) and `GraphIsResolved`
(`ResolvesTheGraph`): a depth-first search over a graph nobody holds in hand. The
invariant describes one walk: the stack is a path of the graph, what has been read
is on the stack or spliced, a spliced file's imports are spliced or wait on the
stack as cycles that were reported, and everything read is reachable. That a
reported cycle is a cycle, and that none goes unreported, is then a fact about
smallest closed sets.

**Store** (`SimStoreProofs`, any finite acyclic schema, rows, failure rules, and
batches of any length). `ConstraintsAlwaysHold` (`ConstraintsHold`) is inductive
with the type of the tables once each call is understood: `PushSound` and
`ReplaceSound` say that `validate_write` admits nothing that breaks a constraint,
`RetainSound` that rows may go if all that refer to them go too (`Closed`).
`DeletesAreClosures` (`DeleteIsTheClosure`): `PlanIs` shows, level by level along
the rank of an acyclic schema, that a plan takes whatever refers to its members
(`TakesAll`) and lies in every set closed under cascades (`TakesOnly`), which makes
it the least one. `BatchesAreSequential` (`BatchIsSequential`): after each operation
the overlay is what the writes so far leave when the deletes so far come last, and
what the calls leave one at a time (`Agrees`); the lemmas behind it are that a
removal changes places with an append or a replacement of rows (`RetainPush`,
`RetainReplace`, `RetainTwice`). The tables, plans, overlays and calls are recursive
functions; `ChainExists` says that such a function exists and `UpTo` and
`EverySequence` are the inductions over them, stated for sets and proved from the
well-foundedness of the naturals.

**Runner** (`SimRunnerProofs`, any workers, jobs, rules and scenario).
`AttemptsAreBounded` (`AttemptsAddUp`), `PublishesAreAccountedFor`
(`PublishesAddUp`), `InstantsRunOnce` (`EachInstantOnce`),
`QuiescenceMeansDelivered` (`QuiescenceIsReal`). The counting properties rest on
`Balanced`: as many publishes were tried as there are messages and fired rules,
through a pipeline of any length; `Instants` follows each schedule to the time it
has reached, in the middle of an advance too; `Queued` says whose turn can still
have something to deliver. What the recursive function `Chain` (a pipeline's
publishes, one after the other) and a schedule's next instant compute is proved by
induction, as the choice of a smallest counterexample.

**Evolution** (`EvolutionProofs`, any programs and any compiler that makes well-formed
schemas, any history of edits, builds, refusals, contracts, deploys and crashes).
`SchemaCatchesUp` says where a database ends; it is preserved by no step, because
nothing in it says what the files on the way hold. `FilesTellTheSchema` is the invariant
(`EvolutionInv`). Of the files: a migration states what is true of the tables the manifest
remembers (`FilesAreTrue`), its number is its own, although a contract may share it
(`NumbersAreUnique`), some file makes every table and column (`EverythingIsMade`) and none
makes it again (`NothingIsMadeTwice`), and what a statement needs comes in an earlier
file, or above in this one (`MigrationsAreOrdered`). Of a database: it has nothing that
is not declared (`OnlyDeclared`), a table has at least the columns it was created with
(`CreatedWhole`), the files it has applied are made (`AppliedIsMade`), and where files
are applied whole it has nothing else (`OnlyApplied`). The two halves meet in the order
of the files: the next migration finds what it needs, since all before it is applied,
and not yet what it makes, since nothing is made twice and nothing else was applied.
A runner that dies in a file breaks just `OnlyApplied`, so the columns
are still only declared ones. `OrderIs` shows, round by round, that
`order_new_tables` lists each new table once and after those it refers to, for every
acyclic set of tables.

- `ColumnsAlwaysCatchUp` (`ColumnsCatchUp`: `SchemaCatchesUp` but for the keys), of any
  programs; `SchemasCatchUp` (`SchemaCatchesUp`), for `KeysStay`.
- `DeploysAreReadable` (`DeploysStayReadable`), from `ManifestIsBuilt`: the manifest is
  what the compiler made of the revision last built, and a refusal compares with it.
- `NullableColumnsAreOffered` (`NullableColumnsHavePlans`). A column is nullable only
  where a build added it (`NullsAreColumns`), and versions between the baseline and now
  can only have added.

That schemas are acyclic (`SchemaAssumption`) is what `find_reference_cycles` is for, and
`SchemasCatchUp` rests on it as the code does.

**Cycle searches** (`CyclesProofs`, any graph, parallel edges and loops included).
`SearchIsExact`: both the search that stops at the first cycle and the one that goes on
find one exactly where there is one; `ReportsAreCycles`: what is found is one;
`SearchEnds`. The invariant (`SearchInv`): a node has one colour (`OneColour`), the stack is
a path along the edges followed last (`IsPath`), the starts passed are coloured, and, as
long as nothing is found, what was followed leads to black nodes or up the stack
(`Explored`) and of any set of black nodes one has no successor in it (`NoRing`). At the
end all nodes are black, and a cycle would be such a set. Each step lowers `Left`: starts,
nodes to enter, nodes to leave and edges that lie ahead. `RunIs` says that the
recursive function of the steps exists; `UpTo` is the induction along it. The model's
property `CyclesAreFound` adds what a theorem cannot reach, that the graph searched is the
program's.

**Only model-checked.**

- All liveness (`BuildsConverge`, `PendingIsBuilt`, `EchoesEnd`, `ReparseHappens`,
  `LoadEnds`), which the prover cannot do. The dev loop has liveness properties only.
- The properties of `Compile`. They quantify over programs, whose syntax trees are
  walked by RECURSIVE operators: the prover cannot be used in a module that reaches one,
  and a statement about every tree is an induction over data.
- `RefusalsAreExplained`, which compares the models of two programs, for the same reason.

## 8. Plan

1. *Done*: regeneration with its proof, rename, dev loop, store, runner; then the
   whole compiler from declarations to host bodies and the generated system, the
   loader, the language server, and evolution.
2. *Done*: theorems for regeneration, rename, language server, loader, store,
   runner and evolution, and for the cycle searches.
3. Abstract specifications: rename as one atomic switch that `Rename` implements
   once recovered; "the last text wins" for the language server; the store as a
   set of rows under constraints.
4. The external backend's pipes, and the Python runner against `SimRunner`.

## 9. Not modelled

- *Text*: lexing and parsing (the models start from declarations), rendered files,
  templates, messages, SQL and host types of fields, defaults of settings, flags
  that only choose wording. Identifiers are told apart by spelling through one map
  (`Spelling`), which does not distinguish snake from kebab. Of a cron expression
  only the weekday field is read.
- *Host compilers*: whether text is accepted, beyond unbound names and the refusals
  that the lowering itself shows (section 6); Rust's borrow checking and partial
  moves.
- *Values*: contents of Json, the order of Uuids, strings beyond a few letters,
  floating point; dialects of the SQL engines beyond the ones named.
- *Components*: diagnostics and their rendering, external backends, batch
  formatting, argument parsing, MCP framing, scaffolding, the fixtures and
  assertions of scenarios, `Scheduler` (used by nothing but its tests), replay
  files, the receive loop of production workers, the Python runtime. `PROJECT.json`
  says why for each.
- *Environment*: file-system permissions and symlinks, hash collisions, processes
  other than those named, the redelivery of message brokers.
