------------------------------- MODULE Loader -------------------------------
(***************************************************************************)
(* The module loader: `load` replaces every import by the items of the     *)
(* file it names, depth first, each file once.  The recursion is kept as a *)
(* stack of frames, so that the steps of several compilers that share the  *)
(* registry cache (a directory of fetched blueprints) interleave, and one  *)
(* of them may be killed between creating a cache file and filling it.     *)
(*                                                                         *)
(* A source is the sequence of its imports; the declarations between them  *)
(* are stood for by the key of the file they are in, spliced once its      *)
(* imports are.                                                            *)
(***************************************************************************)
EXTENDS Naturals, Sequences, SequencesExt, FiniteSets

CONSTANTS
  Process,        \* compilers that run at the same time
  Local,          \* canonical paths of local files that exist
  Std,            \* keys of the embedded std blueprints
  Registry,       \* registry: specs
  Spelling,       \* Spelling[s]: the key that an import spelled s resolves to, or Missing
  Missing,        \* what an import of a file that does not exist resolves to
  Sources,        \* the assignments of a source to each key that are explored
  Entry,          \* the entry files given to the compilers
  MaxLoads        \* bound: loads started

ASSUME KindsAssumption ==
  /\ Local \cap Std = {} /\ Local \cap Registry = {} /\ Std \cap Registry = {}
  /\ Missing \notin Local \cup Std \cup Registry
  /\ Entry \subseteq Local

Key == Local \cup Std \cup Registry
Spell == DOMAIN Spelling

ASSUME SpellingAssumption == \A s \in Spell : Spelling[s] \in Key \cup {Missing}
ASSUME SourcesAssumption == Sources \subseteq [Key -> Seq(Spell)]
ASSUME LoadsAssumption == MaxLoads \in Nat

VARIABLES
  source,         \* what each file, blueprint or registry answer holds
  cache,          \* Registry -> "absent", "torn" (created, not yet filled) or "whole"
  status,         \* of each process: "idle", "loading", "done" or "failed"
  stack,          \* the frames being resolved: a key and the imports left in it
  loaded,         \* the keys resolved to the end
  items,          \* the keys whose declarations were spliced, in order
  cycles,         \* the import cycles reported
  fetching,       \* the spec whose answer is to be written to the cache, or Missing
  writing,        \* whether its cache file was created
  read,           \* what each process read for each key it entered
  loads           \* how many loads were started

vars == <<source, cache, status, stack, loaded, items, cycles, fetching, writing, read, loads>>

Top(p) == Last(stack[p])
OnStack_FaultyTopOnly(p, k) == Top(p).key = k
OnStack(p, k) == \E i \in DOMAIN stack[p] : stack[p][i].key = k

(***************************************************************************)
(* Which imports a source may contain: a local file any, a registry        *)
(* blueprint std and registry ones, a std blueprint only std ones.         *)
(***************************************************************************)
MayImport(from, k) ==
  CASE from \in Local    -> TRUE
    [] from \in Registry -> k \in Registry \cup Std
    [] from \in Std      -> k \in Std

\* The process starts to resolve k, whose text was read as `text`.
Push(p, k, text) ==
  /\ stack' = [stack EXCEPT ![p] = Append(@, [key |-> k, rest |-> text])]
  /\ read' = [read EXCEPT ![p] = Append(@, [key |-> k, text |-> text])]

Skip_FaultyStays(p) == stack

\* The import at hand is done with: the frame goes on with the next one.
Skip(p) == [stack EXCEPT ![p][Len(stack[p])].rest = Tail(@)]

Start(p, k) ==
  /\ status[p] # "loading"
  /\ loads < MaxLoads
  /\ loads' = loads + 1
  /\ status' = [status EXCEPT ![p] = "loading"]
  /\ stack' = [stack EXCEPT ![p] = <<[key |-> k, rest |-> source[k]]>>]
  /\ read' = [read EXCEPT ![p] = <<[key |-> k, text |-> source[k]]>>]
  /\ loaded' = [loaded EXCEPT ![p] = {}]
  /\ items' = [items EXCEPT ![p] = <<>>]
  /\ cycles' = [cycles EXCEPT ![p] = {}]
  /\ UNCHANGED <<source, cache, fetching, writing>>

Importing(p) ==
  /\ status[p] = "loading"
  /\ fetching[p] = Missing
  /\ Top(p).rest # <<>>

Imported(p) == Spelling[Head(Top(p).rest)]

\* An import of a file that is not there, or of a kind its importer may not name, ends
\* the load with an io::Error.
Fail(p) ==
  /\ Importing(p)
  /\ Imported(p) = Missing \/ ~MayImport(Top(p).key, Imported(p))
  /\ status' = [status EXCEPT ![p] = "failed"]
  /\ UNCHANGED <<source, cache, stack, loaded, items, cycles, fetching, writing, read, loads>>

Resolvable(p) == Importing(p) /\ Imported(p) # Missing /\ MayImport(Top(p).key, Imported(p))

\* Already spliced: nothing to add.  Still being resolved: a cycle, reported and skipped.
SkipLoaded(p) ==
  /\ Resolvable(p)
  /\ Imported(p) \in loaded[p]
  /\ stack' = Skip(p)
  /\ UNCHANGED <<source, cache, status, loaded, items, cycles, fetching, writing, read, loads>>

ReportCycle(p) ==
  /\ Resolvable(p)
  /\ Imported(p) \notin loaded[p]
  /\ OnStack(p, Imported(p))
  /\ cycles' = [cycles EXCEPT ![p] = @ \cup {Imported(p)}]
  /\ stack' = Skip(p)
  /\ UNCHANGED <<source, cache, status, loaded, items, fetching, writing, read, loads>>

Fresh(p) == Resolvable(p) /\ Imported(p) \notin loaded[p] /\ ~OnStack(p, Imported(p))

EnterFile(p) ==
  /\ Fresh(p)
  /\ Imported(p) \in Local \cup Std
  /\ Push(p, Imported(p), source[Imported(p)])
  /\ UNCHANGED <<source, cache, status, loaded, items, cycles, fetching, writing, loads>>

(***************************************************************************)
(* registry::resolve: a cache file that can be read is the answer, whole   *)
(* or not; otherwise the text is fetched, and then written to the cache.   *)
(***************************************************************************)
ReadCache(p) ==
  /\ Fresh(p)
  /\ Imported(p) \in Registry
  /\ cache[Imported(p)] # "absent"
  /\ Push(p, Imported(p), IF cache[Imported(p)] = "torn" THEN <<>> ELSE source[Imported(p)])
  /\ UNCHANGED <<source, cache, status, loaded, items, cycles, fetching, writing, loads>>

\* No cache file: the text comes over the network, and is then written to the cache by
\* fs::write, which creates or truncates the file and fills it.
Fetch(p) ==
  /\ Fresh(p)
  /\ Imported(p) \in Registry
  /\ cache[Imported(p)] = "absent"
  /\ fetching' = [fetching EXCEPT ![p] = Imported(p)]
  /\ Push(p, Imported(p), source[Imported(p)])
  /\ UNCHANGED <<source, cache, status, loaded, items, cycles, writing, loads>>

CreateCacheFile(p) ==
  /\ fetching[p] # Missing
  /\ ~writing[p]
  /\ cache' = [cache EXCEPT ![fetching[p]] = "torn"]
  /\ writing' = [writing EXCEPT ![p] = TRUE]
  /\ UNCHANGED <<source, status, stack, loaded, items, cycles, fetching, read, loads>>

\* The file is full, or the directory cannot be written and the cache does without it.
CacheWritten(p) ==
  /\ fetching[p] # Missing
  /\ cache' = IF writing[p] THEN [cache EXCEPT ![fetching[p]] = "whole"] ELSE cache
  /\ fetching' = [fetching EXCEPT ![p] = Missing]
  /\ writing' = [writing EXCEPT ![p] = FALSE]
  /\ UNCHANGED <<source, status, stack, loaded, items, cycles, read, loads>>

FetchFails(p) ==
  /\ Fresh(p)
  /\ Imported(p) \in Registry
  /\ cache[Imported(p)] = "absent"
  /\ status' = [status EXCEPT ![p] = "failed"]
  /\ UNCHANGED <<source, cache, stack, loaded, items, cycles, fetching, writing, read, loads>>

Spliced_FaultyImporterFirst(p) == <<Top(p).key>> \o items[p]
Spliced(p) == Append(items[p], Top(p).key)

\* The frame's imports are all spliced: its own declarations are too, and its importer
\* goes on behind the import.
Return(p) ==
  /\ status[p] = "loading"
  /\ fetching[p] = Missing
  /\ Top(p).rest = <<>>
  /\ loaded' = [loaded EXCEPT ![p] = @ \cup {Top(p).key}]
  /\ items' = [items EXCEPT ![p] = Spliced(p)]
  /\ LET below == Front(stack[p])
     IN  IF below = <<>>
         THEN /\ stack' = [stack EXCEPT ![p] = <<>>]
              /\ status' = [status EXCEPT ![p] = "done"]
         ELSE /\ stack' = [stack EXCEPT ![p] = [below EXCEPT ![Len(below)].rest = Tail(@)]]
              /\ UNCHANGED status
  /\ UNCHANGED <<source, cache, cycles, fetching, writing, read, loads>>

\* The process is killed; a cache file it had only created stays as it is.
Crash(p) ==
  /\ status[p] = "loading"
  /\ status' = [status EXCEPT ![p] = "idle"]
  /\ fetching' = [fetching EXCEPT ![p] = Missing]
  /\ writing' = [writing EXCEPT ![p] = FALSE]
  /\ stack' = [stack EXCEPT ![p] = <<>>]
  /\ UNCHANGED <<source, cache, loaded, items, cycles, read, loads>>

Init ==
  /\ source \in Sources
  /\ cache = [s \in Registry |-> "absent"]
  /\ status = [p \in Process |-> "idle"]
  /\ stack = [p \in Process |-> <<>>]
  /\ loaded = [p \in Process |-> {}]
  /\ items = [p \in Process |-> <<>>]
  /\ cycles = [p \in Process |-> {}]
  /\ fetching = [p \in Process |-> Missing]
  /\ writing = [p \in Process |-> FALSE]
  /\ read = [p \in Process |-> <<>>]
  /\ loads = 0

Resolve(p) ==
  \/ Fail(p) \/ SkipLoaded(p) \/ ReportCycle(p) \/ EnterFile(p)
  \/ ReadCache(p) \/ Fetch(p) \/ FetchFails(p)
  \/ CreateCacheFile(p) \/ CacheWritten(p) \/ Return(p)

Next == \E p \in Process : Resolve(p) \/ Crash(p) \/ \E k \in Entry : Start(p, k)

Spec == Init /\ [][Next]_vars /\ \A p \in Process : WF_vars(Resolve(p))

----------------------------------------------------------------------------
(* What a load gives back, against the graph of imports it walked. *)

Entered(rd) == {rd[i].key : i \in DOMAIN rd}

\* What was read for k, among the readings rd of a load.
TextOf(rd, k) == rd[CHOOSE i \in DOMAIN rd : rd[i].key = k].text

\* The keys that the text read for k imports.
Edges(rd, k) == {Spelling[s] : s \in ToSet(TextOf(rd, k))}

\* The keys that imports lead to from S: the smallest set that holds S and, with a key that
\* was entered, what its text imports.
ClosedUnderImports(rd, T) == \A k \in T \cap Entered(rd) : Edges(rd, k) \subseteq T
ReachableFrom(rd, S) ==
  {k \in Key \cup {Missing} : \A T \in SUBSET (Key \cup {Missing}) :
                                S \subseteq T /\ ClosedUnderImports(rd, T) => k \in T}

Reachable(rd) == ReachableFrom(rd, {Head(rd).key})
Cyclic(rd) == \E k \in Entered(rd) : k \in ReachableFrom(rd, Edges(rd, k))

Done(p) == status[p] = "done"

\* Every variable has its type.
TypeOK ==
  /\ source \in [Key -> Seq(Spell)]
  /\ cache \in [Registry -> {"absent", "torn", "whole"}]
  /\ status \in [Process -> {"idle", "loading", "done", "failed"}]
  /\ stack \in [Process -> Seq([key : Key, rest : Seq(Spell)])]
  /\ loaded \in [Process -> SUBSET Key]
  /\ items \in [Process -> Seq(Key)]
  /\ cycles \in [Process -> SUBSET Key]
  /\ fetching \in [Process -> Registry \cup {Missing}]
  /\ writing \in [Process -> BOOLEAN]
  /\ read \in [Process -> Seq([key : Key, text : Seq(Spell)])]
  /\ loads \in 0..MaxLoads

(***************************************************************************)
(* "Diamond imports are loaded exactly once": no file is spliced or read   *)
(* twice however its imports are spelled, and no frame is entered while it *)
(* is being resolved (resolve_file, resolve_std, resolve_registry).        *)
(***************************************************************************)
SplicedOnce ==
  \A p \in Process :
    /\ IsInjective(items[p])
    /\ \A i, j \in DOMAIN stack[p] : stack[p][i].key = stack[p][j].key => i = j
    /\ \A i \in DOMAIN stack[p] : stack[p][i].key \notin loaded[p]
    /\ ToSet(items[p]) = loaded[p]

(***************************************************************************)
(* A load that ends with a program has spliced everything its entry        *)
(* reaches, an import before what follows it, and has reported a cycle     *)
(* exactly when the imports it read contain one.                           *)
(***************************************************************************)
ResolvesTheGraph ==
  \A p \in Process : Done(p) =>
    /\ ToSet(items[p]) = Reachable(read[p])
    /\ Last(items[p]) = Head(read[p]).key
    /\ (cycles[p] # {}) <=> Cyclic(read[p])
    /\ cycles[p] = {} => \A i, j \in DOMAIN items[p] :
         items[p][j] \in Edges(read[p], items[p][i]) => j < i

(***************************************************************************)
(* A program is what its files say: a load that ends without an error read *)
(* each text whole, as the file, the library or the registry gives it,     *)
(* unless another process, now or before it was killed, left the cache     *)
(* file created and not filled.                                            *)
(***************************************************************************)
TornOnlyByTheCache ==
  \A p \in Process : \A i \in DOMAIN read[p] :
    read[p][i].text # source[read[p][i].key]
      => read[p][i].key \in Registry /\ read[p][i].text = <<>> /\ loads > 1

(***************************************************************************)
(* The module's words: "a cache hit never touches the network -- pin       *)
(* imports to an immutable ref and resolution is reproducible".            *)
(***************************************************************************)
CacheIsReproducible ==
  \A p \in Process : \A i \in DOMAIN read[p] : read[p][i].text = source[read[p][i].key]

(***************************************************************************)
(* Every load ends, cycles or not, unless its process is killed.           *)
(***************************************************************************)
LoadEnds == \A p \in Process : status[p] = "loading" ~> status[p] # "loading"
=============================================================================
