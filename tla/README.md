# gdls: formal models

gdls is a language server for GDScript. These TLA+ modules model what of it has
state, order or failure: how a request lives and dies between the threads of a
session, how the index follows the disk and the open buffers, what a change
invalidates, how texts, tokens and scenes stay in step, and the services that
talk to Godot, the client and the operating system. TLC checks the modules on
small instances; TLAPS proves the theorems for every value of the constants.

Paths below are relative to `src/crates/`; `server.rs` and the other unqualified files are in
`gd_server/src/`.

## The system

| component | state | operations | interacts with | modelled in |
|---|---|---|---|---|
| router thread (`router.rs`) | registry of requests in flight, each with a cancelled flag, a stale flag and a cancellation token; outgoing progress creates | register a request, cancel one, sweep all as stale, forward | the worker, by an unbounded channel and the shared registry | `Session`, `Outbound` |
| event loop (`server.rs`) | whether it is shutting down, how the session ends, current request | dispatch requests and notifications, refuse after shutdown, `finish_request`, five `select!` arms | everything | `Session` |
| formatter (`formatter.rs`) | format in flight per document, `FormatDone` channel, classes warned about | start, supersede, poll, time out, reap, apply, cut the output to one edit | a thread and a child process per format; registry token | `Session`, `Documents` |
| document store (`vfs.rs`, `position.rs`) | text and version of open buffers, position encoding | open, incremental change, close | workspace | `Documents` |
| workspace (`workspace.rs`) | index, stat table, duplicate-delivery records, parse and analysis caches, generation | load cold or warm, reindex, remove, reconcile, save, analyze | disk, document store, cache file | `Freshness`, `Analysis` |
| watcher (`watcher.rs`) | OS watch, debounced event channel | classify events, drop them at the scan's borders, detect a vanished root | event loop | `Freshness` |
| warm-start cache (`gd_project/src/cache.rs`) | one file: index, scenes, assets, stats | atomic save, load with key and verification | workspace | `Freshness`, `Scenes` |
| index (`gd_project/src/index.rs`, `registry.rs`, `depgraph.rs`) | interfaces, class names and their declarers, edges, epochs, dirty set | change, remove, relink, invalidate | analyzer | `ProjectIndex` |
| analysis cache, diagnostics (`workspace.rs`, `server.rs`) | one entry per file, keyed by text and epoch; generation; what was published | analyze, recover a bailed run, evict, clear, publish, answer a pull, refresh | index, client, memory ladder | `Analysis` |
| native API (`api_dump.rs`, `gd_types/`) | live class database, dump and meta files | resolve, dump in the background, adopt | event loop, Godot | `NativeApi` |
| configuration, refreshes, progress (`server.rs`, `progress.rs`) | outstanding server requests, poisoned tokens | pull, apply, create, report, end | client | `Outbound` |
| memory ladder (`memory.rs`, `observability.rs`) | RSS window, budget, level | sample, evict half, refuse | caches, handlers | `MemoryLadder` |
| scenes and uids (`gd_project/src/scene_index.rs`, `paths.rs`) | stored scenes, reverse maps, uid map in two copies | reindex, remove, uid moves, rescan, cache | disk events, index | `Scenes` |
| semantic tokens (`semantic_tokens.rs`, `handlers.rs`) | one token array per document | encode, full, delta | client | `TokenDeltas` |
| scan order (`gd_project/src/scan_order.rs`) | none | compare two paths | class-name registry | `ScanOrder` |
| inheritance (`gd_analyze/src/resolver.rs`, `script_chain.rs`; `handlers.rs`) | a base per class, for one analysis | resolve the classes of a file on demand; follow a class over interfaces | index through `CrossFileQuery` | `Inheritance` |
| rest of the frontend (`gd_syntax/`, `gd_analyze/`) | none between calls | lex, parse, type, reduce | index through `CrossFileQuery` | not modelled |

What is hard. The router acts on `$/cancelRequest` and on content changes when
it reads them, the worker when it gets to them, and an answer is chosen in
between. A format outlives its handler and races its successor, shutdown,
cancel, its deadline and its child. The disk changes at any moment, is reported
late, twice, on two channels, or not at all, and is read one file at a time;
open buffers override it; a session may die between any two steps and the next
one trusts what was saved. An index is kept by increments where a name, a path
or a uid may change hands without the files that use it changing at all. A dump
of the native API takes five file operations, each of which may fail or be the
last of its session, while the user edits the same files.

What makes each component right:

- *lifecycle*: each request is answered once; no result for text that has since
  been replaced, none from an analysis that bailed; the registry holds the
  unanswered requests and no others;
- *formatter*: one live format per document, none after shutdown, a panic or a
  refused thread still answers, a cancelled child ends;
- *workspace, watcher, cache*: the index holds what the disk holds, open
  buffers win, a stat is never kept with other content than it stands for, a
  saved cache never claims unsaved text, a session settles in step with the disk;
- *index, analysis cache*: the index kept by increments is the one a cold build
  gives; a cached or `unchanged` report equals a fresh one; no client is left
  with a report it is not told to replace, and a keystroke that leaves an
  interface alone disturbs nobody;
- *native API*: the dump the outcome names is the file in place and none
  better was thrown away; a dump that counts as fresh is of the Godot and the
  addons in use; the session serves what a restart would;
- *outbound*: the newest configuration wins, every progress arc ends;
- *memory ladder*: requests are refused only after caches were shed, and
  service comes back when memory does;
- *documents, tokens*: server and client mean the same text, the same place and
  the same tokens, after any edits, lost answers and reopened files;
- *scenes and uids*: the two uid maps and the reverse maps mirror each other,
  and each stored scene is what its file says under the map in use;
- *scan order*: a total order, and that of Godot's own walk;
- *inheritance*: chains of bases end, a native root is the base's, no class is
  left out, and a class has the same base from any file.

## Modules

| module | what it is |
|---|---|
| `RequestContract` | abstract specification of what a client may rely on |
| `Session` | router, event loop, formatter threads; refines `RequestContract` |
| `SessionInvariant`, `SessionProofs` | the inductive invariant of `Session` in named parts, and its theorems |
| `Freshness` | disk, watcher, client events, workspace, cache, restarts |
| `FreshnessInvariant`, `FreshnessProofs` | the inductive invariants of `Freshness`, and its theorems |
| `ProjectIndex` | the index as a value, and its operations as functions of it; no variables |
| `ProjectIndexProofs` | each operation keeps the index exact |
| `Analysis` | extends `ProjectIndex`: buffers, events, reloads, analysis cache, diagnostics |
| `AnalysisProofs` | theorems of `Analysis`: its types and index; what the cache serves and the client holds |
| `NativeApi`, `NativeApiProofs` | dump ladder, its files, resolution, event loop's part, crashes; and its theorems |
| `Outbound` | client, router and worker: configuration and progress |
| `MemoryLadder` | window, budget, level |
| `ServiceProofs` | theorems of `Outbound` and `MemoryLadder` |
| `Documents` | buffers, positions, a formatter's edit |
| `TokenDeltas` | semantic tokens by delta |
| `Scenes` | scene index, uid maps, events, cache |
| `ContentProofs` | theorems of `Documents`, `TokenDeltas` and `Scenes` |
| `ScanOrder` | the comparison of two paths, against Godot's walk |
| `Inheritance` | the bases of a file's classes, and the links of interfaces |
| `ResolutionProofs` | theorems of `Inheritance` and `ScanOrder`: what a name stands for |
| `Nothing` | the constant `None`, which the components share |
| `MCSession`, `MCFreshness`, `MCAnalysis` | finite instances |
| `MCLiveness` | the liveness properties of `Session`, `Freshness`, `NativeApi` and `MemoryLadder` |
| `MCServices` | `NativeApi` and `Outbound` |
| `MCContent` | `Documents`, `TokenDeltas`, `Scenes`, `ScanOrder` and `Inheritance` |

The last three put components side by side that share no state the properties
read. A behaviour is one of a single component, its `part`; the others stay
where they start. That checks each of them exactly as a run of its own would.

Two compositions are real ones. `Session` has the router, the worker and the
format threads in one state. `Analysis` is the index, the buffers, the cache and
both ways of diagnostics in one state. `Freshness` and `Analysis` share the
interface between them instead: `Freshness` shows when the index has heard of a
file's text, with the text itself as its interface; `Analysis` starts where an
event brings any text, and shows what the index and its readers make of it.

### Session

| code | model |
|---|---|
| `SessionShared::in_flight` | `inFlight` |
| `RequestLifecycle::{cancelled, stale, token}` | `cancelled`, `stale`, `tripped`, as sets of requests |
| the message the router has acted on but not sent | `routing` |
| the channel to the worker | `forward` |
| `FormatBridge::{in_flight, done_rx}` | `formatMap`, `done` |
| where a request is: queue, handler, thread, answered | `stage` |
| document text | a count of content mutations: `swept` read by the router, `applied` dispatched by the worker, `basis` read by each handler |

Reading and forwarding are two steps of the router, because the worker runs in
between. Two steps of `dispatch_request` are likewise kept apart: it reads the
interrupt of a queued request (`FindInterrupted`) before it removes the registry
entry and answers (`ShortCircuit`). A query is one handler, abstracted to begin,
checkpoints at which its analysis bails, and an outcome. A format that has no
buffer, no command or bad parameters is answered by its handler like a query.
`swept`, `basis`, `bailed`, `replies` and the `n` of a message are history: no
guard reads them (but for the bound on mutations and "a handler bails once").

`RequestContract` has no threads: an answer is chosen in one step, a result is
for the text the client had sent by then, a retracted request gets an
interrupt. `Session` maps its retractions to `cancelled`, so a cancel counts from
the moment the router accepts it.

### Freshness

| code | model |
|---|---|
| a file's text; its `(size, mtime_ns)` | `disk[p].text`, `disk[p].stamp` |
| `Workspace::index` | `iface`: path to the text its interface was extracted from |
| `Workspace::stat_table` | `stat` |
| `Workspace::last_applied_disk` | `record` |
| `Vfs` | `buffer` |
| debounced native events; `didChangeWatchedFiles` | `native`, `client` |
| `watcher_rx` | `watcher`, armed or disabled |
| the function the worker is in | `job` |
| `.gdls/` cache file | `cache` |

`job` splits a function where the disk may change under it: each file of a
cold build, of the stat sweep and of a walk is a step, a walk's stat and read
of one file are two, and so are the read and the stat of a reindexed file. The
rest of a handler is one step, since only the worker touches the index. A batch
of events is taken one event at a time: the code takes several in a row, which
is one of the model's interleavings.
`client` holds the reports of a client that was asked to watch, and is `None`
until a session asks: whether it does is decided when the session comes up, and a
client that does not watch reports nothing.

### ProjectIndex and Analysis

| code | model |
|---|---|
| `Interface`, its `signature_hash` | `Unit[text]`; `sig` stands for the hash, which covers `declares`, `names`, and of extends and the kept initializers `inits` and `literals` |
| `Interface::{body_refs, preload_deps}`, not hashed | `Unit[text].{body, preloads}` |
| `Index::{interfaces, dirty, epochs, uids}`, `DepGraph` | `idx.{iface, dirty, epochs, uids}`, `idx.deps` |
| `refs_by_name`, `refs_by_path`, `refs_by_uid` | `idx.names`, `idx.targets`, `idx.uidRefs`, as `Table`s with their inverses |
| `ClassNameRegistry` | `idx.declared`, the owner being the latest in scan order |
| `Index::txn` | an operator from an index to an index |
| `Workspace::analysis_cache` | `cache[p]`: text, epoch, grade and the view it was computed from |
| what an analysis reads through `CrossFileQuery` | the view: the interfaces of all files the text reaches, by name, path and uid; of other files than its own, what they expose |
| published or pulled diagnostics, with their result id | `shown[p]` |
| `workspace/diagnostic/refresh` | `refresh` |

An analysis is the view it was computed from: two analyses are equal if they
were. What another file only depends on, the names of its bodies and what they
preload, moves its edges and not its signature: such an edit marks no dependent, and the
view of a dependent does not hold it (a member of another file is typed by its
declaration or by the shape of its initializer, `gd_analyze/src/reducer.rs:8020`,
which are hashed). So "a served analysis equals a fresh one" says that no interface the file
reaches has changed, however the chain leads through other files. `IndexExact`
compares `idx` with `ColdIndex` of the same files and uids, and asks for
`Index::verify`.

Each action is a handler to its end, with the drain of the dirty set and the
republishing that end it; the dialect rebuild alone is two, since it reindexes
the open buffers one by one.

### NativeApi

| code | model |
|---|---|
| `<root>/extension_api.json`, the managed dump, the one set aside, the shadow project's | `root`, `managed`, `aside`, `shadow` |
| `ApiDumpMeta` | `meta` |
| `dump_rx`, the outcome in it | `arm`, `outcome` |
| the step of `run_dump_ladder` the thread is in | `pc`, `rung`, `child`, `cand`, `best` |
| `Workspace::native` | `live` |
| children of the ladder that nobody waits for | `orphans`, each with the directory it writes to |

A dump file says what it was made from, which the code cannot read back: the
properties compare that with what the code concludes from the meta file.
A child is orphaned when the session ends under it or when waiting for it fails
(`api_dump.rs:908`, fault `"unwaited"`), and writes on (`OrphanWrites`), to a file that by then
may be another's. A dump that can be neither moved nor removed (998, 1003) is the
fault `"left"`. `faults` collects what has gone wrong so far, so that a property can name what
it depends on, and is otherwise read only by the bound on them.

### Outbound, MemoryLadder

`toClient`, `toServer` and `forward` are the two wires and the router's channel.
The client reads its settings when it reads a pull and answers later, in the
order of the pulls. `spinner[id]` is what the client has heard of a token, with
`broken` for any message out of its order. Refresh requests and registrations
have answers nobody reads, and are left out.

`recent` is the sampler's window, `level` the worker's, `shed` whether half the
caches went since the level was last Normal. Sizes are small numbers.

### Documents, TokenDeltas

A text is a sequence of characters, each with a width per encoding, and two
kinds of line ends: the protocol's and those of the rope crate (`Odd` holds the
difference, and is empty in the passing run). Edits are any range and text; the
client's idea of a position (`ClientOffset`) is the protocol's, the server's is
`position.rs`. A change has a range or, without one, replaces the text (`DidReplace`);
the runs have one notification on the wire at a time.

In `TokenDeltas` the document may classify to anything (`Raws`) at each request.
The server keeps the array it made last even if a cancellation replaces the
answer, the client the array it got last: `made` is history.

### Scenes, ScanOrder

`uids` is `ProjectModel::uids` (and the scene index's copy), `index` the index's
own map with its inverse, `scenes` the stored scenes and the three reverse
maps, `saved` those of the cache file. A scan does not see the declarations of unreadable files. Events are handled in order and read the
disk as it is by then. `stale` stands for the stat table, whose details are
`Freshness`'s. `drift` notes what the comparisons must allow for.

`ScanOrder` has no behaviour: its initial states are the pairs of names and the
trees to compare. A name is a sequence of characters, of which the instance has
six; the cursors of the code are the names that are left of a pair. The recursions are
functions, not operators, so that they can be reasoned about. `Walk` is the
other side of the comparison: Godot's own post-order walk of the whole tree.

### Inheritance

| code | model |
|---|---|
| the classes of the analyzed file, and of the files it may name | `project`, chosen at the start |
| `AnalysisContext::bases`, with the `Resolving` sentinel | `base` |
| the `native_type` of a class's own type | `root` |
| the recursion of `resolve_class_inheritance` | `frames`, a stack of clauses in progress |
| the recursion over the classes in source order | `next` |

`Visit` is the driver at the next class, `Look` resolves the head of a clause, `Nest`
one more of its names, `Finish` refuses a cycle or stores the base; `Look` and `Nest`
enter a class of the file that has no type yet. An error empties `frames` and leaves the
sentinels, as the code does: a 4.6 pass ends there, a 4.7 pass goes on.
`Step` and `ClassParent` are the copies of the rule that work on interfaces, for
other files. Paths are absolute; a constant that is no preload is `Other`, also one that
stands for a class of the file (`const K = Inner`), which the resolver follows and the
links of interfaces take for unknown.

## Runs

| run | question | bounds | result |
|---|---|---|---|
| `session` | are answers current, complete, owed and unique? do superseded and shut-down formats stop? does `Session` implement `RequestContract`? | 3 requests, 1 document, 1 mutation, 2 queued messages | holds |
| `freshness` | do index, stat table and cache stay honest, and does a settled session agree with the disk? | 2 paths, 2 texts, 2 disk operations, 2 sessions, 1 open buffer | holds |
| `invalidation` | is the index exact, is what is cached, pinned or held fresh, do body edits stay local? | 3 scripts, 7 texts, 2 class names, 1 uid, 2 settings, 2 events, 2 workspaces, 2 open buffers | holds |
| `liveness` | is every request answered? does a session settle after its watcher dies? does the dump report? does memory pressure pass? | 2 requests; 1 path and 2 operations; 1 Godot, 2 sessions, no user action; window of 3 readings | holds |
| `services` | is the dump in place the one reported, fresh, the best and nobody else's? do settings and progress settle? | 2 Godots, 2 addon sets, 2 sessions, 1 kind of fault; 2 changes, 2 ids | holds |
| `content` | do texts, positions, edits and tokens agree? are scenes and uids in step? is the scan order the walk's? are bases sound, and the same from any file? | texts of 3 characters in 3 encodings; 3 token answers; 1 script, 2 scenes, 2 uids, 2 writes, 1 fault; names of 1 to 4 characters, trees of 2 to 4 files; 3 inner classes, or 2 files | holds |
| `session_child_never_exits` | does a cancelled format end, whatever its child does? | fairness of gdls's own threads only | **violated** |
| `freshness_stat_race` | does a rescan recover a write that fell between a read and its stat? | 1 path, 3 operations, 1 session | **violated** |
| `dialect_rebuild_ids` | is a report pinned by its id of the dialect in force? | as `invalidation`, 1 rebuild | **violated** |
| `autoload_not_tracked` | does a cached analysis know the interface of the autoload it used? | 1 autoload | **violated** |
| `line_breaks` | do buffers stay in step if a text holds a form feed? | as `content`, with `ff` | **violated** |
| `cycle_unreported` | has an analysis without an inheritance error seen every cycle its classes are in? | as `content` | **violated** |

What each property says is stated above its definition, with the line it is about.

Why the bounds are enough. Requests are used once; two let one be answered,
cancelled or displaced while the other is in every stage, and three let a
format be displaced twice with one of them in each of map, thread and channel.
One mutation of the text is put before or after each handler's read.
`MaxQueue` bounds the length at which the router still reads: with two, a
cancel and a change sit behind a request and are acted on before it. Two paths
make renames, and two texts tell a buffer from its file. Two disk operations
give rename and rename back, delete and recreate, a write and its overflow; two
sessions give cold start, save, crash and warm start. `MaxOps` is `clock`'s
bound in `Freshness` (a permission change counts), `MaxStarts` the sessions',
`MaxOpen` the open buffers'. No start reads what the last of these sessions
saves (`AnotherStart`): it saves at the end of its load and of its life, where
what it saves is checked like any other, but not in between, and no save of its
fails.

In `invalidation` the three projects are a chain of class names, a chain by path
and uid, and a class with two declarers of which one is where Godot's scan does
not go. Two of the texts share a signature and differ in what their bodies name and load,
so an edit between them moves edges and marks no reader; one has an initializer whose
shape is kept. A third script is the reader at the end of each. Two events
give a change and its undoing, a move of a name between declarers, an edit
and a removal; one rebuild (`MaxLives`) gives the dialect change. `Heavy` marks
the one text whose analysis may bail.

In `services` two Godots (one of them outdated) and two addon sets make a dump
stale in each of the ways it can be; a dump may miss none, one or two
extensions, so the shadow's can be better, worse or equal; two sessions give a
crash at any step and a restart after it, with the child of the first still writing; `MaxFaults` allows one kind of fault
in a behaviour, as often as it occurs. Two changes of the settings overlap two
pulls, and two ids a progress arc with the next.

In `content` three characters hold a CR LF and a letter, or an emoji (one, two or four
units) between two line ends; `MaxWire` is the notifications in flight, one,
with one change, of a range or of the whole text. Three answers let a delta's base be lost and remade.
Two writes are a uid's move or a copy, with a fault of either kind; names mix
every rule of the order. Three inner classes, nested in every way and with clauses over
two names, are enough for a cycle of each length that starts, ends or is reached
inside another's resolution; two files, each with an inner class, give every kind of clause
(a path, a class_name, a native class, a singleton, a constant, a name that leads nowhere)
and the cycles across files.

Symmetry is used over requests, paths and texts, and
never in the runs with liveness. The violation runs' bounds are those at which TLC finds the
counterexample.

`CHECK_DEADLOCK FALSE` is in every configuration because each instance may
stop: a session ends, and an environment with bounded changes falls silent.

Fairness. *Session*: the router's send never blocks; a handler returns; the
wait for a child's output has a deadline; `select!` picks at random among its
ready arms, so no arm is passed over for ever (hence strong fairness for
`ApplyFormatDone`, which other arms disable while they run). That a child exits
once its output is closed is a separate assumption, `ChildFairness`.
*Freshness*: a started job goes on; each event channel and the fallback tick is
served (strong fairness, as each waits for the worker). No fairness is assumed
of the disk, the client, the buffers or shutdown. *NativeApi*: the dump thread
takes its next step, its wait for Godot ends at the deadline if not before, and the
event loop reads the outcome; Godot itself need do nothing. *MemoryLadder*: the
ticker fires and the query succeeds now and then.

Assumptions of the passing runs. `freshness`: no
file is written between the server's read of it and the stat that follows
(`Faults` without `"race"`, lifted in a violation run), and no buffer is closed while its file is
unreadable (without `"unreadable close"`, see below). Besides: stamps are distinct
for distinct writes (no two writes within the clock's granularity leave the
same size), and permission changes are reported as events. `services` and
`content`: each property names the faults it excludes. `content`: texts hold only
the protocol's line ends.

## Findings

1. `TrippedFormatEnds` (`formatter.rs:634`). After the child's output is read,
   `child.wait()` has no deadline and no cancel poll. A formatter that closes
   stdout and stays alive keeps its thread, its request and the answer owed
   after `shutdown`, although the doc says it is killed on timeout or cancel.
2. `Settled` (`workspace.rs:1009`, `2090`). Stats are taken after the read they
   vouch for. If the file changes in between and the event is lost to an
   overflow, the full walk that is meant to recover skips the file. The walks
   themselves take the stat first, which is the safe order. The shortest
   counterexample is in a cold load, where build and stat sweep are the whole
   project apart.
3. `UnchangedIsExact` (`server.rs:2676`). A dialect change replaces the
   workspace, whose generation and epochs start again from zero: an id issued
   before it can equal one issued after it, and the pull is answered
   `unchanged` with the diagnostics of the old dialect.
4. `HitIsExact` (`gd_project/src/index.rs:895`). Names are resolved through the
   class_name registry alone, so a use of an autoload makes no edge, although
   the doc lists referenced autoloads among the dependencies. Its script's
   interface changes and the dependents keep their cached analyses.
5. `BuffersInStep` (`position.rs:93`). The rope ends lines after VT, FF, NEL and
   the Unicode separators, the protocol does not: below one of them every edit
   is applied to the wrong line.
6. `CyclesReported` (`gd_analyze/src/resolver.rs:186`). The search for a cycle
   ends at a base in another file, and the walk over interfaces that stops at a
   cycle leaves the report to the cyclic file's own analysis: of two files whose
   classes inherit from each other, neither reports it.

Also seen, without a run of their own:

- requests: a cancel between the reading of the verdict on a queued request and
  the removal of its entry is overruled by an older staleness
  (`server.rs:3013`; the doc says cancelled wins). The comment at
  `formatter.rs:329-331` says that a superseded format answers no edits, but
  one whose output is in hand answers them (they are dropped if the text changed);
- freshness: closing a buffer whose file cannot be read keeps the interface of
  the unsaved text with the stat of the file, and the next save persists the
  pair (`server.rs:3593`);
- native API: a dump set aside by a session that crashed is restored over a
  newer one (against `api_dump.rs:776`), as `remove_file` of it may fail unnoticed; a
  meta file that could not be written, with a switch of the binary and back,
  leaves another binary's dump counted as fresh; the event of a user's own root
  dump is dropped while a torn managed one outranks it; a session that
  ends in the middle of a dump, a child that cannot be waited for (`api_dump.rs:908`) and a dump
  that can be neither moved nor removed (998, 1003, against "Any failure
  quarantines/cleans" at 985-986) leave one in the root, where the next session takes it for the
  user's; a good managed dump is overwritten before its successor has been parsed;
- memory: a fall from Hard to Soft evicts half again (`server.rs:1509-1511` calls
  it informational); push clients get their shed buffers back only with the next
  edit; a configuration answer that overtakes a later one is applied last;
- uids: a uid declared twice while the session runs goes to the later declaration,
  and only a scan lets it resolve to neither (`gd_project/src/index.rs:629`, against
  `docs/03-indexing-freshness.md:60`); a reconcile after an overflow re-reads neither uid declarations nor
  path links (against `server.rs:1947-1948`); a scene that is unreadable while a
  uid moves keeps the old target (against `workspace.rs:1131-1133`); deleting the
  copy's declaration does not give the uid back to the original; a deleted sidecar
  drops a mapping that `uid_cache.bin` supplies on the next scan;
- index: an inner class's `extends "path"` makes no edge (`path_extends_of` reads the head's,
  `preload_deps` only `preload` and `load`), so it is left out of `Unit`;
- positions: a line past the end is taken for the last line, a character past a
  line's end for its terminator's far side;
- inheritance: `extends "x.gd".Inner` is the inner class in its own file and in `class_parent`,
  but the head class to a chain from another file (`script_chain.rs:95`, and both
  copies in `enumerate.rs`, against `gd_project/src/interface.rs:26-28`), which is why `LinksAgree` asks
  nothing of such a step; `class_parent` takes a relative path for unknown; an
  inner class whose base is shadowed by a nearer one has another base from
  other files; a native root copied from a class in the middle of its own
  resolution stays unknown.

## Proofs

`SessionProofs` proves, for all `Requests`, `Docs`, `Failures`, `MaxMutations`
and `MaxQueue` that satisfy `ConstantsAssumption` (the sentinel `None` is not a
member of the sets it is added to; the bounds are naturals):

- `TypeCorrect`: `TypeOK`;
- `Invariance`: the inductive invariant `Inv` of `SessionInvariant`;
- from it `ResultsAreCurrent`, `PartialResultsDropped`, `RegistryIsExact`,
  `OneFormatPerDocument`, `ShutdownStopsFormats`, and `Refinement`, that `Session` implements
  `RequestContract`.

The properties are not inductive as they stand. `CurrentResults` speaks of
answers sent; to keep it, one must know of every request *not yet* answered
that either it is flagged stale or nothing has been swept since its text was
read, although messages wait in `routing` and `forward` with mutations the worker
has not applied. So `Inv` adds: where each message of the queue stands against
`swept` and `applied`, that a request in a stage before its answer is in the
registry, that a tripped token of a query implies a flag (`NoPartialAnswer`;
only formats are tripped without one), and that `formatMap`, `jobDoc` and `done`
agree about who owns a document. Each action has a lemma that it preserves
`Inv`; the theorems follow by one temporal step.

`FreshnessProofs` proves, for all `Paths`, `Texts` and bounds that satisfy
`ConstantsAssumption` (besides the sentinel: no path is a number, so that the
stamps a file starts with differ from all later ones):

- `TypeCorrect`, `Invariance` (of `Inv`), `RecordsAreExact` and `BuffersWin`,
  whatever `Faults` allows;
- `StatsAreHonest`, `CacheIsHonest` and `IndexSettles` (`Settled`), if
  `Reliable`: no write between a read and its stat, no buffer closed while its
  file is unreadable. `Settled` fails without the first (finding 2).

`Inv` adds to the first properties which jobs run in which phase of a session:
a warm walk records nothing, but only a loading session walks that way, and
then nothing is recorded or open yet; a path in hand has no buffer, as edits
wait for the worker. `StatHonest` is not inductive for two reasons. A rename
carries a stamp to another path, so `HonestInv` compares a kept stat with the
stamps of *all* files, and needs that no two files share one and that none
kept is later than `clock`. And between the two steps of a reindex the index is
ahead of its stat: `Honest` leaves that path out, and `InHandInv` says instead
that the file in hand has not changed since (for a walk, which stats first, that
the stamp in hand is of no other file). Every worker step is reduced to one
lemma, `WorkerHonest`, every disk step to another, `MovedHonest`.

`Settled` speaks of sessions with nothing left to do, so its invariant
`FollowInv` follows each discrepancy to what will cure it: while the watcher is armed,
a readable path without a buffer is waited for by an event (a rescan cures
all), or is as the index has it, or lies ahead of the job under way (`Placed`,
job by job: a walk has set right what it has seen, and holds nothing it has not
seen that exists). To handle an event is enough only if it tells the
truth, and events are handled late. `LastWord` says as much as holds: the
*last* event of a channel that touches a path is right about whether the path's
file has gone or come, though not the earlier ones. A walk or sweep may skip a
file whose stamp is unchanged because of `HonestInv`, hence `Reliable`.
`NoneIsNoQueue` separates the sentinel from the queues of a client that sends events.

`ProjectIndexProofs` and `AnalysisProofs` prove, for all paths,
names, uids, texts, settings and bounds that satisfy the assumptions of the two
modules (equal signatures mean that what is hashed is equal, `declares`, `names`, `inits` and
`literals`, and nothing is assumed of `body` and `preloads`; no two paths share a rank; the bounds are naturals):

- `TypesHold`: `TypeOK`, with an open buffer's text in the index;
- `IndexStaysExact`: `IndexExact`. `ProjectIndexProofs` shows of each operation
  on an index that it keeps `Good`: each table is what a recomputation from
  interfaces, registry and uids gives, and `dirty` holds only known paths. The hard part is
  relinking: a name, path or uid that changes hands must be found in the edges
  of files that did not change, for which `Good` needs the tables of names and
  literals to be complete, unresolved ones included;
- `HitsAreFresh`: `HitIsFresh`. Its invariant `HitInv` says of every entry in the
  cache that, if its text and epoch are still those of the file, its view is
  what the index shows now, bailed entries included. A step of the index keeps
  it because of `Tracks`: a file whose view changes is in the reverse closure of
  what changed, in the edges of before or of after the step, and so has its
  epoch advanced (`Advances`). An entry is
  made from the present index, and reloads empty the cache;
- `UnchangedIsFresh`: `UnchangedIsHonest`. `IdInv` carries the same over to
  reports: a complete one whose id is the present one was computed from the
  present view, which needs the generation to move with the setting and
  bailed or shed reports to have no id;
- `ClientsStayInStep`: `ClientInStep`. `StepInv` says it of every state between
  handlers: the dirty set is empty unless a handler left it, and every open file
  whose epoch moved was republished, refreshed or is being reopened;
- `BodyEditsAreLocal`, an action property, from the same invariants.

`NativeApiProofs` proves, for any builds of Godot, sets of addons, sessions, user
actions and faults: `NativeInvariance` (of `NativeInv`) and from it
`AdoptionIsOnDisk`, `FreshStaysCurrent`, `RootStaysTheUsers` and
`SessionStaysInStep`. Each has an invariant that says of every rung of the ladder
what the property says of its end: which dumps were loaded and that the best of them is in
hand or set aside (`LadderInv`); that what a run without faults has in hand is of
the binary and the addons in use, and the meta file tells of the managed dump
between its writing and the next move (`FreshInv`); what may be in the root
(`RootInv`), where children nobody waits for write only after faults that the theorem excepts; and that a session which does not serve what a restart would has a
reason pending to look again (`LiveInv`).

`ServiceProofs` proves, for any numbers of changes, ids and messages (`OutboundAssumption`):

- `OutboundInvariance`, of `OutInv`: a pull or a creation is owed once, and it or its
  answer is in one place (`OwedInv`), although the three wires of client, router and
  worker carry them in different orders;
- `SettingsSettle` (`ConfigSettles`): once the settings have changed, they are in
  force, or the *last* message under way that could change them brings them
  (`ConfigInv`). Earlier ones may bring anything, which is the race;
- `NoTokenOrphaned` (`ArcsEnd`): the messages of a token under way follow each other, the
  first fits what the client has heard, and the last leaves the spinner where
  the reporter believes it (`ArcInv`; `RestInv` for the reporters that have
  returned, and for tokens of the client's own requests);
- `RefusalComesLast` (`RefusesLast`), for any sizes and window: every level but
  Normal finds half of the caches shed, the soft rung having done so for the
  rise from it.

`ContentProofs` has three parts.

*Tokens*, for any arrays: `DiffIsExact`, that the edit cut at the
common head and tail, which may overlap where an array repeats itself, makes the new
array of the old one. From it `ArraysStayInStep` (`ArraysAgree`), for any
classifications (`TokensAssumption`: each is a sequence of tokens) and any number
of requests and answers under way: whoever holds an array (the client, the cache,
a request or an answer on its way) holds the one its id was made for (`Inv`).
`ArraysAgree` speaks of the client alone and is not inductive without the others.
`PaintsWhatWasMeant` (`TokensAgree`) adds what an array means: the tokens to send
rise strictly by line and start (`OrderedRises`, from a ranking of their starts),
so their differences are sizes, and the sums a client forms give back each line,
and each start from the last token that began a line (`TotalIs`, `DecodeIs`).

*Scenes*, for any scripts, scenes, uids, texts and bounds (`ScenesAssumption`: the sentinel
is none of the values, a script is no scene, and the resources are
finitely many): `SceneInvariance`, of `ScenesInv`, and from it `MapsStayMirrors`,
`ScenesFollowDisk` and `UidsFollowDisk`. `MapsMirror` is close to inductive; the
other two speak of a state without notices. In between, each scene is right or has a
notice under way that touches it, and is known by its stat to be wrong unless it
is right (`SceneInv`, with the same of the cache); each resource is named as it
declares, or has a notice (`UidInv`). Notices are handled late, so a
removal may be of a file that is there again: `Order` says that a later notice then brings it.

*Documents*, for every alphabet, width of its characters, length and number of notifications
(`DocumentsAssumption`: a width is 1 to 4 units, and the line ends are two characters): `BuffersStayInStep` and `EditsDoLand`, both if
`Odd = {}`, that is for texts with the protocol's line ends only; the run
`line_breaks` shows that they need it (finding 5). `BufferInv` is a
history: a sequence of texts that starts at the server's, ends at the client's,
and in which each notification on the wire leads from one to the next. What a
change does on either side is the same because a position means the same offset
there (`Units` grows strictly along a line, the starts of lines are ordered, so a
position has one offset, clamped or not). For a formatter's edit, `ClientRoundTrip` says that
the client finds the offset a position was made from unless it lies inside a line end, and
`PrefixAndSuffix` that the head and the tail that are cut off do not overlap and end at line feeds.

`ResolutionProofs` has two parts.

*Bases*, for any classes, clauses and members that satisfy `ProjectsAssumption`:
finitely many classes, nested without a circle; an inner class is in the file of its
outer one, and a file has one head class. The parser gives every project these.

`BasesAreSound` (`BasesSound`). `ChainsEnd` is
stated without paths: every set of classes has one whose base is not in it.
When `Finish` gives a class a base, a set that broke this would hold that class and,
without it, would be closed under bases from the new base on, which is what
`LeadsTo` has just excluded. `IInv` adds that the classes in `frames` are distinct and hold the
sentinel, that what a clause has led to exists and, in the file, has been entered,
and that all behind the driver is settled unless an error was met.

`LinksDoAgree` (`LinksAgree`). The two rules read one clause in different ways. The
resolver goes from name to name, over classes that are being resolved themselves; the index goes down
from a head class in one step. The invariant `Tracks` ties them: from what a clause has led to
so far, the names that are *left* lead where the index's link leads (or the link is
unknown). It is the head of a clause that may break it, when
`resolve_extends_in_scope` finds the first name nearer than in the file's own
classes. `Unshadowed` excludes that at the end of the pass, but the names were
looked up in the midst of it; so the proof shows
that a scope only grows: `ScopeReach`, that `scope_classes` lists exactly
what bases and outer classes lead to, and `TracksStays`, that a base that is kept keeps what
it leads to. The worklist of `scope_classes` is shown to come to an end by the
number of classes it has not listed (`Working`).

*Order*: `LastScannedDoesWin` (`LastScannedWins`), for any alphabet, names of any length and
any finite trees (`OrderAssumption`: characters have distinct codes, and no file is a
directory). An `Ordered` comparison is one whose answers for a pair and its reverse are
opposite, and which is transitive, equal answers included. Each comparison is built of
simpler ones in one of a few ways, each a lemma: by a number (`ByRank`), one after the other
(`InTurn`), of images (`Mapped`), character by
character (`Stepwise`), or by kinds that are kept apart
(`ThenOrdered`, `UnderOrdered`). So bytes, numbers without their zeros,
natural order, dots and underscores are each ordered; that two names which are equal in all of
these differ in bytes makes the order strict (`NamesStrict`).
For the walk, `WalkLists` says that at every level it lists each file once and in the
order of `GodotScanOrder`: what is below the first directory, then the rest,
because whatever parts two files there is the name of that directory or comes after it.

Both parts recurse over data. The theorems of the library for that take an
operator as parameter, which the provers cannot instantiate. They are avoided by two
facts proved here once, in terms of sets: `Recursion` and `Iteration`, that a function
that refers to itself on smaller arguments only satisfies its own definition, and `Induction`,
that a set of arguments which holds each one that has all smaller ones in it holds them all.

Only model-checked are the liveness properties (`EveryRequestAnswered`,
`EventuallyInStep`, `DumpReports`, `Recovers`), which the prover does not reach. What they come to
once nothing is left to do is proved for the index (`Settled`), the session
(`LiveInStep`) and the settings (`ConfigSettles`). Every safety invariant and every action
property of a passing run is a theorem.

## Not modelled

- The frontend but for the inheritance pass: tokenizer, parser, the typing of members and
  expressions (`gd_syntax/`, `gd_analyze/`, most of the repository by lines). They are sequential ports of
  Godot's own, each a function of one text and of what `CrossFileQuery` answers,
  with no state between calls; what is right there is what Godot does, and the
  repository checks it against a conformance corpus. A model would be their
  transliteration. What they read of other files, and when that makes a result
  stale, is in `Analysis`; that they can be interrupted is in `Session`.
- The language features (completion, hover, references, rename and the other
  handlers): each computes one answer from one index and one analysis and keeps
  nothing. When they run, bail and answer is in `Session`; semantic tokens,
  which do keep state, are `TokenDeltas`.
- Workspace file operations (edits on rename) and code actions: text edits of one
  answer. Asset lists and queries over scenes: reads of an index.
- The contents of the native database (`native_db.rs`): data. A pinned
  `extensionApiPath`: read as it is, never written.
- The quarantine `Index::txn` falls back to if `verify` fails: `IndexStaysExact`
  says that it does not.
- Walks that meet errors or names that are not UTF-8 (they skip the removal
  pass); the cache's key and verification; the least-recently-used eviction of
  `record` at 4096 entries; clients that drop some of the file events they
  watch for; the debouncer's
  coalescing; the filter of ignored directories.
- Logging, tracing, command line.
