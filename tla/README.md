# Verification of Arelle

TLA+ models of the parts of Arelle (a Python XBRL processor) whose correctness
depends on the order of events: processes that share a web cache, threads that
share a queue and a stack of models, a watcher thread, the recursive discovery
of a taxonomy, the package and plug-in managers across processes; and of the
algorithms whose answers depend on the order of their input or on cases that are
hard to enumerate. TLC checks them on small instances; TLAPS proves the most
important properties for every instance. All paths below are under `src/arelle/`.

## 1. The system

Arelle loads an XBRL instance or taxonomy, discovers all documents it refers to,
validates them and shows or reports the result. It is run as a desktop program
(tk), from the command line, as a web server, or as a library.

| Component | State it keeps | Operations | Interacts with |
|---|---|---|---|
| Web cache (`WebCache.py`) | cache directory (file, `.tmp`, `.lock` per URL), check times, `workOffline` | `getfilename`, `_checkIfNewerOnWeb`, `_downloadFileWithLock`, `_downloadFile`, `retrieve`, `clear` | other processes through the directory; asks the controller for passwords |
| UI thread queue (`CntlrWinMain.py`, `DialogUserPassword.py`) | `uiThreadQueue`, the `after` timer, status bar timer, an event per request | `addToLog`, `showStatus`, `internet_user_password`, `internet_logon`, `waitForUiThreadQueue`, `uiThreadChecker` | all worker threads |
| RSS watch (`WatchRss.py`, `DialogRssWatch.py`) | `thread`, `stopRequested`, saved options, `latestPubDate` | `start`, `stop`, `watchCycle`, option dialog | UI queue (writes `latestPubDate`), model manager |
| Model manager (`ModelManager.py`) | `loadedModelXbrls`, `modelXbrl` | `load`, `create`, `compareDTSes`, `close` | UI and worker threads, command line |
| DTS discovery (`ModelDocument.py`, `ModelXbrl.py`, `ModelObjectFactory.py`) | `urlDocs`, `namespaceDocs`, `inDTS`, `referencesDocument`, `schemaDocsToValidate`, `discoveryAttempts` | `load`, `schemaDiscover`, `linkbaseDiscover`, `importDiscover`, `discoverHref`, `loadSchemalocatedSchema(s)` | web cache, parser call-backs |
| Taxonomy packages (`packages/_package_manager.py`, `DialogPackageManager.py`) | `packagesConfig` (packages, remappings), `packagesConfigChanged`, `taxonomyPackages.json` | add, replace, enable, move, reload, remove, rebuild, save, close; `mapUrl` | dialog, command line, loads with packages; threads that map URLs |
| Plug-ins (`plugin_system/_plugin_manager.py`, `DialogPluginManager.py`) | `pluginConfig` (modules, classes), loaded modules, cached hooks, `plugins.json` | add, remove, enable, reload, freshen, look up a hook, save, close | everything that calls a hook |
| Session (`api/Session.py`) | process-wide lock, controller | `run`, `close` | controller, plug-ins, packages |
| Duplicate facts, particles, relationship sets, calculations, dimensions | none of their own | pure algorithms over a model | validation |
| Formula processor (`formula/`) | `inScopeVars`, `varBindings`, `uncoveredAspectFacts`, evaluations made so far, two flags that timers raise | `validate` runs the variable sets; `evaluate`, `bindVariables`, `evaluateVariableBindings` call each other | timer threads |
| XBRL 2.1 validation, OIM loading, views | the model in memory | sequential passes | - |
| Command line and web controllers (`CntlrCmdLine.py`, `CntlrWebMain.py`, `logging/`) | settings of the model manager, errors of the controller, the log handler's buffer | `run`, `runDebug`'s loop over entry points, the answers of the web server and of `Session` | model manager, threads of the server |
| File sources, error manager | open archives, logged errors | sequential glue | - |

What is hard, and what must hold:

* **Web cache.** Downloads of several processes, killed or hanging at any step,
  error and retry paths, a `clear` in between, a file system that refuses. A
  reader must find one complete document or none; a prior copy must survive a
  failed download, but for the gap between its removal and the rename; the logon
  page of a schema or instance must not be kept; a call must end.
* **UI queue.** Requests of several threads, modal dialogs that run an event loop
  inside the checker, callbacks that raise. No request may be lost, no worker
  left waiting, no message wiped by an old timer.
* **RSS watch.** Stops and restarts at any moment, a date recorded later by
  another thread, several filings of one date. No filing may be passed over, no
  two watchers may run, a stop must end the watch and give the options back.
* **Model manager.** Two statements per load without a lock, closes behind the
  manager's back. The stack must be the open models, in order.
* **DTS discovery.** Circular references, one document reached by several ways
  before and after it is known to be in the DTS, copies at several URLs, loads
  nested in the parser. `inDTS` must be what the entry point leads to, no link
  may be processed twice or missed, the load must end.
* **Packages and plug-ins.** Derived state (remappings, classes of hooks, methods
  found for a hook) is kept next to what it is derived from, and every way to
  edit the one must renew the other: the dialog, which edits the live
  configuration, options of a run, loads with packages, a session's next run, a
  file left by a process that was killed; while another thread reads it. What a
  command line run configures must not reach the GUI.
* **Runs of one controller.** A session and a web server make many runs with one
  model manager, one set of settings, one list of errors and one log. A run hands
  on "the current model" instead of its own, after loads that stacked several,
  and any of its steps may raise. What is validated must be what was asked for, an
  exit code must tell of every error and of no other run's, an answer must carry
  its own log, and nothing may be left open.
* **Formulas.** Variables, results and chained sets hide values of the same names
  and bring them back by statements that a time-out or an exception leaves out; a
  timer's thread raises a flag that all sets share. An expression must see the
  values of its own set and those around it, a set may only be stopped for a time
  limit that ran out, and what is evaluated must be all that matches, each once,
  whichever earlier facts it was compared with.
* **Algorithms.** Answers must not depend on the order in which facts, arcs or
  roles are met, must agree with the definition at touching intervals, equal
  priorities, circles and empty groups, and loops and recursions must end.

`PROJECT.json` lists every hazard at its line, with the property that covers it
or the reason why none does.

## 2. The modules

| Module | Models | |
|---|---|---|
| `WebCache` | the download side of `WebCache.py`, several processes, one URL | component |
| `CacheReplacement` | what a cache promises a reader: absent or one whole document, withdrawn only when its successor is ready, and replaced by that one | abstract specification |
| `WebCacheReader` | the refinement mapping from `WebCache` to `CacheReplacement` | composition |
| `UiQueue` | `CntlrWinMain.py` 1606-1737 and the two dialogs | component |
| `RssWatch` | `WatchRss.py`, the menu commands, the options dialog | component |
| `ModelManager` | `ModelManager.py` under several threads | component |
| `DtsDiscovery` | `load` and discovery of `ModelDocument.py` | component |
| `Cntlr` | the life of a controller and of its processes | shared by the next three |
| `Packages` | the package manager, its dialog, its options, `mapUrl` in a thread | component |
| `Plugins` | the plug-in manager, its dialog, its options, lookups in a thread | component |
| `Configuration` | both in one controller, from process to process, with `api/Session.py` | composition |
| `CommandRun` | the runs of `CntlrCmdLine.py` with their answers in `CntlrWebMain.py`, `api/Session.py` and `logging/handlers/` | component |
| `ManagerUses` | the model manager under the runs of the command line, or under the threads of a GUI | composition |
| `DuplicateFacts` | `ValidateDuplicateFacts.py`: questions about and deduplication of a set | algorithm |
| `Relationships` | prohibition and override in `ModelRelationshipSet.py` | algorithm |
| `Particles` | `XmlValidateParticles.py` | algorithm |
| `Calculations` | `ValidateXbrlCalcs.py`: Calculations 1.0 and 1.1 | algorithm |
| `Dimensions` | `ValidateXbrlDimensions.py`: validity of facts, search for cycles | algorithm |
| `VariableSets` | `FormulaEvaluator.py`: which facts variables are bound to, which evaluations there are | algorithm |
| `FormulaRun` | `ValidateFormula.py` 816-888 and the recursion of `FormulaEvaluator.py`: scope, bindings, timers, exceptions | component |
| `AlgorithmInputs` | sets of duplicates, of arcs and of facts of a calculation, growing by one at a time, with the properties of the three algorithms | composition |
| `MCWebCache`, `MCRssWatch`, `MCDtsDiscovery`, `MCConfiguration`, `MCCommandRun`, `MCAlgorithms` | instances for TLC | model checking |
| `WebCacheProof`, `UiQueueProof`, `RssWatchProof`, `DtsDiscoveryProof`, `ConfigurationProof`, `CommandRunProof`, `ModelManagerProof`, `AlgorithmsProof` | theorems | proofs |

Operators named as a mutant ("Mutant of ...") are the definitions with a
plausible bug; no specification uses them. Each shows that the run of its
property would notice that bug.

**WebCache.** A directory entry (`file`, `tmp`, `lockPath`) names an inode or is
absent; a descriptor (`fd`, `holds`) keeps its inode when the entry goes, as on
POSIX; `OpenFileRemovable = FALSE` is Windows, where an open file cannot be
removed. `pc` cuts a call where it touches the disk or the network. `GetFilename`
and `CheckIfNewer` are lines 536-643; `ReadBefore`, `Acquire`, `LockTimeout`,
`Decide`, `Release`, `RemoveLockFile` are `_downloadFileWithLock`; `Received`,
`TooShort`, `HttpError`, `AuthError`, `OtherError`, `UnlinkPrior`, `RenameTmp`,
`SetWebTime` are `_downloadFile`, one for each of its error paths, with `Retry`
for the decrement of `retryCount` and `GiveUp` for its exhaustion; `OpenUrl` to
`ReadFails` are `retrieve`. `Crash` kills a process, `Clear...` is
`WebCache.clear` entry by entry. A body is a sequence of blocks, each the
document it came from, so mixed and cut bodies are visible. The sizes are compared
(line 1052) only of a response that has a Content-Length, so a cut body may pass if
it was compressed or is ended by the connection's close (`Encodings`). Only of URLs in
.xsd, .xml and .xbrl is a response searched for `<html` (line 750): `XmlExtension` says
whether this URL is one, and `LogonFound` what the search finds. The prior file is
unlinked and then the new one renamed (919-936): who is killed in between, or is
refused the rename, leaves nothing there, which the history `prior` calls "lost".

**UiQueue.** `uiQueue` holds callbacks; `ui` says which event loop the UI thread
is in; `CheckerFires`, `RunCallback`, `CallbackRaises`, `DialogOpens`,
`DialogCloses`, `CheckerEnds` are `uiThreadChecker` with what the callbacks do to
the queue's own state; `Ask` and `Answered` are the two requests that wait on an
event; `PollBegin` and `Poll` are `waitForUiThreadQueue`; `StatusTimerFires` is
the status bar timer.

**RssWatch.** The actions of `Watch(t)` are the statements of `watchCycle`
between two reads of `stopRequested`; `Start`, `Stop`, `DialogOk`, `ChooseCalcs`
are commands of the UI thread and `UiUpdate` the queued record of a date. Each
`start()` has a thread of its own, so that an old one may still be ending.

**ModelManager.** A step is one statement: `Load` sets `self.modelXbrl`,
`AppendCurrent` appends what it then reads from it; `TestLoaded` and `RemoveLoaded`
are the loop of `close` that takes a model off the stack, `Dereference` and
`CloseModel` the rest of it. `overlapped` and `bypassed`
are history: calls that overlapped, and models closed other than by the manager
(`CloseDirectly`, and the close of a comparison report). The stack does go wrong
in those histories, the code promises nothing about them, and the properties say
so by leaving them out.

**DtsDiscovery.** What each URL holds (root element, namespace, references,
schemaLocations) is a function chosen in `Init` from the constant `Taxonomies`.
The Python call stack is the variable `stack`, a frame per scan of a document's
references, because `load`, `importDiscover`, `discoverHref` and the parser's
class lookup call each other and each uses what its nested call left. `Import`,
`Href`, `Element`, `Xbrldi`, `Hint` are a call up to its nested load;
`ImportReturns`, `HrefPromotes`, `HrefReturns`, `HintReturns` what follows it;
`Load` and `NewDocument` are `load` and `ModelDocument.__init__`; `EntryLoaded`
empties the validation queue; `LocateSchemas` is `ModelXbrl`'s pass over
schemaLocations. A document that is met again under another URL is the same one if
file name and namespace agree (`BaseName`, `NsBaseName`).

**Packages.** `packages`, `remappings`, `changed` are `packagesConfig` and its flag,
`file` is `taxonomyPackages.json`, `disk` what the package files hold at the
moment, so that a reload may find another package. `rebuildRemappings` is a task
of its own (`Clear`, then `Fill` for one package at a time), so that a thread in
`mapUrl` (`BeginLookup`, `LookupItem`, `LookupRaises`, `LookupEnd`) sees a part.
What follows the rebuild (`then`) is the rest of the caller. A URL is a sequence
of characters, since what is checked is which start string is the longest.

**Plugins.** A moduleInfo is an object that a plug-in and its importer share;
`config.modules` says which object stands under a name, `infos` what it holds.
`loaded`, `methods` are the modules and methods found so far. A lookup takes the
names of a hook one by one and loads the code of each (`BeginHook`, `HookOf`,
`LoadModule`, `EndHook`), in any thread, which is where edits come in between. The dialog's buttons edit the live
configuration; `OKPlugins` saves, `CancelPlugins` keeps what was done. The histories `stale` and
`late` name the lists that are known to go wrong.

**Configuration.** `Start`, `Quit`, `RunAgain`, `Gone`, `Killed` are the steps of the
controller that both managers share; one thing is done at a time in the main
thread, one in another. `FreshenModuleInfos` removes the plug-ins whose files are
missing in any order, which decides what a removed import leaves in the classes. It
looks a hook up when it locates the file of the first entry; if that loads an import
that has no entry, the dictionary it iterates over has grown (642), and
`AbandonFreshening` is what is left of it: `init` passes over the exception (87).

**CommandRun.** A run is a number and the locals of `run` (`todo`, the entry points
that are left; `model`, which is `modelXbrl`; `queue`, the rest of the loop over the
current model and its further targets; `success`, `invalid`). Its steps go from
one point where something may fail to the next: `Configure`, `Parse`, then for each
entry point `Load`, `LoadNothing` or `LoadRaises`; `Loaded` or `Escape`, the exception
that nothing catches; `Diff`, `DiffInError`, `DiffRaises`; `Select` and `Use` or
`UseRaises`; `Close`; and `Finish`. `AnswerWithout`, `ReadLog`, `ClearLog` are the
callers. The model manager is `stack` and `current`, changed by `Push` and `Pop`
alone. `Loaded` includes the import of files into the model, which makes a run fail
(2051). The log's buffer is formatted (`ReadLog`) and then deleted (`ClearLog`) only if
the caller asks (`clear` of a request): the web server does, `Session.get_logs` and the
like by default do not, so that a later answer has the earlier run's log too.
`seen`, `used`, `pairs`, `said`, `answers` are histories. `ManagerUses` instantiates
`ModelManager` next to it, since both are uses of one class: a process is a GUI, with
threads, or makes runs.

**FormulaRun.** `frames` is the Python call stack of `evaluate`: for each call its set,
the variables that are open (the generators of `bindVariables`, each with the
results that are left and what it hides in `inScopeVars` and `varBindings`), and
the chained set it is at. `Bind`, `NextResult`, `VariableEnds` are `bindVariables`;
`PassOver`, `Evaluate`, `EvaluateChained`, `EvaluationEnds` are
`evaluateVariableBindings`; `Return` and `Raise` the ends of `evaluate`. `Polled` is
a look at the two flags, which the code takes at fixed places only. `StartSet`,
`SetTimesOut`, `ReportTimesOut`, `FinishReport` are the loop of `validate`. A timer
waits, elapses and calls back in two steps (`Elapse`, `Callback`), as
`threading.Timer` does, with `Cancelled` between or not. A value is known by the set
that gave it. `VariableSets` has what this leaves open: a variable's facts.

**The algorithms.** Each module translates the code as operators and, below a
line, gives the definition it is to meet; the last operator of each states where
the two agree, and every exception is named and is a case in which they do
differ. `DuplicateFacts` is compared with the user guide and the OIM definition
of consistency, `Relationships` with an effective arc as one that no arc of
higher priority prohibits or overrides, `Particles` with the language of a
content model (a set of sequences), `Calculations` with intervals of all facts at
once, `Dimensions` with reachability over consecutive relationships, `VariableSets`
with the largest assignments of facts that match pairwise (`Best(Candidates(vs))`). Recursions
of the code that may not end carry the calls they are part of, and answer
"loops" when one repeats.

## 3. The runs

| Run | Checks | Bounds, and why they are enough |
|---|---|---|
| `webcache_posix` | `CachedFileWhole`, `NoLogonPageCached`, `PriorCopyReplaced` | 2 processes, 1 call each, 1 clear, 2 blocks, 1 retry, refused removals and renames, bodies with a length, compressed or ended by a close; a URL in .xsd, .xml or .xbrl: a second process is the least that can meet the first anywhere; two blocks are the least that can be mixed or cut |
| `webcache_windows` | `MutualExclusion`, `NewerCopyUsed`, `DownloadedFileThere`, `ReplacesWhenReady`, `OtherCallsReturn` | 2 processes, 1 call each, 2 retries; a URL of another extension; one process may hang for ever, the other one comes before, meanwhile and after |
| `webcache_lock_race` | violation of `MutualExclusion` on POSIX | 2 calls each, so that a third call follows both |
| `ui_queue` | `WaiterNotForgotten`, `LastingMessageStays`, `WorkerGoesOn` | 2 workers and the UI thread, 2 callbacks each: two dialogs and two timers at a time; 1 turn of polling instead of 40 |
| `ui_self_wait` | violation of `EveryRequestEnds` | 1 callback each |
| `rss_watch` | `NoItemMissed`, `OneWatcher`, `StopEndsWatch`, `NewItemsTried` | 3 filings, two of one date; 2 watchers; 1 change of an option; 2 dates queued |
| `rss_options` | violation of `OptionsReset` | 1 filing, 1 watcher |
| `dts_discovery` | `DtsSound`, `DtsComplete`, `LinksOnce`, `IncludedValidated`, `StaysDiscovered`, `DiscoveryEnds` | 8 documents, 3 namespaces, 7744 taxonomies: circles of imports, of links and of both, an include of the own or no namespace, a schema at two URLs, a linkbase or schema that is absent, a document first met by a schemaLocation, by an odd locator or by an element; 64 of them with imports of a wrong namespace next to links to the same schema, schemas that take each other's place, an xbrldi schema with links that is met again |
| `dts_xbrldi` | violation of `DtsClosed` | those of the taxonomies whose instance uses xbrldi |
| `configuration` | `MappingsCurrent`, `LookupRight`, `HooksCurrent`, `CommandLineNotPersistent` | two package files and three contents (two versions of one package, another one) with start strings of which one begins the other; a plug-in that imports another one, two versions of each, one that fails to load, two hooks; one process at a time, one other thread; a removed import that a load brings back during freshening; `MaxOps` = 4: four edits of packages, or four of plug-ins, or one of both (`Operations`); a change of a file by others counts as two |
| `algorithms` | `DuplicatesRight`, `RelationshipsRight`, `ParticlesRight`, `CalculationsRight`, `DimensionsRight`, `EvaluationsRight`, `ScopeRight`, `TimeoutHasCause` | 3 facts of 15 numeric or 5 other kinds; 3 arcs with 1 or 2 relationships each, collected once or twice; 1430 content models of up to 3 elements and 2 groups, 4 children; 4 facts of 11 kinds for a total and 2 items, weights 1, 2 and -1; 3 of 26 domain-member arcs around 12 taxonomies with 1 or 2 hypercubes, 20 facts of each: three are the least that make a chain of agreements, a prohibited override, a circle with a way out. Formulas: 6 facts and variables, of those at most 3 variables, with one dimension, with or without a default. The run of formulas: 2 sets with 2 variables and 1, and 2 sets chained to the first, one with its result in scope, that share 4 names; 2 results for a variable, a timer for each set, or for all, or both: the least in which a variable hides one of the same set around it, a result hides a parameter, and a timer outlives its set |
| `command_run` | `UsesItsOwn`, `LogSinceDeleted`, `SettingsMet`, `ErrorsReported`, `NothingLeftOpen`, `ComparesItsOwn`, `StackConsistent` | runs: one thread, 2 runs of 7 kinds of request, 2 files, 1 further target: one with imports, one whose answer leaves the log in the buffer: the second run finds whatever the first may leave on the stack, in the log, among settings and errors; anything may fail. GUI: 2 threads, 4 models: a comparison of two, its report and one more |

The inputs of `algorithms` grow by one fact, arc or child per step, so that a
violation is a smallest input. Deadlock checking is off throughout: with every bound used up, each of these
systems may be at rest. Symmetry is used for inodes in the runs without
liveness, and for the threads of `ModelManager`. Type invariants that are proved
are not checked again, except where another module has none proved.

**Fairness.** WebCache: a process that can go on without the network does (the
operating system schedules it); the network steps are fair only for processes
other than `Hung`, whose server never answers (sockets have no timeout unless
one is configured). UiQueue: tk's event loop runs, a user closes a modal dialog
in the end, a thread whose event is set goes on; nothing is assumed to put
callbacks or to end. RssWatch: a live thread runs and the UI thread empties its
queue; the publisher and the user are not fair. DtsDiscovery: the one thread goes
on. `Configuration`, `CommandRun`, `ModelManager`, `FormulaRun` and the algorithms have
no liveness property.

### What the violations show

* **Lock file race** (`WebCache.py` 700-706). On POSIX the lock file is removed
  while a second process holds its lock, and a third locks a new file: two
  downloads write one `.tmp`. The comment there describes only Windows.
* **The UI thread waits for itself** (`CntlrWinMain.py` 1704-1720). Opening a web
  archive from the menu may ask for a password in the thread that has to show
  the dialog.
* **Options stay overridden** (`WatchRss.py` 81-89). A stop seen after the reload
  or the sleep leaves the loop without the restore.
* **An imported xbrldi schema leaves the DTS** (`ModelDocument.py` 1143, 468).
  The schema is loaded as if by a schemaLocation without the test whether it is
  known, and its `inDTS` is reset.

### What the models met besides

These are not findings of a run, but the reason why a property has an exception.

* Model manager: after a close `loadedModelXbrls[0]` becomes the current model
  (`ModelManager.py` 252), where the docstrings (141-143, 240) say the most recent.
* Packages: the `packages` option never loads `taxonomyPackages.json`, so that
  reload, disable and remove by option fail on an assertion
  (`_package_manager.py` 441); after a session's second run the configuration is
  `{}` and the next edit raises; a thread that maps a URL during a rebuild gets an
  answer from a part of the remappings or a `RuntimeError` (678, 718). "Move
  package up (above other remappings)." (`DialogPackageManager.py` 208) moves it to
  where later packages override it. Cancel (222) keeps the edits.
* DTS: a schema first met outside of the DTS and imported under a wrong namespace or
  at a URL that is not in `namespaceDocs` is not promoted by a link of the same
  document either, which finds it in `referencesDocument` already
  (`ModelDocument.py` 1273, 1104). The links of an xbrldi schema are processed twice
  when it left the DTS and is met again (1143, 468).
* Plug-ins: freshening enables a plug-in that was disabled and does not register
  new hooks (`_plugin_manager.py` 249), and is given up, removing nothing, when a load of the
  hook it looks up adds an entry (231, 642, 87); removing a plug-in removes an import that
  another one shares (736); a lookup that an edit overlaps stores a stale list
  (695) and registers a removed plug-in again (642); a load gives a shared
  import the object of the plug-in that was loaded last, which may be disabled
  (seen in an instance with a second importer, four edits deep, which is too large
  for the run); the plug-ins of a session
  are saved to the user's `plugins.json`, which a second run then truncates,
  since the file is opened before what is written is made (140).
* Duplicate facts: "1" and "1.0" with the same decimals are not found consistent
  by the detection, which compares texts, and are by the deduplication; nil
  numeric facts make the deduplication raise.
* Relationships: `ineffectiveArcs` (used by one plug-in) reports an arc with two
  locators of one concept as ineffective due to itself.
* Particles: an `xs:all` with an optional element, and an unbounded group that
  can be empty, never end on unexpected content (`XmlValidateParticles.py` 75-98);
  `((a?, b)?, c)` refuses `c`; an `xs:all` accepts an element twice; the check of
  unique attribution counts the occurrences of an earlier declaration with its
  own minimum.
* Runs: the loop over the models of a document set with further targets assigns
  `modelXbrl` (`CntlrCmdLine.py` 2104), so that only the last one's errors make the
  exit code (2275) and only that one is closed; with a second DTS that has such
  targets the comparison takes the wrong pair, since they are stacked below the
  one they are found from (`ModelManager.py` 224). Hence `Single` in three
  properties. The errors of the controller are counted by every later run's exit
  code, and cleared by none (`CntlrCmdLine.py` 2308); `validateUtr` and others are
  switched on by the run that asks for them and stay on (1866); a misspelt
  calculation mode keeps that of the run before. With a web server of several
  threads, a request may be answered with the validation of another one's
  document, as the current model is the controller's (2104), and what is logged
  between the formatting of the buffer and its clearing is lost. A web request
  for a view leaves its log to the next answer (`CntlrWebMain.py` 424). An exception of
  an import or a hook after the load leaves `run` with its models on the stack
  (`CntlrCmdLine.py` 2038-2060); a second DTS with errors is closed without the
  manager and stays on the stack; when a comparison raises (2097-2101), its second DTS
  and its report stay there open, since only the first one is closed (2278).
* Calculations: whether values of the same decimals differ is computed
  (`ValidateXbrlCalcs.py` 490) and overwritten (500); NaN counts only as the first
  fact; bounds exchanged by a negative weight keep the other one's inclusion, and
  a comparison ORs the inclusions (338), which shows with truncation; rounding
  twice makes a de-duplicated verdict depend on the order of the facts.
* Formulas: a timer whose wait has ended before `cancel` calls back later and makes
  the next set time out (`ValidateFormula.py` 868-869), which is why
  `TimeoutHasCause` says "its own or one of a set before". An XPathException, unlike
  a time-out, leaves the variables that were open in `inScopeVars` for all later
  sets, and in a chained set also in `varBindings`, since the statements that
  remove them are passed over (`FormulaEvaluator.py` 157, 520-531); hence `raised` in
  `ScopeRight`. Implicit filtering depends on the order of variables: a dimension
  without default that only a later variable's facts have makes none of them match
  (`Unmatched`; 753, 813), and one that a variable in between covers is forgotten
  (505), so that facts are bound together that do not match in it (`Forgotten`).
  With four variables the test at 604-632 drops the fallback of the third although
  the fourth then has no match: an evaluation is lost that would be found without
  the third, so the run goes to three variables.
* Dimensions: a circle of relationships that are all not usable makes `xdtCycle`
  and `drsPriItems` (219, 245) call themselves until Python's limit instead of
  reporting it; a cycle is looked for in all roles of the domain, consecutive or
  not; a primary item met in two roles is followed in the first only (243).

## 4. The proofs

All theorems hold for any values of the constants that satisfy the modules'
named assumptions.

**`WebCacheProof`.** `TypeCorrect` first. `ExclusiveOnWindows` (assumption: a file
in use cannot be removed) uses two invariants, since mutual exclusion is not
inductive: a process in its critical section holds a lock file, no two hold the
same one (`LocksHeld`), and the held file is the one under the lock's name
(`HeldLockInPlace`), so that a newcomer finds it locked. `CachedFileIsWhole` and
`LogonPageIsNotCached` use `ContentsInv`, which relates each writer's position
to the blocks of its inode: what the temporary file holds when a process comes
to remove the prior file is the whole of its response. The page is tested against
what was written (`PageTested`). `PriorCopyIsReplaced` needs `PriorFollowed`, that a
document which is missing and not lost has a process at the rename, with `TmpInPlace`
and `ContentsInv` for what that process holds. `DownloadReplaces` is
the refinement of `CacheReplacement`: initial states map to initial states and each
step to a step or a stutter, assuming Windows, bodies with a checked length and
no `clear`; `NeverSpoiled` shows that the history variable stays false then.
`NewerCopyIsUsed` needs `NoneNewer`: only while the cached file exists can a process
have seen an older one, and from the start of a download to its end no newer one
appears, since whoever made it would hold the lock. `DownloadedFileIsThere` needs
`FileInPlace`: where nothing is refused and nobody clears, the prior copy is gone when
the new one is renamed, and that one is there from then to the release; with
`TmpInPlace` and `ContentsInv` it holds across crashes at any step.

**`UiQueueProof`.** `TypeCorrect` and `OneDialog` come from one invariant, since a
dialog that closes must be the one that is open: `Modal` says that the checker
empties the queue only where no dialog is open and that its timer is not
pending while it runs, so that no second checker opens a dialog inside the
event loop of the first. `NoWaiterForgotten` follows a request from the queue to
the dialog to the event. `LastingStays` is the action property; its invariant is
that no timer is wanted for a lasting message (`NoTimerForLasting`).

**`RssWatchProof`.** `NothingMissed` needs `InOrder`: a cycle takes the filings in
ascending order (`Ascending`), and every date queued for the UI thread is one
that may be recorded (`Recordable`), so that a date recorded late, after a stop
or a restart, passes nothing over. The feed may be of any size; the least
item left to a cycle exists because items are numbered (`OldestItem`).
`OnlyOneWatcher` follows from `Known`: a live thread that has not forgotten itself
is the one `self.thread` refers to, which is what `start` looks at.

**`DtsDiscoveryProof`.** `TypeCorrect` needs the stack: a frame's document, position
and result stay typed under push and pop (`Push`, `Calls`, `ItemAtTop`).
`OnlyDiscoveredInDts` proves `DtsSound` for any taxonomies of any size. For a
fixed closed set `S` that holds the entry point, the invariant `Sound(S)` says
that the DTS is within `S` and that every frame that may yet add to it works
for a member of `S`; that what `urlDocs` and `namespaceDocs` return for a
reference is one of its targets (`RegistrySound`) carries it through the loads
that return an existing document. The theorem follows by taking every `S`.

The other properties of the discovery rest on the shape of the call stack. Each step
is one of a few kinds (`Kinds`: it takes up a reference, makes a document, returns,
...), and `ScanInv` says what calls may lie above each other: a call whose result
stays outside of the DTS has only such scans above it (`OutsideCall`, `OutsideScan`),
a document is first scanned once, and the second scan of a document that is
promoted does not run inside the first, but for the xbrldi schema (`Above`).
`DocumentsStayDiscovered` is the action property, from the kinds and `FrameOk`.
`EachLinkOnce` needs `LinkInv`: a link of a document of the DTS is processed or a scan
has it before it, one of a document outside is not processed. `ValidatedTogether`
needs `IncludeInv`: what a schema includes is queued with it or lies above it on the
stack. `NothingIsMissed` needs `OutsideInv`, why a document is not in the DTS, and
`ReachInv`: what a document of the DTS refers to is discovered, or overlooked for one
of the reasons that `Overlooked` names, or some scan on the stack will still come to it
(`Complete`; `ToMeet`, `ToReturn`, `ToFind`). What `referencesDocument` holds is the
difficulty, since a link to a document that is in it already is followed no further
(`ReferencesOk`; `Misses` is when that goes wrong), and what a nested call has
returned may have been promoted in between (`Gets`). The facts about a step, that no
scan loses what was before it (`Follows`, `Passes`) and that one that begins has
everything before it (`Rescans`), are proved once and used for each document. That
`None` is no type of a document is an assumption on the constants (`DocsAssumption`).
TLC checked the invariants before they were proved, `ReachInv` also on 40000 taxonomies
of other shapes than those of the run.

**`ConfigurationProof`.** The plug-in manager and the packages share a controller
and nothing else: `PluginStepFrame` is all that the theorems about packages use of
`Plugins`, and conversely.
`MappingsCorrect` needs `PackagesInv`: `MappingsCurrent` is inductive only with
what each task leaves to do, namely that a rebuild has added exactly the packages
before `next` (`AgreesNext`), and that what is saved was complete when the write
began; `AgreesEmpty` covers what a start, a clear and a second run leave.
`LookupCorrect` needs of an undisturbed lookup that it has met what it says
(`Met`), that it has not passed a longer match, and that no remapped prefix was
passed over (`Already`, `Undisturbed`), and of any lookup that its answer was
offered by some rebuild since it began. `CommandLineNeverPersistent` follows from
`FileKept`, which looks at each action that may write.
`PluginsTypeCorrect` needs `EntriesInv`: each entry points to an info that is there
(`InfosThere`), in memory, in the file, and of what is being loaded, through each of
the ways a configuration is changed (`WithoutThere`, `ParsedThere`, `PointedThere`,
`AddedThere`, `SwitchedThere`, `ReferredThere`, `AsWrittenThere`). `HooksCorrect` needs
`CollectInv`, which claims of a lookup under way what `HooksCurrent` claims of a list
that is kept, as far as the lookup got: it found all of what it met (`Collected`), but
for the plug-in that is being loaded, which is still the enabled one of the class
(`LookupCollects`). `LoadCollects` is the step that counts, a load in one thread that
registers and moves plug-ins for the hooks of all others: what it moves from a list is
in `late`. `CollectNothing` covers edits, resets and new processes, after which
nothing is claimed. Assumed is that `None` is neither an info nor an object.

**`CommandRunProof`.** The theorems are about one thread (`OneThread`), as a session,
the command line and the default server have; with two they do not hold. `Typed`
makes the state typed, `Framed` says what a step leaves alone and that what it adds
bears its run's number, and `Numbered` that the run under way is the last one made,
so that nothing of an earlier run changes. `LogIsAnsweredSinceDeleted` needs `LogInv`:
the buffer is always what was said by the runs after the last one whose answer deleted
it (`Undeleted`), and so is what an answer under way has read.
`RunsUseTheirOwn` needs `OwnInv`: from the load of an entry point to the choice of
models the current model is the one just loaded, whatever lies below it, and each
model loaded has been used or is still to be (`Left`), unless the run failed.
`ErrorsNoted` says where each error of a run is kept until the exit code is made, in
`invalid` or with the model in hand; `PairsInv` that the model to be compared is on
top of the stack; `SettingsInv` that a configured run goes on under settings that
meet it.
`NothingStaysOpen` needs `LeftInv`: a run that does not compare has on the
stack at most the model it works on, once (`OneStacked`; `Close` takes off the first
place only), and has closed all others (`RestClosed`); one that compares has each of
its models on the stack once (`ComparesOnce`), and the report is there from the
comparison to the close (`ReportKept`). What stays open of a comparison that raises
is its second DTS and its report (`NotCompared`), which the property names. `None` is assumed to be no
model (`RequestsAssumption`).

**`AlgorithmsProof`.** Three algorithms are right for every input that
`AlgorithmInputs` can make, of any length (its bounds are any natural numbers) and
with any values. `FactsSpec`, `ArcsSpec` and `CalculationsSpec` are the parts of the
specification of `MCAlgorithms` in which the input is of one kind. What such an input is
(`FactsType`, `ArcsType`, `CalculationsType`) is the inductive invariant; the rest is
about one input. The library's induction theorems take an operator as a parameter,
which the provers cannot instantiate, so a loop is a function of the number of
steps, and what holds before the first one and is kept by each is proved by its least
counterexample: the numbers that violate it are a set, which has a least element
(`LeastOf`, `UpTo`). `LoopExists` shows in the same way that there is a function with the
values that a loop has step by step.

*Duplicates* (`DuplicatesAreRight`). The questions about a set come down to those about
pairs (`TypesOfPairs`, `ConsistentPair`): two intervals have a common value if neither
ends before the other begins (`IntervalsMeet`). `PairsRight` shows that it is enough to
look for a more precise fact among those that are kept of complete subsets, since the
others have the key of one of them, and so its interval; `FirstMostPrecise` that exactly
one fact remains of a consistent set.

*Relationships* (`RelationshipsAreRight`). The loop that builds a network keeps a
relationship under its hash until another one has the same hash, and from then on all
of them under their keys. `CollectedRight` says of the dictionary, after any number of
relationships, what it has under each: all of one hash are the same relationship, or
each class has the one that decides (`Decides`: the highest priority, a prohibition if
there is one of that priority, else the last). The report sorts instead, and
`ReportIsRight` relates it to the one that decides.

*Calculations* (`CalculationsAreRight`). For 1.0, `BoundRight` says of the loop over the
facts of a concept, as long as it met no disagreement, that the kept fact is the most
precise one and that each agrees with another one; that all agree does not follow, as
to be the same when rounded is not transitive. For 1.1, `NarrowRight` says that the
interval lies in those of the facts met and has a bound of one of them on each
side; `FoundIsMeaning` that where the set is `Plain` a concept means to the code what
it means by the definition; `SumCounts` that a sum has the bounds of the defined one
and may differ in whether they belong to it, and `ComparisonIsRight` that this matters
only where a total and a sum meet in one bound.

Assumed are what the instances give (`FactsAssumption`, `ArcsAssumption`,
`CalculationAssumption`): values are integers, decimals have half a width or an even
unit, so that its half is an integer, an exact value has more decimals than any other,
weights are whole numbers other than 0 (which `ValidateXbrl` reports), and marks in the
dictionary are no relationships.

`TimeoutsHaveCauses` for any sets and timers: `TimerInv` adds
that a timer that has not called back is unknown to the history, that those of sets
not started do not run, and that a raised flag has its callback (`FlagHasCause`).
`EvaluationSteps` sums up what the steps of an evaluation may do to all this.
`ScopeIsRight` for any sets, chains and names. `StackInv` says
what each open variable and each result of a set hides: the value its name has
from the variables opened before it and the sets around (`Stacked`). `GiveStacked`,
`TakeStacked`, `PushStacked` and `PopStacked` are the four changes of the stack, for
the scope and for the bindings alike, and each action is one or two of them.
`ScopeRight` itself is not inductive, since it says nothing of what is hidden.

**`ModelManagerProof`.** `StackHoldsTheOpenModels` for any number of threads and
models, as long as calls do not overlap (`Alone`). `StackInv` adds to `StackConsistent`
what the call under way has done: the model it is appending is newer than those of the
stack, which are in the order of their loads and each there once (`Ordered`), so that
one removal takes a model off (`RemoveFirstTakes`) and the loop of `close` ends with
it gone (`ClosingOne`). `GuiStackConsistent`, in `CommandRunProof`, says the same of the
instance in `ManagerUses`, which is what the run checks; it is no part of what is
proved of one thread there. Assumed is that `None` is not a number.

**Model-checked only.** Liveness (`OtherCallsReturn`, `WorkerGoesOn`,
`StopEndsWatch`, `NewItemsTried`, `DiscoveryEnds`) is out of the prover's reach, with
anything about ENABLED. So are `ParticlesRight`, `DimensionsRight` and `EvaluationsRight`:
these algorithms recurse over trees and graphs and are RECURSIVE operators, for which
the prover has no backend. All other properties of the passing runs are theorems.

## 5. What is left out

* WebCache: normalisation and mapping of URLs to file names, redirects, proxies,
  the saved check times, `SERVER_WEB_CACHE`. Two URLs share nothing modelled.
* UiQueue: what callbacks do to widgets. RssWatch: e-mail, the log, text match,
  plug-in hooks. ModelManager: options, transforms, packages.
* DtsDiscovery: files are local or already cached; plug-ins, blocked URLs,
  `abortOnMajorError`, the retry at a standard schema location (lines 226-239),
  supplemental, inline and test case documents, `skipDTS`. XSD validation is the
  queue only. `DtsComplete` names the references that the code does not follow
  to their end (`Overlooked`): an import without a namespace, a target that is
  not XML, the xbrldi schema, and documents first met outside of the DTS that
  were typed unknown or are not found under the importer's URL and namespace, also
  where the same document links to them. A document is known by its URL, where the
  code registers it under the local file that the cache has for it (132): two URLs are
  assumed to have two files.
* Packages: what a package's metadata, catalogs and entry points say is given by
  the constants `Identifier`, `Version`, `Remapping`; names are identifiers.
  Plugins: how a name is found in the file system or among entry points, the
  order of the plug-ins of a hook, imports of imports. One process uses the
  application directory at a time.
* CommandRun: parsing of options, utilities of plug-ins that replace a run, the
  loop that watches a feed, comparison of instances, saving of de-duplicated
  instances, models already open under a `urn:uuid`, the validation of a file
  source per entry point, routing and media types. What loading, validation
  and views do to a model is that they find errors or raise.
* Algorithms: facts with a precision only; grouping of facts; `xs:any`,
  substitution groups; typed dimensions and contexts made up by tables; tuples,
  essence-alias and requires-element; messages.
* Formulas: the XPath interpreter and its parser, filters other than one of the
  concept, general variables and dependent filters, tuples, several instances,
  output facts, consistency assertions, messages, and the caches of filtered facts
  and of comparisons. In `FormulaRun` a variable has any number of results.
* Not modelled at all: OIM loading translates one document in one pass; the syntactic
  validation passes, filing rules of the plug-ins, views and rendering keep no
  state that evolves and make no decisions that depend on each other.

The models cover a few per cent of Arelle's lines. The rest is mostly of the
kinds of the last point: rule after rule of one filing programme or another,
each a condition on a loaded document, for which a model would be a copy.

## 6. Plan

Done, in order of importance: 1. `WebCache`, `CacheReplacement`, `WebCacheReader`;
2. `UiQueue`; 3. `RssWatch`; 4. `ModelManager`; 5. `DtsDiscovery`; 6. `Packages`,
`Plugins`, `Configuration`; 7. `DuplicateFacts`, `Relationships`, `Particles`,
`Calculations`, `Dimensions`; 8. `CommandRun`; 9. `VariableSets`, `FormulaRun`;
proofs of all safety properties of the components; 10. proofs of the algorithms that
are loops.

Next:

11. Discovery of inline document sets and supplemental documents.
12. The bindings of `VariableSets` by recursive functions, and a proof of `EvaluationsRight`.

Runs of one component are merged where they share bounds, to keep one run per
question.
