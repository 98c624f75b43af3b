------------------------------ MODULE Plugins ------------------------------
(***************************************************************************)
(* The plug-in manager (arelle/plugin_system/_plugin_manager.py): the        *)
(* configuration with the plug-ins and the classes of mount points (hooks)   *)
(* that they declare, the methods found for each hook, which are looked up   *)
(* once and loaded then, and the file that keeps the configuration; with the *)
(* dialog that edits the live configuration (DialogPluginManager.py), the    *)
(* plugins option of a run (CntlrCmdLine.run) and the second run and the     *)
(* closing of an API session (api/Session.py).                               *)
(*                                                                         *)
(* Left out: the order of the plug-ins of a hook, plug-ins that change their *)
(* name, entry points of installed packages, and imports of imports.         *)
(***************************************************************************)
EXTENDS Cntlr

CONSTANTS
    Plugins,
    Hooks,        \* class names of mount points
    CodeVersions, \* what the file of a plug-in may hold
    Imports,      \* plug-in -> plug-ins that it imports
    Declares,     \* plug-in -> version -> hooks in its __pluginInfo__
    Fails,        \* plug-ins and versions that can be parsed and raise when loaded
    EarlyHook     \* WebCache.TransformURL, looked up whenever a file is located

\* An imported plug-in imports nothing.
ASSUME PluginsAssumption ==
    /\ Imports \in [Plugins -> SUBSET Plugins]
    /\ \A m \in Plugins : \A n \in Imports[m] : n # m /\ Imports[n] = {}
    /\ Declares \in [Plugins -> [CodeVersions -> SUBSET Hooks]]
    /\ Fails \subseteq Plugins \X CodeVersions
    /\ EarlyHook \in Hooks
    /\ None \notin Plugins \cup CodeVersions /\ None \notin Plugins \X Plugins
    /\ None \notin [on : BOOLEAN, version : CodeVersions, imported : BOOLEAN]

VARIABLES
    config,         \* pluginConfig
    configured,     \* it has its two dictionaries: not after close()
    loaded,         \* modulePluginInfos: the version of the code that was loaded
    methods,        \* pluginMethodsForClasses: plug-ins found for a hook
    pluginsChanged, \* pluginConfigChanged
    dialogChanged,  \* the dialog's pluginConfigChanged
    doing,          \* what the main thread is doing
    saving,         \* savePluginChanges of the options
    resetting,      \* resetPlugins of the options
    persist,        \* not disablePersistentConfig
    pluginsFile,    \* plugins.json
    code,           \* plug-in -> what its file holds now
    lookup,         \* a hook that is being looked up, by any thread
    stale,          \* history: hooks whose lookup began before the last edit
    late            \* history: plug-ins that a load registered, moved or failed on

pluginVars == <<config, configured, loaded, methods, pluginsChanged, dialogChanged, doing,
                saving, resetting, persist, pluginsFile, code, lookup, stale, late>>

\* A moduleInfo is an object: the one of a plug-in m, or the one of a plug-in n
\* in the imports of m.  config.modules[n] is m when modules[n] is the latter,
\* n when it is an object of its own.
Objects == {<<m, m>> : m \in Plugins} \cup
           UNION {{<<m, n>> : n \in Imports[m]} : m \in Plugins}
Info == [on : BOOLEAN, version : CodeVersions, imported : BOOLEAN]
Config == [infos : [Objects -> Info \cup {None}], modules : [Plugins -> Plugins \cup {None}],
           classes : [Hooks -> SUBSET Plugins]]
NoConfig == [infos |-> [o \in Objects |-> None], modules |-> [n \in Plugins |-> None],
             classes |-> [h \in Hooks |-> {}]]

Known(c) == {n \in Plugins : c.modules[n] # None}
ModuleInfo(c, n) == c.infos[<<c.modules[n], n>>]
Enabled(c) == {n \in Known(c) : ModuleInfo(c, n).on}
ImportsOf(c, n) == IF c.modules[n] = n THEN {k \in Imports[n] : c.infos[<<n, k>>] # None}
                   ELSE {}

NoMethods == [h \in Hooks |-> None]
NotLoaded == [n \in Plugins |-> None]
UnreadableFile(state) == [state |-> state, config |-> NoConfig]

PluginsInit ==
    /\ config = NoConfig /\ configured = TRUE
    /\ loaded = NotLoaded /\ methods = NoMethods
    /\ pluginsChanged = FALSE /\ dialogChanged = FALSE
    /\ doing = "idle" /\ saving = TRUE /\ resetting = FALSE
    /\ persist = TRUE
    /\ pluginsFile = UnreadableFile("absent")
    /\ code \in [Plugins -> CodeVersions \cup {None}]
    /\ lookup = None /\ stale = {} /\ late = {}

\* The main thread is between two operations; only the GUI has other threads.
PluginsReady ==
    /\ doing = "idle"
    /\ mode = "cmd" => lookup = None

------------------------------------------------------------------------------
\* Changing the configuration

\* Objects that nothing refers to are gone.
Referred(c) ==
    [c EXCEPT !.infos =
       [o \in Objects |->
          IF \/ c.modules[o[1]] = o[1] \/ c.modules[o[2]] = o[1]
             \/ lookup # None /\ lookup.loading # None /\ lookup.loading[1] = o[1]
          THEN c.infos[o] ELSE None]]

\* removePluginModule, removePluginConfigModuleInfo, of some plug-ins: with each
\* go its imports, whoever else imports them.
Without(c, removed) ==
    LET Gone(n) == {n} \cup ImportsOf(c, n)
        Declared(n, x) == Declares[x][c.infos[<<c.modules[n], x>>].version]
    IN  [c EXCEPT !.modules = [x \in Plugins |->
                     IF \E n \in removed : x \in Gone(n) THEN None ELSE @[x]],
                  !.classes = [h \in Hooks |-> @[h] \
                     UNION {{x \in Gone(n) : h \in Declared(n, x)} : n \in removed}]]

\* moduleModuleInfo of some plug-ins: new objects for what their files declare and
\* for their imports.  An entry that still is an import of an old object is an
\* object of its own from then on.
Parsed(c, parsed) ==
    LET left == {k \in Known(c) \ parsed : c.modules[k] \in parsed}
    IN  [c EXCEPT
           !.infos = [o \in Objects |->
              IF o[1] \in parsed
              THEN IF code[o[2]] = None THEN None
                   ELSE [on |-> TRUE, version |-> code[o[2]], imported |-> o[2] # o[1]]
              ELSE IF o[1] = o[2] /\ o[1] \in left THEN ModuleInfo(c, o[1]) ELSE @[o]],
           !.modules = [k \in Plugins |-> IF k \in left THEN k ELSE @[k]]]

\* The plug-in and its imports point to the objects of n.
Pointed(c, n) ==
    [c EXCEPT !.modules = [x \in Plugins |->
       IF x = n \/ (x \in Imports[n] /\ c.infos[<<n, x>>] # None) THEN n ELSE @[x]]]

\* addPluginModuleInfo registers all of them for the hooks that they declare.
Added(c, n) ==
    LET new == Pointed(Parsed(IF n \in Known(c) THEN Without(c, {n}) ELSE c, {n}), n)
    IN  [new EXCEPT !.classes = [h \in Hooks |-> @[h] \cup
           {x \in {n} \cup ImportsOf(new, n) : h \in Declares[x][code[x]]}]]

\* addPluginConfigModuleInfo keeps an entry that is imported, and asks for the
\* name of the plug-in, not of the import, before it registers an import.
AddedByDialog(c, n) ==
    LET old == IF n \in Known(c) /\ ~ModuleInfo(c, n).imported THEN Without(c, {n}) ELSE c
        new == Pointed(Parsed(old, {n}), n)
    IN  [new EXCEPT !.classes = [h \in Hooks |->
           LET own == @[h] \cup {x \in {n} : h \in Declares[x][code[x]]}
           IN  own \cup {x \in ImportsOf(new, n) : h \in Declares[x][code[x]] /\ n \notin own}]]

\* Mutant of Reset: the methods that were found stay.
ResetModulesOnly == loaded' = NotLoaded /\ UNCHANGED methods

\* reset(): methods are looked up and code is loaded again.
Reset == loaded' = NotLoaded /\ methods' = NoMethods

\* An edit takes effect: from now on only a lookup that goes on may be wrong.
Effective == stale' = (IF lookup = None THEN {} ELSE {lookup.hook}) /\ late' = {}

------------------------------------------------------------------------------
\* The dialog

PluginsEdit(c) ==
    /\ mode = "gui" /\ dialog = "plugins" /\ PluginsReady /\ Operation("plugins")
    /\ config' = Referred(c)
    /\ dialogChanged' = TRUE /\ stale' = Hooks
    /\ UNCHANGED <<configured, loaded, methods, pluginsChanged, doing, saving, resetting,
                   persist, pluginsFile, code, lookup, late, mode, dialog>>

\* addPluginConfigModuleInfo, also of moduleReload.  Bound: not while another
\* thread loads the object that is replaced.
AddPluginConfigModuleInfo(n) ==
    /\ code[n] # None
    /\ lookup # None /\ lookup.loading # None => lookup.loading[1] # n
    /\ PluginsEdit(AddedByDialog(config, n))

\* moduleEnable: the plug-in, its imports and the entries of their names.
ModuleEnable(n) ==
    /\ n \in Known(config) /\ ~ModuleInfo(config, n).imported
    /\ LET on == ~ModuleInfo(config, n).on
           switched == {<<config.modules[n], n>>} \cup {<<n, k>> : k \in ImportsOf(config, n)}
                       \cup {<<config.modules[k], k>> : k \in ImportsOf(config, n) \cap Known(config)}
       IN  PluginsEdit([config EXCEPT !.infos = [o \in Objects |->
                          IF o \in switched THEN [@[o] EXCEPT !.on = on] ELSE @[o]]])

\* enableDisableAll: the plug-ins that are not imported and what these import,
\* not the entries of the imports.
EnableDisableAllPlugins(doEnable) ==
    LET roots == {n \in Known(config) : ~ModuleInfo(config, n).imported}
        switched == {<<config.modules[n], n>> : n \in roots} \cup
                    UNION {{<<n, k>> : k \in ImportsOf(config, n)} : n \in roots}
    IN  PluginsEdit([config EXCEPT !.infos = [o \in Objects |->
                       IF o \in switched THEN [@[o] EXCEPT !.on = doEnable] ELSE @[o]]])

\* moduleRemove, refused for an import
ModuleRemove(n) ==
    /\ n \in Known(config)
    /\ PluginsEdit(
         IF ModuleInfo(config, n).imported THEN config
         ELSE LET c == Without(config, {n})
              IN  IF Known(c) = {} THEN [c EXCEPT !.classes = NoConfig.classes] ELSE c)

OpenPlugins ==
    /\ mode = "gui" /\ dialog = "none" /\ PluginsReady
    /\ dialog' = "plugins" /\ dialogChanged' = FALSE
    /\ UNCHANGED <<config, configured, loaded, methods, pluginsChanged, doing, saving,
                   resetting, persist, pluginsFile, code, lookup, stale, late, mode, ops>>

\* close(), also the Cancel button: what was edited stays, without a reset.
CancelPlugins ==
    /\ dialog = "plugins" /\ PluginsReady
    /\ dialog' = "none" /\ dialogChanged' = FALSE
    /\ UNCHANGED <<config, configured, loaded, methods, pluginsChanged, doing, saving,
                   resetting, persist, pluginsFile, code, lookup, stale, late, mode, ops>>

\* ok(): names without an entry leave the classes; with changes, a reset.
OKPlugins ==
    LET classes == [h \in Hooks |-> config.classes[h] \cap Known(config)]
    IN  /\ dialog = "plugins" /\ PluginsReady
        /\ dialogChanged \/ classes # config.classes
        /\ dialog' = "none" /\ dialogChanged' = FALSE /\ pluginsChanged' = TRUE
        /\ config' = [config EXCEPT !.classes = classes]
        /\ Reset /\ Effective
        /\ UNCHANGED <<configured, doing, saving, resetting, persist, pluginsFile, code, lookup,
                       mode, ops>>

------------------------------------------------------------------------------
\* Looking up a hook and loading code

\* pluginClassMethods of a hook that was not looked up since the last reset.
BeginHook(h) ==
    /\ mode \in {"gui", "cmd"} /\ lookup = None
    /\ doing = "freshen" => h = EarlyHook
    /\ doing \in {"idle", "freshen", "options"}
    /\ configured /\ methods[h] = None
    /\ lookup' = [hook |-> h, seen |-> {}, found |-> {}, loading |-> None]
    /\ stale' = stale \ {h}
    /\ UNCHANGED <<config, configured, loaded, methods, pluginsChanged, dialogChanged, doing,
                   saving, resetting, persist, pluginsFile, code, late, mode, dialog, ops>>

Between == lookup # None /\ lookup.loading = None

\* The next plug-in of the class: skipped if it is unknown or disabled, found
\* if its code is loaded and has the hook, loaded otherwise.
HookOf(n) ==
    /\ Between /\ n \in config.classes[lookup.hook] \ lookup.seen
    /\ lookup' = [lookup EXCEPT
         !.seen = @ \cup {n},
         !.found = IF /\ n \in Enabled(config) /\ loaded[n] # None
                      /\ lookup.hook \in Declares[n][loaded[n]] THEN @ \cup {n} ELSE @,
         !.loading = IF n \in Enabled(config) /\ loaded[n] = None
                     THEN <<config.modules[n], n>> ELSE None]
    /\ UNCHANGED <<config, configured, loaded, methods, pluginsChanged, dialogChanged, doing,
                   saving, resetting, persist, pluginsFile, code, stale, late, mode, dialog, ops>>

Loadable(n) == code[n] # None /\ <<n, code[n]>> \notin Fails

\* loadModule of the plug-in and of its imports, which nothing checks to be
\* enabled: each is registered as the object that was loaded, for the hooks of
\* the code that was loaded, even if the entry was removed meanwhile.  An entry
\* that freshening does not know of makes the dictionary grow that it iterates over.
LoadModule ==
    /\ lookup # None /\ lookup.loading # None
    /\ LET m == lookup.loading[1]
           n == lookup.loading[2]
           imports == IF m = n THEN {k \in Imports[n] : /\ config.infos[<<n, k>>] # None
                                                        /\ Loadable(k)} ELSE {}
           names == IF Loadable(n) THEN {n} \cup imports ELSE {}
           Moved(x) == \/ config.modules[x] # m
                       \/ loaded[x] \notin {None, code[x]}
                       \/ \E h \in Declares[x][code[x]] : x \notin config.classes[h]
       IN  /\ config' = [config EXCEPT
                !.modules = [x \in Plugins |-> IF x \in names THEN m ELSE @[x]],
                !.classes = [h \in Hooks |-> @[h] \cup {x \in names : h \in Declares[x][code[x]]}]]
           /\ loaded' = [x \in Plugins |-> IF x \in names THEN code[x] ELSE loaded[x]]
           /\ pluginsChanged' = (pluginsChanged \/ names # {})
           /\ doing' = IF doing = "freshen" /\ ~(names \subseteq Known(config)) THEN "grown" ELSE doing
           /\ late' = late \cup {x \in names : Moved(x)} \cup ({n} \ names)
           /\ lookup' = [lookup EXCEPT
                !.loading = None,
                !.found = IF n \in names /\ lookup.hook \in Declares[n][code[n]]
                          THEN @ \cup {n} ELSE @]
    /\ UNCHANGED <<configured, methods, dialogChanged, saving, resetting, persist,
                   pluginsFile, code, stale, mode, dialog, ops>>

\* The list is kept for the next time, also if a reset came in between.  When
\* the class was edited meanwhile the iteration may have passed over a name.
EndHook ==
    /\ Between
    /\ config.classes[lookup.hook] \subseteq lookup.seen \/ lookup.hook \in stale
    /\ methods' = [methods EXCEPT ![lookup.hook] = lookup.found]
    /\ lookup' = None
    /\ UNCHANGED <<config, configured, loaded, pluginsChanged, dialogChanged, doing, saving,
                   resetting, persist, pluginsFile, code, stale, late, mode, dialog, ops>>

------------------------------------------------------------------------------
\* The plugins option of a run

BeginPluginOptions ==
    /\ mode = "cmd" /\ PluginsReady
    /\ doing' = "options" /\ saving' = TRUE /\ resetting' = FALSE
    /\ UNCHANGED <<config, configured, loaded, methods, pluginsChanged, dialogChanged,
                   persist, pluginsFile, code, lookup, stale, late, mode, dialog, ops>>

\* save() opens the file, which empties it.
Open == pluginsFile' = UnreadableFile("broken")

\* One option, with what it makes of the configuration and whether it worked:
\* from the first that did, each is followed by a reset and, unless one was
\* "temp" or without a sign, by a save.
Option(c, worked, sign) ==
    /\ doing = "options" /\ lookup = None /\ configured /\ Operation("plugins")
    /\ config' = Referred(c)
    /\ pluginsChanged' = (pluginsChanged \/ worked)
    /\ resetting' = (resetting \/ worked)
    /\ saving' = (saving /\ sign)
    /\ IF resetting' THEN Reset /\ Effective ELSE UNCHANGED <<loaded, methods, stale, late>>
    /\ IF resetting' /\ saving' /\ pluginsChanged' /\ persist
         THEN doing' = "save" /\ Open
         ELSE UNCHANGED <<doing, pluginsFile>>
    /\ UNCHANGED <<configured, dialogChanged, persist, code, lookup, mode, dialog>>

\* "+name" and "name"
OptionAddPlugin(n, sign) ==
    IF code[n] = None THEN Option(config, FALSE, sign) ELSE Option(Added(config, n), TRUE, sign)

\* "~name"
OptionReloadPlugin(n) ==
    IF n \in Known(config) /\ code[n] # None THEN Option(Added(config, n), TRUE, TRUE)
    ELSE Option(config, FALSE, TRUE)

\* "-name"
OptionRemovePlugin(n) ==
    IF n \in Known(config) THEN Option(Without(config, {n}), TRUE, TRUE)
    ELSE Option(config, FALSE, TRUE)

\* "temp"
OptionTempPlugins == Option(config, FALSE, FALSE)

\* The end of the options; in a second run of a session also KeyError, from the
\* first of them that looks for a plug-in.
EndPluginOptions ==
    /\ doing = "options" /\ lookup = None
    /\ doing' = "idle"
    /\ UNCHANGED <<config, configured, loaded, methods, pluginsChanged, dialogChanged, saving,
                   resetting, persist, pluginsFile, code, lookup, stale, late, mode, dialog, ops>>

\* What json.dumps keeps of the objects: an entry and an import of the same name
\* are two objects from then on.
AsWritten(c) ==
    [c EXCEPT !.infos = [o \in Objects |->
                IF o[1] = o[2] THEN IF o[1] \in Known(c) THEN ModuleInfo(c, o[1]) ELSE None
                ELSE IF c.modules[o[1]] = o[1] THEN c.infos[o] ELSE None],
              !.modules = [n \in Plugins |-> IF n \in Known(c) THEN n ELSE None]]

\* save() writes the file.  Without the dictionaries KeyError ends the closing
\* of the session, with the file emptied.
WritePlugins ==
    /\ doing \in {"save", "write"}
    /\ IF configured
         THEN /\ pluginsFile' = [state |-> "whole", config |-> AsWritten(config)]
              /\ pluginsChanged' = FALSE
              /\ doing' = IF doing = "save" THEN "options" ELSE "idle"
         ELSE doing' = "raised" /\ UNCHANGED <<pluginsFile, pluginsChanged>>
    /\ UNCHANGED <<config, configured, loaded, methods, dialogChanged, saving, resetting,
                   persist, code, lookup, stale, late, mode, dialog, ops>>

------------------------------------------------------------------------------
\* The life of the process

\* init: only the GUI reads the file and then freshens what it says.
PluginsStart ==
    IF mode' = "gui" /\ pluginsFile.state = "whole"
    THEN /\ config' = pluginsFile.config /\ doing' = "freshen"
         /\ UNCHANGED <<configured, loaded, methods, pluginsChanged, dialogChanged, saving,
                        resetting, persist, pluginsFile, code, lookup, stale, late>>
    ELSE /\ persist' \in (IF mode' = "gui" THEN {TRUE} ELSE BOOLEAN)
         /\ UNCHANGED <<config, configured, loaded, methods, pluginsChanged, dialogChanged,
                        doing, saving, resetting, pluginsFile, code, lookup, stale, late>>

\* The entries whose files changed, replaced by what these declare.
Changed(c) == {n \in Known(c) : code[n] # None /\ code[n] # ModuleInfo(c, n).version}
Fresh(c, replaced) ==
    [Parsed(c, replaced) EXCEPT !.modules = [n \in Plugins |-> IF n \in replaced THEN n ELSE @[n]]]

\* freshenModuleInfos, after the early hook was looked up to find the files: an
\* entry whose file changed is replaced by what the file declares, enabled and
\* not registered for new hooks; an enabled entry without a file is removed, unless
\* one that imports it was removed before.
FreshenModuleInfos ==
    LET missing == {n \in Enabled(config) : code[n] = None}
        fresh == Fresh(config, Changed(config))
        imports == UNION {ImportsOf(fresh, n) : n \in missing}
    IN  /\ doing = "freshen" /\ lookup = None
        /\ Known(config) # {} => methods[EarlyHook] # None
        /\ \E removed \in SUBSET missing :
             /\ missing \ removed \subseteq imports
             /\ config' = Referred(Without(fresh, removed))
        /\ stale' = IF config' = config THEN stale ELSE Hooks
        /\ pluginsChanged' = (pluginsChanged \/ missing # {})
        /\ IF pluginsChanged' THEN doing' = "write" /\ Open
           ELSE doing' = "idle" /\ UNCHANGED pluginsFile
        /\ UNCHANGED <<configured, loaded, methods, dialogChanged, saving, resetting, persist,
                       code, lookup, late, mode, dialog, ops>>

\* When that lookup, for the first of the entries, has loaded an import without an
\* entry, RuntimeError ends the iteration after the first, which init passes over:
\* nothing is removed or saved.
AbandonFreshening ==
    /\ doing = "grown" /\ lookup = None
    /\ \E first \in Known(config) : config' = Referred(Fresh(config, Changed(config) \cap {first}))
    /\ stale' = IF config' = config THEN stale ELSE Hooks
    /\ doing' = "idle"
    /\ UNCHANGED <<configured, loaded, methods, pluginsChanged, dialogChanged, saving, resetting,
                   persist, pluginsFile, code, lookup, late, mode, dialog, ops>>

\* Session.run again: PluginManager.close() empties the configuration; whether
\* it changed is not forgotten.
PluginsClose ==
    /\ PluginsReady
    /\ config' = NoConfig /\ configured' = FALSE
    /\ Reset /\ Effective
    /\ persist' \in BOOLEAN
    /\ UNCHANGED <<pluginsChanged, dialogChanged, doing, saving, resetting, pluginsFile, code,
                   lookup>>

\* Cntlr.close of the GUI and of a session saves what changed.
SavePluginsAtClose ==
    /\ mode \in {"quit", "close"} /\ doing = "idle" /\ pluginsChanged /\ persist
    /\ doing' = "write" /\ Open
    /\ UNCHANGED <<config, configured, loaded, methods, pluginsChanged, dialogChanged, saving,
                   resetting, persist, code, lookup, stale, late, mode, dialog, ops>>

\* Nothing is left to save, or saving it failed.
PluginsSaved == \/ doing = "raised"
                \/ doing = "idle" /\ ~(pluginsChanged /\ persist)

\* The process ends or is killed.
PluginsGone ==
    /\ config' = NoConfig /\ configured' = TRUE
    /\ loaded' = NotLoaded /\ methods' = NoMethods
    /\ pluginsChanged' = FALSE /\ dialogChanged' = FALSE
    /\ doing' = "idle" /\ saving' = TRUE /\ resetting' = FALSE
    /\ persist' = TRUE
    /\ lookup' = None /\ stale' = {} /\ late' = {}
    /\ UNCHANGED <<pluginsFile, code>>

\* Somebody replaces or removes the file of a plug-in.
CodeChanges(n, v) ==
    /\ code[n] # v /\ FileChange("plugins")
    /\ code' = [code EXCEPT ![n] = v]
    /\ UNCHANGED <<config, configured, loaded, methods, pluginsChanged, dialogChanged, doing,
                   saving, resetting, persist, pluginsFile, lookup, stale, late, mode, dialog>>

PluginDialog ==
    \/ OpenPlugins \/ CancelPlugins \/ OKPlugins
    \/ \E n \in Plugins : AddPluginConfigModuleInfo(n) \/ ModuleEnable(n) \/ ModuleRemove(n)
    \/ \E b \in BOOLEAN : EnableDisableAllPlugins(b)

PluginOptions ==
    \/ BeginPluginOptions \/ OptionTempPlugins \/ EndPluginOptions
    \/ \E n \in Plugins : \/ \E sign \in BOOLEAN : OptionAddPlugin(n, sign)
                          \/ OptionReloadPlugin(n) \/ OptionRemovePlugin(n)

HookLookup ==
    \/ \E h \in Hooks : BeginHook(h)
    \/ \E n \in Plugins : HookOf(n)
    \/ LoadModule \/ EndHook

PluginStep ==
    \/ PluginDialog \/ PluginOptions \/ HookLookup
    \/ WritePlugins \/ FreshenModuleInfos \/ AbandonFreshening \/ SavePluginsAtClose
    \/ \E n \in Plugins, v \in CodeVersions \cup {None} : CodeChanges(n, v)

------------------------------------------------------------------------------
\* Properties

HookLookups == [hook : Hooks, seen : SUBSET Plugins, found : SUBSET Plugins,
                loading : Objects \cup {None}]

PluginsTypeOK ==
    /\ config \in Config /\ configured \in BOOLEAN
    /\ loaded \in [Plugins -> CodeVersions \cup {None}]
    /\ methods \in [Hooks -> (SUBSET Plugins) \cup {None}]
    /\ pluginsChanged \in BOOLEAN /\ dialogChanged \in BOOLEAN
    /\ doing \in {"idle", "freshen", "grown", "options", "save", "write", "raised"}
    /\ saving \in BOOLEAN /\ resetting \in BOOLEAN /\ persist \in BOOLEAN
    /\ pluginsFile \in [state : {"absent", "broken", "whole"}, config : Config]
    /\ code \in [Plugins -> CodeVersions \cup {None}]
    /\ lookup \in HookLookups \cup {None}
    /\ stale \subseteq Hooks /\ late \subseteq Plugins

\* Each entry points to an info that is there.
InfosThere(c) == \A n \in Known(c) : <<c.modules[n], n>> \in Objects /\ ModuleInfo(c, n) # None

\* Of some plug-ins, those found for a hook are all whose loaded code has it, and
\* all that are enabled are loaded.
Collected(h, met, found) ==
    /\ found \subseteq Enabled(config) \cup late
    /\ \A n \in (met \cap Enabled(config)) \ late :
         loaded[n] # None /\ (h \in Declares[n][loaded[n]] => n \in found)

\* Every plug-in of the configuration has the info that its entry points to, also
\* where removals and loads have moved it between importers.  The methods kept for
\* a hook are those of enabled plug-ins, and the plug-ins that are registered for
\* the hook and enabled are loaded, with all methods that their code has: across
\* the dialog's OK, the options of a run, a second run and restarts, with lookups
\* in other threads that overlap with them.  But a list is out of date when the
\* configuration was edited after its lookup had begun (in the dialog until its
\* OK and after its Cancel, or by freshening), and it lacks plug-ins that a load
\* after it registered for a hook they were not registered for, or had failed on; and
\* it keeps an import that a load has moved to the object of another importer, which
\* may be disabled.
HooksCurrent ==
    /\ InfosThere(config)
    /\ \A h \in Hooks \ stale :
         methods[h] # None => Collected(h, config.classes[h], methods[h])
=============================================================================
