--------------------------- MODULE Configuration ---------------------------
(***************************************************************************)
(* Both managers in one controller (arelle/Cntlr.py), from process to        *)
(* process: the GUI with its two dialogs, command line runs and API sessions *)
(* with several runs, each with the files the last one left.                 *)
(***************************************************************************)
EXTENDS Packages, Plugins

allVars == <<packageVars, pluginVars, mode, dialog, ops>>

ConfigurationInit ==
    /\ mode = "off" /\ dialog = "none" /\ ops = [packages |-> 0, plugins |-> 0]
    /\ PackagesInit /\ PluginsInit

\* Cntlr.__init__: the plug-in manager and then the package manager.
Start(m) ==
    /\ mode = "off" /\ mode' = m
    /\ PluginsStart /\ PackagesStart
    /\ UNCHANGED <<dialog, ops>>

\* quit of the GUI; closing an API session.
Quit ==
    /\ mode \in {"gui", "cmd"} /\ dialog = "none"
    /\ Ready /\ PluginsReady
    /\ mode' = IF mode = "gui" THEN "quit" ELSE "close"
    /\ UNCHANGED <<packageVars, pluginVars, dialog, ops>>

\* Session.run again.
RunAgain ==
    /\ mode = "cmd" /\ Ready /\ PluginsReady
    /\ PackagesClose /\ PluginsClose
    /\ UNCHANGED <<mode, dialog, ops>>

End ==
    /\ PackagesGone /\ PluginsGone
    /\ mode' = "off" /\ dialog' = "none" /\ UNCHANGED ops

\* All was saved, or saving the plug-ins failed.
Gone ==
    /\ mode \in {"quit", "close"}
    /\ PluginsSaved /\ (PackagesSaved \/ doing = "raised")
    /\ End

\* The process is killed; also the end of a command line run, which saves nothing.
Killed == mode # "off" /\ End

\* The main thread does one thing at a time; when the process closes, the
\* plug-ins are saved before the packages.  Bound: one other thread.
PackagesTurn ==
    /\ PackageStep
    /\ doing = "idle" /\ (look' = None \/ lookup = None)
    /\ mode \in {"quit", "close"} => PluginsSaved
    /\ UNCHANGED pluginVars

PluginsTurn ==
    /\ PluginStep
    /\ task = "idle" /\ (look = None \/ lookup' = None)
    /\ UNCHANGED packageVars

ConfigurationNext ==
    \/ \E m \in {"gui", "cmd"} : Start(m)
    \/ Quit \/ RunAgain \/ Gone \/ Killed
    \/ PackagesTurn \/ PluginsTurn

ConfigurationSpec == ConfigurationInit /\ [][ConfigurationNext]_allVars
=============================================================================
