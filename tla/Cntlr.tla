-------------------------------- MODULE Cntlr --------------------------------
(***************************************************************************)
(* The life of a controller (arelle/Cntlr.py, CntlrWinMain.py,              *)
(* api/Session.py): the process that owns the package and the plug-in       *)
(* manager.  One process at a time uses the application directory; between  *)
(* two processes only the configuration files are left.                     *)
(***************************************************************************)
EXTENDS Naturals

CONSTANTS
    None,     \* no file, no target, no lookup
    MaxOps    \* bound: operations that change a configuration or a file, see Operation

VARIABLES
    mode,     \* what runs: no process, the GUI, a command line run or API
              \* session, a GUI that quits, a session that closes
    dialog,   \* the modal dialog on the screen
    ops       \* bound: operations so far, on packages and on plug-ins

Modes == {"off", "gui", "cmd", "quit", "close"}

CntlrTypeOK ==
    /\ mode \in Modes
    /\ dialog \in {"none", "packages", "plugins"}
    /\ ops \in [packages : Nat, plugins : Nat]

\* Cntlr.hasGui
HasGui == mode \in {"gui", "quit"}

\* Bound: a limited number of operations on packages or on plug-ins, few on both;
\* a change of a file that others make counts as two.
Operations(manager, count) ==
    /\ ops' = [ops EXCEPT ![manager] = @ + count]
    /\ (1 + ops'.packages) * (1 + ops'.plugins) <= 1 + MaxOps
Operation(manager) == Operations(manager, 1)
FileChange(manager) == Operations(manager, 2)
=============================================================================
