---------------------------- MODULE ManagerUses ----------------------------
(***************************************************************************)
(* The model manager in its two uses: by the runs of a command line, session *)
(* or server (CommandRun), and by the threads of a GUI (ModelManager).  A     *)
(* process is one or the other (CntlrCmdLine.py, CntlrWinMain.py).           *)
(***************************************************************************)
EXTENDS CommandRun

CONSTANTS Threads, MaxModels    \* of the GUI

ASSUME ThreadsAssumption == MaxModels \in Nat /\ None \notin Nat

VARIABLES gui, loaded, guiCurrent, guiMade, guiClosed, compared, guiPc, arg, pair,
          overlapped, bypassed

Gui == INSTANCE ModelManager WITH
          current <- guiCurrent, made <- guiMade, closed <- guiClosed, pc <- guiPc

guiVars == <<loaded, guiCurrent, guiMade, guiClosed, compared, guiPc, arg, pair,
             overlapped, bypassed>>

UsesInit == gui \in BOOLEAN /\ Init /\ Gui!Init
UsesNext ==
    /\ UNCHANGED gui
    /\ \/ ~gui /\ Next /\ UNCHANGED guiVars
       \/ gui /\ Gui!Next /\ UNCHANGED vars
UsesSpec == UsesInit /\ [][UsesNext]_<<gui, vars, guiVars>>

\* The manager of a GUI: only models that were made are referred to, a call of close has
\* one, and between calls the stack is the open models in order.
StackConsistent == Gui!TypeOK /\ Gui!StackConsistent
=============================================================================
