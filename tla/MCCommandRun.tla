---------------------------- MODULE MCCommandRun ----------------------------
(***************************************************************************)
(* The requests to the runs, and the threads of a GUI, for TLC.              *)
(***************************************************************************)
EXTENDS ManagerUses, TLC

CONSTANTS f, g

Plain == [files |-> <<f>>, diff |-> None, plugins |-> FALSE, imports |-> FALSE,
          validate |-> TRUE, keepOpen |-> FALSE, exitCode |-> FALSE, utr |-> FALSE,
          calcs |-> "none", answer |-> "log", clear |-> TRUE]

\* A validation, one of two entry points with imports, one kept open under other settings
\* whose log is read and left, a view, a comparison, a configuration and a request without
\* an entry point.
MCRequests ==
    {Plain,
     [Plain EXCEPT !.files = <<f, g>>, !.imports = TRUE, !.exitCode = TRUE,
                   !.answer = "nothing"],
     [Plain EXCEPT !.keepOpen = TRUE, !.exitCode = TRUE, !.utr = TRUE, !.calcs = "c11",
                   !.clear = FALSE],
     [Plain EXCEPT !.validate = FALSE, !.calcs = "misspelt", !.answer = "view"],
     [Plain EXCEPT !.diff = g, !.validate = FALSE, !.answer = "report"],
     [Plain EXCEPT !.files = <<>>, !.plugins = TRUE, !.answer = "zipWithLog"],
     [Plain EXCEPT !.files = <<>>, !.answer = "zip"]}

ThreadSymmetry == Permutations(Threads)
=============================================================================
