----------------------------- MODULE MCEngine -------------------------------
(***************************************************************************)
(* Instances of Engine for TLC.                                            *)
(***************************************************************************)
EXTENDS Engine

\* A process may die between any two writes.
AnyPoint == Points \ {"idle"}

\* Every point but the windows in which the code does not survive a crash: a
\* loop's effects are on disk and not counted, or files are gone that the run
\* pointer in state.json is past.
SafePoints == {"run", "advance", "decided", "save", "reopen", "rewound"}

StageOnly == {"run"}
AnyAgent == {"run", "decided", "rediv", "dive"}
=============================================================================
