----------------------------- MODULE MCExecutor -----------------------------
(***************************************************************************)
(* Executor with the exit codes its runs choose from: 137 is a fatal       *)
(* signal, 1 an ordinary failure.                                          *)
(***************************************************************************)
EXTENDS ExecutorProps

OkOrKilled == {0, 137}

OkKilledOrFailed == {0, 1, 137}
=============================================================================
