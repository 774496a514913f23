------------------------------- MODULE MCProc -------------------------------
(* Proc for TLC: init, a process that forks, waits, sleeps and is killed,  *)
(* and one that kills it and exits.  A slot is used again after a fork     *)
(* that fails.                                                             *)
EXTENDS Proc

Family == <<{"fork", "wait"}, {"fork", "wait", "sleep"}, {"exit", "kill"}>>
=============================================================================
