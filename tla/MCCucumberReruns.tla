-------------------------- MODULE MCCucumberReruns --------------------------
(* Step runners that outlive feature runners. *)
EXTENDS MCCucumberSystem, CucumberReruns
=============================================================================
