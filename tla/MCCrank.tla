------------------------------ MODULE MCCrank -------------------------------
(***************************************************************************)
(* Values for model checking the sweep runner.                             *)
(***************************************************************************)
EXTENDS CrankProperties

CONSTANT k1

\* Every setback waits an instant before it doubles.
OneInstant == [s \in Setbacks |-> 1]
=============================================================================
