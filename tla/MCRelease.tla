------------------------------- MODULE MCRelease -------------------------------
(* A release with two native bindings. *)
EXTENDS Release, TLC

CONSTANTS linux, darwin

MCTargets == {linux, darwin}
=============================================================================
