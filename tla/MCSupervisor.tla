---------------------------- MODULE MCSupervisor ----------------------------
(* Constants for model-checking Supervisor.                                *)
EXTENDS Supervisor

CONSTANTS Edited

(* What a build writes, and anything else.                                 *)
MCContents == {Good, Edited}
=============================================================================
