------------------------------ MODULE MCGates ------------------------------
(* Constants for model-checking Gates.                                     *)
EXTENDS Gates

CONSTANTS c1, c2

(* Only calls of one Devin client share anything: its cache and its pipe.  *)
MCCallsOf == [host |-> {c1}, shell |-> {c1}, devin |-> {c1, c2},
              deepseek |-> {c1}]
=============================================================================
