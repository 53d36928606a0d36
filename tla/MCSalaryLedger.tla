----------------------------- MODULE MCSalaryLedger -----------------------------
(***************************************************************************)
(* SalaryLedger on small instances. One amount is enough where handlers    *)
(* race for documents; more tell apart what is sent, kept and lost.        *)
(***************************************************************************)
EXTENDS SalaryLedger, TLC

Symmetry == Permutations(Requests) \cup Permutations(Slips)
=============================================================================
