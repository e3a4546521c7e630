----------------------- MODULE MCDiagnosticConnection -----------------------
(* Request slots are interchangeable. *)
EXTENDS DiagnosticConnection, TLC

MCSymmetry == Permutations(Requests)
=============================================================================
