--------------------------- MODULE MCAuditLogging ---------------------------
(* Small instances of AuditLogging. *)
EXTENDS AuditLogging, TLC
Symmetry == Permutations(Request)
=============================================================================
