------------------------------ MODULE MCAuditLog ------------------------------
(* Writers are interchangeable: an AuditLog object has no identity in the file. *)
EXTENDS AuditLog, TLC

WriterSymmetry == Permutations(Writers)
==============================================================================
