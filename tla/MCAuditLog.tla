----------------------------- MODULE MCAuditLog -----------------------------
(* Small instances of AuditLog for TLC.                                      *)
EXTENDS AuditLog, TLC

\* Entries and workers are interchangeable (safety runs only).
MCSymmetry == Permutations(Entries) \cup Permutations(Workers)
=============================================================================
