----------------------------- MODULE MCArchive -----------------------------
(* Small instances of Archive for TLC.                                       *)
EXTENDS Archive, TLC

\* Nothing tells the members of these sets apart.
MCSymmetry == Permutations(Mails) \cup Permutations(Workers)
=============================================================================
