---------------------------- MODULE MCAttachments ----------------------------
(* Small instances of Attachments for TLC.                                   *)
EXTENDS Attachments, TLC

\* Nothing tells the members of these sets apart (safety runs only).
MCSymmetry ==
    Permutations(Contents) \cup Permutations(Mails) \cup Permutations(Requests)
        \cup Permutations(Collectors)
=============================================================================
