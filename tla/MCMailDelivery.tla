--------------------------- MODULE MCMailDelivery ---------------------------
(* Small instances of MailDelivery for TLC.                                  *)
EXTENDS MailDelivery, TLC

\* Nothing tells the members of these sets apart (safety runs only).
MCSymmetry ==
    Permutations(Mails) \cup Permutations(Tasks) \cup Permutations(Ops) \cup Permutations(Workers)
=============================================================================
