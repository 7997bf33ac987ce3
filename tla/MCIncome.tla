------------------------------ MODULE MCIncome ------------------------------
(* Small instances of Income for TLC. *)
EXTENDS Income, TLC

CONSTANTS ann, bob

=============================================================================
