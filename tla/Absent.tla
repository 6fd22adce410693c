------------------------------- MODULE Absent -------------------------------
(* What a column without a value holds (NULL in the database).             *)

CONSTANT None
=============================================================================
