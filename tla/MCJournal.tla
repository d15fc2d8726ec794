------------------------------ MODULE MCJournal ------------------------------
(* Two sessions of two files, three processes, two databases.               *)
EXTENDS Journal
=============================================================================
