---------------------------- MODULE MCSearchIndex ---------------------------
(* A small instance of SearchIndex. *)
EXTENDS SearchIndex

CONSTANTS d1, d2,  \* rebuilds
          w1,      \* a command
          e1       \* a row that is indexed
=============================================================================
