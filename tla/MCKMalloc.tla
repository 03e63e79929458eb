------------------------------- MODULE MCKMalloc -------------------------------
(* An instance of KMalloc for TLC.                                         *)
EXTENDS KMalloc
===============================================================================
