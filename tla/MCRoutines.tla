------------------------------ MODULE MCRoutines ------------------------------
(* One operator, one cadence and one webhook; requests of every kind.          *)
EXTENDS Routines
CONSTANTS q1, d1
===============================================================================
