------------------------------ MODULE MCOutbox ------------------------------
(* Instances of Outbox for TLC.  No symmetry is declared: the runs check
   temporal properties, for which it is not sound. *)
EXTENDS Outbox, TLC
=============================================================================
