------------------------------- MODULE MCInbox -------------------------------
(* Instances of Inbox for TLC.  The rows of two events never meet, so most
   runs have one event and several requests for it. *)
EXTENDS Inbox, TLC

Symmetry == Permutations(Handlers)
=============================================================================
