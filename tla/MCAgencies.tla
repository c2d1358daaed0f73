------------------------------ MODULE MCAgencies ------------------------------
(* One DOI of each agency. *)
EXTENDS Agencies
CONSTANTS c, d
=============================================================================
