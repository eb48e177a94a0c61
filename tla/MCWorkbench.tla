---------------------------- MODULE MCWorkbench -----------------------------
(* A small instance of Workbench for TLC: two criteria, so that a save can *)
(* stop half way, and one save loop next to a completion of the page and   *)
(* another client of the API.                                              *)
EXTENDS Workbench

MCCriteria == 1 .. 2
=============================================================================
