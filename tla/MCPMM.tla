-------------------------------- MODULE MCPMM --------------------------------
(* A machine of a few pages above a one-page kernel, with a hole of one     *)
(* page, shared by the kernel and two processes.                            *)
EXTENDS PMM

MCPid == 0 .. 2
MCRam == {[base |-> 0, end |-> 6], [base |-> 7, end |-> 9]}
=============================================================================
