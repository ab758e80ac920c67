------------------------------ MODULE MCLabels ------------------------------
(* Two pids of which one writes labels, two owners each, one entry in the   *)
(* directory buffer: a pass spans exits, forks and rewrites.                *)
EXTENDS Labels

=============================================================================
