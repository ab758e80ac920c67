----------------------------- MODULE MCSession -----------------------------
(* One byte that means nothing, and a few bytes waiting.                   *)
EXTENDS Session

=============================================================================
