------------------------------- MODULE MCCpu -------------------------------
(* Two clock ticks to the second and a counter that wraps after six.       *)
EXTENDS CpuSample

=============================================================================
