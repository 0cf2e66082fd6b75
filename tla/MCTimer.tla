------------------------------- MODULE MCTimer -------------------------------
(* Two timers, two threads, a short and a long mode, a tick that wraps. *)
EXTENDS KernelTimer, TLC

CONSTANTS t1, t2, th1, th2, T35, RESPOND

MCPeriod == [m \in Modes |-> IF m = T35 THEN 1 ELSE 2]

MCModesOf == [t \in Timers |-> IF t = t1 THEN Modes ELSE {T35}]

MCSymmetry == Permutations({th1, th2})
=============================================================================
