-------------------------- MODULE MCOptimalPolicies --------------------------
(* A small instance of OptimalPolicies for TLC. *)
EXTENDS OptimalPolicies, MCWorkloads, TLC

SrtfWorkloads ==
    AllWorkloadsOf(4, {0, 2}, {<<2>>, <<3>>})
    \cup AllWorkloadsOf(4, {0, 1, 3}, {<<1>>, <<2>>})
SjfWorkloads == AllWorkloadsOf(4, {0}, {<<1>>, <<2>>, <<4>>})
\* and a few processes with I/O, which opt-np refuses
OptNpWorkloads ==
    AllWorkloadsOf(4, {0, 1, 3}, {<<1>>, <<2>>, <<4>>})
    \cup AllWorkloadsOf(4, {0}, {<<1>>, <<2, 1, 1>>})
MCWorkloadsOf ==
    ("srtf" :> SrtfWorkloads) @@ ("sjf" :> SjfWorkloads) @@ ("opt-np" :> OptNpWorkloads)
AllOfThem == SrtfWorkloads \cup SjfWorkloads \cup OptNpWorkloads
=============================================================================
