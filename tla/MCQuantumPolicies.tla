------------------------- MODULE MCQuantumPolicies --------------------------
(* Small instances of QuantumPolicies for TLC. *)
EXTENDS QuantumPolicies, MCWorkloads

MCNiceToWeight == [n \in -1..1 |-> 2^(1 - n)]

MCWorkloadsOf ==
    ("rr" :> ShortWorkloads)
    @@ ("lottery" :> Ticketed({Workload(<<0, 1, 3>>, <<<<3>>, <<2, 1, 1>>, <<3>>>>),
                               Workload(<<0, 0, 0>>, <<<<2>>, <<1, 3, 2>>, <<3>>>>)},
                              {<<1, 2, 4>>, <<3, 1, 1>>, <<3, 2, 3>>}))
    @@ ("stride" :> Ticketed(AllWorkloads({0, 1, 4}, {<<3>>, <<10>>, <<3, 2, 4>>}),
                             {<<4, 1, 2>>}))
    @@ ("cfs" :> Niced(AllWorkloads({0, 1, 12}, {<<3>>, <<14>>, <<3, 2, 4>>}),
                       {<<-1, 0, 1>>}))
AllOfThem == UNION {MCWorkloadsOf[name] : name \in DOMAIN MCWorkloadsOf}
=============================================================================
