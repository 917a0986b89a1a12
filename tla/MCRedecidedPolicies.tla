------------------------- MODULE MCRedecidedPolicies -------------------------
(* Small instances of RedecidedPolicies for TLC. *)
EXTENDS RedecidedPolicies, MCWorkloads

MCQuanta == <<1, 2, 3>>
MCAllotments == <<2, 3, 3>>

\* a fourth process keeps two waiting while two run
WithFourth(wls, arrival, phases) ==
    {Workload(Append(wl.arrival, arrival), Append(wl.phases, phases)) : wl \in wls}

MCWorkloadsOf ==
    ("srtf" :> WithFourth(AllWorkloads({0, 5}, {<<2>>, <<2, 1, 4>>, <<6, 2, 2>>}), 1, <<3>>))
    @@ ("mlfq" :> WithFourth(MixedWorkloads, 1, <<2, 2, 3>>))
    @@ ("prio-p" :> Prioritised(
            WithFourth(AllWorkloads({0, 3}, {<<1>>, <<6>>, <<3, 1, 3>>}), 1, <<7>>),
            {<<0, 2, 1, 3>>, <<2, 0, 2, 1>>, <<0, 0, 2, 1>>}))
AllOfThem == UNION {MCWorkloadsOf[name] : name \in DOMAIN MCWorkloadsOf}

\* MLFQ alone, with short bursts
BoostWorkloads == AllWorkloads({0, 1, 4}, {<<1>>, <<9>>, <<1, 1, 1, 1, 4>>})
MlfqWorkloads == "mlfq" :> BoostWorkloads
=============================================================================
