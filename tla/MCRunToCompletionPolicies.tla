---------------------- MODULE MCRunToCompletionPolicies ----------------------
(* Small instances of RunToCompletionPolicies for TLC. *)
EXTENDS RunToCompletionPolicies, MCWorkloads

FcfsWorkloads == AllWorkloadsOf(4, {0, 2}, {<<2>>, <<1, 1, 3, 1, 1>>})
SjfWorkloads == AllWorkloadsOf(4, {0, 2}, {<<2>>, <<1, 3, 5>>})
PrioWorkloads == Prioritised(AllWorkloadsOf(4, {0, 3}, {<<6>>, <<3, 1, 3>>}),
                             {<<0, 2, 1, 2>>, <<2, 0, 0, 2>>})
HrrnWorkloads == AllWorkloadsOf(4, {0, 1}, {<<2>>, <<4>>, <<1, 1, 3>>})
MCWorkloadsOf ==
    ("fcfs" :> FcfsWorkloads) @@ ("sjf" :> SjfWorkloads)
    @@ ("prio" :> PrioWorkloads) @@ ("hrrn" :> HrrnWorkloads)
AllOfThem == FcfsWorkloads \cup SjfWorkloads \cup HrrnWorkloads \cup PrioWorkloads

\* of the eight slots every length is at home in one of the last two, so that
\* the clusters go round the end of the table
MCHome == [k \in 1..40 |-> 7 - (k % 2)]

\* priorities next to the largest one
ExtremeWorkloads ==
    "prio" :> Prioritised(AllWorkloads({0, 4, 5}, {<<6>>}),
                          [1..3 -> {0, PriorityLimit - 2, PriorityLimit}])
AllExtreme == ExtremeWorkloads["prio"]
=============================================================================
