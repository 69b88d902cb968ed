----------------------------- MODULE MCWebData -----------------------------
(* What the web application shows of the server's rows: any view with every   *)
(* mutation that changes it or invalidates it, and a few of them with         *)
(* everything that may go on beside.                                          *)
EXTENDS WebData

Bounds(d, f, l, s) == [deeds |-> d, foreign |-> f, faults |-> l, signOuts |-> s]

Related ==
    {p \in (DOMAIN Queries) \X (DOMAIN Mutations) :
        \/ Disturbs(p[2], p[1])
        \/ Matches(Mutations[p[2]].invalidates, Queries[p[1]].key)}

Busy == {<<"useTransactions", "useCreateTransaction">>,
         <<"useDashboard", "useUpdateTransaction">>,
         <<"useReconciliationUploadDetail", "useDeleteReconciliationUpload">>}

MCCases == {<<p[1], p[2], Bounds(1, 0, 1, 0)>> : p \in Related}
             \cup {<<p[1], p[2], Bounds(1, 1, 1, 1)>> : p \in Busy}
=============================================================================
