---------------------------- MODULE MCReconPages ----------------------------
(* The pages of reconciliation: the review of a statement of two pages with a *)
(* row on each, one of them accepted by the matcher; and the list of uploads  *)
(* with its form.  A behaviour is one of the two, the other at rest: they     *)
(* show different rows of the server.                                         *)
EXTENDS ReconReview, ReconUploads, TLC

CONSTANTS row1, row2

VARIABLE reviewing

MCRows == {row1, row2}
MCPageOf == (row1 :> 1) @@ (row2 :> 2)
MCAutoAccepted == {row2}
MCStatuses == {"all", "needs_review"}

reconPageVars == <<reviewVars, uploadVars, reviewing>>

ReconPagesInit == ReviewInit /\ UploadsInit /\ reviewing \in BOOLEAN

ReconPagesNext ==
    /\ UNCHANGED reviewing
    /\ \/ reviewing /\ ReviewNext /\ UNCHANGED uploadVars
       \/ ~reviewing /\ UploadsNext /\ UNCHANGED reviewVars

ReconPagesSpec == ReconPagesInit /\ [][ReconPagesNext]_reconPageVars
=============================================================================
