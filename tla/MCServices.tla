----------------------------- MODULE MCServices -----------------------------
(* The parts that meet the ledger only through its rows: the phone, the       *)
(* backend's SMS pipeline, its investments, the API key, the counts of        *)
(* receipts, and the pool of connections.  A behaviour is one of them, the    *)
(* others at rest, where no action that a fairness names is enabled.  Of the  *)
(* two messages one is in the phone's inbox before the app is; of the three   *)
(* the pipeline gets, one names an unknown account.  The enum of job types    *)
(* has the value of the LLM job: without it AskLlm ends the request as        *)
(* EndRequest does, which the behaviours of the wider enum include.           *)
EXTENDS MobileSms, SmsIngest, Investment, UserKey, ConnPool, TLC

CONSTANTS m1, m2, parsed, failed, foreign, g1, r1, t1, t2

VARIABLE serving

MCMessages == {m1, m2}
MCOld == {m1}
MCDate == [m \in MCMessages |-> 1]
MCSms == {parsed, failed, foreign}
MCParsed == {parsed}
MCFailed == {failed, foreign}
MCKnown == {parsed, failed}
WithLlm == MigratedJobTypes \cup {"LLM_SMS_PARSE"}
MCAmount == (t1 :> 1) @@ (t2 :> 2)
MCBest == (t1 :> r1) @@ (t2 :> r1)

servicesVars == <<vars, smsVars, invVars, userVars, poolVars, serving>>

ServicesInit ==
    /\ Init /\ SmsInit /\ InvInit /\ UserInit /\ PoolInit
    /\ serving \in {"phone", "sms", "investment", "key", "receipt", "pool"}

ServicesNext ==
    /\ UNCHANGED serving
    /\ \/ /\ serving = "phone" /\ Next
          /\ UNCHANGED <<smsVars, invVars, userVars, poolVars>>
       \/ /\ serving = "sms" /\ SmsNext
          /\ UNCHANGED <<vars, invVars, userVars, poolVars>>
       \/ /\ serving = "investment" /\ InvNext
          /\ UNCHANGED <<vars, smsVars, userVars, poolVars>>
       \/ /\ serving = "key" /\ KeyNext
          /\ UNCHANGED <<vars, smsVars, invVars, poolVars>>
       \/ /\ serving = "receipt" /\ ReceiptNext
          /\ UNCHANGED <<vars, smsVars, invVars, poolVars>>
       \/ /\ serving = "pool" /\ PoolNext
          /\ UNCHANGED <<vars, smsVars, invVars, userVars>>

ServicesSpec ==
    /\ ServicesInit /\ [][ServicesNext]_servicesVars
    /\ PhoneFairness /\ LlmFairness

\* Whoever waits gets an end: a message under way on the phone is answered or
\* times out, and an LLM job ends or has had its last try.
EveryWaitEnds == SendingEnds /\ LlmEnds
=============================================================================
