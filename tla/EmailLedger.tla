------------------------------ MODULE EmailLedger ------------------------------
(***************************************************************************)
(* EmailWorkflow implements SendLedger: the sessions' program counters are *)
(* mapped to one holder per send key.                                      *)
(***************************************************************************)
EXTENDS EmailWorkflow

\* some session that works on key k is about to make one of the calls
AtCall(k, calls) == \E s \in Sessions : pc[s] \in calls /\ Key(s) = k

Held == [k \in Keys |->
            IF AtCall(k, {"send_audit", "send_provider"}) THEN "calling"
            ELSE IF AtCall(k, {"send_record", "send_audit_sent"}) THEN "accepted"
            ELSE IF AtCall(k, {"send_failed"}) THEN "failing"
            ELSE "free"]

Ledger == INSTANCE SendLedger
            WITH outcome <- latest, delivered <- deliveries, held <- Held

\* The three services keep the promise of SendLedger whatever the interleaving:
\* each key is claimed, called and resolved by one holder at a time.
ImplementsLedger == Ledger!Spec
=============================================================================
