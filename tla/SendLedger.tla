------------------------------- MODULE SendLedger -------------------------------
(***************************************************************************)
(* What the production email workflow promises of each send key, with the  *)
(* sessions, partners, locks and authorizations left out: whoever claims a *)
(* key holds it alone, calls Gmail once, and leaves an outcome that says   *)
(* what the call did as far as the caller could see.                       *)
(***************************************************************************)
EXTENDS Naturals

CONSTANT Keys

VARIABLES
    outcome,     \* the last recorded status of each key
    delivered,   \* messages accepted for each key
    held         \* where the attempt in progress stands, "free" if none

ledger == <<outcome, delivered, held>>

Init ==
    /\ outcome = [k \in Keys |-> "NONE"]
    /\ delivered = [k \in Keys |-> 0]
    /\ held = [k \in Keys |-> "free"]

Claim(k) ==
    /\ held[k] = "free" /\ outcome[k] \in {"NONE", "FAILED"}
    /\ outcome' = [outcome EXCEPT ![k] = "SENDING"]
    /\ held' = [held EXCEPT ![k] = "calling"]
    /\ UNCHANGED delivered

Accept(k) ==
    /\ held[k] = "calling"
    /\ delivered' = [delivered EXCEPT ![k] = @ + 1]
    /\ held' = [held EXCEPT ![k] = "accepted"]
    /\ UNCHANGED outcome

\* a call fails: the one to Gmail, which may have delivered all the same, or one
\* after it
Fail(k) ==
    /\ \/ held[k] = "calling"
          /\ \E n \in {0, 1} : delivered' = [delivered EXCEPT ![k] = @ + n]
       \/ held[k] = "accepted" /\ UNCHANGED delivered
    /\ held' = [held EXCEPT ![k] = "failing"]
    /\ UNCHANGED outcome

RecordSent(k) ==
    /\ held[k] = "accepted"
    /\ outcome' = [outcome EXCEPT ![k] = "SENT"]
    /\ UNCHANGED <<delivered, held>>

RecordFailed(k) ==
    /\ held[k] = "failing"
    /\ outcome' = [outcome EXCEPT ![k] = "FAILED"]
    /\ held' = [held EXCEPT ![k] = "free"]
    /\ UNCHANGED delivered

\* the holder is done with a key it recorded SENT, or is gone
Release(k) ==
    /\ held[k] # "free"
    /\ held' = [held EXCEPT ![k] = "free"]
    /\ UNCHANGED <<outcome, delivered>>

Step ==
    \E k \in Keys : \/ Claim(k) \/ Accept(k) \/ Fail(k)
                    \/ RecordSent(k) \/ RecordFailed(k) \/ Release(k)

\* a step that leaves the ledger alone is a stutter
Next == ledger' # ledger /\ Step

Spec == Init /\ [][Next]_ledger
=============================================================================
