----------------------------- MODULE SandboxDrafts -----------------------------
(***************************************************************************)
(* Drafts for the sandbox mailbox (emails/sandbox.py): a claim in the      *)
(* sandbox_drafts table, an audit event, the call of Gmail, and the row    *)
(* that records its outcome, each in a transaction of its own.  Scripts    *)
(* run it, several processes at a time, and run it again after a failure.  *)
(*                                                                         *)
(* GoogleGmailService turns every failure of the call into a               *)
(* DriveConnectionError, which the service does not catch: only what fails *)
(* before the call (ValueError) is recorded FAILED, and every other        *)
(* failure leaves the claim PENDING.                                       *)
(***************************************************************************)
EXTENDS Integers, Sequences, FiniteSets, SequencesExt

CONSTANTS
    None,
    Scripts,      \* the processes that create sandbox drafts
    Packages,     \* package hashes of the partners' packages
    Configs,      \* the settings the processes run with
    MaxRows, MaxFaults   \* bounds of the runs

ASSUME SandboxAssumption ==
    /\ MaxRows \in Nat /\ MaxFaults \in Nat
    /\ None \notin {"PENDING", "CREATED", "ALREADY_CREATED"}

VARIABLES
    desk,         \* the part of the system at work in this behaviour
    rows,         \* sandbox_drafts, in order of attempt_id
    audit,        \* the events of the sandbox in the audit trail
    mailbox,      \* the drafts at Gmail, by key
    script,       \* each process: its step, its key and its last answer
    faults

sandboxVars == <<rows, audit, mailbox, script, faults>>

----------------------------------------------------------------------------
(***************************************************************************)
(* inspect_gmail_sandbox.  A package for the sandbox keeps nothing of the  *)
(* partner's address; its key tells apart the package, the recipient and   *)
(* the attachments.                                                        *)
(***************************************************************************)
AuthMethod(s) == CASE s.auth = "OAUTH" \/ s.oauth -> "OAUTH_USER"
                   [] s.auth = "DOMAIN_DELEGATION" -> "DOMAIN_WIDE_DELEGATION"
                   [] s.auth = "NONE" /\ s.credentials -> "SERVICE_ACCOUNT"
                   [] OTHER -> "NONE"

DraftAllowed(s) ==
    /\ s.mode = "SANDBOX" /\ s.sender /\ s.recipient # None
    /\ \/ AuthMethod(s) = "OAUTH_USER" /\ (s.oauth \/ s.userJson)
       \/ AuthMethod(s) = "DOMAIN_WIDE_DELEGATION"

SandboxKey(p, s) == <<p, s.recipient>>

LatestDraft(k) == LET of == {i \in DOMAIN rows : rows[i].key = k}
                  IN  IF of = {} THEN None ELSE rows[CHOOSE i \in of : \A j \in of : j <= i].status

Idle == [step |-> "idle", key |-> None, answer |-> None]

SandboxInit ==
    /\ rows = <<>> /\ audit = {} /\ mailbox = <<>> /\ faults = 0
    /\ script = [p \in Scripts |-> Idle]

At(p, step) == desk = "sandbox" /\ script[p].step = step
To(p, step) == script' = [script EXCEPT ![p].step = step]
Answer(p, a) == script' = [script EXCEPT ![p].step = "idle", ![p].answer = a]
Append2(p, status) == rows' = Append(rows, [key |-> script[p].key, status |-> status])

(***************************************************************************)
(* create_draft: the capability first, the claim (BEGIN IMMEDIATE: read    *)
(* and insert in one transaction), the event, the provider, the record.    *)
(***************************************************************************)
CreateDraft(p, k, s) ==
    /\ At(p, "idle") /\ DraftAllowed(s)
    /\ script' = [script EXCEPT ![p] = [step |-> "claim", key |-> SandboxKey(k, s), answer |-> None]]
    /\ UNCHANGED <<rows, audit, mailbox, faults>>

(* Plausible bug: the claim lets everything but CREATED in *)
ClaimUnlessCreated(p) ==
    /\ At(p, "claim") /\ Len(rows) < MaxRows
    /\ LatestDraft(script[p].key) # "CREATED"
    /\ Append2(p, "PENDING") /\ To(p, "announce")
    /\ UNCHANGED <<audit, mailbox, faults>>

(* Plausible bug: whoever has the claim is taken to have made the draft *)
TakenMeansCreated(p) ==
    /\ At(p, "claim") /\ LatestDraft(script[p].key) \in {"CREATED", "PENDING"}
    /\ Answer(p, "ALREADY_CREATED")
    /\ UNCHANGED <<rows, audit, mailbox, faults>>

ClaimFree(p) ==
    /\ At(p, "claim") /\ Len(rows) < MaxRows
    /\ LatestDraft(script[p].key) \in {None, "FAILED"}
    /\ Append2(p, "PENDING") /\ To(p, "announce")
    /\ UNCHANGED <<audit, mailbox, faults>>

ClaimTaken(p) ==
    /\ At(p, "claim")
    /\ LatestDraft(script[p].key) \in {"CREATED", "PENDING"}
    /\ Answer(p, IF LatestDraft(script[p].key) = "CREATED" THEN "ALREADY_CREATED" ELSE "PENDING")
    /\ UNCHANGED <<rows, audit, mailbox, faults>>

Announce(p) ==
    /\ At(p, "announce") /\ audit' = audit \cup {<<"PACKAGE_BUILT", script[p].key>>} /\ To(p, "call")
    /\ UNCHANGED <<rows, mailbox, faults>>

GmailCreates(p) ==
    /\ At(p, "call") /\ mailbox' = Append(mailbox, script[p].key) /\ To(p, "record")
    /\ UNCHANGED <<rows, audit, faults>>

(* DriveConnectionError: the draft may be there, and the process ends *)
GmailFails(p) ==
    /\ At(p, "call") /\ faults < MaxFaults /\ faults' = faults + 1
    /\ mailbox' \in {mailbox, Append(mailbox, script[p].key)}
    /\ script' = [script EXCEPT ![p] = Idle]
    /\ UNCHANGED <<rows, audit>>

(* the message cannot be built: nothing was sent *)
Unbuildable(p) ==
    /\ At(p, "call") /\ faults < MaxFaults /\ faults' = faults + 1 /\ To(p, "fail")
    /\ UNCHANGED <<rows, audit, mailbox>>

RecordDraft(p) ==
    /\ script[p].step \in {"record", "fail"} /\ At(p, script[p].step) /\ Len(rows) < MaxRows
    /\ \/ script[p].step = "record" /\ Append2(p, "CREATED") /\ To(p, "confirm")
       \/ script[p].step = "fail" /\ Append2(p, "FAILED") /\ Answer(p, "FAILED")
    /\ UNCHANGED <<audit, mailbox, faults>>

Confirm(p) ==
    /\ At(p, "confirm") /\ audit' = audit \cup {<<"DRAFT_CREATED", script[p].key>>}
    /\ Answer(p, "CREATED")
    /\ UNCHANGED <<rows, mailbox, faults>>

ScriptCrash(p) ==
    /\ desk = "sandbox" /\ script[p].step # "idle" /\ faults < MaxFaults
    /\ faults' = faults + 1 /\ script' = [script EXCEPT ![p] = Idle]
    /\ UNCHANGED <<rows, audit, mailbox>>

SandboxNext == \E p \in Scripts :
    \/ \E k \in Packages, s \in Configs : CreateDraft(p, k, s)
    \/ ClaimFree(p) \/ ClaimTaken(p) \/ Announce(p)
    \/ GmailCreates(p) \/ GmailFails(p) \/ Unbuildable(p)
    \/ RecordDraft(p) \/ Confirm(p) \/ ScriptCrash(p)

----------------------------------------------------------------------------
(* However many processes claim a key, however often they fail and come     *)
(* back, Gmail holds at most one draft of it: a row FAILED, which lets the  *)
(* next process in, is only written when nothing was sent.  ("Idempotent    *)
(* draft-only provider execution", emails/sandbox.py:184.)                  *)
OneDraftPerKey == \A i, j \in DOMAIN mailbox : mailbox[i] = mailbox[j] => i = j

(* Who is told CREATED or ALREADY_CREATED, which is what the go-live        *)
(* readiness counts, has a draft at Gmail; and the audit trail announced a  *)
(* draft before it was made, and confirms only what was made.               *)
DraftAnswersAreTrue ==
    /\ \A p \in Scripts : script[p].answer \in {"CREATED", "ALREADY_CREATED"}
          => script[p].key \in Range(mailbox)
    /\ \A k \in Range(mailbox) : <<"PACKAGE_BUILT", k>> \in audit
    /\ \A k \in {a[2] : a \in {e \in audit : e[1] = "DRAFT_CREATED"}} : k \in Range(mailbox)

=============================================================================
