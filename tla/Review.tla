-------------------------------- MODULE Review --------------------------------
(***************************************************************************)
(* The Review Center (pages/04_Review_Queue.py, operations/review.py): the *)
(* issues are built anew, on every run of the page, from the cached        *)
(* workspace and from the publications, and each takes its status from the *)
(* append-only events of its identity, which is made of its restaurant,    *)
(* its type and its text.  Several reviewers work at once, and what an     *)
(* issue is about may go away, change or come back between two runs.       *)
(***************************************************************************)
EXTENDS Payments

CONSTANTS
    Workspaces,    \* the workspaces the sources of the period can give
    Failures,      \* the latest publications that failed, as sets
    Reviewers, Decisions,    \* the sessions, and the statuses they choose
    MaxDecisions   \* bound of the runs

VARIABLES
    workspace,     \* what load_phase5_workspace would give now
    kept,          \* st.cache_data of load_financial_review, None when empty
    failing,       \* the latest publications that failed
    reviewEvents,  \* review_status_events of the period, and the issue they were for
    screen         \* each reviewer: the issues on the page and the click under way

reviewVars == <<workspace, kept, failing, reviewEvents, screen>>

----------------------------------------------------------------------------
(* The issues.  A text is a tuple: its constant part is its type's. *)

\* Mutant: an issue is the same one for every restaurant.
IdWithoutRestaurant(i) == <<i.type, i.text>>

IssueId(i) == <<i.restaurant, i.type, i.text>>

Issue(restaurant, name, type, severity, text) ==
    [restaurant |-> restaurant, name |-> name, type |-> type, severity |-> severity,
     text |-> text]

ManualReviewIssues(w) ==
    {Issue(r, r, "MANUAL_REVIEW", "WARNING", <<w.settled[r].manual>>) :
        r \in {q \in DOMAIN w.settled : w.settled[q].manual > 0}}

CommissionIssues(w) ==
    {Issue(r, r, "COMMISSION_BLOCKER", "CRITICAL", <<>>) :
        r \in {q \in DOMAIN w.settled : w.settled[q].status = "BLOCKED_COMMISSION"}}

InvalidFinancialIssues(w) ==
    {Issue(r, r, "INVALID_FINANCIAL", "CRITICAL", <<>>) :
        r \in {q \in DOMAIN w.settled : w.settled[q].status = "BLOCKED_DATA"}}

IdentityIssues(w) ==
    {Issue(r, r, "IDENTITY_BLOCKER", "CRITICAL", <<w.mapping[r]>>) :
        r \in {q \in DOMAIN w.mapping : w.mapping[q] \notin {"MATCHED_BY_ID", "MATCHED_BY_NAME"}}}

\* A row of the legal master without id has a name, and no restaurant.
LegalIssues(w) ==
    {Issue(l.restaurant, l.name, "LEGAL_MASTER_ISSUE",
           IF l.code \in {"DUPLICATE_ID", "CONFLICT"} THEN "CRITICAL" ELSE "WARNING",
           <<l.code>>) : l \in w.legal}

PublicationIssues(failed) ==
    {Issue(p.restaurant, p.restaurant, "R2_PUBLICATION_FAILURE", "CRITICAL",
           <<p.type, p.version>>) : p \in failed}

\* status_for: the last event of the identity.
StatusFor(id) ==
    LET own == {n \in DOMAIN reviewEvents : reviewEvents[n].id = id}
    IN  IF own = {} THEN "OPEN" ELSE reviewEvents[Max(own)].status

BuildItems(w, failed) ==
    {[issue |-> i, status |-> StatusFor(IssueId(i))] :
        i \in ManualReviewIssues(w) \cup CommissionIssues(w) \cup InvalidFinancialIssues(w)
              \cup IdentityIssues(w) \cup LegalIssues(w) \cup PublicationIssues(failed)}

OpenItems(items) ==
    {i \in items : i.status \in {"OPEN", "IN_REVIEW", "BLOCKED_EXTERNAL"}}

----------------------------------------------------------------------------
NoScreen == [step |-> "closed", items |-> {}, choice |-> None, status |-> None]

\* The issues change only where somebody reviews them, the figures only where nobody does.
Reviewed == open \cap Reviewers # {}

ReviewInit ==
    /\ Init
    /\ workspace \in Workspaces /\ kept = None /\ failing \in Failures
    /\ IF Reviewed THEN <<evaluation, registry>> = CHOOSE p \in Evaluations \X Registries : TRUE
       ELSE <<workspace, failing>> = CHOOSE p \in Workspaces \X Failures : TRUE
    /\ reviewEvents = <<>>
    /\ screen = [s \in Reviewers |-> NoScreen]

Loaded == IF kept = None THEN workspace ELSE kept

ShowIssues(s) ==
    /\ s \in open /\ screen[s].step \in {"closed", "shown"}
    /\ kept' = Loaded
    /\ screen' = [screen EXCEPT ![s] =
         [NoScreen EXCEPT !.step = "shown", !.items = BuildItems(Loaded, failing)]]
    /\ UNCHANGED <<vars, workspace, failing, reviewEvents>>

(***************************************************************************)
(* "Save review status" on a selected row with a reason.  The click runs   *)
(* the page again, and the table drops its selection when its rows are not *)
(* those shown before.                                                     *)
(***************************************************************************)
SaveStatus(s) ==
    /\ screen[s].step = "shown" /\ Len(reviewEvents) < MaxDecisions
    /\ kept' = Loaded
    /\ LET items == BuildItems(Loaded, failing)
       IN  IF items = screen[s].items
           THEN \E i \in items : \E status \in Decisions :
                    screen' = [screen EXCEPT ![s] = [@ EXCEPT !.step = "saving",
                                                      !.choice = i.issue, !.status = status]]
           ELSE screen' = [screen EXCEPT ![s].items = items]
    /\ UNCHANGED <<vars, workspace, failing, reviewEvents>>

\* transition looks at no status; the page then clears every cache and runs again.
TransitionIssue(s) ==
    /\ screen[s].step = "saving" /\ Len(reviewEvents) < MaxDecisions
    /\ reviewEvents' = Append(reviewEvents, [id |-> IssueId(screen[s].choice),
                                status |-> screen[s].status, seen |-> screen[s].choice])
    /\ screen' = [screen EXCEPT ![s] = NoScreen]
    /\ kept' = None /\ cache' = None
    /\ UNCHANGED <<open, evaluation, events, page, changes, paymentVars, workspace, failing>>

\* The cached workspace runs out, or somebody presses "Refresh Google Sources".
RefreshSources ==
    /\ kept # None
    /\ kept' = None /\ cache' = None
    /\ UNCHANGED <<open, evaluation, events, page, changes, paymentVars,
                   workspace, failing, reviewEvents, screen>>

\* The sources of the issues change, or documents are published, or fail again.
IssuesChange ==
    /\ changes < MaxChanges
    /\ changes' = changes + 1
    /\ \/ workspace' \in Workspaces \ {workspace} /\ UNCHANGED failing
       \/ failing' \in Failures \ {failing} /\ UNCHANGED workspace
    /\ UNCHANGED <<open, evaluation, cache, events, page, paymentVars,
                   kept, reviewEvents, screen>>

ReviewNext ==
    \/ ~Reviewed /\ Next /\ UNCHANGED reviewVars
    \/ /\ Reviewed
       /\ \/ RefreshSources \/ IssuesChange
          \/ \E s \in Reviewers : ShowIssues(s) \/ SaveStatus(s) \/ TransitionIssue(s)

ReviewSpec == ReviewInit /\ [][ReviewNext]_<<vars, reviewVars>>

----------------------------------------------------------------------------
(* Properties *)

(***************************************************************************)
(* An issue of a restaurant that a page does not show as OPEN is one that  *)
(* a reviewer saw, of that restaurant, with that type and that text: no    *)
(* decision reaches another restaurant, another version of a document or   *)
(* another number of orders, however the issues come and go.               *)
(***************************************************************************)
DecidedIssuesWereSeen ==
    \A s \in Reviewers : \A i \in screen[s].items :
        i.status # "OPEN" /\ i.issue.restaurant # None =>
            \E n \in DOMAIN reviewEvents :
                LET seen == reviewEvents[n].seen
                IN  /\ seen.restaurant = i.issue.restaurant /\ seen.type = i.issue.type
                    /\ seen.text = i.issue.text /\ seen.severity = i.issue.severity

=============================================================================
