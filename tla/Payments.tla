-------------------------------- MODULE Payments --------------------------------
(***************************************************************************)
(* Payment preparation on top of a billing period: the readiness of each   *)
(* restaurant (PaymentReadinessService), batches over what a session saw   *)
(* earlier (PaymentBatchService), the state of each payment                *)
(* (PaymentStateMachine over the append-only PaymentRepository), and the   *)
(* reconciliation of a bank statement (PaymentReconciliationService).      *)
(*                                                                         *)
(* Amounts are in tenths of a centime, so that they can fall between two   *)
(* amounts a bank can pay.  A RIB stands for its fingerprint.  The page    *)
(* calls the readiness and preview only, as a dry run; the other services  *)
(* are the library it announces, used here as the tests use it.            *)
(***************************************************************************)
EXTENDS Billing

CONSTANTS
    Registries,        \* what the registry and the publications can say
    Statements,        \* bank statements: sequences of transactions
    BankReferences,    \* the references an officer can give of an execution
    Officers,          \* the sessions with the role ADMIN or FINANCE
    MaxHistory         \* bound of the runs

ASSUME PaymentAssumption ==
    /\ None \notin BankReferences
    /\ \A e \in Evaluations : \A r \in DOMAIN e : e[r].net # None => e[r].net \in Int
    /\ \A lines \in Statements : DOMAIN lines = 1 .. Len(lines)
                                /\ \A n \in DOMAIN lines : lines[n].amount \in Int

VARIABLES
    registry,      \* each restaurant's RIB, identity, legal review and documents
    batch,         \* the batch under preparation
    held,          \* each officer: the version of a payment read from the history
    history,       \* payment_history
    statement      \* the last reconciliation: payments, lines and results

paymentVars == <<registry, batch, held, history, statement>>
vars == <<open, evaluation, cache, events, page, changes,
          registry, batch, held, history, statement>>

----------------------------------------------------------------------------
(* Readiness *)

RibStatus(rib) == CASE rib = None -> "MISSING" [] rib = "invalid" -> "INVALID_FORMAT"
                    [] OTHER -> "VALID_FORMAT"

Net(e, r) == IF e[r].net = None THEN 0 ELSE e[r].net

Readiness(e, reg, r) ==
    IF ~reg[r].identity THEN "PAYMENT_DATA_REVIEW"
    ELSE IF Net(e, r) <= 0 THEN "FINANCIAL_NOT_READY"
    ELSE IF e[r].status # "READY" THEN "SETTLEMENT_REVIEW_REQUIRED"
    ELSE IF ~reg[r].documents THEN "DOCUMENT_NOT_READY"
    ELSE IF reg[r].legal \in {"CONFLICT", "BLOCKED"} THEN "LEGAL_SOURCE_CONFLICT"
    ELSE CASE RibStatus(reg[r].rib) = "MISSING" -> "RIB_MISSING"
           [] RibStatus(reg[r].rib) = "INVALID_FORMAT" -> "RIB_INVALID"
           [] OTHER -> "PAYMENT_READY"

\* Mutant: the snapshot hash covers sales and invoice only.
HashWithoutNet(e, r) == <<r, e[r].sales>>

SnapshotHash(e, r) == <<r, e[r].sales, e[r].invoice, e[r].net>>

Record(e, reg, r) ==
    LET readiness == Readiness(e, reg, r)
    IN  [id |-> r, hash |-> SnapshotHash(e, r), net |-> Net(e, r), rib |-> reg[r].rib,
         readiness |-> readiness,
         status |-> IF readiness = "PAYMENT_READY" THEN "READY" ELSE "NOT_READY",
         bank |-> None, version |-> 1]

Records(e, reg) == [r \in DOMAIN e |-> Record(e, reg, r)]

----------------------------------------------------------------------------
(* Batches *)

Preview(records, chosen) ==
    [items |-> {[records[r] EXCEPT !.status = "IN_BATCH"] : r \in chosen},
     total |-> SumFunction([r \in chosen |-> records[r].net]), status |-> "READY_FOR_REVIEW"]

Stale(b, current) ==
    \E i \in b.items :
        \/ i.id \notin DOMAIN current
        \/ current[i.id].hash # i.hash
        \/ current[i.id].rib # i.rib

\* Mutant: the records the batch was made from pass for the current ones.
ValidateOwnFigures(b, current) ==
    [b EXCEPT !.status = "VALIDATED",
              !.items = {[i EXCEPT !.status = "FINANCE_VALIDATED"] : i \in @}]

Validated(b, current) ==
    IF Stale(b, current) THEN [b EXCEPT !.status = "PAYMENT_BATCH_STALE"]
    ELSE [b EXCEPT !.status = "VALIDATED",
                   !.items = {[i EXCEPT !.status = "FINANCE_VALIDATED"] : i \in @}]

----------------------------------------------------------------------------
(* The states of a payment *)

Transitions(status) ==
    CASE status = "NOT_READY" -> {"READY", "ON_HOLD"}
      [] status = "READY" -> {"IN_BATCH", "ON_HOLD"}
      [] status = "IN_BATCH" -> {"FINANCE_VALIDATED", "ON_HOLD"}
      [] status = "FINANCE_VALIDATED" -> {"PAYMENT_PENDING", "ON_HOLD"}
      [] status = "PAYMENT_PENDING" -> {"PAID", "PAYMENT_FAILED", "ON_HOLD"}
      [] status = "PAID" -> {"RECONCILIATION_REQUIRED"}
      [] status = "RECONCILIATION_REQUIRED" -> {"RECONCILED", "ON_HOLD"}
      [] status = "PAYMENT_FAILED" -> {"ON_HOLD", "PAYMENT_PENDING"}
      [] status = "ON_HOLD" -> {"READY", "CANCELLED"}
      [] OTHER -> {}

\* Mutant: the evidence of an execution is not kept.
WithoutEvidence(record, target, bank) == [record EXCEPT !.status = target, !.version = @ + 1]

Transition(record, target, bank) ==
    [record EXCEPT !.status = target, !.version = @ + 1,
                   !.bank = IF target = "PAID" THEN bank ELSE @]

Entries(r) == {n \in DOMAIN history : history[n].id = r}
LastVersion(r) == history[Max(Entries(r))]

----------------------------------------------------------------------------
(* Reconciliation *)

HalfUp(x) == (x + 5) \div 10
HalfEven(x) == IF x % 10 = 5 /\ (x \div 10) % 2 = 0 THEN x \div 10 ELSE HalfUp(x)
Within1Centime(a, b) == HalfEven(a) - HalfEven(b) \in -1 .. 1

\* The payment a transaction names, or the only one its RIB and amount fit; None.
Named(items, t) ==
    LET internal == {i \in items : i.id = t.internal}
        bank == {i \in items : i.bank # None /\ i.bank = t.bank}
        candidates == {i \in items : i.rib # None /\ i.rib = t.rib
                                     /\ Within1Centime(i.net, t.amount)}
    IN  IF internal # {} THEN CHOOSE i \in internal : TRUE
        ELSE IF bank # {} THEN CHOOSE i \in bank : TRUE
        ELSE IF Cardinality(candidates) = 1 THEN CHOOSE i \in candidates : TRUE
        ELSE None

Compared(i, t) ==
    CASE HalfUp(t.amount) = HalfUp(i.net) -> "EXACT_MATCH"
      [] HalfUp(t.amount) < HalfUp(i.net) -> "PARTIAL_PAYMENT"
      [] OTHER -> "OVERPAYMENT_REVIEW"

Unsettled(status) == [status |-> status, payment |-> None, remaining |-> 0]
Settled(i, t) == [status |-> Compared(i, t), payment |-> i.id,
                  remaining |-> Max({0, HalfUp(i.net) - HalfUp(t.amount)})]

\* Mutant: a statement line is compared without looking at the lines before it.
EveryLineAlone(items, lines) ==
    [n \in DOMAIN lines |->
        LET item == Named(items, lines[n])
        IN  IF item = None THEN Unsettled("MANUAL_REVIEW") ELSE Settled(item, lines[n])]

\* A line knows the references before it, and the payments matched by lines with a new one.
Repeated(lines, n) == \E k \in 1 .. n - 1 : lines[k].bank = lines[n].bank

Matched(items, lines, n) ==
    {Named(items, lines[k]).id : k \in {q \in 1 .. n - 1 :
        ~Repeated(lines, q) /\ Named(items, lines[q]) # None}}

Reconcile(items, lines) ==
    [n \in DOMAIN lines |->
        LET item == Named(items, lines[n])
        IN  CASE Repeated(lines, n) -> Unsettled("DUPLICATE_TRANSACTION")
              [] ~Repeated(lines, n) /\ (item = None \/ item.id \in Matched(items, lines, n)) ->
                  Unsettled("MANUAL_REVIEW")
              [] OTHER -> Settled(item, lines[n])]

----------------------------------------------------------------------------
Init ==
    /\ BillingInit
    /\ registry \in Registries
    /\ batch = None
    /\ held = [o \in Officers |-> None]
    /\ history = <<>>
    /\ statement = None

\* preview refuses a record that is not payment-ready; it looks at no batch before.
MakeBatch ==
    /\ open \cap Officers # {}
    /\ LET records == Records(evaluation, registry)
       IN  \E chosen \in SUBSET DOMAIN records \ {{}} :
            /\ \A r \in chosen : records[r].readiness = "PAYMENT_READY"
            /\ batch' = Preview(records, chosen)
    /\ UNCHANGED <<billingVars, registry, held, history, statement>>

\* validate is given the records as they are computed by then.
ValidateBatch ==
    /\ batch # None /\ batch.status = "READY_FOR_REVIEW"
    /\ batch' = Validated(batch, Records(evaluation, registry))
    /\ UNCHANGED <<billingVars, registry, held, history, statement>>

\* The items of a validated batch enter the history.
StoreItem ==
    /\ batch # None /\ batch.status = "VALIDATED" /\ Len(history) < MaxHistory
    /\ \E i \in batch.items : history' = Append(history, i)
    /\ UNCHANGED <<billingVars, registry, batch, held, statement>>

\* An officer takes the last version of a payment, and appends what becomes of it later.
TakePayment(o) ==
    /\ o \in open /\ held[o] = None
    /\ \E r \in Restaurants :
        /\ Entries(r) # {}
        /\ held' = [held EXCEPT ![o] = LastVersion(r)]
    /\ UNCHANGED <<billingVars, registry, batch, history, statement>>

AppendTransition(o) ==
    /\ held[o] # None /\ Len(history) < MaxHistory
    /\ \E target \in Transitions(held[o].status), bank \in BankReferences :
        history' = Append(history, Transition(held[o], target, bank))
    /\ held' = [held EXCEPT ![o] = None]
    /\ UNCHANGED <<billingVars, registry, batch, statement>>

ReconcileStatement ==
    /\ statement = None
    /\ \E lines \in Statements :
        LET items == {LastVersion(r) : r \in {q \in Restaurants : Entries(q) # {}}}
        IN  statement' = [items |-> items, lines |-> lines, results |-> Reconcile(items, lines)]
    /\ UNCHANGED <<billingVars, registry, batch, held, history>>

RegistryChanges ==
    /\ changes < MaxChanges
    /\ changes' = changes + 1
    /\ registry' \in Registries \ {registry}
    /\ UNCHANGED <<open, evaluation, cache, events, page, batch, held, history, statement>>

Next ==
    \/ BillingNext /\ UNCHANGED paymentVars
    \/ RegistryChanges \/ ReconcileStatement
    \/ MakeBatch \/ ValidateBatch \/ StoreItem
    \/ \E o \in Officers : TakePayment(o) \/ AppendTransition(o)

Spec == Init /\ [][Next]_vars

----------------------------------------------------------------------------
(* Properties *)

(***************************************************************************)
(* A batch that is validated asks of each restaurant the amount and the    *)
(* account the records of that moment show, although between the batch and   *)
(* its validation the settlement or the registry may have changed; the     *)
(* total is the sum of those amounts.                                      *)
(***************************************************************************)
ValidatedPaysWhatIsShown ==
    [][batch' # batch /\ batch' # None /\ batch'.status = "VALIDATED" =>
            /\ \A i \in batch'.items :
                /\ i.net > 0 /\ Net(evaluation, i.id) = i.net
                /\ registry[i.id].rib = i.rib /\ RibStatus(i.rib) = "VALID_FORMAT"
            /\ batch'.total = SumFunction([r \in {i.id : i \in batch'.items} |->
                                              Net(evaluation, r)])]_vars

(***************************************************************************)
(* The history of a payment explains itself whoever wrote to it: a version *)
(* follows an earlier entry of the version before, by a permitted          *)
(* transition and with the same figures, and from PAID on an entry carries *)
(* the bank's reference.                                                   *)
(***************************************************************************)
Executed == {"PAID", "RECONCILIATION_REQUIRED", "RECONCILED"}

HistoryExplainsItself ==
    \A n \in DOMAIN history :
        /\ history[n].status \in Executed => history[n].bank # None
        /\ history[n].version > 1 =>
            \E k \in 1 .. n - 1 :
                /\ history[k].id = history[n].id
                /\ history[k].version = history[n].version - 1
                /\ history[n].status \in Transitions(history[k].status)
                /\ history[k].net = history[n].net /\ history[k].rib = history[n].rib

\* What a result leaves open of the payment i that line t settles
LeavesWhatIsMissing(result, i, t) ==
    LET owed == HalfUp(i.net)
        paid == HalfUp(t.amount)
        left == result.remaining
    IN  CASE result.status = "PARTIAL_PAYMENT" ->
               left > 0 /\ left + paid = owed /\ 10 * left - (i.net - t.amount) \in -9 .. 9
          [] result.status = "OVERPAYMENT_REVIEW" -> left = 0 /\ paid > owed
          [] OTHER -> left = 0 /\ paid = owed

(***************************************************************************)
(* A reconciliation settles no payment twice and counts no bank reference  *)
(* twice, whatever the order of the lines; a line that names a payment     *)
(* settles no other; and what a line leaves open is what it misses of the  *)
(* amount owed: exactly between the two in centimes, and but for less than *)
(* a centime between the amounts as they are.                              *)
(***************************************************************************)
ReconciliationIsSound ==
    statement # None =>
        LET lines == statement.lines
            results == statement.results
            settled == {k \in DOMAIN results : results[k].payment # None}
        IN  /\ DOMAIN results = DOMAIN lines
            /\ \A j, k \in settled : j # k =>
                    results[j].payment # results[k].payment /\ lines[j].bank # lines[k].bank
            /\ \A k \in settled : \A i \in statement.items : i.id = results[k].payment =>
                    /\ (\E q \in statement.items : q.id = lines[k].internal)
                            => lines[k].internal = i.id
                    /\ LeavesWhatIsMissing(results[k], i, lines[k])

=============================================================================
